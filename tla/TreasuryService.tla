-------------------------- MODULE TreasuryService --------------------------
(***************************************************************************)
(* The treasury as a program (wat/services/treasury.wat): one driver       *)
(* thread owns the Treasury value and selects over the receivers of N+1    *)
(* bounded(1) queues, one for the main loop's ticks and one per broker.    *)
(* Each broker owns the sending end of its request queue and the receiving *)
(* end of its response queue; no message names its sender, so the position *)
(* of a receiver in the driver's vector is the identity of the client.     *)
(*                                                                         *)
(* A driver iteration (select, handle, reply) is one step: between the     *)
(* select and the reply only the requesting broker could matter, and it is *)
(* waiting or has gone, which the step reads when it replies.              *)
(***************************************************************************)
EXTENDS Treasury, Sequences, SequencesExt

CONSTANTS
    BrokerCount,
    MaxCandle,         \* bound of the model on the ticks main sends
    MayDie,            \* brokers that may die at any moment of their life
    PeerDeathVisible   \* may select report a dead peer as Err, not as Ok None

ASSUME ServiceAssumption ==
    /\ BrokerCount \in Nat \ {0}
    /\ Owner = 0..(BrokerCount - 1)
    /\ MaxCandle \in Nat
    /\ 0..MaxCandle \subseteq Candle
    /\ \E t \in Term : Term = {t}
    /\ MayDie \subseteq Owner
    /\ PeerDeathVisible \in BOOLEAN

VARIABLES
    queue,          \* channel -> events sent and not yet selected
    reply,          \* broker -> responses sent and not yet received
    txOpen,         \* channel -> its sender is alive
    replyOpen,      \* broker -> the receiver of its responses is alive
    rxs,            \* the driver's receivers
    slots,          \* the driver's routing: TickSlot, or a response queue
    brokerIndices,  \* the driver's broker numbers, -1 for the tick receiver
    driver,         \* "selecting", "exited", "panicked"
    broker,         \* broker -> "idle", the request it awaits, or how it ended
    receipts,       \* broker -> <<kind, id>> of the positions it was handed
    main,           \* "ticking", "joining", "joined"
    nextCandle      \* the candle main sends next

serviceVars == <<queue, reply, txOpen, replyOpen, rxs, slots, brokerIndices,
                 driver, broker, receipts, main, nextCandle>>
allVars == <<vars, serviceVars>>

TickSlot == -1
Channel == {TickSlot} \cup Owner
QueueBound == 1

\* handle-broker-request passes these to issue-paper and issue-real.
EntryCandle == 0
DeadlineCandles == CHOOSE t \in Term : TRUE

Request == {"SubmitPaper", "SubmitReal", "SubmitExit", "BatchGetPaperStates"}

-----------------------------------------------------------------------------
(* Setup: Service and loop-entry.  Receivers, slots and indices start in    *)
(* the same order: the tick channel, then the brokers.                      *)

Wiring == [i \in 1..(BrokerCount + 1) |-> i - 2]

ServiceInit ==
    /\ Init
    /\ queue = [c \in Channel |-> <<>>]
    /\ reply = [b \in Owner |-> <<>>]
    /\ txOpen = [c \in Channel |-> TRUE]
    /\ replyOpen = [b \in Owner |-> TRUE]
    /\ rxs = Wiring /\ slots = Wiring /\ brokerIndices = Wiring
    /\ driver = "selecting"
    /\ broker = [b \in Owner |-> "idle"]
    /\ receipts = [b \in Owner |-> {}]
    /\ main = "ticking"
    /\ nextCandle = 1

-----------------------------------------------------------------------------
(* The main loop *)

SendTick ==
    /\ main = "ticking" /\ driver = "selecting"
    /\ nextCandle <= MaxCandle
    /\ Len(queue[TickSlot]) < QueueBound
    /\ queue' = [queue EXCEPT ![TickSlot] =
                   Append(@, [type |-> "Tick", candle |-> nextCandle])]
    /\ nextCandle' = nextCandle + 1
    /\ UNCHANGED <<vars, reply, txOpen, replyOpen, rxs, slots, brokerIndices,
                   driver, broker, receipts, main>>

\* Main drops the tick sender and goes on to join the driver.
DropTicks ==
    /\ main = "ticking"
    /\ main' = "joining"
    /\ txOpen' = [txOpen EXCEPT ![TickSlot] = FALSE]
    /\ UNCHANGED <<vars, queue, reply, replyOpen, rxs, slots, brokerIndices,
                   driver, broker, receipts, nextCandle>>

Join ==
    /\ main = "joining" /\ driver # "selecting"
    /\ main' = "joined"
    /\ UNCHANGED <<vars, queue, reply, txOpen, replyOpen, rxs, slots,
                   brokerIndices, driver, broker, receipts, nextCandle>>

-----------------------------------------------------------------------------
(* Brokers: the client helpers submit-paper, submit-real, submit-exit and   *)
(* batch-get-paper-states, each a send and then a blocking recv.            *)

Queued(type) ==
    Cardinality({b \in Owner : queue[b] # <<>> /\ queue[b][1].type = type})

\* What a broker may send; the first two are bounded so that the model's
\* MaxPapers and MaxReals never refuse a request in the driver's hands.
Events ==
    [type : IF nextPaperId + Queued("SubmitPaper") < MaxPapers
            THEN {"SubmitPaper"} ELSE {}, from : Asset, price : Price]
    \cup
    [type : IF nextRealId + Queued("SubmitReal") < MaxReals
            THEN {"SubmitReal"} ELSE {}, from : Asset, price : Price]
    \cup
    [type : {"SubmitExit"}, id : 0..(MaxPapers - 1), price : Price]
    \cup
    [type : {"BatchGetPaperStates"}, ids : {0..(MaxPapers - 1)}]

BrokerSend(b, event) ==
    /\ broker[b] = "idle" /\ driver = "selecting"
    /\ Len(queue[b]) < QueueBound
    /\ queue' = [queue EXCEPT ![b] = Append(@, event)]
    /\ broker' = [broker EXCEPT ![b] = event.type]
    /\ UNCHANGED <<vars, reply, txOpen, replyOpen, rxs, slots, brokerIndices,
                   driver, receipts, main, nextCandle>>

\* The positions a response hands to its receiver.  A response of another
\* type than the helper matches yields None, and hands over nothing.
Handed(request, response) ==
    IF \/ request = "SubmitPaper" /\ response.type = "PaperIssued"
       \/ request = "SubmitReal" /\ response.type = "RealIssued"
    THEN response.receipt ELSE {}

BrokerRecv(b) ==
    /\ broker[b] \in Request
    /\ reply[b] # <<>>
    /\ receipts' = [receipts EXCEPT ![b] = @ \cup Handed(broker[b], Head(reply[b]))]
    /\ reply' = [reply EXCEPT ![b] = Tail(@)]
    /\ broker' = [broker EXCEPT ![b] = "idle"]
    /\ UNCHANGED <<vars, queue, txOpen, replyOpen, rxs, slots, brokerIndices,
                   driver, main, nextCandle>>

\* Variant: the helper gives up although the driver runs.
BrokerRecvTimesOut(b) ==
    /\ broker[b] \in Request
    /\ reply[b] = <<>>
    /\ broker' = [broker EXCEPT ![b] = "idle"]
    /\ UNCHANGED <<vars, queue, reply, txOpen, replyOpen, rxs, slots,
                   brokerIndices, driver, receipts, main, nextCandle>>

\* The driver has ended and dropped the response senders: the helper
\* returns None.
BrokerRecvNone(b) ==
    /\ broker[b] \in Request
    /\ reply[b] = <<>> /\ driver # "selecting"
    /\ broker' = [broker EXCEPT ![b] = "idle"]
    /\ UNCHANGED <<vars, queue, reply, txOpen, replyOpen, rxs, slots,
                   brokerIndices, driver, receipts, main, nextCandle>>

\* The broker drops its handle: both ends at once.
CloseHandle(b, end) ==
    /\ broker' = [broker EXCEPT ![b] = end]
    /\ txOpen' = [txOpen EXCEPT ![b] = FALSE]
    /\ replyOpen' = [replyOpen EXCEPT ![b] = FALSE]
    /\ UNCHANGED <<vars, queue, reply, rxs, slots, brokerIndices, driver,
                   receipts, main, nextCandle>>

BrokerDrop(b) == broker[b] = "idle" /\ CloseHandle(b, "done")

\* Its thread unwinds, perhaps between a send and its recv.
BrokerDies(b) ==
    /\ b \in MayDie
    /\ broker[b] \in Request \cup {"idle"}
    /\ CloseHandle(b, "died")

\* The send finds the driver gone: result::expect panics, and the thread's
\* handle goes with it.
BrokerSendFails(b) ==
    broker[b] = "idle" /\ driver # "selecting" /\ CloseHandle(b, "died")

-----------------------------------------------------------------------------
(* The driver *)

\* The driver is about to handle event of type type at position i.
Selected(i, type) ==
    /\ driver = "selecting"
    /\ i \in 1..Len(rxs)
    /\ queue[rxs[i]] # <<>>
    /\ Head(queue[rxs[i]]).type = type

Take(i) == queue' = [queue EXCEPT ![rxs[i]] = Tail(@)]

HandleTick(i) ==
    /\ Selected(i, "Tick")
    /\ slots[i] = TickSlot
    /\ LET candle == Head(queue[rxs[i]]).candle
       IN  CheckDeadlines(candle)
    /\ Take(i)
    /\ UNCHANGED <<reply, txOpen, replyOpen, rxs, slots, brokerIndices, driver,
                   broker, receipts, main, nextCandle>>

\* Send the response through the slot of receiver i; the send blocks while
\* the queue is full.
Respond(i, response) ==
    /\ slots[i] # TickSlot
    /\ replyOpen[slots[i]]
    /\ Len(reply[slots[i]]) < QueueBound
    /\ reply' = [reply EXCEPT ![slots[i]] = Append(@, response)]
    /\ Take(i)
    /\ UNCHANGED <<txOpen, replyOpen, rxs, slots, brokerIndices, driver, broker,
                   receipts, main, nextCandle>>

HandleSubmitPaper(i) ==
    /\ Selected(i, "SubmitPaper")
    /\ LET event == Head(queue[rxs[i]])
       IN  IssuePaper(brokerIndices[i], event.from, event.price,
                      EntryCandle, DeadlineCandles)
    /\ Respond(i, [type |-> "PaperIssued", receipt |-> {<<"paper", nextPaperId>>}])

\* Variant: a denied request gets no response.
HandleSubmitRealSilent(i) ==
    /\ Selected(i, "SubmitReal")
    /\ LET event == Head(queue[rxs[i]])
           owner == brokerIndices[i]
       IN  \/ /\ IssueReal(owner, event.from, event.price,
                           EntryCandle, DeadlineCandles)
              /\ Respond(i, [type |-> "RealIssued",
                             receipt |-> {<<"real", nextRealId>>}])
           \/ /\ DenyReal(owner, event.from)
              /\ Take(i)
              /\ UNCHANGED <<reply, txOpen, replyOpen, rxs, slots,
                             brokerIndices, driver, broker, receipts, main,
                             nextCandle>>

HandleSubmitReal(i) ==
    /\ Selected(i, "SubmitReal")
    /\ LET event == Head(queue[rxs[i]])
           owner == brokerIndices[i]
       IN  \/ /\ IssueReal(owner, event.from, event.price,
                           EntryCandle, DeadlineCandles)
              /\ Respond(i, [type |-> "RealIssued",
                             receipt |-> {<<"real", nextRealId>>}])
           \/ /\ DenyReal(owner, event.from)
              /\ Respond(i, [type |-> "RealIssued", receipt |-> {}])

\* Variant: the response is built, and the old treasury returned with it.
HandleSubmitExitOldValue(i) ==
    /\ Selected(i, "SubmitExit")
    /\ LET event == Head(queue[rxs[i]])
           verdict == IF ValidExit(event.id, event.price)
                      THEN {Grace(ResidueAt(papers[event.id], event.price))} ELSE {}
       IN  Respond(i, [type |-> "ExitResolved", id |-> event.id,
                       verdict |-> verdict])
    /\ UNCHANGED vars

HandleSubmitExit(i) ==
    /\ Selected(i, "SubmitExit")
    /\ LET event == Head(queue[rxs[i]])
       IN  \/ /\ ResolveGrace(event.id, event.price)
              /\ Respond(i, [type |-> "ExitResolved", id |-> event.id,
                             verdict |-> {papers'[event.id].state}])
           \/ /\ DenyExit(event.id, event.price)
              /\ Respond(i, [type |-> "ExitResolved", id |-> event.id,
                             verdict |-> {}])

HandleBatchGet(i) ==
    /\ Selected(i, "BatchGetPaperStates")
    /\ LET known == Head(queue[rxs[i]]).ids \cap DOMAIN papers
       IN  Respond(i, [type |-> "PaperStates",
                       states |-> [id \in known |-> papers[id].state]])
    /\ UNCHANGED vars

Handle(i) ==
    \/ HandleTick(i)
    \/ HandleSubmitPaper(i)
    \/ HandleSubmitReal(i)
    \/ HandleSubmitExit(i)
    \/ HandleBatchGet(i)

\* The reply finds the broker's receiver gone: result::expect panics inside
\* the scope, before the new Treasury value is returned.
PanicOnReply(i) ==
    /\ \E type \in Request : Selected(i, type)
    /\ ~replyOpen[slots[i]]
    /\ driver' = "panicked"
    /\ Take(i)
    /\ UNCHANGED <<vars, reply, txOpen, replyOpen, rxs, slots, brokerIndices,
                   broker, receipts, main, nextCandle>>

Disconnected(i) ==
    /\ driver = "selecting"
    /\ i \in 1..Len(rxs)
    /\ queue[rxs[i]] = <<>> /\ ~txOpen[rxs[i]]

\* Variant: the broker numbers stay when a receiver goes.
PruneKeepsIndices(i) ==
    /\ Disconnected(i)
    /\ rxs' = RemoveAt(rxs, i)
    /\ slots' = RemoveAt(slots, i)
    /\ UNCHANGED <<vars, queue, reply, txOpen, replyOpen, brokerIndices, driver,
                   broker, receipts, main, nextCandle>>

\* Variant: the slots lose their last element instead of the i-th.
PruneLastSlot(i) ==
    /\ Disconnected(i)
    /\ rxs' = RemoveAt(rxs, i)
    /\ slots' = RemoveAt(slots, Len(slots))
    /\ brokerIndices' = RemoveAt(brokerIndices, i)
    /\ UNCHANGED <<vars, queue, reply, txOpen, replyOpen, driver, broker,
                   receipts, main, nextCandle>>

\* Ok None: the three vectors lose position i in lock-step.
Prune(i) ==
    /\ Disconnected(i)
    /\ rxs' = RemoveAt(rxs, i)
    /\ slots' = RemoveAt(slots, i)
    /\ brokerIndices' = RemoveAt(brokerIndices, i)
    /\ UNCHANGED <<vars, queue, reply, txOpen, replyOpen, driver, broker,
                   receipts, main, nextCandle>>

\* Err: the peer behind receiver i died and the substrate says so.  The
\* driver returns at once, whoever is still connected.
PeerDied(i) ==
    /\ Disconnected(i)
    /\ PeerDeathVisible /\ rxs[i] \in Owner /\ broker[rxs[i]] = "died"
    /\ driver' = "exited"
    /\ UNCHANGED <<vars, queue, reply, txOpen, replyOpen, rxs, slots,
                   brokerIndices, broker, receipts, main, nextCandle>>

\* Variant: the driver leaves when the tick channel has closed.
ExitWithTicks ==
    /\ driver = "selecting" /\ TickSlot \notin Range(rxs)
    /\ driver' = "exited"
    /\ UNCHANGED <<vars, queue, reply, txOpen, replyOpen, rxs, slots,
                   brokerIndices, broker, receipts, main, nextCandle>>

\* No receiver is left: the loop returns.
Exit ==
    /\ driver = "selecting" /\ rxs = <<>>
    /\ driver' = "exited"
    /\ UNCHANGED <<vars, queue, reply, txOpen, replyOpen, rxs, slots,
                   brokerIndices, broker, receipts, main, nextCandle>>

\* What the driver does when select returns channel c.
Serve(c) ==
    \E i \in DOMAIN rxs :
        /\ rxs[i] = c
        /\ Handle(i) \/ PanicOnReply(i) \/ Prune(i) \/ PeerDied(i)

-----------------------------------------------------------------------------

Finished ==
    /\ main = "joined"
    /\ \A b \in Owner : broker[b] \in {"done", "died"}
    /\ UNCHANGED allVars

ServiceNext ==
    \/ SendTick
    \/ DropTicks
    \/ Join
    \/ \E b \in Owner : \E event \in Events : BrokerSend(b, event)
    \/ \E b \in Owner : BrokerSendFails(b)
    \/ \E b \in Owner : BrokerRecv(b)
    \/ \E b \in Owner : BrokerRecvNone(b)
    \/ \E b \in Owner : BrokerDrop(b)
    \/ \E b \in Owner : BrokerDies(b)
    \/ \E c \in Channel : Serve(c)
    \/ Exit
    \/ Finished

\* The driver and a blocked receiver always proceed; select leaves no ready
\* channel out for ever.  Brokers and main may stop asking at any time.
Fairness ==
    /\ \A c \in Channel : WF_allVars(Serve(c))
    /\ WF_allVars(Exit)
    /\ WF_allVars(Join)
    /\ \A b \in Owner : WF_allVars(BrokerRecv(b)) /\ WF_allVars(BrokerRecvNone(b))

ServiceSafety == ServiceInit /\ [][ServiceNext]_allVars
ServiceSpec == ServiceSafety /\ Fairness

-----------------------------------------------------------------------------
(* Properties *)

Waiting(b) == broker[b] \in Request

\* The pipe is the identity (loop: remove-at on three vectors): after any
\* order of disconnects, each position still names one client in all three
\* vectors, no client twice, and no client with a live sender is missing.
RoutingAligned ==
    /\ slots = rxs /\ brokerIndices = rxs
    /\ IsInjective(rxs)
    /\ driver = "selecting" => \A c \in Channel : txOpen[c] => c \in Range(rxs)

\* One request, one response: a broker inside a helper has exactly one
\* message under way, its request or the response to it, for as long as the
\* driver runs, and a broker outside a helper has none.  So the driver
\* always finds room to reply and can never block on a send.
OneOutstanding ==
    \A b \in Owner :
        LET underWay == Len(queue[b]) + Len(reply[b])
        IN  /\ broker[b] = "idle" => underWay = 0
            /\ Waiting(b) /\ driver = "selecting" => underWay = 1

\* The response under way to a broker is of the type its helper matches
\* (submit-paper and its siblings answer None to any other), and it is true:
\* a receipt names an existing position of that very broker, an approved
\* exit is recorded in the paper, a resolved state is the paper's state.
ReplyIsTrue ==
    \A b \in Owner : reply[b] # <<>> /\ Waiting(b) =>
        LET r == Head(reply[b])
        IN  CASE broker[b] = "SubmitPaper" ->
                   /\ r.type = "PaperIssued"
                   /\ \A x \in r.receipt : x[1] = "paper" /\ papers[x[2]].owner = b
              [] broker[b] = "SubmitReal" ->
                   /\ r.type = "RealIssued"
                   /\ \A x \in r.receipt : x[1] = "real" /\ reals[x[2]].owner = b
              [] broker[b] = "SubmitExit" ->
                   /\ r.type = "ExitResolved"
                   /\ \A v \in r.verdict : v = papers[r.id].state
              [] broker[b] = "BatchGetPaperStates" ->
                   /\ r.type = "PaperStates"
                   /\ \A id \in DOMAIN r.states :
                         r.states[id] # Active => r.states[id] = papers[id].state

Held(b) ==
    receipts[b] \cup UNION {Handed(broker[b], r) : r \in Range(reply[b])}

\* Exactly once: every position the treasury holds for a broker has its
\* receipt, held by that broker or under way to it and never to two, and
\* every receipt has its position; whatever ticks, prunes, panics of the
\* driver or deaths of others happen.  A broker that died between its send
\* and its recv may have lost one.
ReceiptsMatchPositions ==
    \A b \in Owner :
        LET owned == {<<"paper", id>> : id \in PapersOf(b)} \cup
                     {<<"real", id>> : id \in {i \in DOMAIN reals : reals[i].owner = b}}
        IN  IF broker[b] = "died" THEN Held(b) \subseteq owned ELSE Held(b) = owned

\* Nothing is thrown away at a clean exit: unless a broker has died, the
\* driver returns only when every sender has gone and every event they sent
\* has been handled.
NothingLostAtExit ==
    driver = "exited" /\ (\A b \in Owner : broker[b] # "died") =>
        \A c \in Channel : ~txOpen[c] /\ queue[c] = <<>>

\* The driver, with its queues, is the treasury of module Treasury: each
\* iteration is one of its operations or none, and nobody else touches it.
TreasuryServed == Spec

\* Nobody waits for ever: every helper call returns, whatever the others send
\* and whoever dies; and once main has gone to join the driver and the brokers
\* have dropped their handles, the driver returns and the join with it
\* (EXPERIMENT.md, "What we hope to learn", 2: clean shutdown when all senders
\* drop).
HelpersReturn ==
    /\ \A b \in Owner : Waiting(b) ~> ~Waiting(b)
    /\ (main = "joining" /\ \A b \in Owner : ~txOpen[b]) ~> main = "joined"

=============================================================================
