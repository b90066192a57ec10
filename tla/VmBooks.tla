------------------------------ MODULE VmBooks -------------------------------
(***************************************************************************)
(* The bank and its brokers at work (treasury_program, broker_program):     *)
(* main feeds candles and ticks the treasury, each broker handles the       *)
(* candles at its own pace, submits one paper for each, may propose to      *)
(* leave all the papers it holds, asks what has become of them and learns   *)
(* from those that are resolved.  The clocks drift as in VmPipeline, whose  *)
(* observers are left out: a broker may be any number of candles behind     *)
(* main.                                                                    *)
(***************************************************************************)
EXTENDS VmTreasury

CONSTANTS
    Candles,      \* the candles a stream is made of: a close and a volatility
    MaxCandles,   \* bound: candles in the stream
    MayDie        \* whether the treasury's thread may panic

ASSUME BooksAssumption ==
    /\ \A c \in Candles : c.close \in Nat \ {0} /\ c.atr \in Nat
    /\ MaxCandles \in Nat /\ MayDie \in BOOLEAN

VARIABLES
    stream,    \* the candles fed so far
    ticks,     \* how many main has sent, and the mailbox picked up
    mail,      \* ticks and requests on their way to the treasury
    bro,       \* brokers: what they wait for, and what they know
    gone       \* the treasury's thread has panicked

vars == <<bankVars, stream, ticks, mail, bro, gone>>

Init ==
    /\ BankInit
    /\ stream = <<>>
    /\ ticks = [sent |-> 0, posted |-> 0]
    /\ mail = <<>>
    /\ bro = [b \in Brokers |-> [at |-> "recv", candle |-> 0, receipts |-> {},
                                 exits |-> {}, grace |-> 0, violence |-> 0]]
    /\ gone = FALSE

-----------------------------------------------------------------------------
(* Main: a candle to every broker, then its tick to the treasury *)

Feed ==
    /\ ticks.sent = Len(stream)
    /\ Len(stream) < MaxCandles
    /\ \E candle \in Candles : stream' = Append(stream, candle)
    /\ UNCHANGED <<bankVars, ticks, mail, bro, gone>>

SendTick ==
    /\ ticks.sent < Len(stream)
    /\ ticks.posted = ticks.sent
    /\ ticks' = [ticks EXCEPT !.sent = @ + 1]
    /\ UNCHANGED <<bankVars, stream, mail, bro, gone>>

Post(message) == mail' = IF gone THEN mail ELSE Append(mail, message)

FanIn ==
    /\ ticks.posted < ticks.sent
    /\ Post([kind |-> "tick", candle |-> ticks.sent])
    /\ ticks' = [ticks EXCEPT !.posted = ticks.sent]
    /\ UNCHANGED <<bankVars, stream, bro, gone>>

-----------------------------------------------------------------------------
(* What a broker asks *)

Close(b) == stream[bro[b].candle].close

\* A request the mailbox has not picked up is one not yet made.
Ask(b, request) ==
    /\ Post(request)
    /\ UNCHANGED <<bankVars, stream, ticks, gone>>

\* A candle, and the paper for it.
SubmitPaper(b) ==
    /\ bro[b].at = "recv"
    /\ bro[b].candle < Len(stream)
    /\ bro' = [bro EXCEPT ![b].at = "paper", ![b].candle = @ + 1]
    /\ Ask(b, [kind |-> "paper", from |-> b,
               price |-> stream[bro[b].candle + 1].close])

\* Receipts are kept in the order of issue.
Oldest(ids) == CHOOSE i \in ids : \A j \in ids : i <= j

SubmitExit(b) ==
    /\ bro[b].at = "check" /\ bro[b].exits # {}
    /\ bro' = [bro EXCEPT ![b].at = "exit"]
    /\ Ask(b, [kind |-> "exit", from |-> b, id |-> Oldest(bro[b].exits),
               price |-> Close(b)])

BatchGet(b) ==
    /\ bro[b].at = "check" /\ bro[b].exits = {} /\ bro[b].receipts # {}
    /\ bro' = [bro EXCEPT ![b].at = "states"]
    /\ Ask(b, [kind |-> "states", from |-> b, ids |-> bro[b].receipts])

NothingHeld(b) ==
    /\ bro[b].at = "check" /\ bro[b].exits = {} /\ bro[b].receipts = {}
    /\ bro' = [bro EXCEPT ![b].at = "recv"]
    /\ UNCHANGED <<bankVars, stream, ticks, mail, gone>>

-----------------------------------------------------------------------------
(* What it does with the answer *)

\* Variant: before anything has been learned.
MayLeaveUntaught(b) == TRUE

\* The exit reckoner asks to leave only when an outcome has taught it to; then
\* all that is held is proposed.
MayLeave(b) == bro[b].grace + bro[b].violence > 0

GetsPaper(b, issued) ==
    LET held == bro[b].receipts \cup issued IN
    \E wantsExit \in BOOLEAN :
        /\ wantsExit => MayLeave(b)
        /\ bro' = [bro EXCEPT ![b].at = "check", ![b].receipts = held,
                              ![b].exits = IF wantsExit THEN held ELSE {}]

GetsExit(b) ==
    bro' = [bro EXCEPT ![b].at = "check", ![b].exits = @ \ {Oldest(@)}]

\* Variant: what is resolved is learned and kept.
GetsStatesKept(b, states) ==
    LET Told(state) == {id \in bro[b].receipts \cap DOMAIN states :
                           states[id] = state}
    IN
    bro' = [bro EXCEPT ![b].at = "recv",
                       ![b].grace = @ + Cardinality(Told("Grace")),
                       ![b].violence = @ + Cardinality(Told("Violence"))]

\* What is resolved is learned and let go; what the answer does not name is
\* let go as well.
GetsStates(b, states) ==
    LET Told(state) == {id \in bro[b].receipts \cap DOMAIN states :
                           states[id] = state}
    IN
    bro' = [bro EXCEPT ![b].at = "recv",
                       ![b].receipts = Told("Active"),
                       ![b].grace = @ + Cardinality(Told("Grace")),
                       ![b].violence = @ + Cardinality(Told("Violence"))]

\* No answer comes from a treasury that has gone.
Unanswered(b) ==
    /\ gone
    /\ \/ bro[b].at = "paper" /\ GetsPaper(b, {})
       \/ bro[b].at = "exit" /\ GetsExit(b)
       \/ bro[b].at = "states" /\ GetsStates(b, <<>>)
    /\ UNCHANGED <<bankVars, stream, ticks, mail, gone>>

-----------------------------------------------------------------------------
(* The treasury's loop.  The broker takes its answer in the step that gives  *)
(* it: it does nothing else in between, and nobody looks at it.              *)

Receives(kind) ==
    /\ ~gone
    /\ mail # <<>> /\ Head(mail).kind = kind
    /\ mail' = Tail(mail)
    /\ UNCHANGED <<stream, ticks, gone>>

HandleNextTick ==
    /\ Receives("tick")
    /\ HandleTick(Head(mail).candle, stream[Head(mail).candle].atr)
    /\ UNCHANGED bro

HandlePaper ==
    LET r == Head(mail) IN
    /\ Receives("paper")
    /\ IssuePaper(r.from, r.price)
    /\ GetsPaper(r.from, {Len(papers) + 1})

HandleExit ==
    LET r == Head(mail) IN
    /\ Receives("exit")
    /\ ResolveGrace(r.id, r.price)
    /\ GetsExit(r.from)

HandleStates ==
    LET r == Head(mail) IN
    /\ Receives("states")
    /\ GetsStates(r.from, [id \in r.ids |-> papers[id].state])
    /\ UNCHANGED bankVars

TreasuryDies ==
    /\ MayDie /\ ~gone /\ mail # <<>>
    /\ gone' = TRUE
    /\ mail' = <<>>
    /\ UNCHANGED <<bankVars, stream, ticks, bro>>

-----------------------------------------------------------------------------
Broker(b) ==
    SubmitPaper(b) \/ SubmitExit(b) \/ BatchGet(b) \/ NothingHeld(b) \/ Unanswered(b)

Treasury ==
    HandleNextTick \/ HandlePaper \/ HandleExit \/ HandleStates \/ TreasuryDies

\* The stream is over and everything in it has been handled.
StreamOver ==
    /\ Len(stream) = MaxCandles /\ ticks.posted = MaxCandles /\ mail = <<>>
    /\ \A b \in Brokers : bro[b].at = "recv" /\ bro[b].candle = MaxCandles
    /\ UNCHANGED vars

Next ==
    \/ Feed \/ SendTick \/ FanIn
    \/ \E b \in Brokers : Broker(b)
    \/ Treasury
    \/ StreamOver

Spec == Init /\ [][Next]_vars

-----------------------------------------------------------------------------
(* What the two sides promise each other *)

Resolved(b, state) == Mine(b, state) \ bro[b].receipts

\* As long as the treasury lives, a broker holds every open paper of its own,
\* and has learned every paper it holds no longer exactly once, with the
\* treasury's verdict.  One that has lost the treasury has learned nothing that
\* was not so.
OutcomesLearned ==
    \A b \in Brokers :
        /\ bro[b].grace <= Cardinality(Resolved(b, "Grace"))
        /\ bro[b].violence <= Cardinality(Resolved(b, "Violence"))
        /\ ~gone => /\ bro[b].grace = Cardinality(Resolved(b, "Grace"))
                    /\ bro[b].violence = Cardinality(Resolved(b, "Violence"))
                    /\ Mine(b, "Active") \subseteq bro[b].receipts

\* Nobody leaves with a profit before a paper of its own has run out: leaving
\* is learned from a failure.
TaughtByFailure ==
    \A b \in Brokers : record[b].survived > 0 => record[b].failed > 0

\* A paper is resolved to Grace for its owner only, at the price of the candle
\* the owner is handling, while by the bank's clock it is not overdue.
GraceIsEarned ==
    [][\A i \in DOMAIN papers :
          papers[i].state # "Grace" /\ papers'[i].state = "Grace" =>
              /\ bro[papers[i].owner].at = "exit"
              /\ clock < papers[i].deadline \/ clock = papers[i].entry
              /\ papers'[i].residue = Residue(papers[i].price,
                                              Close(papers[i].owner))
              /\ papers'[i].residue > 0]_vars

=============================================================================
