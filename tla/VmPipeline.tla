----------------------------- MODULE VmPipeline -----------------------------
(***************************************************************************)
(* The thread topology of the reference machine (bin/wat-vm.rs): main feeds *)
(* every candle to N market observers, each fans out through a topic to M   *)
(* regime observers, each of which feeds one broker per market observer, and *)
(* main and all N*M brokers talk to one treasury through a mailbox.         *)
(*                                                                         *)
(* Every queue of the pipeline is bounded(1): it is a cell that is 0 when   *)
(* empty and holds a candle's number otherwise.  Sending into a full cell   *)
(* blocks; a receiver that has gone makes sends fail at once, a sender that *)
(* has gone lets the receiver take what is left and then fails its recv.    *)
(***************************************************************************)
EXTENDS Integers, Sequences, FiniteSets

CONSTANTS
    Markets,      \* number of market observers
    Regimes,      \* number of regime observers
    MaxCandles,   \* candles in the stream, or --max-candles
    MaxCalls,     \* bound: calls a broker makes to the treasury per candle
    MailRoom,     \* capacity of the mailbox's own queue, 64 in the code
    MaxDeaths,    \* bound: threads that panic
    PanicBy       \* bound: the last candle a thread may panic at

ASSUME PipelineAssumption ==
    /\ Markets \in Nat \ {0} /\ Regimes \in Nat \ {0}
    /\ MaxCandles \in Nat /\ MaxDeaths \in Nat /\ PanicBy \in Nat
    /\ MaxCalls \in Nat \ {0} /\ MailRoom \in Nat \ {0}

Market == 1..Markets
Regime == 1..Regimes
Slot == Market \X Regime      \* a broker, or its place at its regime observer
Tick == <<0, 0>>              \* main's tick sender, among the treasury's clients

VARIABLES
    main,      \* control state, next observer to be fed, candles fed
    candleQ,   \* main to market observer
    obs,       \* market observers: control state, last candle taken
    topicQ,    \* market observer to topic
    topic,     \* fan-out threads: control state, last candle, next subscriber
    slotQ,     \* topic to regime observer
    reg,       \* regime observers: control state, slot, round, candle in hand
    chainQ,    \* regime observer to broker
    bro,       \* brokers: control state, last candle taken, calls made for it
    tickQ,     \* main to the mailbox
    mail,      \* what the fan-in thread has taken and the treasury not
    tr,        \* the treasury: "recv" or "gone", ticks handled
    replyQ,    \* treasury to broker
    dead       \* threads that have panicked

flowVars == <<candleQ, obs, topicQ, topic, slotQ, reg, chainQ>>
askVars == <<tickQ, mail, tr, replyQ>>
vars == <<main, flowVars, bro, askVars, dead>>

Init ==
    /\ main = [at |-> "send", to |-> 1, fed |-> 0]
    /\ candleQ = [m \in Market |-> 0]
    /\ obs = [m \in Market |-> [at |-> "recv", candle |-> 0]]
    /\ topicQ = [m \in Market |-> 0]
    /\ topic = [m \in Market |-> [at |-> "recv", candle |-> 0, to |-> 1]]
    /\ slotQ = [s \in Slot |-> 0]
    /\ reg = [e \in Regime |-> [at |-> "recv", slot |-> 1, round |-> 1,
                                candle |-> 0]]
    /\ chainQ = [s \in Slot |-> 0]
    /\ bro = [s \in Slot |-> [at |-> "recv", candle |-> 0, calls |-> 0]]
    /\ tickQ = 0
    /\ mail = <<>>
    /\ tr = [at |-> "recv", clock |-> 0]
    /\ replyQ = [s \in Slot |-> 0]
    /\ dead = {}

-----------------------------------------------------------------------------
(* Main *)

\* The next candle goes to one observer after the other, and then its tick to
\* the treasury.
Feed ==
    /\ main.at = "send"
    /\ main.fed < MaxCandles
    /\ \/ /\ obs[main.to].at = "gone"
          /\ UNCHANGED candleQ
       \/ /\ obs[main.to].at # "gone" /\ candleQ[main.to] = 0
          /\ candleQ' = [candleQ EXCEPT ![main.to] = main.fed + 1]
    /\ main' = IF main.to = Markets THEN [main EXCEPT !.at = "tick"]
                                    ELSE [main EXCEPT !.to = @ + 1]
    /\ UNCHANGED <<obs, topicQ, topic, slotQ, reg, chainQ, bro, askVars, dead>>

\* Variant: a full queue is passed over.
SendTickTries ==
    /\ main.at = "tick"
    /\ tickQ' = IF tickQ = 0 THEN main.fed + 1 ELSE tickQ
    /\ main' = [at |-> "send", to |-> 1, fed |-> main.fed + 1]
    /\ UNCHANGED <<flowVars, bro, mail, tr, replyQ, dead>>

SendTick ==
    /\ main.at = "tick"
    /\ tickQ = 0
    /\ tickQ' = main.fed + 1
    /\ main' = [at |-> "send", to |-> 1, fed |-> main.fed + 1]
    /\ UNCHANGED <<flowVars, bro, mail, tr, replyQ, dead>>

\* The end of the stream, the limit or a signal: drop the candle senders.
EndOfFeed ==
    /\ main.at = "send" /\ main.to = 1
    /\ main' = [main EXCEPT !.at = "joinObservers"]
    /\ UNCHANGED <<flowVars, bro, askVars, dead>>

\* The joins, in the order of the layers; the tick sender goes between the
\* last two.  A thread that panicked is joined as well.
Join ==
    /\ \/ /\ main.at = "joinObservers" /\ \A m \in Market : obs[m].at = "gone"
          /\ main' = [main EXCEPT !.at = "joinRegimes"]
       \/ /\ main.at = "joinRegimes" /\ \A e \in Regime : reg[e].at = "gone"
          /\ main' = [main EXCEPT !.at = "joinBrokers"]
       \/ /\ main.at = "joinBrokers" /\ \A s \in Slot : bro[s].at = "gone"
          /\ main' = [main EXCEPT !.at = "joinTreasury"]
       \/ /\ main.at = "joinTreasury" /\ tr.at = "gone"
          /\ main' = [main EXCEPT !.at = "done"]
    /\ UNCHANGED <<flowVars, bro, askVars, dead>>

Feeding == main.at \in {"send", "tick"}

-----------------------------------------------------------------------------
(* Market observers and their topics *)

ObserverTakes(m) ==
    /\ obs[m].at = "recv"
    /\ candleQ[m] # 0
    /\ obs' = [obs EXCEPT ![m] = [at |-> "send", candle |-> candleQ[m]]]
    /\ candleQ' = [candleQ EXCEPT ![m] = 0]
    /\ UNCHANGED <<main, topicQ, topic, slotQ, reg, chainQ, bro, askVars, dead>>

ObserverSends(m) ==
    /\ obs[m].at = "send"
    /\ topicQ[m] = 0
    /\ topicQ' = [topicQ EXCEPT ![m] = obs[m].candle]
    /\ obs' = [obs EXCEPT ![m].at = "recv"]
    /\ UNCHANGED <<main, candleQ, topic, slotQ, reg, chainQ, bro, askVars, dead>>

\* Variant: what is left in the queue is not taken.
ObserverEndsAtOnce(m) ==
    /\ obs[m].at = "recv" /\ ~Feeding
    /\ obs' = [obs EXCEPT ![m].at = "gone"]
    /\ UNCHANGED <<main, candleQ, topicQ, topic, slotQ, reg, chainQ, bro,
                   askVars, dead>>

ObserverEnds(m) ==
    /\ obs[m].at = "recv"
    /\ candleQ[m] = 0 /\ ~Feeding
    /\ obs' = [obs EXCEPT ![m].at = "gone"]
    /\ UNCHANGED <<main, candleQ, topicQ, topic, slotQ, reg, chainQ, bro,
                   askVars, dead>>

TopicTakes(m) ==
    /\ topic[m].at = "recv"
    /\ topicQ[m] # 0
    /\ topic' = [topic EXCEPT ![m] = [at |-> "fan", candle |-> topicQ[m], to |-> 1]]
    /\ topicQ' = [topicQ EXCEPT ![m] = 0]
    /\ UNCHANGED <<main, candleQ, obs, slotQ, reg, chainQ, bro, askVars, dead>>

\* Variant: a subscriber that is full is passed over.
TopicTries(m) ==
    /\ topic[m].at = "fan"
    /\ LET e == topic[m].to IN
       /\ slotQ' = IF reg[e].at = "gone" \/ slotQ[<<m, e>>] # 0 THEN slotQ
                   ELSE [slotQ EXCEPT ![<<m, e>>] = topic[m].candle]
       /\ topic' = IF e = Regimes THEN [topic EXCEPT ![m].at = "recv"]
                                  ELSE [topic EXCEPT ![m].to = e + 1]
    /\ UNCHANGED <<main, candleQ, obs, topicQ, reg, chainQ, bro, askVars, dead>>

\* One subscriber after the other: a full one holds up the rest, one that has
\* gone is passed over.
TopicSends(m) ==
    /\ topic[m].at = "fan"
    /\ LET e == topic[m].to IN
       /\ \/ reg[e].at = "gone" /\ UNCHANGED slotQ
          \/ /\ reg[e].at # "gone" /\ slotQ[<<m, e>>] = 0
             /\ slotQ' = [slotQ EXCEPT ![<<m, e>>] = topic[m].candle]
       /\ topic' = IF e = Regimes THEN [topic EXCEPT ![m].at = "recv"]
                                  ELSE [topic EXCEPT ![m].to = e + 1]
    /\ UNCHANGED <<main, candleQ, obs, topicQ, reg, chainQ, bro, askVars, dead>>

TopicEnds(m) ==
    /\ topic[m].at = "recv"
    /\ topicQ[m] = 0 /\ obs[m].at = "gone"
    /\ topic' = [topic EXCEPT ![m].at = "gone"]
    /\ UNCHANGED <<main, candleQ, obs, topicQ, slotQ, reg, chainQ, bro,
                   askVars, dead>>

-----------------------------------------------------------------------------
(* Regime observers *)

\* A round takes one chain from every slot in turn and sends it on before the
\* next slot is looked at.
RegimeTakes(e) ==
    LET s == <<reg[e].slot, e>> IN
    /\ reg[e].at = "recv"
    /\ slotQ[s] # 0
    /\ reg' = [reg EXCEPT ![e].at = "send", ![e].candle = slotQ[s]]
    /\ slotQ' = [slotQ EXCEPT ![s] = 0]
    /\ UNCHANGED <<main, candleQ, obs, topicQ, topic, chainQ, bro, askVars, dead>>

RegimeSends(e) ==
    LET s == <<reg[e].slot, e>> IN
    /\ reg[e].at = "send"
    /\ bro[s].at # "gone" /\ chainQ[s] = 0
    /\ chainQ' = [chainQ EXCEPT ![s] = reg[e].candle]
    /\ reg' = [reg EXCEPT ![e].at = "recv",
                          ![e].slot = IF @ = Markets THEN 1 ELSE @ + 1,
                          ![e].round = IF reg[e].slot = Markets
                                       THEN @ + 1 ELSE @]
    /\ UNCHANGED <<main, candleQ, obs, topicQ, topic, slotQ, bro, askVars, dead>>

\* Variant: the end of a broker goes unnoticed.
RegimeEndsAtClose(e) ==
    /\ reg[e].at = "recv" /\ slotQ[<<reg[e].slot, e>>] = 0
    /\ topic[reg[e].slot].at = "gone"
    /\ reg' = [reg EXCEPT ![e].at = "gone"]
    /\ UNCHANGED <<main, candleQ, obs, topicQ, topic, slotQ, chainQ, bro,
                   askVars, dead>>

\* A slot without a sender, or a broker that has gone, ends the whole thread,
\* the other slots with it.
RegimeEnds(e) ==
    LET s == <<reg[e].slot, e>> IN
    /\ \/ reg[e].at = "recv" /\ slotQ[s] = 0 /\ topic[reg[e].slot].at = "gone"
       \/ reg[e].at = "send" /\ bro[s].at = "gone"
    /\ reg' = [reg EXCEPT ![e].at = "gone"]
    /\ UNCHANGED <<main, candleQ, obs, topicQ, topic, slotQ, chainQ, bro,
                   askVars, dead>>

-----------------------------------------------------------------------------
(* Brokers *)

BrokerTakes(s) ==
    /\ bro[s].at = "recv"
    /\ chainQ[s] # 0
    /\ bro' = [bro EXCEPT ![s] = [at |-> "ask", candle |-> chainQ[s], calls |-> 0]]
    /\ chainQ' = [chainQ EXCEPT ![s] = 0]
    /\ UNCHANGED <<main, candleQ, obs, topicQ, topic, slotQ, reg, askVars, dead>>

\* What a thread that selects over the event queues may take on: the message
\* it holds while the mailbox is full is one more than the room.  Sent to a
\* treasury that has gone, a message is lost.
Post(message) ==
    /\ Len(mail) <= MailRoom
    /\ mail' = IF tr.at = "gone" THEN mail ELSE Append(mail, message)

\* A call to the treasury: the paper, an exit, the batch of states.  A request
\* the fan-in thread has not picked yet is one not yet made, since the broker
\* does nothing else.
BrokerAsks(s) ==
    /\ bro[s].at = "ask"
    /\ Post([from |-> s, candle |-> bro[s].candle])
    /\ bro' = [bro EXCEPT ![s].at = "wait", ![s].calls = @ + 1]
    /\ UNCHANGED <<main, flowVars, tickQ, tr, replyQ, dead>>

\* It comes back with the answer, or with none from a treasury that has
\* gone, and there may be more to ask about this candle.
BrokerGoesOn(s) ==
    /\ bro[s].at = "wait"
    /\ replyQ[s] # 0 \/ tr.at = "gone"
    /\ replyQ' = [replyQ EXCEPT ![s] = 0]
    /\ \E at \in {"recv", "ask"} :
        /\ at = "ask" => bro[s].calls < MaxCalls
        /\ bro' = [bro EXCEPT ![s].at = at]
    /\ UNCHANGED <<main, flowVars, tickQ, mail, tr, dead>>

BrokerEnds(s) ==
    /\ bro[s].at = "recv"
    /\ chainQ[s] = 0 /\ reg[s[2]].at = "gone"
    /\ bro' = [bro EXCEPT ![s].at = "gone"]
    /\ UNCHANGED <<main, flowVars, askVars, dead>>

-----------------------------------------------------------------------------
(* The mailbox and the treasury *)

FanIn ==
    /\ tickQ # 0
    /\ Post([from |-> Tick, candle |-> tickQ])
    /\ tickQ' = 0
    /\ UNCHANGED <<main, flowVars, bro, tr, replyQ, dead>>

TreasuryTicks ==
    /\ tr.at = "recv"
    /\ mail # <<>> /\ Head(mail).from = Tick
    /\ tr' = [tr EXCEPT !.clock = Head(mail).candle]
    /\ mail' = Tail(mail)
    /\ UNCHANGED <<main, flowVars, bro, tickQ, replyQ, dead>>

TreasuryAnswers ==
    /\ tr.at = "recv"
    /\ mail # <<>> /\ Head(mail).from # Tick
    /\ LET s == Head(mail).from IN
       replyQ' = IF bro[s].at = "gone" THEN replyQ
                 ELSE [replyQ EXCEPT ![s] = Head(mail).candle]
    /\ mail' = Tail(mail)
    /\ UNCHANGED <<main, flowVars, bro, tickQ, tr, dead>>

\* The fan-in thread ends when no sender is left, and the treasury with it.
TreasuryEnds ==
    /\ tr.at = "recv"
    /\ main.at = "joinTreasury"
    /\ mail = <<>> /\ tickQ = 0
    /\ tr' = [tr EXCEPT !.at = "gone"]
    /\ UNCHANGED <<main, flowVars, bro, tickQ, mail, replyQ, dead>>

-----------------------------------------------------------------------------
(* Panics: a thread at work drops everything it holds *)

Dies(thread, candle) ==
    /\ Cardinality(dead) < MaxDeaths
    /\ candle <= PanicBy
    /\ dead' = dead \cup {thread}

ObserverDies(m) ==
    /\ Dies(<<"observer", m>>, obs[m].candle)
    /\ obs[m].at = "send"
    /\ obs' = [obs EXCEPT ![m].at = "gone"]
    /\ UNCHANGED <<main, candleQ, topicQ, topic, slotQ, reg, chainQ, bro, askVars>>

RegimeDies(e) ==
    /\ Dies(<<"regime", e>>, reg[e].candle)
    /\ reg[e].at = "send"
    /\ reg' = [reg EXCEPT ![e].at = "gone"]
    /\ UNCHANGED <<main, candleQ, obs, topicQ, topic, slotQ, chainQ, bro, askVars>>

BrokerDies(s) ==
    /\ Dies(<<"broker", s>>, bro[s].candle)
    /\ bro[s].at = "ask"
    /\ bro' = [bro EXCEPT ![s].at = "gone"]
    /\ UNCHANGED <<main, flowVars, askVars>>

TreasuryDies ==
    /\ Dies(<<"treasury", 0>>, tr.clock)
    /\ tr.at = "recv" /\ mail # <<>>
    /\ tr' = [tr EXCEPT !.at = "gone"]
    /\ mail' = <<>>
    /\ UNCHANGED <<main, flowVars, bro, tickQ, replyQ>>

-----------------------------------------------------------------------------
Main == Feed \/ SendTick \/ EndOfFeed \/ Join
Observer(m) == ObserverTakes(m) \/ ObserverSends(m) \/ ObserverEnds(m)
Topic(m) == TopicTakes(m) \/ TopicSends(m) \/ TopicEnds(m)
RegimeObserver(e) == RegimeTakes(e) \/ RegimeSends(e) \/ RegimeEnds(e)
Broker(s) == BrokerTakes(s) \/ BrokerAsks(s) \/ BrokerGoesOn(s) \/ BrokerEnds(s)
Treasury == TreasuryTicks \/ TreasuryAnswers \/ TreasuryEnds

Panic ==
    \/ \E m \in Market : ObserverDies(m)
    \/ \E e \in Regime : RegimeDies(e)
    \/ \E s \in Slot : BrokerDies(s)
    \/ TreasuryDies

Next ==
    \/ Main
    \/ \E m \in Market : Observer(m) \/ Topic(m)
    \/ \E e \in Regime : RegimeObserver(e)
    \/ \E s \in Slot : Broker(s)
    \/ FanIn \/ Treasury
    \/ Panic
    \/ main.at = "done" /\ UNCHANGED vars

\* Every thread is scheduled; nobody has to panic.
Fairness ==
    /\ WF_vars(Main) /\ WF_vars(FanIn) /\ WF_vars(Treasury)
    /\ \A m \in Market : WF_vars(Observer(m)) /\ WF_vars(Topic(m))
    /\ \A e \in Regime : WF_vars(RegimeObserver(e))
    /\ \A s \in Slot : WF_vars(Broker(s))

Spec == Init /\ [][Next]_vars /\ Fairness

-----------------------------------------------------------------------------
(* What the topology promises *)

\* Whatever feeds broker s, and whoever shares its regime observer.
Upstream(s) ==
    {<<"observer", m>> : m \in Market} \cup {<<"regime", s[2]>>}
        \cup {<<"broker", <<m, s[2]>>>> : m \in Market}

\* In a round of a regime observer, whose rhythms are those of its first
\* slot, every slot brings the same candle.
RoundsAligned ==
    \A e \in Regime : reg[e].at = "send" => reg[e].candle = reg[e].round

\* A broker handles the candles in order, without a gap; one that has nobody
\* dead upstream has handled all of them when the machine ends, whoever else
\* died, and so has the treasury.
NoneLost ==
    /\ \A s \in Slot :
          bro[s].at # "gone" /\ chainQ[s] # 0 => chainQ[s] = bro[s].candle + 1
    /\ main.at = "done" =>
          /\ \A s \in Slot :
                Upstream(s) \cap dead = {} => bro[s].candle = main.fed
          /\ <<"treasury", 0>> \notin dead => tr.clock = main.fed

\* The treasury judges by its own clock what a broker asks about an earlier
\* or later candle: when it does, the tick before last has been handled, and,
\* as long as the broker's two observers live, backpressure keeps the clock
\* within seven candles.
ClocksClose ==
    /\ mail # <<>> /\ Head(mail).from # Tick => Head(mail).candle - 2 <= tr.clock
    /\ \A s \in Slot :
          bro[s].at \in {"ask", "wait"} /\ obs[s[1]].at # "gone"
            /\ reg[s[2]].at # "gone" => tr.clock <= bro[s].candle + 7

\* The machine comes to its end, whoever panics.
MachineEnds == <>(main.at = "done")

=============================================================================
