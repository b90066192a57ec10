-------------------------- MODULE VmPipeline_proofs --------------------------
(***************************************************************************)
(* Proofs about the pipeline of the reference machine, for any number of    *)
(* observers and candles and whoever panics.                                *)
(***************************************************************************)
EXTENDS VmPipeline, FiniteSetTheorems, TLAPS

-----------------------------------------------------------------------------
(* The actions *)

\* Who may have changed what.
Movers ==
    /\ main' = main \/ Feed \/ SendTick \/ EndOfFeed \/ Join
    /\ candleQ' = candleQ \/ Feed \/ \E m \in Market : ObserverTakes(m)
    /\ obs' = obs
         \/ \E m \in Market : \/ ObserverTakes(m) \/ ObserverSends(m)
                              \/ ObserverEnds(m) \/ ObserverDies(m)
    /\ topicQ' = topicQ
         \/ \E m \in Market : ObserverSends(m) \/ TopicTakes(m)
    /\ topic' = topic
         \/ \E m \in Market : TopicTakes(m) \/ TopicSends(m) \/ TopicEnds(m)
    /\ slotQ' = slotQ
         \/ (\E m \in Market : TopicSends(m))
         \/ \E e \in Regime : RegimeTakes(e)
    /\ reg' = reg
         \/ \E e \in Regime : \/ RegimeTakes(e) \/ RegimeSends(e)
                              \/ RegimeEnds(e) \/ RegimeDies(e)
    /\ chainQ' = chainQ
         \/ (\E e \in Regime : RegimeSends(e))
         \/ \E s \in Slot : BrokerTakes(s)
    /\ bro' = bro
         \/ \E s \in Slot : \/ BrokerTakes(s) \/ BrokerAsks(s)
                            \/ BrokerGoesOn(s) \/ BrokerEnds(s)
                            \/ BrokerDies(s)
    /\ tickQ' = tickQ \/ SendTick \/ FanIn
    /\ mail' = mail \/ (\E s \in Slot : BrokerAsks(s)) \/ FanIn
         \/ TreasuryTicks \/ TreasuryAnswers \/ TreasuryDies
    /\ tr' = tr \/ TreasuryTicks \/ TreasuryEnds \/ TreasuryDies
    /\ replyQ' = replyQ \/ TreasuryAnswers
         \/ \E s \in Slot : BrokerGoesOn(s)
    /\ dead' = dead \/ (\E m \in Market : ObserverDies(m))
         \/ (\E e \in Regime : RegimeDies(e))
         \/ (\E s \in Slot : BrokerDies(s)) \/ TreasuryDies

LEMMA WhoMoves == ASSUME [Next]_vars PROVE Movers
<1>1. CASE Feed \/ SendTick \/ EndOfFeed \/ Join
  BY <1>1 DEF Movers, Feed, SendTick, EndOfFeed, Join, flowVars, askVars
<1>2. ASSUME NEW m \in Market,
             ObserverTakes(m) \/ ObserverSends(m) \/ ObserverEnds(m)
               \/ ObserverDies(m)
      PROVE  Movers
  BY <1>2 DEF Movers, ObserverTakes, ObserverSends, ObserverEnds, ObserverDies,
              Dies, askVars
<1>3. ASSUME NEW m \in Market, TopicTakes(m) \/ TopicSends(m) \/ TopicEnds(m)
      PROVE  Movers
  BY <1>3 DEF Movers, TopicTakes, TopicSends, TopicEnds, askVars
<1>4. ASSUME NEW e \in Regime,
             RegimeTakes(e) \/ RegimeSends(e) \/ RegimeEnds(e) \/ RegimeDies(e)
      PROVE  Movers
  BY <1>4 DEF Movers, RegimeTakes, RegimeSends, RegimeEnds, RegimeDies, Dies,
              askVars
<1>5. ASSUME NEW s \in Slot,
             BrokerTakes(s) \/ BrokerAsks(s) \/ BrokerGoesOn(s)
               \/ BrokerEnds(s) \/ BrokerDies(s)
      PROVE  Movers
  BY <1>5 DEF Movers, BrokerTakes, BrokerAsks, BrokerGoesOn, BrokerEnds,
              BrokerDies, Post, Dies, flowVars, askVars
<1>6. CASE FanIn \/ TreasuryTicks \/ TreasuryAnswers \/ TreasuryEnds
             \/ TreasuryDies
  BY <1>6 DEF Movers, FanIn, Post, TreasuryTicks, TreasuryAnswers, TreasuryEnds,
              TreasuryDies, Dies, flowVars, askVars
<1>7. CASE UNCHANGED vars
  BY <1>7 DEF Movers, vars, flowVars, askVars
<1> QED
  BY <1>1, <1>2, <1>3, <1>4, <1>5, <1>6, <1>7
  DEF Next, Main, Observer, Topic, RegimeObserver, Broker, Treasury, Panic

-----------------------------------------------------------------------------
(* Types *)

Message == [from : Slot \cup {Tick}, candle : Nat]

MainTypes ==
    main \in [at : {"send", "tick", "joinObservers", "joinRegimes",
                    "joinBrokers", "joinTreasury", "done"},
              to : Market, fed : Nat]

ObserverTypes ==
    /\ candleQ \in [Market -> Nat]
    /\ obs \in [Market -> [at : {"recv", "send", "gone"}, candle : Nat]]

TopicTypes ==
    /\ topicQ \in [Market -> Nat]
    /\ topic \in [Market -> [at : {"recv", "fan", "gone"}, candle : Nat,
                             to : Regime]]

RegimeTypes ==
    /\ slotQ \in [Slot -> Nat]
    /\ reg \in [Regime -> [at : {"recv", "send", "gone"}, slot : Market,
                           round : Nat \ {0}, candle : Nat]]

BrokerTypes ==
    /\ chainQ \in [Slot -> Nat]
    /\ bro \in [Slot -> [at : {"recv", "ask", "wait", "gone"}, candle : Nat,
                         calls : Nat]]

MailTypes ==
    /\ tickQ \in Nat
    /\ mail \in Seq(Message)
    /\ tr \in [at : {"recv", "gone"}, clock : Nat]

Types == /\ MainTypes /\ ObserverTypes /\ TopicTypes
         /\ RegimeTypes /\ BrokerTypes /\ MailTypes

LEMMA Sizes ==
    /\ Markets \in Nat \ {0} /\ Regimes \in Nat \ {0}
    /\ 1 \in Market /\ 1 \in Regime
    /\ Tick \notin Slot
    /\ \A m \in Market, e \in Regime : <<m, e>> \in Slot
    /\ \A s \in Slot : s[1] \in Market /\ s[2] \in Regime /\ s = <<s[1], s[2]>>
BY PipelineAssumption DEF PipelineAssumption, Market, Regime, Slot, Tick

\* The head of the mailbox.
LEMMA HeadOfMail ==
    ASSUME MailTypes, mail # <<>>
    PROVE  /\ Head(mail) \in Message /\ Tail(mail) \in Seq(Message)
           /\ Head(mail) = mail[1] /\ Len(mail) \in Nat \ {0}
           /\ Len(Tail(mail)) = Len(mail) - 1
           /\ \A i \in 1..(Len(mail) - 1) : Tail(mail)[i] = mail[i + 1]
BY DEF MailTypes

LEMMA TypesInit == Init => Types
<1>1. Init => MainTypes /\ ObserverTypes /\ TopicTypes
  BY Sizes DEF Init, MainTypes, ObserverTypes, TopicTypes
<1>2. Init => RegimeTypes /\ BrokerTypes /\ MailTypes
  BY Sizes DEF Init, RegimeTypes, BrokerTypes, MailTypes
<1> QED
  BY <1>1, <1>2 DEF Types

LEMMA TypesStep ==
    ASSUME Types, [Next]_vars
    PROVE  Types'
<1> USE DEF Types
<1>1. MainTypes'
  <2>1. CASE main' = main
    BY <2>1 DEF MainTypes
  <2>2. CASE Feed
    BY <2>2, PipelineAssumption DEF MainTypes, Feed, Market, PipelineAssumption
  <2>3. CASE SendTick
    BY <2>3, Sizes DEF MainTypes, SendTick
  <2>4. CASE EndOfFeed
    BY <2>4 DEF MainTypes, EndOfFeed
  <2>5. CASE Join
    BY <2>5 DEF MainTypes, Join
  <2> QED
    BY <2>1, <2>2, <2>3, <2>4, <2>5, WhoMoves DEF Movers
<1>2. ObserverTypes'
  <2>1. candleQ' \in [Market -> Nat]
    BY WhoMoves DEF Movers, ObserverTypes, MainTypes, Feed, ObserverTakes
  <2>2. obs' \in [Market -> [at : {"recv", "send", "gone"}, candle : Nat]]
    <3>1. ASSUME NEW m \in Market, ObserverTakes(m)
          PROVE  obs' \in [Market -> [at : {"recv", "send", "gone"}, candle : Nat]]
      BY <3>1 DEF ObserverTypes, ObserverTakes
    <3>2. ASSUME NEW m \in Market,
                 ObserverSends(m) \/ ObserverEnds(m) \/ ObserverDies(m)
          PROVE  obs' \in [Market -> [at : {"recv", "send", "gone"}, candle : Nat]]
      BY <3>2 DEF ObserverTypes, ObserverSends, ObserverEnds, ObserverDies
    <3> QED
      BY <3>1, <3>2, WhoMoves DEF Movers, ObserverTypes
  <2> QED
    BY <2>1, <2>2 DEF ObserverTypes
<1>3. TopicTypes'
  <2>1. topicQ' \in [Market -> Nat]
    BY WhoMoves DEF Movers, TopicTypes, ObserverTypes, ObserverSends, TopicTakes
  <2>2. topic' = topic => TopicTypes'
    BY <2>1 DEF TopicTypes
  <2>3. ASSUME NEW m \in Market, TopicTakes(m) \/ TopicEnds(m)
        PROVE  TopicTypes'
    BY <2>1, <2>3, Sizes DEF TopicTypes, TopicTakes, TopicEnds
  <2>4. ASSUME NEW m \in Market, TopicSends(m) PROVE TopicTypes'
    BY <2>1, <2>4, Sizes DEF TopicTypes, TopicSends, Regime
  <2> QED
    BY <2>2, <2>3, <2>4, WhoMoves DEF Movers
<1>4. RegimeTypes'
  <2>1. ASSUME NEW m \in Market, TopicSends(m) PROVE slotQ' \in [Slot -> Nat]
    <3>1. topic[m].candle \in Nat
      BY DEF TopicTypes
    <3>2. slotQ' = slotQ
            \/ slotQ' = [slotQ EXCEPT ![<<m, topic[m].to>>] = topic[m].candle]
      BY <2>1 DEF TopicSends
    <3> QED
      BY <3>1, <3>2 DEF RegimeTypes
  <2>2. ASSUME NEW e \in Regime, RegimeTakes(e) PROVE RegimeTypes'
    <3> DEFINE s == <<reg[e].slot, e>>
    <3>1. s \in Slot /\ slotQ[s] \in Nat
      BY Sizes DEF RegimeTypes
    <3>2. /\ slotQ' = [slotQ EXCEPT ![s] = 0]
          /\ reg' = [reg EXCEPT ![e] = [@ EXCEPT !.at = "send",
                                                !.candle = slotQ[s]]]
      BY <2>2 DEF RegimeTakes, RegimeTypes
    <3> HIDE DEF s
    <3> QED
      BY <3>1, <3>2 DEF RegimeTypes
  <2>3. ASSUME NEW e \in Regime, RegimeEnds(e) \/ RegimeDies(e)
        PROVE  reg' \in [Regime -> [at : {"recv", "send", "gone"}, slot : Market,
                                   round : Nat \ {0}, candle : Nat]]
    BY <2>3 DEF RegimeTypes, RegimeEnds, RegimeDies
  <2>4. ASSUME NEW e \in Regime, RegimeSends(e)
        PROVE  reg' \in [Regime -> [at : {"recv", "send", "gone"}, slot : Market,
                                   round : Nat \ {0}, candle : Nat]]
    <3>1. PICK i \in Market, n \in Nat \ {0} :
             reg' = [reg EXCEPT ![e] = [@ EXCEPT !.at = "recv", !.slot = i,
                                                 !.round = n]]
      <4>1. reg[e].slot \in Market /\ reg[e].round \in Nat \ {0}
        BY DEF RegimeTypes
      <4>2. (IF reg[e].slot = Markets THEN 1 ELSE reg[e].slot + 1) \in Market
        BY <4>1, Sizes DEF Market
      <4>3. (IF reg[e].slot = Markets THEN reg[e].round + 1 ELSE reg[e].round)
              \in Nat \ {0}
        BY <4>1
      <4> QED
        BY <2>4, <4>2, <4>3 DEF RegimeSends
    <3> QED
      BY <3>1 DEF RegimeTypes
  <2> QED
    BY <2>1, <2>2, <2>3, <2>4, WhoMoves
    DEF Movers, RegimeTypes, RegimeTakes
<1>5. BrokerTypes'
  <2>1. ASSUME NEW e \in Regime, RegimeSends(e) PROVE chainQ' \in [Slot -> Nat]
    BY <2>1 DEF BrokerTypes, RegimeTypes, RegimeSends
  <2>2. ASSUME NEW s \in Slot, BrokerTakes(s) PROVE BrokerTypes'
    BY <2>2 DEF BrokerTypes, BrokerTakes
  <2>3. ASSUME NEW s \in Slot,
               BrokerAsks(s) \/ BrokerGoesOn(s) \/ BrokerEnds(s) \/ BrokerDies(s)
        PROVE  bro' \in [Slot -> [at : {"recv", "ask", "wait", "gone"},
                                 candle : Nat, calls : Nat]]
    <3>1. CASE BrokerAsks(s)
      BY <3>1 DEF BrokerTypes, BrokerAsks
    <3>2. CASE BrokerGoesOn(s)
      BY <3>2 DEF BrokerTypes, BrokerGoesOn
    <3>3. CASE BrokerEnds(s) \/ BrokerDies(s)
      BY <3>3 DEF BrokerTypes, BrokerEnds, BrokerDies
    <3> QED
      BY <2>3, <3>1, <3>2, <3>3
  <2> QED
    BY <2>1, <2>2, <2>3, WhoMoves DEF Movers, BrokerTypes
<1>6. MailTypes'
  <2>1. tickQ' \in Nat
    BY WhoMoves DEF Movers, MailTypes, MainTypes, SendTick, FanIn
  <2>2. ASSUME NEW x \in Message, Post(x) PROVE mail' \in Seq(Message)
    BY <2>2 DEF Post, MailTypes
  <2>3. mail' \in Seq(Message)
    <3>1. ASSUME NEW s \in Slot, BrokerAsks(s) PROVE mail' \in Seq(Message)
      <4>1. [from |-> s, candle |-> bro[s].candle] \in Message
        BY DEF Message, BrokerTypes
      <4> QED
        BY <2>2, <3>1, <4>1 DEF BrokerAsks
    <3>2. CASE FanIn
      <4>1. [from |-> Tick, candle |-> tickQ] \in Message
        BY DEF Message, MailTypes
      <4> QED
        BY <2>2, <3>2, <4>1 DEF FanIn
    <3>3. CASE TreasuryTicks \/ TreasuryAnswers
      BY <3>3, HeadOfMail DEF TreasuryTicks, TreasuryAnswers
    <3>4. CASE TreasuryDies
      BY <3>4 DEF TreasuryDies
    <3>5. CASE mail' = mail
      BY <3>5 DEF MailTypes
    <3> QED
      BY <3>1, <3>2, <3>3, <3>4, <3>5, WhoMoves DEF Movers
  <2>4. tr' \in [at : {"recv", "gone"}, clock : Nat]
    <3>1. CASE TreasuryTicks
      BY <3>1, HeadOfMail DEF MailTypes, TreasuryTicks, Message
    <3>2. CASE TreasuryEnds \/ TreasuryDies \/ tr' = tr
      BY <3>2 DEF MailTypes, TreasuryEnds, TreasuryDies
    <3> QED
      BY <3>1, <3>2, WhoMoves DEF Movers
  <2> QED
    BY <2>1, <2>3, <2>4 DEF MailTypes
<1> QED
  BY <1>1, <1>2, <1>3, <1>4, <1>5, <1>6

THEOREM TypesCorrect == Spec => []Types
BY TypesInit, TypesStep, PTL DEF Spec

-----------------------------------------------------------------------------
(* How far every stage has come *)

DeadAreGone ==
    /\ \A m \in Market : <<"observer", m>> \in dead => obs[m].at = "gone"
    /\ \A e \in Regime : <<"regime", e>> \in dead => reg[e].at = "gone"
    /\ \A s \in Slot : <<"broker", s>> \in dead => bro[s].at = "gone"
    /\ <<"treasury", 0>> \in dead => tr.at = "gone"

\* What the stage behind a cell has taken, if `sent` went into it.
Through(cell, sent) == IF cell = 0 THEN sent ELSE sent - 1

\* Candles sent by main to m, by m to its topic, by the topic to e; taken by e
\* from slot m, and sent by e to the broker there.
Fed(m) == IF main.at = "tick" \/ (main.at = "send" /\ m < main.to)
          THEN main.fed + 1 ELSE main.fed

Observed(m) == IF obs[m].at = "send" \/ <<"observer", m>> \in dead
               THEN obs[m].candle - 1 ELSE obs[m].candle

Fanned(m, e) == IF topic[m].at = "fan" /\ topic[m].to <= e
                THEN topic[m].candle - 1 ELSE topic[m].candle

Taken(e, m) == IF m < reg[e].slot \/ (m = reg[e].slot /\ reg[e].at = "send")
               THEN reg[e].round ELSE reg[e].round - 1

Chained(e, m) == IF m < reg[e].slot THEN reg[e].round ELSE reg[e].round - 1

ObserverFlow ==
    \A m \in Market :
        /\ obs[m].candle <= Fed(m)
        /\ obs[m].at # "gone" =>
              /\ candleQ[m] \in {0, Fed(m)}
              /\ obs[m].candle = Through(candleQ[m], Fed(m))
        /\ obs[m].at = "send" => obs[m].candle > 0

TopicFlow ==
    \A m \in Market :
        /\ topicQ[m] \in {0, Observed(m)}
        /\ topic[m].candle = Through(topicQ[m], Observed(m))
        /\ topic[m].at = "fan" => topic[m].candle > 0

RegimeFlow ==
    \A m \in Market, e \in Regime :
        /\ Taken(e, m) <= Fanned(m, e)
        /\ reg[e].at # "gone" =>
              /\ slotQ[<<m, e>>] \in {0, Fanned(m, e)}
              /\ Taken(e, m) = Through(slotQ[<<m, e>>], Fanned(m, e))

BrokerFlow ==
    \A m \in Market, e \in Regime :
        bro[<<m, e>>].at # "gone" =>
            /\ chainQ[<<m, e>>] \in {0, Chained(e, m)}
            /\ bro[<<m, e>>].candle = Through(chainQ[<<m, e>>], Chained(e, m))

Flow == /\ Types /\ DeadAreGone /\ ObserverFlow /\ TopicFlow
        /\ RegimeFlow /\ RoundsAligned /\ BrokerFlow

LEMMA FlowInit == Init => Flow
<1> SUFFICES ASSUME Init PROVE Flow
  OBVIOUS
<1>1. DeadAreGone
  BY DEF Init, DeadAreGone
<1>2. ObserverFlow /\ TopicFlow
  BY DEF Init, ObserverFlow, TopicFlow, Fed, Observed, Through, Market
<1>3. RegimeFlow /\ BrokerFlow
  <2> SUFFICES ASSUME NEW m \in Market, NEW e \in Regime
               PROVE  /\ Taken(e, m) = 0 /\ Chained(e, m) = 0 /\ Fanned(m, e) = 0
                      /\ slotQ[<<m, e>>] = 0 /\ chainQ[<<m, e>>] = 0
                      /\ bro[<<m, e>>].candle = 0
    BY DEF RegimeFlow, BrokerFlow, Through
  <2>1. <<m, e>> \in Slot /\ ~(m < 1)
    BY Sizes DEF Market
  <2> QED
    BY <2>1 DEF Init, Taken, Chained, Fanned
<1>4. RoundsAligned
  BY DEF Init, RoundsAligned
<1> QED
  BY <1>1, <1>2, <1>3, <1>4, TypesInit DEF Flow

\* main has sent m one candle more, or as many as before.
LEMMA FedStep ==
    ASSUME Types, [Next]_vars, NEW m \in Market
    PROVE  \/ Fed(m)' = Fed(m)
           \/ Feed /\ main.to = m /\ Fed(m) = main.fed /\ Fed(m)' = main.fed + 1
<1> USE DEF Types, MainTypes
<1>1. CASE main' = main
  BY <1>1 DEF Fed
<1>2. CASE Feed
  BY <1>2, Sizes DEF Feed, Fed, Market
<1>3. CASE SendTick
  BY <1>3 DEF SendTick, Fed, Market
<1>4. CASE EndOfFeed
  BY <1>4 DEF EndOfFeed, Fed, Market
<1>5. CASE Join
  BY <1>5 DEF Join, Fed
<1> QED
  BY <1>1, <1>2, <1>3, <1>4, <1>5, WhoMoves DEF Movers

LEMMA DeadStep ==
    ASSUME Types, DeadAreGone, [Next]_vars
    PROVE  DeadAreGone'
<1>1. ASSUME NEW m \in Market, <<"observer", m>> \in dead'
      PROVE  obs'[m].at = "gone"
  <2>1. \/ <<"observer", m>> \in dead \/ ObserverDies(m)
    BY <1>1, WhoMoves DEF Movers, ObserverDies, RegimeDies, BrokerDies,
                          TreasuryDies, Dies
  <2>2. CASE ObserverDies(m)
    BY <2>2 DEF ObserverDies, Types, ObserverTypes
  <2>3. CASE <<"observer", m>> \in dead
    <3>1. obs[m].at = "gone"
      BY <2>3 DEF DeadAreGone
    <3>2. ASSUME NEW n \in Market,
                 \/ ObserverTakes(n) \/ ObserverSends(n) \/ ObserverEnds(n)
                 \/ ObserverDies(n)
          PROVE  n # m /\ obs'[m] = obs[m]
      BY <3>1, <3>2 DEF ObserverTakes, ObserverSends, ObserverEnds,
                        ObserverDies, Types, ObserverTypes
    <3> QED
      BY <3>1, <3>2, WhoMoves DEF Movers
  <2> QED
    BY <2>1, <2>2, <2>3
<1>2. ASSUME NEW e \in Regime, <<"regime", e>> \in dead'
      PROVE  reg'[e].at = "gone"
  <2>1. \/ <<"regime", e>> \in dead \/ RegimeDies(e)
    BY <1>2, WhoMoves DEF Movers, ObserverDies, RegimeDies, BrokerDies,
                          TreasuryDies, Dies
  <2>2. CASE RegimeDies(e)
    BY <2>2 DEF RegimeDies, Types, RegimeTypes
  <2>3. CASE <<"regime", e>> \in dead
    <3>1. reg[e].at = "gone"
      BY <2>3 DEF DeadAreGone
    <3>2. ASSUME NEW n \in Regime,
                 RegimeTakes(n) \/ RegimeSends(n) \/ RegimeEnds(n) \/ RegimeDies(n)
          PROVE  n # e /\ reg'[e] = reg[e]
      BY <3>1, <3>2 DEF RegimeTakes, RegimeSends, RegimeEnds, RegimeDies,
                        Types, RegimeTypes
    <3> QED
      BY <3>1, <3>2, WhoMoves DEF Movers
  <2> QED
    BY <2>1, <2>2, <2>3
<1>3. ASSUME NEW s \in Slot, <<"broker", s>> \in dead'
      PROVE  bro'[s].at = "gone"
  <2>1. \/ <<"broker", s>> \in dead \/ BrokerDies(s)
    BY <1>3, WhoMoves DEF Movers, ObserverDies, RegimeDies, BrokerDies,
                          TreasuryDies, Dies
  <2>2. CASE BrokerDies(s)
    BY <2>2 DEF BrokerDies, Types, BrokerTypes
  <2>3. CASE <<"broker", s>> \in dead
    <3>1. bro[s].at = "gone"
      BY <2>3 DEF DeadAreGone
    <3>2. ASSUME NEW n \in Slot,
                 \/ BrokerTakes(n) \/ BrokerAsks(n) \/ BrokerGoesOn(n)
                 \/ BrokerEnds(n) \/ BrokerDies(n)
          PROVE  n # s /\ bro'[s] = bro[s]
      BY <3>1, <3>2 DEF BrokerTakes, BrokerAsks, BrokerGoesOn, BrokerEnds,
                        BrokerDies, Types, BrokerTypes
    <3> QED
      BY <3>1, <3>2, WhoMoves DEF Movers
  <2> QED
    BY <2>1, <2>2, <2>3
<1>4. <<"treasury", 0>> \in dead' => tr'.at = "gone"
  <2>1. \/ <<"treasury", 0>> \notin dead' \/ <<"treasury", 0>> \in dead
        \/ TreasuryDies
    BY WhoMoves DEF Movers, ObserverDies, RegimeDies, BrokerDies, Dies
  <2> QED
    BY <2>1, WhoMoves DEF Movers, TreasuryTicks, TreasuryEnds, TreasuryDies,
                          Types, MailTypes, DeadAreGone
<1> QED
  BY <1>1, <1>2, <1>3, <1>4 DEF DeadAreGone

-----------------------------------------------------------------------------
(* Every step moves candles at one place *)

\* Who may have changed what belongs to one observer.
LEMMA AtObserver ==
    ASSUME Types, [Next]_vars, NEW m \in Market
    PROVE  /\ \/ obs'[m] = obs[m] \/ ObserverTakes(m) \/ ObserverSends(m)
              \/ ObserverEnds(m) \/ ObserverDies(m)
           /\ candleQ'[m] = candleQ[m] \/ (Feed /\ main.to = m) \/ ObserverTakes(m)
           /\ topicQ'[m] = topicQ[m] \/ ObserverSends(m) \/ TopicTakes(m)
           /\ \/ topic'[m] = topic[m] \/ TopicTakes(m) \/ TopicSends(m)
              \/ TopicEnds(m)
           /\ <<"observer", m>> \in dead' =>
                 <<"observer", m>> \in dead \/ ObserverDies(m)
           /\ dead \subseteq dead'
<1>1. \/ obs'[m] = obs[m] \/ ObserverTakes(m) \/ ObserverSends(m)
      \/ ObserverEnds(m) \/ ObserverDies(m)
  BY WhoMoves DEF Movers, ObserverTakes, ObserverSends, ObserverEnds,
                  ObserverDies, Types, ObserverTypes
<1>2. candleQ'[m] = candleQ[m] \/ (Feed /\ main.to = m) \/ ObserverTakes(m)
  BY WhoMoves DEF Movers, ObserverTakes, Feed, Types, ObserverTypes
<1>3. topicQ'[m] = topicQ[m] \/ ObserverSends(m) \/ TopicTakes(m)
  BY WhoMoves DEF Movers, ObserverSends, TopicTakes, Types, TopicTypes
<1>4. topic'[m] = topic[m] \/ TopicTakes(m) \/ TopicSends(m) \/ TopicEnds(m)
  <2>1. ASSUME NEW n \in Market, n # m, TopicTakes(n) \/ TopicEnds(n)
        PROVE  topic'[m] = topic[m]
    BY <2>1 DEF TopicTakes, TopicEnds, Types, TopicTypes
  <2>2. ASSUME NEW n \in Market, n # m, TopicSends(n)
        PROVE  topic'[m] = topic[m]
    BY <2>2 DEF TopicSends, Types, TopicTypes
  <2> QED
    BY <2>1, <2>2, WhoMoves DEF Movers
<1>5. <<"observer", m>> \in dead' => <<"observer", m>> \in dead \/ ObserverDies(m)
  BY WhoMoves DEF Movers, ObserverDies, RegimeDies, BrokerDies, TreasuryDies, Dies
<1>6. dead \subseteq dead'
  BY WhoMoves DEF Movers, ObserverDies, RegimeDies, BrokerDies, TreasuryDies, Dies
<1> QED
  BY <1>1, <1>2, <1>3, <1>4, <1>5, <1>6

\* And what belongs to one regime observer and one broker of it.
LEMMA AtRegime ==
    ASSUME Types, [Next]_vars, NEW m \in Market, NEW e \in Regime
    PROVE  /\ \/ slotQ'[<<m, e>>] = slotQ[<<m, e>>]
              \/ TopicSends(m) /\ topic[m].to = e
              \/ RegimeTakes(e) /\ reg[e].slot = m
           /\ \/ reg'[e] = reg[e] \/ RegimeTakes(e) \/ RegimeSends(e)
              \/ RegimeEnds(e) \/ RegimeDies(e)
           /\ \/ chainQ'[<<m, e>>] = chainQ[<<m, e>>]
              \/ RegimeSends(e) /\ reg[e].slot = m
              \/ BrokerTakes(<<m, e>>)
           /\ \/ bro'[<<m, e>>] = bro[<<m, e>>]
              \/ BrokerTakes(<<m, e>>) \/ BrokerAsks(<<m, e>>)
              \/ BrokerGoesOn(<<m, e>>) \/ BrokerEnds(<<m, e>>)
              \/ BrokerDies(<<m, e>>)
<1>0. <<m, e>> \in Slot
  BY Sizes
<1>1. \/ slotQ'[<<m, e>>] = slotQ[<<m, e>>]
      \/ TopicSends(m) /\ topic[m].to = e
      \/ RegimeTakes(e) /\ reg[e].slot = m
  <2>1. ASSUME NEW n \in Market, TopicSends(n), n # m \/ topic[n].to # e
        PROVE  slotQ'[<<m, e>>] = slotQ[<<m, e>>]
    BY <2>1, <1>0 DEF TopicSends, Types, RegimeTypes
  <2>2. ASSUME NEW f \in Regime, RegimeTakes(f), f # e \/ reg[f].slot # m
        PROVE  slotQ'[<<m, e>>] = slotQ[<<m, e>>]
    <3>1. slotQ' = [slotQ EXCEPT ![<<reg[f].slot, f>>] = 0]
      BY <2>2 DEF RegimeTakes
    <3>2. <<reg[f].slot, f>> # <<m, e>>
      BY <2>2
    <3> QED
      BY <3>1, <3>2, <1>0 DEF Types, RegimeTypes
  <2> QED
    BY <2>1, <2>2, WhoMoves DEF Movers
<1>2. \/ reg'[e] = reg[e] \/ RegimeTakes(e) \/ RegimeSends(e)
      \/ RegimeEnds(e) \/ RegimeDies(e)
  <2>1. ASSUME NEW f \in Regime, f # e,
               RegimeTakes(f) \/ RegimeSends(f) \/ RegimeEnds(f) \/ RegimeDies(f)
        PROVE  reg'[e] = reg[e]
    BY <2>1 DEF RegimeTakes, RegimeSends, RegimeEnds, RegimeDies, Types,
                RegimeTypes
  <2> QED
    BY <2>1, WhoMoves DEF Movers
<1>3. \/ chainQ'[<<m, e>>] = chainQ[<<m, e>>]
      \/ RegimeSends(e) /\ reg[e].slot = m
      \/ BrokerTakes(<<m, e>>)
  <2>1. ASSUME NEW f \in Regime, RegimeSends(f), f # e \/ reg[f].slot # m
        PROVE  chainQ'[<<m, e>>] = chainQ[<<m, e>>]
    <3>1. chainQ' = [chainQ EXCEPT ![<<reg[f].slot, f>>] = reg[f].candle]
      BY <2>1 DEF RegimeSends
    <3>2. <<reg[f].slot, f>> # <<m, e>>
      BY <2>1
    <3> QED
      BY <3>1, <3>2, <1>0 DEF Types, BrokerTypes
  <2>2. ASSUME NEW s \in Slot, BrokerTakes(s), s # <<m, e>>
        PROVE  chainQ'[<<m, e>>] = chainQ[<<m, e>>]
    BY <2>2, <1>0 DEF BrokerTakes, Types, BrokerTypes
  <2> QED
    BY <2>1, <2>2, WhoMoves DEF Movers
<1>4. \/ bro'[<<m, e>>] = bro[<<m, e>>]
      \/ BrokerTakes(<<m, e>>) \/ BrokerAsks(<<m, e>>)
      \/ BrokerGoesOn(<<m, e>>) \/ BrokerEnds(<<m, e>>)
      \/ BrokerDies(<<m, e>>)
  <2>1. ASSUME NEW s \in Slot, s # <<m, e>>,
               \/ BrokerTakes(s) \/ BrokerAsks(s) \/ BrokerGoesOn(s)
               \/ BrokerEnds(s) \/ BrokerDies(s)
        PROVE  bro'[<<m, e>>] = bro[<<m, e>>]
    BY <2>1, <1>0 DEF BrokerTakes, BrokerAsks, BrokerGoesOn, BrokerEnds,
                      BrokerDies, Types, BrokerTypes
  <2> QED
    BY <2>1, <1>0, WhoMoves DEF Movers
<1> QED
  BY <1>1, <1>2, <1>3, <1>4

LEMMA ObservedStep ==
    ASSUME Flow, [Next]_vars, NEW m \in Market
    PROVE  \/ Observed(m)' = Observed(m)
           \/ ObserverSends(m) /\ Observed(m)' = Observed(m) + 1
<1> USE DEF Flow, Types, ObserverTypes
<1>1. CASE obs'[m] = obs[m]
  BY <1>1, AtObserver DEF Observed, ObserverDies
<1>2. CASE ObserverTakes(m)
  <2>1. obs[m].candle = candleQ[m] - 1 /\ <<"observer", m>> \notin dead
    BY <1>2 DEF ObserverTakes, ObserverFlow, Through, DeadAreGone
  <2> QED
    BY <1>2, <2>1 DEF ObserverTakes, Observed
<1>3. CASE ObserverSends(m)
  BY <1>3 DEF ObserverSends, Observed, DeadAreGone
<1>4. CASE ObserverEnds(m)
  BY <1>4 DEF ObserverEnds, Observed
<1>5. CASE ObserverDies(m)
  BY <1>5 DEF ObserverDies, Dies, Observed
<1> QED
  BY <1>1, <1>2, <1>3, <1>4, <1>5, AtObserver

LEMMA FannedStep ==
    ASSUME Flow, [Next]_vars, NEW m \in Market, NEW e \in Regime
    PROVE  \/ Fanned(m, e)' = Fanned(m, e)
           \/ TopicSends(m) /\ topic[m].to = e
                /\ Fanned(m, e) = topic[m].candle - 1
                /\ Fanned(m, e)' = topic[m].candle
<1> USE DEF Flow, Types, TopicTypes
<1>1. CASE topic'[m] = topic[m]
  BY <1>1 DEF Fanned
<1>2. CASE TopicTakes(m)
  <2>1. topic[m].candle = topicQ[m] - 1
    BY <1>2 DEF TopicTakes, TopicFlow, Through
  <2> QED
    BY <1>2, <2>1 DEF TopicTakes, Fanned, Regime
<1>3. CASE TopicSends(m)
  <2>1. topic[m].to \in 1..Regimes /\ e \in 1..Regimes /\ Regimes \in Nat
        /\ topic[m].candle \in Nat /\ topic[m].at = "fan"
    BY <1>3, Sizes DEF TopicSends, Regime
  <2>2. CASE topic[m].to = Regimes
    <3>1. topic'[m].at = "recv" /\ topic'[m].candle = topic[m].candle
      BY <1>3, <2>2 DEF TopicSends
    <3> QED
      BY <1>3, <2>1, <2>2, <3>1 DEF Fanned
  <2>3. CASE topic[m].to # Regimes
    <3>1. /\ topic'[m].at = "fan" /\ topic'[m].candle = topic[m].candle
          /\ topic'[m].to = topic[m].to + 1
      BY <1>3, <2>3 DEF TopicSends
    <3> QED
      BY <1>3, <2>1, <2>3, <3>1 DEF Fanned
  <2> QED
    BY <2>2, <2>3
<1>4. CASE TopicEnds(m)
  BY <1>4 DEF TopicEnds, Fanned
<1> QED
  BY <1>1, <1>2, <1>3, <1>4, AtObserver

\* A regime observer's round: what a sending step does to its two counts.
LEMMA TakenStep ==
    ASSUME Flow, [Next]_vars, NEW m \in Market, NEW e \in Regime
    PROVE  \/ Taken(e, m)' = Taken(e, m)
           \/ /\ RegimeTakes(e) /\ reg[e].slot = m
              /\ Taken(e, m)' = Taken(e, m) + 1
           \/ reg'[e].at = "gone" /\ Taken(e, m)' <= Taken(e, m)
<1> USE DEF Flow, Types, RegimeTypes
<1>1. CASE reg'[e] = reg[e]
  BY <1>1 DEF Taken
<1>2. CASE RegimeTakes(e)
  <2>1. /\ reg[e].at = "recv" /\ reg'[e].at = "send"
        /\ reg'[e].slot = reg[e].slot /\ reg'[e].round = reg[e].round
    BY <1>2 DEF RegimeTakes
  <2> QED
    BY <1>2, <2>1 DEF Taken, Market
<1>3. CASE RegimeSends(e)
  <2>1. /\ reg[e].at = "send" /\ reg'[e].at = "recv"
        /\ reg'[e].slot = IF reg[e].slot = Markets THEN 1 ELSE reg[e].slot + 1
        /\ reg'[e].round = IF reg[e].slot = Markets THEN reg[e].round + 1
                                                    ELSE reg[e].round
    BY <1>3 DEF RegimeSends
  <2>2. reg[e].slot \in 1..Markets /\ m \in 1..Markets /\ Markets \in Nat
        /\ reg[e].round \in Nat
    BY Sizes DEF Market
  <2> QED
    BY <2>1, <2>2 DEF Taken
<1>4. CASE RegimeEnds(e) \/ RegimeDies(e)
  <2>1. /\ reg'[e].at = "gone" /\ reg'[e].slot = reg[e].slot
        /\ reg'[e].round = reg[e].round
    BY <1>4 DEF RegimeEnds, RegimeDies
  <2> QED
    BY <2>1 DEF Taken, Market
<1> QED
  BY <1>1, <1>2, <1>3, <1>4, AtRegime

LEMMA ChainedStep ==
    ASSUME Flow, [Next]_vars, NEW m \in Market, NEW e \in Regime
    PROVE  \/ Chained(e, m)' = Chained(e, m)
           \/ /\ RegimeSends(e) /\ reg[e].slot = m
              /\ Chained(e, m)' = Chained(e, m) + 1
              /\ Chained(e, m)' = reg[e].candle
<1> USE DEF Flow, Types, RegimeTypes
<1>1. CASE reg'[e] = reg[e]
  BY <1>1 DEF Chained
<1>2. CASE RegimeTakes(e) \/ RegimeEnds(e) \/ RegimeDies(e)
  <2>1. reg'[e].slot = reg[e].slot /\ reg'[e].round = reg[e].round
    BY <1>2 DEF RegimeTakes, RegimeEnds, RegimeDies
  <2> QED
    BY <2>1 DEF Chained
<1>3. CASE RegimeSends(e)
  <2>1. /\ reg[e].candle = reg[e].round
        /\ reg'[e].slot = IF reg[e].slot = Markets THEN 1 ELSE reg[e].slot + 1
        /\ reg'[e].round = IF reg[e].slot = Markets THEN reg[e].round + 1
                                                    ELSE reg[e].round
    BY <1>3 DEF RegimeSends, RoundsAligned
  <2>2. reg[e].slot \in 1..Markets /\ m \in 1..Markets /\ Markets \in Nat
        /\ reg[e].round \in Nat
    BY Sizes DEF Market
  <2> QED
    BY <1>3, <2>1, <2>2 DEF Chained
<1> QED
  BY <1>1, <1>2, <1>3, AtRegime

LEMMA ObserverFlowStep ==
    ASSUME Flow, [Next]_vars
    PROVE  ObserverFlow'
<1> USE DEF Flow, Types, MainTypes, ObserverTypes
<1> SUFFICES ASSUME NEW m \in Market
             PROVE  /\ obs'[m].candle <= Fed(m)'
                    /\ obs'[m].at # "gone" =>
                          /\ candleQ'[m] \in {0, Fed(m)'}
                          /\ obs'[m].candle = Through(candleQ'[m], Fed(m)')
                    /\ obs'[m].at = "send" => obs'[m].candle > 0
  BY DEF ObserverFlow, Through
<1>0. /\ Fed(m) \in Nat /\ obs[m].candle \in Nat /\ candleQ[m] \in Nat
      /\ obs[m].candle <= Fed(m)
      /\ obs[m].at # "gone" =>
            /\ candleQ[m] \in {0, Fed(m)}
            /\ obs[m].candle = Through(candleQ[m], Fed(m))
      /\ obs[m].at = "send" => obs[m].candle > 0
  BY DEF ObserverFlow, Fed
<1>1. CASE Feed /\ main.to = m
  <2>1. obs'[m] = obs[m]
    BY <1>1 DEF Feed
  <2>2. Fed(m) = main.fed /\ Fed(m)' = main.fed + 1
    BY <1>1, Sizes DEF Feed, Fed, Market
  <2>3. obs[m].at # "gone" => candleQ[m] = 0 /\ candleQ'[m] = main.fed + 1
    BY <1>1 DEF Feed
  <2> QED
    BY <1>0, <2>1, <2>2, <2>3 DEF Through
<1>2. CASE ~(Feed /\ main.to = m)
  <2>1. Fed(m)' = Fed(m)
    BY <1>2, FedStep
  <2>2. CASE ObserverTakes(m)
    <3>1. /\ candleQ[m] # 0 /\ candleQ'[m] = 0 /\ obs[m].at = "recv"
          /\ obs'[m] = [at |-> "send", candle |-> candleQ[m]]
      BY <2>2 DEF ObserverTakes
    <3> QED
      BY <1>0, <2>1, <3>1 DEF Through
  <2>3. CASE ~ObserverTakes(m)
    <3>1. candleQ'[m] = candleQ[m]
      BY <1>2, <2>3, AtObserver
    <3>2. \/ obs'[m] = obs[m]
          \/ obs'[m].candle = obs[m].candle /\ obs'[m].at = "gone"
          \/ obs'[m].candle = obs[m].candle /\ obs[m].at = "send"
             /\ obs'[m].at = "recv"
      <4>1. ASSUME ObserverSends(m)
            PROVE  obs'[m].candle = obs[m].candle /\ obs[m].at = "send"
                   /\ obs'[m].at = "recv"
        BY <4>1 DEF ObserverSends
      <4>2. ASSUME ObserverEnds(m) \/ ObserverDies(m)
            PROVE  obs'[m].candle = obs[m].candle /\ obs'[m].at = "gone"
        BY <4>2 DEF ObserverEnds, ObserverDies
      <4> QED
        BY <2>3, <4>1, <4>2, AtObserver
    <3>3. CASE obs'[m] = obs[m]
      BY <1>0, <2>1, <3>1, <3>3 DEF Through
    <3>4. CASE obs'[m].candle = obs[m].candle /\ obs'[m].at = "gone"
      BY <1>0, <2>1, <3>4
    <3>5. CASE obs'[m].candle = obs[m].candle /\ obs[m].at = "send"
               /\ obs'[m].at = "recv"
      BY <1>0, <2>1, <3>1, <3>5 DEF Through
    <3> QED
      BY <3>2, <3>3, <3>4, <3>5
  <2> QED
    BY <2>2, <2>3
<1> QED
  BY <1>1, <1>2

LEMMA TopicFlowStep ==
    ASSUME Flow, [Next]_vars
    PROVE  TopicFlow'
<1> USE DEF Flow, Types, TopicTypes
<1> SUFFICES ASSUME NEW m \in Market
             PROVE  /\ topicQ'[m] \in {0, Observed(m)'}
                    /\ topic'[m].candle = Through(topicQ'[m], Observed(m)')
                    /\ topic'[m].at = "fan" => topic'[m].candle > 0
  BY DEF TopicFlow, Through
<1>0. /\ Observed(m) \in Int /\ topic[m].candle \in Nat /\ topicQ[m] \in Nat
      /\ topicQ[m] \in {0, Observed(m)}
      /\ topic[m].candle = Through(topicQ[m], Observed(m))
      /\ topic[m].at = "fan" => topic[m].candle > 0
  BY DEF TopicFlow, Observed, ObserverTypes
<1>1. CASE ObserverSends(m)
  <2>1. topicQ[m] = 0 /\ topicQ'[m] = obs[m].candle /\ topic'[m] = topic[m]
    BY <1>1 DEF ObserverSends
  <2>2. obs[m].candle > 0 /\ Observed(m) = obs[m].candle - 1
    BY <1>1 DEF ObserverSends, ObserverFlow, Observed
  <2>3. Observed(m)' = obs[m].candle
    <3>1. obs'[m].at = "recv" /\ obs'[m].candle = obs[m].candle
          /\ <<"observer", m>> \notin dead'
      BY <1>1 DEF ObserverSends, DeadAreGone, ObserverTypes
    <3> QED
      BY <3>1 DEF Observed
  <2> QED
    BY <1>0, <2>1, <2>2, <2>3 DEF Through, ObserverTypes
<1>2. CASE ~ObserverSends(m)
  <2>1. Observed(m)' = Observed(m)
    BY <1>2, ObservedStep
  <2>2. CASE TopicTakes(m)
    <3>1. /\ topicQ[m] # 0 /\ topicQ'[m] = 0
          /\ topic'[m] = [at |-> "fan", candle |-> topicQ[m], to |-> 1]
      BY <2>2 DEF TopicTakes
    <3> QED
      BY <1>0, <2>1, <3>1 DEF Through
  <2>3. CASE ~TopicTakes(m)
    <3>1. topicQ'[m] = topicQ[m]
      BY <1>2, <2>3, AtObserver
    <3>2. \/ topic'[m] = topic[m]
          \/ topic'[m].candle = topic[m].candle
             /\ (topic[m].at = "fan" \/ topic'[m].at # "fan")
      BY <2>3, AtObserver DEF TopicSends, TopicEnds
    <3> QED
      BY <1>0, <2>1, <3>1, <3>2
  <2> QED
    BY <2>2, <2>3
<1> QED
  BY <1>1, <1>2

LEMMA RegimeFlowStep ==
    ASSUME Flow, [Next]_vars
    PROVE  RegimeFlow'
<1> USE DEF Flow, Types, RegimeTypes
<1> SUFFICES ASSUME NEW m \in Market, NEW e \in Regime
             PROVE  /\ Taken(e, m)' <= Fanned(m, e)'
                    /\ reg'[e].at # "gone" =>
                          /\ slotQ'[<<m, e>>] \in {0, Fanned(m, e)'}
                          /\ Taken(e, m)'
                               = Through(slotQ'[<<m, e>>], Fanned(m, e)')
  BY DEF RegimeFlow, Through
<1>0. /\ Taken(e, m) \in Int /\ Fanned(m, e) \in Int
      /\ slotQ[<<m, e>>] \in Nat /\ Taken(e, m) <= Fanned(m, e)
      /\ reg[e].at # "gone" =>
            /\ slotQ[<<m, e>>] \in {0, Fanned(m, e)}
            /\ Taken(e, m) = Through(slotQ[<<m, e>>], Fanned(m, e))
  BY Sizes DEF RegimeFlow, Taken, Fanned, TopicTypes
<1>1. CASE TopicSends(m) /\ topic[m].to = e
  <2>1. reg'[e] = reg[e] /\ Taken(e, m)' = Taken(e, m)
    BY <1>1 DEF TopicSends, Taken
  <2>2. /\ topic[m].candle > 0 /\ topic[m].candle \in Nat
        /\ Fanned(m, e) = topic[m].candle - 1
    <3>0. topic[m].candle \in Nat
      BY DEF TopicTypes
    <3>1. topic[m].at = "fan" /\ topic[m].to = e
      BY <1>1 DEF TopicSends
    <3>2. topic[m].candle > 0
      BY <3>1 DEF TopicFlow
    <3>3. e <= e
      BY DEF Regime
    <3> QED
      BY <3>0, <3>1, <3>2, <3>3 DEF Fanned
  <2>3. Fanned(m, e)' = topic[m].candle
    BY <1>1, <2>2, FannedStep, Sizes DEF TopicSends, Fanned, TopicTypes, Regime
  <2>4. reg[e].at # "gone" =>
           slotQ[<<m, e>>] = 0 /\ slotQ'[<<m, e>>] = topic[m].candle
    BY <1>1, Sizes DEF TopicSends
  <2> QED
    BY <1>0, <2>1, <2>2, <2>3, <2>4 DEF Through
<1>2. CASE ~(TopicSends(m) /\ topic[m].to = e)
  <2>1. Fanned(m, e)' = Fanned(m, e)
    BY <1>2, FannedStep
  <2>2. CASE RegimeTakes(e) /\ reg[e].slot = m
    <3>1. /\ slotQ[<<m, e>>] # 0 /\ slotQ'[<<m, e>>] = 0
          /\ reg[e].at = "recv" /\ reg'[e].at = "send"
      BY <2>2, Sizes DEF RegimeTakes
    <3>2. Taken(e, m)' = Taken(e, m) + 1
      <4>1. reg'[e].slot = m /\ reg'[e].round = reg[e].round /\ ~(m < m)
        BY <2>2 DEF RegimeTakes, Market
      <4> QED
        BY <2>2, <3>1, <4>1 DEF Taken
    <3> QED
      BY <1>0, <2>1, <3>1, <3>2 DEF Through
  <2>3. CASE ~(RegimeTakes(e) /\ reg[e].slot = m)
    <3>1. slotQ'[<<m, e>>] = slotQ[<<m, e>>]
      BY <1>2, <2>3, AtRegime
    <3>2. reg'[e].at = "gone" \/ reg[e].at # "gone"
      BY <2>3, AtRegime DEF RegimeTakes, RegimeSends, RegimeEnds, RegimeDies
    <3>3. \/ Taken(e, m)' = Taken(e, m)
          \/ reg'[e].at = "gone" /\ Taken(e, m)' <= Taken(e, m)
      BY <2>3, TakenStep
    <3>4. Taken(e, m)' \in Int
      BY <1>0, <3>3, TypesStep DEF Taken, RegimeTypes
    <3> QED
      BY <1>0, <2>1, <3>1, <3>2, <3>3, <3>4
  <2> QED
    BY <2>2, <2>3
<1> QED
  BY <1>1, <1>2

LEMMA BrokerFlowStep ==
    ASSUME Flow, [Next]_vars
    PROVE  BrokerFlow'
<1> USE DEF Flow, Types, BrokerTypes
<1> SUFFICES ASSUME NEW m \in Market, NEW e \in Regime, bro'[<<m, e>>].at # "gone"
             PROVE  /\ chainQ'[<<m, e>>] \in {0, Chained(e, m)'}
                    /\ bro'[<<m, e>>].candle
                         = Through(chainQ'[<<m, e>>], Chained(e, m)')
  BY DEF BrokerFlow, Through
<1> DEFINE s == <<m, e>>
<1>0. /\ Chained(e, m) \in Nat /\ s \in Slot /\ chainQ[s] \in Nat
      /\ bro[s].candle \in Nat
      /\ bro[s].at # "gone" =>
            /\ chainQ[s] \in {0, Chained(e, m)}
            /\ bro[s].candle = Through(chainQ[s], Chained(e, m))
  BY Sizes DEF BrokerFlow, Chained, RegimeTypes
<1> HIDE DEF s
<1>1. \/ bro'[s] = bro[s] \/ BrokerTakes(s)
      \/ bro'[s].candle = bro[s].candle /\ bro[s].at # "gone"
         /\ ~BrokerTakes(s)
  <2>1. CASE BrokerAsks(s)
    BY <2>1, <1>0 DEF BrokerAsks, BrokerTakes
  <2>2. CASE BrokerGoesOn(s)
    BY <2>2, <1>0 DEF BrokerGoesOn, BrokerTakes
  <2>3. CASE BrokerEnds(s) \/ BrokerDies(s)
    BY <2>3, <1>0 DEF BrokerEnds, BrokerDies, s
  <2> QED
    BY <2>1, <2>2, <2>3, AtRegime DEF s
<1>2. CASE RegimeSends(e) /\ reg[e].slot = m
  <2>1. /\ bro' = bro /\ chainQ[s] = 0 /\ bro[s].at # "gone"
        /\ chainQ'[s] = reg[e].candle /\ reg[e].candle = reg[e].round
        /\ reg[e].round \in Nat \ {0}
    BY <1>0, <1>2 DEF RegimeSends, RoundsAligned, RegimeTypes, s
  <2>2. Chained(e, m)' = Chained(e, m) + 1 /\ Chained(e, m) = reg[e].round - 1
    <3>1. ~(m < reg[e].slot)
      BY <1>2 DEF Market
    <3>2. Chained(e, m) = reg[e].round - 1
      BY <3>1 DEF Chained
    <3>3. Chained(e, m)' = reg[e].round
      <4>1. CASE reg[e].slot = Markets
        <5>1. reg'[e].slot = 1 /\ reg'[e].round = reg[e].round + 1
          BY <1>2, <4>1 DEF RegimeSends, RegimeTypes
        <5> QED
          BY <5>1, <2>1 DEF Chained, Market
      <4>2. CASE reg[e].slot # Markets
        <5>1. reg'[e].slot = reg[e].slot + 1 /\ reg'[e].round = reg[e].round
          BY <1>2, <4>2 DEF RegimeSends, RegimeTypes
        <5> QED
          BY <1>2, <5>1 DEF Chained, Market
      <4> QED
        BY <4>1, <4>2
    <3> QED
      BY <3>2, <3>3, <2>1
  <2> QED
    BY <1>0, <2>1, <2>2 DEF Through, s
<1>3. CASE ~(RegimeSends(e) /\ reg[e].slot = m)
  <2>1. Chained(e, m)' = Chained(e, m)
    BY <1>3, ChainedStep
  <2>2. CASE BrokerTakes(s)
    <3>1. /\ chainQ[s] # 0 /\ chainQ'[s] = 0 /\ bro[s].at = "recv"
          /\ bro'[s].candle = chainQ[s]
      BY <2>2, <1>0 DEF BrokerTakes
    <3> QED
      BY <1>0, <2>1, <3>1 DEF Through, s
  <2>3. CASE ~BrokerTakes(s)
    <3>1. chainQ'[s] = chainQ[s]
      BY <1>3, <2>3, AtRegime DEF s
    <3>2. bro'[s].candle = bro[s].candle /\ bro[s].at # "gone"
      BY <1>1, <2>3 DEF s
    <3> QED
      BY <1>0, <2>1, <3>1, <3>2 DEF Through, s
  <2> QED
    BY <2>2, <2>3
<1> QED
  BY <1>2, <1>3

\* Slot i is reached in round r when i-1 slots have been served in it: the
\* candle in it is the r-th that went through the slot.
LEMMA RoundsAlignedStep ==
    ASSUME Flow, [Next]_vars
    PROVE  RoundsAligned'
<1> USE DEF Flow, Types, RegimeTypes
<1> SUFFICES ASSUME NEW e \in Regime, reg'[e].at = "send"
             PROVE  reg'[e].candle = reg'[e].round
  BY DEF RoundsAligned
<1>1. CASE RegimeTakes(e)
  <2> DEFINE m == reg[e].slot
  <2>1. /\ m \in Market /\ slotQ[<<m, e>>] # 0 /\ reg[e].at = "recv"
        /\ reg'[e].candle = slotQ[<<m, e>>] /\ reg'[e].round = reg[e].round
    BY <1>1 DEF RegimeTakes
  <2>2. slotQ[<<m, e>>] = Fanned(m, e) /\ Taken(e, m) = Fanned(m, e) - 1
    BY <2>1 DEF RegimeFlow, Through
  <2>3. Taken(e, m) = reg[e].round - 1
    BY <2>1 DEF Taken, Market
  <2>4. Fanned(m, e) \in Int
    BY <2>1 DEF Fanned, TopicTypes
  <2> QED
    BY <2>1, <2>2, <2>3, <2>4
<1>2. CASE RegimeSends(e) \/ RegimeEnds(e) \/ RegimeDies(e)
  BY <1>2 DEF RegimeSends, RegimeEnds, RegimeDies
<1>3. CASE reg'[e] = reg[e]
  BY <1>3 DEF RoundsAligned
<1> QED
  BY <1>1, <1>2, <1>3, AtRegime, Sizes

LEMMA FlowStep ==
    ASSUME Flow, [Next]_vars
    PROVE  Flow'
BY TypesStep, DeadStep, ObserverFlowStep, TopicFlowStep, RegimeFlowStep,
   RoundsAlignedStep, BrokerFlowStep
DEF Flow

\* A regime observer's sub-broadcast never mixes candles, however many
\* observers and subscribers there are and whoever panics.
THEOREM RoundsAreAligned == Spec => []RoundsAligned
<1>1. Spec => []Flow
  BY FlowInit, FlowStep, PTL DEF Spec
<1> QED
  BY <1>1, PTL DEF Flow

-----------------------------------------------------------------------------
(* The treasury's clock *)

\* Ticks the fan-in thread has picked up.
Posted == IF tickQ = 0 THEN main.fed ELSE main.fed - 1

IsTick(x) == x.from = Tick

\* Every stage is at most as far as the one before it.
LEMMA StageOrder ==
    ASSUME Flow, NEW m \in Market, NEW e \in Regime
    PROVE  /\ Chained(e, m) <= main.fed + 1
           /\ bro[<<m, e>>].at # "gone" => bro[<<m, e>>].candle <= main.fed + 1
<1> USE DEF Flow, Types
<1>1. Fed(m) <= main.fed + 1 /\ Fed(m) \in Nat /\ main.fed \in Nat
  BY DEF Fed, MainTypes
<1>2. Observed(m) <= Fed(m) /\ Observed(m) \in Int
  <2>1. obs[m].candle <= Fed(m) /\ obs[m].candle \in Nat
    BY DEF ObserverFlow, ObserverTypes
  <2> QED
    BY <1>1, <2>1 DEF Observed
<1>3. topic[m].candle <= Observed(m) /\ topic[m].candle \in Nat
  BY <1>2 DEF TopicFlow, TopicTypes, Through
<1>4. Taken(e, m) <= topic[m].candle /\ Taken(e, m) \in Int
  <2>1. Fanned(m, e) <= topic[m].candle /\ Fanned(m, e) \in Int
    BY <1>3 DEF Fanned
  <2>2. Taken(e, m) \in Int
    BY DEF Taken, RegimeTypes
  <2>3. Taken(e, m) <= Fanned(m, e)
    BY DEF RegimeFlow
  <2> QED
    BY <1>3, <2>1, <2>2, <2>3
<1>5. Chained(e, m) <= Taken(e, m) /\ Chained(e, m) \in Int
  <2>1. reg[e].round \in Nat
    BY DEF RegimeTypes
  <2> QED
    BY <2>1 DEF Chained, Taken
<1>6. Chained(e, m) <= main.fed + 1
  BY <1>1, <1>2, <1>3, <1>4, <1>5
<1>7. bro[<<m, e>>].at # "gone" => bro[<<m, e>>].candle <= Chained(e, m)
  BY <1>5 DEF BrokerFlow, Through
<1>8. bro[<<m, e>>].candle \in Nat
  BY Sizes DEF BrokerTypes
<1> QED
  BY <1>1, <1>5, <1>6, <1>7, <1>8

\* The tick of a candle is behind the ticks before it, and a request behind
\* the tick of the last candle but two.
Ticking ==
    /\ tickQ \in {0, main.fed} /\ (main.fed = 0 => tickQ = 0)
    /\ tr.clock <= Posted
    /\ tr.at = "gone" => mail = <<>>

TicksInMail ==
    \A i \in 1..Len(mail) :
        IsTick(mail[i]) =>
            /\ tr.clock < mail[i].candle /\ mail[i].candle <= Posted
            /\ \A j \in 1..Len(mail) :
                  i < j /\ IsTick(mail[j]) => mail[i].candle < mail[j].candle

LastPosted ==
    tr.at # "gone" =>
        \/ tr.clock = Posted
        \/ \E i \in 1..Len(mail) : IsTick(mail[i]) /\ mail[i].candle = Posted

RequestsBehindTicks ==
    \A i \in 1..Len(mail) :
        ~IsTick(mail[i]) =>
            \/ mail[i].candle - 2 <= tr.clock
            \/ \E j \in 1..(i - 1) :
                  IsTick(mail[j]) /\ mail[i].candle - 2 <= mail[j].candle

MailFlow == Ticking /\ TicksInMail /\ LastPosted /\ RequestsBehindTicks

LEMMA AppendToMail ==
    ASSUME MailTypes, NEW x \in Message
    PROVE  /\ Len(mail) \in Nat /\ Len(Append(mail, x)) = Len(mail) + 1
           /\ \A i \in 1..Len(mail) : Append(mail, x)[i] = mail[i]
           /\ Append(mail, x)[Len(mail) + 1] = x
BY DEF MailTypes

\* A tick goes from main through its queue into the mailbox.
LEMMA FanInStep ==
    ASSUME Flow, MailFlow, FanIn
    PROVE  MailFlow'
<1> USE DEF Flow, Types
<1>1. /\ main.fed \in Nat /\ tickQ = main.fed /\ main.fed > 0
      /\ Posted = main.fed - 1 /\ tickQ' = 0 /\ main' = main /\ tr' = tr
      /\ Posted' = main.fed /\ tr.clock \in Nat
  BY DEF FanIn, MailFlow, Ticking, MainTypes, MailTypes, Posted
<1>2. CASE tr.at = "gone"
  <2>1. mail = <<>> /\ mail' = mail
    BY <1>2 DEF MailFlow, Ticking, FanIn, Post
  <2> QED
    BY <1>1, <1>2, <2>1
    DEF MailFlow, Ticking, TicksInMail, LastPosted, RequestsBehindTicks
<1>3. CASE tr.at # "gone"
  <2> DEFINE x == [from |-> Tick, candle |-> main.fed]
             n == Len(mail)
  <2>1. x \in Message /\ mail' = Append(mail, x) /\ IsTick(x)
    BY <1>1, <1>3 DEF FanIn, Post, Message, IsTick
  <2>2. /\ n \in Nat /\ Len(mail') = n + 1 /\ mail'[n + 1] = x
        /\ \A i \in 1..n : mail'[i] = mail[i] /\ mail[i] \in Message
    BY <2>1, AppendToMail DEF MailTypes
  <2> HIDE DEF n
  <2>3. Ticking'
    BY <1>1, <1>3 DEF MailFlow, Ticking
  <2>4. LastPosted'
    BY <1>1, <2>1, <2>2 DEF LastPosted
  <2>5. TicksInMail'
    <3> SUFFICES ASSUME NEW i \in 1..(n + 1), IsTick(mail'[i])
                 PROVE  /\ tr.clock < mail'[i].candle
                        /\ mail'[i].candle <= main.fed
                        /\ \A j \in 1..(n + 1) :
                              i < j /\ IsTick(mail'[j]) =>
                                  mail'[i].candle < mail'[j].candle
      BY <1>1, <2>2 DEF TicksInMail, IsTick
    <3>1. CASE i = n + 1
      BY <1>1, <2>2, <3>1 DEF MailFlow, Ticking
    <3>2. CASE i \in 1..n
      <4>1. tr.clock < mail[i].candle /\ mail[i].candle <= main.fed - 1
            /\ mail[i].candle \in Nat
        BY <1>1, <2>2, <3>2 DEF MailFlow, TicksInMail, Message, n
      <4>2. ASSUME NEW j \in 1..(n + 1), i < j, IsTick(mail'[j])
            PROVE  mail'[i].candle < mail'[j].candle
        <5>1. CASE j = n + 1
          BY <1>1, <2>2, <3>2, <4>1, <5>1
        <5>2. CASE j \in 1..n
          BY <2>2, <3>2, <4>2, <5>2 DEF MailFlow, TicksInMail, n
        <5> QED
          BY <2>2, <5>1, <5>2
      <4> QED
        BY <1>1, <2>2, <3>2, <4>1, <4>2
    <3> QED
      BY <2>2, <3>1, <3>2
  <2>6. RequestsBehindTicks'
    <3> SUFFICES ASSUME NEW i \in 1..(n + 1), ~IsTick(mail'[i])
                 PROVE  \/ mail'[i].candle - 2 <= tr.clock
                        \/ \E j \in 1..(i - 1) :
                              IsTick(mail'[j])
                                /\ mail'[i].candle - 2 <= mail'[j].candle
      BY <1>1, <2>2 DEF RequestsBehindTicks, IsTick
    <3>1. i \in 1..n
      BY <2>1, <2>2
    <3>2. \/ mail[i].candle - 2 <= tr.clock
          \/ \E j \in 1..(i - 1) :
                IsTick(mail[j]) /\ mail[i].candle - 2 <= mail[j].candle
      BY <2>2, <3>1 DEF MailFlow, RequestsBehindTicks, n
    <3>3. \A j \in 1..(i - 1) : j \in 1..n
      BY <2>2, <3>1
    <3> QED
      BY <2>2, <3>1, <3>2, <3>3
  <2> QED
    BY <2>3, <2>4, <2>5, <2>6 DEF MailFlow
<1> QED
  BY <1>2, <1>3

\* A broker's request is about a candle that main has fed at least partly:
\* the tick of the last but one before it has been picked up.
LEMMA AskStep ==
    ASSUME Flow, MailFlow, NEW s \in Slot, BrokerAsks(s)
    PROVE  MailFlow'
<1> USE DEF Flow, Types
<1>1. /\ main.fed \in Nat /\ tickQ' = tickQ /\ main' = main /\ tr' = tr
      /\ Posted' = Posted /\ Posted \in Int /\ main.fed - 1 <= Posted
      /\ tr.clock \in Nat
  BY DEF BrokerAsks, MailTypes, MainTypes, Posted
<1>2. CASE tr.at = "gone"
  <2>1. mail = <<>> /\ mail' = mail
    BY <1>2 DEF MailFlow, Ticking, BrokerAsks, Post
  <2> QED
    BY <1>1, <1>2, <2>1
    DEF MailFlow, Ticking, TicksInMail, LastPosted, RequestsBehindTicks
<1>3. CASE tr.at # "gone"
  <2> DEFINE x == [from |-> s, candle |-> bro[s].candle]
             n == Len(mail)
  <2>1. x \in Message /\ mail' = Append(mail, x) /\ ~IsTick(x)
    BY <1>1, <1>3, Sizes DEF BrokerAsks, Post, Message, IsTick, BrokerTypes
  <2>2. /\ n \in Nat /\ Len(mail') = n + 1 /\ mail'[n + 1] = x
        /\ \A i \in 1..n : mail'[i] = mail[i] /\ mail[i] \in Message
    BY <2>1, AppendToMail DEF MailTypes
  <2>3. x.candle - 2 <= Posted /\ x.candle \in Nat
    <3>1. s[1] \in Market /\ s[2] \in Regime /\ s = <<s[1], s[2]>>
      BY Sizes
    <3>2. bro[s].at # "gone" /\ bro[s].candle \in Nat
      BY DEF BrokerAsks, BrokerTypes
    <3>3. bro[s].candle <= main.fed + 1
      BY <3>1, <3>2, StageOrder
    <3> QED
      BY <1>1, <3>2, <3>3
  <2> HIDE DEF n, x
  <2>4. Ticking'
    BY <1>1, <1>3 DEF MailFlow, Ticking
  <2>5. LastPosted'
    BY <1>1, <2>1, <2>2 DEF MailFlow, LastPosted, n
  <2>6. TicksInMail'
    <3>1. ASSUME NEW i \in 1..(n + 1), IsTick(mail'[i])
          PROVE  i \in 1..n
      BY <2>1, <2>2, <3>1
    <3> QED
      BY <1>1, <2>2, <3>1 DEF MailFlow, TicksInMail, n, IsTick
  <2>7. RequestsBehindTicks'
    <3> SUFFICES ASSUME NEW i \in 1..(n + 1), ~IsTick(mail'[i])
                 PROVE  \/ mail'[i].candle - 2 <= tr.clock
                        \/ \E j \in 1..(i - 1) :
                              IsTick(mail'[j])
                                /\ mail'[i].candle - 2 <= mail'[j].candle
      BY <1>1, <2>2 DEF RequestsBehindTicks, IsTick
    <3>1. CASE i \in 1..n
      <4>1. \/ mail[i].candle - 2 <= tr.clock
            \/ \E j \in 1..(i - 1) :
                  IsTick(mail[j]) /\ mail[i].candle - 2 <= mail[j].candle
        BY <2>2, <3>1 DEF MailFlow, RequestsBehindTicks, n
      <4>2. \A j \in 1..(i - 1) : j \in 1..n
        BY <2>2, <3>1
      <4> QED
        BY <2>2, <3>1, <4>1, <4>2
    <3>2. CASE i = n + 1
      <4>1. \/ tr.clock = Posted
            \/ \E j \in 1..n : IsTick(mail[j]) /\ mail[j].candle = Posted
        BY <1>3 DEF MailFlow, LastPosted, n
      <4> QED
        BY <2>2, <2>3, <3>2, <4>1
    <3> QED
      BY <2>2, <3>1, <3>2
  <2> QED
    BY <2>4, <2>5, <2>6, <2>7 DEF MailFlow
<1> QED
  BY <1>2, <1>3

\* The treasury takes the head of the mailbox.
LEMMA TakesMailStep ==
    ASSUME Flow, MailFlow, TreasuryTicks \/ TreasuryAnswers
    PROVE  MailFlow'
<1> USE DEF Flow, Types
<1> DEFINE n == Len(mail)
<1>1. /\ mail # <<>> /\ tr.at # "gone" /\ tr'.at = tr.at /\ mail' = Tail(mail)
      /\ tickQ' = tickQ /\ main' = main /\ Posted' = Posted /\ Posted \in Int
      /\ tr.clock \in Nat
      /\ tr'.clock = IF IsTick(mail[1]) THEN mail[1].candle ELSE tr.clock
  BY HeadOfMail
  DEF TreasuryTicks, TreasuryAnswers, MailTypes, MainTypes, Posted, IsTick
<1>2. /\ n \in Nat \ {0} /\ Len(mail') = n - 1
      /\ \A i \in 1..n : mail[i] \in Message
      /\ \A i \in 1..(n - 1) : mail'[i] = mail[i + 1]
  BY <1>1, HeadOfMail DEF MailTypes
<1> HIDE DEF n
<1>3. tr.clock <= tr'.clock /\ tr'.clock <= Posted /\ tr'.clock \in Nat
  BY <1>1, <1>2 DEF MailFlow, Ticking, TicksInMail, Message, n
<1>4. Ticking'
  BY <1>1, <1>3 DEF MailFlow, Ticking
<1>5. TicksInMail'
  <2> SUFFICES ASSUME NEW i \in 1..(n - 1), IsTick(mail'[i])
               PROVE  /\ tr'.clock < mail'[i].candle
                      /\ mail'[i].candle <= Posted
                      /\ \A j \in 1..(n - 1) :
                            i < j /\ IsTick(mail'[j]) =>
                                mail'[i].candle < mail'[j].candle
    BY <1>1, <1>2 DEF TicksInMail, IsTick
  <2>1. i + 1 \in 1..n /\ mail'[i] = mail[i + 1] /\ 1 \in 1..n /\ 1 < i + 1
    BY <1>2
  <2>2. /\ tr.clock < mail[i + 1].candle /\ mail[i + 1].candle <= Posted
        /\ \A j \in 1..n : i + 1 < j /\ IsTick(mail[j]) =>
              mail[i + 1].candle < mail[j].candle
        /\ IsTick(mail[1]) => mail[1].candle < mail[i + 1].candle
    BY <2>1 DEF MailFlow, TicksInMail, n
  <2>3. \A j \in 1..(n - 1) : j + 1 \in 1..n /\ mail'[j] = mail[j + 1]
    BY <1>2
  <2> QED
    BY <1>1, <1>2, <2>1, <2>2, <2>3
<1>6. LastPosted'
  <2>1. \/ tr.clock = Posted
        \/ \E i \in 1..n : IsTick(mail[i]) /\ mail[i].candle = Posted
    BY <1>1 DEF MailFlow, LastPosted, n
  <2>2. CASE tr.clock = Posted
    BY <1>1, <1>3, <2>2 DEF LastPosted
  <2>3. ASSUME NEW i \in 1..n, IsTick(mail[i]), mail[i].candle = Posted
        PROVE  LastPosted'
    <3>1. CASE i = 1
      BY <1>1, <2>3, <3>1 DEF LastPosted
    <3>2. CASE i # 1
      <4>1. i - 1 \in 1..(n - 1) /\ mail'[i - 1] = mail[i]
        BY <1>2, <3>2
      <4> QED
        BY <1>1, <1>2, <2>3, <4>1 DEF LastPosted, IsTick
    <3> QED
      BY <3>1, <3>2
  <2> QED
    BY <2>1, <2>2, <2>3
<1>7. RequestsBehindTicks'
  <2> SUFFICES ASSUME NEW i \in 1..(n - 1), ~IsTick(mail'[i])
               PROVE  \/ mail'[i].candle - 2 <= tr'.clock
                      \/ \E j \in 1..(i - 1) :
                            IsTick(mail'[j])
                              /\ mail'[i].candle - 2 <= mail'[j].candle
    BY <1>1, <1>2 DEF RequestsBehindTicks, IsTick
  <2>1. i + 1 \in 1..n /\ mail'[i] = mail[i + 1] /\ mail'[i].candle \in Nat
    BY <1>2 DEF Message
  <2>2. \/ mail'[i].candle - 2 <= tr.clock
        \/ \E j \in 1..i : IsTick(mail[j]) /\ mail'[i].candle - 2 <= mail[j].candle
    <3>1. (i + 1) - 1 = i
      BY <1>2
    <3> QED
      BY <2>1, <3>1 DEF MailFlow, RequestsBehindTicks, n
  <2>3. CASE mail'[i].candle - 2 <= tr.clock
    <3>1. \A a, b, c \in Int : a - 2 <= b /\ b <= c => a - 2 <= c
      OBVIOUS
    <3>2. mail'[i].candle \in Int
      BY <2>1
    <3>3. tr.clock \in Int /\ tr'.clock \in Int
      BY <1>3 DEF MailTypes
    <3> QED
      BY <1>3, <2>3, <3>1, <3>2, <3>3
  <2>4. ASSUME NEW j \in 1..i, IsTick(mail[j]),
               mail'[i].candle - 2 <= mail[j].candle
        PROVE  \/ mail'[i].candle - 2 <= tr'.clock
               \/ \E k \in 1..(i - 1) :
                     IsTick(mail'[k])
                       /\ mail'[i].candle - 2 <= mail'[k].candle
    <3>1. CASE j = 1
      BY <1>1, <2>4, <3>1
    <3>2. CASE j # 1
      <4>1. j - 1 \in 1..(i - 1) /\ j - 1 \in 1..(n - 1) /\ mail'[j - 1] = mail[j]
        BY <1>2, <3>2
      <4> QED
        BY <2>4, <4>1
    <3> QED
      BY <3>1, <3>2
  <2> QED
    BY <2>2, <2>3, <2>4
<1> QED
  BY <1>4, <1>5, <1>6, <1>7 DEF MailFlow

LEMMA MailFlowInit == Init => MailFlow
BY DEF Init, MailFlow, Ticking, TicksInMail, LastPosted, RequestsBehindTicks,
       Posted

LEMMA MailFlowStep ==
    ASSUME Flow, MailFlow, [Next]_vars
    PROVE  MailFlow'
<1> USE DEF Flow, Types
<1>1. CASE FanIn
  BY <1>1, FanInStep
<1>2. ASSUME NEW s \in Slot, BrokerAsks(s) PROVE MailFlow'
  BY <1>2, AskStep
<1>3. CASE TreasuryTicks \/ TreasuryAnswers
  BY <1>3, TakesMailStep
<1>4. CASE TreasuryDies \/ TreasuryEnds
  <2>1. /\ mail' = <<>> /\ tr'.at = "gone" /\ tr'.clock = tr.clock
        /\ main' = main /\ tickQ' = tickQ
    BY <1>4 DEF TreasuryDies, TreasuryEnds, MailTypes
  <2> QED
    BY <2>1 DEF MailFlow, Ticking, TicksInMail, LastPosted,
                RequestsBehindTicks, Posted
<1>5. CASE SendTick
  <2>1. /\ mail' = mail /\ tr' = tr /\ tickQ = 0 /\ main.fed \in Nat
        /\ tickQ' = main.fed + 1 /\ main'.fed = main.fed + 1
    BY <1>5 DEF SendTick, askVars, MainTypes
  <2>2. Posted' = Posted /\ tickQ' = main'.fed /\ main'.fed # 0
    BY <2>1 DEF Posted
  <2> QED
    BY <2>1, <2>2 DEF MailFlow, Ticking, TicksInMail, LastPosted,
                      RequestsBehindTicks, IsTick
<1>6. CASE mail' = mail /\ tr' = tr /\ tickQ' = tickQ /\ main'.fed = main.fed
  BY <1>6 DEF MailFlow, Ticking, TicksInMail, LastPosted,
              RequestsBehindTicks, Posted, IsTick
<1>7. SendTick \/ main'.fed = main.fed
  BY WhoMoves DEF Movers, MainTypes, Feed, EndOfFeed, Join
<1>8. \/ (mail' = mail /\ tr' = tr /\ tickQ' = tickQ)
      \/ SendTick \/ FanIn \/ (\E s \in Slot : BrokerAsks(s))
      \/ TreasuryTicks \/ TreasuryAnswers \/ TreasuryEnds \/ TreasuryDies
  BY WhoMoves DEF Movers
<1> QED
  BY <1>1, <1>2, <1>3, <1>4, <1>5, <1>6, <1>7, <1>8

LEMMA ClocksAreClose == ASSUME Flow, MailFlow PROVE ClocksClose
<1> USE DEF Flow, Types
<1>1. ASSUME mail # <<>>, Head(mail).from # Tick
      PROVE  Head(mail).candle - 2 <= tr.clock
  <2>1. Head(mail) = mail[1] /\ 1 \in 1..Len(mail)
    BY <1>1, HeadOfMail
  <2>2. \A j \in 1..(1 - 1) : FALSE
    OBVIOUS
  <2> QED
    BY <1>1, <2>1, <2>2 DEF MailFlow, RequestsBehindTicks, IsTick
<1>2. ASSUME NEW s \in Slot, bro[s].at \in {"ask", "wait"},
             obs[s[1]].at # "gone", reg[s[2]].at # "gone"
      PROVE  tr.clock <= bro[s].candle + 7
  <2>1. PICK m \in Market, e \in Regime : s = <<m, e>>
    BY Sizes
  <2>2. main.fed <= Fed(m) /\ Fed(m) \in Nat /\ main.fed \in Nat
    BY DEF Fed, MainTypes
  <2>3. Fed(m) - 1 <= obs[m].candle /\ obs[m].candle \in Nat
    BY <1>2, <2>1, <2>2 DEF ObserverFlow, Through, ObserverTypes
  <2>4. obs[m].candle - 1 <= Observed(m) /\ Observed(m) \in Int
    BY <2>3 DEF Observed
  <2>5. Observed(m) - 1 <= topic[m].candle /\ topic[m].candle \in Nat
    BY <2>4 DEF TopicFlow, Through, TopicTypes
  <2>6. topic[m].candle - 1 <= Fanned(m, e) /\ Fanned(m, e) \in Int
    BY <2>5 DEF Fanned
  <2>7. Fanned(m, e) - 1 <= Taken(e, m) /\ Taken(e, m) \in Int
    <3>1. reg[e].round \in Nat /\ reg[e].at # "gone"
      BY <1>2, <2>1 DEF RegimeTypes
    <3>2. Taken(e, m) \in Int
      BY <3>1 DEF Taken
    <3>3. Taken(e, m) = Through(slotQ[<<m, e>>], Fanned(m, e))
      BY <3>1 DEF RegimeFlow
    <3> QED
      BY <2>6, <3>2, <3>3 DEF Through
  <2>8. Taken(e, m) - 1 <= Chained(e, m) /\ Chained(e, m) \in Int
    <3>1. reg[e].round \in Nat
      BY DEF RegimeTypes
    <3> QED
      BY <3>1 DEF Taken, Chained
  <2>9. Chained(e, m) - 1 <= bro[s].candle /\ bro[s].candle \in Nat
    <3>1. bro[<<m, e>>].at # "gone" /\ bro[<<m, e>>].candle \in Nat
      BY <1>2, <2>1 DEF BrokerTypes
    <3>2. bro[<<m, e>>].candle = Through(chainQ[<<m, e>>], Chained(e, m))
      BY <3>1 DEF BrokerFlow
    <3> QED
      BY <2>1, <2>8, <3>1, <3>2 DEF Through
  <2>10. tr.clock <= main.fed /\ tr.clock \in Nat
    BY <2>2 DEF MailFlow, Ticking, Posted, MailTypes
  <2> QED
    BY <2>2, <2>3, <2>4, <2>5, <2>6, <2>7, <2>8, <2>9, <2>10
<1> QED
  BY <1>1, <1>2 DEF ClocksClose

\* When the treasury looks at a request, its clock is at most two candles
\* behind the broker's and at most seven ahead of it.
THEOREM ClocksStayClose == Spec => []ClocksClose
<1>1. Init => Flow /\ MailFlow
  BY FlowInit, MailFlowInit
<1>2. (Flow /\ MailFlow) /\ [Next]_vars => (Flow /\ MailFlow)'
  BY FlowStep, MailFlowStep
<1>3. Flow /\ MailFlow => ClocksClose
  BY ClocksAreClose
<1> QED
  BY <1>1, <1>2, <1>3, PTL DEF Spec

-----------------------------------------------------------------------------
(* The end of the stream *)

\* A thread that ended without panicking had taken everything there was to
\* take.
ObserversEnd ==
    \A m \in Market :
        obs[m].at = "gone" /\ <<"observer", m>> \notin dead =>
            ~Feeding /\ obs[m].candle = main.fed

TopicsEnd ==
    \A m \in Market : topic[m].at = "gone" => obs[m].at = "gone" /\ topicQ[m] = 0

Bereft(e) == \E m \in Market : <<"broker", <<m, e>>>> \in dead
                                 \/ <<"observer", m>> \in dead

RegimesEnd ==
    \A e \in Regime :
        reg[e].at = "gone" /\ <<"regime", e>> \notin dead /\ ~Bereft(e) =>
            ~Feeding /\ reg[e].slot = 1 /\ reg[e].round = main.fed + 1

BrokersEnd ==
    \A m \in Market, e \in Regime :
        bro[<<m, e>>].at = "gone" /\ <<"broker", <<m, e>>>> \notin dead =>
            reg[e].at = "gone" /\ bro[<<m, e>>].candle = Chained(e, m)

TreasuryEnd ==
    /\ main.at \in {"joinTreasury", "done"} => \A s \in Slot : bro[s].at = "gone"
    /\ tr.at = "gone" /\ <<"treasury", 0>> \notin dead =>
          ~Feeding /\ tr.clock = main.fed
    /\ main.at = "done" => tr.at = "gone"

Ends == /\ ObserversEnd /\ TopicsEnd /\ RegimesEnd /\ BrokersEnd /\ TreasuryEnd

LEMMA EndsInit == Init => Ends
<1> SUFFICES ASSUME Init PROVE Ends
  OBVIOUS
<1>1. BrokersEnd
  BY Sizes DEF Init, BrokersEnd
<1> QED
  BY <1>1 DEF Init, Ends, ObserversEnd, TopicsEnd, RegimesEnd, TreasuryEnd

\* Once the feed has ended, nothing is fed any more.
LEMMA FeedStaysEnded ==
    ASSUME Types, [Next]_vars, ~Feeding
    PROVE  ~Feeding' /\ main'.fed = main.fed
BY WhoMoves DEF Movers, Types, MainTypes, Feeding, Feed, SendTick, EndOfFeed, Join

LEMMA ObserversEndStep ==
    ASSUME Flow, Ends, [Next]_vars
    PROVE  ObserversEnd'
<1> USE DEF Flow, Types, ObserverTypes
<1> SUFFICES ASSUME NEW m \in Market, obs'[m].at = "gone",
                    <<"observer", m>> \notin dead'
             PROVE  ~Feeding' /\ obs'[m].candle = main'.fed
  BY DEF ObserversEnd
<1>1. CASE obs'[m] = obs[m]
  BY <1>1, AtObserver, FeedStaysEnded DEF Ends, ObserversEnd
<1>2. CASE ObserverTakes(m) \/ ObserverSends(m)
  BY <1>2 DEF ObserverTakes, ObserverSends
<1>3. CASE ObserverDies(m)
  BY <1>3 DEF ObserverDies, Dies
<1>4. CASE ObserverEnds(m)
  <2>1. /\ obs[m].at = "recv" /\ candleQ[m] = 0 /\ ~Feeding
        /\ obs'[m].candle = obs[m].candle
    BY <1>4 DEF ObserverEnds
  <2>2. obs[m].candle = Fed(m)
    BY <2>1 DEF ObserverFlow, Through
  <2>3. Fed(m) = main.fed
    BY <2>1 DEF Feeding, Fed
  <2> QED
    BY <2>1, <2>2, <2>3, FeedStaysEnded
<1> QED
  BY <1>1, <1>2, <1>3, <1>4, AtObserver

LEMMA TopicsEndStep ==
    ASSUME Flow, Ends, [Next]_vars
    PROVE  TopicsEnd'
<1> USE DEF Flow, Types, TopicTypes
<1> SUFFICES ASSUME NEW m \in Market, topic'[m].at = "gone"
             PROVE  obs'[m].at = "gone" /\ topicQ'[m] = 0
  BY DEF TopicsEnd
<1>1. CASE TopicTakes(m)
  BY <1>1 DEF TopicTakes
<1>2. CASE TopicSends(m)
  BY <1>2 DEF TopicSends
<1>3. CASE TopicEnds(m)
  BY <1>3 DEF TopicEnds
<1>4. CASE topic'[m] = topic[m]
  <2>1. obs[m].at = "gone" /\ topicQ[m] = 0
    BY <1>4 DEF Ends, TopicsEnd
  <2>2. obs'[m] = obs[m]
    BY <2>1, AtObserver
    DEF ObserverTakes, ObserverSends, ObserverEnds, ObserverDies
  <2>3. topicQ'[m] = topicQ[m]
    BY <2>1, AtObserver DEF ObserverSends, TopicTakes
  <2> QED
    BY <2>1, <2>2, <2>3
<1> QED
  BY <1>1, <1>2, <1>3, <1>4, AtObserver

\* A regime observer finds a slot without a sender when that slot has brought
\* every candle; it is the first one, since the others have brought as many.
LEMMA RegimeEndsAtTheEnd ==
    ASSUME Flow, Ends, NEW e \in Regime, RegimeEnds(e), ~Bereft(e)
    PROVE  ~Feeding /\ reg[e].slot = 1 /\ reg[e].round = main.fed + 1
<1> USE DEF Flow, Types
<1> DEFINE m == reg[e].slot
<1>1. m \in Market /\ reg[e].round \in Nat /\ m \in 1..Markets /\ Markets \in Nat
  BY Sizes DEF RegimeTypes, Market
<1>2. reg[e].at = "recv" /\ slotQ[<<m, e>>] = 0 /\ topic[m].at = "gone"
  <2>1. CASE reg[e].at = "send" /\ bro[<<m, e>>].at = "gone"
    BY <1>1, <2>1 DEF Ends, BrokersEnd, Bereft
  <2> QED
    BY <2>1 DEF RegimeEnds
<1> HIDE DEF m
<1>3. /\ obs[m].at = "gone" /\ topicQ[m] = 0 /\ <<"observer", m>> \notin dead
      /\ ~Feeding /\ obs[m].candle = main.fed /\ main.fed \in Nat
  BY <1>1, <1>2 DEF Ends, TopicsEnd, ObserversEnd, Bereft, MainTypes
<1>4. topic[m].candle = main.fed
  BY <1>1, <1>3 DEF TopicFlow, Through, Observed
<1>5. Fanned(m, e) = main.fed
  BY <1>2, <1>4 DEF Fanned
<1>6. Taken(e, m) = main.fed
  BY <1>1, <1>2, <1>5 DEF RegimeFlow, Through
<1>7. reg[e].round = main.fed + 1
  BY <1>1, <1>2, <1>3, <1>6 DEF Taken, m
<1>8. ASSUME m # 1 PROVE FALSE
  <2>1. 1 \in Market /\ 1 < m
    BY <1>1, <1>8, Sizes
  <2>2. Taken(e, 1) = main.fed + 1
    BY <1>7, <2>1 DEF Taken, m
  <2>3. Fanned(1, e) <= topic[1].candle /\ topic[1].candle \in Nat
    BY <2>1 DEF Fanned, TopicTypes
  <2>4. topic[1].candle <= Observed(1) /\ Observed(1) <= obs[1].candle
        /\ obs[1].candle \in Nat /\ Observed(1) \in Int
    BY <2>1 DEF TopicFlow, Through, Observed, ObserverTypes
  <2>5. obs[1].candle <= main.fed
    BY <1>3, <2>1 DEF ObserverFlow, Fed, Feeding
  <2>6. Taken(e, 1) <= Fanned(1, e) /\ Fanned(1, e) \in Int
    <3>1. Fanned(1, e) \in Int
      BY <2>3 DEF Fanned
    <3> QED
      BY <2>1, <3>1 DEF RegimeFlow
  <2> QED
    BY <1>3, <2>2, <2>3, <2>4, <2>5, <2>6
<1> QED
  BY <1>3, <1>7, <1>8 DEF m

LEMMA RegimesEndStep ==
    ASSUME Flow, Ends, [Next]_vars
    PROVE  RegimesEnd'
<1> USE DEF Flow, Types, RegimeTypes
<1> SUFFICES ASSUME NEW e \in Regime, reg'[e].at = "gone",
                    <<"regime", e>> \notin dead', ~Bereft(e)'
             PROVE  ~Feeding' /\ reg'[e].slot = 1 /\ reg'[e].round = main'.fed + 1
  BY DEF RegimesEnd
<1>0. <<"regime", e>> \notin dead /\ ~Bereft(e)
  BY AtObserver, Sizes DEF Bereft
<1>1. CASE reg'[e] = reg[e]
  BY <1>0, <1>1, FeedStaysEnded DEF Ends, RegimesEnd
<1>2. CASE RegimeTakes(e) \/ RegimeSends(e)
  BY <1>2 DEF RegimeTakes, RegimeSends
<1>3. CASE RegimeDies(e)
  BY <1>3 DEF RegimeDies, Dies
<1>4. CASE RegimeEnds(e)
  <2>1. ~Feeding /\ reg[e].slot = 1 /\ reg[e].round = main.fed + 1
    BY <1>0, <1>4, RegimeEndsAtTheEnd
  <2>2. reg'[e].slot = reg[e].slot /\ reg'[e].round = reg[e].round
    BY <1>4 DEF RegimeEnds
  <2> QED
    BY <2>1, <2>2, FeedStaysEnded
<1> QED
  BY <1>1, <1>2, <1>3, <1>4, AtRegime, Sizes

LEMMA BrokersEndStep ==
    ASSUME Flow, Ends, [Next]_vars
    PROVE  BrokersEnd'
<1> USE DEF Flow, Types, BrokerTypes
<1> SUFFICES ASSUME NEW m \in Market, NEW e \in Regime,
                    bro'[<<m, e>>].at = "gone",
                    <<"broker", <<m, e>>>> \notin dead'
             PROVE  /\ reg'[e].at = "gone"
                    /\ bro'[<<m, e>>].candle = Chained(e, m)'
  BY DEF BrokersEnd
<1> DEFINE s == <<m, e>>
<1>0. s \in Slot /\ <<"broker", s>> \notin dead
  BY AtObserver, Sizes
<1> HIDE DEF s
<1>1. /\ reg[e].at = "gone" /\ bro'[s].candle = bro[s].candle
      /\ bro[s].candle = Chained(e, m)
  <2>1. CASE bro'[s] = bro[s]
    BY <1>0, <2>1 DEF Ends, BrokersEnd, s
  <2>2. CASE BrokerTakes(s)
    BY <1>0, <2>2 DEF BrokerTakes, s
  <2>3. CASE BrokerAsks(s)
    BY <1>0, <2>3 DEF BrokerAsks, s
  <2>4. CASE BrokerGoesOn(s)
    <3>1. bro'[s].at \in {"recv", "ask"}
      BY <1>0, <2>4 DEF BrokerGoesOn
    <3> QED
      BY <3>1 DEF s
  <2>5. CASE BrokerDies(s)
    BY <2>5 DEF BrokerDies, Dies, s
  <2>6. CASE BrokerEnds(s)
    <3>1. /\ bro[s].at = "recv" /\ chainQ[s] = 0 /\ reg[s[2]].at = "gone"
          /\ bro'[s].candle = bro[s].candle
      BY <1>0, <2>6 DEF BrokerEnds
    <3> QED
      BY <3>1 DEF BrokerFlow, Through, s
  <2> QED
    BY <2>1, <2>2, <2>3, <2>4, <2>5, <2>6, AtRegime DEF s
<1>2. reg'[e] = reg[e]
  BY <1>1, AtRegime DEF RegimeTakes, RegimeSends, RegimeEnds, RegimeDies
<1>3. Chained(e, m)' = Chained(e, m)
  BY <1>2 DEF Chained
<1> QED
  BY <1>1, <1>2, <1>3 DEF s

LEMMA TreasuryEndStep ==
    ASSUME Flow, MailFlow, Ends, [Next]_vars
    PROVE  TreasuryEnd'
<1> USE DEF Flow, Types
<1>1. ASSUME main'.at \in {"joinTreasury", "done"}, NEW s \in Slot
      PROVE  bro'[s].at = "gone"
  <2>1. bro[s].at = "gone"
    BY <1>1, WhoMoves DEF Movers, Feed, SendTick, EndOfFeed, Join, MainTypes,
                          Ends, TreasuryEnd
  <2>2. ASSUME NEW n \in Slot,
               \/ BrokerTakes(n) \/ BrokerAsks(n) \/ BrokerGoesOn(n)
               \/ BrokerEnds(n) \/ BrokerDies(n)
        PROVE  n # s /\ bro'[s] = bro[s]
    BY <2>1, <2>2 DEF BrokerTakes, BrokerAsks, BrokerGoesOn, BrokerEnds,
                      BrokerDies, BrokerTypes
  <2> QED
    BY <2>1, <2>2, WhoMoves DEF Movers
<1>2. ASSUME tr'.at = "gone", <<"treasury", 0>> \notin dead'
      PROVE  ~Feeding' /\ tr'.clock = main'.fed
  <2>1. CASE tr' = tr
    <3>1. <<"treasury", 0>> \notin dead
      BY <1>2, AtObserver, Sizes
    <3> QED
      BY <1>2, <2>1, <3>1, FeedStaysEnded DEF Ends, TreasuryEnd
  <2>2. CASE TreasuryTicks
    BY <1>2, <2>2 DEF TreasuryTicks, MailTypes
  <2>3. CASE TreasuryDies
    BY <1>2, <2>3 DEF TreasuryDies, Dies
  <2>4. CASE TreasuryEnds
    <3>1. /\ main.at = "joinTreasury" /\ mail = <<>> /\ tickQ = 0
          /\ main' = main /\ tr'.clock = tr.clock /\ tr.at # "gone"
      BY <2>4 DEF TreasuryEnds, MailTypes
    <3>2. ~Feeding /\ Posted = main.fed
      BY <3>1 DEF Feeding, Posted
    <3>3. tr.clock = Posted
      BY <3>1 DEF MailFlow, LastPosted
    <3> QED
      BY <3>1, <3>2, <3>3, FeedStaysEnded
  <2> QED
    BY <2>1, <2>2, <2>3, <2>4, WhoMoves DEF Movers
<1>3. main'.at = "done" => tr'.at = "gone"
  <2>1. ASSUME tr.at = "gone" PROVE tr' = tr
    BY <2>1, WhoMoves DEF Movers, TreasuryTicks, TreasuryEnds, TreasuryDies
  <2> QED
    BY <2>1, WhoMoves DEF Movers, Feed, SendTick, EndOfFeed, Join, MainTypes,
                          Ends, TreasuryEnd
<1> QED
  BY <1>1, <1>2, <1>3 DEF TreasuryEnd

LEMMA NothingIsLost == ASSUME Flow, Ends PROVE NoneLost
<1> USE DEF Flow, Types
<1>1. ASSUME NEW s \in Slot, bro[s].at # "gone", chainQ[s] # 0
      PROVE  chainQ[s] = bro[s].candle + 1
  <2>1. PICK m \in Market, e \in Regime : s = <<m, e>>
    BY Sizes
  <2>2. Chained(e, m) \in Int
    BY DEF Chained, RegimeTypes
  <2> QED
    BY <1>1, <2>1, <2>2 DEF BrokerFlow, Through
<1>2. ASSUME main.at = "done", NEW s \in Slot, Upstream(s) \cap dead = {}
      PROVE  bro[s].candle = main.fed
  <2>1. PICK m \in Market, e \in Regime : s = <<m, e>>
    BY Sizes
  <2>2. /\ ~Bereft(e) /\ <<"regime", e>> \notin dead
        /\ <<"broker", <<m, e>>>> \notin dead
    BY <1>2, <2>1 DEF Upstream, Bereft
  <2>3. reg[e].at = "gone" /\ bro[s].candle = Chained(e, m)
    BY <1>2, <2>1, <2>2 DEF Ends, TreasuryEnd, BrokersEnd
  <2>4. reg[e].slot = 1 /\ reg[e].round = main.fed + 1 /\ main.fed \in Nat
    BY <2>2, <2>3 DEF Ends, RegimesEnd, MainTypes
  <2> QED
    BY <2>3, <2>4 DEF Chained, Market
<1>3. ASSUME main.at = "done", <<"treasury", 0>> \notin dead
      PROVE  tr.clock = main.fed
  BY <1>3 DEF Ends, TreasuryEnd
<1> QED
  BY <1>1, <1>2, <1>3 DEF NoneLost

\* Whatever panics, a broker handles the candles in order and without a gap,
\* and one that has nobody dead upstream has handled all of them in the end.
THEOREM NoCandleIsLost == Spec => []NoneLost
<1>1. Init => Flow /\ MailFlow /\ Ends
  BY FlowInit, MailFlowInit, EndsInit
<1>2. ASSUME Flow /\ MailFlow /\ Ends, [Next]_vars
      PROVE  (Flow /\ MailFlow /\ Ends)'
  BY <1>2, FlowStep, MailFlowStep, ObserversEndStep, TopicsEndStep,
     RegimesEndStep, BrokersEndStep, TreasuryEndStep DEF Ends
<1>3. Flow /\ MailFlow /\ Ends => NoneLost
  BY NothingIsLost
<1> QED
  BY <1>1, <1>2, <1>3, PTL DEF Spec

=============================================================================
