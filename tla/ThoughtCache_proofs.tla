------------------------ MODULE ThoughtCache_proofs -------------------------
(* Proofs about ThoughtCache: types and bounds, true answers, and no walk   *)
(* twice, for every program, coincidence and capacity.                      *)
EXTENDS ThoughtCache, FiniteSetTheorems, TLAPS

-----------------------------------------------------------------------------
(* What a relation leads to *)

LEMMA ReachSelf ==
  ASSUME NEW R, NEW x \in Coordinate
  PROVE  x \in Reach(R, x)
BY DEF Reach

LEMMA ReachStep ==
  ASSUME NEW R, NEW x, NEW y \in Reach(R, x), NEW z \in Coordinate, <<y, z>> \in R
  PROVE  z \in Reach(R, x)
<1> SUFFICES ASSUME NEW T \in SUBSET Coordinate, x \in T,
                    \A e \in R : e[1] \in T => e[2] \in T
             PROVE  z \in T
  BY DEF Reach
<1>1. y \in T
  BY DEF Reach
<1>2. <<y, z>>[1] = y /\ <<y, z>>[2] = z
  OBVIOUS
<1> QED
  BY <1>1, <1>2

LEMMA ReachMore ==
  ASSUME NEW R, NEW Q, R \subseteq Q, NEW x
  PROVE  Reach(R, x) \subseteq Reach(Q, x)
BY DEF Reach

\* All that lies beyond x lies beyond its only successor.
LEMMA ReachFirst ==
  ASSUME NEW R, NEW x \in Coordinate, NEW z, \A e \in R : e[1] = x => e[2] = z
  PROVE  Reach(R, x) \subseteq {x} \cup Reach(R, z)
<1> SUFFICES ASSUME NEW y \in Reach(R, x), y # x, y \notin Reach(R, z)
             PROVE  FALSE
  OBVIOUS
<1>1. PICK T \in SUBSET Coordinate :
          z \in T /\ (\A e \in R : e[1] \in T => e[2] \in T) /\ y \notin T
  BY DEF Reach
<1>2. T \cup {x} \in SUBSET Coordinate
  OBVIOUS
<1>3. \A e \in R : e[1] \in T \cup {x} => e[2] \in T \cup {x}
  BY <1>1
<1>4. y \in T \cup {x}
  BY <1>2, <1>3 DEF Reach
<1> QED
  BY <1>1, <1>4

\* Nothing lies beyond a coordinate without successors.
LEMMA ReachLast ==
  ASSUME NEW R, NEW x \in Coordinate, \A e \in R : e[1] # x
  PROVE  Reach(R, x) = {x}
<1>1. x \in {x} /\ {x} \in SUBSET Coordinate
      /\ \A e \in R : e[1] \in {x} => e[2] \in {x}
  OBVIOUS
<1>2. Reach(R, x) \subseteq {x}
  BY <1>1 DEF Reach
<1> QED
  BY <1>2, ReachSelf

\* What lies beyond y lies beyond all that leads to y.
LEMMA ReachTrans ==
  ASSUME NEW R, NEW x, NEW y \in Reach(R, x)
  PROVE  Reach(R, y) \subseteq Reach(R, x)
BY DEF Reach

-----------------------------------------------------------------------------
(* The stores *)

LEMMA PutKeeps ==
  ASSUME NEW store, NEW key, NEW value, NEW s \in Puts(store, key, value)
  PROVE  /\ key \in DOMAIN s /\ s[key] = value
         /\ DOMAIN s \subseteq DOMAIN store \cup {key}
         /\ \A k \in DOMAIN s : k # key => s[k] = store[k]
         /\ ~ Evicts(store, key) => DOMAIN store \subseteq DOMAIN s
<1>1. PICK keys :
          /\ s = [k \in keys \cup {key} |-> IF k = key THEN value ELSE store[k]]
          /\ keys \subseteq DOMAIN store
          /\ ~ Evicts(store, key) => keys = DOMAIN store
  BY DEF Puts
<1> QED
  BY <1>1

LEMMA PutFits ==
  ASSUME NEW store, NEW key, NEW value, NEW s \in Puts(store, key, value),
         cap \in Nat \ {0}, IsFiniteSet(DOMAIN store), Cardinality(DOMAIN store) <= cap
  PROVE  IsFiniteSet(DOMAIN s) /\ Cardinality(DOMAIN s) <= cap
<1> DEFINE D == DOMAIN store
<1>1. Cardinality(D) \in Nat
  BY FS_CardinalityType
<1>2. CASE key \in D
  <2>1. DOMAIN s = D
    BY <1>2 DEF Puts, Evicts
  <2> QED
    BY <2>1
<1>3. CASE key \notin D /\ ~ Full(store)
  <2>1. DOMAIN s = D \cup {key}
    BY <1>3 DEF Puts, Evicts
  <2>2. IsFiniteSet(D \cup {key}) /\ Cardinality(D \cup {key}) = Cardinality(D) + 1
    BY <1>3, FS_AddElement
  <2>3. Cardinality(D) < cap
    BY <1>1, <1>3 DEF Full
  <2> QED
    BY <1>1, <2>1, <2>2, <2>3
<1>4. CASE key \notin D /\ Full(store)
  <2>1. PICK k \in D : DOMAIN s = (D \ {k}) \cup {key}
    BY <1>4 DEF Puts, Evicts
  <2>2. IsFiniteSet(D \ {k}) /\ Cardinality(D \ {k}) = Cardinality(D) - 1
    BY FS_RemoveElement
  <2>3. key \notin D \ {k}
    BY <1>4
  <2>4. /\ IsFiniteSet((D \ {k}) \cup {key})
        /\ Cardinality((D \ {k}) \cup {key}) = Cardinality(D \ {k}) + 1
    BY <2>2, <2>3, FS_AddElement
  <2>5. Cardinality((D \ {k}) \cup {key}) = Cardinality(D)
    BY <1>1, <2>2, <2>4
  <2> QED
    BY <2>1, <2>4, <2>5
<1> QED
  BY <1>2, <1>3, <1>4

-----------------------------------------------------------------------------
(* The invariants *)

\* Every entry is a step of the evaluator.
Entries ==
    /\ \A k \in DOMAIN next :
          k \in Form /\ rule[k].kind = "next" /\ next[k] = rule[k].to
    /\ \A k \in DOMAIN terminal :
          \/ k \in Value /\ terminal[k] = k
          \/ k \in Form /\ rule[k].kind = "terminal" /\ terminal[k] = rule[k].to

Bounded ==
    /\ IsFiniteSet(DOMAIN next) /\ Cardinality(DOMAIN next) <= cap
    /\ IsFiniteSet(DOMAIN terminal) /\ Cardinality(DOMAIN terminal) <= cap

Registers ==
    /\ program \in Program /\ cap \in Capacity
    /\ pc \in {"idle", "lookup", "walk"}
    /\ asked \in Coordinate \cup {NoAnswer} /\ at \in Coordinate \cup {NoAnswer}
    /\ answer \in Value \cup {NoAnswer}
    /\ walked \subseteq Coordinate /\ lost \in BOOLEAN
    /\ pc # "idle" => asked \in Coordinate /\ at \in Coordinate

Inv1 == Registers /\ Entries /\ Bounded

\* Where lookup and the walk have come to.
Position ==
    /\ pc = "lookup" => at \in Reach(Drift, asked)
    /\ pc = "walk" => at \in Reach(Steps, asked)

Inv2 == Position /\ AnswersTrue

Stored == DOMAIN next \cup DOMAIN terminal

\* While nothing is dropped, a walked form's whole chain is in the stores, a
\* lookup on such a chain stays on it, and a walk has stored what is behind.
Chains ==
    ~ lost =>
        /\ \A f \in walked : Reach(Steps, f) \subseteq Stored
        /\ pc = "lookup" =>
              \A f \in walked : asked \in Reach(Steps, f) => at \in Reach(Steps, f)
        /\ pc = "walk" => Reach(Steps, asked) \subseteq Stored \cup Reach(Steps, at)

Inv3 == Chains /\ WalkedOnce

LEMMA RuleFacts ==
  ASSUME program \in Program, NEW f \in Form
  PROVE  /\ rule[f].kind = "next" => rule[f].to \in Coordinate
         /\ rule[f].kind = "terminal" => rule[f].to \in Value
         /\ rule[f].kind \in {"next", "terminal", "fails"}
BY CacheAssumption DEF StepResult, rule

LEMMA CapFacts == ASSUME cap \in Capacity PROVE cap \in Nat \ {0}
BY CacheAssumption

\* An entry whose key is a form leads where the form steps.
LEMMA StepEdge ==
  ASSUME NEW f \in Form, rule[f].kind = "next"
  PROVE  <<f, rule[f].to>> \in Steps
BY DEF Steps

LEMMA OnlyStep ==
  ASSUME NEW f \in Form, rule[f].kind = "next"
  PROVE  \A e \in Steps : e[1] = f => e[2] = rule[f].to
BY DEF Steps

LEMMA NoStep ==
  ASSUME NEW x, x \in Form => rule[x].kind # "next"
  PROVE  \A e \in Steps : e[1] # x
BY DEF Steps

-----------------------------------------------------------------------------
(* Types, entries and bounds *)

LEMMA Init1 == Init => Inv1
<1> SUFFICES ASSUME Init PROVE Inv1
  OBVIOUS
<1>1. DOMAIN next = {} /\ DOMAIN terminal = {}
  BY DEF Init
<1>2. Registers
  BY DEF Init, Registers
<1>3. Entries
  BY <1>1 DEF Entries
<1>4. Bounded
  BY <1>1, FS_EmptySet, CapFacts, CacheAssumption DEF Bounded, Init
<1> QED
  BY <1>2, <1>3, <1>4 DEF Inv1

\* What a store answers.
LEMMA TerminalHits ==
  ASSUME Inv1, NEW t \in Hits(terminal, at)
  PROVE  t \in Value
BY RuleFacts DEF Inv1, Registers, Entries, Hits

LEMMA NextHits ==
  ASSUME Inv1, NEW t \in Hits(next, at)
  PROVE  t \in Coordinate
BY RuleFacts DEF Inv1, Registers, Entries, Hits

LEMMA Ask1 == ASSUME Inv1, Ask PROVE Inv1'
<1>1. Registers'
  BY DEF Inv1, Registers, Ask, settings
<1>2. UNCHANGED <<program, cap, next, terminal>>
  BY DEF Ask, settings
<1>3. Entries' /\ Bounded'
  BY <1>2 DEF Inv1, Entries, Bounded, rule
<1> QED
  BY <1>1, <1>3 DEF Inv1

LEMMA Lookup1 == ASSUME Inv1, Lookup PROVE Inv1'
<1>1. UNCHANGED <<program, cap, next, terminal, asked, walked, lost>>
  BY DEF Lookup, LookupTerminal, LookupNext, LookupMiss, Return, settings
<1>2. Entries' /\ Bounded'
  BY <1>1 DEF Inv1, Entries, Bounded, rule
<1>3. CASE LookupTerminal
  <2>1. PICK t \in Hits(terminal, at) : Return(t)
    BY <1>3 DEF LookupTerminal
  <2>2. t \in Value
    BY <2>1, TerminalHits
  <2>3. pc' = "idle" /\ answer' = t /\ at' = at
    BY <2>1 DEF Return
  <2>4. Registers'
    BY <1>1, <2>2, <2>3 DEF Inv1, Registers
  <2> QED
    BY <1>2, <2>4 DEF Inv1
<1>4. CASE LookupNext
  <2>1. pc' = pc /\ answer' = answer /\ at' \in Coordinate
    BY <1>4, NextHits DEF LookupNext
  <2>2. Registers'
    BY <1>1, <2>1 DEF Inv1, Registers
  <2> QED
    BY <1>2, <2>2 DEF Inv1
<1>5. CASE LookupMiss
  <2>1. pc' = "walk" /\ at' = asked /\ answer' = answer /\ pc = "lookup"
    BY <1>5 DEF LookupMiss
  <2>2. Registers'
    BY <1>1, <2>1 DEF Inv1, Registers
  <2> QED
    BY <1>2, <2>2 DEF Inv1
<1> QED
  BY <1>3, <1>4, <1>5 DEF Lookup

LEMMA Walk1 == ASSUME Inv1, Walk PROVE Inv1'
<1>1. UNCHANGED <<program, cap, asked>> /\ rule' = rule
  BY DEF Walk, StepNext, StepTerminal, AlreadyTerminal, StepFails, Return, settings, rule
<1>2. pc = "walk" /\ at \in Coordinate /\ asked \in Coordinate /\ program \in Program
      /\ cap \in Nat \ {0} /\ walked \subseteq Coordinate
  BY CapFacts DEF Walk, StepNext, StepTerminal, AlreadyTerminal, StepFails, Inv1, Registers
<1>3. CASE StepNext
  <2>1. next' \in Puts(next, at, rule[at].to) /\ terminal' = terminal
    BY <1>3 DEF StepNext
  <2>2. at \in Form /\ rule[at].kind = "next" /\ rule[at].to \in Coordinate
    BY <1>2, <1>3, RuleFacts DEF StepNext
  <2>3. Entries'
    BY <1>1, <2>1, <2>2, PutKeeps DEF Entries, Inv1
  <2>4. Bounded'
    BY <1>1, <1>2, <2>1, PutFits DEF Bounded, Inv1
  <2>5. lost' \in BOOLEAN
    BY <1>3 DEF StepNext
  <2>6. Registers'
    BY <1>1, <1>2, <1>3, <2>2, <2>5 DEF StepNext, Registers, Inv1
  <2> QED
    BY <2>3, <2>4, <2>6 DEF Inv1
<1>4. CASE StepTerminal
  <2>1. terminal' \in Puts(terminal, at, rule[at].to) /\ next' = next
    BY <1>4 DEF StepTerminal
  <2>2. at \in Form /\ rule[at].kind = "terminal" /\ rule[at].to \in Value
    BY <1>2, <1>4, RuleFacts DEF StepTerminal
  <2>3. Entries'
    BY <1>1, <2>1, <2>2, PutKeeps DEF Entries, Inv1
  <2>4. Bounded'
    BY <1>1, <1>2, <2>1, PutFits DEF Bounded, Inv1
  <2>5. lost' \in BOOLEAN /\ walked' \subseteq Coordinate
    BY <1>2, <1>4 DEF StepTerminal
  <2>6. Registers'
    BY <1>1, <1>2, <1>4, <2>2, <2>5 DEF StepTerminal, Return, Registers, Inv1
  <2> QED
    BY <2>3, <2>4, <2>6 DEF Inv1
<1>5. CASE AlreadyTerminal
  <2>1. terminal' \in Puts(terminal, at, at) /\ next' = next /\ at \in Value
    BY <1>5 DEF AlreadyTerminal
  <2>3. Entries'
    BY <1>1, <2>1, PutKeeps DEF Entries, Inv1
  <2>4. Bounded'
    BY <1>1, <1>2, <2>1, PutFits DEF Bounded, Inv1
  <2>5. lost' \in BOOLEAN /\ walked' \subseteq Coordinate
    BY <1>2, <1>5 DEF AlreadyTerminal
  <2>6. Registers'
    BY <1>1, <1>2, <1>5, <2>1, <2>5 DEF AlreadyTerminal, Return, Registers, Inv1
  <2> QED
    BY <2>3, <2>4, <2>6 DEF Inv1
<1>6. CASE StepFails
  <2>1. UNCHANGED <<next, terminal, walked, lost, at>> /\ pc' = "idle" /\ answer' = NoAnswer
    BY <1>6 DEF StepFails
  <2>2. Entries' /\ Bounded'
    BY <1>1, <2>1 DEF Entries, Bounded, Inv1
  <2>3. Registers'
    BY <1>1, <2>1 DEF Registers, Inv1
  <2> QED
    BY <2>2, <2>3 DEF Inv1
<1> QED
  BY <1>3, <1>4, <1>5, <1>6 DEF Walk

LEMMA Stay1 == ASSUME Inv1, UNCHANGED vars PROVE Inv1'
BY DEF vars, Inv1, Registers, Entries, Bounded, rule

LEMMA Next1 == ASSUME Inv1, [Next]_vars PROVE Inv1'
BY Ask1, Lookup1, Walk1, Stay1 DEF Next

LEMMA Types == ASSUME Inv1 PROVE TypeOK
<1>1. DOMAIN next \subseteq Form /\ Range(next) \subseteq Coordinate
  BY RuleFacts DEF Inv1, Entries, Registers, Range
<1>2. DOMAIN terminal \subseteq Coordinate /\ Range(terminal) \subseteq Value
  BY RuleFacts DEF Inv1, Entries, Registers, Range, Coordinate
<1> QED
  BY <1>1, <1>2 DEF TypeOK, Inv1, Registers, Bounded

\* Types, and no store ever holds more than its capacity.
THEOREM TypesCorrect == Spec => []TypeOK
<1>1. Spec => []Inv1
  BY Init1, Next1, PTL DEF Spec
<1> QED
  BY <1>1, Types, PTL

-----------------------------------------------------------------------------
(* True answers *)

\* What a store answers is a value or a step of a form the probe leads to.
LEMMA TerminalAnswer ==
  ASSUME Inv1, at \in Coordinate, NEW x, at \in Reach(Drift, x),
         NEW t \in Hits(terminal, at)
  PROVE  t \in Values(Reach(Drift, x))
<1>1. PICK k \in DOMAIN terminal :
          t = terminal[k] /\ (k = at \/ <<k, at>> \in program.near)
  BY DEF Hits
<1>2. k \in Coordinate
  BY <1>1 DEF Inv1, Entries, Coordinate
<1>3. k \in Reach(Drift, x)
  <2>1. CASE k = at
    BY <2>1
  <2>2. CASE <<k, at>> \in program.near
    <3>1. <<at, k>> \in Drift
      BY <2>2 DEF Drift
    <3> QED
      BY <1>2, <3>1, ReachStep
  <2> QED
    BY <1>1, <2>1, <2>2
<1> QED
  BY <1>1, <1>3 DEF Inv1, Entries, Values

LEMMA NextAnswer ==
  ASSUME Inv1, at \in Coordinate, NEW x, at \in Reach(Drift, x),
         NEW t \in Hits(next, at)
  PROVE  t \in Reach(Drift, x)
<1>1. PICK k \in DOMAIN next :
          t = next[k] /\ (k = at \/ <<k, at>> \in program.near)
  BY DEF Hits
<1>2. k \in Form /\ rule[k].kind = "next" /\ t = rule[k].to /\ k \in Coordinate
  BY <1>1 DEF Inv1, Entries, Coordinate
<1>3. k \in Reach(Drift, x)
  <2>1. CASE k = at
    BY <2>1
  <2>2. CASE <<k, at>> \in program.near
    <3>1. <<at, k>> \in Drift
      BY <2>2 DEF Drift
    <3> QED
      BY <1>2, <3>1, ReachStep
  <2> QED
    BY <1>1, <2>1, <2>2
<1>4. <<k, t>> \in Drift /\ t \in Coordinate
  BY <1>2, StepEdge, RuleFacts DEF Drift, Inv1, Registers
<1> QED
  BY <1>3, <1>4, ReachStep

LEMMA StepsDrift == ASSUME NEW x PROVE Reach(Steps, x) \subseteq Reach(Drift, x)
BY ReachMore DEF Drift

LEMMA Init2 == Init => Inv2
BY DEF Init, Inv2, Position, AnswersTrue

LEMMA Next2 == ASSUME Inv1, Inv2, [Next]_vars PROVE Inv2'
<1>1. Steps' = Steps /\ Drift' = Drift /\ rule' = rule /\ program' = program
  BY DEF Next, Ask, Lookup, Walk, LookupTerminal, LookupNext, LookupMiss, StepNext,
         StepTerminal, AlreadyTerminal, StepFails, Return, vars, settings, rule,
         Steps, Drift
<1>2. pc # "idle" => asked \in Coordinate /\ at \in Coordinate
  BY DEF Inv1, Registers
<1>3. asked # NoAnswer <=> asked \in Coordinate
  BY CacheAssumption DEF Inv1, Registers, Coordinate
<1>4. \A t \in Value : t # NoAnswer
  BY CacheAssumption DEF Coordinate
<1>5. CASE Ask
  <2>1. asked' \in Coordinate /\ at' = asked' /\ pc' = "lookup"
    BY <1>5 DEF Ask
  <2>2. at' \in Reach(Drift, asked')
    BY <2>1, ReachSelf
  <2> QED
    BY <1>1, <2>1, <2>2 DEF Inv2, Position, AnswersTrue, Reach
<1>6. CASE LookupTerminal
  <2>1. PICK t \in Hits(terminal, at) :
            pc' = "idle" /\ answer' = t /\ asked' = asked /\ pc = "lookup"
    BY <1>6 DEF LookupTerminal, Return
  <2>2. at \in Reach(Drift, asked)
    BY <2>1 DEF Inv2, Position
  <2>3. t \in Values(Reach(Drift, asked))
    BY <1>2, <2>1, <2>2, TerminalAnswer
  <2>4. t # NoAnswer
    BY <1>4, <2>1, TerminalHits
  <2> QED
    BY <1>1, <2>1, <2>3, <2>4 DEF Inv2, Position, AnswersTrue, Reach, Values
<1>7. CASE LookupNext
  <2>1. at' \in Hits(next, at) /\ pc = "lookup" /\ pc' = pc /\ asked' = asked
    BY <1>7 DEF LookupNext
  <2>2. at' \in Reach(Drift, asked)
    BY <1>2, <2>1, NextAnswer DEF Inv2, Position
  <2> QED
    BY <1>1, <2>1, <2>2 DEF Inv2, Position, AnswersTrue, Reach
<1>8. CASE LookupMiss
  <2>1. pc = "lookup" /\ pc' = "walk" /\ at' = asked /\ asked' = asked
    BY <1>8 DEF LookupMiss
  <2>2. asked \in Reach(Steps, asked)
    BY <1>2, <2>1, ReachSelf
  <2> QED
    BY <1>1, <2>1, <2>2 DEF Inv2, Position, AnswersTrue, Reach
<1>9. CASE StepNext
  <2>1. pc = "walk" /\ pc' = pc /\ asked' = asked /\ at' = rule[at].to
        /\ at \in Form /\ rule[at].kind = "next"
    BY <1>9 DEF StepNext
  <2>2. rule[at].to \in Coordinate /\ <<at, rule[at].to>> \in Steps
    BY <2>1, RuleFacts, StepEdge DEF Inv1, Registers
  <2>3. at \in Reach(Steps, asked)
    BY <2>1 DEF Inv2, Position
  <2>4. at' \in Reach(Steps, asked)
    BY <2>1, <2>2, <2>3, ReachStep
  <2> QED
    BY <1>1, <2>1, <2>4 DEF Inv2, Position, AnswersTrue, Reach
<1>10. CASE StepTerminal \/ AlreadyTerminal
  <2>1. /\ pc = "walk" /\ pc' = "idle" /\ asked' = asked
        /\ \/ at \in Form /\ rule[at].kind = "terminal" /\ answer' = rule[at].to
           \/ at \in Value /\ answer' = at
    BY <1>10 DEF StepTerminal, AlreadyTerminal, Return
  <2>2. at \in Reach(Drift, asked)
    BY <2>1, StepsDrift DEF Inv2, Position
  <2>3. answer' \in Values(Reach(Drift, asked))
    BY <2>1, <2>2 DEF Values
  <2>4. answer' # NoAnswer
    BY <1>4, <2>1, RuleFacts DEF Inv1, Registers
  <2> QED
    BY <1>1, <2>1, <2>3, <2>4 DEF Inv2, Position, AnswersTrue, Reach, Values
<1>11. CASE StepFails
  <2>1. pc = "walk" /\ pc' = "idle" /\ asked' = asked /\ answer' = NoAnswer
        /\ at \in Form /\ rule[at].kind = "fails"
    BY <1>11 DEF StepFails
  <2>2. at \in Reach(Steps, asked)
    BY <2>1 DEF Inv2, Position
  <2> QED
    BY <1>1, <2>1, <2>2 DEF Inv2, Position, AnswersTrue, Reach
<1>12. CASE UNCHANGED vars
  BY <1>1, <1>12 DEF vars, Inv2, Position, AnswersTrue, Reach, Values
<1> QED
  BY <1>5, <1>6, <1>7, <1>8, <1>9, <1>10, <1>11, <1>12 DEF Next, Lookup, Walk

\* Whatever the stores have dropped or hold half of, resolve answers with a
\* value the form leads to, and with None only when its evaluation fails.
THEOREM AnswersCorrect == Spec => []AnswersTrue
<1>1. Spec => [](Inv1 /\ Inv2)
  BY Init1, Init2, Next1, Next2, PTL DEF Spec
<1>2. Inv2 => AnswersTrue
  BY DEF Inv2
<1> QED
  BY <1>1, <1>2, PTL

-----------------------------------------------------------------------------
(* No walk twice *)

\* A coordinate on a stored chain is answered by its own entry.
LEMMA OwnEntry ==
  ASSUME Inv1, at \in Stored
  PROVE  /\ Hits(terminal, at) # {} \/ Hits(next, at) # {}
         /\ Hits(terminal, at) = {} =>
               at \in Form /\ rule[at].kind = "next" /\ Hits(next, at) = {rule[at].to}
BY DEF Inv1, Entries, Hits, Stored

LEMMA Init3 == Init => Inv3
BY DEF Init, Inv3, Chains, WalkedOnce

\* The invariant of the stores needs only that they lose nothing.
LEMMA Next3 == ASSUME Inv1, Inv3, [Next]_vars PROVE Inv3'
<1>1. Steps' = Steps /\ rule' = rule /\ program' = program
  BY DEF Next, Ask, Lookup, Walk, LookupTerminal, LookupNext, LookupMiss, StepNext,
         StepTerminal, AlreadyTerminal, StepFails, Return, vars, settings, rule, Steps
<1>2. pc # "idle" => asked \in Coordinate /\ at \in Coordinate
  BY DEF Inv1, Registers
<1>4. CASE Ask
  <2>1. at' = asked' /\ pc' = "lookup"
        /\ UNCHANGED <<next, terminal, walked, lost>>
    BY <1>4 DEF Ask
  <2> QED
    BY <1>1, <2>1 DEF Inv3, Chains, WalkedOnce, Stored, Reach
<1>5. CASE LookupTerminal
  <2>1. pc' = "idle" /\ UNCHANGED <<next, terminal, walked, lost>>
    BY <1>5 DEF LookupTerminal, Return
  <2> QED
    BY <1>1, <2>1 DEF Inv3, Chains, WalkedOnce, Stored, Reach
<1>6. CASE LookupNext
  <2>1. /\ pc = "lookup" /\ pc' = pc /\ UNCHANGED <<asked, next, terminal, walked, lost>>
        /\ Hits(terminal, at) = {} /\ at' \in Hits(next, at)
    BY <1>6 DEF LookupNext
  <2>2. ASSUME ~ lost, NEW f \in walked, asked \in Reach(Steps, f)
        PROVE  at' \in Reach(Steps, f)
    <3>1. at \in Reach(Steps, f) /\ at \in Stored
      BY <2>1, <2>2 DEF Inv3, Chains
    <3>2. at \in Form /\ rule[at].kind = "next" /\ at' = rule[at].to
      BY <2>1, <3>1, OwnEntry
    <3>3. <<at, at'>> \in Steps /\ at' \in Coordinate
      BY <3>2, StepEdge, RuleFacts DEF Inv1, Registers
    <3> QED
      BY <3>1, <3>3, ReachStep
  <2> QED
    BY <1>1, <2>1, <2>2 DEF Inv3, Chains, WalkedOnce, Stored, Reach
<1>7. CASE LookupMiss
  <2>1. /\ pc = "lookup" /\ pc' = "walk" /\ at' = asked
        /\ UNCHANGED <<asked, next, terminal, walked, lost>>
        /\ Hits(terminal, at) = {} /\ Hits(next, at) = {}
    BY <1>7 DEF LookupMiss
  <2>2. ASSUME ~ lost, NEW f \in walked, asked \in Reach(Steps, f)
        PROVE  FALSE
    <3>1. at \in Stored
      BY <2>1, <2>2 DEF Inv3, Chains
    <3> QED
      BY <2>1, <3>1, OwnEntry
  <2> QED
    BY <1>1, <2>1, <2>2 DEF Inv3, Chains, WalkedOnce, Stored, Reach
<1>8. CASE StepNext
  <2>1. /\ pc = "walk" /\ pc' = pc /\ UNCHANGED <<asked, terminal, walked>>
        /\ at \in Form /\ rule[at].kind = "next" /\ at' = rule[at].to
        /\ next' \in Puts(next, at, rule[at].to)
        /\ lost' = (lost \/ Evicts(next, at))
    BY <1>8 DEF StepNext
  <2>2. ~ lost' => ~ lost /\ ~ Evicts(next, at)
    BY <2>1
  <2>3. ~ lost' => Stored \cup {at} \subseteq Stored'
    BY <2>1, <2>2, PutKeeps DEF Stored
  <2>4. Reach(Steps, at) \subseteq {at} \cup Reach(Steps, at')
    BY <1>2, <2>1, OnlyStep, ReachFirst
  <2>5. ~ lost' => Reach(Steps, asked) \subseteq Stored' \cup Reach(Steps, at')
    BY <2>1, <2>2, <2>3, <2>4 DEF Inv3, Chains
  <2>6. ~ lost' => \A f \in walked : Reach(Steps, f) \subseteq Stored'
    BY <2>2, <2>3 DEF Inv3, Chains
  <2>7. ~ lost' => \A f \in walked : asked \notin Reach(Steps, f)
    BY <2>1, <2>2 DEF Inv3, WalkedOnce
  <2> QED
    BY <1>1, <2>1, <2>5, <2>6, <2>7 DEF Inv3, Chains, WalkedOnce, Reach
<1>9. CASE StepTerminal \/ AlreadyTerminal
  <2>1. /\ pc = "walk" /\ pc' = "idle" /\ UNCHANGED <<asked, next>>
        /\ walked' = walked \cup {asked}
        /\ at \in Form => rule[at].kind = "terminal"
        /\ \E t : terminal' \in Puts(terminal, at, t)
        /\ lost' = (lost \/ Evicts(terminal, at))
    BY <1>9, CacheAssumption DEF StepTerminal, AlreadyTerminal, Return
  <2>2. ~ lost' => ~ lost /\ ~ Evicts(terminal, at)
    BY <2>1
  <2>3. ~ lost' => Stored \cup {at} \subseteq Stored'
    BY <2>1, <2>2, PutKeeps DEF Stored
  <2>4. Reach(Steps, at) = {at}
    BY <1>2, <2>1, NoStep, ReachLast
  <2>5. ~ lost' => Reach(Steps, asked) \subseteq Stored'
    BY <2>1, <2>2, <2>3, <2>4 DEF Inv3, Chains
  <2>6. ~ lost' => \A f \in walked' : Reach(Steps, f) \subseteq Stored'
    BY <2>1, <2>2, <2>3, <2>5 DEF Inv3, Chains
  <2> QED
    BY <1>1, <2>1, <2>6 DEF Inv3, Chains, WalkedOnce, Reach
<1>10. CASE StepFails
  <2>1. pc' = "idle" /\ UNCHANGED <<next, terminal, walked, lost>>
    BY <1>10 DEF StepFails
  <2> QED
    BY <1>1, <2>1 DEF Inv3, Chains, WalkedOnce, Stored, Reach
<1>11. CASE UNCHANGED vars
  BY <1>1, <1>11 DEF vars, Inv3, Chains, WalkedOnce, Stored, Reach
<1> QED
  BY <1>4, <1>5, <1>6, <1>7, <1>8, <1>9, <1>10, <1>11 DEF Next, Lookup, Walk

\* Nothing a walk has stepped through to its value is walked again before an
\* entry is dropped, however forms coincide.
THEOREM WalksCorrect == Spec => []WalkedOnce
<1>1. Spec => [](Inv1 /\ Inv3)
  BY Init1, Init3, Next1, Next3, PTL DEF Spec
<1>2. Inv3 => WalkedOnce
  BY DEF Inv3
<1> QED
  BY <1>1, <1>2, PTL

=============================================================================
