---------------------------- MODULE ThoughtCache ----------------------------
(***************************************************************************)
(* A thinker's thought cache (wat/cache/L1.wat, wat/cache/walker.wat): what *)
(* a form rewrites to in one step, and what it finally evaluates to, each   *)
(* in a bounded store of the thinker's own; a form neither store leads to   *)
(* the end is walked by the evaluator, which records what it passes.        *)
(*                                                                         *)
(* A form is a coordinate and its contents are not looked at.  From the     *)
(* runtime: one evaluator step turns a form into another one, into its      *)
(* terminal value, or fails; a value is already terminal.  A store answers  *)
(* a probe with the entry of the nearest key that is coincident with it:    *)
(* its own key when that is there, else one the relation near allows.  A    *)
(* full store makes room by dropping an entry; which one the recency decides*)
(* is left open.                                                            *)
(***************************************************************************)
EXTENDS FiniteSetsExt, Functions, Naturals

CONSTANTS
    Form,      \* forms the evaluator can step
    Value,     \* terminal values, which are coordinates too
    Program,   \* what may be run: records of a rule and a coincidence
    Capacity,  \* what L1/make may be given
    NoAnswer

Coordinate == Form \cup Value

\* What one step of the evaluator does to a form.
StepResult ==
    [kind : {"next"}, to : Coordinate] \cup [kind : {"terminal"}, to : Value]
        \cup [kind : {"fails"}]

ASSUME CacheAssumption ==
    /\ Form \cap Value = {}
    /\ \A p \in Program : /\ p.rule \in [Form -> StepResult]
                          /\ p.near \subseteq Coordinate \X Coordinate
    /\ Capacity \subseteq Nat \ {0}
    /\ NoAnswer \notin Coordinate

VARIABLES
    program,   \* the rule and the coincidence the thinker meets
    cap,       \* the bound of each store
    next,      \* L1's first store: form to the form it steps to
    terminal,  \* L1's second store: form to its terminal value
    pc,        \* idle, inside lookup, inside the evaluator's walk, answered
    asked,     \* the argument of resolve
    at,        \* the coordinate lookup or the walk has come to
    answer,    \* the last result of resolve
    walked,    \* forms a walk has found the value of
    lost       \* an entry has been dropped

vars == <<program, cap, next, terminal, pc, asked, at, answer, walked, lost>>
settings == <<program, cap>>

rule == program.rule

-----------------------------------------------------------------------------
(* A store *)

\* Variant: a key that is not coincident may answer.
HitsUnfiltered(store, probe) ==
    IF probe \in DOMAIN store THEN {store[probe]} ELSE Range(store)

\* What a store may answer a probe with.
Hits(store, probe) ==
    IF probe \in DOMAIN store
    THEN {store[probe]}
    ELSE {store[k] : k \in {k \in DOMAIN store : <<k, probe>> \in program.near}}

Full(store) == Cardinality(DOMAIN store) >= cap
Evicts(store, key) == key \notin DOMAIN store /\ Full(store)

\* The stores a put may leave.
Puts(store, key, value) ==
    LET kept == IF Evicts(store, key)
                THEN {DOMAIN store \ {k} : k \in DOMAIN store}
                ELSE {DOMAIN store}
    IN  {[k \in keys \cup {key} |-> IF k = key THEN value ELSE store[k]] :
            keys \in kept}

-----------------------------------------------------------------------------
(* resolve *)

Init ==
    /\ program \in Program
    /\ cap \in Capacity
    /\ next = <<>> /\ terminal = <<>>
    /\ pc = "idle"
    /\ asked = NoAnswer /\ at = NoAnswer /\ answer = NoAnswer
    /\ walked = {} /\ lost = FALSE

Ask ==
    /\ pc = "idle"
    /\ asked' \in Coordinate
    /\ at' = asked'
    /\ pc' = "lookup"
    /\ answer' = NoAnswer
    /\ UNCHANGED <<settings, next, terminal, walked, lost>>

\* resolve returns Some(value).
Return(value) ==
    /\ pc' = "idle"
    /\ answer' = value
    /\ UNCHANGED <<settings, asked, at>>

\* L1/lookup, first arm: the terminal store has the coordinate.
LookupTerminal ==
    /\ pc = "lookup"
    /\ \E t \in Hits(terminal, at) : Return(t)
    /\ UNCHANGED <<next, terminal, walked, lost>>

\* Second arm: go on from the coordinate the next store has.
LookupNext ==
    /\ pc = "lookup"
    /\ Hits(terminal, at) = {}
    /\ at' \in Hits(next, at)
    /\ UNCHANGED <<settings, next, terminal, pc, asked, answer, walked, lost>>

\* Variant: resolve answers None where a chain of cached steps breaks off.
LookupMissAnswers ==
    /\ pc = "lookup"
    /\ Hits(terminal, at) = {} /\ Hits(next, at) = {}
    /\ pc' = IF at = asked THEN "walk" ELSE "idle"
    /\ UNCHANGED <<settings, next, terminal, asked, at, answer, walked, lost>>

\* Third arm: the walk starts over from the form that was asked.
LookupMiss ==
    /\ pc = "lookup"
    /\ Hits(terminal, at) = {} /\ Hits(next, at) = {}
    /\ pc' = "walk" /\ at' = asked
    /\ UNCHANGED <<settings, next, terminal, asked, answer, walked, lost>>

\* The visitor's StepNext arm.
StepNext ==
    /\ pc = "walk" /\ at \in Form /\ rule[at].kind = "next"
    /\ next' \in Puts(next, at, rule[at].to)
    /\ lost' = (lost \/ Evicts(next, at))
    /\ at' = rule[at].to
    /\ UNCHANGED <<settings, terminal, pc, asked, answer, walked>>

\* Variant: the value goes back without being recorded.
StepTerminalUnrecorded ==
    /\ pc = "walk" /\ at \in Form /\ rule[at].kind = "terminal"
    /\ walked' = walked \cup {asked}
    /\ Return(rule[at].to)
    /\ UNCHANGED <<next, terminal, lost>>

\* The StepTerminal arm, after which the walk and resolve return.
StepTerminal ==
    /\ pc = "walk" /\ at \in Form /\ rule[at].kind = "terminal"
    /\ terminal' \in Puts(terminal, at, rule[at].to)
    /\ lost' = (lost \/ Evicts(terminal, at))
    /\ walked' = walked \cup {asked}
    /\ Return(rule[at].to)
    /\ UNCHANGED next

\* Variant: the self-edge goes to the other store.
AlreadyTerminalNext ==
    /\ pc = "walk" /\ at \in Value
    /\ next' \in Puts(next, at, at)
    /\ lost' = (lost \/ Evicts(next, at))
    /\ walked' = walked \cup {asked}
    /\ Return(at)
    /\ UNCHANGED terminal

\* The AlreadyTerminal arm.
AlreadyTerminal ==
    /\ pc = "walk" /\ at \in Value
    /\ terminal' \in Puts(terminal, at, at)
    /\ lost' = (lost \/ Evicts(terminal, at))
    /\ walked' = walked \cup {asked}
    /\ Return(at)
    /\ UNCHANGED next

\* The walk returns Err, resolve None; what was recorded on the way stays.
StepFails ==
    /\ pc = "walk" /\ at \in Form /\ rule[at].kind = "fails"
    /\ pc' = "idle" /\ answer' = NoAnswer
    /\ UNCHANGED <<settings, next, terminal, asked, at, walked, lost>>

Lookup == LookupTerminal \/ LookupNext \/ LookupMiss
Walk == StepNext \/ StepTerminal \/ AlreadyTerminal \/ StepFails

Next == Ask \/ Lookup \/ Walk

\* The thinker runs resolve to its end; it need not call it.
Spec == Init /\ [][Next]_vars /\ WF_vars(Lookup \/ Walk)

-----------------------------------------------------------------------------
(* Properties *)

\* What R leads to from x, x included.
Reach(R, x) ==
    {y \in Coordinate :
        \A T \in SUBSET Coordinate :
            x \in T /\ (\A e \in R : e[1] \in T => e[2] \in T) => y \in T}

Steps == {<<f, rule[f].to>> : f \in {f \in Form : rule[f].kind = "next"}}

\* The values the coordinates of S are, or step to.
Values(S) ==
    (S \cap Value) \cup
        {rule[f].to : f \in {f \in S \cap Form : rule[f].kind = "terminal"}}

\* Coincidents are looked up from the probe to the key.
Drift == Steps \cup {<<e[2], e[1]>> : e \in program.near}

TypeOK ==
    /\ program \in Program /\ cap \in Capacity
    /\ DOMAIN next \subseteq Form /\ Range(next) \subseteq Coordinate
    /\ DOMAIN terminal \subseteq Coordinate /\ Range(terminal) \subseteq Value
    /\ Cardinality(DOMAIN next) <= cap /\ Cardinality(DOMAIN terminal) <= cap
    /\ pc \in {"idle", "lookup", "walk"}
    /\ asked \in Coordinate \cup {NoAnswer} /\ at \in Coordinate \cup {NoAnswer}
    /\ answer \in Value \cup {NoAnswer}
    /\ walked \subseteq Coordinate /\ lost \in BOOLEAN

\* Whatever has been dropped or left half recorded since, resolve answers
\* with the value the form has by itself, or one it can only have from a
\* coincident form met on the way; None says that the form's own evaluation
\* fails.
AnswersTrue ==
    (pc = "idle" /\ asked # NoAnswer) =>
        IF answer = NoAnswer
        THEN \E f \in Reach(Steps, asked) \cap Form : rule[f].kind = "fails"
        ELSE answer \in Values(Reach(Drift, asked))

\* A form whose walk found its value, and every form that walk stepped
\* through, is walked again only when an entry was dropped since (059-001
\* DESIGN.md, T3: "second walk hits the first walk's cache entry").
WalkedOnce ==
    pc = "walk" /\ ~ lost => \A f \in walked : asked \notin Reach(Steps, f)

\* resolve always returns: the chain of cached steps has no circle, whichever
\* half of an edge and its value has been dropped.
ResolveReturns == pc # "idle" ~> pc = "idle"

=============================================================================
