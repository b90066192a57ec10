---------------------------- MODULE TrustLedger ----------------------------
(***************************************************************************)
(* What the treasury promises its proposers, without saying how it keeps   *)
(* track.  Every paper lives Active until its proposer leaves it with a    *)
(* profit (Grace) or a tick finds it past its deadline (Violence), and     *)
(* real capital goes only to an owner whose papers, counted one by one,    *)
(* have proven it.  No track record is kept: trust is read off the papers. *)
(***************************************************************************)
EXTENDS Integers, FiniteSets

CONSTANTS
    Owner,
    Asset,
    Candle,
    Term,
    Capital,          \* asset -> dollars at the start
    RealAmount,       \* the most one grant may take
    GateSubmissions   \* papers an owner must have submitted

VARIABLES
    life,     \* paper id -> [owner, deadline, phase]
    grants,   \* grant id -> [owner, asset, amount]
    funds     \* asset -> dollars not granted

lvars == <<life, grants, funds>>

Of(o) == {id \in DOMAIN life : life[id].owner = o}
InPhase(o, phase) == {id \in Of(o) : life[id].phase = phase}

\* Enough papers, and more of the resolved ones survived than failed.
Proven(o) ==
    /\ Cardinality(Of(o)) >= GateSubmissions
    /\ Cardinality(InPhase(o, "Grace")) > Cardinality(InPhase(o, "Violence"))

LInit ==
    /\ life = [id \in {} |-> {}]
    /\ grants = [id \in {} |-> {}]
    /\ funds = Capital

\* Papers and grants are numbered from 0 without gaps.
Submit(o, c, t) ==
    LET id == Cardinality(DOMAIN life)
    IN  /\ life' = [i \in DOMAIN life \cup {id} |->
                      IF i = id THEN [owner |-> o, deadline |-> c + t,
                                      phase |-> "Active"]
                                ELSE life[i]]
        /\ UNCHANGED <<grants, funds>>

Survive(id) ==
    /\ life[id].phase = "Active"
    /\ life' = [life EXCEPT ![id].phase = "Grace"]
    /\ UNCHANGED <<grants, funds>>

\* A tick ends all that is due, and nothing else.
Tick(c) ==
    /\ life' = [id \in DOMAIN life |->
                  IF life[id].phase = "Active" /\ life[id].deadline <= c
                  THEN [life[id] EXCEPT !.phase = "Violence"] ELSE life[id]]
    /\ UNCHANGED <<grants, funds>>

Fund(o, a) ==
    LET id == Cardinality(DOMAIN grants)
        n == IF funds[a] < RealAmount THEN funds[a] ELSE RealAmount
    IN  /\ Proven(o)
        /\ funds[a] > 0
        /\ grants' = [i \in DOMAIN grants \cup {id} |->
                        IF i = id THEN [owner |-> o, asset |-> a, amount |-> n]
                                  ELSE grants[i]]
        /\ funds' = [funds EXCEPT ![a] = @ - n]
        /\ UNCHANGED life

LNext ==
    \/ \E o \in Owner, c \in Candle, t \in Term : Submit(o, c, t)
    \/ \E id \in DOMAIN life : Survive(id)
    \/ \E c \in Candle : Tick(c)
    \/ \E o \in Owner, a \in DOMAIN funds : Fund(o, a)

LSpec == LInit /\ [][LNext]_lvars
=============================================================================
