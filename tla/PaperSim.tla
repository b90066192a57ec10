------------------------------ MODULE PaperSim ------------------------------
(***************************************************************************)
(* The paper lifecycle simulator (wat/sim/paper.wat): candle by candle it   *)
(* ticks the indicator bank, of which only the phase labeler decides        *)
(* anything here, asks the predictor for an action, and opens, holds or     *)
(* resolves at most one paper.                                              *)
(*                                                                         *)
(* Residues are in basis points of the entry price.  The predictor is any   *)
(* function of the surface the thinker sees, so its action is any action.   *)
(* Surfaces, label coordinates (sim/labels.wat) and the decision field of a *)
(* trigger, always NotEvaluated, are written and never read back: left out. *)
(***************************************************************************)
EXTENDS PhaseState, SequencesExt

CONSTANTS
    Deadline,     \* candles a paper may live, 288 by default
    MinResidue,   \* basis points, 100 by default
    FeeBps,       \* 35 by default
    WindowCap     \* 256 candles

\* The deadline is well within the phase history, 288 against 2016 candles.
ASSUME ConfigAssumption ==
    /\ Deadline \in Nat \ {0} /\ Deadline <= HistoryMaxAge
    /\ MinResidue \in Nat
    /\ FeeBps \in Nat
    /\ WindowCap \in Nat \ {0}

VARIABLES
    window,         \* the candles the thinker sees, by number
    openPaper,      \* {} or the one open paper
    outcomes,       \* resolved papers, the oldest first
    paperId,        \* id of the last paper opened
    aggregate,
    prevPhaseGen,   \* the labeler's generation at the last tick
    simCount        \* candles ticked

paperVars == <<openPaper, outcomes, paperId, aggregate>>
simVars == <<phaseVars, window, paperVars, prevPhaseGen, simCount>>

Direction == {"Up", "Down"}
Action == {"Hold", "Exit"} \cup Direction   \* (Open dir) is dir

-----------------------------------------------------------------------------
(* Helpers *)

\* Net profit of paper p at this price, after the fee of the round trip.
Residue(p, price) ==
    LET directed == IF p.direction = "Up" THEN price - p.entryPrice
                                          ELSE p.entryPrice - price
    IN  (directed * 10000) \div p.entryPrice - 2 * FeeBps

Abs(n) == IF n < 0 THEN -n ELSE n

\* Against an Up paper is a Peak, against a Down paper a Valley.
DirectionAgainst(direction, label) ==
    label = IF direction = "Up" THEN "Peak" ELSE "Valley"

\* What the predictor's action means to the holder of paper p.
EffectiveAction(raw, p) ==
    CASE raw \in {"Hold", "Exit"} -> raw
      [] raw = p.direction -> "Hold"
      [] OTHER -> "Exit"

LabelTrailGrace(trail) ==
    [i \in DOMAIN trail |->
        [event |-> trail[i],
         label |-> IF i = Len(trail) THEN "Exit" ELSE "Hold"]]

LabelTrailViolence(trail) ==
    [i \in DOMAIN trail |-> [event |-> trail[i], label |-> "Exit"]]

\* The labeler closed a phase since the last tick.
TriggerFired == generation' # prevPhaseGen

TriggerEvent ==
    [candle |-> simCount + 1, label |-> currentLabel']

\* Variant: only a trigger against the paper is written down.
TrailWithTriggerIfAgainst(p) ==
    IF TriggerFired /\ DirectionAgainst(p.direction, currentLabel')
    THEN Append(p.trail, TriggerEvent) ELSE p.trail

TrailWithTrigger(p) ==
    IF TriggerFired THEN Append(p.trail, TriggerEvent) ELSE p.trail

DeadlineReached(p) == simCount + 1 >= p.deadline

\* Variant: the residue floor is not asked for.
GraceEligibleAnyResidue(p, raw) ==
    /\ TriggerFired
    /\ DirectionAgainst(p.direction, currentLabel')
    /\ EffectiveAction(raw, p) = "Exit"

\* The simulator's four gates, all of them required: a trigger, against the
\* paper, with the residue above the floor, and the predictor's word.
GraceEligible(p, raw) ==
    /\ TriggerFired
    /\ DirectionAgainst(p.direction, currentLabel')
    /\ Residue(p, lastClose') >= MinResidue
    /\ EffectiveAction(raw, p) = "Exit"

Outcome(p, state, residue, labeled) ==
    [paper |-> [p EXCEPT !.state = state, !.trail = TrailWithTrigger(p)],
     closedAt |-> simCount + 1, finalResidue |-> residue,
     labeledTrail |-> labeled]

-----------------------------------------------------------------------------
(* The dispatch of a tick *)

SimInit ==
    /\ PhaseInit
    /\ window = <<>>
    /\ openPaper = {}
    /\ outcomes = <<>>
    /\ paperId = 0
    /\ aggregate = [papers |-> 0, graceCount |-> 0, violenceCount |-> 0,
                    totalResidue |-> 0, totalLoss |-> 0]
    /\ prevPhaseGen = 0
    /\ simCount = 0

\* No paper, and the action is not to open one.
StayOut(raw) ==
    /\ openPaper = {}
    /\ raw \in {"Hold", "Exit"}
    /\ UNCHANGED paperVars

OpenNewPaper(raw) ==
    /\ openPaper = {}
    /\ raw \in Direction
    /\ openPaper' = {[id |-> paperId + 1, direction |-> raw,
                      entryPrice |-> lastClose', entryCandle |-> simCount + 1,
                      deadline |-> simCount + 1 + Deadline,
                      state |-> "Active", trail |-> <<>>]}
    /\ paperId' = paperId + 1
    /\ UNCHANGED <<outcomes, aggregate>>

ResolveViolence ==
    \E p \in openPaper :
        LET residue == Residue(p, lastClose')
        IN  /\ DeadlineReached(p)
            /\ openPaper' = {}
            /\ outcomes' = Append(outcomes,
                 Outcome(p, "Violence", residue,
                         LabelTrailViolence(TrailWithTrigger(p))))
            /\ aggregate' =
                 [aggregate EXCEPT !.papers = @ + 1, !.violenceCount = @ + 1,
                                   !.totalLoss = @ + Abs(residue)]
            /\ UNCHANGED paperId

\* Variant: the residue is added twice, once for the paper and once for
\* its exit.
ResolveGraceDoubleCounts(raw) ==
    \E p \in openPaper :
        LET residue == Residue(p, lastClose')
        IN  /\ ~DeadlineReached(p) /\ GraceEligible(p, raw)
            /\ openPaper' = {}
            /\ outcomes' = Append(outcomes,
                 Outcome(p, "Grace", residue,
                         LabelTrailGrace(TrailWithTrigger(p))))
            /\ aggregate' =
                 [aggregate EXCEPT !.papers = @ + 1, !.graceCount = @ + 1,
                                   !.totalResidue = @ + 2 * residue]
            /\ UNCHANGED paperId

ResolveGrace(raw) ==
    \E p \in openPaper :
        LET residue == Residue(p, lastClose')
        IN  /\ ~DeadlineReached(p) /\ GraceEligible(p, raw)
            /\ openPaper' = {}
            /\ outcomes' = Append(outcomes,
                 Outcome(p, "Grace", residue,
                         LabelTrailGrace(TrailWithTrigger(p))))
            /\ aggregate' =
                 [aggregate EXCEPT !.papers = @ + 1, !.graceCount = @ + 1,
                                   !.totalResidue = @ + residue]
            /\ UNCHANGED paperId

ContinueHolding(raw) ==
    \E p \in openPaper :
        /\ ~DeadlineReached(p) /\ ~GraceEligible(p, raw)
        /\ openPaper' = {[p EXCEPT !.trail = TrailWithTrigger(p)]}
        /\ UNCHANGED <<outcomes, paperId, aggregate>>

NextWindow ==
    LET appended == Append(window, candle + 1)
    IN  IF Len(appended) > WindowCap
        THEN SubSeq(appended, Len(appended) - WindowCap + 1, Len(appended))
        ELSE appended

Tick(close, smoothing, raw) ==
    /\ Step(close, smoothing)
    /\ window' = NextWindow
    /\ prevPhaseGen' = generation'
    /\ simCount' = simCount + 1
    /\ \/ StayOut(raw)
       \/ OpenNewPaper(raw)
       \/ ResolveViolence
       \/ ResolveGrace(raw)
       \/ ContinueHolding(raw)

SimNext ==
    /\ simCount < MaxCandle
    /\ \E close \in Price, smoothing \in Smoothing, raw \in Action :
          Tick(close, smoothing, raw)

SimSpec == SimInit /\ [][SimNext]_simVars

-----------------------------------------------------------------------------
(* Properties *)

IsPaper(p) ==
    /\ p.id \in Nat \ {0} /\ p.direction \in Direction
    /\ p.entryPrice \in Price
    /\ p.entryCandle \in Nat /\ p.deadline = p.entryCandle + Deadline
    /\ p.state \in {"Active", "Grace", "Violence"}

\* Types, one open paper at most and it is active; the simulator and the
\* labeler have seen the same candles and the same generation, and the window
\* holds the last WindowCap of them.
SimTypeOK ==
    /\ PhaseTypeOK
    /\ openPaper = {} \/ \E p \in openPaper :
          openPaper = {p} /\ IsPaper(p) /\ p.state = "Active"
    /\ \A i \in DOMAIN outcomes :
          /\ IsPaper(outcomes[i].paper)
          /\ outcomes[i].paper.state # "Active"
          /\ outcomes[i].finalResidue \in Int
    /\ paperId \in Nat
    /\ simCount = candle /\ prevPhaseGen = generation
    /\ Len(window) = IF candle < WindowCap THEN candle ELSE WindowCap
    /\ \A i \in DOMAIN window : window[i] = candle - Len(window) + i

\* The resolved papers of one fate, and what they gained or lost together.
Fated(state) == {i \in DOMAIN outcomes : outcomes[i].paper.state = state}
Total(state) ==
    SumFunctionOnSet([i \in DOMAIN outcomes |-> Abs(outcomes[i].finalResidue)],
                     Fated(state))

\* The aggregate a run returns, kept incrementally, is the fold of its
\* outcomes: every resolved paper counted once, under its own fate, with its
\* own residue, and ids given without a gap.
AggregateIsFold ==
    /\ aggregate =
         [papers |-> Len(outcomes), graceCount |-> Cardinality(Fated("Grace")),
          violenceCount |-> Cardinality(Fated("Violence")),
          totalResidue |-> Total("Grace"), totalLoss |-> Total("Violence")]
    /\ \A i \in DOMAIN outcomes : outcomes[i].paper.id = i
    /\ paperId = Len(outcomes) + Cardinality(openPaper)
    /\ \A p \in openPaper : p.id = paperId

\* Every paper ends by the simulator's own rules (direction-against?,
\* evaluate-grace-eligible?, the waterfall of tick): Violence at its deadline
\* and neither sooner nor later; Grace before it, at a trigger of that very
\* tick, a Peak for Up and a Valley for Down, with the residue above the
\* floor; and only the trigger that closed a Grace paper, or all those a
\* Violence paper let pass, are labelled Exit.  Proposal 055, which the code
\* names as its source, resolves the gates otherwise.
ResolvedRightly ==
    \A i \in DOMAIN outcomes :
        LET o == outcomes[i]
            trail == o.labeledTrail
            exits == {j \in DOMAIN trail : trail[j].label = "Exit"}
        IN  IF o.paper.state = "Violence"
            THEN o.closedAt = o.paper.deadline /\ exits = DOMAIN trail
            ELSE /\ o.closedAt < o.paper.deadline
                 /\ o.finalResidue >= MinResidue
                 /\ exits = {Len(trail)}
                 /\ Last(trail).event.candle = o.closedAt
                 /\ DirectionAgainst(o.paper.direction, Last(trail).event.label)

\* One paper at a time: each is opened strictly after the one before was
\* resolved, and the open one has not reached its deadline.
PapersApart ==
    /\ \A i \in 1..(Len(outcomes) - 1) :
          outcomes[i].closedAt < outcomes[i + 1].paper.entryCandle
    /\ \A p \in openPaper :
          /\ p.entryCandle <= simCount /\ simCount < p.deadline
          /\ outcomes # <<>> => Last(outcomes).closedAt < p.entryCandle

\* The phases the labeler knows: those it has closed and still holds, and
\* the running one.
Phases ==
    Append(phaseHistory, [start |-> currentStart, label |-> currentPhaseLabel])

\* The trail of an open paper is exactly the phases that began after its
\* entry, in order, each with its label: no trigger missed, none invented,
\* none of the entry candle, although the trail is kept by the simulator and
\* the phases by the labeler, which forgets the old ones.
TrailFollowsPhases ==
    \A p \in openPaper :
        LET before == Len(Phases) - Len(p.trail)
        IN  /\ before >= 0
            /\ \A i \in DOMAIN Phases :
                  /\ i > before <=> Phases[i].start > p.entryCandle
                  /\ i > before =>
                        p.trail[i - before] = [candle |-> Phases[i].start,
                                               label |-> Phases[i].label]

=============================================================================
