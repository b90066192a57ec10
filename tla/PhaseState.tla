----------------------------- MODULE PhaseState -----------------------------
(***************************************************************************)
(* The market phase labeler (wat/encoding/phase-state.wat): one step per    *)
(* candle.  A tracker, Rising or Falling, holds the extreme close of its    *)
(* leg and turns when a close has swung back by more than the smoothing;    *)
(* the label says how near the close is to the extreme, and a change of     *)
(* label closes the running phase into a record and begins the next.        *)
(*                                                                         *)
(* Prices are integers.  The average close of a record is kept as its       *)
(* numerator, the sum of the closes; volumes are averaged the same way and  *)
(* decide nothing, so they are left out.  The smoothing of a step is twice  *)
(* the current ATR (indicator-bank/bank.wat), zero until that is ready:     *)
(* any member of Smoothing.                                                 *)
(***************************************************************************)
EXTENDS Integers, Sequences, FiniteSetsExt

CONSTANTS
    Price,           \* the closes
    Smoothing,       \* what the bank may pass as smoothing
    HistoryMaxAge,   \* 2016 candles in the code
    MaxCandle        \* bound of the model on the candles stepped

ASSUME PhaseAssumption ==
    /\ Price \subseteq Nat \ {0}
    /\ Smoothing \subseteq Nat
    /\ HistoryMaxAge \in Nat
    /\ MaxCandle \in Nat

VARIABLES
    tracking,           \* "Rising" or "Falling"
    currentLabel,       \* "Peak", "Valley", "Transition"
    currentDirection,   \* "None", "Up", "Down"
    extreme,
    extremeCandle,
    currentPhaseLabel,  \* the label at the start of the phase
    currentStart,       \* its first candle
    closeSum,           \* the running statistics of the phase
    high,
    low,
    openClose,
    lastClose,
    count,
    phaseHistory,       \* records, the oldest first
    generation,         \* phases closed so far
    candle              \* candles the bank has ticked

trackerVars == <<tracking, extreme, extremeCandle>>
statVars == <<closeSum, high, low, lastClose, count>>
phaseVars ==
    <<trackerVars, currentLabel, currentDirection, currentPhaseLabel,
      currentStart, statVars, openClose, phaseHistory, generation, candle>>

Tracking == {"Rising", "Falling"}
LabelDirection == {<<"Peak", "None">>, <<"Valley", "None">>,
                   <<"Transition", "Up">>, <<"Transition", "Down">>}

-----------------------------------------------------------------------------
(* The tracker *)

\* The close goes beyond the extreme of its leg.
Passes(close) ==
    IF tracking = "Rising" THEN close > extreme ELSE close < extreme

TrackExtreme(close) == IF Passes(close) THEN close ELSE extreme

\* How far the close has swung back from the extreme.
Swing(close) ==
    IF tracking = "Rising" THEN TrackExtreme(close) - close
                           ELSE close - TrackExtreme(close)

Switch(close, smoothing) == Swing(close) > smoothing

NewTracking(close, smoothing) ==
    IF Switch(close, smoothing)
    THEN CHOOSE t \in Tracking : t # tracking
    ELSE tracking

\* At a turn the extreme restarts from the close.
NewExtreme(close, smoothing) ==
    IF Switch(close, smoothing) THEN close ELSE TrackExtreme(close)

NewExtremeCandle(close, smoothing) ==
    IF Switch(close, smoothing) \/ Passes(close) THEN candle + 1
                                                 ELSE extremeCandle

\* Variant: the label is read off the tracker as it was before the step.
NewLabelOldTracker(close, smoothing) ==
    LET far == 2 * (IF tracking = "Rising"
                    THEN NewExtreme(close, smoothing) - close
                    ELSE close - NewExtreme(close, smoothing)) > smoothing
    IN  IF tracking = "Rising"
        THEN IF far THEN <<"Transition", "Up">> ELSE <<"Peak", "None">>
        ELSE IF far THEN <<"Transition", "Down">> ELSE <<"Valley", "None">>

\* Near the extreme means within half the smoothing.
NewLabel(close, smoothing) ==
    LET now == NewTracking(close, smoothing)
        far == 2 * (IF now = "Rising" THEN NewExtreme(close, smoothing) - close
                                      ELSE close - NewExtreme(close, smoothing))
                 > smoothing
    IN  IF now = "Rising"
        THEN IF far THEN <<"Transition", "Up">> ELSE <<"Peak", "None">>
        ELSE IF far THEN <<"Transition", "Down">> ELSE <<"Valley", "None">>

-----------------------------------------------------------------------------
(* Closing a phase *)

\* Drop records from the front until one is young enough.
TrimFront(history, now) ==
    LET kept == {i \in 1..Len(history) :
                   now - history[i].start <= HistoryMaxAge}
    IN  IF kept = {} THEN <<>> ELSE SubSeq(history, Min(kept), Len(history))

HigherOf(close) == IF close > high THEN close ELSE high
LowerOf(close) == IF close < low THEN close ELSE low

\* The record of the running phase, the boundary candle counted in.
ClosedRecord(close) ==
    [label |-> currentLabel, direction |-> currentDirection,
     start |-> currentStart, end |-> candle + 1, duration |-> count + 1,
     closeMin |-> LowerOf(close), closeMax |-> HigherOf(close),
     closeSum |-> closeSum + close, openClose |-> openClose,
     closeFinal |-> close]

-----------------------------------------------------------------------------

PhaseInit ==
    /\ tracking = "Falling"
    /\ currentLabel = "Valley" /\ currentDirection = "None"
    /\ extreme = 0 /\ extremeCandle = 0
    /\ currentPhaseLabel = "Valley" /\ currentStart = 0
    /\ closeSum = 0 /\ high = 0 /\ low = 0
    /\ openClose = 0 /\ lastClose = 0 /\ count = 0
    /\ phaseHistory = <<>>
    /\ generation = 0
    /\ candle = 0

\* The statistics of a phase of one candle.
StartStats(close) ==
    /\ currentStart' = candle + 1
    /\ closeSum' = close /\ high' = close /\ low' = close
    /\ openClose' = close /\ lastClose' = close /\ count' = 1

Seed(close, smoothing) ==
    /\ count = 0
    /\ tracking' = "Falling"
    /\ extreme' = close /\ extremeCandle' = candle + 1
    /\ currentLabel' = "Valley" /\ currentDirection' = "None"
    /\ currentPhaseLabel' = "Valley"
    /\ StartStats(close)
    /\ candle' = candle + 1
    /\ UNCHANGED <<phaseHistory, generation>>

Track(close, smoothing) ==
    /\ tracking' = NewTracking(close, smoothing)
    /\ extreme' = NewExtreme(close, smoothing)
    /\ extremeCandle' = NewExtremeCandle(close, smoothing)
    /\ currentLabel' = NewLabel(close, smoothing)[1]
    /\ currentDirection' = NewLabel(close, smoothing)[2]
    /\ candle' = candle + 1

\* The label is that of the phase: the candle joins it.
Extend(close, smoothing) ==
    /\ count > 0
    /\ NewLabel(close, smoothing)[1] = currentPhaseLabel
    /\ Track(close, smoothing)
    /\ closeSum' = closeSum + close /\ count' = count + 1
    /\ high' = HigherOf(close) /\ low' = LowerOf(close)
    /\ lastClose' = close
    /\ UNCHANGED <<currentPhaseLabel, currentStart, openClose,
                   phaseHistory, generation>>

\* Variant: the phase begins with the candle after the boundary.
BoundarySkipsCandle(close, smoothing) ==
    /\ count > 0
    /\ NewLabel(close, smoothing)[1] # currentPhaseLabel
    /\ Track(close, smoothing)
    /\ phaseHistory' = TrimFront(Append(phaseHistory, ClosedRecord(close)),
                                 candle + 1)
    /\ currentPhaseLabel' = NewLabel(close, smoothing)[1]
    /\ currentStart' = candle + 2
    /\ closeSum' = close /\ high' = close /\ low' = close
    /\ openClose' = close /\ lastClose' = close /\ count' = 1
    /\ generation' = generation + 1

\* The label differs: the candle ends the phase and starts the next one.
Boundary(close, smoothing) ==
    /\ count > 0
    /\ NewLabel(close, smoothing)[1] # currentPhaseLabel
    /\ Track(close, smoothing)
    /\ phaseHistory' = TrimFront(Append(phaseHistory, ClosedRecord(close)),
                                 candle + 1)
    /\ currentPhaseLabel' = NewLabel(close, smoothing)[1]
    /\ StartStats(close)
    /\ generation' = generation + 1

Step(close, smoothing) ==
    \/ Seed(close, smoothing)
    \/ Extend(close, smoothing)
    \/ Boundary(close, smoothing)

PhaseNext ==
    /\ candle < MaxCandle
    /\ \E close \in Price, smoothing \in Smoothing : Step(close, smoothing)

PhaseSpec == PhaseInit /\ [][PhaseNext]_phaseVars

-----------------------------------------------------------------------------
(* Properties *)

PhaseRecord ==
    {r \in [label : {"Peak", "Valley", "Transition"},
            direction : {"None", "Up", "Down"}, start : Nat, end : Nat,
            duration : Nat, closeMin : Nat, closeMax : Nat, closeSum : Nat,
            openClose : Nat, closeFinal : Nat] :
       <<r.label, r.direction>> \in LabelDirection}

\* Every field has its type; a label and its direction go together, in the
\* running phase and in every record.
PhaseTypeOK ==
    /\ tracking \in Tracking
    /\ <<currentLabel, currentDirection>> \in LabelDirection
    /\ currentPhaseLabel \in {"Peak", "Valley", "Transition"}
    /\ extreme \in Nat /\ extremeCandle \in Nat /\ currentStart \in Nat
    /\ closeSum \in Nat /\ high \in Nat /\ low \in Nat
    /\ openClose \in Nat /\ lastClose \in Nat
    /\ count \in Nat /\ generation \in Nat /\ candle \in Nat
    /\ phaseHistory \in Seq(PhaseRecord)

\* The label, its direction and the tracker tell one story after every step
\* (phase-state.wat: current-label and current-phase-label "coincide
\* post-update"), so Transition-Up can never be followed within one phase by
\* Transition-Down.
LabelsAgree ==
    /\ currentLabel = currentPhaseLabel
    /\ tracking = "Rising"
         <=> <<currentLabel, currentDirection>>
               \in {<<"Peak", "None">>, <<"Transition", "Up">>}

\* The close is on the inner side of the extreme and has not swung back by
\* more than the largest smoothing in use: the tracker never keeps an extreme
\* of the leg before.
ExtremeBounds ==
    count > 0 =>
        LET back == IF tracking = "Rising" THEN extreme - lastClose
                                           ELSE lastClose - extreme
        IN  back >= 0 /\ \E s \in Smoothing \cup {0} : back <= s

\* The history is a chain: each record starts on the boundary candle that
\* ended the one before, neighbours never share a label, the last record ends
\* where the running phase starts and differs from it too.
HistoryChained ==
    LET chain == Append(phaseHistory,
                        [label |-> currentLabel, start |-> currentStart])
    IN  \A i \in DOMAIN phaseHistory :
          /\ phaseHistory[i].end = chain[i + 1].start
          /\ phaseHistory[i].label # chain[i + 1].label
          /\ phaseHistory[i].start < phaseHistory[i].end

\* A turn of the tracker always closes a phase, and a phase closed by no turn
\* begins or ends a Transition on the same leg: what the paper simulator
\* takes for a trigger comes at every turn.
TurnClosesPhase ==
    [][IF tracking' # tracking
       THEN generation' = generation + 1 /\ currentLabel' # "Transition"
       ELSE generation' # generation =>
              "Transition" \in {currentLabel, currentLabel'}]_phaseVars

=============================================================================
