--------------------------- MODULE PaperSim_proofs ---------------------------
(***************************************************************************)
(* Proofs, for every price set, deadline, residue floor, fee, window cap,   *)
(* smoothing and history age, about the specifications of modules           *)
(* PhaseState and PaperSim.  The labeler comes first: its properties are    *)
(* invariants of Step, which the simulator takes on every candle.           *)
(***************************************************************************)
EXTENDS PaperSim, PhaseWindows, SequenceTheorems, SumLemmas

Labels == {"Peak", "Valley", "Transition"}

-----------------------------------------------------------------------------
(* The trimming of the history *)

Below == {pair \in Nat \X Nat : pair[1] < pair[2]}

LEMMA BelowWellFounded == IsWellFoundedOn(Below, Nat)
BY NatLessThanWellFounded DEF OpToRel, Below

\* Min of a set of naturals that is not empty is its least member.
LEMMA LeastOfSet ==
    ASSUME NEW T, T \subseteq Nat, T # {}
    PROVE  Min(T) \in T /\ \A y \in T : Min(T) <= y
<1>1. ASSUME NEW x \in Nat, NEW y \in Nat, y < x
      PROVE  <<y, x>> \in Below
  <2>1. <<y, x>> \in Nat \X Nat
    OBVIOUS
  <2> QED
    BY <1>1, <2>1 DEF Below
<1>2. \E x \in T : \A y \in T : <<y, x>> \notin Below
  BY BelowWellFounded, WFMin
<1>3. \E x \in T : \A y \in T : x <= y
  <2>1. PICK x \in T : \A y \in T : <<y, x>> \notin Below
    BY <1>2
  <2>2. ASSUME NEW y \in T
        PROVE  x <= y
    <3>1. x \in Nat /\ y \in Nat
      OBVIOUS
    <3>2. ~(y < x)
      BY <1>1, <2>1, <3>1
    <3> QED
      BY <3>1, <3>2
  <2> QED
    BY <2>2
<1> QED
  BY <1>3 DEF Min

\* trim-front drops a prefix and nothing else.
LEMMA TrimFrontIsSuffix ==
    ASSUME NEW S, NEW history \in Seq(S), NEW now \in Int
    PROVE  LET t == TrimFront(history, now)
           IN  /\ t \in Seq(S)
               /\ \E k \in Nat :
                    /\ k + Len(t) = Len(history)
                    /\ \A i \in 1..Len(t) : t[i] = history[i + k]
                    /\ \A i \in 1..k : ~(now - history[i].start <= HistoryMaxAge)
               /\ Len(t) > 0 => now - t[1].start <= HistoryMaxAge
<1> DEFINE kept == {i \in 1..Len(history) :
                      now - history[i].start <= HistoryMaxAge}
           t == TrimFront(history, now)
<1>1. CASE kept = {}
  <2>1. t = <<>>
    BY <1>1 DEF TrimFront
  <2>2. Len(history) \in Nat /\ Len(t) = 0
    BY <2>1
  <2>3. \A i \in 1..Len(history) : ~(now - history[i].start <= HistoryMaxAge)
    BY <1>1
  <2> HIDE DEF t
  <2> QED
    BY <2>1, <2>2, <2>3 DEF t
<1>2. CASE kept # {}
  <2>1. Min(kept) \in kept /\ \A y \in kept : Min(kept) <= y
    <3>1. kept \subseteq Nat
      OBVIOUS
    <3> HIDE DEF kept
    <3> QED
      BY <1>2, <3>1, LeastOfSet
  <2>2. t = SubSeq(history, Min(kept), Len(history))
    BY <1>2 DEF TrimFront
  <2>3. PICK m \in kept : /\ t = SubSeq(history, m, Len(history))
                          /\ \A y \in kept : m <= y
    BY <2>1, <2>2
  <2> DEFINE n == Len(history)
  <2>4. n \in Nat /\ m \in Nat /\ 1 <= m /\ m <= n
    OBVIOUS
  <2>5. \A i \in m..n : history[i] \in S
    BY <2>4
  <2>6. /\ t \in Seq(S)
        /\ Len(t) = n - m + 1
        /\ \A i \in 1..(n - m + 1) : t[i] = history[m + i - 1]
    BY <2>3, <2>4, <2>5, SubSeqProperties
  <2> HIDE DEF t
  <2>7. m - 1 \in Nat /\ (m - 1) + Len(t) = n
    BY <2>4, <2>6
  <2>8. \A i \in 1..Len(t) : t[i] = history[i + (m - 1)]
    <3>1. ASSUME NEW i \in 1..Len(t)
          PROVE  t[i] = history[i + (m - 1)]
      <4>1. i \in Int /\ m + i - 1 = i + (m - 1)
        BY <2>4
      <4> QED
        BY <2>6, <4>1
    <3> QED
      BY <3>1
  <2>9. \A i \in 1..(m - 1) : ~(now - history[i].start <= HistoryMaxAge)
    <3> TAKE i \in 1..(m - 1)
    <3>1. i \in 1..Len(history) /\ ~(m <= i)
      BY <2>4
    <3> QED
      BY <2>3, <3>1
  <2>10. now - t[1].start <= HistoryMaxAge
    <3>1. m \in kept /\ 1 \in 1..(n - m + 1) /\ m + 1 - 1 = m
      BY <2>1, <2>3, <2>4
    <3>2. now - history[m].start <= HistoryMaxAge
      BY <3>1
    <3>3. t[1] = history[m]
      BY <2>6, <3>1
    <3> QED
      BY <3>2, <3>3
  <2> QED
    BY <2>6, <2>7, <2>8, <2>9, <2>10 DEF t
<1> QED
  BY <1>1, <1>2

-----------------------------------------------------------------------------
(* Types *)

LEMMA SmoothingType ==
    ASSUME NEW s \in Smoothing
    PROVE  s \in Nat
BY PhaseAssumption DEF PhaseAssumption

LEMMA PriceType ==
    ASSUME NEW c \in Price
    PROVE  c \in Nat /\ c > 0
BY PhaseAssumption DEF PhaseAssumption

LEMMA NewExtremeType ==
    ASSUME NEW close \in Nat, NEW smoothing, extreme \in Nat
    PROVE  NewExtreme(close, smoothing) \in Nat
BY DEF NewExtreme, TrackExtreme

LEMMA NewTrackingType ==
    ASSUME NEW close, NEW smoothing, tracking \in Tracking
    PROVE  NewTracking(close, smoothing) \in Tracking
BY DEF NewTracking, Tracking

\* The label and direction of a step, with the tracker it belongs to.
LEMMA NewLabelType ==
    ASSUME NEW close, NEW smoothing, tracking \in Tracking
    PROVE  LET pair == NewLabel(close, smoothing)
           IN  /\ pair = <<pair[1], pair[2]>>
               /\ pair \in LabelDirection
               /\ pair[1] \in Labels
               /\ NewTracking(close, smoothing) = "Rising"
                    <=> pair \in {<<"Peak", "None">>, <<"Transition", "Up">>}
<1>1. NewTracking(close, smoothing) \in Tracking
  BY NewTrackingType
<1>2. NewLabel(close, smoothing) \in
         IF NewTracking(close, smoothing) = "Rising"
         THEN {<<"Peak", "None">>, <<"Transition", "Up">>}
         ELSE {<<"Valley", "None">>, <<"Transition", "Down">>}
  BY <1>1 DEF NewLabel, Tracking
<1> QED
  BY <1>2 DEF LabelDirection, Labels

LEMMA ClosedRecordType ==
    ASSUME PhaseTypeOK, NEW close \in Nat
    PROVE  ClosedRecord(close) \in PhaseRecord
<1> DEFINE r == ClosedRecord(close)
<1>1. LowerOf(close) \in Nat /\ HigherOf(close) \in Nat
  BY DEF LowerOf, HigherOf, PhaseTypeOK
<1>2. <<currentLabel, currentDirection>> \in LabelDirection
  BY DEF PhaseTypeOK
<1>3. /\ currentLabel \in {"Peak", "Valley", "Transition"}
      /\ currentDirection \in {"None", "Up", "Down"}
  BY <1>2 DEF LabelDirection
<1>4. /\ currentStart \in Nat /\ candle + 1 \in Nat /\ count + 1 \in Nat
      /\ closeSum + close \in Nat /\ openClose \in Nat
  BY DEF PhaseTypeOK
<1> QED
  BY <1>1, <1>2, <1>3, <1>4 DEF ClosedRecord, PhaseRecord

LEMMA ClosedHistoryType ==
    ASSUME PhaseTypeOK, NEW close \in Nat
    PROVE  TrimFront(Append(phaseHistory, ClosedRecord(close)), candle + 1)
             \in Seq(PhaseRecord)
<1>1. Append(phaseHistory, ClosedRecord(close)) \in Seq(PhaseRecord)
  BY ClosedRecordType DEF PhaseTypeOK
<1>2. candle + 1 \in Int
  BY DEF PhaseTypeOK
<1> QED
  BY <1>1, <1>2, TrimFrontIsSuffix

LEMMA TrackType ==
    ASSUME PhaseTypeOK, NEW close \in Price, NEW smoothing \in Smoothing,
           Track(close, smoothing)
    PROVE  /\ tracking' \in Tracking
           /\ <<currentLabel, currentDirection>>' \in LabelDirection
           /\ currentLabel' \in Labels
           /\ extreme' \in Nat /\ extremeCandle' \in Nat /\ candle' \in Nat
<1>1. tracking \in Tracking /\ extreme \in Nat /\ extremeCandle \in Nat /\ candle \in Nat
  BY DEF PhaseTypeOK
<1>2. close \in Nat
  BY PriceType
<1>3. tracking' \in Tracking
  BY <1>1, NewTrackingType DEF Track
<1>4. /\ <<currentLabel, currentDirection>>' \in LabelDirection
      /\ currentLabel' \in Labels
  BY <1>1, NewLabelType DEF Track
<1>5. extreme' \in Nat
  BY <1>1, <1>2, NewExtremeType DEF Track
<1>6. extremeCandle' \in Nat /\ candle' \in Nat
  BY <1>1 DEF Track, NewExtremeCandle
<1> QED
  BY <1>3, <1>4, <1>5, <1>6

LEMMA StepType ==
    ASSUME PhaseTypeOK, NEW close \in Price, NEW smoothing \in Smoothing,
           Step(close, smoothing)
    PROVE  PhaseTypeOK'
<1>1. close \in Nat
  BY PriceType
<1>2. CASE Seed(close, smoothing)
  BY <1>1, <1>2 DEF Seed, StartStats, PhaseTypeOK, Tracking, LabelDirection
<1>3. CASE Extend(close, smoothing)
  <2>1. /\ tracking' \in Tracking
        /\ <<currentLabel, currentDirection>>' \in LabelDirection
        /\ extreme' \in Nat /\ extremeCandle' \in Nat /\ candle' \in Nat
    BY <1>3, TrackType DEF Extend
  <2>2. HigherOf(close) \in Nat /\ LowerOf(close) \in Nat
    BY <1>1 DEF HigherOf, LowerOf, PhaseTypeOK
  <2> QED
    BY <1>1, <1>3, <2>1, <2>2 DEF Extend, PhaseTypeOK
<1>4. CASE Boundary(close, smoothing)
  <2>1. /\ tracking' \in Tracking
        /\ <<currentLabel, currentDirection>>' \in LabelDirection
        /\ extreme' \in Nat /\ extremeCandle' \in Nat /\ candle' \in Nat
    BY <1>4, TrackType DEF Boundary
  <2>2. NewLabel(close, smoothing)[1] \in Labels
    BY NewLabelType DEF PhaseTypeOK
  <2>3. phaseHistory' \in Seq(PhaseRecord)
    BY <1>1, <1>4, ClosedHistoryType DEF Boundary
  <2> QED
    BY <1>1, <1>4, <2>1, <2>2, <2>3
    DEF Boundary, StartStats, PhaseTypeOK, Labels
<1> QED
  BY <1>2, <1>3, <1>4 DEF Step

LEMMA InitType == PhaseInit => PhaseTypeOK
BY DEF PhaseInit, PhaseTypeOK, Tracking, LabelDirection

\* Every step of the labeler keeps the types of its fields and of all its
\* records, and a label always goes with a direction of its own.
THEOREM PhaseTypeCorrect == PhaseSpec => []PhaseTypeOK
<1>1. PhaseTypeOK /\ [PhaseNext]_phaseVars => PhaseTypeOK'
  <2> SUFFICES ASSUME PhaseTypeOK, [PhaseNext]_phaseVars
               PROVE  PhaseTypeOK'
    OBVIOUS
  <2>1. CASE PhaseNext
    BY <2>1, StepType DEF PhaseNext
  <2>2. CASE UNCHANGED phaseVars
    BY <2>2 DEF phaseVars, trackerVars, statVars, PhaseTypeOK
  <2> QED
    BY <2>1, <2>2
<1> QED
  BY InitType, <1>1, PTL DEF PhaseSpec

-----------------------------------------------------------------------------
(* The label, its direction and the tracker *)

\* Before the first candle the labeler waits in a Valley with no history.
Unseeded ==
    count = 0 => /\ tracking = "Falling" /\ currentLabel = "Valley"
                 /\ phaseHistory = <<>>

LabelInv == PhaseTypeOK /\ LabelsAgree /\ Unseeded

LEMMA StepLabels ==
    ASSUME LabelInv, NEW close \in Price, NEW smoothing \in Smoothing,
           Step(close, smoothing)
    PROVE  LabelsAgree' /\ Unseeded'
<1>1. count \in Nat /\ tracking \in Tracking
  BY DEF LabelInv, PhaseTypeOK
<1>2. CASE Seed(close, smoothing)
  BY <1>2 DEF Seed, StartStats, LabelsAgree, Unseeded
<1>3. ASSUME Track(close, smoothing)
      PROVE  tracking' = "Rising"
               <=> <<currentLabel, currentDirection>>'
                     \in {<<"Peak", "None">>, <<"Transition", "Up">>}
  <2>1. <<currentLabel, currentDirection>>' = NewLabel(close, smoothing)
    BY <1>1, <1>3, NewLabelType DEF Track
  <2>2. tracking' = NewTracking(close, smoothing)
    BY <1>3 DEF Track
  <2> QED
    BY <1>1, <2>1, <2>2, NewLabelType
<1>4. CASE Extend(close, smoothing)
  <2>1. currentLabel' = currentPhaseLabel'
    BY <1>4 DEF Extend, Track
  <2>2. count' # 0
    BY <1>1, <1>4 DEF Extend
  <2>3. Track(close, smoothing)
    BY <1>4 DEF Extend
  <2> QED
    BY <1>3, <2>1, <2>2, <2>3 DEF LabelsAgree, Unseeded
<1>5. CASE Boundary(close, smoothing)
  <2>1. currentLabel' = currentPhaseLabel'
    BY <1>5 DEF Boundary, Track
  <2>2. count' # 0
    BY <1>5 DEF Boundary, StartStats
  <2>3. Track(close, smoothing)
    BY <1>5 DEF Boundary
  <2> QED
    BY <1>3, <2>1, <2>2, <2>3 DEF LabelsAgree, Unseeded
<1> QED
  BY <1>2, <1>4, <1>5 DEF Step

LEMMA LabelInvInductive == LabelInv /\ [PhaseNext]_phaseVars => LabelInv'
<1> SUFFICES ASSUME LabelInv, [PhaseNext]_phaseVars
             PROVE  LabelInv'
  OBVIOUS
<1>1. CASE PhaseNext
  <2>1. PICK close \in Price, smoothing \in Smoothing : Step(close, smoothing)
    BY <1>1 DEF PhaseNext
  <2>2. PhaseTypeOK'
    BY <2>1, StepType DEF LabelInv
  <2>3. LabelsAgree' /\ Unseeded'
    BY <2>1, StepLabels
  <2> QED
    BY <2>2, <2>3 DEF LabelInv
<1>2. CASE UNCHANGED phaseVars
  BY <1>2 DEF phaseVars, trackerVars, statVars, LabelInv, PhaseTypeOK,
              LabelsAgree, Unseeded
<1> QED
  BY <1>1, <1>2

LEMMA LabelInvInit == PhaseInit => LabelInv
BY InitType DEF PhaseInit, LabelInv, LabelsAgree, Unseeded

\* After every step the label, its direction, the anchor of the boundary
\* check and the tracker agree.
THEOREM LabelsCorrect == PhaseSpec => []LabelsAgree
<1>1. LabelInv => LabelsAgree
  BY DEF LabelInv
<1> QED
  BY LabelInvInit, LabelInvInductive, <1>1, PTL DEF PhaseSpec

-----------------------------------------------------------------------------
(* Turns and boundaries *)

\* At a turn the close is the extreme: the label is Peak or Valley.
LEMMA TurnLabel ==
    ASSUME NEW close \in Nat, NEW smoothing \in Nat, tracking \in Tracking,
           NewTracking(close, smoothing) # tracking
    PROVE  NewLabel(close, smoothing)[1] =
             IF tracking = "Rising" THEN "Valley" ELSE "Peak"
<1>1. Switch(close, smoothing)
  BY DEF NewTracking
<1>2. NewExtreme(close, smoothing) = close
  BY <1>1 DEF NewExtreme
<1>3. ~(2 * (close - close) > smoothing)
  OBVIOUS
<1> QED
  BY <1>2, <1>3, NewTrackingType DEF NewLabel, Tracking

LEMMA StepTurns ==
    ASSUME LabelInv, NEW close \in Price, NEW smoothing \in Smoothing,
           Step(close, smoothing)
    PROVE  IF tracking' # tracking
           THEN generation' = generation + 1 /\ currentLabel' # "Transition"
           ELSE generation' # generation =>
                  "Transition" \in {currentLabel, currentLabel'}
<1>1. /\ tracking \in Tracking /\ count \in Nat
      /\ <<currentLabel, currentDirection>> \in LabelDirection
  BY DEF LabelInv, PhaseTypeOK
<1>2. close \in Nat /\ smoothing \in Nat
  BY PriceType, SmoothingType
<1> DEFINE now == NewTracking(close, smoothing)
           pair == NewLabel(close, smoothing)
<1>3. CASE Seed(close, smoothing)
  BY <1>3 DEF Seed, LabelInv, Unseeded
<1>4. tracking = "Rising" <=> currentLabel = "Peak" \/
                              (currentLabel = "Transition" /\ currentDirection = "Up")
  BY <1>1 DEF LabelInv, LabelsAgree, LabelDirection
<1>5. /\ pair = <<pair[1], pair[2]>> /\ pair \in LabelDirection
      /\ now = "Rising" <=> pair \in {<<"Peak", "None">>, <<"Transition", "Up">>}
      /\ now \in Tracking
  BY <1>1, NewLabelType, NewTrackingType
<1>6. now # tracking =>
        pair[1] # currentPhaseLabel /\ pair[1] # "Transition"
  <2> SUFFICES ASSUME now # tracking
               PROVE  pair[1] # currentPhaseLabel /\ pair[1] # "Transition"
    OBVIOUS
  <2>1. pair[1] = IF tracking = "Rising" THEN "Valley" ELSE "Peak"
    BY <1>1, <1>2, TurnLabel
  <2>2. currentPhaseLabel = currentLabel
    BY DEF LabelInv, LabelsAgree
  <2>3. currentLabel # IF tracking = "Rising" THEN "Valley" ELSE "Peak"
    BY <1>1, <1>4 DEF LabelDirection, Tracking
  <2> QED
    BY <2>1, <2>2, <2>3
<1>7. CASE Extend(close, smoothing)
  <2>1. tracking' = now /\ pair[1] = currentPhaseLabel /\ generation' = generation
    BY <1>7 DEF Extend, Track
  <2> QED
    BY <1>6, <2>1
<1>8. CASE Boundary(close, smoothing)
  <2>1. /\ tracking' = now /\ currentLabel' = pair[1]
        /\ pair[1] # currentPhaseLabel /\ generation' = generation + 1
    BY <1>8 DEF Boundary, Track
  <2>2. CASE now # tracking
    BY <1>6, <2>1, <2>2
  <2>3. CASE now = tracking
    <3>1. currentLabel # pair[1]
      BY <2>1 DEF LabelInv, LabelsAgree
    <3>2. "Transition" \in {currentLabel, pair[1]}
      BY <1>1, <1>4, <1>5, <2>3, <3>1 DEF LabelDirection, Tracking
    <3> QED
      BY <2>1, <2>3, <3>2
  <2> QED
    BY <2>2, <2>3
<1> QED
  BY <1>3, <1>7, <1>8 DEF Step

\* Every turn of the tracker closes a phase and begins a Peak or a Valley;
\* every other boundary enters or leaves a Transition.
THEOREM TurnsCorrect == PhaseSpec => TurnClosesPhase
<1> DEFINE Turns ==
      IF tracking' # tracking
      THEN generation' = generation + 1 /\ currentLabel' # "Transition"
      ELSE generation' # generation =>
             "Transition" \in {currentLabel, currentLabel'}
<1>1. LabelInv /\ [PhaseNext]_phaseVars => [Turns]_phaseVars
  BY StepTurns DEF PhaseNext
<1>2. PhaseSpec => [][Turns]_phaseVars
  BY <1>1, LabelInvInit, LabelInvInductive, PTL DEF PhaseSpec
<1> QED
  BY <1>2 DEF TurnClosesPhase

-----------------------------------------------------------------------------
(* The extreme *)

\* After a tracked step the close is inside the new extreme, by no more than
\* the smoothing of the step.
LEMMA StepExtreme ==
    ASSUME LabelInv, NEW close \in Price, NEW smoothing \in Smoothing,
           Step(close, smoothing)
    PROVE  ExtremeBounds'
<1>1. close \in Nat /\ smoothing \in Nat /\ extreme \in Nat /\ tracking \in Tracking
  BY PriceType, SmoothingType DEF LabelInv, PhaseTypeOK
<1>2. CASE Seed(close, smoothing)
  <2>1. tracking' = "Falling" /\ extreme' = close /\ lastClose' = close
    BY <1>2 DEF Seed, StartStats
  <2>2. close - close = 0
    BY <1>1
  <2> QED
    BY <2>1, <2>2 DEF ExtremeBounds
<1>3. ASSUME Track(close, smoothing), lastClose' = close
      PROVE  ExtremeBounds'
  <2> DEFINE back == IF tracking' = "Rising" THEN extreme' - lastClose'
                                             ELSE lastClose' - extreme'
  <2>1. extreme' = NewExtreme(close, smoothing) /\ tracking' = NewTracking(close, smoothing)
    BY <1>3 DEF Track
  <2>2. CASE Switch(close, smoothing)
    <3>1. extreme' = close
      BY <2>1, <2>2 DEF NewExtreme
    <3>2. back = 0
      BY <1>1, <1>3, <3>1
    <3> QED
      BY <3>2 DEF ExtremeBounds
  <2>3. CASE ~Switch(close, smoothing)
    <3>1. extreme' = TrackExtreme(close) /\ tracking' = tracking
      BY <2>1, <2>3 DEF NewExtreme, NewTracking
    <3>2. back = Swing(close)
      BY <1>3, <3>1 DEF Swing
    <3>3. Swing(close) \in Int /\ Swing(close) >= 0
      BY <1>1 DEF Swing, TrackExtreme, Passes
    <3>4. Swing(close) <= smoothing
      BY <1>1, <2>3, <3>3 DEF Switch
    <3> QED
      BY <3>2, <3>3, <3>4 DEF ExtremeBounds
  <2> QED
    BY <2>2, <2>3
<1>4. CASE Extend(close, smoothing)
  BY <1>3, <1>4 DEF Extend
<1>5. CASE Boundary(close, smoothing)
  BY <1>3, <1>5 DEF Boundary, StartStats
<1> QED
  BY <1>2, <1>4, <1>5 DEF Step

\* The tracker never keeps the extreme of the leg before: the last close is
\* inside the extreme and within a smoothing of it.
THEOREM ExtremeCorrect == PhaseSpec => []ExtremeBounds
<1>1. PhaseInit => ExtremeBounds
  BY DEF PhaseInit, ExtremeBounds
<1>2. LabelInv /\ ExtremeBounds /\ [PhaseNext]_phaseVars => ExtremeBounds'
  <2> SUFFICES ASSUME LabelInv, ExtremeBounds, [PhaseNext]_phaseVars
               PROVE  ExtremeBounds'
    OBVIOUS
  <2>1. CASE PhaseNext
    BY <2>1, StepExtreme DEF PhaseNext
  <2>2. CASE UNCHANGED phaseVars
    BY <2>2 DEF phaseVars, trackerVars, statVars, ExtremeBounds
  <2> QED
    BY <2>1, <2>2
<1> QED
  BY <1>1, <1>2, LabelInvInit, LabelInvInductive, PTL DEF PhaseSpec

-----------------------------------------------------------------------------
(* The history *)

\* Record r, with the label and the start of what follows it.
Links(r, label, start) ==
    r.end = start /\ r.label # label /\ r.start < r.end

\* A history and the phase that runs after it.
Chained(history, label, start) ==
    /\ \A i \in Nat : 1 <= i /\ i < Len(history) =>
          Links(history[i], history[i + 1].label, history[i + 1].start)
    /\ Len(history) > 0 => Links(history[Len(history)], label, start)

LEMMA HistoryIsChained ==
    ASSUME PhaseTypeOK
    PROVE  HistoryChained <=> Chained(phaseHistory, currentLabel, currentStart)
<1> DEFINE tip == [label |-> currentLabel, start |-> currentStart]
           S == PhaseRecord \cup {tip}
           n == Len(phaseHistory)
           chain == Append(phaseHistory, tip)
<1>1. phaseHistory \in Seq(S) /\ tip \in S /\ n \in Nat
      /\ DOMAIN phaseHistory = 1..n
  BY DEF PhaseTypeOK
<1>2. /\ \A i \in 1..n : chain[i] = phaseHistory[i]
      /\ chain[n + 1] = tip
  <2> HIDE DEF S, tip
  <2> QED
    BY <1>1, AppendProperties
<1>3. \A i \in Nat : 1 <= i /\ i < n => chain[i + 1] = phaseHistory[i + 1]
  BY <1>1, <1>2
<1>4. tip.label = currentLabel /\ tip.start = currentStart
  OBVIOUS
<1> HIDE DEF tip, S, chain
<1>5. HistoryChained <=>
        \A i \in 1..n :
          Links(phaseHistory[i], chain[i + 1].label, chain[i + 1].start)
  BY <1>1 DEF HistoryChained, Links, chain, tip
<1>6. ASSUME HistoryChained
      PROVE  Chained(phaseHistory, currentLabel, currentStart)
  <2>1. ASSUME NEW i \in Nat, 1 <= i, i < n
        PROVE  Links(phaseHistory[i], phaseHistory[i + 1].label,
                     phaseHistory[i + 1].start)
    <3>1. i \in 1..n
      BY <1>1, <2>1
    <3> QED
      BY <1>3, <1>5, <1>6, <2>1, <3>1
  <2>2. n > 0 => Links(phaseHistory[n], currentLabel, currentStart)
    BY <1>1, <1>2, <1>4, <1>5, <1>6
  <2> QED
    BY <2>1, <2>2 DEF Chained
<1>7. ASSUME Chained(phaseHistory, currentLabel, currentStart)
      PROVE  HistoryChained
  <2>1. ASSUME NEW i \in 1..n
        PROVE  Links(phaseHistory[i], chain[i + 1].label, chain[i + 1].start)
    <3>1. CASE i = n
      BY <1>1, <1>2, <1>4, <1>7, <3>1 DEF Chained
    <3>2. CASE i # n
      <4>0. n \in Nat
        BY <1>1
      <4> HIDE DEF n
      <4>1. i \in Nat /\ 1 <= i /\ i < n
        BY <3>2, <4>0
      <4> USE DEF n
      <4> QED
        BY <1>3, <1>7, <4>1 DEF Chained
    <3> QED
      BY <3>1, <3>2
  <2> QED
    BY <1>5, <2>1
<1> QED
  BY <1>6, <1>7

\* A record that continues the chain, with another label than the next
\* phase's, may be appended to it.
LEMMA ChainGrows ==
    ASSUME NEW history \in Seq(PhaseRecord), NEW r \in PhaseRecord,
           NEW label, Chained(history, r.label, r.start),
           r.start < r.end, r.label # label
    PROVE  Chained(Append(history, r), label, r.end)
<1> DEFINE n == Len(history)
           longer == Append(history, r)
<1>1. n \in Nat /\ Len(longer) = n + 1
  BY AppendProperties
<1>2. /\ \A i \in 1..n : longer[i] = history[i]
      /\ longer[n + 1] = r
  BY AppendProperties
<1> HIDE DEF longer
<1>3. Links(r, label, r.end)
  BY DEF Links
<1>4. ASSUME NEW i \in Nat, 1 <= i, i < n + 1
      PROVE  Links(longer[i], longer[i + 1].label, longer[i + 1].start)
  <2>1. i \in 1..n
    BY <1>1, <1>4
  <2>2. CASE i = n
    <3>1. longer[i] = history[n] /\ longer[i + 1] = r /\ n > 0
      BY <1>2, <1>4, <2>1, <2>2
    <3> QED
      BY <3>1 DEF Chained
  <2>3. CASE i # n
    <3>1. i < n /\ i + 1 \in 1..n
      BY <1>1, <2>1, <2>3
    <3>2. longer[i] = history[i] /\ longer[i + 1] = history[i + 1]
      BY <1>2, <2>1, <3>1
    <3> QED
      BY <1>4, <3>1, <3>2 DEF Chained
  <2> QED
    BY <2>2, <2>3
<1> QED
  BY <1>1, <1>2, <1>3, <1>4 DEF Chained, longer

\* What is left of a chain when its front is dropped is a chain.
LEMMA ChainTrims ==
    ASSUME NEW history \in Seq(PhaseRecord), NEW t \in Seq(PhaseRecord),
           NEW k \in Nat, k + Len(t) = Len(history),
           \A i \in 1..Len(t) : t[i] = history[i + k],
           NEW label, NEW start, Chained(history, label, start)
    PROVE  Chained(t, label, start)
<1>1. Len(t) \in Nat /\ Len(history) \in Nat
  OBVIOUS
<1>2. ASSUME NEW i \in Nat, 1 <= i, i < Len(t)
      PROVE  Links(t[i], t[i + 1].label, t[i + 1].start)
  <2>1. i \in 1..Len(t) /\ i + 1 \in 1..Len(t)
    BY <1>1, <1>2
  <2>2. i + k \in Nat /\ 1 <= i + k /\ i + k < Len(history)
        /\ (i + 1) + k = (i + k) + 1
    BY <1>1, <1>2
  <2>3. t[i] = history[i + k] /\ t[i + 1] = history[(i + k) + 1]
    BY <2>1, <2>2
  <2> QED
    BY <2>2, <2>3 DEF Chained
<1>3. ASSUME Len(t) > 0
      PROVE  Links(t[Len(t)], label, start)
  <2>1. Len(t) \in 1..Len(t) /\ Len(t) + k = Len(history) /\ Len(history) > 0
    BY <1>1, <1>3
  <2>2. t[Len(t)] = history[Len(history)]
    BY <2>1
  <2> QED
    BY <2>1, <2>2 DEF Chained
<1> QED
  BY <1>2, <1>3 DEF Chained

HistoryInv ==
    /\ LabelInv
    /\ currentStart <= candle
    /\ Chained(phaseHistory, currentLabel, currentStart)

LEMMA StepHistory ==
    ASSUME HistoryInv, NEW close \in Price, NEW smoothing \in Smoothing,
           Step(close, smoothing)
    PROVE  /\ (currentStart <= candle)'
           /\ Chained(phaseHistory, currentLabel, currentStart)'
<1>1. /\ close \in Nat /\ candle \in Nat /\ currentStart \in Nat
      /\ phaseHistory \in Seq(PhaseRecord) /\ PhaseTypeOK
  BY PriceType DEF HistoryInv, LabelInv, PhaseTypeOK
<1>2. CASE Seed(close, smoothing)
  <2>1. phaseHistory' = <<>> /\ currentStart' = candle + 1 /\ candle' = candle + 1
    BY <1>2 DEF Seed, StartStats, HistoryInv, LabelInv, Unseeded
  <2>2. Len(<<>>) = 0
    OBVIOUS
  <2>3. \A i \in Nat : ~(1 <= i /\ i < 0)
    OBVIOUS
  <2> QED
    BY <1>1, <2>1, <2>2, <2>3 DEF Chained
<1>3. CASE Extend(close, smoothing)
  <2>1. /\ phaseHistory' = phaseHistory /\ currentStart' = currentStart
        /\ candle' = candle + 1 /\ currentLabel' = currentLabel
    BY <1>3 DEF Extend, Track, HistoryInv, LabelInv, LabelsAgree
  <2> QED
    BY <1>1, <2>1 DEF HistoryInv
<1>4. CASE Boundary(close, smoothing)
  <2> DEFINE r == ClosedRecord(close)
             longer == Append(phaseHistory, r)
  <2>1. /\ phaseHistory' = TrimFront(longer, candle + 1)
        /\ currentStart' = candle + 1 /\ candle' = candle + 1
        /\ currentLabel' # currentLabel
    BY <1>4 DEF Boundary, Track, StartStats, HistoryInv, LabelInv, LabelsAgree
  <2>2. r \in PhaseRecord
    BY <1>1, ClosedRecordType
  <2>3. /\ r.label = currentLabel /\ r.start = currentStart
        /\ r.end = candle + 1 /\ r.start < r.end
    BY <1>1 DEF ClosedRecord, HistoryInv
  <2> HIDE DEF r
  <2>4. Chained(longer, currentLabel', candle + 1)
    BY <1>1, <2>1, <2>2, <2>3, ChainGrows DEF HistoryInv
  <2>5. longer \in Seq(PhaseRecord)
    BY <1>1, <2>2
  <2> HIDE DEF longer
  <2>6. /\ phaseHistory' \in Seq(PhaseRecord)
        /\ \E k \in Nat :
             /\ k + Len(phaseHistory') = Len(longer)
             /\ \A i \in 1..Len(phaseHistory') : phaseHistory'[i] = longer[i + k]
    <3> DEFINE t == TrimFront(longer, candle + 1)
    <3>1. candle + 1 \in Int
      BY <1>1
    <3>2. /\ t \in Seq(PhaseRecord)
          /\ \E k \in Nat :
               /\ k + Len(t) = Len(longer)
               /\ \A i \in 1..Len(t) : t[i] = longer[i + k]
               /\ \A i \in 1..k :
                     ~((candle + 1) - longer[i].start <= HistoryMaxAge)
      BY <2>5, <3>1, TrimFrontIsSuffix
    <3>3. phaseHistory' = t
      BY <2>1
    <3> HIDE DEF t
    <3> QED
      BY <3>2, <3>3
  <2>7. Chained(phaseHistory', currentLabel', candle + 1)
    BY <2>4, <2>5, <2>6, ChainTrims
  <2> QED
    BY <1>1, <2>1, <2>7
<1> QED
  BY <1>2, <1>3, <1>4 DEF Step

\* The records left after any trimming form a chain: each starts where the
\* one before ended, neighbours differ, and the last leads to the running
\* phase.
THEOREM HistoryCorrect == PhaseSpec => []HistoryChained
<1>1. PhaseInit => HistoryInv
  <2> SUFFICES ASSUME PhaseInit
               PROVE  HistoryInv
    OBVIOUS
  <2>1. phaseHistory = <<>> /\ currentStart = 0 /\ candle = 0
    BY DEF PhaseInit
  <2>2. Len(<<>>) = 0 /\ \A i \in Nat : ~(1 <= i /\ i < 0)
    OBVIOUS
  <2>3. Chained(phaseHistory, currentLabel, currentStart)
    BY <2>1, <2>2 DEF Chained
  <2> QED
    BY <2>1, <2>3, LabelInvInit DEF HistoryInv
<1>2. HistoryInv /\ [PhaseNext]_phaseVars => HistoryInv'
  <2> SUFFICES ASSUME HistoryInv, [PhaseNext]_phaseVars
               PROVE  HistoryInv'
    OBVIOUS
  <2>1. LabelInv'
    BY LabelInvInductive DEF HistoryInv
  <2>2. CASE PhaseNext
    <3>1. PICK close \in Price, smoothing \in Smoothing : Step(close, smoothing)
      BY <2>2 DEF PhaseNext
    <3> QED
      BY <2>1, <3>1, StepHistory DEF HistoryInv
  <2>3. CASE UNCHANGED phaseVars
    BY <2>1, <2>3 DEF phaseVars, trackerVars, statVars, HistoryInv
  <2> QED
    BY <2>2, <2>3
<1>3. HistoryInv => HistoryChained
  BY HistoryIsChained DEF HistoryInv, LabelInv
<1> QED
  BY <1>1, <1>2, <1>3, PTL DEF PhaseSpec

-----------------------------------------------------------------------------
(* Types *)

Event == [candle : Nat, label : Labels]
LabeledEvent == [event : Event, label : {"Hold", "Exit"}]

PaperRecord ==
    [id : Nat \ {0}, direction : Direction, entryPrice : Price,
     entryCandle : Nat, deadline : Nat,
     state : {"Active", "Grace", "Violence"}, trail : Seq(Event)]

OutcomeRecord ==
    [paper : PaperRecord, closedAt : Nat, finalResidue : Int,
     labeledTrail : Seq(LabeledEvent)]

\* A paper the simulator may hold at candle now.
HeldPaper(p, now) ==
    /\ p \in PaperRecord
    /\ p.state = "Active"
    /\ p.deadline = p.entryCandle + Deadline
    /\ p.entryCandle <= now /\ now < p.deadline

\* An outcome that keeps the simulator's rules.
Right(o) ==
    LET trail == o.labeledTrail
        exits == {j \in DOMAIN trail : trail[j].label = "Exit"}
    IN  IF o.paper.state = "Violence"
        THEN o.closedAt = o.paper.deadline /\ exits = DOMAIN trail
        ELSE /\ o.closedAt < o.paper.deadline
             /\ o.finalResidue >= MinResidue
             /\ exits = {Len(trail)}
             /\ Last(trail).event.candle = o.closedAt
             /\ DirectionAgainst(o.paper.direction, Last(trail).event.label)

Resolved(o, now) ==
    /\ o \in OutcomeRecord
    /\ o.paper.state # "Active"
    /\ o.paper.deadline = o.paper.entryCandle + Deadline
    /\ o.closedAt <= now
    /\ Right(o)

WindowInv ==
    /\ window \in Seq(Nat)
    /\ Len(window) = IF candle < WindowCap THEN candle ELSE WindowCap
    /\ \A i \in DOMAIN window : window[i] = candle - Len(window) + i

CountInv ==
    /\ PhaseTypeOK
    /\ paperId \in Nat
    /\ simCount = candle /\ prevPhaseGen = generation

\* The papers, resolved and open, and their order.
PaperInv ==
    /\ outcomes \in Seq(OutcomeRecord)
    /\ \A i \in 1..Len(outcomes) : Resolved(outcomes[i], simCount)
    /\ \A i \in 1..(Len(outcomes) - 1) :
          outcomes[i].closedAt < outcomes[i + 1].paper.entryCandle
    /\ \/ openPaper = {}
       \/ \E p \in PaperRecord :
             /\ openPaper = {p} /\ HeldPaper(p, simCount)
             /\ Len(outcomes) > 0 => outcomes[Len(outcomes)].closedAt < p.entryCandle

SimInv == CountInv /\ WindowInv /\ PaperInv

-----------------------------------------------------------------------------
(* The window *)

LEMMA WindowStep ==
    ASSUME CountInv, WindowInv, window' = NextWindow, candle' = candle + 1
    PROVE  WindowInv'
<1> DEFINE longer == Append(window, candle + 1)
           n == Len(window)
<1>1. n \in Nat /\ candle \in Nat /\ candle + 1 \in Nat /\ DOMAIN window = 1..n
  BY DEF CountInv, PhaseTypeOK, WindowInv
<1>2. /\ longer \in Seq(Nat) /\ Len(longer) = n + 1
      /\ \A i \in 1..n : longer[i] = window[i]
      /\ longer[n + 1] = candle + 1
  BY <1>1, AppendProperties DEF WindowInv
<1>3. WindowCap \in Nat /\ WindowCap > 0
  BY ConfigAssumption DEF ConfigAssumption
<1>4. n = IF candle < WindowCap THEN candle ELSE WindowCap
  BY DEF WindowInv
<1>5. \A i \in 1..(n + 1) : longer[i] = candle - n + i
  <2>1. \A i \in 1..n : window[i] = candle - n + i
    BY <1>1 DEF WindowInv
  <2>2. ASSUME NEW i \in 1..(n + 1)
        PROVE  longer[i] = candle - n + i
    <3> HIDE DEF n, longer
    <3>1. CASE i = n + 1
      BY <1>1, <1>2, <3>1
    <3>2. CASE i # n + 1
      <4>1. i \in 1..n
        BY <1>1, <3>2
      <4> QED
        BY <1>2, <2>1, <4>1
    <3> QED
      BY <3>1, <3>2
  <2> QED
    BY <2>2
<1> DEFINE m == Len(longer)
<1>6. /\ m = n + 1
      /\ window' = IF m > WindowCap THEN SubSeq(longer, m - WindowCap + 1, m)
                                    ELSE longer
  BY <1>2 DEF NextWindow
<1> HIDE DEF n, longer, m
<1>7. CASE n + 1 > WindowCap
  <2>1. n = WindowCap /\ ~(candle + 1 < WindowCap)
    BY <1>1, <1>3, <1>4, <1>7
  <2>2. window' = SubSeq(longer, 2, m)
    <3>1. m - WindowCap + 1 = 2 /\ m > WindowCap
      BY <1>1, <1>6, <1>7, <2>1
    <3> QED
      BY <1>6, <3>1
  <2>3. /\ 2 \in Int /\ m \in Int /\ 2 <= m /\ m - 2 + 1 = n
        /\ \A i \in 2..m : longer[i] \in Nat
    <3>1. 2 <= m /\ m \in Int /\ m - 2 + 1 = n
      BY <1>1, <1>3, <1>6, <2>1
    <3>2. ASSUME NEW i \in 2..m
          PROVE  longer[i] \in Nat
      <4>1. i \in 1..Len(longer)
        BY <1>1, <1>2, <1>6
      <4> QED
        BY <1>2, <4>1
    <3> QED
      BY <1>1, <3>1, <3>2
  <2>4. /\ window' \in Seq(Nat) /\ Len(window') = n
        /\ \A i \in 1..n : window'[i] = longer[2 + i - 1]
    BY <2>2, <2>3, SubSeqProperties
  <2>5. ASSUME NEW i \in 1..n
        PROVE  window'[i] = candle' - n + i
    <3>1. 2 + i - 1 = i + 1 /\ i + 1 \in 1..(n + 1)
      BY <1>1
    <3>2. window'[i] = candle - n + (i + 1)
      BY <1>5, <2>4, <3>1
    <3> QED
      BY <1>1, <3>2
  <2>6. DOMAIN window' = 1..n
    BY <2>4
  <2>7. n = IF candle' < WindowCap THEN candle' ELSE WindowCap
    BY <2>1
  <2> QED
    BY <2>4, <2>5, <2>6, <2>7 DEF WindowInv
<1>8. CASE ~(n + 1 > WindowCap)
  <2>1. window' = longer /\ n = candle
    BY <1>1, <1>3, <1>4, <1>6, <1>8
  <2>2. n + 1 = IF candle' < WindowCap THEN candle' ELSE WindowCap
    BY <1>1, <1>3, <1>8, <2>1
  <2>3. \A i \in 1..(n + 1) : longer[i] = candle' - (n + 1) + i
    <3>1. ASSUME NEW i \in 1..(n + 1)
          PROVE  longer[i] = candle' - (n + 1) + i
      BY <1>1, <1>5, <2>1
    <3> QED
      BY <3>1
  <2>4. DOMAIN longer = 1..(n + 1)
    BY <1>2
  <2> QED
    BY <1>2, <2>1, <2>2, <2>3, <2>4 DEF WindowInv
<1> QED
  BY <1>7, <1>8

-----------------------------------------------------------------------------
(* A tick of the labeler, as the simulator sees it *)

LEMMA StepCounts ==
    ASSUME PhaseTypeOK, NEW close \in Price, NEW smoothing \in Smoothing,
           Step(close, smoothing)
    PROVE  candle' = candle + 1 /\ lastClose' = close
BY DEF Step, Seed, Extend, Boundary, Track, StartStats

LEMMA ResidueType ==
    ASSUME NEW p \in PaperRecord, NEW price \in Nat
    PROVE  Residue(p, price) \in Int
<1>1. p.entryPrice \in Nat /\ p.entryPrice > 0
  BY PriceType DEF PaperRecord
<1> DEFINE directed == IF p.direction = "Up" THEN price - p.entryPrice
                                             ELSE p.entryPrice - price
           gain == directed * 10000
<1>2. gain \in Int
  BY <1>1
<1> HIDE DEF gain
<1>3. gain \div p.entryPrice \in Int
  BY <1>1, <1>2
<1>4. FeeBps \in Nat
  BY ConfigAssumption DEF ConfigAssumption
<1> QED
  BY <1>3, <1>4 DEF Residue, gain

\* What tick does to the trail: nothing, or one event of this candle.
LEMMA TrailType ==
    ASSUME CountInv, PhaseTypeOK', NEW p \in PaperRecord
    PROVE  LET trail == TrailWithTrigger(p)
           IN  /\ trail \in Seq(Event)
               /\ TriggerFired =>
                    /\ Len(trail) \in Nat /\ Len(trail) > 0
                    /\ trail[Len(trail)] =
                         [candle |-> simCount + 1, label |-> currentLabel']
<1>1. p.trail \in Seq(Event) /\ simCount + 1 \in Nat
  BY DEF PaperRecord, CountInv, PhaseTypeOK
<1>2. TriggerEvent \in Event
  <2>1. currentLabel' \in Labels
    BY DEF PhaseTypeOK, LabelDirection, Labels
  <2> QED
    BY <1>1, <2>1 DEF TriggerEvent, Event
<1>3. CASE TriggerFired
  <2>1. TrailWithTrigger(p) = Append(p.trail, TriggerEvent)
    BY <1>3 DEF TrailWithTrigger
  <2>2. /\ Append(p.trail, TriggerEvent) \in Seq(Event)
        /\ Len(Append(p.trail, TriggerEvent)) = Len(p.trail) + 1
        /\ Append(p.trail, TriggerEvent)[Len(p.trail) + 1] = TriggerEvent
    BY <1>1, <1>2, AppendProperties
  <2>3. Len(p.trail) \in Nat
    BY <1>1
  <2> QED
    BY <2>1, <2>2, <2>3 DEF TriggerEvent
<1>4. CASE ~TriggerFired
  BY <1>1, <1>4 DEF TrailWithTrigger
<1> QED
  BY <1>3, <1>4

\* The paper as it leaves, for the outcomes or for the next tick.
LEMMA RenewedPaper ==
    ASSUME NEW p \in PaperRecord, NEW trail \in Seq(Event),
           NEW state \in {"Active", "Grace", "Violence"}
    PROVE  LET q == [p EXCEPT !.state = state, !.trail = trail]
           IN  /\ q \in PaperRecord
               /\ q.id = p.id /\ q.direction = p.direction
               /\ q.entryPrice = p.entryPrice /\ q.entryCandle = p.entryCandle
               /\ q.deadline = p.deadline /\ q.state = state /\ q.trail = trail
BY DEF PaperRecord

-----------------------------------------------------------------------------
(* The two ways a paper is resolved *)

LEMMA ViolenceIsRight ==
    ASSUME CountInv, PhaseTypeOK', NEW close \in Price, lastClose' = close,
           NEW p, HeldPaper(p, simCount), DeadlineReached(p)
    PROVE  Resolved(Outcome(p, "Violence", Residue(p, lastClose'),
                            LabelTrailViolence(TrailWithTrigger(p))),
                    simCount + 1)
<1> DEFINE trail == TrailWithTrigger(p)
           labeled == LabelTrailViolence(trail)
           q == [p EXCEPT !.state = "Violence", !.trail = trail]
           residue == Residue(p, lastClose')
           o == Outcome(p, "Violence", residue, labeled)
<1>1. p \in PaperRecord /\ simCount \in Nat /\ simCount < p.deadline
      /\ p.deadline = p.entryCandle + Deadline /\ p.deadline \in Nat
  BY DEF HeldPaper, CountInv, PhaseTypeOK, PaperRecord
<1>2. simCount + 1 = p.deadline
  BY <1>1 DEF DeadlineReached
<1>3. trail \in Seq(Event)
  BY <1>1, TrailType
<1>4. residue \in Int
  BY <1>1, PriceType, ResidueType
<1> HIDE DEF trail
<1>5. /\ q \in PaperRecord /\ q.state = "Violence" /\ q.deadline = p.deadline
      /\ q.entryCandle = p.entryCandle
  <2>1. "Violence" \in {"Active", "Grace", "Violence"}
    OBVIOUS
  <2> QED
    BY <1>1, <1>3, <2>1 DEF PaperRecord
<1>6. /\ labeled \in Seq(LabeledEvent)
      /\ \A j \in DOMAIN labeled : labeled[j].label = "Exit"
  <2>1. Len(trail) \in Nat /\ DOMAIN trail = 1..Len(trail)
        /\ \A i \in 1..Len(trail) : trail[i] \in Event
    BY <1>3
  <2>2. labeled \in [1..Len(trail) -> LabeledEvent]
    BY <2>1 DEF LabelTrailViolence, LabeledEvent
  <2>3. labeled \in Seq(LabeledEvent)
    BY <2>1, <2>2, IsASeq
  <2> QED
    BY <2>3 DEF LabelTrailViolence
<1>7. o = [paper |-> q, closedAt |-> simCount + 1, finalResidue |-> residue,
           labeledTrail |-> labeled]
  BY DEF Outcome, trail
<1> HIDE DEF q, residue, labeled, o
<1>8. o \in OutcomeRecord
  BY <1>1, <1>4, <1>5, <1>6, <1>7 DEF OutcomeRecord
<1>9. {j \in DOMAIN labeled : labeled[j].label = "Exit"} = DOMAIN labeled
  BY <1>6
<1>10. Right(o)
  BY <1>2, <1>5, <1>7, <1>9 DEF Right
<1> QED
  BY <1>1, <1>5, <1>7, <1>8, <1>10 DEF Resolved, o, residue, labeled, trail

LEMMA GraceIsRight ==
    ASSUME CountInv, PhaseTypeOK', NEW close \in Price, lastClose' = close,
           NEW raw, NEW p, HeldPaper(p, simCount),
           ~DeadlineReached(p), GraceEligible(p, raw)
    PROVE  Resolved(Outcome(p, "Grace", Residue(p, lastClose'),
                            LabelTrailGrace(TrailWithTrigger(p))),
                    simCount + 1)
<1> DEFINE trail == TrailWithTrigger(p)
           n == Len(trail)
           labeled == LabelTrailGrace(trail)
           q == [p EXCEPT !.state = "Grace", !.trail = trail]
           residue == Residue(p, lastClose')
           o == Outcome(p, "Grace", residue, labeled)
<1>1. p \in PaperRecord /\ simCount \in Nat
      /\ p.deadline = p.entryCandle + Deadline /\ p.deadline \in Nat
  BY DEF HeldPaper, CountInv, PhaseTypeOK, PaperRecord
<1>2. simCount + 1 < p.deadline
  BY <1>1 DEF DeadlineReached
<1>3. /\ trail \in Seq(Event) /\ n \in Nat /\ n > 0
      /\ trail[n] = [candle |-> simCount + 1, label |-> currentLabel']
  BY <1>1, TrailType DEF GraceEligible
<1>4. residue \in Int /\ residue >= MinResidue
  BY <1>1, PriceType, ResidueType DEF GraceEligible
<1> HIDE DEF trail
<1>5. /\ q \in PaperRecord /\ q.state = "Grace" /\ q.deadline = p.deadline
      /\ q.entryCandle = p.entryCandle /\ q.direction = p.direction
  <2>1. "Grace" \in {"Active", "Grace", "Violence"}
    OBVIOUS
  <2> QED
    BY <1>1, <1>3, <2>1 DEF PaperRecord
<1>6. /\ labeled \in Seq(LabeledEvent) /\ Len(labeled) = n
      /\ DOMAIN labeled = 1..n
      /\ \A j \in 1..n : labeled[j].label = "Exit" <=> j = n
      /\ labeled[n].event = trail[n]
  <2>1. DOMAIN trail = 1..n /\ \A i \in 1..n : trail[i] \in Event
    BY <1>3
  <2> HIDE DEF n
  <2>2. labeled = [i \in 1..n |->
                     [event |-> trail[i], label |-> IF i = n THEN "Exit" ELSE "Hold"]]
    BY <2>1 DEF LabelTrailGrace, n
  <2>3. labeled \in [1..n -> LabeledEvent]
    <3>1. ASSUME NEW i \in 1..n
          PROVE  [event |-> trail[i], label |-> IF i = n THEN "Exit" ELSE "Hold"]
                   \in LabeledEvent
      BY <2>1 DEF LabeledEvent
    <3> HIDE DEF labeled
    <3> QED
      BY <2>2, <3>1
  <2> HIDE DEF labeled
  <2>4. labeled \in Seq(LabeledEvent)
    BY <1>3, <2>3, IsASeq
  <2>5. DOMAIN labeled = 1..n
    BY <2>3
  <2>6. Len(labeled) = n
    BY <1>3, <2>4, <2>5, LenProperties
  <2>7. n \in 1..n
    BY <1>3
  <2> QED
    BY <2>2, <2>4, <2>5, <2>6, <2>7
<1>7. o = [paper |-> q, closedAt |-> simCount + 1, finalResidue |-> residue,
           labeledTrail |-> labeled]
  BY DEF Outcome, trail
<1>8. DirectionAgainst(p.direction, currentLabel')
  BY DEF GraceEligible
<1> HIDE DEF q, residue, labeled, o, n
<1>9. o \in OutcomeRecord
  BY <1>1, <1>4, <1>5, <1>6, <1>7 DEF OutcomeRecord
<1>10. {j \in DOMAIN labeled : labeled[j].label = "Exit"} = {n}
  <2>1. n \in 1..n
    BY <1>3
  <2> QED
    BY <1>6, <2>1
<1>11. Last(labeled).event = [candle |-> simCount + 1, label |-> currentLabel']
  BY <1>3, <1>6 DEF Last
<1>12. Right(o)
  BY <1>2, <1>4, <1>5, <1>6, <1>7, <1>8, <1>10, <1>11 DEF Right
<1> QED
  BY <1>1, <1>5, <1>7, <1>9, <1>12 DEF Resolved, o, residue, labeled, trail

-----------------------------------------------------------------------------
(* The papers through a tick *)

LEMMA StillResolved ==
    ASSUME NEW now \in Nat, NEW o, Resolved(o, now)
    PROVE  Resolved(o, now + 1)
BY DEF Resolved, OutcomeRecord

\* The resolved papers stay as they were, or a resolved paper that began
\* after them all joins them.
LEMMA OutcomesGrow ==
    ASSUME PaperInv, simCount \in Nat,
           NEW o, Resolved(o, simCount + 1),
           Len(outcomes) > 0 =>
              outcomes[Len(outcomes)].closedAt < o.paper.entryCandle,
           NEW longer, longer = Append(outcomes, o)
    PROVE  /\ longer \in Seq(OutcomeRecord)
           /\ \A i \in 1..Len(longer) : Resolved(longer[i], simCount + 1)
           /\ \A i \in 1..(Len(longer) - 1) :
                 longer[i].closedAt < longer[i + 1].paper.entryCandle
<1> DEFINE n == Len(outcomes)
<1>1. outcomes \in Seq(OutcomeRecord) /\ n \in Nat /\ o \in OutcomeRecord
  BY DEF PaperInv, Resolved
<1>2. /\ longer \in Seq(OutcomeRecord) /\ Len(longer) = n + 1
      /\ \A i \in 1..n : longer[i] = outcomes[i]
      /\ longer[n + 1] = o
  BY <1>1, AppendProperties
<1>3. /\ \A i \in 1..n : Resolved(outcomes[i], simCount)
      /\ \A i \in 1..(n - 1) :
            outcomes[i].closedAt < outcomes[i + 1].paper.entryCandle
      /\ n > 0 => outcomes[n].closedAt < o.paper.entryCandle
  BY DEF PaperInv
<1> HIDE DEF n
<1>4. ASSUME NEW i \in 1..(n + 1)
      PROVE  Resolved(longer[i], simCount + 1)
  <2>1. CASE i = n + 1
    BY <1>2, <2>1
  <2>2. CASE i # n + 1
    <3>1. i \in 1..n
      BY <1>1, <2>2
    <3> QED
      BY <1>2, <1>3, <3>1, StillResolved
  <2> QED
    BY <2>1, <2>2
<1>5. ASSUME NEW i \in 1..n
      PROVE  longer[i].closedAt < longer[i + 1].paper.entryCandle
  <2>1. longer[i] = outcomes[i]
    BY <1>2
  <2>2. CASE i = n
    <3>1. n > 0 /\ longer[i + 1] = o
      BY <1>1, <1>2, <2>2
    <3> QED
      BY <1>3, <2>1, <2>2, <3>1
  <2>3. CASE i # n
    <3>1. i \in 1..(n - 1) /\ i + 1 \in 1..n
      BY <1>1, <2>3
    <3> QED
      BY <1>2, <1>3, <2>1, <3>1
  <2> QED
    BY <2>2, <2>3
<1>6. Len(longer) - 1 = n
  BY <1>1, <1>2
<1> QED
  BY <1>2, <1>4, <1>5, <1>6

LEMMA OutcomesStay ==
    ASSUME PaperInv, simCount \in Nat
    PROVE  \A i \in 1..Len(outcomes) : Resolved(outcomes[i], simCount + 1)
BY StillResolved DEF PaperInv

LEMMA LastClosed ==
    ASSUME PaperInv, simCount \in Nat, Len(outcomes) > 0
    PROVE  /\ outcomes[Len(outcomes)].closedAt \in Nat
           /\ outcomes[Len(outcomes)].closedAt <= simCount
<1>1. Len(outcomes) \in 1..Len(outcomes)
  BY DEF PaperInv
<1>2. Resolved(outcomes[Len(outcomes)], simCount)
  BY <1>1 DEF PaperInv
<1> QED
  BY <1>2 DEF Resolved, OutcomeRecord

LEMMA TickPapers ==
    ASSUME SimInv, NEW close \in Price, NEW smoothing \in Smoothing,
           NEW raw \in Action, Tick(close, smoothing, raw)
    PROVE  PaperInv'
<1>1. /\ CountInv /\ WindowInv /\ PaperInv /\ PhaseTypeOK
      /\ simCount \in Nat /\ simCount' = simCount + 1
  BY DEF SimInv, CountInv, PhaseTypeOK, Tick
<1>2. PhaseTypeOK' /\ lastClose' = close
  BY <1>1, StepType, StepCounts DEF Tick
<1>3. ASSUME openPaper # {}
      PROVE  \E p \in PaperRecord :
               /\ openPaper = {p} /\ HeldPaper(p, simCount)
               /\ Len(outcomes) > 0 => outcomes[Len(outcomes)].closedAt < p.entryCandle
  BY <1>1, <1>3 DEF PaperInv
<1>4. ASSUME UNCHANGED outcomes, openPaper' = {}
      PROVE  PaperInv'
  BY <1>1, <1>4, OutcomesStay DEF PaperInv
<1>5. CASE StayOut(raw)
  BY <1>4, <1>5 DEF StayOut, paperVars
<1>6. CASE OpenNewPaper(raw)
  <2> DEFINE p == [id |-> paperId + 1, direction |-> raw,
                   entryPrice |-> lastClose', entryCandle |-> simCount + 1,
                   deadline |-> simCount + 1 + Deadline,
                   state |-> "Active", trail |-> <<>>]
  <2>1. openPaper' = {p} /\ outcomes' = outcomes /\ raw \in Direction
    BY <1>6 DEF OpenNewPaper
  <2>2. Deadline \in Nat /\ Deadline > 0
    BY ConfigAssumption DEF ConfigAssumption
  <2>3. paperId + 1 \in Nat \ {0} /\ <<>> \in Seq(Event)
    BY <1>1 DEF CountInv
  <2>4. p \in PaperRecord
    BY <1>1, <1>2, <2>1, <2>2, <2>3 DEF PaperRecord
  <2>5. HeldPaper(p, simCount + 1)
    BY <1>1, <2>2, <2>4 DEF HeldPaper
  <2>6. Len(outcomes) > 0 => outcomes[Len(outcomes)].closedAt < p.entryCandle
    BY <1>1, LastClosed
  <2> HIDE DEF p
  <2> QED
    BY <1>1, <2>1, <2>4, <2>5, <2>6, OutcomesStay DEF PaperInv
<1>7. CASE ResolveViolence
  <2>1. PICK p \in PaperRecord :
          /\ openPaper = {p} /\ HeldPaper(p, simCount)
          /\ Len(outcomes) > 0 => outcomes[Len(outcomes)].closedAt < p.entryCandle
    BY <1>3, <1>7 DEF ResolveViolence
  <2> DEFINE o == Outcome(p, "Violence", Residue(p, lastClose'),
                          LabelTrailViolence(TrailWithTrigger(p)))
  <2>2. DeadlineReached(p) /\ openPaper' = {} /\ outcomes' = Append(outcomes, o)
    BY <1>7, <2>1 DEF ResolveViolence
  <2>3. Resolved(o, simCount + 1)
    BY <1>1, <1>2, <2>1, <2>2, ViolenceIsRight
  <2>4. o.paper.entryCandle = p.entryCandle
    BY <2>1 DEF Outcome, PaperRecord
  <2> HIDE DEF o
  <2> QED
    BY <1>1, <2>1, <2>2, <2>3, <2>4, OutcomesGrow DEF PaperInv
<1>8. CASE ResolveGrace(raw)
  <2>1. PICK p \in PaperRecord :
          /\ openPaper = {p} /\ HeldPaper(p, simCount)
          /\ Len(outcomes) > 0 => outcomes[Len(outcomes)].closedAt < p.entryCandle
    BY <1>3, <1>8 DEF ResolveGrace
  <2> DEFINE o == Outcome(p, "Grace", Residue(p, lastClose'),
                          LabelTrailGrace(TrailWithTrigger(p)))
  <2>2. /\ ~DeadlineReached(p) /\ GraceEligible(p, raw)
        /\ openPaper' = {} /\ outcomes' = Append(outcomes, o)
    BY <1>8, <2>1 DEF ResolveGrace
  <2>3. Resolved(o, simCount + 1)
    BY <1>1, <1>2, <2>1, <2>2, GraceIsRight
  <2>4. o.paper.entryCandle = p.entryCandle
    BY <2>1 DEF Outcome, PaperRecord
  <2> HIDE DEF o
  <2> QED
    BY <1>1, <2>1, <2>2, <2>3, <2>4, OutcomesGrow DEF PaperInv
<1>9. CASE ContinueHolding(raw)
  <2>1. PICK p \in PaperRecord :
          /\ openPaper = {p} /\ HeldPaper(p, simCount)
          /\ Len(outcomes) > 0 => outcomes[Len(outcomes)].closedAt < p.entryCandle
    BY <1>3, <1>9 DEF ContinueHolding
  <2> DEFINE trail == TrailWithTrigger(p)
             q == [p EXCEPT !.trail = trail]
  <2>2. ~DeadlineReached(p) /\ openPaper' = {q} /\ outcomes' = outcomes
    BY <1>9, <2>1 DEF ContinueHolding
  <2>3. trail \in Seq(Event)
    BY <1>1, <1>2, <2>1, TrailType
  <2> HIDE DEF trail
  <2>4. /\ q \in PaperRecord /\ q.state = p.state /\ q.deadline = p.deadline
        /\ q.entryCandle = p.entryCandle
    BY <2>1, <2>3 DEF PaperRecord
  <2> HIDE DEF q
  <2>5. p.deadline \in Nat /\ p.entryCandle \in Nat
    BY <2>1 DEF PaperRecord
  <2>6. HeldPaper(q, simCount + 1)
    BY <1>1, <2>1, <2>2, <2>4, <2>5 DEF HeldPaper, DeadlineReached
  <2> QED
    BY <1>1, <2>1, <2>2, <2>4, <2>6, OutcomesStay DEF PaperInv
<1> QED
  BY <1>5, <1>6, <1>7, <1>8, <1>9 DEF Tick

LEMMA TickCounts ==
    ASSUME SimInv, NEW close \in Price, NEW smoothing \in Smoothing,
           NEW raw \in Action, Tick(close, smoothing, raw)
    PROVE  CountInv' /\ WindowInv'
<1>1. CountInv /\ WindowInv /\ PhaseTypeOK /\ Step(close, smoothing)
  BY DEF SimInv, CountInv, Tick
<1>2. PhaseTypeOK' /\ candle' = candle + 1
  BY <1>1, StepType, StepCounts
<1>3. paperId' \in Nat
  <2>0. paperId \in Nat
    BY <1>1 DEF CountInv
  <2>1. CASE StayOut(raw)
    BY <2>0, <2>1 DEF StayOut, paperVars
  <2>2. CASE OpenNewPaper(raw)
    BY <2>0, <2>2 DEF OpenNewPaper
  <2>3. CASE ResolveViolence
    BY <2>0, <2>3 DEF ResolveViolence
  <2>4. CASE ResolveGrace(raw)
    BY <2>0, <2>4 DEF ResolveGrace
  <2>5. CASE ContinueHolding(raw)
    BY <2>0, <2>5 DEF ContinueHolding
  <2> QED
    BY <2>1, <2>2, <2>3, <2>4, <2>5 DEF Tick
<1>4. CountInv'
  BY <1>1, <1>2, <1>3 DEF CountInv, Tick
<1>5. WindowInv'
  BY <1>1, <1>2, WindowStep DEF Tick
<1> QED
  BY <1>4, <1>5

LEMMA SimInvInductive == SimInv /\ [SimNext]_simVars => SimInv'
<1> SUFFICES ASSUME SimInv, [SimNext]_simVars
             PROVE  SimInv'
  OBVIOUS
<1>1. CASE SimNext
  BY <1>1, TickCounts, TickPapers DEF SimNext, SimInv
<1>2. CASE UNCHANGED simVars
  <2>1. UNCHANGED <<phaseVars, window, paperVars, prevPhaseGen, simCount>>
    BY <1>2 DEF simVars
  <2>2. PhaseTypeOK' /\ candle' = candle /\ generation' = generation
    BY <2>1 DEF SimInv, CountInv, PhaseTypeOK, phaseVars, trackerVars, statVars
  <2>3. CountInv'
    BY <2>1, <2>2 DEF SimInv, CountInv, paperVars
  <2>4. WindowInv'
    BY <2>1, <2>2 DEF SimInv, WindowInv
  <2>5. PaperInv'
    BY <2>1 DEF SimInv, PaperInv, paperVars
  <2> QED
    BY <2>3, <2>4, <2>5 DEF SimInv
<1> QED
  BY <1>1, <1>2

LEMMA SimInvInit == SimInit => SimInv
<1> SUFFICES ASSUME SimInit
             PROVE  SimInv
  OBVIOUS
<1>1. CountInv
  BY InitType DEF SimInit, PhaseInit, CountInv
<1>2. WindowCap \in Nat /\ WindowCap > 0
  BY ConfigAssumption DEF ConfigAssumption
<1>3. WindowInv
  BY <1>2 DEF SimInit, PhaseInit, WindowInv
<1>4. PaperInv
  BY DEF SimInit, PaperInv
<1> QED
  BY <1>1, <1>3, <1>4 DEF SimInv

-----------------------------------------------------------------------------
(* Theorems *)

LEMMA SimInvType == SimInv => SimTypeOK
<1> SUFFICES ASSUME SimInv
             PROVE  SimTypeOK
  OBVIOUS
<1>1. outcomes \in Seq(OutcomeRecord) /\ DOMAIN outcomes = 1..Len(outcomes)
  BY DEF SimInv, PaperInv
<1>2. ASSUME NEW i \in DOMAIN outcomes
      PROVE  /\ IsPaper(outcomes[i].paper)
             /\ outcomes[i].paper.state # "Active"
             /\ outcomes[i].finalResidue \in Int
  <2>1. Resolved(outcomes[i], simCount)
    BY <1>1 DEF SimInv, PaperInv
  <2> QED
    BY <2>1 DEF Resolved, OutcomeRecord, PaperRecord, IsPaper
<1>3. openPaper = {} \/ \E p \in openPaper :
          openPaper = {p} /\ IsPaper(p) /\ p.state = "Active"
  BY DEF SimInv, PaperInv, HeldPaper, PaperRecord, IsPaper
<1> QED
  BY <1>2, <1>3 DEF SimTypeOK, SimInv, CountInv, WindowInv

\* The simulator never holds two papers, all papers have their types, the
\* simulator and the labeler are at the same candle, and the window is the
\* last WindowCap candles.
THEOREM SimTypeCorrect == SimSpec => []SimTypeOK
BY SimInvInit, SimInvInductive, SimInvType, PTL DEF SimSpec

\* Every paper ends by the simulator's own rules, Violence exactly at its
\* deadline, Grace before it with the floor cleared at a trigger against it
\* (a Peak for Up, a Valley for Down), and its trail is labelled to match.
THEOREM ResolutionCorrect == SimSpec => []ResolvedRightly
<1>1. SimInv => ResolvedRightly
  BY DEF SimInv, PaperInv, Resolved, Right, ResolvedRightly
<1> QED
  BY SimInvInit, SimInvInductive, <1>1, PTL DEF SimSpec

\* Papers do not overlap: each opens strictly after the one before it was
\* resolved, and the open one is short of its deadline.
THEOREM ApartCorrect == SimSpec => []PapersApart
<1>1. SimInv => PapersApart
  <2> SUFFICES ASSUME SimInv
               PROVE  PapersApart
    OBVIOUS
  <2>1. outcomes \in Seq(OutcomeRecord)
    BY DEF SimInv, PaperInv
  <2>2. ASSUME NEW p \in openPaper
        PROVE  /\ p.entryCandle <= simCount /\ simCount < p.deadline
               /\ outcomes # <<>> => Last(outcomes).closedAt < p.entryCandle
    <3>1. /\ HeldPaper(p, simCount)
          /\ Len(outcomes) > 0 => outcomes[Len(outcomes)].closedAt < p.entryCandle
      BY DEF SimInv, PaperInv
    <3>2. outcomes # <<>> => Len(outcomes) > 0
      BY <2>1
    <3> QED
      BY <3>1, <3>2 DEF HeldPaper, Last
  <2> QED
    BY <2>2 DEF PapersApart, SimInv, PaperInv
<1> QED
  BY SimInvInit, SimInvInductive, <1>1, PTL DEF SimSpec

-----------------------------------------------------------------------------
(* The aggregate *)

LEMMA OutcomeFacts ==
    ASSUME PaperInv, simCount \in Nat
    PROVE  /\ Len(outcomes) \in Nat /\ DOMAIN outcomes = 1..Len(outcomes)
           /\ \A i \in DOMAIN outcomes : /\ outcomes[i] \in OutcomeRecord
                                         /\ outcomes[i].finalResidue \in Int
<1>1. outcomes \in Seq(OutcomeRecord)
  BY DEF PaperInv
<1>2. /\ Len(outcomes) \in Nat /\ DOMAIN outcomes = 1..Len(outcomes)
      /\ \A i \in DOMAIN outcomes : outcomes[i] \in OutcomeRecord
  <2> HIDE DEF OutcomeRecord
  <2> QED
    BY <1>1
<1> QED
  BY <1>2 DEF OutcomeRecord

LEMMA FatedFinite ==
    ASSUME PaperInv, simCount \in Nat, NEW state
    PROVE  /\ IsFiniteSet(Fated(state)) /\ Cardinality(Fated(state)) \in Nat
           /\ Fated(state) \subseteq DOMAIN outcomes
<1>1. IsFiniteSet(DOMAIN outcomes)
  BY OutcomeFacts, FS_Interval
<1>2. Fated(state) \subseteq DOMAIN outcomes
  BY DEF Fated
<1> QED
  BY <1>1, <1>2, FS_Subset, FS_CardinalityType

LEMMA AbsType == ASSUME NEW n \in Int PROVE Abs(n) \in Nat /\ (n >= 0 => Abs(n) = n)
BY DEF Abs

\* A resolved paper joins those of its fate and adds its residue to theirs.
LEMMA OutcomeCounted ==
    ASSUME PaperInv, simCount \in Nat, NEW o \in OutcomeRecord,
           outcomes' = Append(outcomes, o)
    PROVE  /\ Len(outcomes') = Len(outcomes) + 1
           /\ \A i \in 1..Len(outcomes) : outcomes'[i] = outcomes[i]
           /\ outcomes'[Len(outcomes) + 1] = o
           /\ \A s : s # o.paper.state =>
                 /\ Cardinality(Fated(s)') = Cardinality(Fated(s))
                 /\ Total(s)' = Total(s)
           /\ \A s : s = o.paper.state =>
                 /\ Cardinality(Fated(s)') = Cardinality(Fated(s)) + 1
                 /\ Total(s)' = Total(s) + Abs(o.finalResidue)
<1> DEFINE n == Len(outcomes)
           f == [i \in DOMAIN outcomes |-> Abs(outcomes[i].finalResidue)]
           g == [i \in DOMAIN outcomes' |-> Abs(outcomes'[i].finalResidue)]
<1>1. n \in Nat /\ outcomes \in Seq(OutcomeRecord) /\ DOMAIN outcomes = 1..n
  BY OutcomeFacts DEF PaperInv
<1>2. /\ Len(outcomes') = n + 1 /\ DOMAIN outcomes' = 1..(n + 1)
      /\ \A i \in 1..n : outcomes'[i] = outcomes[i]
      /\ outcomes'[n + 1] = o
  BY <1>1
<1>3. 1..(n + 1) = 1..n \cup {n + 1} /\ n + 1 \notin 1..n
  BY <1>1
<1> HIDE DEF n
<1>4. \A s : Fated(s)' = IF s = o.paper.state THEN Fated(s) \cup {n + 1} ELSE Fated(s)
  BY <1>1, <1>2, <1>3 DEF Fated
<1>5. o.finalResidue \in Int /\ Abs(o.finalResidue) \in Int
  BY AbsType DEF OutcomeRecord
<1>6. \A i \in DOMAIN outcomes : f[i] \in Int /\ g[i] = f[i]
  <2>1. \A i \in DOMAIN outcomes : outcomes[i].finalResidue \in Int
    BY OutcomeFacts
  <2> QED
    BY <1>1, <1>2, <1>3, <2>1, AbsType
<1>7. g[n + 1] = Abs(o.finalResidue)
  BY <1>2, <1>3
<1>8. \A s : Total(s) = SumFunctionOnSet(f, Fated(s)) /\ Total(s)' = SumFunctionOnSet(g, Fated(s)')
  BY DEF Total
<1> HIDE DEF f, g
<1>9. ASSUME NEW s, s # o.paper.state
      PROVE  /\ Cardinality(Fated(s)') = Cardinality(Fated(s))
             /\ Total(s)' = Total(s)
  <2> DEFINE S == Fated(s)
  <2>1. IsFiniteSet(S) /\ \A i \in S : f[i] \in Int /\ g[i] = f[i]
    BY <1>6, FatedFinite
  <2>2. Fated(s)' = S
    BY <1>4, <1>9
  <2>3. Total(s) = SumFunctionOnSet(f, S) /\ Total(s)' = SumFunctionOnSet(g, S)
    BY <1>8, <2>2
  <2> HIDE DEF S
  <2>4. SumFunctionOnSet(g, S) = SumFunctionOnSet(f, S)
    BY <2>1, SumSame
  <2> QED
    BY <2>2, <2>3, <2>4 DEF S
<1>10. ASSUME NEW s, s = o.paper.state
       PROVE  /\ Cardinality(Fated(s)') = Cardinality(Fated(s)) + 1
              /\ Total(s)' = Total(s) + Abs(o.finalResidue)
  <2> DEFINE S == Fated(s)
  <2>1. /\ IsFiniteSet(S) /\ \A i \in S : f[i] \in Int /\ g[i] = f[i]
        /\ n + 1 \notin S
    BY <1>1, <1>3, <1>6, FatedFinite
  <2>2. Fated(s)' = S \cup {n + 1}
    BY <1>4, <1>10
  <2>3. Total(s) = SumFunctionOnSet(f, S) /\ Total(s)' = SumFunctionOnSet(g, S \cup {n + 1})
    BY <1>8, <2>2
  <2> HIDE DEF S
  <2>4. SumFunctionOnSet(g, S \cup {n + 1}) = SumFunctionOnSet(f, S) + g[n + 1]
    <3> DEFINE m == n + 1
    <3>1. m \notin S /\ g[m] \in Int
      BY <1>5, <1>7, <2>1
    <3> HIDE DEF m
    <3>2. SumFunctionOnSet(g, S \cup {m}) = SumFunctionOnSet(f, S) + g[m]
      BY <2>1, <3>1, SumGains
    <3> QED
      BY <3>2 DEF m
  <2>5. Cardinality(S \cup {n + 1}) = Cardinality(S) + 1
    BY <2>1, FS_AddElement
  <2>6. Total(s)' = Total(s) + Abs(o.finalResidue)
    BY <1>7, <2>3, <2>4
  <2>7. Cardinality(Fated(s)') = Cardinality(Fated(s)) + 1
    BY <2>2, <2>5 DEF S
  <2> QED
    BY <2>6, <2>7
<1> QED
  BY <1>2, <1>9, <1>10 DEF n

\* The ids, apart from the counts.
IdsGiven ==
    /\ \A i \in DOMAIN outcomes : outcomes[i].paper.id = i
    /\ paperId = Len(outcomes) + Cardinality(openPaper)
    /\ \A p \in openPaper : p.id = paperId

Counted ==
    /\ aggregate =
         [papers |-> Len(outcomes), graceCount |-> Cardinality(Fated("Grace")),
          violenceCount |-> Cardinality(Fated("Violence")),
          totalResidue |-> Total("Grace"), totalLoss |-> Total("Violence")]

\* Resolving the open paper p leaves its id with its outcome.
LEMMA IdsAfterResolving ==
    ASSUME SimInv, IdsGiven, NEW p \in PaperRecord, openPaper = {p},
           openPaper' = {}, paperId' = paperId,
           NEW o \in OutcomeRecord, o.paper.id = p.id,
           outcomes' = Append(outcomes, o)
    PROVE  IdsGiven'
<1>0. PaperInv /\ simCount \in Nat
  BY DEF SimInv, CountInv, PhaseTypeOK
<1>1. /\ Len(outcomes) \in Nat /\ DOMAIN outcomes = 1..Len(outcomes)
      /\ outcomes \in Seq(OutcomeRecord)
  BY <1>0, OutcomeFacts DEF PaperInv
<1>2. Cardinality({p}) = 1 /\ Cardinality({}) = 0
  BY FS_Singleton, FS_EmptySet
<1>3. paperId = Len(outcomes) + 1 /\ p.id = paperId
  BY <1>2 DEF IdsGiven
<1>4. /\ Len(outcomes') = Len(outcomes) + 1
      /\ DOMAIN outcomes' = 1..(Len(outcomes) + 1)
      /\ \A i \in 1..Len(outcomes) : outcomes'[i] = outcomes[i]
      /\ outcomes'[Len(outcomes) + 1] = o
  BY <1>1
<1>5. ASSUME NEW i \in DOMAIN outcomes' PROVE outcomes'[i].paper.id = i
  <2>1. CASE i = Len(outcomes) + 1
    BY <1>3, <1>4, <2>1
  <2>2. CASE i # Len(outcomes) + 1
    <3>1. i \in 1..Len(outcomes)
      BY <1>1, <1>4, <2>2
    <3> QED
      BY <1>1, <1>4, <3>1 DEF IdsGiven
  <2> QED
    BY <2>1, <2>2
<1>6. paperId' = Len(outcomes') + Cardinality(openPaper')
  BY <1>1, <1>2, <1>3, <1>4
<1> QED
  BY <1>5, <1>6 DEF IdsGiven

LEMMA TickCounted ==
    ASSUME SimInv, Counted, IdsGiven,
           NEW close \in Price, NEW smoothing \in Smoothing,
           NEW raw \in Action, Tick(close, smoothing, raw)
    PROVE  Counted' /\ IdsGiven'
<1>1. /\ PaperInv /\ PhaseTypeOK /\ CountInv
      /\ simCount \in Nat /\ paperId \in Nat
  BY DEF SimInv, CountInv, PhaseTypeOK
<1>2. PhaseTypeOK' /\ lastClose' = close /\ close \in Nat
  BY <1>1, StepType, StepCounts, PriceType DEF Tick
<1>3. ASSUME openPaper # {}
      PROVE  \E p \in PaperRecord : openPaper = {p} /\ HeldPaper(p, simCount)
  BY <1>1, <1>3 DEF PaperInv
<1>4. Len(outcomes) \in Nat /\ Cardinality(Fated("Grace")) \in Nat
      /\ Cardinality(Fated("Violence")) \in Nat
  BY <1>1, OutcomeFacts, FatedFinite
<1>5. ASSUME UNCHANGED <<outcomes, aggregate>> PROVE Counted'
  BY <1>5 DEF Counted, Fated, Total
<1>6. CASE StayOut(raw)
  BY <1>5, <1>6 DEF StayOut, paperVars, IdsGiven
<1>7. CASE OpenNewPaper(raw)
  <2>1. PICK p : openPaper' = {p} /\ p.id = paperId + 1
    <3> DEFINE q == [id |-> paperId + 1, direction |-> raw,
                     entryPrice |-> lastClose', entryCandle |-> simCount + 1,
                     deadline |-> simCount + 1 + Deadline,
                     state |-> "Active", trail |-> <<>>]
    <3>1. openPaper' = {q}
      BY <1>7 DEF OpenNewPaper
    <3>2. q.id = paperId + 1
      OBVIOUS
    <3> HIDE DEF q
    <3> QED
      BY <3>1, <3>2
  <2>2. openPaper = {} /\ paperId' = paperId + 1 /\ UNCHANGED <<outcomes, aggregate>>
    BY <1>7 DEF OpenNewPaper
  <2>3. Cardinality({p}) = 1 /\ Cardinality({}) = 0
    BY FS_Singleton, FS_EmptySet
  <2>4. paperId = Len(outcomes)
    BY <1>4, <2>2, <2>3 DEF IdsGiven
  <2>5. paperId' = Len(outcomes') + Cardinality(openPaper')
    BY <1>4, <2>1, <2>2, <2>3, <2>4
  <2> QED
    BY <1>5, <2>1, <2>2, <2>5 DEF IdsGiven
<1>8. CASE ResolveViolence
  <2>1. PICK p \in PaperRecord : openPaper = {p} /\ HeldPaper(p, simCount)
    BY <1>3, <1>8 DEF ResolveViolence
  <2> DEFINE residue == Residue(p, lastClose')
             o == Outcome(p, "Violence", residue, LabelTrailViolence(TrailWithTrigger(p)))
  <2>2. /\ DeadlineReached(p) /\ openPaper' = {} /\ outcomes' = Append(outcomes, o)
        /\ aggregate' = [aggregate EXCEPT !.papers = @ + 1, !.violenceCount = @ + 1,
                                          !.totalLoss = @ + Abs(residue)]
        /\ paperId' = paperId
    BY <1>8, <2>1 DEF ResolveViolence
  <2>3. Resolved(o, simCount + 1)
    BY <1>1, <1>2, <2>1, <2>2, ViolenceIsRight
  <2>4. o.paper.id = p.id /\ o.paper.state = "Violence" /\ o.finalResidue = residue
    BY <2>1 DEF Outcome, PaperRecord
  <2>5. o \in OutcomeRecord
    BY <2>3 DEF Resolved
  <2> HIDE DEF o, residue
  <2>6. IdsGiven'
    BY <2>1, <2>2, <2>4, <2>5, IdsAfterResolving
  <2>7. /\ Len(outcomes') = Len(outcomes) + 1
        /\ Cardinality(Fated("Grace")') = Cardinality(Fated("Grace"))
        /\ Total("Grace")' = Total("Grace")
        /\ Cardinality(Fated("Violence")') = Cardinality(Fated("Violence")) + 1
        /\ Total("Violence")' = Total("Violence") + Abs(residue)
    BY <1>1, <2>2, <2>4, <2>5, OutcomeCounted
  <2> QED
    BY <2>2, <2>6, <2>7 DEF Counted
<1>9. CASE ResolveGrace(raw)
  <2>1. PICK p \in PaperRecord : openPaper = {p} /\ HeldPaper(p, simCount)
    BY <1>3, <1>9 DEF ResolveGrace
  <2> DEFINE residue == Residue(p, lastClose')
             o == Outcome(p, "Grace", residue, LabelTrailGrace(TrailWithTrigger(p)))
  <2>2. /\ ~DeadlineReached(p) /\ GraceEligible(p, raw)
        /\ openPaper' = {} /\ outcomes' = Append(outcomes, o)
        /\ aggregate' = [aggregate EXCEPT !.papers = @ + 1, !.graceCount = @ + 1,
                                          !.totalResidue = @ + residue]
        /\ paperId' = paperId
    BY <1>9, <2>1 DEF ResolveGrace
  <2>3. Resolved(o, simCount + 1)
    BY <1>1, <1>2, <2>1, <2>2, GraceIsRight
  <2>4. o.paper.id = p.id /\ o.paper.state = "Grace" /\ o.finalResidue = residue
    BY <2>1 DEF Outcome, PaperRecord
  <2>5. o \in OutcomeRecord
    BY <2>3 DEF Resolved
  <2>6. Abs(residue) = residue
    <3>1. residue \in Int
      BY <1>2, ResidueType
    <3>2. residue >= MinResidue /\ MinResidue \in Nat
      BY <2>2, ConfigAssumption DEF GraceEligible, ConfigAssumption
    <3> HIDE DEF residue
    <3> QED
      BY <3>1, <3>2, AbsType
  <2> HIDE DEF o, residue
  <2>7. IdsGiven'
    BY <2>1, <2>2, <2>4, <2>5, IdsAfterResolving
  <2>8. /\ Len(outcomes') = Len(outcomes) + 1
        /\ Cardinality(Fated("Violence")') = Cardinality(Fated("Violence"))
        /\ Total("Violence")' = Total("Violence")
        /\ Cardinality(Fated("Grace")') = Cardinality(Fated("Grace")) + 1
        /\ Total("Grace")' = Total("Grace") + residue
    BY <1>1, <2>2, <2>4, <2>5, <2>6, OutcomeCounted
  <2> QED
    BY <2>2, <2>7, <2>8 DEF Counted
<1>10. CASE ContinueHolding(raw)
  <2>1. PICK p \in PaperRecord : openPaper = {p} /\ HeldPaper(p, simCount)
    BY <1>3, <1>10 DEF ContinueHolding
  <2>2. PICK q : /\ openPaper' = {q} /\ q = [p EXCEPT !.trail = TrailWithTrigger(p)]
                 /\ UNCHANGED <<outcomes, paperId, aggregate>>
    BY <1>10, <2>1 DEF ContinueHolding
  <2>3. q.id = p.id
    BY <2>1, <2>2 DEF PaperRecord
  <2>4. Cardinality({p}) = 1 /\ Cardinality({q}) = 1
    BY FS_Singleton
  <2> QED
    BY <1>5, <2>1, <2>2, <2>3, <2>4 DEF IdsGiven
<1> QED
  BY <1>6, <1>7, <1>8, <1>9, <1>10 DEF Tick

\* The aggregate the simulator keeps as it goes is the fold of the outcomes it
\* returns, for any number of papers and however they ended.
THEOREM AggregateCorrect == SimSpec => []AggregateIsFold
<1>1. SimInit => Counted /\ IdsGiven
  <2> SUFFICES ASSUME SimInit PROVE Counted /\ IdsGiven
    OBVIOUS
  <2>1. \A s : Fated(s) = {} /\ Total(s) = 0
    BY SumEmpty DEF SimInit, Fated, Total
  <2>2. Cardinality({}) = 0 /\ Len(<<>>) = 0
    BY FS_EmptySet
  <2>3. Counted
    BY <2>1, <2>2 DEF SimInit, Counted
  <2>4. IdsGiven
    BY <2>2 DEF SimInit, IdsGiven
  <2> QED
    BY <2>3, <2>4
<1>2. SimInv /\ Counted /\ IdsGiven /\ [SimNext]_simVars => Counted' /\ IdsGiven'
  <2> SUFFICES ASSUME SimInv, Counted, IdsGiven, [SimNext]_simVars
               PROVE  Counted' /\ IdsGiven'
    OBVIOUS
  <2>1. CASE SimNext
    BY <2>1, TickCounted DEF SimNext
  <2>2. CASE UNCHANGED simVars
    BY <2>2 DEF simVars, paperVars, Counted, IdsGiven, Fated, Total
  <2> QED
    BY <2>1, <2>2
<1>3. Counted /\ IdsGiven => AggregateIsFold
  BY DEF Counted, IdsGiven, AggregateIsFold
<1> QED
  BY <1>1, <1>2, <1>3, SimInvInit, SimInvInductive, PTL DEF SimSpec

-----------------------------------------------------------------------------
(* The trail and the phases *)

PhaseTip == [start |-> currentStart, label |-> currentPhaseLabel]

\* A trail tells the phases that began after entry, and those only.
Follows(trail, entry, phases) ==
    LET before == Len(phases) - Len(trail)
    IN  /\ before >= 0
        /\ \A i \in DOMAIN phases :
              /\ i > before <=> phases[i].start > entry
              /\ i > before =>
                    trail[i - before] = [candle |-> phases[i].start,
                                         label |-> phases[i].label]

\* No phase has begun after the last candle.
PhasesPast == \A i \in DOMAIN phaseHistory : phaseHistory[i].start <= candle

\* A paper is held only once the labeler has seen a candle.
HeldSeeded == openPaper # {} => count > 0

TrailInv == SimInv /\ HistoryInv /\ PhasesPast /\ HeldSeeded /\ TrailFollowsPhases

\* The phases one by one.
PhasesListed ==
    /\ Len(phaseHistory) \in Nat
    /\ DOMAIN phaseHistory = 1..Len(phaseHistory)
    /\ Len(Phases) = Len(phaseHistory) + 1
    /\ DOMAIN Phases = 1..(Len(phaseHistory) + 1)
    /\ \A i \in 1..Len(phaseHistory) : Phases[i] = phaseHistory[i]
    /\ Phases[Len(phaseHistory) + 1] = PhaseTip
    /\ \A i \in 1..(Len(phaseHistory) + 1) : Phases[i].start \in Nat

LEMMA PhasesAre == PhaseTypeOK => PhasesListed
<1> SUFFICES ASSUME PhaseTypeOK PROVE PhasesListed
  OBVIOUS
<1> DEFINE n == Len(phaseHistory)
<1>1. n \in Nat /\ DOMAIN phaseHistory = 1..n
      /\ \A i \in 1..n : phaseHistory[i] \in PhaseRecord
  BY DEF PhaseTypeOK
<1>2. /\ Len(Phases) = n + 1 /\ DOMAIN Phases = 1..(n + 1)
      /\ \A i \in 1..n : Phases[i] = phaseHistory[i]
      /\ Phases[n + 1] = PhaseTip
  <2> DEFINE S == PhaseRecord \cup {PhaseTip}
  <2>1. phaseHistory \in Seq(S) /\ PhaseTip \in S
    BY DEF PhaseTypeOK
  <2> HIDE DEF S
  <2>2. Phases = Append(phaseHistory, PhaseTip)
    BY DEF Phases, PhaseTip
  <2> QED
    BY <1>1, <2>1, <2>2
<1>3. \A i \in 1..n : phaseHistory[i].start \in Nat
  BY <1>1 DEF PhaseRecord
<1>4. PhaseTip.start \in Nat
  BY DEF PhaseTip, PhaseTypeOK
<1> HIDE DEF n
<1>5. \A i \in 1..(n + 1) : Phases[i].start \in Nat
  <2> TAKE i \in 1..(n + 1)
  <2>1. CASE i = n + 1
    BY <1>2, <1>4, <2>1
  <2>2. CASE i # n + 1
    <3>1. i \in 1..n
      BY <1>1, <2>2
    <3> QED
      BY <1>2, <1>3, <3>1
  <2> QED
    BY <2>1, <2>2
<1> QED
  BY <1>1, <1>2, <1>5 DEF n, PhasesListed

LEMMA PhasesArePrimed == PhaseTypeOK' => PhasesListed'
BY PhasesAre, PTL

\* What a boundary does to the list of phases: one joins at the end, and those
\* that are dropped in front are older than HistoryMaxAge.
LEMMA PhasesAtBoundary ==
    ASSUME HistoryInv, NEW close \in Price, NEW smoothing \in Smoothing,
           Boundary(close, smoothing)
    PROVE  \E k \in Nat :
              /\ k + Len(Phases') = Len(Phases) + 1
              /\ Len(Phases') \in Nat \ {0}
              /\ DOMAIN Phases' = 1..Len(Phases')
              /\ \A i \in 1..(Len(Phases') - 1) :
                    /\ Phases'[i].start = Phases[i + k].start
                    /\ Phases'[i].label = Phases[i + k].label
              /\ Phases'[Len(Phases')].start = candle + 1
              /\ Phases'[Len(Phases')].label = currentLabel'
              /\ \A i \in 1..k : /\ i \in DOMAIN Phases
                                 /\ (candle + 1) - Phases[i].start > HistoryMaxAge
<1> DEFINE n == Len(phaseHistory)
           r == ClosedRecord(close)
           longer == Append(phaseHistory, r)
           t == TrimFront(longer, candle + 1)
<1>1. /\ PhaseTypeOK /\ close \in Nat /\ candle + 1 \in Int /\ candle \in Nat
      /\ phaseHistory \in Seq(PhaseRecord) /\ n \in Nat
  BY PriceType DEF HistoryInv, LabelInv, PhaseTypeOK
<1>2. r \in PhaseRecord
  BY <1>1, ClosedRecordType
<1>3. r.start = PhaseTip.start /\ r.label = PhaseTip.label
  BY DEF ClosedRecord, PhaseTip, HistoryInv, LabelInv, LabelsAgree
<1>4. PhaseTypeOK'
  BY <1>1, StepType DEF Step
<1>5. /\ phaseHistory' = t
      /\ PhaseTip' = [start |-> candle + 1, label |-> currentLabel']
  BY DEF Boundary, StartStats, Track, PhaseTip
<1> HIDE DEF r
<1>6. /\ longer \in Seq(PhaseRecord) /\ Len(longer) = n + 1
      /\ \A i \in 1..n : longer[i] = phaseHistory[i]
      /\ longer[n + 1] = r
  BY <1>1, <1>2, AppendProperties
<1>7. /\ Len(Phases) = n + 1 /\ DOMAIN Phases = 1..(n + 1)
      /\ \A i \in 1..n : Phases[i] = phaseHistory[i]
      /\ Phases[n + 1] = PhaseTip
      /\ \A i \in 1..(n + 1) : Phases[i].start \in Nat
  BY <1>1, PhasesAre DEF PhasesListed
<1> HIDE DEF longer
<1>8. \A i \in 1..(n + 1) : longer[i].start = Phases[i].start
                            /\ longer[i].label = Phases[i].label
  <2> TAKE i \in 1..(n + 1)
  <2> HIDE DEF n
  <2>1. i \in 1..n \/ i = n + 1
    BY <1>1
  <2> QED
    BY <1>3, <1>6, <1>7, <2>1
<1>9. /\ t \in Seq(PhaseRecord)
      /\ \E k \in Nat :
           /\ k + Len(t) = Len(longer)
           /\ \A i \in 1..Len(t) : t[i] = longer[i + k]
           /\ \A i \in 1..k : ~((candle + 1) - longer[i].start <= HistoryMaxAge)
  <2>1. longer \in Seq(PhaseRecord)
    BY <1>6
  <2>2. candle + 1 \in Int
    BY <1>1
  <2> QED
    BY <2>1, <2>2, TrimFrontIsSuffix
<1> HIDE DEF t
<1>10. PICK k \in Nat :
         /\ k + Len(t) = n + 1
         /\ \A i \in 1..Len(t) : t[i] = longer[i + k]
         /\ \A i \in 1..k : ~((candle + 1) - longer[i].start <= HistoryMaxAge)
  BY <1>6, <1>9
<1> DEFINE m == Len(t)
<1>11. m \in Nat /\ k + m = n + 1
  BY <1>9, <1>10
<1>12. /\ Len(Phases') = m + 1 /\ DOMAIN Phases' = 1..(m + 1)
       /\ \A i \in 1..m : Phases'[i] = t[i]
       /\ Phases'[m + 1] = [start |-> candle + 1, label |-> currentLabel']
  <2>1. /\ Len(Phases') = Len(phaseHistory') + 1
        /\ DOMAIN Phases' = 1..(Len(phaseHistory') + 1)
        /\ \A i \in 1..Len(phaseHistory') : Phases'[i] = phaseHistory'[i]
        /\ Phases'[Len(phaseHistory') + 1] = PhaseTip'
    BY <1>4, PhasesArePrimed DEF PhasesListed
  <2> QED
    BY <1>5, <2>1
<1>13. HistoryMaxAge \in Nat
  BY PhaseAssumption DEF PhaseAssumption
<1> HIDE DEF n, m
<1>14. \A i \in 1..m : i + k \in 1..(n + 1)
  BY <1>1, <1>11
<1>15. \A i \in 1..m : /\ Phases'[i].start = Phases[i + k].start
                       /\ Phases'[i].label = Phases[i + k].label
  BY <1>8, <1>10, <1>12, <1>14 DEF m
<1>16. \A i \in 1..k : /\ i \in 1..(n + 1)
                       /\ (candle + 1) - Phases[i].start > HistoryMaxAge
  <2> TAKE i \in 1..k
  <2>1. i \in 1..(n + 1)
    BY <1>1, <1>11
  <2>2. ~((candle + 1) - Phases[i].start <= HistoryMaxAge) /\ Phases[i].start \in Nat
    BY <1>7, <1>8, <1>10, <2>1
  <2> QED
    BY <1>1, <1>13, <2>1, <2>2
<1>17. /\ Phases'[m + 1].start = candle + 1
       /\ Phases'[m + 1].label = currentLabel'
  BY <1>12
<1>18. (m + 1) - 1 = m /\ m + 1 \in Nat \ {0} /\ k + (m + 1) = (n + 1) + 1
  BY <1>1, <1>11
<1> QED
  BY <1>7, <1>12, <1>15, <1>16, <1>17, <1>18

\* The trail grows with the phases, and what the history forgets it had not
\* told.
LEMMA TrailGrows ==
    ASSUME NEW a \in Nat, NEW b \in Nat \ {0}, NEW k \in Nat, k + b = a + 1,
           NEW old, NEW new, DOMAIN old = 1..a, DOMAIN new = 1..b,
           Len(old) = a, Len(new) = b,
           \A i \in 1..a : old[i].start \in Nat,
           \A i \in 1..(b - 1) : new[i].start = old[i + k].start
                                 /\ new[i].label = old[i + k].label,
           NEW now \in Nat, new[b].start = now,
           NEW entry \in Nat, entry < now,
           \A i \in 1..k : i \in 1..a /\ old[i].start <= entry,
           NEW trail \in Seq(Event),
           NEW event \in Event, event = [candle |-> now, label |-> new[b].label],
           Follows(trail, entry, old)
    PROVE  Follows(Append(trail, event), entry, new)
<1> DEFINE m == Len(trail)
           longer == Append(trail, event)
           before == a - m
<1>1. m \in Nat /\ Len(longer) = m + 1 /\ longer[m + 1] = event
      /\ \A i \in 1..m : longer[i] = trail[i]
  BY AppendProperties
<1> HIDE DEF longer, m
<1>2. /\ before >= 0
      /\ \A i \in 1..a :
            /\ i > before <=> old[i].start > entry
            /\ i > before => trail[i - before] = [candle |-> old[i].start,
                                                  label |-> old[i].label]
  BY DEF Follows, m
<1>3. k <= before
  <2>1. CASE k = 0
    BY <1>1, <1>2, <2>1
  <2>2. CASE k # 0
    <3>1. k \in 1..k
      BY <2>2
    <3>2. k \in 1..a /\ ~(old[k].start > entry)
      BY <3>1
    <3>3. ~(k > before)
      BY <1>2, <3>2
    <3> QED
      BY <1>1, <3>3
  <2> QED
    BY <2>1, <2>2
<1> DEFINE after == b - (m + 1)
<1>4. after = before - k /\ after >= 0 /\ after \in Int
  BY <1>1, <1>2, <1>3
<1>5. ASSUME NEW i \in 1..b
      PROVE  /\ i > after <=> new[i].start > entry
             /\ i > after => longer[i - after] = [candle |-> new[i].start,
                                                  label |-> new[i].label]
  <2>1. CASE i = b
    <3>1. i > after /\ i - after = m + 1
      BY <1>1, <2>1
    <3>2. new[i].start > entry
      BY <2>1
    <3>3. longer[i - after] = event
      BY <1>1, <3>1
    <3> QED
      BY <2>1, <3>1, <3>2, <3>3
  <2>2. CASE i # b
    <3>1. i \in 1..(b - 1) /\ i + k \in 1..a
      BY <2>2
    <3>2. new[i].start = old[i + k].start /\ new[i].label = old[i + k].label
      BY <3>1
    <3>3. i > after <=> i + k > before
      BY <1>1, <1>4
    <3>4. i > after <=> new[i].start > entry
      BY <1>2, <3>1, <3>2, <3>3
    <3>5. ASSUME i > after
          PROVE  longer[i - after] = [candle |-> new[i].start,
                                      label |-> new[i].label]
      <4>1. i - after = (i + k) - before
        BY <1>1, <1>4
      <4>2. i - after \in 1..m
        BY <1>1, <1>4, <3>1, <3>5
      <4>3. trail[i - after] = [candle |-> new[i].start, label |-> new[i].label]
        BY <1>2, <3>1, <3>2, <3>3, <3>5, <4>1
      <4> QED
        BY <1>1, <4>2, <4>3
    <3> QED
      BY <3>4, <3>5
  <2> QED
    BY <2>1, <2>2
<1> QED
  BY <1>1, <1>4, <1>5 DEF Follows, longer

LEMMA TrailFollows ==
    TrailFollowsPhases <=> \A p \in openPaper : Follows(p.trail, p.entryCandle, Phases)
BY DEF TrailFollowsPhases, Follows

LEMMA TrailFollowsPrimed ==
    ASSUME NEW p, openPaper' = {p}, Follows(p.trail, p.entryCandle, Phases')
    PROVE  TrailFollowsPhases'
BY DEF TrailFollowsPhases, Follows

LEMMA PastStep ==
    ASSUME HistoryInv, PhasesPast, NEW close \in Price, NEW smoothing \in Smoothing,
           Step(close, smoothing)
    PROVE  PhasesPast' /\ count' > 0
<1>1. PhaseTypeOK /\ candle \in Nat /\ count \in Nat
  BY DEF HistoryInv, LabelInv, PhaseTypeOK
<1>2. /\ DOMAIN phaseHistory = 1..Len(phaseHistory) /\ Len(phaseHistory) \in Nat
      /\ \A i \in DOMAIN phaseHistory : phaseHistory[i].start \in Nat
      /\ Phases[Len(phaseHistory) + 1] = PhaseTip
      /\ \A i \in 1..Len(phaseHistory) : Phases[i] = phaseHistory[i]
      /\ Len(Phases) = Len(phaseHistory) + 1
  BY <1>1, PhasesAre DEF PhasesListed
<1>3. CASE Seed(close, smoothing) \/ Extend(close, smoothing)
  <2>1. phaseHistory' = phaseHistory /\ candle' = candle + 1 /\ count' > 0
    BY <1>1, <1>3 DEF Seed, Extend, Track, StartStats
  <2> QED
    BY <1>1, <1>2, <2>1 DEF PhasesPast
<1>4. CASE Boundary(close, smoothing)
  <2>1. candle' = candle + 1 /\ count' = 1
    BY <1>4 DEF Boundary, Track, StartStats
  <2>2. PICK k \in Nat :
          /\ k + Len(Phases') = Len(Phases) + 1
          /\ Len(Phases') \in Nat \ {0}
          /\ \A i \in 1..(Len(Phases') - 1) : Phases'[i].start = Phases[i + k].start
    BY <1>4, PhasesAtBoundary
  <2>3. PhaseTypeOK'
    BY <1>1, <1>4, StepType DEF Step
  <2>4. /\ DOMAIN phaseHistory' = 1..Len(phaseHistory') /\ Len(phaseHistory') \in Nat
        /\ Len(Phases') = Len(phaseHistory') + 1
        /\ \A i \in 1..Len(phaseHistory') : Phases'[i] = phaseHistory'[i]
    BY <2>3, PhasesArePrimed DEF PhasesListed
  <2>5. \A i \in 1..(Len(phaseHistory) + 1) : Phases[i].start <= candle
    <3> TAKE i \in 1..(Len(phaseHistory) + 1)
    <3>1. CASE i = Len(phaseHistory) + 1
      BY <1>2, <3>1 DEF PhaseTip, HistoryInv
    <3>2. CASE i # Len(phaseHistory) + 1
      <4>1. i \in 1..Len(phaseHistory)
        BY <1>2, <3>2
      <4> QED
        BY <1>2, <4>1 DEF PhasesPast
    <3> QED
      BY <3>1, <3>2
  <2>6. ASSUME NEW i \in DOMAIN phaseHistory' PROVE phaseHistory'[i].start <= candle'
    <3>1. i \in 1..Len(phaseHistory') /\ i + k \in 1..(Len(phaseHistory) + 1)
          /\ i \in 1..(Len(Phases') - 1)
      BY <1>2, <2>2, <2>4
    <3>2. phaseHistory'[i].start = Phases[i + k].start
      BY <2>2, <2>4, <3>1
    <3>3. Phases[i + k].start \in Nat
      BY <1>1, <3>1, PhasesAre DEF PhasesListed
    <3> QED
      BY <1>1, <2>1, <2>5, <3>1, <3>2, <3>3
  <2> QED
    BY <2>1, <2>6 DEF PhasesPast
<1> QED
  BY <1>3, <1>4 DEF Step

LEMMA TickTrail ==
    ASSUME TrailInv, NEW close \in Price, NEW smoothing \in Smoothing,
           NEW raw \in Action, Tick(close, smoothing, raw)
    PROVE  TrailFollowsPhases'
<1>1. /\ PaperInv /\ PhaseTypeOK /\ CountInv /\ HistoryInv /\ PhasesPast
      /\ simCount \in Nat /\ simCount = candle /\ prevPhaseGen = generation
      /\ Step(close, smoothing) /\ candle \in Nat /\ generation \in Nat
  BY DEF TrailInv, SimInv, CountInv, PhaseTypeOK, Tick
<1>2. PhaseTypeOK' /\ lastClose' = close /\ candle' = candle + 1
  BY <1>1, StepType, StepCounts
<1>3. CASE openPaper' = {}
  BY <1>3 DEF TrailFollowsPhases
<1>4. CASE OpenNewPaper(raw)
  <2>1. PICK p : openPaper' = {p} /\ p.trail = <<>> /\ p.entryCandle = candle + 1
    <3> DEFINE q == [id |-> paperId + 1, direction |-> raw,
                     entryPrice |-> lastClose', entryCandle |-> simCount + 1,
                     deadline |-> simCount + 1 + Deadline,
                     state |-> "Active", trail |-> <<>>]
    <3>1. openPaper' = {q}
      BY <1>4 DEF OpenNewPaper
    <3>2. q.trail = <<>> /\ q.entryCandle = candle + 1
      BY <1>1
    <3> HIDE DEF q
    <3> QED
      BY <3>1, <3>2
  <2>2. PhasesPast' /\ (currentStart <= candle)'
    BY <1>1, PastStep, StepHistory
  <2>3. /\ DOMAIN phaseHistory' = 1..Len(phaseHistory') /\ Len(phaseHistory') \in Nat
        /\ Len(Phases') = Len(phaseHistory') + 1
        /\ DOMAIN Phases' = 1..(Len(phaseHistory') + 1)
        /\ \A i \in 1..Len(phaseHistory') : Phases'[i] = phaseHistory'[i]
        /\ Phases'[Len(phaseHistory') + 1] = PhaseTip'
        /\ \A i \in 1..(Len(phaseHistory') + 1) : Phases'[i].start \in Nat
    BY <1>2, PhasesArePrimed DEF PhasesListed
  <2>4. \A i \in 1..(Len(phaseHistory') + 1) : Phases'[i].start <= candle + 1
    <3> TAKE i \in 1..(Len(phaseHistory') + 1)
    <3>1. CASE i = Len(phaseHistory') + 1
      BY <1>2, <2>2, <2>3, <3>1 DEF PhaseTip
    <3>2. CASE i # Len(phaseHistory') + 1
      <4>1. i \in 1..Len(phaseHistory')
        BY <2>3, <3>2
      <4> QED
        BY <1>2, <2>2, <2>3, <4>1 DEF PhasesPast
    <3> QED
      BY <3>1, <3>2
  <2>5. Follows(p.trail, p.entryCandle, Phases')
    <3> DEFINE n == Len(phaseHistory') + 1
    <3>1. n \in Nat /\ Len(p.trail) = 0 /\ Len(Phases') = n /\ DOMAIN Phases' = 1..n
      BY <2>1, <2>3
    <3>2. \A i \in 1..n : /\ Phases'[i].start \in Nat
                          /\ Phases'[i].start <= candle + 1
      BY <2>3, <2>4
    <3> HIDE DEF n
    <3>3. \A i \in 1..n : ~(i > n) /\ ~(Phases'[i].start > p.entryCandle)
      BY <1>1, <2>1, <3>1, <3>2
    <3> QED
      BY <3>1, <3>3 DEF Follows
  <2> QED
    BY <2>1, <2>5, TrailFollowsPrimed
<1>5. CASE ContinueHolding(raw)
  <2>1. PICK p \in PaperRecord : openPaper = {p} /\ HeldPaper(p, simCount)
    BY <1>1, <1>5 DEF PaperInv, ContinueHolding
  <2>2. PICK q : openPaper' = {q} /\ q = [p EXCEPT !.trail = TrailWithTrigger(p)]
                 /\ ~DeadlineReached(p)
    BY <1>5, <2>1 DEF ContinueHolding
  <2>3. /\ q.trail = TrailWithTrigger(p) /\ q.entryCandle = p.entryCandle
        /\ p.trail \in Seq(Event) /\ p.entryCandle \in Nat
        /\ p.entryCandle <= candle /\ candle + 1 < p.entryCandle + Deadline
        /\ p.deadline \in Nat
    BY <1>1, <2>1, <2>2 DEF PaperRecord, HeldPaper, DeadlineReached
  <2>4. Follows(p.trail, p.entryCandle, Phases)
    BY <2>1, TrailFollows DEF TrailInv
  <2>5. count > 0
    BY <2>1 DEF TrailInv, HeldSeeded
  <2>6. CASE Extend(close, smoothing)
    <3>1. ~TriggerFired /\ Phases' = Phases
      BY <1>1, <2>6 DEF Extend, TriggerFired, Phases
    <3>2. q.trail = p.trail
      BY <2>3, <3>1 DEF TrailWithTrigger
    <3>3. Follows(q.trail, q.entryCandle, Phases')
      BY <2>3, <2>4, <3>1, <3>2
    <3> QED
      BY <2>2, <3>3, TrailFollowsPrimed
  <2>7. CASE Boundary(close, smoothing)
    <3>1. TriggerFired
      BY <1>1, <2>7 DEF Boundary, TriggerFired
    <3> DEFINE event == TriggerEvent
               a == Len(Phases)
               b == Len(Phases')
    <3>2. q.trail = Append(p.trail, event) /\ event = [candle |-> candle + 1, label |-> currentLabel']
      BY <1>1, <2>3, <3>1 DEF TrailWithTrigger, TriggerEvent
    <3>3. event \in Event
      <4>1. currentLabel' \in Labels
        BY <1>2 DEF PhaseTypeOK, LabelDirection, Labels
      <4> QED
        BY <1>1, <3>2, <4>1 DEF Event
    <3>4. PICK k \in Nat :
              /\ k + b = a + 1
              /\ b \in Nat \ {0}
              /\ DOMAIN Phases' = 1..b
              /\ \A i \in 1..(b - 1) :
                    /\ Phases'[i].start = Phases[i + k].start
                    /\ Phases'[i].label = Phases[i + k].label
              /\ Phases'[b].start = candle + 1
              /\ Phases'[b].label = currentLabel'
              /\ \A i \in 1..k : /\ i \in DOMAIN Phases
                                 /\ (candle + 1) - Phases[i].start > HistoryMaxAge
      BY <1>1, <2>7, PhasesAtBoundary
    <3>5. a \in Nat /\ DOMAIN Phases = 1..a /\ \A i \in 1..a : Phases[i].start \in Nat
      BY <1>1, PhasesAre DEF PhasesListed
    <3> HIDE DEF event, a, b
    <3>6. \A i \in 1..k : i \in 1..a /\ Phases[i].start <= p.entryCandle
      <4> TAKE i \in 1..k
      <4>1. i \in 1..a /\ (candle + 1) - Phases[i].start > HistoryMaxAge
            /\ Phases[i].start \in Nat
        BY <3>4, <3>5
      <4>2. Deadline \in Nat /\ HistoryMaxAge \in Nat /\ Deadline <= HistoryMaxAge
        BY ConfigAssumption, PhaseAssumption DEF ConfigAssumption, PhaseAssumption
      <4> QED
        BY <1>1, <2>3, <4>1, <4>2
    <3>7. Follows(Append(p.trail, event), p.entryCandle, Phases')
      <4> DEFINE old == Phases
                 new == Phases'
                 now == candle + 1
                 entry == p.entryCandle
      <4>1. /\ now \in Nat /\ entry \in Nat /\ entry < now /\ new[b].start = now
            /\ event = [candle |-> now, label |-> new[b].label]
            /\ Len(old) = a /\ Len(new) = b
        BY <1>1, <2>3, <3>2, <3>4 DEF a, b
      <4>2. /\ DOMAIN old = 1..a /\ DOMAIN new = 1..b
            /\ \A i \in 1..a : old[i].start \in Nat
            /\ \A i \in 1..(b - 1) : new[i].start = old[i + k].start
                                     /\ new[i].label = old[i + k].label
            /\ \A i \in 1..k : i \in 1..a /\ old[i].start <= entry
            /\ Follows(p.trail, entry, old)
        BY <2>4, <3>4, <3>5, <3>6
      <4> HIDE DEF old, new, now, entry
      <4>3. Follows(Append(p.trail, event), entry, new)
        BY <2>3, <3>3, <3>4, <3>5, <4>1, <4>2, TrailGrows
      <4> QED
        BY <4>3 DEF entry, new
    <3>8. Follows(q.trail, q.entryCandle, Phases')
      BY <2>3, <3>2, <3>7
    <3> QED
      BY <2>2, <3>8, TrailFollowsPrimed
  <2>8. ~Seed(close, smoothing)
    BY <2>5 DEF Seed
  <2> QED
    BY <1>1, <2>6, <2>7, <2>8 DEF Step
<1>6. CASE StayOut(raw) \/ ResolveViolence \/ ResolveGrace(raw)
  BY <1>3, <1>6 DEF StayOut, ResolveViolence, ResolveGrace, paperVars
<1> QED
  BY <1>4, <1>5, <1>6 DEF Tick

\* The trail of the open paper tells exactly the phases that began after its
\* entry, each with its label: the simulator's trail and the labeler's
\* history, which forgets by age, never disagree about them.
THEOREM TrailCorrect == SimSpec => []TrailFollowsPhases
<1>1. SimInit => TrailInv
  <2> SUFFICES ASSUME SimInit PROVE TrailInv
    OBVIOUS
  <2>1. SimInv /\ LabelInv
    BY SimInvInit, LabelInvInit DEF SimInit
  <2>2. PhasesPast /\ HeldSeeded /\ TrailFollowsPhases
    BY DEF SimInit, PhaseInit, PhasesPast, HeldSeeded, TrailFollowsPhases
  <2>3. currentStart <= candle /\ Chained(phaseHistory, currentLabel, currentStart)
    <3>1. phaseHistory = <<>> /\ currentStart = 0 /\ candle = 0 /\ Len(<<>>) = 0
      BY DEF SimInit, PhaseInit
    <3>2. \A i \in Nat : ~(1 <= i /\ i < 0)
      OBVIOUS
    <3> QED
      BY <3>1, <3>2 DEF Chained
  <2> QED
    BY <2>1, <2>2, <2>3 DEF TrailInv, HistoryInv
<1>2. TrailInv /\ [SimNext]_simVars => TrailInv'
  <2> SUFFICES ASSUME TrailInv, [SimNext]_simVars PROVE TrailInv'
    OBVIOUS
  <2>1. SimInv'
    BY SimInvInductive DEF TrailInv
  <2>2. CASE SimNext
    <3>1. PICK close \in Price, smoothing \in Smoothing, raw \in Action :
             Tick(close, smoothing, raw)
      BY <2>2 DEF SimNext
    <3>2. Step(close, smoothing) /\ LabelInv /\ HistoryInv /\ PhasesPast
      BY <3>1 DEF Tick, TrailInv, HistoryInv
    <3>3. LabelInv'
      BY <2>1, <3>2, StepLabels DEF SimInv, CountInv, LabelInv
    <3>4. HistoryInv'
      BY <3>2, <3>3, StepHistory DEF HistoryInv
    <3>5. PhasesPast' /\ HeldSeeded'
      BY <3>2, PastStep DEF HeldSeeded
    <3>6. TrailFollowsPhases'
      BY <3>1, TickTrail
    <3> QED
      BY <2>1, <3>4, <3>5, <3>6 DEF TrailInv
  <2>3. CASE UNCHANGED simVars
    <3>1. UNCHANGED <<phaseVars, paperVars>>
      BY <2>3 DEF simVars
    <3>2. [PhaseNext]_phaseVars
      BY <3>1
    <3>3. LabelInv'
      BY <3>2, LabelInvInductive DEF TrailInv, HistoryInv
    <3>4. /\ UNCHANGED <<phaseHistory, currentStart, currentLabel, currentPhaseLabel>>
          /\ UNCHANGED <<candle, count, openPaper>>
      BY <3>1 DEF phaseVars, trackerVars, statVars, paperVars
    <3>5. HistoryInv'
      BY <3>3, <3>4 DEF TrailInv, HistoryInv
    <3>6. PhasesPast' /\ HeldSeeded'
      BY <3>4 DEF TrailInv, PhasesPast, HeldSeeded
    <3>7. TrailFollowsPhases'
      <4>1. Phases' = Phases
        BY <3>4 DEF Phases
      <4>2. openPaper' = openPaper
        BY <3>4
      <4>3. TrailFollowsPhases
        BY DEF TrailInv
      <4> QED
        BY <4>1, <4>2, <4>3, Zenon DEF TrailFollowsPhases
    <3> QED
      BY <2>1, <3>5, <3>6, <3>7 DEF TrailInv
  <2> QED
    BY <2>2, <2>3
<1>3. TrailInv => TrailFollowsPhases
  BY DEF TrailInv
<1> QED
  BY <1>1, <1>2, <1>3, PTL DEF SimSpec

-----------------------------------------------------------------------------
(* The labeler against the whole of what it was fed (PhaseWindows) *)

\* A description stays true when more closes come.
LEMMA DescribesStays ==
    ASSUME NEW over \in Seq(Nat), NEW c \in Nat, NEW st,
           NEW from \in Nat, NEW to \in Nat, Describes(over, st, from, to)
    PROVE  Describes(Append(over, c), st, from, to)
<1> DEFINE more == Append(over, c)
           span == {over[i] : i \in from..to}
           spanned == {more[i] : i \in from..to}
<1>1. /\ 1 <= from /\ from <= to /\ to <= Len(over) /\ Len(over) \in Nat
      /\ Len(more) = Len(over) + 1
      /\ \A i \in 1..Len(over) : more[i] = over[i] /\ over[i] \in Nat
  BY AppendProperties DEF Describes
<1> HIDE DEF more
<1>2. \A i \in from..to : more[i] = over[i] /\ over[i] \in Int
  <2> TAKE i \in from..to
  <2>1. i \in 1..Len(over)
    BY <1>1
  <2> QED
    BY <1>1, <2>1
<1>3. SumFunctionOnSet(more, from..to) = SumFunctionOnSet(over, from..to)
  <2>1. IsFiniteSet(from..to)
    BY FS_Interval
  <2> DEFINE S == from..to
  <2>2. IsFiniteSet(S) /\ \A i \in S : over[i] \in Int /\ more[i] = over[i]
    BY <1>2, <2>1
  <2> HIDE DEF S
  <2>3. SumFunctionOnSet(more, S) = SumFunctionOnSet(over, S)
    BY <2>2, SumSame
  <2> QED
    BY <2>3 DEF S
<1>4. spanned = span
  BY <1>2
<1>5. from \in from..to /\ to \in from..to
  BY <1>1
<1>6. /\ st.n = (to - from) + 1
      /\ st.sum = SumFunctionOnSet(over, from..to)
      /\ {st.max, st.min} \subseteq span
      /\ \A x \in span : st.min <= x /\ x <= st.max
      /\ st.first = over[from] /\ st.last = over[to]
  BY DEF Describes
<1>7. to <= Len(more)
  BY <1>1
<1>8. st.first = more[from] /\ st.last = more[to]
  BY <1>2, <1>5, <1>6
<1>9. /\ {st.max, st.min} \subseteq spanned
      /\ \A x \in spanned : st.min <= x /\ x <= st.max
  BY <1>4, <1>6
<1>10. Describes(more, st, from, to)
  BY <1>1, <1>3, <1>6, <1>7, <1>8, <1>9 DEF Describes
<1> QED
  BY <1>10 DEF more

\* A close more: the statistics of a phase that goes on.
LEMMA DescribesGrows ==
    ASSUME NEW over \in Seq(Nat), NEW c \in Nat, NEW st, NEW from \in Nat,
           Describes(over, st, from, Len(over)),
           NEW more, more.n = st.n + 1, more.sum = st.sum + c,
           more.max = IF c > st.max THEN c ELSE st.max,
           more.min = IF c < st.min THEN c ELSE st.min,
           more.first = st.first, more.last = c
    PROVE  Describes(Append(over, c), more, from, Len(over) + 1)
<1> DEFINE longer == Append(over, c)
           n == Len(over)
           S == from..n
           span == {over[i] : i \in S}
           spanned == {longer[i] : i \in from..(n + 1)}
<1>1. /\ 1 <= from /\ from <= n /\ n \in Nat /\ Len(longer) = n + 1
      /\ \A i \in 1..n : longer[i] = over[i] /\ over[i] \in Nat
      /\ longer[n + 1] = c
  <2>1. 1 <= from /\ from <= n /\ n \in Nat
    BY DEF Describes
  <2>2. Len(longer) = n + 1 /\ longer[n + 1] = c
    BY AppendProperties
  <2>3. \A i \in 1..n : longer[i] = over[i]
    BY AppendProperties
  <2> QED
    BY <2>1, <2>2, <2>3
<1> HIDE DEF longer, n
<1>2. \A i \in S : longer[i] = over[i] /\ over[i] \in Int /\ over[i] \in Nat
  <2> TAKE i \in S
  <2>1. i \in 1..n
    BY <1>1
  <2> QED
    BY <1>1, <2>1
<1>3. IsFiniteSet(S) /\ n + 1 \notin S /\ from..(n + 1) = S \cup {n + 1}
  <2>1. from \in Int /\ n \in Int
    BY <1>1
  <2>2. IsFiniteSet(S)
    BY <2>1, FS_Interval
  <2> QED
    BY <1>1, <2>2
<1>4. from \in S
  BY <1>1
<1>5. /\ st.n = (n - from) + 1
      /\ st.sum = SumFunctionOnSet(over, S)
      /\ {st.max, st.min} \subseteq span
      /\ \A x \in span : st.min <= x /\ x <= st.max
      /\ st.first = over[from]
  BY DEF Describes, n
<1> HIDE DEF S
<1>6. SumFunctionOnSet(longer, S \cup {n + 1}) = SumFunctionOnSet(over, S) + c
  <2>1. longer[n + 1] \in Int
    BY <1>1
  <2>2. \A i \in S : over[i] \in Int /\ longer[i] = over[i]
    BY <1>2
  <2>3. SumFunctionOnSet(longer, S \cup {n + 1})
          = SumFunctionOnSet(over, S) + longer[n + 1]
    <3>1. PICK x : x = n + 1
      OBVIOUS
    <3> DEFINE f == over
    <3>2. /\ IsFiniteSet(S) /\ x \notin S
          /\ \A i \in S : f[i] \in Int /\ longer[i] = f[i]
          /\ longer[x] \in Int
      BY <1>3, <2>1, <2>2, <3>1
    <3> HIDE DEF f, span, spanned
    <3>3. SumFunctionOnSet(longer, S \cup {x})
            = SumFunctionOnSet(f, S) + longer[x]
      BY ONLY <3>2, SumGains
    <3> QED
      BY <3>1, <3>3 DEF f
  <2> QED
    BY <1>1, <2>3
<1>7. spanned = span \cup {c}
  BY <1>1, <1>2, <1>3
<1>8. st.max \in Nat /\ st.min \in Nat /\ span \subseteq Nat
  BY <1>2, <1>5
<1> HIDE DEF span, spanned
<1>9. {more.max, more.min} \subseteq spanned
  BY <1>5, <1>7
<1>10. \A x \in spanned : more.min <= x /\ x <= more.max
  <2> TAKE x \in spanned
  <2>1. CASE x = c
    BY <1>8, <2>1
  <2>2. CASE x \in span
    <3>1. x \in Nat /\ st.min <= x /\ x <= st.max
      BY <1>5, <1>8, <2>2
    <3> QED
      BY <1>8, <3>1
  <2> QED
    BY <1>7, <2>1, <2>2
<1>11. more.first = longer[from] /\ more.last = longer[n + 1]
  BY <1>1, <1>2, <1>4, <1>5
<1>12. more.n = ((n + 1) - from) + 1
  BY <1>1, <1>5
<1>13. 1 <= from /\ from <= n + 1 /\ n + 1 <= Len(longer)
  BY <1>1
<1>14. more.sum = SumFunctionOnSet(longer, from..(n + 1))
  BY <1>3, <1>5, <1>6
<1>15. Describes(longer, more, from, n + 1)
  BY <1>9, <1>10, <1>11, <1>12, <1>13, <1>14 DEF Describes, spanned
<1> QED
  BY <1>15 DEF longer, n

\* The statistics of a phase of one candle.
LEMMA DescribesOne ==
    ASSUME NEW over \in Seq(Nat), NEW c \in Nat,
           NEW st, st.n = 1, st.sum = c, st.max = c, st.min = c,
           st.first = c, st.last = c
    PROVE  Describes(Append(over, c), st, Len(over) + 1, Len(over) + 1)
<1> DEFINE longer == Append(over, c)
           at == Len(over) + 1
<1>1. at \in Nat /\ 1 <= at /\ Len(longer) = at /\ longer[at] = c
  BY AppendProperties
<1> HIDE DEF longer, at
<1>2. at..at = {at}
  BY <1>1
<1>3. SumFunctionOnSet(longer, {at}) = c
  <2>1. IsFiniteSet({}) /\ at \notin {} /\ {} \cup {at} = {at}
    BY FS_EmptySet
  <2>2. \A i \in {} \cup {at} : longer[i] \in Int
    BY <1>1
  <2>3. SumFunctionOnSet(longer, {} \cup {at})
          = SumFunctionOnSet(longer, {}) + longer[at]
    BY <2>1, <2>2, SumAdds
  <2> QED
    BY <1>1, <2>1, <2>3, SumEmpty
<1>4. {longer[i] : i \in at..at} = {c}
  BY <1>1, <1>2
<1>5. (at - at) + 1 = 1
  BY <1>1
<1>6. st.sum = SumFunctionOnSet(longer, at..at)
  BY <1>2, <1>3
<1>7. Describes(longer, st, at, at)
  BY <1>1, <1>4, <1>5, <1>6 DEF Describes
<1> QED
  BY <1>7 DEF longer, at

\* Records in the order of their first candles, all before the candle given.
InOrder(records, before) ==
    \A i \in 1..Len(records) :
        /\ records[i].start < before
        /\ \A j \in 1..Len(records) : i < j => records[i].start < records[j].start

\* The invariant: all the records ever closed are true, in the order of their
\* first candles, before the running phase; the history is its young end.
PhaseBooksInv ==
    /\ PhaseTypeOK
    /\ closes \in Seq(Nat) /\ Len(closes) = candle
    /\ closed \in Seq(PhaseRecord)
    /\ count = 0 => closed = <<>> /\ phaseHistory = <<>>
    /\ count > 0 => extremeCandle \in 1..candle /\ RunningTrue /\ ExtremeTrue
    /\ RecordsTrue(closed)
    /\ generation = Len(closed)
    /\ InOrder(closed, currentStart)
    /\ YoungKept

\* What a candle adds to the closes and to the records.
LEMMA FedStep ==
    ASSUME PhaseBooksInv, NEW close \in Price, NEW smoothing \in Smoothing,
           Step(close, smoothing),
           closes' = Append(closes, lastClose'),
           closed' = IF generation' = generation THEN closed
                     ELSE Append(closed, ClosedRecord(lastClose'))
    PROVE  /\ closes' = Append(closes, close) /\ candle' = candle + 1
           /\ closes' \in Seq(Nat) /\ Len(closes') = candle'
           /\ \A i \in 1..candle : closes'[i] = closes[i] /\ closes[i] \in Nat
           /\ closes'[candle + 1] = close
           /\ Boundary(close, smoothing) =>
                 closed' = Append(closed, ClosedRecord(close))
           /\ ~Boundary(close, smoothing) =>
                 closed' = closed /\ generation' = generation
                 /\ phaseHistory' = phaseHistory
           /\ count' > 0
<1>1. lastClose' = close /\ candle' = candle + 1
  BY DEF Step, Seed, Extend, Boundary, StartStats, Track
<1>2. close \in Nat /\ closes \in Seq(Nat) /\ Len(closes) = candle /\ candle \in Nat
      /\ generation \in Nat /\ count \in Nat
  BY PriceType DEF PhaseBooksInv, PhaseTypeOK
<1>3. closes' = Append(closes, close)
  BY <1>1
<1>4. /\ closes' \in Seq(Nat) /\ Len(closes') = candle + 1
      /\ \A i \in 1..candle : closes'[i] = closes[i]
      /\ closes'[candle + 1] = close
  BY <1>2, <1>3, AppendProperties
<1>5. \A i \in 1..candle : closes[i] \in Nat
  BY <1>2
<1>6. Boundary(close, smoothing) => closed' = Append(closed, ClosedRecord(close))
  <2>1. Boundary(close, smoothing) => generation' # generation
    BY <1>2 DEF Boundary
  <2> QED
    BY <1>1, <2>1
<1>7. ~Boundary(close, smoothing) =>
         closed' = closed /\ generation' = generation
         /\ phaseHistory' = phaseHistory
  BY DEF Step, Seed, Extend
<1>8. count' > 0
  BY <1>2 DEF Step, Seed, Extend, Boundary, StartStats
<1> QED
  BY <1>1, <1>3, <1>4, <1>5, <1>6, <1>7, <1>8

\* A phase goes on with its statistics or begins with those of one candle.
LEMMA RunningStep ==
    ASSUME PhaseBooksInv, NEW close \in Price, NEW smoothing \in Smoothing,
           Step(close, smoothing), closes' = Append(closes, close)
    PROVE  RunningTrue'
<1>1. close \in Nat /\ closes \in Seq(Nat) /\ Len(closes) = candle
  BY PriceType DEF PhaseBooksInv
<1>2. candle' = candle + 1
  BY DEF Step, Seed, Extend, Boundary, StartStats, Track
<1> DEFINE st == RunningStats
<1>3. RunningStats' = [n |-> count', sum |-> closeSum', max |-> high', min |-> low',
                       first |-> openClose', last |-> lastClose']
  BY DEF RunningStats
<1>4. CASE Seed(close, smoothing) \/ Boundary(close, smoothing)
  <2>1. StartStats(close)
    BY <1>4 DEF Seed, Boundary
  <2>2. PICK more : more = RunningStats'
    OBVIOUS
  <2>3. /\ more.n = 1 /\ more.sum = close /\ more.max = close
        /\ more.min = close /\ more.first = close /\ more.last = close
    BY <1>3, <2>1, <2>2 DEF StartStats
  <2>4. Describes(Append(closes, close), more, candle + 1, candle + 1)
    BY <1>1, <2>3, DescribesOne
  <2> QED
    BY <1>2, <2>1, <2>2, <2>4 DEF RunningTrue, StartStats
<1>5. CASE Extend(close, smoothing)
  <2>1. RunningTrue /\ currentStart \in Nat
    BY <1>5 DEF PhaseBooksInv, Extend, PhaseTypeOK
  <2>2. PICK more : more = RunningStats'
    OBVIOUS
  <2>3. PICK old : old = RunningStats
    OBVIOUS
  <2>4. /\ more.n = old.n + 1 /\ more.sum = old.sum + close
        /\ more.max = IF close > old.max THEN close ELSE old.max
        /\ more.min = IF close < old.min THEN close ELSE old.min
        /\ more.first = old.first /\ more.last = close
    BY <1>3, <1>5, <2>2, <2>3 DEF Extend, RunningStats, HigherOf, LowerOf
  <2>5. Describes(closes, old, currentStart, Len(closes))
    BY <1>1, <2>1, <2>3 DEF RunningTrue
  <2>6. Describes(Append(closes, close), more, currentStart, Len(closes) + 1)
    BY <1>1, <2>1, <2>4, <2>5, DescribesGrows
  <2>7. currentStart' = currentStart
    BY <1>5 DEF Extend
  <2> QED
    BY <1>1, <1>2, <2>2, <2>6, <2>7 DEF RunningTrue
<1> QED
  BY <1>4, <1>5 DEF Step

\* The extreme stays or moves to the new close; no close passes it unseen.
LEMMA ExtremeStep ==
    ASSUME PhaseBooksInv, NEW close \in Price, NEW smoothing \in Smoothing,
           Step(close, smoothing), closes' = Append(closes, close)
    PROVE  extremeCandle' \in 1..candle' /\ ExtremeTrue'
<1>1. /\ close \in Nat /\ closes \in Seq(Nat) /\ Len(closes) = candle
      /\ candle \in Nat /\ extreme \in Nat /\ extremeCandle \in Nat
      /\ tracking \in Tracking /\ count \in Nat
  BY PriceType DEF PhaseBooksInv, PhaseTypeOK
<1>2. candle' = candle + 1
  BY DEF Step, Seed, Extend, Boundary, StartStats, Track
<1>3. /\ \A i \in 1..candle : closes'[i] = closes[i] /\ closes[i] \in Nat
      /\ closes'[candle + 1] = close
  BY <1>1, AppendProperties
<1>4. CASE extreme' = close /\ extremeCandle' = candle + 1
  <2>1. (candle + 1)..(candle + 1) = {candle + 1}
    BY <1>1
  <2>2. \A i \in extremeCandle'..candle' : closes'[i] = extreme'
    BY <1>2, <1>3, <1>4, <2>1
  <2>3. \A i \in extremeCandle'..candle' :
           closes'[i] <= extreme' /\ closes'[i] >= extreme'
    <3> TAKE i \in extremeCandle'..candle'
    <3>1. closes'[i] = close
      BY <1>4, <2>2
    <3>2. close <= close /\ close >= close
      BY <1>1
    <3> QED
      BY <1>4, <3>1, <3>2
  <2>4. closes'[extremeCandle'] = extreme' /\ extremeCandle' \in 1..candle'
    BY <1>1, <1>2, <1>3, <1>4
  <2> QED
    BY <2>3, <2>4 DEF ExtremeTrue
<1>5. CASE /\ count > 0 /\ Track(close, smoothing)
           /\ ~(extreme' = close /\ extremeCandle' = candle + 1)
  <2>1. ~Switch(close, smoothing) /\ ~Passes(close)
    BY <1>5 DEF Track, NewExtreme, NewExtremeCandle, TrackExtreme
  <2>2. extreme' = extreme /\ extremeCandle' = extremeCandle /\ tracking' = tracking
    BY <1>5, <2>1 DEF Track, NewExtreme, NewExtremeCandle, TrackExtreme, NewTracking
  <2>3. IF tracking = "Rising" THEN close <= extreme ELSE close >= extreme
    BY <1>1, <2>1 DEF Passes
  <2>4. extremeCandle \in 1..candle /\ ExtremeTrue
    BY <1>5 DEF PhaseBooksInv
  <2>5. extremeCandle' \in 1..candle' /\ extreme' = closes'[extremeCandle']
    <3>1. extremeCandle \in 1..(candle + 1)
      BY <1>1, <2>4
    <3>2. closes'[extremeCandle] = closes[extremeCandle]
      BY <1>3, <2>4
    <3> QED
      BY <1>2, <2>2, <2>4, <3>1, <3>2 DEF ExtremeTrue
  <2>6. ASSUME NEW i \in extremeCandle..(candle + 1)
        PROVE  IF tracking = "Rising" THEN closes'[i] <= extreme
                                      ELSE closes'[i] >= extreme
    <3>1. CASE i = candle + 1
      BY <1>3, <2>3, <3>1
    <3>2. CASE i # candle + 1
      <4>1. i \in extremeCandle..candle /\ i \in 1..candle
        BY <1>1, <2>4, <3>2
      <4>2. closes'[i] = closes[i]
        BY <1>3, <4>1
      <4> QED
        BY <2>4, <4>1, <4>2 DEF ExtremeTrue
    <3> QED
      BY <3>1, <3>2
  <2> QED
    BY <1>2, <2>2, <2>5, <2>6 DEF ExtremeTrue
<1>6. Seed(close, smoothing) => extreme' = close /\ extremeCandle' = candle + 1
  BY DEF Seed
<1>7. Extend(close, smoothing) \/ Boundary(close, smoothing) =>
         count > 0 /\ Track(close, smoothing)
  BY DEF Extend, Boundary
<1> QED
  BY <1>4, <1>5, <1>6, <1>7 DEF Step

\* Every record stays true, and a boundary adds a true one.
LEMMA RecordsStep ==
    ASSUME PhaseBooksInv, NEW close \in Price, NEW smoothing \in Smoothing,
           Step(close, smoothing), closes' = Append(closes, close),
           Boundary(close, smoothing) =>
              closed' = Append(closed, ClosedRecord(close)),
           ~Boundary(close, smoothing) => closed' = closed
    PROVE  closed' \in Seq(PhaseRecord) /\ RecordsTrue(closed)'
<1>1. /\ close \in Nat /\ closes \in Seq(Nat) /\ Len(closes) = candle
      /\ candle \in Nat /\ currentStart \in Nat /\ closed \in Seq(PhaseRecord)
  BY PriceType DEF PhaseBooksInv, PhaseTypeOK
<1>2. ASSUME NEW r \in PhaseRecord, Describes(closes, StatsOf(r), r.start, r.end)
      PROVE  Describes(closes', StatsOf(r), r.start, r.end)
  <2>1. r.start \in Nat /\ r.end \in Nat
    BY DEF PhaseRecord
  <2> QED
    BY <1>1, <1>2, <2>1, DescribesStays
<1>3. \A i \in DOMAIN closed :
         /\ closed[i] \in PhaseRecord
         /\ Describes(closes', StatsOf(closed[i]), closed[i].start, closed[i].end)
  <2> TAKE i \in DOMAIN closed
  <2>1. closed[i] \in PhaseRecord
    BY <1>1
  <2>2. Describes(closes, StatsOf(closed[i]), closed[i].start, closed[i].end)
    BY DEF PhaseBooksInv, RecordsTrue
  <2> QED
    BY <1>2, <2>1, <2>2
<1>4. CASE ~Boundary(close, smoothing)
  <2>1. closed' = closed
    BY <1>4
  <2> QED
    BY <1>1, <1>3, <2>1 DEF RecordsTrue
<1>5. CASE Boundary(close, smoothing)
  <2> DEFINE r == ClosedRecord(close)
  <2>1. r \in PhaseRecord
    BY <1>1, ClosedRecordType DEF PhaseBooksInv
  <2>2. RunningTrue
    BY <1>5 DEF PhaseBooksInv, Boundary
  <2>3. PICK more : more = StatsOf(r)
    OBVIOUS
  <2>4. PICK old : old = RunningStats
    OBVIOUS
  <2>5. /\ more.n = old.n + 1 /\ more.sum = old.sum + close
        /\ more.max = IF close > old.max THEN close ELSE old.max
        /\ more.min = IF close < old.min THEN close ELSE old.min
        /\ more.first = old.first /\ more.last = close
    BY <2>3, <2>4 DEF StatsOf, ClosedRecord, RunningStats, HigherOf, LowerOf
  <2>6. Describes(closes, old, currentStart, Len(closes))
    BY <1>1, <2>2, <2>4 DEF RunningTrue
  <2>7. Describes(Append(closes, close), more, currentStart, Len(closes) + 1)
    BY <1>1, <2>5, <2>6, DescribesGrows
  <2>8. r.start = currentStart /\ r.end = candle + 1
    BY DEF ClosedRecord
  <2>9. Describes(closes', StatsOf(r), r.start, r.end)
    BY <1>1, <2>3, <2>7, <2>8
  <2>10. closed' = Append(closed, r)
    BY <1>5
  <2> HIDE DEF r
  <2>11. /\ closed' \in Seq(PhaseRecord) /\ Len(closed') = Len(closed) + 1
         /\ \A i \in 1..Len(closed) : closed'[i] = closed[i]
         /\ closed'[Len(closed) + 1] = r
    BY <1>1, <2>1, <2>10, AppendProperties
  <2>12. ASSUME NEW i \in 1..(Len(closed) + 1)
         PROVE  Describes(closes', StatsOf(closed'[i]), closed'[i].start,
                          closed'[i].end)
    <3>1. CASE i = Len(closed) + 1
      BY <2>9, <2>11, <3>1
    <3>2. CASE i # Len(closed) + 1
      <4>1. i \in 1..Len(closed) /\ i \in DOMAIN closed
        BY <1>1, <3>2
      <4> QED
        BY <1>3, <2>11, <4>1
    <3> QED
      BY <3>1, <3>2
  <2>13. DOMAIN closed' = 1..(Len(closed) + 1)
    BY <2>11
  <2> QED
    BY <2>11, <2>12, <2>13 DEF RecordsTrue
<1> QED
  BY <1>4, <1>5

\* What trimming leaves of the young end of an ordered sequence, one record
\* longer, is the young end again.
LEMMA YoungEnd ==
    ASSUME NEW all \in Seq(PhaseRecord), NEW kept \in Seq(PhaseRecord),
           NEW now \in Nat, NEW before \in Nat, before <= now,
           InOrder(all, now), Len(kept) <= Len(all),
           \A i \in 1..Len(all) :
              /\ i > Len(all) - Len(kept) => kept[i - (Len(all) - Len(kept))] = all[i]
              /\ i <= Len(all) - Len(kept) =>
                    ~(before - all[i].start <= HistoryMaxAge),
           NEW t, t = TrimFront(kept, now)
    PROVE  /\ t \in Seq(PhaseRecord) /\ Len(t) <= Len(all)
           /\ \A i \in 1..Len(all) :
                 /\ i > Len(all) - Len(t) <=> now - all[i].start <= HistoryMaxAge
                 /\ i > Len(all) - Len(t) => t[i - (Len(all) - Len(t))] = all[i]
<1> DEFINE u == TrimFront(kept, now)
<1>1. now \in Int /\ HistoryMaxAge \in Nat
  BY PhaseAssumption DEF PhaseAssumption
<1>2. /\ u \in Seq(PhaseRecord)
      /\ \E k \in Nat :
            /\ k + Len(u) = Len(kept)
            /\ \A i \in 1..Len(u) : u[i] = kept[i + k]
            /\ \A i \in 1..k : ~(now - kept[i].start <= HistoryMaxAge)
      /\ Len(u) > 0 => now - u[1].start <= HistoryMaxAge
  BY <1>1, TrimFrontIsSuffix
<1>3. t = u
  OBVIOUS
<1> HIDE DEF u
<1>4. PICK k \in Nat :
        /\ k + Len(t) = Len(kept)
        /\ \A i \in 1..Len(t) : t[i] = kept[i + k]
        /\ \A i \in 1..k : ~(now - kept[i].start <= HistoryMaxAge)
  BY <1>2, <1>3
<1>5. t \in Seq(PhaseRecord) /\ (Len(t) > 0 => now - t[1].start <= HistoryMaxAge)
  BY <1>2, <1>3
<1> DEFINE n == Len(all)
           d == n - Len(kept)
           l == Len(t)
<1>6. /\ n \in Nat /\ d \in Nat /\ l \in Nat /\ k \in Nat /\ d + k + l = n
      /\ n - l = d + k
  <2>1. n \in Nat /\ Len(kept) \in Nat /\ l \in Nat /\ Len(kept) <= n
    BY <1>5
  <2> DEFINE m == Len(kept)
  <2>2. m \in Nat /\ m <= n /\ k + l = m /\ d = n - m
    BY <1>4, <2>1
  <2> HIDE DEF n, l, m, d
  <2> QED
    BY <1>4, <2>1, <2>2
<1>7. \A i \in 1..n : all[i].start \in Nat
  <2> TAKE i \in 1..n
  <2>1. all[i] \in PhaseRecord
    OBVIOUS
  <2> QED
    BY <2>1 DEF PhaseRecord
<1>8. \A i \in 1..n : i > d => kept[i - d] = all[i]
  OBVIOUS
<1>9. \A i \in 1..n : i <= d => ~(before - all[i].start <= HistoryMaxAge)
  OBVIOUS
<1>10. \A i \in 1..n : \A j \in 1..n : i < j => all[i].start < all[j].start
  BY DEF InOrder
<1>11. \A i \in 1..Len(t) : t[i] = kept[i + k]
  BY <1>4
<1>12. \A i \in 1..k : ~(now - kept[i].start <= HistoryMaxAge)
  BY <1>4
<1> HIDE DEF n, d, l
<1>13. ASSUME NEW i \in 1..n
       PROVE  /\ i > d + k => t[i - (d + k)] = all[i]
              /\ i > d + k => now - all[i].start <= HistoryMaxAge
              /\ i <= d + k => ~(now - all[i].start <= HistoryMaxAge)
  <2>1. i \in Nat /\ all[i].start \in Nat
    BY <1>7
  <2>2. CASE i <= d
    <3>1. ~(before - all[i].start <= HistoryMaxAge)
      BY <1>9, <2>2
    <3>2. ~(now - all[i].start <= HistoryMaxAge)
      BY <1>1, <2>1, <3>1
    <3> QED
      BY <1>6, <2>1, <2>2, <3>2
  <2>3. CASE d < i /\ i <= d + k
    <3>1. i - d \in 1..k /\ i > d
      BY <1>6, <2>1, <2>3
    <3>2. kept[i - d] = all[i]
      BY <1>8, <3>1
    <3> QED
      BY <1>6, <1>12, <2>1, <2>3, <3>1, <3>2
  <2>4. CASE i > d + k
    <3> DEFINE j == i - (d + k)
               first == (d + k) + 1
    <3>1. j \in 1..l /\ j + k = i - d /\ i > d /\ 1 \in 1..l
      <4>1. j \in Int /\ j >= 1
        BY <1>6, <2>1, <2>4
      <4>2. j <= l
        <5>1. i <= n
          OBVIOUS
        <5> QED
          BY <1>6, <2>1, <5>1
      <4>3. j + k = i - d
        BY <1>6, <2>1
      <4>4. i > d
        BY <1>6, <2>1, <2>4
      <4> HIDE DEF j
      <4> QED
        BY <1>6, <4>1, <4>2, <4>3, <4>4
    <3>2. first \in 1..n /\ first > d /\ first - d = 1 + k /\ first <= i
      BY <1>6, <2>1, <2>4
    <3>3. t[j] = kept[j + k] /\ t[1] = kept[1 + k]
      BY <1>11, <3>1 DEF l
    <3> HIDE DEF j, first
    <3>4. kept[i - d] = all[i] /\ kept[first - d] = all[first]
      BY <1>8, <3>1, <3>2
    <3>5. t[j] = all[i] /\ t[1] = all[first]
      BY <3>1, <3>2, <3>3, <3>4
    <3>6. now - all[first].start <= HistoryMaxAge
      BY <1>5, <1>6, <3>1, <3>5 DEF l
    <3>7. all[first].start <= all[i].start
      <4>1. CASE first = i
        BY <2>1, <4>1
      <4>2. CASE first # i
        <5>1. first < i
          BY <2>1, <3>2, <4>2
        <5>2. all[first].start < all[i].start
          BY <1>10, <3>2, <5>1
        <5> QED
          BY <1>7, <2>1, <3>2, <5>2
      <4> QED
        BY <4>1, <4>2
    <3>8. all[first].start \in Nat
      BY <1>7, <3>2
    <3>9. now - all[i].start <= HistoryMaxAge
      BY <1>1, <2>1, <3>6, <3>7, <3>8
    <3> QED
      BY <1>6, <2>1, <2>4, <3>5, <3>9 DEF j
  <2> QED
    BY <1>6, <2>1, <2>2, <2>3, <2>4
<1>14. l <= n
  BY <1>6
<1>15. \A i \in 1..n :
          /\ i > n - l <=> now - all[i].start <= HistoryMaxAge
          /\ i > n - l => t[i - (n - l)] = all[i]
  <2> TAKE i \in 1..n
  <2>1. i \in Nat /\ d + k \in Nat /\ (i > d + k \/ i <= d + k)
    BY <1>6
  <2> QED
    BY <1>6, <1>13, <2>1
<1> QED
  BY <1>5, <1>14, <1>15 DEF n, l

\* A boundary closes the running phase, the youngest, and trims by its age.
LEMMA YoungStep ==
    ASSUME PhaseBooksInv, NEW close \in Price, NEW smoothing \in Smoothing,
           Step(close, smoothing),
           Boundary(close, smoothing) =>
              closed' = Append(closed, ClosedRecord(close)),
           ~Boundary(close, smoothing) =>
              closed' = closed /\ phaseHistory' = phaseHistory
    PROVE  InOrder(closed, currentStart)' /\ YoungKept'
<1>1. /\ close \in Nat /\ candle \in Nat /\ currentStart \in Nat
      /\ closed \in Seq(PhaseRecord) /\ phaseHistory \in Seq(PhaseRecord)
  BY PriceType DEF PhaseBooksInv, PhaseTypeOK
<1>2. CASE Seed(close, smoothing)
  <2>1. ~Boundary(close, smoothing)
    BY <1>2 DEF Seed, Boundary
  <2>2. closed = <<>> /\ phaseHistory = <<>>
    BY <1>2 DEF Seed, PhaseBooksInv
  <2>3. closed' = <<>> /\ phaseHistory' = <<>> /\ Len(<<>>) = 0 /\ DOMAIN <<>> = {}
    BY <2>1, <2>2
  <2>4. 1..0 = {} /\ 0 - 0 >= 0
    OBVIOUS
  <2>5. InOrder(closed, currentStart)'
    BY <2>3, <2>4 DEF InOrder
  <2>6. YoungKept'
    BY <2>3, <2>4 DEF YoungKept
  <2> QED
    BY <2>5, <2>6
<1>3. CASE Extend(close, smoothing)
  <2>1. ~Boundary(close, smoothing)
    BY <1>3 DEF Extend, Boundary
  <2>2. closed' = closed /\ phaseHistory' = phaseHistory /\ currentStart' = currentStart
    BY <1>3, <2>1 DEF Extend
  <2>3. InOrder(closed, currentStart) /\ YoungKept
    BY DEF PhaseBooksInv
  <2>4. InOrder(closed, currentStart)'
    BY <2>2, <2>3 DEF InOrder
  <2>5. YoungKept'
    BY <2>2, <2>3 DEF YoungKept, Young
  <2> QED
    BY <2>4, <2>5
<1>4. CASE Boundary(close, smoothing)
  <2> DEFINE r == ClosedRecord(close)
             all == Append(closed, r)
             kept == Append(phaseHistory, r)
             now == candle + 1
             n == Len(closed)
             h == Len(phaseHistory)
  <2>1. r \in PhaseRecord /\ r.start = currentStart
    BY <1>1, ClosedRecordType DEF PhaseBooksInv, ClosedRecord
  <2>2. now \in Nat /\ currentStart < now
    <3>1. RunningTrue
      BY <1>4 DEF Boundary, PhaseBooksInv
    <3> QED
      BY <1>1, <3>1 DEF RunningTrue, Describes
  <2>3. closed' = all /\ phaseHistory' = TrimFront(kept, now) /\ currentStart' = now
    BY <1>4 DEF Boundary, StartStats
  <2> HIDE DEF r
  <2>4. /\ all \in Seq(PhaseRecord) /\ Len(all) = n + 1
        /\ \A i \in 1..n : all[i] = closed[i]
        /\ all[n + 1] = r
    BY <1>1, <2>1, AppendProperties
  <2>5. /\ kept \in Seq(PhaseRecord) /\ Len(kept) = h + 1
        /\ \A i \in 1..h : kept[i] = phaseHistory[i]
        /\ kept[h + 1] = r
    BY <1>1, <2>1, AppendProperties
  <2>6. /\ n \in Nat /\ h \in Nat /\ n - h >= 0 /\ DOMAIN closed = 1..n
        /\ \A i \in 1..n : closed[i].start \in Nat
    <3>1. \A i \in 1..n : closed[i] \in PhaseRecord
      BY <1>1
    <3>2. n \in Nat /\ h \in Nat /\ n - h >= 0 /\ DOMAIN closed = 1..n
      BY <1>1 DEF PhaseBooksInv, YoungKept
    <3> QED
      BY <3>1, <3>2 DEF PhaseRecord
  <2>7. \A i \in 1..n :
           /\ i > n - h <=> currentStart - closed[i].start <= HistoryMaxAge
           /\ i > n - h => phaseHistory[i - (n - h)] = closed[i]
    BY <2>6 DEF PhaseBooksInv, YoungKept, Young
  <2>8. \A i \in 1..n :
           /\ closed[i].start < currentStart
           /\ \A j \in 1..n : i < j => closed[i].start < closed[j].start
    BY DEF PhaseBooksInv, InOrder
  <2> HIDE DEF all, kept, now, n, h
  <2>9. InOrder(all, now)
    <3>1. ASSUME NEW i \in 1..(n + 1)
          PROVE  /\ all[i].start < now
                 /\ \A j \in 1..(n + 1) : i < j => all[i].start < all[j].start
      <4>1. CASE i = n + 1
        <5>1. ~(\E j \in 1..(n + 1) : i < j)
          BY <2>6, <4>1
        <5> QED
          BY <2>1, <2>2, <2>4, <4>1, <5>1
      <4>2. CASE i # n + 1
        <5>1. i \in 1..n
          BY <2>6, <4>2
        <5>2. all[i].start = closed[i].start /\ closed[i].start < currentStart
              /\ closed[i].start \in Nat
          BY <2>4, <2>6, <2>8, <5>1
        <5>3. ASSUME NEW j \in 1..(n + 1), i < j
              PROVE  all[i].start < all[j].start
          <6>1. CASE j = n + 1
            BY <2>1, <2>4, <5>2, <6>1
          <6>2. CASE j # n + 1
            <7>1. j \in 1..n
              BY <2>6, <6>2
            <7> QED
              BY <2>4, <2>8, <5>1, <5>2, <5>3, <7>1
          <6> QED
            BY <6>1, <6>2
        <5>4. all[i].start < now
          BY <1>1, <2>2, <5>2
        <5> QED
          BY <5>3, <5>4
      <4> QED
        BY <4>1, <4>2
    <3> QED
      BY <2>4, <3>1 DEF InOrder
  <2>10. Len(kept) <= Len(all) /\ Len(all) - Len(kept) = n - h
    BY <2>4, <2>5, <2>6
  <2>11. ASSUME NEW i \in 1..Len(all)
         PROVE  /\ i > n - h => kept[i - (n - h)] = all[i]
                /\ i <= n - h => ~(currentStart - all[i].start <= HistoryMaxAge)
    <3>1. i \in 1..(n + 1) /\ i \in Nat
      BY <2>4
    <3>2. CASE i = n + 1
      <4>1. i - (n - h) = h + 1 /\ i > n - h /\ ~(i <= n - h)
        BY <2>6, <3>2
      <4> QED
        BY <2>4, <2>5, <3>2, <4>1
    <3>3. CASE i # n + 1
      <4>1. i \in 1..n
        BY <2>6, <3>1, <3>3
      <4>2. i > n - h => i - (n - h) \in 1..h
        BY <2>6, <4>1
      <4>3. ~(i > n - h) <=> i <= n - h
        BY <2>6, <3>1
      <4> QED
        BY <2>4, <2>5, <2>7, <4>1, <4>2, <4>3
    <3> QED
      BY <3>2, <3>3
  <2> DEFINE t == TrimFront(kept, now)
  <2>12. /\ t \in Seq(PhaseRecord) /\ Len(t) <= Len(all)
         /\ \A i \in 1..Len(all) :
               /\ i > Len(all) - Len(t) <=> now - all[i].start <= HistoryMaxAge
               /\ i > Len(all) - Len(t) => t[i - (Len(all) - Len(t))] = all[i]
    <3>1. currentStart <= now /\ t = TrimFront(kept, now)
      BY <1>1, <2>2
    <3> HIDE DEF t
    <3>2. \A i \in 1..Len(all) :
             /\ i > Len(all) - Len(kept) => kept[i - (Len(all) - Len(kept))] = all[i]
             /\ i <= Len(all) - Len(kept) =>
                   ~(currentStart - all[i].start <= HistoryMaxAge)
      BY <2>10, <2>11
    <3>3. PICK before \in Nat : before = currentStart
      BY <1>1
    <3>4. /\ before <= now
          /\ \A i \in 1..Len(all) :
                /\ i > Len(all) - Len(kept) =>
                      kept[i - (Len(all) - Len(kept))] = all[i]
                /\ i <= Len(all) - Len(kept) =>
                      ~(before - all[i].start <= HistoryMaxAge)
      BY <3>1, <3>2, <3>3
    <3>5. /\ all \in Seq(PhaseRecord) /\ kept \in Seq(PhaseRecord) /\ now \in Nat
          /\ InOrder(all, now) /\ Len(kept) <= Len(all)
      BY <2>2, <2>4, <2>5, <2>9, <2>10
    <3> QED
      BY ONLY <3>1, <3>4, <3>5, before \in Nat, YoungEnd
  <2> HIDE DEF t
  <2>13. closed' = all /\ phaseHistory' = t /\ currentStart' = now
    BY <2>3 DEF t
  <2>14. Len(all) - Len(t) >= 0 /\ DOMAIN all = 1..Len(all)
    BY <2>4, <2>12
  <2>15. YoungKept'
    BY <2>12, <2>13, <2>14 DEF YoungKept, Young
  <2> QED
    BY <2>9, <2>13, <2>15 DEF InOrder
<1> QED
  BY <1>2, <1>3, <1>4 DEF Step

LEMMA WindowInvInductive ==
    PhaseBooksInv /\ [WindowNext]_windowVars => PhaseBooksInv'
<1> SUFFICES ASSUME PhaseBooksInv, [WindowNext]_windowVars
             PROVE  PhaseBooksInv'
  OBVIOUS
<1>1. CASE WindowNext
  <2>1. PICK close \in Price, smoothing \in Smoothing : Step(close, smoothing)
    BY <1>1 DEF WindowNext, PhaseNext
  <2>2. /\ closes' = Append(closes, lastClose')
        /\ closed' = IF generation' = generation THEN closed
                     ELSE Append(closed, ClosedRecord(lastClose'))
    BY <1>1 DEF WindowNext
  <2>3. /\ closes' = Append(closes, close) /\ candle' = candle + 1
        /\ closes' \in Seq(Nat) /\ Len(closes') = candle'
        /\ Boundary(close, smoothing) =>
              closed' = Append(closed, ClosedRecord(close))
        /\ ~Boundary(close, smoothing) =>
              closed' = closed /\ generation' = generation
              /\ phaseHistory' = phaseHistory
        /\ count' > 0
    BY <2>1, <2>2, FedStep
  <2>4. PhaseTypeOK'
    BY <2>1, StepType DEF PhaseBooksInv
  <2>5. RunningTrue'
    BY <2>1, <2>3, RunningStep
  <2>6. extremeCandle' \in 1..candle' /\ ExtremeTrue'
    BY <2>1, <2>3, ExtremeStep
  <2>7. closed' \in Seq(PhaseRecord) /\ RecordsTrue(closed)'
    BY <2>1, <2>3, RecordsStep
  <2>8. InOrder(closed, currentStart)' /\ YoungKept'
    BY <2>1, <2>3, YoungStep
  <2>9. generation' = Len(closed')
    <3>1. generation = Len(closed) /\ closed \in Seq(PhaseRecord)
      BY DEF PhaseBooksInv
    <3>2. CASE Boundary(close, smoothing)
      <4>1. generation' = generation + 1
        BY <3>2 DEF Boundary
      <4>2. Len(closed') = Len(closed) + 1
        BY <2>3, <3>1, <3>2
      <4> QED
        BY <3>1, <4>1, <4>2
    <3> QED
      BY <2>3, <3>1, <3>2
  <2>10. count' # 0
    BY <2>3, <2>4 DEF PhaseTypeOK
  <2> QED
    BY <2>3, <2>4, <2>5, <2>6, <2>7, <2>8, <2>9, <2>10 DEF PhaseBooksInv
<1>2. CASE UNCHANGED windowVars
  <2>1. /\ UNCHANGED phaseVars /\ closes' = closes /\ closed' = closed
    BY <1>2 DEF windowVars
  <2>2. /\ UNCHANGED <<tracking, extreme, extremeCandle, currentLabel,
                       currentDirection, currentPhaseLabel, currentStart>>
        /\ UNCHANGED <<closeSum, high, low, lastClose, count, openClose,
                       phaseHistory, generation, candle>>
    BY <2>1 DEF phaseVars, trackerVars, statVars
  <2>3. PhaseTypeOK'
    BY <2>2 DEF PhaseBooksInv, PhaseTypeOK
  <2>4. RunningTrue' = RunningTrue /\ ExtremeTrue' = ExtremeTrue
    BY <2>1, <2>2 DEF RunningTrue, ExtremeTrue, RunningStats
  <2>5. YoungKept' = YoungKept /\ RecordsTrue(closed)' = RecordsTrue(closed)
    BY <2>1, <2>2 DEF YoungKept, Young, RecordsTrue
  <2> QED
    BY <2>1, <2>2, <2>3, <2>4, <2>5 DEF PhaseBooksInv
<1> QED
  BY <1>1, <1>2

\* Over every stream of closes and every smoothing, the statistics, records,
\* extreme and trimmed history of the labeler are what the closes say.
THEOREM HistoryIsTrue == WindowSpec => []HistoryTrue
<1>1. WindowInit => PhaseBooksInv
  <2> SUFFICES ASSUME WindowInit PROVE PhaseBooksInv
    OBVIOUS
  <2>1. PhaseTypeOK
    BY InitType DEF WindowInit
  <2>2. /\ closes = <<>> /\ closed = <<>> /\ phaseHistory = <<>>
        /\ candle = 0 /\ count = 0 /\ generation = 0
    BY DEF WindowInit, PhaseInit
  <2>3. Len(<<>>) = 0 /\ DOMAIN <<>> = {} /\ 1..0 = {} /\ 0 - 0 >= 0
    OBVIOUS
  <2>4. YoungKept /\ RecordsTrue(closed)
    BY <2>2, <2>3 DEF YoungKept, RecordsTrue
  <2>5. InOrder(closed, currentStart)
    BY <2>2, <2>3 DEF InOrder
  <2>6. closes \in Seq(Nat) /\ closed \in Seq(PhaseRecord) /\ ~(count > 0)
    BY <2>2
  <2> QED
    BY <2>1, <2>2, <2>3, <2>4, <2>5, <2>6 DEF PhaseBooksInv
<1>2. PhaseBooksInv => HistoryTrue
  <2> SUFFICES ASSUME PhaseBooksInv PROVE HistoryTrue
    OBVIOUS
  <2> DEFINE n == Len(closed)
             h == Len(phaseHistory)
  <2>1. /\ n \in Nat /\ h \in Nat /\ n - h >= 0 /\ DOMAIN closed = 1..n
        /\ DOMAIN phaseHistory = 1..h
    BY DEF PhaseBooksInv, YoungKept, PhaseTypeOK
  <2>2. \A i \in 1..n : i > n - h => phaseHistory[i - (n - h)] = closed[i]
    BY <2>1 DEF PhaseBooksInv, YoungKept
  <2> HIDE DEF n, h
  <2>3. ASSUME NEW j \in 1..h
        PROVE  \E i \in 1..n : phaseHistory[j] = closed[i]
    <3> DEFINE i == j + (n - h)
    <3>1. i \in 1..n /\ i > n - h /\ i - (n - h) = j
      BY <2>1
    <3> HIDE DEF i
    <3> QED
      BY <2>2, <3>1
  <2>4. RecordsTrue(phaseHistory)
    BY <2>1, <2>3 DEF PhaseBooksInv, RecordsTrue
  <2> QED
    BY <2>4 DEF PhaseBooksInv, HistoryTrue
<1> QED
  BY <1>1, <1>2, WindowInvInductive, PTL DEF WindowSpec

=============================================================================
