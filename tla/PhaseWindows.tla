---------------------------- MODULE PhaseWindows ----------------------------
(* The phase labeler with a history of what it was fed and what it closed,  *)
(* to compare its incremental statistics and its trimmed history with.      *)
EXTENDS PhaseState, Functions

VARIABLES
    closes,   \* every close, candle 1 first
    closed    \* every record ever closed

WindowInit == PhaseInit /\ closes = <<>> /\ closed = <<>>

WindowNext ==
    /\ PhaseNext
    /\ closes' = Append(closes, lastClose')
    /\ closed' = IF generation' = generation THEN closed
                 ELSE Append(closed, ClosedRecord(lastClose'))

windowVars == <<phaseVars, closes, closed>>
WindowSpec == WindowInit /\ [][WindowNext]_windowVars

-----------------------------------------------------------------------------

\* The statistics st describe the closes of candles from..to.
Describes(over, st, from, to) ==
    LET span == {over[i] : i \in from..to}
    IN  /\ 1 <= from /\ from <= to /\ to <= Len(over)
        /\ st.n = (to - from) + 1
        /\ st.sum = SumFunctionOnSet(over, from..to)
        /\ {st.max, st.min} \subseteq span
        /\ \A x \in span : st.min <= x /\ x <= st.max
        /\ st.first = over[from] /\ st.last = over[to]

RunningStats == [n |-> count, sum |-> closeSum, max |-> high, min |-> low,
                 first |-> openClose, last |-> lastClose]

StatsOf(r) == [n |-> r.duration, sum |-> r.closeSum, max |-> r.closeMax,
               min |-> r.closeMin, first |-> r.openClose, last |-> r.closeFinal]

\* A record that started at most HistoryMaxAge candles before the last close.
Young(r) == currentStart - r.start <= HistoryMaxAge

\* The running statistics, reset at each boundary, are those of the candles of
\* the running phase.
RunningTrue == Describes(closes, RunningStats, currentStart, candle)

\* The extreme is the close of its candle and no close since has passed it.
ExtremeTrue ==
    /\ extreme = closes[extremeCandle]
    /\ \A i \in extremeCandle..candle :
          IF tracking = "Rising" THEN closes[i] <= extreme
                                 ELSE closes[i] >= extreme

\* A record describes the closes of its own candles, both boundary candles
\* included.
RecordsTrue(records) ==
    \A i \in DOMAIN records :
        Describes(closes, StatsOf(records[i]), records[i].start, records[i].end)

\* The history, trimmed from the front at each boundary, is the young ones of
\* all the records ever closed, in order.
YoungKept ==
    LET dropped == Len(closed) - Len(phaseHistory)
    IN  /\ dropped >= 0
        /\ \A i \in DOMAIN closed :
              /\ i > dropped <=> Young(closed[i])
              /\ i > dropped => phaseHistory[i - dropped] = closed[i]

\* What the labeler keeps by increments is what its whole history would tell.
HistoryTrue ==
    /\ count > 0 => RunningTrue /\ ExtremeTrue
    /\ RecordsTrue(phaseHistory)
    /\ generation = Len(closed)
    /\ YoungKept

=============================================================================
