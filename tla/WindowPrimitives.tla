-------------------------- MODULE WindowPrimitives --------------------------
(***************************************************************************)
(* The streaming state machines every indicator is built from               *)
(* (wat/encoding/indicator-bank/primitives.wat, wat/encoding/atr-window.wat): *)
(* bounded windows, sums kept alongside a window, and the two smoothers with *)
(* a warm-up.  Updates return the new state.                                *)
(*                                                                         *)
(* A price is an integer number of ticks, and a quotient is rounded down to *)
(* a tick where the code divides floats.                                    *)
(***************************************************************************)
EXTENDS Integers, Sequences, FiniteSetsExt

-----------------------------------------------------------------------------
(* RingBuffer, and AtrWindow, which is the same window under another name *)

RingBuffer(capacity) == [values |-> <<>>, capacity |-> capacity]

\* Append, and drop the oldest values beyond the capacity.
Push(buf, x) ==
    LET appended == Append(buf.values, x)
        over == Len(appended) - buf.capacity
    IN  [buf EXCEPT !.values =
           IF over > 0 THEN SubSeq(appended, over + 1, Len(appended))
                       ELSE appended]

Full(buf) == Len(buf.values) >= buf.capacity

\* The value pushed i pushes ago, 0 (the callers' None arm) beyond the oldest.
Get(buf, i) ==
    IF i < Len(buf.values) THEN buf.values[Len(buf.values) - i] ELSE 0

SumOf(s) == SumFunction(s)
Mean(buf) ==
    IF buf.values = <<>> THEN 0 ELSE SumOf(buf.values) \div Len(buf.values)

\* 0 stands for the callers' None arm on an empty window.
Highest(buf) == IF buf.values = <<>> THEN 0 ELSE Max(Range(buf.values))
Lowest(buf) == IF buf.values = <<>> THEN 0 ELSE Min(Range(buf.values))

-----------------------------------------------------------------------------
(* SmaState and RollingStddev: sums kept by peek and subtract *)

\* Variant: the value that will be evicted is looked for one place too far.
EvictedBeyondOldest(buf) ==
    IF Full(buf) THEN Get(buf, Len(buf.values)) ELSE 0

\* What the next push will drop.
Evicted(buf) == IF Full(buf) THEN Get(buf, Len(buf.values) - 1) ELSE 0

FreshSma(period) == [buffer |-> RingBuffer(period), sum |-> 0]
SmaUpdate(sma, x) ==
    [buffer |-> Push(sma.buffer, x),
     sum |-> sma.sum - Evicted(sma.buffer) + x]

\* The mean by the running sum.
SmaValue(sma) ==
    IF sma.buffer.values = <<>> THEN 0
    ELSE sma.sum \div Len(sma.buffer.values)

FreshStddev(period) == [buffer |-> RingBuffer(period), sum |-> 0, sumSq |-> 0]
StddevUpdate(dev, x) ==
    LET evicted == Evicted(dev.buffer)
    IN  [buffer |-> Push(dev.buffer, x),
         sum |-> dev.sum - evicted + x,
         sumSq |-> dev.sumSq - evicted * evicted + x * x]

-----------------------------------------------------------------------------
(* WilderState and EmaState: a mean over the warm-up, then a recurrence *)

FreshSmoother(period) ==
    [period |-> period, value |-> 0, count |-> 0, accum |-> 0]

\* One observation: accumulate until the warm-up ends with the mean of it;
\* from then on the value is the blend given.
Advance(state, x, blend) ==
    LET n == state.count + 1
    IN  [period |-> state.period,
         count |-> n,
         accum |-> IF n <= state.period THEN state.accum + x ELSE state.accum,
         value |-> IF n > state.period THEN blend
                   ELSE IF n = state.period
                        THEN (state.accum + x) \div state.period
                        ELSE state.value]

\* Variant: the old value is not scaled down.
WilderUpdateUnscaled(state, x) ==
    Advance(state, x, x \div state.period + state.value)

\* value' = x/p + value (p-1)/p
WilderUpdate(state, x) ==
    Advance(state, x, (x + state.value * (state.period - 1)) \div state.period)

\* value' = alpha x + (1 - alpha) value, with alpha = 2/(p+1)
EmaUpdate(state, x) ==
    Advance(state, x,
            (2 * x + state.value * (state.period - 1)) \div (state.period + 1))

Ready(state) == state.count >= state.period

=============================================================================
