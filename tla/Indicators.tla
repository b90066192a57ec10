----------------------------- MODULE Indicators -----------------------------
(***************************************************************************)
(* The per-candle state machines of wat/encoding/indicator-bank/*.wat and    *)
(* wat/encoding/atr.wat, as updates from a state and a candle k, a record    *)
(* of high, low, close and volume.                                          *)
(*                                                                         *)
(* A typical price is kept as three times itself and a midpoint as twice    *)
(* itself, so that neither is rounded; ratios are percentages rounded down. *)
(***************************************************************************)
EXTENDS WindowPrimitives

Abs(x) == IF x < 0 THEN -x ELSE x
LeastOf(m, n) == IF m < n THEN m ELSE n
Positive(x) == IF x > 0 THEN x ELSE 0

-----------------------------------------------------------------------------
(* Average true range *)

TrueRange(k, prevClose) ==
    Max({k.high - k.low, Abs(k.high - prevClose), Abs(k.low - prevClose)})

FreshAtr(period) ==
    [wilder |-> FreshSmoother(period), prevClose |-> 0, started |-> FALSE]

\* The first candle has no close before it, and is observed all the same.
AtrUpdate(atr, k) ==
    [wilder |-> WilderUpdate(atr.wilder,
                  IF atr.started THEN TrueRange(k, atr.prevClose)
                                 ELSE k.high - k.low),
     prevClose |-> k.close, started |-> TRUE]

-----------------------------------------------------------------------------
(* Relative strength, stochastic, commodity channel, money flow *)

FreshRsi(period) ==
    [gain |-> FreshSmoother(period), loss |-> FreshSmoother(period),
     prevClose |-> 0, started |-> FALSE]

\* The first candle only sets the previous close.
RsiUpdate(rsi, close) ==
    IF rsi.started
    THEN [rsi EXCEPT
            !.gain = WilderUpdate(@, Positive(close - rsi.prevClose)),
            !.loss = WilderUpdate(@, Positive(rsi.prevClose - close)),
            !.prevClose = close]
    ELSE [rsi EXCEPT !.prevClose = close, !.started = TRUE]

RsiValue(rsi) ==
    IF rsi.loss.value = 0 THEN 100
    ELSE (100 * rsi.gain.value) \div (rsi.gain.value + rsi.loss.value)

FreshStoch(kPeriod, dPeriod) ==
    [highs |-> RingBuffer(kPeriod), lows |-> RingBuffer(kPeriod),
     ks |-> RingBuffer(dPeriod)]

\* %K of a close in the windows of highs and lows.
PercentK(highs, lows, close) ==
    LET range == Highest(highs) - Lowest(lows)
    IN  IF range = 0 THEN 50
        ELSE (100 * (close - Lowest(lows))) \div range

\* Variant: %K is read from the windows before the candle is pushed.
StochUpdateStale(stoch, k) ==
    LET highs == Push(stoch.highs, k.high)
        lows == Push(stoch.lows, k.low)
    IN  [highs |-> highs, lows |-> lows,
         ks |-> IF Full(highs)
                THEN Push(stoch.ks, PercentK(stoch.highs, stoch.lows, k.close))
                ELSE stoch.ks]

\* %K is pushed once the windows are full, this candle in them.
StochUpdate(stoch, k) ==
    LET highs == Push(stoch.highs, k.high)
        lows == Push(stoch.lows, k.low)
    IN  [highs |-> highs, lows |-> lows,
         ks |-> IF Full(highs)
                THEN Push(stoch.ks, PercentK(highs, lows, k.close))
                ELSE stoch.ks]

StochK(stoch) == IF stoch.ks.values = <<>> THEN 50 ELSE Get(stoch.ks, 0)
StochD(stoch) == IF stoch.ks.values = <<>> THEN 50 ELSE Mean(stoch.ks)

\* The distance of the close below the highest high, in the same windows.
WilliamsR(stoch, close) ==
    LET range == Highest(stoch.highs) - Lowest(stoch.lows)
    IN  IF ~Full(stoch.highs) \/ range = 0 THEN -50
        ELSE (-100 * (Highest(stoch.highs) - close)) \div range

TypicalPrice(k) == k.high + k.low + k.close

FreshCci(period) == [tps |-> RingBuffer(period), sma |-> FreshSma(period)]
CciUpdate(cci, k) ==
    [tps |-> Push(cci.tps, TypicalPrice(k)),
     sma |-> SmaUpdate(cci.sma, TypicalPrice(k))]

\* The distance of the latest typical price from the mean over 0.015 times
\* the mean deviation, multiplied out.
CciValue(cci) ==
    LET n == Len(cci.tps.values)
        From(x) == n * x - cci.sma.sum
        deviation == SumOf([i \in 1..n |-> Abs(From(cci.tps.values[i]))])
    IN  IF ~Full(cci.sma.buffer) \/ deviation = 0 THEN 0
        ELSE (1000 * n * From(Get(cci.tps, 0))) \div (15 * deviation)

FreshMfi(period) ==
    [pos |-> RingBuffer(period), neg |-> RingBuffer(period),
     prevTp |-> 0, started |-> FALSE]

\* Each candle but the first pushes on both sides: its money flow on one, a
\* zero on the other; a typical price that does not rise counts as falling.
MfiUpdate(mfi, k) ==
    LET tp == TypicalPrice(k)
        flow == tp * k.volume
    IN  [pos |-> IF mfi.started
                 THEN Push(mfi.pos, IF tp > mfi.prevTp THEN flow ELSE 0)
                 ELSE mfi.pos,
         neg |-> IF mfi.started
                 THEN Push(mfi.neg, IF tp > mfi.prevTp THEN 0 ELSE flow)
                 ELSE mfi.neg,
         prevTp |-> tp, started |-> TRUE]

MfiValue(mfi) ==
    LET pos == SumOf(mfi.pos.values)
        neg == SumOf(mfi.neg.values)
    IN  IF neg = 0 THEN 100 ELSE (100 * pos) \div (pos + neg)

-----------------------------------------------------------------------------
(* Moving average convergence, directional movement *)

FreshMacd(fast, slow, signal) ==
    [fast |-> FreshSmoother(fast), slow |-> FreshSmoother(slow),
     signal |-> FreshSmoother(signal)]

\* The signal line observes the difference once both averages are ready.
MacdUpdate(macd, close) ==
    LET fast == EmaUpdate(macd.fast, close)
        slow == EmaUpdate(macd.slow, close)
    IN  [fast |-> fast, slow |-> slow,
         signal |-> IF Ready(fast) /\ Ready(slow)
                    THEN EmaUpdate(macd.signal, fast.value - slow.value)
                    ELSE macd.signal]

MacdHist(macd) == macd.fast.value - macd.slow.value - macd.signal.value

FreshDmi(period) ==
    [plus |-> FreshSmoother(period), minus |-> FreshSmoother(period),
     tr |-> FreshSmoother(period), adx |-> FreshSmoother(period),
     prev |-> [high |-> 0, low |-> 0, close |-> 0], started |-> FALSE]

\* A move counts when it is the larger of the two and positive.
Directional(move, other) == IF move > other THEN Positive(move) ELSE 0

\* The directional index: the code's +DI and -DI share the divisor, the
\* smoothed true range, which cancels.
Dx(plus, minus) ==
    (100 * Abs(plus.value - minus.value)) \div (plus.value + minus.value)

DmiUpdate(dmi, k) ==
    LET up == k.high - dmi.prev.high
        down == dmi.prev.low - k.low
        plus == WilderUpdate(dmi.plus, Directional(up, down))
        minus == WilderUpdate(dmi.minus, Directional(down, up))
        tr == WilderUpdate(dmi.tr, TrueRange(k, dmi.prev.close))
        fires == Ready(tr) /\ tr.value > 0 /\ plus.value + minus.value > 0
        now == [high |-> k.high, low |-> k.low, close |-> k.close]
    IN  IF dmi.started
        THEN [plus |-> plus, minus |-> minus, tr |-> tr,
              adx |-> IF fires THEN WilderUpdate(dmi.adx, Dx(plus, minus))
                               ELSE dmi.adx,
              prev |-> now, started |-> TRUE]
        ELSE [dmi EXCEPT !.prev = now, !.started = TRUE]

\* +DI or -DI, by the smoothed movement.
Di(dmi, movement) ==
    IF dmi.tr.value = 0 THEN 0 ELSE (100 * movement.value) \div dmi.tr.value

-----------------------------------------------------------------------------
(* Bollinger and Keltner, volume, ichimoku, price action *)

FreshBollinger(period) ==
    [sma |-> FreshSma(period), stddev |-> FreshStddev(period)]
BollingerUpdate(boll, close) ==
    [sma |-> SmaUpdate(boll.sma, close),
     stddev |-> StddevUpdate(boll.stddev, close)]

KeltnerUpper(ema, atr) == ema.value + 2 * atr
KeltnerLower(ema, atr) == ema.value - 2 * atr
KeltnerPos(ema, atr, close) ==
    IF atr = 0 THEN 50
    ELSE (100 * (close - KeltnerLower(ema, atr))) \div (4 * atr)

FreshObv(len) ==
    [obv |-> 0, prevClose |-> 0, history |-> RingBuffer(len), started |-> FALSE]
ObvUpdate(obv, k) ==
    LET total == obv.obv +
                 (IF ~obv.started \/ k.close = obv.prevClose THEN 0
                  ELSE IF k.close > obv.prevClose THEN k.volume ELSE -k.volume)
    IN  [obv |-> total, prevClose |-> k.close,
         history |-> Push(obv.history, total), started |-> TRUE]

\* The least-squares slope of a sequence over its indices, in thousandths:
\* the sums over i of (i - mean)(y - mean) and of (i - mean)^2, twice each.
LinregSlope(ys) ==
    LET n == Len(ys)
    IN  IF n < 2 THEN 0
        ELSE (6000 * SumOf([i \in 1..n |-> (2 * i - n - 1) * ys[i]]))
               \div (n * (n * n - 1))

\* The last volume over its average, in percent.
VolumeAccel(sma, volume) ==
    IF SmaValue(sma) = 0 THEN 100
    ELSE (100 * Len(sma.buffer.values) * volume) \div sma.sum

\* How far the close is from the volume weighted price, in thousandths.
VwapDistance(vwap, close) ==
    IF vwap.cumVol = 0 \/ close = 0 THEN 0
    ELSE (1000 * (close * vwap.cumVol - vwap.cumPv)) \div (close * vwap.cumVol)

VwapUpdate(vwap, k) ==
    [cumPv |-> vwap.cumPv + k.close * k.volume,
     cumVol |-> vwap.cumVol + k.volume]

Ichimoku == {"tenkan", "kijun", "senkou"}

FreshIchimoku(periods) ==
    [highs |-> [w \in Ichimoku |-> RingBuffer(periods[w])],
     lows |-> [w \in Ichimoku |-> RingBuffer(periods[w])],
     prevTenkan |-> 0, prevKijun |-> 0]

Midpoint(ichi, w) == Highest(ichi.highs[w]) + Lowest(ichi.lows[w])
TkSpread(ichi) == Midpoint(ichi, "tenkan") - Midpoint(ichi, "kijun")
\* Four times each of the cloud's two lines: the mean of tenkan and kijun,
\* and the midpoint of the longest window.
CloudLines(ichi) ==
    {Midpoint(ichi, "tenkan") + Midpoint(ichi, "kijun"),
     2 * Midpoint(ichi, "senkou")}
CloudTop(ichi) == Max(CloudLines(ichi))
CloudBottom(ichi) == Min(CloudLines(ichi))

\* The lines before this candle become the previous ones.
IchimokuUpdate(ichi, k) ==
    [highs |-> [w \in Ichimoku |-> Push(ichi.highs[w], k.high)],
     lows |-> [w \in Ichimoku |-> Push(ichi.lows[w], k.low)],
     prevTenkan |-> Midpoint(ichi, "tenkan"),
     prevKijun |-> Midpoint(ichi, "kijun")]

FreshConsecutive == [up |-> 0, down |-> 0, prevClose |-> 0, started |-> FALSE]

\* A rise counts up and resets down, a fall the reverse; an equal close
\* leaves both.
ConsecutiveUpdate(run, close) ==
    LET rise == run.started /\ close > run.prevClose
        fall == run.started /\ close < run.prevClose
    IN  [up |-> IF rise THEN run.up + 1 ELSE IF fall THEN 0 ELSE run.up,
         down |-> IF fall THEN run.down + 1 ELSE IF rise THEN 0 ELSE run.down,
         prevClose |-> close, started |-> TRUE]

-----------------------------------------------------------------------------
(* Read-outs *)

\* The change over n candles in thousandths, 0 while the window is too short.
Roc(buf, n) ==
    IF Len(buf.values) < n + 1 \/ Get(buf, n) = 0 THEN 0
    ELSE (1000 * (Get(buf, 0) - Get(buf, n))) \div Get(buf, n)

\* Where the close lies between the lowest low and the highest high.
RangePos(highs, lows, close) ==
    LET range == Highest(highs) - Lowest(lows)
    IN  IF range = 0 THEN 50 ELSE (100 * (close - Lowest(lows))) \div range

\* The change over a whole window of closes, and the return, which divides
\* it by the oldest.
TfChange(buf) ==
    IF Len(buf.values) < 2 THEN 0
    ELSE Get(buf, 0) - Get(buf, Len(buf.values) - 1)
TfReturn(buf) ==
    LET oldest == Get(buf, Len(buf.values) - 1)
    IN  IF oldest = 0 THEN 0 ELSE (1000 * TfChange(buf)) \div oldest

\* The body of the candle a window of closes amounts to, over its range.
TfBody(buf) ==
    LET range == Highest(buf) - Lowest(buf)
    IN  IF Len(buf.values) < 2 \/ range = 0 THEN 0
        ELSE (100 * Abs(TfChange(buf))) \div range

Signum(x) == IF x > 0 THEN 1 ELSE IF x < 0 THEN -1 ELSE 0

\* Three times the mean of the products of the three signs of change: the
\* candle's, the hour's, the four hours'.
TfAgreement(prevClose, close, hour, fourHours) ==
    LET s5 == IF prevClose = 0 THEN 0 ELSE Signum(close - prevClose)
        s1 == Signum(TfChange(hour))
        s4 == Signum(TfChange(fourHours))
    IN  s5 * s1 + s5 * s4 + s1 * s4

\* The net way over the way walked, in percent.
KamaEr(closes) ==
    LET n == Len(closes)
        walked == SumOf([i \in 1..(n - 1) |-> Abs(closes[i + 1] - closes[i])])
    IN  IF n < 2 THEN 50 ELSE IF walked = 0 THEN 100
        ELSE (100 * Abs(closes[n] - closes[1])) \div walked

\* How late in the window a value last stood, in percent.
Lateness(vals, x) ==
    (100 * (Max({i \in DOMAIN vals : vals[i] = x}) - 1))
      \div Max({Len(vals) - 1, 1})
AroonUp(vals) == IF vals = <<>> THEN 50 ELSE Lateness(vals, Max(Range(vals)))
AroonDown(vals) == IF vals = <<>> THEN 50 ELSE Lateness(vals, Min(Range(vals)))

\* Bull, from the older to the newer half of the windows: the price makes a lower low and the RSI a higher one.  Bear: the
\* price makes a higher high and the RSI a lower one.
Divergence(prices, rsis) ==
    LET n == LeastOf(Len(prices), Len(rsis))
        Move(s, Extreme(_)) ==
            Extreme(Range(SubSeq(s, n \div 2 + 1, n))) -
              Extreme(Range(SubSeq(s, 1, n \div 2)))
    IN  IF n < 5 THEN [bull |-> 0, bear |-> 0]
        ELSE [bull |-> IF Move(prices, Min) < 0 /\ Move(rsis, Min) > 0
                       THEN Abs(Move(prices, Min) - Move(rsis, Min)) ELSE 0,
              bear |-> IF Move(prices, Max) > 0 /\ Move(rsis, Max) < 0
                       THEN Abs(Move(prices, Max) - Move(rsis, Max)) ELSE 0]

\* A return, in thousandths, as one of five bins.
EntropyBin(return) ==
    IF return < -5 THEN -2 ELSE IF return < -1 THEN -1
    ELSE IF return < 1 THEN 0 ELSE IF return < 5 THEN 1 ELSE 2

=============================================================================
