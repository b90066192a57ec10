---------------------------- MODULE IndicatorBank ----------------------------
(***************************************************************************)
(* The indicator bank (wat/encoding/indicator-bank/bank.wat): one tick per   *)
(* candle advances every indicator and the phase labeler, which it passes    *)
(* twice the current average true range as smoothing.                       *)
(*                                                                         *)
(* Windows that hold the same price are one function from capacities to      *)
(* windows: close for the closes (roc-buf, tf-1h-buf, tf-4h-buf,             *)
(* close-buf-48, kama-er-buf, dfa-buf, var-ratio-buf, fractal-buf,           *)
(* price-peak-buf), highs and lows for the range, tf and aroon buffers.      *)
(* Of the candle that tick returns beside the bank, the fields that come by  *)
(* comparisons, sums and quotients are in its reading; those that come by a  *)
(* root, a logarithm or a regression over a window are left out.             *)
(***************************************************************************)
EXTENDS Indicators, PhaseState

CONSTANTS
    Candle,        \* what the stream may deliver
    Period,        \* the period of each indicator
    SmaPeriods,    \* 20, 50, 200 in the code
    CloseWindows,  \* capacities of the windows of closes
    RangeWindows,  \* capacities of the windows of highs and lows
    RocWindow,     \* capacity of roc-buf, 12
    RocPeriods     \* 1, 3, 6, 12

Indicator == {"ema", "bollinger", "keltner", "rsi", "macdFast", "macdSlow",
              "macdSignal", "dmi", "atr", "week", "stochK", "stochD", "cci",
              "mfi", "obv", "volume", "chop", "entropy", "peak", "hour",
              "fourHours", "kama", "aroon"} \cup Ichimoku

ASSUME BankAssumption ==
    /\ \A k \in Candle :
          /\ k.high \in Nat /\ k.low \in Nat /\ k.volume \in Nat
          /\ k.close \in Price /\ k.low <= k.close /\ k.close <= k.high
    /\ Period \in [Indicator -> Nat \ {0}]
    /\ {Period["hour"], Period["fourHours"], Period["kama"]} \subseteq CloseWindows
    /\ Period["aroon"] \in RangeWindows
    /\ SmaPeriods \cup CloseWindows \cup RangeWindows \cup RocPeriods
         \cup {RocWindow} \subseteq Nat \ {0}

VARIABLES
    bank,      \* the record of all indicator states
    reading,   \* the candle the last tick returned
    candles,   \* history: the candles ticked
    atrs       \* history: the values of a ready ATR

bankVars == <<phaseVars, bank, reading, candles, atrs>>

FreshBank ==
    [sma |-> [p \in SmaPeriods |-> FreshSma(p)],
     ema |-> FreshSmoother(Period["ema"]),
     bollinger |-> FreshBollinger(Period["bollinger"]),
     keltner |-> FreshSmoother(Period["keltner"]),
     rsi |-> FreshRsi(Period["rsi"]),
     macd |-> FreshMacd(Period["macdFast"], Period["macdSlow"],
                        Period["macdSignal"]),
     dmi |-> FreshDmi(Period["dmi"]),
     atr |-> FreshAtr(Period["atr"]),
     atrWindow |-> RingBuffer(Period["week"]),
     stoch |-> FreshStoch(Period["stochK"], Period["stochD"]),
     cci |-> FreshCci(Period["cci"]),
     mfi |-> FreshMfi(Period["mfi"]),
     obv |-> FreshObv(Period["obv"]),
     volumeSma |-> FreshSma(Period["volume"]), lastVolume |-> 0,
     rocBuf |-> RingBuffer(RocWindow),
     closes |-> [w \in CloseWindows |-> RingBuffer(w)],
     highs |-> [w \in RangeWindows |-> RingBuffer(w)],
     lows |-> [w \in RangeWindows |-> RingBuffer(w)],
     chopBuf |-> RingBuffer(Period["chop"]), chopAtrSum |-> 0,
     ichimoku |-> FreshIchimoku(Period),
     vwap |-> [cumPv |-> 0, cumVol |-> 0],
     entropyBuf |-> RingBuffer(Period["entropy"]),
     rsiPeak |-> RingBuffer(Period["peak"]),
     pricePeak |-> RingBuffer(Period["peak"]),
     prevTkSpread |-> 0, prevStochKd |-> 0,
     consecutive |-> FreshConsecutive,
     prevClose |-> 0]

\* A window of ATR values is pushed only once the ATR is ready.
PushIfReady(buf, atr) ==
    IF Ready(atr.wilder) THEN Push(buf, atr.wilder.value) ELSE buf

\* The sum over the choppiness window, by peek and subtract.
ChopSum(atr) ==
    IF Ready(atr.wilder)
    THEN bank.chopAtrSum - Evicted(bank.chopBuf) + atr.wilder.value
    ELSE bank.chopAtrSum

\* The return of the candle in thousandths; a previous close of 0 means none.
EntropyReturn(k) ==
    IF bank.prevClose = 0 THEN 0
    ELSE (1000 * (k.close - bank.prevClose)) \div bank.prevClose

Smoothed(atr) == 2 * atr.wilder.value

PushAll(windows, x) == [w \in DOMAIN windows |-> Push(windows[w], x)]

\* The bank after candle k.
NextBank(k) ==
    LET atr == AtrUpdate(bank.atr, k)
        rsi == RsiUpdate(bank.rsi, k.close)
        stoch == StochUpdate(bank.stoch, k)
        ichimoku == IchimokuUpdate(bank.ichimoku, k)
    IN  [sma |-> [p \in SmaPeriods |-> SmaUpdate(bank.sma[p], k.close)],
         ema |-> EmaUpdate(bank.ema, k.close),
         bollinger |-> BollingerUpdate(bank.bollinger, k.close),
         keltner |-> EmaUpdate(bank.keltner, k.close),
         rsi |-> rsi,
         macd |-> MacdUpdate(bank.macd, k.close),
         dmi |-> DmiUpdate(bank.dmi, k),
         atr |-> atr,
         atrWindow |-> PushIfReady(bank.atrWindow, atr),
         stoch |-> stoch,
         cci |-> CciUpdate(bank.cci, k),
         mfi |-> MfiUpdate(bank.mfi, k),
         obv |-> ObvUpdate(bank.obv, k),
         volumeSma |-> SmaUpdate(bank.volumeSma, k.volume),
         lastVolume |-> k.volume,
         rocBuf |-> Push(bank.rocBuf, k.close),
         closes |-> PushAll(bank.closes, k.close),
         highs |-> PushAll(bank.highs, k.high),
         lows |-> PushAll(bank.lows, k.low),
         chopBuf |-> PushIfReady(bank.chopBuf, atr),
         chopAtrSum |-> ChopSum(atr),
         ichimoku |-> ichimoku,
         vwap |-> VwapUpdate(bank.vwap, k),
         entropyBuf |-> Push(bank.entropyBuf, EntropyBin(EntropyReturn(k))),
         rsiPeak |-> Push(bank.rsiPeak, RsiValue(rsi)),
         pricePeak |-> Push(bank.pricePeak, k.close),
         prevTkSpread |-> TkSpread(ichimoku),
         prevStochKd |-> StochK(stoch) - StochD(stoch),
         consecutive |-> ConsecutiveUpdate(bank.consecutive, k.close),
         prevClose |-> k.close]

\* The value of a window once it is full, 50 before.
OnceFull(buf, value) == IF Full(buf) THEN value ELSE 50

\* The candle that goes with the bank b after candle k, and the bank before
\* it.  Its phase fields are the labeler's own variables.
Reading(b, k) ==
    LET atr == b.atr.wilder.value
        closes == b.closes[Period["kama"]]
        highs == b.highs[Period["aroon"]]
        lows == b.lows[Period["aroon"]]
        hour == b.closes[Period["hour"]]
        fourHours == b.closes[Period["fourHours"]]
    IN  [sma |-> [p \in SmaPeriods |-> SmaValue(b.sma[p])],
         tenkan |-> Midpoint(b.ichimoku, "tenkan"),
         kijun |-> Midpoint(b.ichimoku, "kijun"),
         cloudTop |-> CloudTop(b.ichimoku),
         cloudBottom |-> CloudBottom(b.ichimoku),
         keltUpper |-> KeltnerUpper(b.keltner, atr),
         keltLower |-> KeltnerLower(b.keltner, atr),
         keltPos |-> KeltnerPos(b.keltner, atr, k.close),
         rsi |-> RsiValue(b.rsi), macdHist |-> MacdHist(b.macd),
         plusDi |-> Di(b.dmi, b.dmi.plus), minusDi |-> Di(b.dmi, b.dmi.minus),
         adx |-> b.dmi.adx.value,
         stochK |-> StochK(b.stoch), stochD |-> StochD(b.stoch),
         williams |-> WilliamsR(b.stoch, k.close),
         cci |-> CciValue(b.cci), mfi |-> MfiValue(b.mfi),
         obvSlope |-> LinregSlope(b.obv.history.values),
         volumeAccel |-> VolumeAccel(b.volumeSma, b.lastVolume),
         divergence |-> Divergence(b.pricePeak.values, b.rsiPeak.values),
         tkDelta |-> TkSpread(b.ichimoku) - bank.prevTkSpread,
         stochDelta |-> StochK(b.stoch) - StochD(b.stoch) - bank.prevStochKd,
         roc |-> [n \in RocPeriods |-> Roc(b.rocBuf, n)],
         rangePos |-> [w \in RangeWindows |->
                         RangePos(b.highs[w], b.lows[w], k.close)],
         vwap |-> VwapDistance(b.vwap, k.close),
         kamaEr |-> OnceFull(closes, KamaEr(closes.values)),
         aroonUp |-> OnceFull(highs, AroonUp(highs.values)),
         aroonDown |-> OnceFull(lows, AroonDown(lows.values)),
         hourReturn |-> TfReturn(hour), hourBody |-> TfBody(hour),
         fourHoursReturn |-> TfReturn(fourHours),
         fourHoursBody |-> TfBody(fourHours),
         agreement |-> TfAgreement(bank.prevClose, k.close, hour, fourHours),
         up |-> b.consecutive.up, down |-> b.consecutive.down]

Tick(k) ==
    /\ bank' = NextBank(k)
    /\ reading' = Reading(bank', k)
    /\ Step(k.close, Smoothed(bank'.atr))

BankInit ==
    /\ PhaseInit
    /\ bank = FreshBank
    /\ reading = <<>> /\ candles = <<>> /\ atrs = <<>>

BankNext ==
    /\ candle < MaxCandle
    /\ \E k \in Candle : Tick(k) /\ candles' = Append(candles, k)
    /\ atrs' = IF Ready(bank'.atr.wilder)
               THEN Append(atrs, bank'.atr.wilder.value) ELSE atrs

BankSpec == BankInit /\ [][BankNext]_bankVars

-----------------------------------------------------------------------------
(* Properties *)

\* The last n of a sequence.
LastOf(s, n) == SubSeq(s, Positive(Len(s) - n) + 1, Len(s))

Fed(Of(_)) == [i \in DOMAIN candles |-> Of(candles[i])]
CloseOf(k) == k.close
VolumeOf(k) == k.volume
FlowOf(k) == TypicalPrice(k) * k.volume
Square(x) == x * x

\* A window and its running sum hold the last values of what was fed.
IsRolling(buf, sum, fed) ==
    /\ buf.values = LastOf(fed, buf.capacity)
    /\ sum = SumOf(buf.values)

\* Every sum kept by subtracting what a full window is about to drop is the
\* sum of that window, and the window the last values of its source: closes,
\* typical prices, volumes, ready ATRs.  The money flow windows stay aligned:
\* between them each candle's flow stands once.
RollingSumsTrue ==
    /\ \A p \in SmaPeriods :
          IsRolling(bank.sma[p].buffer, bank.sma[p].sum, Fed(CloseOf))
    /\ IsRolling(bank.bollinger.sma.buffer, bank.bollinger.sma.sum, Fed(CloseOf))
    /\ LET dev == bank.bollinger.stddev
       IN  /\ IsRolling(dev.buffer, dev.sum, Fed(CloseOf))
           /\ dev.sumSq = SumOf([i \in DOMAIN dev.buffer.values |->
                                   Square(dev.buffer.values[i])])
    /\ IsRolling(bank.cci.sma.buffer, bank.cci.sma.sum, Fed(TypicalPrice))
    /\ IsRolling(bank.volumeSma.buffer, bank.volumeSma.sum, Fed(VolumeOf))
    /\ IsRolling(bank.chopBuf, bank.chopAtrSum, atrs)
    /\ LET pos == bank.mfi.pos.values
           neg == bank.mfi.neg.values
       IN  /\ \A i \in DOMAIN pos \cup DOMAIN neg : 0 \in {pos[i], neg[i]}
           /\ candles # <<>> =>
                [i \in DOMAIN pos |-> pos[i] + neg[i]] =
                  LastOf(Tail(Fed(FlowOf)), Period["mfi"])

\* The candle's fields are in their documented ranges from the first candle
\* on, warm-ups and gaps included, each computed from windows that hold the
\* candle it is computed for.  %K, stored when the candle was pushed, and
\* Williams %R, read from the windows later, are one number; the directional
\* movements, smoothed apart from the true range, never exceed it together; a
\* candle at the top of a full Aroon window of two or more is its latest high;
\* rises and falls in a row exclude each other; three signs cannot disagree
\* pairwise, so the agreement never goes below minus a third.
ReadOutsInRange ==
    candle > 0 =>
      /\ {reading.stochK, reading.stochD, reading.rsi, reading.mfi,
          reading.kamaEr, reading.aroonUp, reading.aroonDown,
          reading.hourBody, reading.fourHoursBody} \subseteq 0..100
      /\ reading.stochK = reading.williams + 100
      /\ bank.dmi.plus.value + bank.dmi.minus.value <= bank.dmi.tr.value
      /\ reading.plusDi + reading.minusDi <= 100 /\ reading.adx \in 0..100
      /\ \A w \in RangeWindows : reading.rangePos[w] \in 0..100
      /\ LET w == Period["aroon"]
             now == candles[candle]
         IN  Full(bank.highs[w]) /\ w > 1 =>
               /\ now.high = Highest(bank.highs[w]) => reading.aroonUp = 100
               /\ now.low = Lowest(bank.lows[w]) => reading.aroonDown = 100
      /\ reading.agreement \in -1..3
      /\ 0 \in {reading.up, reading.down}

\* The true range of the i-th candle.
RangeOf(i) ==
    IF i = 1 THEN candles[1].high - candles[1].low
             ELSE TrueRange(candles[i], candles[i - 1].close)

WidestRange == Max({RangeOf(i) : i \in DOMAIN candles})

\* The smoothing the bank derives never blinds the labeler: a close that has
\* swung back from the extreme by more than twice the widest true range seen
\* turns the tracker, whatever the average did since, and while the average
\* warms up every swing turns it.
NoSwingMissed ==
    candle > 0 =>
        Abs(lastClose - extreme) <=
          IF Ready(bank.atr.wilder) THEN 2 * WidestRange ELSE 0

=============================================================================
