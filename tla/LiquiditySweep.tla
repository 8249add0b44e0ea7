---------------------------- MODULE LiquiditySweep ----------------------------
(***************************************************************************)
(* The one-minute liquidity sweep of the trading loop                      *)
(* (_analyze_liquidity_sweep_1m): after a close beyond the range of the    *)
(* previous day, a candle of the opposite colour arms an entry, which a    *)
(* later candle triggers by passing it.                                    *)
(*                                                                         *)
(* The analysis runs at every trading cycle, on all the candles closed     *)
(* since it last ran, and from a debug route, which shares its state.  It  *)
(* takes one step per candle here; it is not suspended, so that nothing    *)
(* else happens meanwhile.  Candles are numbered as they close and prices  *)
(* are small integers; one instrument is enough, each has its own state.   *)
(* The buffer keeps three days of minutes, more than an analysis reads.    *)
(***************************************************************************)
EXTENDS Naturals, Sequences, FiniteSets, FiniteSetsExt, SequencesExt

CONSTANTS Shapes,      \* candles that may close: records open, high, low, close
          SweepQuotes,      \* mid prices of the last snapshot
          MinSweepCandles,  \* MIN_CANDLES_FOR_STRATEGY
          MaxSweepCandles,  \* bound: candles
          MaxSweepDays \* bound: days

ASSUME SweepAssumption ==
  /\ {MinSweepCandles, MaxSweepCandles, MaxSweepDays} \subseteq Nat
  /\ Shapes \subseteq [open : Nat, high : Nat, low : Nat, close : Nat]

VARIABLES candles,  \* the closed candles of the buffer
          sweep,    \* _liquidity_sweep_state of the instrument
          unread,  \* the candles the analysis under way has not come to
          analyst,   \* who runs it
          triggers, \* observer: the signals built: direction, candle, and for whom
          ideal     \* observer: the state that each candle leaves if it is analysed as it closes

sweepVars == <<candles, sweep, unread, analyst, triggers, ideal>>

Unset == 0
FreshSweep(day) == [state |-> "WAIT_BREAK", day |-> day, last |-> 0,
                    signal |-> Unset, sl |-> Unset, tp |-> Unset]

SweepInit ==
  /\ candles = <<>> /\ ideal = <<>> /\ sweep = FreshSweep(0)
  /\ unread = {} /\ analyst = "none" /\ triggers = {}

-----------------------------------------------------------------------------
Green(c) == c.close > c.open
Red(c) == c.close < c.open
OfDay(day) == {i \in DOMAIN candles : candles[i].day = day}
Today == candles[Len(candles)].day

\* The last day before the given one that the buffer knows, and its range.
DaysBefore(day) == {d \in {candles[i].day : i \in DOMAIN candles} : d < day}
DailyHigh(day) == Max({candles[i].high : i \in OfDay(Max(DaysBefore(day)))})
DailyLow(day) == Min({candles[i].low : i \in OfDay(Max(DaysBefore(day)))})

\* A close beyond the range: below it a buy is looked for, above it a sale.
Break(st, c) ==
  IF st.state # "WAIT_BREAK" THEN st
  ELSE [st EXCEPT !.state = IF c.close < DailyLow(st.day) THEN "WAIT_BUY_SIGNAL"
                            ELSE IF c.close > DailyHigh(st.day) THEN "WAIT_SELL_SIGNAL" ELSE @]

\* The candle that arms the entry gives its level and its stop; the target is the far side of
\* the range.
Arm(st, c) ==
  IF st.state = "WAIT_BUY_SIGNAL" /\ Green(c)
  THEN [st EXCEPT !.state = "BUY_READY", !.signal = c.high, !.sl = c.low, !.tp = DailyHigh(st.day)]
  ELSE IF st.state = "WAIT_SELL_SIGNAL" /\ Red(c)
  THEN [st EXCEPT !.state = "SELL_READY", !.signal = c.low, !.sl = c.high, !.tp = DailyLow(st.day)]
  ELSE st

Triggered(st, c) ==
  \/ st.state = "BUY_READY" /\ c.high > st.signal
  \/ st.state = "SELL_READY" /\ c.low < st.signal

\* An armed entry is triggered, and all starts again, or disarmed by a candle of the wrong colour.
Resolve(st, c) ==
  IF Triggered(st, c)
  THEN [st EXCEPT !.state = "WAIT_BREAK", !.signal = Unset, !.sl = Unset, !.tp = Unset]
  ELSE IF st.state = "BUY_READY" /\ Red(c) THEN [st EXCEPT !.state = "WAIT_BUY_SIGNAL"]
  ELSE IF st.state = "SELL_READY" /\ Green(c) THEN [st EXCEPT !.state = "WAIT_SELL_SIGNAL"]
  ELSE st

Armed(st, c) == Arm(Break(st, c), c)
After(st, c, i) == [Resolve(Armed(st, c), c) EXCEPT !.last = i]

\* Mutant: a new day keeps what the previous one had armed.
KeepArmed(day) == [sweep EXCEPT !.day = day, !.last = 0]

\* The state an analysis starts from: a fresh one on a new day.
StartOf(day) == IF sweep.day = day THEN sweep ELSE FreshSweep(day)

\* The candles of the day closed since the last analysis.
Pending(st) == {i \in OfDay(st.day) : i > st.last}

\* _build_liquidity_sweep_signal: stop and target lie on their sides of the price.
Buildable(st, price) ==
  IF st.state = "BUY_READY" THEN st.sl < price /\ price < st.tp
  ELSE st.tp < price /\ price < st.sl

\* The analysis begins, for the trading cycle or for the debug route.
Analyze(who) ==
  /\ unread = {}
  /\ Len(candles) >= MinSweepCandles
  /\ DaysBefore(Today) # {}
  /\ sweep' = StartOf(Today)
  /\ unread' = Pending(StartOf(Today))
  /\ analyst' = IF unread' = {} THEN "none" ELSE who
  /\ UNCHANGED <<candles, triggers, ideal>>

\* It goes through the candles in their order; only a trigger by the latest makes a signal.
AnalyzeCandle(i, price) ==
  LET c == candles[i]
      armed == Armed(sweep, c)
  IN
  /\ \A j \in unread : i <= j
  /\ sweep' = After(sweep, c, i)
  /\ unread' = unread \ {i}
  /\ analyst' = IF unread = {i} THEN "none" ELSE analyst
  /\ triggers' = IF i = Len(candles) /\ Triggered(armed, c) /\ Buildable(armed, price)
                 THEN triggers \cup {[direction |-> armed.state, at |-> i, by |-> analyst]}
                 ELSE triggers
  /\ UNCHANGED <<candles, ideal>>

-----------------------------------------------------------------------------
\* The observer's reference: what a new candle makes of the state after the one before it, or of
\* a fresh one on a new day.
IdealBefore(day) ==
  IF candles # <<>> /\ Today = day THEN ideal[Len(candles)] ELSE FreshSweep(day)
IdealAfter(c) ==
  IF DaysBefore(c.day) = {} THEN FreshSweep(c.day)
  ELSE After(IdealBefore(c.day), c, Len(candles) + 1)

\* A candle closes, of the same day or of a later one.
CandleCloses(shape, day) ==
  LET c == [day |-> day, open |-> shape.open, high |-> shape.high, low |-> shape.low,
            close |-> shape.close]
  IN
  /\ unread = {} /\ Len(candles) < MaxSweepCandles
  /\ candles' = Append(candles, c)
  /\ ideal' = [i \in DOMAIN candles' |-> IF i \in DOMAIN candles THEN ideal[i] ELSE IdealAfter(c)]
  /\ UNCHANGED <<sweep, unread, analyst, triggers>>

SweepNext ==
  \/ \E who \in {"loop", "debug"} : Analyze(who)
  \/ \E i \in unread, price \in SweepQuotes : AnalyzeCandle(i, price)
  \/ \E shape \in Shapes, day \in (IF candles = <<>> THEN 1 ELSE Today)..MaxSweepDays :
       CandleCloses(shape, day)

SweepSpec == SweepInit /\ [][SweepNext]_sweepVars

-----------------------------------------------------------------------------
\* A buy is earned: on its own day a candle closed below the range of the previous day, then or
\* later a green one armed the entry, no red one came between, and the candle of the signal is the
\* first to pass the high of the green one.
BuyIsEarned(k) ==
  \E i, j \in OfDay(candles[k].day) :
    /\ i <= j /\ j < k
    /\ candles[i].close < DailyLow(candles[k].day)
    /\ Green(candles[j]) /\ candles[k].high > candles[j].high
    /\ \A m \in (j + 1)..(k - 1) : ~Red(candles[m]) /\ candles[m].high <= candles[j].high

SaleIsEarned(k) ==
  \E i, j \in OfDay(candles[k].day) :
    /\ i <= j /\ j < k
    /\ candles[i].close > DailyHigh(candles[k].day)
    /\ Red(candles[j]) /\ candles[k].low < candles[j].low
    /\ \A m \in (j + 1)..(k - 1) : ~Green(candles[m]) /\ candles[m].low >= candles[j].low

\* Every signal is earned by the candles of its own day, however the cycles cut them into
\* batches and whatever the day before had armed (_analyze_liquidity_sweep_1m).
SignalsAreEarned ==
  \A s \in triggers : IF s.direction = "BUY_READY" THEN BuyIsEarned(s.at) ELSE SaleIsEarned(s.at)

\* Nothing depends on when the analysis runs: its state is that of analysing the candles of the
\* day as they close, each once.
BatchesDoNotMatter ==
  sweep.day # 0 =>
    sweep = IF sweep.last = 0 THEN FreshSweep(sweep.day) ELSE ideal[sweep.last]

\* The signals and the state the next analysis starts from are those of the candles alone,
\* whichever of the loop and the debug route analyses them, and when.
SweepIsExact == SignalsAreEarned /\ BatchesDoNotMatter

\* Not so in the code: a signal built is a signal the loop hears; the debug route takes the
\* candles that trigger it.
LoopHearsAll == \A s \in triggers : s.by = "loop"
=============================================================================
