----------------------------- MODULE CandleBuffer -----------------------------
(***************************************************************************)
(* The candles the strategies read (src/src/trading/candle_buffer.py), built*)
(* from the snapshots the trading loop polls. One instrument; the others are*)
(* independent. A mid price is kept twice as large, so that it is an integer.*)
(***************************************************************************)
EXTENDS Integers, SequencesExt

CONSTANTS
    Period,         \* candle_period_seconds
    MaxCandles,     \* max_candles
    MinCandles,     \* MIN_CANDLES_FOR_STRATEGY
    TickTimes,      \* what the wall clock may say, set back or not
    Prices,         \* what a side of the quote may be
    MaxTicks        \* bound: ticks

ASSUME CandleAssumption ==
    /\ {Period, MaxCandles, MinCandles} \subseteq Nat \ {0}
    /\ TickTimes \subseteq Nat /\ Prices \subseteq Nat

VARIABLES
    closed,         \* _closed[epic]
    open,           \* _open[epic], a sequence of at most one candle
    ticks           \* every tick with a price, oldest first: what _tick_counts counts

candleVars == <<closed, open, ticks>>

NoSide == -1

CandleInit == closed = <<>> /\ open = <<>> /\ ticks = <<>>

-----------------------------------------------------------------------------
\* The mid price, or the side there is
Mid(bid, ask) ==
    CASE bid # NoSide /\ ask # NoSide -> bid + ask
      [] bid # NoSide                 -> 2 * bid
      [] OTHER                        -> 2 * ask

PeriodStart(time) == (time \div Period) * Period

NewCandle(start, price) ==
    [time |-> start, open |-> price, high |-> price, low |-> price, close |-> price,
     tick_count |-> 1]

\* _OpenCandle.update
Updated(candle, price) ==
    [candle EXCEPT !.high = IF price > @ THEN price ELSE @,
                   !.low = IF price < @ THEN price ELSE @,
                   !.close = price, !.tick_count = @ + 1]

\* deque(maxlen=max_candles).append
Kept(candles) ==
    LET kept == IF Len(candles) > MaxCandles THEN MaxCandles ELSE Len(candles)
    IN [k \in 1..kept |-> candles[Len(candles) - kept + k]]

\* Mutant: any other period closes the candle, an earlier one too.
ClosesOnAnyOther(start) == open # <<>> /\ start # open[1].time

\* A tick of a later period closes the open candle.
Closes(start) == open # <<>> /\ start > open[1].time

-----------------------------------------------------------------------------
\* on_tick
OnTick(bid, ask, time) ==
    LET price == Mid(bid, ask)
        start == PeriodStart(time)
    IN
    /\ Len(ticks) < MaxTicks
    /\ bid # NoSide \/ ask # NoSide
    /\ ticks' = Append(ticks, [time |-> time, price |-> price])
    /\ \/ /\ open = <<>>
          /\ open' = <<NewCandle(start, price)>> /\ UNCHANGED closed
       \/ /\ Closes(start)
          /\ closed' = Kept(Append(closed, open[1]))
          /\ open' = <<NewCandle(start, price)>>
       \/ /\ open # <<>> /\ ~Closes(start)
          /\ open' = <<Updated(open[1], price)>> /\ UNCHANGED closed

\* The strategies' view: get_candles, is_ready
GetCandles(include_open) ==
    IF include_open /\ open # <<>> THEN Append(closed, open[1]) ELSE closed
IsReady == Len(closed) >= MinCandles

CandleNext ==
    \E bid, ask \in Prices \cup {NoSide}, time \in TickTimes : OnTick(bid, ask, time)

CandleSpec == CandleInit /\ [][CandleNext]_candleVars

-----------------------------------------------------------------------------
(* The reference: a candle begins with each tick of a period later than every*)
(* tick before it, and ends before the next one.                           *)
Beginnings ==
    {i \in DOMAIN ticks :
        \A j \in 1..(i - 1) : PeriodStart(ticks[j].time) < PeriodStart(ticks[i].time)}

Members(i) == {j \in i..Len(ticks) : \A b \in Beginnings : b <= i \/ j < b}
PricesOf(i) == {ticks[j].price : j \in Members(i)}

CandleOf(i) ==
    [time |-> PeriodStart(ticks[i].time), open |-> ticks[i].price,
     high |-> Max(PricesOf(i)), low |-> Min(PricesOf(i)),
     close |-> ticks[Max(Members(i))].price, tick_count |-> Cardinality(Members(i))]

\* The candles begun after this one, which is as many places from the end.
Later(i) == Cardinality({b \in Beginnings : i < b})

\* The candles a strategy reads are the open one and the last max_candles closed ones of
\* the ticks polled, in strictly increasing time even when the clock is set back: a late
\* tick joins the open candle. The loop reads them closed, and checks is_ready first.
CandlesMatchTicks ==
    LET all == GetCandles(TRUE)
        begun == Cardinality(Beginnings)
    IN
    /\ Len(all) = IF begun > MaxCandles THEN MaxCandles + 1 ELSE begun
    /\ \A i \in Beginnings : Later(i) < Len(all) => all[Len(all) - Later(i)] = CandleOf(i)
    /\ ticks # <<>> => GetCandles(FALSE) = [k \in 1..(Len(all) - 1) |-> all[k]]
    /\ IsReady => begun > MinCandles
=============================================================================
