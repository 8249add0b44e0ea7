-------------------------------- MODULE Stops --------------------------------
(***************************************************************************)
(* The stop of a position and who moves it (src/src/risk/stop_manager.py,  *)
(* sentiment_stop_handler.py): the trailing update, the news handlers, which*)
(* read the position, the price and the ATR before they write the stop, and*)
(* the widening the economic calendar asks for.                            *)
(*                                                                         *)
(* Prices are integers, HalfATR the unit the stops move by. `Side` is +1 for*)
(* LONG and -1 for SHORT: a stop is better the larger Side * stop.         *)
(***************************************************************************)
EXTENDS Integers

CONSTANTS
    NewsHandlers,       \* NEWS_HIGH_IMPACT events handled at the same time
    Entry,              \* entry_price
    HalfATR,            \* atr * 0.5; the ATR does not change
    StopMultiplier,     \* atr_multiplier, in halves
    MarketPrices        \* what the price may be

ASSUME StopsAssumption ==
    /\ Entry \in Nat /\ {HalfATR, StopMultiplier} \subseteq Nat \ {0}
    /\ MarketPrices \subseteq Nat

VARIABLES
    side,           \* +1 for LONG, -1 for SHORT
    market,         \* the price now
    stop_level,     \* the stop at the broker; the position's current_stop
    is_open,        \* the price has not met it
    handling,       \* each handler: what it has read
    was_widened     \* history: the stop was widened for an event

stopVars == <<side, market, stop_level, is_open, handling, was_widened>>

NotHandling == [at |-> "idle", stop |-> 0, price |-> 0]

\* calculate_initial_stop
InitialStop(s) == Entry - s * HalfATR * StopMultiplier

StopsInit ==
    /\ side \in {1, -1} /\ market = Entry /\ is_open = TRUE
    /\ stop_level = InitialStop(side)
    /\ handling = [h \in NewsHandlers |-> NotHandling]
    /\ was_widened = FALSE

-----------------------------------------------------------------------------
(* StopManager, in the position's own direction: profits and stops grow with*)
(* the price of a LONG and fall with that of a SHORT.                      *)

RiskDistance == side * (Entry - InitialStop(side))

\* update_trailing_stop: the steps beyond one risk distance, from the entry
TrailingStop(price) ==
    Entry + side * HalfATR * ((side * (price - Entry) - RiskDistance) \div HalfATR)
Trails(price, current) ==
    /\ side * (price - Entry) >= RiskDistance
    /\ side * TrailingStop(price) > side * current

\* Mutant: the stop goes where the price says, backward too.
TightenToPrice(price, current) == price - side * HalfATR

\* tighten_stop_on_news
TightenOnNews(price, current) ==
    LET new_stop == price - side * HalfATR IN
    IF side * new_stop < side * current THEN current ELSE new_stop

\* widen_stop_for_event, by one ATR
WidenForEvent(current) == current - side * 2 * HalfATR

-----------------------------------------------------------------------------
\* The market: a price beyond the stop closes the position.
PriceMoves(price) ==
    /\ is_open /\ market' = price
    /\ is_open' = (side * price > side * stop_level)
    /\ UNCHANGED <<side, stop_level, handling, was_widened>>

\* The owner of the position applies its trailing stop.
TrailingUpdate ==
    /\ is_open /\ Trails(market, stop_level)
    /\ stop_level' = TrailingStop(market)
    /\ UNCHANGED <<side, market, is_open, handling, was_widened>>

\* The callback of the economic calendar
EventWidening ==
    /\ is_open /\ side * WidenForEvent(stop_level) >= side * WidenForEvent(InitialStop(side))
    /\ stop_level' = WidenForEvent(stop_level) /\ was_widened' = TRUE
    /\ UNCHANGED <<side, market, is_open, handling>>

\* handle_high_impact_news: the open positions, with their stops
ReadPositions(h) ==
    /\ handling[h].at = "idle" /\ is_open
    /\ handling' = [handling EXCEPT ![h] = [at |-> "price", stop |-> stop_level, price |-> 0]]
    /\ UNCHANGED <<side, market, stop_level, is_open, was_widened>>

\* ... the price and the ATR; without them nothing happens.
ReadPrice(h, available) ==
    /\ handling[h].at = "price"
    /\ handling' = [handling EXCEPT ![h] = IF available
                        THEN [@ EXCEPT !.at = "tighten", !.price = market] ELSE NotHandling]
    /\ UNCHANGED <<side, market, stop_level, is_open, was_widened>>

\* _evaluate_position: news that opposes the position writes the stop computed from
\* what was read. A closed position, or a failing broker, ignores it.
Tighten(h, opposing, applied) ==
    LET new_stop == TightenOnNews(handling[h].price, handling[h].stop) IN
    /\ handling[h].at = "tighten"
    /\ stop_level' = IF opposing /\ applied /\ is_open /\ new_stop # handling[h].stop
                     THEN new_stop ELSE stop_level
    /\ is_open' = (is_open /\ side * market > side * stop_level')
    /\ handling' = [handling EXCEPT ![h] = NotHandling]
    /\ UNCHANGED <<side, market, was_widened>>

StopsNext ==
    \/ \E price \in MarketPrices : PriceMoves(price)
    \/ TrailingUpdate \/ EventWidening
    \/ \E h \in NewsHandlers :
          \/ ReadPositions(h)
          \/ \E b \in BOOLEAN : ReadPrice(h, b)
          \/ \E opposing, applied \in BOOLEAN : Tighten(h, opposing, applied)

StopsSpec == StopsInit /\ [][StopsNext]_stopVars

-----------------------------------------------------------------------------
\* Whatever the handlers had read, whatever the trailing stop did meanwhile, the
\* risk taken at entry is not enlarged but for a scheduled event.
RiskNeverGrows == ~was_widened => side * stop_level >= side * InitialStop(side)

\* Documented, and not so: the stop is only tightened but for an event. A handler
\* writes a stop computed from the one it read, which the trailing stop has passed.
OnlyTightens == [][was_widened' \/ side * stop_level' >= side * stop_level]_stopVars
=============================================================================
