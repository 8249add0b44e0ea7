----------------------------- MODULE OrderManager -----------------------------
(***************************************************************************)
(* The order manager (src/src/trading/order_manager.py): placement with    *)
(* one retry, closing, partial take profit and trailing stops.             *)
(*                                                                         *)
(* Each order is driven by the coroutine that created it; step[o] is the   *)
(* await that coroutine is suspended in.  Orders are numbered in creation  *)
(* order, which is the iteration order of the dict _orders; deals in the   *)
(* order the broker opens them.  Every deal has an instrument of its own,  *)
(* so a tick concerns one trailing stop.  Market, limit and stop orders    *)
(* differ only in what the broker does with them.                          *)
(***************************************************************************)
EXTENDS Integers, FiniteSets

CONSTANTS
    Sides,          \* directions explored, a subset of {"BUY", "SELL"}
    OrderSize,      \* size of an entry, in the broker's smallest unit
    PartialSize,    \* what partial_take_profit closes of a position of OrderSize
    Entry, Spread,  \* entry price and spread of every deal
    StopDistance,   \* distance of the stop an order is opened with
    Distance,       \* trail distance
    Prices,         \* prices a tick may bring
    MaxRetries,     \* _handle_failure retries while retry_count is below: 1
    OrderFaults,    \* "refused": a call raises; "lost": it raises though done
    MaxOrders,      \* bound: orders created
    MaxDeals        \* bound: deals the broker opens

Orders == 1..MaxOrders
Deals == 1..MaxDeals

ASSUME OrderManagerAssumption ==
    /\ Sides \subseteq {"BUY", "SELL"}
    /\ {OrderSize, PartialSize, StopDistance, Distance, MaxRetries, MaxOrders,
        MaxDeals} \subseteq Nat
    /\ {Entry, Spread} \subseteq Nat /\ Prices \subseteq Nat
    /\ 0 < PartialSize /\ PartialSize < OrderSize
    /\ OrderFaults \subseteq {"refused", "lost"}

VARIABLES
    order,      \* _orders: kind, direction, size, status, deal_id, retry_count
    step,       \* step[o]: the await of the coroutine that owns order o
    subject,    \* subject[o]: the deal_id its caller passed, or 0
    trail,      \* _active_trailing_stops: stop and extreme price per deal
    update,     \* the stop update a tick has in flight, or NoUpdate
    pos,        \* positions at the broker: direction, size, stop
    opened_by,  \* history: the order for which the broker opened a deal
    closed_by,  \* history: orders whose close the broker executed
    armed,      \* history: deals for which a trailing stop was set up
    unsent      \* history: deals whose last trailing update was refused

orderHistory == <<armed, unsent>>

orderVars == <<order, step, subject, trail, update, pos, opened_by, closed_by, orderHistory>>

Kinds == {"entry", "close", "partial"}
Statuses == {"PENDING", "SUBMITTED", "FILLED", "REJECTED", "FAILED", "CLOSED",
             "PARTIALLY_CLOSED"}
Steps == {"unused", "validate", "execute", "position", "close", "retry",
          "breakeven", "done"}

NoUpdate == [deal |-> 0, level |-> 0]
Unused == [kind |-> "entry", direction |-> "BUY", size |-> 0,
           status |-> "PENDING", deal |-> 0, retry_count |-> 0]

OrderTypeOK ==
    /\ order \in [Orders -> [kind : Kinds, direction : {"BUY", "SELL"},
                             size : Nat, status : Statuses,
                             deal : Deals \cup {0}, retry_count : 0..MaxRetries]]
    /\ step \in [Orders -> Steps]
    /\ subject \in [Orders -> Deals \cup {0}]
    /\ trail \in [Deals -> [active : BOOLEAN, stop : Int, extreme : Int]]
    /\ update \in [deal : Deals \cup {0}, level : Int]
    /\ pos \in [Deals -> [direction : {"BUY", "SELL"}, size : Nat, stop : Int]]
    /\ opened_by \in [Deals -> Orders \cup {0}]
    /\ closed_by \subseteq Orders
    /\ armed \subseteq Deals /\ unsent \subseteq Deals

OrderInit ==
    /\ order = [o \in Orders |-> Unused]
    /\ step = [o \in Orders |-> "unused"]
    /\ subject = [o \in Orders |-> 0]
    /\ trail = [d \in Deals |-> [active |-> FALSE, stop |-> 0, extreme |-> 0]]
    /\ update = NoUpdate
    /\ pos = [d \in Deals |-> [direction |-> "BUY", size |-> 0, stop |-> 0]]
    /\ opened_by = [d \in Deals |-> 0]
    /\ closed_by = {}
    /\ armed = {} /\ unsent = {}

Opposite(dir) == IF dir = "BUY" THEN "SELL" ELSE "BUY"

\* a is a tighter stop (a better price) than b for a position in direction dir.
Better(dir, a, b) == IF dir = "BUY" THEN a > b ELSE a < b

InitialStop(dir) ==
    IF dir = "BUY" THEN Entry - StopDistance ELSE Entry + StopDistance

\* The next order id, and the next deal of the broker.
IsNextOrder(o) == step[o] = "unused" /\ \A p \in Orders : p < o => step[p] # "unused"
IsNextDeal(d) == opened_by[d] = 0 /\ \A c \in Deals : c < d => opened_by[c] # 0

Create(o, kind, dir, size, status, d, await) ==
    /\ IsNextOrder(o)
    /\ order' = [order EXCEPT ![o] = [kind |-> kind, direction |-> dir,
                    size |-> size, status |-> status, deal |-> d,
                    retry_count |-> 0]]
    /\ step' = [step EXCEPT ![o] = await]

-----------------------------------------------------------------------------
(* Placement.                                                              *)

\* place_market_order, place_limit_order, place_stop_order
PlaceOrder(o) ==
    /\ \E dir \in Sides : Create(o, "entry", dir, OrderSize, "PENDING", 0, "validate")
    /\ UNCHANGED <<subject, trail, update, pos, opened_by, closed_by, orderHistory>>

\* _validate_order: inactive instrument, size or margin too small, or no
\* market information; OrderValidationError is raised without a retry.
ValidationFails(o) ==
    /\ step[o] = "validate"
    /\ order' = [order EXCEPT ![o].status = "REJECTED"]
    /\ step' = [step EXCEPT ![o] = "done"]
    /\ UNCHANGED <<subject, trail, update, pos, opened_by, closed_by, orderHistory>>

ValidationPasses(o) ==
    /\ step[o] = "validate"
    /\ order' = [order EXCEPT ![o].status = "SUBMITTED"]
    /\ step' = [step EXCEPT ![o] = "execute"]
    /\ UNCHANGED <<subject, trail, update, pos, opened_by, closed_by, orderHistory>>

\* The broker opens a position for order o: place_order of _execute_on_ig.
BrokerOpens(o, d) ==
    /\ IsNextDeal(d)
    /\ pos' = [pos EXCEPT ![d] = [direction |-> order[o].direction,
                                  size |-> order[o].size,
                                  stop |-> InitialStop(order[o].direction)]]
    /\ opened_by' = [opened_by EXCEPT ![d] = o]

\* close_order returned inside partial_take_profit: move the stop next.
AfterClose(o) == IF order[o].kind = "partial" THEN "breakeven" ELSE "done"

\* Mutant: the retry keeps the deal id it already had.
AnsweredKeepsDeal(o) ==
    /\ step[o] \in {"execute", "retry"}
    /\ \E d \in Deals :
         /\ BrokerOpens(o, d)
         /\ order' = [order EXCEPT ![o].status = "FILLED",
                        ![o].deal = IF @ = 0 THEN d ELSE @]
    /\ step' = [step EXCEPT ![o] = AfterClose(o)]
    /\ UNCHANGED <<subject, trail, update, closed_by, orderHistory>>

\* place_order answers, on the first try or on the retry.  The retry of a
\* close is a placement too: it overwrites deal_id and reports FILLED.
PlacementAnswered(o) ==
    /\ step[o] \in {"execute", "retry"}
    /\ \E d \in Deals :
         /\ BrokerOpens(o, d)
         /\ order' = [order EXCEPT ![o].status = "FILLED", ![o].deal = d]
    /\ step' = [step EXCEPT ![o] = AfterClose(o)]
    /\ UNCHANGED <<subject, trail, update, closed_by, orderHistory>>

\* Mutant: the retry is not counted.
FailureUncounted(o) ==
    /\ order' = order
    /\ step' = [step EXCEPT ![o] = "retry"]

\* _handle_failure: retry once through _execute_on_ig, then FAILED.
HandleFailure(o) ==
    IF order[o].retry_count < MaxRetries
      THEN /\ order' = [order EXCEPT ![o].retry_count = @ + 1]
           /\ step' = [step EXCEPT ![o] = "retry"]
      ELSE /\ order' = [order EXCEPT ![o].status = "FAILED"]
           /\ step' = [step EXCEPT ![o] = "done"]

\* A placement raises; "lost" means the broker had opened the position.
PlacementRaises(o) ==
    /\ step[o] \in {"execute", "retry"}
    /\ \/ "refused" \in OrderFaults /\ UNCHANGED <<pos, opened_by>>
       \/ "lost" \in OrderFaults /\ \E d \in Deals : BrokerOpens(o, d)
    /\ HandleFailure(o)
    /\ UNCHANGED <<subject, trail, update, closed_by, orderHistory>>

-----------------------------------------------------------------------------
(* Closing and partial take profit.                                        *)

\* The broker closes up to the requested size of a position it still has.
BrokerReduces(o) ==
    /\ pos[subject[o]].size > 0
    /\ pos' = [pos EXCEPT ![subject[o]].size =
                  IF @ > order[o].size THEN @ - order[o].size ELSE 0]
    /\ closed_by' = closed_by \cup {o}

\* A deal an entry order reports as filled, which a caller may act on.
Reported(d) ==
    \E p \in Orders : /\ order[p].kind = "entry" /\ order[p].deal = d
                      /\ order[p].status \in {"FILLED", "PARTIALLY_CLOSED"}

\* close_order, for the full size of the entry.
CloseOrder(o) ==
    /\ \E d \in Deals :
         /\ Reported(d)
         /\ Create(o, "close", Opposite(pos[d].direction), OrderSize, "SUBMITTED",
                   d, "close")
         /\ subject' = [subject EXCEPT ![o] = d]
    /\ UNCHANGED <<trail, update, pos, opened_by, closed_by, orderHistory>>

\* partial_take_profit with a valid percentage, up to get_position(); its
\* order is only created after the answer.
PartialTakeProfit(o) ==
    /\ \E d \in Deals :
         /\ Reported(d)
         /\ Create(o, "partial", Opposite(pos[d].direction), 0, "PENDING", 0,
                   "position")
         /\ subject' = [subject EXCEPT ![o] = d]
    /\ UNCHANGED <<trail, update, pos, opened_by, closed_by, orderHistory>>

\* get_position() answers: the size to close is computed from the answer and
\* rounded; nothing left, or a size of zero, is an error.
PositionAnswer(o) ==
    LET d == subject[o]
        size == (pos[d].size * PartialSize) \div OrderSize
    IN  /\ step[o] = "position"
        /\ IF size > 0
             THEN /\ order' = [order EXCEPT ![o].size = size,
                                 ![o].status = "SUBMITTED", ![o].deal = d]
                  /\ step' = [step EXCEPT ![o] = "close"]
             ELSE /\ step' = [step EXCEPT ![o] = "done"]
                  /\ UNCHANGED order
        /\ UNCHANGED <<subject, trail, update, pos, opened_by, closed_by, orderHistory>>

\* close_position() answers: CLOSED, and the trailing stop of the deal is
\* removed, whether or not the position is fully closed.
CloseAnswered(o) ==
    /\ step[o] = "close"
    /\ BrokerReduces(o)
    /\ order' = [order EXCEPT ![o].status = "CLOSED"]
    /\ trail' = [trail EXCEPT ![subject[o]].active = FALSE]
    /\ step' = [step EXCEPT ![o] = AfterClose(o)]
    /\ UNCHANGED <<subject, update, opened_by, orderHistory>>

\* close_position() raises: a fault, or the position is gone.  The retry of
\* _handle_failure places an order instead.
CloseRaises(o) ==
    /\ step[o] = "close"
    /\ \/ "refused" \in OrderFaults /\ UNCHANGED <<pos, closed_by>>
       \/ pos[subject[o]].size = 0 /\ UNCHANGED <<pos, closed_by>>
       \/ "lost" \in OrderFaults /\ BrokerReduces(o)
    /\ HandleFailure(o)
    /\ UNCHANGED <<subject, trail, update, opened_by, orderHistory>>

\* The entry price inclusive of spread.
Breakeven(dir) == IF dir = "BUY" THEN Entry - Spread ELSE Entry + Spread

\* Mutant: every order on the deal is marked, whatever its status.
MarkAll(d) ==
    order' = [o \in Orders |-> IF order[o].deal = d
                THEN [order[o] EXCEPT !.status = "PARTIALLY_CLOSED"]
                ELSE order[o]]

\* The first order of the dict that is FILLED on deal d.
MarkPartial(d) ==
    LET filled == {o \in Orders : order[o].deal = d /\ order[o].status = "FILLED"}
        first == CHOOSE o \in filled : \A p \in filled : o <= p
    IN  order' = IF filled = {} THEN order
                 ELSE [order EXCEPT ![first].status = "PARTIALLY_CLOSED"]

\* update_position() to breakeven answers or fails (only logged); a trailing
\* stop that exists by now is reset to breakeven, and the order is marked.
BreakevenAnswer(o) ==
    LET d == subject[o]
        level == Breakeven(pos[d].direction)
    IN  /\ step[o] = "breakeven"
        /\ \/ pos' = [pos EXCEPT ![d].stop = level]
           \/ ("refused" \in OrderFaults \/ pos[d].size = 0) /\ UNCHANGED pos
        /\ trail' = [trail EXCEPT ![d].stop = IF trail[d].active THEN level ELSE @]
        /\ MarkPartial(d)
        /\ step' = [step EXCEPT ![o] = "done"]
        /\ UNCHANGED <<subject, update, opened_by, closed_by, orderHistory>>

-----------------------------------------------------------------------------
(* Trailing stops.                                                         *)

\* setup_trailing_stop, once per deal, with the broker's stop as current_stop.
SetupTrailingStop(d) ==
    /\ Reported(d) /\ pos[d].size > 0 /\ d \notin armed
    /\ \E price \in Prices :
         trail' = [trail EXCEPT ![d] = [active |-> TRUE, stop |-> pos[d].stop,
                                        extreme |-> price]]
    /\ armed' = armed \cup {d}
    /\ UNCHANGED <<order, step, subject, update, pos, opened_by, closed_by, unsent>>

\* Mutant: the stop follows the price both ways.
TrailLevelBothWays(d, price) ==
    LET dir == pos[d].direction
    IN  [extreme |-> price,
         stop |-> IF dir = "BUY" THEN price - Distance ELSE price + Distance]

\* _update_trailing_stops on one configuration: the extreme price so far and
\* the stop, which moves only in the profitable direction.
TrailLevel(d, price) ==
    LET dir == pos[d].direction
        best == IF Better(dir, price, trail[d].extreme) THEN price
                ELSE trail[d].extreme
        level == IF dir = "BUY" THEN best - Distance ELSE best + Distance
    IN  [extreme |-> best,
         stop |-> IF Better(dir, level, trail[d].stop) THEN level
                  ELSE trail[d].stop]

\* Mutant: the tick records the new stop without sending it.
TickWithoutUpdate(d) ==
    /\ trail[d].active /\ update = NoUpdate
    /\ \E price \in Prices :
         LET new == TrailLevel(d, price)
         IN  trail' = [trail EXCEPT ![d] = [active |-> TRUE, stop |-> new.stop,
                                            extreme |-> new.extreme]]
    /\ UNCHANGED <<order, step, subject, update, pos, opened_by, closed_by, orderHistory>>

\* A tick; one that moves the stop suspends in update_position(), and the
\* next tick comes after it.
PriceTick(d) ==
    /\ trail[d].active /\ update = NoUpdate
    /\ \E price \in Prices :
         LET new == TrailLevel(d, price)
         IN  /\ trail' = [trail EXCEPT ![d] = [active |-> TRUE, stop |-> new.stop,
                                               extreme |-> new.extreme]]
             /\ update' = IF new.stop # trail[d].stop
                            THEN [deal |-> d, level |-> new.stop] ELSE NoUpdate
    /\ UNCHANGED <<order, step, subject, pos, opened_by, closed_by, orderHistory>>

\* update_position() of a tick answers, or fails and is only logged.
UpdateAnswer ==
    /\ update # NoUpdate
    /\ \/ /\ pos' = [pos EXCEPT ![update.deal].stop = update.level]
          /\ unsent' = unsent \ {update.deal}
       \/ /\ "refused" \in OrderFaults \/ pos[update.deal].size = 0
          /\ unsent' = unsent \cup {update.deal}
          /\ UNCHANGED pos
    /\ update' = NoUpdate
    /\ UNCHANGED <<order, step, subject, trail, opened_by, closed_by, armed>>

-----------------------------------------------------------------------------
OrderStep(o) ==
    \/ ValidationFails(o) \/ ValidationPasses(o)
    \/ PlacementAnswered(o) \/ PlacementRaises(o)
    \/ PositionAnswer(o) \/ CloseAnswered(o) \/ CloseRaises(o)
    \/ BreakevenAnswer(o)

OrderNext ==
    \/ \E o \in Orders : \/ OrderStep(o)
                         \/ PlaceOrder(o) \/ CloseOrder(o) \/ PartialTakeProfit(o)
    \/ \E d \in Deals : SetupTrailingStop(d) \/ PriceTick(d)
    \/ UpdateAnswer

OrderSpec == OrderInit /\ [][OrderNext]_orderVars

\* Every awaited call is answered or raises, and the event loop resumes the
\* coroutine.
OrderFairSpec == OrderSpec /\ \A o \in Orders : WF_orderVars(OrderStep(o))

-----------------------------------------------------------------------------
\* However often its answers are lost, one order opens at most two positions:
\* the first try and the one retry.
AtMostTwoDeals ==
    \A o \in Orders : Cardinality({d \in Deals : opened_by[d] = o}) <= 2

\* A deal id names one order: the deal an order reports was opened for that
\* order and in its direction, also after lost answers, retries and retried
\* closes of other orders.
DealBelongsToOrder ==
    \A o \in Orders :
        order[o].status \in {"FILLED", "PARTIALLY_CLOSED"} =>
            /\ opened_by[order[o].deal] = o
            /\ pos[order[o].deal].direction = order[o].direction

\* Lost answers cost at most one deal too many, and never the name of the deal
\* that is reported.
DealsAreAccounted == AtMostTwoDeals /\ DealBelongsToOrder

\* REJECTED, FAILED and CLOSED are final: no late answer, retry or partial
\* take profit of another coroutine rewrites them.
TerminalIsFinal ==
    [][\A o \in Orders :
         order[o].status \in {"REJECTED", "FAILED", "CLOSED"} =>
            order'[o].status = order[o].status]_orderVars

\* The recorded trailing stop moves against the position only when a partial
\* take profit resets it to breakeven, whatever prices come in between.
LoosenedOnlyToBreakeven ==
    [][\A d \in Deals :
         /\ trail[d].active /\ trail'[d].active
         /\ Better(pos[d].direction, trail[d].stop, trail'[d].stop)
         => trail'[d].stop = Breakeven(pos[d].direction)]_orderVars

\* What an order or a stop has reached is not undone by a coroutine that was
\* suspended meanwhile.
ProgressIsKept == TerminalIsFinal /\ LoosenedOnlyToBreakeven

\* On an open deal without a partial take profit the broker's stop is the
\* recorded trailing stop whenever no update is in flight, unless the broker
\* refused the last update; the next accepted one restores the agreement.
StopsAgree ==
    \A d \in Deals :
        /\ trail[d].active /\ pos[d].size > 0
        /\ update = NoUpdate /\ d \notin unsent
        /\ \A o \in Orders : order[o].kind = "partial" => subject[o] # d
        => pos[d].stop = trail[d].stop

\* Every order that is started comes to an end: the one retry is the last.
OrdersFinish == \A o \in Orders : (step[o] # "unused") ~> (step[o] = "done")

(* What the documentation says and the code does not do.                   *)

\* close_order: "Close a position (full or partial)": a close order that
\* returns normally has reduced the position.
CloseReducesPosition ==
    \A o \in Orders :
        order[o].kind = "close" /\ order[o].status \in {"CLOSED", "FILLED"} =>
            o \in closed_by

\* _update_trailing_stops: "The stop NEVER moves backward (against the
\* profitable direction)": no update of a tick loosens the broker's stop.
UpdateNeverBackward ==
    [][\A d \in Deals :
         update.deal = d /\ update' = NoUpdate =>
            ~Better(pos[d].direction, pos[d].stop, pos'[d].stop)]_orderVars

\* close_order: "Remove trailing stop if position fully closed".
TrailingUntilClosed ==
    [][\A d \in Deals : trail[d].active /\ ~trail'[d].active =>
            pos'[d].size = 0]_orderVars
=============================================================================
