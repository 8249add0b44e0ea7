---------------------------- MODULE Orders_proofs ----------------------------
(***************************************************************************)
(* Theorems about orders on their two ways to the broker: the order        *)
(* manager, and place_order of the client with the guarded position that   *)
(* comes of it.  They hold for every number of orders, deals and faults.   *)
(***************************************************************************)
EXTENDS OrderManager, GuardedPosition, FiniteSetTheorems, WellFoundedInduction, TLAPS

-----------------------------------------------------------------------------
(* The order manager: types.                                               *)

\* The first order of the dict among some orders: there is one.
LEMMA FirstOrder ==
    ASSUME NEW S, S \subseteq Orders, S # {}
    PROVE  (CHOOSE o \in S : \A p \in S : o <= p) \in S
<1>1. S \subseteq Nat
  BY OrderManagerAssumption DEF Orders
<1>2. PICK x \in S : \A y \in S : ~(<<y, x>> \in OpToRel(<, Nat))
  BY <1>1, NatLessThanWellFounded, WFMin
<1>3. \A y \in S : ~(y < x)
  BY <1>1, <1>2 DEF OpToRel
<1>4. \A y \in S : x <= y
  BY <1>1, <1>3
<1> QED
  BY <1>4

\* MarkPartial rewrites one FILLED order of the deal, or none.
LEMMA MarkPartialKinds ==
    ASSUME NEW d, MarkPartial(d)
    PROVE  \/ order' = order
           \/ \E o \in Orders : /\ order[o].status = "FILLED"
                                /\ order' = [order EXCEPT ![o].status = "PARTIALLY_CLOSED"]
<1> DEFINE filled == {o \in Orders : order[o].deal = d /\ order[o].status = "FILLED"}
           first == CHOOSE o \in filled : \A p \in filled : o <= p
<1>1. order' = IF filled = {} THEN order
               ELSE [order EXCEPT ![first].status = "PARTIALLY_CLOSED"]
  BY DEF MarkPartial
<1>2. filled # {} => first \in filled
  BY FirstOrder
<1> QED
  BY <1>1, <1>2

\* Numbers, and the deals a caller may act on.
LEMMA OrderBasics ==
    ASSUME OrderTypeOK
    PROVE  /\ \A dir : InitialStop(dir) \in Int /\ Breakeven(dir) \in Int
           /\ \A dir : Opposite(dir) \in {"BUY", "SELL"}
           /\ \A d \in Deals, price \in Prices :
                TrailLevel(d, price).stop \in Int /\ TrailLevel(d, price).extreme \in Int
           /\ 0 \notin Deals /\ 0 \notin Orders
<1>1. {Entry, Spread, StopDistance, Distance} \subseteq Int /\ Prices \subseteq Int
  BY OrderManagerAssumption
<1>2. \A dir : InitialStop(dir) \in Int /\ Breakeven(dir) \in Int
  BY <1>1 DEF InitialStop, Breakeven
<1>3. \A dir : Opposite(dir) \in {"BUY", "SELL"}
  BY DEF Opposite
<1>4. ASSUME NEW d \in Deals, NEW price \in Prices
      PROVE  TrailLevel(d, price).stop \in Int /\ TrailLevel(d, price).extreme \in Int
  BY <1>1 DEF TrailLevel, OrderTypeOK
<1> QED
  BY <1>2, <1>3, <1>4, OrderManagerAssumption DEF Deals, Orders

\* What the step of an order says about it: nobody but the owner's coroutine, and a
\* partial take profit that finds it FILLED, touches an order.
OrderControl ==
    \A o \in Orders :
        /\ order[o].kind # "entry" => subject[o] \in Deals
        /\ step[o] \in {"position", "close"} => order[o].kind # "entry"
        /\ step[o] = "breakeven" => order[o].kind = "partial"
        /\ step[o] = "unused" => order[o] = Unused
        /\ step[o] \in {"validate", "position"} => order[o].status = "PENDING"
        /\ step[o] \in {"execute", "close", "retry"} => order[o].status = "SUBMITTED"

OrderTypes ==
    /\ OrderTypeOK /\ OrderControl
    /\ update # NoUpdate => update.deal \in Deals

OrderRecords == [kind : Kinds, direction : {"BUY", "SELL"}, size : Nat, status : Statuses,
                 deal : Deals \cup {0}, retry_count : 0..MaxRetries]

\* One order goes on, the others stay as they are.
LEMMA OneOrderControl ==
    ASSUME OrderTypes, NEW o \in Orders, NEW new \in OrderRecords, NEW s \in Steps,
           order' = [order EXCEPT ![o] = new], step' = [step EXCEPT ![o] = s],
           \A p \in Orders \ {o} : subject'[p] = subject[p],
           new.kind # "entry" => subject'[o] \in Deals,
           s \in {"position", "close"} => new.kind # "entry",
           s = "breakeven" => new.kind = "partial",
           s # "unused",
           s \in {"validate", "position"} => new.status = "PENDING",
           s \in {"execute", "close", "retry"} => new.status = "SUBMITTED"
    PROVE  /\ OrderControl'
           /\ order' \in [Orders -> OrderRecords] /\ step' \in [Orders -> Steps]
<1>1. order \in [Orders -> OrderRecords] /\ step \in [Orders -> Steps]
  BY DEF OrderTypes, OrderTypeOK, OrderRecords
<1>2. /\ \A p \in Orders : order'[p] = IF p = o THEN new ELSE order[p]
      /\ \A p \in Orders : step'[p] = IF p = o THEN s ELSE step[p]
  BY <1>1
<1>3. OrderControl'
  BY <1>2 DEF OrderTypes, OrderControl
<1> QED
  BY <1>1, <1>3

\* Every step of the order manager or of the broker keeps the types and the control facts.
LEMMA OrderNextTypes == OrderTypes /\ [OrderNext]_orderVars => OrderTypes'
<1> SUFFICES ASSUME OrderTypes, [OrderNext]_orderVars PROVE OrderTypes'
  OBVIOUS
<1> USE DEF orderHistory
<1>0. /\ {"REJECTED", "SUBMITTED", "FILLED", "CLOSED", "PENDING", "PARTIALLY_CLOSED", "FAILED"} \subseteq Statuses
      /\ {"done", "execute", "close", "breakeven", "validate", "position", "retry"} \subseteq Steps
      /\ {"entry", "close", "partial"} = Kinds
      /\ OrderSize \in Nat /\ Sides \subseteq {"BUY", "SELL"} /\ MaxRetries \in Nat
      /\ 0 \in 0..MaxRetries
      /\ order \in [Orders -> OrderRecords] /\ step \in [Orders -> Steps]
      /\ OrderTypeOK /\ OrderControl
  BY OrderManagerAssumption DEF Statuses, Steps, Kinds, OrderTypes, OrderTypeOK, OrderRecords
\* What is left to show when the orders are known to be well-formed.
<1>a. ASSUME OrderControl', order' \in [Orders -> OrderRecords], step' \in [Orders -> Steps],
             subject' \in [Orders -> Deals \cup {0}],
             trail' \in [Deals -> [active : BOOLEAN, stop : Int, extreme : Int]],
             update' \in [deal : Deals \cup {0}, level : Int],
             update' # NoUpdate => update'.deal \in Deals,
             pos' \in [Deals -> [direction : {"BUY", "SELL"}, size : Nat, stop : Int]],
             opened_by' \in [Deals -> Orders \cup {0}],
             closed_by' \subseteq Orders, armed' \subseteq Deals, unsent' \subseteq Deals
      PROVE  OrderTypes'
  BY <1>a DEF OrderTypes, OrderTypeOK, OrderRecords
<1>b. /\ subject \in [Orders -> Deals \cup {0}]
      /\ trail \in [Deals -> [active : BOOLEAN, stop : Int, extreme : Int]]
      /\ update \in [deal : Deals \cup {0}, level : Int]
      /\ update # NoUpdate => update.deal \in Deals
      /\ pos \in [Deals -> [direction : {"BUY", "SELL"}, size : Nat, stop : Int]]
      /\ opened_by \in [Deals -> Orders \cup {0}]
      /\ closed_by \subseteq Orders /\ armed \subseteq Deals /\ unsent \subseteq Deals
  BY <1>0 DEF OrderTypes, OrderTypeOK
<1>c. ASSUME NEW o \in Orders, HandleFailure(o), step[o] \in {"execute", "retry", "close"},
             UNCHANGED subject
      PROVE  OrderControl' /\ order' \in [Orders -> OrderRecords] /\ step' \in [Orders -> Steps]
  <2>1. CASE order[o].retry_count < MaxRetries
    <3> DEFINE new == [order[o] EXCEPT !.retry_count = @ + 1]
    <3>1. order[o].retry_count + 1 \in 0..MaxRetries
      BY <1>0, <2>1 DEF OrderRecords
    <3>2. /\ new \in OrderRecords /\ new.kind = order[o].kind /\ new.status = order[o].status
          /\ order' = [order EXCEPT ![o] = new] /\ step' = [step EXCEPT ![o] = "retry"]
      BY <1>0, <1>c, <2>1, <3>1 DEF HandleFailure, OrderRecords
    <3> HIDE DEF new
    <3>3. order[o].status = "SUBMITTED" /\ (new.kind # "entry" => subject'[o] \in Deals)
      BY <1>0, <1>c, <3>2 DEF OrderControl
    <3> QED
      BY <1>0, <1>c, <3>2, <3>3, OneOrderControl
  <2>2. CASE ~(order[o].retry_count < MaxRetries)
    <3> DEFINE new == [order[o] EXCEPT !.status = "FAILED"]
    <3>1. /\ new \in OrderRecords /\ new.kind = order[o].kind
          /\ order' = [order EXCEPT ![o] = new] /\ step' = [step EXCEPT ![o] = "done"]
      BY <1>0, <1>c, <2>2 DEF HandleFailure, OrderRecords
    <3> HIDE DEF new
    <3>2. new.kind # "entry" => subject'[o] \in Deals
      BY <1>0, <1>c, <3>1 DEF OrderControl
    <3> QED
      BY <1>0, <1>c, <3>1, <3>2, OneOrderControl
  <2> QED
    BY <2>1, <2>2
<1>d. ASSUME NEW o \in Orders, NEW kind \in Kinds, NEW dir \in {"BUY", "SELL"},
             NEW size \in Nat, NEW status \in Statuses, NEW d \in Deals \cup {0},
             NEW await \in Steps, Create(o, kind, dir, size, status, d, await),
             \A p \in Orders \ {o} : subject'[p] = subject[p],
             kind # "entry" => subject'[o] \in Deals,
             await \in {"position", "close"} => kind # "entry",
             await \notin {"breakeven", "unused"},
             await \in {"validate", "position"} => status = "PENDING",
             await \in {"execute", "close", "retry"} => status = "SUBMITTED"
      PROVE  OrderControl' /\ order' \in [Orders -> OrderRecords] /\ step' \in [Orders -> Steps]
  <2> DEFINE new == [kind |-> kind, direction |-> dir, size |-> size, status |-> status,
                     deal |-> d, retry_count |-> 0]
  <2>1. /\ new \in OrderRecords /\ new.kind = kind /\ new.status = status
        /\ order' = [order EXCEPT ![o] = new] /\ step' = [step EXCEPT ![o] = await]
    BY <1>0, <1>d DEF Create, OrderRecords
  <2> HIDE DEF new
  <2> QED
    BY <1>0, <1>d, <2>1, OneOrderControl
\* The owner's coroutine goes on: its order takes a status, and perhaps a deal and a size.
<1>e. ASSUME NEW o \in Orders, NEW new \in OrderRecords, NEW s \in Steps,
             order' = [order EXCEPT ![o] = new], step' = [step EXCEPT ![o] = s],
             new.kind = order[o].kind, UNCHANGED subject,
             s \in {"position", "close"} => new.kind # "entry",
             s = "breakeven" => new.kind = "partial",
             s # "unused",
             s \in {"validate", "position"} => new.status = "PENDING",
             s \in {"execute", "close", "retry"} => new.status = "SUBMITTED"
      PROVE  OrderControl' /\ order' \in [Orders -> OrderRecords] /\ step' \in [Orders -> Steps]
  <2>1. new.kind # "entry" => subject'[o] \in Deals
    BY <1>0, <1>e DEF OrderControl
  <2> QED
    BY <1>0, <1>e, <2>1, OneOrderControl
<1>f. ASSUME NEW o \in Orders, order[o].kind = "partial" \/ AfterClose(o) = "done"
      PROVE  AfterClose(o) \in {"done", "breakeven"} /\ (AfterClose(o) = "breakeven" => order[o].kind = "partial")
  BY DEF AfterClose
<1>g. ASSUME NEW o \in Orders, NEW st \in Statuses
      PROVE  [order[o] EXCEPT !.status = st] \in OrderRecords
  BY <1>0 DEF OrderRecords
<1>h. ASSUME NEW o \in Orders, NEW d \in Deals, BrokerOpens(o, d)
      PROVE  /\ pos' \in [Deals -> [direction : {"BUY", "SELL"}, size : Nat, stop : Int]]
             /\ opened_by' \in [Deals -> Orders \cup {0}]
  <2>1. [direction |-> order[o].direction, size |-> order[o].size,
         stop |-> InitialStop(order[o].direction)] \in [direction : {"BUY", "SELL"}, size : Nat, stop : Int]
    BY <1>0, OrderBasics DEF OrderRecords
  <2> QED
    BY <1>b, <1>h, <2>1 DEF BrokerOpens
<1>i. ASSUME NEW o \in Orders, subject[o] \in Deals, BrokerReduces(o)
      PROVE  /\ pos' \in [Deals -> [direction : {"BUY", "SELL"}, size : Nat, stop : Int]]
             /\ closed_by' \subseteq Orders
  <2>1. pos[subject[o]].size \in Nat /\ order[o].size \in Nat
    BY <1>0, <1>b, <1>i DEF OrderRecords
  <2>2. (IF pos[subject[o]].size > order[o].size THEN pos[subject[o]].size - order[o].size ELSE 0) \in Nat
    BY <2>1
  <2> QED
    BY ZenonT(60), <1>b, <1>i, <2>2 DEF BrokerReduces
<1>1. ASSUME NEW o \in Orders, ValidationFails(o) PROVE OrderTypes'
  <2> DEFINE new == [order[o] EXCEPT !.status = "REJECTED"]
  <2>1. new \in OrderRecords /\ new.kind = order[o].kind /\ order' = [order EXCEPT ![o] = new]
    BY <1>0, <1>1, <1>g DEF ValidationFails, OrderRecords
  <2> HIDE DEF new
  <2> QED
    BY <1>0, <1>a, <1>b, <1>e, <1>1, <2>1 DEF ValidationFails
<1>2. ASSUME NEW o \in Orders, ValidationPasses(o) PROVE OrderTypes'
  <2> DEFINE new == [order[o] EXCEPT !.status = "SUBMITTED"]
  <2>1. /\ new \in OrderRecords /\ new.kind = order[o].kind /\ order' = [order EXCEPT ![o] = new]
        /\ new.status = "SUBMITTED"
    BY <1>0, <1>2, <1>g DEF ValidationPasses, OrderRecords
  <2> HIDE DEF new
  <2> QED
    BY <1>0, <1>a, <1>b, <1>e, <1>2, <2>1 DEF ValidationPasses
<1>3. ASSUME NEW o \in Orders, PlacementAnswered(o) PROVE OrderTypes'
  <2>1. PICK d \in Deals : /\ BrokerOpens(o, d)
                           /\ order' = [order EXCEPT ![o].status = "FILLED", ![o].deal = d]
    BY <1>3 DEF PlacementAnswered
  <2> DEFINE new == [order[o] EXCEPT !.status = "FILLED", !.deal = d]
  <2>2. new \in OrderRecords /\ new.kind = order[o].kind /\ order' = [order EXCEPT ![o] = new]
    BY <1>0, <2>1 DEF OrderRecords
  <2> HIDE DEF new
  <2>3. AfterClose(o) \in {"done", "breakeven"} /\ (AfterClose(o) = "breakeven" => order[o].kind = "partial")
    BY DEF AfterClose
  <2>4. OrderControl' /\ order' \in [Orders -> OrderRecords] /\ step' \in [Orders -> Steps]
    BY <1>0, <1>e, <1>3, <2>2, <2>3 DEF PlacementAnswered
  <2> QED
    BY <1>a, <1>b, <1>h, <1>3, <2>1, <2>4 DEF PlacementAnswered
<1>4. ASSUME NEW o \in Orders, PlacementRaises(o) PROVE OrderTypes'
  <2>1. /\ pos' \in [Deals -> [direction : {"BUY", "SELL"}, size : Nat, stop : Int]]
        /\ opened_by' \in [Deals -> Orders \cup {0}]
    BY <1>b, <1>h, <1>4 DEF PlacementRaises
  <2>2. OrderControl' /\ order' \in [Orders -> OrderRecords] /\ step' \in [Orders -> Steps]
    BY <1>4, <1>c DEF PlacementRaises
  <2> QED
    BY <1>a, <1>b, <1>4, <2>1, <2>2 DEF PlacementRaises
<1>5. ASSUME NEW o \in Orders, PositionAnswer(o) PROVE OrderTypes'
  <2> DEFINE d == subject[o]
             size == (pos[d].size * PartialSize) \div OrderSize
             new == [order[o] EXCEPT !.size = size, !.status = "SUBMITTED", !.deal = d]
  <2>1. d \in Deals /\ order[o].kind # "entry" /\ step[o] = "position"
    BY <1>0, <1>5 DEF PositionAnswer, OrderControl
  <2>2. size \in Nat
    <3>1. pos[d].size \in Nat /\ PartialSize \in Nat /\ OrderSize \in Nat /\ OrderSize > 0
      BY <1>b, <2>1, OrderManagerAssumption
    <3>2. pos[d].size * PartialSize \in Nat
      BY <3>1
    <3> QED
      BY <3>1, <3>2
  <2>3. CASE size > 0
    <3>1. /\ order' = [order EXCEPT ![o].size = size, ![o].status = "SUBMITTED", ![o].deal = d]
          /\ step' = [step EXCEPT ![o] = "close"] /\ UNCHANGED subject
      BY <1>5, <2>3 DEF PositionAnswer
    <3> HIDE DEF size
    <3>2. /\ new \in OrderRecords /\ new.kind = order[o].kind /\ order' = [order EXCEPT ![o] = new]
          /\ new.status = "SUBMITTED"
      BY <1>0, <2>1, <2>2, <3>1 DEF OrderRecords
    <3> HIDE DEF new
    <3> QED
      BY <1>0, <1>a, <1>b, <1>e, <1>5, <2>1, <3>1, <3>2 DEF PositionAnswer
  <2>4. CASE ~(size > 0)
    <3>1. step' = [step EXCEPT ![o] = "done"] /\ order' = order /\ order' = [order EXCEPT ![o] = order[o]]
          /\ order[o] \in OrderRecords
      BY <1>0, <1>5, <2>4 DEF PositionAnswer
    <3> QED
      BY <1>0, <1>a, <1>b, <1>e, <1>5, <2>1, <3>1 DEF PositionAnswer
  <2> QED
    BY <2>3, <2>4
<1>6. ASSUME NEW o \in Orders, CloseAnswered(o) PROVE OrderTypes'
  <2> DEFINE new == [order[o] EXCEPT !.status = "CLOSED"]
  <2>1. new \in OrderRecords /\ new.kind = order[o].kind /\ order' = [order EXCEPT ![o] = new]
    BY <1>0, <1>6, <1>g DEF CloseAnswered, OrderRecords
  <2> HIDE DEF new
  <2>2. AfterClose(o) \in {"done", "breakeven"} /\ (AfterClose(o) = "breakeven" => order[o].kind = "partial")
    BY DEF AfterClose
  <2>3. OrderControl' /\ order' \in [Orders -> OrderRecords] /\ step' \in [Orders -> Steps]
    BY <1>0, <1>e, <1>6, <2>1, <2>2 DEF CloseAnswered
  <2>4. subject[o] \in Deals
    BY <1>0, <1>6 DEF CloseAnswered, OrderControl
  <2>5. trail' \in [Deals -> [active : BOOLEAN, stop : Int, extreme : Int]]
    BY ZenonT(60), <1>b, <1>6, <2>4 DEF CloseAnswered
  <2> QED
    BY <1>a, <1>b, <1>i, <1>6, <2>3, <2>4, <2>5 DEF CloseAnswered
<1>7. ASSUME NEW o \in Orders, CloseRaises(o) PROVE OrderTypes'
  <2>1. subject[o] \in Deals
    BY <1>0, <1>7 DEF CloseRaises, OrderControl
  <2>2. /\ pos' \in [Deals -> [direction : {"BUY", "SELL"}, size : Nat, stop : Int]]
        /\ closed_by' \subseteq Orders
    BY <1>b, <1>i, <1>7, <2>1 DEF CloseRaises
  <2>3. OrderControl' /\ order' \in [Orders -> OrderRecords] /\ step' \in [Orders -> Steps]
    BY <1>7, <1>c DEF CloseRaises
  <2> QED
    BY <1>a, <1>b, <1>7, <2>2, <2>3 DEF CloseRaises
<1>8. ASSUME NEW o \in Orders, BreakevenAnswer(o) PROVE OrderTypes'
  <2> DEFINE d == subject[o]
             level == Breakeven(pos[d].direction)
  <2>1. /\ d \in Deals /\ level \in Int /\ step[o] = "breakeven" /\ MarkPartial(d)
        /\ step' = [step EXCEPT ![o] = "done"] /\ UNCHANGED subject
    BY <1>0, <1>8, OrderBasics DEF BreakevenAnswer, OrderControl
  <2>2. pos' \in [Deals -> [direction : {"BUY", "SELL"}, size : Nat, stop : Int]]
    BY <1>b, <1>8, <2>1 DEF BreakevenAnswer
  <2>3. trail' \in [Deals -> [active : BOOLEAN, stop : Int, extreme : Int]]
    <3>1. (IF trail[d].active THEN level ELSE trail[d].stop) \in Int
      BY <1>b, <2>1
    <3>2. trail' = [trail EXCEPT ![d].stop = IF trail[d].active THEN level ELSE @]
      BY <1>8 DEF BreakevenAnswer
    <3> DEFINE x == IF trail[d].active THEN level ELSE trail[d].stop
    <3>3. trail' = [trail EXCEPT ![d].stop = x]
      BY <3>2
    <3> HIDE DEF x
    <3>4. trail[d] \in [active : BOOLEAN, stop : Int, extreme : Int]
      BY <1>b, <2>1
    <3>5. [trail[d] EXCEPT !.stop = x] \in [active : BOOLEAN, stop : Int, extreme : Int]
      BY <3>1, <3>4 DEF x
    <3>6. trail' = [trail EXCEPT ![d] = [trail[d] EXCEPT !.stop = x]]
      BY <3>3
    <3> QED
      BY <1>b, <3>5, <3>6
  <2>4. step' \in [Orders -> Steps] /\ \A p \in Orders : step'[p] = step[p] \/ step'[p] = "done"
    BY <1>0, <2>1
  <2>5. CASE order' = order
    BY <1>0, <1>a, <1>b, <1>8, <2>1, <2>2, <2>3, <2>4, <2>5 DEF BreakevenAnswer, OrderControl
  <2>6. ASSUME NEW q \in Orders, order[q].status = "FILLED",
               order' = [order EXCEPT ![q].status = "PARTIALLY_CLOSED"]
        PROVE  OrderTypes'
    <3>1. /\ order' \in [Orders -> OrderRecords]
          /\ \A p \in Orders : order'[p].kind = order[p].kind
          /\ \A p \in Orders \ {q} : order'[p] = order[p]
      BY <1>0, <2>6 DEF OrderRecords
    <3>2. step[q] \notin {"unused", "validate", "position", "execute", "close", "retry"}
      BY <1>0, <2>6 DEF OrderControl, Unused
    <3>3. OrderControl'
      BY <1>0, <2>1, <2>4, <3>1, <3>2 DEF OrderControl
    <3> QED
      BY <1>a, <1>b, <1>8, <2>1, <2>2, <2>3, <2>4, <3>1, <3>3 DEF BreakevenAnswer
  <2> QED
    BY <2>1, <2>5, <2>6, MarkPartialKinds
<1>9. ASSUME NEW o \in Orders, PlaceOrder(o) PROVE OrderTypes'
  <2>1. PICK dir \in Sides : Create(o, "entry", dir, OrderSize, "PENDING", 0, "validate")
    BY <1>9 DEF PlaceOrder
  <2>2. OrderControl' /\ order' \in [Orders -> OrderRecords] /\ step' \in [Orders -> Steps]
    <3>1. UNCHANGED subject /\ dir \in {"BUY", "SELL"}
      BY <1>0, <1>9 DEF PlaceOrder
    <3> QED
      BY <1>0, <1>d, <2>1, <3>1
  <2> QED
    BY <1>a, <1>b, <1>9, <2>2 DEF PlaceOrder
<1>10. ASSUME NEW o \in Orders, CloseOrder(o) PROVE OrderTypes'
  <2>1. PICK d \in Deals :
            /\ Create(o, "close", Opposite(pos[d].direction), OrderSize, "SUBMITTED", d, "close")
            /\ subject' = [subject EXCEPT ![o] = d]
    BY <1>10 DEF CloseOrder
  <2>2. /\ subject' \in [Orders -> Deals \cup {0}] /\ subject'[o] = d
        /\ \A p \in Orders \ {o} : subject'[p] = subject[p]
    BY <1>b, <2>1
  <2>3. OrderControl' /\ order' \in [Orders -> OrderRecords] /\ step' \in [Orders -> Steps]
    <3>1. /\ d \in Deals \cup {0} /\ Opposite(pos[d].direction) \in {"BUY", "SELL"}
          /\ 0 \in Nat /\ subject'[o] \in Deals
      BY <1>0, <2>2, OrderBasics
    <3> DEFINE dir == Opposite(pos[d].direction)
    <3>2. dir \in {"BUY", "SELL"} /\ Create(o, "close", dir, OrderSize, "SUBMITTED", d, "close")
      BY <2>1, <3>1
    <3> HIDE DEF dir
    <3>3. "close" \in Kinds /\ "close" \in Steps /\ "SUBMITTED" \in Statuses
      BY <1>0
    <3> QED
      BY <1>0, <1>d, <2>2, <3>1, <3>2, <3>3
  <2> QED
    BY <1>a, <1>b, <1>10, <2>2, <2>3 DEF CloseOrder
<1>11. ASSUME NEW o \in Orders, PartialTakeProfit(o) PROVE OrderTypes'
  <2>1. PICK d \in Deals :
            /\ Create(o, "partial", Opposite(pos[d].direction), 0, "PENDING", 0, "position")
            /\ subject' = [subject EXCEPT ![o] = d]
    BY <1>11 DEF PartialTakeProfit
  <2>2. /\ subject' \in [Orders -> Deals \cup {0}] /\ subject'[o] = d
        /\ \A p \in Orders \ {o} : subject'[p] = subject[p]
    BY <1>b, <2>1
  <2>3. OrderControl' /\ order' \in [Orders -> OrderRecords] /\ step' \in [Orders -> Steps]
    <3>1. /\ d \in Deals \cup {0} /\ Opposite(pos[d].direction) \in {"BUY", "SELL"}
          /\ 0 \in Nat /\ 0 \in Deals \cup {0} /\ subject'[o] \in Deals
      BY <1>0, <2>2, OrderBasics
    <3> DEFINE dir == Opposite(pos[d].direction)
    <3>2. dir \in {"BUY", "SELL"} /\ Create(o, "partial", dir, 0, "PENDING", 0, "position")
      BY <2>1, <3>1
    <3> HIDE DEF dir
    <3>3. "partial" \in Kinds /\ "position" \in Steps /\ "PENDING" \in Statuses
      BY <1>0
    <3> QED
      BY <1>d, <2>2, <3>1, <3>2, <3>3
  <2> QED
    BY <1>a, <1>b, <1>11, <2>2, <2>3 DEF PartialTakeProfit
\* The trailing stops leave the orders alone.
<1>j. ASSUME UNCHANGED <<order, step, subject>>
      PROVE  OrderControl' /\ order' \in [Orders -> OrderRecords] /\ step' \in [Orders -> Steps]
  BY <1>0, <1>j DEF OrderControl
<1>12. ASSUME NEW d \in Deals, SetupTrailingStop(d) PROVE OrderTypes'
  <2>1. PICK price \in Prices : trail' = [trail EXCEPT ![d] =
                  [active |-> TRUE, stop |-> pos[d].stop, extreme |-> price]]
    BY <1>12 DEF SetupTrailingStop
  <2>2. [active |-> TRUE, stop |-> pos[d].stop, extreme |-> price]
            \in [active : BOOLEAN, stop : Int, extreme : Int]
    BY <1>b, OrderManagerAssumption
  <2>3. trail' \in [Deals -> [active : BOOLEAN, stop : Int, extreme : Int]]
    BY <1>b, <2>1, <2>2
  <2> QED
    BY <1>a, <1>b, <1>j, <1>12, <2>3 DEF SetupTrailingStop
<1>13. ASSUME NEW d \in Deals, PriceTick(d) PROVE OrderTypes'
  <2>1. PICK price \in Prices :
          /\ trail' = [trail EXCEPT ![d] = [active |-> TRUE, stop |-> TrailLevel(d, price).stop,
                                            extreme |-> TrailLevel(d, price).extreme]]
          /\ update' = IF TrailLevel(d, price).stop # trail[d].stop
                         THEN [deal |-> d, level |-> TrailLevel(d, price).stop] ELSE NoUpdate
    BY <1>13 DEF PriceTick
  <2>2. TrailLevel(d, price).stop \in Int /\ TrailLevel(d, price).extreme \in Int
    BY <1>0, OrderBasics
  <2>3. trail' \in [Deals -> [active : BOOLEAN, stop : Int, extreme : Int]]
    BY <1>b, <2>1, <2>2
  <2>4. /\ update' \in [deal : Deals \cup {0}, level : Int]
        /\ update' # NoUpdate => update'.deal \in Deals
    BY <2>1, <2>2 DEF NoUpdate
  <2> QED
    BY <1>a, <1>b, <1>j, <1>13, <2>3, <2>4 DEF PriceTick
<1>14. CASE UpdateAnswer
  <2>1. update.deal \in Deals /\ update.level \in Int
    BY <1>b, <1>14 DEF UpdateAnswer
  <2>2. pos' \in [Deals -> [direction : {"BUY", "SELL"}, size : Nat, stop : Int]]
    <3>1. pos' = pos \/ pos' = [pos EXCEPT ![update.deal].stop = update.level]
      BY <1>14 DEF UpdateAnswer
    <3>2. pos[update.deal] \in [direction : {"BUY", "SELL"}, size : Nat, stop : Int]
      BY <1>b, <2>1
    <3>3. [pos[update.deal] EXCEPT !.stop = update.level]
             \in [direction : {"BUY", "SELL"}, size : Nat, stop : Int]
      BY <2>1, <3>2
    <3>4. CASE pos' = [pos EXCEPT ![update.deal].stop = update.level]
      <4>1. pos' = [pos EXCEPT ![update.deal] = [pos[update.deal] EXCEPT !.stop = update.level]]
        BY <3>4
      <4> QED
        BY <1>b, <3>3, <4>1
    <3> QED
      BY <1>b, <3>1, <3>4
  <2>3. /\ update' \in [deal : Deals \cup {0}, level : Int] /\ unsent' \subseteq Deals
        /\ update' = NoUpdate
    BY <1>b, <1>14, <2>1 DEF UpdateAnswer, NoUpdate
  <2> QED
    BY <1>a, <1>b, <1>j, <1>14, <2>2, <2>3 DEF UpdateAnswer
<1>15. CASE UNCHANGED orderVars
  BY <1>a, <1>b, <1>j, <1>15 DEF orderVars
<1> QED
  BY <1>1, <1>2, <1>3, <1>4, <1>5, <1>6, <1>7, <1>8, <1>9, <1>10, <1>11, <1>12, <1>13,
     <1>14, <1>15 DEF OrderNext, OrderStep

\* The orders, deals and tasks of order_manager.py keep their types and control facts.
LEMMA OrderTypesHold == OrderSpec => []OrderTypes
<1>1. OrderInit => OrderTypes
  <2> SUFFICES ASSUME OrderInit PROVE OrderTypes
    OBVIOUS
  <2>1. Unused \in OrderRecords /\ Unused.kind = "entry"
    BY OrderManagerAssumption DEF Unused, OrderRecords, Kinds, Statuses
  <2>2. OrderTypeOK
    BY <2>1 DEF OrderInit, OrderTypeOK, OrderRecords, Steps, NoUpdate
  <2> QED
    BY <2>1, <2>2 DEF OrderInit, OrderTypes, OrderControl
<1> QED
  BY <1>1, OrderNextTypes, PTL DEF OrderSpec

-----------------------------------------------------------------------------
(* The order manager: deals.                                               *)

OpenedFor(o) == {d \in Deals : opened_by[d] = o}

\* Attempts at the broker an order has behind it.
Attempts(o) ==
    order[o].retry_count + (IF step[o] \in {"done", "breakeven"} THEN 1 ELSE 0)

\* An order has no more deals than attempts, and the deal it reports is its own.
DealInv ==
    /\ \A o \in Orders : Cardinality(OpenedFor(o)) <= Attempts(o)
    /\ \A o \in Orders : order[o].status \in {"FILLED", "PARTIALLY_CLOSED"} =>
         /\ order[o].deal \in Deals /\ opened_by[order[o].deal] = o
         /\ pos[order[o].deal].direction = order[o].direction

\* An order has finitely many deals, and its attempts are a number.
LEMMA DealCounts ==
    ASSUME OrderTypes, NEW o \in Orders
    PROVE  /\ IsFiniteSet(OpenedFor(o)) /\ Cardinality(OpenedFor(o)) \in Nat
           /\ Attempts(o) \in Nat /\ order[o].retry_count \in Nat
<1>1. IsFiniteSet(Deals)
  BY FS_Interval, OrderManagerAssumption DEF Deals
<1>2. IsFiniteSet(OpenedFor(o))
  BY <1>1, FS_Subset DEF OpenedFor
<1>3. order[o].retry_count \in Nat
  BY OrderManagerAssumption DEF OrderTypes, OrderTypeOK
<1> QED
  BY <1>2, <1>3, FS_CardinalityType DEF Attempts

\* A step in which no order loses an attempt, none becomes FILLED or changes the deal it
\* reports, and the broker opens no deal.
LEMMA NoDealOpened ==
    ASSUME OrderTypes, DealInv, OrderTypes', opened_by' = opened_by,
           \A d \in Deals : pos'[d].direction = pos[d].direction,
           \A o \in Orders :
               /\ Attempts(o) <= Attempts(o)'
               /\ order'[o].status \in {"FILLED", "PARTIALLY_CLOSED"} =>
                    /\ order[o].status \in {"FILLED", "PARTIALLY_CLOSED"}
                    /\ order'[o].deal = order[o].deal
                    /\ order'[o].direction = order[o].direction
    PROVE  DealInv'
<1>1. \A o \in Orders : OpenedFor(o)' = OpenedFor(o)
  BY DEF OpenedFor
<1>2. ASSUME NEW o \in Orders PROVE (Cardinality(OpenedFor(o)) <= Attempts(o))'
  <2>1. Attempts(o)' \in Nat
    BY DealCounts DEF OrderTypes, OrderTypeOK, Attempts
  <2> QED
    BY <1>1, <2>1, DealCounts DEF DealInv
<1> QED
  BY <1>2 DEF DealInv

\* Every step of an order, of a tick and of the broker keeps the accounts.
LEMMA DealStep ==
    ASSUME OrderTypes, DealInv, [OrderNext]_orderVars
    PROVE  DealInv'
<1> USE DEF orderHistory
<1>0. /\ order \in [Orders -> OrderRecords] /\ step \in [Orders -> Steps]
      /\ pos \in [Deals -> [direction : {"BUY", "SELL"}, size : Nat, stop : Int]]
      /\ opened_by \in [Deals -> Orders \cup {0}]
      /\ OrderControl /\ OrderTypes' /\ 0 \notin Orders
  BY OrderNextTypes, OrderBasics DEF OrderTypes, OrderTypeOK, OrderRecords
\* One order moves on and the broker opens nothing.
<1>a. ASSUME NEW o \in Orders, opened_by' = opened_by,
             \A d \in Deals : pos'[d].direction = pos[d].direction,
             \A p \in Orders \ {o} : order'[p] = order[p] /\ step'[p] = step[p],
             order'[o].status \notin {"FILLED", "PARTIALLY_CLOSED"},
             Attempts(o) <= Attempts(o)'
      PROVE  DealInv'
  <2>1. \A p \in Orders \ {o} : Attempts(p)' = Attempts(p)
    BY <1>a DEF Attempts
  <2>2. \A p \in Orders : Attempts(p) \in Nat
    BY DealCounts
  <2> QED
    BY <1>0, <1>a, <2>1, <2>2, NoDealOpened
\* An attempt that failed is counted.
<1>b. ASSUME NEW o \in Orders, HandleFailure(o), step[o] \in {"execute", "retry", "close"}
      PROVE  /\ \A p \in Orders \ {o} : order'[p] = order[p] /\ step'[p] = step[p]
             /\ order'[o].status \in {"SUBMITTED", "FAILED"}
             /\ Attempts(o)' = Attempts(o) + 1
  <2>1. order[o].status = "SUBMITTED" /\ order[o].retry_count \in Nat
    BY <1>0, <1>b, DealCounts DEF OrderControl
  <2>2. CASE order[o].retry_count < MaxRetries
    BY <1>0, <1>b, <2>1, <2>2 DEF HandleFailure, Attempts, OrderRecords
  <2>3. CASE ~(order[o].retry_count < MaxRetries)
    BY <1>0, <1>b, <2>1, <2>3 DEF HandleFailure, Attempts, OrderRecords
  <2> QED
    BY <2>2, <2>3
\* A deal opened for an order that has one attempt more to show for it.
<1>c. ASSUME NEW o \in Orders, NEW d \in Deals, BrokerOpens(o, d)
      PROVE  /\ opened_by[d] = 0 /\ opened_by'[d] = o
             /\ \A c \in Deals \ {d} : opened_by'[c] = opened_by[c] /\ pos'[c] = pos[c]
             /\ pos'[d].direction = order[o].direction
             /\ Cardinality(OpenedFor(o)') <= Cardinality(OpenedFor(o)) + 1
             /\ Cardinality(OpenedFor(o)') \in Nat
             /\ \A p \in Orders \ {o} : OpenedFor(p)' = OpenedFor(p)
  <2>1. /\ opened_by[d] = 0 /\ opened_by'[d] = o
        /\ \A c \in Deals \ {d} : opened_by'[c] = opened_by[c] /\ pos'[c] = pos[c]
        /\ pos'[d].direction = order[o].direction
    BY <1>0, <1>c DEF BrokerOpens, IsNextDeal
  <2>2. OpenedFor(o)' = OpenedFor(o) \cup {d} /\ d \notin OpenedFor(o)
    BY <1>0, <2>1 DEF OpenedFor
  <2>3. /\ Cardinality(OpenedFor(o)') = Cardinality(OpenedFor(o)) + 1
        /\ Cardinality(OpenedFor(o)) \in Nat
    BY <2>2, DealCounts, FS_AddElement
  <2>4. \A p \in Orders \ {o} : OpenedFor(p)' = OpenedFor(p)
    BY <1>0, <2>1 DEF OpenedFor
  <2> QED
    BY <2>1, <2>3, <2>4
<1>d. ASSUME NEW o \in Orders, NEW d \in Deals, BrokerOpens(o, d),
             \A p \in Orders \ {o} : order'[p] = order[p] /\ step'[p] = step[p],
             Attempts(o)' = Attempts(o) + 1,
             order'[o].status \in {"FILLED", "PARTIALLY_CLOSED"} =>
                 order'[o].deal = d /\ order'[o].direction = order[o].direction
      PROVE  DealInv'
  <2>1. \A p \in Orders \ {o} : Attempts(p)' = Attempts(p)
    BY <1>d DEF Attempts
  <2>2. (\A p \in Orders : Cardinality(OpenedFor(p)) <= Attempts(p))'
    <3>1. Cardinality(OpenedFor(o)') <= Attempts(o)'
      BY <1>c, <1>d, DealCounts DEF DealInv
    <3> QED
      BY <1>c, <1>d, <2>1, <3>1 DEF DealInv
  <2>3. ASSUME NEW p \in Orders, order'[p].status \in {"FILLED", "PARTIALLY_CLOSED"}
        PROVE  /\ order'[p].deal \in Deals /\ opened_by'[order'[p].deal] = p
               /\ pos'[order'[p].deal].direction = order'[p].direction
    <3>1. CASE p = o
      BY <1>c, <1>d, <2>3, <3>1
    <3>2. CASE p # o
      <4>1. /\ order'[p] = order[p] /\ order[p].deal \in Deals /\ opened_by[order[p].deal] = p
            /\ pos[order[p].deal].direction = order[p].direction
        BY <1>d, <2>3, <3>2 DEF DealInv
      <4>2. order[p].deal # d
        BY <1>0, <1>c, <1>d, <4>1
      <4> QED
        BY <1>c, <1>d, <4>1, <4>2
    <3> QED
      BY <3>1, <3>2
  <2> QED
    BY <2>2, <2>3 DEF DealInv
<1>1. ASSUME NEW o \in Orders, ValidationFails(o) \/ ValidationPasses(o) PROVE DealInv'
  <2>1. /\ \A p \in Orders \ {o} : order'[p] = order[p] /\ step'[p] = step[p]
        /\ order'[o].status \in {"REJECTED", "SUBMITTED"}
        /\ order'[o].retry_count = order[o].retry_count
        /\ step[o] = "validate"
    BY <1>0, <1>1 DEF ValidationFails, ValidationPasses, OrderRecords
  <2>2. Attempts(o) <= Attempts(o)'
    BY <2>1, DealCounts DEF Attempts
  <2> QED
    BY <1>1, <1>a, <2>1, <2>2 DEF ValidationFails, ValidationPasses
<1>2. ASSUME NEW o \in Orders, PlacementAnswered(o) PROVE DealInv'
  <2>1. PICK d \in Deals : /\ BrokerOpens(o, d)
                           /\ order' = [order EXCEPT ![o].status = "FILLED", ![o].deal = d]
    BY <1>2 DEF PlacementAnswered
  <2>2. /\ step[o] \in {"execute", "retry"} /\ step'[o] \in {"done", "breakeven"}
        /\ \A p \in Orders \ {o} : order'[p] = order[p] /\ step'[p] = step[p]
    BY <1>0, <1>2, <2>1 DEF PlacementAnswered, AfterClose
  <2>3. /\ order'[o].retry_count = order[o].retry_count /\ order'[o].deal = d
        /\ order'[o].direction = order[o].direction
    BY <1>0, <2>1 DEF OrderRecords
  <2>4. Attempts(o)' = Attempts(o) + 1
    BY <2>2, <2>3, DealCounts DEF Attempts
  <2> QED
    BY <1>d, <2>1, <2>2, <2>3, <2>4
<1>3. ASSUME NEW o \in Orders, PlacementRaises(o) PROVE DealInv'
  <2>1. HandleFailure(o) /\ step[o] \in {"execute", "retry", "close"}
    BY <1>3 DEF PlacementRaises
  <2>2. Attempts(o) \in Nat
    BY DealCounts
  <2>3. CASE UNCHANGED <<pos, opened_by>>
    BY <1>a, <1>b, <2>1, <2>2, <2>3
  <2>4. CASE \E d \in Deals : BrokerOpens(o, d)
    BY <1>b, <1>d, <2>1, <2>4
  <2> QED
    BY <1>3, <2>3, <2>4 DEF PlacementRaises
<1>4. ASSUME NEW o \in Orders, PositionAnswer(o) PROVE DealInv'
  <2>1. /\ \A p \in Orders \ {o} : order'[p] = order[p] /\ step'[p] = step[p]
        /\ order'[o].retry_count = order[o].retry_count
        /\ step[o] = "position"
        /\ order'[o] = order[o] \/ order'[o].status = "SUBMITTED"
        /\ UNCHANGED <<pos, opened_by>>
    BY <1>0, <1>4 DEF PositionAnswer, OrderRecords
  <2>2. order'[o].status \notin {"FILLED", "PARTIALLY_CLOSED"}
    BY <1>0, <2>1 DEF OrderControl
  <2>3. Attempts(o) <= Attempts(o)'
    BY <2>1, DealCounts DEF Attempts
  <2> QED
    BY <1>a, <2>1, <2>2, <2>3
\* The broker reduces a position, but does not turn it round.
<1>e. ASSUME NEW o \in Orders, BrokerReduces(o)
      PROVE  \A d \in Deals : pos'[d].direction = pos[d].direction
  BY <1>0, <1>e DEF BrokerReduces
<1>5. ASSUME NEW o \in Orders, CloseAnswered(o) PROVE DealInv'
  <2>1. /\ \A p \in Orders \ {o} : order'[p] = order[p] /\ step'[p] = step[p]
        /\ order'[o].status = "CLOSED"
        /\ order'[o].retry_count = order[o].retry_count
        /\ step[o] = "close" /\ BrokerReduces(o) /\ opened_by' = opened_by
    BY <1>0, <1>5 DEF CloseAnswered, OrderRecords
  <2>2. Attempts(o) <= Attempts(o)'
    BY <2>1, DealCounts DEF Attempts
  <2> QED
    BY <1>a, <1>e, <2>1, <2>2
<1>6. ASSUME NEW o \in Orders, CloseRaises(o) PROVE DealInv'
  <2>1. HandleFailure(o) /\ step[o] \in {"execute", "retry", "close"} /\ opened_by' = opened_by
    BY <1>6 DEF CloseRaises
  <2>2. \A d \in Deals : pos'[d].direction = pos[d].direction
    BY <1>6, <1>e DEF CloseRaises
  <2>3. Attempts(o) \in Nat
    BY DealCounts
  <2> QED
    BY <1>a, <1>b, <2>1, <2>2, <2>3
<1>7. ASSUME NEW o \in Orders, BreakevenAnswer(o) PROVE DealInv'
  <2>1. /\ step[o] = "breakeven" /\ step' = [step EXCEPT ![o] = "done"]
        /\ opened_by' = opened_by
        /\ \A d \in Deals : pos'[d].direction = pos[d].direction
    BY <1>0, <1>7 DEF BreakevenAnswer
  <2>2. /\ \A p \in Orders : order'[p].retry_count = order[p].retry_count
        /\ \A p \in Orders : order'[p].deal = order[p].deal
        /\ \A p \in Orders : order'[p].direction = order[p].direction
        /\ \A p \in Orders : order'[p].status \in {"FILLED", "PARTIALLY_CLOSED"} =>
                                order[p].status \in {"FILLED", "PARTIALLY_CLOSED"}
    <3>1. MarkPartial(subject[o])
      BY <1>7 DEF BreakevenAnswer
    <3>2. CASE order' = order
      BY <3>2
    <3>3. ASSUME NEW q \in Orders, order[q].status = "FILLED",
                 order' = [order EXCEPT ![q].status = "PARTIALLY_CLOSED"]
          PROVE  <2>2!1 /\ <2>2!2 /\ <2>2!3 /\ <2>2!4
      BY <1>0, <3>3 DEF OrderRecords
    <3> QED
      BY <3>1, <3>2, <3>3, MarkPartialKinds
  <2>3. \A p \in Orders : Attempts(p)' = Attempts(p) /\ Attempts(p) \in Nat
    <3>1. \A p \in Orders : step'[p] \in {"done", "breakeven"} <=> step[p] \in {"done", "breakeven"}
      BY <1>0, <2>1
    <3> QED
      BY <2>2, <3>1, DealCounts DEF Attempts
  <2> QED
    BY <1>0, <2>1, <2>2, <2>3, NoDealOpened
<1>f. ASSUME NEW o \in Orders, NEW kind, NEW dir, NEW size, NEW status, NEW d, NEW await,
             Create(o, kind, dir, size, status, d, await), UNCHANGED <<pos, opened_by>>,
             status \notin {"FILLED", "PARTIALLY_CLOSED"}
      PROVE  DealInv'
  <2>1. /\ \A p \in Orders \ {o} : order'[p] = order[p] /\ step'[p] = step[p]
        /\ order'[o].status = status /\ order'[o].retry_count = 0
        /\ step[o] = "unused"
    BY <1>0, <1>f DEF Create, IsNextOrder
  <2>2. order[o].retry_count = 0
    BY <1>0, <2>1 DEF OrderControl, Unused
  <2>3. Attempts(o) <= Attempts(o)'
    BY <2>1, <2>2 DEF Attempts
  <2> QED
    BY <1>a, <1>f, <2>1, <2>3
<1>8. ASSUME NEW o \in Orders, PlaceOrder(o) \/ CloseOrder(o) \/ PartialTakeProfit(o) PROVE DealInv'
  BY <1>8, <1>f DEF PlaceOrder, CloseOrder, PartialTakeProfit
<1>9. ASSUME UNCHANGED <<order, step, opened_by>>,
             \A d \in Deals : pos'[d].direction = pos[d].direction
      PROVE  DealInv'
  <2>1. \A p \in Orders : Attempts(p)' = Attempts(p) /\ Attempts(p) \in Nat
    BY <1>9, DealCounts DEF Attempts
  <2> QED
    BY <1>0, <1>9, <2>1, NoDealOpened
<1>10. ASSUME NEW d \in Deals, SetupTrailingStop(d) \/ PriceTick(d) PROVE DealInv'
  BY <1>9, <1>10 DEF SetupTrailingStop, PriceTick
<1>11. CASE UpdateAnswer
  BY <1>0, <1>9, <1>11 DEF UpdateAnswer
<1>12. CASE UNCHANGED orderVars
  BY <1>9, <1>12 DEF orderVars
<1> QED
  BY <1>1, <1>2, <1>3, <1>4, <1>5, <1>6, <1>7, <1>8, <1>10, <1>11, <1>12
     DEF OrderNext, OrderStep

\* No reachable state has an order with more deals than attempts at the broker.
LEMMA DealInvHolds == OrderSpec => []DealInv
<1>1. OrderInit => DealInv
  <2> SUFFICES ASSUME OrderInit PROVE DealInv
    OBVIOUS
  <2>1. \A o \in Orders : OpenedFor(o) = {} /\ Attempts(o) = 0 /\ order[o].status = "PENDING"
    BY OrderBasics, OrderManagerAssumption DEF OrderInit, OpenedFor, Attempts, Unused, Orders
  <2> QED
    BY <2>1, FS_EmptySet DEF DealInv
<1>2. OrderTypes /\ DealInv /\ [OrderNext]_orderVars => DealInv'
  BY DealStep
<1> QED
  BY <1>1, <1>2, OrderTypesHold, PTL DEF OrderSpec

\* With the one retry of the code, an order whose answers are lost opens at most two
\* positions, and the deal an order reports was opened for it and in its direction, for
\* every number of orders and deals and every interleaving of their coroutines.
THEOREM DealsAccounted == ASSUME MaxRetries = 1
                          PROVE  OrderSpec => []DealsAreAccounted
<1>1. OrderTypes /\ DealInv => DealsAreAccounted
  <2> SUFFICES ASSUME OrderTypes, DealInv, NEW o \in Orders
               PROVE  Cardinality(OpenedFor(o)) <= 2
    BY DEF DealsAreAccounted, AtMostTwoDeals, DealBelongsToOrder, DealInv, OpenedFor
  <2>1. order[o].retry_count <= 1
    BY DEF OrderTypes, OrderTypeOK
  <2>2. Attempts(o) <= 2 /\ Attempts(o) \in Nat
    BY <2>1, DealCounts DEF Attempts
  <2> QED
    BY <2>2, DealCounts DEF DealInv
<1> QED
  BY <1>1, OrderTypesHold, DealInvHolds, PTL

-----------------------------------------------------------------------------
(* The order manager: trailing stops.                                      *)

NoPartial(d) == \A o \in Orders : order[o].kind = "partial" => subject[o] # d

\* A stop is recorded for deals that have been set up, which the broker has opened; it
\* is the broker's, or the update that will make it so is in flight.
StopInv ==
    /\ \A d \in Deals : trail[d].active => d \in armed
    /\ \A d \in armed : opened_by[d] # 0
    /\ update # NoUpdate => update.deal \in armed
    /\ \A d \in Deals : trail[d].active /\ NoPartial(d) =>
         IF update.deal = d THEN trail[d].stop = update.level
                            ELSE d \notin unsent => pos[d].stop = trail[d].stop

\* A step that touches no stop, except to remove it: partial take profits are not undone.
LEMMA StopsUntouched ==
    ASSUME OrderTypes, StopInv, UNCHANGED <<update, armed, unsent>>,
           \A d \in Deals : opened_by[d] # 0 => opened_by'[d] # 0 /\ pos'[d].stop = pos[d].stop,
           \A d \in Deals : trail'[d].active => trail'[d] = trail[d],
           \A d \in Deals : NoPartial(d)' => NoPartial(d)
    PROVE  StopInv'
<1>1. armed \subseteq Deals
  BY DEF OrderTypes, OrderTypeOK
<1> QED
  BY <1>1 DEF StopInv

\* Every step keeps the recorded and the broker's stops in agreement.
LEMMA StopStep ==
    ASSUME OrderTypes, DealInv, StopInv, [OrderNext]_orderVars
    PROVE  StopInv'
<1> USE DEF orderHistory
<1>0. /\ order \in [Orders -> OrderRecords] /\ step \in [Orders -> Steps]
      /\ pos \in [Deals -> [direction : {"BUY", "SELL"}, size : Nat, stop : Int]]
      /\ trail \in [Deals -> [active : BOOLEAN, stop : Int, extreme : Int]]
      /\ opened_by \in [Deals -> Orders \cup {0}] /\ subject \in [Orders -> Deals \cup {0}]
      /\ armed \subseteq Deals /\ unsent \subseteq Deals
      /\ update \in [deal : Deals \cup {0}, level : Int]
      /\ update # NoUpdate => update.deal \in Deals
      /\ OrderControl /\ 0 \notin Orders /\ 0 \notin Deals
  BY OrderBasics DEF OrderTypes, OrderTypeOK, OrderRecords
\* The kinds of the orders stay, and a new order takes a number of its own.
<1>a. ASSUME \A o \in Orders : order'[o].kind = order[o].kind, UNCHANGED subject
      PROVE  \A d \in Deals : NoPartial(d)' => NoPartial(d)
  BY <1>a DEF NoPartial
<1>b. ASSUME NEW o \in Orders, HandleFailure(o)
      PROVE  \A p \in Orders : order'[p].kind = order[p].kind
  <2>1. CASE order[o].retry_count < MaxRetries
    <3>1. order' = [order EXCEPT ![o].retry_count = @ + 1]
      BY <1>b, <2>1 DEF HandleFailure
    <3> QED
      BY <1>0, <3>1 DEF OrderRecords
  <2>2. CASE ~(order[o].retry_count < MaxRetries)
    <3>1. order' = [order EXCEPT ![o].status = "FAILED"]
      BY <1>b, <2>2 DEF HandleFailure
    <3> QED
      BY <1>0, <3>1 DEF OrderRecords
  <2> QED
    BY <2>1, <2>2
<1>c. ASSUME NEW o \in Orders, NEW d \in Deals, BrokerOpens(o, d)
      PROVE  \A c \in Deals : opened_by[c] # 0 =>
                opened_by'[c] # 0 /\ pos'[c].stop = pos[c].stop
  BY <1>0, <1>c DEF BrokerOpens, IsNextDeal
<1>d. ASSUME NEW o \in Orders, BrokerReduces(o)
      PROVE  \A c \in Deals : pos'[c].stop = pos[c].stop
  BY <1>0, <1>d DEF BrokerReduces
<1>1. ASSUME NEW o \in Orders, ValidationFails(o) \/ ValidationPasses(o) \/ PositionAnswer(o)
      PROVE  StopInv'
  <2>1. \A p \in Orders : order'[p].kind = order[p].kind
    <3>1. CASE ValidationFails(o)
      BY <1>0, <3>1 DEF ValidationFails, OrderRecords
    <3>2. CASE ValidationPasses(o)
      BY <1>0, <3>2 DEF ValidationPasses, OrderRecords
    <3>3. CASE PositionAnswer(o)
      <4>1. CASE order' = order
        BY <4>1
      <4>2. CASE order' # order
        <5>1. order' = [order EXCEPT
                 ![o].size = (pos[subject[o]].size * PartialSize) \div OrderSize,
                 ![o].status = "SUBMITTED", ![o].deal = subject[o]]
          BY <3>3, <4>2 DEF PositionAnswer
        <5> HIDE DEF orderHistory
        <5>2. \A v, w, x : [order[o] EXCEPT !.size = v, !.status = w, !.deal = x].kind
                             = order[o].kind
          BY <1>0 DEF OrderRecords
        <5> QED
          BY <1>0, <5>1, <5>2 DEF OrderRecords
      <4> QED
        BY <4>1, <4>2
    <3> QED
      BY <1>1, <3>1, <3>2, <3>3
  <2>2. UNCHANGED <<subject, trail, update, pos, opened_by, armed, unsent>>
    BY <1>1 DEF ValidationFails, ValidationPasses, PositionAnswer
  <2> QED
    BY <1>a, <2>1, <2>2, StopsUntouched
<1>2. ASSUME NEW o \in Orders, PlacementAnswered(o) PROVE StopInv'
  <2>1. PICK d \in Deals : /\ BrokerOpens(o, d)
                           /\ order' = [order EXCEPT ![o].status = "FILLED", ![o].deal = d]
    BY <1>2 DEF PlacementAnswered
  <2>2. \A p \in Orders : order'[p].kind = order[p].kind
    BY <1>0, <2>1 DEF OrderRecords
  <2>3. UNCHANGED <<subject, trail, update, armed, unsent>>
    BY <1>2 DEF PlacementAnswered
  <2> QED
    BY <1>a, <1>c, <2>1, <2>2, <2>3, StopsUntouched
<1>3. ASSUME NEW o \in Orders, PlacementRaises(o) PROVE StopInv'
  <2>1. HandleFailure(o) /\ UNCHANGED <<subject, trail, update, armed, unsent>>
    BY <1>3 DEF PlacementRaises
  <2>2. \A c \in Deals : opened_by[c] # 0 => opened_by'[c] # 0 /\ pos'[c].stop = pos[c].stop
    BY <1>3, <1>c DEF PlacementRaises
  <2> QED
    BY <1>a, <1>b, <2>1, <2>2, StopsUntouched
<1>4. ASSUME NEW o \in Orders, CloseAnswered(o) PROVE StopInv'
  <2>1. \A p \in Orders : order'[p].kind = order[p].kind
    BY <1>0, <1>4 DEF CloseAnswered, OrderRecords
  <2>2. BrokerReduces(o) /\ UNCHANGED <<subject, update, opened_by, armed, unsent>>
    BY <1>4 DEF CloseAnswered
  <2>3. \A d \in Deals : trail'[d].active => trail'[d] = trail[d]
    BY <1>0, <1>4 DEF CloseAnswered
  <2> QED
    BY <1>a, <1>d, <2>1, <2>2, <2>3, StopsUntouched
<1>5. ASSUME NEW o \in Orders, CloseRaises(o) PROVE StopInv'
  <2>1. HandleFailure(o) /\ UNCHANGED <<subject, trail, update, opened_by, armed, unsent>>
    BY <1>5 DEF CloseRaises
  <2>2. \A c \in Deals : pos'[c].stop = pos[c].stop
    BY <1>5, <1>d DEF CloseRaises
  <2> QED
    BY <1>a, <1>b, <2>1, <2>2, StopsUntouched
\* A partial take profit moves the stop of a deal of its own.
<1>6. ASSUME NEW o \in Orders, BreakevenAnswer(o) PROVE StopInv'
  <2> DEFINE d == subject[o]
  <2>1. /\ order[o].kind = "partial" /\ d \in Deals
        /\ UNCHANGED <<subject, update, opened_by, armed, unsent>>
    BY <1>0, <1>6 DEF BreakevenAnswer, OrderControl
  <2>2. \A p \in Orders : order'[p].kind = order[p].kind
    <3>1. MarkPartial(subject[o])
      BY <1>6 DEF BreakevenAnswer
    <3>2. ASSUME NEW q \in Orders, order' = [order EXCEPT ![q].status = "PARTIALLY_CLOSED"]
          PROVE  \A p \in Orders : order'[p].kind = order[p].kind
      BY <1>0, <3>2 DEF OrderRecords
    <3> QED
      BY <3>1, <3>2, MarkPartialKinds
  <2>3. \A c \in Deals : NoPartial(c)' => NoPartial(c) /\ c # d
    BY <2>1, <2>2 DEF NoPartial
  <2>4. /\ \A c \in Deals \ {d} : pos'[c] = pos[c] /\ trail'[c] = trail[c]
        /\ trail'[d].active = trail[d].active
    BY <1>0, <1>6, <2>1 DEF BreakevenAnswer
  <2> QED
    BY <1>0, <2>1, <2>3, <2>4 DEF StopInv
<1>e. ASSUME NEW o \in Orders, NEW kind, NEW dir, NEW size, NEW status, NEW d, NEW await,
             Create(o, kind, dir, size, status, d, await),
             \A p \in Orders \ {o} : subject'[p] = subject[p],
             UNCHANGED <<trail, update, pos, opened_by, armed, unsent>>
      PROVE  StopInv'
  <2>1. /\ \A p \in Orders \ {o} : order'[p] = order[p]
        /\ order[o].kind = "entry"
    BY <1>0, <1>e DEF Create, IsNextOrder, OrderControl, Unused
  <2>2. \A c \in Deals : NoPartial(c)' => NoPartial(c)
    BY <1>e, <2>1 DEF NoPartial
  <2> QED
    BY <1>e, <2>2, StopsUntouched
<1>7. ASSUME NEW o \in Orders, PlaceOrder(o) PROVE StopInv'
  BY <1>7, <1>e DEF PlaceOrder
<1>8. ASSUME NEW o \in Orders, CloseOrder(o) \/ PartialTakeProfit(o) PROVE StopInv'
  <2>1. \A p \in Orders \ {o} : subject'[p] = subject[p]
    BY <1>0, <1>8 DEF CloseOrder, PartialTakeProfit
  <2> QED
    BY <1>8, <1>e, <2>1 DEF CloseOrder, PartialTakeProfit
<1>9. ASSUME NEW d \in Deals, SetupTrailingStop(d) PROVE StopInv'
  <2>1. PICK price \in Prices : trail' = [trail EXCEPT ![d] =
                  [active |-> TRUE, stop |-> pos[d].stop, extreme |-> price]]
    BY <1>9 DEF SetupTrailingStop
  <2>2. /\ trail'[d].active /\ trail'[d].stop = pos[d].stop
        /\ \A c \in Deals \ {d} : trail'[c] = trail[c]
    BY <1>0, <2>1
  <2>3. /\ d \notin armed /\ armed' = armed \cup {d}
        /\ UNCHANGED <<order, subject, update, pos, opened_by, unsent>>
    BY <1>9 DEF SetupTrailingStop
  <2>4. opened_by[d] # 0
    <3>1. PICK p \in Orders : order[p].deal = d /\ order[p].status \in {"FILLED", "PARTIALLY_CLOSED"}
      BY <1>9 DEF SetupTrailingStop, Reported
    <3> QED
      BY <1>0, <3>1 DEF DealInv
  <2>5. update.deal # d
    BY <1>0, <2>3 DEF StopInv, NoUpdate
  <2>6. \A c \in Deals : NoPartial(c)' <=> NoPartial(c)
    BY <2>3 DEF NoPartial
  <2> QED
    BY <1>0, <2>2, <2>3, <2>4, <2>5, <2>6 DEF StopInv
<1>10. ASSUME NEW d \in Deals, PriceTick(d) PROVE StopInv'
  <2>1. PICK price \in Prices :
          /\ trail' = [trail EXCEPT ![d] = [active |-> TRUE, stop |-> TrailLevel(d, price).stop,
                                            extreme |-> TrailLevel(d, price).extreme]]
          /\ update' = IF TrailLevel(d, price).stop # trail[d].stop
                         THEN [deal |-> d, level |-> TrailLevel(d, price).stop] ELSE NoUpdate
    BY <1>10 DEF PriceTick
  <2> DEFINE new == TrailLevel(d, price).stop
  <2>2. /\ trail'[d].active /\ trail'[d].stop = new
        /\ \A c \in Deals \ {d} : trail'[c] = trail[c]
    BY <1>0, <2>1
  <2>3. /\ trail[d].active /\ update = NoUpdate
        /\ UNCHANGED <<order, subject, pos, opened_by, armed, unsent>>
    BY <1>10 DEF PriceTick
  <2>4. \A c \in Deals : NoPartial(c)' <=> NoPartial(c)
    BY <2>3 DEF NoPartial
  <2>5. update.deal = 0 /\ d \in armed
    BY <2>3 DEF NoUpdate, StopInv
  <2>6. CASE new = trail[d].stop
    <3>1. update' = NoUpdate
      BY <2>1, <2>6
    <3> QED
      BY ZenonT(60), <1>0, <2>2, <2>3, <2>4, <2>5, <2>6, <3>1 DEF StopInv
  <2>7. CASE new # trail[d].stop
    <3>1. update' # NoUpdate /\ update'.deal = d /\ update'.level = new
      BY <1>0, <2>1, <2>7 DEF NoUpdate
    <3> HIDE DEF new
    <3> QED
      BY ZenonT(60), <1>0, <2>2, <2>3, <2>4, <2>5, <3>1 DEF StopInv
  <2> QED
    BY <2>6, <2>7
<1>11. CASE UpdateAnswer
  <2> DEFINE d == update.deal
  <2>1. /\ update # NoUpdate /\ d \in Deals /\ d \in armed /\ update' = NoUpdate
        /\ UNCHANGED <<order, subject, trail, opened_by, armed>>
    BY <1>0, <1>11 DEF UpdateAnswer, StopInv
  <2>2. /\ \A c \in Deals \ {d} : pos'[c] = pos[c] /\ (c \in unsent' <=> c \in unsent)
        /\ d \in unsent' \/ pos'[d].stop = update.level
    BY <1>0, <1>11, <2>1 DEF UpdateAnswer
  <2>3. \A c \in Deals : NoPartial(c)' <=> NoPartial(c)
    BY <2>1 DEF NoPartial
  <2>4. update'.deal = 0
    BY <2>1 DEF NoUpdate
  <2> QED
    BY <1>0, <2>1, <2>2, <2>3, <2>4 DEF StopInv
<1>12. CASE UNCHANGED orderVars
  BY <1>12, <1>a, StopsUntouched DEF orderVars
<1> QED
  BY <1>1, <1>2, <1>3, <1>4, <1>5, <1>6, <1>7, <1>8, <1>9, <1>10, <1>11, <1>12
     DEF OrderNext, OrderStep

\* Recorded and broker's stops agree, or an update between them is in flight, always.
LEMMA StopInvHolds == OrderSpec => []StopInv
<1>1. OrderInit => StopInv
  <2> SUFFICES ASSUME OrderInit PROVE StopInv
    OBVIOUS
  <2>1. \A d \in Deals : ~trail[d].active
    BY DEF OrderInit
  <2> QED
    BY <2>1 DEF OrderInit, StopInv
<1> QED
  BY <1>1, StopStep, OrderTypesHold, DealInvHolds, PTL DEF OrderSpec

\* On an open deal without a partial take profit the broker's stop is the recorded one
\* whenever no update is in flight and the last one was accepted: for every number of
\* deals, whatever price comes between a tick and the broker's answer.
THEOREM StopsStayAgreed == OrderSpec => []StopsAgree
<1>1. OrderTypes /\ StopInv => StopsAgree
  <2> SUFFICES ASSUME OrderTypes, StopInv, NEW d \in Deals, trail[d].active,
                      update = NoUpdate, d \notin unsent, NoPartial(d)
               PROVE  pos[d].stop = trail[d].stop
    BY DEF StopsAgree, NoPartial
  <2>1. update.deal # d
    BY OrderBasics DEF NoUpdate, OrderTypes
  <2> QED
    BY <2>1 DEF StopInv
<1> QED
  BY <1>1, OrderTypesHold, StopInvHolds, PTL

-----------------------------------------------------------------------------
(* The order manager: progress.                                            *)

\* A step that touches one order which has not ended is a step towards no other end.
LEMMA EndsAreFinal ==
    ASSUME OrderTypes, OrderNext, NEW o \in Orders,
           order[o].status \in {"REJECTED", "FAILED", "CLOSED"}
    PROVE  order'[o].status = order[o].status
<1>0. order \in [Orders -> OrderRecords] /\ OrderControl
  BY DEF OrderTypes, OrderTypeOK, OrderRecords
<1>1. step[o] \in {"unused", "validate", "execute", "position", "close", "retry"}
        => order[o].status \in {"PENDING", "SUBMITTED"}
  BY <1>0 DEF OrderControl, Unused
<1>2. ASSUME NEW p \in Orders, p # o, \/ order' = order
             \/ \E new : order' = [order EXCEPT ![p] = new]
      PROVE  order'[o] = order[o]
  BY <1>0, <1>2
<1>3. ASSUME NEW p \in Orders,
             ValidationFails(p) \/ ValidationPasses(p) \/ PositionAnswer(p)
               \/ PlacementAnswered(p) \/ CloseAnswered(p)
      PROVE  order'[o] = order[o]
  <2>1. step[p] \in {"validate", "execute", "position", "close", "retry"}
    BY <1>3 DEF ValidationFails, ValidationPasses, PositionAnswer, PlacementAnswered,
                CloseAnswered
  <2>2. p # o
    BY <1>1, <2>1
  <2>3. \/ order' = order
        \/ \E new : order' = [order EXCEPT ![p] = new]
    <3>1. CASE ValidationFails(p)
      BY <3>1 DEF ValidationFails
    <3>2. CASE ValidationPasses(p)
      BY <3>2 DEF ValidationPasses
    <3>3. CASE PositionAnswer(p)
      BY <3>3 DEF PositionAnswer
    <3>4. CASE PlacementAnswered(p)
      BY <3>4 DEF PlacementAnswered
    <3>5. CASE CloseAnswered(p)
      BY <3>5 DEF CloseAnswered
    <3> QED
      BY <1>3, <3>1, <3>2, <3>3, <3>4, <3>5
  <2> QED
    BY <1>2, <2>2, <2>3
<1>4. ASSUME NEW p \in Orders, PlacementRaises(p) \/ CloseRaises(p)
      PROVE  order'[o] = order[o]
  <2>1. step[p] \in {"execute", "close", "retry"} /\ HandleFailure(p)
    BY <1>4 DEF PlacementRaises, CloseRaises
  <2>2. p # o
    BY <1>1, <2>1
  <2>3. \E new : order' = [order EXCEPT ![p] = new]
    BY <2>1 DEF HandleFailure
  <2> QED
    BY <1>2, <2>2, <2>3
\* A partial take profit marks an order that is FILLED.
<1>5. ASSUME NEW p \in Orders, BreakevenAnswer(p) PROVE order'[o] = order[o]
  <2>1. MarkPartial(subject[p])
    BY <1>5 DEF BreakevenAnswer
  <2> QED
    BY <1>2, <2>1, MarkPartialKinds
<1>6. ASSUME NEW p \in Orders, PlaceOrder(p) \/ CloseOrder(p) \/ PartialTakeProfit(p)
      PROVE  order'[o] = order[o]
  <2>1. step[p] = "unused" /\ \E new : order' = [order EXCEPT ![p] = new]
    BY <1>6 DEF PlaceOrder, CloseOrder, PartialTakeProfit, Create, IsNextOrder
  <2>2. p # o
    BY <1>1, <2>1
  <2> QED
    BY <1>2, <2>1, <2>2
<1>7. ASSUME UNCHANGED order PROVE order'[o] = order[o]
  BY <1>7
<1>8. ASSUME NEW d \in Deals, SetupTrailingStop(d) \/ PriceTick(d)
      PROVE  order'[o] = order[o]
  BY <1>8 DEF SetupTrailingStop, PriceTick
<1>9. CASE UpdateAnswer
  BY <1>9 DEF UpdateAnswer
<1> QED
  BY <1>3, <1>4, <1>5, <1>6, <1>8, <1>9 DEF OrderNext, OrderStep

\* A tick moves a stop the profitable way or not at all; the reset to breakeven is the
\* one step that may do otherwise.
LEMMA StopsTighten ==
    ASSUME OrderTypes, StopInv, OrderNext, NEW d \in Deals,
           trail[d].active, trail'[d].active,
           Better(pos[d].direction, trail[d].stop, trail'[d].stop)
    PROVE  trail'[d].stop = Breakeven(pos[d].direction)
<1>0. /\ trail \in [Deals -> [active : BOOLEAN, stop : Int, extreme : Int]]
      /\ pos[d].direction \in {"BUY", "SELL"}
      /\ subject \in [Orders -> Deals \cup {0}] /\ OrderControl
      /\ \A c \in Deals, price \in Prices : TrailLevel(c, price).stop \in Int
      /\ trail[d].stop \in Int
  BY OrderBasics DEF OrderTypes, OrderTypeOK
<1>1. trail'[d] # trail[d]
  BY <1>0 DEF Better
<1>2. ASSUME UNCHANGED trail PROVE FALSE
  BY <1>1, <1>2
<1>3. ASSUME NEW o \in Orders, CloseAnswered(o) PROVE FALSE
  <2>1. trail' = [trail EXCEPT ![subject[o]].active = FALSE]
    BY <1>3 DEF CloseAnswered
  <2>2. trail'[d] = trail[d] \/ ~trail'[d].active
    BY <1>0, <2>1
  <2> QED
    BY <1>1, <2>2
<1>4. ASSUME NEW o \in Orders, BreakevenAnswer(o)
      PROVE  trail'[d].stop = Breakeven(pos[d].direction)
  <2>1. trail' = [trail EXCEPT ![subject[o]].stop =
                    IF trail[subject[o]].active THEN Breakeven(pos[subject[o]].direction)
                                                ELSE @]
    BY <1>4 DEF BreakevenAnswer
  <2>2. CASE subject[o] = d
    BY <1>0, <2>1, <2>2
  <2>3. CASE subject[o] # d
    <3>1. trail'[d] = trail[d]
      BY <1>0, <2>1, <2>3
    <3> QED
      BY <1>1, <3>1
  <2> QED
    BY <2>2, <2>3
<1>5. ASSUME NEW c \in Deals, SetupTrailingStop(c) PROVE FALSE
  <2>1. c \notin armed
    BY <1>5 DEF SetupTrailingStop
  <2>2. c # d
    BY <2>1 DEF StopInv
  <2>3. trail'[d] = trail[d]
    BY <1>0, <1>5, <2>2 DEF SetupTrailingStop
  <2> QED
    BY <1>1, <2>3
<1>6. ASSUME NEW c \in Deals, PriceTick(c) PROVE FALSE
  <2>1. PICK price \in Prices :
          trail' = [trail EXCEPT ![c] = [active |-> TRUE, stop |-> TrailLevel(c, price).stop,
                                         extreme |-> TrailLevel(c, price).extreme]]
    BY <1>6 DEF PriceTick
  <2>2. c = d
    BY <1>0, <1>1, <2>1
  <2>3. trail'[d].stop = TrailLevel(d, price).stop
    BY <1>0, <2>1, <2>2
  <2>4. \/ TrailLevel(d, price).stop = trail[d].stop
        \/ Better(pos[d].direction, TrailLevel(d, price).stop, trail[d].stop)
    BY DEF TrailLevel
  <2> QED
    BY <1>0, <2>3, <2>4 DEF Better
<1>7. ASSUME NEW o \in Orders,
             ValidationFails(o) \/ ValidationPasses(o) \/ PositionAnswer(o)
               \/ PlacementAnswered(o) \/ PlacementRaises(o) \/ CloseRaises(o)
               \/ PlaceOrder(o) \/ CloseOrder(o) \/ PartialTakeProfit(o)
      PROVE  FALSE
  BY <1>2, <1>7 DEF ValidationFails, ValidationPasses, PositionAnswer, PlacementAnswered,
       PlacementRaises, CloseRaises, PlaceOrder, CloseOrder, PartialTakeProfit
<1>8. CASE UpdateAnswer
  BY <1>2, <1>8 DEF UpdateAnswer
<1> QED
  BY <1>3, <1>4, <1>5, <1>6, <1>7, <1>8 DEF OrderNext, OrderStep

\* What is reached is kept: no late answer, retry or partial take profit rewrites a
\* REJECTED, FAILED or CLOSED order, and no sequence of ticks loosens a trailing stop.
THEOREM ProgressKept == OrderSpec => ProgressIsKept
<1>1. OrderTypes /\ StopInv /\ [OrderNext]_orderVars =>
        [\A o \in Orders : order[o].status \in {"REJECTED", "FAILED", "CLOSED"} =>
            order'[o].status = order[o].status]_orderVars
  BY EndsAreFinal
<1>2. OrderTypes /\ StopInv /\ [OrderNext]_orderVars =>
        [\A d \in Deals : /\ trail[d].active /\ trail'[d].active
                          /\ Better(pos[d].direction, trail[d].stop, trail'[d].stop)
                          => trail'[d].stop = Breakeven(pos[d].direction)]_orderVars
  BY StopsTighten
<1> QED
  BY <1>1, <1>2, OrderTypesHold, StopInvHolds, PTL
     DEF OrderSpec, ProgressIsKept, TerminalIsFinal, LoosenedOnlyToBreakeven

-----------------------------------------------------------------------------
(* The guarded position: its types.                                        *)

\* The awaits of a call of place_order.
CallAwaits == {"post", "confirm", "verify", "emergency"}

Positions == [Refs -> [size : 0..GuardedSize, stop : {"none", "initial", "breakeven"},
                       limit : BOOLEAN]]

LoopTypes ==
    /\ pc \in Awaits /\ ref \in Refs \cup {0}
    /\ (pc \notin {"idle", "look"} => ref \in Refs)
    /\ n \in 0..(IF pc \in {"post", "confirm"} THEN MaxPosts ELSE Reads - 1)
    /\ amount \in 0..GuardedSize

BookTypes ==
    /\ result \in [Refs -> {"none", "calling", "accepted", "refused"}]
    /\ managed \in [Refs -> {"none", "waiting", "taken"}]
    /\ seen \in [Refs -> 0..GuardedSize]

\* Only a deal that IG executed is verified, or closed in an emergency.
BrokerTypes ==
    /\ onwire \subseteq Refs /\ opened \subseteq Refs /\ position \in Positions
    /\ cuts \in [Refs -> Nat] /\ declared \subseteq opened
    /\ pc \in {"verify", "emergency"} => ref \in opened

GuardedTypes == LoopTypes /\ BookTypes /\ BrokerTypes

\* The ways the loop goes on: to another await, or to the end of the cycle.
LEMMA LoopMoves ==
    ASSUME LoopTypes
    PROVE  /\ EndCycle => LoopTypes'
           /\ \A await \in Awaits, k \in Nat :
                /\ Goto(await, k)
                /\ k <= IF await \in {"post", "confirm"} THEN MaxPosts ELSE Reads - 1
                /\ await \notin {"idle", "look"} => ref \in Refs
                => LoopTypes'
           /\ UNCHANGED loop => LoopTypes'
<1>1. MaxPosts \in Nat \ {0} /\ Reads \in Nat \ {0} /\ GuardedSize \in Nat
  BY GuardedPositionAssumption
<1> QED
  BY <1>1 DEF LoopTypes, EndCycle, Goto, loop, Awaits

\* A deal is resized: the others, and its levels, stay.
LEMMA ResizedPosition ==
    ASSUME BrokerTypes, NEW r \in Refs, NEW size \in 0..GuardedSize, Resize(r, size)
    PROVE  position' \in Positions /\ \A q \in Refs : Guarded(q)' <=> Guarded(q)
<1>1. position \in Positions
  BY DEF BrokerTypes
<1>2. \A q \in Refs : /\ position'[q].stop = position[q].stop
                      /\ position'[q].limit = position[q].limit
  BY <1>1 DEF Resize, Positions
<1> QED
  BY <1>1, <1>2 DEF Resize, Positions, Guarded

\* The rest of the state is as it was.
LEMMA BooksRest == BookTypes /\ UNCHANGED <<result, managed, seen>> => BookTypes'
  BY DEF BookTypes

\* A step that leaves the broker alone keeps its types.
LEMMA BrokerRests ==
    BrokerTypes /\ UNCHANGED <<ig, guardedHistory>>
      /\ (pc' \in {"verify", "emergency"} => ref' \in opened) => BrokerTypes'
  BY DEF BrokerTypes, ig, guardedHistory

\* Every step keeps the types of the loop's own state: where it awaits, and on which order.
LEMMA LoopTypeStep == GuardedTypes /\ [GuardedNext]_guardedVars => LoopTypes'
<1> SUFFICES ASSUME GuardedTypes, [GuardedNext]_guardedVars PROVE LoopTypes'
  OBVIOUS
<1>0. /\ LoopTypes /\ MaxPosts \in Nat \ {0} /\ Reads \in Nat \ {0}
      /\ {"look", "confirm", "verify", "emergency", "update", "readback", "post"} \subseteq Awaits
      /\ 0 \in Nat /\ seen \in [Refs -> 0..GuardedSize] /\ GuardedSize \in Nat
  BY GuardedPositionAssumption DEF GuardedTypes, Awaits, BookTypes
<1>1. CASE EndCycle \/ UNCHANGED loop
  BY <1>0, <1>1, LoopMoves
<1>2. CASE Refresh
  BY <1>0, <1>2, LoopMoves DEF Refresh
<1>3. CASE \E r \in Refs : PlaceGuardedOrder(r)
  BY <1>0, <1>3 DEF PlaceGuardedOrder, LoopTypes
<1>4. CASE PostAnswered
  <2>1. pc = "post" /\ Goto("confirm", n) /\ ref \in Refs /\ n \in Nat /\ n <= MaxPosts
    BY <1>0, <1>4 DEF PostAnswered, LoopTypes
  <2> QED
    BY <1>0, <2>1, LoopMoves
<1>5. CASE PostLost /\ ~EndCycle
  <2>1. pc = "post" /\ n < MaxPosts /\ Goto("post", n + 1) /\ ref \in Refs /\ n \in Nat
    BY <1>0, <1>5 DEF PostLost, Return, LoopTypes
  <2> QED
    BY <1>0, <2>1, LoopMoves
<1>6. CASE ConfirmAccepted
  <2>1. Goto("verify", 0) /\ ref \in Refs
    BY <1>0, <1>6 DEF ConfirmAccepted, LoopTypes
  <2> QED
    BY <1>0, <2>1, LoopMoves
<1>7. CASE ReadBare
  <2>1. ref \in Refs /\ n \in Nat /\ ((n < Reads - 1 /\ Goto("verify", n + 1)) \/ Goto("emergency", 0))
    BY <1>0, <1>7 DEF ReadBare, LoopTypes
  <2>2. CASE Goto("emergency", 0)
    BY <1>0, <2>1, <2>2, LoopMoves
  <2>3. CASE n < Reads - 1 /\ Goto("verify", n + 1)
    BY <1>0, <2>1, <2>3, LoopMoves
  <2> QED
    BY <2>1, <2>2, <2>3
<1>8. CASE (\E r \in Refs : Manage(r)) /\ ~EndCycle
  <2>1. PICK r \in Refs : Manage(r)
    BY <1>8
  <2>2. PICK half \in {seen[r] \div 2, (seen[r] + 1) \div 2} :
           /\ ~(half < 1 \/ seen[r] - half < 1)
           /\ pc' = "partial" /\ ref' = r /\ n' = 0 /\ amount' = half
    BY <1>8, <2>1 DEF Manage
  <2>3. half \in 0..GuardedSize
    BY <1>0, <2>2
  <2> QED
    BY <1>0, <2>2, <2>3 DEF LoopTypes, Awaits
<1>9. CASE PartialAccepted
  <2>1. Goto("update", 0) /\ ref \in Refs
    BY <1>0, <1>9 DEF PartialAccepted, LoopTypes
  <2> QED
    BY <1>0, <2>1, LoopMoves
<1>10. CASE UpdateUnclear
  <2>1. Goto("readback", 0) /\ ref \in Refs
    BY <1>0, <1>10 DEF UpdateUnclear, LoopTypes
  <2> QED
    BY <1>0, <2>1, LoopMoves
<1>11. CASE ReadbackFails /\ ~EndCycle
  <2>1. ref \in Refs /\ n \in Nat /\ n < Reads - 1 /\ Goto("readback", n + 1)
    BY <1>0, <1>11 DEF ReadbackFails, LoopTypes
  <2> QED
    BY <1>0, <2>1, LoopMoves
<1>12. CASE Broker \/ UNCHANGED guardedVars
  BY <1>1, <1>12 DEF Broker, Executes, Attaches, BrokerCloses, Moves, guardedVars
<1>13. CASE Hold \/ Restart
  BY <1>1, <1>13 DEF Hold, Restart
<1>14. CASE Placement
  BY <1>1, <1>3, <1>4, <1>5, <1>6, <1>7, <1>14 DEF Placement, PostGarbled, ConfirmRejected,
     ConfirmUnusable, ReadGuarded, EmergencyClose, EmergencyCloseLost, Return
<1>15. CASE Management
  BY <1>1, <1>8, <1>9, <1>10, <1>11, <1>15 DEF Management, PartialLost, PartialRejected,
     UpdateAccepted, UpdateRaises, ReadbackMatches, Taken
<1> QED
  BY <1>2, <1>12, <1>13, <1>14, <1>15 DEF GuardedNext

\* Every step keeps the types of what the loop has on its books.
LEMMA BookTypeStep == GuardedTypes /\ [GuardedNext]_guardedVars => BookTypes'
<1> SUFFICES ASSUME GuardedTypes, [GuardedNext]_guardedVars PROVE BookTypes'
  OBVIOUS
<1>0. /\ LoopTypes /\ BookTypes /\ position \in Positions
      /\ GuardedSize \in Nat
  BY GuardedPositionAssumption DEF GuardedTypes, BrokerTypes
<1>1. CASE UNCHANGED <<result, managed, seen>>
  BY <1>0, <1>1, BooksRest
<1>2. CASE Refresh
  <2>1. \A r \in Refs : position[r].size \in 0..GuardedSize
    BY <1>0 DEF Positions
  <2> QED
    BY <1>0, <1>2, <2>1 DEF Refresh, BookTypes
<1>3. CASE \E r \in Refs : PlaceGuardedOrder(r)
  BY <1>0, <1>3 DEF PlaceGuardedOrder, BookTypes
<1>4. ASSUME NEW answer \in {"accepted", "refused"}, Return(answer),
             managed' \in [Refs -> {"none", "waiting", "taken"}], UNCHANGED seen
      PROVE  BookTypes'
  BY <1>0, <1>4 DEF Return, BookTypes
<1>5. CASE Placement
  <2>1. CASE ReadGuarded
    <3>1. managed' \in [Refs -> {"none", "waiting", "taken"}] /\ UNCHANGED seen
      BY <1>0, <2>1 DEF ReadGuarded, BookTypes
    <3> QED
      BY <1>4, <2>1, <3>1 DEF ReadGuarded
  <2>2. CASE Return("refused") /\ UNCHANGED <<managed, seen>>
    BY <1>0, <1>4, <2>2 DEF BookTypes
  <2> QED
    BY <1>1, <1>3, <1>5, <2>1, <2>2 DEF Placement, PostAnswered, PostLost, PostGarbled,
       ConfirmAccepted, ConfirmRejected, ConfirmUnusable, ReadBare, EmergencyClose,
       EmergencyCloseLost, Goto
<1>6. ASSUME NEW r \in Refs, managed' = [managed EXCEPT ![r] = "taken"],
             UNCHANGED <<result, seen>>
      PROVE  BookTypes'
  BY <1>0, <1>6 DEF BookTypes
<1>7. CASE Management
  <2>1. CASE \E r \in Refs : Manage(r)
    BY <1>1, <1>6, <2>1 DEF Manage
  <2>2. CASE UpdateAccepted \/ ReadbackMatches
    <3>1. ref \in Refs
      BY <1>0, <2>2 DEF UpdateAccepted, ReadbackMatches, LoopTypes
    <3> QED
      BY <1>6, <2>2, <3>1 DEF UpdateAccepted, ReadbackMatches, Taken
  <2> QED
    BY <1>1, <1>7, <2>1, <2>2 DEF Management, PartialAccepted, PartialLost, PartialRejected,
       UpdateRaises, UpdateUnclear, ReadbackFails
<1>8. CASE Restart
  <2>1. result' = [r \in Refs |-> IF result[r] = "calling" THEN "refused" ELSE result[r]]
        /\ managed' = [r \in Refs |-> "none"] /\ seen' = [r \in Refs |-> 0]
    BY <1>8 DEF Restart
  <2> QED
    BY <1>0, <2>1 DEF BookTypes
<1>9. CASE Hold \/ Broker \/ UNCHANGED guardedVars
  BY <1>1, <1>9 DEF Hold, Broker, Executes, Attaches, BrokerCloses, Moves, guardedVars
<1> QED
  BY <1>2, <1>5, <1>7, <1>8, <1>9 DEF GuardedNext

\* Every step keeps the types of the broker's position and of the requests on the wire.
LEMMA BrokerTypeStep == GuardedTypes /\ [GuardedNext]_guardedVars => BrokerTypes'
<1> SUFFICES ASSUME GuardedTypes, [GuardedNext]_guardedVars PROVE BrokerTypes'
  OBVIOUS
<1>0. /\ LoopTypes /\ BookTypes /\ BrokerTypes /\ position \in Positions
      /\ GuardedSize \in Nat /\ 0 \in 0..GuardedSize /\ GuardedSize \in 0..GuardedSize
      /\ \A r \in Refs : position[r].size \in 0..GuardedSize
  BY GuardedPositionAssumption DEF GuardedTypes, BrokerTypes, Positions
<1> USE DEF ig, guardedHistory
\* Only the position changes, and the loop does not start to verify or to close.
<1>1. ASSUME position' \in Positions, opened \subseteq opened', opened' \subseteq Refs,
             onwire' \subseteq Refs, UNCHANGED <<cuts, declared>>,
             pc' \in {"verify", "emergency"} => pc' = pc /\ ref' = ref
      PROVE  BrokerTypes'
  BY <1>0, <1>1 DEF BrokerTypes
<1>2. ASSUME NEW r \in Refs, NEW size \in 0..GuardedSize, Resize(r, size)
      PROVE  position' \in Positions
  BY <1>0, <1>2, ResizedPosition
<1>3. CASE UNCHANGED <<ig, guardedHistory>> /\ pc' \notin {"verify", "emergency"}
  BY <1>0, <1>3, BrokerRests
<1>4. CASE Placement
  <2>1. CASE \E r \in Refs : PlaceGuardedOrder(r)
    <3>1. PICK r \in Refs : PlaceGuardedOrder(r)
      BY <2>1
    <3>2. /\ onwire' = onwire \cup {r} /\ pc' = "post"
          /\ UNCHANGED <<opened, position, cuts, declared>>
      BY <3>1 DEF PlaceGuardedOrder
    <3>3. onwire' \subseteq Refs
      BY <1>0, <3>2 DEF BrokerTypes
    <3>4. pc' \notin {"verify", "emergency"}
      BY <3>2
    <3> QED
      BY <1>0, <3>2, <3>3, <3>4 DEF BrokerTypes
  <2>2. CASE PostAnswered \/ PostLost \/ PostGarbled \/ ConfirmUnusable \/ ReadGuarded
    BY <1>3, <2>2 DEF PostAnswered, PostLost, PostGarbled, ConfirmUnusable, ReadGuarded,
                      Return, EndCycle, Goto
  <2>3. CASE ConfirmAccepted
    BY <1>0, <2>3, BrokerRests DEF ConfirmAccepted, Goto
  <2>4. CASE ConfirmRejected
    <3>1. /\ onwire' = onwire \ {ref} /\ pc' = "idle"
          /\ UNCHANGED <<opened, position, cuts, declared>>
      BY <2>4 DEF ConfirmRejected, Return, EndCycle
    <3> QED
      BY <1>0, <3>1 DEF BrokerTypes
  <2>5. CASE ReadBare
    BY <1>0, <2>5, BrokerRests DEF ReadBare, Goto, BrokerTypes
  <2>6. CASE EmergencyClose
    <3>1. ref \in opened /\ ref \in Refs
      BY <1>0, <2>6 DEF EmergencyClose, BrokerTypes
    <3>2. position' \in Positions
      BY <1>0, <1>2, <2>6, <3>1 DEF EmergencyClose
    <3>3. /\ declared' = declared \cup {ref} /\ pc' = "idle"
          /\ UNCHANGED <<onwire, opened, cuts>>
      BY <2>6 DEF EmergencyClose, Return, EndCycle
    <3> QED
      BY <1>0, <3>1, <3>2, <3>3 DEF BrokerTypes
  <2>7. CASE EmergencyCloseLost
    <3>1. ref \in Refs
      BY <1>0, <2>7 DEF EmergencyCloseLost, LoopTypes
    <3>2. position' \in Positions
      BY <1>0, <1>2, <2>7, <3>1 DEF EmergencyCloseLost
    <3>3. pc' = "idle" /\ UNCHANGED <<onwire, opened, cuts, declared>>
      BY <2>7 DEF EmergencyCloseLost, Return, EndCycle
    <3> QED
      BY <1>0, <1>1, <3>2, <3>3 DEF BrokerTypes
  <2> QED
    BY <1>4, <2>1, <2>2, <2>3, <2>4, <2>5, <2>6, <2>7 DEF Placement
<1>5. CASE Management
  <2>1. ASSUME Cuts, ref \in Refs, pc' \notin {"verify", "emergency"},
               UNCHANGED <<onwire, opened, declared>>
        PROVE  BrokerTypes'
    <3>1. amount \in 0..GuardedSize /\ position[ref].size - amount \in 0..GuardedSize
      BY <1>0, <2>1 DEF Cuts, LoopTypes
    <3>2. position' \in Positions
      BY <1>2, <2>1, <3>1 DEF Cuts
    <3>3. cuts' \in [Refs -> Nat]
      BY <1>0, <2>1 DEF Cuts, BrokerTypes
    <3> QED
      BY <1>0, <2>1, <3>2, <3>3 DEF BrokerTypes
  <2>2. CASE PartialAccepted \/ PartialLost
    <3>1. ref \in Refs /\ pc' \notin {"verify", "emergency"}
          /\ UNCHANGED <<onwire, opened, declared>>
      BY <1>0, <2>2 DEF PartialAccepted, PartialLost, Goto, EndCycle, LoopTypes
    <3>2. Cuts \/ UNCHANGED <<position, cuts>>
      BY <2>2 DEF PartialAccepted, PartialLost
    <3> QED
      BY <1>3, <2>1, <3>1, <3>2
  <2>3. CASE \E r \in Refs : Manage(r)
    BY <1>3, <2>3 DEF Manage, EndCycle
  <2> QED
    BY <1>3, <1>5, <2>2, <2>3 DEF Management, PartialRejected, UpdateAccepted, UpdateRaises,
       UpdateUnclear, ReadbackMatches, ReadbackFails, Taken, EndCycle, Goto
<1>6. CASE Broker
  <2>1. PICK r \in Refs : Executes(r) \/ Attaches(r) \/ BrokerCloses(r) \/ Moves(r)
    BY <1>6 DEF Broker
  <2>2. UNCHANGED <<pc, ref, cuts, declared>>
    BY <2>1 DEF Executes, Attaches, BrokerCloses, Moves, loop
  <2>3. CASE Executes(r)
    <3>1. PICK level \in BOOLEAN :
             position' = [position EXCEPT ![r] = [size |-> GuardedSize, limit |-> level,
                             stop |-> IF level THEN "initial" ELSE "none"]]
      BY <2>3 DEF Executes
    <3> DEFINE new == [size |-> GuardedSize, limit |-> level,
                       stop |-> IF level THEN "initial" ELSE "none"]
    <3>2. new \in [size : 0..GuardedSize, stop : {"none", "initial", "breakeven"},
                   limit : BOOLEAN]
      BY <1>0
    <3> HIDE DEF new
    <3>3. position' = [position EXCEPT ![r] = new]
      BY <3>1 DEF new
    <3>4. position' \in Positions
      BY <1>0, <3>2, <3>3 DEF Positions
    <3>5. onwire' = onwire \ {r} /\ opened' = opened \cup {r}
      BY <2>3 DEF Executes
    <3> QED
      BY <1>0, <1>1, <2>2, <3>4, <3>5 DEF BrokerTypes
  <2>4. CASE Attaches(r) \/ Moves(r)
    <3>1. PICK s \in {"initial", "breakeven"} :
             position' = [position EXCEPT ![r].stop = s, ![r].limit = TRUE]
      BY <2>4 DEF Attaches, Moves
    <3> DEFINE new == [[position[r] EXCEPT !.stop = s] EXCEPT !.limit = TRUE]
    <3>2. new \in [size : 0..GuardedSize, stop : {"none", "initial", "breakeven"},
                   limit : BOOLEAN]
      BY <1>0 DEF Positions
    <3>3. position' = [position EXCEPT ![r] = new]
      BY <1>0, <3>1 DEF Positions
    <3> HIDE DEF new
    <3>4. position' \in Positions
      BY <1>0, <3>2, <3>3 DEF Positions
    <3>5. UNCHANGED <<onwire, opened>>
      BY <2>4 DEF Attaches, Moves
    <3> QED
      BY <1>0, <1>1, <2>2, <3>4, <3>5 DEF BrokerTypes
  <2>5. CASE BrokerCloses(r)
    BY <1>0, <1>1, <1>2, <2>2, <2>5 DEF BrokerCloses, BrokerTypes
  <2> QED
    BY <2>1, <2>3, <2>4, <2>5
<1>7. CASE Refresh \/ Hold \/ Restart
  BY <1>3, <1>7 DEF Refresh, Hold, Restart, Goto, EndCycle
<1>8. CASE UNCHANGED guardedVars
  BY <1>0, <1>1, <1>8 DEF guardedVars, loop, BrokerTypes
<1> QED
  BY <1>4, <1>5, <1>6, <1>7, <1>8 DEF GuardedNext

\* The types of the guarded position, with: only an executed deal is verified or closed.
LEMMA GuardedTypesHold == GuardedSpec => []GuardedTypes
<1>1. GuardedInit => GuardedTypes
  <2>1. 0 \in 0..GuardedSize /\ 0 \in 0..(Reads - 1) /\ 0 \in Nat
    BY GuardedPositionAssumption
  <2> QED
    BY <2>1 DEF GuardedInit, GuardedTypes, LoopTypes, BookTypes, BrokerTypes, NoPosition,
                Awaits, Positions
<1>2. GuardedTypes /\ [GuardedNext]_guardedVars => GuardedTypes'
  BY LoopTypeStep, BookTypeStep, BrokerTypeStep DEF GuardedTypes
<1> QED
  BY <1>1, <1>2, PTL DEF GuardedSpec

\* Every variable of the guarded position keeps its type, whatever the faults; a deal is
\* declared closed in an emergency only when IG had executed its order.
THEOREM GuardedTypesCorrect == GuardedSpec => []GuardedTypeOK
<1>1. GuardedTypes => GuardedTypeOK
  BY DEF GuardedTypes, LoopTypes, BookTypes, BrokerTypes, GuardedTypeOK, Positions
<1> QED
  BY <1>1, GuardedTypesHold, PTL

-----------------------------------------------------------------------------
(* The guarded position: place_order implements its contract.              *)

\* A call is under way exactly while the loop awaits it; IG executes an order once, and
\* only one that was called and not reported accepted.
PlacementInv ==
    /\ \A r \in Refs : result[r] = "calling" <=> pc \in CallAwaits /\ ref = r
    /\ onwire \cap opened = {}
    /\ \A r \in onwire : result[r] \in {"calling", "refused"}
    /\ \A r \in opened : result[r] # "none"

\* The step that ends the call of the loop.
LEMMA CallReturns ==
    ASSUME GuardedTypes, PlacementInv, pc \in CallAwaits,
           NEW answer \in {"accepted", "refused"}, Return(answer)
    PROVE  /\ ref \in Refs /\ result[ref] = "calling"
           /\ result' = [result EXCEPT ![ref] = answer]
           /\ pc' = "idle"
           /\ \A r \in Refs : result'[r] # "calling"
           /\ \A r \in Refs \ {ref} : result'[r] = result[r]
<1>1. ref \in Refs /\ result \in [Refs -> {"none", "calling", "accepted", "refused"}]
  BY DEF GuardedTypes, LoopTypes, BookTypes, CallAwaits
<1>2. result[ref] = "calling"
  BY <1>1 DEF PlacementInv
<1>3. \A r \in Refs \ {ref} : result[r] # "calling"
  BY DEF PlacementInv
<1> QED
  BY <1>1, <1>2, <1>3 DEF Return, EndCycle

\* Every step keeps the relation between the call in progress and what the broker opened.
LEMMA PlacementStep ==
    ASSUME GuardedTypes, PlacementInv, [GuardedNext]_guardedVars
    PROVE  PlacementInv'
<1>0. /\ LoopTypes /\ BookTypes /\ BrokerTypes
      /\ result \in [Refs -> {"none", "calling", "accepted", "refused"}]
      /\ onwire \subseteq Refs /\ opened \subseteq Refs
      /\ CallAwaits = {"post", "confirm", "verify", "emergency"}
  BY DEF GuardedTypes, BookTypes, BrokerTypes, CallAwaits
<1> USE DEF ig, guardedHistory
\* The loop stays in its call, or outside one.
<1>1. ASSUME UNCHANGED <<result, onwire, opened>>,
             \/ pc \in CallAwaits /\ pc' \in CallAwaits /\ ref' = ref
             \/ pc \notin CallAwaits /\ pc' \notin CallAwaits
      PROVE  PlacementInv'
  BY <1>0, <1>1 DEF PlacementInv
\* The call returns; what is not on the wire any more is not executed.
<1>2. ASSUME pc \in CallAwaits, NEW answer \in {"accepted", "refused"}, Return(answer),
             onwire' \subseteq onwire, answer = "accepted" => ref \notin onwire,
             UNCHANGED opened
      PROVE  PlacementInv'
  <2>1. /\ ref \in Refs /\ result'[ref] = answer /\ pc' = "idle"
        /\ \A r \in Refs : result'[r] # "calling"
        /\ \A r \in Refs \ {ref} : result'[r] = result[r]
    BY <1>0, <1>2, CallReturns
  <2>2. \A r \in onwire' : result'[r] \in {"calling", "refused"}
    BY <1>0, <1>2, <2>1 DEF PlacementInv
  <2>3. \A r \in opened' : result'[r] # "none"
    BY <1>0, <1>2, <2>1 DEF PlacementInv
  <2> QED
    BY <1>0, <1>2, <2>1, <2>2, <2>3 DEF PlacementInv
<1>3. CASE Placement
  <2>1. CASE \E r \in Refs : PlaceGuardedOrder(r)
    <3>1. PICK r \in Refs : PlaceGuardedOrder(r)
      BY <2>1
    <3>2. /\ pc = "look" /\ pc' = "post" /\ ref' = r /\ result[r] = "none"
          /\ result' = [result EXCEPT ![r] = "calling"]
          /\ onwire' = onwire \cup {r} /\ UNCHANGED opened
      BY <3>1 DEF PlaceGuardedOrder
    <3>3. r \notin onwire /\ r \notin opened
      BY <3>2 DEF PlacementInv
    <3>4. \A q \in Refs : result[q] # "calling"
      BY <1>0, <3>2 DEF PlacementInv
    <3>5. result'[r] = "calling" /\ \A q \in Refs \ {r} : result'[q] = result[q]
      BY <1>0, <3>2
    <3> QED
      BY <1>0, <3>2, <3>3, <3>4, <3>5 DEF PlacementInv
  <2>2. CASE PostAnswered \/ ConfirmAccepted \/ ReadBare
    BY <1>0, <1>1, <2>2 DEF PostAnswered, ConfirmAccepted, ReadBare, Goto
  <2>3. CASE PostLost /\ UNCHANGED result
    <3>1. pc = "post" /\ UNCHANGED <<onwire, opened>>
      BY <2>3 DEF PostLost
    <3>2. CASE n < MaxPosts
      BY <1>0, <1>1, <2>3, <3>1, <3>2 DEF PostLost, Goto
    <3>3. CASE ~(n < MaxPosts)
      BY <1>0, <1>2, <2>3, <3>1, <3>3 DEF PostLost
    <3> QED
      BY <3>2, <3>3
  <2>4. CASE \/ PostLost /\ ~UNCHANGED result
             \/ PostGarbled \/ ConfirmRejected \/ ConfirmUnusable
             \/ EmergencyClose \/ EmergencyCloseLost
    <3>1. pc \in CallAwaits /\ Return("refused") /\ onwire' \subseteq onwire /\ UNCHANGED opened
      BY <1>0, <2>4 DEF PostLost, PostGarbled, ConfirmRejected, ConfirmUnusable,
                        EmergencyClose, EmergencyCloseLost
    <3> QED
      BY <1>2, <3>1
  <2>5. CASE ReadGuarded
    <3>1. pc = "verify" /\ Return("accepted") /\ UNCHANGED <<onwire, opened>>
      BY <2>5 DEF ReadGuarded
    <3>2. ref \notin onwire
      BY <1>0, <3>1 DEF BrokerTypes, PlacementInv
    <3> QED
      BY <1>0, <1>2, <3>1, <3>2
  <2> QED
    BY <1>3, <2>1, <2>2, <2>3, <2>4, <2>5 DEF Placement
<1>4. CASE Management
  <2>1. /\ pc \notin CallAwaits /\ pc' \notin CallAwaits
        /\ UNCHANGED <<result, onwire, opened>>
    BY <1>0, <1>4 DEF Management, Manage, PartialAccepted, PartialLost, PartialRejected,
       UpdateAccepted, UpdateRaises, UpdateUnclear, ReadbackMatches, ReadbackFails, Taken,
       EndCycle, Goto
  <2> QED
    BY <1>1, <2>1
<1>5. CASE Broker
  <2>1. PICK r \in Refs : Executes(r) \/ Attaches(r) \/ BrokerCloses(r) \/ Moves(r)
    BY <1>5 DEF Broker
  <2>2. UNCHANGED <<pc, ref, result>>
    BY <2>1 DEF Executes, Attaches, BrokerCloses, Moves, loop
  <2>3. CASE Executes(r)
    <3>1. r \in onwire /\ onwire' = onwire \ {r} /\ opened' = opened \cup {r}
      BY <2>3 DEF Executes
    <3> QED
      BY <1>0, <2>2, <3>1 DEF PlacementInv
  <2>4. CASE Attaches(r) \/ BrokerCloses(r) \/ Moves(r)
    BY <1>0, <1>1, <2>2, <2>4 DEF Attaches, BrokerCloses, Moves
  <2> QED
    BY <2>1, <2>3, <2>4
<1>6. CASE Refresh \/ Hold
  BY <1>0, <1>1, <1>6 DEF Refresh, Hold, Goto, EndCycle
<1>7. CASE Restart
  <2>1. /\ result' = [r \in Refs |-> IF result[r] = "calling" THEN "refused" ELSE result[r]]
        /\ pc' = "idle" /\ UNCHANGED <<onwire, opened>>
    BY <1>7 DEF Restart, EndCycle
  <2>2. \A r \in Refs : /\ result'[r] # "calling"
                        /\ result[r] \in {"calling", "refused"} => result'[r] = "refused"
                        /\ result[r] # "none" => result'[r] # "none"
    BY <1>0, <2>1
  <2> QED
    BY <1>0, <2>1, <2>2 DEF PlacementInv
<1>8. CASE UNCHANGED guardedVars
  BY <1>0, <1>8 DEF guardedVars, loop, PlacementInv
<1> QED
  BY <1>3, <1>4, <1>5, <1>6, <1>7, <1>8 DEF GuardedNext

\* PlacementInv holds throughout.
LEMMA PlacementInvHolds == GuardedSpec => []PlacementInv
<1>1. GuardedInit => PlacementInv
  BY DEF GuardedInit, PlacementInv, CallAwaits
<1>2. GuardedTypes /\ PlacementInv /\ [GuardedNext]_guardedVars => PlacementInv'
  BY PlacementStep
<1> QED
  BY <1>1, <1>2, GuardedTypesHold, PTL DEF GuardedSpec

-----------------------------------------------------------------------------
(* The refinement, step by step.                                           *)

\* What the caller of place_order can see of an order at IG.
DealOf == [r \in Refs |-> IF r \notin opened THEN "none"
                          ELSE IF Guarded(r) THEN "guarded" ELSE "bare"]

\* A step that opens nothing and touches no level.
LEMMA SameDeals ==
    ASSUME UNCHANGED opened, \A r \in Refs : Guarded(r)' <=> Guarded(r)
    PROVE  DealOf' = DealOf
  BY DEF DealOf

\* Every step of the guarded placement is a step of the contract, or leaves its state alone.
LEMMA PlacementRefines ==
    ASSUME GuardedTypes, PlacementInv, [GuardedNext]_guardedVars
    PROVE  [Contract!Next]_(Contract!vars)
<1>0. /\ LoopTypes /\ BookTypes /\ BrokerTypes /\ position \in Positions
      /\ result \in [Refs -> {"none", "calling", "accepted", "refused"}]
      /\ GuardedSize \in Nat /\ 0 \in 0..GuardedSize
      /\ \A r \in Refs : position[r].size \in 0..GuardedSize
      /\ opened \subseteq Refs /\ onwire \subseteq Refs
      /\ CallAwaits = {"post", "confirm", "verify", "emergency"}
  BY GuardedPositionAssumption DEF GuardedTypes, BookTypes, BrokerTypes, Positions, CallAwaits
<1> USE DEF ig, guardedHistory
\* The steps of the contract, in the words of this module.
<1>a. ASSUME UNCHANGED result, DealOf' = DealOf PROVE [Contract!Next]_(Contract!vars)
  BY <1>a DEF DealOf, Contract!vars
<1>b. ASSUME NEW r \in Refs, result[r] = "none", \A q \in Refs : result[q] # "calling",
             result' = [result EXCEPT ![r] = "calling"], DealOf' = DealOf
      PROVE  Contract!Next
  BY <1>b DEF DealOf, Contract!Next, Contract!Call
<1>c. ASSUME NEW r \in Refs, result[r] \in {"calling", "refused"}, DealOf[r] = "none",
             NEW d \in {"bare", "guarded"}, DealOf' = [DealOf EXCEPT ![r] = d],
             UNCHANGED result
      PROVE  Contract!Next
  BY <1>c DEF DealOf, Contract!Next, Contract!Fill
<1>d. ASSUME NEW r \in Refs, DealOf[r] = "bare", DealOf' = [DealOf EXCEPT ![r] = "guarded"],
             UNCHANGED result
      PROVE  Contract!Next
  BY <1>d DEF DealOf, Contract!Next, Contract!Attach
<1>e. ASSUME NEW r \in Refs, result[r] = "calling", DealOf[r] = "guarded",
             result' = [result EXCEPT ![r] = "accepted"], DealOf' = DealOf
      PROVE  Contract!Next
  BY <1>e DEF DealOf, Contract!Next, Contract!Accept
<1>f. ASSUME NEW r \in Refs, result[r] = "calling",
             result' = [result EXCEPT ![r] = "refused"], DealOf' = DealOf
      PROVE  Contract!Next
  BY <1>f DEF DealOf, Contract!Next, Contract!Refuse
\* Closing, in part or whole, touches no level.
<1>g. ASSUME UNCHANGED opened, \/ UNCHANGED position
             \/ \E r \in Refs : \E size \in 0..GuardedSize : Resize(r, size)
      PROVE  DealOf' = DealOf
  <2>1. CASE UNCHANGED position
    BY <1>g, <2>1, SameDeals DEF Guarded
  <2>2. CASE \E r \in Refs : \E size \in 0..GuardedSize : Resize(r, size)
    BY <1>0, <1>g, <2>2, ResizedPosition, SameDeals
  <2> QED
    BY <1>g, <2>1, <2>2
<1>1. CASE Placement
  <2>1. CASE \E r \in Refs : PlaceGuardedOrder(r)
    <3>1. PICK r \in Refs : PlaceGuardedOrder(r)
      BY <2>1
    <3>2. /\ pc = "look" /\ result[r] = "none"
          /\ result' = [result EXCEPT ![r] = "calling"] /\ UNCHANGED <<opened, position>>
      BY <3>1 DEF PlaceGuardedOrder
    <3>3. \A q \in Refs : result[q] # "calling"
      BY <1>0, <3>2 DEF PlacementInv
    <3> QED
      BY <1>b, <1>g, <3>2, <3>3
  <2>2. CASE PostAnswered \/ ConfirmAccepted \/ ReadBare
    BY <1>a, <1>g, <2>2 DEF PostAnswered, ConfirmAccepted, ReadBare
  <2>3. CASE PostLost \/ PostGarbled \/ ConfirmRejected \/ ConfirmUnusable
              \/ EmergencyClose \/ EmergencyCloseLost
    <3>1. pc \in CallAwaits /\ ref \in Refs /\ UNCHANGED opened
      BY <1>0, <2>3 DEF PostLost, PostGarbled, ConfirmRejected, ConfirmUnusable,
                        EmergencyClose, EmergencyCloseLost, LoopTypes
    <3>2. UNCHANGED position \/ Resize(ref, 0)
      BY <2>3 DEF PostLost, PostGarbled, ConfirmRejected, ConfirmUnusable,
                  EmergencyClose, EmergencyCloseLost
    <3>3. DealOf' = DealOf
      BY <1>0, <1>g, <3>1, <3>2
    <3>4. UNCHANGED result \/ Return("refused")
      BY <2>3 DEF PostLost, PostGarbled, ConfirmRejected, ConfirmUnusable,
                  EmergencyClose, EmergencyCloseLost
    <3> QED
      BY <1>a, <1>f, <3>1, <3>3, <3>4, CallReturns
  <2>4. CASE ReadGuarded
    <3>1. /\ pc = "verify" /\ Guarded(ref) /\ Return("accepted")
          /\ UNCHANGED <<opened, position>>
      BY <2>4 DEF ReadGuarded
    <3>2. DealOf[ref] = "guarded"
      BY <1>0, <3>1 DEF BrokerTypes, DealOf
    <3> QED
      BY <1>0, <1>e, <1>g, <3>1, <3>2, CallReturns
  <2> QED
    BY <1>1, <2>1, <2>2, <2>3, <2>4 DEF Placement
<1>2. CASE Management
  <2>1. UNCHANGED <<result, opened>>
    BY <1>2 DEF Management, Manage, PartialAccepted, PartialLost, PartialRejected,
       UpdateAccepted, UpdateRaises, UpdateUnclear, ReadbackMatches, ReadbackFails
  <2>2. CASE PartialAccepted \/ PartialLost
    <3>1. ref \in Refs /\ amount \in 0..GuardedSize
      BY <1>0, <2>2 DEF PartialAccepted, PartialLost, LoopTypes
    <3>2. CASE Cuts
      <4>1. position[ref].size - amount \in 0..GuardedSize
        BY <1>0, <3>1, <3>2 DEF Cuts
      <4> QED
        BY <1>a, <1>g, <2>1, <3>1, <3>2, <4>1 DEF Cuts
    <3>3. CASE UNCHANGED position
      BY <1>a, <1>g, <2>1, <3>3
    <3> QED
      BY <2>2, <3>2, <3>3 DEF PartialAccepted, PartialLost
  <2>3. CASE UNCHANGED position
    BY <1>a, <1>g, <2>1, <2>3
  <2> QED
    BY <1>2, <2>2, <2>3 DEF Management, Manage, PartialRejected,
       UpdateAccepted, UpdateRaises, UpdateUnclear, ReadbackMatches, ReadbackFails
<1>3. CASE Broker
  <2>1. PICK r \in Refs : Executes(r) \/ Attaches(r) \/ BrokerCloses(r) \/ Moves(r)
    BY <1>3 DEF Broker
  <2>2. UNCHANGED result
    BY <2>1 DEF Executes, Attaches, BrokerCloses, Moves
  <2>3. CASE Executes(r)
    <3>1. /\ r \in onwire /\ opened' = opened \cup {r}
          /\ \E new : position' = [position EXCEPT ![r] = new]
      BY <2>3 DEF Executes
    <3>2. DealOf[r] = "none" /\ result[r] \in {"calling", "refused"}
      BY <1>0, <3>1 DEF PlacementInv, DealOf
    <3>3. \A q \in Refs \ {r} : Guarded(q)' <=> Guarded(q)
      BY <1>0, <3>1 DEF Guarded, Positions
    <3>4. PICK d \in {"bare", "guarded"} : d = IF Guarded(r)' THEN "guarded" ELSE "bare"
      OBVIOUS
    <3>5. DealOf' = [DealOf EXCEPT ![r] = d]
      BY <3>1, <3>3, <3>4 DEF DealOf
    <3> QED
      BY <1>0, <1>c, <2>2, <3>1, <3>2, <3>5
  <2>4. CASE Attaches(r) \/ Moves(r)
    <3>1. PICK s \in {"initial", "breakeven"} :
             position' = [position EXCEPT ![r].stop = s, ![r].limit = TRUE]
      BY <2>4 DEF Attaches, Moves
    <3>2. UNCHANGED opened
      BY <2>4 DEF Attaches, Moves
    <3>3. position'[r].stop = s /\ position'[r].limit
      BY <1>0, <3>1 DEF Positions
    <3>4. Guarded(r)'
      BY <3>1, <3>3 DEF Guarded
    <3>5. \A q \in Refs \ {r} : position'[q] = position[q]
      BY <1>0, <3>1 DEF Positions
    <3>6. \A q \in Refs \ {r} : Guarded(q)' <=> Guarded(q)
      BY <3>5 DEF Guarded
    <3>7. CASE DealOf[r] = "bare"
      <4>1. DealOf' = [DealOf EXCEPT ![r] = "guarded"]
        BY <3>2, <3>4, <3>6, <3>7 DEF DealOf
      <4> QED
        BY <1>d, <2>2, <3>7, <4>1
    <3>8. CASE DealOf[r] # "bare"
      <4>1. DealOf' = DealOf
        BY <3>2, <3>4, <3>6, <3>8 DEF DealOf
      <4> QED
        BY <1>a, <2>2, <4>1
    <3> QED
      BY <3>7, <3>8
  <2>5. CASE BrokerCloses(r)
    BY <1>0, <1>a, <1>g, <2>2, <2>5 DEF BrokerCloses
  <2> QED
    BY <2>1, <2>3, <2>4, <2>5
<1>4. CASE Refresh \/ Hold
  BY <1>a, <1>g, <1>4 DEF Refresh, Hold
<1>5. CASE Restart
  <2>1. /\ result' = [r \in Refs |-> IF result[r] = "calling" THEN "refused" ELSE result[r]]
        /\ UNCHANGED <<opened, position>>
    BY <1>5 DEF Restart
  <2>2. DealOf' = DealOf
    BY <1>g, <2>1
  <2>3. CASE pc \in CallAwaits
    <3>1. ref \in Refs /\ result[ref] = "calling"
          /\ \A r \in Refs \ {ref} : result[r] # "calling"
      BY <1>0, <2>3 DEF LoopTypes, PlacementInv
    <3>2. result' = [result EXCEPT ![ref] = "refused"]
      BY <1>0, <2>1, <3>1
    <3> QED
      BY <1>f, <2>2, <3>1, <3>2
  <2>4. CASE pc \notin CallAwaits
    <3>1. \A r \in Refs : result[r] # "calling"
      BY <2>4 DEF PlacementInv
    <3>2. result' = result
      BY <1>0, <2>1, <3>1
    <3> QED
      BY <1>a, <2>2, <3>2
  <2> QED
    BY <2>3, <2>4
<1>6. CASE UNCHANGED guardedVars
  BY <1>a, <1>g, <1>6 DEF guardedVars
<1> QED
  BY <1>1, <1>2, <1>3, <1>4, <1>5, <1>6 DEF GuardedNext

\* The safety of place_order's contract, for every number of orders, retries and reads
\* and every fault: an order is reported accepted only while it is called and only when
\* its deal is open with stop and limit, IG fills it once and never after acceptance.
THEOREM PlacementKeepsContract ==
    GuardedSpec => Contract!Init /\ [][Contract!Next]_(Contract!vars)
<1>1. GuardedInit => Contract!Init
  BY DEF GuardedInit, Contract!Init
<1>2. GuardedTypes /\ PlacementInv /\ [GuardedNext]_guardedVars
        => [Contract!Next]_(Contract!vars)
  BY PlacementRefines
<1> QED
  BY <1>1, <1>2, GuardedTypesHold, PlacementInvHolds, PTL DEF GuardedSpec

\* An update of the stop that ends in partial_taken has the broker's stop at breakeven,
\* also when its answer was unclear and the position had to be read back.
THEOREM TakenWasVerified == GuardedSpec => TakenIsVerified
<1>1. ASSUME GuardedTypes, GuardedNext, NEW r \in Refs, pc \in {"update", "readback"},
             managed'[r] # managed[r], managed'[r] = "taken"
      PROVE  position[r].stop = "breakeven"
  <2>1. managed \in [Refs -> {"none", "waiting", "taken"}]
    BY <1>1 DEF GuardedTypes, BookTypes
  <2>2. ASSUME NEW q \in Refs \cup {0}, managed' = [managed EXCEPT ![q] = "taken"]
        PROVE  r = q
    BY <1>1, <2>1, <2>2
  <2>3. ref \in Refs
    BY <1>1 DEF GuardedTypes, LoopTypes
  <2>4. ~UNCHANGED managed
    BY <1>1
  <2>5. UpdateAccepted \/ ReadbackMatches \/ Restart
    BY <1>1, <2>4 DEF GuardedNext, Refresh, Hold, Placement, PlaceGuardedOrder, PostAnswered,
       PostLost, PostGarbled, ConfirmAccepted, ConfirmRejected, ConfirmUnusable, ReadGuarded,
       ReadBare, EmergencyClose, EmergencyCloseLost, Management, Manage, PartialAccepted,
       PartialLost, PartialRejected, UpdateRaises, UpdateUnclear, ReadbackFails, Broker,
       Executes, Attaches, BrokerCloses, Moves
  <2>6. ~Restart
    BY <1>1 DEF Restart
  <2> QED
    BY <2>2, <2>3, <2>5, <2>6 DEF UpdateAccepted, ReadbackMatches, Taken
<1>2. GuardedTypes /\ [GuardedNext]_guardedVars =>
        [\A r \in Refs : pc \in {"update", "readback"} /\ managed'[r] # managed[r]
            /\ managed'[r] = "taken" => position[r].stop = "breakeven"]_guardedVars
  BY <1>1
<1> QED
  BY <1>2, GuardedTypesHold, PTL DEF GuardedSpec, TakenIsVerified
=============================================================================
