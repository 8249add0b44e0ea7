---------------------------- MODULE Prices_proofs ----------------------------
(***************************************************************************)
(* Theorems about the way from prices to decisions: stops, the price       *)
(* stream, the candles built from it, the liquidity sweep, the             *)
(* high-frequency path and the trading hours.  They hold for every set of  *)
(* prices, candles, instruments, handlers and coroutines.                  *)
(***************************************************************************)
EXTENDS MarketStream, CandleBuffer, LiquiditySweep, Stops, HFTPipeline, HFTRateLimiter, HFTRisk,
        MarketHours, FiniteSetTheorems, TLAPS

-----------------------------------------------------------------------------
(* Stops.                                                                  *)

\* What the news handlers have read was a stop no worse than the one at entry, so that what
\* they make of it is no worse either.
StopsInv ==
    /\ side \in {1, -1} /\ market \in Int /\ stop_level \in Int
    /\ is_open \in BOOLEAN /\ was_widened \in BOOLEAN
    /\ handling \in [NewsHandlers -> [at : {"idle", "price", "tighten"}, stop : Int,
                                      price : Int]]
    /\ RiskNeverGrows
    /\ ~was_widened =>
         \A h \in NewsHandlers : handling[h].at # "idle" =>
            side * handling[h].stop >= side * InitialStop(side)

\* The numbers of the stops are integers.
LEMMA StopNumbers ==
    ASSUME StopsInv
    PROVE  /\ Entry \in Int /\ HalfATR \in Int /\ InitialStop(side) \in Int
           /\ \A x \in Int : side * x \in Int /\ WidenForEvent(x) \in Int
           /\ TrailingStop(market) \in Int
           /\ \A x, p \in Int : TightenOnNews(p, x) \in Int
           /\ \A x, y, z \in Int : side * x >= side * y /\ side * y >= side * z
                                    => side * x >= side * z
<1>1. Entry \in Int /\ HalfATR \in Int /\ StopMultiplier \in Int /\ HalfATR > 0
  BY StopsAssumption
<1>2. side = 1 \/ side = -1
  BY DEF StopsInv
<1>3. HalfATR * StopMultiplier \in Int /\ side * HalfATR \in Int
  BY <1>1, <1>2
<1>4. side * HalfATR * StopMultiplier \in Int
  BY <1>1, <1>3
<1>5. InitialStop(side) \in Int /\ RiskDistance \in Int
  BY <1>1, <1>2, <1>4 DEF InitialStop, RiskDistance
<1>6. \A x \in Int : side * x \in Int
  BY <1>2
<1>7. ASSUME NEW x \in Int, NEW p \in Int
      PROVE  WidenForEvent(x) \in Int /\ TightenOnNews(p, x) \in Int
  <2>1. side * 2 * HalfATR \in Int
    BY <1>1, <1>2
  <2> QED
    BY <1>3, <2>1 DEF WidenForEvent, TightenOnNews
<1>8. TrailingStop(market) \in Int
  <2>1. market \in Int
    BY DEF StopsInv
  <2>2. side * (market - Entry) - RiskDistance \in Int
    BY <1>1, <1>2, <1>5, <2>1
  <2>3. (side * (market - Entry) - RiskDistance) \div HalfATR \in Int
    BY <1>1, <2>2
  <2> DEFINE steps == (side * (market - Entry) - RiskDistance) \div HalfATR
  <2> HIDE DEF steps
  <2>4. side * HalfATR * steps \in Int
    BY <1>3, <2>3 DEF steps
  <2> QED
    BY <1>1, <2>4 DEF TrailingStop, steps
<1>9. ASSUME NEW x \in Int, NEW y \in Int, NEW z \in Int,
             side * x >= side * y, side * y >= side * z
      PROVE  side * x >= side * z
  BY <1>2, <1>9
<1> QED
  BY <1>1, <1>5, <1>6, <1>7, <1>8, <1>9

\* Every step of StopsNext preserves the invariant.
LEMMA StopsStep ==
    ASSUME StopsInv, [StopsNext]_stopVars
    PROVE  StopsInv'
<1>0. /\ side \in {1, -1} /\ market \in Int /\ stop_level \in Int
      /\ is_open \in BOOLEAN /\ was_widened \in BOOLEAN
      /\ handling \in [NewsHandlers -> [at : {"idle", "price", "tighten"}, stop : Int,
                                        price : Int]]
      /\ ~was_widened => side * stop_level >= side * InitialStop(side)
  BY DEF StopsInv, RiskNeverGrows
<1>1. ASSUME NEW price \in MarketPrices, PriceMoves(price) PROVE StopsInv'
  <2>1. market' \in Int
    BY <1>1, StopsAssumption DEF PriceMoves
  <2>2. is_open' \in BOOLEAN
    BY <1>1 DEF PriceMoves
  <2>3. UNCHANGED <<side, stop_level, handling, was_widened>>
    BY <1>1 DEF PriceMoves
  <2> QED
    BY <2>1, <2>2, <2>3 DEF StopsInv, RiskNeverGrows
<1>2. CASE TrailingUpdate
  <2>1. /\ side * TrailingStop(market) > side * stop_level /\ stop_level' = TrailingStop(market)
        /\ UNCHANGED <<side, market, is_open, handling, was_widened>>
    BY <1>2 DEF TrailingUpdate, Trails
  <2>2. side * stop_level' >= side * stop_level /\ stop_level' \in Int
    BY <1>0, <2>1, StopNumbers
  <2>3. InitialStop(side) \in Int /\ stop_level \in Int
    BY <1>0, StopNumbers
  <2>4. ~was_widened => side * stop_level' >= side * InitialStop(side)
    BY <1>0, <2>2, <2>3, StopNumbers
  <2> QED
    BY <2>1, <2>2, <2>4 DEF StopsInv, RiskNeverGrows
<1>3. CASE EventWidening
  <2>1. /\ stop_level' = WidenForEvent(stop_level) /\ was_widened' = TRUE
        /\ UNCHANGED <<side, market, is_open, handling>>
    BY <1>3 DEF EventWidening
  <2>2. stop_level' \in Int
    BY <1>0, <2>1, StopNumbers
  <2> QED
    BY <1>0, <2>1, <2>2 DEF StopsInv, RiskNeverGrows
\* A handler writes only its own entry.
<1>4. ASSUME NEW h \in NewsHandlers,
             NEW new \in [at : {"idle", "price", "tighten"}, stop : Int, price : Int],
             handling' = [handling EXCEPT ![h] = new],
             ~was_widened /\ new.at # "idle" => side * new.stop >= side * InitialStop(side),
             stop_level' \in Int, is_open' \in BOOLEAN,
             ~was_widened => side * stop_level' >= side * InitialStop(side),
             UNCHANGED <<side, market, was_widened>>
      PROVE  StopsInv'
  <2>1. \A k \in NewsHandlers : handling'[k] = IF k = h THEN new ELSE handling[k]
    BY <1>0, <1>4
  <2>2. handling' \in [NewsHandlers -> [at : {"idle", "price", "tighten"}, stop : Int,
                                        price : Int]]
    BY <1>0, <1>4
  <2> QED
    BY <1>4, <2>1, <2>2 DEF StopsInv, RiskNeverGrows
<1>5. ASSUME NEW h \in NewsHandlers, ReadPositions(h) PROVE StopsInv'
  <2> DEFINE new == [at |-> "price", stop |-> stop_level, price |-> 0]
  <2>1. /\ new \in [at : {"idle", "price", "tighten"}, stop : Int, price : Int]
        /\ new.stop = stop_level
    BY <1>0
  <2>2. /\ handling' = [handling EXCEPT ![h] = new]
        /\ UNCHANGED <<side, market, stop_level, is_open, was_widened>>
    BY <1>5 DEF ReadPositions
  <2> HIDE DEF new
  <2> QED
    BY <1>0, <1>4, <2>1, <2>2
<1>6. ASSUME NEW h \in NewsHandlers, NEW b \in BOOLEAN, ReadPrice(h, b) PROVE StopsInv'
  <2> DEFINE new == IF b THEN [handling[h] EXCEPT !.at = "tighten", !.price = market]
                    ELSE NotHandling
  <2>1. /\ new \in [at : {"idle", "price", "tighten"}, stop : Int, price : Int]
        /\ new.at # "idle" => new.stop = handling[h].stop
    <3>1. CASE b = TRUE
      BY <1>0, <3>1
    <3>2. CASE b = FALSE
      BY <3>2 DEF NotHandling
    <3> QED
      BY <3>1, <3>2
  <2>2. /\ handling[h].at = "price" /\ handling' = [handling EXCEPT ![h] = new]
        /\ UNCHANGED <<side, market, stop_level, is_open, was_widened>>
    BY <1>6 DEF ReadPrice
  <2> HIDE DEF new
  <2>3. ~was_widened /\ new.at # "idle" => side * new.stop >= side * InitialStop(side)
    BY <2>1, <2>2 DEF StopsInv
  <2> QED
    BY <1>0, <1>4, <2>1, <2>2, <2>3
<1>7. ASSUME NEW h \in NewsHandlers, NEW opposing \in BOOLEAN, NEW applied \in BOOLEAN,
             Tighten(h, opposing, applied)
      PROVE  StopsInv'
  <2> DEFINE new_stop == TightenOnNews(handling[h].price, handling[h].stop)
  <2>1. /\ handling[h].at = "tighten" /\ handling' = [handling EXCEPT ![h] = NotHandling]
        /\ stop_level' = new_stop \/ stop_level' = stop_level
        /\ UNCHANGED <<side, market, was_widened>>
    BY <1>7 DEF Tighten
  <2>2. is_open' \in BOOLEAN
    BY <1>7 DEF Tighten
  <2>3. handling[h].price \in Int /\ handling[h].stop \in Int
    BY <1>0
  <2>4. side * new_stop >= side * handling[h].stop /\ new_stop \in Int
    BY <1>0, <2>3, StopNumbers DEF TightenOnNews
  <2>5. ~was_widened => side * handling[h].stop >= side * InitialStop(side)
    BY <2>1 DEF StopsInv
  <2> HIDE DEF new_stop
  <2>6. InitialStop(side) \in Int
    BY StopNumbers
  <2>7. ~was_widened => side * new_stop >= side * InitialStop(side)
    BY <2>3, <2>4, <2>5, <2>6, StopNumbers
  <2>8. stop_level' \in Int /\ (~was_widened => side * stop_level' >= side * InitialStop(side))
    BY <1>0, <2>1, <2>4, <2>7
  <2>9. NotHandling \in [at : {"idle", "price", "tighten"}, stop : Int, price : Int]
        /\ NotHandling.at = "idle"
    BY DEF NotHandling
  <2> QED
    BY <1>4, <2>1, <2>2, <2>8, <2>9
<1>8. CASE UNCHANGED stopVars
  BY <1>8 DEF stopVars, StopsInv, RiskNeverGrows
<1> QED
  BY <1>1, <1>2, <1>3, <1>5, <1>6, <1>7, <1>8 DEF StopsNext

\* Whatever the news handlers read before the trailing stop, the market or another handler
\* went on, and however many they are, no stop comes to lie further from the entry than the
\* first one, unless it was widened for a scheduled event.
THEOREM RiskIsNotEnlarged == StopsSpec => []RiskNeverGrows
<1>1. StopsInit => StopsInv
  <2> SUFFICES ASSUME StopsInit PROVE StopsInv
    OBVIOUS
  <2>1. side \in {1, -1} /\ Entry \in Int
    BY StopsAssumption DEF StopsInit
  <2>2. InitialStop(side) \in Int
    <3>1. side * HalfATR * StopMultiplier \in Int
      BY <2>1, StopsAssumption
    <3> QED
      BY <2>1, <3>1 DEF InitialStop
  <2>3. side * InitialStop(side) >= side * InitialStop(side)
    BY <2>1, <2>2
  <2> QED
    <3>1. handling \in [NewsHandlers -> [at : {"idle", "price", "tighten"}, stop : Int,
                                          price : Int]]
      BY DEF StopsInit, NotHandling
    <3>2. \A h \in NewsHandlers : handling[h].at = "idle"
      BY DEF StopsInit, NotHandling
    <3>3. RiskNeverGrows
      BY <2>3 DEF StopsInit, RiskNeverGrows
    <3> QED
      BY <2>1, <2>2, <3>1, <3>2, <3>3 DEF StopsInit, StopsInv
<1>2. StopsInv /\ [StopsNext]_stopVars => StopsInv'
  BY StopsStep
<1>3. StopsInv => RiskNeverGrows
  BY DEF StopsInv
<1> QED
  BY <1>1, <1>2, <1>3, PTL DEF StopsSpec

-----------------------------------------------------------------------------
(* The price stream.                                                       *)

\* Wherever a table key stands next to an instrument: in the books of the client, at the
\* server, in a request under way, and among the subscriptions still to be sent.
Known ==
    {<<t, tables[t]>> : t \in DOMAIN tables}
      \cup {<<s[2], s[3]>> : s \in served}
      \cup {<<p[2], p[1]>> : p \in pending}
      \cup {<<subs[e].table, e>> : e \in {x \in Epics : subs[x] # NoSub}}
      \cup {<<call[c].table, call[c].epic>> : c \in {d \in Clients : call[d].op = "subscribe"}}

Statuses == {"unsubscribed", "subscribing", "active", "stale", "error"}
SubRecords == [table : Nat, status : Statuses]
Subscriptions == [op : {"subscribe"}, epic : Epics, table : Nat, session : Nat, tries : Nat]
Calls == {NoCall, Starting} \cup Subscriptions
           \cup [op : {"unsubscribe"}, epic : Epics, session : Nat, table : Nat]

\* A key is given out once, to one instrument.
StreamInv ==
    /\ next_table \in Nat \ {0} /\ session_id \in Nat /\ sessions \in Nat
    /\ subs \in [Epics -> SubRecords]
    /\ call \in [Clients -> Calls]
    /\ \A p \in Known : p[1] \in 1..(next_table - 1) /\ p[2] \in Epics
    /\ \A p, q \in Known : p[1] = q[1] => p[2] = q[2]

\* Steps that give out no key: what is known was known before.
LEMMA NothingNew ==
    ASSUME StreamInv, Known' \subseteq Known, UNCHANGED next_table,
           session_id' \in Nat, sessions' \in Nat,
           subs' \in [Epics -> SubRecords],
           call' \in [Clients -> Calls]
    PROVE  StreamInv'
  BY DEF StreamInv

\* Known grows by no more than its parts do.
LEMMA KnownParts ==
    ASSUME NEW new,
           \A t \in DOMAIN tables' : <<t, tables'[t]>> \in Known \cup new,
           \A s \in served' : <<s[2], s[3]>> \in Known \cup new,
           \A p \in pending' : <<p[2], p[1]>> \in Known \cup new,
           \A e \in Epics : subs'[e] # NoSub => <<subs'[e].table, e>> \in Known \cup new,
           \A c \in Clients : call'[c].op = "subscribe" =>
              <<call'[c].table, call'[c].epic>> \in Known \cup new
    PROVE  Known' \subseteq Known \cup new
  BY DEF Known

\* What is in the parts is known.
LEMMA PartsKnown ==
    /\ \A t \in DOMAIN tables : <<t, tables[t]>> \in Known
    /\ \A s \in served : <<s[2], s[3]>> \in Known
    /\ \A p \in pending : <<p[2], p[1]>> \in Known
    /\ \A e \in Epics : subs[e] # NoSub => <<subs[e].table, e>> \in Known
    /\ \A c \in Clients : call[c].op = "subscribe" => <<call[c].table, call[c].epic>> \in Known
  BY DEF Known

\* A request that goes on, or ends, keeps its epic and its key.
LEMMA CallGoesOn ==
    ASSUME StreamInv, NEW c \in Clients, NEW new \in Calls, call' = [call EXCEPT ![c] = new],
           new.op = "subscribe" => call[c].op = "subscribe" /\ new.table = call[c].table
                                   /\ new.epic = call[c].epic
    PROVE  /\ call' \in [Clients -> Calls]
           /\ \A d \in Clients : call'[d].op = "subscribe" =>
                <<call'[d].table, call'[d].epic>> \in Known
<1>1. call \in [Clients -> Calls]
  BY DEF StreamInv
<1>2. \A d \in Clients : call'[d] = IF d = c THEN new ELSE call[d]
  BY <1>1
<1> QED
  BY <1>1, <1>2, PartsKnown

\* A subscription whose status changes keeps its key.
LEMMA StatusChanges ==
    ASSUME StreamInv, NEW e, e \in Epics => subs[e] # NoSub, NEW s \in Statuses,
           subs' = [subs EXCEPT ![e].status = s]
    PROVE  /\ subs' \in [Epics -> SubRecords]
           /\ \A x \in Epics : subs'[x] # NoSub => <<subs'[x].table, x>> \in Known
<1>1. subs \in [Epics -> SubRecords]
  BY DEF StreamInv
<1> USE DEF SubRecords
<1>2. \A x \in Epics : subs'[x].table = subs[x].table /\ (x # e => subs'[x] = subs[x])
  BY <1>1
<1> QED
  BY <1>1, <1>2, PartsKnown

\* A request served gives the server nothing but its own pair.
LEMMA AddedKnown ==
    ASSUME NEW session, NEW table, NEW e, <<table, e>> \in Known
    PROVE  \A s \in Added(session, table, e) : <<s[2], s[3]>> \in Known
<1> SUFFICES ASSUME NEW s \in Added(session, table, e) PROVE <<s[2], s[3]>> \in Known
  OBVIOUS
<1>1. s \in served \/ s = <<session, table, e>>
  BY DEF Added
<1>2. CASE s \in served
  BY <1>2, PartsKnown
<1>3. CASE s = <<session, table, e>>
  <2>1. s[2] = table /\ s[3] = e
    BY <1>3
  <2> QED
    BY <2>1
<1> QED
  BY <1>1, <1>2, <1>3

\* Every step of StreamNext preserves the invariant: only Subscribe gives out a key.
LEMMA StreamStep ==
    ASSUME StreamInv, [StreamNext]_streamVars
    PROVE  StreamInv'
<1> USE DEF books, link
<1>0. /\ next_table \in Nat \ {0} /\ session_id \in Nat /\ sessions \in Nat
      /\ subs \in [Epics -> SubRecords]
      /\ call \in [Clients -> Calls]
      /\ NoCall \in Calls /\ NoCall.op # "subscribe"
      /\ Starting \in Calls /\ Starting.op # "subscribe"
      /\ NoSub \in SubRecords /\ NoSub.status = "unsubscribed"
  BY DEF StreamInv, Calls, NoCall, Starting, NoSub, SubRecords, Statuses
<1>a. "active" \in Statuses /\ "stale" \in Statuses /\ "error" \in Statuses
  BY DEF Statuses
<1>b. ASSUME NEW e, subs' = [subs EXCEPT ![e].status = subs[e].status] PROVE subs' = subs
  <2>1. \A r \in SubRecords : [r EXCEPT !.status = r.status] = r
    BY DEF SubRecords
  <2>2. CASE e \in Epics
    BY <1>0, <1>b, <2>1, <2>2
  <2>3. CASE e \notin Epics
    BY <1>0, <1>b, <2>3
  <2> QED
    BY <2>2, <2>3
\* No new key: each part of what is known comes from what was known.
<1>1. ASSUME UNCHANGED next_table, session_id' \in Nat, sessions' \in Nat,
             subs' \in [Epics -> SubRecords],
             call' \in [Clients -> Calls],
             \A t \in DOMAIN tables' : <<t, tables'[t]>> \in Known,
             \A s \in served' : <<s[2], s[3]>> \in Known,
             \A p \in pending' : <<p[2], p[1]>> \in Known,
             \A e \in Epics : subs'[e] # NoSub => <<subs'[e].table, e>> \in Known,
             \A c \in Clients : call'[c].op = "subscribe" =>
                <<call'[c].table, call'[c].epic>> \in Known
      PROVE  StreamInv'
  <2>1. Known' \subseteq Known \cup {}
    BY <1>1, KnownParts
  <2> QED
    BY <1>1, <2>1, NothingNew
<1>2. \A session, reading : \A s \in Reachable(session, reading) : <<s[2], s[3]>> \in Known
  BY PartsKnown DEF Reachable
<1>3. ASSUME NEW c \in Clients, StartStream(c) PROVE StreamInv'
  <2>1. /\ call' = [call EXCEPT ![c] = Starting]
        /\ UNCHANGED <<session_id, sessions, served, subs, tables, next_table, pending>>
    BY <1>3 DEF StartStream
  <2>2. /\ call' \in [Clients -> Calls]
        /\ \A d \in Clients : call'[d].op = "subscribe" =>
             <<call'[d].table, call'[d].epic>> \in Known
    BY <1>0, <2>1, CallGoesOn
  <2> QED
    BY <1>0, <1>1, <2>1, <2>2, PartsKnown
<1>3a. ASSUME NEW c \in Clients, NEW ok \in BOOLEAN, Started(c, ok) PROVE StreamInv'
  <2>1. /\ sessions' \in Nat /\ session_id' \in Nat
        /\ served' = served \/ served' = Reachable(session_id', live)
        /\ call' = [call EXCEPT ![c] = NoCall]
        /\ UNCHANGED <<subs, tables, next_table, live, pending>>
    BY <1>0, <1>3a DEF Started
  <2>2. /\ call' \in [Clients -> Calls]
        /\ \A d \in Clients : call'[d].op = "subscribe" =>
             <<call'[d].table, call'[d].epic>> \in Known
    BY <1>0, <2>1, CallGoesOn
  <2> QED
    BY <1>0, <1>1, <1>2, <2>1, <2>2, PartsKnown
<1>4. ASSUME NEW c \in Clients, StopStream(c) PROVE StreamInv'
  <2>1. /\ pending' = {} /\ subs' = [e \in Epics |-> NoSub] /\ tables' = NoTables
        /\ served' = Reachable(session_id, 0)
        /\ UNCHANGED <<session_id, sessions, next_table, call>>
    BY <1>4 DEF StopStream
  <2>2. /\ subs' \in [Epics -> SubRecords]
        /\ \A e \in Epics : subs'[e] = NoSub
        /\ DOMAIN tables' = {}
    BY <1>0, <2>1 DEF NoTables
  <2> QED
    BY <1>0, <1>1, <1>2, <2>1, <2>2, PartsKnown
\* A new subscription takes a key nobody has.
<1>5. ASSUME NEW c \in Clients, NEW e \in Epics, Subscribe(c, e) PROVE StreamInv'
  <2> DEFINE key == next_table
             new == [op |-> "subscribe", epic |-> e, table |-> key, session |-> session_id,
                     tries |-> 1]
  <2>1. /\ subs' = [subs EXCEPT ![e] = [table |-> key, status |-> "subscribing"]]
        /\ tables' = [t \in DOMAIN tables \cup {key} |-> IF t = key THEN e ELSE tables[t]]
        /\ call' = [call EXCEPT ![c] = new]
        /\ next_table' = next_table + 1
        /\ UNCHANGED <<session_id, sessions, pending, served>>
    BY <1>5 DEF Subscribe, NextKey
  <2>2. new \in Calls /\ new.op = "subscribe" /\ new.table = key /\ new.epic = e
    BY <1>0 DEF Calls, Subscriptions
  <2> HIDE DEF new
  <2>3. call' \in [Clients -> Calls] /\ \A d \in Clients : call'[d] = IF d = c THEN new ELSE call[d]
    BY <1>0, <2>1, <2>2
  <2>4. /\ subs' \in [Epics -> SubRecords]
        /\ subs'[e].table = key /\ \A x \in Epics \ {e} : subs'[x] = subs[x]
    BY <1>0, <2>1 DEF SubRecords, Statuses
  <2>5. Known' \subseteq Known \cup {<<key, e>>}
    <3>1. \A t \in DOMAIN tables' : <<t, tables'[t]>> \in Known \cup {<<key, e>>}
      BY <2>1, PartsKnown
    <3>2. \A d \in Clients : call'[d].op = "subscribe" =>
             <<call'[d].table, call'[d].epic>> \in Known \cup {<<key, e>>}
      BY <2>2, <2>3, PartsKnown
    <3>3. \A x \in Epics : subs'[x] # NoSub => <<subs'[x].table, x>> \in Known \cup {<<key, e>>}
      BY <2>4, PartsKnown
    <3> QED
      BY <2>1, <3>1, <3>2, <3>3, PartsKnown, KnownParts
  <2>6. \A p \in Known : p[1] \in 1..(key - 1) /\ p[2] \in Epics
    BY DEF StreamInv
  <2>7. \A p \in Known' : p[1] \in 1..(next_table' - 1) /\ p[2] \in Epics
    BY <1>0, <2>1, <2>5, <2>6
  <2>8. \A p, q \in Known' : p[1] = q[1] => p[2] = q[2]
    BY <1>0, <2>5, <2>6 DEF StreamInv
  <2> QED
    BY <1>0, <2>1, <2>3, <2>4, <2>7, <2>8 DEF StreamInv
<1>6. ASSUME NEW c \in Clients, SubscribeSent(c) PROVE StreamInv'
  <2>1. /\ call[c].op = "subscribe" /\ subs[call[c].epic] # NoSub
        /\ served' = Added(call[c].session, call[c].table, call[c].epic)
        /\ subs' = [subs EXCEPT ![call[c].epic].status = "active"]
        /\ call' = [call EXCEPT ![c] = NoCall]
        /\ UNCHANGED <<session_id, sessions, pending, tables, next_table>>
    BY <1>6 DEF SubscribeSent
  <2>2. <<call[c].table, call[c].epic>> \in Known
    BY <2>1, PartsKnown
  <2>3. \A s \in served' : <<s[2], s[3]>> \in Known
    BY <2>1, <2>2, AddedKnown
  <2>4. /\ subs' \in [Epics -> SubRecords]
        /\ \A x \in Epics : subs'[x] # NoSub => <<subs'[x].table, x>> \in Known
    BY <1>0, <1>a, <2>1, StatusChanges
  <2>5. /\ call' \in [Clients -> Calls]
        /\ \A d \in Clients : call'[d].op = "subscribe" =>
             <<call'[d].table, call'[d].epic>> \in Known
    BY <1>0, <2>1, CallGoesOn
  <2> QED
    BY <1>0, <1>1, <2>1, <2>3, <2>4, <2>5, PartsKnown
<1>7. ASSUME NEW c \in Clients, NEW applied \in BOOLEAN, SubscribeFails(c, applied)
      PROVE  StreamInv'
  <2>1. call[c].op = "subscribe" /\ UNCHANGED <<session_id, sessions, pending, tables, next_table>>
    BY <1>7 DEF SubscribeFails
  <2>2. <<call[c].table, call[c].epic>> \in Known
    BY <2>1, PartsKnown
  <2>3. \A s \in served' : <<s[2], s[3]>> \in Known
    <3>1. served' = served \/ served' = Added(call[c].session, call[c].table, call[c].epic)
      BY <1>7 DEF SubscribeFails
    <3> QED
      BY <2>2, <3>1, AddedKnown, PartsKnown
  <2>4. CASE call[c].tries < SubscribeAttempts
    <3> DEFINE new == [[call[c] EXCEPT !.tries = @ + 1] EXCEPT !.session = session_id]
    <3>1. call[c] \in Subscriptions
      BY <1>0, <2>1 DEF Calls, NoCall, Starting
    <3>2. new \in Calls /\ new.table = call[c].table /\ new.epic = call[c].epic
      <4>1. call[c].tries + 1 \in Nat
        BY <3>1 DEF Subscriptions
      <4>2. new \in Subscriptions
        BY <1>0, <3>1, <4>1 DEF Subscriptions
      <4>3. new.table = call[c].table /\ new.epic = call[c].epic
        BY <3>1 DEF Subscriptions
      <4> QED
        BY <4>2, <4>3 DEF Calls
    <3>3. call' = [call EXCEPT ![c] = new] /\ UNCHANGED subs
      BY <1>0, <1>7, <2>4, <3>1 DEF SubscribeFails, Subscriptions
    <3> HIDE DEF new
    <3>4. /\ call' \in [Clients -> Calls]
          /\ \A d \in Clients : call'[d].op = "subscribe" =>
               <<call'[d].table, call'[d].epic>> \in Known
      BY <2>1, <3>2, <3>3, CallGoesOn
    <3> QED
      BY <1>0, <1>1, <2>1, <2>3, <3>3, <3>4, PartsKnown
  <2>5. CASE ~(call[c].tries < SubscribeAttempts)
    <3>1. /\ call' = [call EXCEPT ![c] = NoCall]
          /\ subs' = [subs EXCEPT ![call[c].epic].status =
                        IF subs[call[c].epic] = NoSub THEN @ ELSE "error"]
      BY <1>7, <2>5 DEF SubscribeFails
    <3>2. /\ call' \in [Clients -> Calls]
          /\ \A d \in Clients : call'[d].op = "subscribe" =>
               <<call'[d].table, call'[d].epic>> \in Known
      BY <1>0, <3>1, CallGoesOn
    <3>3. CASE subs[call[c].epic] = NoSub
      <4>1. subs' = subs
        BY <1>b, <3>1, <3>3
      <4> QED
        BY <1>0, <1>1, <2>1, <2>3, <3>2, <4>1, PartsKnown
    <3>4. CASE subs[call[c].epic] # NoSub
      <4>1. subs' = [subs EXCEPT ![call[c].epic].status = "error"]
        BY <3>1, <3>4
      <4>2. /\ subs' \in [Epics -> SubRecords]
            /\ \A x \in Epics : subs'[x] # NoSub => <<subs'[x].table, x>> \in Known
        BY <1>a, <3>4, <4>1, StatusChanges
      <4> QED
        BY <1>0, <1>1, <2>1, <2>3, <3>2, <4>2, PartsKnown
    <3> QED
      BY <3>3, <3>4
  <2> QED
    BY <2>4, <2>5
<1>8. ASSUME NEW c \in Clients, NEW e \in Epics, Unsubscribe(c, e) PROVE StreamInv'
  <2> DEFINE new == [op |-> "unsubscribe", epic |-> e, session |-> session_id,
                     table |-> subs[e].table]
  <2>1. new \in Calls /\ new.op = "unsubscribe"
    BY <1>0 DEF Calls, SubRecords
  <2>2. /\ call' = [call EXCEPT ![c] = new]
        /\ UNCHANGED <<session_id, sessions, pending, subs, tables, next_table, served>>
    BY <1>8 DEF Unsubscribe
  <2> HIDE DEF new
  <2>3. /\ call' \in [Clients -> Calls]
        /\ \A d \in Clients : call'[d].op = "subscribe" =>
             <<call'[d].table, call'[d].epic>> \in Known
    BY <2>1, <2>2, CallGoesOn
  <2> QED
    BY <1>0, <1>1, <2>2, <2>3, PartsKnown
<1>9. ASSUME NEW c \in Clients, NEW applied \in BOOLEAN, Unsubscribed(c, applied)
      PROVE  StreamInv'
  <2>1. /\ call' = [call EXCEPT ![c] = NoCall]
        /\ UNCHANGED <<session_id, sessions, pending, next_table>>
        /\ served' = served \/ served' = Deleted(call[c].session, call[c].table)
    BY <1>9 DEF Unsubscribed
  <2>2. /\ call' \in [Clients -> Calls]
        /\ \A d \in Clients : call'[d].op = "subscribe" =>
             <<call'[d].table, call'[d].epic>> \in Known
    BY <1>0, <2>1, CallGoesOn
  <2>3. \A s \in served' : <<s[2], s[3]>> \in Known
    BY <2>1, PartsKnown DEF Deleted
  <2>4. \/ UNCHANGED <<subs, tables>>
        \/ /\ subs' = [subs EXCEPT ![call[c].epic] = NoSub]
           /\ tables' = Restrict(tables, DOMAIN tables \ {call[c].table})
    BY <1>9 DEF Unsubscribed
  <2>5. /\ subs' \in [Epics -> SubRecords]
        /\ \A x \in Epics : subs'[x] # NoSub => <<subs'[x].table, x>> \in Known
    BY <1>0, <2>4, PartsKnown
  <2>6. \A t \in DOMAIN tables' : <<t, tables'[t]>> \in Known
    BY <2>4, PartsKnown DEF Restrict
  <2> QED
    BY <1>0, <1>1, <2>1, <2>2, <2>3, <2>5, <2>6, PartsKnown
<1>10. CASE OpenSession
  <2>1. /\ sessions' \in Nat /\ session_id' \in Nat
        /\ pending' = {<<e, subs[e].table>> : e \in {x \in Epics : subs[x] # NoSub}}
        /\ served' = {} /\ UNCHANGED <<subs, tables, next_table, call>>
    BY <1>0, <1>10 DEF OpenSession
  <2>2. ASSUME NEW p \in pending' PROVE <<p[2], p[1]>> \in Known
    <3>1. PICK e \in {x \in Epics : subs[x] # NoSub} : p = <<e, subs[e].table>>
      BY <2>1
    <3> QED
      BY <3>1, PartsKnown
  <2> QED
    BY <1>0, <1>1, <2>1, <2>2, PartsKnown
<1>11. ASSUME NEW p \in pending, NEW ok \in BOOLEAN, NEW applied \in BOOLEAN,
              Resubscribe(p, ok, applied)
       PROVE  StreamInv'
  <2>1. /\ served' = served \/ served' = Added(session_id, p[2], p[1])
        /\ pending' = pending \ {p}
        /\ UNCHANGED <<session_id, sessions, tables, next_table, call>>
    BY <1>11 DEF Resubscribe
  <2>2. <<p[2], p[1]>> \in Known
    BY PartsKnown
  <2>3. \A s \in served' : <<s[2], s[3]>> \in Known
    BY <2>1, <2>2, AddedKnown, PartsKnown
  <2>4. CASE ok /\ subs[p[1]].table = p[2]
    <3>1. subs' = [subs EXCEPT ![p[1]].status = "active"]
      BY <1>11, <2>4 DEF Resubscribe
    <3>2. p[2] \in 1..(next_table - 1)
      BY <2>2 DEF StreamInv
    <3>3. subs[p[1]] # NoSub
      BY <1>0, <2>4, <3>2 DEF NoSub
    <3>4. /\ subs' \in [Epics -> SubRecords]
          /\ \A x \in Epics : subs'[x] # NoSub => <<subs'[x].table, x>> \in Known
      BY <1>a, <3>1, <3>3, StatusChanges
    <3> QED
      BY <1>0, <1>1, <2>1, <2>3, <3>4, PartsKnown
  <2>5. CASE ~(ok /\ subs[p[1]].table = p[2])
    <3>1. subs' = [subs EXCEPT ![p[1]].status = @]
      BY <1>11, <2>5 DEF Resubscribe
    <3>2. subs' = subs
      BY <1>b, <3>1
    <3> QED
      BY <1>0, <1>1, <2>1, <2>3, <3>2, PartsKnown
  <2> QED
    BY <2>4, <2>5
<1>12. CASE ListenFails
  <2>1. /\ pending' = {} /\ served' = Reachable(session_id, 0)
        /\ UNCHANGED <<session_id, sessions, subs, tables, next_table, call>>
    BY <1>12 DEF ListenFails
  <2> QED
    BY <1>0, <1>1, <1>2, <2>1, PartsKnown
<1>13. ASSUME NEW loop \in BOOLEAN, ListenEnds(loop) PROVE StreamInv'
  <2>1. /\ served' = Reachable(session_id, 0)
        /\ UNCHANGED <<session_id, sessions, subs, tables, next_table, call, pending>>
    BY <1>13 DEF ListenEnds
  <2> QED
    BY <1>0, <1>1, <1>2, <2>1, PartsKnown
<1>14. CASE ListenAgain \/ UNCHANGED streamVars
  <2>1. UNCHANGED <<session_id, sessions, subs, tables, next_table, call, pending, served>>
    BY <1>14 DEF ListenAgain, streamVars
  <2> QED
    BY <1>0, <1>1, <2>1, PartsKnown
<1>15. ASSUME NEW s \in served, Tick(s) PROVE StreamInv'
  <2> DEFINE e == tables[s[2]]
  <2>1. /\ subs[e].status = "stale" /\ subs' = [subs EXCEPT ![e].status = "active"]
        /\ UNCHANGED <<session_id, sessions, tables, next_table, call, pending, served>>
    BY <1>15 DEF Tick
  <2>2. /\ subs' \in [Epics -> SubRecords]
        /\ \A x \in Epics : subs'[x] # NoSub => <<subs'[x].table, x>> \in Known
    BY <1>0, <1>a, <2>1, StatusChanges
  <2> QED
    BY <1>0, <1>1, <2>1, <2>2, PartsKnown
<1>16. ASSUME NEW e \in Epics, GoesStale(e) PROVE StreamInv'
  <2>1. /\ subs[e].status = "active" /\ subs' = [subs EXCEPT ![e].status = "stale"]
        /\ UNCHANGED <<session_id, sessions, tables, next_table, call, pending, served>>
    BY <1>16 DEF GoesStale
  <2>2. /\ subs' \in [Epics -> SubRecords]
        /\ \A x \in Epics : subs'[x] # NoSub => <<subs'[x].table, x>> \in Known
    BY <1>0, <1>a, <2>1, StatusChanges
  <2> QED
    BY <1>0, <1>1, <2>1, <2>2, PartsKnown
<1> QED
  BY <1>3, <1>3a, <1>4, <1>5, <1>6, <1>7, <1>8, <1>9, <1>10, <1>11, <1>12, <1>13, <1>14, <1>15,
     <1>16 DEF StreamNext

\* A tick is never given to another instrument: through any number of sessions, callers,
\* failed, late and repeated requests, a table key stands for one instrument for ever.
THEOREM TicksAreNotMixedUp == StreamSpec => []TicksReachTheirInstrument
<1>1. StreamInit => StreamInv
  <2> SUFFICES ASSUME StreamInit PROVE StreamInv
    OBVIOUS
  <2>1. /\ subs \in [Epics -> SubRecords]
        /\ call \in [Clients -> Calls]
    BY DEF StreamInit, NoSub, Calls, SubRecords, Statuses
  <2>2. Known = {}
    BY DEF StreamInit, Known, NoTables, NoCall
  <2> QED
    BY <2>1, <2>2 DEF StreamInit, StreamInv
<1>2. StreamInv /\ [StreamNext]_streamVars => StreamInv'
  BY StreamStep
<1>3. StreamInv => TicksReachTheirInstrument
  <2> SUFFICES ASSUME StreamInv, NEW s \in served, s[2] \in DOMAIN tables
               PROVE  tables[s[2]] = s[3]
    BY DEF TicksReachTheirInstrument
  <2>1. <<s[2], s[3]>> \in Known /\ <<s[2], tables[s[2]]>> \in Known
    BY PartsKnown
  <2> QED
    BY <2>1 DEF StreamInv
<1> QED
  BY <1>1, <1>2, <1>3, PTL DEF StreamSpec

-----------------------------------------------------------------------------
(* The HFT pipeline.                                                       *)

Distinct(s) == \A i, j \in DOMAIN s : s[i] = s[j] => i = j

\* A sequence without repetitions is as long as it has elements.
LEMMA DistinctLength ==
    ASSUME NEW S, NEW s \in Seq(S), Distinct(s)
    PROVE  IsFiniteSet(ToSet(s)) /\ Cardinality(ToSet(s)) = Len(s)
<1> DEFINE n == Len(s)
<1>1. n \in Nat /\ s \in [1..n -> S] /\ DOMAIN s = 1..n
  OBVIOUS
<1>2. IsFiniteSet(1..n) /\ Cardinality(1..n) = n
  BY <1>1, FS_Interval
<1>3. s \in Surjection(1..n, ToSet(s))
  BY <1>1 DEF Surjection, ToSet
<1>4. s \in Injection(1..n, ToSet(s))
  BY <1>1 DEF Injection, IsInjective, ToSet, Distinct
<1> QED
  BY <1>2, <1>3, <1>4, FS_Surjection

\* Joining two sequences that share nothing.
LEMMA DistinctJoin ==
    ASSUME NEW S, NEW s \in Seq(S), NEW t \in Seq(S), Distinct(s), Distinct(t),
           ToSet(s) \cap ToSet(t) = {}
    PROVE  s \o t \in Seq(S) /\ Distinct(s \o t) /\ ToSet(s \o t) = ToSet(s) \cup ToSet(t)
<1> DEFINE m == Len(s)
           n == Len(t)
<1>1. /\ m \in Nat /\ n \in Nat /\ DOMAIN s = 1..m /\ DOMAIN t = 1..n
      /\ DOMAIN (s \o t) = 1..(m + n) /\ s \o t \in Seq(S)
      /\ \A i \in 1..(m + n) : (s \o t)[i] = IF i <= m THEN s[i] ELSE t[i - m]
  OBVIOUS
<1>2. \A i \in 1..m, j \in 1..n : s[i] # t[j]
  BY <1>1 DEF ToSet
<1>3. Distinct(s \o t)
  <2> SUFFICES ASSUME NEW i \in 1..(m + n), NEW j \in 1..(m + n), (s \o t)[i] = (s \o t)[j]
               PROVE  i = j
    BY <1>1 DEF Distinct
  <2>1. CASE i <= m /\ j <= m
    BY <1>1, <2>1 DEF Distinct
  <2>2. CASE i > m /\ j > m
    <3>1. i - m \in 1..n /\ j - m \in 1..n /\ t[i - m] = t[j - m]
      BY <1>1, <2>2
    <3>2. i - m = j - m
      BY <1>1, <3>1 DEF Distinct
    <3> QED
      BY <1>1, <3>2
  <2>3. CASE i <= m /\ j > m
    <3>1. j - m \in 1..n /\ s[i] = t[j - m] /\ i \in 1..m
      BY <1>1, <2>3
    <3> QED
      BY <1>2, <3>1
  <2>4. CASE i > m /\ j <= m
    <3>1. i - m \in 1..n /\ s[j] = t[i - m] /\ j \in 1..m
      BY <1>1, <2>4
    <3> QED
      BY <1>2, <3>1
  <2> QED
    BY <1>1, <2>1, <2>2, <2>3, <2>4
<1>4. ToSet(s \o t) = ToSet(s) \cup ToSet(t)
  <2>1. ASSUME NEW x \in ToSet(s \o t) PROVE x \in ToSet(s) \cup ToSet(t)
    <3>1. PICK i \in 1..(m + n) : x = (s \o t)[i]
      BY <1>1 DEF ToSet
    <3>2. CASE i <= m
      BY <1>1, <3>1, <3>2 DEF ToSet
    <3>3. CASE i > m
      <4>1. i - m \in 1..n /\ x = t[i - m]
        BY <1>1, <3>1, <3>3
      <4> QED
        BY <1>1, <4>1 DEF ToSet
    <3> QED
      BY <1>1, <3>2, <3>3
  <2>2. ASSUME NEW x \in ToSet(s) PROVE x \in ToSet(s \o t)
    <3>1. PICK i \in 1..m : x = s[i]
      BY <1>1 DEF ToSet
    <3>2. i \in 1..(m + n) /\ (s \o t)[i] = x
      BY <1>1, <3>1
    <3> QED
      BY <1>1, <3>2 DEF ToSet
  <2>3. ASSUME NEW x \in ToSet(t) PROVE x \in ToSet(s \o t)
    <3>1. PICK i \in 1..n : x = t[i]
      BY <1>1 DEF ToSet
    <3>2. m + i \in 1..(m + n) /\ (s \o t)[m + i] = x
      BY <1>1, <3>1
    <3> QED
      BY <1>1, <3>2 DEF ToSet
  <2> QED
    BY <2>1, <2>2, <2>3
<1> QED
  BY <1>1, <1>3, <1>4

\* Nothing in it: the buffer that was taken.
LEMMA EmptyBuffer == Distinct(<< >>) /\ ToSet(<< >>) = {}
  BY DEF Distinct, ToSet

AnySignal == [quote : Nat, instrument : STRING, number : Nat]
Suspended == [at : {"idle", "holding", "window", "gather"}, signals : Seq(AnySignal), due : Int]

\* The signals a coroutine has built and not yet put in the buffer.
Held(c) == IF caller[c].at = "holding" THEN ToSet(caller[c].signals) ELSE {}

PipeTypes ==
    /\ clock \in Nat /\ quotes \in Nat
    /\ batch_buffer \in Seq(AnySignal) /\ caller \in [Callers -> Suspended]
    /\ fate \in [entered : SUBSET AnySignal, submitted : Seq(AnySignal),
               drained : Seq(AnySignal)]

\* Wherever signals are, they are there once and nowhere else, and a new tick makes new ones.
PipeInv ==
    /\ PipeTypes
    /\ Distinct(batch_buffer) /\ Distinct(fate.submitted) /\ Distinct(fate.drained)
    /\ ToSet(batch_buffer) \cap ToSet(fate.submitted) = {}
    /\ ToSet(batch_buffer) \cap ToSet(fate.drained) = {}
    /\ ToSet(fate.submitted) \cap ToSet(fate.drained) = {}
    /\ Signals = fate.entered
    /\ \A s \in Signals : s.quote <= quotes
    /\ \A c \in Callers :
         /\ caller[c].at = "holding" => Distinct(caller[c].signals)
         /\ Held(c) \cap Signals = {}
         /\ \A s \in Held(c) : s.quote <= quotes
         /\ \A d \in Callers \ {c} : Held(c) \cap Held(d) = {}

\* The signals of one tick are different, and different from all before.
LEMMA TickSignals ==
    ASSUME PipeTypes, NEW q \in PipeQuotes
    PROVE  /\ SignalsOf(q) \in Seq(AnySignal) /\ Distinct(SignalsOf(q))
           /\ \A s \in ToSet(SignalsOf(q)) : s.quote = quotes + 1
<1>1. Cardinality(Kinds(q)) \in Nat
  <2>1. IsFiniteSet({"imbalance", "compression", "burst"})
    <3>1. IsFiniteSet({"imbalance"} \cup {"compression"} \cup {"burst"})
      BY FS_Singleton, FS_Union
    <3>2. {"imbalance", "compression", "burst"} = {"imbalance"} \cup {"compression"} \cup {"burst"}
      OBVIOUS
    <3> QED
      BY <3>1, <3>2
  <2> QED
    BY <2>1, FS_Subset, FS_CardinalityType DEF Kinds
<1>2. q.instrument \in STRING /\ quotes + 1 \in Nat
  BY HFTPipelineAssumption DEF Quote, PipeTypes
<1> DEFINE k == Cardinality(Kinds(q))
<1>3. SignalsOf(q) = [i \in 1..k |-> [quote |-> quotes + 1, instrument |-> q.instrument, number |-> i]]
  BY DEF SignalsOf
<1> HIDE DEF k
<1>4. k \in Nat
  BY <1>1 DEF k
<1>5. SignalsOf(q) \in Seq(AnySignal) /\ DOMAIN SignalsOf(q) = 1..k
  <2>1. \A i \in 1..k : [quote |-> quotes + 1, instrument |-> q.instrument, number |-> i] \in AnySignal
    BY <1>2, <1>4 DEF AnySignal
  <2> QED
    BY <1>3, <1>4, <2>1
<1>6. Distinct(SignalsOf(q))
  BY <1>3 DEF Distinct
<1>7. \A s \in ToSet(SignalsOf(q)) : s.quote = quotes + 1
  BY <1>3 DEF ToSet
<1> QED
  BY <1>5, <1>6, <1>7

\* Signals move from one place to the next: from a coroutine to the buffer, and on.
LEMMA PipeMoves ==
    ASSUME PipeInv, PipeTypes', UNCHANGED quotes,
           Distinct(batch_buffer'), Distinct(fate'.submitted), Distinct(fate'.drained),
           ToSet(batch_buffer') \cap ToSet(fate'.submitted) = {},
           ToSet(batch_buffer') \cap ToSet(fate'.drained) = {},
           ToSet(fate'.submitted) \cap ToSet(fate'.drained) = {},
           NEW c \in Callers,
           Signals' \subseteq Signals \cup Held(c), Signals' = fate'.entered,
           Signals' = Signals \/ Held(c)' = {},
           \A d \in Callers \ {c} : caller'[d] = caller[d],
           Held(c)' = {} \/ caller'[c] = caller[c]
    PROVE  PipeInv'
<1>1. \A d \in Callers \ {c} : Held(d)' = Held(d)
  BY DEF Held
<1>2. Held(c)' \subseteq Held(c)
  BY DEF Held
<1>3. \A d \in Callers : Held(d)' \subseteq Held(d)
  BY <1>1, <1>2
<1>4. \A s \in Signals' : s.quote <= quotes
  BY DEF PipeInv
<1>5. ASSUME NEW d \in Callers PROVE Held(d)' \cap Signals' = {}
  <2>1. CASE Signals' = Signals
    BY <1>3, <2>1 DEF PipeInv
  <2>2. CASE Held(c)' = {} /\ d # c
    BY <1>1, <2>2 DEF PipeInv
  <2>3. CASE Held(c)' = {} /\ d = c
    BY <2>3
  <2> QED
    BY <2>1, <2>2, <2>3
<1>6. ASSUME NEW d \in Callers, caller'[d].at = "holding" PROVE Distinct(caller'[d].signals)
  <2>1. CASE caller'[d] = caller[d]
    BY <1>6, <2>1 DEF PipeInv
  <2>2. CASE d = c /\ Held(c)' = {}
    BY SMTT(30), <1>6, <2>2 DEF Held, Distinct, ToSet
  <2> QED
    BY <2>1, <2>2
<1>7. ASSUME NEW d \in Callers, NEW e \in Callers \ {d} PROVE Held(d)' \cap Held(e)' = {}
  BY <1>3 DEF PipeInv
<1> QED
  BY <1>3, <1>4, <1>5, <1>6, <1>7 DEF PipeInv

\* Every step of the pipeline preserves the invariant.
LEMMA PipeStep ==
    ASSUME PipeInv, [PipeNext]_pipeVars
    PROVE  PipeInv'
<1>0. /\ clock \in Nat /\ quotes \in Nat /\ BatchWindow \in Nat
      /\ batch_buffer \in Seq(AnySignal) /\ caller \in [Callers -> Suspended]
      /\ fate \in [entered : SUBSET AnySignal, submitted : Seq(AnySignal),
               drained : Seq(AnySignal)]
      /\ fate.submitted \in Seq(AnySignal) /\ fate.drained \in Seq(AnySignal)
      /\ Idle \in Suspended /\ Idle.at = "idle" /\ << >> \in Seq(AnySignal)
      /\ PipeTypes
  BY HFTPipelineAssumption DEF PipeInv, PipeTypes, Suspended, Idle
<1>a. ASSUME NEW c \in Callers, NEW new \in Suspended, caller' = [caller EXCEPT ![c] = new]
      PROVE  /\ caller' \in [Callers -> Suspended] /\ caller'[c] = new
             /\ \A d \in Callers \ {c} : caller'[d] = caller[d]
  BY <1>0, <1>a
<1>1. ASSUME NEW c \in Callers, NEW q \in PipeQuotes, ProcessTick(c, q) PROVE PipeInv'
  <2> DEFINE new == IF Kinds(q) = {} THEN Idle
                    ELSE [at |-> "holding", signals |-> SignalsOf(q), due |-> 0]
  <2>1. /\ caller[c] = Idle /\ quotes' = quotes + 1 /\ caller' = [caller EXCEPT ![c] = new]
        /\ UNCHANGED <<batch_buffer, clock, fate>>
    BY <1>1 DEF ProcessTick
  <2>2. /\ new \in Suspended
        /\ new = Idle \/ (new.at = "holding" /\ new.signals = SignalsOf(q))
    <3>1. [at |-> "holding", signals |-> SignalsOf(q), due |-> 0] \in Suspended
      BY <1>0, TickSignals DEF Suspended
    <3> QED
      BY <1>0, <3>1
  <2> HIDE DEF new
  <2>3. /\ caller' \in [Callers -> Suspended] /\ caller'[c] = new
        /\ \A d \in Callers \ {c} : caller'[d] = caller[d]
    BY <1>a, <2>1, <2>2
  <2>4. \A d \in Callers \ {c} : Held(d)' = Held(d)
    BY <2>3 DEF Held
  <2>5. \/ Held(c)' = {}
        \/ Held(c)' = ToSet(SignalsOf(q)) /\ caller'[c].signals = SignalsOf(q)
    BY <1>0, <2>2, <2>3 DEF Held
  <2>6. /\ \A s \in Held(c)' : s.quote = quotes + 1
        /\ caller'[c].at = "holding" => Distinct(caller'[c].signals)
    BY <1>0, <2>2, <2>3, <2>5, TickSignals
  <2>7. Signals' = Signals /\ quotes' \in Nat /\ quotes < quotes'
    BY <1>0, <2>1 DEF Signals
  <2>8. PipeTypes'
    BY <1>0, <2>1, <2>3, <2>7 DEF PipeTypes
  <2>9. /\ \A s \in Signals : s.quote <= quotes /\ s.quote \in Nat
        /\ \A d \in Callers : \A s \in Held(d) : s.quote <= quotes /\ s.quote \in Nat
    <3>1. \A s \in Signals : s \in AnySignal
      BY <1>0 DEF Signals, ToSet
    <3>2. \A d \in Callers : \A s \in Held(d) : s \in AnySignal
      BY <1>0 DEF Held, ToSet, Suspended
    <3> QED
      BY <3>1, <3>2 DEF PipeInv, AnySignal
  <2>10. Held(c)' \cap Signals' = {} /\ \A d \in Callers \ {c} : Held(c)' \cap Held(d)' = {}
    <3>1. ~(quotes + 1 <= quotes)
      BY <1>0
    <3>2. \A s \in Held(c)' : ~(s.quote <= quotes)
      BY <2>6, <3>1
    <3>3. Held(c)' \cap Signals' = {}
      BY <2>7, <2>9, <3>2
    <3>4. ASSUME NEW d \in Callers \ {c} PROVE Held(c)' \cap Held(d)' = {}
      BY <2>4, <2>9, <3>2
    <3> QED
      BY <3>3, <3>4
  <2>11. /\ \A s \in Signals' : s.quote <= quotes'
         /\ \A d \in Callers : \A s \in Held(d)' : s.quote <= quotes'
    <3>1. \A s \in Signals' : s.quote <= quotes'
      BY <1>0, <2>7, <2>9
    <3>2. \A s \in Held(c)' : s.quote <= quotes'
      BY <1>0, <2>1, <2>6
    <3>3. \A d \in Callers \ {c} : \A s \in Held(d)' : s.quote <= quotes'
      BY <1>0, <2>4, <2>7, <2>9
    <3> QED
      BY <3>1, <3>2, <3>3
  <2>12. ASSUME NEW d \in Callers
         PROVE  /\ caller'[d].at = "holding" => Distinct(caller'[d].signals)
                /\ Held(d)' \cap Signals' = {}
                /\ \A e \in Callers \ {d} : Held(d)' \cap Held(e)' = {}
    BY <2>3, <2>4, <2>6, <2>7, <2>10 DEF PipeInv
  <2>13. /\ Distinct(batch_buffer') /\ Distinct(fate'.submitted) /\ Distinct(fate'.drained)
         /\ ToSet(batch_buffer') \cap ToSet(fate'.submitted) = {}
         /\ ToSet(batch_buffer') \cap ToSet(fate'.drained) = {}
         /\ ToSet(fate'.submitted) \cap ToSet(fate'.drained) = {}
    BY <2>1 DEF PipeInv
  <2>14. Signals' = fate'.entered
    BY <2>1, <2>7 DEF PipeInv
  <2> QED
    BY <2>8, <2>11, <2>12, <2>13, <2>14 DEF PipeInv
<1>2. ASSUME NEW c \in Callers, JoinBatch(c) PROVE PipeInv'
  <2> DEFINE new == [at |-> "window", signals |-> << >>, due |-> clock + BatchWindow]
  <2>1. /\ caller[c].at = "holding" /\ batch_buffer' = batch_buffer \o caller[c].signals
        /\ caller' = [caller EXCEPT ![c] = new]
        /\ fate' = [fate EXCEPT !.entered = @ \cup ToSet(caller[c].signals)]
        /\ UNCHANGED <<clock, quotes>>
    BY <1>2 DEF JoinBatch
  <2>2. new \in Suspended /\ new.at = "window"
    BY <1>0 DEF Suspended
  <2> HIDE DEF new
  <2>3. /\ caller' \in [Callers -> Suspended] /\ caller'[c].at = "window"
        /\ \A d \in Callers \ {c} : caller'[d] = caller[d]
    BY <1>a, <2>1, <2>2
  <2>4. /\ caller[c].signals \in Seq(AnySignal) /\ Distinct(caller[c].signals)
        /\ Held(c) = ToSet(caller[c].signals) /\ Held(c) \cap Signals = {}
    BY <1>0, <2>1 DEF PipeInv, Held, Suspended
  <2>5. /\ batch_buffer' \in Seq(AnySignal) /\ Distinct(batch_buffer')
        /\ ToSet(batch_buffer') = ToSet(batch_buffer) \cup Held(c)
    <3>1. Distinct(batch_buffer) /\ ToSet(batch_buffer) \cap ToSet(caller[c].signals) = {}
      BY <2>4 DEF PipeInv, Signals
    <3> QED
      BY <1>0, <2>1, <2>4, <3>1, DistinctJoin
  <2>5a. /\ fate'.entered = fate.entered \cup Held(c)
         /\ fate'.submitted = fate.submitted /\ fate'.drained = fate.drained
         /\ fate' \in [entered : SUBSET AnySignal, submitted : Seq(AnySignal),
                       drained : Seq(AnySignal)]
    <3>1. Held(c) \subseteq AnySignal
      BY <2>4 DEF ToSet
    <3>2. fate' = [fate EXCEPT !.entered = @ \cup Held(c)]
      BY <2>1, <2>4
    <3> QED
      BY <1>0, <3>1, <3>2
  <2>6. PipeTypes'
    BY <1>0, <2>1, <2>3, <2>5, <2>5a DEF PipeTypes
  <2>7. Held(c)' = {}
    BY <2>3 DEF Held
  <2>8. Signals' = Signals \cup Held(c)
    BY <2>1, <2>5, <2>5a DEF Signals
  <2>8a. Signals' = fate'.entered
    BY <2>5a, <2>8 DEF PipeInv
  <2>9. /\ Distinct(fate'.submitted) /\ Distinct(fate'.drained)
        /\ ToSet(batch_buffer') \cap ToSet(fate'.submitted) = {}
        /\ ToSet(batch_buffer') \cap ToSet(fate'.drained) = {}
        /\ ToSet(fate'.submitted) \cap ToSet(fate'.drained) = {}
    BY <2>1, <2>4, <2>5, <2>5a DEF PipeInv, Signals
  <2> QED
    BY <2>1, <2>3, <2>5, <2>6, <2>7, <2>8, <2>8a, <2>9, PipeMoves
<1>3. ASSUME NEW c \in Callers, TakeBatch(c) PROVE PipeInv'
  <2> DEFINE new == IF batch_buffer = << >> THEN Idle
                    ELSE [at |-> "gather", signals |-> batch_buffer, due |-> 0]
  <2>1. /\ batch_buffer' = << >> /\ caller' = [caller EXCEPT ![c] = new]
        /\ fate' = [fate EXCEPT !.submitted = @ \o batch_buffer]
        /\ UNCHANGED <<clock, quotes>>
    BY <1>3 DEF TakeBatch
  <2>2. new \in Suspended /\ new.at # "holding"
    BY <1>0 DEF Suspended
  <2> HIDE DEF new
  <2>3. /\ caller' \in [Callers -> Suspended] /\ caller'[c].at # "holding"
        /\ \A d \in Callers \ {c} : caller'[d] = caller[d]
    BY <1>a, <2>1, <2>2
  <2>4. /\ fate.submitted \o batch_buffer \in Seq(AnySignal)
        /\ Distinct(fate.submitted \o batch_buffer)
        /\ ToSet(fate.submitted \o batch_buffer) = ToSet(fate.submitted) \cup ToSet(batch_buffer)
    BY <1>0, DistinctJoin DEF PipeInv
  <2>5. /\ fate' \in [entered : SUBSET AnySignal, submitted : Seq(AnySignal),
                      drained : Seq(AnySignal)]
        /\ fate'.submitted = fate.submitted \o batch_buffer /\ fate'.drained = fate.drained
        /\ fate'.entered = fate.entered
    BY <1>0, <2>1, <2>4
  <2>6. PipeTypes'
    BY <1>0, <2>1, <2>3, <2>5 DEF PipeTypes
  <2>7. Held(c)' = {}
    BY <2>3 DEF Held
  <2>8. Signals' = Signals /\ Signals' = fate'.entered
    BY <2>1, <2>4, <2>5, EmptyBuffer DEF Signals, PipeInv
  <2>9. /\ Distinct(batch_buffer') /\ Distinct(fate'.submitted) /\ Distinct(fate'.drained)
        /\ ToSet(batch_buffer') = {}
        /\ ToSet(fate'.submitted) \cap ToSet(fate'.drained) = {}
    BY <2>1, <2>4, <2>5, EmptyBuffer DEF PipeInv
  <2> QED
    BY <2>1, <2>3, <2>6, <2>7, <2>8, <2>9, PipeMoves
<1>4. ASSUME NEW c \in Callers, RecordBatch(c) PROVE PipeInv'
  <2>1. /\ caller' = [caller EXCEPT ![c] = Idle]
        /\ UNCHANGED <<batch_buffer, clock, quotes, fate>>
    BY <1>4 DEF RecordBatch
  <2>2. /\ caller' \in [Callers -> Suspended] /\ caller'[c] = Idle
        /\ \A d \in Callers \ {c} : caller'[d] = caller[d]
    BY <1>0, <1>a, <2>1
  <2>3. PipeTypes' /\ Held(c)' = {} /\ Signals' = Signals /\ Signals' = fate'.entered
    BY <1>0, <2>1, <2>2 DEF PipeTypes, Held, Signals, PipeInv
  <2> QED
    BY <2>1, <2>2, <2>3, PipeMoves DEF PipeInv
\* Enabling touches no signal; disabling drains the buffer.
<1>5. CASE Enable \/ ClockAdvances \/ UNCHANGED pipeVars
  <2>1. UNCHANGED <<batch_buffer, caller, quotes, fate>> /\ clock' \in Nat
    BY <1>0, <1>5 DEF Enable, ClockAdvances, pipeVars
  <2>2. PipeTypes' /\ Signals' = Signals /\ \A c \in Callers : Held(c)' = Held(c)
    BY <1>0, <2>1 DEF PipeTypes, Signals, Held
  <2> QED
    BY <2>1, <2>2 DEF PipeInv
<1>6. CASE Disable
  <2>1. /\ batch_buffer' = << >> /\ fate' = [fate EXCEPT !.drained = @ \o batch_buffer]
        /\ UNCHANGED <<caller, clock, quotes>>
    BY <1>6 DEF Disable
  <2>2. /\ fate.drained \o batch_buffer \in Seq(AnySignal)
        /\ Distinct(fate.drained \o batch_buffer)
        /\ ToSet(fate.drained \o batch_buffer) = ToSet(fate.drained) \cup ToSet(batch_buffer)
    <3>1. ToSet(fate.drained) \cap ToSet(batch_buffer) = {}
      BY DEF PipeInv
    <3> QED
      BY <1>0, <3>1, DistinctJoin DEF PipeInv
  <2>3. /\ fate' \in [entered : SUBSET AnySignal, submitted : Seq(AnySignal),
                      drained : Seq(AnySignal)]
        /\ fate'.drained = fate.drained \o batch_buffer /\ fate'.submitted = fate.submitted
        /\ fate'.entered = fate.entered
    BY <1>0, <2>1, <2>2
  <2>4. PipeTypes' /\ \A c \in Callers : Held(c)' = Held(c)
    BY <1>0, <2>1, <2>3 DEF PipeTypes, Held
  <2>5. Signals' = Signals /\ Signals' = fate'.entered
    BY <2>1, <2>2, <2>3, EmptyBuffer DEF Signals, PipeInv
  <2>6. /\ Distinct(batch_buffer') /\ Distinct(fate'.submitted) /\ Distinct(fate'.drained)
        /\ ToSet(batch_buffer') = {}
        /\ ToSet(fate'.submitted) \cap ToSet(fate'.drained) = {}
    BY <2>1, <2>2, <2>3, EmptyBuffer DEF PipeInv
  <2> QED
    BY <2>1, <2>4, <2>5, <2>6 DEF PipeInv
<1> QED
  BY <1>1, <1>2, <1>3, <1>4, <1>5, <1>6 DEF PipeNext

\* However many coroutines share the buffer, whatever their windows and whenever the mode is
\* switched, a signal that entered the buffer is in it, submitted or drained: one of these,
\* once, and none is lost.
THEOREM SignalsAreSentOnce == PipeSpec => []EachSignalOnce
<1>1. PipeInit => PipeInv
  <2> SUFFICES ASSUME PipeInit PROVE PipeInv
    OBVIOUS
  <2>1. PipeTypes
    BY DEF PipeInit, PipeTypes, Idle, Suspended
  <2>2. /\ batch_buffer = << >> /\ fate.submitted = << >> /\ fate.drained = << >>
        /\ fate.entered = {}
        /\ \A c \in Callers : caller[c].at = "idle"
    BY DEF PipeInit, Idle
  <2>3. Signals = {} /\ \A c \in Callers : Held(c) = {}
    BY <2>2, EmptyBuffer DEF Signals, Held
  <2> QED
    BY <2>1, <2>2, <2>3, EmptyBuffer DEF PipeInv
<1>2. PipeInv /\ [PipeNext]_pipeVars => PipeInv'
  BY PipeStep
<1>3. PipeInv => EachSignalOnce
  <2> SUFFICES ASSUME PipeInv PROVE EachSignalOnce
    OBVIOUS
  <2> DEFINE b == ToSet(batch_buffer)
             s == ToSet(fate.submitted)
             d == ToSet(fate.drained)
  <2>1. /\ IsFiniteSet(b) /\ Cardinality(b) = Len(batch_buffer)
        /\ IsFiniteSet(s) /\ Cardinality(s) = Len(fate.submitted)
        /\ IsFiniteSet(d) /\ Cardinality(d) = Len(fate.drained)
    <3>1. /\ batch_buffer \in Seq(AnySignal) /\ fate.submitted \in Seq(AnySignal)
          /\ fate.drained \in Seq(AnySignal)
      BY DEF PipeInv, PipeTypes
    <3> QED
      BY <3>1, DistinctLength DEF PipeInv
  <2>2. b \cap s = {} /\ (b \cup s) \cap d = {} /\ Signals = (b \cup s) \cup d
        /\ Signals = fate.entered
    BY DEF PipeInv, Signals
  <2> HIDE DEF b, s, d
  <2>0. Cardinality({}) = 0 /\ Cardinality(b) \in Nat /\ Cardinality(s) \in Nat
        /\ Cardinality(d) \in Nat
    BY <2>1, FS_EmptySet, FS_CardinalityType
  <2>3. IsFiniteSet(b \cup s) /\ Cardinality(b \cup s) = Cardinality(b) + Cardinality(s)
    <3>1. Cardinality(b \cup s) = Cardinality(b) + Cardinality(s) - Cardinality(b \cap s)
      BY <2>1, FS_Union
    <3>2. IsFiniteSet(b \cup s)
      BY <2>1, FS_Union
    <3>3. Cardinality(b \cap s) = 0
      BY <2>0, <2>2, Zenon
    <3> QED
      BY <2>0, <3>1, <3>2, <3>3
  <2>4. Cardinality((b \cup s) \cup d) = Cardinality(b \cup s) + Cardinality(d)
    <3>1. Cardinality((b \cup s) \cup d)
            = Cardinality(b \cup s) + Cardinality(d) - Cardinality((b \cup s) \cap d)
      BY <2>1, <2>3, FS_Union
    <3>2. Cardinality((b \cup s) \cap d) = 0
      BY <2>0, <2>2, Zenon
    <3> QED
      BY <2>0, <2>3, <3>1, <3>2
  <2> QED
    BY <2>1, <2>2, <2>3, <2>4 DEF EachSignalOnce
<1> QED
  BY <1>1, <1>2, <1>3, PTL DEF PipeSpec

-----------------------------------------------------------------------------
(* The HFT rate limiter.                                                   *)

\* The places of n positions are 1 to n, and later positions have later places.
LEMMA PlacesAreRanks ==
    ASSUME NEW P \in SUBSET Nat, IsFiniteSet(P)
    PROVE  /\ Cardinality(P) \in Nat
           /\ \A i \in P : Place(P, i) \in 1..Cardinality(P)
           /\ \A i, j \in P : i < j => Place(P, i) < Place(P, j)
           /\ \A i, j \in P : Place(P, i) = Place(P, j) => i = j
           /\ \A k \in 1..Cardinality(P) : \E i \in P : Place(P, i) = k
<1> DEFINE below(i) == {j \in P : j <= i}
           n == Cardinality(P)
           f == [i \in P |-> Place(P, i)]
<1>1. \A i : below(i) \in SUBSET P
  OBVIOUS
<1>2. \A i : IsFiniteSet(below(i)) /\ Cardinality(below(i)) <= Cardinality(P)
  BY <1>1, FS_Subset
<1>3. n \in Nat /\ \A i : Cardinality(below(i)) \in Nat
  BY <1>2, FS_CardinalityType
<1>4. ASSUME NEW i \in P PROVE Place(P, i) \in 1..n
  <2>1. below(i) # {}
    BY <1>4
  <2>2. Cardinality(below(i)) # 0
    BY <1>2, <2>1, FS_EmptySet
  <2> QED
    BY <1>2, <1>3, <2>2 DEF Place
<1>5. ASSUME NEW i \in P, NEW j \in P, i < j PROVE Place(P, i) < Place(P, j)
  <2>0. \A k \in P : k \in Nat
    OBVIOUS
  <2>1. below(i) \in SUBSET below(j)
    <3>1. \A k \in P : k <= i => k <= j
      BY <1>5, <2>0
    <3> QED
      BY <3>1
  <2>2. j \in below(j) /\ j \notin below(i)
    BY <1>5, <2>0
  <2>3. IsFiniteSet(below(j))
    BY <1>2
  <2> HIDE DEF below
  <2>4. /\ Cardinality(below(i)) <= Cardinality(below(j))
        /\ Cardinality(below(j)) # Cardinality(below(i))
    BY <2>1, <2>2, <2>3, FS_Subset
  <2>5. Place(P, i) = Cardinality(below(i)) /\ Place(P, j) = Cardinality(below(j))
    BY DEF Place, below
  <2> QED
    BY <1>3, <2>4, <2>5
<1>6. ASSUME NEW i \in P, NEW j \in P, Place(P, i) = Place(P, j) PROVE i = j
  <2>1. Place(P, i) \in Int /\ i \in Int /\ j \in Int
    BY <1>3, <1>4
  <2>2. ~(i < j) /\ ~(j < i)
    BY <1>5, <1>6, <2>1
  <2> QED
    BY <2>1, <2>2
<1>7. f \in Injection(P, 1..n)
  BY <1>4, <1>6 DEF Injection, IsInjective
<1>8. IsFiniteSet(1..n) /\ Cardinality(1..n) = n
  BY <1>3, FS_Interval
<1>9. f \in Surjection(P, 1..n)
  BY <1>7, <1>8, FS_Injection
<1>10. \A k \in 1..n : \E i \in P : Place(P, i) = k
  BY <1>9 DEF Surjection
<1> QED
  BY <1>3, <1>4, <1>5, <1>6, <1>10

\* What is kept of a sequence without repetitions is such a sequence again, of the elements
\* at the positions kept.
LEMMA KeepsSome ==
    ASSUME NEW S, NEW s \in Seq(S), Distinct(s), NEW P \in SUBSET DOMAIN s
    PROVE  /\ Keep(s, P) \in Seq(S) /\ Distinct(Keep(s, P))
           /\ ToSet(Keep(s, P)) = {s[i] : i \in P}
<1> DEFINE n == Cardinality(P)
           at(k) == CHOOSE i \in P : Place(P, i) = k
<1>1. /\ P \in SUBSET Nat /\ IsFiniteSet(P)
      /\ \A i \in P : s[i] \in S /\ i \in DOMAIN s
  <2>1. Len(s) \in Nat /\ DOMAIN s = 1..Len(s)
    OBVIOUS
  <2>2. IsFiniteSet(1..Len(s))
    BY <2>1, FS_Interval
  <2> QED
    BY <2>1, <2>2, FS_Subset
<1>2. /\ n \in Nat
      /\ \A k \in 1..n : at(k) \in P /\ Place(P, at(k)) = k
      /\ \A i \in P : Place(P, i) \in 1..n /\ at(Place(P, i)) = i
  BY <1>1, PlacesAreRanks
<1>3. Keep(s, P) = [k \in 1..n |-> s[at(k)]]
  BY DEF Keep
<1> HIDE DEF at, n
<1>4. Keep(s, P) \in [1..n -> S] /\ DOMAIN Keep(s, P) = 1..n
  BY <1>1, <1>2, <1>3
<1>5. Keep(s, P) \in Seq(S)
  BY <1>2, <1>4
<1>6. Distinct(Keep(s, P))
  <2> SUFFICES ASSUME NEW k \in 1..n, NEW m \in 1..n, s[at(k)] = s[at(m)]
               PROVE  k = m
    BY <1>3, <1>4 DEF Distinct
  <2>1. at(k) = at(m)
    BY <1>1, <1>2 DEF Distinct
  <2> QED
    BY <1>2, <2>1
<1>7. ToSet(Keep(s, P)) = {s[i] : i \in P}
  <2>1. ASSUME NEW i \in P PROVE s[i] \in ToSet(Keep(s, P))
    <3>1. s[i] = Keep(s, P)[Place(P, i)] /\ Place(P, i) \in DOMAIN Keep(s, P)
      BY <1>2, <1>3, <1>4
    <3> QED
      BY <3>1 DEF ToSet
  <2>2. ASSUME NEW x \in ToSet(Keep(s, P)) PROVE \E i \in P : x = s[i]
    BY <1>2, <1>3, <1>4 DEF ToSet
  <2> QED
    BY <2>1, <2>2
<1> QED
  BY <1>5, <1>6, <1>7

\* What has been submitted at all.
Sent == {o \in Orders : outcome[o] = "submitted"}

\* Whatever left since a, up to the last look at the bucket, and what the bucket still holds
\* fit into a full bucket and its refills.
BucketInv ==
    /\ now \in Nat /\ tokens \in Nat /\ tokens <= Capacity /\ last_refill \in 0..now
    /\ IsFiniteSet(Sent) /\ \A o \in Sent : left_at[o] \in 0..last_refill
    /\ RateBound
    /\ \A a \in 0..last_refill :
         Cost * Cardinality(Submitted(a, last_refill)) + tokens
            <= Capacity + (last_refill - a) * Rate

\* Products of the bucket's numbers.
LEMMA Products ==
    /\ \A m, n \in Nat : m * n \in Nat
    /\ \A k, m, n \in Int : k * (m + n) = k * m + k * n
    /\ \A a, b, c, n \in Int : (c - a) * n = (b - a) * n + (c - b) * n
  OBVIOUS

\* The numbers of the bucket.
LEMMA BucketNumbers ==
    ASSUME BucketInv
    PROVE  /\ Cost \in Nat \ {0} /\ Rate \in Nat /\ Capacity \in Nat
           /\ last_refill \in Nat /\ last_refill <= now
           /\ (now - last_refill) * Rate \in Nat
           /\ Refilled \in Nat /\ Refilled <= Capacity
           /\ Refilled <= tokens + (now - last_refill) * Rate
           /\ \A a, b : /\ IsFiniteSet(Submitted(a, b)) /\ Cardinality(Submitted(a, b)) \in Nat
                        /\ Cost * Cardinality(Submitted(a, b)) \in Nat
<1>1. Cost \in Nat \ {0} /\ Rate \in Nat /\ Capacity \in Nat
  BY HFTRateLimiterAssumption
<1>2. now \in Nat /\ last_refill \in Nat /\ last_refill <= now /\ now - last_refill \in Nat
  BY DEF BucketInv
<1>3. (now - last_refill) * Rate \in Nat
  BY <1>1, <1>2, Products
<1>4. /\ Refilled \in Nat /\ Refilled <= Capacity
      /\ Refilled <= tokens + (now - last_refill) * Rate
  BY <1>1, <1>3 DEF Refilled, BucketInv
<1>5. ASSUME NEW a, NEW b
      PROVE  IsFiniteSet(Submitted(a, b)) /\ Cardinality(Submitted(a, b)) \in Nat
  <2>1. Submitted(a, b) \in SUBSET Sent
    BY DEF Submitted, Sent
  <2> QED
    BY <2>1, FS_Subset, FS_CardinalityType DEF BucketInv
<1>6. \A a, b : Cost * Cardinality(Submitted(a, b)) \in Nat
  BY <1>1, <1>5, Products
<1> QED
  BY <1>1, <1>2, <1>3, <1>4, <1>5, <1>6

\* Nothing was submitted after the last look at the bucket.
LEMMA NothingSince ==
    ASSUME BucketInv, NEW a \in Nat, NEW b \in Nat, last_refill <= b
    PROVE  /\ a <= last_refill => Submitted(a, b) = Submitted(a, last_refill)
           /\ a > last_refill => Submitted(a, b) = {}
<1>1. \A o \in Sent : left_at[o] \in 0..last_refill
  BY DEF BucketInv
<1>2. \A o \in Orders : outcome[o] = "submitted" => left_at[o] \in 0..last_refill
  BY <1>1 DEF Sent
<1>3. last_refill \in Nat
  BY BucketNumbers
<1> QED
  BY <1>2, <1>3 DEF Submitted

\* A bucket nobody looked at for a while keeps its promise.
LEMMA BoundLater ==
    ASSUME BucketInv, NEW b \in Nat, last_refill <= b, NEW a \in 0..b
    PROVE  Cost * Cardinality(Submitted(a, b)) <= Capacity + (b - a) * Rate
<1>1. Rate \in Nat /\ Capacity \in Nat /\ Cost \in Nat /\ last_refill \in Nat /\ tokens \in Nat
  BY BucketNumbers DEF BucketInv
<1>2. CASE a <= last_refill
  <2>1. (b - a) * Rate = (last_refill - a) * Rate + (b - last_refill) * Rate
    BY <1>1, Products
  <2>2. (last_refill - a) * Rate \in Nat /\ (b - last_refill) * Rate \in Nat
    BY <1>1, <1>2, Products
  <2>3. Cost * Cardinality(Submitted(a, last_refill)) + tokens
            <= Capacity + (last_refill - a) * Rate
    BY <1>1, <1>2 DEF BucketInv
  <2>4. Submitted(a, b) = Submitted(a, last_refill)
    BY <1>2, NothingSince
  <2>5. Cost * Cardinality(Submitted(a, last_refill)) \in Nat
    BY BucketNumbers
  <2> QED
    BY <1>1, <2>1, <2>2, <2>3, <2>4, <2>5
<1>3. CASE a > last_refill
  <2>1. Cost * Cardinality(Submitted(a, b)) = 0
    BY <1>1, <1>3, NothingSince, FS_EmptySet
  <2>2. (b - a) * Rate \in Nat
    BY <1>1, Products
  <2> QED
    BY <1>1, <2>1, <2>2
<1> QED
  BY <1>1, <1>2, <1>3

\* Orders leave against tokens: what the bucket gives out it no longer holds.
LEMMA Spend ==
    ASSUME BucketInv, NEW X \in SUBSET Orders, IsFiniteSet(X),
           \A o \in X : /\ outcome[o] # "submitted" /\ outcome'[o] = "submitted"
                        /\ left_at'[o] = now,
           \A o \in Orders \ X : /\ outcome'[o] = "submitted" <=> outcome[o] = "submitted"
                                 /\ outcome[o] = "submitted" => left_at'[o] = left_at[o],
           now' = now, last_refill' = now, Cost * Cardinality(X) <= Refilled,
           tokens' = Refilled - Cost * Cardinality(X)
    PROVE  BucketInv'
<1>0. /\ Cost \in Nat \ {0} /\ Rate \in Nat /\ Capacity \in Nat /\ Refilled \in Nat
      /\ Refilled <= Capacity /\ now \in Nat /\ tokens \in Nat
      /\ Refilled <= tokens + (now - last_refill) * Rate
      /\ (now - last_refill) * Rate \in Nat
      /\ last_refill \in Nat /\ last_refill <= now
  BY BucketNumbers DEF BucketInv
<1>1. Cardinality(X) \in Nat /\ Cost * Cardinality(X) \in Nat
  BY <1>0, FS_CardinalityType, Products
<1>2. tokens' \in Nat /\ tokens' <= Capacity
  BY <1>0, <1>1
<1>3. Sent' = Sent \cup X /\ Sent \cap X = {}
  BY DEF Sent
<1>4. IsFiniteSet(Sent')
  BY <1>3, FS_Union DEF BucketInv
<1>5. \A o \in Sent' : left_at'[o] \in 0..last_refill'
  <2>1. \A o \in Sent : left_at'[o] = left_at[o] /\ left_at[o] \in 0..last_refill
    BY <1>3 DEF Sent, BucketInv
  <2> QED
    BY <1>0, <1>3, <2>1
<1>6. ASSUME NEW a \in 0..now
      PROVE  /\ Cost * Cardinality(Submitted(a, now)')
                  = Cost * Cardinality(Submitted(a, now)) + Cost * Cardinality(X)
             /\ \A b \in 0..now : b # now => Submitted(a, b)' = Submitted(a, b)
  <2>1. Submitted(a, now)' = Submitted(a, now) \cup X
    BY <1>0, <1>6 DEF Submitted
  <2>2. Submitted(a, now) \cap X = {}
    BY DEF Submitted
  <2>3. Cardinality(Submitted(a, now)') = Cardinality(Submitted(a, now)) + Cardinality(X)
    <3>1. IsFiniteSet(Submitted(a, now)) /\ Cardinality(Submitted(a, now)) \in Nat
      BY BucketNumbers
    <3>2. Cardinality(Submitted(a, now) \cup X) = Cardinality(Submitted(a, now))
              + Cardinality(X) - Cardinality(Submitted(a, now) \cap X)
      BY <3>1, FS_Union
    <3>3. Cardinality(Submitted(a, now) \cap X) = 0
      BY <2>2, FS_EmptySet, Zenon
    <3> QED
      BY <1>1, <2>1, <3>1, <3>2, <3>3
  <2>4. ASSUME NEW b \in 0..now, b # now PROVE Submitted(a, b)' = Submitted(a, b)
    <3>1. \A o \in X : left_at'[o] \notin a..b
      BY <1>0, <2>4
    <3>2. \A o \in Orders : outcome'[o] = "submitted" /\ left_at'[o] \in a..b
                              <=> outcome[o] = "submitted" /\ left_at[o] \in a..b
      BY <3>1
    <3> QED
      BY <3>2 DEF Submitted
  <2>5. Cardinality(Submitted(a, now)) \in Nat
    BY BucketNumbers
  <2>6. Cost * (Cardinality(Submitted(a, now)) + Cardinality(X))
            = Cost * Cardinality(Submitted(a, now)) + Cost * Cardinality(X)
    BY <1>0, <1>1, <2>5, Products
  <2> QED
    BY <2>3, <2>4, <2>6
<1>7. ASSUME NEW a \in 0..now
      PROVE  Cost * Cardinality(Submitted(a, now)') + tokens' <= Capacity + (now - a) * Rate
  <2>1. Cost * Cardinality(Submitted(a, now)') + tokens'
            = Cost * Cardinality(Submitted(a, now)) + Refilled
    <3>1. Cost * Cardinality(Submitted(a, now)) \in Nat
      BY BucketNumbers
    <3> QED
      BY <1>0, <1>1, <1>6, <3>1
  <2>2. CASE a <= last_refill
    <3>1. (now - a) * Rate = (last_refill - a) * Rate + (now - last_refill) * Rate
      BY <1>0, Products
    <3>2. (last_refill - a) * Rate \in Nat
      BY <1>0, <2>2, Products
    <3>3. Cost * Cardinality(Submitted(a, last_refill)) + tokens
              <= Capacity + (last_refill - a) * Rate
      BY <1>0, <2>2 DEF BucketInv
    <3>4. Submitted(a, now) = Submitted(a, last_refill)
      BY <1>0, <2>2, NothingSince
    <3>5. Cost * Cardinality(Submitted(a, last_refill)) \in Nat
      BY BucketNumbers
    <3> QED
      BY <1>0, <2>1, <3>1, <3>2, <3>3, <3>4, <3>5
  <2>3. CASE a > last_refill
    <3>1. Submitted(a, now) = {}
      BY <1>0, <2>3, NothingSince
    <3>2. Cost * Cardinality(Submitted(a, now)) = 0
      BY <1>0, <3>1, FS_EmptySet
    <3>3. (now - a) * Rate \in Nat
      BY <1>0, Products
    <3> QED
      BY <1>0, <2>1, <3>2, <3>3
  <2> QED
    BY <1>0, <2>2, <2>3
<1>8. ASSUME NEW a \in 0..now, NEW b \in 0..now, a <= b
      PROVE  Cost * Cardinality(Submitted(a, b)') <= Capacity + (b - a) * Rate
  <2>1. CASE b = now
    <3>1. Cost * Cardinality(Submitted(a, now)') \in Nat
      <4>1. Cost * Cardinality(Submitted(a, now)) \in Nat
        BY BucketNumbers
      <4> QED
        BY <1>1, <1>6, <4>1
    <3>2. (now - a) * Rate \in Nat
      BY <1>0, Products
    <3> QED
      BY <1>0, <1>2, <1>7, <2>1, <3>1, <3>2
  <2>2. CASE b # now
    BY <1>6, <1>8, <2>2 DEF BucketInv, RateBound
  <2> QED
    BY <2>1, <2>2
<1>9. RateBound'
  BY <1>8 DEF RateBound
<1>10. \A a \in 0..last_refill' :
          Cost * Cardinality(Submitted(a, last_refill)') + tokens'
            <= Capacity + (last_refill' - a) * Rate
  <2>1. \A a : Submitted(a, last_refill)' = Submitted(a, now)'
    BY DEF Submitted
  <2> QED
    BY <1>7, <2>1
<1> QED
  BY <1>0, <1>2, <1>4, <1>5, <1>9, <1>10 DEF BucketInv

\* The bucket of a step that submits nothing and does not look at it.
LEMMA BucketRests ==
    ASSUME BucketInv, UNCHANGED <<now, tokens, last_refill>>,
           \A o \in Orders : /\ outcome'[o] = "submitted" <=> outcome[o] = "submitted"
                             /\ outcome[o] = "submitted" => left_at'[o] = left_at[o]
    PROVE  BucketInv'
<1>1. Sent' = Sent /\ \A o \in Sent : left_at'[o] = left_at[o]
  BY DEF Sent
<1>2. \A a, b : Submitted(a, b)' = Submitted(a, b)
  BY DEF Submitted
<1> QED
  BY <1>1, <1>2 DEF BucketInv, RateBound

\* The queue holds each open order once.
QueueInv ==
    /\ queue \in Seq(Orders) /\ Distinct(queue)
    /\ created \in [Orders -> Int] /\ outcome \in [Orders -> Outcomes]
    /\ left_at \in [Orders -> Int]
    /\ ToSet(queue) = {o \in Orders : outcome[o] = "queued"}

LimiterInv == BucketInv /\ QueueInv

\* The queue without the orders that leave it.
LEMMA OthersStay ==
    ASSUME QueueInv, now \in Nat, NEW sent \in SUBSET ToSet(queue),
           NEW cancelled \in SUBSET ToSet(queue), Leave(sent, cancelled), UNCHANGED created
    PROVE  QueueInv'
<1> DEFINE P == {i \in DOMAIN queue : queue[i] \notin sent \cup cancelled}
<1>1. /\ queue \in Seq(Orders) /\ Distinct(queue) /\ P \in SUBSET DOMAIN queue
      /\ queue' = Keep(queue, P)
  BY DEF QueueInv, Leave
<1>2. /\ queue' \in Seq(Orders) /\ Distinct(queue')
      /\ ToSet(queue') = {queue[i] : i \in P}
  BY <1>1, KeepsSome
<1>3. ToSet(queue') = ToSet(queue) \ (sent \cup cancelled)
  BY <1>2 DEF ToSet
<1>4. ToSet(queue) \subseteq Orders
  BY DEF QueueInv
<1>5. /\ outcome' \in [Orders -> Outcomes] /\ left_at' \in [Orders -> Int]
      /\ \A o \in Orders : outcome'[o] = IF o \in sent THEN "submitted"
                             ELSE IF o \in cancelled THEN "cancelled" ELSE outcome[o]
  BY DEF QueueInv, Leave, Outcomes
<1>6. ToSet(queue') = {o \in Orders : outcome'[o] = "queued"}
  BY <1>3, <1>5 DEF QueueInv
<1> QED
  BY <1>2, <1>5, <1>6 DEF QueueInv

\* The orders a pass submits are fresh, stand before every fresh order that stays, and are
\* no more than the tokens.
LEMMA FirstFreshFits ==
    ASSUME QueueInv, NEW n \in Nat
    PROVE  /\ FirstFresh(n) \in SUBSET ToSet(queue)
           /\ IsFiniteSet(FirstFresh(n)) /\ Cardinality(FirstFresh(n)) <= n
           /\ \A o \in FirstFresh(n) : ~Stale(o)
           /\ \A j, k \in DOMAIN queue :
                j < k /\ queue[k] \in FirstFresh(n) /\ ~Stale(queue[j])
                  => queue[j] \in FirstFresh(n)
<1> DEFINE P == FreshPositions
           I == {j \in P : Place(P, j) <= n}
           f == [i \in I |-> Place(P, i)]
           g == [i \in I |-> queue[i]]
<1>1. /\ P \in SUBSET Nat /\ IsFiniteSet(P) /\ P \in SUBSET DOMAIN queue
      /\ \A i \in P : ~Stale(queue[i])
      /\ \A i \in DOMAIN queue : ~Stale(queue[i]) => i \in P
  <2>1. Len(queue) \in Nat /\ DOMAIN queue = 1..Len(queue)
    BY DEF QueueInv
  <2>2. P \in SUBSET (1..Len(queue))
    BY <2>1 DEF FreshPositions
  <2>3. IsFiniteSet(1..Len(queue))
    BY <2>1, FS_Interval
  <2> QED
    BY <2>1, <2>2, <2>3, FS_Subset DEF FreshPositions
<1>2. /\ \A i \in P : Place(P, i) \in Nat \ {0}
      /\ \A i, j \in P : i < j => Place(P, i) < Place(P, j)
      /\ \A i, j \in P : Place(P, i) = Place(P, j) => i = j
  <2>1. Cardinality(P) \in Nat /\ \A i \in P : Place(P, i) \in 1..Cardinality(P)
    BY <1>1, PlacesAreRanks
  <2> QED
    BY <1>1, <2>1, PlacesAreRanks
<1>3. FirstFresh(n) = {queue[i] : i \in I}
  BY DEF FirstFresh
<1> HIDE DEF P
<1>4. IsFiniteSet(I) /\ Cardinality(I) <= n
  <2>1. f \in Injection(I, 1..n)
    BY <1>2 DEF Injection, IsInjective
  <2>2. IsFiniteSet(1..n) /\ Cardinality(1..n) = n
    BY FS_Interval
  <2> QED
    BY <2>1, <2>2, FS_Injection
<1>5. IsFiniteSet(FirstFresh(n)) /\ Cardinality(FirstFresh(n)) <= Cardinality(I)
  <2>1. g \in Surjection(I, FirstFresh(n))
    BY <1>3 DEF Surjection
  <2> QED
    BY <1>4, <2>1, FS_Surjection
<1>6. Cardinality(I) \in Nat /\ Cardinality(FirstFresh(n)) \in Nat
  BY <1>4, <1>5, FS_CardinalityType
<1>7. ASSUME NEW j \in DOMAIN queue, NEW k \in DOMAIN queue, j < k,
             queue[k] \in FirstFresh(n), ~Stale(queue[j])
      PROVE  queue[j] \in FirstFresh(n)
  <2>1. PICK i \in I : queue[i] = queue[k]
    BY <1>3, <1>7
  <2>2. i = k
    BY <1>1, <2>1 DEF QueueInv, Distinct
  <2>3. j \in P /\ k \in P /\ Place(P, k) <= n
    BY <1>1, <1>7, <2>2
  <2>4. Place(P, j) <= n
    BY <1>2, <1>7, <2>3
  <2> QED
    BY <1>3, <2>3, <2>4
<1>8. FirstFresh(n) \in SUBSET ToSet(queue) /\ \A o \in FirstFresh(n) : ~Stale(o)
  BY <1>1, <1>3 DEF ToSet
<1> QED
  BY <1>4, <1>5, <1>6, <1>7, <1>8

\* The tokens that pay for whole orders are no more than the bucket holds.
LEMMA WholeTokens ==
    ASSUME NEW x \in Nat, NEW c \in Nat \ {0}, NEW m \in Nat, m <= x \div c
    PROVE  x \div c \in Nat /\ c * m <= x
<1>1. x = c * (x \div c) + (x % c) /\ x % c \in 0..(c - 1) /\ x \div c \in Int
  OBVIOUS
<1>2. x \div c \in Nat
  BY <1>1
<1>3. x \div c - m \in Nat /\ c * (x \div c) = c * m + c * (x \div c - m)
  BY <1>2, Products
<1>4. c * (x \div c - m) \in Nat /\ c * m \in Nat
  BY <1>3, Products
<1> QED
  BY <1>1, <1>3, <1>4

\* A pass over the queue, with what it takes from the bucket.
LEMMA PassKeeps ==
    ASSUME LimiterInv, ProcessQueue
    PROVE  LimiterInv'
<1> DEFINE n == Refilled \div Cost
           sent == FirstFresh(n)
<1>0. Cost \in Nat \ {0} /\ Refilled \in Nat
  BY BucketNumbers DEF LimiterInv
<1>1. n \in Nat
  BY <1>0, WholeTokens
<1>2. /\ IF FreshPositions = {}
           THEN UNCHANGED <<tokens, last_refill>>
           ELSE tokens' = Refilled - Cost * Cardinality(sent) /\ last_refill' = now
      /\ Leave(sent, StaleOrders)
      /\ UNCHANGED <<now, created, running>>
  BY DEF ProcessQueue
<1> HIDE DEF n
<1>3. /\ sent \in SUBSET ToSet(queue) /\ IsFiniteSet(sent) /\ Cardinality(sent) <= n
      /\ StaleOrders \in SUBSET ToSet(queue)
  BY <1>1, FirstFreshFits DEF LimiterInv, StaleOrders
<1>4. Cardinality(sent) \in Nat /\ Cost * Cardinality(sent) <= Refilled
  <2>1. Cardinality(sent) \in Nat
    BY <1>3, FS_CardinalityType
  <2> QED
    BY <1>0, <1>3, <2>1, WholeTokens DEF n
<1>5. ToSet(queue) = {o \in Orders : outcome[o] = "queued"}
  BY DEF LimiterInv, QueueInv
<1>6. /\ \A o \in sent : o \in Orders /\ outcome[o] # "submitted" /\ outcome'[o] = "submitted"
                         /\ left_at'[o] = now
      /\ \A o \in Orders \ sent : /\ outcome'[o] = "submitted" <=> outcome[o] = "submitted"
                                  /\ outcome[o] = "submitted" => left_at'[o] = left_at[o]
  BY <1>2, <1>3, <1>5 DEF Leave
<1> HIDE DEF sent
<1>7. QueueInv'
  BY <1>2, <1>3, OthersStay DEF LimiterInv, BucketInv
<1>8. CASE FreshPositions # {}
  <2>1. BucketInv'
    BY <1>2, <1>3, <1>4, <1>6, <1>8, Spend DEF LimiterInv
  <2> QED
    BY <1>7, <2>1 DEF LimiterInv
<1>9. CASE FreshPositions = {}
  <2>1. sent = {}
    BY <1>9 DEF sent, FirstFresh
  <2>2. BucketInv'
    BY <1>2, <1>6, <1>9, <2>1, BucketRests DEF LimiterInv
  <2> QED
    BY <1>7, <2>2 DEF LimiterInv
<1> QED
  BY <1>8, <1>9

\* A new order: it takes its token, or waits behind all others.
LEMMA SubmitKeeps ==
    ASSUME LimiterInv, NEW o \in Orders, SubmitOrder(o)
    PROVE  LimiterInv'
<1>0. /\ Cost \in Nat \ {0} /\ Refilled \in Nat /\ now \in Nat
      /\ QueueInv /\ BucketInv /\ outcome[o] = "created"
      /\ last_refill' = now /\ UNCHANGED <<now, created>>
  BY BucketNumbers DEF LimiterInv, BucketInv, SubmitOrder
<1>1. /\ outcome \in [Orders -> Outcomes] /\ left_at \in [Orders -> Int]
      /\ ToSet(queue) = {p \in Orders : outcome[p] = "queued"} /\ queue \in Seq(Orders)
      /\ Distinct(queue)
  BY <1>0 DEF QueueInv
<1>2. CASE Refilled >= Cost
  <2>1. /\ tokens' = Refilled - Cost
        /\ outcome' = [outcome EXCEPT ![o] = "submitted"]
        /\ left_at' = [left_at EXCEPT ![o] = now]
        /\ UNCHANGED queue
    BY <1>2 DEF SubmitOrder
  <2>2. IsFiniteSet({o}) /\ Cardinality({o}) = 1
    BY FS_Singleton
  <2>3. Cost * Cardinality({o}) = Cost
    BY <1>0, <2>2
  <2>4. BucketInv'
    <3>1. {o} \in SUBSET Orders
      OBVIOUS
    <3>2. \A p \in {o} : /\ outcome[p] # "submitted" /\ outcome'[p] = "submitted"
                         /\ left_at'[p] = now
      BY <1>0, <1>1, <2>1
    <3>3. \A p \in Orders \ {o} : /\ outcome'[p] = "submitted" <=> outcome[p] = "submitted"
                                  /\ outcome[p] = "submitted" => left_at'[p] = left_at[p]
      BY <1>1, <2>1
    <3>4. now' = now /\ Cost * Cardinality({o}) <= Refilled
          /\ tokens' = Refilled - Cost * Cardinality({o})
      BY <1>0, <1>2, <2>1, <2>3
    <3> QED
      BY <1>0, <2>2, <3>1, <3>2, <3>3, <3>4, Spend
  <2>5. /\ outcome' \in [Orders -> Outcomes] /\ left_at' \in [Orders -> Int]
        /\ \A p \in Orders : outcome'[p] = "queued" <=> outcome[p] = "queued"
    BY <1>0, <1>1, <2>1 DEF Outcomes
  <2>6. QueueInv'
    BY <1>0, <1>1, <2>1, <2>5 DEF QueueInv
  <2> QED
    BY <2>4, <2>6 DEF LimiterInv
<1>3. CASE ~(Refilled >= Cost)
  <2>1. /\ tokens' = Refilled
        /\ outcome' = [outcome EXCEPT ![o] = "queued"]
        /\ queue' = Append(queue, o)
        /\ UNCHANGED left_at
    BY <1>3 DEF SubmitOrder
  <2>2. Cost * Cardinality({}) = 0 /\ IsFiniteSet({})
    BY <1>0, FS_EmptySet
  <2>3. BucketInv'
    <3>1. \A p \in Orders \ {} : /\ outcome'[p] = "submitted" <=> outcome[p] = "submitted"
                                 /\ outcome[p] = "submitted" => left_at'[p] = left_at[p]
      BY <1>0, <1>1, <2>1
    <3>2. now' = now /\ Cost * Cardinality({}) <= Refilled
          /\ tokens' = Refilled - Cost * Cardinality({})
      BY <1>0, <2>1, <2>2
    <3> QED
      BY <1>0, <2>2, <3>1, <3>2, Spend
  <2>4. /\ outcome' \in [Orders -> Outcomes]
        /\ \A p \in Orders : outcome'[p] = "queued" <=> outcome[p] = "queued" \/ p = o
    BY <1>1, <2>1 DEF Outcomes
  <2>5. o \notin ToSet(queue)
    BY <1>0, <1>1
  <2>6. /\ queue' \in Seq(Orders) /\ Len(queue) \in Nat
        /\ DOMAIN queue = 1..Len(queue) /\ DOMAIN queue' = 1..(Len(queue) + 1)
        /\ \A i \in 1..(Len(queue) + 1) : queue'[i] = IF i = Len(queue) + 1 THEN o ELSE queue[i]
    BY <1>1, <2>1
  <2>7. \A i \in 1..Len(queue) : queue[i] # o
    BY <2>5, <2>6 DEF ToSet
  <2>8. Distinct(queue')
    BY <1>1, <2>6, <2>7 DEF Distinct
  <2>9. ToSet(queue') = ToSet(queue) \cup {o}
    <3>1. \A x \in ToSet(queue) : x \in ToSet(queue')
      BY <2>6 DEF ToSet
    <3>2. o \in ToSet(queue')
      BY <2>6 DEF ToSet
    <3>3. \A x \in ToSet(queue') : x = o \/ x \in ToSet(queue)
      BY <2>6 DEF ToSet
    <3> QED
      BY <3>1, <3>2, <3>3
  <2>10. QueueInv'
    BY <1>0, <1>1, <2>1, <2>4, <2>6, <2>8, <2>9 DEF QueueInv
  <2> QED
    BY <2>3, <2>10 DEF LimiterInv
<1> QED
  BY <1>2, <1>3

\* Every step of LimiterNext preserves the invariant.
LEMMA LimiterStep ==
    ASSUME LimiterInv, [LimiterNext]_limiterVars
    PROVE  LimiterInv'
<1> USE DEF LimiterInv
<1>1. ASSUME NEW o \in Orders, CreateOrder(o) PROVE LimiterInv'
  <2>1. /\ outcome[o] = "none" /\ created' = [created EXCEPT ![o] = now]
        /\ outcome' = [outcome EXCEPT ![o] = "created"] /\ now \in Nat
        /\ UNCHANGED <<now, tokens, last_refill, queue, left_at>>
    BY <1>1 DEF CreateOrder, BucketInv
  <2>2. /\ outcome' \in [Orders -> Outcomes] /\ created' \in [Orders -> Int]
        /\ \A p \in Orders : /\ outcome'[p] = "submitted" <=> outcome[p] = "submitted"
                             /\ outcome'[p] = "queued" <=> outcome[p] = "queued"
    BY <2>1 DEF QueueInv, Outcomes
  <2>3. BucketInv'
    BY <2>1, <2>2, BucketRests
  <2>4. QueueInv'
    BY <2>1, <2>2 DEF QueueInv
  <2> QED
    BY <2>3, <2>4
<1>2. ASSUME NEW o \in Orders, SubmitOrder(o) PROVE LimiterInv'
  BY <1>2, SubmitKeeps
<1>3. CASE ProcessQueue
  BY <1>3, PassKeeps
<1>4. CASE SweepStaleOrders
  <2>1. /\ Leave({}, StaleOrders) /\ {} \in SUBSET ToSet(queue)
        /\ StaleOrders \in SUBSET ToSet(queue)
        /\ UNCHANGED <<now, tokens, last_refill, created>>
    BY <1>4 DEF SweepStaleOrders, StaleOrders
  <2>2. QueueInv'
    BY <2>1, OthersStay DEF BucketInv
  <2>3. \A o \in Orders : /\ outcome'[o] = "submitted" <=> outcome[o] = "submitted"
                          /\ outcome[o] = "submitted" => left_at'[o] = left_at[o]
    BY <2>1 DEF Leave, QueueInv
  <2>4. BucketInv'
    BY <2>1, <2>3, BucketRests
  <2> QED
    BY <2>2, <2>4
<1>5. CASE UNCHANGED <<now, tokens, last_refill, queue, created, outcome, left_at>>
  <2>1. BucketInv'
    BY <1>5, BucketRests
  <2> QED
    BY <1>5, <2>1 DEF QueueInv
<1>6. CASE LimiterTick
  <2>1. /\ now' = now + 1 /\ now \in Nat /\ last_refill \in Nat /\ last_refill <= now
        /\ UNCHANGED <<tokens, last_refill, queue, created, outcome, left_at>>
    BY <1>6, BucketNumbers DEF LimiterTick, BucketInv
  <2>2. Sent' = Sent /\ \A a, b : Submitted(a, b)' = Submitted(a, b)
    BY <2>1 DEF Sent, Submitted
  <2>3. RateBound'
    <3> SUFFICES ASSUME NEW a \in 0..now', NEW b \in 0..now', a <= b
                 PROVE  Cost * Cardinality(Submitted(a, b)) <= Capacity + (b - a) * Rate
      BY <2>2 DEF RateBound
    <3>1. CASE b <= now
      BY <2>1, <3>1 DEF BucketInv, RateBound
    <3>2. CASE last_refill <= b
      BY <2>1, <3>2, BoundLater
    <3> QED
      BY <2>1, <3>1, <3>2
  <2>4. BucketInv'
    BY <2>1, <2>2, <2>3 DEF BucketInv
  <2> QED
    BY <2>1, <2>4 DEF QueueInv
<1> QED
  BY <1>1, <1>2, <1>3, <1>4, <1>5, <1>6
     DEF LimiterNext, limiterVars, StartSweepLoop, StopSweepLoop

\* Only a pass over the queue submits orders from it.
LEMMA SubmittedByPass ==
    ASSUME LimiterInv, LimiterNext, NEW o \in Orders, outcome[o] = "queued",
           outcome'[o] = "submitted"
    PROVE  /\ o \in FirstFresh(Refilled \div Cost)
           /\ Leave(FirstFresh(Refilled \div Cost), StaleOrders)
<1>0. outcome \in [Orders -> Outcomes]
  BY DEF LimiterInv, QueueInv
<1>1. ASSUME NEW p \in Orders, CreateOrder(p) \/ SubmitOrder(p) PROVE FALSE
  BY <1>0, <1>1 DEF CreateOrder, SubmitOrder
<1>2. CASE ProcessQueue
  <2>1. Leave(FirstFresh(Refilled \div Cost), StaleOrders)
    BY <1>2 DEF ProcessQueue
  <2> QED
    BY <2>1 DEF Leave
<1>3. ~SweepStaleOrders
  BY DEF SweepStaleOrders, Leave
<1>4. ~(StartSweepLoop \/ StopSweepLoop \/ LimiterTick)
  BY DEF StartSweepLoop, StopSweepLoop, LimiterTick
<1> QED
  BY <1>1, <1>2, <1>3, <1>4 DEF LimiterNext

\* Nothing late leaves the queue for the broker, and nothing overtakes in it.
LEMMA PassIsFair ==
    ASSUME LimiterInv, LimiterNext
    PROVE  /\ \A o \in Orders :
                outcome[o] = "queued" /\ outcome'[o] = "submitted" =>
                    now - created[o] <= StaleAfter
           /\ \A j, k \in DOMAIN queue :
                j < k /\ outcome'[queue[k]] = "submitted" => outcome'[queue[j]] # "queued"
<1> DEFINE sent == FirstFresh(Refilled \div Cost)
<1>0. /\ QueueInv /\ Refilled \div Cost \in Nat
      /\ now \in Int /\ created \in [Orders -> Int] /\ StaleAfter \in Nat
      /\ ToSet(queue) = {o \in Orders : outcome[o] = "queued"}
  <2>1. Refilled \in Nat /\ Cost \in Nat \ {0}
    BY BucketNumbers DEF LimiterInv
  <2>2. Refilled \div Cost \in Nat
    BY <2>1, WholeTokens
  <2> QED
    BY <2>2, HFTRateLimiterAssumption DEF LimiterInv, BucketInv, QueueInv
<1>1. ASSUME NEW o \in Orders, outcome[o] = "queued", outcome'[o] = "submitted"
      PROVE  now - created[o] <= StaleAfter
  <2>1. ~Stale(o)
    BY <1>0, <1>1, SubmittedByPass, FirstFreshFits
  <2> QED
    BY <1>0, <2>1 DEF Stale
<1>2. ASSUME NEW j \in DOMAIN queue, NEW k \in DOMAIN queue, j < k,
             outcome'[queue[k]] = "submitted"
      PROVE  outcome'[queue[j]] # "queued"
  <2>1. queue[j] \in ToSet(queue) /\ queue[k] \in ToSet(queue)
    BY DEF ToSet
  <2>2. queue[j] \in Orders /\ queue[k] \in Orders /\ outcome[queue[k]] = "queued"
    BY <1>0, <2>1
  <2>3. queue[k] \in sent /\ Leave(sent, StaleOrders)
    BY <1>2, <2>2, SubmittedByPass
  <2>4. queue[j] \in sent \/ queue[j] \in StaleOrders
    <3>1. CASE Stale(queue[j])
      BY <2>1, <3>1 DEF StaleOrders
    <3>2. CASE ~Stale(queue[j])
      BY <1>0, <1>2, <2>3, <3>2, FirstFreshFits
    <3> QED
      BY <3>1, <3>2
  <2> HIDE DEF sent
  <2> QED
    BY <2>2, <2>3, <2>4 DEF Leave
<1> QED
  BY <1>1, <1>2

\* For every set of orders, every capacity and refill rate, and however submissions, passes
\* and sweeps interleave with the clock: the bucket bounds the submissions of every interval,
\* the queue holds each open order once, nothing late is sent from it and nothing overtakes.
THEOREM LimiterKeepsItsPromise == LimiterSpec => LimiterHolds
<1>1. LimiterInit => LimiterInv
  <2> SUFFICES ASSUME LimiterInit PROVE LimiterInv
    OBVIOUS
  <2>1. /\ Cost \in Nat /\ Rate \in Nat /\ Capacity \in Nat
    BY HFTRateLimiterAssumption
  <2>2. Sent = {} /\ \A a, b : Submitted(a, b) = {}
    BY DEF LimiterInit, Sent, Submitted
  <2>3. \A a, b : Cost * Cardinality(Submitted(a, b)) = 0
    BY <2>1, <2>2, FS_EmptySet
  <2>4. BucketInv
    <3>1. now = 0 /\ last_refill = 0 /\ tokens = Capacity
      BY DEF LimiterInit
    <3>2. RateBound
      BY <2>1, <2>3, <3>1 DEF RateBound
    <3>3. IsFiniteSet(Sent)
      BY <2>2, FS_EmptySet
    <3> QED
      BY <2>1, <2>2, <2>3, <3>1, <3>2, <3>3 DEF BucketInv
  <2>5. QueueInv
    <3>1. queue \in Seq(Orders) /\ Distinct(queue) /\ ToSet(queue) = {}
      BY EmptyBuffer DEF LimiterInit
    <3> QED
      BY <3>1 DEF LimiterInit, QueueInv, Outcomes
  <2> QED
    BY <2>4, <2>5 DEF LimiterInv
<1>2. LimiterInv /\ [LimiterNext]_limiterVars => LimiterInv'
  BY LimiterStep
<1>3. LimiterInv => RateBound
  BY DEF LimiterInv, BucketInv
<1>4. LimiterInv => QueueIsOpenOrders
  BY DistinctLength DEF LimiterInv, QueueInv, QueueIsOpenOrders
<1>5. LimiterInv /\ [LimiterNext]_limiterVars
        => /\ [\A o \in Orders :
                 outcome[o] = "queued" /\ outcome'[o] = "submitted" =>
                    now - created[o] <= StaleAfter]_limiterVars
           /\ [\A j, k \in DOMAIN queue :
                 j < k /\ outcome'[queue[k]] = "submitted" =>
                    outcome'[queue[j]] # "queued"]_limiterVars
  BY PassIsFair
<1> QED
  BY <1>1, <1>2, <1>3, <1>4, <1>5, PTL
     DEF LimiterSpec, LimiterHolds, NoStaleSubmission, QueueIsFifo

-----------------------------------------------------------------------------
(* The HFT risk manager.                                                   *)

\* A record a tick later.
Aging(r) == [r EXCEPT !.age = @ + 1]

\* Records that grew a tick older, however selected, are no more than they were.
LEMMA OlderIsNoMore ==
    ASSUME NEW S, NEW window, NEW U \in SUBSET S, IsFiniteSet(U),
           NEW T \in SUBSET Older(S, window), \A r \in S : Aging(r) \in T => r \in U
    PROVE  IsFiniteSet(T) /\ Cardinality(T) <= Cardinality(U)
<1> DEFINE V == {r \in U : Aging(r) \in T}
           f == [r \in V |-> Aging(r)]
<1>1. IsFiniteSet(V) /\ Cardinality(V) <= Cardinality(U)
  BY FS_Subset
<1>2. \A t \in T : \E r \in V : t = Aging(r)
  BY DEF Older, Aging
<1>3. f \in Surjection(V, T)
  BY <1>2 DEF Surjection
<1>4. IsFiniteSet(T) /\ Cardinality(T) <= Cardinality(V)
  BY <1>1, <1>3, FS_Surjection
<1>5. Cardinality(T) \in Nat /\ Cardinality(U) \in Nat /\ Cardinality(V) \in Nat
  BY <1>1, <1>4, FS_CardinalityType
<1> QED
  BY <1>1, <1>4, <1>5

\* One more record: the set stays finite, and a selection from it grows by at most that one.
LEMMA NowAddsOne ==
    ASSUME NEW S, NEW x, IsFiniteSet(S), NEW U \in SUBSET S, NEW T \in SUBSET Now(S, x),
           T \cap S \subseteq U
    PROVE  /\ IsFiniteSet(Now(S, x)) /\ S \subseteq Now(S, x)
           /\ IsFiniteSet(T) /\ Cardinality(T) <= Cardinality(U) + 1
<1> DEFINE new == [of |-> x, age |-> 0, nth |-> Cardinality({r \in S : r.of = x /\ r.age = 0})]
<1>1. Now(S, x) = S \cup {new}
  BY DEF Now
<1> HIDE DEF new
<1>2. IsFiniteSet(S \cup {new})
  BY FS_AddElement
<1>3. IsFiniteSet(U) /\ IsFiniteSet(T)
  BY <1>1, <1>2, FS_Subset
<1>4. /\ IsFiniteSet(U \cup {new})
      /\ Cardinality(U \cup {new}) = IF new \in U THEN Cardinality(U) ELSE Cardinality(U) + 1
  BY <1>3, FS_AddElement
<1>5. Cardinality(T) <= Cardinality(U \cup {new})
  <2>1. T \in SUBSET (U \cup {new})
    BY <1>1
  <2> QED
    BY <1>4, <2>1, FS_Subset
<1>6. Cardinality(U) \in Nat /\ Cardinality(T) \in Nat /\ Cardinality(U \cup {new}) \in Nat
  BY <1>3, <1>4, FS_CardinalityType
<1> QED
  BY <1>1, <1>2, <1>3, <1>4, <1>5, <1>6

\* The orders the rates count.
Recent == {r \in orders : r.age < RateWindow}
RecentOf(i) == {r \in Recent : r.of = i}

\* The orders counted stay within the limits.
OrdersInv ==
    /\ IsFiniteSet(orders) /\ orders \subseteq Stamps(Instruments, RejectWindow)
    /\ Cardinality(Recent) <= MaxOrderRate
    /\ \A i \in Instruments : Cardinality(RecentOf(i)) <= MaxInstrumentRate

\* While an activation counts that nobody lifted, the breaker is still up with that very age,
\* unless HFT is disabled altogether; while HFT is not disabled, fewer activations than
\* the maximum have happened since it was enabled, and it has not been escalated.
BreakerInv ==
    /\ IsFiniteSet(events) /\ since \subseteq events
    /\ active \in BOOLEAN /\ disabled \in BOOLEAN
    /\ activated \in -1..Halt /\ halt_age \in -1..Halt
    /\ ~disabled => Cardinality(since) < MaxActivations
    /\ escalated \in BOOLEAN /\ (escalated => disabled)
    /\ disabled \/ halt_age \in {-1, Halt} \/ (active /\ activated = halt_age)

\* An order is recorded only while both rates are below their limits.
LEMMA OrdersStep ==
    ASSUME OrdersInv, [HftRiskNext]_hftRiskVars
    PROVE  OrdersInv'
<1> USE DEF OrdersInv
<1>0. /\ MaxOrderRate \in Nat \ {0} /\ MaxInstrumentRate \in Nat \ {0}
      /\ RateWindow \in Nat \ {0} /\ RejectWindow \in Nat \ {0}
  BY HFTRiskAssumption
<1>1. CASE UNCHANGED orders
  BY <1>1 DEF Recent, RecentOf
<1>2. ASSUME NEW i \in Instruments, RateAllows(i), orders' = Now(orders, i) PROVE OrdersInv'
  <2>0. Recent \in SUBSET orders /\ \A j \in Instruments : RecentOf(j) \in SUBSET orders
    BY DEF Recent, RecentOf
  <2>1. /\ IsFiniteSet(orders')
        /\ Cardinality(Recent') <= Cardinality(Recent) + 1
    <3>1. Recent' \in SUBSET Now(orders, i) /\ Recent' \cap orders \subseteq Recent
      BY <1>2 DEF Recent
    <3> QED
      BY <1>2, <2>0, <3>1, NowAddsOne
  <2>2. Cardinality(Recent) \in Nat /\ Cardinality(Recent') \in Nat
        /\ \A j \in Instruments : Cardinality(RecentOf(j)) \in Nat
                                  /\ Cardinality(RecentOf(j)') \in Nat
    <3>1. Recent' \in SUBSET orders' /\ \A j \in Instruments : RecentOf(j)' \in SUBSET orders'
      BY DEF Recent, RecentOf
    <3>2. /\ IsFiniteSet(Recent) /\ IsFiniteSet(Recent')
          /\ \A j \in Instruments : IsFiniteSet(RecentOf(j)) /\ IsFiniteSet(RecentOf(j)')
      BY <2>0, <2>1, <3>1, FS_Subset
    <3> QED
      BY <3>2, FS_CardinalityType
  <2>3. Cardinality(Recent) < MaxOrderRate /\ Cardinality(RecentOf(i)) < MaxInstrumentRate
    <3>1. RecentOf(i) = {r \in orders : r.of = i /\ r.age < RateWindow}
      BY DEF Recent, RecentOf
    <3> QED
      BY <1>2, <3>1 DEF RateAllows, GlobalCount, Count, Recent
  <2>4. \A j \in Instruments \ {i} : RecentOf(j)' = RecentOf(j)
    BY <1>2 DEF Recent, RecentOf, Now
  <2>5. Cardinality(RecentOf(i)') <= Cardinality(RecentOf(i)) + 1
    <3>1. RecentOf(i)' \in SUBSET Now(orders, i) /\ RecentOf(i)' \cap orders \subseteq RecentOf(i)
      BY <1>2 DEF Recent, RecentOf
    <3> QED
      BY <2>0, <3>1, NowAddsOne
  <2>6. orders' \subseteq Stamps(Instruments, RejectWindow)
    <3>1. IsFiniteSet({r \in orders : r.of = i /\ r.age = 0})
      BY FS_Subset
    <3>2. Cardinality({r \in orders : r.of = i /\ r.age = 0}) \in Nat
      BY <3>1, FS_CardinalityType
    <3> QED
      BY <1>0, <1>2, <3>2 DEF Now, Stamps
  <2>7. Cardinality(Recent') <= MaxOrderRate
    BY <1>0, <2>1, <2>2, <2>3
  <2>8. ASSUME NEW j \in Instruments PROVE Cardinality(RecentOf(j)') <= MaxInstrumentRate
    <3>1. CASE j = i
      BY <1>0, <2>2, <2>3, <2>5, <3>1
    <3>2. CASE j # i
      BY <2>4, <3>2
    <3> QED
      BY <3>1, <3>2
  <2> QED
    BY <2>1, <2>6, <2>7, <2>8
<1>3. CASE orders' = Older(orders, RejectWindow)
  <2>1. \A r \in orders : /\ Aging(r) \in [of : {r.of}, age : {r.age + 1}, nth : Nat]
                          /\ r.age \in 0..(RejectWindow - 1) /\ r.of \in Instruments
    BY DEF Aging, Stamps
  <2>2. IsFiniteSet(orders')
    <3>1. orders' \in SUBSET Older(orders, RejectWindow)
      BY <1>3
    <3> QED
      BY <3>1, OlderIsNoMore
  <2>3. orders' \subseteq Stamps(Instruments, RejectWindow)
    <3> SUFFICES ASSUME NEW s \in orders' PROVE s \in Stamps(Instruments, RejectWindow)
      OBVIOUS
    <3>1. PICK r \in orders : r.age + 1 < RejectWindow /\ s = Aging(r)
      BY <1>3 DEF Older, Aging
    <3> QED
      BY <1>0, <2>1, <3>1 DEF Stamps
  <2>4. Cardinality(Recent') <= Cardinality(Recent)
    <3>1. Recent' \in SUBSET Older(orders, RejectWindow) /\ Recent \in SUBSET orders
      BY <1>3 DEF Recent
    <3>2. \A r \in orders : Aging(r) \in Recent' => r \in Recent
      BY <1>0, <2>1 DEF Recent
    <3>3. IsFiniteSet(Recent)
      BY <3>1, FS_Subset
    <3> QED
      BY <3>1, <3>2, <3>3, OlderIsNoMore
  <2>5. ASSUME NEW i \in Instruments PROVE Cardinality(RecentOf(i)') <= Cardinality(RecentOf(i))
    <3>1. RecentOf(i)' \in SUBSET Older(orders, RejectWindow) /\ RecentOf(i) \in SUBSET orders
      BY <1>3 DEF Recent, RecentOf
    <3>2. \A r \in orders : Aging(r) \in RecentOf(i)' => r \in RecentOf(i)
      BY <1>0, <2>1 DEF Recent, RecentOf
    <3>3. IsFiniteSet(RecentOf(i))
      BY <3>1, FS_Subset
    <3> QED
      BY <3>1, <3>2, <3>3, OlderIsNoMore
  <2>6. Cardinality(Recent) \in Nat /\ Cardinality(Recent') \in Nat
        /\ \A j \in Instruments : Cardinality(RecentOf(j)) \in Nat
                                  /\ Cardinality(RecentOf(j)') \in Nat
    <3>1. Recent' \in SUBSET orders' /\ \A j \in Instruments : RecentOf(j)' \in SUBSET orders'
      BY DEF Recent, RecentOf
    <3>2. Recent \in SUBSET orders /\ \A j \in Instruments : RecentOf(j) \in SUBSET orders
      BY DEF Recent, RecentOf
    <3>3. /\ IsFiniteSet(Recent) /\ IsFiniteSet(Recent')
          /\ \A j \in Instruments : IsFiniteSet(RecentOf(j)) /\ IsFiniteSet(RecentOf(j)')
      BY <2>2, <3>1, <3>2, FS_Subset
    <3> QED
      BY <3>3, FS_CardinalityType
  <2> QED
    BY <1>0, <2>2, <2>3, <2>4, <2>5, <2>6
<1>4. \/ UNCHANGED orders
      \/ \E i \in Instruments : RateAllows(i) /\ orders' = Now(orders, i)
      \/ orders' = Older(orders, RejectWindow)
  BY DEF HftRiskNext, hftRiskVars, counters, UpdatePnl, Order, Deactivate, GetStatus,
         ReEnableHft, HftRiskTick
<1> QED
  BY <1>1, <1>2, <1>3, <1>4

\* The breaker: every activation is counted where the escalation counts, and the clock keeps
\* the age of the halt and that of the breaker together.
LEMMA BreakerStep ==
    ASSUME BreakerInv, [HftRiskNext]_hftRiskVars
    PROVE  BreakerInv'
<1> USE DEF BreakerInv, breaker
<1>0. Halt \in Nat \ {0} /\ MaxActivations \in Nat \ {0}
  BY HFTRiskAssumption
<1>1. CASE ActivateCircuitBreaker
  <2>1. /\ active' = TRUE /\ activated' = 0 /\ halt_age' = 0
        /\ events' = Now(events, "activation")
        /\ since' = since \cup (events' \ events)
        /\ escalated' = (escalated \/ Cardinality(since') >= MaxActivations)
    BY <1>1 DEF ActivateCircuitBreaker
  <2>2. IsFiniteSet(events') /\ events \subseteq events'
    <3>1. events' \in SUBSET Now(events, "activation") /\ events' \cap events \subseteq events
      BY <2>1
    <3> QED
      BY <2>1, <3>1, NowAddsOne
  <2>3. since' \subseteq events'
    BY <2>1, <2>2
  <2>4. /\ disabled' \in BOOLEAN /\ (~disabled' => ~(Cardinality(events') >= MaxActivations))
        /\ disabled => disabled'
    BY <1>1, Zenon DEF ActivateCircuitBreaker
  <2>5. ~disabled' => Cardinality(since') < MaxActivations
    <3>1. Cardinality(since') <= Cardinality(events') /\ IsFiniteSet(since')
      BY <2>2, <2>3, FS_Subset
    <3>2. Cardinality(since') \in Nat /\ Cardinality(events') \in Nat
      BY <2>2, <3>1, FS_CardinalityType
    <3> QED
      BY <1>0, <2>4, <3>1, <3>2
  <2>6. escalated' \in BOOLEAN /\ (escalated' => disabled')
    <3>1. ~disabled' => ~(Cardinality(since') >= MaxActivations)
      <4>1. Cardinality(since') \in Nat
        BY <2>2, <2>3, FS_Subset, FS_CardinalityType
      <4> QED
        BY <1>0, <2>5, <4>1
    <3> QED
      BY <2>1, <2>4, <3>1, Zenon
  <2> QED
    BY <1>0, <2>1, <2>2, <2>3, <2>4, <2>5, <2>6
<1>2. CASE UNCHANGED breaker
  BY <1>2
\* A step that leaves the activations alone and no halt running.
<1>a. ASSUME events' = events, disabled' = disabled, since' = since, escalated' = escalated,
             active' \in BOOLEAN, activated' \in -1..Halt, halt_age' \in {-1, Halt}
      PROVE  BreakerInv'
  <2>1. ~disabled' => Cardinality(since') < MaxActivations
    BY <1>a, Zenon
  <2>2. halt_age' \in -1..Halt
    BY <1>0, <1>a
  <2> QED
    BY <1>a, <2>1, <2>2, Zenon
<1>3. ASSUME NEW p \in Pnls, UpdatePnl(p) PROVE BreakerInv'
  <2>1. ActivateCircuitBreaker \/ UNCHANGED breaker
    BY <1>3 DEF UpdatePnl
  <2> QED
    BY <1>1, <1>2, <2>1
<1>4. CASE Deactivate
  <2>1. /\ active' = FALSE /\ activated' = -1 /\ halt_age' = -1
        /\ events' = events /\ disabled' = disabled /\ since' = since
        /\ escalated' = escalated
    BY <1>4 DEF Deactivate
  <2>2. activated' \in -1..Halt /\ halt_age' \in {-1, Halt}
    BY <1>0, <2>1
  <2>3. active' \in BOOLEAN
    BY <2>1, Zenon
  <2> QED
    BY <1>a, <2>1, <2>2, <2>3
<1>5. CASE Expire /\ UNCHANGED <<events, disabled, halt_age, since, escalated>>
  <2>1. CASE UNCHANGED <<active, activated>>
    BY <1>2, <1>5, <2>1
  <2>2. CASE active' = FALSE /\ activated' = -1 /\ ~disabled /\ activated >= Halt
    <3>1. halt_age' \in {-1, Halt}
      <4>1. halt_age \in {-1, Halt}
        BY <1>0, <2>2
      <4> QED
        BY <1>5, <4>1
    <3>2. activated' \in -1..Halt
      BY <1>0, <2>2
    <3>3. active' \in BOOLEAN
      BY <2>2, Zenon
    <3>4. /\ events' = events /\ disabled' = disabled /\ since' = since
          /\ escalated' = escalated
      BY <1>5
    <3> QED
      BY <1>a, <3>1, <3>2, <3>3, <3>4
  <2> QED
    BY <1>5, <2>1, <2>2 DEF Expire
<1>6. CASE ReEnableHft
  <2>1. /\ active' = FALSE /\ disabled' = FALSE /\ activated' = -1 /\ halt_age' = -1
        /\ since' = {} /\ escalated' = FALSE /\ UNCHANGED events
    BY <1>6 DEF ReEnableHft
  <2>2. Cardinality(since') < MaxActivations
    BY <1>0, <2>1, FS_EmptySet
  <2>3. activated' \in -1..Halt /\ halt_age' \in -1..Halt
    BY <1>0, <2>1
  <2> QED
    BY <2>1, <2>2, <2>3
<1>7. CASE HftRiskTick
  <2>1. /\ activated' = Aged(activated) /\ halt_age' = Aged(halt_age)
        /\ events' = Older(events, EscalationWindow)
        /\ since' = Older(since, EscalationWindow)
        /\ UNCHANGED <<active, disabled, escalated>>
    BY <1>7 DEF HftRiskTick
  <2>2. IsFiniteSet(events') /\ since' \subseteq events'
    <3>1. events' \in SUBSET Older(events, EscalationWindow)
      BY <2>1
    <3>2. IsFiniteSet(events')
      BY <3>1, OlderIsNoMore
    <3> QED
      BY <2>1, <3>2 DEF Older
  <2>3. IsFiniteSet(since) /\ Cardinality(since') <= Cardinality(since)
    <3>1. IsFiniteSet(since)
      BY FS_Subset
    <3>2. since' \in SUBSET Older(since, EscalationWindow) /\ since \in SUBSET since
      BY <2>1
    <3> QED
      BY <3>1, <3>2, OlderIsNoMore
  <2>4. Cardinality(since) \in Nat /\ Cardinality(since') \in Nat
    <3>1. IsFiniteSet(since')
      BY <2>2, FS_Subset
    <3> QED
      BY <2>3, <3>1, FS_CardinalityType
  <2>5. /\ activated' \in -1..Halt /\ halt_age' \in -1..Halt
        /\ activated = halt_age => activated' = halt_age'
        /\ halt_age \in {-1, Halt} => halt_age' = halt_age
    BY <1>0, <2>1 DEF Aged
  <2> QED
    BY <1>0, <2>1, <2>2, <2>3, <2>4, <2>5
<1>8. ASSUME NEW i \in Instruments, Order(i) PROVE BreakerInv'
  BY <1>5, <1>8 DEF Order
<1>9. CASE GetStatus
  BY <1>5, <1>9 DEF GetStatus
<1>10. CASE UNCHANGED hftRiskVars
  BY <1>2, <1>10 DEF hftRiskVars
<1> QED
  BY <1>3, <1>4, <1>6, <1>7, <1>8, <1>9, <1>10 DEF HftRiskNext

\* An order passes only when HFT is not disabled and no halt is running.
LEMMA OrdersPass ==
    ASSUME OrdersInv, BreakerInv, HftRiskNext, AnOrder
    PROVE  (halt_age = -1 \/ halt_age = Halt) /\ ~escalated
<1>1. CASE UNCHANGED orders
  BY <1>1 DEF AnOrder
<1>2. CASE HftRiskTick
  <2>1. ASSUME NEW s \in orders' PROVE s.age # 0
    <3>1. PICK r \in orders : s = [r EXCEPT !.age = @ + 1]
      BY <1>2 DEF HftRiskTick, Older
    <3>2. r \in Stamps(Instruments, RejectWindow)
      BY DEF OrdersInv
    <3>3. s.age = r.age + 1 /\ r.age \in 0..RejectWindow - 1
      BY <3>1, <3>2 DEF Stamps
    <3> QED
      BY <3>3, HFTRiskAssumption
  <2> QED
    BY <2>1 DEF AnOrder
<1>3. ASSUME NEW i \in Instruments, Order(i), IsHftAllowed
      PROVE  (halt_age = -1 \/ halt_age = Halt) /\ ~escalated
  <2>1. ~disabled /\ ~active'
    BY <1>3 DEF IsHftAllowed
  <2>2. \/ active /\ activated >= Halt
        \/ UNCHANGED <<active, activated>>
    BY <1>3 DEF Order, Expire
  <2>3. Halt \in Nat
    BY HFTRiskAssumption
  <2> QED
    BY <2>1, <2>2, <2>3 DEF BreakerInv
<1>4. \/ UNCHANGED orders \/ HftRiskTick
      \/ \E i \in Instruments : Order(i) /\ IsHftAllowed
  BY DEF HftRiskNext, counters, UpdatePnl, Order, Deactivate, GetStatus, ReEnableHft
<1> QED
  BY <1>1, <1>2, <1>3, <1>4

\* In any order of orders, losses, expiries and interventions, and for all limits: no window
\* holds more orders than they allow, no order passes while an activation's halt runs that
\* nobody lifted, and none after the last activation allowed until HFT is re-enabled by hand.
THEOREM HftStaysLimited == HftRiskSpec => HftIsLimited
<1>1. HftRiskInit => OrdersInv /\ BreakerInv
  <2> SUFFICES ASSUME HftRiskInit PROVE OrdersInv /\ BreakerInv
    OBVIOUS
  <2>1. Recent = {} /\ \A i \in Instruments : RecentOf(i) = {}
    BY DEF HftRiskInit, Recent, RecentOf
  <2>2. OrdersInv
    <3>1. 0 <= MaxOrderRate /\ 0 <= MaxInstrumentRate
      BY HFTRiskAssumption
    <3>2. orders = {} /\ IsFiniteSet({}) /\ Cardinality({}) = 0
      BY FS_EmptySet DEF HftRiskInit
    <3> QED
      BY <2>1, <3>1, <3>2 DEF OrdersInv
  <2>3. BreakerInv
    <3>1. Halt \in Nat \ {0} /\ MaxActivations \in Nat \ {0}
      BY HFTRiskAssumption
    <3>2. Cardinality(since) < MaxActivations /\ IsFiniteSet(events)
      BY <3>1, FS_EmptySet DEF HftRiskInit
    <3>3. activated \in -1..Halt /\ halt_age \in -1..Halt
      BY <3>1 DEF HftRiskInit
    <3> QED
      BY <3>2, <3>3 DEF HftRiskInit, BreakerInv
  <2> QED
    BY <2>2, <2>3
<1>2. OrdersInv /\ [HftRiskNext]_hftRiskVars => OrdersInv'
  BY OrdersStep
<1>3. BreakerInv /\ [HftRiskNext]_hftRiskVars => BreakerInv'
  BY BreakerStep
<1>4. OrdersInv => OrderRateBounded
  BY DEF OrdersInv, OrderRateBounded, Recent, RecentOf
<1>5. OrdersInv /\ BreakerInv /\ [HftRiskNext]_hftRiskVars
        => [AnOrder => halt_age = -1 \/ halt_age = Halt]_hftRiskVars
           /\ [AnOrder => ~escalated]_hftRiskVars
  BY OrdersPass
<1> QED
  BY <1>1, <1>2, <1>3, <1>4, <1>5, PTL DEF HftRiskSpec, HftIsLimited, HaltLasts, EscalationHolds
(* Trading hours. *)

\* The minute of the week at a time of day of a weekday.
Weekdays == 1..7
Times == 0..1439
MinuteOf(d, m) == 1440 * (d - 1) + m
DaysAhead == 0..7
MinuteAfter(t) == (t + 1) % Week

\* Whole days and the time of the day, and the end of the week, as numbers.
LEMMA MinuteNumbers ==
    ASSUME NEW d \in Weekdays, NEW m \in Times
    PROVE  /\ MinuteOf(d, m) \in 0..10079
           /\ MinuteOf(d, m) \div 1440 = d - 1 /\ MinuteOf(d, m) % 1440 = m
           /\ MinuteOf(d, m) % 10080 = MinuteOf(d, m)
           /\ (10080 + MinuteOf(d, m)) % 10080 = MinuteOf(d, m)
<1>1. d \in Nat /\ m \in Nat /\ 1 <= d /\ d <= 7 /\ m < 1440
  BY DEF Weekdays, Times
<1> DEFINE x == 1440 * (d - 1) + m
<1>2. x \in Nat /\ x < 10080 /\ x \div 1440 = d - 1 /\ x % 1440 = m
  BY <1>1
<1>3. x \in 0..10079 /\ x % 10080 = x /\ (10080 + x) % 10080 = x
  <2>1. x \in Nat /\ x < 10080
    BY <1>2
  <2> HIDE DEF x
  <2> QED
    BY <2>1
<1>4. MinuteOf(d, m) = x
  BY DEF MinuteOf
<1> HIDE DEF x
<1> QED
  BY <1>2, <1>3, <1>4

LEMMA DayNumbers ==
    ASSUME NEW t \in Nat, t < 10080
    PROVE  /\ t \div 1440 \in 0..6 /\ t % 1440 \in 0..1439
           /\ t = 1440 * (t \div 1440) + (t % 1440)
  OBVIOUS

\* A minute of the week is its weekday and its time of day.
LEMMA Clock ==
    ASSUME NEW t \in 0..Week - 1
    PROVE  /\ Weekday(t) \in Weekdays /\ TimeOfDay(t) \in Times
           /\ t = MinuteOf(Weekday(t), TimeOfDay(t))
<1>1. t \in Nat /\ t < 10080 /\ Day = 1440
  BY DEF Day, Week
<1>2. /\ t \div 1440 \in 0..6 /\ t % 1440 \in 0..1439
      /\ t = 1440 * (t \div 1440) + (t % 1440)
  BY <1>1, DayNumbers
<1>3. (t \div 1440) % 7 = t \div 1440
  BY <1>2
<1>4. Weekday(t) = 1 + (t \div 1440) /\ TimeOfDay(t) = t % 1440
  BY <1>1, <1>3 DEF Weekday, TimeOfDay
<1> QED
  BY <1>2, <1>4 DEF MinuteOf, Weekdays, Times

\* A weekday and a time of day make a minute that reads as they say.
LEMMA ClockReads ==
    ASSUME NEW d \in Weekdays, NEW m \in Times
    PROVE  /\ MinuteOf(d, m) \in 0..Week - 1
           /\ Weekday(MinuteOf(d, m)) = d /\ TimeOfDay(MinuteOf(d, m)) = m
<1>1. /\ MinuteOf(d, m) \in 0..10079
      /\ MinuteOf(d, m) \div 1440 = d - 1 /\ MinuteOf(d, m) % 1440 = m
  BY MinuteNumbers
<1>2. Day = 1440 /\ Week = 10080
  BY DEF Day, Week
<1>3. (d - 1) % 7 = d - 1
  BY DEF Weekdays
<1>4. Weekday(MinuteOf(d, m)) = 1 + (d - 1) /\ TimeOfDay(MinuteOf(d, m)) = m
  BY <1>1, <1>2, <1>3 DEF Weekday, TimeOfDay
<1> QED
  BY <1>1, <1>2, <1>4 DEF Weekdays

\* What replace() and timedelta make of a minute: the time given, on the day that many days later.
LEMMA OnReads ==
    ASSUME NEW t \in 0..Week - 1, NEW days \in DaysAhead, NEW time \in Times
    PROVE  /\ On(t, days, time) \in 0..Week - 1
           /\ TimeOfDay(On(t, days, time)) = time
           /\ Weekday(On(t, days, time)) =
                IF Weekday(t) + days <= 7 THEN Weekday(t) + days ELSE Weekday(t) + days - 7
<1> DEFINE d == Weekday(t)
           m == TimeOfDay(t)
           e == IF d + days <= 7 THEN d + days ELSE d + days - 7
<1>1. d \in Weekdays /\ m \in Times /\ t = MinuteOf(d, m)
  BY Clock
<1>2. Day = 1440 /\ Week = 10080
  BY DEF Day, Week
<1> HIDE DEF d, m
<1>3. On(t, days, time) = (t - m + days * 1440 + time) % 10080
  BY <1>2 DEF On, m
<1>4. CASE d + days <= 7
  <2>1. e \in Weekdays /\ e = d + days
    BY <1>1, <1>4 DEF Weekdays, DaysAhead
  <2>2. t - m + days * 1440 + time = MinuteOf(d + days, time)
    BY <1>1 DEF MinuteOf, Weekdays, Times, DaysAhead
  <2> HIDE DEF e
  <2>3. MinuteOf(e, time) % 10080 = MinuteOf(e, time)
    BY <2>1, MinuteNumbers
  <2>4. On(t, days, time) = MinuteOf(e, time)
    BY <1>3, <2>1, <2>2, <2>3
  <2>5. /\ MinuteOf(e, time) \in 0..Week - 1
        /\ Weekday(MinuteOf(e, time)) = e /\ TimeOfDay(MinuteOf(e, time)) = time
    BY <2>1, ClockReads
  <2> QED
    BY <1>4, <2>1, <2>4, <2>5 DEF d
<1>5. CASE d + days > 7
  <2>1. e \in Weekdays /\ e = d + days - 7
    BY <1>1, <1>5 DEF Weekdays, DaysAhead
  <2>2. t - m + days * 1440 + time = 10080 + MinuteOf(d + days - 7, time)
    BY <1>1 DEF MinuteOf, Weekdays, Times, DaysAhead
  <2> HIDE DEF e
  <2>3. (10080 + MinuteOf(e, time)) % 10080 = MinuteOf(e, time)
    BY <2>1, MinuteNumbers
  <2>4. On(t, days, time) = MinuteOf(e, time)
    BY <1>3, <2>1, <2>2, <2>3
  <2>5. /\ MinuteOf(e, time) \in 0..Week - 1
        /\ Weekday(MinuteOf(e, time)) = e /\ TimeOfDay(MinuteOf(e, time)) = time
    BY <2>1, ClockReads
  <2>6. ~(d + days <= 7)
    BY <1>1, <1>5 DEF Weekdays, DaysAhead
  <2> QED
    BY <2>1, <2>4, <2>5, <2>6 DEF d
<1> QED
  BY <1>1, <1>4, <1>5 DEF Weekdays, DaysAhead

\* The clock a minute later.
LEMMA NextMinuteReads ==
    ASSUME NEW t \in 0..Week - 1
    PROVE  /\ MinuteAfter(t) \in 0..Week - 1
           /\ TimeOfDay(t) < 1439 => /\ Weekday(MinuteAfter(t)) = Weekday(t)
                                     /\ TimeOfDay(MinuteAfter(t)) = TimeOfDay(t) + 1
           /\ TimeOfDay(t) = 1439 =>
                /\ Weekday(MinuteAfter(t)) = IF Weekday(t) = 7 THEN 1 ELSE Weekday(t) + 1
                /\ TimeOfDay(MinuteAfter(t)) = 0
<1> DEFINE d == Weekday(t)
           m == TimeOfDay(t)
           e == IF m < 1439 THEN d ELSE IF d = 7 THEN 1 ELSE d + 1
           n == IF m < 1439 THEN m + 1 ELSE 0
<1>1. d \in Weekdays /\ m \in Times /\ t = MinuteOf(d, m)
  BY Clock
<1>2. Week = 10080
  BY DEF Day, Week
<1> HIDE DEF d, m
<1>3. e \in Weekdays /\ n \in Times
  BY <1>1 DEF Weekdays, Times
<1>4. t + 1 = MinuteOf(e, n) \/ t + 1 = 10080 + MinuteOf(e, n)
  <2>1. CASE m < 1439
    BY <1>1, <2>1 DEF MinuteOf, Weekdays, Times
  <2>2. CASE m = 1439 /\ d = 7
    BY <1>1, <2>2 DEF MinuteOf, Weekdays, Times
  <2>3. CASE m = 1439 /\ d < 7
    BY <1>1, <2>3 DEF MinuteOf, Weekdays, Times
  <2> QED
    BY <1>1, <2>1, <2>2, <2>3 DEF Weekdays, Times
<1> HIDE DEF e, n
<1>5. (t + 1) % 10080 = MinuteOf(e, n)
  <2>1. /\ MinuteOf(e, n) % 10080 = MinuteOf(e, n)
        /\ (10080 + MinuteOf(e, n)) % 10080 = MinuteOf(e, n)
    BY <1>3, MinuteNumbers
  <2> QED
    BY <1>4, <2>1
<1>6. /\ MinuteOf(e, n) \in 0..Week - 1
      /\ Weekday(MinuteOf(e, n)) = e /\ TimeOfDay(MinuteOf(e, n)) = n
  BY <1>3, ClockReads
<1>7. /\ MinuteAfter(t) \in 0..Week - 1
      /\ Weekday(MinuteAfter(t)) = e /\ TimeOfDay(MinuteAfter(t)) = n
  <2>1. MinuteAfter(t) = MinuteOf(e, n)
    BY <1>2, <1>5 DEF MinuteAfter
  <2> QED
    BY Zenon, <1>6, <2>1
<1> QED
  <2>1. CASE m < 1439
    BY <1>7, <2>1 DEF d, m, e, n
  <2>2. CASE m = 1439
    <3>1. ~(m < 1439)
      BY <2>2
    <3> QED
      BY <1>7, <2>2, <3>1 DEF d, m, e, n
  <2> QED
    BY <1>1, <2>1, <2>2 DEF Times

\* A minute is known by its weekday and its time of day.
LEMMA SameMinute ==
    ASSUME NEW t \in 0..Week - 1, NEW u \in 0..Week - 1,
           Weekday(t) = Weekday(u), TimeOfDay(t) = TimeOfDay(u)
    PROVE  t = u
  BY Clock

\* Forex is closed from Friday 21:00 to Sunday 21:00, and opens then.
LEMMA ForexOpens ==
    ASSUME NEW t \in 0..Week - 1, ~IsForexOpen(t)
    PROVE  /\ NextForexOpen(t) \in 0..Week - 1
           /\ Weekday(NextForexOpen(t)) = 7 /\ TimeOfDay(NextForexOpen(t)) = 1260
<1>1. Weekday(t) \in 1..7 /\ TimeOfDay(t) \in 0..1439 /\ At(21, 0) = 1260
  BY Clock DEF At, Weekdays, Times
<1>2. 1260 \in Times /\ {0, 1, 2} \subseteq DaysAhead
  BY DEF Times, DaysAhead
<1>3. CASE Weekday(t) = 5
  <2>1. NextForexOpen(t) = On(t, 2, 1260)
    BY <1>1, <1>3 DEF NextForexOpen, IsForexOpen
  <2> QED
    BY <1>2, <1>3, <2>1, OnReads
<1>4. CASE Weekday(t) = 6
  <2>1. NextForexOpen(t) = On(t, 1, 1260)
    BY <1>1, <1>4 DEF NextForexOpen
  <2> QED
    BY <1>2, <1>4, <2>1, OnReads
<1>5. CASE Weekday(t) = 7
  <2>1. NextForexOpen(t) = On(t, 0, 1260)
    BY <1>1, <1>5 DEF NextForexOpen, IsForexOpen
  <2> QED
    BY <1>2, <1>5, <2>1, OnReads
<1> QED
  BY <1>1, <1>3, <1>4, <1>5 DEF IsForexOpen

\* Asked a minute later, the answer is the same until that minute has come.
LEMMA ForexOpensFirst ==
    ASSUME NEW t \in 0..Week - 1, ~IsForexOpen(t)
    PROVE  /\ IsForexOpen(NextForexOpen(t))
           /\ IF IsForexOpen(MinuteAfter(t)) THEN NextForexOpen(t) = MinuteAfter(t)
              ELSE NextForexOpen(t) = NextForexOpen(MinuteAfter(t))
<1> DEFINE u == MinuteAfter(t)
<1>1. /\ NextForexOpen(t) \in 0..Week - 1
      /\ Weekday(NextForexOpen(t)) = 7 /\ TimeOfDay(NextForexOpen(t)) = 1260
  BY ForexOpens
<1>2. At(21, 0) = 1260
  BY DEF At
<1>3. IsForexOpen(NextForexOpen(t))
  BY <1>1, <1>2 DEF IsForexOpen
<1>4. /\ u \in 0..Week - 1
      /\ TimeOfDay(t) < 1439 => Weekday(u) = Weekday(t) /\ TimeOfDay(u) = TimeOfDay(t) + 1
      /\ TimeOfDay(t) = 1439 => /\ Weekday(u) = IF Weekday(t) = 7 THEN 1 ELSE Weekday(t) + 1
                                /\ TimeOfDay(u) = 0
  BY NextMinuteReads
<1>5. Weekday(t) \in 1..7 /\ TimeOfDay(t) \in 0..1439
  BY Clock DEF Weekdays, Times
<1> HIDE DEF u
<1>6. CASE IsForexOpen(u)
  <2>1. Weekday(u) = 7 /\ TimeOfDay(u) = 1260
    BY <1>2, <1>4, <1>5, <1>6 DEF IsForexOpen
  <2> QED
    BY <1>1, <1>3, <1>4, <1>6, <2>1, SameMinute DEF u
<1>7. CASE ~IsForexOpen(u)
  <2>1. /\ NextForexOpen(u) \in 0..Week - 1
        /\ Weekday(NextForexOpen(u)) = 7 /\ TimeOfDay(NextForexOpen(u)) = 1260
    BY <1>4, <1>7, ForexOpens
  <2> QED
    BY <1>1, <1>3, <1>7, <2>1, SameMinute DEF u
<1> QED
  BY <1>6, <1>7

\* The exchanges and the other commodities have one session on every weekday.
LEMMA SessionOpens ==
    ASSUME NEW t \in 0..Week - 1, NEW from \in Times
    PROVE  /\ NextWeekdayOpen(t, from) \in 0..Week - 1
           /\ TimeOfDay(NextWeekdayOpen(t, from)) = from
           /\ Weekday(NextWeekdayOpen(t, from)) =
                IF Weekday(t) <= 5 /\ TimeOfDay(t) < from THEN Weekday(t)
                ELSE IF Weekday(t) < 5 THEN Weekday(t) + 1 ELSE 1
<1>1. Weekday(t) \in 1..7 /\ TimeOfDay(t) \in 0..1439
  BY Clock DEF Weekdays, Times
<1>4. from \in Nat /\ 0 \in DaysAhead
  BY DEF Times, DaysAhead
<1>2. CASE Weekday(t) <= 5 /\ TimeOfDay(t) < from
  <2>1. NextWeekdayOpen(t, from) = On(t, 0, from)
    BY <1>2 DEF NextWeekdayOpen, IsWeekday
  <2>2. /\ On(t, 0, from) \in 0..Week - 1 /\ TimeOfDay(On(t, 0, from)) = from
        /\ Weekday(On(t, 0, from)) = IF Weekday(t) + 0 <= 7 THEN Weekday(t) + 0
                                     ELSE Weekday(t) + 0 - 7
    BY <1>4, OnReads
  <2> QED
    BY <1>1, <1>2, <2>1, <2>2
<1>3. CASE ~(Weekday(t) <= 5 /\ TimeOfDay(t) < from)
  <2> DEFINE days == IF Weekday(t) \in {5, 6} THEN 8 - Weekday(t) ELSE 1
  <2>1. NextWeekdayOpen(t, from) = On(t, days, from)
    BY <1>3 DEF NextWeekdayOpen, IsWeekday, ToNextWeekday
  <2>2. days \in DaysAhead
    BY <1>1 DEF DaysAhead
  <2>3. /\ On(t, days, from) \in 0..Week - 1
        /\ TimeOfDay(On(t, days, from)) = from
        /\ Weekday(On(t, days, from)) =
                IF Weekday(t) + days <= 7 THEN Weekday(t) + days ELSE Weekday(t) + days - 7
    <3> HIDE DEF days
    <3> QED
      BY <2>2, OnReads
  <2> QED
    BY <1>1, <1>3, <2>1, <2>3
<1> QED
  BY <1>2, <1>3

\* The opening is one, and the first: asked a minute later the answer is the same.
LEMMA SessionOpensFirst ==
    ASSUME NEW t \in 0..Week - 1, NEW from \in Times, NEW to \in Times,
           0 < from, from < to, ~(IsWeekday(t) /\ Between(from, t, to))
    PROVE  /\ NextWeekdayOpen(t, from) \in 0..Week - 1
           /\ IsWeekday(NextWeekdayOpen(t, from))
           /\ Between(from, NextWeekdayOpen(t, from), to)
           /\ IF IsWeekday(MinuteAfter(t)) /\ Between(from, MinuteAfter(t), to)
              THEN NextWeekdayOpen(t, from) = MinuteAfter(t)
              ELSE NextWeekdayOpen(t, from) = NextWeekdayOpen(MinuteAfter(t), from)
<1> DEFINE u == MinuteAfter(t)
           d == IF Weekday(t) <= 5 /\ TimeOfDay(t) < from THEN Weekday(t)
                ELSE IF Weekday(t) < 5 THEN Weekday(t) + 1 ELSE 1
<1>7. from \in 1..1439 /\ to \in Nat
  BY DEF Times
<1>1. /\ NextWeekdayOpen(t, from) \in 0..Week - 1
      /\ TimeOfDay(NextWeekdayOpen(t, from)) = from /\ Weekday(NextWeekdayOpen(t, from)) = d
  BY SessionOpens
<1>2. /\ u \in 0..Week - 1
      /\ TimeOfDay(t) < 1439 => Weekday(u) = Weekday(t) /\ TimeOfDay(u) = TimeOfDay(t) + 1
      /\ TimeOfDay(t) = 1439 => /\ Weekday(u) = IF Weekday(t) = 7 THEN 1 ELSE Weekday(t) + 1
                                /\ TimeOfDay(u) = 0
  BY NextMinuteReads
<1>3. Weekday(t) \in 1..7 /\ TimeOfDay(t) \in 0..1439 /\ d \in 1..5
  BY Clock DEF Weekdays, Times
<1>4. IsWeekday(NextWeekdayOpen(t, from)) /\ Between(from, NextWeekdayOpen(t, from), to)
  BY <1>7, <1>1, <1>3 DEF IsWeekday, Between
<1> HIDE DEF u
<1>5. CASE IsWeekday(u) /\ Between(from, u, to)
  <2>1. Weekday(u) = d /\ TimeOfDay(u) = from
    <3>1. Weekday(u) <= 5 /\ from <= TimeOfDay(u) /\ TimeOfDay(u) < to
      BY <1>5 DEF IsWeekday, Between
    <3>2. TimeOfDay(t) < 1439 /\ Weekday(u) = Weekday(t) /\ TimeOfDay(u) = TimeOfDay(t) + 1
      BY <1>2, <1>3, <1>7, <3>1
    <3>3. ~(from <= TimeOfDay(t) /\ TimeOfDay(t) < to)
      BY <3>1, <3>2 DEF IsWeekday, Between
    <3>4. TimeOfDay(t) \in Nat /\ from \in Nat /\ to \in Nat
      BY SMTT(30), <1>3, <1>7
    <3>5. from <= TimeOfDay(t) + 1 /\ TimeOfDay(t) + 1 < to
      BY <3>1, <3>2
    <3>8. TimeOfDay(t) < to
      BY <3>4, <3>5
    <3>6. TimeOfDay(t) < from
      BY <3>3, <3>4, <3>8
    <3>7. TimeOfDay(t) + 1 = from
      BY <3>4, <3>5, <3>6
    <3> QED
      BY <3>1, <3>2, <3>6, <3>7
  <2> QED
    BY <1>1, <1>2, <1>4, <1>5, <2>1, SameMinute DEF u
<1>6. CASE ~(IsWeekday(u) /\ Between(from, u, to))
  <2>1. /\ NextWeekdayOpen(u, from) \in 0..Week - 1
        /\ TimeOfDay(NextWeekdayOpen(u, from)) = from
        /\ Weekday(NextWeekdayOpen(u, from)) =
             IF Weekday(u) <= 5 /\ TimeOfDay(u) < from THEN Weekday(u)
             ELSE IF Weekday(u) < 5 THEN Weekday(u) + 1 ELSE 1
    BY <1>2, <1>6, SessionOpens
  <2>2. Weekday(NextWeekdayOpen(u, from)) = d
    <3>1. CASE TimeOfDay(t) < 1439
      <4>1. Weekday(u) = Weekday(t) /\ TimeOfDay(u) = TimeOfDay(t) + 1
        BY <1>2, <3>1
      <4>2. Weekday(t) <= 5 => (TimeOfDay(t) < from <=> TimeOfDay(u) < from)
        <5> SUFFICES ASSUME Weekday(t) <= 5
                     PROVE  TimeOfDay(t) < from <=> TimeOfDay(u) < from
          OBVIOUS
        <5>1. TimeOfDay(t) \in Nat /\ TimeOfDay(u) = TimeOfDay(t) + 1
          BY <1>3, <4>1
        <5>2. ~(from <= TimeOfDay(t) /\ TimeOfDay(t) < to)
          BY DEF IsWeekday, Between
        <5>3. ~(from <= TimeOfDay(u) /\ TimeOfDay(u) < to)
          BY <1>6, <4>1 DEF IsWeekday, Between
        <5> QED
          BY <1>7, <5>1, <5>2, <5>3
      <4> QED
        BY <1>3, <2>1, <4>1, <4>2
    <3>2. CASE TimeOfDay(t) = 1439
      BY SMTT(30), <1>7, <1>2, <1>3, <1>6, <2>1, <3>2 DEF IsWeekday, Between
    <3> QED
      BY <1>3, <1>7, <3>1, <3>2
  <2> QED
    BY <1>1, <1>4, <1>6, <2>1, <2>2, SameMinute DEF u
<1> QED
  BY <1>5, <1>6

\* Gold and oil open at 23:00 of a day that depends on when they are asked for.
GoldDay(t) == IF Weekday(t) = 6 THEN 7 ELSE Weekday(t)
OilDay(t) == IF Weekday(t) \in {5, 6} THEN 7 ELSE Weekday(t)

\* The answer, from a minute the market is closed at.
LEMMA MetalsOpen ==
    ASSUME NEW t \in 0..Week - 1
    PROVE  /\ ~IsGoldOpen(t) => /\ NextGoldOpen(t) \in 0..Week - 1
                                /\ Weekday(NextGoldOpen(t)) = GoldDay(t)
                                /\ TimeOfDay(NextGoldOpen(t)) = 1380
           /\ ~IsOilOpen(t) => /\ NextOilOpen(t) \in 0..Week - 1
                               /\ Weekday(NextOilOpen(t)) = OilDay(t)
                               /\ TimeOfDay(NextOilOpen(t)) = 1380
<1>1. Weekday(t) \in 1..7 /\ TimeOfDay(t) \in 0..1439 /\ At(22, 0) = 1320 /\ At(23, 0) = 1380
  BY Clock DEF At, Weekdays, Times
<1>2. 1380 \in Times /\ {0, 1, 2} \subseteq DaysAhead
  BY DEF Times, DaysAhead
<1>3. ASSUME ~IsGoldOpen(t)
      PROVE  NextGoldOpen(t) = On(t, IF Weekday(t) = 6 THEN 1 ELSE 0, 1380)
  <2>1. CASE Weekday(t) = 6
    BY <1>1, <2>1 DEF NextGoldOpen, IsWeekday, InDailyBreak, Between
  <2>2. CASE Weekday(t) = 7
    BY <1>1, <1>3, <2>2 DEF NextGoldOpen, IsGoldOpen, IsWeekday, InDailyBreak, Between
  <2>3. CASE Weekday(t) \in 1..5
    <3>1. InDailyBreak(t) /\ IsWeekday(t)
      BY <1>3, <2>3 DEF IsGoldOpen, IsWeekday
    <3>2. Weekday(t) # 6
      BY <2>3
    <3>3. NextGoldOpen(t) = On(t, 0, At(23, 0))
      BY <3>1 DEF NextGoldOpen
    <3> QED
      BY <1>1, <3>2, <3>3
  <2> QED
    BY <1>1, <2>1, <2>2, <2>3
<1>4. ASSUME ~IsOilOpen(t)
      PROVE  NextOilOpen(t) =
               On(t, IF Weekday(t) = 5 THEN 2 ELSE IF Weekday(t) = 6 THEN 1 ELSE 0, 1380)
  <2>1. CASE Weekday(t) \in {5, 6}
    BY <1>1, <1>4, <2>1 DEF NextOilOpen, IsOilOpen, InDailyBreak, Between
  <2>2. CASE Weekday(t) = 7
    BY <1>1, <1>4, <2>2 DEF NextOilOpen, IsOilOpen, InDailyBreak, Between
  <2>3. CASE Weekday(t) \in 1..4
    BY <1>1, <1>4, <2>3 DEF NextOilOpen, IsOilOpen, InDailyBreak, Between
  <2> QED
    BY <1>1, <2>1, <2>2, <2>3
<1>5. /\ On(t, 0, 1380) \in 0..Week - 1 /\ TimeOfDay(On(t, 0, 1380)) = 1380
      /\ Weekday(On(t, 0, 1380)) = Weekday(t)
  <2>1. /\ On(t, 0, 1380) \in 0..Week - 1 /\ TimeOfDay(On(t, 0, 1380)) = 1380
        /\ Weekday(On(t, 0, 1380)) = IF Weekday(t) + 0 <= 7 THEN Weekday(t) + 0
                                     ELSE Weekday(t) + 0 - 7
    BY <1>2, OnReads
  <2> QED
    BY <1>1, <2>1
<1>6. /\ On(t, 1, 1380) \in 0..Week - 1 /\ TimeOfDay(On(t, 1, 1380)) = 1380
      /\ Weekday(t) = 6 => Weekday(On(t, 1, 1380)) = 7
  BY <1>2, OnReads
<1>7. /\ On(t, 2, 1380) \in 0..Week - 1 /\ TimeOfDay(On(t, 2, 1380)) = 1380
      /\ Weekday(t) = 5 => Weekday(On(t, 2, 1380)) = 7
  BY <1>2, OnReads
<1> QED
  BY <1>1, <1>3, <1>4, <1>5, <1>6, <1>7 DEF GoldDay, OilDay

\* It is an opening, and the first.
LEMMA MetalsOpenFirst ==
    ASSUME NEW t \in 0..Week - 1
    PROVE  /\ ~IsGoldOpen(t) =>
                /\ IsGoldOpen(NextGoldOpen(t))
                /\ IF IsGoldOpen(MinuteAfter(t)) THEN NextGoldOpen(t) = MinuteAfter(t)
                   ELSE NextGoldOpen(t) = NextGoldOpen(MinuteAfter(t))
           /\ ~IsOilOpen(t) =>
                /\ IsOilOpen(NextOilOpen(t))
                /\ IF IsOilOpen(MinuteAfter(t)) THEN NextOilOpen(t) = MinuteAfter(t)
                   ELSE NextOilOpen(t) = NextOilOpen(MinuteAfter(t))
<1> DEFINE u == MinuteAfter(t)
<1>1. /\ Weekday(t) \in 1..7 /\ TimeOfDay(t) \in 0..1439
      /\ At(22, 0) = 1320 /\ At(23, 0) = 1380
  BY Clock DEF At, Weekdays, Times
<1>2. /\ u \in 0..Week - 1
      /\ TimeOfDay(t) < 1439 => Weekday(u) = Weekday(t) /\ TimeOfDay(u) = TimeOfDay(t) + 1
      /\ TimeOfDay(t) = 1439 => /\ Weekday(u) = IF Weekday(t) = 7 THEN 1 ELSE Weekday(t) + 1
                                /\ TimeOfDay(u) = 0
  BY NextMinuteReads
<1> HIDE DEF u
<1>3. ASSUME ~IsGoldOpen(t)
      PROVE  /\ IsGoldOpen(NextGoldOpen(t))
             /\ IF IsGoldOpen(u) THEN NextGoldOpen(t) = u ELSE NextGoldOpen(t) = NextGoldOpen(u)
  <2>1. /\ NextGoldOpen(t) \in 0..Week - 1 /\ Weekday(NextGoldOpen(t)) = GoldDay(t)
        /\ TimeOfDay(NextGoldOpen(t)) = 1380
    BY <1>3, MetalsOpen
  <2>2. IsGoldOpen(NextGoldOpen(t))
    BY <1>1, <2>1 DEF IsGoldOpen, GoldDay, InDailyBreak, Between
  <2>3. ASSUME IsGoldOpen(u) PROVE NextGoldOpen(t) = u
    <3>1. Weekday(u) = GoldDay(t) /\ TimeOfDay(u) = 1380
      BY <1>1, <1>2, <1>3, <2>3 DEF IsGoldOpen, GoldDay, InDailyBreak, Between
    <3> QED
      BY <1>2, <2>1, <3>1, SameMinute
  <2>4. ASSUME ~IsGoldOpen(u) PROVE NextGoldOpen(t) = NextGoldOpen(u)
    <3>1. /\ NextGoldOpen(u) \in 0..Week - 1 /\ Weekday(NextGoldOpen(u)) = GoldDay(u)
          /\ TimeOfDay(NextGoldOpen(u)) = 1380
      BY <1>2, <2>4, MetalsOpen
    <3>2. GoldDay(u) = GoldDay(t)
      <4>1. CASE TimeOfDay(t) < 1439
        <5>1. Weekday(u) = Weekday(t)
          BY <1>2, <4>1
        <5> QED
          BY <5>1 DEF GoldDay
      <4>2. CASE TimeOfDay(t) = 1439
        BY <1>1, <1>2, <1>3, <2>4, <4>2 DEF IsGoldOpen, GoldDay, InDailyBreak, Between
      <4> QED
        BY <1>1, <4>1, <4>2
    <3> QED
      BY <2>1, <3>1, <3>2, SameMinute
  <2> QED
    BY <2>2, <2>3, <2>4
<1>4. ASSUME ~IsOilOpen(t)
      PROVE  /\ IsOilOpen(NextOilOpen(t))
             /\ IF IsOilOpen(u) THEN NextOilOpen(t) = u ELSE NextOilOpen(t) = NextOilOpen(u)
  <2>1. /\ NextOilOpen(t) \in 0..Week - 1 /\ Weekday(NextOilOpen(t)) = OilDay(t)
        /\ TimeOfDay(NextOilOpen(t)) = 1380
    BY <1>4, MetalsOpen
  <2>2. IsOilOpen(NextOilOpen(t))
    BY <1>1, <2>1 DEF IsOilOpen, OilDay, InDailyBreak, Between
  <2>3. ASSUME IsOilOpen(u) PROVE NextOilOpen(t) = u
    <3>1. Weekday(u) = OilDay(t) /\ TimeOfDay(u) = 1380
      BY SMTT(30), <1>1, <1>2, <1>4, <2>3 DEF IsOilOpen, OilDay, InDailyBreak, Between
    <3> QED
      BY <1>2, <2>1, <3>1, SameMinute
  <2>4. ASSUME ~IsOilOpen(u) PROVE NextOilOpen(t) = NextOilOpen(u)
    <3>1. /\ NextOilOpen(u) \in 0..Week - 1 /\ Weekday(NextOilOpen(u)) = OilDay(u)
          /\ TimeOfDay(NextOilOpen(u)) = 1380
      BY <1>2, <2>4, MetalsOpen
    <3>2. OilDay(u) = OilDay(t)
      <4>1. CASE TimeOfDay(t) < 1439
        <5>1. Weekday(u) = Weekday(t)
          BY <1>2, <4>1
        <5> QED
          BY <5>1 DEF OilDay
      <4>2. CASE TimeOfDay(t) = 1439
        BY <1>1, <1>2, <1>4, <2>4, <4>2 DEF IsOilOpen, OilDay, InDailyBreak, Between
      <4> QED
        BY <1>1, <4>1, <4>2
    <3> QED
      BY <2>1, <3>1, <3>2, SameMinute
  <2> QED
    BY <2>2, <2>3, <2>4
<1> QED
  BY <1>3, <1>4 DEF u

\* The two sets of rules of config/market_hours.py agree for every asset class at every minute of
\* the week: get_next_open returns the first minute at which is_market_open holds.
THEOREM NextOpenIsTheFirst == HoursSpec => []NextOpenIsFirst
<1> DEFINE InWeek == minute \in 0..Week - 1
           u == MinuteAfter(minute)
<1>1. HoursInit => InWeek
  BY DEF HoursInit
<1>2. InWeek /\ [HoursNext]_minute => InWeek'
  BY NextMinuteReads DEF HoursNext, MinutePasses, MinuteAfter
<1>3. InWeek => NextOpenIsFirst
  <2> SUFFICES ASSUME InWeek, NEW class \in AssetClasses
               PROVE  /\ IsOpen(class, NextOpen(class, minute))
                      /\ ~IsOpen(class, minute) =>
                            NextOpen(class, minute) = NextOpen(class, u)
    BY DEF NextOpenIsFirst, MinuteAfter
  <2> HIDE DEF u
  <2>1. ASSUME IsOpen(class, minute)
        PROVE  IsOpen(class, NextOpen(class, minute))
    BY <2>1 DEF NextOpen
  <2>2. CASE class = "crypto"
    BY <2>2 DEF NextOpen, IsOpen
  <2>3. CASE class = "forex"
    <3>1. /\ \A t : IsOpen(class, t) <=> IsForexOpen(t)
          /\ \A t : NextOpen(class, t) = IF IsForexOpen(t) THEN t ELSE NextForexOpen(t)
      BY <2>3 DEF NextOpen, IsOpen
    <3> QED
      BY <2>1, <3>1, ForexOpensFirst DEF u
  <2>4. CASE class = "gold"
    <3>1. /\ \A t : IsOpen(class, t) <=> IsGoldOpen(t)
          /\ \A t : NextOpen(class, t) = IF IsGoldOpen(t) THEN t ELSE NextGoldOpen(t)
      BY <2>4 DEF NextOpen, IsOpen
    <3> QED
      BY <2>1, <3>1, MetalsOpenFirst DEF u
  <2>5. CASE class = "oil"
    <3>1. /\ \A t : IsOpen(class, t) <=> IsOilOpen(t)
          /\ \A t : NextOpen(class, t) = IF IsOilOpen(t) THEN t ELSE NextOilOpen(t)
      BY <2>5 DEF NextOpen, IsOpen
    <3> QED
      BY <2>1, <3>1, MetalsOpenFirst DEF u
  <2>6. CASE class = "us"
    <3>1. /\ \A t : IsOpen(class, t) <=> IsWeekday(t) /\ Between(870, t, 1260)
          /\ \A t : NextOpen(class, t) =
                      IF IsWeekday(t) /\ Between(870, t, 1260) THEN t ELSE NextWeekdayOpen(t, 870)
      BY <2>6 DEF NextOpen, IsOpen, IsUsOpen, At
    <3>2. 870 \in Times /\ 1260 \in Times
      BY DEF Times
    <3> QED
      BY <2>1, <3>1, <3>2, SessionOpensFirst DEF u
  <2>7. CASE class = "eu"
    <3>1. /\ \A t : IsOpen(class, t) <=> IsWeekday(t) /\ Between(480, t, 990)
          /\ \A t : NextOpen(class, t) =
                      IF IsWeekday(t) /\ Between(480, t, 990) THEN t ELSE NextWeekdayOpen(t, 480)
      BY <2>7 DEF NextOpen, IsOpen, IsEuOpen, At
    <3>2. 480 \in Times /\ 990 \in Times
      BY DEF Times
    <3> QED
      BY <2>1, <3>1, <3>2, SessionOpensFirst DEF u
  <2>8. CASE class = "commodity"
    <3>1. /\ \A t : IsOpen(class, t) <=> IsWeekday(t) /\ Between(60, t, 1320)
          /\ \A t : NextOpen(class, t) =
                      IF IsWeekday(t) /\ Between(60, t, 1320) THEN t ELSE NextWeekdayOpen(t, 60)
      BY <2>8 DEF NextOpen, IsOpen, IsCommodityOpen, At
    <3>2. 60 \in Times /\ 1320 \in Times
      BY DEF Times
    <3> QED
      BY <2>1, <3>1, <3>2, SessionOpensFirst DEF u
  <2> QED
    BY <2>2, <2>3, <2>4, <2>5, <2>6, <2>7, <2>8 DEF AssetClasses
<1> QED
  BY <1>1, <1>2, <1>3, PTL DEF HoursSpec
-----------------------------------------------------------------------------
(* The candle buffer.                                                      *)

PolledTick == [time : Nat, price : Int]
Candle == [time : Int, open : Int, high : Int, low : Int, close : Int, tick_count : Int]

\* i is the tick with which the open candle began, and the candle is what its ticks make of it.
OpenIs(i) ==
    /\ i \in Beginnings /\ \A b \in Beginnings : b <= i
    /\ \A j \in DOMAIN ticks : PeriodStart(ticks[j].time) <= PeriodStart(ticks[i].time)
    /\ open[1].time = PeriodStart(ticks[i].time) /\ open[1].open = ticks[i].price
    /\ open[1].high \in PricesOf(i) /\ \A p \in PricesOf(i) : p <= open[1].high
    /\ open[1].low \in PricesOf(i) /\ \A p \in PricesOf(i) : open[1].low <= p
    /\ open[1].close = ticks[Len(ticks)].price
    /\ open[1].tick_count = Cardinality(Members(i)) /\ IsFiniteSet(Members(i))
    /\ Len(ticks) \in Members(i)

CandlesInv ==
    /\ ticks \in Seq(PolledTick) /\ closed \in Seq(Candle) /\ open \in Seq(Candle)
    /\ ticks = <<>> => open = <<>> /\ closed = <<>>
    /\ ticks # <<>> => Len(open) = 1 /\ \E i \in DOMAIN ticks : OpenIs(i)
    /\ \A i \in Beginnings : Max(Members(i)) \in 1..Len(ticks)
    /\ \A i \in Beginnings : Later(i) \in 1..Len(closed) =>
            closed[Len(closed) + 1 - Later(i)] = CandleOf(i)
    /\ ticks # <<>> => Len(closed) = IF Cardinality(Beginnings) > MaxCandles THEN MaxCandles
                                     ELSE Cardinality(Beginnings) - 1

LEMMA StartIsInt == \A t \in Nat : PeriodStart(t) \in Int
<1> SUFFICES ASSUME NEW t \in Nat PROVE PeriodStart(t) \in Int
  OBVIOUS
<1>1. Period \in Nat /\ Period > 0
  BY CandleAssumption
<1>2. t \div Period \in Int
  BY <1>1
<1> QED
  BY <1>1, <1>2 DEF PeriodStart

LEMMA GreatestIsMax ==
    ASSUME NEW S \in SUBSET Int, NEW m \in S, \A x \in S : x <= m
    PROVE  Max(S) = m
<1>1. \A x \in S : m >= x
  OBVIOUS
<1>2. Max(S) \in S /\ \A x \in S : Max(S) >= x
  BY <1>1, Zenon DEF Max
<1>3. Max(S) \in Int /\ m \in Int
  BY <1>2
<1>4. Max(S) >= m /\ Max(S) <= m
  BY <1>2
<1> QED
  BY <1>3, <1>4

LEMMA LeastIsMin ==
    ASSUME NEW S \in SUBSET Int, NEW m \in S, \A x \in S : m <= x
    PROVE  Min(S) = m
<1>1. Min(S) \in S /\ \A x \in S : Min(S) <= x
  BY Zenon DEF Min
<1>2. Min(S) \in Int /\ m \in Int
  BY <1>1
<1>3. Min(S) >= m /\ Min(S) <= m
  BY <1>1
<1> QED
  BY <1>2, <1>3

LEMMA OnlyElement ==
    ASSUME NEW S, NEW s \in Seq(S), Len(s) = 1
    PROVE  s[1] \in S
<1>1. \A k \in 1..Len(s) : s[k] \in S
  OBVIOUS
<1> QED
  BY <1>1

LEMMA BeginningsAreFinite ==
    ASSUME ticks \in Seq(PolledTick)
    PROVE  /\ IsFiniteSet(Beginnings) /\ Cardinality(Beginnings) \in Nat
           /\ Beginnings \subseteq 1..Len(ticks)
           /\ \A i : /\ IsFiniteSet({b \in Beginnings : i < b}) /\ Later(i) \in Nat
<1>1. Beginnings \subseteq 1..Len(ticks)
  BY DEF Beginnings
<1>2. IsFiniteSet(Beginnings)
  <2>1. IsFiniteSet(1..Len(ticks))
    BY FS_Interval
  <2> QED
    BY <1>1, <2>1, FS_Subset
<1>3. \A i : IsFiniteSet({b \in Beginnings : i < b})
  BY <1>2, FS_Subset
<1> QED
  BY <1>1, <1>2, <1>3, FS_CardinalityType DEF Later

\* The open candle is the candle of the reference.
LEMMA OpenIsTheCandle ==
    ASSUME CandlesInv, NEW i \in DOMAIN ticks, OpenIs(i), ticks # <<>>
    PROVE  open[1] = CandleOf(i)
<1> DEFINE P == PricesOf(i)
           M == Members(i)
           n == Len(ticks)
<1>1. open[1] \in Candle /\ ticks \in Seq(PolledTick) /\ n \in Nat /\ i \in 1..n
  <2>1. ticks \in Seq(PolledTick) /\ open \in Seq(Candle) /\ Len(open) = 1
    BY DEF CandlesInv
  <2> QED
    BY <2>1, OnlyElement
<1>2. M \subseteq Int /\ \A j \in M : j <= n
  BY <1>1 DEF Members
<1>3. P \subseteq Int
  <2>1. \A j \in 1..n : ticks[j] \in PolledTick
    BY <1>1
  <2>2. \A j \in M : j \in 1..n
    BY <1>1, <1>2 DEF Members
  <2> QED
    BY <2>1, <2>2 DEF PricesOf, PolledTick
<1>4. /\ open[1].high \in P /\ \A p \in P : p <= open[1].high
      /\ open[1].low \in P /\ \A p \in P : open[1].low <= p
      /\ n \in M
  BY DEF OpenIs
<1> HIDE DEF P, M
<1>5. Max(P) = open[1].high
  BY <1>3, <1>4, GreatestIsMax
<1>6. Min(P) = open[1].low
  BY <1>3, <1>4, LeastIsMin
<1>7. Max(M) = n
  BY <1>2, <1>4, GreatestIsMax
<1>8. CandleOf(i) = [time |-> open[1].time, open |-> open[1].open, high |-> open[1].high,
                     low |-> open[1].low, close |-> open[1].close,
                     tick_count |-> open[1].tick_count]
  BY <1>5, <1>6, <1>7 DEF CandleOf, OpenIs, P, M
<1> QED
  BY <1>1, <1>8 DEF Candle

\* A tick more leaves the earlier ones as they were.
LEMMA TickAppended ==
    ASSUME ticks \in Seq(PolledTick), NEW t \in PolledTick, ticks' = Append(ticks, t)
    PROVE  /\ Len(ticks) \in Nat /\ Len(ticks') = Len(ticks) + 1 /\ ticks' \in Seq(PolledTick)
           /\ DOMAIN ticks = 1..Len(ticks) /\ DOMAIN ticks' = 1..(Len(ticks) + 1)
           /\ ticks'[Len(ticks) + 1] = t /\ \A i \in 1..Len(ticks) : ticks'[i] = ticks[i]
           /\ \A i \in 1..Len(ticks) : PeriodStart(ticks[i].time) \in Int
           /\ Beginnings' = Beginnings \cup
                (IF \A j \in 1..Len(ticks) : PeriodStart(ticks[j].time) < PeriodStart(t.time)
                 THEN {Len(ticks) + 1} ELSE {})
<1> DEFINE n == Len(ticks)
           start(i) == PeriodStart(ticks[i].time)
<1>1. /\ n \in Nat /\ Len(ticks') = n + 1 /\ ticks' \in Seq(PolledTick)
      /\ DOMAIN ticks = 1..n /\ DOMAIN ticks' = 1..(n + 1)
      /\ ticks'[n + 1] = t /\ \A i \in 1..n : ticks'[i] = ticks[i]
  OBVIOUS
<1>2. \A i \in 1..n : ticks[i].time \in Nat
  <2>1. \A i \in 1..n : ticks[i] \in PolledTick
    BY <1>1
  <2> QED
    BY <2>1 DEF PolledTick
<1>3. \A i \in 1..n : start(i) \in Int
  BY <1>2, StartIsInt
<1>4. \A i \in 1..(n + 1) : i \in Beginnings' <=>
         \A j \in 1..(i - 1) : PeriodStart(ticks'[j].time) < PeriodStart(ticks'[i].time)
  BY <1>1 DEF Beginnings, PeriodStart
<1>5. \A i \in 1..n : i \in Beginnings <=> \A j \in 1..(i - 1) : start(j) < start(i)
  BY <1>1 DEF Beginnings
<1>6. \A i \in 1..n : i \in Beginnings' <=> i \in Beginnings
  <2> SUFFICES ASSUME NEW i \in 1..n PROVE i \in Beginnings' <=> i \in Beginnings
    OBVIOUS
  <2>1. i \in 1..(n + 1) /\ ticks'[i] = ticks[i]
    BY <1>1
  <2>2. \A j \in 1..(i - 1) : ticks'[j] = ticks[j]
    BY <1>1
  <2> QED
    BY <1>4, <1>5, <2>1, <2>2
<1>7. n + 1 \in Beginnings' <=> \A j \in 1..n : start(j) < PeriodStart(t.time)
  <2>1. n + 1 \in 1..(n + 1) /\ (n + 1) - 1 = n
    BY <1>1
  <2> QED
    BY <1>1, <1>4, <2>1
<1>8. Beginnings \subseteq 1..n /\ Beginnings' \subseteq 1..(n + 1)
  BY <1>1 DEF Beginnings
<1>9. 1..(n + 1) = 1..n \cup {n + 1}
  BY <1>1
<1> HIDE DEF start
<1> QED
  BY <1>1, <1>3, <1>6, <1>7, <1>8, <1>9 DEF start

\* A candle that is followed by another one stays as it is.
LEMMA OldCandlesStay ==
    ASSUME ticks \in Seq(PolledTick), NEW t \in PolledTick, ticks' = Append(ticks, t),
           NEW i \in Beginnings, NEW next \in Beginnings', i < next,
           Max(Members(i)) \in 1..Len(ticks)
    PROVE  CandleOf(i)' = CandleOf(i) /\ Members(i)' = Members(i)
<1> DEFINE n == Len(ticks)
<1>1. /\ n \in Nat /\ Len(ticks') = n + 1 /\ ticks' \in Seq(PolledTick)
      /\ \A k \in 1..n : ticks'[k] = ticks[k]
      /\ Beginnings \subseteq Beginnings' /\ Beginnings' \subseteq Beginnings \cup {n + 1}
  BY TickAppended
<1>2. Beginnings \subseteq 1..n /\ Beginnings' \subseteq 1..(n + 1) /\ i \in 1..n
  BY <1>1, BeginningsAreFinite
<1>3. Members(i)' = Members(i)
  <2>1. ASSUME NEW j \in Members(i)' PROVE j \in Members(i)
    <3>1. j \in i..(n + 1) /\ \A b \in Beginnings' : b <= i \/ j < b
      BY <1>1, <2>1 DEF Members
    <3>2. j < next
      BY <1>2, <3>1
    <3>3. j \in i..n
      BY <1>1, <1>2, <3>1, <3>2
    <3> QED
      BY <1>1, <3>1, <3>3 DEF Members
  <2>2. ASSUME NEW j \in Members(i) PROVE j \in Members(i)'
    <3>1. j \in i..n /\ \A b \in Beginnings : b <= i \/ j < b
      BY <2>2 DEF Members
    <3>2. j < n + 1 /\ j \in i..(n + 1)
      BY <1>1, <1>2, <3>1
    <3>3. \A b \in Beginnings' : b <= i \/ j < b
      BY <1>1, <3>1, <3>2
    <3> QED
      BY <1>1, <3>2, <3>3 DEF Members
  <2> QED
    BY <2>1, <2>2
<1>4. \A j \in Members(i) : j \in 1..n
  BY <1>1, <1>2 DEF Members
<1>5. PricesOf(i)' = PricesOf(i)
  BY <1>1, <1>3, <1>4 DEF PricesOf
<1> QED
  BY <1>1, <1>2, <1>3, <1>5 DEF CandleOf, PeriodStart

\* What the deque keeps is the end of the list.
LEMMA KeptIsTheEnd ==
    ASSUME NEW s \in Seq(Candle)
    PROVE  /\ Kept(s) \in Seq(Candle)
           /\ Len(Kept(s)) = IF Len(s) > MaxCandles THEN MaxCandles ELSE Len(s)
           /\ \A d \in 1..Len(Kept(s)) : Kept(s)[Len(Kept(s)) + 1 - d] = s[Len(s) + 1 - d]
<1> DEFINE n == Len(s)
           kept == IF n > MaxCandles THEN MaxCandles ELSE n
           f == [k \in 1..kept |-> s[n - kept + k]]
<1>1. n \in Nat /\ kept \in Nat /\ kept <= n /\ \A k \in 1..n : s[k] \in Candle
  BY CandleAssumption
<1>2. Kept(s) = f
  BY DEF Kept
<1> HIDE DEF kept
<1>3. \A k \in 1..kept : n - kept + k \in 1..n
  BY <1>1
<1>4. f \in [1..kept -> Candle]
  BY <1>1, <1>3
<1>5. f \in Seq(Candle) /\ DOMAIN f = 1..kept
  BY <1>1, <1>4
<1>6. Len(f) = kept
  BY <1>1, <1>5
<1>7. \A d \in 1..kept : kept + 1 - d \in 1..kept /\ n - kept + (kept + 1 - d) = n + 1 - d
  BY <1>1
<1>8. \A d \in 1..kept : f[kept + 1 - d] = s[n + 1 - d]
  BY <1>7
<1> HIDE DEF f
<1> QED
  BY <1>2, <1>5, <1>6, <1>8 DEF kept

\* A tick of a later period begins a candle of its own.
LEMMA NewCandleOpens ==
    ASSUME ticks \in Seq(PolledTick), NEW t \in PolledTick, ticks' = Append(ticks, t),
           NEW k \in Nat, k = Len(ticks) + 1,
           \A j \in 1..Len(ticks) : PeriodStart(ticks[j].time) < PeriodStart(t.time),
           open' = <<NewCandle(PeriodStart(t.time), t.price)>>
    PROVE  /\ OpenIs(k)' /\ Max(Members(k))' = k /\ open' \in Seq(Candle) /\ Len(open') = 1
           /\ Beginnings' = Beginnings \cup {k}
<1>1. /\ Len(ticks') = k /\ DOMAIN ticks' = 1..k /\ ticks'[k] = t
      /\ \A i \in 1..Len(ticks) : ticks'[i] = ticks[i]
      /\ \A i \in 1..Len(ticks) : PeriodStart(ticks[i].time) \in Int
      /\ Beginnings' = Beginnings \cup {k} /\ k \in 1..k
  BY TickAppended
<1>2. t.time \in Nat /\ t.price \in Int /\ PeriodStart(t.time) \in Int
  BY StartIsInt DEF PolledTick
<1>3. Beginnings \subseteq 1..Len(ticks)
  BY BeginningsAreFinite
<1>4. /\ open'[1].time = PeriodStart(t.time) /\ open'[1].open = t.price
      /\ open'[1].high = t.price /\ open'[1].low = t.price /\ open'[1].close = t.price
      /\ open'[1].tick_count = 1
  BY DEF NewCandle
<1>5. NewCandle(PeriodStart(t.time), t.price) \in Candle
  BY <1>2 DEF NewCandle, Candle
<1>6. open' \in Seq(Candle) /\ Len(open') = 1
  BY <1>5
<1>7. Members(k)' = {k}
  <2>1. \A b \in Beginnings' : b <= k
    BY <1>1, <1>3
  <2>2. Members(k)' = {j \in k..k : \A b \in Beginnings' : b <= k \/ j < b}
    BY <1>1 DEF Members
  <2> QED
    BY <2>1, <2>2
<1>8. PricesOf(k)' = {t.price}
  BY <1>1, <1>7 DEF PricesOf
<1>9. Max({k}) = k
  <2>1. {k} \in SUBSET Int /\ k \in {k} /\ \A x \in {k} : x <= k
    OBVIOUS
  <2> QED
    BY <2>1, GreatestIsMax
<1>10. IsFiniteSet({k}) /\ Cardinality({k}) = 1
  BY FS_Singleton
<1>11. \A p : PeriodStart(p)' = PeriodStart(p)
  BY DEF PeriodStart
<1>12. OpenIs(k)'
  <2>1. \A b \in Beginnings' : b <= k
    BY <1>1, <1>3
  <2>2. \A j \in 1..k : PeriodStart(ticks'[j].time) <= PeriodStart(t.time)
    <3> SUFFICES ASSUME NEW j \in 1..k PROVE PeriodStart(ticks'[j].time) <= PeriodStart(t.time)
      OBVIOUS
    <3>1. CASE j = k
      BY <1>1, <1>2, <3>1
    <3>2. CASE j # k
      <4>1. j \in 1..Len(ticks)
        BY <3>2
      <4> QED
        BY <1>1, <1>2, <4>1
    <3> QED
      BY <3>1, <3>2
  <2>3. \A j \in DOMAIN ticks' : PeriodStart(ticks'[j].time) <= PeriodStart(ticks'[k].time)
    BY <1>1, <2>2
  <2>4. /\ open'[1].high \in PricesOf(k)' /\ \A p \in PricesOf(k)' : p <= open'[1].high
        /\ open'[1].low \in PricesOf(k)' /\ \A p \in PricesOf(k)' : open'[1].low <= p
    BY <1>2, <1>4, <1>8
  <2>5. /\ open'[1].time = PeriodStart(ticks'[k].time) /\ open'[1].open = ticks'[k].price
        /\ open'[1].close = ticks'[Len(ticks')].price
    BY <1>1, <1>4
  <2>6. /\ open'[1].tick_count = Cardinality(Members(k)') /\ IsFiniteSet(Members(k)')
        /\ Len(ticks') \in Members(k)' /\ k \in Beginnings'
    BY <1>1, <1>4, <1>7, <1>10
  <2> QED
    BY <1>11, <2>1, <2>3, <2>4, <2>5, <2>6 DEF OpenIs
<1> QED
  BY <1>1, <1>6, <1>7, <1>9, <1>12

\* A tick of the open candle's period, or a late one, joins the open candle.
LEMMA OpenCandleGrows ==
    ASSUME CandlesInv, NEW i \in Beginnings, OpenIs(i), NEW t \in PolledTick,
           ticks' = Append(ticks, t), PeriodStart(t.time) <= open[1].time,
           open' = <<Updated(open[1], t.price)>>
    PROVE  /\ OpenIs(i)' /\ Max(Members(i))' = Len(ticks') /\ open' \in Seq(Candle)
           /\ Len(open') = 1 /\ Beginnings' = Beginnings
<1> DEFINE n == Len(ticks)
           P == PricesOf(i)
           M == Members(i)
<1>1. /\ n \in Nat /\ Len(ticks') = n + 1 /\ DOMAIN ticks = 1..n /\ DOMAIN ticks' = 1..(n + 1)
      /\ ticks'[n + 1] = t /\ ticks' \in Seq(PolledTick)
      /\ \A k \in 1..n : ticks'[k] = ticks[k]
      /\ \A k \in 1..n : PeriodStart(ticks[k].time) \in Int
      /\ Beginnings' = Beginnings \cup
           (IF \A j \in 1..n : PeriodStart(ticks[j].time) < PeriodStart(t.time)
            THEN {n + 1} ELSE {})
  BY TickAppended DEF CandlesInv
<1>2. t.time \in Nat /\ t.price \in Int /\ PeriodStart(t.time) \in Int
  BY StartIsInt DEF PolledTick
<1>3. /\ i \in 1..n /\ \A b \in Beginnings : b <= i
      /\ \A j \in 1..n : PeriodStart(ticks[j].time) <= PeriodStart(ticks[i].time)
      /\ open[1].time = PeriodStart(ticks[i].time) /\ open[1].open = ticks[i].price
      /\ open[1].high \in P /\ \A p \in P : p <= open[1].high
      /\ open[1].low \in P /\ \A p \in P : open[1].low <= p
      /\ open[1].tick_count = Cardinality(M) /\ IsFiniteSet(M)
  BY <1>1, BeginningsAreFinite DEF OpenIs, CandlesInv
<1>4. Beginnings' = Beginnings
  <2>1. ~(PeriodStart(ticks[i].time) < PeriodStart(t.time))
    BY <1>1, <1>2, <1>3
  <2> QED
    BY <1>1, <1>3, <2>1
<1>5. M = i..n /\ M' = i..(n + 1)
  <2>1. M = {j \in i..n : \A b \in Beginnings : b <= i \/ j < b}
    BY DEF Members
  <2>2. M' = {j \in i..(n + 1) : \A b \in Beginnings : b <= i \/ j < b}
    BY <1>1, <1>4 DEF Members
  <2> HIDE DEF M, n
  <2> QED
    BY <1>3, <2>1, <2>2
<1>6. M' = M \cup {n + 1} /\ n + 1 \notin M
  BY <1>1, <1>3, <1>5
<1>7. P' = P \cup {t.price} /\ P \subseteq Int
  <2>1. P' = {ticks'[j].price : j \in i..(n + 1)} /\ P = {ticks[j].price : j \in i..n}
    BY <1>5 DEF PricesOf
  <2>2. \A j \in i..n : ticks'[j] = ticks[j] /\ ticks[j].price \in Int
    <3>1. \A j \in 1..n : ticks[j] \in PolledTick
      BY <1>1 DEF CandlesInv
    <3> QED
      BY <1>1, <1>3, <3>1 DEF PolledTick
  <2>3. i..(n + 1) = i..n \cup {n + 1}
    BY <1>1, <1>3
  <2>4. {ticks'[j].price : j \in i..n} = P
    BY <2>1, <2>2
  <2>5. P' = {ticks'[j].price : j \in i..n} \cup {ticks'[n + 1].price}
    BY <2>1, <2>3
  <2> QED
    BY <1>1, <2>1, <2>2, <2>4, <2>5
<1>8. open[1] \in Candle
  <2>1. ticks # <<>>
    BY <1>1, <1>3
  <2>2. open \in Seq(Candle) /\ Len(open) = 1
    BY <2>1 DEF CandlesInv
  <2> QED
    BY <2>2, OnlyElement
<1>9. /\ open'[1].time = open[1].time /\ open'[1].open = open[1].open
      /\ open'[1].high = IF t.price > open[1].high THEN t.price ELSE open[1].high
      /\ open'[1].low = IF t.price < open[1].low THEN t.price ELSE open[1].low
      /\ open'[1].close = t.price /\ open'[1].tick_count = open[1].tick_count + 1
      /\ Updated(open[1], t.price) \in Candle
  <2> DEFINE c == open[1]
             d == Updated(open[1], t.price)
  <2>1. /\ c \in [time : Int, open : Int, high : Int, low : Int, close : Int, tick_count : Int]
        /\ c.high \in Int /\ c.low \in Int /\ c.tick_count \in Int
    BY <1>8 DEF Candle
  <2>2. d = [c EXCEPT !.high = IF t.price > c.high THEN t.price ELSE c.high,
                      !.low = IF t.price < c.low THEN t.price ELSE c.low,
                      !.close = t.price, !.tick_count = c.tick_count + 1]
    BY DEF Updated
  <2>3. open'[1] = d
    OBVIOUS
  <2> HIDE DEF c, d
  <2>4. /\ (IF t.price > c.high THEN t.price ELSE c.high) \in Int
        /\ (IF t.price < c.low THEN t.price ELSE c.low) \in Int
        /\ c.tick_count + 1 \in Int
    BY <1>2, <2>1
  <2>5. d \in Candle
    BY <1>2, <2>1, <2>2, <2>4 DEF Candle
  <2>6. /\ d.time = c.time /\ d.open = c.open
        /\ d.high = (IF t.price > c.high THEN t.price ELSE c.high)
        /\ d.low = (IF t.price < c.low THEN t.price ELSE c.low)
        /\ d.close = t.price /\ d.tick_count = c.tick_count + 1
    BY <2>1, <2>2
  <2> QED
    BY <2>3, <2>5, <2>6 DEF c, d
<1>10. open' \in Seq(Candle) /\ Len(open') = 1
  BY <1>9
<1>11. Max(M') = n + 1
  <2>1. M' \in SUBSET Int /\ n + 1 \in M' /\ \A x \in M' : x <= n + 1
    BY <1>1, <1>3, <1>5
  <2> QED
    BY <2>1, GreatestIsMax
<1>12. OpenIs(i)'
  <2>1. \A b \in Beginnings' : b <= i
    BY <1>3, <1>4
  <2>2. \A j \in DOMAIN ticks' : PeriodStart(ticks'[j].time) <= PeriodStart(ticks'[i].time)
    <3> SUFFICES ASSUME NEW j \in 1..(n + 1)
                 PROVE  PeriodStart(ticks'[j].time) <= PeriodStart(ticks'[i].time)
      BY <1>1
    <3>1. ticks'[i] = ticks[i]
      BY <1>1, <1>3
    <3>2. CASE j = n + 1
      BY <1>1, <1>3, <3>1, <3>2
    <3>3. CASE j # n + 1
      <4>1. j \in 1..n
        BY <1>1, <3>3
      <4> QED
        BY <1>1, <1>3, <3>1, <4>1
    <3> QED
      BY <3>2, <3>3
  <2>3. P \subseteq Int /\ open[1].high \in Int /\ open[1].low \in Int
    BY <1>3, <1>7
  <2> HIDE DEF P
  <2>4. /\ open'[1].high \in P' /\ \A p \in P' : p <= open'[1].high
        /\ open'[1].low \in P' /\ \A p \in P' : open'[1].low <= p
    <3>1. CASE t.price > open[1].high
      BY <1>2, <1>3, <1>7, <1>9, <2>3, <3>1
    <3>2. CASE t.price < open[1].low
      BY <1>2, <1>3, <1>7, <1>9, <2>3, <3>2
    <3>3. CASE ~(t.price > open[1].high) /\ ~(t.price < open[1].low)
      BY <1>2, <1>3, <1>7, <1>9, <2>3, <3>3
    <3> QED
      BY <3>1, <3>2, <3>3
  <2>5. /\ open'[1].time = PeriodStart(ticks'[i].time) /\ open'[1].open = ticks'[i].price
        /\ open'[1].close = ticks'[Len(ticks')].price
    BY <1>1, <1>3, <1>9
  <2>6. IsFiniteSet(M') /\ Cardinality(M') = Cardinality(M) + 1
    <3> HIDE DEF M
    <3>1. IsFiniteSet(M \cup {n + 1}) /\ Cardinality(M \cup {n + 1}) = Cardinality(M) + 1
      BY <1>3, <1>6, FS_AddElement
    <3> QED
      BY <1>6, <3>1
  <2>7. open'[1].tick_count = Cardinality(M') /\ Len(ticks') \in M' /\ i \in Beginnings'
    BY <1>1, <1>3, <1>4, <1>6, <1>9, <2>6
  <2>8. \A p : PeriodStart(p)' = PeriodStart(p)
    BY DEF PeriodStart
  <2> QED
    BY <2>1, <2>2, <2>4, <2>5, <2>6, <2>7, <2>8 DEF OpenIs, P
<1> QED
  BY <1>1, <1>4, <1>10, <1>11, <1>12

LEMMA LastHasNoneLater ==
    ASSUME ticks \in Seq(PolledTick), NEW i \in Beginnings
    PROVE  /\ Later(i) \in Nat
           /\ Later(i) = 0 <=> \A b \in Beginnings : b <= i
           /\ Later(i) # 0 => \E b \in Beginnings : i < b
<1> DEFINE L == {b \in Beginnings : i < b}
<1>1. IsFiniteSet(L) /\ Later(i) \in Nat /\ Beginnings \subseteq 1..Len(ticks)
  BY BeginningsAreFinite
<1>2. Cardinality(L) = 0 <=> L = {}
  BY <1>1, FS_EmptySet
<1>3. \A b \in Beginnings : ~(i < b) <=> b <= i
  BY <1>1
<1> QED
  BY <1>1, <1>2, <1>3 DEF Later

\* A candle begun makes one more after each of the earlier ones.
LEMMA LaterGrows ==
    ASSUME ticks \in Seq(PolledTick), NEW k \in Nat, k = Len(ticks) + 1,
           Beginnings' = Beginnings \cup {k}
    PROVE  /\ Cardinality(Beginnings') = Cardinality(Beginnings) + 1
           /\ \A i \in Beginnings : Later(i)' = Later(i) + 1
           /\ Later(k)' = 0
<1>1. /\ Beginnings \subseteq 1..Len(ticks) /\ IsFiniteSet(Beginnings) /\ k \notin Beginnings
      /\ \A i : IsFiniteSet({b \in Beginnings : i < b})
  <2>1. /\ Beginnings \subseteq 1..Len(ticks) /\ IsFiniteSet(Beginnings)
        /\ \A i : IsFiniteSet({b \in Beginnings : i < b})
    BY BeginningsAreFinite
  <2>2. k \notin 1..Len(ticks)
    OBVIOUS
  <2> QED
    BY <2>1, <2>2
<1>2. Cardinality(Beginnings') = Cardinality(Beginnings) + 1
  BY <1>1, FS_AddElement
<1>3. ASSUME NEW i \in Beginnings PROVE Later(i)' = Later(i) + 1
  <2> DEFINE L == {b \in Beginnings : i < b}
  <2>1. {b \in Beginnings' : i < b} = L \cup {k} /\ k \notin L
    BY <1>1
  <2>2. IsFiniteSet(L)
    BY <1>1
  <2> HIDE DEF L
  <2>3. Cardinality(L \cup {k}) = Cardinality(L) + 1
    BY <2>1, <2>2, FS_AddElement
  <2> QED
    BY <2>1, <2>3 DEF Later, L
<1>4. Later(k)' = 0
  <2>1. \A b \in Beginnings' : ~(k < b)
    <3>1. \A b \in Beginnings : b <= Len(ticks) /\ b \in Int
      BY <1>1
    <3>2. \A b \in Beginnings : ~(k < b)
      BY <3>1
    <3> QED
      BY <3>2
  <2>2. {b \in Beginnings' : k < b} = {}
    BY <2>1
  <2> QED
    BY <2>2, FS_EmptySet DEF Later
<1> QED
  BY <1>2, <1>3, <1>4

LEMMA FirstTickKeeps ==
    ASSUME CandlesInv, ticks = <<>>, NEW t \in PolledTick, ticks' = Append(ticks, t),
           open' = <<NewCandle(PeriodStart(t.time), t.price)>>, closed' = closed
    PROVE  CandlesInv'
<1>1. ticks \in Seq(PolledTick) /\ Len(ticks) = 0 /\ closed = <<>>
  BY DEF CandlesInv
<1>2. PICK k \in Nat : k = 1
  OBVIOUS
<1>3. k = Len(ticks) + 1 /\ ticks' \in Seq(PolledTick) /\ DOMAIN ticks' = 1..k /\ Len(ticks') = k
  BY <1>1, <1>2, TickAppended
<1>4. /\ OpenIs(k)' /\ Max(Members(k))' = k /\ open' \in Seq(Candle) /\ Len(open') = 1
      /\ Beginnings' = Beginnings \cup {k}
  BY <1>1, <1>3, NewCandleOpens
<1>5. Beginnings = {}
  BY <1>1, BeginningsAreFinite
<1>6. Cardinality(Beginnings') = 1 /\ Later(k)' = 0
  BY <1>1, <1>3, <1>4, <1>5, LaterGrows, FS_EmptySet
<1>7. ticks' # <<>> /\ Len(closed') = 0 /\ closed' \in Seq(Candle) /\ MaxCandles \in Nat \ {0}
  BY <1>1, <1>3, CandleAssumption
<1>8. \A i \in Beginnings' : i = k
  BY <1>4, <1>5
<1> QED
  BY <1>2, <1>3, <1>4, <1>6, <1>7, <1>8 DEF CandlesInv

LEMMA ClosingTickKeeps ==
    ASSUME CandlesInv, ticks # <<>>, NEW t \in PolledTick, ticks' = Append(ticks, t),
           PeriodStart(t.time) > open[1].time, closed' = Kept(Append(closed, open[1])),
           open' = <<NewCandle(PeriodStart(t.time), t.price)>>
    PROVE  CandlesInv'
<1> DEFINE n == Len(ticks)
           s == Append(closed, open[1])
           m == Len(closed)
<1>1. PICK last \in DOMAIN ticks : OpenIs(last)
  BY DEF CandlesInv
<1>2. /\ ticks \in Seq(PolledTick) /\ n \in Nat /\ DOMAIN ticks = 1..n /\ ticks' \in Seq(PolledTick)
      /\ Len(ticks') = n + 1 /\ DOMAIN ticks' = 1..(n + 1) /\ ticks' # <<>>
      /\ \A j \in 1..n : PeriodStart(ticks[j].time) \in Int
  BY TickAppended DEF CandlesInv
<1>3. PICK k \in Nat : k = n + 1
  BY <1>2
<1>4. PeriodStart(t.time) \in Int
  BY StartIsInt DEF PolledTick
<1>5. \A j \in 1..n : PeriodStart(ticks[j].time) < PeriodStart(t.time)
  BY <1>1, <1>2, <1>4 DEF OpenIs
<1>6. /\ OpenIs(k)' /\ Max(Members(k))' = k /\ open' \in Seq(Candle) /\ Len(open') = 1
      /\ Beginnings' = Beginnings \cup {k}
  BY <1>2, <1>3, <1>5, NewCandleOpens
<1>7. /\ Cardinality(Beginnings') = Cardinality(Beginnings) + 1 /\ Later(k)' = 0
      /\ \A i \in Beginnings : Later(i)' = Later(i) + 1
  BY <1>2, <1>3, <1>6, LaterGrows
<1>8. /\ last \in Beginnings /\ \A b \in Beginnings : b <= last
      /\ Beginnings \subseteq 1..n /\ Cardinality(Beginnings) \in Nat
      /\ IsFiniteSet(Beginnings) /\ Cardinality(Beginnings) # 0
  <2>1. last \in Beginnings /\ \A b \in Beginnings : b <= last
    BY <1>1 DEF OpenIs
  <2> QED
    BY <1>2, <2>1, BeginningsAreFinite, FS_EmptySet
<1>9. open[1] = CandleOf(last) /\ open[1] \in Candle
  <2>1. open \in Seq(Candle) /\ Len(open) = 1
    BY DEF CandlesInv
  <2> QED
    BY <1>1, <2>1, OnlyElement, OpenIsTheCandle
<1>10. /\ closed \in Seq(Candle) /\ s \in Seq(Candle) /\ Len(s) = m + 1 /\ m \in Nat
       /\ s[m + 1] = open[1] /\ \A j \in 1..m : s[j] = closed[j]
  BY <1>9 DEF CandlesInv
<1>11. /\ closed' \in Seq(Candle) /\ Len(closed') = IF Len(s) > MaxCandles THEN MaxCandles ELSE Len(s)
       /\ \A d \in 1..Len(closed') : closed'[Len(closed') + 1 - d] = s[Len(s) + 1 - d]
  BY <1>10, KeptIsTheEnd
<1> HIDE DEF s
<1>12. MaxCandles \in Nat /\ Len(closed') \in Nat /\ Len(closed') <= m + 1
  BY <1>10, <1>11, CandleAssumption
<1>13. ASSUME NEW i \in Beginnings
       PROVE  CandleOf(i)' = CandleOf(i) /\ Members(i)' = Members(i) /\ Max(Members(i)) \in 1..n
  <2>1. Max(Members(i)) \in 1..n /\ k \in Beginnings' /\ i < k
    BY <1>2, <1>3, <1>6, <1>8 DEF CandlesInv
  <2> QED
    BY <1>2, <2>1, OldCandlesStay
<1>14. ASSUME NEW i \in Beginnings', Later(i)' \in 1..Len(closed')
       PROVE  closed'[Len(closed') + 1 - Later(i)'] = CandleOf(i)'
  <2>1. i \in Beginnings
    <3>1. i # k
      BY <1>7, <1>14
    <3> QED
      BY <1>6, <3>1
  <2>2. Later(i)' = Later(i) + 1 /\ Later(i) \in Nat /\ CandleOf(i)' = CandleOf(i)
    BY <1>2, <1>7, <1>13, <2>1, LastHasNoneLater
  <2>3. closed'[Len(closed') + 1 - Later(i)'] = s[Len(s) + 1 - Later(i)']
    BY <1>11, <1>14
  <2>4. Len(s) + 1 - Later(i)' = m + 1 - Later(i)
    BY <1>10, <2>2
  <2>5. CASE Later(i) = 0
    <3>1. i = last
      <4>1. last <= i /\ i <= last
        BY <1>2, <1>8, <2>1, <2>5, LastHasNoneLater
      <4> QED
        BY <1>8, <2>1, <4>1
    <3> QED
      BY <1>9, <1>10, <2>2, <2>3, <2>4, <2>5, <3>1
  <2>6. CASE Later(i) # 0
    <3>1. Later(i) \in 1..m /\ m + 1 - Later(i) \in 1..m
      BY <1>10, <1>12, <1>14, <2>2, <2>6
    <3>2. closed[m + 1 - Later(i)] = CandleOf(i)
      BY <2>1, <3>1 DEF CandlesInv
    <3> QED
      BY <1>10, <2>2, <2>3, <2>4, <3>1, <3>2
  <2> QED
    BY <2>5, <2>6
<1>15. Len(closed') = IF Cardinality(Beginnings') > MaxCandles THEN MaxCandles
                      ELSE Cardinality(Beginnings') - 1
  <2>1. m = IF Cardinality(Beginnings) > MaxCandles THEN MaxCandles ELSE Cardinality(Beginnings) - 1
    BY DEF CandlesInv
  <2> DEFINE c == Cardinality(Beginnings)
  <2>2. /\ c \in Nat /\ c # 0 /\ Cardinality(Beginnings') = c + 1
        /\ m = IF c > MaxCandles THEN MaxCandles ELSE c - 1
        /\ Len(closed') = IF m + 1 > MaxCandles THEN MaxCandles ELSE m + 1
    BY <1>7, <1>8, <1>10, <1>11, <2>1
  <2> HIDE DEF c, m
  <2> QED
    BY <1>12, <2>2
<1>16. \A i \in Beginnings' : Max(Members(i))' \in 1..Len(ticks')
  <2> SUFFICES ASSUME NEW i \in Beginnings' PROVE Max(Members(i))' \in 1..(n + 1)
    BY <1>2
  <2>1. CASE i = k
    BY <1>2, <1>3, <1>6, <2>1
  <2>2. CASE i \in Beginnings
    <3>1. Max(Members(i))' = Max(Members(i))
      BY <1>13, <2>2 DEF Max
    <3> QED
      BY <1>2, <1>13, <2>2, <3>1
  <2> QED
    BY <1>6, <2>1, <2>2
<1> QED
  BY <1>2, <1>3, <1>6, <1>11, <1>14, <1>15, <1>16 DEF CandlesInv

LEMMA JoiningTickKeeps ==
    ASSUME CandlesInv, ticks # <<>>, NEW t \in PolledTick, ticks' = Append(ticks, t),
           PeriodStart(t.time) <= open[1].time, closed' = closed,
           open' = <<Updated(open[1], t.price)>>
    PROVE  CandlesInv'
<1> DEFINE n == Len(ticks)
<1>1. PICK last \in DOMAIN ticks : OpenIs(last)
  BY DEF CandlesInv
<1>2. /\ ticks \in Seq(PolledTick) /\ n \in Nat /\ ticks' \in Seq(PolledTick)
      /\ Len(ticks') = n + 1 /\ DOMAIN ticks' = 1..(n + 1) /\ ticks' # <<>>
  BY TickAppended DEF CandlesInv
<1>3. last \in Beginnings /\ \A b \in Beginnings : b <= last
  BY <1>1 DEF OpenIs
<1>4. /\ OpenIs(last)' /\ Max(Members(last))' = Len(ticks') /\ open' \in Seq(Candle)
      /\ Len(open') = 1 /\ Beginnings' = Beginnings
  BY <1>1, <1>3, OpenCandleGrows
<1>5. \A i : Later(i)' = Later(i)
  BY <1>4 DEF Later
<1>6. last \in DOMAIN ticks'
  BY <1>2, <1>3, <1>4, BeginningsAreFinite
<1>7. ASSUME NEW i \in Beginnings, i # last
      PROVE  /\ CandleOf(i)' = CandleOf(i) /\ Members(i)' = Members(i)
             /\ Max(Members(i)) \in 1..n
  <2>1. i < last
    BY <1>2, <1>3, <1>7, BeginningsAreFinite
  <2>2. Max(Members(i)) \in 1..n /\ last \in Beginnings'
    BY <1>3, <1>4 DEF CandlesInv
  <2> QED
    BY <1>2, <2>1, <2>2, OldCandlesStay
<1>8. \A i \in Beginnings' : Max(Members(i))' \in 1..Len(ticks')
  <2> SUFFICES ASSUME NEW i \in Beginnings PROVE Max(Members(i))' \in 1..(n + 1)
    BY <1>2, <1>4
  <2>1. CASE i = last
    BY <1>2, <1>4, <2>1
  <2>2. CASE i # last
    <3>1. Max(Members(i))' = Max(Members(i))
      BY <1>7, <2>2 DEF Max
    <3> QED
      BY <1>2, <1>7, <2>2, <3>1
  <2> QED
    BY <2>1, <2>2
<1>9. ASSUME NEW i \in Beginnings', Later(i)' \in 1..Len(closed')
      PROVE  closed'[Len(closed') + 1 - Later(i)'] = CandleOf(i)'
  <2>1. i \in Beginnings /\ Later(i) \in 1..Len(closed)
    BY <1>4, <1>5, <1>9
  <2>2. i # last
    BY <1>2, <1>3, <2>1, LastHasNoneLater
  <2> QED
    BY <1>5, <1>7, <2>1, <2>2 DEF CandlesInv
<1> QED
  BY <1>2, <1>4, <1>6, <1>8, <1>9 DEF CandlesInv

LEMMA CandlesStart == CandleInit => CandlesInv
<1> SUFFICES ASSUME CandleInit PROVE CandlesInv
  OBVIOUS
<1>1. ticks = <<>> /\ open = <<>> /\ closed = <<>>
  BY DEF CandleInit
<1>2. Beginnings = {}
  BY <1>1 DEF Beginnings
<1> QED
  BY <1>1, <1>2 DEF CandlesInv

LEMMA CandlesStep == CandlesInv /\ [CandleNext]_candleVars => CandlesInv'
<1> SUFFICES ASSUME CandlesInv, [CandleNext]_candleVars PROVE CandlesInv'
  OBVIOUS
<1>1. ASSUME NEW bid \in Prices \cup {NoSide}, NEW ask \in Prices \cup {NoSide},
             NEW time \in TickTimes, OnTick(bid, ask, time)
      PROVE  CandlesInv'
  <2> DEFINE price == Mid(bid, ask)
             start == PeriodStart(time)
             t == [time |-> time, price |-> price]
  <2>1. bid \in Int /\ ask \in Int /\ time \in Nat
    BY CandleAssumption DEF NoSide
  <2>2. t \in PolledTick /\ t.time = time /\ t.price = price
    BY <2>1 DEF Mid, PolledTick
  <2>3. start \in Int
    BY <2>1, StartIsInt
  <2>4. ticks' = Append(ticks, t)
    BY <1>1 DEF OnTick
  <2>5. CASE open = <<>>
    <3>1. ticks = <<>>
      BY <2>5 DEF CandlesInv
    <3>2. open' = <<NewCandle(start, price)>> /\ closed' = closed
      BY <1>1, <2>5 DEF OnTick, Closes
    <3> HIDE DEF start, t
    <3>3. start = PeriodStart(t.time)
      BY <2>2 DEF start
    <3> QED
      BY <2>2, <2>4, <3>1, <3>2, <3>3, FirstTickKeeps
  <2>6. CASE open # <<>>
    <3>1. ticks # <<>> /\ open[1].time \in Int
      <4>1. ticks # <<>> /\ open \in Seq(Candle) /\ Len(open) = 1
        BY <2>6 DEF CandlesInv
      <4> QED
        BY <4>1, OnlyElement DEF Candle
    <3>2. CASE start > open[1].time
      <4>1. /\ closed' = Kept(Append(closed, open[1]))
            /\ open' = <<NewCandle(start, price)>>
        BY <1>1, <2>6, <3>2 DEF OnTick, Closes
      <4> HIDE DEF start, t
      <4>2. start = PeriodStart(t.time)
        BY <2>2 DEF start
      <4> QED
        BY <2>2, <2>4, <3>1, <3>2, <4>1, <4>2, ClosingTickKeeps
    <3>3. CASE ~(start > open[1].time)
      <4>1. closed' = closed /\ open' = <<Updated(open[1], price)>>
        BY <1>1, <2>6, <3>3 DEF OnTick, Closes
      <4> HIDE DEF start, t
      <4>2. start = PeriodStart(t.time) /\ start <= open[1].time
        <5>1. start = PeriodStart(t.time)
          BY <2>2 DEF start
        <5> QED
          BY <2>3, <3>1, <3>3, <5>1
      <4> QED
        BY <2>2, <2>4, <3>1, <4>1, <4>2, JoiningTickKeeps
    <3> QED
      BY <3>2, <3>3
  <2> QED
    BY <2>5, <2>6
<1>2. CASE UNCHANGED candleVars
  <2>1. ticks' = ticks /\ open' = open /\ closed' = closed
    BY <1>2 DEF candleVars
  <2>2. \A i : PeriodStart(i)' = PeriodStart(i)
    BY DEF PeriodStart
  <2>3. Beginnings' = Beginnings
    BY <2>1, <2>2 DEF Beginnings
  <2>4. \A i : Members(i)' = Members(i) /\ Later(i)' = Later(i)
    BY <2>1, <2>3 DEF Members, Later
  <2>5. \A i : PricesOf(i)' = PricesOf(i)
    BY <2>1, <2>4 DEF PricesOf
  <2>6. \A i : CandleOf(i)' = CandleOf(i) /\ (OpenIs(i)' <=> OpenIs(i))
    BY <2>1, <2>2, <2>3, <2>4, <2>5 DEF CandleOf, OpenIs
  <2>7. \A i : Max(Members(i))' = Max(Members(i))
    BY <2>4 DEF Max
  <2> QED
    BY <2>1, <2>3, <2>4, <2>6, <2>7 DEF CandlesInv
<1> QED
  BY <1>1, <1>2 DEF CandleNext

LEMMA MinCandlesIsPositive == MinCandles \in Nat \ {0}
BY CandleAssumption

LEMMA ReadCandlesMatch == CandlesInv => CandlesMatchTicks
<1> SUFFICES ASSUME CandlesInv PROVE CandlesMatchTicks
  OBVIOUS
<1> DEFINE all == GetCandles(TRUE)
           begun == Cardinality(Beginnings)
           m == Len(closed)
<1>1. /\ ticks \in Seq(PolledTick) /\ closed \in Seq(Candle) /\ open \in Seq(Candle)
      /\ m \in Nat /\ MaxCandles \in Nat \ {0}
  BY CandleAssumption DEF CandlesInv
<1>2. begun \in Nat /\ IsFiniteSet(Beginnings)
  BY <1>1, BeginningsAreFinite
<1>3. /\ GetCandles(FALSE) = closed
      /\ all = IF open # <<>> THEN Append(closed, open[1]) ELSE closed
  BY DEF GetCandles
<1> HIDE DEF all
<1>5. CASE ticks = <<>>
  <2>1. open = <<>> /\ m = 0 /\ Beginnings = {}
    BY <1>1, <1>5, BeginningsAreFinite DEF CandlesInv
  <2>2. begun = 0 /\ Len(all) = 0
    BY <1>3, <2>1, FS_EmptySet
  <2>3. ~IsReady
    BY <2>1, MinCandlesIsPositive DEF IsReady
  <2>4. Len(all) = IF begun > MaxCandles THEN MaxCandles + 1 ELSE begun
    BY <1>1, <2>2
  <2> HIDE DEF begun
  <2>5. begun = Cardinality(Beginnings)
    BY DEF begun
  <2> QED
    BY <1>5, <2>1, <2>3, <2>4, <2>5 DEF CandlesMatchTicks, all
<1>6. CASE ticks # <<>>
  <2>1. PICK last \in DOMAIN ticks : OpenIs(last)
    BY <1>6 DEF CandlesInv
  <2>2. last \in Beginnings /\ \A b \in Beginnings : b <= last
    BY <2>1 DEF OpenIs
  <2>3. Len(open) = 1 /\ open[1] = CandleOf(last)
    BY <1>6, <2>1, OpenIsTheCandle DEF CandlesInv
  <2>4. begun # 0
    BY <1>2, <2>2, FS_EmptySet
  <2>5. m = IF begun > MaxCandles THEN MaxCandles ELSE begun - 1
    BY <1>6 DEF CandlesInv
  <2>6. /\ Len(all) = m + 1 /\ all[m + 1] = open[1]
        /\ \A k \in 1..m : all[k] = closed[k]
    <3>1. open[1] \in Candle /\ open # <<>>
      BY <1>1, <2>3, OnlyElement
    <3> QED
      BY <1>1, <1>3, <3>1
  <2>7. Len(all) = IF begun > MaxCandles THEN MaxCandles + 1 ELSE begun
    <3> HIDE DEF begun, m
    <3> QED
      BY <1>1, <1>2, <2>4, <2>5, <2>6
  <2>8. ASSUME NEW i \in Beginnings, Later(i) < Len(all)
        PROVE  all[Len(all) - Later(i)] = CandleOf(i)
    <3>1. Later(i) \in Nat
      BY <1>1, LastHasNoneLater
    <3>2. CASE Later(i) = 0
      <4>1. i = last
        <5>1. last <= i /\ i <= last
          BY <1>1, <2>2, <3>2, LastHasNoneLater
        <5> QED
          BY <1>1, <2>2, <5>1, BeginningsAreFinite
      <4> QED
        BY <1>1, <2>3, <2>6, <3>2, <4>1
    <3>3. CASE Later(i) # 0
      <4>1. /\ Later(i) \in 1..m /\ m + 1 - Later(i) \in 1..m
            /\ Len(all) - Later(i) = m + 1 - Later(i)
        BY <1>1, <2>6, <2>8, <3>1, <3>3
      <4>2. closed[m + 1 - Later(i)] = CandleOf(i)
        BY <4>1 DEF CandlesInv
      <4> QED
        BY <2>6, <4>1, <4>2
    <3> QED
      BY <3>2, <3>3
  <2>9. GetCandles(FALSE) = [k \in 1..(Len(all) - 1) |-> all[k]]
    <3>1. Len(all) - 1 = m /\ closed = [k \in 1..m |-> closed[k]]
      BY <1>1, <2>6
    <3> QED
      BY <1>3, <2>6, <3>1
  <2>10. IsReady => begun > MinCandles
    <3>1. m < begun
      <4> HIDE DEF begun, m
      <4> QED
        BY <1>1, <1>2, <2>4, <2>5
    <3> QED
      BY <1>1, <1>2, <3>1, MinCandlesIsPositive DEF IsReady
  <2> QED
    BY <2>7, <2>8, <2>9, <2>10 DEF CandlesMatchTicks, all
<1> QED
  BY <1>5, <1>6

\* The candles the strategies read are those of the ticks polled, for any period, capacity, prices
\* and clock, set back or not (on_tick, get_candles, is_ready).
THEOREM CandlesAlwaysMatch == CandleSpec => []CandlesMatchTicks
<1>1. CandleInit => CandlesInv
  BY CandlesStart
<1>2. CandlesInv /\ [CandleNext]_candleVars => CandlesInv'
  BY CandlesStep
<1>3. CandlesInv => CandlesMatchTicks
  BY ReadCandlesMatch
<1> QED
  BY <1>1, <1>2, <1>3, PTL DEF CandleSpec
-----------------------------------------------------------------------------
(* The liquidity sweep.                                                    *)

SweepCandle == [day : Nat \ {0}, open : Nat, high : Nat, low : Nat, close : Nat]

\* The fields of a state of the sweep, whatever their values.
IsSweep(st) ==
    st = [state |-> st.state, day |-> st.day, last |-> st.last, signal |-> st.signal,
          sl |-> st.sl, tp |-> st.tp]

\* Up to candle b the day has broken the range, below or above; up to b an entry with this level
\* was armed after that, and up to m no candle has disarmed or triggered it.
BrokenBelow(cs, lo, day, b) ==
    \E k \in DOMAIN cs : cs[k].day = day /\ k <= b /\ cs[k].close < lo
BrokenAbove(cs, hi, day, b) ==
    \E k \in DOMAIN cs : cs[k].day = day /\ k <= b /\ cs[k].close > hi
BuyArmed(cs, lo, day, signal, b, m) ==
    \E j \in DOMAIN cs :
        /\ cs[j].day = day /\ j <= b /\ BrokenBelow(cs, lo, day, j)
        /\ Green(cs[j]) /\ signal = cs[j].high
        /\ \A x \in (j + 1)..m : ~Red(cs[x]) /\ cs[x].high <= cs[j].high
SaleArmed(cs, hi, day, signal, b, m) ==
    \E j \in DOMAIN cs :
        /\ cs[j].day = day /\ j <= b /\ BrokenAbove(cs, hi, day, j)
        /\ Red(cs[j]) /\ signal = cs[j].low
        /\ \A x \in (j + 1)..m : ~Green(cs[x]) /\ cs[x].low >= cs[j].low

Backed(cs, lo, hi, st, b, m) ==
    /\ st.state \in {"WAIT_BREAK", "WAIT_BUY_SIGNAL", "WAIT_SELL_SIGNAL", "BUY_READY", "SELL_READY"}
    /\ st.state = "WAIT_BUY_SIGNAL" => BrokenBelow(cs, lo, st.day, b)
    /\ st.state = "WAIT_SELL_SIGNAL" => BrokenAbove(cs, hi, st.day, b)
    /\ st.state = "BUY_READY" => BuyArmed(cs, lo, st.day, st.signal, b, m)
    /\ st.state = "SELL_READY" => SaleArmed(cs, hi, st.day, st.signal, b, m)

LEMMA SweepCandleFields ==
    \A c \in SweepCandle : /\ c.day \in Nat /\ c.day # 0 /\ c.high \in Nat /\ c.low \in Nat
                           /\ c.open \in Nat /\ c.close \in Nat
BY DEF SweepCandle

LEMMA BrokenBelowLonger ==
    ASSUME NEW cs \in Seq(SweepCandle), NEW lo, NEW day, NEW b \in Int, NEW c \in Int, b <= c,
           BrokenBelow(cs, lo, day, b)
    PROVE  BrokenBelow(cs, lo, day, c)
<1>1. DOMAIN cs \subseteq Int
  OBVIOUS
<1> QED
  BY <1>1 DEF BrokenBelow

LEMMA BrokenAboveLonger ==
    ASSUME NEW cs \in Seq(SweepCandle), NEW hi, NEW day, NEW b \in Int, NEW c \in Int, b <= c,
           BrokenAbove(cs, hi, day, b)
    PROVE  BrokenAbove(cs, hi, day, c)
<1>1. DOMAIN cs \subseteq Int
  OBVIOUS
<1> QED
  BY <1>1 DEF BrokenAbove

LEMMA BuyArmedLonger ==
    ASSUME NEW cs \in Seq(SweepCandle), NEW lo, NEW day, NEW signal, NEW b \in Int,
           NEW c \in Int, NEW m, b <= c, BuyArmed(cs, lo, day, signal, b, m)
    PROVE  BuyArmed(cs, lo, day, signal, c, m) /\ BrokenBelow(cs, lo, day, b)
<1>1. DOMAIN cs \subseteq Int
  OBVIOUS
<1>2. BuyArmed(cs, lo, day, signal, c, m)
  BY <1>1 DEF BuyArmed
<1>3. PICK j \in DOMAIN cs : j <= b /\ BrokenBelow(cs, lo, day, j)
  BY DEF BuyArmed
<1> QED
  BY <1>1, <1>2, <1>3, BrokenBelowLonger

LEMMA SaleArmedLonger ==
    ASSUME NEW cs \in Seq(SweepCandle), NEW hi, NEW day, NEW signal, NEW b \in Int,
           NEW c \in Int, NEW m, b <= c, SaleArmed(cs, hi, day, signal, b, m)
    PROVE  SaleArmed(cs, hi, day, signal, c, m) /\ BrokenAbove(cs, hi, day, b)
<1>1. DOMAIN cs \subseteq Int
  OBVIOUS
<1>2. SaleArmed(cs, hi, day, signal, c, m)
  BY <1>1 DEF SaleArmed
<1>3. PICK j \in DOMAIN cs : j <= b /\ BrokenAbove(cs, hi, day, j)
  BY DEF SaleArmed
<1> QED
  BY <1>1, <1>2, <1>3, BrokenAboveLonger

\* What candle i makes of a state that the candles before it back, up to the trigger.
LEMMA ArmedIsBacked ==
    ASSUME NEW cs \in Seq(SweepCandle), NEW i \in DOMAIN cs, NEW st, IsSweep(st),
           st.day = cs[i].day, NEW lo, NEW hi, lo = DailyLow(st.day), hi = DailyHigh(st.day),
           Backed(cs, lo, hi, st, i - 1, i - 1)
    PROVE  /\ IsSweep(Armed(st, cs[i])) /\ Armed(st, cs[i]).day = st.day
           /\ Backed(cs, lo, hi, Armed(st, cs[i]), i, i - 1)
<1> DEFINE c == cs[i]
           br == Break(st, c)
           ar == Arm(br, c)
<1>1. i \in Nat /\ i - 1 \in Int /\ i - 1 <= i /\ i <= i /\ c \in SweepCandle /\ (i + 1)..(i - 1) = {}
  OBVIOUS
<1>2. IsSweep(br) /\ br.day = st.day /\ br.signal = st.signal
  BY DEF Break, IsSweep
<1>3. Backed(cs, lo, hi, br, i, i - 1)
  <2>1. CASE st.state # "WAIT_BREAK"
    <3>1. br = st
      BY <2>1 DEF Break
    <3>2. /\ BrokenBelow(cs, lo, st.day, i - 1) => BrokenBelow(cs, lo, st.day, i)
          /\ BrokenAbove(cs, hi, st.day, i - 1) => BrokenAbove(cs, hi, st.day, i)
      BY <1>1, BrokenBelowLonger, BrokenAboveLonger
    <3>3. /\ BuyArmed(cs, lo, st.day, st.signal, i - 1, i - 1)
                => BuyArmed(cs, lo, st.day, st.signal, i, i - 1)
          /\ SaleArmed(cs, hi, st.day, st.signal, i - 1, i - 1)
                => SaleArmed(cs, hi, st.day, st.signal, i, i - 1)
      BY <1>1, BuyArmedLonger, SaleArmedLonger
    <3> QED
      BY <3>1, <3>2, <3>3 DEF Backed
  <2>2. CASE st.state = "WAIT_BREAK" /\ c.close < lo
    <3>1. br.state = "WAIT_BUY_SIGNAL"
      BY <2>2 DEF Break, IsSweep
    <3>2. BrokenBelow(cs, lo, st.day, i)
      BY <1>1, <2>2 DEF BrokenBelow
    <3> QED
      BY <1>2, <3>1, <3>2 DEF Backed
  <2>3. CASE st.state = "WAIT_BREAK" /\ ~(c.close < lo) /\ c.close > hi
    <3>1. br.state = "WAIT_SELL_SIGNAL"
      BY <2>3 DEF Break, IsSweep
    <3>2. BrokenAbove(cs, hi, st.day, i)
      BY <1>1, <2>3 DEF BrokenAbove
    <3> QED
      BY <1>2, <3>1, <3>2 DEF Backed
  <2>4. CASE st.state = "WAIT_BREAK" /\ ~(c.close < lo) /\ ~(c.close > hi)
    <3>1. br.state = "WAIT_BREAK"
      BY <2>4 DEF Break, IsSweep
    <3> QED
      BY <3>1 DEF Backed
  <2> QED
    BY <2>1, <2>2, <2>3, <2>4
<1> HIDE DEF br
<1>4. IsSweep(ar) /\ ar.day = st.day
  BY <1>2 DEF Arm, IsSweep
<1>5. Backed(cs, lo, hi, ar, i, i - 1)
  <2>1. CASE br.state = "WAIT_BUY_SIGNAL" /\ Green(c)
    <3>1. ar.state = "BUY_READY" /\ ar.signal = c.high
      BY <1>2, <2>1 DEF Arm, IsSweep
    <3>2. BrokenBelow(cs, lo, st.day, i)
      BY <1>2, <1>3, <2>1 DEF Backed
    <3>3. BuyArmed(cs, lo, st.day, c.high, i, i - 1)
      BY <1>1, <2>1, <3>2 DEF BuyArmed
    <3> QED
      BY <1>4, <3>1, <3>3 DEF Backed
  <2>2. CASE br.state = "WAIT_SELL_SIGNAL" /\ Red(c)
    <3>1. ar.state = "SELL_READY" /\ ar.signal = c.low
      BY <1>2, <2>2 DEF Arm, IsSweep
    <3>2. BrokenAbove(cs, hi, st.day, i)
      BY <1>2, <1>3, <2>2 DEF Backed
    <3>3. SaleArmed(cs, hi, st.day, c.low, i, i - 1)
      BY <1>1, <2>2, <3>2 DEF SaleArmed
    <3> QED
      BY <1>4, <3>1, <3>3 DEF Backed
  <2>3. CASE ~(br.state = "WAIT_BUY_SIGNAL" /\ Green(c)) /\ ~(br.state = "WAIT_SELL_SIGNAL" /\ Red(c))
    <3>1. ar = br
      BY <2>3 DEF Arm
    <3> QED
      BY <1>3, <3>1
  <2> QED
    BY <2>1, <2>2, <2>3
<1>6. Armed(st, cs[i]) = ar
  BY DEF Armed, br
<1> QED
  BY <1>4, <1>5, <1>6

\* What the trigger and the colour of candle i make of the armed state.
LEMMA AfterIsBacked ==
    ASSUME NEW cs \in Seq(SweepCandle), NEW i \in DOMAIN cs, NEW st, IsSweep(st),
           st.day = cs[i].day, NEW lo, NEW hi, lo = DailyLow(st.day), hi = DailyHigh(st.day),
           Backed(cs, lo, hi, st, i - 1, i - 1)
    PROVE  /\ IsSweep(After(st, cs[i], i)) /\ After(st, cs[i], i).day = st.day
           /\ After(st, cs[i], i).last = i
           /\ Backed(cs, lo, hi, After(st, cs[i], i), i, i)
<1> DEFINE c == cs[i]
           ar == Armed(st, c)
           re == Resolve(ar, c)
           af == [re EXCEPT !.last = i]
<1>1. IsSweep(ar) /\ ar.day = st.day /\ Backed(cs, lo, hi, ar, i, i - 1)
  BY ArmedIsBacked
<1>2. i \in Int /\ c \in SweepCandle /\ \A j \in DOMAIN cs : cs[j] \in SweepCandle /\ j \in Int
  OBVIOUS
<1>3. c.high \in Int /\ c.low \in Int /\ \A j \in DOMAIN cs : cs[j].high \in Int /\ cs[j].low \in Int
  BY <1>2, SweepCandleFields
<1> HIDE DEF ar
<1>4. IsSweep(re) /\ re.day = st.day
  BY <1>1 DEF Resolve, IsSweep
<1>5. Backed(cs, lo, hi, re, i, i)
  <2>1. CASE Triggered(ar, c)
    <3>1. re.state = "WAIT_BREAK"
      BY <1>1, <2>1 DEF Resolve, IsSweep
    <3> QED
      BY <3>1 DEF Backed
  <2>2. CASE ~Triggered(ar, c) /\ ar.state = "BUY_READY" /\ Red(c)
    <3>1. re.state = "WAIT_BUY_SIGNAL"
      BY <1>1, <2>2 DEF Resolve, IsSweep
    <3>2. BrokenBelow(cs, lo, st.day, i)
      BY <1>1, <1>2, <2>2, BuyArmedLonger DEF Backed
    <3> QED
      BY <1>4, <3>1, <3>2 DEF Backed
  <2>3. CASE ~Triggered(ar, c) /\ ar.state = "SELL_READY" /\ Green(c)
    <3>1. re.state = "WAIT_SELL_SIGNAL"
      BY <1>1, <2>3 DEF Resolve, IsSweep
    <3>2. BrokenAbove(cs, hi, st.day, i)
      BY <1>1, <1>2, <2>3, SaleArmedLonger DEF Backed
    <3> QED
      BY <1>4, <3>1, <3>2 DEF Backed
  <2>4. CASE ~Triggered(ar, c) /\ ar.state = "BUY_READY" /\ ~Red(c)
    <3>1. re = ar
      BY <2>4 DEF Resolve
    <3>2. PICK j \in DOMAIN cs :
             /\ cs[j].day = ar.day /\ j <= i /\ BrokenBelow(cs, lo, ar.day, j)
             /\ Green(cs[j]) /\ ar.signal = cs[j].high
             /\ \A x \in (j + 1)..(i - 1) : ~Red(cs[x]) /\ cs[x].high <= cs[j].high
      BY <1>1, <2>4 DEF Backed, BuyArmed
    <3>3. c.high <= cs[j].high
      BY <1>3, <2>4, <3>2 DEF Triggered
    <3>4. \A x \in (j + 1)..i : ~Red(cs[x]) /\ cs[x].high <= cs[j].high
      <4> SUFFICES ASSUME NEW x \in (j + 1)..i PROVE ~Red(cs[x]) /\ cs[x].high <= cs[j].high
        OBVIOUS
      <4>1. x = i \/ x \in (j + 1)..(i - 1)
        BY <1>2
      <4> QED
        BY <2>4, <3>2, <3>3, <4>1
    <3>5. BuyArmed(cs, lo, ar.day, ar.signal, i, i)
      BY <3>2, <3>4 DEF BuyArmed
    <3> QED
      BY <2>4, <3>1, <3>5 DEF Backed
  <2>5. CASE ~Triggered(ar, c) /\ ar.state = "SELL_READY" /\ ~Green(c)
    <3>1. re = ar
      BY <2>5 DEF Resolve
    <3>2. PICK j \in DOMAIN cs :
             /\ cs[j].day = ar.day /\ j <= i /\ BrokenAbove(cs, hi, ar.day, j)
             /\ Red(cs[j]) /\ ar.signal = cs[j].low
             /\ \A x \in (j + 1)..(i - 1) : ~Green(cs[x]) /\ cs[x].low >= cs[j].low
      BY <1>1, <2>5 DEF Backed, SaleArmed
    <3>3. c.low >= cs[j].low
      BY <1>3, <2>5, <3>2 DEF Triggered
    <3>4. \A x \in (j + 1)..i : ~Green(cs[x]) /\ cs[x].low >= cs[j].low
      <4> SUFFICES ASSUME NEW x \in (j + 1)..i PROVE ~Green(cs[x]) /\ cs[x].low >= cs[j].low
        OBVIOUS
      <4>1. x = i \/ x \in (j + 1)..(i - 1)
        BY <1>2
      <4> QED
        BY <2>5, <3>2, <3>3, <4>1
    <3>5. SaleArmed(cs, hi, ar.day, ar.signal, i, i)
      BY <3>2, <3>4 DEF SaleArmed
    <3> QED
      BY <2>5, <3>1, <3>5 DEF Backed
  <2>6. CASE ~Triggered(ar, c) /\ ar.state \notin {"BUY_READY", "SELL_READY"}
    <3>1. re = ar
      BY <2>6 DEF Resolve
    <3> QED
      BY <1>1, <2>6, <3>1 DEF Backed
  <2> QED
    BY <2>1, <2>2, <2>3, <2>4, <2>5, <2>6
<1> HIDE DEF re
<1>6. /\ IsSweep(af) /\ af.day = re.day /\ af.last = i /\ af.state = re.state
      /\ af.signal = re.signal
  BY <1>4 DEF IsSweep
<1>7. Backed(cs, lo, hi, af, i, i)
  BY <1>5, <1>6 DEF Backed
<1>8. After(st, cs[i], i) = af
  BY DEF After, re, ar
<1> QED
  BY <1>4, <1>6, <1>7, <1>8

\* A trigger is earned by the candles.
LEMMA TriggerIsEarned ==
    ASSUME candles \in Seq(SweepCandle), NEW i \in DOMAIN candles, NEW st, st.day = candles[i].day,
           Backed(candles, DailyLow(st.day), DailyHigh(st.day), st, i, i - 1),
           Triggered(st, candles[i])
    PROVE  /\ st.state = "BUY_READY" => BuyIsEarned(i)
           /\ st.state = "SELL_READY" => SaleIsEarned(i)
           /\ st.state \in {"BUY_READY", "SELL_READY"}
<1> DEFINE lo == DailyLow(st.day)
           hi == DailyHigh(st.day)
<1>1. /\ \A j \in DOMAIN candles : candles[j].high \in Int /\ candles[j].low \in Int
      /\ DOMAIN candles \subseteq Int
  <2>1. \A j \in DOMAIN candles : candles[j] \in SweepCandle
    OBVIOUS
  <2> QED
    BY <2>1, SweepCandleFields
<1>2. ASSUME st.state = "BUY_READY" PROVE BuyIsEarned(i)
  <2>1. PICK j \in DOMAIN candles :
           /\ candles[j].day = st.day /\ j <= i /\ BrokenBelow(candles, lo, st.day, j)
           /\ Green(candles[j]) /\ st.signal = candles[j].high
           /\ \A x \in (j + 1)..(i - 1) : ~Red(candles[x]) /\ candles[x].high <= candles[j].high
    BY <1>2 DEF Backed, BuyArmed
  <2>2. PICK k \in DOMAIN candles : candles[k].day = st.day /\ k <= j /\ candles[k].close < lo
    BY <2>1 DEF BrokenBelow
  <2>3. candles[i].high > candles[j].high /\ j # i
    BY <1>1, <1>2, <2>1 DEF Triggered
  <2>4. j < i
    BY <1>1, <2>1, <2>3
  <2> QED
    BY <2>1, <2>2, <2>3, <2>4 DEF BuyIsEarned, OfDay
<1>3. ASSUME st.state = "SELL_READY" PROVE SaleIsEarned(i)
  <2>1. PICK j \in DOMAIN candles :
           /\ candles[j].day = st.day /\ j <= i /\ BrokenAbove(candles, hi, st.day, j)
           /\ Red(candles[j]) /\ st.signal = candles[j].low
           /\ \A x \in (j + 1)..(i - 1) : ~Green(candles[x]) /\ candles[x].low >= candles[j].low
    BY <1>3 DEF Backed, SaleArmed
  <2>2. PICK k \in DOMAIN candles : candles[k].day = st.day /\ k <= j /\ candles[k].close > hi
    BY <2>1 DEF BrokenAbove
  <2>3. candles[i].low < candles[j].low /\ j # i
    BY <1>1, <1>3, <2>1 DEF Triggered
  <2>4. j < i
    BY <1>1, <2>1, <2>3
  <2> QED
    BY <2>1, <2>2, <2>3, <2>4 DEF SaleIsEarned, OfDay
<1> QED
  BY <1>2, <1>3 DEF Triggered

-----------------------------------------------------------------------------
\* The candles come in the order of their days, and the days before that of a candle have a last
\* one.
DaysInOrder ==
    /\ candles \in Seq(SweepCandle)
    /\ \A i, j \in DOMAIN candles : i <= j => candles[i].day <= candles[j].day
    /\ \A i \in DOMAIN candles : DaysBefore(candles[i].day) # {} =>
         \E d \in DaysBefore(candles[i].day) : \A e \in DaysBefore(candles[i].day) : e <= d

\* The state that candle i finds.
StateBefore(i) ==
    IF i > 1 /\ candles[i - 1].day = candles[i].day THEN ideal[i - 1]
    ELSE FreshSweep(candles[i].day)

\* The states of the reference follow from one another, and the candles so far back each of them.
IdealsAreBacked ==
    /\ DOMAIN ideal = DOMAIN candles
    /\ \A i \in DOMAIN candles : DaysBefore(candles[i].day) # {} =>
         /\ ideal[i] = After(StateBefore(i), candles[i], i)
         /\ IsSweep(ideal[i]) /\ ideal[i].day = candles[i].day /\ ideal[i].last = i
         /\ Backed(candles, DailyLow(candles[i].day), DailyHigh(candles[i].day), ideal[i], i, i)

\* Between two steps of an analysis its state is that of the reference after the last candle it
\* has been through, and it has the later ones of the day before it.
AnalysisFollows ==
    /\ sweep.day # 0 =>
         /\ DaysBefore(sweep.day) # {} /\ OfDay(sweep.day) # {}
         /\ sweep = IF sweep.last = 0 THEN FreshSweep(sweep.day) ELSE ideal[sweep.last]
         /\ sweep.last # 0 => sweep.last \in OfDay(sweep.day)
    /\ unread # {} => sweep.day # 0 /\ unread = Pending(sweep)

\* SignalsAreEarned, and each signal is at a candle that has a day before it.
TriggersAreEarned ==
    \A s \in triggers :
        /\ s.at \in DOMAIN candles /\ DaysBefore(candles[s.at].day) # {}
        /\ IF s.direction = "BUY_READY" THEN BuyIsEarned(s.at) ELSE SaleIsEarned(s.at)

SweepInv == DaysInOrder /\ IdealsAreBacked /\ AnalysisFollows /\ TriggersAreEarned

\* The state before a candle is one that the candles of the day before it back.
LEMMA StateBeforeIsBacked ==
    ASSUME DaysInOrder, IdealsAreBacked, NEW i \in DOMAIN candles,
           DaysBefore(candles[i].day) # {}
    PROVE  /\ IsSweep(StateBefore(i)) /\ StateBefore(i).day = candles[i].day
           /\ Backed(candles, DailyLow(candles[i].day), DailyHigh(candles[i].day), StateBefore(i),
                     i - 1, i - 1)
<1>1. CASE i > 1 /\ candles[i - 1].day = candles[i].day
  <2>1. i - 1 \in DOMAIN candles
    BY <1>1 DEF DaysInOrder
  <2> QED
    BY <1>1, <2>1 DEF IdealsAreBacked, StateBefore
<1>2. CASE ~(i > 1 /\ candles[i - 1].day = candles[i].day)
  <2>1. StateBefore(i) = FreshSweep(candles[i].day)
    BY <1>2 DEF StateBefore
  <2> QED
    BY <2>1 DEF FreshSweep, IsSweep, Backed
<1> QED
  BY <1>1, <1>2

\* The next candle of an analysis is the one after the last it has been through.
LEMMA NextInTurn ==
    ASSUME SweepInv, NEW i \in unread, \A j \in unread : i <= j
    PROVE  /\ i \in DOMAIN candles /\ candles[i].day = sweep.day /\ i # 0
           /\ DaysBefore(sweep.day) # {} /\ sweep = StateBefore(i)
           /\ unread \ {i} = {j \in OfDay(sweep.day) : j > i}
<1>1. /\ candles \in Seq(SweepCandle) /\ DOMAIN candles = 1..Len(candles) /\ Len(candles) \in Nat
      /\ \A j, k \in DOMAIN candles : j <= k => candles[j].day <= candles[k].day
  BY DEF SweepInv, DaysInOrder
<1>2. \A j \in DOMAIN candles : candles[j].day \in Nat
  <2>1. \A j \in DOMAIN candles : candles[j] \in SweepCandle
    BY <1>1
  <2> QED
    BY <2>1, SweepCandleFields
<1>3. /\ sweep.day # 0 /\ unread = {j \in OfDay(sweep.day) : j > sweep.last}
      /\ DaysBefore(sweep.day) # {}
      /\ sweep = IF sweep.last = 0 THEN FreshSweep(sweep.day) ELSE ideal[sweep.last]
      /\ sweep.last # 0 => sweep.last \in OfDay(sweep.day)
  BY DEF SweepInv, AnalysisFollows, Pending
<1>4. /\ i \in DOMAIN candles /\ i \in Nat /\ i # 0 /\ candles[i].day = sweep.day /\ i > sweep.last
      /\ sweep.last \in Nat
  BY <1>1, <1>3 DEF OfDay
<1>5. unread \ {i} = {j \in OfDay(sweep.day) : j > i}
  <2>1. \A j \in OfDay(sweep.day) : j \in Nat
    BY <1>1 DEF OfDay
  <2>2. \A j \in unread \ {i} : j \in OfDay(sweep.day) /\ j > i
    BY <1>3, <1>4, <2>1
  <2>3. \A j \in OfDay(sweep.day) : j > i => j \in unread /\ j # i
    BY <1>3, <1>4, <2>1
  <2> QED
    BY <2>2, <2>3
<1>6. CASE sweep.last = 0
  <2>1. ~(i > 1 /\ candles[i - 1].day = candles[i].day)
    <3> SUFFICES ASSUME i > 1, candles[i - 1].day = candles[i].day PROVE FALSE
      OBVIOUS
    <3>1. i - 1 \in DOMAIN candles /\ i - 1 > 0
      BY <1>1, <1>4
    <3>2. i - 1 \in unread
      BY <1>3, <1>4, <1>6, <3>1 DEF OfDay
    <3> QED
      BY <1>4, <3>2
  <2>2. StateBefore(i) = FreshSweep(sweep.day)
    BY <1>4, <2>1 DEF StateBefore
  <2> QED
    BY <1>3, <1>4, <1>5, <1>6, <2>2
<1>7. CASE sweep.last # 0
  <2>1. sweep.last \in DOMAIN candles /\ candles[sweep.last].day = sweep.day
    BY <1>3, <1>7 DEF OfDay
  <2>2. i - 1 \in DOMAIN candles /\ sweep.last <= i - 1 /\ i - 1 <= i /\ i > 1
    BY <1>1, <1>4, <2>1
  <2>3. candles[i - 1].day = sweep.day
    <3>1. sweep.day <= candles[i - 1].day /\ candles[i - 1].day <= sweep.day
      BY <1>1, <1>4, <2>1, <2>2
    <3> QED
      BY <1>2, <1>4, <2>2, <3>1
  <2>4. i - 1 = sweep.last
    <3> SUFFICES ASSUME i - 1 # sweep.last PROVE FALSE
      OBVIOUS
    <3>1. i - 1 \in unread
      BY <1>3, <1>4, <2>2, <2>3 DEF OfDay
    <3> QED
      BY <1>4, <3>1
  <2>5. StateBefore(i) = ideal[sweep.last]
    BY <1>4, <2>2, <2>3, <2>4 DEF StateBefore
  <2> QED
    BY <1>3, <1>4, <1>5, <1>7, <2>5
<1> QED
  BY <1>6, <1>7

\* While no candle closes, the ranges of the days and what the candles earn stay as they are.
LEMMA SameCandles ==
    ASSUME candles' = candles, ideal' = ideal, DaysInOrder, IdealsAreBacked
    PROVE  /\ DaysInOrder' /\ IdealsAreBacked'
           /\ \A d : DaysBefore(d)' = DaysBefore(d) /\ OfDay(d)' = OfDay(d)
           /\ \A k : BuyIsEarned(k)' = BuyIsEarned(k) /\ SaleIsEarned(k)' = SaleIsEarned(k)
<1>1. \A d : DaysBefore(d)' = DaysBefore(d) /\ OfDay(d)' = OfDay(d)
  BY DEF DaysBefore, OfDay
<1>2. \A d : DailyLow(d)' = DailyLow(d) /\ DailyHigh(d)' = DailyHigh(d)
  BY <1>1 DEF DailyLow, DailyHigh
<1>3. \A k : BuyIsEarned(k)' = BuyIsEarned(k) /\ SaleIsEarned(k)' = SaleIsEarned(k)
  BY <1>1, <1>2 DEF BuyIsEarned, SaleIsEarned
<1>4. \A i : StateBefore(i)' = StateBefore(i)
  BY DEF StateBefore, FreshSweep
<1>5. \A i \in DOMAIN candles :
         After(StateBefore(i), candles[i], i)' = After(StateBefore(i), candles[i], i)
  <2> SUFFICES ASSUME NEW i \in DOMAIN candles
               PROVE  After(StateBefore(i), candles[i], i)' = After(StateBefore(i), candles[i], i)
    OBVIOUS
  <2> DEFINE st == StateBefore(i)
             c == candles[i]
  <2>1. Break(st, c)' = Break(st, c)
    BY <1>2, <1>4 DEF Break
  <2>2. Armed(st, c)' = Armed(st, c)
    BY <1>2, <2>1 DEF Armed, Arm
  <2> QED
    BY <2>2 DEF After, Resolve, Triggered
<1>6. DaysInOrder'
  BY <1>1 DEF DaysInOrder
<1>7. IdealsAreBacked'
  BY <1>1, <1>2, <1>5 DEF IdealsAreBacked
<1> QED
  BY <1>1, <1>3, <1>6, <1>7

LEMMA AnalyzeKeeps ==
    ASSUME SweepInv, NEW who, Analyze(who)
    PROVE  SweepInv'
<1>1. candles' = candles /\ ideal' = ideal /\ triggers' = triggers
  BY DEF Analyze
<1>2. candles # <<>>
  <2>1. DaysBefore(Today) # {}
    BY DEF Analyze
  <2> QED
    BY <2>1 DEF DaysBefore
<1>3. /\ Len(candles) \in DOMAIN candles /\ Len(candles) \in OfDay(Today) /\ Today \in Nat
      /\ Today # 0
  <2>1. candles \in Seq(SweepCandle)
    BY DEF SweepInv, DaysInOrder
  <2>2. Len(candles) \in DOMAIN candles
    BY <1>2, <2>1
  <2>3. candles[Len(candles)] \in SweepCandle
    BY <2>1, <2>2
  <2> QED
    BY <2>2, <2>3, SweepCandleFields DEF Today, OfDay
<1>4. DaysInOrder' /\ IdealsAreBacked' /\ TriggersAreEarned'
  <2>1. /\ DaysInOrder' /\ IdealsAreBacked'
        /\ \A d : DaysBefore(d)' = DaysBefore(d)
        /\ \A k : BuyIsEarned(k)' = BuyIsEarned(k) /\ SaleIsEarned(k)' = SaleIsEarned(k)
    BY <1>1, SameCandles DEF SweepInv
  <2> QED
    BY <1>1, <2>1 DEF SweepInv, TriggersAreEarned
<1>5. AnalysisFollows'
  <2>1. /\ sweep' = IF sweep.day = Today THEN sweep ELSE FreshSweep(Today)
        /\ unread' = Pending(StartOf(Today)) /\ sweep' = StartOf(Today)
        /\ DaysBefore(Today) # {}
    BY DEF Analyze, StartOf
  <2>2. sweep'.day = Today
    BY <2>1 DEF FreshSweep
  <2>3. \A d : DaysBefore(d)' = DaysBefore(d) /\ OfDay(d)' = OfDay(d)
    BY <1>1 DEF DaysBefore, OfDay
  <2>4. unread' = Pending(sweep)'
    BY <2>1, <2>3 DEF Pending
  <2>5. sweep' = IF sweep'.last = 0 THEN FreshSweep(Today) ELSE ideal[sweep'.last]
    <3>1. CASE sweep.day = Today
      BY <1>3, <2>1, <3>1 DEF SweepInv, AnalysisFollows
    <3>2. CASE sweep.day # Today
      BY <2>1, <3>2 DEF FreshSweep
    <3> QED
      BY <3>1, <3>2
  <2>6. sweep'.last # 0 => sweep'.last \in OfDay(Today)
    <3>1. CASE sweep.day = Today
      BY <1>3, <2>1, <3>1 DEF SweepInv, AnalysisFollows
    <3>2. CASE sweep.day # Today
      BY <2>1, <3>2 DEF FreshSweep
    <3> QED
      BY <3>1, <3>2
  <2> QED
    BY <1>1, <1>3, <2>1, <2>2, <2>3, <2>4, <2>5, <2>6 DEF AnalysisFollows, FreshSweep
<1> QED
  BY <1>4, <1>5 DEF SweepInv

LEMMA AnalyzeCandleKeeps ==
    ASSUME SweepInv, NEW i \in unread, NEW price, AnalyzeCandle(i, price)
    PROVE  SweepInv'
<1> DEFINE c == candles[i]
           ar == Armed(sweep, c)
<1>1. candles' = candles /\ ideal' = ideal /\ (\A j \in unread : i <= j)
  BY DEF AnalyzeCandle
<1>2. /\ i \in DOMAIN candles /\ c.day = sweep.day /\ i # 0
      /\ DaysBefore(sweep.day) # {} /\ sweep = StateBefore(i)
      /\ unread \ {i} = {j \in OfDay(sweep.day) : j > i}
  BY <1>1, NextInTurn
<1>3. /\ DaysInOrder' /\ IdealsAreBacked'
      /\ \A d : DaysBefore(d)' = DaysBefore(d) /\ OfDay(d)' = OfDay(d)
      /\ \A k : BuyIsEarned(k)' = BuyIsEarned(k) /\ SaleIsEarned(k)' = SaleIsEarned(k)
  BY <1>1, SameCandles DEF SweepInv
<1>4. sweep' = ideal[i] /\ ideal[i].day = sweep.day /\ ideal[i].last = i
  BY <1>2 DEF SweepInv, IdealsAreBacked, AnalyzeCandle
<1>5. sweep.day # 0
  BY DEF SweepInv, AnalysisFollows
<1>6. AnalysisFollows'
  <2>1. unread' = Pending(sweep)'
    <3>1. unread' = {j \in OfDay(sweep.day) : j > i}
      BY <1>2 DEF AnalyzeCandle
    <3> QED
      BY <1>3, <1>4, <3>1 DEF Pending
  <2>2. sweep'.last \in OfDay(sweep'.day) /\ sweep'.last # 0 /\ sweep'.day = sweep.day
    BY <1>2, <1>4 DEF OfDay
  <2> QED
    BY <1>1, <1>2, <1>3, <1>4, <1>5, <2>1, <2>2 DEF AnalysisFollows
<1>7. ASSUME Triggered(ar, c)
      PROVE  IF ar.state = "BUY_READY" THEN BuyIsEarned(i) ELSE SaleIsEarned(i)
  <2>1. /\ IsSweep(sweep)
        /\ Backed(candles, DailyLow(sweep.day), DailyHigh(sweep.day), sweep, i - 1, i - 1)
    BY <1>2, StateBeforeIsBacked DEF SweepInv
  <2>2. /\ ar.day = sweep.day
        /\ Backed(candles, DailyLow(sweep.day), DailyHigh(sweep.day), ar, i, i - 1)
    BY <1>2, <2>1, ArmedIsBacked DEF SweepInv, DaysInOrder
  <2> HIDE DEF ar
  <2> QED
    BY <1>2, <1>7, <2>2, TriggerIsEarned DEF SweepInv, DaysInOrder
<1>8. TriggersAreEarned'
  <2> SUFFICES ASSUME NEW s \in triggers'
               PROVE  /\ s.at \in DOMAIN candles /\ DaysBefore(candles[s.at].day) # {}
                      /\ IF s.direction = "BUY_READY" THEN BuyIsEarned(s.at) ELSE SaleIsEarned(s.at)
    BY <1>1, <1>3 DEF TriggersAreEarned
  <2>1. CASE s \in triggers
    BY <2>1 DEF SweepInv, TriggersAreEarned
  <2>2. CASE s \notin triggers
    <3>1. Triggered(ar, c) /\ s = [direction |-> ar.state, at |-> i, by |-> analyst]
      BY <2>2 DEF AnalyzeCandle
    <3>2. s.direction = ar.state /\ s.at = i
      BY <3>1
    <3> QED
      BY <1>2, <1>7, <3>1, <3>2
  <2> QED
    BY <2>1, <2>2
<1> QED
  BY <1>3, <1>6, <1>8 DEF SweepInv

\* The candles so far are those of before when one more closes.
LEMMA BackedLonger ==
    ASSUME NEW cs \in Seq(SweepCandle), NEW c \in SweepCandle, NEW ds, ds = Append(cs, c),
           NEW m \in DOMAIN cs, NEW lo, NEW hi, NEW st, Backed(cs, lo, hi, st, m, m)
    PROVE  Backed(ds, lo, hi, st, m, m)
<1>1. /\ DOMAIN cs \subseteq DOMAIN ds /\ DOMAIN cs = 1..Len(cs) /\ Len(cs) \in Nat
      /\ \A k \in DOMAIN cs : ds[k] = cs[k]
  OBVIOUS
<1>2. \A b : /\ BrokenBelow(cs, lo, st.day, b) => BrokenBelow(ds, lo, st.day, b)
             /\ BrokenAbove(cs, hi, st.day, b) => BrokenAbove(ds, hi, st.day, b)
  BY <1>1 DEF BrokenBelow, BrokenAbove
<1>3. ASSUME NEW j \in DOMAIN cs PROVE \A x \in (j + 1)..m : ds[x] = cs[x]
  BY <1>1
<1>4. BuyArmed(cs, lo, st.day, st.signal, m, m) => BuyArmed(ds, lo, st.day, st.signal, m, m)
  <2> SUFFICES ASSUME BuyArmed(cs, lo, st.day, st.signal, m, m)
               PROVE  BuyArmed(ds, lo, st.day, st.signal, m, m)
    OBVIOUS
  <2>1. PICK j \in DOMAIN cs :
           /\ cs[j].day = st.day /\ j <= m /\ BrokenBelow(cs, lo, st.day, j)
           /\ Green(cs[j]) /\ st.signal = cs[j].high
           /\ \A x \in (j + 1)..m : ~Red(cs[x]) /\ cs[x].high <= cs[j].high
    BY DEF BuyArmed
  <2>2. \A x \in (j + 1)..m : ~Red(ds[x]) /\ ds[x].high <= ds[j].high
    BY <1>1, <1>3, <2>1
  <2> QED
    BY <1>1, <1>2, <2>1, <2>2 DEF BuyArmed
<1>5. SaleArmed(cs, hi, st.day, st.signal, m, m) => SaleArmed(ds, hi, st.day, st.signal, m, m)
  <2> SUFFICES ASSUME SaleArmed(cs, hi, st.day, st.signal, m, m)
               PROVE  SaleArmed(ds, hi, st.day, st.signal, m, m)
    OBVIOUS
  <2>1. PICK j \in DOMAIN cs :
           /\ cs[j].day = st.day /\ j <= m /\ BrokenAbove(cs, hi, st.day, j)
           /\ Red(cs[j]) /\ st.signal = cs[j].low
           /\ \A x \in (j + 1)..m : ~Green(cs[x]) /\ cs[x].low >= cs[j].low
    BY DEF SaleArmed
  <2>2. \A x \in (j + 1)..m : ~Green(ds[x]) /\ ds[x].low >= ds[j].low
    BY <1>1, <1>3, <2>1
  <2> QED
    BY <1>1, <1>2, <2>1, <2>2 DEF SaleArmed
<1> QED
  BY <1>2, <1>4, <1>5 DEF Backed

\* What a candle makes of a state depends on the earlier candles through the range only.
LEMMA SameRange ==
    ASSUME NEW st, NEW c, NEW i, DailyLow(st.day)' = DailyLow(st.day),
           DailyHigh(st.day)' = DailyHigh(st.day)
    PROVE  After(st, c, i)' = After(st, c, i)
<1>1. Break(st, c).day = st.day
  BY DEF Break
<1>2. Break(st, c)' = Break(st, c)
  BY DEF Break
<1>3. Armed(st, c)' = Armed(st, c)
  BY <1>1, <1>2 DEF Armed, Arm
<1> QED
  BY <1>3 DEF After, Resolve, Triggered

\* The days before those of these candles, and their ranges, stay as they are.
RangesStay(cs) ==
    \A i \in DOMAIN cs :
        /\ DaysBefore(cs[i].day)' = DaysBefore(cs[i].day)
        /\ DaysBefore(cs[i].day) # {} =>
             /\ DailyLow(cs[i].day)' = DailyLow(cs[i].day)
             /\ DailyHigh(cs[i].day)' = DailyHigh(cs[i].day)

\* A candle that closes, of the last day or of a later one, leaves the days before and their
\* ranges as they were.
LEMMA CandleAppended ==
    ASSUME DaysInOrder, NEW c \in SweepCandle, candles' = Append(candles, c), NEW cs,
           cs = candles', \A i \in DOMAIN candles : candles[i].day <= c.day
    PROVE  /\ DaysInOrder' /\ Len(candles) \in Nat
           /\ DOMAIN candles = 1..Len(candles) /\ DOMAIN candles' = 1..(Len(candles) + 1)
           /\ \A i \in DOMAIN candles : candles'[i] = candles[i]
           /\ candles'[Len(candles) + 1] = c
           /\ \A d : OfDay(d) \subseteq OfDay(d)'
           /\ RangesStay(cs)
<1> DEFINE n == Len(candles)
           Days == {candles[i].day : i \in DOMAIN candles}
<1>1. /\ candles \in Seq(SweepCandle) /\ n \in Nat /\ candles' \in Seq(SweepCandle)
      /\ DOMAIN candles = 1..n /\ DOMAIN candles' = 1..(n + 1)
      /\ \A i \in DOMAIN candles : candles'[i] = candles[i]
      /\ candles'[n + 1] = c
  BY DEF DaysInOrder
<1>2. c.day \in Nat /\ Days \subseteq Nat
  <2>1. \A i \in DOMAIN candles : candles[i] \in SweepCandle
    BY <1>1
  <2> QED
    BY <2>1, SweepCandleFields
<1>3. \A i \in DOMAIN candles' : candles'[i].day \in Days \cup {c.day}
  <2>1. \A i \in DOMAIN candles' : i \in DOMAIN candles \/ i = n + 1
    BY <1>1
  <2> QED
    BY <1>1, <2>1
<1>4. \A d \in Days \cup {c.day} : d \in Nat /\ d <= c.day
  BY <1>2
<1>5. {candles'[i].day : i \in DOMAIN candles'} = Days \cup {c.day}
  <2>1. \A d \in Days : \E i \in DOMAIN candles' : candles'[i].day = d
    BY <1>1
  <2>2. n + 1 \in DOMAIN candles' /\ candles'[n + 1].day = c.day
    BY <1>1
  <2> QED
    BY <1>3, <2>1, <2>2
<1>6. \A d \in Days \cup {c.day} : DaysBefore(d)' = DaysBefore(d) /\ DaysBefore(d) \subseteq Days
  <2> SUFFICES ASSUME NEW d \in Days \cup {c.day}
               PROVE  DaysBefore(d)' = DaysBefore(d) /\ DaysBefore(d) \subseteq Days
    OBVIOUS
  <2>1. ~(c.day < d)
    BY <1>2, <1>4
  <2>2. {e \in Days \cup {c.day} : e < d} = {e \in Days : e < d}
    BY <2>1
  <2> QED
    BY <1>5, <2>2 DEF DaysBefore
<1>7. \A d : OfDay(d) \subseteq OfDay(d)' /\ (d # c.day => OfDay(d)' = OfDay(d))
  <2> SUFFICES ASSUME NEW d
               PROVE  OfDay(d) \subseteq OfDay(d)' /\ (d # c.day => OfDay(d)' = OfDay(d))
    OBVIOUS
  <2>1. \A i \in DOMAIN candles' : i \in DOMAIN candles \/ i = n + 1
    BY <1>1
  <2> QED
    BY <1>1, <2>1 DEF OfDay
<1>8. \A d \in Days \cup {c.day} : DaysBefore(d) # {} =>
         \E m \in DaysBefore(d) : \A e \in DaysBefore(d) : e <= m
  <2> SUFFICES ASSUME NEW d \in Days \cup {c.day}, DaysBefore(d) # {}
               PROVE  \E m \in DaysBefore(d) : \A e \in DaysBefore(d) : e <= m
    OBVIOUS
  <2>1. CASE d \in Days
    BY <2>1 DEF DaysInOrder
  <2>2. CASE d = c.day /\ d \notin Days
    <3>1. n \in DOMAIN candles /\ candles[n].day \in Days
      BY <1>1, <1>6
    <3>2. candles[n].day < d
      <4>1. candles[n].day <= d /\ candles[n].day # d
        BY <2>2, <3>1
      <4>2. candles[n].day \in Nat /\ d \in Nat
        BY <1>2, <2>2, <3>1
      <4> QED
        BY <4>1, <4>2
    <3>3. candles[n].day \in DaysBefore(d)
      BY <3>1, <3>2 DEF DaysBefore
    <3>4. \A e \in Days : e <= candles[n].day
      <4>1. \A i \in DOMAIN candles : i <= n
        BY <1>1
      <4> QED
        BY <3>1, <4>1 DEF DaysInOrder
    <3> QED
      BY <1>6, <3>3, <3>4
  <2> QED
    BY <2>1, <2>2
<1>9. \A d \in Days \cup {c.day} : DaysBefore(d) # {} =>
         DailyLow(d)' = DailyLow(d) /\ DailyHigh(d)' = DailyHigh(d)
  <2> SUFFICES ASSUME NEW d \in Days \cup {c.day}, DaysBefore(d) # {}
               PROVE  DailyLow(d)' = DailyLow(d) /\ DailyHigh(d)' = DailyHigh(d)
    OBVIOUS
  <2>1. PICK m \in DaysBefore(d) : \A e \in DaysBefore(d) : e <= m
    BY <1>8
  <2>2. DaysBefore(d) \in SUBSET Int
    BY <1>2, <1>6
  <2>3. Max(DaysBefore(d)) = m
    BY <2>1, <2>2, GreatestIsMax
  <2>4. m < d /\ d <= c.day
    BY <1>4, <2>1 DEF DaysBefore
  <2>5. m # c.day
    BY <1>2, <1>4, <2>2, <2>4
  <2>6. OfDay(m)' = OfDay(m) /\ \A i \in OfDay(m) : candles'[i] = candles[i]
    BY <1>1, <1>7, <2>5 DEF OfDay
  <2>7. Max(DaysBefore(d)') = m /\ Max(DaysBefore(d)) = m
    BY <1>6, <2>3
  <2>8. /\ {candles[i].low : i \in OfDay(m)}' = {candles[i].low : i \in OfDay(m)}
        /\ {candles[i].high : i \in OfDay(m)}' = {candles[i].high : i \in OfDay(m)}
    BY <2>6
  <2> QED
    BY <2>7, <2>8 DEF DailyLow, DailyHigh
<1>10. DaysInOrder'
  <2>1. \A i \in DOMAIN candles' : i \in DOMAIN candles \/ i = n + 1
    BY <1>1
  <2>2. \A i, j \in DOMAIN candles' : i <= j => candles'[i].day <= candles'[j].day
    <3> SUFFICES ASSUME NEW i \in DOMAIN candles', NEW j \in DOMAIN candles', i <= j
                 PROVE  candles'[i].day <= candles'[j].day
      OBVIOUS
    <3>1. CASE j \in DOMAIN candles
      <4>1. i \in DOMAIN candles
        BY <1>1, <3>1
      <4> QED
        BY <1>1, <3>1, <4>1 DEF DaysInOrder
    <3>2. CASE j = n + 1
      <4>1. candles'[j].day = c.day /\ candles'[i].day \in Days \cup {c.day}
        BY <1>1, <1>3, <3>2
      <4> QED
        BY <1>4, <4>1
    <3> QED
      BY <2>1, <3>1, <3>2
  <2>3. \A i \in DOMAIN cs : DaysBefore(cs[i].day)' # {} =>
           \E d \in DaysBefore(cs[i].day)' : \A e \in DaysBefore(cs[i].day)' : e <= d
    <3> SUFFICES ASSUME NEW i \in DOMAIN cs, NEW d, d = cs[i].day, DaysBefore(d)' # {}
                 PROVE  \E m \in DaysBefore(d)' : \A e \in DaysBefore(d)' : e <= m
      OBVIOUS
    <3>1. d \in Days \cup {c.day}
      BY <1>3
    <3>2. DaysBefore(d)' = DaysBefore(d)
      BY <1>6, <3>1
    <3> QED
      BY <1>8, <3>1, <3>2
  <2> QED
    BY <1>1, <2>2, <2>3 DEF DaysInOrder
<1> QED
  BY <1>1, <1>3, <1>6, <1>7, <1>9, <1>10 DEF RangesStay

LEMMA CandleClosesKeeps ==
    ASSUME SweepInv, NEW shape \in Shapes, NEW day \in Nat \ {0},
           \A i \in DOMAIN candles : candles[i].day <= day, CandleCloses(shape, day)
    PROVE  SweepInv'
<1>1. PICK c : c = [day |-> day, open |-> shape.open, high |-> shape.high, low |-> shape.low,
                    close |-> shape.close]
  OBVIOUS
<1>2. c \in SweepCandle /\ c.day = day
  BY <1>1, SweepAssumption DEF SweepCandle
<1>3. PICK cs, n : cs = candles' /\ n = Len(candles)
  OBVIOUS
<1>4. /\ candles' = Append(candles, c) /\ sweep' = sweep /\ unread = {} /\ unread' = {}
      /\ triggers' = triggers
  BY <1>1 DEF CandleCloses
<1>5. ideal' = [i \in DOMAIN cs |-> IF i \in DOMAIN candles THEN ideal[i] ELSE IdealAfter(c)]
  BY <1>1, <1>3 DEF CandleCloses
<1>6. /\ DaysInOrder' /\ n \in Nat /\ DOMAIN candles = 1..n /\ DOMAIN cs = 1..(n + 1)
      /\ \A i \in DOMAIN candles : cs[i] = candles[i]
      /\ cs[n + 1] = c
      /\ \A d : OfDay(d) \subseteq OfDay(d)'
      /\ \A i \in DOMAIN cs :
           /\ DaysBefore(cs[i].day)' = DaysBefore(cs[i].day)
           /\ DaysBefore(cs[i].day) # {} =>
                /\ DailyLow(cs[i].day)' = DailyLow(cs[i].day)
                /\ DailyHigh(cs[i].day)' = DailyHigh(cs[i].day)
  <2>1. DaysInOrder /\ \A i \in DOMAIN candles : candles[i].day <= c.day
    BY <1>2 DEF SweepInv
  <2>2. cs = candles' /\ candles' = Append(candles, c) /\ c \in SweepCandle
    BY <1>2, <1>3, <1>4
  <2>3. /\ DaysInOrder' /\ Len(candles) \in Nat
        /\ DOMAIN candles = 1..Len(candles) /\ DOMAIN candles' = 1..(Len(candles) + 1)
        /\ \A i \in DOMAIN candles : candles'[i] = candles[i]
        /\ candles'[Len(candles) + 1] = c
        /\ \A d : OfDay(d) \subseteq OfDay(d)'
        /\ RangesStay(cs)
    BY <2>1, <2>2, CandleAppended
  <2>4. n \in Nat /\ DOMAIN candles = 1..n /\ DOMAIN cs = 1..(n + 1) /\ cs[n + 1] = c
    BY <1>3, <2>3
  <2>5. \A i \in DOMAIN candles : cs[i] = candles[i]
    BY <2>2, <2>3
  <2> QED
    BY <2>3, <2>4, <2>5 DEF RangesStay
<1>7. DOMAIN candles \subseteq DOMAIN cs /\ \A i \in DOMAIN candles : ideal'[i] = ideal[i]
  BY <1>5, <1>6
<1>8. cs \in Seq(SweepCandle) /\ candles \in Seq(SweepCandle)
  BY <1>3, <1>6 DEF DaysInOrder, SweepInv
<1>9. \A i \in DOMAIN candles : StateBefore(i)' = StateBefore(i)
  <2> SUFFICES ASSUME NEW i \in DOMAIN candles PROVE StateBefore(i)' = StateBefore(i)
    OBVIOUS
  <2>1. i > 1 => i - 1 \in DOMAIN candles
    BY <1>6
  <2> QED
    BY <1>3, <1>6, <1>7, <2>1 DEF StateBefore, FreshSweep
<1>10. StateBefore(n + 1)' = IdealBefore(day)
  <2>1. candles # <<>> <=> n + 1 > 1
    BY <1>3, <1>6, <1>8
  <2>2. n > 0 => n \in DOMAIN candles
    BY <1>6
  <2>3. n + 1 - 1 = n
    BY <1>6
  <2>4. candles # <<>> => n > 0
    BY <1>6, <2>1
  <2> QED
    BY <1>2, <1>3, <1>6, <1>7, <2>1, <2>2, <2>3, <2>4 DEF StateBefore, IdealBefore, Today, FreshSweep
<1>11. \A i \in DOMAIN candles : DaysBefore(cs[i].day) # {} =>
          /\ IsSweep(ideal[i]) /\ ideal[i].day = cs[i].day /\ ideal[i].last = i
          /\ Backed(cs, DailyLow(cs[i].day), DailyHigh(cs[i].day), ideal[i], i, i)
  <2> SUFFICES ASSUME NEW i \in DOMAIN candles, DaysBefore(cs[i].day) # {}
               PROVE  /\ IsSweep(ideal[i]) /\ ideal[i].day = cs[i].day /\ ideal[i].last = i
                      /\ Backed(cs, DailyLow(cs[i].day), DailyHigh(cs[i].day), ideal[i], i, i)
    OBVIOUS
  <2>1. /\ IsSweep(ideal[i]) /\ ideal[i].day = cs[i].day /\ ideal[i].last = i
        /\ Backed(candles, DailyLow(cs[i].day), DailyHigh(cs[i].day), ideal[i], i, i)
    BY <1>6 DEF SweepInv, IdealsAreBacked
  <2>2. PICK lo, hi, id : lo = DailyLow(cs[i].day) /\ hi = DailyHigh(cs[i].day) /\ id = ideal[i]
    OBVIOUS
  <2>3. Backed(candles, lo, hi, id, i, i) /\ cs = Append(candles, c)
    BY <1>3, <1>4, <2>1, <2>2
  <2>4. Backed(cs, lo, hi, id, i, i)
    BY <1>2, <1>8, <2>3, BackedLonger
  <2> QED
    BY <2>1, <2>2, <2>4
<1>12. \A i \in DOMAIN cs : DaysBefore(cs[i].day)' # {} =>
          /\ ideal'[i] = After(StateBefore(i), candles[i], i)'
          /\ IsSweep(ideal[i])' /\ ideal'[i].day = cs[i].day /\ ideal'[i].last = i
          /\ Backed(candles, DailyLow(cs[i].day), DailyHigh(cs[i].day), ideal[i], i, i)'
  <2> SUFFICES ASSUME NEW i \in DOMAIN cs, DaysBefore(cs[i].day) # {}
               PROVE  /\ ideal'[i] = After(StateBefore(i), candles[i], i)'
                      /\ IsSweep(ideal[i])' /\ ideal'[i].day = cs[i].day /\ ideal'[i].last = i
                      /\ Backed(candles, DailyLow(cs[i].day), DailyHigh(cs[i].day), ideal[i], i, i)'
    BY <1>6
  <2>1. PICK st, id, lo, hi : /\ st = StateBefore(i)' /\ id = ideal'[i]
                              /\ lo = DailyLow(cs[i].day) /\ hi = DailyHigh(cs[i].day)
    OBVIOUS
  <2>2. lo = DailyLow(cs[i].day)' /\ hi = DailyHigh(cs[i].day)'
    BY <1>6, <2>1
  <2>3. CASE i \in DOMAIN candles
    <3>1. /\ st = StateBefore(i) /\ cs[i] = candles[i] /\ id = ideal[i]
          /\ IsSweep(id) /\ id.day = cs[i].day /\ id.last = i
          /\ Backed(cs, lo, hi, id, i, i)
      BY <1>6, <1>7, <1>9, <1>11, <2>1, <2>3
    <3>2. id = After(st, cs[i], i) /\ st.day = cs[i].day
      BY <3>1, <2>3, StateBeforeIsBacked DEF SweepInv, IdealsAreBacked
    <3>3. After(st, cs[i], i)' = After(st, cs[i], i)
      BY <1>6, <3>2, SameRange
    <3> QED
      BY <1>3, <2>1, <2>2, <3>1, <3>2, <3>3 DEF IsSweep, Backed
  <2>4. CASE i = n + 1
    <3>1. i \notin DOMAIN candles /\ cs[i] = c /\ i - 1 = n
      BY <1>6, <2>4
    <3>2. id = After(st, cs[i], i)
      BY <1>2, <1>3, <1>5, <1>10, <2>1, <2>4, <3>1 DEF IdealAfter
    <3>3. IsSweep(st) /\ st.day = cs[i].day /\ Backed(cs, lo, hi, st, i - 1, i - 1)
      <4>1. CASE candles # <<>> /\ Today = day
        <5>1. n \in DOMAIN candles /\ candles[n].day = day /\ st = ideal[n]
          BY <1>3, <1>6, <1>8, <1>10, <2>1, <2>4, <4>1 DEF Today, IdealBefore
        <5>2. cs[n].day = day /\ cs[i].day = day
          BY <1>2, <1>6, <3>1, <5>1
        <5>3. /\ IsSweep(st) /\ st.day = day
              /\ Backed(cs, DailyLow(day), DailyHigh(day), st, n, n)
          BY <1>11, <5>1, <5>2
        <5> QED
          BY <2>1, <3>1, <5>2, <5>3
      <4>2. CASE ~(candles # <<>> /\ Today = day)
        <5>1. st = FreshSweep(day)
          BY <1>10, <2>1, <2>4, <4>2 DEF IdealBefore
        <5> QED
          BY <1>2, <3>1, <5>1 DEF FreshSweep, IsSweep, Backed
      <4> QED
        BY <4>1, <4>2
    <3>4. /\ IsSweep(id) /\ id.day = cs[i].day /\ id.last = i
          /\ Backed(cs, lo, hi, id, i, i)
      BY <1>8, <2>1, <3>2, <3>3, AfterIsBacked
    <3>5. After(st, cs[i], i)' = After(st, cs[i], i)
      BY <1>6, <3>3, SameRange
    <3> QED
      BY <1>3, <2>1, <2>2, <3>2, <3>4, <3>5 DEF IsSweep, Backed
  <2> QED
    BY <1>6, <2>3, <2>4
<1>13. IdealsAreBacked'
  <2>1. DOMAIN ideal' = DOMAIN candles'
    BY <1>3, <1>5
  <2> QED
    BY <1>3, <1>12, <2>1 DEF IdealsAreBacked
<1>14. AnalysisFollows'
  <2> SUFFICES ASSUME sweep.day # 0
               PROVE  /\ DaysBefore(sweep.day)' # {} /\ OfDay(sweep.day)' # {}
                      /\ sweep = IF sweep.last = 0 THEN FreshSweep(sweep.day)
                                 ELSE ideal'[sweep.last]
                      /\ sweep.last # 0 => sweep.last \in OfDay(sweep.day)'
    BY <1>4 DEF AnalysisFollows, FreshSweep
  <2>1. /\ DaysBefore(sweep.day) # {} /\ OfDay(sweep.day) # {}
        /\ sweep = IF sweep.last = 0 THEN FreshSweep(sweep.day) ELSE ideal[sweep.last]
        /\ sweep.last # 0 => sweep.last \in OfDay(sweep.day)
    BY DEF SweepInv, AnalysisFollows
  <2>2. PICK j \in DOMAIN candles : candles[j].day = sweep.day
    BY <2>1 DEF OfDay
  <2>3. DaysBefore(cs[j].day)' = DaysBefore(cs[j].day) /\ cs[j].day = sweep.day
    BY <1>6, <1>7, <2>2
  <2>4. DaysBefore(sweep.day)' # {}
    <3>1. PICK d : d = sweep.day
      OBVIOUS
    <3>2. DaysBefore(d)' = DaysBefore(d) /\ d = sweep'.day
      BY <1>4, <2>3, <3>1
    <3> QED
      BY <1>4, <2>1, <3>1, <3>2
  <2>5. OfDay(sweep.day) \subseteq OfDay(sweep.day)'
    <3>1. PICK d : d = sweep.day
      OBVIOUS
    <3> QED
      BY <1>4, <1>6, <3>1
  <2>6. sweep.last # 0 => ideal'[sweep.last] = ideal[sweep.last]
    BY <1>7, <2>1 DEF OfDay
  <2> QED
    BY <2>1, <2>4, <2>5, <2>6
<1>15. TriggersAreEarned'
  <2> SUFFICES ASSUME NEW s \in triggers
               PROVE  /\ s.at \in DOMAIN cs /\ DaysBefore(cs[s.at].day)' # {}
                      /\ IF s.direction = "BUY_READY" THEN BuyIsEarned(s.at)' ELSE SaleIsEarned(s.at)'
    BY <1>3, <1>4 DEF TriggersAreEarned
  <2>1. /\ s.at \in DOMAIN candles /\ DaysBefore(candles[s.at].day) # {}
        /\ IF s.direction = "BUY_READY" THEN BuyIsEarned(s.at) ELSE SaleIsEarned(s.at)
    BY DEF SweepInv, TriggersAreEarned
  <2>2. PICK k \in DOMAIN candles : k = s.at
    BY <2>1
  <2>3. /\ k \in DOMAIN cs /\ cs[k] = candles[k]
        /\ DaysBefore(cs[k].day)' # {}
        /\ DailyLow(cs[k].day)' = DailyLow(cs[k].day)
        /\ DailyHigh(cs[k].day)' = DailyHigh(cs[k].day)
        /\ OfDay(cs[k].day) \subseteq OfDay(cs[k].day)'
    BY <1>6, <1>7, <2>1, <2>2
  <2>4. \A j \in OfDay(cs[k].day) : /\ cs[j] = candles[j] /\ j \in Nat
                                    /\ \A m \in (j + 1)..(k - 1) : cs[m] = candles[m]
    <3> SUFFICES ASSUME NEW j \in OfDay(cs[k].day)
                 PROVE  /\ cs[j] = candles[j] /\ j \in Nat
                        /\ \A m \in (j + 1)..(k - 1) : cs[m] = candles[m]
      OBVIOUS
    <3>1. j \in DOMAIN candles /\ j \in 1..n /\ k \in 1..n
      BY <1>6 DEF OfDay
    <3>2. \A m \in (j + 1)..(k - 1) : m \in 1..n
      BY <1>6, <3>1
    <3>3. \A m \in 1..n : cs[m] = candles[m]
      BY <1>6
    <3>4. \A m \in (j + 1)..(k - 1) : cs[m] = candles[m]
      BY <3>2, <3>3
    <3>5. cs[j] = candles[j] /\ j \in Nat
      BY <1>6, <3>1, <3>3
    <3> QED
      BY <3>4, <3>5
  <2>5. BuyIsEarned(k) => BuyIsEarned(k)'
    <3> SUFFICES ASSUME BuyIsEarned(k) PROVE BuyIsEarned(k)'
      OBVIOUS
    <3>1. PICK i, j \in OfDay(cs[k].day) :
             /\ i <= j /\ j < k
             /\ candles[i].close < DailyLow(cs[k].day)
             /\ Green(candles[j]) /\ candles[k].high > candles[j].high
             /\ \A m \in (j + 1)..(k - 1) : ~Red(candles[m]) /\ candles[m].high <= candles[j].high
      BY <2>3 DEF BuyIsEarned
    <3>2. \A m \in (j + 1)..(k - 1) : ~Red(cs[m]) /\ cs[m].high <= cs[j].high
      BY <2>4, <3>1
    <3>3. /\ i \in OfDay(cs[k].day)' /\ j \in OfDay(cs[k].day)'
          /\ cs[i].close < DailyLow(cs[k].day)'
          /\ Green(cs[j]) /\ cs[k].high > cs[j].high
      BY <2>3, <2>4, <3>1
    <3> QED
      BY <1>3, <3>1, <3>2, <3>3 DEF BuyIsEarned
  <2>6. SaleIsEarned(k) => SaleIsEarned(k)'
    <3> SUFFICES ASSUME SaleIsEarned(k) PROVE SaleIsEarned(k)'
      OBVIOUS
    <3>1. PICK i, j \in OfDay(cs[k].day) :
             /\ i <= j /\ j < k
             /\ candles[i].close > DailyHigh(cs[k].day)
             /\ Red(candles[j]) /\ candles[k].low < candles[j].low
             /\ \A m \in (j + 1)..(k - 1) : ~Green(candles[m]) /\ candles[m].low >= candles[j].low
      BY <2>3 DEF SaleIsEarned
    <3>2. \A m \in (j + 1)..(k - 1) : ~Green(cs[m]) /\ cs[m].low >= cs[j].low
      BY <2>4, <3>1
    <3>3. /\ i \in OfDay(cs[k].day)' /\ j \in OfDay(cs[k].day)'
          /\ cs[i].close > DailyHigh(cs[k].day)'
          /\ Red(cs[j]) /\ cs[k].low < cs[j].low
      BY <2>3, <2>4, <3>1
    <3> QED
      BY <1>3, <3>1, <3>2, <3>3 DEF SaleIsEarned
  <2> QED
    BY <2>1, <2>2, <2>3, <2>5, <2>6
<1> QED
  BY <1>6, <1>13, <1>14, <1>15 DEF SweepInv

LEMMA SweepInvHolds == SweepSpec => []SweepInv
<1>1. SweepInit => SweepInv
  <2> SUFFICES ASSUME SweepInit PROVE SweepInv
    OBVIOUS
  <2>1. candles \in Seq(SweepCandle) /\ DOMAIN candles = {} /\ DOMAIN ideal = {}
    BY DEF SweepInit
  <2> QED
    BY <2>1 DEF SweepInit, SweepInv, DaysInOrder, IdealsAreBacked, AnalysisFollows,
                TriggersAreEarned, FreshSweep
<1>2. ASSUME SweepInv, [SweepNext]_sweepVars PROVE SweepInv'
  <2>1. CASE \E who \in {"loop", "debug"} : Analyze(who)
    BY <1>2, <2>1, AnalyzeKeeps
  <2>2. CASE \E i \in unread, price \in SweepQuotes : AnalyzeCandle(i, price)
    BY <1>2, <2>2, AnalyzeCandleKeeps
  <2>3. CASE \E shape \in Shapes, day \in (IF candles = <<>> THEN 1 ELSE Today)..MaxSweepDays :
               CandleCloses(shape, day)
    <3>1. PICK shape \in Shapes, day \in (IF candles = <<>> THEN 1 ELSE Today)..MaxSweepDays :
             CandleCloses(shape, day)
      BY <2>3
    <3>2. candles \in Seq(SweepCandle) /\ Len(candles) \in Nat
      BY <1>2 DEF SweepInv, DaysInOrder
    <3>3. \A i \in DOMAIN candles : candles[i] \in SweepCandle
      BY <3>2
    <3>4. \A i \in DOMAIN candles : candles[i].day \in Nat \ {0}
      BY <3>3, SweepCandleFields
    <3>5. CASE candles = <<>>
      <4>1. DOMAIN candles = {} /\ day \in Nat \ {0}
        BY <3>1, <3>5, SweepAssumption
      <4> QED
        BY <1>2, <3>1, <4>1, CandleClosesKeeps
    <3>6. CASE candles # <<>>
      <4>1. Len(candles) \in DOMAIN candles /\ \A i \in DOMAIN candles : i <= Len(candles)
        BY <3>2, <3>6
      <4>2. Today \in Nat \ {0} /\ \A i \in DOMAIN candles : candles[i].day <= Today
        BY <1>2, <3>4, <4>1 DEF Today, SweepInv, DaysInOrder
      <4>3. Today <= day /\ day \in Nat \ {0}
        BY <3>1, <3>6, <4>2
      <4>4. \A i \in DOMAIN candles : candles[i].day <= day
        BY <3>4, <4>2, <4>3
      <4> QED
        BY <1>2, <3>1, <4>3, <4>4, CandleClosesKeeps
    <3> QED
      BY <3>5, <3>6
  <2>4. CASE UNCHANGED sweepVars
    <3>1. /\ candles' = candles /\ ideal' = ideal /\ sweep' = sweep /\ unread' = unread
          /\ triggers' = triggers
      BY <2>4 DEF sweepVars
    <3>2. /\ DaysInOrder' /\ IdealsAreBacked'
          /\ \A d : DaysBefore(d)' = DaysBefore(d) /\ OfDay(d)' = OfDay(d)
          /\ \A k : BuyIsEarned(k)' = BuyIsEarned(k) /\ SaleIsEarned(k)' = SaleIsEarned(k)
      BY <1>2, <3>1, SameCandles DEF SweepInv
    <3>3. AnalysisFollows'
      BY <1>2, <3>1, <3>2 DEF SweepInv, AnalysisFollows, Pending, FreshSweep
    <3>4. TriggersAreEarned'
      BY <1>2, <3>1, <3>2 DEF SweepInv, TriggersAreEarned
    <3> QED
      BY <3>2, <3>3, <3>4 DEF SweepInv
  <2> QED
    BY <1>2, <2>1, <2>2, <2>3, <2>4 DEF SweepNext
<1> QED
  BY <1>1, <1>2, PTL DEF SweepSpec

\* Every signal of the liquidity sweep is earned by the candles of its day, and the state an
\* analysis leaves is that of analysing each candle as it closed, once: neither the batches the
\* trading cycles make, nor the debug route that shares the state, nor a change of day between two
\* analyses shows in it (_analyze_liquidity_sweep_1m).
THEOREM SweepIsAlwaysExact == SweepSpec => []SweepIsExact
<1>1. SweepInv => SweepIsExact
  BY DEF SweepInv, AnalysisFollows, TriggersAreEarned, SweepIsExact, SignalsAreEarned,
         BatchesDoNotMatter
<1> QED
  BY <1>1, SweepInvHolds, PTL
=============================================================================
