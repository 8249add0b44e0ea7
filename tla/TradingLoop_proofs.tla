------------------------- MODULE TradingLoop_proofs -------------------------
(***************************************************************************)
(* Theorems about the trading cycle, for every list of instruments, every  *)
(* limit and every set of faults.                                          *)
(***************************************************************************)
EXTENDS TradingLoop, FiniteSetTheorems, WellFoundedInduction, TLAPS

-----------------------------------------------------------------------------
(* At most one order in flight passes the kill switch.                     *)

\* An order that the risk controls have let through, but which the broker has
\* not filled yet, is the first one since the kill switch went active.
FillInv ==
    /\ ~kill => fills_killed = 0
    /\ pc \in {"news", "placing"} => fills_killed = 0
    /\ fills_killed \in 0..1

\* Every step of the loop, the API or the broker keeps FillInv: after a fill
\* the loop is past "placing", and validate_signal refuses while killed.
LEMMA FillStep == FillInv /\ [Next]_vars => FillInv'
<1> SUFFICES ASSUME FillInv, [Next]_vars PROVE FillInv'
  OBVIOUS
<1> USE DEF FillInv, vars, localVars, bookVars, historyVars, NextEpic
<1>1. ASSUME NEW d \in Deals, BrokerCloses(d) \/ ApiClose(d) \/ ApiPersist(d)
      PROVE  FillInv'
  BY <1>1 DEF BrokerCloses, ApiClose, ApiPersist
<1>1a. ASSUME NEW d \in Deals, TransactionExpires(d) PROVE FillInv'
  BY <1>1a DEF TransactionExpires
<1>2. CASE ActivateKillSwitch \/ DeactivateKillSwitch
  BY <1>2 DEF ActivateKillSwitch, DeactivateKillSwitch
<1>3. CASE Tick \/ Restart
  BY <1>3 DEF Tick, Restart
<1>4. CASE StartCycle \/ PositionsAnswer \/ RefreshFails \/ HistoryAnswer
           \/ ReconcileDone
  BY <1>4 DEF StartCycle, PositionsAnswer, RefreshFails, HistoryAnswer,
              ReconcileDone
<1>5. CASE CountMissing
  BY <1>5 DEF CountMissing
<1>6. ASSUME NEW d \in Deals, ReconcileDeal(d) PROVE FillInv'
  BY <1>6 DEF ReconcileDeal
<1>7. CASE SkipEpic \/ FlipExit \/ EndCycle
  BY <1>7 DEF SkipEpic, FlipExit, EndCycle
<1>8. CASE ConsiderEntry
  BY <1>8 DEF ConsiderEntry, Gate
<1>9. CASE CloseAccepted \/ CloseNotAccepted \/ CloseRaises
  BY <1>9 DEF CloseAccepted, CloseNotAccepted, CloseRaises
<1>10. CASE PersistFlipClose
  BY <1>10 DEF PersistFlipClose, Gate
<1>11. CASE RiskApproves \/ RiskRejects \/ NewsDecides \/ OrderRefused
  BY <1>11 DEF RiskApproves, RiskRejects, NewsDecides, OrderRefused
<1>12. CASE OrderAccepted \/ OrderWithoutLevel \/ OrderOutcomeLost
            \/ PersistOpen
  BY <1>12 DEF OrderAccepted, OrderWithoutLevel, OrderOutcomeLost, PersistOpen
<1>13. ASSUME NEW d \in Deals, BrokerFills(d) PROVE FillInv'
  BY <1>13 DEF BrokerFills
<1>14. CASE UNCHANGED vars
  BY <1>14
<1> QED
  BY <1>1, <1>1a, <1>2, <1>3, <1>4, <1>5, <1>6, <1>7, <1>8, <1>9, <1>10,
     <1>11, <1>12, <1>13, <1>14 DEF Next, Environment, Refresh, Trade

\* Once the kill switch is active at most one deal, the order whose risk check
\* came before the activation, is still opened: for every number of deals and
\* instruments, with every fault and with restarts.
THEOREM OneFillAfterKill == Spec => []OneFillInFlight
<1>1. Init => FillInv
  BY DEF Init, FillInv
<1>2. FillInv => OneFillInFlight
  BY DEF FillInv, OneFillInFlight
<1> QED
  BY <1>1, <1>2, FillStep, PTL DEF Spec

-----------------------------------------------------------------------------
(* Type correctness.                                                       *)

\* The awaits inside the body of the loop over the instruments, and those that
\* work on a deal.
InEpic == {"closing", "persist_close", "risk", "news", "placing",
           "confirming", "persist_open"}
WithDeal == {"closing", "persist_close", "confirming", "persist_open"}

ControlInv ==
    /\ pc \in InEpic => idx <= Len(Instruments)
    /\ pc \in WithDeal => target \in Deals

TypeInv == TypeOK /\ ControlInv

\* Numbers, and the epic the loop is at.
LEMMA Basics ==
    ASSUME TypeInv
    PROVE  /\ Len(Instruments) \in Nat /\ MaxClock \in Nat /\ DayLength \in Nat
           /\ Today \in Int /\ CountToday \in Nat /\ PnlToday \in Int
           /\ CountedToday \in [Deals -> Nat]
           /\ idx <= Len(Instruments) => Epic \in Epics
<1>1. /\ Len(Instruments) \in Nat /\ MaxClock \in Nat /\ DayLength \in Nat \ {0}
      /\ DOMAIN Instruments = 1..Len(Instruments)
  BY TradingLoopAssumption
<1>2. Today \in Int
  BY <1>1 DEF TypeInv, TypeOK, Today, Day
<1>3. /\ CountToday \in Nat /\ PnlToday \in Int
      /\ CountedToday \in [Deals -> Nat]
  BY DEF TypeInv, TypeOK, CountToday, PnlToday, CountedToday
<1>4. ASSUME idx <= Len(Instruments) PROVE Epic \in Epics
  <2>1. idx \in DOMAIN Instruments
    BY <1>1, <1>4 DEF TypeInv, TypeOK
  <2> QED
    BY <2>1 DEF Epic, Epics
<1> QED
  BY <1>1, <1>2, <1>3, <1>4

\* Moving on to the next epic, from inside the loop's body.
LEMMA NextEpicTypes ==
    ASSUME TypeInv, NextEpic, idx <= Len(Instruments)
    PROVE  /\ pc' \in Awaits /\ idx' \in 1..(Len(Instruments) + 1)
           /\ signal' \in Directions \cup {None}
           /\ target' \in Deals \cup {0}
           /\ ControlInv'
<1>1. Len(Instruments) \in Nat
  BY Basics
<1> QED
  BY <1>1 DEF TypeInv, TypeOK, NextEpic, ControlInv, InEpic, WithDeal, Awaits

\* The entry gate.
LEMMA GateTypes ==
    ASSUME TypeInv, NEW e, NEW dir \in Directions, Gate(e, dir),
           idx <= Len(Instruments)
    PROVE  /\ daily_date' \in Int /\ daily_count' \in Nat /\ daily_pnl' \in Int
           /\ counted' \in [Deals -> Nat]
           /\ pc' \in Awaits /\ idx' \in 1..(Len(Instruments) + 1)
           /\ signal' \in Directions \cup {None}
           /\ target' \in Deals \cup {0}
           /\ ControlInv'
<1>1. /\ daily_date' \in Int /\ daily_count' \in Nat /\ daily_pnl' \in Int
      /\ counted' \in [Deals -> Nat]
  BY Basics DEF Gate
<1>2. \/ NextEpic
      \/ pc' = "risk" /\ signal' = dir /\ target' = 0 /\ UNCHANGED idx
  BY DEF Gate
<1>3. CASE NextEpic
  BY <1>1, <1>3, NextEpicTypes
<1>4. CASE pc' = "risk" /\ signal' = dir /\ target' = 0 /\ UNCHANGED idx
  BY <1>1, <1>4 DEF TypeInv, TypeOK, ControlInv, InEpic, WithDeal, Awaits
<1> QED
  BY <1>2, <1>3, <1>4

\* The broker realizes a profit of Pnls.
LEMMA RealizeTypes ==
    ASSUME TypeInv, NEW d \in Deals, Realize(d)
    PROVE  /\ broker' \in [Deals -> {"none", "open", "closed"}]
           /\ pnl' \in [Deals -> Pnls \cup {0}]
BY DEF TypeInv, TypeOK, Realize

\* _persist_closed_trade closes one row or none.
LEMMA PersistTypes ==
    ASSUME TypeInv, NEW d \in Deals, PersistClose(d)
    PROVE  /\ db' \in [Deals -> {"none", "open", "closed"}]
           /\ failed' \in [Deals -> Nat]
<1>1. PersistedRows(d) \subseteq Deals
  BY DEF PersistedRows
<1>2. \/ \E r \in Deals : db' = [db EXCEPT ![r] = "closed"]
      \/ db' = db
  BY <1>1 DEF PersistClose
<1>3. failed' \in [Deals -> Nat]
  BY DEF PersistClose, TypeInv, TypeOK
<1> QED
  BY <1>2, <1>3 DEF TypeInv, TypeOK

\* A new loop on a new day.
LEMMA InitTypes == Init => TypeInv
<1> SUFFICES ASSUME Init PROVE TypeInv
  OBVIOUS
<1> USE TradingLoopAssumption DEF Init
<1>1. /\ clock \in 0..MaxClock /\ daily_date \in Int /\ daily_count \in Nat
      /\ daily_pnl \in Int /\ fills_killed \in Nat
      /\ idx \in 1..(Len(Instruments) + 1)
  OBVIOUS
<1>2. kill \in BOOLEAN /\ pc \in Awaits /\ signal \in Directions \cup {None}
  BY DEF Awaits
<1>3. /\ missing \in [Deals -> 0..2] /\ booked \in [Deals -> Nat]
      /\ counted \in [Deals -> Nat] /\ failed \in [Deals -> Nat]
      /\ accepted_at \in [Deals -> {-1} \cup 0..MaxClock]
      /\ last_trade \in [Epics -> {-1} \cup 0..MaxClock]
      /\ pnl \in [Deals -> Pnls \cup {0}]
  OBVIOUS
<1>4. deal \in [Deals -> [epic : Epics \cup {None},
                         direction : Directions \cup {None}]]
  OBVIOUS
<1>5. TypeOK
  BY <1>1, <1>2, <1>3, <1>4 DEF TypeOK
<1> QED
  BY <1>5 DEF TypeInv, ControlInv, InEpic, WithDeal

\* Every step of the loop, the broker, the API and the clock keeps the types.
LEMMA NextTypes == TypeInv /\ [Next]_vars => TypeInv'
<1> SUFFICES ASSUME TypeInv, [Next]_vars PROVE TypeInv'
  OBVIOUS
<1> USE DEF vars, brokerVars, dailyVars, memoryVars, localVars, bookVars,
       historyVars
<1>0. /\ Len(Instruments) \in Nat /\ MaxClock \in Nat /\ Today \in Int
      /\ CountToday \in Nat /\ PnlToday \in Int
      /\ CountedToday \in [Deals -> Nat]
      /\ idx <= Len(Instruments) => Epic \in Epics
      /\ TypeOK /\ ControlInv
  BY Basics DEF TypeInv
<1>1. ASSUME NEW d \in Deals, BrokerCloses(d) \/ ApiClose(d) PROVE TypeInv'
  <2>1. /\ broker' \in [Deals -> {"none", "open", "closed"}]
        /\ pnl' \in [Deals -> Pnls \cup {0}]
    BY <1>1, RealizeTypes DEF BrokerCloses, ApiClose
  <2>2. db' \in [Deals -> {"none", "open", "closed"}]
    BY <1>0, <1>1 DEF BrokerCloses, ApiClose, TypeOK
  <2> QED
    BY <1>0, <1>1, <2>1, <2>2
       DEF BrokerCloses, ApiClose, TypeInv, TypeOK, ControlInv
<1>1a. ASSUME NEW d \in Deals, ApiPersist(d) PROVE TypeInv'
  <2>1. /\ db' \in [Deals -> {"none", "open", "closed"}]
        /\ api' \subseteq Deals
    BY <1>0, <1>1a DEF ApiPersist, TypeOK
  <2> QED
    BY <1>0, <1>1a, <2>1 DEF ApiPersist, TypeInv, TypeOK, ControlInv
<1>1b. ASSUME NEW d \in Deals, TransactionExpires(d) PROVE TypeInv'
  BY <1>0, <1>1b DEF TransactionExpires, TypeInv, TypeOK, ControlInv
<1>2. CASE ActivateKillSwitch \/ DeactivateKillSwitch \/ Tick
  <2>1. fills_killed' \in Nat /\ clock' \in 0..MaxClock
    BY SMTT(30), <1>0, <1>2 DEF ActivateKillSwitch, DeactivateKillSwitch, Tick, TypeOK
  <2>2. kill' \in BOOLEAN
    BY <1>0, <1>2, Zenon
       DEF ActivateKillSwitch, DeactivateKillSwitch, Tick, TypeOK
  <2> QED
    BY <1>0, <1>2, <2>1, <2>2 DEF ActivateKillSwitch, DeactivateKillSwitch,
                                  Tick, TypeInv, TypeOK, ControlInv
<1>3. CASE Restart
  <2>0. kill' \in BOOLEAN
    BY <1>3, Zenon DEF Restart
  <2>1. /\ fills_killed' \in Nat
        /\ daily_date' \in Int /\ daily_count' \in Nat /\ daily_pnl' \in Int
    BY <1>0, <1>3 DEF Restart
  <2>2. /\ missing' \in [Deals -> 0..2] /\ booked' \in [Deals -> Nat]
        /\ counted' \in [Deals -> Nat] /\ failed' \in [Deals -> Nat]
        /\ last_trade' \in [Epics -> {-1} \cup 0..MaxClock]
    BY <1>3 DEF Restart
  <2>3. /\ pc' \in Awaits /\ idx' \in 1..(Len(Instruments) + 1)
        /\ signal' \in Directions \cup {None} /\ target' \in Deals \cup {0}
        /\ todo' \subseteq Deals /\ open_positions' \subseteq Deals
        /\ ControlInv'
    BY <1>0, <1>3 DEF Restart, ControlInv, InEpic, WithDeal, Awaits
  <2> QED
    BY <1>0, <1>3, <2>0, <2>1, <2>2, <2>3 DEF Restart, TypeInv, TypeOK
<1>4. CASE StartCycle \/ RefreshFails \/ ReconcileDone \/ EndCycle
  BY SMTT(60), <1>0, <1>4 DEF StartCycle, RefreshFails, ReconcileDone, EndCycle, TypeInv,
                    TypeOK, ControlInv, InEpic, WithDeal, Awaits
<1>5. CASE PositionsAnswer
  BY <1>0, <1>5 DEF PositionsAnswer, Live, TypeInv, TypeOK, ControlInv, InEpic,
                    WithDeal, Awaits
<1>6. CASE CountMissing
  <2>1. /\ missing' \in [Deals -> 0..2] /\ todo' \subseteq Deals
        /\ pc' \in {"epic", "history"}
    BY <1>6 DEF CountMissing
  <2> QED
    BY <1>0, <1>6, <2>1 DEF CountMissing, TypeInv, TypeOK, ControlInv, InEpic,
                            WithDeal, Awaits
<1>7. CASE HistoryAnswer
  BY <1>0, <1>7 DEF HistoryAnswer, Listed, TypeInv, TypeOK, ControlInv, InEpic,
                    WithDeal, Awaits
<1>8. ASSUME NEW d \in Deals, ReconcileDeal(d) PROVE TypeInv'
  <2>1. /\ db' \in [Deals -> {"none", "open", "closed"}]
        /\ failed' \in [Deals -> Nat]
    BY <1>8, PersistTypes DEF ReconcileDeal
  <2>2. /\ booked' \in [Deals -> Nat] /\ counted' \in [Deals -> Nat]
        /\ daily_pnl' \in Int
    <3>1. pnl[d] \in Int
      <4>1. pnl \in [Deals -> Pnls \cup {0}]
        BY <1>0 DEF TypeOK
      <4>2. Pnls \cup {0} \subseteq Int
        BY TradingLoopAssumption
      <4> QED
        BY <4>1, <4>2
    <3> QED
      BY <1>0, <1>8, <3>1 DEF ReconcileDeal, Book, TypeOK
  <2> QED
    <3>1. missing' \in [Deals -> 0..2] /\ todo' \subseteq Deals
      BY <1>0, <1>8 DEF ReconcileDeal, TypeOK
    <3> QED
      BY <1>0, <1>8, <2>1, <2>2, <3>1
         DEF ReconcileDeal, TypeInv, TypeOK, ControlInv
<1>9. CASE SkipEpic
  BY <1>0, <1>9, NextEpicTypes DEF SkipEpic, TypeInv, TypeOK
<1>10. CASE FlipExit
  BY <1>0, <1>10 DEF FlipExit, CachedOn, TypeInv, TypeOK, ControlInv, InEpic,
                     WithDeal, Awaits
<1>11. CASE ConsiderEntry
  BY <1>0, <1>11, GateTypes DEF ConsiderEntry, TypeInv, TypeOK
<1>12. CASE CloseAccepted
  <2>1. target \in Deals
    BY <1>0, <1>12 DEF CloseAccepted, ControlInv, WithDeal
  <2>2. PICK p \in Pnls : pnl' = [pnl EXCEPT ![target] = p] /\ Book(target, p)
    BY <1>12 DEF CloseAccepted
  <2>3. p \in Int
    BY TradingLoopAssumption
  <2>4. /\ booked' \in [Deals -> Nat] /\ counted' \in [Deals -> Nat]
        /\ daily_pnl' \in Int /\ pnl' \in [Deals -> Pnls \cup {0}]
    <3>1. pnl' \in [Deals -> Pnls \cup {0}]
      BY <1>0, <2>1, <2>2 DEF TypeOK
    <3>2. booked' \in [Deals -> Nat] /\ counted' \in [Deals -> Nat]
      BY <1>0, <2>1, <2>2 DEF Book, TypeOK
    <3>3. daily_pnl' \in Int
      BY <1>0, <2>2, <2>3 DEF Book, TypeOK
    <3> QED
      BY <3>1, <3>2, <3>3
  <2> QED
    BY <1>0, <1>12, <2>1, <2>4 DEF CloseAccepted, TypeInv, TypeOK, ControlInv,
                                   InEpic, WithDeal, Awaits
<1>13. CASE CloseNotAccepted \/ CloseRaises
  <2>1. target \in Deals /\ idx <= Len(Instruments)
    BY <1>0, <1>13 DEF CloseNotAccepted, CloseRaises, ControlInv, InEpic,
                       WithDeal
  <2>2. /\ broker' \in [Deals -> {"none", "open", "closed"}]
        /\ pnl' \in [Deals -> Pnls \cup {0}]
    BY <1>0, <1>13, <2>1, RealizeTypes
       DEF CloseNotAccepted, CloseRaises, TypeOK
  <2>3. CASE CloseNotAccepted
    BY <1>0, <2>1, <2>2, <2>3 DEF CloseNotAccepted, TypeInv, TypeOK,
                                  ControlInv, InEpic, WithDeal, Awaits
  <2>4. CASE CloseRaises
    BY <1>0, <2>1, <2>2, <2>4, NextEpicTypes DEF CloseRaises, TypeInv, TypeOK
  <2> QED
    BY <1>13, <2>3, <2>4
<1>14. CASE PersistFlipClose
  <2>1. target \in Deals /\ idx <= Len(Instruments)
    BY <1>0, <1>14 DEF PersistFlipClose, ControlInv, InEpic, WithDeal
  <2>2. /\ db' \in [Deals -> {"none", "open", "closed"}]
        /\ failed' \in [Deals -> Nat]
    BY <1>14, <2>1, PersistTypes DEF PersistFlipClose
  <2>3. CASE signal = None
    BY <1>0, <1>14, <2>1, <2>2, <2>3, NextEpicTypes
       DEF PersistFlipClose, TypeInv, TypeOK
  <2>4. CASE signal # None
    <3>1. signal \in Directions /\ Gate(Epic, signal)
      BY <1>0, <1>14, <2>4 DEF PersistFlipClose, TypeOK
    <3> QED
      BY <1>0, <1>14, <2>1, <2>2, <3>1, GateTypes
         DEF PersistFlipClose, TypeInv, TypeOK
  <2> QED
    BY <2>3, <2>4
<1>15. CASE RiskApproves
  BY <1>0, <1>15 DEF RiskApproves, TypeInv, TypeOK, ControlInv, InEpic,
                     WithDeal, Awaits
<1>16. CASE RiskRejects
  <2>1. idx <= Len(Instruments)
    BY <1>0, <1>16 DEF RiskRejects, ControlInv, InEpic
  <2> QED
    <3>1. fills_killed' \in Nat
      BY <1>0, <1>16 DEF RiskRejects, TypeOK
    <3>2. kill' \in BOOLEAN
      BY <1>0, <1>16, Zenon DEF RiskRejects, TypeOK
    <3> QED
      BY <1>0, <1>16, <2>1, <3>1, <3>2, NextEpicTypes DEF RiskRejects, TypeInv, TypeOK
<1>17. CASE NewsDecides
  <2>1. idx <= Len(Instruments)
    BY <1>0, <1>17 DEF NewsDecides, ControlInv, InEpic
  <2>2. CASE NextEpic
    BY <1>0, <1>17, <2>1, <2>2, NextEpicTypes DEF NewsDecides, TypeInv, TypeOK
  <2>3. CASE pc' = "placing" /\ UNCHANGED <<idx, signal, target>>
    BY <1>0, <1>17, <2>1, <2>3 DEF NewsDecides, TypeInv, TypeOK, ControlInv,
                                   InEpic, WithDeal, Awaits
  <2> QED
    BY <1>17, <2>2, <2>3 DEF NewsDecides
<1>18. CASE OrderRefused \/ OrderOutcomeLost
  <2>1. idx <= Len(Instruments)
    BY <1>0, <1>18 DEF OrderRefused, OrderOutcomeLost, ControlInv, InEpic
  <2> QED
    BY <1>0, <1>18, <2>1, NextEpicTypes
       DEF OrderRefused, OrderOutcomeLost, TypeInv, TypeOK
<1>19. ASSUME NEW d \in Deals, BrokerFills(d) PROVE TypeInv'
  <2>1. idx <= Len(Instruments)
    BY <1>0, <1>19 DEF BrokerFills, ControlInv, InEpic
  <2>2. [epic |-> Epic, direction |-> signal]
          \in [epic : Epics \cup {None}, direction : Directions \cup {None}]
    BY <1>0, <2>1 DEF TypeOK
  <2>3. /\ deal' \in [Deals -> [epic : Epics \cup {None},
                                direction : Directions \cup {None}]]
        /\ broker' \in [Deals -> {"none", "open", "closed"}]
    BY <1>0, <1>19, <2>2 DEF BrokerFills, TypeOK
  <2> QED
    BY SMTT(30), <1>0, <1>19, <2>1, <2>3 DEF BrokerFills, TypeInv, TypeOK, ControlInv,
                                   InEpic, WithDeal, Awaits
<1>20. CASE OrderAccepted \/ OrderWithoutLevel
  <2>1. target \in Deals /\ idx <= Len(Instruments)
    BY <1>0, <1>20 DEF OrderAccepted, OrderWithoutLevel, ControlInv, InEpic,
                       WithDeal
  <2>2. /\ last_trade' \in [Epics -> {-1} \cup 0..MaxClock]
        /\ accepted_at' \in [Deals -> {-1} \cup 0..MaxClock]
        /\ daily_date' \in Int /\ daily_count' \in Nat /\ daily_pnl' \in Int
        /\ counted' \in [Deals -> Nat]
    <3>1. CountAcceptedTrade /\ clock \in 0..MaxClock /\ Epic \in Epics
      BY <1>0, <1>20, <2>1 DEF OrderAccepted, OrderWithoutLevel, TypeOK
    <3>2. last_trade' \in [Epics -> {-1} \cup 0..MaxClock]
      BY <1>0, <3>1 DEF CountAcceptedTrade, TypeOK
    <3>3. accepted_at' \in [Deals -> {-1} \cup 0..MaxClock]
      BY <1>0, <2>1, <3>1 DEF CountAcceptedTrade, TypeOK
    <3>4. /\ daily_date' \in Int /\ daily_count' \in Nat /\ daily_pnl' \in Int
          /\ counted' \in [Deals -> Nat]
      BY <1>0, <3>1 DEF CountAcceptedTrade
    <3> QED
      BY <3>2, <3>3, <3>4
  <2>3. CASE OrderAccepted
    BY <1>0, <2>1, <2>2, <2>3 DEF OrderAccepted, TypeInv, TypeOK, ControlInv,
                                  InEpic, WithDeal, Awaits
  <2>4. CASE OrderWithoutLevel
    BY <1>0, <2>1, <2>2, <2>4, NextEpicTypes
       DEF OrderWithoutLevel, TypeInv, TypeOK
  <2> QED
    BY <1>20, <2>3, <2>4
<1>21. CASE PersistOpen
  <2>1. idx <= Len(Instruments)
    BY <1>0, <1>21 DEF PersistOpen, ControlInv, InEpic
  <2> QED
    BY ZenonT(60), <1>0, <1>21, <2>1, NextEpicTypes DEF PersistOpen, TypeInv, TypeOK
<1>22. CASE UNCHANGED vars
  BY <1>0, <1>22 DEF TypeInv, TypeOK, ControlInv
<1> QED
  BY <1>1, <1>1a, <1>1b, <1>2, <1>3, <1>4, <1>5, <1>6, <1>7, <1>8, <1>9, <1>10,
     <1>11, <1>12, <1>13, <1>14, <1>15, <1>16, <1>17, <1>18, <1>19, <1>20, <1>21,
     <1>22 DEF Next, Environment, Refresh, Trade

\* Hence the types hold in every reachable state.
LEMMA TypeInvHolds == Spec => []TypeInv
<1> QED
  BY InitTypes, NextTypes, PTL DEF Spec

\* Type correctness of the trading cycle: the loop never indexes past its last
\* instrument and never closes, books or persists without a deal in hand.
THEOREM TypeCorrect == Spec => []TypeOK
<1>1. TypeInv => TypeOK
  BY DEF TypeInv
<1> QED
  BY TypeInvHolds, <1>1, PTL

-----------------------------------------------------------------------------
(* The cooldown between two entries on one instrument.                     *)

Entering == {"risk", "news", "placing", "confirming"}

\* Deals are opened in the order of their numbers.
DealsInOrder ==
    \A c, d \in Deals : c < d /\ broker[d] # "none" => broker[c] # "none"

\* _last_trade_time_by_epic is no older than any accepted entry of the epic.
LastTradeCovers ==
    \A d \in Deals : accepted_at[d] # -1 =>
        /\ broker[d] # "none"
        /\ deal[d].epic \in Epics
        /\ accepted_at[d] <= last_trade[deal[d].epic]

\* Between the gate and the answer of the broker the cooldown stays elapsed.
CooldownElapsed ==
    pc \in Entering =>
        last_trade[Epic] = -1 \/ clock - last_trade[Epic] >= Cooldown

\* The deal being confirmed is the youngest, and it is one of this epic.
ConfirmingLast ==
    pc = "confirming" =>
        /\ broker[target] # "none" /\ deal[target].epic = Epic
        /\ \A c \in Deals : c > target => broker[c] = "none"

CoolInv == /\ DealsInOrder /\ LastTradeCovers /\ CooldownElapsed
           /\ ConfirmingLast /\ CooldownKept

\* A step that opens no deal, accepts none and passes no gate.
Quiet ==
    /\ UNCHANGED <<accepted_at, deal, last_trade>>
    /\ clock' >= clock
    /\ \A d \in Deals : broker'[d] = "none" <=> broker[d] = "none"
    /\ \/ pc' \notin Entering
       \/ /\ pc \in Entering /\ idx' = idx
          /\ pc' = "confirming" => pc = "confirming" /\ target' = target

\* A signal passes the entry gate.
Passes ==
    /\ UNCHANGED <<accepted_at, deal, last_trade, clock, broker, idx>>
    /\ pc' = "risk"
    /\ last_trade[Epic] = -1 \/ clock - last_trade[Epic] >= Cooldown

\* The broker's ACCEPTED is processed.
Accepts ==
    /\ pc = "confirming" /\ pc' \notin Entering
    /\ CountAcceptedTrade
    /\ UNCHANGED <<clock, broker, deal>>

\* The entry gate lets a signal pass only after the cooldown.
LEMMA GateKinds ==
    ASSUME TypeInv, NEW dir \in Directions, Gate(Epic, dir),
           idx <= Len(Instruments),
           UNCHANGED <<accepted_at, deal, last_trade, clock, broker>>
    PROVE  Quiet \/ Passes
<1>1. last_trade[Epic] \in Int /\ clock \in Int /\ Cooldown \in Int
  <2>1. /\ last_trade \in [Epics -> {-1} \cup 0..MaxClock]
        /\ clock \in 0..MaxClock
    BY DEF TypeInv, TypeOK
  <2>2. Epic \in Epics /\ MaxClock \in Nat
    BY Basics
  <2>3. Cooldown \in Nat
    BY TradingLoopAssumption
  <2> QED
    BY <2>1, <2>2, <2>3
<1>2. CASE NextEpic
  BY <1>1, <1>2 DEF Quiet, NextEpic, Entering
<1>3. ASSUME NEW ok \in Markets, ~GateRejects(Epic, dir, ok),
             pc' = "risk", UNCHANGED idx
      PROVE  Passes
  BY <1>1, <1>3 DEF Passes, GateRejects, OtherGatesReject
<1> QED
  BY <1>2, <1>3 DEF Gate

\* Without a restart every step is quiet, passes the gate, opens a deal or
\* accepts one.
LEMMA CoolKinds ==
    ASSUME TypeInv, [Next]_vars, "restart" \notin Faults
    PROVE  Quiet \/ Passes \/ Accepts \/ \E d \in Deals : BrokerFills(d)
<1> USE DEF vars, brokerVars, dailyVars, memoryVars, localVars, bookVars,
       historyVars
<1>0. /\ TypeOK /\ ControlInv /\ clock \in Int
  BY DEF TypeInv, TypeOK
<1>1. ASSUME NEW d \in Deals, BrokerCloses(d) \/ ApiClose(d) PROVE Quiet
  <2>1. broker' = [broker EXCEPT ![d] = "closed"] /\ broker[d] = "open"
    BY <1>1 DEF BrokerCloses, ApiClose, Realize
  <2>2. \A c \in Deals : broker'[c] = "none" <=> broker[c] = "none"
    BY <1>0, <2>1 DEF TypeOK
  <2> QED
    BY <1>0, <1>1, <2>2 DEF BrokerCloses, ApiClose, Quiet
<1>1a. ASSUME NEW d \in Deals, ApiPersist(d) \/ TransactionExpires(d) PROVE Quiet
  BY <1>0, <1>1a DEF ApiPersist, TransactionExpires, Quiet
<1>2. CASE ActivateKillSwitch \/ DeactivateKillSwitch \/ Tick
  BY <1>0, <1>2 DEF ActivateKillSwitch, DeactivateKillSwitch, Tick, Quiet
<1>3. CASE StartCycle \/ PositionsAnswer \/ RefreshFails \/ ReconcileDone
           \/ HistoryAnswer
  BY <1>0, <1>3 DEF StartCycle, PositionsAnswer, RefreshFails, ReconcileDone,
                    HistoryAnswer, Quiet, Entering
<1>4. CASE CountMissing
  <2>1. pc' \in {"epic", "history"}
    BY <1>4 DEF CountMissing
  <2> QED
    BY <1>0, <1>4, <2>1 DEF CountMissing, Quiet, Entering
<1>5. ASSUME NEW d \in Deals, ReconcileDeal(d) PROVE Quiet
  BY <1>0, <1>5 DEF ReconcileDeal, Quiet, Entering
<1>6. CASE SkipEpic \/ FlipExit \/ EndCycle \/ OrderRefused
           \/ OrderOutcomeLost \/ PersistOpen \/ RiskRejects
  BY <1>0, <1>6 DEF SkipEpic, FlipExit, EndCycle, OrderRefused,
       OrderOutcomeLost, PersistOpen, RiskRejects, NextEpic, Quiet, Entering
<1>7. CASE RiskApproves \/ NewsDecides
  BY <1>0, <1>7 DEF RiskApproves, NewsDecides, NextEpic, Quiet, Entering
<1>8. CASE ConsiderEntry
  BY <1>0, <1>8, GateKinds DEF ConsiderEntry
<1>9. CASE CloseAccepted \/ CloseNotAccepted \/ CloseRaises
  <2>1. \/ broker' = broker
        \/ broker[target] = "open" /\ broker' = [broker EXCEPT ![target] = "closed"]
    BY <1>9 DEF CloseAccepted, CloseNotAccepted, CloseRaises, Realize
  <2>2. \A c \in Deals : broker'[c] = "none" <=> broker[c] = "none"
    BY <1>0, <2>1 DEF TypeOK
  <2>3. pc' \notin Entering
    BY <1>9 DEF CloseAccepted, CloseNotAccepted, CloseRaises, NextEpic,
                Entering
  <2> QED
    BY <1>0, <1>9, <2>2, <2>3 DEF CloseAccepted, CloseNotAccepted, CloseRaises,
                                  Book, Quiet
<1>10. CASE PersistFlipClose
  <2>1. CASE signal = None
    BY <1>0, <1>10, <2>1 DEF PersistFlipClose, NextEpic, Quiet, Entering
  <2>2. CASE signal # None
    <3>1. signal \in Directions /\ Gate(Epic, signal) /\ idx <= Len(Instruments)
      BY <1>0, <1>10, <2>2 DEF PersistFlipClose, TypeOK, ControlInv, InEpic
    <3> QED
      BY <1>10, <3>1, GateKinds DEF PersistFlipClose
  <2> QED
    BY <2>1, <2>2
<1>11. CASE OrderAccepted \/ OrderWithoutLevel
  BY <1>11 DEF OrderAccepted, OrderWithoutLevel, NextEpic, Accepts, Entering
<1>12. CASE UNCHANGED vars
  BY <1>0, <1>12 DEF Quiet
<1>13. ~Restart
  BY DEF Restart
<1> QED
  BY <1>1, <1>1a, <1>2, <1>3, <1>4, <1>5, <1>6, <1>7, <1>8, <1>9, <1>10, <1>11,
     <1>12, <1>13 DEF Next, Environment, Refresh, Trade

\* Each of the four kinds of steps keeps the cooldown invariant.
LEMMA CoolStep ==
    ASSUME TypeInv, CoolInv, [Next]_vars, "restart" \notin Faults
    PROVE  CoolInv'
<1>0. /\ TypeOK /\ ControlInv /\ TypeOK' /\ ControlInv'
      /\ clock \in Int /\ clock' \in Int /\ Cooldown \in Int
      /\ idx <= Len(Instruments) => Epic \in Epics
  <2>1. TypeOK /\ ControlInv /\ TypeOK' /\ ControlInv'
    BY NextTypes DEF TypeInv
  <2>2. clock \in Int /\ clock' \in Int /\ Cooldown \in Int
    BY <2>1, TradingLoopAssumption DEF TypeOK
  <2> QED
    BY <2>1, <2>2, Basics
<1>a. \A e \in Epics : last_trade[e] \in Int
  BY <1>0, TradingLoopAssumption DEF TypeOK
<1>b. Deals \subseteq Int /\ \A d \in Deals : accepted_at[d] \in Int
  <2>1. MaxDeals \in Nat /\ MaxClock \in Nat
    BY TradingLoopAssumption
  <2>2. Deals \subseteq Int
    BY <2>1 DEF Deals
  <2>3. \A d \in Deals : accepted_at[d] \in {-1} \cup 0..MaxClock
    BY <1>0 DEF TypeOK
  <2> QED
    BY <2>1, <2>2, <2>3
<1>1. CASE Quiet
  <2>1. DealsInOrder'
    BY <1>1 DEF Quiet, CoolInv, DealsInOrder
  <2>2. LastTradeCovers'
    BY <1>1 DEF Quiet, CoolInv, LastTradeCovers
  <2>3. CooldownElapsed'
    <3> SUFFICES ASSUME pc' \in Entering
                 PROVE  (last_trade[Epic] = -1
                           \/ clock - last_trade[Epic] >= Cooldown)'
      BY DEF CooldownElapsed
    <3>1. /\ pc \in Entering /\ Epic' = Epic /\ last_trade' = last_trade
          /\ clock' >= clock
      BY <1>1 DEF Quiet, Epic
    <3>2. last_trade[Epic] \in Int
      BY <1>0, <1>a, <3>1 DEF ControlInv, InEpic, Entering
    <3>3. last_trade[Epic] = -1 \/ clock - last_trade[Epic] >= Cooldown
      BY <3>1 DEF CoolInv, CooldownElapsed
    <3> QED
      BY <1>0, <3>1, <3>2, <3>3
  <2>4. ConfirmingLast'
    <3> SUFFICES ASSUME pc' = "confirming" PROVE ConfirmingLast'
      BY DEF ConfirmingLast
    <3>1. /\ pc = "confirming" /\ target' = target /\ Epic' = Epic
          /\ deal' = deal
      BY <1>1 DEF Quiet, Entering, Epic
    <3>2. target \in Deals
      BY <1>0, <3>1 DEF ControlInv, WithDeal
    <3> QED
      BY <1>1, <3>1, <3>2 DEF Quiet, CoolInv, ConfirmingLast
  <2>5. CooldownKept'
    BY <1>1 DEF Quiet, CoolInv, CooldownKept
  <2> QED
    BY <2>1, <2>2, <2>3, <2>4, <2>5 DEF CoolInv
<1>2. CASE Passes
  BY <1>2 DEF Passes, CoolInv, DealsInOrder, LastTradeCovers, CooldownElapsed,
              ConfirmingLast, CooldownKept, Epic
<1>3. CASE Accepts
  <2>1. /\ target \in Deals /\ Epic \in Epics
        /\ broker[target] # "none" /\ deal[target].epic = Epic
        /\ \A c \in Deals : c > target => broker[c] = "none"
    BY <1>0, <1>3 DEF Accepts, CoolInv, ConfirmingLast, ControlInv, InEpic,
                      WithDeal
  <2>2. /\ broker' = broker /\ deal' = deal /\ clock' = clock
        /\ last_trade' = [last_trade EXCEPT ![Epic] = clock]
        /\ accepted_at' = [accepted_at EXCEPT ![target] = clock]
    BY <1>3 DEF Accepts, CountAcceptedTrade
  <2>3. /\ \A d \in Deals : accepted_at'[d] =
             IF d = target THEN clock ELSE accepted_at[d]
        /\ \A e \in Epics : last_trade'[e] =
             IF e = Epic THEN clock ELSE last_trade[e]
    BY <1>0, <2>2 DEF TypeOK
  <2>4. last_trade[Epic] = -1 \/ clock - last_trade[Epic] >= Cooldown
    BY <1>3 DEF Accepts, CoolInv, CooldownElapsed, Entering
  <2>5. clock >= 0 /\ Cooldown >= 0 /\ last_trade[Epic] \in Int
    BY <1>0, <1>a, <2>1, TradingLoopAssumption DEF TypeOK
  <2>6. \A d \in Deals : accepted_at[d] >= -1
    <3>1. \A d \in Deals : accepted_at[d] \in {-1} \cup 0..MaxClock
      BY <1>0 DEF TypeOK
    <3> QED
      BY <3>1, TradingLoopAssumption
  <2>7. \A d \in Deals :
          accepted_at[d] # -1 /\ deal[d].epic = Epic =>
              /\ d <= target
              /\ accepted_at[d] <= clock
              /\ clock - accepted_at[d] >= Cooldown
    <3> SUFFICES ASSUME NEW d \in Deals, accepted_at[d] # -1,
                        deal[d].epic = Epic
                 PROVE  /\ d <= target
                        /\ accepted_at[d] <= clock
                        /\ clock - accepted_at[d] >= Cooldown
      OBVIOUS
    <3>1. broker[d] # "none" /\ accepted_at[d] <= last_trade[Epic]
      BY DEF CoolInv, LastTradeCovers
    <3>2. d <= target
      BY <1>b, <2>1, <3>1
    <3>3. accepted_at[d] \in Int /\ accepted_at[d] >= 0
      BY <1>b, <2>6
    <3> QED
      BY <1>0, <2>4, <2>5, <3>1, <3>2, <3>3
  <2>8. LastTradeCovers'
    <3> SUFFICES ASSUME NEW d \in Deals, accepted_at'[d] # -1
                 PROVE  /\ broker[d] # "none" /\ deal[d].epic \in Epics
                        /\ accepted_at'[d] <= last_trade'[deal[d].epic]
      BY <2>2 DEF LastTradeCovers
    <3>1. CASE d = target
      BY <1>0, <2>1, <2>3, <3>1
    <3>2. CASE d # target
      <4>1. /\ accepted_at[d] # -1 /\ accepted_at'[d] = accepted_at[d]
            /\ broker[d] # "none" /\ deal[d].epic \in Epics
            /\ accepted_at[d] <= last_trade[deal[d].epic]
        BY <2>3, <3>2 DEF CoolInv, LastTradeCovers
      <4>2. CASE deal[d].epic = Epic
        BY <2>1, <2>3, <2>7, <4>1, <4>2
      <4>3. CASE deal[d].epic # Epic
        BY <2>3, <4>1, <4>3
      <4> QED
        BY <4>1, <4>2, <4>3
    <3> QED
      BY <3>1, <3>2
  <2>9. CooldownKept'
    <3> SUFFICES ASSUME NEW c \in Deals, NEW d \in Deals, c < d,
                        accepted_at'[c] # -1, accepted_at'[d] # -1,
                        deal[c].epic = deal[d].epic
                 PROVE  accepted_at'[d] - accepted_at'[c] >= Cooldown
      BY <2>2 DEF CooldownKept
    <3>1. CASE d = target
      <4>1. c # target
        BY <1>b, <3>1
      <4> QED
        BY <2>1, <2>3, <2>7, <3>1, <4>1
    <3>2. CASE c = target
      <4>1. d # target /\ ~(d <= target)
        BY <1>b, <3>2
      <4> QED
        BY <2>1, <2>3, <2>7, <3>2, <4>1
    <3>3. CASE c # target /\ d # target
      BY <2>3, <3>3 DEF CoolInv, CooldownKept
    <3> QED
      BY <3>1, <3>2, <3>3
  <2>10. DealsInOrder' /\ CooldownElapsed' /\ ConfirmingLast'
    <3>1. pc' \notin Entering
      BY <1>3 DEF Accepts
    <3> QED
      BY <2>2, <3>1
         DEF CoolInv, DealsInOrder, CooldownElapsed, ConfirmingLast, Entering
  <2> QED
    BY <2>8, <2>9, <2>10 DEF CoolInv
<1>4. ASSUME NEW d \in Deals, BrokerFills(d) PROVE CoolInv'
  <2>1. /\ pc = "placing" /\ pc' = "confirming" /\ target' = d
        /\ broker[d] = "none" /\ \A c \in Deals : c < d => broker[c] # "none"
        /\ broker' = [broker EXCEPT ![d] = "open"]
        /\ deal' = [deal EXCEPT ![d] = [epic |-> Epic, direction |-> signal]]
        /\ UNCHANGED <<clock, last_trade, accepted_at, idx>>
    BY <1>4 DEF BrokerFills, memoryVars
  <2>2. /\ \A c \in Deals : c # d => broker'[c] = broker[c]
        /\ \A c \in Deals : c # d => deal'[c] = deal[c]
        /\ broker'[d] = "open"
        /\ deal'[d].epic = Epic
    BY <1>0, <2>1 DEF TypeOK
  <2>3. accepted_at[d] = -1
    BY <2>1 DEF CoolInv, LastTradeCovers
  <2>4. \A c \in Deals : c > d => broker[c] = "none"
    BY <1>b, <2>1 DEF CoolInv, DealsInOrder
  <2>5. DealsInOrder'
    BY <1>b, <2>1, <2>2, <2>4 DEF CoolInv, DealsInOrder
  <2>6. LastTradeCovers'
    BY <2>1, <2>2, <2>3 DEF CoolInv, LastTradeCovers
  <2>7. CooldownElapsed'
    BY <2>1 DEF CoolInv, CooldownElapsed, Entering, Epic
  <2>8. ConfirmingLast'
    <3>1. Epic' = Epic
      BY <2>1 DEF Epic
    <3>2. \A c \in Deals : c > d => broker'[c] = "none"
      <4>1. \A c \in Deals : c > d => c # d
        BY <1>b
      <4> QED
        BY <2>2, <2>4, <4>1
    <3> QED
      BY <2>1, <2>2, <3>1, <3>2 DEF ConfirmingLast
  <2>9. CooldownKept'
    <3> SUFFICES ASSUME NEW b \in Deals, NEW c \in Deals, b < c,
                        accepted_at[b] # -1, accepted_at[c] # -1,
                        deal'[b].epic = deal'[c].epic
                 PROVE  accepted_at[c] - accepted_at[b] >= Cooldown
      BY <2>1 DEF CooldownKept
    <3>1. b # d /\ c # d
      BY <2>3
    <3> QED
      BY <2>2, <3>1 DEF CoolInv, CooldownKept
  <2> QED
    BY <2>5, <2>6, <2>7, <2>8, <2>9 DEF CoolInv
<1> QED
  BY <1>1, <1>2, <1>3, <1>4, CoolKinds

\* As long as the process is not restarted, two accepted entries on one
\* instrument are at least the cooldown apart, for every cooldown, every list
\* of instruments and every other fault, although the loop tests the cooldown
\* several awaits before the broker answers.
THEOREM CooldownIsKept == ASSUME "restart" \notin Faults
                          PROVE  Spec => []CooldownKept
<1>1. Init => CoolInv
  BY DEF Init, CoolInv, DealsInOrder, LastTradeCovers, CooldownElapsed,
         ConfirmingLast, CooldownKept, Entering
<1>2. TypeInv /\ CoolInv /\ [Next]_vars => CoolInv'
  BY CoolStep
<1>3. CoolInv => CooldownKept
  BY DEF CoolInv
<1> QED
  BY <1>1, <1>2, <1>3, TypeInvHolds, PTL DEF Spec

-----------------------------------------------------------------------------
(* Reconciliation, and what it books.                                      *)

\* A close of the API follows the broker's; the work list of the reconciliation
\* holds persisted deals, and while it is worked off only deals with a transaction.
TodoInv ==
    /\ \A d \in api : broker[d] = "closed"
    /\ \A d \in todo : db[d] # "none"
    /\ pc = "reconcile" => \A d \in todo : broker[d] = "closed"
    /\ pc \notin {"history", "reconcile"} => todo = {}

\* A deal is booked once its close is known.  One that was booked more often than
\* commits of its close failed has its row closed, or the flip exit that booked it is
\* about to close it; one still to be reconciled was not, and one just opened was not
\* booked at all.
BookInv ==
    /\ BookedOnce
    /\ \A d \in Deals : booked[d] # 0 => broker[d] = "closed"
    /\ \A d \in Deals : booked[d] <= failed[d] \/ db[d] # "open"
                             \/ (pc = "persist_close" /\ target = d)
    /\ pc \in {"confirming", "persist_open"} => booked[target] = 0
    /\ \A d \in todo : booked[d] <= failed[d]

\* _persist_closed_trade closes the row of the deal, and no other, when there is one.
LEMMA PersistsOwnRow ==
    ASSUME TypeInv, NEW d \in Deals, PersistClose(d)
    PROVE  /\ \A c \in Deals : db'[c] = db[c] \/ db'[c] = "closed"
           /\ \A c \in Deals : db'[c] # "none" <=> db[c] # "none"
           /\ \A c \in Deals : db[d] # "none" /\ c # d => db'[c] = db[c]
           /\ db[d] = "none" => db'[d] = "none"
           /\ \/ UNCHANGED failed /\ (db[d] # "none" => db'[d] = "closed")
              \/ failed' = [failed EXCEPT ![d] = @ + 1]
<1>1. db \in [Deals -> {"none", "open", "closed"}]
  BY DEF TypeInv, TypeOK
<1>2. CASE db' = db /\ failed' = failed /\ PersistedRows(d) = {}
  <2>1. PersistedRows(d) = {} => db[d] = "none"
    BY DEF PersistedRows
  <2> QED
    BY <1>1, <1>2, <2>1
<1>4. CASE db' = db /\ failed' = [failed EXCEPT ![d] = @ + 1]
  BY <1>1, <1>4
<1>3. ASSUME NEW r \in PersistedRows(d), db' = [db EXCEPT ![r] = "closed"]
      PROVE  /\ \A c \in Deals : db'[c] = db[c] \/ db'[c] = "closed"
             /\ \A c \in Deals : db'[c] # "none" <=> db[c] # "none"
             /\ \A c \in Deals : db[d] # "none" /\ c # d => db'[c] = db[c]
             /\ db[d] # "none" => db'[d] = "closed"
             /\ db[d] = "none" => db'[d] = "none"
  <2>1. /\ r \in Deals /\ db[r] # "none"
        /\ db[d] # "none" => r = d
    BY <1>3 DEF PersistedRows
  <2>2. \A c \in Deals : db'[c] = IF c = r THEN "closed" ELSE db[c]
    BY <1>1, <1>3
  <2> QED
    BY <2>1, <2>2
<1> QED
  BY <1>2, <1>3, <1>4 DEF PersistClose

\* What the steps do to the broker and to the rows: an open deal may be closed, a deal
\* may be opened, a new row appears when the loop persists the deal it opened.
LEMMA TodoStep == TypeInv /\ TodoInv /\ [Next]_vars => TodoInv'
<1> SUFFICES ASSUME TypeInv, TodoInv, [Next]_vars PROVE TodoInv'
  OBVIOUS
<1> USE DEF vars, brokerVars, dailyVars, memoryVars, localVars, bookVars,
       historyVars
<1>0. /\ broker \in [Deals -> {"none", "open", "closed"}]
      /\ db \in [Deals -> {"none", "open", "closed"}]
      /\ api \subseteq Deals /\ todo \subseteq Deals /\ pc \in Awaits
      /\ pc \in WithDeal => target \in Deals
  BY DEF TypeInv, TypeOK, ControlInv
\* Nothing but the place of the loop changes, or a deal is closed at the broker.
<1>a. ASSUME \A d \in Deals : broker[d] = "closed" => broker'[d] = "closed",
             \A d \in Deals : db[d] # "none" => db'[d] # "none",
             \A d \in api' : d \in api \/ (d \in Deals /\ broker'[d] = "closed"),
             \/ todo' = todo /\ pc' = pc
             \/ todo' = {}
             \/ todo' = todo /\ pc \notin {"history", "reconcile"} /\ pc' # "reconcile"
      PROVE  TodoInv'
  BY <1>0, <1>a DEF TodoInv
<1>b. ASSUME NEW d \in Deals, Realize(d)
      PROVE  \A c \in Deals : broker[c] = "closed" \/ c = d => broker'[c] = "closed"
  BY <1>0, <1>b DEF Realize
<1>c. NextEpic => pc' = "epic"
  BY DEF NextEpic
<1>1. ASSUME NEW d \in Deals, BrokerCloses(d) \/ ApiClose(d) PROVE TodoInv'
  BY <1>1, <1>a, <1>b DEF BrokerCloses, ApiClose
<1>2. ASSUME NEW d \in Deals, ApiPersist(d) PROVE TodoInv'
  <2>1. \A c \in Deals : db[c] # "none" => db'[c] # "none"
    BY <1>0, <1>2 DEF ApiPersist
  <2> QED
    BY <1>2, <2>1, <1>a DEF ApiPersist
<1>2a. ASSUME NEW d \in Deals, TransactionExpires(d) PROVE TodoInv'
  BY <1>2a, <1>a DEF TransactionExpires
<1>3. CASE ActivateKillSwitch \/ DeactivateKillSwitch \/ Tick \/ UNCHANGED vars
  BY <1>3, <1>a DEF ActivateKillSwitch, DeactivateKillSwitch, Tick
<1>4. CASE Restart
  BY <1>4, <1>a DEF Restart
<1>5. CASE StartCycle \/ PositionsAnswer \/ RefreshFails \/ ReconcileDone
  BY <1>5, <1>a DEF StartCycle, PositionsAnswer, RefreshFails, ReconcileDone
<1>6. CASE CountMissing
  <2>1. /\ pc' = IF todo' = {} THEN "epic" ELSE "history"
        /\ \A d \in todo' : db[d] = "open"
        /\ UNCHANGED <<api, broker, db>>
    BY <1>6 DEF CountMissing
  <2> QED
    BY <2>1 DEF TodoInv
<1>7. CASE HistoryAnswer
  BY <1>7 DEF HistoryAnswer, Listed, TodoInv
<1>8. ASSUME NEW d \in Deals, ReconcileDeal(d) PROVE TodoInv'
  <2>1. \A c \in Deals : db'[c] # "none" <=> db[c] # "none"
    BY <1>8, PersistsOwnRow DEF ReconcileDeal
  <2> QED
    BY <1>0, <1>8, <2>1 DEF ReconcileDeal, TodoInv
<1>9. CASE SkipEpic \/ FlipExit \/ EndCycle \/ RiskApproves \/ RiskRejects \/ NewsDecides
           \/ OrderRefused \/ OrderAccepted \/ OrderWithoutLevel \/ OrderOutcomeLost
  BY <1>9, <1>a, <1>c DEF SkipEpic, FlipExit, EndCycle, RiskApproves, RiskRejects, NewsDecides,
     OrderRefused, OrderAccepted, OrderWithoutLevel, OrderOutcomeLost
<1>10. CASE ConsiderEntry
  BY <1>10, <1>a, <1>c DEF ConsiderEntry, Gate
<1>11. CASE CloseAccepted \/ CloseNotAccepted \/ CloseRaises
  <2>1. target \in Deals /\ pc = "closing"
    BY <1>0, <1>11 DEF CloseAccepted, CloseNotAccepted, CloseRaises, WithDeal
  <2>2. \A c \in Deals : broker[c] = "closed" => broker'[c] = "closed"
    BY <1>0, <1>11, <1>b, <2>1 DEF CloseAccepted, CloseNotAccepted, CloseRaises
  <2>3. pc' \in {"persist_close", "epic"}
    BY <1>11 DEF CloseAccepted, CloseNotAccepted, CloseRaises, NextEpic
  <2> QED
    BY <1>11, <1>a, <2>1, <2>2, <2>3 DEF CloseAccepted, CloseNotAccepted, CloseRaises
<1>12. CASE PersistFlipClose
  <2>1. \A c \in Deals : db'[c] # "none" <=> db[c] # "none"
    BY <1>0, <1>12, PersistsOwnRow DEF PersistFlipClose, WithDeal
  <2>2. pc' \in {"epic", "risk"}
    BY <1>12 DEF PersistFlipClose, NextEpic, Gate
  <2> QED
    BY <1>12, <1>a, <2>1, <2>2 DEF PersistFlipClose
<1>13. ASSUME NEW d \in Deals, BrokerFills(d) PROVE TodoInv'
  <2>1. \A c \in Deals : broker[c] = "closed" => broker'[c] = "closed"
    BY <1>0, <1>13 DEF BrokerFills
  <2> QED
    BY <1>13, <1>a, <2>1 DEF BrokerFills
<1>14. CASE PersistOpen
  <2>1. \A c \in Deals : db[c] # "none" => db'[c] # "none"
    BY <1>0, <1>14 DEF PersistOpen
  <2> QED
    BY <1>14, <1>a, <1>c, <2>1 DEF PersistOpen
<1> QED
  BY <1>1, <1>2, <1>2a, <1>3, <1>4, <1>5, <1>6, <1>7, <1>8, <1>9, <1>10, <1>11,
     <1>12, <1>13, <1>14 DEF Next, Environment, Refresh, Trade

\* Hence it holds in every reachable state.
LEMMA TodoInvHolds == Spec => []TodoInv
<1>1. Init => TodoInv
  BY DEF Init, TodoInv
<1> QED
  BY <1>1, TodoStep, TypeInvHolds, PTL DEF Spec

\* Reconciliation closes a persisted trade only after the broker closed the deal, and
\* so does the API's close when it commits meanwhile: for every delay of the positions
\* list and of the transaction history, every fault, and across restarts.
THEOREM ReconciledWasClosed == Spec => ReconcileOnlyClosed
<1> DEFINE Rec == pc = "reconcile" =>
                    \A d \in Deals : db[d] = "open" /\ db'[d] = "closed" =>
                                        broker'[d] = "closed"
<1>1. TypeInv /\ TodoInv /\ [Next]_vars => [Rec]_vars
  <2> SUFFICES ASSUME TypeInv, TodoInv, [Next]_vars, pc = "reconcile",
                      NEW d \in Deals, db[d] = "open", db'[d] = "closed"
               PROVE  broker'[d] = "closed"
    OBVIOUS
  <2> USE DEF vars, brokerVars, dailyVars, memoryVars, localVars, bookVars,
       historyVars
  <2>0. /\ broker \in [Deals -> {"none", "open", "closed"}]
        /\ db \in [Deals -> {"none", "open", "closed"}]
        /\ todo \subseteq Deals
    BY DEF TypeInv, TypeOK
  <2>1. \/ \E c \in Deals : ApiPersist(c) \/ ReconcileDeal(c)
        \/ db' = db
    BY DEF Next, Environment, Refresh, Trade, BrokerCloses, ApiClose, TransactionExpires, ActivateKillSwitch,
       DeactivateKillSwitch, Tick, Restart, StartCycle, PositionsAnswer, RefreshFails,
       CountMissing, HistoryAnswer, ReconcileDone, SkipEpic, FlipExit, ConsiderEntry,
       EndCycle, CloseAccepted, CloseNotAccepted, CloseRaises, PersistFlipClose,
       RiskApproves, RiskRejects, NewsDecides, OrderRefused, OrderAccepted,
       OrderWithoutLevel, OrderOutcomeLost, PersistOpen, BrokerFills
  <2>2. ASSUME NEW c \in Deals, ApiPersist(c) PROVE broker'[d] = "closed"
    BY <2>0, <2>2 DEF ApiPersist, TodoInv
  <2>3. ASSUME NEW c \in Deals, ReconcileDeal(c) PROVE broker'[d] = "closed"
    <3>1. c \in todo /\ PersistClose(c) /\ broker' = broker
      BY <2>3 DEF ReconcileDeal
    <3>2. db[c] # "none" /\ broker[c] = "closed"
      BY <3>1 DEF TodoInv
    <3>3. c = d
      BY <3>1, <3>2, PersistsOwnRow
    <3> QED
      BY <3>1, <3>2, <3>3
  <2> QED
    BY <2>1, <2>2, <2>3
<1> QED
  BY <1>1, TypeInvHolds, TodoInvHolds, PTL DEF Spec, ReconcileOnlyClosed

\* A step that books nothing: closed deals stay closed, a deal booked once too often has
\* no open row unless its flip exit is still to persist it, and the deal the loop goes on
\* with is unbooked.
LEMMA NothingBooked ==
    ASSUME BookInv, UNCHANGED <<booked, failed>>,
           \A d \in Deals : broker[d] = "closed" => broker'[d] = "closed",
           \A d \in Deals : ~(booked[d] <= failed[d]) /\ db'[d] = "open" =>
                               pc' = "persist_close" /\ target' = d,
           pc' \in {"confirming", "persist_open"} => booked[target'] = 0,
           \A d \in todo' : booked[d] <= failed[d]
    PROVE  BookInv'
BY DEF BookInv, BookedOnce

\* Every step keeps the books.
LEMMA BookStep ==
    ASSUME TypeInv, TodoInv, BookInv, [Next]_vars
    PROVE  BookInv'
<1> USE DEF vars, brokerVars, dailyVars, memoryVars, localVars, bookVars,
       historyVars
<1>0. /\ broker \in [Deals -> {"none", "open", "closed"}]
      /\ db \in [Deals -> {"none", "open", "closed"}] /\ booked \in [Deals -> Nat]
      /\ failed \in [Deals -> Nat]
      /\ api \subseteq Deals /\ todo \subseteq Deals /\ pc \in Awaits
      /\ pc \in WithDeal => target \in Deals
  BY DEF TypeInv, TypeOK, ControlInv
\* The common case: the rows only close, and the loop stays where it is or goes on
\* without a deal it has just opened or booked.
<1>a. ASSUME UNCHANGED <<booked, failed>>,
             \A d \in Deals : broker[d] = "closed" => broker'[d] = "closed",
             \A d \in Deals : db'[d] = "open" => db[d] = "open",
             \/ pc' = pc /\ target' = target
             \/ pc # "persist_close" /\ pc' \notin {"confirming", "persist_open"}
             \/ pc = "confirming" /\ pc' = "persist_open" /\ target' = target,
             todo' \subseteq todo
      PROVE  BookInv'
  BY <1>0, <1>a, NothingBooked DEF BookInv
<1>b. ASSUME NEW d \in Deals, Realize(d)
      PROVE  \A c \in Deals : broker[c] = "closed" \/ c = d => broker'[c] = "closed"
  BY <1>0, <1>b DEF Realize
<1>c. NextEpic => pc' = "epic"
  BY DEF NextEpic
<1>1. ASSUME NEW d \in Deals, BrokerCloses(d) \/ ApiClose(d) PROVE BookInv'
  BY <1>1, <1>a, <1>b DEF BrokerCloses, ApiClose
<1>2. ASSUME NEW d \in Deals, ApiPersist(d) PROVE BookInv'
  <2>1. \A c \in Deals : db'[c] = "open" => db[c] = "open"
    BY <1>0, <1>2 DEF ApiPersist
  <2> QED
    BY <1>2, <2>1, <1>a DEF ApiPersist
<1>2a. ASSUME NEW d \in Deals, TransactionExpires(d) PROVE BookInv'
  BY <1>2a, <1>a DEF TransactionExpires
<1>3. CASE ActivateKillSwitch \/ DeactivateKillSwitch \/ Tick \/ UNCHANGED vars
  BY <1>3, <1>a DEF ActivateKillSwitch, DeactivateKillSwitch, Tick
<1>4. CASE Restart
  BY <1>4 DEF Restart, BookInv, BookedOnce
<1>5. CASE StartCycle \/ PositionsAnswer \/ RefreshFails \/ ReconcileDone
  BY <1>5, <1>a DEF StartCycle, PositionsAnswer, RefreshFails, ReconcileDone
<1>6. CASE CountMissing
  <2>1. /\ pc = "persisted" /\ pc' \in {"epic", "history"}
        /\ \A d \in todo' : d \in Deals /\ db[d] = "open"
        /\ UNCHANGED <<broker, db, booked, failed>>
    BY <1>6 DEF CountMissing
  <2>2. \A d \in Deals : booked[d] <= failed[d] \/ db[d] # "open"
    BY <2>1 DEF BookInv
  <2> QED
    BY <2>1, <2>2, NothingBooked
<1>7. CASE HistoryAnswer
  BY <1>7, <1>a DEF HistoryAnswer, Listed
<1>8. ASSUME NEW d \in Deals, ReconcileDeal(d) PROVE BookInv'
  <2>1. /\ pc = "reconcile" /\ d \in todo /\ PersistClose(d)
        /\ booked' = [booked EXCEPT ![d] = @ + 1]
        /\ todo' = todo \ {d} /\ UNCHANGED <<broker, pc, target>>
    BY <1>8 DEF ReconcileDeal, Book
  <2>2. broker[d] = "closed" /\ db[d] # "none" /\ booked[d] <= failed[d]
    BY <2>1 DEF TodoInv, BookInv
  <2>3. /\ \A c \in Deals : c # d => db'[c] = db[c]
        /\ \/ UNCHANGED failed /\ db'[d] = "closed"
           \/ failed' = [failed EXCEPT ![d] = @ + 1]
    BY <2>1, <2>2, PersistsOwnRow
  <2>4. /\ \A c \in Deals : booked'[c] = IF c = d THEN booked[c] + 1 ELSE booked[c]
        /\ \A c \in Deals : c # d => failed'[c] = failed[c]
        /\ \/ db'[d] = "closed" /\ failed'[d] = failed[d]
           \/ failed'[d] = failed[d] + 1
    BY <1>0, <2>1, <2>3
  <2>5. \A c \in Deals : booked[c] \in Nat /\ failed[c] \in Nat
    BY <1>0
  <2>6. BookedOnce'
    BY <2>2, <2>4, <2>5 DEF BookInv, BookedOnce
  <2>7. \A c \in Deals : booked'[c] # 0 => broker'[c] = "closed"
    BY <2>1, <2>2, <2>4 DEF BookInv
  <2>8. \A c \in Deals : booked'[c] <= failed'[c] \/ db'[c] # "open"
    BY <2>1, <2>2, <2>3, <2>4, <2>5 DEF BookInv
  <2>9. \A c \in todo' : booked'[c] <= failed'[c]
    BY <1>0, <2>1, <2>4 DEF BookInv
  <2> QED
    BY <2>1, <2>6, <2>7, <2>8, <2>9 DEF BookInv
<1>9. CASE SkipEpic \/ FlipExit \/ EndCycle \/ RiskApproves \/ RiskRejects \/ NewsDecides
           \/ OrderRefused \/ OrderAccepted \/ OrderWithoutLevel \/ OrderOutcomeLost
  BY <1>9, <1>a, <1>c DEF SkipEpic, FlipExit, EndCycle, RiskApproves, RiskRejects, NewsDecides,
     OrderRefused, OrderAccepted, OrderWithoutLevel, OrderOutcomeLost
<1>10. CASE ConsiderEntry
  BY <1>10, <1>a, <1>c DEF ConsiderEntry, Gate
<1>11. CASE CloseAccepted
  <2>1. /\ pc = "closing" /\ target \in Deals /\ broker[target] = "open"
        /\ broker' = [broker EXCEPT ![target] = "closed"]
        /\ booked' = [booked EXCEPT ![target] = @ + 1]
        /\ pc' = "persist_close" /\ UNCHANGED <<db, target, todo, failed>>
    BY <1>0, <1>11 DEF CloseAccepted, Book, WithDeal
  <2>2. booked[target] = 0 /\ todo = {}
    BY <2>1 DEF BookInv, TodoInv
  <2>3. \A c \in Deals : /\ booked'[c] = IF c = target THEN 1 ELSE booked[c]
                         /\ broker'[c] = IF c = target THEN "closed" ELSE broker[c]
    BY <1>0, <2>1, <2>2
  <2>4. \A c \in Deals : failed[c] \in Nat
    BY <1>0
  <2> QED
    BY <1>0, <2>1, <2>2, <2>3, <2>4 DEF BookInv, BookedOnce
<1>12. CASE CloseNotAccepted \/ CloseRaises
  <2>1. target \in Deals /\ pc = "closing"
    BY <1>0, <1>12 DEF CloseNotAccepted, CloseRaises, WithDeal
  <2>2. \A c \in Deals : broker[c] = "closed" => broker'[c] = "closed"
    BY <1>0, <1>12, <1>b, <2>1 DEF CloseNotAccepted, CloseRaises
  <2>3. pc' \in {"persist_close", "epic"}
    BY <1>12 DEF CloseNotAccepted, CloseRaises, NextEpic
  <2> QED
    BY <1>12, <1>a, <2>1, <2>2, <2>3 DEF CloseNotAccepted, CloseRaises
<1>13. CASE PersistFlipClose
  <2>1. /\ pc = "persist_close" /\ target \in Deals /\ PersistClose(target)
        /\ UNCHANGED <<broker, booked, todo>>
    BY <1>0, <1>13 DEF PersistFlipClose, WithDeal
  <2>2. /\ \A c \in Deals : db'[c] = db[c] \/ db'[c] = "closed"
        /\ \/ UNCHANGED failed /\ db'[target] # "open"
           \/ failed' = [failed EXCEPT ![target] = @ + 1]
    BY <1>0, <2>1, PersistsOwnRow
  <2>3. pc' \in {"epic", "risk"}
    BY <1>13 DEF PersistFlipClose, NextEpic, Gate
  <2>4. /\ \A c \in Deals : c # target => failed'[c] = failed[c]
        /\ \/ db'[target] # "open" /\ failed'[target] = failed[target]
           \/ failed'[target] = failed[target] + 1
    BY <1>0, <2>1, <2>2
  <2>5. \A c \in Deals : /\ booked[c] \in Nat /\ failed[c] \in Nat
                         /\ failed'[c] \in Nat /\ failed[c] <= failed'[c]
    BY <1>0, <2>4
  <2>6. ASSUME NEW c \in Deals
        PROVE  booked[c] <= 1 + failed'[c] /\ (booked[c] <= failed'[c] \/ db'[c] # "open")
    <3>1. booked[c] <= 1 + failed[c]
      BY DEF BookInv, BookedOnce
    <3>2. booked[c] <= failed[c] \/ db[c] # "open" \/ c = target
      BY DEF BookInv
    <3>3. booked[c] <= 1 + failed'[c]
      BY <2>4, <2>5, <3>1
    <3>4. CASE c = target
      <4>1. booked[c] \in Nat /\ failed[c] \in Nat
        BY <2>5
      <4>2. CASE failed'[c] = failed[c] + 1
        BY <3>1, <4>1, <4>2
      <4>3. CASE db'[c] # "open"
        BY <3>3, <4>3
      <4> QED
        BY <2>4, <3>4, <4>2, <4>3
    <3>5. CASE c # target
      <4>1. db'[c] = "open" => db[c] = "open"
        BY <2>2
      <4> QED
        BY <2>4, <3>2, <3>3, <3>5, <4>1
    <3> QED
      BY <3>3, <3>4, <3>5
  <2>7. ASSUME NEW c \in todo' PROVE booked[c] <= failed'[c]
    <3>1. c \in Deals /\ booked[c] <= failed[c]
      BY <1>0, <2>1 DEF BookInv
    <3> QED
      BY <2>5, <3>1
  <2> QED
    <3>1. \A c \in Deals : booked'[c] # 0 => broker'[c] = "closed"
      BY <2>1 DEF BookInv
    <3> QED
      BY <2>1, <2>3, <2>6, <2>7, <3>1 DEF BookInv, BookedOnce
<1>14. ASSUME NEW d \in Deals, BrokerFills(d) PROVE BookInv'
  <2>1. /\ pc = "placing" /\ broker[d] = "none" /\ pc' = "confirming" /\ target' = d
        /\ broker' = [broker EXCEPT ![d] = "open"]
        /\ UNCHANGED <<db, booked, failed, todo>>
    BY <1>14 DEF BrokerFills
  <2>2. /\ booked[d] = 0
        /\ \A c \in Deals : booked[c] <= failed[c] \/ db'[c] # "open"
        /\ \A c \in todo' : booked[c] <= failed[c]
    BY <2>1 DEF BookInv
  <2>3. \A c \in Deals : broker[c] = "closed" => broker'[c] = "closed"
    BY <1>0, <2>1
  <2> QED
    BY <2>1, <2>2, <2>3, NothingBooked
<1>15. CASE PersistOpen
  <2>1. /\ pc = "persist_open" /\ target \in Deals
        /\ db' = db \/ db' = [db EXCEPT ![target] = "open"]
        /\ pc' = "epic" /\ UNCHANGED <<broker, booked, failed, todo>>
    BY <1>0, <1>15, <1>c DEF PersistOpen, WithDeal
  <2>2. /\ booked[target] <= failed[target]
        /\ \A c \in Deals : booked[c] <= failed[c] \/ db[c] # "open"
        /\ \A c \in todo' : booked[c] <= failed[c]
    BY <1>0, <2>1 DEF BookInv
  <2>3. \A c \in Deals : booked[c] <= failed[c] \/ db'[c] # "open"
    BY <1>0, <2>1, <2>2
  <2> QED
    BY <2>1, <2>2, <2>3, NothingBooked
<1> QED
  BY <1>1, <1>2, <1>2a, <1>3, <1>4, <1>5, <1>6, <1>7, <1>8, <1>9, <1>10, <1>11,
     <1>12, <1>13, <1>14, <1>15 DEF Next, Environment, Refresh, Trade

\* The profit of a deal is booked at most once by a process, and once more for every commit
\* of its close that fails, whichever of the flip exit and the reconciliation sees its close
\* first, and whatever the API closes, the broker delays or a request loses.
THEOREM ProfitBookedOnce == Spec => []BookedOnce
<1>1. Init => BookInv
  BY DEF Init, BookInv, BookedOnce
<1>2. TypeInv /\ TodoInv /\ BookInv /\ [Next]_vars => BookInv'
  BY BookStep
<1>3. BookInv => BookedOnce
  BY DEF BookInv
<1> QED
  BY <1>1, <1>2, <1>3, TypeInvHolds, TodoInvHolds, PTL DEF Spec

-----------------------------------------------------------------------------
(* One deal on one instrument.                                             *)

\* The list of instruments names each epic once.
DistinctEpics ==
    \A j, k \in DOMAIN Instruments : Instruments[j] = Instruments[k] => j = k

\* Since the last refresh a live deal is cached, or was opened in this cycle: on an
\* epic the loop has passed, or on the one it is at.
LiveIsKnown ==
    pc \notin {"sleep", "positions"} =>
        \A d \in Live :
            \/ d \in open_positions
            \/ \E k \in DOMAIN Instruments : k < idx /\ deal[d].epic = Instruments[k]
            \/ pc \in {"confirming", "persist_open"} /\ d = target

\* What the gate looked at still holds when the order is placed: no cached position.
EntryIsFree == pc \in {"risk", "news", "placing"} => CachedOn(Epic) = {}

\* The deal in hand after an order is on the epic the loop is at.
DealOfEpic ==
    pc \in {"confirming", "persist_open"} =>
        broker[target] # "none" /\ deal[target].epic = Epic

OneDealInv ==
    /\ OneDealPerEpic /\ LiveIsKnown /\ EntryIsFree /\ DealOfEpic
    /\ \A d \in open_positions : broker[d] # "none"

\* The loop's body moves on, and what it was doing is behind it.
LEMMA NextEpicKnows ==
    ASSUME TypeInv, OneDealInv, NextEpic, idx <= Len(Instruments),
           deal' = deal, open_positions' = open_positions,
           \A d \in Deals : (broker'[d] = "open" => broker[d] = "open")
                              /\ (broker[d] # "none" => broker'[d] # "none"),
           pc \notin {"sleep", "positions"}
    PROVE  OneDealInv'
<1>1. /\ idx \in DOMAIN Instruments /\ idx' = idx + 1 /\ pc' = "epic" /\ idx \in Int
      /\ DOMAIN Instruments \subseteq Int
  <2>1. Len(Instruments) \in Nat /\ DOMAIN Instruments = 1..Len(Instruments)
    BY TradingLoopAssumption
  <2> QED
    BY <2>1 DEF TypeInv, TypeOK, NextEpic
<1>2. Live' \subseteq Live
  BY DEF Live
<1>3. LiveIsKnown'
  <2> SUFFICES ASSUME NEW d \in Live', d \notin open_positions
               PROVE  \E k \in DOMAIN Instruments : k < idx' /\ deal[d].epic = Instruments[k]
    BY DEF LiveIsKnown
  <2>1. CASE \E k \in DOMAIN Instruments : k < idx /\ deal[d].epic = Instruments[k]
    BY <1>1, <2>1
  <2>2. CASE pc \in {"confirming", "persist_open"} /\ d = target
    <3>1. deal[d].epic = Instruments[idx] /\ idx < idx'
      BY <1>1, <2>2 DEF OneDealInv, DealOfEpic, Epic
    <3> QED
      BY <1>1, <3>1
  <2> QED
    BY <1>2, <2>1, <2>2 DEF OneDealInv, LiveIsKnown
<1>4. OneDealPerEpic'
  BY <1>2 DEF OneDealInv, OneDealPerEpic
<1>5. EntryIsFree' /\ DealOfEpic' /\ \A d \in open_positions' : broker'[d] # "none"
  BY <1>1 DEF EntryIsFree, DealOfEpic, OneDealInv, TypeInv, TypeOK
<1> QED
  BY <1>3, <1>4, <1>5 DEF OneDealInv

\* A step that opens no deal, lists no positions and enters no gate.
LEMMA NothingOpened ==
    ASSUME TypeInv, OneDealInv, deal' = deal, open_positions' = open_positions, idx' = idx,
           \A d \in Deals : (broker'[d] = "open" => broker[d] = "open")
                              /\ (broker[d] # "none" => broker'[d] # "none"),
           pc' \in {"sleep", "positions"} \/ pc \notin {"sleep", "positions"},
           pc' \in {"confirming", "persist_open"} =>
               pc \in {"confirming", "persist_open"} /\ target' = target,
           pc \in {"confirming", "persist_open"} /\ pc' \notin {"sleep", "positions"} =>
               pc' \in {"confirming", "persist_open"},
           pc' \in {"risk", "news", "placing"} =>
               pc \in {"risk", "news", "placing"} \/ CachedOn(Epic) = {}
    PROVE  OneDealInv'
<1>1. Live' \subseteq Live /\ Epic' = Epic /\ \A e : CachedOn(e)' = CachedOn(e)
  BY DEF Live, Epic, CachedOn
<1>2. OneDealPerEpic'
  BY <1>1 DEF OneDealInv, OneDealPerEpic
<1>3. LiveIsKnown'
  BY <1>1 DEF OneDealInv, LiveIsKnown
<1>4. EntryIsFree'
  BY <1>1 DEF OneDealInv, EntryIsFree
<1>5. DealOfEpic'
  <2> SUFFICES ASSUME pc' \in {"confirming", "persist_open"}
               PROVE  broker'[target] # "none" /\ deal[target].epic = Epic /\ target' = target
    BY <1>1 DEF DealOfEpic
  <2>1. pc \in {"confirming", "persist_open"} /\ target' = target /\ target \in Deals
    BY DEF TypeInv, ControlInv, WithDeal
  <2> QED
    BY <2>1 DEF OneDealInv, DealOfEpic
<1>6. \A d \in open_positions' : broker'[d] # "none"
  BY DEF OneDealInv, TypeInv, TypeOK
<1> QED
  BY <1>2, <1>3, <1>4, <1>5, <1>6 DEF OneDealInv

\* The gate: what passes has no cached position.
LEMMA GateIsFree ==
    ASSUME TypeInv, OneDealInv, NEW dir, Gate(Epic, dir), idx <= Len(Instruments),
           UNCHANGED <<broker, deal, open_positions>>, pc \in {"epic", "persist_close"}
    PROVE  OneDealInv'
<1>1. CASE NextEpic
  BY <1>1, NextEpicKnows
<1>2. CASE ~NextEpic
  <2>1. pc' = "risk" /\ UNCHANGED idx /\ CachedOn(Epic) = {}
    BY <1>2 DEF Gate, GateRejects
  <2> QED
    BY <2>1, NothingOpened
<1> QED
  BY <1>1, <1>2

\* Every step keeps one deal to an instrument.
LEMMA OneDealStep ==
    ASSUME TypeInv, OneDealInv, [Next]_vars, DistinctEpics,
           Faults \cap {"positions", "lag"} = {}
    PROVE  OneDealInv'
<1> USE DEF vars, brokerVars, dailyVars, memoryVars, localVars, bookVars,
       historyVars
<1>0. /\ broker \in [Deals -> {"none", "open", "closed"}]
      /\ open_positions \subseteq Deals /\ pc \in Awaits
      /\ pc \in WithDeal => target \in Deals
      /\ pc \in InEpic => idx <= Len(Instruments)
  BY DEF TypeInv, TypeOK, ControlInv
<1>b. ASSUME NEW d \in Deals, Realize(d), broker[d] = "open"
      PROVE  \A c \in Deals : (broker'[c] = "open" => broker[c] = "open")
                                /\ (broker[c] # "none" => broker'[c] # "none")
  BY <1>0, <1>b DEF Realize
<1>1. ASSUME NEW d \in Deals, BrokerCloses(d) \/ ApiClose(d) PROVE OneDealInv'
  <2>1. broker[d] = "open" /\ Realize(d)
    BY <1>1 DEF BrokerCloses, ApiClose
  <2>2. UNCHANGED <<deal, memoryVars, pc, localVars>>
    BY <1>1 DEF BrokerCloses, ApiClose
  <2> QED
    BY <2>1, <2>2, <1>b, NothingOpened DEF OneDealInv, EntryIsFree
<1>2. ASSUME NEW d \in Deals, ApiPersist(d) \/ TransactionExpires(d) PROVE OneDealInv'
  BY <1>2, NothingOpened DEF ApiPersist, TransactionExpires, OneDealInv, EntryIsFree
<1>3. CASE ActivateKillSwitch \/ DeactivateKillSwitch \/ Tick \/ UNCHANGED vars
  BY <1>3, NothingOpened DEF ActivateKillSwitch, DeactivateKillSwitch, Tick, OneDealInv, EntryIsFree
<1>4. CASE Restart
  BY <1>4 DEF Restart, OneDealInv, OneDealPerEpic, LiveIsKnown, EntryIsFree, DealOfEpic, Live
<1>5. CASE StartCycle \/ RefreshFails \/ CountMissing \/ HistoryAnswer \/ ReconcileDone \/ EndCycle
  <2>1. /\ pc' \in {"sleep", "positions"} \/ pc \notin {"sleep", "positions"}
        /\ pc' \notin {"confirming", "persist_open", "risk", "news", "placing"}
        /\ pc \notin {"confirming", "persist_open"}
        /\ UNCHANGED <<deal, open_positions, broker>>
    BY <1>5 DEF StartCycle, RefreshFails, CountMissing, HistoryAnswer, ReconcileDone, EndCycle
  <2>2. CASE idx' = idx
    BY <2>1, <2>2, NothingOpened
  <2>3. CASE EndCycle
    BY <2>1, <2>3 DEF EndCycle, OneDealInv, OneDealPerEpic, LiveIsKnown, EntryIsFree,
                      DealOfEpic, Live
  <2> QED
    BY <1>5, <2>2, <2>3 DEF StartCycle, RefreshFails, CountMissing, HistoryAnswer, ReconcileDone
<1>6. CASE PositionsAnswer
  <2>1. /\ open_positions' = Live /\ pc' = "persisted"
        /\ UNCHANGED <<deal, broker>>
    BY <1>6 DEF PositionsAnswer
  <2> QED
    BY <2>1 DEF OneDealInv, OneDealPerEpic, LiveIsKnown, EntryIsFree, DealOfEpic, Live
<1>7. ASSUME NEW d \in Deals, ReconcileDeal(d) PROVE OneDealInv'
  BY <1>7, NothingOpened DEF ReconcileDeal
<1>8. CASE SkipEpic \/ OrderRefused \/ OrderWithoutLevel \/ OrderOutcomeLost \/ PersistOpen
           \/ RiskRejects
  <2>1. /\ NextEpic /\ idx <= Len(Instruments) /\ pc \notin {"sleep", "positions"}
        /\ UNCHANGED <<deal, open_positions, broker>>
    BY <1>0, <1>8 DEF SkipEpic, OrderRefused, OrderWithoutLevel, OrderOutcomeLost, PersistOpen,
       RiskRejects, InEpic
  <2> QED
    BY <2>1, NextEpicKnows
<1>9. CASE FlipExit
  BY <1>9, NothingOpened DEF FlipExit
<1>10. CASE RiskApproves \/ OrderAccepted
  BY <1>10, NothingOpened DEF RiskApproves, OrderAccepted
<1>11. CASE NewsDecides
  <2>1. idx <= Len(Instruments)
    BY <1>0, <1>11 DEF NewsDecides, InEpic
  <2> QED
    BY <1>11, <2>1, NothingOpened, NextEpicKnows DEF NewsDecides
<1>12. CASE ConsiderEntry
  BY <1>12, GateIsFree DEF ConsiderEntry
<1>13. CASE CloseAccepted \/ CloseNotAccepted \/ CloseRaises
  <2>1. target \in Deals /\ pc = "closing" /\ idx <= Len(Instruments)
    BY <1>0, <1>13 DEF CloseAccepted, CloseNotAccepted, CloseRaises, WithDeal, InEpic
  <2>2. \A c \in Deals : (broker'[c] = "open" => broker[c] = "open")
                           /\ (broker[c] # "none" => broker'[c] # "none")
    BY <1>0, <1>13, <1>b, <2>1 DEF CloseAccepted, CloseNotAccepted, CloseRaises
  <2>3. CASE CloseRaises
    BY <2>1, <2>2, <2>3, NextEpicKnows DEF CloseRaises
  <2>4. CASE CloseAccepted \/ CloseNotAccepted
    BY <2>1, <2>2, <2>4, NothingOpened DEF CloseAccepted, CloseNotAccepted
  <2> QED
    BY <1>13, <2>3, <2>4
<1>14. CASE PersistFlipClose
  <2>1. /\ pc = "persist_close" /\ idx <= Len(Instruments)
        /\ UNCHANGED <<broker, deal, open_positions>>
    BY <1>0, <1>14 DEF PersistFlipClose, InEpic
  <2> QED
    BY <1>14, <2>1, GateIsFree, NextEpicKnows DEF PersistFlipClose
<1>15. ASSUME NEW d \in Deals, BrokerFills(d) PROVE OneDealInv'
  <2>1. /\ pc = "placing" /\ pc' = "confirming" /\ target' = d /\ broker[d] = "none"
        /\ broker' = [broker EXCEPT ![d] = "open"]
        /\ deal' = [deal EXCEPT ![d] = [epic |-> Epic, direction |-> signal]]
        /\ UNCHANGED <<open_positions, idx>>
    BY <1>15 DEF BrokerFills
  <2>2. /\ \A c \in Deals : c # d => broker'[c] = broker[c] /\ deal'[c] = deal[c]
        /\ broker'[d] = "open" /\ deal'[d].epic = Epic /\ Epic' = Epic
    BY <1>0, <2>1 DEF TypeInv, TypeOK, Epic
  <2>3. Live' = Live \cup {d} /\ d \notin Live /\ d \notin open_positions
    BY <2>1, <2>2 DEF Live, OneDealInv
  <2>4. \A c \in Live : deal[c].epic # Epic
    <3> SUFFICES ASSUME NEW c \in Live, deal[c].epic = Epic PROVE FALSE
      OBVIOUS
    <3>1. c \notin open_positions
      BY <2>1 DEF OneDealInv, EntryIsFree, CachedOn
    <3>2. PICK k \in DOMAIN Instruments : k < idx /\ deal[c].epic = Instruments[k]
      BY <2>1, <3>1 DEF OneDealInv, LiveIsKnown
    <3>3. idx \in DOMAIN Instruments /\ idx \in Int
      <4>1. Len(Instruments) \in Nat /\ DOMAIN Instruments = 1..Len(Instruments)
        BY TradingLoopAssumption
      <4> QED
        BY <1>0, <2>1, <4>1 DEF InEpic, TypeInv, TypeOK
    <3>4. k = idx
      BY <3>2, <3>3 DEF DistinctEpics, Epic
    <3> QED
      BY <3>2, <3>3, <3>4
  <2>5. OneDealPerEpic'
    BY <2>2, <2>3, <2>4 DEF OneDealInv, OneDealPerEpic, Live
  <2>6. LiveIsKnown'
    <3>1. \A c \in Live : \/ c \in open_positions
                          \/ \E k \in DOMAIN Instruments : k < idx /\ deal[c].epic = Instruments[k]
      BY <2>1 DEF OneDealInv, LiveIsKnown
    <3>2. \A c \in Live : deal'[c] = deal[c]
      BY <2>2, <2>3 DEF Live
    <3> QED
      BY <2>1, <2>3, <3>1, <3>2 DEF LiveIsKnown
  <2>7. EntryIsFree' /\ DealOfEpic' /\ \A c \in open_positions' : broker'[c] # "none"
    BY <1>0, <2>1, <2>2, <2>3 DEF OneDealInv, EntryIsFree, DealOfEpic
  <2> QED
    BY <2>5, <2>6, <2>7 DEF OneDealInv
<1> QED
  BY <1>1, <1>2, <1>3, <1>4, <1>5, <1>6, <1>7, <1>8, <1>9, <1>10, <1>11,
     <1>12, <1>13, <1>14, <1>15 DEF Next, Environment, Refresh, Trade

\* As long as get_positions() answers with every live deal, the loop never holds two
\* deals on one instrument: across lost outcomes of orders, closes that fail and
\* restarts, for every list that names an instrument once.
THEOREM OneDealOnEachEpic ==
    ASSUME DistinctEpics, Faults \cap {"positions", "lag"} = {}
    PROVE  Spec => []OneDealPerEpic
<1>1. Init => OneDealInv
  BY DEF Init, OneDealInv, OneDealPerEpic, LiveIsKnown, EntryIsFree, DealOfEpic, Live
<1>2. TypeInv /\ OneDealInv /\ [Next]_vars => OneDealInv'
  BY OneDealStep
<1>3. OneDealInv => OneDealPerEpic
  BY DEF OneDealInv
<1> QED
  BY <1>1, <1>2, <1>3, TypeInvHolds, PTL DEF Spec

-----------------------------------------------------------------------------
(* The daily cap on entries.                                               *)

\* The entries accepted on a day, as DailyEntryCap counts them.
AcceptedOn(day) == {d \in Deals : accepted_at[d] # -1 /\ Day(accepted_at[d]) = day}

\* No day is over the cap; _daily_trade_count covers the day of the last entry, no
\* entry is of a later day, and past the gate there is room for one more.
CapInv ==
    /\ \A day \in Int : Cardinality(AcceptedOn(day)) <= MaxDaily
    /\ daily_date <= Today
    /\ \A day \in Int : day > daily_date => AcceptedOn(day) = {}
    /\ Cardinality(AcceptedOn(daily_date)) <= daily_count
    /\ daily_count <= MaxDaily
    /\ pc \in Entering => daily_count < MaxDaily

\* Days do not go back.
LEMMA DayIsMonotonic ==
    ASSUME NEW s \in Nat, NEW t \in Nat, s <= t
    PROVE  Day(s) \in Int /\ Day(s) <= Day(t)
<1> DEFINE L == DayLength
<1>1. L \in Nat /\ L >= 1
  BY TradingLoopAssumption
<1> HIDE DEF L
<1>2. s \div L \in Int /\ t \div L \in Int
  BY <1>1
<1>3. /\ L * (s \div L) <= s /\ s < L * ((s \div L) + 1)
      /\ L * (t \div L) <= t /\ t < L * ((t \div L) + 1)
  BY <1>1
<1>4. ASSUME NEW a \in Int, NEW b \in Int, b + 1 <= a PROVE L * (b + 1) <= L * a
  BY <1>1, <1>4
<1>5. s \div L <= t \div L
  <2> SUFFICES ASSUME ~(s \div L <= t \div L) PROVE FALSE
    OBVIOUS
  <2>1. (t \div L) + 1 <= s \div L
    BY <1>2
  <2>2. L * ((t \div L) + 1) <= L * (s \div L)
    BY <1>2, <1>4, <2>1
  <2>3. L * (s \div L) \in Int /\ L * ((t \div L) + 1) \in Int
    BY <1>1, <1>2
  <2> QED
    BY <1>3, <2>2, <2>3
<1> QED
  BY <1>2, <1>5 DEF Day, L

\* A step that neither counts nor accepts, and does not enter the gate.
Uncounted ==
    /\ UNCHANGED <<accepted_at, daily_date, daily_count>>
    /\ clock' >= clock
    /\ pc' \in Entering => pc \in Entering

\* The gate has rolled the daily counters over.
Gated ==
    /\ UNCHANGED <<accepted_at, clock>>
    /\ daily_date' = Today /\ daily_count' = CountToday
    /\ pc' \in Entering => CountToday < MaxDaily

\* Without a restart, every step is one of these or counts an accepted trade.
LEMMA CapKinds ==
    ASSUME TypeInv, [Next]_vars, "restart" \notin Faults
    PROVE  Uncounted \/ Gated \/ Accepts
<1> USE DEF vars, brokerVars, dailyVars, memoryVars, localVars, bookVars,
       historyVars
<1>0. clock \in Int /\ CountToday \in Int /\ MaxDaily \in Int
  BY SMTT(60), Basics, TradingLoopAssumption DEF TypeInv, TypeOK
<1>1. ASSUME NEW e, NEW dir, Gate(e, dir), UNCHANGED <<accepted_at, clock>> PROVE Gated
  BY <1>0, <1>1 DEF Gate, GateRejects, OtherGatesReject, NextEpic, Gated, Entering
<1>2. ASSUME NEW d \in Deals,
             BrokerCloses(d) \/ ApiClose(d) \/ ApiPersist(d) \/ TransactionExpires(d)
      PROVE  Uncounted
  BY <1>0, <1>2 DEF BrokerCloses, ApiClose, ApiPersist, TransactionExpires, Uncounted
<1>3. CASE ActivateKillSwitch \/ DeactivateKillSwitch \/ Tick \/ UNCHANGED vars
  BY <1>0, <1>3 DEF ActivateKillSwitch, DeactivateKillSwitch, Tick, Uncounted
<1>4. CASE StartCycle \/ PositionsAnswer \/ RefreshFails \/ HistoryAnswer \/ ReconcileDone
           \/ SkipEpic \/ FlipExit \/ EndCycle
  BY <1>0, <1>4 DEF StartCycle, PositionsAnswer, RefreshFails, HistoryAnswer,
     ReconcileDone, SkipEpic, FlipExit, EndCycle, NextEpic, Uncounted, Entering
<1>5. CASE CountMissing
  <2>1. pc' \in {"epic", "history"}
    BY <1>5 DEF CountMissing
  <2> QED
    BY <1>0, <1>5, <2>1 DEF CountMissing, Uncounted, Entering
<1>6. ASSUME NEW d \in Deals, ReconcileDeal(d) PROVE Uncounted
  BY <1>0, <1>6 DEF ReconcileDeal, Book, Uncounted, Entering
<1>7. CASE ConsiderEntry
  BY <1>1, <1>7 DEF ConsiderEntry
<1>8. CASE CloseAccepted \/ CloseNotAccepted \/ CloseRaises
  BY <1>0, <1>8 DEF CloseAccepted, CloseNotAccepted, CloseRaises, Book, NextEpic,
                    Uncounted, Entering
<1>9. CASE PersistFlipClose
  <2>1. CASE signal = None
    BY <1>0, <1>9, <2>1 DEF PersistFlipClose, NextEpic, Uncounted, Entering
  <2>2. CASE signal # None
    BY <1>1, <1>9, <2>2 DEF PersistFlipClose
  <2> QED
    BY <2>1, <2>2
<1>10. CASE RiskApproves \/ RiskRejects \/ NewsDecides \/ OrderRefused \/ OrderOutcomeLost
            \/ PersistOpen
  BY <1>0, <1>10 DEF RiskApproves, RiskRejects, NewsDecides, OrderRefused, OrderOutcomeLost,
                     PersistOpen, NextEpic, Uncounted, Entering
<1>11. ASSUME NEW d \in Deals, BrokerFills(d) PROVE Uncounted
  BY <1>0, <1>11 DEF BrokerFills, Uncounted, Entering
<1>12. CASE OrderAccepted \/ OrderWithoutLevel
  BY <1>12 DEF OrderAccepted, OrderWithoutLevel, NextEpic, Accepts, Entering
<1>13. ~Restart
  BY DEF Restart
<1> QED
  BY <1>2, <1>3, <1>4, <1>5, <1>6, <1>7, <1>8, <1>9, <1>10, <1>11, <1>12, <1>13
     DEF Next, Environment, Refresh, Trade

\* A set with at most one element more.
LEMMA OneMore ==
    ASSUME NEW S, IsFiniteSet(S), NEW x, NEW T, T \subseteq S \cup {x}
    PROVE  Cardinality(T) \in Nat /\ Cardinality(T) <= Cardinality(S) + 1
<1>1. IsFiniteSet(S \cup {x}) /\ Cardinality(S) \in Nat
  BY FS_AddElement, FS_CardinalityType
<1>2. Cardinality(S \cup {x}) = Cardinality(S) \/ Cardinality(S \cup {x}) = Cardinality(S) + 1
  BY FS_AddElement
<1>3. IsFiniteSet(T) /\ Cardinality(T) <= Cardinality(S \cup {x})
  BY <1>1, FS_Subset
<1>4. Cardinality(T) \in Nat
  BY <1>3, FS_CardinalityType
<1> QED
  BY <1>1, <1>2, <1>3, <1>4

\* Every step keeps each day under the cap.
LEMMA CapStep ==
    ASSUME TypeInv, CapInv, [Next]_vars, "restart" \notin Faults
    PROVE  CapInv'
<1>0. /\ clock \in Nat /\ clock' \in Nat /\ MaxDaily \in Nat /\ daily_date \in Int
      /\ daily_count \in Nat
      /\ accepted_at \in [Deals -> {-1} \cup 0..MaxClock]
  <2>1. TypeOK /\ TypeOK'
    BY NextTypes DEF TypeInv
  <2> QED
    BY <2>1, TradingLoopAssumption DEF TypeOK
<1>1. IsFiniteSet(Deals)
  BY FS_Interval, TradingLoopAssumption DEF Deals
<1>2. ASSUME NEW day \in Int
      PROVE  IsFiniteSet(AcceptedOn(day)) /\ Cardinality(AcceptedOn(day)) \in Nat
  <2>1. AcceptedOn(day) \subseteq Deals
    BY DEF AcceptedOn
  <2> QED
    BY <1>1, <2>1, FS_Subset, FS_CardinalityType
<1>3. ASSUME UNCHANGED accepted_at, NEW day \in Int PROVE AcceptedOn(day)' = AcceptedOn(day)
  BY <1>3 DEF AcceptedOn, Day
<1>4. Today \in Int /\ (clock <= clock' => Today <= Today') /\ Today' \in Int
  BY <1>0, DayIsMonotonic DEF Today, Day
<1>5. CASE Uncounted
  BY <1>0, <1>3, <1>4, <1>5 DEF Uncounted, CapInv
\* The counters rolled over stay within the cap, and still cover their day.
<1>6. /\ CountToday \in Nat /\ CountToday <= MaxDaily
      /\ Cardinality(AcceptedOn(Today)) <= CountToday
      /\ \A day \in Int : day > Today => AcceptedOn(day) = {}
  <2>1. CASE daily_date = Today
    BY <1>0, <2>1 DEF CapInv, CountToday
  <2>2. CASE daily_date # Today
    <3>1. Today > daily_date
      BY <1>0, <1>4, <2>2 DEF CapInv
    <3>2. AcceptedOn(Today) = {} /\ CountToday = 0
      BY <1>4, <2>2, <3>1 DEF CapInv, CountToday
    <3>3. \A day \in Int : day > Today => AcceptedOn(day) = {}
      BY <1>0, <1>4, <3>1 DEF CapInv
    <3> QED
      BY <1>0, <3>2, <3>3, FS_EmptySet
  <2> QED
    BY <2>1, <2>2
<1>7. CASE Gated
  <2>1. Today' = Today /\ daily_date' = Today /\ daily_count' = CountToday
    BY <1>7 DEF Gated, Today, Day
  <2> QED
    BY <1>0, <1>3, <1>4, <1>6, <1>7, <2>1 DEF Gated, CapInv
<1>8. CASE Accepts
  <2>1. /\ pc \in Entering /\ pc' \notin Entering /\ clock' = clock /\ Today' = Today
        /\ daily_date' = Today /\ daily_count' = CountToday + 1
        /\ accepted_at' = [accepted_at EXCEPT ![target] = clock]
    BY <1>8 DEF Accepts, CountAcceptedTrade, Entering, Today, Day
  <2>2. CountToday + 1 <= MaxDaily
    <3>1. daily_count < MaxDaily
      BY <2>1 DEF CapInv
    <3>2. CountToday = daily_count \/ CountToday = 0
      BY DEF CountToday
    <3> QED
      BY <1>0, <3>1, <3>2
  <2>3. ASSUME NEW day \in Int, day # Today PROVE AcceptedOn(day)' \subseteq AcceptedOn(day)
    BY <1>0, <2>1, <2>3 DEF AcceptedOn, Today, Day
  <2>4. AcceptedOn(Today)' \subseteq AcceptedOn(Today) \cup {target}
    BY <1>0, <2>1 DEF AcceptedOn, Today, Day
  <2>5. /\ Cardinality(AcceptedOn(Today)') \in Nat
        /\ Cardinality(AcceptedOn(Today)') <= CountToday + 1
    <3>1. /\ Cardinality(AcceptedOn(Today)') \in Nat
          /\ Cardinality(AcceptedOn(Today)') <= Cardinality(AcceptedOn(Today)) + 1
      BY <1>2, <1>4, <2>4, OneMore
    <3> QED
      BY <1>2, <1>4, <1>6, <3>1
  <2>6. ASSUME NEW day \in Int PROVE (Cardinality(AcceptedOn(day)) <= MaxDaily)'
    <3>1. CASE day = Today
      <4>1. AcceptedOn(day)' = AcceptedOn(Today)'
        BY <2>1, <3>1
      <4> QED
        BY <1>0, <1>6, <2>2, <2>5, <4>1
    <3>2. CASE day # Today
      <4>1. /\ Cardinality(AcceptedOn(day)') <= Cardinality(AcceptedOn(day))
            /\ Cardinality(AcceptedOn(day)') \in Nat
        BY <1>2, <2>3, <3>2, FS_Subset, FS_CardinalityType
      <4> QED
        BY <1>0, <1>2, <4>1 DEF CapInv
    <3> QED
      BY <3>1, <3>2
  <2>7. ASSUME NEW day \in Int, day > Today PROVE AcceptedOn(day)' = {}
    BY <1>4, <1>6, <2>3, <2>7
  <2> QED
    BY <1>0, <1>4, <2>1, <2>2, <2>5, <2>6, <2>7 DEF CapInv
<1> QED
  BY <1>5, <1>7, <1>8, CapKinds

\* As long as the process is not restarted, the orders it saw accepted on one UTC day
\* never exceed the daily cap, wherever midnight falls between the gate and the
\* broker's answer; and as long as the positions can be read it never holds two deals on
\* one instrument.
THEOREM LimitedEntries ==
    ASSUME DistinctEpics, Faults \cap {"positions", "lag", "restart"} = {}
    PROVE  Spec => []EntriesAreLimited
<1>1. Init => CapInv
  <2> SUFFICES ASSUME Init PROVE CapInv
    OBVIOUS
  <2>1. \A day \in Int : AcceptedOn(day) = {}
    BY DEF Init, AcceptedOn
  <2>2. Today = 0
    BY TradingLoopAssumption, 0 \div DayLength = 0 DEF Init, Today, Day
  <2>3. Cardinality({}) = 0 /\ MaxDaily \in Nat
    BY FS_EmptySet, TradingLoopAssumption
  <2>4. daily_date = 0 /\ daily_count = 0 /\ pc \notin Entering
    BY DEF Init, Entering
  <2> QED
    BY <2>1, <2>2, <2>3, <2>4 DEF CapInv
<1>2. TypeInv /\ CapInv /\ [Next]_vars => CapInv'
  BY CapStep
<1>3. CapInv => DailyEntryCap
  <2> SUFFICES ASSUME CapInv, NEW day \in 0..Day(MaxClock)
               PROVE  Cardinality(AcceptedOn(day)) <= MaxDaily
    BY DEF DailyEntryCap, AcceptedOn
  <2> QED
    BY DEF CapInv
<1>4. Spec => []OneDealPerEpic
  BY OneDealOnEachEpic
<1> QED
  BY <1>1, <1>2, <1>3, <1>4, TypeInvHolds, PTL DEF Spec, EntriesAreLimited

-----------------------------------------------------------------------------
(* Sums over finite sets.                                                  *)

\* The induction that follows is by a smallest counterexample.
LEMMA LeastNumber ==
    ASSUME NEW T \in SUBSET Nat, T # {}
    PROVE  \E n \in T : \A m \in T : n <= m
<1> DEFINE R == OpToRel(<, Nat)
<1>1. \E n \in T : \A m \in T : <<m, n>> \notin R
  <2>1. IsWellFoundedOn(R, Nat)
    BY NatLessThanWellFounded
  <2> HIDE DEF R
  <2> QED
    BY <2>1, WFMin, Zenon
<1>2. \A m, n \in Nat : <<m, n>> \notin R => n <= m
  BY DEF OpToRel
<1> HIDE DEF R
<1> QED
  BY <1>1, <1>2

LEMMA SmallestSet ==
    ASSUME NEW S, IsFiniteSet(S), NEW D \in SUBSET SUBSET S, D # {}
    PROVE  \E s \in D : \A x \in s : s \ {x} \notin D
<1> DEFINE T == {Cardinality(s) : s \in D}
<1>1. \A s \in D : IsFiniteSet(s) /\ Cardinality(s) \in Nat
  BY FS_Subset, FS_CardinalityType
<1>2. T \in SUBSET Nat /\ T # {}
  BY <1>1
<1>3. PICK n \in T : \A m \in T : n <= m
  BY <1>2, LeastNumber, Zenon
<1>4. PICK s \in D : Cardinality(s) = n
  BY <1>3
<1>5. \A t \in D : n <= Cardinality(t)
  BY <1>3
<1>6. \A x \in s : s \ {x} \notin D
  <2> SUFFICES ASSUME NEW x \in s, s \ {x} \in D PROVE FALSE
    OBVIOUS
  <2>1. Cardinality(s \ {x}) = Cardinality(s) - 1
    BY <1>1, FS_RemoveElement
  <2> QED
    BY <1>1, <1>4, <1>5, <2>1
<1> QED
  BY <1>6

\* MapThenSumSet takes the elements in an order that is chosen, and sums from the empty set up.
Chosen(s) == CHOOSE x \in s : TRUE
Unfold(f, S, g) ==
    [s \in SUBSET S |-> IF s = {} THEN 0 ELSE f[Chosen(s)] + g[s \ {Chosen(s)}]]
PartialSums(f, S) == CHOOSE g : g = Unfold(f, S, g)
SumOf(f, S) == MapThenSumSet(LAMBDA d : f[d], S)

LEMMA SumIsPartial ==
    ASSUME NEW f, NEW S
    PROVE  SumOf(f, S) = PartialSums(f, S)[S]
BY DEF SumOf, MapThenSumSet, MapThenFoldSet, Unfold, Chosen, PartialSums

LEMMA ChosenIsIn ==
    ASSUME NEW s, s # {}
    PROVE  Chosen(s) \in s
BY DEF Chosen

\* There are such partial sums: those of the sets of at most n elements are there for every n.
LEMMA PartialSumsExist ==
    ASSUME NEW f, NEW S, IsFiniteSet(S)
    PROVE  PartialSums(f, S) = Unfold(f, S, PartialSums(f, S))
<1> DEFINE Agree(g, n) == \A s \in SUBSET S : Cardinality(s) <= n => g[s] = Unfold(f, S, g)[s]
           T == {n \in Nat : ~\E g : Agree(g, n)}
<1>1. \A s \in SUBSET S : IsFiniteSet(s) /\ Cardinality(s) \in Nat
  BY FS_Subset, FS_CardinalityType
<1>2. \E g : Agree(g, 0)
  <2>1. PICK g : g = [s \in SUBSET S |-> 0]
    OBVIOUS
  <2>2. \A s \in SUBSET S : Cardinality(s) <= 0 => s = {}
    BY <1>1, FS_EmptySet
  <2> QED
    BY <2>1, <2>2 DEF Unfold
<1>3. ASSUME NEW n \in Nat, NEW g, Agree(g, n) PROVE \E h : Agree(h, n + 1)
  <2>1. PICK h : h = Unfold(f, S, g)
    OBVIOUS
  <2>2. \A s \in SUBSET S : Cardinality(s) <= n => g[s] = h[s]
    BY <1>3, <2>1
  <2>3. ASSUME NEW s \in SUBSET S, Cardinality(s) <= n + 1, s # {}
        PROVE  h[s] = f[Chosen(s)] + h[s \ {Chosen(s)}]
    <3>1. PICK c : c = Chosen(s)
      OBVIOUS
    <3>2. c \in s
      BY <2>3, <3>1, ChosenIsIn
    <3>3. Cardinality(s \ {c}) = Cardinality(s) - 1 /\ s \ {c} \in SUBSET S
      BY <1>1, <3>2, FS_RemoveElement
    <3>4. g[s \ {c}] = h[s \ {c}]
      BY <1>1, <2>2, <2>3, <3>3
    <3>5. h[s] = f[c] + g[s \ {c}]
      BY <2>1, <2>3, <3>1 DEF Unfold
    <3> QED
      BY <3>1, <3>4, <3>5
  <2>4. h[{}] = 0
    BY <2>1 DEF Unfold
  <2>5. Agree(h, n + 1)
    BY <2>3, <2>4 DEF Unfold
  <2> QED
    BY <2>5
<1>4. T = {}
  <2> SUFFICES ASSUME T # {} PROVE FALSE
    OBVIOUS
  <2>1. PICK n \in T : \A m \in T : n <= m
    BY LeastNumber, Zenon
  <2>2. n \in Nat /\ (~\E g : Agree(g, n)) /\ n # 0
    BY <1>2
  <2>3. n - 1 \in Nat /\ n - 1 \notin T /\ n - 1 + 1 = n
    BY <2>1, <2>2
  <2>4. \E g : Agree(g, n - 1)
    BY <2>3
  <2> HIDE DEF Agree
  <2> QED
    BY <1>3, <2>2, <2>3, <2>4
<1>5. PICK g : Agree(g, Cardinality(S))
  <2>1. Cardinality(S) \in Nat
    BY FS_CardinalityType
  <2> QED
    BY <1>4, <2>1
<1>6. \A s \in SUBSET S : g[s] = Unfold(f, S, g)[s]
  BY <1>5, FS_Subset
<1>7. PICK h : h = [s \in SUBSET S |-> g[s]]
  OBVIOUS
<1>8. h = Unfold(f, S, h)
  <2>1. \A s \in SUBSET S : s # {} => h[s] = f[Chosen(s)] + h[s \ {Chosen(s)}]
    BY <1>6, <1>7 DEF Unfold
  <2>2. h[{}] = 0
    BY <1>6, <1>7 DEF Unfold
  <2> QED
    BY <1>7, <2>1, <2>2 DEF Unfold
<1> QED
  BY <1>8 DEF PartialSums

SumsUp(f, S, g) ==
    /\ g[{}] = 0
    /\ \A s \in SUBSET S : s # {} =>
         \E c \in s : c = Chosen(s) /\ g[s] = f[c] + g[s \ {c}]

LEMMA PartialSumsUnfold ==
    ASSUME NEW f, NEW S, IsFiniteSet(S)
    PROVE  SumsUp(f, S, PartialSums(f, S))
<1> SUFFICES ASSUME NEW g, g = PartialSums(f, S) PROVE SumsUp(f, S, g)
  OBVIOUS
<1>1. g = Unfold(f, S, g)
  BY PartialSumsExist
<1>2. g[{}] = 0
  BY <1>1 DEF Unfold
<1>3. ASSUME NEW s \in SUBSET S, s # {}
      PROVE  \E c \in s : c = Chosen(s) /\ g[s] = f[c] + g[s \ {c}]
  <2>1. PICK c : c = Chosen(s)
    OBVIOUS
  <2>2. c \in s
    BY <1>3, <2>1, ChosenIsIn
  <2>3. g[s] = f[c] + g[s \ {c}]
    BY <1>1, <1>3, <2>1 DEF Unfold
  <2> QED
    BY <2>1, <2>2, <2>3
<1> QED
  BY <1>2, <1>3 DEF SumsUp

LEMMA PartialSumsAreNumbers ==
    ASSUME NEW f, NEW S, IsFiniteSet(S), \A x \in S : f[x] \in Int,
           NEW g, g = PartialSums(f, S)
    PROVE  \A s \in SUBSET S : g[s] \in Int
<1> DEFINE D == {s \in SUBSET S : g[s] \notin Int}
<1> SUFFICES ASSUME D # {} PROVE FALSE
  OBVIOUS
<1>1. PICK s \in D : \A x \in s : s \ {x} \notin D
  BY SmallestSet
<1>2. SumsUp(f, S, g)
  BY PartialSumsUnfold
<1>3. s \in SUBSET S /\ s # {}
  <2>1. g[s] # g[{}]
    BY <1>2 DEF SumsUp
  <2> QED
    BY <2>1
<1>4. PICK c \in s : g[s] = f[c] + g[s \ {c}]
  BY <1>2, <1>3 DEF SumsUp
<1>5. s \ {c} \in SUBSET S /\ f[c] \in Int
  BY <1>3, <1>4
<1>6. g[s \ {c}] \in Int
  BY <1>1, <1>4, <1>5
<1> QED
  BY <1>4, <1>5, <1>6

\* Sums of the same elements are the same, whatever else the two functions and the two sets have.
LEMMA PartialSumsAgree ==
    ASSUME NEW f, NEW S, NEW h, NEW R, IsFiniteSet(S), IsFiniteSet(R), S \subseteq R,
           \A x \in S : f[x] = h[x]
    PROVE  PartialSums(f, S)[S] = PartialSums(h, R)[S]
<1>1. PICK g, k : g = PartialSums(f, S) /\ k = PartialSums(h, R)
  OBVIOUS
<1>2. SumsUp(f, S, g)
  BY <1>1, PartialSumsUnfold
<1>3. SumsUp(h, R, k)
  BY <1>1, PartialSumsUnfold
<1> DEFINE D == {s \in SUBSET S : g[s] # k[s]}
<1> SUFFICES ASSUME D # {} PROVE FALSE
  BY <1>1
<1>4. PICK s \in D : \A x \in s : s \ {x} \notin D
  BY SmallestSet
<1>5. s \in SUBSET S /\ s \in SUBSET R /\ s # {} /\ g[s] # k[s]
  BY <1>2, <1>3 DEF SumsUp
<1>6. PICK c \in s : c = Chosen(s) /\ g[s] = f[c] + g[s \ {c}]
  BY <1>2, <1>5 DEF SumsUp
<1>7. k[s] = h[c] + k[s \ {c}]
  BY <1>3, <1>5, <1>6 DEF SumsUp
<1>8. s \ {c} \in SUBSET S /\ f[c] = h[c]
  BY <1>5, <1>6
<1>9. g[s \ {c}] = k[s \ {c}]
  BY <1>4, <1>6, <1>8
<1> QED
  BY <1>5, <1>6, <1>7, <1>8, <1>9

\* Any element may be taken first.
LEMMA AnyElementFirst ==
    ASSUME NEW f, NEW S, IsFiniteSet(S), \A x \in S : f[x] \in Int,
           NEW g, g = PartialSums(f, S)
    PROVE  \A s \in SUBSET S : \A x \in s : g[s] = f[x] + g[s \ {x}]
<1>1. SumsUp(f, S, g)
  BY PartialSumsUnfold
<1>2. \A s \in SUBSET S : g[s] \in Int
  BY PartialSumsAreNumbers
<1> DEFINE D == {s \in SUBSET S : \E x \in s : g[s] # f[x] + g[s \ {x}]}
<1> SUFFICES ASSUME D # {} PROVE FALSE
  OBVIOUS
<1>3. PICK s \in D : \A x \in s : s \ {x} \notin D
  BY SmallestSet
<1>4. PICK x \in s : g[s] # f[x] + g[s \ {x}]
  BY <1>3
<1>5. PICK c \in s : g[s] = f[c] + g[s \ {c}]
  BY <1>1, <1>3, <1>4 DEF SumsUp
<1>6. s \in SUBSET S /\ c # x
  BY <1>4, <1>5
<1>7. s \ {c} \in SUBSET S /\ s \ {c} \notin D /\ s \ {x} \in SUBSET S /\ s \ {x} \notin D
  BY <1>3, <1>4, <1>5, <1>6
<1>8. g[s \ {c}] = f[x] + g[(s \ {c}) \ {x}]
  BY <1>4, <1>6, <1>7
<1>9. g[s \ {x}] = f[c] + g[(s \ {x}) \ {c}]
  BY <1>5, <1>6, <1>7
<1>10. (s \ {c}) \ {x} = (s \ {x}) \ {c} /\ (s \ {x}) \ {c} \in SUBSET S
  BY <1>6
<1>11. PICK a, b, w : a = f[x] /\ b = f[c] /\ w = g[(s \ {x}) \ {c}]
  OBVIOUS
<1>12. a \in Int /\ b \in Int /\ w \in Int
  BY <1>2, <1>4, <1>5, <1>6, <1>10, <1>11
<1>13. g[s] = b + (a + w) /\ g[s \ {x}] = b + w /\ g[s] # a + g[s \ {x}]
  BY <1>4, <1>5, <1>8, <1>9, <1>10, <1>11
<1> HIDE DEF D
<1> QED
  BY <1>12, <1>13

LEMMA SumIsInt ==
    ASSUME NEW f, NEW S, IsFiniteSet(S), \A x \in S : f[x] \in Int
    PROVE  SumOf(f, S) \in Int
<1>1. PICK g : g = PartialSums(f, S)
  OBVIOUS
<1>2. g[S] \in Int
  BY <1>1, PartialSumsAreNumbers
<1> QED
  BY <1>1, <1>2, SumIsPartial

LEMMA SumOfZeros ==
    ASSUME NEW f, NEW S, IsFiniteSet(S), \A x \in S : f[x] = 0
    PROVE  SumOf(f, S) = 0
<1>1. PICK g : g = PartialSums(f, S)
  OBVIOUS
<1>2. SumsUp(f, S, g)
  BY <1>1, PartialSumsUnfold
<1> DEFINE D == {s \in SUBSET S : g[s] # 0}
<1>3. D = {}
  <2> SUFFICES ASSUME D # {} PROVE FALSE
    OBVIOUS
  <2>1. PICK s \in D : \A x \in s : s \ {x} \notin D
    BY SmallestSet
  <2>2. s \in SUBSET S /\ s # {} /\ g[s] # 0
    BY <1>2, <2>1 DEF SumsUp
  <2>3. PICK c \in s : g[s] = f[c] + g[s \ {c}]
    BY <1>2, <2>2 DEF SumsUp
  <2>4. s \ {c} \in SUBSET S /\ f[c] = 0
    BY <2>2, <2>3
  <2>5. g[s \ {c}] = 0
    BY <2>1, <2>3, <2>4
  <2> QED
    BY <2>2, <2>3, <2>4, <2>5
<1>4. g[S] = 0
  BY <1>3
<1> QED
  BY <1>1, <1>4, SumIsPartial

LEMMA SumOfSame ==
    ASSUME NEW f, NEW g, NEW S, IsFiniteSet(S), \A x \in S : f[x] = g[x]
    PROVE  SumOf(f, S) = SumOf(g, S)
<1>1. PartialSums(f, S)[S] = PartialSums(g, S)[S]
  BY PartialSumsAgree
<1> QED
  BY <1>1, SumIsPartial

LEMMA SumOfOneMore ==
    ASSUME NEW f, NEW S, IsFiniteSet(S), NEW x, x \notin S, \A y \in S \cup {x} : f[y] \in Int
    PROVE  SumOf(f, S \cup {x}) = SumOf(f, S) + f[x]
<1> DEFINE R == S \cup {x}
<1>1. IsFiniteSet(R) /\ S \subseteq R /\ R \ {x} = S /\ x \in R /\ R \in SUBSET R /\ S \in SUBSET R
  BY FS_AddElement
<1>2. \A y \in R : f[y] \in Int
  OBVIOUS
<1> HIDE DEF R
<1>3. PartialSums(f, R)[R] = f[x] + PartialSums(f, R)[R \ {x}]
  BY <1>1, <1>2, AnyElementFirst
<1>4. PartialSums(f, S)[S] = PartialSums(f, R)[S]
  BY <1>1, PartialSumsAgree
<1>5. PartialSums(f, R)[S] \in Int /\ f[x] \in Int
  BY <1>1, <1>2, PartialSumsAreNumbers
<1>6. SumOf(f, R) = SumOf(f, S) + f[x]
  <2>1. SumOf(f, R) = PartialSums(f, R)[R]
    BY SumIsPartial
  <2>2. SumOf(f, S) = PartialSums(f, S)[S]
    BY SumIsPartial
  <2>3. SumOf(f, R) = f[x] + SumOf(f, S) /\ SumOf(f, S) \in Int
    BY <1>1, <1>3, <1>4, <1>5, <2>1, <2>2
  <2> QED
    BY <1>5, <2>3
<1> QED
  BY <1>6 DEF R

-----------------------------------------------------------------------------
(* The loss cap.                                                           *)

Profits == [d \in Deals |-> counted[d] * pnl[d]]

\* _daily_realized_pnl is the sum of the profits booked since the roll-over, which the broker
\* does not change any more.
LossInv ==
    /\ \A d \in Deals : counted[d] # 0 => broker[d] = "closed"
    /\ daily_pnl = SumOf(Profits, Deals)

\* What is closed stays closed, with its profit.
ClosedIsKept ==
    \A d \in Deals : broker[d] = "closed" => broker'[d] = "closed" /\ pnl'[d] = pnl[d]

\* A step that books nothing.
BooksNothing == ClosedIsKept /\ UNCHANGED <<counted, daily_pnl>>

\* A new day, or a new process.
RollsOver ==
    /\ counted' = [d \in Deals |-> 0]
    /\ daily_pnl' = 0

\* A step that books the profit of a deal.
BooksOne ==
    /\ ClosedIsKept
    /\ \E d \in Deals : Book(d, pnl'[d]) /\ broker'[d] = "closed"

\* Every step books nothing, or one deal, or starts the counters anew.
LEMMA LossKinds ==
    ASSUME TypeInv, TodoInv, [Next]_vars
    PROVE  BooksNothing \/ BooksOne \/ RollsOver
<1> USE DEF vars, brokerVars, dailyVars, memoryVars, localVars, bookVars,
       historyVars
<1>0. /\ broker \in [Deals -> {"none", "open", "closed"}]
      /\ pnl \in [Deals -> Pnls \cup {0}]
      /\ pc \in WithDeal => target \in Deals
  BY DEF TypeInv, TypeOK, ControlInv
<1>1. ASSUME NEW d \in Deals, broker[d] = "open", Realize(d) PROVE ClosedIsKept
  BY <1>0, <1>1 DEF Realize, ClosedIsKept
<1>2. ASSUME NEW d \in Deals, BrokerCloses(d) \/ ApiClose(d) PROVE BooksNothing
  BY <1>1, <1>2 DEF BrokerCloses, ApiClose, BooksNothing
<1>3. ASSUME NEW d \in Deals, ApiPersist(d) \/ TransactionExpires(d) PROVE BooksNothing
  BY <1>3 DEF ApiPersist, TransactionExpires, BooksNothing, ClosedIsKept
<1>4. CASE ActivateKillSwitch \/ DeactivateKillSwitch \/ Tick \/ UNCHANGED vars
  BY <1>4 DEF ActivateKillSwitch, DeactivateKillSwitch, Tick, BooksNothing, ClosedIsKept
<1>4a. CASE Restart
  BY <1>4a DEF Restart, RollsOver
<1>5. CASE StartCycle \/ PositionsAnswer \/ RefreshFails \/ CountMissing \/ HistoryAnswer
           \/ ReconcileDone \/ SkipEpic \/ FlipExit \/ EndCycle
  BY <1>5 DEF StartCycle, PositionsAnswer, RefreshFails, CountMissing, HistoryAnswer,
              ReconcileDone, SkipEpic, FlipExit, EndCycle, BooksNothing, ClosedIsKept
<1>6. ASSUME NEW d \in Deals, ReconcileDeal(d) PROVE BooksOne
  <2>1. Book(d, pnl'[d]) /\ broker[d] = "closed" /\ UNCHANGED <<broker, pnl>>
    BY <1>6 DEF ReconcileDeal, TodoInv
  <2> QED
    BY <2>1 DEF BooksOne, ClosedIsKept
<1>7. ASSUME counted' = CountedToday, daily_pnl' = PnlToday, UNCHANGED <<broker, pnl>>
      PROVE  BooksNothing \/ RollsOver
  BY <1>7 DEF CountedToday, PnlToday, BooksNothing, RollsOver, ClosedIsKept
<1>8. CASE ConsiderEntry
  BY <1>7, <1>8 DEF ConsiderEntry, Gate
<1>9. CASE CloseAccepted
  <2>1. target \in Deals /\ broker[target] = "open"
    BY <1>0, <1>9 DEF CloseAccepted, WithDeal
  <2>2. PICK p \in Pnls : pnl' = [pnl EXCEPT ![target] = p] /\ Book(target, p)
    BY <1>9 DEF CloseAccepted
  <2>3. broker' = [broker EXCEPT ![target] = "closed"]
    BY <1>9 DEF CloseAccepted
  <2>4. ClosedIsKept /\ pnl'[target] = p /\ broker'[target] = "closed"
    BY <1>0, <2>1, <2>2, <2>3 DEF ClosedIsKept
  <2> QED
    BY <2>1, <2>2, <2>4 DEF BooksOne
<1>10. CASE CloseNotAccepted \/ CloseRaises
  <2>1. target \in Deals
    BY <1>0, <1>10 DEF CloseNotAccepted, CloseRaises, WithDeal
  <2>2. ClosedIsKept
    BY <1>1, <1>10, <2>1 DEF CloseNotAccepted, CloseRaises, ClosedIsKept
  <2> QED
    BY <1>10, <2>2 DEF CloseNotAccepted, CloseRaises, BooksNothing
<1>11. CASE PersistFlipClose
  <2>1. CASE signal = None
    BY <1>11, <2>1 DEF PersistFlipClose, BooksNothing, ClosedIsKept
  <2>2. CASE signal # None
    BY <1>7, <1>11, <2>2 DEF PersistFlipClose, Gate
  <2> QED
    BY <2>1, <2>2
<1>12. CASE RiskApproves \/ RiskRejects \/ NewsDecides \/ OrderRefused \/ OrderOutcomeLost
            \/ PersistOpen
  BY <1>12 DEF RiskApproves, RiskRejects, NewsDecides, OrderRefused, OrderOutcomeLost,
               PersistOpen, BooksNothing, ClosedIsKept
<1>13. ASSUME NEW d \in Deals, BrokerFills(d) PROVE BooksNothing
  BY <1>0, <1>13 DEF BrokerFills, BooksNothing, ClosedIsKept
<1>14. CASE OrderAccepted \/ OrderWithoutLevel
  BY <1>7, <1>14 DEF OrderAccepted, OrderWithoutLevel, CountAcceptedTrade
<1> QED
  BY <1>2, <1>3, <1>4, <1>4a, <1>5, <1>6, <1>8, <1>9, <1>10, <1>11, <1>12, <1>13, <1>14
     DEF Next, Environment, Refresh, Trade

\* The counters follow the bookings through every step.
LEMMA LossStep ==
    ASSUME TypeInv, TodoInv, LossInv, [Next]_vars, TypeInv'
    PROVE  LossInv'
<1>1. /\ counted \in [Deals -> Nat] /\ daily_pnl \in Int
      /\ \A d \in Deals : pnl[d] \in Int /\ pnl'[d] \in Int
      /\ \A d \in Deals : counted[d] \in Nat
  <2>1. /\ pnl \in [Deals -> Pnls \cup {0}] /\ pnl' \in [Deals -> Pnls \cup {0}]
        /\ counted \in [Deals -> Nat] /\ daily_pnl \in Int
    BY DEF TypeInv, TypeOK
  <2>2. Pnls \cup {0} \subseteq Int
    BY TradingLoopAssumption
  <2> QED
    BY <2>1, <2>2
<1>2. IsFiniteSet(Deals)
  BY FS_Interval, TradingLoopAssumption DEF Deals
<1>3. PICK f, g : f = Profits /\ g = Profits'
  OBVIOUS
<1>4. /\ \A d \in Deals : f[d] = counted[d] * pnl[d]
      /\ \A d \in Deals : g[d] = counted'[d] * pnl'[d]
  BY <1>3 DEF Profits
<1>5. ASSUME NEW d \in Deals, ClosedIsKept, counted'[d] = counted[d]
      PROVE  g[d] = f[d]
  BY <1>1, <1>4, <1>5 DEF ClosedIsKept, LossInv
<1>6. CASE BooksNothing
  <2>1. \A d \in Deals : f[d] = g[d]
    BY <1>5, <1>6 DEF BooksNothing
  <2>2. SumOf(g, Deals) = SumOf(f, Deals)
    BY <1>2, <2>1, SumOfSame
  <2> QED
    BY <1>3, <1>6, <2>2 DEF BooksNothing, ClosedIsKept, LossInv
<1>7. CASE BooksOne
  <2>1. PICK d \in Deals : Book(d, pnl'[d]) /\ broker'[d] = "closed"
    BY <1>7 DEF BooksOne
  <2>2. /\ \A c \in Deals : counted'[c] = IF c = d THEN counted[c] + 1 ELSE counted[c]
        /\ daily_pnl' = daily_pnl + pnl'[d]
        /\ ClosedIsKept
    BY <1>1, <1>7, <2>1 DEF Book, BooksOne
  <2>3. PICK R : R = Deals \ {d}
    OBVIOUS
  <2>4. R \cup {d} = Deals /\ d \notin R /\ IsFiniteSet(R)
    BY <1>2, <2>3, FS_RemoveElement
  <2>5. \A c \in Deals : f[c] \in Int
    <3> SUFFICES ASSUME NEW c \in Deals PROVE f[c] \in Int
      OBVIOUS
    <3>1. PICK m, p : m = counted[c] /\ p = pnl[c]
      OBVIOUS
    <3>2. m \in Int /\ p \in Int /\ f[c] = m * p
      BY <1>1, <1>4, <3>1
    <3> QED
      BY <3>2
  <2>6. f[d] \in Int /\ g[d] = f[d] + pnl'[d]
    <3>1. PICK m, p, q : m = counted[d] /\ p = pnl[d] /\ q = pnl'[d]
      OBVIOUS
    <3>2. m \in Nat /\ p \in Int /\ q \in Int /\ f[d] = m * p /\ g[d] = (m + 1) * q
      BY <1>1, <1>4, <2>2, <3>1
    <3>3. m = 0 \/ p = q
      BY <2>2, <3>1 DEF LossInv, ClosedIsKept
    <3>4. g[d] = m * q + q
      BY <3>2
    <3>5. m * q = m * p
      BY <3>2, <3>3
    <3> QED
      BY <2>5, <3>1, <3>2, <3>4, <3>5
  <2>7. \A c \in R : f[c] = g[c]
    BY <1>5, <2>2, <2>3
  <2>8. \A c \in Deals : g[c] \in Int
    BY <1>1, <2>3, <2>5, <2>6, <2>7
  <2>9. SumOf(f, Deals) = SumOf(f, R) + f[d]
    BY <2>4, <2>5, SumOfOneMore
  <2>10. SumOf(g, Deals) = SumOf(g, R) + g[d]
    BY <2>4, <2>8, SumOfOneMore
  <2>11. SumOf(g, R) = SumOf(f, R)
    BY <2>4, <2>7, SumOfSame
  <2>12. SumOf(f, R) \in Int
    BY <2>3, <2>4, <2>5, SumIsInt
  <2>13. PICK w, x, q : w = SumOf(f, R) /\ x = f[d] /\ q = pnl'[d]
    OBVIOUS
  <2>14. w \in Int /\ x \in Int /\ q \in Int
    BY <1>1, <2>6, <2>12, <2>13
  <2>15. daily_pnl = w + x
    BY <1>3, <2>9, <2>13 DEF LossInv
  <2>16. SumOf(g, Deals) = w + (x + q)
    BY <2>6, <2>10, <2>11, <2>13
  <2>17. daily_pnl' = (w + x) + q
    BY <2>2, <2>13, <2>15
  <2>18. daily_pnl' = SumOf(Profits', Deals)
    BY <1>3, <2>14, <2>16, <2>17
  <2>19. \A c \in Deals : counted'[c] # 0 => broker'[c] = "closed"
    BY <2>1, <2>2 DEF LossInv, ClosedIsKept
  <2> QED
    BY <2>18, <2>19 DEF LossInv
<1>8. CASE RollsOver
  <2>1. \A d \in Deals : counted'[d] = 0 /\ g[d] = 0
    <3>1. \A d \in Deals : counted'[d] = 0
      BY <1>8 DEF RollsOver
    <3> QED
      BY <1>1, <1>4, <3>1
  <2>2. SumOf(g, Deals) = 0
    BY <1>2, <2>1, SumOfZeros
  <2> QED
    BY <1>3, <1>8, <2>1, <2>2 DEF RollsOver, LossInv
<1> QED
  BY <1>6, <1>7, <1>8, LossKinds

Balanced == CountedProfit = daily_pnl

\* A signal passes the gate with what was booked since the roll-over in view.
LEMMA GateObeysCap ==
    ASSUME TypeInv, Balanced', [Next]_vars, pc # "risk", pc' = "risk"
    PROVE  CountedProfit' > -LossCap
<1> USE DEF vars, brokerVars, dailyVars, memoryVars, localVars, bookVars,
       historyVars
<1>1. PnlToday \in Int /\ LossCap \in Nat
  BY Basics, TradingLoopAssumption
<1>2. CountedProfit' = daily_pnl'
  BY DEF Balanced
<1>3. ASSUME NEW e, NEW dir, Gate(e, dir)
      PROVE  daily_pnl' > -LossCap
  <2>1. PICK marketOk \in Markets : ~GateRejects(e, dir, marketOk)
    BY <1>3 DEF Gate, NextEpic
  <2>2. daily_pnl' = PnlToday
    BY <1>3 DEF Gate
  <2> QED
    BY <1>1, <2>1, <2>2 DEF GateRejects, OtherGatesReject
<1>4. CASE ConsiderEntry
  BY <1>2, <1>3, <1>4 DEF ConsiderEntry
<1>5. CASE PersistFlipClose
  <2>1. CASE signal = None
    BY <1>5, <2>1 DEF PersistFlipClose, NextEpic
  <2>2. CASE signal # None
    BY <1>2, <1>3, <1>5, <2>2 DEF PersistFlipClose
  <2> QED
    BY <2>1, <2>2
<1>6. ASSUME NEW d \in Deals,
             \/ BrokerCloses(d) \/ ApiClose(d) \/ ApiPersist(d) \/ TransactionExpires(d)
             \/ ReconcileDeal(d) \/ BrokerFills(d)
      PROVE  FALSE
  BY <1>6 DEF BrokerCloses, ApiClose, ApiPersist, TransactionExpires, ReconcileDeal, BrokerFills
<1>7. ~(ActivateKillSwitch \/ DeactivateKillSwitch \/ Tick \/ Restart \/ UNCHANGED vars)
  BY DEF ActivateKillSwitch, DeactivateKillSwitch, Tick, Restart
<1>8. ~(StartCycle \/ PositionsAnswer \/ RefreshFails \/ CountMissing \/ HistoryAnswer
        \/ ReconcileDone)
  BY DEF StartCycle, PositionsAnswer, RefreshFails, CountMissing, HistoryAnswer, ReconcileDone
<1>9. ~(SkipEpic \/ FlipExit \/ EndCycle \/ CloseAccepted \/ CloseNotAccepted \/ CloseRaises)
  BY DEF SkipEpic, FlipExit, EndCycle, CloseAccepted, CloseNotAccepted, CloseRaises, NextEpic
<1>10. ~(RiskApproves \/ RiskRejects \/ NewsDecides \/ OrderRefused \/ OrderAccepted
         \/ OrderWithoutLevel \/ OrderOutcomeLost \/ PersistOpen)
  BY DEF RiskApproves, RiskRejects, NewsDecides, OrderRefused, OrderAccepted,
         OrderWithoutLevel, OrderOutcomeLost, PersistOpen, NextEpic
<1> QED
  BY <1>4, <1>5, <1>6, <1>7, <1>8, <1>9, <1>10 DEF Next, Environment, Refresh, Trade

\* No signal passes the entry gate once what the loop booked since the roll-over of its daily
\* counters is a loss of the cap or more, through midnights, restarts, lagging lists, lost
\* answers, failed commits and closes from outside; and what the reconciliation closes the
\* broker had closed.
THEOREM BooksAreTrue == Spec => BooksAreTrueAndObeyed
<1>1. Init => LossInv
  <2> SUFFICES ASSUME Init PROVE LossInv
    OBVIOUS
  <2>1. IsFiniteSet(Deals)
    BY FS_Interval, TradingLoopAssumption DEF Deals
  <2>2. PICK f : f = Profits
    OBVIOUS
  <2>3. \A d \in Deals : f[d] = 0
    BY <2>2 DEF Init, Profits
  <2>4. SumOf(f, Deals) = 0
    BY <2>1, <2>3, SumOfZeros
  <2> QED
    BY <2>2, <2>4 DEF Init, LossInv
<1>2. TypeInv /\ TodoInv /\ LossInv /\ TypeInv' /\ [Next]_vars => LossInv'
  BY LossStep
<1>3. LossInv => Balanced
  <2>1. CountedProfit = SumOf(Profits, Deals)
    BY DEF CountedProfit, SumOf, Profits
  <2> QED
    BY <2>1 DEF LossInv, Balanced
<1>4. TypeInv /\ Balanced' /\ [Next]_vars
        => (pc # "risk" /\ pc' = "risk" => CountedProfit' > -LossCap)
  BY GateObeysCap
<1>5. Spec => ReconcileOnlyClosed
  BY ReconciledWasClosed
<1>6. Spec => CountedLossStopsEntries
  BY <1>1, <1>2, <1>3, <1>4, TypeInvHolds, TodoInvHolds, PTL
     DEF Spec, CountedLossStopsEntries
<1> QED
  BY <1>5, <1>6 DEF BooksAreTrueAndObeyed
=============================================================================
