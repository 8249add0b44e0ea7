-------------------------- MODULE Background_proofs --------------------------
(***************************************************************************)
(* Theorems about the parts that run beside trading and advise it: the     *)
(* degradation level, the event bus, the overtrading guard, the copied     *)
(* traders, the news safety window, the feeds, the news pipeline, the      *)
(* service manager, the economic calendar, the lessons of losses and the   *)
(* notifications.                                                          *)
(*                                                                         *)
(* Each holds of its component's own specification, for every value of its *)
(* constants.                                                              *)
(***************************************************************************)
EXTENDS MCSupervision, EventBus, Degradation, Notifications, FiniteSetTheorems,
        WellFoundedInduction, TLAPS

-----------------------------------------------------------------------------
(* Degradation *)

\* A larger set of failures has a higher level: the cardinality grows with the set.
LEMMA LevelGrows ==
    ASSUME NEW fewer \in SUBSET Components, NEW more \in SUBSET Components,
           fewer \subseteq more
    PROVE  Level(fewer) <= Level(more)
<1>1. IsFiniteSet(Components)
  <2>1. /\ IsFiniteSet({"news_engine"}) /\ IsFiniteSet({"hft_pipeline"})
        /\ IsFiniteSet({"mistake_db"}) /\ IsFiniteSet({"database"}) /\ IsFiniteSet({"redis"})
    BY FS_Singleton
  <2>2. IsFiniteSet((({"news_engine"} \cup {"hft_pipeline"}) \cup {"mistake_db"}) \cup {"database"})
    BY <2>1, FS_Union
  <2>3. Components = ((({"news_engine"} \cup {"hft_pipeline"}) \cup {"mistake_db"})
                        \cup {"database"}) \cup {"redis"}
    BY DEF Components
  <2> QED
    BY <2>1, <2>2, <2>3, FS_Union
<1>2. IsFiniteSet(more)
  BY <1>1, FS_Subset
<1>3. Cardinality(fewer) \in Nat /\ Cardinality(more) \in Nat
      /\ Cardinality(fewer) <= Cardinality(more)
  BY <1>2, FS_Subset, FS_CardinalityType
<1>4. fewer # {} => more # {}
  OBVIOUS
<1> QED
  BY <1>3, <1>4 DEF Level

\* One more failure never lowers the level or the confidence asked for, nor lifts a fallback,
\* whatever the thresholds (activate() and the parameters of degradation.py).
THEOREM FailuresNeverReassure == DegradationSpec => FailureNeverReassures
<1>1. DegradationInit => degraded \subseteq Components
  BY DEF DegradationInit
<1>2. degraded \subseteq Components /\ [DegradationNext]_degradationVars
        => (degraded \subseteq Components)'
  BY DEF DegradationNext, ActivateDegradation, Deactivate, DegradationTick, degradationVars
<1>3. ASSUME degraded \subseteq Components, (degraded \subseteq Components)',
             degraded \subseteq degraded'
      PROVE  /\ Level(degraded) <= Level(degraded')
             /\ ConfidenceThreshold(degraded) <= ConfidenceThreshold(degraded')
             /\ UseStandardPipeline(degraded) => UseStandardPipeline(degraded')
             /\ ApplyMistakePenalties(degraded') => ApplyMistakePenalties(degraded)
  <2>1. Level(degraded) <= Level(degraded')
    BY <1>3, LevelGrows
  <2>2. ConfidenceThreshold(degraded) <= ConfidenceThreshold(degraded')
    BY <1>3, DegradationAssumption DEF ConfidenceThreshold
  <2> QED
    BY <1>3, <2>1, <2>2 DEF UseStandardPipeline, ApplyMistakePenalties
<1> QED
  BY <1>1, <1>2, <1>3, PTL DEF DegradationSpec, FailureNeverReassures

-----------------------------------------------------------------------------
(* The overtrading guard *)

Moments == Nat \cup {Never}

\* The losses that reached the limit started the cool-down: until its time is over the start
\* is the moment of the last of them.
StartIsTheStreak ==
    \A i \in Instruments : streak[i] # Never =>
        \/ cooldown_start[i] = streak[i]
        \/ guard_clock >= streak[i] + Cooldown

GuardInv ==
    /\ consecutive_losses \in [Instruments -> Nat]
    /\ cooldown_start \in [Instruments -> Moments]
    /\ streak \in [Instruments -> Moments]
    /\ guard_clock \in Nat
    /\ \A t \in validated \cup recorded : t.instrument \in Instruments
    /\ CooldownAgrees
    /\ StartIsTheStreak

\* A check of signals leaves the two maps alone or clears both, and only when the cool-down
\* of its instrument is over (can_trade of overtrading_guard.py).
LEMMA SnapshotKeepsGuard ==
    ASSUME GuardInv, NEW m \in Snapshot, Validate(m)
    PROVE  GuardInv'
<1> USE SignalPathAssumption
<1> DEFINE i == m.instrument
           trades == [strategy : {s \in Checked(m) : CanTrade(s, m)},
                      instrument : {i}, hft : {m.hft}]
<1>1. i \in Instruments
  BY DEF Snapshot
<1>2. /\ validated' = validated \cup trades
      /\ UNCHANGED <<guard_clock, recorded, streak>>
  BY DEF Validate
<1>3. \A t \in trades : t.instrument = i
  OBVIOUS
<1>4. \A t \in (validated \cup recorded)' : t.instrument \in Instruments
  <2> HIDE DEF trades
  <2> QED
    BY <1>1, <1>2, <1>3 DEF GuardInv
<1>5. CASE \E s \in Checked(m) : EndsCooldown(s, m)
  <2>1. /\ consecutive_losses' = [consecutive_losses EXCEPT ![i] = 0]
        /\ cooldown_start' = [cooldown_start EXCEPT ![i] = Never]
    BY <1>5 DEF Validate, ExpireCooldown
  <2>2. /\ consecutive_losses[i] >= LossLimit
        /\ cooldown_start[i] # Never
        /\ ~ CoolingDown(i)
    BY <1>5 DEF EndsCooldown
  <2>3. guard_clock >= cooldown_start[i] + Cooldown
    BY <1>1, <2>2 DEF CoolingDown, GuardInv, Moments, Never
  <2>4. CooldownAgrees'
    BY <1>1, <2>1 DEF CooldownAgrees, GuardInv
  <2>5. StartIsTheStreak'
    BY <1>1, <1>2, <2>1, <2>3 DEF StartIsTheStreak, GuardInv
  <2> QED
    BY <1>1, <1>2, <1>4, <2>1, <2>4, <2>5 DEF GuardInv, Moments
<1>6. CASE ~ \E s \in Checked(m) : EndsCooldown(s, m)
  <2>1. UNCHANGED <<consecutive_losses, cooldown_start>>
    BY <1>6 DEF Validate
  <2> QED
    BY <1>2, <1>4, <2>1 DEF GuardInv, CooldownAgrees, StartIsTheStreak
<1> QED
  BY <1>5, <1>6

\* A loss starts a cool-down exactly when it reaches the limit (record_loss).
LEMMA LossKeepsGuard ==
    ASSUME GuardInv, NEW t \in validated \cup recorded, RecordLoss(t)
    PROVE  GuardInv'
<1> USE SignalPathAssumption
<1> DEFINE i == t.instrument
           losses == consecutive_losses[i] + 1
<1>1. i \in Instruments /\ consecutive_losses[i] \in Nat
  BY DEF GuardInv
<1>2. /\ consecutive_losses' = [consecutive_losses EXCEPT ![i] = losses]
      /\ cooldown_start' = IF losses >= LossLimit /\ cooldown_start[i] = Never
                           THEN [cooldown_start EXCEPT ![i] = guard_clock] ELSE cooldown_start
      /\ streak' = IF losses = LossLimit THEN [streak EXCEPT ![i] = guard_clock] ELSE streak
      /\ recorded' = recorded \ {t}
      /\ UNCHANGED <<guard_clock, validated>>
  BY DEF RecordLoss
<1>3. losses = LossLimit => cooldown_start[i] = Never
  BY <1>1 DEF GuardInv, CooldownAgrees
<1>4. /\ consecutive_losses' \in [Instruments -> Nat]
      /\ cooldown_start' \in [Instruments -> Moments]
      /\ streak' \in [Instruments -> Moments]
  BY <1>1, <1>2 DEF GuardInv, Moments
<1>5. CooldownAgrees'
  BY <1>1, <1>2 DEF GuardInv, CooldownAgrees, Moments, Never
<1>6. StartIsTheStreak'
  BY <1>1, <1>2, <1>3 DEF GuardInv, StartIsTheStreak, CooldownAgrees, Moments, Never
<1> QED
  BY <1>2, <1>4, <1>5, <1>6 DEF GuardInv

\* The engine and the callers of the guard validate a snapshot, as it is or without what the
\* engine does not pass on.
LEMMA ChecksValidate ==
    ASSUME NEW m \in Snapshots, ProcessMarketData(m) \/ CheckSignals(m)
    PROVE  \E v \in Snapshot : Validate(v)
<1>1. m \in Snapshot /\ AsEngine(m) \in Snapshot
  <2>1. m \in Snapshot
    BY SignalPathAssumption
  <2>2. /\ 0 \in Int /\ "none" \in {"none", "active", "reactivated"}
        /\ FALSE \in BOOLEAN
    OBVIOUS
  <2>3. AsEngine(m) \in Snapshot
    BY ZenonT(60), <2>1, <2>2 DEF AsEngine, Snapshot
  <2> QED
    BY <2>1, <2>3
<1>2. Validate(m) \/ Validate(AsEngine(m))
  BY DEF ProcessMarketData, CheckSignals
<1> QED
  BY <1>1, <1>2

\* Every step of the path keeps the books of the guard whole.
LEMMA GuardStep ==
    ASSUME GuardInv, [PathNext]_pathVars
    PROVE  GuardInv'
<1>1. ASSUME NEW m \in Snapshots, ProcessMarketData(m) \/ CheckSignals(m)  PROVE GuardInv'
  <2>1. PICK v \in Snapshot : Validate(v)
    BY <1>1, ChecksValidate
  <2> QED
    BY <2>1, SnapshotKeepsGuard
<1>2. ASSUME NEW t \in validated \cup recorded, RecordTrade(t)  PROVE GuardInv'
  BY <1>2 DEF GuardInv, RecordTrade, CooldownAgrees, StartIsTheStreak
<1>3. ASSUME NEW t \in validated \cup recorded, RecordLoss(t)  PROVE GuardInv'
  BY <1>3, LossKeepsGuard
<1>4. ASSUME NEW t \in validated \cup recorded, RecordWin(t)  PROVE GuardInv'
  BY <1>4, SignalPathAssumption
     DEF GuardInv, RecordWin, CooldownAgrees, StartIsTheStreak, Moments
<1>5. CASE ResetDaily
  BY <1>5 DEF GuardInv, ResetDaily, CooldownAgrees, StartIsTheStreak
<1>6. CASE GuardClock
  BY <1>6, SignalPathAssumption
     DEF GuardInv, GuardClock, CooldownAgrees, StartIsTheStreak, Moments, Never
<1>7. CASE UNCHANGED pathVars
  BY <1>7 DEF GuardInv, pathVars, CooldownAgrees, StartIsTheStreak
<1> QED
  BY <1>1, <1>2, <1>3, <1>4, <1>5, <1>6, <1>7 DEF PathNext

\* The two maps of the guard are changed together, and from the losses that reached the limit
\* no signal outside HFT passes until the cool-down is over: for any instruments, strategies,
\* snapshots, limits and lengths.
THEOREM CooldownStaysWhole == PathSpec => CooldownIsWhole
<1>1. PathInit => GuardInv
  BY SignalPathAssumption
     DEF PathInit, GuardInv, CooldownAgrees, StartIsTheStreak, Moments, Never
<1>2. GuardInv /\ [PathNext]_pathVars => GuardInv'
  BY GuardStep
<1>3. GuardInv => CooldownAgrees
  BY DEF GuardInv
<1>4. ASSUME GuardInv, [PathNext]_pathVars
      PROVE  \A t \in validated' \ validated :
               t.hft \/ streak[t.instrument] = Never
                     \/ guard_clock >= streak[t.instrument] + Cooldown
  <2> TAKE t \in validated' \ validated
  <2>0. PICK n \in Snapshots : ProcessMarketData(n) \/ CheckSignals(n)
    BY <1>4 DEF PathNext, pathVars, RecordTrade, RecordLoss, RecordWin, ResetDaily, GuardClock
  <2>1. PICK m \in Snapshot : Validate(m)
    BY <2>0, ChecksValidate
  <2> DEFINE i == m.instrument
             allowed == {s \in Checked(m) : CanTrade(s, m)}
  <2>2. i \in Instruments
    BY DEF Snapshot
  <2>3. t \in [strategy : allowed, instrument : {i}, hft : {m.hft}]
    BY <1>4, <2>1 DEF Validate
  <2>4. t.instrument = i /\ t.hft = m.hft /\ \E s \in allowed : TRUE
    BY <2>3
  <2>5. m.hft \/ ~ CoolingDown(i)
    BY <2>4 DEF CanTrade, AppliesGuard
  <2> QED
    BY <1>4, <2>2, <2>4, <2>5, SignalPathAssumption
       DEF CoolingDown, GuardInv, CooldownAgrees, StartIsTheStreak, Moments
<1> QED
  BY <1>1, <1>2, <1>3, <1>4, PTL DEF PathSpec, CooldownIsWhole, CooldownHolds

-----------------------------------------------------------------------------
(* Copy trading *)

\* Deals are numbered as they are requested; one is validated, or active, or neither. Copies
\* without a book are active copies.
CopyInv ==
    /\ deal_counter \in Nat
    /\ DOMAIN copies \subseteq 1..deal_counter
    /\ DOMAIN validations \subseteq 1..deal_counter
    /\ DOMAIN copies \cap DOMAIN validations = {}
    /\ orphans \subseteq DOMAIN copies
    /\ \A t \in DOMAIN allocations :
         allocations[t] = [open_positions |-> allocations[t].open_positions,
                           pnl_history |-> allocations[t].pnl_history]
    /\ BooksOfCopiesAgree

\* register_trader: the new book is empty, and the copies of the old one have none.
LEMMA RegisterKeepsBooks ==
    ASSUME CopyInv, NEW t \in Traders, RegisterTrader(t)
    PROVE  CopyInv'
<1> DEFINE fresh == [open_positions |-> {}, pnl_history |-> <<>>]
<1>1. /\ DOMAIN allocations' = DOMAIN allocations \cup {t}
      /\ allocations'[t] = fresh
      /\ \A u \in DOMAIN allocations \ {t} : allocations'[u] = allocations[u]
      /\ orphans' = orphans \cup CopiesOf(t)
      /\ UNCHANGED <<copies, validations, deal_counter>>
  BY DEF RegisterTrader, With
<1>2. \A u : CopiesOf(u)' = CopiesOf(u) /\ CopiesOf(u) \subseteq DOMAIN copies
  BY <1>1 DEF CopiesOf
<1>3. \A u : u # t => CopiesOf(u) \cap CopiesOf(t) = {}
  BY DEF CopiesOf
<1>4. BooksOfCopiesAgree'
  BY <1>1, <1>2, <1>3 DEF BooksOfCopiesAgree, CopyInv
<1>5. \A u \in DOMAIN allocations' :
        allocations'[u] = [open_positions |-> allocations'[u].open_positions,
                           pnl_history |-> allocations'[u].pnl_history]
  BY <1>1 DEF CopyInv
<1> QED
  BY <1>1, <1>2, <1>4, <1>5 DEF CopyInv

\* replicate_trade after its await: the copy enters both books, or only the one of copies.
LEMMA ExecuteKeepsBooks ==
    ASSUME CopyInv, NEW d \in Deals, Execute(d)
    PROVE  CopyInv'
<1> DEFINE t == validations[d].trader
<1>1. /\ d \in DOMAIN validations
      /\ copies' = With(copies, d, t)
      /\ DOMAIN validations' = DOMAIN validations \ {d}
      /\ UNCHANGED deal_counter
  BY DEF Execute, Without
<1>2. d \in 1..deal_counter /\ d \notin DOMAIN copies /\ d \notin orphans
  BY <1>1 DEF CopyInv
<1>3. DOMAIN copies' = DOMAIN copies \cup {d}
  BY <1>1 DEF With
<1>4. \A u : CopiesOf(u)' = IF u = t THEN CopiesOf(u) \cup {d} ELSE CopiesOf(u)
  <2>1. \A x \in DOMAIN copies' : copies'[x] = IF x = d THEN t ELSE copies[x]
    BY <1>1, <1>3 DEF With
  <2> HIDE DEF t
  <2> QED
    BY <1>2, <1>3, <2>1 DEF CopiesOf
<1>5. CASE t \in DOMAIN allocations
  <2>1. /\ allocations' = [allocations EXCEPT ![t].open_positions = @ \cup {d}]
        /\ UNCHANGED orphans
    BY <1>5 DEF Execute
  <2>2. /\ DOMAIN allocations' = DOMAIN allocations
        /\ allocations'[t] = [open_positions |-> allocations[t].open_positions \cup {d},
                              pnl_history |-> allocations[t].pnl_history]
        /\ \A u \in DOMAIN allocations \ {t} : allocations'[u] = allocations[u]
    <3> DEFINE book == allocations[t].open_positions \cup {d}
    <3> HIDE DEF t
    <3>1. allocations[t] = [open_positions |-> allocations[t].open_positions,
                            pnl_history |-> allocations[t].pnl_history]
      BY <1>5 DEF CopyInv
    <3>2. allocations' = [allocations EXCEPT ![t].open_positions = book]
      BY <2>1
    <3> HIDE DEF book
    <3>3. /\ DOMAIN allocations' = DOMAIN allocations
          /\ allocations'[t] = [open_positions |-> book,
                                pnl_history |-> allocations[t].pnl_history]
          /\ \A u \in DOMAIN allocations \ {t} : allocations'[u] = allocations[u]
      BY <1>5, <3>1, <3>2
    <3> QED
      BY <3>3 DEF book
  <2> HIDE DEF t
  <2>3. BooksOfCopiesAgree'
    BY <1>2, <1>4, <1>5, <2>1, <2>2 DEF BooksOfCopiesAgree, CopyInv
  <2>4. \A u \in DOMAIN allocations' :
          allocations'[u] = [open_positions |-> allocations'[u].open_positions,
                             pnl_history |-> allocations'[u].pnl_history]
    BY <1>5, <2>2 DEF CopyInv
  <2> QED
    BY <1>1, <1>2, <1>3, <2>1, <2>3, <2>4 DEF CopyInv
<1>6. CASE t \notin DOMAIN allocations
  <2>1. orphans' = orphans \cup {d} /\ UNCHANGED allocations
    BY <1>6 DEF Execute
  <2> HIDE DEF t
  <2>2. \A u : d \notin CopiesOf(u)
    BY <1>2 DEF CopiesOf
  <2>3. BooksOfCopiesAgree'
    BY <1>4, <1>6, <2>1, <2>2 DEF BooksOfCopiesAgree, CopyInv
  <2> QED
    BY <1>1, <1>2, <1>3, <2>1, <2>3 DEF CopyInv
<1> QED
  BY <1>5, <1>6

\* close_copied_position: the copy leaves both books.
LEMMA CloseKeepsBooks ==
    ASSUME CopyInv, NEW d \in Deals, CloseCopiedPosition(d)
    PROVE  CopyInv'
<1> DEFINE t == copies[d]
<1>1. /\ d \in DOMAIN copies
      /\ DOMAIN copies' = DOMAIN copies \ {d}
      /\ \A x \in DOMAIN copies' : copies'[x] = copies[x]
      /\ orphans' = orphans \ {d}
      /\ UNCHANGED <<validations, deal_counter>>
  BY DEF CloseCopiedPosition, Without
<1>2. \A u : CopiesOf(u)' = CopiesOf(u) \ {d}
  BY <1>1 DEF CopiesOf
<1>3. \A u : u # t => d \notin CopiesOf(u)
  BY DEF CopiesOf
<1>4. /\ DOMAIN allocations' = DOMAIN allocations
      /\ \A u \in DOMAIN allocations \ {t} : allocations'[u] = allocations[u]
      /\ t \in DOMAIN allocations =>
           allocations'[t] = [open_positions |-> allocations[t].open_positions \ {d},
                              pnl_history |-> allocations[t].pnl_history]
  <2> DEFINE book == allocations[t].open_positions \ {d}
  <2>1. allocations' = IF t \in DOMAIN allocations
                       THEN [allocations EXCEPT ![t].open_positions = book] ELSE allocations
    BY DEF CloseCopiedPosition, Forget
  <2> HIDE DEF t, book
  <2>2. t \in DOMAIN allocations =>
          allocations[t] = [open_positions |-> allocations[t].open_positions,
                            pnl_history |-> allocations[t].pnl_history]
    BY DEF CopyInv
  <2>3. /\ DOMAIN allocations' = DOMAIN allocations
        /\ \A u \in DOMAIN allocations \ {t} : allocations'[u] = allocations[u]
        /\ t \in DOMAIN allocations =>
             allocations'[t] = [open_positions |-> book,
                                pnl_history |-> allocations[t].pnl_history]
    BY <2>1, <2>2
  <2> QED
    BY <2>3 DEF book
<1> HIDE DEF t
<1>5. BooksOfCopiesAgree'
  BY <1>1, <1>2, <1>3, <1>4 DEF BooksOfCopiesAgree, CopyInv
<1>6. \A u \in DOMAIN allocations' :
        allocations'[u] = [open_positions |-> allocations'[u].open_positions,
                           pnl_history |-> allocations'[u].pnl_history]
  BY <1>4 DEF CopyInv
<1> QED
  BY <1>1, <1>5, <1>6 DEF CopyInv

\* stop_copying_trader: the book of the trader and all its copies go.
LEMMA StopKeepsBooks ==
    ASSUME CopyInv, NEW t \in Traders, StopCopyingTrader(t)
    PROVE  CopyInv'
<1>1. /\ DOMAIN copies' = DOMAIN copies \ CopiesOf(t)
      /\ \A x \in DOMAIN copies' : copies'[x] = copies[x]
      /\ DOMAIN allocations' = DOMAIN allocations \ {t}
      /\ \A u \in DOMAIN allocations' : allocations'[u] = allocations[u]
      /\ orphans' = orphans \ CopiesOf(t)
      /\ UNCHANGED <<validations, deal_counter>>
  BY DEF StopCopyingTrader, Without
<1>2. \A u : u # t => CopiesOf(u)' = CopiesOf(u) /\ CopiesOf(u) \cap CopiesOf(t) = {}
  BY <1>1 DEF CopiesOf
<1>3. BooksOfCopiesAgree'
  BY <1>1, <1>2 DEF BooksOfCopiesAgree, CopyInv
<1> QED
  BY <1>1, <1>3 DEF CopyInv

\* check_drawdown_stop and the steps of a validation touch neither book.
LEMMA OthersKeepBooks ==
    ASSUME CopyInv,
           \/ \E t \in Traders : ReplicateTrade(t) \/ \E pnl \in Pnls : CheckDrawdownStop(t, pnl)
           \/ \E d \in Deals : RiskEngineAnswers(d) \/ Abandon(d)
           \/ NextDay \/ UNCHANGED copyVars
    PROVE  CopyInv'
<1>1. ASSUME NEW t \in Traders, ReplicateTrade(t)
      PROVE  CopyInv'
  <2>1. /\ deal_counter' = deal_counter + 1
        /\ DOMAIN validations' \subseteq DOMAIN validations \cup {deal_counter'}
        /\ UNCHANGED <<allocations, copies, orphans>>
    BY <1>1 DEF ReplicateTrade, With
  <2>2. deal_counter' \notin DOMAIN copies
    BY <2>1 DEF CopyInv
  <2> QED
    BY <2>1, <2>2 DEF CopyInv, BooksOfCopiesAgree, CopiesOf
<1>2. ASSUME NEW t \in Traders, NEW pnl \in Pnls, CheckDrawdownStop(t, pnl)
      PROVE  CopyInv'
  <2> DEFINE history == RecentResults(Append(allocations[t].pnl_history,
                                             [day |-> today, pnl |-> pnl]))
  <2>1. /\ t \in DOMAIN allocations
        /\ allocations' = [allocations EXCEPT ![t].pnl_history = history]
        /\ UNCHANGED <<copies, validations, deal_counter, orphans>>
    BY <1>2 DEF CheckDrawdownStop
  <2> HIDE DEF history
  <2>2. /\ DOMAIN allocations' = DOMAIN allocations
        /\ allocations'[t] = [open_positions |-> allocations[t].open_positions,
                              pnl_history |-> history]
        /\ \A u \in DOMAIN allocations \ {t} : allocations'[u] = allocations[u]
    BY <2>1 DEF CopyInv
  <2> QED
    BY <2>1, <2>2 DEF CopyInv, BooksOfCopiesAgree, CopiesOf
<1>3. ASSUME NEW d \in Deals, RiskEngineAnswers(d) \/ Abandon(d)
      PROVE  CopyInv'
  <2>1. /\ DOMAIN validations' \subseteq DOMAIN validations
        /\ UNCHANGED <<allocations, copies, deal_counter, orphans>>
    BY <1>3 DEF RiskEngineAnswers, Abandon, Without
  <2> QED
    BY <2>1 DEF CopyInv, BooksOfCopiesAgree, CopiesOf
<1>4. CASE NextDay \/ UNCHANGED copyVars
  BY <1>4 DEF CopyInv, BooksOfCopiesAgree, CopiesOf, NextDay, copyVars
<1> QED
  BY <1>1, <1>2, <1>3, <1>4

\* A trader's book and the active copies agree, whatever replications are under way when a
\* trader is registered again or stopped: for any traders, profits and bounds.
THEOREM CopiesAreInTheBooks == CopySpec => []BooksOfCopiesAgree
<1>1. CopyInit => CopyInv
  BY DEF CopyInit, CopyInv, BooksOfCopiesAgree, CopiesOf
<1>2. CopyInv /\ [CopyNext]_copyVars => CopyInv'
  BY RegisterKeepsBooks, ExecuteKeepsBooks, CloseKeepsBooks, StopKeepsBooks, OthersKeepBooks
     DEF CopyNext
<1>3. CopyInv => BooksOfCopiesAgree
  BY DEF CopyInv
<1> QED
  BY <1>1, <1>2, <1>3, PTL DEF CopySpec

-----------------------------------------------------------------------------
(* The news safety window *)

\* What fetch_calendar is asked for by a refresh that began at `at`.
Fetched(at) == {e \in schedule : at - BlockAfter <= e /\ e <= at + BlockBefore}

Actions == {"NONE", "BLOCK_TRADE", "REDUCE_SIZE", "REQUIRE_EXTRA_CONFIRMATION", "ALLOW_NORMAL"}

Evaluations == [at : {"idle", "lock", "refresh", "done"}, current : Nat \cup {Unset},
                action : Actions, decided : Nat \cup {Unset}, unseen : SUBSET Int]

Refreshes == [by : Callers, i : Nat, events : SUBSET Int, score : Scores, available : BOOLEAN,
              unseen : SUBSET Int]

SafetyTypes ==
    /\ schedule \in SUBSET Int
    /\ safety_clock \in Nat
    /\ last_refresh \in Nat \cup {Unset}
    /\ calendar \in SUBSET Int /\ unseen \in SUBSET Int
    /\ eval \in [Callers -> Evaluations]
    /\ lock = Free \/ lock \in Refreshes

\* A caller that waits asked at this tick or the one before; a cache that counts as available,
\* and a refresh that has found a calendar, hold the whole window they were asked for, but for
\* the events a calendar that answered left out.
WindowsAreWhole ==
    /\ \A c \in Callers : eval[c].at \in {"lock", "refresh"} =>
         /\ eval[c].current \in Nat
         /\ eval[c].current <= safety_clock /\ safety_clock <= eval[c].current + 1
    /\ last_refresh # Unset =>
         /\ last_refresh <= safety_clock
         /\ available => Fetched(last_refresh) \subseteq calendar \cup unseen
    /\ lock # Free =>
         /\ eval[lock.by].at = "refresh"
         /\ lock.available => Fetched(eval[lock.by].current) \subseteq lock.events \cup lock.unseen

SafetyInv == SafetyTypes /\ WindowsAreWhole /\ NearEventsBlocked

\* The decision of a caller that asked a tick ago at most, with a cache less than CheckInterval
\* older than its question: what is near now is in the cache, and near for the question too.
LEMMA DecisionIsSafe ==
    ASSUME SafetyTypes, NEW current \in Nat, NEW last \in Nat, NEW events, NEW score, NEW has,
           NEW missed,
           current <= safety_clock, safety_clock <= current + 1, last <= safety_clock,
           current - last < CheckInterval,
           has => Fetched(last) \subseteq events \cup missed,
           Decision(current, events, score, has) # "BLOCK_TRADE"
    PROVE  Near(safety_clock) \subseteq missed
<1>1. has /\ \A e \in events : ~ (e - BlockBefore <= current /\ current <= e + BlockAfter)
  BY DEF Decision
<1>2. ASSUME NEW e \in schedule, safety_clock - BlockAfter <= e,
             e <= safety_clock + BlockBefore - CheckInterval, e \notin missed
      PROVE  FALSE
  <2>1. /\ e \in Int /\ safety_clock \in Nat
        /\ BlockBefore \in Nat /\ BlockAfter \in Nat /\ CheckInterval \in Nat \ {0}
    BY SafetyAssumption DEF SafetyTypes
  <2>2. last - BlockAfter <= e /\ e <= last + BlockBefore
    BY <1>2, <2>1
  <2>3. e \in events
    BY <1>1, <1>2, <2>2 DEF Fetched
  <2>4. e - BlockBefore <= current /\ current <= e + BlockAfter
    BY <1>2, <2>1
  <2> QED
    BY <1>1, <2>3, <2>4
<1> QED
  BY <1>2 DEF Near

\* Every decision is one of the four of _action_for_score.
LEMMA DecisionTypes ==
    ASSUME NEW current, NEW events, NEW score, NEW has
    PROVE  Decision(current, events, score, has) \in Actions
  BY DEF Decision, ActionForScore, Actions

\* What a decision leaves of the evaluations.
LEMMA DecidedIsSafe ==
    ASSUME SafetyInv, NEW c \in Callers, NEW current \in Nat, NEW last \in Nat,
           NEW events, NEW score, NEW has, NEW missed \in SUBSET Int,
           Decided(c, current, events, score, has, missed), UNCHANGED <<schedule, safety_clock>>,
           current <= safety_clock, safety_clock <= current + 1, last <= safety_clock,
           current - last < CheckInterval,
           has => Fetched(last) \subseteq events \cup missed
    PROVE  /\ eval' \in [Callers -> Evaluations]
           /\ eval'[c].at = "done" /\ \A b \in Callers \ {c} : eval'[b] = eval[b]
           /\ NearEventsBlocked'
<1> DEFINE action == Decision(current, events, score, has)
<1>1. eval' = [eval EXCEPT ![c] = [at |-> "done", current |-> current, action |-> action,
                                   decided |-> safety_clock, unseen |-> missed]]
  BY DEF Decided
<1>2. action \in Actions
  BY DecisionTypes
<1>3. action # "BLOCK_TRADE" => Near(safety_clock) \subseteq missed
  BY DecisionIsSafe DEF SafetyInv
<1> HIDE DEF action
<1>4. /\ eval' \in [Callers -> Evaluations]
      /\ eval'[c] = [at |-> "done", current |-> current, action |-> action,
                     decided |-> safety_clock, unseen |-> missed]
      /\ \A b \in Callers \ {c} : eval'[b] = eval[b]
  BY <1>1, <1>2 DEF SafetyInv, SafetyTypes, Evaluations
<1>n. \A now : Near(now)' = Near(now)
  BY DEF Near
<1>5. NearEventsBlocked'
  BY <1>3, <1>4, <1>n DEF NearEventsBlocked, Allowed, SafetyInv
<1> QED
  BY <1>4, <1>5

\* A signal whose cache is fresh, when it asks or when it has the lock.
LEMMA CachedIsSafe ==
    ASSUME SafetyInv, NEW c \in Callers, EvaluateCached(c) \/ SkipRefresh(c)
    PROVE  SafetyInv'
<1> USE SafetyAssumption
<1> DEFINE current == IF EvaluateCached(c) THEN safety_clock ELSE eval[c].current
<1>1. /\ Decided(c, current, calendar, headline, available, unseen)
      /\ IsFresh(current)
      /\ UNCHANGED <<schedule, calendar, headline, last_refresh, available, unseen, lock,
                     safety_clock>>
      /\ eval[c].at \in {"idle", "done", "lock"}
  BY DEF EvaluateCached, SkipRefresh, cache
<1>2. current \in Nat /\ current <= safety_clock /\ safety_clock <= current + 1
  BY DEF EvaluateCached, SkipRefresh, SafetyInv, SafetyTypes, WindowsAreWhole, Evaluations
<1> HIDE DEF current
<1>3. /\ last_refresh \in Nat /\ last_refresh <= safety_clock
      /\ current - last_refresh < CheckInterval
      /\ available => Fetched(last_refresh) \subseteq calendar \cup unseen
      /\ unseen \in SUBSET Int
  BY <1>1 DEF IsFresh, SafetyInv, SafetyTypes, WindowsAreWhole
<1>4. /\ eval' \in [Callers -> Evaluations]
      /\ eval'[c].at = "done" /\ \A b \in Callers \ {c} : eval'[b] = eval[b]
      /\ NearEventsBlocked'
  BY <1>1, <1>2, <1>3, DecidedIsSafe
<1>5. SafetyTypes'
  BY <1>1, <1>4 DEF SafetyInv, SafetyTypes
<1>6. WindowsAreWhole'
  <2>1. lock # Free => lock.by # c /\ lock.by \in Callers
    BY <1>1 DEF SafetyInv, SafetyTypes, WindowsAreWhole, Refreshes
  <2>2. \A at : Fetched(at)' = Fetched(at)
    BY <1>1 DEF Fetched
  <2> QED
    BY <1>1, <1>4, <2>1, <2>2 DEF SafetyInv, WindowsAreWhole
<1> QED
  BY <1>4, <1>5, <1>6 DEF SafetyInv

\* A signal that has to wait for the lock, or gets it to refresh.
LEMMA WaitingIsSafe ==
    ASSUME SafetyInv, NEW c \in Callers, EvaluateStale(c) \/ BeginRefresh(c)
    PROVE  SafetyInv'
<1>1. /\ UNCHANGED <<schedule, calendar, headline, last_refresh, available, unseen, safety_clock>>
      /\ \A at : Fetched(at)' = Fetched(at) /\ Near(at)' = Near(at)
  BY DEF EvaluateStale, BeginRefresh, Fetched, Near, cache
<1>2. CASE EvaluateStale(c)
  <2> DEFINE waiting == [NotAsked EXCEPT !.at = "lock", !.current = safety_clock]
  <2>1. /\ eval' = [eval EXCEPT ![c] = waiting]
        /\ eval[c].at \in {"idle", "done"}
        /\ UNCHANGED lock
    BY <1>2 DEF EvaluateStale
  <2>2. "NONE" \in Actions
    BY DEF Actions
  <2>3. waiting \in Evaluations
    BY <2>2 DEF NotAsked, SafetyInv, SafetyTypes, Evaluations
  <2>4. waiting.at = "lock" /\ waiting.current = safety_clock
    BY DEF NotAsked
  <2> HIDE DEF waiting
  <2>5. SafetyTypes'
    BY <1>1, <2>1, <2>3 DEF SafetyInv, SafetyTypes
  <2>6. lock # Free => lock.by # c /\ lock.by \in Callers
    BY <2>1 DEF SafetyInv, SafetyTypes, WindowsAreWhole, Refreshes
  <2>7. WindowsAreWhole'
    BY <1>1, <2>1, <2>4, <2>6 DEF SafetyInv, SafetyTypes, WindowsAreWhole
  <2>8. NearEventsBlocked'
    BY <1>1, <2>1, <2>4 DEF SafetyInv, SafetyTypes, NearEventsBlocked, Allowed
  <2> QED
    BY <2>5, <2>7, <2>8 DEF SafetyInv
<1>3. CASE BeginRefresh(c)
  <2>1. /\ eval' = [eval EXCEPT ![c].at = "refresh"]
        /\ eval[c].at = "lock"
        /\ lock' = [by |-> c, i |-> 1, events |-> {}, score |-> 0, available |-> FALSE,
                    unseen |-> {}]
    BY <1>3 DEF BeginRefresh
  <2>2. 0 \in Scores
    BY DEF Scores
  <2>3. SafetyTypes'
    BY <1>1, <2>1, <2>2 DEF SafetyInv, SafetyTypes, Evaluations, Refreshes
  <2>4. WindowsAreWhole'
    BY <1>1, <2>1 DEF SafetyInv, SafetyTypes, WindowsAreWhole
  <2>5. NearEventsBlocked'
    BY <1>1, <2>1 DEF SafetyInv, SafetyTypes, NearEventsBlocked, Allowed
  <2> QED
    BY <2>3, <2>4, <2>5 DEF SafetyInv
<1> QED
  BY <1>2, <1>3

SetsOfTimes == SUBSET Int
Answers == {TRUE, FALSE}

\* The refresh after one more provider.
NextRefresh(r, found, skipped, worst, has) ==
    [r EXCEPT !.i = r.i + 1, !.events = r.events \cup found, !.available = has,
              !.unseen = r.unseen \cup skipped, !.score = worst]

LEMMA RefreshRecord ==
    ASSUME NEW r \in Refreshes, NEW found \in SetsOfTimes, NEW skipped \in SetsOfTimes,
           NEW worst \in Scores, NEW has \in Answers
    PROVE  /\ NextRefresh(r, found, skipped, worst, has) \in Refreshes
           /\ NextRefresh(r, found, skipped, worst, has).by = r.by
           /\ NextRefresh(r, found, skipped, worst, has).available = has
           /\ NextRefresh(r, found, skipped, worst, has).events = r.events \cup found
           /\ NextRefresh(r, found, skipped, worst, has).unseen = r.unseen \cup skipped
<1> DEFINE i == r.i + 1
           events == r.events \cup found
           missing == r.unseen \cup skipped
           next == NextRefresh(r, found, skipped, worst, has)
<1>1. r.i \in Nat /\ r.events \in SUBSET Int /\ r.unseen \in SUBSET Int
  BY DEF Refreshes
<1>2. i \in Nat
  BY <1>1
<1>e. events \in SUBSET Int /\ missing \in SUBSET Int
  BY <1>1, Zenon DEF SetsOfTimes
<1>n. next = [r EXCEPT !.i = i, !.events = events, !.available = has, !.unseen = missing,
                       !.score = worst]
  BY DEF NextRefresh
<1> HIDE DEF i, events, missing, next
<1>3. /\ next \in Refreshes
      /\ next.by = r.by /\ next.available = has /\ next.events = events
      /\ next.unseen = missing
  BY <1>2, <1>e, <1>n DEF Refreshes, Answers
<1> QED
  BY <1>3 DEF events, missing, next

\* A provider that counts as a calendar gave the whole window it was asked for, or left
\* events out.
LEMMA FetchIsSafe ==
    ASSUME SafetyInv, NEW answers \in BOOLEAN, NEW headlines \in BOOLEAN, NEW score \in Scores,
           NEW found \in SUBSET schedule, FetchProvider(answers, found, headlines, score)
    PROVE  SafetyInv'
<1> DEFINE at == eval[lock.by].current
           window == WindowOf(Providers[lock.i], at)
           skipped == IF answers THEN window \ found ELSE {}
           has == lock.available \/ (Providers[lock.i].calendar /\ answers)
           worst == IF headlines /\ score > lock.score THEN score ELSE lock.score
<1>1. /\ lock # Free /\ lock.i <= Len(Providers)
      /\ lock' = [lock EXCEPT !.i = lock.i + 1, !.events = lock.events \cup found,
                              !.available = has, !.unseen = lock.unseen \cup skipped,
                              !.score = worst]
      /\ UNCHANGED <<schedule, calendar, headline, last_refresh, available, unseen, eval,
                     safety_clock>>
  BY DEF FetchProvider, cache
<1>2. lock \in Refreshes
  BY <1>1 DEF SafetyInv, SafetyTypes
<1>3. found \in SUBSET Int /\ skipped \in SUBSET Int /\ worst \in Scores
  <2>1. schedule \in SUBSET Int /\ lock.score \in Scores
    BY <1>2 DEF SafetyInv, SafetyTypes, Refreshes
  <2>2. window \subseteq schedule
    BY DEF WindowOf
  <2> HIDE DEF window
  <2> QED
    BY <2>1, <2>2
<1>h. has \in BOOLEAN
  BY <1>2 DEF Refreshes
<1>4. has /\ ~ lock.available => Fetched(at) \subseteq found \cup skipped
  BY DEF WindowOf, Fetched
<1> HIDE DEF skipped, has, worst
<1>5. /\ lock' \in Refreshes
      /\ lock'.by = lock.by /\ lock'.available = has
      /\ lock'.events = lock.events \cup found /\ lock'.unseen = lock.unseen \cup skipped
  <2>1. lock' = NextRefresh(lock, found, skipped, worst, has)
    BY <1>1 DEF NextRefresh
  <2>2. found \in SetsOfTimes /\ skipped \in SetsOfTimes /\ worst \in Scores
    BY <1>3 DEF SetsOfTimes
  <2>h. has \in Answers
    BY <1>h, Zenon DEF Answers
  <2> DEFINE next == NextRefresh(lock, found, skipped, worst, has)
  <2>3. /\ next \in Refreshes /\ next.by = lock.by /\ next.available = has
        /\ next.events = lock.events \cup found /\ next.unseen = lock.unseen \cup skipped
    BY <1>2, <2>h, <2>2, RefreshRecord
  <2>4. lock' = next
    BY <2>1
  <2> HIDE DEF next
  <2> QED
    BY <2>3, <2>4
<1>6. SafetyTypes'
  BY <1>1, <1>5 DEF SafetyInv, SafetyTypes
<1>7. \A x : Fetched(x)' = Fetched(x) /\ Near(x)' = Near(x)
  BY <1>1 DEF Fetched, Near
<1>8. WindowsAreWhole'
  BY <1>1, <1>4, <1>5, <1>7 DEF SafetyInv, WindowsAreWhole
<1> QED
  BY <1>1, <1>6, <1>7, <1>8 DEF SafetyInv, NearEventsBlocked, Allowed

\* The cache is replaced by what the refresh found, and its caller decides.
LEMMA EndIsSafe ==
    ASSUME SafetyInv, EndRefresh
    PROVE  SafetyInv'
<1> USE SafetyAssumption
<1> DEFINE c == lock.by
           current == eval[c].current
<1>1. /\ lock # Free /\ lock' = Free
      /\ calendar' = lock.events /\ available' = lock.available
      /\ last_refresh' = current /\ unseen' = lock.unseen \ lock.events
      /\ Decided(c, current, lock.events, lock.score, lock.available, unseen')
      /\ UNCHANGED <<schedule, safety_clock>>
  BY DEF EndRefresh
<1>2. /\ c \in Callers /\ eval[c].at = "refresh"
      /\ current \in Nat /\ current <= safety_clock /\ safety_clock <= current + 1
      /\ lock.available => Fetched(current) \subseteq lock.events \cup unseen'
      /\ calendar' \in SUBSET Int /\ unseen' \in SUBSET Int
  BY <1>1 DEF SafetyInv, SafetyTypes, WindowsAreWhole, Evaluations, Refreshes
<1>3. current - current < CheckInterval
  BY <1>2
<1> HIDE DEF c, current
<1>4. /\ eval' \in [Callers -> Evaluations]
      /\ eval'[c].at = "done" /\ \A b \in Callers \ {c} : eval'[b] = eval[b]
      /\ NearEventsBlocked'
  BY <1>1, <1>2, <1>3, DecidedIsSafe
<1>5. SafetyTypes'
  BY <1>1, <1>2, <1>4 DEF SafetyInv, SafetyTypes
<1>6. \A x : Fetched(x)' = Fetched(x)
  BY <1>1 DEF Fetched
<1>7. WindowsAreWhole'
  BY <1>1, <1>2, <1>4, <1>6 DEF SafetyInv, WindowsAreWhole
<1> QED
  BY <1>4, <1>5, <1>7 DEF SafetyInv

\* Nobody is kept waiting over more than one tick.
LEMMA SafetyTickIsSafe ==
    ASSUME SafetyInv, SafetyTick
    PROVE  SafetyInv'
<1>1. /\ safety_clock' = safety_clock + 1
      /\ \A c \in Callers : eval[c].at \in {"lock", "refresh"} => eval[c].current = safety_clock
      /\ UNCHANGED <<schedule, calendar, headline, last_refresh, available, unseen, lock, eval>>
  BY DEF SafetyTick, cache
<1>2. SafetyTypes'
  BY <1>1 DEF SafetyInv, SafetyTypes
<1>3. \A x : Fetched(x)' = Fetched(x) /\ Near(x)' = Near(x)
  BY <1>1 DEF Fetched, Near
<1>4. WindowsAreWhole'
  BY <1>1, <1>3 DEF SafetyInv, SafetyTypes, WindowsAreWhole, Unset
<1> QED
  BY <1>1, <1>2, <1>3, <1>4 DEF SafetyInv, NearEventsBlocked, Allowed

\* No trade is let through near a high-impact event that some provider gave, nor near any while
\* no calendar answered, but in the last CheckInterval of the window before it: whichever
\* providers fail or leave events out, for any callers, providers and windows (evaluate of
\* free_news_safety.py).
THEOREM TradesNearEventsAreBlocked == SafetySpec => []NearEventsBlocked
<1>1. SafetyInit => SafetyInv
  <2> SUFFICES ASSUME SafetyInit PROVE SafetyInv
    OBVIOUS
  <2>1. "NONE" \in Actions
    BY DEF Actions
  <2>2. schedule \in SUBSET Int
    BY SafetyAssumption DEF SafetyInit
  <2> QED
    BY <2>1, <2>2 DEF SafetyInit, SafetyInv, SafetyTypes, WindowsAreWhole, NearEventsBlocked,
                      Allowed, NotAsked, Unset, Evaluations
<1>2. SafetyInv /\ [SafetyNext]_safetyVars => SafetyInv'
  <2> SUFFICES ASSUME SafetyInv, [SafetyNext]_safetyVars PROVE SafetyInv'
    OBVIOUS
  <2>1. CASE UNCHANGED safetyVars
    BY <2>1 DEF safetyVars, cache, SafetyInv, SafetyTypes, WindowsAreWhole, NearEventsBlocked,
                Allowed, Fetched, Near
  <2> QED
    BY <2>1, CachedIsSafe, WaitingIsSafe, FetchIsSafe, EndIsSafe, SafetyTickIsSafe
       DEF SafetyNext
<1>3. SafetyInv => NearEventsBlocked
  BY DEF SafetyInv
<1> QED
  BY <1>1, <1>2, <1>3, PTL DEF SafetySpec

-----------------------------------------------------------------------------
(* The event bus *)

BusTypes ==
    /\ lists \in Seq(Seq(Handlers))
    /\ list_of \in [BusChannels -> 0..Len(lists)]
    /\ joining \in [Handlers -> BusChannels \cup {NoChannel}]
    /\ inbox \in Seq([ch : BusChannels, event : Nat, readable : BOOLEAN])
    /\ events_published \in Nat
    /\ dispatch \in [event : Nat, list : 0..Len(lists), i : Nat]
    /\ heard \in [Handlers -> Seq(Nat)]
    /\ owed \in [Handlers -> Seq(Nat)]

\* A list that is dispatched over, or that a channel has: no other is ever looked at again.
Live(g) == g = dispatch.list \/ \E ch \in BusChannels : list_of[ch] = g

\* A list names a handler once, and a handler that awaits its subscription is in none.
ListsAreClean ==
    /\ \A g \in DOMAIN lists : IsInjective(lists[g])
    /\ \A h \in Handlers : joining[h] # NoChannel =>
         \A g \in DOMAIN lists : Live(g) => h \notin ToSet(lists[g])

Dispatching == dispatch.list # 0

\* Handler h has its turn in the dispatch still to come.
ToCome(h) ==
    \E j \in DOMAIN lists[dispatch.list] :
        j >= dispatch.i /\ lists[dispatch.list][j] = h

\* In the middle of a dispatch exactly the handlers whose turn is to come are owed the event.
OwedIsToCome ==
    /\ ~ Dispatching => dispatch = NoDispatch
    /\ Dispatching => dispatch.i >= 1 /\ dispatch.i <= Len(lists[dispatch.list]) + 1
    /\ \A h \in Handlers :
         owed[h] = IF Dispatching /\ ToCome(h) THEN Append(heard[h], dispatch.event) ELSE heard[h]

BusInv == BusTypes /\ ListsAreClean /\ OwedIsToCome

\* A handler that joins a list that has not got it.
LEMMA JoinedList ==
    ASSUME NEW S, NEW s \in Seq(S), NEW x \in S, IsInjective(s), x \notin ToSet(s)
    PROVE  /\ Append(s, x) \in Seq(S) /\ Len(Append(s, x)) = Len(s) + 1
           /\ \A j \in 1..Len(s) : Append(s, x)[j] = s[j]
           /\ Append(s, x)[Len(s) + 1] = x
           /\ IsInjective(Append(s, x))
           /\ ToSet(Append(s, x)) = ToSet(s) \cup {x}
<1> DEFINE t == Append(s, x)
           n == Len(s)
<1>1. /\ t \in Seq(S) /\ n \in Nat /\ Len(t) = n + 1
      /\ DOMAIN s = 1..n /\ DOMAIN t = 1..(n + 1)
      /\ \A j \in 1..n : t[j] = s[j]
      /\ t[n + 1] = x
  OBVIOUS
<1> HIDE DEF t, n
<1>2. \A j \in 1..n : s[j] # x
  BY <1>1 DEF ToSet
<1>3. \A j \in 1..(n + 1) : j \in 1..n \/ j = n + 1
  BY <1>1
<1>4. IsInjective(t)
  BY <1>1, <1>2, <1>3 DEF IsInjective
<1>5. ToSet(t) = ToSet(s) \cup {x}
  BY <1>1, <1>3 DEF ToSet
<1> QED
  BY <1>1, <1>4, <1>5 DEF t, n

\* A registration, immediate or after the answer of Redis.
LEMMA RegisteredIsOwed ==
    ASSUME BusInv, NEW h \in Handlers, NEW ch \in BusChannels, list_of[ch] # 0,
           \A g \in DOMAIN lists : Live(g) => h \notin ToSet(lists[g]),
           Registered(h, ch),
           joining' \in [Handlers -> BusChannels \cup {NoChannel}],
           joining'[h] = NoChannel, \A x \in Handlers \ {h} : joining'[x] = joining[x],
           UNCHANGED <<list_of, inbox, events_published, dispatch, heard>>
    PROVE  BusInv'
<1> DEFINE g == list_of[ch]
           l == lists[g]
           l2 == Append(l, h)
<1>1. /\ g \in DOMAIN lists /\ l \in Seq(Handlers) /\ IsInjective(l)
      /\ h \notin ToSet(l) /\ DOMAIN lists = 1..Len(lists)
  BY DEF BusInv, BusTypes, ListsAreClean, Live
<1>2. /\ l2 \in Seq(Handlers) /\ Len(l2) = Len(l) + 1 /\ Len(l) \in Nat
      /\ \A j \in 1..Len(l) : l2[j] = l[j]
      /\ l2[Len(l) + 1] = h
      /\ IsInjective(l2) /\ ToSet(l2) = ToSet(l) \cup {h}
  BY <1>1, JoinedList
<1>3. lists' = [lists EXCEPT ![g] = l2]
  BY DEF Registered
<1> HIDE DEF l2
<1>4. /\ lists' \in Seq(Seq(Handlers)) /\ Len(lists') = Len(lists)
      /\ DOMAIN lists' = DOMAIN lists
      /\ lists'[g] = l2 /\ \A f \in DOMAIN lists \ {g} : lists'[f] = lists[f]
  BY <1>1, <1>2, <1>3 DEF BusInv, BusTypes
<1>5. owed' = IF dispatch.list = g THEN [owed EXCEPT ![h] = Append(owed[h], dispatch.event)]
              ELSE owed
  BY DEF Registered
<1>6. BusTypes'
  <2>1. dispatch.event \in Nat /\ owed[h] \in Seq(Nat)
    BY DEF BusInv, BusTypes
  <2>2. owed' \in [Handlers -> Seq(Nat)]
    BY <1>5, <2>1 DEF BusInv, BusTypes
  <2> QED
    BY <1>4, <2>2 DEF BusInv, BusTypes
<1>7. ListsAreClean'
  <2>1. \A f \in DOMAIN lists' : IsInjective(lists'[f])
    BY <1>2, <1>4 DEF BusInv, ListsAreClean
  <2>2. ASSUME NEW x \in Handlers, joining'[x] # NoChannel, NEW f \in DOMAIN lists',
               Live(f)'
        PROVE  x \notin ToSet(lists'[f])
    <3>1. x # h /\ joining[x] # NoChannel /\ Live(f)
      BY <2>2 DEF Live
    <3>2. x \notin ToSet(lists[f])
      BY <1>4, <2>2, <3>1 DEF BusInv, ListsAreClean
    <3> QED
      BY <1>2, <1>4, <2>2, <3>1, <3>2
  <2> QED
    BY <2>1, <2>2 DEF ListsAreClean
<1>8. OwedIsToCome'
  <2>1. CASE dispatch.list # g
    <3>1. Dispatching => lists'[dispatch.list] = lists[dispatch.list]
      BY <1>4, <2>1 DEF BusInv, BusTypes, Dispatching
    <3> QED
      BY <1>5, <2>1, <3>1 DEF BusInv, OwedIsToCome, Dispatching, ToCome
  <2>2. CASE dispatch.list = g
    <3>1. Dispatching /\ Dispatching' /\ dispatch.i \in Nat
          /\ dispatch.i >= 1 /\ dispatch.i <= Len(l) + 1
      BY <2>2 DEF Dispatching, BusInv, BusTypes, OwedIsToCome
    <3>2. DOMAIN l = 1..Len(l) /\ DOMAIN l2 = 1..(Len(l) + 1)
      BY <1>1, <1>2
    <3>3. \A x \in Handlers : ToCome(x)' <=> ToCome(x) \/ x = h
      <4> TAKE x \in Handlers
      <4>1. ToCome(x) <=> \E j \in 1..Len(l) : j >= dispatch.i /\ l[j] = x
        BY <2>2, <3>2 DEF ToCome
      <4>2. ToCome(x)' <=> \E j \in 1..(Len(l) + 1) : j >= dispatch.i /\ l2[j] = x
        BY <1>4, <2>2, <3>2 DEF ToCome
      <4> HIDE DEF l
      <4>3. ASSUME ToCome(x) PROVE ToCome(x)'
        BY <1>2, <4>1, <4>2, <4>3
      <4>4. ASSUME x = h PROVE ToCome(x)'
        <5>1. Len(l) + 1 \in 1..(Len(l) + 1)
          BY <1>2
        <5> QED
          BY <1>2, <3>1, <4>2, <4>4, <5>1
      <4>5. ASSUME ToCome(x)' PROVE ToCome(x) \/ x = h
        BY <1>2, <4>1, <4>2, <4>5
      <4> QED
        BY <4>3, <4>4, <4>5
    <3>4. ~ ToCome(h)
      BY <1>1, <2>2 DEF ToCome, ToSet
    <3>5. /\ owed[h] = heard[h] /\ owed'[h] = Append(owed[h], dispatch.event)
          /\ \A x \in Handlers \ {h} : owed'[x] = owed[x]
      BY <1>5, <2>2, <3>4 DEF BusInv, BusTypes, OwedIsToCome
    <3>6. \A x \in Handlers :
            owed'[x] = IF ToCome(x)' THEN Append(heard[x], dispatch.event) ELSE heard[x]
      BY <3>1, <3>3, <3>5 DEF BusInv, OwedIsToCome
    <3> QED
      BY <1>2, <1>4, <2>2, <3>1, <3>6 DEF OwedIsToCome
  <2> QED
    BY <2>1, <2>2
<1> QED
  BY <1>6, <1>7, <1>8 DEF BusInv

\* The steps of subscribe().
LEMMA SubscribingIsOwed ==
    ASSUME BusInv, NEW h \in Handlers,
           \/ \E ch \in BusChannels : SubscribeKnown(h, ch) \/ SubscribeNew(h, ch)
           \/ Join(h) \/ JoinFails(h)
    PROVE  BusInv'
<1>1. ASSUME NEW ch \in BusChannels, SubscribeKnown(h, ch)
      PROVE  BusInv'
  <2>1. /\ list_of[ch] # 0 /\ Registered(h, ch) /\ joining[h] = NoChannel
        /\ UNCHANGED <<list_of, joining, inbox, events_published, dispatch, heard>>
    BY <1>1 DEF SubscribeKnown
  <2>2. \A g \in DOMAIN lists : Live(g) => h \notin ToSet(lists[g])
    BY <1>1 DEF SubscribeKnown, Unregistered, Live
  <2>3. joining' \in [Handlers -> BusChannels \cup {NoChannel}]
    BY <2>1 DEF BusInv, BusTypes
  <2> QED
    BY <2>1, <2>2, <2>3, RegisteredIsOwed
<1>2. ASSUME NEW ch \in BusChannels, SubscribeNew(h, ch)
      PROVE  BusInv'
  <2> DEFINE n == Len(lists)
  <2>1. /\ lists' = Append(lists, <<>>)
        /\ list_of' = [list_of EXCEPT ![ch] = n + 1]
        /\ joining' = [joining EXCEPT ![h] = ch]
        /\ Unregistered(h) /\ list_of[ch] = 0
        /\ UNCHANGED <<inbox, events_published, dispatch, heard, owed>>
    BY <1>2 DEF SubscribeNew
  <2>2. n \in Nat /\ DOMAIN lists = 1..n /\ dispatch.list \in 0..n /\ list_of[ch] \in 0..n
    BY DEF BusInv, BusTypes
  <2>3. <<>> \in Seq(Handlers)
    OBVIOUS
  <2>4. /\ lists' \in Seq(Seq(Handlers)) /\ Len(lists') = n + 1 /\ DOMAIN lists' = 1..(n + 1)
        /\ \A g \in 1..n : lists'[g] = lists[g]
        /\ lists'[n + 1] = <<>>
    BY <2>1, <2>3 DEF BusInv, BusTypes
  <2> HIDE DEF n
  <2>5. BusTypes'
    BY <2>1, <2>2, <2>4 DEF BusInv, BusTypes
  <2>6. IsInjective(lists'[n + 1]) /\ ToSet(lists'[n + 1]) = {}
    BY <2>4 DEF IsInjective, ToSet
  <2>7. \A g \in 1..(n + 1) : g \in 1..n \/ g = n + 1
    BY <2>2
  <2>8. \A g \in 1..n : Live(g)' => Live(g)
    BY <2>1, <2>2 DEF Live, BusInv, BusTypes
  <2>9. ListsAreClean'
    <3>1. \A g \in DOMAIN lists' : IsInjective(lists'[g])
      BY <2>2, <2>4, <2>6, <2>7 DEF BusInv, ListsAreClean
    <3>2. ASSUME NEW x \in Handlers, joining'[x] # NoChannel, NEW g \in DOMAIN lists', Live(g)'
          PROVE  x \notin ToSet(lists'[g])
      <4>1. CASE g = n + 1
        BY <2>6, <4>1
      <4>2. CASE g \in 1..n
        <5>1. lists'[g] = lists[g] /\ Live(g) /\ g \in DOMAIN lists
          BY <2>2, <2>4, <2>8, <3>2, <4>2
        <5>2. CASE x = h
          BY <2>1, <5>1, <5>2 DEF Unregistered, Live
        <5>3. CASE x # h
          <6>1. joining[x] # NoChannel
            BY <2>1, <3>2, <5>3
          <6> QED
            BY <5>1, <6>1 DEF BusInv, ListsAreClean
        <5> QED
          BY <5>2, <5>3
      <4> QED
        BY <2>4, <2>7, <3>2, <4>1, <4>2
    <3> QED
      BY <3>1, <3>2 DEF ListsAreClean
  <2>10. OwedIsToCome'
    <3>1. Dispatching => lists'[dispatch'.list] = lists[dispatch.list]
      BY <2>1, <2>2, <2>4 DEF Dispatching
    <3>2. Dispatching' <=> Dispatching
      BY <2>1 DEF Dispatching
    <3>3. Dispatching => \A x \in Handlers : ToCome(x)' <=> ToCome(x)
      BY <2>1, <3>1 DEF ToCome
    <3> QED
      BY <2>1, <3>1, <3>2, <3>3 DEF BusInv, OwedIsToCome
  <2> QED
    BY <2>5, <2>9, <2>10 DEF BusInv
<1>3. ASSUME Join(h)
      PROVE  BusInv'
  <2> DEFINE ch == joining[h]
  <2>1. /\ ch # NoChannel
        /\ joining' = [joining EXCEPT ![h] = NoChannel]
        /\ IF list_of[ch] = 0 THEN UNCHANGED <<lists, owed>> ELSE Registered(h, ch)
        /\ UNCHANGED <<list_of, inbox, events_published, dispatch, heard>>
    BY <1>3 DEF Join
  <2>2. ch \in BusChannels
    BY <2>1 DEF BusInv, BusTypes
  <2>3. /\ joining' \in [Handlers -> BusChannels \cup {NoChannel}]
        /\ joining'[h] = NoChannel /\ \A x \in Handlers \ {h} : joining'[x] = joining[x]
    BY <2>1 DEF BusInv, BusTypes
  <2>4. \A g \in DOMAIN lists : Live(g) => h \notin ToSet(lists[g])
    BY <2>1 DEF BusInv, ListsAreClean
  <2> HIDE DEF ch
  <2>5. CASE list_of[ch] # 0
    BY <2>1, <2>2, <2>3, <2>4, <2>5, RegisteredIsOwed
  <2>6. CASE list_of[ch] = 0
    <3>1. UNCHANGED <<lists, owed, list_of, inbox, events_published, dispatch, heard>>
      BY <2>1, <2>6
    <3> QED
      BY <2>3, <3>1 DEF BusInv, BusTypes, ListsAreClean, Live, OwedIsToCome, Dispatching, ToCome
  <2> QED
    BY <2>5, <2>6
<1>4. ASSUME JoinFails(h)
      PROVE  BusInv'
  <2>1. /\ joining' = [joining EXCEPT ![h] = NoChannel]
        /\ UNCHANGED <<lists, owed, list_of, inbox, events_published, dispatch, heard>>
    BY <1>4 DEF JoinFails
  <2>2. /\ joining' \in [Handlers -> BusChannels \cup {NoChannel}]
        /\ joining'[h] = NoChannel /\ \A x \in Handlers \ {h} : joining'[x] = joining[x]
    BY <2>1 DEF BusInv, BusTypes
  <2> QED
    BY <2>1, <2>2 DEF BusInv, BusTypes, ListsAreClean, Live, OwedIsToCome, Dispatching, ToCome
<1> QED
  BY <1>1, <1>2, <1>3, <1>4

\* The listener reads an event, calls the next handler, and ends the dispatch.
LEMMA DispatchingIsOwed ==
    ASSUME BusInv, ReadMessage \/ (\E raises \in BOOLEAN : Handled(raises)) \/ DispatchEnds
    PROVE  BusInv'
<1> DEFINE l == lists[dispatch.list]
<1>1. ASSUME ReadMessage
      PROVE  BusInv'
  <2> DEFINE x == Head(inbox)
             m == lists[list_of[x.ch]]
  <2>1. /\ dispatch = NoDispatch /\ inbox # <<>> /\ inbox' = Tail(inbox)
        /\ UNCHANGED <<list_of, lists, joining, events_published, heard>>
    BY <1>1 DEF ReadMessage, registry
  <2>2. /\ x \in [ch : BusChannels, event : Nat, readable : BOOLEAN]
        /\ inbox' \in Seq([ch : BusChannels, event : Nat, readable : BOOLEAN])
    <3> DEFINE Messages == [ch : BusChannels, event : Nat, readable : BOOLEAN]
    <3>1. inbox \in Seq(Messages)
      BY DEF BusInv, BusTypes
    <3> HIDE DEF Messages
    <3>2. x \in Messages /\ inbox' \in Seq(Messages)
      BY <2>1, <3>1
    <3> QED
      BY <3>2 DEF Messages
  <2>3. ~ Dispatching /\ dispatch.list = 0
    BY <2>1 DEF Dispatching, NoDispatch
  <2>4. CASE x.readable /\ list_of[x.ch] # 0
    <3>1. /\ dispatch' = [event |-> x.event, list |-> list_of[x.ch], i |-> 1]
          /\ owed' = [h \in Handlers |-> IF h \in ToSet(m)
                                         THEN Append(owed[h], x.event) ELSE owed[h]]
      BY <1>1, <2>4 DEF ReadMessage
    <3>2. /\ x.event \in Nat /\ x.ch \in BusChannels
          /\ list_of[x.ch] \in 0..Len(lists) /\ list_of[x.ch] \in DOMAIN lists
          /\ m \in Seq(Handlers) /\ DOMAIN m = 1..Len(m) /\ Len(m) \in Nat
      BY <2>2, <2>4 DEF BusInv, BusTypes
    <3>3. /\ dispatch' \in [event : Nat, list : 0..Len(lists), i : Nat]
          /\ dispatch'.list = list_of[x.ch] /\ dispatch'.i = 1 /\ dispatch'.event = x.event
      BY <3>1, <3>2
    <3>4. lists'[dispatch'.list] = m
      BY <2>1, <3>3
    <3> HIDE DEF x, m
    <3>5. owed' \in [Handlers -> Seq(Nat)]
      BY <3>1, <3>2 DEF BusInv, BusTypes
    <3>6. BusTypes'
      BY <2>1, <2>2, <3>3, <3>5 DEF BusInv, BusTypes
    <3>7. ListsAreClean'
      BY <2>1, <3>2, <3>3 DEF BusInv, ListsAreClean, Live
    <3>8. Dispatching'
      BY <2>4, <3>3 DEF Dispatching
    <3>9. \A h \in Handlers : ToCome(h)' <=> h \in ToSet(m)
      BY <3>2, <3>3, <3>4 DEF ToCome, ToSet
    <3>10. OwedIsToCome'
      BY <2>1, <2>3, <3>1, <3>2, <3>3, <3>4, <3>8, <3>9 DEF BusInv, OwedIsToCome
    <3> QED
      BY <3>6, <3>7, <3>10 DEF BusInv
  <2>5. CASE ~ (x.readable /\ list_of[x.ch] # 0)
    <3>1. UNCHANGED <<dispatch, owed>>
      BY <1>1, <2>5 DEF ReadMessage
    <3> HIDE DEF x
    <3> QED
      BY <2>1, <2>2, <3>1 DEF BusInv, BusTypes, ListsAreClean, Live, OwedIsToCome, Dispatching,
                              ToCome
  <2> QED
    BY <2>4, <2>5
<1>2. ASSUME NEW raises \in BOOLEAN, Handled(raises)
      PROVE  BusInv'
  <2> DEFINE h == l[dispatch.i]
  <2>1. /\ dispatch # NoDispatch /\ dispatch.i <= Len(l)
        /\ heard' = [heard EXCEPT ![h] = Append(heard[h], dispatch.event)]
        /\ dispatch' = [dispatch EXCEPT !.i = dispatch.i + 1]
        /\ UNCHANGED <<list_of, lists, joining, inbox, events_published, owed>>
    BY <1>2 DEF Handled, registry
  <2>2. /\ Dispatching /\ dispatch.i \in Nat /\ dispatch.i >= 1
        /\ dispatch.event \in Nat /\ dispatch.list \in DOMAIN lists
    BY <2>1 DEF BusInv, BusTypes, OwedIsToCome, Dispatching
  <2>3. /\ l \in Seq(Handlers) /\ DOMAIN l = 1..Len(l) /\ Len(l) \in Nat
        /\ IsInjective(l) /\ dispatch.i \in DOMAIN l /\ h \in Handlers
    BY <2>1, <2>2 DEF BusInv, BusTypes, ListsAreClean
  <2>4. /\ dispatch' \in [event : Nat, list : 0..Len(lists), i : Nat]
        /\ dispatch'.list = dispatch.list /\ dispatch'.event = dispatch.event
        /\ dispatch'.i = dispatch.i + 1
    <3> DEFINE next == dispatch.i + 1
               Places == 0..Len(lists)
    <3>1. next \in Nat /\ dispatch \in [event : Nat, list : Places, i : Nat]
      BY <2>2 DEF BusInv, BusTypes
    <3>2. dispatch' = [dispatch EXCEPT !.i = next]
      BY <2>1
    <3> HIDE DEF next, Places
    <3>3. /\ dispatch' \in [event : Nat, list : Places, i : Nat]
          /\ dispatch'.list = dispatch.list /\ dispatch'.event = dispatch.event
          /\ dispatch'.i = next
      BY <3>1, <3>2
    <3> QED
      BY <3>3 DEF next, Places
  <2>5. /\ heard' \in [Handlers -> Seq(Nat)]
        /\ heard'[h] = Append(heard[h], dispatch.event)
        /\ \A x \in Handlers \ {h} : heard'[x] = heard[x]
    <3> HIDE DEF h
    <3>1. heard \in [Handlers -> Seq(Nat)] /\ heard[h] \in Seq(Nat)
      BY <2>3 DEF BusInv, BusTypes
    <3>2. Append(heard[h], dispatch.event) \in Seq(Nat)
      BY <2>2, <3>1
    <3> QED
      BY <2>1, <2>3, <3>1, <3>2
  <2>6. BusTypes'
    BY <2>1, <2>4, <2>5 DEF BusInv, BusTypes
  <2>7. ListsAreClean'
    BY <2>1, <2>4 DEF BusInv, ListsAreClean, Live
  <2>8. ToCome(h)
    BY <2>2, <2>3 DEF ToCome
  <2>9. \A x \in Handlers : x = h => ~ ToCome(x)'
    <3>1. lists'[dispatch'.list] = l
      BY <2>1, <2>4
    <3>2. \A j \in DOMAIN l : l[j] = l[dispatch.i] => j = dispatch.i
      BY <2>3 DEF IsInjective
    <3>3. \A j \in DOMAIN l : j >= dispatch.i + 1 => l[j] # h
      BY <2>2, <2>3, <3>2
    <3> QED
      BY <2>4, <3>1, <3>3 DEF ToCome
  <2>10. \A x \in Handlers \ {h} : ToCome(x)' <=> ToCome(x)
    BY SMTT(60), <2>1, <2>2, <2>3, <2>4 DEF ToCome
  <2>11. Dispatching'
    BY <2>2, <2>4 DEF Dispatching
  <2> HIDE DEF h
  <2>12. \A x \in Handlers :
           owed'[x] = IF ToCome(x)' THEN Append(heard'[x], dispatch'.event) ELSE heard'[x]
    <3>1. owed'[h] = heard'[h]
      BY <2>1, <2>2, <2>3, <2>5, <2>8 DEF BusInv, OwedIsToCome
    <3>2. \A x \in Handlers \ {h} :
            owed'[x] = IF ToCome(x)' THEN Append(heard'[x], dispatch'.event) ELSE heard'[x]
      BY <2>1, <2>2, <2>4, <2>5, <2>10 DEF BusInv, OwedIsToCome
    <3>3. \A x \in Handlers : x = h =>
            owed'[x] = IF ToCome(x)' THEN Append(heard'[x], dispatch'.event) ELSE heard'[x]
      BY <2>9, <3>1
    <3> QED
      BY <3>2, <3>3
  <2>13. dispatch'.i >= 1 /\ dispatch'.i <= Len(lists'[dispatch'.list]) + 1
    BY <2>1, <2>2, <2>3, <2>4
  <2> QED
    BY <2>6, <2>7, <2>11, <2>12, <2>13 DEF BusInv, OwedIsToCome
<1>3. ASSUME DispatchEnds
      PROVE  BusInv'
  <2>1. /\ dispatch # NoDispatch /\ dispatch.i > Len(l) /\ dispatch' = NoDispatch
        /\ UNCHANGED <<list_of, lists, joining, inbox, events_published, heard, owed>>
    BY <1>3 DEF DispatchEnds, registry
  <2>2. /\ dispatch' \in [event : Nat, list : 0..Len(lists), i : Nat]
        /\ ~ Dispatching'
    BY <2>1 DEF NoDispatch, BusInv, BusTypes, Dispatching
  <2>3. dispatch.list \in DOMAIN lists /\ DOMAIN l = 1..Len(l) /\ Len(l) \in Nat
        /\ dispatch.i \in Nat
    BY <2>1 DEF BusInv, BusTypes, OwedIsToCome, Dispatching
  <2>4. \A h \in Handlers : ~ ToCome(h)
    BY <2>1, <2>3 DEF ToCome
  <2>5. \A h \in Handlers : owed'[h] = heard'[h]
    BY <2>1, <2>4 DEF BusInv, OwedIsToCome
  <2>6. OwedIsToCome'
    BY <2>1, <2>2, <2>5 DEF OwedIsToCome
  <2>7. \A g \in DOMAIN lists : Live(g)' => Live(g)
    BY <2>1, <2>2 DEF Live, NoDispatch, BusInv, BusTypes
  <2>8. ListsAreClean'
    BY <2>1, <2>7 DEF BusInv, ListsAreClean
  <2> QED
    BY <2>1, <2>2, <2>6, <2>8 DEF BusInv, BusTypes
<1> QED
  BY <1>1, <1>2, <1>3

\* What comes from outside the listener: starts, stops, publications, losses, unsubscriptions.
LEMMA OutsideIsOwed ==
    ASSUME BusInv,
           \/ StartBus \/ StopBus \/ BusConnectionLost \/ UNCHANGED busVars
           \/ \E ch \in BusChannels : UnsubscribeChannel(ch)
                                      \/ \E readable \in BOOLEAN : Publish(ch, readable)
    PROVE  BusInv'
<1>1. CASE StartBus \/ UNCHANGED busVars
  BY <1>1 DEF StartBus, busVars, registry, BusInv, BusTypes, ListsAreClean, Live, OwedIsToCome,
              Dispatching, ToCome
<1>2. CASE StopBus
  <2>1. /\ list_of' = [ch \in BusChannels |-> 0] /\ dispatch' = NoDispatch
        /\ inbox' = <<>> /\ owed' = heard
        /\ UNCHANGED <<lists, joining, events_published, heard>>
    BY <1>2 DEF StopBus
  <2>2. /\ dispatch' \in [event : Nat, list : 0..Len(lists), i : Nat]
        /\ ~ Dispatching' /\ dispatch'.list = 0
    BY <2>1 DEF NoDispatch, BusInv, BusTypes, Dispatching
  <2>3. \A g \in DOMAIN lists : ~ Live(g)'
    BY <2>1, <2>2 DEF Live, BusInv, BusTypes
  <2>4. <<>> \in Seq([ch : BusChannels, event : Nat, readable : BOOLEAN])
    OBVIOUS
  <2>5. list_of' \in [BusChannels -> 0..Len(lists)]
    BY <2>1 DEF BusInv, BusTypes
  <2>6. BusTypes'
    BY <2>1, <2>2, <2>4, <2>5 DEF BusInv, BusTypes
  <2>7. ListsAreClean'
    BY <2>1, <2>3 DEF BusInv, ListsAreClean
  <2>8. OwedIsToCome'
    BY <2>1, <2>2 DEF OwedIsToCome
  <2> QED
    BY <2>6, <2>7, <2>8 DEF BusInv
<1>3. CASE BusConnectionLost
  <2>1. <<>> \in Seq([ch : BusChannels, event : Nat, readable : BOOLEAN])
    OBVIOUS
  <2> QED
    BY <1>3, <2>1 DEF BusConnectionLost, registry, BusInv, BusTypes, ListsAreClean, Live,
                      OwedIsToCome, Dispatching, ToCome
<1>4. ASSUME NEW ch \in BusChannels, UnsubscribeChannel(ch)
      PROVE  BusInv'
  <2>1. /\ list_of' = [list_of EXCEPT ![ch] = 0]
        /\ UNCHANGED <<lists, joining, inbox, events_published, dispatch, heard, owed>>
    BY <1>4 DEF UnsubscribeChannel
  <2>2. list_of' \in [BusChannels -> 0..Len(lists)]
    BY <2>1 DEF BusInv, BusTypes
  <2>3. \A g \in DOMAIN lists : Live(g)' => Live(g)
    BY <2>1 DEF Live, BusInv, BusTypes
  <2> QED
    BY <2>1, <2>2, <2>3 DEF BusInv, BusTypes, ListsAreClean, OwedIsToCome, Dispatching, ToCome
<1>5. ASSUME NEW ch \in BusChannels, NEW readable \in BOOLEAN, Publish(ch, readable)
      PROVE  BusInv'
  <2>1. /\ events_published' = events_published + 1
        /\ \/ inbox' = inbox
           \/ inbox' = Append(inbox, [ch |-> ch, event |-> events_published + 1,
                                      readable |-> readable])
        /\ UNCHANGED <<list_of, lists, joining, dispatch, heard, owed>>
    BY <1>5 DEF Publish, registry
  <2>2. /\ events_published' \in Nat
        /\ inbox' \in Seq([ch : BusChannels, event : Nat, readable : BOOLEAN])
    <3> DEFINE Messages == [ch : BusChannels, event : Nat, readable : BOOLEAN]
               m == [ch |-> ch, event |-> events_published + 1, readable |-> readable]
    <3>1. inbox \in Seq(Messages) /\ events_published' \in Nat
      BY <2>1 DEF BusInv, BusTypes
    <3>2. m \in Messages
      BY DEF BusInv, BusTypes
    <3>3. inbox' = inbox \/ inbox' = Append(inbox, m)
      BY <2>1
    <3> HIDE DEF Messages, m
    <3>4. inbox' \in Seq(Messages)
      BY <3>1, <3>2, <3>3
    <3> QED
      BY <3>1, <3>4 DEF Messages
  <2> QED
    BY <2>1, <2>2 DEF BusInv, BusTypes, ListsAreClean, Live, OwedIsToCome, Dispatching, ToCome
<1> QED
  BY <1>1, <1>2, <1>3, <1>4, <1>5

\* Between two events each handler was called exactly with the events read while it was
\* registered, in order, whatever other handlers do meanwhile: for any channels, handlers and
\* numbers of events and lists (_listen and _dispatch of event_bus.py).
THEOREM HandlersMissNothing == BusSpec => []HandlersHearAll
<1>1. BusInit => BusInv
  <2> SUFFICES ASSUME BusInit PROVE BusInv
    OBVIOUS
  <2>1. BusTypes
    BY BusAssumption DEF BusInit, BusTypes, NoDispatch
  <2>2. ListsAreClean
    BY DEF BusInit, ListsAreClean
  <2>3. OwedIsToCome
    BY DEF BusInit, OwedIsToCome, Dispatching, NoDispatch
  <2> QED
    BY <2>1, <2>2, <2>3 DEF BusInv
<1>2. BusInv /\ [BusNext]_busVars => BusInv'
  BY SubscribingIsOwed, DispatchingIsOwed, OutsideIsOwed DEF BusNext
<1>3. BusInv => HandlersHearAll
  BY DEF BusInv, OwedIsToCome, HandlersHearAll, Dispatching, NoDispatch
<1> QED
  BY <1>1, <1>2, <1>3, PTL DEF BusSpec

-----------------------------------------------------------------------------
(* The feeds *)

\* The reference to the listener is never lost while it runs, a reconnection is under way only
\* when it has ended, and a source that is stopped has neither.
ReutersInv ==
    /\ engine \in {"stopped", "running", "cancelling", "closing"}
    /\ shutting_down \in BOOLEAN /\ reconnect_task \in BOOLEAN
    /\ reconnect \in Nat
    /\ listeners \subseteq {listener_task}
    /\ engine \in {"cancelling", "closing"} => shutting_down
    /\ reconnect # NoReconnection => reconnect_task /\ listeners = {}
    /\ engine = "closing" => reconnect = NoReconnection
    /\ engine = "stopped" => reconnect = NoReconnection /\ listeners = {}

\* Each step of the source, its engine and its tasks keeps the invariant.
LEMMA ReutersStep ==
    ASSUME ReutersInv, [ReutersNext]_reutersVars
    PROVE  ReutersInv'
<1> USE ReutersAssumption DEF ReutersInv, NoReconnection
<1>1. CASE Connect
  BY <1>1 DEF Connect, StartListener
<1>2. CASE BeginDisconnect
  BY <1>2 DEF BeginDisconnect
<1>3. CASE CancelReconnection
  BY <1>3 DEF CancelReconnection
<1>4. CASE CloseFeed
  BY <1>4 DEF CloseFeed
<1>5. ASSUME NEW t \in 1..MaxTasks, Receive(t) \/ ListenerEnds(t)
      PROVE  ReutersInv'
  BY <1>5 DEF Receive, ListenerEnds
<1>6. ASSUME NEW t \in 1..MaxTasks, ConnectionLost(t)
      PROVE  ReutersInv'
  <2>1. t = listener_task /\ listeners' = {} /\ engine # "stopped"
    BY <1>6 DEF ConnectionLost
  <2>2. CASE shutting_down
    BY <1>6, <2>1, <2>2 DEF ConnectionLost
  <2>3. CASE ~shutting_down
    BY <1>6, <2>1, <2>3 DEF ConnectionLost
  <2> QED
    BY <2>2, <2>3
<1>7. CASE Reconnected
  BY <1>7 DEF Reconnected, StartListener
<1>8. CASE AttemptFails
  BY <1>8 DEF AttemptFails
<1>9. CASE ReconnectionEnds \/ Ages \/ UNCHANGED reutersVars
  BY <1>9 DEF ReconnectionEnds, Ages, reutersVars
<1> QED
  BY <1>1, <1>2, <1>3, <1>4, <1>5, <1>6, <1>7, <1>8, <1>9 DEF ReutersNext

\* A Bloomberg feed that is up has the tasks its references name, and one that is not has none
\* of them asleep; a reconnection is only under way when both have ended and the engine is not
\* disconnecting. All this until a disconnect() meets a teardown.
BloombergWhole ==
    /\ topics = wanted
    /\ DOMAIN heartbeat \subseteq {tracked.heartbeat}
    /\ listener \subseteq {tracked.listener}
    /\ \A h \in DOMAIN heartbeat : heartbeat[h] = IF linked THEN "sleep" ELSE "teardown"
    /\ linked => state = "STREAMING" /\ listener # {} /\ backoff = "none"
    /\ linked /\ caller = "running" => DOMAIN heartbeat # {}
    /\ backoff # "none" => caller = "running" /\ DOMAIN heartbeat = {} /\ listener = {}
    /\ caller # "running" => DOMAIN heartbeat = {}
    /\ caller \in {"idle", "authenticating"} => ~linked /\ listener = {}

BloombergInv ==
    /\ linked \in BOOLEAN /\ left_behind \in BOOLEAN
    /\ ~left_behind => BloombergWhole

\* A feed that starts with no task left of the one before.
LEMMA StartedIsWhole ==
    ASSUME BloombergWhole, DOMAIN heartbeat = {}, listener = {}, StartTasks,
           backoff' = "none", linked' = TRUE, state' = "STREAMING", caller' = "running",
           topics' = wanted'
    PROVE  BloombergWhole'
<1>1. /\ listener' = {feeds + 1} /\ tracked' = [listener |-> feeds + 1, heartbeat |-> feeds + 1]
      /\ DOMAIN heartbeat' = {feeds + 1} /\ heartbeat'[feeds + 1] = "sleep"
  BY DEF StartTasks
<1> QED
  BY <1>1 DEF BloombergWhole

\* The calls of the engine.
LEMMA EngineStep ==
    ASSUME BloombergInv,
           \/ BeginConnect \/ SkipConnect \/ Authenticated \/ AuthenticationFails
           \/ \E t \in Topics : Subscribe(t) \/ UnsubscribeTopic(t)
           \/ CancelBackoff \/ CancelHeartbeat \/ CloseBloomberg
    PROVE  BloombergInv'
<1>1. CASE BeginConnect
  BY <1>1 DEF BeginConnect, BloombergInv, BloombergWhole
<1>2. CASE SkipConnect
  BY <1>2 DEF SkipConnect, BloombergInv, BloombergWhole
<1>3. CASE Authenticated
  <2>1. /\ caller = "authenticating" /\ StartTasks
        /\ linked' = TRUE /\ state' = "STREAMING" /\ caller' = "running"
        /\ topics' = topics \cup DefaultTopics /\ wanted' = wanted \cup DefaultTopics
        /\ UNCHANGED <<backoff, left_behind>>
    BY <1>3 DEF Authenticated
  <2>2. ASSUME ~left_behind PROVE BloombergWhole'
    <3>1. /\ BloombergWhole /\ DOMAIN heartbeat = {} /\ listener = {} /\ backoff = "none"
          /\ topics = wanted
      BY <2>1, <2>2 DEF BloombergInv, BloombergWhole
    <3> QED
      BY <2>1, <3>1, StartedIsWhole
  <2> QED
    BY <2>1, <2>2 DEF BloombergInv
<1>4. CASE AuthenticationFails
  BY <1>4 DEF AuthenticationFails, BloombergInv, BloombergWhole
<1>5. ASSUME NEW t \in Topics, Subscribe(t) \/ UnsubscribeTopic(t)
      PROVE  BloombergInv'
  BY <1>5 DEF Subscribe, UnsubscribeTopic, BloombergInv, BloombergWhole
<1>6. CASE CancelBackoff
  BY <1>6 DEF CancelBackoff, BloombergInv, BloombergWhole
<1>7. CASE CancelHeartbeat
  <2> DEFINE h == tracked.heartbeat
             teardown == h \in DOMAIN heartbeat /\ heartbeat[h] = "teardown"
  <2>1. /\ caller = "heartbeat" \/ (caller = "running" /\ backoff = "none")
        /\ caller' = "listener"
        /\ DOMAIN heartbeat' = DOMAIN heartbeat \ {h}
        /\ left_behind' = (left_behind \/ teardown)
        /\ UNCHANGED <<state, linked, authenticated, topics, attempts, feeds, wanted>>
    BY <1>7 DEF CancelHeartbeat, Ended
  <2>2. ~teardown => tracked'.listener = tracked.listener /\ listener' = listener
                     /\ backoff' = backoff
    BY <1>7 DEF CancelHeartbeat
  <2>3. left_behind' \in BOOLEAN /\ linked' \in BOOLEAN
    BY <2>1 DEF BloombergInv
  <2>4. ASSUME ~left_behind' PROVE BloombergWhole'
    <3>1. BloombergWhole /\ ~teardown
      BY <2>1, <2>4 DEF BloombergInv
    <3>2. DOMAIN heartbeat' = {} /\ listener' \subseteq {tracked'.listener}
      BY <2>1, <2>2, <3>1 DEF BloombergWhole
    <3> QED
      BY <2>1, <2>2, <3>1, <3>2 DEF BloombergWhole
  <2> QED
    BY <2>3, <2>4 DEF BloombergInv
<1>8. CASE CloseBloomberg
  <2>1. /\ caller = "listener" /\ caller' = "idle"
        /\ listener' = listener \ {tracked.listener}
        /\ linked' = FALSE /\ topics' = {} /\ wanted' = {}
        /\ UNCHANGED <<heartbeat, backoff, left_behind>>
    BY <1>8 DEF CloseBloomberg
  <2>2. ASSUME ~left_behind PROVE BloombergWhole'
    <3>1. /\ BloombergWhole /\ DOMAIN heartbeat = {} /\ backoff = "none"
      BY <2>1, <2>2 DEF BloombergInv, BloombergWhole
    <3>2. listener' = {} /\ DOMAIN heartbeat' = {}
      BY <2>1, <3>1 DEF BloombergWhole
    <3> QED
      BY <2>1, <3>1, <3>2 DEF BloombergWhole
  <2> QED
    BY <2>1, <2>2 DEF BloombergInv
<1> QED
  BY <1>1, <1>2, <1>3, <1>4, <1>5, <1>6, <1>7, <1>8

\* The steps of the tasks.
LEMMA BloombergTaskStep ==
    ASSUME BloombergInv,
           \/ \E h \in 1..MaxFeeds : HeartbeatStops(h) \/ HeartbeatFails(h) \/ TearDown(h)
                                     \/ ListenerStops(h)
           \/ BeginAttempt \/ Resume \/ ResumeFails \/ UNCHANGED bloombergVars
    PROVE  BloombergInv'
<1>1. ASSUME NEW h \in 1..MaxFeeds, HeartbeatStops(h)
      PROVE  BloombergInv'
  <2>1. left_behind
    BY <1>1 DEF HeartbeatStops, BloombergInv, BloombergWhole
  <2> QED
    BY <1>1, <2>1 DEF HeartbeatStops, BloombergInv
<1>2. ASSUME NEW h \in 1..MaxFeeds, HeartbeatFails(h)
      PROVE  BloombergInv'
  <2>1. /\ h \in DOMAIN heartbeat /\ linked /\ linked' = FALSE
        /\ heartbeat' = [heartbeat EXCEPT ![h] = "teardown"]
        /\ UNCHANGED <<topics, caller, listener, tracked, backoff, wanted, left_behind>>
    BY <1>2 DEF HeartbeatFails
  <2>2. DOMAIN heartbeat' = DOMAIN heartbeat
    BY <2>1
  <2>3. ASSUME ~left_behind PROVE BloombergWhole'
    <3>1. BloombergWhole /\ backoff = "none" /\ caller = "running"
      BY <2>1, <2>3 DEF BloombergInv, BloombergWhole
    <3>2. \A k \in DOMAIN heartbeat' : heartbeat'[k] = "teardown"
      BY <2>1, <2>2, <3>1 DEF BloombergWhole
    <3> QED
      BY <2>1, <2>2, <3>1, <3>2 DEF BloombergWhole
  <2> QED
    BY <2>1, <2>3 DEF BloombergInv
<1>3. ASSUME NEW h \in 1..MaxFeeds, TearDown(h)
      PROVE  BloombergInv'
  <2>1. /\ h \in DOMAIN heartbeat /\ heartbeat[h] = "teardown"
        /\ listener' = listener \ {tracked.listener}
        /\ DOMAIN heartbeat' = DOMAIN heartbeat \ {h, tracked.heartbeat}
        /\ backoff' = "sleep"
        /\ UNCHANGED <<state, linked, topics, caller, wanted, left_behind>>
    BY <1>3 DEF TearDown
  <2>2. ASSUME ~left_behind PROVE BloombergWhole'
    <3>1. BloombergWhole /\ ~linked /\ caller = "running"
      BY <2>1, <2>2 DEF BloombergInv, BloombergWhole
    <3>2. listener' = {} /\ DOMAIN heartbeat' = {}
      BY <2>1, <3>1 DEF BloombergWhole
    <3> QED
      BY <2>1, <3>1, <3>2 DEF BloombergWhole
  <2> QED
    BY <2>1, <2>2 DEF BloombergInv
<1>4. ASSUME NEW h \in 1..MaxFeeds, ListenerStops(h)
      PROVE  BloombergInv'
  BY <1>4 DEF ListenerStops, BloombergInv, BloombergWhole
<1>5. CASE BeginAttempt
  BY <1>5 DEF BeginAttempt, BloombergInv, BloombergWhole
<1>6. CASE Resume
  <2>1. /\ backoff = "authenticate" /\ backoff' = "none" /\ StartTasks
        /\ linked' = TRUE /\ state' = "STREAMING"
        /\ UNCHANGED <<topics, caller, wanted, left_behind>>
    BY <1>6 DEF Resume
  <2>2. ASSUME ~left_behind PROVE BloombergWhole'
    <3>1. /\ BloombergWhole /\ DOMAIN heartbeat = {} /\ listener = {} /\ caller = "running"
          /\ topics = wanted
      BY <2>1, <2>2 DEF BloombergInv, BloombergWhole
    <3> QED
      BY <2>1, <3>1, StartedIsWhole
  <2> QED
    BY <2>1, <2>2 DEF BloombergInv
<1>7. CASE ResumeFails \/ UNCHANGED bloombergVars
  BY <1>7 DEF ResumeFails, bloombergVars, BloombergInv, BloombergWhole
<1> QED
  BY <1>1, <1>2, <1>3, <1>4, <1>5, <1>6, <1>7

\* While the Twitter listener has attempts left it has counted every failure since the feed was
\* last opened.
TwitterInv ==
    /\ failures \in Nat /\ reconnects \in Nat
    /\ stream_task \in {"opening", "reading", "sleeping"} =>
         failures <= reconnects /\ reconnects <= TwitterAttempts
    /\ GivesUp

\* Each step of the stream and of the synchronisation keeps the invariant.
LEMMA TwitterStep ==
    ASSUME TwitterInv, [TwitterNext]_twitterVars
    PROVE  TwitterInv'
<1> USE TwitterAssumption DEF TwitterInv, GivesUp
<1>1. CASE ConnectPassive \/ GetRules \/ SyncFails \/ Disconnect \/ UNCHANGED twitterVars
  BY <1>1 DEF ConnectPassive, GetRules, SyncFails, Disconnect, twitterVars
<1>2. ASSUME NEW who, BeginSync(who)
      PROVE  TwitterInv'
  BY <1>2 DEF BeginSync
<1>3. ASSUME NEW works, DeleteRules(works)
      PROVE  TwitterInv'
  BY <1>3 DEF DeleteRules
<1>4. CASE AddRules
  BY <1>4 DEF AddRules
<1>5. CASE Opened
  BY <1>5 DEF Opened
<1>6. CASE OpenFails
  BY <1>6 DEF OpenFails, HandleReconnect
<1>7. CASE OpenUnauthorized \/ OpenRateLimited
  BY <1>7 DEF OpenUnauthorized, OpenRateLimited
<1>8. CASE StreamBreaks
  BY <1>8 DEF StreamBreaks, HandleReconnect
<1>9. CASE StreamEnds \/ ListenerDies \/ WakeUp
  BY <1>9 DEF StreamEnds, ListenerDies, WakeUp
<1> QED
  BY <1>1, <1>2, <1>3, <1>4, <1>5, <1>6, <1>7, <1>8, <1>9 DEF TwitterNext

\* However starts, stops, losses and reconnections interleave, Reuters has one listener, a
\* healthy Bloomberg feed is whole, and Twitter gives up after its attempts: for any numbers of
\* attempts and tasks, and any topics.
THEOREM FeedsAlwaysRecover ==
    ReutersSpec /\ BloombergSpec /\ TwitterSpec => []FeedsRecover
<1>1. ReutersInit => ReutersInv
  <2> SUFFICES ASSUME ReutersInit PROVE ReutersInv
    OBVIOUS
  <2>1. listeners = {} /\ engine = "stopped" /\ reconnect = 0
    BY DEF ReutersInit, NoReconnection
  <2>2. shutting_down \in BOOLEAN /\ reconnect_task \in BOOLEAN
    BY DEF ReutersInit
  <2> QED
    BY <2>1, <2>2 DEF ReutersInv, NoReconnection
<1>2. ReutersInv /\ [ReutersNext]_reutersVars => ReutersInv'
  BY ReutersStep
<1>3. ReutersInv => OneListener
  <2> SUFFICES ASSUME ReutersInv PROVE OneListener
    OBVIOUS
  <2>1. IsFiniteSet({listener_task}) /\ Cardinality({listener_task}) = 1
    BY FS_Singleton
  <2>2. listeners \subseteq {listener_task}
    BY DEF ReutersInv
  <2> QED
    BY <2>1, <2>2, FS_Subset DEF OneListener
<1>4. BloombergInit => BloombergInv
  <2> SUFFICES ASSUME BloombergInit PROVE BloombergInv
    OBVIOUS
  <2>1. heartbeat = <<>> /\ DOMAIN heartbeat = {}
    BY DEF BloombergInit
  <2> QED
    BY <2>1 DEF BloombergInit, BloombergInv, BloombergWhole
<1>5. BloombergInv /\ [BloombergNext]_bloombergVars => BloombergInv'
  BY EngineStep, BloombergTaskStep DEF BloombergNext
<1>6. BloombergInv => HealthyIsWhole
  BY DEF BloombergInv, BloombergWhole, HealthyIsWhole, BloombergHealthy
<1>7. TwitterInit => TwitterInv
  BY TwitterAssumption DEF TwitterInit, TwitterInv, GivesUp
<1>8. TwitterInv /\ [TwitterNext]_twitterVars => TwitterInv'
  BY TwitterStep
<1>9. TwitterInv => GivesUp
  BY DEF TwitterInv
<1> QED
  BY <1>1, <1>2, <1>3, <1>4, <1>5, <1>6, <1>7, <1>8, <1>9, PTL
     DEF ReutersSpec, BloombergSpec, TwitterSpec, FeedsRecover

-----------------------------------------------------------------------------
(* The news pipeline                                                       *)

NoRepeats(s) == \A i, j \in DOMAIN s : s[i] = s[j] => i = j

\* A sequence that repeats nothing is as long as the set of its elements.
LEMMA NoRepeatsLength ==
    ASSUME NEW S, NEW s \in Seq(S), NoRepeats(s)
    PROVE  IsFiniteSet(ToSet(s)) /\ Cardinality(ToSet(s)) = Len(s)
<1> DEFINE n == Len(s)
<1>1. n \in Nat /\ s \in [1..n -> S] /\ DOMAIN s = 1..n
  OBVIOUS
<1>2. IsFiniteSet(1..n) /\ Cardinality(1..n) = n
  BY <1>1, FS_Interval
<1>3. s \in Surjection(1..n, ToSet(s))
  BY <1>1 DEF Surjection, ToSet
<1>4. s \in Injection(1..n, ToSet(s))
  BY <1>1 DEF Injection, IsInjective, ToSet, NoRepeats
<1> QED
  BY <1>2, <1>3, <1>4, FS_Surjection

\* While the cache holds every story there is, nothing is forgotten: a story that was taken
\* is still in it.
StoriesKept ==
    /\ NoRepeats(seen)
    /\ \A s \in Stories : taken[s] <= 1 /\ (taken[s] # 0 => s \in ToSet(seen))

StoryInv ==
    /\ seen \in Seq(Stories) /\ taken \in [Stories -> Nat]
    /\ Cardinality(Stories) <= DedupCache => StoriesKept

\* Recording a new story forgets none, if the cache has room for all of them.
LEMMA RecordingForgetsNothing ==
    ASSUME IsFiniteSet(Stories), StoryInv, NEW a \in Articles, ~IsDuplicate(a)
    PROVE  /\ Recorded(a) \in Seq(Stories)
           /\ Cardinality(Stories) <= DedupCache =>
                NoRepeats(Recorded(a)) /\ ToSet(Recorded(a)) = ToSet(seen) \cup {a.story}
<1> DEFINE story == a.story
           longer == Append(seen, story)
           n == Len(seen)
<1>1. story \in Stories /\ story \notin ToSet(seen)
  BY DEF Stories, IsDuplicate
<1>2. seen \in Seq(Stories) /\ n \in Nat /\ DOMAIN seen = 1..n
  BY DEF StoryInv
<1> HIDE DEF story
<1>3. /\ longer \in Seq(Stories) /\ Len(longer) = n + 1 /\ DOMAIN longer = 1..(n + 1)
      /\ \A i \in 1..n : longer[i] = seen[i]
      /\ longer[n + 1] = story
  BY <1>1, <1>2
<1>4. Recorded(a) = IF Len(longer) > DedupCache THEN Tail(longer) ELSE longer
  BY DEF Recorded, story
<1> HIDE DEF longer, n
<1>5. Recorded(a) \in Seq(Stories)
  <2>1. longer # << >> => Tail(longer) \in Seq(Stories)
    BY <1>3
  <2>2. longer # << >>
    BY <1>2, <1>3
  <2> QED
    BY <1>3, <1>4, <2>1, <2>2
<1>6. ASSUME Cardinality(Stories) <= DedupCache
      PROVE  NoRepeats(Recorded(a)) /\ ToSet(Recorded(a)) = ToSet(seen) \cup {story}
  <2>1. NoRepeats(seen)
    BY <1>6 DEF StoryInv, StoriesKept
  <2>2. NoRepeats(longer)
    <3>1. \A i \in 1..n : seen[i] # story
      BY <1>1, <1>2 DEF ToSet
    <3> QED
      BY <1>2, <1>3, <2>1, <3>1 DEF NoRepeats
  <2>3. ToSet(longer) = ToSet(seen) \cup {story}
    <3>1. ASSUME NEW x \in ToSet(longer) PROVE x \in ToSet(seen) \cup {story}
      <4>1. PICK i \in 1..(n + 1) : x = longer[i]
        BY <1>3, <3>1 DEF ToSet
      <4>2. i = n + 1 \/ i \in 1..n
        BY <1>2, <4>1
      <4> QED
        BY <1>2, <1>3, <4>1, <4>2 DEF ToSet
    <3>2. ASSUME NEW x \in ToSet(seen) \cup {story} PROVE x \in ToSet(longer)
      <4>1. CASE x = story
        <5>1. n + 1 \in DOMAIN longer
          BY <1>2, <1>3
        <5> QED
          BY <1>3, <4>1, <5>1 DEF ToSet
      <4>2. CASE x # story
        <5>1. PICK i \in 1..n : x = seen[i]
          BY <1>2, <3>2, <4>2 DEF ToSet
        <5>2. i \in DOMAIN longer /\ longer[i] = x
          BY <1>2, <1>3, <5>1
        <5> QED
          BY <5>2 DEF ToSet
      <4> QED
        BY <4>1, <4>2
    <3> QED
      BY <3>1, <3>2
  <2>4. ToSet(longer) \subseteq Stories
    BY <1>3 DEF ToSet
  <2>5. Cardinality(ToSet(longer)) <= Cardinality(Stories) /\ Cardinality(ToSet(longer)) = Len(longer)
        /\ Cardinality(Stories) \in Nat
    BY <1>3, <2>2, <2>4, NoRepeatsLength, FS_Subset, FS_CardinalityType
  <2>6. ~(Len(longer) > DedupCache)
    BY <1>2, <1>3, <1>6, <2>5, PipelineAssumption
  <2> QED
    BY <1>4, <2>2, <2>3, <2>6
<1> QED
  BY <1>5, <1>6 DEF story

\* Every step of the pipeline keeps the books of the deduplication.
LEMMA StoryStep ==
    ASSUME IsFiniteSet(Stories), StoryInv, [NewsNext]_newsVars
    PROVE  StoryInv'
<1>1. ASSUME UNCHANGED <<seen, taken>> PROVE StoryInv'
  BY <1>1 DEF StoryInv, StoriesKept, NoRepeats
<1>2. ASSUME NEW a \in Articles, ~IsDuplicate(a), seen' = Recorded(a),
             taken' = [taken EXCEPT ![a.story] = @ + 1]
      PROVE  StoryInv'
  <2>1. a.story \in Stories /\ taken \in [Stories -> Nat]
    BY DEF Stories, StoryInv
  <2>2. taken' \in [Stories -> Nat]
    BY <1>2, <2>1
  <2>3. seen' \in Seq(Stories)
    BY <1>2, RecordingForgetsNothing
  <2>4. ASSUME Cardinality(Stories) <= DedupCache PROVE StoriesKept'
    <3>1. NoRepeats(seen') /\ ToSet(seen') = ToSet(seen) \cup {a.story}
      BY <1>2, <2>4, RecordingForgetsNothing
    <3>2. StoriesKept /\ a.story \notin ToSet(seen)
      BY <1>2, <2>4 DEF StoryInv, IsDuplicate
    <3>3. \A s \in Stories : taken'[s] <= 1 /\ (taken'[s] # 0 => s \in ToSet(seen'))
      BY <1>2, <2>1, <3>1, <3>2 DEF StoriesKept
    <3> QED
      BY <3>1, <3>3 DEF StoriesKept, NoRepeats
  <2> QED
    BY <2>2, <2>3, <2>4 DEF StoryInv
<1>3. ASSUME NEW a \in Articles, ~IsDuplicate(a), seen' = Recorded(a), taken' = taken
      PROVE  StoryInv'
  <2>1. seen' \in Seq(Stories)
    BY <1>3, RecordingForgetsNothing
  <2>2. ASSUME Cardinality(Stories) <= DedupCache PROVE StoriesKept'
    <3>1. NoRepeats(seen') /\ ToSet(seen') = ToSet(seen) \cup {a.story}
      BY <1>3, <2>2, RecordingForgetsNothing
    <3> QED
      BY <1>3, <2>2, <3>1 DEF StoryInv, StoriesKept, NoRepeats
  <2> QED
    BY <1>3, <2>1, <2>2 DEF StoryInv
<1>4. ASSUME NEW s \in Sources, NEW a \in Articles, Duplicate(s, a) PROVE StoryInv'
  BY <1>1, <1>4 DEF Duplicate
<1>5. ASSUME NEW s \in Sources, NEW a \in Articles, TakeHighImpact(s, a) PROVE StoryInv'
  BY <1>2, <1>5 DEF TakeHighImpact
<1>6. ASSUME NEW s \in Sources, NEW a \in Articles, TakeOther(s, a) PROVE StoryInv'
  BY <1>2, <1>6 DEF TakeOther
<1>7. ASSUME NEW s \in Sources, NEW a \in Articles, PipelineRaises(s, a) PROVE StoryInv'
  BY <1>3, <1>7 DEF PipelineRaises
<1>8. ASSUME NEW s \in Sources, Notified(s) \/ Alerted(s) \/ Published(s) PROVE StoryInv'
  BY <1>1, <1>8 DEF Notified, Alerted, Published
<1>9. ASSUME NEW s \in Sources, NEW works \in BOOLEAN, Dispatched(s, works) PROVE StoryInv'
  BY <1>1, <1>9 DEF Dispatched
<1>10. CASE NewsClockAdvances
  BY <1>1, <1>10 DEF NewsClockAdvances
<1>11. CASE UNCHANGED newsVars
  BY <1>1, <1>11 DEF newsVars
<1> QED
  BY <1>4, <1>5, <1>6, <1>7, <1>8, <1>9, <1>10, <1>11 DEF NewsNext

CrisisKeys == {"global"} \cup {a.region : a \in Articles} \cup {a.asset : a \in Articles}

CrisisRecords == [key : CrisisKeys, started : Nat, active : BOOLEAN,
                  escalated : BOOLEAN, calm : BOOLEAN]

PipelineTypes ==
    /\ crises \in Seq(CrisisRecords) /\ news_clock \in Nat
    /\ work = [s \in Sources |-> work[s]]
    /\ \A s \in Sources : work[s].at = "notify" => work[s].article \in Articles
    /\ \A k \in DOMAIN crisis_keys : crisis_keys[k] \in DOMAIN crises

\* A crisis about which a reading was calm is closed: only an open one is escalated.
CrisisInv ==
    /\ PipelineTypes
    /\ \A i \in DOMAIN crises : crises[i].calm => ~crises[i].active
    /\ EscalatedWithoutRecovery

\* A crisis is raised for a key that has none open.
LEMMA RaisedKeyIsFree ==
    ASSUME NEW a \in Articles, NEW articles, NEW keys
    PROVE  \/ NewCrisisKey(a, articles, keys) = "none"
           \/ /\ NewCrisisKey(a, articles, keys) \in CrisisKeys
              /\ NewCrisisKey(a, articles, keys) \notin DOMAIN keys
<1> DEFINE candidates == GroupingKeys(a)
           raised == {i \in DOMAIN candidates :
                         /\ candidates[i] \notin DOMAIN keys
                         /\ Len(MatchingArticles(articles, candidates[i])) >= CrisisThreshold}
<1>1. NewCrisisKey(a, articles, keys) = IF raised = {} THEN "none" ELSE candidates[Min(raised)]
  BY DEF NewCrisisKey
<1>2. DOMAIN candidates \subseteq {1, 2} /\ \A i \in DOMAIN candidates : candidates[i] \in CrisisKeys
  BY DEF GroupingKeys, CrisisKeys
<1>3. \A i \in raised : i \in DOMAIN candidates /\ candidates[i] \notin DOMAIN keys
  OBVIOUS
<1> HIDE DEF candidates, raised
<1>4. ASSUME raised # {} PROVE Min(raised) \in raised
  <2>1. raised \subseteq {1, 2}
    BY <1>2, <1>3
  <2>2. \E x \in raised : \A y \in raised : x =< y
    <3>1. CASE 1 \in raised
      BY <2>1, <3>1
    <3>2. CASE 1 \notin raised
      <4>1. \A y \in raised : y = 2
        BY <2>1, <3>2
      <4>2. 2 \in raised
        BY <1>4, <4>1
      <4> QED
        BY <4>1, <4>2
    <3> QED
      BY <3>1, <3>2
  <2> QED
    BY <2>2 DEF Min
<1> QED
  BY <1>1, <1>2, <1>3, <1>4

\* What an article makes of one crisis.
LEMMA ReviewOfOne ==
    ASSUME NEW c \in CrisisRecords, NEW recovers \in BOOLEAN, NEW escalates \in BOOLEAN,
           NEW calms \in BOOLEAN
    PROVE  LET r == [c EXCEPT !.active = @ /\ ~recovers, !.escalated = @ \/ escalates,
                              !.calm = @ \/ calms]
           IN /\ r \in CrisisRecords
              /\ r.active <=> c.active /\ ~recovers
              /\ r.escalated <=> c.escalated \/ escalates
              /\ r.calm <=> c.calm \/ calms
  BY DEF CrisisRecords

\* A review closes the crises a calm article is about and escalates others only.
LEMMA ReviewKeepsCrises ==
    ASSUME CrisisInv, NEW a, NEW at
    PROVE  /\ Reviewed(a, at) \in Seq(CrisisRecords) /\ Len(Reviewed(a, at)) = Len(crises)
           /\ DOMAIN Reviewed(a, at) = DOMAIN crises
           /\ \A i \in DOMAIN crises :
                 /\ Reviewed(a, at)[i].active => crises[i].active
                 /\ Reviewed(a, at)[i].calm => ~Reviewed(a, at)[i].active
                 /\ Reviewed(a, at)[i].escalated => ~Reviewed(a, at)[i].calm
<1>1. crises \in Seq(CrisisRecords) /\ Len(crises) \in Nat /\ DOMAIN crises = 1..Len(crises)
  BY DEF CrisisInv, PipelineTypes
<1>2. ASSUME NEW i \in DOMAIN crises
      PROVE  /\ Reviewed(a, at)[i] \in CrisisRecords
             /\ Reviewed(a, at)[i].active => crises[i].active
             /\ Reviewed(a, at)[i].calm => ~Reviewed(a, at)[i].active
             /\ Reviewed(a, at)[i].escalated => ~Reviewed(a, at)[i].calm
  <2> DEFINE recovers == Recovers(a, crises[i])
             escalates == Escalates(a, crises[i], at)
             calms == Concerns(a, crises[i]) /\ Calming(a)
             r == Reviewed(a, at)[i]
  <2>1. crises[i] \in CrisisRecords
    BY <1>1
  <2>2. recovers \in BOOLEAN /\ escalates \in BOOLEAN /\ calms \in BOOLEAN
    BY DEF Recovers, Escalates
  <2>3. r = [crises[i] EXCEPT !.active = @ /\ ~recovers, !.escalated = @ \/ escalates,
                             !.calm = @ \/ calms]
    BY DEF Reviewed
  <2>4. /\ calms <=> recovers
        /\ recovers => crises[i].active /\ ~crises[i].escalated
        /\ escalates => crises[i].active /\ ~recovers
    BY DEF Recovers, Escalates, Concerns
  <2> HIDE DEF recovers, escalates, calms, r
  <2>5. /\ r \in CrisisRecords
        /\ r.active <=> crises[i].active /\ ~recovers
        /\ r.escalated <=> crises[i].escalated \/ escalates
        /\ r.calm <=> crises[i].calm \/ calms
    BY ZenonT(60), <2>1, <2>2, <2>3, ReviewOfOne
  <2>6. /\ crises[i].calm => ~crises[i].active
        /\ crises[i].escalated => ~crises[i].calm
    BY DEF CrisisInv, EscalatedWithoutRecovery
  <2>7. /\ r.active => crises[i].active
        /\ r.calm => ~r.active
        /\ r.escalated => ~r.calm
    BY <2>4, <2>5, <2>6
  <2> QED
    BY <2>5, <2>7 DEF r
<1>3. DOMAIN Reviewed(a, at) = 1..Len(crises)
      /\ Reviewed(a, at) = [i \in 1..Len(crises) |-> Reviewed(a, at)[i]]
  BY <1>1 DEF Reviewed
<1> QED
  BY <1>1, <1>2, <1>3

\* What a review leaves of the keys.
KeysLeft(reviewed) ==
    [k \in {j \in DOMAIN crisis_keys : reviewed[crisis_keys[j]].active} |-> crisis_keys[k]]

\* The crises and their keys after an evaluation.
Evaluated(reviewed, open, key) ==
    \/ crises' = reviewed /\ crisis_keys' = open
    \/ /\ key \in CrisisKeys /\ key \notin DOMAIN open
       /\ crises' = Append(reviewed, [key |-> key, started |-> news_clock, active |-> TRUE,
                                      escalated |-> FALSE, calm |-> FALSE])
       /\ crisis_keys' = [k \in DOMAIN open \cup {key} |->
                             IF k = key THEN Len(crises) + 1 ELSE open[k]]

\* The crises and their keys after an evaluation: reviewed, the keys of closed ones dropped,
\* and perhaps one more crisis under a key that had none.
LEMMA BooksAfterEvaluation ==
    ASSUME CrisisInv,
           NEW reviewed \in Seq(CrisisRecords), Len(reviewed) = Len(crises),
           \A i \in DOMAIN crises : /\ reviewed[i].active => crises[i].active
                                    /\ reviewed[i].calm => ~reviewed[i].active
                                    /\ reviewed[i].escalated => ~reviewed[i].calm,
           NEW open, open = KeysLeft(reviewed), NEW key, Evaluated(reviewed, open, key)
    PROVE  /\ crises' \in Seq(CrisisRecords)
           /\ \A k \in DOMAIN crisis_keys' : crisis_keys'[k] \in DOMAIN crises'
           /\ \A i \in DOMAIN crises' : crises'[i].calm => ~crises'[i].active
           /\ EscalatedWithoutRecovery'
<1> DEFINE n == Len(crises)
<1>1. /\ n \in Nat /\ DOMAIN crises = 1..n /\ DOMAIN reviewed = 1..n /\ news_clock \in Nat
      /\ crises \in Seq(CrisisRecords)
      /\ \A k \in DOMAIN crisis_keys : crisis_keys[k] \in 1..n
  BY DEF CrisisInv, PipelineTypes
<1>2. \A i \in 1..n : crises[i].active <=> (\E k \in DOMAIN crisis_keys : crisis_keys[k] = i)
  BY <1>1 DEF CrisisInv, EscalatedWithoutRecovery
<1>3. /\ \A k \in DOMAIN open : k \in DOMAIN crisis_keys /\ open[k] = crisis_keys[k]
                                /\ open[k] \in 1..n /\ reviewed[open[k]].active
      /\ \A k \in DOMAIN crisis_keys : reviewed[crisis_keys[k]].active => k \in DOMAIN open
  BY <1>1 DEF KeysLeft
<1>4. \A i \in 1..n : reviewed[i].active <=> (\E k \in DOMAIN open : open[k] = i)
  <2>1. ASSUME NEW i \in 1..n, reviewed[i].active PROVE \E k \in DOMAIN open : open[k] = i
    <3>1. PICK k \in DOMAIN crisis_keys : crisis_keys[k] = i
      BY <1>1, <1>2, <2>1
    <3> QED
      BY <1>3, <2>1, <3>1
  <2>2. ASSUME NEW i \in 1..n, NEW k \in DOMAIN open, open[k] = i PROVE reviewed[i].active
    BY <1>3, <2>2
  <2> QED
    BY <2>1, <2>2
<1> HIDE DEF n
<1>5. CASE crises' = reviewed /\ crisis_keys' = open
  <2>1. EscalatedWithoutRecovery'
    BY <1>1, <1>4, <1>5 DEF EscalatedWithoutRecovery
  <2> QED
    BY <1>1, <1>3, <1>5, <2>1
<1>6. ASSUME key \in CrisisKeys, key \notin DOMAIN open,
             crises' = Append(reviewed, [key |-> key, started |-> news_clock, active |-> TRUE,
                                         escalated |-> FALSE, calm |-> FALSE]),
             crisis_keys' = [k \in DOMAIN open \cup {key} |-> IF k = key THEN n + 1 ELSE open[k]]
      PROVE  /\ crises' \in Seq(CrisisRecords)
             /\ \A k \in DOMAIN crisis_keys' : crisis_keys'[k] \in DOMAIN crises'
             /\ \A i \in DOMAIN crises' : crises'[i].calm => ~crises'[i].active
             /\ EscalatedWithoutRecovery'
  <2> DEFINE fresh == [key |-> key, started |-> news_clock, active |-> TRUE,
                       escalated |-> FALSE, calm |-> FALSE]
  <2>1. fresh \in CrisisRecords /\ fresh.active /\ ~fresh.escalated /\ ~fresh.calm
    BY <1>1, <1>6 DEF CrisisRecords
  <2>2. crises' = Append(reviewed, fresh)
    BY <1>6
  <2> HIDE DEF fresh
  <2>3. /\ crises' \in Seq(CrisisRecords) /\ DOMAIN crises' = 1..(n + 1)
        /\ \A i \in 1..n : crises'[i] = reviewed[i]
        /\ crises'[n + 1] = fresh
    <3>1. Len(reviewed) = n /\ reviewed \in Seq(CrisisRecords)
      BY DEF n
    <3> QED
      BY <1>1, <2>1, <2>2, <3>1
  <2>4. \A i \in 1..(n + 1) : i \in 1..n \/ i = n + 1
    BY <1>1
  <2>5. /\ DOMAIN crisis_keys' = DOMAIN open \cup {key}
        /\ crisis_keys'[key] = n + 1
        /\ \A k \in DOMAIN open : crisis_keys'[k] = open[k]
    BY <1>6
  <2>6. \A i \in 1..(n + 1) : (crises'[i].calm => ~crises'[i].active)
                              /\ (crises'[i].escalated => ~crises'[i].calm)
    BY <1>1, <2>1, <2>3, <2>4
  <2>7. \A k \in DOMAIN crisis_keys' : crisis_keys'[k] \in 1..(n + 1)
    <3>1. n + 1 \in 1..(n + 1) /\ 1..n \subseteq 1..(n + 1)
      BY <1>1
    <3>2. \A k \in DOMAIN open : open[k] \in 1..n
      BY <1>3
    <3> QED
      BY <2>5, <3>1, <3>2
  <2>8. ASSUME NEW i \in 1..(n + 1)
        PROVE  crises'[i].active <=> (\E k \in DOMAIN crisis_keys' : crisis_keys'[k] = i)
    <3>1. CASE i = n + 1
      BY <2>1, <2>3, <2>5, <3>1
    <3>2. CASE i \in 1..n
      <4>1. i # n + 1
        BY <1>1, <3>2
      <4>2. (\E k \in DOMAIN crisis_keys' : crisis_keys'[k] = i) <=> (\E k \in DOMAIN open : open[k] = i)
        BY <2>5, <4>1
      <4> QED
        BY <1>4, <2>3, <3>2, <4>2
    <3> QED
      BY <2>4, <3>1, <3>2
  <2> QED
    BY <2>3, <2>6, <2>7, <2>8 DEF EscalatedWithoutRecovery
<1> QED
  BY <1>5, <1>6 DEF n, Evaluated

\* The task that evaluates an article, on its way to its next await.
LEMMA EvaluateKeepsCrises ==
    ASSUME CrisisInv, NEW s \in Sources, NEW a \in Articles, NEW high, NEW at,
           Evaluate(s, a, high, at), news_clock' = news_clock
    PROVE  CrisisInv'
<1> DEFINE reviewed == Reviewed(a, at)
           open == [k \in {j \in DOMAIN crisis_keys : reviewed[crisis_keys[j]].active} |->
                       crisis_keys[k]]
           counted == high /\ a.sentiment = "panic"
           record == [source |-> a.source, region |-> a.region, asset |-> a.asset, at |-> at]
           articles == IF counted THEN Pruned(Append(recent, record)) ELSE recent
           key == IF counted THEN NewCrisisKey(a, articles, open) ELSE "none"
<1>1. /\ reviewed \in Seq(CrisisRecords) /\ Len(reviewed) = Len(crises)
      /\ \A i \in DOMAIN crises : /\ reviewed[i].active => crises[i].active
                                  /\ reviewed[i].calm => ~reviewed[i].active
                                  /\ reviewed[i].escalated => ~reviewed[i].calm
  BY ReviewKeepsCrises
<1>2. key = "none" \/ (key \in CrisisKeys /\ key \notin DOMAIN open)
  BY RaisedKeyIsFree
<1>3. IF key = "none" THEN crises' = reviewed /\ crisis_keys' = open
      ELSE /\ crises' = Append(reviewed, [key |-> key, started |-> news_clock, active |-> TRUE,
                                          escalated |-> FALSE, calm |-> FALSE])
           /\ crisis_keys' = [k \in DOMAIN open \cup {key} |->
                                 IF k = key THEN Len(crises) + 1 ELSE open[k]]
  BY DEF Evaluate
<1>4. \E step : work' = [work EXCEPT ![s] = step] /\ step.at # "notify"
  <2>1. CASE key # "none"
    <3>1. work' = [work EXCEPT ![s] = [at |-> "alert", crisis |-> None]]
      BY <2>1 DEF Evaluate
    <3>2. [at |-> "alert", crisis |-> None].at # "notify"
      OBVIOUS
    <3> QED
      BY <3>1, <3>2
  <2>2. CASE key = "none" /\ pending' # None
    <3>1. work' = [work EXCEPT ![s] = [at |-> "dispatch", crisis |-> pending']]
      BY <2>2 DEF Evaluate
    <3>2. [at |-> "dispatch", crisis |-> pending'].at # "notify"
      OBVIOUS
    <3> QED
      BY <3>1, <3>2
  <2>3. CASE key = "none" /\ pending' = None
    <3>1. work' = [work EXCEPT ![s] = [at |-> "publish", crisis |-> None]]
      BY <2>3 DEF Evaluate
    <3>2. [at |-> "publish", crisis |-> None].at # "notify"
      OBVIOUS
    <3> QED
      BY <3>1, <3>2
  <2> QED
    BY <2>1, <2>2, <2>3
<1>5. open = KeysLeft(reviewed)
  BY DEF KeysLeft
<1> HIDE DEF reviewed, open, key
<1>7. /\ crises' \in Seq(CrisisRecords)
      /\ \A k \in DOMAIN crisis_keys' : crisis_keys'[k] \in DOMAIN crises'
      /\ \A i \in DOMAIN crises' : crises'[i].calm => ~crises'[i].active
      /\ EscalatedWithoutRecovery'
  <2>1. Evaluated(reviewed, open, key)
    BY <1>2, <1>3 DEF Evaluated
  <2> QED
    BY <1>1, <1>5, <2>1, BooksAfterEvaluation
<1>6. /\ work' = [w \in Sources |-> work'[w]]
      /\ \A w \in Sources : work'[w].at = "notify" => work'[w].article \in Articles
  BY <1>4 DEF CrisisInv, PipelineTypes
<1> QED
  BY <1>6, <1>7 DEF CrisisInv, PipelineTypes

\* Every step of the pipeline keeps the books of the crises.
LEMMA CrisisStep ==
    ASSUME CrisisInv, [NewsNext]_newsVars
    PROVE  CrisisInv'
<1>1. ASSUME UNCHANGED <<crises, crisis_keys>>, news_clock' \in Nat,
             work' = [w \in Sources |-> work'[w]],
             \A w \in Sources : work'[w].at = "notify" => work'[w].article \in Articles
      PROVE  CrisisInv'
  BY <1>1 DEF CrisisInv, PipelineTypes, EscalatedWithoutRecovery
<1>2. ASSUME NEW s \in Sources, NEW step, work' = [work EXCEPT ![s] = step],
             step.at = "notify" => step.article \in Articles
      PROVE  /\ work' = [w \in Sources |-> work'[w]]
             /\ \A w \in Sources : work'[w].at = "notify" => work'[w].article \in Articles
  BY <1>2 DEF CrisisInv, PipelineTypes
<1>3. news_clock \in Nat /\ news_clock + 1 \in Nat
  BY DEF CrisisInv, PipelineTypes
<1>4. ASSUME UNCHANGED work
      PROVE  /\ work' = [w \in Sources |-> work'[w]]
             /\ \A w \in Sources : work'[w].at = "notify" => work'[w].article \in Articles
  BY <1>4 DEF CrisisInv, PipelineTypes
<1>5. ASSUME NEW s \in Sources, NEW a \in Articles, Duplicate(s, a) PROVE CrisisInv'
  BY <1>1, <1>3, <1>4, <1>5 DEF Duplicate
<1>6. ASSUME NEW s \in Sources, NEW a \in Articles, TakeHighImpact(s, a) PROVE CrisisInv'
  BY <1>1, <1>2, <1>3, <1>6 DEF TakeHighImpact
<1>7. ASSUME NEW s \in Sources, NEW a \in Articles, TakeOther(s, a) PROVE CrisisInv'
  BY <1>7, EvaluateKeepsCrises DEF TakeOther
<1>8. ASSUME NEW s \in Sources, NEW a \in Articles, PipelineRaises(s, a) PROVE CrisisInv'
  BY <1>1, <1>3, <1>4, <1>8 DEF PipelineRaises
<1>9. ASSUME NEW s \in Sources, Notified(s) PROVE CrisisInv'
  <2>1. work[s].article \in Articles
    BY <1>9 DEF CrisisInv, PipelineTypes, Notified
  <2> QED
    BY <1>9, <2>1, EvaluateKeepsCrises DEF Notified
<1>10. ASSUME NEW s \in Sources, Alerted(s) PROVE CrisisInv'
  <2>1. CASE pending # None
    BY <1>1, <1>2, <1>3, <1>10, <2>1 DEF Alerted
  <2>2. CASE pending = None
    BY <1>1, <1>2, <1>3, <1>10, <2>2 DEF Alerted
  <2> QED
    BY <2>1, <2>2
<1>11. ASSUME NEW s \in Sources, Published(s) PROVE CrisisInv'
  BY <1>1, <1>2, <1>3, <1>11 DEF Published, Waiting
<1>12. ASSUME NEW s \in Sources, NEW works \in BOOLEAN, Dispatched(s, works) PROVE CrisisInv'
  BY <1>1, <1>2, <1>3, <1>12 DEF Dispatched
<1>13. CASE NewsClockAdvances
  BY <1>1, <1>3, <1>4, <1>13 DEF NewsClockAdvances
<1>14. CASE UNCHANGED newsVars
  BY <1>1, <1>3, <1>4, <1>14 DEF newsVars
<1> QED
  BY <1>5, <1>6, <1>7, <1>8, <1>9, <1>10, <1>11, <1>12, <1>13, <1>14 DEF NewsNext

\* However the tasks of the sources interleave at the event bus, a story is taken once while
\* the cache holds all there are, a crisis that had a calm reading is not escalated, and an
\* open crisis has its key (on_article_received of news_engine.py, crisis_detector.py).
THEOREM PipelineKeepsItsBooks ==
    ASSUME IsFiniteSet(Articles)
    PROVE  NewsSpec => []PipelineBooksAgree
<1>1. IsFiniteSet(Stories)
  <2> DEFINE f == [a \in Articles |-> a.story]
  <2>1. f \in Surjection(Articles, Stories)
    BY DEF Stories, Surjection
  <2> QED
    BY <2>1, FS_Surjection
<1>2. NewsInit => StoryInv
  BY DEF NewsInit, StoryInv, StoriesKept, NoRepeats, Stories
<1>3. NewsInit => CrisisInv
  <2> SUFFICES ASSUME NewsInit PROVE CrisisInv
    OBVIOUS
  <2>1. DOMAIN crises = {} /\ DOMAIN crisis_keys = {}
    BY DEF NewsInit
  <2>2. PipelineTypes
    BY <2>1 DEF NewsInit, PipelineTypes, Waiting
  <2> QED
    BY <2>1, <2>2 DEF CrisisInv, EscalatedWithoutRecovery
<1>4. StoryInv /\ [NewsNext]_newsVars => StoryInv'
  BY <1>1, StoryStep
<1>5. CrisisInv /\ [NewsNext]_newsVars => CrisisInv'
  BY CrisisStep
<1>6. StoryInv /\ CrisisInv => PipelineBooksAgree
  BY DEF StoryInv, StoriesKept, CrisisInv, PipelineBooksAgree, StoryOnce
<1> QED
  BY <1>2, <1>3, <1>4, <1>5, <1>6, PTL DEF NewsSpec

-----------------------------------------------------------------------------
(* The service manager.                                                    *)

\* The history of each service is finite and within the budget.
RestartInv ==
    /\ restarts \in [Services -> SUBSET [age : Nat, nth : Nat]]
    /\ \A s \in Services : IsFiniteSet(restarts[s])
    /\ RestartBudget

\* Restart records that grew a tick older are no more than they were.
LEMMA OlderRestarts ==
    ASSUME NEW old \in SUBSET [age : Nat, nth : Nat], IsFiniteSet(old), NEW new,
           new = {[r EXCEPT !.age = @ + 1] : r \in {q \in old : q.age < RestartWindow}}
    PROVE  /\ new \in SUBSET [age : Nat, nth : Nat] /\ IsFiniteSet(new)
           /\ Cardinality(new) <= Cardinality(old)
<1> DEFINE kept == {q \in old : q.age < RestartWindow}
           f == [r \in kept |-> [r EXCEPT !.age = @ + 1]]
<1>1. IsFiniteSet(kept) /\ Cardinality(kept) <= Cardinality(old)
  BY FS_Subset
<1>2. f \in Surjection(kept, new)
  BY DEF Surjection
<1>3. IsFiniteSet(new) /\ Cardinality(new) <= Cardinality(kept)
  BY <1>1, <1>2, FS_Surjection
<1>4. Cardinality(new) \in Nat /\ Cardinality(kept) \in Nat /\ Cardinality(old) \in Nat
  BY <1>1, <1>3, FS_CardinalityType
<1>5. \A r \in old : [r EXCEPT !.age = @ + 1] \in [age : Nat, nth : Nat]
  OBVIOUS
<1> QED
  BY <1>1, <1>3, <1>4, <1>5

\* Every step of ServiceNext preserves the invariant: only an error writes the history, after
\* it has counted it, and the clock makes it older.
LEMMA RestartStep ==
    ASSUME RestartInv, [ServiceNext]_serviceVars
    PROVE  RestartInv'
<1>1. CASE UNCHANGED restarts
  BY <1>1 DEF RestartInv, RestartBudget
<1>2. ASSUME NEW s \in Services, RecentRestarts(s) < MaxRestarts,
             restarts' = [restarts EXCEPT ![s] = Restarted(s)]
      PROVE  RestartInv'
  <2> DEFINE of_now == {r \in restarts[s] : r.age = 0}
             record == [age |-> 0, nth |-> Cardinality(of_now)]
  <2>1. /\ restarts[s] \in SUBSET [age : Nat, nth : Nat] /\ IsFiniteSet(restarts[s])
        /\ Restarted(s) = restarts[s] \cup {record}
    BY DEF RestartInv, Restarted
  <2>2. record \in [age : Nat, nth : Nat]
    <3>1. IsFiniteSet(of_now)
      BY <2>1, FS_Subset
    <3>2. Cardinality(of_now) \in Nat
      BY <3>1, FS_CardinalityType
    <3> QED
      BY <3>2
  <2> HIDE DEF record
  <2>3. /\ IsFiniteSet(restarts[s] \cup {record})
        /\ Cardinality(restarts[s] \cup {record}) = IF record \in restarts[s]
              THEN Cardinality(restarts[s]) ELSE Cardinality(restarts[s]) + 1
    BY <2>1, FS_AddElement
  <2>4. Cardinality(restarts[s]) \in Nat /\ MaxRestarts \in Nat
    BY <2>1, FS_CardinalityType, ServiceManagerAssumption
  <2>5. /\ Restarted(s) \in SUBSET [age : Nat, nth : Nat]
        /\ IsFiniteSet(Restarted(s)) /\ Cardinality(Restarted(s)) <= MaxRestarts
    BY <1>2, <2>1, <2>2, <2>3, <2>4 DEF RecentRestarts
  <2>6. \A t \in Services : restarts'[t] = IF t = s THEN Restarted(s) ELSE restarts[t]
    BY <1>2 DEF RestartInv
  <2>7. restarts' \in [Services -> SUBSET [age : Nat, nth : Nat]]
    BY <1>2, <2>5 DEF RestartInv
  <2> QED
    BY <2>5, <2>6, <2>7 DEF RestartInv, RestartBudget
<1>3. CASE ServiceTick
  <2>1. /\ restarts' = [s \in Services |->
                          {[r EXCEPT !.age = @ + 1] :
                             r \in {q \in restarts[s] : q.age < RestartWindow}}]
        /\ restarts \in [Services -> SUBSET [age : Nat, nth : Nat]]
    BY <1>3 DEF ServiceTick, RestartInv
  <2>2. ASSUME NEW s \in Services
        PROVE  /\ restarts'[s] \in SUBSET [age : Nat, nth : Nat] /\ IsFiniteSet(restarts'[s])
               /\ Cardinality(restarts'[s]) <= MaxRestarts
    <3>1. restarts[s] \in SUBSET [age : Nat, nth : Nat] /\ IsFiniteSet(restarts[s])
          /\ Cardinality(restarts[s]) <= MaxRestarts
      BY DEF RestartInv, RestartBudget
    <3>2. restarts'[s] = {[r EXCEPT !.age = @ + 1] :
                            r \in {q \in restarts[s] : q.age < RestartWindow}}
      BY <2>1
    <3>3. /\ restarts'[s] \in SUBSET [age : Nat, nth : Nat] /\ IsFiniteSet(restarts'[s])
          /\ Cardinality(restarts'[s]) <= Cardinality(restarts[s])
      BY <3>1, <3>2, OlderRestarts
    <3>4. /\ Cardinality(restarts[s]) \in Nat /\ Cardinality(restarts'[s]) \in Nat
          /\ MaxRestarts \in Nat
      BY <3>1, <3>3, FS_CardinalityType, ServiceManagerAssumption
    <3> QED
      BY <3>1, <3>3, <3>4
  <2> QED
    BY <2>1, <2>2 DEF RestartInv, RestartBudget
<1>4. ASSUME NEW s \in Services, NEW j \in Jobs, ServiceError(s, j) PROVE RestartInv'
  <2>1. UNCHANGED restarts \/ /\ ~(RecentRestarts(s) >= MaxRestarts)
                              /\ restarts' = [restarts EXCEPT ![s] = Restarted(s)]
    BY <1>4 DEF ServiceError, RestartPolicy
  <2>2. RecentRestarts(s) \in Nat /\ MaxRestarts \in Nat
    BY FS_CardinalityType, ServiceManagerAssumption DEF RecentRestarts, RestartInv
  <2> QED
    BY <1>1, <1>2, <2>1, <2>2
<1> QED
  BY <1>1, <1>3, <1>4 DEF ServiceNext, serviceVars, StartAll, StopAll, SweepReturns, StartReturns,
     StopReturns, DelayEnds, Visit

\* However errors, starts, stops and restart delays of any number of services interleave, no
\* window holds more restarts of a service than its budget.
THEOREM RestartsStayInBudget == ServiceSpec => []RestartBudget
<1>1. ServiceInit => RestartInv
  <2> SUFFICES ASSUME ServiceInit PROVE RestartInv
    OBVIOUS
  <2>1. MaxRestarts \in Nat /\ IsFiniteSet({}) /\ Cardinality({}) = 0
    BY FS_EmptySet, ServiceManagerAssumption
  <2>2. restarts = [s \in Services |-> {}]
    BY DEF ServiceInit
  <2> QED
    BY <2>1, <2>2 DEF RestartInv, RestartBudget
<1>2. RestartInv /\ [ServiceNext]_serviceVars => RestartInv'
  BY RestartStep
<1>3. RestartInv => RestartBudget
  BY DEF RestartInv
<1> QED
  BY <1>1, <1>2, <1>3, PTL DEF ServiceSpec

-----------------------------------------------------------------------------
(* The economic calendar *)

Places == {"off", "check", "notify", "notifying", "adjust", "widen", "announce", "asleep"}
Midnight == cal_clock % Day = 0

CalendarTypes ==
    /\ cal_clock \in Nat /\ last_update \in Int /\ cal_events \subseteq Ids
    /\ updater \in {"off", "starting", "asleep", "updating"}
    /\ monitor \in [at : Places, work : SUBSET Ids, i : Nat, pass : Int, list : Int]

\* A stop was widened only for an event that counts as adjusted since, or by a callback
\* before the one the monitor is at.
WideningInv ==
    /\ widened \in [Pairs -> 0..1]
    /\ monitor.at = "widen" => NextEvent \notin adjusted_ids
    /\ monitor.at # "off" =>
         \A p \in Pairs : widened[p] = 0 \/ p[1] \in adjusted_ids
            \/ (monitor.at = "widen" /\ p[1] = NextEvent /\ p[2] < monitor.i)

\* Whoever monitors has the events of the day, but at midnight sharp.
UpToDate ==
    /\ updater \in {"off", "starting"} => monitor.at = "off"
    /\ monitor.at # "off" /\ ~Midnight => updater = "asleep" /\ last_update = Today

Due(e) == e \in cal_events /\ Approaching(e) /\ Schedule[e].instruments # <<>>

\* An event that is due is adjusted, or in the work of the pass, once a pass looked for it.
DueIsSeen ==
    /\ monitor.at \notin {"off", "check"} => monitor.pass = cal_clock
    /\ ~Midnight => \A e \in Ids : Due(e) =>
          /\ monitor.at \in {"adjust", "widen"} => e \in adjusted_ids \cup monitor.work
          /\ monitor.at = "announce" => e \in adjusted_ids \cup Others
          /\ monitor.at = "asleep" => e \in adjusted_ids

CalendarInv ==
    CalendarTypes /\ WideningInv /\ UpToDate /\ DueIsSeen /\ NoneOverlooked

\* A day lasts until the next midnight.
LEMMA SameDay ==
    ASSUME NEW t \in Nat, (t + 1) % Day # 0
    PROVE  (t + 1) \div Day = t \div Day
<1> DEFINE L == Day
<1>1. L \in Nat /\ L >= 1
  BY CalendarAssumption
<1> HIDE DEF L
<1>2. /\ t \div L \in Int /\ (t + 1) \div L \in Int
      /\ L * (t \div L) <= t /\ t < L * ((t \div L) + 1)
      /\ (t + 1) = L * ((t + 1) \div L) + ((t + 1) % L)
      /\ (t + 1) % L \in 0..L - 1
  BY <1>1
<1>3. (t + 1) % L >= 1
  BY <1>1, <1>2 DEF L
<1>4. ASSUME NEW a \in Int, NEW b \in Int, b + 1 <= a PROVE L * (b + 1) <= L * a
  BY <1>1, <1>4
<1>5. (t + 1) \div L <= t \div L
  <2> SUFFICES ASSUME ~((t + 1) \div L <= t \div L) PROVE FALSE
    OBVIOUS
  <2>1. L * ((t \div L) + 1) <= L * ((t + 1) \div L)
    BY <1>2, <1>4
  <2> QED
    BY <1>1, <1>2, <1>3, <2>1
<1>6. t \div L <= (t + 1) \div L
  <2> SUFFICES ASSUME ~(t \div L <= (t + 1) \div L) PROVE FALSE
    OBVIOUS
  <2>1. L * (((t + 1) \div L) + 1) <= L * (t \div L)
    BY <1>2, <1>4
  <2>2. L * (((t + 1) \div L) + 1) = L * ((t + 1) \div L) + L
    BY <1>1, <1>2
  <2>3. L * ((t + 1) \div L) \in Int /\ L * (t \div L) \in Int
    BY <1>1, <1>2
  <2> QED
    BY <1>1, <1>2, <2>1, <2>2, <2>3
<1> QED
  BY <1>2, <1>5, <1>6 DEF L

LEMMA CalendarTyped ==
    ASSUME CalendarTypes, [CalendarNext]_calendarVars
    PROVE  CalendarTypes'
<1> USE DEF CalendarTypes, Places
<1>1. Today \in Int
  BY CalendarAssumption DEF Today
<1>2. Others \subseteq Ids /\ EventsOf(Today) \subseteq Ids
  BY DEF Others, EventsOf
<1>3. CASE StartCalendar \/ StopCalendar \/ UpdateBegins
  BY <1>3 DEF StartCalendar, StopCalendar, UpdateBegins, MonitorIdle, marks
<1>4. ASSUME NEW b \in BOOLEAN, UpdateDaily(b) PROVE CalendarTypes'
  BY <1>1, <1>2, <1>4 DEF UpdateDaily, MonitorIdle
<1>5. CASE CheckApproaching
  BY <1>5 DEF CheckApproaching, marks
<1>6. CASE CheckAdjustments
  <2> DEFINE due == {e \in cal_events : Approaching(e)}
  <2>1. due \in SUBSET Ids
    OBVIOUS
  <2>2. monitor' = [monitor EXCEPT !.at = "adjust", !.work = due]
    BY <1>6 DEF CheckAdjustments
  <2> HIDE DEF due
  <2>3. monitor' \in [at : Places, work : SUBSET Ids, i : Nat, pass : Int, list : Int]
    BY <2>1, <2>2
  <2>4. /\ cal_clock' = cal_clock /\ last_update' = last_update /\ cal_events' = cal_events
        /\ updater' = updater
    BY <1>6 DEF CheckAdjustments, marks
  <2> QED
    BY <2>3, <2>4
<1>7. CASE NotifyEvent \/ EventNotified
  BY <1>2, <1>7 DEF NotifyEvent, EventNotified, marks
<1>8. CASE AdjustEvent
  BY <1>2, <1>8 DEF AdjustEvent, marks
<1>9. CASE Announce
  BY <1>2, <1>9 DEF Announce, marks
<1>10. CASE Sleep
  BY <1>10 DEF Sleep, marks
<1>11. ASSUME NEW b \in BOOLEAN, WidenStop(b) PROVE CalendarTypes'
  BY <1>11 DEF WidenStop
<1>12. CASE CalendarTick
  BY <1>12 DEF CalendarTick, marks
<1>13. CASE UNCHANGED calendarVars
  BY <1>13 DEF calendarVars
<1> QED
  BY <1>3, <1>4, <1>5, <1>6, <1>7, <1>8, <1>9, <1>10, <1>11, <1>12, <1>13 DEF CalendarNext

\* A callback widens the stop it is for once, because what was widened before for its event
\* belongs to earlier callbacks, whatever update reset the marks meanwhile.
LEMMA WideningKept ==
    ASSUME CalendarTypes, WideningInv, UpToDate, [CalendarNext]_calendarVars
    PROVE  WideningInv'
<1> USE DEF CalendarTypes, WideningInv, NextEvent
<1>1. CASE StartCalendar \/ UpdateBegins
  BY <1>1 DEF StartCalendar, UpdateBegins, marks
<1>2. CASE StopCalendar
  BY <1>2 DEF StopCalendar, MonitorIdle, marks
<1>3. ASSUME NEW b \in BOOLEAN, UpdateDaily(b) PROVE WideningInv'
  BY <1>3 DEF UpdateDaily, MonitorIdle, NoneWidened
<1>4. CASE CheckApproaching
  BY <1>4 DEF CheckApproaching, marks
<1>5. CASE CheckAdjustments
  BY <1>5 DEF CheckAdjustments, marks
<1>6. CASE NotifyEvent \/ EventNotified
  BY <1>6 DEF NotifyEvent, EventNotified, marks
<1>7. CASE AdjustEvent
  BY <1>7 DEF AdjustEvent, AlreadyAdjusted, marks
<1>8. CASE Announce \/ Sleep
  BY <1>8 DEF Announce, Sleep, marks
<1>9. ASSUME NEW b \in BOOLEAN, WidenStop(b) PROVE WideningInv'
  <2> DEFINE x == Min(monitor.work)
  <2> HIDE DEF x
  <2>1. /\ monitor.at = "widen" /\ x \notin adjusted_ids /\ monitor.i \in Nat
        /\ widened' = IF b THEN [widened EXCEPT ![<<x, monitor.i>>] = @ + 1] ELSE widened
        /\ monitor.i = Len(Schedule[x].instruments)
             => /\ monitor' = [monitor EXCEPT !.at = "announce"]
                /\ adjusted_ids' = adjusted_ids \cup {x}
        /\ monitor.i # Len(Schedule[x].instruments)
             => /\ monitor' = [monitor EXCEPT !.i = monitor.i + 1]
                /\ adjusted_ids' = adjusted_ids
    BY <1>9 DEF WidenStop, MarkAdjusted, x
  <2>2. \A p \in Pairs : p[2] \in Int /\ p = <<p[1], p[2]>>
    BY CalendarAssumption DEF Pairs, Ids
  <2>3. \A p \in Pairs : widened[p] = 0 \/ p[1] \in adjusted_ids
            \/ (p[1] = x /\ p[2] < monitor.i)
    BY <2>1 DEF x
  <2>4. <<x, monitor.i>> \in Pairs => widened[<<x, monitor.i>>] = 0
    BY <2>1, <2>3
  <2>5. widened' \in [Pairs -> 0..1]
    <3>1. CASE <<x, monitor.i>> \in Pairs /\ b
      BY <2>1, <2>4, <3>1
    <3>2. CASE ~(<<x, monitor.i>> \in Pairs /\ b)
      <4>1. widened' = widened
        BY <2>1, <3>2
      <4> QED
        BY <4>1
    <3> QED
      BY <3>1, <3>2
  <2>6. \A p \in Pairs : widened'[p] = widened[p] \/ p = <<x, monitor.i>>
    BY <2>1
  <2>7. CASE monitor.i = Len(Schedule[x].instruments)
    BY <2>1, <2>3, <2>5, <2>6, <2>7
  <2>8. CASE monitor.i # Len(Schedule[x].instruments)
    <3>1. /\ monitor'.at = "widen" /\ monitor'.i = monitor.i + 1
          /\ monitor'.work = monitor.work /\ adjusted_ids' = adjusted_ids
      BY <2>1, <2>8
    <3>2. ASSUME NEW p \in Pairs
          PROVE  widened'[p] = 0 \/ p[1] \in adjusted_ids \/ (p[1] = x /\ p[2] < monitor.i + 1)
      BY <2>1, <2>2, <2>3, <2>6
    <3> QED
      BY <2>1, <2>5, <3>1, <3>2 DEF x
  <2> QED
    BY <2>7, <2>8
<1>10. CASE CalendarTick
  BY <1>10 DEF CalendarTick, marks
<1>11. CASE UNCHANGED calendarVars
  BY <1>11 DEF calendarVars
<1> QED
  BY <1>1, <1>2, <1>3, <1>4, <1>5, <1>6, <1>7, <1>8, <1>9, <1>10, <1>11 DEF CalendarNext

\* The updater has had its turn at every tick before the clock goes on.
LEMMA UpToDateKept ==
    ASSUME CalendarTypes, UpToDate, [CalendarNext]_calendarVars
    PROVE  UpToDate'
<1> USE DEF CalendarTypes, UpToDate, Midnight, Today
<1>1. CASE StartCalendar \/ StopCalendar \/ UpdateBegins
  BY <1>1 DEF StartCalendar, StopCalendar, UpdateBegins, MonitorIdle, marks
<1>2. ASSUME NEW b \in BOOLEAN, UpdateDaily(b) PROVE UpToDate'
  BY <1>2 DEF UpdateDaily, MonitorIdle
<1>3. CASE CheckApproaching \/ CheckAdjustments \/ NotifyEvent \/ EventNotified
  BY <1>3 DEF CheckApproaching, CheckAdjustments, NotifyEvent, EventNotified, marks
<1>4. CASE AdjustEvent \/ Announce \/ Sleep
  BY <1>4 DEF AdjustEvent, Announce, Sleep, marks
<1>5. ASSUME NEW b \in BOOLEAN, WidenStop(b) PROVE UpToDate'
  BY <1>5 DEF WidenStop
<1>6. CASE CalendarTick
  BY <1>6, SameDay DEF CalendarTick, marks
<1>7. CASE UNCHANGED calendarVars
  BY <1>7 DEF calendarVars
<1> QED
  BY <1>1, <1>2, <1>3, <1>4, <1>5, <1>6, <1>7 DEF CalendarNext

\* No update comes between the look at the calendar and the end of a pass, but at midnight.
LEMMA DueKept ==
    ASSUME CalendarTypes, UpToDate, DueIsSeen, [CalendarNext]_calendarVars
    PROVE  DueIsSeen'
<1> USE DEF CalendarTypes, DueIsSeen, Due, Approaching, Midnight
<1>1. CASE StartCalendar
  BY <1>1 DEF StartCalendar, UpToDate, marks
<1>2. CASE StopCalendar \/ UpdateBegins
  BY <1>2 DEF StopCalendar, UpdateBegins, MonitorIdle, marks, Others, NextEvent
<1>3. ASSUME NEW b \in BOOLEAN, UpdateDaily(b) PROVE DueIsSeen'
  BY <1>3 DEF UpdateDaily, MonitorIdle, UpToDate
<1>4. CASE CheckApproaching
  BY <1>4 DEF CheckApproaching, marks
<1>5. CASE NotifyEvent \/ EventNotified
  BY <1>5 DEF NotifyEvent, EventNotified, marks
<1>6. CASE CheckAdjustments
  BY <1>6 DEF CheckAdjustments, marks
<1>7. CASE AdjustEvent
  BY <1>7 DEF AdjustEvent, AlreadyAdjusted, marks, Others
<1>8. CASE Announce
  <2>1. /\ monitor.at = "announce" /\ monitor'.at = "adjust" /\ monitor'.work = Others
        /\ monitor'.pass = monitor.pass
        /\ cal_clock' = cal_clock /\ cal_events' = cal_events /\ adjusted_ids' = adjusted_ids
    BY <1>8 DEF Announce, marks
  <2> QED
    BY <2>1
<1>9. CASE Sleep
  <2>1. /\ monitor.at = "adjust" /\ monitor.work = {}
        /\ monitor'.at = "asleep" /\ monitor'.pass = monitor.pass
        /\ cal_clock' = cal_clock /\ cal_events' = cal_events /\ adjusted_ids' = adjusted_ids
    BY <1>9 DEF Sleep, marks
  <2> QED
    BY <2>1
<1>10. ASSUME NEW b \in BOOLEAN, WidenStop(b) PROVE DueIsSeen'
  BY <1>10 DEF WidenStop, MarkAdjusted, Others, NextEvent
<1>11. CASE CalendarTick
  BY <1>11 DEF CalendarTick, marks
<1>12. CASE UNCHANGED calendarVars
  BY <1>12 DEF calendarVars, Others, NextEvent
<1> QED
  BY <1>1, <1>2, <1>3, <1>4, <1>5, <1>6, <1>7, <1>8, <1>9, <1>10, <1>11, <1>12 DEF CalendarNext

\* What the clock passes was adjusted in the pass of this tick.
LEMMA NoneOverlookedKept ==
    ASSUME CalendarInv, [CalendarNext]_calendarVars
    PROVE  NoneOverlooked'
<1>1. CASE UNCHANGED overlooked
  BY <1>1 DEF CalendarInv, NoneOverlooked
<1>2. CASE CalendarTick
  <2>1. overlooked' = overlooked
          \/ /\ monitor.at = "asleep"
             /\ overlooked' = overlooked \cup {e \in cal_events : /\ Schedule[e].at = cal_clock
                                                                  /\ e \notin adjusted_ids}
    BY <1>2 DEF CalendarTick
  <2>2. ASSUME NEW e \in cal_events, Schedule[e].at = cal_clock, e \notin adjusted_ids,
               monitor.at = "asleep"
        PROVE  Schedule[e].instruments = <<>> \/ Schedule[e].at % Day = 0
    BY <2>2, CalendarAssumption
       DEF CalendarInv, CalendarTypes, DueIsSeen, Due, Approaching, Midnight
  <2> QED
    BY <2>1, <2>2 DEF CalendarInv, NoneOverlooked
<1> QED
  BY <1>1, <1>2 DEF CalendarNext, StartCalendar, StopCalendar, UpdateBegins, CheckApproaching,
     NotifyEvent, EventNotified, CheckAdjustments, AdjustEvent, Announce, Sleep, UpdateDaily,
     WidenStop, calendarVars

\* Whatever callbacks fail or suspend the monitor, and whatever update or restart of the calendar
\* comes meanwhile, each event is adjusted once, and none passes a running monitor without it.
THEOREM EventsAreHandledOnce == CalendarSpec => []EachEventOnce
<1>1. CalendarInit => CalendarInv
  BY DEF CalendarInit, CalendarInv, CalendarTypes, Places, WideningInv, UpToDate, DueIsSeen,
     NoneOverlooked, MonitorIdle, NoneWidened
<1>2. CalendarInv /\ [CalendarNext]_calendarVars => CalendarInv'
  <2> SUFFICES ASSUME CalendarInv, [CalendarNext]_calendarVars PROVE CalendarInv'
    OBVIOUS
  <2>1. CalendarTypes /\ WideningInv /\ UpToDate /\ DueIsSeen
    BY DEF CalendarInv
  <2>2. CalendarTypes' /\ WideningInv' /\ UpToDate' /\ DueIsSeen' /\ NoneOverlooked'
    BY <2>1, CalendarTyped, WideningKept, UpToDateKept, DueKept, NoneOverlookedKept
  <2> QED
    BY <2>2 DEF CalendarInv
<1>3. CalendarInv => EachEventOnce
  BY DEF CalendarInv, WideningInv, EachEventOnce, WidenedOnce
<1> QED
  BY <1>1, <1>2, <1>3, PTL DEF CalendarSpec

-----------------------------------------------------------------------------
(* Learning from mistakes *)

Patterns(context, reactivated, progress) ==
    [class : {"counter_trend_entry"}, context : {context}, active : BOOLEAN,
     reactivated : {reactivated}, penalty : {20, 30}, progress : {progress}]
IsPattern(p) == p \in Patterns(p.context, p.reactivated, p.progress)

\* One row at most, and one active copy of it at most, which the row backs; nothing is applied
\* before its row is written, and a copy whose turn is to come is still active.
PatternInv ==
    /\ \/ db_patterns = << >> /\ active_patterns = {}
       \/ db_patterns = <<db_patterns[1]>> /\ IsPattern(db_patterns[1])
    /\ \A a \in active_patterns : a = [id |-> 1, pattern |-> a.pattern] /\ IsPattern(a.pattern)
    /\ \A a, b \in ActiveCopies : a = b
    /\ \A a \in ActiveCopies : db_patterns[1].active
    /\ learning.at \in {"idle", "detect", "applied", "progress", "resolved"}
    /\ learning.at = "applied" =>
         /\ ActiveCopies = {} /\ db_patterns = <<db_patterns[1]>> /\ db_patterns[1].active
         /\ learning.id = 1 /\ IsPattern(learning.pattern) /\ learning.pattern.active = TRUE
    /\ learning.at = "progress" => learning.left \in SUBSET {a.id : a \in ActiveCopies}
    /\ learning.at = "resolved" => learning.left = {} /\ learning.id = 1 /\ ActiveCopies = {}

\* What the writes make of a pattern is a pattern.
LEMMA NewIsPattern ==
    ASSUME NEW records
    PROVE  IsPattern(NewPattern(records)) /\ NewPattern(records).active = TRUE
<1> DEFINE c == MostCommon(records)
<1>1. ClassifyMistake(LoopOutcome) = "counter_trend_entry"
  BY DEF ClassifyMistake, LoopOutcome
<1>2. NewPattern(records) = [class |-> "counter_trend_entry", context |-> c, active |-> TRUE,
                             reactivated |-> FALSE, penalty |-> 20, progress |-> 0]
  BY <1>1 DEF NewPattern
<1> HIDE DEF c
<1> QED
  BY <1>2 DEF IsPattern, Patterns

LEMMA ReactivatedIsPattern ==
    ASSUME NEW p, IsPattern(p)
    PROVE  IsPattern(Reactivated(p)) /\ Reactivated(p).active = TRUE
BY DEF IsPattern, Patterns, Reactivated

LEMMA RowIsPattern ==
    ASSUME NEW p, NEW n, IsPattern(p)
    PROVE  /\ IsPattern([p EXCEPT !.active = FALSE])
           /\ IsPattern([p EXCEPT !.progress = n])
           /\ [p EXCEPT !.progress = n].active = p.active
BY DEF IsPattern, Patterns

LEMMA FeedKeeps ==
    ASSUME PatternInv, NEW trade \in ClosedTrades, FeedLoss(trade) \/ FeedProfit(trade)
    PROVE  PatternInv'
BY DEF PatternInv, FeedLoss, FeedProfit, Quiet, ActiveCopies

\* A pattern is created or brought back only while no row is active.
LEMMA DetectKeeps ==
    ASSUME PatternInv, NotEnough \/ UpdateExisting \/ CreatePattern \/ ReactivatePattern
    PROVE  PatternInv'
<1>1. CASE NotEnough \/ UpdateExisting
  BY <1>1 DEF PatternInv, NotEnough, UpdateExisting, Quiet, ActiveCopies
<1>2. CASE CreatePattern
  <2> DEFINE p == NewPattern(RecentLosses)
  <2>1. db_patterns = << >> /\ active_patterns = {}
    BY <1>2 DEF CreatePattern, PatternInv, ResolvedRows, ActiveRows
  <2>2. IsPattern(p) /\ p.active
    BY NewIsPattern
  <2> HIDE DEF p
  <2>3. /\ active_patterns' = {}
        /\ db_patterns' \in {<<p>>, << >>}
        /\ \/ learning' = Quiet
           \/ db_patterns' = <<p>> /\ learning' = [at |-> "applied", id |-> 1, pattern |-> p]
    BY <1>2, <2>1 DEF CreatePattern, DbWrite, p
  <2>4. ActiveCopies' = {}
    BY <2>3 DEF ActiveCopies
  <2> QED
    BY <2>2, <2>3, <2>4 DEF PatternInv, Quiet
<1>3. CASE ReactivatePattern
  <2> DEFINE q == Reactivated(db_patterns[1])
  <2>1. /\ db_patterns = <<db_patterns[1]>> /\ IsPattern(db_patterns[1])
        /\ ~db_patterns[1].active /\ ResolvedRows = {1}
    BY <1>3 DEF ReactivatePattern, PatternInv, ResolvedRows, ActiveRows
  <2>2. Max(ResolvedRows) = 1
    BY <2>1 DEF Max
  <2>3. IsPattern(q) /\ q.active
    BY <2>1, ReactivatedIsPattern
  <2>4. ActiveCopies = {}
    BY <2>1 DEF PatternInv
  <2> HIDE DEF q
  <2>5. [db_patterns EXCEPT ![1] = q] = <<q>>
    BY <2>1
  <2>6. /\ active_patterns' = active_patterns
        /\ db_patterns' \in {<<q>>, db_patterns}
        /\ \/ learning' = Quiet
           \/ db_patterns' = <<q>> /\ learning' = [at |-> "applied", id |-> 1, pattern |-> q]
    BY <1>3, <2>2, <2>5 DEF ReactivatePattern, DbWrite, q
  <2>7. ActiveCopies' = {}
    BY <2>4, <2>6 DEF ActiveCopies
  <2> QED
    BY <2>1, <2>3, <2>6, <2>7 DEF PatternInv, Quiet
<1> QED
  BY <1>1, <1>2, <1>3

LEMMA ApplyKeeps ==
    ASSUME PatternInv, ApplyPattern
    PROVE  PatternInv'
<1> DEFINE copy == [id |-> 1, pattern |-> learning.pattern]
<1>1. /\ ActiveCopies = {} /\ db_patterns = <<db_patterns[1]>> /\ db_patterns[1].active
      /\ learning.id = 1 /\ IsPattern(learning.pattern) /\ learning.pattern.active
      /\ IsPattern(db_patterns[1])
  BY DEF PatternInv, ApplyPattern
<1>2. /\ active_patterns' = active_patterns \cup {copy} /\ db_patterns' = db_patterns
      /\ learning' = Quiet
  BY <1>1 DEF ApplyPattern
<1>3. ActiveCopies' = {copy}
  BY <1>1, <1>2 DEF ActiveCopies
<1> QED
  BY <1>1, <1>2, <1>3 DEF PatternInv, Quiet

\* The copy is counted in memory first: when the write of its end fails the row stays active
\* without a copy, never the other way round.
LEMMA ProgressKeeps ==
    ASSUME PatternInv, NEW id \in DOMAIN db_patterns, Progress(id)
    PROVE  PatternInv'
<1> DEFINE a == CopyOf(id)
           p == a.pattern
           n == IF learning.trade.pnl > 0 THEN p.progress + 1 ELSE 0
<1>1. learning.at = "progress" /\ id \in learning.left
  BY DEF Progress
<1>2. /\ id = 1 /\ a \in ActiveCopies /\ a.id = 1
      /\ learning.left = {1} /\ ActiveCopies = {a}
  <2>1. PICK b \in ActiveCopies : b.id = id
    BY <1>1 DEF PatternInv
  <2>2. a \in ActiveCopies /\ a.id = id
    BY <2>1 DEF CopyOf
  <2>3. \A c \in ActiveCopies : c = a /\ c.id = 1
    BY <2>2 DEF PatternInv, ActiveCopies
  <2> QED
    BY <1>1, <2>2, <2>3 DEF PatternInv
<1>3. /\ db_patterns = <<db_patterns[1]>> /\ IsPattern(db_patterns[1]) /\ db_patterns[1].active
      /\ a \in active_patterns /\ IsPattern(p)
  BY <1>2 DEF PatternInv, ActiveCopies
<1> HIDE DEF a, p, n
<1>4. CASE n >= ResolutionStreak
  <2> DEFINE q == [p EXCEPT !.progress = n, !.active = FALSE]
             row == [db_patterns[1] EXCEPT !.active = FALSE]
  <2> HIDE DEF q, row
  <2>0. [db_patterns EXCEPT ![1] = row] = <<row>>
    BY <1>3
  <2>1. /\ active_patterns' = (active_patterns \ {a}) \cup {[id |-> 1, pattern |-> q]}
        /\ db_patterns' \in {[db_patterns EXCEPT ![1] = row], db_patterns}
        /\ \/ learning' = Quiet
           \/ learning' = [at |-> "resolved", id |-> 1, trade |-> learning.trade, left |-> {}]
    BY <1>2, <1>4 DEF Progress, DbWrite, a, p, n, q, row
  <2>2. /\ IsPattern(q) /\ q.active = FALSE
        /\ IsPattern(row)
    <3>1. IsPattern(q) /\ q.active = FALSE
      BY <1>3 DEF q, IsPattern, Patterns
    <3>2. IsPattern(row)
      BY <1>3, RowIsPattern DEF row
    <3> QED
      BY <3>1, <3>2
  <2>3. ActiveCopies' = {}
    BY <1>2, <2>1, <2>2 DEF ActiveCopies
  <2> QED
    BY <1>3, <2>0, <2>1, <2>2, <2>3 DEF PatternInv, Quiet
<1>5. CASE ~(n >= ResolutionStreak)
  <2> DEFINE q == [p EXCEPT !.progress = n, !.active = TRUE]
             row == [db_patterns[1] EXCEPT !.progress = n]
             copy == [id |-> 1, pattern |-> q]
  <2> HIDE DEF q, row
  <2>0. [db_patterns EXCEPT ![1] = row] = <<row>>
    BY <1>3
  <2>1. /\ active_patterns' = (active_patterns \ {a}) \cup {[id |-> 1, pattern |-> q]}
        /\ db_patterns' \in {[db_patterns EXCEPT ![1] = row], db_patterns}
        /\ \/ learning' = Quiet
           \/ learning' = [at |-> "progress", id |-> 1, trade |-> learning.trade, left |-> {}]
    BY <1>2, <1>5 DEF Progress, DbWrite, a, p, n, q, row
  <2>2. /\ IsPattern(q) /\ q.active = TRUE
        /\ IsPattern(row) /\ row.active = db_patterns[1].active
    <3>1. IsPattern(q) /\ q.active = TRUE
      BY <1>3 DEF q, IsPattern, Patterns
    <3>2. IsPattern(row) /\ row.active = db_patterns[1].active
      BY <1>3, RowIsPattern DEF row
    <3> QED
      BY <3>1, <3>2
  <2>3. ActiveCopies' = {copy}
    BY <1>2, <2>1, <2>2 DEF ActiveCopies
  <2>4. db_patterns' = <<db_patterns'[1]>> /\ IsPattern(db_patterns'[1])
        /\ db_patterns'[1].active
    BY <1>3, <2>0, <2>1, <2>2
  <2>5. \A b \in active_patterns' : b = [id |-> 1, pattern |-> b.pattern] /\ IsPattern(b.pattern)
    BY <2>1, <2>2 DEF PatternInv
  <2> QED
    BY <2>1, <2>3, <2>4, <2>5 DEF PatternInv, Quiet
<1> QED
  BY <1>4, <1>5

LEMMA ResolutionKeeps ==
    ASSUME PatternInv,
           \/ ProgressEnds \/ RemoveResolved
           \/ \E id \in DOMAIN db_patterns : SkipPattern(id)
    PROVE  PatternInv'
<1>1. CASE ProgressEnds
  BY <1>1 DEF PatternInv, ProgressEnds, Quiet, ActiveCopies
<1>2. CASE RemoveResolved
  <2>1. /\ active_patterns' \subseteq active_patterns /\ db_patterns' = db_patterns
        /\ learning' = [at |-> "progress", trade |-> learning.trade, left |-> {}]
        /\ ActiveCopies = {}
    BY <1>2 DEF PatternInv, RemoveResolved
  <2>2. ActiveCopies' = {}
    BY <2>1 DEF ActiveCopies
  <2> QED
    BY <2>1, <2>2 DEF PatternInv
<1>3. ASSUME NEW id \in DOMAIN db_patterns, SkipPattern(id) PROVE PatternInv'
  BY <1>3 DEF PatternInv, SkipPattern, ActiveCopies
<1> QED
  BY <1>1, <1>2, <1>3

\* What is loaded at the start are the active rows, or nothing.
LEMMA RestartKeeps ==
    ASSUME PatternInv, Restart
    PROVE  PatternInv'
<1>1. db_patterns' = db_patterns /\ learning' = Quiet
  BY DEF Restart
<1>2. CASE active_patterns' = {}
  <2>1. ActiveCopies' = {}
    BY <1>2 DEF ActiveCopies
  <2> QED
    BY <1>1, <1>2, <2>1 DEF PatternInv, Quiet
<1>3. CASE active_patterns' = {[id |-> k, pattern |-> db_patterns[k]] : k \in ActiveRows}
  <2>1. CASE db_patterns = << >>
    BY <1>1, <1>2, <1>3, <2>1 DEF ActiveRows
  <2>2. CASE db_patterns = <<db_patterns[1]>> /\ IsPattern(db_patterns[1])
    <3>1. ActiveRows \subseteq {1} /\ (1 \in ActiveRows => db_patterns[1].active)
      BY <2>2 DEF ActiveRows
    <3>2. active_patterns' \subseteq {[id |-> 1, pattern |-> db_patterns[1]]}
      BY <1>3, <3>1
    <3>3. active_patterns' # {} => db_patterns[1].active
      BY <1>3, <3>1
    <3> QED
      BY <1>1, <2>2, <3>2, <3>3 DEF PatternInv, Quiet, ActiveCopies
  <2> QED
    BY <2>1, <2>2 DEF PatternInv
<1> QED
  BY <1>2, <1>3 DEF Restart

\* Whatever write fails, before or after its commit, and wherever the process stops: a penalty
\* in force is backed by an active row and counted once, and the class has one pattern for ever.
THEOREM PenaltiesAreBacked == MistakeSpec => []PatternsAgree
<1>1. MistakeInit => PatternInv
  BY DEF MistakeInit, PatternInv, Quiet, ActiveCopies
<1>2. PatternInv /\ [MistakeNext]_mistakeVars => PatternInv'
  <2> SUFFICES ASSUME PatternInv, [MistakeNext]_mistakeVars PROVE PatternInv'
    OBVIOUS
  <2>1. CASE LearnDay \/ UNCHANGED mistakeVars
    BY <2>1 DEF LearnDay, mistakeVars, PatternInv, ActiveCopies
  <2> QED
    BY <2>1, FeedKeeps, DetectKeeps, ApplyKeeps, ProgressKeeps, ResolutionKeeps, RestartKeeps
       DEF MistakeNext
<1>3. PatternInv => PatternsAgree
  <2> SUFFICES ASSUME PatternInv PROVE PatternsAgree
    OBVIOUS
  <2>1. OnePatternPerClass
    BY DEF PatternInv, OnePatternPerClass
  <2>2. \A a \in ActiveCopies : a.id = 1 /\ a.pattern.penalty <= 30 /\ db_patterns[a.id].active
    BY DEF PatternInv, IsPattern, Patterns, ActiveCopies
  <2>3. \A a, b \in ActiveCopies : a = b
    BY DEF PatternInv
  <2> QED
    BY <2>1, <2>2, <2>3 DEF PatternsAgree, PenaltyIsPersistent, Penalising
<1> QED
  BY <1>1, <1>2, <1>3, PTL DEF MistakeSpec
-----------------------------------------------------------------------------
(* Notifications *)

NotesTyped ==
    /\ note \in [kind : {"none", "send", "trade", "kill"}, over : BOOLEAN, priority : Priorities,
                 order : {<<>>, Channels} \cup Configured, targets : SUBSET All]
    /\ left \in SUBSET note.targets
    /\ DOMAIN sending \in SUBSET All /\ sending \in [DOMAIN sending -> Nat]
    /\ attempt \in [n : 1..MaxRetries, fallback : BOOLEAN]
    /\ channel_status \in [All -> {"untried", "delivered", "failed"}]
    /\ requests \in [All -> Nat]

\* The targets come in turn: those not begun and the channel being tried are without a result, and
\* only send() tries a channel more than once.
InTurn ==
    /\ note.over => DOMAIN sending = {} /\ left = {}
    /\ \A c \in left \cup DOMAIN sending : channel_status[c] = "untried"
    /\ left \cap DOMAIN sending = {}
    /\ note.kind # "send" => attempt = First
    /\ note.kind \in {"send", "trade"} /\ ~note.over => \E c \in All : DOMAIN sending = {c}
    /\ note.kind = "kill" => left = {}

\* The requests on the channel being tried are those of its earlier attempts and of this one;
\* one not tried has had none.
RequestsAreThose ==
    /\ \A c \in DOMAIN sending :
         /\ sending[c] < RequestsPerAttempt(c)
         /\ requests[c] <= (attempt.n - 1) * RequestsPerAttempt(c) + sending[c]
    /\ \A c \in All \ DOMAIN sending : channel_status[c] = "untried" => requests[c] = 0
    /\ OnePassPerChannel

FailedChannels == {c \in All : channel_status[c] = "failed"}
OutsideFailed == Cardinality(FailedChannels \ note.targets)
TargetsFailed == Cardinality(FailedChannels \cap note.targets)
NoneDelivered == \A c \in All : channel_status[c] # "delivered"

\* While nothing is delivered each target that failed has its own fallback, failed or being
\* tried, unless no channel is left.
FallbacksKeepUp ==
    note.kind = "send" /\ NoneDelivered =>
        /\ \A c \in note.targets : channel_status[c] = "untried" => c \in left \cup DOMAIN sending
        /\ ~attempt.fallback =>
              /\ DOMAIN sending \subseteq note.targets
              /\ All \ note.targets \subseteq FailedChannels \/ TargetsFailed <= OutsideFailed
        /\ attempt.fallback =>
              /\ DOMAIN sending \cap note.targets = {} /\ ~note.over
              /\ TargetsFailed <= OutsideFailed + 1

NotesInv == NotesTyped /\ InTurn /\ RequestsAreThose /\ FallbacksKeepUp

LEMMA ChannelsAreFinite == IsFiniteSet(All)
<1> DEFINE n == Len(Channels)
           f == [i \in 1..n |-> Channels[i]]
<1>1. n \in Nat /\ DOMAIN Channels = 1..n
  BY NotificationAssumption
<1>2. IsFiniteSet(1..n)
  BY <1>1, FS_Interval
<1>3. f \in Surjection(1..n, All)
  BY <1>1 DEF Surjection, All, ToSet
<1> QED
  BY <1>2, <1>3, FS_Surjection

\* What an attempt may cost: the earlier attempts and this one fit into all of them.
LEMMA AttemptFits ==
    ASSUME NEW n \in 1..MaxRetries, NEW c \in All, NEW s \in Nat, NEW q \in Nat,
           s < RequestsPerAttempt(c), q <= (n - 1) * RequestsPerAttempt(c) + s
    PROVE  /\ q + 1 <= n * RequestsPerAttempt(c)
           /\ q + 1 <= MaxRetries * RequestsPerAttempt(c)
           /\ q <= MaxRetries * RequestsPerAttempt(c)
<1> DEFINE R == RequestsPerAttempt(c)
<1>1. R \in Nat \ {0} /\ MaxRetries \in Nat \ {0}
  BY NotificationAssumption DEF RequestsPerAttempt
<1> HIDE DEF R
<1>2. n \in Nat /\ n <= MaxRetries /\ 1 <= n
  BY <1>1
<1>3. s + 1 <= R
  BY <1>1 DEF R
<1>4. (n - 1) * R + R = n * R /\ (n - 1) * R \in Int /\ n * R \in Int /\ MaxRetries * R \in Int
  BY <1>1, <1>2
<1>5. n * R <= MaxRetries * R
  <2>1. MaxRetries * R = n * R + (MaxRetries - n) * R
    BY <1>1, <1>2
  <2>2. (MaxRetries - n) * R >= 0 /\ (MaxRetries - n) * R \in Int
    BY <1>1, <1>2
  <2> QED
    BY <1>4, <2>1, <2>2
<1>6. q <= (n - 1) * R + s
  BY DEF R
<1>7. q + 1 <= n * R
  BY <1>1, <1>3, <1>4, <1>6
<1> QED
  BY <1>1, <1>4, <1>5, <1>7 DEF R

\* A channel that fails joins the failed targets or the failed others.
LEMMA FailedGrows ==
    ASSUME NotesTyped, NEW c \in All, channel_status[c] = "untried",
           channel_status' = [channel_status EXCEPT ![c] = "failed"],
           note'.targets = note.targets
    PROVE  /\ FailedChannels' = FailedChannels \cup {c}
           /\ TargetsFailed \in Nat /\ OutsideFailed \in Nat
           /\ c \in note.targets =>
                TargetsFailed' = TargetsFailed + 1 /\ OutsideFailed' = OutsideFailed
           /\ c \notin note.targets =>
                TargetsFailed' = TargetsFailed /\ OutsideFailed' = OutsideFailed + 1
<1> DEFINE T == note.targets
           inside == FailedChannels \cap T
           outside == FailedChannels \ T
<1>1. FailedChannels' = FailedChannels \cup {c} /\ c \notin FailedChannels
  BY DEF FailedChannels, NotesTyped
<1>2. inside \in SUBSET All /\ outside \in SUBSET All
  BY DEF FailedChannels
<1>3. IsFiniteSet(inside) /\ IsFiniteSet(outside)
  BY <1>2, ChannelsAreFinite, FS_Subset
<1>4. Cardinality(inside) \in Nat /\ Cardinality(outside) \in Nat
  BY <1>3, FS_CardinalityType
<1>5. c \notin inside /\ c \notin outside
  BY <1>1
<1>6. /\ Cardinality(inside \cup {c}) = Cardinality(inside) + 1
      /\ Cardinality(outside \cup {c}) = Cardinality(outside) + 1
  <2> HIDE DEF inside, outside
  <2> QED
    BY <1>3, <1>5, FS_AddElement
<1>7. /\ TargetsFailed = Cardinality(inside) /\ OutsideFailed = Cardinality(outside)
      /\ TargetsFailed' = Cardinality((FailedChannels \cup {c}) \cap T)
      /\ OutsideFailed' = Cardinality((FailedChannels \cup {c}) \ T)
  BY <1>1 DEF TargetsFailed, OutsideFailed
<1>8. CASE c \in T
  <2>1. /\ (FailedChannels \cup {c}) \cap T = inside \cup {c}
        /\ (FailedChannels \cup {c}) \ T = outside
    BY <1>8
  <2> QED
    BY <1>1, <1>4, <1>6, <1>7, <1>8, <2>1
<1>9. CASE c \notin T
  <2>1. /\ (FailedChannels \cup {c}) \cap T = inside
        /\ (FailedChannels \cup {c}) \ T = outside \cup {c}
    BY <1>9
  <2> QED
    BY <1>1, <1>4, <1>6, <1>7, <1>9, <2>1
<1> QED
  BY <1>8, <1>9

\* What every answer to a request does to the counts: one more on its channel, whose result, if
\* this was the last, leaves it within what it may cost.
LEMMA OneMoreRequest ==
    ASSUME NotesInv, NEW c \in DOMAIN sending, requests' = [requests EXCEPT ![c] = @ + 1]
    PROVE  /\ c \in All /\ requests' \in [All -> Nat] /\ channel_status[c] = "untried"
           /\ c \notin left /\ ~note.over /\ note.kind \in {"none", "send", "trade", "kill"}
           /\ note.kind \in {"send", "trade"} => DOMAIN sending = {c}
           /\ note.kind # "send" => attempt = First
           /\ attempt.n \in 1..MaxRetries
           /\ requests'[c] <= attempt.n * RequestsPerAttempt(c)
           /\ OnePassPerChannel'
           /\ \A d \in All \ {c} : requests'[d] = requests[d]
<1>1. /\ c \in All /\ requests' \in [All -> Nat] /\ channel_status[c] = "untried"
      /\ c \notin left /\ ~note.over /\ note.kind \in {"none", "send", "trade", "kill"}
      /\ attempt.n \in 1..MaxRetries /\ requests[c] \in Nat /\ sending[c] \in Nat
      /\ requests'[c] = requests[c] + 1
      /\ \A d \in All \ {c} : requests'[d] = requests[d]
  BY DEF NotesInv, NotesTyped, InTurn
<1>2. /\ note.kind \in {"send", "trade"} => DOMAIN sending = {c}
      /\ note.kind # "send" => attempt = First
  BY <1>1 DEF NotesInv, InTurn
<1>3. /\ sending[c] < RequestsPerAttempt(c)
      /\ requests[c] <= (attempt.n - 1) * RequestsPerAttempt(c) + sending[c]
  BY DEF NotesInv, RequestsAreThose
<1>4. /\ requests[c] + 1 <= attempt.n * RequestsPerAttempt(c)
      /\ requests[c] + 1 <= MaxRetries * RequestsPerAttempt(c)
  BY <1>1, <1>3, AttemptFits
<1>5. OnePassPerChannel'
  <2> SUFFICES ASSUME NEW d \in All
               PROVE  requests'[d] <= MaxRetries * RequestsPerAttempt(d)
    BY DEF OnePassPerChannel, RequestsPerAttempt
  <2>1. requests[d] <= MaxRetries * RequestsPerAttempt(d)
    BY DEF NotesInv, RequestsAreThose, OnePassPerChannel
  <2> QED
    BY <1>1, <1>4, <2>1
<1> QED
  BY <1>1, <1>2, <1>4, <1>5

\* A channel has its result and the call goes on with the next target, if there is one.
LEMMA ProceedKeeps ==
    ASSUME NotesInv, NEW c \in DOMAIN sending, NEW verdict \in {"delivered", "failed"},
           NEW rest \in {{}, left}, note.kind \in {"send", "trade"},
           note.kind = "send" => rest = left,
           note.kind = "send" /\ verdict = "failed" => attempt.fallback \/ Fallbacks(c) = {},
           requests' = [requests EXCEPT ![c] = @ + 1],
           channel_status' = [channel_status EXCEPT ![c] = verdict], Proceed(rest)
    PROVE  NotesInv'
<1>1. /\ c \in All /\ requests' \in [All -> Nat] /\ channel_status[c] = "untried"
      /\ c \notin left /\ ~note.over /\ DOMAIN sending = {c}
      /\ OnePassPerChannel' /\ \A d \in All \ {c} : requests'[d] = requests[d]
  BY OneMoreRequest
<1>2. /\ attempt' = First /\ First \in [n : 1..MaxRetries, fallback : BOOLEAN]
      /\ First.n = 1 /\ First.fallback = FALSE
  BY NotificationAssumption DEF Proceed, First
<1>3. /\ channel_status' \in [All -> {"untried", "delivered", "failed"}]
      /\ channel_status'[c] = verdict
      /\ \A d \in All \ {c} : channel_status'[d] = channel_status[d]
  BY <1>1 DEF NotesInv, NotesTyped
<1>4. /\ left \in SUBSET note.targets /\ note.targets \in SUBSET All
      /\ \A d \in left : channel_status[d] = "untried"
      /\ \A d \in All \ {c} : channel_status[d] = "untried" => requests[d] = 0
  BY <1>1 DEF NotesInv, NotesTyped, InTurn, RequestsAreThose
<1>5. /\ note' \in [kind : {"none", "send", "trade", "kill"}, over : BOOLEAN,
                    priority : Priorities, order : {<<>>, Channels} \cup Configured,
                    targets : SUBSET All]
      /\ note'.kind = note.kind /\ note'.targets = note.targets
  <2>1. note \in [kind : {"none", "send", "trade", "kill"}, over : BOOLEAN,
                    priority : Priorities, order : {<<>>, Channels} \cup Configured,
                    targets : SUBSET All]
    BY DEF NotesInv, NotesTyped
  <2>2. note' = note \/ note' = [note EXCEPT !.over = TRUE]
    BY DEF Proceed
  <2> QED
    BY <2>1, <2>2
<1>6. \/ rest = {} /\ note'.over /\ left' = {} /\ sending' = Nobody
      \/ \E d \in rest : ~note'.over /\ left' = rest \ {d} /\ sending' = Only(d)
  <2>1. CASE rest = {} /\ note' = [note EXCEPT !.over = TRUE] /\ sending' = Nobody /\ left' = {}
    BY <2>1 DEF NotesInv, NotesTyped
  <2>2. ASSUME NEW d \in FirstOf(note.order, rest), sending' = Only(d), left' = rest \ {d},
               note' = note
        PROVE  \E e \in rest : ~note'.over /\ left' = rest \ {e} /\ sending' = Only(e)
    BY <1>1, <2>2 DEF FirstOf
  <2> QED
    BY <2>1, <2>2 DEF Proceed
<1>7. FallbacksKeepUp'
  <2> SUFFICES ASSUME note'.kind = "send", NoneDelivered'
               PROVE  /\ \A d \in note'.targets : channel_status'[d] = "untried"
                                                  => d \in left' \cup DOMAIN sending'
                      /\ ~attempt'.fallback /\ DOMAIN sending' \subseteq note'.targets
                      /\ \/ All \ note'.targets \subseteq FailedChannels'
                         \/ TargetsFailed' <= OutsideFailed'
    BY <1>2 DEF FallbacksKeepUp
  <2>1. verdict = "failed" /\ NoneDelivered /\ rest = left /\ note.kind = "send"
    BY <1>1, <1>3, <1>5 DEF NoneDelivered
  <2>2. /\ \A d \in note.targets : channel_status[d] = "untried" => d \in left \cup {c}
        /\ ~attempt.fallback =>
              /\ c \in note.targets
              /\ All \ note.targets \subseteq FailedChannels \/ TargetsFailed <= OutsideFailed
        /\ attempt.fallback => c \notin note.targets /\ TargetsFailed <= OutsideFailed + 1
    BY <1>1, <2>1 DEF NotesInv, FallbacksKeepUp
  <2>3. left' \cup DOMAIN sending' = left
    <3>1. CASE rest = {} /\ left' = {} /\ sending' = Nobody
      BY <2>1, <3>1 DEF Nobody
    <3>2. ASSUME NEW d \in rest, left' = rest \ {d}, sending' = Only(d)
          PROVE  left' \cup DOMAIN sending' = left
      <4>1. DOMAIN sending' = {d}
        BY <3>2 DEF Only
      <4> QED
        BY <2>1, <3>2, <4>1
    <3> QED
      BY <1>6, <3>1, <3>2
  <2>4. \A d \in note'.targets : channel_status'[d] = "untried" => d \in left' \cup DOMAIN sending'
    BY <1>3, <1>4, <1>5, <2>1, <2>2, <2>3
  <2>5. DOMAIN sending' \subseteq note'.targets
    BY <1>4, <1>5, <2>3
  <2>6. /\ FailedChannels' = FailedChannels \cup {c}
        /\ TargetsFailed \in Nat /\ OutsideFailed \in Nat
        /\ c \notin note.targets =>
              TargetsFailed' = TargetsFailed /\ OutsideFailed' = OutsideFailed + 1
    BY <1>1, <1>5, <2>1, FailedGrows DEF NotesInv
  <2>7. CASE attempt.fallback
    BY <1>2, <2>2, <2>4, <2>5, <2>6, <2>7
  <2>8. CASE ~attempt.fallback
    <3>1. Fallbacks(c) = {}
      BY <2>1, <2>8
    <3>2. \A d \in All \ note.targets : channel_status[d] = "failed"
      <4>1. \A d \in All \ note.targets : d # c
        BY <2>2, <2>8
      <4>2. \A d \in All \ note.targets : channel_status[d] # "untried"
        BY <3>1, <4>1 DEF Fallbacks
      <4> QED
        BY <2>1, <4>2 DEF NoneDelivered, NotesInv, NotesTyped
    <3> QED
      BY <1>2, <1>5, <2>4, <2>5, <2>6, <3>2 DEF FailedChannels
  <2> QED
    BY <2>7, <2>8
<1>8. CASE rest = {} /\ note'.over /\ left' = {} /\ sending' = Nobody
  <2>1. DOMAIN sending' = {} /\ sending' \in [DOMAIN sending' -> Nat]
    BY <1>8 DEF Nobody
  <2>2. NotesTyped'
    BY <1>1, <1>2, <1>3, <1>5, <1>8, <2>1 DEF NotesTyped
  <2>3. InTurn'
    BY <1>2, <1>5, <1>8, <2>1 DEF InTurn
  <2>4. RequestsAreThose'
    BY <1>1, <1>3, <1>4, <2>1 DEF RequestsAreThose
  <2> QED
    BY <1>7, <2>2, <2>3, <2>4 DEF NotesInv
<1>9. ASSUME NEW d \in rest, ~note'.over, left' = rest \ {d}, sending' = Only(d)
      PROVE  NotesInv'
  <2>1. DOMAIN sending' = {d} /\ sending'[d] = 0 /\ sending' \in [DOMAIN sending' -> Nat]
    BY <1>9 DEF Only
  <2>2. d \in left /\ d \in All /\ d # c /\ left' \subseteq left
    BY <1>1, <1>4, <1>9
  <2>3. NotesTyped'
    BY <1>1, <1>2, <1>3, <1>4, <1>5, <2>1, <2>2 DEF NotesTyped
  <2>4. InTurn'
    <3>1. \A e \in left' \cup DOMAIN sending' : channel_status'[e] = "untried"
      BY <1>1, <1>3, <1>4, <2>1, <2>2
    <3> QED
      BY <1>2, <1>5, <1>9, <2>1, <2>2, <3>1 DEF InTurn
  <2>5. RequestsAreThose'
    <3>1. requests'[d] = 0
      BY <1>1, <1>4, <2>2
    <3>2. RequestsPerAttempt(d) \in Nat \ {0} /\ RequestsPerAttempt(d)' = RequestsPerAttempt(d)
      BY NotificationAssumption DEF RequestsPerAttempt
    <3>3. requests'[d] <= (attempt'.n - 1) * RequestsPerAttempt(d) + sending'[d]
      BY <1>2, <2>1, <3>1, <3>2
    <3>4. \A e \in All \ {d} : channel_status'[e] = "untried" => requests'[e] = 0
      BY <1>1, <1>3, <1>4
    <3> QED
      BY <1>1, <2>1, <3>2, <3>3, <3>4 DEF RequestsAreThose
  <2> QED
    BY <1>7, <2>3, <2>4, <2>5 DEF NotesInv
<1> QED
  BY <1>6, <1>8, <1>9

\* A channel of a kill switch notification has its result; the others are still being tried.
LEMMA AnsweredKeeps ==
    ASSUME NotesInv, NEW c \in DOMAIN sending, NEW verdict \in {"delivered", "failed"},
           note.kind = "kill", requests' = [requests EXCEPT ![c] = @ + 1],
           channel_status' = [channel_status EXCEPT ![c] = verdict], Answered(c)
    PROVE  NotesInv'
<1>1. /\ c \in All /\ requests' \in [All -> Nat] /\ channel_status[c] = "untried"
      /\ c \notin left /\ ~note.over /\ attempt = First
      /\ OnePassPerChannel' /\ \A d \in All \ {c} : requests'[d] = requests[d]
  BY OneMoreRequest
<1>2. /\ channel_status' \in [All -> {"untried", "delivered", "failed"}]
      /\ channel_status'[c] = verdict
      /\ \A d \in All \ {c} : channel_status'[d] = channel_status[d]
  BY <1>1 DEF NotesInv, NotesTyped
<1>3. /\ DOMAIN sending' = DOMAIN sending \ {c}
      /\ \A d \in DOMAIN sending' : sending'[d] = sending[d]
      /\ left' = left /\ attempt' = attempt
      /\ note' = [note EXCEPT !.over = (DOMAIN sending = {c})]
  BY DEF Answered
<1>4. /\ note' \in [kind : {"none", "send", "trade", "kill"}, over : BOOLEAN,
                    priority : Priorities, order : {<<>>, Channels} \cup Configured,
                    targets : SUBSET All]
      /\ note'.kind = "kill" /\ note'.targets = note.targets
      /\ note'.over => DOMAIN sending = {c}
  <2>1. note \in [kind : {"none", "send", "trade", "kill"}, over : BOOLEAN,
                    priority : Priorities, order : {<<>>, Channels} \cup Configured,
                    targets : SUBSET All]
    BY DEF NotesInv, NotesTyped
  <2>2. (DOMAIN sending = {c}) \in BOOLEAN
    OBVIOUS
  <2> QED
    BY <1>3, <2>1, <2>2
<1>5. NotesTyped'
  <2>1. /\ DOMAIN sending \in SUBSET All /\ sending \in [DOMAIN sending -> Nat]
        /\ attempt \in [n : 1..MaxRetries, fallback : BOOLEAN] /\ left \in SUBSET note.targets
    BY DEF NotesInv, NotesTyped
  <2>2. DOMAIN sending' \in SUBSET All /\ sending' \in [DOMAIN sending' -> Nat]
    BY <2>1 DEF Answered
  <2> QED
    BY <1>1, <1>2, <1>3, <1>4, <2>1, <2>2 DEF NotesTyped
<1>6. InTurn'
  <2>1. /\ \A d \in left \cup DOMAIN sending : channel_status[d] = "untried"
        /\ left \cap DOMAIN sending = {} /\ left \cup DOMAIN sending \subseteq All
    BY DEF NotesInv, InTurn, NotesTyped
  <2>2. left = {}
    BY DEF NotesInv, InTurn
  <2> QED
    BY <1>1, <1>2, <1>3, <1>4, <2>1, <2>2 DEF InTurn
<1>7. RequestsAreThose'
  <2>1. ASSUME NEW d \in DOMAIN sending'
        PROVE  /\ sending'[d] < RequestsPerAttempt(d)
               /\ requests'[d] <= (attempt'.n - 1) * RequestsPerAttempt(d) + sending'[d]
    <3>1. d \in DOMAIN sending /\ d # c /\ d \in All /\ sending'[d] = sending[d]
      BY <1>3 DEF NotesInv, NotesTyped
    <3>2. /\ sending[d] < RequestsPerAttempt(d)
          /\ requests[d] <= (attempt.n - 1) * RequestsPerAttempt(d) + sending[d]
      BY <3>1 DEF NotesInv, RequestsAreThose
    <3> QED
      BY <1>1, <1>3, <3>1, <3>2
  <2>2. \A d \in All \ DOMAIN sending' : channel_status'[d] = "untried" => requests'[d] = 0
    BY <1>1, <1>2, <1>3 DEF NotesInv, RequestsAreThose
  <2>3. \A d : RequestsPerAttempt(d)' = RequestsPerAttempt(d)
    BY DEF RequestsPerAttempt
  <2> QED
    BY <1>1, <2>1, <2>2, <2>3 DEF RequestsAreThose
<1>8. FallbacksKeepUp'
  BY <1>4 DEF FallbacksKeepUp
<1> QED
  BY <1>5, <1>6, <1>7, <1>8 DEF NotesInv

\* A channel is tried again, or a webhook repeats its request.
LEMMA AgainKeeps ==
    ASSUME NotesInv, NEW c \in DOMAIN sending, requests' = [requests EXCEPT ![c] = @ + 1],
           \/ TryAgain(c)
           \/ /\ c \in Webhooks /\ sending[c] + 1 < WebhookRetries
              /\ sending' = [sending EXCEPT ![c] = @ + 1]
              /\ UNCHANGED <<note, left, attempt, channel_status>>
    PROVE  NotesInv'
<1>1. /\ c \in All /\ requests' \in [All -> Nat] /\ channel_status[c] = "untried"
      /\ attempt.n \in 1..MaxRetries /\ requests'[c] <= attempt.n * RequestsPerAttempt(c)
      /\ OnePassPerChannel' /\ \A d \in All \ {c} : requests'[d] = requests[d]
      /\ note.kind = "send" => DOMAIN sending = {c}
  BY OneMoreRequest
<1>2. note' = note /\ left' = left /\ channel_status' = channel_status
  BY DEF TryAgain
<1>3. /\ DOMAIN sending' = DOMAIN sending /\ sending' \in [DOMAIN sending -> Nat]
      /\ \A d \in DOMAIN sending \ {c} : sending'[d] = sending[d]
  <2>1. CASE TryAgain(c)
    BY <1>1, <2>1 DEF TryAgain, Only
  <2>2. CASE sending' = [sending EXCEPT ![c] = @ + 1]
    BY <2>2 DEF NotesInv, NotesTyped
  <2> QED
    BY <2>1, <2>2
<1>4. /\ attempt' \in [n : 1..MaxRetries, fallback : BOOLEAN]
      /\ attempt'.fallback = attempt.fallback
      /\ note.kind # "send" => attempt' = attempt
  <2>1. attempt \in [n : 1..MaxRetries, fallback : BOOLEAN] /\ MaxRetries \in Nat
    BY NotificationAssumption DEF NotesInv, NotesTyped
  <2>2. CASE TryAgain(c)
    <3>1. attempt.n + 1 \in 1..MaxRetries /\ attempt' = [attempt EXCEPT !.n = attempt.n + 1]
      BY <2>1, <2>2 DEF TryAgain
    <3> QED
      BY <2>1, <2>2, <3>1 DEF TryAgain
  <2>3. CASE attempt' = attempt
    BY <2>1, <2>3
  <2> QED
    BY <2>2, <2>3
<1>5. NotesTyped'
  BY <1>1, <1>2, <1>3, <1>4 DEF NotesInv, NotesTyped
<1>6. InTurn'
  BY <1>2, <1>3, <1>4 DEF NotesInv, InTurn
<1>7. FallbacksKeepUp'
  <2>1. FailedChannels' = FailedChannels /\ (NoneDelivered' <=> NoneDelivered)
    BY <1>2 DEF FailedChannels, NoneDelivered
  <2>2. TargetsFailed' = TargetsFailed /\ OutsideFailed' = OutsideFailed
    BY <1>2, <2>1 DEF TargetsFailed, OutsideFailed
  <2> QED
    BY <1>2, <1>3, <1>4, <2>1, <2>2 DEF NotesInv, FallbacksKeepUp
<1>8. /\ sending'[c] < RequestsPerAttempt(c)
      /\ requests'[c] <= (attempt'.n - 1) * RequestsPerAttempt(c) + sending'[c]
  <2>1. RequestsPerAttempt(c) \in Nat \ {0}
    BY NotificationAssumption DEF RequestsPerAttempt
  <2>2. CASE TryAgain(c)
    <3>1. sending'[c] = 0 /\ attempt'.n - 1 = attempt.n
      <4>1. attempt' = [attempt EXCEPT !.n = attempt.n + 1] /\ sending' = Only(c)
        BY <2>2 DEF TryAgain
      <4>2. attempt'.n = attempt.n + 1
        BY <4>1 DEF NotesInv, NotesTyped
      <4> QED
        BY <1>1, <4>1, <4>2 DEF Only
    <3>2. attempt.n * RequestsPerAttempt(c) \in Int /\ requests'[c] \in Int
      BY <1>1, <2>1
    <3> QED
      BY <1>1, <2>1, <3>1, <3>2
  <2>3. CASE /\ c \in Webhooks /\ sending[c] + 1 < WebhookRetries /\ attempt' = attempt
             /\ sending' = [sending EXCEPT ![c] = @ + 1]
    <3>1. sending'[c] = sending[c] + 1 /\ requests'[c] = requests[c] + 1
      BY <1>1, <2>3 DEF NotesInv, NotesTyped
    <3>2. requests[c] <= (attempt.n - 1) * RequestsPerAttempt(c) + sending[c]
      BY DEF NotesInv, RequestsAreThose
    <3>3. /\ (attempt.n - 1) * RequestsPerAttempt(c) \in Int
          /\ requests[c] \in Int /\ sending[c] \in Int
      BY <1>1, <2>1 DEF NotesInv, NotesTyped
    <3>4. requests'[c] <= (attempt.n - 1) * RequestsPerAttempt(c) + sending'[c]
      BY <3>1, <3>2, <3>3
    <3> QED
      BY <2>3, <3>1, <3>4 DEF RequestsPerAttempt
  <2> QED
    BY <2>2, <2>3
<1>9. RequestsAreThose'
  <2>1. ASSUME NEW d \in DOMAIN sending \ {c}
        PROVE  /\ sending'[d] < RequestsPerAttempt(d)
               /\ requests'[d] <= (attempt'.n - 1) * RequestsPerAttempt(d) + sending'[d]
    <3>1. d \in All /\ attempt' = attempt
      BY <1>1, <1>3 DEF NotesInv, NotesTyped, TryAgain
    <3>2. /\ sending[d] < RequestsPerAttempt(d)
          /\ requests[d] <= (attempt.n - 1) * RequestsPerAttempt(d) + sending[d]
      BY DEF NotesInv, RequestsAreThose
    <3> QED
      BY <1>1, <1>3, <3>1, <3>2
  <2>2. \A d \in All \ DOMAIN sending' : channel_status'[d] = "untried" => requests'[d] = 0
    BY <1>1, <1>2, <1>3 DEF NotesInv, RequestsAreThose
  <2>3. \A d : RequestsPerAttempt(d)' = RequestsPerAttempt(d)
    BY DEF RequestsPerAttempt
  <2> QED
    BY <1>1, <1>3, <1>8, <2>1, <2>2, <2>3 DEF RequestsAreThose
<1> QED
  BY <1>5, <1>6, <1>7, <1>9 DEF NotesInv

\* A target that fails for good makes the first channel left its fallback.
LEMMA FallbackKeeps ==
    ASSUME NotesInv, NEW c \in DOMAIN sending, NEW d \in Fallbacks(c), note.kind = "send",
           ~attempt.fallback, requests' = [requests EXCEPT ![c] = @ + 1],
           channel_status' = [channel_status EXCEPT ![c] = "failed"],
           sending' = Only(d), attempt' = [First EXCEPT !.fallback = TRUE],
           UNCHANGED <<note, left>>
    PROVE  NotesInv'
<1>1. /\ c \in All /\ requests' \in [All -> Nat] /\ channel_status[c] = "untried"
      /\ c \notin left /\ ~note.over /\ DOMAIN sending = {c}
      /\ OnePassPerChannel' /\ \A e \in All \ {c} : requests'[e] = requests[e]
  BY OneMoreRequest
<1>2. /\ channel_status' \in [All -> {"untried", "delivered", "failed"}]
      /\ channel_status'[c] = "failed"
      /\ \A e \in All \ {c} : channel_status'[e] = channel_status[e]
  BY <1>1 DEF NotesInv, NotesTyped
<1>3. d \in All /\ d # c /\ d \notin note.targets /\ channel_status[d] = "untried"
  BY DEF Fallbacks
<1>4. DOMAIN sending' = {d} /\ sending'[d] = 0 /\ sending' \in [DOMAIN sending' -> Nat]
  BY DEF Only
<1>5. /\ attempt' \in [n : 1..MaxRetries, fallback : BOOLEAN]
      /\ attempt'.fallback = TRUE /\ attempt'.n = 1
  <2>1. attempt' = [n |-> 1, fallback |-> TRUE]
    BY DEF First
  <2>2. 1 \in 1..MaxRetries
    BY NotificationAssumption
  <2>3. [n |-> 1, fallback |-> TRUE] \in [n : 1..MaxRetries, fallback : BOOLEAN]
    <3>1. TRUE \in BOOLEAN
      OBVIOUS
    <3> QED
      BY <2>2, <3>1, Zenon
  <2>4. attempt'.fallback = TRUE
    BY <2>1, Zenon
  <2>5. attempt'.n = 1
    BY <2>1
  <2> QED
    BY <2>1, <2>3, <2>4, <2>5, Zenon
<1>6. /\ left \in SUBSET note.targets /\ note.targets \in SUBSET All
      /\ \A e \in left : channel_status[e] = "untried"
      /\ \A e \in All \ {c} : channel_status[e] = "untried" => requests[e] = 0
  BY <1>1 DEF NotesInv, NotesTyped, InTurn, RequestsAreThose
<1>7. NotesTyped'
  BY <1>1, <1>2, <1>3, <1>4, <1>5 DEF NotesInv, NotesTyped
<1>8. InTurn'
  <2>1. \A e \in left' \cup DOMAIN sending' : channel_status'[e] = "untried"
    BY <1>1, <1>2, <1>3, <1>4, <1>6
  <2>2. left' \cap DOMAIN sending' = {}
    BY <1>3, <1>4, <1>6
  <2> QED
    BY <1>1, <1>3, <1>4, <2>1, <2>2 DEF InTurn
<1>9. RequestsAreThose'
  <2>1. requests'[d] = 0
    BY <1>1, <1>3, <1>6
  <2>2. RequestsPerAttempt(d) \in Nat \ {0} /\ RequestsPerAttempt(d)' = RequestsPerAttempt(d)
    BY NotificationAssumption DEF RequestsPerAttempt
  <2>3. requests'[d] <= (attempt'.n - 1) * RequestsPerAttempt(d) + sending'[d]
    BY <1>4, <1>5, <2>1, <2>2
  <2>4. sending'[d] < RequestsPerAttempt(d)'
    BY <1>4, <2>2
  <2>5. \A e \in All \ DOMAIN sending' : channel_status'[e] = "untried" => requests'[e] = 0
    BY <1>1, <1>2, <1>4, <1>6
  <2> QED
    BY <1>1, <1>4, <2>2, <2>3, <2>4, <2>5 DEF RequestsAreThose
<1>10. FallbacksKeepUp'
  <2> SUFFICES ASSUME NoneDelivered'
               PROVE  /\ \A e \in note'.targets : channel_status'[e] = "untried"
                                                  => e \in left' \cup DOMAIN sending'
                      /\ DOMAIN sending' \cap note'.targets = {} /\ ~note'.over
                      /\ TargetsFailed' <= OutsideFailed' + 1
    BY <1>5 DEF FallbacksKeepUp
  <2>1. NoneDelivered
    BY <1>1, <1>2 DEF NoneDelivered
  <2>2. /\ \A e \in note.targets : channel_status[e] = "untried" => e \in left \cup {c}
        /\ c \in note.targets
        /\ All \ note.targets \subseteq FailedChannels \/ TargetsFailed <= OutsideFailed
    BY <1>1, <2>1 DEF NotesInv, FallbacksKeepUp
  <2>3. d \notin FailedChannels
    BY <1>3 DEF FailedChannels
  <2>4. TargetsFailed <= OutsideFailed
    BY <1>3, <2>2, <2>3
  <2>5. /\ TargetsFailed \in Nat /\ OutsideFailed \in Nat
        /\ TargetsFailed' = TargetsFailed + 1 /\ OutsideFailed' = OutsideFailed
    BY <1>1, <2>2, FailedGrows DEF NotesInv
  <2>6. \A e \in note.targets : channel_status'[e] = "untried" => e \in left
    BY <1>2, <1>6, <2>2
  <2> QED
    BY <1>1, <1>3, <1>4, <2>4, <2>5, <2>6
<1> QED
  BY <1>7, <1>8, <1>9, <1>10 DEF NotesInv

\* A new notification has no result and no request yet.
LEMMA BeginKeeps ==
    ASSUME NotesInv, NEW kind \in {"send", "trade", "kill"}, NEW p \in Priorities,
           NEW list \in {<<>>, Channels} \cup Configured, NEW T \in SUBSET All,
           Begin(kind, p, list, T),
           \/ kind # "kill" /\ T = {} /\ left' = {} /\ sending' = Nobody
           \/ \E d \in T : kind # "kill" /\ left' = T \ {d} /\ sending' = Only(d)
           \/ kind = "kill" /\ T = All /\ left' = {} /\ sending' = [d \in All |-> 0]
    PROVE  NotesInv'
<1>1. /\ note' = [kind |-> kind, over |-> T = {}, priority |-> p, order |-> list, targets |-> T]
      /\ requests' = [c \in All |-> 0] /\ attempt' = First
      /\ channel_status' = [c \in All |-> "untried"]
  BY DEF Begin
<1>2. attempt' \in [n : 1..MaxRetries, fallback : BOOLEAN] /\ attempt'.n = 1 /\ ~attempt'.fallback
  BY <1>1, NotificationAssumption DEF First
<1>3. /\ DOMAIN sending' \subseteq T /\ left' \subseteq T /\ left' \cap DOMAIN sending' = {}
      /\ T \subseteq left' \cup DOMAIN sending'
      /\ sending' \in [DOMAIN sending' -> Nat] /\ \A d \in DOMAIN sending' : sending'[d] = 0
      /\ T = {} => DOMAIN sending' = {} /\ left' = {}
      /\ kind # "kill" /\ T # {} => \E d \in All : DOMAIN sending' = {d}
      /\ kind = "kill" => left' = {}
  <2>1. CASE T = {} /\ left' = {} /\ sending' = Nobody
    BY <2>1 DEF Nobody
  <2>2. ASSUME NEW d \in T, kind # "kill", left' = T \ {d}, sending' = Only(d)
        PROVE  <1>3!:
    BY <2>2 DEF Only
  <2>3. CASE kind = "kill" /\ T = All /\ left' = {} /\ sending' = [d \in All |-> 0]
    BY <2>3
  <2> QED
    BY <2>1, <2>2, <2>3
<1>4. NotesTyped'
  <2>1. note' \in [kind : {"none", "send", "trade", "kill"}, over : BOOLEAN,
                    priority : Priorities, order : {<<>>, Channels} \cup Configured,
                    targets : SUBSET All]
    <3>1. (T = {}) \in BOOLEAN
      OBVIOUS
    <3> QED
      BY <1>1, <3>1
  <2> QED
    BY <1>1, <1>2, <1>3, <2>1 DEF NotesTyped
<1>5. note'.kind = kind /\ note'.targets = T /\ (note'.over <=> T = {})
  BY <1>1
<1>6. InTurn'
  BY <1>1, <1>3, <1>5 DEF InTurn
<1>7. \A c : RequestsPerAttempt(c) \in Nat \ {0} /\ RequestsPerAttempt(c)' = RequestsPerAttempt(c)
  BY NotificationAssumption DEF RequestsPerAttempt
<1>8. \A c \in All : requests'[c] = 0
  BY <1>1
<1>9. OnePassPerChannel'
  <2>1. \A c : MaxRetries * RequestsPerAttempt(c) \in Nat
    BY <1>7, NotificationAssumption
  <2> QED
    BY <1>7, <1>8, <2>1 DEF OnePassPerChannel
<1>10. RequestsAreThose'
  <2>1. ASSUME NEW c \in DOMAIN sending'
        PROVE  /\ sending'[c] < RequestsPerAttempt(c)'
               /\ requests'[c] <= (attempt'.n - 1) * RequestsPerAttempt(c)' + sending'[c]
    <3>1. requests'[c] = 0 /\ sending'[c] = 0
      BY <1>3, <1>8
    <3> QED
      BY <1>2, <1>7, <3>1
  <2> QED
    BY <1>8, <1>9, <2>1 DEF RequestsAreThose
<1>11. FallbacksKeepUp'
  <2>1. FailedChannels' = {}
    BY <1>1 DEF FailedChannels
  <2>2. TargetsFailed' = 0 /\ OutsideFailed' = 0
    BY <2>1, FS_EmptySet DEF TargetsFailed, OutsideFailed
  <2> QED
    BY <1>2, <1>3, <1>5, <2>2 DEF FallbacksKeepUp
<1> QED
  BY <1>4, <1>6, <1>10, <1>11 DEF NotesInv

\* One request, whatever its answer.
LEMMA RequestKeeps ==
    ASSUME NotesInv, NEW c \in DOMAIN sending, requests' = [requests EXCEPT ![c] = @ + 1],
           \/ Delivered(c)
           \/ NotDelivered(c)
           \/ /\ c \in Webhooks /\ sending[c] + 1 < WebhookRetries
              /\ sending' = [sending EXCEPT ![c] = @ + 1]
              /\ UNCHANGED <<note, left, attempt, channel_status>>
    PROVE  NotesInv'
<1>1. CASE Delivered(c)
  <2>1. CASE note.kind = "send" /\ Proceed(left)
    BY <1>1, <2>1, ProceedKeeps DEF Delivered
  <2>2. CASE note.kind = "trade" /\ Proceed({})
    BY <1>1, <2>2, ProceedKeeps DEF Delivered
  <2>3. CASE note.kind = "kill" /\ Answered(c)
    BY <1>1, <2>3, AnsweredKeeps DEF Delivered
  <2> QED
    BY <1>1, <2>1, <2>2, <2>3 DEF Delivered
<1>2. CASE TryAgain(c)
  BY <1>2, AgainKeeps
<1>3. CASE ChannelFails(c)
  <2>1. CASE attempt.fallback \/ Fallbacks(c) = {}
    BY <1>3, <2>1, ProceedKeeps DEF ChannelFails
  <2>2. CASE ~attempt.fallback /\ Fallbacks(c) # {}
    <3>1. PICK d \in Fallbacks(c) : sending' = Only(d)
      BY <1>3, <2>2 DEF ChannelFails, FirstOf
    <3> QED
      BY <1>3, <2>2, <3>1, FallbackKeeps DEF ChannelFails
  <2> QED
    BY <2>1, <2>2
<1>4. CASE /\ note.kind = "trade"
           /\ channel_status' = [channel_status EXCEPT ![c] = "failed"]
           /\ Proceed(IF elapsed' >= TradeDeadline THEN {} ELSE left)
  BY <1>4, ProceedKeeps
<1>5. CASE /\ note.kind = "kill"
           /\ channel_status' = [channel_status EXCEPT ![c] = "failed"] /\ Answered(c)
  BY <1>5, AnsweredKeeps
<1>6. CASE /\ c \in Webhooks /\ sending[c] + 1 < WebhookRetries
           /\ sending' = [sending EXCEPT ![c] = @ + 1]
           /\ UNCHANGED <<note, left, attempt, channel_status>>
  BY <1>6, AgainKeeps
<1> QED
  BY <1>1, <1>2, <1>3, <1>4, <1>5, <1>6 DEF NotDelivered

LEMMA TargetsAreChannels ==
    ASSUME NEW configured \in Configured \cup {<<>>}, NEW priority \in Priorities
    PROVE  /\ Targets(configured, priority) \in SUBSET All
           /\ Order(configured, priority) \in {<<>>, Channels} \cup Configured
<1>1. \A s, cs : FirstOf(s, cs) \subseteq cs
  BY DEF FirstOf
<1>2. \A i \in DOMAIN Channels : Channels[i] \in All
  BY NotificationAssumption DEF All, ToSet
<1>3. CASE priority = "CRITICAL"
  BY <1>3 DEF Targets, Order
<1>4. CASE priority = "HIGH"
  BY <1>2, <1>4 DEF Targets, Order
<1>5. CASE priority = "NORMAL"
  <2>1. FirstOf(configured, ToSet(configured) \cap All) \subseteq All
    BY <1>1
  <2> QED
    BY <1>2, <1>5, <2>1 DEF Targets, Order
<1> QED
  BY <1>3, <1>4, <1>5 DEF Priorities

LEMMA TurnKeeps ==
    ASSUME NotesInv, NEW kind \in {"send", "trade"}, NEW p \in Priorities,
           NEW list \in {<<>>, Channels} \cup Configured, NEW T \in SUBSET All,
           BeginInTurn(kind, p, list, T)
    PROVE  NotesInv'
<1>1. kind # "kill" /\ Begin(kind, p, list, T)
  BY DEF BeginInTurn
<1>2. \/ T = {} /\ left' = {} /\ sending' = Nobody
      \/ \E d \in T : left' = T \ {d} /\ sending' = Only(d)
  BY DEF BeginInTurn, FirstOf
<1> QED
  BY <1>1, <1>2, BeginKeeps

LEMMA NotesInit == NoteInit => NotesInv
<1> SUFFICES ASSUME NoteInit PROVE NotesInv
  OBVIOUS
<1> USE DEF NoteInit
<1>1. MaxRetries \in Nat \ {0} /\ 1 \in 1..MaxRetries
  BY NotificationAssumption
<1>2. \A c : RequestsPerAttempt(c) \in Nat \ {0}
  BY NotificationAssumption DEF RequestsPerAttempt
<1>3. DOMAIN sending = {} /\ sending \in [DOMAIN sending -> Nat]
  BY DEF Nobody
<1>4. NotesTyped
  <2>1. note \in [kind : {"none", "send", "trade", "kill"}, over : BOOLEAN,
                  priority : Priorities, order : {<<>>, Channels} \cup Configured,
                  targets : SUBSET All]
    BY DEF NoNote, Priorities
  <2> QED
    BY <1>1, <1>3, <2>1 DEF NotesTyped, First
<1>5. InTurn
  BY <1>3 DEF InTurn, NoNote
<1>6. RequestsAreThose
  <2>1. \A c : 0 <= MaxRetries * RequestsPerAttempt(c)
    BY <1>1, <1>2
  <2> QED
    BY <1>3, <2>1 DEF RequestsAreThose, OnePassPerChannel
<1>7. FallbacksKeepUp
  BY DEF FallbacksKeepUp, NoNote
<1> QED
  BY <1>4, <1>5, <1>6, <1>7 DEF NotesInv

LEMMA NotesStep == NotesInv /\ [NoteNext]_noteVars => NotesInv'
<1> SUFFICES ASSUME NotesInv, [NoteNext]_noteVars PROVE NotesInv'
  OBVIOUS
<1>1. ASSUME NEW configured \in Configured \cup {<<>>}, NEW priority \in Priorities,
             NEW old_style \in BOOLEAN, Send(configured, priority, old_style)
      PROVE  NotesInv'
  <2>1. CASE old_style
    <3>1. BeginInTurn("send", priority, Order(configured, "HIGH"), Targets(configured, "HIGH"))
      BY <1>1, <2>1 DEF Send
    <3>2. "HIGH" \in Priorities
      BY DEF Priorities
    <3> QED
      BY <3>1, <3>2, TargetsAreChannels, TurnKeeps
  <2>2. CASE ~old_style
    <3>1. BeginInTurn("send", priority, Order(configured, priority), Targets(configured, priority))
      BY <1>1, <2>2 DEF Send
    <3> QED
      BY <3>1, TargetsAreChannels, TurnKeeps
  <2> QED
    BY <2>1, <2>2
<1>2. ASSUME NEW configured \in Configured \cup {<<>>}, SendTrade(configured) PROVE NotesInv'
  <2>1. "HIGH" \in Priorities
    BY DEF Priorities
  <2>2. CASE BeginInTurn("trade", "HIGH", Channels, All)
    BY <2>1, <2>2, TurnKeeps
  <2>3. CASE BeginInTurn("trade", "HIGH", Order(configured, "HIGH"), Targets(configured, "HIGH"))
    BY <2>1, <2>3, TargetsAreChannels, TurnKeeps
  <2> QED
    BY <1>2, <2>2, <2>3 DEF SendTrade
<1>3. CASE SendKillSwitch
  <2>1. "CRITICAL" \in Priorities
    BY DEF Priorities
  <2> QED
    BY <1>3, <2>1, BeginKeeps DEF SendKillSwitch
<1>4. ASSUME NEW c \in DOMAIN sending, NEW arrives \in BOOLEAN,
             NEW answer \in {"ok", "retry", "refused"}, NEW takes \in 0..(TradeDeadline - 1),
             Request(c, answer, arrives, takes)
      PROVE  NotesInv'
  <2>1. requests' = [requests EXCEPT ![c] = @ + 1]
    BY <1>4 DEF Request
  <2>2. CASE Delivered(c) \/ NotDelivered(c)
    BY <2>1, <2>2, RequestKeeps
  <2>3. CASE /\ c \in Webhooks /\ sending[c] + 1 < WebhookRetries
             /\ sending' = [sending EXCEPT ![c] = @ + 1]
             /\ UNCHANGED <<note, left, attempt, channel_status>>
    BY <2>1, <2>3, RequestKeeps
  <2> QED
    BY <1>4, <2>2, <2>3 DEF Request
<1>5. ASSUME NEW c \in DOMAIN sending, NEW arrives \in BOOLEAN, TradeTimesOut(c, arrives)
      PROVE  NotesInv'
  BY <1>5, RequestKeeps DEF TradeTimesOut
<1>6. CASE KillSwitchTimesOut
  <2>1. /\ note.kind = "kill" /\ ~note.over /\ note' = [note EXCEPT !.over = TRUE]
        /\ channel_status' = [c \in All |-> "failed"] /\ sending' = Nobody
        /\ left' = left /\ attempt' = attempt /\ requests' = requests
    BY <1>6 DEF KillSwitchTimesOut
  <2>2. DOMAIN sending' = {} /\ sending' \in [DOMAIN sending' -> Nat]
    BY <2>1 DEF Nobody
  <2>3. NotesTyped' /\ note'.kind = "kill"
    BY <2>1, <2>2 DEF NotesInv, NotesTyped
  <2>4. left' = {} /\ attempt' = First
    BY <2>1 DEF NotesInv, InTurn
  <2>5. InTurn'
    BY <2>2, <2>3, <2>4 DEF InTurn, First
  <2>6. RequestsAreThose'
    BY <2>1, <2>2 DEF NotesInv, RequestsAreThose, OnePassPerChannel, RequestsPerAttempt
  <2>7. FallbacksKeepUp'
    BY <2>3 DEF FallbacksKeepUp
  <2> QED
    BY <2>3, <2>5, <2>6, <2>7 DEF NotesInv
<1>7. CASE UNCHANGED noteVars
  <2>1. /\ note' = note /\ left' = left /\ sending' = sending /\ attempt' = attempt
        /\ channel_status' = channel_status /\ requests' = requests
    BY <1>7 DEF noteVars
  <2>2. NotesTyped' /\ InTurn'
    BY <2>1 DEF NotesInv, NotesTyped, InTurn
  <2>3. RequestsAreThose'
    BY <2>1 DEF NotesInv, RequestsAreThose, OnePassPerChannel, RequestsPerAttempt
  <2>4. FailedChannels' = FailedChannels
    BY <2>1 DEF FailedChannels
  <2>5. FallbacksKeepUp'
    BY <2>1, <2>4 DEF NotesInv, FallbacksKeepUp, NoneDelivered, TargetsFailed, OutsideFailed
  <2> QED
    BY <2>2, <2>3, <2>5 DEF NotesInv
<1> QED
  BY <1>1, <1>2, <1>3, <1>4, <1>5, <1>6, <1>7 DEF NoteNext

\* Each target that failed has its own failed fallback, so that twice as many channels failed.
LEMMA GivenUpLate == NotesInv => TriesAreExact
<1> SUFFICES ASSUME NotesInv PROVE TriesAreExact
  OBVIOUS
<1>1. OnePassPerChannel
  BY DEF NotesInv, RequestsAreThose
<1>2. ASSUME note.kind = "send", note.over, NoneDelivered, FailedChannels # {},
             FailedChannels # All
      PROVE  Cardinality(FailedChannels) >= 2 * Cardinality(note.targets)
  <2> DEFINE T == note.targets
             outside == FailedChannels \ T
  <2>1. left \cup DOMAIN sending = {}
    BY <1>2 DEF NotesInv, InTurn
  <2>2. T \subseteq FailedChannels
    <3>1. T \subseteq All /\ \A c \in T : channel_status[c] = "failed"
      BY <1>2, <2>1 DEF NotesInv, FallbacksKeepUp, NotesTyped, NoneDelivered
    <3> QED
      BY <3>1 DEF FailedChannels
  <2>3. ~(All \ T \subseteq FailedChannels)
    BY <1>2, <2>2 DEF FailedChannels
  <2>4. TargetsFailed <= OutsideFailed
    BY <1>2, <2>3 DEF NotesInv, FallbacksKeepUp
  <2>5. TargetsFailed = Cardinality(T) /\ OutsideFailed = Cardinality(outside)
    <3>1. FailedChannels \cap T = T
      BY <2>2
    <3> QED
      BY <3>1 DEF TargetsFailed, OutsideFailed
  <2>6. IsFiniteSet(T) /\ IsFiniteSet(outside)
    <3>1. T \in SUBSET All /\ outside \in SUBSET All
      BY <2>2 DEF FailedChannels
    <3> QED
      BY <3>1, ChannelsAreFinite, FS_Subset
  <2>7. T \cup outside = FailedChannels /\ T \cap outside = {}
    BY <2>2
  <2> HIDE DEF T, outside
  <2>8. /\ Cardinality(FailedChannels)
              = Cardinality(T) + Cardinality(outside) - Cardinality(T \cap outside)
        /\ Cardinality(T \cap outside) = 0
        /\ Cardinality(T) \in Nat /\ Cardinality(outside) \in Nat
    BY <2>6, <2>7, FS_Union, FS_EmptySet, FS_CardinalityType
  <2>9. Cardinality(FailedChannels) >= 2 * Cardinality(T)
    BY <2>4, <2>5, <2>8
  <2> QED
    BY <2>9 DEF T
<1> QED
  BY <1>1, <1>2 DEF TriesAreExact, GivesUpLate, NoneDelivered, FailedChannels

\* A notification that send() gives up was tried on every target and on as many other channels, or
\* on all there are, and no channel more often than the retries allow: whatever the channels, their
\* configuration, the retries and the answers.
THEOREM TriesAreAlwaysExact == NoteSpec => []TriesAreExact
<1>1. NoteInit => NotesInv
  BY NotesInit
<1>2. NotesInv /\ [NoteNext]_noteVars => NotesInv'
  BY NotesStep
<1>3. NotesInv => TriesAreExact
  BY GivenUpLate
<1> QED
  BY <1>1, <1>2, <1>3, PTL DEF NoteSpec

-----------------------------------------------------------------------------
(* The choice of the copied traders *)

\* A set of numbers has a least one.
LEMMA LeastNumber ==
    ASSUME NEW T \in SUBSET Nat, T # {}
    PROVE  \E n \in T : \A m \in T : n <= m
<1> DEFINE R == OpToRel(<, Nat)
<1>1. \E n \in T : \A m \in T : <<m, n>> \notin R
  <2>1. IsWellFoundedOn(R, Nat)
    BY NatLessThanWellFounded
  <2> HIDE DEF R
  <2> QED
    BY <2>1, WFMin, Zenon
<1>2. \A m, n \in Nat : <<m, n>> \notin R => n <= m
  BY DEF OpToRel
<1> HIDE DEF R
<1> QED
  BY <1>1, <1>2

\* A candidate is a trader with a score and a place; no two have the same place.
Candidates == [trader : Listed, score : Int, at : Nat \X Nat]

LEMMA BetterIsAnOrder ==
    ASSUME NEW a \in Candidates, NEW b \in Candidates, NEW c \in Candidates
    PROVE  /\ ~Better(a, a)
           /\ Better(a, b) /\ Better(b, c) => Better(a, c)
           /\ a.at # b.at => Better(a, b) \/ Better(b, a)
<1>1. /\ a.score \in Int /\ b.score \in Int /\ c.score \in Int
      /\ a.at[1] \in Nat /\ a.at[2] \in Nat /\ b.at[1] \in Nat /\ b.at[2] \in Nat
      /\ c.at[1] \in Nat /\ c.at[2] \in Nat
  BY DEF Candidates
<1>2. a.at # b.at => a.at[1] # b.at[1] \/ a.at[2] # b.at[2]
  BY DEF Candidates
<1> QED
  BY <1>1, <1>2 DEF Better, Before

\* How many of a set come before one of it says where it stands: an order of them exists.
LEMMA AnOrderExists ==
    ASSUME NEW S \in SUBSET Candidates, IsFiniteSet(S),
           \A a, b \in S : a.at = b.at => a = b
    PROVE  \E ranked \in [1..Cardinality(S) -> S] :
             \A i, j \in 1..Cardinality(S) : i < j => Better(ranked[i], ranked[j])
<1> DEFINE Above(a) == {b \in S : Better(b, a)}
           n == Cardinality(S)
           rank == [a \in S |-> Cardinality(Above(a)) + 1]
<1>1. n \in Nat
  BY FS_CardinalityType
<1>2. ASSUME NEW a \in S
      PROVE  /\ IsFiniteSet(Above(a)) /\ Cardinality(Above(a)) \in Nat
             /\ Cardinality(Above(a)) < n
  <2>1. a \notin Above(a)
    BY BetterIsAnOrder
  <2>2. IsFiniteSet(Above(a)) /\ Cardinality(Above(a)) <= n
        /\ (Cardinality(Above(a)) = n => Above(a) = S)
    BY FS_Subset
  <2> QED
    BY <1>1, <2>1, <2>2, FS_CardinalityType
<1>3. ASSUME NEW a \in S, NEW b \in S, Better(a, b)
      PROVE  Cardinality(Above(a)) < Cardinality(Above(b))
  <2>1. Above(a) \subseteq Above(b)
    BY <1>3, BetterIsAnOrder
  <2>2. a \in Above(b) /\ a \notin Above(a)
    BY <1>3, BetterIsAnOrder
  <2>3. Cardinality(Above(a)) <= Cardinality(Above(b))
        /\ (Cardinality(Above(a)) = Cardinality(Above(b)) => Above(a) = Above(b))
    BY <1>2, <2>1, FS_Subset
  <2> HIDE DEF Above
  <2> QED
    BY <1>2, <2>2, <2>3
<1>4. \A a, b \in S : a # b => Better(a, b) \/ Better(b, a)
  BY BetterIsAnOrder
<1>5. rank \in [S -> 1..n] /\ \A a \in S : rank[a] \in Int /\ rank[a] = Cardinality(Above(a)) + 1
  <2> HIDE DEF Above
  <2> QED
    BY <1>1, <1>2
<1>6. \A a, b \in S : Better(a, b) => rank[a] < rank[b]
  <2> HIDE DEF Above
  <2> QED
    BY <1>2, <1>3, <1>5
<1> HIDE DEF rank, n, Above
<1>7. rank \in Injection(S, 1..n)
  <2>1. \A a, b \in S : rank[a] = rank[b] => a = b
    BY <1>4, <1>5, <1>6
  <2> QED
    BY <1>5, <2>1 DEF Injection, IsInjective
<1>8. IsFiniteSet(1..n) /\ Cardinality(1..n) = Cardinality(S)
  BY <1>1, FS_Interval DEF n
<1>9. \A i \in 1..n : \E a \in S : rank[a] = i
  <2>1. rank \in Surjection(S, 1..n)
    BY <1>7, <1>8, FS_Injection, Zenon
  <2> QED
    BY <2>1, Zenon DEF Surjection
<1> DEFINE ranked == [i \in 1..n |-> CHOOSE a \in S : rank[a] = i]
<1>10. \A i \in 1..n : ranked[i] \in S /\ rank[ranked[i]] = i
  BY <1>9
<1>11. ranked \in [1..n -> S]
  BY <1>10
<1>12. ASSUME NEW i \in 1..n, NEW j \in 1..n, i < j
       PROVE  Better(ranked[i], ranked[j])
  <2> DEFINE a == ranked[i]
             b == ranked[j]
  <2>1. a \in S /\ b \in S /\ rank[a] = i /\ rank[b] = j
    BY <1>10
  <2> HIDE DEF a, b
  <2>2. a # b /\ ~Better(b, a)
    BY <1>1, <1>6, <1>12, <2>1
  <2>3. Better(a, b)
    BY <1>4, <2>1, <2>2
  <2> QED
    BY <2>3 DEF a, b
<1> HIDE DEF ranked
<1> QED
  BY <1>11, <1>12 DEF n

\* What the ranking promises of a sequence: records, no score above an earlier one.
Ranked(seq) ==
    /\ seq \in Seq(Candidates)
    /\ \A i, j \in 1..Len(seq) : i < j => seq[i].score >= seq[j].score

LEMMA BestFirstIsRanked ==
    ASSUME NEW S \in SUBSET Candidates, IsFiniteSet(S),
           \A a, b \in S : a.at = b.at => a = b
    PROVE  Ranked(BestFirst(S))
<1> DEFINE n == Cardinality(S)
           b == BestFirst(S)
<1>1. n \in Nat
  BY FS_CardinalityType
<1>2. b \in [1..n -> S] /\ \A i, j \in DOMAIN b : i < j => Better(b[i], b[j])
  <2>1. \E ranked \in [1..n -> S] :
          \A i, j \in DOMAIN ranked : i < j => Better(ranked[i], ranked[j])
    BY AnOrderExists
  <2> QED
    BY <2>1 DEF BestFirst
<1> HIDE DEF b, n
<1>3. b \in Seq(Candidates) /\ Len(b) = n /\ DOMAIN b = 1..n
  BY <1>1, <1>2
<1>4. ASSUME NEW i \in 1..n, NEW j \in 1..n, i < j
      PROVE  b[i].score >= b[j].score
  <2>1. Better(b[i], b[j]) /\ b[i] \in Candidates /\ b[j] \in Candidates
    BY <1>2, <1>3, <1>4
  <2>2. b[i].score \in Int /\ b[j].score \in Int
    BY <2>1 DEF Candidates
  <2> QED
    BY <2>1, <2>2 DEF Better
<1>5. Ranked(b)
  BY <1>3, <1>4 DEF Ranked
<1> QED
  BY <1>5 DEF b

\* Of the places at which a trader is listed there is a first.
LEMMA FirstPlaceIsOne ==
    ASSUME NEW asked \in SUBSET DOMAIN Listing, NEW t,
           t \in UNION {ToSet(Listing[s]) : s \in asked}
    PROVE  FirstPlace(t, asked) \in ListedAt(t, asked)
<1> DEFINE P == ListedAt(t, asked)
<1>1. DOMAIN Listing \subseteq Nat
      /\ \A s \in DOMAIN Listing : DOMAIN Listing[s] \subseteq Nat
  BY SelectionAssumption
<1>2. \A p \in P : /\ p = <<p[1], p[2]>> /\ p[1] \in asked /\ p[1] \in Nat
                   /\ p[2] \in DOMAIN Listing[p[1]] /\ p[2] \in Nat
  BY <1>1 DEF ListedAt
<1>3. P # {}
  <2>1. PICK s \in asked : t \in ToSet(Listing[s])
    OBVIOUS
  <2>2. PICK i \in DOMAIN Listing[s] : Listing[s][i] = t
    BY <2>1 DEF ToSet
  <2>3. <<s, i>> \in {s} \X DOMAIN Listing[s]
    OBVIOUS
  <2>4. <<s, i>> \in P
    BY <2>2, <2>3 DEF ListedAt
  <2> QED
    BY <2>4
<1> HIDE DEF P
<1> DEFINE F == {p[1] : p \in P}
<1>4. PICK s \in F : \A m \in F : s <= m
  <2>1. F \in SUBSET Nat /\ F # {}
    BY <1>2, <1>3
  <2> HIDE DEF F
  <2> QED
    BY <2>1, LeastNumber
<1> DEFINE I == {p[2] : p \in {q \in P : q[1] = s}}
<1>5. I \in SUBSET Nat /\ I # {}
  BY <1>2, <1>4
<1>6. PICK i \in I : \A m \in I : i <= m
  <2> HIDE DEF I
  <2> QED
    BY <1>5, LeastNumber
<1>7. PICK p \in P : p[1] = s /\ p[2] = i
  BY <1>6
<1>8. \A q \in P : p = q \/ Before(p, q)
  <2> TAKE q \in P
  <2>1. s <= q[1] /\ (q[1] = s => i <= q[2])
    BY <1>4, <1>6
  <2>2. s \in Nat /\ i \in Nat /\ q[1] \in Nat /\ q[2] \in Nat
    BY <1>2, <1>7
  <2>3. q[1] = s /\ q[2] = i => p = q
    BY <1>2, <1>7
  <2> QED
    BY <1>7, <2>1, <2>2, <2>3 DEF Before
<1> QED
  BY <1>8 DEF FirstPlace, P

LEMMA ScoreIsANumber ==
    ASSUME NEW st \in Stats
    PROVE  RiskScore(st) \in Int
<1> DEFINE w == st.win_rate
           d == st.max_drawdown
           s == st.sharpe
           c == st.consistency
<1>1. w \in Int /\ d \in Int /\ s \in Int /\ c \in Int
  BY SelectionAssumption
<1>2. RiskScore(st) = Within(AtMost(w, 100) + (100 - AtMost(d, 100))
                             + 2 * Within(s, 50) + Within(c, 100), 400)
  BY DEF RiskScore
<1> HIDE DEF w, d, s, c
<1> QED
  BY <1>1, <1>2 DEF AtMost, Within

LEMMA CandidatesAreRanked ==
    ASSUME published \in [DOMAIN Listing -> [Listed -> Stats]],
           NEW failed \in SUBSET DOMAIN Listing, FetchAndRank(failed)
    PROVE  Ranked(ranking')
<1> DEFINE asked == DOMAIN Listing \ failed
           traders == UNION {ToSet(Listing[s]) : s \in asked}
           last(t) == CHOOSE s \in asked :
                        /\ t \in ToSet(Listing[s])
                        /\ \A s2 \in asked : t \in ToSet(Listing[s2]) => s2 <= s
           stats == [t \in traders |-> published[last(t)][t]]
           at == [t \in traders |-> FirstPlace(t, asked)]
           chosen == {t \in DOMAIN stats : IsEligible(stats[t])}
           Candidate(t) == [trader |-> t, score |-> RiskScore(stats[t]), at |-> at[t]]
           S == {Candidate(t) : t \in chosen}
<1>1. ranking' = BestFirst(S)
  BY DEF FetchAndRank, RankTraders
<1>2. DOMAIN Listing = 1..Len(Listing) /\ Len(Listing) \in Nat
      /\ \A s \in DOMAIN Listing : DOMAIN Listing[s] = 1..Len(Listing[s]) /\ Len(Listing[s]) \in Nat
  BY SelectionAssumption
<1>3. traders \subseteq Listed /\ IsFiniteSet(traders)
  <2>1. IsFiniteSet(asked)
    <3>1. IsFiniteSet(DOMAIN Listing)
      BY <1>2, FS_Interval
    <3> QED
      BY <3>1, FS_Subset
  <2>2. ASSUME NEW s \in asked
        PROVE  IsFiniteSet(ToSet(Listing[s]))
    <3>1. IsFiniteSet(DOMAIN Listing[s])
      BY <1>2, FS_Interval
    <3>2. Listing[s] \in Surjection(DOMAIN Listing[s], ToSet(Listing[s]))
      BY SelectionAssumption DEF Surjection, ToSet
    <3> QED
      BY <3>1, <3>2, FS_Surjection
  <2> DEFINE listings == {ToSet(Listing[s]) : s \in asked}
             listing == [s \in asked |-> ToSet(Listing[s])]
  <2>3. listing \in Surjection(asked, listings)
    BY DEF Surjection
  <2>4. IsFiniteSet(listings)
    BY <2>1, <2>3, FS_Surjection, Zenon
  <2>5. \A T \in listings : IsFiniteSet(T)
    BY <2>2
  <2>6. IsFiniteSet(UNION listings)
    BY <2>4, <2>5, FS_UNION, Zenon
  <2> QED
    BY <2>6 DEF Listed
<1> HIDE DEF traders
<1>4. ASSUME NEW t \in traders
      PROVE  stats[t] \in Stats /\ at[t] \in ListedAt(t, asked)
  <2>1. last(t) \in asked
    <3> DEFINE listings == {s \in asked : t \in ToSet(Listing[s])}
               back == {Len(Listing) - s : s \in listings}
    <3>1. back \in SUBSET Nat /\ back # {}
      BY <1>2 DEF traders
    <3>2. PICK m \in back : \A k \in back : m <= k
      <4> HIDE DEF back
      <4> QED
        BY <3>1, LeastNumber
    <3>3. PICK s \in listings : m = Len(Listing) - s
      BY <3>2
    <3>4. \A s2 \in listings : s2 <= s
      <4> SUFFICES ASSUME NEW s2 \in listings PROVE s2 <= s
        OBVIOUS
      <4>1. m <= Len(Listing) - s2
        BY <3>2
      <4>2. s \in Nat /\ s2 \in Nat /\ Len(Listing) \in Nat
        BY <1>2, <3>3
      <4> QED
        BY <3>3, <4>1, <4>2
    <3>5. \E s3 \in asked : /\ t \in ToSet(Listing[s3])
                           /\ \A s2 \in asked : t \in ToSet(Listing[s2]) => s2 <= s3
      BY <3>3, <3>4
    <3> QED
      BY <3>5
  <2>2. at[t] \in ListedAt(t, asked)
    BY FirstPlaceIsOne DEF traders
  <2> QED
    BY <1>3, <2>1, <2>2
<1> HIDE DEF last
<1>5. IsFiniteSet(S)
  <2>1. chosen \subseteq traders
    OBVIOUS
  <2>2. IsFiniteSet(chosen)
    BY <1>3, <2>1, FS_Subset
  <2> DEFINE candidate == [t \in chosen |-> Candidate(t)]
  <2>3. candidate \in Surjection(chosen, S)
    BY DEF Surjection
  <2> QED
    BY <2>2, <2>3, FS_Surjection, Zenon
<1>6. ASSUME NEW t \in chosen
      PROVE  /\ Candidate(t) \in Candidates
             /\ Candidate(t).at \in ListedAt(t, asked)
  <2>1. t \in traders /\ stats[t] \in Stats /\ at[t] \in ListedAt(t, asked)
    BY <1>4
  <2>2. at[t] \in Nat \X Nat
    <3>1. PICK s \in asked : at[t] \in {s} \X DOMAIN Listing[s]
      BY <2>1 DEF ListedAt
    <3>2. s \in Nat /\ DOMAIN Listing[s] \subseteq Nat
      BY <1>2
    <3> QED
      BY <3>1, <3>2
  <2>3. RiskScore(stats[t]) \in Int
    BY <2>1, ScoreIsANumber
  <2> HIDE DEF stats, at
  <2> QED
    BY <1>3, <2>1, <2>2, <2>3 DEF Candidates
<1> HIDE DEF chosen, stats, at
<1>7. \A a, b \in S : a.at = b.at => a = b
  <2> SUFFICES ASSUME NEW t \in chosen, NEW u \in chosen, Candidate(t).at = Candidate(u).at
               PROVE  t = u
    OBVIOUS
  <2> QED
    BY <1>6 DEF ListedAt
<1>8. S \in SUBSET Candidates
  BY <1>6
<1> HIDE DEF S
<1> QED
  BY <1>1, <1>5, <1>7, <1>8, BestFirstIsRanked

\* Of a sequence in order, those of at least the median score are the first ones, and half of it.
LEMMA TheUpperHalfIsAPrefix ==
    ASSUME NEW seq, Ranked(seq), seq # <<>>
    PROVE  \E k \in Len(seq) \div 2 + 1 .. Len(seq) : AboveMedian(seq) = SubSeq(seq, 1, k)
<1> DEFINE n == Len(seq)
           m == n \div 2 + 1
           kept == {i \in DOMAIN seq : seq[i].score >= MedianScore(seq)}
<1>1. /\ n \in Nat /\ n > 0 /\ m \in 1..n /\ DOMAIN seq = 1..n
      /\ \A i \in 1..n : seq[i].score \in Int
      /\ \A i, j \in 1..n : i < j => seq[i].score >= seq[j].score
  <2>1. seq \in Seq(Candidates)
    BY DEF Ranked
  <2>2. n \in Nat /\ n > 0 /\ DOMAIN seq = 1..n
    BY <2>1
  <2>3. m \in 1..n
    BY <2>2
  <2>4. \A i \in 1..n : seq[i] \in Candidates
    BY <2>1
  <2> QED
    BY <2>2, <2>3, <2>4 DEF Candidates, Ranked
<1>2. MedianScore(seq) = seq[m].score
  BY DEF MedianScore
<1> HIDE DEF n, m
<1>3. 1..m \subseteq kept
  BY <1>1, <1>2
<1>4. ASSUME NEW i \in kept, NEW j \in 1..n, j < i
      PROVE  j \in kept
  BY <1>1, <1>2, <1>4
<1>5. kept \subseteq 1..n
  BY <1>1
<1> HIDE DEF kept
<1>6. PICK k \in m..n : kept = 1..k
  <2>1. CASE kept = 1..n
    BY <1>1, <2>1
  <2>2. CASE kept # 1..n
    <3>1. PICK l \in (1..n) \ kept : \A i \in (1..n) \ kept : l <= i
      <4>1. (1..n) \ kept \in SUBSET Nat /\ (1..n) \ kept # {}
        <5>1. (1..n) \ kept # {}
          BY <1>5, <2>2
        <5>2. 1..n \in SUBSET Nat
          BY <1>1
        <5> QED
          BY <5>1, <5>2
      <4> QED
        BY <4>1, LeastNumber
    <3>2. kept = 1..(l - 1)
      <4>1. \A i \in 1..n : i < l => i \in kept
        BY <1>1, <3>1
      <4>2. \A i \in kept : i \in 1..n /\ i # l /\ ~(l < i)
        BY <1>4, <1>5, <3>1
      <4>3. n \in Int /\ l \in 1..n
        BY <1>1, <3>1
      <4>4. kept \subseteq 1..(l - 1)
        BY <4>2, <4>3
      <4>5. 1..(l - 1) \subseteq kept
        BY <4>1, <4>3
      <4> QED
        BY <4>4, <4>5
    <3>3. l - 1 \in m..n
      BY <1>1, <1>3, <3>1
    <3> QED
      BY <3>2, <3>3
  <2> QED
    BY <2>1, <2>2
<1>7. k \in Nat /\ Cardinality(1..k) = k
  BY <1>1, FS_Interval
<1>8. ASSUME NEW i \in 1..k
      PROVE  Cardinality({j \in 1..k : j < i}) = i - 1
  <2>1. {j \in 1..k : j < i} = 1..(i - 1)
    BY <1>7
  <2>2. Cardinality(1..(i - 1)) = i - 1
    BY <1>7, FS_Interval
  <2> QED
    BY <2>1, <2>2
<1>9. \A h \in 1..k : (CHOOSE i \in 1..k : Cardinality({j \in 1..k : j < i}) = h - 1) = h
  BY <1>7, <1>8
<1>10. AtPlaces(seq, 1..k) = [h \in 1..k |-> seq[h]]
  <2>1. AtPlaces(seq, 1..k) =
          [h \in 1..k |-> seq[CHOOSE i \in 1..k : Cardinality({j \in 1..k : j < i}) = h - 1]]
    BY <1>7 DEF AtPlaces
  <2> QED
    BY <1>9, <2>1, Zenon
<1>11. SubSeq(seq, 1, k) = [h \in 1..k |-> seq[h]]
  <2>1. seq \in Seq(Candidates)
    BY DEF Ranked
  <2>2. k <= Len(seq)
    BY <1>1, <1>6 DEF n
  <2> QED
    BY <1>7, <2>1, <2>2
<1>12. AboveMedian(seq) = AtPlaces(seq, 1..k)
  BY <1>6 DEF AboveMedian, kept
<1> QED
  BY <1>6, <1>10, <1>11, <1>12 DEF n, m

\* The re-evaluation keeps the best (weekly_reevaluate).
LEMMA KeepBestKeepsEnough ==
    ASSUME NEW seq, Ranked(seq)
    PROVE  /\ IsPrefix(KeepBest(seq), seq)
           /\ 2 * Len(KeepBest(seq)) >= Len(seq)
           /\ Len(KeepBest(seq)) >= AtMost(MinPoolSize, Len(seq))
<1> DEFINE n == Len(seq)
<1>1. seq \in Seq(Candidates) /\ n \in Nat /\ MinPoolSize \in Nat
  BY SelectionAssumption DEF Ranked
<1>2. ASSUME NEW k \in 0..n
      PROVE  Len(SubSeq(seq, 1, k)) = k /\ IsPrefix(SubSeq(seq, 1, k), seq)
  <2>1. SubSeq(seq, 1, k) \in Seq(Candidates) /\ Len(SubSeq(seq, 1, k)) = k
        /\ SubSeq(seq, 1, k) = [i \in 1..k |-> seq[i]]
    BY <1>1
  <2> DEFINE t == SubSeq(seq, 1, k)
  <2>2. SubSeq(t, 1, k) = [i \in 1..k |-> t[i]]
    BY <2>1
  <2>3. SubSeq(t, 1, k) = t
    BY <2>1, <2>2
  <2> QED
    BY <1>1, <2>1, <2>3 DEF IsPrefix
<1>3. \E k \in 0..n : /\ KeepBest(seq) = SubSeq(seq, 1, k)
                      /\ 2 * k >= n
                      /\ k >= AtMost(MinPoolSize, n)
  <2>1. CASE n <= MinPoolSize
    <3>1. KeepBest(seq) = seq
      BY <2>1 DEF KeepBest
    <3>2. seq = SubSeq(seq, 1, n)
      BY <1>1
    <3>3. n \in 0..n /\ 2 * n >= n /\ n >= AtMost(MinPoolSize, n)
      BY <1>1, <2>1 DEF AtMost
    <3>4. KeepBest(seq) = SubSeq(seq, 1, n)
      BY <3>1, <3>2
    <3> QED
      BY <3>3, <3>4
  <2>2. CASE ~(n <= MinPoolSize)
    <3>1. seq # <<>>
      BY <1>1, <2>2
    <3>2. PICK k \in n \div 2 + 1 .. n : AboveMedian(seq) = SubSeq(seq, 1, k)
      BY <3>1, TheUpperHalfIsAPrefix
    <3>3. k \in 0..n /\ 2 * k >= n
      BY <1>1, <3>2
    <3>4. Len(AboveMedian(seq)) = k
      BY <1>2, <3>2, <3>3
    <3>5. CASE k < MinPoolSize
      <4>1. KeepBest(seq) = SubSeq(seq, 1, MinPoolSize)
        BY <2>2, <3>4, <3>5 DEF KeepBest
      <4>2. MinPoolSize \in 0..n /\ 2 * MinPoolSize >= n
        BY <1>1, <2>2, <3>3, <3>5
      <4>3. MinPoolSize >= AtMost(MinPoolSize, n)
        BY <1>1, <2>2 DEF AtMost
      <4> QED
        BY <4>1, <4>2, <4>3
    <3>6. CASE ~(k < MinPoolSize)
      <4>1. KeepBest(seq) = SubSeq(seq, 1, k)
        BY <2>2, <3>2, <3>4, <3>6 DEF KeepBest
      <4>2. k >= AtMost(MinPoolSize, n)
        BY <1>1, <2>2, <3>3, <3>6 DEF AtMost
      <4> QED
        BY <3>3, <4>1, <4>2
    <3> QED
      BY <3>5, <3>6
  <2> QED
    BY <2>1, <2>2
<1> QED
  BY <1>2, <1>3

\* The traders last ranked stand in the order of their scores.
RankingInv ==
    /\ published \in [DOMAIN Listing -> [Listed -> Stats]]
    /\ Ranked(ranking)

\* Whatever the sources publish and whichever of them fail, the weekly re-evaluation removes
\* nobody who ranks above one it keeps, keeps half of the traders ranked and at least the minimum
\* when there are that many, also where scores are equal (rank_traders, weekly_reevaluate).
THEOREM PoolAlwaysKeepsTheBest == SelectionSpec => PoolKeepsTheBest
<1>1. SelectionInit => RankingInv
  <2> SUFFICES ASSUME SelectionInit PROVE RankingInv
    OBVIOUS
  <2>1. Ranked(<<>>)
    BY DEF Ranked
  <2> QED
    BY <2>1 DEF SelectionInit, RankingInv
<1>2. RankingInv /\ [SelectionNext]_selectionVars => RankingInv'
  <2> SUFFICES ASSUME RankingInv, [SelectionNext]_selectionVars PROVE RankingInv'
    OBVIOUS
  <2>1. ASSUME NEW failed \in SUBSET DOMAIN Listing, FetchAndRank(failed)
        PROVE  RankingInv'
    <3>1. Ranked(ranking')
      BY <2>1, CandidatesAreRanked DEF RankingInv
    <3>2. published' = published
      BY <2>1 DEF FetchAndRank
    <3> QED
      BY <3>1, <3>2 DEF RankingInv, Ranked
  <2>2. CASE UNCHANGED <<published, ranking>>
    BY <2>2 DEF RankingInv, Ranked
  <2>3. WeeklyReevaluate => UNCHANGED <<published, ranking>>
    BY DEF WeeklyReevaluate
  <2>4. AllocatePool => UNCHANGED <<published, ranking>>
    BY DEF AllocatePool
  <2> QED
    BY <2>1, <2>2, <2>3, <2>4 DEF SelectionNext, selectionVars
<1>3. RankingInv =>
        [WeeklyReevaluate =>
           /\ IsPrefix(pool', ranking)
           /\ 2 * Len(pool') >= Len(ranking)
           /\ Len(pool') >= AtMost(MinPoolSize, Len(ranking))]_selectionVars
  <2> SUFFICES ASSUME Ranked(ranking), WeeklyReevaluate
               PROVE  /\ IsPrefix(pool', ranking)
                      /\ 2 * Len(pool') >= Len(ranking)
                      /\ Len(pool') >= AtMost(MinPoolSize, Len(ranking))
    BY DEF RankingInv
  <2>1. pool' = KeepBest(ranking)
    BY DEF WeeklyReevaluate
  <2> QED
    BY <2>1, KeepBestKeepsEnough
<1> QED
  BY <1>1, <1>2, <1>3, PTL DEF SelectionSpec, PoolKeepsTheBest
=============================================================================
