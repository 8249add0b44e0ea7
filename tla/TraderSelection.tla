--------------------------- MODULE TraderSelection ---------------------------
(***************************************************************************)
(* Which traders are copied and with how much: TraderRanker                *)
(* (copy_trading/trader_ranker.py) and AllocationManager                   *)
(* (copy_trading/allocation_manager.py).                                   *)
(*                                                                         *)
(* Rates are percentages, the Sharpe ratio and the consistency are in      *)
(* tenths, a score counts quarters of a point and money is in cents; equal *)
(* scores keep the order of arrival, as in the stable sort of the code.    *)
(***************************************************************************)
EXTENDS Integers, Sequences, FiniteSets, FiniteSetsExt, SequencesExt, Functions

CONSTANTS Listing,           \* each data source in turn, as the sequence of the traders it lists
          Stats,             \* statistics a source may publish
          MinTrackDays, MinWinRate, MaxTraderDrawdown,  \* COPY_MIN_TRACK_RECORD_DAYS and so on
          MinPoolSize,       \* min_pool_size
          MaxCopied,         \* COPY_MAX_TRADERS
          MaxSharePct, MinSharePct,  \* COPY_MAX_ALLOCATION_PCT, COPY_MIN_ALLOCATION_PCT
          CopierEquity       \* equity of the copier

VARIABLES published,  \* what each data source says of the traders it lists
          ranking,    \* the answer of fetch_and_rank
          pool,       \* _current_pool
          shares      \* the answer of calculate_allocations

selectionVars == <<published, ranking, pool, shares>>

Listed == UNION {ToSet(Listing[s]) : s \in DOMAIN Listing}

ASSUME SelectionAssumption ==
  /\ Listing \in Seq(Seq(Listed))
  /\ Stats # {}
  /\ Stats \subseteq [win_rate : Int, max_drawdown : Int, sharpe : Int, consistency : Int, days : Int]
  /\ MinPoolSize \in Nat

-----------------------------------------------------------------------------
AtMost(x, bound) == IF x < bound THEN x ELSE bound

Within(x, bound) == IF x < 0 THEN 0 ELSE AtMost(x, bound)

\* calculate_risk_score: four metrics of equal weight, each brought to 0..100.
RiskScore(st) ==
  Within(AtMost(st.win_rate, 100) + (100 - AtMost(st.max_drawdown, 100))
         + 2 * Within(st.sharpe, 50) + Within(st.consistency, 100), 400)

IsEligible(st) ==
  /\ st.days >= MinTrackDays
  /\ st.win_rate > MinWinRate
  /\ st.max_drawdown < MaxTraderDrawdown

\* A place in the listings: the n-th trader that a source lists.
Before(p, q) == p[1] < q[1] \/ (p[1] = q[1] /\ p[2] < q[2])

Better(a, b) == a.score > b.score \/ (a.score = b.score /\ Before(a.at, b.at))

BestFirst(candidates) ==
  CHOOSE ranked \in [1..Cardinality(candidates) -> candidates] :
    \A i, j \in DOMAIN ranked : i < j => Better(ranked[i], ranked[j])

\* rank_traders: the eligible ones, best first.
RankTraders(stats, at) ==
  BestFirst({[trader |-> t, score |-> RiskScore(stats[t]), at |-> at[t]] :
               t \in {u \in DOMAIN stats : IsEligible(stats[u])}})

\* What a sequence holds at the places of a set, in its order.
AtPlaces(seq, places) ==
  [n \in 1..Cardinality(places) |->
     seq[CHOOSE i \in places : Cardinality({j \in places : j < i}) = n - 1]]

MedianScore(ranked) == ranked[Len(ranked) \div 2 + 1].score

\* Mutant: those of the median score are removed with those below it.
AboveMedianStrictly(ranked) ==
  AtPlaces(ranked, {i \in DOMAIN ranked : ranked[i].score > MedianScore(ranked)})

AboveMedian(ranked) ==
  AtPlaces(ranked, {i \in DOMAIN ranked : ranked[i].score >= MedianScore(ranked)})

\* weekly_reevaluate: the upper half, and at least MinPoolSize if there are so many.
KeepBest(ranked) ==
  IF Len(ranked) <= MinPoolSize THEN ranked
  ELSE LET above == AboveMedian(ranked)
       IN IF Len(above) < MinPoolSize THEN SubSeq(ranked, 1, MinPoolSize) ELSE above

\* Mutant: the share of the total, not capped.
UncappedAllocation(score, total) == (CopierEquity * score) \div total

\* calculate_allocation: the share of the total, within the two bounds, rounded down.
Allocation(score, total) ==
  LET proportional == (CopierEquity * score) \div total
      most == (CopierEquity * MaxSharePct) \div 100
      least == (CopierEquity * MinSharePct) \div 100
  IN IF score = 0 THEN 0 ELSE Max({AtMost(proportional, most), least})

\* calculate_allocations of the best MaxCopied of the pool.
Allocations(ranked) ==
  LET selected == SubSeq(ranked, 1, AtMost(MaxCopied, Len(ranked)))
      total == FoldFunction(LAMBDA r, sum : r.score + sum, 0, selected)
  IN IF total = 0 THEN {}
     ELSE {[trader |-> r.trader, amount |-> Allocation(r.score, total)] : r \in Range(selected)}

\* validate_allocation.
ValidAllocation(amount) ==
  /\ amount * 100 >= CopierEquity * MinSharePct
  /\ amount * 100 <= CopierEquity * MaxSharePct

-----------------------------------------------------------------------------
SelectionInit ==
  /\ published \in {p \in [DOMAIN Listing -> [Listed -> Stats]] :
       \A s \in DOMAIN Listing : \A t \in Listed \ ToSet(Listing[s]) :
         p[s][t] = CHOOSE st \in Stats : TRUE}
  /\ ranking = <<>> /\ pool = <<>> /\ shares = {}

\* The places at which the sources heard list a trader, and the first of them.
ListedAt(t, heard) ==
  {p \in UNION {{s} \X DOMAIN Listing[s] : s \in heard} : Listing[p[1]][p[2]] = t}

FirstPlace(t, heard) ==
  CHOOSE p \in ListedAt(t, heard) : \A q \in ListedAt(t, heard) : p = q \/ Before(p, q)

\* fetch_and_rank: a trader that two sources list keeps its first place, and the source asked
\* last is believed; a source that fails is skipped.
FetchAndRank(failed) ==
  LET heard == DOMAIN Listing \ failed
      traders == UNION {ToSet(Listing[s]) : s \in heard}
      last(t) == CHOOSE s \in heard :
                   /\ t \in ToSet(Listing[s])
                   /\ \A s2 \in heard : t \in ToSet(Listing[s2]) => s2 <= s
  IN /\ ranking' = RankTraders([t \in traders |-> published[last(t)][t]],
                               [t \in traders |-> FirstPlace(t, heard)])
     /\ UNCHANGED <<published, pool, shares>>

\* weekly_reevaluate, of the traders last ranked.
WeeklyReevaluate ==
  /\ pool' = KeepBest(ranking)
  /\ UNCHANGED <<published, ranking, shares>>

AllocatePool ==
  /\ shares' = Allocations(pool)
  /\ UNCHANGED <<published, ranking, pool>>

SelectionNext ==
  \/ \E failed \in SUBSET DOMAIN Listing : FetchAndRank(failed)
  \/ WeeklyReevaluate
  \/ AllocatePool

SelectionSpec == SelectionInit /\ [][SelectionNext]_selectionVars

-----------------------------------------------------------------------------
\* The weekly re-evaluation removes nobody who ranks above one it keeps, keeps at least half of
\* the traders ranked, and never leaves fewer than the minimum when there are that many
\* (weekly_reevaluate), whatever scores are equal.
PoolKeepsTheBest ==
  [][WeeklyReevaluate =>
       /\ IsPrefix(pool', ranking)
       /\ 2 * Len(pool') >= Len(ranking)
       /\ Len(pool') >= AtMost(MinPoolSize, Len(ranking))]_selectionVars

\* The copied traders never share more than the equity, and every share passes the manager's own
\* validation: between scores of eligible traders the floor is never reached, whose rounding to a
\* cent the validation would refuse (calculate_allocations, validate_allocation).
SharesFit ==
  /\ MapThenSumSet(LAMBDA a : a.amount, shares) <= CopierEquity
  /\ \A a \in shares : ValidAllocation(a.amount)
=============================================================================
