---------------------------- MODULE HFTRateLimiter ----------------------------
(***************************************************************************)
(* The HFT rate limiter (src/src/trading/hft_rate_limiter.py): a token     *)
(* bucket in front of the IG API, a queue for what exceeds it, and the     *)
(* cancellation of orders that waited too long.                            *)
(*                                                                         *)
(* No critical section of _queue_lock contains an await, so the lock is    *)
(* never contended and every method is one step.  Tokens are counted in    *)
(* fractions: an order costs Cost units, a tick of the clock brings Rate.  *)
(***************************************************************************)
EXTENDS Integers, Sequences, FiniteSets, SequencesExt

CONSTANTS
    Orders,         \* orders the HFT pipeline may create
    Cost,           \* units of one token
    Rate,           \* units refilled per tick
    Capacity,       \* _capacity, in units
    StaleAfter,      \* _latency_threshold_ms, in ticks
    CanStop,        \* stop_sweep_loop may be called
    MaxTime         \* bound: the clock stops here

ASSUME HFTRateLimiterAssumption ==
    /\ {Cost, Rate, Capacity, StaleAfter, MaxTime} \subseteq Nat
    /\ Cost > 0 /\ Capacity >= Cost
    /\ CanStop \in BOOLEAN

VARIABLES
    now,            \* time.monotonic()
    tokens,         \* _tokens, in units
    last_refill,    \* _last_refill
    queue,          \* _queue
    created,        \* created[o]: enqueue_time of the order object, or -1
    outcome,        \* what became of each order
    left_at,        \* history: when an order was submitted or cancelled, or -1
    running         \* _running: the sweep loop runs

limiterVars == <<now, tokens, last_refill, queue, created, outcome, left_at, running>>

Outcomes == {"none", "created", "queued", "submitted", "cancelled"}

LimiterTypeOK ==
    /\ now \in 0..MaxTime
    /\ tokens \in 0..Capacity
    /\ last_refill \in 0..MaxTime
    /\ queue \in Seq(Orders)
    /\ created \in [Orders -> -1..MaxTime]
    /\ outcome \in [Orders -> Outcomes]
    /\ left_at \in [Orders -> -1..MaxTime]
    /\ running \in BOOLEAN

LimiterInit ==
    /\ now = 0
    /\ tokens = Capacity
    /\ last_refill = 0
    /\ queue = << >>
    /\ created = [o \in Orders |-> -1]
    /\ outcome = [o \in Orders |-> "none"]
    /\ left_at = [o \in Orders |-> -1]
    /\ running = FALSE

\* TokenBucket._refill
Refilled ==
    LET full == tokens + (now - last_refill) * Rate
    IN  IF full > Capacity THEN Capacity ELSE full

\* An order that waited longer than the threshold.
Stale(o) == now - created[o] > StaleAfter

\* The pipeline builds a QueuedOrder; its enqueue_time is set here.
CreateOrder(o) ==
    /\ outcome[o] = "none"
    /\ created' = [created EXCEPT ![o] = now]
    /\ outcome' = [outcome EXCEPT ![o] = "created"]
    /\ UNCHANGED <<now, tokens, last_refill, queue, left_at, running>>

\* submit_order: at once when there is a token, whoever is waiting.
SubmitOrder(o) ==
    /\ outcome[o] = "created"
    /\ last_refill' = now
    /\ IF Refilled >= Cost
         THEN /\ tokens' = Refilled - Cost
              /\ outcome' = [outcome EXCEPT ![o] = "submitted"]
              /\ left_at' = [left_at EXCEPT ![o] = now]
              /\ UNCHANGED queue
         ELSE /\ tokens' = Refilled
              /\ outcome' = [outcome EXCEPT ![o] = "queued"]
              /\ queue' = Append(queue, o)
              /\ UNCHANGED left_at
    /\ UNCHANGED <<now, created, running>>

\* Where position i comes among the positions P.
Place(P, i) == Cardinality({j \in P : j <= i})

\* The part of s at the positions P, in the order of s: what the loops over the
\* queue put into remaining.
Keep(s, P) == [k \in 1..Cardinality(P) |-> s[CHOOSE i \in P : Place(P, i) = k]]

\* The orders sent and the orders cancelled leave the queue.
Leave(sent, cancelled) ==
    /\ outcome' = [o \in Orders |-> IF o \in sent THEN "submitted"
                     ELSE IF o \in cancelled THEN "cancelled" ELSE outcome[o]]
    /\ left_at' = [o \in Orders |-> IF o \in sent \cup cancelled THEN now
                                    ELSE left_at[o]]
    /\ queue' = Keep(queue, {i \in DOMAIN queue : queue[i] \notin sent \cup cancelled})

StaleOrders == {o \in ToSet(queue) : Stale(o)}
FreshPositions == {i \in DOMAIN queue : ~Stale(queue[i])}

\* Mutant: the pass leaves the stale orders to the sweep.
FirstQueued(n) == {queue[i] : i \in {j \in DOMAIN queue : j <= n}}

\* The first n orders of queue that are not stale.
FirstFresh(n) == {queue[i] : i \in {j \in FreshPositions : Place(FreshPositions, j) <= n}}

\* process_queue: one pass that cancels the stale orders and submits the
\* others while tokens last.  A stale order does not look at the bucket.
ProcessQueue ==
    LET sent == FirstFresh(Refilled \div Cost)
    IN  /\ queue # << >>
        /\ IF FreshPositions = {}
             THEN UNCHANGED <<tokens, last_refill>>
             ELSE /\ tokens' = Refilled - Cost * Cardinality(sent)
                  /\ last_refill' = now
        /\ Leave(sent, StaleOrders)
        /\ UNCHANGED <<now, created, running>>

\* sweep_stale_orders, called by the sweep loop.
SweepStaleOrders ==
    /\ running
    /\ queue # << >>
    /\ Leave({}, StaleOrders)
    /\ UNCHANGED <<now, tokens, last_refill, created, running>>

StartSweepLoop ==
    /\ ~running
    /\ running' = TRUE
    /\ UNCHANGED <<now, tokens, last_refill, queue, created, outcome, left_at>>

StopSweepLoop ==
    /\ CanStop /\ running
    /\ running' = FALSE
    /\ UNCHANGED <<now, tokens, last_refill, queue, created, outcome, left_at>>

LimiterTick ==
    /\ now < MaxTime
    /\ now' = now + 1
    /\ UNCHANGED <<tokens, last_refill, queue, created, outcome, left_at, running>>

LimiterNext ==
    \/ \E o \in Orders : CreateOrder(o) \/ SubmitOrder(o)
    \/ ProcessQueue \/ SweepStaleOrders
    \/ StartSweepLoop \/ StopSweepLoop
    \/ LimiterTick

LimiterSpec == LimiterInit /\ [][LimiterNext]_limiterVars

\* The sweep loop wakes up every 50 ms; nothing in the program calls
\* process_queue by itself, so no fairness is assumed for it.
LimiterFairSpec ==
    /\ LimiterSpec
    /\ WF_limiterVars(LimiterTick) /\ WF_limiterVars(StartSweepLoop) /\ WF_limiterVars(SweepStaleOrders)

-----------------------------------------------------------------------------
\* An order is in the queue exactly while its outcome is open, and once: no
\* pass over the queue loses, duplicates or revives an order.
QueueIsOpenOrders ==
    /\ ToSet(queue) = {o \in Orders : outcome[o] = "queued"}
    /\ Cardinality(ToSet(queue)) = Len(queue)

\* The bucket keeps its promise over every interval: the submissions of any
\* stretch of time never exceed one full bucket plus what it refills meanwhile.
Submitted(a, b) == {o \in Orders : outcome[o] = "submitted" /\ left_at[o] \in a..b}

RateBound ==
    \A a, b \in 0..now : a <= b =>
        Cost * Cardinality(Submitted(a, b)) <= Capacity + (b - a) * Rate

\* Cross-Cutting Rule 7: an order that waited in the queue longer than the
\* threshold is cancelled, never sent.
NoStaleSubmission ==
    [][\A o \in Orders :
         outcome[o] = "queued" /\ outcome'[o] = "submitted" =>
            now - created[o] <= StaleAfter]_limiterVars

\* The queue is first in, first out: an order sent from the queue leaves
\* nobody behind who was ahead of it.
QueueIsFifo ==
    [][\A j, k \in DOMAIN queue :
         j < k /\ outcome'[queue[k]] = "submitted" =>
            outcome'[queue[j]] # "queued"]_limiterVars

\* What the limiter is for: it bounds the rate over every interval, and no pass
\* over its queue loses an order, sends a late one or lets one overtake.
LimiterHolds == []RateBound /\ []QueueIsOpenOrders /\ NoStaleSubmission /\ QueueIsFifo

\* As long as the sweep loop is not stopped no order waits for ever: it leaves
\* the queue once it is stale.
StaleOrdersLeave ==
    \A o \in Orders :
        (outcome[o] = "queued" /\ created[o] + StaleAfter < MaxTime)
            ~> (outcome[o] # "queued" \/ ~running)

(* What the requirements say and the code does not do.                     *)

\* Rule 7: "queue orders that exceed IG's rate limit and execute them in the
\* next available window": a token is not given to a newcomer while an order
\* that is still fresh waits for one.
QueuedOrdersFirst ==
    [][\A o, p \in Orders :
         outcome[o] = "created" /\ outcome'[o] = "submitted" =>
            ~(outcome[p] = "queued" /\ ~Stale(p))]_limiterVars
=============================================================================
