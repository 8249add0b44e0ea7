--------------------------- MODULE IGClient_proofs ---------------------------
(***************************************************************************)
(* Theorems about the IG REST client, for every set of requests, every     *)
(* number of attempts and every length of the pauses.                      *)
(***************************************************************************)
EXTENDS IGClient, TLAPS

\* What the proofs need to know of the types: where callers are, and the counters of
\* the retry loop.
LoopTypes ==
    /\ client \in BOOLEAN
    /\ pc \in [Callers -> Pcs]
    /\ attempt \in [Reqs -> Nat] /\ sends \in [Reqs -> Nat]
    /\ resume \in Int /\ resume >= -1

\* A request is sent once per attempt of the loop it is in; one that has not entered
\* the loop has not been sent.
BudgetInv ==
    \A r \in Reqs :
        /\ attempt[r] < MaxAttempts /\ sends[r] <= attempt[r] + 1
        /\ pc[r] \in {"idle", "waiting"} => sends[r] = 0

RetryInv == LoopTypes /\ BudgetInv /\ RateLimitIsLifted

-----------------------------------------------------------------------------
\* A step that leaves the counters and the rate limit alone and sends nobody back to
\* before the loop keeps the invariant.
LEMMA QuietStep ==
    ASSUME RetryInv,
           pc' \in [Callers -> Pcs],
           \A r \in Reqs : pc'[r] \in {"idle", "waiting"} => pc[r] \in {"idle", "waiting"},
           UNCHANGED <<attempt, sends, rate_limited, resume>>,
           client' = client \/ client' = FALSE
    PROVE  RetryInv'
<1>1. LoopTypes'
  BY DEF RetryInv, LoopTypes
<1>2. BudgetInv'
  BY DEF RetryInv, BudgetInv
<1>3. RateLimitIsLifted'
  BY DEF RetryInv, LoopTypes, RateLimitIsLifted
<1> QED
  BY <1>1, <1>2, <1>3 DEF RetryInv

\* The same for a step that moves one caller.
LEMMA GotoStep ==
    ASSUME RetryInv, NEW c \in Callers, NEW where \in Pcs \ {"idle", "waiting"},
           Goto(c, where),
           UNCHANGED <<attempt, sends, rate_limited, resume>>,
           client' = client \/ client' = FALSE
    PROVE  RetryInv'
<1>1. pc' \in [Callers -> Pcs]
  BY DEF RetryInv, LoopTypes, Goto
<1>2. \A r \in Reqs : pc'[r] \in {"idle", "waiting"} => pc[r] \in {"idle", "waiting"}
  BY DEF RetryInv, LoopTypes, Goto, Callers
<1> QED
  BY <1>1, <1>2, QuietStep

\* The head of the loop sends at most once, and counts it: a request enters the loop
\* at attempt 0 without having been sent, or goes on to the next attempt.
LEMMA LoopHeadBudget ==
    ASSUME LoopTypes, BudgetInv, NEW r \in Reqs, NEW n \in Nat, LoopHead(r, n),
           n = attempt[r] + 1 \/ (n = 0 /\ pc[r] \in {"idle", "waiting"})
    PROVE  /\ BudgetInv' /\ client' = client
           /\ pc' \in [Callers -> Pcs]
           /\ attempt' \in [Reqs -> Nat] /\ sends' \in [Reqs -> Nat]
<1> USE DEF LoopTypes
<1>1. r \in Callers /\ client' = client
  BY DEF Callers, LoopHead, LoopStep
<1>2. ASSUME NEW where \in Pcs \ {"idle", "waiting"}, Goto(r, where),
             UNCHANGED <<attempt, sends>>
      PROVE  /\ BudgetInv' /\ pc' \in [Callers -> Pcs]
             /\ attempt' \in [Reqs -> Nat] /\ sends' \in [Reqs -> Nat]
  BY <1>1, <1>2 DEF BudgetInv, Goto, Callers
<1>3. ASSUME n < MaxAttempts, Goto(r, "flight"), attempt' = [attempt EXCEPT ![r] = n],
             sends' = [sends EXCEPT ![r] = @ + 1]
      PROVE  /\ BudgetInv' /\ pc' \in [Callers -> Pcs]
             /\ attempt' \in [Reqs -> Nat] /\ sends' \in [Reqs -> Nat]
  <2>1. pc' \in [Callers -> Pcs] /\ pc'[r] = "flight"
    BY <1>1, <1>3 DEF Goto, Pcs
  <2>2. attempt' \in [Reqs -> Nat] /\ sends' \in [Reqs -> Nat]
    BY <1>3
  <2>3. attempt'[r] < MaxAttempts /\ sends'[r] <= attempt'[r] + 1
    BY <1>3 DEF BudgetInv
  <2>4. \A q \in Reqs \ {r} : /\ attempt'[q] = attempt[q] /\ sends'[q] = sends[q]
                              /\ pc'[q] = pc[q]
    BY <1>3 DEF Goto, Callers
  <2> QED
    BY <2>1, <2>2, <2>3, <2>4 DEF BudgetInv
<1>4. {"exhausted", "latency", "no_client"} \subseteq Pcs \ {"idle", "waiting"}
  BY DEF Pcs, Finished
<1> QED
  BY <1>1, <1>2, <1>3, <1>4 DEF LoopHead, LoopStep

\* ... and leaves the rate limit alone.
LEMMA LoopHeadStep ==
    ASSUME RetryInv, NEW r \in Reqs, NEW n \in Nat, LoopHead(r, n), UNCHANGED limit,
           n = attempt[r] + 1 \/ (n = 0 /\ pc[r] \in {"idle", "waiting"})
    PROVE  RetryInv'
<1>1. /\ BudgetInv' /\ client' = client
      /\ pc' \in [Callers -> Pcs]
      /\ attempt' \in [Reqs -> Nat] /\ sends' \in [Reqs -> Nat]
  BY LoopHeadBudget DEF RetryInv
<1> QED
  BY <1>1 DEF RetryInv, LoopTypes, RateLimitIsLifted, limit

-----------------------------------------------------------------------------
\* Every outcome of a request on the wire, and every wait that ends.
LEMMA RequestSteps ==
    ASSUME RetryInv, NEW r \in Reqs, Call(r) \/ Progress(r)
    PROVE  RetryInv'
<1> USE IGClientAssumption
<1>1. r \in Callers /\ attempt[r] + 1 \in Nat /\ 0 \in Nat
  BY DEF Callers, RetryInv, LoopTypes
<1>2. {"queue_full", "latency", "refresh", "no_client", "returned", "exhausted", "backoff", "login"}
        \subseteq Pcs \ {"idle", "waiting"}
  BY DEF Pcs, Finished
<1>3. CASE Call(r)
  <2>1. CASE rate_limited /\ Goto(r, "waiting")
    <3>1. UNCHANGED <<attempt, sends, rate_limited, resume, client>>
      BY <1>3, <2>1 DEF Call, limit
    <3>2. pc' \in [Callers -> Pcs]
      BY <1>1, <2>1 DEF Goto, RetryInv, LoopTypes, Pcs
    <3>3. \A q \in Reqs : pc'[q] \in {"idle", "waiting"} => pc[q] \in {"idle", "waiting"}
      BY <1>1, <1>3, <2>1 DEF Goto, RetryInv, LoopTypes, Call, Callers
    <3> QED
      BY <3>1, <3>2, <3>3, QuietStep
  <2>2. CASE rate_limited /\ Goto(r, "queue_full")
    <3>1. UNCHANGED <<attempt, sends, rate_limited, resume, client>>
      BY <1>3, <2>2 DEF Call, limit
    <3> QED
      BY <1>1, <1>2, <2>2, <3>1, GotoStep
  <2>3. CASE ~rate_limited
    BY <1>1, <1>3, <2>3, LoopHeadStep DEF Call
  <2> QED
    BY <1>3, <2>1, <2>2, <2>3 DEF Call
<1>4. CASE WaitEnds(r)
  <2>1. CASE LoopHead(r, 0) /\ UNCHANGED limit
    BY <1>1, <1>4, <2>1, LoopHeadStep DEF WaitEnds
  <2>2. CASE Goto(r, "latency") /\ UNCHANGED <<client, attempt, sends, limit>>
    BY <1>1, <1>2, <2>2, GotoStep DEF limit
  <2> QED
    BY <1>4, <2>1, <2>2 DEF WaitEnds
<1>5. CASE Answered(r)
  BY <1>1, <1>2, <1>5, GotoStep DEF Answered, limit
<1>6. CASE AnsweredLimited(r)
  <2>1. PICK w \in RetryAfter : HandleRateLimit(w)
    BY <1>6 DEF AnsweredLimited
  <2>2. /\ BudgetInv' /\ client' = client
        /\ pc' \in [Callers -> Pcs]
        /\ attempt' \in [Reqs -> Nat] /\ sends' \in [Reqs -> Nat]
    BY <1>1, <1>6, LoopHeadBudget DEF AnsweredLimited, RetryInv
  <2>3. resume' \in Nat
    BY <2>1 DEF HandleRateLimit, RetryInv, LoopTypes
  <2> QED
    BY <2>2, <2>3 DEF RetryInv, LoopTypes, RateLimitIsLifted
<1>7. CASE AnsweredExpired(r)
  BY <1>1, <1>2, <1>7, GotoStep DEF AnsweredExpired, limit
<1>8. CASE TransportError(r)
  BY <1>1, <1>2, <1>8, GotoStep DEF TransportError, limit, Sleep
<1>9. CASE BackoffEnds(r)
  BY <1>1, <1>9, LoopHeadStep DEF BackoffEnds
<1>10. CASE Refreshed(r)
  <2>1. CASE LoopHead(r, attempt[r] + 1) /\ UNCHANGED limit
    BY <1>1, <2>1, LoopHeadStep
  <2>2. CASE Goto(r, IF client THEN "login" ELSE "no_client") /\ UNCHANGED <<client, attempt, sends, limit>>
    BY <1>1, <1>2, <2>2, GotoStep DEF limit
  <2> QED
    BY <1>10, <2>1, <2>2 DEF Refreshed
<1> QED
  BY <1>3, <1>4, <1>5, <1>6, <1>7, <1>8, <1>9, <1>10 DEF Progress

\* A login, of a request, of start() or of a reconnection.
LEMMA LoginSteps ==
    ASSUME RetryInv, NEW c \in Callers, LoginAnswered(c) \/ LoginAgain(c)
    PROVE  RetryInv'
<1>1. {"up", "hb_sleep", "down", "reconnect_sleep", "shutdown", "login_sleep", "login", "no_client"}
        \subseteq Pcs \ {"idle", "waiting"}
  BY DEF Pcs, Finished
<1>2. ASSUME NEW ok \in BOOLEAN, AfterLogin(c, ok)
      PROVE  RetryInv'
  <2>1. CASE c \in Reqs /\ LoopHead(c, attempt[c] + 1) /\ UNCHANGED limit
    <3>1. attempt[c] + 1 \in Nat
      BY <2>1 DEF RetryInv, LoopTypes
    <3> QED
      BY <2>1, <3>1, LoopHeadStep
  <2>2. CASE /\ pc' = [pc EXCEPT !["main"] = "up", !["heartbeat"] = "hb_sleep"]
             /\ UNCHANGED <<client, limit, attempt, sends>>
    <3>1. pc' \in [Callers -> Pcs]
      BY <1>1, <2>2 DEF RetryInv, LoopTypes
    <3>2. \A r \in Reqs : pc'[r] = pc[r]
      BY <2>2, IGClientAssumption DEF RetryInv, LoopTypes, Callers
    <3> QED
      BY <2>2, <3>1, <3>2, QuietStep DEF limit
  <2>3. CASE Goto("main", "down") /\ client' = FALSE /\ UNCHANGED <<limit, attempt, sends>>
    <3>1. "main" \in Callers
      BY DEF Callers
    <3> QED
      BY <1>1, <2>3, <3>1, GotoStep DEF limit
  <2>4. CASE \/ Goto(c, "hb_sleep") \/ Goto(c, "reconnect_sleep") \/ Goto(c, "shutdown")
    <3>1. CASE UNCHANGED <<client, limit, attempt, sends>>
      BY <1>1, <2>4, <3>1, GotoStep DEF limit
    <3>2. CASE c \in Reqs
      BY <1>2, <2>1, <3>2, IGClientAssumption DEF AfterLogin
    <3>3. CASE c = "main"
      BY <1>2, <2>1, <2>2, <2>3, <3>3 DEF AfterLogin
    <3>4. c = "heartbeat" => UNCHANGED <<client, limit, attempt, sends>> \/ c \in Reqs
      BY <1>2 DEF AfterLogin
    <3> QED
      BY <3>1, <3>2, <3>3, <3>4 DEF Callers
  <2> QED
    BY <1>2, <2>1, <2>2, <2>3, <2>4 DEF AfterLogin, Sleep
<1>3. CASE LoginAnswered(c)
  <2>1. CASE Sleep(c, "login_sleep", Backoff * 2 ^ tries[c]) /\ UNCHANGED <<client, limit, attempt, sends>>
    BY <1>1, <2>1, GotoStep DEF limit, Sleep
  <2> QED
    BY <1>2, <1>3, <2>1 DEF LoginAnswered
<1>4. CASE LoginAgain(c)
  BY <1>1, <1>4, GotoStep DEF LoginAgain, limit
<1> QED
  BY <1>3, <1>4

\* The heartbeat, the resume task, stop() and time.
LEMMA OtherSteps ==
    ASSUME RetryInv,
           \/ HeartbeatDue \/ HeartbeatAnswered \/ ReconnectAgain
           \/ ResumeAfterRateLimit \/ Stop \/ Tick \/ UNCHANGED vars
    PROVE  RetryInv'
<1>1. {"hb_check", "hb_sleep", "login"} \subseteq Pcs \ {"idle", "waiting"} /\ "down" \in Pcs
      /\ {"heartbeat", "main"} \subseteq Callers
  BY DEF Pcs, Finished, Callers
<1>2. CASE HeartbeatDue
  BY <1>1, <1>2, GotoStep DEF HeartbeatDue, limit
<1>3. CASE HeartbeatAnswered
  BY <1>1, <1>3, GotoStep DEF HeartbeatAnswered, limit, Sleep
<1>4. CASE ReconnectAgain
  BY <1>1, <1>4, GotoStep DEF ReconnectAgain, limit
<1>5. CASE ResumeAfterRateLimit
  BY <1>5 DEF ResumeAfterRateLimit, RetryInv, LoopTypes, BudgetInv, RateLimitIsLifted
<1>6. CASE Stop
  <2>1. pc' \in [Callers -> Pcs]
    BY <1>1, <1>6 DEF Stop, RetryInv, LoopTypes
  <2>2. \A r \in Reqs : pc'[r] = pc[r]
    BY <1>6, IGClientAssumption DEF Stop, RetryInv, LoopTypes, Callers
  <2>3. client' = FALSE /\ resume' = -1 /\ UNCHANGED <<attempt, sends>>
    BY <1>6 DEF Stop
  <2>4. LoopTypes'
    <3>1. client' \in BOOLEAN
      BY <2>3
    <3>2. resume' \in Int /\ resume' >= -1
      BY <2>3
    <3> QED
      BY <2>1, <2>3, <3>1, <3>2 DEF RetryInv, LoopTypes
  <2>5. BudgetInv'
    BY <2>2, <2>3 DEF RetryInv, BudgetInv
  <2> QED
    BY <2>3, <2>4, <2>5 DEF RetryInv, RateLimitIsLifted
<1>7. CASE Tick
  <2>1. UNCHANGED <<client, pc, attempt, sends, rate_limited>>
    BY <1>7 DEF Tick
  <2>2. resume' \in Int /\ resume' >= -1 /\ (resume # -1 => resume' # -1)
    BY <1>7 DEF Tick, Down, RetryInv, LoopTypes
  <2> QED
    BY <2>1, <2>2 DEF RetryInv, LoopTypes, BudgetInv, RateLimitIsLifted
<1>8. CASE UNCHANGED vars
  BY <1>8 DEF vars, limit, RetryInv, LoopTypes, BudgetInv, RateLimitIsLifted
<1> QED
  BY <1>2, <1>3, <1>4, <1>5, <1>6, <1>7, <1>8

\* No step of a caller or of the clock takes the attempts out of their budget.
LEMMA RetryInvariant == Spec => []RetryInv
<1>1. Init => RetryInv
  BY IGClientAssumption
     DEF Init, RetryInv, LoopTypes, BudgetInv, RateLimitIsLifted, Callers, Pcs, Finished
<1>2. RetryInv /\ [Next]_vars => RetryInv'
  BY RequestSteps, LoginSteps, OtherSteps DEF Next
<1> QED
  BY <1>1, <1>2, PTL DEF Spec

\* Whatever mix of 429s, expired sessions, transport errors and re-logins a request
\* meets in _request, it goes on the wire at most MaxAttempts times; and as long as
\* the client is open a raised rate limit has the task that lowers it.
THEOREM RetriesStayBounded == Spec => []RetriesAreBounded
<1>1. RetryInv => RetriesAreBounded
  <2> SUFFICES ASSUME RetryInv, NEW r \in Reqs PROVE sends[r] <= MaxAttempts /\ RateLimitIsLifted
    BY DEF RetriesAreBounded, OneRetryBudget, RetryInv
  <2> QED
    BY IGClientAssumption DEF RetryInv, BudgetInv, LoopTypes
<1> QED
  BY <1>1, RetryInvariant, PTL

-----------------------------------------------------------------------------
\* Every path to the wire goes through the head of the loop, and only time makes a
\* request older.
LEMMA OneWayToTheWire ==
    ASSUME LoopTypes, [Next]_vars
    PROVE  /\ sends' = sends \/ \E q \in Reqs, n \in Nat : LoopHead(q, n)
           /\ age' = age \/ Tick
<1>1. ASSUME NEW q \in Reqs, NEW n \in Nat, LoopHead(q, n)
      PROVE  (\E p \in Reqs, m \in Nat : LoopHead(p, m)) /\ age' = age
  BY <1>1 DEF LoopHead, LoopStep
<1>2. ASSUME NEW q \in Reqs PROVE 0 \in Nat /\ attempt[q] + 1 \in Nat
  BY DEF LoopTypes
<1>3. ASSUME NEW q \in Reqs, Call(q) \/ Progress(q)
      PROVE  (sends' = sends \/ \E p \in Reqs, m \in Nat : LoopHead(p, m)) /\ age' = age
  BY <1>1, <1>2, <1>3 DEF Call, Progress, WaitEnds, Answered, AnsweredLimited,
     AnsweredExpired, TransportError, BackoffEnds, Refreshed
<1>4. ASSUME NEW c \in Callers, LoginAnswered(c) \/ LoginAgain(c)
      PROVE  (sends' = sends \/ \E p \in Reqs, m \in Nat : LoopHead(p, m)) /\ age' = age
  <2>1. ASSUME NEW ok, AfterLogin(c, ok)
        PROVE  (sends' = sends \/ \E p \in Reqs, m \in Nat : LoopHead(p, m)) /\ age' = age
    BY <1>1, <1>2, <2>1 DEF AfterLogin
  <2> QED
    BY <1>4, <2>1 DEF LoginAnswered, LoginAgain
<1>5. CASE HeartbeatDue \/ HeartbeatAnswered \/ ReconnectAgain \/ ResumeAfterRateLimit \/ Stop
  BY <1>5 DEF HeartbeatDue, HeartbeatAnswered, ReconnectAgain, ResumeAfterRateLimit, Stop
<1>6. CASE Tick \/ UNCHANGED vars
  BY <1>6 DEF Tick, vars
<1> QED
  BY <1>3, <1>4, <1>5, <1>6 DEF Next

\* The age of a request, which only the clock moves, is a number of ticks.
LEMMA AgesInvariant == Spec => [](age \in [Reqs -> Nat])
<1>1. Init => age \in [Reqs -> Nat]
  BY DEF Init
<1>2. LoopTypes /\ age \in [Reqs -> Nat] /\ [Next]_vars => (age \in [Reqs -> Nat])'
  <2> SUFFICES ASSUME LoopTypes, age \in [Reqs -> Nat], [Next]_vars PROVE age' \in [Reqs -> Nat]
    OBVIOUS
  <2>1. CASE Tick
    BY <2>1 DEF Tick
  <2> QED
    BY <2>1, OneWayToTheWire
<1>3. RetryInv => LoopTypes
  BY DEF RetryInv
<1> QED
  BY <1>1, <1>2, <1>3, RetryInvariant, PTL DEF Spec

\* An HFT request is never put on the wire, by any of the retry paths, once it is
\* older than the limit.
THEOREM LateRequestsAreNotSent == Spec => NoLateHftSend
<1> DEFINE Timely == \A r \in Hft : sends'[r] # sends[r] => age[r] <= LatencyLimit
<1>1. LoopTypes /\ age \in [Reqs -> Nat] /\ [Next]_vars => [Timely]_vars
  <2> SUFFICES ASSUME LoopTypes, age \in [Reqs -> Nat], [Next]_vars, NEW r \in Hft,
                      sends'[r] # sends[r]
               PROVE  age[r] <= LatencyLimit
    OBVIOUS
  <2>1. PICK q \in Reqs, n \in Nat : LoopHead(q, n)
    BY OneWayToTheWire
  <2>2. sends' = [sends EXCEPT ![q] = @ + 1] /\ ~TooLate(q)
    BY <2>1 DEF LoopHead, LoopStep
  <2>3. r \in Reqs /\ r = q
    BY <2>2, IGClientAssumption DEF LoopTypes
  <2> QED
    BY <2>2, <2>3, IGClientAssumption DEF TooLate
<1>2. RetryInv => LoopTypes
  BY DEF RetryInv
<1> QED
  BY <1>1, <1>2, RetryInvariant, AgesInvariant, PTL DEF Spec, NoLateHftSend
=============================================================================
