------------------------------ MODULE IGClient ------------------------------
(***************************************************************************)
(* The IG REST client (src/src/trading/ig_client.py): the retry loop of    *)
(* _request, HTTP 429 handling, session renewal, the heartbeat with its    *)
(* reconnection, start and stop.                                           *)
(*                                                                         *)
(* A caller is a coroutine: one per request, the heartbeat task and        *)
(* "main", which runs start and stop.  pc[c] is the await it is suspended  *)
(* in and left[c] the ticks its sleep has to go.  What IG answers is the   *)
(* environment's choice.  Session tokens are left out: a 401 may come at   *)
(* any time.                                                               *)
(***************************************************************************)
EXTENDS Integers, FiniteSets

CONSTANTS
    Reqs,           \* calls of _request
    Hft,            \* those made with hft=True
    Orders,         \* those that POST an opening order
    MaxAttempts,    \* API_RETRY_MAX_ATTEMPTS
    LoginAttempts,  \* max_auth_retries
    MaxReconnects,  \* RECONNECT_MAX_ATTEMPTS
    Backoff,        \* API_RETRY_BASE_SECONDS, in ticks
    RetryAfter,     \* values of the Retry-After header, in ticks
    LatencyLimit,   \* HFT_LATENCY_REJECTION_MS, in ticks
    Interval,       \* HEARTBEAT_INTERVAL_SECONDS, in ticks
    QueueMax,       \* REQUEST_QUEUE_MAX_SIZE
    Answers,        \* what IG may answer a request, besides "ok"
    CanFail,        \* logins and heartbeats may fail
    CanStop         \* stop may be called

ASSUME IGClientAssumption ==
    /\ Hft \subseteq Reqs /\ Orders \subseteq Reqs
    /\ {MaxAttempts, LoginAttempts, MaxReconnects} \subseteq Nat \ {0}
    /\ {Backoff, LatencyLimit, Interval, QueueMax} \subseteq Nat
    /\ RetryAfter \subseteq Nat
    /\ Answers \subseteq {"429", "401", "error"}
    /\ {CanFail, CanStop} \subseteq BOOLEAN
    /\ {"heartbeat", "main"} \cap Reqs = {}

VARIABLES
    running,        \* _running
    client,         \* _client is open
    rate_limited,   \* _rate_limited
    resume,         \* ticks the resume task still sleeps, -1 when done or None
    window,         \* ticks to _rate_limit_reset_time
    pc, left,       \* where each caller is, and its sleep
    attempt,        \* attempt of the loop each request is in
    tries,          \* tries[c]: attempt of the login c is in
    reconnects,     \* attempt of _reconnect
    age,            \* ticks since the request was made, up to LatencyLimit + 1
    sends           \* history: times a request was put on the wire

limit == <<rate_limited, resume, window>>
vars == <<running, client, limit, pc, left, attempt, tries, reconnects, age, sends>>

Callers == Reqs \cup {"heartbeat", "main"}
Finished == {"returned", "exhausted", "latency", "no_client", "queue_full"}
Pcs == {"idle", "waiting", "flight", "backoff", "refresh", "login",
        "login_sleep", "hb_sleep", "hb_check", "reconnect_sleep", "shutdown",
        "up", "down"} \cup Finished

TypeOK ==
    /\ {running, client, rate_limited} \subseteq BOOLEAN
    /\ resume \in Int /\ resume >= -1 /\ window \in Nat
    /\ pc \in [Callers -> Pcs] /\ left \in [Callers -> Nat]
    /\ attempt \in [Reqs -> Nat]
    /\ tries \in [Callers -> 0..LoginAttempts - 1]
    /\ reconnects \in 0..MaxReconnects - 1
    /\ age \in [Reqs -> 0..LatencyLimit + 1]
    /\ sends \in [Reqs -> Nat]

\* start has opened the HTTP client and is in its login.
Init ==
    /\ running = TRUE /\ client = TRUE
    /\ rate_limited = FALSE /\ resume = -1 /\ window = 0
    /\ pc = [c \in Callers |-> IF c = "main" THEN "login" ELSE "idle"]
    /\ left = [c \in Callers |-> 0]
    /\ attempt = [r \in Reqs |-> 0]
    /\ tries = [c \in Callers |-> 0]
    /\ reconnects = 0
    /\ age = [r \in Reqs |-> 0]
    /\ sends = [r \in Reqs |-> 0]

Goto(c, where) == pc' = [pc EXCEPT ![c] = where]
Sleep(c, where, ticks) ==
    Goto(c, where) /\ left' = [left EXCEPT ![c] = ticks]

TooLate(r) == r \in Hft /\ age[r] > LatencyLimit

-----------------------------------------------------------------------------
(* _request                                                                *)

\* Attempt n of at most max: give up, reject a request found late, fail
\* without a client, or send.
LoopStep(r, n, max, late) ==
    /\ \/ n = max /\ Goto(r, "exhausted") /\ UNCHANGED <<attempt, sends>>
       \/ n < max /\ late /\ Goto(r, "latency") /\ UNCHANGED <<attempt, sends>>
       \/ n < max /\ ~late /\ ~client
          /\ Goto(r, "no_client") /\ UNCHANGED <<attempt, sends>>
       \/ n < max /\ ~late /\ client /\ Goto(r, "flight")
          /\ attempt' = [attempt EXCEPT ![r] = n]
          /\ sends' = [sends EXCEPT ![r] = @ + 1]
    /\ UNCHANGED <<running, client, left, tries, reconnects, age>>

\* Mutant: one attempt too many.
LoopHeadOffByOne(r, n) == LoopStep(r, n, MaxAttempts + 1, TooLate(r))

\* Mutant: only the wait for the rate limit looks at the latency.
LoopHeadNoLatency(r, n) == LoopStep(r, n, MaxAttempts, FALSE)

\* The head of the retry loop.
LoopHead(r, n) == LoopStep(r, n, MaxAttempts, TooLate(r))

\* What _rate_limit_queue holds: no code ever puts a request into it.
RateLimitQueue == {}

\* A request is made.  Its caller looked at is_connected at the start of its
\* cycle, some awaits ago; _request itself looks at the rate limit only.
Call(r) ==
    /\ pc[r] = "idle" /\ pc["main"] \in {"up", "down"}
    /\ IF rate_limited
         THEN /\ IF Cardinality(RateLimitQueue) >= QueueMax
                   THEN Goto(r, "queue_full") ELSE Goto(r, "waiting")
              /\ UNCHANGED <<running, client, left, attempt, tries, reconnects,
                             age, sends>>
         ELSE LoopHead(r, 0)
    /\ UNCHANGED limit

\* A poll of _wait_for_rate_limit_clear that ends the wait.
WaitEnds(r) ==
    /\ pc[r] = "waiting"
    /\ \/ ~rate_limited /\ LoopHead(r, 0)
       \/ rate_limited /\ TooLate(r) /\ Goto(r, "latency")
          /\ UNCHANGED <<running, client, left, attempt, tries, reconnects, age,
                         sends>>
    /\ UNCHANGED limit

\* Mutant: a second 429 replaces the resume task without starting a new one.
RateLimitTwice(w) ==
    /\ rate_limited' = TRUE
    /\ window' = w
    /\ resume' = IF resume = -1 THEN w ELSE -1

\* _handle_rate_limit: the resume task is started once; it is not restarted
\* when a later 429 asks for a longer pause.
HandleRateLimit(w) ==
    /\ rate_limited' = TRUE
    /\ window' = w
    /\ resume' = IF resume = -1 THEN w ELSE resume

\* HTTP 429: note the pause and go round the loop at once.
AnsweredLimited(r) ==
    /\ pc[r] = "flight" /\ "429" \in Answers
    /\ \E w \in RetryAfter : HandleRateLimit(w)
    /\ LoopHead(r, attempt[r] + 1)

\* HTTP 401: renew the session first.
AnsweredExpired(r) ==
    /\ pc[r] = "flight" /\ "401" \in Answers
    /\ Goto(r, IF client THEN "refresh" ELSE "no_client")
    /\ UNCHANGED <<running, client, limit, left, attempt, tries, reconnects,
                   age, sends>>

Answered(r) ==
    /\ pc[r] = "flight"
    /\ Goto(r, "returned")
    /\ UNCHANGED <<running, client, limit, left, attempt, tries, reconnects,
                   age, sends>>

\* httpx.HTTPError, before IG saw the request or after: back off, unless this was the last attempt.
TransportError(r) ==
    /\ pc[r] = "flight" /\ "error" \in Answers
    /\ IF attempt[r] < MaxAttempts - 1
         THEN Sleep(r, "backoff", Backoff * 2 ^ attempt[r])
         ELSE Goto(r, "exhausted") /\ UNCHANGED left
    /\ UNCHANGED <<running, client, limit, attempt, tries, reconnects, age, sends>>

BackoffEnds(r) ==
    /\ pc[r] = "backoff" /\ left[r] = 0
    /\ LoopHead(r, attempt[r] + 1)
    /\ UNCHANGED limit

\* _refresh_session answered; a failed refresh falls back to login.
Refreshed(r) ==
    /\ pc[r] = "refresh"
    /\ \/ LoopHead(r, attempt[r] + 1)
       \/ /\ Goto(r, IF client THEN "login" ELSE "no_client")
          /\ tries' = [tries EXCEPT ![r] = 0]
          /\ UNCHANGED <<running, client, left, attempt, reconnects, age, sends>>
    /\ UNCHANGED limit

-----------------------------------------------------------------------------
(* login, _heartbeat_loop, _reconnect                                      *)

\* The caller's code after login returned.
AfterLogin(c, ok) ==
    \/ /\ c \in Reqs
       /\ LoopHead(c, attempt[c] + 1) /\ UNCHANGED limit
    \/ /\ c = "main" /\ ok
       /\ pc' = [pc EXCEPT !["main"] = "up", !["heartbeat"] = "hb_sleep"]
       /\ left' = [left EXCEPT !["heartbeat"] = Interval]
       /\ UNCHANGED <<running, client, limit, attempt, tries, reconnects, age, sends>>
    \/ /\ c = "main" /\ ~ok
       /\ running' = FALSE /\ client' = FALSE
       /\ Goto("main", "down")
       /\ UNCHANGED <<limit, left, attempt, tries, reconnects, age, sends>>
    \/ /\ c = "heartbeat" /\ ok
       /\ Sleep(c, "hb_sleep", Interval)
       /\ UNCHANGED <<running, client, limit, attempt, tries, reconnects, age, sends>>
    \/ /\ c = "heartbeat" /\ ~ok /\ reconnects < MaxReconnects - 1
       /\ Sleep(c, "reconnect_sleep", Interval)
       /\ reconnects' = reconnects + 1
       /\ UNCHANGED <<running, client, limit, attempt, tries, age, sends>>
    \/ /\ c = "heartbeat" /\ ~ok /\ reconnects = MaxReconnects - 1
       /\ Goto(c, "shutdown")
       /\ running' = FALSE
       /\ UNCHANGED <<client, limit, left, attempt, tries, reconnects, age, sends>>

\* POST /session answered or failed.
LoginAnswered(c) ==
    /\ pc[c] = "login"
    /\ \/ AfterLogin(c, TRUE)
       \/ CanFail /\ tries[c] = LoginAttempts - 1 /\ AfterLogin(c, FALSE)
       \/ /\ CanFail /\ tries[c] < LoginAttempts - 1
          /\ Sleep(c, "login_sleep", Backoff * 2 ^ tries[c])
          /\ UNCHANGED <<running, client, limit, attempt, tries, reconnects,
                         age, sends>>

LoginAgain(c) ==
    /\ pc[c] = "login_sleep" /\ left[c] = 0
    /\ Goto(c, IF client THEN "login" ELSE "no_client")
    /\ tries' = [tries EXCEPT ![c] = @ + 1]
    /\ UNCHANGED <<running, client, limit, left, attempt, reconnects, age, sends>>

HeartbeatDue ==
    /\ pc["heartbeat"] = "hb_sleep" /\ left["heartbeat"] = 0
    /\ Goto("heartbeat", "hb_check")
    /\ UNCHANGED <<running, client, limit, left, attempt, tries, reconnects,
                   age, sends>>

\* _check_connection answered: sleep again, or reconnect.
HeartbeatAnswered ==
    /\ pc["heartbeat"] = "hb_check"
    /\ \/ /\ Sleep("heartbeat", "hb_sleep", Interval)
          /\ UNCHANGED <<tries, reconnects>>
       \/ /\ CanFail
          /\ Goto("heartbeat", "login")
          /\ tries' = [tries EXCEPT !["heartbeat"] = 0]
          /\ reconnects' = 0
          /\ UNCHANGED left
    /\ UNCHANGED <<running, client, limit, attempt, age, sends>>

ReconnectAgain ==
    /\ pc["heartbeat"] = "reconnect_sleep" /\ left["heartbeat"] = 0
    /\ Goto("heartbeat", "login")
    /\ tries' = [tries EXCEPT !["heartbeat"] = 0]
    /\ UNCHANGED <<running, client, limit, left, attempt, reconnects, age, sends>>

\* _resume_after_rate_limit wakes up.
ResumeAfterRateLimit ==
    /\ resume = 0
    /\ rate_limited' = FALSE
    /\ resume' = -1
    /\ UNCHANGED <<running, client, window, pc, left, attempt, tries, reconnects,
                   age, sends>>

\* stop: both tasks are cancelled and the HTTP client is closed.  The awaits
\* of stop only let the cancelled tasks end.  _rate_limited stays as it is.
Stop ==
    /\ CanStop /\ pc["main"] = "up"
    /\ running' = FALSE /\ client' = FALSE
    /\ resume' = -1
    /\ pc' = [pc EXCEPT !["main"] = "down", !["heartbeat"] = "down"]
    /\ UNCHANGED <<rate_limited, window, left, attempt, tries, reconnects, age, sends>>

Down(n) == IF n > 0 THEN n - 1 ELSE n

Tick ==
    /\ left' = [c \in Callers |-> Down(left[c])]
    /\ resume' = Down(resume)
    /\ window' = Down(window)
    /\ age' = [r \in Reqs |-> IF pc[r] \in Finished \cup {"idle"} \/ age[r] > LatencyLimit
                              THEN age[r] ELSE age[r] + 1]
    /\ UNCHANGED <<running, client, rate_limited, pc, attempt, tries, reconnects, sends>>

Progress(r) ==
    \/ WaitEnds(r) \/ Answered(r) \/ AnsweredLimited(r) \/ AnsweredExpired(r)
    \/ TransportError(r) \/ BackoffEnds(r) \/ Refreshed(r)

Next ==
    \/ \E r \in Reqs : Call(r) \/ Progress(r)
    \/ \E c \in Callers : LoginAnswered(c) \/ LoginAgain(c)
    \/ HeartbeatDue \/ HeartbeatAnswered \/ ReconnectAgain
    \/ ResumeAfterRateLimit \/ Stop \/ Tick

Spec == Init /\ [][Next]_vars

\* Time passes, IG answers or the 30 s timeout of httpx fires, and the event
\* loop runs every coroutine that is ready.
FairSpec ==
    /\ Spec
    /\ WF_vars(Tick) /\ WF_vars(ResumeAfterRateLimit)
    /\ \A r \in Reqs : WF_vars(Progress(r))
    /\ \A c \in Callers : WF_vars(LoginAnswered(c)) /\ WF_vars(LoginAgain(c))

-----------------------------------------------------------------------------
\* Whatever mix of 429s, expired sessions and transport errors it meets, a
\* request goes on the wire at most MaxAttempts times, so an opening order
\* whose answers are lost reaches IG no more often than that.
OneRetryBudget == \A r \in Reqs : sends[r] <= MaxAttempts

\* While the client is open a raised rate limit has a task that will lower it:
\* no order of 429s and expiries leaves every later request waiting for ever.
RateLimitIsLifted == rate_limited /\ client => resume # -1

\* Retries and waits both end: one budget of sends for every cause of a retry
\* together, and a task that lifts every rate limit.
RetriesAreBounded == OneRetryBudget /\ RateLimitIsLifted

\* Rule 7: an HFT request is never put on the wire, by any of the retry paths,
\* once it is older than the limit.
NoLateHftSend ==
    [][\A r \in Hft : sends'[r] # sends[r] => age[r] <= LatencyLimit]_vars

\* Every request returns or raises, unless the client is stopped meanwhile.
RequestsFinish ==
    \A r \in Reqs :
        pc[r] \notin Finished \cup {"idle"} ~> (pc[r] \in Finished \/ ~client)

\* A request ends, and its time of sending keeps to its age, whatever waits,
\* re-logins and retries it meets in _request.
RequestsAreTimely == NoLateHftSend /\ RequestsFinish

(* What comments and requirements say and the code does not do.            *)

\* ig_client.py:355, "After rate limit clears, retry".
RetryAfterLimitClears ==
    [][\A r \in Reqs : sends'[r] # sends[r] => ~rate_limited']_vars

\* Requirement 1.5: "resume execution after the rate limit window indicated by
\* the API response expires".
ResumesAfterWindow == ~rate_limited => window = 0

\* Requirement 1.6: at most QueueMax requests wait while rate-limited, the
\* others are rejected.
WaitersBounded == Cardinality({r \in Reqs : pc[r] = "waiting"}) <= QueueMax

\* Requirement 1.4: once reconnection is exhausted "no new orders are placed".
NoOrderAfterShutdown ==
    [][\A r \in Orders : sends'[r] # sends[r] => pc["heartbeat"] # "shutdown"]_vars
=============================================================================
