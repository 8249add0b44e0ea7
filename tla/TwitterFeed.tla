----------------------------- MODULE TwitterFeed -----------------------------
(***************************************************************************)
(* The Twitter/X source (src/src/news/sources/social_media.py): the stream *)
(* listener with its back-off, and the synchronisation of the filter rules *)
(* with the API, by connect() and by subscribe().                          *)
(***************************************************************************)
EXTENDS Integers

CONSTANTS
    TwitterAttempts,    \* max_reconnect_attempts
    MaxRateLimited      \* bound: answers 429

ASSUME TwitterAssumption == TwitterAttempts \in Nat /\ MaxRateLimited \in Nat

VARIABLES
    token,          \* a bearer token is configured
    following,      \* _connected
    stream_task,    \* "none", "opening", "reading", "sleeping", "done"
    reconnects,     \* _reconnect_attempts
    rules_synced,   \* _rules_synced
    filter,         \* the rules the API holds: "none", "ours", "others"
    sync,           \* _sync_stream_rules: for whom, and before which request
    failures,       \* history: failed openings in a row, 429 not counted
    limited         \* answers 429 so far

twitterVars == <<token, following, stream_task, reconnects, rules_synced, filter, sync,
                 failures, limited>>

NoSync == [by |-> "nobody", at |-> "none"]

TwitterInit ==
    /\ token \in BOOLEAN
    /\ following = FALSE /\ stream_task = "none" /\ reconnects = 0
    /\ rules_synced = FALSE /\ filter \in {"none", "others"} /\ sync = NoSync
    /\ failures = 0 /\ limited = 0

-----------------------------------------------------------------------------
\* connect() without a token
ConnectPassive ==
    /\ ~token /\ ~following /\ sync = NoSync
    /\ following' = TRUE
    /\ UNCHANGED <<token, stream_task, reconnects, rules_synced, filter, sync, failures,
                   limited>>

\* connect() and subscribe() first synchronise the rules.
BeginSync(who) ==
    /\ token /\ sync = NoSync
    /\ IF who = "connect" THEN stream_task = "none"
                          ELSE following /\ rules_synced
    /\ sync' = [by |-> who, at |-> "get"]
    /\ UNCHANGED <<token, following, stream_task, reconnects, rules_synced, filter,
                   failures, limited>>

\* The rules the API holds are read.
GetRules ==
    /\ sync.at = "get"
    /\ sync' = [sync EXCEPT !.at = IF filter = "none" THEN "add" ELSE "delete"]
    /\ UNCHANGED <<token, following, stream_task, reconnects, rules_synced, filter,
                   failures, limited>>

\* They are deleted; a failure is only logged.
DeleteRules(works) ==
    /\ sync.at = "delete"
    /\ filter' = IF works THEN "none" ELSE filter
    /\ sync' = [sync EXCEPT !.at = "add"]
    /\ UNCHANGED <<token, following, stream_task, reconnects, rules_synced, failures,
                   limited>>

\* The new ones are added; connect() starts the listener.
AddRules ==
    /\ sync.at = "add"
    /\ filter' = "ours" /\ rules_synced' = TRUE
    /\ sync' = NoSync
    /\ IF sync.by = "connect"
       THEN stream_task' = "opening" /\ following' = TRUE /\ reconnects' = 0 /\ failures' = 0
       ELSE UNCHANGED <<stream_task, following, reconnects, failures>>
    /\ UNCHANGED <<token, limited>>

\* ConnectionError, raised to the caller
SyncFails ==
    /\ sync.at \in {"get", "add"}
    /\ sync' = NoSync
    /\ UNCHANGED <<token, following, stream_task, reconnects, rules_synced, filter,
                   failures, limited>>

\* disconnect(): the listener is cancelled. A synchronisation goes on, and starts
\* the listener of its connect() afterwards.
Disconnect ==
    /\ following \/ stream_task # "none" \/ sync # NoSync
    /\ stream_task' = "none" /\ following' = FALSE /\ rules_synced' = FALSE
    /\ UNCHANGED <<token, reconnects, filter, sync, failures, limited>>

-----------------------------------------------------------------------------
\* _stream_listener, one pass of its loop

\* _handle_reconnect: the attempt is counted, and slept for, or was the last.
HandleReconnect ==
    /\ reconnects' = reconnects + 1
    /\ IF reconnects + 1 > TwitterAttempts
       THEN following' = FALSE /\ stream_task' = "done"
       ELSE stream_task' = "sleeping" /\ UNCHANGED following

\* The stream answers 200.
Opened ==
    /\ stream_task = "opening"
    /\ stream_task' = "reading"
    /\ reconnects' = 0 /\ failures' = 0
    /\ UNCHANGED <<token, following, rules_synced, filter, sync, limited>>

\* Mutant: the attempts are forgotten before the status is looked at.
OpenFailsForgetful ==
    /\ stream_task = "opening"
    /\ failures' = failures + 1
    /\ reconnects' = 1
    /\ stream_task' = "sleeping"
    /\ UNCHANGED <<token, following, rules_synced, filter, sync, limited>>

\* An error status, or no answer
OpenFails ==
    /\ stream_task = "opening"
    /\ failures' = failures + 1
    /\ HandleReconnect
    /\ UNCHANGED <<token, rules_synced, filter, sync, limited>>

\* 401 ends the listener, 429 makes it wait without counting an attempt.
OpenUnauthorized ==
    /\ stream_task = "opening"
    /\ stream_task' = "done" /\ following' = FALSE
    /\ UNCHANGED <<token, reconnects, rules_synced, filter, sync, failures, limited>>

OpenRateLimited ==
    /\ stream_task = "opening" /\ limited < MaxRateLimited
    /\ limited' = limited + 1
    /\ stream_task' = "sleeping"
    /\ UNCHANGED <<token, following, reconnects, rules_synced, filter, sync, failures>>

\* The stream ends: at once the next pass, or with an error a reconnection.
StreamEnds ==
    /\ stream_task = "reading"
    /\ stream_task' = "opening"
    /\ UNCHANGED <<token, following, reconnects, rules_synced, filter, sync, failures,
                   limited>>

StreamBreaks ==
    /\ stream_task = "reading"
    /\ HandleReconnect
    /\ UNCHANGED <<token, rules_synced, filter, sync, failures, limited>>

\* An error of the parsing that is neither a ValueError nor a KeyError ends the
\* task; the source still counts as connected.
ListenerDies ==
    /\ stream_task = "reading"
    /\ stream_task' = "done"
    /\ UNCHANGED <<token, following, reconnects, rules_synced, filter, sync, failures,
                   limited>>

WakeUp ==
    /\ stream_task = "sleeping"
    /\ stream_task' = "opening"
    /\ UNCHANGED <<token, following, reconnects, rules_synced, filter, sync, failures,
                   limited>>

\* health_check(), with an API that answers
TwitterHealthy ==
    /\ following
    /\ token => stream_task \in {"opening", "reading", "sleeping"} /\ rules_synced

TwitterNext ==
    \/ ConnectPassive \/ \E who \in {"connect", "subscribe"} : BeginSync(who)
    \/ GetRules \/ \E works \in BOOLEAN : DeleteRules(works)
    \/ AddRules \/ SyncFails \/ Disconnect
    \/ Opened \/ OpenFails \/ OpenUnauthorized \/ OpenRateLimited
    \/ StreamEnds \/ StreamBreaks \/ ListenerDies \/ WakeUp

TwitterSpec == TwitterInit /\ [][TwitterNext]_twitterVars

-----------------------------------------------------------------------------
\* A feed that cannot be opened is given up: never more failures in a row than
\* max_reconnect_attempts and the last one, whatever interrupts the series.
GivesUp == failures <= TwitterAttempts + 1

\* Documented, and not so: a healthy feed is filtered by the source's rules. A
\* subscription that fails after deleting them leaves the stream without any.
HealthyIsFiltered == TwitterHealthy /\ token /\ sync = NoSync => filter = "ours"
=============================================================================
