----------------------------- MODULE MarketStream -----------------------------
(***************************************************************************)
(* The Lightstreamer client (src/src/trading/ig_stream.py): a listener that*)
(* opens a session, subscribes the instruments on it and reads their ticks,*)
(* and subscribe()/unsubscribe() calls that talk to the same session.      *)
(*                                                                         *)
(* A session is a number, 0 for none; the subscriptions of a session nobody*)
(* can read any more are forgotten.                                        *)
(***************************************************************************)
EXTENDS Integers, FiniteSets, Functions

CONSTANTS
    Epics, Clients,     \* instruments; concurrent callers
    SubscribeAttempts,  \* SUBSCRIPTION_RETRY_MAX_ATTEMPTS
    MaxTables,          \* bound: table keys given out
    MaxSessions         \* bound: sessions opened

ASSUME StreamAssumption ==
    {SubscribeAttempts, MaxTables, MaxSessions} \subseteq Nat \ {0}

VARIABLES
    streaming,      \* _running
    linked_up,      \* _connected
    session_id,     \* _session_id
    live,           \* the session whose connection the listener reads, or 0
    sessions,       \* how many sessions were opened
    subs,           \* _subscriptions: epic -> NoSub or [table, status]
    tables,         \* _table_to_epic
    next_table,     \* _next_table_key
    reader,         \* where the listener task is
    pending,        \* the subscriptions the listener still has to send
    served,         \* <<session, table, epic>> at the server
    call            \* what each client awaits

streamVars == <<streaming, linked_up, session_id, live, sessions, subs, tables,
                next_table, reader, pending, served, call>>
books == <<subs, tables, next_table>>
link == <<streaming, linked_up, session_id, live, sessions, reader, pending>>

NoSub == [table |-> 0, status |-> "unsubscribed"]
NoTables == [t \in {} |-> "none"]
NoCall == [op |-> "none"]
Starting == [op |-> "start"]

StreamInit ==
    /\ streaming = FALSE /\ linked_up = FALSE /\ session_id = 0 /\ live = 0 /\ sessions = 0
    /\ subs = [e \in Epics |-> NoSub] /\ tables = NoTables /\ next_table = 1
    /\ reader = "none" /\ pending = {} /\ served = {}
    /\ call = [c \in Clients |-> NoCall]

-----------------------------------------------------------------------------
\* What the server does with an `add` or `delete` for a session: a table key it
\* already knows is replaced.
Added(session, table, e) ==
    IF session \in {live, session_id}
    THEN {s \in served : s[1] # session \/ s[2] # table} \cup {<<session, table, e>>}
    ELSE served
Deleted(session, table) == {s \in served : s[1] # session \/ s[2] # table}

Reachable(current, reading) == {s \in served : s[1] \in {current, reading}}

-----------------------------------------------------------------------------
\* start(), to its request for a session. It is not called again before it returned.
StartStream(c) ==
    /\ call[c] = NoCall /\ ~streaming /\ \A d \in Clients : call[d] # Starting
    /\ streaming' = TRUE
    /\ call' = [call EXCEPT ![c] = Starting]
    /\ UNCHANGED <<books, linked_up, session_id, live, sessions, reader, pending, served>>

\* _connect() opens a session it does not read, then the tasks are created; after a
\* stop() meanwhile they end at once. A failure leaves _running set.
Started(c, ok) ==
    /\ call[c] = Starting
    /\ call' = [call EXCEPT ![c] = NoCall]
    /\ IF ok
       THEN /\ sessions < MaxSessions
            /\ sessions' = sessions + 1 /\ session_id' = sessions + 1
            /\ linked_up' = TRUE /\ reader' = IF streaming THEN "opening" ELSE "none"
            /\ served' = Reachable(session_id', live)
       ELSE UNCHANGED <<linked_up, session_id, sessions, reader, served>>
    /\ UNCHANGED <<books, streaming, live, pending>>

\* stop(): cancels both tasks and forgets the subscriptions.
StopStream(c) ==
    /\ call[c] = NoCall /\ streaming
    /\ streaming' = FALSE /\ linked_up' = FALSE /\ live' = 0 /\ reader' = "none"
    /\ pending' = {} /\ subs' = [e \in Epics |-> NoSub] /\ tables' = NoTables
    /\ served' = Reachable(session_id, 0)
    /\ UNCHANGED <<session_id, sessions, next_table, call>>

-----------------------------------------------------------------------------
\* Mutant: the key is the number of tables in use plus one.
NextKeyByCount == Cardinality(DOMAIN tables) + 1

\* _next_table_key
NextKey == next_table

\* subscribe(), to its first request
Subscribe(c, e) ==
    /\ call[c] = NoCall /\ next_table <= MaxTables
    /\ subs[e].status \notin {"active", "subscribing"}
    /\ LET key == NextKey IN
        /\ subs' = [subs EXCEPT ![e] = [table |-> key, status |-> "subscribing"]]
        /\ tables' = [t \in DOMAIN tables \cup {key} |-> IF t = key THEN e ELSE tables[t]]
        /\ call' = [call EXCEPT ![c] = [op |-> "subscribe", epic |-> e, table |-> key,
                                        session |-> session_id, tries |-> 1]]
    /\ next_table' = next_table + 1
    /\ UNCHANGED <<link, served>>

\* A request is answered OK. A KeyError on the state it should mark is one more
\* failed attempt.
SubscribeSent(c) ==
    /\ call[c].op = "subscribe" /\ call[c].session # 0
    /\ subs[call[c].epic] # NoSub
    /\ served' = Added(call[c].session, call[c].table, call[c].epic)
    /\ subs' = [subs EXCEPT ![call[c].epic].status = "active"]
    /\ call' = [call EXCEPT ![c] = NoCall]
    /\ UNCHANGED <<link, tables, next_table>>

\* It fails, with or without its effect at the server; the last one marks the
\* subscription.
SubscribeFails(c, applied) ==
    LET e == call[c].epic IN
    /\ call[c].op = "subscribe"
    /\ applied => call[c].session # 0
    /\ served' = IF applied THEN Added(call[c].session, call[c].table, e) ELSE served
    /\ IF call[c].tries < SubscribeAttempts
       THEN /\ call' = [call EXCEPT ![c].tries = @ + 1, ![c].session = session_id]
            /\ UNCHANGED subs
       ELSE /\ call' = [call EXCEPT ![c] = NoCall]
            /\ subs' = [subs EXCEPT ![e].status = IF subs[e] = NoSub THEN @ ELSE "error"]
    /\ UNCHANGED <<link, tables, next_table>>

Unsubscribe(c, e) ==
    /\ call[c] = NoCall /\ subs[e] # NoSub
    /\ call' = [call EXCEPT ![c] = [op |-> "unsubscribe", epic |-> e, session |-> session_id,
                                    table |-> subs[e].table]]
    /\ UNCHANGED <<link, books, served>>

\* The answer of the delete request, or its failure: the entry of the epic goes
\* either way, unless it went already (KeyError).
Unsubscribed(c, applied) ==
    LET u == call[c] IN
    /\ u.op = "unsubscribe"
    /\ applied => u.session # 0
    /\ served' = IF applied THEN Deleted(u.session, u.table) ELSE served
    /\ IF subs[u.epic] = NoSub
       THEN UNCHANGED <<subs, tables>>
       ELSE /\ subs' = [subs EXCEPT ![u.epic] = NoSub]
            /\ tables' = Restrict(tables, DOMAIN tables \ {u.table})
    /\ call' = [call EXCEPT ![c] = NoCall]
    /\ UNCHANGED <<link, next_table>>

-----------------------------------------------------------------------------
\* _connect_and_stream(): the handshake is read, the session replaces the last one
\* and every subscription is to be sent on it.
OpenSession ==
    /\ reader = "opening" /\ streaming /\ sessions < MaxSessions
    /\ sessions' = sessions + 1 /\ session_id' = sessions + 1 /\ live' = sessions + 1
    /\ linked_up' = TRUE
    /\ pending' = {<<e, subs[e].table>> : e \in {x \in Epics : subs[x] # NoSub}}
    /\ reader' = IF pending' = {} THEN "reading" ELSE "subscribing"
    /\ served' = {}
    /\ UNCHANGED <<streaming, books, call>>

\* ... one at a time; the state object may no longer be the one in the books, and a
\* refusal is only printed.
Resubscribe(p, ok, applied) ==
    /\ reader = "subscribing" /\ p \in pending
    /\ ok => applied
    /\ served' = IF applied THEN Added(session_id, p[2], p[1]) ELSE served
    /\ subs' = [subs EXCEPT ![p[1]].status = IF ok /\ subs[p[1]].table = p[2]
                                             THEN "active" ELSE @]
    /\ pending' = pending \ {p}
    /\ reader' = IF pending' = {} THEN "reading" ELSE reader
    /\ UNCHANGED <<streaming, linked_up, session_id, live, sessions, tables, next_table, call>>

\* The connection is refused, or breaks, or says ERROR or END: an exception, which
\* leaves is_connected as it is, then five seconds of sleep.
ListenFails ==
    /\ reader \in {"opening", "subscribing", "reading"}
    /\ reader' = IF streaming THEN "sleep" ELSE "none"
    /\ live' = 0 /\ pending' = {} /\ served' = Reachable(session_id, 0)
    /\ UNCHANGED <<streaming, linked_up, session_id, sessions, books, call>>

\* LOOP, or the response ends: at once again
ListenEnds(loop) ==
    /\ reader = "reading"
    /\ reader' = IF streaming THEN "opening" ELSE "none"
    /\ linked_up' = (loop /\ linked_up)
    /\ live' = 0 /\ served' = Reachable(session_id, 0)
    /\ UNCHANGED <<streaming, session_id, sessions, books, pending, call>>

ListenAgain ==
    /\ reader = "sleep" /\ reader' = "opening"
    /\ UNCHANGED <<streaming, linked_up, session_id, live, sessions, books, pending, served, call>>

\* _handle_update_line, _on_tick: the table key of a line gives the epic.
Tick(s) ==
    /\ reader = "reading" /\ s \in served /\ s[1] = live /\ s[2] \in DOMAIN tables
    /\ LET e == tables[s[2]] IN
        /\ subs[e].status = "stale"
        /\ subs' = [subs EXCEPT ![e].status = "active"]
    /\ UNCHANGED <<link, tables, next_table, served, call>>

\* _staleness_monitor: no tick for TICK_STALENESS_SECONDS
GoesStale(e) ==
    /\ streaming /\ reader # "none" /\ subs[e].status = "active"
    /\ subs' = [subs EXCEPT ![e].status = "stale"]
    /\ UNCHANGED <<link, tables, next_table, served, call>>

StreamNext ==
    \/ \E c \in Clients :
          \/ \E ok \in BOOLEAN : Started(c, ok)
          \/ StartStream(c) \/ StopStream(c) \/ SubscribeSent(c)
          \/ \E e \in Epics : Subscribe(c, e) \/ Unsubscribe(c, e)
          \/ \E applied \in BOOLEAN : SubscribeFails(c, applied) \/ Unsubscribed(c, applied)
    \/ OpenSession \/ ListenFails \/ ListenAgain
    \/ \E p \in pending, ok, applied \in BOOLEAN : Resubscribe(p, ok, applied)
    \/ \E loop \in BOOLEAN : ListenEnds(loop)
    \/ \E s \in served : Tick(s)
    \/ \E e \in Epics : GoesStale(e)

StreamSpec == StreamInit /\ [][StreamNext]_streamVars

-----------------------------------------------------------------------------
\* A tick is never given to another instrument: a table key the listener may still
\* hear on its session is not given out again, whatever subscriptions, failures
\* and sessions come between.
TicksReachTheirInstrument ==
    \A s \in served : s[1] = live /\ s[2] \in DOMAIN tables => tables[s[2]] = s[3]

\* Documented, and not so: what is unsubscribed is no longer heard. A subscription
\* replaced while an unsubscription waits loses its entry and keeps its table.
UnsubscribedIsSilent ==
    \A s \in served : s[1] = live /\ s[2] \in DOMAIN tables =>
        \/ subs[s[3]] # NoSub
        \/ \E c \in Clients : call[c].op = "subscribe"

\* Documented, and not so: a running stream has a listener. start() that failed
\* cannot be tried again, and is_connected survives a broken connection.
RunningIsListening == streaming => reader # "none"
ConnectedIsOpen == linked_up /\ reader = "sleep" => live # 0
=============================================================================
