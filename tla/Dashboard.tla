------------------------------ MODULE Dashboard ------------------------------
(***************************************************************************)
(* The real-time feed of the dashboard: ConnectionManager and the          *)
(* websocket endpoint of api/websocket.py.                                 *)
(*                                                                         *)
(* One task broadcasts to the list of connections, in turn, suspended in   *)
(* each send; the endpoints add to and remove from that list meanwhile.    *)
(* The task is made by the first connection and cancelled by the last to   *)
(* go.                                                                     *)
(***************************************************************************)
EXTENDS Naturals, Sequences, FiniteSets, SequencesExt

CONSTANTS Sockets,       \* the websockets, each accepted at most once
          MaxBroadcasts  \* bound: broadcast tasks made

ASSUME DashboardAssumption == MaxBroadcasts \in Nat

VARIABLES connections,    \* _active_connections, in order
          broadcasting,   \* _running
          broadcast_task, \* _broadcast_task: the task it names, 0 for None
          tasks,          \* the broadcast tasks: where they are, to whom, of whom they know
          ends,           \* the endpoint of each socket
          broken,         \* sockets whose peer is gone
          skipped         \* observer: a client was there for a whole round and not sent to

dashboardVars == <<connections, broadcasting, broadcast_task, tasks, ends, broken, skipped>>

TaskIds == 1..MaxBroadcasts
NoTask == [at |-> "none", index |-> 0, to |-> "nobody", failed |-> {}, told |-> {}, begun |-> {},
           cancelled |-> FALSE]
Sleeping == [NoTask EXCEPT !.at = "sleep"]

DashboardTypeOK ==
  /\ ToSet(connections) \subseteq Sockets /\ IsInjective(connections)
  /\ {broadcasting, skipped} \subseteq BOOLEAN /\ broadcast_task \in 0..MaxBroadcasts
  /\ tasks \in [TaskIds -> [at : {"none", "sleep", "send", "ended"}, index : Nat,
                            to : Sockets \cup {"nobody"}, failed : SUBSET Sockets,
                            told : SUBSET Sockets, begun : SUBSET Sockets, cancelled : BOOLEAN]]
  /\ ends \in [Sockets -> {"new", "greeting", "receiving", "done"}]
  /\ broken \subseteq Sockets

DashboardInit ==
  /\ connections = <<>> /\ broadcasting = FALSE /\ broadcast_task = 0
  /\ tasks = [i \in TaskIds |-> NoTask]
  /\ ends = [s \in Sockets |-> "new"] /\ broken = {} /\ skipped = FALSE

Made == Cardinality({i \in TaskIds : tasks[i].at # "none"})

-----------------------------------------------------------------------------
\* connect: the socket is accepted and listed, and the broadcast started when there is none.
ConnectSocket(s) ==
  /\ ends[s] = "new"
  /\ ends' = [ends EXCEPT ![s] = "greeting"]
  /\ connections' = Append(connections, s)
  /\ IF ~broadcasting /\ broadcast_task = 0
     THEN /\ Made < MaxBroadcasts
          /\ broadcasting' = TRUE
          /\ broadcast_task' = Made + 1
          /\ tasks' = [tasks EXCEPT ![Made + 1] = Sleeping]
     ELSE UNCHANGED <<broadcasting, broadcast_task, tasks>>
  /\ UNCHANGED <<broken, skipped>>

\* Mutant: the task is cancelled and remembered, so that no connection makes another.
DisconnectAndRemember(gone, ts) ==
  LET left == SelectSeq(connections, LAMBDA s : s \notin gone)
      last == left = <<>> /\ broadcasting
  IN /\ connections' = left
     /\ broadcasting' = (broadcasting /\ ~last)
     /\ broadcast_task' = broadcast_task
     /\ tasks' = IF last THEN [ts EXCEPT ![broadcast_task].cancelled = TRUE] ELSE ts

\* disconnect of some sockets, beside a step that leaves the tasks as ts: the last one to go
\* cancels the broadcast.
Disconnect(gone, ts) ==
  LET left == SelectSeq(connections, LAMBDA s : s \notin gone)
      last == left = <<>> /\ broadcasting
  IN /\ connections' = left
     /\ broadcasting' = (broadcasting /\ ~last)
     /\ broadcast_task' = IF last THEN 0 ELSE broadcast_task
     /\ tasks' = IF last THEN [ts EXCEPT ![broadcast_task].cancelled = TRUE] ELSE ts

\* The endpoint sends the initial state; a send that fails disconnects, and the endpoint goes on
\* to receive all the same.
Greet(s) ==
  /\ ends[s] = "greeting"
  /\ ends' = [ends EXCEPT ![s] = "receiving"]
  /\ \/ s \in broken /\ Disconnect({s}, tasks)
     \/ UNCHANGED <<connections, broadcasting, broadcast_task, tasks>>
  /\ UNCHANGED <<broken, skipped>>

\* The answer to a ping or a subscription cannot be sent.
AnswerFails(s) ==
  /\ ends[s] = "receiving" /\ s \in broken
  /\ Disconnect({s}, tasks)
  /\ UNCHANGED <<ends, broken, skipped>>

\* receive_text raises: the endpoint disconnects and returns.
Leave(s) ==
  /\ ends[s] = "receiving" /\ s \in broken
  /\ ends' = [ends EXCEPT ![s] = "done"]
  /\ Disconnect({s}, tasks)
  /\ UNCHANGED <<broken, skipped>>

\* The peer goes away, whatever the server is doing.
PeerGoes(s) ==
  /\ ends[s] \in {"greeting", "receiving"} /\ s \notin broken
  /\ broken' = broken \cup {s}
  /\ UNCHANGED <<connections, broadcasting, broadcast_task, tasks, ends, skipped>>

-----------------------------------------------------------------------------
Resumes(i) == tasks[i].at \in {"sleep", "send"} /\ ~tasks[i].cancelled

\* A second has passed since the last broadcast: a round begins with the first of the list.
BeginRound(i) ==
  /\ Resumes(i) /\ tasks[i].at = "sleep"
  /\ broadcasting /\ connections # <<>>
  /\ tasks' = [tasks EXCEPT ![i] = [Sleeping EXCEPT !.at = "send", !.index = 1,
                                      !.to = connections[1], !.begun = ToSet(connections)]]
  /\ UNCHANGED <<connections, broadcasting, broadcast_task, ends, broken, skipped>>

\* A send ends, well or not: the round goes on at the next place of the list as it is now, and at
\* its end disconnects those it could not reach.
SendEnds(i) ==
  /\ Resumes(i) /\ tasks[i].at = "send"
  /\ LET t == tasks[i]
         next == t.index + 1
         told == t.told \cup {t.to}
     IN \E failed \in {t.failed} \cup (IF t.to \in broken THEN {t.failed \cup {t.to}} ELSE {}) :
          IF next <= Len(connections)
          THEN /\ tasks' = [tasks EXCEPT ![i] = [t EXCEPT !.index = next, !.to = connections[next],
                                                           !.failed = failed, !.told = told]]
               /\ UNCHANGED <<connections, broadcasting, broadcast_task, skipped>>
          ELSE /\ Disconnect(failed, [tasks EXCEPT ![i] = Sleeping])
               /\ skipped' = (skipped \/ \E s \in t.begun \ told : s \in ToSet(connections))
  /\ UNCHANGED <<ends, broken>>

\* The cancellation reaches the task in its sleep or in a send.
TaskCancelled(i) ==
  /\ tasks[i].at \in {"sleep", "send"} /\ tasks[i].cancelled
  /\ tasks' = [tasks EXCEPT ![i] = [NoTask EXCEPT !.at = "ended"]]
  /\ UNCHANGED <<connections, broadcasting, broadcast_task, ends, broken, skipped>>

Broadcast(i) == BeginRound(i) \/ SendEnds(i) \/ TaskCancelled(i)

DashboardNext ==
  \/ \E s \in Sockets : ConnectSocket(s) \/ Greet(s) \/ AnswerFails(s) \/ Leave(s) \/ PeerGoes(s)
  \/ \E i \in TaskIds : Broadcast(i)

\* The task's sleeps end and, as assumed of the transport, so do its sends; an endpoint notices
\* that its peer is gone.
DashboardFairness ==
  /\ \A i \in TaskIds : WF_dashboardVars(Broadcast(i))
  /\ \A s \in Sockets : WF_dashboardVars(Greet(s)) /\ WF_dashboardVars(Leave(s))

DashboardSpec == DashboardInit /\ [][DashboardNext]_dashboardVars /\ DashboardFairness

-----------------------------------------------------------------------------
Listens(s) == s \in ToSet(connections)
SentTo(s) == \E i \in TaskIds : Resumes(i) /\ tasks[i].at = "send" /\ tasks[i].to = s

\* Whatever connects, goes or is found gone in a round, and in whatever order, every listed
\* client is sent to again and again for as long as it is listed (connect, disconnect, broadcast).
ClientsAreServed == \A s \in Sockets : Listens(s) ~> (SentTo(s) \/ ~Listens(s))

\* One task broadcasts: those replaced are all cancelled (connect, disconnect).
OneBroadcast == Cardinality({i \in TaskIds : Resumes(i)}) <= 1

\* Not so in the code: a round reaches every client that is there throughout ("max 1-second
\* latency").  A client that leaves in front of another moves it to a place already passed.
NobodySkipped == ~skipped
=============================================================================
