----------------------------- MODULE KillSwitch -----------------------------
(***************************************************************************)
(* The emergency kill switch (src/src/risk/kill_switch.py).                *)
(*                                                                         *)
(* Every trigger (VIX, 24 h portfolio loss, drawdown, crisis persistence,  *)
(* the operator) runs in a coroutine of its own and goes through           *)
(* activate(), which holds an asyncio.Lock from the test of is_active up   *)
(* to the end of the awaited event publisher.  deactivate() does not take  *)
(* the lock.  asyncio.Lock serves its waiters in order, and a coroutine    *)
(* runs without interruption up to its next await: the body of activate()  *)
(* up to the publisher is one step, the publisher's answer another.        *)
(***************************************************************************)
EXTENDS Integers, Sequences, FiniteSets

CONSTANTS
    Tasks,          \* coroutines that may call the kill switch
    Readings,       \* Readings[src]: the readings trigger src may be given
    MinActive,      \* KILL_SWITCH_MIN_ACTIVE_MINUTES, in clock ticks
    HasPublisher,   \* an event_publisher was configured
    MaxTime,        \* bound: the clock stops here
    MaxTriggers     \* bound: activate() calls explored

None == "none"

Sources == {"vix", "portfolio_loss", "drawdown", "crisis", "manual"}

ASSUME KillSwitchAssumption ==
    /\ MinActive \in Nat
    /\ MaxTime \in Nat
    /\ MaxTriggers \in Nat
    /\ HasPublisher \in BOOLEAN
    /\ None \notin Tasks

VARIABLES
    now,                \* the wall clock
    state,              \* _state
    activation_time,    \* _activation_time; -1 is None
    activation_event,   \* _activation_event: a trigger record, or NoEvent
    trigger_sources,    \* _trigger_sources, the audit trail
    lock,               \* holder of _activation_lock, or None
    waiters,            \* coroutines suspended in _activation_lock.acquire()
    pending,            \* pending[t]: source of the trigger t waits to report
    outgoing,           \* outgoing[t]: trail index of the event t publishes, or 0
    published,          \* history: trail indices of the events delivered
    deactivations       \* history: successful deactivate() calls

vars == <<now, state, activation_time, activation_event, trigger_sources,
          lock, waiters, pending, outgoing, published, deactivations>>

Trigger == [source : Sources, timestamp : Nat, activated : BOOLEAN]

NoEvent == [source |-> "manual", timestamp |-> 0, activated |-> FALSE]

TypeOK ==
    /\ now \in 0..MaxTime
    /\ state \in {"inactive", "active"}
    /\ activation_time \in {-1} \cup 0..MaxTime
    /\ activation_event \in Trigger
    /\ trigger_sources \in Seq(Trigger)
    /\ lock \in Tasks \cup {None}
    /\ waiters \in Seq(Tasks)
    /\ pending \in [Tasks -> Sources \cup {None}]
    /\ outgoing \in [Tasks -> Nat]
    /\ published \in Seq(Nat)
    /\ deactivations \in Nat

Init ==
    /\ now = 0
    /\ state = "inactive"
    /\ activation_time = -1
    /\ activation_event = NoEvent
    /\ trigger_sources = << >>
    /\ lock = None
    /\ waiters = << >>
    /\ pending = [t \in Tasks |-> None]
    /\ outgoing = [t \in Tasks |-> 0]
    /\ published = << >>
    /\ deactivations = 0

is_active == state = "active"

\* can_deactivate: active for at least the minimum duration.
can_deactivate ==
    /\ is_active
    /\ activation_time # -1
    /\ now - activation_time >= MinActive

\* The thresholds of evaluate_vix, evaluate_portfolio_loss, evaluate_drawdown
\* and evaluate_crisis_persistence (percent and minutes); an operator's call
\* has no threshold.
Breaches(src, r) ==
    CASE src = "vix"            -> r.vix > r.mean + 3 * r.std
      [] src = "portfolio_loss" -> r > 20
      [] src = "drawdown"       -> r > 15
      [] src = "crisis"         -> r >= 30
      [] src = "manual"         -> TRUE

Record(src, activated) ==
    [source |-> src, timestamp |-> now, activated |-> activated]

\* A trigger that finds the switch active: recorded and otherwise ignored.
IgnoreTrigger(t, src) ==
    /\ trigger_sources' = Append(trigger_sources, Record(src, FALSE))
    /\ lock' = None
    /\ UNCHANGED <<state, activation_time, activation_event, outgoing>>

\* A trigger that finds the switch inactive: the lock is kept while the
\* publisher, if there is one, is awaited.
FirstTrigger(t, src) ==
    /\ trigger_sources' = Append(trigger_sources, Record(src, TRUE))
    /\ state' = "active"
    /\ activation_time' = now
    /\ activation_event' = Record(src, TRUE)
    /\ IF HasPublisher
         THEN /\ lock' = t
              /\ outgoing' = [outgoing EXCEPT ![t] = Len(trigger_sources) + 1]
         ELSE /\ lock' = None
              /\ UNCHANGED outgoing

\* Mutant: the test of is_active is dropped, every trigger activates.
ActivateAgain(t, src) == FirstTrigger(t, src)

\* Mutant: the lock is released before the publisher is awaited.
PublishOutsideLock(t, src) ==
    IF is_active
      THEN IgnoreTrigger(t, src)
      ELSE /\ trigger_sources' = Append(trigger_sources, Record(src, TRUE))
           /\ state' = "active"
           /\ activation_time' = now
           /\ activation_event' = Record(src, TRUE)
           /\ lock' = None
           /\ outgoing' = [outgoing EXCEPT ![t] = Len(trigger_sources) + 1]

\* Mutant: a trigger while active refreshes the recorded activation event.
RefreshEvent(t, src) ==
    IF is_active
      THEN /\ trigger_sources' = Append(trigger_sources, Record(src, FALSE))
           /\ activation_event' = Record(src, FALSE)
           /\ lock' = None
           /\ UNCHANGED <<state, activation_time, outgoing>>
      ELSE FirstTrigger(t, src)

\* activate() inside the lock, up to its await.
ActivateBody(t, src) ==
    IF is_active THEN IgnoreTrigger(t, src) ELSE FirstTrigger(t, src)

\* activate() called by t: the lock is taken at once when nobody holds it and
\* nobody waits for it, otherwise t queues for it.
Activate(t, src) ==
    /\ pending[t] = None /\ outgoing[t] = 0
    /\ Len(trigger_sources) + Len(waiters) < MaxTriggers
    /\ IF lock = None /\ waiters = << >>
         THEN /\ ActivateBody(t, src)
              /\ UNCHANGED <<waiters, pending>>
         ELSE /\ waiters' = Append(waiters, t)
              /\ pending' = [pending EXCEPT ![t] = src]
              /\ UNCHANGED <<state, activation_time, activation_event,
                             trigger_sources, lock, outgoing>>
    /\ UNCHANGED <<now, published, deactivations>>

\* evaluate_*() or activate_kill_switch() with a reading past the threshold.
Evaluate(t) ==
    \E src \in Sources : \E r \in Readings[src] :
        Breaches(src, r) /\ Activate(t, src)

\* Mutant: the served coroutine is left at the head of the waiters.
AcquireKeepsWaiter(t) ==
    /\ lock = None
    /\ waiters # << >>
    /\ t = Head(waiters)
    /\ pending' = [pending EXCEPT ![t] = None]
    /\ ActivateBody(t, pending[t])
    /\ UNCHANGED <<now, waiters, published, deactivations>>

\* The first waiter is handed the released lock and runs the body.
Acquire(t) ==
    /\ lock = None
    /\ waiters # << >>
    /\ t = Head(waiters)
    /\ waiters' = Tail(waiters)
    /\ pending' = [pending EXCEPT ![t] = None]
    /\ ActivateBody(t, pending[t])
    /\ UNCHANGED <<now, published, deactivations>>

\* Mutant: activate() forgets to release the lock when the publisher raises.
PublishKeepsLock(t) ==
    /\ outgoing[t] # 0
    /\ \/ published' = Append(published, outgoing[t]) /\ lock' = None
       \/ UNCHANGED <<published, lock>>
    /\ outgoing' = [outgoing EXCEPT ![t] = 0]
    /\ UNCHANGED <<now, state, activation_time, activation_event,
                   trigger_sources, waiters, pending, deactivations>>

\* The awaited publisher delivers the event, or raises and is logged; either
\* way activate() returns and releases the lock.
PublishReturns(t) ==
    /\ outgoing[t] # 0
    /\ \/ published' = Append(published, outgoing[t])
       \/ UNCHANGED published
    /\ lock' = None
    /\ outgoing' = [outgoing EXCEPT ![t] = 0]
    /\ UNCHANGED <<now, state, activation_time, activation_event,
                   trigger_sources, waiters, pending, deactivations>>

\* Mutant: the minimum active duration is not tested.
DeactivateEarly ==
    /\ is_active
    /\ state' = "inactive"
    /\ deactivations' = deactivations + 1
    /\ UNCHANGED <<now, activation_time, activation_event, trigger_sources,
                   lock, waiters, pending, outgoing, published>>

\* deactivate() with a non-blank token; its refusals change nothing.  It runs
\* without the lock and keeps the reason, time and event of the activation.
Deactivate ==
    /\ can_deactivate
    /\ state' = "inactive"
    /\ deactivations' = deactivations + 1
    /\ UNCHANGED <<now, activation_time, activation_event, trigger_sources,
                   lock, waiters, pending, outgoing, published>>

Tick ==
    /\ now < MaxTime
    /\ now' = now + 1
    /\ UNCHANGED <<state, activation_time, activation_event, trigger_sources,
                   lock, waiters, pending, outgoing, published, deactivations>>

Next ==
    \/ \E t \in Tasks : Evaluate(t) \/ Acquire(t) \/ PublishReturns(t)
    \/ Deactivate
    \/ Tick

Spec == Init /\ [][Next]_vars

\* The event loop keeps running its ready coroutines, and the publisher, the
\* callback given to the constructor, is assumed to return or raise.
Fairness == \A t \in Tasks : WF_vars(Acquire(t)) /\ WF_vars(PublishReturns(t))

FairSpec == Spec /\ Fairness

-----------------------------------------------------------------------------
\* Trail indices of the triggers that activated the switch.
ActivatedAt == {i \in DOMAIN trigger_sources : trigger_sources[i].activated}

\* Cross-Cutting Rule 3: however many triggers fire, one activation is
\* processed per episode.  Every activation in the audit trail but the current
\* one has been ended by a deactivation.
OneActivationPerEpisode ==
    Cardinality(ActivatedAt) = deactivations + (IF is_active THEN 1 ELSE 0)

\* activation_time and activation_event always describe the last trigger of
\* the audit trail that activated, also after a deactivation; triggers ignored
\* while active never overwrite them.
EventIsLastActivation ==
    \A i \in ActivatedAt :
        (\A j \in ActivatedAt : j <= i) =>
            /\ activation_event = trigger_sources[i]
            /\ activation_time = trigger_sources[i].timestamp

\* The event publisher is awaited inside the lock, so subscribers get the
\* activations in the order in which they happened, none of them twice, even
\* when the switch is deactivated and triggered again during a slow publish.
PublishedInOrder ==
    /\ \A k \in DOMAIN published : published[k] \in ActivatedAt
    /\ \A k, m \in DOMAIN published : k < m => published[k] < published[m]

\* The audit trail, the activation event and the messages tell one story: one
\* activation per episode, the event is that of the last, and subscribers hear
\* of them in order, however the triggers race around the lock of activate().
TrailAgrees == OneActivationPerEpisode /\ EventIsLastActivation /\ PublishedInOrder

\* A step that ends an activation comes no sooner than MinActive after every
\* trigger which the audit trail says activated the switch.
MinActiveHeld ==
    [][is_active /\ ~is_active' =>
         \A i \in ActivatedAt :
             now - trigger_sources[i].timestamp >= MinActive]_vars

\* A trigger that waits for the lock is neither lost nor starved: its
\* activate() call gets the lock and writes the audit trail.
TriggersAreRecorded ==
    \A t \in Tasks : (pending[t] # None) ~> (pending[t] = None)
=============================================================================
