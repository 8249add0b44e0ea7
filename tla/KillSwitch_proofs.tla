-------------------------- MODULE KillSwitch_proofs --------------------------
(***************************************************************************)
(* Theorems about the kill switch, for every set of coroutines, every      *)
(* minimum duration and every set of readings.                             *)
(***************************************************************************)
EXTENDS KillSwitch, FiniteSetTheorems, TLAPS

\* Every coroutine suspended in acquire() has the source of its trigger.
WaitersPending ==
    \A k \in DOMAIN waiters : pending[waiters[k]] \in Sources

\* No coroutine waits for the lock twice.
WaitersDistinct ==
    \A k, m \in DOMAIN waiters : waiters[k] = waiters[m] => k = m

TypeInv == TypeOK /\ WaitersPending /\ WaitersDistinct

\* activate() keeps the types of what it writes.
LEMMA ActivateBodyTypes ==
    ASSUME TypeOK, NEW t \in Tasks, NEW src \in Sources, ActivateBody(t, src)
    PROVE  /\ state' \in {"inactive", "active"}
           /\ activation_time' \in {-1} \cup 0..MaxTime
           /\ activation_event' \in Trigger
           /\ trigger_sources' \in Seq(Trigger)
           /\ lock' \in Tasks \cup {None}
           /\ outgoing' \in [Tasks -> Nat]
<1> USE KillSwitchAssumption DEF TypeOK
<1>1. Record(src, TRUE) \in Trigger /\ Record(src, FALSE) \in Trigger
  BY DEF Record, Trigger
<1>2. Len(trigger_sources) + 1 \in Nat
  OBVIOUS
<1>3. \A r \in Trigger : Append(trigger_sources, r) \in Seq(Trigger)
  OBVIOUS
<1>4. now \in 0..MaxTime /\ lock \in Tasks \cup {None}
  OBVIOUS
<1>5. CASE is_active
  <2>1. IgnoreTrigger(t, src)
    BY <1>5 DEF ActivateBody
  <2>2. trigger_sources' \in Seq(Trigger)
    BY <1>1, <1>3, <2>1 DEF IgnoreTrigger
  <2> QED
    BY <2>1, <2>2 DEF IgnoreTrigger
<1>6. CASE ~is_active
  <2>1. FirstTrigger(t, src)
    BY <1>6 DEF ActivateBody
  <2>2. trigger_sources' \in Seq(Trigger)
    BY <1>1, <1>3, <2>1 DEF FirstTrigger
  <2>3. outgoing' \in [Tasks -> Nat] /\ lock' \in Tasks \cup {None}
    BY <1>2, <2>1 DEF FirstTrigger
  <2> QED
    BY <1>1, <1>4, <2>1, <2>2, <2>3 DEF FirstTrigger
<1> QED
  BY <1>5, <1>6

\* The coroutine that starts to wait waits nowhere yet, and the one that is
\* served leaves the queue: the waiters stay distinct and keep their sources.
LEMMA QueueStep ==
    ASSUME TypeInv, NEW t \in Tasks, Evaluate(t) \/ Acquire(t)
    PROVE  /\ waiters' \in Seq(Tasks)
           /\ pending' \in [Tasks -> Sources \cup {None}]
           /\ WaitersPending' /\ WaitersDistinct'
<1> USE KillSwitchAssumption DEF TypeInv, TypeOK
<1>1. CASE Evaluate(t)
  <2>1. PICK src \in Sources :
          \/ UNCHANGED <<waiters, pending>>
          \/ /\ waiters' = Append(waiters, t)
             /\ pending' = [pending EXCEPT ![t] = src]
    BY <1>1 DEF Evaluate, Activate
  <2>2. pending[t] = None
    BY <1>1 DEF Evaluate, Activate
  <2>3. None \notin Sources
    BY DEF None, Sources
  <2>4. CASE UNCHANGED <<waiters, pending>>
    BY <2>4 DEF WaitersPending, WaitersDistinct
  <2>5. CASE /\ waiters' = Append(waiters, t)
             /\ pending' = [pending EXCEPT ![t] = src]
    <3>1. \A k \in DOMAIN waiters : waiters[k] # t
      BY <2>2, <2>3 DEF WaitersPending
    <3>2. /\ waiters' \in Seq(Tasks)
          /\ DOMAIN waiters' = 1..(Len(waiters) + 1)
          /\ \A k \in DOMAIN waiters : waiters'[k] = waiters[k]
          /\ waiters'[Len(waiters) + 1] = t
      BY <2>5
    <3>3. pending' \in [Tasks -> Sources \cup {None}]
      BY <2>5
    <3>4. WaitersDistinct'
      <4> SUFFICES ASSUME NEW k \in DOMAIN waiters', NEW m \in DOMAIN waiters',
                          waiters'[k] = waiters'[m]
                   PROVE  k = m
        BY DEF WaitersDistinct
      <4>1. /\ k \in DOMAIN waiters \/ k = Len(waiters) + 1
            /\ m \in DOMAIN waiters \/ m = Len(waiters) + 1
        BY <3>2
      <4> QED
        BY <3>1, <3>2, <4>1 DEF WaitersDistinct
    <3>5. WaitersPending'
      <4> SUFFICES ASSUME NEW k \in DOMAIN waiters'
                   PROVE  pending'[waiters'[k]] \in Sources
        BY DEF WaitersPending
      <4>1. CASE k \in DOMAIN waiters
        BY <2>5, <3>1, <3>2, <4>1 DEF WaitersPending
      <4>2. CASE k = Len(waiters) + 1
        BY <2>5, <3>2, <4>2
      <4> QED
        BY <3>2, <4>1, <4>2
    <3> QED
      BY <3>2, <3>3, <3>4, <3>5
  <2> QED
    BY <2>1, <2>4, <2>5
<1>2. CASE Acquire(t)
  <2>1. /\ waiters # << >> /\ t = waiters[1]
        /\ waiters' = Tail(waiters)
        /\ pending' = [pending EXCEPT ![t] = None]
    BY <1>2 DEF Acquire
  <2>2. /\ waiters' \in Seq(Tasks)
        /\ \A k \in DOMAIN waiters' : /\ k + 1 \in DOMAIN waiters
                                      /\ waiters'[k] = waiters[k + 1]
    BY <2>1
  <2>3. pending' \in [Tasks -> Sources \cup {None}]
    BY <2>1
  <2>4. WaitersDistinct'
    <3> SUFFICES ASSUME NEW k \in DOMAIN waiters', NEW m \in DOMAIN waiters',
                        waiters'[k] = waiters'[m]
                 PROVE  k = m
      BY DEF WaitersDistinct
    <3>1. k + 1 = m + 1
      BY <2>2 DEF WaitersDistinct
    <3>2. k \in Nat /\ m \in Nat
      BY SMTT(60), <2>2
    <3> QED
      BY <3>1, <3>2
  <2>5. WaitersPending'
    <3> SUFFICES ASSUME NEW k \in DOMAIN waiters'
                 PROVE  pending'[waiters'[k]] \in Sources
      BY DEF WaitersPending
    <3>1. k \in Nat /\ k # 0 /\ 1 \in DOMAIN waiters
      BY <2>1, <2>2
    <3>2. waiters'[k] # t
      BY <2>1, <2>2, <3>1 DEF WaitersDistinct
    <3> QED
      BY <2>1, <2>2, <3>2 DEF WaitersPending
  <2> QED
    BY <2>2, <2>3, <2>4, <2>5
<1> QED
  BY <1>1, <1>2

\* A new KillSwitch object is well typed and nobody waits for its lock.
LEMMA InitTypes == Init => TypeInv
<1> SUFFICES ASSUME Init PROVE TypeInv
  OBVIOUS
<1> USE KillSwitchAssumption DEF Init
<1>1. NoEvent \in Trigger
  BY DEF NoEvent, Trigger, Sources
<1>2. TypeOK
  BY <1>1 DEF TypeOK
<1>3. waiters = << >>
  OBVIOUS
<1> QED
  BY <1>2, <1>3 DEF TypeInv, WaitersPending, WaitersDistinct

\* Every step of a coroutine, the operator or the clock keeps TypeInv.
LEMMA NextTypes == TypeInv /\ [Next]_vars => TypeInv'
<1> SUFFICES ASSUME TypeInv, [Next]_vars PROVE TypeInv'
  OBVIOUS
<1> USE KillSwitchAssumption DEF TypeInv
<1>1. ASSUME NEW t \in Tasks, Evaluate(t) PROVE TypeInv'
  <2>1. PICK src \in Sources :
          \/ ActivateBody(t, src)
          \/ UNCHANGED <<state, activation_time, activation_event,
                         trigger_sources, lock, outgoing>>
    BY <1>1 DEF Evaluate, Activate
  <2>2. UNCHANGED <<now, published, deactivations>>
    BY <1>1 DEF Evaluate, Activate
  <2>3. CASE ActivateBody(t, src)
    BY <1>1, <2>2, <2>3, QueueStep, ActivateBodyTypes DEF TypeOK
  <2>4. CASE UNCHANGED <<state, activation_time, activation_event,
                         trigger_sources, lock, outgoing>>
    BY <1>1, <2>2, <2>4, QueueStep DEF TypeOK
  <2> QED
    BY <2>1, <2>3, <2>4
<1>2. ASSUME NEW t \in Tasks, Acquire(t) PROVE TypeInv'
  <2>1. pending[t] \in Sources /\ ActivateBody(t, pending[t])
    BY <1>2 DEF Acquire, TypeOK, WaitersPending
  <2>2. UNCHANGED <<now, published, deactivations>>
    BY <1>2 DEF Acquire
  <2> QED
    BY <1>2, <2>1, <2>2, QueueStep, ActivateBodyTypes DEF TypeOK
<1>3. ASSUME NEW t \in Tasks, PublishReturns(t) PROVE TypeInv'
  <2>a. published' = published \/ published' = Append(published, outgoing[t])
    BY <1>3 DEF PublishReturns
  <2>b. published \in Seq(Nat) /\ outgoing[t] \in Nat
    BY DEF TypeOK
  <2>c. published' \in Seq(Nat)
    BY <2>a, <2>b
  <2>d. outgoing' \in [Tasks -> Nat] /\ lock' \in Tasks \cup {None}
    BY <1>3 DEF PublishReturns, TypeOK
  <2>1. TypeOK'
    BY <1>3, <2>c, <2>d DEF PublishReturns, TypeOK
  <2>2. UNCHANGED <<waiters, pending>>
    BY <1>3 DEF PublishReturns
  <2> QED
    BY <2>1, <2>2 DEF WaitersPending, WaitersDistinct
<1>4. CASE Deactivate
  BY <1>4 DEF Deactivate, TypeOK, WaitersPending, WaitersDistinct
<1>5. CASE Tick
  BY <1>5 DEF Tick, TypeOK, WaitersPending, WaitersDistinct
<1>6. CASE UNCHANGED vars
  BY <1>6 DEF vars, TypeOK, WaitersPending, WaitersDistinct
<1> QED
  BY <1>1, <1>2, <1>3, <1>4, <1>5, <1>6 DEF Next

\* Hence TypeInv holds in every reachable state.
LEMMA TypeInvHolds == Spec => []TypeInv
<1> QED
  BY InitTypes, NextTypes, PTL DEF Spec

\* Type correctness: whatever the coroutines do, activate() and deactivate()
\* keep every field of the kill switch in its type; in particular a coroutine
\* that is handed the lock always finds the source of its own trigger.
THEOREM TypeCorrect == Spec => []TypeOK
<1>1. TypeInv => TypeOK
  BY DEF TypeInv
<1> QED
  BY TypeInvHolds, <1>1, PTL

-----------------------------------------------------------------------------
(* What one step does to the audit trail.                                  *)

\* The switch is activated by a coroutine that owns the lock.
Activates ==
    /\ ~is_active /\ lock = None
    /\ \E t \in Tasks, src \in Sources : FirstTrigger(t, src)
    /\ UNCHANGED <<now, published, deactivations>>

\* A trigger is recorded and ignored.
Ignores ==
    /\ is_active /\ lock = None
    /\ \E t \in Tasks, src \in Sources : IgnoreTrigger(t, src)
    /\ UNCHANGED <<now, published, deactivations>>

\* Nothing but the clock and the queue of waiters moves.
Waits ==
    /\ now' >= now
    /\ UNCHANGED <<state, activation_time, activation_event, trigger_sources,
                   lock, outgoing, published, deactivations>>

\* Every step activates the switch, ignores a trigger, ends a publication,
\* deactivates, or leaves all of them alone; activate() needs a free lock.
LEMMA StepKinds ==
    ASSUME TypeInv, [Next]_vars
    PROVE  \/ Activates \/ Ignores \/ Waits \/ Deactivate
           \/ \E t \in Tasks : PublishReturns(t)
<1> USE DEF TypeInv, TypeOK
<1>1. ASSUME NEW t \in Tasks, Evaluate(t) PROVE Activates \/ Ignores \/ Waits
  <2>1. PICK src \in Sources :
          \/ lock = None /\ ActivateBody(t, src)
          \/ UNCHANGED <<state, activation_time, activation_event,
                         trigger_sources, lock, outgoing>>
    BY <1>1 DEF Evaluate, Activate
  <2>2. UNCHANGED <<now, published, deactivations>>
    BY <1>1 DEF Evaluate, Activate
  <2>3. CASE lock = None /\ ActivateBody(t, src)
    BY <2>2, <2>3 DEF ActivateBody, Activates, Ignores
  <2>4. CASE UNCHANGED <<state, activation_time, activation_event,
                         trigger_sources, lock, outgoing>>
    BY <2>2, <2>4 DEF Waits
  <2> QED
    BY <2>1, <2>3, <2>4
<1>2. ASSUME NEW t \in Tasks, Acquire(t) PROVE Activates \/ Ignores
  <2>1. pending[t] \in Sources /\ ActivateBody(t, pending[t]) /\ lock = None
    BY <1>2 DEF Acquire, WaitersPending
  <2>2. UNCHANGED <<now, published, deactivations>>
    BY <1>2 DEF Acquire
  <2> QED
    BY <2>1, <2>2 DEF ActivateBody, Activates, Ignores
<1>3. CASE Tick
  BY <1>3 DEF Tick, Waits
<1>4. CASE UNCHANGED vars
  BY <1>4 DEF vars, Waits
<1> QED
  BY <1>1, <1>2, <1>3, <1>4 DEF Next

\* Appending a record to the audit trail.
LEMMA AppendTrail ==
    ASSUME TypeOK, NEW r \in Trigger,
           trigger_sources' = Append(trigger_sources, r)
    PROVE  /\ ActivatedAt' = ActivatedAt \cup
                (IF r.activated THEN {Len(trigger_sources) + 1} ELSE {})
           /\ \A i \in ActivatedAt : trigger_sources'[i] = trigger_sources[i]
           /\ trigger_sources'[Len(trigger_sources) + 1] = r
           /\ ActivatedAt \subseteq 1..Len(trigger_sources)
           /\ Len(trigger_sources) \in Nat
<1>1. trigger_sources \in Seq(Trigger) /\ Len(trigger_sources) \in Nat
  BY DEF TypeOK
<1>2. /\ DOMAIN trigger_sources = 1..Len(trigger_sources)
      /\ DOMAIN trigger_sources' = 1..(Len(trigger_sources) + 1)
      /\ \A i \in 1..Len(trigger_sources) :
            trigger_sources'[i] = trigger_sources[i]
      /\ trigger_sources'[Len(trigger_sources) + 1] = r
  BY <1>1
<1>3. ActivatedAt' = ActivatedAt \cup
        (IF r.activated THEN {Len(trigger_sources) + 1} ELSE {})
  BY <1>1, <1>2 DEF ActivatedAt
<1> QED
  BY <1>1, <1>2, <1>3 DEF ActivatedAt

-----------------------------------------------------------------------------
(* activation_time bounds every activation of the trail.                   *)

TimeInv ==
    /\ activation_time <= now
    /\ \A i \in ActivatedAt : trigger_sources[i].timestamp <= activation_time

\* The times that deactivate() and the audit trail compare are numbers.
LEMMA TimeTypes ==
    ASSUME TypeInv
    PROVE  /\ TypeOK
           /\ now \in Int /\ activation_time \in Int
           /\ \A i \in ActivatedAt : trigger_sources[i].timestamp \in Int
<1>1. TypeOK
  BY DEF TypeInv
<1>2. now \in Int /\ activation_time \in Int
  BY <1>1, KillSwitchAssumption DEF TypeOK
<1>3. \A i \in ActivatedAt : trigger_sources[i] \in Trigger
  BY <1>1 DEF TypeOK, ActivatedAt
<1>4. \A r \in Trigger : r.timestamp \in Int
  BY DEF Trigger
<1> QED
  BY <1>1, <1>2, <1>3, <1>4

\* No step of activate() or deactivate() lets an activation of the trail be
\* younger than activation_time.
LEMMA TimeStep == TypeInv /\ TimeInv /\ [Next]_vars => TimeInv'
<1> SUFFICES ASSUME TypeInv, TimeInv, [Next]_vars PROVE TimeInv'
  OBVIOUS
<1>0. /\ TypeOK
      /\ now \in Int /\ activation_time \in Int
      /\ \A i \in ActivatedAt : trigger_sources[i].timestamp \in Int
  BY TimeTypes
<1>1. CASE Activates
  <2>1. PICK t \in Tasks, src \in Sources : FirstTrigger(t, src)
    BY <1>1 DEF Activates
  <2>2. Record(src, TRUE) \in Trigger
    BY <1>0, KillSwitchAssumption DEF TypeOK, Record, Trigger
  <2>3. /\ trigger_sources' = Append(trigger_sources, Record(src, TRUE))
        /\ activation_time' = now /\ now' = now
    BY <1>1, <2>1 DEF FirstTrigger, Activates
  <2>4. \A i \in ActivatedAt' :
          \/ i \in ActivatedAt /\ trigger_sources'[i] = trigger_sources[i]
          \/ trigger_sources'[i] = Record(src, TRUE)
    BY <1>0, <2>2, <2>3, AppendTrail
  <2>5. activation_time' = now /\ activation_time' <= now'
    BY <1>0, <2>3
  <2>6. ASSUME NEW i \in ActivatedAt'
        PROVE  (trigger_sources[i].timestamp)' <= activation_time'
    <3>1. CASE i \in ActivatedAt /\ trigger_sources'[i] = trigger_sources[i]
      BY <1>0, <2>5, <3>1 DEF TimeInv
    <3>2. CASE trigger_sources'[i] = Record(src, TRUE)
      <4>1. (trigger_sources[i].timestamp)' = now
        BY <3>2 DEF Record
      <4> QED
        BY <1>0, <2>5, <4>1
    <3> QED
      BY <2>4, <2>6, <3>1, <3>2
  <2> QED
    BY <2>5, <2>6 DEF TimeInv
<1>2. CASE Ignores
  <2>1. PICK t \in Tasks, src \in Sources : IgnoreTrigger(t, src)
    BY <1>2 DEF Ignores
  <2>2. Record(src, FALSE) \in Trigger /\ ~Record(src, FALSE).activated
    BY <1>0, KillSwitchAssumption DEF TypeOK, Record, Trigger
  <2>3. /\ trigger_sources' = Append(trigger_sources, Record(src, FALSE))
        /\ activation_time' = activation_time /\ now' = now
    BY <1>2, <2>1 DEF IgnoreTrigger, Ignores
  <2>4. \A i \in ActivatedAt' :
          i \in ActivatedAt /\ trigger_sources'[i] = trigger_sources[i]
    BY <1>0, <2>2, <2>3, AppendTrail
  <2> QED
    BY <2>3, <2>4 DEF TimeInv
<1>3. CASE Waits
  <2>1. ActivatedAt' = ActivatedAt /\ now' \in Int
    BY <1>3, NextTypes, KillSwitchAssumption
       DEF Waits, ActivatedAt, TypeInv, TypeOK
  <2> QED
    BY <1>0, <1>3, <2>1 DEF Waits, TimeInv
<1>4. CASE Deactivate
  BY <1>4 DEF Deactivate, TimeInv, ActivatedAt
<1>5. CASE \E t \in Tasks : PublishReturns(t)
  BY <1>5 DEF PublishReturns, TimeInv, ActivatedAt
<1> QED
  BY <1>1, <1>2, <1>3, <1>4, <1>5, StepKinds

\* A new switch has an empty trail.
LEMMA TimeInit == Init => TimeInv
BY DEF Init, TimeInv, ActivatedAt

\* deactivate() never ends an activation before MinActive has passed since
\* every trigger that activated the switch, for any clock and any order of
\* triggers, publications and operator calls.
THEOREM DeactivationWaits == Spec => MinActiveHeld
<1>1. TypeInv /\ TimeInv /\ [Next]_vars =>
        [is_active /\ ~is_active' =>
           \A i \in ActivatedAt :
               now - trigger_sources[i].timestamp >= MinActive]_vars
  <2> SUFFICES ASSUME TypeInv, TimeInv, [Next]_vars, is_active, ~is_active',
                      NEW i \in ActivatedAt
               PROVE  now - trigger_sources[i].timestamp >= MinActive
    OBVIOUS
  <2>1. Deactivate
    BY StepKinds DEF Activates, Ignores, Waits, PublishReturns, is_active,
                     IgnoreTrigger, FirstTrigger
  <2>2. /\ now \in Int /\ activation_time \in Int /\ MinActive \in Int
        /\ trigger_sources[i].timestamp \in Int
    BY KillSwitchAssumption, TimeTypes
  <2> QED
    BY <2>1, <2>2 DEF Deactivate, can_deactivate, TimeInv
<1> QED
  BY <1>1, TypeInvHolds, TimeInit, TimeStep, PTL DEF Spec, MinActiveHeld

-----------------------------------------------------------------------------
(* The recorded event, and one activation per episode.                     *)

\* activate() overwrites the event only together with a new activation.
LEMMA EventStep ==
    TypeInv /\ EventIsLastActivation /\ [Next]_vars => EventIsLastActivation'
<1> SUFFICES ASSUME TypeInv, EventIsLastActivation, [Next]_vars
             PROVE  EventIsLastActivation'
  OBVIOUS
<1>0. TypeOK
  BY DEF TypeInv
<1>1. CASE Activates
  <2>1. PICK t \in Tasks, src \in Sources : FirstTrigger(t, src)
    BY <1>1 DEF Activates
  <2>2. Record(src, TRUE) \in Trigger /\ Record(src, TRUE).activated
    BY <1>0, KillSwitchAssumption DEF TypeOK, Record, Trigger
  <2>3. /\ trigger_sources' = Append(trigger_sources, Record(src, TRUE))
        /\ activation_event' = Record(src, TRUE)
        /\ activation_time' = Record(src, TRUE).timestamp
    BY <1>1, <2>1 DEF FirstTrigger, Activates, Record
  <2>4. /\ ActivatedAt' = ActivatedAt \cup {Len(trigger_sources) + 1}
        /\ trigger_sources'[Len(trigger_sources) + 1] = Record(src, TRUE)
        /\ ActivatedAt \subseteq 1..Len(trigger_sources)
        /\ Len(trigger_sources) \in Nat
    BY <1>0, <2>2, <2>3, AppendTrail
  <2>5. ASSUME NEW i \in ActivatedAt', \A j \in ActivatedAt' : j <= i
        PROVE  i = Len(trigger_sources) + 1
    BY <2>4, <2>5
  <2> QED
    BY <2>3, <2>4, <2>5 DEF EventIsLastActivation
<1>2. CASE Ignores
  <2>1. PICK t \in Tasks, src \in Sources : IgnoreTrigger(t, src)
    BY <1>2 DEF Ignores
  <2>2. Record(src, FALSE) \in Trigger /\ ~Record(src, FALSE).activated
    BY <1>0, KillSwitchAssumption DEF TypeOK, Record, Trigger
  <2>3. /\ trigger_sources' = Append(trigger_sources, Record(src, FALSE))
        /\ UNCHANGED <<activation_time, activation_event>>
    BY <1>2, <2>1 DEF IgnoreTrigger, Ignores
  <2>4. /\ ActivatedAt' = ActivatedAt
        /\ \A i \in ActivatedAt : trigger_sources'[i] = trigger_sources[i]
    BY <1>0, <2>2, <2>3, AppendTrail
  <2> QED
    BY <2>3, <2>4 DEF EventIsLastActivation
<1>3. CASE Waits
  BY <1>3 DEF Waits, EventIsLastActivation, ActivatedAt
<1>4. CASE Deactivate
  BY <1>4 DEF Deactivate, EventIsLastActivation, ActivatedAt
<1>5. CASE \E t \in Tasks : PublishReturns(t)
  BY <1>5 DEF PublishReturns, EventIsLastActivation, ActivatedAt
<1> QED
  BY <1>1, <1>2, <1>3, <1>4, <1>5, StepKinds

\* The recorded reason and time of the activation are always those of the last
\* trigger that activated the switch; ignored triggers never overwrite them.
THEOREM EventIsLast == Spec => []EventIsLastActivation
<1>1. Init => EventIsLastActivation
  BY DEF Init, EventIsLastActivation, ActivatedAt
<1> QED
  BY <1>1, TypeInvHolds, EventStep, PTL DEF Spec

\* The audit trail holds finitely many activations.
LEMMA TrailFinite == ASSUME TypeOK PROVE IsFiniteSet(ActivatedAt)
<1>1. /\ DOMAIN trigger_sources = 1..Len(trigger_sources)
      /\ Len(trigger_sources) \in Int
  BY DEF TypeOK
<1>2. ActivatedAt \subseteq 1..Len(trigger_sources)
  BY <1>1 DEF ActivatedAt
<1> QED
  <2>1. IsFiniteSet(1..Len(trigger_sources))
    BY <1>1, FS_Interval
  <2> QED
    BY <1>2, <2>1, FS_Subset

\* activate() and deactivate() alternate.
LEMMA EpisodeStep ==
    TypeInv /\ OneActivationPerEpisode /\ [Next]_vars
        => OneActivationPerEpisode'
<1> SUFFICES ASSUME TypeInv, OneActivationPerEpisode, [Next]_vars
             PROVE  OneActivationPerEpisode'
  OBVIOUS
<1>0. TypeOK /\ deactivations \in Nat
  BY DEF TypeInv, TypeOK
<1>1. CASE Activates
  <2>1. PICK t \in Tasks, src \in Sources : FirstTrigger(t, src)
    BY <1>1 DEF Activates
  <2>2. Record(src, TRUE) \in Trigger /\ Record(src, TRUE).activated
    BY <1>0, KillSwitchAssumption DEF TypeOK, Record, Trigger
  <2>3. /\ trigger_sources' = Append(trigger_sources, Record(src, TRUE))
        /\ state' = "active" /\ deactivations' = deactivations
        /\ state # "active"
    BY <1>1, <2>1 DEF FirstTrigger, Activates, is_active
  <2>4. /\ ActivatedAt' = ActivatedAt \cup {Len(trigger_sources) + 1}
        /\ ActivatedAt \subseteq 1..Len(trigger_sources)
        /\ Len(trigger_sources) \in Nat
    BY <1>0, <2>2, <2>3, AppendTrail
  <2>5. Len(trigger_sources) + 1 \notin ActivatedAt
    BY <2>4
  <2>6. Cardinality(ActivatedAt') = Cardinality(ActivatedAt) + 1
    BY <1>0, <2>4, <2>5, TrailFinite, FS_AddElement
  <2>7. Cardinality(ActivatedAt) = deactivations
    BY <1>0, <2>3 DEF OneActivationPerEpisode, is_active
  <2> QED
    BY <2>3, <2>6, <2>7 DEF OneActivationPerEpisode, is_active
<1>2. CASE Ignores
  <2>1. PICK t \in Tasks, src \in Sources : IgnoreTrigger(t, src)
    BY <1>2 DEF Ignores
  <2>2. Record(src, FALSE) \in Trigger /\ ~Record(src, FALSE).activated
    BY <1>0, KillSwitchAssumption DEF TypeOK, Record, Trigger
  <2>3. /\ trigger_sources' = Append(trigger_sources, Record(src, FALSE))
        /\ UNCHANGED <<state, deactivations>>
    BY <1>2, <2>1 DEF IgnoreTrigger, Ignores
  <2>4. ActivatedAt' = ActivatedAt
    BY <1>0, <2>2, <2>3, AppendTrail
  <2> QED
    BY <2>3, <2>4 DEF OneActivationPerEpisode, is_active
<1>3. CASE Waits
  BY <1>3 DEF Waits, OneActivationPerEpisode, ActivatedAt, is_active
<1>4. CASE Deactivate
  <2>1. /\ state = "active" /\ state' = "inactive"
        /\ deactivations' = deactivations + 1
        /\ ActivatedAt' = ActivatedAt
    BY <1>4 DEF Deactivate, can_deactivate, is_active, ActivatedAt
  <2> QED
    BY <1>0, <2>1 DEF OneActivationPerEpisode, is_active
<1>5. CASE \E t \in Tasks : PublishReturns(t)
  BY <1>5 DEF PublishReturns, OneActivationPerEpisode, ActivatedAt, is_active
<1> QED
  BY <1>1, <1>2, <1>3, <1>4, <1>5, StepKinds

\* Cross-Cutting Rule 3 for any number of triggers and coroutines: each
\* activation but the current one has been ended by exactly one deactivation.
THEOREM EpisodesMatch == Spec => []OneActivationPerEpisode
<1>1. Init => OneActivationPerEpisode
  <2> SUFFICES ASSUME Init PROVE OneActivationPerEpisode
    OBVIOUS
  <2>1. ActivatedAt = {} /\ deactivations = 0 /\ ~is_active
    BY DEF Init, ActivatedAt, is_active
  <2> QED
    BY <2>1, FS_EmptySet DEF OneActivationPerEpisode
<1> QED
  BY <1>1, TypeInvHolds, EpisodeStep, PTL DEF Spec

-----------------------------------------------------------------------------
(* The order of publication.                                               *)

\* Only the holder of the lock has an event to publish, and that event is
\* younger than every event already delivered.
OutgoingInv ==
    \A t \in Tasks : outgoing[t] # 0 =>
        /\ lock = t
        /\ outgoing[t] \in ActivatedAt
        /\ \A k \in DOMAIN published : published[k] < outgoing[t]

OrderInv == PublishedInOrder /\ OutgoingInv

\* activate() and its publisher preserve the order of delivery.
LEMMA OrderStep == TypeInv /\ OrderInv /\ [Next]_vars => OrderInv'
<1> SUFFICES ASSUME TypeInv, OrderInv, [Next]_vars PROVE OrderInv'
  OBVIOUS
<1>0. /\ TypeOK
      /\ outgoing \in [Tasks -> Nat] /\ published \in Seq(Nat)
      /\ lock \in Tasks \cup {None} /\ None \notin Tasks
  BY KillSwitchAssumption DEF TypeInv, TypeOK
<1>1. CASE Activates
  <2>1. PICK t \in Tasks, src \in Sources : FirstTrigger(t, src)
    BY <1>1 DEF Activates
  <2>2. Record(src, TRUE) \in Trigger /\ Record(src, TRUE).activated
    BY <1>0, KillSwitchAssumption DEF TypeOK, Record, Trigger
  <2>3. /\ trigger_sources' = Append(trigger_sources, Record(src, TRUE))
        /\ published' = published /\ lock = None
        /\ \/ UNCHANGED outgoing
           \/ /\ lock' = t
              /\ outgoing' =
                    [outgoing EXCEPT ![t] = Len(trigger_sources) + 1]
    BY <1>1, <2>1 DEF FirstTrigger, Activates
  <2>4. /\ ActivatedAt' = ActivatedAt \cup {Len(trigger_sources) + 1}
        /\ ActivatedAt \subseteq 1..Len(trigger_sources)
        /\ Len(trigger_sources) \in Nat
    BY <1>0, <2>2, <2>3, AppendTrail
  <2>5. \A u \in Tasks : outgoing[u] = 0
    BY <1>0, <2>3 DEF OrderInv, OutgoingInv
  <2>6. PublishedInOrder'
    BY <2>3, <2>4 DEF OrderInv, PublishedInOrder
  <2>7. \A k \in DOMAIN published :
          published[k] < Len(trigger_sources) + 1
    <3>1. \A k \in DOMAIN published : published[k] \in ActivatedAt
      BY DEF OrderInv, PublishedInOrder
    <3>2. \A i \in ActivatedAt : i < Len(trigger_sources) + 1
      BY <2>4
    <3> QED
      BY <3>1, <3>2
  <2>8. OutgoingInv'
    <3>1. CASE UNCHANGED outgoing
      BY <2>5, <3>1 DEF OutgoingInv
    <3>2. CASE /\ lock' = t
               /\ outgoing' =
                     [outgoing EXCEPT ![t] = Len(trigger_sources) + 1]
      <4>1. \A u \in Tasks : outgoing'[u] # 0 =>
              u = t /\ outgoing'[u] = Len(trigger_sources) + 1
        BY <1>0, <2>5, <3>2
      <4> QED
        BY <2>3, <2>4, <2>7, <3>2, <4>1 DEF OutgoingInv
    <3> QED
      BY <2>3, <3>1, <3>2
  <2> QED
    BY <2>6, <2>8 DEF OrderInv
<1>2. CASE Ignores
  <2>1. PICK t \in Tasks, src \in Sources : IgnoreTrigger(t, src)
    BY <1>2 DEF Ignores
  <2>2. Record(src, FALSE) \in Trigger /\ ~Record(src, FALSE).activated
    BY <1>0, KillSwitchAssumption DEF TypeOK, Record, Trigger
  <2>3. trigger_sources' = Append(trigger_sources, Record(src, FALSE))
    BY <2>1 DEF IgnoreTrigger
  <2>4. ActivatedAt' = ActivatedAt
    BY <1>0, <2>2, <2>3, AppendTrail
  <2> QED
    BY <1>2, <2>1, <2>4
       DEF Ignores, IgnoreTrigger, OrderInv, OutgoingInv, PublishedInOrder
<1>3. CASE Waits
  BY <1>3 DEF Waits, OrderInv, OutgoingInv, PublishedInOrder, ActivatedAt
<1>4. CASE Deactivate
  BY <1>4 DEF Deactivate, OrderInv, OutgoingInv, PublishedInOrder, ActivatedAt
<1>5. ASSUME NEW t \in Tasks, PublishReturns(t) PROVE OrderInv'
  <2>1. /\ outgoing[t] # 0 /\ outgoing[t] \in ActivatedAt /\ lock = t
        /\ \A k \in DOMAIN published : published[k] < outgoing[t]
    BY <1>5 DEF PublishReturns, OrderInv, OutgoingInv
  <2>2. /\ ActivatedAt' = ActivatedAt
        /\ outgoing' = [outgoing EXCEPT ![t] = 0]
        /\ \/ published' = published
           \/ published' = Append(published, outgoing[t])
    BY <1>5 DEF PublishReturns, ActivatedAt
  <2>3. \A u \in Tasks : outgoing'[u] = 0
    BY <1>0, <2>1, <2>2 DEF OrderInv, OutgoingInv
  <2>4. CASE published' = published
    BY <2>2, <2>3, <2>4 DEF OrderInv, OutgoingInv, PublishedInOrder
  <2>5. CASE published' = Append(published, outgoing[t])
    <3>1. /\ Len(published) \in Nat
          /\ DOMAIN published = 1..Len(published)
          /\ DOMAIN published' = 1..(Len(published) + 1)
          /\ \A k \in DOMAIN published : published'[k] = published[k]
          /\ published'[Len(published) + 1] = outgoing[t]
      BY <1>0, <2>5
    <3>2. \A k \in DOMAIN published' : published'[k] \in ActivatedAt'
      BY <2>1, <2>2, <3>1 DEF OrderInv, PublishedInOrder
    <3>3. ASSUME NEW k \in DOMAIN published', NEW m \in DOMAIN published',
                 k < m
          PROVE  published'[k] < published'[m]
      <4>1. k \in DOMAIN published
        BY <3>1, <3>3
      <4>2. m \in DOMAIN published \/ m = Len(published) + 1
        BY <3>1
      <4> QED
        BY <2>1, <3>1, <3>3, <4>1, <4>2 DEF OrderInv, PublishedInOrder
    <3> QED
      BY <2>3, <3>2, <3>3 DEF OrderInv, OutgoingInv, PublishedInOrder
  <2> QED
    BY <2>2, <2>4, <2>5
<1> QED
  BY <1>1, <1>2, <1>3, <1>4, <1>5, StepKinds

\* Because activate() awaits the publisher inside its lock, subscribers get
\* the activations in order and at most once, however slow a publication is.
THEOREM ActivationsPublishedInOrder == Spec => []PublishedInOrder
<1>1. Init => OrderInv
  BY DEF Init, OrderInv, OutgoingInv, PublishedInOrder
<1>2. OrderInv => PublishedInOrder
  BY DEF OrderInv
<1> QED
  BY <1>1, <1>2, TypeInvHolds, OrderStep, PTL DEF Spec

\* The audit trail, the stored event and the published messages agree in every
\* reachable state of activate() and deactivate(), for any number of tasks.
THEOREM TrailAgreesAlways == Spec => []TrailAgrees
<1>1. OneActivationPerEpisode /\ EventIsLastActivation /\ PublishedInOrder => TrailAgrees
  BY DEF TrailAgrees
<1> QED
  BY <1>1, EpisodesMatch, EventIsLast, ActivationsPublishedInOrder, PTL

=============================================================================
