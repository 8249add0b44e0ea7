-------------------------- MODULE GuardedPosition --------------------------
(***************************************************************************)
(* A guarded position: opened by IGClient.place_order, checked for its     *)
(* attached stop and limit, partly closed at the first target by the loop, *)
(* and moved to breakeven by update_position_sl_tp                         *)
(* (src/src/trading/ig_client.py and trading_loop.py).                     *)
(*                                                                         *)
(* The loop is one coroutine and pc the await it is suspended in.  An      *)
(* order is named by its permit, which is also the deal reference; IG is   *)
(* assumed to open one deal per reference, however often it is posted.     *)
(* Sizes are in units of 0.01.  The retries of _request are counted for    *)
(* the order itself and appear as an outcome for the other requests.       *)
(***************************************************************************)
EXTENDS Integers, FiniteSets

CONSTANTS
    MaxPermits,     \* bound: permits issued
    MaxPosts,       \* API_RETRY_MAX_ATTEMPTS
    Reads,          \* position reads of the two verifications: 3
    GuardedSize,    \* size of an order
    GuardedFaults   \* what may go wrong, see FaultKinds

Refs == 1..MaxPermits
\* lost: no answer; garbled: not JSON; confirm: no usable confirmation; slow:
\* levels attached after the fill; read: a position read fails; refuse: a
\* close is rejected; update: a stop update is rejected; late: an order given
\* up is executed; lag: an old list of positions; restart.
FaultKinds == {"lost", "garbled", "confirm", "slow", "read", "refuse", "update",
               "late", "lag", "restart"}

ASSUME GuardedPositionAssumption ==
    /\ MaxPermits \in Nat /\ {MaxPosts, Reads, GuardedSize} \subseteq Nat \ {0}
    /\ GuardedFaults \subseteq FaultKinds

VARIABLES
    pc,         \* the await of the loop
    ref,        \* the order or deal it works on
    n,          \* posts sent, or positions read
    amount,     \* size of the partial close
    result,     \* result[r]: what place_order told the loop
    managed,    \* _professional_positions: "none", "waiting" or "taken"
    seen,       \* seen[r]: size in _open_positions, 0 if absent
    onwire,     \* external: orders IG may still execute
    opened,     \* external: orders IG executed
    position,   \* external: size, stop and limit of each deal
    cuts,       \* history: partial closes of each deal
    declared    \* history: deals reported "emergency closed"

loop == <<pc, ref, n, amount>>
ig == <<onwire, opened, position>>
guardedHistory == <<cuts, declared>>
guardedVars == <<loop, result, managed, seen, ig, guardedHistory>>

Awaits == {"idle", "look", "post", "confirm", "verify", "emergency", "partial",
           "update", "readback"}
NoPosition == [size |-> 0, stop |-> "none", limit |-> FALSE]

GuardedTypeOK ==
    /\ pc \in Awaits /\ ref \in Refs \cup {0}
    /\ (pc \notin {"idle", "look"} => ref \in Refs)
    /\ n \in 0..(IF pc \in {"post", "confirm"} THEN MaxPosts ELSE Reads - 1)
    /\ amount \in 0..GuardedSize
    /\ result \in [Refs -> {"none", "calling", "accepted", "refused"}]
    /\ managed \in [Refs -> {"none", "waiting", "taken"}]
    /\ seen \in [Refs -> 0..GuardedSize]
    /\ onwire \subseteq Refs /\ opened \subseteq Refs
    /\ position \in [Refs -> [size : 0..GuardedSize, stop : {"none", "initial", "breakeven"},
                         limit : BOOLEAN]]
    /\ cuts \in [Refs -> Nat] /\ declared \subseteq opened

GuardedInit ==
    /\ pc = "idle" /\ ref = 0 /\ n = 0 /\ amount = 0
    /\ result = [r \in Refs |-> "none"]
    /\ managed = [r \in Refs |-> "none"]
    /\ seen = [r \in Refs |-> 0]
    /\ onwire = {} /\ opened = {}
    /\ position = [r \in Refs |-> NoPosition]
    /\ cuts = [r \in Refs |-> 0] /\ declared = {}

Goto(await, count) == pc' = await /\ n' = count /\ UNCHANGED <<ref, amount>>
EndCycle == pc' = "idle" /\ ref' = 0 /\ n' = 0 /\ amount' = 0
Guarded(r) == position[r].stop # "none" /\ position[r].limit
Resize(r, size) == position' = [position EXCEPT ![r].size = size]

-----------------------------------------------------------------------------
(* The cycle of the loop, as far as positions are concerned.               *)

\* _update_account_state.
Refresh ==
    /\ pc = "idle" /\ Goto("look", 0)
    /\ \/ seen' = [r \in Refs |-> position[r].size]
       \/ "lag" \in GuardedFaults /\ UNCHANGED seen
    /\ UNCHANGED <<result, managed, ig, guardedHistory>>

\* Nothing to enter and nothing to manage, or some gate refuses.
Hold ==
    /\ pc = "look" /\ EndCycle
    /\ UNCHANGED <<result, managed, seen, ig, guardedHistory>>

\* _execute_signal up to the POST: the permit is issued and used up at once.
PlaceGuardedOrder(r) ==
    /\ pc = "look" /\ \A q \in Refs : seen[q] = 0
    /\ result[r] = "none" /\ \A q \in Refs : q < r => result[q] # "none"
    /\ result' = [result EXCEPT ![r] = "calling"]
    /\ onwire' = onwire \cup {r}
    /\ pc' = "post" /\ ref' = r /\ n' = 1 /\ UNCHANGED amount
    /\ UNCHANGED <<managed, seen, opened, position, guardedHistory>>

Return(answer) ==
    /\ result' = [result EXCEPT ![ref] = answer]
    /\ EndCycle

-----------------------------------------------------------------------------
(* IG (external).                                                          *)

Executes(r) ==
    /\ r \in onwire
    /\ \/ pc \in {"post", "confirm"} /\ ref = r
       \/ "late" \in GuardedFaults
    /\ onwire' = onwire \ {r} /\ opened' = opened \cup {r}
    /\ \E level \in IF "slow" \in GuardedFaults THEN BOOLEAN ELSE {TRUE} :
         position' = [position EXCEPT ![r] = [size |-> GuardedSize, limit |-> level,
                    stop |-> IF level THEN "initial" ELSE "none"]]
    /\ UNCHANGED <<loop, result, managed, seen, guardedHistory>>

Attaches(r) ==
    /\ r \in opened /\ ~Guarded(r)
    /\ position' = [position EXCEPT ![r].stop = "initial", ![r].limit = TRUE]
    /\ UNCHANGED <<loop, result, managed, seen, onwire, opened, guardedHistory>>

\* A stop, a limit, or a close through the API or a flip exit.
BrokerCloses(r) ==
    /\ position[r].size > 0
    /\ Resize(r, 0)
    /\ UNCHANGED <<loop, result, managed, seen, onwire, opened, guardedHistory>>

\* The PUT of update_position_sl_tp takes effect.
Moves(r) ==
    /\ pc \in {"update", "readback"} /\ ref = r
    /\ position[r].size > 0 /\ position[r].stop # "breakeven"
    /\ position' = [position EXCEPT ![r].stop = "breakeven", ![r].limit = TRUE]
    /\ UNCHANGED <<loop, result, managed, seen, onwire, opened, guardedHistory>>

-----------------------------------------------------------------------------
(* place_order.                                                            *)

\* The POST is answered; dealReference defaults to the permit, so a
\* confirmation is always asked for.
PostAnswered ==
    /\ pc = "post" /\ Goto("confirm", n)
    /\ UNCHANGED <<result, managed, seen, ig, guardedHistory>>

\* _request sends the same POST again, and gives up after MaxPosts.
PostLost ==
    /\ pc = "post" /\ "lost" \in GuardedFaults
    /\ IF n < MaxPosts THEN Goto("post", n + 1) /\ UNCHANGED result
                       ELSE Return("refused")
    /\ UNCHANGED <<managed, seen, ig, guardedHistory>>

\* response.json() raises.
PostGarbled ==
    /\ pc = "post" /\ "garbled" \in GuardedFaults
    /\ Return("refused")
    /\ UNCHANGED <<managed, seen, ig, guardedHistory>>

ConfirmAccepted ==
    /\ pc = "confirm" /\ ref \in opened
    /\ Goto("verify", 0)
    /\ UNCHANGED <<result, managed, seen, ig, guardedHistory>>

\* REJECTED; possibly for the second POST of a reference already executed.
ConfirmRejected ==
    /\ pc = "confirm" /\ (ref \notin opened \/ n > 1)
    /\ Return("refused")
    /\ onwire' = onwire \ {ref}
    /\ UNCHANGED <<managed, seen, opened, position, guardedHistory>>

\* No answer, no dealStatus, no JSON, or ACCEPTED without a deal id: place_order
\* raises or returns something that does not say ACCEPTED.
ConfirmUnusable ==
    /\ pc = "confirm" /\ "confirm" \in GuardedFaults
    /\ Return("refused")
    /\ UNCHANGED <<managed, seen, ig, guardedHistory>>

\* _verify_attached_protection reads both levels; _execute_signal registers
\* the position.
ReadGuarded ==
    /\ pc = "verify" /\ position[ref].size > 0 /\ Guarded(ref)
    /\ Return("accepted")
    /\ managed' = [managed EXCEPT ![ref] = "waiting"]
    /\ UNCHANGED <<seen, ig, guardedHistory>>

\* Mutant: the verification gives up quietly after its last read.
ReadBareAccepted ==
    /\ pc = "verify"
    /\ ~(position[ref].size > 0 /\ Guarded(ref)) \/ "read" \in GuardedFaults
    /\ IF n < Reads - 1 THEN Goto("verify", n + 1) /\ UNCHANGED result
                        ELSE Return("accepted")
    /\ UNCHANGED <<managed, seen, ig, guardedHistory>>

\* A read fails or shows a level missing.
ReadBare ==
    /\ pc = "verify"
    /\ ~(position[ref].size > 0 /\ Guarded(ref)) \/ "read" \in GuardedFaults
    /\ IF n < Reads - 1 THEN Goto("verify", n + 1) ELSE Goto("emergency", 0)
    /\ UNCHANGED <<result, managed, seen, ig, guardedHistory>>

\* The emergency close.  An answer, whatever it says, is reported as
\* "emergency closed"; place_order raises in any case.
EmergencyClose ==
    /\ pc = "emergency"
    /\ \/ Resize(ref, 0)
       \/ ("refuse" \in GuardedFaults \/ position[ref].size = 0) /\ UNCHANGED position
    /\ declared' = declared \cup {ref}
    /\ Return("refused")
    /\ UNCHANGED <<managed, seen, onwire, opened, cuts>>

\* The emergency close raises.
EmergencyCloseLost ==
    /\ pc = "emergency" /\ "lost" \in GuardedFaults
    /\ Resize(ref, 0) \/ UNCHANGED position
    /\ Return("refused")
    /\ UNCHANGED <<managed, seen, onwire, opened, guardedHistory>>

-----------------------------------------------------------------------------
(* _manage_professional_position.                                          *)

\* The first target is reached.  Half of the size last read is closed, unless
\* one of the parts would be less than 0.01; rounding goes either way.
Manage(r) ==
    /\ pc = "look" /\ seen[r] > 0 /\ managed[r] = "waiting"
    /\ \E half \in {seen[r] \div 2, (seen[r] + 1) \div 2} :
         IF half < 1 \/ seen[r] - half < 1
         THEN /\ managed' = [managed EXCEPT ![r] = "taken"]
              /\ EndCycle
         ELSE /\ pc' = "partial" /\ ref' = r /\ n' = 0 /\ amount' = half
              /\ UNCHANGED managed
    /\ UNCHANGED <<result, seen, ig, guardedHistory>>

\* The broker reduces the position.
Cuts ==
    /\ position[ref].size >= amount
    /\ Resize(ref, position[ref].size - amount)
    /\ cuts' = [cuts EXCEPT ![ref] = @ + 1]

PartialAccepted ==
    /\ pc = "partial" /\ Cuts
    /\ Goto("update", 0)
    /\ UNCHANGED <<result, managed, seen, onwire, opened, declared>>

\* close_position raises or has no confirmation, whether or not it was executed.
PartialLost ==
    /\ pc = "partial" /\ GuardedFaults \cap {"lost", "confirm"} # {}
    /\ Cuts \/ UNCHANGED <<position, cuts>>
    /\ EndCycle
    /\ UNCHANGED <<result, managed, seen, onwire, opened, declared>>

PartialRejected ==
    /\ pc = "partial" /\ ("refuse" \in GuardedFaults \/ position[ref].size < amount)
    /\ EndCycle
    /\ UNCHANGED <<result, managed, seen, ig, guardedHistory>>

Taken ==
    /\ managed' = [managed EXCEPT ![ref] = "taken"]
    /\ EndCycle

\* update_position_sl_tp: the confirmation or the answer says ACCEPTED.
UpdateAccepted ==
    /\ pc = "update" /\ position[ref].stop = "breakeven"
    /\ Taken
    /\ UNCHANGED <<result, seen, ig, guardedHistory>>

\* Rejected, a status other than 2xx, or no answer: it raises and the cycle
\* goes on with the next instrument.
UpdateRaises ==
    /\ pc = "update" /\ ("update" \in GuardedFaults \/ position[ref].size = 0)
    /\ EndCycle
    /\ UNCHANGED <<result, managed, seen, ig, guardedHistory>>

\* Mutant: an answer without a status passes for success.
UnclearIsAccepted ==
    /\ pc = "update" /\ "confirm" \in GuardedFaults
    /\ Taken
    /\ UNCHANGED <<result, seen, ig, guardedHistory>>

\* No status in the answer and no confirmation.
UpdateUnclear ==
    /\ pc = "update" /\ "confirm" \in GuardedFaults
    /\ Goto("readback", 0)
    /\ UNCHANGED <<result, managed, seen, ig, guardedHistory>>

\* _verify_position_protection.
ReadbackMatches ==
    /\ pc = "readback" /\ position[ref].size > 0 /\ position[ref].stop = "breakeven"
    /\ Taken
    /\ UNCHANGED <<result, seen, ig, guardedHistory>>

\* Mutant: the readback is repeated until it matches.
ReadbackForEver ==
    /\ pc = "readback"
    /\ ~(position[ref].size > 0 /\ position[ref].stop = "breakeven") \/ "read" \in GuardedFaults
    /\ UNCHANGED guardedVars

ReadbackFails ==
    /\ pc = "readback"
    /\ ~(position[ref].size > 0 /\ position[ref].stop = "breakeven") \/ "read" \in GuardedFaults
    /\ IF n < Reads - 1 THEN Goto("readback", n + 1) ELSE EndCycle
    /\ UNCHANGED <<result, managed, seen, ig, guardedHistory>>

\* The process ends and starts again; everything but IG is forgotten.
Restart ==
    /\ "restart" \in GuardedFaults /\ pc # "idle"
    /\ result' = [r \in Refs |-> IF result[r] = "calling" THEN "refused" ELSE result[r]]
    /\ managed' = [r \in Refs |-> "none"]
    /\ seen' = [r \in Refs |-> 0]
    /\ EndCycle
    /\ UNCHANGED <<ig, guardedHistory>>

-----------------------------------------------------------------------------
Placement ==
    \/ \E r \in Refs : PlaceGuardedOrder(r)
    \/ PostAnswered \/ PostLost \/ PostGarbled
    \/ ConfirmAccepted \/ ConfirmRejected \/ ConfirmUnusable
    \/ ReadGuarded \/ ReadBare \/ EmergencyClose \/ EmergencyCloseLost

Management ==
    \/ \E r \in Refs : Manage(r)
    \/ PartialAccepted \/ PartialLost \/ PartialRejected
    \/ UpdateAccepted \/ UpdateRaises \/ UpdateUnclear
    \/ ReadbackMatches \/ ReadbackFails

Broker ==
    \E r \in Refs : Executes(r) \/ Attaches(r) \/ BrokerCloses(r) \/ Moves(r)

GuardedNext == Refresh \/ Hold \/ Placement \/ Management \/ Broker \/ Restart

GuardedSpec == GuardedInit /\ [][GuardedNext]_guardedVars

\* The event loop resumes the coroutine, and its requests are answered or
\* time out.
GuardedFairSpec == GuardedSpec /\ WF_guardedVars(Refresh \/ Hold \/ Placement \/ Management)

-----------------------------------------------------------------------------
\* place_order implements its contract: an order is reported accepted only
\* when its deal is open with stop and limit, whatever is lost, retried,
\* slow or late, and every call returns.
Contract == INSTANCE OrderContract WITH
    deal <- [r \in Refs |-> IF r \notin opened THEN "none"
                            ELSE IF Guarded(r) THEN "guarded" ELSE "bare"]
ImplementsContract == Contract!Spec

\* When a stop update ends in partial_taken, the stop at the broker is at
\* breakeven, also when the answer was unclear and the position was read back.
TakenIsVerified ==
    [][\A r \in Refs : pc \in {"update", "readback"} /\ managed'[r] # managed[r]
            /\ managed'[r] = "taken" => position[r].stop = "breakeven"]_guardedVars

\* No cycle hangs in the retries and verifications of one position.
CyclesEnd == pc # "idle" ~> pc = "idle"

(* What the documentation says and the code does not do.                   *)

\* "Take 50% at 1R" (trading_loop.py:461): one partial close per position.
PartialOnce == \A r \in Refs : cuts[r] <= 1

\* "... and move the remaining broker stop to breakeven" (trading_loop.py:461).
RestAtBreakeven ==
    \A r \in Refs : managed[r] = "taken" /\ cuts[r] > 0 /\ position[r].size > 0 =>
                        position[r].stop = "breakeven"

\* "Unprotected position detected and emergency closed" (ig_client.py:831).
EmergencyMeansClosed == \A r \in declared : position[r].size = 0
=============================================================================
