------------------------------ MODULE MCOrders ------------------------------
(***************************************************************************)
(* Orders on their two ways to the broker: through the order manager, and  *)
(* through place_order of the client with the guarded position that comes  *)
(* of it.                                                                  *)
(*                                                                         *)
(* The two share no state, so one behaviour follows one of them while the  *)
(* other rests.                                                            *)
(***************************************************************************)
EXTENDS OrderManager, GuardedPosition

VARIABLE part   \* the part that moves

MCPrices == {9, 12}   \* around an entry at 10

Init ==
  /\ part \in {"manager", "client"}
  /\ OrderInit
  /\ GuardedInit

Next ==
  \/ /\ part = "manager" /\ OrderNext
     /\ UNCHANGED <<part, guardedVars>>
  \/ /\ part = "client" /\ GuardedNext
     /\ UNCHANGED <<part, orderVars>>

vars == <<part, orderVars, guardedVars>>

Fairness ==
  /\ \A o \in Orders : WF_orderVars(part = "manager" /\ OrderStep(o))
  /\ WF_guardedVars(part = "client" /\ (Refresh \/ Hold \/ Placement \/ Management))

Spec == Init /\ [][Next]_vars /\ Fairness
=============================================================================
