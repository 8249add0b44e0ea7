--------------------------- MODULE OrderContract ---------------------------
(***************************************************************************)
(* What IGClient.place_order (src/src/trading/ig_client.py) promises its   *)
(* caller, the trading loop, about the orders it places one after another. *)
(* An order is named by its deal reference.                                *)
(***************************************************************************)
CONSTANT Refs

VARIABLES
    result,     \* result[r]: "none", "calling", "accepted" or "refused"
    deal        \* deal[r]: "none", "bare" or "guarded" by stop and limit

vars == <<result, deal>>

Init ==
    /\ result = [r \in Refs |-> "none"]
    /\ deal = [r \in Refs |-> "none"]

Call(r) ==
    /\ result[r] = "none"
    /\ \A q \in Refs : result[q] # "calling"
    /\ result' = [result EXCEPT ![r] = "calling"]
    /\ UNCHANGED deal

\* The broker opens the deal once: during the call or, when the call was
\* given up, after it.
Fill(r) ==
    /\ result[r] \in {"calling", "refused"} /\ deal[r] = "none"
    /\ \E d \in {"bare", "guarded"} : deal' = [deal EXCEPT ![r] = d]
    /\ UNCHANGED result

\* The broker attaches the stop and the limit after the fill.
Attach(r) ==
    /\ deal[r] = "bare"
    /\ deal' = [deal EXCEPT ![r] = "guarded"]
    /\ UNCHANGED result

\* Only a deal that is open with its stop and its limit is reported accepted.
Accept(r) ==
    /\ result[r] = "calling" /\ deal[r] = "guarded"
    /\ result' = [result EXCEPT ![r] = "accepted"]
    /\ UNCHANGED deal

\* Everything else, an unknown outcome included, is reported as a refusal.
Refuse(r) ==
    /\ result[r] = "calling"
    /\ result' = [result EXCEPT ![r] = "refused"]
    /\ UNCHANGED deal

Next == \E r \in Refs : Call(r) \/ Fill(r) \/ Attach(r) \/ Accept(r) \/ Refuse(r)

\* Every call returns.
Spec ==
    /\ Init /\ [][Next]_vars
    /\ \A r \in Refs : WF_vars(Accept(r) \/ Refuse(r))
=============================================================================
