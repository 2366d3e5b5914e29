-------------------------- MODULE InvokeContract --------------------------
(***************************************************************************)
(* What Invoke promises its callers, whatever connections, queues, hooks   *)
(* and closes do meanwhile: a call is sent at most once; a call that was   *)
(* given up before it was sent is never sent; a call gets one result and   *)
(* keeps it; and the result is the server's reply only if it was sent.     *)
(* Sources: client/invoke.go 59-62, 362-366 and client/queue.go 9-12.      *)
(***************************************************************************)
CONSTANTS Requests, Results

VARIABLES
    fate,   \* "idle", "open", "sent" or "dropped"
    result  \* "none" or one of Results

vars == <<fate, result>>

Init ==
    /\ fate = [r \in Requests |-> "idle"]
    /\ result = [r \in Requests |-> "none"]

\* idle -> open -> sent, or dropped at any point before it is sent.
FateStep(r) ==
    \/ fate'[r] = fate[r]
    \/ fate[r] = "idle" /\ fate'[r] \in {"open", "dropped"}
    \/ fate[r] = "open" /\ fate'[r] \in {"sent", "dropped"}

\* One result, after the call was made; a reply answers a frame.
ResultStep(r) ==
    \/ result'[r] = result[r]
    \/ /\ result[r] = "none"
       /\ result'[r] \in Results
       /\ fate'[r] # "idle"
       /\ result'[r] = "reply" => fate'[r] = "sent"

Next == \A r \in Requests : FateStep(r) /\ ResultStep(r)

Spec == Init /\ [][Next]_vars
=============================================================================
