----------------------------- MODULE PacketConn -----------------------------
(* What KCP is promised of the connection it reads (direct/netmigrate.go   *)
(* 1-4): however often the socket under it is replaced, ReadFrom fails     *)
(* for good only because the connection was closed, because it is dead, or *)
(* because the network reported an error; and it stays closed and dead.    *)
CONSTANT Reasons    \* of death

VARIABLES
    shut,       \* Close was called
    dead,       \* the reason of death, or "none"
    broken,     \* the network reported an error to a read
    out         \* the error ReadFrom ended with, or "none"

vars == <<shut, dead, broken, out>>

Init == shut = FALSE /\ dead = "none" /\ broken = FALSE /\ out = "none"

Shut == shut' = TRUE /\ UNCHANGED <<dead, broken, out>>

Die == dead = "none" /\ dead' \in Reasons /\ UNCHANGED <<shut, broken, out>>

Break == broken' = TRUE /\ UNCHANGED <<shut, dead, out>>

\* ReadFrom may find out that it is dead by itself and end with that.
End ==
    /\ out = "none"
    /\ \/ shut /\ out' = "closed" /\ UNCHANGED dead
       \/ broken /\ out' = "net" /\ UNCHANGED dead
       \/ out' = "dead" /\ dead' \in Reasons /\ dead \in {"none", dead'}
    /\ UNCHANGED <<shut, broken>>

Next == Shut \/ Die \/ Break \/ End

Spec == Init /\ [][Next]_vars
=============================================================================
