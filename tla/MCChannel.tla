----------------------------- MODULE MCChannel -----------------------------
(* Small instances of Channel.                                             *)
EXTENDS ChannelInvariant, TLC
CONSTANTS r1, r2, c1, c2
R1 == {r1}
R12 == {r1, r2}
C1 == {c1}
C12 == {c1, c2}
None == {}
Calls == Permutations(R12)
Opt(auto, hook, size, blocks) ==
    [auto |-> auto, hook |-> hook, size |-> size, failFast |-> {}, blocks |-> blocks]
\* A hook and room for both calls; no hook and room for one.
Redialling == {Opt(TRUE, TRUE, 2, TRUE), Opt(TRUE, FALSE, 1, TRUE)}
\* A hook and a queue over TCP; no automatic reconnection, over KCP.
HookedOrNone == {Opt(TRUE, TRUE, 1, TRUE), Opt(FALSE, FALSE, 1, FALSE)}
=============================================================================
