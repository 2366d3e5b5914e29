-------------------------- MODULE MCDirectSession --------------------------
(* Small instances of DirectSession.                                       *)
EXTENDS DirectSession
CONSTANTS r1, r2, w1, c1
R1 == {r1}
R12 == {r1, r2}
W1 == {w1}
C1 == {c1}
None == {}
Opt(au, li, bl) == [auto |-> au, linger |-> li, blocks |-> bl]
Full == {Opt(TRUE, TRUE, TRUE)}
FullOrManual == {Opt(TRUE, TRUE, TRUE), Opt(FALSE, FALSE, FALSE)}
\* The linger window over WebSocket, none over KCP or UDP.
Linger12 == {Opt(TRUE, TRUE, TRUE), Opt(TRUE, FALSE, FALSE)}
=============================================================================
