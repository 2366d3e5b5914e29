--------------------------- MODULE MCNotifyTable ---------------------------
(* Small instances of NotifyTable: a and b subscribe one function to an    *)
(* op, d another function to the same op, e a third to everything.         *)
EXTENDS NotifyTable
CONSTANTS a, b, d, e, op1, f, g, h, p1
Where == [r \in {a, b, d, e} |-> IF r = e THEN AnyOp ELSE op1]
Which == [r \in {a, b, d, e} |-> CASE r = d -> g [] r = e -> h [] OTHER -> f]
OwnCode == [x \in {f, g, h} |-> x]
Push1 == [p \in {p1} |-> op1]
=============================================================================
