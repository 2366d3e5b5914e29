---------------------------- MODULE MCClientSession ----------------------------
(* Small instances of ClientSession: two calls of Bind in parallel, one of   *)
(* which is followed by a third that may still overlap the other; then a     *)
(* goroutine closes the session and binds it again while another registers a *)
(* player; then one restores a session of somebody's, logs out, and logs in  *)
(* as another player.                                                        *)
EXTENDS ClientSession

MCKind ==
    [c \in Calls |-> IF c \in {"bind1", "bind2", "bind3", "bind4"} THEN "bind" ELSE c]
MCTarget == [c \in Calls |-> "main"]
MCAfter ==
    [c \in Calls |-> CASE c = "bind3" -> {"bind1"}
                      [] c \in {"close", "register"} -> {"bind2", "bind3"}
                      [] c = "bind4"   -> {"close"}
                      [] c = "restore" -> {"bind4", "register"}
                      [] c = "logout"  -> {"restore"}
                      [] c = "login"   -> {"logout"}
                      [] OTHER         -> {}]
MCPlayerOf == [s \in Sessions |-> IF s = "login" THEN "anna" ELSE "bert"]
================================================================================
