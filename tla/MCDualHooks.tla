------------------------------ MODULE MCDualHooks ------------------------------
(* Small instances of DualHooks.                                             *)
EXTENDS DualHooks

MCRolePairs == {<<"business", "business">>, <<"battle", "battle">>}
MCOpts ==
    {[top |-> None, business |-> "relogin", battle |-> j] : j \in {None, "join"}}
        \union {[top |-> "relogin", business |-> None, battle |-> None]}
================================================================================
