-------------------------- MODULE ChannelInvariant --------------------------
(***************************************************************************)
(* The inductive invariants of Channel.  IInv is behind OneAnswer,         *)
(* AbandonedNeverSent and KeepsContract: where a call of Invoke is         *)
(* determines where its frame, its in-flight key, its claim and its two    *)
(* result channels are.  LifeInv, on top of it, is behind QueuedGoFirst,   *)
(* DrainedOnSettledGen and CloseIsFinal.                                   *)
(***************************************************************************)
EXTENDS Channel

Sending == {"check", "snap", "register", "write", "await"}

(* The queue holds a request once, and only one that nobody started.       *)
QueueInv ==
    /\ \A i, j \in DOMAIN queue : queue[i] = queue[j] => i = j
    /\ \A i \in DOMAIN queue :
          /\ call[queue[i]] \in {"queued", "returned"}
          /\ once[queue[i]] = "none"
          /\ claimed[queue[i]] # "drain"

(* A call that is not in invokeOnce yet has nothing outstanding; one that  *)
(* is in it on its own behalf was never queued.                            *)
CallInv(r) ==
    /\ call[r] \in {"idle", "gate"} =>
          once[r] = "none" /\ claimed[r] = "none" /\ wire[r] = 0
    /\ call[r] = "direct" => once[r] \in Sending /\ claimed[r] = "none"
    /\ call[r] # "direct" /\ once[r] \in Sending => claimed[r] = "drain"
    /\ call[r] = "queued" /\ claimed[r] # "drain" => once[r] = "none"
    /\ call[r] = "returned" <=> ret[r] # "none"

(* The frame, the key and chRes follow the steps of invokeOnce.            *)
OnceInv(r) ==
    /\ once[r] \in {"none", "check", "snap", "register"} =>
          wire[r] = 0 /\ r \notin inflight /\ reply[r] = "none"
    /\ once[r] = "write" => wire[r] = 0
    /\ once[r] = "await" => wire[r] # 0
    /\ once[r] \in {"register", "write", "await"} => epoch[r] # 0
    /\ r \in inflight => once[r] \in {"write", "await"} /\ reply[r] = "none"

(* A claim taken by anybody but the drain is final and sends nothing; a    *)
(* reply answers a frame.                                                  *)
ResultInv(r) ==
    /\ claimed[r] \in {"watch", "ctx", "close"} => once[r] = "none"
    /\ claimed[r] = "none" => qres[r] = "none"
    /\ claimed[r] = "drain" /\ once[r] # "done" => qres[r] = "none"
    /\ claimed[r] = "drain" => once[r] # "none"
    /\ reply[r] = "reply" => wire[r] # 0
    /\ qres[r] = "reply" => wire[r] # 0
    /\ ret[r] = "reply" => wire[r] # 0

IInv ==
    /\ TypeOK
    /\ QueueInv
    /\ \A r \in Requests : CallInv(r) /\ OnceInv(r) /\ ResultInv(r)

-----------------------------------------------------------------------------
(* What the order of the frames and Close rest on.                         *)

(* The supervisor: the hook's window, the generation it settles, and why   *)
(* requests wait in the queue.                                             *)
SupInv ==
    /\ bypass => sup = "hooking"
    /\ sup = "giveup" => closed
    /\ sup \in {"lock"} \union GenMuHolders => gen \in hookOK
    /\ sup = "adopted" /\ ~HasHook => gen \in hookOK
    /\ state = "Reconnecting" =>
          closed \/ sup \in {"backoff", "dial", "adopted", "hook", "hooking", "lock", "store"}
    /\ queue # <<>> => closed \/ state = "Reconnecting" \/ sup \in {"drain", "draining"}

(* Only the current connection is open, and not while the supervisor looks *)
(* for another; its read loop leaves it only to terminate the channel.     *)
ConnInv ==
    /\ \A e \in Gens : conn[e] = "up" =>
          /\ e = gen
          /\ \/ reader[e] = "reading" \/ sup = "start"
             \/ reader[e] \in {"failing", "terminating"} /\ cause[e] = "proto"
    /\ sup = "start" => gen = 1
    /\ sup \in {"mark", "backoff", "dial"} => conn[gen] # "up"
    /\ \A e \in Gens : reader[e] = "stopping" => closed

Draining(r) == once[r] \in Sending /\ call[r] # "direct"

(* drainQueue sends one request at a time, on a generation it may use.     *)
DrainInv ==
    /\ \A r \in Requests : Draining(r) => sup = "draining"
    /\ \A q, r \in Requests : Draining(q) /\ Draining(r) => q = r
    /\ \A r \in Requests : claimed[r] = "drain" =>
          /\ once[r] \in {"register", "write", "await"} => epoch[r] \in hookOK
          /\ wire[r] # 0 => wire[r] \in hookOK

(* Close settles what is left when nothing runs any more.                  *)
CloserInv ==
    \A c \in Closers :
        /\ closer[c] # "idle" => closed
        /\ closer[c] \in {"draining", "returned"} => Quiet

(* Where b is when r, which found it in the queue, has not overtaken it.   *)
Served(r, b) ==
    \/ claimed[b] # "none"
    \/ call[r] = "gate" /\ InQueue(b)
    \/ \E i, j \in DOMAIN queue : i < j /\ queue[i] = b /\ queue[j] = r
    \/ closed /\ call[r] = "direct" /\ once[r] \in {"check", "snap"}
    \/ call[r] = "returned" /\ once[r] \in {"none", "done"} /\ wire[r] = 0 /\ ~InQueue(r)

BehindInv ==
    \A r \in Requests \ (FailFast \union direct) : \A b \in behind[r] : Served(r, b)

LifeInv == SupInv /\ ConnInv /\ DrainInv /\ CloserInv /\ BehindInv
=============================================================================
