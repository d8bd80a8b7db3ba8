----------------------------- MODULE Supervision -----------------------------
(***************************************************************************)
(* What the swarm promises about the tasks it spawns: a task is owned by   *)
(* its request until it ends or is handed to a background handler; a       *)
(* request ends only when it owns nothing that could not be handed over,   *)
(* and what it still owns then is handed over.                             *)
(***************************************************************************)
CONSTANTS
    Parents,
    Children,     \* pairs of a parent and the kind of work
    Detachable    \* the children a handler may take over

VARIABLES phase, owner

Owned(p) == {c \in Children : c[1] = p /\ owner[c] = "request"}

Give(cs, o) == owner' = [c \in Children |-> IF c \in cs THEN o ELSE owner[c]]

SupervisionInit ==
    /\ phase = [p \in Parents |-> "idle"]
    /\ owner = [c \in Children |-> "none"]

\* A request starts with some of its tasks.
Start(p) ==
    /\ phase[p] = "idle"
    /\ phase' = [phase EXCEPT ![p] = "running"]
    /\ \E cs \in SUBSET {c \in Children : c[1] = p} : Give(cs, "request")

Finish(c) ==
    /\ owner[c] # "none"
    /\ Give({c}, "none")
    /\ UNCHANGED phase

HandOver(c) ==
    /\ c \in Detachable
    /\ phase[c[1]] = "running"
    /\ owner[c] = "request"
    /\ Give({c}, "handler")
    /\ UNCHANGED phase

End(p) ==
    /\ phase[p] = "running"
    /\ Owned(p) \subseteq Detachable
    /\ phase' = [phase EXCEPT ![p] = "ended"]
    /\ Give(Owned(p), "handler")

SupervisionNext ==
    \/ \E p \in Parents : Start(p) \/ End(p)
    \/ \E c \in Children : Finish(c) \/ HandOver(c)

SupervisionSpec == SupervisionInit /\ [][SupervisionNext]_<<phase, owner>>
=============================================================================
