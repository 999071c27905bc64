--------------------------- MODULE ManagedProcess ---------------------------
(***************************************************************************)
(* What the daemon promises of one spawned process, with neither pipes nor *)
(* waiters: the life of an entry as the module Daemon has it (RequestKill, *)
(* ChildExits, KillChild, Publish), plus the promise that it moves on.     *)
(* ProcessLifecycle implements this specification.                         *)
(***************************************************************************)
VARIABLES
    child,             \* "supervised" while its supervisor polls it, then "reaped"
    kill_requested,
    status             \* "running", "exited" (with a code) or "failed"

vars == <<child, kill_requested, status>>

Init ==
    /\ child = "supervised"
    /\ kill_requested = FALSE
    /\ status = "running"

RequestKill ==
    /\ kill_requested' = TRUE
    /\ UNCHANGED <<child, status>>

\* The child is reaped: it exited, was killed, or waiting for it failed.
Reap ==
    /\ child = "supervised"
    /\ child' = "reaped"
    /\ UNCHANGED <<kill_requested, status>>

\* Once, and never before the child is reaped.
Publish ==
    /\ child = "reaped" /\ status = "running"
    /\ status' \in {"exited", "failed"}
    /\ UNCHANGED <<child, kill_requested>>

Next == RequestKill \/ Reap \/ Publish

\* A requested kill is carried out; a reaped child is published.
Spec ==
    /\ Init
    /\ [][Next]_vars
    /\ WF_vars(Reap /\ kill_requested)
    /\ WF_vars(Publish)
=============================================================================
