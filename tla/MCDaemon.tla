------------------------------ MODULE MCDaemon ------------------------------
(* Small instances of Daemon for TLC. *)
EXTENDS Daemon, TLC

CONSTANTS c1, c2, c3

\* Strict mode: c1 and c2 hold every scope, c3 is unknown.
TwoKnown == (c1 :> Scopes) @@ (c2 :> Scopes)

\* Nobody is listed; used with Permissive.
NoGrants == [c \in {} |-> Scopes]

\* Session ids, process ids and requests are interchangeable.
Symmetry == Permutations(SessionIds) \cup Permutations(ProcIds) \cup Permutations(Requests)

\* So are the two known callers.
CallerSymmetry == Symmetry \cup Permutations({c1, c2})
=============================================================================
