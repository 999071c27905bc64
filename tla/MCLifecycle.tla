---------------------------- MODULE MCLifecycle ----------------------------
(* Small instances of ProcessLifecycle for TLC. *)
EXTENDS ProcessLifecycle

\* Enough on one pipe to fill the cap, straddle it and go on; the other pipe is
\* only opened, held and closed.
FewWrites == [st \in Streams |-> IF st = "stdout" THEN 2 ELSE 0]
=============================================================================
