----------------------------- MODULE MCFileOps -----------------------------
(* Small instances of FileOps for TLC. *)
EXTENDS FileOps, TLC

\* Names, temporary names, contents and requests are interchangeable.
Symmetry ==
    Permutations(Names) \cup Permutations(Temps) \cup Permutations(Contents)
        \cup Permutations(Slots)
=============================================================================
