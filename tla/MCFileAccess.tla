---------------------------- MODULE MCFileAccess ----------------------------
(* Small instances of FileAccess for TLC. *)
EXTENDS FileAccess

TwoRoots == <<<<"r">>, <<"s">>>>

\* One name is the beginning of the other.
Letters == [c \in {"a", "r", "s", "o"} |-> <<c>>] @@ ("ab" :> <<"a", "b">>)

\* Nothing, file, directory, and links to a directory outside, to nowhere, to the
\* root itself and to names that may be links in turn.
Node == {Absent, Dir, File, Link(<<"o">>), Link(<<"o", "x">>), Link(<<"r", "ab">>),
         Link(<<"r">>), Link(<<"r", "a">>)}

\* Below the root r names a and ab, with one level more below each; below the root
\* s the name a; o is outside the roots.  Or r is no directory.
SmallTrees ==
    {(<<"r">> :> Dir) @@ (<<"s">> :> Dir) @@ (<<"o">> :> Dir) @@ (<<"o", "a">> :> Dir)
       @@ (<<"r", "a">> :> a) @@ (<<"r", "ab">> :> ab)
       @@ (<<"r", "a", "a">> :> IF a = Dir THEN x ELSE Absent)
       @@ (<<"r", "ab", "a">> :> IF ab = Dir THEN File ELSE Absent)
       @@ (<<"s", "a">> :> z) :
     a \in Node, ab \in Node \ {Link(<<"r">>), Link(<<"r", "ab">>)},
     x \in Node \cup {BigFile}, z \in {Absent, Link(<<"r", "ab">>)}}
    \cup {(<<"r">> :> File) @@ (<<"s">> :> Dir) @@ (<<"s", "a">> :> File)}

SmallRequests ==
    {<<>>, <<"/", "a">>} \cup UNION {[1..n -> {"a", "ab", ".", ".."}] : n \in 1..3}

SmallEnds == {<<>>} \cup UNION {[1..n -> {"a", "ab", ".."}] : n \in 1..2}

Entry(kind, root) == [kind |-> kind, root |-> root]

SmallGrants ==
    {{},
     {Entry("read", <<"a">>), Entry("write", <<".", "a">>), Entry("list", <<"a">>)},
     {Entry("write", <<"ab">>), Entry("read", <<"">>)},
     {Entry("write", <<"a", "a">>), Entry("list", <<".">>)},
     {Entry("write", <<"a", "..">>)}}
=============================================================================
