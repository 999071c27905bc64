------------------------------- MODULE Paths -------------------------------
(***************************************************************************)
(* Path resolution (crates/are-daemon/src/fs.rs): resolve,                 *)
(* resolve_no_follow and ensure_dir_under_root, as operators on a file     *)
(* system with symbolic links.                                             *)
(*                                                                         *)
(* A location is the sequence of names from the top of the host's file     *)
(* system.  A tree says what is at each location: nothing, a directory, a  *)
(* file, a file above max_file_bytes, or a link to another location.  A    *)
(* request is a sequence of names, "." and ".."; a first element "/"       *)
(* stands for every shape that is refused unseen (absolute, drive letter,  *)
(* NUL).                                                                   *)
(***************************************************************************)
EXTENDS Integers, Sequences, SequencesExt

CONSTANTS
    Roots,           \* allowed_roots: a sequence of canonical locations
    LinkLimit,       \* the system's limit on the links met on the way,
    TargetLimit      \* and on the names a link's target has

ASSUME RootsGiven ==
    /\ Roots \in Seq(Seq(STRING)) /\ Roots # <<>>
    /\ LinkLimit \in Nat /\ TargetLimit \in Nat

Absent == [kind |-> "absent", target |-> <<>>]
Dir == [kind |-> "dir", target |-> <<>>]
File == [kind |-> "file", target |-> <<>>]
BigFile == [kind |-> "big", target |-> <<>>]
Link(target) == [kind |-> "link", target |-> target]

IsNode(node) ==
    \/ node \in {Absent, Dir, File, BigFile}
    \/ /\ node = Link(node.target)
       /\ node.target \in Seq(STRING)
       /\ Len(node.target) <= TargetLimit

IsTree(t) == \A loc \in DOMAIN t : loc \in Seq(STRING) /\ IsNode(t[loc])

Ok(loc) == [tag |-> "ok", loc |-> loc]
Err(tag) == [tag |-> tag, loc |-> <<>>]

-----------------------------------------------------------------------------
(* The file system *)

At(t, loc) == IF loc = <<>> THEN Dir ELSE IF loc \in DOMAIN t THEN t[loc] ELSE Absent

Up(loc) == IF loc = <<>> THEN <<>> ELSE Front(loc)

\* What is there is in a directory.
Connected(t) == \A loc \in DOMAIN t : At(t, loc) # Absent => At(t, Up(loc)) = Dir

\* std::fs::canonicalize follows names from the top.  `left` are the names still to
\* be followed and `links` the links that may still be met.
Start(names) == [cur |-> <<>>, left |-> names, links |-> LinkLimit, error |-> "none"]

\* One name further: nothing below what is no directory, and a link is replaced by
\* the names it leads to.
Follow(t, w) ==
    LET name == Head(w.left)
        rest == Tail(w.left)
        next == Append(w.cur, name)
        node == At(t, next)
    IN  IF w.error # "none" \/ w.left = <<>> THEN w
        ELSE IF At(t, w.cur).kind # "dir" THEN [w EXCEPT !.error = "not_a_directory"]
        ELSE IF name = "." THEN [w EXCEPT !.left = rest]
        ELSE IF name = ".." THEN [w EXCEPT !.cur = Up(w.cur), !.left = rest]
        ELSE CASE node.kind = "absent" -> [w EXCEPT !.error = "not_found"]
               [] node.kind = "link" ->
                    IF w.links = 0 THEN [w EXCEPT !.error = "loop"]
                    ELSE [w EXCEPT !.cur = <<>>, !.left = node.target \o rest, !.links = @ - 1]
               [] OTHER -> [w EXCEPT !.cur = next, !.left = rest]

\* The walk after n steps.
Walk(t, names) ==
    LET walk[n \in Nat] == IF n = 0 THEN Start(names) ELSE Follow(t, walk[n - 1])
    IN  walk

\* As many steps as names can be met.
canonicalize(t, names) ==
    LET end == Walk(t, names)[Len(names) + LinkLimit * TargetLimit]
    IN  IF end.error = "none" THEN Ok(end.cur) ELSE Err(end.error)

-----------------------------------------------------------------------------
(* Resolution *)

check_path_shape(names) == names # <<>> /\ Head(names) # "/"

\* Path::starts_with
Under(root, loc) == IsPrefix(root, loc)

\* The names that are not to be dropped: the loop of normalize_grant_root, and what
\* Path::components leaves of a path (Components).
Without(names, drop) ==
    LET kept[n \in 0..Len(names)] ==
            IF n = 0 THEN <<>>
            ELSE IF names[n] \in drop THEN kept[n - 1] ELSE Append(kept[n - 1], names[n])
    IN  kept[Len(names)]

\* Path::components, which Path::parent and Path::file_name work on, skips ".";
\* the system call that canonicalizes sees it.
Components(names) == Without(names, {"."})

\* The deepest ancestor that can be canonicalized decides, unless the walk up
\* meets "..", which has no file name: fail closed.  So no ".." is left in the
\* missing tail when its depth is counted.
classify_missing_parent(t, root, names) ==
    LET Ancestor(n) == canonicalize(t, SubSeq(names, 1, n))
        Decides(n)  == n = 0 \/ names[n] = ".." \/ Ancestor(n).tag # "not_found"
        found       == Ancestor(Max({n \in 0..Len(names) : Decides(n)}))
    IN  CASE found.tag = "ok" -> IF Under(root, found.loc) THEN "not_found" ELSE "escape"
          [] found.tag = "not_found" -> "escape"
          [] OTHER -> "io"

\* A leaf that does not exist, in an existing directory.
LeafUnder(root, parent, leaf) ==
    IF Under(root, parent) THEN Ok(Append(parent, leaf)) ELSE Err("escape")

\* Fault: a path that exists is taken wherever its links lead.
FaultyResolveUnder(t, root, names) ==
    LET found == canonicalize(t, root \o names)
    IN  IF found.tag = "ok" THEN found ELSE Err("next")

\* One round of resolve's loop; "next" when the next root is tried.
ResolveUnder(t, root, names) ==
    LET joined == root \o Components(names)
        found  == canonicalize(t, root \o names)
        parent == canonicalize(t, Front(joined))
    IN  CASE found.tag = "ok" -> IF Under(root, found.loc) THEN found ELSE Err("escape")
          [] found.tag = "not_found" ->
                CASE parent.tag = "ok" -> IF Last(joined) = ".." THEN Err("invalid")
                                          ELSE LeafUnder(root, parent.loc, Last(joined))
                  [] parent.tag = "not_found" ->
                        LET class == classify_missing_parent(t, root, joined)
                        IN  IF class = "not_found" THEN Err("next") ELSE Err(class)
                  [] OTHER -> Err("io")
          [] OTHER -> Err("io")

\* Fault: the leaf is followed too.
FaultyResolveLeafUnder(t, root, names) == ResolveUnder(t, root, names)

\* resolve_no_follow: the parent is canonicalized, the leaf is not.
ResolveLeafUnder(t, root, names) ==
    LET parent == canonicalize(t, root \o Front(names))
    IN  CASE parent.tag = "ok" -> LeafUnder(root, parent.loc, Last(names))
          [] parent.tag = "not_found" -> Err("next")
          [] OTHER -> Err("io")

\* The replies of all roots in turn; the first that is not "next" counts.
FirstReply(replies) ==
    LET said == {i \in DOMAIN replies : replies[i].tag # "next"}
    IN  IF said = {} THEN Err("not_found") ELSE replies[Min(said)]

resolve(t, names) ==
    IF ~check_path_shape(names) THEN Err("invalid")
    ELSE FirstReply([i \in DOMAIN Roots |-> ResolveUnder(t, Roots[i], names)])

resolve_no_follow(t, names) ==
    IF \/ ~check_path_shape(names)
       \/ Components(names) = <<>>
       \/ Last(Components(names)) = ".."
    THEN Err("invalid")
    ELSE FirstReply([i \in DOMAIN Roots |-> ResolveLeafUnder(t, Roots[i], Components(names))])

-----------------------------------------------------------------------------
(* Creating directories *)

Put(t, loc, node) == [x \in DOMAIN t \cup {loc} |-> IF x = loc THEN node ELSE t[x]]

\* Fault: an existing prefix is followed without a look at where it leads.
FaultyPrefix(t, found, final) ==
    IF found.tag = "ok" /\ At(t, found.loc).kind # "dir" THEN Err("conflict") ELSE found

\* An existing prefix must lead to a directory below the root.
Prefix(t, found, final) ==
    CASE found.tag # "ok" -> found
      [] found.tag = "ok" /\ ~Under(Roots[1], found.loc) -> Err("escape")
      [] found.tag = "ok" /\ At(t, found.loc).kind # "dir" ->
            IF final THEN Err("conflict") ELSE Err("not_a_directory")
      [] OTHER -> found

\* One component further: check what exists, create what does not.  The root is
\* canonical, but nothing asks whether it is a directory.
MakeNext(m, name, final) ==
    LET next == Append(m.reply.loc, name)
    IN  IF m.reply.tag # "ok" THEN m
        ELSE IF At(m.tree, m.reply.loc).kind # "dir" THEN [m EXCEPT !.reply = Err("io")]
        ELSE IF At(m.tree, next).kind = "absent"
        THEN [tree |-> Put(m.tree, next, Dir), reply |-> Ok(next)]
        ELSE [m EXCEPT !.reply = Prefix(m.tree, canonicalize(m.tree, next), final)]

\* The walk of ensure_dir_under_root down from the root.  A failure keeps the
\* directories made so far.
MakeAll(t, names) ==
    LET made[n \in 0..Len(names)] ==
            IF n = 0 THEN [tree |-> t, reply |-> Ok(Roots[1])]
            ELSE MakeNext(made[n - 1], names[n], n = Len(names))
    IN  made[Len(names)]

\* The walk both creation_rel and ensure_dir_under_root make first: creation
\* paths must not contain "..".
creation_rel(names) ==
    IF ~check_path_shape(names) \/ Contains(names, "..") \/ Components(names) = <<>>
    THEN Err("invalid")
    ELSE Ok(Components(names))

ensure_dir_under_root(t, names) ==
    LET rel == creation_rel(names)
    IN  IF rel.tag = "ok" THEN MakeAll(t, rel.loc)
        ELSE [tree |-> t, reply |-> rel]
=============================================================================
