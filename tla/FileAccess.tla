----------------------------- MODULE FileAccess -----------------------------
(***************************************************************************)
(* The file handlers of the daemon (crates/are-daemon/src/handler.rs) with *)
(* their authorisation (crates/are-core/src/grant.rs, grants.rs) and the   *)
(* operations they call (fs.rs).                                           *)
(*                                                                         *)
(* One request is handled per behaviour: the question is what any request  *)
(* of any caller does to any tree.  Requests that race each other are the  *)
(* subject of FileOps.  Requests name this daemon's environment, and it    *)
(* has a file backend; expected hashes are in FileOps too.                 *)
(***************************************************************************)
EXTENDS Paths, TLC

CONSTANTS
    Trees,           \* the file systems considered
    Requests,        \* the paths clients ask for
    Ends,            \* the paths clients ask to rename from and to
    GrantsFiles,     \* what the grants file says of the caller: sets of entries
                     \* [kind, root], the root as written
    Spelling         \* name -> its characters

ASSUME EndsAreRequests == Ends \subseteq Requests

ASSUME NamesGiven == Requests \subseteq Seq(STRING) /\ \A t \in Trees : IsTree(t)

ASSUME TreesConnected == \A t \in Trees : Connected(t)

\* No name has the separator in it.
ASSUME NamesSpelled ==
    /\ \A c \in DOMAIN Spelling : Spelling[c] \in Seq(STRING) /\ ~Contains(Spelling[c], "/")
    /\ \A i \in DOMAIN Roots : Roots[i] \in Seq(DOMAIN Spelling)
    /\ \A t \in Trees : DOMAIN t \subseteq Seq(DOMAIN Spelling)
    /\ \A path \in Requests : \A i \in 1..Len(path) :
           path[i] \in DOMAIN Spelling \cup {".", ".."} \/ (i = 1 /\ path[i] = "/")
    /\ \A file \in GrantsFiles : \A g \in file :
           g.root \in Seq(STRING) /\ g.root \in Seq(DOMAIN Spelling \cup {"", ".", ".."})

VARIABLES
    tree,            \* location -> node
    caller,          \* how the daemon sees the caller: mode and grants
    request,         \* the request that has been handled, or NoRequest
    reply            \* what it answered

vars == <<tree, caller, request, reply>>

NoRequest == [op |-> "none", path |-> <<>>, dst |-> <<>>]

-----------------------------------------------------------------------------
(* Grants *)

\* The string a path is compared as: its names joined by "/".
Joined(names) ==
    LET text[n \in 0..Len(names)] ==
            IF n = 0 THEN <<>>
            ELSE IF text[n - 1] = <<>> THEN Spelling[names[n]]
            ELSE text[n - 1] \o <<"/">> \o Spelling[names[n]]
    IN  text[Len(names)]

Climbs(root) == Contains(root, "..")

\* "." and empty segments are dropped.
normalize_grant_root(root) == Joined(Without(root, {"", "."}))

\* A file with a climbing root is refused and the daemon does not start.
Loads(file) == \A g \in file : ~Climbs(g.root)

parse_json(file) == {[kind |-> g.kind, root |-> normalize_grant_root(g.root)] : g \in file}

\* Fault: any string that starts like the root.
FaultyRootCovers(root, rel) == IsPrefix(root, rel)

root_covers(root, rel) ==
    \/ root = <<>>
    \/ rel = root
    \/ IsPrefix(Append(root, "/"), rel)

grants_allow_fs(grants, kind, rel) ==
    \E g \in grants : g.kind = kind /\ root_covers(g.root, rel)

\* Callers: without a grants file everything is permitted; with one, a caller is
\* unknown to it or holds what it lists.
Permissive == [mode |-> "permissive", grants |-> {}]
Unknown == [mode |-> "unknown", grants |-> {}]
Listed(file) == [mode |-> "listed", grants |-> parse_json(file)]

deny_unknown_principal == caller.mode = "unknown"

check_fs_grant(kind, rel) ==
    caller.mode = "permissive" \/ grants_allow_fs(caller.grants, kind, Joined(rel))

Init ==
    /\ tree \in Trees
    /\ caller \in {Permissive, Unknown} \cup {Listed(file) : file \in {f \in GrantsFiles : Loads(f)}}
    /\ request = NoRequest
    /\ reply = Err("none")

-----------------------------------------------------------------------------
(* Authorisation *)

\* The first allowed root above a location is taken off it.
relativize(loc) ==
    LET above == {i \in DOMAIN Roots : Under(Roots[i], loc)}
    IN  IF above = {} THEN Err("internal")
        ELSE Ok(SubSeq(loc, Len(Roots[Min(above)]) + 1, Len(loc)))

\* A condition of the code's early returns, and the answer of a series of them.
Require(condition, tag) == IF condition THEN Ok(<<>>) ELSE Err(tag)

Early(returns, answer) ==
    LET failed == {i \in DOMAIN returns : returns[i].tag # "ok"}
    IN  IF failed = {} THEN answer ELSE returns[Min(failed)]

\* fs_rel_for_grant and check_fs_grant on a resolved path.  A path that does not
\* resolve is answered as the operation would.
Admit(kind, found) ==
    Early(<<Require(~deny_unknown_principal, "forbidden"),
            found,
            relativize(found.loc),
            Require(check_fs_grant(kind, relativize(found.loc).loc), "forbidden")>>, found)

\* std::fs::metadata: what is at a location once links are followed.
Stat(t, loc) ==
    LET found == canonicalize(t, loc)
    IN  CASE found.tag = "ok" -> At(t, found.loc).kind
          [] found.tag = "not_found" -> "not_found"
          [] OTHER -> "io"

\* std::fs::symlink_metadata: what is at a location itself, which may be asked for
\* below a file.
Lstat(t, loc) == IF At(t, Up(loc)) = Dir THEN At(t, loc).kind ELSE "io"

\* ? on the result: nothing there, or not to be had.
Found(kind) == Require(kind \notin {"not_found", "io"}, kind)

-----------------------------------------------------------------------------
(* Operations of fs.rs.  Each resolves its path again, with the result the      *)
(* authorisation saw: got.  A path that resolves may still name nothing, or a   *)
(* link to nothing.                                                             *)

read_file(got) ==
    LET kind == Stat(tree, got.loc)
    IN  Early(<<got, Found(kind),
                Require(kind # "dir", "is_a_directory"),
                Require(kind # "big", "too_large")>>, got)

list_directory(got) ==
    LET kind == Stat(tree, got.loc)
    IN  Early(<<got, Found(kind), Require(kind = "dir", "not_a_directory")>>, got)

\* A big file only loses its hash.
file_metadata(got) == Early(<<got, Found(Stat(tree, got.loc))>>, got)

\* Never a directory, an existing entry only with overwrite.  A link that leads
\* nowhere resolves to itself, and the write replaces it.
write_file(got, overwrite) ==
    LET kind == At(tree, got.loc).kind
    IN  Early(<<got,
                Require(kind # "dir", "is_a_directory"),
                Require(kind = "absent" \/ overwrite, "conflict")>>, got)

\* The entries themselves, never what they link to.
rename_path(from, to) ==
    Early(<<from, to,
            Require(from.loc # to.loc, "invalid"),
            Require(Lstat(tree, from.loc) # "absent", "not_found"),
            Require(Lstat(tree, from.loc) # "io", "io"),
            Require(Lstat(tree, to.loc) \in {"absent", "io"}, "conflict"),
            Require(Lstat(tree, to.loc) = "absent", "io"),
            Require(~IsStrictPrefix(from.loc, to.loc), "io")>>, to)

Below(t, loc) == {x \in DOMAIN t : IsStrictPrefix(loc, x) /\ t[x] # Absent}

\* Fault: directories are removed with what is in them.
FaultyEmpty(t, loc) == TRUE

Empty(t, loc) == Below(t, loc) = {}

\* The entry itself; a directory only when it is empty.
delete_path(got) ==
    LET kind == Lstat(tree, got.loc)
    IN  Early(<<got,
                Require(kind # "absent", "not_found"),
                Require(kind # "io", "io"),
                Require(kind = "dir" => Empty(tree, got.loc), "conflict")>>, got)

\* rename(2): the entry at src and everything below it go to dst.
MoveEntry(t, src, dst) ==
    LET moved == {src} \cup Below(t, src)
        Swap(x, from, to) == to \o SubSeq(x, Len(from) + 1, Len(x))
        arrived == {Swap(x, src, dst) : x \in moved}
    IN  [x \in DOMAIN t \cup arrived |->
            IF x \in arrived THEN t[Swap(x, dst, src)]
            ELSE IF x \in moved THEN Absent ELSE t[x]]

-----------------------------------------------------------------------------
(* Handlers *)

\* A handler answers and leaves the tree t.
Answer(op, path, dst, answer, t) ==
    /\ request' = [op |-> op, path |-> path, dst |-> dst]
    /\ reply' = answer
    /\ tree' = t
    /\ UNCHANGED caller

Following(kind, path) == Admit(kind, resolve(tree, path))

NotFollowing(kind, path) == Admit(kind, resolve_no_follow(tree, path))

handle_read_file ==
    /\ request = NoRequest
    /\ \E path \in Requests :
           Answer("read", path, <<>>, read_file(Following("read", path)), tree)

handle_list_directory ==
    /\ request = NoRequest
    /\ \E path \in Requests :
           Answer("list", path, <<>>, list_directory(Following("list", path)), tree)

handle_get_file_metadata ==
    /\ request = NoRequest
    /\ \E path \in Requests :
           Answer("metadata", path, <<>>, file_metadata(Following("read", path)), tree)

\* The requests that change something are validated first.
validate(path) == Require(path # <<>>, "invalid")

handle_write_file ==
    /\ request = NoRequest
    /\ \E path \in Requests, overwrite \in BOOLEAN :
           LET got    == Following("write", path)
               answer == Early(<<validate(path)>>, write_file(got, overwrite))
           IN  Answer("write", path, <<>>, answer,
                      IF answer.tag = "ok" THEN Put(tree, got.loc, File) ELSE tree)

\* create_directory is authorised on the path as written.  A failure half way
\* keeps the directories made so far.
handle_create_directory ==
    /\ request = NoRequest
    /\ \E path \in Requests :
           LET rel  == creation_rel(path)
               may  == Early(<<validate(path),
                               Require(~deny_unknown_principal, "forbidden"),
                               rel,
                               Require(check_fs_grant("write", rel.loc), "forbidden")>>, rel)
               made == ensure_dir_under_root(tree, path)
           IN  IF may.tag = "ok" THEN Answer("mkdir", path, <<>>, made.reply, made.tree)
               ELSE Answer("mkdir", path, <<>>, may, tree)

\* The answer is the metadata behind dst, so a link to nothing is moved and
\* answered not_found.
handle_rename ==
    /\ request = NoRequest
    /\ \E src, dst \in Ends :
           LET from  == NotFollowing("write", src)
               to    == NotFollowing("write", dst)
               may   == Early(<<validate(src), validate(dst), Require(src # dst, "invalid")>>,
                              rename_path(from, to))
               after == IF may.tag = "ok" THEN MoveEntry(tree, from.loc, to.loc) ELSE tree
           IN  Answer("rename", src, dst, Early(<<may, Found(Stat(after, to.loc))>>, may), after)

handle_delete_file ==
    /\ request = NoRequest
    /\ \E path \in Requests :
           LET got    == NotFollowing("write", path)
               answer == Early(<<validate(path)>>, delete_path(got))
           IN  Answer("delete", path, <<>>, answer,
                      IF answer.tag = "ok" THEN Put(tree, got.loc, Absent) ELSE tree)

Next ==
    \/ handle_read_file
    \/ handle_list_directory
    \/ handle_get_file_metadata
    \/ handle_write_file
    \/ handle_create_directory
    \/ handle_rename
    \/ handle_delete_file

Spec == Init /\ [][Next]_vars
-----------------------------------------------------------------------------
(* Properties *)

InsideRoots(loc) == \E i \in DOMAIN Roots : Under(Roots[i], loc)

Real(t, loc) == canonicalize(t, loc) = Ok(loc)

\* Whatever links the tree has and whatever dots the request has: the path
\* FilesystemBackend::resolve returns lies below an allowed root, and no
\* link is on the way to it, so that what is read or written is there
\* too.
ResolvedStaysInside ==
    request = NoRequest =>
        \A path \in Requests :
            LET found == resolve(tree, path)
            IN  found.tag = "ok" => InsideRoots(found.loc) /\ Real(tree, Front(found.loc))

\* delete and rename (resolve_no_follow) act on the entry the request names, even
\* when it is a link that leads outside: its parent is a location without
\* links below an allowed root.
NamedStaysInside ==
    request = NoRequest =>
        \A path \in Requests :
            LET found == resolve_no_follow(tree, path)
            IN  found.tag = "ok" =>
                    /\ InsideRoots(Front(found.loc))
                    /\ Real(tree, Front(found.loc))
                    /\ Last(found.loc) = Last(Components(path))

\* create_directory (ensure_dir_under_root), whatever links it meets half way:
\* makes directories below the first root only, changes nothing that exists, and
\* on success answers with a directory there.
CreatesInside ==
    [][request'.op = "mkdir" =>
         /\ \A loc \in DOMAIN tree' : At(tree', loc) # At(tree, loc) =>
                At(tree, loc) = Absent /\ At(tree', loc) = Dir /\ Under(Roots[1], loc)
         /\ reply'.tag = "ok" => At(tree', reply'.loc) = Dir /\ Under(Roots[1], reply'.loc)]_vars

\* The caller holds the scope on the location or on a directory it is in, in
\* whole names: a grant on a says nothing of ab.
Holds(kind, loc) ==
    \/ caller.mode = "permissive"
    \/ \E i \in DOMAIN Roots : \E n \in Len(Roots[i])..Len(loc) :
           /\ Under(Roots[i], loc)
           /\ [kind |-> kind, root |-> Joined(SubSeq(loc, Len(Roots[i]) + 1, n))] \in caller.grants

\* Links, dots and the order of checks notwithstanding, a handler reads only what
\* lies, links followed, in the caller's read or list scope, and write_file,
\* rename and delete change entries, both ends and whole subtrees included, only
\* in its write scope.  (create_directory is authorised on the written path:
\* docs/grants.md lists that as a known limitation.)
ActsWithinGrants ==
    [][/\ reply'.tag = "ok" /\ request'.op \in {"read", "metadata"} =>
            Holds("read", canonicalize(tree, reply'.loc).loc)
       /\ reply'.tag = "ok" /\ request'.op = "list" =>
            Holds("list", canonicalize(tree, reply'.loc).loc)
       /\ request'.op # "mkdir" =>
            \A loc \in DOMAIN tree \cup DOMAIN tree' :
                At(tree', loc) # At(tree, loc) => Holds("write", loc)]_vars

\* No handler cuts an entry off: whatever is in the tree is in a directory that is
\* in the tree, so no delete is recursive and no write or rename replaces a
\* directory with contents.
NothingCutOff == Connected(tree)
=============================================================================
