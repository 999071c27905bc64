------------------------------ MODULE FileOps ------------------------------
(***************************************************************************)
(* The mutating file operations (crates/are-daemon/src/fs.rs): write_file  *)
(* with its atomic commit, rename_path, delete_path, create_directory.     *)
(* They take no lock: every system call is one action, and the calls of    *)
(* several requests interleave.  A crash may come between any two.         *)
(*                                                                         *)
(* One directory is modelled.  A name in it is absent, a file with some    *)
(* content, or an (empty) directory.  The file system keeps a directory    *)
(* change or file content across a crash for certain only once it has been *)
(* synced.  Content stands for its own hash.                               *)
(***************************************************************************)
EXTENDS Integers

CONSTANTS
    Names,           \* the names clients use: they are taken not to name a temporary
                     \* file, though a listing shows them and nothing refuses them
    Temps,           \* the names of temporary files: .are-tmp-<32hex>
    Contents,        \* what clients write
    Torn,            \* the content of a file that is not completely written
    NoHash,          \* expected_hash: None
    Slots,           \* the requests of one life of the daemon
    Kinds,           \* the operations clients ask for
    DirSyncMayFail   \* whether syncing the directory can fail

ASSUME FileOpsAssumption ==
    /\ Names \cap Temps = {}
    /\ Torn \notin Contents \cup {NoHash}
    /\ NoHash \notin Contents \cup Names \cup Temps
    /\ Kinds \subseteq {"write", "rename", "delete", "mkdir"}
    /\ DirSyncMayFail \in BOOLEAN

VARIABLES
    dir,             \* what every process sees: a node per name
    disk,            \* the directory as it was last synced
    op,              \* the requests in flight
    strays           \* history: temporary files that a failed removal or a crash left

vars == <<dir, disk, op, strays>>

Absent == [kind |-> "absent", content |-> NoHash, synced |-> TRUE]
Directory == [kind |-> "dir", content |-> NoHash, synced |-> TRUE]
File(c, synced) == [kind |-> "file", content |-> c, synced |-> synced]

Node == {Absent, Directory} \cup {File(c, b) : c \in Contents \cup {Torn}, b \in BOOLEAN}

Idle ==
    [kind |-> "none", pc |-> "idle", name |-> NoHash, dst |-> NoHash, content |-> NoHash,
     overwrite |-> FALSE, expected |-> NoHash, tmp |-> NoHash, result |-> "none",
     committed |-> FALSE]

\* `committed` is history: the request has replaced or created its target.
Op ==
    [kind : {"none", "write", "rename", "delete", "mkdir"},
     pc : {"idle", "stat", "compare", "create", "fill", "sync", "syncdir", "commit",
           "metadata", "cleanup", "stat_dst", "remove_file", "remove_dir", "create_dir", "done"},
     name : Names \cup {NoHash}, dst : Names \cup {NoHash},
     content : Contents \cup {NoHash}, overwrite : BOOLEAN,
     expected : Contents \cup {NoHash}, tmp : Temps \cup {NoHash},
     result : {"none", "ok", "conflict", "notfound", "error"}, committed : BOOLEAN]

\* Any directory of complete files, all of it on disk.
Init ==
    /\ dir \in [Names \cup Temps -> {Absent, Directory} \cup {File(c, TRUE) : c \in Contents}]
    /\ \A t \in Temps : dir[t] = Absent
    /\ disk = dir
    /\ op = [o \in Slots |-> Idle]
    /\ strays = {}

-----------------------------------------------------------------------------
(* System calls *)

Exists(n) == dir[n].kind # "absent"

Moved(src, dst) == [dir EXCEPT ![dst] = dir[src], ![src] = Absent]

\* rename(2) of a file replaces a file but not a directory.
CanReplace(src, dst) == Exists(src) /\ dir[dst].kind # "dir"

\* Fault: rename(2) in place of renameat2, as with no check left at all.
FaultyCanMove(src, dst) == CanReplace(src, dst)

\* rename_noreplace on Linux: renameat2 with RENAME_NOREPLACE.
CanMove(src, dst) == Exists(src) /\ ~Exists(dst)

-----------------------------------------------------------------------------
(* Requests *)

Goto(o, pc) == op' = [op EXCEPT ![o].pc = pc]

\* The reply; of a write that was acknowledged, what it wrote stays known.
Finish(o, result) ==
    op' = [op EXCEPT ![o] =
             IF op[o].kind = "write" /\ result = "ok"
             THEN [Idle EXCEPT !.kind = "write", !.pc = "done", !.name = op[o].name,
                               !.content = op[o].content, !.result = "ok", !.committed = TRUE]
             ELSE [Idle EXCEPT !.pc = "done", !.result = result]]

\* The request fails after its temporary file was made.
Abandon(o, result) ==
    op' = [op EXCEPT ![o] = [Idle EXCEPT !.kind = "write", !.pc = "cleanup", !.tmp = op[o].tmp,
                                         !.result = result]]

BeginWrite(o) ==
    /\ "write" \in Kinds /\ op[o].pc = "idle"
    /\ \E n \in Names, c \in Contents, w \in BOOLEAN, h \in Contents \cup {NoHash} :
         op' = [op EXCEPT ![o] =
                  [Idle EXCEPT !.kind = "write", !.pc = "stat", !.name = n, !.content = c,
                               !.overwrite = w, !.expected = h]]
    /\ UNCHANGED <<dir, disk, strays>>

\* rename_path refuses equal names.
BeginRename(o) ==
    /\ "rename" \in Kinds /\ op[o].pc = "idle"
    /\ \E n \in Names : \E d \in Names \ {n} :
         op' = [op EXCEPT ![o] =
                  [Idle EXCEPT !.kind = "rename", !.pc = "stat", !.name = n, !.dst = d]]
    /\ UNCHANGED <<dir, disk, strays>>

BeginOther(o) ==
    /\ op[o].pc = "idle"
    /\ \E n \in Names, k \in {"delete", "mkdir"} \cap Kinds :
         op' = [op EXCEPT ![o] = [Idle EXCEPT !.kind = k, !.pc = "stat", !.name = n]]
    /\ UNCHANGED <<dir, disk, strays>>

\* The content or the path is refused (size, shape, boundary, missing parent),
\* or a system call fails.  Three calls whose failure the code ignores say so in
\* their own actions: SyncDir, Cleanup and RenameStatDst.
Fails(o) ==
    /\ op[o].pc \notin {"idle", "done", "syncdir", "cleanup", "stat_dst"}
    /\ IF op[o].tmp # NoHash
       THEN Abandon(o, "error")
       ELSE Finish(o, "error")
    /\ UNCHANGED <<dir, disk, strays>>

-----------------------------------------------------------------------------
(* write_file *)

WriteStat(o) ==
    /\ op[o].kind = "write" /\ op[o].pc = "stat"
    /\ LET n == op[o].name
       IN  CASE dir[n].kind = "dir" -> Finish(o, "error")
             [] dir[n].kind = "file" /\ ~op[o].overwrite -> Finish(o, "conflict")
             [] dir[n].kind = "file" /\ op[o].overwrite ->
                    Goto(o, IF op[o].expected = NoHash THEN "create" ELSE "compare")
             [] dir[n].kind = "absent" ->
                    IF op[o].expected = NoHash THEN Goto(o, "create") ELSE Finish(o, "conflict")
    /\ UNCHANGED <<dir, disk, strays>>

\* The current content is read and its hash compared.
Compare(o) ==
    /\ op[o].pc = "compare"
    /\ LET n == op[o].name
       IN  IF dir[n].kind = "file" /\ dir[n].content = op[o].expected
           THEN Goto(o, "create")
           ELSE Finish(o, IF dir[n].kind = "dir" THEN "error" ELSE "conflict")
    /\ UNCHANGED <<dir, disk, strays>>

\* create_new never opens a file that exists.
CreateTemp(o) ==
    /\ op[o].pc = "create"
    /\ \E t \in Temps :
         /\ ~Exists(t)
         /\ dir' = [dir EXCEPT ![t] = File(Torn, FALSE)]
         /\ op' = [op EXCEPT ![o].pc = "fill", ![o].tmp = t]
    /\ UNCHANGED <<disk, strays>>

\* Fault: the wrong argument is written.
FaultyFill(o) ==
    /\ op[o].pc = "fill"
    /\ dir' = [dir EXCEPT ![op[o].tmp].content = op[o].expected]
    /\ Goto(o, "sync")
    /\ UNCHANGED <<disk, strays>>

\* write_all
Fill(o) ==
    /\ op[o].pc = "fill"
    /\ dir' = [dir EXCEPT ![op[o].tmp].content = op[o].content]
    /\ Goto(o, "sync")
    /\ UNCHANGED <<disk, strays>>

\* Fault: the file is not synced.
FaultySync(o) ==
    /\ op[o].pc = "sync"
    /\ Goto(o, "syncdir")
    /\ UNCHANGED <<dir, disk, strays>>

\* sync_all on the file
Sync(o) ==
    /\ op[o].pc = "sync"
    /\ dir' = [dir EXCEPT ![op[o].tmp].synced = TRUE]
    /\ Goto(o, "syncdir")
    /\ UNCHANGED <<disk, strays>>

\* Best-effort sync_all on the parent directory, BEFORE the rename; a failure is
\* ignored.
SyncDir(o) ==
    /\ op[o].pc = "syncdir"
    /\ disk' = dir \/ (DirSyncMayFail /\ disk' = disk)
    /\ Goto(o, "commit")
    /\ UNCHANGED <<dir, strays>>

\* The rename of the temporary file: without replacing when overwrite is false.
Commit(o) ==
    /\ op[o].pc = "commit" /\ op[o].kind = "write"
    /\ LET t == op[o].tmp
           n == op[o].name
       IN  IF IF op[o].overwrite THEN CanReplace(t, n) ELSE CanMove(t, n)
           THEN /\ dir' = Moved(t, n)
                /\ op' = [op EXCEPT ![o].pc = "metadata", ![o].committed = TRUE,
                                     ![o].overwrite = FALSE, ![o].expected = NoHash,
                                     ![o].tmp = NoHash]
           ELSE /\ UNCHANGED dir
                /\ Abandon(o, IF op[o].overwrite THEN "error" ELSE "conflict")
    /\ UNCHANGED <<disk, strays>>

\* Fault: a failed commit does not try to remove its temporary file.
FaultyCleanup(o) ==
    /\ op[o].pc = "cleanup"
    /\ Finish(o, op[o].result)
    /\ UNCHANGED <<dir, disk, strays>>

\* Best-effort remove_file; a failure is ignored and the file stays.
Cleanup(o) ==
    /\ op[o].pc = "cleanup"
    /\ \/ dir' = [dir EXCEPT ![op[o].tmp] = Absent] /\ UNCHANGED strays
       \/ strays' = strays \cup {op[o].tmp} /\ UNCHANGED dir
    /\ Finish(o, op[o].result)
    /\ UNCHANGED disk

\* The entry a write, a rename or a create_directory makes.
Target(o) == IF op[o].kind = "rename" THEN op[o].dst ELSE op[o].name

\* Metadata of the target, for the reply.  The target may be gone again, or the
\* call fail (Fails): the reply is an error although the request took effect.
Metadata(o) ==
    /\ op[o].pc = "metadata"
    /\ Finish(o, IF Exists(Target(o)) THEN "ok" ELSE "notfound")
    /\ UNCHANGED <<dir, disk, strays>>

-----------------------------------------------------------------------------
(* rename_path, delete_path, create_directory *)

\* The two friendly checks.
RenameStat(o) ==
    /\ op[o].kind = "rename" /\ op[o].pc = "stat"
    /\ IF Exists(op[o].name) THEN Goto(o, "stat_dst") ELSE Finish(o, "notfound")
    /\ UNCHANGED <<dir, disk, strays>>

\* A failed look at the destination counts as finding none.
RenameStatDst(o) ==
    /\ op[o].pc = "stat_dst"
    /\ (Exists(op[o].dst) /\ Finish(o, "conflict")) \/ Goto(o, "commit")
    /\ UNCHANGED <<dir, disk, strays>>

Rename(o) ==
    /\ op[o].kind = "rename" /\ op[o].pc = "commit"
    /\ IF CanMove(op[o].name, op[o].dst)
       THEN /\ dir' = Moved(op[o].name, op[o].dst)
            /\ op' = [op EXCEPT ![o].pc = "metadata", ![o].committed = TRUE]
       ELSE /\ UNCHANGED dir
            /\ Finish(o, IF Exists(op[o].dst) THEN "conflict" ELSE "notfound")
    /\ UNCHANGED <<disk, strays>>

DeleteStat(o) ==
    /\ op[o].kind = "delete" /\ op[o].pc = "stat"
    /\ CASE dir[op[o].name].kind = "absent" -> Finish(o, "notfound")
         [] dir[op[o].name].kind = "file"   -> Goto(o, "remove_file")
         [] dir[op[o].name].kind = "dir"    -> Goto(o, "remove_dir")
    /\ UNCHANGED <<dir, disk, strays>>

\* unlink(2) and rmdir(2) each refuse the other kind.
Remove(o) ==
    /\ op[o].pc \in {"remove_file", "remove_dir"}
    /\ LET n == op[o].name
       IN  IF dir[n].kind = (IF op[o].pc = "remove_file" THEN "file" ELSE "dir")
           THEN dir' = [dir EXCEPT ![n] = Absent] /\ Finish(o, "ok")
           ELSE UNCHANGED dir /\ Finish(o, IF Exists(n) THEN "error" ELSE "notfound")
    /\ UNCHANGED <<disk, strays>>

MkdirStat(o) ==
    /\ op[o].kind = "mkdir" /\ op[o].pc = "stat"
    /\ CASE dir[op[o].name].kind = "dir"    -> Goto(o, "metadata")
         [] dir[op[o].name].kind = "file"   -> Finish(o, "conflict")
         [] dir[op[o].name].kind = "absent" -> Goto(o, "create_dir")
    /\ UNCHANGED <<dir, disk, strays>>

Mkdir(o) ==
    /\ op[o].pc = "create_dir"
    /\ LET n == op[o].name
       IN  IF Exists(n)
           THEN UNCHANGED dir /\ Finish(o, "error")
           ELSE dir' = [dir EXCEPT ![n] = Directory] /\ Goto(o, "metadata")
    /\ UNCHANGED <<disk, strays>>

-----------------------------------------------------------------------------
\* Content that was not synced may be lost in a crash.
AfterCrash(node, lost) ==
    IF node.synced THEN node ELSE File(IF lost THEN Torn ELSE node.content, TRUE)

\* Every name keeps its synced entry or the newer one.  The requests die with
\* the daemon.
Crash ==
    /\ \E newer \in SUBSET {n \in Names \cup Temps : dir[n] # disk[n]} :
         LET kept == [n \in Names \cup Temps |-> IF n \in newer THEN dir[n] ELSE disk[n]]
         IN  \E lost \in SUBSET {n \in Names \cup Temps : ~kept[n].synced} :
               dir' = [n \in Names \cup Temps |-> AfterCrash(kept[n], n \in lost)]
    /\ disk' = dir'
    /\ op' = [o \in Slots |-> Idle]
    /\ strays' = {t \in Temps : Exists(t)'}

-----------------------------------------------------------------------------
Begin(o) == BeginWrite(o) \/ BeginRename(o) \/ BeginOther(o)

WriteStep(o) ==
    \/ WriteStat(o)
    \/ Compare(o)
    \/ CreateTemp(o)
    \/ Fill(o)
    \/ Sync(o)
    \/ SyncDir(o)
    \/ Commit(o)
    \/ Cleanup(o)

OtherStep(o) ==
    \/ RenameStat(o)
    \/ RenameStatDst(o)
    \/ Rename(o)
    \/ DeleteStat(o)
    \/ Remove(o)
    \/ MkdirStat(o)
    \/ Mkdir(o)

Next ==
    \/ \E o \in Slots : Begin(o) \/ Fails(o) \/ WriteStep(o) \/ OtherStep(o) \/ Metadata(o)
    \/ Crash

Spec == Init /\ [][Next]_vars
-----------------------------------------------------------------------------
(* Properties *)

\* Every variable has its type.
TypeOK ==
    /\ dir \in [Names \cup Temps -> Node]
    /\ disk \in [Names \cup Temps -> Node]
    /\ op \in [Slots -> Op]
    /\ strays \subseteq Temps

\* "Readers always see the old or the new content, never a torn write": no name a
\* client uses ever shows an incomplete file, at no point of any interleaving
\* and after no crash.
NeverTorn == \A n \in Names : dir[n].content # Torn

\* An existing entry is replaced only by a write that asked to overwrite a file,
\* although overwrite: false and rename look at the target long before they
\* create it.
NoSilentOverwrite ==
    [][\A o \in Slots :
         op'[o].committed /\ ~op[o].committed /\ Exists(Target(o))
            => op[o].overwrite /\ dir[Target(o)].kind = "file"]_vars

\* atomic_commit removes its temporary file "on ANY failure", best-effort: every
\* temporary file in the directory belongs to a write that is still going to
\* rename or remove it, or is one that a crash or a failed removal left.
NoStrays ==
    \A t \in Temps : Exists(t) =>
        t \in strays \/ \E o \in Slots : op[o].tmp = t /\ op[o].pc \notin {"metadata", "done"}

\* core request.rs lines 164-165: a write with expected_hash will "proceed only if
\* the file exists AND its current on-disk content hashes to `h`".
CommitMatchesExpected ==
    [][\A o \in Slots :
         /\ op[o].kind = "write" /\ op[o].expected # NoHash
         /\ op'[o].committed /\ ~op[o].committed
         => dir[op[o].name].content = op[o].expected]_vars

\* fs.rs, atomic_commit: the parent directory is synced for "durability of the
\* rename itself": an acknowledged write is still there after a crash.
AcknowledgedIsDurable ==
    [][\A o \in Slots :
         /\ op[o].kind = "write" /\ op[o].result = "ok"
         /\ dir[op[o].name].content = op[o].content /\ Crash
         => dir'[op[o].name].content = op[o].content]_vars
=============================================================================
