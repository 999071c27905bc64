--------------------------- MODULE FileOpsProofs ----------------------------
(***************************************************************************)
(* Proofs about FileOps, for every number of names, temporary names,       *)
(* contents, concurrent requests and crashes: types, no torn content under *)
(* a client's name, no stray temporary files, no silent overwrite.         *)
(***************************************************************************)
EXTENDS FileOps, TLAPS

Entries == Names \cup Temps

-----------------------------------------------------------------------------
(* The inductive invariant *)

\* What the phase of a request says about its fields.
ShapeOf(o) ==
    /\ op[o].pc \notin {"idle", "done", "cleanup"} => op[o].name \in Names
    /\ op[o].kind = "rename" /\ op[o].pc # "done" => op[o].dst \in Names
    /\ op[o].pc \in {"compare", "create", "fill", "sync", "syncdir"} => op[o].kind = "write"
    /\ op[o].pc = "commit" => op[o].kind \in {"write", "rename"}
    /\ op[o].kind = "write" /\ op[o].pc # "cleanup" => op[o].content \in Contents
    /\ op[o].pc = "stat_dst" => op[o].kind = "rename"
    /\ op[o].pc \in {"remove_file", "remove_dir"} => op[o].kind = "delete"
    /\ op[o].pc = "create_dir" => op[o].kind = "mkdir"
    /\ op[o].pc = "cleanup" => op[o].result \in {"error", "conflict"}
    /\ op[o].pc = "metadata" /\ op[o].kind = "write" => op[o].committed
    /\ op[o].pc = "metadata" => op[o].kind \in {"write", "rename", "mkdir"}
    /\ \/ op[o].pc \in {"fill", "sync", "syncdir", "cleanup"}
       \/ op[o].pc = "commit" /\ op[o].kind = "write"
       <=> op[o].tmp # NoHash

\* The temporary file of a request exists, and from `sync` on it holds all of the
\* content, from `syncdir` on safely.
HoldsOf(o) ==
    op[o].tmp # NoHash =>
        /\ dir[op[o].tmp].kind = "file"
        /\ op[o].pc \in {"sync", "syncdir", "commit"} => dir[op[o].tmp].content = op[o].content
        /\ op[o].pc \in {"syncdir", "commit"} => dir[op[o].tmp].synced

\* No two requests have the same temporary file.
Apart ==
    \A o, q \in Slots : op[o].tmp = op[q].tmp /\ op[o].tmp # NoHash => o = q

\* Complete and certain to survive a crash as it is.
Whole(node) == node.content # Torn /\ node.synced

\* Under a client's name only whole files are seen and only whole files are on
\* disk.
NamesWhole == \A n \in Names : Whole(dir[n]) /\ Whole(disk[n])

FileInv ==
    /\ TypeOK
    /\ \A o \in Slots : ShapeOf(o) /\ HoldsOf(o)
    /\ Apart
    /\ NamesWhole
    /\ NoStrays

-----------------------------------------------------------------------------
(* Nodes *)

\* The nodes a file system holds.
LEMMA NodeFacts ==
    /\ Absent \in Node /\ Absent.kind = "absent" /\ Whole(Absent)
    /\ Directory \in Node /\ Directory.kind = "dir" /\ Whole(Directory)
    /\ \A c \in Contents \cup {Torn}, b \in BOOLEAN :
          /\ File(c, b) \in Node /\ File(c, b).kind = "file"
          /\ File(c, b).content = c /\ File(c, b).synced = b
  <1>1. Absent \in Node /\ Directory \in Node
    BY DEF Node
  <1>2. \A c \in Contents \cup {Torn}, b \in BOOLEAN : File(c, b) \in Node
    BY DEF Node
  <1>3. /\ Absent.kind = "absent" /\ Absent.content = NoHash /\ Absent.synced
        /\ Directory.kind = "dir" /\ Directory.content = NoHash /\ Directory.synced
    BY DEF Absent, Directory
  <1>4. \A c, b : File(c, b).kind = "file" /\ File(c, b).content = c /\ File(c, b).synced = b
    BY DEF File
  <1>5. QED
    BY <1>1, <1>2, <1>3, <1>4, FileOpsAssumption DEF Whole

\* A node that is a file.
LEMMA FileNode ==
    ASSUME NEW node \in Node
    PROVE  /\ node.kind \in {"absent", "dir", "file"}
           /\ node.synced \in BOOLEAN
           /\ node.kind = "file" => \E c \in Contents \cup {Torn}, b \in BOOLEAN : node = File(c, b)
           /\ ~node.synced => node.kind = "file"
  <1>1. CASE node = Absent \/ node = Directory
    <2>1. node.kind \in {"absent", "dir"} /\ node.synced = TRUE
      BY <1>1 DEF Absent, Directory
    <2>2. QED
      BY <2>1
  <1>2. CASE \E c \in Contents \cup {Torn}, b \in BOOLEAN : node = File(c, b)
    <2>1. PICK c \in Contents \cup {Torn}, b \in BOOLEAN : node = File(c, b)
      BY <1>2
    <2>2. node.kind = "file" /\ node.synced = b
      BY <2>1 DEF File
    <2>3. QED
      BY <2>1, <2>2
  <1>3. QED
    BY <1>1, <1>2 DEF Node

\* Filling and syncing a file gives a file.
LEMMA FileChange ==
    ASSUME NEW node \in Node, node.kind = "file", NEW c \in Contents
    PROVE  /\ [node EXCEPT !.content = c] = File(c, node.synced)
           /\ [node EXCEPT !.synced = TRUE] = File(node.content, TRUE)
           /\ node.content \in Contents \cup {Torn}
  <1>1. PICK d \in Contents \cup {Torn}, b \in BOOLEAN : node = File(d, b)
    BY FileNode
  <1>2. node.content = d /\ node.synced = b
    BY <1>1 DEF File
  <1>3. [File(d, b) EXCEPT !.content = c] = File(c, b)
    BY DEF File
  <1>4. \A v : [File(d, b) EXCEPT !.synced = v] = File(d, v)
    BY DEF File
  <1>5. QED
    BY <1>1, <1>2, <1>3, <1>4, Zenon

-----------------------------------------------------------------------------
(* One request moves *)

\* A step of one request that touches, of the temporary names, only its own and
\* leaves whole files under the others, needs checking for that request only.
LEMMA OneOp ==
    ASSUME FileInv, NEW o \in Slots,
           op' \in [Slots -> Op], \A q \in Slots : q # o => op'[q] = op[q],
           dir' \in [Entries -> Node], disk' = disk \/ disk' = dir,
           strays \subseteq strays', strays' \ strays \subseteq Temps,
           ShapeOf(o)', HoldsOf(o)',
           op'[o].tmp \in {op[o].tmp, NoHash} \/ ~Exists(op'[o].tmp),
           \A t \in Temps : dir'[t] # dir[t] => t = op[o].tmp \/ ~Exists(t),
           \A t \in Temps : dir'[t].kind # "absent" /\ (t = op[o].tmp \/ ~Exists(t))
                                => op'[o].tmp = t \/ t \in strays',
           \A n \in Names : Whole(dir'[n])
    PROVE  FileInv'
  <1>0. /\ TypeOK /\ Apart /\ NamesWhole /\ NoStrays
        /\ \A q \in Slots : ShapeOf(q) /\ HoldsOf(q) /\ op[q] \in Op
        /\ NoHash \notin Temps
    BY FileOpsAssumption DEF FileInv, TypeOK
  <1>1. TypeOK'
    BY <1>0 DEF TypeOK, Entries
  <1>2. ASSUME NEW q \in Slots, q # o, op[q].tmp # NoHash
        PROVE  /\ op[q].tmp \in Temps /\ Exists(op[q].tmp)
               /\ op[q].tmp # op[o].tmp /\ dir'[op[q].tmp] = dir[op[q].tmp]
    <2>1. op[q].tmp \in Temps
      BY <1>0, <1>2 DEF Op
    <2>2. Exists(op[q].tmp)
      BY <1>0, <1>2 DEF HoldsOf, Exists
    <2>3. op[q].tmp # op[o].tmp
      BY <1>0, <1>2 DEF Apart
    <2>4. QED
      BY <2>1, <2>2, <2>3
  <1>3. ASSUME NEW q \in Slots PROVE ShapeOf(q)' /\ HoldsOf(q)'
    <2>1. CASE q = o
      BY <2>1
    <2>2. CASE q # o
      <3>1. op'[q] = op[q] /\ ShapeOf(q) /\ HoldsOf(q)
        BY <1>0, <2>2
      <3>2. ShapeOf(q)'
        BY <3>1 DEF ShapeOf
      <3>3. HoldsOf(q)'
        BY <1>2, <2>2, <3>1 DEF HoldsOf
      <3>4. QED
        BY <3>2, <3>3
    <2>3. QED
      BY <2>1, <2>2
  <1>4. Apart'
    <2>1. ASSUME NEW q \in Slots, q # o, op'[q].tmp = op'[o].tmp, op'[o].tmp # NoHash PROVE FALSE
      <3>1. op[q].tmp # NoHash /\ op[q].tmp = op'[o].tmp
        BY <2>1
      <3>2. Exists(op[q].tmp) /\ op[q].tmp # op[o].tmp
        BY <1>2, <2>1, <3>1
      <3>3. QED
        BY <2>1, <3>1, <3>2
    <2>2. QED
      BY <1>0, <2>1 DEF Apart
  <1>5. NamesWhole'
    BY <1>0 DEF NamesWhole
  <1>6. NoStrays'
    <2> SUFFICES ASSUME NEW t \in Temps, Exists(t)', t \notin strays'
                 PROVE  \E q \in Slots : op'[q].tmp = t /\ op'[q].pc \notin {"metadata", "done"}
      BY DEF NoStrays
    <2>1. CASE t = op[o].tmp \/ ~Exists(t)
      <3>1. op'[o].tmp = t /\ op'[o].tmp # NoHash
        BY <1>0, <2>1 DEF Exists
      <3>2. op'[o].pc \notin {"metadata", "done"}
        BY <3>1 DEF ShapeOf
      <3>3. QED
        BY <3>1, <3>2
    <2>2. CASE t # op[o].tmp /\ Exists(t)
      BY <1>0, <2>2 DEF NoStrays
    <2>3. QED
      BY <2>1, <2>2
  <1>7. QED
    BY <1>1, <1>3, <1>4, <1>5, <1>6 DEF FileInv

\* A step that leaves every temporary name alone and keeps the request's own.
LEMMA NameStep ==
    ASSUME FileInv, NEW o \in Slots, op' \in [Slots -> Op],
           \A q \in Slots : q # o => op'[q] = op[q],
           op'[o].tmp = op[o].tmp, ShapeOf(o)', HoldsOf(o)',
           dir' \in [Entries -> Node], disk' = disk \/ disk' = dir,
           strays' = strays, \A t \in Temps : dir'[t] = dir[t],
           \A n \in Names : Whole(dir'[n])
    PROVE  FileInv'
  <1>1. \A t \in Temps : dir'[t].kind # "absent" => Exists(t)
    BY DEF Exists
  <1>2. \A t \in Temps : dir'[t] # dir[t] => t = op[o].tmp \/ ~Exists(t)
    OBVIOUS
  <1>3. QED
    BY <1>1, <1>2, OneOp

\* What is known of a request and of the directory.
LEMMA InvFacts ==
    ASSUME FileInv, NEW o \in Slots
    PROVE  /\ dir \in [Entries -> Node] /\ op \in [Slots -> Op] /\ op[o] \in Op
           /\ ShapeOf(o) /\ HoldsOf(o)
           /\ \A n \in Names : Whole(dir[n])
           /\ NoHash \notin Temps /\ Names \cap Temps = {}
  BY FileOpsAssumption DEF FileInv, TypeOK, Entries, NamesWhole

\* An idle slot.
LEMMA IdleFacts ==
    /\ Idle \in Op
    /\ Idle.kind = "none" /\ Idle.pc = "idle" /\ Idle.tmp = NoHash /\ Idle.committed = FALSE
  BY DEF Idle, Op

\* The two records a reply leaves.
LEMMA ReplyRecords ==
    ASSUME NEW old \in Op, NEW result \in {"none", "ok", "conflict", "notfound", "error"}
    PROVE  LET w == [Idle EXCEPT !.kind = "write", !.pc = "done", !.name = old.name,
                                 !.content = old.content, !.result = "ok", !.committed = TRUE]
               x == [Idle EXCEPT !.pc = "done", !.result = result]
           IN  /\ w \in Op /\ w.pc = "done" /\ w.tmp = NoHash /\ w.kind = "write"
               /\ w.content = old.content
               /\ x \in Op /\ x.pc = "done" /\ x.tmp = NoHash /\ x.kind = "none"
               /\ x.committed = FALSE
  <1> DEFINE w == [Idle EXCEPT !.kind = "write", !.pc = "done", !.name = old.name,
                               !.content = old.content, !.result = "ok", !.committed = TRUE]
             x == [Idle EXCEPT !.pc = "done", !.result = result]
  <1>0. old.name \in Names \cup {NoHash} /\ old.content \in Contents \cup {NoHash}
    BY DEF Op
  <1>1. w \in Op
    <2> DEFINE a == [Idle EXCEPT !.kind = "write", !.pc = "done"]
               b == [a EXCEPT !.name = old.name]
               c == [b EXCEPT !.content = old.content]
               d == [c EXCEPT !.result = "ok"]
    <2>1. a \in Op
      BY ZenonT(40) DEF Idle, Op
    <2>2. b \in Op
      <3> HIDE DEF a
      <3>1. QED
        BY <1>0, <2>1 DEF Op
    <2>3. c \in Op
      <3> HIDE DEF b
      <3>1. QED
        BY <1>0, <2>2 DEF Op
    <2>4. d \in Op
      <3> HIDE DEF c
      <3>1. QED
        BY <2>3 DEF Op
    <2>5. w = [d EXCEPT !.committed = TRUE]
      OBVIOUS
    <2> HIDE DEF w, d
    <2>6. QED
      BY <2>4, <2>5 DEF Op
  <1>2. w.pc = "done" /\ w.tmp = NoHash /\ w.kind = "write" /\ w.content = old.content
    BY DEF Idle
  <1>3. x \in Op
    BY ZenonT(40) DEF Idle, Op
  <1>4. x.pc = "done" /\ x.tmp = NoHash /\ x.kind = "none" /\ x.committed = FALSE
    BY DEF Idle
  <1>5. QED
    BY <1>1, <1>2, <1>3, <1>4

\* A reply ends a request that has no temporary file.
LEMMA FinishStep ==
    ASSUME FileInv, NEW o \in Slots, NEW result \in {"ok", "conflict", "notfound", "error"},
           Finish(o, result), op[o].pc # "cleanup", op[o].tmp = NoHash,
           dir' \in [Entries -> Node], disk' = disk,
           strays' = strays, \A t \in Temps : dir'[t] = dir[t],
           \A n \in Names : Whole(dir'[n])
    PROVE  FileInv'
  <1>0. op \in [Slots -> Op] /\ op[o] \in Op /\ ShapeOf(o)
    BY InvFacts
  <1> DEFINE w == [Idle EXCEPT !.kind = "write", !.pc = "done", !.name = op[o].name,
                               !.content = op[o].content, !.result = "ok", !.committed = TRUE]
             x == [Idle EXCEPT !.pc = "done", !.result = result]
  <1>1. CASE op[o].kind = "write" /\ result = "ok"
    <2>1. w \in Op /\ w.pc = "done" /\ w.tmp = NoHash /\ w.kind = "write" /\ w.content = op[o].content
      BY <1>0, ReplyRecords
    <2>2. op[o].content \in Contents
      BY <1>0, <1>1 DEF ShapeOf
    <2>3. op' = [op EXCEPT ![o] = w]
      BY <1>1 DEF Finish
    <2> HIDE DEF w
    <2>4. /\ op' \in [Slots -> Op] /\ op'[o] = w
          /\ \A q \in Slots : q # o => op'[q] = op[q]
      BY <1>0, <2>1, <2>3
    <2>5. ShapeOf(o)' /\ HoldsOf(o)'
      BY <2>1, <2>2, <2>4 DEF ShapeOf, HoldsOf
    <2>6. QED
      BY <2>1, <2>4, <2>5, NameStep
  <1>2. CASE ~(op[o].kind = "write" /\ result = "ok")
    <2>1. x \in Op /\ x.pc = "done" /\ x.tmp = NoHash /\ x.kind = "none"
      BY <1>0, ReplyRecords, ZenonT(40)
    <2>2. op' = [op EXCEPT ![o] = x]
      BY <1>2 DEF Finish
    <2> HIDE DEF x
    <2>3. /\ op' \in [Slots -> Op] /\ op'[o] = x
          /\ \A q \in Slots : q # o => op'[q] = op[q]
      BY <1>0, <2>1, <2>2
    <2>4. ShapeOf(o)' /\ HoldsOf(o)'
      BY <2>1, <2>3 DEF ShapeOf, HoldsOf
    <2>5. QED
      BY <2>1, <2>3, <2>4, NameStep
  <1>3. QED
    BY <1>1, <1>2

\* A reply that changes no entry.
LEMMA FinishQuietly ==
    ASSUME FileInv, NEW o \in Slots, NEW result \in {"ok", "conflict", "notfound", "error"},
           Finish(o, result), op[o].pc # "cleanup", op[o].tmp = NoHash,
           UNCHANGED <<dir, disk, strays>>
    PROVE  FileInv'
  BY InvFacts, FinishStep

\* The effect of Goto.
LEMMA GotoFacts ==
    ASSUME op \in [Slots -> Op], NEW o \in Slots,
           NEW pc \in {"compare", "create", "sync", "syncdir", "commit", "stat_dst",
                       "remove_file", "remove_dir", "create_dir", "metadata"},
           Goto(o, pc)
    PROVE  /\ op' \in [Slots -> Op] /\ op'[o] = [op[o] EXCEPT !.pc = pc]
           /\ op'[o].pc = pc /\ op'[o].kind = op[o].kind /\ op'[o].name = op[o].name
           /\ op'[o].dst = op[o].dst /\ op'[o].content = op[o].content
           /\ op'[o].tmp = op[o].tmp /\ op'[o].committed = op[o].committed
           /\ op'[o].result = op[o].result /\ op'[o].overwrite = op[o].overwrite
           /\ \A q \in Slots : q # o => op'[q] = op[q]
  <1> DEFINE new == [op[o] EXCEPT !.pc = pc]
  <1>1. op[o] \in Op
    OBVIOUS
  <1>2. /\ new \in Op
        /\ new.pc = pc /\ new.kind = op[o].kind /\ new.name = op[o].name
        /\ new.dst = op[o].dst /\ new.content = op[o].content
        /\ new.tmp = op[o].tmp /\ new.committed = op[o].committed
        /\ new.result = op[o].result /\ new.overwrite = op[o].overwrite
    BY <1>1 DEF Op
  <1>3. op' = [op EXCEPT ![o] = new]
    BY DEF Goto
  <1>4. /\ op'[o] = new /\ op' \in [Slots -> Op]
        /\ \A q \in Slots : q # o => op'[q] = op[q]
    <2> HIDE DEF new
    <2>1. QED
      BY <1>2, <1>3
  <1>5. QED
    BY <1>2, <1>4

\* A request that has no temporary file yet moves on.
LEMMA GotoQuietly ==
    ASSUME FileInv, NEW o \in Slots, op[o].tmp = NoHash, op[o].pc \in {"stat", "compare", "stat_dst"},
           NEW pc, Goto(o, pc), UNCHANGED <<dir, disk, strays>>,
           \/ pc \in {"compare", "create"} /\ op[o].kind = "write"
           \/ pc \in {"stat_dst", "commit"} /\ op[o].kind = "rename"
           \/ pc \in {"remove_file", "remove_dir"} /\ op[o].kind = "delete"
           \/ pc \in {"create_dir", "metadata"} /\ op[o].kind = "mkdir"
    PROVE  FileInv'
  <1>0. op \in [Slots -> Op] /\ op[o] \in Op /\ ShapeOf(o) /\ dir \in [Entries -> Node]
        /\ \A n \in Names : Whole(dir[n])
    BY InvFacts
  <1>1. /\ op' \in [Slots -> Op]
        /\ op'[o].pc = pc /\ op'[o].kind = op[o].kind /\ op'[o].name = op[o].name
        /\ op'[o].dst = op[o].dst /\ op'[o].content = op[o].content
        /\ op'[o].tmp = op[o].tmp
        /\ \A q \in Slots : q # o => op'[q] = op[q]
    BY <1>0, GotoFacts
  <1>2. ShapeOf(o)' /\ HoldsOf(o)'
    BY <1>0, <1>1 DEF ShapeOf, HoldsOf
  <1>3. QED
    BY <1>0, <1>1, <1>2, NameStep

\* A request that gives up keeps its temporary file until it has removed it.
LEMMA AbandonStep ==
    ASSUME FileInv, NEW o \in Slots, op[o].tmp # NoHash, NEW result \in {"error", "conflict"},
           Abandon(o, result), UNCHANGED <<dir, disk, strays>>
    PROVE  FileInv'
  <1>0. /\ op \in [Slots -> Op] /\ op[o] \in Op /\ ShapeOf(o) /\ HoldsOf(o)
        /\ dir \in [Entries -> Node] /\ \A n \in Names : Whole(dir[n])
    BY InvFacts
  <1> DEFINE new == [Idle EXCEPT !.kind = "write", !.pc = "cleanup", !.tmp = op[o].tmp,
                                 !.result = result]
  <1>1. /\ new \in Op /\ new.pc = "cleanup" /\ new.tmp = op[o].tmp /\ new.kind = "write"
        /\ new.result = result
    BY <1>0, ZenonT(40) DEF Op, Idle
  <1>2. op' = [op EXCEPT ![o] = new]
    BY DEF Abandon
  <1> HIDE DEF new
  <1>3. /\ op' \in [Slots -> Op] /\ op'[o] = new
        /\ \A q \in Slots : q # o => op'[q] = op[q]
    BY <1>0, <1>1, <1>2
  <1>4. ShapeOf(o)' /\ HoldsOf(o)'
    BY <1>0, <1>1, <1>3 DEF ShapeOf, HoldsOf
  <1>5. QED
    BY <1>0, <1>1, <1>3, <1>4, NameStep

-----------------------------------------------------------------------------
(* Requests begin and fail *)

\* A slot that is free takes a new request, which has no temporary file.
LEMMA TakeStep ==
    ASSUME FileInv, NEW o \in Slots, op[o].pc = "idle", NEW new \in Op,
           op' = [op EXCEPT ![o] = new], UNCHANGED <<dir, disk, strays>>,
           new.pc = "stat", new.name \in Names, new.tmp = NoHash,
           new.kind = "rename" => new.dst \in Names,
           new.kind = "write" => new.content \in Contents
    PROVE  FileInv'
  <1>0. /\ op \in [Slots -> Op] /\ ShapeOf(o)
        /\ dir \in [Entries -> Node] /\ \A n \in Names : Whole(dir[n])
    BY InvFacts
  <1>1. /\ op' \in [Slots -> Op] /\ op'[o] = new
        /\ \A q \in Slots : q # o => op'[q] = op[q]
    BY <1>0
  <1>2. op[o].tmp = NoHash
    BY <1>0 DEF ShapeOf
  <1>3. ShapeOf(o)' /\ HoldsOf(o)'
    BY <1>1 DEF ShapeOf, HoldsOf
  <1>4. QED
    BY <1>0, <1>1, <1>2, <1>3, NameStep

\* Beginning a request keeps the invariant.
LEMMA BeginStep ==
    ASSUME FileInv, NEW o \in Slots, Begin(o)
    PROVE  FileInv'
  <1>1. ASSUME BeginWrite(o) PROVE FileInv'
    <2>1. PICK n \in Names, c \in Contents, w \in BOOLEAN, h \in Contents \cup {NoHash} :
             op' = [op EXCEPT ![o] =
                      [Idle EXCEPT !.kind = "write", !.pc = "stat", !.name = n, !.content = c,
                                   !.overwrite = w, !.expected = h]]
      BY <1>1 DEF BeginWrite
    <2> DEFINE a == [Idle EXCEPT !.kind = "write", !.pc = "stat"]
               b == [a EXCEPT !.name = n]
               d == [b EXCEPT !.content = c]
               e == [d EXCEPT !.overwrite = w]
               new == [e EXCEPT !.expected = h]
    <2>2. op' = [op EXCEPT ![o] = new]
      BY <2>1
    <2>3. a \in Op /\ a.kind = "write" /\ a.pc = "stat" /\ a.tmp = NoHash
      BY DEF Idle, Op
    <2> HIDE DEF a
    <2>4. b \in Op /\ b.kind = "write" /\ b.pc = "stat" /\ b.tmp = NoHash /\ b.name = n
      BY <2>3 DEF Op
    <2> HIDE DEF b
    <2>5. /\ d \in Op /\ d.kind = "write" /\ d.pc = "stat" /\ d.tmp = NoHash /\ d.name = n
          /\ d.content = c
      BY <2>4 DEF Op
    <2> HIDE DEF d
    <2>6. /\ e \in Op /\ e.kind = "write" /\ e.pc = "stat" /\ e.tmp = NoHash /\ e.name = n
          /\ e.content = c
      BY <2>5 DEF Op
    <2> HIDE DEF e
    <2>7. /\ new \in Op /\ new.kind = "write" /\ new.pc = "stat" /\ new.tmp = NoHash
          /\ new.name = n /\ new.content = c
      BY <2>6 DEF Op
    <2> HIDE DEF new
    <2>8. QED
      BY <1>1, <2>2, <2>7, TakeStep DEF BeginWrite
  <1>2. ASSUME BeginRename(o) PROVE FileInv'
    <2>1. PICK n \in Names, d \in Names :
             op' = [op EXCEPT ![o] =
                      [Idle EXCEPT !.kind = "rename", !.pc = "stat", !.name = n, !.dst = d]]
      BY <1>2 DEF BeginRename
    <2> DEFINE new == [Idle EXCEPT !.kind = "rename", !.pc = "stat", !.name = n, !.dst = d]
    <2>2. op' = [op EXCEPT ![o] = new]
      BY <2>1
    <2>3. new \in Op
      BY DEF Idle, Op
    <2>4. /\ new.kind = "rename" /\ new.pc = "stat" /\ new.name = n
          /\ new.dst = d /\ new.tmp = NoHash
      BY DEF Idle
    <2> HIDE DEF new
    <2>5. QED
      BY <1>2, <2>2, <2>3, <2>4, TakeStep DEF BeginRename
  <1>3. ASSUME BeginOther(o) PROVE FileInv'
    <2>1. PICK n \in Names, k \in {"delete", "mkdir"} :
             op' = [op EXCEPT ![o] = [Idle EXCEPT !.kind = k, !.pc = "stat", !.name = n]]
      BY <1>3 DEF BeginOther
    <2> DEFINE new == [Idle EXCEPT !.kind = k, !.pc = "stat", !.name = n]
    <2>2. op' = [op EXCEPT ![o] = new]
      BY <2>1
    <2>3. new \in Op
      BY DEF Idle, Op
    <2>4. new.kind = k /\ new.pc = "stat" /\ new.name = n /\ new.tmp = NoHash
      BY DEF Idle
    <2> HIDE DEF new
    <2>5. QED
      BY <1>3, <2>2, <2>3, <2>4, TakeStep DEF BeginOther
  <1>4. QED
    BY <1>1, <1>2, <1>3 DEF Begin

\* Failing keeps the invariant.
LEMMA FailsStep ==
    ASSUME FileInv, NEW o \in Slots, Fails(o)
    PROVE  FileInv'
  <1>1. CASE op[o].tmp # NoHash
    BY <1>1, AbandonStep DEF Fails
  <1>2. CASE op[o].tmp = NoHash
    BY <1>2, FinishQuietly DEF Fails
  <1>3. QED
    BY <1>1, <1>2

-----------------------------------------------------------------------------
(* write_file *)

\* What is found under the name of a request in progress.
LEMMA NamedNode ==
    ASSUME FileInv, NEW o \in Slots, NEW n \in Names
    PROVE  /\ dir[n] \in Node /\ dir[n].kind \in {"absent", "dir", "file"}
           /\ n \in Entries /\ n \notin Temps
  <1>1. dir[n] \in Node /\ n \in Entries /\ n \notin Temps
    BY InvFacts DEF Entries
  <1>2. QED
    BY <1>1, FileNode

\* The look at the target of a write.
LEMMA WriteStatStep ==
    ASSUME FileInv, NEW o \in Slots, WriteStat(o)
    PROVE  FileInv'
  <1>0. op[o].kind = "write" /\ op[o].pc = "stat" /\ UNCHANGED <<dir, disk, strays>>
    BY DEF WriteStat
  <1>1. ShapeOf(o)
    BY InvFacts
  <1>2. op[o].tmp = NoHash /\ op[o].name \in Names
    BY <1>0, <1>1 DEF ShapeOf
  <1>3. dir[op[o].name].kind \in {"absent", "dir", "file"}
    BY <1>2, NamedNode
  <1>4. CASE dir[op[o].name].kind = "dir"
    <2>1. Finish(o, "error")
      BY <1>4 DEF WriteStat
    <2>2. QED
      BY <1>0, <1>2, <2>1, FinishQuietly
  <1>5. CASE dir[op[o].name].kind = "absent"
    <2>1. Goto(o, "create") \/ Finish(o, "conflict")
      BY <1>5 DEF WriteStat
    <2>2. QED
      BY <1>0, <1>2, <2>1, FinishQuietly, GotoQuietly
  <1>6. CASE dir[op[o].name].kind = "file" /\ ~op[o].overwrite
    <2>1. Finish(o, "conflict")
      BY <1>6 DEF WriteStat
    <2>2. QED
      BY <1>0, <1>2, <2>1, FinishQuietly
  <1>7. CASE dir[op[o].name].kind = "file" /\ op[o].overwrite
    <2>1. Goto(o, "create") \/ Goto(o, "compare")
      BY <1>7 DEF WriteStat
    <2>2. QED
      BY <1>0, <1>2, <2>1, GotoQuietly
  <1>8. QED
    BY <1>3, <1>4, <1>5, <1>6, <1>7

\* The comparison with the expected hash.
LEMMA CompareStep ==
    ASSUME FileInv, NEW o \in Slots, Compare(o)
    PROVE  FileInv'
  <1>0. op[o].pc = "compare" /\ UNCHANGED <<dir, disk, strays>>
    BY DEF Compare
  <1>1. ShapeOf(o)
    BY InvFacts
  <1>2. op[o].tmp = NoHash /\ op[o].kind = "write"
    BY <1>0, <1>1 DEF ShapeOf
  <1>3. Goto(o, "create") \/ Finish(o, "error") \/ Finish(o, "conflict")
    BY DEF Compare
  <1>4. QED
    BY <1>0, <1>2, <1>3, FinishQuietly, GotoQuietly

\* The temporary file is made under a name that was free.
LEMMA CreateTempStep ==
    ASSUME FileInv, NEW o \in Slots, CreateTemp(o)
    PROVE  FileInv'
  <1>0. /\ op \in [Slots -> Op] /\ op[o] \in Op /\ ShapeOf(o) /\ dir \in [Entries -> Node]
        /\ \A n \in Names : Whole(dir[n])
        /\ NoHash \notin Temps /\ Names \cap Temps = {}
    BY InvFacts
  <1>1. PICK t \in Temps : /\ ~Exists(t)
                          /\ dir' = [dir EXCEPT ![t] = File(Torn, FALSE)]
                          /\ op' = [op EXCEPT ![o].pc = "fill", ![o].tmp = t]
    BY DEF CreateTemp
  <1>2. op[o].pc = "create" /\ disk' = disk /\ strays' = strays
    BY DEF CreateTemp
  <1>3. File(Torn, FALSE) \in Node /\ File(Torn, FALSE).kind = "file"
    BY NodeFacts
  <1>4. /\ dir' \in [Entries -> Node] /\ dir'[t].kind = "file"
        /\ \A e \in Entries : e # t => dir'[e] = dir[e]
    BY <1>0, <1>1, <1>3 DEF Entries
  <1> DEFINE new == [op[o] EXCEPT !.pc = "fill", !.tmp = t]
  <1>5. /\ new \in Op /\ new.pc = "fill" /\ new.tmp = t /\ new.kind = op[o].kind
        /\ new.name = op[o].name /\ new.dst = op[o].dst /\ new.content = op[o].content
    BY <1>0, ZenonT(40) DEF Op
  <1>6. op' = [op EXCEPT ![o] = new]
    BY <1>1
  <1> HIDE DEF new
  <1>7. /\ op' \in [Slots -> Op] /\ op'[o] = new
        /\ \A q \in Slots : q # o => op'[q] = op[q]
    BY <1>0, <1>5, <1>6
  <1>8. op[o].tmp = NoHash
    BY <1>0, <1>2 DEF ShapeOf
  <1>9. ShapeOf(o)' /\ HoldsOf(o)'
    BY <1>0, <1>2, <1>4, <1>5, <1>7 DEF ShapeOf, HoldsOf
  <1>10. \A n \in Names : Whole(dir'[n])
    BY <1>0, <1>4 DEF Entries
  <1>11. /\ \A u \in Temps : dir'[u] # dir[u] => ~Exists(u)
         /\ \A u \in Temps : dir'[u].kind # "absent" /\ (u = op[o].tmp \/ ~Exists(u)) => u = t
    BY <1>0, <1>1, <1>4, <1>8 DEF Exists, Entries
  <1>12. op'[o].tmp = t /\ ~Exists(op'[o].tmp)
    BY <1>1, <1>5, <1>7
  <1>13. QED
    BY <1>2, <1>4, <1>7, <1>9, <1>10, <1>11, <1>12, OneOp

\* A step that changes only the request's own temporary file and phase.
LEMMA OwnFileStep ==
    ASSUME FileInv, NEW o \in Slots, NEW pc \in {"sync", "syncdir", "commit"}, Goto(o, pc),
           op[o].tmp # NoHash, op[o].kind = "write", op[o].pc # "cleanup", op[o].pc # "metadata",
           NEW node \in Node, node.kind = "file", dir' = [dir EXCEPT ![op[o].tmp] = node],
           node.content = op[o].content, pc # "sync" => node.synced,
           disk' = disk \/ disk' = dir, strays' = strays
    PROVE  FileInv'
  <1>0. /\ op \in [Slots -> Op] /\ op[o] \in Op /\ ShapeOf(o) /\ dir \in [Entries -> Node]
        /\ \A n \in Names : Whole(dir[n])
        /\ NoHash \notin Temps /\ Names \cap Temps = {}
    BY InvFacts
  <1>1. op[o].tmp \in Temps /\ op[o].tmp \in Entries
    BY <1>0 DEF Op, Entries
  <1>2. /\ op' \in [Slots -> Op] /\ op'[o].pc = pc /\ op'[o].kind = "write"
        /\ op'[o].name = op[o].name /\ op'[o].content = op[o].content
        /\ op'[o].tmp = op[o].tmp
        /\ \A q \in Slots : q # o => op'[q] = op[q]
    BY <1>0, GotoFacts, ZenonT(40)
  <1>3. /\ dir' \in [Entries -> Node] /\ dir'[op[o].tmp] = node
        /\ \A e \in Entries : e # op[o].tmp => dir'[e] = dir[e]
    BY <1>0, <1>1
  <1>4. ShapeOf(o)' /\ HoldsOf(o)'
    BY <1>0, <1>2, <1>3 DEF ShapeOf, HoldsOf
  <1>5. \A n \in Names : Whole(dir'[n])
    BY <1>0, <1>1, <1>3 DEF Entries
  <1>6. /\ \A t \in Temps : dir'[t] # dir[t] => t = op[o].tmp
        /\ \A t \in Temps : dir'[t].kind # "absent" => t = op[o].tmp \/ Exists(t)
    BY <1>3 DEF Entries, Exists
  <1>7. QED
    BY <1>2, <1>3, <1>4, <1>5, <1>6, OneOp

\* Writing, syncing the file and syncing the directory.
LEMMA FillStep ==
    ASSUME FileInv, NEW o \in Slots, Fill(o) \/ Sync(o) \/ SyncDir(o)
    PROVE  FileInv'
  <1>0. /\ op[o] \in Op /\ ShapeOf(o) /\ HoldsOf(o) /\ dir \in [Entries -> Node]
        /\ op[o].pc \in {"fill", "sync", "syncdir"}
    BY InvFacts DEF Fill, Sync, SyncDir
  <1>1. op[o].tmp # NoHash /\ op[o].kind = "write" /\ op[o].content \in Contents
    BY <1>0 DEF ShapeOf
  <1>2. /\ dir[op[o].tmp] \in Node /\ dir[op[o].tmp].kind = "file"
        /\ op[o].tmp \in Entries
    BY <1>0, <1>1 DEF HoldsOf, Op, Entries
  <1> DEFINE node == dir[op[o].tmp]
             c == op[o].content
  <1>3. /\ [node EXCEPT !.content = c] = File(c, node.synced)
        /\ [node EXCEPT !.synced = TRUE] = File(node.content, TRUE)
        /\ node.content \in Contents \cup {Torn}
    BY <1>1, <1>2, FileChange
  <1>4. node.synced \in BOOLEAN
    BY <1>2, FileNode
  <1>5. CASE Fill(o)
    <2>1. dir' = [dir EXCEPT ![op[o].tmp] = File(c, node.synced)]
      BY <1>3, <1>5 DEF Fill
    <2>2. /\ File(c, node.synced) \in Node /\ File(c, node.synced).kind = "file"
          /\ File(c, node.synced).content = c
      BY <1>1, <1>4, NodeFacts
    <2>3. QED
      BY <1>0, <1>1, <1>5, <2>1, <2>2, OwnFileStep DEF Fill
  <1>6. CASE Sync(o)
    <2>1. dir' = [dir EXCEPT ![op[o].tmp] = File(node.content, TRUE)]
      BY <1>3, <1>6 DEF Sync
    <2>2. node.content = c
      BY <1>0, <1>1, <1>6 DEF HoldsOf, Sync
    <2>3. /\ File(node.content, TRUE) \in Node /\ File(node.content, TRUE).kind = "file"
          /\ File(node.content, TRUE).content = c /\ File(node.content, TRUE).synced = TRUE
      BY <1>3, <2>2, NodeFacts
    <2>4. QED
      BY <1>0, <1>1, <1>6, <2>1, <2>3, OwnFileStep DEF Sync
  <1>7. CASE SyncDir(o)
    <2>1. dir' = [dir EXCEPT ![op[o].tmp] = node]
      BY <1>0, <1>7 DEF SyncDir
    <2>2. node.content = c /\ node.synced
      BY <1>0, <1>1, <1>7 DEF HoldsOf, SyncDir
    <2>3. /\ disk' = disk \/ disk' = dir
          /\ strays' = strays
          /\ Goto(o, "commit") /\ op[o].pc = "syncdir"
      BY <1>7 DEF SyncDir
    <2>4. QED
      BY <1>1, <1>2, <2>1, <2>2, <2>3, OwnFileStep
  <1>8. QED
    BY <1>5, <1>6, <1>7

\* What a rename in the directory changes.
LEMMA MovedFacts ==
    ASSUME dir \in [Entries -> Node], NEW src \in Entries, NEW dst \in Entries, src # dst,
           dir' = Moved(src, dst)
    PROVE  /\ dir' \in [Entries -> Node] /\ dir'[dst] = dir[src] /\ dir'[src] = Absent
           /\ \A e \in Entries : e # src /\ e # dst => dir'[e] = dir[e]
  <1>1. Absent \in Node /\ dir[src] \in Node
    BY NodeFacts
  <1>2. QED
    BY <1>1 DEF Moved

\* The rename of the temporary file, or giving up because it was refused.
LEMMA CommitStep ==
    ASSUME FileInv, NEW o \in Slots, Commit(o)
    PROVE  FileInv'
  <1>0. /\ op \in [Slots -> Op] /\ op[o] \in Op /\ ShapeOf(o) /\ HoldsOf(o)
        /\ dir \in [Entries -> Node] /\ \A n \in Names : Whole(dir[n])
        /\ NoHash \notin Temps /\ Names \cap Temps = {}
    BY InvFacts
  <1>1. /\ op[o].pc = "commit" /\ op[o].kind = "write" /\ disk' = disk
        /\ strays' = strays
    BY DEF Commit
  <1>2. /\ op[o].tmp # NoHash /\ op[o].tmp \in Temps /\ op[o].name \in Names
        /\ op[o].content \in Contents
    BY <1>0, <1>1 DEF ShapeOf, Op
  <1>3. CASE UNCHANGED dir /\ (Abandon(o, "error") \/ Abandon(o, "conflict"))
    BY <1>1, <1>2, <1>3, AbandonStep
  <1>4. CASE /\ dir' = Moved(op[o].tmp, op[o].name)
             /\ op' = [op EXCEPT ![o].pc = "metadata", ![o].committed = TRUE,
                                  ![o].overwrite = FALSE, ![o].expected = NoHash,
                                  ![o].tmp = NoHash]
    <2>1. op[o].tmp \in Entries /\ op[o].name \in Entries /\ op[o].tmp # op[o].name
      BY <1>0, <1>2 DEF Entries
    <2>2. /\ dir' \in [Entries -> Node] /\ dir'[op[o].name] = dir[op[o].tmp]
          /\ dir'[op[o].tmp] = Absent
          /\ \A e \in Entries : e # op[o].tmp /\ e # op[o].name => dir'[e] = dir[e]
      BY <1>0, <1>4, <2>1, MovedFacts
    <2>3. Whole(dir[op[o].tmp])
      BY <1>0, <1>1, <1>2, FileOpsAssumption DEF HoldsOf, Whole
    <2>4. \A n \in Names : Whole(dir'[n])
      <3> SUFFICES ASSUME NEW n \in Names PROVE Whole(dir'[n])
        OBVIOUS
      <3>1. CASE n = op[o].name
        BY <2>2, <2>3, <3>1
      <3>2. CASE n # op[o].name
        BY <1>0, <1>2, <2>2, <3>2 DEF Entries
      <3>3. QED
        BY <3>1, <3>2
    <2> DEFINE a == [op[o] EXCEPT !.pc = "metadata"]
               b == [a EXCEPT !.committed = TRUE]
               c == [b EXCEPT !.overwrite = FALSE]
               d == [c EXCEPT !.expected = NoHash]
               new == [d EXCEPT !.tmp = NoHash]
    <2>5. op' = [op EXCEPT ![o] = new]
      BY <1>4
    <2>6. /\ a \in Op /\ a.pc = "metadata" /\ a.kind = "write" /\ a.name = op[o].name
          /\ a.content = op[o].content
      BY <1>0, <1>1 DEF Op
    <2> HIDE DEF a
    <2>7. /\ b \in Op /\ b.pc = "metadata" /\ b.kind = "write" /\ b.name = op[o].name
          /\ b.content = op[o].content /\ b.committed
      BY <2>6 DEF Op
    <2> HIDE DEF b
    <2>8. /\ c \in Op /\ c.pc = "metadata" /\ c.kind = "write" /\ c.name = op[o].name
          /\ c.content = op[o].content /\ c.committed
      BY <2>7 DEF Op
    <2> HIDE DEF c
    <2>9. /\ d \in Op /\ d.pc = "metadata" /\ d.kind = "write" /\ d.name = op[o].name
          /\ d.content = op[o].content /\ d.committed
      BY <2>8 DEF Op
    <2> HIDE DEF d
    <2>10. /\ new \in Op /\ new.pc = "metadata" /\ new.kind = "write" /\ new.name = op[o].name
           /\ new.content = op[o].content /\ new.committed /\ new.tmp = NoHash
      BY <2>9 DEF Op
    <2> HIDE DEF new
    <2>11. /\ op' \in [Slots -> Op] /\ op'[o] = new
           /\ \A q \in Slots : q # o => op'[q] = op[q]
      BY <1>0, <2>5, <2>10
    <2>12. ShapeOf(o)' /\ HoldsOf(o)'
      BY <1>2, <2>10, <2>11 DEF ShapeOf, HoldsOf
    <2>13. /\ \A t \in Temps : dir'[t] # dir[t] => t = op[o].tmp
           /\ \A t \in Temps : dir'[t].kind # "absent" => t # op[o].tmp /\ Exists(t)
      BY <1>0, <1>2, <2>2, NodeFacts DEF Exists, Entries
    <2>14. op'[o].tmp = NoHash
      BY <2>10, <2>11
    <2>15. QED
      BY <1>1, <2>2, <2>4, <2>11, <2>12, <2>13, <2>14, OneOp
  <1>5. QED
    BY <1>3, <1>4 DEF Commit

\* The removal of the temporary file of a failed write, or its failure.
LEMMA CleanupStep ==
    ASSUME FileInv, NEW o \in Slots, Cleanup(o)
    PROVE  FileInv'
  <1>0. /\ op \in [Slots -> Op] /\ op[o] \in Op /\ ShapeOf(o)
        /\ dir \in [Entries -> Node] /\ \A n \in Names : Whole(dir[n])
        /\ NoHash \notin Temps /\ Names \cap Temps = {}
    BY InvFacts
  <1>1. /\ op[o].pc = "cleanup" /\ Finish(o, op[o].result) /\ disk' = disk
        /\ \/ dir' = [dir EXCEPT ![op[o].tmp] = Absent] /\ strays' = strays
           \/ dir' = dir /\ strays' = strays \cup {op[o].tmp}
    BY DEF Cleanup
  <1>2. op[o].tmp \in Temps /\ op[o].result \in {"error", "conflict"}
    BY <1>0, <1>1 DEF ShapeOf, Op
  <1>3. /\ dir' \in [Entries -> Node]
        /\ dir'[op[o].tmp].kind = "absent" \/ op[o].tmp \in strays'
        /\ \A e \in Entries : e # op[o].tmp => dir'[e] = dir[e]
        /\ strays \subseteq strays' /\ strays' \ strays \subseteq Temps
    BY <1>0, <1>1, <1>2, NodeFacts DEF Entries
  <1> DEFINE x == [Idle EXCEPT !.pc = "done", !.result = op[o].result]
  <1>4. op' = [op EXCEPT ![o] = x]
    BY <1>1, <1>2 DEF Finish
  <1>5. x \in Op /\ x.pc = "done" /\ x.tmp = NoHash /\ x.kind = "none"
    BY <1>0, <1>2, ReplyRecords
  <1> HIDE DEF x
  <1>6. /\ op' \in [Slots -> Op] /\ op'[o] = x
        /\ \A q \in Slots : q # o => op'[q] = op[q]
    BY <1>0, <1>4, <1>5
  <1>7. ShapeOf(o)' /\ HoldsOf(o)' /\ op'[o].tmp = NoHash
    BY <1>5, <1>6 DEF ShapeOf, HoldsOf
  <1>8. \A n \in Names : Whole(dir'[n])
    BY <1>0, <1>2, <1>3 DEF Entries
  <1>9. /\ \A t \in Temps : dir'[t] # dir[t] => t = op[o].tmp
        /\ \A t \in Temps : dir'[t].kind # "absent" => t \in strays' \/ (t # op[o].tmp /\ Exists(t))
    BY <1>3 DEF Exists, Entries
  <1>10. QED
    BY <1>1, <1>3, <1>6, <1>7, <1>8, <1>9, OneOp

\* The metadata of the target.
LEMMA MetadataStep ==
    ASSUME FileInv, NEW o \in Slots, Metadata(o)
    PROVE  FileInv'
  <1>0. op[o].pc = "metadata" /\ UNCHANGED <<dir, disk, strays>>
    BY DEF Metadata
  <1>1. ShapeOf(o)
    BY InvFacts
  <1>2. op[o].tmp = NoHash
    BY <1>0, <1>1 DEF ShapeOf
  <1>3. Finish(o, "ok") \/ Finish(o, "notfound")
    BY DEF Metadata
  <1>4. QED
    BY <1>0, <1>2, <1>3, FinishQuietly

-----------------------------------------------------------------------------
(* rename_path, delete_path, create_directory *)

\* The looks that change no entry.
LEMMA LookStep ==
    ASSUME FileInv, NEW o \in Slots,
           RenameStat(o) \/ RenameStatDst(o) \/ DeleteStat(o) \/ MkdirStat(o)
    PROVE  FileInv'
  <1>0. op[o].pc \in {"stat", "stat_dst"} /\ UNCHANGED <<dir, disk, strays>>
    BY DEF RenameStat, RenameStatDst, DeleteStat, MkdirStat
  <1>1. ShapeOf(o)
    BY InvFacts
  <1>2. /\ op[o].tmp = NoHash /\ op[o].name \in Names
        /\ op[o].pc = "stat_dst" => op[o].kind = "rename"
    BY <1>0, <1>1 DEF ShapeOf
  <1>3. dir[op[o].name].kind \in {"absent", "dir", "file"}
    BY <1>2, NamedNode
  <1>4. \/ \E r \in {"ok", "conflict", "notfound"} : Finish(o, r)
        \/ \E pc : /\ Goto(o, pc)
                   /\ \/ pc \in {"stat_dst", "commit"} /\ op[o].kind = "rename"
                      \/ pc \in {"remove_file", "remove_dir"} /\ op[o].kind = "delete"
                      \/ pc \in {"create_dir", "metadata"} /\ op[o].kind = "mkdir"
    <2>1. CASE RenameStat(o)
      BY <2>1 DEF RenameStat
    <2>2. CASE RenameStatDst(o)
      BY <1>2, <2>2 DEF RenameStatDst
    <2>3. CASE DeleteStat(o)
      <3>1. op[o].kind = "delete"
        BY <2>3 DEF DeleteStat
      <3>2. Finish(o, "notfound") \/ Goto(o, "remove_file") \/ Goto(o, "remove_dir")
        BY <1>3, <2>3 DEF DeleteStat
      <3>3. QED
        BY <3>1, <3>2
    <2>4. CASE MkdirStat(o)
      <3>1. op[o].kind = "mkdir"
        BY <2>4 DEF MkdirStat
      <3>2. Finish(o, "conflict") \/ Goto(o, "metadata") \/ Goto(o, "create_dir")
        BY <1>3, <2>4 DEF MkdirStat
      <3>3. QED
        BY <3>1, <3>2
    <2>5. QED
      BY <2>1, <2>2, <2>3, <2>4
  <1>5. QED
    BY <1>0, <1>2, <1>4, FinishQuietly, GotoQuietly

\* The rename of an entry.
LEMMA RenameStep ==
    ASSUME FileInv, NEW o \in Slots, Rename(o)
    PROVE  FileInv'
  <1>0. /\ op \in [Slots -> Op] /\ op[o] \in Op /\ ShapeOf(o)
        /\ dir \in [Entries -> Node] /\ \A n \in Names : Whole(dir[n])
        /\ Names \cap Temps = {}
    BY InvFacts
  <1>1. /\ op[o].pc = "commit" /\ op[o].kind = "rename" /\ disk' = disk
        /\ strays' = strays
    BY DEF Rename
  <1>2. op[o].tmp = NoHash /\ op[o].name \in Names /\ op[o].dst \in Names
    BY <1>0, <1>1 DEF ShapeOf
  <1>3. CASE UNCHANGED dir /\ (Finish(o, "conflict") \/ Finish(o, "notfound"))
    BY <1>1, <1>2, <1>3, FinishQuietly
  <1>4. CASE /\ CanMove(op[o].name, op[o].dst)
             /\ dir' = Moved(op[o].name, op[o].dst)
             /\ op' = [op EXCEPT ![o].pc = "metadata", ![o].committed = TRUE]
    <2>1. /\ op[o].name \in Entries /\ op[o].dst \in Entries /\ op[o].name # op[o].dst
      BY <1>2, <1>4 DEF Entries, CanMove
    <2>2. /\ dir' \in [Entries -> Node] /\ dir'[op[o].dst] = dir[op[o].name]
          /\ dir'[op[o].name] = Absent
          /\ \A e \in Entries : e # op[o].name /\ e # op[o].dst => dir'[e] = dir[e]
      BY <1>0, <1>4, <2>1, MovedFacts
    <2>3. \A n \in Names : Whole(dir'[n])
      <3> SUFFICES ASSUME NEW n \in Names PROVE Whole(dir'[n])
        OBVIOUS
      <3>1. CASE n = op[o].name
        BY <2>2, <3>1, NodeFacts
      <3>2. CASE n = op[o].dst
        BY <1>0, <1>2, <2>2, <3>2
      <3>3. CASE n # op[o].name /\ n # op[o].dst
        BY <1>0, <2>2, <3>3 DEF Entries
      <3>4. QED
        BY <3>1, <3>2, <3>3
    <2> DEFINE a == [op[o] EXCEPT !.pc = "metadata"]
               new == [a EXCEPT !.committed = TRUE]
    <2>4. op' = [op EXCEPT ![o] = new]
      BY <1>4
    <2>5. /\ a \in Op /\ a.pc = "metadata" /\ a.kind = "rename" /\ a.name = op[o].name
          /\ a.dst = op[o].dst /\ a.tmp = op[o].tmp
      BY <1>0, <1>1 DEF Op
    <2> HIDE DEF a
    <2>6. /\ new \in Op /\ new.pc = "metadata" /\ new.kind = "rename" /\ new.name = op[o].name
          /\ new.dst = op[o].dst /\ new.tmp = op[o].tmp /\ new.committed
      BY <2>5 DEF Op
    <2> HIDE DEF new
    <2>7. /\ op' \in [Slots -> Op] /\ op'[o] = new
          /\ \A q \in Slots : q # o => op'[q] = op[q]
      BY <1>0, <2>4, <2>6
    <2>8. ShapeOf(o)' /\ HoldsOf(o)' /\ op'[o].tmp = op[o].tmp
      BY <1>2, <2>6, <2>7 DEF ShapeOf, HoldsOf
    <2>9. \A t \in Temps : dir'[t] = dir[t]
      BY <1>0, <1>2, <2>2 DEF Entries
    <2>10. QED
      BY <1>1, <2>2, <2>3, <2>7, <2>8, <2>9, NameStep
  <1>5. QED
    BY <1>3, <1>4 DEF Rename

\* A name is given another whole node, in a step of a request without a temporary
\* file.
LEMMA NameChange ==
    ASSUME FileInv, NEW n \in Names, NEW node \in {Absent, Directory},
           dir' = [dir EXCEPT ![n] = node]
    PROVE  /\ dir' \in [Entries -> Node] /\ \A t \in Temps : dir'[t] = dir[t]
           /\ \A m \in Names : Whole(dir'[m])
  <1>1. /\ dir \in [Entries -> Node] /\ \A m \in Names : Whole(dir[m])
        /\ Names \cap Temps = {}
    BY FileOpsAssumption DEF FileInv, TypeOK, Entries, NamesWhole
  <1>2. node \in Node /\ Whole(node)
    BY NodeFacts
  <1>3. QED
    BY <1>1, <1>2 DEF Entries

\* Removing an entry.
LEMMA RemoveStep ==
    ASSUME FileInv, NEW o \in Slots, Remove(o)
    PROVE  FileInv'
  <1>1. /\ op[o].pc \in {"remove_file", "remove_dir"}
        /\ disk' = disk /\ strays' = strays
    BY DEF Remove
  <1>2. op[o].tmp = NoHash /\ op[o].name \in Names
    BY <1>1, InvFacts DEF ShapeOf
  <1>3. CASE UNCHANGED dir /\ (Finish(o, "error") \/ Finish(o, "notfound"))
    BY <1>1, <1>2, <1>3, FinishQuietly
  <1>4. CASE dir' = [dir EXCEPT ![op[o].name] = Absent] /\ Finish(o, "ok")
    <2>1. /\ dir' \in [Entries -> Node] /\ \A t \in Temps : dir'[t] = dir[t]
          /\ \A n \in Names : Whole(dir'[n])
      BY <1>2, <1>4, NameChange
    <2>2. QED
      BY <1>1, <1>2, <1>4, <2>1, FinishStep
  <1>5. QED
    BY <1>3, <1>4 DEF Remove

\* Creating a directory.
LEMMA MkdirStep ==
    ASSUME FileInv, NEW o \in Slots, Mkdir(o)
    PROVE  FileInv'
  <1>0. op \in [Slots -> Op] /\ op[o] \in Op /\ ShapeOf(o)
    BY InvFacts
  <1>1. op[o].pc = "create_dir" /\ disk' = disk /\ strays' = strays
    BY DEF Mkdir
  <1>2. op[o].tmp = NoHash /\ op[o].name \in Names /\ op[o].kind = "mkdir"
    BY <1>0, <1>1 DEF ShapeOf
  <1>3. CASE UNCHANGED dir /\ Finish(o, "error")
    BY <1>1, <1>2, <1>3, FinishQuietly
  <1>4. CASE dir' = [dir EXCEPT ![op[o].name] = Directory] /\ Goto(o, "metadata")
    <2>1. /\ dir' \in [Entries -> Node] /\ \A t \in Temps : dir'[t] = dir[t]
          /\ \A n \in Names : Whole(dir'[n])
      BY <1>2, <1>4, NameChange
    <2>2. /\ op' \in [Slots -> Op]
          /\ op'[o].pc = "metadata" /\ op'[o].kind = "mkdir" /\ op'[o].name = op[o].name
          /\ op'[o].tmp = NoHash
          /\ \A q \in Slots : q # o => op'[q] = op[q]
      BY <1>0, <1>2, <1>4, GotoFacts
    <2>3. ShapeOf(o)' /\ HoldsOf(o)'
      BY <1>2, <2>2 DEF ShapeOf, HoldsOf
    <2>4. QED
      BY <1>1, <1>2, <2>1, <2>2, <2>3, NameStep
  <1>5. QED
    BY <1>3, <1>4 DEF Mkdir

-----------------------------------------------------------------------------
(* Crashes *)

\* A whole entry survives a crash as it is; any other is still a node.
LEMMA AfterCrashFacts ==
    ASSUME NEW node \in Node, NEW lost \in BOOLEAN
    PROVE  /\ AfterCrash(node, lost) \in Node
           /\ Whole(node) => AfterCrash(node, lost) = node
  <1>1. CASE node.synced
    BY <1>1 DEF AfterCrash
  <1>2. CASE ~node.synced
    <2>1. node.kind = "file"
      BY <1>2, FileNode
    <2>2. PICK c \in Contents \cup {Torn}, b \in BOOLEAN : node = File(c, b)
      BY <2>1, FileNode
    <2>3. node.content = c
      BY <2>2, NodeFacts
    <2>4. File(Torn, TRUE) \in Node /\ File(c, TRUE) \in Node
      BY NodeFacts
    <2>5. AfterCrash(node, lost) \in {File(Torn, TRUE), File(c, TRUE)}
      BY <1>2, <2>3 DEF AfterCrash
    <2>6. QED
      BY <1>2, <2>4, <2>5 DEF Whole
  <1>3. QED
    BY <1>1, <1>2

\* A crash keeps the invariant: the names hold whole files in the directory and
\* on disk alike, so whichever of the two survives is whole.
LEMMA CrashStep ==
    ASSUME FileInv, Crash
    PROVE  FileInv'
  <1>0. /\ dir \in [Entries -> Node] /\ disk \in [Entries -> Node]
        /\ NamesWhole
    BY FileOpsAssumption DEF FileInv, TypeOK, Entries
  <1>1. PICK newer \in SUBSET {n \in Names \cup Temps : dir[n] # disk[n]} :
          LET kept == [n \in Names \cup Temps |-> IF n \in newer THEN dir[n] ELSE disk[n]]
          IN  \E lost \in SUBSET {n \in Names \cup Temps : ~kept[n].synced} :
                dir' = [n \in Names \cup Temps |-> AfterCrash(kept[n], n \in lost)]
    BY DEF Crash
  <1> DEFINE kept == [n \in Names \cup Temps |-> IF n \in newer THEN dir[n] ELSE disk[n]]
  <1>2. PICK lost \in SUBSET {n \in Names \cup Temps : ~kept[n].synced} :
          dir' = [n \in Names \cup Temps |-> AfterCrash(kept[n], n \in lost)]
    BY <1>1
  <1>3. kept \in [Entries -> Node] /\ \A n \in Names : Whole(kept[n])
    BY <1>0 DEF Entries, NamesWhole
  <1> HIDE DEF kept
  <1>4. ASSUME NEW e \in Entries
        PROVE  /\ AfterCrash(kept[e], e \in lost) \in Node
               /\ e \in Names => AfterCrash(kept[e], e \in lost) = kept[e]
    <2>1. (e \in lost) \in BOOLEAN /\ kept[e] \in Node
      BY <1>3
    <2>2. QED
      BY <1>3, <2>1, AfterCrashFacts
  <1>5. dir' \in [Entries -> Node] /\ \A n \in Names : Whole(dir'[n])
    BY <1>2, <1>3, <1>4 DEF Entries
  <1>6. /\ disk' = dir' /\ op' = [o \in Slots |-> Idle]
        /\ strays' = {t \in Temps : Exists(t)'}
    BY DEF Crash
  <1>7. TypeOK' /\ NamesWhole' /\ NoStrays'
    <2>1. op' \in [Slots -> Op]
      BY <1>6, IdleFacts
    <2>2. QED
      BY <1>5, <1>6, <2>1 DEF TypeOK, NamesWhole, NoStrays, Entries
  <1>8. \A o \in Slots : op'[o] = Idle
    BY <1>6
  <1>9. Apart' /\ \A o \in Slots : ShapeOf(o)' /\ HoldsOf(o)'
    BY <1>8, IdleFacts DEF Apart, ShapeOf, HoldsOf
  <1>10. QED
    BY <1>7, <1>9 DEF FileInv

-----------------------------------------------------------------------------
(* The invariant *)

\* The initial states: no request, no temporary file, only complete files.
LEMMA FileInit == Init => FileInv
  <1> SUFFICES ASSUME Init PROVE FileInv
    OBVIOUS
  <1>1. /\ dir \in [Entries -> {Absent, Directory} \cup {File(c, TRUE) : c \in Contents}]
        /\ \A t \in Temps : dir[t] = Absent
        /\ disk = dir /\ op = [o \in Slots |-> Idle] /\ strays = {}
    BY DEF Init, Entries
  <1>2. ASSUME NEW e \in Entries PROVE dir[e] \in Node /\ Whole(dir[e])
    <2>1. dir[e] \in {Absent, Directory} \/ \E c \in Contents : dir[e] = File(c, TRUE)
      BY <1>1
    <2>2. CASE dir[e] \in {Absent, Directory}
      BY <2>2, NodeFacts
    <2>3. CASE \E c \in Contents : dir[e] = File(c, TRUE)
      <3>1. PICK c \in Contents : dir[e] = File(c, TRUE)
        BY <2>3
      <3>2. File(c, TRUE) \in Node /\ File(c, TRUE).content = c /\ File(c, TRUE).synced = TRUE
        BY NodeFacts
      <3>3. QED
        BY <3>1, <3>2, FileOpsAssumption DEF Whole
    <2>4. QED
      BY <2>1, <2>2, <2>3
  <1>3. dir \in [Entries -> Node] /\ NamesWhole
    BY <1>1, <1>2 DEF NamesWhole, Entries
  <1>4. \A o \in Slots : op[o] = Idle
    BY <1>1
  <1>5. op \in [Slots -> Op]
    BY <1>1, IdleFacts, FileOpsAssumption
  <1>6. TypeOK
    BY <1>1, <1>3, <1>5 DEF TypeOK, Entries
  <1>7. Apart /\ \A o \in Slots : ShapeOf(o) /\ HoldsOf(o)
    BY <1>4, IdleFacts DEF Apart, ShapeOf, HoldsOf
  <1>8. NoStrays
    BY <1>1, NodeFacts DEF NoStrays, Exists
  <1>9. QED
    BY <1>3, <1>6, <1>7, <1>8 DEF FileInv

\* Every step keeps the invariant.
LEMMA FileStep == FileInv /\ [Next]_vars => FileInv'
  <1> SUFFICES ASSUME FileInv, [Next]_vars PROVE FileInv'
    OBVIOUS
  <1>1. CASE UNCHANGED vars
    BY <1>1 DEF vars, FileInv, TypeOK, ShapeOf, HoldsOf, Apart, NamesWhole, NoStrays, Exists
  <1>2. CASE Crash
    BY <1>2, CrashStep
  <1>3. ASSUME NEW o \in Slots,
               Begin(o) \/ Fails(o) \/ WriteStep(o) \/ OtherStep(o) \/ Metadata(o)
        PROVE  FileInv'
    <2>1. CASE Begin(o) \/ Fails(o) \/ Metadata(o)
      BY <2>1, BeginStep, FailsStep, MetadataStep
    <2>2. CASE WriteStep(o)
      BY <2>2, WriteStatStep, CompareStep, CreateTempStep, FillStep, CommitStep, CleanupStep
         DEF WriteStep
    <2>3. CASE OtherStep(o)
      BY <2>3, LookStep, RenameStep, RemoveStep, MkdirStep DEF OtherStep
    <2>4. QED
      BY <1>3, <2>1, <2>2, <2>3
  <1>4. QED
    BY <1>1, <1>2, <1>3 DEF Next

\* The invariant holds in every state of every behaviour.
LEMMA FileAlways == Spec => []FileInv
  BY FileInit, FileStep, PTL DEF Spec

\* Every variable always has its type, for any directory, any contents and any
\* number of concurrent requests and crashes.
THEOREM FileOpsTypeCorrect == Spec => []TypeOK
  <1>1. FileInv => TypeOK
    BY DEF FileInv
  <1>2. QED
    BY <1>1, FileAlways, PTL

\* No name a client uses ever shows a file that is not completely written: not
\* between the system calls of any number of concurrent write_file, rename_path and
\* delete_path requests, and after no crash.
THEOREM NeverTornTheorem == Spec => []NeverTorn
  <1>1. FileInv => NeverTorn
    BY DEF FileInv, NamesWhole, Whole, NeverTorn
  <1>2. QED
    BY <1>1, FileAlways, PTL

\* Every temporary file belongs to a write_file that will still rename or remove it,
\* or was left by a crash or by a removal that itself failed, whichever other system
\* call failed.
THEOREM NoStraysTheorem == Spec => []NoStrays
  <1>1. FileInv => NoStrays
    BY DEF FileInv
  <1>2. QED
    BY <1>1, FileAlways, PTL

-----------------------------------------------------------------------------
(* No silent overwrite *)

\* What a step may do to the history of a request.
CommitsOnly(o) ==
    op'[o].committed /\ ~op[o].committed /\ Exists(Target(o))
        => op[o].overwrite /\ dir[Target(o)].kind = "file"

\* A step of one request is judged by the record it leaves.
LEMMA ClaimOfOne ==
    ASSUME op \in [Slots -> Op], NEW o \in Slots, NEW new, op' = [op EXCEPT ![o] = new],
           new.committed /\ ~op[o].committed /\ Exists(Target(o))
               => op[o].overwrite /\ dir[Target(o)].kind = "file"
    PROVE  \A q \in Slots : CommitsOnly(q)
  <1>1. op'[o] = new /\ \A q \in Slots : q # o => op'[q] = op[q]
    OBVIOUS
  <1>2. CommitsOnly(o)
    BY <1>1 DEF CommitsOnly
  <1>3. ASSUME NEW q \in Slots, q # o PROVE CommitsOnly(q)
    BY <1>1, <1>3 DEF CommitsOnly
  <1>4. QED
    BY <1>2, <1>3

\* Moving on claims nothing.
LEMMA GotoClaimsNothing ==
    ASSUME op \in [Slots -> Op], NEW o \in Slots, NEW pc, Goto(o, pc)
    PROVE  \A q \in Slots : CommitsOnly(q)
  <1> DEFINE new == [op[o] EXCEPT !.pc = pc]
  <1>1. op[o] \in Op
    OBVIOUS
  <1>2. new.committed = op[o].committed
    BY <1>1 DEF Op
  <1>3. op' = [op EXCEPT ![o] = new]
    BY DEF Goto
  <1> HIDE DEF new
  <1>4. QED
    BY <1>2, <1>3, ClaimOfOne

\* Giving up claims nothing.
LEMMA AbandonClaimsNothing ==
    ASSUME op \in [Slots -> Op], NEW o \in Slots, NEW result, Abandon(o, result)
    PROVE  \A q \in Slots : CommitsOnly(q)
  <1> DEFINE new == [Idle EXCEPT !.kind = "write", !.pc = "cleanup", !.tmp = op[o].tmp,
                                 !.result = result]
  <1>1. new.committed = FALSE
    BY DEF Idle
  <1>2. op' = [op EXCEPT ![o] = new]
    BY DEF Abandon
  <1> HIDE DEF new
  <1>3. QED
    BY <1>1, <1>2, ClaimOfOne

\* A reply claims nothing, unless it acknowledges a write, which has committed.
LEMMA FinishClaimsNothing ==
    ASSUME op \in [Slots -> Op], NEW o \in Slots, NEW result, Finish(o, result),
           op[o].kind # "write" \/ result # "ok" \/ op[o].committed
    PROVE  \A q \in Slots : CommitsOnly(q)
  <1>1. CASE op[o].kind = "write" /\ result = "ok"
    <2> DEFINE new == [Idle EXCEPT !.kind = "write", !.pc = "done", !.name = op[o].name,
                                   !.content = op[o].content, !.result = "ok", !.committed = TRUE]
    <2>1. op' = [op EXCEPT ![o] = new]
      BY <1>1 DEF Finish
    <2> HIDE DEF new
    <2>2. QED
      BY <1>1, <2>1, ClaimOfOne
  <1>2. CASE ~(op[o].kind = "write" /\ result = "ok")
    <2> DEFINE new == [Idle EXCEPT !.pc = "done", !.result = result]
    <2>1. new.committed = FALSE
      BY DEF Idle
    <2>2. op' = [op EXCEPT ![o] = new]
      BY <1>2 DEF Finish
    <2> HIDE DEF new
    <2>3. QED
      BY <2>1, <2>2, ClaimOfOne
  <1>3. QED
    BY <1>1, <1>2

\* A new request has claimed nothing.
LEMMA BeginClaimsNothing ==
    ASSUME op \in [Slots -> Op], NEW o \in Slots, Begin(o)
    PROVE  \A q \in Slots : CommitsOnly(q)
  <1>1. ASSUME BeginWrite(o) PROVE \A q \in Slots : CommitsOnly(q)
    <2>1. PICK n \in Names, c \in Contents, w \in BOOLEAN, h \in Contents \cup {NoHash} :
             op' = [op EXCEPT ![o] =
                      [Idle EXCEPT !.kind = "write", !.pc = "stat", !.name = n, !.content = c,
                                   !.overwrite = w, !.expected = h]]
      BY <1>1 DEF BeginWrite
    <2> DEFINE new == [Idle EXCEPT !.kind = "write", !.pc = "stat", !.name = n, !.content = c,
                                   !.overwrite = w, !.expected = h]
    <2>2. op' = [op EXCEPT ![o] = new]
      BY <2>1
    <2>3. new.committed = FALSE
      BY DEF Idle
    <2> HIDE DEF new
    <2>4. QED
      BY <2>2, <2>3, ClaimOfOne
  <1>2. ASSUME BeginRename(o) PROVE \A q \in Slots : CommitsOnly(q)
    <2>1. PICK n \in Names, d \in Names :
             op' = [op EXCEPT ![o] =
                      [Idle EXCEPT !.kind = "rename", !.pc = "stat", !.name = n, !.dst = d]]
      BY <1>2 DEF BeginRename
    <2> DEFINE new == [Idle EXCEPT !.kind = "rename", !.pc = "stat", !.name = n, !.dst = d]
    <2>2. op' = [op EXCEPT ![o] = new]
      BY <2>1
    <2>3. new.committed = FALSE
      BY DEF Idle
    <2> HIDE DEF new
    <2>4. QED
      BY <2>2, <2>3, ClaimOfOne
  <1>3. ASSUME BeginOther(o) PROVE \A q \in Slots : CommitsOnly(q)
    <2>1. PICK n \in Names, k \in {"delete", "mkdir"} :
             op' = [op EXCEPT ![o] = [Idle EXCEPT !.kind = k, !.pc = "stat", !.name = n]]
      BY <1>3 DEF BeginOther
    <2> DEFINE new == [Idle EXCEPT !.kind = k, !.pc = "stat", !.name = n]
    <2>2. op' = [op EXCEPT ![o] = new]
      BY <2>1
    <2>3. new.committed = FALSE
      BY DEF Idle
    <2> HIDE DEF new
    <2>4. QED
      BY <2>2, <2>3, ClaimOfOne
  <1>4. QED
    BY <1>1, <1>2, <1>3 DEF Begin

\* The two steps that do create a target: a write replaces a file only when it
\* was told to, a rename never replaces anything.
LEMMA CommitClaims ==
    ASSUME op \in [Slots -> Op], NEW o \in Slots, ShapeOf(o), dir \in [Entries -> Node],
           Commit(o) \/ Rename(o)
    PROVE  \A q \in Slots : CommitsOnly(q)
  <1>1. CASE \E result : Abandon(o, result)
    BY <1>1, AbandonClaimsNothing
  <1>2. CASE Finish(o, "conflict") \/ Finish(o, "notfound")
    BY <1>2, FinishClaimsNothing
  <1>3. CASE /\ op[o].kind = "write" /\ op[o].pc = "commit"
             /\ IF op[o].overwrite THEN CanReplace(op[o].tmp, op[o].name)
                                   ELSE CanMove(op[o].tmp, op[o].name)
             /\ op' = [op EXCEPT ![o].pc = "metadata", ![o].committed = TRUE,
                                  ![o].overwrite = FALSE, ![o].expected = NoHash,
                                  ![o].tmp = NoHash]
    <2> DEFINE new == [op[o] EXCEPT !.pc = "metadata", !.committed = TRUE, !.overwrite = FALSE,
                                    !.expected = NoHash, !.tmp = NoHash]
    <2>1. op' = [op EXCEPT ![o] = new]
      BY <1>3
    <2> HIDE DEF new
    <2>2. op[o].name \in Names /\ op[o].name \in Entries
      BY <1>3 DEF ShapeOf, Entries
    <2>3. dir[op[o].name].kind \in {"absent", "dir", "file"}
      BY <2>2, FileNode
    <2>4. Exists(op[o].name) => op[o].overwrite /\ dir[op[o].name].kind = "file"
      BY <1>3, <2>3 DEF CanReplace, CanMove, Exists
    <2>5. Target(o) = op[o].name
      BY <1>3 DEF Target
    <2>6. QED
      BY <2>1, <2>4, <2>5, ClaimOfOne
  <1>4. CASE /\ op[o].kind = "rename" /\ CanMove(op[o].name, op[o].dst)
             /\ op' = [op EXCEPT ![o].pc = "metadata", ![o].committed = TRUE]
    <2> DEFINE new == [op[o] EXCEPT !.pc = "metadata", !.committed = TRUE]
    <2>1. op' = [op EXCEPT ![o] = new]
      BY <1>4
    <2> HIDE DEF new
    <2>2. Target(o) = op[o].dst /\ ~Exists(op[o].dst)
      BY <1>4 DEF Target, CanMove
    <2>3. QED
      BY <2>1, <2>2, ClaimOfOne
  <1>5. QED
    <2>1. CASE Commit(o)
      BY <1>1, <1>3, <2>1 DEF Commit
    <2>2. CASE Rename(o)
      BY <1>2, <1>4, <2>2 DEF Rename
    <2>3. QED
      BY <2>1, <2>2

\* Every step touches one request, and only a commit that found its target free
\* or was told to overwrite it changes that request's claim.
LEMMA ClaimStep ==
    ASSUME FileInv, NEW o \in Slots,
           Begin(o) \/ Fails(o) \/ WriteStep(o) \/ OtherStep(o) \/ Metadata(o)
    PROVE  \A q \in Slots : CommitsOnly(q)
  <1>0. op \in [Slots -> Op] /\ op[o] \in Op /\ ShapeOf(o) /\ dir \in [Entries -> Node]
    BY InvFacts
  <1> DEFINE Quiet == \/ \E pc : Goto(o, pc)
                      \/ \E result : Abandon(o, result)
                      \/ \E result : /\ Finish(o, result)
                                     /\ op[o].kind # "write" \/ result # "ok" \/ op[o].committed
  <1>1. CASE Quiet
    BY <1>0, <1>1, GotoClaimsNothing, AbandonClaimsNothing, FinishClaimsNothing
  <1>2. CASE Begin(o)
    BY <1>0, <1>2, BeginClaimsNothing
  <1>3. CASE Fails(o)
    <2>1. Abandon(o, "error") \/ Finish(o, "error")
      BY <1>3 DEF Fails
    <2>2. QED
      BY <1>1, <2>1
  <1>4. CASE Metadata(o)
    <2>1. op[o].kind # "write" \/ op[o].committed
      BY <1>0, <1>4 DEF Metadata, ShapeOf
    <2>2. QED
      BY <1>1, <1>4, <2>1 DEF Metadata
  <1>5. CASE CreateTemp(o)
    <2>1. PICK t \in Temps : op' = [op EXCEPT ![o].pc = "fill", ![o].tmp = t]
      BY <1>5 DEF CreateTemp
    <2> DEFINE new == [op[o] EXCEPT !.pc = "fill", !.tmp = t]
    <2>2. op' = [op EXCEPT ![o] = new]
      BY <2>1
    <2>3. new.committed = op[o].committed
      BY <1>0 DEF Op
    <2> HIDE DEF new
    <2>4. QED
      BY <1>0, <2>2, <2>3, ClaimOfOne
  <1>6. CASE Commit(o) \/ Rename(o)
    BY <1>0, <1>6, CommitClaims
  <1>7. CASE WriteStat(o)
    <2>1. op[o].name \in Names
      BY <1>0, <1>7 DEF WriteStat, ShapeOf
    <2>2. dir[op[o].name].kind \in {"absent", "dir", "file"}
      BY <2>1, NamedNode
    <2>3. \/ Finish(o, "error") \/ Finish(o, "conflict")
          \/ Goto(o, "create") \/ Goto(o, "compare")
      BY <1>7, <2>2 DEF WriteStat
    <2>4. QED
      BY <1>1, <2>3
  <1>8. CASE Compare(o)
    <2>1. Goto(o, "create") \/ Finish(o, "error") \/ Finish(o, "conflict")
      BY <1>8 DEF Compare
    <2>2. QED
      BY <1>1, <2>1
  <1>9. CASE Fill(o) \/ Sync(o) \/ SyncDir(o)
    BY <1>1, <1>9 DEF Fill, Sync, SyncDir
  <1>10. CASE Cleanup(o)
    <2>1. op[o].result # "ok"
      BY <1>0, <1>10 DEF Cleanup, ShapeOf
    <2>2. QED
      BY <1>1, <1>10, <2>1 DEF Cleanup
  <1>11. CASE RenameStat(o) \/ RenameStatDst(o)
    <2>1. \/ Goto(o, "stat_dst") \/ Goto(o, "commit")
          \/ Finish(o, "notfound") \/ Finish(o, "conflict")
      BY <1>11 DEF RenameStat, RenameStatDst
    <2>2. QED
      BY <1>1, <2>1
  <1>12. CASE DeleteStat(o) \/ MkdirStat(o)
    <2>1. op[o].name \in Names /\ op[o].kind # "write"
      BY <1>0, <1>12 DEF DeleteStat, MkdirStat, ShapeOf
    <2>2. dir[op[o].name].kind \in {"absent", "dir", "file"}
      BY <2>1, NamedNode
    <2>3. (\E result : Finish(o, result)) \/ \E pc : Goto(o, pc)
      BY <1>12, <2>2 DEF DeleteStat, MkdirStat
    <2>4. QED
      BY <1>1, <2>1, <2>3
  <1>13. CASE Remove(o) \/ Mkdir(o)
    <2>1. op[o].kind # "write"
      BY <1>0, <1>13 DEF Remove, Mkdir, ShapeOf
    <2>2. (\E result : Finish(o, result)) \/ Goto(o, "metadata")
      BY <1>13 DEF Remove, Mkdir
    <2>3. QED
      BY <1>1, <2>1, <2>2
  <1> HIDE DEF Quiet
  <1>14. QED
    BY <1>2, <1>3, <1>4, <1>5, <1>6, <1>7, <1>8, <1>9, <1>10, <1>11, <1>12, <1>13
       DEF WriteStep, OtherStep

\* An existing entry is replaced only by a write_file that asked to overwrite, and
\* only when the entry is a file: the check that counts is the rename itself, not
\* the look long before it.
THEOREM NoSilentOverwriteTheorem == Spec => NoSilentOverwrite
  <1>1. FileInv /\ [Next]_vars => [\A o \in Slots : CommitsOnly(o)]_vars
    <2> SUFFICES ASSUME FileInv, Next PROVE \A o \in Slots : CommitsOnly(o)
      OBVIOUS
    <2>1. CASE Crash
      BY <2>1, IdleFacts DEF Crash, CommitsOnly
    <2>2. ASSUME NEW o \in Slots,
                 Begin(o) \/ Fails(o) \/ WriteStep(o) \/ OtherStep(o) \/ Metadata(o)
          PROVE  \A q \in Slots : CommitsOnly(q)
      BY <2>2, ClaimStep
    <2>3. QED
      BY <2>1, <2>2 DEF Next
  <1>2. QED
    BY <1>1, FileAlways, PTL DEF Spec, NoSilentOverwrite, CommitsOnly
=============================================================================
