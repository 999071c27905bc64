-------------------------- MODULE LifecycleProofs ---------------------------
(***************************************************************************)
(* Proofs about ProcessLifecycle, for every number of streams, calls and   *)
(* bytes and every cap: types, what is captured, what a reply without      *)
(* `truncated` carries, and the safety part of the refinement.             *)
(***************************************************************************)
EXTENDS ProcessLifecycle, TLAPS, SequenceTheorems

-----------------------------------------------------------------------------
(* Appending a part of a chunk *)

\* Appending the first n elements of c to s.
LEMMA AppendPart ==
    ASSUME NEW s \in Seq(Nat), NEW c \in Seq(Nat), NEW n \in 0..Len(c)
    PROVE  LET u == s \o SubSeq(c, 1, n)
           IN  /\ u \in Seq(Nat)
               /\ Len(u) = Len(s) + n
               /\ \A i \in 1..Len(u) : u[i] = IF i <= Len(s) THEN s[i] ELSE c[i - Len(s)]
  <1> DEFINE d == SubSeq(c, 1, n)
  <1>1. /\ d \in Seq(Nat) /\ Len(d) = n
        /\ \A i \in 1..n : d[i] = c[i]
    OBVIOUS
  <1> HIDE DEF d
  <1>2. /\ s \o d \in Seq(Nat)
        /\ Len(s \o d) = Len(s) + Len(d)
        /\ \A i \in 1..(Len(s) + Len(d)) :
             (s \o d)[i] = IF i <= Len(s) THEN s[i] ELSE d[i - Len(s)]
    BY <1>1, ConcatProperties
  <1>3. \A i \in 1..(Len(s) + n) : i <= Len(s) \/ i - Len(s) \in 1..n
    OBVIOUS
  <1>4. \A i \in 1..Len(s \o d) : (s \o d)[i] = IF i <= Len(s) THEN s[i] ELSE c[i - Len(s)]
    BY <1>1, <1>2, <1>3
  <1>5. QED
    BY <1>1, <1>2, <1>4 DEF d

-----------------------------------------------------------------------------
(* The inductive invariant *)

\* What is captured is what was read and appended, cut at the cap.
CaptureOf(st) ==
    /\ reader[st].held <= reader[st].read
    /\ reader[st].pc # "holding" => reader[st].held = 0
    /\ Len(captured[st]) <= Cap
    /\ \A i \in 1..Len(captured[st]) : captured[st][i] = i
    /\ \/ Len(captured[st]) = reader[st].read - reader[st].held
       \/ truncated /\ Len(captured[st]) = Cap

Captures == \A st \in Streams : CaptureOf(st)

\* Reading ends at the end of the pipe, with an error, or by an abort, and an
\* abort marks the output.
EndOf(st) ==
    /\ reader[st].aborted => truncated
    /\ reader[st].pc = "done" =>
         \/ reader[st].failed
         \/ ~open[st] /\ reader[st].read = written[st]
         \/ truncated

Endings == \A st \in Streams : EndOf(st)

\* The final state is chosen before it is published, and published only when
\* the readers have ended or the output is marked.
Phases ==
    /\ sup \in {"poll", "drain", "publish"} => status = "running"
    /\ sup = "poll" \/ final \in {"exited", "failed"}
    /\ sup \in {"publish", "notify", "done"} => truncated \/ Drained

\* A complete reply stays complete: its pipes have no writer left.
Replies ==
    \A c \in Calls :
        call[c].reply \in {"exited", "failed"} /\ ~call[c].truncated =>
            \A st \in Streams :
                \/ reader[st].failed
                \/ ~open[st] /\ Len(call[c].output[st]) = written[st]

LifecycleInv == TypeOK /\ Captures /\ Endings /\ Phases /\ Replies

\* It holds initially.
LEMMA LifecycleInit == Init => LifecycleInv
  <1> SUFFICES ASSUME Init PROVE LifecycleInv
    OBVIOUS
  <1>1. <<>> \in Seq(Nat) /\ Len(<<>>) = 0
    OBVIOUS
  <1>2. reader \in [Streams -> Reader]
    BY DEF Init, Reader
  <1>3. call \in [Calls -> Call]
    BY <1>1 DEF Init, Call
  <1>4. TypeOK
    BY <1>1, <1>2, <1>3 DEF Init, TypeOK
  <1>5. Captures
    <2>1. Cap \in Nat
      BY LifecycleAssumption
    <2>2. ASSUME NEW st \in Streams
          PROVE  reader[st].held = 0 /\ reader[st].read = 0 /\ Len(captured[st]) = 0
      BY <1>1 DEF Init
    <2>3. QED
      <3> SUFFICES ASSUME NEW st \in Streams
                   PROVE  /\ reader[st].held <= reader[st].read
                          /\ reader[st].held = 0
                          /\ Len(captured[st]) <= Cap
                          /\ \A i \in 1..Len(captured[st]) : captured[st][i] = i
                          /\ Len(captured[st]) = reader[st].read - reader[st].held
        BY DEF Captures, CaptureOf
      <3>1. reader[st].held = 0 /\ reader[st].read = 0 /\ Len(captured[st]) = 0
        BY <2>2
      <3>2. 1..Len(captured[st]) = {}
        BY <3>1
      <3>3. QED
        BY <2>1, <3>1, <3>2
  <1>6. Endings /\ Phases
    BY DEF Init, Endings, EndOf, Phases
  <1>7. Replies
    BY DEF Init, Replies
  <1>8. QED
    BY <1>4, <1>5, <1>6, <1>7 DEF LifecycleInv

-----------------------------------------------------------------------------
(* The child and its pipes *)

\* The child, the writers and the closing of a pipe keep the invariant.
LEMMA PipeStep ==
    ASSUME LifecycleInv,
           \/ ChildExits \/ Kill
           \/ \E st \in Streams : Write(st) \/ ClosePipe(st)
    PROVE  LifecycleInv'
  <1> USE DEF LifecycleInv
  <1>0. /\ UNCHANGED <<reader, entryVars, supVars, call>>
        /\ \A st \in Streams : ~open[st] => open'[st] = open[st] /\ written'[st] = written[st]
        /\ child' \in {"alive", "exited", "signaled"}
        /\ open' \in [Streams -> BOOLEAN] /\ written' \in [Streams -> Nat]
    <2>1. CASE ChildExits \/ Kill
      BY <2>1 DEF TypeOK, ChildExits, Kill
    <2>2. ASSUME NEW st \in Streams, Write(st) PROVE <1>0!:
      BY <2>2 DEF TypeOK, Write
    <2>3. ASSUME NEW st \in Streams, ClosePipe(st) PROVE <1>0!:
      BY <2>3 DEF TypeOK, ClosePipe
    <2>4. QED
      BY <2>1, <2>2, <2>3
  <1>1. Captures'
    BY <1>0 DEF Captures, CaptureOf, entryVars
  <1>2. Endings'
    BY <1>0 DEF Endings, EndOf, entryVars
  <1>3. Phases'
    BY <1>0 DEF Phases, Drained, entryVars, supVars
  <1>4. Replies'
    BY <1>0 DEF Replies
  <1>5. TypeOK'
    BY <1>0 DEF TypeOK, entryVars, supVars
  <1>6. QED
    BY <1>1, <1>2, <1>3, <1>4, <1>5

-----------------------------------------------------------------------------
(* The readers *)

\* A step of one reader that has not ended, never unmarking the output, needs
\* checking for that reader only.
LEMMA OneReader ==
    ASSUME LifecycleInv, NEW st \in Streams, reader[st].pc # "done",
           UNCHANGED <<envVars, kill_requested, status, supVars, call>>,
           truncated' \in BOOLEAN, truncated => truncated',
           reader' \in [Streams -> Reader], captured' \in [Streams -> Seq(Nat)],
           \A x \in Streams : x # st => reader'[x] = reader[x] /\ captured'[x] = captured[x],
           reader[st].failed => reader'[st].failed,
           CaptureOf(st)', EndOf(st)'
    PROVE  LifecycleInv'
  <1>1. TypeOK'
    BY DEF LifecycleInv, TypeOK, envVars, supVars
  <1>2. Captures'
    <2> SUFFICES ASSUME NEW x \in Streams, x # st PROVE CaptureOf(x)'
      BY DEF Captures
    <2>1. CaptureOf(x) /\ reader'[x] = reader[x] /\ captured'[x] = captured[x]
      BY DEF LifecycleInv, Captures
    <2>2. QED
      BY <2>1 DEF CaptureOf
  <1>3. Endings'
    <2> SUFFICES ASSUME NEW x \in Streams, x # st PROVE EndOf(x)'
      BY DEF Endings
    <2>1. EndOf(x) /\ reader'[x] = reader[x]
      BY DEF LifecycleInv, Endings
    <2>2. QED
      BY <2>1 DEF EndOf, envVars
  <1>4. Phases'
    <2>1. ~Drained
      BY DEF Drained
    <2>2. QED
      BY <2>1 DEF LifecycleInv, Phases, supVars
  <1>5. Replies'
    <2>1. \A x \in Streams : reader[x].failed => reader'[x].failed
      OBVIOUS
    <2>2. QED
      BY <2>1 DEF LifecycleInv, Replies, envVars
  <1>6. QED
    BY <1>1, <1>2, <1>3, <1>4, <1>5 DEF LifecycleInv

\* Reading, appending and ending keep the invariant.
LEMMA ReaderSteps ==
    ASSUME LifecycleInv, NEW st \in Streams, ReaderStep(st)
    PROVE  LifecycleInv'
  <1>0. /\ reader \in [Streams -> Reader] /\ reader[st] \in Reader
        /\ captured \in [Streams -> Seq(Nat)] /\ captured[st] \in Seq(Nat)
        /\ written[st] \in Nat /\ truncated \in BOOLEAN
        /\ CaptureOf(st) /\ EndOf(st) /\ Cap \in Nat
    BY LifecycleAssumption DEF LifecycleInv, TypeOK, Captures, Endings
  <1>1. CASE ReadChunk(st)
    <2>1. PICK n \in 1..(written[st] - reader[st].read) :
            reader' = [reader EXCEPT ![st].pc = "holding", ![st].held = n, ![st].read = @ + n]
      BY <1>1 DEF ReadChunk
    <2>2. reader[st].read \in Nat /\ n \in Nat /\ reader[st].pc = "reading" /\ reader[st].held = 0
      BY <1>0, <1>1 DEF Reader, ReadChunk, CaptureOf
    <2>3. /\ reader' \in [Streams -> Reader]
          /\ reader'[st].pc = "holding" /\ reader'[st].held = n
          /\ reader'[st].read = reader[st].read + n
          /\ reader'[st].failed = reader[st].failed /\ reader'[st].aborted = reader[st].aborted
          /\ \A x \in Streams : x # st => reader'[x] = reader[x]
      <3> DEFINE new == [reader[st] EXCEPT !.pc = "holding", !.held = n,
                                           !.read = reader[st].read + n]
      <3>1. reader[st].read + n \in Nat
        BY <2>2
      <3>2. reader' = [reader EXCEPT ![st] = new]
        BY <1>0, <2>1
      <3>3. /\ new \in Reader
            /\ new.pc = "holding" /\ new.held = n /\ new.read = reader[st].read + n
            /\ new.failed = reader[st].failed /\ new.aborted = reader[st].aborted
        BY <1>0, <2>2, <3>1 DEF Reader
      <3> HIDE DEF new
      <3>4. QED
        BY <1>0, <3>2, <3>3
    <2>4. UNCHANGED <<envVars, entryVars, supVars, call>>
      BY <1>1 DEF ReadChunk
    <2>5. CaptureOf(st)'
      BY <1>0, <2>2, <2>3, <2>4 DEF CaptureOf, entryVars
    <2>6. EndOf(st)'
      BY <1>0, <2>3, <2>4 DEF EndOf, entryVars
    <2>7. QED
      BY <1>0, <2>2, <2>3, <2>4, <2>5, <2>6, OneReader DEF entryVars
  <1>2. CASE AppendChunk(st)
    <2> DEFINE h == reader[st].held
               c == captured[st]
               k == Take(st)
               u == c \o SubSeq(Chunk(st), 1, k)
    <2>1. h \in Nat /\ reader[st].read \in Nat /\ h <= reader[st].read
      BY <1>0 DEF Reader, CaptureOf
    <2>2. /\ Chunk(st) \in Seq(Nat) /\ Len(Chunk(st)) = h
          /\ \A i \in 1..h : Chunk(st)[i] = reader[st].read - h + i
      <3>1. \A i \in 1..h : reader[st].read - h + i \in Nat
        BY <2>1
      <3>2. Chunk(st) = [i \in 1..h |-> reader[st].read - h + i]
        BY DEF Chunk
      <3> HIDE DEF h
      <3>3. QED
        BY <2>1, <3>1, <3>2
    <2>3. /\ Len(c) \in Nat /\ Len(c) <= Cap /\ k \in 0..h
          /\ k < h => Len(c) + k = Cap
          /\ Len(c) + k <= Cap
      <3>1. Len(c) \in Nat /\ Len(c) <= Cap
        BY <1>0 DEF CaptureOf
      <3>2. Room(st) = Cap - Len(c)
        BY <1>0, <3>1 DEF Room
      <3>3. k = IF h <= Cap - Len(c) THEN h ELSE Cap - Len(c)
        BY <3>2 DEF Take
      <3> HIDE DEF h, c, k
      <3>4. QED
        BY <1>0, <2>1, <3>1, <3>3
    <2>4. /\ captured' = [captured EXCEPT ![st] = u]
          /\ truncated' = (truncated \/ k < h)
          /\ reader' = [reader EXCEPT ![st].pc = "reading", ![st].held = 0]
          /\ UNCHANGED <<envVars, kill_requested, status, supVars, call>>
          /\ reader[st].pc = "holding"
      BY <1>2 DEF AppendChunk
    <2>5. /\ u \in Seq(Nat) /\ Len(u) = Len(c) + k
          /\ \A i \in 1..Len(u) : u[i] = IF i <= Len(c) THEN c[i] ELSE Chunk(st)[i - Len(c)]
      <3>1. c \in Seq(Nat) /\ k \in 0..Len(Chunk(st))
        BY <1>0, <2>2, <2>3
      <3> HIDE DEF c, k
      <3>2. QED
        BY <2>2, <3>1, AppendPart
    <2>6. /\ reader' \in [Streams -> Reader]
          /\ reader'[st].pc = "reading" /\ reader'[st].held = 0
          /\ reader'[st].read = reader[st].read
          /\ reader'[st].failed = reader[st].failed /\ reader'[st].aborted = reader[st].aborted
          /\ \A x \in Streams : x # st => reader'[x] = reader[x]
      BY <1>0, <2>4 DEF Reader
    <2>7. /\ captured' \in [Streams -> Seq(Nat)] /\ captured'[st] = u
          /\ \A x \in Streams : x # st => captured'[x] = captured[x]
      <3> HIDE DEF u
      <3>1. QED
        BY <1>0, <2>4, <2>5
    <2>8. /\ \A i \in 1..Len(c) : c[i] = i
          /\ Len(c) = reader[st].read - h \/ (truncated /\ Len(c) = Cap)
      BY <1>0 DEF CaptureOf
    <2>9. \A i \in 1..Len(u) : u[i] = i
      <3> SUFFICES ASSUME NEW i \in 1..Len(u) PROVE u[i] = i
        OBVIOUS
      <3>1. CASE i <= Len(c)
        <4>1. u[i] = c[i] /\ i \in 1..Len(c)
          BY <2>3, <2>5, <3>1
        <4>2. QED
          BY <2>8, <4>1
      <3>2. CASE ~(i <= Len(c))
        <4>1. u[i] = Chunk(st)[i - Len(c)]
          BY <2>5, <3>2
        <4>2. i - Len(c) \in 1..h /\ 0 < k
          <5>1. i \in Nat /\ i <= Len(c) + k
            BY <2>5
          <5> HIDE DEF u, c, k, h
          <5>2. QED
            BY <2>1, <2>3, <3>2, <5>1
        <4>3. Len(c) = reader[st].read - h
          BY <2>3, <2>8, <4>2
        <4>4. Chunk(st)[i - Len(c)] = reader[st].read - h + (i - Len(c))
          BY <2>2, <4>2
        <4> HIDE DEF u, c, k, h
        <4>5. QED
          BY <2>1, <2>3, <4>1, <4>3, <4>4
      <3>3. QED
        BY <3>1, <3>2
    <2>10. truncated' \in BOOLEAN /\ (truncated => truncated')
      BY <2>4
    <2>11. Len(u) = reader[st].read \/ (truncated' /\ Len(u) = Cap)
      <3> HIDE DEF u, c, k, h
      <3>1. CASE k < h
        BY <2>3, <2>4, <2>5, <3>1
      <3>2. CASE ~(k < h)
        <4>1. k = h
          BY <2>1, <2>3, <3>2
        <4>2. CASE Len(c) = reader[st].read - h
          BY <2>1, <2>3, <2>5, <4>1, <4>2
        <4>3. CASE truncated /\ Len(c) = Cap
          BY <1>0, <2>1, <2>3, <2>5, <2>10, <4>1, <4>3
        <4>4. QED
          BY <2>8, <4>2, <4>3
      <3>3. QED
        BY <3>1, <3>2
    <2>12. CaptureOf(st)'
      <3> HIDE DEF u, c, k, h
      <3>1. Len(u) <= Cap
        BY <2>3, <2>5
      <3>2. 0 <= reader[st].read /\ reader[st].read = reader[st].read - 0
        BY <2>1
      <3>3. QED
        BY <2>6, <2>7, <2>9, <2>11, <3>1, <3>2 DEF CaptureOf
    <2>13. EndOf(st)'
      BY <1>0, <2>6, <2>10 DEF EndOf
    <2> HIDE DEF u, c, k, h
    <2>14. QED
      BY <2>4, <2>6, <2>7, <2>10, <2>12, <2>13, OneReader
  <1>3. CASE ReaderEnds(st) \/ ReaderFails(st)
    <2>1. /\ UNCHANGED <<envVars, entryVars, supVars, call>> /\ reader[st].pc = "reading"
          /\ reader'[st].pc = "done" /\ reader' \in [Streams -> Reader]
          /\ reader'[st].held = reader[st].held /\ reader'[st].read = reader[st].read
          /\ \A x \in Streams : x # st => reader'[x] = reader[x]
          /\ reader[st].failed => reader'[st].failed
          /\ reader'[st].aborted => reader[st].aborted
          /\ \/ ~open[st] /\ reader[st].read = written[st]
             \/ reader[st].aborted
             \/ reader'[st].failed
      <3>1. CASE ReaderEnds(st)
        BY <1>0, <3>1 DEF ReaderEnds, Reader
      <3>2. CASE ReaderFails(st)
        BY <1>0, <3>2 DEF ReaderFails, Reader
      <3>3. QED
        BY <1>3, <3>1, <3>2
    <2>2. CaptureOf(st)'
      BY <1>0, <2>1 DEF CaptureOf, entryVars
    <2>3. EndOf(st)'
      BY <1>0, <2>1 DEF EndOf, entryVars, envVars
    <2>4. QED
      BY <1>0, <2>1, <2>2, <2>3, OneReader DEF entryVars
  <1>4. QED
    BY <1>1, <1>2, <1>3 DEF ReaderStep

-----------------------------------------------------------------------------
(* The calls *)

\* What is captured when the final state is published is complete or marked.
LEMMA PublishedIsComplete ==
    ASSUME LifecycleInv, status # "running", ~truncated, NEW st \in Streams
    PROVE  \/ reader[st].failed
           \/ ~open[st] /\ Len(captured[st]) = written[st]
  <1>1. reader[st].pc = "done"
    BY DEF LifecycleInv, TypeOK, Phases, Drained
  <1>2. reader[st].failed \/ (~open[st] /\ reader[st].read = written[st])
    BY <1>1 DEF LifecycleInv, Endings, EndOf
  <1>3. reader[st].held = 0 /\ Len(captured[st]) = reader[st].read - reader[st].held
    BY <1>1 DEF LifecycleInv, Captures, CaptureOf
  <1>4. reader[st].read \in Nat
    BY DEF LifecycleInv, TypeOK, Reader
  <1>5. Len(captured[st]) = reader[st].read
    BY <1>3, <1>4
  <1>6. QED
    BY <1>2, <1>5

\* A step of the calls keeps the invariant if each keeps what it was told, is
\* told no exit, or is told the published state with a copy of the output.
LEMMA CallsMove ==
    ASSUME LifecycleInv, call' \in [Calls -> Call], kill_requested' \in BOOLEAN,
           sup' = sup \/ (sup = "notify" /\ sup' = "done"),
           UNCHANGED <<envVars, reader, captured, truncated, status, final>>,
           \A c \in Calls :
              \/ /\ call'[c].reply = call[c].reply /\ call'[c].output = call[c].output
                 /\ call'[c].truncated = call[c].truncated
              \/ call'[c].reply \notin {"exited", "failed"}
              \/ /\ status # "running" /\ call'[c].output = captured
                 /\ call'[c].truncated = truncated
    PROVE  LifecycleInv'
  <1>1. TypeOK'
    BY DEF LifecycleInv, TypeOK, envVars
  <1>2. Captures' /\ Endings'
    BY DEF LifecycleInv, Captures, CaptureOf, Endings, EndOf, envVars
  <1>3. Phases'
    BY DEF LifecycleInv, Phases, Drained
  <1>4. Replies'
    <2> SUFFICES ASSUME NEW c \in Calls, call'[c].reply \in {"exited", "failed"},
                        ~call'[c].truncated, NEW st \in Streams
                 PROVE  reader[st].failed \/ (~open[st] /\ Len(call'[c].output[st]) = written[st])
      BY DEF Replies, envVars
    <2>1. CASE /\ call'[c].reply = call[c].reply /\ call'[c].output = call[c].output
               /\ call'[c].truncated = call[c].truncated
      BY <2>1 DEF LifecycleInv, Replies
    <2>2. CASE /\ status # "running" /\ call'[c].output = captured
               /\ call'[c].truncated = truncated
      BY <2>2, PublishedIsComplete
    <2>3. QED
      BY <2>1, <2>2
  <1>5. QED
    BY <1>1, <1>2, <1>3, <1>4 DEF LifecycleInv

\* A call that moves on without a reply.
LEMMA CallMovesOn ==
    ASSUME LifecycleInv, NEW c \in Calls, NEW pc, NEW elapsed \in BOOLEAN,
           pc \in {"check", "first", "flag", "deadline", "expire", "parking", "parked"},
           call' = [call EXCEPT ![c] = [call[c] EXCEPT !.pc = pc, !.elapsed = elapsed]],
           kill_requested' \in BOOLEAN,
           UNCHANGED <<envVars, reader, captured, truncated, status, supVars>>
    PROVE  LifecycleInv'
  <1> DEFINE new == [call[c] EXCEPT !.pc = pc, !.elapsed = elapsed]
  <1>1. call \in [Calls -> Call] /\ call[c] \in Call
    BY DEF LifecycleInv, TypeOK
  <1>2. /\ new \in Call /\ new.reply = call[c].reply
        /\ new.output = call[c].output /\ new.truncated = call[c].truncated
    BY <1>1 DEF Call
  <1> HIDE DEF new
  <1>3. /\ call' \in [Calls -> Call] /\ call'[c] = new
        /\ \A x \in Calls : x # c => call'[x] = call[x]
    BY <1>1, <1>2 DEF new
  <1>4. QED
    BY <1>2, <1>3, CallsMove DEF supVars

\* A call that ends with a reply.
LEMMA CallEnds ==
    ASSUME LifecycleInv, NEW c \in Calls, NEW reply,
           \/ /\ Answer(c, reply)
              /\ reply \in {"terminated", "not_running"}
           \/ /\ Return(c, reply)
              /\ reply = "timed_out" \/ (reply = status /\ status # "running"),
           UNCHANGED <<envVars, reader, entryVars, supVars>>
    PROVE  LifecycleInv'
  <1>0. /\ call \in [Calls -> Call] /\ call[c] \in Call /\ truncated \in BOOLEAN
        /\ captured \in [Streams -> Seq(Nat)] /\ kill_requested \in BOOLEAN
        /\ status \in {"running", "exited", "failed"}
    BY DEF LifecycleInv, TypeOK
  <1>1. CASE Answer(c, reply) /\ reply \in {"terminated", "not_running"}
    <2> DEFINE new == [call[c] EXCEPT !.pc = "done", !.reply = reply]
    <2>1. new \in Call /\ new.reply = reply
      BY <1>0, <1>1 DEF Call
    <2>2. call' = [call EXCEPT ![c] = new]
      BY <1>1 DEF Answer
    <2> HIDE DEF new
    <2>3. /\ call' \in [Calls -> Call] /\ call'[c].reply \notin {"exited", "failed"}
          /\ \A x \in Calls : x # c => call'[x] = call[x]
      BY <1>0, <1>1, <2>1, <2>2
    <2>4. QED
      BY <1>0, <2>3, CallsMove DEF supVars, entryVars
  <1>2. CASE Return(c, reply) /\ (reply = "timed_out" \/ (reply = status /\ status # "running"))
    <2> DEFINE new == [call[c] EXCEPT !.pc = "done", !.elapsed = FALSE, !.reply = reply,
                                      !.output = captured, !.truncated = truncated]
    <2>1. /\ new \in Call /\ new.reply = reply /\ new.output = captured
          /\ new.truncated = truncated
      BY <1>0, <1>2 DEF Call
    <2>2. call' = [call EXCEPT ![c] = new]
      BY <1>2 DEF Return
    <2> HIDE DEF new
    <2>3. /\ call' \in [Calls -> Call] /\ call'[c] = new
          /\ \A x \in Calls : x # c => call'[x] = call[x]
      BY <1>0, <2>1, <2>2
    <2>4. QED
      BY <1>0, <1>2, <2>1, <2>3, CallsMove DEF supVars, entryVars
  <1>3. QED
    BY <1>1, <1>2

\* Every step of a call keeps the invariant.
LEMMA CallSteps ==
    ASSUME LifecycleInv, NEW c \in Calls, Begin(c) \/ CallStep(c)
    PROVE  LifecycleInv'
  <1>0. /\ call[c] \in Call /\ call[c].elapsed \in BOOLEAN /\ kill_requested \in BOOLEAN
        /\ call \in [Calls -> Call]
    BY DEF LifecycleInv, TypeOK, Call
  <1>1. ASSUME NEW pc \in {"check", "first", "flag", "deadline", "expire", "parking", "parked"},
               call' = [call EXCEPT ![c].pc = pc],
               UNCHANGED <<envVars, reader, captured, truncated, status, supVars>>,
               kill_requested' \in BOOLEAN
        PROVE  LifecycleInv'
    <2>1. [call[c] EXCEPT !.pc = pc] = [call[c] EXCEPT !.pc = pc, !.elapsed = call[c].elapsed]
      BY <1>0 DEF Call
    <2>2. call' = [call EXCEPT ![c] = [call[c] EXCEPT !.pc = pc, !.elapsed = call[c].elapsed]]
      BY <1>1, <2>1
    <2>3. QED
      BY <1>0, <1>1, <2>2, CallMovesOn
  <1>2. CASE Begin(c)
    BY <1>0, <1>1, <1>2 DEF Begin, entryVars
  <1>3. CASE CheckStatus(c)
    <2>1. CASE status = "running"
      BY <1>0, <1>1, <1>3, <2>1 DEF CheckStatus, entryVars
    <2>2. CASE status # "running"
      BY <1>3, <2>2, CallEnds DEF CheckStatus
    <2>3. QED
      BY <2>1, <2>2
  <1>4. CASE CheckDeadline(c)
    <2>1. PICK late \in {TRUE, call[c].elapsed} :
            call' = [call EXCEPT ![c].pc = IF late THEN "expire" ELSE "parking"]
      BY <1>4 DEF CheckDeadline
    <2>2. \E pc \in {"expire", "parking"} : call' = [call EXCEPT ![c].pc = pc]
      BY <2>1
    <2>3. UNCHANGED <<envVars, reader, entryVars, supVars>>
      BY <1>4 DEF CheckDeadline
    <2>4. QED
      BY <1>0, <1>1, <2>2, <2>3 DEF entryVars
  <1>5. CASE Expire(c)
    BY <1>5, CallEnds DEF Expire
  <1>6. CASE Park(c)
    BY <1>0, <1>1, <1>6 DEF Park, entryVars
  <1>7. CASE Unpark(c)
    <2>1. CASE c \in Waiters
      <3>1. call' = [call EXCEPT ![c] = [call[c] EXCEPT !.pc = "check", !.elapsed = TRUE]]
        BY <1>0, <1>7, <2>1 DEF Unpark
      <3>2. QED
        BY <1>0, <1>7, <3>1, CallMovesOn DEF Unpark, entryVars
    <2>2. CASE c \notin Waiters
      BY <1>7, <2>2, CallEnds DEF Unpark
    <2>3. QED
      BY <2>1, <2>2
  <1>8. CASE CheckRunning(c)
    <2>1. CASE status = "running"
      BY <1>0, <1>1, <1>8, <2>1 DEF CheckRunning, entryVars
    <2>2. CASE status # "running"
      BY <1>8, <2>2, CallEnds DEF CheckRunning
    <2>3. QED
      BY <2>1, <2>2
  <1>9. CASE SetKill(c)
    BY <1>1, <1>9 DEF SetKill
  <1>10. CASE AwaitDeath(c)
    <2>1. CASE status = "running"
      BY <1>0, <1>1, <1>10, <2>1 DEF AwaitDeath, entryVars
    <2>2. CASE status # "running"
      BY <1>10, <2>2, CallEnds DEF AwaitDeath
    <2>3. QED
      BY <2>1, <2>2
  <1>11. QED
    BY <1>2, <1>3, <1>4, <1>5, <1>6, <1>7, <1>8, <1>9, <1>10 DEF CallStep

-----------------------------------------------------------------------------
(* The supervisor *)

\* The supervisor's steps keep the invariant.
LEMMA SupervisorSteps ==
    ASSUME LifecycleInv, SupervisorStep \/ LoseChild
    PROVE  LifecycleInv'
  <1>0. TypeOK /\ Captures /\ Endings /\ Phases /\ Replies
    BY DEF LifecycleInv
  <1>1. CASE Kill
    BY <1>1, PipeStep
  <1>2. CASE Reap \/ LoseChild
    <2>1. /\ UNCHANGED <<envVars, reader, entryVars, call>>
          /\ sup = "poll" /\ sup' = "drain" /\ final' \in {"exited", "failed"}
      BY <1>2 DEF Reap, LoseChild
    <2>2. TypeOK' /\ Captures' /\ Endings' /\ Replies'
      BY <1>0, <2>1 DEF TypeOK, Captures, CaptureOf, Endings, EndOf, Replies, envVars, entryVars
    <2>3. Phases'
      BY <1>0, <2>1 DEF Phases, entryVars
    <2>4. QED
      BY <2>2, <2>3 DEF LifecycleInv
  <1>3. CASE DrainDone
    <2>1. /\ UNCHANGED <<envVars, reader, entryVars, final, call>>
          /\ sup = "drain" /\ sup' = "publish" /\ Drained
      BY <1>3 DEF DrainDone
    <2>2. TypeOK' /\ Captures' /\ Endings' /\ Replies'
      BY <1>0, <2>1 DEF TypeOK, Captures, CaptureOf, Endings, EndOf, Replies, envVars, entryVars
    <2>3. Phases'
      BY <1>0, <2>1 DEF Phases, Drained, entryVars
    <2>4. QED
      BY <2>2, <2>3 DEF LifecycleInv
  <1>4. CASE DrainTimeout
    <2>1. /\ UNCHANGED <<envVars, captured, kill_requested, status, final, call>>
          /\ sup = "drain" /\ sup' = "publish" /\ truncated' = TRUE
          /\ reader' = [st \in Streams |-> [reader[st] EXCEPT !.aborted = (reader[st].pc # "done")]]
      BY <1>4 DEF DrainTimeout
    <2>2. \A st \in Streams :
            /\ reader'[st] \in Reader
            /\ reader'[st].pc = reader[st].pc /\ reader'[st].read = reader[st].read
            /\ reader'[st].held = reader[st].held /\ reader'[st].failed = reader[st].failed
      <3> SUFFICES ASSUME NEW st \in Streams
                   PROVE  /\ reader'[st] \in Reader
                          /\ reader'[st].pc = reader[st].pc /\ reader'[st].read = reader[st].read
                          /\ reader'[st].held = reader[st].held
                          /\ reader'[st].failed = reader[st].failed
        OBVIOUS
      <3>1. reader[st] \in Reader /\ (reader[st].pc # "done") \in BOOLEAN
        BY <1>0 DEF TypeOK
      <3>2. reader'[st] = [reader[st] EXCEPT !.aborted = (reader[st].pc # "done")]
        BY <2>1
      <3>3. QED
        BY <3>1, <3>2 DEF Reader
    <2>3. TypeOK'
      BY <1>0, <2>1, <2>2 DEF TypeOK, envVars
    <2>4. Captures'
      BY <1>0, <2>1, <2>2 DEF Captures, CaptureOf
    <2>5. Endings' /\ Phases'
      BY <1>0, <2>1 DEF Endings, EndOf, Phases
    <2>6. Replies'
      BY <1>0, <2>1, <2>2 DEF Replies, envVars
    <2>7. QED
      BY <2>3, <2>4, <2>5, <2>6 DEF LifecycleInv
  <1>5. CASE Publish
    <2>1. /\ UNCHANGED <<envVars, reader, captured, truncated, kill_requested, final, call>>
          /\ sup = "publish" /\ sup' = "notify" /\ status' = final
      BY <1>5 DEF Publish
    <2>2. TypeOK' /\ Captures' /\ Endings' /\ Replies'
      BY <1>0, <2>1 DEF TypeOK, Captures, CaptureOf, Endings, EndOf, Replies, envVars
    <2>3. Phases'
      BY <1>0, <2>1 DEF Phases, Drained
    <2>4. QED
      BY <2>2, <2>3 DEF LifecycleInv
  <1>6. CASE NotifyWaiters
    <2>1. \A c \in Calls : /\ call'[c] \in Call
                           /\ call'[c].reply = call[c].reply /\ call'[c].output = call[c].output
                           /\ call'[c].truncated = call[c].truncated
      <3> SUFFICES ASSUME NEW c \in Calls
                   PROVE  /\ call'[c] \in Call
                          /\ call'[c].reply = call[c].reply /\ call'[c].output = call[c].output
                          /\ call'[c].truncated = call[c].truncated
        OBVIOUS
      <3>1. call[c] \in Call
        BY <1>0 DEF TypeOK
      <3>2. call'[c] = [call[c] EXCEPT !.pc = "check"] \/ call'[c] = call[c]
        BY <1>6 DEF NotifyWaiters
      <3>3. QED
        BY <3>1, <3>2 DEF Call
    <2>2. /\ call' \in [Calls -> Call]
          /\ sup = "notify" /\ sup' = "done" /\ UNCHANGED <<envVars, reader, entryVars, final>>
      BY <1>6, <2>1 DEF NotifyWaiters
    <2>3. kill_requested' \in BOOLEAN
      BY <1>0, <2>2 DEF TypeOK, entryVars
    <2>4. QED
      BY <2>1, <2>2, <2>3, CallsMove DEF entryVars
  <1>7. QED
    BY <1>1, <1>2, <1>3, <1>4, <1>5, <1>6 DEF SupervisorStep

-----------------------------------------------------------------------------
(* The theorems *)

\* Every step keeps the invariant.
LEMMA LifecycleStep == LifecycleInv /\ [Next]_vars => LifecycleInv'
  <1> SUFFICES ASSUME LifecycleInv, [Next]_vars PROVE LifecycleInv'
    OBVIOUS
  <1>1. CASE UNCHANGED vars
    BY <1>1 DEF vars, envVars, entryVars, supVars, LifecycleInv, TypeOK, Captures, CaptureOf,
                Endings, EndOf, Phases, Drained, Replies
  <1>2. QED
    BY <1>1, PipeStep, ReaderSteps, SupervisorSteps, CallSteps DEF Next

\* It holds throughout.
LEMMA LifecycleAlways == Spec => []LifecycleInv
  BY LifecycleInit, LifecycleStep, PTL DEF Spec

\* Every variable keeps its type (TypeOK).
THEOREM LifecycleTypeCorrect == Spec => []TypeOK
  <1>1. LifecycleInv => TypeOK
    BY DEF LifecycleInv
  <1>2. QED
    BY LifecycleAlways, <1>1, PTL

\* What is captured is always the first bytes written, in order and without a
\* hole, and no more than max_output_bytes of them (CapturedIsPrefix), for every
\* cap and however reads, the cap, the drain timeout and the abort interleave.
THEOREM CapturedIsPrefixTheorem == Spec => []CapturedIsPrefix
  <1>1. LifecycleInv => CapturedIsPrefix
    <2> SUFFICES ASSUME LifecycleInv, NEW st \in Streams
                 PROVE  /\ Len(captured[st]) <= Cap
                        /\ \A i \in DOMAIN captured[st] : captured[st][i] = i
      BY DEF CapturedIsPrefix
    <2>1. captured[st] \in Seq(Nat)
      BY DEF LifecycleInv, TypeOK
    <2>2. DOMAIN captured[st] = 1..Len(captured[st])
      BY <2>1
    <2>3. QED
      BY <2>2 DEF LifecycleInv, Captures, CaptureOf
  <1>2. QED
    BY LifecycleAlways, <1>1, PTL

\* A wait that reports an exit without `truncated` carries every byte that was
\* ever written to each pipe whose reading did not fail (UntruncatedIsComplete),
\* though the readers run in other tasks and the pipes may outlive the child.
THEOREM UntruncatedIsCompleteTheorem == Spec => []UntruncatedIsComplete
  <1>1. LifecycleInv => UntruncatedIsComplete
    BY DEF LifecycleInv, Replies, UntruncatedIsComplete, Calls
  <1>2. QED
    BY LifecycleAlways, <1>1, PTL

-----------------------------------------------------------------------------
(* Refinement *)

\* The safety part of the abstract process: what an entry of the module Daemon
\* may do.
AbstractSafety == Abstract!Init /\ [][Abstract!Next]_(Abstract!vars)

\* The supervisor, its readers and its callers implement the safety part of
\* ManagedProcess: an entry is reaped once, published once and never before it
\* is reaped, and a requested kill is never taken back.
THEOREM SafelyImplements == Spec => AbstractSafety
  <1>1. Init => Abstract!Init
    BY DEF Init, Abstract!Init
  <1>2. LifecycleInv /\ [Next]_vars => [Abstract!Next]_(Abstract!vars)
    <2> SUFFICES ASSUME LifecycleInv, [Next]_vars PROVE [Abstract!Next]_(Abstract!vars)
      OBVIOUS
    <2>0. Phases
      BY DEF LifecycleInv
    <2>1. ASSUME (sup = "poll") <=> (sup' = "poll"), UNCHANGED <<kill_requested, status>>
          PROVE  UNCHANGED Abstract!vars
      BY <2>1 DEF Abstract!vars
    <2>2. CASE Reap \/ LoseChild
      BY <2>2 DEF Reap, LoseChild, Abstract!Next, Abstract!Reap, entryVars
    <2>3. CASE Publish
      BY <2>0, <2>3 DEF Publish, Phases, Abstract!Next, Abstract!Publish
    <2>4. ASSUME NEW c \in Calls, SetKill(c) PROVE Abstract!Next
      BY <2>4 DEF SetKill, supVars, Abstract!Next, Abstract!RequestKill
    <2>5. CASE DrainDone \/ DrainTimeout \/ NotifyWaiters \/ Kill
      <3>1. (sup = "poll") <=> (sup' = "poll")
        BY <2>5 DEF DrainDone, DrainTimeout, NotifyWaiters, Kill, supVars
      <3>2. UNCHANGED <<kill_requested, status>>
        BY <2>5 DEF DrainDone, DrainTimeout, NotifyWaiters, Kill, entryVars
      <3>3. QED
        BY <2>1, <3>1, <3>2
    <2>6. CASE UNCHANGED <<kill_requested, status, supVars>>
      BY <2>1, <2>6 DEF supVars
    <2>7. QED
      BY <2>2, <2>3, <2>4, <2>5, <2>6
         DEF Next, vars, entryVars, ChildExits, Write, ClosePipe, ReaderStep, ReadChunk,
             AppendChunk, ReaderEnds, ReaderFails, SupervisorStep, Begin, CallStep, CheckStatus,
             CheckDeadline, Expire, Park, Unpark, CheckRunning, AwaitDeath
  <1>3. QED
    BY <1>1, <1>2, LifecycleAlways, PTL DEF Spec, AbstractSafety
=============================================================================
