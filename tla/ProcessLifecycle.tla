-------------------------- MODULE ProcessLifecycle --------------------------
(***************************************************************************)
(* One spawned process (crates/are-daemon/src/process.rs): its child, its  *)
(* supervisor task, the two tasks that read its pipes, and the wait() and  *)
(* terminate() calls of clients.  All of them run in parallel on a         *)
(* multi-threaded runtime and share the entry; each critical section on    *)
(* the entry's mutex is one action.                                        *)
(*                                                                         *)
(* Bytes are numbered from 1 in the order the child writes them to a pipe, *)
(* so the captured output is a sequence of such numbers.                   *)
(***************************************************************************)
EXTENDS Integers, Sequences

CONSTANTS
    Streams,         \* StreamKind: the pipes that are read
    Waiters,         \* calls of wait()
    Killers,         \* calls of terminate()
    Cap,             \* max_output_bytes, per stream
    MaxWrite,        \* bound: bytes the child writes to each stream
    Fallible         \* bound: the streams whose reading can fail

ASSUME LifecycleAssumption ==
    /\ Cap \in Nat
    /\ MaxWrite \in [Streams -> Nat]
    /\ Fallible \subseteq Streams
    /\ Waiters \cap Killers = {}

VARIABLES
    child,           \* the operating-system process: alive, exited or signaled
    open,            \* per pipe: somebody (perhaps a descendant) can write to it
    written,         \* per pipe: bytes written so far
    reader,          \* per pipe: its read_capped task
    captured,        \* stdout and stderr of the entry
    truncated,
    kill_requested,
    status,
    sup,             \* where the supervisor is
    final,           \* final_status
    call             \* per client call

envVars == <<child, open, written>>
entryVars == <<captured, truncated, kill_requested, status>>
supVars == <<sup, final>>
vars == <<envVars, reader, entryVars, supVars, call>>

Calls == Waiters \cup Killers

\* A reader is awaiting its pipe, holds a chunk it has read but not yet
\* appended, or has ended.  `read` counts the bytes taken from the pipe, `failed`
\* records that reading it ended with an error.
Reader ==
    [pc : {"reading", "holding", "done"}, read : Nat, held : Nat, aborted : BOOLEAN,
     failed : BOOLEAN]

\* What a client call is doing and has been told.  `elapsed` says that its park
\* was ended by the deadline.
Call ==
    [pc : {"idle", "first", "flag", "check", "deadline", "expire", "parking", "parked", "done"},
     elapsed : BOOLEAN,
     reply : {"none", "exited", "failed", "timed_out", "terminated", "not_running"},
     output : [Streams -> Seq(Nat)], truncated : BOOLEAN]

Init ==
    /\ child = "alive"
    /\ open = [st \in Streams |-> TRUE]
    /\ written = [st \in Streams |-> 0]
    /\ reader = [st \in Streams |-> [pc |-> "reading", read |-> 0, held |-> 0, aborted |-> FALSE,
                                     failed |-> FALSE]]
    /\ captured = [st \in Streams |-> <<>>]
    /\ truncated = FALSE
    /\ kill_requested = FALSE
    /\ status = "running"
    /\ sup = "poll"
    /\ final = "running"
    /\ call = [c \in Calls |->
                 [pc |-> "idle", elapsed |-> FALSE, reply |-> "none",
                  output |-> [st \in Streams |-> <<>>], truncated |-> FALSE]]

-----------------------------------------------------------------------------
(* The child and its descendants, who may outlive it and hold its pipes.   *)

\* (The exit of a child whose status nobody is going to ask for changes nothing.)
ChildExits ==
    /\ child = "alive" /\ sup = "poll"
    /\ child' \in {"exited", "signaled"}
    /\ UNCHANGED <<open, written, reader, entryVars, supVars, call>>

Write(st) ==
    /\ open[st] /\ written[st] < MaxWrite[st]
    /\ written' = [written EXCEPT ![st] = @ + 1]
    /\ UNCHANGED <<child, open, reader, entryVars, supVars, call>>

\* The last writer closes the pipe, before or after the child exits.
ClosePipe(st) ==
    /\ open[st]
    /\ open' = [open EXCEPT ![st] = FALSE]
    /\ UNCHANGED <<child, written, reader, entryVars, supVars, call>>

-----------------------------------------------------------------------------
(* read_capped *)

\* pipe.read yields a chunk.  An aborted reader can still get here: a task that
\* runs when it is aborted goes on until it next has to wait.
ReadChunk(st) ==
    /\ reader[st].pc = "reading"
    /\ \E n \in 1..(written[st] - reader[st].read) :
         reader' = [reader EXCEPT ![st].pc = "holding", ![st].held = n, ![st].read = @ + n]
    /\ UNCHANGED <<envVars, entryVars, supVars, call>>

\* The bytes of the chunk that reader st holds.
Chunk(st) == [i \in 1..reader[st].held |-> reader[st].read - reader[st].held + i]

Room(st) == IF Len(captured[st]) < Cap THEN Cap - Len(captured[st]) ELSE 0

\* Fault: a chunk is taken whole while there is any room.
FaultyTake(st) == IF Room(st) > 0 THEN reader[st].held ELSE 0

\* n.min(room)
Take(st) == IF reader[st].held <= Room(st) THEN reader[st].held ELSE Room(st)

\* Under the lock: append what fits, note that the rest is lost, read on.
AppendChunk(st) ==
    /\ reader[st].pc = "holding"
    /\ captured' = [captured EXCEPT ![st] = @ \o SubSeq(Chunk(st), 1, Take(st))]
    /\ truncated' = (truncated \/ Take(st) < reader[st].held)
    /\ reader' = [reader EXCEPT ![st].pc = "reading", ![st].held = 0]
    /\ UNCHANGED <<envVars, kill_requested, status, supVars, call>>

\* End of file, or the abort takes effect.
ReaderEnds(st) ==
    /\ reader[st].pc = "reading"
    /\ (~open[st] /\ reader[st].read = written[st]) \/ reader[st].aborted
    /\ reader' = [reader EXCEPT ![st].pc = "done", ![st].aborted = FALSE]
    /\ UNCHANGED <<envVars, entryVars, supVars, call>>

\* pipe.read returns an error: the reader stops as at the end of the file.
ReaderFails(st) ==
    /\ st \in Fallible /\ reader[st].pc = "reading" /\ ~reader[st].aborted
    /\ reader' = [reader EXCEPT ![st].pc = "done", ![st].failed = TRUE]
    /\ UNCHANGED <<envVars, entryVars, supVars, call>>

-----------------------------------------------------------------------------
(* supervise *)

\* start_kill; without effect on a child that has exited.  (Its error is logged and
\* the next poll tries again: no state depends on it.)
Kill ==
    /\ sup = "poll" /\ kill_requested /\ child = "alive"
    /\ child' = "signaled"
    /\ UNCHANGED <<open, written, reader, entryVars, supVars, call>>

\* Fault: a death by signal is not told apart.
FaultyReap ==
    /\ sup = "poll" /\ child # "alive"
    /\ sup' = "drain"
    /\ final' = child
    /\ UNCHANGED <<envVars, reader, entryVars, call>>

\* Fault: the final state is visible before the drain.
EagerReap ==
    /\ sup = "poll" /\ child # "alive"
    /\ sup' = "drain"
    /\ final' = IF child = "exited" THEN "exited" ELSE "failed"
    /\ status' = final'
    /\ UNCHANGED <<envVars, reader, captured, truncated, kill_requested, call>>

\* try_wait finds an exit status.
Reap ==
    /\ sup = "poll" /\ child # "alive"
    /\ sup' = "drain"
    /\ final' = IF child = "exited" THEN "exited" ELSE "failed"
    /\ UNCHANGED <<envVars, reader, entryVars, call>>

\* try_wait fails: the daemon loses track of a child that may be alive.
LoseChild ==
    /\ sup = "poll"
    /\ sup' = "drain"
    /\ final' = "failed"
    /\ UNCHANGED <<envVars, reader, entryVars, call>>

Drained == \A st \in Streams : reader[st].pc = "done"

\* await_drain: both readers have ended ...
DrainDone ==
    /\ sup = "drain" /\ Drained
    /\ sup' = "publish"
    /\ UNCHANGED <<envVars, reader, entryVars, final, call>>

\* Fault: the drain has no bound.
UnboundedDrain == FALSE /\ UNCHANGED vars

\* Fault: the timeout leaves the output unmarked.
FaultyDrainTimeout ==
    /\ sup = "drain" /\ ~Drained
    /\ reader' = [st \in Streams |-> [reader[st] EXCEPT !.aborted = (reader[st].pc # "done")]]
    /\ sup' = "publish"
    /\ UNCHANGED <<envVars, entryVars, final, call>>

\* ... or drain_timeout passes: abort them and mark the output as cut.
DrainTimeout ==
    /\ sup = "drain" /\ ~Drained
    /\ reader' = [st \in Streams |-> [reader[st] EXCEPT !.aborted = (reader[st].pc # "done")]]
    /\ truncated' = TRUE
    /\ sup' = "publish"
    /\ UNCHANGED <<envVars, captured, kill_requested, status, final, call>>

Publish ==
    /\ sup = "publish"
    /\ status' = final
    /\ sup' = "notify"
    /\ UNCHANGED <<envVars, reader, captured, truncated, kill_requested, final, call>>

\* notify_waiters wakes those who are parked now, and nobody else.
NotifyWaiters ==
    /\ sup = "notify"
    /\ call' = [c \in Calls |-> IF call[c].pc = "parked" THEN [call[c] EXCEPT !.pc = "check"]
                                                         ELSE call[c]]
    /\ sup' = "done"
    /\ UNCHANGED <<envVars, reader, entryVars, final>>

-----------------------------------------------------------------------------
(* wait and terminate *)

\* The entry has been found.
Begin(c) ==
    /\ call[c].pc = "idle"
    /\ call' = [call EXCEPT ![c].pc = IF c \in Waiters THEN "check" ELSE "first"]
    /\ UNCHANGED <<envVars, reader, entryVars, supVars>>

\* terminate ends; its reply carries no output.
Answer(c, reply) == call' = [call EXCEPT ![c].pc = "done", ![c].reply = reply]

\* wait ends with a state and a copy of the output.
Return(c, reply) ==
    call' = [call EXCEPT ![c].pc = "done", ![c].elapsed = FALSE, ![c].reply = reply,
                         ![c].output = captured, ![c].truncated = truncated]

\* The head of wait's loop.
CheckStatus(c) ==
    /\ c \in Waiters /\ call[c].pc = "check"
    /\ IF status = "running"
       THEN call' = [call EXCEPT ![c].pc = "deadline"]
       ELSE Return(c, status)
    /\ UNCHANGED <<envVars, reader, entryVars, supVars>>

\* The clock is compared with the deadline, outside the lock: any time may have
\* passed, and after a park that the deadline ended it has.
CheckDeadline(c) ==
    /\ call[c].pc = "deadline"
    /\ \E late \in {TRUE, call[c].elapsed} :
         call' = [call EXCEPT ![c].pc = IF late THEN "expire" ELSE "parking"]
    /\ UNCHANGED <<envVars, reader, entryVars, supVars>>

Expire(c) ==
    /\ call[c].pc = "expire"
    /\ Return(c, "timed_out")
    /\ UNCHANGED <<envVars, reader, entryVars, supVars>>

\* notify.notified() is created.
Park(c) ==
    /\ call[c].pc = "parking"
    /\ call' = [call EXCEPT ![c].pc = "parked"]
    /\ UNCHANGED <<envVars, reader, entryVars, supVars>>

\* Fault: the park is not bounded by the deadline.
FaultyUnpark(c) == FALSE /\ UNCHANGED vars

\* The timeout around notified() ends the park: wait checks once more,
\* terminate gives up waiting.
Unpark(c) ==
    /\ call[c].pc = "parked"
    /\ IF c \in Waiters
       THEN call' = [call EXCEPT ![c].pc = "check", ![c].elapsed = TRUE]
       ELSE Answer(c, "terminated")
    /\ UNCHANGED <<envVars, reader, entryVars, supVars>>

\* terminate: a process that is not running is left alone.
CheckRunning(c) ==
    /\ call[c].pc = "first"
    /\ IF status = "running"
       THEN call' = [call EXCEPT ![c].pc = "flag"]
       ELSE Answer(c, "not_running")
    /\ UNCHANGED <<envVars, reader, entryVars, supVars>>

SetKill(c) ==
    /\ call[c].pc = "flag"
    /\ kill_requested' = TRUE
    /\ call' = [call EXCEPT ![c].pc = "check"]
    /\ UNCHANGED <<envVars, reader, captured, truncated, status, supVars>>

AwaitDeath(c) ==
    /\ c \in Killers /\ call[c].pc = "check"
    /\ IF status = "running"
       THEN call' = [call EXCEPT ![c].pc = "parking"]
       ELSE Answer(c, "terminated")
    /\ UNCHANGED <<envVars, reader, entryVars, supVars>>

-----------------------------------------------------------------------------
ReaderStep(st) == ReadChunk(st) \/ AppendChunk(st) \/ ReaderEnds(st) \/ ReaderFails(st)

SupervisorStep == Kill \/ Reap \/ DrainDone \/ DrainTimeout \/ Publish \/ NotifyWaiters

CallStep(c) ==
    \/ CheckStatus(c)
    \/ CheckDeadline(c)
    \/ Expire(c)
    \/ Park(c)
    \/ Unpark(c)
    \/ CheckRunning(c)
    \/ SetKill(c)
    \/ AwaitDeath(c)

Next ==
    \/ ChildExits
    \/ \E st \in Streams : Write(st) \/ ClosePipe(st) \/ ReaderStep(st)
    \/ SupervisorStep \/ LoseChild
    \/ \E c \in Calls : Begin(c) \/ CallStep(c)

Spec == Init /\ [][Next]_vars

\* The runtime polls the supervisor and the calls, and timers fire.  Nothing is
\* assumed of the child, of whoever holds its pipes, or of the readers.
Fairness ==
    /\ WF_vars(SupervisorStep)
    /\ \A c \in Calls : WF_vars(CallStep(c))

FairSpec == Spec /\ Fairness
-----------------------------------------------------------------------------
(* Properties *)

\* Every variable has its type.
TypeOK ==
    /\ child \in {"alive", "exited", "signaled"}
    /\ open \in [Streams -> BOOLEAN]
    /\ written \in [Streams -> Nat]
    /\ reader \in [Streams -> Reader]
    /\ captured \in [Streams -> Seq(Nat)]
    /\ truncated \in BOOLEAN
    /\ kill_requested \in BOOLEAN
    /\ status \in {"running", "exited", "failed"}
    /\ sup \in {"poll", "drain", "publish", "notify", "done"}
    /\ final \in {"running", "exited", "failed"}
    /\ call \in [Calls -> Call]

\* The bytes captured are always the first bytes the child wrote, in order and
\* without a hole, and no more than max_output_bytes of them: whatever order
\* reads, the cap, the drain timeout and the abort come in.
CapturedIsPrefix ==
    \A st \in Streams :
        /\ Len(captured[st]) <= Cap
        /\ \A i \in DOMAIN captured[st] : captured[st][i] = i

\* A reply that reports an exit and does not say `truncated` carries everything
\* that was ever written to each pipe, unless reading that pipe failed.
UntruncatedIsComplete ==
    \A w \in Waiters :
        call[w].reply \in {"exited", "failed"} /\ ~call[w].truncated
        => \A st \in Streams :
               reader[st].failed \/ Len(call[w].output[st]) = written[st]

\* "The final state is ALWAYS published": a child that has exited is reported,
\* even when a descendant holds its pipes open for ever or reading them fails.
ExitIsPublished == (child # "alive") ~> (status # "running")

\* Every wait and every terminate returns, although the supervisor's only
\* notification may come between a call's look at the status and its park.
CallsReturn == \A c \in Calls : (call[c].pc # "idle") ~> (call[c].pc = "done")

\* Implementation of the abstract process, which Daemon's entries follow.
Abstract ==
    INSTANCE ManagedProcess WITH child <- IF sup = "poll" THEN "supervised" ELSE "reaped"

\* The entry is reaped once, published once and after the reaping; a requested
\* kill is carried out and published.
ImplementsManagedProcess == Abstract!Spec
=============================================================================
