---------------------------- MODULE ProcessTable ----------------------------
(***************************************************************************)
(* The process manager's table (crates/are-daemon/src/process.rs).         *)
(*                                                                         *)
(* A table is a function from process ids to entries.  The code keys       *)
(* entries by (environment, session, process id); there is one environment *)
(* per daemon, and the session part of the key is the field `session`.     *)
(***************************************************************************)
EXTENDS SessionTable

CONSTANTS
    ProcIds,           \* ids the CSPRNG can draw
    NoProc,            \* no process id
    MaxProcesses,      \* max_processes
    MaxPerSession,     \* max_processes_per_session
    Retention          \* retention_secs

ASSUME ProcessConfigAssumption ==
    /\ MaxProcesses \in Nat
    /\ MaxPerSession \in Nat
    /\ Retention \in Nat
    /\ NoProc \notin ProcIds

\* `child` is where the operating-system process is: not yet spawned, polled by
\* its supervisor, or reaped (the supervisor's loop ended) but perhaps not yet
\* published.  Two history fields the code does not have: `by`, the caller who
\* started it, and `late`, which Daemon explains.
ProcessEntry ==
    [session : SessionIds, status : {"running", "terminal"},
     kill_requested : BOOLEAN, finished_at : Nat,
     child : {"none", "supervised", "reaped"}, by : Callers \cup {Legacy}, late : BOOLEAN]

IsProcessTable(table) ==
    DOMAIN table \subseteq ProcIds /\ table \in [DOMAIN table -> ProcessEntry]

is_terminal(entry) == entry.status # "running"

Drop(table, ids) == [p \in DOMAIN table \ ids |-> table[p]]

Put(table, p, entry) == [x \in DOMAIN table \cup {p} |-> IF x = p THEN entry ELSE table[x]]

OfSession(table, s) == {p \in DOMAIN table : table[p].session = s}

\* Fault: the session is not part of the key.
FaultyLookup(table, s, p) == p \in DOMAIN table

\* A process of another session is as unknown as one that never was.
lookup(table, s, p) == p \in OfSession(table, s)

\* Fault: off by one.
FaultySessionFull(table, s) == Cardinality(OfSession(table, s)) > MaxPerSession

SessionFull(table, s) == Cardinality(OfSession(table, s)) >= MaxPerSession

\* Fault: running entries are candidates for eviction too.
FaultyTerminalEntries(table) == DOMAIN table

TerminalEntries(table) == {p \in DOMAIN table : is_terminal(table[p])}

\* `now.duration_since(finished)` is zero when the clock is behind `finished`.
RetentionOver(entry, now) == is_terminal(entry) /\ now - entry.finished_at > Retention

evict_expired_terminal_entries(table, now) ==
    Drop(table, {p \in DOMAIN table : RetentionOver(table[p], now)})

\* The sets of entries the sort by finished_at may put first, as many as are
\* needed to bring the table below the bound (ties are in HashMap order).
OldestTerminals(table) ==
    LET T      == TerminalEntries(table)
        excess == Cardinality(DOMAIN table) - MaxProcesses + 1
    IN  {E \in SUBSET T :
            /\ \A e \in E, f \in T \ E : table[e].finished_at <= table[f].finished_at
            /\ Cardinality(E) = (IF excess < Cardinality(T) THEN excess ELSE Cardinality(T))}

evict_oldest_terminal_entries(table) == {Drop(table, E) : E \in OldestTerminals(table)}

\* The tables make_room_for_spawn may leave; the spawn is refused when the one
\* it leaves is still full.
make_room_for_spawn(table, now) ==
    LET swept == evict_expired_terminal_entries(table, now)
    IN  IF Cardinality(DOMAIN swept) < MaxProcesses
        THEN {swept}
        ELSE evict_oldest_terminal_entries(swept)

\* The first half of kill_session_processes: the entries cloned under the lock.
KillTargets(table, s) == OfSession(table, s)

\* Fault: the flag is set only on entries whose child runs already.
FaultyRequestKill(table, p) ==
    IF p \in DOMAIN table /\ table[p].child = "supervised"
    THEN [table EXCEPT ![p].kill_requested = TRUE]
    ELSE table

\* One iteration of the second half: a running entry gets its kill flag.  An
\* entry that left the table meanwhile was terminal or never spawned.
RequestKill(table, p) ==
    IF p \in DOMAIN table /\ table[p].status = "running"
    THEN [table EXCEPT ![p].kill_requested = TRUE]
    ELSE table
=============================================================================
