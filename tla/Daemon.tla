------------------------------- MODULE Daemon -------------------------------
(***************************************************************************)
(* The daemon's request handlers (crates/are-daemon/src/handler.rs) over   *)
(* the session table and the process table, with the per-process           *)
(* supervisor tasks.                                                       *)
(*                                                                         *)
(* Every RPC runs in its own task.  A handler takes the two tables' locks  *)
(* separately, never both at once and never across an await, so requests   *)
(* interleave between any two critical sections.  `req[r].pc` names the    *)
(* critical section request r enters next:                                 *)
(*   idle     no request                                                   *)
(*   enter    the session table: create, list, or prove liveness (touch)   *)
(*   act      liveness proved; the body of a session-scoped operation      *)
(*   spawn    execute has reserved a table slot and is about to spawn      *)
(*   cascade  terminate_session is setting kill flags                      *)
(*   remove   terminate_session is about to remove the session record      *)
(*   reply    reply decided; kills for purged sessions still to be done    *)
(***************************************************************************)
EXTENDS ProcessTable

CONSTANTS
    Requests,          \* concurrent requests
    Ops,               \* the operations clients call
    Permissive,        \* TRUE: no grants file, every caller is unrestricted
    GrantTable,        \* strict mode: the known callers and their scopes
    CsprngMayFail,     \* whether drawing an id can fail
    MaxTime            \* bound of the clock

SessionOps == {"create", "get", "list", "terminate_session"}
ProcessOps == {"status", "wait", "terminate_process"}
Scopes == {"execute", "inspect", "terminate"}

ASSUME DaemonAssumption ==
    /\ Ops \subseteq SessionOps \cup ProcessOps \cup {"execute"}
    /\ Permissive \in BOOLEAN
    /\ CsprngMayFail \in BOOLEAN
    /\ MaxTime \in Nat
    /\ Legacy \notin DOMAIN GrantTable

VARIABLES
    now,        \* the wall clock, in seconds
    sessions,   \* the session table
    procs,      \* the process table
    req         \* the requests in flight

vars == <<now, sessions, procs, req>>

Idle ==
    [op |-> "none", caller |-> Legacy, sid |-> NoSession, pid |-> NoProc,
     pc |-> "idle", t |-> 0, pending |-> {}, targets |-> {}, reply |-> "none"]

Request ==
    [op : Ops \cup {"none"}, caller : Callers \cup {Legacy},
     sid : SessionIds \cup {NoSession}, pid : ProcIds \cup {NoProc},
     pc : {"idle", "enter", "act", "spawn", "cascade", "remove", "reply"},
     t : Nat, pending : SUBSET SessionIds, targets : SUBSET ProcIds,
     reply : {"none", "ok", "notfound", "expired", "capacity", "internal", "refused"}]

\* The state every component is in before the first request.
Init ==
    /\ now = 0
    /\ sessions = [s \in {} |-> Idle]
    /\ procs = [p \in {} |-> Idle]
    /\ req = [r \in Requests |-> Idle]

-----------------------------------------------------------------------------
(* Authorisation *)

\* deny_unknown_principal lets the call through.
Known(caller) == Permissive \/ caller \in DOMAIN GrantTable

\* The caller's effective grants cover the scope.
Granted(caller, scope) ==
    Permissive \/ (caller \in DOMAIN GrantTable /\ scope \in GrantTable[caller])

\* Waiting observes output and is gated like terminating.
ScopeOf(op) == IF op = "status" THEN "inspect" ELSE "terminate"

-----------------------------------------------------------------------------
(* Ids.  The code draws 128 random bits: an id that anything still refers  *)
(* to is never drawn again.                                                *)

FreshSessions ==
    {s \in SessionIds : /\ s \notin DOMAIN sessions
                        /\ \A p \in DOMAIN procs : procs[p].session # s
                        /\ \A r \in Requests : req[r].sid # s /\ s \notin req[r].pending}

FreshProcs ==
    {p \in ProcIds : /\ p \notin DOMAIN procs
                     /\ \A r \in Requests : req[r].pid # p /\ p \notin req[r].targets}

-----------------------------------------------------------------------------
(* Requests *)

\* The reply is decided; the processes of the purged sessions are killed
\* before it is sent.
Finish(r, reply, purged) ==
    req' = [req EXCEPT ![r].pc = "reply", ![r].reply = reply, ![r].pending = purged]

\* A client calls an operation.  Session operations turn unknown principals
\* away here; process operations do so only after the touch.
Arrive(r) ==
    /\ req[r].pc = "idle"
    /\ \E op \in Ops, c \in Callers :
       \E s \in IF op \in {"create", "list"} THEN {NoSession} ELSE SessionIds :
          req' = [req EXCEPT ![r] =
                    IF op \in SessionOps /\ ~Known(c)
                    THEN [Idle EXCEPT !.op = op, !.caller = c, !.sid = s,
                                      !.pc = "reply", !.reply = "refused"]
                    ELSE [Idle EXCEPT !.op = op, !.caller = c, !.sid = s,
                                      !.pc = "enter", !.t = now]]
    /\ UNCHANGED <<now, sessions, procs>>

handle_create_session(r) ==
    /\ req[r].pc = "enter" /\ req[r].op = "create"
    /\ \E s \in FreshSessions \cup {NoSession} :
         LET o == create_owned(sessions, s, req[r].caller, req[r].t)
         IN  /\ s = NoSession => CsprngMayFail \/ o.result = "capacity"
             /\ sessions' = o.table
             /\ Finish(r, o.result, o.purged)
    /\ UNCHANGED <<now, procs>>

\* The checks of create_owned and of handle_execute and start before a table is
\* locked: validation, unknown principal, policy, grant, working directory.
\* Only the grant depends on modelled state; the others may refuse any request.
ChecksRefuse(r) ==
    /\ \/ req[r].pc = "enter" /\ req[r].op = "create"
       \/ req[r].pc = "act" /\ req[r].op = "execute"
    /\ Finish(r, "refused", {})
    /\ UNCHANGED <<now, sessions, procs>>

handle_list_sessions(r) ==
    /\ req[r].pc = "enter" /\ req[r].op = "list"
    /\ LET o == list_owned(sessions, req[r].t)
       IN  /\ sessions' = o.table
           /\ Finish(r, o.result, o.purged)
    /\ UNCHANGED <<now, procs>>

\* The touch every session-scoped operation begins with, and all of
\* handle_get_session.
require_live_session(r) ==
    /\ req[r].pc = "enter" /\ req[r].op \notin {"create", "list"}
    /\ LET o == get_owned(sessions, req[r].sid, req[r].caller, req[r].t)
       IN  /\ sessions' = o.table
           /\ IF o.result = "ok" /\ req[r].op # "get"
              THEN req' = [req EXCEPT ![r].pc = "act"]
              ELSE Finish(r, o.result, o.purged)
    /\ UNCHANGED <<now, procs>>

-----------------------------------------------------------------------------
(* Killing the processes of a session *)

\* kill_purged_sessions_best_effort, kill_session_processes: the entries of one
\* purged session are cloned under the process table's lock.
SnapshotPurged(r) ==
    /\ req[r].pc = "reply" /\ req[r].targets = {}
    /\ \E s \in req[r].pending :
         req' = [req EXCEPT ![r].pending = @ \ {s}, ![r].targets = KillTargets(procs, s)]
    /\ UNCHANGED <<now, sessions, procs>>

\* The cascade of handle_terminate_session begins.
SnapshotCascade(r) ==
    /\ req[r].pc = "act" /\ req[r].op = "terminate_session"
    /\ req' = [req EXCEPT ![r].pc = "cascade", ![r].targets = KillTargets(procs, req[r].sid)]
    /\ UNCHANGED <<now, sessions, procs>>

\* Outside the table's lock, one entry at a time.
MarkTarget(r) ==
    /\ req[r].pc \in {"cascade", "reply"}
    /\ \E p \in req[r].targets :
         /\ procs' = RequestKill(procs, p)
         /\ req' = [req EXCEPT ![r].targets = @ \ {p}]
    /\ UNCHANGED <<now, sessions>>

\* Fault: the removal does not wait for the kills.
FaultyCascadeDone(r) ==
    /\ req[r].pc = "cascade"
    /\ req' = [req EXCEPT ![r].pc = "remove", ![r].t = now]
    /\ UNCHANGED <<now, sessions, procs>>

\* terminate_owned reads the clock, then waits for the session table's lock.
CascadeDone(r) ==
    /\ req[r].pc = "cascade" /\ req[r].targets = {}
    /\ req' = [req EXCEPT ![r].pc = "remove", ![r].t = now]
    /\ UNCHANGED <<now, sessions, procs>>

RemoveSession(r) ==
    /\ req[r].pc = "remove"
    /\ LET o == terminate_owned(sessions, req[r].sid, req[r].caller, req[r].t)
       IN  /\ sessions' = o.table
           /\ Finish(r, o.result, o.purged)
    /\ UNCHANGED <<now, procs>>

Respond(r) ==
    /\ req[r].pc = "reply" /\ req[r].pending = {} /\ req[r].targets = {}
    /\ req' = [req EXCEPT ![r] = Idle]
    /\ UNCHANGED <<now, sessions, procs>>

-----------------------------------------------------------------------------
(* Process operations *)

\* An entry inserted when its session is gone already, or when the session's
\* cascade has taken its snapshot, is late: the kill does not see it.
Late(s) ==
    \/ s \notin DOMAIN sessions
    \/ \E q \in Requests : req[q].pc \in {"cascade", "remove"} /\ req[q].sid = s

NewEntry(r) ==
    [session |-> req[r].sid, status |-> "running", kill_requested |-> FALSE,
     finished_at |-> 0, child |-> "none", by |-> req[r].caller, late |-> Late(req[r].sid)]

\* start's critical section: evict, check the two bounds, insert.  A refusal
\* keeps what was evicted.
ReserveSlot(r) ==
    /\ req[r].pc = "act" /\ req[r].op = "execute"
    /\ Granted(req[r].caller, "execute")
    /\ LET swept == evict_expired_terminal_entries(procs, now)
       IN  IF SessionFull(swept, req[r].sid)
           THEN procs' = swept /\ Finish(r, "capacity", {})
           ELSE \E room \in make_room_for_spawn(swept, now) :
                  IF Cardinality(DOMAIN room) >= MaxProcesses
                  THEN procs' = room /\ Finish(r, "capacity", {})
                  ELSE \/ \E p \in FreshProcs :
                            /\ procs' = Put(room, p, NewEntry(r))
                            /\ req' = [req EXCEPT ![r].pc = "spawn", ![r].pid = p]
                       \/ /\ CsprngMayFail
                          /\ procs' = room
                          /\ Finish(r, "internal", {})
    /\ UNCHANGED <<now, sessions>>

SpawnSucceeds(r) ==
    /\ req[r].pc = "spawn"
    /\ procs' = [procs EXCEPT ![req[r].pid].child = "supervised"]
    /\ Finish(r, "ok", {})
    /\ UNCHANGED <<now, sessions>>

\* The reserved slot is released.
SpawnFails(r) ==
    /\ req[r].pc = "spawn"
    /\ procs' = Drop(procs, {req[r].pid})
    /\ Finish(r, "internal", {})
    /\ UNCHANGED <<now, sessions>>

\* handle_process_status, handle_wait_process, handle_terminate_process: check
\* the caller, look the entry up under (session, process id), act on it.  A
\* wait keeps the request open and changes nothing.
OperateOnProcess(r) ==
    /\ req[r].pc = "act" /\ req[r].op \in ProcessOps
    /\ \E p \in ProcIds :
         IF ~Granted(req[r].caller, ScopeOf(req[r].op))
         THEN Finish(r, "refused", {}) /\ UNCHANGED procs
         ELSE IF ~lookup(procs, req[r].sid, p)
         THEN Finish(r, "notfound", {}) /\ UNCHANGED procs
         ELSE /\ procs' = IF req[r].op = "terminate_process" THEN RequestKill(procs, p) ELSE procs
              /\ req' = [req EXCEPT ![r].pc = "reply", ![r].reply = "ok", ![r].pid = p]
    /\ UNCHANGED <<now, sessions>>

-----------------------------------------------------------------------------
(* Supervisors (supervise): one per spawned child *)

\* The child exits by itself, or waiting for it fails.
ChildExits(p) ==
    /\ p \in DOMAIN procs /\ procs[p].child = "supervised"
    /\ procs' = [procs EXCEPT ![p].child = "reaped"]
    /\ UNCHANGED <<now, sessions, req>>

\* The supervisor's poll sees the kill flag, kills the child and reaps it.
KillChild(p) ==
    /\ p \in DOMAIN procs /\ procs[p].child = "supervised" /\ procs[p].kill_requested
    /\ procs' = [procs EXCEPT ![p].child = "reaped"]
    /\ UNCHANGED <<now, sessions, req>>

\* Fault: stamped with the time before the drain.
FaultyPublish(p) ==
    /\ p \in DOMAIN procs /\ procs[p].child = "reaped" /\ procs[p].status = "running"
    /\ procs' = [procs EXCEPT ![p].status = "terminal", ![p].finished_at = now - 1]
    /\ UNCHANGED <<now, sessions, req>>

\* After the drain the final state is published, with its time.
Publish(p) ==
    /\ p \in DOMAIN procs /\ procs[p].child = "reaped" /\ procs[p].status = "running"
    /\ procs' = [procs EXCEPT ![p].status = "terminal", ![p].finished_at = now]
    /\ UNCHANGED <<now, sessions, req>>

Tick ==
    /\ now < MaxTime
    /\ now' = now + 1
    /\ UNCHANGED <<sessions, procs, req>>

-----------------------------------------------------------------------------
HandlerStep(r) ==
    \/ handle_create_session(r)
    \/ handle_list_sessions(r)
    \/ require_live_session(r)
    \/ SnapshotPurged(r)
    \/ SnapshotCascade(r)
    \/ MarkTarget(r)
    \/ CascadeDone(r)
    \/ RemoveSession(r)
    \/ ChecksRefuse(r)
    \/ ReserveSlot(r)
    \/ SpawnSucceeds(r)
    \/ SpawnFails(r)
    \/ OperateOnProcess(r)
    \/ Respond(r)

SupervisorStep(p) == KillChild(p) \/ Publish(p)

Next ==
    \/ \E r \in Requests : Arrive(r) \/ HandlerStep(r)
    \/ \E p \in ProcIds : SupervisorStep(p) \/ ChildExits(p)
    \/ Tick

Spec == Init /\ [][Next]_vars

\* The runtime keeps polling handlers and supervisors.  Clients need not call,
\* children need not exit by themselves, the clock need not advance.
Fairness ==
    /\ \A r \in Requests : WF_vars(HandlerStep(r))
    /\ \A p \in ProcIds : WF_vars(SupervisorStep(p))

FairSpec == Spec /\ Fairness
-----------------------------------------------------------------------------
(* Properties *)

\* Every variable has its type: tables map ids to records, requests are in a
\* known phase.
TypeOK ==
    /\ now \in Nat
    /\ IsSessionTable(sessions)
    /\ IsProcessTable(procs)
    /\ req \in [Requests -> Request]

\* A live process that no client can name any more (every process operation
\* needs a live session) and that nobody has asked to die.
Unreachable(p) ==
    /\ procs[p].status = "running"
    /\ ~procs[p].kill_requested
    /\ procs[p].session \notin DOMAIN sessions

\* Request r is still going to kill p before it replies.
WillKill(r, p) ==
    \/ req[r].pc = "reply" /\ procs[p].session \in req[r].pending
    \/ req[r].pc \in {"cascade", "reply"} /\ p \in req[r].targets

KillPending(p) == \E r \in Requests : WillKill(r, p)

\* No expiry and no termination forgets a live process: one whose session has
\* left the table is about to be killed by the handler that removed it, unless
\* its own execute raced the removal (the RACE NOTE of process.rs).
NoSilentOrphan ==
    \A p \in DOMAIN procs : Unreachable(p) => procs[p].late \/ KillPending(p)

\* Kill-then-remove: when terminate_session answers ok, every process started
\* before its cascade is terminal or has its kill flag set, whatever other
\* requests did in between.
CascadeComplete ==
    \A r \in Requests, p \in DOMAIN procs :
        /\ req[r].op = "terminate_session" /\ req[r].pc = "reply" /\ req[r].reply = "ok"
        /\ procs[p].session = req[r].sid /\ procs[p].status = "running"
        => procs[p].late \/ procs[p].kill_requested

\* max_sessions, max_processes and max_processes_per_session are never exceeded,
\* although bounds are checked while other requests and supervisors run.
WithinBounds ==
    /\ Cardinality(DOMAIN sessions) <= MaxSessions
    /\ Cardinality(DOMAIN procs) <= MaxProcesses
    /\ \A s \in SessionIds : Cardinality(OfSession(procs, s)) <= MaxPerSession

\* A request answers ok about a process only to the caller who started it
\* (every session is owned when no legacy caller exists), even when the session
\* died and other sessions came and went in between.
OnlyOwnersReach ==
    \A r \in Requests :
        /\ Legacy \notin Callers
        /\ req[r].op \in ProcessOps /\ req[r].reply = "ok" /\ req[r].pid \in DOMAIN procs
        => procs[req[r].pid].by = req[r].caller

\* A supervised child never loses its table entry, whatever is evicted to make
\* room: its kill flag and its output live there.
LiveNeverEvicted ==
    [][\A p \in DOMAIN procs :
         procs[p].child = "supervised" => p \in DOMAIN procs']_vars

\* Only a known principal whom the owner check permits keeps a session alive,
\* although process operations touch the session BEFORE they turn unknown
\* principals away.
OnlyKnownOwnersBump ==
    [][\A s \in DOMAIN sessions \cap DOMAIN sessions' :
         sessions'[s] # sessions[s] =>
            \E r \in Requests : /\ req[r].pc = "enter" /\ req[r].sid = s
                                /\ sessions[s].owner \in {Legacy, req[r].caller}
                                /\ Known(req[r].caller)]_vars

\* Some request that touched s read the clock within the idle timeout, and s is
\* not too old.
InUse(s) ==
    /\ now - sessions[s].used <= IdleTimeout
    /\ now - sessions[s].created_at <= MaxLifetime

\* A permitted caller's terminate_session is about to remove s.
Terminating(s) ==
    \E r \in Requests : /\ req[r].pc = "remove" /\ req[r].sid = s
                        /\ sessions[s].owner \in {Legacy, req[r].caller}

\* A session that is in use leaves the table only when a permitted caller
\* terminates it, although every purge judges by a clock that its own request read
\* before the lock and by one that another request read.  The exception is a
\* session whose last touch was overtaken: get_owned then set last_activity back
\* (session.rs lines 455 and 507).
NoEarlyExpiry ==
    [][\A s \in DOMAIN sessions \ DOMAIN sessions' :
         InUse(s) => Terminating(s) \/ sessions[s].overtaken]_vars

\* A live process whose session was removed does die, unless it is late: the
\* handler completes its kills, the supervisor acts on them and publishes.
OrphansDie ==
    \A p \in ProcIds :
        (p \in DOMAIN procs /\ procs[p].session \notin DOMAIN sessions /\ ~procs[p].late)
            ~> (p \in DOMAIN procs => procs[p].status = "terminal")

\* process.rs lines 17-24 say of a late process that "if still live it survives
\* until the next expiry sweep kills it": every sweep would have to find it.
SweepFindsLate ==
    [][\A r \in Requests :
         handle_list_sessions(r) =>
            \A p \in DOMAIN procs :
                Unreachable(p) => KillPending(p) \/ procs[p].session \in req'[r].pending]_vars
=============================================================================
