------------------------- MODULE DaemonAccessProofs -------------------------
(***************************************************************************)
(* Further proofs about Daemon: the bounds of the two tables, who reaches  *)
(* whose processes, who keeps a session alive, and what may leave a table. *)
(***************************************************************************)
EXTENDS DaemonProofs

-----------------------------------------------------------------------------
(* What the operations of the session manager do to the records *)

\* A refused access changes no record and removes an expired one only.
LEMMA MissRecords ==
    ASSUME NEW T, IsSessionTable(T), NEW s, NEW c, NEW t
    PROVE  LET o == Miss(T, s, c, t)
           IN  /\ \A x \in DOMAIN o.table : x \in DOMAIN T /\ o.table[x] = T[x]
               /\ \A x \in DOMAIN T \ DOMAIN o.table : is_expired(T[x], t)
               /\ o.result # "ok"
  <1> DEFINE o == Miss(T, s, c, t)
  <1>1. o.table = IF is_expired(T[s], t) THEN Without(T, {s}) ELSE T
    BY DEF Miss, Outcome
  <1>2. o.result # "ok"
    BY DEF Miss, Outcome
  <1>3. /\ DOMAIN Without(T, {s}) = DOMAIN T \ {s}
        /\ \A x \in DOMAIN T \ {s} : Without(T, {s})[x] = T[x]
    BY WithoutTable
  <1> HIDE DEF o
  <1>4. /\ \A x \in DOMAIN o.table : x \in DOMAIN T /\ o.table[x] = T[x]
        /\ \A x \in DOMAIN T \ DOMAIN o.table : is_expired(T[x], t)
    BY <1>1, <1>3
  <1>5. QED
    BY <1>2, <1>4 DEF o

\* last_activity is the latest reading of those that used the session, unless the
\* last of them was overtaken.
Recorded(info) == ~info.overtaken => info.last_activity = info.used

\* A bump keeps it so.
LEMMA WriteRecorded ==
    ASSUME NEW info \in SessionRecord, NEW t \in Nat
    PROVE  Recorded(Touched(info, t))
  <1>1. /\ Touched(info, t).last_activity = t
        /\ Touched(info, t).used = IF t > info.used THEN t ELSE info.used
        /\ Touched(info, t).overtaken = (t < info.used)
    BY DEF Touched, SessionRecord
  <1>2. info.used \in Nat
    BY DEF SessionRecord
  <1>3. ~(t < info.used) => t = IF t > info.used THEN t ELSE info.used
    BY <1>2
  <1>4. QED
    BY <1>1, <1>3 DEF Recorded

\* get_owned keeps every owner, changes only the record of a permitted access,
\* and removes expired records only.
LEMMA TouchRecords ==
    ASSUME NEW T, IsSessionTable(T), NEW s, NEW c, NEW t \in Nat
    PROVE  LET o == get_owned(T, s, c, t)
           IN  /\ \A x \in DOMAIN o.table :
                    /\ x \in DOMAIN T /\ o.table[x].owner = T[x].owner
                    /\ o.table[x] # T[x] => /\ x = s /\ Permitted(T, s, c, t)
                                            /\ Recorded(o.table[x])
               /\ \A x \in DOMAIN T \ DOMAIN o.table : is_expired(T[x], t)
               /\ o.result = "ok" => Permitted(T, s, c, t) /\ s \in DOMAIN o.table
  <1>1. CASE s \notin DOMAIN T
    BY <1>1 DEF get_owned, Outcome
  <1>2. CASE s \in DOMAIN T /\ Permitted(T, s, c, t)
    <2> DEFINE info == Touched(T[s], t)
    <2>1. get_owned(T, s, c, t) = Outcome([T EXCEPT ![s] = info], "ok", {})
      BY <1>2 DEF get_owned
    <2>2. T[s] \in SessionRecord
      BY <1>2 DEF IsSessionTable
    <2>3. info.owner = T[s].owner /\ Recorded(info)
      BY <2>2, TouchedRecord, WriteRecorded
    <2> HIDE DEF info
    <2>4. QED
      BY <1>2, <2>1, <2>3 DEF Outcome, IsSessionTable
  <1>3. CASE s \in DOMAIN T /\ ~Permitted(T, s, c, t)
    <2>1. get_owned(T, s, c, t) = Miss(T, s, c, t)
      BY <1>3 DEF get_owned
    <2>2. QED
      BY <2>1, MissRecords
  <1>4. QED
    BY <1>1, <1>2, <1>3

\* terminate_owned changes no record, and removes an expired one or the one a
\* permitted caller names.
LEMMA TerminateRecords ==
    ASSUME NEW T, IsSessionTable(T), NEW s, NEW c, NEW t
    PROVE  LET o == terminate_owned(T, s, c, t)
           IN  /\ \A x \in DOMAIN o.table : x \in DOMAIN T /\ o.table[x] = T[x]
               /\ \A x \in DOMAIN T \ DOMAIN o.table :
                    is_expired(T[x], t) \/ (x = s /\ owner_permits(T[s].owner, c))
  <1>1. CASE s \notin DOMAIN T
    BY <1>1 DEF terminate_owned, Outcome
  <1>2. CASE s \in DOMAIN T /\ Permitted(T, s, c, t)
    <2>1. terminate_owned(T, s, c, t).table = Without(T, {s})
      BY <1>2 DEF terminate_owned, Outcome
    <2>2. /\ DOMAIN Without(T, {s}) = DOMAIN T \ {s}
          /\ \A x \in DOMAIN T \ {s} : Without(T, {s})[x] = T[x]
      BY WithoutTable
    <2>3. owner_permits(T[s].owner, c)
      BY <1>2 DEF Permitted
    <2>4. QED
      BY <2>1, <2>2, <2>3
  <1>3. CASE s \in DOMAIN T /\ ~Permitted(T, s, c, t)
    <2>1. terminate_owned(T, s, c, t) = Miss(T, s, c, t)
      BY <1>3 DEF terminate_owned
    <2>2. QED
      BY <2>1, MissRecords
  <1>4. QED
    BY <1>1, <1>2, <1>3

\* A sweep changes no record and removes expired ones only.
LEMMA SweepRecords ==
    ASSUME NEW T, IsSessionTable(T), NEW t
    PROVE  LET o == purge_expired_locked(T, t)
           IN  /\ \A x \in DOMAIN o.table : x \in DOMAIN T /\ o.table[x] = T[x]
               /\ \A x \in DOMAIN T \ DOMAIN o.table : is_expired(T[x], t)
  <1> DEFINE X == Expired(T, t)
  <1>1. purge_expired_locked(T, t).table = Without(T, X)
    BY DEF purge_expired_locked, Outcome
  <1>2. \A x \in X : is_expired(T[x], t)
    BY DEF Expired
  <1> HIDE DEF X
  <1>3. /\ DOMAIN Without(T, X) = DOMAIN T \ X
        /\ \A x \in DOMAIN T \ X : Without(T, X)[x] = T[x]
    BY WithoutTable
  <1>4. QED
    BY <1>1, <1>2, <1>3

\* create_owned adds a record of the caller under the drawn id and otherwise
\* does what a sweep does.
LEMMA CreateRecords ==
    ASSUME NEW T, IsSessionTable(T), NEW s, s \notin DOMAIN T, NEW c, NEW t \in Nat
    PROVE  LET o == create_owned(T, s, c, t)
           IN  /\ \A x \in DOMAIN o.table \cap DOMAIN T : o.table[x] = T[x]
               /\ \A x \in DOMAIN o.table \ DOMAIN T :
                    /\ x = s /\ s # NoSession /\ o.table[x].owner = c
                    /\ Recorded(o.table[x])
               /\ \A x \in DOMAIN T \ DOMAIN o.table : is_expired(T[x], t)
  <1> DEFINE swept == purge_expired_locked(T, t)
             info  == NewSession(c, t)
             o     == create_owned(T, s, c, t)
  <1>1. /\ \A x \in DOMAIN swept.table : x \in DOMAIN T /\ swept.table[x] = T[x]
        /\ \A x \in DOMAIN T \ DOMAIN swept.table : is_expired(T[x], t)
    BY SweepRecords
  <1>2. \/ o.table = swept.table
        \/ s # NoSession /\ o.table = With(swept.table, s, info)
    BY DEF create_owned, Outcome
  <1>3. info.owner = c /\ Recorded(info)
    BY DEF NewSession, Recorded
  <1>4. /\ DOMAIN With(swept.table, s, info) = DOMAIN swept.table \cup {s}
        /\ With(swept.table, s, info)[s] = info
        /\ \A x \in DOMAIN swept.table : x # s => With(swept.table, s, info)[x] = swept.table[x]
    <2> HIDE DEF swept, info
    <2>1. QED
      BY DEF With
  <1> HIDE DEF swept, info, o
  <1>5. QED
    BY <1>1, <1>2, <1>3, <1>4 DEF o

-----------------------------------------------------------------------------
(* What one step of the daemon does to each variable *)

\* A step keeps the owner of every session, changes only a record that a
\* permitted request touches, adds only fresh ids for a creating request, and
\* removes only what is over age or what a permitted request terminates; a record
\* it writes has the latest reading, unless overtaken.
SessionEffects ==
    /\ \A s \in DOMAIN sessions \cap DOMAIN sessions' :
         /\ sessions'[s].owner = sessions[s].owner
         /\ sessions'[s] # sessions[s] =>
              \E r \in Requests : /\ req[r].pc = "enter" /\ req[r].sid = s
                                  /\ owner_permits(sessions[s].owner, req[r].caller)
    /\ \A s \in DOMAIN sessions' :
         Recorded(sessions'[s]) \/ (s \in DOMAIN sessions /\ sessions'[s] = sessions[s])
    /\ \A s \in DOMAIN sessions' \ DOMAIN sessions :
         /\ s \in FreshSessions
         /\ \E r \in Requests : /\ req[r].pc = "enter" /\ req[r].op = "create"
                                /\ sessions'[s].owner = req[r].caller
    /\ \A s \in DOMAIN sessions \ DOMAIN sessions' :
         \E r \in Requests :
            \/ is_expired(sessions[s], req[r].t)
            \/ /\ req[r].pc = "remove" /\ req[r].sid = s
               /\ owner_permits(sessions[s].owner, req[r].caller)

\* Every step does that.
LEMMA SessionStep ==
    ASSUME TypeInv, [Next]_vars
    PROVE  SessionEffects
  <1>0. IsSessionTable(sessions) /\ \A r \in Requests : req[r].t \in Nat
    BY DEF TypeInv, TypeOK, Request
  <1>1. ASSUME NEW r \in Requests, handle_create_session(r) PROVE SessionEffects
    <2>1. PICK s \in FreshSessions \cup {NoSession} :
            sessions' = create_owned(sessions, s, req[r].caller, req[r].t).table
      BY <1>1 DEF handle_create_session
    <2> DEFINE o == create_owned(sessions, s, req[r].caller, req[r].t)
    <2>2. s \notin DOMAIN sessions
      BY <1>0, SessionConfigAssumption DEF FreshSessions, IsSessionTable
    <2>3. /\ \A x \in DOMAIN o.table \cap DOMAIN sessions : o.table[x] = sessions[x]
          /\ \A x \in DOMAIN o.table \ DOMAIN sessions :
                /\ x = s /\ s # NoSession /\ o.table[x].owner = req[r].caller
                /\ Recorded(o.table[x])
          /\ \A x \in DOMAIN sessions \ DOMAIN o.table : is_expired(sessions[x], req[r].t)
      BY <1>0, <2>2, CreateRecords
    <2>4. sessions' = o.table
      BY <2>1
    <2> HIDE DEF o
    <2>5. QED
      BY <1>1, <2>3, <2>4 DEF SessionEffects, handle_create_session
  <1>2. ASSUME NEW r \in Requests, handle_list_sessions(r) PROVE SessionEffects
    <2> DEFINE o == purge_expired_locked(sessions, req[r].t)
    <2>1. /\ \A x \in DOMAIN o.table : x \in DOMAIN sessions /\ o.table[x] = sessions[x]
          /\ \A x \in DOMAIN sessions \ DOMAIN o.table : is_expired(sessions[x], req[r].t)
      BY <1>0, SweepRecords
    <2>2. sessions' = o.table
      BY <1>2 DEF handle_list_sessions, list_owned
    <2> HIDE DEF o
    <2>3. QED
      BY <2>1, <2>2 DEF SessionEffects
  <1>3. ASSUME NEW r \in Requests, require_live_session(r) PROVE SessionEffects
    <2> DEFINE o == get_owned(sessions, req[r].sid, req[r].caller, req[r].t)
    <2>1. /\ \A x \in DOMAIN o.table :
                /\ x \in DOMAIN sessions /\ o.table[x].owner = sessions[x].owner
                /\ o.table[x] # sessions[x] =>
                     /\ x = req[r].sid /\ Permitted(sessions, req[r].sid, req[r].caller, req[r].t)
                     /\ Recorded(o.table[x])
          /\ \A x \in DOMAIN sessions \ DOMAIN o.table : is_expired(sessions[x], req[r].t)
      BY <1>0, TouchRecords
    <2>2. sessions' = o.table /\ req[r].pc = "enter"
      BY <1>3 DEF require_live_session
    <2> HIDE DEF o
    <2>3. QED
      BY <2>1, <2>2 DEF SessionEffects, Permitted
  <1>4. ASSUME NEW r \in Requests, RemoveSession(r) PROVE SessionEffects
    <2> DEFINE o == terminate_owned(sessions, req[r].sid, req[r].caller, req[r].t)
    <2>1. /\ \A x \in DOMAIN o.table : x \in DOMAIN sessions /\ o.table[x] = sessions[x]
          /\ \A x \in DOMAIN sessions \ DOMAIN o.table :
                \/ is_expired(sessions[x], req[r].t)
                \/ x = req[r].sid /\ owner_permits(sessions[req[r].sid].owner, req[r].caller)
      BY <1>0, TerminateRecords
    <2>2. sessions' = o.table /\ req[r].pc = "remove"
      BY <1>4 DEF RemoveSession
    <2> HIDE DEF o
    <2>3. QED
      BY <2>1, <2>2 DEF SessionEffects
  <1>5. CASE UNCHANGED sessions
    BY <1>5 DEF SessionEffects
  <1>6. QED
    BY <1>1, <1>2, <1>3, <1>4, <1>5
       DEF Next, vars, HandlerStep, SupervisorStep, Arrive, SnapshotPurged, SnapshotCascade,
           MarkTarget, CascadeDone, ChecksRefuse, ReserveSlot, SpawnSucceeds, SpawnFails,
           OperateOnProcess, Respond, KillChild, Publish, ChildExits, Tick

\* ReserveSlot inserts only when neither bound is reached, judging the bound of
\* the session on the table as retention left it.
LEMMA ReserveRoom ==
    ASSUME IsProcessTable(procs), NEW r \in Requests, ReserveSlot(r)
    PROVE  \/ EvictedFrom(procs', procs)
           \/ \E swept, room : \E p \in FreshProcs :
                 /\ EvictedFrom(swept, procs) /\ EvictedFrom(room, swept)
                 /\ EvictedFrom(room, procs)
                 /\ ~SessionFull(swept, req[r].sid)
                 /\ ~(Cardinality(DOMAIN room) >= MaxProcesses)
                 /\ procs' = Put(room, p, NewEntry(r))
                 /\ req' = [req EXCEPT ![r].pc = "spawn", ![r].pid = p]
  <1> DEFINE swept == evict_expired_terminal_entries(procs, now)
  <1>1. EvictedFrom(swept, procs)
    BY RetentionTable
  <1>2. IsProcessTable(swept)
    BY <1>1 DEF EvictedFrom
  <1>3. \/ procs' = swept
        \/ /\ ~SessionFull(swept, req[r].sid)
           /\ \E room \in make_room_for_spawn(swept, now) :
                \/ procs' = room
                \/ \E p \in FreshProcs :
                     /\ ~(Cardinality(DOMAIN room) >= MaxProcesses)
                     /\ procs' = Put(room, p, NewEntry(r))
                     /\ req' = [req EXCEPT ![r].pc = "spawn", ![r].pid = p]
    BY DEF ReserveSlot
  <1> HIDE DEF swept
  <1>4. \A room \in make_room_for_spawn(swept, now) : EvictedFrom(room, swept)
    BY <1>2, RoomTable
  <1>5. \A room : EvictedFrom(room, swept) => EvictedFrom(room, procs)
    BY <1>1 DEF EvictedFrom
  <1>6. QED
    BY <1>1, <1>3, <1>4, <1>5

\* A step keeps the session and the starter of every entry, moves a child only
\* forward, adds only a fresh entry for a request that proved its session live,
\* and removes only a terminal entry or the reservation of a failed spawn.
ProcessEffects ==
    /\ \A p \in DOMAIN procs \cap DOMAIN procs' :
         /\ procs'[p].session = procs[p].session /\ procs'[p].by = procs[p].by
         /\ \/ procs'[p].child = procs[p].child
            \/ procs[p].child = "supervised" /\ procs'[p].child = "reaped"
            \/ /\ procs'[p].child = "supervised"
               /\ \E r \in Requests : req[r].pc = "spawn" /\ req[r].pid = p /\ req'[r].pc # "spawn"
         /\ procs'[p].status = procs[p].status \/ procs[p].child = "reaped"
    /\ \A p \in DOMAIN procs' \ DOMAIN procs :
         /\ p \in FreshProcs
         /\ procs'[p].child = "none" /\ procs'[p].status = "running"
         /\ \E r \in Requests : /\ req[r].pc = "act" /\ procs'[p].session = req[r].sid
                                /\ procs'[p].by = req[r].caller
    /\ \A p \in DOMAIN procs \ DOMAIN procs' :
         \/ procs[p].status = "terminal"
         \/ \E r \in Requests : req[r].pc = "spawn" /\ req[r].pid = p /\ req'[r].pc # "spawn"

\* An eviction has only such effects.
LEMMA EvictionEffects ==
    ASSUME IsProcessTable(procs), EvictedFrom(procs', procs)
    PROVE  ProcessEffects
  BY DEF ProcessEffects, EvictedFrom, IsProcessTable, ProcessEntry

\* Every step has only such effects.
LEMMA ProcessStep ==
    ASSUME TypeInv, [Next]_vars
    PROVE  ProcessEffects
  <1>0. IsProcessTable(procs) /\ req \in [Requests -> Request] /\ Shape
    BY DEF TypeInv, TypeOK
  <1>1. ASSUME NEW r \in Requests, ReserveSlot(r) PROVE ProcessEffects
    <2>1. CASE EvictedFrom(procs', procs)
      BY <1>0, <2>1, EvictionEffects
    <2>2. CASE \E room : \E p \in FreshProcs :
                 /\ EvictedFrom(room, procs) /\ procs' = Put(room, p, NewEntry(r))
      <3>1. PICK room : \E p \in FreshProcs :
                 /\ EvictedFrom(room, procs) /\ procs' = Put(room, p, NewEntry(r))
        BY <2>2
      <3>2. PICK p \in FreshProcs :
                 /\ EvictedFrom(room, procs) /\ procs' = Put(room, p, NewEntry(r))
        BY <3>1
      <3>3. /\ NewEntry(r).session = req[r].sid /\ NewEntry(r).by = req[r].caller
            /\ NewEntry(r).child = "none" /\ NewEntry(r).status = "running"
        BY DEF NewEntry
      <3>4. /\ DOMAIN procs' = DOMAIN room \cup {p}
            /\ procs'[p] = NewEntry(r)
            /\ \A q \in DOMAIN room : q # p => procs'[q] = room[q]
        BY <3>2 DEF Put
      <3>5. p \notin DOMAIN procs /\ req[r].pc = "act"
        BY <1>1 DEF FreshProcs, ReserveSlot
      <3>6. \A q \in DOMAIN procs \cap DOMAIN procs' : procs'[q] = procs[q]
        BY <3>2, <3>4, <3>5 DEF EvictedFrom
      <3>7. \A q \in DOMAIN procs \ DOMAIN procs' : procs[q].status = "terminal"
        BY <1>0, <3>2, <3>4 DEF EvictedFrom, IsProcessTable, ProcessEntry
      <3>8. DOMAIN procs' \ DOMAIN procs = {p}
        BY <3>2, <3>4, <3>5 DEF EvictedFrom
      <3>9. QED
        BY <3>3, <3>4, <3>5, <3>6, <3>7, <3>8 DEF ProcessEffects
    <2>3. QED
      BY <1>0, <1>1, <2>1, <2>2, ReserveRoom
  <1>2. ASSUME NEW r \in Requests, SpawnSucceeds(r) PROVE ProcessEffects
    <2>1. req'[r].pc = "reply"
      BY <1>0, <1>2 DEF SpawnSucceeds, Finish, Request
    <2>2. QED
      BY <1>0, <1>2, <2>1 DEF SpawnSucceeds, ProcessEffects, IsProcessTable, ProcessEntry
  <1>3. ASSUME NEW r \in Requests, SpawnFails(r) PROVE ProcessEffects
    <2>1. req'[r].pc = "reply"
      BY <1>0, <1>3 DEF SpawnFails, Finish, Request
    <2>2. QED
      BY <1>0, <1>3, <2>1 DEF SpawnFails, ProcessEffects, Drop
  <1>4. ASSUME NEW p \in ProcIds, procs' = RequestKill(procs, p) PROVE ProcessEffects
    BY <1>0, <1>4, KillTable DEF ProcessEffects
  <1>5. ASSUME NEW r \in Requests, MarkTarget(r) PROVE ProcessEffects
    BY <1>0, <1>4, <1>5 DEF MarkTarget, Request
  <1>6. CASE UNCHANGED procs
    BY <1>6 DEF ProcessEffects
  <1>7. ASSUME NEW r \in Requests, OperateOnProcess(r) PROVE ProcessEffects
    BY <1>4, <1>6, <1>7 DEF OperateOnProcess
  <1>8. ASSUME NEW p \in ProcIds, SupervisorStep(p) \/ ChildExits(p) PROVE ProcessEffects
    BY <1>0, <1>8 DEF SupervisorStep, KillChild, Publish, ChildExits, ProcessEffects,
                      IsProcessTable, ProcessEntry
  <1>9. QED
    BY <1>1, <1>2, <1>3, <1>5, <1>6, <1>7, <1>8
       DEF Next, vars, HandlerStep, Arrive, handle_create_session, handle_list_sessions,
           require_live_session, SnapshotPurged, SnapshotCascade, CascadeDone, RemoveSession,
           ChecksRefuse, Respond, Tick

\* A request proves its session live only where the owner check permits it,
\* reserves only a fresh id while the others stand still, carries a caller who
\* was turned away if unknown, holds no future time, and answers ok about a
\* process only of the session it proved live.
RequestEffects(r) ==
    /\ req'[r].pc = "act" =>
         /\ req'[r].sid = req[r].sid /\ req'[r].caller = req[r].caller
         /\ \/ req[r].pc = "act"
            \/ /\ req[r].pc = "enter"
               /\ req[r].sid \in DOMAIN sessions \cap DOMAIN sessions'
               /\ owner_permits(sessions[req[r].sid].owner, req[r].caller)
    /\ req'[r].pc = "spawn" =>
         \/ req[r].pc = "spawn" /\ req'[r].pid = req[r].pid
         \/ /\ req'[r].pid \in FreshProcs \cap DOMAIN procs'
            /\ \A q \in Requests : q # r => req'[q] = req[q]
    /\ req'[r].pc # "idle" =>
         \/ req'[r].caller \in Callers
         \/ req[r].pc # "idle" /\ req'[r].caller = req[r].caller
    /\ req'[r].pc = "enter" /\ req'[r].op \in SessionOps =>
         Known(req'[r].caller) \/ req'[r] = req[r]
    /\ req'[r].t \in {0, now, req[r].t}
    /\ req'[r].op \in ProcessOps /\ req'[r].reply = "ok" =>
         /\ req'[r].op = req[r].op /\ req'[r].caller = req[r].caller
         /\ \/ req[r].reply = "ok" /\ req'[r].pid = req[r].pid
            \/ /\ req[r].pc = "act" /\ req'[r].pid \in DOMAIN procs
               /\ procs[req'[r].pid].session = req[r].sid

\* Deciding a reply that is not ok, or not about a process, has only such effects.
LEMMA FinishEffects ==
    ASSUME req \in [Requests -> Request], NEW r \in Requests,
           NEW reply \in Results \cup {"refused"},
           NEW purged \in SUBSET SessionIds, Finish(r, reply, purged),
           req[r].pc # "idle", reply # "ok" \/ req[r].op \notin ProcessOps
    PROVE  RequestEffects(r) /\ \A q \in Requests : q # r => req'[q] = req[q]
  <1>1. /\ req'[r].pc = "reply" /\ req'[r].reply = reply
        /\ req'[r].op = req[r].op /\ req'[r].caller = req[r].caller /\ req'[r].t = req[r].t
        /\ \A q \in Requests : q # r => req'[q] = req[q]
    BY FinishFacts
  <1>2. QED
    BY <1>1 DEF RequestEffects

\* Every step of every request has only such effects.
LEMMA RequestStep ==
    ASSUME TypeInv, [Next]_vars, NEW q \in Requests
    PROVE  RequestEffects(q)
  <1>0. /\ IsSessionTable(sessions) /\ IsProcessTable(procs)
        /\ req \in [Requests -> Request] /\ Shape /\ now \in Nat
        /\ req[q] \in Request
    BY DEF TypeInv, TypeOK
  <1>1. ASSUME req'[q] = req[q] PROVE RequestEffects(q)
    BY <1>1 DEF RequestEffects
  <1>2. ASSUME NEW r \in Requests,
               RequestEffects(r) /\ \A x \in Requests : x # r => req'[x] = req[x]
        PROVE  RequestEffects(q)
    BY <1>1, <1>2
  <1>3. ASSUME NEW r \in Requests, Arrive(r) PROVE RequestEffects(q)
    <2>1. PICK op \in Ops, c \in Callers :
            \E s \in IF op \in {"create", "list"} THEN {NoSession} ELSE SessionIds :
              req' = [req EXCEPT ![r] =
                        IF op \in SessionOps /\ ~Known(c)
                        THEN [Idle EXCEPT !.op = op, !.caller = c, !.sid = s,
                                          !.pc = "reply", !.reply = "refused"]
                        ELSE [Idle EXCEPT !.op = op, !.caller = c, !.sid = s,
                                          !.pc = "enter", !.t = now]]
      BY <1>3 DEF Arrive
    <2>2. /\ \/ /\ req'[r].pc = "reply" /\ req'[r].reply = "refused" /\ req'[r].t = 0
             \/ /\ req'[r].pc = "enter" /\ req'[r].reply = "none" /\ req'[r].t = now
                /\ ~(op \in SessionOps /\ ~Known(c))
          /\ req'[r].caller = c /\ req'[r].op = op
          /\ \A x \in Requests : x # r => req'[x] = req[x]
      BY <1>0, <2>1 DEF Idle
    <2>3. RequestEffects(r)
      BY <2>2 DEF RequestEffects
    <2>4. QED
      BY <1>2, <2>2, <2>3
  <1>4. ASSUME NEW r \in Requests, handle_create_session(r) PROVE RequestEffects(q)
    <2>1. PICK s \in FreshSessions \cup {NoSession} :
            LET o == create_owned(sessions, s, req[r].caller, req[r].t)
            IN  sessions' = o.table /\ Finish(r, o.result, o.purged)
      BY <1>4 DEF handle_create_session
    <2> DEFINE o == create_owned(sessions, s, req[r].caller, req[r].t)
    <2>2. Creates(o, sessions, s, req[r].t)
      <3>1. s \in SessionIds \cup {NoSession}
        BY DEF FreshSessions
      <3>2. req[r].caller \in Callers \cup {Legacy} /\ req[r].t \in Nat
        BY <1>0 DEF Request
      <3>3. QED
        BY <1>0, <3>1, <3>2, CreateTable
    <2>3. Finish(r, o.result, o.purged)
      BY <2>1
    <2> HIDE DEF o
    <2>4. o.result \in Results /\ o.purged \in SUBSET SessionIds
      BY <1>0, <2>2 DEF Creates, Results, IsSessionTable
    <2>5. req[r].pc # "idle" /\ req[r].op \notin ProcessOps
      BY <1>4 DEF handle_create_session, ProcessOps
    <2>6. QED
      BY <1>0, <1>2, <2>3, <2>4, <2>5, FinishEffects
  <1>5. ASSUME NEW r \in Requests, handle_list_sessions(r) PROVE RequestEffects(q)
    <2> DEFINE o == list_owned(sessions, req[r].t)
    <2>1. req[r].t \in Nat
      BY <1>0 DEF Request
    <2>2. o.result = "ok" /\ o.purged \in SUBSET DOMAIN sessions
      BY <1>0, <2>1, SweepTable DEF list_owned
    <2>3. Finish(r, o.result, o.purged)
      BY <1>5 DEF handle_list_sessions
    <2> HIDE DEF o
    <2>4. o.result \in Results /\ o.purged \in SUBSET SessionIds
      BY <1>0, <2>2 DEF Results, IsSessionTable
    <2>5. req[r].pc # "idle" /\ req[r].op \notin ProcessOps
      BY <1>5 DEF handle_list_sessions, ProcessOps
    <2>6. QED
      BY <1>0, <1>2, <2>3, <2>4, <2>5, FinishEffects
  <1>6. ASSUME NEW r \in Requests, require_live_session(r) PROVE RequestEffects(q)
    <2> DEFINE o == get_owned(sessions, req[r].sid, req[r].caller, req[r].t)
    <2>1. req[r].t \in Nat /\ req[r].sid \in SessionIds /\ req[r] \in Request
      BY <1>0, <1>6 DEF Request, Shape, require_live_session
    <2>2. o.result \in Results /\ o.purged \in SUBSET SessionIds
      BY <1>0, <2>1, TouchTable
    <2>3. o.result = "ok" => /\ Permitted(sessions, req[r].sid, req[r].caller, req[r].t)
                             /\ req[r].sid \in DOMAIN o.table
      BY <1>0, <2>1, TouchRecords
    <2>4. /\ sessions' = o.table /\ req[r].pc = "enter"
          /\ \/ o.result = "ok" /\ req' = [req EXCEPT ![r].pc = "act"]
             \/ ~(o.result = "ok" /\ req[r].op # "get") /\ Finish(r, o.result, o.purged)
      BY <1>6 DEF require_live_session
    <2> HIDE DEF o
    <2>5. CASE o.result = "ok" /\ req' = [req EXCEPT ![r].pc = "act"]
      <3>1. /\ req'[r].pc = "act" /\ req'[r].sid = req[r].sid /\ req'[r].caller = req[r].caller
            /\ req'[r].t = req[r].t /\ req'[r].op = req[r].op /\ req'[r].reply = req[r].reply
            /\ req'[r].pid = req[r].pid
            /\ \A x \in Requests : x # r => req'[x] = req[x]
        BY <1>0, <2>1, <2>5 DEF Request
      <3>2. RequestEffects(r)
        BY <2>3, <2>4, <2>5, <3>1 DEF RequestEffects, Permitted
      <3>3. QED
        BY <1>2, <3>1, <3>2
    <2>6. CASE ~(o.result = "ok" /\ req[r].op # "get") /\ Finish(r, o.result, o.purged)
      <3>1. req[r].pc # "idle" /\ (o.result # "ok" \/ req[r].op \notin ProcessOps)
        BY <2>4, <2>6 DEF ProcessOps
      <3>2. QED
        BY <1>0, <1>2, <2>2, <2>6, <3>1, FinishEffects
    <2>7. QED
      BY <2>4, <2>5, <2>6
  <1>7. ASSUME NEW r \in Requests, RemoveSession(r) PROVE RequestEffects(q)
    <2> DEFINE o == terminate_owned(sessions, req[r].sid, req[r].caller, req[r].t)
    <2>1. req[r].t \in Nat /\ req[r].sid \in SessionIds
      BY <1>0, <1>7 DEF Request, Shape, RemoveSession
    <2>2. o.result \in Results /\ o.purged \in SUBSET SessionIds
      BY <1>0, <2>1, TerminateTable
    <2>3. Finish(r, o.result, o.purged)
      BY <1>7 DEF RemoveSession
    <2> HIDE DEF o
    <2>4. req[r].pc # "idle" /\ req[r].op \notin ProcessOps
      BY <1>0, <1>7 DEF RemoveSession, Shape, ProcessOps
    <2>5. QED
      BY <1>0, <1>2, <2>2, <2>3, <2>4, FinishEffects
  <1>8. ASSUME NEW r \in Requests, ChecksRefuse(r) PROVE RequestEffects(q)
    <2>1. req[r].pc # "idle" /\ Finish(r, "refused", {})
      BY <1>8 DEF ChecksRefuse
    <2>2. QED
      BY <1>0, <1>2, <2>1, FinishEffects
  <1>9. ASSUME NEW r \in Requests, SpawnSucceeds(r) \/ SpawnFails(r) PROVE RequestEffects(q)
    <2>1. /\ req[r].pc # "idle" /\ req[r].op \notin ProcessOps
          /\ Finish(r, "ok", {}) \/ Finish(r, "internal", {})
      BY <1>0, <1>9 DEF SpawnSucceeds, SpawnFails, Shape, ProcessOps
    <2>2. QED
      BY <1>0, <1>2, <2>1, FinishEffects DEF Results
  <1>10. ASSUME NEW r \in Requests, ReserveSlot(r) PROVE RequestEffects(q)
    <2>1. CASE \E room : /\ EvictedFrom(room, procs) /\ procs' = room
                         /\ Finish(r, "capacity", {}) \/ Finish(r, "internal", {})
      <3>1. req[r].pc # "idle" /\ (Finish(r, "capacity", {}) \/ Finish(r, "internal", {}))
        BY <1>10, <2>1 DEF ReserveSlot
      <3>2. QED
        BY <1>0, <1>2, <3>1, FinishEffects DEF Results
    <2>2. CASE \E room : \E p \in FreshProcs :
                 /\ EvictedFrom(room, procs) /\ procs' = Put(room, p, NewEntry(r))
                 /\ req' = [req EXCEPT ![r].pc = "spawn", ![r].pid = p]
      <3>1. PICK p \in FreshProcs : /\ p \in DOMAIN procs'
                                    /\ req' = [req EXCEPT ![r].pc = "spawn", ![r].pid = p]
        BY <2>2 DEF Put
      <3>2. req[r].pc = "act" /\ req[r].op \notin ProcessOps
        BY <1>10 DEF ReserveSlot, ProcessOps
      <3>3. /\ req'[r].pc = "spawn" /\ req'[r].pid = p /\ req'[r].caller = req[r].caller
            /\ req'[r].t = req[r].t /\ req'[r].op = req[r].op
            /\ \A x \in Requests : x # r => req'[x] = req[x]
        BY <1>0, <3>1 DEF Request
      <3>4. RequestEffects(r)
        BY <3>1, <3>2, <3>3 DEF RequestEffects
      <3>5. QED
        BY <1>2, <3>3, <3>4
    <2>3. QED
      BY <1>0, <1>10, <2>1, <2>2, ReserveCases
  <1>11. ASSUME NEW r \in Requests, OperateOnProcess(r) PROVE RequestEffects(q)
    <2>1. PICK p \in ProcIds :
            \/ Finish(r, "refused", {})
            \/ Finish(r, "notfound", {})
            \/ /\ lookup(procs, req[r].sid, p)
               /\ req' = [req EXCEPT ![r].pc = "reply", ![r].reply = "ok", ![r].pid = p]
      BY <1>11 DEF OperateOnProcess
    <2>2. req[r].pc = "act"
      BY <1>11 DEF OperateOnProcess
    <2>3. CASE Finish(r, "refused", {}) \/ Finish(r, "notfound", {})
      BY <1>0, <1>2, <2>2, <2>3, FinishEffects DEF Results
    <2>4. CASE /\ lookup(procs, req[r].sid, p)
               /\ req' = [req EXCEPT ![r].pc = "reply", ![r].reply = "ok", ![r].pid = p]
      <3>1. /\ req'[r].pc = "reply" /\ req'[r].pid = p /\ req'[r].caller = req[r].caller
            /\ req'[r].t = req[r].t /\ req'[r].op = req[r].op
            /\ \A x \in Requests : x # r => req'[x] = req[x]
        BY <1>0, <2>4 DEF Request
      <3>2. p \in DOMAIN procs /\ procs[p].session = req[r].sid
        BY <2>4 DEF lookup, OfSession
      <3>3. RequestEffects(r)
        BY <2>2, <3>1, <3>2 DEF RequestEffects
      <3>4. QED
        BY <1>2, <3>1, <3>3
    <2>5. QED
      BY <2>1, <2>3, <2>4
  <1>12. ASSUME NEW r \in Requests,
                SnapshotPurged(r) \/ SnapshotCascade(r) \/ MarkTarget(r) \/ CascadeDone(r)
         PROVE  RequestEffects(q)
    <2>1. /\ req'[r].pc \notin {"enter", "act", "spawn"} /\ req[r].pc # "idle"
          /\ req'[r].caller = req[r].caller /\ req'[r].op = req[r].op
          /\ req'[r].reply = req[r].reply /\ req'[r].pid = req[r].pid
          /\ req'[r].t \in {req[r].t, now}
          /\ \A x \in Requests : x # r => req'[x] = req[x]
      <3>1. CASE SnapshotPurged(r)
        BY <1>0, <3>1 DEF SnapshotPurged, Request
      <3>2. CASE SnapshotCascade(r)
        BY <1>0, <3>2 DEF SnapshotCascade, Request
      <3>3. CASE MarkTarget(r)
        BY <1>0, <3>3 DEF MarkTarget, Request
      <3>4. CASE CascadeDone(r)
        BY <1>0, <3>4 DEF CascadeDone, Request
      <3>5. QED
        BY <1>12, <3>1, <3>2, <3>3, <3>4
    <2>2. RequestEffects(r)
      BY <2>1 DEF RequestEffects
    <2>3. QED
      BY <1>2, <2>1, <2>2
  <1>13. ASSUME NEW r \in Requests, Respond(r) PROVE RequestEffects(q)
    <2>1. /\ req'[r] = Idle
          /\ \A x \in Requests : x # r => req'[x] = req[x]
      BY <1>0, <1>13 DEF Respond
    <2>2. RequestEffects(r)
      BY <2>1 DEF RequestEffects, Idle, ProcessOps
    <2>3. QED
      BY <1>2, <2>1, <2>2
  <1>14. CASE UNCHANGED req
    BY <1>1, <1>14
  <1>15. QED
    BY <1>3, <1>4, <1>5, <1>6, <1>7, <1>8, <1>9, <1>10, <1>11, <1>12, <1>13, <1>14
       DEF Next, vars, HandlerStep, SupervisorStep, KillChild, Publish, ChildExits, Tick

-----------------------------------------------------------------------------
(* The bounds *)

\* The process table is finite and within its two bounds.
ProcsBounded ==
    /\ IsFiniteSet(DOMAIN procs)
    /\ Cardinality(DOMAIN procs) <= MaxProcesses
    /\ \A s \in SessionIds : Cardinality(OfSession(procs, s)) <= MaxPerSession

BoundsInv == TypeInv /\ SessionsBounded /\ ProcsBounded

\* A part of a finite set is finite and no larger.
LEMMA PartIsSmaller ==
    ASSUME NEW S, IsFiniteSet(S), NEW P, P \subseteq S
    PROVE  /\ IsFiniteSet(P) /\ Cardinality(P) <= Cardinality(S)
           /\ Cardinality(P) \in Nat /\ Cardinality(S) \in Nat
  BY FS_Subset, FS_CardinalityType

\* A table with no new entry and no entry moved to another session stays within
\* the bounds.
LEMMA ShrinkBounded ==
    ASSUME ProcsBounded, DOMAIN procs' \subseteq DOMAIN procs,
           \A p \in DOMAIN procs' : procs'[p].session = procs[p].session
    PROVE  ProcsBounded'
  <1>0. MaxProcesses \in Nat /\ MaxPerSession \in Nat
    BY ProcessConfigAssumption
  <1>1. IsFiniteSet(DOMAIN procs') /\ Cardinality(DOMAIN procs') <= MaxProcesses
    BY <1>0, PartIsSmaller DEF ProcsBounded
  <1>2. ASSUME NEW s \in SessionIds
        PROVE  Cardinality(OfSession(procs', s)) <= MaxPerSession
    <2>1. /\ OfSession(procs', s) \subseteq OfSession(procs, s)
          /\ OfSession(procs, s) \subseteq DOMAIN procs
      BY DEF OfSession
    <2>2. IsFiniteSet(OfSession(procs, s))
      BY <2>1, PartIsSmaller DEF ProcsBounded
    <2>3. /\ Cardinality(OfSession(procs', s)) <= Cardinality(OfSession(procs, s))
          /\ Cardinality(OfSession(procs', s)) \in Nat /\ Cardinality(OfSession(procs, s)) \in Nat
      BY <2>1, <2>2, PartIsSmaller
    <2>4. QED
      BY <1>0, <2>3 DEF ProcsBounded
  <1>3. QED
    BY <1>1, <1>2 DEF ProcsBounded

\* A reservation keeps the table within the bounds: what is inserted fits in the
\* table that eviction left.
LEMMA ReserveBounded ==
    ASSUME BoundsInv, NEW r \in Requests, ReserveSlot(r)
    PROVE  ProcsBounded'
  <1>0. /\ IsProcessTable(procs) /\ ProcsBounded
        /\ MaxProcesses \in Nat /\ MaxPerSession \in Nat
    BY ProcessConfigAssumption DEF BoundsInv, TypeInv, TypeOK
  <1>1. CASE EvictedFrom(procs', procs)
    BY <1>0, <1>1, ShrinkBounded DEF EvictedFrom
  <1>2. CASE \E swept, room : \E p \in FreshProcs :
               /\ EvictedFrom(swept, procs) /\ EvictedFrom(room, swept)
               /\ ~SessionFull(swept, req[r].sid)
               /\ ~(Cardinality(DOMAIN room) >= MaxProcesses)
               /\ procs' = Put(room, p, NewEntry(r))
    <2>1. PICK swept, room : \E p \in FreshProcs :
               /\ EvictedFrom(swept, procs) /\ EvictedFrom(room, swept)
               /\ ~SessionFull(swept, req[r].sid)
               /\ ~(Cardinality(DOMAIN room) >= MaxProcesses)
               /\ procs' = Put(room, p, NewEntry(r))
      BY <1>2
    <2>2. PICK p \in FreshProcs : procs' = Put(room, p, NewEntry(r))
      BY <2>1
    <2>3. /\ DOMAIN room \subseteq DOMAIN swept /\ DOMAIN swept \subseteq DOMAIN procs
          /\ \A x \in DOMAIN room : room[x] = swept[x]
          /\ \A x \in DOMAIN swept : swept[x] = procs[x]
      BY <2>1 DEF EvictedFrom
    <2>4. /\ DOMAIN procs' = DOMAIN room \cup {p}
          /\ procs'[p].session = req[r].sid
          /\ \A x \in DOMAIN room : x # p => procs'[x] = room[x]
          /\ p \notin DOMAIN procs
      BY <2>2 DEF Put, NewEntry, FreshProcs
    <2>5. IsFiniteSet(DOMAIN room) /\ Cardinality(DOMAIN room) \in Nat
      BY <1>0, <2>3, PartIsSmaller DEF ProcsBounded
    <2>6. /\ IsFiniteSet(DOMAIN procs')
          /\ Cardinality(DOMAIN procs') = Cardinality(DOMAIN room) + 1
      BY <2>3, <2>4, <2>5, FS_AddElement
    <2>7. Cardinality(DOMAIN procs') <= MaxProcesses
      BY <1>0, <2>1, <2>5, <2>6
    <2>8. ASSUME NEW s \in SessionIds
          PROVE  Cardinality(OfSession(procs', s)) <= MaxPerSession
      <3> DEFINE old == OfSession(room, s)
      <3>1. /\ old \subseteq OfSession(swept, s) /\ old \subseteq OfSession(procs, s)
            /\ OfSession(swept, s) \subseteq DOMAIN procs
            /\ OfSession(procs, s) \subseteq DOMAIN procs
        BY <2>3 DEF OfSession
      <3>2. IsFiniteSet(OfSession(swept, s)) /\ IsFiniteSet(OfSession(procs, s))
        BY <1>0, <3>1, PartIsSmaller DEF ProcsBounded
      <3>3. /\ IsFiniteSet(old) /\ Cardinality(old) \in Nat
            /\ Cardinality(old) <= Cardinality(OfSession(swept, s))
            /\ Cardinality(old) <= Cardinality(OfSession(procs, s))
            /\ Cardinality(OfSession(swept, s)) \in Nat /\ Cardinality(OfSession(procs, s)) \in Nat
        BY <3>1, <3>2, PartIsSmaller
      <3>4. OfSession(procs', s) = IF s = req[r].sid THEN old \cup {p} ELSE old
        BY <2>3, <2>4 DEF OfSession
      <3>5. p \notin old
        BY <2>3, <2>4 DEF OfSession
      <3> HIDE DEF old
      <3>6. CASE s = req[r].sid
        <4>1. Cardinality(OfSession(procs', s)) = Cardinality(old) + 1
          BY <3>3, <3>4, <3>5, <3>6, FS_AddElement
        <4>2. Cardinality(OfSession(swept, s)) < MaxPerSession
          BY <1>0, <2>1, <3>3, <3>6 DEF SessionFull
        <4>3. QED
          BY <1>0, <3>3, <4>1, <4>2
      <3>7. CASE s # req[r].sid
        BY <1>0, <3>3, <3>4, <3>7 DEF ProcsBounded
      <3>8. QED
        BY <3>6, <3>7
    <2>9. QED
      BY <2>6, <2>7, <2>8 DEF ProcsBounded
  <1>3. QED
    BY <1>0, <1>1, <1>2, ReserveRoom

\* Both tables start empty.
LEMMA BoundsInit == Init => BoundsInv
  <1> SUFFICES ASSUME Init PROVE BoundsInv
    OBVIOUS
  <1>1. DOMAIN sessions = {} /\ DOMAIN procs = {} /\ \A s \in SessionIds : OfSession(procs, s) = {}
    BY DEF Init, OfSession
  <1>2. IsFiniteSet({}) /\ Cardinality({}) = 0
    BY FS_EmptySet
  <1>3. SessionsBounded
    BY <1>1, <1>2, SessionConfigAssumption DEF SessionsBounded
  <1>4. ProcsBounded
    BY <1>1, <1>2, ProcessConfigAssumption DEF ProcsBounded
  <1>5. QED
    BY <1>3, <1>4, TypeInit DEF BoundsInv

\* Every step keeps both tables within their bounds.
LEMMA BoundsStep == BoundsInv /\ [Next]_vars => BoundsInv'
  <1> SUFFICES ASSUME BoundsInv, [Next]_vars PROVE BoundsInv'
    OBVIOUS
  <1>1. TypeInv' /\ SessionsBounded'
    BY TypeStep, BoundStep DEF BoundsInv
  <1>2. ASSUME NEW r \in Requests, ReserveSlot(r) PROVE ProcsBounded'
    BY <1>2, ReserveBounded
  <1>3. ProcessEffects
    BY ProcessStep DEF BoundsInv
  <1>4. ASSUME DOMAIN procs' \subseteq DOMAIN procs PROVE ProcsBounded'
    <2>1. \A p \in DOMAIN procs' : procs'[p].session = procs[p].session
      BY <1>3, <1>4 DEF ProcessEffects
    <2>2. QED
      BY <1>4, <2>1, ShrinkBounded DEF BoundsInv
  <1>5. ASSUME ~(DOMAIN procs' \subseteq DOMAIN procs) PROVE ProcsBounded'
    <2>1. IsProcessTable(procs)
      BY DEF BoundsInv, TypeInv, TypeOK
    <2>2. \A p \in ProcIds : DOMAIN RequestKill(procs, p) = DOMAIN procs
      BY <2>1, KillTable
    <2>3. req \in [Requests -> Request]
      BY DEF BoundsInv, TypeInv, TypeOK
    <2>4. ~UNCHANGED procs
      BY <1>5
    <2>5. ASSUME NEW r \in Requests, MarkTarget(r) PROVE FALSE
      BY <1>5, <2>2, <2>3, <2>5 DEF MarkTarget, Request
    <2>6. ASSUME NEW r \in Requests, OperateOnProcess(r) PROVE FALSE
      BY <1>5, <2>2, <2>6 DEF OperateOnProcess
    <2>7. ASSUME NEW r \in Requests, SpawnSucceeds(r) \/ SpawnFails(r) PROVE FALSE
      BY <1>5, <2>7 DEF SpawnSucceeds, SpawnFails, Drop
    <2>8. ASSUME NEW p \in ProcIds, SupervisorStep(p) \/ ChildExits(p) PROVE FALSE
      BY <1>5, <2>8 DEF SupervisorStep, KillChild, Publish, ChildExits
    <2>9. QED
      BY <1>2, <2>4, <2>5, <2>6, <2>7, <2>8
         DEF Next, vars, HandlerStep, Arrive, SnapshotPurged, SnapshotCascade, CascadeDone,
             ChecksRefuse, Respond, Tick, handle_create_session, handle_list_sessions,
             require_live_session, RemoveSession
  <1>6. QED
    BY <1>1, <1>4, <1>5 DEF BoundsInv

\* max_sessions, max_processes and max_processes_per_session are never exceeded
\* (WithinBounds), whatever requests and supervisors do between a check and an
\* insertion, for every configuration of the bounds.
THEOREM WithinBoundsTheorem == Spec => []WithinBounds
  <1>1. BoundsInv => WithinBounds
    BY DEF BoundsInv, SessionsBounded, ProcsBounded, WithinBounds
  <1>2. QED
    BY BoundsInit, BoundsStep, <1>1, PTL DEF Spec

-----------------------------------------------------------------------------
(* Who reaches whose processes *)

\* Without the legacy path every session and every request has an owner, and all
\* that refers to one session refers to one owner: its record, the requests that
\* proved it live, and its processes.  The last two outlive the record.
Attributed ==
    /\ \A s \in DOMAIN sessions : sessions[s].owner \in Callers
    /\ \A r \in Requests : req[r].pc # "idle" => req[r].caller \in Callers
    /\ \A p \in DOMAIN procs : procs[p].session \in DOMAIN sessions =>
            procs[p].by = sessions[procs[p].session].owner
    /\ \A r \in Requests : req[r].pc = "act" =>
            /\ req[r].sid \in DOMAIN sessions => req[r].caller = sessions[req[r].sid].owner
            /\ \A p \in DOMAIN procs : procs[p].session = req[r].sid => procs[p].by = req[r].caller
            /\ \A q \in Requests : req[q].pc = "act" /\ req[q].sid = req[r].sid =>
                    req[q].caller = req[r].caller

AccessInv == TypeInv /\ (Legacy \notin Callers => Attributed) /\ OnlyOwnersReach

\* Every step keeps the attribution.
LEMMA AttributedStep ==
    ASSUME AccessInv, Legacy \notin Callers, [Next]_vars
    PROVE  Attributed'
  <1>0. Attributed /\ SessionEffects /\ ProcessEffects /\ \A r \in Requests : RequestEffects(r)
    BY SessionStep, ProcessStep, RequestStep DEF AccessInv
  <1>1. ASSUME NEW s \in DOMAIN sessions' PROVE sessions'[s].owner \in Callers
    <2>1. CASE s \in DOMAIN sessions
      BY <1>0, <1>1, <2>1 DEF Attributed, SessionEffects
    <2>2. CASE s \notin DOMAIN sessions
      BY <1>0, <1>1, <2>2 DEF Attributed, SessionEffects
    <2>3. QED
      BY <2>1, <2>2
  <1>2. ASSUME NEW r \in Requests, req'[r].pc # "idle" PROVE req'[r].caller \in Callers
    BY <1>0, <1>2 DEF Attributed, RequestEffects
  <1>3. ASSUME NEW p \in DOMAIN procs', procs'[p].session \in DOMAIN sessions'
        PROVE  procs'[p].by = sessions'[procs'[p].session].owner
    <2> DEFINE s == procs'[p].session
    <2>1. CASE p \in DOMAIN procs
      <3>1. procs[p].session = s /\ procs[p].by = procs'[p].by
        BY <1>0, <1>3, <2>1 DEF ProcessEffects
      <3>2. s \in DOMAIN sessions
        BY <1>0, <1>3, <2>1, <3>1 DEF SessionEffects, FreshSessions
      <3>3. QED
        BY <1>0, <1>3, <2>1, <3>1, <3>2 DEF SessionEffects, Attributed
    <2>2. CASE p \notin DOMAIN procs
      <3>1. PICK r \in Requests : req[r].pc = "act" /\ s = req[r].sid /\ procs'[p].by = req[r].caller
        BY <1>0, <1>3, <2>2 DEF ProcessEffects
      <3>2. s \in DOMAIN sessions
        BY <1>0, <1>3, <3>1 DEF SessionEffects, FreshSessions
      <3>3. QED
        BY <1>0, <1>3, <3>1, <3>2 DEF SessionEffects, Attributed
    <2>3. QED
      BY <2>1, <2>2
  <1>4. ASSUME NEW r \in Requests, req'[r].pc = "act"
        PROVE  /\ req'[r].sid = req[r].sid /\ req'[r].caller = req[r].caller
               /\ req[r].pc = "act" \/ (/\ req[r].sid \in DOMAIN sessions
                                        /\ sessions[req[r].sid].owner = req[r].caller)
               /\ req[r].sid \in DOMAIN sessions => sessions[req[r].sid].owner = req[r].caller
               /\ \A p \in DOMAIN procs : procs[p].session = req[r].sid => procs[p].by = req[r].caller
    BY <1>0, <1>4 DEF Attributed, RequestEffects, owner_permits
  <1>5. ASSUME NEW r \in Requests, req'[r].pc = "act", req'[r].sid \in DOMAIN sessions'
        PROVE  req'[r].caller = sessions'[req'[r].sid].owner
    <2>1. req[r].sid \in DOMAIN sessions
      BY <1>0, <1>4, <1>5 DEF SessionEffects, FreshSessions
    <2>2. QED
      BY <1>0, <1>4, <1>5, <2>1 DEF SessionEffects
  <1>6. ASSUME NEW r \in Requests, req'[r].pc = "act",
               NEW q \in Requests, req'[q].pc = "act", req'[q].sid = req'[r].sid
        PROVE  req'[q].caller = req'[r].caller
    BY <1>0, <1>4, <1>6 DEF Attributed
  <1>7. ASSUME NEW r \in Requests, req'[r].pc = "act",
               NEW p \in DOMAIN procs', procs'[p].session = req'[r].sid
        PROVE  procs'[p].by = req'[r].caller
    <2>1. CASE p \in DOMAIN procs
      BY <1>0, <1>4, <1>7, <2>1 DEF ProcessEffects
    <2>2. CASE p \notin DOMAIN procs
      <3>1. PICK q \in Requests : /\ req[q].pc = "act" /\ procs'[p].session = req[q].sid
                                  /\ procs'[p].by = req[q].caller
        BY <1>0, <1>7, <2>2 DEF ProcessEffects
      <3>2. QED
        BY <1>0, <1>4, <1>7, <3>1, ZenonT(40) DEF Attributed
    <2>3. QED
      BY <2>1, <2>2
  <1>8. QED
    BY <1>1, <1>2, <1>3, <1>5, <1>6, <1>7 DEF Attributed

\* A step answers ok about a process only to the one who started it, and gives
\* no id that an answer names to another process.
LEMMA ReachStep ==
    ASSUME AccessInv, [Next]_vars
    PROVE  OnlyOwnersReach'
  <1> SUFFICES ASSUME Legacy \notin Callers, NEW r \in Requests,
                      req'[r].op \in ProcessOps, req'[r].reply = "ok",
                      req'[r].pid \in DOMAIN procs'
               PROVE  procs'[req'[r].pid].by = req'[r].caller
    BY DEF OnlyOwnersReach
  <1>0. /\ Attributed /\ OnlyOwnersReach /\ ProcessEffects /\ RequestEffects(r)
    BY ProcessStep, RequestStep DEF AccessInv
  <1> DEFINE p == req'[r].pid
  <1>1. /\ req'[r].op = req[r].op /\ req'[r].caller = req[r].caller
        /\ \/ req[r].reply = "ok" /\ p = req[r].pid
           \/ req[r].pc = "act" /\ p \in DOMAIN procs /\ procs[p].session = req[r].sid
    BY <1>0 DEF RequestEffects
  <1>2. p \in DOMAIN procs
    BY <1>0, <1>1 DEF ProcessEffects, FreshProcs
  <1>3. procs'[p].by = procs[p].by
    BY <1>0, <1>2 DEF ProcessEffects
  <1>4. procs[p].by = req[r].caller
    BY <1>0, <1>1, <1>2 DEF Attributed, OnlyOwnersReach
  <1>5. QED
    BY <1>1, <1>3, <1>4

\* A request answers ok about a process only to the caller who started it
\* (OnlyOwnersReach), for any number of callers, sessions and requests: the id
\* alone never reaches another owner's process, though the session was proved
\* live in an earlier critical section.
THEOREM OnlyOwnersReachTheorem == Spec => []OnlyOwnersReach
  <1>1. Init => AccessInv
    <2>1. Init => TypeInv
      BY TypeInit
    <2>2. Init => Attributed /\ OnlyOwnersReach
      BY DEF Init, Attributed, OnlyOwnersReach, Idle, ProcessOps
    <2>3. QED
      BY <2>1, <2>2 DEF AccessInv
  <1>2. AccessInv /\ [Next]_vars => AccessInv'
    BY TypeStep, AttributedStep, ReachStep DEF AccessInv
  <1>3. AccessInv => OnlyOwnersReach
    BY DEF AccessInv
  <1>4. QED
    BY <1>1, <1>2, <1>3, PTL DEF Spec

-----------------------------------------------------------------------------
(* Who keeps a session alive, and what ends it *)

\* Every session, and every session operation that was let in, is a known
\* principal's.
KnownInv ==
    /\ TypeInv
    /\ \A s \in DOMAIN sessions : Known(sessions[s].owner)
    /\ \A r \in Requests : req[r].pc = "enter" /\ req[r].op \in SessionOps => Known(req[r].caller)

\* Only a known principal whom the owner check permits bumps a session
\* (OnlyKnownOwnersBump), although process operations touch the session before
\* they turn unknown principals away.
THEOREM OnlyKnownOwnersBumpTheorem == Spec => OnlyKnownOwnersBump
  <1>1. Init => KnownInv
    <2>1. Init => TypeInv
      BY TypeInit
    <2>2. QED
      BY <2>1 DEF Init, KnownInv, Idle
  <1>2. KnownInv /\ [Next]_vars => KnownInv'
    <2> SUFFICES ASSUME KnownInv, [Next]_vars PROVE KnownInv'
      OBVIOUS
    <2>1. TypeInv' /\ SessionEffects /\ \A r \in Requests : RequestEffects(r)
      BY TypeStep, SessionStep, RequestStep DEF KnownInv
    <2>2. ASSUME NEW s \in DOMAIN sessions' PROVE Known(sessions'[s].owner)
      <3>1. CASE s \in DOMAIN sessions
        BY <2>1, <2>2, <3>1 DEF SessionEffects, KnownInv
      <3>2. CASE s \notin DOMAIN sessions
        BY <2>1, <2>2, <3>2 DEF SessionEffects, KnownInv, SessionOps
      <3>3. QED
        BY <3>1, <3>2
    <2>3. ASSUME NEW r \in Requests, req'[r].pc = "enter", req'[r].op \in SessionOps
          PROVE  Known(req'[r].caller)
      BY <2>1, <2>3 DEF RequestEffects, KnownInv
    <2>4. QED
      BY <2>1, <2>2, <2>3 DEF KnownInv, Known
  <1>3. KnownInv /\ [Next]_vars =>
          [\A s \in DOMAIN sessions \cap DOMAIN sessions' :
             sessions'[s] # sessions[s] =>
                \E r \in Requests : /\ req[r].pc = "enter" /\ req[r].sid = s
                                    /\ sessions[s].owner \in {Legacy, req[r].caller}
                                    /\ Known(req[r].caller)]_vars
    <2> SUFFICES ASSUME KnownInv, [Next]_vars,
                        NEW s \in DOMAIN sessions \cap DOMAIN sessions', sessions'[s] # sessions[s]
                 PROVE  \E r \in Requests : /\ req[r].pc = "enter" /\ req[r].sid = s
                                            /\ sessions[s].owner \in {Legacy, req[r].caller}
                                            /\ Known(req[r].caller)
      OBVIOUS
    <2>1. PICK r \in Requests : /\ req[r].pc = "enter" /\ req[r].sid = s
                                /\ owner_permits(sessions[s].owner, req[r].caller)
      BY SessionStep DEF SessionEffects, KnownInv
    <2>2. sessions[s].owner \in {Legacy, req[r].caller}
      BY <2>1 DEF owner_permits
    <2>3. Known(sessions[s].owner)
      BY DEF KnownInv
    <2>4. Known(req[r].caller)
      BY <2>2, <2>3, DaemonAssumption DEF Known
    <2>5. QED
      BY <2>1, <2>2, <2>4
  <1>4. QED
    BY <1>1, <1>2, <1>3, PTL DEF Spec, OnlyKnownOwnersBump

\* No request holds a time that has not come yet, and every record says when its
\* session was last used unless its last use was overtaken.
TimeInv ==
    /\ TypeInv
    /\ \A r \in Requests : req[r].t <= now
    /\ \A s \in DOMAIN sessions : Recorded(sessions[s])

\* A record that is over age is over age at every later time.
LEMMA ExpiryLasts ==
    ASSUME NEW info \in SessionRecord, NEW t \in Nat, NEW u \in Nat, t <= u, is_expired(info, t)
    PROVE  is_expired(info, u)
  BY SessionConfigAssumption DEF is_expired, saturating_sub, SessionRecord

\* A record over age by its own last_activity belongs to a session that is not in
\* use, unless its last use was overtaken.
LEMMA ExpiredNotInUse ==
    ASSUME NEW s, sessions[s] \in SessionRecord, now \in Nat, Recorded(sessions[s]),
           is_expired(sessions[s], now), InUse(s)
    PROVE  sessions[s].overtaken
  <1>1. /\ sessions[s].last_activity \in Nat /\ sessions[s].created_at \in Nat
        /\ sessions[s].overtaken \in BOOLEAN
    BY DEF SessionRecord
  <1>2. now - sessions[s].used <= IdleTimeout /\ now - sessions[s].created_at <= MaxLifetime
    BY DEF InUse
  <1>3. ASSUME sessions[s].last_activity = sessions[s].used PROVE FALSE
    BY <1>1, <1>2, <1>3, SessionConfigAssumption DEF is_expired, saturating_sub
  <1>4. QED
    BY <1>3 DEF Recorded

\* A session in use leaves the table only when a permitted caller terminates it
\* (NoEarlyExpiry), although every request reads the clock before it takes the lock,
\* unless the last request to touch it was overtaken by a later one: the use is
\* judged by the history of all readings, not by last_activity.
THEOREM NoEarlyExpiryTheorem == Spec => NoEarlyExpiry
  <1>1. Init => TimeInv
    <2>1. Init => TypeInv
      BY TypeInit
    <2>2. QED
      BY <2>1 DEF Init, TimeInv, Idle
  <1>2. TimeInv /\ [Next]_vars => TimeInv'
    <2> SUFFICES ASSUME TimeInv, [Next]_vars PROVE TimeInv'
      OBVIOUS
    <2>1. TypeInv' /\ SessionEffects /\ \A r \in Requests : RequestEffects(r)
      BY TypeStep, SessionStep, RequestStep DEF TimeInv
    <2>2. now \in Nat /\ now' \in Nat /\ now <= now'
      <3>1. now \in Nat /\ (now' = now \/ now' = now + 1)
        BY ZenonT(40) DEF TimeInv, TypeInv, TypeOK, Next, vars, HandlerStep, SupervisorStep, Arrive,
               SnapshotPurged, SnapshotCascade, MarkTarget, CascadeDone, ChecksRefuse,
               SpawnSucceeds, SpawnFails, ReserveSlot, OperateOnProcess, Respond, KillChild,
               Publish, ChildExits, Tick, handle_create_session, handle_list_sessions,
               require_live_session, RemoveSession
      <3>2. QED
        BY <3>1
    <2>3. ASSUME NEW r \in Requests PROVE req'[r].t <= now'
      <3>1. req[r].t \in Nat /\ req[r].t <= now
        BY DEF TimeInv, TypeInv, TypeOK, Request
      <3>2. req'[r].t \in {0, now, req[r].t}
        BY <2>1 DEF RequestEffects
      <3>3. QED
        BY <2>2, <3>1, <3>2
    <2>4. ASSUME NEW s \in DOMAIN sessions' PROVE Recorded(sessions'[s])
      BY <2>1 DEF SessionEffects, TimeInv
    <2>5. ASSUME NEW s \in DOMAIN sessions' PROVE Recorded(sessions[s])'
      BY <2>4 DEF Recorded
    <2>6. QED
      BY <2>1, <2>3, <2>5 DEF TimeInv
  <1>3. TimeInv /\ [Next]_vars =>
          [\A s \in DOMAIN sessions \ DOMAIN sessions' :
             InUse(s) => Terminating(s) \/ sessions[s].overtaken]_vars
    <2> SUFFICES ASSUME TimeInv, [Next]_vars,
                        NEW s \in DOMAIN sessions \ DOMAIN sessions',
                        InUse(s), ~sessions[s].overtaken
                 PROVE  Terminating(s)
      OBVIOUS
    <2>1. PICK r \in Requests :
            \/ is_expired(sessions[s], req[r].t)
            \/ /\ req[r].pc = "remove" /\ req[r].sid = s
               /\ owner_permits(sessions[s].owner, req[r].caller)
      BY SessionStep DEF SessionEffects, TimeInv
    <2>2. /\ sessions[s] \in SessionRecord /\ now \in Nat
          /\ req[r].t \in Nat /\ req[r].t <= now /\ Recorded(sessions[s])
      BY DEF TimeInv, TypeInv, TypeOK, IsSessionTable, Request
    <2>3. ~is_expired(sessions[s], now)
      BY <2>2, ExpiredNotInUse
    <2>4. ~is_expired(sessions[s], req[r].t)
      BY <2>2, <2>3, ExpiryLasts
    <2>5. QED
      BY <2>1, <2>4 DEF owner_permits, Terminating
  <1>4. QED
    BY <1>1, <1>2, <1>3, PTL DEF Spec, NoEarlyExpiry

-----------------------------------------------------------------------------
(* What may leave the process table *)

\* Only a reaped child is terminal, and a reservation belongs to one request,
\* whose child does not exist yet.
ReservedInv ==
    /\ TypeInv
    /\ \A p \in DOMAIN procs : procs[p].status = "terminal" => procs[p].child = "reaped"
    /\ \A r \in Requests : req[r].pc = "spawn" =>
         /\ req[r].pid \in DOMAIN procs /\ procs[req[r].pid].child = "none"
         /\ \A q \in Requests : req[q].pc = "spawn" /\ req[q].pid = req[r].pid => q = r

\* Every step keeps that.
LEMMA ReservedStep == ReservedInv /\ [Next]_vars => ReservedInv'
  <1> SUFFICES ASSUME ReservedInv, [Next]_vars PROVE ReservedInv'
    OBVIOUS
  <1>1. TypeInv' /\ ProcessEffects /\ \A r \in Requests : RequestEffects(r)
    BY TypeStep, ProcessStep, RequestStep DEF ReservedInv
  <1>2. ASSUME NEW p \in DOMAIN procs', procs'[p].status = "terminal"
        PROVE  procs'[p].child = "reaped"
    <2>1. p \in DOMAIN procs
      BY <1>1, <1>2 DEF ProcessEffects
    <2>2. procs[p].child = "reaped"
      BY <1>1, <1>2, <2>1 DEF ProcessEffects, ReservedInv
    <2>3. QED
      BY <1>1, <1>2, <2>1, <2>2 DEF ProcessEffects, ReservedInv
  <1>3. ASSUME NEW r \in Requests, req'[r].pc = "spawn"
        PROVE  /\ req'[r].pid \in DOMAIN procs' /\ procs'[req'[r].pid].child = "none"
               /\ \A q \in Requests : req'[q].pc = "spawn" /\ req'[q].pid = req'[r].pid => q = r
    <2>1. CASE req[r].pc = "spawn" /\ req'[r].pid = req[r].pid
      <3> DEFINE p == req[r].pid
      <3>1. p \in DOMAIN procs /\ procs[p].child = "none" /\ procs[p].status # "terminal"
        BY <2>1 DEF ReservedInv
      <3>2. \A q \in Requests : req[q].pc = "spawn" /\ req[q].pid = p => q = r
        BY <2>1 DEF ReservedInv
      <3>3. p \in DOMAIN procs'
        BY <1>1, <1>3, <3>1, <3>2 DEF ProcessEffects
      <3>4. procs'[p].child = "none"
        BY <1>1, <1>3, <3>1, <3>2, <3>3 DEF ProcessEffects
      <3>5. ASSUME NEW q \in Requests, req'[q].pc = "spawn", req'[q].pid = p PROVE q = r
        BY <1>1, <2>1, <3>1, <3>2, <3>5 DEF RequestEffects, FreshProcs
      <3>6. QED
        BY <2>1, <3>3, <3>4, <3>5
    <2>2. CASE /\ req'[r].pid \in FreshProcs \cap DOMAIN procs'
               /\ \A q \in Requests : q # r => req'[q] = req[q]
      <3>1. procs'[req'[r].pid].child = "none"
        BY <1>1, <2>2 DEF ProcessEffects, FreshProcs
      <3>2. \A q \in Requests : req'[q].pc = "spawn" /\ req'[q].pid = req'[r].pid => q = r
        BY <2>2 DEF FreshProcs
      <3>3. QED
        BY <2>2, <3>1, <3>2
    <2>3. QED
      BY <1>1, <1>3, <2>1, <2>2 DEF RequestEffects
  <1>4. QED
    BY <1>1, <1>2, <1>3 DEF ReservedInv

\* A supervised child never loses its table entry (LiveNeverEvicted): neither
\* retention nor make_room_for_spawn nor another request's failed spawn drops
\* it.
THEOREM LiveNeverEvictedTheorem == Spec => LiveNeverEvicted
  <1>1. Init => ReservedInv
    <2>1. Init => TypeInv
      BY TypeInit
    <2>2. QED
      BY <2>1 DEF Init, ReservedInv, Idle
  <1>2. ReservedInv /\ [Next]_vars =>
          [\A p \in DOMAIN procs : procs[p].child = "supervised" => p \in DOMAIN procs']_vars
    <2> SUFFICES ASSUME ReservedInv, [Next]_vars, NEW p \in DOMAIN procs,
                        procs[p].child = "supervised"
                 PROVE  p \in DOMAIN procs'
      OBVIOUS
    <2>1. ProcessEffects
      BY ProcessStep DEF ReservedInv
    <2>2. QED
      BY <2>1 DEF ProcessEffects, ReservedInv
  <1>3. QED
    BY <1>1, <1>2, ReservedStep, PTL DEF Spec, LiveNeverEvicted
=============================================================================
