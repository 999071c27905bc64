---------------------------- MODULE DaemonProofs ----------------------------
(***************************************************************************)
(* Proofs about Daemon, for every number of callers, sessions, processes,  *)
(* requests and every bound.                                               *)
(***************************************************************************)
EXTENDS Daemon, TLAPS, FiniteSetTheorems

-----------------------------------------------------------------------------
(* What the operations of the session manager do to the table *)

Results == {"ok", "notfound", "expired", "capacity", "internal"}

\* Removing ids keeps a session table a session table, and every other record.
LEMMA WithoutTable ==
    ASSUME NEW T, IsSessionTable(T), NEW X
    PROVE  /\ IsSessionTable(Without(T, X))
           /\ DOMAIN Without(T, X) = DOMAIN T \ X
           /\ \A s \in DOMAIN T \ X : Without(T, X)[s] = T[s]
  BY DEF IsSessionTable, Without

\* A refused access removes exactly the ids it reports as purged.
LEMMA MissTable ==
    ASSUME NEW T, IsSessionTable(T), NEW s \in SessionIds, NEW c, NEW t \in Nat
    PROVE  LET o == Miss(T, s, c, t)
           IN  /\ IsSessionTable(o.table)
               /\ o.result \in {"notfound", "expired"}
               /\ o.purged \in SUBSET {s}
               /\ DOMAIN o.table = DOMAIN T \ o.purged
  <1> DEFINE o == Miss(T, s, c, t)
  <1>1. /\ o.table = IF is_expired(T[s], t) THEN Without(T, {s}) ELSE T
        /\ o.purged = IF is_expired(T[s], t) THEN {s} ELSE {}
        /\ o.result \in {"notfound", "expired"}
    BY DEF Miss, Outcome
  <1>2. CASE is_expired(T[s], t)
    <2>1. o.table = Without(T, {s}) /\ o.purged = {s}
      BY <1>1, <1>2
    <2>2. IsSessionTable(Without(T, {s})) /\ DOMAIN Without(T, {s}) = DOMAIN T \ {s}
      BY WithoutTable
    <2>3. QED
      BY <1>1, <2>1, <2>2
  <1>3. CASE ~is_expired(T[s], t)
    BY <1>1, <1>3
  <1>4. QED
    BY <1>2, <1>3

\* A new record is a record.
LEMMA NewRecord ==
    ASSUME NEW c \in Callers \cup {Legacy}, NEW t \in Nat
    PROVE  NewSession(c, t) \in SessionRecord
  BY DEF NewSession, SessionRecord

\* A bump keeps a record's owner.
LEMMA TouchedRecord ==
    ASSUME NEW info \in SessionRecord, NEW t \in Nat
    PROVE  Touched(info, t) \in SessionRecord /\ Touched(info, t).owner = info.owner
  <1>1. /\ info.used \in Nat
        /\ (IF t > info.used THEN t ELSE info.used) \in Nat
        /\ (t < info.used) \in BOOLEAN
    BY DEF SessionRecord
  <1>2. QED
    BY <1>1 DEF Touched, SessionRecord

\* get_owned removes exactly the ids it reports as purged, and reports none when
\* it succeeds.
LEMMA TouchTable ==
    ASSUME NEW T, IsSessionTable(T), NEW s \in SessionIds, NEW c, NEW t \in Nat
    PROVE  LET o == get_owned(T, s, c, t)
           IN  /\ IsSessionTable(o.table)
               /\ o.result \in Results
               /\ o.purged \in SUBSET SessionIds
               /\ DOMAIN o.table = DOMAIN T \ o.purged
               /\ o.result = "ok" => o.purged = {}
  <1>1. CASE s \notin DOMAIN T
    BY <1>1 DEF get_owned, Outcome, Results
  <1>2. CASE s \in DOMAIN T /\ Permitted(T, s, c, t)
    <2> DEFINE info == Touched(T[s], t)
    <2>1. get_owned(T, s, c, t) = Outcome([T EXCEPT ![s] = info], "ok", {})
      BY <1>2 DEF get_owned
    <2>2. info \in SessionRecord
      BY <1>2, TouchedRecord DEF IsSessionTable
    <2> HIDE DEF info
    <2>3. IsSessionTable([T EXCEPT ![s] = info]) /\ DOMAIN [T EXCEPT ![s] = info] = DOMAIN T
      BY <1>2, <2>2 DEF IsSessionTable
    <2>4. QED
      BY <2>1, <2>3 DEF Outcome, Results
  <1>3. CASE s \in DOMAIN T /\ ~Permitted(T, s, c, t)
    <2>1. get_owned(T, s, c, t) = Miss(T, s, c, t)
      BY <1>3 DEF get_owned
    <2>2. QED
      BY <2>1, MissTable DEF Results
  <1>4. QED
    BY <1>1, <1>2, <1>3

\* terminate_owned removes the session it names, or exactly what it reports.
LEMMA TerminateTable ==
    ASSUME NEW T, IsSessionTable(T), NEW s \in SessionIds, NEW c, NEW t \in Nat
    PROVE  LET o == terminate_owned(T, s, c, t)
           IN  /\ IsSessionTable(o.table)
               /\ o.result \in Results
               /\ o.purged \in SUBSET SessionIds
               /\ DOMAIN o.table = IF o.result = "ok" THEN DOMAIN T \ {s}
                                                      ELSE DOMAIN T \ o.purged
               /\ o.result = "ok" => o.purged = {}
  <1>1. CASE s \notin DOMAIN T
    BY <1>1 DEF terminate_owned, Outcome, Results
  <1>2. CASE s \in DOMAIN T /\ Permitted(T, s, c, t)
    BY <1>2, WithoutTable DEF terminate_owned, Outcome, Results
  <1>3. CASE s \in DOMAIN T /\ ~Permitted(T, s, c, t)
    <2> DEFINE m == Miss(T, s, c, t)
    <2>1. terminate_owned(T, s, c, t) = m
      BY <1>3 DEF terminate_owned
    <2>2. /\ IsSessionTable(m.table)
          /\ m.result \in {"notfound", "expired"}
          /\ m.purged \in SUBSET {s}
          /\ DOMAIN m.table = DOMAIN T \ m.purged
      BY MissTable
    <2> HIDE DEF m
    <2>3. m.result \in Results /\ m.result # "ok"
      BY <2>2 DEF Results
    <2>4. QED
      BY <2>1, <2>2, <2>3
  <1>4. QED
    BY <1>1, <1>2, <1>3

\* A sweep removes exactly the ids it reports.
LEMMA SweepTable ==
    ASSUME NEW T, IsSessionTable(T), NEW t \in Nat
    PROVE  LET o == purge_expired_locked(T, t)
           IN  /\ IsSessionTable(o.table)
               /\ o.result = "ok"
               /\ o.purged \in SUBSET DOMAIN T
               /\ o.purged = Expired(T, t)
               /\ DOMAIN o.table = DOMAIN T \ o.purged
  BY WithoutTable DEF purge_expired_locked, Outcome, Expired, IsSessionTable

\* Outcome o of a creation adds record s and removes what it reports, or adds
\* none; a refusal for capacity leaves a table that is full.
Creates(o, T, s, t) ==
    /\ IsSessionTable(o.table)
    /\ o.result \in {"ok", "capacity", "internal"}
    /\ o.purged \in SUBSET DOMAIN T
    /\ o.result = "ok" => /\ s \in SessionIds
                          /\ DOMAIN o.table = (DOMAIN T \ o.purged) \cup {s}
                          /\ ~(Cardinality(DOMAIN T \ o.purged) >= MaxSessions)
    /\ o.result # "ok" => DOMAIN o.table = DOMAIN T \ Expired(T, t)
    /\ o.result = "capacity" => Cardinality(DOMAIN o.table) >= MaxSessions
    /\ o.result = "internal" => s = NoSession

\* create_owned does that.
LEMMA CreateTable ==
    ASSUME NEW T, IsSessionTable(T), NEW s \in SessionIds \cup {NoSession},
           NEW c \in Callers \cup {Legacy}, NEW t \in Nat
    PROVE  Creates(create_owned(T, s, c, t), T, s, t)
  <1> USE DEF Creates
  <1> DEFINE swept == purge_expired_locked(T, t)
             info  == NewSession(c, t)
  <1>1. /\ IsSessionTable(swept.table)
        /\ swept.purged \in SUBSET DOMAIN T
        /\ swept.purged = Expired(T, t)
        /\ DOMAIN swept.table = DOMAIN T \ swept.purged
    BY SweepTable
  <1>2. info \in SessionRecord
    BY NewRecord
  <1>3. s \in SessionIds => /\ IsSessionTable(With(swept.table, s, info))
                            /\ DOMAIN With(swept.table, s, info) = DOMAIN swept.table \cup {s}
    <2> HIDE DEF swept, info
    <2>1. QED
      BY <1>1, <1>2 DEF With, IsSessionTable
  <1>4. CASE Cardinality(DOMAIN swept.table) >= MaxSessions
    <2>1. create_owned(T, s, c, t) = Outcome(swept.table, "capacity", {})
      BY <1>4 DEF create_owned
    <2> HIDE DEF swept, info
    <2>2. QED
      BY <1>1, <1>4, <2>1 DEF Outcome
  <1>5. CASE ~(Cardinality(DOMAIN swept.table) >= MaxSessions) /\ s = NoSession
    <2>1. create_owned(T, s, c, t) = Outcome(swept.table, "internal", {})
      BY <1>5 DEF create_owned
    <2> HIDE DEF swept, info
    <2>2. QED
      BY <1>1, <1>5, <2>1 DEF Outcome
  <1>6. CASE ~(Cardinality(DOMAIN swept.table) >= MaxSessions) /\ s # NoSession
    <2>1. create_owned(T, s, c, t) = Outcome(With(swept.table, s, info), "ok", swept.purged)
      BY <1>6 DEF create_owned
    <2> HIDE DEF swept, info
    <2>2. QED
      BY <1>1, <1>3, <1>6, <2>1 DEF Outcome
  <1>7. QED
    BY <1>4, <1>5, <1>6

-----------------------------------------------------------------------------
(* What the operations of the process manager do to the table *)

\* Table A is table B with some entries left out, none of them running.
EvictedFrom(A, B) ==
    /\ IsProcessTable(A)
    /\ DOMAIN A \subseteq DOMAIN B
    /\ \A p \in DOMAIN A : A[p] = B[p]
    /\ \A p \in DOMAIN B : B[p].status = "running" => p \in DOMAIN A

\* Dropping terminal entries is an eviction.
LEMMA DropTable ==
    ASSUME NEW T, IsProcessTable(T), NEW X, \A p \in X \cap DOMAIN T : is_terminal(T[p])
    PROVE  EvictedFrom(Drop(T, X), T)
  BY DEF IsProcessTable, Drop, EvictedFrom, is_terminal

\* Retention evicts terminal entries only.
LEMMA RetentionTable ==
    ASSUME NEW T, IsProcessTable(T), NEW n
    PROVE  EvictedFrom(evict_expired_terminal_entries(T, n), T)
  BY DropTable DEF evict_expired_terminal_entries, RetentionOver

\* Making room evicts terminal entries only.
LEMMA RoomTable ==
    ASSUME NEW T, IsProcessTable(T), NEW n, NEW room \in make_room_for_spawn(T, n)
    PROVE  EvictedFrom(room, T)
  <1> DEFINE swept == evict_expired_terminal_entries(T, n)
  <1>1. EvictedFrom(swept, T)
    BY RetentionTable
  <1>2. IsProcessTable(swept)
    BY <1>1 DEF EvictedFrom
  <1>3. CASE room = swept
    BY <1>1, <1>3
  <1>4. CASE room \in evict_oldest_terminal_entries(swept)
    <2> HIDE DEF swept
    <2>1. PICK E \in OldestTerminals(swept) : room = Drop(swept, E)
      BY <1>4 DEF evict_oldest_terminal_entries
    <2>2. \A p \in E \cap DOMAIN swept : is_terminal(swept[p])
      BY <2>1 DEF OldestTerminals, TerminalEntries
    <2>3. EvictedFrom(room, swept)
      BY <1>2, <2>1, <2>2, DropTable
    <2>4. QED
      BY <1>1, <2>3 DEF EvictedFrom
  <1>5. QED
    BY <1>3, <1>4 DEF make_room_for_spawn

\* RequestKill sets p's flag if p runs, and changes nothing else.
LEMMA KillTable ==
    ASSUME NEW T, IsProcessTable(T), NEW p \in ProcIds
    PROVE  /\ IsProcessTable(RequestKill(T, p))
           /\ DOMAIN RequestKill(T, p) = DOMAIN T
           /\ \A q \in DOMAIN T :
                /\ RequestKill(T, p)[q].session = T[q].session
                /\ RequestKill(T, p)[q].status = T[q].status
                /\ RequestKill(T, p)[q].late = T[q].late
                /\ RequestKill(T, p)[q].child = T[q].child
                /\ RequestKill(T, p)[q].by = T[q].by
                /\ T[q].kill_requested => RequestKill(T, p)[q].kill_requested
                /\ q = p /\ T[q].status = "running" => RequestKill(T, p)[q].kill_requested
  BY ZenonT(40) DEF IsProcessTable, RequestKill, ProcessEntry

\* ReserveSlot either only evicts, or evicts and inserts one running entry.
LEMMA ReserveCases ==
    ASSUME IsProcessTable(procs), NEW r \in Requests, ReserveSlot(r)
    PROVE  \/ \E room : /\ EvictedFrom(room, procs) /\ procs' = room
                        /\ Finish(r, "capacity", {}) \/ Finish(r, "internal", {})
           \/ \E room : \E p \in FreshProcs :
                 /\ EvictedFrom(room, procs) /\ procs' = Put(room, p, NewEntry(r))
                 /\ req' = [req EXCEPT ![r].pc = "spawn", ![r].pid = p]
  <1> DEFINE swept == evict_expired_terminal_entries(procs, now)
  <1>1. EvictedFrom(swept, procs)
    BY RetentionTable
  <1>2. IsProcessTable(swept)
    BY <1>1 DEF EvictedFrom
  <1>3. CASE procs' = swept /\ Finish(r, "capacity", {})
    BY <1>1, <1>3
  <1>4. CASE \E room \in make_room_for_spawn(swept, now) :
               \/ procs' = room /\ Finish(r, "capacity", {})
               \/ procs' = room /\ Finish(r, "internal", {})
               \/ \E p \in FreshProcs :
                    /\ procs' = Put(room, p, NewEntry(r))
                    /\ req' = [req EXCEPT ![r].pc = "spawn", ![r].pid = p]
    <2> HIDE DEF swept
    <2>1. PICK room \in make_room_for_spawn(swept, now) :
               \/ procs' = room /\ Finish(r, "capacity", {})
               \/ procs' = room /\ Finish(r, "internal", {})
               \/ \E p \in FreshProcs :
                    /\ procs' = Put(room, p, NewEntry(r))
                    /\ req' = [req EXCEPT ![r].pc = "spawn", ![r].pid = p]
      BY <1>4
    <2>2. EvictedFrom(room, swept)
      BY <1>2, RoomTable
    <2>3. EvictedFrom(room, procs)
      BY <1>1, <2>2 DEF EvictedFrom
    <2>4. CASE procs' = room /\ (Finish(r, "capacity", {}) \/ Finish(r, "internal", {}))
      BY <2>3, <2>4
    <2>5. CASE \E p \in FreshProcs :
                 /\ procs' = Put(room, p, NewEntry(r))
                 /\ req' = [req EXCEPT ![r].pc = "spawn", ![r].pid = p]
      BY <2>3, <2>5
    <2>6. QED
      BY <2>1, <2>4, <2>5
  <1>5. QED
    BY <1>3, <1>4 DEF ReserveSlot

-----------------------------------------------------------------------------
(* Type correctness *)

\* What the phases of a request say about its fields.
Shape ==
    \A r \in Requests :
        /\ req[r].pc \in {"act", "spawn", "cascade", "remove"} => req[r].sid \in SessionIds
        /\ req[r].pc = "enter" /\ req[r].op \notin {"create", "list"} => req[r].sid \in SessionIds
        /\ req[r].pc = "spawn" => req[r].op = "execute"
        /\ req[r].pc \in {"cascade", "remove"} => req[r].op = "terminate_session"

TypeInv == TypeOK /\ Shape

\* What deciding a reply does to the requests.
LEMMA FinishFacts ==
    ASSUME req \in [Requests -> Request], NEW r \in Requests,
           NEW reply \in Results \cup {"refused"},
           NEW purged \in SUBSET SessionIds, Finish(r, reply, purged)
    PROVE  /\ req' \in [Requests -> Request]
           /\ req'[r].pc = "reply" /\ req'[r].reply = reply /\ req'[r].pending = purged
           /\ req'[r].op = req[r].op /\ req'[r].sid = req[r].sid
           /\ req'[r].targets = req[r].targets /\ req'[r].caller = req[r].caller
           /\ req'[r].pid = req[r].pid /\ req'[r].t = req[r].t
           /\ \A q \in Requests : q # r => req'[q] = req[q]
  <1> DEFINE new == [req[r] EXCEPT !.pc = "reply", !.reply = reply, !.pending = purged]
  <1>1. req[r] \in Request
    OBVIOUS
  <1>2. req' = [req EXCEPT ![r] = new]
    BY DEF Finish
  <1>3. new \in Request
    BY <1>1 DEF Request, Results
  <1>4. /\ new.pc = "reply" /\ new.reply = reply /\ new.pending = purged
        /\ new.op = req[r].op /\ new.sid = req[r].sid
        /\ new.targets = req[r].targets /\ new.caller = req[r].caller
        /\ new.pid = req[r].pid /\ new.t = req[r].t
    BY <1>1 DEF Request
  <1> HIDE DEF new
  <1>5. QED
    BY <1>2, <1>3, <1>4

\* Deciding a reply keeps requests well-formed.
LEMMA FinishType ==
    ASSUME TypeInv, NEW r \in Requests, NEW reply \in Results \cup {"refused"},
           NEW purged \in SUBSET SessionIds, Finish(r, reply, purged)
    PROVE  req' \in [Requests -> Request] /\ Shape'
  <1>1. req \in [Requests -> Request] /\ Shape
    BY DEF TypeInv, TypeOK
  <1>2. /\ req' \in [Requests -> Request]
        /\ req'[r].pc = "reply"
        /\ \A q \in Requests : q # r => req'[q] = req[q]
    BY <1>1, FinishFacts
  <1>3. QED
    BY <1>1, <1>2 DEF Shape

\* Types and shapes hold initially.
LEMMA TypeInit == Init => TypeInv
  BY DaemonAssumption DEF Init, TypeInv, TypeOK, Shape, Idle, Request, IsSessionTable, IsProcessTable

\* Every step of a handler preserves types and shapes.
LEMMA TypeHandler ==
    ASSUME TypeInv, NEW r \in Requests, HandlerStep(r)
    PROVE  TypeInv'
  <1>0. /\ now \in Nat /\ IsSessionTable(sessions) /\ IsProcessTable(procs)
        /\ req \in [Requests -> Request] /\ req[r] \in Request /\ Shape
    BY DEF TypeInv, TypeOK
  <1>1. CASE handle_create_session(r)
    <2>1. PICK s \in FreshSessions \cup {NoSession} :
            LET o == create_owned(sessions, s, req[r].caller, req[r].t)
            IN  sessions' = o.table /\ Finish(r, o.result, o.purged)
      BY <1>1 DEF handle_create_session
    <2> DEFINE o == create_owned(sessions, s, req[r].caller, req[r].t)
    <2>2. /\ IsSessionTable(o.table)
          /\ o.result \in Results
          /\ o.purged \in SUBSET SessionIds
      <3>1. s \in SessionIds \cup {NoSession}
        BY DEF FreshSessions
      <3>2. req[r].caller \in Callers \cup {Legacy} /\ req[r].t \in Nat
        BY <1>0 DEF Request
      <3>3. Creates(o, sessions, s, req[r].t)
        BY <1>0, <3>1, <3>2, CreateTable
      <3> HIDE DEF o
      <3>4. QED
        BY <1>0, <3>3 DEF Creates, Results, IsSessionTable
    <2>3. sessions' = o.table /\ Finish(r, o.result, o.purged)
      BY <2>1
    <2> HIDE DEF o
    <2>4. req' \in [Requests -> Request] /\ Shape'
      BY <2>2, <2>3, FinishType
    <2>5. QED
      BY <1>1, <1>0, <2>2, <2>3, <2>4 DEF handle_create_session, TypeInv, TypeOK
  <1>2. CASE handle_list_sessions(r)
    <2> DEFINE o == list_owned(sessions, req[r].t)
    <2>1. req[r].t \in Nat
      BY <1>0 DEF Request
    <2>2. /\ IsSessionTable(o.table)
          /\ o.result = "ok"
          /\ o.purged \in SUBSET DOMAIN sessions
      BY <1>0, <2>1, SweepTable DEF list_owned
    <2>3. sessions' = o.table /\ Finish(r, o.result, o.purged)
      BY <1>2 DEF handle_list_sessions
    <2> HIDE DEF o
    <2>4. o.result \in Results /\ o.purged \in SUBSET SessionIds
      BY <1>0, <2>2 DEF Results, IsSessionTable
    <2>5. req' \in [Requests -> Request] /\ Shape'
      BY <2>3, <2>4, FinishType
    <2>6. QED
      BY <1>2, <1>0, <2>2, <2>3, <2>5 DEF handle_list_sessions, TypeInv, TypeOK
  <1>3. CASE require_live_session(r)
    <2> DEFINE o == get_owned(sessions, req[r].sid, req[r].caller, req[r].t)
    <2>1. req[r].t \in Nat /\ req[r].sid \in SessionIds
      BY <1>0, <1>3 DEF Request, Shape, require_live_session
    <2>2. /\ IsSessionTable(o.table)
          /\ o.result \in Results
          /\ o.purged \in SUBSET SessionIds
      BY <1>0, <2>1, TouchTable
    <2>3. /\ sessions' = o.table
          /\ req' = [req EXCEPT ![r].pc = "act"] \/ Finish(r, o.result, o.purged)
      BY <1>3 DEF require_live_session
    <2> HIDE DEF o
    <2>4. CASE req' = [req EXCEPT ![r].pc = "act"]
      <3>1. req' \in [Requests -> Request] /\ Shape'
        BY <1>0, <2>1, <2>4 DEF Request, Shape
      <3>2. QED
        BY <1>3, <1>0, <2>2, <2>3, <3>1 DEF require_live_session, TypeInv, TypeOK
    <2>5. CASE Finish(r, o.result, o.purged)
      <3>1. req' \in [Requests -> Request] /\ Shape'
        BY <2>2, <2>5, FinishType
      <3>2. QED
        BY <1>3, <1>0, <2>2, <2>3, <3>1 DEF require_live_session, TypeInv, TypeOK
    <2>6. QED
      BY <2>3, <2>4, <2>5
  <1>4. CASE SnapshotPurged(r)
    <2>1. PICK s \in req[r].pending :
            req' = [req EXCEPT ![r].pending = @ \ {s}, ![r].targets = KillTargets(procs, s)]
      BY <1>4 DEF SnapshotPurged
    <2>2. KillTargets(procs, s) \in SUBSET ProcIds
      BY <1>0 DEF KillTargets, OfSession, IsProcessTable
    <2>3. req' \in [Requests -> Request] /\ Shape'
      BY <1>4, <1>0, <2>1, <2>2, ZenonT(40) DEF SnapshotPurged, Request, Shape
    <2>4. QED
      BY <1>4, <1>0, <2>3 DEF SnapshotPurged, TypeInv, TypeOK
  <1>5. CASE SnapshotCascade(r)
    <2>1. KillTargets(procs, req[r].sid) \in SUBSET ProcIds
      BY <1>0 DEF KillTargets, OfSession, IsProcessTable
    <2>2. req' \in [Requests -> Request] /\ Shape'
      BY <1>5, <1>0, <2>1 DEF SnapshotCascade, Request, Shape
    <2>3. QED
      BY <1>5, <1>0, <2>2 DEF SnapshotCascade, TypeInv, TypeOK
  <1>6. CASE MarkTarget(r)
    <2>1. PICK p \in req[r].targets :
            procs' = RequestKill(procs, p) /\ req' = [req EXCEPT ![r].targets = @ \ {p}]
      BY <1>6 DEF MarkTarget
    <2>2. p \in ProcIds
      BY <1>0 DEF Request
    <2>3. IsProcessTable(RequestKill(procs, p))
      BY <1>0, <2>2, KillTable
    <2>4. req' \in [Requests -> Request] /\ Shape'
      BY <1>0, <2>1 DEF Request, Shape
    <2>5. QED
      BY <1>6, <1>0, <2>1, <2>3, <2>4 DEF MarkTarget, TypeInv, TypeOK
  <1>7. CASE CascadeDone(r)
    <2>1. req' \in [Requests -> Request] /\ Shape'
      BY <1>7, <1>0 DEF CascadeDone, Request, Shape
    <2>2. QED
      BY <1>7, <1>0, <2>1 DEF CascadeDone, TypeInv, TypeOK
  <1>8. CASE RemoveSession(r)
    <2> DEFINE o == terminate_owned(sessions, req[r].sid, req[r].caller, req[r].t)
    <2>1. req[r].t \in Nat /\ req[r].sid \in SessionIds
      BY <1>0, <1>8 DEF Request, Shape, RemoveSession
    <2>2. /\ IsSessionTable(o.table)
          /\ o.result \in Results
          /\ o.purged \in SUBSET SessionIds
      BY <1>0, <2>1, TerminateTable
    <2>3. sessions' = o.table /\ Finish(r, o.result, o.purged)
      BY <1>8 DEF RemoveSession
    <2> HIDE DEF o
    <2>4. req' \in [Requests -> Request] /\ Shape'
      BY <2>2, <2>3, FinishType
    <2>5. QED
      BY <1>8, <1>0, <2>2, <2>3, <2>4 DEF RemoveSession, TypeInv, TypeOK
  <1>9. CASE ChecksRefuse(r)
    <2>1. req' \in [Requests -> Request] /\ Shape'
      BY <1>9, FinishType DEF ChecksRefuse
    <2>2. QED
      BY <1>9, <1>0, <2>1 DEF ChecksRefuse, TypeInv, TypeOK
  <1>10. CASE ReserveSlot(r)
    <2>1. CASE \E room : /\ EvictedFrom(room, procs) /\ procs' = room
                         /\ Finish(r, "capacity", {}) \/ Finish(r, "internal", {})
      <3>1. IsProcessTable(procs')
        BY <2>1 DEF EvictedFrom
      <3>2. req' \in [Requests -> Request] /\ Shape'
        BY <2>1, FinishType DEF Results
      <3>3. QED
        BY <1>10, <1>0, <3>1, <3>2 DEF ReserveSlot, TypeInv, TypeOK
    <2>2. CASE \E room : \E p \in FreshProcs :
                 /\ EvictedFrom(room, procs) /\ procs' = Put(room, p, NewEntry(r))
                 /\ req' = [req EXCEPT ![r].pc = "spawn", ![r].pid = p]
      <3>0. PICK room : \E p \in FreshProcs :
                 /\ EvictedFrom(room, procs) /\ procs' = Put(room, p, NewEntry(r))
                 /\ req' = [req EXCEPT ![r].pc = "spawn", ![r].pid = p]
        BY <2>2
      <3>1. PICK p \in FreshProcs :
                 /\ EvictedFrom(room, procs) /\ procs' = Put(room, p, NewEntry(r))
                 /\ req' = [req EXCEPT ![r].pc = "spawn", ![r].pid = p]
        BY <3>0
      <3>2. p \in ProcIds /\ req[r].sid \in SessionIds /\ req[r].op = "execute"
        BY <1>10, <1>0 DEF ReserveSlot, Shape, FreshProcs
      <3>3. NewEntry(r) \in ProcessEntry
        BY <1>0, <3>2 DEF NewEntry, ProcessEntry, Request, Late
      <3>4. IsProcessTable(Put(room, p, NewEntry(r)))
        BY <3>1, <3>2, <3>3 DEF EvictedFrom, IsProcessTable, Put
      <3>5. req' \in [Requests -> Request] /\ Shape'
        BY <1>0, <3>1, <3>2, ZenonT(40) DEF Request, Shape
      <3>6. QED
        BY <1>10, <1>0, <3>1, <3>4, <3>5 DEF ReserveSlot, TypeInv, TypeOK
    <2>3. QED
      BY <1>10, <1>0, <2>1, <2>2, ReserveCases
  <1>11. CASE SpawnSucceeds(r)
    <2>1. IsProcessTable(procs')
      <3>1. procs' = [procs EXCEPT ![req[r].pid].child = "supervised"]
        BY <1>11 DEF SpawnSucceeds
      <3>2. IsProcessTable(procs)
        BY <1>0
      <3>3. ASSUME NEW p \in DOMAIN procs PROVE procs'[p] \in ProcessEntry
        <4>1. procs[p] \in ProcessEntry
          BY <3>2 DEF IsProcessTable
        <4>2. CASE p # req[r].pid
          BY <3>1, <4>1, <4>2
        <4>3. CASE p = req[r].pid
          <5>1. procs'[p] = [procs[p] EXCEPT !.child = "supervised"]
            BY <3>1, <4>3
          <5>2. QED
            BY <4>1, <5>1 DEF ProcessEntry
        <4>4. QED
          BY <4>2, <4>3
      <3>4. DOMAIN procs' = DOMAIN procs /\ procs' = [p \in DOMAIN procs |-> procs'[p]]
        BY <3>1
      <3>5. QED
        BY <3>2, <3>3, <3>4 DEF IsProcessTable
    <2>2. req' \in [Requests -> Request] /\ Shape'
      BY <1>11, FinishType DEF SpawnSucceeds, Results
    <2>3. QED
      BY <1>11, <1>0, <2>1, <2>2 DEF SpawnSucceeds, TypeInv, TypeOK
  <1>12. CASE SpawnFails(r)
    <2>1. IsProcessTable(procs')
      BY <1>12, <1>0 DEF SpawnFails, IsProcessTable, Drop
    <2>2. req' \in [Requests -> Request] /\ Shape'
      BY <1>12, FinishType DEF SpawnFails, Results
    <2>3. QED
      BY <1>12, <1>0, <2>1, <2>2 DEF SpawnFails, TypeInv, TypeOK
  <1>13. CASE OperateOnProcess(r)
    <2>1. PICK p \in ProcIds :
            \/ Finish(r, "refused", {}) /\ UNCHANGED procs
            \/ Finish(r, "notfound", {}) /\ UNCHANGED procs
            \/ /\ procs' = RequestKill(procs, p) \/ procs' = procs
               /\ req' = [req EXCEPT ![r].pc = "reply", ![r].reply = "ok", ![r].pid = p]
      BY <1>13 DEF OperateOnProcess
    <2>2. IsProcessTable(procs')
      BY <1>0, <2>1, KillTable
    <2>3. req' \in [Requests -> Request] /\ Shape'
      <3>1. CASE Finish(r, "refused", {}) \/ Finish(r, "notfound", {})
        BY <3>1, FinishType DEF Results
      <3>2. CASE req' = [req EXCEPT ![r].pc = "reply", ![r].reply = "ok", ![r].pid = p]
        <4>1. /\ req' \in [Requests -> Request] /\ req'[r].pc = "reply"
              /\ \A q \in Requests : q # r => req'[q] = req[q]
          BY <1>0, <3>2, ZenonT(40) DEF Request
        <4>2. QED
          BY <1>0, <4>1 DEF Shape
      <3>3. QED
        BY <2>1, <3>1, <3>2
    <2>4. QED
      BY <1>13, <1>0, <2>2, <2>3 DEF OperateOnProcess, TypeInv, TypeOK
  <1>14. CASE Respond(r)
    BY <1>14, <1>0 DEF Respond, TypeInv, TypeOK, Shape, Request, Idle
  <1>15. QED
    BY <1>1, <1>2, <1>3, <1>4, <1>5, <1>6, <1>7, <1>8, <1>9, <1>10, <1>11, <1>12,
       <1>13, <1>14 DEF HandlerStep

\* Every step preserves types and shapes.
LEMMA TypeStep == TypeInv /\ [Next]_vars => TypeInv'
  <1> SUFFICES ASSUME TypeInv, [Next]_vars PROVE TypeInv'
    OBVIOUS
  <1>0. /\ now \in Nat /\ IsSessionTable(sessions) /\ IsProcessTable(procs)
        /\ req \in [Requests -> Request] /\ Shape
    BY DEF TypeInv, TypeOK
  <1>1. ASSUME NEW r \in Requests, Arrive(r) PROVE TypeInv'
    <2>1. PICK new \in Request :
            /\ req' = [req EXCEPT ![r] = new]
            /\ new.pc \in {"enter", "reply"}
            /\ new.pc = "enter" /\ new.op \notin {"create", "list"} => new.sid \in SessionIds
      <3>0. PICK op \in Ops, c \in Callers :
              \E s \in IF op \in {"create", "list"} THEN {NoSession} ELSE SessionIds :
              req' = [req EXCEPT ![r] =
                        IF op \in SessionOps /\ ~Known(c)
                        THEN [Idle EXCEPT !.op = op, !.caller = c, !.sid = s,
                                          !.pc = "reply", !.reply = "refused"]
                        ELSE [Idle EXCEPT !.op = op, !.caller = c, !.sid = s,
                                          !.pc = "enter", !.t = now]]
        BY <1>1 DEF Arrive
      <3>1. PICK s \in IF op \in {"create", "list"} THEN {NoSession} ELSE SessionIds :
              req' = [req EXCEPT ![r] =
                        IF op \in SessionOps /\ ~Known(c)
                        THEN [Idle EXCEPT !.op = op, !.caller = c, !.sid = s,
                                          !.pc = "reply", !.reply = "refused"]
                        ELSE [Idle EXCEPT !.op = op, !.caller = c, !.sid = s,
                                          !.pc = "enter", !.t = now]]
        BY <3>0
      <3> DEFINE a == [Idle EXCEPT !.op = op, !.caller = c, !.sid = s,
                                   !.pc = "reply", !.reply = "refused"]
                 b == [Idle EXCEPT !.op = op, !.caller = c, !.sid = s,
                                   !.pc = "enter", !.t = now]
      <3>2. a \in Request /\ a.pc = "reply"
        BY DEF Request, Idle
      <3>3. b \in Request /\ b.pc = "enter" /\ b.op = op /\ b.sid = s
        BY <1>0 DEF Request, Idle
      <3>4. req' = [req EXCEPT ![r] = a] \/ req' = [req EXCEPT ![r] = b]
        BY <3>1
      <3> HIDE DEF a, b
      <3>5. QED
        BY <3>2, <3>3, <3>4
    <2>2. req' \in [Requests -> Request] /\ Shape'
      BY <1>0, <2>1 DEF Shape
    <2>3. QED
      BY <1>0, <1>1, <2>2 DEF Arrive, TypeInv, TypeOK
  <1>2. ASSUME NEW r \in Requests, HandlerStep(r) PROVE TypeInv'
    BY <1>2, TypeHandler
  <1>3. ASSUME NEW p \in ProcIds, SupervisorStep(p) \/ ChildExits(p) PROVE TypeInv'
    <2>1. IsProcessTable(procs')
      BY <1>0, <1>3 DEF SupervisorStep, KillChild, Publish, ChildExits, IsProcessTable, ProcessEntry
    <2>2. QED
      BY <1>0, <1>3, <2>1
         DEF SupervisorStep, KillChild, Publish, ChildExits, TypeInv, TypeOK, Shape
  <1>4. CASE Tick
    BY <1>0, <1>4 DEF Tick, TypeInv, TypeOK, Shape
  <1>5. CASE UNCHANGED vars
    BY <1>0, <1>5 DEF vars, TypeInv, TypeOK, Shape
  <1>6. QED
    BY <1>1, <1>2, <1>3, <1>4, <1>5 DEF Next

\* Every table and every request keeps its type (TypeOK), in every state the
\* daemon can reach.
THEOREM TypeCorrect == Spec => []TypeOK
  <1>1. TypeInv => TypeOK
    BY DEF TypeInv
  <1>2. QED
    BY TypeInit, TypeStep, <1>1, PTL DEF Spec

-----------------------------------------------------------------------------
(* No silent orphans *)

\* A live process that was on time and that nobody has asked to die.
Spared(p) ==
    /\ p \in DOMAIN procs
    /\ procs[p].status = "running" /\ ~procs[p].kill_requested /\ ~procs[p].late

\* The table of sessions is finite and within its bound.
SessionsBounded ==
    IsFiniteSet(DOMAIN sessions) /\ Cardinality(DOMAIN sessions) <= MaxSessions

\* A cascade still has every spared process of its session among its targets;
\* by the time the record is to be removed none is left.
CascadeSees ==
    \A r \in Requests, p \in ProcIds :
        Spared(p) /\ procs[p].session = req[r].sid =>
            /\ req[r].pc = "cascade" => p \in req[r].targets
            /\ req[r].pc # "remove"

\* A spared process whose session is gone has a kill coming.
OrphansDoomed ==
    \A p \in ProcIds : Spared(p) /\ procs[p].session \notin DOMAIN sessions => KillPending(p)

\* A request that has terminated its session.
Terminated(r) ==
    req[r].op = "terminate_session" /\ req[r].pc = "reply" /\ req[r].reply = "ok"

\* A terminated session stays out of the table and holds no spared process.
TerminatedIsGone ==
    \A r \in Requests :
        Terminated(r) => /\ req[r].sid \notin DOMAIN sessions
                         /\ \A p \in ProcIds : Spared(p) => procs[p].session # req[r].sid

OrphanInv == TypeInv /\ SessionsBounded /\ CascadeSees /\ OrphansDoomed /\ TerminatedIsGone

\* No process is added, revived, or spared anew.
Wanes ==
    \A p \in ProcIds : Spared(p)' => Spared(p) /\ procs'[p].session = procs[p].session

\* The general step: request r moves, no process is added, a session that
\* appears is fresh, and r takes care of the sessions that disappear.
LEMMA RequestMoves ==
    ASSUME OrphanInv, NEW r \in Requests, Wanes,
           \A q \in Requests : q # r => req'[q] = req[q],
           \A p \in ProcIds : Spared(p)' /\ procs'[p].session = req'[r].sid =>
                /\ req'[r].pc = "cascade" => p \in req'[r].targets
                /\ req'[r].pc # "remove",
           Terminated(r)' => /\ req'[r].sid \notin DOMAIN sessions'
                             /\ \A p \in ProcIds : Spared(p)' => procs'[p].session # req'[r].sid,
           \A s \in DOMAIN sessions' \ DOMAIN sessions : s \in FreshSessions,
           \A p \in ProcIds : /\ Spared(p)'
                              /\ procs'[p].session \in DOMAIN sessions \ DOMAIN sessions'
                              => WillKill(r, p)',
           \A p \in ProcIds : Spared(p)' /\ WillKill(r, p) => WillKill(r, p)'
    PROVE  CascadeSees' /\ OrphansDoomed' /\ TerminatedIsGone'
  <1>1. CascadeSees'
    BY DEF OrphanInv, CascadeSees, Wanes
  <1>2. OrphansDoomed'
    <2> SUFFICES ASSUME NEW p \in ProcIds, Spared(p)', procs'[p].session \notin DOMAIN sessions'
                 PROVE  \E q \in Requests : WillKill(q, p)'
      BY DEF OrphansDoomed, KillPending
    <2>1. Spared(p) /\ procs'[p].session = procs[p].session
      BY DEF Wanes
    <2>2. CASE procs[p].session \in DOMAIN sessions
      BY <2>1, <2>2
    <2>3. CASE procs[p].session \notin DOMAIN sessions
      <3>1. PICK q \in Requests : WillKill(q, p)
        BY <2>1, <2>3 DEF OrphanInv, OrphansDoomed, KillPending
      <3>2. CASE q = r
        BY <3>1, <3>2
      <3>3. CASE q # r
        BY <2>1, <3>1, <3>3 DEF WillKill
      <3>4. QED
        BY <3>2, <3>3
    <2>4. QED
      BY <2>2, <2>3
  <1>3. TerminatedIsGone'
    <2> SUFFICES ASSUME NEW q \in Requests, Terminated(q)', q # r
                 PROVE  /\ req'[q].sid \notin DOMAIN sessions'
                        /\ \A p \in ProcIds : Spared(p)' => procs'[p].session # req'[q].sid
      BY DEF TerminatedIsGone
    <2>1. req'[q] = req[q] /\ Terminated(q)
      BY DEF Terminated
    <2>2. req[q].sid \notin FreshSessions
      BY DEF FreshSessions
    <2>3. QED
      BY <2>1, <2>2 DEF OrphanInv, TerminatedIsGone, Wanes
  <1>4. QED
    BY <1>1, <1>2, <1>3

\* Deciding a reply when nothing was being killed: what is left to show is that
\* the removed sessions are pending, or held no spared process.
LEMMA FinishMoves ==
    ASSUME OrphanInv, NEW r \in Requests, NEW reply \in Results \cup {"refused"},
           NEW purged \in SUBSET SessionIds, Finish(r, reply, purged), Wanes,
           req[r].pc \in {"enter", "act", "spawn", "remove"},
           req[r].op # "terminate_session" \/ reply # "ok",
           \A s \in DOMAIN sessions' \ DOMAIN sessions : s \in FreshSessions,
           DOMAIN sessions \ DOMAIN sessions' \subseteq purged
    PROVE  CascadeSees' /\ OrphansDoomed' /\ TerminatedIsGone'
  <1>1. req \in [Requests -> Request]
    BY DEF OrphanInv, TypeInv, TypeOK
  <1>2. /\ req'[r].pc = "reply" /\ req'[r].reply = reply /\ req'[r].pending = purged
        /\ req'[r].op = req[r].op
        /\ \A q \in Requests : q # r => req'[q] = req[q]
    BY <1>1, FinishFacts
  <1>3. \A p \in ProcIds : ~WillKill(r, p)
    BY DEF WillKill
  <1>4. ~Terminated(r)'
    BY <1>2 DEF Terminated
  <1>5. \A p \in ProcIds : procs'[p].session \in purged => WillKill(r, p)'
    BY <1>2 DEF WillKill
  <1>6. QED
    BY <1>2, <1>3, <1>4, <1>5, RequestMoves

\* The session table stays within its bound.
LEMMA BoundStep ==
    ASSUME TypeInv, SessionsBounded, [Next]_vars
    PROVE  SessionsBounded'
  <1>0. /\ IsSessionTable(sessions) /\ req \in [Requests -> Request] /\ Shape
        /\ IsFiniteSet(DOMAIN sessions) /\ Cardinality(DOMAIN sessions) <= MaxSessions
        /\ MaxSessions \in Nat
    BY SessionConfigAssumption DEF TypeInv, TypeOK, SessionsBounded
  <1>1. ASSUME DOMAIN sessions' \subseteq DOMAIN sessions PROVE SessionsBounded'
    BY <1>0, <1>1, FS_Subset, FS_CardinalityType DEF SessionsBounded
  <1>2. ASSUME NEW r \in Requests, handle_create_session(r) PROVE SessionsBounded'
    <2>1. PICK s \in FreshSessions \cup {NoSession} :
            sessions' = create_owned(sessions, s, req[r].caller, req[r].t).table
      BY <1>2 DEF handle_create_session
    <2> DEFINE o == create_owned(sessions, s, req[r].caller, req[r].t)
    <2>2. s \in SessionIds \cup {NoSession}
      BY DEF FreshSessions
    <2>3. req[r].caller \in Callers \cup {Legacy} /\ req[r].t \in Nat
      BY <1>0 DEF Request
    <2>4. /\ o.result = "ok" => /\ DOMAIN o.table = (DOMAIN sessions \ o.purged) \cup {s}
                                /\ ~(Cardinality(DOMAIN sessions \ o.purged) >= MaxSessions)
          /\ o.result # "ok" => DOMAIN o.table \subseteq DOMAIN sessions
      <3>1. IsSessionTable(sessions)
        BY <1>0
      <3>2. Creates(o, sessions, s, req[r].t)
        BY <3>1, <2>2, <2>3, CreateTable
      <3> HIDE DEF o
      <3>3. QED
        BY <3>2 DEF Creates
    <2>5. sessions' = o.table
      BY <2>1
    <2> HIDE DEF o
    <2>6. CASE o.result = "ok"
      <3> DEFINE D == DOMAIN sessions \ o.purged
      <3>1. IsFiniteSet(D) /\ Cardinality(D) \in Nat
        BY <1>0, FS_Subset, FS_CardinalityType
      <3>2. IsFiniteSet(D \cup {s}) /\ Cardinality(D \cup {s}) <= Cardinality(D) + 1
        <4> HIDE DEF D
        <4>1. /\ IsFiniteSet(D \cup {s})
              /\ Cardinality(D \cup {s}) = IF s \in D THEN Cardinality(D) ELSE Cardinality(D) + 1
          BY <3>1, FS_AddElement
        <4>2. QED
          BY <3>1, <4>1
      <3>3. Cardinality(D) < MaxSessions /\ DOMAIN sessions' = D \cup {s}
        BY <1>0, <2>4, <2>5, <2>6, <3>1
      <3> HIDE DEF D
      <3>4. Cardinality(D \cup {s}) \in Nat
        BY <3>2, FS_CardinalityType
      <3>5. QED
        BY <1>0, <3>1, <3>2, <3>3, <3>4 DEF SessionsBounded
    <2>7. CASE o.result # "ok"
      BY <1>1, <2>4, <2>5, <2>7
    <2>8. QED
      BY <2>6, <2>7
  <1>3. ASSUME NEW r \in Requests, handle_list_sessions(r) PROVE SessionsBounded'
    <2>1. req[r].t \in Nat
      BY <1>0 DEF Request
    <2>2. DOMAIN list_owned(sessions, req[r].t).table \subseteq DOMAIN sessions
      BY <1>0, <2>1, SweepTable DEF list_owned
    <2>3. QED
      BY <1>1, <1>3, <2>2 DEF handle_list_sessions
  <1>4. ASSUME NEW r \in Requests, require_live_session(r) PROVE SessionsBounded'
    <2>1. req[r].t \in Nat /\ req[r].sid \in SessionIds
      BY <1>0, <1>4 DEF Request, Shape, require_live_session
    <2>2. DOMAIN get_owned(sessions, req[r].sid, req[r].caller, req[r].t).table \subseteq DOMAIN sessions
      BY <1>0, <2>1, TouchTable
    <2>3. QED
      BY <1>1, <1>4, <2>2 DEF require_live_session
  <1>5. ASSUME NEW r \in Requests, RemoveSession(r) PROVE SessionsBounded'
    <2> DEFINE o == terminate_owned(sessions, req[r].sid, req[r].caller, req[r].t)
    <2>1. req[r].t \in Nat /\ req[r].sid \in SessionIds
      BY <1>0, <1>5 DEF Request, Shape, RemoveSession
    <2>2. DOMAIN o.table = IF o.result = "ok" THEN DOMAIN sessions \ {req[r].sid}
                                              ELSE DOMAIN sessions \ o.purged
      BY <1>0, <2>1, TerminateTable
    <2>3. sessions' = o.table
      BY <1>5 DEF RemoveSession
    <2> HIDE DEF o
    <2>4. QED
      BY <1>1, <2>2, <2>3
  <1>6. CASE UNCHANGED sessions
    BY <1>0, <1>6 DEF SessionsBounded
  <1>7. QED
    BY <1>2, <1>3, <1>4, <1>5, <1>6
       DEF Next, vars, HandlerStep, SupervisorStep, Arrive, SnapshotPurged, SnapshotCascade,
           MarkTarget, CascadeDone, ChecksRefuse, ReserveSlot, SpawnSucceeds, SpawnFails,
           OperateOnProcess, Respond, KillChild, Publish, ChildExits, Tick

\* Steps that leave the process table alone make no process spared.
LEMMA UnchangedWanes == UNCHANGED procs => Wanes
  BY DEF Wanes, Spared

\* A creation removes only sessions it reports: a refusal for capacity cannot
\* have purged any, for the table is still full.
LEMMA CreateMoves ==
    ASSUME OrphanInv, ~CsprngMayFail, NEW r \in Requests, handle_create_session(r)
    PROVE  CascadeSees' /\ OrphansDoomed' /\ TerminatedIsGone'
  <1>0. /\ IsSessionTable(sessions) /\ req \in [Requests -> Request]
        /\ IsFiniteSet(DOMAIN sessions) /\ Cardinality(DOMAIN sessions) <= MaxSessions
        /\ MaxSessions \in Nat
    BY SessionConfigAssumption DEF OrphanInv, TypeInv, TypeOK, SessionsBounded
  <1>1. PICK s \in FreshSessions \cup {NoSession} :
          LET o == create_owned(sessions, s, req[r].caller, req[r].t)
          IN  /\ s = NoSession => CsprngMayFail \/ o.result = "capacity"
              /\ sessions' = o.table
              /\ Finish(r, o.result, o.purged)
    BY DEF handle_create_session
  <1> DEFINE o == create_owned(sessions, s, req[r].caller, req[r].t)
  <1>2. Creates(o, sessions, s, req[r].t)
    <2>1. s \in SessionIds \cup {NoSession}
      BY DEF FreshSessions
    <2>2. req[r].caller \in Callers \cup {Legacy} /\ req[r].t \in Nat
      BY <1>0 DEF Request
    <2>3. QED
      BY <1>0, <2>1, <2>2, CreateTable
  <1>3. /\ s = NoSession => o.result = "capacity"
        /\ sessions' = o.table
        /\ Finish(r, o.result, o.purged)
    BY <1>1
  <1> HIDE DEF o
  <1>4. o.result \in Results /\ o.purged \in SUBSET SessionIds
    BY <1>0, <1>2 DEF Creates, Results, IsSessionTable
  <1>5. /\ DOMAIN sessions \ DOMAIN sessions' \subseteq o.purged
        /\ \A x \in DOMAIN sessions' \ DOMAIN sessions : x \in FreshSessions
    <2>1. CASE o.result = "ok"
      <3>1. DOMAIN sessions' = (DOMAIN sessions \ o.purged) \cup {s} /\ s \in SessionIds
        BY <1>2, <1>3, <2>1 DEF Creates
      <3>2. s \in FreshSessions
        BY <1>3, <2>1
      <3>3. QED
        BY <3>1, <3>2
    <2>2. CASE o.result # "ok"
      <3>1. o.result = "capacity"
        BY <1>2, <1>3, <2>2 DEF Creates
      <3>2. /\ DOMAIN sessions' = DOMAIN sessions \ Expired(sessions, req[r].t)
            /\ Cardinality(DOMAIN sessions') >= MaxSessions
        BY <1>2, <1>3, <2>2, <3>1 DEF Creates
      <3> DEFINE D == DOMAIN sessions'
      <3>3. D \in SUBSET DOMAIN sessions
        BY <3>2
      <3>4. /\ Cardinality(D) <= Cardinality(DOMAIN sessions)
            /\ Cardinality(DOMAIN sessions) = Cardinality(D) => DOMAIN sessions = D
            /\ IsFiniteSet(D)
        BY <1>0, <3>3, FS_Subset
      <3>5. Cardinality(D) \in Nat /\ Cardinality(DOMAIN sessions) \in Nat
        BY <1>0, <3>4, FS_CardinalityType
      <3>6. D = DOMAIN sessions
        BY <1>0, <3>2, <3>4, <3>5
      <3>7. QED
        BY <3>6
    <2>3. QED
      BY <2>1, <2>2
  <1>6. Wanes
    BY UnchangedWanes DEF handle_create_session
  <1>7. req[r].pc = "enter" /\ req[r].op = "create"
    BY DEF handle_create_session
  <1>8. QED
    BY <1>3, <1>4, <1>5, <1>6, <1>7, FinishMoves

\* Listing and touching remove only what they report.
LEMMA TouchMoves ==
    ASSUME OrphanInv, NEW r \in Requests, handle_list_sessions(r) \/ require_live_session(r)
    PROVE  CascadeSees' /\ OrphansDoomed' /\ TerminatedIsGone'
  <1>0. IsSessionTable(sessions) /\ req \in [Requests -> Request] /\ Shape
    BY DEF OrphanInv, TypeInv, TypeOK
  <1>w. Wanes
    BY UnchangedWanes DEF handle_list_sessions, require_live_session
  <1>1. CASE handle_list_sessions(r)
    <2> DEFINE o == list_owned(sessions, req[r].t)
    <2>1. req[r].t \in Nat
      BY <1>0 DEF Request
    <2>2. o.result = "ok" /\ o.purged \in SUBSET DOMAIN sessions
          /\ DOMAIN o.table = DOMAIN sessions \ o.purged
      BY <1>0, <2>1, SweepTable DEF list_owned
    <2>3. sessions' = o.table /\ Finish(r, o.result, o.purged)
      BY <1>1 DEF handle_list_sessions
    <2> HIDE DEF o
    <2>4. o.result \in Results /\ o.purged \in SUBSET SessionIds
      BY <1>0, <2>2 DEF Results, IsSessionTable
    <2>5. req[r].pc = "enter" /\ req[r].op = "list"
      BY <1>1 DEF handle_list_sessions
    <2>6. /\ DOMAIN sessions \ DOMAIN sessions' \subseteq o.purged
          /\ \A x \in DOMAIN sessions' \ DOMAIN sessions : x \in FreshSessions
      BY <2>2, <2>3
    <2>7. QED
      BY <1>w, <2>3, <2>4, <2>5, <2>6, FinishMoves
  <1>2. CASE require_live_session(r)
    <2> DEFINE o == get_owned(sessions, req[r].sid, req[r].caller, req[r].t)
    <2>1. req[r].t \in Nat /\ req[r].sid \in SessionIds
      BY <1>0, <1>2 DEF Request, Shape, require_live_session
    <2>2. /\ o.result \in Results
          /\ o.purged \in SUBSET SessionIds
          /\ DOMAIN o.table = DOMAIN sessions \ o.purged
          /\ o.result = "ok" => o.purged = {}
      BY <1>0, <2>1, TouchTable
    <2>3. /\ sessions' = o.table
          /\ req[r].pc = "enter"
          /\ IF o.result = "ok" /\ req[r].op # "get"
             THEN req' = [req EXCEPT ![r].pc = "act"]
             ELSE Finish(r, o.result, o.purged)
      BY <1>2 DEF require_live_session
    <2> HIDE DEF o
    <2>4. /\ DOMAIN sessions \ DOMAIN sessions' \subseteq o.purged
          /\ \A x \in DOMAIN sessions' \ DOMAIN sessions : x \in FreshSessions
      BY <2>2, <2>3
    <2>5. CASE o.result = "ok" /\ req[r].op # "get"
      <3>1. /\ req'[r].pc = "act"
            /\ \A q \in Requests : q # r => req'[q] = req[q]
        BY <1>0, <2>3, <2>5 DEF Request
      <3>2. \A p \in ProcIds : ~WillKill(r, p)
        BY <2>3 DEF WillKill
      <3>3. ~Terminated(r)' /\ DOMAIN sessions' = DOMAIN sessions
        BY <2>2, <2>3, <2>5, <3>1 DEF Terminated
      <3>4. QED
        BY <1>w, <2>4, <3>1, <3>2, <3>3, RequestMoves
    <2>6. CASE ~(o.result = "ok" /\ req[r].op # "get")
      <3>1. req[r].op # "terminate_session" \/ o.result # "ok"
        BY <2>6
      <3>2. Finish(r, o.result, o.purged)
        BY <2>3, <2>6
      <3>3. QED
        BY <1>w, <2>2, <2>3, <2>4, <3>1, <3>2, FinishMoves
    <2>7. QED
      BY <2>5, <2>6
  <1>3. QED
    BY <1>1, <1>2

\* The steps of killing hand a kill on until its flag is set.
LEMMA KillMoves ==
    ASSUME OrphanInv, NEW r \in Requests,
           \/ SnapshotPurged(r) \/ SnapshotCascade(r) \/ MarkTarget(r)
           \/ CascadeDone(r) \/ Respond(r)
    PROVE  CascadeSees' /\ OrphansDoomed' /\ TerminatedIsGone'
  <1>0. /\ IsProcessTable(procs) /\ req \in [Requests -> Request] /\ req[r] \in Request
        /\ Shape /\ CascadeSees /\ TerminatedIsGone
    BY DEF OrphanInv, TypeInv, TypeOK
  <1>1. DOMAIN sessions' = DOMAIN sessions
    BY DEF SnapshotPurged, SnapshotCascade, MarkTarget, CascadeDone, Respond
  <1>2. CASE SnapshotPurged(r)
    <2>1. PICK s \in req[r].pending :
            req' = [req EXCEPT ![r].pending = @ \ {s}, ![r].targets = KillTargets(procs, s)]
      BY <1>2 DEF SnapshotPurged
    <2>2. /\ req'[r].pc = "reply" /\ req'[r].op = req[r].op /\ req'[r].sid = req[r].sid
          /\ req'[r].reply = req[r].reply
          /\ req'[r].pending = req[r].pending \ {s} /\ req'[r].targets = KillTargets(procs, s)
          /\ \A q \in Requests : q # r => req'[q] = req[q]
      BY <1>0, <1>2, <2>1 DEF SnapshotPurged, Request
    <2>3. Wanes /\ procs' = procs /\ req[r].targets = {} /\ req[r].pc = "reply"
      BY <1>2, UnchangedWanes DEF SnapshotPurged
    <2>4. \A p \in ProcIds : Spared(p)' /\ WillKill(r, p) => WillKill(r, p)'
      BY <2>2, <2>3 DEF WillKill, KillTargets, OfSession, Spared
    <2>5. Terminated(r)' => /\ req'[r].sid \notin DOMAIN sessions'
                            /\ \A p \in ProcIds : Spared(p)' => procs'[p].session # req'[r].sid
      BY <1>0, <1>1, <2>2, <2>3 DEF Terminated, TerminatedIsGone, Spared
    <2>6. QED
      BY <1>1, <2>2, <2>3, <2>4, <2>5, RequestMoves
  <1>3. CASE SnapshotCascade(r)
    <2>1. /\ req'[r].pc = "cascade" /\ req'[r].sid = req[r].sid
          /\ req'[r].targets = KillTargets(procs, req[r].sid)
          /\ \A q \in Requests : q # r => req'[q] = req[q]
      BY <1>0, <1>3 DEF SnapshotCascade, Request
    <2>2. Wanes /\ procs' = procs /\ req[r].pc = "act"
      BY <1>3, UnchangedWanes DEF SnapshotCascade
    <2>3. \A p \in ProcIds : ~WillKill(r, p)
      BY <2>2 DEF WillKill
    <2>4. \A p \in ProcIds : Spared(p)' /\ procs'[p].session = req'[r].sid => p \in req'[r].targets
      BY <2>1, <2>2 DEF KillTargets, OfSession, Spared
    <2>5. ~Terminated(r)'
      BY <2>1 DEF Terminated
    <2>6. QED
      BY <1>1, <2>1, <2>2, <2>3, <2>4, <2>5, RequestMoves
  <1>4. CASE MarkTarget(r)
    <2>1. PICK p \in req[r].targets :
            procs' = RequestKill(procs, p) /\ req' = [req EXCEPT ![r].targets = @ \ {p}]
      BY <1>4 DEF MarkTarget
    <2>2. p \in ProcIds /\ req[r].pc \in {"cascade", "reply"}
      BY <1>0, <1>4 DEF Request, MarkTarget
    <2>3. /\ req'[r].pc = req[r].pc /\ req'[r].op = req[r].op /\ req'[r].sid = req[r].sid
          /\ req'[r].reply = req[r].reply /\ req'[r].pending = req[r].pending
          /\ req'[r].targets = req[r].targets \ {p}
          /\ \A q \in Requests : q # r => req'[q] = req[q]
      BY <1>0, <2>1 DEF Request
    <2>4. \A q \in ProcIds : Spared(q)' => /\ Spared(q) /\ q # p
                                          /\ procs'[q].session = procs[q].session
      BY <1>0, <2>1, <2>2, KillTable DEF Spared
    <2>5. Wanes
      BY <2>4 DEF Wanes
    <2>6. \A q \in ProcIds : Spared(q)' /\ WillKill(r, q) => WillKill(r, q)'
      BY <2>3, <2>4 DEF WillKill
    <2>7. \A q \in ProcIds : Spared(q)' /\ procs'[q].session = req'[r].sid =>
             /\ req'[r].pc = "cascade" => q \in req'[r].targets
             /\ req'[r].pc # "remove"
      BY <1>0, <2>2, <2>3, <2>4 DEF CascadeSees
    <2>8. Terminated(r)' => /\ req'[r].sid \notin DOMAIN sessions'
                            /\ \A q \in ProcIds : Spared(q)' => procs'[q].session # req'[r].sid
      BY <1>0, <1>1, <2>3, <2>4 DEF Terminated, TerminatedIsGone
    <2>9. QED
      BY <1>1, <2>3, <2>5, <2>6, <2>7, <2>8, RequestMoves
  <1>5. CASE CascadeDone(r)
    <2>1. /\ req'[r].pc = "remove" /\ req'[r].sid = req[r].sid
          /\ \A q \in Requests : q # r => req'[q] = req[q]
      BY <1>0, <1>5 DEF CascadeDone, Request
    <2>2. Wanes /\ procs' = procs /\ req[r].pc = "cascade" /\ req[r].targets = {}
      BY <1>5, UnchangedWanes DEF CascadeDone
    <2>3. \A p \in ProcIds : ~WillKill(r, p)
      BY <2>2 DEF WillKill
    <2>4. \A p \in ProcIds : Spared(p)' => procs'[p].session # req'[r].sid
      BY <1>0, <2>1, <2>2 DEF CascadeSees, Spared
    <2>5. ~Terminated(r)'
      BY <2>1 DEF Terminated
    <2>6. QED
      BY <1>1, <2>1, <2>2, <2>3, <2>4, <2>5, RequestMoves
  <1>6. CASE Respond(r)
    <2>1. req'[r] = Idle /\ \A q \in Requests : q # r => req'[q] = req[q]
      BY <1>0, <1>6 DEF Respond
    <2>2. Wanes /\ req[r].pending = {} /\ req[r].targets = {}
      BY <1>6, UnchangedWanes DEF Respond
    <2>3. \A p \in ProcIds : ~WillKill(r, p)
      BY <2>2 DEF WillKill
    <2>4. req'[r].pc = "idle" /\ ~Terminated(r)'
      BY <2>1 DEF Idle, Terminated
    <2>5. QED
      BY <1>1, <2>1, <2>2, <2>3, <2>4, RequestMoves
  <1>7. QED
    BY <1>2, <1>3, <1>4, <1>5, <1>6

\* The record is removed when the cascade has left no spared process, or the
\* session is reported as purged.
LEMMA RemoveMoves ==
    ASSUME OrphanInv, NEW r \in Requests, RemoveSession(r)
    PROVE  CascadeSees' /\ OrphansDoomed' /\ TerminatedIsGone'
  <1>0. /\ IsSessionTable(sessions) /\ req \in [Requests -> Request] /\ Shape /\ CascadeSees
    BY DEF OrphanInv, TypeInv, TypeOK
  <1> DEFINE o == terminate_owned(sessions, req[r].sid, req[r].caller, req[r].t)
  <1>1. req[r].t \in Nat /\ req[r].sid \in SessionIds
    BY <1>0 DEF Request, Shape, RemoveSession
  <1>2. /\ o.result \in Results
        /\ o.purged \in SUBSET SessionIds
        /\ DOMAIN o.table = IF o.result = "ok" THEN DOMAIN sessions \ {req[r].sid}
                                               ELSE DOMAIN sessions \ o.purged
    BY <1>0, <1>1, TerminateTable
  <1>3. sessions' = o.table /\ Finish(r, o.result, o.purged) /\ req[r].pc = "remove"
    BY DEF RemoveSession
  <1>4. Wanes /\ procs' = procs
    BY UnchangedWanes DEF RemoveSession
  <1> HIDE DEF o
  <1>5. CASE o.result = "ok"
    <2>1. /\ req'[r].pc = "reply" /\ req'[r].sid = req[r].sid
          /\ \A q \in Requests : q # r => req'[q] = req[q]
      BY <1>0, <1>2, <1>3, FinishFacts
    <2>2. \A p \in ProcIds : Spared(p)' => procs'[p].session # req'[r].sid
      BY <1>0, <1>3, <1>4, <2>1 DEF CascadeSees, Spared
    <2>3. \A p \in ProcIds : ~WillKill(r, p)
      BY <1>3 DEF WillKill
    <2>4. DOMAIN sessions' = DOMAIN sessions \ {req'[r].sid}
      BY <1>2, <1>3, <1>5, <2>1
    <2>5. QED
      BY <1>4, <2>1, <2>2, <2>3, <2>4, RequestMoves
  <1>6. CASE o.result # "ok"
    <2>1. /\ DOMAIN sessions \ DOMAIN sessions' \subseteq o.purged
          /\ \A x \in DOMAIN sessions' \ DOMAIN sessions : x \in FreshSessions
      BY <1>2, <1>3, <1>6
    <2>2. QED
      BY <1>2, <1>3, <1>4, <1>6, <2>1, FinishMoves
  <1>7. QED
    BY <1>5, <1>6

\* Starting a process adds a spared one only to a live session that nobody is
\* terminating.
LEMMA ReserveMoves ==
    ASSUME OrphanInv, NEW r \in Requests, ReserveSlot(r)
    PROVE  CascadeSees' /\ OrphansDoomed' /\ TerminatedIsGone'
  <1>0. /\ IsProcessTable(procs) /\ req \in [Requests -> Request]
        /\ CascadeSees /\ OrphansDoomed /\ TerminatedIsGone
    BY DEF OrphanInv, TypeInv, TypeOK
  <1>1. sessions' = sessions /\ req[r].pc = "act" /\ req[r].op = "execute"
    BY DEF ReserveSlot
  <1>2. CASE \E room : /\ EvictedFrom(room, procs) /\ procs' = room
                       /\ Finish(r, "capacity", {}) \/ Finish(r, "internal", {})
    <2>1. Wanes
      BY <1>2 DEF EvictedFrom, Wanes, Spared
    <2>2. PICK reply \in Results : Finish(r, reply, {})
      BY <1>2 DEF Results
    <2>3. QED
      BY <1>1, <2>1, <2>2, FinishMoves
  <1>3. CASE \E room : \E p \in FreshProcs :
               /\ EvictedFrom(room, procs) /\ procs' = Put(room, p, NewEntry(r))
               /\ req' = [req EXCEPT ![r].pc = "spawn", ![r].pid = p]
    <2>1. PICK room : \E p \in FreshProcs :
               /\ EvictedFrom(room, procs) /\ procs' = Put(room, p, NewEntry(r))
               /\ req' = [req EXCEPT ![r].pc = "spawn", ![r].pid = p]
      BY <1>3
    <2>2. PICK p \in FreshProcs :
               /\ EvictedFrom(room, procs) /\ procs' = Put(room, p, NewEntry(r))
               /\ req' = [req EXCEPT ![r].pc = "spawn", ![r].pid = p]
      BY <2>1
    <2>3. /\ req'[r].pc = "spawn"
          /\ \A q \in Requests : q # r => req'[q] = req[q]
      BY <1>0, <2>2 DEF Request
    <2>4. /\ procs'[p] = NewEntry(r)
          /\ \A q \in ProcIds : q # p /\ q \in DOMAIN procs' =>
                q \in DOMAIN procs /\ procs'[q] = procs[q]
      BY <2>2 DEF Put, EvictedFrom
    <2>5. \A q \in ProcIds : q # p /\ Spared(q)' =>
                Spared(q) /\ procs'[q].session = procs[q].session
      BY <2>4 DEF Spared
    <2>6. /\ procs'[p].session = req[r].sid
          /\ Spared(p)' => ~Late(req[r].sid)
      BY <2>4 DEF Spared, NewEntry
    <2>7. Spared(p)' => /\ req[r].sid \in DOMAIN sessions
                        /\ \A q \in Requests : req[q].pc \in {"cascade", "remove"} =>
                                                  req[q].sid # req[r].sid
      BY <2>6 DEF Late
    <2>8. CascadeSees'
      BY <1>0, <2>3, <2>5, <2>6, <2>7 DEF CascadeSees
    <2>9. OrphansDoomed'
      <3> SUFFICES ASSUME NEW x \in ProcIds, Spared(x)', procs'[x].session \notin DOMAIN sessions'
                   PROVE  \E q \in Requests : WillKill(q, x)'
        BY DEF OrphansDoomed, KillPending
      <3>1. x # p
        BY <1>1, <2>6, <2>7
      <3>2. Spared(x) /\ procs'[x].session = procs[x].session
        BY <2>5, <3>1
      <3>3. PICK q \in Requests : WillKill(q, x)
        BY <1>0, <1>1, <3>2 DEF OrphansDoomed, KillPending
      <3>4. q # r
        BY <1>1, <3>3 DEF WillKill
      <3>5. QED
        BY <2>3, <3>2, <3>3, <3>4 DEF WillKill
    <2>10. TerminatedIsGone'
      <3> SUFFICES ASSUME NEW q \in Requests, Terminated(q)'
                   PROVE  /\ req'[q].sid \notin DOMAIN sessions'
                          /\ \A x \in ProcIds : Spared(x)' => procs'[x].session # req'[q].sid
        BY DEF TerminatedIsGone
      <3>1. q # r
        BY <2>3 DEF Terminated
      <3>2. Terminated(q) /\ req'[q] = req[q]
        BY <2>3, <3>1 DEF Terminated
      <3>3. QED
        BY <1>0, <1>1, <2>5, <2>6, <2>7, <3>2 DEF TerminatedIsGone
    <2>11. QED
      BY <2>8, <2>9, <2>10
  <1>4. QED
    BY <1>0, <1>2, <1>3, ReserveCases

\* The other process operations and the supervisors only take processes away.
LEMMA ProcessMoves ==
    ASSUME OrphanInv, NEW r \in Requests,
           \/ ChecksRefuse(r) \/ SpawnSucceeds(r) \/ SpawnFails(r) \/ OperateOnProcess(r)
    PROVE  CascadeSees' /\ OrphansDoomed' /\ TerminatedIsGone'
  <1>0. /\ IsProcessTable(procs) /\ req \in [Requests -> Request] /\ Shape
    BY DEF OrphanInv, TypeInv, TypeOK
  <1>1. sessions' = sessions /\ req[r].pc \in {"enter", "act", "spawn"} /\ req[r].op # "terminate_session"
    BY <1>0 DEF ChecksRefuse, SpawnSucceeds, SpawnFails, OperateOnProcess, Shape, ProcessOps
  <1>2. Wanes
    <2>1. CASE ChecksRefuse(r)
      BY <2>1, UnchangedWanes DEF ChecksRefuse
    <2>2. CASE SpawnSucceeds(r)
      BY <1>0, <2>2 DEF SpawnSucceeds, Wanes, Spared, IsProcessTable, ProcessEntry
    <2>3. CASE SpawnFails(r)
      BY <2>3 DEF SpawnFails, Wanes, Spared, Drop
    <2>4. CASE OperateOnProcess(r)
      <3>1. PICK p \in ProcIds : procs' = RequestKill(procs, p) \/ procs' = procs
        BY <2>4 DEF OperateOnProcess
      <3>2. CASE procs' = procs
        BY <3>2, UnchangedWanes
      <3>3. CASE procs' = RequestKill(procs, p)
        BY <1>0, <3>3, KillTable DEF Wanes, Spared
      <3>4. QED
        BY <3>1, <3>2, <3>3
    <2>5. QED
      BY <2>1, <2>2, <2>3, <2>4
  <1>3. CASE \E reply \in Results \cup {"refused"} : Finish(r, reply, {})
    BY <1>1, <1>2, <1>3, FinishMoves
  <1>4. CASE \E p \in ProcIds :
               req' = [req EXCEPT ![r].pc = "reply", ![r].reply = "ok", ![r].pid = p]
    <2>1. /\ req'[r].pc = "reply" /\ req'[r].op = req[r].op
          /\ \A q \in Requests : q # r => req'[q] = req[q]
      BY <1>0, <1>4 DEF Request
    <2>2. ~Terminated(r)' /\ \A p \in ProcIds : ~WillKill(r, p)
      BY <1>1, <2>1 DEF Terminated, WillKill
    <2>3. QED
      BY <1>1, <1>2, <2>1, <2>2, RequestMoves
  <1>5. QED
    BY <1>3, <1>4 DEF ChecksRefuse, SpawnSucceeds, SpawnFails, OperateOnProcess, Results

\* The initial state satisfies the orphan invariant.
LEMMA OrphanInit == Init => OrphanInv
  <1> SUFFICES ASSUME Init PROVE OrphanInv
    OBVIOUS
  <1>1. TypeInv
    BY TypeInit
  <1>2. SessionsBounded
    BY FS_EmptySet, SessionConfigAssumption DEF Init, SessionsBounded
  <1>3. CascadeSees /\ OrphansDoomed /\ TerminatedIsGone
    BY DEF Init, CascadeSees, OrphansDoomed, TerminatedIsGone, Spared, Terminated, Idle
  <1>4. QED
    BY <1>1, <1>2, <1>3 DEF OrphanInv

\* Every step preserves the orphan invariant.
LEMMA OrphanStep ==
    ASSUME ~CsprngMayFail
    PROVE  OrphanInv /\ [Next]_vars => OrphanInv'
  <1> SUFFICES ASSUME OrphanInv, [Next]_vars PROVE OrphanInv'
    OBVIOUS
  <1>1. TypeInv'
    BY TypeStep DEF OrphanInv
  <1>2. SessionsBounded'
    BY BoundStep DEF OrphanInv
  <1>3. CascadeSees' /\ OrphansDoomed' /\ TerminatedIsGone'
    <2>0. req \in [Requests -> Request] /\ IsProcessTable(procs) /\ CascadeSees /\ OrphansDoomed
          /\ TerminatedIsGone
      BY DEF OrphanInv, TypeInv, TypeOK
    <2>1. ASSUME NEW r \in Requests, Arrive(r) PROVE CascadeSees' /\ OrphansDoomed' /\ TerminatedIsGone'
      <3>1. /\ req'[r].pc = "enter" \/ (req'[r].pc = "reply" /\ req'[r].reply = "refused")
            /\ \A q \in Requests : q # r => req'[q] = req[q]
        BY <2>0, <2>1 DEF Arrive, Idle
      <3>2. Wanes /\ sessions' = sessions /\ req[r].pc = "idle"
        BY <2>1, UnchangedWanes DEF Arrive
      <3>3. ~Terminated(r)' /\ \A p \in ProcIds : ~WillKill(r, p)
        BY <3>1, <3>2 DEF Terminated, WillKill
      <3>4. QED
        BY <3>1, <3>2, <3>3, RequestMoves
    <2>2. ASSUME NEW r \in Requests, HandlerStep(r) PROVE CascadeSees' /\ OrphansDoomed' /\ TerminatedIsGone'
      BY <2>2, CreateMoves, TouchMoves, KillMoves, RemoveMoves, ReserveMoves, ProcessMoves
         DEF HandlerStep
    <2>3. ASSUME Wanes, UNCHANGED <<sessions, req>> PROVE CascadeSees' /\ OrphansDoomed' /\ TerminatedIsGone'
      BY <2>0, <2>3 DEF Wanes, CascadeSees, OrphansDoomed, TerminatedIsGone, KillPending, WillKill,
                        Terminated
    <2>4. ASSUME NEW p \in ProcIds, SupervisorStep(p) \/ ChildExits(p)
          PROVE  Wanes /\ UNCHANGED <<sessions, req>>
      BY <2>0, <2>4 DEF SupervisorStep, KillChild, Publish, ChildExits, Wanes, Spared,
                        IsProcessTable, ProcessEntry
    <2>5. CASE Tick \/ UNCHANGED vars
      BY <2>3, <2>5, UnchangedWanes DEF Tick, vars
    <2>6. QED
      BY <2>1, <2>2, <2>3, <2>4, <2>5 DEF Next
  <1>4. QED
    BY <1>1, <1>2, <1>3 DEF OrphanInv

\* As long as ids can be drawn, no live process is forgotten (NoSilentOrphan):
\* every removal of a session record is followed by the kill of its processes,
\* but for those whose own execute raced the removal.
THEOREM NoSilentOrphanTheorem ==
    ASSUME ~CsprngMayFail
    PROVE  Spec => []NoSilentOrphan
  <1>1. OrphanInv => NoSilentOrphan
    BY DEF OrphanInv, TypeInv, TypeOK, IsProcessTable, OrphansDoomed, NoSilentOrphan,
           Unreachable, Spared
  <1>2. QED
    BY OrphanInit, OrphanStep, <1>1, PTL DEF Spec

\* Kill-then-remove (CascadeComplete): a successful terminate_session leaves no
\* process of its session running without its kill flag, but for late ones.
THEOREM CascadeCompleteTheorem ==
    ASSUME ~CsprngMayFail
    PROVE  Spec => []CascadeComplete
  <1>1. OrphanInv => CascadeComplete
    BY DEF OrphanInv, TypeInv, TypeOK, IsProcessTable, TerminatedIsGone, CascadeComplete,
           Spared, Terminated
  <1>2. QED
    BY OrphanInit, OrphanStep, <1>1, PTL DEF Spec
=============================================================================
