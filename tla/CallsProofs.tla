---------------------------- MODULE CallsProofs -----------------------------
(***************************************************************************)
(* Proofs about Calls, for any set of calls, any commands and contents and *)
(* any limits: types, whole messages only, at most one execution per call, *)
(* clean failures, and no session handle lost.                             *)
(***************************************************************************)
EXTENDS Calls, TLAPS

-----------------------------------------------------------------------------
(* The inductive invariant *)

Sids == SessionIds \cup {NoSession}

CallRec == [pc : {"new", "send", "await", "stalled", "ended"}, sid : Sids, result : Results,
            handled : Nat]

ReplyRec == [ok : BOOLEAN, payload : RpcRequest \cup {"none"}, sid : Sids]

Links == {"down", "up", "silent"}

ConnRec == [link : Links, srv : {"none", "prefix", "body", "handle", "write", "gone"},
            req : Stages, reqlen : Nat, rep : Stages, replen : Nat, reply : ReplyRec]

\* A success answers the request that was made, and tells only of sessions that
\* the daemon has made.
GoodReply(c) ==
    conn[c].reply.ok =>
        /\ conn[c].reply.payload = Op(c)
        /\ Op(c) \in {"create_session", "get_session"} => conn[c].reply.sid \in issued

\* How far the daemon's task has come.
TaskOf(c) ==
    /\ conn[c].srv \in {"none", "prefix", "body", "handle"}
           => conn[c].rep = "none" /\ call[c].handled = 0
    /\ conn[c].srv = "write" => call[c].handled = 1 /\ conn[c].rep # "whole" /\ GoodReply(c)
    /\ conn[c].srv \in {"body", "handle", "write"} => conn[c].reqlen <= MaxPayload
    /\ conn[c].srv \in {"handle", "write"} => conn[c].req = "whole"
    /\ conn[c].rep # "none"
           => call[c].handled = 1 /\ conn[c].replen <= MaxPayload /\ GoodReply(c)
    /\ call[c].handled <= 1

\* What the client has learnt.
ResultOf(c) ==
    /\ call[c].result = "none" <=> call[c].pc # "ended"
    /\ call[c].pc = "new" => conn[c].srv = "none"
    /\ call[c].result \in {"local", "panic"} => conn[c].srv = "none"
    /\ call[c].result \in {"ok", "rpc_error"} /\ Op(c) # "none" => conn[c].rep = "whole"
    /\ call[c].result = "ok" /\ Op(c) # "none" => conn[c].reply.ok
    /\ call[c].result \notin {"framing", "unexpected"}

\* No session the adapter was told of is forgotten unless it was ended.
Remembered == \A s \in SessionIds : Told(s) # {} => s \in cache \/ EndedBy(s) # {}

CallsInv ==
    /\ script \in Scripts
    /\ call \in [DOMAIN script -> CallRec]
    /\ conn \in [DOMAIN script -> ConnRec]
    /\ live \subseteq issued
    /\ issued \subseteq SessionIds
    /\ cache \subseteq issued
    /\ \A c \in DOMAIN script : TaskOf(c) /\ ResultOf(c)
    /\ Remembered

-----------------------------------------------------------------------------
(* Commands *)

\* The ways commands are put together.
LEMMA FrontFacts ==
    \A op, checks :
        /\ Cli(op, checks).front = "cli" /\ Cli(op, checks).op = op
        /\ Adapter(op, checks).front = "adapter" /\ Adapter(op, checks).op = op
  BY DEF Cli, Adapter

\* Commands of the command line.
LEMMA CliCommand ==
    ASSUME NEW cmd \in Commands
    PROVE  cmd.front = "cli" /\ cmd.op \in RpcRequest \cup {"none"}
  <1>1. \E op \in RpcRequest \cup {"none"} : \E checks : cmd = Cli(op, checks)
    BY DEF Commands, FsCommands, ProcCommands, SessCommands, Connect, Doctor, Env, Fingerprint,
           FsRead, FsList, FsMetadata, FsWrite, FsMkdir, FsMv, FsRm, ProcRun, ProcStatus, ProcWait,
           ProcKill, SessCreate, SessShow, SessList, SessRm,
           RpcRequest, ReadMethods, ProcessMethods, SessionMethods, WriteMethods
  <1>2. QED
    BY <1>1, FrontFacts

\* Calls of the agent adapter: only one of them ends a session.
LEMMA AdapterCommand ==
    ASSUME NEW cmd \in AdapterCommands
    PROVE  /\ cmd.front = "adapter" /\ cmd.op \in RpcRequest
           /\ cmd.op = "terminate_session" => cmd = EnvTerminateSession
  <1>1. HandleWaitInfinite.front = "adapter" /\ HandleWaitInfinite.op = "wait_process"
    BY DEF HandleWaitInfinite, HandleWait, Adapter
  <1>2. CASE cmd = HandleWaitInfinite
    BY <1>1, <1>2 DEF RpcRequest, ProcessMethods
  <1>3. CASE cmd = EnvTerminateSession
    BY <1>3, FrontFacts DEF EnvTerminateSession, RpcRequest, SessionMethods
  <1>4. CASE \E op \in RpcRequest \ {"terminate_session"} : \E checks : cmd = Adapter(op, checks)
    BY <1>4, FrontFacts
  <1>5. cmd \in EnvFiles \cup HandleFiles
          => \E op \in RpcRequest \ {"terminate_session"} : \E checks : cmd = Adapter(op, checks)
    BY DEF EnvFiles, HandleFiles, RpcRequest, ReadMethods, WriteMethods
  <1>6. cmd \in {EnvConnect, EnvExecute, EnvCreateSession, EnvResumeSession, EnvListSessions,
                 HandleExecute, HandleWait, HandleStatus, HandleTerminate}
          => \E op \in RpcRequest \ {"terminate_session"} : \E checks : cmd = Adapter(op, checks)
    BY DEF EnvConnect, EnvExecute, EnvCreateSession, EnvResumeSession, EnvListSessions,
           HandleExecute, HandleWait, HandleStatus, HandleTerminate,
           RpcRequest, ReadMethods, ProcessMethods, SessionMethods
  <1>7. QED
    BY <1>2, <1>3, <1>4, <1>5, <1>6 DEF AdapterCommands

\* The commands that tell the adapter of a session and that end one.
LEMMA SessionCommands ==
    /\ EnvCreateSession.front = "adapter" /\ EnvCreateSession.op = "create_session"
    /\ EnvResumeSession.front = "adapter" /\ EnvResumeSession.op = "get_session"
    /\ EnvTerminateSession.front = "adapter" /\ EnvTerminateSession.op = "terminate_session"
  BY FrontFacts DEF EnvCreateSession, EnvResumeSession, EnvTerminateSession

-----------------------------------------------------------------------------
(* One call moves *)

\* What is known of a call.
LEMMA CallFacts ==
    ASSUME CallsInv, NEW c \in DOMAIN script
    PROVE  /\ call \in [DOMAIN script -> CallRec] /\ conn \in [DOMAIN script -> ConnRec]
           /\ call[c] \in CallRec /\ conn[c] \in ConnRec /\ TaskOf(c) /\ ResultOf(c)
           /\ script[c] \in Script /\ Op(c) \in RpcRequest \cup {"none"}
           /\ script[c].cmd \in Commands \cup AdapterCommands
           /\ live \subseteq issued /\ issued \subseteq SessionIds /\ cache \subseteq issued
           /\ Remembered
  <1>1. /\ call \in [DOMAIN script -> CallRec] /\ conn \in [DOMAIN script -> ConnRec]
        /\ TaskOf(c) /\ ResultOf(c) /\ script \in Scripts
        /\ live \subseteq issued /\ issued \subseteq SessionIds /\ cache \subseteq issued
        /\ Remembered
    BY DEF CallsInv
  <1>2. script \in [DOMAIN script -> Script]
    BY <1>1, ScriptsAssumption
  <1>3. script[c] \in Script
    BY <1>2
  <1>4. script[c].cmd \in Commands \cup AdapterCommands
    BY <1>3 DEF Script
  <1>5. script[c].cmd.op \in RpcRequest \cup {"none"}
    BY <1>4, CliCommand, AdapterCommand
  <1>6. call[c] \in CallRec /\ conn[c] \in ConnRec
    BY <1>1
  <1>7. QED
    BY <1>1, <1>3, <1>4, <1>5, <1>6 DEF Op

\* A step of one call needs checking for that call only.
LEMMA OneCall ==
    ASSUME CallsInv, NEW c \in DOMAIN script, script' = script,
           NEW k \in CallRec, call' = [call EXCEPT ![c] = k],
           NEW n \in ConnRec, conn' = [conn EXCEPT ![c] = n],
           live' \subseteq issued', issued \subseteq issued', issued' \subseteq SessionIds,
           cache' \subseteq issued', TaskOf(c)', ResultOf(c)', Remembered'
    PROVE  CallsInv'
  <1>1. /\ call \in [DOMAIN script -> CallRec] /\ conn \in [DOMAIN script -> ConnRec]
        /\ script \in Scripts
    BY DEF CallsInv
  <1>2. /\ call' \in [DOMAIN script -> CallRec] /\ conn' \in [DOMAIN script -> ConnRec]
        /\ \A q \in DOMAIN script : q # c => call'[q] = call[q] /\ conn'[q] = conn[q]
    BY <1>1
  <1>3. ASSUME NEW q \in DOMAIN script PROVE TaskOf(q)' /\ ResultOf(q)'
    <2>1. CASE q = c
      BY <2>1
    <2>2. CASE q # c
      <3>1. /\ TaskOf(q) /\ ResultOf(q) /\ call'[q] = call[q] /\ conn'[q] = conn[q]
            /\ Op(q)' = Op(q)
        BY <1>2, <2>2 DEF CallsInv, Op
      <3>2. GoodReply(q) => GoodReply(q)'
        BY <3>1 DEF GoodReply
      <3>3. TaskOf(q)'
        BY <3>1, <3>2 DEF TaskOf
      <3>4. ResultOf(q)'
        BY <3>1 DEF ResultOf
      <3>5. QED
        BY <3>3, <3>4
    <2>3. QED
      BY <2>1, <2>2
  <1>4. QED
    BY <1>1, <1>2, <1>3 DEF CallsInv

\* The client has been told of success by the daemon.
Claims(c) == call[c].result = "ok" /\ Op(c) # "none"

\* The handles are remembered when no call learns of a success and none of those
\* that have changes.
LEMMA StillRemembered ==
    ASSUME CallsInv, script' = script, cache' = cache,
           \A c \in DOMAIN script :
              \/ ~Claims(c) /\ ~Claims(c)'
              \/ call'[c].result = call[c].result /\ conn'[c].reply = conn[c].reply
    PROVE  Remembered'
  <1>1. ASSUME NEW s \in SessionIds PROVE Told(s)' = Told(s) /\ EndedBy(s)' = EndedBy(s)
    <2>1. ASSUME NEW c \in DOMAIN script,
                 script[c].cmd \in {EnvCreateSession, EnvResumeSession, EnvTerminateSession}
          PROVE  (call'[c].result = "ok" /\ conn'[c].reply.sid = s)
                     <=> (call[c].result = "ok" /\ conn[c].reply.sid = s)
      <3>1. Op(c) # "none" /\ Op(c)' = Op(c)
        BY <2>1, SessionCommands DEF Op
      <3>2. QED
        BY <3>1 DEF Claims
    <2>2. QED
      BY <2>1 DEF Told, EndedBy
  <1>2. QED
    BY <1>1 DEF CallsInv, Remembered

\* A step of the network or of the daemon's task, without the handler.
LEMMA ConnStep ==
    ASSUME CallsInv, NEW c \in DOMAIN script, NEW n \in ConnRec, conn' = [conn EXCEPT ![c] = n],
           UNCHANGED <<script, call, live, issued, cache>>,
           n.reply = conn[c].reply \/ conn[c].rep # "whole",
           TaskOf(c)', ResultOf(c)'
    PROVE  CallsInv'
  <1>0. /\ call \in [DOMAIN script -> CallRec] /\ conn \in [DOMAIN script -> ConnRec]
        /\ call[c] \in CallRec /\ ResultOf(c)
        /\ live \subseteq issued /\ issued \subseteq SessionIds /\ cache \subseteq issued
    BY CallFacts
  <1>1. call' = [call EXCEPT ![c] = call[c]]
    BY <1>0
  <1>2. conn'[c] = n /\ \A q \in DOMAIN script : q # c => conn'[q] = conn[q]
    BY <1>0
  <1>3. conn[c].rep # "whole" => ~Claims(c) /\ ~Claims(c)'
    BY <1>0 DEF ResultOf, Claims, Op
  <1>4. Remembered'
    <2>1. ASSUME NEW q \in DOMAIN script
          PROVE  \/ ~Claims(q) /\ ~Claims(q)'
                 \/ call'[q].result = call[q].result /\ conn'[q].reply = conn[q].reply
      <3>1. CASE q = c
        BY <1>2, <1>3, <3>1
      <3>2. CASE q # c
        BY <1>2, <3>2
      <3>3. QED
        BY <3>1, <3>2
    <2>2. QED
      BY <2>1, StillRemembered
  <1>5. QED
    BY <1>0, <1>1, <1>4, OneCall

\* A call ends.
LEMMA EndStep ==
    ASSUME CallsInv, NEW c \in DOMAIN script, call[c].pc # "ended",
           NEW r \in Results \ {"none", "framing", "unexpected"}, Ended(c, r),
           UNCHANGED <<script, conn, live, issued>>,
           r \in {"local", "panic"} => conn[c].srv = "none",
           r \in {"ok", "rpc_error"} /\ Op(c) # "none" => conn[c].rep = "whole",
           r = "ok" /\ Op(c) # "none" => conn[c].reply.ok,
           cache' \subseteq issued, Remembered'
    PROVE  CallsInv'
  <1>0. /\ call \in [DOMAIN script -> CallRec] /\ conn \in [DOMAIN script -> ConnRec]
        /\ call[c] \in CallRec /\ conn[c] \in ConnRec /\ TaskOf(c) /\ ResultOf(c)
        /\ live \subseteq issued /\ issued \subseteq SessionIds
    BY CallFacts
  <1> DEFINE k == [call[c] EXCEPT !.pc = "ended", !.result = r]
  <1>1. k \in CallRec /\ k.pc = "ended" /\ k.result = r /\ k.handled = call[c].handled
    BY <1>0 DEF CallRec
  <1>2. call' = [call EXCEPT ![c] = k]
    BY DEF Ended
  <1> HIDE DEF k
  <1>3. call'[c] = k /\ conn' = [conn EXCEPT ![c] = conn[c]] /\ conn'[c] = conn[c]
    BY <1>0, <1>2
  <1>4. TaskOf(c)'
    BY <1>0, <1>1, <1>3 DEF TaskOf, GoodReply, Op
  <1>5. ResultOf(c)'
    BY <1>0, <1>1, <1>3 DEF ResultOf, Op
  <1>6. QED
    BY <1>0, <1>1, <1>2, <1>3, <1>4, <1>5, OneCall

\* A call ends without being told of success.
LEMMA EndQuietly ==
    ASSUME CallsInv, NEW c \in DOMAIN script, call[c].pc # "ended",
           NEW r \in {"local", "panic", "connection", "timeout"}, Ended(c, r),
           UNCHANGED <<script, conn, live, issued, cache>>,
           r \in {"local", "panic"} => conn[c].srv = "none"
    PROVE  CallsInv'
  <1>0. call \in [DOMAIN script -> CallRec] /\ call[c] \in CallRec /\ ResultOf(c) /\ cache \subseteq issued
    BY CallFacts
  <1>1. /\ call'[c].result = r
        /\ \A q \in DOMAIN script : q # c => call'[q] = call[q]
    BY <1>0 DEF Ended, CallRec
  <1>2. ~Claims(c) /\ ~Claims(c)'
    BY <1>0, <1>1 DEF Claims, ResultOf
  <1>3. Remembered'
    BY <1>1, <1>2, StillRemembered
  <1>4. r \in Results \ {"none", "framing", "unexpected"}
    BY DEF Results
  <1>5. QED
    BY <1>0, <1>3, <1>4, EndStep

-----------------------------------------------------------------------------
(* The client *)

\* A message has a length.
LEMMA EncodedFacts ==
    ASSUME NEW b \in Nat
    PROVE  Encoded(b) \subseteq Nat
  <1>1. Envelope \in Nat
    BY CallsAssumption
  <1>2. Encoded(b) = {Envelope + k * b : k \in {2, 3, 4}}
    <2>1. 2..4 = {2, 3, 4}
      OBVIOUS
    <2>2. QED
      BY <2>1 DEF Encoded
  <1>3. Envelope + 2 * b \in Nat /\ Envelope + 3 * b \in Nat /\ Envelope + 4 * b \in Nat
    BY <1>1
  <1>4. QED
    BY <1>2, <1>3

\* The reply that reports a failure.
LEMMA NoReplyFacts == NoReply \in ReplyRec /\ NoReply.ok = FALSE
  <1>1. \A v \in BOOLEAN : [ok |-> v, payload |-> "none", sid |-> NoSession] \in ReplyRec
    BY DEF ReplyRec, Sids
  <1>2. NoReply \in ReplyRec
    BY <1>1 DEF NoReply
  <1>3. NoReply.ok = FALSE
    BY DEF NoReply
  <1>4. QED
    BY <1>2, <1>3

\* No connection.
LEMMA NoConnFacts ==
    /\ NoConn \in ConnRec /\ NoConn.srv = "none" /\ NoConn.rep = "none" /\ NoConn.req = "none"
  <1>1. \A v \in Links, r \in ReplyRec :
           [link |-> v, srv |-> "none", req |-> "none", reqlen |-> 0,
            rep |-> "none", replen |-> 0, reply |-> r] \in ConnRec
    BY DEF ConnRec, Stages
  <1>2. NoConn \in ConnRec
    BY <1>1, NoReplyFacts DEF NoConn, Links
  <1>3. NoConn.srv = "none" /\ NoConn.rep = "none" /\ NoConn.req = "none"
    BY DEF NoConn
  <1>4. QED
    BY <1>2, <1>3

\* A call that asks nobody or is refused before anything is sent.
LEMMA RunLocallyStep ==
    ASSUME CallsInv, NEW c \in DOMAIN script, RunLocally(c)
    PROVE  CallsInv'
  <1>0. /\ call \in [DOMAIN script -> CallRec] /\ call[c] \in CallRec /\ ResultOf(c)
        /\ cache \subseteq issued
    BY CallFacts
  <1>1. call[c].pc = "new" /\ UNCHANGED <<script, conn, live, issued, cache>>
    BY DEF RunLocally
  <1>2. conn[c].srv = "none"
    BY <1>0, <1>1 DEF ResultOf
  <1>3. CASE Refused(c)
    <2>1. Ended(c, "local") \/ Ended(c, "panic")
      BY <1>3 DEF RunLocally
    <2>2. QED
      BY <1>1, <1>2, <2>1, EndQuietly
  <1>4. CASE ~Refused(c)
    <2>1. Ended(c, "ok") /\ Op(c) = "none"
      BY <1>4 DEF RunLocally
    <2>2. \A q \in DOMAIN script : q # c => call'[q] = call[q]
      BY <1>0, <2>1 DEF Ended
    <2>3. ~Claims(c) /\ ~Claims(c)'
      BY <1>1, <2>1 DEF Claims, Op
    <2>4. Remembered'
      BY <1>1, <2>2, <2>3, StillRemembered
    <2>5. "ok" \in Results \ {"none", "framing", "unexpected"}
      BY DEF Results
    <2>6. QED
      BY <1>0, <1>1, <2>1, <2>4, <2>5, EndStep
  <1>5. QED
    BY <1>3, <1>4

\* Connecting.
LEMMA SendStep ==
    ASSUME CallsInv, NEW c \in DOMAIN script, send_rpc(c)
    PROVE  CallsInv'
  <1>0. /\ call \in [DOMAIN script -> CallRec] /\ conn \in [DOMAIN script -> ConnRec]
        /\ call[c] \in CallRec /\ conn[c] \in ConnRec /\ TaskOf(c) /\ ResultOf(c)
        /\ script[c] \in Script
        /\ live \subseteq issued /\ issued \subseteq SessionIds /\ cache \subseteq issued
    BY CallFacts
  <1>1. call[c].pc = "new" /\ UNCHANGED <<script, live, issued, cache>>
    BY DEF send_rpc
  <1>2. CASE Ended(c, "connection") /\ UNCHANGED conn
    BY <1>1, <1>2, EndQuietly
  <1>3. CASE \E s \in SessionIds, n \in Encoded(script[c].content) :
               /\ call' = [call EXCEPT ![c].pc = "send", ![c].sid = s]
               /\ conn' = [conn EXCEPT ![c] = [NoConn EXCEPT !.link = "up", !.srv = "prefix",
                                                             !.reqlen = n]]
    <2>1. PICK s \in SessionIds, n \in Encoded(script[c].content) :
               /\ call' = [call EXCEPT ![c].pc = "send", ![c].sid = s]
               /\ conn' = [conn EXCEPT ![c] = [NoConn EXCEPT !.link = "up", !.srv = "prefix",
                                                             !.reqlen = n]]
      BY <1>3
    <2>2. n \in Nat
      <3>1. script[c].content \in Nat
        BY <1>0 DEF Script
      <3>2. QED
        BY <2>1, <3>1, EncodedFacts
    <2> DEFINE k == [call[c] EXCEPT !.pc = "send", !.sid = s]
               u == [NoConn EXCEPT !.link = "up"]
               w == [u EXCEPT !.srv = "prefix", !.reqlen = n]
    <2>3. k \in CallRec /\ k.pc = "send" /\ k.result = call[c].result /\ k.handled = call[c].handled
      BY <1>0 DEF CallRec, Sids
    <2>4. u \in ConnRec /\ u.rep = "none"
      BY NoConnFacts DEF ConnRec, Links
    <2>5. call' = [call EXCEPT ![c] = k] /\ conn' = [conn EXCEPT ![c] = w]
      BY <2>1
    <2> HIDE DEF u, k
    <2>6. w \in ConnRec /\ w.srv = "prefix" /\ w.rep = "none"
      BY <2>2, <2>4 DEF ConnRec
    <2> HIDE DEF w
    <2>7. /\ call'[c] = k /\ conn'[c] = w
          /\ \A q \in DOMAIN script : q # c => call'[q] = call[q] /\ conn'[q] = conn[q]
      BY <1>0, <2>5
    <2>8. call[c].result = "none" /\ call[c].handled = 0
      BY <1>0, <1>1 DEF ResultOf, TaskOf
    <2>9. TaskOf(c)'
      BY <2>3, <2>6, <2>7, <2>8 DEF TaskOf
    <2>10. ResultOf(c)'
      BY <2>3, <2>6, <2>7, <2>8 DEF ResultOf
    <2>11. ~Claims(c) /\ ~Claims(c)'
      BY <2>3, <2>7, <2>8 DEF Claims
    <2>12. Remembered'
      BY <1>1, <2>7, <2>11, StillRemembered
    <2>13. QED
      BY <1>0, <1>1, <2>3, <2>5, <2>6, <2>9, <2>10, <2>12, OneCall
  <1>4. QED
    BY <1>2, <1>3 DEF send_rpc

\* Writing the request.
LEMMA WriteMessageStep ==
    ASSUME CallsInv, NEW c \in DOMAIN script, write_message(c)
    PROVE  CallsInv'
  <1>0. /\ call \in [DOMAIN script -> CallRec] /\ conn \in [DOMAIN script -> ConnRec]
        /\ call[c] \in CallRec /\ conn[c] \in ConnRec /\ TaskOf(c) /\ ResultOf(c)
        /\ live \subseteq issued /\ issued \subseteq SessionIds /\ cache \subseteq issued
    BY CallFacts
  <1> DEFINE lost == conn[c].link = "silent"
             f == IF lost THEN conn[c].req ELSE Further(conn[c].req)
             g == IF lost \/ conn[c].req = "prefix" THEN "await" ELSE "send"
             k == [call[c] EXCEPT !.pc = g]
             w == [conn[c] EXCEPT !.req = f]
  <1>1. /\ call[c].pc = "send" /\ UNCHANGED <<script, live, issued, cache>>
        /\ conn' = [conn EXCEPT ![c].req = f]
        /\ call' = [call EXCEPT ![c].pc = g]
    BY DEF write_message
  <1>2. f \in Stages /\ (conn[c].req = "whole" => f = "whole") /\ g \in {"await", "send"}
    BY <1>0 DEF Further, Stages, ConnRec
  <1>3. call' = [call EXCEPT ![c] = k] /\ conn' = [conn EXCEPT ![c] = w]
    BY <1>1
  <1> HIDE DEF f, g
  <1>4. k \in CallRec /\ k.pc = g /\ k.result = call[c].result /\ k.handled = call[c].handled
    BY <1>0, <1>2 DEF CallRec
  <1>5. /\ w \in ConnRec /\ w.srv = conn[c].srv /\ w.rep = conn[c].rep /\ w.req = f
        /\ w.reqlen = conn[c].reqlen /\ w.replen = conn[c].replen /\ w.reply = conn[c].reply
    BY <1>0, <1>2 DEF ConnRec
  <1> HIDE DEF k, w
  <1>6. /\ call'[c] = k /\ conn'[c] = w
        /\ \A q \in DOMAIN script : q # c => call'[q] = call[q] /\ conn'[q] = conn[q]
    BY <1>0, <1>3
  <1>7. GoodReply(c) => GoodReply(c)'
    BY <1>1, <1>5, <1>6 DEF GoodReply, Op
  <1>8. TaskOf(c)'
    BY <1>0, <1>2, <1>4, <1>5, <1>6, <1>7 DEF TaskOf
  <1>9. ResultOf(c)'
    BY <1>0, <1>1, <1>2, <1>4, <1>5, <1>6 DEF ResultOf, Op
  <1>10. Remembered'
    BY <1>1, <1>4, <1>5, <1>6, StillRemembered
  <1>11. QED
    BY <1>0, <1>1, <1>3, <1>4, <1>5, <1>8, <1>9, <1>10, OneCall

\* A call whose connection fails, or that is dropped.
LEMMA ClientFailsStep ==
    ASSUME CallsInv, NEW c \in DOMAIN script, ClientFails(c) \/ Abandon(c)
    PROVE  CallsInv'
  <1>1. /\ call[c].pc # "ended" /\ UNCHANGED <<script, conn, live, issued, cache>>
        /\ Ended(c, "connection") \/ Ended(c, "timeout")
    BY DEF ClientFails, Abandon
  <1>2. QED
    BY <1>1, EndQuietly

\* What the client makes of a reply, given what the daemon sends.
LEMMA OutcomeFacts ==
    ASSUME CallsInv, NEW c \in DOMAIN script, conn[c].rep # "none"
    PROVE  /\ Outcome(c) = IF conn[c].reply.ok THEN "ok" ELSE "rpc_error"
           /\ conn[c].replen <= MaxPayload
  <1>0. TaskOf(c) /\ conn[c] \in ConnRec
    BY CallFacts
  <1>1. conn[c].replen <= MaxPayload /\ GoodReply(c) /\ conn[c].replen \in Nat
    BY <1>0 DEF TaskOf, ConnRec
  <1>2. MaxPayload \in Nat
    BY CallsAssumption
  <1>3. ~(conn[c].replen > MaxPayload)
    BY <1>1, <1>2
  <1>4. QED
    BY <1>1, <1>3 DEF Outcome, GoodReply

\* The call returns.  Among those of the adapter, only a success of create_session
\* or get_session adds a handle, and only a success of terminate_session drops one.
LEMMA ReturnStep ==
    ASSUME CallsInv, NEW c \in DOMAIN script, Return(c)
    PROVE  CallsInv'
  <1>0. /\ call \in [DOMAIN script -> CallRec] /\ call[c] \in CallRec /\ TaskOf(c) /\ ResultOf(c)
        /\ script[c].cmd \in Commands \cup AdapterCommands /\ Op(c) \in RpcRequest \cup {"none"}
        /\ cache \subseteq issued /\ Remembered
    BY CallFacts
  <1>1. /\ call[c].pc = "await" /\ conn[c].rep # "none"
        /\ UNCHANGED <<script, conn, live, issued>>
        /\ conn[c].rep = "whole" \/ conn[c].replen > MaxPayload
        /\ cache' = Cached(c, Outcome(c))
    BY DEF Return
  <1>2. /\ Outcome(c) = IF conn[c].reply.ok THEN "ok" ELSE "rpc_error"
        /\ conn[c].replen <= MaxPayload
    BY <1>1, OutcomeFacts
  <1>3. conn[c].rep = "whole"
    <2>1. conn[c].replen \in Nat /\ MaxPayload \in Nat
      BY CallFacts, CallsAssumption DEF ConnRec
    <2>2. QED
      BY <1>1, <1>2, <2>1
  <1>4. PICK r \in {"ok", "rpc_error", "stdout"} :
           /\ Ended(c, r)
           /\ r = "rpc_error" => ~conn[c].reply.ok
           /\ r # "rpc_error" => conn[c].reply.ok
           /\ r = "stdout" => script[c].cmd \in {FsRead, ProcWait}
    BY <1>2 DEF Return
  <1>5. /\ call'[c].result = r
        /\ \A q \in DOMAIN script : q # c => call'[q] = call[q]
    BY <1>0, <1>4 DEF Ended, CallRec
  <1>6. GoodReply(c)
    BY <1>0, <1>1 DEF TaskOf
  <1>7. r = "stdout" => script[c].cmd.front = "cli"
    BY <1>4, FrontFacts DEF FsRead, ProcWait
  <1>8. cache' \subseteq issued /\ Remembered'
    <2>0. call[c].result = "none" /\ ~Claims(c)
      BY <1>0, <1>1 DEF ResultOf, Claims
    <2>1. CASE r # "ok" \/ script[c].cmd.front = "cli"
      <3>1. cache' = cache
        BY <1>1, <1>2, <1>4, <1>7, <2>1 DEF Cached
      <3>2. ASSUME NEW s \in SessionIds PROVE Told(s)' = Told(s) /\ EndedBy(s)' = EndedBy(s)
        <4>1. script[c].cmd \in {EnvCreateSession, EnvResumeSession, EnvTerminateSession}
                => call'[c].result # "ok"
          BY <1>5, <2>1, SessionCommands
        <4>2. call[c].result # "ok"
          BY <2>0
        <4>3. QED
          BY <1>1, <1>5, <4>1, <4>2 DEF Told, EndedBy
      <3>3. QED
        BY <1>0, <3>1, <3>2 DEF Remembered
    <2>2. CASE r = "ok" /\ script[c].cmd.front # "cli"
      <3> DEFINE t == conn[c].reply.sid
      <3>1. /\ cache' = IF Op(c) \in {"create_session", "get_session"} THEN cache \cup {t}
                        ELSE IF Op(c) = "terminate_session" THEN cache \ {t} ELSE cache
            /\ conn[c].reply.ok
        BY <1>1, <1>2, <1>4, <2>2 DEF Cached
      <3>2. cache' \subseteq issued
        BY <1>0, <1>6, <3>1 DEF GoodReply
      <3>3. script[c].cmd \in AdapterCommands
        BY <1>0, <2>2, CliCommand
      <3>4. Op(c) = "terminate_session" => script[c].cmd = EnvTerminateSession
        BY <3>3, AdapterCommand DEF Op
      <3>5. script[c].cmd \in {EnvCreateSession, EnvResumeSession}
              => Op(c) \in {"create_session", "get_session"}
        BY SessionCommands DEF Op
      <3>6. ASSUME NEW s \in SessionIds, Told(s)' # {} PROVE s \in cache' \/ EndedBy(s)' # {}
        <4>1. EndedBy(s) \subseteq EndedBy(s)'
          BY <1>1, <1>5, <2>0 DEF EndedBy
        <4>2. CASE s = t /\ Op(c) = "terminate_session"
          <5>1. c \in EndedBy(s)'
            BY <1>1, <1>5, <2>2, <3>4, <4>2 DEF EndedBy
          <5>2. QED
            BY <5>1
        <4>3. CASE s = t /\ Op(c) \in {"create_session", "get_session"}
          BY <3>1, <4>3
        <4>4. CASE c \notin Told(s)' /\ ~(s = t /\ Op(c) = "terminate_session")
          <5>1. Told(s)' \subseteq Told(s)
            BY <1>1, <1>5, <4>4 DEF Told
          <5>2. s \in cache \/ EndedBy(s) # {}
            BY <1>0, <3>6, <5>1 DEF Remembered
          <5>3. s \in cache => s \in cache'
            BY <3>1, <4>4
          <5>4. QED
            BY <4>1, <5>2, <5>3
        <4>5. c \in Told(s)' => s = t /\ Op(c) \in {"create_session", "get_session"}
          BY <1>1, <3>5 DEF Told
        <4>6. QED
          BY <4>2, <4>3, <4>4, <4>5
      <3>7. QED
        BY <3>2, <3>6 DEF Remembered
    <2>3. QED
      BY <2>1, <2>2
  <1>9. r \in Results \ {"none", "framing", "unexpected"}
    BY <1>4 DEF Results
  <1>10. QED
    BY <1>1, <1>3, <1>4, <1>8, <1>9, EndStep

-----------------------------------------------------------------------------
(* The daemon's task and the network *)

\* The effect of Moves.
LEMMA MovesFacts ==
    ASSUME CallsInv, NEW c \in DOMAIN script, NEW srv \in {"body", "handle", "gone"}, Moves(c, srv)
    PROVE  \E w \in ConnRec :
             /\ conn' = [conn EXCEPT ![c] = w] /\ conn'[c] = w
             /\ w.srv = srv /\ w.rep = conn[c].rep /\ w.req = conn[c].req
             /\ w.reqlen = conn[c].reqlen /\ w.replen = conn[c].replen /\ w.reply = conn[c].reply
  <1>0. conn \in [DOMAIN script -> ConnRec] /\ conn[c] \in ConnRec
    BY CallFacts
  <1> DEFINE w == [conn[c] EXCEPT !.srv = srv]
  <1>1. /\ w \in ConnRec
        /\ w.srv = srv /\ w.rep = conn[c].rep /\ w.req = conn[c].req
        /\ w.reqlen = conn[c].reqlen /\ w.replen = conn[c].replen /\ w.reply = conn[c].reply
    BY <1>0 DEF ConnRec
  <1>2. conn' = [conn EXCEPT ![c] = w]
    BY DEF Moves
  <1> HIDE DEF w
  <1>3. conn'[c] = w
    BY <1>0, <1>2
  <1>4. QED
    BY <1>1, <1>2, <1>3

\* Reading the request, and giving up.
LEMMA ReadStep ==
    ASSUME CallsInv, NEW c \in DOMAIN script, ReadLength(c) \/ ReadBody(c) \/ ServerFails(c)
    PROVE  CallsInv'
  <1>0. call[c] \in CallRec /\ conn[c] \in ConnRec /\ TaskOf(c) /\ ResultOf(c) /\ MaxPayload \in Nat
    BY CallFacts, CallsAssumption
  <1>1. /\ UNCHANGED <<script, call, live, issued, cache>>
        /\ conn[c].srv \in {"prefix", "body", "write"}
    BY DEF ReadLength, ReadBody, ServerFails
  <1>2. PICK srv \in {"body", "handle", "gone"} :
          /\ Moves(c, srv)
          /\ srv = "body" => conn[c].srv = "prefix" /\ conn[c].reqlen <= MaxPayload
          /\ srv = "handle" => conn[c].srv = "body" /\ conn[c].req = "whole"
    <2>1. conn[c].reqlen \in Nat
      BY <1>0 DEF ConnRec
    <2>2. CASE ReadLength(c)
      BY <1>0, <2>1, <2>2 DEF ReadLength
    <2>3. CASE ReadBody(c)
      BY <2>3 DEF ReadBody
    <2>4. CASE ServerFails(c)
      BY <2>4 DEF ServerFails
    <2>5. QED
      BY <2>2, <2>3, <2>4
  <1>3. PICK w \in ConnRec :
             /\ conn' = [conn EXCEPT ![c] = w] /\ conn'[c] = w
             /\ w.srv = srv /\ w.rep = conn[c].rep /\ w.req = conn[c].req
             /\ w.reqlen = conn[c].reqlen /\ w.replen = conn[c].replen /\ w.reply = conn[c].reply
    BY <1>2, MovesFacts
  <1>4. GoodReply(c) => GoodReply(c)'
    BY <1>1, <1>3 DEF GoodReply, Op
  <1>5. TaskOf(c)'
    BY <1>0, <1>1, <1>2, <1>3, <1>4 DEF TaskOf
  <1>6. ResultOf(c)'
    BY <1>0, <1>1, <1>2, <1>3 DEF ResultOf, Op
  <1>7. QED
    BY <1>1, <1>3, <1>5, <1>6, ConnStep

\* The handler runs, once: the task is at "handle" only before the first time.
LEMMA HandleStep ==
    ASSUME CallsInv, NEW c \in DOMAIN script, handle_as(c)
    PROVE  CallsInv'
  <1>0. /\ call \in [DOMAIN script -> CallRec] /\ conn \in [DOMAIN script -> ConnRec]
        /\ call[c] \in CallRec /\ conn[c] \in ConnRec /\ TaskOf(c) /\ ResultOf(c)
        /\ Op(c) \in RpcRequest \cup {"none"}
        /\ live \subseteq issued /\ issued \subseteq SessionIds /\ cache \subseteq issued
    BY CallFacts
  <1>1. /\ conn[c].srv = "handle" /\ script' = script /\ cache' = cache
        /\ call' = [call EXCEPT ![c].handled = @ + 1]
    BY DEF handle_as
  <1>2. conn[c].rep = "none" /\ call[c].handled = 0 /\ Op(c)' = Op(c)
    BY <1>0, <1>1 DEF TaskOf, Op
  <1>3. \E reply \in ReplyRec, len \in Nat :
           /\ conn' = [conn EXCEPT ![c].srv = "write", ![c].replen = len, ![c].reply = reply]
           /\ live' \subseteq issued' /\ issued \subseteq issued' /\ issued' \subseteq SessionIds
           /\ reply.ok => /\ reply.payload = Op(c)
                          /\ Op(c) \in {"create_session", "get_session"} => reply.sid \in issued'
    <2>1. CASE /\ conn' = [conn EXCEPT ![c].srv = "write", ![c].replen = Envelope,
                                        ![c].reply = NoReply]
               /\ UNCHANGED <<live, issued>>
      <3>1. Envelope \in Nat
        BY CallsAssumption
      <3>2. QED
        BY <1>0, <2>1, <3>1, NoReplyFacts
    <2>2. ASSUME NEW s \in SessionIds \cup {NoSession},
                 NEW n \in UNION {Encoded(b) : b \in IF Op(c) \in BulkReplies THEN Bulk ELSE {0}},
                 MaySucceed(c, s),
                 conn' = [conn EXCEPT ![c].srv = "write", ![c].replen = n,
                             ![c].reply = [ok |-> TRUE, payload |-> Payload(Op(c)), sid |-> s]],
                 live' = CASE Op(c) = "create_session" -> live \cup {s}
                           [] Op(c) = "terminate_session" -> live \ {s}
                           [] OTHER -> live,
                 issued' = IF Op(c) = "create_session" THEN issued \cup {s} ELSE issued
          PROVE  \E reply \in ReplyRec, len \in Nat :
                   /\ conn' = [conn EXCEPT ![c].srv = "write", ![c].replen = len, ![c].reply = reply]
                   /\ live' \subseteq issued' /\ issued \subseteq issued' /\ issued' \subseteq SessionIds
                   /\ reply.ok => /\ reply.payload = Op(c)
                                  /\ Op(c) \in {"create_session", "get_session"}
                                        => reply.sid \in issued'
      <3> DEFINE reply == [ok |-> TRUE, payload |-> Payload(Op(c)), sid |-> s]
      <3>1. n \in Nat
        <4>1. PICK b \in IF Op(c) \in BulkReplies THEN Bulk ELSE {0} : n \in Encoded(b)
          BY <2>2
        <4>2. b \in Nat
          BY <4>1, CallsAssumption
        <4>3. QED
          BY <4>1, <4>2, EncodedFacts
      <3>2. /\ reply \in ReplyRec /\ reply.payload = Op(c) /\ reply.sid = s
        <4>1. \A v \in BOOLEAN, p \in RpcRequest \cup {"none"} :
                 [ok |-> v, payload |-> p, sid |-> s] \in ReplyRec
          BY DEF ReplyRec, Sids
        <4>2. reply \in ReplyRec
          BY <1>0, <4>1 DEF Payload
        <4>3. QED
          BY <4>2 DEF Payload
      <3>3. conn' = [conn EXCEPT ![c].srv = "write", ![c].replen = n, ![c].reply = reply]
        BY <2>2
      <3> HIDE DEF reply
      <3>4. /\ Op(c) = "create_session" => s \in SessionIds
            /\ Op(c) = "get_session" => s \in live
        BY <2>2 DEF MaySucceed
      <3>5. issued \subseteq issued' /\ issued' \subseteq SessionIds /\ live' \subseteq issued'
        BY <1>0, <2>2, <3>4
      <3>6. Op(c) \in {"create_session", "get_session"} => s \in issued'
        BY <1>0, <2>2, <3>4
      <3>7. QED
        BY <3>1, <3>2, <3>3, <3>5, <3>6
    <2>3. QED
      BY <2>1, <2>2 DEF handle_as
  <1>4. PICK reply \in ReplyRec, len \in Nat :
           /\ conn' = [conn EXCEPT ![c].srv = "write", ![c].replen = len, ![c].reply = reply]
           /\ live' \subseteq issued' /\ issued \subseteq issued' /\ issued' \subseteq SessionIds
           /\ reply.ok => /\ reply.payload = Op(c)
                          /\ Op(c) \in {"create_session", "get_session"} => reply.sid \in issued'
    BY <1>3
  <1> DEFINE k == [call[c] EXCEPT !.handled = call[c].handled + 1]
             w == [conn[c] EXCEPT !.srv = "write", !.replen = len, !.reply = reply]
  <1>5. call' = [call EXCEPT ![c] = k] /\ conn' = [conn EXCEPT ![c] = w]
    BY <1>1, <1>4
  <1>6. k \in CallRec /\ k.handled = 1 /\ k.pc = call[c].pc /\ k.result = call[c].result
    BY <1>0, <1>2 DEF CallRec
  <1>7. /\ w \in ConnRec /\ w.srv = "write" /\ w.rep = conn[c].rep /\ w.reply = reply
        /\ w.req = conn[c].req /\ w.reqlen = conn[c].reqlen
    BY <1>0, <1>4 DEF ConnRec
  <1> HIDE DEF k, w
  <1>8. /\ call'[c] = k /\ conn'[c] = w
        /\ \A q \in DOMAIN script : q # c => call'[q] = call[q] /\ conn'[q] = conn[q]
    BY <1>0, <1>5
  <1>9. GoodReply(c)'
    BY <1>2, <1>4, <1>7, <1>8 DEF GoodReply
  <1>10. TaskOf(c)'
    BY <1>0, <1>1, <1>2, <1>6, <1>7, <1>8, <1>9 DEF TaskOf
  <1>11. ResultOf(c)'
    BY <1>0, <1>1, <1>2, <1>6, <1>7, <1>8 DEF ResultOf
  <1>12. ~Claims(c) /\ ~Claims(c)'
    BY <1>0, <1>2, <1>6, <1>8 DEF Claims, ResultOf
  <1>13. Remembered'
    BY <1>1, <1>8, <1>12, StillRemembered
  <1>14. cache' \subseteq issued'
    BY <1>0, <1>1, <1>4
  <1>15. QED
    BY <1>1, <1>4, <1>5, <1>6, <1>7, <1>10, <1>11, <1>13, <1>14, OneCall

\* Writing the reply: what does not fit has been replaced before the first byte.
LEMMA WriteResponseStep ==
    ASSUME CallsInv, NEW c \in DOMAIN script, write_response(c)
    PROVE  CallsInv'
  <1>0. /\ call[c] \in CallRec /\ conn \in [DOMAIN script -> ConnRec] /\ conn[c] \in ConnRec
        /\ TaskOf(c) /\ ResultOf(c)
    BY CallFacts
  <1>1. conn[c].srv = "write" /\ UNCHANGED <<script, call, live, issued, cache>> /\ Op(c)' = Op(c)
    BY DEF write_response, Op
  <1>2. conn[c].rep \in {"none", "prefix"} /\ call[c].handled = 1 /\ GoodReply(c)
    BY <1>0, <1>1 DEF TaskOf, ConnRec, Stages
  <1> DEFINE lost == conn[c].link = "silent"
             first == conn[c].rep = "none"
             large == first /\ ~Fits(conn[c].replen)
             p == IF lost THEN conn[c].rep ELSE Further(conn[c].rep)
             v == IF first /\ ~lost THEN "write" ELSE "gone"
             l == IF large THEN Envelope ELSE conn[c].replen
             r == IF large THEN NoReply ELSE conn[c].reply
             w == [conn[c] EXCEPT !.rep = p, !.srv = v, !.replen = l, !.reply = r]
  <1>3. conn' = [conn EXCEPT ![c] = w]
    BY DEF write_response
  <1>4. v \in {"write", "gone"} /\ (v = "write" => p = "prefix") /\ p \in Stages
    BY <1>2 DEF Further, Stages
  <1>5. l \in Nat /\ l <= MaxPayload
    <2>1. conn[c].replen \in Nat /\ MaxPayload \in Nat /\ Envelope \in Nat /\ Envelope <= MaxPayload
      BY <1>0, CallsAssumption DEF ConnRec
    <2>2. conn[c].rep = "prefix" => conn[c].replen <= MaxPayload
      BY <1>0 DEF TaskOf
    <2>3. QED
      BY <1>2, <2>1, <2>2 DEF Fits
  <1>6. r \in ReplyRec /\ (r = conn[c].reply \/ ~r.ok)
    BY <1>0, NoReplyFacts DEF ConnRec
  <1> HIDE DEF lost, first, large, p, v, l, r
  <1>7. /\ w \in ConnRec /\ w.rep = p /\ w.srv = v /\ w.replen = l /\ w.reply = r
        /\ w.req = conn[c].req /\ w.reqlen = conn[c].reqlen
    BY <1>0, <1>4, <1>5, <1>6 DEF ConnRec
  <1> HIDE DEF w
  <1>8. conn'[c] = w
    BY <1>0, <1>3
  <1>9. GoodReply(c)'
    BY <1>1, <1>2, <1>6, <1>7, <1>8 DEF GoodReply
  <1>10. TaskOf(c)'
    BY <1>0, <1>1, <1>2, <1>4, <1>5, <1>7, <1>8, <1>9 DEF TaskOf
  <1>11. ResultOf(c)'
    BY <1>0, <1>1, <1>2, <1>4, <1>7, <1>8 DEF ResultOf
  <1>12. QED
    BY <1>1, <1>2, <1>3, <1>7, <1>10, <1>11, ConnStep

\* A connection breaks, noticed or not.
LEMMA CutStep ==
    ASSUME CallsInv, NEW c \in DOMAIN script, Cut(c) \/ GoSilent(c)
    PROVE  CallsInv'
  <1>0. /\ conn \in [DOMAIN script -> ConnRec] /\ conn[c] \in ConnRec /\ TaskOf(c) /\ ResultOf(c)
    BY CallFacts
  <1>1. UNCHANGED <<script, call, live, issued, cache>> /\ Op(c)' = Op(c)
    BY DEF Cut, GoSilent, Op
  <1>2. PICK l \in Links : conn' = [conn EXCEPT ![c].link = l]
    BY DEF Cut, GoSilent, Links
  <1> DEFINE w == [conn[c] EXCEPT !.link = l]
  <1>3. /\ w \in ConnRec /\ w.srv = conn[c].srv /\ w.rep = conn[c].rep /\ w.req = conn[c].req
        /\ w.reqlen = conn[c].reqlen /\ w.replen = conn[c].replen /\ w.reply = conn[c].reply
    BY <1>0 DEF ConnRec
  <1>4. conn' = [conn EXCEPT ![c] = w] /\ conn'[c] = w
    BY <1>0, <1>2
  <1> HIDE DEF w
  <1>5. GoodReply(c) => GoodReply(c)'
    BY <1>1, <1>3, <1>4 DEF GoodReply
  <1>6. TaskOf(c)' /\ ResultOf(c)'
    BY <1>0, <1>1, <1>3, <1>4, <1>5 DEF TaskOf, ResultOf
  <1>7. QED
    BY <1>1, <1>3, <1>4, <1>6, ConnStep

\* A client stops.
LEMMA StallStep ==
    ASSUME CallsInv, NEW c \in DOMAIN script, Stall(c)
    PROVE  CallsInv'
  <1>0. /\ call \in [DOMAIN script -> CallRec] /\ conn \in [DOMAIN script -> ConnRec]
        /\ call[c] \in CallRec /\ conn[c] \in ConnRec /\ TaskOf(c) /\ ResultOf(c)
        /\ live \subseteq issued /\ issued \subseteq SessionIds /\ cache \subseteq issued
    BY CallFacts
  <1>1. call[c].pc \in {"send", "await"} /\ UNCHANGED <<script, conn, live, issued, cache>>
    BY DEF Stall
  <1> DEFINE k == [call[c] EXCEPT !.pc = "stalled"]
  <1>2. call' = [call EXCEPT ![c] = k] /\ conn' = [conn EXCEPT ![c] = conn[c]]
    BY <1>0, <1>1 DEF Stall
  <1>3. k \in CallRec /\ k.pc = "stalled" /\ k.result = call[c].result /\ k.handled = call[c].handled
    BY <1>0 DEF CallRec
  <1> HIDE DEF k
  <1>4. call'[c] = k /\ \A q \in DOMAIN script : q # c => call'[q] = call[q]
    BY <1>0, <1>2
  <1>5. TaskOf(c)'
    BY <1>0, <1>1, <1>3, <1>4 DEF TaskOf, GoodReply, Op
  <1>6. ResultOf(c)'
    BY <1>0, <1>1, <1>3, <1>4 DEF ResultOf, Op
  <1>7. Remembered'
    BY <1>1, <1>3, <1>4, StillRemembered
  <1>8. QED
    BY <1>0, <1>1, <1>2, <1>3, <1>5, <1>6, <1>7, OneCall

\* A session expires.
LEMMA ExpireStep ==
    ASSUME CallsInv, NEW s, Expire(s)
    PROVE  CallsInv'
  <1>1. live' \subseteq live /\ UNCHANGED <<script, call, conn, issued, cache>>
    BY DEF Expire
  <1>2. Remembered'
    BY <1>1 DEF CallsInv, Remembered, Told, EndedBy
  <1>3. \A c \in DOMAIN script : TaskOf(c)' /\ ResultOf(c)'
    BY <1>1 DEF CallsInv, TaskOf, ResultOf, GoodReply, Op
  <1>4. QED
    BY <1>1, <1>2, <1>3 DEF CallsInv

\* The daemon dies: every task that was under way is gone, with what it had
\* written so far.
LEMMA RestartStep ==
    ASSUME CallsInv, Restart
    PROVE  CallsInv'
  <1>1. /\ live' = {} /\ UNCHANGED <<script, call, issued, cache>>
        /\ conn' = [c \in DOMAIN script |-> IF conn[c].srv \in {"none", "gone"} THEN conn[c]
                                     ELSE [conn[c] EXCEPT !.srv = "gone",
                                             !.link = IF @ = "silent" THEN @ ELSE "down"]]
    BY DEF Restart
  <1>2. ASSUME NEW c \in DOMAIN script
        PROVE  /\ conn'[c] \in ConnRec /\ conn'[c].rep = conn[c].rep
               /\ conn'[c].replen = conn[c].replen /\ conn'[c].reply = conn[c].reply
               /\ \/ conn'[c] = conn[c]
                  \/ conn'[c].srv = "gone" /\ conn[c].srv \notin {"none", "gone"}
    <2>0. conn[c] \in ConnRec
      BY CallFacts
    <2> DEFINE l == IF conn[c].link = "silent" THEN conn[c].link ELSE "down"
               u == [conn[c] EXCEPT !.srv = "gone"]
               w == [u EXCEPT !.link = l]
    <2>1. /\ u \in ConnRec /\ u.rep = conn[c].rep /\ u.replen = conn[c].replen
          /\ u.reply = conn[c].reply /\ u.srv = "gone" /\ l \in Links
      BY <2>0 DEF ConnRec, Links
    <2>2. conn[c].srv \in {"none", "gone"} => conn'[c] = conn[c]
      BY <1>1
    <2>3. conn[c].srv \notin {"none", "gone"} => conn'[c] = w
      BY <1>1, <2>0 DEF ConnRec
    <2> HIDE DEF u, l
    <2>4. /\ w \in ConnRec /\ w.rep = conn[c].rep /\ w.replen = conn[c].replen
          /\ w.reply = conn[c].reply /\ w.srv = "gone"
      BY <2>1 DEF ConnRec
    <2> HIDE DEF w
    <2>5. QED
      BY <2>0, <2>2, <2>3, <2>4
  <1>3. conn' \in [DOMAIN script -> ConnRec]
    BY <1>1, <1>2
  <1>4. Remembered'
    BY <1>1, <1>2, StillRemembered
  <1>5. ASSUME NEW c \in DOMAIN script PROVE TaskOf(c)' /\ ResultOf(c)'
    <2>1. TaskOf(c) /\ ResultOf(c) /\ conn[c] \in ConnRec /\ Op(c)' = Op(c)
      BY <1>1, CallFacts DEF Op
    <2>2. GoodReply(c) => GoodReply(c)'
      <3>1. conn'[c].reply = conn[c].reply /\ issued' = issued
        BY <1>1, <1>2
      <3>2. QED
        BY <2>1, <3>1 DEF GoodReply
    <2>3. TaskOf(c)'
      BY <1>1, <1>2, <2>1, <2>2 DEF TaskOf
    <2>4. ResultOf(c)'
      BY <1>1, <1>2, <2>1 DEF ResultOf
    <2>5. QED
      BY <2>3, <2>4
  <1>6. QED
    BY <1>1, <1>3, <1>4, <1>5 DEF CallsInv

-----------------------------------------------------------------------------
(* The invariant *)

\* Initially no call has begun.
LEMMA CallsInit == Init => CallsInv
  <1> SUFFICES ASSUME Init PROVE CallsInv
    OBVIOUS
  <1>1. /\ script \in Scripts /\ call = [c \in DOMAIN script |-> NoCall]
        /\ conn = [c \in DOMAIN script |-> NoConn] /\ live = {} /\ issued = {} /\ cache = {}
    BY DEF Init
  <1>2. NoCall \in CallRec /\ NoCall.pc = "new" /\ NoCall.result = "none" /\ NoCall.handled = 0
    BY DEF NoCall, CallRec, Sids, Results
  <1>3. call \in [DOMAIN script -> CallRec] /\ conn \in [DOMAIN script -> ConnRec]
    BY <1>1, <1>2, NoConnFacts
  <1>4. \A c \in DOMAIN script : call[c] = NoCall /\ conn[c] = NoConn
    BY <1>1
  <1>5. \A c \in DOMAIN script : TaskOf(c) /\ ResultOf(c)
    BY <1>2, <1>4, NoConnFacts DEF TaskOf, ResultOf
  <1>6. Remembered
    BY <1>2, <1>4 DEF Remembered, Told
  <1>7. QED
    BY <1>1, <1>3, <1>5, <1>6 DEF CallsInv

\* Every step keeps the invariant.
LEMMA CallsStep == CallsInv /\ [Next]_vars => CallsInv'
  <1> SUFFICES ASSUME CallsInv, [Next]_vars PROVE CallsInv'
    OBVIOUS
  <1>1. CASE UNCHANGED vars
    <2>1. UNCHANGED <<script, call, conn, live, issued, cache>>
      BY <1>1 DEF vars
    <2>2. Remembered'
      BY <2>1 DEF CallsInv, Remembered, Told, EndedBy
    <2>3. \A c \in DOMAIN script : TaskOf(c)' /\ ResultOf(c)'
      BY <2>1 DEF CallsInv, TaskOf, ResultOf, GoodReply, Op
    <2>4. QED
      BY <2>1, <2>2, <2>3 DEF CallsInv
  <1>2. ASSUME NEW c \in Calls, ClientStep(c) PROVE CallsInv'
    BY <1>2, SendStep, WriteMessageStep, ClientFailsStep, ReturnStep DEF ClientStep
  <1>3. ASSUME NEW c \in Calls, ServerStep(c) PROVE CallsInv'
    BY <1>3, ReadStep, HandleStep, WriteResponseStep DEF ServerStep
  <1>4. ASSUME NEW c \in DOMAIN script, RunLocally(c) \/ Abandon(c) PROVE CallsInv'
    BY <1>4, RunLocallyStep, ClientFailsStep
  <1>5. ASSUME NEW c \in DOMAIN script, Cut(c) \/ GoSilent(c) \/ Stall(c) PROVE CallsInv'
    BY <1>5, CutStep, StallStep
  <1>6. CASE Restart
    BY <1>6, RestartStep
  <1>7. QED
    BY <1>1, <1>2, <1>3, <1>4, <1>5, <1>6, ExpireStep DEF Next

\* The invariant holds in every state of every behaviour.
LEMMA CallsAlways == Spec => []CallsInv
  BY CallsInit, CallsStep, PTL DEF Spec

\* Every variable always has its type and every call that ended has a result.
THEOREM CallsTypeCorrect == Spec => []TypeOK
  <1>1. CallsInv => TypeOK
    <2> SUFFICES ASSUME CallsInv PROVE TypeOK
      OBVIOUS
    <2>1. ASSUME NEW c \in DOMAIN script
          PROVE  /\ script[c] \in Script
                 /\ call[c] \in [pc : {"new", "send", "await", "stalled", "ended"},
                                 sid : SessionIds \cup {NoSession}, result : Results, handled : Nat]
                 /\ call[c].result = "none" <=> call[c].pc # "ended"
                 /\ conn[c].srv \in {"none", "prefix", "body", "handle", "write", "gone"}
                 /\ {conn[c].req, conn[c].rep} \subseteq Stages
      BY CallFacts DEF CallRec, Sids, ConnRec, ResultOf
    <2>2. live \subseteq issued /\ cache \subseteq SessionIds
      BY DEF CallsInv
    <2>3. QED
      BY <2>1, <2>2 DEF TypeOK
  <1>2. QED
    BY <1>1, CallsAlways, PTL

\* No handler runs on a request that was cut short or is over the limit, and no
\* client takes part of a reply for an answer, whatever breaks and whenever.
THEOREM OnlyWholeMessagesTheorem == Spec => []OnlyWholeMessages
  <1>1. CallsInv => OnlyWholeMessages
    BY DEF CallsInv, TaskOf, ResultOf, OnlyWholeMessages
  <1>2. QED
    BY <1>1, CallsAlways, PTL

\* Nothing is done twice for one call, success is reported only of what was done,
\* and what was refused before it was sent was never done.
THEOREM AtMostOnceTheorem == Spec => []AtMostOnce
  <1>1. CallsInv => AtMostOnce
    <2> SUFFICES ASSUME CallsInv, NEW c \in DOMAIN script
                 PROVE  /\ call[c].handled <= 1
                        /\ call[c].result = "ok" /\ Op(c) # "none"
                               => call[c].handled = 1 /\ conn[c].reply.ok
                        /\ call[c].result \in {"local", "panic"} => call[c].handled = 0
      BY DEF AtMostOnce
    <2>1. TaskOf(c) /\ ResultOf(c)
      BY CallFacts
    <2>2. QED
      BY <2>1 DEF TaskOf, ResultOf
  <1>2. QED
    BY <1>1, CallsAlways, PTL

\* No client ever sees a framing failure, however large the replies the handlers
\* produce, nor a payload that its request does not expect.
THEOREM CleanFailuresTheorem == Spec => []CleanFailures
  <1>1. CallsInv => CleanFailures
    BY DEF CallsInv, ResultOf, CleanFailures
  <1>2. QED
    BY <1>1, CallsAlways, PTL

\* The adapter drops the handle of a session only after the daemon has said that
\* the session is ended, and no handle names a session the daemon never made.
THEOREM NoHandleLostTheorem == Spec => []NoHandleLost
  <1>1. CallsInv => NoHandleLost
    BY DEF CallsInv, Remembered, NoHandleLost
  <1>2. QED
    BY <1>1, CallsAlways, PTL
=============================================================================
