------------------------------- MODULE Calls -------------------------------
(***************************************************************************)
(* One call after another from a client to the daemon and back.  Every     *)
(* call opens a connection of its own: the command line (are-cli) or the   *)
(* agent adapter (are-agent-adapter) hands a request to SecureClient       *)
(* (are-client), which connects, writes one frame and reads one; the       *)
(* daemon (are-daemon server.rs, framing.rs) reads one frame, handles it   *)
(* and writes one.  Neither side sets a timeout, retries or keeps a        *)
(* connection.                                                             *)
(*                                                                         *)
(* A frame is a length and so many bytes.  How far one has been written    *)
(* is a stage: nothing, the length and perhaps some of the bytes, or all.  *)
(* What a handler does is modules Service and Daemon; here it succeeds or  *)
(* fails, and only the set of sessions is kept.                            *)
(***************************************************************************)
EXTENDS Integers, FiniteSets

CONSTANTS
    Calls,
    Scripts,                  \* which commands are run: by call
    SessionIds, NoSession,
    MaxPayload,               \* DEFAULT_MAX_PAYLOAD, of both sides
    MAX_CLI_CONTENT_BYTES,
    Envelope,                 \* length of a message without bulk content
    Bulk                      \* amounts of content that replies carry

ASSUME CallsAssumption ==
    /\ {MaxPayload, MAX_CLI_CONTENT_BYTES} \subseteq Nat
    /\ Envelope \in 1..MaxPayload
    /\ Bulk \subseteq Nat
    /\ NoSession \notin SessionIds

VARIABLES
    script,      \* what each call is to do
    call,        \* the client's side of each call
    conn,        \* its connection, and the daemon's task that serves it
    live,        \* sessions in the daemon's table
    issued,      \* session ids ever given out
    cache        \* the adapter's session handles

vars == <<script, call, conn, live, issued, cache>>

-----------------------------------------------------------------------------
(* Requests: the methods of SecureClient *)

ReadMethods == {"get_environment_info", "read_file", "list_directory", "file_metadata"}
ProcessMethods == {"execute", "process_status", "terminate_process", "wait_process"}
SessionMethods == {"create_session", "get_session", "list_sessions", "terminate_session"}
WriteMethods == {"write_file", "create_directory", "rename", "delete_file"}

RpcRequest == ReadMethods \cup ProcessMethods \cup SessionMethods \cup WriteMethods

\* Replies that carry file contents, captured output or a list.
BulkReplies == {"read_file", "list_directory", "wait_process", "get_session", "list_sessions"}

-----------------------------------------------------------------------------
(* Commands: where a request comes from and which of its inputs are looked  *)
(* at before anything is sent.  "tls" is the client's certificate and key.  *)

Cli(op, checks) == [front |-> "cli", op |-> op, checks |-> checks, timeout_secs |-> 1]
Adapter(op, checks) == [front |-> "adapter", op |-> op, checks |-> checks, timeout_secs |-> 1]

Connect == Cli("get_environment_info", {"env_id", "tls"})
Doctor == Cli("get_environment_info", {"env_id", "tls"})
FsRead == Cli("read_file", {"env_id", "tls"})
FsList == Cli("list_directory", {"env_id", "tls"})
FsMetadata == Cli("file_metadata", {"env_id", "tls"})
FsWrite == Cli("write_file", {"env_id", "content", "expect_hash", "tls"})
FsMkdir == Cli("create_directory", {"env_id", "tls"})
FsMv == Cli("rename", {"env_id", "tls"})
FsRm == Cli("delete_file", {"env_id", "tls"})
ProcRun == Cli("execute", {"env_id", "session_id", "tls", "env_vars"})
ProcStatus == Cli("process_status", {"env_id", "session_id", "process_id", "tls"})
ProcWait == Cli("wait_process", {"env_id", "session_id", "process_id", "tls"})
ProcKill == Cli("terminate_process", {"env_id", "session_id", "process_id", "tls"})
SessCreate == Cli("create_session", {"env_id", "tls", "env_vars"})
SessShow == Cli("get_session", {"env_id", "session_id", "tls"})
SessList == Cli("list_sessions", {"env_id", "tls"})
SessRm == Cli("terminate_session", {"env_id", "session_id", "tls"})

\* These two ask nobody.
Env == Cli("none", {})
Fingerprint == Cli("none", {"cert"})

FsCommands == {FsRead, FsList, FsMetadata, FsWrite, FsMkdir, FsMv, FsRm}
ProcCommands == {ProcRun, ProcStatus, ProcWait, ProcKill}
SessCommands == {SessCreate, SessShow, SessList, SessRm}
Commands == {Connect, Doctor, Env, Fingerprint} \cup FsCommands \cup ProcCommands \cup SessCommands

\* RemoteEnvironment.  Its execute makes up an empty session id when it is given
\* none, which panics.
EnvConnect == Adapter("get_environment_info", {})
EnvFiles == {Adapter(op, {}) : op \in {"read_file", "write_file", "list_directory", "file_metadata"}}
EnvExecute == Adapter("execute", {"session_id"})
EnvCreateSession == Adapter("create_session", {})
EnvResumeSession == Adapter("get_session", {})
EnvListSessions == Adapter("list_sessions", {})
EnvTerminateSession == Adapter("terminate_session", {})

\* SessionHandle: the file operations name no session, only execute does.
HandleFiles == {Adapter(op, {}) : op \in WriteMethods \cup (ReadMethods \ {"get_environment_info"})}
HandleExecute == Adapter("execute", {})

\* ProcessHandle.  Waiting without a timeout asks the daemon for zero seconds.
HandleWait == Adapter("wait_process", {})
HandleWaitInfinite == [HandleWait EXCEPT !.timeout_secs = 0]
HandleStatus == Adapter("process_status", {})
HandleTerminate == Adapter("terminate_process", {})

AdapterCommands ==
    {EnvConnect, EnvExecute, EnvCreateSession, EnvResumeSession, EnvListSessions,
     EnvTerminateSession, HandleExecute, HandleWait, HandleWaitInfinite, HandleStatus,
     HandleTerminate} \cup EnvFiles \cup HandleFiles

\* What a call is given: its command, the inputs of it that are malformed, and
\* how much content it writes.
Script == [cmd : Commands \cup AdapterCommands,
           bad : SUBSET {"env_id", "session_id", "process_id", "env_vars", "expect_hash", "tls", "cert"},
           content : Nat]

ASSUME ScriptsAssumption == \A s \in Scripts : s \in [DOMAIN s -> Script]

-----------------------------------------------------------------------------
Stages == {"none", "prefix", "whole"}

\* How far the next write gets.
Further(stage) == IF stage = "none" THEN "prefix" ELSE "whole"

NoReply == [ok |-> FALSE, payload |-> "none", sid |-> NoSession]

NoCall == [pc |-> "new", sid |-> NoSession, result |-> "none", handled |-> 0]

\* A link is up, down (both ends know), or silent: nothing arrives any more and
\* neither end knows.
NoConn == [link |-> "down", srv |-> "none", req |-> "none", reqlen |-> 0,
           rep |-> "none", replen |-> 0, reply |-> NoReply]

Init ==
    /\ script \in Scripts
    /\ call = [c \in DOMAIN script |-> NoCall]
    /\ conn = [c \in DOMAIN script |-> NoConn]
    /\ live = {}
    /\ issued = {}
    /\ cache = {}

Op(c) == script[c].cmd.op

\* A byte of content is a number in a JSON array: two to four bytes.
Encoded(content) == {Envelope + k * content : k \in 2..4}

Ended(c, result) == call' = [call EXCEPT ![c].pc = "ended", ![c].result = result]

-----------------------------------------------------------------------------
(* The client *)

\* An input that does not parse, or more content than the cap.
Refused(c) ==
    \/ script[c].bad \cap script[c].cmd.checks # {}
    \/ "content" \in script[c].cmd.checks /\ script[c].content > MAX_CLI_CONTENT_BYTES

RunLocally(c) ==
    /\ call[c].pc = "new"
    /\ Refused(c) \/ Op(c) = "none"
    /\ Ended(c, IF ~Refused(c) THEN "ok"
                ELSE IF script[c].cmd.front = "cli" THEN "local" ELSE "panic")
    /\ UNCHANGED <<script, conn, live, issued, cache>>

\* send_rpc, up to the handshake.
send_rpc(c) ==
    /\ call[c].pc = "new" /\ ~Refused(c) /\ Op(c) # "none"
    /\ \/ \E s \in SessionIds, n \in Encoded(script[c].content) :
            /\ call' = [call EXCEPT ![c].pc = "send", ![c].sid = s]
            /\ conn' = [conn EXCEPT ![c] = [NoConn EXCEPT !.link = "up", !.srv = "prefix",
                                                          !.reqlen = n]]
       \/ Ended(c, "connection") /\ UNCHANGED conn
    /\ UNCHANGED <<script, live, issued, cache>>

\* write_message of the client: no limit.  What is written to a silent link is
\* lost.
write_message(c) ==
    /\ call[c].pc = "send" /\ conn[c].link # "down"
    /\ LET lost == conn[c].link = "silent"
       IN  /\ conn' = [conn EXCEPT ![c].req = IF lost THEN @ ELSE Further(@)]
           /\ call' = [call EXCEPT ![c].pc = IF lost \/ conn[c].req = "prefix" THEN "await"
                                             ELSE "send"]
    /\ UNCHANGED <<script, live, issued, cache>>

\* The client can tell that the whole reply will not come: the link is down, or
\* the daemon closed it.
SeesEnd(c) ==
    \/ conn[c].link = "down"
    \/ conn[c].link = "up" /\ conn[c].srv = "gone" /\ conn[c].rep # "whole"

\* Fault: a lost reply is asked for again.
FaultyClientFails(c) ==
    /\ call[c].pc \in {"send", "await"} /\ SeesEnd(c)
    /\ IF call[c].pc = "await" /\ call[c].handled = 1
       THEN call' = [call EXCEPT ![c].pc = "new"]
       ELSE Ended(c, "connection")
    /\ UNCHANGED <<script, conn, live, issued, cache>>

\* Writing fails, or reading finds the end before the whole reply.  Nothing limits
\* how long the client waits for either.
ClientFails(c) ==
    /\ call[c].pc \in {"send", "await"} /\ SeesEnd(c)
    /\ Ended(c, "connection")
    /\ UNCHANGED <<script, conn, live, issued, cache>>

\* Fault: the payload is taken for the result.
FaultyOutcome(c) ==
    LET reply == conn[c].reply
    IN  IF reply.payload = Op(c) THEN "ok" ELSE reply.payload

\* What read_message and a method of SecureClient make of a reply.
Outcome(c) ==
    LET reply == conn[c].reply
    IN  IF conn[c].replen > MaxPayload THEN "framing"
        ELSE IF ~reply.ok THEN "rpc_error"
        ELSE IF reply.payload = Op(c) THEN "ok" ELSE "unexpected"

\* Fault: a handle is forgotten whatever the daemon answered.
FaultyCached(c, result) ==
    LET s == conn[c].reply.sid
    IN  IF Op(c) = "terminate_session" THEN cache \ {call[c].sid}
        ELSE IF script[c].cmd.front = "cli" \/ result # "ok" THEN cache
        ELSE IF Op(c) \in {"create_session", "get_session"} THEN cache \cup {s}
        ELSE cache

\* The adapter keeps the handles of sessions created and resumed.
Cached(c, result) ==
    LET s == conn[c].reply.sid
    IN  IF script[c].cmd.front = "cli" \/ result # "ok" THEN cache
        ELSE IF Op(c) \in {"create_session", "get_session"} THEN cache \cup {s}
        ELSE IF Op(c) = "terminate_session" THEN cache \ {s}
        ELSE cache

\* The call returns, with a whole reply or a length over the limit.  The command
\* line may fail to print contents and output.
Return(c) ==
    /\ call[c].pc = "await" /\ conn[c].rep # "none"
    /\ conn[c].rep = "whole" \/ conn[c].replen > MaxPayload
    /\ LET result == Outcome(c)
       IN  /\ \/ Ended(c, result)
              \/ /\ result = "ok" /\ script[c].cmd \in {FsRead, ProcWait}
                 /\ Ended(c, "stdout")
           /\ cache' = Cached(c, result)
    /\ UNCHANGED <<script, conn, live, issued>>

\* wait_with_timeout drops a wait at any point.
Abandon(c) ==
    /\ script[c].cmd = HandleWaitInfinite /\ call[c].pc \in {"send", "await"}
    /\ Ended(c, "timeout")
    /\ UNCHANGED <<script, conn, live, issued, cache>>

-----------------------------------------------------------------------------
(* The daemon's task for a connection *)

Moves(c, srv) == conn' = [conn EXCEPT ![c].srv = srv]

\* Fault: a length over the limit is reported, and the next one awaited.
FaultyReadLength(c) ==
    /\ conn[c].srv = "prefix" /\ conn[c].req # "none"
    /\ Moves(c, IF conn[c].reqlen > MaxPayload THEN "prefix" ELSE "body")
    /\ UNCHANGED <<script, call, live, issued, cache>>

\* read_message: a length over the limit ends the task without a reply.
ReadLength(c) ==
    /\ conn[c].srv = "prefix" /\ conn[c].req # "none"
    /\ Moves(c, IF conn[c].reqlen > MaxPayload THEN "gone" ELSE "body")
    /\ UNCHANGED <<script, call, live, issued, cache>>

\* Fault: takes what has arrived for all of it.
FaultyReadBody(c) ==
    /\ conn[c].srv = "body" /\ conn[c].req # "none"
    /\ Moves(c, "handle")
    /\ UNCHANGED <<script, call, live, issued, cache>>

ReadBody(c) ==
    /\ conn[c].srv = "body" /\ conn[c].req = "whole"
    /\ Moves(c, "handle")
    /\ UNCHANGED <<script, call, live, issued, cache>>

\* Reading or writing fails: the link is down or the client closed it.  Nothing
\* limits how long the task waits for that.
ServerFails(c) ==
    /\ conn[c].link = "down" \/ (conn[c].link = "up" /\ call[c].pc = "ended")
    /\ conn[c].srv \in {"prefix", "body", "write"}
    /\ Moves(c, "gone")
    /\ UNCHANGED <<script, call, live, issued, cache>>

\* Which requests may succeed: processes and sessions need a live session, and
\* waiting a timeout.
MaySucceed(c, s) ==
    /\ Op(c) \in ProcessMethods \cup {"get_session", "terminate_session"}
           => s = call[c].sid /\ s \in live
    /\ Op(c) = "create_session" => s \in SessionIds \ issued
    /\ Op(c) \in (RpcRequest \ ProcessMethods) \ {"create_session", "get_session", "terminate_session"}
           => s = NoSession
    /\ script[c].cmd.timeout_secs > 0

\* The payload that the handler of a request answers with.
Payload(op) == op

\* handle_as, once per connection.  Its reply may be of any length.
handle_as(c) ==
    /\ conn[c].srv = "handle"
    /\ \/ \E s \in SessionIds \cup {NoSession},
             n \in UNION {Encoded(b) : b \in IF Op(c) \in BulkReplies THEN Bulk ELSE {0}} :
            /\ MaySucceed(c, s)
            /\ conn' = [conn EXCEPT ![c].srv = "write", ![c].replen = n,
                                    ![c].reply = [ok |-> TRUE, payload |-> Payload(Op(c)), sid |-> s]]
            /\ live' = CASE Op(c) = "create_session" -> live \cup {s}
                         [] Op(c) = "terminate_session" -> live \ {s}
                         [] OTHER -> live
            /\ issued' = IF Op(c) = "create_session" THEN issued \cup {s} ELSE issued
       \/ /\ conn' = [conn EXCEPT ![c].srv = "write", ![c].replen = Envelope,
                                  ![c].reply = NoReply]
          /\ UNCHANGED <<live, issued>>
    /\ call' = [call EXCEPT ![c].handled = @ + 1]
    /\ UNCHANGED <<script, cache>>

\* Fault: the limit itself is exceeded by one.
FaultyFits(n) == n <= MaxPayload + 1

Fits(n) == n <= MaxPayload

\* write_response: a reply over the limit is replaced by a short error before
\* anything is written; after the last byte the connection is closed.  What is
\* written to a silent link is lost.
write_response(c) ==
    /\ conn[c].srv = "write" /\ conn[c].link # "down"
    /\ LET lost  == conn[c].link = "silent"
           first == conn[c].rep = "none"
           large == first /\ ~Fits(conn[c].replen)
       IN  conn' = [conn EXCEPT ![c].rep = IF lost THEN @ ELSE Further(@),
                                ![c].srv = IF first /\ ~lost THEN "write" ELSE "gone",
                                ![c].replen = IF large THEN Envelope ELSE @,
                                ![c].reply = IF large THEN NoReply ELSE @]
    /\ UNCHANGED <<script, call, live, issued, cache>>

-----------------------------------------------------------------------------
(* The environment *)

\* Somebody still uses the connection of c.
Open(c) == conn[c].link # "down" /\ (call[c].pc # "ended" \/ conn[c].srv # "gone")

\* The connection breaks, or both ends find out that it has.
Cut(c) ==
    /\ Open(c)
    /\ conn' = [conn EXCEPT ![c].link = "down"]
    /\ UNCHANGED <<script, call, live, issued, cache>>

\* It breaks and nobody finds out: a cable, a firewall, a host that is gone.
GoSilent(c) ==
    /\ Open(c) /\ conn[c].link = "up"
    /\ conn' = [conn EXCEPT ![c].link = "silent"]
    /\ UNCHANGED <<script, call, live, issued, cache>>

\* A client stops for good without closing its connection.
Stall(c) ==
    /\ call[c].pc \in {"send", "await"}
    /\ call' = [call EXCEPT ![c].pc = "stalled"]
    /\ UNCHANGED <<script, conn, live, issued, cache>>

\* A session ends by itself; module Daemon says when.
Expire(s) ==
    /\ s \in live
    /\ live' = live \ {s}
    /\ UNCHANGED <<script, call, conn, issued, cache>>

\* The daemon dies and is started again: no connection and no session is left.  A
\* client at a silent link is not told.
Restart ==
    /\ \E c \in DOMAIN script : conn[c].srv \notin {"none", "gone"}
    /\ conn' = [c \in DOMAIN script |-> IF conn[c].srv \in {"none", "gone"} THEN conn[c]
                                ELSE [conn[c] EXCEPT !.srv = "gone",
                                                     !.link = IF @ = "silent" THEN @ ELSE "down"]]
    /\ live' = {}
    /\ UNCHANGED <<script, call, issued, cache>>

-----------------------------------------------------------------------------
ClientStep(c) ==
    /\ c \in DOMAIN script
    /\ \/ send_rpc(c) \/ write_message(c) \/ ClientFails(c)
       \/ Return(c)

ServerStep(c) ==
    /\ c \in DOMAIN script
    /\ \/ ReadLength(c) \/ ReadBody(c) \/ ServerFails(c)
       \/ handle_as(c) \/ write_response(c)

Next ==
    \/ \E c \in Calls : ClientStep(c) \/ ServerStep(c)
    \/ \E c \in DOMAIN script : RunLocally(c) \/ Abandon(c) \/ Cut(c) \/ GoSilent(c) \/ Stall(c)
    \/ \E s \in SessionIds : Expire(s)
    \/ Restart

\* The runtime runs the daemon's tasks, and a client's unless it stalls: whatever can
\* be read, written or seen to fail in the end is.  Nothing makes a connection
\* break, nothing makes anybody notice that one is silent, and a stalled client owes
\* nothing.
Fairness == \A c \in Calls : WF_vars(ClientStep(c)) /\ WF_vars(ServerStep(c))

Spec == Init /\ [][Next]_vars /\ Fairness
-----------------------------------------------------------------------------
(* Properties *)

Results == {"none", "ok", "local", "panic", "connection", "framing", "rpc_error", "unexpected",
            "stdout", "timeout"}

\* Every variable has its type, and every call that ended has a result.
TypeOK ==
    /\ \A c \in DOMAIN script :
         /\ script[c] \in Script
         /\ call[c] \in [pc : {"new", "send", "await", "stalled", "ended"},
                         sid : SessionIds \cup {NoSession}, result : Results, handled : Nat]
         /\ call[c].result = "none" <=> call[c].pc # "ended"
         /\ conn[c].srv \in {"none", "prefix", "body", "handle", "write", "gone"}
         /\ {conn[c].req, conn[c].rep} \subseteq Stages
    /\ live \subseteq issued
    /\ cache \subseteq SessionIds

\* framing.rs, read_message_sized: no handler runs on a frame that was cut short
\* or is over the limit, whatever broke and however the bytes were split, and no
\* client takes part of a reply for an answer.
OnlyWholeMessages ==
    \A c \in DOMAIN script :
        /\ conn[c].srv = "write" => conn[c].req = "whole" /\ conn[c].reqlen <= MaxPayload
        /\ call[c].result \in {"ok", "rpc_error"} /\ Op(c) # "none" => conn[c].rep = "whole"

\* Nothing is done twice for one call, a success is reported only of what the
\* daemon did, and what was refused before it was sent was never done.  The
\* converse does not hold: a call whose reply is lost fails although it was done.
AtMostOnce ==
    \A c \in DOMAIN script :
        /\ call[c].handled <= 1
        /\ call[c].result = "ok" /\ Op(c) # "none" => call[c].handled = 1 /\ conn[c].reply.ok
        /\ call[c].result \in {"local", "panic"} => call[c].handled = 0

\* server.rs, write_response: "oversized ReadFile/WaitProcess responses surface as
\* clean RPC errors - never as a client framing failure".  (That no client gets the
\* payload of another request rests on each handler answering with its own.)
CleanFailures == \A c \in DOMAIN script : call[c].result \notin {"framing", "unexpected"}

\* Calls of the adapter that were told of a session, and that ended one.
Told(s) == {c \in DOMAIN script : /\ script[c].cmd \in {EnvCreateSession, EnvResumeSession}
                          /\ call[c].result = "ok" /\ conn[c].reply.sid = s}
EndedBy(s) == {c \in DOMAIN script : /\ script[c].cmd = EnvTerminateSession
                             /\ call[c].result = "ok" /\ conn[c].reply.sid = s}

\* The adapter forgets a session only when the daemon has said that it is ended:
\* a terminate whose reply was lost or that failed leaves the handle, so that it
\* can be tried again.  And no handle names a session the daemon never made.
NoHandleLost ==
    /\ \A s \in SessionIds : Told(s) # {} => s \in cache \/ EndedBy(s) # {}
    /\ cache \subseteq issued

\* Every call that was sent ends on both sides: no client waits for a daemon that
\* has given up, and no task of the daemon for a client that has.  Two things can
\* hold a call open for ever, for neither side sets a timeout or a keepalive
\* (connection.rs lines 337-353, server.rs lines 105-119): a silent link, and a
\* stalled client on a link that is up.
CallsEnd ==
    \A c \in Calls :
        c \in DOMAIN script /\ conn[c].srv # "none"
            ~> /\ c \in DOMAIN script
               /\ \/ call[c].pc \in {"ended", "stalled"} /\ conn[c].srv = "gone"
                  \/ conn[c].link = "silent"
                  \/ call[c].pc = "stalled" /\ conn[c].link = "up"

=============================================================================
