------------------------------- MODULE Service -------------------------------
(***************************************************************************)
(* From the command line of ared to the answer of a request: how the       *)
(* daemon starts (crates/are-daemon/src/main.rs, lib.rs, grants.rs) and    *)
(* which checks each handler makes, in which order                         *)
(* (crates/are-daemon/src/handler.rs).  Requests are handled one at a      *)
(* time here; module Daemon interleaves them and keeps time, and           *)
(* FileAccess carries on where a file request is let through.              *)
(*                                                                         *)
(* A reply is a category of RpcError, or "ok".  NotConfigured is the       *)
(* InternalError (InvalidRequest, from create_session) that says that a    *)
(* backend is not configured.                                              *)
(***************************************************************************)
EXTENDS Requests

CONSTANTS
    Callers,             \* fingerprints of client certificates
    Fingerprints,        \* well-formed keys of a grants file
    GrantsFiles,         \* what grants files say: entries by key
    NoGrants,            \* no grants file is given, no table is in force
    Unreadable, Malformed, LoadError,
    CommandLines,        \* the command lines that occur
    Programs,            \* program names in allow lists
    ExecuteRequests, CreateRequests, FileRequests, WaitTimeouts,
    SessionIds, NoSession,
    MaxSessions, MaxPerSession

VARIABLES
    phase,       \* of the daemon: starting, refused or serving
    flags,       \* the command line
    state,       \* DaemonState, once serving
    sessions,    \* the session table
    last         \* the request in hand and what came of it

vars == <<phase, flags, state, sessions, last>>

-----------------------------------------------------------------------------
(* Start-up *)

\* The command line of `ared listen`.  grants_file is a file's content, or says
\* that there is no such flag, that the file cannot be read or is not JSON of
\* the schema.  The allow list is what is left of it after trimming.
Flags ==
    [grants_file : {NoGrants, Unreadable, Malformed} \cup GrantsFiles,
     permissive_authz : BOOLEAN,
     environment_id : {"valid", "invalid"},
     allowed_root : {"none", "missing", "unresolvable", "dir"},
     allow_list : BOOLEAN, allowed : SUBSET Programs,
     permissive_exec : BOOLEAN]

ASSUME ServiceAssumption ==
    /\ NoSession \notin SessionIds
    /\ CommandLines \subseteq Flags
    /\ {NoGrants, Unreadable, Malformed, LoadError} \cap GrantsFiles = {}
    /\ MaxSessions \in Nat /\ MaxPerSession \in Nat
    /\ \A r \in ExecuteRequests : r.program.exe \in Nat
    /\ \A r \in FileRequests :
         r.op \in {"read_file", "get_file_metadata", "list_directory", "write_file",
                  "create_directory", "rename", "delete_file"}

NoRequest == [op |-> "none", caller |-> NoSession, sid |-> NoSession, result |-> "ok",
              program |-> Named(""), child |-> FALSE, asked |-> <<>>, env |-> <<>>, shown |-> {}]

NoState ==
    [grants |-> NoGrants, fs |-> FALSE, advertised |-> {}, tls |-> "none",
     policy |-> [allow_list |-> FALSE, allowed |-> {}, permissive |-> FALSE]]

Init ==
    /\ phase = "starting"
    /\ flags \in {f \in CommandLines : ~f.allow_list => f.allowed = {}}
    /\ state = NoState
    /\ sessions = <<>>
    /\ last = NoRequest

validate_authz_mode(f) == f.grants_file # NoGrants \/ f.permissive_authz

\* Fault: a file that does not load leaves the daemon without a table.
FaultyLoad(file) ==
    IF file \notin GrantsFiles THEN NoGrants
    ELSE IF \A fp \in DOMAIN file : fp \in Fingerprints THEN file ELSE NoGrants

\* load_from_file, parse_json: every key looks like a fingerprint and no program
\* entry is an empty name, or nothing is loaded.
load_from_file(file) ==
    IF file = NoGrants THEN NoGrants
    ELSE IF file \in {Unreadable, Malformed} THEN LoadError
    ELSE IF \A fp \in DOMAIN file :
              /\ fp \in Fingerprints
              /\ \A p \in file[fp].programs : normalize_program_name(p) # <<"", 0>>
         THEN file ELSE LoadError

FilesystemCapabilities == {"FilesystemRead", "FilesystemList", "FilesystemWrite"}
ProcessCapabilities == {"ProcessExecute", "ProcessInspect", "ProcessTerminate"}

\* Fault: capabilities are advertised whatever was built.
FaultyBuildState(f, grants, tls) ==
    [grants |-> grants, fs |-> f.allowed_root # "unresolvable",
     advertised |-> FilesystemCapabilities \cup ProcessCapabilities, tls |-> tls,
     policy |-> [allow_list |-> f.allow_list, allowed |-> f.allowed,
                 permissive |-> f.permissive_exec]]

\* build_daemon_state: a root that cannot be made canonical leaves the daemon
\* without a file backend; the two managers exist always.
build_daemon_state(f, grants, tls) ==
    [grants |-> grants, fs |-> f.allowed_root # "unresolvable",
     advertised |-> ProcessCapabilities
                    \cup (IF f.allowed_root # "unresolvable" THEN FilesystemCapabilities ELSE {}),
     tls |-> tls,
     policy |-> [allow_list |-> f.allow_list, allowed |-> f.allowed,
                 permissive |-> f.permissive_exec]]

\* build_tls_config: with all three files they are loaded, which may fail; with
\* fewer, certificates are made up that nobody else has.
TlsOutcomes(given) == IF given = {"cert", "key", "ca"} THEN {"files", "error"} ELSE {"ephemeral"}

\* main: any refusal ends the process, and so does a bad or busy address.
main ==
    /\ phase = "starting"
    /\ \E given \in SUBSET {"cert", "key", "ca"}, bound \in BOOLEAN :
       \E tls \in TlsOutcomes(given) :
         LET grants == load_from_file(flags.grants_file)
         IN  IF /\ validate_authz_mode(flags)
                /\ flags.environment_id = "valid"
                /\ flags.allowed_root # "missing"
                /\ grants # LoadError
                /\ tls # "error"
                /\ bound
             THEN phase' = "serving" /\ state' = build_daemon_state(flags, grants, tls)
             ELSE phase' = "refused" /\ UNCHANGED state
    /\ UNCHANGED <<flags, sessions, last>>

-----------------------------------------------------------------------------
(* Authorisation *)

Permissive == state.grants = NoGrants

\* deny_unknown_principal passes.
Known(c) == Permissive \/ c \in DOMAIN state.grants

\* effective_grants
check_exec_grant(c, p) ==
    Permissive \/ (c \in DOMAIN state.grants /\ grants_allow_exec(state.grants[c].programs, p))

check_inspect_grant(c) ==
    Permissive \/ (c \in DOMAIN state.grants /\ state.grants[c].inspect)

check_terminate_grant(c) ==
    Permissive \/ (c \in DOMAIN state.grants /\ state.grants[c].terminate)

-----------------------------------------------------------------------------
(* Errors *)

\* Fault: the fail-closed refusal has no category.
FaultyProcessError(e) == e

process_error_to_rpc(e) ==
    CASE e = "PolicyDenied" -> "DeniedExecutable"
      [] e = "EnvironmentMismatch" -> "InvalidRequest"
      [] e = "TooManyProcesses" -> "CapacityExceeded"
      [] e \in {"Io", "Internal"} -> "InternalError"
      [] OTHER -> e

session_error_to_rpc(e) ==
    CASE e = "NotFound" -> "SessionNotFound"
      [] e = "Expired" -> "SessionExpired"
      [] e = "EnvironmentMismatch" -> "InvalidRequest"
      [] e = "TooManySessions" -> "CapacityExceeded"
      [] e = "Internal" -> "InternalError"
      [] OTHER -> e

Results ==
    {"ok", "InvalidRequest", "NotFound", "SessionNotFound", "SessionExpired", "Forbidden",
     "DeniedExecutable", "CapacityExceeded", "Conflict", "InternalError", "NotConfigured"}

\* The error of the first check that fails: <<passes, error otherwise>>.
FirstError(checks) ==
    LET failed == {i \in DOMAIN checks : ~checks[i][1]}
    IN  IF failed = {} THEN "ok"
        ELSE checks[CHOOSE i \in failed : \A j \in failed : i <= j][2]

-----------------------------------------------------------------------------
(* Sessions.  `aged` says that a session's time is up.  `procs` counts the      *)
(* entries of the process table; here children do not exit and entries stay.   *)

Session ==
    [owner : Callers, env_vars : {sanitize_env(r.env_vars) : r \in CreateRequests},
     working_directory : {r.working_directory : r \in CreateRequests} \cup {"."},
     aged : BOOLEAN, procs : 0..MaxPerSession]

Removed(table, ids) == [s \in DOMAIN table \ ids |-> table[s]]

Aged(table) == {s \in DOMAIN table : table[s].aged}

\* Fault: expiry is looked at before ownership.
FaultyTouch(table, c, s) ==
    IF s \notin DOMAIN table THEN "SessionNotFound"
    ELSE IF table[s].aged THEN "SessionExpired"
    ELSE IF table[s].owner # c THEN "SessionNotFound" ELSE "ok"

\* require_live_session, touch_owned: what a caller is told of a session it
\* names.  To anybody but its owner there is no such session.
touch_owned(table, c, s) ==
    IF s \notin DOMAIN table \/ table[s].owner # c THEN session_error_to_rpc("NotFound")
    ELSE IF table[s].aged THEN session_error_to_rpc("Expired") ELSE "ok"

\* An expired entry goes, whoever touched it.
Touched(s) == Removed(sessions, {s} \cap Aged(sessions))

\* Time passes.
Age(s) ==
    /\ last = NoRequest
    /\ s \in DOMAIN sessions /\ ~sessions[s].aged
    /\ sessions' = [sessions EXCEPT ![s].aged = TRUE]
    /\ UNCHANGED <<phase, flags, state, last>>

\* A request is taken from a connection, whose client showed a certificate signed
\* by the configured authority: under ephemeral certificates no client has one.
Serving == phase = "serving" /\ state.tls = "files" /\ last = NoRequest

\* handle_connection: the reply is sent.
Answered ==
    /\ last # NoRequest
    /\ last' = NoRequest
    /\ UNCHANGED <<phase, flags, state, sessions>>

Reply(op, c, s, result) ==
    [NoRequest EXCEPT !.op = op, !.caller = c, !.sid = s, !.result = result]

-----------------------------------------------------------------------------
(* Handlers.  `env` says that the request names this daemon's environment. *)

\* Open to every caller.
handle_get_environment_info(c, env) ==
    /\ Serving
    /\ last' = Reply("get_environment_info", c, NoSession,
                     IF env THEN "ok" ELSE "InvalidRequest")
    /\ UNCHANGED <<phase, flags, state, sessions>>

\* The seven file handlers up to the point where the path is resolved.
handle_file(c, env, r) ==
    /\ Serving
    /\ last' = Reply(r.op, c, NoSession,
                     FirstError(<< <<validate_file(r), "InvalidRequest">>,
                                   <<env, "InvalidRequest">>,
                                   <<state.fs, "NotConfigured">>,
                                   <<Known(c), "Forbidden">> >>))
    /\ UNCHANGED <<phase, flags, state, sessions>>

\* Directories inside the root; what else a request may name is outside, missing
\* or not a directory.
ValidDir(dir) == dir \in {".", "work"}

\* create_owned's own checks, then the purge and the bound; an id is drawn last.
handle_create_session(c, env, r) ==
    /\ Serving
    /\ \E s \in (SessionIds \ DOMAIN sessions) \cup {NoSession} :
         LET dir     == IF r.working_directory = "none" THEN "." ELSE r.working_directory
             checked == FirstError(<< <<env, "InvalidRequest">>,
                                      <<Known(c), "Forbidden">>,
                                      <<validate_create(r), "InvalidRequest">>,
                                      <<state.fs, "NotConfigured">>,
                                      <<ValidDir(dir), "InvalidRequest">>,
                                      <<"PATH" \notin DOMAIN r.env_vars, "InvalidRequest">> >>)
             purged  == Removed(sessions, Aged(sessions))
             full    == Cardinality(DOMAIN purged) >= MaxSessions
             result  == IF checked # "ok" THEN checked
                        ELSE IF full THEN session_error_to_rpc("TooManySessions")
                        ELSE IF s = NoSession THEN session_error_to_rpc("Internal") ELSE "ok"
         IN  /\ last' = Reply("create_session", c, IF result = "ok" THEN s ELSE NoSession, result)
             /\ sessions' =
                  IF checked # "ok" THEN sessions
                  ELSE IF result # "ok" THEN purged
                  ELSE [t \in DOMAIN purged \cup {s} |->
                          IF t = s THEN [owner |-> c, env_vars |-> sanitize_env(r.env_vars),
                                         working_directory |-> dir, aged |-> FALSE, procs |-> 0]
                          ELSE purged[t]]
    /\ UNCHANGED <<phase, flags, state>>

\* What get_session and terminate_session answer.
session_error(table, c, env, s) ==
    FirstError(<< <<env, "InvalidRequest">>,
                  <<Known(c), "Forbidden">>,
                  <<touch_owned(table, c, s) = "ok", touch_owned(table, c, s)>> >>)

handle_get_session(c, env, s) ==
    /\ Serving
    /\ last' = Reply("get_session", c, s, session_error(sessions, c, env, s))
    /\ sessions' = IF env /\ Known(c) THEN Touched(s) ELSE sessions
    /\ UNCHANGED <<phase, flags, state>>

\* The cascade is module Daemon's.
handle_terminate_session(c, env, s) ==
    /\ Serving
    /\ last' = Reply("terminate_session", c, s, session_error(sessions, c, env, s))
    /\ sessions' = IF ~env \/ ~Known(c) THEN sessions
                   ELSE IF session_error(sessions, c, env, s) = "ok" THEN Removed(sessions, {s})
                   ELSE Touched(s)
    /\ UNCHANGED <<phase, flags, state>>

\* Expired sessions are purged; the reply shows the caller its own.
handle_list_sessions(c, env) ==
    /\ Serving
    /\ LET error == FirstError(<< <<env, "InvalidRequest">>, <<Known(c), "Forbidden">> >>)
           live  == Removed(sessions, Aged(sessions))
       IN  /\ sessions' = IF error = "ok" THEN live ELSE sessions
           /\ last' = [Reply("list_sessions", c, NoSession, error) EXCEPT
                          !.shown = IF error = "ok"
                                    THEN {s \in DOMAIN live : live[s].owner = c} ELSE {}]
    /\ UNCHANGED <<phase, flags, state>>

\* The working directory of a child: the request's, or the session's.
WorkDir(table, s, r) ==
    IF r.working_directory # "" THEN r.working_directory
    ELSE IF s \in DOMAIN table THEN table[s].working_directory ELSE "."

\* Fault: the caller's grants come before the policy.
FaultyExecuteError(table, c, env, s, r) ==
    FirstError(<< <<env, "InvalidRequest">>,
                  <<touch_owned(table, c, s) = "ok", touch_owned(table, c, s)>>,
                  <<Known(c), "Forbidden">>,
                  <<validate_execute(r), "InvalidRequest">>,
                  <<check_exec_grant(c, r.program), "Forbidden">>,
                  <<check_policy(state.policy, r.program) = "ok",
                    process_error_to_rpc(check_policy(state.policy, r.program))>>,
                  <<state.fs, "NotConfigured">>,
                  <<ValidDir(WorkDir(table, s, r)), "InvalidRequest">> >>)

\* handle_execute, and what start checks before it locks the process table.  The
\* session is proved live before the caller is known to be listed.
execute_error(table, c, env, s, r) ==
    FirstError(<< <<env, "InvalidRequest">>,
                  <<touch_owned(table, c, s) = "ok", touch_owned(table, c, s)>>,
                  <<Known(c), "Forbidden">>,
                  <<validate_execute(r), "InvalidRequest">>,
                  <<check_policy(state.policy, r.program) = "ok",
                    process_error_to_rpc(check_policy(state.policy, r.program))>>,
                  <<check_exec_grant(c, r.program), "Forbidden">>,
                  <<"PATH" \notin DOMAIN r.env_vars, "InvalidRequest">>,
                  <<state.fs, "NotConfigured">>,
                  <<ValidDir(WorkDir(table, s, r)), "InvalidRequest">> >>)

\* start: the bound on the session's processes, then the spawn, which may fail.
handle_execute(c, env, s, r) ==
    /\ Serving
    /\ \E spawned \in BOOLEAN :
         LET checked == execute_error(sessions, c, env, s, r)
             result  == IF checked # "ok" THEN checked
                        ELSE IF sessions[s].procs >= MaxPerSession
                        THEN process_error_to_rpc("TooManyProcesses")
                        ELSE IF spawned THEN "ok" ELSE process_error_to_rpc("Io")
         IN  /\ last' = [Reply("execute", c, s, result) EXCEPT
                           !.program = r.program, !.child = (result = "ok"),
                           !.asked = r.env_vars,
                           !.env = IF result = "ok"
                                   THEN merge_session_env(sessions[s].env_vars, r.env_vars)
                                   ELSE <<>>]
             /\ sessions' = IF result = "ok" THEN [sessions EXCEPT ![s].procs = @ + 1]
                            ELSE IF env THEN Touched(s) ELSE sessions
    /\ UNCHANGED <<phase, flags, state>>

\* handle_process_status, handle_terminate_process, handle_wait_process; `named`
\* says that the request names a process of the session.  Waiting needs the
\* grant of terminating, and its timeout is looked at before the table.
process_error(table, c, env, s, op, named, timeout) ==
    FirstError(<< <<env, "InvalidRequest">>,
                  <<touch_owned(table, c, s) = "ok", touch_owned(table, c, s)>>,
                  <<Known(c), "Forbidden">>,
                  <<IF op = "process_status" THEN check_inspect_grant(c)
                                             ELSE check_terminate_grant(c), "Forbidden">>,
                  <<op = "wait_process" => validate_wait(timeout),
                    process_error_to_rpc("InvalidRequest")>>,
                  <<named /\ s \in DOMAIN table /\ table[s].procs > 0,
                    process_error_to_rpc("NotFound")>> >>)

handle_process(c, env, s) ==
    /\ Serving
    /\ \E op \in {"process_status", "terminate_process", "wait_process"},
          named \in BOOLEAN, timeout \in WaitTimeouts :
         last' = Reply(op, c, s, process_error(sessions, c, env, s, op, named, timeout))
    /\ sessions' = IF env THEN Touched(s) ELSE sessions
    /\ UNCHANGED <<phase, flags, state>>

-----------------------------------------------------------------------------
Next ==
    \/ main
    \/ Answered
    \/ \E s \in SessionIds : Age(s)
    \/ \E c \in Callers, env \in BOOLEAN :
         \/ handle_get_environment_info(c, env)
         \/ handle_list_sessions(c, env)
         \/ \E r \in FileRequests : handle_file(c, env, r)
         \/ \E r \in CreateRequests : handle_create_session(c, env, r)
         \/ \E s \in SessionIds :
              \/ handle_get_session(c, env, s)
              \/ handle_terminate_session(c, env, s)
              \/ handle_process(c, env, s)
              \/ \E r \in ExecuteRequests : handle_execute(c, env, s, r)

Spec == Init /\ [][Next]_vars
-----------------------------------------------------------------------------
(* Properties *)

\* Every variable has its type; in particular every reply is in one of the
\* categories of RpcError that clients know.
TypeOK ==
    /\ phase \in {"starting", "refused", "serving"}
    /\ flags \in Flags
    /\ state.fs \in BOOLEAN
    /\ DOMAIN sessions \subseteq SessionIds
    /\ \A s \in DOMAIN sessions : sessions[s] \in Session
    /\ last.result \in Results

\* Whoever is not listed in the grants file gets nothing but the environment's
\* description, unless the operator asked for that with --permissive-authz and
\* gave no file: no file that fails to load, no empty file and no combination of
\* flags opens the daemon.
UnlistedGetOnlyInfo ==
    last.op \notin {"none", "get_environment_info"} /\ last.result = "ok"
        => \/ flags.permissive_authz /\ flags.grants_file = NoGrants
           \/ flags.grants_file \in GrantsFiles /\ last.caller \in DOMAIN flags.grants_file

CapabilityOf ==
    [read_file |-> "FilesystemRead", get_file_metadata |-> "FilesystemRead",
     list_directory |-> "FilesystemList", write_file |-> "FilesystemWrite",
     create_directory |-> "FilesystemWrite", rename |-> "FilesystemWrite",
     delete_file |-> "FilesystemWrite", execute |-> "ProcessExecute",
     process_status |-> "ProcessInspect", wait_process |-> "ProcessTerminate",
     terminate_process |-> "ProcessTerminate"]

\* lib.rs, build_daemon_state: "Advertising a handler that is not wired would lie
\* to clients and turn every call into an InternalError".  No operation whose
\* capability is advertised is answered with a missing backend; not even an
\* execute on a daemon without files, because no session exists there.
AdvertisedIsWired ==
    last.result = "NotConfigured" /\ last.op \in DOMAIN CapabilityOf
        => CapabilityOf[last.op] \notin state.advertised

\* The same program in other words: another directory, capitals, one ".exe".
Spells(p, base) == p.base = base /\ p.exe <= 1

\* No spelling of a denied program ever runs; with an allow list only listed
\* programs run, without one only under --permissive-exec; and a caller held to
\* grants runs only programs granted to it.
RunsOnlyAllowed ==
    last.child =>
        /\ \A d \in Denied : ~Spells(last.program, d)
        /\ IF flags.allow_list
           THEN \E a \in flags.allowed : Matches(last.program, {a})
           ELSE flags.permissive_exec
        /\ flags.grants_file # NoGrants =>
               \E g \in flags.grants_file[last.caller].programs : Matches(last.program, {g})

\* handler.rs, check_exec_grant: "`DeniedExecutable` means 'nobody may run this',
\* `Forbidden` means 'you may not'".  A listed caller is told Forbidden only of a
\* program that the daemon would run for somebody.
ForbiddenMeansYou ==
    last.op = "execute" /\ last.result = "Forbidden" /\ Known(last.caller)
        => check_policy(state.policy, last.program) = "ok"

\* A child's variables that clients decide: never PATH, never a loader variable,
\* whichever request brought it; the execute request's over the session's, and
\* none lost.
ChildEnvironment ==
    last.child =>
        LET stored == sessions[last.sid].env_vars
        IN  /\ DOMAIN last.env = (DOMAIN stored \cup DOMAIN last.asked) \ LoaderKeys
            /\ "PATH" \notin DOMAIN last.env
            /\ \A k \in DOMAIN last.env :
                 last.env[k] = IF k \in DOMAIN last.asked THEN last.asked[k] ELSE stored[k]

\* docs/grants.md: other principals' sessions are indistinguishable from ones
\* that never existed.  Whatever a caller asks about a session that is not its
\* own, live or expired, the answer is the one for an unknown id, and no listing
\* shows it.
NoOracle ==
    phase = "serving" =>
        /\ \A s \in last.shown \cap DOMAIN sessions : sessions[s].owner = last.caller
        /\ \A s \in DOMAIN sessions : \A c \in Callers \ {sessions[s].owner} :
             LET without == Removed(sessions, {s})
             IN  /\ session_error(sessions, c, TRUE, s) = session_error(without, c, TRUE, s)
                 /\ \A r \in ExecuteRequests :
                      execute_error(sessions, c, TRUE, s, r) = execute_error(without, c, TRUE, s, r)
                 /\ \A op \in {"process_status", "wait_process"} :
                      process_error(sessions, c, TRUE, s, op, TRUE, 1)
                        = process_error(without, c, TRUE, s, op, TRUE, 1)
=============================================================================
