------------------------------ MODULE Requests ------------------------------
(***************************************************************************)
(* What the daemon makes of the contents of a request before it acts on    *)
(* it: validation (crates/are-core/src/request.rs), program names and the  *)
(* executable policy, and the environment of a child                       *)
(* (crates/are-core/src/grant.rs, crates/are-daemon/src/process.rs).       *)
(*                                                                         *)
(* Texts are small values.  Nul stands for every text with a NUL byte and  *)
(* Long for every text over its length limit.  A program name is a record: *)
(* its directory part, its base name, whether it is written in capitals,   *)
(* and how many ".exe" follow.                                             *)
(***************************************************************************)
EXTENDS Integers, Sequences, FiniteSets

CONSTANTS
    MAX_EXEC_ARGS,
    MAX_EXEC_ENV_VARS,
    MIN_WAIT_TIMEOUT_SECS,
    MAX_WAIT_TIMEOUT_SECS,
    Denied               \* DEFAULT_DENIED_EXECUTABLES, as base names

ASSUME RequestsAssumption ==
    /\ {MAX_EXEC_ARGS, MAX_EXEC_ENV_VARS} \subseteq Nat
    /\ {MIN_WAIT_TIMEOUT_SECS, MAX_WAIT_TIMEOUT_SECS} \subseteq Nat

Nul == "nul"
Long == "long"

\* Names of environment variables, by what the code does with them.
BadKeys == {"", "a=b", Nul, Long}
LoaderKeys == {"LD_PRELOAD", "DYLD_INSERT"}

-----------------------------------------------------------------------------
(* validate *)

validate_env_vars(env) ==
    /\ Cardinality(DOMAIN env) <= MAX_EXEC_ENV_VARS
    /\ \A k \in DOMAIN env : k \notin BadKeys /\ env[k] \notin {Nul, Long} /\ k # "PATH"

\* ExecuteRequest::validate.  An empty working directory is valid.
validate_execute(r) ==
    /\ r.program # [dir |-> "", base |-> "", upper |-> FALSE, exe |-> 0]
    /\ r.program.base # Nul
    /\ r.working_directory # Nul
    /\ Len(r.args) <= MAX_EXEC_ARGS
    /\ \A i \in DOMAIN r.args : r.args[i] \notin {Nul, Long}
    /\ validate_env_vars(r.env_vars)

\* CreateSessionRequest::validate; "none" is None.
validate_create(r) ==
    /\ r.working_directory \notin {"", Nul}
    /\ validate_env_vars(r.env_vars)

\* WaitProcessRequest::validate
validate_wait(timeout_secs) == timeout_secs \in MIN_WAIT_TIMEOUT_SECS..MAX_WAIT_TIMEOUT_SECS

\* Of the file requests the handlers validate only those that write: no empty
\* path, and an expected hash (of a write; None here is "none") in shape.
validate_file(r) ==
    r.op \in {"write_file", "create_directory", "rename", "delete_file"}
        => r.path # "" /\ r.expected_hash # "malformed"

-----------------------------------------------------------------------------
(* Program names *)

\* The base name in lower case without one trailing ".exe".
normalize_program_name(p) == <<p.base, IF p.exe > 0 THEN p.exe - 1 ELSE 0>>

\* A name as a policy or a grants file writes it.
Named(base) == [dir |-> "", base |-> base, upper |-> FALSE, exe |-> 0]

\* Some entry names the program.
Matches(p, entries) ==
    \E e \in entries : normalize_program_name(e) = normalize_program_name(p)

\* Fault: the deny list is compared as it is written.
FaultyCheckPolicy(policy, p) ==
    IF p \in {Named(d) : d \in Denied} THEN "DeniedExecutable"
    ELSE IF policy.allow_list
         THEN IF Matches(p, policy.allowed) THEN "ok" ELSE "DeniedExecutable"
         ELSE IF policy.permissive THEN "ok" ELSE "PolicyDenied"

\* ProcessConfig::check_policy: the deny list always, then the allow list if
\* there is one, else the development switch.
check_policy(policy, p) ==
    IF Matches(p, {Named(d) : d \in Denied}) THEN "DeniedExecutable"
    ELSE IF policy.allow_list
         THEN IF Matches(p, policy.allowed) THEN "ok" ELSE "DeniedExecutable"
         ELSE IF policy.permissive THEN "ok" ELSE "PolicyDenied"

\* An empty name is never granted.
grants_allow_exec(programs, p) ==
    normalize_program_name(p) # <<"", 0>> /\ Matches(p, programs)

-----------------------------------------------------------------------------
(* The environment of a child, as far as clients decide it *)

\* Loader variables are dropped without an error.
sanitize_env(env) == [k \in DOMAIN env \ LoaderKeys |-> env[k]]

\* Fault: only the stored layer is sanitized.
FaultyMerge(session_env, request_env) ==
    [k \in DOMAIN session_env \cup DOMAIN request_env |->
        IF k \in DOMAIN request_env THEN request_env[k] ELSE session_env[k]]

\* The request's variables over the session's, then sanitized.
merge_session_env(session_env, request_env) ==
    sanitize_env([k \in DOMAIN session_env \cup DOMAIN request_env |->
                     IF k \in DOMAIN request_env THEN request_env[k] ELSE session_env[k]])
=============================================================================
