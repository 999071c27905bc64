---------------------------- MODULE SessionTable ----------------------------
(***************************************************************************)
(* The session manager's table (crates/are-daemon/src/session.rs).         *)
(*                                                                         *)
(* A table is a function from session ids to records.  Every operation of  *)
(* SessionManager is one critical section under one mutex; it is written   *)
(* here as an operator from the table to the record                        *)
(*     [table |-> new table, result |-> reply, purged |-> removed ids]     *)
(* that mirrors the `(Result, Vec<SessionId>)` the code returns.  `t` is   *)
(* the caller's reading of the wall clock, taken BEFORE the lock.          *)
(***************************************************************************)
EXTENDS Integers, FiniteSets

CONSTANTS
    SessionIds,      \* ids the CSPRNG can draw
    Callers,         \* client-certificate fingerprints, plus perhaps Legacy
    Legacy,          \* caller/owner `None`: the legacy path without identity
    NoSession,       \* no id: an operation that names none, or a failed draw
    IdleTimeout,     \* idle_timeout_secs
    MaxLifetime,     \* max_lifetime_secs
    MaxSessions      \* max_sessions

ASSUME SessionConfigAssumption ==
    /\ IdleTimeout \in Nat
    /\ MaxLifetime \in Nat
    /\ MaxSessions \in Nat \ {0}
    /\ NoSession \notin SessionIds

\* SessionInfo, without the working directory and the environment variables,
\* which no session operation reads.  Two fields are history that no operation
\* looks at: `used` is the latest clock reading of any request that created or
\* touched the session, and `overtaken` says that the last one to touch it had
\* read the clock before another that touched it earlier.
SessionRecord ==
    [owner : Callers \cup {Legacy}, created_at : Nat, last_activity : Nat,
     used : Nat, overtaken : BOOLEAN]

NewSession(caller, t) ==
    [owner |-> caller, created_at |-> t, last_activity |-> t, used |-> t, overtaken |-> FALSE]

IsSessionTable(table) ==
    DOMAIN table \subseteq SessionIds /\ table \in [DOMAIN table -> SessionRecord]

\* Fault: abs_diff in place of saturating_sub.
FaultyDifference(a, b) == IF a > b THEN a - b ELSE b - a

\* u64::saturating_sub
saturating_sub(a, b) == IF a > b THEN a - b ELSE 0

is_expired(info, t) ==
    \/ saturating_sub(t, info.last_activity) > IdleTimeout
    \/ saturating_sub(t, info.created_at) > MaxLifetime

\* Fault: the owner is not compared.
FaultyPermits(owner, caller) == TRUE

\* An ownerless record is a wildcard; an owned one is its owner's only.
owner_permits(owner, caller) == owner = Legacy \/ owner = caller

Without(table, ids) == [s \in DOMAIN table \ ids |-> table[s]]

With(table, s, info) == [x \in DOMAIN table \cup {s} |-> IF x = s THEN info ELSE table[x]]

Outcome(table, result, purged) == [table |-> table, result |-> result, purged |-> purged]

Expired(table, t) == {s \in DOMAIN table : is_expired(table[s], t)}

\* Every expired entry leaves the table; the removed ids are reported.
purge_expired_locked(table, t) ==
    Outcome(Without(table, Expired(table, t)), "ok", Expired(table, t))

-----------------------------------------------------------------------------
(* The operations. *)

\* Fault: the bound is checked against the size before the purge.
FaultyCreate(table, s, caller, t) ==
    LET swept == purge_expired_locked(table, t)
        info  == NewSession(caller, t)
    IN  IF Cardinality(DOMAIN table) >= MaxSessions
        THEN Outcome(swept.table, "capacity", {})
        ELSE Outcome(With(swept.table, s, info), "ok", swept.purged)

\* Purge, then refuse if still full, then draw an id (s is NoSession when the
\* CSPRNG fails or keeps colliding).  The two refusals return an error and so
\* drop the list of purged ids.
create_owned(table, s, caller, t) ==
    LET swept == purge_expired_locked(table, t)
        info  == NewSession(caller, t)
    IN  IF Cardinality(DOMAIN swept.table) >= MaxSessions
        THEN Outcome(swept.table, "capacity", {})
        ELSE IF s = NoSession
             THEN Outcome(swept.table, "internal", {})
             ELSE Outcome(With(swept.table, s, info), "ok", swept.purged)

\* What a caller who names session s is told, and whether s is removed as
\* expired: shared by get_owned, touch_owned and terminate_owned.  A caller
\* the record does not permit learns nothing, not even that s expired.
Miss(table, s, caller, t) ==
    LET hidden == ~owner_permits(table[s].owner, caller)
        gone   == is_expired(table[s], t)
    IN  Outcome(IF gone THEN Without(table, {s}) ELSE table,
                IF hidden THEN "notfound" ELSE "expired",
                IF gone THEN {s} ELSE {})

Permitted(table, s, caller, t) ==
    /\ s \in DOMAIN table
    /\ owner_permits(table[s].owner, caller)
    /\ ~is_expired(table[s], t)

\* The bump: last_activity is the caller's reading, even one that is older than
\* what it replaces.
Touched(info, t) ==
    [info EXCEPT !.last_activity = t,
                 !.used = IF t > info.used THEN t ELSE info.used,
                 !.overtaken = t < info.used]

\* Also touch_owned, which is an alias.
get_owned(table, s, caller, t) ==
    IF s \notin DOMAIN table THEN Outcome(table, "notfound", {})
    ELSE IF Permitted(table, s, caller, t)
         THEN Outcome([table EXCEPT ![s] = Touched(table[s], t)], "ok", {})
         ELSE Miss(table, s, caller, t)

\* Listing bumps nothing.  (Which of the remaining records the reply shows the
\* caller changes no state and is left out.)
list_owned(table, t) == purge_expired_locked(table, t)

terminate_owned(table, s, caller, t) ==
    IF s \notin DOMAIN table THEN Outcome(table, "notfound", {})
    ELSE IF Permitted(table, s, caller, t)
         THEN Outcome(Without(table, {s}), "ok", {})
         ELSE Miss(table, s, caller, t)
=============================================================================
