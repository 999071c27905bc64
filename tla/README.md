# Specifications of ARE

ARE is a daemon that lets remote agents work in an environment: it keeps
sessions, runs programs in them, and gives access to files below configured
roots. This directory holds TLA+ specifications of the daemon, of the clients
that call it and of the connection between them, the TLC configurations that
check them on small instances, and proofs of their safety properties. Paths such as
`process.rs` are below `crates/are-daemon/src/`.

## The system

| Part | State | Operations | How it interacts |
|---|---|---|---|
| Session manager (`session.rs`) | one table: id, owner, creation time, last activity | create, get/touch, list, terminate; each first removes what has expired | called by the handlers; reports removed ids so that the handler can kill their processes |
| Process manager (`process.rs`) | one table: session, state, output, kill flag | start, status, wait, terminate, kill all of a session, eviction | called by the handlers; one supervisor task and two reader tasks per child share its entry |
| Handlers (`handler.rs`) | none of their own | one per RPC | take the two tables' locks one after the other, never both |
| File system (`fs.rs`) | the host's | resolve a path, read, list, write, rename, delete, mkdir | no lock: requests and other host processes interleave between system calls |
| Grants (`grants.rs`, core `grant.rs`) | a read-only table: certificate fingerprint to scopes | look-ups | handlers ask before they act |
| Transport (`server.rs`, `framing.rs`, `tls.rs`, `auth.rs`) | a connection | one request and one reply per connection | derives the caller from the client certificate |
| Client, agent adapter, command line | a connection, a cached session id | one call per operation | drive the daemon |
| Core types (`are-core`) | none | validation, ids, host information | used by all |

What makes it correct, and what is hard:

* **Sessions and processes.** Removing a session must not leave a live process
  that nobody can name. Handlers prove that a session is alive, release the lock
  and act later; expiry, termination and execution interleave. `hazards` in
  `PROJECT.json` lists the lines.
* **Owners.** A caller must see and keep alive only what it owns, across expiry
  and reuse of the tables.
* **Bounds.** The tables are bounded and make room by eviction; a live child must
  keep its entry.
* **One process.** Its exit must be published although descendants may hold its
  pipes, its output must be a faithful capped copy, and every call must return,
  although notifications can be missed.
* **Start-up and policy.** No combination of flags and files that fail to load
  may open the daemon; no spelling of a program may get round a list; a child's
  environment is merged from two requests; and errors must not tell a caller of
  other callers' sessions.
* **Calls.** There is one request per connection, no timeout and no retry: a
  connection may break or fall silent, and the daemon restart, at any point of
  either message.
* **Files.** Writes must be atomic for readers and across crashes; nothing may be
  overwritten unasked; paths must stay below the roots, and effects inside the
  caller's grants, whatever links exist.

## The modules

| Module | Models | Uses |
|---|---|---|
| `SessionTable` | `session.rs`: the table as a value, each critical section as an operator | |
| `ProcessTable` | `process.rs`: the table as a value, eviction, look-up, kill flags | `SessionTable` |
| `Daemon` | `handler.rs` over both tables, supervisors reduced to reap and publish | `ProcessTable` |
| `DaemonProofs` | theorems about `Daemon`: types, orphans, the cascade | `Daemon` |
| `DaemonAccessProofs` | theorems about `Daemon`: bounds, owners, time, eviction | `DaemonProofs` |
| `ManagedProcess` | abstract: what the daemon promises of one process | |
| `ProcessLifecycle` | `supervise`, `await_drain`, `read_capped`, `wait`, `terminate` of one process | refines `ManagedProcess` |
| `FileOps` | `write_file`, `atomic_commit`, `rename_path`, `delete_path`, `create_directory` as system calls, with crashes | |
| `Paths` | `resolve`, `resolve_no_follow`, `classify_missing_parent`, `ensure_dir_under_root` as operators on trees with links | |
| `FileAccess` | the seven file handlers with the file grants (`grant.rs`, `grants.rs`) and the operations of `fs.rs` they call | `Paths` |
| `Requests` | validation (`request.rs` of core), program names, executable policy, environment merge, as operators | |
| `Service` | start-up (`main.rs`, `lib.rs`, `grants.rs`) and the checks of every handler, in order | `Requests` |
| `Calls` | the command line, the adapter, `SecureClient`, framing and the server's task per connection | |
| `LifecycleProofs`, `FileOpsProofs`, `FileAccessProofs`, `ServiceProofs`, `CallsProofs` | theorems about `ProcessLifecycle`, `FileOps`, `FileAccess`, `Service`, `Calls` | the module each is about |
| `FileGrantsProofs` | theorems about `FileAccess`: nothing is cut off, handlers keep to the grants | `FileAccessProofs` |
| `MCDaemon`, `MCLifecycle`, `MCFileOps`, `MCFileAccess`, `MCService`, `MCCalls` | constants and symmetry for TLC | the modules above |

Definitions named `Faulty...` (and `EagerReap`, `UnboundedDrain`) are plausible
bugs: put in place of the definition that follows them they make a property
fail. No specification uses them.

### Daemon

`sessions` and `procs` are the two tables, `now` the clock in seconds, and
`req[r]` a request in flight. A request's `pc` names the critical section it
enters next; between any two, everything else may happen. A session-scoped
request goes `enter` (touch the session: `require_live_session`), `act`, then,
for `execute`, `spawn` (slot reserved, child not yet started) and `reply`; for
`terminate_session`, `cascade` (kill flags, one entry at a time), `remove` and
`reply`. At `reply` the handler still kills the processes of the sessions it saw
removed (`pending`, then `targets`) and only then answers.

The clock is read before the lock is taken (`req[r].t`), as in the code. Ids are
128 random bits, so a drawn id is one that nothing refers to; that the draw
itself fails is allowed by `CsprngMayFail`. Refusals that depend on data that is
left out (validation, executable policy, working directory) are the action
`ChecksRefuse`. Two fields of an entry are history: `by`, who started it, and
`late`, true when the entry was inserted after its session had left the table or
after the session's cascade had taken its snapshot. Late entries are the race
that `process.rs` documents (RACE NOTE); the safety properties except exactly
these. Two fields of a session record are history as well: `used`, the latest
clock reading of any request that created or touched the session, and `overtaken`,
true when the last request to touch it had read the clock before one that touched
it earlier. `NoEarlyExpiry` judges by these and not by `last_activity`, which
`get_owned` can set back (see the findings). Mutex poisoning is not modelled: no code panics while it holds a lock.

### ProcessLifecycle and ManagedProcess

Bytes are numbered in the order the child writes them, so "the captured output is
a prefix" is a statement about numbers. The child, and descendants who hold its
pipes, write, close and exit whenever they like. A reader holds a chunk between
`pipe.read` and the entry's lock; an aborted reader goes on to its next await.
`notify_waiters` wakes only calls that are parked at that moment. `LoseChild` is
`try_wait` failing; an error of `start_kill` is left out, since the code logs it and
tries again at the next poll. `ManagedProcess` keeps three variables; `Daemon`'s entries
follow the same life (`RequestKill`, `ChildExits`/`KillChild`, `Publish`), so
`ImplementsManagedProcess` is what justifies that `Daemon` leaves pipes and
waiters out.

### FileOps

One directory; a name is absent, a file, or an empty directory; content stands
for its own hash. Every system call is an action and any may fail: `Fails` is for
those whose failure the code reports, and the calls whose failure it ignores say so
themselves (`SyncDir`, `Cleanup`, `RenameStatDst`). A temporary file that `Cleanup`
failed to remove, or that a crash left, is in the history variable `strays`.
`Kinds` bounds which operations clients ask for; each of `Slots` is one request, and
after a crash the daemon's next life has requests of its own.
`disk` is the directory as last synced; after a crash each name has its synced
entry or the newer one, and unsynced content may be lost. The Linux
`rename_noreplace` is modelled; the portable fallback, whose window `fs.rs`
documents, is not. Clients are assumed not to name temporary files (`Names` and
`Temps` are disjoint): their names are 128 random bits, but `list_directory` shows
them and `rename_path` would take one, and a client that renamed a temporary file
in the making would see it torn.

### Paths and FileAccess

A location is the sequence of names from the top of the file system, a request a
sequence of names, `.` and `..`; a first `/` stands for the shapes that
`check_path_shape` refuses. `canonicalize` is external and modelled by what it
does: it follows names one by one (`Follow`), and links up to `LinkLimit`, and
fails with not-found, not-a-directory or a loop. A link's target has at most
`TargetLimit` names, as the system bounds the length of a path, so that
`Len(names) + LinkLimit * TargetLimit` steps are enough for any walk (the theorem
`WalkEnds`). Walks, and the folds over names (`Without`, `MakeAll`, `Joined`), are
recursive functions of the number of steps, and not recursive operators, so that
they can be reasoned about. A root is canonical, and the code does not ask whether
it is a directory: when it is a file, `ensure_dir_under_root` fails with an I/O
error at its first component.

`FileAccess` handles one request per behaviour, by a caller without restrictions,
one the grants file does not list, or one that holds what a file gives it after
`normalize_grant_root`. Each handler is its code's series of early returns
(`Early`), in order: validation, unknown principals, resolution, grant, operation.
Grant roots and paths are compared as strings of characters, as `root_covers`
does (`Joined`), and the property judges by whole names. The tree stays as it is while one
request is handled, so the second resolution of each operation returns what the
first did; that a link may change in between is a limitation `docs/grants.md`
documents, and it is not modelled. Content, hashes and permissions are left out,
and requests name the daemon's own environment.

### Requests and Service

`Service` begins with a command line of `ared listen` (`flags`) and ends in
`refused` or `serving`, with `state` what `build_daemon_state` made of it. Then
it handles requests one at a time: each handler is the list of its checks, in
the order of the code, and `FirstError` is the first that fails. `last` keeps the
request in hand, its result and, of an execute, the child's environment. Sessions
have an owner, stored variables, a directory and a flag that their time is up.
What `Service` leaves out other modules have: interleaving, clocks and the cascade
(`Daemon`), what happens to a path once a file request is let through
(`FileAccess`), and the life of a child (`ProcessLifecycle`); entries of the
process table stay here, so that the bound per session is met.

A program name is a record (directory, base name, capitals, number of `.exe`), a
variable name one of those the code tells apart; `Nul` and `Long` stand for every
text with a NUL byte or over its limit. Errors are the code's own variants and
become categories of `RpcError` by `process_error_to_rpc` and
`session_error_to_rpc`.

### Calls

Each call is a command of `are-cli` or a method of the adapter: an operation and
the inputs that are looked at before anything is sent. A connection has two
frames, each nothing, partly or wholly written, and the two sides' positions:
`call[c].pc` the client's, `conn[c].srv` the server task's. Lengths are numbers
next to `MaxPayload`, and content costs two to four bytes of JSON per byte
(`Encoded`). The handler itself is one step that succeeds or fails; of the
daemon's state only which sessions exist is kept. `Cut` breaks a connection so that
both sides learn of it; `GoSilent` breaks it so that nothing arrives any more and
neither does, until perhaps a `Cut`; `Stall` stops a client without closing its
connection; `Restart` kills every task and the session table with it, `Expire` ends a session.
`call[c].handled` counts, as history, how often the daemon acted for a call.
`SecureClient` only sends requests that parse, so the daemon's error for a frame
that is not JSON does not occur.

## The runs

| Run | Checks | Shows |
|---|---|---|
| `orphans` | `TypeOK`, `NoSilentOrphan`, `CascadeComplete`, `OrphansDie` | no expiry and no termination forgets a process it could see; those processes do end |
| `access` | `OnlyOwnersReach`, `OnlyKnownOwnersBump`, `NoEarlyExpiry` | owners and strangers, while sessions expire; stale clock readings expire no session in use, unless its last touch was overtaken |
| `bounds` | `WithinBounds`, `LiveNeverEvicted` | three limits under concurrent spawns; eviction spares live children |
| `lifecycle` | `TypeOK`, `CapturedIsPrefix`, `UntruncatedIsComplete`, `ExitIsPublished`, `CallsReturn`, `ImplementsManagedProcess` | faithful output from both pipes, progress, and the refinement with its fairness |
| `mutations` | `TypeOK`, `NeverTorn`, `NoStrays`, `NoSilentOverwrite` | two names, three mutations of any kind, failures and crashes anywhere |
| `service` | `TypeOK`, `UnlistedGetOnlyInfo`, `AdvertisedIsWired`, `RunsOnlyAllowed`, `ForbiddenMeansYou`, `ChildEnvironment`, `NoOracle` | every start-up, then who may do what, and what errors tell |
| `calls` | `TypeOK`, `OnlyWholeMessages`, `AtMostOnce`, `CleanFailures`, `NoHandleLost`, `CallsEnd` | every command over connections that break or fall silent and a daemon that restarts |
| `inside` | `ResolvedStaysInside`, `NamedStaysInside`, `CreatesInside`, `ActsWithinGrants`, `NothingCutOff` | every small tree with every request of up to three components, by every kind of caller |
| `late_sweep` | `SweepFindsLate`, violated | finding 1 |
| `failed_draw` | `NoSilentOrphan` with failing draws, violated | finding 2 |
| `expected_hash` | `CommitMatchesExpected`, violated | finding 3 |
| `durable` | `AcknowledgedIsDurable`, violated | finding 4 |

**Bounds.** Two requests suffice for every race between a check and its use, and
one clock tick with zero timeouts makes sessions expire at every point; `late_sweep`
has no tick, so that its race is the one with `terminate_session`. `access`
has an idle timeout of one tick, a lifetime of two and three ticks, so that a
session can be kept alive, a clock reading can lag behind by more than the timeout,
the lifetime does not hide what the idle timeout does, and both are met; sessions end
there by expiry, in `orphans` by termination too. The two session ids of `access` let a process entry outlive its session while another caller has
begun the next. The other runs have more session ids than the table holds, so
that a session can be created while an old one is still being cleaned up.
`bounds` has one process id more than
`max_processes` and an eviction between. `orphans` has one process; the theorems
below cover any number. `lifecycle` writes more than the cap on one pipe, so that
a chunk can straddle it; the other pipe is only held open and closed, and the
written one's reader may fail. `mutations` has three requests between any two crashes, of
any kind, in any interleaving and order, and two temporary names: two writes can be
in progress at once, and when a failed removal or a crash has left one file behind
the next write takes the other name. In `inside`, `Node`
has every kind of link that the code tells apart, targets have up to two names and
a walk may meet four links, which some paths exceed with and without a loop; paths
of three components put dots and links before, at and after a missing component;
in one more tree the first root is a file;
one of the two names begins like the other, and grants name either, an inner
directory, the whole root, nothing, or a climbing root that is not loaded.
`service` has two callers and grants files that list nobody, both, a denied
program, a fingerprint in capitals and entries that do not load; command lines are
every one with one policy, and every policy with the usual flags; one session and
one process per session put both tables at their limits. `calls` runs every
command alone, and each session or process command next to a create; `MaxPayload` is four and lengths lie
below, at and just above it, for requests and for replies.
`MaxTime` and `MaxWrite` are the bounds on counters.

**Fairness.** Tokio polls every task that can run, so `Daemon` has weak fairness
for each handler and each supervisor, and `ProcessLifecycle` for the supervisor
and each call (the steps of its timers included). `Calls` has it for both sides
of a connection: the daemon's task, and a client's unless it stalls, is run when its
read or write can go on or when it can see that its peer has closed. Nothing makes a
connection break, nobody need notice that one is silent (neither side sets a timeout
or a keepalive), and a stalled client takes no further step; `CallsEnd` excepts
exactly these two. In `Daemon` and `ProcessLifecycle` nothing is assumed of clients,
and nowhere of children, of whoever holds a pipe, of the clock, or of the readers: the
drain is bounded by a timer for exactly that reason.

**Deadlock** is checked except in `ProcessLifecycle`, where everything ends when
the process is published and all calls have returned, in `FileAccess`, where a
behaviour handles one request, in `Service`, where a daemon may refuse to start,
and in `Calls`, where all calls end.

## What is proved

The theorems hold for every value of the constants: any number of sessions,
processes, callers, requests, names, calls; any limits, lists, files and contents.
Each safety property that a passing run checks, invariant or action property, is a
theorem too. Hardly any is inductive alone; each proof module states the invariant
that is, and proves it action by action.

### Daemon

`DaemonProofs`:

* `TypeCorrect`: `Spec => []TypeOK`. The invariant is `TypeInv`, which adds
  `Shape`: what `pc`, `pid`, `targets` and `child` say of each other, without
  which a reserved entry could vanish under its spawn.
* `NoSilentOrphanTheorem` and `CascadeCompleteTheorem`, assuming `~CsprngMayFail`
  (finding 2 shows why it is needed).

Their invariant is `OrphanInv`. That a request at `reply` with answer ok has
killed everything says nothing of the steps before, so the invariant follows a
process through the cascade:

* `CascadeSees`: while a request is at `cascade` or `remove`, each running process
  of its session is late, has its kill flag, or is among the targets left (and at
  `remove` none are left);
* `OrphansDoomed`: a process whose session has left the table is late, has its
  flag, or some request is going to kill it;
* `TerminatedIsGone`: when terminate_session has answered ok the session is not in
  the table, so that no later execute can add to it unless late;
* `SessionsBounded`: the table never exceeds `max_sessions`. Therefore a create
  that is refused for capacity has purged nothing (a full table minus something
  is not full), and its dropped list of ids was empty.

Actions that only let processes end share one lemma through the predicate `Wanes`.

`DaemonAccessProofs` first says what any step may do to a session record, to a
process entry and to a request (`SessionEffects`, `ProcessEffects`,
`RequestEffects`), and rests five theorems on that:

* `WithinBoundsTheorem` (`BoundsInv`): check and insertion are in one critical
  section, and every other step only shrinks the tables.
* `OnlyOwnersReachTheorem` (`AccessInv`): every entry was started by the owner of
  its session, also after that session has left the table, because ids are not
  drawn twice while something refers to them.
* `OnlyKnownOwnersBumpTheorem` (`KnownInv`): owners of sessions are known, hence
  the touch that comes before the refusal of unknown principals bumps nothing for
  them.
* `NoEarlyExpiryTheorem` (`TimeInv`): no request's clock reading is ahead of the
  clock, what was over age at a reading is over age now, and `last_activity` is the
  latest of the readings of those who used the session unless the last of them was
  overtaken (`Recorded`).
* `LiveNeverEvictedTheorem` (`ReservedInv`): terminal entries have been reaped, and
  a reserved slot belongs to exactly one spawn.

### One process

`LifecycleProofs`, with `LifecycleInv`: what is captured has the length of what was
read and appended, or the output is marked and at the cap (`Captures`); a reader
ends at the end of the pipe, with an error, or the output is marked (`Endings`);
publication comes after the drain (`Phases`); and a complete reply stays complete
because its pipes have no writer left (`Replies`).

* `LifecycleTypeCorrect`, `CapturedIsPrefixTheorem`, `UntruncatedIsCompleteTheorem`;
* `SafelyImplements`: every step is a step or a stutter of `ManagedProcess`
  (`AbstractSafety`). The fairness of `ImplementsManagedProcess` is TLC's.

### Files

`FileOpsProofs`, with `FileInv`: each request's temporary file exists, is its own,
is complete from `sync` on and safe from `syncdir` on (`HoldsOf`, `Apart`); names
of clients show whole files in the directory and on disk (`NamesWhole`), which is
what a crash needs, since it mixes the two. `NoStraysTheorem` needs no assumption on
failures: a temporary file that no request owns is one that a failed removal or a
crash left.

* `FileOpsTypeCorrect`, `NeverTornTheorem`, `NoStraysTheorem`, and the action
  property `NoSilentOverwriteTheorem`.

`FileAccessProofs`. The properties are about what recursive functions compute, for
every tree. Induction over the naturals is derived from the well-foundedness of
`<` in a form that takes a set and no operator (`Induction`); `Iteration` shows
that a recursive function exists and does what its definition says. The invariant
of the walk is `Canonical`: the location reached has no link, no dot and nothing
missing on the way, whatever links were followed to it. `FoundIsCanonical` and
`CanonicalStays` say that `canonicalize` finds such locations and leads each to
itself; the boundary checks of `resolve` then do the rest. For
`ensure_dir_under_root` the invariant is `Grown` and `Arrived`, by induction over
the components: what is new is a directory below the root, and so is the location
reached.

* `ResolutionStaysInside`, `NamingStaysInside`, the action property
  `CreationStaysInside`, and `WalkEnds`, from a measure (`StepsLeft`) that every
  step of a walk takes down.

`FileGrantsProofs`. Two more theorems about the handlers need to know what a path
the caller was admitted to is, and what an operation that succeeds does there.

*Resolution.* `resolve` canonicalizes the path with its dots, the parent without
(`Path::components` drops them), and answers with the parent's location and the
last name. That this leaf is not there, or is a link that leads nowhere, has to
follow from the first lookup. `WalksMeet`: two walks that come to the same place
with the same names left end together, unless the one with fewer links to spend
runs out of them. `AppendEnds`: what one name more does to where a walk ends is
decided there. `DotsEnd`, by induction over the names: with and without dots a
walk ends alike, unless a dot was asked for below what is no directory. So the
leaf is in a directory and is not found when it is looked up again from its real
parent (`LeafMissing`), and a location that is found is `Canonical`: what is read
is what was authorised.

*Operations.* `WriteChanges`, `DeleteChanges` and `RenameChanges` say what a
handler does to the tree when its early returns all pass; `MoveEntryMoves` says of
`rename(2)` which entries it takes and where they arrive.

*Grants.* `root_covers` compares strings. `CutIsText`, by induction over the names:
the separators of a joined text are those between the names, so a prefix that ends
at one is the joined text of the first names (`CoversInNames`). The root of a
grant is itself a joined text, since a file with a climbing root does not load
(`GrantRootsTyped`). Hence what `check_fs_grant` lets through is in a granted
directory in whole names (`GrantedHolds`), and so is everything below it
(`HoldsBelow`), which is what a rename of a directory needs.

* `NothingIsCutOff`: `Spec => []NothingCutOff`, with the request that is still
  waiting (`Waiting`) as the other part of the invariant.
* `HandlersActWithinGrants`: the action property `ActsWithinGrants`, with `Waiting`
  and `KnownCaller` (the caller is one that a loaded grants file can make).

### Start-up and checks

`ServiceProofs`, with `ServiceInv`: what a serving daemon goes by is what its
command line said (`Configured`), no session has PATH among its variables
(`TableOK`), without a file backend there are no sessions (`SessionsNeedFiles`,
which is why an execute never meets the missing backend), and what the reply in
hand and the child say was checked (`ReplyOK`, `ChildOK`). What each handler
answers is a lemma about its list of checks (`ExecuteError`, `ProcessError`,
`FileError`, ...).

* `ServiceTypeCorrect`, `UnlistedGetOnlyInfoTheorem`, `AdvertisedIsWiredTheorem`,
  `RunsOnlyAllowedTheorem`, `ForbiddenMeansYouTheorem`, `ChildEnvironmentTheorem`,
  `NoOracleTheorem`.

### Calls

`CallsProofs`, with `CallsInv`: the position of the server's task bounds how much
of each frame is written and how often it acted (`TaskOf`), a client's result says
what it has received (`ResultOf`), and no session an agent was told of is
forgotten unless ended (`Remembered`).

* `CallsTypeCorrect`, `OnlyWholeMessagesTheorem`, `AtMostOnceTheorem`,
  `CleanFailuresTheorem`, `NoHandleLostTheorem`.

### Assumptions

They are the `ASSUME`s of the modules, which TLC evaluates in every run: limits are
naturals (`max_sessions` positive); null values are not ids, names or contents
(`FileOps`: the sentinel for no hash is also not a name); clients do not name
temporary files (`FileOps`, see there); scripts are made of
commands (`Calls`); roots and requests are sequences of names, there is a root, and
trees are made of nodes whose links keep to `TargetLimit` (`Paths`, `FileAccess`);
every entry of a tree is in a directory (`TreesConnected`); no name has a `/` in it,
and trees, roots, requests and grant roots are made of names that have a spelling,
requests and grant roots also of dots (`NamesSpelled`, which is what splitting at
`/` gives; two names may have the same spelling, or an empty one);
a program name ends in a natural number of `.exe` and a file
request is one of the seven (`Service`).

### Only model-checked

* Liveness: `OrphansDie`, `ExitIsPublished`, `CallsReturn`, `CallsEnd`, and the
  fairness part of `ImplementsManagedProcess`. The proof system has no rules for
  fairness and `ENABLED`.
* What the four runs show that expect a violation: a counterexample is its own
  proof.

## Findings

1. **A late process is never swept.** `process.rs` lines 17-23 say that a process
   whose execute raced the end of its session "survives until the next expiry
   sweep kills it". Sweeps report sessions that are still in the table; this one
   is gone, so no sweep, and no other request, finds the process. It holds a slot
   of the table until it exits by itself. The run shows the race with
   `terminate_session`. The model has the same race with an expiry sweep, which
   contradicts `session.rs` lines 36-40 ("Live processes therefore never become
   unaddressable table residents"); no run is kept for it.
2. **A failed draw orphans.** `create_owned` purges, then draws an id with `?`: on
   failure the purged ids are lost and their live processes are not killed,
   although `session.rs` says every expiry removal is reported.
3. **A write commits over content it did not expect.** It compares the hash, a second
   write commits, and the first then replaces what that wrote: the comparison and the
   rename are separate steps. (A delete in between has the same effect.)
4. **An acknowledged write may not survive a crash.** The directory is synced before
   the rename instead of after it.

And one that has no run of its own, because `NoEarlyExpiry` excepts it by name
(`overtaken`): **a session in use can expire.** `get_owned` reads the clock before it
takes the lock (line 455) and stores the reading even when it is older than the one it
replaces (line 507). With a timeout of one second: a request reads 0, another touches
the session at 1, the first stores 0, and at 2 the session is expired although it was
used at 1. `session.rs` lines 85-87 say that "a session untouched for longer than this is
expired". Readings are whole seconds, so it takes a request that is held up between
its reading and the lock, and a timeout near the granularity of the clock.
Without the exception, TLC violates `NoEarlyExpiry` by this trace.

Smaller observations, read off the models while they were built and kept without
runs: a reader aborted by the drain timeout can append once after the final state
is published; `wait` may report `timed_out`, and `terminate` may report
`terminated`, of a child that had already exited but was not yet published; a
waiter that misses the one notification sleeps to its deadline; `write_file` can
report an error after it committed, if its metadata cannot be read or the target is
removed before they are; `resolve` returns a dangling final link itself instead of following or
rejecting it; with several roots, the first root that refuses ends the search;
`create_directory` on a dangling link answers not-found where its comment says
conflict; renaming a dangling link moves it and answers not-found, because the
reply's metadata are read through the link.

Of the clients, the transport and start-up:

* The command line refuses contents over 16 MiB so that they "fail locally with a
  clean error instead of a framing failure" (`are-cli/src/main.rs`, lines 610-612).
  A byte costs two to four bytes of JSON, so contents well below the cap exceed
  the daemon's frame limit; it closes the connection without a reply. In `Calls`
  a write at the cap ends in `connection`.
* `ProcessHandle::wait_infinite` (and with it `wait_with_timeout`) sends a timeout
  of zero, commented "0 = no timeout in daemon"; the daemon refuses zero. No such
  wait succeeds in `Calls`.
* The grants loader refuses fingerprints that could never match (`grants.rs`,
  lines 169-171), but takes ones in capitals, which never match either.
* Without all of `--cert`, `--key` and `--ca` the daemon makes up an authority and
  a server certificate and, unlike its comment says, no client certificate: it
  listens and nobody can connect (`Serving`).
* With a root that cannot be made canonical the daemon serves without files, and
  then no session can be created, although process capabilities are advertised.
* `RemoteEnvironment::execute` without a session makes up an empty session id,
  which panics.
* The file methods of `SessionHandle` are documented as relative to the session's
  directory; their requests carry no session.
* A lost reply to `create_session` leaves a session that no client knows of until
  it idles out. A resume that overlaps a terminate can leave a dead handle in the
  adapter's cache, which is written and never read.

## Not modelled, and the plan

Not modelled:

* TLS, JSON and the thread pool are libraries: a handshake succeeds or fails, a
  message has a length, a task that can run is run.
* Ids are model values; machine identity and enrolment (`identity.rs`), the
  environment descriptor and the core traits are used by no part of the program.
* Printing, logging, host name and platform.
* A tree that changes while a file request is handled (see `FileAccess`), the
  portable fallback of `rename_noreplace`, and mutex poisoning.
* What children do after the daemon restarts: nothing is persisted and nothing is
  promised about them.

Done: sessions, processes and handlers; one process in detail; mutating file
operations; path resolution, file grants and the file handlers; validation,
policy, start-up and the order of checks; clients, adapter and transport; and the
theorems above.

Next, should the code change: a tree that changes between the two resolutions of a
file request, once the handlers hold on to what they authorised.
