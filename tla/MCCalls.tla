------------------------------ MODULE MCCalls ------------------------------
(* A small instance of Calls for TLC. *)
EXTENDS Calls, TLC

CONSTANTS k1, k2

Does(cmd) == [cmd |-> cmd, bad |-> {}, content |-> 0]
Given(cmd, bad) == [Does(cmd) EXCEPT !.bad = bad]
Writes(cmd, n) == [Does(cmd) EXCEPT !.content = n]

\* Every command, with good inputs and with a bad one, and contents whose frames
\* end below, at and above the limit and whose size is at and above the cap.
SomeCalls ==
    {Does(cmd) : cmd \in Commands \cup AdapterCommands}
    \cup {Given(Fingerprint, {"cert"}), Given(ProcRun, {"env_vars"}),
          Given(EnvExecute, {"session_id"}), Given(FsWrite, {"expect_hash"})}
    \cup {Writes(FsWrite, n) : n \in {1, 4, 5}}

\* Each of them, and those that need a session next to one being created.
Single == {k1 :> d : d \in SomeCalls}
Pairs == {(k1 :> Does(EnvCreateSession)) @@ (k2 :> d) :
            d \in {d \in SomeCalls : d.cmd.op \in ProcessMethods \cup SessionMethods}}

SomeScripts == Single \cup Pairs
=============================================================================
