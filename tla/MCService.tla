------------------------------ MODULE MCService ------------------------------
(* A small instance of Service for TLC. *)
EXTENDS Service, TLC

CONSTANTS c1, c2, C1

Halt == Named("halt")
Git == Named("git")
NoName == [Git EXCEPT !.dir = "/bin/", !.base = ""]

\* git as listed, in other spellings, a denied program in two spellings, another
\* program, and names that end in nothing or in two ".exe".
SomePrograms ==
    {Git, [Git EXCEPT !.dir = "/bin/", !.exe = 1], [Git EXCEPT !.exe = 2],
     Halt, [Halt EXCEPT !.upper = TRUE, !.exe = 1], Named("make"), NoName}

Entry(programs, scoped) == [programs |-> programs, inspect |-> scoped, terminate |-> scoped]

\* Nobody; one caller with scopes and one without; a denied program granted; a
\* fingerprint in capitals, which no caller has; entries that do not load.
SomeFiles ==
    { [c \in {} |-> Entry({}, TRUE)],
      (c1 :> Entry({[Git EXCEPT !.upper = TRUE]}, TRUE)) @@ (c2 :> Entry({}, FALSE)),
      (c1 :> Entry({Halt}, TRUE)) @@ (C1 :> Entry({}, TRUE)),
      c1 :> Entry({NoName}, TRUE),
      "cn=someone" :> Entry({Git}, TRUE) }

\* One question at a time: who is let in, with one policy; what is run, with
\* three grants files.
SomeCommandLines ==
    {f \in Flags : \/ f.allow_list /\ f.allowed = {Git} /\ ~f.permissive_exec
                   \/ /\ f.environment_id = "valid" /\ f.allowed_root = "dir"
                      /\ f.permissive_authz = (f.grants_file = NoGrants)}

Vars(keys, value) == [k \in keys |-> value]

SomeCreates ==
    {[working_directory |-> d, env_vars |-> Vars({"LANG"}, "session")] : d \in {"none", "", "out"}}
    \cup {[working_directory |-> "work", env_vars |-> Vars(ks, "session")] :
            ks \in {{"HOME"}, {"LANG", "LD_PRELOAD"}, {"PATH"}, {"a=b"}, {"A", "B", "C"}}}

Plain == [program |-> Git, args |-> <<>>, working_directory |-> "", env_vars |-> Vars({}, "request")]

SomeExecutes ==
    {[Plain EXCEPT !.program = p] : p \in SomePrograms \cup {Named(""), Named(Nul)}}
    \cup {[Plain EXCEPT !.env_vars = Vars(ks, "request")] :
            ks \in {{"LANG"}, {"DYLD_INSERT", "HOME"}, {"PATH"}}}
    \cup {[Plain EXCEPT !.working_directory = d] : d \in {"work", "out", Nul}}
    \cup {[Plain EXCEPT !.args = a] : a \in {<<"x">>, <<"x", "x">>, <<Long>>}}

SomeFileRequests ==
    {[op |-> o, path |-> p, expected_hash |-> "none"] :
        o \in {"list_directory", "create_directory"}, p \in {"", "f"}}
    \cup {[op |-> o, path |-> "f", expected_hash |-> "none"] :
            o \in {"read_file", "get_file_metadata", "rename", "delete_file"}}
    \cup {[op |-> "write_file", path |-> "f", expected_hash |-> h] : h \in {"none", "malformed"}}

SomeTimeouts == {0, 1, 3}
SomeAllowed == {Git, Halt}
=============================================================================
