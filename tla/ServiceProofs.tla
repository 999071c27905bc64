--------------------------- MODULE ServiceProofs ----------------------------
(***************************************************************************)
(* Proofs about Service, for any command lines, grants files, requests and *)
(* limits: types, who gets an answer, what is advertised, what is run and  *)
(* with which environment, and what an answer tells of other callers'      *)
(* sessions.                                                               *)
(***************************************************************************)
EXTENDS Service, TLAPS

-----------------------------------------------------------------------------
(* The first check that fails *)

\* The error is that of a check that fails when all before it pass.
LEMMA FirstFailure ==
    ASSUME NEW checks, DOMAIN checks \subseteq Nat, NEW i \in DOMAIN checks, ~checks[i][1],
           \A j \in DOMAIN checks : j < i => checks[j][1]
    PROVE  FirstError(checks) = checks[i][2]
  <1> DEFINE failed == {j \in DOMAIN checks : ~checks[j][1]}
  <1>1. i \in failed /\ failed \subseteq Nat
    OBVIOUS
  <1>2. \A j \in failed : i <= j
    OBVIOUS
  <1>3. \A k \in failed : (\A j \in failed : k <= j) => k = i
    BY <1>1, <1>2
  <1>4. (CHOOSE k \in failed : \A j \in failed : k <= j) = i
    BY <1>1, <1>2, <1>3
  <1>5. QED
    BY <1>1, <1>4 DEF FirstError

\* There is none when all pass.
LEMMA NoFailure ==
    ASSUME NEW checks, \A j \in DOMAIN checks : checks[j][1]
    PROVE  FirstError(checks) = "ok"
  BY DEF FirstError

\* The categories that errors are mapped to.
LEMMA ErrorCategories ==
    /\ process_error_to_rpc("PolicyDenied") = "DeniedExecutable"
    /\ process_error_to_rpc("DeniedExecutable") = "DeniedExecutable"
    /\ process_error_to_rpc("NotFound") = "NotFound"
    /\ process_error_to_rpc("InvalidRequest") = "InvalidRequest"
    /\ process_error_to_rpc("Io") = "InternalError"
    /\ process_error_to_rpc("TooManyProcesses") = "CapacityExceeded"
    /\ session_error_to_rpc("NotFound") = "SessionNotFound"
    /\ session_error_to_rpc("Expired") = "SessionExpired"
    /\ session_error_to_rpc("TooManySessions") = "CapacityExceeded"
    /\ session_error_to_rpc("Internal") = "InternalError"
  BY DEF process_error_to_rpc, session_error_to_rpc

\* What a caller is told of a session it names.
LEMMA TouchFacts ==
    ASSUME NEW table, NEW c, NEW s
    PROVE  /\ touch_owned(table, c, s) \in {"ok", "SessionNotFound", "SessionExpired"}
           /\ touch_owned(table, c, s) = "ok" => s \in DOMAIN table /\ table[s].owner = c
           /\ s \notin DOMAIN table \/ table[s].owner # c
                  => touch_owned(table, c, s) = "SessionNotFound"
  BY ErrorCategories DEF touch_owned

\* The policy's answers.
LEMMA PolicyFacts ==
    ASSUME NEW policy, NEW p
    PROVE  /\ check_policy(policy, p) \in {"ok", "DeniedExecutable", "PolicyDenied"}
           /\ check_policy(policy, p) # "ok"
                  => process_error_to_rpc(check_policy(policy, p)) = "DeniedExecutable"
  <1>1. check_policy(policy, p) \in {"ok", "DeniedExecutable", "PolicyDenied"}
    BY DEF check_policy
  <1>2. QED
    BY <1>1, ErrorCategories

\* A list of two checks.
LEMMA Checks2 ==
    ASSUME NEW a1, NEW a2, NEW e1, NEW e2
    PROVE  LET e == FirstError(<< <<a1, e1>>, <<a2, e2>> >>)
           IN  /\ ~a1 => e = e1
               /\ a1 /\ ~a2 => e = e2
               /\ a1 /\ a2 => e = "ok"
  <1> DEFINE ch == << <<a1, e1>>, <<a2, e2>> >>
  <1>1. DOMAIN ch = {1, 2}
    OBVIOUS
  <1>2. /\ ch[1][1] = a1 /\ ch[1][2] = e1
        /\ ch[2][1] = a2 /\ ch[2][2] = e2
    OBVIOUS
  <1> HIDE DEF ch
  <1>3. ASSUME ~a1 PROVE FirstError(ch) = e1
    <2>1. 1 \in DOMAIN ch /\ ~ch[1][1]
      BY <1>1, <1>2, <1>3
    <2>2. \A j \in DOMAIN ch : j < 1 => j \in {}
      BY <1>1
    <2>3. \A j \in {} : ch[j][1]
      BY <1>2, <1>3
    <2>4. FirstError(ch) = ch[1][2]
      BY <1>1, <2>1, <2>2, <2>3, FirstFailure
    <2>5. QED
      BY <1>2, <2>4
  <1>4. ASSUME a1 /\ ~a2 PROVE FirstError(ch) = e2
    <2>1. 2 \in DOMAIN ch /\ ~ch[2][1]
      BY <1>1, <1>2, <1>4
    <2>2. \A j \in DOMAIN ch : j < 2 => j \in {1}
      BY <1>1
    <2>3. \A j \in {1} : ch[j][1]
      BY <1>2, <1>4
    <2>4. FirstError(ch) = ch[2][2]
      BY <1>1, <2>1, <2>2, <2>3, FirstFailure
    <2>5. QED
      BY <1>2, <2>4
  <1>5. ASSUME a1 /\ a2 PROVE FirstError(ch) = "ok"
    <2>1. \A j \in DOMAIN ch : ch[j][1]
      BY <1>1, <1>2, <1>5
    <2>2. QED
      BY <2>1, NoFailure
  <1>6. QED
    BY <1>3, <1>4, <1>5 DEF ch

\* A list of three checks.
LEMMA Checks3 ==
    ASSUME NEW a1, NEW a2, NEW a3, NEW e1, NEW e2, NEW e3
    PROVE  LET e == FirstError(<< <<a1, e1>>, <<a2, e2>>, <<a3, e3>> >>)
           IN  /\ ~a1 => e = e1
               /\ a1 /\ ~a2 => e = e2
               /\ a1 /\ a2 /\ ~a3 => e = e3
               /\ a1 /\ a2 /\ a3 => e = "ok"
  <1> DEFINE ch == << <<a1, e1>>, <<a2, e2>>, <<a3, e3>> >>
  <1>1. DOMAIN ch = {1, 2, 3}
    OBVIOUS
  <1>2. /\ ch[1][1] = a1 /\ ch[1][2] = e1
        /\ ch[2][1] = a2 /\ ch[2][2] = e2
        /\ ch[3][1] = a3 /\ ch[3][2] = e3
    OBVIOUS
  <1> HIDE DEF ch
  <1>3. ASSUME ~a1 PROVE FirstError(ch) = e1
    <2>1. 1 \in DOMAIN ch /\ ~ch[1][1]
      BY <1>1, <1>2, <1>3
    <2>2. \A j \in DOMAIN ch : j < 1 => j \in {}
      BY <1>1
    <2>3. \A j \in {} : ch[j][1]
      BY <1>2, <1>3
    <2>4. FirstError(ch) = ch[1][2]
      BY <1>1, <2>1, <2>2, <2>3, FirstFailure
    <2>5. QED
      BY <1>2, <2>4
  <1>4. ASSUME a1 /\ ~a2 PROVE FirstError(ch) = e2
    <2>1. 2 \in DOMAIN ch /\ ~ch[2][1]
      BY <1>1, <1>2, <1>4
    <2>2. \A j \in DOMAIN ch : j < 2 => j \in {1}
      BY <1>1
    <2>3. \A j \in {1} : ch[j][1]
      BY <1>2, <1>4
    <2>4. FirstError(ch) = ch[2][2]
      BY <1>1, <2>1, <2>2, <2>3, FirstFailure
    <2>5. QED
      BY <1>2, <2>4
  <1>5. ASSUME a1 /\ a2 /\ ~a3 PROVE FirstError(ch) = e3
    <2>1. 3 \in DOMAIN ch /\ ~ch[3][1]
      BY <1>1, <1>2, <1>5
    <2>2. \A j \in DOMAIN ch : j < 3 => j \in {1, 2}
      BY <1>1
    <2>3. \A j \in {1, 2} : ch[j][1]
      BY <1>2, <1>5
    <2>4. FirstError(ch) = ch[3][2]
      BY <1>1, <2>1, <2>2, <2>3, FirstFailure
    <2>5. QED
      BY <1>2, <2>4
  <1>6. ASSUME a1 /\ a2 /\ a3 PROVE FirstError(ch) = "ok"
    <2>1. \A j \in DOMAIN ch : ch[j][1]
      BY <1>1, <1>2, <1>6
    <2>2. QED
      BY <2>1, NoFailure
  <1>7. QED
    BY <1>3, <1>4, <1>5, <1>6 DEF ch

\* A list of four checks.
LEMMA Checks4 ==
    ASSUME NEW a1, NEW a2, NEW a3, NEW a4, NEW e1, NEW e2, NEW e3, NEW e4
    PROVE  LET e == FirstError(<< <<a1, e1>>, <<a2, e2>>, <<a3, e3>>, <<a4, e4>> >>)
           IN  /\ ~a1 => e = e1
               /\ a1 /\ ~a2 => e = e2
               /\ a1 /\ a2 /\ ~a3 => e = e3
               /\ a1 /\ a2 /\ a3 /\ ~a4 => e = e4
               /\ a1 /\ a2 /\ a3 /\ a4 => e = "ok"
  <1> DEFINE ch == << <<a1, e1>>, <<a2, e2>>, <<a3, e3>>, <<a4, e4>> >>
  <1>1. DOMAIN ch = {1, 2, 3, 4}
    OBVIOUS
  <1>2. /\ ch[1][1] = a1 /\ ch[1][2] = e1
        /\ ch[2][1] = a2 /\ ch[2][2] = e2
        /\ ch[3][1] = a3 /\ ch[3][2] = e3
        /\ ch[4][1] = a4 /\ ch[4][2] = e4
    OBVIOUS
  <1> HIDE DEF ch
  <1>3. ASSUME ~a1 PROVE FirstError(ch) = e1
    <2>1. 1 \in DOMAIN ch /\ ~ch[1][1]
      BY <1>1, <1>2, <1>3
    <2>2. \A j \in DOMAIN ch : j < 1 => j \in {}
      BY <1>1
    <2>3. \A j \in {} : ch[j][1]
      BY <1>2, <1>3
    <2>4. FirstError(ch) = ch[1][2]
      BY <1>1, <2>1, <2>2, <2>3, FirstFailure
    <2>5. QED
      BY <1>2, <2>4
  <1>4. ASSUME a1 /\ ~a2 PROVE FirstError(ch) = e2
    <2>1. 2 \in DOMAIN ch /\ ~ch[2][1]
      BY <1>1, <1>2, <1>4
    <2>2. \A j \in DOMAIN ch : j < 2 => j \in {1}
      BY <1>1
    <2>3. \A j \in {1} : ch[j][1]
      BY <1>2, <1>4
    <2>4. FirstError(ch) = ch[2][2]
      BY <1>1, <2>1, <2>2, <2>3, FirstFailure
    <2>5. QED
      BY <1>2, <2>4
  <1>5. ASSUME a1 /\ a2 /\ ~a3 PROVE FirstError(ch) = e3
    <2>1. 3 \in DOMAIN ch /\ ~ch[3][1]
      BY <1>1, <1>2, <1>5
    <2>2. \A j \in DOMAIN ch : j < 3 => j \in {1, 2}
      BY <1>1
    <2>3. \A j \in {1, 2} : ch[j][1]
      BY <1>2, <1>5
    <2>4. FirstError(ch) = ch[3][2]
      BY <1>1, <2>1, <2>2, <2>3, FirstFailure
    <2>5. QED
      BY <1>2, <2>4
  <1>6. ASSUME a1 /\ a2 /\ a3 /\ ~a4 PROVE FirstError(ch) = e4
    <2>1. 4 \in DOMAIN ch /\ ~ch[4][1]
      BY <1>1, <1>2, <1>6
    <2>2. \A j \in DOMAIN ch : j < 4 => j \in {1, 2, 3}
      BY <1>1
    <2>3. \A j \in {1, 2, 3} : ch[j][1]
      BY <1>2, <1>6
    <2>4. FirstError(ch) = ch[4][2]
      BY <1>1, <2>1, <2>2, <2>3, FirstFailure
    <2>5. QED
      BY <1>2, <2>4
  <1>7. ASSUME a1 /\ a2 /\ a3 /\ a4 PROVE FirstError(ch) = "ok"
    <2>1. \A j \in DOMAIN ch : ch[j][1]
      BY <1>1, <1>2, <1>7
    <2>2. QED
      BY <2>1, NoFailure
  <1>8. QED
    BY <1>3, <1>4, <1>5, <1>6, <1>7 DEF ch

\* A list of six checks.
LEMMA Checks6 ==
    ASSUME NEW a1, NEW a2, NEW a3, NEW a4, NEW a5, NEW a6, NEW e1, NEW e2, NEW e3, NEW e4,
           NEW e5, NEW e6
    PROVE  LET e == FirstError(<< <<a1, e1>>, <<a2, e2>>, <<a3, e3>>, <<a4, e4>>, <<a5, e5>>,
                            <<a6, e6>> >>)
           IN  /\ ~a1 => e = e1
               /\ a1 /\ ~a2 => e = e2
               /\ a1 /\ a2 /\ ~a3 => e = e3
               /\ a1 /\ a2 /\ a3 /\ ~a4 => e = e4
               /\ a1 /\ a2 /\ a3 /\ a4 /\ ~a5 => e = e5
               /\ a1 /\ a2 /\ a3 /\ a4 /\ a5 /\ ~a6 => e = e6
               /\ a1 /\ a2 /\ a3 /\ a4 /\ a5 /\ a6 => e = "ok"
  <1> DEFINE ch == << <<a1, e1>>, <<a2, e2>>, <<a3, e3>>, <<a4, e4>>, <<a5, e5>>,
                      <<a6, e6>> >>
  <1>1. DOMAIN ch = {1, 2, 3, 4, 5, 6}
    OBVIOUS
  <1>2. /\ ch[1][1] = a1 /\ ch[1][2] = e1
        /\ ch[2][1] = a2 /\ ch[2][2] = e2
        /\ ch[3][1] = a3 /\ ch[3][2] = e3
        /\ ch[4][1] = a4 /\ ch[4][2] = e4
        /\ ch[5][1] = a5 /\ ch[5][2] = e5
        /\ ch[6][1] = a6 /\ ch[6][2] = e6
    OBVIOUS
  <1> HIDE DEF ch
  <1>3. ASSUME ~a1 PROVE FirstError(ch) = e1
    <2>1. 1 \in DOMAIN ch /\ ~ch[1][1]
      BY <1>1, <1>2, <1>3
    <2>2. \A j \in DOMAIN ch : j < 1 => j \in {}
      BY <1>1
    <2>3. \A j \in {} : ch[j][1]
      BY <1>2, <1>3
    <2>4. FirstError(ch) = ch[1][2]
      BY <1>1, <2>1, <2>2, <2>3, FirstFailure
    <2>5. QED
      BY <1>2, <2>4
  <1>4. ASSUME a1 /\ ~a2 PROVE FirstError(ch) = e2
    <2>1. 2 \in DOMAIN ch /\ ~ch[2][1]
      BY <1>1, <1>2, <1>4
    <2>2. \A j \in DOMAIN ch : j < 2 => j \in {1}
      BY <1>1
    <2>3. \A j \in {1} : ch[j][1]
      BY <1>2, <1>4
    <2>4. FirstError(ch) = ch[2][2]
      BY <1>1, <2>1, <2>2, <2>3, FirstFailure
    <2>5. QED
      BY <1>2, <2>4
  <1>5. ASSUME a1 /\ a2 /\ ~a3 PROVE FirstError(ch) = e3
    <2>1. 3 \in DOMAIN ch /\ ~ch[3][1]
      BY <1>1, <1>2, <1>5
    <2>2. \A j \in DOMAIN ch : j < 3 => j \in {1, 2}
      BY <1>1
    <2>3. \A j \in {1, 2} : ch[j][1]
      BY <1>2, <1>5
    <2>4. FirstError(ch) = ch[3][2]
      BY <1>1, <2>1, <2>2, <2>3, FirstFailure
    <2>5. QED
      BY <1>2, <2>4
  <1>6. ASSUME a1 /\ a2 /\ a3 /\ ~a4 PROVE FirstError(ch) = e4
    <2>1. 4 \in DOMAIN ch /\ ~ch[4][1]
      BY <1>1, <1>2, <1>6
    <2>2. \A j \in DOMAIN ch : j < 4 => j \in {1, 2, 3}
      BY <1>1
    <2>3. \A j \in {1, 2, 3} : ch[j][1]
      BY <1>2, <1>6
    <2>4. FirstError(ch) = ch[4][2]
      BY <1>1, <2>1, <2>2, <2>3, FirstFailure
    <2>5. QED
      BY <1>2, <2>4
  <1>7. ASSUME a1 /\ a2 /\ a3 /\ a4 /\ ~a5 PROVE FirstError(ch) = e5
    <2>1. 5 \in DOMAIN ch /\ ~ch[5][1]
      BY <1>1, <1>2, <1>7
    <2>2. \A j \in DOMAIN ch : j < 5 => j \in {1, 2, 3, 4}
      BY <1>1
    <2>3. \A j \in {1, 2, 3, 4} : ch[j][1]
      BY <1>2, <1>7
    <2>4. FirstError(ch) = ch[5][2]
      BY <1>1, <2>1, <2>2, <2>3, FirstFailure
    <2>5. QED
      BY <1>2, <2>4
  <1>8. ASSUME a1 /\ a2 /\ a3 /\ a4 /\ a5 /\ ~a6 PROVE FirstError(ch) = e6
    <2>1. 6 \in DOMAIN ch /\ ~ch[6][1]
      BY <1>1, <1>2, <1>8
    <2>2. \A j \in DOMAIN ch : j < 6 => j \in {1, 2, 3, 4, 5}
      BY <1>1
    <2>3. \A j \in {1, 2, 3, 4, 5} : ch[j][1]
      BY <1>2, <1>8
    <2>4. FirstError(ch) = ch[6][2]
      BY <1>1, <2>1, <2>2, <2>3, FirstFailure
    <2>5. QED
      BY <1>2, <2>4
  <1>9. ASSUME a1 /\ a2 /\ a3 /\ a4 /\ a5 /\ a6 PROVE FirstError(ch) = "ok"
    <2>1. \A j \in DOMAIN ch : ch[j][1]
      BY <1>1, <1>2, <1>9
    <2>2. QED
      BY <2>1, NoFailure
  <1>10. QED
    BY <1>3, <1>4, <1>5, <1>6, <1>7, <1>8, <1>9 DEF ch

\* A list of nine checks.
LEMMA Checks9 ==
    ASSUME NEW a1, NEW a2, NEW a3, NEW a4, NEW a5, NEW a6, NEW a7, NEW a8, NEW a9, NEW e1,
           NEW e2, NEW e3, NEW e4, NEW e5, NEW e6, NEW e7, NEW e8, NEW e9
    PROVE  LET e == FirstError(<< <<a1, e1>>, <<a2, e2>>, <<a3, e3>>, <<a4, e4>>, <<a5, e5>>,
                            <<a6, e6>>, <<a7, e7>>, <<a8, e8>>, <<a9, e9>> >>)
           IN  /\ ~a1 => e = e1
               /\ a1 /\ ~a2 => e = e2
               /\ a1 /\ a2 /\ ~a3 => e = e3
               /\ a1 /\ a2 /\ a3 /\ ~a4 => e = e4
               /\ a1 /\ a2 /\ a3 /\ a4 /\ ~a5 => e = e5
               /\ a1 /\ a2 /\ a3 /\ a4 /\ a5 /\ ~a6 => e = e6
               /\ a1 /\ a2 /\ a3 /\ a4 /\ a5 /\ a6 /\ ~a7 => e = e7
               /\ a1 /\ a2 /\ a3 /\ a4 /\ a5 /\ a6 /\ a7 /\ ~a8 => e = e8
               /\ a1 /\ a2 /\ a3 /\ a4 /\ a5 /\ a6 /\ a7 /\ a8 /\ ~a9 => e = e9
               /\ a1 /\ a2 /\ a3 /\ a4 /\ a5 /\ a6 /\ a7 /\ a8 /\ a9 => e = "ok"
  <1> DEFINE ch == << <<a1, e1>>, <<a2, e2>>, <<a3, e3>>, <<a4, e4>>, <<a5, e5>>,
                      <<a6, e6>>, <<a7, e7>>, <<a8, e8>>, <<a9, e9>> >>
  <1>1. DOMAIN ch = {1, 2, 3, 4, 5, 6, 7, 8, 9}
    OBVIOUS
  <1>2. /\ ch[1][1] = a1 /\ ch[1][2] = e1
        /\ ch[2][1] = a2 /\ ch[2][2] = e2
        /\ ch[3][1] = a3 /\ ch[3][2] = e3
        /\ ch[4][1] = a4 /\ ch[4][2] = e4
        /\ ch[5][1] = a5 /\ ch[5][2] = e5
        /\ ch[6][1] = a6 /\ ch[6][2] = e6
        /\ ch[7][1] = a7 /\ ch[7][2] = e7
        /\ ch[8][1] = a8 /\ ch[8][2] = e8
        /\ ch[9][1] = a9 /\ ch[9][2] = e9
    OBVIOUS
  <1> HIDE DEF ch
  <1>3. ASSUME ~a1 PROVE FirstError(ch) = e1
    <2>1. 1 \in DOMAIN ch /\ ~ch[1][1]
      BY <1>1, <1>2, <1>3
    <2>2. \A j \in DOMAIN ch : j < 1 => j \in {}
      BY <1>1
    <2>3. \A j \in {} : ch[j][1]
      BY <1>2, <1>3
    <2>4. FirstError(ch) = ch[1][2]
      BY <1>1, <2>1, <2>2, <2>3, FirstFailure
    <2>5. QED
      BY <1>2, <2>4
  <1>4. ASSUME a1 /\ ~a2 PROVE FirstError(ch) = e2
    <2>1. 2 \in DOMAIN ch /\ ~ch[2][1]
      BY <1>1, <1>2, <1>4
    <2>2. \A j \in DOMAIN ch : j < 2 => j \in {1}
      BY <1>1
    <2>3. \A j \in {1} : ch[j][1]
      BY <1>2, <1>4
    <2>4. FirstError(ch) = ch[2][2]
      BY <1>1, <2>1, <2>2, <2>3, FirstFailure
    <2>5. QED
      BY <1>2, <2>4
  <1>5. ASSUME a1 /\ a2 /\ ~a3 PROVE FirstError(ch) = e3
    <2>1. 3 \in DOMAIN ch /\ ~ch[3][1]
      BY <1>1, <1>2, <1>5
    <2>2. \A j \in DOMAIN ch : j < 3 => j \in {1, 2}
      BY <1>1
    <2>3. \A j \in {1, 2} : ch[j][1]
      BY <1>2, <1>5
    <2>4. FirstError(ch) = ch[3][2]
      BY <1>1, <2>1, <2>2, <2>3, FirstFailure
    <2>5. QED
      BY <1>2, <2>4
  <1>6. ASSUME a1 /\ a2 /\ a3 /\ ~a4 PROVE FirstError(ch) = e4
    <2>1. 4 \in DOMAIN ch /\ ~ch[4][1]
      BY <1>1, <1>2, <1>6
    <2>2. \A j \in DOMAIN ch : j < 4 => j \in {1, 2, 3}
      BY <1>1
    <2>3. \A j \in {1, 2, 3} : ch[j][1]
      BY <1>2, <1>6
    <2>4. FirstError(ch) = ch[4][2]
      BY <1>1, <2>1, <2>2, <2>3, FirstFailure
    <2>5. QED
      BY <1>2, <2>4
  <1>7. ASSUME a1 /\ a2 /\ a3 /\ a4 /\ ~a5 PROVE FirstError(ch) = e5
    <2>1. 5 \in DOMAIN ch /\ ~ch[5][1]
      BY <1>1, <1>2, <1>7
    <2>2. \A j \in DOMAIN ch : j < 5 => j \in {1, 2, 3, 4}
      BY <1>1
    <2>3. \A j \in {1, 2, 3, 4} : ch[j][1]
      BY <1>2, <1>7
    <2>4. FirstError(ch) = ch[5][2]
      BY <1>1, <2>1, <2>2, <2>3, FirstFailure
    <2>5. QED
      BY <1>2, <2>4
  <1>8. ASSUME a1 /\ a2 /\ a3 /\ a4 /\ a5 /\ ~a6 PROVE FirstError(ch) = e6
    <2>1. 6 \in DOMAIN ch /\ ~ch[6][1]
      BY <1>1, <1>2, <1>8
    <2>2. \A j \in DOMAIN ch : j < 6 => j \in {1, 2, 3, 4, 5}
      BY <1>1
    <2>3. \A j \in {1, 2, 3, 4, 5} : ch[j][1]
      BY <1>2, <1>8
    <2>4. FirstError(ch) = ch[6][2]
      BY <1>1, <2>1, <2>2, <2>3, FirstFailure
    <2>5. QED
      BY <1>2, <2>4
  <1>9. ASSUME a1 /\ a2 /\ a3 /\ a4 /\ a5 /\ a6 /\ ~a7 PROVE FirstError(ch) = e7
    <2>1. 7 \in DOMAIN ch /\ ~ch[7][1]
      BY <1>1, <1>2, <1>9
    <2>2. \A j \in DOMAIN ch : j < 7 => j \in {1, 2, 3, 4, 5, 6}
      BY <1>1
    <2>3. \A j \in {1, 2, 3, 4, 5, 6} : ch[j][1]
      BY <1>2, <1>9
    <2>4. FirstError(ch) = ch[7][2]
      BY <1>1, <2>1, <2>2, <2>3, FirstFailure
    <2>5. QED
      BY <1>2, <2>4
  <1>10. ASSUME a1 /\ a2 /\ a3 /\ a4 /\ a5 /\ a6 /\ a7 /\ ~a8 PROVE FirstError(ch) = e8
    <2>1. 8 \in DOMAIN ch /\ ~ch[8][1]
      BY <1>1, <1>2, <1>10
    <2>2. \A j \in DOMAIN ch : j < 8 => j \in {1, 2, 3, 4, 5, 6, 7}
      BY <1>1
    <2>3. \A j \in {1, 2, 3, 4, 5, 6, 7} : ch[j][1]
      BY <1>2, <1>10
    <2>4. FirstError(ch) = ch[8][2]
      BY <1>1, <2>1, <2>2, <2>3, FirstFailure
    <2>5. QED
      BY <1>2, <2>4
  <1>11. ASSUME a1 /\ a2 /\ a3 /\ a4 /\ a5 /\ a6 /\ a7 /\ a8 /\ ~a9 PROVE FirstError(ch) = e9
    <2>1. 9 \in DOMAIN ch /\ ~ch[9][1]
      BY <1>1, <1>2, <1>11
    <2>2. \A j \in DOMAIN ch : j < 9 => j \in {1, 2, 3, 4, 5, 6, 7, 8}
      BY <1>1
    <2>3. \A j \in {1, 2, 3, 4, 5, 6, 7, 8} : ch[j][1]
      BY <1>2, <1>11
    <2>4. FirstError(ch) = ch[9][2]
      BY <1>1, <2>1, <2>2, <2>3, FirstFailure
    <2>5. QED
      BY <1>2, <2>4
  <1>12. ASSUME a1 /\ a2 /\ a3 /\ a4 /\ a5 /\ a6 /\ a7 /\ a8 /\ a9 PROVE FirstError(ch) = "ok"
    <2>1. \A j \in DOMAIN ch : ch[j][1]
      BY <1>1, <1>2, <1>12
    <2>2. QED
      BY <2>1, NoFailure
  <1>13. QED
    BY <1>3, <1>4, <1>5, <1>6, <1>7, <1>8, <1>9, <1>10, <1>11, <1>12 DEF ch

-----------------------------------------------------------------------------
(* What the handlers answer, check by check *)

\* get_session and terminate_session.
LEMMA SessionError ==
    ASSUME NEW table, NEW c, NEW env \in BOOLEAN, NEW s
    PROVE  /\ ~env => session_error(table, c, env, s) = "InvalidRequest"
           /\ env /\ ~Known(c) => session_error(table, c, env, s) = "Forbidden"
           /\ env /\ Known(c) => session_error(table, c, env, s) = touch_owned(table, c, s)
  <1> DEFINE b == Known(c)
             t == touch_owned(table, c, s)
             m == t = "ok"
             e == FirstError(<< <<env, "InvalidRequest">>, <<b, "Forbidden">>, <<m, t>> >>)
  <1>1. session_error(table, c, env, s) = e
    BY DEF session_error
  <1> HIDE DEF b, t, m
  <1>2. /\ ~env => e = "InvalidRequest"
        /\ env /\ ~b => e = "Forbidden"
        /\ env /\ b /\ ~m => e = t
        /\ env /\ b /\ m => e = "ok"
    BY Checks3
  <1> HIDE DEF e
  <1>3. env /\ b => e = t
    BY <1>2 DEF m
  <1>4. QED
    BY <1>1, <1>2, <1>3 DEF b, t

\* list_sessions.
LEMMA ListError ==
    ASSUME NEW c, NEW env \in BOOLEAN
    PROVE  LET e == FirstError(<< <<env, "InvalidRequest">>, <<Known(c), "Forbidden">> >>)
           IN  /\ e \in {"ok", "InvalidRequest", "Forbidden"}
               /\ e = "ok" => env /\ Known(c)
  <1> DEFINE b == Known(c)
             e == FirstError(<< <<env, "InvalidRequest">>, <<b, "Forbidden">> >>)
  <1> HIDE DEF b
  <1>1. /\ ~env => e = "InvalidRequest"
        /\ env /\ ~b => e = "Forbidden"
        /\ env /\ b => e = "ok"
    BY Checks2
  <1> HIDE DEF e
  <1>2. /\ e \in {"ok", "InvalidRequest", "Forbidden"}
        /\ e = "ok" => env /\ b
    BY <1>1
  <1>3. QED
    BY <1>2 DEF e, b

\* The file operations.
LEMMA FileError ==
    ASSUME NEW c, NEW env \in BOOLEAN, NEW r
    PROVE  LET e == FirstError(<< <<validate_file(r), "InvalidRequest">>,
                                  <<env, "InvalidRequest">>,
                                  <<state.fs, "NotConfigured">>,
                                  <<Known(c), "Forbidden">> >>)
           IN  /\ e \in {"ok", "InvalidRequest", "NotConfigured", "Forbidden"}
               /\ e = "ok" => Known(c)
               /\ e = "NotConfigured" => ~state.fs
  <1> DEFINE v == validate_file(r)
             f == state.fs
             b == Known(c)
             e == FirstError(<< <<v, "InvalidRequest">>, <<env, "InvalidRequest">>,
                                <<f, "NotConfigured">>, <<b, "Forbidden">> >>)
  <1> HIDE DEF v, f, b
  <1>1. /\ ~v => e = "InvalidRequest"
        /\ v /\ ~env => e = "InvalidRequest"
        /\ v /\ env /\ ~f => e = "NotConfigured"
        /\ v /\ env /\ f /\ ~b => e = "Forbidden"
        /\ v /\ env /\ f /\ b => e = "ok"
    BY Checks4
  <1> HIDE DEF e
  <1>2. /\ e \in {"ok", "InvalidRequest", "NotConfigured", "Forbidden"}
        /\ e = "ok" => b
        /\ e = "NotConfigured" => ~f
    BY <1>1
  <1>3. QED
    BY <1>2 DEF e, v, f, b

\* create_session, up to the purge.
LEMMA CreateError ==
    ASSUME NEW c, NEW env \in BOOLEAN, NEW r, NEW dir
    PROVE  LET e == FirstError(<< <<env, "InvalidRequest">>,
                                  <<Known(c), "Forbidden">>,
                                  <<validate_create(r), "InvalidRequest">>,
                                  <<state.fs, "NotConfigured">>,
                                  <<ValidDir(dir), "InvalidRequest">>,
                                  <<"PATH" \notin DOMAIN r.env_vars, "InvalidRequest">> >>)
           IN  /\ e \in {"ok", "InvalidRequest", "NotConfigured", "Forbidden"}
               /\ e = "ok" => Known(c) /\ state.fs /\ "PATH" \notin DOMAIN r.env_vars
               /\ e = "NotConfigured" => ~state.fs
  <1> DEFINE b == Known(c)
             v == validate_create(r)
             f == state.fs
             d == ValidDir(dir)
             p == "PATH" \notin DOMAIN r.env_vars
             e == FirstError(<< <<env, "InvalidRequest">>, <<b, "Forbidden">>,
                                <<v, "InvalidRequest">>, <<f, "NotConfigured">>,
                                <<d, "InvalidRequest">>, <<p, "InvalidRequest">> >>)
  <1> HIDE DEF b, v, f, d, p
  <1>1. /\ ~env => e = "InvalidRequest"
        /\ env /\ ~b => e = "Forbidden"
        /\ env /\ b /\ ~v => e = "InvalidRequest"
        /\ env /\ b /\ v /\ ~f => e = "NotConfigured"
        /\ env /\ b /\ v /\ f /\ ~d => e = "InvalidRequest"
        /\ env /\ b /\ v /\ f /\ d /\ ~p => e = "InvalidRequest"
        /\ env /\ b /\ v /\ f /\ d /\ p => e = "ok"
    BY Checks6
  <1> HIDE DEF e
  <1>2. /\ e \in {"ok", "InvalidRequest", "NotConfigured", "Forbidden"}
        /\ e = "ok" => b /\ f /\ p
        /\ e = "NotConfigured" => ~f
    BY <1>1
  <1>3. QED
    BY <1>2 DEF e, b, v, f, d, p

\* execute, up to the lock on the process table.
LEMMA ExecuteError ==
    ASSUME NEW table, NEW c, NEW env \in BOOLEAN, NEW s, NEW r
    PROVE  LET e == execute_error(table, c, env, s, r)
           IN  /\ e \in {"ok", "InvalidRequest", "SessionNotFound", "SessionExpired", "Forbidden",
                         "DeniedExecutable", "NotConfigured"}
               /\ e = "ok" => /\ touch_owned(table, c, s) = "ok"
                              /\ Known(c)
                              /\ check_policy(state.policy, r.program) = "ok"
                              /\ check_exec_grant(c, r.program)
                              /\ "PATH" \notin DOMAIN r.env_vars
               /\ e = "Forbidden" /\ Known(c) => check_policy(state.policy, r.program) = "ok"
               /\ e = "NotConfigured" => touch_owned(table, c, s) = "ok" /\ ~state.fs
               /\ env /\ touch_owned(table, c, s) # "ok" => e = touch_owned(table, c, s)
  <1> DEFINE t == touch_owned(table, c, s)
             m == t = "ok"
             b == Known(c)
             v == validate_execute(r)
             q == check_policy(state.policy, r.program)
             a == q = "ok"
             k == process_error_to_rpc(q)
             g == check_exec_grant(c, r.program)
             p == "PATH" \notin DOMAIN r.env_vars
             f == state.fs
             d == ValidDir(WorkDir(table, s, r))
             e == FirstError(<< <<env, "InvalidRequest">>, <<m, t>>, <<b, "Forbidden">>,
                                <<v, "InvalidRequest">>, <<a, k>>, <<g, "Forbidden">>,
                                <<p, "InvalidRequest">>, <<f, "NotConfigured">>,
                                <<d, "InvalidRequest">> >>)
  <1>1. execute_error(table, c, env, s, r) = e
    BY DEF execute_error
  <1>2. t \in {"ok", "SessionNotFound", "SessionExpired"}
    BY TouchFacts
  <1>3. ~(q = "ok") => k = "DeniedExecutable"
    BY PolicyFacts
  <1> HIDE DEF t, m, b, v, q, a, k, g, p, f, d
  <1>4. /\ ~env => e = "InvalidRequest"
        /\ env /\ ~m => e = t
        /\ env /\ m /\ ~b => e = "Forbidden"
        /\ env /\ m /\ b /\ ~v => e = "InvalidRequest"
        /\ env /\ m /\ b /\ v /\ ~a => e = k
        /\ env /\ m /\ b /\ v /\ a /\ ~g => e = "Forbidden"
        /\ env /\ m /\ b /\ v /\ a /\ g /\ ~p => e = "InvalidRequest"
        /\ env /\ m /\ b /\ v /\ a /\ g /\ p /\ ~f => e = "NotConfigured"
        /\ env /\ m /\ b /\ v /\ a /\ g /\ p /\ f /\ ~d => e = "InvalidRequest"
        /\ env /\ m /\ b /\ v /\ a /\ g /\ p /\ f /\ d => e = "ok"
    BY Checks9
  <1> HIDE DEF e
  <1>5. e \in {"ok", "InvalidRequest", "SessionNotFound", "SessionExpired", "Forbidden",
               "DeniedExecutable", "NotConfigured"}
    BY <1>2, <1>3, <1>4 DEF m, a
  <1>6. e = "ok" => t = "ok" /\ b /\ q = "ok" /\ g /\ p
    BY <1>2, <1>3, <1>4 DEF m, a
  <1>7. e = "Forbidden" /\ b => q = "ok"
    BY <1>2, <1>3, <1>4 DEF m, a
  <1>8. e = "NotConfigured" => t = "ok" /\ ~f
    BY <1>2, <1>3, <1>4 DEF m, a
  <1>9. env /\ t # "ok" => e = t
    BY <1>4 DEF m
  <1>10. QED
    BY <1>1, <1>5, <1>6, <1>7, <1>8, <1>9 DEF t, b, q, g, p, f

\* process_status, wait_process and terminate_process.
LEMMA ProcessError ==
    ASSUME NEW table, NEW c, NEW env \in BOOLEAN, NEW s, NEW op, NEW named, NEW timeout
    PROVE  LET e == process_error(table, c, env, s, op, named, timeout)
           IN  /\ e \in {"ok", "InvalidRequest", "SessionNotFound", "SessionExpired", "Forbidden",
                         "NotFound"}
               /\ e = "ok" => Known(c)
               /\ env /\ touch_owned(table, c, s) # "ok" => e = touch_owned(table, c, s)
  <1> DEFINE t == touch_owned(table, c, s)
             m == t = "ok"
             b == Known(c)
             g == IF op = "process_status" THEN check_inspect_grant(c)
                                           ELSE check_terminate_grant(c)
             v == op = "wait_process" => validate_wait(timeout)
             k == process_error_to_rpc("InvalidRequest")
             n == named /\ s \in DOMAIN table /\ table[s].procs > 0
             l == process_error_to_rpc("NotFound")
             e == FirstError(<< <<env, "InvalidRequest">>, <<m, t>>, <<b, "Forbidden">>,
                                <<g, "Forbidden">>, <<v, k>>, <<n, l>> >>)
  <1>1. process_error(table, c, env, s, op, named, timeout) = e
    BY DEF process_error
  <1>2. t \in {"ok", "SessionNotFound", "SessionExpired"}
    BY TouchFacts
  <1>3. k = "InvalidRequest" /\ l = "NotFound"
    BY ErrorCategories
  <1> HIDE DEF t, m, b, g, v, k, n, l
  <1>4. /\ ~env => e = "InvalidRequest"
        /\ env /\ ~m => e = t
        /\ env /\ m /\ ~b => e = "Forbidden"
        /\ env /\ m /\ b /\ ~g => e = "Forbidden"
        /\ env /\ m /\ b /\ g /\ ~v => e = k
        /\ env /\ m /\ b /\ g /\ v /\ ~n => e = l
        /\ env /\ m /\ b /\ g /\ v /\ n => e = "ok"
    BY Checks6
  <1> HIDE DEF e
  <1>5. e \in {"ok", "InvalidRequest", "SessionNotFound", "SessionExpired", "Forbidden",
               "NotFound"}
    BY <1>2, <1>3, <1>4 DEF m
  <1>6. e = "ok" => b
    BY <1>2, <1>3, <1>4 DEF m
  <1>7. env /\ t # "ok" => e = t
    BY <1>4 DEF m
  <1>8. QED
    BY <1>1, <1>5, <1>6, <1>7 DEF t, b

-----------------------------------------------------------------------------
(* The inductive invariant *)

\* What a serving daemon goes by is what its command line said.
Configured ==
    /\ phase \in {"starting", "refused", "serving"}
    /\ flags \in Flags
    /\ phase = "serving" =>
         /\ validate_authz_mode(flags)
         /\ load_from_file(flags.grants_file) # LoadError
         /\ \E tls : state = build_daemon_state(flags, load_from_file(flags.grants_file), tls)
    /\ phase # "serving" => state = NoState /\ sessions = <<>> /\ last = NoRequest

\* Sessions as create_session makes them: PATH is never among their variables.
TableOK(table) ==
    /\ DOMAIN table \subseteq SessionIds
    /\ \A s \in DOMAIN table : table[s] \in Session /\ "PATH" \notin DOMAIN table[s].env_vars

\* Without a file backend there are no sessions.
SessionsNeedFiles == DOMAIN sessions # {} => state.fs

ProcessOps == {"execute", "process_status", "wait_process", "terminate_process"}

\* What came of the request in hand, in terms of what the daemon goes by.
ReplyOK ==
    /\ last.result \in Results
    /\ last.op \notin {"none", "get_environment_info"} /\ last.result = "ok" => Known(last.caller)
    /\ last.result = "NotConfigured" => ~state.fs /\ last.op \notin ProcessOps
    /\ ForbiddenMeansYou
    /\ \A s \in last.shown \cap DOMAIN sessions : sessions[s].owner = last.caller

\* What was checked of a child that runs.
ChildOK ==
    last.child =>
        /\ check_policy(state.policy, last.program) = "ok"
        /\ check_exec_grant(last.caller, last.program)
        /\ last.program.exe \in Nat

ServiceInv ==
    /\ Configured
    /\ TableOK(sessions)
    /\ SessionsNeedFiles
    /\ ReplyOK
    /\ ChildOK
    /\ ChildEnvironment

-----------------------------------------------------------------------------
(* Replies *)

\* The fields of no request.
LEMMA NoRequestFacts ==
    /\ NoRequest.op = "none" /\ NoRequest.result = "ok"
    /\ NoRequest.child = FALSE /\ NoRequest.shown = {}
  BY DEF NoRequest

\* With no request in hand there is nothing to answer for.
LEMMA Quiet ==
    last = NoRequest => ReplyOK /\ ChildOK /\ ChildEnvironment
  <1> SUFFICES ASSUME last = NoRequest
               PROVE  ReplyOK /\ ChildOK /\ ChildEnvironment
    OBVIOUS
  <1>1. last.op = "none" /\ last.result = "ok" /\ last.child = FALSE /\ last.shown = {}
    BY NoRequestFacts
  <1>2. ReplyOK
    BY <1>1 DEF ReplyOK, Results, ForbiddenMeansYou
  <1>3. ChildOK /\ ChildEnvironment
    BY <1>1 DEF ChildOK, ChildEnvironment
  <1>4. QED
    BY <1>2, <1>3

\* A reply that starts no child and shows no session.
LEMMA PlainReply ==
    ASSUME NEW op, NEW c, NEW s, NEW result \in Results,
           op # "execute",
           op # "get_environment_info" /\ result = "ok" => Known(c),
           result = "NotConfigured" => ~state.fs /\ op \notin ProcessOps,
           last' = Reply(op, c, s, result), state' = state
    PROVE  ReplyOK' /\ ChildOK' /\ ChildEnvironment'
  <1>1. /\ last'.op = op /\ last'.caller = c /\ last'.result = result
        /\ last'.child = FALSE /\ last'.shown = {}
    BY DEF Reply, NoRequest
  <1>2. Known(c)' = Known(c)
    BY DEF Known, Permissive
  <1>3. ReplyOK'
    BY <1>1, <1>2 DEF ReplyOK, ForbiddenMeansYou, Known, Permissive
  <1>4. ChildOK' /\ ChildEnvironment'
    BY <1>1 DEF ChildOK, ChildEnvironment
  <1>5. QED
    BY <1>3, <1>4

\* Removing sessions leaves a good table, and makes no session of nothing.
LEMMA RemovedOK ==
    ASSUME NEW table, TableOK(table), NEW ids
    PROVE  TableOK(Removed(table, ids)) /\ DOMAIN Removed(table, ids) \subseteq DOMAIN table
  BY DEF TableOK, Removed

\* Every answer of touch_owned is a result.
LEMMA TouchResults ==
    ASSUME NEW table, NEW c, NEW env \in BOOLEAN, NEW s
    PROVE  /\ session_error(table, c, env, s) \in Results \ {"NotConfigured"}
           /\ session_error(table, c, env, s) = "ok" => env /\ Known(c)
  <1>1. touch_owned(table, c, s) \in {"ok", "SessionNotFound", "SessionExpired"}
    BY TouchFacts
  <1> DEFINE e == session_error(table, c, env, s)
             t == touch_owned(table, c, s)
  <1>2. CASE ~env
    <2>1. e = "InvalidRequest"
      BY <1>2, SessionError
    <2>2. QED
      BY <2>1 DEF Results
  <1>3. CASE env /\ ~Known(c)
    <2>1. e = "Forbidden"
      BY <1>3, SessionError
    <2>2. QED
      BY <2>1 DEF Results
  <1>4. CASE env /\ Known(c)
    <2>1. e = t
      BY <1>4, SessionError
    <2>2. e \in Results \ {"NotConfigured"}
      BY <1>1, <2>1 DEF Results
    <2>3. QED
      BY <1>4, <2>2
  <1>5. QED
    BY <1>2, <1>3, <1>4

-----------------------------------------------------------------------------
(* Preservation *)

\* A step that leaves the configuration alone leaves it as it was.
LEMMA SameConfiguration ==
    ASSUME Configured, phase = "serving", UNCHANGED <<phase, flags, state>>
    PROVE  Configured'
  BY DEF Configured

\* main
LEMMA MainStep ==
    ASSUME ServiceInv, main
    PROVE  ServiceInv'
  <1> USE DEF ServiceInv
  <1>1. phase = "starting" /\ flags' = flags /\ sessions' = sessions /\ last' = last
    BY DEF main
  <1>2. state = NoState /\ sessions = <<>> /\ last = NoRequest
    BY <1>1 DEF Configured
  <1>3. TableOK(sessions)' /\ SessionsNeedFiles'
    <2>1. DOMAIN sessions = {}
      BY <1>2
    <2>2. QED
      BY <1>1, <2>1 DEF TableOK, SessionsNeedFiles
  <1>4. ReplyOK' /\ ChildOK' /\ ChildEnvironment'
    <2>1. last' = NoRequest
      BY <1>1, <1>2
    <2>2. (last = NoRequest)' => (ReplyOK /\ ChildOK /\ ChildEnvironment)'
      BY Quiet, PTL
    <2>3. QED
      BY <2>1, <2>2
  <1>5. Configured'
    <2>1. PICK given \in SUBSET {"cert", "key", "ca"}, bound \in BOOLEAN :
               \E tls \in TlsOutcomes(given) :
                 IF /\ validate_authz_mode(flags)
                    /\ flags.environment_id = "valid"
                    /\ flags.allowed_root # "missing"
                    /\ load_from_file(flags.grants_file) # LoadError
                    /\ tls # "error"
                    /\ bound
                 THEN /\ phase' = "serving"
                      /\ state' = build_daemon_state(flags, load_from_file(flags.grants_file), tls)
                 ELSE phase' = "refused" /\ UNCHANGED state
      BY DEF main
    <2>2. \/ /\ validate_authz_mode(flags) /\ load_from_file(flags.grants_file) # LoadError
             /\ phase' = "serving"
             /\ \E tls : state' = build_daemon_state(flags, load_from_file(flags.grants_file), tls)
          \/ phase' = "refused" /\ state' = state
      BY <2>1
    <2>3. QED
      BY <1>1, <1>2, <2>2 DEF Configured
  <1>6. QED
    BY <1>3, <1>4, <1>5

\* The reply is sent, or time passes: no request is in hand afterwards.
LEMMA QuietStep ==
    ASSUME ServiceInv, Answered \/ \E s \in SessionIds : Age(s)
    PROVE  ServiceInv'
  <1> USE DEF ServiceInv
  <1>1. UNCHANGED <<phase, flags, state>> /\ last' = NoRequest
    BY DEF Answered, Age
  <1>2. ReplyOK' /\ ChildOK' /\ ChildEnvironment'
    <2>1. (last = NoRequest)' => (ReplyOK /\ ChildOK /\ ChildEnvironment)'
      BY Quiet, PTL
    <2>2. QED
      BY <1>1, <2>1
  <1>3. CASE Answered
    <2>1. sessions' = sessions
      BY <1>3 DEF Answered
    <2>2. Configured'
      BY <1>1, <2>1 DEF Configured
    <2>3. TableOK(sessions)' /\ SessionsNeedFiles'
      BY <1>1, <2>1 DEF SessionsNeedFiles
    <2>4. QED
      BY <1>2, <2>2, <2>3
  <1>4. ASSUME NEW s \in SessionIds, Age(s) PROVE ServiceInv'
    <2>1. /\ s \in DOMAIN sessions
          /\ sessions' = [sessions EXCEPT ![s].aged = TRUE]
      BY <1>4 DEF Age
    <2>2. phase = "serving"
      BY <2>1 DEF Configured
    <2>3. Configured'
      BY <1>1, <2>2, SameConfiguration
    <2>4. DOMAIN sessions' = DOMAIN sessions
      BY <2>1
    <2>5. SessionsNeedFiles'
      BY <1>1, <2>4 DEF SessionsNeedFiles
    <2>6. ASSUME NEW t \in DOMAIN sessions'
          PROVE  sessions'[t] \in Session /\ "PATH" \notin DOMAIN sessions'[t].env_vars
      <3>1. sessions[t] \in Session /\ "PATH" \notin DOMAIN sessions[t].env_vars
        BY <2>4, <2>6 DEF TableOK
      <3>2. CASE t # s
        BY <2>1, <2>4, <3>1, <3>2
      <3>3. CASE t = s
        <4>1. sessions'[t] = [sessions[t] EXCEPT !.aged = TRUE]
          BY <2>1, <3>3
        <4>2. sessions'[t] \in Session /\ sessions'[t].env_vars = sessions[t].env_vars
          BY <3>1, <4>1 DEF Session
        <4>3. QED
          BY <3>1, <4>2
      <3>4. QED
        BY <3>2, <3>3
    <2>7. TableOK(sessions)'
      BY <2>4, <2>6 DEF TableOK
    <2>8. QED
      BY <1>2, <2>3, <2>5, <2>7
  <1>5. QED
    BY <1>3, <1>4

\* The handlers that leave the sessions alone: get_environment_info and the file
\* operations.
LEMMA ReadStep ==
    ASSUME ServiceInv, NEW c \in Callers, NEW env \in BOOLEAN,
           \/ handle_get_environment_info(c, env)
           \/ \E r \in FileRequests : handle_file(c, env, r)
    PROVE  ServiceInv'
  <1> USE DEF ServiceInv
  <1>1. phase = "serving" /\ UNCHANGED <<phase, flags, state, sessions>>
    BY DEF handle_get_environment_info, handle_file, Serving
  <1>2. Configured' /\ TableOK(sessions)' /\ SessionsNeedFiles'
    <2>1. Configured'
      BY <1>1, SameConfiguration
    <2>2. QED
      BY <1>1, <2>1 DEF SessionsNeedFiles
  <1>3. ASSUME handle_get_environment_info(c, env)
        PROVE  ReplyOK' /\ ChildOK' /\ ChildEnvironment'
    <2> DEFINE e == IF env THEN "ok" ELSE "InvalidRequest"
    <2>1. last' = Reply("get_environment_info", c, NoSession, e)
      BY <1>3 DEF handle_get_environment_info
    <2>2. e \in Results /\ e # "NotConfigured"
      BY DEF Results
    <2> HIDE DEF e
    <2>3. QED
      BY <1>1, <2>1, <2>2, PlainReply
  <1>4. ASSUME NEW r \in FileRequests, handle_file(c, env, r)
        PROVE  ReplyOK' /\ ChildOK' /\ ChildEnvironment'
    <2> DEFINE e == FirstError(<< <<validate_file(r), "InvalidRequest">>,
                                  <<env, "InvalidRequest">>,
                                  <<state.fs, "NotConfigured">>,
                                  <<Known(c), "Forbidden">> >>)
    <2>1. last' = Reply(r.op, c, NoSession, e)
      BY <1>4 DEF handle_file
    <2>2. /\ e \in {"ok", "InvalidRequest", "NotConfigured", "Forbidden"}
          /\ e = "ok" => Known(c)
          /\ e = "NotConfigured" => ~state.fs
      BY FileError
    <2> HIDE DEF e
    <2>3. r.op \notin ProcessOps
      BY ServiceAssumption DEF ProcessOps
    <2>4. e \in Results
      BY <2>2 DEF Results
    <2>5. r.op # "execute"
      BY <2>3 DEF ProcessOps
    <2>6. QED
      BY <1>1, <2>1, <2>2, <2>3, <2>4, <2>5, PlainReply
  <1>5. QED
    BY <1>2, <1>3, <1>4

\* The handlers that at most remove sessions: get_session, terminate_session and
\* those about processes.
LEMMA RemovingStep ==
    ASSUME ServiceInv, NEW c \in Callers, NEW env \in BOOLEAN, NEW s \in SessionIds,
           \/ handle_get_session(c, env, s)
           \/ handle_terminate_session(c, env, s)
           \/ handle_process(c, env, s)
    PROVE  ServiceInv'
  <1> USE DEF ServiceInv
  <1>1. phase = "serving" /\ UNCHANGED <<phase, flags, state>>
    BY DEF handle_get_session, handle_terminate_session, handle_process, Serving
  <1>2. Configured'
    BY <1>1, SameConfiguration
  <1>3. \/ sessions' = sessions
        \/ \E ids : sessions' = Removed(sessions, ids)
    BY DEF handle_get_session, handle_terminate_session, handle_process, Touched
  <1>4. TableOK(sessions') /\ DOMAIN sessions' \subseteq DOMAIN sessions
    BY <1>3, RemovedOK
  <1>5. TableOK(sessions)' /\ SessionsNeedFiles'
    BY <1>1, <1>4 DEF SessionsNeedFiles, TableOK
  <1>6. ASSUME NEW op \in {"get_session", "terminate_session"},
               last' = Reply(op, c, s, session_error(sessions, c, env, s))
        PROVE  ReplyOK' /\ ChildOK' /\ ChildEnvironment'
    <2> DEFINE e == session_error(sessions, c, env, s)
    <2>1. e \in Results \ {"NotConfigured"} /\ (e = "ok" => Known(c))
      BY TouchResults
    <2>2. last' = Reply(op, c, s, e)
      BY <1>6
    <2> HIDE DEF e
    <2>3. op # "execute"
      BY <1>6
    <2>4. QED
      BY <1>1, <2>1, <2>2, <2>3, PlainReply
  <1>7. ASSUME handle_process(c, env, s)
        PROVE  ReplyOK' /\ ChildOK' /\ ChildEnvironment'
    <2>1. PICK op \in {"process_status", "terminate_process", "wait_process"},
               named \in BOOLEAN, timeout \in WaitTimeouts :
                 last' = Reply(op, c, s, process_error(sessions, c, env, s, op, named, timeout))
      BY <1>7 DEF handle_process
    <2> DEFINE e == process_error(sessions, c, env, s, op, named, timeout)
    <2>2. last' = Reply(op, c, s, e)
      BY <2>1
    <2>3. /\ e \in {"ok", "InvalidRequest", "SessionNotFound", "SessionExpired", "Forbidden",
                    "NotFound"}
          /\ e = "ok" => Known(c)
      BY ProcessError
    <2> HIDE DEF e
    <2>4. e \in Results /\ e # "NotConfigured" /\ op # "execute"
      BY <2>3 DEF Results
    <2>5. QED
      BY <1>1, <2>2, <2>3, <2>4, PlainReply
  <1>8. ReplyOK' /\ ChildOK' /\ ChildEnvironment'
    BY <1>6, <1>7 DEF handle_get_session, handle_terminate_session
  <1>9. QED
    BY <1>2, <1>5, <1>8

\* list_sessions
LEMMA ListStep ==
    ASSUME ServiceInv, NEW c \in Callers, NEW env \in BOOLEAN, handle_list_sessions(c, env)
    PROVE  ServiceInv'
  <1> USE DEF ServiceInv
  <1> DEFINE e == FirstError(<< <<env, "InvalidRequest">>, <<Known(c), "Forbidden">> >>)
             live == Removed(sessions, Aged(sessions))
             own == IF e = "ok" THEN {s \in DOMAIN live : live[s].owner = c} ELSE {}
  <1>1. phase = "serving" /\ UNCHANGED <<phase, flags, state>>
    BY DEF handle_list_sessions, Serving
  <1>2. /\ sessions' = IF e = "ok" THEN live ELSE sessions
        /\ last' = [Reply("list_sessions", c, NoSession, e) EXCEPT !.shown = own]
    BY DEF handle_list_sessions
  <1>3. e \in {"ok", "InvalidRequest", "Forbidden"} /\ (e = "ok" => Known(c))
    BY ListError
  <1>4. TableOK(live) /\ DOMAIN live \subseteq DOMAIN sessions
    BY RemovedOK
  <1>5. \A s \in own \cap DOMAIN sessions' : sessions'[s].owner = c
    BY <1>2
  <1> HIDE DEF e, live, own
  <1>6. TableOK(sessions)' /\ SessionsNeedFiles'
    BY <1>1, <1>2, <1>4 DEF SessionsNeedFiles, TableOK
  <1>7. Configured'
    BY <1>1, SameConfiguration
  <1>8. /\ last'.op = "list_sessions" /\ last'.caller = c /\ last'.result = e
        /\ last'.child = FALSE /\ last'.shown = own
    BY <1>2 DEF Reply, NoRequest
  <1>9. Known(c)' = Known(c)
    BY <1>1 DEF Known, Permissive
  <1>10. ReplyOK'
    BY <1>1, <1>3, <1>5, <1>8, <1>9 DEF ReplyOK, ForbiddenMeansYou, Results
  <1>11. ChildOK' /\ ChildEnvironment'
    BY <1>8 DEF ChildOK, ChildEnvironment
  <1>12. QED
    BY <1>6, <1>7, <1>10, <1>11

\* A session as create_session makes it.
LEMMA NewSession ==
    ASSUME NEW c \in Callers, NEW r \in CreateRequests, "PATH" \notin DOMAIN r.env_vars, NEW new,
           new = [owner |-> c, env_vars |-> sanitize_env(r.env_vars),
                  working_directory |-> IF r.working_directory = "none" THEN "."
                                        ELSE r.working_directory,
                  aged |-> FALSE, procs |-> 0]
    PROVE  new \in Session /\ "PATH" \notin DOMAIN new.env_vars
  <1>1. 0 \in 0..MaxPerSession
    BY ServiceAssumption
  <1>2. new \in Session
    BY <1>1 DEF Session
  <1>3. new.env_vars = sanitize_env(r.env_vars)
    OBVIOUS
  <1>4. QED
    BY <1>2, <1>3 DEF sanitize_env

\* create_session
LEMMA CreateStep ==
    ASSUME ServiceInv, NEW c \in Callers, NEW env \in BOOLEAN, NEW r \in CreateRequests,
           handle_create_session(c, env, r)
    PROVE  ServiceInv'
  <1> USE DEF ServiceInv
  <1> DEFINE dir == IF r.working_directory = "none" THEN "." ELSE r.working_directory
             checked == FirstError(<< <<env, "InvalidRequest">>,
                                      <<Known(c), "Forbidden">>,
                                      <<validate_create(r), "InvalidRequest">>,
                                      <<state.fs, "NotConfigured">>,
                                      <<ValidDir(dir), "InvalidRequest">>,
                                      <<"PATH" \notin DOMAIN r.env_vars, "InvalidRequest">> >>)
             purged == Removed(sessions, Aged(sessions))
             full == Cardinality(DOMAIN purged) >= MaxSessions
             result(s) == IF checked # "ok" THEN checked
                          ELSE IF full THEN session_error_to_rpc("TooManySessions")
                          ELSE IF s = NoSession THEN session_error_to_rpc("Internal") ELSE "ok"
             new == [owner |-> c, env_vars |-> sanitize_env(r.env_vars),
                     working_directory |-> dir, aged |-> FALSE, procs |-> 0]
  <1>1. phase = "serving" /\ UNCHANGED <<phase, flags, state>>
    BY DEF handle_create_session, Serving
  <1>2. PICK s \in (SessionIds \ DOMAIN sessions) \cup {NoSession} :
           /\ last' = Reply("create_session", c, IF result(s) = "ok" THEN s ELSE NoSession, result(s))
           /\ sessions' = IF checked # "ok" THEN sessions
                          ELSE IF result(s) # "ok" THEN purged
                          ELSE [t \in DOMAIN purged \cup {s} |-> IF t = s THEN new ELSE purged[t]]
    BY DEF handle_create_session
  <1>3. /\ checked \in {"ok", "InvalidRequest", "NotConfigured", "Forbidden"}
        /\ checked = "ok" => Known(c) /\ state.fs /\ "PATH" \notin DOMAIN r.env_vars
        /\ checked = "NotConfigured" => ~state.fs
    BY CreateError
  <1>4. TableOK(purged) /\ DOMAIN purged \subseteq DOMAIN sessions
    BY RemovedOK
  <1>5. checked = "ok" => new \in Session /\ "PATH" \notin DOMAIN new.env_vars
    BY <1>3, NewSession
  <1> HIDE DEF checked, purged, full, new, dir
  <1>6. /\ checked # "ok" => result(s) = checked
        /\ checked = "ok" => result(s) \in {"ok", "CapacityExceeded", "InternalError"}
        /\ result(s) = "ok" => checked = "ok" /\ s # NoSession
    BY ErrorCategories
  <1> DEFINE e == result(s)
             shownid == IF e = "ok" THEN s ELSE NoSession
  <1>7. last' = Reply("create_session", c, shownid, e)
    BY <1>2
  <1>8. e \in Results /\ (e = "ok" => Known(c)) /\ (e = "NotConfigured" => ~state.fs)
    BY <1>3, <1>6 DEF Results
  <1> HIDE DEF result, e, shownid
  <1>9. ReplyOK' /\ ChildOK' /\ ChildEnvironment'
    <2>1. "create_session" \notin ProcessOps
      BY DEF ProcessOps
    <2>2. QED
      BY <1>1, <1>7, <1>8, <2>1, PlainReply
  <1>10. Configured'
    BY <1>1, SameConfiguration
  <1>11. TableOK(sessions')
    <2>1. CASE checked # "ok" \/ result(s) # "ok"
      BY <1>2, <1>4, <2>1
    <2>2. CASE checked = "ok" /\ result(s) = "ok"
      <3>1. sessions' = [t \in DOMAIN purged \cup {s} |-> IF t = s THEN new ELSE purged[t]]
        BY <1>2, <2>2
      <3>2. s \in SessionIds
        BY <1>2, <1>6, <2>2
      <3>3. QED
        BY <1>4, <1>5, <2>2, <3>1, <3>2 DEF TableOK
    <2>3. QED
      BY <2>1, <2>2
  <1>12. SessionsNeedFiles'
    <2>1. CASE checked = "ok"
      BY <1>1, <1>3, <2>1 DEF SessionsNeedFiles
    <2>2. CASE checked # "ok"
      BY <1>1, <1>2, <2>2 DEF SessionsNeedFiles
    <2>3. QED
      BY <2>1, <2>2
  <1>13. QED
    BY <1>9, <1>10, <1>11, <1>12

\* execute
LEMMA ExecuteStep ==
    ASSUME ServiceInv, NEW c \in Callers, NEW env \in BOOLEAN, NEW s \in SessionIds,
           NEW r \in ExecuteRequests, handle_execute(c, env, s, r)
    PROVE  ServiceInv'
  <1> USE DEF ServiceInv
  <1> DEFINE checked == execute_error(sessions, c, env, s, r)
             result(spawned) == IF checked # "ok" THEN checked
                                ELSE IF sessions[s].procs >= MaxPerSession
                                THEN process_error_to_rpc("TooManyProcesses")
                                ELSE IF spawned THEN "ok" ELSE process_error_to_rpc("Io")
             merged == merge_session_env(sessions[s].env_vars, r.env_vars)
  <1>1. phase = "serving" /\ UNCHANGED <<phase, flags, state>>
    BY DEF handle_execute, Serving
  <1>2. PICK spawned \in BOOLEAN :
           /\ last' = [Reply("execute", c, s, result(spawned)) EXCEPT
                         !.program = r.program, !.child = (result(spawned) = "ok"),
                         !.asked = r.env_vars,
                         !.env = IF result(spawned) = "ok" THEN merged ELSE <<>>]
           /\ sessions' = IF result(spawned) = "ok" THEN [sessions EXCEPT ![s].procs = @ + 1]
                          ELSE IF env THEN Touched(s) ELSE sessions
    BY DEF handle_execute
  <1>3. /\ checked \in {"ok", "InvalidRequest", "SessionNotFound", "SessionExpired", "Forbidden",
                        "DeniedExecutable", "NotConfigured"}
        /\ checked = "ok" => /\ touch_owned(sessions, c, s) = "ok"
                             /\ Known(c)
                             /\ check_policy(state.policy, r.program) = "ok"
                             /\ check_exec_grant(c, r.program)
                             /\ "PATH" \notin DOMAIN r.env_vars
        /\ checked = "Forbidden" /\ Known(c) => check_policy(state.policy, r.program) = "ok"
        /\ checked = "NotConfigured" => touch_owned(sessions, c, s) = "ok" /\ ~state.fs
    BY ExecuteError
  <1>4. touch_owned(sessions, c, s) = "ok" => s \in DOMAIN sessions
    BY TouchFacts
  <1>5. checked # "NotConfigured"
    BY <1>3, <1>4 DEF SessionsNeedFiles
  <1> HIDE DEF checked, merged
  <1>6. /\ checked # "ok" => result(spawned) = checked
        /\ checked = "ok" => result(spawned) \in {"ok", "CapacityExceeded", "InternalError"}
        /\ result(spawned) = "ok" => checked = "ok" /\ ~(sessions[s].procs >= MaxPerSession)
    BY ErrorCategories
  <1> DEFINE e == result(spawned)
             child == e = "ok"
             given == IF e = "ok" THEN merged ELSE <<>>
  <1>7. /\ last' = [Reply("execute", c, s, e) EXCEPT
                      !.program = r.program, !.child = child, !.asked = r.env_vars, !.env = given]
        /\ sessions' = IF e = "ok" THEN [sessions EXCEPT ![s].procs = @ + 1]
                       ELSE IF env THEN Touched(s) ELSE sessions
    BY <1>2
  <1>8. /\ e \in Results /\ e # "NotConfigured"
        /\ e = "ok" => checked = "ok" /\ ~(sessions[s].procs >= MaxPerSession)
        /\ e = "Forbidden" => checked = "Forbidden"
    BY <1>3, <1>5, <1>6 DEF Results
  <1> HIDE DEF result, e, child, given
  <1>9. /\ last'.op = "execute" /\ last'.caller = c /\ last'.sid = s /\ last'.result = e
        /\ last'.program = r.program /\ last'.child = child /\ last'.shown = {}
        /\ last'.asked = r.env_vars /\ last'.env = given
    BY <1>7 DEF Reply, NoRequest
  <1>10. Configured'
    BY <1>1, SameConfiguration
  <1>11. Known(c)' = Known(c)
    BY <1>1 DEF Known, Permissive
  <1>12. ReplyOK'
    <2>1. ForbiddenMeansYou'
      BY <1>1, <1>3, <1>8, <1>9, <1>11 DEF ForbiddenMeansYou
    <2>2. QED
      BY <1>1, <1>3, <1>8, <1>9, <1>11, <2>1 DEF ReplyOK
  <1>13. ChildOK'
    <2>1. r.program.exe \in Nat
      BY ServiceAssumption
    <2>2. child => checked = "ok"
      BY <1>8 DEF child
    <2>3. check_exec_grant(c, r.program)' = check_exec_grant(c, r.program)
      BY <1>1 DEF check_exec_grant, Permissive
    <2>4. QED
      BY <1>1, <1>3, <1>9, <2>1, <2>2, <2>3 DEF ChildOK
  <1>14. CASE e = "ok"
    <2>1. checked = "ok" /\ s \in DOMAIN sessions /\ "PATH" \notin DOMAIN r.env_vars
      BY <1>3, <1>4, <1>8, <1>14
    <2>2. sessions[s] \in Session /\ "PATH" \notin DOMAIN sessions[s].env_vars
      BY <2>1 DEF TableOK
    <2>3. sessions' = [sessions EXCEPT ![s].procs = @ + 1]
      BY <1>7, <1>14
    <2>4. DOMAIN sessions' = DOMAIN sessions
      BY <2>3
    <2>5. sessions'[s] = [sessions[s] EXCEPT !.procs = @ + 1]
      BY <2>1, <2>3
    <2>6. sessions[s].procs \in 0..MaxPerSession /\ sessions[s].procs + 1 \in 0..MaxPerSession
      <3>1. sessions[s].procs \in 0..MaxPerSession
        BY <2>2 DEF Session
      <3>2. ~(sessions[s].procs >= MaxPerSession)
        BY <1>8, <1>14
      <3>3. QED
        BY <3>1, <3>2, ServiceAssumption
    <2>7. sessions'[s] \in Session /\ sessions'[s].env_vars = sessions[s].env_vars
      BY <2>2, <2>5, <2>6 DEF Session
    <2>8. \A t \in DOMAIN sessions : t # s => sessions'[t] = sessions[t]
      BY <2>3
    <2>9. TableOK(sessions')
      BY <2>2, <2>4, <2>7, <2>8 DEF TableOK
    <2>10. SessionsNeedFiles'
      BY <1>1, <2>4 DEF SessionsNeedFiles
    <2>11. ChildEnvironment'
      <3> DEFINE stored == sessions[s].env_vars
                 asked == r.env_vars
      <3>1. merged = merge_session_env(stored, asked)
        BY DEF merged
      <3>2. last'.env = merged /\ last'.asked = asked
        BY <1>9, <1>14 DEF given
      <3>3. sessions'[last'.sid].env_vars = stored
        BY <1>9, <2>7
      <3>4. "PATH" \notin DOMAIN stored \cup DOMAIN asked
        BY <2>1, <2>2
      <3> HIDE DEF stored, asked
      <3>5. /\ DOMAIN merged = (DOMAIN stored \cup DOMAIN asked) \ LoaderKeys
            /\ \A k \in DOMAIN merged :
                 merged[k] = IF k \in DOMAIN asked THEN asked[k] ELSE stored[k]
        BY <3>1 DEF merge_session_env, sanitize_env
      <3>6. "PATH" \notin DOMAIN merged
        BY <3>4, <3>5
      <3>7. QED
        BY <3>2, <3>3, <3>5, <3>6 DEF ChildEnvironment
    <2>12. QED
      BY <1>10, <1>12, <1>13, <2>9, <2>10, <2>11
  <1>15. CASE e # "ok"
    <2>1. ~last'.child
      BY <1>9, <1>15 DEF child
    <2>2. ChildEnvironment'
      BY <2>1 DEF ChildEnvironment
    <2>3. sessions' = sessions \/ \E ids : sessions' = Removed(sessions, ids)
      BY <1>7, <1>15 DEF Touched
    <2>4. TableOK(sessions') /\ DOMAIN sessions' \subseteq DOMAIN sessions
      BY <2>3, RemovedOK
    <2>5. SessionsNeedFiles'
      BY <1>1, <2>4 DEF SessionsNeedFiles
    <2>6. QED
      BY <1>10, <1>12, <1>13, <2>2, <2>4, <2>5
  <1>16. QED
    BY <1>14, <1>15

-----------------------------------------------------------------------------
(* The invariant holds *)

\* Initially.
LEMMA ServiceInit == Init => ServiceInv
  <1> SUFFICES ASSUME Init PROVE ServiceInv
    OBVIOUS
  <1>1. /\ phase = "starting" /\ state = NoState /\ sessions = <<>> /\ last = NoRequest
        /\ flags \in CommandLines
    BY DEF Init
  <1>2. Configured
    BY <1>1, ServiceAssumption DEF Configured
  <1>3. DOMAIN sessions = {}
    BY <1>1
  <1>4. TableOK(sessions) /\ SessionsNeedFiles
    BY <1>3 DEF TableOK, SessionsNeedFiles
  <1>5. QED
    BY <1>1, <1>2, <1>4, Quiet DEF ServiceInv

\* A step that changes nothing.
LEMMA ServiceStutter ==
    ASSUME ServiceInv, UNCHANGED vars
    PROVE  ServiceInv'
  BY DEF ServiceInv, vars, Configured, TableOK, SessionsNeedFiles, ReplyOK, ForbiddenMeansYou,
         Known, Permissive, ChildOK, check_exec_grant, ChildEnvironment

\* Every step keeps it.
LEMMA ServiceNext == ServiceInv /\ [Next]_vars => ServiceInv'
  <1> SUFFICES ASSUME ServiceInv, [Next]_vars PROVE ServiceInv'
    OBVIOUS
  <1>1. CASE main
    BY <1>1, MainStep
  <1>2. CASE Answered \/ \E s \in SessionIds : Age(s)
    BY <1>2, QuietStep
  <1>3. ASSUME NEW c \in Callers, NEW env \in BOOLEAN,
               \/ handle_get_environment_info(c, env)
               \/ handle_list_sessions(c, env)
               \/ \E r \in FileRequests : handle_file(c, env, r)
               \/ \E r \in CreateRequests : handle_create_session(c, env, r)
               \/ \E s \in SessionIds :
                    \/ handle_get_session(c, env, s)
                    \/ handle_terminate_session(c, env, s)
                    \/ handle_process(c, env, s)
                    \/ \E r \in ExecuteRequests : handle_execute(c, env, s, r)
        PROVE  ServiceInv'
    <2>1. CASE \/ handle_get_environment_info(c, env)
               \/ \E r \in FileRequests : handle_file(c, env, r)
      BY <2>1, ReadStep
    <2>2. CASE handle_list_sessions(c, env)
      BY <2>2, ListStep
    <2>3. CASE \E r \in CreateRequests : handle_create_session(c, env, r)
      BY <2>3, CreateStep
    <2>4. ASSUME NEW s \in SessionIds,
                 \/ handle_get_session(c, env, s)
                 \/ handle_terminate_session(c, env, s)
                 \/ handle_process(c, env, s)
          PROVE  ServiceInv'
      BY <2>4, RemovingStep
    <2>5. ASSUME NEW s \in SessionIds, NEW r \in ExecuteRequests, handle_execute(c, env, s, r)
          PROVE  ServiceInv'
      BY <2>5, ExecuteStep
    <2>6. QED
      BY <1>3, <2>1, <2>2, <2>3, <2>4, <2>5
  <1>4. CASE UNCHANGED vars
    BY <1>4, ServiceStutter
  <1>5. QED
    BY <1>1, <1>2, <1>3, <1>4 DEF Next

\* The invariant holds in every state of every behaviour.
LEMMA ServiceAlways == Spec => []ServiceInv
  BY ServiceInit, ServiceNext, PTL DEF Spec

-----------------------------------------------------------------------------
(* The properties *)

\* Every variable keeps its type, and every reply is in a category that clients
\* know, whatever handler gave it.
THEOREM ServiceTypeCorrect == Spec => []TypeOK
  <1>1. ServiceInv => TypeOK
    <2> SUFFICES ASSUME ServiceInv PROVE TypeOK
      OBVIOUS
    <2>1. state.fs \in BOOLEAN
      <3>1. CASE phase = "serving"
        <4>1. PICK tls : state = build_daemon_state(flags, load_from_file(flags.grants_file), tls)
          BY <3>1 DEF ServiceInv, Configured
        <4>2. QED
          BY <4>1 DEF build_daemon_state
      <3>2. CASE phase # "serving"
        <4>1. state = NoState
          BY <3>2 DEF ServiceInv, Configured
        <4>2. state.fs = FALSE
          BY <4>1 DEF NoState
        <4>3. QED
          BY <4>2
      <3>3. QED
        BY <3>1, <3>2
    <2>2. QED
      BY <2>1 DEF TypeOK, ServiceInv, Configured, TableOK, ReplyOK
  <1>2. QED
    BY <1>1, ServiceAlways, PTL

\* The table of grants in force is the file that was given, if one was.
LEMMA GrantsInForce ==
    ASSUME Configured, phase = "serving"
    PROVE  \/ /\ flags.grants_file = NoGrants /\ flags.permissive_authz
              /\ state.grants = NoGrants
           \/ /\ flags.grants_file \in GrantsFiles /\ flags.grants_file # NoGrants
              /\ state.grants = flags.grants_file
  <1>1. state.grants = load_from_file(flags.grants_file)
    <2>1. PICK tls : state = build_daemon_state(flags, load_from_file(flags.grants_file), tls)
      BY DEF Configured
    <2>2. QED
      BY <2>1 DEF build_daemon_state
  <1>2. /\ load_from_file(flags.grants_file) # LoadError
        /\ flags.grants_file # NoGrants \/ flags.permissive_authz
        /\ flags.grants_file \in {NoGrants, Unreadable, Malformed} \cup GrantsFiles
    BY DEF Configured, validate_authz_mode, Flags
  <1>3. NoGrants \notin GrantsFiles
    BY ServiceAssumption
  <1>4. CASE flags.grants_file = NoGrants
    BY <1>1, <1>2, <1>4 DEF load_from_file
  <1>5. CASE flags.grants_file # NoGrants
    BY <1>1, <1>2, <1>3, <1>5 DEF load_from_file
  <1>6. QED
    BY <1>4, <1>5

\* While a request is in hand the daemon serves.
LEMMA ServingWhileAsked ==
    ASSUME Configured, last.op # "none" \/ last.child \/ last.result # "ok"
    PROVE  phase = "serving"
  BY NoRequestFacts DEF Configured

\* Whoever is not in the grants file gets nothing but the environment's
\* description, on any command line, unless the operator asked for more: a file
\* that does not load, in whichever way, never opens the daemon.
THEOREM UnlistedGetOnlyInfoTheorem == Spec => []UnlistedGetOnlyInfo
  <1>1. ServiceInv => UnlistedGetOnlyInfo
    <2> SUFFICES ASSUME ServiceInv,
                        last.op \notin {"none", "get_environment_info"}, last.result = "ok"
                 PROVE  \/ flags.permissive_authz /\ flags.grants_file = NoGrants
                        \/ /\ flags.grants_file \in GrantsFiles
                           /\ last.caller \in DOMAIN flags.grants_file
      BY DEF UnlistedGetOnlyInfo
    <2>1. Known(last.caller) /\ Configured
      BY DEF ServiceInv, ReplyOK
    <2>2. phase = "serving"
      BY <2>1, ServingWhileAsked
    <2>3. QED
      BY <2>1, <2>2, GrantsInForce DEF Known, Permissive
  <1>2. QED
    BY <1>1, ServiceAlways, PTL

\* No operation whose capability the daemon advertises is answered with a missing
\* backend.  The argument about execute is the invariant's: without files there
\* are no sessions, and a session is looked for first.
THEOREM AdvertisedIsWiredTheorem == Spec => []AdvertisedIsWired
  <1>1. ServiceInv => AdvertisedIsWired
    <2> SUFFICES ASSUME ServiceInv, last.result = "NotConfigured",
                        last.op \in DOMAIN CapabilityOf
                 PROVE  CapabilityOf[last.op] \notin state.advertised
      BY DEF AdvertisedIsWired
    <2>1. ~state.fs /\ last.op \notin ProcessOps /\ Configured
      BY DEF ServiceInv, ReplyOK
    <2>2. phase = "serving"
      BY <2>1, ServingWhileAsked
    <2>3. PICK tls : state = build_daemon_state(flags, load_from_file(flags.grants_file), tls)
      BY <2>1, <2>2 DEF Configured
    <2>4. flags.allowed_root = "unresolvable"
      BY <2>1, <2>3 DEF build_daemon_state
    <2>5. state.advertised = ProcessCapabilities
      BY <2>3, <2>4 DEF build_daemon_state
    <2>6. last.op \in {"read_file", "get_file_metadata", "list_directory", "write_file",
                       "create_directory", "rename", "delete_file"}
      BY <2>1 DEF CapabilityOf, ProcessOps
    <2>7. CapabilityOf[last.op] \in FilesystemCapabilities
      BY <2>6 DEF CapabilityOf, FilesystemCapabilities
    <2>8. QED
      BY <2>5, <2>7 DEF FilesystemCapabilities, ProcessCapabilities
  <1>2. QED
    BY <1>1, ServiceAlways, PTL

\* No spelling of a denied program passes the deny list.
LEMMA DeniedSpellings ==
    ASSUME NEW p, p.exe \in Nat, NEW d \in Denied, Spells(p, d)
    PROVE  Matches(p, {Named(x) : x \in Denied})
  <1>1. normalize_program_name(Named(d)) = <<d, 0>>
    BY DEF normalize_program_name, Named
  <1>2. normalize_program_name(p) = <<d, 0>>
    BY DEF normalize_program_name, Spells
  <1>3. QED
    BY <1>1, <1>2 DEF Matches

\* No spelling of a denied program runs, none outside the allow list (without a
\* list, none but under --permissive-exec), and none that the caller was not
\* granted.
THEOREM RunsOnlyAllowedTheorem == Spec => []RunsOnlyAllowed
  <1>1. ServiceInv => RunsOnlyAllowed
    <2> SUFFICES ASSUME ServiceInv, last.child
                 PROVE  /\ \A d \in Denied : ~Spells(last.program, d)
                        /\ IF flags.allow_list
                           THEN \E a \in flags.allowed : Matches(last.program, {a})
                           ELSE flags.permissive_exec
                        /\ flags.grants_file # NoGrants =>
                             \E g \in flags.grants_file[last.caller].programs :
                               Matches(last.program, {g})
      BY DEF RunsOnlyAllowed
    <2> DEFINE p == last.program
    <2>1. /\ check_policy(state.policy, p) = "ok"
          /\ check_exec_grant(last.caller, p)
          /\ p.exe \in Nat
          /\ Configured
      BY DEF ServiceInv, ChildOK
    <2>2. phase = "serving"
      BY <2>1, ServingWhileAsked
    <2>3. ~Matches(p, {Named(d) : d \in Denied})
      BY <2>1 DEF check_policy
    <2>4. IF state.policy.allow_list THEN Matches(p, state.policy.allowed)
          ELSE state.policy.permissive
      BY <2>1, <2>3 DEF check_policy
    <2>5. /\ state.policy.allow_list = flags.allow_list
          /\ state.policy.allowed = flags.allowed
          /\ state.policy.permissive = flags.permissive_exec
      <3>1. PICK tls : state = build_daemon_state(flags, load_from_file(flags.grants_file), tls)
        BY <2>1, <2>2 DEF Configured
      <3>2. QED
        BY <3>1 DEF build_daemon_state
    <2>6. \A entries : Matches(p, entries) => \E a \in entries : Matches(p, {a})
      BY DEF Matches
    <2>7. IF flags.allow_list THEN \E a \in flags.allowed : Matches(p, {a})
          ELSE flags.permissive_exec
      BY <2>4, <2>5, <2>6
    <2>8. ASSUME flags.grants_file # NoGrants
          PROVE  \E g \in flags.grants_file[last.caller].programs : Matches(p, {g})
      <3>1. state.grants = flags.grants_file
        BY <2>1, <2>2, <2>8, GrantsInForce
      <3>2. Matches(p, flags.grants_file[last.caller].programs)
        BY <2>1, <2>8, <3>1 DEF check_exec_grant, Permissive, grants_allow_exec
      <3>3. QED
        BY <2>6, <3>2
    <2>9. \A d \in Denied : ~Spells(p, d)
      BY <2>1, <2>3, DeniedSpellings
    <2>10. QED
      BY <2>7, <2>8, <2>9
  <1>2. QED
    BY <1>1, ServiceAlways, PTL

\* A listed caller is told Forbidden only of a program that the policy lets
\* somebody run: the policy is asked before the caller's grants.
THEOREM ForbiddenMeansYouTheorem == Spec => []ForbiddenMeansYou
  <1>1. ServiceInv => ForbiddenMeansYou
    BY DEF ServiceInv, ReplyOK
  <1>2. QED
    BY <1>1, ServiceAlways, PTL

\* A child gets the session's variables and the request's over them, all but the
\* loader's, and never PATH.
THEOREM ChildEnvironmentTheorem == Spec => []ChildEnvironment
  <1>1. ServiceInv => ChildEnvironment
    BY DEF ServiceInv
  <1>2. QED
    BY <1>1, ServiceAlways, PTL

\* What a caller is told about another's session, by any handler that takes one,
\* is what it is told about an id that nobody has; no list shows it.
THEOREM NoOracleTheorem == Spec => []NoOracle
  <1>1. ServiceInv => NoOracle
    <2> SUFFICES ASSUME ServiceInv PROVE NoOracle
      OBVIOUS
    <2>1. \A s \in last.shown \cap DOMAIN sessions : sessions[s].owner = last.caller
      BY DEF ServiceInv, ReplyOK
    <2>2. ASSUME NEW s \in DOMAIN sessions, NEW c \in Callers \ {sessions[s].owner}, NEW without,
                 without = Removed(sessions, {s})
          PROVE  /\ session_error(sessions, c, TRUE, s) = session_error(without, c, TRUE, s)
                 /\ \A r \in ExecuteRequests :
                      execute_error(sessions, c, TRUE, s, r) = execute_error(without, c, TRUE, s, r)
                 /\ \A op \in {"process_status", "wait_process"} :
                      process_error(sessions, c, TRUE, s, op, TRUE, 1)
                        = process_error(without, c, TRUE, s, op, TRUE, 1)
      <3>1. touch_owned(sessions, c, s) = "SessionNotFound"
        BY <2>2, TouchFacts
      <3>2. s \notin DOMAIN without
        BY <2>2 DEF Removed
      <3>3. touch_owned(without, c, s) = "SessionNotFound"
        BY <3>2, TouchFacts
      <3>4. session_error(sessions, c, TRUE, s) = session_error(without, c, TRUE, s)
        <4>1. CASE Known(c)
          BY <3>1, <3>3, <4>1, SessionError
        <4>2. CASE ~Known(c)
          BY <4>2, SessionError
        <4>3. QED
          BY <4>1, <4>2
      <3>5. ASSUME NEW r \in ExecuteRequests
            PROVE  execute_error(sessions, c, TRUE, s, r) = execute_error(without, c, TRUE, s, r)
        <4>1. execute_error(sessions, c, TRUE, s, r) = "SessionNotFound"
          BY <3>1, ExecuteError
        <4>2. execute_error(without, c, TRUE, s, r) = "SessionNotFound"
          BY <3>3, ExecuteError
        <4>3. QED
          BY <4>1, <4>2
      <3>6. ASSUME NEW op
            PROVE  process_error(sessions, c, TRUE, s, op, TRUE, 1)
                     = process_error(without, c, TRUE, s, op, TRUE, 1)
        <4>1. process_error(sessions, c, TRUE, s, op, TRUE, 1) = "SessionNotFound"
          BY <3>1, ProcessError
        <4>2. process_error(without, c, TRUE, s, op, TRUE, 1) = "SessionNotFound"
          BY <3>3, ProcessError
        <4>3. QED
          BY <4>1, <4>2
      <3>7. QED
        BY <3>4, <3>5, <3>6
    <2>3. QED
      BY <2>1, <2>2 DEF NoOracle
  <1>2. QED
    BY <1>1, ServiceAlways, PTL
=============================================================================
