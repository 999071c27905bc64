-------------------------- MODULE FileAccessProofs --------------------------
(***************************************************************************)
(* Proofs about FileAccess: path resolution and the creation of            *)
(* directories stay below the allowed roots, for every tree, with any      *)
(* links, every sequence of roots and every request.                       *)
(*                                                                         *)
(* The argument: the location the walk of canonicalize has reached has no  *)
(* link on the way, at every step (Canonical), and canonicalize leads such *)
(* a location to itself.                                                   *)
(***************************************************************************)
EXTENDS FileAccess, TLAPS, SequenceTheorems, WellFoundedInduction

-----------------------------------------------------------------------------
(* Induction over the naturals.  A property is given as the set of numbers that
   have it, and a recursive function by the runs of a step function. *)

LEMMA LessPairs == \A x, y \in Nat : <<x, y>> \in OpToRel(<, Nat) <=> x < y
  BY DEF OpToRel

\* A set of naturals has a least element.
LEMMA LeastNatural ==
  ASSUME NEW T, T \subseteq Nat, T # {}
  PROVE  \E x \in T : \A y \in T : x <= y
  <1> DEFINE R == OpToRel(<, Nat)
  <1>1. IsWellFoundedOn(R, Nat)
     BY NatLessThanWellFounded
  <1>2. \A x, y \in Nat : <<x, y>> \in R <=> x < y
     BY LessPairs
  <1> HIDE DEF R
  <1>3. PICK x \in T : \A y \in T : ~ (<<y, x>> \in R)
     BY <1>1, WFMin
  <1>4. ASSUME NEW y \in T PROVE x <= y
    <2>1. ~(y < x)
      BY <1>2, <1>3
    <2>2. x \in Nat /\ y \in Nat
      OBVIOUS
    <2>3. QED BY <2>1, <2>2
  <1>5. QED BY <1>4

\* A set with 0 that is closed under n -> n + 1 holds every natural.
LEMMA Induction ==
  ASSUME NEW T, 0 \in T, \A n \in Nat : n \in T => n + 1 \in T
  PROVE  \A n \in Nat : n \in T
  <1> DEFINE U == Nat \ T
  <1> SUFFICES ASSUME U # {} PROVE FALSE
     OBVIOUS
  <1>1. PICK x \in U : \A y \in U : x <= y
     BY LeastNatural
  <1>2. x # 0 /\ x - 1 \in Nat /\ x - 1 < x
     BY <1>1
  <1>3. x - 1 \in T
     BY <1>1, <1>2
  <1>4. QED BY <1>1, <1>2, <1>3

\* The functions on Nat that start with s and go on by F.
Runs(S, s, F) ==
  {f \in [Nat -> S] : f[0] = s /\ \A n \in Nat : f[n + 1] = F[<<n + 1, f[n]>>]}

\* There is one: runs of length n exist and agree, by induction, and their last
\* elements are the run.
LEMMA Iteration ==
  ASSUME NEW S, NEW s \in S, NEW F \in [Nat \X S -> S]
  PROVE  \E f : f \in Runs(S, s, F)
  <1> DEFINE Run(n, g) == /\ g \in [0..n -> S]
                          /\ g[0] = s
                          /\ \A i \in 0..(n - 1) : g[i + 1] = F[<<i + 1, g[i]>>]
             Some == {n \in Nat : \E g : Run(n, g)}
             Same == {i \in Nat : \A n, m \in Nat : \A g, h :
                         Run(n, g) /\ Run(m, h) /\ i <= n /\ i <= m => g[i] = h[i]}
             G == [n \in Nat |-> CHOOSE g : Run(n, g)]
             f == [n \in Nat |-> G[n][n]]
  <1>1. ASSUME NEW n \in Nat, NEW g, Run(n, g) PROVE \E h : Run(n + 1, h)
    <2> DEFINE h == [i \in 0..(n + 1) |-> IF i <= n THEN g[i] ELSE F[<<n + 1, g[n]>>]]
    <2>1. h \in [0..(n + 1) -> S]
      <3>1. F[<<n + 1, g[n]>>] \in S
        BY <1>1
      <3>2. QED BY <3>1, <1>1
    <2>2. h[0] = s
      BY <1>1
    <2>3. ASSUME NEW i \in 0..n PROVE h[i + 1] = F[<<i + 1, h[i]>>]
      <3>1. CASE i = n
        <4>1. h[n] = g[n] /\ h[n + 1] = F[<<n + 1, g[n]>>]
          OBVIOUS
        <4> HIDE DEF h
        <4>2. QED BY <3>1, <4>1
      <3>2. CASE i # n
        <4>1. h[i] = g[i] /\ h[i + 1] = g[i + 1] /\ i \in 0..(n - 1)
          BY <3>2
        <4>2. g[i + 1] = F[<<i + 1, g[i]>>]
          BY <4>1, <1>1
        <4> HIDE DEF h
        <4>3. QED BY <4>1, <4>2
      <3>3. QED BY <3>1, <3>2
    <2>4. (n + 1) - 1 = n
      OBVIOUS
    <2> HIDE DEF h
    <2>5. QED BY <2>1, <2>2, <2>3, <2>4
  <1>2. \E g : Run(0, g)
    <2> DEFINE g == [i \in 0..0 |-> s]
    <2>1. Run(0, g) OBVIOUS
    <2>2. QED BY <2>1
  <1>3. \A n \in Nat : n \in Some
    <2>1. 0 \in Some BY <1>2
    <2>2. \A n \in Nat : n \in Some => n + 1 \in Some
       BY <1>1
    <2> HIDE DEF Some
    <2>3. QED BY <2>1, <2>2, Induction
  <1>4. \A n \in Nat : n \in Same
    <2>1. 0 \in Same OBVIOUS
    <2>2. ASSUME NEW i \in Nat, i \in Same PROVE i + 1 \in Same
      <3> SUFFICES ASSUME NEW n \in Nat, NEW m \in Nat, NEW g, NEW h,
                          Run(n, g), Run(m, h), i + 1 <= n, i + 1 <= m
                   PROVE  g[i + 1] = h[i + 1]
        <4> HIDE DEF Run
        <4>1. QED OBVIOUS
      <3>1. g[i] = h[i]
        <4>1. i <= n /\ i <= m
          OBVIOUS
        <4> HIDE DEF Run
        <4>2. QED BY <2>2, <4>1
      <3>2. i \in 0..(n - 1) /\ i \in 0..(m - 1)
        OBVIOUS
      <3>3. g[i + 1] = F[<<i + 1, g[i]>>]
        BY <3>2
      <3>4. h[i + 1] = F[<<i + 1, h[i]>>]
        BY <3>2
      <3>5. QED BY <3>1, <3>3, <3>4
    <2> HIDE DEF Same
    <2>3. QED BY <2>1, <2>2, Induction
  <1>5. \A n \in Nat : Run(n, G[n])
    BY <1>3
  <1> HIDE DEF G
  <1>6. f \in [Nat -> S]
    BY <1>5
  <1>7. f[0] = s
    BY <1>5
  <1>8. ASSUME NEW n \in Nat PROVE f[n + 1] = F[<<n + 1, f[n]>>]
    <2>1. G[n + 1][n] = G[n][n]
      <3>1. n <= n /\ n <= n + 1 /\ n + 1 \in Nat
        OBVIOUS
      <3> HIDE DEF Run
      <3>2. Run(n, G[n]) /\ Run(n + 1, G[n + 1]) /\ n \in Same
        BY <1>5, <1>4, <3>1
      <3>3. QED BY <3>1, <3>2
    <2>2. G[n + 1][n + 1] = F[<<n + 1, G[n + 1][n]>>]
      <3>1. Run(n + 1, G[n + 1]) /\ n \in 0..((n + 1) - 1)
        BY <1>5
      <3>2. QED BY <3>1
    <2>3. QED BY <2>1, <2>2
  <1> HIDE DEF f
  <1>9. QED BY <1>6, <1>7, <1>8 DEF Runs

\* FirstReply picks an element of the set it looks at.
LEMMA LeastIsIn ==
  ASSUME NEW T, T \subseteq Nat, T # {} PROVE Min(T) \in T
  <1>1. \E x \in T : \A y \in T : x <= y
    BY LeastNatural
  <1>2. QED BY <1>1 DEF Min

-----------------------------------------------------------------------------
(* Sequences. *)

LEMMA FrontTyped ==
  ASSUME NEW s \in Seq(STRING) PROVE Front(s) \in Seq(STRING)
  BY DEF Front

\* What a name at the end leaves of the prefixes, and what Front and Last take off.
LEMMA PrefixOfAppend ==
  ASSUME NEW S, NEW s \in Seq(S), NEW x \in S
  PROVE  /\ \A i \in 0..Len(s) : SubSeq(Append(s, x), 1, i) = SubSeq(s, 1, i)
         /\ SubSeq(Append(s, x), 1, Len(s) + 1) = Append(s, x)
         /\ Front(Append(s, x)) = s
         /\ Last(Append(s, x)) = x
  <1> DEFINE a == Append(s, x)
  <1>1. /\ a \in Seq(S) /\ Len(a) = Len(s) + 1 /\ a[Len(s) + 1] = x
        /\ \A i \in 1..Len(s) : a[i] = s[i]
    <2>1. a \in Seq(S)
      BY AppendProperties
    <2>2. Len(a) = Len(s) + 1
      BY AppendProperties
    <2>3. a[Len(s) + 1] = x
      BY AppendProperties
    <2>4. \A i \in 1..Len(s) : a[i] = s[i]
      BY AppendProperties
    <2>5. QED BY <2>1, <2>2, <2>3, <2>4
  <1>2. Len(s) \in Nat /\ \A i \in 1..Len(s) : s[i] \in S
    BY LenProperties, ElementOfSeq
  <1> HIDE DEF a
  <1>3. ASSUME NEW i \in 0..Len(s) PROVE SubSeq(a, 1, i) = SubSeq(s, 1, i)
    <2>1. i \in Nat /\ \A k \in 1..i : a[k] = s[k] /\ s[k] \in S
      BY <1>1, <1>2
    <2>2. /\ SubSeq(s, 1, i) \in Seq(S) /\ SubSeq(a, 1, i) \in Seq(S)
          /\ Len(SubSeq(s, 1, i)) = i /\ Len(SubSeq(a, 1, i)) = i
          /\ \A k \in 1..i : SubSeq(s, 1, i)[k] = s[k] /\ SubSeq(a, 1, i)[k] = a[k]
      BY <2>1, SubSeqProperties
    <2>3. QED BY <2>1, <2>2, SeqEqual
  <1>4. SubSeq(a, 1, Len(s) + 1) = a
    BY <1>1, SubSeqFull
  <1>5. SubSeq(s, 1, Len(s)) = s
    BY SubSeqFull
  <1>6. Front(a) = s
    <2>1. Front(a) = SubSeq(a, 1, Len(s))
      BY <1>1, <1>2 DEF Front
    <2>2. QED BY <1>2, <1>3, <1>5, <2>1
  <1>7. Last(a) = x
    BY <1>1 DEF Last
  <1>8. \A i \in 0..Len(s) : SubSeq(a, 1, i) = SubSeq(s, 1, i)
    BY <1>2, <1>3
  <1>9. QED BY <1>4, <1>6, <1>7, <1>8, Zenon DEF a

LEMMA PrefixOfFront ==
  ASSUME NEW s \in Seq(STRING), s # <<>>
  PROVE  /\ Front(s) \in Seq(STRING)
         /\ Len(Front(s)) = Len(s) - 1 /\ Len(s) - 1 \in Nat
         /\ \A i \in 1..(Len(s) - 1) :
               Front(s)[i] = s[i] /\ SubSeq(Front(s), 1, i) = SubSeq(s, 1, i)
  <1>1. Len(s) - 1 \in Nat /\ \A i \in 1..Len(s) : s[i] \in STRING
    BY EmptySeq, ElementOfSeq
  <1> DEFINE f == Front(s)
  <1>2. /\ f \in Seq(STRING) /\ Len(f) = Len(s) - 1
        /\ \A i \in 1..(Len(s) - 1) : f[i] = s[i]
    <2> DEFINE m == Len(s) - 1
    <2>1. m \in Nat /\ \A i \in 1..m : s[i] \in STRING
      BY <1>1
    <2> HIDE DEF m
    <2>2. /\ SubSeq(s, 1, m) \in Seq(STRING) /\ Len(SubSeq(s, 1, m)) = m
          /\ \A i \in 1..m : SubSeq(s, 1, m)[i] = s[i]
      BY <2>1, SubSeqProperties
    <2>3. QED BY <2>2 DEF m, Front
  <1> HIDE DEF f
  <1>3. ASSUME NEW i \in 1..(Len(s) - 1) PROVE SubSeq(f, 1, i) = SubSeq(s, 1, i)
    <2>1. i \in Nat /\ \A k \in 1..i : f[k] = s[k] /\ s[k] \in STRING
      BY <1>1, <1>2
    <2>2. /\ SubSeq(s, 1, i) \in Seq(STRING) /\ SubSeq(f, 1, i) \in Seq(STRING)
          /\ Len(SubSeq(s, 1, i)) = i /\ Len(SubSeq(f, 1, i)) = i
          /\ \A k \in 1..i : SubSeq(s, 1, i)[k] = s[k] /\ SubSeq(f, 1, i)[k] = f[k]
      BY <2>1, SubSeqProperties
    <2>3. QED BY <2>1, <2>2, SeqEqual
  <1>4. QED BY <1>1, <1>2, <1>3 DEF f

\* What is below a location is below what that is below.
LEMMA UnderAppend ==
  ASSUME NEW root \in Seq(STRING), NEW loc \in Seq(STRING), NEW name, Under(root, loc)
  PROVE  /\ Under(root, Append(loc, name))
         /\ Front(Append(loc, name)) = loc
         /\ Last(Append(loc, name)) = name
  <1> DEFINE S == STRING \cup {name}
  <1>1. loc \in Seq(S) /\ name \in S
    BY SeqMonotonic
  <1>2. Len(root) \in Nat /\ Len(loc) \in Nat
    BY LenProperties
  <1> HIDE DEF S
  <1>3. /\ \A i \in 0..Len(loc) : SubSeq(Append(loc, name), 1, i) = SubSeq(loc, 1, i)
        /\ Front(Append(loc, name)) = loc
        /\ Last(Append(loc, name)) = name
    BY <1>1, PrefixOfAppend, Zenon
  <1>4. Len(Append(loc, name)) = Len(loc) + 1
    BY <1>1, AppendProperties
  <1>5. Len(root) <= Len(loc) /\ SubSeq(root, 1, Len(root)) = SubSeq(loc, 1, Len(root))
    BY DEF Under, IsPrefix
  <1>6. Len(root) \in 0..Len(loc) /\ Len(root) <= Len(Append(loc, name))
    BY <1>2, <1>4, <1>5
  <1>7. Under(root, Append(loc, name))
    BY <1>3, <1>5, <1>6 DEF Under, IsPrefix
  <1>8. QED BY <1>3, <1>7

-----------------------------------------------------------------------------
(* The walk of std::fs::canonicalize. *)

Walks == [cur : Seq(STRING), left : Seq(STRING), links : Nat,
          error : {"none", "not_found", "not_a_directory", "loop"}]

LEMMA AtTyped ==
  ASSUME NEW t, IsTree(t), NEW loc PROVE IsNode(At(t, loc))
  BY DEF IsTree, IsNode, At, Dir, Absent

LEMMA StartTyped == ASSUME NEW names \in Seq(STRING) PROVE Start(names) \in Walks
  BY RootsGiven DEF Start, Walks

LEMMA FollowTyped ==
  ASSUME NEW t, IsTree(t), NEW w \in Walks
  PROVE  Follow(t, w) \in Walks
  <1> SUFFICES ASSUME w.error = "none", w.left # <<>>, At(t, w.cur).kind = "dir"
               PROVE  Follow(t, w) \in Walks
    BY DEF Follow, Walks
  <1> DEFINE name == Head(w.left)
             rest == Tail(w.left)
             next == Append(w.cur, name)
             node == At(t, next)
  <1>1. /\ w.cur \in Seq(STRING) /\ name \in STRING
        /\ rest \in Seq(STRING) /\ next \in Seq(STRING)
    BY HeadTailProperties DEF Walks
  <1>2. Up(w.cur) \in Seq(STRING)
    BY <1>1, FrontTyped DEF Up
  <1>3. node.kind = "link" => node.target \in Seq(STRING) /\ node.target \o rest \in Seq(STRING)
    BY <1>1, AtTyped DEF IsNode, Absent, Dir, File, BigFile
  <1>4. w.links # 0 => w.links - 1 \in Nat
    BY DEF Walks
  <1> HIDE DEF next, node, rest
  <1>5. Follow(t, w) =
        IF name = "." THEN [w EXCEPT !.left = rest]
        ELSE IF name = ".." THEN [w EXCEPT !.cur = Up(w.cur), !.left = rest]
        ELSE CASE node.kind = "absent" -> [w EXCEPT !.error = "not_found"]
               [] node.kind = "link" ->
                    IF w.links = 0 THEN [w EXCEPT !.error = "loop"]
                    ELSE [w EXCEPT !.cur = <<>>, !.left = node.target \o rest, !.links = @ - 1]
               [] OTHER -> [w EXCEPT !.cur = next, !.left = rest]
    BY DEF Follow, next, node, rest
  <1>6. CASE name = "."
    BY <1>1, <1>5, <1>6 DEF Walks
  <1>7. CASE name = ".."
    BY <1>1, <1>2, <1>5, <1>7 DEF Walks
  <1>8. CASE name \notin {".", ".."} /\ node.kind = "absent"
    BY <1>5, <1>8 DEF Walks
  <1>9. CASE name \notin {".", ".."} /\ node.kind = "link"
    <2>1. CASE w.links = 0
      BY <1>5, <1>9, <2>1 DEF Walks
    <2>2. CASE w.links # 0
      <3> DEFINE new == node.target \o rest
      <3>1. new \in Seq(STRING) /\ <<>> \in Seq(STRING)
        BY <1>3, <1>9
      <3>2. Follow(t, w) = [w EXCEPT !.cur = <<>>, !.left = new, !.links = @ - 1]
        BY <1>5, <1>9, <2>2
      <3> HIDE DEF new
      <3>3. QED BY <1>4, <2>2, <3>1, <3>2 DEF Walks
    <2>3. QED BY <2>1, <2>2
  <1>10. CASE name \notin {".", ".."} /\ node.kind \notin {"absent", "link"}
    BY <1>1, <1>5, <1>10 DEF Walks
  <1>11. QED BY <1>6, <1>7, <1>8, <1>9, <1>10

\* The recursive function Walk(t, names) exists and is what it says.
LEMMA WalkSteps ==
  ASSUME NEW t, IsTree(t), NEW names \in Seq(STRING)
  PROVE  /\ Walk(t, names) \in [Nat -> Walks]
         /\ Walk(t, names)[0] = Start(names)
         /\ \A n \in Nat : Walk(t, names)[n + 1] = Follow(t, Walk(t, names)[n])
  <1> DEFINE F == [p \in Nat \X Walks |-> Follow(t, p[2])]
             Def(f) == f = [n \in Nat |-> IF n = 0 THEN Start(names) ELSE Follow(t, f[n - 1])]
  <1>1. F \in [Nat \X Walks -> Walks]
    BY FollowTyped
  <1>2. PICK f \in [Nat -> Walks] :
           f[0] = Start(names) /\ \A n \in Nat : f[n + 1] = F[<<n + 1, f[n]>>]
    <2> HIDE DEF F
    <2>1. Start(names) \in Walks
      BY StartTyped
    <2>2. \E f : f \in Runs(Walks, Start(names), F)
      BY <1>1, <2>1, Iteration
    <2>3. QED BY <2>2 DEF Runs
  <1>3. \A n \in Nat : f[n + 1] = Follow(t, f[n])
    <2> SUFFICES ASSUME NEW n \in Nat PROVE f[n + 1] = Follow(t, f[n])
      OBVIOUS
    <2>1. f[n] \in Walks /\ n + 1 \in Nat
      OBVIOUS
    <2>2. F[<<n + 1, f[n]>>] = Follow(t, f[n])
      BY <2>1
    <2> HIDE DEF F
    <2>3. QED BY <1>2, <2>2
  <1>4. Def(f)
    <2>1. ASSUME NEW n \in Nat PROVE f[n] = IF n = 0 THEN Start(names) ELSE Follow(t, f[n - 1])
      <3>1. CASE n = 0 BY <3>1, <1>2
      <3>2. CASE n # 0
        <4>1. n - 1 \in Nat /\ (n - 1) + 1 = n
          BY <3>2
        <4>2. QED BY <1>3, <3>2, <4>1
      <3>3. QED BY <3>1, <3>2
    <2>2. QED BY <2>1
  <1>5. Walk(t, names) = CHOOSE g : Def(g)
    BY DEF Walk
  <1>6. Def(Walk(t, names))
    BY <1>4, <1>5
  <1> DEFINE g == Walk(t, names)
  <1> HIDE DEF g
  <1>7. /\ DOMAIN g = Nat
        /\ \A n \in Nat : g[n] = IF n = 0 THEN Start(names) ELSE Follow(t, g[n - 1])
    BY <1>6 DEF g
  <1>8. g[0] = Start(names)
    BY <1>7
  <1>9. ASSUME NEW n \in Nat PROVE g[n + 1] = Follow(t, g[n])
    <2>1. n + 1 \in Nat /\ n + 1 # 0 /\ (n + 1) - 1 = n
      OBVIOUS
    <2>2. QED BY <1>7, <2>1
  <1>10. \A n \in Nat : g[n] \in Walks
    <2> DEFINE T == {n \in Nat : g[n] \in Walks}
    <2>1. 0 \in T
      BY <1>8, StartTyped
    <2>2. \A n \in Nat : n \in T => n + 1 \in T
      <3> SUFFICES ASSUME NEW n \in Nat, g[n] \in Walks PROVE g[n + 1] \in Walks
        OBVIOUS
      <3>1. g[n + 1] = Follow(t, g[n])
        BY <1>9
      <3>2. QED BY <3>1, FollowTyped
    <2>3. \A n \in Nat : n \in T
      <3> HIDE DEF T
      <3>1. QED BY <2>1, <2>2, Induction
    <2>4. QED BY <2>3
  <1>11. g \in [Nat -> Walks]
    <2>1. g = [n \in Nat |-> g[n]]
       BY <1>6 DEF g
    <2>2. QED BY <2>1, <1>10
  <1>12. QED BY <1>8, <1>9, <1>11 DEF g

LEMMA CanonicalizeSteps ==
  ASSUME NEW names \in Seq(STRING)
  PROVE  Len(names) + LinkLimit * TargetLimit \in Nat
  <1>1. LinkLimit * TargetLimit \in Nat
    BY RootsGiven
  <1>2. QED BY <1>1, LenProperties

\* How many steps may still be made.
StepsLeft(w) == Len(w.left) + w.links * TargetLimit

\* A step uses up a name; a link gives back no more than the limit allows.
LEMMA FollowProgress ==
  ASSUME NEW t, IsTree(t), NEW w \in Walks, w.error = "none", w.left # <<>>
  PROVE  Follow(t, w).error # "none" \/ StepsLeft(Follow(t, w)) <= StepsLeft(w) - 1
  <1> DEFINE name == Head(w.left)
             rest == Tail(w.left)
             next == Append(w.cur, name)
             node == At(t, next)
             new  == Follow(t, w)
  <1>1. /\ w.left \in Seq(STRING) /\ w.links \in Nat /\ TargetLimit \in Nat
        /\ rest \in Seq(STRING) /\ Len(rest) = Len(w.left) - 1 /\ Len(w.left) \in Nat
    BY RootsGiven, HeadTailProperties, LenProperties DEF Walks
  <1>2. CASE new.left = rest /\ new.links = w.links
    <2> DEFINE p == w.links * TargetLimit
    <2>1. p \in Nat
      BY <1>1
    <2>2. StepsLeft(new) = Len(rest) + p /\ StepsLeft(w) = Len(w.left) + p
      BY <1>2 DEF StepsLeft
    <2> HIDE DEF p, new, rest
    <2>3. QED BY <1>1, <2>1, <2>2 DEF new
  <1>3. CASE /\ node.kind = "link" /\ w.links # 0
             /\ new.left = node.target \o rest /\ new.links = w.links - 1
    <2>1. node.target \in Seq(STRING) /\ Len(node.target) <= TargetLimit
      BY <1>3, AtTyped DEF IsNode, Absent, Dir, File, BigFile
    <2>2. Len(new.left) = Len(node.target) + Len(rest) /\ Len(node.target) \in Nat
      BY <1>1, <1>3, <2>1, ConcatProperties, LenProperties
    <2> DEFINE p == w.links * TargetLimit
               q == (w.links - 1) * TargetLimit
    <2>3. p \in Nat /\ q = p - TargetLimit
      BY <1>1
    <2>4. StepsLeft(new) = Len(new.left) + q /\ StepsLeft(w) = Len(w.left) + p
      BY <1>3 DEF StepsLeft
    <2> HIDE DEF p, q, new, rest, node
    <2>5. StepsLeft(new) <= StepsLeft(w) - 1
      <3> DEFINE a == Len(node.target)
                 b == Len(rest)
                 c == Len(w.left)
      <3>1. a \in Nat /\ a <= TargetLimit /\ TargetLimit \in Nat /\ b = c - 1 /\ c \in Nat
        BY <1>1, <2>1, <2>2
      <3>2. StepsLeft(new) = (a + b) + q /\ StepsLeft(w) = c + p
        BY <2>2, <2>4
      <3> HIDE DEF a, b, c
      <3>3. QED BY <2>3, <3>1, <3>2
    <2>6. QED BY <2>5 DEF new
  <1>4. CASE new.error # "none"
    BY <1>4
  <1>5. \/ new.error # "none"
        \/ new.left = rest /\ new.links = w.links
        \/ /\ node.kind = "link" /\ w.links # 0
           /\ new.left = node.target \o rest /\ new.links = w.links - 1
    BY DEF Follow, Walks
  <1>6. QED BY <1>2, <1>3, <1>4, <1>5

\* std::fs::canonicalize answers: the number of steps Paths allows it is enough,
\* whatever links there are, so the walk has failed or has followed every name.
THEOREM WalkEnds ==
  ASSUME NEW t, IsTree(t), NEW names \in Seq(STRING)
  PROVE  LET end == Walk(t, names)[Len(names) + LinkLimit * TargetLimit]
         IN  end.error # "none" \/ end.left = <<>>
  <1> DEFINE w == Walk(t, names)
             N == Len(names) + LinkLimit * TargetLimit
             Over(v) == v.error # "none" \/ v.left = <<>>
             T == {n \in Nat : Over(w[n]) \/ StepsLeft(w[n]) + n <= N}
  <1>1. /\ w[0] = Start(names)
        /\ \A n \in Nat : w[n] \in Walks /\ w[n + 1] = Follow(t, w[n])
    BY WalkSteps
  <1>2. N \in Nat
    BY CanonicalizeSteps
  <1>3. \A n \in Nat : StepsLeft(w[n]) \in Nat /\ (StepsLeft(w[n]) = 0 => w[n].left = <<>>)
    <2> SUFFICES ASSUME NEW v \in Walks
                 PROVE  StepsLeft(v) \in Nat /\ (StepsLeft(v) = 0 => v.left = <<>>)
      BY <1>1
    <2> DEFINE p == v.links * TargetLimit
    <2>1. Len(v.left) \in Nat /\ p \in Nat
      BY RootsGiven, LenProperties DEF Walks
    <2>2. Len(v.left) = 0 => v.left = <<>>
      BY EmptySeq DEF Walks
    <2>3. StepsLeft(v) = Len(v.left) + p
      BY DEF StepsLeft
    <2> HIDE DEF p
    <2>4. QED BY <2>1, <2>2, <2>3
  <1>4. 0 \in T
    <2>1. StepsLeft(w[0]) = N
      BY <1>1 DEF StepsLeft, Start
    <2> HIDE DEF w, N
    <2>2. QED BY <1>2, <2>1
  <1> HIDE DEF w, N
  <1>5. \A n \in Nat : n \in T => n + 1 \in T
    <2> SUFFICES ASSUME NEW n \in Nat, n \in T
                 PROVE  Over(w[n + 1]) \/ StepsLeft(w[n + 1]) + (n + 1) <= N
      OBVIOUS
    <2>1. CASE Over(w[n])
      <3>1. Follow(t, w[n]) = w[n]
        BY <2>1 DEF Follow
      <3>2. QED BY <1>1, <2>1, <3>1
    <2>2. CASE ~Over(w[n])
      <3>1. w[n + 1].error # "none" \/ StepsLeft(w[n + 1]) <= StepsLeft(w[n]) - 1
        BY <1>1, <2>2, FollowProgress
      <3>2. StepsLeft(w[n]) \in Nat /\ StepsLeft(w[n + 1]) \in Nat
        <4>1. n + 1 \in Nat
          OBVIOUS
        <4>2. QED BY <1>3, <4>1, Zenon
      <3>3. QED BY <1>2, <2>2, <3>1, <3>2
    <2>3. QED BY <2>1, <2>2
  <1>6. \A n \in Nat : n \in T
    <2> HIDE DEF T
    <2>1. QED BY <1>4, <1>5, Induction
  <1>7. Over(w[N]) \/ StepsLeft(w[N]) + N <= N
    BY <1>2, <1>6
  <1>8. Over(w[N])
    <2>1. StepsLeft(w[N]) \in Nat /\ (StepsLeft(w[N]) = 0 => Over(w[N]))
      BY <1>2, <1>3
    <2> HIDE DEF Over
    <2>2. QED BY <1>2, <1>7, <2>1
  <1>9. QED BY <1>8 DEF w, N

-----------------------------------------------------------------------------
(* Locations without links. *)

\* Every name leads from a directory to something that is there and no link.
Canonical(t, loc) ==
  /\ loc \in Seq(STRING)
  /\ \A i \in 1..Len(loc) : loc[i] # "." /\ loc[i] # ".."
  /\ \A i \in 1..Len(loc) : At(t, SubSeq(loc, 1, i)).kind \notin {"absent", "link"}
  /\ \A i \in 1..(Len(loc) - 1) : At(t, SubSeq(loc, 1, i)).kind = "dir"

LEMMA CanonicalTop ==
  ASSUME NEW t PROVE Canonical(t, <<>>)
  BY DEF Canonical

LEMMA CanonicalFront ==
  ASSUME NEW t, NEW loc, Canonical(t, loc)
  PROVE  Canonical(t, Front(loc))
  <1>1. CASE loc = <<>>
    <2>1. Front(<<>>) = <<>>
      BY SubSeqEmpty DEF Front
    <2>2. QED BY <1>1, <2>1
  <1>2. CASE loc # <<>>
    <2>1. /\ Front(loc) \in Seq(STRING) /\ Len(Front(loc)) = Len(loc) - 1
          /\ Len(loc) - 1 \in Nat /\ Len(loc) \in Nat
          /\ \A i \in 1..(Len(loc) - 1) :
                Front(loc)[i] = loc[i] /\ SubSeq(Front(loc), 1, i) = SubSeq(loc, 1, i)
      BY <1>2, PrefixOfFront, LenProperties DEF Canonical
    <2>2. \A i \in 1..(Len(loc) - 1) : i \in 1..Len(loc)
      BY <2>1
    <2>3. \A i \in 1..((Len(loc) - 1) - 1) : i \in 1..(Len(loc) - 1)
      BY <2>1
    <2>4. QED BY <2>1, <2>2, <2>3 DEF Canonical
  <1>3. QED BY <1>1, <1>2

LEMMA CanonicalAppend ==
  ASSUME NEW t, NEW loc, Canonical(t, loc), NEW name \in STRING, name # ".", name # "..",
         At(t, loc).kind = "dir", At(t, Append(loc, name)).kind \notin {"absent", "link"}
  PROVE  Canonical(t, Append(loc, name))
  <1> DEFINE next == Append(loc, name)
  <1>1. loc \in Seq(STRING) /\ Len(loc) \in Nat
    BY LenProperties DEF Canonical
  <1>2. /\ next \in Seq(STRING) /\ Len(next) = Len(loc) + 1 /\ next[Len(loc) + 1] = name
        /\ \A i \in 1..Len(loc) : next[i] = loc[i] /\ SubSeq(next, 1, i) = SubSeq(loc, 1, i)
        /\ SubSeq(next, 1, Len(loc) + 1) = next
    <2>1. /\ next \in Seq(STRING) /\ Len(next) = Len(loc) + 1 /\ next[Len(loc) + 1] = name
          /\ \A i \in 1..Len(loc) : next[i] = loc[i]
      BY <1>1, AppendProperties
    <2>2. \A i \in 0..Len(loc) : SubSeq(next, 1, i) = SubSeq(loc, 1, i)
      BY <1>1, PrefixOfAppend
    <2>3. SubSeq(next, 1, Len(loc) + 1) = next
      BY <1>1, PrefixOfAppend
    <2>4. \A i \in 1..Len(loc) : i \in 0..Len(loc)
      BY <1>1
    <2> HIDE DEF next
    <2>5. QED BY <2>1, <2>2, <2>3, <2>4
  <1>3. SubSeq(loc, 1, Len(loc)) = loc
    BY <1>1, SubSeqFull
  <1> HIDE DEF next
  <1>4. \A i \in 1..Len(next) : i \in 1..Len(loc) \/ i = Len(loc) + 1
    BY <1>1, <1>2
  <1>5. \A i \in 1..(Len(next) - 1) :
           i \in 1..(Len(loc) - 1) \/ (i = Len(loc) /\ i \in 1..Len(loc))
    BY <1>1, <1>2
  <1>6. \A i \in 1..Len(next) : next[i] # "." /\ next[i] # ".."
    BY <1>2, <1>4 DEF Canonical
  <1>7. \A i \in 1..Len(next) : At(t, SubSeq(next, 1, i)).kind \notin {"absent", "link"}
    BY <1>2, <1>4 DEF Canonical, next
  <1>8. ASSUME NEW i \in 1..(Len(next) - 1) PROVE At(t, SubSeq(next, 1, i)).kind = "dir"
    <2>1. CASE i \in 1..(Len(loc) - 1)
      <3>1. i \in 1..Len(loc) /\ At(t, SubSeq(loc, 1, i)).kind = "dir"
        BY <1>1, <2>1 DEF Canonical
      <3>2. QED BY <1>2, <3>1
    <2>2. CASE i = Len(loc) /\ i \in 1..Len(loc)
      BY <1>2, <1>3, <2>2
    <2>3. QED BY <1>5, <2>1, <2>2
  <1>9. Canonical(t, next)
    BY <1>2, <1>6, <1>7, <1>8 DEF Canonical
  <1>10. QED BY <1>9 DEF next

\* The location reached is one at every step of the walk.
LEMMA FollowCanonical ==
  ASSUME NEW t, IsTree(t), NEW w \in Walks, Canonical(t, w.cur)
  PROVE  Canonical(t, Follow(t, w).cur)
  <1> DEFINE name == Head(w.left)
             next == Append(w.cur, name)
             node == At(t, next)
             c    == Follow(t, w).cur
  <1>1. CASE w.left = <<>>
    BY <1>1 DEF Follow
  <1>2. CASE w.left # <<>>
    <2>1. name \in STRING
      BY <1>2, HeadTailProperties DEF Walks
    <2>2. \/ c = w.cur
          \/ c = Up(w.cur)
          \/ c = <<>>
          \/ /\ c = next /\ At(t, w.cur).kind = "dir" /\ name # "." /\ name # ".."
             /\ node.kind # "absent" /\ node.kind # "link"
      BY DEF Follow, Walks
    <2> HIDE DEF c
    <2>3. Canonical(t, Up(w.cur))
      BY CanonicalFront, CanonicalTop DEF Up
    <2>4. QED BY <2>1, <2>2, <2>3, CanonicalTop, CanonicalAppend DEF c
  <1>3. QED BY <1>1, <1>2

LEMMA WalkCanonical ==
  ASSUME NEW t, IsTree(t), NEW names \in Seq(STRING)
  PROVE  \A n \in Nat : Canonical(t, Walk(t, names)[n].cur)
  <1> DEFINE w == Walk(t, names)
             T == {n \in Nat : Canonical(t, w[n].cur)}
  <1>1. /\ w[0] = Start(names)
        /\ \A n \in Nat : w[n] \in Walks /\ w[n + 1] = Follow(t, w[n])
    BY WalkSteps
  <1> HIDE DEF w
  <1>2. 0 \in T
    BY <1>1, CanonicalTop DEF Start
  <1>3. \A n \in Nat : n \in T => n + 1 \in T
    <2> SUFFICES ASSUME NEW n \in Nat, Canonical(t, w[n].cur) PROVE Canonical(t, w[n + 1].cur)
      OBVIOUS
    <2>1. QED BY <1>1, FollowCanonical
  <1>4. \A n \in Nat : n \in T
    <2> HIDE DEF T
    <2>1. QED BY <1>2, <1>3, Induction
  <1>5. QED BY <1>4 DEF w

\* What canonicalize finds is a location without links,
LEMMA FoundIsCanonical ==
  ASSUME NEW t, IsTree(t), NEW names \in Seq(STRING), canonicalize(t, names).tag = "ok"
  PROVE  Canonical(t, canonicalize(t, names).loc)
  <1> DEFINE k == Len(names) + LinkLimit * TargetLimit
             end == Walk(t, names)[k]
  <1>1. k \in Nat
    BY CanonicalizeSteps
  <1>2. end \in Walks /\ Canonical(t, end.cur)
    BY <1>1, WalkSteps, WalkCanonical
  <1>3. canonicalize(t, names) = IF end.error = "none" THEN Ok(end.cur) ELSE Err(end.error)
    BY DEF canonicalize
  <1> HIDE DEF end
  <1>4. canonicalize(t, names).loc = end.cur
    BY <1>2, <1>3 DEF Walks, Ok, Err
  <1>5. QED BY <1>2, <1>4

\* and canonicalize leads such a location to itself.
LEMMA CanonicalWalk ==
  ASSUME NEW t, IsTree(t), NEW loc, Canonical(t, loc)
  PROVE  LET end == Walk(t, loc)[Len(loc) + LinkLimit * TargetLimit]
         IN  end.cur = loc /\ end.left = <<>> /\ end.error = "none" /\ end.links = LinkLimit
  <1> DEFINE L == Len(loc)
             w == Walk(t, loc)
             Mid(v, n) == /\ v.cur = SubSeq(loc, 1, n) /\ v.left = SubSeq(loc, n + 1, L)
                          /\ v.error = "none" /\ v.links = LinkLimit
             Home(v) == /\ v.cur = loc /\ v.left = <<>>
                        /\ v.error = "none" /\ v.links = LinkLimit
             Ahead == {n \in Nat : n <= L => Mid(w[n], n)}
             Done == {n \in Nat : Home(w[L + n])}
  <1>1. /\ loc \in Seq(STRING) /\ L \in Nat /\ \A i \in 1..L : loc[i] \in STRING
    BY LenProperties, ElementOfSeq DEF Canonical
  <1>2. /\ w[0] = Start(loc)
        /\ \A n \in Nat : w[n] \in Walks /\ w[n + 1] = Follow(t, w[n])
    BY <1>1, WalkSteps
  <1> HIDE DEF w
  <1>3. \A n \in Nat : n <= L => Mid(w[n], n)
    <2>1. 0 \in Ahead
      <3>1. SubSeq(loc, 1, 0) = <<>>
        BY SubSeqEmpty
      <3>2. SubSeq(loc, 0 + 1, L) = loc
        BY <1>1, SubSeqFull
      <3>3. w[0].cur = <<>> /\ w[0].left = loc /\ w[0].error = "none" /\ w[0].links = LinkLimit
        BY <1>2 DEF Start
      <3>4. Mid(w[0], 0)
        BY <3>1, <3>2, <3>3
      <3> HIDE DEF Mid
      <3>5. QED BY <3>4
    <2>2. ASSUME NEW n \in Nat, n \in Ahead, n + 1 <= L PROVE Mid(w[n + 1], n + 1)
      <3> DEFINE cur == SubSeq(loc, 1, n)
                 left == SubSeq(loc, n + 1, L)
                 rest == SubSeq(loc, n + 2, L)
                 next == SubSeq(loc, 1, n + 1)
      <3>1. Mid(w[n], n)
        BY <1>1, <2>2
      <3>2. n + 1 \in 1..L /\ (n + 1) + 1 = n + 2
        BY <1>1, <2>2
      <3>3. Head(left) = loc[n + 1] /\ Tail(left) = rest
        BY <1>1, <3>2, HeadTailOfSubSeq
      <3>4. left # <<>>
        <4>1. \A i \in (n + 1)..L : loc[i] \in STRING
          BY <1>1
        <4>2. Len(left) = L - (n + 1) + 1
          BY <1>1, <2>2, <4>1, SubSeqProperties
        <4> HIDE DEF left, L
        <4>3. Len(left) # 0
          BY <1>1, <2>2, <4>2
        <4>4. QED BY <4>3, EmptySeq
      <3>5. Append(cur, loc[n + 1]) = next
        <4>1. cur \in Seq(STRING) /\ Len(cur) = n
          <5>1. \A i \in 1..n : loc[i] \in STRING
            BY <1>1, <2>2
          <5>2. QED BY <5>1, SubSeqProperties
        <4>2. next = cur \o <<loc[n + 1]>>
          <5>1. 1 \in 1..Len(loc) /\ n + 1 \in 1..Len(loc) /\ (n + 1) - 1 = n
            BY <3>2
          <5>2. QED BY <1>1, <5>1, SubSeqRecursiveSecond
        <4>3. loc[n + 1] \in STRING
          BY <1>1, <3>2
        <4> HIDE DEF cur, next
        <4>4. QED BY <4>1, <4>2, <4>3, AppendIsConcat
      <3>6. At(t, cur).kind = "dir"
        <4>1. CASE n = 0
          <5>1. cur = <<>>
            BY <4>1, SubSeqEmpty
          <5>2. QED BY <5>1 DEF At, Dir
        <4>2. CASE n # 0
          <5>1. n \in 1..(Len(loc) - 1)
            BY <1>1, <2>2, <4>2
          <5>2. QED BY <5>1 DEF Canonical
        <4>3. QED BY <4>1, <4>2
      <3>7. loc[n + 1] # "." /\ loc[n + 1] # ".."
        BY <3>2 DEF Canonical
      <3>8. At(t, next).kind # "absent" /\ At(t, next).kind # "link"
        BY <3>2 DEF Canonical
      <3> DEFINE v == w[n]
      <3>9. w[n + 1] = Follow(t, v) /\ v \in Walks
        BY <1>2
      <3>10. v.cur = cur /\ v.left = left /\ v.error = "none" /\ v.links = LinkLimit
        BY <3>1
      <3> HIDE DEF cur, left, rest, next, v
      <3>11. Follow(t, v) = [v EXCEPT !.cur = next, !.left = rest]
        BY <3>3, <3>4, <3>5, <3>6, <3>7, <3>8, <3>10 DEF Follow
      <3>12. /\ Follow(t, v).cur = next /\ Follow(t, v).left = rest
             /\ Follow(t, v).error = "none" /\ Follow(t, v).links = LinkLimit
        BY <3>9, <3>10, <3>11 DEF Walks
      <3>13. QED BY <3>2, <3>9, <3>12 DEF next, rest
    <2>3. \A n \in Nat : n \in Ahead => n + 1 \in Ahead
      <3> HIDE DEF Mid
      <3>1. QED BY <2>2
    <2>4. \A n \in Nat : n \in Ahead
      <3> HIDE DEF Ahead
      <3>1. QED BY <2>1, <2>3, Induction
    <2> HIDE DEF Mid
    <2>5. QED BY <2>4
  <1>4. Home(w[L])
    <2>1. SubSeq(loc, 1, L) = loc
      BY <1>1, SubSeqFull
    <2>2. SubSeq(loc, L + 1, L) = <<>>
      BY <1>1, SubSeqEmpty
    <2>3. Mid(w[L], L)
      BY <1>1, <1>3
    <2>4. QED BY <2>1, <2>2, <2>3
  <1>5. \A n \in Nat : Home(w[L + n])
    <2>1. 0 \in Done
      <3>1. L + 0 = L
        BY <1>1
      <3>2. QED BY <1>4, <3>1
    <2>2. \A n \in Nat : n \in Done => n + 1 \in Done
      <3> SUFFICES ASSUME NEW n \in Nat, Home(w[L + n]) PROVE Home(w[L + (n + 1)])
        OBVIOUS
      <3>1. L + n \in Nat /\ (L + n) + 1 = L + (n + 1)
        BY <1>1
      <3>2. w[L + (n + 1)] = Follow(t, w[L + n])
        BY <1>2, <3>1
      <3>3. Follow(t, w[L + n]) = w[L + n]
        BY DEF Follow
      <3>4. QED BY <3>2, <3>3
    <2>3. \A n \in Nat : n \in Done
      <3> HIDE DEF Done
      <3>1. QED BY <2>1, <2>2, Induction
    <2>4. QED BY <2>3
  <1>6. LinkLimit * TargetLimit \in Nat
    BY RootsGiven
  <1>7. Home(w[L + LinkLimit * TargetLimit])
    BY <1>5, <1>6
  <1>8. QED BY <1>7 DEF w

LEMMA CanonicalStays ==
  ASSUME NEW t, IsTree(t), NEW loc, Canonical(t, loc)
  PROVE  canonicalize(t, loc) = Ok(loc)
  BY CanonicalWalk DEF canonicalize

-----------------------------------------------------------------------------
(* Resolution. *)

\* What Without keeps of the first n names.
Keeps(names, drop) ==
  {k \in [0..Len(names) -> Seq(STRING)] :
     /\ k[0] = <<>>
     /\ \A n \in 1..Len(names) :
           k[n] = IF names[n] \in drop THEN k[n - 1] ELSE Append(k[n - 1], names[n])}

\* The recursive function in Without exists and is what it says.
LEMMA WithoutSteps ==
  ASSUME NEW names \in Seq(STRING), NEW drop
  PROVE  \E k \in Keeps(names, drop) : Without(names, drop) = k[Len(names)]
  <1> DEFINE L == Len(names)
             Step(n, kept) == IF names[n] \in drop THEN kept ELSE Append(kept, names[n])
             Def(f) == f = [n \in 0..L |-> IF n = 0 THEN <<>>
                                           ELSE IF names[n] \in drop THEN f[n - 1]
                                           ELSE Append(f[n - 1], names[n])]
             Names == Seq(STRING)
             F == [p \in Nat \X Names |-> IF p[1] \in 1..L THEN Step(p[1], p[2]) ELSE p[2]]
  <1>1. L \in Nat /\ \A n \in 1..L : names[n] \in STRING
    BY LenProperties, ElementOfSeq
  <1>2. \A n \in 1..L : \A kept \in Names : Step(n, kept) \in Names
    BY <1>1, AppendProperties
  <1>3. F \in [Nat \X Names -> Names]
    <2> HIDE DEF Step, Names
    <2>1. QED BY <1>2
  <1>4. PICK g : g \in Runs(Names, <<>>, F)
    <2>1. <<>> \in Names
      OBVIOUS
    <2> HIDE DEF F, Names
    <2>2. QED BY <1>3, <2>1, Iteration
  <1>5. /\ g \in [Nat -> Names] /\ g[0] = <<>>
        /\ \A n \in Nat : g[n + 1] = F[<<n + 1, g[n]>>]
    <2> HIDE DEF F
    <2>1. QED BY <1>4 DEF Runs
  <1>6. ASSUME NEW n \in 1..L PROVE g[n] = Step(n, g[n - 1])
    <2>1. n - 1 \in Nat /\ (n - 1) + 1 = n /\ n \in Nat /\ g[n - 1] \in Names
      <3>1. n - 1 \in Nat /\ (n - 1) + 1 = n /\ n \in Nat
        BY <1>1
      <3> HIDE DEF Names
      <3>2. QED BY <1>5, <3>1
    <2>2. g[n] = F[<<n, g[n - 1]>>]
      <3> HIDE DEF F
      <3>1. QED BY <1>5, <2>1
    <2>3. F[<<n, g[n - 1]>>] = Step(n, g[n - 1])
      <3> HIDE DEF Step
      <3>1. QED BY <2>1
    <2>4. QED BY <2>2, <2>3
  <1> DEFINE h == [n \in 0..L |-> g[n]]
  <1>7. Def(h)
    <2>1. ASSUME NEW n \in 0..L
          PROVE  h[n] = IF n = 0 THEN <<>> ELSE IF names[n] \in drop THEN h[n - 1]
                                           ELSE Append(h[n - 1], names[n])
      <3>1. CASE n = 0
        BY <3>1, <1>5
      <3>2. CASE n # 0
        <4>1. n \in 1..L /\ n - 1 \in 0..L
          BY <1>1, <3>2
        <4>2. h[n] = g[n] /\ h[n - 1] = g[n - 1]
          BY <4>1
        <4> HIDE DEF h
        <4>3. QED BY <3>2, <4>1, <4>2, <1>6
      <3>3. QED BY <3>1, <3>2
    <2>2. QED BY <2>1
  <1> DEFINE k == CHOOSE f : Def(f)
  <1>8. Without(names, drop) = k[L]
    BY DEF Without
  <1>9. Def(k)
    BY <1>7
  <1> HIDE DEF k
  <1>10. \A n \in 0..L : k[n] = IF n = 0 THEN <<>> ELSE Step(n, k[n - 1])
    BY <1>9
  <1> DEFINE T == {n \in Nat : n \in 0..L => k[n] \in Names}
  <1>11. 0 \in T
    <2>1. 0 \in 0..L
      BY <1>1
    <2>2. k[0] = <<>>
      BY <1>10, <2>1
    <2>3. k[0] \in Names
      BY <2>2
    <2> HIDE DEF Names
    <2>4. QED BY <2>3
  <1>12. \A n \in Nat : n \in T => n + 1 \in T
    <2> SUFFICES ASSUME NEW n \in Nat, n \in T, n + 1 \in 0..L PROVE k[n + 1] \in Names
      OBVIOUS
    <2>1. n \in 0..L /\ n + 1 \in 1..L /\ (n + 1) - 1 = n /\ n + 1 # 0
      BY <1>1
    <2>2. k[n + 1] = Step(n + 1, k[n])
      <3> HIDE DEF Step
      <3>1. QED BY <1>10, <2>1
    <2>3. k[n] \in Names
      BY <2>1
    <2> HIDE DEF Step, Names
    <2>4. QED BY <1>2, <2>1, <2>2, <2>3
  <1>13. \A n \in Nat : n \in T
    <2> HIDE DEF T
    <2>1. QED BY <1>11, <1>12, Induction
  <1>14. \A n \in 0..L : k[n] \in Names
    <2>1. \A n \in 0..L : n \in Nat
      BY <1>1
    <2>2. QED BY <1>13, <2>1
  <1>15. k \in [0..L -> Names]
    <2>1. k = [n \in 0..L |-> k[n]]
      BY <1>9
    <2> HIDE DEF Names
    <2>2. QED BY <1>14, <2>1
  <1>16. k[0] = <<>>
    BY <1>1, <1>10
  <1>17. ASSUME NEW n \in 1..L
         PROVE  k[n] = IF names[n] \in drop THEN k[n - 1] ELSE Append(k[n - 1], names[n])
    <2>1. n \in 0..L /\ n # 0
      BY <1>1
    <2>2. QED BY <1>10, <2>1
  <1>18. k \in Keeps(names, drop)
    BY <1>15, <1>16, <1>17 DEF Keeps
  <1>19. QED BY <1>8, <1>18

\* The components of a path are names.
LEMMA ComponentsTyped ==
  ASSUME NEW names \in Seq(STRING) PROVE Components(names) \in Seq(STRING)
  <1>1. PICK k \in Keeps(names, {"."}) : Components(names) = k[Len(names)]
    BY WithoutSteps DEF Components
  <1>2. Len(names) \in 0..Len(names)
    BY LenProperties
  <1>3. QED BY <1>1, <1>2 DEF Keeps

\* The reply of the loop over the roots is the reply of one of them.
LEMMA FirstReplyIsOne ==
  ASSUME NEW replies, DOMAIN replies \subseteq Nat, FirstReply(replies).tag = "ok"
  PROVE  \E i \in DOMAIN replies : FirstReply(replies) = replies[i]
  <1> DEFINE said == {i \in DOMAIN replies : replies[i].tag # "next"}
  <1>1. FirstReply(replies) = IF said = {} THEN Err("not_found") ELSE replies[Min(said)]
    BY DEF FirstReply
  <1>2. said # {}
    BY <1>1 DEF Err
  <1>3. Min(said) \in said
    <2>1. said \subseteq Nat
      OBVIOUS
    <2> HIDE DEF said
    <2>2. QED BY <1>2, <2>1, LeastIsIn
  <1>4. QED BY <1>1, <1>2, <1>3

LEMMA RootsTyped ==
  /\ DOMAIN Roots \subseteq Nat /\ 1 \in DOMAIN Roots
  /\ \A i \in DOMAIN Roots : Roots[i] \in Seq(STRING)
  <1>1. Len(Roots) \in Nat \ {0} /\ DOMAIN Roots = 1..Len(Roots)
    BY RootsGiven, EmptySeq, LenProperties
  <1>2. QED BY <1>1, RootsGiven, ElementOfSeq

\* One round of resolve: below the root, and no link on the way.
LEMMA ResolvedUnder ==
  ASSUME NEW t, IsTree(t), NEW root \in Seq(STRING), NEW names \in Seq(STRING),
         ResolveUnder(t, root, names).tag = "ok"
  PROVE  /\ Under(root, ResolveUnder(t, root, names).loc)
         /\ Canonical(t, Front(ResolveUnder(t, root, names).loc))
  <1> DEFINE joined == root \o Components(names)
             found == canonicalize(t, root \o names)
             parent == canonicalize(t, Front(joined))
             got == ResolveUnder(t, root, names)
  <1>1. root \o names \in Seq(STRING) /\ joined \in Seq(STRING) /\ Front(joined) \in Seq(STRING)
    BY ComponentsTyped, ConcatProperties, FrontTyped
  <1>2. \/ /\ found.tag = "ok" /\ got = found /\ Under(root, found.loc)
        \/ /\ parent.tag = "ok" /\ Under(root, parent.loc)
           /\ got = Ok(Append(parent.loc, Last(joined)))
    BY DEF ResolveUnder, LeafUnder, Err, Ok, classify_missing_parent
  <1>3. found.tag = "ok" => Canonical(t, Front(found.loc))
    BY <1>1, FoundIsCanonical, CanonicalFront
  <1>4. parent.tag = "ok" => Canonical(t, parent.loc) /\ parent.loc \in Seq(STRING)
    BY <1>1, FoundIsCanonical DEF Canonical
  <1> HIDE DEF found, parent, got, joined
  <1>5. CASE found.tag = "ok" /\ got = found /\ Under(root, found.loc)
    BY <1>3, <1>5 DEF got
  <1>6. CASE /\ parent.tag = "ok" /\ Under(root, parent.loc)
             /\ got = Ok(Append(parent.loc, Last(joined)))
    <2>1. got.loc = Append(parent.loc, Last(joined))
      BY <1>6 DEF Ok
    <2>2. Under(root, got.loc) /\ Front(got.loc) = parent.loc
      BY <1>4, <1>6, <2>1, UnderAppend
    <2>3. QED BY <1>4, <1>6, <2>2 DEF got
  <1>7. QED BY <1>2, <1>5, <1>6

\* One round of resolve_no_follow: the parent is below the root without links, the
\* last name is the one asked for.
LEMMA NamedUnder ==
  ASSUME NEW t, IsTree(t), NEW root \in Seq(STRING), NEW names \in Seq(STRING),
         ResolveLeafUnder(t, root, names).tag = "ok"
  PROVE  /\ Under(root, Front(ResolveLeafUnder(t, root, names).loc))
         /\ Canonical(t, Front(ResolveLeafUnder(t, root, names).loc))
         /\ Last(ResolveLeafUnder(t, root, names).loc) = Last(names)
  <1> DEFINE parent == canonicalize(t, root \o Front(names))
             got == ResolveLeafUnder(t, root, names)
  <1>1. root \o Front(names) \in Seq(STRING)
    BY ConcatProperties, FrontTyped
  <1>2. parent.tag = "ok" /\ Under(root, parent.loc) /\ got = Ok(Append(parent.loc, Last(names)))
    BY DEF ResolveLeafUnder, LeafUnder, Err, Ok
  <1>3. Canonical(t, parent.loc) /\ parent.loc \in Seq(STRING)
    BY <1>1, <1>2, FoundIsCanonical DEF Canonical
  <1> HIDE DEF parent, got
  <1>4. got.loc = Append(parent.loc, Last(names))
    BY <1>2 DEF Ok
  <1>5. Front(got.loc) = parent.loc /\ Last(got.loc) = Last(names)
    BY <1>2, <1>3, <1>4, UnderAppend
  <1>6. QED BY <1>2, <1>3, <1>5 DEF got

-----------------------------------------------------------------------------
(* Creating directories. *)

Replies ==
  [tag : {"ok", "none", "not_found", "not_a_directory", "loop", "escape", "conflict", "io"},
   loc : Seq(STRING)]

Nodes ==
  {node \in [kind : {"absent", "dir", "file", "big", "link"}, target : Seq(STRING)] : IsNode(node)}

\* The trees that can be made of t.
TreesOf(t) == {t} \cup UNION {[D -> Nodes] : D \in SUBSET Seq(STRING)}

LEMMA NodesAreNodes == ASSUME NEW node, IsNode(node) PROVE node \in Nodes
  <1> DEFINE R == [kind : {"absent", "dir", "file", "big", "link"}, target : Seq(STRING)]
  <1>1. <<>> \in Seq(STRING)
    OBVIOUS
  <1>2. CASE node \in {Absent, Dir, File, BigFile}
    <2>1. Absent \in R /\ Dir \in R /\ File \in R /\ BigFile \in R
      BY <1>1 DEF Absent, Dir, File, BigFile
    <2> HIDE DEF R
    <2>2. node \in R
      BY <1>2, <2>1
    <2>3. QED BY <2>2 DEF Nodes, R
  <1>3. CASE node = Link(node.target) /\ node.target \in Seq(STRING)
    <2> DEFINE x == node.target
    <2>1. x \in Seq(STRING)
      BY <1>3
    <2> HIDE DEF x
    <2>2. Link(x) \in R
      BY <2>1 DEF Link
    <2>3. node \in R
      BY <1>3, <2>2 DEF x
    <2>4. QED BY <2>3 DEF Nodes
  <1>4. QED BY <1>2, <1>3 DEF IsNode

LEMMA TreesOfAreTrees ==
  ASSUME NEW t, IsTree(t), NEW u \in TreesOf(t) PROVE IsTree(u)
  <1>1. CASE u = t
    BY <1>1
  <1>2. CASE u # t
    <2>1. PICK D \in SUBSET Seq(STRING) : u \in [D -> Nodes]
      BY <1>2 DEF TreesOf
    <2>2. QED BY <2>1 DEF IsTree, Nodes
  <1>3. QED BY <1>1, <1>2

LEMMA PutTree ==
  ASSUME NEW t, IsTree(t), NEW u \in TreesOf(t), NEW loc \in Seq(STRING), NEW node, IsNode(node)
  PROVE  Put(u, loc, node) \in TreesOf(t)
  <1> DEFINE D == DOMAIN u \cup {loc}
  <1>1. IsTree(u)
    BY TreesOfAreTrees
  <1>2. D \in SUBSET Seq(STRING)
    BY <1>1 DEF IsTree
  <1>3. \A x \in DOMAIN u : u[x] \in Nodes
    BY <1>1, NodesAreNodes DEF IsTree
  <1>4. node \in Nodes
    BY NodesAreNodes
  <1>5. Put(u, loc, node) \in [D -> Nodes]
    BY <1>3, <1>4 DEF Put
  <1> HIDE DEF D
  <1>6. QED BY <1>2, <1>5 DEF TreesOf

LEMMA AtPut ==
  ASSUME NEW u, NEW loc, loc # <<>>, NEW node, NEW x
  PROVE  At(Put(u, loc, node), x) = IF x = loc THEN node ELSE At(u, x)
  BY DEF At, Put

\* A directory is added to one, or another node is put where nothing is below.
LEMMA PutConnected ==
  ASSUME NEW u, Connected(u), NEW loc \in Seq(STRING), loc # <<>>, NEW node,
         At(u, Up(loc)) = Dir,
         node = Dir \/ \A x \in DOMAIN u : At(u, x) # Absent /\ x # <<>> => Up(x) # loc
  PROVE  Connected(Put(u, loc, node))
  <1> DEFINE v == Put(u, loc, node)
  <1>1. \A x : At(v, x) = IF x = loc THEN node ELSE At(u, x)
    BY AtPut
  <1>2. Up(loc) # loc
    BY PrefixOfFront DEF Up
  <1>3. DOMAIN v = DOMAIN u \cup {loc}
    BY DEF Put
  <1> HIDE DEF v
  <1>4. SUFFICES ASSUME NEW x \in DOMAIN v, At(v, x) # Absent PROVE At(v, Up(x)) = Dir
    BY DEF Connected, v
  <1>5. CASE x = loc
    BY <1>1, <1>2, <1>5
  <1>6. CASE x = <<>>
    <2>1. Up(x) = <<>> /\ At(u, <<>>) = Dir
      BY <1>6 DEF Up, At
    <2>2. QED BY <1>1, <2>1
  <1>7. CASE x # loc /\ x # <<>>
    <2>1. x \in DOMAIN u /\ At(u, x) # Absent /\ At(u, Up(x)) = Dir
      BY <1>1, <1>3, <1>4, <1>7 DEF Connected
    <2>2. QED BY <1>1, <1>7, <2>1
  <1>8. QED BY <1>5, <1>6, <1>7

LEMMA CanonicalizeTyped ==
  ASSUME NEW t, IsTree(t), NEW names \in Seq(STRING)
  PROVE  canonicalize(t, names) \in Replies
  <1> DEFINE end == Walk(t, names)[Len(names) + LinkLimit * TargetLimit]
  <1>1. end \in Walks
    BY CanonicalizeSteps, WalkSteps
  <1>2. canonicalize(t, names) = IF end.error = "none" THEN Ok(end.cur) ELSE Err(end.error)
    BY DEF canonicalize
  <1> HIDE DEF end
  <1>3. CASE end.error = "none"
    BY <1>1, <1>2, <1>3 DEF Walks, Replies, Ok
  <1>4. CASE end.error # "none"
    <2>1. <<>> \in Seq(STRING)
      OBVIOUS
    <2>2. QED BY <1>1, <1>2, <1>4, <2>1 DEF Walks, Replies, Err
  <1>5. QED BY <1>3, <1>4

\* An existing prefix is passed only when it leads to a directory below the root.
LEMMA PrefixChecks ==
  ASSUME NEW t, IsTree(t), NEW found \in Replies, NEW final \in BOOLEAN
  PROVE  /\ Prefix(t, found, final) \in Replies
         /\ Prefix(t, found, final).tag = "ok" =>
              /\ Under(Roots[1], Prefix(t, found, final).loc)
              /\ At(t, Prefix(t, found, final).loc) = Dir
  <1>1. <<>> \in Seq(STRING)
    OBVIOUS
  <1>2. IsNode(At(t, found.loc))
    BY AtTyped
  <1>3. At(t, found.loc).kind = "dir" => At(t, found.loc) = Dir
    BY <1>2 DEF IsNode, Absent, Dir, File, BigFile, Link
  <1>4. CASE found.tag # "ok"
    BY <1>4 DEF Prefix
  <1>5. CASE found.tag = "ok" /\ ~Under(Roots[1], found.loc)
    BY <1>1, <1>5 DEF Prefix, Err, Replies
  <1>6. CASE found.tag = "ok" /\ Under(Roots[1], found.loc) /\ At(t, found.loc).kind # "dir"
    BY <1>1, <1>6 DEF Prefix, Err, Replies
  <1>7. CASE found.tag = "ok" /\ Under(Roots[1], found.loc) /\ At(t, found.loc).kind = "dir"
    BY <1>3, <1>7 DEF Prefix
  <1>8. QED BY <1>4, <1>5, <1>6, <1>7

\* What holds after each component: everything new is a directory below the first
\* root, and so is the location reached, which is a directory once there is a component.
Grown(t, m) ==
  /\ \A x : At(m.tree, x) # At(t, x) =>
        At(t, x) = Absent /\ At(m.tree, x) = Dir /\ Under(Roots[1], x)
  /\ m.reply.tag = "ok" => Under(Roots[1], m.reply.loc)

Arrived(m) == m.reply.tag = "ok" => At(m.tree, m.reply.loc) = Dir

Makes(t) == [tree : TreesOf(t), reply : Replies]

\* One component keeps it so.
LEMMA MakeNextGrows ==
  ASSUME NEW t, IsTree(t), NEW m \in Makes(t), NEW name \in STRING, NEW final \in BOOLEAN
  PROVE  /\ MakeNext(m, name, final) \in Makes(t)
         /\ Grown(t, m) => Grown(t, MakeNext(m, name, final))
         /\ m.reply.tag = "ok" => Arrived(MakeNext(m, name, final))
         /\ Connected(m.tree) => Connected(MakeNext(m, name, final).tree)
  <1> DEFINE next == Append(m.reply.loc, name)
             new == MakeNext(m, name, final)
  <1>1. /\ m.tree \in TreesOf(t) /\ IsTree(m.tree)
        /\ m.reply \in Replies /\ m.reply.loc \in Seq(STRING)
    BY TreesOfAreTrees DEF Makes, Replies
  <1>2. next \in Seq(STRING) /\ next # <<>>
    BY <1>1, AppendProperties
  <1>3. CASE m.reply.tag # "ok"
    BY <1>3 DEF MakeNext
  <1> DEFINE dir == At(m.tree, m.reply.loc).kind = "dir"
  <1>4. CASE m.reply.tag = "ok" /\ dir /\ At(m.tree, next).kind = "absent"
    <2>1. new = [tree |-> Put(m.tree, next, Dir), reply |-> Ok(next)]
      BY <1>4 DEF MakeNext
    <2>2. Put(m.tree, next, Dir) \in TreesOf(t)
      <3>1. IsNode(Dir)
        BY DEF IsNode
      <3>2. QED BY <1>1, <1>2, <3>1, PutTree
    <2>3. Ok(next) \in Replies
      BY <1>2 DEF Ok, Replies
    <2>4. \A x : At(Put(m.tree, next, Dir), x) = IF x = next THEN Dir ELSE At(m.tree, x)
      <3> HIDE DEF next
      <3>1. QED BY <1>2, AtPut
    <2>5. At(m.tree, next) = Absent
      BY <1>1, <1>4, AtTyped DEF IsNode, Absent, Dir, File, BigFile, Link
    <2>6. Grown(t, m) => Under(Roots[1], next)
      BY <1>1, <1>4, RootsTyped, UnderAppend DEF Grown
    <2>7. Dir # Absent
      BY DEF Dir, Absent
    <2>12. Connected(m.tree) => Connected(Put(m.tree, next, Dir))
      <3>1. Up(next) = m.reply.loc
        BY <1>1, <1>2, PrefixOfAppend DEF Up
      <3>2. At(m.tree, m.reply.loc) = Dir
        BY <1>1, <1>4, AtTyped DEF IsNode, Absent, Dir, File, BigFile, Link
      <3> HIDE DEF next
      <3>3. QED BY <1>2, <3>1, <3>2, PutConnected
    <2> HIDE DEF next, new
    <2>8. /\ new.tree = Put(m.tree, next, Dir) /\ new.reply.tag = "ok" /\ new.reply.loc = next
          /\ new \in Makes(t)
      BY <2>1, <2>2, <2>3 DEF Ok, Makes
    <2>9. Grown(t, m) => Grown(t, new)
      BY <2>4, <2>5, <2>6, <2>7, <2>8 DEF Grown
    <2>10. Arrived(new)
      BY <2>4, <2>8 DEF Arrived
    <2>11. QED BY <2>8, <2>9, <2>10, <2>12 DEF new
  <1>7. CASE m.reply.tag = "ok" /\ ~dir
    <2>1. new = [m EXCEPT !.reply = Err("io")]
      BY <1>7 DEF MakeNext
    <2>2. Err("io") \in Replies /\ Err("io").tag # "ok"
      <3>1. <<>> \in Seq(STRING)
        OBVIOUS
      <3>2. QED BY <3>1 DEF Err, Replies
    <2> HIDE DEF new
    <2>3. new \in Makes(t) /\ new.tree = m.tree /\ new.reply = Err("io")
      BY <2>1, <2>2 DEF Makes
    <2>4. QED BY <2>2, <2>3 DEF Grown, Arrived, new
  <1>5. CASE m.reply.tag = "ok" /\ dir /\ At(m.tree, next).kind # "absent"
    <2> DEFINE seen == Prefix(m.tree, canonicalize(m.tree, next), final)
    <2>1. new = [m EXCEPT !.reply = seen]
      BY <1>5 DEF MakeNext
    <2>2. /\ seen \in Replies
          /\ seen.tag = "ok" => Under(Roots[1], seen.loc) /\ At(m.tree, seen.loc) = Dir
      BY <1>1, <1>2, CanonicalizeTyped, PrefixChecks
    <2> HIDE DEF seen, new
    <2>3. new \in Makes(t) /\ new.tree = m.tree /\ new.reply = seen
      BY <2>1, <2>2 DEF Makes
    <2>4. QED BY <2>2, <2>3 DEF Grown, Arrived, new
  <1>6. QED BY <1>3, <1>4, <1>5, <1>7

\* And so does the whole walk, by induction over the components.
LEMMA MakeAllGrows ==
  ASSUME NEW t, IsTree(t), NEW names \in Seq(STRING)
  PROVE  /\ Grown(t, MakeAll(t, names))
         /\ names # <<>> => Arrived(MakeAll(t, names))
         /\ Connected(t) => Connected(MakeAll(t, names).tree)
  <1> DEFINE L == Len(names)
             first == [tree |-> t, reply |-> Ok(Roots[1])]
             Step(n, m) == MakeNext(m, names[n], n = L)
             Def(f) == f = [n \in 0..L |-> IF n = 0 THEN first ELSE Step(n, f[n - 1])]
             F == [p \in Nat \X Makes(t) |-> IF p[1] \in 1..L THEN Step(p[1], p[2]) ELSE p[2]]
  <1>1. L \in Nat /\ \A n \in 1..L : names[n] \in STRING
    BY LenProperties, ElementOfSeq
  <1>2. first \in Makes(t) /\ Grown(t, first) /\ first.tree = t
    <2>1. Roots[1] \in Seq(STRING)
      BY RootsTyped
    <2>2. Ok(Roots[1]) \in Replies
      BY <2>1 DEF Ok, Replies
    <2>3. first.tree = t /\ first.reply.loc = Roots[1] /\ first \in Makes(t)
      BY <2>2 DEF Makes, TreesOf, Ok
    <2>4. Under(Roots[1], Roots[1])
      BY <2>1, LenProperties DEF Under, IsPrefix
    <2> HIDE DEF first
    <2>5. QED BY <2>3, <2>4 DEF Grown
  <1> HIDE DEF first
  <1>3. \A n \in 1..L : \A m \in Makes(t) :
           /\ Step(n, m) \in Makes(t)
           /\ Grown(t, m) => Grown(t, Step(n, m))
           /\ m.reply.tag = "ok" => Arrived(Step(n, m))
           /\ m.reply.tag # "ok" => Step(n, m) = m
           /\ Connected(m.tree) => Connected(Step(n, m).tree)
    <2> SUFFICES ASSUME NEW n \in 1..L, NEW m \in Makes(t)
                 PROVE  /\ Step(n, m) \in Makes(t)
                        /\ Grown(t, m) => Grown(t, Step(n, m))
                        /\ m.reply.tag = "ok" => Arrived(Step(n, m))
                        /\ m.reply.tag # "ok" => Step(n, m) = m
                        /\ Connected(m.tree) => Connected(Step(n, m).tree)
      OBVIOUS
    <2> DEFINE final == n = L
    <2>1. final \in BOOLEAN /\ names[n] \in STRING
      BY <1>1
    <2> HIDE DEF final
    <2>2. /\ MakeNext(m, names[n], final) \in Makes(t)
          /\ Grown(t, m) => Grown(t, MakeNext(m, names[n], final))
          /\ m.reply.tag = "ok" => Arrived(MakeNext(m, names[n], final))
          /\ Connected(m.tree) => Connected(MakeNext(m, names[n], final).tree)
      BY <2>1, MakeNextGrows
    <2>3. m.reply.tag # "ok" => MakeNext(m, names[n], final) = m
      BY DEF MakeNext
    <2>4. QED BY <2>2, <2>3 DEF final
  <1> HIDE DEF Step
  <1>4. F \in [Nat \X Makes(t) -> Makes(t)]
    BY <1>3
  <1>5. PICK g : g \in Runs(Makes(t), first, F)
    <2> HIDE DEF F
    <2>1. QED BY <1>2, <1>4, Iteration
  <1>6. /\ g \in [Nat -> Makes(t)] /\ g[0] = first
        /\ \A n \in Nat : g[n + 1] = F[<<n + 1, g[n]>>]
    <2> HIDE DEF F
    <2>1. QED BY <1>5 DEF Runs
  <1>7. ASSUME NEW n \in 1..L PROVE g[n] = Step(n, g[n - 1])
    <2>1. n - 1 \in Nat /\ (n - 1) + 1 = n /\ n \in Nat /\ g[n - 1] \in Makes(t)
      BY <1>1, <1>6
    <2>2. g[n] = F[<<n, g[n - 1]>>]
      <3> HIDE DEF F
      <3>1. QED BY <1>6, <2>1
    <2>3. F[<<n, g[n - 1]>>] = Step(n, g[n - 1])
      BY <2>1
    <2>4. QED BY <2>2, <2>3
  <1> DEFINE h == [n \in 0..L |-> g[n]]
  <1>8. Def(h)
    <2>1. ASSUME NEW n \in 0..L
          PROVE  h[n] = IF n = 0 THEN first ELSE Step(n, h[n - 1])
      <3>1. CASE n = 0
        BY <3>1, <1>6
      <3>2. CASE n # 0
        <4>1. n \in 1..L /\ n - 1 \in 0..L
          BY <1>1, <3>2
        <4>2. h[n] = g[n] /\ h[n - 1] = g[n - 1]
          BY <4>1
        <4> HIDE DEF h
        <4>3. QED BY <3>2, <4>1, <4>2, <1>7
      <3>3. QED BY <3>1, <3>2
    <2>2. QED BY <2>1
  <1> DEFINE k == CHOOSE f : Def(f)
  <1>9. MakeAll(t, names) = k[L]
    BY DEF MakeAll, first, Step
  <1>10. Def(k)
    BY <1>8
  <1> HIDE DEF k
  <1>11. \A n \in 0..L : k[n] = IF n = 0 THEN first ELSE Step(n, k[n - 1])
    BY <1>10
  <1> DEFINE Good(n) == /\ k[n] \in Makes(t) /\ Grown(t, k[n])
                        /\ n # 0 => Arrived(k[n])
                        /\ Connected(t) => Connected(k[n].tree)
             T == {n \in Nat : n \in 0..L => Good(n)}
  <1>12. 0 \in T
    <2>1. k[0] = first
      BY <1>1, <1>11
    <2>2. Good(0)
      BY <1>2, <2>1
    <2>3. QED BY <2>2
  <1>13. \A n \in Nat : n \in T => n + 1 \in T
    <2> SUFFICES ASSUME NEW n \in Nat, n \in T, n + 1 \in 0..L PROVE Good(n + 1)
      OBVIOUS
    <2>1. n \in 0..L /\ n + 1 \in 1..L /\ (n + 1) - 1 = n /\ n + 1 # 0
      BY <1>1
    <2>2. k[n + 1] = Step(n + 1, k[n])
      BY <1>11, <2>1
    <2>3. Good(n)
      BY <2>1
    <2>4. Arrived(k[n + 1])
      <3>1. CASE k[n].reply.tag = "ok"
        BY <1>3, <2>1, <2>2, <2>3, <3>1
      <3>2. CASE k[n].reply.tag # "ok"
        BY <1>3, <2>1, <2>2, <2>3, <3>2 DEF Arrived
      <3>3. QED BY <3>1, <3>2
    <2>5. QED BY <1>3, <2>1, <2>2, <2>3, <2>4
  <1>14. \A n \in Nat : n \in T
    <2> HIDE DEF T
    <2>1. QED BY <1>12, <1>13, Induction
  <1>15. L \in 0..L /\ L \in Nat
    BY <1>1
  <1>16. Good(L)
    BY <1>14, <1>15
  <1>17. names # <<>> => L # 0
    BY EmptySeq
  <1>18. QED BY <1>9, <1>16, <1>17

-----------------------------------------------------------------------------
(* The specification. *)

\* Until the request is handled, the tree is one of those given.
Waiting == request = NoRequest => tree \in Trees

\* FileAccess handles one request: until then the tree is as the host has it.
THEOREM WaitingHolds == Spec => []Waiting
  <1>1. Init => Waiting
    BY DEF Init, Waiting
  <1>2. Waiting /\ [Next]_vars => Waiting'
    <2> SUFFICES ASSUME Waiting, [Next]_vars, request' = NoRequest PROVE tree' \in Trees
      BY DEF Waiting
    <2>1. CASE UNCHANGED vars
      BY <2>1 DEF vars, Waiting
    <2>2. CASE handle_read_file
      BY <2>2 DEF handle_read_file, Answer, NoRequest
    <2>3. CASE handle_list_directory
      BY <2>3 DEF handle_list_directory, Answer, NoRequest
    <2>4. CASE handle_get_file_metadata
      BY <2>4 DEF handle_get_file_metadata, Answer, NoRequest
    <2>5. CASE handle_write_file
      BY <2>5 DEF handle_write_file, Answer, NoRequest
    <2>6. CASE handle_create_directory
      BY <2>6 DEF handle_create_directory, Answer, NoRequest
    <2>7. CASE handle_rename
      BY <2>7 DEF handle_rename, Answer, NoRequest
    <2>8. CASE handle_delete_file
      BY <2>8 DEF handle_delete_file, Answer, NoRequest
    <2>9. QED BY <2>1, <2>2, <2>3, <2>4, <2>5, <2>6, <2>7, <2>8 DEF Next
  <1>3. QED BY <1>1, <1>2, PTL DEF Spec

\* FilesystemBackend::resolve, for every tree, every set of roots and every request:
\* the path it returns is below an allowed root, with no link on the way.
THEOREM ResolutionStaysInside == Spec => []ResolvedStaysInside
  <1>1. Waiting => ResolvedStaysInside
    <2> SUFFICES ASSUME Waiting, request = NoRequest, NEW path \in Requests,
                        resolve(tree, path).tag = "ok"
                 PROVE  /\ InsideRoots(resolve(tree, path).loc)
                        /\ Real(tree, Front(resolve(tree, path).loc))
      BY DEF ResolvedStaysInside
    <2> DEFINE t == tree
               replies == [i \in DOMAIN Roots |-> ResolveUnder(t, Roots[i], path)]
               found == resolve(t, path)
    <2>1. path \in Seq(STRING) /\ IsTree(t)
      BY NamesGiven DEF Waiting
    <2>2. found = FirstReply(replies)
      BY DEF resolve, Err
    <2>3. PICK i \in DOMAIN Roots : found = ResolveUnder(t, Roots[i], path)
      <3>1. DOMAIN replies \subseteq Nat /\ FirstReply(replies).tag = "ok"
        BY <2>2, RootsTyped
      <3>2. PICK i \in DOMAIN replies : FirstReply(replies) = replies[i]
        <4> HIDE DEF replies
        <4>1. QED BY <3>1, FirstReplyIsOne
      <3>3. QED BY <2>2, <3>2
    <2> HIDE DEF found
    <2>4. Under(Roots[i], found.loc) /\ Canonical(t, Front(found.loc))
      BY <2>1, <2>3, RootsTyped, ResolvedUnder DEF found
    <2>5. Real(t, Front(found.loc))
      BY <2>1, <2>4, CanonicalStays DEF Real
    <2>6. QED BY <2>4, <2>5 DEF InsideRoots, found
  <1>2. QED BY <1>1, WaitingHolds, PTL

\* resolve_no_follow, for every tree, every set of roots and every request: the
\* parent it returns is below an allowed root, with no link on the way, and the name
\* is the one asked for.
THEOREM NamingStaysInside == Spec => []NamedStaysInside
  <1>1. Waiting => NamedStaysInside
    <2> SUFFICES ASSUME Waiting, request = NoRequest, NEW path \in Requests,
                        resolve_no_follow(tree, path).tag = "ok"
                 PROVE  /\ InsideRoots(Front(resolve_no_follow(tree, path).loc))
                        /\ Real(tree, Front(resolve_no_follow(tree, path).loc))
                        /\ Last(resolve_no_follow(tree, path).loc) = Last(Components(path))
      BY DEF NamedStaysInside
    <2> DEFINE t == tree
               comps == Components(path)
               replies == [i \in DOMAIN Roots |-> ResolveLeafUnder(t, Roots[i], comps)]
               found == resolve_no_follow(t, path)
    <2>1. path \in Seq(STRING) /\ IsTree(t) /\ comps \in Seq(STRING)
      BY NamesGiven, ComponentsTyped DEF Waiting
    <2>2. found = FirstReply(replies)
      BY DEF resolve_no_follow, Err
    <2> HIDE DEF comps
    <2>3. PICK i \in DOMAIN Roots : found = ResolveLeafUnder(t, Roots[i], comps)
      <3>1. DOMAIN replies \subseteq Nat /\ FirstReply(replies).tag = "ok"
        BY <2>2, RootsTyped
      <3>2. PICK i \in DOMAIN replies : FirstReply(replies) = replies[i]
        <4> HIDE DEF replies
        <4>1. QED BY <3>1, FirstReplyIsOne
      <3>3. QED BY <2>2, <3>2
    <2> HIDE DEF found
    <2>4. /\ Under(Roots[i], Front(found.loc)) /\ Canonical(t, Front(found.loc))
          /\ Last(found.loc) = Last(comps)
      BY <2>1, <2>3, RootsTyped, NamedUnder DEF found
    <2>5. Real(t, Front(found.loc))
      BY <2>1, <2>4, CanonicalStays DEF Real
    <2>6. QED BY <2>4, <2>5 DEF InsideRoots, found, comps
  <1>2. QED BY <1>1, WaitingHolds, PTL

\* ensure_dir_under_root, for every tree and every request: what it makes is below the
\* first root, and nothing that existed changes.
THEOREM CreationStaysInside == Spec => CreatesInside
  <1> DEFINE Creates == request'.op = "mkdir" =>
         /\ \A loc \in DOMAIN tree' : At(tree', loc) # At(tree, loc) =>
                At(tree, loc) = Absent /\ At(tree', loc) = Dir /\ Under(Roots[1], loc)
         /\ reply'.tag = "ok" => At(tree', reply'.loc) = Dir /\ Under(Roots[1], reply'.loc)
  <1>1. Waiting /\ [Next]_vars => [Creates]_vars
    <2> SUFFICES ASSUME Waiting, Next PROVE Creates
      OBVIOUS
    <2>1. CASE handle_read_file
      BY <2>1 DEF handle_read_file, Answer
    <2>2. CASE handle_list_directory
      BY <2>2 DEF handle_list_directory, Answer
    <2>3. CASE handle_get_file_metadata
      BY <2>3 DEF handle_get_file_metadata, Answer
    <2>4. CASE handle_write_file
      BY <2>4 DEF handle_write_file, Answer
    <2>5. CASE handle_create_directory
      <3>1. IsTree(tree)
        BY <2>5, NamesGiven DEF handle_create_directory, Waiting
      <3>2. PICK path \in Requests :
              \/ /\ reply' = ensure_dir_under_root(tree, path).reply
                 /\ tree' = ensure_dir_under_root(tree, path).tree
              \/ reply'.tag # "ok" /\ tree' = tree
        BY <2>5 DEF handle_create_directory, Answer
      <3> DEFINE made == ensure_dir_under_root(tree, path)
                 rel == creation_rel(path)
      <3>3. path \in Seq(STRING)
        BY NamesGiven
      <3>4. Grown(tree, made) /\ Arrived(made)
        <4>1. CASE rel.tag = "ok"
          <5>1. rel.loc = Components(path) /\ Components(path) # <<>>
            BY <4>1 DEF creation_rel, Ok, Err
          <5>2. made = MakeAll(tree, rel.loc)
            BY <4>1 DEF ensure_dir_under_root
          <5>3. QED BY <3>1, <3>3, <5>1, <5>2, ComponentsTyped, MakeAllGrows
        <4>2. CASE rel.tag # "ok"
          <5>1. made = [tree |-> tree, reply |-> rel]
            BY <4>2 DEF ensure_dir_under_root
          <5>2. made.tree = tree /\ made.reply.tag # "ok"
            BY <4>2, <5>1
          <5> HIDE DEF made
          <5>3. QED BY <5>2 DEF Grown, Arrived
        <4>3. QED BY <4>1, <4>2
      <3>5. CASE reply' = made.reply /\ tree' = made.tree
        BY <3>4, <3>5 DEF Grown, Arrived
      <3>6. CASE reply'.tag # "ok" /\ tree' = tree
        BY <3>6
      <3>7. QED BY <3>2, <3>5, <3>6
    <2>6. CASE handle_rename
      BY <2>6 DEF handle_rename, Answer
    <2>7. CASE handle_delete_file
      BY <2>7 DEF handle_delete_file, Answer
    <2>8. QED BY <2>1, <2>2, <2>3, <2>4, <2>5, <2>6, <2>7 DEF Next
  <1>2. QED BY <1>1, WaitingHolds, PTL DEF Spec, CreatesInside
=============================================================================
