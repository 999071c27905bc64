-------------------------- MODULE FileGrantsProofs --------------------------
(***************************************************************************)
(* Proofs about FileAccess, on top of those of FileAccessProofs: no        *)
(* handler cuts an entry off from its directory, and a handler reads and   *)
(* changes only what lies in the caller's scope, for every tree, with any  *)
(* links, every grants file that loads and every request.                  *)
(*                                                                         *)
(* The argument has three parts.  A path the handlers were admitted to is  *)
(* where the links lead: a leaf that resolve answers below an existing     *)
(* parent is not found when it is looked up again, although resolve        *)
(* canonicalizes the path with its dots and the parent without (DotsEnd,   *)
(* LeafMissing).  An operation that succeeds changes the entries it was    *)
(* admitted to and what is below them (WriteChanges, DeleteChanges,        *)
(* RenameChanges).  And a root that covers a path as a string of           *)
(* characters is a directory the path is in, since the separators of the   *)
(* string are those between the names (CoversInNames).                     *)
(***************************************************************************)
EXTENDS FileAccessProofs

-----------------------------------------------------------------------------
(* Sequences. *)

\* An end of a sequence is out of reach of Head and Tail, and of what is put before it.
LEMMA AppendAfter ==
  ASSUME NEW S, NEW s \in Seq(S), s # <<>>, NEW c \in S
  PROVE  Head(Append(s, c)) = Head(s) /\ Tail(Append(s, c)) = Append(Tail(s), c)
  <1> DEFINE a == Append(s, c)
             r == Tail(s)
  <1>1. a \in Seq(S) /\ Len(a) = Len(s) + 1 /\ a # <<>> /\ Len(s) \in Nat /\ Len(s) # 0
    BY AppendProperties, EmptySeq, LenProperties
  <1>2. \A i \in 1..Len(s) : a[i] = s[i]
    BY AppendProperties
  <1>3. a[Len(s) + 1] = c
    BY AppendProperties
  <1>4. Head(a) = Head(s)
    <2>1. 1 \in 1..Len(s)
      BY <1>1
    <2>2. QED BY <1>1, <1>2, <2>1, HeadTailProperties
  <1>5. /\ r \in Seq(S) /\ Len(r) = Len(s) - 1
        /\ \A i \in 1..Len(r) : r[i] = s[i + 1]
    BY HeadTailProperties
  <1>6. /\ Tail(a) \in Seq(S) /\ Len(Tail(a)) = Len(s)
        /\ \A i \in 1..Len(s) : Tail(a)[i] = a[i + 1]
    <2>1. Tail(a) \in Seq(S) /\ Len(Tail(a)) = Len(a) - 1
      BY <1>1, HeadTailProperties
    <2>2. \A i \in 1..Len(Tail(a)) : Tail(a)[i] = a[i + 1]
      BY <1>1, HeadTailProperties
    <2>3. Len(Tail(a)) = Len(s)
      BY <1>1, <2>1
    <2>4. QED BY <2>1, <2>2, <2>3
  <1> HIDE DEF r
  <1>7. Append(r, c) \in Seq(S) /\ Len(Append(r, c)) = Len(r) + 1
    BY <1>5, AppendProperties
  <1>8. \A i \in 1..Len(r) : Append(r, c)[i] = r[i]
    BY <1>5, AppendProperties
  <1>9. Append(r, c)[Len(r) + 1] = c
    BY <1>5, AppendProperties
  <1> HIDE DEF a
  <1>10. ASSUME NEW i \in 1..Len(s) PROVE Tail(a)[i] = Append(r, c)[i]
    <2>1. CASE i = Len(s)
      <3>1. i = Len(r) + 1
        BY <1>1, <1>5, <2>1
      <3>2. QED BY <1>3, <1>6, <1>9, <2>1, <3>1
    <2>2. CASE i # Len(s)
      <3>1. i \in 1..Len(r) /\ i + 1 \in 1..Len(s)
        BY <1>1, <1>5, <2>2
      <3>2. QED BY <1>2, <1>5, <1>6, <1>8, <3>1
    <2>3. QED BY <2>1, <2>2
  <1>11. Len(Append(r, c)) = Len(s)
    BY <1>1, <1>5, <1>7
  <1>12. Tail(a) = Append(r, c)
    BY <1>6, <1>7, <1>10, <1>11, SeqEqual
  <1>13. QED BY <1>4, <1>12 DEF a, r

\* A name at the end stays there whatever is put in front.
LEMMA ConcatAppend ==
  ASSUME NEW S, NEW s \in Seq(S), NEW r \in Seq(S), NEW c \in S
  PROVE  s \o Append(r, c) = Append(s \o r, c)
  <1>1. Append(r, c) = r \o <<c>> /\ <<c>> \in Seq(S) /\ s \o r \in Seq(S)
    BY AppendIsConcat, ConcatProperties
  <1>2. Append(s \o r, c) = (s \o r) \o <<c>>
    BY <1>1, AppendIsConcat
  <1>3. QED BY <1>1, <1>2, ConcatAssociative

\* A sequence is its front and its last element.
LEMMA FrontLast ==
  ASSUME NEW S, NEW s \in Seq(S), s # <<>>
  PROVE  Front(s) \in Seq(S) /\ Last(s) \in S /\ s = Append(Front(s), Last(s))
  <1> DEFINE m == Len(s) - 1
  <1>1. m \in Nat /\ m + 1 = Len(s) /\ Len(s) \in 1..Len(s) /\ \A i \in 1..Len(s) : s[i] \in S
    BY EmptySeq, ElementOfSeq, LenProperties
  <1>2. SubSeq(s, 1, m) \in Seq(S) /\ SubSeq(s, 1, Len(s)) = s
    <2>1. \A i \in 1..m : s[i] \in S
      BY <1>1
    <2> HIDE DEF m
    <2>2. QED BY <1>1, <2>1, SubSeqProperties, SubSeqFull
  <1>3. SubSeq(s, 1, Len(s)) = SubSeq(s, 1, Len(s) - 1) \o <<s[Len(s)]>>
    <2>1. 1 \in 1..Len(s)
      BY <1>1
    <2>2. QED BY <1>1, <2>1, SubSeqRecursiveSecond
  <1>4. Front(s) = SubSeq(s, 1, m) /\ Last(s) = s[Len(s)]
    BY DEF Front, Last
  <1>5. Front(s) \in Seq(S) /\ Last(s) \in S /\ s = Front(s) \o <<Last(s)>>
    BY <1>1, <1>2, <1>3, <1>4
  <1>6. QED BY <1>5, AppendIsConcat

\* What was put after s is what is left when s is taken off.
LEMMA SuffixOfConcat ==
  ASSUME NEW S, NEW s \in Seq(S), NEW r \in Seq(S)
  PROVE  SubSeq(s \o r, Len(s) + 1, Len(s \o r)) = r
  <1> DEFINE a == s \o r
             m == Len(s)
             b == SubSeq(a, m + 1, Len(a))
  <1>1. m \in Nat /\ Len(r) \in Nat /\ \A i \in 1..Len(r) : r[i] \in S
    BY LenProperties, ElementOfSeq
  <1>2. a \in Seq(S) /\ Len(a) = m + Len(r)
    BY ConcatProperties
  <1>3. \A i \in 1..Len(a) : a[i] \in S /\ a[i] = IF i <= m THEN s[i] ELSE r[i - m]
    <2>1. \A i \in 1..Len(a) : a[i] = IF i <= m THEN s[i] ELSE r[i - m]
      BY ConcatProperties
    <2>2. \A i \in 1..Len(a) : a[i] \in S
      BY <1>2, ElementOfSeq
    <2>3. QED BY <2>1, <2>2
  <1> HIDE DEF a, m
  <1>4. \A i \in (m + 1)..Len(a) : a[i] \in S
    BY <1>1, <1>2, <1>3
  <1>5. b \in Seq(S)
    BY <1>1, <1>2, <1>4, SubSeqProperties
  <1>6. Len(b) = IF m + 1 <= Len(a) THEN Len(a) - (m + 1) + 1 ELSE 0
    BY <1>1, <1>2, <1>4, SubSeqProperties
  <1>7. \A i \in 1..(Len(a) - (m + 1) + 1) : b[i] = a[(m + 1) + i - 1]
    BY <1>1, <1>2, <1>4, SubSeqProperties
  <1> HIDE DEF b
  <1>8. Len(b) = Len(r)
    BY <1>1, <1>2, <1>6
  <1>9. ASSUME NEW i \in 1..Len(r) PROVE b[i] = r[i]
    <2>1. /\ i \in 1..(Len(a) - (m + 1) + 1) /\ (m + 1) + i - 1 = m + i
          /\ m + i \in 1..Len(a) /\ ~(m + i <= m) /\ (m + i) - m = i
      BY <1>1, <1>2
    <2>2. QED BY <1>3, <1>7, <2>1
  <1>10. b = r
    BY <1>5, <1>8, <1>9, SeqEqual
  <1>11. QED BY <1>10 DEF a, m, b

\* A prefix of x is what something can be put after to get x.
LEMMA PrefixSplit ==
  ASSUME NEW S, NEW s \in Seq(S), NEW x \in Seq(S)
  PROVE  IsPrefix(s, x) <=> \E r \in Seq(S) : x = s \o r
  <1>1. Len(s) \in Nat /\ Len(x) \in Nat
    BY LenProperties
  <1>2. SubSeq(s, 1, Len(s)) = s /\ SubSeq(x, 1, Len(x)) = x
    BY SubSeqFull
  <1>3. ASSUME IsPrefix(s, x) PROVE \E r \in Seq(S) : x = s \o r
    <2> DEFINE r == SubSeq(x, Len(s) + 1, Len(x))
    <2>1. Len(s) <= Len(x) /\ s = SubSeq(x, 1, Len(s))
      BY <1>2, <1>3 DEF IsPrefix
    <2>2. \A i \in 1..Len(x) : x[i] \in S
      BY ElementOfSeq
    <2>3. r \in Seq(S)
      <3>1. \A i \in (Len(s) + 1)..Len(x) : x[i] \in S
        BY <1>1, <2>2
      <3>2. QED BY <1>1, <3>1, SubSeqProperties
    <2>4. x = s \o r
      <3>1. Len(r) = IF Len(s) + 1 <= Len(x) THEN Len(x) - (Len(s) + 1) + 1 ELSE 0
        <4>1. \A i \in (Len(s) + 1)..Len(x) : x[i] \in S
          BY <1>1, <2>2
        <4>2. QED BY <1>1, <4>1, SubSeqProperties
      <3>2. \A i \in 1..(Len(x) - (Len(s) + 1) + 1) : r[i] = x[(Len(s) + 1) + i - 1]
        <4>1. \A i \in (Len(s) + 1)..Len(x) : x[i] \in S
          BY <1>1, <2>2
        <4>2. QED BY <1>1, <4>1, SubSeqProperties
      <3>3. s \o r \in Seq(S) /\ Len(s \o r) = Len(s) + Len(r)
        BY <2>3, ConcatProperties
      <3>4. \A i \in 1..Len(s \o r) : (s \o r)[i] = IF i <= Len(s) THEN s[i] ELSE r[i - Len(s)]
        BY <2>3, ConcatProperties
      <3>5. \A i \in 1..Len(s) : s[i] = x[i]
        <4>1. \A i \in 1..Len(s) : x[i] \in S
          BY <1>1, <2>1, <2>2
        <4>2. \A i \in 1..Len(s) : SubSeq(x, 1, Len(s))[i] = x[i]
          BY <1>1, <4>1, SubSeqProperties
        <4>3. QED BY <2>1, <4>2
      <3> HIDE DEF r
      <3>6. Len(s \o r) = Len(x)
        BY <1>1, <2>1, <3>1, <3>3
      <3>7. ASSUME NEW i \in 1..Len(x) PROVE (s \o r)[i] = x[i]
        <4>1. CASE i <= Len(s)
          BY <1>1, <3>4, <3>5, <3>6, <4>1
        <4>2. CASE ~(i <= Len(s))
          <5>1. /\ i - Len(s) \in 1..(Len(x) - (Len(s) + 1) + 1)
                /\ (Len(s) + 1) + (i - Len(s)) - 1 = i
            BY <1>1, <4>2
          <5>2. QED BY <3>2, <3>4, <3>6, <4>2, <5>1
        <4>3. QED BY <4>1, <4>2
      <3>8. QED BY <3>3, <3>6, <3>7, SeqEqual
    <2>5. QED BY <2>3, <2>4
  <1>4. ASSUME NEW r \in Seq(S), x = s \o r PROVE IsPrefix(s, x)
    <2>1. Len(r) \in Nat /\ Len(x) = Len(s) + Len(r)
      BY <1>4, ConcatProperties, LenProperties
    <2>2. SubSeq(x, 1, Len(s)) = s
      BY <1>4, SubSeqOfConcat1
    <2>3. Len(s) <= Len(x)
      BY <1>1, <2>1
    <2>4. QED BY <1>2, <2>2, <2>3 DEF IsPrefix
  <1>5. QED BY <1>3, <1>4

\* Front of what has been put after a location.
LEMMA FrontOfConcat ==
  ASSUME NEW S, NEW s \in Seq(S), NEW r \in Seq(S), r # <<>>
  PROVE  s \o r # <<>> /\ Front(s \o r) = s \o Front(r) /\ Front(r) \in Seq(S)
  <1> DEFINE f == Front(r)
             l == Last(r)
  <1>1. f \in Seq(S) /\ l \in S /\ r = Append(f, l)
    BY FrontLast
  <1> HIDE DEF f, l
  <1>2. s \o r = Append(s \o f, l) /\ s \o f \in Seq(S)
    BY <1>1, ConcatAppend, ConcatProperties
  <1>3. Front(Append(s \o f, l)) = s \o f
    BY <1>1, <1>2, PrefixOfAppend
  <1>4. Append(s \o f, l) # <<>>
    BY <1>1, <1>2, AppendProperties
  <1>5. QED BY <1>1, <1>2, <1>3, <1>4 DEF f

\* A sequence of one element.
LEMMA Singleton == ASSUME NEW S, NEW c \in S PROVE <<c>> \in Seq(S)
  OBVIOUS

\* Where something is put does not depend on the order it is put in.
LEMMA ConcatTwice ==
  ASSUME NEW a \in Seq(STRING), NEW b \in Seq(STRING), NEW c \in Seq(STRING)
  PROVE  (a \o b) \o c = a \o (b \o c) /\ b \o c \in Seq(STRING)
  BY ConcatAssociative, ConcatProperties

\* Two parts of sequences with the same elements are the same.
LEMMA SameSubSeq ==
  ASSUME NEW S, NEW s, NEW t, NEW a \in Int, NEW b \in Int, NEW c \in Int, NEW d \in Int,
         b - a = d - c, \A i \in a..b : s[i] \in S /\ t[i + (c - a)] = s[i]
  PROVE  SubSeq(s, a, b) = SubSeq(t, c, d)
  <1> DEFINE u == SubSeq(s, a, b)
             v == SubSeq(t, c, d)
  <1>1. \A i \in c..d : t[i] \in S
    <2> SUFFICES ASSUME NEW i \in c..d PROVE t[i] \in S
      OBVIOUS
    <2>1. i - (c - a) \in a..b /\ (i - (c - a)) + (c - a) = i
      OBVIOUS
    <2>2. QED BY <2>1
  <1>2. u \in Seq(S) /\ Len(u) = IF a <= b THEN b - a + 1 ELSE 0
    BY SubSeqProperties
  <1>3. \A i \in 1..(b - a + 1) : u[i] = s[a + i - 1]
    BY SubSeqProperties
  <1>4. v \in Seq(S) /\ Len(v) = IF c <= d THEN d - c + 1 ELSE 0
    BY <1>1, SubSeqProperties
  <1>5. \A i \in 1..(d - c + 1) : v[i] = t[c + i - 1]
    BY <1>1, SubSeqProperties
  <1> HIDE DEF u, v
  <1>6. Len(u) = Len(v)
    BY <1>2, <1>4
  <1>7. ASSUME NEW i \in 1..Len(u) PROVE u[i] = v[i]
    <2>1. /\ i \in 1..(b - a + 1) /\ i \in 1..(d - c + 1)
          /\ a + i - 1 \in a..b /\ (a + i - 1) + (c - a) = c + i - 1
      BY <1>2
    <2>2. QED BY <1>3, <1>5, <2>1
  <1>8. u = v
    BY <1>2, <1>4, <1>6, <1>7, SeqEqual
  <1>9. QED BY <1>8 DEF u, v

-----------------------------------------------------------------------------
(* Where a walk of canonicalize ends: with one name more, from another start, and
   with "." left out. *)

\* A walk that has failed or has followed every name.
Over(w) == w.error # "none" \/ w.left = <<>>

\* Where the walk of canonicalize ends.
End(t, names) == Walk(t, names)[Len(names) + LinkLimit * TargetLimit]

\* A step, field by field.
Moves(t, w, v) ==
  LET name == Head(w.left)
      rest == Tail(w.left)
      next == Append(w.cur, name)
      node == At(t, next)
      named == name # "." /\ name # ".."
  IN  /\ v.error = IF At(t, w.cur).kind # "dir" THEN "not_a_directory"
                   ELSE IF named /\ node.kind = "absent" THEN "not_found"
                   ELSE IF named /\ node.kind = "link" /\ w.links = 0 THEN "loop"
                   ELSE "none"
      /\ v.cur = IF v.error # "none" \/ name = "." THEN w.cur
                 ELSE IF name = ".." THEN Up(w.cur)
                 ELSE IF node.kind = "link" THEN <<>> ELSE next
      /\ v.left = IF v.error # "none" THEN w.left
                  ELSE IF named /\ node.kind = "link" THEN node.target \o rest ELSE rest
      /\ v.links = IF v.error = "none" /\ named /\ node.kind = "link" THEN w.links - 1
                   ELSE w.links

\* Follow stays where the walk is over and moves by one name otherwise.
LEMMA FollowMoves ==
  ASSUME NEW t, NEW w \in Walks
  PROVE  IF Over(w) THEN Follow(t, w) = w ELSE Moves(t, w, Follow(t, w))
  <1>1. CASE Over(w)
    BY <1>1 DEF Over, Follow
  <1>2. CASE ~Over(w)
    <2> DEFINE name == Head(w.left)
               rest == Tail(w.left)
               next == Append(w.cur, name)
               node == At(t, next)
               new == Follow(t, w)
               onto == node.target \o rest
               up == Up(w.cur)
    <2>0. w.error = "none" /\ w.left # <<>>
      BY <1>2 DEF Over
    <2>1. new = IF At(t, w.cur).kind # "dir" THEN [w EXCEPT !.error = "not_a_directory"]
        ELSE IF name = "." THEN [w EXCEPT !.left = rest]
        ELSE IF name = ".." THEN [w EXCEPT !.cur = up, !.left = rest]
        ELSE IF node.kind = "absent" THEN [w EXCEPT !.error = "not_found"]
        ELSE IF node.kind = "link" THEN
                    IF w.links = 0 THEN [w EXCEPT !.error = "loop"]
                    ELSE [w EXCEPT !.cur = <<>>, !.left = onto, !.links = w.links - 1]
        ELSE [w EXCEPT !.cur = next, !.left = rest]
      BY <2>0 DEF Follow
    <2> DEFINE named == name # "." /\ name # ".."
    <2> HIDE DEF name, rest, next, node, new, onto, up
    <2>2. new.error = IF At(t, w.cur).kind # "dir" THEN "not_a_directory"
                      ELSE IF named /\ node.kind = "absent" THEN "not_found"
                      ELSE IF named /\ node.kind = "link" /\ w.links = 0 THEN "loop"
                      ELSE "none"
      BY <2>0, <2>1 DEF Walks
    <2>3. new.cur = IF new.error # "none" \/ name = "." THEN w.cur
                    ELSE IF name = ".." THEN up
                    ELSE IF node.kind = "link" THEN <<>> ELSE next
      BY <2>0, <2>1 DEF Walks
    <2>4. new.left = IF new.error # "none" THEN w.left
                     ELSE IF named /\ node.kind = "link" THEN onto ELSE rest
      BY <2>0, <2>1 DEF Walks
    <2>5. new.links = IF new.error = "none" /\ named /\ node.kind = "link" THEN w.links - 1
                      ELSE w.links
      BY <2>0, <2>1 DEF Walks
    <2>6. QED BY <1>2, <2>2, <2>3, <2>4, <2>5, Zenon DEF Moves, name, rest, next, node, new, onto, up
  <1>3. QED BY <1>1, <1>2

\* A walk that is over stays as it is.
LEMMA OverStays ==
  ASSUME NEW t, IsTree(t), NEW names \in Seq(STRING), NEW n \in Nat, Over(Walk(t, names)[n])
  PROVE  \A i \in Nat : Walk(t, names)[n + i] = Walk(t, names)[n]
  <1> DEFINE w == Walk(t, names)
             T == {i \in Nat : w[n + i] = w[n]}
  <1>1. \A i \in Nat : w[i] \in Walks /\ w[i + 1] = Follow(t, w[i])
    BY WalkSteps
  <1> HIDE DEF w
  <1>2. 0 \in T
    OBVIOUS
  <1>3. \A i \in Nat : i \in T => i + 1 \in T
    <2> SUFFICES ASSUME NEW i \in Nat, w[n + i] = w[n] PROVE w[n + (i + 1)] = w[n]
      OBVIOUS
    <2>1. n + i \in Nat /\ n + (i + 1) = (n + i) + 1
      OBVIOUS
    <2>2. w[n + (i + 1)] = Follow(t, w[n + i])
      BY <1>1, <2>1
    <2>3. Follow(t, w[n]) = w[n]
      BY <1>1, FollowMoves DEF w
    <2>4. QED BY <2>2, <2>3
  <1>4. \A i \in Nat : i \in T
    <2> HIDE DEF T
    <2>1. QED BY <1>2, <1>3, Induction
  <1>5. QED BY <1>4 DEF w

\* canonicalize takes enough steps: the walk it looks at is over.
LEMMA EndTyped ==
  ASSUME NEW t, IsTree(t), NEW names \in Seq(STRING)
  PROVE  /\ End(t, names) \in Walks /\ Over(End(t, names))
         /\ canonicalize(t, names) =
              IF End(t, names).error = "none" THEN Ok(End(t, names).cur) ELSE Err(End(t, names).error)
  <1>1. Len(names) + LinkLimit * TargetLimit \in Nat
    BY CanonicalizeSteps
  <1>2. End(t, names) \in Walks
    BY <1>1, WalkSteps DEF End
  <1>3. Over(End(t, names))
    BY WalkEnds DEF Over, End
  <1>4. QED BY <1>2, <1>3 DEF canonicalize, End

\* Where a walk is over is where it ends.
LEMMA OverIsEnd ==
  ASSUME NEW t, IsTree(t), NEW names \in Seq(STRING), NEW n \in Nat, Over(Walk(t, names)[n])
  PROVE  Walk(t, names)[n] = End(t, names)
  <1> DEFINE N == Len(names) + LinkLimit * TargetLimit
             w == Walk(t, names)
  <1>1. N \in Nat
    BY CanonicalizeSteps
  <1>2. End(t, names) = w[N] /\ Over(w[N])
    BY EndTyped DEF End
  <1>3. \A i \in Nat : w[n + i] = w[n]
    BY OverStays
  <1>4. \A i \in Nat : w[N + i] = w[N]
    BY <1>1, <1>2, OverStays
  <1> HIDE DEF w, N
  <1>5. w[n + N] = w[n] /\ w[N + n] = w[N]
    BY <1>1, <1>3, <1>4, Zenon
  <1>7. n + N = N + n
    BY <1>1
  <1>6. QED BY <1>2, <1>5, <1>7 DEF w

\* w follows one name more than v.
Beside(v, w, c) ==
  w.cur = v.cur /\ w.links = v.links /\ w.error = v.error /\ w.left = Append(v.left, c)

\* As long as it has names of its own, the shorter walk and the longer one go together.
LEMMA FollowBeside ==
  ASSUME NEW t, IsTree(t), NEW v \in Walks, NEW w \in Walks, NEW c \in STRING,
         Beside(v, w, c), v.left # <<>> \/ v.error # "none"
  PROVE  Beside(Follow(t, v), Follow(t, w), c)
  <1>1. CASE v.error # "none"
    <2>1. Follow(t, v) = v /\ Follow(t, w) = w
      BY <1>1, FollowMoves DEF Beside, Over
    <2>2. QED BY <2>1
  <1>2. CASE v.error = "none"
    <2> DEFINE name == Head(v.left)
               rest == Tail(v.left)
               node == At(t, Append(v.cur, name))
               x == Follow(t, v)
               y == Follow(t, w)
    <2>0. v.left \in Seq(STRING) /\ v.left # <<>> /\ w.left = Append(v.left, c)
      BY <1>2 DEF Walks, Beside
    <2>1. Head(w.left) = name /\ Tail(w.left) = Append(rest, c) /\ rest \in Seq(STRING)
      BY <2>0, AppendAfter, HeadTailProperties
    <2>2. w.left # <<>>
      BY <2>0, AppendProperties
    <2>3. node.kind = "link" => node.target \o Append(rest, c) = Append(node.target \o rest, c)
      <3>1. node.kind = "link" => node.target \in Seq(STRING)
        BY AtTyped DEF IsNode, Absent, Dir, File, BigFile
      <3> DEFINE target == node.target
      <3> HIDE DEF node, rest
      <3>2. ASSUME target \in Seq(STRING)
            PROVE  target \o Append(rest, c) = Append(target \o rest, c)
        <4> HIDE DEF target
        <4>1. QED BY <2>1, <3>2, ConcatAppend
      <3>3. QED BY <3>1, <3>2
    <2>4. Moves(t, v, x) /\ Moves(t, w, y)
      BY <1>2, <2>0, <2>2, FollowMoves DEF Over, Beside
    <2>5. w.cur = v.cur /\ w.links = v.links /\ w.error = v.error
      BY DEF Beside
    <2> HIDE DEF x, y
    <2>6. y.error = x.error
      BY <2>1, <2>4, <2>5 DEF Moves
    <2>7. y.cur = x.cur
      BY <2>1, <2>4, <2>5, <2>6 DEF Moves
    <2>8. y.links = x.links
      BY <2>1, <2>4, <2>5, <2>6 DEF Moves
    <2>9. y.left = Append(x.left, c)
      <3> DEFINE named == name # "." /\ name # ".."
                 onto == node.target \o rest
      <3>1. x.left = IF x.error # "none" THEN v.left
                     ELSE IF named /\ node.kind = "link" THEN onto ELSE rest
        BY <2>4 DEF Moves
      <3>2. y.left = IF y.error # "none" THEN w.left
                     ELSE IF named /\ node.kind = "link" THEN Append(onto, c) ELSE Append(rest, c)
        <4>1. y.left = IF y.error # "none" THEN w.left
                     ELSE IF (Head(w.left) # "." /\ Head(w.left) # "..") /\ At(t, Append(w.cur, Head(w.left))).kind = "link"
                     THEN At(t, Append(w.cur, Head(w.left))).target \o Tail(w.left) ELSE Tail(w.left)
          BY <2>4 DEF Moves
        <4>2. At(t, Append(w.cur, Head(w.left))) = node
          BY <2>1, <2>5
        <4> HIDE DEF node, rest, name
        <4>3. QED BY <2>1, <2>3, <4>1, <4>2
      <3> HIDE DEF onto, rest, node, name
      <3>3. QED BY <2>0, <2>6, <3>1, <3>2
    <2>10. QED BY <2>6, <2>7, <2>8, <2>9 DEF Beside, x, y
  <1>3. QED BY <1>1, <1>2

\* The longer walk comes to where the shorter ends, with its last name left.
LEMMA AppendRuns ==
  ASSUME NEW t, IsTree(t), NEW names \in Seq(STRING), NEW c \in STRING
  PROVE  \E m \in Nat : Beside(End(t, names), Walk(t, Append(names, c))[m], c)
  <1> DEFINE v == Walk(t, names)
             w == Walk(t, Append(names, c))
             N == Len(names) + LinkLimit * TargetLimit
             There == \E m \in Nat : Over(v[m]) /\ Beside(v[m], w[m], c)
             T == {n \in Nat : There \/ Beside(v[n], w[n], c)}
  <1>1. Append(names, c) \in Seq(STRING) /\ N \in Nat
    BY AppendProperties, CanonicalizeSteps
  <1>2. v[0] = Start(names) /\ \A n \in Nat : v[n] \in Walks /\ v[n + 1] = Follow(t, v[n])
    BY WalkSteps
  <1>3. /\ w[0] = Start(Append(names, c))
        /\ \A n \in Nat : w[n] \in Walks /\ w[n + 1] = Follow(t, w[n])
    BY <1>1, WalkSteps
  <1>4. Over(v[N])
    BY EndTyped DEF End
  <1>5. \A m \in Nat : Over(v[m]) => v[m] = End(t, names)
    BY OverIsEnd
  <1> HIDE DEF v, w, N
  <1>6. 0 \in T
    <2>1. Beside(v[0], w[0], c)
      BY <1>2, <1>3 DEF Beside, Start
    <2>2. QED BY <2>1
  <1>7. \A n \in Nat : n \in T => n + 1 \in T
    <2> SUFFICES ASSUME NEW n \in Nat, There \/ Beside(v[n], w[n], c)
                 PROVE  There \/ Beside(v[n + 1], w[n + 1], c)
      <3>1. \A n \in Nat : n + 1 \in Nat
        OBVIOUS
      <3> HIDE DEF There
      <3>2. QED BY <3>1, Zenon
    <2> SUFFICES ASSUME ~There PROVE Beside(v[n + 1], w[n + 1], c)
      OBVIOUS
    <2>1. Beside(v[n], w[n], c)
      OBVIOUS
    <2>2. v[n].left # <<>> \/ v[n].error # "none"
      BY <2>1 DEF Over
    <2>3. QED BY <1>2, <1>3, <2>1, <2>2, FollowBeside
  <1>8. \A n \in Nat : n \in T
    <2> HIDE DEF T
    <2>1. QED BY <1>6, <1>7, Induction
  <1>9. There
    BY <1>1, <1>4, <1>8
  <1>10. QED BY <1>5, <1>9 DEF w

\* w is where v is, and may meet d links more.
Ahead(v, w, d) ==
  w.cur = v.cur /\ w.left = v.left /\ w.error = v.error /\ w.links = v.links + d

\* They go together, until v has met too many links.
LEMMA FollowAhead ==
  ASSUME NEW t, NEW v \in Walks, NEW w \in Walks, NEW d \in Nat, Ahead(v, w, d)
  PROVE  Ahead(Follow(t, v), Follow(t, w), d) \/ (d # 0 /\ Follow(t, v).error = "loop")
  <1>1. CASE Over(v)
    <2>1. Over(w)
      BY <1>1 DEF Over, Ahead
    <2>2. Follow(t, v) = v /\ Follow(t, w) = w
      BY <1>1, <2>1, FollowMoves
    <2>3. QED BY <2>2
  <1>2. CASE ~Over(v)
    <2> DEFINE x == Follow(t, v)
               y == Follow(t, w)
    <2>1. ~Over(w)
      BY <1>2 DEF Over, Ahead
    <2>2. Moves(t, v, x) /\ Moves(t, w, y)
      BY <1>2, <2>1, FollowMoves
    <2>3. w.cur = v.cur /\ w.left = v.left /\ w.links = v.links + d
      BY DEF Ahead
    <2>4. v.links \in Nat /\ w.links \in Nat
      BY DEF Walks
    <2> HIDE DEF x, y
    <2> SUFFICES ASSUME d = 0 \/ x.error # "loop" PROVE Ahead(x, y, d)
      BY DEF x, y
    <2>5. d = 0 => w.links = v.links
      BY <2>3, <2>4
    <2>6. w.links = 0 => v.links = 0
      BY <2>3, <2>4
    <2>7. y.error = x.error
      BY <2>2, <2>3, <2>5, <2>6 DEF Moves
    <2>8. y.cur = x.cur
      BY <2>2, <2>3, <2>7 DEF Moves
    <2>9. y.left = x.left
      BY <2>2, <2>3, <2>7 DEF Moves
    <2>10. y.links = x.links + d
      <3>1. \/ x.links = v.links - 1 /\ y.links = w.links - 1
            \/ x.links = v.links /\ y.links = w.links
        BY <2>2, <2>3, <2>7 DEF Moves
      <3>2. QED BY <2>3, <2>4, <3>1
    <2>11. QED BY <2>7, <2>8, <2>9, <2>10 DEF Ahead
  <1>3. QED BY <1>1, <1>2

\* Two walks that meet end together.
LEMMA WalksMeet ==
  ASSUME NEW t, IsTree(t), NEW p \in Seq(STRING), NEW q \in Seq(STRING),
         NEW a \in Nat, NEW b \in Nat, NEW d \in Nat,
         Ahead(Walk(t, p)[a], Walk(t, q)[b], d)
  PROVE  Ahead(End(t, p), End(t, q), d) \/ (d # 0 /\ End(t, p).error = "loop")
  <1> DEFINE v == Walk(t, p)
             w == Walk(t, q)
             N == Len(p) + LinkLimit * TargetLimit
             M == Len(q) + LinkLimit * TargetLimit
             Together(i) == Ahead(v[a + i], w[b + i], d) \/ (d # 0 /\ v[a + i].error = "loop")
             T == {i \in Nat : Together(i)}
  <1>1. N \in Nat /\ M \in Nat
    BY CanonicalizeSteps
  <1>2. \A n \in Nat : v[n] \in Walks /\ v[n + 1] = Follow(t, v[n])
    BY WalkSteps
  <1>3. \A n \in Nat : w[n] \in Walks /\ w[n + 1] = Follow(t, w[n])
    BY WalkSteps
  <1>4. End(t, p) = v[N] /\ \A i \in Nat : v[N + i] = v[N]
    BY <1>1, EndTyped, OverStays DEF End
  <1>5. End(t, q) = w[M] /\ \A i \in Nat : w[M + i] = w[M]
    BY <1>1, EndTyped, OverStays DEF End
  <1>0. Ahead(v[a], w[b], d)
    OBVIOUS
  <1> HIDE DEF v, w, N, M
  <1>6. 0 \in T
    <2>1. a + 0 = a /\ b + 0 = b
      OBVIOUS
    <2>2. QED BY <1>0, <2>1
  <1>7. ASSUME NEW i \in Nat, Together(i) PROVE Together(i + 1)
    <2>1. a + i \in Nat /\ b + i \in Nat /\ a + (i + 1) = (a + i) + 1 /\ b + (i + 1) = (b + i) + 1
      OBVIOUS
    <2> DEFINE x == v[a + i]
               y == w[b + i]
    <2>2. /\ x \in Walks /\ v[a + (i + 1)] = Follow(t, x)
          /\ y \in Walks /\ w[b + (i + 1)] = Follow(t, y)
      BY <1>2, <1>3, <2>1
    <2>3. Ahead(x, y, d) \/ (d # 0 /\ x.error = "loop")
      BY <1>7
    <2> HIDE DEF x, y
    <2>4. CASE Ahead(x, y, d)
      BY <2>2, <2>4, FollowAhead
    <2>5. CASE d # 0 /\ x.error = "loop"
      <3>1. Follow(t, x) = x
        BY <2>2, <2>5, FollowMoves DEF Over
      <3>2. QED BY <2>2, <2>5, <3>1
    <2>6. QED BY <2>3, <2>4, <2>5
  <1>8. \A i \in Nat : i \in T
    <2>1. \A i \in Nat : i \in T => i + 1 \in T
      <3> HIDE DEF Together
      <3>1. QED BY <1>7
    <2> HIDE DEF T
    <2>2. QED BY <1>6, <2>1, Induction
  <1>9. /\ N + M \in Nat /\ a + (N + M) = N + (a + M) /\ b + (N + M) = M + (b + N)
        /\ a + M \in Nat /\ b + N \in Nat
    BY <1>1
  <1>10. Together(N + M)
    BY <1>8, <1>9
  <1>11. v[a + (N + M)] = v[N] /\ w[b + (N + M)] = w[M]
    BY <1>4, <1>5, <1>9
  <1>12. QED BY <1>4, <1>5, <1>10, <1>11

\* A location without links is where its own walk ends, and no link is spent.
LEMMA CanonicalEnd ==
  ASSUME NEW t, IsTree(t), NEW loc, Canonical(t, loc)
  PROVE  /\ End(t, loc).cur = loc /\ End(t, loc).left = <<>>
         /\ End(t, loc).error = "none" /\ End(t, loc).links = LinkLimit
  BY CanonicalWalk DEF End

\* What one name more does to where a walk ends.
LEMMA AppendEnds ==
  ASSUME NEW t, IsTree(t), NEW names \in Seq(STRING), NEW c \in STRING
  PROVE  LET e == End(t, names)
             f == End(t, Append(names, c))
         IN  /\ e.error # "none" => f.error = e.error
             /\ e.error = "none" /\ At(t, e.cur).kind # "dir" => f.error = "not_a_directory"
             /\ e.error = "none" /\ At(t, e.cur).kind = "dir" /\ c = "." =>
                   f.error = "none" /\ f.cur = e.cur /\ f.links = e.links
  <1> DEFINE w == Walk(t, Append(names, c))
             e == End(t, names)
             f == End(t, Append(names, c))
  <1>1. Append(names, c) \in Seq(STRING)
    BY AppendProperties
  <1>2. \A n \in Nat : w[n] \in Walks /\ w[n + 1] = Follow(t, w[n])
    BY <1>1, WalkSteps
  <1>3. \A n \in Nat : Over(w[n]) => w[n] = f
    BY <1>1, OverIsEnd
  <1>4. PICK m \in Nat : Beside(e, w[m], c)
    BY AppendRuns
  <1>5. e \in Walks /\ Over(e)
    BY EndTyped
  <1> HIDE DEF w, e, f
  <1>6. e.error # "none" => f.error = e.error
    BY <1>3, <1>4 DEF Beside, Over
  <1>7. ASSUME e.error = "none"
        PROVE  /\ At(t, e.cur).kind # "dir" => f.error = "not_a_directory"
               /\ At(t, e.cur).kind = "dir" /\ c = "." =>
                     f.error = "none" /\ f.cur = e.cur /\ f.links = e.links
    <2> DEFINE x == w[m]
               y == w[m + 1]
    <2>1. e.left = <<>>
      BY <1>5, <1>7 DEF Over
    <2>2. x.cur = e.cur /\ x.links = e.links /\ x.error = "none" /\ x.left = Append(<<>>, c)
      BY <1>4, <1>7, <2>1 DEF Beside
    <2>3. Append(<<>>, c) = <<c>> /\ Head(<<c>>) = c /\ Tail(<<c>>) = <<>> /\ <<c>> # <<>>
      OBVIOUS
    <2>4. x \in Walks /\ y = Follow(t, x) /\ m + 1 \in Nat
      BY <1>2
    <2>5. y = w[m + 1]
      OBVIOUS
    <2> HIDE DEF x, y
    <2>6. ~Over(x) /\ Head(x.left) = c /\ Tail(x.left) = <<>>
      BY <2>2, <2>3 DEF Over
    <2>7. Moves(t, x, y)
      BY <2>4, <2>6, FollowMoves
    <2>8. Over(y) => y = f
      BY <1>3, <2>4, <2>5
    <2>9. CASE At(t, e.cur).kind # "dir"
      <3>1. y.error = "not_a_directory"
        BY <2>2, <2>7, <2>9 DEF Moves
      <3>2. QED BY <2>8, <2>9, <3>1 DEF Over
    <2>10. CASE At(t, e.cur).kind = "dir" /\ c = "."
      <3>1. y.error = "none" /\ y.cur = e.cur /\ y.links = e.links /\ y.left = <<>>
        BY <2>2, <2>6, <2>7, <2>10 DEF Moves
      <3>2. QED BY <2>8, <2>10, <3>1 DEF Over
    <2>11. QED BY <2>9, <2>10
  <1>8. QED BY <1>6, <1>7 DEF e, f

\* Where two walks end alike, they do with one name more.
LEMMA AppendAhead ==
  ASSUME NEW t, IsTree(t), NEW p \in Seq(STRING), NEW q \in Seq(STRING), NEW c \in STRING,
         NEW d \in Nat, Ahead(End(t, p), End(t, q), d)
  PROVE  \/ Ahead(End(t, Append(p, c)), End(t, Append(q, c)), d)
         \/ d # 0 /\ End(t, Append(p, c)).error = "loop"
  <1> DEFINE pc == Append(p, c)
             qc == Append(q, c)
  <1>1. pc \in Seq(STRING) /\ qc \in Seq(STRING)
    BY AppendProperties
  <1>2. PICK m \in Nat : Beside(End(t, p), Walk(t, pc)[m], c)
    BY AppendRuns
  <1>3. PICK n \in Nat : Beside(End(t, q), Walk(t, qc)[n], c)
    BY AppendRuns
  <1> HIDE DEF pc, qc
  <1>4. Ahead(Walk(t, pc)[m], Walk(t, qc)[n], d)
    BY <1>2, <1>3 DEF Ahead, Beside
  <1>5. Ahead(End(t, pc), End(t, qc), d) \/ (d # 0 /\ End(t, pc).error = "loop")
    BY <1>1, <1>4, WalksMeet
  <1>6. QED BY <1>5 DEF pc, qc

\* What canonicalize answers, from where the walk ends.
LEMMA TagOfEnd ==
  ASSUME NEW t, IsTree(t), NEW names \in Seq(STRING)
  PROVE  /\ canonicalize(t, names).tag = "ok" <=> End(t, names).error = "none"
         /\ canonicalize(t, names).tag = "ok" => canonicalize(t, names).loc = End(t, names).cur
         /\ canonicalize(t, names).tag = "not_found" <=> End(t, names).error = "not_found"
  <1> DEFINE e == End(t, names)
  <1>1. e \in Walks /\ canonicalize(t, names) = IF e.error = "none" THEN Ok(e.cur) ELSE Err(e.error)
    BY EndTyped
  <1> HIDE DEF e
  <1>2. e.error \in {"none", "not_found", "not_a_directory", "loop"}
    BY <1>1 DEF Walks
  <1>3. QED BY <1>1, <1>2 DEF Ok, Err, e

\* The system call sees a "." below a file; otherwise it makes no difference.
Alike(e, f) ==
  \/ e.error = "not_a_directory"
  \/ f.error = e.error /\ (e.error = "none" => f.cur = e.cur /\ f.links = e.links)

\* One name more keeps two ends alike, and "." adds nothing.
LEMMA AppendAlike ==
  ASSUME NEW t, IsTree(t), NEW p \in Seq(STRING), NEW q \in Seq(STRING), NEW c \in STRING,
         Alike(End(t, p), End(t, q))
  PROVE  /\ Alike(End(t, Append(p, c)), End(t, Append(q, c)))
         /\ c = "." => Alike(End(t, Append(p, c)), End(t, q))
  <1> DEFINE e == End(t, p)
             f == End(t, q)
             ec == End(t, Append(p, c))
             fc == End(t, Append(q, c))
  <1>1. /\ e.error # "none" => ec.error = e.error
        /\ e.error = "none" /\ At(t, e.cur).kind # "dir" => ec.error = "not_a_directory"
        /\ e.error = "none" /\ At(t, e.cur).kind = "dir" /\ c = "." =>
                   ec.error = "none" /\ ec.cur = e.cur /\ ec.links = e.links
    BY AppendEnds
  <1>2. f.error # "none" => fc.error = f.error
    BY AppendEnds
  <1>3. e \in Walks /\ f \in Walks /\ Over(e) /\ Over(f)
    BY EndTyped
  <1>4. e.error = "none" /\ f.error = "none" /\ f.cur = e.cur /\ f.links = e.links => Alike(ec, fc)
    <2> SUFFICES ASSUME e.error = "none", f.error = "none", f.cur = e.cur, f.links = e.links
                 PROVE  Alike(ec, fc)
      OBVIOUS
    <2>1. Ahead(e, f, 0)
      <3> HIDE DEF e, f
      <3>1. QED BY <1>3 DEF Ahead, Over, Walks
    <2>2. Ahead(ec, fc, 0)
      BY <2>1, AppendAhead
    <2>3. ec \in Walks
      BY EndTyped, AppendProperties
    <2> HIDE DEF e, f, ec, fc
    <2>4. QED BY <2>2, <2>3 DEF Ahead, Alike, Walks
  <1>5. Alike(e, f)
    OBVIOUS
  <1> HIDE DEF e, f, ec, fc
  <1>6. Alike(ec, fc)
    BY <1>1, <1>2, <1>4, <1>5 DEF Alike
  <1>7. c = "." => Alike(ec, f)
    BY <1>1, <1>5 DEF Alike
  <1>8. QED BY <1>6, <1>7 DEF e, f, ec, fc

\* Path::components drops "." where the system call sees it: both walks end alike,
\* or the one with the dots is below what is no directory.
LEMMA DotsEnd ==
  ASSUME NEW t, IsTree(t), NEW root \in Seq(STRING), NEW names \in Seq(STRING)
  PROVE  Alike(End(t, root \o names), End(t, root \o Components(names)))
  <1>1. PICK k \in Keeps(names, {"."}) : Components(names) = k[Len(names)]
    BY WithoutSteps DEF Components
  <1> DEFINE L == Len(names)
             X(i) == root \o SubSeq(names, 1, i)
             K(i) == root \o k[i]
             T == {i \in Nat : i <= L => Alike(End(t, X(i)), End(t, K(i)))}
  <1>2. L \in Nat /\ \A i \in 1..L : names[i] \in STRING
    BY LenProperties, ElementOfSeq
  <1>3. \A i \in 0..L : k[i] \in Seq(STRING)
    BY <1>1 DEF Keeps
  <1>4. \A i \in 0..L : SubSeq(names, 1, i) \in Seq(STRING)
    <2> SUFFICES ASSUME NEW i \in 0..L PROVE SubSeq(names, 1, i) \in Seq(STRING)
      OBVIOUS
    <2>1. \A j \in 1..i : names[j] \in STRING
      BY <1>2
    <2>2. QED BY <2>1, SubSeqProperties
  <1>5. \A i \in 0..L : X(i) \in Seq(STRING) /\ K(i) \in Seq(STRING)
    BY <1>3, <1>4, ConcatProperties
  <1>6. 0 \in T
    <2>1. SubSeq(names, 1, 0) = <<>> /\ k[0] = <<>>
      BY <1>1, SubSeqEmpty DEF Keeps
    <2>2. X(0) = K(0)
      BY <2>1
    <2> HIDE DEF X, K
    <2>3. Alike(End(t, X(0)), End(t, K(0)))
      BY <2>2 DEF Alike
    <2>4. QED BY <2>3
  <1>7. ASSUME NEW i \in Nat, i \in T, i + 1 <= L PROVE Alike(End(t, X(i + 1)), End(t, K(i + 1)))
    <2> DEFINE c == names[i + 1]
    <2>1. i \in 0..L /\ i + 1 \in 1..L /\ (i + 1) - 1 = i /\ c \in STRING
      BY <1>2, <1>7
    <2>2. Alike(End(t, X(i)), End(t, K(i)))
      <3>1. i <= L
        BY <1>2, <1>7
      <3> HIDE DEF X, K
      <3>2. QED BY <1>7, <3>1
    <2>3. X(i + 1) = Append(X(i), c)
      <3>1. SubSeq(names, 1, i + 1) = SubSeq(names, 1, i) \o <<c>>
        <4>1. 1 \in 1..Len(names) /\ i + 1 \in 1..Len(names)
          BY <1>2, <2>1
        <4>2. QED BY <2>1, <4>1, SubSeqRecursiveSecond
      <3>2. SubSeq(names, 1, i) \in Seq(STRING)
        BY <1>4, <2>1
      <3>3. SubSeq(names, 1, i + 1) = Append(SubSeq(names, 1, i), c)
        BY <2>1, <3>1, <3>2, AppendIsConcat
      <3>4. root \o Append(SubSeq(names, 1, i), c) = Append(X(i), c)
        BY <2>1, <3>2, ConcatAppend
      <3>5. QED BY <3>3, <3>4
    <2>4. k[i + 1] = IF c = "." THEN k[i] ELSE Append(k[i], c)
      BY <1>1, <2>1 DEF Keeps
    <2>5. k[i] \in Seq(STRING) /\ X(i) \in Seq(STRING) /\ K(i) \in Seq(STRING)
      BY <1>3, <1>5, <2>1
    <2>6. c # "." => K(i + 1) = Append(K(i), c)
      BY <2>1, <2>4, <2>5, ConcatAppend
    <2>7. c = "." => K(i + 1) = K(i)
      BY <2>4
    <2> HIDE DEF X, K, c
    <2>8. /\ Alike(End(t, Append(X(i), c)), End(t, Append(K(i), c)))
          /\ c = "." => Alike(End(t, Append(X(i), c)), End(t, K(i)))
      BY <2>1, <2>2, <2>5, AppendAlike
    <2>9. QED BY <2>3, <2>6, <2>7, <2>8
  <1>8. \A i \in Nat : i \in T
    <2>1. \A i \in Nat : i \in T => i + 1 \in T
      <3> HIDE DEF X, K
      <3>1. QED BY <1>7
    <2> HIDE DEF T
    <2>2. QED BY <1>6, <2>1, Induction
  <1>9. Alike(End(t, X(L)), End(t, K(L)))
    <2> HIDE DEF X, K
    <2>1. QED BY <1>2, <1>8
  <1>10. SubSeq(names, 1, L) = names
    BY SubSeqFull
  <1>11. QED BY <1>1, <1>9, <1>10

\* No walk gains links.
LEMMA LinksLimited ==
  ASSUME NEW t, IsTree(t), NEW names \in Seq(STRING)
  PROVE  End(t, names).links <= LinkLimit
  <1> DEFINE w == Walk(t, names)
             T == {n \in Nat : w[n].links <= LinkLimit}
  <1>1. /\ w[0] = Start(names)
        /\ \A n \in Nat : w[n] \in Walks /\ w[n + 1] = Follow(t, w[n])
    BY WalkSteps
  <1>2. LinkLimit \in Nat
    BY RootsGiven
  <1> HIDE DEF w
  <1>3. 0 \in T
    <2>1. w[0].links = LinkLimit
      BY <1>1 DEF Start
    <2>2. QED BY <1>2, <2>1
  <1>4. \A n \in Nat : n \in T => n + 1 \in T
    <2> SUFFICES ASSUME NEW n \in Nat, w[n].links <= LinkLimit
                 PROVE  w[n + 1].links <= LinkLimit
      OBVIOUS
    <2> DEFINE v == w[n]
    <2>1. v \in Walks /\ w[n + 1] = Follow(t, v)
      BY <1>1
    <2>2. v.links \in Nat /\ v.links <= LinkLimit
      BY <2>1 DEF Walks
    <2> HIDE DEF v
    <2>3. Follow(t, v).links = v.links \/ Follow(t, v).links = v.links - 1
      BY <2>1, FollowMoves DEF Moves
    <2>4. QED BY <1>2, <2>1, <2>2, <2>3
  <1>5. \A n \in Nat : n \in T
    <2> HIDE DEF T
    <2>1. QED BY <1>3, <1>4, Induction
  <1>6. Len(names) + LinkLimit * TargetLimit \in Nat
    BY CanonicalizeSteps
  <1>7. QED BY <1>5, <1>6 DEF End, w

-----------------------------------------------------------------------------
(* What resolve and resolve_no_follow answer. *)

\* An entry is in the directory it was put in.
LEMMA UpAppend ==
  ASSUME NEW loc \in Seq(STRING), NEW name \in STRING
  PROVE  Up(Append(loc, name)) = loc /\ Append(loc, name) # <<>>
  <1>1. Append(loc, name) # <<>>
    BY AppendProperties
  <1>2. Front(Append(loc, name)) = loc
    BY PrefixOfAppend
  <1>3. QED BY <1>1, <1>2 DEF Up

\* resolve answers with a leaf below an existing parent only where the leaf does not
\* exist, or is a link that leads nowhere: below a directory, and not found.
LEMMA LeafMissing ==
  ASSUME NEW t, IsTree(t), NEW root \in Seq(STRING), NEW names \in Seq(STRING),
         canonicalize(t, root \o names).tag = "not_found",
         canonicalize(t, Front(root \o Components(names))).tag = "ok"
  PROVE  LET joined == root \o Components(names)
             parent == canonicalize(t, Front(joined))
         IN  /\ At(t, parent.loc).kind = "dir"
             /\ joined # <<>> /\ Last(joined) # "."
             /\ canonicalize(t, Append(parent.loc, Last(joined))).tag = "not_found"
  <1> DEFINE joined == root \o Components(names)
             p == Front(joined)
             leaf == Last(joined)
             loc == canonicalize(t, p).loc
             e == End(t, p)
             f == End(t, joined)
  <1>1. root \o names \in Seq(STRING) /\ joined \in Seq(STRING)
    BY ComponentsTyped, ConcatProperties
  <1>2. f.error = "not_found"
    <2>1. End(t, root \o names).error = "not_found"
      BY <1>1, TagOfEnd
    <2>2. Alike(End(t, root \o names), f)
      BY DotsEnd
    <2> HIDE DEF f
    <2>3. QED BY <2>1, <2>2 DEF Alike
  <1>3. joined # <<>>
    <2>1. End(t, <<>>).error = "none"
      BY CanonicalTop, CanonicalEnd
    <2> HIDE DEF joined
    <2>2. QED BY <1>2, <2>1
  <1>4. p \in Seq(STRING) /\ leaf \in STRING /\ joined = Append(p, leaf)
    BY <1>1, <1>3, FrontLast
  <1>5. canonicalize(t, p).tag = "ok"
    OBVIOUS
  <1> HIDE DEF joined, p, leaf
  <1>6. e.error = "none" /\ loc = e.cur /\ e \in Walks /\ Over(e) /\ Canonical(t, loc)
    BY <1>4, <1>5, TagOfEnd, EndTyped, FoundIsCanonical
  <1>7. /\ e.error # "none" => f.error = e.error
        /\ e.error = "none" /\ At(t, e.cur).kind # "dir" => f.error = "not_a_directory"
        /\ e.error = "none" /\ At(t, e.cur).kind = "dir" /\ leaf = "." => f.error = "none"
    BY <1>4, AppendEnds
  <1> HIDE DEF f, e
  <1>8. At(t, loc).kind = "dir" /\ leaf # "."
    BY <1>2, <1>6, <1>7
  <1> HIDE DEF loc
  <1>9. /\ End(t, loc).cur = loc /\ End(t, loc).left = <<>>
        /\ End(t, loc).error = "none" /\ End(t, loc).links = LinkLimit
    BY <1>6, CanonicalEnd
  <1>10. e.links \in Nat /\ LinkLimit \in Nat /\ loc \in Seq(STRING)
    BY <1>6, RootsGiven DEF Walks, Canonical
  <1>11. e.links <= LinkLimit
    BY <1>4, LinksLimited DEF e
  <1> DEFINE d == LinkLimit - e.links
  <1>12. d \in Nat /\ LinkLimit = e.links + d
    BY <1>10, <1>11
  <1> HIDE DEF d
  <1>13. Ahead(e, End(t, loc), d)
    BY <1>6, <1>9, <1>12 DEF Ahead, Over
  <1>14. Ahead(f, End(t, Append(loc, leaf)), d) \/ (d # 0 /\ f.error = "loop")
    BY <1>4, <1>10, <1>12, <1>13, AppendAhead DEF e, f
  <1>15. End(t, Append(loc, leaf)).error = "not_found"
    BY <1>2, <1>14 DEF Ahead
  <1>16. Append(loc, leaf) \in Seq(STRING)
    BY <1>4, <1>10, AppendProperties
  <1>17. canonicalize(t, Append(loc, leaf)).tag = "not_found"
    BY <1>15, <1>16, TagOfEnd
  <1>18. QED BY <1>3, <1>8, <1>17 DEF joined, p, leaf, loc

\* What is kept is among the names that are not dropped.
LEMMA WithoutNames ==
  ASSUME NEW S, NEW names \in Seq(STRING), NEW drop,
         \A i \in 1..Len(names) : names[i] \notin drop => names[i] \in S
  PROVE  Without(names, drop) \in Seq(S)
  <1>1. PICK k \in Keeps(names, drop) : Without(names, drop) = k[Len(names)]
    BY WithoutSteps
  <1> DEFINE L == Len(names)
             T == {n \in Nat : n <= L => k[n] \in Seq(S)}
  <1>2. L \in Nat
    BY LenProperties
  <1>3. 0 \in T
    BY <1>1 DEF Keeps
  <1>4. ASSUME NEW n \in Nat, n \in T, n + 1 <= L PROVE k[n + 1] \in Seq(S)
    <2>1. n + 1 \in 1..L /\ (n + 1) - 1 = n /\ n <= L
      BY <1>2, <1>4
    <2>2. k[n] \in Seq(S)
      BY <1>4, <2>1
    <2>3. k[n + 1] = IF names[n + 1] \in drop THEN k[n] ELSE Append(k[n], names[n + 1])
      BY <1>1, <2>1 DEF Keeps
    <2>4. names[n + 1] \notin drop => names[n + 1] \in S
      BY <2>1
    <2>5. QED BY <2>2, <2>3, <2>4, AppendProperties
  <1>5. \A n \in Nat : n \in T
    <2>1. \A n \in Nat : n \in T => n + 1 \in T
      BY <1>4
    <2> HIDE DEF T
    <2>2. QED BY <1>3, <2>1, Induction
  <1>6. QED BY <1>1, <1>2, <1>5

\* What the components of a request that is looked at are made of.
Parts == (DOMAIN Spelling \cup {".."}) \ {"."}

\* The components of a request with a shape resolve looks at are names or "..".
LEMMA RequestParts ==
  ASSUME NEW path \in Requests, check_path_shape(path)
  PROVE  path \in Seq(STRING) /\ Components(path) \in Seq(Parts)
  <1>1. path \in Seq(STRING) /\ path # <<>> /\ Head(path) # "/"
    BY NamesGiven DEF check_path_shape
  <1>2. path[1] # "/"
    BY <1>1
  <1>3. \A i \in 1..Len(path) : path[i] \notin {"."} => path[i] \in Parts
    BY <1>2, NamesSpelled DEF Parts
  <1>4. QED BY <1>1, <1>3, WithoutNames DEF Components

\* A location without links is in a directory.
LEMMA CanonicalUp ==
  ASSUME NEW t, NEW loc, Canonical(t, loc), loc # <<>>
  PROVE  At(t, Up(loc)).kind = "dir"
  <1>1. loc \in Seq(STRING) /\ Len(loc) - 1 \in Nat /\ Len(loc) \in Nat
    BY PrefixOfFront, LenProperties DEF Canonical
  <1>2. Up(loc) = SubSeq(loc, 1, Len(loc) - 1)
    BY DEF Up, Front
  <1>3. CASE Len(loc) - 1 = 0
    <2>1. SubSeq(loc, 1, 0) = <<>>
      BY SubSeqEmpty
    <2>2. Up(loc) = <<>>
      BY <1>2, <1>3, <2>1
    <2>3. QED BY <2>2 DEF At, Dir
  <1>4. CASE Len(loc) - 1 # 0
    <2> DEFINE m == Len(loc) - 1
    <2>1. m \in 1..m
      <3>1. m \in Nat /\ m # 0
        BY <1>1, <1>4
      <3> HIDE DEF m
      <3>2. QED BY <3>1
    <2>2. QED BY <1>2, <2>1 DEF Canonical
  <1>5. QED BY <1>3, <1>4

\* A location without links has only names that are in the tree.
LEMMA CanonicalSpelled ==
  ASSUME NEW t \in Trees, NEW loc, Canonical(t, loc)
  PROVE  loc \in Seq(DOMAIN Spelling)
  <1>1. CASE loc = <<>>
    BY <1>1
  <1>2. CASE loc # <<>>
    <2>1. loc \in Seq(STRING) /\ Len(loc) \in 1..Len(loc)
      BY <1>2, EmptySeq, LenProperties DEF Canonical
    <2>2. SubSeq(loc, 1, Len(loc)) = loc
      BY <2>1, SubSeqFull
    <2>3. At(t, loc).kind # "absent"
      BY <2>1, <2>2 DEF Canonical
    <2>4. loc \in DOMAIN t
      BY <1>2, <2>3 DEF At, Absent
    <2>5. QED BY <2>4, NamesSpelled
  <1>3. QED BY <1>1, <1>2

\* One round of resolve answers with what is found, or with a leaf of what is.
LEMMA ResolveUnderCases ==
  ASSUME NEW t, NEW root, NEW names, ResolveUnder(t, root, names).tag = "ok"
  PROVE  LET joined == root \o Components(names)
             found == canonicalize(t, root \o names)
             parent == canonicalize(t, Front(joined))
         IN  \/ found.tag = "ok" /\ ResolveUnder(t, root, names) = found
             \/ /\ found.tag = "not_found" /\ parent.tag = "ok" /\ Last(joined) # ".."
                /\ ResolveUnder(t, root, names) = Ok(Append(parent.loc, Last(joined)))
  BY DEF ResolveUnder, LeafUnder, Err, Ok, classify_missing_parent

\* What resolve answers: a location without links or one where nothing is found, in
\* whole names, in a directory.
LEMMA ResolveGives ==
  ASSUME NEW t \in Trees, NEW path \in Requests, resolve(t, path).tag = "ok"
  PROVE  LET loc == resolve(t, path).loc
         IN  /\ loc \in Seq(STRING) /\ loc \in Seq(DOMAIN Spelling)
             /\ loc # <<>> => At(t, Up(loc)).kind = "dir"
             /\ Canonical(t, loc) \/ canonicalize(t, loc).tag = "not_found"
  <1> DEFINE replies == [i \in DOMAIN Roots |-> ResolveUnder(t, Roots[i], path)]
             got == resolve(t, path)
  <1>1. IsTree(t) /\ check_path_shape(path)
    BY NamesGiven DEF resolve, Err
  <1>2. path \in Seq(STRING) /\ Components(path) \in Seq(Parts) /\ Components(path) \in Seq(STRING)
    BY <1>1, RequestParts, ComponentsTyped
  <1>3. got = FirstReply(replies)
    BY <1>1 DEF resolve
  <1>4. PICK i \in DOMAIN Roots : got = ResolveUnder(t, Roots[i], path)
    <2>1. DOMAIN replies \subseteq Nat /\ FirstReply(replies).tag = "ok"
      BY <1>3, RootsTyped
    <2>2. PICK i \in DOMAIN replies : FirstReply(replies) = replies[i]
      <3> HIDE DEF replies
      <3>1. QED BY <2>1, FirstReplyIsOne
    <2>3. QED BY <1>3, <2>2
  <1> DEFINE root == Roots[i]
             joined == root \o Components(path)
             found == canonicalize(t, root \o path)
             parent == canonicalize(t, Front(joined))
             leaf == Last(joined)
  <1>5. got.tag = "ok"
    OBVIOUS
  <1> HIDE DEF got
  <1>6. root \in Seq(STRING) /\ root \in Seq(DOMAIN Spelling)
    BY RootsTyped, NamesSpelled
  <1>7. root \o path \in Seq(STRING) /\ joined \in Seq(STRING) /\ Front(joined) \in Seq(STRING)
    BY <1>2, <1>6, ConcatProperties, FrontTyped
  <1>8. \/ found.tag = "ok" /\ got = found
        \/ /\ found.tag = "not_found" /\ parent.tag = "ok" /\ leaf # ".."
           /\ got = Ok(Append(parent.loc, leaf))
    <2>1. ResolveUnder(t, root, path).tag = "ok"
      BY <1>4, <1>5
    <2>2. QED BY <1>4, <2>1, ResolveUnderCases
  <1>9. CASE found.tag = "ok" /\ got = found
    <2>1. Canonical(t, got.loc)
      BY <1>1, <1>7, <1>9, FoundIsCanonical
    <2>2. QED BY <2>1, CanonicalUp, CanonicalSpelled DEF Canonical, got
  <1>10. CASE /\ found.tag = "not_found" /\ parent.tag = "ok" /\ leaf # ".."
              /\ got = Ok(Append(parent.loc, leaf))
    <2>1. /\ At(t, parent.loc).kind = "dir" /\ joined # <<>> /\ leaf # "."
          /\ canonicalize(t, Append(parent.loc, leaf)).tag = "not_found"
      BY <1>1, <1>2, <1>6, <1>10, LeafMissing
    <2>2. Canonical(t, parent.loc) /\ parent.loc \in Seq(STRING)
      BY <1>1, <1>7, <1>10, FoundIsCanonical DEF Canonical
    <2>3. parent.loc \in Seq(DOMAIN Spelling)
      BY <2>2, CanonicalSpelled
    <2>4. leaf \in STRING
      BY <1>7, <2>1, FrontLast
    <2>5. leaf \in DOMAIN Spelling
      <3> DEFINE S == DOMAIN Spelling \cup {"."} \cup {".."}
      <3>1. joined \in Seq(S)
        <4>1. root \in Seq(S) /\ Components(path) \in Seq(S)
          <5>1. DOMAIN Spelling \subseteq S /\ Parts \subseteq S
            BY DEF Parts
          <5> HIDE DEF S
          <5>2. QED BY <1>2, <1>6, <5>1, SeqMonotonic
        <4> HIDE DEF S, root
        <4>2. QED BY <4>1, ConcatProperties
      <3>2. leaf \in S
        <4> HIDE DEF S, joined
        <4>1. QED BY <2>1, <3>1, FrontLast
      <3>3. QED BY <1>10, <2>1, <3>2
    <2> HIDE DEF parent, leaf
    <2>6. got.loc = Append(parent.loc, leaf)
      BY <1>10 DEF Ok
    <2>7. got.loc \in Seq(STRING) /\ got.loc \in Seq(DOMAIN Spelling)
      BY <2>2, <2>3, <2>4, <2>5, <2>6, AppendProperties
    <2>8. Up(got.loc) = parent.loc
      BY <2>2, <2>4, <2>6, UpAppend
    <2>9. QED BY <2>1, <2>6, <2>7, <2>8 DEF got
  <1>11. QED BY <1>8, <1>9, <1>10

\* What resolve_no_follow answers: an entry, in whole names.
LEMMA NoFollowGives ==
  ASSUME NEW t \in Trees, NEW path \in Requests, resolve_no_follow(t, path).tag = "ok"
  PROVE  LET loc == resolve_no_follow(t, path).loc
         IN  /\ loc \in Seq(STRING) /\ loc # <<>>
             /\ loc \in Seq(DOMAIN Spelling)
  <1> DEFINE comps == Components(path)
             replies == [i \in DOMAIN Roots |-> ResolveLeafUnder(t, Roots[i], comps)]
             got == resolve_no_follow(t, path)
  <1>1. IsTree(t) /\ check_path_shape(path) /\ comps # <<>> /\ Last(comps) # ".."
    BY NamesGiven DEF resolve_no_follow, Err
  <1>2. comps \in Seq(Parts) /\ comps \in Seq(STRING)
    BY <1>1, RequestParts, ComponentsTyped
  <1>3. got = FirstReply(replies)
    BY <1>1 DEF resolve_no_follow
  <1> HIDE DEF comps
  <1>4. PICK i \in DOMAIN Roots : got = ResolveLeafUnder(t, Roots[i], comps)
    <2>1. DOMAIN replies \subseteq Nat /\ FirstReply(replies).tag = "ok"
      BY <1>3, RootsTyped
    <2>2. PICK i \in DOMAIN replies : FirstReply(replies) = replies[i]
      <3> HIDE DEF replies
      <3>1. QED BY <2>1, FirstReplyIsOne
    <2>3. QED BY <1>3, <2>2
  <1> DEFINE parent == canonicalize(t, Roots[i] \o Front(comps))
             leaf == Last(comps)
  <1>5. got.tag = "ok"
    OBVIOUS
  <1>6. parent.tag = "ok" /\ got = Ok(Append(parent.loc, leaf))
    BY <1>4, <1>5 DEF ResolveLeafUnder, LeafUnder, Err, Ok
  <1>7. Roots[i] \o Front(comps) \in Seq(STRING)
    BY <1>2, RootsTyped, ConcatProperties, FrontTyped
  <1>8. Canonical(t, parent.loc) /\ parent.loc \in Seq(STRING)
    BY <1>1, <1>6, <1>7, FoundIsCanonical DEF Canonical
  <1>9. parent.loc \in Seq(DOMAIN Spelling)
    BY <1>8, CanonicalSpelled
  <1>10. leaf \in STRING /\ leaf \in Parts
    BY <1>1, <1>2, FrontLast
  <1>11. leaf \in DOMAIN Spelling
    BY <1>1, <1>10 DEF Parts
  <1> HIDE DEF parent, leaf, got
  <1>12. got.loc = Append(parent.loc, leaf)
    BY <1>6 DEF Ok
  <1>13. got.loc \in Seq(STRING) /\ got.loc \in Seq(DOMAIN Spelling) /\ got.loc # <<>>
    BY <1>8, <1>9, <1>10, <1>11, <1>12, AppendProperties
  <1>14. QED BY <1>13 DEF got

-----------------------------------------------------------------------------
(* What the operations and the handlers do when they succeed. *)

\* A series of early returns is passed when none of them returns.
LEMMA EarlyOk ==
  ASSUME NEW returns, DOMAIN returns \subseteq Nat, NEW answer, Early(returns, answer).tag = "ok"
  PROVE  /\ Early(returns, answer) = answer
         /\ \A i \in DOMAIN returns : returns[i].tag = "ok"
  <1> DEFINE failed == {i \in DOMAIN returns : returns[i].tag # "ok"}
  <1>1. Early(returns, answer) = IF failed = {} THEN answer ELSE returns[Min(failed)]
    BY DEF Early
  <1>2. failed = {}
    <2> SUFFICES ASSUME failed # {} PROVE FALSE
      OBVIOUS
    <2>1. failed \subseteq Nat
      OBVIOUS
    <2>2. Min(failed) \in failed
      <3> HIDE DEF failed
      <3>1. QED BY <2>1, LeastIsIn
    <2>3. QED BY <1>1, <2>2
  <1>3. QED BY <1>1, <1>2

\* The same of a single early return.
LEMMA EarlyOne ==
  ASSUME NEW a, NEW answer, Early(<<a>>, answer).tag = "ok"
  PROVE  Early(<<a>>, answer) = answer /\ a.tag = "ok"
  <1> DEFINE returns == <<a>>
  <1>1. DOMAIN returns \subseteq Nat /\ 1 \in DOMAIN returns /\ returns[1] = a
    OBVIOUS
  <1> HIDE DEF returns
  <1>2. QED BY <1>1, EarlyOk DEF returns

\* What a request has when it is admitted.
LEMMA AdmitOk ==
  ASSUME NEW kind, NEW found, Admit(kind, found).tag = "ok"
  PROVE  /\ Admit(kind, found) = found /\ found.tag = "ok"
         /\ relativize(found.loc).tag = "ok"
         /\ check_fs_grant(kind, relativize(found.loc).loc)
  <1> DEFINE a == Require(~deny_unknown_principal, "forbidden")
             c == relativize(found.loc)
             d == Require(check_fs_grant(kind, relativize(found.loc).loc), "forbidden")
             returns == <<a, found, c, d>>
  <1>1. Admit(kind, found) = Early(returns, found)
    BY DEF Admit
  <1>2. d.tag = "ok" => check_fs_grant(kind, relativize(found.loc).loc)
    BY DEF Require, Ok, Err
  <1> HIDE DEF a, c, d
  <1>3. /\ DOMAIN returns \subseteq Nat /\ 2 \in DOMAIN returns /\ returns[2] = found
        /\ 3 \in DOMAIN returns /\ returns[3] = c /\ 4 \in DOMAIN returns /\ returns[4] = d
    OBVIOUS
  <1> HIDE DEF returns
  <1>4. Early(returns, found) = found /\ \A i \in DOMAIN returns : returns[i].tag = "ok"
    BY <1>1, <1>3, EarlyOk
  <1>5. QED BY <1>1, <1>2, <1>3, <1>4 DEF c

\* ? on a result that is there.
LEMMA FoundOk ==
  ASSUME NEW kind, Found(kind).tag = "ok" PROVE kind # "not_found" /\ kind # "io"
  BY DEF Found, Require, Ok, Err

\* read_file succeeds only where something is, links followed.
LEMMA ReadFileOk ==
  ASSUME NEW got, read_file(got).tag = "ok"
  PROVE  read_file(got) = got /\ got.tag = "ok" /\ Stat(tree, got.loc) \notin {"not_found", "io"}
  <1> DEFINE kind == Stat(tree, got.loc)
             a == Found(kind)
             b == Require(kind # "dir", "is_a_directory")
             c == Require(kind # "big", "too_large")
             returns == <<got, a, b, c>>
  <1>1. read_file(got) = Early(returns, got)
    BY DEF read_file
  <1>2. a.tag = "ok" => kind # "not_found" /\ kind # "io"
    BY FoundOk
  <1> HIDE DEF a, b, c, kind
  <1>3. DOMAIN returns \subseteq Nat /\ {1, 2} \subseteq DOMAIN returns /\ returns[1] = got /\ returns[2] = a
    OBVIOUS
  <1> HIDE DEF returns
  <1>4. Early(returns, got) = got /\ \A i \in DOMAIN returns : returns[i].tag = "ok"
    BY <1>1, <1>3, EarlyOk
  <1>5. QED BY <1>1, <1>2, <1>3, <1>4 DEF kind

\* list_directory succeeds only where something is, links followed.
LEMMA ListDirectoryOk ==
  ASSUME NEW got, list_directory(got).tag = "ok"
  PROVE  list_directory(got) = got /\ got.tag = "ok" /\ Stat(tree, got.loc) \notin {"not_found", "io"}
  <1> DEFINE kind == Stat(tree, got.loc)
             a == Found(kind)
             b == Require(kind = "dir", "not_a_directory")
             returns == <<got, a, b>>
  <1>1. list_directory(got) = Early(returns, got)
    BY DEF list_directory
  <1>2. a.tag = "ok" => kind # "not_found" /\ kind # "io"
    BY FoundOk
  <1> HIDE DEF a, b, kind
  <1>3. DOMAIN returns \subseteq Nat /\ {1, 2} \subseteq DOMAIN returns /\ returns[1] = got /\ returns[2] = a
    OBVIOUS
  <1> HIDE DEF returns
  <1>4. Early(returns, got) = got /\ \A i \in DOMAIN returns : returns[i].tag = "ok"
    BY <1>1, <1>3, EarlyOk
  <1>5. QED BY <1>1, <1>2, <1>3, <1>4 DEF kind

\* file_metadata succeeds only where something is, links followed.
LEMMA FileMetadataOk ==
  ASSUME NEW got, file_metadata(got).tag = "ok"
  PROVE  file_metadata(got) = got /\ got.tag = "ok" /\ Stat(tree, got.loc) \notin {"not_found", "io"}
  <1> DEFINE kind == Stat(tree, got.loc)
             a == Found(kind)
             returns == <<got, a>>
  <1>1. file_metadata(got) = Early(returns, got)
    BY DEF file_metadata
  <1>2. a.tag = "ok" => kind # "not_found" /\ kind # "io"
    BY FoundOk
  <1> HIDE DEF a, kind
  <1>3. DOMAIN returns \subseteq Nat /\ {1, 2} \subseteq DOMAIN returns /\ returns[1] = got /\ returns[2] = a
    OBVIOUS
  <1> HIDE DEF returns
  <1>4. Early(returns, got) = got /\ \A i \in DOMAIN returns : returns[i].tag = "ok"
    BY <1>1, <1>3, EarlyOk
  <1>5. QED BY <1>1, <1>2, <1>3, <1>4 DEF kind

\* write_file succeeds only where no directory is.
LEMMA WriteFileOk ==
  ASSUME NEW got, NEW overwrite, write_file(got, overwrite).tag = "ok"
  PROVE  got.tag = "ok" /\ At(tree, got.loc).kind # "dir"
  <1> DEFINE kind == At(tree, got.loc).kind
             a == Require(kind # "dir", "is_a_directory")
             b == Require(kind = "absent" \/ overwrite, "conflict")
             returns == <<got, a, b>>
  <1>1. write_file(got, overwrite) = Early(returns, got)
    BY DEF write_file
  <1>2. a.tag = "ok" => kind # "dir"
    BY DEF Require, Ok, Err
  <1> HIDE DEF a, b, kind
  <1>3. DOMAIN returns \subseteq Nat /\ {1, 2} \subseteq DOMAIN returns /\ returns[1] = got /\ returns[2] = a
    OBVIOUS
  <1> HIDE DEF returns
  <1>4. \A i \in DOMAIN returns : returns[i].tag = "ok"
    BY <1>1, <1>3, EarlyOk
  <1>5. QED BY <1>2, <1>3, <1>4 DEF kind

\* delete_path succeeds only on an entry of a directory that has nothing below it.
LEMMA DeletePathOk ==
  ASSUME NEW got, delete_path(got).tag = "ok"
  PROVE  /\ got.tag = "ok" /\ At(tree, Up(got.loc)) = Dir
         /\ At(tree, got.loc).kind = "dir" => Empty(tree, got.loc)
  <1> DEFINE kind == Lstat(tree, got.loc)
             a == Require(kind # "absent", "not_found")
             b == Require(kind # "io", "io")
             c == Require(kind = "dir" => Empty(tree, got.loc), "conflict")
             returns == <<got, a, b, c>>
  <1>1. delete_path(got) = Early(returns, got)
    BY DEF delete_path
  <1>2. (b.tag = "ok" => kind # "io") /\ (c.tag = "ok" => (kind = "dir" => Empty(tree, got.loc)))
    BY DEF Require, Ok, Err
  <1>3. kind = IF At(tree, Up(got.loc)) = Dir THEN At(tree, got.loc).kind ELSE "io"
    BY DEF Lstat
  <1> HIDE DEF a, b, c, kind
  <1>4. /\ DOMAIN returns \subseteq Nat /\ {1, 3, 4} \subseteq DOMAIN returns
        /\ returns[1] = got /\ returns[3] = b /\ returns[4] = c
    OBVIOUS
  <1> HIDE DEF returns
  <1>5. \A i \in DOMAIN returns : returns[i].tag = "ok"
    BY <1>1, <1>4, EarlyOk
  <1>6. QED BY <1>2, <1>3, <1>4, <1>5

\* rename_path succeeds only from an entry to a free place in a directory, not below
\* the entry.
LEMMA RenamePathOk ==
  ASSUME NEW from, NEW to, rename_path(from, to).tag = "ok"
  PROVE  /\ from.tag = "ok" /\ to.tag = "ok" /\ from.loc # to.loc
         /\ ~IsStrictPrefix(from.loc, to.loc)
         /\ At(tree, from.loc).kind # "absent"
         /\ At(tree, Up(to.loc)) = Dir /\ At(tree, to.loc).kind = "absent"
  <1> DEFINE a == Require(from.loc # to.loc, "invalid")
             b == Require(Lstat(tree, from.loc) # "absent", "not_found")
             c == Require(Lstat(tree, from.loc) # "io", "io")
             d == Require(Lstat(tree, to.loc) \in {"absent", "io"}, "conflict")
             e == Require(Lstat(tree, to.loc) = "absent", "io")
             f == Require(~IsStrictPrefix(from.loc, to.loc), "io")
             returns == <<from, to, a, b, c, d, e, f>>
  <1>1. rename_path(from, to) = Early(returns, to)
    BY DEF rename_path
  <1>2. /\ a.tag = "ok" => from.loc # to.loc
        /\ b.tag = "ok" => Lstat(tree, from.loc) # "absent"
        /\ c.tag = "ok" => Lstat(tree, from.loc) # "io"
        /\ e.tag = "ok" => Lstat(tree, to.loc) = "absent"
        /\ f.tag = "ok" => ~IsStrictPrefix(from.loc, to.loc)
    BY DEF Require, Ok, Err
  <1>3. \A x : Lstat(tree, x) = IF At(tree, Up(x)) = Dir THEN At(tree, x).kind ELSE "io"
    BY DEF Lstat
  <1> HIDE DEF a, b, c, d, e, f
  <1>4. /\ DOMAIN returns \subseteq Nat /\ {1, 2, 3, 4, 5, 7, 8} \subseteq DOMAIN returns
        /\ returns[1] = from /\ returns[2] = to /\ returns[3] = a /\ returns[4] = b
        /\ returns[5] = c /\ returns[7] = e /\ returns[8] = f
    OBVIOUS
  <1> HIDE DEF returns
  <1>5. \A i \in DOMAIN returns : returns[i].tag = "ok"
    BY <1>1, <1>4, EarlyOk
  <1>6. /\ from.tag = "ok" /\ to.tag = "ok" /\ a.tag = "ok" /\ b.tag = "ok"
        /\ c.tag = "ok" /\ e.tag = "ok" /\ f.tag = "ok"
    BY <1>4, <1>5
  <1>7. QED BY <1>2, <1>3, <1>6

\* Locations in whole names.
Places == {loc \in Seq(STRING) : loc \in Seq(DOMAIN Spelling)}

\* The caller is admitted to a location.
Granted(kind, loc) ==
  relativize(loc).tag = "ok" /\ check_fs_grant(kind, relativize(loc).loc)

\* The two types of a place.
LEMMA PlacesTyped == \A loc \in Places : loc \in Seq(STRING) /\ loc \in Seq(DOMAIN Spelling)
  BY DEF Places

\* What an admitted request resolves to when all links are followed.
LEMMA FollowingOk ==
  ASSUME tree \in Trees, NEW path \in Requests, NEW kind, Following(kind, path).tag = "ok"
  PROVE  LET loc == Following(kind, path).loc
         IN  /\ loc \in Places /\ Granted(kind, loc)
             /\ loc # <<>> => At(tree, Up(loc)).kind = "dir"
             /\ Canonical(tree, loc) \/ canonicalize(tree, loc).tag = "not_found"
  <1> DEFINE found == resolve(tree, path)
             loc == found.loc
  <1>1. /\ Following(kind, path) = found /\ found.tag = "ok"
        /\ relativize(found.loc).tag = "ok" /\ check_fs_grant(kind, relativize(found.loc).loc)
    <2> HIDE DEF found
    <2>1. Following(kind, path) = Admit(kind, found)
      BY DEF Following, found
    <2>2. QED BY <2>1, AdmitOk
  <1>2. /\ loc \in Seq(STRING) /\ loc \in Seq(DOMAIN Spelling)
        /\ loc # <<>> => At(tree, Up(loc)).kind = "dir"
        /\ Canonical(tree, loc) \/ canonicalize(tree, loc).tag = "not_found"
    BY <1>1, ResolveGives
  <1> HIDE DEF found
  <1>3. Granted(kind, loc) /\ loc \in Places
    BY <1>1, <1>2 DEF Granted, Places
  <1>4. QED BY <1>1, <1>2, <1>3

\* What an admitted request resolves to when its last name is not followed.
LEMMA NotFollowingOk ==
  ASSUME tree \in Trees, NEW path \in Requests, NEW kind, NotFollowing(kind, path).tag = "ok"
  PROVE  LET loc == NotFollowing(kind, path).loc
         IN  loc \in Places /\ loc # <<>> /\ Granted(kind, loc)
  <1> DEFINE found == resolve_no_follow(tree, path)
             loc == found.loc
  <1>1. /\ NotFollowing(kind, path) = found /\ found.tag = "ok"
        /\ relativize(found.loc).tag = "ok" /\ check_fs_grant(kind, relativize(found.loc).loc)
    <2> HIDE DEF found
    <2>1. NotFollowing(kind, path) = Admit(kind, found)
      BY DEF NotFollowing, found
    <2>2. QED BY <2>1, AdmitOk
  <1>2. loc \in Seq(STRING) /\ loc # <<>> /\ loc \in Seq(DOMAIN Spelling)
    BY <1>1, NoFollowGives
  <1> HIDE DEF found
  <1>3. Granted(kind, loc) /\ loc \in Places
    BY <1>1, <1>2 DEF Granted, Places
  <1>4. QED BY <1>1, <1>2, <1>3

\* A node is told by its kind.
LEMMA DirIsDir ==
  ASSUME NEW t, IsTree(t), NEW loc PROVE
     /\ At(t, loc).kind = "dir" <=> At(t, loc) = Dir
     /\ At(t, loc).kind = "absent" <=> At(t, loc) = Absent
  <1>1. IsNode(At(t, loc))
    BY AtTyped
  <1>2. QED BY <1>1 DEF IsNode, Absent, Dir, File, BigFile, Link

\* handle_write_file leaves the tree or puts a file where the caller was admitted.
LEMMA WriteChanges ==
  ASSUME tree \in Trees, handle_write_file
  PROVE  \/ tree' = tree
         \/ \E loc \in Places : /\ tree' = Put(tree, loc, File) /\ loc # <<>>
                                /\ At(tree, Up(loc)) = Dir /\ At(tree, loc) # Dir
                                /\ Granted("write", loc)
  <1>1. PICK path \in Requests, overwrite \in BOOLEAN :
           LET got    == Following("write", path)
               answer == Early(<<validate(path)>>, write_file(got, overwrite))
           IN  tree' = IF answer.tag = "ok" THEN Put(tree, got.loc, File) ELSE tree
    BY DEF handle_write_file, Answer
  <1> DEFINE got == Following("write", path)
             loc == got.loc
             answer == Early(<<validate(path)>>, write_file(got, overwrite))
  <1> SUFFICES ASSUME answer.tag = "ok"
               PROVE  /\ tree' = Put(tree, loc, File) /\ loc \in Places /\ loc # <<>>
                      /\ At(tree, Up(loc)) = Dir /\ At(tree, loc) # Dir
                      /\ Granted("write", loc)
    BY <1>1
  <1>2. tree' = Put(tree, loc, File)
    BY <1>1
  <1>3. write_file(got, overwrite).tag = "ok"
    BY EarlyOne
  <1>4. got.tag = "ok" /\ At(tree, loc).kind # "dir"
    BY <1>3, WriteFileOk
  <1>5. /\ loc \in Places /\ Granted("write", loc)
        /\ loc # <<>> => At(tree, Up(loc)).kind = "dir"
    BY <1>4, FollowingOk
  <1> HIDE DEF loc, got
  <1>6. loc # <<>>
    BY <1>4 DEF At, Dir
  <1>7. IsTree(tree)
    BY NamesGiven
  <1>8. QED BY <1>2, <1>4, <1>5, <1>6, <1>7, DirIsDir

\* handle_delete_file leaves the tree or takes an entry, a directory only when it is
\* empty, where the caller was admitted.
LEMMA DeleteChanges ==
  ASSUME tree \in Trees, handle_delete_file
  PROVE  \/ tree' = tree
         \/ \E loc \in Places : /\ tree' = Put(tree, loc, Absent) /\ loc # <<>>
                                /\ At(tree, Up(loc)) = Dir
                                /\ At(tree, loc) = Dir => Empty(tree, loc)
                                /\ Granted("write", loc)
  <1>1. PICK path \in Requests :
           LET got    == NotFollowing("write", path)
               answer == Early(<<validate(path)>>, delete_path(got))
           IN  tree' = IF answer.tag = "ok" THEN Put(tree, got.loc, Absent) ELSE tree
    BY DEF handle_delete_file, Answer
  <1> DEFINE got == NotFollowing("write", path)
             loc == got.loc
             answer == Early(<<validate(path)>>, delete_path(got))
  <1> SUFFICES ASSUME answer.tag = "ok"
               PROVE  /\ tree' = Put(tree, loc, Absent) /\ loc \in Places /\ loc # <<>>
                      /\ At(tree, Up(loc)) = Dir
                      /\ At(tree, loc) = Dir => Empty(tree, loc)
                      /\ Granted("write", loc)
    BY <1>1
  <1>2. tree' = Put(tree, loc, Absent)
    BY <1>1
  <1>3. delete_path(got).tag = "ok"
    BY EarlyOne
  <1>4. /\ got.tag = "ok" /\ At(tree, Up(loc)) = Dir
        /\ At(tree, loc).kind = "dir" => Empty(tree, loc)
    BY <1>3, DeletePathOk
  <1>5. loc \in Places /\ loc # <<>> /\ Granted("write", loc)
    BY <1>4, NotFollowingOk
  <1> HIDE DEF loc, got
  <1>6. At(tree, loc) = Dir => At(tree, loc).kind = "dir"
    BY DEF Dir
  <1>7. QED BY <1>2, <1>4, <1>5, <1>6

\* handle_rename leaves the tree or moves an entry to a free place in a directory, with
\* the caller admitted to both.
LEMMA RenameChanges ==
  ASSUME tree \in Trees, handle_rename
  PROVE  \/ tree' = tree
         \/ \E src, dst \in Places :
               /\ tree' = MoveEntry(tree, src, dst)
               /\ src # <<>> /\ dst # <<>> /\ src # dst /\ ~IsStrictPrefix(src, dst)
               /\ At(tree, src) # Absent /\ At(tree, dst) = Absent /\ At(tree, Up(dst)) = Dir
               /\ Granted("write", src) /\ Granted("write", dst)
  <1>1. PICK a \in Ends, b \in Ends :
           LET from  == NotFollowing("write", a)
               to    == NotFollowing("write", b)
               may   == Early(<<validate(a), validate(b), Require(a # b, "invalid")>>,
                              rename_path(from, to))
           IN  tree' = IF may.tag = "ok" THEN MoveEntry(tree, from.loc, to.loc) ELSE tree
    BY DEF handle_rename, Answer
  <1> DEFINE from == NotFollowing("write", a)
             to == NotFollowing("write", b)
             src == from.loc
             dst == to.loc
             x == validate(a)
             y == validate(b)
             z == Require(a # b, "invalid")
             returns == <<x, y, z>>
             may == Early(returns, rename_path(from, to))
  <1>2. a \in Requests /\ b \in Requests
    BY EndsAreRequests
  <1> SUFFICES ASSUME may.tag = "ok"
               PROVE  /\ tree' = MoveEntry(tree, src, dst) /\ src \in Places /\ dst \in Places
                      /\ src # <<>> /\ dst # <<>> /\ src # dst /\ ~IsStrictPrefix(src, dst)
                      /\ At(tree, src) # Absent /\ At(tree, dst) = Absent
                      /\ At(tree, Up(dst)) = Dir
                      /\ Granted("write", src) /\ Granted("write", dst)
    BY <1>1
  <1>3. tree' = MoveEntry(tree, src, dst)
    BY <1>1
  <1>4. rename_path(from, to).tag = "ok"
    <2> HIDE DEF x, y, z, from, to
    <2>1. DOMAIN returns \subseteq Nat
      OBVIOUS
    <2> HIDE DEF returns
    <2>2. QED BY <2>1, EarlyOk
  <1>5. /\ from.tag = "ok" /\ to.tag = "ok" /\ src # dst
        /\ ~IsStrictPrefix(src, dst)
        /\ At(tree, src).kind # "absent"
        /\ At(tree, Up(dst)) = Dir /\ At(tree, dst).kind = "absent"
    BY <1>4, RenamePathOk
  <1>6. src \in Places /\ src # <<>> /\ Granted("write", src)
    BY <1>2, <1>5, NotFollowingOk
  <1>7. dst \in Places /\ dst # <<>> /\ Granted("write", dst)
    BY <1>2, <1>5, NotFollowingOk
  <1>8. IsTree(tree)
    BY NamesGiven
  <1> HIDE DEF src, dst, from, to
  <1>9. At(tree, src) # Absent /\ At(tree, dst) = Absent
    BY <1>5, <1>8, DirIsDir
  <1>10. QED BY <1>3, <1>5, <1>6, <1>7, <1>9

-----------------------------------------------------------------------------
(* Trees in which every entry is in a directory. *)

\* A location is its directory and its name.
LEMMA UpLast ==
  ASSUME NEW loc \in Seq(STRING), loc # <<>>
  PROVE  /\ loc = Up(loc) \o <<Last(loc)>>
         /\ Up(loc) \in Seq(STRING) /\ <<Last(loc)>> \in Seq(STRING)
  <1> DEFINE u == Front(loc)
             l == Last(loc)
  <1>1. u \in Seq(STRING) /\ l \in STRING /\ loc = Append(u, l)
    BY FrontLast
  <1>2. Up(loc) = u
    BY DEF Up
  <1> HIDE DEF u, l
  <1>3. <<l>> \in Seq(STRING)
    BY <1>1, Singleton
  <1>4. Append(u, l) = u \o <<l>>
    BY <1>1, AppendIsConcat
  <1>5. QED BY <1>1, <1>2, <1>3, <1>4 DEF l

\* The locations above something that is there are directories.
LEMMA AncestorsAreDirs ==
  ASSUME NEW t, IsTree(t), Connected(t), NEW loc \in Seq(STRING)
  PROVE  \A r \in Seq(STRING) : r # <<>> /\ At(t, loc \o r) # Absent => At(t, loc) = Dir
  <1> DEFINE P(r) == r # <<>> /\ At(t, loc \o r) # Absent => At(t, loc) = Dir
             T == {n \in Nat : \A r \in Seq(STRING) : Len(r) = n => P(r)}
  <1>1. 0 \in T
    <2>1. \A r \in Seq(STRING) : Len(r) = 0 => P(r)
      BY EmptySeq
    <2> HIDE DEF P
    <2>2. QED BY <2>1
  <1>2. ASSUME NEW n \in Nat, n \in T, NEW r \in Seq(STRING), Len(r) = n + 1 PROVE P(r)
    <2> SUFFICES ASSUME At(t, loc \o r) # Absent PROVE At(t, loc) = Dir
      OBVIOUS
    <2> DEFINE f == Front(r)
    <2>1. r # <<>>
      BY <1>2, EmptySeq
    <2>2. f \in Seq(STRING) /\ Len(f) = n
      BY <1>2, <2>1, PrefixOfFront
    <2>3. loc \o r # <<>> /\ Up(loc \o r) = loc \o f
      BY <2>1, FrontOfConcat DEF Up
    <2>4. At(t, loc \o f) = Dir
      BY <2>3 DEF Connected, At
    <2>5. CASE f = <<>>
      <3>1. loc \o f = loc
        BY <2>5, ConcatEmptySeq
      <3>2. QED BY <2>4, <3>1
    <2>6. CASE f # <<>>
      <3>1. At(t, loc \o f) # Absent
        BY <2>4 DEF Dir, Absent
      <3>2. P(f)
        <4> HIDE DEF P
        <4>1. QED BY <1>2, <2>2
      <3> HIDE DEF f
      <3>3. QED BY <2>6, <3>1, <3>2
    <2>7. QED BY <2>5, <2>6
  <1>3. \A n \in Nat : n \in T
    <2>1. \A n \in Nat : n \in T => n + 1 \in T
      <3> HIDE DEF P
      <3>1. QED BY <1>2
    <2> HIDE DEF T
    <2>2. QED BY <1>1, <2>1, Induction
  <1>4. ASSUME NEW r \in Seq(STRING) PROVE P(r)
    <2>1. Len(r) \in Nat
      BY LenProperties
    <2> HIDE DEF P
    <2>2. QED BY <1>3, <2>1
  <1>5. QED BY <1>4

\* Nothing is in what is no directory.
LEMMA NothingIn ==
  ASSUME NEW t, Connected(t), NEW loc, At(t, loc) # Dir
  PROVE  \A x \in DOMAIN t : At(t, x) # Absent => Up(x) # loc
  BY DEF Connected

\* An entry that is not a directory is replaced where there is a directory for it.
LEMMA WriteConnected ==
  ASSUME NEW t, Connected(t), NEW loc \in Seq(STRING), loc # <<>>, NEW node,
         At(t, Up(loc)) = Dir, At(t, loc) # Dir
  PROVE  Connected(Put(t, loc, node))
  BY NothingIn, PutConnected

\* An empty directory is removed and nothing is left behind.
LEMMA DeleteConnected ==
  ASSUME NEW t, IsTree(t), Connected(t), NEW loc \in Seq(STRING), loc # <<>>,
         At(t, Up(loc)) = Dir, Empty(t, loc)
  PROVE  Connected(Put(t, loc, Absent))
  <1>1. ASSUME NEW x \in DOMAIN t, At(t, x) # Absent, x # <<>>, Up(x) = loc PROVE FALSE
    <2>1. x \in Seq(STRING) /\ t[x] # Absent
      BY <1>1 DEF IsTree, At
    <2>2. Front(x) = loc /\ Front(x) # x
      <3>1. Len(Front(x)) = Len(x) - 1 /\ Len(x) - 1 \in Nat
        BY <1>1, <2>1, PrefixOfFront
      <3>2. QED BY <1>1, <3>1 DEF Up
    <2>3. IsPrefix(loc, x)
      <3>1. x = loc \o <<Last(x)>> /\ <<Last(x)>> \in Seq(STRING)
        <4>1. Last(x) \in STRING /\ x = Append(Front(x), Last(x))
          BY <1>1, <2>1, FrontLast
        <4>2. QED BY <2>2, <4>1, AppendIsConcat
      <3>2. QED BY <2>1, <3>1, PrefixSplit
    <2>4. x \in Below(t, loc)
      BY <2>1, <2>2, <2>3 DEF Below, IsStrictPrefix
    <2>5. QED BY <2>4 DEF Empty
  <1>2. QED BY <1>1, PutConnected

\* What rename(2) takes along, relative to the entry.
Taken(t, src) == {r \in Seq(STRING) : src \o r \in DOMAIN t /\ t[src \o r] # Absent}

\* What is where after it.
Moved(t, src, dst, new) ==
  /\ <<>> \in Taken(t, src)
  /\ \A x \in DOMAIN new : x \in Seq(STRING)
  /\ \A r \in Taken(t, src) : At(new, dst \o r) = At(t, src \o r)
  /\ \A x : (\A r \in Taken(t, src) : x # dst \o r) =>
        At(new, x) = IF \E r \in Taken(t, src) : x = src \o r THEN Absent ELSE At(t, x)

\* rename(2) takes the entry and all below it, and nothing else, to dst.
LEMMA MoveEntryMoves ==
  ASSUME NEW t, IsTree(t), NEW src \in Seq(STRING), NEW dst \in Seq(STRING),
         src # <<>>, dst # <<>>, src \in DOMAIN t, t[src] # Absent
  PROVE  Moved(t, src, dst, MoveEntry(t, src, dst))
  <1> DEFINE moved == {src} \cup Below(t, src)
             arrived == {dst \o SubSeq(x, Len(src) + 1, Len(x)) : x \in moved}
             new == MoveEntry(t, src, dst)
             R == Taken(t, src)
  <1>1. new = [x \in DOMAIN t \cup arrived |->
                 IF x \in arrived THEN t[src \o SubSeq(x, Len(dst) + 1, Len(x))]
                 ELSE IF x \in moved THEN Absent ELSE t[x]]
    BY Zenon DEF MoveEntry
  <1>2. \A r \in R : r \in Seq(STRING) /\ src \o r \in DOMAIN t /\ t[src \o r] # Absent
    BY DEF Taken
  <1>3. <<>> \in R
    <2>1. src \o <<>> = src
      BY ConcatEmptySeq
    <2>2. QED BY <2>1 DEF Taken
  <1>4. ASSUME NEW x \in moved PROVE \E r \in R : x = src \o r
    <2>1. CASE x = src
      <3>1. src \o <<>> = src
        BY ConcatEmptySeq
      <3>2. QED BY <1>3, <2>1, <3>1
    <2>2. CASE x \in Below(t, src)
      <3>1. x \in DOMAIN t /\ t[x] # Absent /\ IsPrefix(src, x) /\ x \in Seq(STRING)
        BY <2>2 DEF Below, IsStrictPrefix, IsTree
      <3>2. PICK r \in Seq(STRING) : x = src \o r
        BY <3>1, PrefixSplit
      <3>3. QED BY <3>1, <3>2 DEF Taken
    <2>3. QED BY <2>1, <2>2
  <1>5. ASSUME NEW r \in R PROVE src \o r \in moved
    <2>1. CASE r = <<>>
      <3>1. src \o r = src
        BY <2>1, ConcatEmptySeq
      <3>2. QED BY <3>1
    <2>2. CASE r # <<>>
      <3>1. src \o r # src
        <4>1. Len(src \o r) = Len(src) + Len(r) /\ Len(r) \in Nat /\ Len(r) # 0 /\ Len(src) \in Nat
          BY <1>2, <2>2, ConcatProperties, LenProperties, EmptySeq
        <4>2. Len(src \o r) # Len(src)
          BY <4>1
        <4>3. QED BY <4>2
      <3>2. IsPrefix(src, src \o r)
        <4>1. src \o r \in Seq(STRING)
          BY <1>2, ConcatProperties
        <4>2. QED BY <1>2, <4>1, PrefixSplit
      <3>3. QED BY <1>2, <3>1, <3>2 DEF Below, IsStrictPrefix
    <2>3. QED BY <2>1, <2>2
  <1>6. \A r \in R : SubSeq(src \o r, Len(src) + 1, Len(src \o r)) = r
    BY <1>2, SuffixOfConcat
  <1>7. \A r \in R : SubSeq(dst \o r, Len(dst) + 1, Len(dst \o r)) = r
    BY <1>2, SuffixOfConcat
  <1> HIDE DEF moved, R
  <1>8. \A x : x \in arrived <=> \E r \in R : x = dst \o r
    <2>1. ASSUME NEW r \in R PROVE dst \o r \in arrived
      BY <1>5, <1>6
    <2>2. ASSUME NEW x \in arrived PROVE \E r \in R : x = dst \o r
      <3>1. PICK y \in moved : x = dst \o SubSeq(y, Len(src) + 1, Len(y))
        OBVIOUS
      <3>2. PICK r \in R : y = src \o r
        BY <1>4
      <3>3. QED BY <1>6, <3>1, <3>2
    <2>3. QED BY <2>1, <2>2
  <1> HIDE DEF arrived, new
  <1>9. \A x \in DOMAIN new : x \in Seq(STRING)
    <2>1. DOMAIN new = DOMAIN t \cup arrived
      BY <1>1
    <2>2. \A r \in R : dst \o r \in Seq(STRING)
      BY <1>2, ConcatProperties
    <2>3. QED BY <1>8, <2>1, <2>2 DEF IsTree
  <1>10. ASSUME NEW r \in R PROVE At(new, dst \o r) = At(t, src \o r)
    <2>1. dst \o r # <<>> /\ src \o r # <<>>
      <3>1. /\ Len(dst \o r) = Len(dst) + Len(r) /\ Len(src \o r) = Len(src) + Len(r)
            /\ Len(r) \in Nat /\ Len(dst) \in Nat \ {0} /\ Len(src) \in Nat \ {0}
        BY <1>2, ConcatProperties, LenProperties, EmptySeq
      <3>2. Len(dst \o r) # 0 /\ Len(src \o r) # 0
        BY <3>1
      <3>3. QED BY <3>2, EmptySeq
    <2>2. dst \o r \in arrived
      BY <1>8
    <2>3. dst \o r \in DOMAIN new /\ new[dst \o r] = t[src \o r]
      BY <1>1, <1>7, <2>2
    <2>4. QED BY <1>2, <2>1, <2>3 DEF At
  <1>11. ASSUME NEW x, \A r \in R : x # dst \o r
         PROVE  At(new, x) = IF \E r \in R : x = src \o r THEN Absent ELSE At(t, x)
    <2>1. x \notin arrived
      BY <1>8, <1>11
    <2>2. x \in moved <=> \E r \in R : x = src \o r
      BY <1>4, <1>5
    <2>3. x \in moved => x \in DOMAIN t /\ x # <<>>
      <3>1. \A r \in R : src \o r # <<>>
        <4> SUFFICES ASSUME NEW r \in R PROVE src \o r # <<>>
          OBVIOUS
        <4>1. Len(src \o r) = Len(src) + Len(r) /\ Len(r) \in Nat /\ Len(src) \in Nat \ {0}
          BY <1>2, ConcatProperties, LenProperties, EmptySeq
        <4>2. Len(src \o r) # 0
          BY <4>1
        <4>3. QED BY <4>2, EmptySeq
      <3>2. QED BY <1>2, <2>2, <3>1
    <2>4. At(new, x) = IF x \in moved THEN Absent ELSE At(t, x)
      BY <1>1, <2>1, <2>3 DEF At
    <2>5. QED BY <2>2, <2>4
  <1>12. QED BY <1>3, <1>9, <1>10, <1>11 DEF new, R, Moved

\* An entry goes, with all that is below it, to a free place in a directory that does
\* not go along.
LEMMA MoveConnected ==
  ASSUME NEW t, IsTree(t), Connected(t), NEW src \in Seq(STRING), NEW dst \in Seq(STRING),
         src # <<>>, dst # <<>>, src # dst, ~IsStrictPrefix(src, dst),
         At(t, src) # Absent, At(t, dst) = Absent, At(t, Up(dst)) = Dir
  PROVE  Connected(MoveEntry(t, src, dst))
  <1> DEFINE new == MoveEntry(t, src, dst)
             R == Taken(t, src)
  <1>1. src \in DOMAIN t /\ t[src] # Absent
    BY DEF At
  <1>2. /\ <<>> \in R
        /\ \A x \in DOMAIN new : x \in Seq(STRING)
        /\ \A r \in R : At(new, dst \o r) = At(t, src \o r)
        /\ \A x : (\A r \in R : x # dst \o r) =>
             At(new, x) = IF \E r \in R : x = src \o r THEN Absent ELSE At(t, x)
    <2>1. Moved(t, src, dst, new)
      BY <1>1, MoveEntryMoves
    <2> HIDE DEF new
    <2>2. QED BY <2>1 DEF Moved
  <1>3. \A r \in R : r \in Seq(STRING) /\ src \o r \in DOMAIN t /\ t[src \o r] # Absent
    BY DEF Taken
  <1>4. \A r \in Seq(STRING) : src \o r # <<>> /\ At(t, src \o r) # Absent => r \in R
    BY DEF Taken, At
  <1>5. \A r \in Seq(STRING) : src \o r # <<>> /\ dst \o r # <<>>
    BY ConcatEqualIffEmpty
  <1>6. src \o <<>> = src /\ dst \o <<>> = dst /\ <<>> \in Seq(STRING)
    BY ConcatEmptySeq
  <1>7. Dir # Absent
    BY DEF Dir, Absent
  <1>8. \A x \in Seq(STRING) : At(t, x) # Absent => At(t, Up(x)) = Dir
    BY DEF Connected, At, Up
  <1> HIDE DEF new, R
  <1> SUFFICES ASSUME NEW y \in DOMAIN new, At(new, y) # Absent PROVE At(new, Up(y)) = Dir
    BY DEF Connected, new
  <1>9. y \in Seq(STRING)
    BY <1>2
  <1>10. CASE \E r \in R : y = dst \o r
    <2>1. PICK r \in R : y = dst \o r
      BY <1>10
    <2>2. CASE r = <<>>
      <3>1. y = dst
        BY <1>6, <2>1, <2>2
      <3>2. \A s \in R : Up(dst) # dst \o s
        <4> SUFFICES ASSUME NEW s \in R, Up(dst) = dst \o s PROVE FALSE
          OBVIOUS
        <4>1. Len(Up(dst)) = Len(dst) - 1
          BY PrefixOfFront DEF Up
        <4>2. Len(dst \o s) = Len(dst) + Len(s) /\ Len(s) \in Nat /\ Len(dst) \in Nat
          BY <1>3, ConcatProperties, LenProperties
        <4>3. QED BY <4>1, <4>2
      <3>3. \A s \in R : Up(dst) # src \o s
        <4> SUFFICES ASSUME NEW s \in R, Up(dst) = src \o s PROVE FALSE
          OBVIOUS
        <4> DEFINE l == <<Last(dst)>>
        <4>1. dst = Up(dst) \o l /\ l \in Seq(STRING)
          BY UpLast
        <4>2. dst = src \o (s \o l) /\ s \o l \in Seq(STRING)
          <5> HIDE DEF l
          <5>1. dst = (src \o s) \o l /\ s \in Seq(STRING)
            BY <1>3, <4>1
          <5>2. QED BY <4>1, <5>1, ConcatTwice
        <4>3. IsPrefix(src, dst)
          BY <4>2, PrefixSplit
        <4>4. QED BY <4>3 DEF IsStrictPrefix
      <3>4. At(new, Up(dst)) = At(t, Up(dst))
        BY <1>2, <3>2, <3>3
      <3>5. QED BY <3>1, <3>4
    <2>3. CASE r # <<>>
      <3> DEFINE f == Front(r)
      <3>1. /\ f \in Seq(STRING) /\ Up(src \o r) = src \o f /\ Up(dst \o r) = dst \o f
        BY <1>3, <2>3, FrontOfConcat DEF Up
      <3>2. src \o r \in Seq(STRING) /\ At(t, src \o r) # Absent
        BY <1>3, <1>5, ConcatProperties DEF At
      <3>3. At(t, src \o f) = Dir
        BY <1>8, <3>1, <3>2
      <3> HIDE DEF f
      <3>4. f \in R
        BY <1>4, <1>5, <1>7, <3>1, <3>3
      <3>5. QED BY <1>2, <2>1, <3>1, <3>3, <3>4
    <2>4. QED BY <2>2, <2>3
  <1>11. CASE \A r \in R : y # dst \o r
    <2>1. ~(\E r \in R : y = src \o r) /\ At(t, y) # Absent
      BY <1>2, <1>11
    <2>2. At(t, Up(y)) = Dir
      BY <1>8, <1>9, <2>1
    <2>3. CASE y = <<>>
      BY <2>3 DEF Up, At
    <2>4. CASE y # <<>>
      <3> DEFINE u == Up(y)
                 l == <<Last(y)>>
      <3>1. y = u \o l /\ l \in Seq(STRING) /\ u \in Seq(STRING)
        BY <1>9, <2>4, UpLast
      <3>2. At(t, u) = Dir
        BY <2>2
      <3> HIDE DEF u, l
      <3>3. \A s \in R : u # src \o s
        <4> SUFFICES ASSUME NEW s \in R, u = src \o s PROVE FALSE
          OBVIOUS
        <4>1. y = src \o (s \o l) /\ s \o l \in Seq(STRING)
          BY <1>3, <3>1, ConcatTwice
        <4>2. s \o l \in R
          BY <1>4, <1>5, <2>1, <4>1
        <4>3. QED BY <2>1, <4>1, <4>2
      <3>4. \A s \in R : u # dst \o s
        <4> SUFFICES ASSUME NEW s \in R, u = dst \o s PROVE FALSE
          OBVIOUS
        <4>1. CASE s = <<>>
          BY <1>6, <1>7, <3>2, <4>1
        <4>2. CASE s # <<>>
          <5>1. At(t, dst) = Dir
            BY <1>3, <1>7, <3>2, <4>2, AncestorsAreDirs
          <5>2. QED BY <1>7, <5>1
        <4>3. QED BY <4>1, <4>2
      <3>5. At(new, u) = At(t, u)
        BY <1>2, <3>3, <3>4
      <3>6. QED BY <3>2, <3>5 DEF u
    <2>5. QED BY <2>3, <2>4
  <1>12. QED BY <1>10, <1>11

\* The handlers, for every tree in which every entry is in a directory and every
\* request, keep it so: no delete is recursive, no write or rename replaces a directory
\* with contents or moves a directory into itself.
THEOREM NothingIsCutOff == Spec => []NothingCutOff
  <1>1. Init => NothingCutOff
    BY TreesConnected DEF Init, NothingCutOff
  <1>2. Waiting /\ NothingCutOff /\ [Next]_vars => NothingCutOff'
    <2> SUFFICES ASSUME Waiting, Connected(tree), [Next]_vars PROVE Connected(tree')
      BY DEF NothingCutOff, Connected
    <2>1. CASE tree' = tree
      BY <2>1
    <2>2. request = NoRequest => tree \in Trees /\ IsTree(tree)
      BY NamesGiven DEF Waiting
    <2>3. CASE handle_write_file
      <3>1. tree \in Trees
        BY <2>2, <2>3 DEF handle_write_file
      <3>2. CASE \E loc \in Places : /\ tree' = Put(tree, loc, File) /\ loc # <<>>
                                     /\ At(tree, Up(loc)) = Dir /\ At(tree, loc) # Dir
        BY <3>2, PlacesTyped, WriteConnected
      <3>3. QED BY <2>1, <2>3, <3>1, <3>2, WriteChanges
    <2>4. CASE handle_create_directory
      <3>1. IsTree(tree)
        BY <2>2, <2>4 DEF handle_create_directory
      <3>2. PICK path \in Requests :
              tree' = tree \/ tree' = ensure_dir_under_root(tree, path).tree
        BY <2>4 DEF handle_create_directory, Answer
      <3>3. Connected(ensure_dir_under_root(tree, path).tree)
        <4> DEFINE rel == creation_rel(path)
                   made == ensure_dir_under_root(tree, path)
        <4>1. CASE rel.tag = "ok"
          <5>1. rel.loc = Components(path)
            BY <4>1 DEF creation_rel, Ok, Err
          <5>2. made = MakeAll(tree, rel.loc)
            BY <4>1 DEF ensure_dir_under_root
          <5>3. path \in Seq(STRING)
            BY NamesGiven
          <5>4. QED BY <3>1, <5>1, <5>2, <5>3, ComponentsTyped, MakeAllGrows
        <4>2. CASE rel.tag # "ok"
          <5>1. made.tree = tree
            BY <4>2 DEF ensure_dir_under_root
          <5>2. QED BY <5>1
        <4>3. QED BY <4>1, <4>2
      <3>4. QED BY <3>2, <3>3
    <2>5. CASE handle_rename
      <3>1. tree \in Trees /\ IsTree(tree)
        BY <2>2, <2>5 DEF handle_rename
      <3>2. CASE \E src, dst \in Places :
               /\ tree' = MoveEntry(tree, src, dst)
               /\ src # <<>> /\ dst # <<>> /\ src # dst /\ ~IsStrictPrefix(src, dst)
               /\ At(tree, src) # Absent /\ At(tree, dst) = Absent /\ At(tree, Up(dst)) = Dir
        BY <3>1, <3>2, PlacesTyped, MoveConnected
      <3>3. QED BY <2>1, <2>5, <3>1, <3>2, RenameChanges
    <2>6. CASE handle_delete_file
      <3>1. tree \in Trees /\ IsTree(tree)
        BY <2>2, <2>6 DEF handle_delete_file
      <3>2. CASE \E loc \in Places : /\ tree' = Put(tree, loc, Absent) /\ loc # <<>>
                                     /\ At(tree, Up(loc)) = Dir
                                     /\ At(tree, loc) = Dir => Empty(tree, loc)
        BY <3>1, <3>2, PlacesTyped, WriteConnected, DeleteConnected
      <3>3. QED BY <2>1, <2>6, <3>1, <3>2, DeleteChanges
    <2>7. CASE handle_read_file \/ handle_list_directory \/ handle_get_file_metadata
      BY <2>1, <2>7 DEF handle_read_file, handle_list_directory, handle_get_file_metadata, Answer
    <2>8. CASE UNCHANGED vars
      BY <2>1, <2>8 DEF vars
    <2>9. QED BY <2>3, <2>4, <2>5, <2>6, <2>7, <2>8 DEF Next
  <1>3. QED BY <1>1, <1>2, WaitingHolds, PTL DEF Spec

-----------------------------------------------------------------------------
(* Grants: what root_covers compares in characters holds in whole names. *)

\* The functions on 0..L that start with s and go on by F.
BoundedRuns(S, s, F, L) ==
  {f \in [0..L -> S] : f[0] = s /\ \A n \in 1..L : f[n] = F[<<n, f[n - 1]>>]}

\* There is one: the start of a run on the naturals.
LEMMA BoundedIteration ==
  ASSUME NEW S, NEW s \in S, NEW F \in [Nat \X S -> S], NEW L \in Nat
  PROVE  \E f : f \in BoundedRuns(S, s, F, L)
  <1>1. PICK g : g \in Runs(S, s, F)
    BY Iteration
  <1>2. g \in [Nat -> S] /\ g[0] = s /\ \A n \in Nat : g[n + 1] = F[<<n + 1, g[n]>>]
    BY <1>1 DEF Runs
  <1> DEFINE f == [n \in 0..L |-> g[n]]
  <1>3. f \in [0..L -> S] /\ f[0] = s
    BY <1>2
  <1>4. ASSUME NEW n \in 1..L PROVE f[n] = F[<<n, f[n - 1]>>]
    <2>1. n - 1 \in Nat /\ (n - 1) + 1 = n /\ n \in 0..L /\ n - 1 \in 0..L
      OBVIOUS
    <2>2. f[n] = g[n] /\ f[n - 1] = g[n - 1]
      BY <2>1
    <2>3. g[n] = F[<<n, g[n - 1]>>]
      BY <1>2, <2>1
    <2> HIDE DEF f
    <2>4. QED BY <2>2, <2>3
  <1> HIDE DEF f
  <1>5. f \in BoundedRuns(S, s, F, L)
    BY <1>3, <1>4 DEF BoundedRuns
  <1>6. QED BY <1>5

\* What the names of a path are spelled with.
Chars == STRING \cup {"/"}

\* The text with one name more.
NextText(text, c) ==
  IF text = <<>> THEN Spelling[c] ELSE text \o <<"/">> \o Spelling[c]

\* The texts of the first n names.
Texts(names) ==
  {k \in [0..Len(names) -> Seq(Chars)] :
     k[0] = <<>> /\ \A n \in 1..Len(names) : k[n] = NextText(k[n - 1], names[n])}

\* No name has the separator in it.
LEMMA SpellingTyped ==
  ASSUME NEW c \in DOMAIN Spelling
  PROVE  Spelling[c] \in Seq(Chars) /\ \A i \in 1..Len(Spelling[c]) : Spelling[c][i] # "/"
  <1>1. Spelling[c] \in Seq(STRING) /\ ~Contains(Spelling[c], "/")
    BY NamesSpelled
  <1>2. STRING \subseteq Chars
    BY DEF Chars
  <1>3. Spelling[c] \in Seq(Chars)
    BY <1>1, <1>2, SeqMonotonic
  <1>4. QED BY <1>1, <1>3 DEF Contains

\* A longer text is a text.
LEMMA NextTextTyped ==
  ASSUME NEW text \in Seq(Chars), NEW c \in DOMAIN Spelling
  PROVE  NextText(text, c) \in Seq(Chars)
  <1>1. Spelling[c] \in Seq(Chars)
    BY SpellingTyped
  <1>2. <<"/">> \in Seq(Chars)
    <2>1. "/" \in Chars
      BY DEF Chars
    <2>2. QED BY <2>1, Singleton
  <1>3. text \o <<"/">> \in Seq(Chars)
    BY <1>2, ConcatProperties
  <1>4. text \o <<"/">> \o Spelling[c] \in Seq(Chars)
    BY <1>1, <1>3, ConcatProperties
  <1>5. QED BY <1>1, <1>4 DEF NextText

\* Joined is the last of the texts.
LEMMA JoinedSteps ==
  ASSUME NEW names \in Seq(DOMAIN Spelling)
  PROVE  \E k \in Texts(names) : Joined(names) = k[Len(names)]
  <1> DEFINE L == Len(names)
             S == Seq(Chars)
             F == [p \in Nat \X S |-> IF p[1] \in 1..L THEN NextText(p[2], names[p[1]]) ELSE p[2]]
             Def(f) == f = [n \in 0..L |->
                              IF n = 0 THEN <<>>
                              ELSE IF f[n - 1] = <<>> THEN Spelling[names[n]]
                              ELSE f[n - 1] \o <<"/">> \o Spelling[names[n]]]
  <1>1. L \in Nat /\ \A n \in 1..L : names[n] \in DOMAIN Spelling
    BY LenProperties, ElementOfSeq
  <1>2. <<>> \in S
    OBVIOUS
  <1>3. \A n \in 1..L : \A text \in S : NextText(text, names[n]) \in S
    BY <1>1, NextTextTyped
  <1> HIDE DEF S
  <1>4. F \in [Nat \X S -> S]
    BY <1>3
  <1>5. PICK g : g \in BoundedRuns(S, <<>>, F, L)
    <2> HIDE DEF F, L
    <2>1. QED BY <1>1, <1>2, <1>4, BoundedIteration
  <1>6. g \in [0..L -> S] /\ g[0] = <<>> /\ \A n \in 1..L : g[n] = F[<<n, g[n - 1]>>]
    <2> HIDE DEF F, L
    <2>1. QED BY <1>5 DEF BoundedRuns
  <1>7. ASSUME NEW n \in 1..L PROVE g[n] = NextText(g[n - 1], names[n])
    <2>1. n - 1 \in 0..L /\ n \in Nat
      BY <1>1
    <2>2. g[n - 1] \in S
      BY <1>6, <2>1
    <2>3. F[<<n, g[n - 1]>>] = NextText(g[n - 1], names[n])
      BY <2>1, <2>2
    <2>4. QED BY <1>6, <2>3
  <1>8. Def(g)
    <2>1. ASSUME NEW n \in 0..L
          PROVE  g[n] = IF n = 0 THEN <<>>
                        ELSE IF g[n - 1] = <<>> THEN Spelling[names[n]]
                        ELSE g[n - 1] \o <<"/">> \o Spelling[names[n]]
      <3>1. CASE n = 0
        BY <1>6, <3>1
      <3>2. CASE n # 0
        <4>1. n \in 1..L
          BY <1>1, <3>2
        <4>2. QED BY <1>7, <3>2, <4>1 DEF NextText
      <3>3. QED BY <3>1, <3>2
    <2>2. g = [n \in 0..L |-> g[n]]
      BY <1>6
    <2>3. QED BY <2>1, <2>2
  <1> DEFINE k == CHOOSE f : Def(f)
  <1>9. Joined(names) = k[L]
    BY DEF Joined
  <1>10. Def(k)
    BY <1>8
  <1> HIDE DEF k
  <1>11. /\ k = [n \in 0..L |-> k[n]] /\ k[0] = <<>>
         /\ \A n \in 1..L : k[n] = NextText(k[n - 1], names[n])
    <2>1. k = [n \in 0..L |-> k[n]]
      BY <1>10
    <2>2. \A n \in 0..L : k[n] = IF n = 0 THEN <<>>
                        ELSE IF k[n - 1] = <<>> THEN Spelling[names[n]]
                        ELSE k[n - 1] \o <<"/">> \o Spelling[names[n]]
      BY <1>10
    <2>3. 0 \in 0..L /\ \A n \in 1..L : n \in 0..L /\ n # 0
      BY <1>1
    <2>4. QED BY <2>1, <2>2, <2>3 DEF NextText
  <1> DEFINE T == {n \in Nat : n \in 0..L => k[n] \in S}
  <1>12. 0 \in T
    BY <1>2, <1>11
  <1>13. \A n \in Nat : n \in T => n + 1 \in T
    <2> SUFFICES ASSUME NEW n \in Nat, n \in T, n + 1 \in 0..L PROVE k[n + 1] \in S
      OBVIOUS
    <2>1. n \in 0..L /\ n + 1 \in 1..L /\ (n + 1) - 1 = n
      BY <1>1
    <2>2. QED BY <1>3, <1>11, <2>1
  <1>14. \A n \in Nat : n \in T
    <2> HIDE DEF T
    <2>1. QED BY <1>12, <1>13, Induction
  <1>15. \A n \in 0..L : k[n] \in S
    <2>1. \A n \in 0..L : n \in Nat
      BY <1>1
    <2>2. QED BY <1>14, <2>1
  <1>16. k \in [0..L -> S]
    BY <1>11, <1>15
  <1>17. k \in Texts(names)
    BY <1>11, <1>16 DEF Texts, S
  <1>18. QED BY <1>9, <1>17

\* A text that goes on with the separator after g.
Cuts(text, g) ==
  /\ Len(g) < Len(text) /\ text[Len(g) + 1] = "/"
  /\ \A i \in 1..Len(g) : text[i] = g[i]

\* A text that starts with g and the separator.
LEMMA PrefixCuts ==
  ASSUME NEW g \in Seq(Chars), NEW text \in Seq(Chars), IsPrefix(Append(g, "/"), text)
  PROVE  Cuts(text, g)
  <1> DEFINE a == Append(g, "/")
  <1>1. "/" \in Chars
    BY DEF Chars
  <1>2. Len(g) \in Nat
    BY LenProperties
  <1>3. /\ a \in Seq(Chars) /\ Len(a) = Len(g) + 1 /\ a[Len(g) + 1] = "/"
        /\ \A i \in 1..Len(g) : a[i] = g[i]
    BY <1>1, AppendProperties
  <1> HIDE DEF a
  <1>4. PICK r \in Seq(Chars) : text = a \o r
    BY <1>3, PrefixSplit DEF a
  <1>5. Len(text) = Len(a) + Len(r) /\ Len(r) \in Nat
    BY <1>3, <1>4, ConcatProperties, LenProperties
  <1>6. \A i \in 1..Len(text) : text[i] = IF i <= Len(a) THEN a[i] ELSE r[i - Len(a)]
    BY <1>3, <1>4, <1>5, ConcatProperties
  <1>7. Len(g) < Len(text) /\ \A i \in 1..(Len(g) + 1) : text[i] = a[i]
    BY <1>2, <1>3, <1>5, <1>6
  <1>8. Len(g) + 1 \in 1..(Len(g) + 1) /\ \A i \in 1..Len(g) : i \in 1..(Len(g) + 1)
    BY <1>2
  <1>9. QED BY <1>3, <1>7, <1>8 DEF Cuts

\* The separators of a joined text are those between its names.
LEMMA CutIsText ==
  ASSUME NEW names \in Seq(DOMAIN Spelling), NEW k \in Texts(names), NEW g \in Seq(Chars)
  PROVE  \A n \in 0..Len(names) : Cuts(k[n], g) => \E m \in 0..n : k[m] = g
  <1> DEFINE L == Len(names)
             T == {n \in Nat : n <= L => (Cuts(k[n], g) => \E m \in 0..n : k[m] = g)}
  <1>1. /\ L \in Nat /\ Len(g) \in Nat
        /\ \A n \in 1..L : names[n] \in DOMAIN Spelling
    BY LenProperties, ElementOfSeq
  <1>2. /\ \A n \in 0..L : k[n] \in Seq(Chars)
        /\ k[0] = <<>> /\ \A n \in 1..L : k[n] = NextText(k[n - 1], names[n])
    BY DEF Texts
  <1>3. 0 \in T
    <2>1. ~Cuts(k[0], g)
      <3>1. Len(k[0]) = 0
        BY <1>2
      <3>2. QED BY <1>1, <3>1 DEF Cuts
    <2>2. QED BY <2>1
  <1>4. ASSUME NEW n \in Nat, n \in T PROVE n + 1 \in T
    <2> SUFFICES ASSUME n + 1 <= L, Cuts(k[n + 1], g) PROVE \E m \in 0..(n + 1) : k[m] = g
      OBVIOUS
    <2> DEFINE t == k[n]
               c == names[n + 1]
               s == Spelling[c]
               a == t \o <<"/">>
               x == k[n + 1]
    <2>1. n \in 0..L /\ n <= L /\ n + 1 \in 1..L /\ (n + 1) - 1 = n /\ n \in 0..(n + 1)
      BY <1>1
    <2>2. x = IF t = <<>> THEN s ELSE a \o s
      BY <1>2, <2>1 DEF NextText
    <2>3. t \in Seq(Chars) /\ c \in DOMAIN Spelling
      BY <1>1, <1>2, <2>1
    <2> HIDE DEF c
    <2>4. s \in Seq(Chars) /\ \A i \in 1..Len(s) : s[i] # "/"
      BY <2>3, SpellingTyped
    <2>5. Cuts(t, g) => \E m \in 0..n : k[m] = g
      BY <1>4, <2>1
    <2>6. Len(g) < Len(x) /\ x[Len(g) + 1] = "/" /\ \A i \in 1..Len(g) : x[i] = g[i]
      BY DEF Cuts
    <2>7. Len(t) \in Nat /\ Len(s) \in Nat
      BY <2>3, <2>4, LenProperties
    <2> HIDE DEF T, t, s, x
    <2>8. CASE t = <<>>
      <3>1. x = s
        BY <2>2, <2>8
      <3>2. Len(g) + 1 \in 1..Len(s)
        BY <1>1, <2>6, <2>7, <3>1
      <3>3. QED BY <2>4, <2>6, <3>1, <3>2
    <2>9. CASE t # <<>>
      <3> DEFINE sep == <<"/">>
      <3>1. sep \in Seq(Chars) /\ Len(sep) = 1 /\ sep[1] = "/"
        <4>1. "/" \in Chars
          BY DEF Chars
        <4>2. sep \in Seq(Chars)
          BY <4>1, Singleton
        <4>3. QED BY <4>2
      <3> HIDE DEF sep
      <3>2. /\ a \in Seq(Chars) /\ Len(a) = Len(t) + 1
            /\ \A i \in 1..Len(a) : a[i] = IF i <= Len(t) THEN t[i] ELSE sep[i - Len(t)]
        BY <2>3, <3>1, ConcatProperties DEF sep
      <3> HIDE DEF a
      <3>3. x = a \o s
        BY <2>2, <2>9
      <3>4. /\ Len(x) = Len(a) + Len(s)
            /\ \A i \in 1..Len(x) : x[i] = IF i <= Len(a) THEN a[i] ELSE s[i - Len(a)]
        <4>1. Len(a \o s) = Len(a) + Len(s)
          BY <2>4, <3>2, ConcatProperties
        <4>2. \A i \in 1..Len(a \o s) : (a \o s)[i] = IF i <= Len(a) THEN a[i] ELSE s[i - Len(a)]
          BY <2>4, <3>2, ConcatProperties
        <4>3. QED BY <3>3, <4>1, <4>2
      <3>5. \A i \in 1..Len(t) : x[i] = t[i]
        BY <2>7, <3>2, <3>4
      <3>6. CASE Len(g) < Len(t)
        <4>1. Len(g) + 1 \in 1..Len(t) /\ \A i \in 1..Len(g) : i \in 1..Len(t)
          BY <1>1, <2>7, <3>6
        <4>2. Cuts(t, g)
          BY <2>6, <3>5, <3>6, <4>1 DEF Cuts
        <4>3. PICK m \in 0..n : k[m] = g
          BY <2>5, <4>2
        <4>4. m \in 0..(n + 1)
          OBVIOUS
        <4>5. QED BY <4>3, <4>4
      <3>7. CASE Len(g) = Len(t)
        <4>1. \A i \in 1..Len(g) : t[i] = g[i]
          BY <2>6, <3>5, <3>7
        <4>2. t = g
          BY <2>3, <3>7, <4>1, SeqEqual
        <4>3. QED BY <2>1, <4>2 DEF t
      <3>8. CASE Len(g) > Len(t)
        <4>1. /\ Len(g) + 1 \in 1..Len(x) /\ ~(Len(g) + 1 <= Len(a))
              /\ (Len(g) + 1) - Len(a) \in 1..Len(s)
          BY <1>1, <2>6, <2>7, <3>2, <3>4, <3>8
        <4>2. x[Len(g) + 1] = s[(Len(g) + 1) - Len(a)]
          BY <3>4, <4>1
        <4>3. QED BY <2>4, <2>6, <4>1, <4>2
      <3>9. QED BY <1>1, <2>7, <3>6, <3>7, <3>8
    <2>10. QED BY <2>8, <2>9
  <1>5. \A n \in Nat : n \in T
    <2> HIDE DEF T
    <2>1. QED BY <1>3, <1>4, Induction
  <1>6. \A n \in 0..L : n \in Nat /\ n <= L
    BY <1>1
  <1>7. QED BY <1>5, <1>6

\* The texts on the way to a joined text are the joined first names.
LEMMA TextsOfPrefixes ==
  ASSUME NEW names \in Seq(DOMAIN Spelling), NEW k \in Texts(names), NEW m \in 0..Len(names)
  PROVE  k[m] = Joined(SubSeq(names, 1, m))
  <1> DEFINE L == Len(names)
             p == SubSeq(names, 1, m)
  <1>1. L \in Nat /\ m \in Nat /\ m <= L /\ \A n \in 1..L : names[n] \in DOMAIN Spelling
    BY LenProperties, ElementOfSeq
  <1>2. \A i \in 1..m : names[i] \in DOMAIN Spelling
    BY <1>1
  <1>3. p \in Seq(DOMAIN Spelling)
    BY <1>1, <1>2, SubSeqProperties
  <1>4. Len(p) = m
    <2>1. Len(p) = IF 1 <= m THEN m - 1 + 1 ELSE 0
      BY <1>1, <1>2, SubSeqProperties
    <2>2. QED BY <1>1, <2>1
  <1>5. \A i \in 1..m : p[i] = names[i]
    <2>1. \A i \in 1..(m - 1 + 1) : p[i] = names[1 + i - 1]
      BY <1>1, <1>2, SubSeqProperties
    <2>2. \A i \in 1..m : i \in 1..(m - 1 + 1) /\ 1 + i - 1 = i
      BY <1>1
    <2>3. QED BY <2>1, <2>2
  <1> HIDE DEF p
  <1>6. PICK h \in Texts(p) : Joined(p) = h[Len(p)]
    BY <1>3, JoinedSteps
  <1>7. h[0] = <<>> /\ \A n \in 1..m : h[n] = NextText(h[n - 1], p[n])
    BY <1>4 DEF Texts
  <1>8. k[0] = <<>> /\ \A n \in 1..L : k[n] = NextText(k[n - 1], names[n])
    BY DEF Texts
  <1> DEFINE T == {n \in Nat : n <= m => h[n] = k[n]}
  <1>9. 0 \in T
    BY <1>7, <1>8
  <1>10. ASSUME NEW n \in Nat, n \in T PROVE n + 1 \in T
    <2> SUFFICES ASSUME n + 1 <= m PROVE h[n + 1] = k[n + 1]
      OBVIOUS
    <2>1. n <= m /\ n + 1 \in 1..m /\ n + 1 \in 1..L /\ (n + 1) - 1 = n
      BY <1>1
    <2>2. h[n] = k[n]
      BY <1>10, <2>1
    <2>3. QED BY <1>5, <1>7, <1>8, <2>1, <2>2
  <1>11. \A n \in Nat : n \in T
    <2> HIDE DEF T
    <2>1. QED BY <1>9, <1>10, Induction
  <1>12. h[m] = k[m]
    BY <1>1, <1>11
  <1>13. QED BY <1>4, <1>6, <1>12 DEF p

\* A root that covers a path in characters covers it in whole names: it is the text of
\* a directory the path is in, or of the path.
LEMMA CoversInNames ==
  ASSUME NEW names \in Seq(DOMAIN Spelling), NEW g \in Seq(Chars),
         root_covers(g, Joined(names))
  PROVE  \E n \in 0..Len(names) : g = Joined(SubSeq(names, 1, n))
  <1> DEFINE L == Len(names)
  <1>1. PICK k \in Texts(names) : Joined(names) = k[L]
    BY JoinedSteps
  <1>2. L \in Nat /\ 0 \in 0..L /\ L \in 0..L
    BY LenProperties
  <1>3. \A n \in 0..L : k[n] = Joined(SubSeq(names, 1, n))
    BY TextsOfPrefixes
  <1>4. k[0] = <<>> /\ k[L] \in Seq(Chars)
    BY <1>2 DEF Texts
  <1> HIDE DEF L
  <1>5. CASE g = <<>>
    BY <1>2, <1>3, <1>4, <1>5 DEF L
  <1>6. CASE g = k[L]
    BY <1>2, <1>3, <1>6 DEF L
  <1>7. CASE IsPrefix(Append(g, "/"), k[L])
    <2>1. Cuts(k[L], g)
      BY <1>4, <1>7, PrefixCuts
    <2>2. PICK m \in 0..L : k[m] = g
      BY <1>2, <2>1, CutIsText DEF L
    <2>3. QED BY <1>3, <2>2 DEF L
  <1>8. QED BY <1>1, <1>5, <1>6, <1>7 DEF root_covers

\* The callers there are; no handler changes who calls.
KnownCaller ==
  caller \in {Permissive, Unknown} \cup {Listed(file) : file \in {f \in GrantsFiles : Loads(f)}}

\* A grants file that is loaded has roots without "..", so every root is the text of
\* whole names.
LEMMA GrantRootsTyped ==
  ASSUME KnownCaller, NEW g \in caller.grants
  PROVE  g = [kind |-> g.kind, root |-> g.root] /\ g.root \in Seq(Chars)
  <1>1. PICK file \in GrantsFiles : Loads(file) /\ g \in parse_json(file)
    BY DEF KnownCaller, Permissive, Unknown, Listed
  <1>2. PICK h \in file : g = [kind |-> h.kind, root |-> normalize_grant_root(h.root)]
    BY <1>1 DEF parse_json
  <1> DEFINE root == h.root
             drop == {"", "."}
             names == Without(root, drop)
  <1>3. root \in Seq(STRING) /\ root \in Seq(DOMAIN Spelling \cup {"", ".", ".."})
    BY NamesSpelled
  <1>4. ~Contains(root, "..")
    BY <1>1 DEF Loads, Climbs
  <1>5. ASSUME NEW i \in 1..Len(root), root[i] \notin drop PROVE root[i] \in DOMAIN Spelling
    <2>1. root[i] \in DOMAIN Spelling \cup {"", ".", ".."}
      BY <1>3, ElementOfSeq
    <2>2. root[i] # ".."
      BY <1>4 DEF Contains
    <2>3. QED BY <1>5, <2>1, <2>2
  <1> HIDE DEF root, drop
  <1>6. names \in Seq(DOMAIN Spelling)
    BY <1>3, <1>5, WithoutNames
  <1>7. normalize_grant_root(root) = Joined(names)
    BY DEF normalize_grant_root, drop
  <1> HIDE DEF names
  <1>8. Joined(names) \in Seq(Chars)
    <2>1. PICK k \in Texts(names) : Joined(names) = k[Len(names)]
      BY <1>6, JoinedSteps
    <2>2. Len(names) \in 0..Len(names)
      BY <1>6, LenProperties
    <2>3. QED BY <2>1, <2>2 DEF Texts
  <1>9. QED BY <1>2, <1>7, <1>8 DEF root

\* check_fs_grant compares characters; what it lets through is in a granted directory
\* in whole names.
LEMMA GrantedHolds ==
  ASSUME KnownCaller, NEW loc \in Places, NEW kind, Granted(kind, loc)
  PROVE  Holds(kind, loc)
  <1> SUFFICES ASSUME caller.mode # "permissive" PROVE Holds(kind, loc)
    BY DEF Holds
  <1> DEFINE above == {i \in DOMAIN Roots : Under(Roots[i], loc)}
             j == Min(above)
             R == Len(Roots[j])
             rel == SubSeq(loc, R + 1, Len(loc))
  <1>1. above # {} /\ relativize(loc).loc = rel
    BY DEF Granted, relativize, Ok, Err
  <1>2. PICK g \in caller.grants : g.kind = kind /\ root_covers(g.root, Joined(rel))
    BY <1>1 DEF Granted, check_fs_grant, grants_allow_fs
  <1>3. j \in above
    <2>1. above \subseteq Nat
      BY RootsTyped
    <2>2. QED BY <1>1, <2>1, LeastIsIn
  <1>4. j \in DOMAIN Roots /\ Under(Roots[j], loc) /\ Roots[j] \in Seq(STRING)
    BY <1>3, RootsTyped
  <1> HIDE DEF j, above
  <1>5. loc \in Seq(STRING) /\ loc \in Seq(DOMAIN Spelling)
    BY PlacesTyped
  <1>6. R \in Nat /\ Len(loc) \in Nat /\ R <= Len(loc)
    BY <1>4, <1>5, LenProperties DEF Under, IsPrefix
  <1> HIDE DEF R
  <1>7. \A i \in 1..Len(loc) : loc[i] \in DOMAIN Spelling
    BY <1>5, ElementOfSeq
  <1>8. \A i \in (R + 1)..Len(loc) : loc[i] \in DOMAIN Spelling
    BY <1>6, <1>7
  <1>9. rel \in Seq(DOMAIN Spelling)
    BY <1>6, <1>8, SubSeqProperties
  <1>10. Len(rel) = Len(loc) - R
    <2>1. Len(rel) = IF R + 1 <= Len(loc) THEN Len(loc) - (R + 1) + 1 ELSE 0
      BY <1>6, <1>8, SubSeqProperties
    <2> HIDE DEF rel
    <2>2. QED BY <1>6, <2>1
  <1>11. \A i \in 1..(Len(loc) - (R + 1) + 1) : rel[i] = loc[(R + 1) + i - 1]
    BY <1>6, <1>8, SubSeqProperties
  <1> HIDE DEF rel
  <1>12. g = [kind |-> kind, root |-> g.root] /\ g.root \in Seq(Chars)
    BY <1>2, GrantRootsTyped
  <1>13. PICK m \in 0..Len(rel) : g.root = Joined(SubSeq(rel, 1, m))
    BY <1>2, <1>9, <1>12, CoversInNames
  <1>14. SubSeq(rel, 1, m) = SubSeq(loc, R + 1, R + m)
    <2>1. ASSUME NEW i \in 1..m
          PROVE  rel[i] \in DOMAIN Spelling /\ loc[i + ((R + 1) - 1)] = rel[i]
      <3>1. /\ i \in 1..(Len(loc) - (R + 1) + 1) /\ (R + 1) + i - 1 = i + ((R + 1) - 1)
            /\ i + ((R + 1) - 1) \in 1..Len(loc)
        BY <1>6, <1>10
      <3>2. QED BY <1>7, <1>11, <3>1
    <2>2. m \in Int /\ R \in Int /\ R + m \in Int /\ R + 1 \in Int /\ m - 1 = (R + m) - (R + 1)
      BY <1>6, <1>10
    <2>3. QED BY <2>1, <2>2, SameSubSeq
  <1>15. R + m \in R..Len(loc)
    BY <1>6, <1>10
  <1>16. [kind |-> kind, root |-> Joined(SubSeq(loc, Len(Roots[j]) + 1, R + m))] \in caller.grants
    BY <1>12, <1>13, <1>14 DEF R
  <1>17. QED BY <1>4, <1>15, <1>16 DEF Holds, R

\* A scope on a directory is one on what is below it.
LEMMA HoldsBelow ==
  ASSUME NEW loc \in Seq(STRING), NEW r \in Seq(STRING), NEW kind, Holds(kind, loc)
  PROVE  Holds(kind, loc \o r)
  <1> SUFFICES ASSUME caller.mode # "permissive" PROVE Holds(kind, loc \o r)
    BY DEF Holds
  <1> DEFINE x == loc \o r
  <1>0. PICK i \in DOMAIN Roots : \E n \in Len(Roots[i])..Len(loc) :
           /\ Under(Roots[i], loc)
           /\ [kind |-> kind, root |-> Joined(SubSeq(loc, Len(Roots[i]) + 1, n))] \in caller.grants
    BY DEF Holds
  <1> DEFINE root == Roots[i]
             R == Len(root)
  <1>1. PICK n \in R..Len(loc) :
           /\ Under(root, loc)
           /\ [kind |-> kind, root |-> Joined(SubSeq(loc, R + 1, n))] \in caller.grants
    BY <1>0
  <1>2. root \in Seq(STRING) /\ R \in Nat /\ Len(loc) \in Nat /\ Len(r) \in Nat
    BY RootsTyped, LenProperties
  <1>3. x \in Seq(STRING) /\ Len(x) = Len(loc) + Len(r)
    BY ConcatProperties
  <1>4. \A k \in 1..Len(x) : x[k] = IF k <= Len(loc) THEN loc[k] ELSE r[k - Len(loc)]
    BY ConcatProperties
  <1>5. Under(root, x)
    <2>1. PICK q \in Seq(STRING) : loc = root \o q
      BY <1>1, <1>2, PrefixSplit DEF Under
    <2>2. x = root \o (q \o r) /\ q \o r \in Seq(STRING)
      BY <1>2, <2>1, ConcatTwice
    <2> HIDE DEF x, root
    <2>3. QED BY <1>2, <1>3, <2>2, PrefixSplit DEF Under
  <1> HIDE DEF x, root
  <1>6. n \in Int /\ n <= Len(loc) /\ R <= n /\ R + 1 \in Int
    BY <1>1, <1>2 DEF root
  <1> HIDE DEF R
  <1>7. SubSeq(loc, R + 1, n) = SubSeq(x, R + 1, n)
    <2>1. ASSUME NEW k \in (R + 1)..n
          PROVE  loc[k] \in STRING /\ x[k + ((R + 1) - (R + 1))] = loc[k]
      <3>1. /\ k \in 1..Len(loc) /\ k \in 1..Len(x) /\ k <= Len(loc)
            /\ k + ((R + 1) - (R + 1)) = k
        BY <1>2, <1>3, <1>6
      <3>2. QED BY <1>4, <3>1, ElementOfSeq
    <2>2. n - (R + 1) = n - (R + 1)
      OBVIOUS
    <2>3. QED BY <1>6, <2>1, <2>2, SameSubSeq
  <1>8. n \in R..Len(x)
    BY <1>2, <1>3, <1>6
  <1>9. QED BY <1>1, <1>5, <1>7, <1>8 DEF Holds, R, root, x

\* What is read is there, so the location the caller was admitted to is the one behind
\* all links.
LEMMA ReadsHold ==
  ASSUME KnownCaller, tree \in Trees, NEW path \in Requests, NEW kind,
         Following(kind, path).tag = "ok",
         Stat(tree, Following(kind, path).loc) \notin {"not_found", "io"}
  PROVE  Holds(kind, canonicalize(tree, Following(kind, path).loc).loc)
  <1> DEFINE loc == Following(kind, path).loc
  <1>1. /\ loc \in Places /\ Granted(kind, loc)
        /\ Canonical(tree, loc) \/ canonicalize(tree, loc).tag = "not_found"
    BY FollowingOk
  <1>2. IsTree(tree)
    BY NamesGiven
  <1> HIDE DEF loc
  <1>3. canonicalize(tree, loc).tag # "not_found"
    <2> DEFINE found == canonicalize(tree, loc)
    <2> SUFFICES ASSUME found.tag = "not_found" PROVE FALSE
      OBVIOUS
    <2> HIDE DEF found
    <2>1. Stat(tree, loc) = "not_found"
      BY DEF Stat, found
    <2>2. QED BY <2>1 DEF loc
  <1>4. canonicalize(tree, loc) = Ok(loc)
    BY <1>1, <1>2, <1>3, CanonicalStays
  <1>5. canonicalize(tree, loc).loc = loc
    BY <1>4 DEF Ok
  <1>6. Holds(kind, loc)
    BY <1>1, GrantedHolds
  <1>7. QED BY <1>5, <1>6 DEF loc

\* A write of one entry changes that one.
LEMMA OnlyPut ==
  ASSUME NEW t, NEW loc, NEW node, NEW x, At(Put(t, loc, node), x) # At(t, x)
  PROVE  x = loc
  BY DEF Put, At

\* Who calls stays the same.
LEMMA CallerKnown == Spec => []KnownCaller
  <1>1. Init => KnownCaller
    BY DEF Init, KnownCaller
  <1>2. KnownCaller /\ [Next]_vars => KnownCaller'
    <2> SUFFICES ASSUME [Next]_vars PROVE caller' = caller
      BY DEF KnownCaller
    <2>1. QED BY DEF Next, vars, Answer, handle_read_file, handle_list_directory,
                    handle_get_file_metadata, handle_write_file, handle_create_directory,
                    handle_rename, handle_delete_file
  <1>3. QED BY <1>1, <1>2, PTL DEF Spec

\* The handlers, for every tree with any links, every grants file that loads, every
\* spelling of the names and every request: what is read lies in the caller's scope
\* and what write_file, rename and delete change does too.
THEOREM HandlersActWithinGrants == Spec => ActsWithinGrants
  <1> DEFINE Changes == request'.op # "mkdir" =>
                 \A loc \in DOMAIN tree \cup DOMAIN tree' :
                    At(tree', loc) # At(tree, loc) => Holds("write", loc)
             Reads == reply'.tag = "ok" /\ request'.op \in {"read", "metadata"} =>
                         Holds("read", canonicalize(tree, reply'.loc).loc)
             Lists == reply'.tag = "ok" /\ request'.op = "list" =>
                         Holds("list", canonicalize(tree, reply'.loc).loc)
  <1>1. Waiting /\ KnownCaller /\ [Next]_vars => [Reads /\ Lists /\ Changes]_vars
    <2> SUFFICES ASSUME Waiting, KnownCaller, Next PROVE Reads /\ Lists /\ Changes
      OBVIOUS
    <2>1. request = NoRequest
      BY DEF Next, handle_read_file, handle_list_directory, handle_get_file_metadata,
             handle_write_file, handle_create_directory, handle_rename, handle_delete_file
    <2>2. tree \in Trees /\ IsTree(tree)
      BY <2>1, NamesGiven DEF Waiting
    <2>3. CASE handle_read_file
      <3>1. PICK path \in Requests :
               Answer("read", path, <<>>, read_file(Following("read", path)), tree)
        BY <2>3 DEF handle_read_file
      <3> DEFINE got == Following("read", path)
      <3>2. reply' = read_file(got) /\ request'.op = "read" /\ tree' = tree
        BY <3>1 DEF Answer
      <3>3. ASSUME reply'.tag = "ok" PROVE Holds("read", canonicalize(tree, reply'.loc).loc)
        <4>1. reply' = got /\ got.tag = "ok" /\ Stat(tree, got.loc) \notin {"not_found", "io"}
          <5> HIDE DEF got
          <5>1. QED BY <3>2, <3>3, ReadFileOk
        <4>2. QED BY <2>2, <4>1, ReadsHold
      <3>4. QED BY <3>2, <3>3
    <2>4. CASE handle_get_file_metadata
      <3>1. PICK path \in Requests :
               Answer("metadata", path, <<>>, file_metadata(Following("read", path)), tree)
        BY <2>4 DEF handle_get_file_metadata
      <3> DEFINE got == Following("read", path)
      <3>2. reply' = file_metadata(got) /\ request'.op = "metadata" /\ tree' = tree
        BY <3>1 DEF Answer
      <3>3. ASSUME reply'.tag = "ok" PROVE Holds("read", canonicalize(tree, reply'.loc).loc)
        <4>1. reply' = got /\ got.tag = "ok" /\ Stat(tree, got.loc) \notin {"not_found", "io"}
          <5> HIDE DEF got
          <5>1. QED BY <3>2, <3>3, FileMetadataOk
        <4>2. QED BY <2>2, <4>1, ReadsHold
      <3>4. QED BY <3>2, <3>3
    <2>5. CASE handle_list_directory
      <3>1. PICK path \in Requests :
               Answer("list", path, <<>>, list_directory(Following("list", path)), tree)
        BY <2>5 DEF handle_list_directory
      <3> DEFINE got == Following("list", path)
      <3>2. reply' = list_directory(got) /\ request'.op = "list" /\ tree' = tree
        BY <3>1 DEF Answer
      <3>3. ASSUME reply'.tag = "ok" PROVE Holds("list", canonicalize(tree, reply'.loc).loc)
        <4>1. reply' = got /\ got.tag = "ok" /\ Stat(tree, got.loc) \notin {"not_found", "io"}
          <5> HIDE DEF got
          <5>1. QED BY <3>2, <3>3, ListDirectoryOk
        <4>2. QED BY <2>2, <4>1, ReadsHold
      <3>4. QED BY <3>2, <3>3
    <2>6. CASE handle_write_file
      <3>1. request'.op = "write"
        BY <2>6 DEF handle_write_file, Answer
      <3>2. CASE tree' = tree
        BY <3>1, <3>2
      <3>3. ASSUME NEW loc \in Places, tree' = Put(tree, loc, File), Granted("write", loc)
            PROVE  \A x \in DOMAIN tree \cup DOMAIN tree' :
                      At(tree', x) # At(tree, x) => Holds("write", x)
        <4>1. Holds("write", loc)
          BY <3>3, GrantedHolds
        <4>2. QED BY <3>3, <4>1, OnlyPut
      <3>4. QED BY <2>2, <2>6, <3>1, <3>2, <3>3, WriteChanges
    <2>7. CASE handle_delete_file
      <3>1. request'.op = "delete"
        BY <2>7 DEF handle_delete_file, Answer
      <3>2. CASE tree' = tree
        BY <3>1, <3>2
      <3>3. ASSUME NEW loc \in Places, tree' = Put(tree, loc, Absent), Granted("write", loc)
            PROVE  \A x \in DOMAIN tree \cup DOMAIN tree' :
                      At(tree', x) # At(tree, x) => Holds("write", x)
        <4>1. Holds("write", loc)
          BY <3>3, GrantedHolds
        <4>2. QED BY <3>3, <4>1, OnlyPut
      <3>4. QED BY <2>2, <2>7, <3>1, <3>2, <3>3, DeleteChanges
    <2>8. CASE handle_rename
      <3>1. request'.op = "rename"
        BY <2>8 DEF handle_rename, Answer
      <3>2. CASE tree' = tree
        BY <3>1, <3>2
      <3>3. ASSUME NEW src \in Places, NEW dst \in Places,
                   tree' = MoveEntry(tree, src, dst), src # <<>>, dst # <<>>,
                   At(tree, src) # Absent, Granted("write", src), Granted("write", dst)
            PROVE  \A x \in DOMAIN tree \cup DOMAIN tree' :
                      At(tree', x) # At(tree, x) => Holds("write", x)
        <4>1. Holds("write", src) /\ Holds("write", dst)
          BY <3>3, GrantedHolds
        <4>2. src \in Seq(STRING) /\ dst \in Seq(STRING)
          BY PlacesTyped
        <4>3. src \in DOMAIN tree /\ tree[src] # Absent
          BY <3>3 DEF At
        <4>4. Moved(tree, src, dst, tree')
          BY <2>2, <3>3, <4>2, <4>3, MoveEntryMoves
        <4>5. \A r \in Taken(tree, src) : Holds("write", src \o r) /\ Holds("write", dst \o r)
          BY <4>1, <4>2, HoldsBelow DEF Taken
        <4>6. ASSUME NEW x, At(tree', x) # At(tree, x) PROVE Holds("write", x)
          <5>1. CASE \E r \in Taken(tree, src) : x = dst \o r
            BY <4>5, <5>1
          <5>2. CASE \E r \in Taken(tree, src) : x = src \o r
            BY <4>5, <5>2
          <5>3. CASE ~(\E r \in Taken(tree, src) : x = dst \o r) /\ ~(\E r \in Taken(tree, src) : x = src \o r)
            BY <4>4, <4>6, <5>3 DEF Moved
          <5>4. QED BY <5>1, <5>2, <5>3
        <4>7. QED BY <4>6
      <3>4. QED BY <2>2, <2>8, <3>1, <3>2, <3>3, RenameChanges
    <2>9. CASE handle_create_directory
      BY <2>9 DEF handle_create_directory, Answer
    <2>10. QED BY <2>3, <2>4, <2>5, <2>6, <2>7, <2>8, <2>9 DEF Next
  <1>2. QED BY <1>1, WaitingHolds, CallerKnown, PTL DEF Spec, ActsWithinGrants
=============================================================================
