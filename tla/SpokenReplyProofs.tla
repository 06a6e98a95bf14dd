------------------------- MODULE SpokenReplyProofs -------------------------
(***************************************************************************)
(* What holds of a spoken reply for every text Claude may write, however   *)
(* the deltas cut it, and for every limit.                                 *)
(*                                                                         *)
(* The operators of SpeechText and Mirror work on sequences token by       *)
(* token.  Facts about them are proved by induction with a set in place of *)
(* a predicate: the sequences of which the fact holds include the empty    *)
(* one and are closed under Append (SeqInduction).  A recursive function,  *)
(* one in the definition of FlattenSeq, Parts or Chunked, is unfolded      *)
(* because such a function exists (FiniteRecursion).                       *)
(*                                                                         *)
(* First the operators, from flattening up to feed, sanitize_for_speech    *)
(* and _chunks; then three inductive invariants: TypeInv with the lengths, *)
(* NothingIsLost and Posted for the words, and Fed for where sentences end.*)
(* The last one is the difficult one.  That the streamer is done with a    *)
(* part of the prose means that no sentence ends behind it yet (Settled),  *)
(* and that what is fed later moves no end within it: every delta is       *)
(* followed by a newline, and behind a newline no full stop is undecided.  *)
(*                                                                         *)
(* Together they show that a turn implements Relay, twice.                 *)
(***************************************************************************)
EXTENDS SpokenReply, SequenceTheorems, WellFoundedInduction, TLAPS

-----------------------------------------------------------------------------
(* Induction and recursion, with sets and functions in place of operators. *)

\* A set of numbers that holds 0 and with each number the next one holds every
\* number: induction over Nat, by the smallest number missing.
LEMMA SetInduction ==
  ASSUME NEW T, T \subseteq Nat, 0 \in T, \A n \in T : n + 1 \in T
  PROVE  T = Nat
<1> DEFINE R == OpToRel(<, Nat)
           U == Nat \ T
<1>1. SUFFICES ASSUME U # {} PROVE FALSE
  OBVIOUS
<1>2. IsWellFoundedOn(R, Nat)
  BY NatLessThanWellFounded
<1> HIDE DEF R
<1>3. PICK x \in U : \A y \in U : ~(<<y, x>> \in R)
  BY <1>1, <1>2, WFMin
<1>4. x \in Nat /\ x # 0 /\ x \notin T
  BY <1>3
<1>5. x - 1 \in Nat /\ <<x - 1, x>> \in R
  BY <1>4 DEF R, OpToRel
<1>6. x - 1 \in T
  BY <1>3, <1>5
<1> QED
  BY <1>4, <1>5, <1>6

\* A set of sequences over S that holds the empty one, and with each sequence
\* what Append makes of it, holds every sequence over S.
LEMMA SeqInduction ==
  ASSUME NEW S, NEW T, T \subseteq Seq(S), <<>> \in T,
         \A s \in T, e \in S : Append(s, e) \in T
  PROVE  T = Seq(S)
<1> DEFINE N == {n \in Nat : \A s \in Seq(S) : Len(s) = n => s \in T}
<1>1. 0 \in N
  <2> SUFFICES ASSUME NEW s \in Seq(S), Len(s) = 0 PROVE s \in T
    OBVIOUS
  <2> s = <<>>
    BY EmptySeq
  <2> QED
    OBVIOUS
<1>2. ASSUME NEW n \in N PROVE n + 1 \in N
  <2> SUFFICES ASSUME NEW s \in Seq(S), Len(s) = n + 1 PROVE s \in T
    OBVIOUS
  <2>1. s # <<>>
    BY EmptySeq
  <2>2. PICK u \in Seq(S), e \in S : s = Append(u, e)
    BY <2>1, SequenceEmptyOrAppend
  <2>3. Len(u) = n
    BY <2>2, AppendProperties, LenProperties
  <2> QED
    BY <2>2, <2>3
<1>3. N = Nat
  <2> N \subseteq Nat
    OBVIOUS
  <2> HIDE DEF N
  <2> QED
    BY <1>1, <1>2, SetInduction
<1> QED
  BY <1>3, LenProperties

\* f begins with b, and its k-th value is what g[k] makes of the one before.
Iterates(f, S, b, n, g) ==
  f \in [0..n -> S] /\ f[0] = b /\ \A k \in 1..n : f[k] = g[k][f[k - 1]]

\* A function that is given at 0 and, step by step, from its value at the number
\* before exists: what lets a recursive definition be unfolded.
LEMMA FiniteRecursion ==
  ASSUME NEW S, NEW b \in S, NEW n \in Nat, NEW g \in [1..n -> [S -> S]]
  PROVE  \E f : Iterates(f, S, b, n, g)
<1> DEFINE Upto(m, f) == f[0] = b /\ \A k \in 1..m : f[k] = g[k][f[k - 1]]
           T == {m \in Nat : m <= n => \E f \in [0..m -> S] : Upto(m, f)}
<1>1. 0 \in T
  <2> DEFINE f == [k \in 0..0 |-> b]
  <2>1. f \in [0..0 -> S] /\ Upto(0, f)
    OBVIOUS
  <2> QED
    BY <2>1
<1>2. ASSUME NEW m \in T PROVE m + 1 \in T
  <2>1. SUFFICES ASSUME m + 1 <= n PROVE \E f \in [0..(m + 1) -> S] : Upto(m + 1, f)
    <3> m + 1 \in Nat
      OBVIOUS
    <3> HIDE DEF Upto
    <3> QED
      OBVIOUS
  <2>2. PICK f \in [0..m -> S] : Upto(m, f)
    BY <2>1
  <2> DEFINE h == [k \in 0..(m + 1) |-> IF k = m + 1 THEN g[m + 1][f[m]] ELSE f[k]]
  <2>3. h \in [0..(m + 1) -> S]
    <3>1. g[m + 1] \in [S -> S] /\ f[m] \in S
      BY <2>1
    <3> QED
      BY <3>1
  <2>4. h[0] = b
    BY <2>2
  <2>5. ASSUME NEW k \in 1..(m + 1) PROVE h[k] = g[k][h[k - 1]]
    <3>1. CASE k = m + 1
      <4>1. h[m] = f[m] /\ h[m + 1] = g[m + 1][f[m]] /\ k - 1 = m
        BY <3>1
      <4> QED
        BY <3>1, <4>1
    <3>2. CASE k # m + 1
      <4>1. h[k] = f[k] /\ h[k - 1] = f[k - 1] /\ k \in 1..m
        BY <3>2
      <4> QED
        BY <4>1, <2>2
    <3> QED
      BY <3>1, <3>2
  <2> HIDE DEF h
  <2> QED
    BY <2>1, <2>3, <2>4, <2>5
<1>3. T = Nat
  <2> T \subseteq Nat
    OBVIOUS
  <2> HIDE DEF T
  <2> QED
    BY <1>1, <1>2, SetInduction
<1> QED
  BY <1>3 DEF Iterates

-----------------------------------------------------------------------------
(* FlattenSeq.                                                             *)

\* FlattenSeq is the last value of a function that adds one text after another.
LEMMA FlattenFunction ==
  ASSUME NEW S, NEW ts \in Seq(Seq(S)), ts # <<>>
  PROVE  \E f \in [1..Len(ts) -> Seq(S)] :
           /\ f[1] = ts[1]
           /\ \A i \in 2..Len(ts) : f[i] = f[i - 1] \o ts[i]
           /\ FlattenSeq(ts) = f[Len(ts)]
<1> DEFINE n == Len(ts)
           Is(f) == f = [i \in 1..n |-> IF i = 1 THEN ts[i] ELSE f[i - 1] \o ts[i]]
           g == [k \in 1..n |-> [s \in Seq(S) |-> s \o ts[k]]]
<1>1. n \in Nat \ {0} /\ <<>> \in Seq(S) /\ \A k \in 1..n : ts[k] \in Seq(S)
  BY EmptySeq, LenProperties
<1>2. g \in [1..n -> [Seq(S) -> Seq(S)]]
  BY <1>1, ConcatProperties
<1>3. PICK f : Iterates(f, Seq(S), <<>>, n, g)
  <2>1. n \in Nat
    BY <1>1
  <2> HIDE DEF g, n, Is
  <2> QED
    BY <1>1, <1>2, <2>1, FiniteRecursion
<1>4. ASSUME NEW k \in 1..n PROVE f[k] = f[k - 1] \o ts[k]
  <2>1. f[k] = g[k][f[k - 1]] /\ f[k - 1] \in Seq(S)
    <3> k - 1 \in 0..n
      BY <1>1
    <3> HIDE DEF g, n
    <3> QED
      BY <1>3 DEF Iterates
  <2>2. g[k] = [s \in Seq(S) |-> s \o ts[k]]
    OBVIOUS
  <2> QED
    BY <2>1, <2>2
<1>5. f[1] = ts[1]
  <2> HIDE DEF n, g, Is
  <2>1. f[1] = f[0] \o ts[1]
    <3> 1 \in 1..n /\ 1 - 1 = 0
      BY <1>1
    <3> QED
      BY <1>4
  <2> QED
    BY <2>1, <1>1, <1>3, ConcatEmptySeq DEF Iterates
<1> DEFINE h == [i \in 1..n |-> f[i]]
<1>6. Is(h)
  <2>1. ASSUME NEW i \in 1..n PROVE h[i] = IF i = 1 THEN ts[i] ELSE h[i - 1] \o ts[i]
    <3>1. CASE i = 1
      BY <3>1, <1>5
    <3>2. CASE i # 1
      <4>1. h[i] = f[i] /\ h[i - 1] = f[i - 1]
        BY <1>1, <3>2
      <4> HIDE DEF g, h
      <4> QED
        BY <3>2, <4>1, <1>4
    <3> QED
      BY <3>1, <3>2
  <2> QED
    BY <2>1
<1> DEFINE c == CHOOSE x : Is(x)
<1>7. Is(c)
  <2> HIDE DEF Is, h
  <2> QED
    BY <1>6
<1>8. FlattenSeq(ts) = c[n]
  BY <1>1 DEF FlattenSeq
<1> HIDE DEF c, g, h
<1>9. c[1] = ts[1] /\ \A i \in 2..n : c[i] = c[i - 1] \o ts[i]
  <2> HIDE DEF n
  <2>1. \A i \in 1..n : c[i] = IF i = 1 THEN ts[i] ELSE c[i - 1] \o ts[i]
    BY <1>7
  <2>2. 1 \in 1..n /\ \A i \in 2..n : i \in 1..n /\ i # 1
    BY <1>1
  <2> HIDE DEF Is
  <2> QED
    BY <2>1, <2>2
<1> HIDE DEF n, Is
<1> DEFINE T == {k \in Nat : k + 1 <= n => c[k + 1] \in Seq(S)}
<1>10. T = Nat
  <2>1. 0 \in T
    BY <1>1, <1>9
  <2>2. ASSUME NEW k \in T PROVE k + 1 \in T
    <3> SUFFICES ASSUME k + 2 <= n PROVE c[k + 2] \in Seq(S)
      OBVIOUS
    <3>1. k + 2 \in 2..n /\ k + 2 \in 1..n /\ (k + 2) - 1 = k + 1 /\ (k + 1) + 1 = k + 2
      BY <1>1
    <3>2. c[k + 2] = c[k + 1] \o ts[k + 2]
      BY <3>1, <1>9
    <3>3. c[k + 1] \in Seq(S) /\ ts[k + 2] \in Seq(S)
      BY <3>1, <1>1
    <3> QED
      BY <3>2, <3>3, ConcatProperties
  <2> T \subseteq Nat
    OBVIOUS
  <2> HIDE DEF T
  <2> QED
    BY <2>1, <2>2, SetInduction
<1>11. c \in [1..n -> Seq(S)]
  <2>1. \A i \in 1..n : c[i] \in Seq(S)
    <3> SUFFICES ASSUME NEW i \in 1..n PROVE c[i] \in Seq(S)
      OBVIOUS
    <3>1. i - 1 \in Nat /\ (i - 1) + 1 = i /\ i <= n
      BY <1>1
    <3>2. i - 1 \in T
      BY <3>1, <1>10
    <3> QED
      BY <3>1, <3>2
  <2> QED
    BY <1>7, <2>1 DEF Is
<1> QED
  BY <1>8, <1>9, <1>11 DEF n

\* Nothing flattens to nothing.
LEMMA FlattenEmpty == FlattenSeq(<<>>) = <<>>
  BY DEF FlattenSeq

\* A text appended to a list of texts is appended to what the list flattens to.
LEMMA FlattenAppend ==
  ASSUME NEW S, NEW ts \in Seq(Seq(S)), NEW t \in Seq(S)
  PROVE  /\ FlattenSeq(ts) \in Seq(S)
         /\ FlattenSeq(Append(ts, t)) = FlattenSeq(ts) \o t
<1> DEFINE us == Append(ts, t)
           n == Len(ts)
<1>1. /\ n \in Nat /\ us \in Seq(Seq(S)) /\ us # <<>> /\ Len(us) = n + 1
      /\ us[n + 1] = t /\ \A i \in 1..n : us[i] = ts[i]
  BY AppendProperties, LenProperties
<1> HIDE DEF us, n
<1>2. PICK g \in [1..(n + 1) -> Seq(S)] :
        /\ g[1] = us[1]
        /\ \A i \in 2..(n + 1) : g[i] = g[i - 1] \o us[i]
        /\ FlattenSeq(us) = g[n + 1]
  <2>1. \E g \in [1..Len(us) -> Seq(S)] :
          /\ g[1] = us[1]
          /\ \A i \in 2..Len(us) : g[i] = g[i - 1] \o us[i]
          /\ FlattenSeq(us) = g[Len(us)]
    BY <1>1, FlattenFunction
  <2> QED
    BY <1>1, <2>1
<1>3. CASE ts = <<>>
  <2>1. n = 0
    BY <1>3, EmptySeq DEF n
  <2>2. FlattenSeq(us) = t
    BY <2>1, <1>1, <1>2
  <2>3. FlattenSeq(ts) = <<>> /\ <<>> \in Seq(S) /\ <<>> \o t = t
    BY <1>3, FlattenEmpty, EmptySeq, ConcatEmptySeq
  <2> QED
    BY <2>2, <2>3 DEF us
<1>4. CASE ts # <<>>
  <2>1. n \in Nat \ {0}
    BY <1>4, EmptySeq DEF n
  <2>2. PICK f \in [1..n -> Seq(S)] :
          /\ f[1] = ts[1]
          /\ \A i \in 2..n : f[i] = f[i - 1] \o ts[i]
          /\ FlattenSeq(ts) = f[n]
    BY <1>4, FlattenFunction DEF n
  <2> DEFINE T == {k \in Nat : k + 1 <= n => f[k + 1] = g[k + 1]}
  <2>3. 0 \in T
    <3> 1 \in 1..n
      BY <2>1
    <3> QED
      BY <1>1, <1>2, <2>2
  <2>4. ASSUME NEW k \in T PROVE k + 1 \in T
    <3> SUFFICES ASSUME (k + 1) + 1 <= n PROVE f[(k + 1) + 1] = g[(k + 1) + 1]
      OBVIOUS
    <3> DEFINE j == (k + 1) + 1
    <3>1. j \in 2..n /\ j \in 2..(n + 1) /\ j \in 1..n /\ j - 1 = k + 1 /\ k + 1 <= n
      BY <2>1
    <3> HIDE DEF j
    <3>2. f[j - 1] = g[j - 1]
      BY <3>1
    <3> HIDE DEF T
    <3>3. f[j] = g[j]
      BY <3>1, <3>2, <1>1, <1>2, <2>2
    <3> QED
      BY <3>3 DEF j
  <2>5. T = Nat
    <3> T \subseteq Nat
      OBVIOUS
    <3> HIDE DEF T
    <3> QED
      BY <2>3, <2>4, SetInduction
  <2>6. f[n] = g[n]
    <3> HIDE DEF T
    <3>1. n - 1 \in Nat /\ (n - 1) + 1 = n /\ n <= n
      BY <2>1
    <3>2. n - 1 \in T
      BY <3>1, <2>5
    <3> QED
      BY <3>1, <3>2 DEF T
  <2>7. g[n + 1] = g[n] \o t
    <3> n + 1 \in 2..(n + 1) /\ (n + 1) - 1 = n
      BY <2>1
    <3> QED
      BY <1>1, <1>2
  <2>8. f[n] \in Seq(S)
    BY <2>1
  <2> QED
    BY <1>2, <2>2, <2>6, <2>7, <2>8 DEF us
<1> QED
  BY <1>3, <1>4

\* Two lists of texts flatten to what the one flattens to, followed by the
\* other.
LEMMA FlattenConcat ==
  ASSUME NEW S, NEW ss \in Seq(Seq(S)), NEW ts \in Seq(Seq(S))
  PROVE  FlattenSeq(ss \o ts) = FlattenSeq(ss) \o FlattenSeq(ts)
<1> DEFINE E == Seq(S)
           T == {us \in Seq(E) : FlattenSeq(ss \o us) = FlattenSeq(ss) \o FlattenSeq(us)}
<1>1. <<>> \in T
  <2>1. FlattenSeq(ss) \in Seq(S)
    BY FlattenAppend, EmptySeq
  <2> QED
    BY <2>1, FlattenEmpty, ConcatEmptySeq, EmptySeq
<1>2. ASSUME NEW us \in T, NEW u \in E PROVE Append(us, u) \in T
  <2>1. ss \o us \in Seq(E) /\ ss \o Append(us, u) = Append(ss \o us, u) /\ Append(us, u) \in Seq(E)
    <3>1. <<u>> \in Seq(E) /\ ss \o us \in Seq(E)
      BY ConcatProperties
    <3>2. Append(us, u) = us \o <<u>> /\ Append(ss \o us, u) = (ss \o us) \o <<u>>
      BY <3>1, AppendIsConcat
    <3> QED
      BY <3>1, <3>2, ConcatAssociative, AppendProperties
  <2>2. FlattenSeq(ss \o Append(us, u)) = (FlattenSeq(ss) \o FlattenSeq(us)) \o u
    BY <2>1, FlattenAppend
  <2>3. /\ FlattenSeq(Append(us, u)) = FlattenSeq(us) \o u
        /\ FlattenSeq(ss) \in Seq(S) /\ FlattenSeq(us) \in Seq(S)
    BY FlattenAppend
  <2>4. (FlattenSeq(ss) \o FlattenSeq(us)) \o u = FlattenSeq(ss) \o (FlattenSeq(us) \o u)
    BY <2>3, ConcatAssociative
  <2>5. FlattenSeq(ss \o Append(us, u)) = FlattenSeq(ss) \o FlattenSeq(Append(us, u))
    BY <2>2, <2>3, <2>4
  <2> QED
    BY <2>1, <2>5
<1> HIDE DEF T
<1>3. T = Seq(E)
  <2> T \subseteq Seq(E)
    BY DEF T
  <2> QED
    BY <1>1, <1>2, SeqInduction
<1> QED
  BY <1>3 DEF T

-----------------------------------------------------------------------------
(* Kept.                                                                   *)

\* Nothing is kept of nothing.
LEMMA KeptEmpty == \A V : Kept(<<>>, V) = <<>>
<1> SUFFICES ASSUME NEW V PROVE Kept(<<>>, V) = <<>>
  OBVIOUS
<1> [k \in DOMAIN <<>> |-> IF <<>>[k] \in V THEN << <<>>[k]>> ELSE <<>>] = <<>>
  OBVIOUS
<1> QED
  BY FlattenEmpty DEF Kept

\* The filter of the code's list comprehensions, one element at a time: an
\* element is kept at the end, or dropped, and the rest is as it was.
LEMMA KeptAppend ==
  ASSUME NEW S, NEW s \in Seq(S), NEW e \in S, NEW V
  PROVE  /\ Kept(s, V) \in Seq(S)
         /\ Kept(Append(s, e), V) = IF e \in V THEN Append(Kept(s, V), e) ELSE Kept(s, V)
<1> DEFINE t == Append(s, e)
           One(x) == IF x \in V THEN <<x>> ELSE <<>>
           F == [k \in DOMAIN s |-> One(s[k])]
           G == [k \in DOMAIN t |-> One(t[k])]
<1>1. /\ t \in Seq(S) /\ Len(t) = Len(s) + 1 /\ DOMAIN t = 1..(Len(s) + 1)
      /\ DOMAIN s = 1..Len(s) /\ Len(s) \in Nat
      /\ t[Len(s) + 1] = e /\ \A k \in 1..Len(s) : t[k] = s[k] /\ s[k] \in S
  BY AppendProperties, LenProperties
<1>2. \A x \in S : One(x) \in Seq(S)
  OBVIOUS
<1> HIDE DEF t, One
<1>3. F \in Seq(Seq(S)) /\ Len(F) = Len(s) /\ G \in Seq(Seq(S)) /\ Len(G) = Len(s) + 1
  BY <1>1, <1>2
<1>4. G = Append(F, One(e))
  <2>1. Append(F, One(e)) \in Seq(Seq(S)) /\ Len(Append(F, One(e))) = Len(s) + 1
    BY <1>2, <1>3, AppendProperties
  <2>2. ASSUME NEW k \in 1..(Len(s) + 1) PROVE G[k] = Append(F, One(e))[k]
    BY <1>1, <1>2, <1>3, AppendProperties
  <2> HIDE DEF F, G
  <2> QED
    BY <1>3, <2>1, <2>2, SeqEqual
<1>5. Kept(s, V) = FlattenSeq(F) /\ Kept(t, V) = FlattenSeq(G)
  BY DEF Kept, One
<1> HIDE DEF F, G
<1>6. FlattenSeq(F) \in Seq(S) /\ FlattenSeq(G) = FlattenSeq(F) \o One(e)
  BY <1>2, <1>3, <1>4, FlattenAppend
<1> QED
  BY <1>5, <1>6, ConcatEmptySeq, AppendIsConcat DEF t, One

\* What is kept of a sequence over S is a sequence over S.
LEMMA KeptType ==
  ASSUME NEW S, NEW s \in Seq(S), NEW V
  PROVE  Kept(s, V) \in Seq(S)
<1>1. CASE s = <<>>
  BY <1>1, KeptEmpty, EmptySeq
<1>2. CASE s # <<>>
  <2> PICK e \in S : TRUE
    BY <1>2, SequenceEmptyOrAppend
  <2> QED
    BY KeptAppend
<1> QED
  BY <1>1, <1>2

\* What is kept of two sequences, one after the other, is what is kept of each.
LEMMA KeptConcat ==
  ASSUME NEW S, NEW s \in Seq(S), NEW t \in Seq(S), NEW V
  PROVE  Kept(s \o t, V) = Kept(s, V) \o Kept(t, V)
<1> DEFINE T == {u \in Seq(S) : Kept(s \o u, V) = Kept(s, V) \o Kept(u, V)}
<1>1. <<>> \in T
  <2>1. Kept(s, V) \in Seq(S)
    BY KeptType
  <2> QED
    BY <2>1, KeptEmpty, ConcatEmptySeq, EmptySeq
<1>2. ASSUME NEW u \in T, NEW e \in S PROVE Append(u, e) \in T
  <2>1. /\ s \o u \in Seq(S) /\ s \o Append(u, e) = Append(s \o u, e)
        /\ Append(u, e) \in Seq(S)
    <3>1. <<e>> \in Seq(S) /\ s \o u \in Seq(S)
      BY ConcatProperties
    <3>2. Append(u, e) = u \o <<e>> /\ Append(s \o u, e) = (s \o u) \o <<e>>
      BY <3>1, AppendIsConcat
    <3> QED
      BY <3>1, <3>2, ConcatAssociative, AppendProperties
  <2> DEFINE a == Kept(s, V)
             b == Kept(u, V)
  <2>2. Kept(s \o u, V) = a \o b /\ a \in Seq(S) /\ b \in Seq(S)
    BY KeptAppend
  <2>3. /\ Kept(Append(s \o u, e), V) = IF e \in V THEN Append(a \o b, e) ELSE a \o b
        /\ Kept(Append(u, e), V) = IF e \in V THEN Append(b, e) ELSE b
    <3> HIDE DEF T
    <3>1. Kept(Append(s \o u, e), V)
            = IF e \in V THEN Append(Kept(s \o u, V), e) ELSE Kept(s \o u, V)
      <4> DEFINE w == s \o u
      <4>1. w \in Seq(S)
        BY <2>1
      <4> HIDE DEF w
      <4>2. Kept(Append(w, e), V) = IF e \in V THEN Append(Kept(w, V), e) ELSE Kept(w, V)
        BY <4>1, KeptAppend
      <4> QED
        BY <4>2 DEF w
    <3>2. Kept(Append(u, e), V) = IF e \in V THEN Append(Kept(u, V), e) ELSE Kept(u, V)
      <4> u \in Seq(S)
        BY DEF T
      <4> QED
        BY KeptAppend
    <3> QED
      BY <2>2, <3>1, <3>2
  <2>4. Append(a \o b, e) = a \o Append(b, e)
    <3> HIDE DEF a, b
    <3>1. <<e>> \in Seq(S) /\ a \o b \in Seq(S)
      BY <2>2, ConcatProperties
    <3>2. Append(b, e) = b \o <<e>> /\ Append(a \o b, e) = (a \o b) \o <<e>>
      BY <2>2, <3>1, AppendIsConcat
    <3> QED
      BY <2>2, <3>1, <3>2, ConcatAssociative
  <2>5. Kept(s \o Append(u, e), V) = a \o Kept(Append(u, e), V)
    BY <2>1, <2>3, <2>4
  <2> QED
    BY <2>1, <2>5
<1> HIDE DEF T
<1>3. T = Seq(S)
  <2> T \subseteq Seq(S)
    BY DEF T
  <2> QED
    BY <1>1, <1>2, SeqInduction
<1> QED
  BY <1>3 DEF T

-----------------------------------------------------------------------------
(* Letters and words.                                                      *)

\* The letters of a text are a text, and those of two texts, one after the
\* other, are the letters of the one followed by those of the other.
LEMMA LettersConcat ==
  /\ LettersOf(<<>>) = <<>>
  /\ \A s \in Texts : LettersOf(s) \in Texts
  /\ \A s, t \in Texts : s \o t \in Texts /\ LettersOf(s \o t) = LettersOf(s) \o LettersOf(t)
<1>1. LettersOf(<<>>) = <<>>
  BY KeptEmpty DEF LettersOf
<1>2. ASSUME NEW s \in Texts PROVE LettersOf(s) \in Texts
  BY KeptType DEF LettersOf, Texts
<1>3. ASSUME NEW s \in Texts, NEW t \in Texts
      PROVE  s \o t \in Texts /\ LettersOf(s \o t) = LettersOf(s) \o LettersOf(t)
  BY KeptConcat, ConcatProperties DEF LettersOf, Texts
<1> QED
  BY <1>1, <1>2, <1>3

\* A token adds itself to the letters of a text, or nothing.
LEMMA LettersAppend ==
  ASSUME NEW s \in Texts, NEW k \in Tokens
  PROVE  /\ Append(s, k) \in Texts
         /\ LettersOf(Append(s, k)) =
              IF k \in Lettered THEN Append(LettersOf(s), k) ELSE LettersOf(s)
  BY KeptAppend, AppendProperties DEF LettersOf, Texts

\* A text of blanks and marks has no letters: what str.strip and the filter on
\* words drop.
LEMMA Letterless ==
  ASSUME NEW t \in Texts, \A i \in DOMAIN t : t[i] \notin Lettered
  PROVE  LettersOf(t) = <<>>
<1> DEFINE T == {s \in Texts : (\A i \in DOMAIN s : s[i] \notin Lettered) => LettersOf(s) = <<>>}
<1>1. <<>> \in T
  BY LettersConcat, EmptySeq DEF Texts
<1>2. ASSUME NEW s \in T, NEW k \in Tokens PROVE Append(s, k) \in T
  <2>1. s \in Texts /\ Append(s, k) \in Texts
    BY LettersAppend
  <2> SUFFICES ASSUME \A i \in DOMAIN Append(s, k) : Append(s, k)[i] \notin Lettered
               PROVE  LettersOf(Append(s, k)) = <<>>
    BY <2>1
  <2>2. /\ DOMAIN s = 1..Len(s) /\ Len(s) \in Nat
        /\ DOMAIN Append(s, k) = 1..(Len(s) + 1)
        /\ \A i \in 1..Len(s) : Append(s, k)[i] = s[i]
        /\ Append(s, k)[Len(s) + 1] = k
    BY <2>1, AppendProperties, LenProperties DEF Texts
  <2>3. LettersOf(s) = <<>>
    BY <2>2
  <2>4. k \notin Lettered
    BY <2>2
  <2> QED
    BY <2>1, <2>3, <2>4, LettersAppend
<1>3. T = Texts
  <2> T \subseteq Seq(Tokens)
    BY DEF Texts
  <2> HIDE DEF T
  <2> QED
    BY <1>1, <1>2, SeqInduction DEF Texts
<1> QED
  BY <1>3

\* Texts are a monoid under concatenation.
LEMMA ConcatTexts ==
  /\ <<>> \in Texts
  /\ \A s \in Texts : s \o <<>> = s /\ <<>> \o s = s
  /\ \A s, t, u \in Texts : (s \o t) \o u = s \o (t \o u)
  BY ConcatAssociative, ConcatEmptySeq, EmptySeq DEF Texts

\* The words of a list of texts grow by the letters of the text appended to it.
LEMMA WordsAppend ==
  ASSUME NEW ts \in Seq(Texts), NEW t \in Texts
  PROVE  /\ WordsOf(ts) \in Texts
         /\ FlattenSeq(ts) \in Texts
         /\ WordsOf(Append(ts, t)) = WordsOf(ts) \o LettersOf(t)
<1>1. FlattenSeq(ts) \in Texts /\ FlattenSeq(Append(ts, t)) = FlattenSeq(ts) \o t
  BY FlattenAppend DEF Texts
<1> QED
  BY <1>1, LettersConcat DEF WordsOf

\* No texts have no words.
LEMMA WordsEmpty == WordsOf(<<>>) = <<>>
  BY FlattenEmpty, LettersConcat DEF WordsOf

\* The words of two lists of texts, one after the other.
LEMMA WordsConcat ==
  ASSUME NEW ss \in Seq(Texts), NEW ts \in Seq(Texts)
  PROVE  ss \o ts \in Seq(Texts) /\ WordsOf(ss \o ts) = WordsOf(ss) \o WordsOf(ts)
<1>1. FlattenSeq(ss \o ts) = FlattenSeq(ss) \o FlattenSeq(ts)
  BY FlattenConcat DEF Texts
<1>2. FlattenSeq(ss) \in Texts /\ FlattenSeq(ts) \in Texts
  BY WordsAppend, ConcatTexts
<1> QED
  BY <1>1, <1>2, LettersConcat, ConcatProperties DEF WordsOf

\* The words of one text are its letters.
LEMMA WordsOne == \A t \in Texts : <<t>> \in Seq(Texts) /\ WordsOf(<<t>>) = LettersOf(t)
<1> SUFFICES ASSUME NEW t \in Texts PROVE <<t>> \in Seq(Texts) /\ WordsOf(<<t>>) = LettersOf(t)
  OBVIOUS
<1> DEFINE e == <<>>
           a == Append(e, t)
<1>1. e \in Seq(Texts) /\ a = <<t>> /\ <<t>> \in Seq(Texts)
  OBVIOUS
<1>2. WordsOf(e) = <<>>
  BY WordsEmpty
<1> HIDE DEF e
<1>3. WordsOf(a) = <<>> \o LettersOf(t)
  BY <1>1, <1>2, WordsAppend
<1>4. LettersOf(t) \in Texts
  BY LettersConcat
<1>5. <<>> \o LettersOf(t) = LettersOf(t)
  BY <1>4, ConcatTexts
<1> HIDE DEF a
<1> QED
  BY <1>1, <1>3, <1>5

\* Texts with the same letters each, in the same order, have the same words:
\* what a map over the texts, such as stripping each, may change.
LEMMA SameWords ==
  ASSUME NEW ts \in Seq(Texts), NEW us \in Seq(Texts), Len(us) = Len(ts),
         \A k \in 1..Len(ts) : LettersOf(us[k]) = LettersOf(ts[k])
  PROVE  WordsOf(us) = WordsOf(ts)
<1> DEFINE Alike(a, b) == Len(b) = Len(a) /\ \A k \in 1..Len(a) : LettersOf(b[k]) = LettersOf(a[k])
           T == {a \in Seq(Texts) : \A b \in Seq(Texts) : Alike(a, b) => WordsOf(b) = WordsOf(a)}
<1>1. <<>> \in T
  <2> SUFFICES ASSUME NEW b \in Seq(Texts), Len(b) = 0 PROVE WordsOf(b) = WordsOf(<<>>)
    BY EmptySeq
  <2> b = <<>>
    BY EmptySeq
  <2> QED
    OBVIOUS
<1>2. ASSUME NEW a \in T, NEW x \in Texts PROVE Append(a, x) \in T
  <2>1. /\ a \in Seq(Texts) /\ Append(a, x) \in Seq(Texts) /\ Len(Append(a, x)) = Len(a) + 1
        /\ Len(a) \in Nat
        /\ Append(a, x)[Len(a) + 1] = x /\ \A k \in 1..Len(a) : Append(a, x)[k] = a[k]
    BY AppendProperties, LenProperties
  <2> SUFFICES ASSUME NEW b \in Seq(Texts), Alike(Append(a, x), b)
               PROVE  WordsOf(b) = WordsOf(Append(a, x))
    BY <2>1
  <2>2. b # <<>>
    BY <2>1, EmptySeq
  <2>3. PICK c \in Seq(Texts), y \in Texts : b = Append(c, y)
    BY <2>2, SequenceEmptyOrAppend
  <2>4. /\ Len(b) = Len(c) + 1 /\ Len(c) \in Nat
        /\ b[Len(c) + 1] = y /\ \A k \in 1..Len(c) : b[k] = c[k]
    BY <2>3, AppendProperties, LenProperties
  <2>5. Len(c) = Len(a)
    BY <2>1, <2>4
  <2>6. LettersOf(y) = LettersOf(x)
    <3> Len(a) + 1 \in 1..Len(Append(a, x))
      BY <2>1
    <3> QED
      BY <2>1, <2>4, <2>5
  <2>7. Alike(a, c)
    <3> \A k \in 1..Len(a) : k \in 1..Len(Append(a, x))
      BY <2>1
    <3> QED
      BY <2>1, <2>4, <2>5
  <2>8. WordsOf(c) = WordsOf(a)
    BY <2>7
  <2>9. WordsOf(Append(a, x)) = WordsOf(a) \o LettersOf(x)
    BY <2>1, WordsAppend
  <2>10. WordsOf(Append(c, y)) = WordsOf(c) \o LettersOf(y)
    BY WordsAppend
  <2> HIDE DEF T, Alike
  <2> QED
    BY <2>3, <2>6, <2>8, <2>9, <2>10
<1>3. T = Seq(Texts)
  <2> T \subseteq Seq(Texts)
    OBVIOUS
  <2> HIDE DEF T
  <2> QED
    BY <1>1, <1>2, SeqInduction
<1>4. Alike(ts, us)
  OBVIOUS
<1> HIDE DEF Alike
<1> QED
  BY <1>3, <1>4

\* Dropping only texts without letters drops no word: the filters of
\* split_sentences, of feed and of _chunks.
LEMMA WordsKept ==
  ASSUME NEW ts \in Seq(Texts), NEW V, \A t \in Texts \ V : LettersOf(t) = <<>>
  PROVE  Kept(ts, V) \in Seq(Texts) /\ WordsOf(Kept(ts, V)) = WordsOf(ts)
<1> DEFINE T == {a \in Seq(Texts) : WordsOf(Kept(a, V)) = WordsOf(a)}
<1>1. <<>> \in T
  BY KeptEmpty
<1>2. ASSUME NEW a \in T, NEW x \in Texts PROVE Append(a, x) \in T
  <2>1. a \in Seq(Texts) /\ Append(a, x) \in Seq(Texts) /\ Kept(a, V) \in Seq(Texts)
    BY AppendProperties, KeptType
  <2>2. WordsOf(Append(a, x)) = WordsOf(a) \o LettersOf(x) /\ WordsOf(a) \in Texts
    BY <2>1, WordsAppend
  <2>3. WordsOf(Kept(a, V)) = WordsOf(a)
    OBVIOUS
  <2> DEFINE b == Kept(a, V)
  <2>4. WordsOf(Append(b, x)) = WordsOf(b) \o LettersOf(x)
    <3> b \in Seq(Texts)
      BY <2>1
    <3> HIDE DEF b
    <3> QED
      BY WordsAppend
  <2>5. Kept(Append(a, x), V) = IF x \in V THEN Append(b, x) ELSE b
    BY <2>1, KeptAppend
  <2>6. CASE x \in V
    BY <2>1, <2>2, <2>3, <2>4, <2>5, <2>6
  <2>7. CASE x \notin V
    <3> LettersOf(x) = <<>>
      BY <2>7
    <3> WordsOf(a) \o <<>> = WordsOf(a)
      BY <2>2, ConcatTexts
    <3> QED
      BY <2>1, <2>2, <2>3, <2>5, <2>7
  <2> QED
    BY <2>6, <2>7
<1>3. T = Seq(Texts)
  <2> T \subseteq Seq(Texts)
    OBVIOUS
  <2> HIDE DEF T
  <2> QED
    BY <1>1, <1>2, SeqInduction
<1> QED
  BY <1>3, KeptType

\* sep.join of a longer list: the separator and the new text behind what was
\* joined.
LEMMA JoinAppend ==
  ASSUME NEW ts \in Seq(Texts), NEW t \in Texts, NEW sep \in Texts
  PROVE  /\ Join(ts, sep) \in Texts
         /\ Join(Append(ts, t), sep) = IF ts = <<>> THEN t ELSE Join(ts, sep) \o (sep \o t)
<1> DEFINE us == Append(ts, t)
           last == IF ts = <<>> THEN t ELSE sep \o t
           F == [k \in DOMAIN ts |-> IF k = 1 THEN ts[k] ELSE sep \o ts[k]]
           G == [k \in DOMAIN us |-> IF k = 1 THEN us[k] ELSE sep \o us[k]]
<1>1. /\ us \in Seq(Texts) /\ Len(us) = Len(ts) + 1 /\ DOMAIN us = 1..(Len(ts) + 1)
      /\ DOMAIN ts = 1..Len(ts) /\ Len(ts) \in Nat
      /\ us[Len(ts) + 1] = t /\ \A k \in 1..Len(ts) : us[k] = ts[k] /\ ts[k] \in Texts
      /\ ts = <<>> <=> Len(ts) = 0
  BY AppendProperties, LenProperties, EmptySeq
<1>2. last \in Texts /\ \A x \in Texts : sep \o x \in Texts
  BY LettersConcat
<1> HIDE DEF us
<1>3. F \in Seq(Texts) /\ Len(F) = Len(ts) /\ G \in Seq(Texts) /\ Len(G) = Len(ts) + 1
  <2>1. \A k \in 1..Len(ts) : F[k] \in Texts
    BY <1>1, <1>2
  <2>2. \A k \in 1..(Len(ts) + 1) : G[k] \in Texts
    BY <1>1, <1>2
  <2>3. F = [k \in 1..Len(ts) |-> F[k]] /\ G = [k \in 1..(Len(ts) + 1) |-> G[k]]
    BY <1>1
  <2> HIDE DEF F, G
  <2> QED
    BY <1>1, <2>1, <2>2, <2>3
<1>4. G = Append(F, last)
  <2>1. Append(F, last) \in Seq(Texts) /\ Len(Append(F, last)) = Len(ts) + 1
    BY <1>2, <1>3, AppendProperties
  <2>2. /\ \A k \in 1..Len(ts) : Append(F, last)[k] = F[k]
        /\ Append(F, last)[Len(ts) + 1] = last
    BY <1>2, <1>3, AppendProperties
  <2>3. \A k \in 1..Len(ts) : G[k] = F[k]
    BY <1>1
  <2>4. G[Len(ts) + 1] = last
    BY <1>1
  <2> HIDE DEF F, G, last
  <2>5. ASSUME NEW k \in 1..(Len(ts) + 1) PROVE G[k] = Append(F, last)[k]
    <3>1. k \in 1..Len(ts) \/ k = Len(ts) + 1
      BY <1>1
    <3> QED
      BY <3>1, <2>2, <2>3, <2>4
  <2> QED
    BY <1>3, <2>1, <2>5, SeqEqual
<1>5. Join(ts, sep) = FlattenSeq(F) /\ Join(us, sep) = FlattenSeq(G)
  BY DEF Join
<1> HIDE DEF F, G
<1>6. FlattenSeq(F) \in Texts /\ FlattenSeq(G) = FlattenSeq(F) \o last
  BY <1>2, <1>3, <1>4, FlattenAppend DEF Texts
<1>7. CASE ts = <<>>
  <2>1. F = <<>>
    BY <1>3, <1>1, <1>7, EmptySeq
  <2> QED
    BY <1>5, <1>6, <1>7, <1>2, <2>1, FlattenEmpty, ConcatTexts DEF us
<1>8. CASE ts # <<>>
  BY <1>5, <1>6, <1>8 DEF us
<1> QED
  BY <1>7, <1>8

\* sep.join of nothing is the empty text.
LEMMA JoinEmpty == \A sep : Join(<<>>, sep) = <<>>
<1> SUFFICES ASSUME NEW sep PROVE Join(<<>>, sep) = <<>>
  OBVIOUS
<1> [k \in DOMAIN <<>> |-> IF k = 1 THEN <<>>[k] ELSE sep \o <<>>[k]] = <<>>
  OBVIOUS
<1> QED
  BY FlattenEmpty DEF Join

\* sep.join with a separator of blanks keeps every word, in order.
LEMMA JoinWords ==
  ASSUME NEW ts \in Seq(Texts), NEW sep \in Texts, LettersOf(sep) = <<>>
  PROVE  Join(ts, sep) \in Texts /\ LettersOf(Join(ts, sep)) = WordsOf(ts)
<1> DEFINE T == {a \in Seq(Texts) : Join(a, sep) \in Texts /\ LettersOf(Join(a, sep)) = WordsOf(a)}
<1>1. <<>> \in T
  <2> DEFINE e == <<>>
  <2>1. Join(e, sep) = e /\ WordsOf(e) = e /\ LettersOf(e) = e /\ e \in Texts
    BY JoinEmpty, WordsEmpty, LettersConcat, ConcatTexts
  <2>2. e \in Seq(Texts)
    OBVIOUS
  <2> HIDE DEF e
  <2>3. e \in T
    BY <2>1, <2>2
  <2> QED
    BY <2>3 DEF e
<1>2. ASSUME NEW a \in T, NEW x \in Texts PROVE Append(a, x) \in T
  <2>1. a \in Seq(Texts) /\ Append(a, x) \in Seq(Texts)
    BY AppendProperties
  <2>2. WordsOf(Append(a, x)) = WordsOf(a) \o LettersOf(x) /\ WordsOf(a) \in Texts
    BY <2>1, WordsAppend
  <2> DEFINE j == Join(a, sep)
  <2>3. j \in Texts /\ LettersOf(j) = WordsOf(a)
    OBVIOUS
  <2>4. Join(Append(a, x), sep) = IF a = <<>> THEN x ELSE j \o (sep \o x)
    BY <2>1, JoinAppend
  <2>5. ASSUME WordsOf(Append(a, x)) = LettersOf(Join(Append(a, x), sep)),
               Join(Append(a, x), sep) \in Texts
        PROVE  Append(a, x) \in T
    BY <2>1, <2>5
  <2> HIDE DEF j, T
  <2>6. CASE a = <<>>
    <3>1. WordsOf(a) = <<>> /\ LettersOf(x) \in Texts
      BY <2>6, WordsEmpty, LettersConcat
    <3>2. WordsOf(Append(a, x)) = LettersOf(x)
      BY <2>2, <3>1, ConcatTexts
    <3> QED
      BY <2>4, <2>5, <2>6, <3>2
  <2>7. CASE a # <<>>
    <3> DEFINE y == sep \o x
    <3>1. LettersOf(x) \in Texts
      BY LettersConcat
    <3>2. y \in Texts /\ LettersOf(y) = LettersOf(x)
      <4>1. y \in Texts /\ LettersOf(y) = LettersOf(sep) \o LettersOf(x)
        BY LettersConcat
      <4>2. <<>> \o LettersOf(x) = LettersOf(x)
        BY <3>1, ConcatTexts
      <4> HIDE DEF y
      <4> QED
        BY <4>1, <4>2
    <3> HIDE DEF y
    <3>3. j \o y \in Texts /\ LettersOf(j \o y) = WordsOf(a) \o LettersOf(x)
      BY <2>3, <3>2, LettersConcat
    <3> QED
      BY <2>2, <2>4, <2>5, <2>7, <3>3 DEF y
  <2> QED
    BY <2>6, <2>7
<1>3. T = Seq(Texts)
  <2> T \subseteq Seq(Texts)
    OBVIOUS
  <2> HIDE DEF T
  <2> QED
    BY <1>1, <1>2, SeqInduction
<1> QED
  BY <1>3

-----------------------------------------------------------------------------
(* Strip and Parts.                                                        *)

\* A nonempty set of numbers up to n has a smallest and a largest member: Min
\* and Max are defined by CHOOSE.
LEMMA SmallestAndLargest ==
  ASSUME NEW n \in Nat, NEW X, X \subseteq 0..n, X # {}
  PROVE  /\ Min(X) \in X /\ \A x \in X : Min(X) <= x
         /\ Max(X) \in X /\ \A x \in X : x <= Max(X)
<1> DEFINE R == OpToRel(<, Nat)
<1>1. IsWellFoundedOn(R, Nat)
  BY NatLessThanWellFounded
<1>2. \A i, j \in Nat : <<i, j>> \in R <=> i < j
  BY DEF OpToRel
<1> HIDE DEF R
<1>3. X \subseteq Nat
  OBVIOUS
<1>4. \E x \in X : \A y \in X : x <= y
  <2>1. PICK x \in X : \A y \in X : ~(<<y, x>> \in R)
    BY <1>1, <1>3, WFMin
  <2>2. ASSUME NEW y \in X PROVE x <= y
    <3>1. x \in Nat /\ y \in Nat
      BY <1>3
    <3>2. ~(y < x)
      BY <3>1, <2>1, <1>2
    <3> QED
      BY <3>1, <3>2
  <2> QED
    BY <2>2
<1>5. \E x \in X : \A y \in X : y <= x
  <2> DEFINE Y == {n - x : x \in X}
  <2>1. Y \subseteq Nat /\ Y # {}
    <3>1. \A x \in X : n - x \in Nat
      OBVIOUS
    <3>2. PICK x \in X : TRUE
      OBVIOUS
    <3>3. n - x \in Y
      OBVIOUS
    <3> QED
      BY <3>1, <3>3
  <2>2. PICK y \in Y : \A z \in Y : ~(<<z, y>> \in R)
    <3> HIDE DEF Y
    <3> QED
      BY <2>1, <1>1, WFMin
  <2>3. PICK x \in X : y = n - x
    OBVIOUS
  <2>4. ASSUME NEW w \in X PROVE w <= x
    <3>1. n - w \in Y /\ n - w \in Nat /\ y \in Nat
      BY <2>1
    <3>2. ~(n - w < y)
      BY <3>1, <2>2, <1>2
    <3> QED
      BY <3>2, <2>3, <1>3
  <2> QED
    BY <2>4
<1> QED
  BY <1>4, <1>5, <1>3 DEF Min, Max

\* A slice of a text is a text, with its length and its tokens.
LEMMA SubSeqText ==
  ASSUME NEW t \in Texts, NEW m \in Nat \ {0}, NEW n \in Nat, n <= Len(t)
  PROVE  /\ SubSeq(t, m, n) \in Texts
         /\ Len(SubSeq(t, m, n)) = IF m <= n THEN n - m + 1 ELSE 0
         /\ Len(SubSeq(t, m, n)) <= Len(t)
         /\ \A i \in 1..Len(SubSeq(t, m, n)) : SubSeq(t, m, n)[i] = t[m + i - 1]
<1>1. \A i \in m..n : t[i] \in Tokens
  BY LenProperties DEF Texts
<1> QED
  BY <1>1, SubSeqProperties, LenProperties DEF Texts

\* A text is its first n tokens followed by the others, and so are its letters.
LEMMA CutText ==
  ASSUME NEW t \in Texts, NEW n \in 0..Len(t)
  PROVE  /\ SubSeq(t, 1, n) \in Texts /\ SubSeq(t, n + 1, Len(t)) \in Texts
         /\ t = SubSeq(t, 1, n) \o SubSeq(t, n + 1, Len(t))
         /\ LettersOf(t) = LettersOf(SubSeq(t, 1, n)) \o LettersOf(SubSeq(t, n + 1, Len(t)))
<1>1. Len(t) \in Nat /\ t \in Seq(Tokens)
  BY LenProperties DEF Texts
<1> DEFINE a == SubSeq(t, 1, n)
           b == SubSeq(t, n + 1, Len(t))
<1>2. a \in Texts /\ b \in Texts
  BY <1>1, SubSeqText
<1>3. t = a \o b
  <2>1. SubSeq(t, 1, n) \o SubSeq(t, n + 1, Len(t)) = SubSeq(t, 1, Len(t))
    <3> /\ 1 \in 1..(Len(t) + 1) /\ n \in (1 - 1)..Len(t) /\ Len(t) \in n..Len(t)
      BY <1>1
    <3> QED
      BY <1>1, ConcatAdjacentSubSeq
  <2> QED
    BY <2>1, <1>1, SubSeqFull
<1> HIDE DEF a, b
<1>4. LettersOf(a \o b) = LettersOf(a) \o LettersOf(b)
  BY <1>2, LettersConcat
<1> QED
  BY <1>2, <1>3, <1>4 DEF a, b

\* str.strip never lengthens a text and takes no letter from it.
LEMMA StripText ==
  ASSUME NEW t \in Texts
  PROVE  /\ Strip(t) \in Texts
         /\ Len(Strip(t)) <= Len(t)
         /\ LettersOf(Strip(t)) = LettersOf(t)
<1> DEFINE solid == {i \in DOMAIN t : t[i] \notin Blank}
           a == Min(solid)
           b == Max(solid)
<1>1. Len(t) \in Nat /\ DOMAIN t = 1..Len(t) /\ \A i \in 1..Len(t) : t[i] \in Tokens
  BY LenProperties DEF Texts
<1>2. Blank \cap Lettered = {}
  BY TextAssumption
<1>3. CASE solid = {}
  <2>1. \A i \in DOMAIN t : t[i] \notin Lettered
    BY <1>2, <1>3
  <2>2. Strip(t) = <<>>
    BY <1>3 DEF Strip
  <2>3. LettersOf(t) = <<>>
    BY <2>1, Letterless
  <2>4. LettersOf(<<>>) = <<>> /\ <<>> \in Texts
    BY LettersConcat, ConcatTexts
  <2>5. Len(<<>>) = 0
    OBVIOUS
  <2> QED
    BY <2>2, <2>3, <2>4, <2>5, <1>1
<1>4. CASE solid # {}
  <2>1. solid \subseteq 0..Len(t)
    BY <1>1
  <2>2. a \in solid /\ b \in solid /\ \A i \in solid : a <= i /\ i <= b
    <3> HIDE DEF solid
    <3> QED
      BY <1>1, <1>4, <2>1, SmallestAndLargest
  <2>3. Strip(t) = SubSeq(t, a, b)
    BY <1>4 DEF Strip
  <2>4. a \in 1..Len(t) /\ b \in 1..Len(t) /\ a <= b
    BY <1>1, <2>2
  <2>5. \A i \in 1..Len(t) : (i < a \/ b < i) => t[i] \notin Lettered
    <3>1. ASSUME NEW i \in 1..Len(t), i < a \/ b < i PROVE t[i] \notin Lettered
      <4>1. i \notin solid
        <5> HIDE DEF solid, a, b
        <5> QED
          BY <3>1, <2>2, <2>4, <1>1
      <4> QED
        BY <4>1, <1>1, <1>2
    <3> QED
      BY <3>1
  <2> HIDE DEF solid, a, b
  <2> DEFINE x == SubSeq(t, 1, a - 1)
             y == SubSeq(t, a, b)
             z == SubSeq(t, b + 1, Len(t))
             w == SubSeq(t, 1, b)
  <2>6. x \in Texts /\ y \in Texts /\ z \in Texts /\ w \in Texts /\ Len(y) <= Len(t)
    BY <2>4, <1>1, SubSeqText
  <2>7. LettersOf(x) = <<>>
    <3>1. \A i \in DOMAIN x : x[i] \notin Lettered
      <4>1. Len(x) = a - 1 /\ DOMAIN x = 1..(a - 1) /\ \A i \in 1..(a - 1) : x[i] = t[i]
        BY <2>4, <2>6, <1>1, SubSeqText, LenProperties DEF Texts
      <4> QED
        BY <4>1, <2>4, <2>5, <1>1
    <3> QED
      BY <3>1, <2>6, Letterless
  <2>8. LettersOf(z) = <<>>
    <3>1. \A i \in DOMAIN z : z[i] \notin Lettered
      <4>1. /\ DOMAIN z = 1..(Len(t) - b)
            /\ \A i \in 1..(Len(t) - b) : z[i] = t[b + i]
        BY <2>4, <2>6, <1>1, SubSeqText, LenProperties DEF Texts
      <4> QED
        BY <4>1, <2>4, <2>5, <1>1
    <3> QED
      BY <3>1, <2>6, Letterless
  <2>9. LettersOf(t) = LettersOf(w) \o LettersOf(z)
    <3> b \in 0..Len(t)
      BY <2>4, <1>1
    <3> QED
      BY CutText
  <2>10. LettersOf(w) = LettersOf(x) \o LettersOf(y)
    <3>1. x \o y = w
      BY <2>4, <1>1, ConcatAdjacentSubSeq DEF Texts
    <3>2. LettersOf(x \o y) = LettersOf(x) \o LettersOf(y)
      <4> HIDE DEF x, y
      <4> QED
        BY <2>6, LettersConcat
    <3> QED
      BY <3>1, <3>2
  <2>11. LettersOf(y) \in Texts /\ LettersOf(w) \in Texts
    <3> HIDE DEF y, w
    <3> QED
      BY <2>6, LettersConcat
  <2>12. LettersOf(t) = LettersOf(y)
    <3> HIDE DEF x, y, z, w
    <3> QED
      BY <2>7, <2>8, <2>9, <2>10, <2>11, ConcatTexts
  <2> QED
    BY <2>3, <2>6, <2>12
<1> QED
  BY <1>3, <1>4

\* A token behind the last of the texts collected so far.
LEMMA ExtendedLast ==
  ASSUME NEW us \in Seq(Texts), NEW u \in Texts, NEW k \in Tokens
  PROVE  /\ Append(u, k) \in Texts
         /\ Extended(Append(us, u), k) = Append(us, Append(u, k))
<1> DEFINE ts == Append(us, u)
<1>1. ts \in Seq(Texts)
  BY AppendProperties
<1>2. Len(ts) = Len(us) + 1 /\ Len(us) \in Nat /\ ts[Len(ts)] = u /\ \A i \in 1..Len(us) : ts[i] = us[i]
  BY AppendProperties, LenProperties
<1> HIDE DEF ts
<1>3. Last(ts) = u
  BY <1>2 DEF Last
<1>4. Front(ts) = us
  <2>1. Front(ts) = SubSeq(ts, 1, Len(us))
    BY <1>2 DEF Front
  <2>2. /\ SubSeq(ts, 1, Len(us)) \in Seq(Texts)
        /\ Len(SubSeq(ts, 1, Len(us))) = Len(us)
        /\ \A i \in 1..Len(us) : SubSeq(ts, 1, Len(us))[i] = us[i]
    BY <1>2, LenProperties, SubSeqProperties
  <2> QED
    BY <2>1, <2>2, SeqEqual
<1>5. Append(u, k) \in Texts
  BY LettersAppend
<1>6. Extended(ts, k) = us \o <<Append(u, k)>>
  BY <1>3, <1>4 DEF Extended
<1>7. us \o <<Append(u, k)>> = Append(us, Append(u, k))
  <2> DEFINE v == Append(u, k)
  <2> v \in Texts
    BY <1>5
  <2> HIDE DEF v
  <2> us \o <<v>> = Append(us, v)
    BY AppendIsConcat
  <2> QED
    BY DEF v
<1> QED
  BY <1>5, <1>6, <1>7 DEF ts

\* Extending the last text of a nonempty list gives a nonempty list.
LEMMA ExtendedType ==
  ASSUME NEW ts \in Seq(Texts), ts # <<>>, NEW k \in Tokens
  PROVE  Extended(ts, k) \in Seq(Texts) \ {<<>>}
<1>1. PICK us \in Seq(Texts), u \in Texts : ts = Append(us, u)
  BY SequenceEmptyOrAppend
<1> DEFINE v == Append(u, k)
<1>2. v \in Texts /\ Extended(ts, k) = Append(us, v)
  BY <1>1, ExtendedLast
<1> HIDE DEF v
<1> QED
  BY <1>2, AppendProperties

\* The texts of Parts, one for each prefix of t.
LEMMA PartsFunction ==
  ASSUME NEW t \in Texts, NEW cuts
  PROVE  \E f \in [0..Len(t) -> Seq(Texts)] :
           /\ f[0] = << <<>> >>
           /\ \A i \in 1..Len(t) :
                f[i] = IF i - 1 \in cuts THEN Append(f[i - 1], <<t[i]>>)
                       ELSE Extended(f[i - 1], t[i])
           /\ Parts(t, cuts) = f[Len(t)]
<1> DEFINE n == Len(t)
           S == Seq(Texts) \ {<<>>}
           Is(f) == f = [i \in 0..n |->
                           IF i = 0 THEN << <<>> >>
                           ELSE IF i - 1 \in cuts THEN Append(f[i - 1], <<t[i]>>)
                           ELSE Extended(f[i - 1], t[i])]
           Step(i, ts) == IF i - 1 \in cuts THEN Append(ts, <<t[i]>>) ELSE Extended(ts, t[i])
           g == [i \in 1..n |-> [ts \in S |-> Step(i, ts)]]
<1>1. n \in Nat /\ \A i \in 1..n : t[i] \in Tokens
  BY LenProperties DEF Texts
<1>2. << <<>> >> \in S
  BY ConcatTexts
<1>3. ASSUME NEW i \in 1..n, NEW ts \in S PROVE Step(i, ts) \in S
  <2>1. <<t[i]>> \in Texts
    BY <1>1 DEF Texts
  <2>2. Append(ts, <<t[i]>>) \in S
    BY <2>1, AppendProperties
  <2>3. Extended(ts, t[i]) \in S
    BY <1>1, ExtendedType
  <2> QED
    BY <2>2, <2>3
<1> HIDE DEF S, n, Step
<1>4. g \in [1..n -> [S -> S]]
  BY <1>3
<1>5. PICK f : Iterates(f, S, << <<>> >>, n, g)
  <2> HIDE DEF g, Is
  <2> QED
    BY <1>1, <1>2, <1>4, FiniteRecursion
<1>6. f \in [0..n -> S] /\ f[0] = << <<>> >>
  BY <1>5 DEF Iterates
<1>7. ASSUME NEW i \in 1..n PROVE f[i] = Step(i, f[i - 1])
  <2>1. i - 1 \in 0..n
    BY <1>1
  <2>2. f[i] = g[i][f[i - 1]] /\ f[i - 1] \in S
    <3> HIDE DEF g
    <3> QED
      BY <2>1, <1>5, <1>6 DEF Iterates
  <2>3. g[i] = [ts \in S |-> Step(i, ts)]
    OBVIOUS
  <2> QED
    BY <2>2, <2>3
<1>8. Is(f)
  <2>1. ASSUME NEW i \in 0..n
        PROVE  f[i] = IF i = 0 THEN << <<>> >>
                      ELSE IF i - 1 \in cuts THEN Append(f[i - 1], <<t[i]>>)
                      ELSE Extended(f[i - 1], t[i])
    <3>1. CASE i = 0
      BY <3>1, <1>6
    <3>2. CASE i # 0
      <4> i \in 1..n
        BY <3>2, <1>1
      <4> QED
        BY <3>2, <1>7 DEF Step
    <3> QED
      BY <3>1, <3>2
  <2> QED
    BY <2>1, <1>6
<1> DEFINE c == CHOOSE x : Is(x)
<1>9. Is(c)
  <2> HIDE DEF Is
  <2> QED
    BY <1>8
<1>10. Parts(t, cuts) = c[n]
  BY DEF Parts, n
<1> HIDE DEF c, g
<1>11. ASSUME NEW i \in 0..n
       PROVE  c[i] = IF i = 0 THEN << <<>> >> ELSE Step(i, c[i - 1])
  BY <1>9 DEF Step
<1> HIDE DEF Is
<1> DEFINE T == {i \in Nat : i <= n => c[i] = f[i]}
<1>12. 0 \in T
  BY <1>1, <1>6, <1>11
<1>13. ASSUME NEW k \in T PROVE k + 1 \in T
  <2> SUFFICES ASSUME k + 1 <= n PROVE c[k + 1] = f[k + 1]
    OBVIOUS
  <2> DEFINE j == k + 1
  <2>1. j \in 0..n /\ j \in 1..n /\ j # 0 /\ j - 1 = k /\ c[k] = f[k]
    BY <1>1
  <2> HIDE DEF j, T
  <2>2. c[j] = f[j]
    BY <2>1, <1>7, <1>11
  <2> QED
    BY <2>2 DEF j
<1>14. T = Nat
  <2> T \subseteq Nat
    OBVIOUS
  <2> HIDE DEF T
  <2> QED
    BY <1>12, <1>13, SetInduction
<1>15. c[n] = f[n]
  BY <1>1, <1>14
<1> QED
  BY <1>6, <1>7, <1>10, <1>15 DEF n, S, Step

-----------------------------------------------------------------------------
(* Where the texts of a sequence end.                                      *)

\* The beginnings of a longer sequence are those of the sequence, and the
\* sequence itself.
LEMMA SubSeqOfAppend ==
  ASSUME NEW S, NEW s \in Seq(S), NEW e \in S
  PROVE  /\ \A k \in 1..Len(s) : SubSeq(Append(s, e), 1, k) = SubSeq(s, 1, k)
         /\ SubSeq(Append(s, e), 1, Len(s) + 1) = Append(s, e)
         /\ \A k \in 0..Len(s) : SubSeq(s, 1, k) \in Seq(S)
<1> DEFINE u == Append(s, e)
<1>1. /\ u \in Seq(S) /\ Len(u) = Len(s) + 1 /\ Len(s) \in Nat
      /\ \A i \in 1..Len(s) : u[i] = s[i] /\ s[i] \in S
  BY AppendProperties, LenProperties
<1> HIDE DEF u
<1>2. ASSUME NEW k \in 1..Len(s) PROVE SubSeq(u, 1, k) = SubSeq(s, 1, k)
  <2>1. /\ SubSeq(s, 1, k) \in Seq(S) /\ Len(SubSeq(s, 1, k)) = k
        /\ \A i \in 1..k : SubSeq(s, 1, k)[i] = s[i]
    BY <1>1, SubSeqProperties
  <2>2. /\ SubSeq(u, 1, k) \in Seq(S) /\ Len(SubSeq(u, 1, k)) = k
        /\ \A i \in 1..k : SubSeq(u, 1, k)[i] = u[i]
    BY <1>1, SubSeqProperties
  <2> QED
    BY <2>1, <2>2, <1>1, SeqEqual
<1>3. SubSeq(u, 1, Len(s) + 1) = u
  BY <1>1, SubSeqFull
<1>4. ASSUME NEW k \in 0..Len(s) PROVE SubSeq(s, 1, k) \in Seq(S)
  BY <1>1, SubSeqProperties
<1> QED
  BY <1>2, <1>3, <1>4 DEF u

\* A text appended to a list ends where all the words end.
LEMMA EndsAppend ==
  ASSUME NEW ts \in Seq(Texts), NEW t \in Texts
  PROVE  Ends(Append(ts, t)) = Ends(ts) \cup {Len(WordsOf(Append(ts, t)))}
<1> DEFINE us == Append(ts, t)
           End(s, k) == Len(WordsOf(SubSeq(s, 1, k)))
<1>1. /\ us \in Seq(Texts) /\ Len(ts) \in Nat
      /\ DOMAIN us = 1..(Len(ts) + 1) /\ DOMAIN ts = 1..Len(ts)
  BY AppendProperties, LenProperties
<1>2. /\ \A k \in 1..Len(ts) : SubSeq(us, 1, k) = SubSeq(ts, 1, k)
      /\ SubSeq(us, 1, Len(ts) + 1) = us
  BY SubSeqOfAppend
<1> HIDE DEF us
<1>3. Ends(us) = {End(us, k) : k \in DOMAIN us} /\ Ends(ts) = {End(ts, k) : k \in DOMAIN ts}
  BY DEF Ends
<1>4. (\A k \in 1..Len(ts) : End(us, k) = End(ts, k)) /\ End(us, Len(ts) + 1) = Len(WordsOf(us))
  BY <1>2
<1> HIDE DEF End
<1>5. DOMAIN us = DOMAIN ts \cup {Len(ts) + 1}
  BY <1>1
<1> QED
  BY <1>1, <1>3, <1>4, <1>5 DEF us

\* No text, no end.
LEMMA EndsEmpty == Ends(<<>>) = {}
  BY DEF Ends

\* The last text of a list ends behind all its words.
LEMMA LastIsAnEnd ==
  ASSUME NEW ts \in Seq(Texts)
  PROVE  Len(WordsOf(ts)) \in Ends(ts) \cup {0}
<1>1. CASE ts = <<>>
  BY <1>1, WordsEmpty
<1>2. CASE ts # <<>>
  <2> PICK us \in Seq(Texts), u \in Texts : ts = Append(us, u)
    BY <1>2, SequenceEmptyOrAppend
  <2> QED
    BY EndsAppend
<1> QED
  BY <1>1, <1>2

\* How many letters of t come up to token c.
Upto(t, c) == Len(LettersOf(SubSeq(t, 1, c)))

\* t is cut into us and u: the letters up to the end of each of us are those
\* up to a cut, and each of them ends with the token before its cut.
CutInto(t, cuts, us, u) ==
  /\ Parts(t, cuts) = Append(us, u)
  /\ FlattenSeq(Append(us, u)) = t
  /\ Ends(us) = {Upto(t, c) : c \in cuts \ {Len(t)}}
  /\ t # <<>> => u # <<>> /\ u[Len(u)] = t[Len(t)]
  /\ \A k \in DOMAIN us : us[k] # <<>> /\ \E c \in cuts : us[k][Len(us[k])] = t[c]

\* Cutting a text: its parts flatten to the text, none but a last one is empty,
\* and they end exactly at the cuts.
LEMMA PartsOfText ==
  ASSUME NEW t \in Texts, NEW cuts, cuts \subseteq DOMAIN t
  PROVE  \E us \in Seq(Texts), u \in Texts : CutInto(t, cuts, us, u)
<1> DEFINE n == Len(t)
           Before(i) == {c \in cuts : c < i}
           P(i, us, u) ==
             /\ FlattenSeq(Append(us, u)) = SubSeq(t, 1, i)
             /\ Ends(us) = {Upto(t, c) : c \in Before(i)}
             /\ i > 0 => u # <<>> /\ u[Len(u)] = t[i]
             /\ \A k \in DOMAIN us :
                  us[k] # <<>> /\ \E c \in cuts : us[k][Len(us[k])] = t[c]
<1>1. PICK f \in [0..n -> Seq(Texts)] :
           /\ f[0] = << <<>> >>
           /\ \A i \in 1..n :
                f[i] = IF i - 1 \in cuts THEN Append(f[i - 1], <<t[i]>>)
                       ELSE Extended(f[i - 1], t[i])
           /\ Parts(t, cuts) = f[n]
  BY PartsFunction
<1>2. n \in Nat /\ DOMAIN t = 1..n /\ \A i \in 1..n : t[i] \in Tokens /\ <<t[i]>> \in Texts
  BY LenProperties DEF Texts
<1> HIDE DEF n, P
<1> DEFINE T == {i \in Nat : i <= n =>
                    \E us \in Seq(Texts), u \in Texts : f[i] = Append(us, u) /\ P(i, us, u)}
<1>3. 0 \in T
  <2> DEFINE e == <<>>
  <2>1. e \in Seq(Texts) /\ e \in Texts /\ Append(e, e) = <<e>> /\ DOMAIN e = {}
    BY ConcatTexts
  <2>2. FlattenSeq(<<e>>) = e \o e /\ e \o e = e
    <3>1. FlattenSeq(Append(e, e)) = FlattenSeq(e) \o e
      <4> e \in Seq(Seq(Tokens)) /\ e \in Seq(Tokens)
        OBVIOUS
      <4> HIDE DEF e
      <4> QED
        BY FlattenAppend
    <3> QED
      BY <2>1, <3>1, FlattenEmpty, ConcatTexts
  <2>3. SubSeq(t, 1, 0) = e
    BY SubSeqEmpty
  <2>4. Ends(e) = {} /\ Before(0) = {}
    BY EndsEmpty, <1>2
  <2> HIDE DEF e, Before
  <2>5. P(0, e, e)
    BY <2>1, <2>2, <2>3, <2>4 DEF P
  <2>6. f[0] = Append(e, e)
    BY <1>1, <2>1 DEF e
  <2> QED
    BY <2>1, <2>5, <2>6
<1>4. ASSUME NEW k \in T PROVE k + 1 \in T
  <2> DEFINE i == k + 1
  <2> SUFFICES ASSUME i <= n
               PROVE  \E us \in Seq(Texts), u \in Texts : f[i] = Append(us, u) /\ P(i, us, u)
    OBVIOUS
  <2>1. i \in 1..n /\ i - 1 = k /\ k \in Nat /\ k <= n /\ i > 0
    BY <1>2
  <2>2. PICK us \in Seq(Texts), u \in Texts : f[k] = Append(us, u) /\ P(k, us, u)
    BY <2>1
  <2>3. SubSeq(t, 1, k) \in Texts
    <3> k \in 0..Len(t)
      BY <2>1, <1>2 DEF n
    <3> QED
      BY CutText
  <2> HIDE DEF i, T
  <2> DEFINE ts == Append(us, u)
  <2>4. ts \in Seq(Texts) /\ ts # <<>> /\ FlattenSeq(ts) = SubSeq(t, 1, k)
    BY <2>2, AppendProperties DEF P
  <2>5. SubSeq(t, 1, i) = Append(SubSeq(t, 1, k), t[i])
    <3>1. SubSeq(t, 1, i) = SubSeq(t, 1, k) \o <<t[i]>>
      <4> 1 \in 1..Len(t) /\ i \in 1..Len(t)
        BY <1>2, <2>1 DEF n
      <4> QED
        BY <2>1, SubSeqRecursiveSecond DEF Texts
    <3>2. SubSeq(t, 1, k) \in Texts
      BY <2>3
    <3> QED
      BY <3>1, <3>2, <1>2, <2>1, AppendIsConcat DEF Texts
  <2>6. CASE k \in cuts
    <3> DEFINE v == <<t[i]>>
    <3>1. f[i] = Append(ts, v) /\ v \in Texts
      BY <1>1, <1>2, <2>1, <2>2, <2>6
    <3>2. FlattenSeq(Append(ts, v)) = SubSeq(t, 1, i)
      <4>1. FlattenSeq(Append(ts, v)) = SubSeq(t, 1, k) \o v
        <5> ts \in Seq(Seq(Tokens)) /\ v \in Seq(Tokens)
          BY <2>4, <3>1 DEF Texts
        <5> HIDE DEF ts, v
        <5> QED
          BY <2>4, FlattenAppend
      <4>2. SubSeq(t, 1, k) \o v = Append(SubSeq(t, 1, k), t[i])
        BY <2>3, <1>2, <2>1, AppendIsConcat DEF Texts
      <4> QED
        BY <4>1, <4>2, <2>5
    <3>3. Ends(ts) = {Upto(t, c) : c \in Before(i)}
      <4>1. Before(i) = Before(k) \cup {k}
        BY <1>2, <2>1, <2>6
      <4>2. Ends(ts) = Ends(us) \cup {Len(WordsOf(ts))}
        BY EndsAppend
      <4>3. Len(WordsOf(ts)) = Upto(t, k)
        BY <2>4 DEF WordsOf, Upto
      <4> HIDE DEF ts, Before
      <4> QED
        BY <4>1, <4>2, <4>3, <2>2 DEF P
    <3>4. v # <<>> /\ v[Len(v)] = t[i]
      OBVIOUS
    <3>5. ASSUME NEW j \in DOMAIN ts PROVE ts[j] # <<>> /\ \E c \in cuts : ts[j][Len(ts[j])] = t[c]
      <4>1. /\ Len(us) \in Nat /\ DOMAIN us = 1..Len(us) /\ DOMAIN ts = 1..(Len(us) + 1)
            /\ ts[Len(us) + 1] = u /\ \A m \in 1..Len(us) : ts[m] = us[m]
        BY AppendProperties, LenProperties
      <4>2. k > 0
        BY <2>6, <1>2
      <4> HIDE DEF ts
      <4>3. CASE j = Len(us) + 1
        BY <4>1, <4>2, <4>3, <2>2, <2>6 DEF P
      <4>4. CASE j # Len(us) + 1
        <5> j \in 1..Len(us)
          BY <4>1, <4>4
        <5> QED
          BY <4>1, <2>2 DEF P
      <4> QED
        BY <4>3, <4>4
    <3> HIDE DEF ts, v, Before
    <3>6. P(i, ts, v)
      BY <3>2, <3>3, <3>4, <3>5 DEF P
    <3> QED
      BY <2>4, <3>1, <3>6
  <2>7. CASE k \notin cuts
    <3> DEFINE v == Append(u, t[i])
    <3>1. f[i] = Append(us, v) /\ v \in Texts
      <4>1. f[i] = Extended(ts, t[i])
        BY <1>1, <2>1, <2>2, <2>7
      <4> DEFINE y == t[i]
      <4>2. y \in Tokens
        BY <1>2, <2>1
      <4> HIDE DEF y
      <4>3. Append(u, y) \in Texts /\ Extended(ts, y) = Append(us, Append(u, y))
        BY <4>2, ExtendedLast
      <4> QED
        BY <4>1, <4>3 DEF y
    <3>2. FlattenSeq(Append(us, v)) = SubSeq(t, 1, i)
      <4>1. FlattenSeq(Append(us, v)) = FlattenSeq(us) \o v /\ FlattenSeq(us) \in Texts
        <5> us \in Seq(Seq(Tokens)) /\ v \in Seq(Tokens)
          BY <3>1 DEF Texts
        <5> HIDE DEF v
        <5> QED
          BY FlattenAppend DEF Texts
      <4>2. FlattenSeq(us) \o u = SubSeq(t, 1, k)
        <5> us \in Seq(Seq(Tokens)) /\ u \in Seq(Tokens)
          BY DEF Texts
        <5> QED
          BY <2>4, FlattenAppend
      <4> DEFINE a == FlattenSeq(us)
      <4>3. a \in Texts
        BY <4>1
      <4> HIDE DEF a
      <4>4. a \o Append(u, t[i]) = Append(a \o u, t[i])
        <5>1. /\ <<t[i]>> \in Texts /\ t[i] \in Tokens /\ a \o u \in Texts
          BY <1>2, <2>1, <4>3, LettersConcat
        <5>2. Append(u, t[i]) = u \o <<t[i]>>
          BY <5>1, AppendIsConcat DEF Texts
        <5>3. Append(a \o u, t[i]) = (a \o u) \o <<t[i]>>
          <6> DEFINE b == a \o u
          <6> HIDE DEF b
          <6> b \in Texts
            BY <5>1 DEF b
          <6> Append(b, t[i]) = b \o <<t[i]>>
            BY <5>1, AppendIsConcat DEF Texts
          <6> QED
            BY DEF b
        <5> QED
          BY <4>3, <5>1, <5>2, <5>3, ConcatTexts
      <4> QED
        BY <4>1, <4>2, <4>4, <2>5 DEF a
    <3>3. Before(i) = Before(k)
      BY <1>2, <2>1, <2>7
    <3>4. v # <<>> /\ v[Len(v)] = t[i]
      <4> DEFINE y == t[i]
      <4>1. y \in Tokens /\ u \in Seq(Tokens)
        BY <1>2, <2>1 DEF Texts
      <4> HIDE DEF y
      <4>2. Append(u, y) # <<>> /\ Append(u, y)[Len(Append(u, y))] = y
        BY <4>1, AppendProperties, LenProperties
      <4> QED
        BY <4>2 DEF y
    <3> HIDE DEF ts, v, Before
    <3>5. P(i, us, v)
      BY <2>2, <3>2, <3>3, <3>4 DEF P
    <3> QED
      BY <3>1, <3>5
  <2> QED
    BY <2>6, <2>7
<1>5. T = Nat
  <2> T \subseteq Nat
    OBVIOUS
  <2> HIDE DEF T
  <2> QED
    BY <1>3, <1>4, SetInduction
<1>6. PICK us \in Seq(Texts), u \in Texts : f[n] = Append(us, u) /\ P(n, us, u)
  BY <1>2, <1>5
<1>7. Before(n) = cuts \ {n}
  BY <1>2
<1>8. SubSeq(t, 1, n) = t
  BY SubSeqFull DEF n, Texts
<1>9. t # <<>> => n > 0
  BY EmptySeq, <1>2 DEF n, Texts
<1> HIDE DEF Before, T
<1>10. P(n, us, u) => /\ FlattenSeq(Append(us, u)) = t
                      /\ Ends(us) = {Upto(t, c) : c \in cuts \ {n}}
                      /\ t # <<>> => u # <<>> /\ u[Len(u)] = t[n]
                      /\ \A k \in DOMAIN us :
                           us[k] # <<>> /\ \E c \in cuts : us[k][Len(us[k])] = t[c]
  BY <1>7, <1>8, <1>9 DEF P
<1> QED
  BY <1>1, <1>6, <1>10 DEF n, CutInto

\* Texts with the same letters each end at the same places.
LEMMA SameEnds ==
  ASSUME NEW ts \in Seq(Texts), NEW us \in Seq(Texts), Len(us) = Len(ts),
         \A k \in 1..Len(ts) : LettersOf(us[k]) = LettersOf(ts[k])
  PROVE  Ends(us) = Ends(ts)
<1>1. Len(ts) \in Nat /\ DOMAIN ts = 1..Len(ts) /\ DOMAIN us = 1..Len(ts)
  BY LenProperties
<1>2. ASSUME NEW k \in 1..Len(ts)
      PROVE  WordsOf(SubSeq(us, 1, k)) = WordsOf(SubSeq(ts, 1, k))
  <2> DEFINE a == SubSeq(ts, 1, k)
             b == SubSeq(us, 1, k)
  <2>1. a \in Seq(Texts) /\ Len(a) = k /\ \A i \in 1..k : a[i] = ts[i]
    BY <1>1, SubSeqProperties, LenProperties
  <2>2. b \in Seq(Texts) /\ Len(b) = k /\ \A i \in 1..k : b[i] = us[i]
    BY <1>1, SubSeqProperties, LenProperties
  <2>3. \A i \in 1..k : LettersOf(b[i]) = LettersOf(a[i])
    BY <1>1, <2>1, <2>2
  <2> HIDE DEF a, b
  <2>4. Len(b) = Len(a) /\ \A i \in 1..Len(a) : LettersOf(b[i]) = LettersOf(a[i])
    BY <2>1, <2>2, <2>3
  <2>5. WordsOf(b) = WordsOf(a)
    BY <2>1, <2>2, <2>4, SameWords
  <2> QED
    BY <2>5 DEF a, b
<1> QED
  BY <1>1, <1>2 DEF Ends

\* Dropping texts without letters moves no end: the ends before and after differ
\* at most by 0.
LEMMA EndsKept ==
  ASSUME NEW ts \in Seq(Texts), NEW V, \A t \in Texts \ V : LettersOf(t) = <<>>
  PROVE  Ends(Kept(ts, V)) \cup {0} = Ends(ts) \cup {0}
<1> DEFINE T == {a \in Seq(Texts) : Ends(Kept(a, V)) \cup {0} = Ends(a) \cup {0}}
<1>1. <<>> \in T
  BY KeptEmpty
<1>2. ASSUME NEW a \in T, NEW x \in Texts PROVE Append(a, x) \in T
  <2>1. a \in Seq(Texts) /\ Append(a, x) \in Seq(Texts) /\ Kept(a, V) \in Seq(Texts)
    BY AppendProperties, KeptType
  <2>2. Ends(Kept(a, V)) \cup {0} = Ends(a) \cup {0}
    OBVIOUS
  <2>3. Ends(Append(a, x)) = Ends(a) \cup {Len(WordsOf(Append(a, x)))}
    BY <2>1, EndsAppend
  <2>4. Kept(Append(a, x), V) = IF x \in V THEN Append(Kept(a, V), x) ELSE Kept(a, V)
    BY <2>1, KeptAppend
  <2>5. WordsOf(Kept(Append(a, x), V)) = WordsOf(Append(a, x))
    BY <2>1, WordsKept
  <2>6. ASSUME Ends(Kept(Append(a, x), V)) \cup {0} = Ends(Append(a, x)) \cup {0}
        PROVE  Append(a, x) \in T
    BY <2>1, <2>6
  <2> HIDE DEF T
  <2>7. CASE x \in V
    <3>1. Ends(Append(Kept(a, V), x)) = Ends(Kept(a, V)) \cup {Len(WordsOf(Append(Kept(a, V), x)))}
      <4> DEFINE b == Kept(a, V)
      <4> b \in Seq(Texts)
        BY <2>1
      <4> HIDE DEF b
      <4> Ends(Append(b, x)) = Ends(b) \cup {Len(WordsOf(Append(b, x)))}
        BY EndsAppend
      <4> QED
        BY DEF b
    <3> QED
      BY <3>1, <2>2, <2>3, <2>4, <2>5, <2>6, <2>7
  <2>8. CASE x \notin V
    <3>1. LettersOf(x) = <<>>
      BY <2>8
    <3>2. WordsOf(Append(a, x)) = WordsOf(a)
      <4> WordsOf(a) \in Texts /\ WordsOf(Append(a, x)) = WordsOf(a) \o LettersOf(x)
        BY <2>1, WordsAppend
      <4> QED
        BY <3>1, ConcatTexts
    <3>3. Len(WordsOf(a)) \in Ends(a) \cup {0}
      BY <2>1, LastIsAnEnd
    <3> QED
      BY <3>2, <3>3, <2>2, <2>3, <2>4, <2>6, <2>8
  <2> QED
    BY <2>7, <2>8
<1>3. T = Seq(Texts)
  <2> T \subseteq Seq(Texts)
    OBVIOUS
  <2> HIDE DEF T
  <2> QED
    BY <1>1, <1>2, SeqInduction
<1> QED
  BY <1>3

\* Stripping every text of a list keeps the words and the ends.
LEMMA StripAll ==
  ASSUME NEW ts \in Seq(Texts)
  PROVE  LET us == [k \in DOMAIN ts |-> Strip(ts[k])]
         IN us \in Seq(Texts) /\ WordsOf(us) = WordsOf(ts) /\ Ends(us) = Ends(ts)
<1> DEFINE us == [k \in DOMAIN ts |-> Strip(ts[k])]
<1>1. Len(ts) \in Nat /\ DOMAIN ts = 1..Len(ts) /\ \A k \in 1..Len(ts) : ts[k] \in Texts
  BY LenProperties
<1>2. \A k \in 1..Len(ts) : us[k] \in Texts /\ LettersOf(us[k]) = LettersOf(ts[k])
  BY <1>1, StripText
<1>3. us = [k \in 1..Len(ts) |-> us[k]]
  BY <1>1
<1> HIDE DEF us
<1>4. us \in Seq(Texts) /\ Len(us) = Len(ts)
  BY <1>1, <1>2, <1>3
<1>5. WordsOf(us) = WordsOf(ts) /\ Ends(us) = Ends(ts)
  BY <1>2, <1>4, SameWords, SameEnds
<1> QED
  BY <1>4, <1>5 DEF us

\* The texts the code's filters drop have no letters.
LEMMA DroppedTexts ==
  /\ \A t \in Texts \ (Texts \ {<<>>}) : LettersOf(t) = <<>>
  /\ \A t \in Texts \ HasLetters : LettersOf(t) = <<>>
<1>1. ASSUME NEW t \in Texts \ HasLetters PROVE LettersOf(t) = <<>>
  BY Letterless DEF HasLetters
<1> QED
  BY <1>1, LettersConcat

\* Dropping the empty texts keeps the words, and the ends but for 0.
LEMMA NonEmptyTexts ==
  ASSUME NEW ts \in Seq(Texts)
  PROVE  /\ NonEmpty(ts) \in Seq(Texts)
         /\ WordsOf(NonEmpty(ts)) = WordsOf(ts)
         /\ Ends(NonEmpty(ts)) \cup {0} = Ends(ts) \cup {0}
  BY DroppedTexts, WordsKept, EndsKept DEF NonEmpty

-----------------------------------------------------------------------------
(* The splitter, the streamer and the lines.                               *)

Cuts(t) == {i \in DOMAIN t : EndsSentence(t, i) \/ EndsParagraph(t, i)}

\* A text cut into parts keeps its words, and the parts end at the cuts and at
\* the end.
LEMMA PartsWords ==
  ASSUME NEW t \in Texts, NEW cuts, cuts \subseteq DOMAIN t
  PROVE  /\ Parts(t, cuts) \in Seq(Texts)
         /\ WordsOf(Parts(t, cuts)) = LettersOf(t)
         /\ Ends(Parts(t, cuts)) = {Upto(t, c) : c \in cuts \cup {Len(t)}}
<1>1. PICK us \in Seq(Texts), u \in Texts :
           /\ Parts(t, cuts) = Append(us, u)
           /\ FlattenSeq(Append(us, u)) = t
           /\ Ends(us) = {Upto(t, c) : c \in cuts \ {Len(t)}}
  BY PartsOfText DEF CutInto
<1>2. WordsOf(Append(us, u)) = LettersOf(t)
  BY <1>1 DEF WordsOf
<1>3. SubSeq(t, 1, Len(t)) = t
  BY SubSeqFull DEF Texts
<1>4. Ends(Append(us, u)) = Ends(us) \cup {Upto(t, Len(t))}
  BY <1>2, <1>3, EndsAppend DEF Upto
<1> QED
  BY <1>1, <1>2, <1>4, AppendProperties

\* split_sentences keeps every word, in order, and its sentences end where the
\* regular expression finds an end, and nowhere else but at the end of the text.
LEMMA SplitSentencesWords ==
  ASSUME NEW t \in Texts
  PROVE  /\ SplitSentences(t) \in Seq(Texts)
         /\ WordsOf(SplitSentences(t)) = LettersOf(t)
         /\ Ends(SplitSentences(t)) \cup {0} = {Upto(t, c) : c \in Cuts(t) \cup {Len(t)}} \cup {0}
<1> DEFINE parts == Parts(t, Cuts(t))
           us == [k \in DOMAIN parts |-> Strip(parts[k])]
<1>1. /\ parts \in Seq(Texts) /\ WordsOf(parts) = LettersOf(t)
      /\ Ends(parts) = {Upto(t, c) : c \in Cuts(t) \cup {Len(t)}}
  <2> Cuts(t) \subseteq DOMAIN t
    BY DEF Cuts
  <2> QED
    BY PartsWords
<1>2. SplitSentences(t) = NonEmpty(us)
  BY DEF SplitSentences, Cuts
<1> HIDE DEF parts
<1>3. us \in Seq(Texts) /\ WordsOf(us) = WordsOf(parts) /\ Ends(us) = Ends(parts)
  BY <1>1, StripAll
<1> HIDE DEF us
<1> QED
  BY <1>1, <1>2, <1>3, NonEmptyTexts

\* The terminals feed looks for are places of the text, so the last of them, or
\* 0, is where it cuts.
LEMMA TerminalsInText ==
  ASSUME NEW t \in Texts
  PROVE  Terminals(t) \subseteq 1..Len(t) /\ Max({0} \cup Terminals(t)) \in 0..Len(t)
<1>1. Len(t) \in Nat /\ DOMAIN t = 1..Len(t)
  BY LenProperties DEF Texts
<1>2. Terminals(t) \subseteq 1..Len(t)
  BY <1>1 DEF Terminals, EndsParagraph
<1> DEFINE X == {0} \cup Terminals(t)
<1>3. X \subseteq 0..Len(t) /\ X # {}
  BY <1>1, <1>2
<1> HIDE DEF X
<1>4. Max(X) \in X
  BY <1>1, <1>3, SmallestAndLargest
<1> QED
  BY <1>2, <1>3, <1>4 DEF X

\* SentenceStreamer.feed: what it releases and what stays pending have the words
\* of the text between them, and the sentences released end where sentences end
\* in the part it cut off.
LEMMA FeedWords ==
  ASSUME NEW t \in Texts
  PROVE  LET end == Max({0} \cup Terminals(t))
             head == SubSeq(t, 1, end)
         IN /\ Feed(t).released \in Seq(Texts)
            /\ Feed(t).pending = SubSeq(t, end + 1, Len(t))
            /\ Feed(t).pending \in Texts
            /\ WordsOf(Feed(t).released) = LettersOf(head)
            /\ WordsOf(Feed(t).released) \o LettersOf(Feed(t).pending) = LettersOf(t)
            /\ Ends(Feed(t).released) \cup {0} =
                 {Upto(head, c) : c \in Cuts(head) \cup {Len(head)}} \cup {0}
<1> DEFINE end == Max({0} \cup Terminals(t))
           head == SubSeq(t, 1, end)
           rest == SubSeq(t, end + 1, Len(t))
<1>1. end \in 0..Len(t)
  BY TerminalsInText
<1>2. /\ Feed(t).released = Kept(SplitSentences(head), HasLetters)
      /\ Feed(t).pending = rest
  BY DEF Feed
<1> HIDE DEF end
<1>3. head \in Texts /\ rest \in Texts /\ LettersOf(t) = LettersOf(head) \o LettersOf(rest)
  BY <1>1, CutText
<1> HIDE DEF head, rest
<1> DEFINE all == SplitSentences(head)
<1>4. /\ all \in Seq(Texts) /\ WordsOf(all) = LettersOf(head)
      /\ Ends(all) \cup {0} = {Upto(head, c) : c \in Cuts(head) \cup {Len(head)}} \cup {0}
  BY <1>3, SplitSentencesWords
<1> HIDE DEF all
<1>5. /\ Kept(all, HasLetters) \in Seq(Texts)
      /\ WordsOf(Kept(all, HasLetters)) = WordsOf(all)
      /\ Ends(Kept(all, HasLetters)) \cup {0} = Ends(all) \cup {0}
  BY <1>4, DroppedTexts, WordsKept, EndsKept
<1> QED
  BY <1>2, <1>3, <1>4, <1>5 DEF all, end, head, rest

\* SentenceStreamer.flush releases every word that was pending.
LEMMA FlushWords ==
  ASSUME NEW t \in Texts
  PROVE  /\ Flush(t) \in Seq(Texts)
         /\ WordsOf(Flush(t)) = LettersOf(t)
  BY StripText, SplitSentencesWords DEF Flush

\* splitlines keeps every word, in order.
LEMMA LinesWords ==
  ASSUME NEW t \in Texts
  PROVE  LinesOf(t) \in Seq(Texts) /\ WordsOf(LinesOf(t)) = LettersOf(t)
<1> DEFINE text == Append(t, Newline)
           cuts == {i \in DOMAIN text : text[i] = Newline}
           parts == Parts(text, cuts)
           lines == [k \in DOMAIN parts |-> Front(parts[k])]
<1>1. Newline \in Tokens /\ Newline \notin Lettered
  BY TextAssumption DEF Tokens, Blank
<1>2. /\ text \in Texts /\ text # <<>> /\ text[Len(text)] = Newline
      /\ LettersOf(text) = LettersOf(t)
  <2>1. LettersOf(text) = LettersOf(t)
    BY <1>1, LettersAppend
  <2> QED
    BY <2>1, <1>1, AppendProperties, LenProperties DEF Texts
<1> HIDE DEF text
<1>3. PICK us \in Seq(Texts), u \in Texts : CutInto(text, cuts, us, u)
  <2> cuts \subseteq DOMAIN text
    OBVIOUS
  <2> HIDE DEF cuts
  <2> QED
    BY <1>2, PartsOfText
<1>4. /\ parts = Append(us, u) /\ FlattenSeq(parts) = text
       /\ u # <<>> /\ u[Len(u)] = Newline
       /\ \A k \in DOMAIN us : us[k] # <<>> /\ us[k][Len(us[k])] = Newline
  BY <1>2, <1>3 DEF CutInto
<1> HIDE DEF parts, cuts
<1>5. WordsOf(parts) = LettersOf(t)
  BY <1>2, <1>4 DEF WordsOf
<1>6. /\ parts \in Seq(Texts) /\ Len(parts) \in Nat /\ DOMAIN parts = 1..Len(parts)
      /\ \A k \in 1..Len(parts) : parts[k] \in Texts
  <2> parts \in Seq(Texts)
    BY <1>4, AppendProperties
  <2> QED
    BY LenProperties
<1>7. \A k \in 1..Len(parts) : parts[k] # <<>> /\ parts[k][Len(parts[k])] = Newline
  <2>1. /\ Len(us) \in Nat /\ DOMAIN us = 1..Len(us) /\ Len(parts) = Len(us) + 1
        /\ parts[Len(us) + 1] = u /\ \A k \in 1..Len(us) : parts[k] = us[k]
    BY <1>4, AppendProperties, LenProperties
  <2> SUFFICES ASSUME NEW k \in 1..Len(parts)
               PROVE  parts[k] # <<>> /\ parts[k][Len(parts[k])] = Newline
    OBVIOUS
  <2>2. CASE k = Len(us) + 1
    BY <1>4, <2>1, <2>2
  <2>3. CASE k # Len(us) + 1
    <3> k \in DOMAIN us
      BY <2>1, <2>3
    <3> QED
      BY <1>4, <2>1
  <2> QED
    BY <2>2, <2>3
<1>8. ASSUME NEW k \in 1..Len(parts)
      PROVE  lines[k] \in Texts /\ LettersOf(lines[k]) = LettersOf(parts[k])
  <2> DEFINE p == parts[k]
  <2>1. p \in Texts /\ p # <<>> /\ p[Len(p)] = Newline
    BY <1>6, <1>7
  <2>2. lines[k] = Front(p)
    BY <1>6
  <2> HIDE DEF p, lines
  <2>3. PICK q \in Texts, x \in Tokens : p = Append(q, x)
    BY <2>1, SequenceEmptyOrAppend DEF Texts
  <2>4. Len(p) = Len(q) + 1 /\ Len(q) \in Nat /\ x = Newline /\ \A i \in 1..Len(q) : p[i] = q[i]
    BY <2>1, <2>3, AppendProperties, LenProperties DEF Texts
  <2>5. Front(p) = q
    <3>1. Front(p) = SubSeq(p, 1, Len(q))
      BY <2>4 DEF Front
    <3>2. SubSeq(p, 1, Len(q)) = q
      <4>1. /\ SubSeq(p, 1, Len(q)) \in Seq(Tokens) /\ Len(SubSeq(p, 1, Len(q))) = Len(q)
            /\ \A i \in 1..Len(q) : SubSeq(p, 1, Len(q))[i] = p[i]
        BY <2>1, <2>4, LenProperties, SubSeqProperties DEF Texts
      <4> QED
        BY <4>1, <2>4, SeqEqual DEF Texts
    <3> QED
      BY <3>1, <3>2
  <2>6. LettersOf(p) = LettersOf(q)
    BY <1>1, <2>3, <2>4, LettersAppend
  <2> QED
    BY <2>2, <2>5, <2>6 DEF p
<1>9. lines = [k \in 1..Len(parts) |-> lines[k]]
  BY <1>6
<1>10. LinesOf(t) = lines
  BY DEF LinesOf, parts, text, cuts
<1> HIDE DEF lines
<1>11. lines \in Seq(Texts) /\ Len(lines) = Len(parts)
  BY <1>6, <1>8, <1>9
<1>12. WordsOf(lines) = WordsOf(parts)
  BY <1>6, <1>8, <1>11, SameWords
<1> QED
  BY <1>5, <1>10, <1>11, <1>12

-----------------------------------------------------------------------------
(* What sanitize_for_speech returns.                                       *)

\* Lengths of texts, which are numbers, add up.
LEMMA Lengths ==
  /\ \A t \in Texts : Len(t) \in Nat /\ DOMAIN t = 1..Len(t)
  /\ \A s, t \in Texts : s \o t \in Texts /\ Len(s \o t) = Len(s) + Len(t)
  /\ \A t \in Texts, k \in Tokens : Append(t, k) \in Texts /\ Len(Append(t, k)) = Len(t) + 1
  /\ Len(<<>>) = 0
<1>1. \A t \in Texts : Len(t) \in Nat /\ DOMAIN t = 1..Len(t)
  BY LenProperties DEF Texts
<1>2. \A s, t \in Texts : s \o t \in Texts /\ Len(s \o t) = Len(s) + Len(t)
  BY ConcatProperties DEF Texts
<1>3. \A t \in Texts, k \in Tokens : Append(t, k) \in Texts /\ Len(Append(t, k)) = Len(t) + 1
  BY AppendProperties DEF Texts
<1> QED
  BY <1>1, <1>2, <1>3

\* A space, a newline and two newlines are texts.
LEMMA SpaceTexts ==
  /\ " " \in Tokens /\ Newline \in Tokens
  /\ <<" ">> \in Texts /\ <<Newline>> \in Texts /\ <<Newline, Newline>> \in Texts
  /\ Len(<<" ">>) = 1
<1>1. " " \in Tokens /\ Newline \in Tokens
  BY DEF Tokens, Blank
<1>2. \A k \in Tokens : <<k>> \in Seq(Tokens) /\ <<k, k>> \in Seq(Tokens)
  OBVIOUS
<1> QED
  BY <1>1, <1>2 DEF Texts

\* ts, each with a space behind it.
Spaced(ts) == FlattenSeq([j \in 1..Len(ts) |-> Append(ts[j], " ")])

\* One more text with a space behind it.
LEMMA SpacedAppend ==
  ASSUME NEW ts \in Seq(Texts), NEW t \in Texts
  PROVE  Spaced(ts) \in Texts /\ Spaced(Append(ts, t)) = Spaced(ts) \o Append(t, " ")
<1> DEFINE n == Len(ts)
           us == Append(ts, t)
           F == [j \in 1..n |-> Append(ts[j], " ")]
           G == [j \in 1..(n + 1) |-> Append(us[j], " ")]
           sp == " "
<1>1. sp \in Tokens
  BY DEF Tokens, Blank
<1>2. n \in Nat /\ \A j \in 1..n : ts[j] \in Texts
  BY LenProperties
<1>3. us \in Seq(Texts) /\ Len(us) = n + 1 /\ us[n + 1] = t /\ \A j \in 1..n : us[j] = ts[j]
  BY AppendProperties
<1>4. \A x \in Texts : Append(x, sp) \in Seq(Tokens)
  BY <1>1, AppendProperties DEF Texts
<1> HIDE DEF us, n, sp
<1> DEFINE A(x) == Append(x, sp)
           f == [j \in 1..n |-> A(ts[j])]
           g == [j \in 1..(n + 1) |-> A(us[j])]
<1>5. F = f /\ G = g
  BY DEF sp
<1>6. \A x \in Texts : A(x) \in Seq(Tokens)
  BY <1>4
<1> HIDE DEF A
<1>7. f \in Seq(Seq(Tokens)) /\ Len(f) = n /\ g \in Seq(Seq(Tokens)) /\ Len(g) = n + 1
  <2>1. \A j \in 1..(n + 1) : us[j] \in Texts
    <3> SUFFICES ASSUME NEW j \in 1..(n + 1) PROVE us[j] \in Texts
      OBVIOUS
    <3>1. CASE j = n + 1
      BY <3>1, <1>3
    <3>2. CASE j # n + 1
      BY <3>2, <1>2, <1>3
    <3> QED
      BY <3>1, <3>2
  <2>2. n + 1 \in Nat
    BY <1>2
  <2> QED
    BY <1>2, <1>6, <2>1, <2>2
<1>8. g = Append(f, A(t))
  <2>1. A(t) \in Seq(Tokens)
    BY <1>6
  <2> DEFINE z == A(t)
  <2>2. \A k \in 1..n : g[k] = f[k]
    BY <1>2, <1>3
  <2>3. g[n + 1] = z
    BY <1>2, <1>3
  <2> HIDE DEF f, g, z
  <2>4. /\ Append(f, z) \in Seq(Seq(Tokens)) /\ Len(Append(f, z)) = n + 1
        /\ Append(f, z)[n + 1] = z /\ \A k \in 1..n : Append(f, z)[k] = f[k]
    BY <2>1, <1>7, AppendProperties DEF z
  <2>5. ASSUME NEW k \in 1..(n + 1) PROVE g[k] = Append(f, z)[k]
    BY <1>2, <2>4, <2>2, <2>3
  <2>6. g = Append(f, z)
    BY <1>7, <2>4, <2>5, SeqEqual
  <2> QED
    BY <2>6 DEF z
<1> HIDE DEF f, g
<1>9. FlattenSeq(f) \in Seq(Tokens) /\ FlattenSeq(g) = FlattenSeq(f) \o A(t)
  BY <1>6, <1>7, <1>8, FlattenAppend
<1>10. Spaced(ts) = FlattenSeq(f)
  BY <1>5 DEF Spaced, n
<1>11. Spaced(us) = FlattenSeq(g)
  BY <1>3, <1>5 DEF Spaced
<1> QED
  BY <1>9, <1>10, <1>11 DEF us, Texts, A, sp

\* Texts joined with spaces are one shorter than the texts with a space behind
\* each: truncate_for_speech counts a space with every sentence, so what it
\* joins is within its limit.
LEMMA JoinFits ==
  ASSUME NEW ts \in Seq(Texts), ts # <<>>
  PROVE  Join(ts, <<" ">>) \in Texts /\ Len(Join(ts, <<" ">>)) < Len(Spaced(ts))
<1> DEFINE sep == <<" ">>
           T == {a \in Seq(Texts) : a # <<>> => /\ Join(a, sep) \in Texts
                                               /\ Len(Spaced(a)) = Len(Join(a, sep)) + 1}
<1>1. <<>> \in T
  OBVIOUS
<1>2. sep \in Texts /\ Len(sep) = 1
  BY SpaceTexts
<1> HIDE DEF sep
<1>3. ASSUME NEW a \in T, NEW x \in Texts PROVE Append(a, x) \in T
  <2> DEFINE y == Append(x, " ")
             d == sep \o x
             s == Spaced(a)
             j == Join(a, sep)
             b == Append(a, x)
             s1 == Spaced(b)
             j1 == Join(b, sep)
  <2>1. a \in Seq(Texts) /\ b \in Seq(Texts)
    BY AppendProperties
  <2>2. a # <<>> => Len(s) = Len(j) + 1
    OBVIOUS
  <2>3. ASSUME j1 \in Texts, Len(s1) = Len(j1) + 1 PROVE Append(a, x) \in T
    BY <2>1, <2>3
  <2> HIDE DEF T
  <2>4. s \in Texts /\ s1 = s \o y
    BY <2>1, SpacedAppend
  <2>5. j \in Texts /\ j1 \in Texts /\ j1 = IF a = <<>> THEN x ELSE j \o d
    BY <1>2, <2>1, JoinAppend
  <2>6. a = <<>> => s = <<>>
    <3> SUFFICES ASSUME a = <<>> PROVE s = <<>>
      OBVIOUS
    <3> [k \in 1..Len(a) |-> Append(a[k], " ")] = <<>>
      OBVIOUS
    <3> QED
      BY FlattenEmpty DEF Spaced
  <2>7. /\ y \in Texts /\ Len(y) = Len(x) + 1
        /\ d \in Texts /\ Len(d) = 1 + Len(x)
    <3>1. y \in Texts /\ Len(y) = Len(x) + 1
      <4> DEFINE sp == " "
      <4> sp \in Tokens
        BY SpaceTexts
      <4> HIDE DEF sp
      <4> Append(x, sp) \in Texts /\ Len(Append(x, sp)) = Len(x) + 1
        BY Lengths
      <4> QED
        BY DEF sp
    <3>2. d \in Texts /\ Len(d) = 1 + Len(x)
      BY <1>2, Lengths
    <3> QED
      BY <3>1, <3>2
  <2> HIDE DEF y, d, s, j, s1, j1
  <2>8. Len(s1) = Len(s) + Len(y) /\ (a # <<>> => Len(j1) = Len(j) + Len(d))
    BY <2>4, <2>5, <2>7, Lengths
  <2>9. Len(x) \in Nat /\ Len(s) \in Nat /\ Len(j) \in Nat /\ Len(j1) \in Nat
    BY <2>4, <2>5, Lengths
  <2>10. Len(s1) = Len(j1) + 1
    <3>1. CASE a = <<>>
      <4>1. Len(s) = 0 /\ j1 = x
        BY <2>5, <2>6, <3>1, Lengths
      <4> QED
        BY <2>7, <2>8, <2>9, <4>1
    <3>2. CASE a # <<>>
      BY <2>2, <2>7, <2>8, <2>9, <3>2
    <3> QED
      BY <3>1, <3>2
  <2> QED
    BY <2>3, <2>5, <2>10
<1>4. T = Seq(Texts)
  <2> T \subseteq Seq(Texts)
    OBVIOUS
  <2> HIDE DEF T
  <2> QED
    BY <1>1, <1>3, SeqInduction
<1>5. Join(ts, sep) \in Texts /\ Len(Spaced(ts)) = Len(Join(ts, sep)) + 1
  BY <1>4
<1> HIDE DEF T
<1>6. Len(Join(ts, sep)) < Len(Spaced(ts))
  <2> Len(Join(ts, sep)) \in Nat
    BY <1>5, Lengths
  <2> QED
    BY <1>5
<1> QED
  BY <1>5, <1>6 DEF sep

\* The hard cut of truncate_for_speech, at a space when there is one, is within
\* the limit.
LEMMA HardCutText ==
  ASSUME NEW t \in Texts, NEW limit \in Nat, limit <= Len(t)
  PROVE  HardCut(t, limit) \in Texts /\ Len(HardCut(t, limit)) <= limit
<1> DEFINE head == SubSeq(t, 1, limit)
           X == {0} \cup {i \in DOMAIN head : head[i] = " "}
           cut == Max(X)
           front == SubSeq(head, 1, cut)
<1>1. Len(t) \in Nat
  BY LenProperties DEF Texts
<1>2. head \in Texts /\ Len(head) = limit /\ DOMAIN head = 1..limit
  <2>1. head \in Texts /\ Len(head) = IF 1 <= limit THEN limit - 1 + 1 ELSE 0
    BY <1>1, SubSeqText
  <2> QED
    BY <2>1, LenProperties DEF Texts
<1>3. cut \in 0..limit
  <2> HIDE DEF head
  <2> DEFINE spaces == {i \in DOMAIN head : head[i] = " "}
  <2>1. spaces \subseteq 1..limit
    BY <1>2
  <2> HIDE DEF spaces
  <2>2. ({0} \cup spaces) \subseteq 0..limit /\ ({0} \cup spaces) # {}
    BY <2>1
  <2>3. X \subseteq 0..limit /\ X # {}
    BY <2>2 DEF spaces
  <2> HIDE DEF X
  <2> QED
    BY <2>3, SmallestAndLargest
<1>4. HardCut(t, limit) = IF cut = 0 \/ Strip(front) = <<>> THEN head ELSE Strip(front)
  BY DEF HardCut
<1> HIDE DEF cut, head
<1>5. front \in Texts /\ Len(front) <= limit
  BY <1>2, <1>3, SubSeqText
<1> HIDE DEF front
<1>6. Strip(front) \in Texts /\ Len(Strip(front)) <= Len(front)
  BY <1>5, StripText
<1>7. Len(Strip(front)) \in Nat /\ Len(front) \in Nat
  BY <1>5, <1>6, Lengths
<1> QED
  BY <1>2, <1>4, <1>5, <1>6, <1>7

\* truncate_for_speech never returns more than its limit, whichever sentences
\* fit, and however long the first of them is.
LEMMA TruncatedText ==
  ASSUME NEW t \in Texts, NEW limit \in Nat
  PROVE  TruncateForSpeech(t, limit) \in Texts /\ Len(TruncateForSpeech(t, limit)) <= limit
<1> DEFINE all == SplitSentences(t)
           X == {0} \cup Fitting(all, limit)
           fit == Max(X)
           some == SubSeq(all, 1, fit)
<1>1. TruncateForSpeech(t, limit) = IF Len(t) <= limit THEN t
                                    ELSE IF fit > 0 THEN Join(some, <<" ">>)
                                    ELSE HardCut(t, limit)
  BY DEF TruncateForSpeech
<1>2. all \in Seq(Texts)
  BY SplitSentencesWords
<1> HIDE DEF all
<1>3. Len(all) \in Nat /\ DOMAIN all = 1..Len(all) /\ Len(t) \in Nat
  BY <1>2, LenProperties DEF Texts
<1>4. fit \in X /\ X \subseteq 0..Len(all)
  <2>1. X \subseteq 0..Len(all) /\ X # {}
    <3> Fitting(all, limit) \subseteq DOMAIN all
      BY DEF Fitting
    <3> QED
      BY <1>3
  <2> HIDE DEF X
  <2> QED
    BY <1>3, <2>1, SmallestAndLargest
<1> HIDE DEF fit
<1>5. CASE fit > 0
  <2>1. fit \in 1..Len(all) /\ fit \in Fitting(all, limit)
    BY <1>3, <1>4, <1>5
  <2>2. some \in Seq(Texts) /\ Len(some) = fit /\ \A j \in 1..fit : some[j] = all[j]
    <3> \A j \in 1..fit : all[j] \in Texts
      BY <1>2, <1>3, <2>1, ElementOfSeq
    <3> QED
      BY <1>3, <2>1, SubSeqProperties
  <2> HIDE DEF some
  <2>3. Spaced(some) = FlattenSeq([j \in 1..fit |-> Append(all[j], " ")])
    <3> [j \in 1..Len(some) |-> Append(some[j], " ")] = [j \in 1..fit |-> Append(all[j], " ")]
      BY <2>2
    <3> QED
      BY DEF Spaced
  <2>4. Len(Spaced(some)) <= limit
    BY <2>1, <2>3 DEF Fitting
  <2>5. some # <<>>
    BY <2>1, <2>2
  <2>6. Len(Join(some, <<" ">>)) < Len(Spaced(some))
    BY <2>2, <2>5, JoinFits
  <2>7. Join(some, <<" ">>) \in Texts /\ Spaced(some) \in Texts
    BY <2>2, <2>5, JoinFits, SpacedAppend, ConcatTexts
  <2> DEFINE joined == Join(some, <<" ">>)
             spaced == Spaced(some)
  <2>8. TruncateForSpeech(t, limit) \in {t, joined} /\ (Len(t) <= limit \/ TruncateForSpeech(t, limit) = joined)
    BY <1>1, <1>5
  <2>9. /\ joined \in Texts /\ spaced \in Texts /\ Len(joined) < Len(spaced) /\ Len(spaced) <= limit
    BY <2>4, <2>6, <2>7
  <2> HIDE DEF joined, spaced
  <2>10. Len(joined) <= limit
    <3> Len(joined) \in Nat /\ Len(spaced) \in Nat
      BY <2>9, Lengths
    <3> QED
      BY <2>9
  <2>11. CASE Len(t) <= limit
    BY <1>1, <2>11
  <2>12. CASE ~(Len(t) <= limit)
    BY <2>8, <2>9, <2>10, <2>12
  <2> QED
    BY <2>11, <2>12
<1>6. CASE ~(fit > 0)
  <2>1. Len(t) > limit => HardCut(t, limit) \in Texts /\ Len(HardCut(t, limit)) <= limit
    BY <1>3, HardCutText
  <2> QED
    BY <1>1, <1>3, <1>6, <2>1
<1> QED
  BY <1>5, <1>6

\* The substitutions of sanitize_for_speech make a text of a text.
LEMMA ShapedText ==
  ASSUME NEW t \in Texts
  PROVE  Shaped(t) \in Texts
<1> DEFINE nl == <<Newline>>
           sp == <<" ">>
           nls == <<Newline, Newline>>
<1>1. nl \in Texts /\ sp \in Texts /\ nls \in Texts
  BY SpaceTexts
<1> HIDE DEF nl, sp, nls
<1>2. ASSUME NEW ts \in Seq(Texts), NEW sep \in Texts PROVE Join(ts, sep) \in Texts
  BY JoinAppend, ConcatTexts
<1>3. ReplaceCodeBlocks(t) \in Texts
  <2> DEFINE Becomes(i) ==
               CASE FencesBefore(t, i) % 2 = 1 -> <<>>
                 [] t[i] = Fence /\ FencesBefore(t, i) % 2 = 0 -> <<Summary, ".">>
                 [] OTHER -> <<t[i]>>
             ts == [i \in DOMAIN t |-> Becomes(i)]
  <2>1. Len(t) \in Nat /\ DOMAIN t = 1..Len(t) /\ \A i \in 1..Len(t) : t[i] \in Tokens
    BY LenProperties DEF Texts
  <2>2. ASSUME NEW i \in 1..Len(t) PROVE Becomes(i) \in Seq(Tokens)
    <3>1. <<>> \in Seq(Tokens) /\ <<Summary, ".">> \in Seq(Tokens) /\ <<t[i]>> \in Seq(Tokens)
      BY <2>1 DEF Tokens, Lettered
    <3>2. CASE FencesBefore(t, i) % 2 = 1
      BY <3>1, <3>2
    <3>3. CASE t[i] = Fence /\ FencesBefore(t, i) % 2 = 0
      BY <3>1, <3>3
    <3>4. CASE ~(FencesBefore(t, i) % 2 = 1) /\ ~(t[i] = Fence /\ FencesBefore(t, i) % 2 = 0)
      BY <3>1, <3>4
    <3> QED
      BY <3>2, <3>3, <3>4
  <2>3. ReplaceCodeBlocks(t) = FlattenSeq(ts)
    BY DEF ReplaceCodeBlocks
  <2> HIDE DEF Becomes
  <2>4. ts \in Seq(Seq(Tokens))
    BY <2>1, <2>2
  <2> HIDE DEF ts
  <2> QED
    BY <2>3, <2>4, FlattenAppend, EmptySeq DEF Texts
<1>4. ASSUME NEW u \in Texts PROVE WithoutNoise(u) \in Texts
  <2> DEFINE quiet == {line \in Texts : ~IsNoiseLine(line)}
  <2>1. WithoutNoise(u) = Join(Kept(LinesOf(u), quiet), nl)
    BY DEF WithoutNoise, nl
  <2> HIDE DEF quiet
  <2>2. Kept(LinesOf(u), quiet) \in Seq(Texts)
    BY LinesWords, KeptType
  <2> QED
    BY <2>1, <2>2, <1>1, <1>2
<1>5. ASSUME NEW u \in Texts PROVE Paragraphs(u) \in Texts
  <2> DEFINE cuts == {i \in DOMAIN u : EndsParagraph(u, i)}
             parts == Parts(u, cuts)
             Stripped(p) == [k \in DOMAIN LinesOf(p) |-> Strip(LinesOf(p)[k])]
             Joined(p) == Join(NonEmpty(Stripped(p)), sp)
             ts == [k \in DOMAIN parts |-> Joined(parts[k])]
  <2>1. Paragraphs(u) = Join(NonEmpty(ts), nls)
    BY DEF Paragraphs, sp, nls
  <2>2. parts \in Seq(Texts)
    <3> cuts \subseteq DOMAIN u
      OBVIOUS
    <3> HIDE DEF cuts
    <3> QED
      BY PartsWords
  <2>3. ASSUME NEW p \in Texts PROVE Joined(p) \in Texts
    <3> DEFINE lines == LinesOf(p)
    <3>1. lines \in Seq(Texts)
      BY LinesWords
    <3> HIDE DEF lines
    <3> DEFINE us == [k \in DOMAIN lines |-> Strip(lines[k])]
    <3>2. us \in Seq(Texts)
      BY <3>1, StripAll
    <3>3. us = Stripped(p)
      BY DEF lines
    <3> HIDE DEF us
    <3> QED
      BY <3>2, <3>3, <1>1, <1>2, NonEmptyTexts
  <2> HIDE DEF parts, Joined
  <2>4. ts \in Seq(Texts)
    <3> Len(parts) \in Nat /\ DOMAIN parts = 1..Len(parts) /\ \A k \in 1..Len(parts) : parts[k] \in Texts
      BY <2>2, LenProperties
    <3> QED
      BY <2>3
  <2> HIDE DEF ts
  <2> QED
    BY <2>1, <2>4, <1>1, <1>2, NonEmptyTexts
<1> QED
  BY <1>3, <1>4, <1>5 DEF Shaped

\* sanitize_for_speech returns a text of at most max_chars: what is handed to
\* the synthesizer is bounded whatever Claude writes.
THEOREM SanitizedText ==
  ASSUME NEW t \in Texts, NEW limit \in Nat
  PROVE  SanitizeForSpeech(t, limit) \in Texts /\ Len(SanitizeForSpeech(t, limit)) <= limit
<1> DEFINE u == TruncateForSpeech(Shaped(t), limit)
<1>1. u \in Texts /\ Len(u) <= limit
  BY ShapedText, TruncatedText
<1>2. SanitizeForSpeech(t, limit) = Strip(u)
  BY DEF SanitizeForSpeech
<1> HIDE DEF u
<1>3. Strip(u) \in Texts /\ Len(Strip(u)) <= Len(u)
  BY <1>1, StripText
<1>4. Len(u) \in Nat /\ Len(Strip(u)) \in Nat
  BY <1>1, <1>3, LenProperties DEF Texts
<1> QED
  BY <1>1, <1>2, <1>3, <1>4

-----------------------------------------------------------------------------
(* What _chunks returns.                                                   *)

\* The ends of the k-th piece of a line.
LEMMA ChunkArithmetic ==
  ASSUME NEW n \in Nat, NEW k \in 1..n
  PROVE  /\ (k - 1) * ChunkLimit \in Nat /\ k * ChunkLimit \in Nat
         /\ k * ChunkLimit = (k - 1) * ChunkLimit + ChunkLimit
         /\ k * ChunkLimit <= n * ChunkLimit
<1>1. ChunkLimit \in Nat /\ ChunkLimit > 0
  BY MirrorAssumption
<1>2. ASSUME NEW a \in Nat, NEW b \in Nat PROVE a * b \in Nat
  BY <1>2
<1>3. k - 1 \in Nat /\ k \in Nat /\ n - k \in Nat
  OBVIOUS
<1>4. (k - 1) * ChunkLimit \in Nat /\ k * ChunkLimit \in Nat /\ (n - k) * ChunkLimit \in Nat
  BY <1>1, <1>2, <1>3
<1>5. k * ChunkLimit = (k - 1) * ChunkLimit + ChunkLimit
  BY <1>1, <1>3
<1>6. n * ChunkLimit = k * ChunkLimit + (n - k) * ChunkLimit
  BY <1>1, <1>3
<1>7. n * ChunkLimit \in Nat
  BY <1>1, <1>2
<1> QED
  BY <1>4, <1>5, <1>6, <1>7

\* The number of pieces the loop of _chunks takes off a line: they are of the
\* line, and what is left of it is no longer than the limit.
LEMMA DivisionOfLength ==
  ASSUME NEW len \in Nat \ {0}
  PROVE  LET n == (len - 1) \div ChunkLimit
         IN /\ n \in Nat /\ n * ChunkLimit \in Nat
            /\ n * ChunkLimit <= len /\ len - n * ChunkLimit <= ChunkLimit
<1> DEFINE n == (len - 1) \div ChunkLimit
           r == (len - 1) % ChunkLimit
<1>1. ChunkLimit \in Nat /\ ChunkLimit > 0 /\ len - 1 \in Nat
  BY MirrorAssumption
<1>2. n \in Nat /\ r \in 0..(ChunkLimit - 1) /\ len - 1 = n * ChunkLimit + r
  BY <1>1
<1> HIDE DEF n, r
<1>3. n * ChunkLimit \in Nat
  BY <1>1, <1>2
<1> QED
  BY <1>1, <1>2, <1>3 DEF n

\* The first n full pieces of a line.
Pieces(line, n) ==
  [k \in 1..n |-> SubSeq(line, (k - 1) * ChunkLimit + 1, k * ChunkLimit)]

\* The pieces the loop of _chunks takes off a long line are within the limit and
\* hold, in order, the words of what it took.
LEMMA PiecesOfLine ==
  ASSUME NEW line \in Texts, NEW n \in Nat, n * ChunkLimit <= Len(line)
  PROVE  /\ Pieces(line, n) \in Seq(Texts)
         /\ \A k \in DOMAIN Pieces(line, n) : Len(Pieces(line, n)[k]) <= ChunkLimit
         /\ WordsOf(Pieces(line, n)) = LettersOf(SubSeq(line, 1, n * ChunkLimit))
<1>1. ChunkLimit \in Nat /\ ChunkLimit > 0 /\ Len(line) \in Nat
  BY MirrorAssumption, Lengths
<1> DEFINE P(k) == SubSeq(line, (k - 1) * ChunkLimit + 1, k * ChunkLimit)
           F(m) == [k \in 1..m |-> P(k)]
<1>2. ASSUME NEW k \in 1..n
      PROVE  P(k) \in Texts /\ Len(P(k)) = ChunkLimit
  <2> DEFINE a == (k - 1) * ChunkLimit
             b == k * ChunkLimit
             z == n * ChunkLimit
  <2>1. a \in Nat /\ b = a + ChunkLimit /\ b <= z /\ z <= Len(line) /\ z \in Nat
    <3> k - 1 \in Nat /\ ChunkLimit \in Nat /\ z \in Nat
      BY <1>1
    <3> QED
      BY ChunkArithmetic
  <2> HIDE DEF a, b, z
  <2>2. a + 1 \in Nat \ {0} /\ b \in Nat /\ b <= Len(line) /\ a + 1 <= b /\ b - (a + 1) + 1 = ChunkLimit
    BY <1>1, <2>1
  <2>3. SubSeq(line, a + 1, b) \in Texts /\ Len(SubSeq(line, a + 1, b)) = ChunkLimit
    BY <2>2, SubSeqText
  <2> QED
    BY <2>3 DEF a, b
<1> DEFINE T == {m \in Nat : m <= n => FlattenSeq(F(m)) = SubSeq(line, 1, m * ChunkLimit)}
<1> HIDE DEF P
<1>3. \A m \in Nat : m <= n => F(m) \in Seq(Texts) /\ Len(F(m)) = m
  BY <1>2
<1>4. 0 \in T
  <2>1. F(0) = <<>>
    OBVIOUS
  <2>2. SubSeq(line, 1, 0 * ChunkLimit) = <<>>
    <3> 0 * ChunkLimit = 0
      BY <1>1
    <3> QED
      BY SubSeqEmpty
  <2> QED
    BY <2>1, <2>2, FlattenEmpty
<1>5. ASSUME NEW m \in T PROVE m + 1 \in T
  <2> SUFFICES ASSUME m + 1 <= n
               PROVE  FlattenSeq(F(m + 1)) = SubSeq(line, 1, (m + 1) * ChunkLimit)
    OBVIOUS
  <2>1. m \in Nat /\ m <= n /\ m + 1 \in 1..n
    OBVIOUS
  <2>2. FlattenSeq(F(m)) = SubSeq(line, 1, m * ChunkLimit)
    BY <2>1
  <2> HIDE DEF T
  <2> DEFINE p == P(m + 1)
             f == F(m)
             h == F(m + 1)
  <2>3. f \in Seq(Texts) /\ Len(f) = m /\ h \in Seq(Texts) /\ Len(h) = m + 1
    BY <1>3, <2>1
  <2>4. p \in Texts
    BY <1>2, <2>1
  <2>5. h[m + 1] = p /\ \A k \in 1..m : h[k] = f[k]
    BY <2>1
  <2> HIDE DEF p, f, h, F
  <2>6. h = Append(f, p)
    <3>1. /\ Append(f, p) \in Seq(Texts) /\ Len(Append(f, p)) = m + 1
          /\ Append(f, p)[m + 1] = p /\ \A k \in 1..m : Append(f, p)[k] = f[k]
      BY <2>3, <2>4, AppendProperties
    <3>2. ASSUME NEW k \in 1..(m + 1) PROVE h[k] = Append(f, p)[k]
      BY <2>1, <2>5, <3>1
    <3> QED
      BY <2>3, <3>1, <3>2, SeqEqual
  <2>7. FlattenSeq(h) = FlattenSeq(f) \o p
    BY <2>3, <2>4, <2>6, FlattenAppend DEF Texts
  <2> DEFINE a == m * ChunkLimit
             b == (m + 1) * ChunkLimit
  <2>8. a \in Nat /\ b = a + ChunkLimit /\ b <= Len(line)
    <3> DEFINE z == n * ChunkLimit
    <3>1. (m + 1) - 1 = m
      BY <2>1
    <3>2. a \in Nat /\ b \in Nat /\ b = a + ChunkLimit /\ b <= z
      BY <2>1, <3>1, ChunkArithmetic
    <3>3. z \in Nat /\ z <= Len(line)
      BY <1>1
    <3> HIDE DEF a, b, z
    <3> QED
      BY <1>1, <3>2, <3>3
  <2>9. p = SubSeq(line, a + 1, b)
    <3> (m + 1) - 1 = m
      BY <2>1
    <3> QED
      BY DEF p, P
  <2> HIDE DEF a, b
  <2>10. SubSeq(line, 1, a) \o SubSeq(line, a + 1, b) = SubSeq(line, 1, b)
    <3> 1 \in 1..(Len(line) + 1) /\ a \in (1 - 1)..Len(line) /\ b \in a..Len(line)
      BY <1>1, <2>8
    <3> QED
      BY ConcatAdjacentSubSeq DEF Texts
  <2> QED
    BY <2>2, <2>7, <2>9, <2>10 DEF a, b, f, h
<1>6. T = Nat
  <2> T \subseteq Nat
    OBVIOUS
  <2> HIDE DEF T
  <2> QED
    BY <1>4, <1>5, SetInduction
<1>7. FlattenSeq(F(n)) = SubSeq(line, 1, n * ChunkLimit)
  <2>1. n \in T /\ n <= n
    <3> HIDE DEF T
    <3> QED
      BY <1>6
  <2> HIDE DEF F
  <2> QED
    BY <2>1
<1>8. F(n) = Pieces(line, n)
  BY DEF Pieces, P
<1>9. \A k \in DOMAIN F(n) : Len(F(n)[k]) <= ChunkLimit
  BY <1>1, <1>2
<1>10. F(n) \in Seq(Texts)
  BY <1>3
<1> HIDE DEF F, T
<1> QED
  BY <1>7, <1>8, <1>9, <1>10 DEF WordsOf

\* A newline is a text of one token with no letter.
LEMMA NewlineText ==
  <<Newline>> \in Texts /\ LettersOf(<<Newline>>) = <<>> /\ Len(<<Newline>>) = 1
<1> DEFINE nl == <<Newline>>
<1>1. nl \in Texts /\ Len(nl) = 1 /\ nl[1] = Newline
  <2> Len(nl) = 1 /\ nl[1] = Newline
    OBVIOUS
  <2> QED
    BY SpaceTexts
<1>2. Newline \notin Lettered
  BY TextAssumption DEF Blank
<1> HIDE DEF nl
<1>3. LettersOf(nl) = <<>>
  <2> DOMAIN nl = 1..1
    BY <1>1, Lengths
  <2> \A i \in DOMAIN nl : nl[i] \notin Lettered
    BY <1>1, <1>2
  <2> QED
    BY <1>1, Letterless
<1> QED
  BY <1>1, <1>3 DEF nl

\* The list of one text, or of none when it is empty.
LEMMA NonEmptyOne ==
  ASSUME NEW c \in Texts
  PROVE  NonEmpty(<<c>>) = IF c = <<>> THEN <<>> ELSE <<c>>
<1> DEFINE e == <<>>
           V == Texts \ {<<>>}
<1>1. e \in Seq(Texts) /\ Append(e, c) = <<c>>
  OBVIOUS
<1>2. Kept(Append(e, c), V) = IF c \in V THEN Append(Kept(e, V), c) ELSE Kept(e, V)
  <2> e \in Seq(Texts)
    BY <1>1
  <2> HIDE DEF e, V
  <2> QED
    BY KeptAppend
<1>3. Kept(e, V) = e
  BY KeptEmpty
<1> QED
  BY <1>1, <1>2, <1>3 DEF NonEmpty

\* What _chunks puts a line behind: the text begun so far and a newline, or
\* nothing.
LEMMA JoinPair ==
  ASSUME NEW c \in Texts, NEW r \in Texts, NEW sep \in Texts
  PROVE  Join(NonEmpty(<<c>>) \o <<r>>, sep) = IF c = <<>> THEN r ELSE c \o (sep \o r)
<1> DEFINE e == <<>>
           ne == NonEmpty(<<c>>)
<1>1. e \in Seq(Texts) /\ Append(e, c) = <<c>> /\ <<c>> \in Seq(Texts)
  OBVIOUS
<1>2. ne = IF c = <<>> THEN e ELSE <<c>>
  BY NonEmptyOne
<1> HIDE DEF ne
<1>3. ne \in Seq(Texts)
  BY <1>1, <1>2
<1>4. ne \o <<r>> = Append(ne, r)
  BY <1>3, AppendIsConcat
<1>5. Join(Append(ne, r), sep) = IF ne = <<>> THEN r ELSE Join(ne, sep) \o (sep \o r)
  BY <1>3, JoinAppend
<1>6. Join(<<c>>, sep) = c
  <2>1. Join(Append(e, c), sep) = IF e = <<>> THEN c ELSE Join(e, sep) \o (sep \o c)
    <3> HIDE DEF e
    <3> QED
      BY <1>1, JoinAppend
  <2> QED
    BY <1>1, <2>1
<1>7. CASE c = <<>>
  BY <1>2, <1>4, <1>5, <1>7 DEF ne
<1>8. CASE c # <<>>
  <2> ne = <<c>> /\ ne # <<>>
    BY <1>2, <1>8
  <2> QED
    BY <1>4, <1>5, <1>6, <1>8 DEF ne
<1> QED
  BY <1>7, <1>8

ChunkStates == [out : Seq(Texts), current : Texts]

\* Nothing in s is longer than a chunk.
Short(s) ==
  /\ \A k \in DOMAIN s.out : Len(s.out[k]) <= ChunkLimit
  /\ Len(s.current) <= ChunkLimit

\* All the letters of s, in order.
Written(s) == WordsOf(s.out) \o LettersOf(s.current)

\* Two lists of texts within the limit make a list of texts within the limit.
LEMMA ShortConcat ==
  ASSUME NEW ss \in Seq(Texts), NEW ts \in Seq(Texts),
         \A k \in DOMAIN ss : Len(ss[k]) <= ChunkLimit,
         \A k \in DOMAIN ts : Len(ts[k]) <= ChunkLimit
  PROVE  /\ ss \o ts \in Seq(Texts)
         /\ \A k \in DOMAIN (ss \o ts) : Len((ss \o ts)[k]) <= ChunkLimit
<1> DEFINE us == ss \o ts
<1>1. /\ us \in Seq(Texts) /\ Len(us) = Len(ss) + Len(ts)
      /\ \A i \in 1..(Len(ss) + Len(ts)) :
           us[i] = IF i <= Len(ss) THEN ss[i] ELSE ts[i - Len(ss)]
  BY ConcatProperties
<1>2. /\ Len(ss) \in Nat /\ DOMAIN ss = 1..Len(ss)
      /\ Len(ts) \in Nat /\ DOMAIN ts = 1..Len(ts)
      /\ DOMAIN us = 1..(Len(ss) + Len(ts))
  BY <1>1, LenProperties
<1> HIDE DEF us
<1>3. ASSUME NEW k \in DOMAIN us PROVE Len(us[k]) <= ChunkLimit
  <2>1. CASE k <= Len(ss)
    <3> k \in DOMAIN ss /\ us[k] = ss[k]
      BY <1>1, <1>2, <2>1
    <3> QED
      OBVIOUS
  <2>2. CASE ~(k <= Len(ss))
    <3> k - Len(ss) \in DOMAIN ts /\ us[k] = ts[k - Len(ss)]
      BY <1>1, <1>2, <2>2
    <3> QED
      OBVIOUS
  <2> QED
    BY <2>1, <2>2
<1> QED
  BY <1>1, <1>3 DEF us

\* The text begun so far, when it is put out.
LEMMA NonEmptyShort ==
  ASSUME NEW c \in Texts, Len(c) <= ChunkLimit
  PROVE  /\ NonEmpty(<<c>>) \in Seq(Texts) /\ WordsOf(NonEmpty(<<c>>)) = LettersOf(c)
         /\ \A k \in DOMAIN NonEmpty(<<c>>) : Len(NonEmpty(<<c>>)[k]) <= ChunkLimit
<1> DEFINE one == <<c>>
<1>1. one \in Seq(Texts) /\ WordsOf(one) = LettersOf(c)
  BY WordsOne
<1>2. NonEmpty(one) = IF c = <<>> THEN <<>> ELSE one
  BY NonEmptyOne
<1>3. NonEmpty(one) \in Seq(Texts) /\ WordsOf(NonEmpty(one)) = WordsOf(one)
  <2> HIDE DEF one
  <2> QED
    BY <1>1, NonEmptyTexts
<1>4. \A k \in DOMAIN NonEmpty(one) : Len(NonEmpty(one)[k]) <= ChunkLimit
  <2>1. CASE c = <<>>
    BY <1>2, <2>1
  <2>2. CASE c # <<>>
    BY <1>2, <2>2
  <2> QED
    BY <2>1, <2>2
<1> QED
  BY <1>1, <1>3, <1>4

\* One turn of the loop of _chunks: no text goes over the limit, and the words
\* of the line are added behind the others, in all of its branches.
LEMMA AddLineText ==
  ASSUME NEW s \in ChunkStates, Short(s), NEW line \in Texts
  PROVE  /\ AddLine(s, line) \in ChunkStates
         /\ Short(AddLine(s, line))
         /\ Written(AddLine(s, line)) = Written(s) \o LettersOf(line)
<1> DEFINE n       == IF line = <<>> THEN 0 ELSE (Len(line) - 1) \div ChunkLimit
           m       == n * ChunkLimit
           cut     == Pieces(line, n)
           begin   == SubSeq(line, 1, m)
           rest    == SubSeq(line, m + 1, Len(line))
           old     == NonEmpty(<<s.current>>)
           current == IF n > 0 THEN <<>> ELSE s.current
           out     == IF n > 0 THEN s.out \o old \o cut ELSE s.out
           joined  == Join(NonEmpty(<<current>>) \o <<rest>>, <<Newline>>)
           e       == <<>>
<1>1. AddLine(s, line) = IF Len(current) + Len(rest) + 1 > ChunkLimit
                         THEN [out |-> Append(out, current), current |-> rest]
                         ELSE [out |-> out, current |-> joined]
  BY DEF AddLine, Pieces
<1>2. ChunkLimit \in Nat /\ ChunkLimit > 0 /\ Len(line) \in Nat
  BY MirrorAssumption, Lengths
<1>3. n \in Nat /\ m \in Nat /\ m <= Len(line) /\ Len(line) - m <= ChunkLimit
  <2>1. CASE line = <<>>
    <3> n = 0 /\ m = 0 /\ Len(line) = 0
      BY <1>2, <2>1
    <3> QED
      BY <1>2
  <2>2. CASE line # <<>>
    <3> Len(line) \in Nat \ {0}
      BY <2>2, EmptySeq DEF Texts
    <3> QED
      BY <2>2, DivisionOfLength
  <2> QED
    BY <2>1, <2>2
<1>4. s.out \in Seq(Texts) /\ s.current \in Texts /\ Len(s.current) <= ChunkLimit
      /\ \A k \in DOMAIN s.out : Len(s.out[k]) <= ChunkLimit
  BY DEF ChunkStates, Short
<1>5. Written(s) \in Texts /\ WordsOf(s.out) \in Texts /\ LettersOf(s.current) \in Texts
  <2> WordsOf(s.out) \in Texts /\ LettersOf(s.current) \in Texts
    BY <1>4, LettersConcat, WordsAppend
  <2> QED
    BY LettersConcat DEF Written
<1>6. /\ begin \in Texts /\ rest \in Texts
      /\ LettersOf(begin) \in Texts /\ LettersOf(rest) \in Texts
      /\ LettersOf(line) = LettersOf(begin) \o LettersOf(rest)
      /\ Len(rest) <= ChunkLimit
  <2> DEFINE l == Len(line)
  <2> HIDE DEF n
  <2>1. m \in 0..Len(line) /\ l = Len(line)
    BY <1>2, <1>3
  <2>2. Len(rest) = IF m + 1 <= l THEN l - (m + 1) + 1 ELSE 0
    <3> HIDE DEF m
    <3> m + 1 \in Nat \ {0} /\ l \in Nat /\ l <= Len(line)
      BY <1>2, <2>1
    <3> HIDE DEF l
    <3> Len(SubSeq(line, m + 1, l)) = IF m + 1 <= l THEN l - (m + 1) + 1 ELSE 0
      BY SubSeqText
    <3> QED
      BY DEF l
  <2>3. Len(line) - m <= ChunkLimit /\ m \in Nat
    BY <1>3
  <2> HIDE DEF m
  <2>4. /\ begin \in Texts /\ rest \in Texts
        /\ LettersOf(line) = LettersOf(begin) \o LettersOf(rest)
    BY <2>1, CutText
  <2> HIDE DEF begin, rest
  <2>5. LettersOf(begin) \in Texts /\ LettersOf(rest) \in Texts
    BY <2>4, LettersConcat
  <2>6. Len(rest) <= ChunkLimit
    BY <1>2, <2>1, <2>2, <2>3
  <2> QED
    BY <2>4, <2>5, <2>6
<1>7. /\ cut \in Seq(Texts) /\ WordsOf(cut) = LettersOf(begin)
      /\ \A k \in DOMAIN cut : Len(cut[k]) <= ChunkLimit
  <2>1. n \in Nat /\ n * ChunkLimit <= Len(line)
    BY <1>3
  <2> HIDE DEF n
  <2> QED
    BY <2>1, PiecesOfLine
<1>8. /\ old \in Seq(Texts) /\ WordsOf(old) = LettersOf(s.current)
      /\ \A k \in DOMAIN old : Len(old[k]) <= ChunkLimit
  BY <1>4, NonEmptyShort
<1> HIDE DEF cut, old, begin, rest
<1>9. /\ out \in Seq(Texts) /\ current \in Texts
      /\ WordsOf(out) \in Texts /\ LettersOf(current) \in Texts
      /\ WordsOf(out) \o LettersOf(current) = Written(s) \o LettersOf(begin)
      /\ \A k \in DOMAIN out : Len(out[k]) <= ChunkLimit
      /\ Len(current) <= ChunkLimit
  <2>1. CASE n > 0
    <3> DEFINE a == s.out \o old
    <3>1. /\ a \in Seq(Texts) /\ WordsOf(a) = Written(s)
          /\ \A k \in DOMAIN a : Len(a[k]) <= ChunkLimit
      <4>1. a \in Seq(Texts) /\ WordsOf(a) = WordsOf(s.out) \o WordsOf(old)
        BY <1>4, <1>8, WordsConcat
      <4>2. \A k \in DOMAIN a : Len(a[k]) <= ChunkLimit
        BY <1>4, <1>8, ShortConcat
      <4> QED
        BY <4>1, <4>2, <1>8 DEF Written
    <3> HIDE DEF a
    <3> DEFINE b == a \o cut
    <3>2. /\ b \in Seq(Texts) /\ WordsOf(b) = WordsOf(a) \o WordsOf(cut)
          /\ \A k \in DOMAIN b : Len(b[k]) <= ChunkLimit
      <4>1. b \in Seq(Texts) /\ WordsOf(b) = WordsOf(a) \o WordsOf(cut)
        BY <3>1, <1>7, WordsConcat
      <4>2. \A k \in DOMAIN b : Len(b[k]) <= ChunkLimit
        BY <3>1, <1>7, ShortConcat
      <4> QED
        BY <4>1, <4>2
    <3> HIDE DEF b
    <3>3. out = b /\ current = e
      BY <2>1 DEF a, b
    <3> HIDE DEF out, current
    <3>4. e \in Texts /\ LettersOf(e) = e /\ Len(e) = 0
      BY ConcatTexts, LettersConcat
    <3>5. WordsOf(b) \o e = WordsOf(b) /\ WordsOf(b) \in Texts
      <4> WordsOf(b) \in Texts
        BY <3>2, <3>4, WordsAppend
      <4> QED
        BY ConcatTexts
    <3> HIDE DEF e
    <3>6. WordsOf(b) = Written(s) \o LettersOf(begin)
      BY <1>7, <3>1, <3>2
    <3>7. WordsOf(b) \o LettersOf(e) = WordsOf(b)
      BY <3>4, <3>5
    <3>8. LettersOf(e) \in Texts /\ Len(e) <= ChunkLimit
      BY <1>2, <3>4
    <3>9. WordsOf(b) \o LettersOf(e) = Written(s) \o LettersOf(begin)
      BY <3>6, <3>7
    <3>10. b \in Seq(Texts) /\ \A k \in DOMAIN b : Len(b[k]) <= ChunkLimit
      BY <3>2
    <3> QED
      BY <3>3, <3>4, <3>5, <3>8, <3>9, <3>10
  <2>2. CASE ~(n > 0)
    <3>1. n = 0 /\ m = 0
      BY <1>2, <1>3, <2>2
    <3>2. begin = e
      <4> HIDE DEF n, m
      <4> SubSeq(line, 1, m) = <<>>
        BY <3>1, SubSeqEmpty
      <4> QED
        BY DEF begin
    <3>3. LettersOf(begin) = e /\ Written(s) \o e = Written(s)
      BY <1>5, <3>2, ConcatTexts, LettersConcat
    <3>4. out = s.out /\ current = s.current
      BY <2>2
    <3> HIDE DEF n, m, out, current
    <3> QED
      BY <1>4, <1>5, <3>3, <3>4 DEF Written
  <2> QED
    BY <2>1, <2>2
<1> HIDE DEF n, out, current
<1> DEFINE w == WordsOf(out)
           c == LettersOf(current)
           b == LettersOf(begin)
           r == LettersOf(rest)
           p == Written(s)
<1>10. (w \o c) \o r = p \o LettersOf(line)
  <2>1. w \o c = p \o b /\ LettersOf(line) = b \o r
    BY <1>6, <1>9
  <2>2. w \in Texts /\ c \in Texts /\ b \in Texts /\ r \in Texts /\ p \in Texts
    BY <1>5, <1>6, <1>9
  <2> HIDE DEF w, c, b, r, p
  <2>3. (p \o b) \o r = p \o (b \o r)
    BY <2>2, ConcatTexts
  <2> QED
    BY <2>1, <2>3
<1>11. CASE Len(current) + Len(rest) + 1 > ChunkLimit
  <2> DEFINE t == [out |-> Append(out, current), current |-> rest]
             o == Append(out, current)
  <2>1. AddLine(s, line) = t /\ t.out = o /\ t.current = rest
    BY <1>1, <1>11
  <2>2. o \in Seq(Texts) /\ WordsOf(o) = w \o c
    BY <1>9, WordsAppend, AppendProperties
  <2>3. \A k \in DOMAIN o : Len(o[k]) <= ChunkLimit
    <3>1. <<current>> \in Seq(Texts) /\ \A k \in DOMAIN <<current>> : Len(<<current>>[k]) <= ChunkLimit
      BY <1>9
    <3>2. o = out \o <<current>>
      BY <1>9, AppendIsConcat
    <3> QED
      BY <3>1, <3>2, <1>9, ShortConcat
  <2>4. t \in ChunkStates
    <3> HIDE DEF o
    <3> QED
      BY <1>6, <2>2 DEF ChunkStates, o
  <2> HIDE DEF t, o
  <2> QED
    BY <1>6, <1>10, <2>1, <2>2, <2>3, <2>4 DEF Short, Written
<1>12. CASE ~(Len(current) + Len(rest) + 1 > ChunkLimit)
  <2> DEFINE nl == <<Newline>>
             t == [out |-> out, current |-> joined]
  <2>1. nl \in Texts /\ LettersOf(nl) = e /\ Len(nl) = 1
    BY NewlineText
  <2>2. joined = IF current = e THEN rest ELSE current \o (nl \o rest)
    <3> current \in Texts /\ rest \in Texts /\ nl \in Texts
      BY <1>6, <1>9, <2>1
    <3> HIDE DEF nl
    <3> Join(NonEmpty(<<current>>) \o <<rest>>, nl) = IF current = <<>> THEN rest ELSE current \o (nl \o rest)
      BY JoinPair
    <3> QED
      BY DEF nl
  <2>3. joined \in Texts /\ Len(joined) <= ChunkLimit /\ LettersOf(joined) = c \o r
    <3> HIDE DEF joined, nl
    <3>1. CASE current = e
      <4>1. joined = rest /\ c = e
        BY <2>2, <3>1, LettersConcat
      <4>2. e \o r = r
        BY <1>6, ConcatTexts
      <4> QED
        BY <1>6, <4>1, <4>2
    <3>2. CASE current # e
      <4> DEFINE x == nl \o rest
      <4>1. x \in Texts /\ Len(x) = 1 + Len(rest) /\ LettersOf(x) = e \o r
        <5> nl \in Texts /\ rest \in Texts
          BY <1>6, <2>1
        <5>1. x \in Texts /\ Len(x) = Len(nl) + Len(rest)
          BY Lengths
        <5>2. LettersOf(x) = LettersOf(nl) \o LettersOf(rest)
          BY LettersConcat
        <5> QED
          BY <2>1, <5>1, <5>2
      <4>2. e \o r = r
        BY <1>6, ConcatTexts
      <4>3. joined = current \o x
        BY <2>2, <3>2
      <4> HIDE DEF x
      <4>4. joined \in Texts /\ Len(joined) = Len(current) + Len(x) /\ LettersOf(joined) = c \o r
        <5> current \in Texts /\ x \in Texts
          BY <1>9, <4>1
        <5>1. joined \in Texts /\ Len(joined) = Len(current) + Len(x)
          BY <4>3, Lengths
        <5>2. LettersOf(joined) = LettersOf(current) \o LettersOf(x)
          BY <4>3, LettersConcat
        <5> QED
          BY <4>1, <4>2, <5>1, <5>2
      <4>5. Len(current) \in Nat /\ Len(rest) \in Nat
        BY <1>6, <1>9, Lengths
      <4>6. Len(joined) <= ChunkLimit
        BY <1>2, <1>12, <4>1, <4>4, <4>5
      <4> QED
        BY <4>4, <4>6
    <3> QED
      BY <3>1, <3>2
  <2> HIDE DEF joined
  <2>4. AddLine(s, line) = t /\ t.out = out /\ t.current = joined
    BY <1>1, <1>12
  <2>5. t \in ChunkStates
    BY <1>9, <2>3 DEF ChunkStates
  <2> HIDE DEF t
  <2>6. w \o (c \o r) = (w \o c) \o r
    <3> w \in Texts /\ c \in Texts /\ r \in Texts
      BY <1>6, <1>9
    <3> HIDE DEF w, c, r
    <3> QED
      BY ConcatTexts
  <2> QED
    BY <1>9, <1>10, <2>3, <2>4, <2>5, <2>6 DEF Short, Written
<1> QED
  BY <1>11, <1>12

\* The whole loop of _chunks, line by line.
LEMMA ChunkedText ==
  ASSUME NEW content \in Texts
  PROVE  LET s == Chunked(content)
         IN s \in ChunkStates /\ Short(s) /\ Written(s) = LettersOf(content)
<1> DEFINE lines == LinesOf(content)
           n == Len(lines)
           S == {s \in ChunkStates : Short(s)}
           s0 == [out |-> <<>>, current |-> <<>>]
           Is(f) == f = [k \in 0..n |-> IF k = 0 THEN s0 ELSE AddLine(f[k - 1], lines[k])]
           g == [k \in 1..n |-> [s \in S |-> AddLine(s, lines[k])]]
<1>1. lines \in Seq(Texts) /\ WordsOf(lines) = LettersOf(content)
  BY LinesWords
<1> HIDE DEF lines
<1>2. n \in Nat /\ \A k \in 1..n : lines[k] \in Texts
  BY <1>1, LenProperties
<1>3. s0 \in S /\ Written(s0) = <<>>
  <2> DEFINE e == <<>>
  <2>1. e \in Seq(Texts) /\ e \in Texts /\ Len(e) = 0 /\ DOMAIN e = {}
    BY ConcatTexts
  <2>2. s0.out = e /\ s0.current = e
    OBVIOUS
  <2>3. ChunkLimit \in Nat
    BY MirrorAssumption
  <2>4. s0 \in ChunkStates
    BY <2>1 DEF ChunkStates
  <2>5. WordsOf(e) = e /\ LettersOf(e) = e /\ e \o e = e
    BY WordsEmpty, LettersConcat, ConcatTexts
  <2> HIDE DEF s0, e
  <2>6. Short(s0)
    BY <2>1, <2>2, <2>3 DEF Short
  <2>7. Written(s0) = e
    BY <2>2, <2>5 DEF Written
  <2> QED
    BY <2>4, <2>6, <2>7 DEF e
<1> HIDE DEF s0
<1>4. ASSUME NEW s \in S, NEW line \in Texts
      PROVE  AddLine(s, line) \in S /\ Written(AddLine(s, line)) = Written(s) \o LettersOf(line)
  BY AddLineText
<1> HIDE DEF S, n
<1>5. g \in [1..n -> [S -> S]]
  BY <1>2, <1>4
<1>6. PICK f : Iterates(f, S, s0, n, g)
  <2> HIDE DEF g, Is
  <2> QED
    BY <1>2, <1>3, <1>5, FiniteRecursion
<1>7. f \in [0..n -> S] /\ f[0] = s0
  BY <1>6 DEF Iterates
<1>8. ASSUME NEW k \in 1..n PROVE f[k] = AddLine(f[k - 1], lines[k])
  <2>1. k - 1 \in 0..n
    BY <1>2
  <2>2. f[k] = g[k][f[k - 1]] /\ f[k - 1] \in S
    <3> HIDE DEF g
    <3> QED
      BY <2>1, <1>6, <1>7 DEF Iterates
  <2>3. g[k] = [s \in S |-> AddLine(s, lines[k])]
    OBVIOUS
  <2> QED
    BY <2>2, <2>3
<1>9. Is(f)
  <2>1. ASSUME NEW k \in 0..n PROVE f[k] = IF k = 0 THEN s0 ELSE AddLine(f[k - 1], lines[k])
    <3>1. CASE k = 0
      BY <3>1, <1>7
    <3>2. CASE k # 0
      <4> k \in 1..n
        BY <3>2, <1>2
      <4> QED
        BY <3>2, <1>8
    <3> QED
      BY <3>1, <3>2
  <2> QED
    BY <2>1, <1>7
<1> DEFINE c == CHOOSE x : Is(x)
<1>10. Is(c)
  <2> HIDE DEF Is
  <2> QED
    BY <1>9
<1>11. Chunked(content) = c[n]
  BY DEF Chunked, n, lines, s0
<1> HIDE DEF c, g
<1>12. c[0] = s0 /\ \A k \in 1..n : c[k] = AddLine(c[k - 1], lines[k])
  <2>1. \A k \in 0..n : c[k] = IF k = 0 THEN s0 ELSE AddLine(c[k - 1], lines[k])
    BY <1>10
  <2>2. 0 \in 0..n /\ \A k \in 1..n : k \in 0..n /\ k # 0
    BY <1>2
  <2> HIDE DEF Is
  <2> QED
    BY <2>1, <2>2
<1> HIDE DEF Is
<1> DEFINE T == {k \in Nat : k <= n => c[k] \in S /\ Written(c[k]) = WordsOf(SubSeq(lines, 1, k))}
<1>13. 0 \in T
  <2> SubSeq(lines, 1, 0) = <<>>
    BY SubSeqEmpty
  <2> QED
    BY <1>3, <1>12, WordsEmpty
<1>14. ASSUME NEW k \in T PROVE k + 1 \in T
  <2> SUFFICES ASSUME k + 1 <= n
               PROVE  c[k + 1] \in S /\ Written(c[k + 1]) = WordsOf(SubSeq(lines, 1, k + 1))
    OBVIOUS
  <2> DEFINE j == k + 1
             before == SubSeq(lines, 1, k)
  <2>1. j \in 1..n /\ j - 1 = k /\ k \in 0..n /\ c[k] \in S /\ Written(c[k]) = WordsOf(before)
    BY <1>2
  <2> HIDE DEF T
  <2>2. SubSeq(lines, 1, j) = Append(before, lines[j]) /\ before \in Seq(Texts)
    <3>1. before \in Seq(Texts)
      <4> \A i \in 1..k : lines[i] \in Texts
        BY <1>2, <2>1
      <4> k \in Int
        BY <1>2, <2>1
      <4> QED
        BY SubSeqProperties
    <3>2. SubSeq(lines, 1, j) = SubSeq(lines, 1, j - 1) \o <<lines[j]>>
      <4> 1 \in 1..Len(lines) /\ j \in 1..Len(lines)
        BY <1>2, <2>1 DEF n
      <4> HIDE DEF j, before
      <4> QED
        BY <1>1, SubSeqRecursiveSecond
    <3> HIDE DEF j
    <3>3. SubSeq(lines, 1, j - 1) = before
      BY <2>1
    <3> HIDE DEF before
    <3> QED
      BY <3>1, <3>2, <3>3, AppendIsConcat, <1>2, <2>1
  <2> HIDE DEF j, before
  <2>3. lines[j] \in Texts
    BY <1>2, <2>1
  <2>4. c[j] = AddLine(c[k], lines[j])
    BY <1>12, <2>1
  <2>5. c[j] \in S /\ Written(c[j]) = Written(c[k]) \o LettersOf(lines[j])
    BY <1>4, <2>1, <2>3, <2>4
  <2>6. WordsOf(Append(before, lines[j])) = WordsOf(before) \o LettersOf(lines[j])
    BY <2>2, <2>3, WordsAppend
  <2> QED
    BY <2>1, <2>2, <2>5, <2>6 DEF j
<1>15. T = Nat
  <2> T \subseteq Nat
    OBVIOUS
  <2> HIDE DEF T
  <2> QED
    BY <1>13, <1>14, SetInduction
<1>16. c[n] \in S /\ Written(c[n]) = WordsOf(SubSeq(lines, 1, n))
  BY <1>2, <1>15
<1> HIDE DEF T
<1>17. SubSeq(lines, 1, n) = lines
  BY <1>1, SubSeqFull DEF n
<1> QED
  BY <1>1, <1>11, <1>16, <1>17 DEF S

\* _chunks: every message is within Discord's limit, and together they have
\* every word of the output, in order.
THEOREM ChunksText ==
  ASSUME NEW content \in Texts
  PROVE  /\ Chunks(content) \in Seq(Texts)
         /\ \A k \in DOMAIN Chunks(content) : Len(Chunks(content)[k]) <= MessageLimit
         /\ WordsOf(Chunks(content)) = LettersOf(content)
<1> DEFINE all == Chunked(content)
           last == NonEmpty(<<all.current>>)
           chunks == all.out \o last
<1>1. all \in ChunkStates /\ Short(all) /\ Written(all) = LettersOf(content)
  BY ChunkedText
<1>2. Chunks(content) = IF Len(content) <= MessageLimit THEN <<content>> ELSE chunks
  BY DEF Chunks
<1> HIDE DEF all
<1>3. /\ all.out \in Seq(Texts) /\ all.current \in Texts /\ Len(all.current) <= ChunkLimit
      /\ \A k \in DOMAIN all.out : Len(all.out[k]) <= ChunkLimit
  BY <1>1 DEF ChunkStates, Short
<1>4. /\ last \in Seq(Texts) /\ WordsOf(last) = LettersOf(all.current)
      /\ \A k \in DOMAIN last : Len(last[k]) <= ChunkLimit
  BY <1>3, NonEmptyShort
<1> HIDE DEF last
<1>5. /\ chunks \in Seq(Texts) /\ WordsOf(chunks) = Written(all)
      /\ \A k \in DOMAIN chunks : Len(chunks[k]) <= ChunkLimit
  <2>1. chunks \in Seq(Texts) /\ WordsOf(chunks) = WordsOf(all.out) \o WordsOf(last)
    BY <1>3, <1>4, WordsConcat
  <2>2. \A k \in DOMAIN chunks : Len(chunks[k]) <= ChunkLimit
    BY <1>3, <1>4, ShortConcat
  <2> QED
    BY <1>4, <2>1, <2>2 DEF Written
<1> HIDE DEF chunks
<1>6. ChunkLimit \in Nat /\ MessageLimit \in Nat /\ ChunkLimit <= MessageLimit
  BY MirrorAssumption
<1>7. CASE Len(content) <= MessageLimit
  <2> DEFINE one == <<content>>
  <2>1. one \in Seq(Texts) /\ WordsOf(one) = LettersOf(content)
    BY WordsOne
  <2>2. \A k \in DOMAIN one : Len(one[k]) <= MessageLimit
    BY <1>7
  <2>3. Chunks(content) = one
    BY <1>2, <1>7
  <2> HIDE DEF one
  <2> QED
    BY <2>1, <2>2, <2>3
<1>8. CASE ~(Len(content) <= MessageLimit)
  <2>1. Chunks(content) = chunks
    BY <1>2, <1>8
  <2>2. ASSUME NEW k \in DOMAIN chunks PROVE Len(chunks[k]) <= MessageLimit
    <3>1. chunks[k] \in Texts
      BY <1>5
    <3>2. Len(chunks[k]) \in Nat /\ Len(chunks[k]) <= ChunkLimit
      BY <1>5, <3>1, Lengths
    <3> QED
      BY <1>6, <3>2
  <2> QED
    BY <1>1, <1>5, <2>1, <2>2
<1> QED
  BY <1>7, <1>8

-----------------------------------------------------------------------------
(* Type correctness.                                                       *)

\* No message that waits to be posted is longer than Discord takes.
PostingFits == \A k \in DOMAIN posting : Len(posting[k]) <= MessageLimit

TypeInv == TypeOK /\ PostingFits

\* The combined text a turn mirrors is a text with the words of its output.
LEMMA OutputText ==
  ASSUME output \in Seq(ProseTexts \cup RawTexts)
  PROVE  /\ output \in Seq(Texts)
         /\ Combined \in Texts
         /\ LettersOf(Combined) = WordsOf(output)
<1> DEFINE V == {t \in Texts : Strip(t) # <<>>}
<1>1. output \in Seq(Texts)
  BY ReplyAssumption, SeqMonotonic
<1>2. \A t \in Texts \ V : LettersOf(t) = <<>>
  <2> SUFFICES ASSUME NEW t \in Texts, Strip(t) = <<>> PROVE LettersOf(t) = <<>>
    OBVIOUS
  <2> LettersOf(Strip(t)) = LettersOf(t)
    BY StripText
  <2> QED
    BY LettersConcat
<1>3. Combined = Join(Kept(output, V), <<Newline>>)
  BY DEF Combined
<1> HIDE DEF V
<1>4. Kept(output, V) \in Seq(Texts) /\ WordsOf(Kept(output, V)) = WordsOf(output)
  BY <1>1, <1>2, WordsKept
<1> DEFINE kept == Kept(output, V)
           nl == <<Newline>>
<1>5. nl \in Texts /\ LettersOf(nl) = <<>>
  BY NewlineText
<1> HIDE DEF kept, nl
<1>6. Join(kept, nl) \in Texts /\ LettersOf(Join(kept, nl)) = WordsOf(kept)
  BY <1>4, <1>5, JoinWords DEF kept
<1> QED
  BY <1>1, <1>3, <1>4, <1>6 DEF kept, nl

\* The types and the length of the messages hold when the turn begins.
LEMMA TypeInit == Init => TypeInv
<1> SUFFICES ASSUME Init PROVE TypeInv
  OBVIOUS
<1> DEFINE e == <<>>
<1>1. e \in Texts /\ e \in Seq(Texts) /\ e \in Seq(ProseTexts \cup RawTexts) /\ Len(e) = 0 /\ DOMAIN e = {}
  BY ConcatTexts
<1>2. MaxEvents \in Nat
  BY ReplyAssumption
<1>3. at \in Steps
  BY DEF Init, Steps
<1>4. ToSet(e) = {}
  BY DEF ToSet
<1>5. /\ output = e /\ prose = e /\ pending = e /\ queue = e /\ handled = e
      /\ spoken = {} /\ posting = e /\ channel = e /\ refused = FALSE /\ capped = FALSE
  BY DEF Init
<1>6. refused \in BOOLEAN /\ capped \in BOOLEAN
  BY DEF Init
<1> HIDE DEF e
<1>7. output \in Seq(ProseTexts \cup RawTexts) /\ Len(output) <= MaxEvents
  BY <1>1, <1>2, <1>5
<1>8. {prose, pending} \subseteq Texts /\ {queue, handled, posting, channel} \subseteq Seq(Texts)
  BY <1>1, <1>5
<1>9. /\ \A t \in spoken : t \in Texts /\ Len(t) <= SpeakLimit
      /\ \A t \in ToSet(channel) : Len(t) <= MessageLimit
  BY <1>4, <1>5
<1>10. PostingFits
  BY <1>1, <1>5 DEF PostingFits
<1> QED
  BY <1>3, <1>6, <1>7, <1>8, <1>9, <1>10 DEF TypeInv, TypeOK

\* Every step keeps the types and the length of the messages.
LEMMA TypeStep == TypeInv /\ [Next]_vars => TypeInv'
<1> SUFFICES ASSUME TypeInv, [Next]_vars PROVE TypeInv'
  OBVIOUS
<1>1. SpeakLimit \in Nat /\ MaxEvents \in Nat /\ ProseTexts \cup RawTexts \subseteq Texts
  BY ReplyAssumption
<1>2. ASSUME NEW t \in ProseTexts, Prose(t) PROVE TypeInv'
  <2> DEFINE text == pending \o t \o <<Newline>>
             fed == Feed(text)
             prosed == prose \o t \o <<Newline>>
  <2>1. t \in Texts /\ <<Newline>> \in Texts /\ pending \in Texts /\ prose \in Texts
    BY <1>1, NewlineText DEF TypeInv, TypeOK
  <2>2. text \in Texts /\ prosed \in Texts
    <3> DEFINE nl == <<Newline>>
    <3> HIDE DEF nl
    <3> (pending \o t) \o nl \in Texts /\ (prose \o t) \o nl \in Texts
      BY <2>1, LettersConcat DEF nl
    <3> QED
      BY DEF nl
  <2>3. queue' = fed.released /\ pending' = fed.pending /\ prose' = prosed
    BY <1>2 DEF Prose
  <2> HIDE DEF text, prosed
  <2>4. fed.released \in Seq(Texts) /\ fed.pending \in Texts
    BY <2>2, FeedWords
  <2>5. output' \in Seq(ProseTexts \cup RawTexts) /\ Len(output') <= MaxEvents
    BY <1>1, <1>2, AppendProperties, LenProperties DEF TypeInv, TypeOK, Prose
  <2> HIDE DEF fed
  <2>6. /\ at' = at /\ handled' = handled /\ spoken' = spoken /\ posting' = posting
        /\ channel' = channel /\ refused' = refused /\ capped' = capped
    BY <1>2 DEF Prose, mirror
  <2> QED
    BY <2>2, <2>3, <2>4, <2>5, <2>6 DEF TypeInv, TypeOK, PostingFits
<1>3. ASSUME NEW t \in RawTexts, Raw(t) PROVE TypeInv'
  <2>1. output' \in Seq(ProseTexts \cup RawTexts) /\ Len(output') <= MaxEvents
    BY <1>1, <1>3, AppendProperties, LenProperties DEF TypeInv, TypeOK, Raw
  <2>2. UNCHANGED <<at, prose, pending, queue, handled, spoken, posting, channel, refused, capped>>
    BY <1>3 DEF Raw, speech, mirror
  <2> QED
    BY <2>1, <2>2 DEF TypeInv, TypeOK, PostingFits
<1>4. CASE Done
  <2>1. Flush(pending) \in Seq(Texts) /\ <<>> \in Texts
    BY FlushWords, ConcatTexts DEF TypeInv, TypeOK
  <2>2. at' \in Steps /\ queue' = Flush(pending) /\ pending' = <<>>
    BY <1>4 DEF Done, Steps
  <2>3. UNCHANGED <<output, prose, handled, spoken, posting, channel, refused, capped>>
    BY <1>4 DEF Done, mirror
  <2> QED
    BY <2>1, <2>2, <2>3 DEF TypeInv, TypeOK, PostingFits
<1>5. CASE Returns
  <2>1. at' \in Steps
    BY <1>5 DEF Returns, Steps
  <2>2. UNCHANGED <<output, prose, pending, queue, handled, spoken, posting, channel, refused, capped>>
    BY <1>5 DEF Returns, speech, mirror
  <2> QED
    BY <2>1, <2>2 DEF TypeInv, TypeOK, PostingFits
<1>6. CASE Speak
  <2> DEFINE said == SanitizeForSpeech(Head(queue), SpeakLimit)
  <2>1. queue \in Seq(Texts) /\ queue # <<>> /\ handled \in Seq(Texts)
    BY <1>6 DEF TypeInv, TypeOK, Speak
  <2>2. Head(queue) \in Texts /\ Tail(queue) \in Seq(Texts)
    BY <2>1, HeadTailProperties
  <2>3. Append(handled, Head(queue)) \in Seq(Texts)
    BY <2>1, <2>2, AppendProperties
  <2>4. said \in Texts /\ Len(said) <= SpeakLimit
    BY <1>1, <2>2, SanitizedText
  <2>5. queue' = Tail(queue) /\ handled' = Append(handled, Head(queue))
    BY <1>6 DEF Speak
  <2>6. spoken' = spoken \cup {said} \/ spoken' = spoken
    BY <1>6 DEF Speak
  <2> HIDE DEF said
  <2>7. \A t \in spoken' : t \in Texts /\ Len(t) <= SpeakLimit
    BY <2>4, <2>6 DEF TypeInv, TypeOK
  <2>8. UNCHANGED <<at, output, prose, pending, posting, channel, refused, capped>>
    BY <1>6 DEF Speak, mirror
  <2>9. queue' \in Seq(Texts) /\ handled' \in Seq(Texts)
    BY <2>2, <2>3, <2>5
  <2> QED
    BY <2>7, <2>8, <2>9 DEF TypeInv, TypeOK, PostingFits
<1>7. CASE Mirror
  <2>1. Combined \in Texts
    BY OutputText DEF TypeInv, TypeOK
  <2>2. /\ Chunks(Combined) \in Seq(Texts)
        /\ \A k \in DOMAIN Chunks(Combined) : Len(Chunks(Combined)[k]) <= MessageLimit
    BY <2>1, ChunksText
  <2>3. posting' \in {posting, Chunks(Combined)} /\ refused' \in {refused, TRUE} /\ at' \in Steps
    BY <1>7 DEF Mirror, Steps
  <2>4. UNCHANGED <<output, prose, pending, queue, handled, spoken, channel, capped>>
    BY <1>7 DEF Mirror, speech
  <2>5. posting' \in Seq(Texts) /\ PostingFits'
    BY <2>2, <2>3 DEF TypeInv, TypeOK, PostingFits
  <2> QED
    BY <2>3, <2>4, <2>5 DEF TypeInv, TypeOK
<1>8. CASE MirrorNothing
  <2>1. at' \in Steps
    BY <1>8 DEF MirrorNothing, Steps
  <2>2. UNCHANGED <<output, prose, pending, queue, handled, spoken, posting, channel, refused, capped>>
    BY <1>8 DEF MirrorNothing, speech, mirror
  <2> QED
    BY <2>1, <2>2 DEF TypeInv, TypeOK, PostingFits
<1>9. CASE Post
  <2>1. posting \in Seq(Texts) /\ posting # <<>> /\ channel \in Seq(Texts)
    BY <1>9 DEF TypeInv, TypeOK, Post
  <2> DEFINE h == Head(posting)
             r == Tail(posting)
  <2>2. /\ h \in Texts /\ r \in Seq(Texts) /\ Len(r) = Len(posting) - 1
        /\ \A i \in 1..Len(r) : r[i] = posting[i + 1]
    BY <2>1, HeadTailProperties
  <2>3. h = posting[1] /\ DOMAIN r = 1..Len(r) /\ DOMAIN posting = 1..Len(posting)
        /\ Len(posting) \in Nat \ {0}
    <3> Len(posting) \in Nat \ {0}
      BY <2>1, EmptySeq
    <3> QED
      BY <2>1, <2>2, LenProperties
  <2>4. Len(h) <= MessageLimit
    <3> 1 \in DOMAIN posting
      BY <2>3
    <3> QED
      BY <2>3 DEF TypeInv, PostingFits
  <2>5. \A k \in DOMAIN r : Len(r[k]) <= MessageLimit
    <3> SUFFICES ASSUME NEW k \in DOMAIN r PROVE Len(r[k]) <= MessageLimit
      OBVIOUS
    <3> HIDE DEF r
    <3> k + 1 \in DOMAIN posting /\ r[k] = posting[k + 1]
      BY <2>2, <2>3
    <3> QED
      BY DEF TypeInv, PostingFits
  <2>6. channel' = Append(channel, h) /\ posting' = r /\ at' \in Steps
    BY <1>9 DEF Post, TypeInv, TypeOK, Steps
  <2>7. UNCHANGED <<output, prose, pending, queue, handled, spoken, refused, capped>>
    BY <1>9 DEF Post, speech
  <2> HIDE DEF h, r
  <2> DEFINE c == Append(channel, h)
  <2>8. /\ c \in Seq(Texts) /\ DOMAIN c = 1..(Len(channel) + 1) /\ Len(channel) \in Nat
        /\ c[Len(channel) + 1] = h /\ \A i \in 1..Len(channel) : c[i] = channel[i]
        /\ DOMAIN channel = 1..Len(channel)
    BY <2>1, <2>2, AppendProperties, LenProperties
  <2> HIDE DEF c
  <2>9. \A t \in ToSet(c) : Len(t) <= MessageLimit
    <3> SUFFICES ASSUME NEW i \in DOMAIN c PROVE Len(c[i]) <= MessageLimit
      BY DEF ToSet
    <3>1. CASE i = Len(channel) + 1
      BY <2>4, <2>8, <3>1
    <3>2. CASE i # Len(channel) + 1
      <4> i \in DOMAIN channel /\ c[i] = channel[i]
        BY <2>8, <3>2
      <4> c[i] \in ToSet(channel)
        BY DEF ToSet
      <4> QED
        BY DEF TypeInv, TypeOK
    <3> QED
      BY <3>1, <3>2
  <2>10. channel' = c
    BY <2>6 DEF c
  <2> QED
    BY <2>2, <2>5, <2>6, <2>7, <2>8, <2>9, <2>10 DEF TypeInv, TypeOK, PostingFits
<1>10. CASE PostFails
  <2>1. at' \in Steps /\ posting' = <<>> /\ refused' = TRUE
    BY <1>10 DEF PostFails, Steps
  <2>2. UNCHANGED <<output, prose, pending, queue, handled, spoken, channel, capped>>
    BY <1>10 DEF PostFails, speech
  <2>3. posting' \in Seq(Texts) /\ PostingFits'
    BY <2>1 DEF PostingFits
  <2> QED
    BY <2>1, <2>2, <2>3 DEF TypeInv, TypeOK
<1>11. CASE Note
  <2>1. at' \in Steps /\ capped' \in BOOLEAN
    BY <1>11 DEF Note, Steps, IsTruncated
  <2>2. UNCHANGED <<output, prose, pending, queue, handled, spoken, posting, channel, refused>>
    BY <1>11 DEF Note, speech
  <2> QED
    BY <2>1, <2>2 DEF TypeInv, TypeOK, PostingFits
<1>12. CASE UNCHANGED vars
  BY <1>12 DEF vars, speech, mirror, TypeInv, TypeOK, PostingFits
<1> QED
  BY <1>2, <1>3, <1>4, <1>5, <1>6, <1>7, <1>8, <1>9, <1>10, <1>11, <1>12 DEF Next

\* No message posted to the channel is longer than Discord's limit, together
\* with the types: post_output posts what _chunks returns, one by one, and
\* nothing else.
THEOREM TypeHolds == Spec => []TypeInv
<1>1. Init => TypeInv
  BY TypeInit
<1>2. TypeInv /\ [Next]_vars => TypeInv'
  BY TypeStep
<1> QED
  BY <1>1, <1>2, PTL DEF Spec

\* The reply, the spoken texts and the texts in the channel stay of their types;
\* what is spoken is within max_chars, and what is in the channel within the
\* limit of a message (_consume_events and post_output).
THEOREM ReplyTyped == Spec => []TypeOK
<1>1. TypeInv => TypeOK
  BY DEF TypeInv
<1> QED
  BY <1>1, TypeHolds, PTL

-----------------------------------------------------------------------------
(* No word is lost on the way to speech.                                   *)

\* What is handed over or released, and what is pending.
LEMMA FlowParts ==
  ASSUME NEW hs \in Seq(Texts), NEW qs \in Seq(Texts), NEW p \in Texts
  PROVE  /\ hs \o qs \in Seq(Texts)
         /\ WordsOf(hs \o qs \o <<p>>) = (WordsOf(hs) \o WordsOf(qs)) \o LettersOf(p)
         /\ WordsOf(hs) \in Texts /\ WordsOf(qs) \in Texts /\ LettersOf(p) \in Texts
<1> DEFINE one == <<p>>
           a == hs \o qs
<1>1. one \in Seq(Texts) /\ WordsOf(one) = LettersOf(p)
  BY WordsOne
<1> HIDE DEF one
<1>2. a \in Seq(Texts) /\ WordsOf(a) = WordsOf(hs) \o WordsOf(qs)
  BY WordsConcat
<1> HIDE DEF a
<1>3. WordsOf(a \o one) = WordsOf(a) \o WordsOf(one)
  BY <1>1, <1>2, WordsConcat
<1>4. WordsOf(hs) \in Texts /\ WordsOf(qs) \in Texts /\ LettersOf(p) \in Texts
  BY WordsAppend, LettersConcat
<1> QED
  BY <1>1, <1>2, <1>3, <1>4 DEF a, one

\* Moving the head of the released sentences behind those handed over changes
\* neither words nor order.
LEMMA HeadAndTail ==
  ASSUME NEW hs \in Seq(Texts), NEW qs \in Seq(Texts), qs # <<>>
  PROVE  /\ Head(qs) \in Texts /\ Tail(qs) \in Seq(Texts)
         /\ Append(hs, Head(qs)) \in Seq(Texts)
         /\ Append(hs, Head(qs)) \o Tail(qs) = hs \o qs
<1> DEFINE h == Head(qs)
           r == Tail(qs)
           one == <<h>>
<1>1. h \in Texts /\ r \in Seq(Texts) /\ Append(hs, h) \in Seq(Texts)
  BY HeadTailProperties, AppendProperties
<1>2. qs = one \o r
  BY HeadTailProperties, SeqEqual, ConcatProperties
<1> HIDE DEF h, r
<1>3. one \in Seq(Texts) /\ Append(hs, h) = hs \o one
  BY <1>1, AppendIsConcat
<1> HIDE DEF one
<1>4. (hs \o one) \o r = hs \o (one \o r)
  <2> one \in Seq(Texts) /\ r \in Seq(Texts)
    BY <1>1, <1>3
  <2> QED
    BY ConcatAssociative
<1> QED
  BY <1>1, <1>2, <1>3, <1>4 DEF h, r

\* No word is lost when the turn begins.
LEMMA LossInit == Init => NothingIsLost
<1> SUFFICES ASSUME Init PROVE NothingIsLost
  OBVIOUS
<1> DEFINE e == <<>>
<1>1. e \in Texts /\ e \in Seq(Texts) /\ WordsOf(e) = e /\ LettersOf(e) = e /\ e \o e = e
  BY ConcatTexts, WordsEmpty, LettersConcat
<1>2. handled = e /\ queue = e /\ pending = e /\ prose = e
  BY DEF Init
<1> HIDE DEF e
<1>3. WordsOf(e \o e \o <<e>>) = (WordsOf(e) \o WordsOf(e)) \o LettersOf(e)
  BY <1>1, FlowParts
<1> QED
  BY <1>1, <1>2, <1>3 DEF NothingIsLost

\* No step loses or reorders a word.
LEMMA LossStep == TypeInv /\ NothingIsLost /\ [Next]_vars => NothingIsLost'
<1> SUFFICES ASSUME TypeInv, NothingIsLost, [Next]_vars PROVE NothingIsLost'
  OBVIOUS
<1> DEFINE h == WordsOf(handled)
           q == WordsOf(queue)
           p == LettersOf(pending)
           w == LettersOf(prose)
           e == <<>>
<1>1. prose \in Texts /\ pending \in Texts /\ handled \in Seq(Texts) /\ queue \in Seq(Texts)
  BY DEF TypeInv, TypeOK
<1>2. h \in Texts /\ q \in Texts /\ p \in Texts /\ w \in Texts /\ (h \o q) \o p = w
  <2> WordsOf(handled \o queue \o <<pending>>) = w
    BY DEF NothingIsLost
  <2> QED
    BY <1>1, FlowParts, LettersConcat
<1>3. e \in Texts /\ e \in Seq(Texts) /\ WordsOf(e) = e /\ LettersOf(e) = e
      /\ \A s \in Texts : s \o e = s
  BY ConcatTexts, WordsEmpty, LettersConcat
<1>4. ASSUME NEW t \in ProseTexts, Prose(t) PROVE NothingIsLost'
  <2> DEFINE nl == <<Newline>>
             text == pending \o t \o nl
             fed == Feed(text)
             prosed == prose \o t \o nl
             l == LettersOf(t)
  <2>1. t \in Texts /\ nl \in Texts /\ LettersOf(nl) = e
    BY NewlineText, ReplyAssumption
  <2>2. queue' = fed.released /\ pending' = fed.pending /\ prose' = prosed /\ handled' = handled /\ queue = e
    BY <1>4 DEF Prose, Listening
  <2> HIDE DEF nl, e
  <2>3. l \in Texts
    BY <2>1, LettersConcat
  <2>4. ASSUME NEW s \in Texts
        PROVE  s \o t \o nl \in Texts /\ LettersOf(s \o t \o nl) = LettersOf(s) \o l
    <3> DEFINE a == s \o t
    <3>1. a \in Texts /\ LettersOf(a) = LettersOf(s) \o l
      BY <2>1, LettersConcat
    <3> HIDE DEF a
    <3>2. a \o nl \in Texts /\ LettersOf(a \o nl) = LettersOf(a) \o LettersOf(nl) /\ LettersOf(a) \in Texts
      BY <2>1, <3>1, LettersConcat
    <3>3. LettersOf(a) \o e = LettersOf(a)
      BY <1>3, <3>2
    <3> QED
      BY <2>1, <3>1, <3>2, <3>3 DEF a
  <2>5. text \in Texts /\ LettersOf(text) = p \o l /\ LettersOf(prosed) = w \o l
    BY <1>1, <2>4
  <2> HIDE DEF text, prosed, l
  <2>6. fed.released \in Seq(Texts) /\ fed.pending \in Texts
        /\ WordsOf(fed.released) \o LettersOf(fed.pending) = LettersOf(text)
    BY <2>5, FeedWords
  <2> HIDE DEF fed
  <2> DEFINE r == WordsOf(fed.released)
             n == LettersOf(fed.pending)
  <2>7. /\ WordsOf(handled \o fed.released \o <<fed.pending>>) = (h \o r) \o n
        /\ r \in Texts /\ n \in Texts
    BY <1>1, <2>6, FlowParts
  <2>8. q = e
    BY <1>3, <2>2
  <2>9. r \o n = p \o l
    BY <2>5, <2>6
  <2>10. h \o p = w
    BY <1>2, <1>3, <2>8
  <2> HIDE DEF h, p, w, r, n
  <2> h \in Texts /\ p \in Texts /\ r \in Texts /\ n \in Texts
    BY <1>2, <2>7
  <2>11. (h \o r) \o n = h \o (r \o n)
    BY ConcatTexts
  <2>12. (h \o p) \o l = h \o (p \o l)
    BY <2>3, ConcatTexts
  <2>13. (h \o r) \o n = w \o l
    BY <2>9, <2>10, <2>11, <2>12
  <2> QED
    BY <2>2, <2>5, <2>7, <2>13 DEF NothingIsLost
<1>5. CASE Done
  <2>1. queue' = Flush(pending) /\ pending' = e /\ handled' = handled /\ prose' = prose /\ queue = e
    BY <1>5 DEF Done, Listening
  <2>2. Flush(pending) \in Seq(Texts) /\ WordsOf(Flush(pending)) = p
    BY <1>1, FlushWords
  <2> HIDE DEF e
  <2> DEFINE f == Flush(pending)
  <2>3. WordsOf(handled \o f \o <<e>>) = (h \o WordsOf(f)) \o LettersOf(e)
    BY <1>1, <1>3, <2>2, FlowParts
  <2>4. h \o p \in Texts /\ q = e
    BY <1>2, <1>3, <2>1, LettersConcat
  <2>5. (h \o p) \o e = w
    BY <1>2, <1>3, <2>4
  <2> QED
    BY <1>3, <2>1, <2>2, <2>3, <2>5 DEF NothingIsLost
<1>6. CASE Speak
  <2>1. queue # <<>> /\ queue' = Tail(queue) /\ handled' = Append(handled, Head(queue))
        /\ pending' = pending /\ prose' = prose
    BY <1>6 DEF Speak
  <2>2. Append(handled, Head(queue)) \o Tail(queue) = handled \o queue
    BY <1>1, <2>1, HeadAndTail
  <2>3. handled' \o queue' = handled \o queue
    BY <2>1, <2>2
  <2> QED
    BY <2>1, <2>3 DEF NothingIsLost
<1>7. ASSUME UNCHANGED <<prose, pending, queue, handled>> PROVE NothingIsLost'
  BY <1>7 DEF NothingIsLost
<1>8. ASSUME NEW t \in RawTexts, Raw(t) PROVE NothingIsLost'
  BY <1>7, <1>8 DEF Raw, speech
<1>9. CASE Returns
  BY <1>7, <1>9 DEF Returns, speech
<1>10. CASE Mirror
  BY <1>7, <1>10 DEF Mirror, speech
<1>11. CASE MirrorNothing
  BY <1>7, <1>11 DEF MirrorNothing, speech
<1>12. CASE Post
  BY <1>7, <1>12 DEF Post, speech
<1>13. CASE PostFails
  BY <1>7, <1>13 DEF PostFails, speech
<1>14. CASE Note
  BY <1>7, <1>14 DEF Note, speech
<1>15. CASE UNCHANGED vars
  BY <1>7, <1>15 DEF vars, speech
<1> QED
  BY <1>4, <1>5, <1>6, <1>8, <1>9, <1>10, <1>11, <1>12, <1>13, <1>14, <1>15 DEF Next

\* Every word of the prose of a turn, in order, is handed to _speak, released to
\* be handed over, or pending in the streamer, however the deltas cut the text,
\* and whatever ends the turn (the feed, the flush and the loop of
\* _consume_events).
THEOREM NothingLost == Spec => []NothingIsLost
<1>1. Init => NothingIsLost
  BY LossInit
<1>2. TypeInv /\ NothingIsLost /\ [Next]_vars => NothingIsLost'
  BY LossStep
<1> QED
  BY <1>1, <1>2, TypeHolds, PTL DEF Spec

\* All the prose has been handed over when nothing is released or pending.
LEMMA AllHandled ==
  ASSUME TypeInv, NothingIsLost, queue = <<>>, pending = <<>>
  PROVE  WordsOf(handled) = LettersOf(prose)
<1> DEFINE e == <<>>
<1>1. e \in Texts /\ e \in Seq(Texts) /\ WordsOf(e) = e /\ LettersOf(e) = e
  BY ConcatTexts, WordsEmpty, LettersConcat
<1>2. queue = e /\ pending = e /\ handled \in Seq(Texts)
  BY DEF TypeInv, TypeOK
<1> HIDE DEF e
<1>3. /\ WordsOf(handled \o e \o <<e>>) = (WordsOf(handled) \o WordsOf(e)) \o LettersOf(e)
      /\ WordsOf(handled) \in Texts
  BY <1>1, <1>2, FlowParts
<1>4. WordsOf(handled) \o e = WordsOf(handled)
  BY <1>3, ConcatTexts DEF e
<1> QED
  BY <1>1, <1>2, <1>3, <1>4 DEF NothingIsLost

-----------------------------------------------------------------------------
(* Every word reaches the channel.                                         *)

\* Before the mirroring nothing is in the channel; from then on what is there
\* and what is still to be posted make up the output, unless a message was
\* refused; nothing is left to post behind it.
Posted ==
  /\ at \in {"streaming", "flushing"} => channel = <<>> /\ posting = <<>>
  /\ at \in {"mirroring", "noting", "ended"} /\ ~refused =>
       WordsOf(channel \o posting) = WordsOf(output)
  /\ at \in {"noting", "ended"} => posting = <<>>

\* Every step keeps what of the output is posted and still to post.
LEMMA PostedStep == TypeInv /\ Posted /\ [Next]_vars => Posted'
<1> SUFFICES ASSUME TypeInv, Posted, [Next]_vars PROVE Posted'
  OBVIOUS
<1> DEFINE e == <<>>
<1>1. /\ output \in Seq(ProseTexts \cup RawTexts) /\ channel \in Seq(Texts) /\ posting \in Seq(Texts)
      /\ e \in Seq(Texts) /\ e \in Texts
      /\ \A ts \in Seq(Texts) : e \o ts = ts /\ ts \o e = ts
  BY ConcatEmptySeq, ConcatTexts DEF TypeInv, TypeOK
<1>2. Combined \in Texts /\ LettersOf(Combined) = WordsOf(output)
  BY <1>1, OutputText
<1>3. ASSUME at \in {"streaming", "flushing"}, at' \in {"streaming", "flushing", "left"},
             UNCHANGED mirror
      PROVE  Posted'
  BY <1>3 DEF Posted, mirror
<1>4. ASSUME NEW t \in ProseTexts, Prose(t) PROVE Posted'
  BY <1>3, <1>4 DEF Prose, Listening
<1>5. ASSUME NEW t \in RawTexts, Raw(t) PROVE Posted'
  BY <1>3, <1>5 DEF Raw, Listening
<1>6. CASE Done
  BY <1>3, <1>6 DEF Done, Listening
<1>7. CASE Returns
  BY <1>3, <1>7 DEF Returns, Listening
<1>8. CASE Speak
  BY <1>3, <1>8 DEF Speak
<1>9. CASE Mirror
  <2>1. channel = e /\ posting = e /\ channel' = channel /\ output' = output
    BY <1>9 DEF Mirror, Posted
  <2>2. CASE at' = "mirroring" /\ posting' = Chunks(Combined) /\ UNCHANGED refused
    <3> DEFINE c == Chunks(Combined)
    <3>1. c \in Seq(Texts) /\ WordsOf(c) = LettersOf(Combined)
      BY <1>2, ChunksText
    <3> HIDE DEF c, e
    <3>2. e \o c = c
      BY <1>1, <3>1
    <3>3. channel' \o posting' = c
      BY <2>1, <2>2, <3>2 DEF c
    <3>4. WordsOf(channel' \o posting') = WordsOf(output')
      BY <1>2, <2>1, <3>1, <3>3
    <3> QED
      BY <2>2, <3>4 DEF Posted
  <2>3. CASE at' = "noting" /\ refused' = TRUE /\ UNCHANGED posting
    BY <2>1, <2>3 DEF Posted
  <2> QED
    BY <1>9, <2>2, <2>3 DEF Mirror
<1>10. CASE MirrorNothing
  <2>1. /\ channel = e /\ posting = e /\ Strip(Combined) = e /\ at' = "noting"
        /\ channel' = channel /\ posting' = posting /\ output' = output
    BY <1>10 DEF MirrorNothing, Posted, mirror
  <2>2. LettersOf(Strip(Combined)) = LettersOf(Combined)
    BY <1>2, StripText
  <2>3. LettersOf(e) = e /\ WordsOf(e) = e
    BY LettersConcat, WordsEmpty
  <2> HIDE DEF e
  <2>4. e \o e = e
    BY <1>1
  <2>5. WordsOf(channel' \o posting') = WordsOf(output')
    BY <1>2, <2>1, <2>2, <2>3, <2>4
  <2>6. posting' = e
    BY <2>1
  <2> QED
    BY <2>1, <2>5, <2>6 DEF Posted, e
<1>11. CASE Post
  <2>1. /\ at = "mirroring" /\ posting # <<>> /\ channel' = Append(channel, Head(posting))
        /\ posting' = Tail(posting) /\ refused' = refused /\ output' = output
        /\ at' = IF posting' = <<>> THEN "noting" ELSE "mirroring"
    BY <1>11 DEF Post
  <2>2. Append(channel, Head(posting)) \o Tail(posting) = channel \o posting
    BY <1>1, <2>1, HeadAndTail
  <2>3. channel' \o posting' = channel \o posting
    BY <2>1, <2>2
  <2>4. at' \in {"mirroring", "noting"} /\ (at' = "noting" => posting' = <<>>)
    BY <2>1
  <2>5. ~refused' => WordsOf(channel' \o posting') = WordsOf(output')
    BY <2>1, <2>3 DEF Posted
  <2> QED
    BY <2>4, <2>5 DEF Posted
<1>12. CASE PostFails
  BY <1>12 DEF PostFails, Posted
<1>13. CASE Note
  <2>1. at = "noting" /\ at' = "ended" /\ UNCHANGED <<output, posting, channel, refused>>
    BY <1>13 DEF Note
  <2> QED
    BY <2>1 DEF Posted
<1>14. CASE UNCHANGED vars
  BY <1>14 DEF vars, mirror, Posted
<1> QED
  BY <1>4, <1>5, <1>6, <1>7, <1>8, <1>9, <1>10, <1>11, <1>12, <1>13, <1>14 DEF Next

\* When a turn has ended and no post was refused, every word of its output is in
\* the text channel, in order, however _chunks cut it (post_output, after the
\* flush).
THEOREM OutputMirrored == Spec => []MirroredInFull
<1>1. Init => Posted
  BY DEF Init, Posted
<1>2. TypeInv /\ Posted /\ [Next]_vars => Posted'
  BY PostedStep
<1>3. ASSUME TypeInv, Posted, at \in {"noting", "ended"}, ~refused
      PROVE  WordsOf(channel) = WordsOf(output)
  <2>1. posting = <<>> /\ WordsOf(channel \o posting) = WordsOf(output)
    BY <1>3 DEF Posted
  <2>2. channel \o <<>> = channel
    BY <1>3, ConcatEmptySeq DEF TypeInv, TypeOK
  <2> QED
    BY <2>1, <2>2
<1>4. TypeInv /\ Posted => MirroredInFull
  BY <1>3 DEF MirroredInFull
<1> QED
  BY <1>1, <1>2, <1>4, TypeHolds, PTL DEF Spec

-----------------------------------------------------------------------------
(* Where sentences end, in a text and in its beginning.                    *)

\* Two lists of texts end where the one ends and, behind its words, where the
\* other does.
LEMMA EndsConcat ==
  ASSUME NEW ss \in Seq(Texts), NEW ts \in Seq(Texts)
  PROVE  Ends(ss \o ts) = Ends(ss) \cup {Len(WordsOf(ss)) + e : e \in Ends(ts)}
<1> DEFINE w == Len(WordsOf(ss))
           T == {us \in Seq(Texts) : Ends(ss \o us) = Ends(ss) \cup {w + e : e \in Ends(us)}}
<1>1. <<>> \in T
  <2> ss \o <<>> = ss /\ <<>> \in Seq(Texts)
    BY ConcatEmptySeq
  <2> QED
    BY EndsEmpty
<1>2. ASSUME NEW us \in T, NEW u \in Texts PROVE Append(us, u) \in T
  <2> DEFINE a == ss \o us
             vs == Append(us, u)
             b == ss \o vs
  <2>1. us \in Seq(Texts) /\ vs \in Seq(Texts) /\ Ends(a) = Ends(ss) \cup {w + e : e \in Ends(us)}
    BY AppendProperties
  <2>2. ASSUME Ends(b) = Ends(ss) \cup {w + e : e \in Ends(vs)} PROVE vs \in T
    BY <2>1, <2>2
  <2> HIDE DEF T
  <2>3. a \in Seq(Texts) /\ b = Append(a, u)
    <3> DEFINE one == <<u>>
    <3>1. one \in Seq(Texts) /\ vs = us \o one
      BY <2>1, AppendIsConcat
    <3>2. a \in Seq(Texts)
      BY <2>1, ConcatProperties
    <3>3. (ss \o us) \o one = ss \o (us \o one)
      <4> HIDE DEF one
      <4> QED
        BY <2>1, <3>1, ConcatAssociative
    <3> HIDE DEF vs, a
    <3>4. Append(a, u) = a \o one
      BY <3>2, AppendIsConcat
    <3> QED
      BY <3>1, <3>2, <3>3, <3>4 DEF a
  <2>4. WordsOf(b) = WordsOf(ss) \o WordsOf(vs) /\ WordsOf(ss) \in Texts /\ WordsOf(vs) \in Texts
    <3> HIDE DEF vs
    <3> QED
      BY <2>1, WordsConcat, WordsAppend
  <2> DEFINE l == Len(WordsOf(vs))
  <2>5. Len(WordsOf(b)) = w + l
    BY <2>4, Lengths
  <2> HIDE DEF a, b
  <2>6. Ends(b) = Ends(a) \cup {Len(WordsOf(b))}
    BY <2>3, EndsAppend
  <2>7. Ends(vs) = Ends(us) \cup {l}
    BY <2>1, EndsAppend
  <2> HIDE DEF vs, l, w
  <2>8. {w + e : e \in Ends(us) \cup {l}} = {w + e : e \in Ends(us)} \cup {w + l}
    OBVIOUS
  <2>9. Ends(b) = Ends(ss) \cup {w + e : e \in Ends(vs)}
    BY <2>1, <2>5, <2>6, <2>7, <2>8
  <2> QED
    BY <2>2, <2>9 DEF vs, b
<1>3. T = Seq(Texts)
  <2> T \subseteq Seq(Texts)
    OBVIOUS
  <2> HIDE DEF T
  <2> QED
    BY <1>1, <1>2, SeqInduction
<1> QED
  BY <1>3

\* The beginnings of a text followed by another, up to and beyond the seam.
LEMMA FrontOfConcat ==
  ASSUME NEW d \in Texts, NEW x \in Texts
  PROVE  /\ \A c \in 0..Len(d) : SubSeq(d \o x, 1, c) = SubSeq(d, 1, c)
         /\ \A c \in 0..Len(x) : SubSeq(d \o x, 1, Len(d) + c) = d \o SubSeq(x, 1, c)
         /\ SubSeq(d \o x, Len(d) + 1, Len(d \o x)) = x
         /\ Len(d) \in 0..Len(d \o x)
<1> DEFINE s == d \o x
           m == Len(d)
           n == Len(x)
<1>1. /\ m \in Nat /\ n \in Nat /\ s \in Texts /\ Len(s) = m + n
      /\ \A i \in 1..m : s[i] = d[i] /\ s[i] \in Tokens /\ d[i] \in Tokens
      /\ \A i \in 1..n : s[m + i] = x[i] /\ x[i] \in Tokens
  <2>1. m \in Nat /\ n \in Nat /\ s \in Texts /\ Len(s) = m + n
    BY Lengths
  <2>2. \A i \in 1..(m + n) : s[i] = IF i <= m THEN d[i] ELSE x[i - m]
    BY ConcatProperties DEF Texts
  <2>3. (\A i \in 1..m : d[i] \in Tokens) /\ (\A i \in 1..n : x[i] \in Tokens)
    BY ElementOfSeq DEF Texts
  <2> HIDE DEF s, m, n
  <2>4. \A i \in 1..m : s[i] = d[i]
    BY <2>1, <2>2
  <2>5. ASSUME NEW i \in 1..n PROVE s[m + i] = x[i]
    <3> m + i \in 1..(m + n) /\ ~(m + i <= m) /\ (m + i) - m = i
      BY <2>1
    <3> QED
      BY <2>2
  <2> QED
    BY <2>1, <2>3, <2>4, <2>5
<1> HIDE DEF s, m, n
<1>2. ASSUME NEW c \in 0..m PROVE SubSeq(s, 1, c) = SubSeq(d, 1, c)
  <2> DEFINE a == SubSeq(s, 1, c)
             b == SubSeq(d, 1, c)
  <2>1. a \in Seq(Tokens) /\ Len(a) = c /\ \A i \in 1..c : a[i] = s[i]
    BY <1>1, SubSeqProperties
  <2>2. b \in Seq(Tokens) /\ Len(b) = c /\ \A i \in 1..c : b[i] = d[i]
    BY <1>1, SubSeqProperties
  <2>3. \A i \in 1..c : a[i] = b[i]
    BY <1>1, <2>1, <2>2
  <2> HIDE DEF a, b
  <2>4. a = b
    BY <2>1, <2>2, <2>3, SeqEqual
  <2> QED
    BY <2>4 DEF a, b
<1>3. ASSUME NEW c \in 0..n PROVE SubSeq(s, 1, m + c) = d \o SubSeq(x, 1, c)
  <2> DEFINE a == SubSeq(s, 1, m + c)
             y == SubSeq(x, 1, c)
             b == d \o y
  <2>1. \A i \in 1..(m + c) : s[i] \in Tokens
    <3> SUFFICES ASSUME NEW i \in 1..(m + c) PROVE s[i] \in Tokens
      OBVIOUS
    <3>1. CASE i <= m
      BY <1>1, <3>1
    <3>2. CASE ~(i <= m)
      <4> i - m \in 1..n /\ m + (i - m) = i
        BY <1>1, <3>2
      <4> QED
        BY <1>1
    <3> QED
      BY <3>1, <3>2
  <2>2. a \in Seq(Tokens) /\ Len(a) = m + c /\ \A i \in 1..(m + c) : a[i] = s[i]
    BY <1>1, <2>1, SubSeqProperties
  <2>3. y \in Texts /\ Len(y) = c /\ \A i \in 1..c : y[i] = x[i]
    BY <1>1, SubSeqProperties DEF Texts
  <2> HIDE DEF a, y
  <2>4. /\ b \in Seq(Tokens) /\ Len(b) = m + c
        /\ \A i \in 1..(m + c) : b[i] = IF i <= m THEN d[i] ELSE y[i - m]
    BY <2>3, ConcatProperties DEF Texts, m
  <2> HIDE DEF b
  <2>5. ASSUME NEW i \in 1..(m + c) PROVE a[i] = b[i]
    <3>1. CASE i <= m
      BY <1>1, <2>2, <2>4, <3>1
    <3>2. CASE ~(i <= m)
      <4> DEFINE j == i - m
      <4>1. j \in 1..c /\ j \in 1..n /\ m + j = i
        BY <1>1, <3>2
      <4>2. b[i] = y[j]
        BY <2>4, <3>2
      <4> HIDE DEF j
      <4> QED
        BY <1>1, <2>2, <2>3, <4>1, <4>2
    <3> QED
      BY <3>1, <3>2
  <2>6. a = b
    BY <2>2, <2>4, <2>5, SeqEqual
  <2> QED
    BY <2>6 DEF a, b, y
<1>4. SubSeq(s, m + 1, m + n) = x
  <2> DEFINE a == SubSeq(s, m + 1, m + n)
  <2>1. \A i \in (m + 1)..(m + n) : s[i] \in Tokens
    <3> SUFFICES ASSUME NEW i \in (m + 1)..(m + n) PROVE s[i] \in Tokens
      OBVIOUS
    <3> i - m \in 1..n /\ m + (i - m) = i
      BY <1>1
    <3> QED
      BY <1>1
  <2>2. /\ a \in Seq(Tokens) /\ Len(a) = IF m + 1 <= m + n THEN (m + n) - (m + 1) + 1 ELSE 0
        /\ \A i \in 1..((m + n) - (m + 1) + 1) : a[i] = s[m + 1 + i - 1]
    BY <1>1, <2>1, SubSeqProperties
  <2> HIDE DEF a
  <2>3. Len(a) = n /\ \A i \in 1..n : a[i] = s[m + i]
    <3>1. (m + n) - (m + 1) + 1 = n /\ (m + 1 <= m + n <=> n > 0)
      BY <1>1
    <3>2. Len(a) = n
      BY <1>1, <2>2, <3>1
    <3>3. ASSUME NEW i \in 1..n PROVE a[i] = s[m + i]
      <4> m + 1 + i - 1 = m + i
        BY <1>1
      <4> QED
        BY <2>2, <3>1
    <3> QED
      BY <3>2, <3>3
  <2>4. a = x
    BY <1>1, <2>2, <2>3, SeqEqual DEF n, Texts
  <2> QED
    BY <2>4 DEF a
<1> QED
  BY <1>1, <1>2, <1>3, <1>4 DEF s, m, n

\* The letters up to a place of a text followed by another.
LEMMA UptoConcat ==
  ASSUME NEW d \in Texts, NEW x \in Texts
  PROVE  /\ \A c \in 0..Len(d) : Upto(d \o x, c) = Upto(d, c)
         /\ \A c \in 0..Len(x) : Upto(d \o x, Len(d) + c) = Len(LettersOf(d)) + Upto(x, c)
<1>1. ASSUME NEW c \in 0..Len(d) PROVE Upto(d \o x, c) = Upto(d, c)
  BY FrontOfConcat DEF Upto
<1>2. ASSUME NEW c \in 0..Len(x)
      PROVE  Upto(d \o x, Len(d) + c) = Len(LettersOf(d)) + Upto(x, c)
  <2> DEFINE y == SubSeq(x, 1, c)
  <2>1. y \in Texts
    BY CutText
  <2>2. SubSeq(d \o x, 1, Len(d) + c) = d \o y
    BY FrontOfConcat
  <2> HIDE DEF y
  <2>3. LettersOf(d \o y) = LettersOf(d) \o LettersOf(y) /\ LettersOf(d) \in Texts /\ LettersOf(y) \in Texts
    BY <2>1, LettersConcat
  <2>4. Len(LettersOf(d \o y)) = Len(LettersOf(d)) + Len(LettersOf(y))
    BY <2>3, Lengths
  <2> QED
    BY <2>2, <2>4 DEF Upto, y
<1> QED
  BY <1>1, <1>2

\* The tokens of a text followed by another.
LEMMA TokensOfConcat ==
  ASSUME NEW d \in Texts, NEW x \in Texts
  PROVE  /\ DOMAIN (d \o x) = 1..(Len(d) + Len(x))
         /\ DOMAIN d = 1..Len(d) /\ DOMAIN x = 1..Len(x)
         /\ Len(d) \in Nat /\ Len(x) \in Nat /\ Len(d \o x) = Len(d) + Len(x)
         /\ \A i \in 1..Len(d) : (d \o x)[i] = d[i]
         /\ \A i \in 1..Len(x) : (d \o x)[Len(d) + i] = x[i]
<1>1. Len(d) \in Nat /\ Len(x) \in Nat /\ d \o x \in Texts /\ Len(d \o x) = Len(d) + Len(x)
  BY Lengths
<1>2. DOMAIN (d \o x) = 1..(Len(d) + Len(x)) /\ DOMAIN d = 1..Len(d) /\ DOMAIN x = 1..Len(x)
  BY <1>1, Lengths
<1>3. \A i \in 1..(Len(d) + Len(x)) : (d \o x)[i] = IF i <= Len(d) THEN d[i] ELSE x[i - Len(d)]
  BY ConcatProperties DEF Texts
<1>4. \A i \in 1..Len(d) : (d \o x)[i] = d[i]
  BY <1>1, <1>3
<1>5. ASSUME NEW i \in 1..Len(x) PROVE (d \o x)[Len(d) + i] = x[i]
  <2> Len(d) + i \in 1..(Len(d) + Len(x)) /\ ~(Len(d) + i <= Len(d)) /\ (Len(d) + i) - Len(d) = i
    BY <1>1
  <2> QED
    BY <1>3
<1> QED
  BY <1>1, <1>2, <1>4, <1>5

\* Whether a sentence ends at a token does not depend on what comes before it.
LEMMA CutsBehind ==
  ASSUME NEW d \in Texts, NEW x \in Texts, NEW i \in 1..Len(x), Len(d) + i \in Cuts(d \o x)
  PROVE  i \in Cuts(x)
<1> DEFINE s == d \o x
           m == Len(d)
           n == Len(x)
<1>1. /\ DOMAIN s = 1..(m + n) /\ DOMAIN x = 1..n /\ m \in Nat /\ n \in Nat /\ Len(s) = m + n
      /\ \A j \in 1..n : s[m + j] = x[j]
  BY TokensOfConcat
<1>2. EndsSentence(s, m + i) \/ EndsParagraph(s, m + i)
  BY DEF Cuts
<1>3. i \in 1..n
  OBVIOUS
<1> HIDE DEF s, m, n
<1>4. CASE EndsSentence(s, m + i)
  <2>1. PICK k \in DOMAIN s : /\ k > m + i + 1
                              /\ \A j \in (m + i + 1)..(k - 1) : s[j] = " "
                              /\ s[k] \in Capitals \cup Numbers
    BY <1>4 DEF EndsSentence
  <2> DEFINE l == k - m
  <2>2. k \in 1..(m + n) /\ k > m + i + 1 /\ m \in Nat /\ n \in Nat /\ i \in 1..n
    BY <1>1, <1>3, <2>1
  <2>3. l \in 1..n /\ l > i + 1 /\ m + l = k
    BY <2>2
  <2>4. ASSUME NEW j \in (i + 1)..(l - 1) PROVE x[j] = " "
    <3>1. m + j \in (m + i + 1)..(k - 1) /\ j \in 1..n
      BY <2>2
    <3> QED
      BY <1>1, <2>1, <3>1
  <2> HIDE DEF l
  <2>5. x[l] = s[k] /\ x[i] = s[m + i]
    BY <1>1, <1>3, <2>3
  <2>6. s[m + i] = "."
    BY <1>4 DEF EndsSentence
  <2>7. EndsSentence(x, i)
    BY <1>1, <2>1, <2>3, <2>4, <2>5, <2>6 DEF EndsSentence
  <2> QED
    BY <1>1, <1>3, <2>7 DEF Cuts
<1>5. CASE EndsParagraph(s, m + i)
  <2>1. s[m + i] = Newline /\ m + i < m + n /\ s[m + i + 1] = Newline
    BY <1>1, <1>5 DEF EndsParagraph
  <2>2. i + 1 \in 1..n /\ i < n /\ m + i + 1 = m + (i + 1)
    BY <1>1, <1>3, <2>1
  <2>3. x[i] = Newline /\ x[i + 1] = Newline
    BY <1>1, <1>3, <2>1, <2>2
  <2>4. EndsParagraph(x, i)
    BY <2>2, <2>3 DEF EndsParagraph, n
  <2> QED
    BY <1>1, <1>3, <2>4 DEF Cuts
<1> QED
  BY <1>2, <1>4, <1>5

\* What follows a newline ends no sentence before it.
LEMMA CutsBefore ==
  ASSUME NEW d \in Texts, NEW x \in Texts, d # <<>>, d[Len(d)] = Newline,
         NEW i \in 1..Len(d), i \in Cuts(d \o x)
  PROVE  i \in Cuts(d) \cup {Len(d)}
<1> DEFINE s == d \o x
           m == Len(d)
           n == Len(x)
<1>1. /\ DOMAIN s = 1..(m + n) /\ DOMAIN d = 1..m /\ m \in Nat /\ n \in Nat /\ Len(s) = m + n
      /\ \A j \in 1..m : s[j] = d[j]
  BY TokensOfConcat
<1>2. EndsSentence(s, i) \/ EndsParagraph(s, i)
  BY DEF Cuts
<1>3. i \in 1..m /\ d[m] = Newline
  OBVIOUS
<1> HIDE DEF s, n
<1>4. CASE EndsSentence(s, i)
  <2>1. PICK k \in DOMAIN s : /\ k > i + 1
                              /\ \A j \in (i + 1)..(k - 1) : s[j] = " "
                              /\ s[k] \in Capitals \cup Numbers
    BY <1>4 DEF EndsSentence
  <2>2. s[i] = "."
    BY <1>4 DEF EndsSentence
  <2> HIDE DEF m
  <2>3. k \in Nat /\ k > i + 1 /\ m \in Nat /\ i \in 1..m
    <3>1. k \in 1..(m + n) /\ m \in Nat /\ n \in Nat
      BY <1>1
    <3>2. k > i + 1
      BY <2>1
    <3>3. i \in 1..m
      BY <1>3
    <3> QED
      BY <3>1, <3>2, <3>3
  <2>4. s[m] = Newline
    <3> m \in 1..m
      BY <1>1, <1>3
    <3> QED
      BY <1>1, <1>3
  <2>5. i # m
    BY <2>2, <2>4 DEF Newline
  <2>6. k <= m
    <3> SUFFICES ASSUME ~(k <= m) PROVE FALSE
      OBVIOUS
    <3>1. m \in (i + 1)..(k - 1)
      BY <2>3, <2>5
    <3>2. s[m] = " "
      BY <2>1, <3>1
    <3> QED
      BY <2>4, <3>2 DEF Newline
  <2>7. k \in 1..m /\ \A j \in (i + 1)..(k - 1) : j \in 1..m
    BY <2>3, <2>6
  <2>8. EndsSentence(d, i)
    <3>1. d[i] = "." /\ d[k] \in Capitals \cup Numbers
      BY <1>1, <1>3, <2>1, <2>2, <2>7
    <3>2. \A j \in (i + 1)..(k - 1) : d[j] = " "
      BY <1>1, <2>1, <2>7
    <3> QED
      BY <1>1, <2>1, <2>7, <3>1, <3>2 DEF EndsSentence
  <2> QED
    BY <1>1, <1>3, <2>8 DEF Cuts
<1>5. CASE EndsParagraph(s, i)
  <2>1. s[i] = Newline /\ s[i + 1] = Newline
    BY <1>5 DEF EndsParagraph
  <2>2. CASE i = m
    BY <2>2
  <2>3. CASE i # m
    <3> HIDE DEF m
    <3>1. i + 1 \in 1..m /\ i < m
      BY <1>1, <1>3, <2>3
    <3>2. d[i] = Newline /\ d[i + 1] = Newline
      BY <1>1, <1>3, <2>1, <3>1
    <3>3. EndsParagraph(d, i)
      BY <3>1, <3>2 DEF EndsParagraph, m
    <3> QED
      BY <1>1, <1>3, <3>3 DEF Cuts
  <2> QED
    BY <2>2, <2>3
<1> QED
  BY <1>2, <1>4, <1>5

\* Every end of a sentence is a terminal, or the next newline is one.
LEMMA CutsAreTerminals ==
  ASSUME NEW t \in Texts, NEW c \in Cuts(t)
  PROVE  /\ EndsSentence(t, c) => c \in Terminals(t)
         /\ EndsParagraph(t, c) => c \in Terminals(t) \/ c + 1 \in Terminals(t)
<1>1. Len(t) \in Nat /\ DOMAIN t = 1..Len(t) /\ c \in 1..Len(t)
  BY Lengths DEF Cuts
<1>2. CASE EndsSentence(t, c)
  <2>1. PICK k \in DOMAIN t : k > c + 1 /\ \A j \in (c + 1)..(k - 1) : t[j] = " "
    BY <1>2 DEF EndsSentence
  <2>2. k \in 1..Len(t) /\ k > c + 1
    BY <1>1, <2>1
  <2>3. t[c] = "." /\ c < Len(t) /\ c + 1 \in (c + 1)..(k - 1)
    <3> t[c] = "."
      BY <1>2 DEF EndsSentence
    <3> DEFINE l == Len(t)
    <3> k \in 1..l /\ l \in Nat /\ c \in 1..l
      BY <1>1, <2>2
    <3> HIDE DEF l
    <3> c < l /\ c + 1 \in (c + 1)..(k - 1)
      BY <2>2
    <3> QED
      BY DEF l
  <2>4. t[c + 1] \in Blank
    BY <2>1, <2>3 DEF Blank
  <2>5. c \in Terminals(t)
    BY <1>1, <2>3, <2>4 DEF Terminals
  <2>6. ~EndsParagraph(t, c)
    BY <2>3 DEF EndsParagraph, Newline
  <2> QED
    BY <2>5, <2>6
<1>3. CASE EndsParagraph(t, c)
  <2> DEFINE Others(i) == {0} \cup {j \in 1..(i - 1) : t[j] # Newline}
             last == Max(Others(c))
  <2>1. NewlinesBefore(t, c) = c - 1 - last
    BY DEF NewlinesBefore
  <2>2. last \in 0..(c - 1) /\ \A j \in Others(c) : j <= last
    <3> DEFINE X == Others(c)
               p == c - 1
    <3>1. X \subseteq 0..p /\ X # {} /\ p \in Nat
      BY <1>1
    <3> HIDE DEF X, p
    <3>2. Max(X) \in X /\ \A j \in X : j <= Max(X)
      BY <3>1, SmallestAndLargest
    <3> QED
      BY <3>1, <3>2 DEF X, p
  <2> HIDE DEF last
  <2>3. t[c] # "."
    BY <1>3 DEF EndsParagraph, Newline
  <2>4. CASE (c - 1 - last) % 2 = 0
    <3> c + 1 \in Terminals(t)
      BY <1>1, <1>3, <2>1, <2>4 DEF Terminals
    <3> QED
      BY <2>3 DEF EndsSentence
  <2>5. CASE (c - 1 - last) % 2 # 0
    <3> DEFINE b == c - 1
    <3>1. last < b /\ b \in 1..Len(t) /\ b + 1 = c
      BY <1>1, <2>2, <2>5
    <3>2. t[b] = Newline
      <4> b \notin Others(c)
        BY <1>1, <2>2, <3>1
      <4> b \in 1..(c - 1)
        BY <1>1, <3>1
      <4> QED
        OBVIOUS
    <3>3. Others(b) = Others(c)
      <4>1. \A j \in 1..(c - 1) : j \in 1..(b - 1) \/ j = b
        BY <1>1, <3>1
      <4>2. \A j \in 1..(b - 1) : j \in 1..(c - 1)
        BY <1>1, <3>1
      <4> HIDE DEF b
      <4> QED
        BY <3>2, <4>1, <4>2
    <3>4. NewlinesBefore(t, b) = b - 1 - last
      BY <3>3 DEF NewlinesBefore, last
    <3>5. (b - 1 - last) % 2 = 0
      BY <1>1, <2>2, <2>5, <3>1
    <3>6. EndsParagraph(t, b)
      <4> b < Len(t)
        BY <1>1, <3>1
      <4> t[b + 1] = Newline
        BY <1>3, <3>1 DEF EndsParagraph
      <4> QED
        BY <3>2 DEF EndsParagraph
    <3> HIDE DEF b
    <3>7. b + 1 \in Terminals(t)
      BY <1>1, <3>1, <3>4, <3>5, <3>6 DEF Terminals
    <3> QED
      BY <2>3, <3>1, <3>7 DEF EndsSentence
  <2> QED
    BY <2>4, <2>5
<1> QED
  BY <1>2, <1>3 DEF Cuts

\* feed releases every sentence that has its end in the text, and ends a
\* sentence there.
LEMMA FeedCuts ==
  ASSUME NEW t \in Texts, NEW c \in Cuts(t)
  PROVE  LET end == Max({0} \cup Terminals(t))
         IN c <= end /\ Upto(t, c) \in Ends(Feed(t).released) \cup {0}
<1> DEFINE X == {0} \cup Terminals(t)
           end == Max(X)
           head == SubSeq(t, 1, end)
           rest == SubSeq(t, end + 1, Len(t))
<1>1. Len(t) \in Nat /\ DOMAIN t = 1..Len(t) /\ c \in 1..Len(t) /\ end \in 0..Len(t)
  BY Lengths, TerminalsInText DEF Cuts
<1>2. end \in X /\ \A i \in Terminals(t) : i <= end
  <2>1. X \subseteq 0..Len(t) /\ X # {}
    <3> Terminals(t) \subseteq 1..Len(t)
      BY TerminalsInText
    <3> QED
      BY <1>1
  <2> HIDE DEF X
  <2>2. Max(X) \in X /\ \A i \in X : i <= Max(X)
    BY <1>1, <2>1, SmallestAndLargest
  <2> QED
    BY <2>2 DEF X
<1>3. Ends(Feed(t).released) \cup {0} =
        {Upto(head, i) : i \in Cuts(head) \cup {Len(head)}} \cup {0}
  BY FeedWords
<1> HIDE DEF end
<1>4. head \in Texts /\ rest \in Texts /\ t = head \o rest
  BY <1>1, CutText
<1>5. Len(head) = end /\ DOMAIN head = 1..end /\ \A i \in 1..end : head[i] = t[i]
  <2> \A i \in 1..end : t[i] \in Tokens
    <3> t \in Seq(Tokens)
      BY DEF Texts
    <3> QED
      BY <1>1, ElementOfSeq
  <2>1. Len(head) = end /\ \A i \in 1..end : head[i] = t[i]
    BY <1>1, SubSeqProperties
  <2> HIDE DEF head
  <2> QED
    BY <1>4, <2>1, Lengths
<1> HIDE DEF head, rest
<1>6. c <= end
  <2>1. CASE EndsSentence(t, c)
    BY <1>2, <2>1, CutsAreTerminals
  <2>2. CASE EndsParagraph(t, c)
    <3>1. CASE c \in Terminals(t)
      BY <1>2, <3>1
    <3>2. CASE c + 1 \in Terminals(t)
      <4> c + 1 <= end
        BY <1>2, <3>2
      <4> QED
        BY <1>1
    <3> QED
      BY <2>2, <3>1, <3>2, CutsAreTerminals
  <2> QED
    BY <2>1, <2>2 DEF Cuts
<1>7. end \in Terminals(t) /\ end \in 1..Len(t) /\ c \in 1..end
  BY <1>1, <1>2, <1>6
<1>8. c \in Cuts(head) \cup {Len(head)}
  <2>1. CASE c = end
    BY <1>5, <2>1
  <2>2. CASE c # end /\ EndsSentence(t, c)
    <3>1. PICK k \in DOMAIN t : /\ k > c + 1
                                /\ \A j \in (c + 1)..(k - 1) : t[j] = " "
                                /\ t[k] \in Capitals \cup Numbers
      BY <2>2 DEF EndsSentence
    <3>2. t[c] = "." /\ k \in 1..Len(t)
      BY <1>1, <2>2, <3>1 DEF EndsSentence
    <3>3. t[end] # " "
      <4>1. t[end] \in {"."} \cup Abbrs \cup {Newline}
        <5>1. CASE t[end] \in {"."} \cup Abbrs
          BY <5>1
        <5>2. CASE \E i \in DOMAIN t : EndsParagraph(t, i) /\ end = i + 1
          BY <5>2 DEF EndsParagraph
        <5> QED
          BY <1>7, <5>1, <5>2 DEF Terminals
      <4>2. " " \notin Abbrs
        BY TextAssumption DEF Lettered, Blank
      <4> QED
        BY <4>1, <4>2 DEF Newline
    <3>4. k <= end
      <4> SUFFICES ASSUME ~(k <= end) PROVE FALSE
        OBVIOUS
      <4>1. end \in (c + 1)..(k - 1)
        BY <1>1, <1>7, <2>2, <3>2
      <4> QED
        BY <3>1, <3>3, <4>1
    <3>5. k \in 1..end /\ \A j \in (c + 1)..(k - 1) : j \in 1..end
      BY <1>1, <1>7, <3>2, <3>4
    <3>6. head[c] = "." /\ head[k] \in Capitals \cup Numbers
      BY <1>5, <1>7, <3>1, <3>2, <3>5
    <3>7. \A j \in (c + 1)..(k - 1) : head[j] = " "
      BY <1>5, <3>1, <3>5
    <3>8. EndsSentence(head, c)
      BY <1>5, <3>1, <3>5, <3>6, <3>7 DEF EndsSentence
    <3> QED
      BY <1>5, <1>7, <3>8 DEF Cuts
  <2>3. CASE c # end /\ EndsParagraph(t, c)
    <3>1. c < end /\ c + 1 \in 1..end
      BY <1>1, <1>7, <2>3
    <3>2. head[c] = Newline /\ head[c + 1] = Newline
      BY <1>5, <1>7, <2>3, <3>1 DEF EndsParagraph
    <3>3. EndsParagraph(head, c)
      BY <1>5, <3>1, <3>2 DEF EndsParagraph
    <3> QED
      BY <1>5, <1>7, <3>3 DEF Cuts
  <2> QED
    BY <2>1, <2>2, <2>3 DEF Cuts
<1>9. Upto(t, c) = Upto(head, c)
  <2> c \in 0..Len(head)
    BY <1>5, <1>7
  <2> Upto(head \o rest, c) = Upto(head, c)
    BY <1>4, UptoConcat
  <2> QED
    BY <1>4
<1>10. Upto(t, c) \in Ends(Feed(t).released) \cup {0}
  BY <1>3, <1>8, <1>9
<1> QED
  BY <1>6, <1>10 DEF end

\* The cuts of d \o p are all in d, and hs has the end of a sentence at each.
Settled(d, p, hs) ==
  /\ LettersOf(d) = WordsOf(hs)
  /\ Cuts(d \o p) \subseteq 1..Len(d)
  /\ \A c \in Cuts(d \o p) : Upto(d \o p, c) \in Ends(hs) \cup {0}

\* What feed does to it, when the text before the delta ends with a newline.
LEMMA FeedSettles ==
  ASSUME NEW d \in Texts, NEW p \in Texts, NEW x \in Texts, NEW hs \in Seq(Texts),
         Settled(d, p, hs),
         d \o p = <<>> \/ (d \o p)[Len(d \o p)] = Newline
  PROVE  LET fed == Feed(p \o x)
         IN \E b \in Texts : /\ b \o fed.pending = (d \o p) \o x
                             /\ Settled(b, fed.pending, hs \o fed.released)
<1> DEFINE text == p \o x
           fed == Feed(text)
           old == d \o p
           new == d \o text
           end == Max({0} \cup Terminals(text))
           head == SubSeq(text, 1, end)
           hs1 == hs \o fed.released
           b == d \o head
           w == Len(LettersOf(d))
<1>1. text \in Texts /\ old \in Texts /\ new \in Texts /\ new = old \o x
  <2>1. text \in Texts /\ old \in Texts
    BY LettersConcat
  <2>2. (d \o p) \o x = d \o (p \o x)
    BY ConcatTexts
  <2> HIDE DEF text
  <2>3. new \in Texts
    BY <2>1, LettersConcat
  <2> QED
    BY <2>1, <2>2, <2>3 DEF text
<1>2. LettersOf(d) = WordsOf(hs) /\ Cuts(old) \subseteq 1..Len(d)
      /\ \A c \in Cuts(old) : Upto(old, c) \in Ends(hs) \cup {0}
  BY DEF Settled
<1>3. end \in 0..Len(text)
  BY <1>1, TerminalsInText
<1>4. /\ fed.released \in Seq(Texts) /\ fed.pending = SubSeq(text, end + 1, Len(text))
      /\ fed.pending \in Texts /\ WordsOf(fed.released) = LettersOf(head)
  BY <1>1, FeedWords
<1>5. \A c \in Cuts(text) : c <= end /\ Upto(text, c) \in Ends(fed.released) \cup {0}
  BY <1>1, FeedCuts
<1>6. old = <<>> \/ old[Len(old)] = Newline
  OBVIOUS
<1> HIDE DEF text, fed, old, new, end
<1>7. head \in Texts /\ text = head \o fed.pending
  BY <1>1, <1>3, <1>4, CutText
<1>8. Len(head) = end
  <2> \A i \in 1..end : text[i] \in Tokens
    <3> text \in Seq(Tokens)
      BY <1>1 DEF Texts
    <3> Len(text) \in Nat
      BY <1>1, Lengths
    <3> QED
      BY <1>3, ElementOfSeq
  <2> QED
    BY <1>3, SubSeqProperties
<1> HIDE DEF head
<1>9. b \in Texts /\ b \o fed.pending = new /\ LettersOf(b) = LettersOf(d) \o LettersOf(head)
  <2>1. b \in Texts /\ LettersOf(b) = LettersOf(d) \o LettersOf(head)
    BY <1>7, LettersConcat
  <2>2. (d \o head) \o fed.pending = d \o (head \o fed.pending)
    BY <1>4, <1>7, ConcatTexts
  <2> QED
    BY <1>7, <2>1, <2>2 DEF new
<1>10. hs1 \in Seq(Texts) /\ WordsOf(hs1) = LettersOf(b)
      /\ Ends(hs1) = Ends(hs) \cup {w + e : e \in Ends(fed.released)}
  <2>1. hs1 \in Seq(Texts) /\ WordsOf(hs1) = WordsOf(hs) \o WordsOf(fed.released)
    BY <1>4, WordsConcat
  <2>2. Ends(hs1) = Ends(hs) \cup {Len(WordsOf(hs)) + e : e \in Ends(fed.released)}
    BY <1>4, EndsConcat
  <2> QED
    BY <1>2, <1>4, <1>9, <2>1, <2>2
<1>11. w \in Ends(hs) \cup {0} /\ w \in Nat
  <2>1. w \in Ends(hs) \cup {0}
    BY <1>2, LastIsAnEnd
  <2>2. LettersOf(d) \in Texts
    BY LettersConcat
  <2> QED
    BY <2>1, <2>2, Lengths
<1>12. Len(b) = Len(d) + end /\ Len(d) \in Nat /\ Len(text) \in Nat /\ Len(old) \in Nat
       /\ Len(new) = Len(d) + Len(text) /\ Len(old) = Len(d) + Len(p) /\ Len(p) \in Nat
       /\ DOMAIN new = 1..Len(new)
  BY <1>1, <1>7, <1>8, Lengths DEF new, old
<1> HIDE DEF b, hs1, w
<1>13. ASSUME NEW c \in Cuts(new)
       PROVE  c \in 1..Len(b) /\ Upto(new, c) \in Ends(hs1) \cup {0}
  <2>1. c \in 1..(Len(d) + Len(text))
    BY <1>12 DEF Cuts
  <2>2. CASE c <= Len(d)
    <3>1. c \in 1..Len(old) /\ c \in 1..Len(d) /\ c \in 1..Len(b)
      BY <1>3, <1>12, <2>1, <2>2
    <3>2. old # <<>>
      <4> SUFFICES ASSUME old = <<>> PROVE FALSE
        OBVIOUS
      <4> Len(old) = 0
        BY Lengths
      <4> QED
        BY <3>1
    <3>3. c \in Cuts(old) \cup {Len(old)}
      <4>1. c \in Cuts(old \o x)
        BY <1>1
      <4>2. old[Len(old)] = Newline
        BY <1>6, <3>2
      <4> QED
        BY <1>1, <3>1, <3>2, <4>1, <4>2, CutsBefore
    <3>4. CASE c \in Cuts(old)
      <4>1. Upto(old, c) \in Ends(hs) \cup {0}
        BY <1>2, <3>4
      <4>2. Upto(old \o x, c) = Upto(old, c)
        <5> c \in 0..Len(old)
          BY <3>1
        <5> QED
          BY <1>1, UptoConcat
      <4> QED
        BY <1>1, <1>10, <3>1, <4>1, <4>2
    <3>5. CASE c = Len(old)
      <4>1. c = Len(d)
        BY <1>12, <2>2, <3>5
      <4>2. Upto(d \o text, c) = Upto(d, c)
        <5> c \in 0..Len(d)
          BY <3>1
        <5> QED
          BY <1>1, UptoConcat
      <4>3. SubSeq(d, 1, Len(d)) = d
        BY SubSeqFull DEF Texts
      <4>4. Upto(new, c) = w
        BY <4>1, <4>2, <4>3 DEF new, Upto, w
      <4> QED
        BY <1>10, <1>11, <3>1, <4>4
    <3> QED
      BY <3>3, <3>4, <3>5
  <2>3. CASE ~(c <= Len(d))
    <3> DEFINE i == c - Len(d)
    <3>1. i \in 1..Len(text) /\ i \in 0..Len(text) /\ Len(d) + i = c
      BY <1>12, <2>1, <2>3
    <3> HIDE DEF i
    <3>2. i \in Cuts(text)
      <4> Len(d) + i \in Cuts(d \o text)
        BY <3>1 DEF new
      <4> QED
        BY <1>1, <3>1, CutsBehind
    <3>3. i <= end /\ Upto(text, i) \in Ends(fed.released) \cup {0}
      BY <1>5, <3>2
    <3>4. Upto(d \o text, Len(d) + i) = Len(LettersOf(d)) + Upto(text, i)
      BY <1>1, <3>1, UptoConcat
    <3>5. Upto(new, c) = w + Upto(text, i)
      BY <3>1, <3>4 DEF new, w
    <3>6. Upto(new, c) \in Ends(hs1) \cup {0}
      <4>1. CASE Upto(text, i) \in Ends(fed.released)
        BY <1>10, <3>5, <4>1
      <4>2. CASE Upto(text, i) = 0
        BY <1>10, <1>11, <3>5, <4>2
      <4> QED
        BY <3>3, <4>1, <4>2
    <3>7. c \in 1..Len(b)
      BY <1>3, <1>12, <2>1, <3>1, <3>3
    <3> QED
      BY <3>6, <3>7
  <2> QED
    BY <2>2, <2>3
<1>14. Settled(b, fed.pending, hs1)
  BY <1>9, <1>10, <1>13 DEF Settled
<1>15. b \o fed.pending = old \o x
  BY <1>1, <1>9
<1> QED
  BY <1>9, <1>14, <1>15 DEF fed, text, old, hs1

-----------------------------------------------------------------------------
(* Sentences are not merged.                                               *)

\* While the turn streams, the prose is a part in which every sentence is
\* released, and what is pending, in which none ends; after the flush every
\* sentence of it is released.
Fed ==
  /\ prose = <<>> \/ prose[Len(prose)] = Newline
  /\ at = "streaming" =>
       \E n \in 0..Len(prose) :
         /\ pending = SubSeq(prose, n + 1, Len(prose))
         /\ Settled(SubSeq(prose, 1, n), pending, handled \o queue)
  /\ at \in {"flushing", "mirroring", "noting", "ended"} =>
       /\ pending = <<>>
       /\ \A c \in Cuts(prose) : Upto(prose, c) \in Ends(handled \o queue) \cup {0}
  /\ at \in {"mirroring", "noting", "ended"} => queue = <<>>

\* While the turn streams, the prose is what the streamer is done with and what
\* is pending.
LEMMA StreamedParts ==
  ASSUME TypeInv, Fed, at = "streaming"
  PROVE  \E d \in Texts : prose = d \o pending /\ Settled(d, pending, handled \o queue)
<1>1. PICK n \in 0..Len(prose) : /\ pending = SubSeq(prose, n + 1, Len(prose))
                                 /\ Settled(SubSeq(prose, 1, n), pending, handled \o queue)
  BY DEF Fed
<1>2. prose \in Texts
  BY DEF TypeInv, TypeOK
<1>3. SubSeq(prose, 1, n) \in Texts /\ prose = SubSeq(prose, 1, n) \o SubSeq(prose, n + 1, Len(prose))
  BY <1>2, CutText
<1> QED
  BY <1>1, <1>3

\* Nothing is fed when the turn begins.
LEMMA FedInit == Init => Fed
<1> SUFFICES ASSUME Init PROVE Fed
  OBVIOUS
<1> DEFINE e == <<>>
<1>1. at = "streaming" /\ prose = e /\ pending = e /\ handled = e /\ queue = e
  BY DEF Init
<1>2. /\ Len(e) = 0 /\ DOMAIN e = {} /\ SubSeq(e, 1, 0) = e /\ SubSeq(e, 1, Len(e)) = e
      /\ e \o e = e /\ LettersOf(e) = WordsOf(e)
  BY ConcatTexts, LettersConcat, WordsEmpty, SubSeqEmpty
<1>3. Cuts(e) = {}
  BY <1>2 DEF Cuts
<1> HIDE DEF e
<1>4. Settled(e, e, e)
  BY <1>2, <1>3 DEF Settled
<1>5. /\ 0 \in 0..Len(prose) /\ pending = SubSeq(prose, 0 + 1, Len(prose))
      /\ Settled(SubSeq(prose, 1, 0), pending, handled \o queue)
  <2>1. prose = e /\ pending = e /\ handled \o queue = e
    BY <1>1, <1>2
  <2>2. Len(prose) = 0 /\ 0 + 1 = 1
    BY <1>2, <2>1
  <2>3. 0 \in 0..Len(prose)
    BY <2>2
  <2>4. SubSeq(prose, 1, 0) = e
    BY <1>2, <2>1
  <2>5. SubSeq(prose, 0 + 1, Len(prose)) = e
    BY <2>2, <2>4
  <2> QED
    BY <1>4, <2>1, <2>3, <2>4, <2>5
<1>6. \E n \in 0..Len(prose) : /\ pending = SubSeq(prose, n + 1, Len(prose))
                               /\ Settled(SubSeq(prose, 1, n), pending, handled \o queue)
  BY <1>5
<1> QED
  BY <1>1, <1>6 DEF Fed, e

\* A delta of prose, fed and followed by a newline, keeps what the streamer is
\* done with free of unreleased sentences.
LEMMA FedProse ==
  ASSUME TypeInv, Fed, NEW t \in ProseTexts, Prose(t)
  PROVE  Fed'
<1> DEFINE nl == <<Newline>>
           x == t \o nl
           fed == Feed(pending \o x)
           hs == handled
<1>1. /\ at = "streaming" /\ queue = <<>> /\ at' = at /\ handled' = handled
      /\ queue' = Feed(pending \o t \o nl).released /\ pending' = Feed(pending \o t \o nl).pending
      /\ prose' = prose \o t \o nl
  BY DEF Prose, Listening
<1>2. t \in Texts /\ nl \in Texts /\ Len(nl) = 1 /\ pending \in Texts /\ prose \in Texts
      /\ hs \in Seq(Texts)
  BY NewlineText, ReplyAssumption DEF TypeInv, TypeOK
<1>3. nl[1] = Newline
  OBVIOUS
<1> HIDE DEF nl
<1>4. x \in Texts /\ (pending \o t) \o nl = pending \o x /\ (prose \o t) \o nl = prose \o x
  <2>1. (pending \o t) \o nl = pending \o x
    BY <1>2, ConcatTexts
  <2>2. (prose \o t) \o nl = prose \o x
    BY <1>2, ConcatTexts
  <2> QED
    BY <1>2, <2>1, <2>2, LettersConcat
<1> HIDE DEF x
<1>5. queue' = fed.released /\ pending' = fed.pending /\ prose' = prose \o x
  BY <1>1, <1>4
<1>6. hs \o queue = hs
  BY <1>1, <1>2, ConcatEmptySeq
<1>7. PICK d \in Texts : prose = d \o pending /\ Settled(d, pending, hs)
  BY <1>1, <1>6, StreamedParts
<1>8. prose = <<>> \/ prose[Len(prose)] = Newline
  BY DEF Fed
<1>9. PICK b \in Texts : b \o fed.pending = prose \o x /\ Settled(b, fed.pending, hs \o fed.released)
  <2>1. d \o pending = <<>> \/ (d \o pending)[Len(d \o pending)] = Newline
    BY <1>7, <1>8
  <2>2. \E b \in Texts : /\ b \o fed.pending = (d \o pending) \o x
                         /\ Settled(b, fed.pending, hs \o fed.released)
    BY <1>2, <1>4, <1>7, <2>1, FeedSettles
  <2> QED
    BY <1>7, <2>2
<1>10. fed.pending \in Texts
  <2> pending \o x \in Texts
    BY <1>2, <1>4, LettersConcat
  <2> QED
    BY FeedWords
<1> HIDE DEF fed, hs
<1> DEFINE n == Len(b)
<1>11. /\ n \in 0..Len(prose') /\ pending' = SubSeq(prose', n + 1, Len(prose'))
       /\ SubSeq(prose', 1, n) = b
  <2>1. prose' = b \o fed.pending
    BY <1>5, <1>9
  <2> DEFINE y == fed.pending
  <2>2. SubSeq(b \o y, Len(b) + 1, Len(b \o y)) = y /\ Len(b) \in 0..Len(b \o y)
    BY <1>10, FrontOfConcat
  <2>3. SubSeq(b \o y, 1, Len(b)) = SubSeq(b, 1, Len(b))
    <3> Len(b) \in 0..Len(b)
      BY LettersConcat
    <3> QED
      BY <1>10, FrontOfConcat
  <2>4. SubSeq(b, 1, Len(b)) = b
    BY SubSeqFull DEF Texts
  <2> QED
    BY <1>5, <2>1, <2>2, <2>3, <2>4
<1>12. Settled(SubSeq(prose', 1, n), pending', handled' \o queue')
  BY <1>1, <1>5, <1>9, <1>11 DEF hs
<1>13. prose'[Len(prose')] = Newline
  <2> DEFINE s == prose \o t
  <2>1. s \in Texts
    BY <1>2, LettersConcat
  <2>2. prose' = s \o nl
    BY <1>1
  <2> HIDE DEF s
  <2>3. Len(s \o nl) = Len(s) + 1 /\ 1 \in 1..Len(nl) /\ (s \o nl)[Len(s) + 1] = nl[1]
    <3> s \in Texts /\ nl \in Texts
      BY <1>2, <2>1
    <3>1. Len(s \o nl) = Len(s) + Len(nl)
      BY Lengths
    <3>2. 1 \in 1..Len(nl)
      BY <1>2
    <3>3. \A i \in 1..Len(nl) : (s \o nl)[Len(s) + i] = nl[i]
      BY TokensOfConcat
    <3> QED
      BY <1>2, <3>1, <3>2, <3>3
  <2> QED
    BY <1>3, <2>2, <2>3
<1>14. \E m \in 0..Len(prose') : /\ pending' = SubSeq(prose', m + 1, Len(prose'))
                                 /\ Settled(SubSeq(prose', 1, m), pending', handled' \o queue')
  <2> HIDE DEF n
  <2> QED
    BY <1>11, <1>12
<1> QED
  BY <1>1, <1>13, <1>14 DEF Fed

\* The flush at the end of the turn ends a sentence where each sentence of what
\* was pending ends.
LEMMA FedDone ==
  ASSUME TypeInv, Fed, Done
  PROVE  Fed'
<1>1. /\ at = "streaming" /\ queue = <<>> /\ at' = "flushing" /\ queue' = Flush(pending)
      /\ pending' = <<>> /\ handled' = handled /\ prose' = prose
  BY DEF Done, Listening
<1>2. handled \in Seq(Texts) /\ pending \in Texts /\ Flush(pending) \in Seq(Texts)
  BY FlushWords DEF TypeInv, TypeOK
<1>3. handled \o queue = handled
  BY <1>1, <1>2, ConcatEmptySeq
<1>4. PICK d \in Texts : prose = d \o pending /\ Settled(d, pending, handled)
  BY <1>1, <1>3, StreamedParts
<1>5. Ends(handled) \subseteq Ends(handled \o Flush(pending))
  BY <1>2, EndsConcat
<1>6. \A c \in Cuts(prose) : Upto(prose, c) \in Ends(handled) \cup {0}
  BY <1>4 DEF Settled
<1>7. \A c \in Cuts(prose') : Upto(prose', c) \in Ends(handled' \o queue') \cup {0}
  BY <1>1, <1>5, <1>6
<1>8. prose' = <<>> \/ prose'[Len(prose')] = Newline
  BY <1>1 DEF Fed
<1> QED
  BY <1>1, <1>7, <1>8 DEF Fed

\* Every step keeps where sentences are released.
LEMMA FedStep == TypeInv /\ Fed /\ [Next]_vars => Fed'
<1> SUFFICES ASSUME TypeInv, Fed, [Next]_vars PROVE Fed'
  OBVIOUS
<1>1. ASSUME NEW t \in ProseTexts, Prose(t) PROVE Fed'
  BY <1>1, FedProse
<1>2. CASE Done
  BY <1>2, FedDone
<1>3. CASE Speak
  <2>1. queue # <<>> /\ queue' = Tail(queue) /\ handled' = Append(handled, Head(queue))
        /\ pending' = pending /\ prose' = prose /\ at' = at /\ at \in {"streaming", "flushing"}
    BY <1>3 DEF Speak
  <2>2. Append(handled, Head(queue)) \o Tail(queue) = handled \o queue
    BY <2>1, HeadAndTail DEF TypeInv, TypeOK
  <2>3. handled' \o queue' = handled \o queue
    BY <2>1, <2>2
  <2> QED
    BY <2>1, <2>3 DEF Fed
<1>4. ASSUME UNCHANGED <<prose, speech>>,
             \/ at' = at
             \/ at' = "left"
             \/ at \in {"flushing", "mirroring", "noting"} /\ queue = <<>>
                /\ at' \in {"mirroring", "noting", "ended"}
      PROVE  Fed'
  <2>1. UNCHANGED <<prose, pending, queue, handled>>
    BY <1>4 DEF speech
  <2>2. CASE at' = at
    BY <2>1, <2>2 DEF Fed
  <2>3. CASE at' = "left"
    BY <2>1, <2>3 DEF Fed
  <2>4. CASE at \in {"flushing", "mirroring", "noting"} /\ queue = <<>>
             /\ at' \in {"mirroring", "noting", "ended"}
    BY <2>1, <2>4 DEF Fed
  <2> QED
    BY <1>4, <2>2, <2>3, <2>4
<1>5. ASSUME NEW t \in RawTexts, Raw(t) PROVE Fed'
  BY <1>4, <1>5 DEF Raw
<1>6. CASE Returns
  BY <1>4, <1>6 DEF Returns
<1>7. CASE Mirror
  BY <1>4, <1>7 DEF Mirror
<1>8. CASE MirrorNothing
  BY <1>4, <1>8 DEF MirrorNothing
<1>9. ASSUME at = "mirroring" \/ at = "noting" PROVE queue = <<>>
  BY <1>9 DEF Fed
<1>10. CASE Post
  <2> at = "mirroring" /\ at' \in {"mirroring", "noting"} /\ UNCHANGED <<prose, speech>>
    BY <1>10 DEF Post
  <2> QED
    BY <1>4, <1>9
<1>11. CASE PostFails
  BY <1>4, <1>9, <1>11 DEF PostFails
<1>12. CASE Note
  BY <1>4, <1>9, <1>12 DEF Note
<1>13. CASE UNCHANGED vars
  BY <1>4, <1>13 DEF vars
<1> QED
  BY <1>1, <1>2, <1>3, <1>5, <1>6, <1>7, <1>8, <1>10, <1>11, <1>12, <1>13 DEF Next

\* No two sentences of the prose are spoken as one. Once the turn is through the
\* flush, a text handed to _speak ends at every place where a sentence or a
\* paragraph of the whole prose ends, although feed saw the prose only delta by
\* delta (the cut of SentenceStreamer.feed and the newline _consume_events adds
\* to each delta).
THEOREM NotMerged == Spec => []SentencesAreNotMerged
<1>1. Init => Fed
  BY FedInit
<1>2. TypeInv /\ Fed /\ [Next]_vars => Fed'
  BY FedStep
<1>3. ASSUME TypeInv, NothingIsLost, Fed, at \in {"mirroring", "noting", "ended"}
      PROVE  Ends(SplitSentences(prose)) \subseteq Ends(handled) \cup {0}
  <2>1. queue = <<>> /\ pending = <<>> /\ handled \in Seq(Texts) /\ prose \in Texts
    BY <1>3 DEF Fed, TypeInv, TypeOK
  <2>2. handled \o queue = handled
    BY <2>1, ConcatEmptySeq
  <2>3. \A c \in Cuts(prose) : Upto(prose, c) \in Ends(handled) \cup {0}
    BY <1>3, <2>2 DEF Fed
  <2>4. Upto(prose, Len(prose)) \in Ends(handled) \cup {0}
    <3>1. WordsOf(handled) = LettersOf(prose)
      BY <1>3, <2>1, AllHandled
    <3>2. SubSeq(prose, 1, Len(prose)) = prose
      BY <2>1, SubSeqFull DEF Texts
    <3> QED
      BY <2>1, <3>1, <3>2, LastIsAnEnd DEF Upto
  <2>5. Ends(SplitSentences(prose)) \cup {0} =
          {Upto(prose, c) : c \in Cuts(prose) \cup {Len(prose)}} \cup {0}
    BY <2>1, SplitSentencesWords
  <2> QED
    BY <2>3, <2>4, <2>5
<1>4. TypeInv /\ NothingIsLost /\ Fed => SentencesAreNotMerged
  BY <1>3 DEF SentencesAreNotMerged
<1> QED
  BY <1>1, <1>2, <1>4, TypeHolds, NothingLost, PTL DEF Spec

-----------------------------------------------------------------------------
(* The words are relayed.                                                  *)

\* A refusal ends the mirroring.
Unrefused == at \in {"streaming", "flushing", "mirroring"} => ~refused

RelayInv == TypeInv /\ NothingIsLost /\ Posted /\ Fed /\ Unrefused

\* The first part of a text is how it begins.
LEMMA PrefixOfConcat ==
  ASSUME NEW s \in Texts, NEW t \in Texts
  PROVE  IsPrefix(s, s \o t)
<1>1. Len(s) \in 0..Len(s) /\ Len(s) <= Len(s \o t)
  BY Lengths
<1>2. SubSeq(s \o t, 1, Len(s)) = SubSeq(s, 1, Len(s))
  BY <1>1, FrontOfConcat
<1> QED
  BY <1>1, <1>2 DEF IsPrefix

\* What Relay asks of the words that went on.
HandledIsPrefix == IsPrefix(WordsOf(handled), LettersOf(prose))
ChannelIsPrefix ==
  at # "left" /\ ~refused => IsPrefix(WordsOf(channel), WordsOf(output))

\* What was handed over is how the prose begins.
LEMMA HandledInOrder == TypeInv /\ NothingIsLost => HandledIsPrefix
<1> SUFFICES ASSUME TypeInv, NothingIsLost PROVE HandledIsPrefix
  OBVIOUS
<1>1. handled \in Seq(Texts) /\ queue \in Seq(Texts) /\ pending \in Texts
  BY DEF TypeInv, TypeOK
<1> DEFINE a == WordsOf(handled)
           b == WordsOf(queue)
           c == LettersOf(pending)
<1>2. a \in Texts /\ b \in Texts /\ c \in Texts /\ LettersOf(prose) = (a \o b) \o c
  BY <1>1, FlowParts DEF NothingIsLost
<1> HIDE DEF a, b, c
<1>3. b \o c \in Texts /\ (a \o b) \o c = a \o (b \o c)
  BY <1>2, ConcatTexts, Lengths
<1> QED
  BY <1>2, <1>3, PrefixOfConcat DEF a, HandledIsPrefix

\* What is in the channel is how the output begins, while nothing is refused.
LEMMA ChannelInOrder == TypeInv /\ Posted => ChannelIsPrefix
<1> SUFFICES ASSUME TypeInv, Posted, at # "left", ~refused
             PROVE  IsPrefix(WordsOf(channel), WordsOf(output))
  BY DEF ChannelIsPrefix
<1>1. channel \in Seq(Texts) /\ posting \in Seq(Texts) /\ output \in Seq(Texts)
  BY OutputText DEF TypeInv, TypeOK
<1>2. WordsOf(channel) \in Texts /\ WordsOf(posting) \in Texts /\ WordsOf(output) \in Texts
  BY <1>1, WordsAppend, ConcatTexts
<1>3. CASE at \in {"streaming", "flushing"}
  <2> DEFINE e == <<>>
  <2>1. channel = e /\ WordsOf(e) = e /\ e \in Texts
    BY <1>3, WordsEmpty, ConcatTexts DEF Posted
  <2>2. e \o WordsOf(output) = WordsOf(output)
    BY <1>2, ConcatTexts
  <2> HIDE DEF e
  <2> QED
    BY <1>2, <2>1, <2>2, PrefixOfConcat
<1>4. CASE at \in {"mirroring", "noting", "ended"}
  <2>1. WordsOf(output) = WordsOf(channel) \o WordsOf(posting)
    BY <1>1, <1>4, WordsConcat DEF Posted
  <2> QED
    BY <1>2, <2>1, PrefixOfConcat
<1> QED
  BY <1>3, <1>4 DEF TypeInv, TypeOK, Steps

\* The streamer and the voice are a relay: a delta gives the words it has, a
\* sentence handed to _speak passes its own on, and the mirroring begins only
\* when all of them went on.
LEMMA StreamedStep ==
  ASSUME RelayInv, RelayInv', [Next]_vars
  PROVE  [Streamed!Next]_(Streamed!vars)
<1> USE DEF Streamed!vars
<1>1. prose \in Texts /\ handled \in Seq(Texts)
  BY DEF RelayInv, TypeInv, TypeOK
<1>2. ASSUME NEW t \in ProseTexts, Prose(t)
      PROVE  Streamed!Give
  <2> DEFINE x == t \o <<Newline>>
  <2>1. t \in Texts /\ <<Newline>> \in Texts
    BY NewlineText, ReplyAssumption
  <2>2. x \in Texts /\ (prose \o t) \o <<Newline>> = prose \o x
    BY <1>1, <2>1, ConcatTexts, Lengths
  <2>3. prose' = prose \o t \o <<Newline>>
    BY <1>2 DEF Prose
  <2> HIDE DEF x
  <2>4. prose' = prose \o x
    BY <2>2, <2>3
  <2>5. LettersOf(prose') = LettersOf(prose) \o LettersOf(x)
    BY <1>1, <2>2, <2>4, LettersConcat
  <2>6. IsPrefix(LettersOf(prose), LettersOf(prose'))
    BY <1>1, <2>2, <2>5, LettersConcat, PrefixOfConcat
  <2> QED
    BY <1>2, <2>6 DEF Prose, Listening, IsPrefix, Streamed!IsPrefix, Streamed!Give
<1>3. ASSUME NEW t \in RawTexts, Raw(t)
      PROVE  UNCHANGED Streamed!vars
  BY <1>3 DEF Raw, Listening, speech
<1>4. ASSUME Done
      PROVE  UNCHANGED Streamed!vars
  BY <1>4 DEF Done, Listening
<1>5. ASSUME Returns
      PROVE  Streamed!Break
  BY <1>5 DEF Returns, Listening, speech, Streamed!Break
<1>6. ASSUME Speak
      PROVE  Streamed!Pass
  <2>1. at \in {"streaming", "flushing"} /\ at' = at /\ prose' = prose
    BY <1>6 DEF Speak
  <2>2. IsPrefix(WordsOf(handled), WordsOf(handled'))
    <3>1. handled' = Append(handled, Head(queue)) /\ Head(queue) \in Texts
      BY <1>6, HeadAndTail DEF Speak, RelayInv, TypeInv, TypeOK
    <3>2. /\ WordsOf(handled') = WordsOf(handled) \o LettersOf(Head(queue))
          /\ WordsOf(handled) \in Texts /\ LettersOf(Head(queue)) \in Texts
      BY <1>1, <3>1, WordsAppend, LettersConcat
    <3> QED
      BY <3>2, PrefixOfConcat
  <2>3. IsPrefix(WordsOf(handled'), LettersOf(prose'))
    <3>1. TypeInv' /\ NothingIsLost'
      BY DEF RelayInv
    <3>2. HandledIsPrefix'
      BY <3>1, HandledInOrder, PTL
    <3> QED
      BY <3>2 DEF HandledIsPrefix
  <2> QED
    BY <2>1, <2>2, <2>3 DEF IsPrefix, Streamed!IsPrefix, Streamed!Pass
<1>7. ASSUME at = "flushing", queue = <<>>, at' \in {"mirroring", "noting"},
             handled' = handled, prose' = prose
      PROVE  Streamed!Finish
  <2>1. pending = <<>>
    BY <1>7 DEF RelayInv, Fed
  <2>2. WordsOf(handled) = LettersOf(prose)
    BY <1>7, <2>1, AllHandled DEF RelayInv
  <2> QED
    BY <1>7, <2>2 DEF Streamed!Finish
<1>8. ASSUME Mirror \/ MirrorNothing
      PROVE  Streamed!Finish
  BY <1>7, <1>8 DEF Mirror, MirrorNothing, speech
<1>9. ASSUME Post \/ PostFails \/ Note
      PROVE  UNCHANGED Streamed!vars
  BY <1>9 DEF Post, PostFails, Note, speech
<1>10. ASSUME UNCHANGED vars
       PROVE  UNCHANGED Streamed!vars
  BY <1>10 DEF vars, speech
<1> QED
  BY <1>2, <1>3, <1>4, <1>5, <1>6, <1>8, <1>9, <1>10 DEF Next, Streamed!Next

\* The mirror is a relay: an event gives its words, a message of _chunks passes
\* some on, and the turn is noted as through only when all of them went on.
LEMMA MirroredStep ==
  ASSUME RelayInv, RelayInv', [Next]_vars
  PROVE  [Mirrored!Next]_(Mirrored!vars)
<1> USE DEF Mirrored!vars
<1>1. output \in Seq(Texts) /\ channel \in Seq(Texts)
  BY OutputText DEF RelayInv, TypeInv, TypeOK
<1>2. ASSUME NEW t \in ProseTexts \cup RawTexts, Listening, at' = at, refused' = refused,
             channel' = channel, output' = Append(output, t)
      PROVE  Mirrored!Give
  <2>1. t \in Texts
    BY ReplyAssumption
  <2>2. /\ WordsOf(output') = WordsOf(output) \o LettersOf(t)
        /\ WordsOf(output) \in Texts /\ LettersOf(t) \in Texts
    BY <1>1, <1>2, <2>1, WordsAppend, LettersConcat
  <2>3. IsPrefix(WordsOf(output), WordsOf(output'))
    BY <2>2, PrefixOfConcat
  <2> QED
    BY <1>2, <2>3 DEF Listening, RelayInv, Unrefused, IsPrefix, Mirrored!IsPrefix, Mirrored!Give
<1>3. ASSUME NEW t \in ProseTexts, Prose(t)
      PROVE  Mirrored!Give
  BY <1>2, <1>3 DEF Prose, Listening, mirror
<1>4. ASSUME NEW t \in RawTexts, Raw(t)
      PROVE  Mirrored!Give
  BY <1>2, <1>4 DEF Raw, Listening, mirror
<1>5. ASSUME Done \/ Speak
      PROVE  UNCHANGED Mirrored!vars
  BY <1>5 DEF Done, Speak, Listening, mirror
<1>6. ASSUME Returns
      PROVE  Mirrored!Break
  BY <1>6 DEF Returns, Listening, mirror, RelayInv, Unrefused, Mirrored!Break
<1>7. ASSUME Mirror
      PROVE  UNCHANGED Mirrored!vars \/ Mirrored!Break
  BY <1>7 DEF Mirror, RelayInv, Unrefused, Mirrored!Break
<1>8. ASSUME MirrorNothing
      PROVE  UNCHANGED Mirrored!vars
  BY <1>8 DEF MirrorNothing, mirror
<1>9. ASSUME Post
      PROVE  Mirrored!Pass
  <2>1. /\ at = "mirroring" /\ at' \in {"mirroring", "noting"} /\ ~refused
        /\ refused' = refused /\ output' = output
    BY <1>9 DEF Post, RelayInv, Unrefused
  <2>2. IsPrefix(WordsOf(channel), WordsOf(channel'))
    <3>1. channel' = Append(channel, Head(posting)) /\ Head(posting) \in Texts
      BY <1>9, HeadAndTail DEF Post, RelayInv, TypeInv, TypeOK
    <3>2. /\ WordsOf(channel') = WordsOf(channel) \o LettersOf(Head(posting))
          /\ WordsOf(channel) \in Texts /\ LettersOf(Head(posting)) \in Texts
      BY <1>1, <3>1, WordsAppend, LettersConcat
    <3> QED
      BY <3>2, PrefixOfConcat
  <2>3. IsPrefix(WordsOf(channel'), WordsOf(output'))
    <3>1. TypeInv' /\ Posted'
      BY DEF RelayInv
    <3>2. ChannelIsPrefix'
      BY <3>1, ChannelInOrder, PTL
    <3> QED
      BY <2>1, <3>2 DEF ChannelIsPrefix
  <2> QED
    BY <2>1, <2>2, <2>3 DEF IsPrefix, Mirrored!IsPrefix, Mirrored!Pass
<1>10. ASSUME PostFails
       PROVE  Mirrored!Break
  BY <1>10 DEF PostFails, RelayInv, Unrefused, Mirrored!Break
<1>11. ASSUME Note
       PROVE  UNCHANGED Mirrored!vars \/ Mirrored!Finish
  <2>1. /\ at = "noting" /\ at' = "ended"
        /\ UNCHANGED <<output, channel, refused>>
    BY <1>11 DEF Note
  <2>2. CASE refused
    BY <2>1, <2>2
  <2>3. CASE ~refused
    <3>1. posting = <<>> /\ WordsOf(channel \o posting) = WordsOf(output)
      BY <2>1, <2>3 DEF RelayInv, Posted
    <3>2. channel \o <<>> = channel
      BY <1>1, ConcatEmptySeq
    <3> QED
      BY <2>1, <2>3, <3>1, <3>2 DEF Mirrored!Finish
  <2> QED
    BY <2>2, <2>3
<1>12. ASSUME UNCHANGED vars
       PROVE  UNCHANGED Mirrored!vars
  BY <1>12 DEF vars, mirror
<1> QED
  BY <1>3, <1>4, <1>5, <1>6, <1>7, <1>8, <1>9, <1>10, <1>11, <1>12 DEF Next, Mirrored!Next

\* A turn implements Relay twice: what _speak is given and what the channel
\* accepts are, at every moment, how the words of the prose and of the output
\* begin, and a turn that is through has passed on all of them.
THEOREM WordsRelayed == Spec => WordsAreRelayed
<1>1. Init => RelayInv /\ Streamed!Init /\ Mirrored!Init
  <2> SUFFICES ASSUME Init PROVE RelayInv /\ Streamed!Init /\ Mirrored!Init
    OBVIOUS
  <2>1. TypeInv /\ NothingIsLost /\ Fed
    BY TypeInit, LossInit, FedInit
  <2>2. Posted /\ Unrefused
    BY DEF Init, Posted, Unrefused
  <2>3. LettersOf(<<>>) = <<>> /\ WordsOf(<<>>) = <<>>
    BY LettersConcat, WordsEmpty
  <2>4. LettersOf(prose) = <<>> /\ WordsOf(handled) = <<>> /\ WordsOf(output) = <<>>
        /\ WordsOf(channel) = <<>>
    BY <2>3 DEF Init
  <2>5. Streamed!Init
    BY <2>4 DEF Init, Streamed!Init
  <2>6. Mirrored!Init
    BY <2>4 DEF Init, Mirrored!Init
  <2> QED
    BY <2>1, <2>2, <2>5, <2>6 DEF RelayInv
<1>2. RelayInv /\ [Next]_vars => RelayInv'
  <2> SUFFICES ASSUME RelayInv, [Next]_vars PROVE RelayInv'
    OBVIOUS
  <2>1. TypeInv' /\ NothingIsLost' /\ Posted' /\ Fed'
    BY TypeStep, LossStep, PostedStep, FedStep DEF RelayInv
  <2>2. Unrefused'
    BY DEF RelayInv, Unrefused, Next, vars, mirror, Prose, Raw, Done, Returns, Speak,
           Listening, Mirror, MirrorNothing, Post, PostFails, Note
  <2> QED
    BY <2>1, <2>2 DEF RelayInv
<1>3. RelayInv /\ RelayInv' /\ [Next]_vars => [Streamed!Next]_(Streamed!vars)
  BY StreamedStep
<1>4. RelayInv /\ RelayInv' /\ [Next]_vars => [Mirrored!Next]_(Mirrored!vars)
  BY MirroredStep
<1> QED
  BY <1>1, <1>2, <1>3, <1>4, PTL DEF Spec, WordsAreRelayed, Streamed!Spec, Mirrored!Spec
=============================================================================
