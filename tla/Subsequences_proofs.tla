------------------------ MODULE Subsequences_proofs ------------------------
(***************************************************************************)
(* Induction over numbers and sequences for a set in place of a predicate, *)
(* the existence of functions defined by recursion, and the laws of Kept.  *)
(***************************************************************************)
EXTENDS Subsequences, SequenceTheorems, WellFoundedInduction, TLAPS

LEMMA LessIsWellFounded == IsWellFoundedOn({p \in Nat \X Nat : p[1] < p[2]}, Nat)
<1>1. OpToRel(<, Nat) = {p \in Nat \X Nat : p[1] < p[2]}
  BY DEF OpToRel
<1> QED
  BY <1>1, NatLessThanWellFounded

\* A set of numbers that holds 0 and the successor of each of its members holds all.
LEMMA NumberInduction ==
  ASSUME NEW S, 0 \in S, \A n \in Nat : n \in S => n + 1 \in S
  PROVE  Nat \subseteq S
<1> SUFFICES ASSUME Nat \ S # {} PROVE FALSE
  OBVIOUS
<1> DEFINE R == {p \in Nat \X Nat : p[1] < p[2]}
<1>1. PICK n \in Nat \ S : \A m \in Nat \ S : ~ (<<m, n>> \in R)
  BY LessIsWellFounded, WFMin
<1>2. n # 0 /\ n - 1 \in Nat /\ (n - 1) + 1 = n
  BY <1>1
<1>3. <<n - 1, n>> \in R
  BY <1>2
<1>4. n - 1 \in S
  BY <1>1, <1>2, <1>3
<1> QED
  BY <1>1, <1>2, <1>4

\* The same up to a number.
LEMMA InductionUpTo ==
  ASSUME NEW n \in Nat, NEW S, 0 \in S, \A i \in 1..n : i - 1 \in S => i \in S
  PROVE  0..n \subseteq S
<1> DEFINE T == {m \in Nat : m \in 0..n => m \in S}
<1>1. 0 \in T
  OBVIOUS
<1>2. ASSUME NEW m \in Nat, m \in T PROVE m + 1 \in T
  <2>1. m + 1 \in 0..n => m + 1 \in 1..n /\ (m + 1) - 1 = m /\ m \in 0..n
    OBVIOUS
  <2> QED
    BY <1>2, <2>1
<1>3. Nat \subseteq T
  <2> HIDE DEF T
  <2> QED
    BY <1>1, <1>2, NumberInduction
<1> QED
  BY <1>3

\* The same for sequences, one element more at the end.
LEMMA SequenceInduction ==
  ASSUME NEW T, NEW S, <<>> \in S,
         \A s \in Seq(T), e \in T : s \in S => Append(s, e) \in S
  PROVE  Seq(T) \subseteq S
<1> DEFINE L == {n \in Nat : \A s \in Seq(T) : Len(s) = n => s \in S}
<1>1. 0 \in L
  <2>1. \A s \in Seq(T) : Len(s) = 0 => s = <<>>
    BY EmptySeq
  <2> QED
    BY <2>1
<1>2. ASSUME NEW n \in Nat, n \in L PROVE n + 1 \in L
  <2> SUFFICES ASSUME NEW s \in Seq(T), Len(s) = n + 1 PROVE s \in S
    OBVIOUS
  <2>1. s # <<>>
    BY EmptySeq
  <2>2. PICK t \in Seq(T), e \in T : s = Append(t, e)
    BY <2>1, SequenceEmptyOrAppend
  <2>3. Len(t) = n
    BY <2>2, AppendProperties, LenProperties
  <2> QED
    BY <1>2, <2>2, <2>3
<1>3. Nat \subseteq L
  <2> HIDE DEF L
  <2> QED
    BY <1>1, <1>2, NumberInduction
<1> QED
  BY <1>3, LenProperties

-----------------------------------------------------------------------------
(* A function whose value at i is made of i and its value at i - 1.        *)

Iterates(f, n, X, base, next) ==
  /\ f \in [0..n -> X]
  /\ f = [i \in 0..n |-> IF i = 0 THEN base ELSE next[i][f[i - 1]]]

LEMMA RecursionDefined ==
  ASSUME NEW n \in Nat, NEW X, NEW base \in X, NEW next \in [1..n -> [X -> X]]
  PROVE  \E f : Iterates(f, n, X, base, next)
<1> DEFINE Body(f, m) == [i \in 0..m |-> IF i = 0 THEN base ELSE next[i][f[i - 1]]]
           S == {m \in 0..n : \E f \in [0..m -> X] : f = Body(f, m)}
<1>1. 0 \in S
  <2> DEFINE f == [i \in 0..0 |-> base]
  <2>1. f \in [0..0 -> X] /\ f = Body(f, 0)
    OBVIOUS
  <2>2. \E h \in [0..0 -> X] : h = Body(h, 0)
    <3> HIDE DEF f, Body
    <3> QED
      BY <2>1
  <2> QED
    BY <2>2
<1>2. ASSUME NEW m \in 1..n, m - 1 \in S PROVE m \in S
  <2>1. PICK f \in [0..(m - 1) -> X] : f = Body(f, m - 1)
    BY <1>2
  <2> DEFINE g == [i \in 0..m |-> IF i = m THEN next[m][f[m - 1]] ELSE f[i]]
  <2>2. m - 1 \in 0..(m - 1) /\ f[m - 1] \in X
    OBVIOUS
  <2>3. g \in [0..m -> X]
    <3>1. next[m][f[m - 1]] \in X
      BY <2>2
    <3>2. \A i \in 0..m : i # m => i \in 0..(m - 1)
      OBVIOUS
    <3> QED
      BY <3>1, <3>2
  <2>4. ASSUME NEW i \in 0..m
        PROVE  g[i] = IF i = 0 THEN base ELSE next[i][g[i - 1]]
    <3>1. CASE i = m
      <4>1. m - 1 \in 0..m /\ m - 1 # m /\ m # 0
        OBVIOUS
      <4>2. g[m - 1] = f[m - 1]
        BY <4>1
      <4> QED
        BY <3>1, <4>1, <4>2
    <3>2. CASE i # m
      <4>1. i \in 0..(m - 1)
        BY <3>2
      <4>2. g[i] = f[i] /\ f[i] = IF i = 0 THEN base ELSE next[i][f[i - 1]]
        BY <2>1, <3>2, <4>1
      <4>3. i # 0 => i - 1 \in 0..m /\ i - 1 # m
        BY <3>2
      <4>4. i # 0 => g[i - 1] = f[i - 1]
        BY <4>3
      <4> QED
        BY <4>2, <4>4
    <3> QED
      BY <3>1, <3>2
  <2>5. g = Body(g, m)
    BY <2>4
  <2>6. \E h \in [0..m -> X] : h = Body(h, m)
    <3> HIDE DEF g, Body
    <3> QED
      BY <2>3, <2>5
  <2>7. m \in 0..n
    OBVIOUS
  <2> QED
    <3> HIDE DEF Body
    <3> QED
      BY <2>6, <2>7
<1>3. n \in S
  <2> HIDE DEF S
  <2>1. 0..n \subseteq S
    BY <1>1, <1>2, InductionUpTo
  <2> QED
    BY <2>1
<1>4. PICK f \in [0..n -> X] : f = Body(f, n)
  BY <1>3
<1> QED
  BY <1>4 DEF Iterates

\* Two functions that begin alike and go on alike agree.
LEMMA RecursionUnique ==
  ASSUME NEW n \in Nat, NEW f, NEW g, f[0] = g[0],
         \A i \in 1..n : f[i - 1] = g[i - 1] => f[i] = g[i]
  PROVE  \A i \in 0..n : f[i] = g[i]
<1> DEFINE S == {i \in 0..n : f[i] = g[i]}
<1>1. 0 \in S
  OBVIOUS
<1>2. \A i \in 1..n : i - 1 \in S => i \in S
  OBVIOUS
<1>3. 0..n \subseteq S
  <2> HIDE DEF S
  <2> QED
    BY <1>1, <1>2, InductionUpTo
<1> QED
  BY <1>3

-----------------------------------------------------------------------------
(* Kept.                                                                   *)

\* The prefixes of s, each with its elements in A.
KeptUpTo(k, s, A) ==
  k = [i \in 0..Len(s) |->
         IF i = 0 THEN <<>>
         ELSE IF s[i] \in A THEN Append(k[i - 1], s[i]) ELSE k[i - 1]]

KeptBy(k, T, s, A) ==
  k \in [0..Len(s) -> Seq(T \cap A)] /\ KeptUpTo(k, s, A) /\ Kept(s, A) = k[Len(s)]

LEMMA KeptDefined ==
  ASSUME NEW T, NEW A, NEW s \in Seq(T)
  PROVE  \E k : KeptBy(k, T, s, A)
<1> DEFINE X == Seq(T \cap A)
           n == Len(s)
           next == [i \in 1..n |-> [t \in X |-> IF s[i] \in A THEN Append(t, s[i]) ELSE t]]
<1>1. n \in Nat /\ <<>> \in X
  OBVIOUS
<1>2. next \in [1..n -> [X -> X]]
  <2> SUFFICES ASSUME NEW i \in 1..n, NEW t \in X
               PROVE  (IF s[i] \in A THEN Append(t, s[i]) ELSE t) \in X
    OBVIOUS
  <2>1. s[i] \in T
    OBVIOUS
  <2>2. s[i] \in A => Append(t, s[i]) \in X
    BY <2>1
  <2> QED
    BY <2>2
<1>3. PICK f : Iterates(f, n, X, <<>>, next)
  <2>1. n \in Nat
    BY <1>1
  <2>2. <<>> \in X
    BY <1>1
  <2> HIDE DEF X, n, next
  <2> QED
    BY <1>2, <2>1, <2>2, RecursionDefined
<1>4. ASSUME NEW i \in 0..Len(s)
      PROVE  f[i] = IF i = 0 THEN <<>>
                    ELSE IF s[i] \in A THEN Append(f[i - 1], s[i]) ELSE f[i - 1]
  <2>1. i # 0 => i \in 1..n /\ i - 1 \in 0..n
    OBVIOUS
  <2>2. i # 0 => f[i - 1] \in X
    BY <1>3, <2>1 DEF Iterates
  <2>3. f[i] = IF i = 0 THEN <<>> ELSE next[i][f[i - 1]]
    BY <1>3 DEF Iterates
  <2> QED
    BY <2>1, <2>2, <2>3
<1>5. KeptUpTo(f, s, A)
  BY <1>3, <1>4 DEF KeptUpTo, Iterates
<1>6. PICK k : KeptUpTo(k, s, A) /\ Kept(s, A) = k[Len(s)]
  BY <1>5 DEF Kept, KeptUpTo
<1>7. \A i \in 0..Len(s) : k[i] = f[i]
  <2>1. k[0] = f[0]
    BY <1>1, <1>5, <1>6 DEF KeptUpTo
  <2>2. ASSUME NEW i \in 1..Len(s), k[i - 1] = f[i - 1] PROVE k[i] = f[i]
    <3>1. i \in 0..Len(s) /\ i # 0
      OBVIOUS
    <3> QED
      BY <1>5, <1>6, <2>2, <3>1 DEF KeptUpTo
  <2> QED
    BY <1>1, <2>1, <2>2, RecursionUnique
<1>8. k = f
  BY <1>5, <1>6, <1>7 DEF KeptUpTo
<1>9. k \in [0..Len(s) -> X]
  BY <1>3, <1>8 DEF Iterates
<1> QED
  BY <1>6, <1>9 DEF KeptBy

\* What is kept are elements of the sequence and of the set.
LEMMA KeptType ==
  ASSUME NEW T, NEW A, NEW s \in Seq(T)
  PROVE  Kept(s, A) \in Seq(T \cap A)
<1>1. PICK k : KeptBy(k, T, s, A)
  BY KeptDefined
<1> QED
  BY <1>1, LenProperties DEF KeptBy

LEMMA KeptEmpty == \A A : Kept(<<>>, A) = <<>>
<1> TAKE A
<1>1. <<>> \in Seq({})
  OBVIOUS
<1>2. Kept(<<>>, A) \in Seq({} \cap A)
  BY <1>1, KeptType
<1> QED
  BY <1>2

\* One element more.
LEMMA KeptAppend ==
  ASSUME NEW T, NEW A, NEW s \in Seq(T), NEW e \in T
  PROVE  Kept(Append(s, e), A) = IF e \in A THEN Append(Kept(s, A), e) ELSE Kept(s, A)
<1> DEFINE t == Append(s, e)
           n == Len(s)
<1>1. /\ t \in Seq(T) /\ Len(t) = n + 1 /\ n \in Nat
      /\ \A i \in 1..n : t[i] = s[i]
      /\ t[n + 1] = e
  BY AppendProperties, LenProperties
<1>2. PICK k : KeptBy(k, T, s, A)
  BY KeptDefined
<1> HIDE DEF t
<1>3. PICK l : KeptBy(l, T, t, A)
  BY <1>1, KeptDefined
<1>4. \A i \in 0..n + 1 : l[i] = IF i = 0 THEN <<>>
        ELSE IF t[i] \in A THEN Append(l[i - 1], t[i]) ELSE l[i - 1]
  BY <1>1, <1>3 DEF KeptUpTo, KeptBy
<1>5. \A i \in 0..n : k[i] = IF i = 0 THEN <<>>
        ELSE IF s[i] \in A THEN Append(k[i - 1], s[i]) ELSE k[i - 1]
  BY <1>2 DEF KeptUpTo, KeptBy
<1>6. k[0] = l[0]
  BY <1>1, <1>4, <1>5
<1>7. ASSUME NEW i \in 1..n, k[i - 1] = l[i - 1] PROVE k[i] = l[i]
  <2>1. /\ i \in 0..n + 1 /\ i \in 0..n /\ i # 0
        /\ t[i] = s[i]
    BY <1>1
  <2> QED
    BY <1>4, <1>5, <1>7, <2>1
<1>8. \A i \in 0..n : k[i] = l[i]
  <2>1. n \in Nat
    BY <1>1
  <2>2. \A i \in 1..n : k[i - 1] = l[i - 1] => k[i] = l[i]
    BY <1>7
  <2> HIDE DEF n
  <2> QED
    BY <1>6, <2>1, <2>2, RecursionUnique
<1>9. n \in 0..n /\ n + 1 \in 0..n + 1 /\ n + 1 # 0 /\ (n + 1) - 1 = n
  BY <1>1
<1>10. Kept(t, A) = IF e \in A THEN Append(k[n], e) ELSE k[n]
  BY <1>1, <1>3, <1>4, <1>8, <1>9 DEF KeptBy
<1> QED
  BY <1>2, <1>10 DEF t, KeptBy

LEMMA SeqAssociate ==
  \A T : \A r, s, t \in Seq(T) : (r \o s) \o t = r \o (s \o t)
BY ConcatAssociative

LEMMA ConcatAppend ==
  ASSUME NEW T, NEW s \in Seq(T), NEW t \in Seq(T), NEW e \in T
  PROVE  s \o Append(t, e) = Append(s \o t, e)
OBVIOUS

\* Two sequences one after the other.
LEMMA KeptConcat ==
  ASSUME NEW T, NEW A, NEW s \in Seq(T), NEW t \in Seq(T)
  PROVE  Kept(s \o t, A) = Kept(s, A) \o Kept(t, A)
<1> DEFINE S == {u \in Seq(T) : Kept(s \o u, A) = Kept(s, A) \o Kept(u, A)}
<1>1. <<>> \in S
  <2>1. Kept(s, A) \in Seq(T \cap A) /\ s \o <<>> = s /\ Kept(<<>>, A) = <<>>
    BY KeptType, KeptEmpty, ConcatEmptySeq
  <2>2. Kept(s, A) \o <<>> = Kept(s, A)
    BY <2>1, ConcatEmptySeq
  <2> QED
    BY <2>1, <2>2
<1>2. ASSUME NEW u \in Seq(T), NEW e \in T, u \in S PROVE Append(u, e) \in S
  <2>1. s \o Append(u, e) = Append(s \o u, e) /\ s \o u \in Seq(T) /\ Append(u, e) \in Seq(T)
    OBVIOUS
  <2> DEFINE B == T \cap A
  <2>2. Kept(s, A) \in Seq(B) /\ Kept(u, A) \in Seq(B)
    BY KeptType
  <2>3. Kept(Append(u, e), A) = IF e \in A THEN Append(Kept(u, A), e) ELSE Kept(u, A)
    BY KeptAppend
  <2>4. Kept(Append(s \o u, e), A) =
          IF e \in A THEN Append(Kept(s \o u, A), e) ELSE Kept(s \o u, A)
    <3>1. \A v \in Seq(T) :
            Kept(Append(v, e), A) = IF e \in A THEN Append(Kept(v, A), e) ELSE Kept(v, A)
      BY KeptAppend
    <3> QED
      BY <2>1, <3>1
  <2>5. ASSUME e \in A
        PROVE  Kept(s, A) \o Append(Kept(u, A), e) = Append(Kept(s, A) \o Kept(u, A), e)
    <3>1. e \in B
      BY <2>5
    <3> HIDE DEF B
    <3> QED
      BY <2>2, <3>1, ConcatAppend
  <2> QED
    BY <1>2, <2>1, <2>3, <2>4, <2>5
<1>3. Seq(T) \subseteq S
  <2> HIDE DEF S
  <2> QED
    BY <1>1, <1>2, SequenceInduction
<1> QED
  BY <1>3

LEMMA KeptSingle ==
  ASSUME NEW T, NEW A, NEW e \in T
  PROVE  Kept(<<e>>, A) = IF e \in A THEN <<e>> ELSE <<>>
<1>1. <<>> \in Seq(T) /\ Append(<<>>, e) = <<e>>
  OBVIOUS
<1>2. Kept(Append(<<>>, e), A) = IF e \in A THEN Append(Kept(<<>>, A), e) ELSE Kept(<<>>, A)
  <2>1. \A t \in Seq(T) :
          Kept(Append(t, e), A) = IF e \in A THEN Append(Kept(t, A), e) ELSE Kept(t, A)
    BY KeptAppend
  <2> QED
    BY <1>1, <2>1
<1> QED
  BY <1>1, <1>2, KeptEmpty

\* The head and the rest.
LEMMA KeptHead ==
  ASSUME NEW T, NEW A, NEW s \in Seq(T), s # <<>>
  PROVE  Kept(s, A) = (IF Head(s) \in A THEN <<Head(s)>> ELSE <<>>) \o Kept(Tail(s), A)
<1>1. Head(s) \in T /\ Tail(s) \in Seq(T) /\ <<Head(s)>> \in Seq(T)
  OBVIOUS
<1>2. <<Head(s)>> \o Tail(s) = s
  OBVIOUS
<1>3. Kept(<<Head(s)>> \o Tail(s), A) = Kept(<<Head(s)>>, A) \o Kept(Tail(s), A)
  BY <1>1, KeptConcat
<1>4. Kept(<<Head(s)>>, A) = IF Head(s) \in A THEN <<Head(s)>> ELSE <<>>
  BY <1>1, KeptSingle
<1> QED
  BY <1>2, <1>3, <1>4

=============================================================================
