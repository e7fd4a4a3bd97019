-------------------------- MODULE Protocol_proofs --------------------------
(***************************************************************************)
(* What is put together is taken apart again: split_buffer finds in the    *)
(* text of a command the fields that were joined, whatever they are, as    *)
(* long as no separator occurs in them; and no text is lost in its fields. *)
(***************************************************************************)
EXTENDS Protocol, Subsequences_proofs

USE TokenAssumption

Char == Token \cup Word
Field == Seq(Char \ {Sep})     \* fields that hold no separator

LEMMA TextIsSeq == Text = Seq(Char) /\ Field \subseteq Text /\ <<>> \in Field
BY SeqMonotonic DEF Text, Field, Char

LEMMA TextAppend ==
  \A t \in Text, c \in Char : Append(t, c) \in Text
BY DEF Text, Char

LEMMA TextConcat ==
  \A t, u \in Text : t \o u \in Text
BY DEF Text

LEMMA TextConcatAppend ==
  \A t, u \in Text, c \in Char : t \o Append(u, c) = Append(t \o u, c)
BY ConcatAppend DEF Text, Char

LEMMA TextAssociate ==
  \A t, u, v \in Text : (t \o u) \o v = t \o (u \o v)
BY SeqAssociate DEF Text

-----------------------------------------------------------------------------
(* split_buffer, one character at a time.                                  *)

Fields == Seq(Text) \ {<<>>}

LEMMA TakenType == \A fs \in Fields, c \in Char : Taken(fs, c) \in Fields
<1> SUFFICES ASSUME NEW fs \in Fields, NEW c \in Char PROVE Taken(fs, c) \in Fields
  OBVIOUS
<1>1. fs \in Seq(Text) /\ Len(fs) \in 1..Len(fs) /\ Len(fs) \in Nat
  BY EmptySeq DEF Fields
<1>2. CASE c = Sep
  <2>1. <<>> \in Text
    BY TextIsSeq
  <2>2. Append(fs, <<>>) \in Seq(Text) /\ Append(fs, <<>>) # <<>>
    BY <1>1, <2>1, AppendProperties
  <2> QED
    BY <1>2, <2>2 DEF Taken, Fields
<1>3. CASE c # Sep
  <2>1. fs[Len(fs)] \in Text
    BY <1>1, ElementOfSeq
  <2>2. Append(fs[Len(fs)], c) \in Text
    BY <2>1, TextAppend
  <2>3. WithChar(fs, c) = [fs EXCEPT ![Len(fs)] = Append(fs[Len(fs)], c)]
    BY DEF WithChar
  <2>4. WithChar(fs, c) \in Seq(Text) /\ Len(WithChar(fs, c)) = Len(fs)
    BY <1>1, <2>2, <2>3, ExceptSeq
  <2>5. WithChar(fs, c) # <<>>
    BY <1>1, <2>4, EmptySeq
  <2> QED
    BY <1>3, <2>4, <2>5 DEF Taken, Fields
<1> QED
  BY <1>2, <1>3

SplitUpTo(k, text) ==
  k = [i \in 0..Len(text) |-> IF i = 0 THEN <<<<>>>> ELSE Taken(k[i - 1], text[i])]

SplitBy(k, text) ==
  k \in [0..Len(text) -> Fields] /\ SplitUpTo(k, text) /\ Split(text) = k[Len(text)]

LEMMA SplitDefined == ASSUME NEW text \in Text PROVE \E k : SplitBy(k, text)
<1> DEFINE n == Len(text)
           next == [i \in 1..n |-> [fs \in Fields |-> Taken(fs, text[i])]]
<1>1. text \in Seq(Char) /\ n \in Nat
  BY TextIsSeq
<1>2. next \in [1..n -> [Fields -> Fields]]
  <2>1. ASSUME NEW i \in 1..n, NEW fs \in Fields PROVE Taken(fs, text[i]) \in Fields
    <3>1. text[i] \in Char
      BY <1>1, ElementOfSeq
    <3> QED
      BY <3>1, TakenType
  <2> QED
    BY <2>1
<1>3. <<<<>>>> \in Fields
  <2>1. <<>> \in Text
    BY TextIsSeq
  <2> QED
    BY <2>1 DEF Fields
<1>4. PICK f : Iterates(f, n, Fields, <<<<>>>>, next)
  <2>1. n \in Nat
    BY <1>1
  <2> HIDE DEF n, next
  <2> QED
    BY <1>2, <1>3, <2>1, RecursionDefined
<1>5. ASSUME NEW i \in 0..n
      PROVE  f[i] = IF i = 0 THEN <<<<>>>> ELSE Taken(f[i - 1], text[i])
  <2>1. i # 0 => i \in 1..n /\ i - 1 \in 0..n
    BY <1>1
  <2>2. i # 0 => f[i - 1] \in Fields
    BY <1>4, <2>1 DEF Iterates
  <2>3. f[i] = IF i = 0 THEN <<<<>>>> ELSE next[i][f[i - 1]]
    BY <1>4 DEF Iterates
  <2> QED
    BY <2>1, <2>2, <2>3
<1>6. SplitUpTo(f, text)
  BY <1>4, <1>5 DEF SplitUpTo, Iterates
<1>7. PICK k : SplitUpTo(k, text) /\ Split(text) = k[Len(text)]
  BY <1>6 DEF Split, SplitUpTo
<1>8. \A i \in 0..Len(text) : k[i] = f[i]
  <2>1. k[0] = f[0]
    BY <1>1, <1>6, <1>7 DEF SplitUpTo
  <2>2. ASSUME NEW i \in 1..n, k[i - 1] = f[i - 1] PROVE k[i] = f[i]
    <3>1. i \in 0..Len(text) /\ i # 0
      BY <1>1
    <3> QED
      BY <1>6, <1>7, <2>2, <3>1 DEF SplitUpTo
  <2>3. n \in Nat /\ \A i \in 1..n : k[i - 1] = f[i - 1] => k[i] = f[i]
    BY <1>1, <2>2
  <2>4. \A i \in 0..n : k[i] = f[i]
    <3> HIDE DEF n
    <3> QED
      BY <2>1, <2>3, RecursionUnique
  <2> QED
    BY <2>4
<1>9. k = f
  BY <1>6, <1>7, <1>8 DEF SplitUpTo
<1>10. k \in [0..Len(text) -> Fields]
  BY <1>4, <1>9 DEF Iterates
<1> QED
  BY <1>7, <1>10 DEF SplitBy

LEMMA SplitType == \A text \in Text : Split(text) \in Fields
<1> TAKE text \in Text
<1>1. PICK k : SplitBy(k, text)
  BY SplitDefined
<1>2. Len(text) \in 0..Len(text)
  BY TextIsSeq, LenProperties
<1> QED
  BY <1>1, <1>2 DEF SplitBy

LEMMA SplitEmpty == Split(<<>>) = <<<<>>>>
<1>1. <<>> \in Text /\ Len(<<>>) = 0
  BY TextIsSeq
<1>2. PICK k : SplitBy(k, <<>>)
  BY <1>1, SplitDefined
<1> QED
  BY <1>1, <1>2 DEF SplitBy, SplitUpTo

LEMMA SplitAppend ==
  \A text \in Text, c \in Char : Split(Append(text, c)) = Taken(Split(text), c)
<1> SUFFICES ASSUME NEW text \in Text, NEW c \in Char
             PROVE  Split(Append(text, c)) = Taken(Split(text), c)
  OBVIOUS
<1> DEFINE t == Append(text, c)
           n == Len(text)
<1>1. /\ t \in Text /\ Len(t) = n + 1 /\ n \in Nat
      /\ \A i \in 1..n : t[i] = text[i]
      /\ t[n + 1] = c
  <2>1. text \in Seq(Char)
    BY TextIsSeq
  <2> QED
    BY <2>1, TextAppend, AppendProperties, LenProperties
<1>2. PICK k : SplitBy(k, text)
  BY SplitDefined
<1> HIDE DEF t
<1>3. PICK l : SplitBy(l, t)
  BY <1>1, SplitDefined
<1>4. \A i \in 0..n + 1 : l[i] = IF i = 0 THEN <<<<>>>> ELSE Taken(l[i - 1], t[i])
  BY <1>1, <1>3 DEF SplitBy, SplitUpTo
<1>5. \A i \in 0..n : k[i] = IF i = 0 THEN <<<<>>>> ELSE Taken(k[i - 1], text[i])
  BY <1>2 DEF SplitBy, SplitUpTo
<1>6. k[0] = l[0]
  BY <1>1, <1>4, <1>5
<1>7. ASSUME NEW i \in 1..n, k[i - 1] = l[i - 1] PROVE k[i] = l[i]
  <2>1. i \in 0..n + 1 /\ i \in 0..n /\ i # 0 /\ t[i] = text[i]
    BY <1>1
  <2> QED
    BY <1>4, <1>5, <1>7, <2>1
<1>8. \A i \in 0..n : k[i] = l[i]
  <2>1. n \in Nat
    BY <1>1
  <2>2. \A i \in 1..n : k[i - 1] = l[i - 1] => k[i] = l[i]
    BY <1>7
  <2> HIDE DEF n
  <2> QED
    BY <1>6, <2>1, <2>2, RecursionUnique
<1>9. n \in 0..n /\ n + 1 \in 0..n + 1 /\ n + 1 # 0 /\ (n + 1) - 1 = n
  BY <1>1
<1>10. Split(t) = Taken(k[n], c)
  BY <1>1, <1>3, <1>4, <1>8, <1>9 DEF SplitBy
<1> QED
  BY <1>2, <1>10 DEF t, SplitBy

-----------------------------------------------------------------------------
(* The command's text, one field at a time.                                *)

Joined(text, fs, i) == IF i = 1 THEN fs[1] ELSE (text \o <<Sep>>) \o fs[i]

LEMMA SepText == <<Sep>> \in Text /\ Sep \in Char
BY DEF Text, Char

LEMMA JoinedType ==
  \A text \in Text, fs \in Seq(Text) : \A i \in 1..Len(fs) : Joined(text, fs, i) \in Text
<1> SUFFICES ASSUME NEW text \in Text, NEW fs \in Seq(Text), NEW i \in 1..Len(fs)
             PROVE  Joined(text, fs, i) \in Text
  OBVIOUS
<1>1. fs[i] \in Text
  BY ElementOfSeq
<1>2. (text \o <<Sep>>) \o fs[i] \in Text
  BY <1>1, SepText, TextConcat
<1> QED
  BY <1>1, <1>2 DEF Joined

JoinUpTo(k, fs) ==
  k = [i \in 0..Len(fs) |-> IF i = 0 THEN <<>> ELSE Joined(k[i - 1], fs, i)]

JoinBy(k, fs) ==
  k \in [0..Len(fs) -> Text] /\ JoinUpTo(k, fs) /\ Join(fs) = k[Len(fs)]

LEMMA JoinDefined == ASSUME NEW fs \in Seq(Text) PROVE \E k : JoinBy(k, fs)
<1> DEFINE n == Len(fs)
           next == [i \in 1..n |-> [text \in Text |-> Joined(text, fs, i)]]
<1>1. n \in Nat /\ <<>> \in Text
  BY TextIsSeq, LenProperties
<1>2. next \in [1..n -> [Text -> Text]]
  BY JoinedType
<1>3. PICK f : Iterates(f, n, Text, <<>>, next)
  <2>1. n \in Nat
    BY <1>1
  <2>2. <<>> \in Text
    BY <1>1
  <2> HIDE DEF n, next
  <2> QED
    BY <1>2, <2>1, <2>2, RecursionDefined
<1>4. ASSUME NEW i \in 0..n PROVE f[i] = IF i = 0 THEN <<>> ELSE Joined(f[i - 1], fs, i)
  <2>1. i # 0 => i \in 1..n /\ i - 1 \in 0..n
    BY <1>1
  <2>2. i # 0 => f[i - 1] \in Text
    BY <1>3, <2>1 DEF Iterates
  <2>3. f[i] = IF i = 0 THEN <<>> ELSE next[i][f[i - 1]]
    BY <1>3 DEF Iterates
  <2> QED
    BY <2>1, <2>2, <2>3
<1>5. JoinUpTo(f, fs)
  BY <1>3, <1>4 DEF JoinUpTo, Iterates
<1>6. PICK k : JoinUpTo(k, fs) /\ Join(fs) = k[Len(fs)]
  BY <1>5 DEF Join, JoinUpTo, Joined
<1>7. \A i \in 0..Len(fs) : k[i] = f[i]
  <2>1. k[0] = f[0]
    BY <1>1, <1>5, <1>6 DEF JoinUpTo
  <2>2. ASSUME NEW i \in 1..n, k[i - 1] = f[i - 1] PROVE k[i] = f[i]
    <3>1. i \in 0..Len(fs) /\ i # 0
      BY <1>1
    <3> QED
      BY <1>5, <1>6, <2>2, <3>1 DEF JoinUpTo
  <2>3. n \in Nat /\ \A i \in 1..n : k[i - 1] = f[i - 1] => k[i] = f[i]
    BY <1>1, <2>2
  <2>4. \A i \in 0..n : k[i] = f[i]
    <3> HIDE DEF n
    <3> QED
      BY <2>1, <2>3, RecursionUnique
  <2> QED
    BY <2>4
<1>8. k = f
  BY <1>5, <1>6, <1>7 DEF JoinUpTo
<1>9. k \in [0..Len(fs) -> Text]
  BY <1>3, <1>8 DEF Iterates
<1> QED
  BY <1>6, <1>9 DEF JoinBy

LEMMA JoinType == \A fs \in Seq(Text) : Join(fs) \in Text
<1> TAKE fs \in Seq(Text)
<1>1. PICK k : JoinBy(k, fs)
  BY JoinDefined
<1>2. Len(fs) \in 0..Len(fs)
  BY LenProperties
<1> QED
  BY <1>1, <1>2 DEF JoinBy

LEMMA JoinAppend ==
  \A fs \in Seq(Text), f \in Text :
    Join(Append(fs, f)) = IF fs = <<>> THEN f ELSE (Join(fs) \o <<Sep>>) \o f
<1> SUFFICES ASSUME NEW fs \in Seq(Text), NEW f \in Text
             PROVE  Join(Append(fs, f)) = IF fs = <<>> THEN f ELSE (Join(fs) \o <<Sep>>) \o f
  OBVIOUS
<1> DEFINE g == Append(fs, f)
           n == Len(fs)
<1>1. /\ g \in Seq(Text) /\ Len(g) = n + 1 /\ n \in Nat
      /\ \A i \in 1..n : g[i] = fs[i]
      /\ g[n + 1] = f
  BY AppendProperties, LenProperties
<1>2. PICK k : JoinBy(k, fs)
  BY JoinDefined
<1> HIDE DEF g
<1>3. PICK l : JoinBy(l, g)
  BY <1>1, JoinDefined
<1>4. \A i \in 0..n + 1 : l[i] = IF i = 0 THEN <<>> ELSE Joined(l[i - 1], g, i)
  BY <1>1, <1>3 DEF JoinBy, JoinUpTo
<1>5. \A i \in 0..n : k[i] = IF i = 0 THEN <<>> ELSE Joined(k[i - 1], fs, i)
  BY <1>2 DEF JoinBy, JoinUpTo
<1>6. k[0] = l[0]
  BY <1>1, <1>4, <1>5
<1>7. ASSUME NEW i \in 1..n, k[i - 1] = l[i - 1] PROVE k[i] = l[i]
  <2>1. i \in 0..n + 1 /\ i \in 0..n /\ i # 0 /\ g[i] = fs[i] /\ g[1] = fs[1]
    BY <1>1
  <2>2. Joined(k[i - 1], fs, i) = Joined(l[i - 1], g, i)
    BY <1>7, <2>1 DEF Joined
  <2> QED
    BY <1>4, <1>5, <2>1, <2>2
<1>8. \A i \in 0..n : k[i] = l[i]
  <2>1. n \in Nat
    BY <1>1
  <2>2. \A i \in 1..n : k[i - 1] = l[i - 1] => k[i] = l[i]
    BY <1>7
  <2> HIDE DEF n
  <2> QED
    BY <1>6, <2>1, <2>2, RecursionUnique
<1>9. n \in 0..n /\ n + 1 \in 0..n + 1 /\ n + 1 # 0 /\ (n + 1) - 1 = n
  BY <1>1
<1>10. Join(g) = Joined(k[n], g, n + 1)
  BY <1>1, <1>3, <1>4, <1>8, <1>9 DEF JoinBy
<1>11. n = 0 <=> fs = <<>>
  BY EmptySeq
<1>12. Joined(k[n], g, n + 1) = IF n = 0 THEN f ELSE (k[n] \o <<Sep>>) \o f
  BY <1>1 DEF Joined
<1> QED
  BY <1>2, <1>10, <1>11, <1>12 DEF g, JoinBy

-----------------------------------------------------------------------------
(* There and back.                                                         *)

WithWord(fs, w) == [fs EXCEPT ![Len(fs)] = fs[Len(fs)] \o w]

\* Text without a separator goes to the end of the last field.
LEMMA SplitConcat ==
  \A text \in Text, w \in Field : Split(text \o w) = WithWord(Split(text), w)
<1> SUFFICES ASSUME NEW text \in Text
             PROVE  \A w \in Field : Split(text \o w) = WithWord(Split(text), w)
  OBVIOUS
<1> DEFINE S == {w \in Field : Split(text \o w) = WithWord(Split(text), w)}
<1>0. /\ Split(text) \in Seq(Text) /\ Len(Split(text)) \in 1..Len(Split(text))
      /\ Split(text)[Len(Split(text))] \in Text
  <2>1. Split(text) \in Seq(Text) /\ Split(text) # <<>>
    BY SplitType DEF Fields
  <2>2. Len(Split(text)) \in 1..Len(Split(text))
    BY <2>1, EmptySeq
  <2> QED
    BY <2>1, <2>2, ElementOfSeq
<1>1. <<>> \in S
  <2>1. text \o <<>> = text
    BY DEF Text
  <2>2. Split(text)[Len(Split(text))] \o <<>> = Split(text)[Len(Split(text))]
    BY <1>0 DEF Text
  <2>3. WithWord(Split(text), <<>>) = Split(text)
    BY <1>0, <2>2 DEF WithWord
  <2> QED
    BY <2>1, <2>3, TextIsSeq
<1>2. ASSUME NEW w \in Seq(Char \ {Sep}), NEW c \in Char \ {Sep}, w \in S
      PROVE  Append(w, c) \in S
  <2> DEFINE fs == Split(text)
             n == Len(fs)
  <2>1. w \in Text /\ Append(w, c) \in Field
    BY TextIsSeq DEF Field
  <2>2. text \o Append(w, c) = Append(text \o w, c) /\ text \o w \in Text
    BY <2>1 DEF Text, Char
  <2>3. Split(text \o Append(w, c)) = Taken(WithWord(fs, w), c)
    BY <1>2, <2>2, SplitAppend
  <2>4. Taken(WithWord(fs, w), c) = WithChar(WithWord(fs, w), c)
    BY DEF Taken
  <2>5. fs[n] \o w \in Text /\ fs[n] \o Append(w, c) = Append(fs[n] \o w, c)
    <3>1. fs[n] \in Text
      BY <1>0
    <3> HIDE DEF fs, n
    <3> QED
      BY <2>1, <3>1, TextConcat, TextConcatAppend
  <2>6. /\ Len(WithWord(fs, w)) = n
        /\ WithWord(fs, w)[n] = fs[n] \o w
    BY <1>0, <2>5, ExceptSeq DEF WithWord
  <2>7. WithChar(WithWord(fs, w), c) = [WithWord(fs, w) EXCEPT ![n] = Append(fs[n] \o w, c)]
    BY <2>6 DEF WithChar
  <2>8. [WithWord(fs, w) EXCEPT ![n] = Append(fs[n] \o w, c)]
          = [fs EXCEPT ![n] = Append(fs[n] \o w, c)]
    BY <1>0 DEF WithWord
  <2>9. Split(text \o Append(w, c)) = WithWord(fs, Append(w, c))
    BY <2>3, <2>4, <2>5, <2>7, <2>8 DEF WithWord
  <2> QED
    BY <2>1, <2>9
<1>3. Seq(Char \ {Sep}) \subseteq S
  <2> HIDE DEF S
  <2> QED
    BY <1>1, <1>2, SequenceInduction
<1> QED
  BY <1>3 DEF Field

\* A separator and a field begin the next one.
LEMMA SplitNext ==
  \A text \in Text, w \in Field :
    Split((text \o <<Sep>>) \o w) = Append(Split(text), w)
<1> SUFFICES ASSUME NEW text \in Text, NEW w \in Field
             PROVE  Split((text \o <<Sep>>) \o w) = Append(Split(text), w)
  OBVIOUS
<1> DEFINE fs == Split(text)
<1>1. fs \in Seq(Text) /\ Len(fs) \in Nat
  BY SplitType, LenProperties DEF Fields
<1>2. text \o <<Sep>> = Append(text, Sep) /\ text \o <<Sep>> \in Text
  BY SepText, TextConcat DEF Text
<1>3. Split(text \o <<Sep>>) = Append(fs, <<>>)
  BY <1>2, SplitAppend, SepText DEF Taken
<1>4. Split((text \o <<Sep>>) \o w) = WithWord(Append(fs, <<>>), w)
  BY <1>2, <1>3, SplitConcat
<1>5. w \in Text /\ <<>> \o w = w /\ <<>> \in Text
  BY TextIsSeq DEF Text
<1>6. WithWord(Append(fs, <<>>), w) = Append(fs, w)
  <2>1. /\ Append(fs, <<>>) \in Seq(Text) /\ Len(Append(fs, <<>>)) = Len(fs) + 1
        /\ Append(fs, <<>>)[Len(fs) + 1] = <<>>
        /\ \A i \in 1..Len(fs) : Append(fs, <<>>)[i] = fs[i]
    BY <1>1, <1>5, AppendProperties
  <2>2. WithWord(Append(fs, <<>>), w) = [Append(fs, <<>>) EXCEPT ![Len(fs) + 1] = w]
    BY <1>5, <2>1 DEF WithWord
  <2>3. /\ Append(fs, w) \in Seq(Text) /\ Len(Append(fs, w)) = Len(fs) + 1
        /\ Append(fs, w)[Len(fs) + 1] = w
        /\ \A i \in 1..Len(fs) : Append(fs, w)[i] = fs[i]
    BY <1>1, <1>5, AppendProperties
  <2> DEFINE e == [Append(fs, <<>>) EXCEPT ![Len(fs) + 1] = w]
  <2>4. /\ e \in Seq(Text) /\ Len(e) = Len(fs) + 1
        /\ \A i \in 1..Len(fs) + 1 : e[i] = IF i = Len(fs) + 1 THEN w ELSE Append(fs, <<>>)[i]
    <3>1. Len(fs) + 1 \in 1..Len(Append(fs, <<>>))
      BY <1>1, <2>1
    <3>2. /\ e \in Seq(Text) /\ Len(e) = Len(Append(fs, <<>>))
          /\ \A i \in 1..Len(Append(fs, <<>>)) :
               e[i] = IF i = Len(fs) + 1 THEN w ELSE Append(fs, <<>>)[i]
      <4>0. PICK g \in Seq(Text) : g = Append(fs, <<>>)
        BY <2>1
      <4>1. PICK m \in 1..Len(g) : m = Len(fs) + 1
        BY <3>1, <4>0
      <4>2. /\ [g EXCEPT ![m] = w] \in Seq(Text) /\ Len([g EXCEPT ![m] = w]) = Len(g)
            /\ \A i \in 1..Len(g) : [g EXCEPT ![m] = w][i] = IF i = m THEN w ELSE g[i]
        BY <1>5, ExceptSeq
      <4> QED
        BY <4>0, <4>1, <4>2
    <3> QED
      BY <2>1, <3>2
  <2>5. \A i \in 1..Len(fs) + 1 : e[i] = Append(fs, w)[i]
    <3> HIDE DEF e
    <3>1. \A i \in 1..Len(fs) + 1 : i \in 1..Len(fs) \/ i = Len(fs) + 1
      BY <1>1
    <3> QED
      BY <1>1, <2>1, <2>3, <2>4, <3>1
  <2>6. e = Append(fs, w)
    <3> HIDE DEF e
    <3> QED
      BY <2>3, <2>4, <2>5, SeqEqual
  <2> QED
    BY <2>2, <2>6
<1> QED
  BY <1>4, <1>6

\* Whatever fields are joined, split_buffer finds them again.
THEOREM SplitOfJoin ==
  \A fs \in Seq(Field) : fs # <<>> => Split(Join(fs)) = fs
<1> DEFINE S == {fs \in Seq(Field) : fs # <<>> => Split(Join(fs)) = fs}
<1>1. <<>> \in S
  OBVIOUS
<1>2. ASSUME NEW fs \in Seq(Field), NEW f \in Field, fs \in S
      PROVE  Append(fs, f) \in S
  <2>1. fs \in Seq(Text) /\ f \in Text /\ Append(fs, f) \in Seq(Field)
    BY TextIsSeq, SeqMonotonic
  <2>2. CASE fs = <<>>
    <3>1. Join(Append(fs, f)) = f /\ <<>> \o f = f /\ <<>> \in Text
      <4>1. Join(Append(fs, f)) = f
        BY <2>1, <2>2, JoinAppend
      <4>2. <<>> \o f = f
        BY <2>1, ConcatEmptySeq DEF Text
      <4> QED
        BY <4>1, <4>2, TextIsSeq
    <3>2. Split(<<>> \o f) = WithWord(<<<<>>>>, f)
      BY <3>1, SplitConcat, SplitEmpty
    <3>3. WithWord(<<<<>>>>, f) = <<f>>
      BY <3>1 DEF WithWord
    <3>4. Append(fs, f) = <<f>>
      BY <2>2
    <3> QED
      BY <2>1, <3>1, <3>2, <3>3, <3>4
  <2>3. CASE fs # <<>>
    <3>1. Join(Append(fs, f)) = (Join(fs) \o <<Sep>>) \o f
      BY <2>1, <2>3, JoinAppend
    <3>2. Split((Join(fs) \o <<Sep>>) \o f) = Append(Split(Join(fs)), f)
      BY <2>1, JoinType, SplitNext
    <3> QED
      BY <1>2, <2>1, <2>3, <3>1, <3>2
  <2> QED
    BY <2>2, <2>3
<1>3. Seq(Field) \subseteq S
  <2> HIDE DEF S
  <2> QED
    BY <1>1, <1>2, SequenceInduction
<1> QED
  BY <1>3

LEMMA WithCharAppend ==
  \A fs \in Seq(Text), f \in Text, c \in Char :
    WithChar(Append(fs, f), c) = Append(fs, Append(f, c))
<1> SUFFICES ASSUME NEW fs \in Seq(Text), NEW f \in Text, NEW c \in Char
             PROVE  WithChar(Append(fs, f), c) = Append(fs, Append(f, c))
  OBVIOUS
<1> DEFINE n == Len(fs) + 1
<1>1. PICK h \in Text : h = Append(f, c)
  BY TextAppend
<1>2. PICK g \in Seq(Text) : g = Append(fs, f)
  BY AppendProperties
<1>3. Len(g) = n /\ n \in 1..Len(g) /\ g[n] = f /\ \A i \in 1..Len(fs) : g[i] = fs[i]
  BY <1>2, AppendProperties, LenProperties
<1>4. WithChar(g, c) = [g EXCEPT ![n] = h]
  BY <1>1, <1>3 DEF WithChar
<1>5. PICK e \in Seq(Text) : /\ e = [g EXCEPT ![n] = h] /\ Len(e) = n
                             /\ \A i \in 1..n : e[i] = IF i = n THEN h ELSE g[i]
  <2>1. PICK m \in 1..Len(g) : m = n
    BY <1>3
  <2>2. /\ [g EXCEPT ![m] = h] \in Seq(Text) /\ Len([g EXCEPT ![m] = h]) = Len(g)
        /\ \A i \in 1..Len(g) : [g EXCEPT ![m] = h][i] = IF i = m THEN h ELSE g[i]
    BY ExceptSeq
  <2> QED
    BY <1>3, <2>1, <2>2
<1>6. /\ Append(fs, h) \in Seq(Text) /\ Len(Append(fs, h)) = n /\ Append(fs, h)[n] = h
      /\ \A i \in 1..Len(fs) : Append(fs, h)[i] = fs[i]
  BY AppendProperties, LenProperties
<1>7. \A i \in 1..n : e[i] = Append(fs, h)[i]
  <2>1. \A i \in 1..n : i \in 1..Len(fs) \/ i = n
    BY LenProperties
  <2>2. \A i \in 1..Len(fs) : i # n
    BY LenProperties
  <2> QED
    BY <1>3, <1>5, <1>6, <2>1, <2>2
<1>8. e = Append(fs, h)
  BY <1>5, <1>6, <1>7, SeqEqual
<1> QED
  BY <1>1, <1>2, <1>4, <1>5, <1>8

\* Nothing of a text is lost in its fields: the separators between them restore it.
THEOREM JoinOfSplit == \A text \in Text : Join(Split(text)) = text
<1> DEFINE S == {t \in Text : Join(Split(t)) = t}
<1>1. <<>> \in S
  <2>1. <<>> \in Text /\ <<<<>>>> = Append(<<>>, <<>>) /\ <<>> \in Seq(Text)
    BY TextIsSeq
  <2>2. Join(Append(<<>>, <<>>)) = <<>>
    BY <2>1, JoinAppend
  <2> QED
    BY <2>1, <2>2, SplitEmpty
<1>2. ASSUME NEW t \in Text, NEW c \in Char, t \in S
      PROVE  Append(t, c) \in S
  <2>1. Split(t) \in Seq(Text) /\ Split(t) # <<>> /\ Join(Split(t)) = t
    BY <1>2, SplitType DEF Fields
  <2>2. PICK fs \in Seq(Text), f \in Text : Split(t) = Append(fs, f)
    BY <2>1, SequenceEmptyOrAppend
  <2>3. Split(Append(t, c)) = Taken(Split(t), c)
    BY SplitAppend
  <2>4. Append(t, c) \in Text
    BY TextAppend
  <2>5. CASE c = Sep
    <3>1. Split(Append(t, c)) = Append(Split(t), <<>>)
      BY <2>3, <2>5 DEF Taken
    <3>2. <<>> \in Text
      BY TextIsSeq
    <3>3. Join(Append(Split(t), <<>>)) = (t \o <<Sep>>) \o <<>>
      BY <2>1, <3>2, JoinAppend
    <3>4. (t \o <<Sep>>) \o <<>> = Append(t, Sep)
      BY SepText DEF Text
    <3> QED
      BY <2>4, <2>5, <3>1, <3>3, <3>4
  <2>6. CASE c # Sep
    <3>1. Split(Append(t, c)) = WithChar(Append(fs, f), c)
      BY <2>2, <2>3, <2>6 DEF Taken
    <3>2. WithChar(Append(fs, f), c) = Append(fs, Append(f, c))
      BY TextAppend, WithCharAppend
    <3>3. Append(f, c) \in Text
      BY TextAppend
    <3>4. Join(Append(fs, Append(f, c))) =
            IF fs = <<>> THEN Append(f, c) ELSE (Join(fs) \o <<Sep>>) \o Append(f, c)
      BY <3>3, JoinAppend
    <3>5. t = IF fs = <<>> THEN f ELSE (Join(fs) \o <<Sep>>) \o f
      BY <2>1, <2>2, JoinAppend
    <3>6. Join(fs) \o <<Sep>> \in Text
      BY JoinType, SepText, TextConcat
    <3>7. (Join(fs) \o <<Sep>>) \o Append(f, c) = Append((Join(fs) \o <<Sep>>) \o f, c)
      BY <3>6, TextConcatAppend
    <3> QED
      BY <2>4, <3>1, <3>2, <3>4, <3>5, <3>7
  <2> QED
    BY <2>5, <2>6
<1>3. Seq(Char) \subseteq S
  <2> HIDE DEF S
  <2> QED
    BY <1>1, <1>2, TextIsSeq, SequenceInduction
<1> QED
  BY <1>3, TextIsSeq

=============================================================================
