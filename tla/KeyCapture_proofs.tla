-------------------------- MODULE KeyCapture_proofs --------------------------
(***************************************************************************)
(* The capture thread is a line editor, for any keys and any number of     *)
(* them: what lies in the terminal, in the buffer of stdin and in hand is, *)
(* put together, the queue of the keys that have no effect yet.            *)
(***************************************************************************)
EXTENDS KeyCapture, SequenceTheorems, TLAPS

\* The clauses of TypeOK that the steps need.
Typed == /\ typed \in Seq(Key) /\ tty \in Seq(Key) /\ stdin \in Seq(Key) /\ hand \in Key
         /\ line \in Seq(Char) /\ lines \in Seq(Seq(Char))

Placed == /\ capture \in {"test", "select", "get", "switch", "echo", "done"}
          /\ capturing \in BOOLEAN
          /\ cout \in {"free", "main", "other"}
          /\ main \in {"running", "printing", "joining", "ended"}

LEMMA TypeSplit == TypeOK <=> Typed /\ Placed
BY DEF TypeOK, Typed, Placed

LEMMA FrontType == ASSUME NEW S, NEW s \in Seq(S), s # <<>> PROVE Front(s) \in Seq(S)
BY DEF Front

LEMMA TypedNext == Typed /\ [Next]_vars => Typed'
<1> SUFFICES ASSUME Typed, [Next]_vars PROVE Typed'
  OBVIOUS
<1> USE DEF Typed, keys, text
<1>1. ASSUME NEW k \in Key, Type(k) PROVE Typed'
  BY <1>1 DEF Type
<1>2. CASE Get
  <2>1. CASE stdin # <<>>
    <3>1. Head(stdin) \in Key /\ Tail(stdin) \in Seq(Key)
      BY <2>1
    <3> QED BY <1>2, <2>1, <3>1 DEF Get
  <2>2. CASE stdin = <<>>
    <3>1. tty # <<>> => Head(tty) \in Key /\ Tail(tty) \in Seq(Key)
      OBVIOUS
    <3>2. <<>> \in Seq(Key)
      OBVIOUS
    <3> QED BY <1>2, <2>2, <3>1, <3>2 DEF Get
  <2> QED BY <2>1, <2>2
<1>3. CASE EnterKey
  <2>1. Append(lines, line) \in Seq(Seq(Char)) /\ <<>> \in Seq(Char)
    OBVIOUS
  <2> QED BY <1>3, <2>1 DEF EnterKey
<1>4. CASE CharKey
  BY <1>4 DEF CharKey
<1>5. CASE EraseKey
  BY <1>5, FrontType DEF EraseKey
<1>6. CASE Test \/ Select \/ OtherKey \/ Echo
  BY <1>6 DEF Test, Select, OtherKey, Echo
<1>7. CASE Printers \/ Cleanup \/ Join
  BY <1>7 DEF Printers, MainPrint, MainPrintEnd, OtherPrint, OtherPrintEnd, Cleanup, Join
<1>8. CASE UNCHANGED vars
  BY <1>8 DEF vars
<1> QED BY <1>1, <1>2, <1>3, <1>4, <1>5, <1>6, <1>7, <1>8 DEF Next, Capture

LEMMA PlacedNext == Placed /\ [Next]_vars => Placed'
<1> SUFFICES ASSUME Placed, [Next]_vars PROVE Placed'
  OBVIOUS
<1> USE DEF Placed
<1>1. CASE Capture \/ Echo
  BY <1>1 DEF Capture, Test, Select, Get, EnterKey, CharKey, EraseKey, OtherKey, Echo
<1>2. CASE Printers \/ Cleanup \/ Join
  BY <1>2 DEF Printers, MainPrint, MainPrintEnd, OtherPrint, OtherPrintEnd, Cleanup, Join
<1>3. ASSUME NEW k \in Key, Type(k) PROVE Placed'
  BY <1>3 DEF Type
<1>4. CASE UNCHANGED vars
  BY <1>4 DEF vars
<1> QED BY <1>1, <1>2, <1>3, <1>4 DEF Next

LEMMA TypeInit == Init => TypeOK
BY DEF Init, TypeOK, Key

LEMMA TypeNext == TypeOK /\ [Next]_vars => TypeOK'
<1> SUFFICES ASSUME TypeOK, [Next]_vars PROVE TypeOK'
  OBVIOUS
<1>1. Typed' /\ Placed'
  BY TypeSplit, TypedNext, PlacedNext
<1> QED BY <1>1 DEF TypeOK, Typed, Placed

\* Types.
THEOREM TypeCorrect == Spec => []TypeOK
BY TypeInit, TypeNext, PTL DEF Spec
-----------------------------------------------------------------------------
(* The refinement. *)

Waiting == Taken \o (stdin \o tty)

\* The laws of sequences that the steps use.
LEMMA ConcatAppend ==
  ASSUME NEW S, NEW a \in Seq(S), NEW b \in Seq(S), NEW k \in S
  PROVE  a \o Append(b, k) = Append(a \o b, k)
<1>1. /\ a \o Append(b, k) \in Seq(S) /\ Append(a \o b, k) \in Seq(S)
      /\ Len(a \o Append(b, k)) = Len(Append(a \o b, k))
  OBVIOUS
<1>2. \A i \in 1..Len(a \o Append(b, k)) : (a \o Append(b, k))[i] = Append(a \o b, k)[i]
  OBVIOUS
<1> QED BY <1>1, <1>2, SeqEqual

LEMMA EmptyConcat == ASSUME NEW S, NEW a \in Seq(S) PROVE <<>> \o a = a /\ a \o <<>> = a
BY ConcatEmptySeq

LEMMA HeadConcat ==
  ASSUME NEW S, NEW a \in Seq(S), NEW b \in Seq(S), a # <<>>
  PROVE  a \o b = <<Head(a)>> \o (Tail(a) \o b)
<1> DEFINE l == a \o b  r == <<Head(a)>> \o (Tail(a) \o b)
<1>1. Head(a) \in S /\ Tail(a) \in Seq(S) /\ Len(Tail(a)) = Len(a) - 1
      /\ \A i \in 1..(Len(a) - 1) : Tail(a)[i] = a[i + 1]
  OBVIOUS
<1>2. l \in Seq(S) /\ r \in Seq(S) /\ Len(l) = Len(r)
  BY <1>1
<1>3. \A i \in 1..Len(l) : l[i] = r[i]
  BY <1>1
<1> QED BY <1>2, <1>3, SeqEqual

LEMMA ConsProperties ==
  ASSUME NEW S, NEW k \in S, NEW b \in Seq(S)
  PROVE  /\ <<k>> \o b # <<>> /\ Head(<<k>> \o b) = k /\ Tail(<<k>> \o b) = b
<1> DEFINE s == <<k>> \o b
<1>1. s \in Seq(S) /\ Len(s) = Len(b) + 1 /\ s[1] = k
      /\ \A i \in 1..Len(b) : s[i + 1] = b[i]
  OBVIOUS
<1>2. Tail(s) \in Seq(S) /\ Len(Tail(s)) = Len(b) /\ \A i \in 1..Len(b) : Tail(s)[i] = b[i]
  BY <1>1
<1>3. Tail(s) = b
  BY <1>2, SeqEqual
<1> QED BY <1>1, <1>3

\* A key that is typed comes last of those that wait.
LEMMA TypeStep ==
  ASSUME TypeOK, NEW k \in Key, Type(k) PROVE Editor!Type(k)
<1>1. Taken \in Seq(Key) /\ stdin \in Seq(Key) /\ tty \in Seq(Key)
  BY DEF TypeOK, Taken
<1>2. Taken' = Taken /\ stdin' = stdin /\ tty' = Append(tty, k) /\ UNCHANGED <<line, lines>>
  BY DEF Type, Taken, text
<1>3. stdin \o Append(tty, k) = Append(stdin \o tty, k) /\ stdin \o tty \in Seq(Key)
  BY <1>1, ConcatAppend
<1>4. Taken \o Append(stdin \o tty, k) = Append(Taken \o (stdin \o tty), k)
  BY <1>1, <1>3, ConcatAppend
<1> QED BY <1>2, <1>3, <1>4 DEF Editor!Type

\* The key in hand takes effect.
LEMMA HandleStep ==
  ASSUME TypeOK, EnterKey \/ CharKey \/ EraseKey \/ OtherKey PROVE Editor!Handle
<1>1. /\ capture = "switch" /\ capture' # "switch" /\ UNCHANGED <<stdin, tty>>
  BY DEF EnterKey, CharKey, EraseKey, OtherKey, keys
<1>2. hand \in Key /\ stdin \o tty \in Seq(Key)
  BY DEF TypeOK
<1>3. Taken = <<hand>> /\ Taken' = <<>>
  BY <1>1 DEF Taken
<1>4. /\ Taken \o (stdin \o tty) # <<>>
      /\ Head(Taken \o (stdin \o tty)) = hand
      /\ Tail(Taken \o (stdin \o tty)) = stdin \o tty
  BY <1>2, <1>3, ConsProperties
<1>5. (Taken \o (stdin \o tty))' = Tail(Taken \o (stdin \o tty))
  BY <1>1, <1>2, <1>3, <1>4, EmptyConcat
<1>6. IF hand = Enter
      THEN line' = <<>> /\ lines' = Append(lines, line)
      ELSE line' = Editor!Edited(hand) /\ UNCHANGED lines
  <2>1. CASE EnterKey
    BY <2>1 DEF EnterKey
  <2>2. CASE CharKey
    BY <2>2, KeyAssumption DEF CharKey, Editor!Edited
  <2>3. CASE EraseKey
    <3>1. hand = Erase /\ hand \notin Char /\ hand # Enter /\ UNCHANGED lines
      BY <2>3, KeyAssumption DEF EraseKey
    <3>2. line' = IF line # <<>> THEN Front(line) ELSE line
      BY <2>3 DEF EraseKey
    <3> QED BY <3>1, <3>2 DEF Editor!Edited, Editor!Front, Front
  <2>4. CASE OtherKey
    BY <2>4, KeyAssumption DEF OtherKey, Editor!Edited, text
  <2> QED BY <2>1, <2>2, <2>3, <2>4
<1> QED BY <1>4, <1>5, <1>6 DEF Editor!Handle

\* A key that is taken stays the oldest, wherever it came from.
LEMMA GetStep == ASSUME TypeOK, Get PROVE UNCHANGED Editor!vars
<1>1. stdin \in Seq(Key) /\ tty \in Seq(Key)
  BY DEF TypeOK
<1>2. capture = "get" /\ capture' = "switch" /\ UNCHANGED <<line, lines>>
  BY DEF Get, text
<1>3. Taken = <<>> /\ Taken' = <<hand'>>
  BY <1>2 DEF Taken
<1>4. stdin \o tty = <<hand'>> \o (stdin' \o tty')
  <2>1. CASE stdin # <<>>
    <3>1. hand' = Head(stdin) /\ stdin' = Tail(stdin) /\ tty' = tty
      BY <2>1 DEF Get
    <3>2. stdin \o tty = <<Head(stdin)>> \o (Tail(stdin) \o tty)
      BY <1>1, <2>1, HeadConcat
    <3> QED BY <3>1, <3>2
  <2>2. CASE stdin = <<>>
    <3>1. tty # <<>> /\ hand' = Head(tty) /\ stdin' = Tail(tty) /\ tty' = <<>>
      BY <2>2 DEF Get
    <3>2. tty \o <<>> = <<Head(tty)>> \o (Tail(tty) \o <<>>) /\ <<>> \in Seq(Key)
      BY <1>1, <3>1, HeadConcat
    <3> QED BY <1>1, <2>2, <3>1, <3>2, EmptyConcat
  <2> QED BY <2>1, <2>2
<1>5. (Taken \o (stdin \o tty))' = Taken \o (stdin \o tty)
  BY <1>1, <1>3, <1>4, EmptyConcat
<1> QED BY <1>2, <1>5 DEF Editor!vars

LEMMA RefineInit == Init => Editor!Init
BY DEF Init, Editor!Init, Taken

LEMMA RefineNext == TypeOK /\ [Next]_vars => [Editor!Next]_(Editor!vars)
<1> SUFFICES ASSUME TypeOK, [Next]_vars PROVE Editor!Next \/ UNCHANGED Editor!vars
  OBVIOUS
<1>1. ASSUME NEW k \in Key, Type(k) PROVE Editor!Next
  BY <1>1, TypeStep DEF Editor!Next, Editor!Key, Key
<1>2. CASE EnterKey \/ CharKey \/ EraseKey \/ OtherKey
  BY <1>2, HandleStep DEF Editor!Next
<1>3. CASE Get
  BY <1>3, GetStep
<1>4. CASE Test \/ Select \/ Echo
  <2>1. UNCHANGED <<Taken, stdin, tty, line, lines>>
    BY <1>4 DEF Test, Select, Echo, Taken, keys, text
  <2> QED BY <2>1 DEF Editor!vars
<1>5. CASE Printers \/ Cleanup \/ Join
  <2>1. UNCHANGED <<Taken, stdin, tty, line, lines>>
    BY <1>5 DEF Printers, MainPrint, MainPrintEnd, OtherPrint, OtherPrintEnd, Cleanup, Join,
                Taken, keys, text
  <2> QED BY <2>1 DEF Editor!vars
<1>6. CASE UNCHANGED vars
  <2>1. UNCHANGED <<Taken, stdin, tty, line, lines>>
    BY <1>6 DEF vars, Taken
  <2> QED BY <2>1 DEF Editor!vars
<1> QED BY <1>1, <1>2, <1>3, <1>4, <1>5, <1>6 DEF Next, Capture

\* Every behaviour of the capture thread is one of the line editor.
THEOREM Implements == Spec => ImplementsLineEditor
BY TypeInit, TypeNext, RefineInit, RefineNext, PTL DEF Spec, ImplementsLineEditor, Editor!Spec
=============================================================================
