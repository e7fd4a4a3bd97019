--------------------------- MODULE Console_proofs ---------------------------
(***************************************************************************)
(* The hand-over of ui_buffer is safe for every interleaving, any lines    *)
(* and any number of them, although neither thread holds the mutex when it *)
(* writes: the two predicates make them take turns.  From that, no line is *)
(* lost, doubled or overtaken, the console is a queue of commands, and a   *)
(* user who waits has each line executed with its own words.               *)
(***************************************************************************)
EXTENDS Console, Subsequences_proofs

LEMMA LinesAssociate ==
  \A r, s, t \in Seq(Line) : (r \o s) \o t = r \o (s \o t)
BY SeqAssociate

LEMMA WordsAssociate ==
  \A r, s, t \in Seq(Token) : (r \o s) \o t = r \o (s \o t)
BY SeqAssociate

USE LineAssumption

LEMMA TypeInit == Init => TypeOK
<1>1. <<>> \in Seq(Line) /\ <<>> \in Seq(Token) /\ <<>> \in Seq(Line \X Seq(Token))
  OBVIOUS
<1> QED
  BY <1>1, LineAssumption DEF Init, TypeOK

LEMMA TypeNext == TypeOK /\ [Next]_vars => TypeOK'
<1> SUFFICES ASSUME TypeOK, [Next]_vars PROVE TypeOK'
  OBVIOUS
<1> USE DEF uiVars, mainVars, WakeUi, WakeMain
<1>1. ASSUME NEW l \in Line, Type(l) PROVE TypeOK'
  BY <1>1 DEF Type, Queued, TypeOK
<1>2. CASE SpuriousWakeup
  BY <1>2 DEF SpuriousWakeup, TypeOK
<1>3. CASE UiLoop \/ UiTest \/ UiBlock \/ UiCheck
  BY <1>3 DEF UiLoop, UiTest, UiBlock, UiCheck, TypeOK
<1>4. CASE UiGet
  BY <1>4 DEF UiGet, TypeOK
<1>5. CASE UiCopy
  BY <1>5 DEF UiCopy, TypeOK
<1>6. CASE UiPush
  BY <1>6 DEF UiPush, TypeOK
<1>7. CASE UiNotify
  BY <1>7 DEF UiNotify, TypeOK
<1>8. CASE MainLoop \/ MainTest \/ MainBlock \/ MainCheck
  BY <1>8 DEF MainLoop, MainTest, MainBlock, MainCheck, TypeOK
<1>9. CASE Process
  <2>1. <<buffer, tokens>> \in Line \X Seq(Token)
    BY DEF TypeOK
  <2>2. executed' \in Seq(Line \X Seq(Token)) /\ app' \in BOOLEAN
    BY <1>9, <2>1 DEF Process, TypeOK
  <2> QED
    BY <1>9, <2>2 DEF Process, TypeOK
<1>10. CASE StopUi \/ NotifyAll \/ ClearBuffer \/ ClearTokens \/ MainNotify \/ JoinUi
  BY <1>10 DEF StopUi, NotifyAll, ClearBuffer, ClearTokens, MainNotify, JoinUi, TypeOK
<1>11. CASE UNCHANGED vars
  BY <1>11 DEF vars, TypeOK
<1> QED
  BY <1>1, <1>2, <1>3, <1>4, <1>5, <1>6, <1>7, <1>8, <1>9, <1>10, <1>11 DEF Next, Ui, Main

\* Type correctness of the console.
THEOREM TypeCorrect == Spec => []TypeOK
BY TypeInit, TypeNext, PTL DEF Spec

-----------------------------------------------------------------------------
LEMMA OwnershipInit == Init => Ownership
BY DEF Init, Ownership, MainHolds

LEMMA OwnershipNext == Ownership /\ [Next]_vars => Ownership'
<1> SUFFICES ASSUME Ownership, [Next]_vars PROVE Ownership'
  OBVIOUS
<1> USE DEF Ownership, MainHolds, uiVars, mainVars, WakeUi, WakeMain
<1>1. ASSUME NEW l \in Line, Type(l) PROVE Ownership'
  BY <1>1 DEF Type
<1>2. CASE SpuriousWakeup
  BY <1>2 DEF SpuriousWakeup
<1>3. CASE UiLoop \/ UiTest \/ UiBlock \/ UiCheck
  BY <1>3 DEF UiLoop, UiTest, UiMayGo, UiBlock, UiCheck
<1>4. CASE UiGet
  BY <1>4 DEF UiGet
<1>5. CASE UiCopy \/ UiPush \/ UiNotify
  BY <1>5 DEF UiCopy, UiPush, UiNotify
<1>6. CASE MainLoop \/ MainTest \/ MainBlock \/ MainCheck
  BY <1>6 DEF MainLoop, MainTest, MainMayGo, MainBlock, MainCheck
<1>7. CASE Process
  BY <1>7 DEF Process
<1>8. CASE StopUi \/ NotifyAll \/ ClearBuffer \/ ClearTokens \/ MainNotify \/ JoinUi
  BY <1>8 DEF StopUi, NotifyAll, ClearBuffer, ClearTokens, MainNotify, JoinUi
<1>9. CASE UNCHANGED vars
  BY <1>9 DEF vars
<1> QED
  BY <1>1, <1>2, <1>3, <1>4, <1>5, <1>6, <1>7, <1>8, <1>9 DEF Next, Ui, Main

\* The input thread only writes a free ui_buffer, the main loop only acts on a full one.
THEOREM TakesTurns == Spec => []Ownership
BY OwnershipInit, OwnershipNext, PTL DEF Spec

LEMMA NoOverwriteStep ==
  Ownership /\ [Next]_vars => [buffer # Empty => buffer' \in {buffer, Empty}]_vars
<1> SUFFICES ASSUME Ownership, [Next]_vars, buffer # Empty
             PROVE  buffer' \in {buffer, Empty}
  OBVIOUS
<1> USE DEF uiVars, mainVars
<1>1. CASE Ui
  BY <1>1 DEF Ui, UiLoop, UiTest, UiBlock, UiCheck, UiGet, UiCopy, UiPush, UiNotify, Ownership
<1>2. CASE Main
  BY <1>2 DEF Main, MainLoop, MainTest, MainBlock, MainCheck, Process, StopUi, NotifyAll,
              ClearBuffer, ClearTokens, MainNotify, JoinUi
<1>3. CASE SpuriousWakeup \/ (\E l \in Line : Type(l)) \/ UNCHANGED vars
  BY <1>3 DEF SpuriousWakeup, Type, vars
<1> QED
  BY <1>1, <1>2, <1>3 DEF Next

\* A line in ui_buffer is never replaced by the next one before it was executed.
THEOREM PendingLineSafe == Spec => NoOverwrite
BY TakesTurns, NoOverwriteStep, PTL DEF Spec, NoOverwrite

-----------------------------------------------------------------------------
(* No line is lost, doubled or overtaken: the lines executed, the one in   *)
(* the buffer and those queued are the lines typed.                        *)

LEMMA ExecutedType == TypeOK => Executed \in Seq(Line)
<1> SUFFICES ASSUME TypeOK PROVE Executed \in Seq(Line)
  OBVIOUS
<1>1. executed \in Seq(Line \X Seq(Token)) /\ Len(executed) \in Nat
  BY DEF TypeOK
<1>2. \A i \in 1..Len(executed) : executed[i][1] \in Line
  <2> TAKE i \in 1..Len(executed)
  <2>1. executed[i] \in Line \X Seq(Token)
    BY <1>1, ElementOfSeq
  <2> QED
    BY <2>1
<1> QED
  BY <1>1, <1>2 DEF Executed

LEMMA ExecutedAppend ==
  ASSUME TypeOK, executed' = Append(executed, <<buffer, tokens>>)
  PROVE  Executed' = Append(Executed, buffer)
<1>0. Executed \in Seq(Line)
  BY ExecutedType
<1>1. executed \in Seq(Line \X Seq(Token)) /\ Len(executed) \in Nat
  BY DEF TypeOK
<1>2. Len(executed') = Len(executed) + 1
  BY <1>1
<1>3. /\ \A i \in 1..Len(executed) : executed'[i] = executed[i]
      /\ executed'[Len(executed) + 1] = <<buffer, tokens>>
  BY <1>1
<1>4. Len(Executed) = Len(executed) /\ Len(Executed') = Len(executed) + 1
  BY <1>1, <1>2 DEF Executed
<1>5. \A i \in 1..Len(executed) + 1 :
        Executed'[i] = IF i <= Len(executed) THEN Executed[i] ELSE buffer
  <2>1. \A i \in 1..Len(executed) + 1 : Executed'[i] = executed'[i][1]
    BY <1>2 DEF Executed
  <2>2. \A i \in 1..Len(executed) : Executed[i] = executed[i][1]
    BY DEF Executed
  <2>3. <<buffer, tokens>>[1] = buffer
    OBVIOUS
  <2>4. \A i \in 1..Len(executed) + 1 :
          IF i <= Len(executed) THEN i \in 1..Len(executed) ELSE i = Len(executed) + 1
    <3>1. \A m \in Nat : \A i \in 1..m + 1 : IF i <= m THEN i \in 1..m ELSE i = m + 1
      OBVIOUS
    <3> QED
      BY <1>1, <3>1
  <2> QED
    BY <1>3, <2>1, <2>2, <2>3, <2>4
<1>6. Executed' = [i \in 1..Len(executed) + 1 |->
                     IF i <= Len(executed) THEN Executed[i] ELSE buffer]
  BY <1>2, <1>5 DEF Executed
<1> DEFINE n == Len(executed)
<1>7. Executed' \in Seq(Line)
  <2>1. \A i \in 1..n + 1 : (IF i <= n THEN Executed[i] ELSE buffer) \in Line
    BY <1>0, <1>1, <1>4 DEF TypeOK
  <2> QED
    BY <1>1, <1>6, <2>1
<1>8. /\ Append(Executed, buffer) \in Seq(Line) /\ Len(Append(Executed, buffer)) = n + 1
      /\ \A i \in 1..n + 1 : Append(Executed, buffer)[i] =
                               IF i <= n THEN Executed[i] ELSE buffer
  <2>1. buffer \in Line
    BY DEF TypeOK
  <2>2. PICK d \in Seq(Line), b \in Line : d = Executed /\ b = buffer
    BY <1>0, <2>1
  <2>3. /\ Append(d, b) \in Seq(Line) /\ Len(Append(d, b)) = Len(d) + 1
        /\ \A i \in 1..Len(d) : Append(d, b)[i] = d[i]
        /\ Append(d, b)[Len(d) + 1] = b
    OBVIOUS
  <2>4. Len(d) = n /\ n \in Nat
    BY <1>1, <1>4, <2>2
  <2>5. \A i \in 1..n + 1 : Append(d, b)[i] = IF i <= n THEN d[i] ELSE b
    BY <2>3, <2>4
  <2> QED
    BY <2>2, <2>3, <2>4, <2>5
<1> QED
  BY <1>4, <1>5, <1>7, <1>8, SeqEqual

LEMMA NonEmptyType ==
  \A s \in Seq(Line) : NonEmpty(s) \in Seq(Line)
<1> TAKE s \in Seq(Line)
<1>1. Kept(s, Line \ {Empty}) \in Seq(Line \cap (Line \ {Empty}))
  BY KeptType
<1> QED
  BY <1>1, SeqMonotonic DEF NonEmpty

LEMMA NonEmptyAppend ==
  \A s \in Seq(Line), l \in Line :
    NonEmpty(Append(s, l)) = NonEmpty(s) \o (IF l = Empty THEN <<>> ELSE <<l>>)
<1> TAKE s \in Seq(Line), l \in Line
<1>1. Kept(Append(s, l), Line \ {Empty}) =
        IF l \in Line \ {Empty} THEN Append(Kept(s, Line \ {Empty}), l)
                                ELSE Kept(s, Line \ {Empty})
  BY KeptAppend
<1>2. NonEmpty(s) \in Seq(Line)
  BY NonEmptyType
<1>3. NonEmpty(s) \o <<>> = NonEmpty(s) /\ NonEmpty(s) \o <<l>> = Append(NonEmpty(s), l)
  BY <1>2
<1> QED
  BY <1>1, <1>3 DEF NonEmpty

LEMMA NonEmptyHead ==
  \A s \in Seq(Line) : s # <<>> =>
    NonEmpty(s) = (IF Head(s) = Empty THEN <<>> ELSE <<Head(s)>>) \o NonEmpty(Tail(s))
<1> SUFFICES ASSUME NEW s \in Seq(Line), s # <<>>
             PROVE  NonEmpty(s) = (IF Head(s) = Empty THEN <<>> ELSE <<Head(s)>>)
                                    \o NonEmpty(Tail(s))
  OBVIOUS
<1>1. Head(s) \in Line
  OBVIOUS
<1>2. Kept(s, Line \ {Empty}) =
        (IF Head(s) \in Line \ {Empty} THEN <<Head(s)>> ELSE <<>>) \o Kept(Tail(s), Line \ {Empty})
  BY KeptHead
<1>3. (IF Head(s) \in Line \ {Empty} THEN <<Head(s)>> ELSE <<>>)
        = (IF Head(s) = Empty THEN <<>> ELSE <<Head(s)>>)
  BY <1>1
<1> QED
  BY <1>2, <1>3 DEF NonEmpty

LEMMA LinesInit == Init => LinesInOrder
<1> SUFFICES ASSUME Init PROVE LinesInOrder
  OBVIOUS
<1>1. NonEmpty(<<>>) = <<>>
  BY KeptEmpty DEF NonEmpty
<1>2. InHand = <<>> /\ Executed = <<>>
  BY DEF Init, InHand, Executed
<1> QED
  BY <1>1, <1>2 DEF Init, LinesInOrder

\* A step that moves no line.
LEMMA LinesFrame ==
  ASSUME LinesInOrder, UNCHANGED <<typed, input, executed>>, InHand' = InHand
  PROVE  LinesInOrder'
BY DEF LinesInOrder, Executed

LEMMA LinesNext == TypeOK /\ Ownership /\ LinesInOrder /\ [Next]_vars => LinesInOrder'
<1> SUFFICES ASSUME TypeOK, Ownership, LinesInOrder, [Next]_vars PROVE LinesInOrder'
  OBVIOUS
<1> USE DEF uiVars, mainVars, WakeUi, WakeMain
<1>0. /\ typed \in Seq(Line) /\ input \in Seq(Line) /\ Executed \in Seq(Line)
      /\ NonEmpty(typed) \in Seq(Line) /\ NonEmpty(input) \in Seq(Line)
      /\ InHand \in Seq(Line)
      /\ (Executed \o InHand) \o NonEmpty(input) = NonEmpty(typed)
  <2>1. buffer \in Line /\ InHand \in Seq(Line)
    BY DEF InHand, TypeOK
  <2> QED
    BY <2>1, ExecutedType, NonEmptyType DEF TypeOK, LinesInOrder
<1>1. ASSUME NEW l \in Line, Type(l) PROVE LinesInOrder'
  <2>0. PICK e \in Seq(Line) : e = IF l = Empty THEN <<>> ELSE <<l>>
    <3>1. <<>> \in Seq(Line) /\ <<l>> \in Seq(Line)
      OBVIOUS
    <3> QED
      BY <3>1
  <2>1. /\ NonEmpty(typed') = NonEmpty(typed) \o e
        /\ NonEmpty(input') = NonEmpty(input) \o e
    BY <1>0, <1>1, <2>0, NonEmptyAppend DEF Type, Queued
  <2>2. Executed' = Executed /\ InHand' = InHand
    BY <1>1 DEF Type, Executed, InHand
  <2>3. Executed \o InHand \in Seq(Line)
    BY <1>0
  <2>4. ((Executed \o InHand) \o NonEmpty(input)) \o e
          = (Executed \o InHand) \o (NonEmpty(input) \o e)
    BY <1>0, <2>3, LinesAssociate
  <2>5. (Executed' \o InHand') \o NonEmpty(input') = NonEmpty(typed')
    BY <1>0, <2>1, <2>2, <2>4
  <2> QED
    BY <2>5 DEF LinesInOrder
<1>2. CASE SpuriousWakeup
  <2>1. InHand' = InHand
    BY <1>2 DEF SpuriousWakeup, InHand
  <2> QED
    BY <1>2, <2>1, LinesFrame DEF SpuriousWakeup
<1>3. CASE UiLoop \/ UiTest \/ UiBlock \/ UiCheck \/ UiCopy \/ UiPush \/ UiNotify
  <2>1. UNCHANGED <<typed, input, executed, buffer>>
    BY <1>3 DEF UiLoop, UiTest, UiBlock, UiCheck, UiCopy, UiPush, UiNotify
  <2>2. main' = main \/ (main = "wait" /\ main' = "test")
    BY <1>3 DEF UiLoop, UiTest, UiBlock, UiCheck, UiCopy, UiPush, UiNotify
  <2> QED
    BY <2>1, <2>2, LinesFrame DEF InHand
<1>4. CASE UiGet
  <2>1. /\ buffer = Empty /\ buffer' = Head(input) /\ input # <<>> /\ input' = Tail(input)
        /\ main' = main /\ ~ MainHolds
    BY <1>4 DEF UiGet, Ownership
  <2>0. PICK e \in Seq(Line) : e = IF Head(input) = Empty THEN <<>> ELSE <<Head(input)>>
    <3>1. Head(input) \in Line
      BY <1>0, <2>1
    <3>2. <<>> \in Seq(Line) /\ <<Head(input)>> \in Seq(Line)
      BY <3>1
    <3> QED
      BY <3>2
  <2>2. InHand = <<>> /\ InHand' = e
    BY <2>0, <2>1 DEF InHand, MainHolds
  <2>3. Executed' = Executed /\ typed' = typed
    BY <1>4 DEF UiGet, Executed
  <2>4. NonEmpty(input) = e \o NonEmpty(input')
    BY <1>0, <2>0, <2>1, NonEmptyHead
  <2>5. NonEmpty(input') \in Seq(Line)
    <3>1. Tail(input) \in Seq(Line)
      BY <1>0, <2>1
    <3> QED
      BY <2>1, <3>1, NonEmptyType
  <2>6. (Executed \o e) \o NonEmpty(input') = Executed \o (e \o NonEmpty(input'))
    <3>1. Executed \in Seq(Line) /\ e \in Seq(Line)
      BY <1>0
    <3> QED
      BY <2>5, <3>1, LinesAssociate, Zenon
  <2>7. Executed \o InHand = Executed
    BY <1>0, <2>2, ConcatEmptySeq
  <2>8. (Executed' \o InHand') \o NonEmpty(input') = NonEmpty(typed')
    BY <1>0, <2>2, <2>3, <2>4, <2>6, <2>7
  <2> QED
    BY <2>8 DEF LinesInOrder
<1>5. CASE MainLoop \/ MainTest \/ MainBlock \/ MainCheck
  <2>1. UNCHANGED <<typed, input, executed, buffer>>
    BY <1>5 DEF MainLoop, MainTest, MainBlock, MainCheck
  <2>2. /\ main \notin {"stopUi", "notifyAll", "clearBuffer"}
        /\ main' \notin {"stopUi", "notifyAll", "clearBuffer"}
    BY <1>5 DEF MainLoop, MainTest, MainBlock, MainCheck
  <2> QED
    BY <2>1, <2>2, LinesFrame DEF InHand
<1>6. CASE Process
  <2>1. /\ buffer # Empty /\ main = "process" /\ main' \in {"stopUi", "clearBuffer"}
        /\ executed' = Append(executed, <<buffer, tokens>>)
        /\ UNCHANGED <<typed, input>>
    BY <1>6 DEF Process, Ownership, MainHolds
  <2>2. InHand = <<buffer>> /\ InHand' = <<>>
    BY <2>1 DEF InHand
  <2>3. Executed' = Append(Executed, buffer)
    BY <2>1, ExecutedAppend
  <2>4. Executed \o <<buffer>> = Append(Executed, buffer) /\ Executed' \in Seq(Line)
    BY <1>0, <2>3 DEF TypeOK
  <2>5. Executed' \o InHand' = Executed \o InHand
    BY <2>2, <2>3, <2>4, ConcatEmptySeq
  <2>6. (Executed' \o InHand') \o NonEmpty(input') = NonEmpty(typed')
    BY <1>0, <2>1, <2>5
  <2> QED
    BY <2>6 DEF LinesInOrder
<1>7. CASE StopUi \/ NotifyAll
  <2>1. UNCHANGED <<typed, input, executed, buffer>>
    BY <1>7 DEF StopUi, NotifyAll
  <2>2. InHand = <<>> /\ InHand' = <<>>
    BY <1>7 DEF StopUi, NotifyAll, InHand
  <2> QED
    BY <2>1, <2>2, LinesFrame
<1>8. CASE ClearBuffer
  <2>1. InHand = <<>> /\ InHand' = <<>>
    BY <1>8 DEF ClearBuffer, InHand
  <2> QED
    BY <1>8, <2>1, LinesFrame DEF ClearBuffer
<1>9. CASE ClearTokens \/ MainNotify \/ JoinUi
  <2>1. UNCHANGED <<typed, input, executed, buffer>>
    BY <1>9 DEF ClearTokens, MainNotify, JoinUi
  <2>2. /\ main \notin {"stopUi", "notifyAll", "clearBuffer"}
        /\ main' \notin {"stopUi", "notifyAll", "clearBuffer"}
    BY <1>9 DEF ClearTokens, MainNotify, JoinUi
  <2> QED
    BY <2>1, <2>2, LinesFrame DEF InHand
<1>10. CASE UNCHANGED vars
  BY <1>10, LinesFrame DEF vars, InHand
<1> QED
  BY <1>1, <1>2, <1>3, <1>4, <1>5, <1>6, <1>7, <1>8, <1>9, <1>10 DEF Next, Ui, Main

\* Every line typed is executed at most once and in the order typed, and none is lost on
\* its way through the queue and ui_buffer.
THEOREM NoLineLost == Spec => []LinesInOrder
BY TypeInit, TypeNext, OwnershipInit, OwnershipNext, LinesInit, LinesNext, PTL DEF Spec

-----------------------------------------------------------------------------
(* The console implements the queue of commands.                           *)

\* The main loop executes a line only while the program takes commands.
RunsWhileOpen == main = "process" => app

LEMMA OpenInit == Init => RunsWhileOpen
BY DEF Init, RunsWhileOpen

LEMMA OpenNext == RunsWhileOpen /\ [Next]_vars => RunsWhileOpen'
<1> SUFFICES ASSUME RunsWhileOpen, [Next]_vars PROVE RunsWhileOpen'
  OBVIOUS
<1> USE DEF RunsWhileOpen, uiVars, mainVars, WakeUi, WakeMain
<1>1. CASE Ui
  BY <1>1 DEF Ui, UiLoop, UiTest, UiBlock, UiCheck, UiGet, UiCopy, UiPush, UiNotify
<1>2. CASE Main
  BY <1>2 DEF Main, MainLoop, MainTest, MainBlock, MainCheck, Process, StopUi, NotifyAll,
              ClearBuffer, ClearTokens, MainNotify, JoinUi
<1>3. CASE SpuriousWakeup \/ (\E l \in Line : Type(l)) \/ UNCHANGED vars
  BY <1>3 DEF SpuriousWakeup, Type, vars
<1> QED
  BY <1>1, <1>2, <1>3 DEF Next

LEMMA CommandsInit == Init => Commands!Init
<1> SUFFICES ASSUME Init PROVE Commands!Init
  OBVIOUS
<1>1. NonEmpty(<<>>) = <<>>
  BY KeptEmpty DEF NonEmpty
<1> QED
  BY <1>1 DEF Init, Commands!Init, Executed

\* A line typed is a command entered, or the empty line, which is none.
LEMMA TypeEnters ==
  ASSUME TypeOK, NEW l \in Line, Type(l)
  PROVE  Commands!Enter(l) \/ UNCHANGED Commands!vars
<1>1. typed' = Append(typed, l) /\ UNCHANGED <<executed, app>> /\ typed \in Seq(Line)
  BY DEF Type, mainVars, TypeOK
<1>2. Executed' = Executed
  BY <1>1 DEF Executed
<1>3. NonEmpty(typed) \in Seq(Line)
  BY <1>1, NonEmptyType
<1>4. CASE l = Empty
  <2>1. NonEmpty(typed') = NonEmpty(typed) \o <<>>
    BY <1>1, <1>4, NonEmptyAppend
  <2>2. NonEmpty(typed') = NonEmpty(typed)
    BY <1>3, <2>1
  <2> QED
    BY <1>1, <1>2, <2>2 DEF Commands!vars
<1>5. CASE l # Empty
  <2>1. NonEmpty(typed') = NonEmpty(typed) \o <<l>>
    BY <1>1, <1>5, NonEmptyAppend
  <2>2. NonEmpty(typed') = Append(NonEmpty(typed), l)
    BY <1>3, <2>1
  <2> QED
    BY <1>1, <1>2, <2>2 DEF Commands!Enter
<1> QED
  BY <1>4, <1>5

\* The line in the buffer is the next one: process_input executes it while the program
\* takes commands, and may end the program.
LEMMA ProcessExecutes ==
  ASSUME TypeOK, Ownership, LinesInOrder, RunsWhileOpen, Process
  PROVE  \E last \in BOOLEAN : Commands!Execute(last)
<1>1. /\ main = "process" /\ app /\ buffer # Empty /\ buffer \in Line
      /\ executed' = Append(executed, <<buffer, tokens>>)
      /\ UNCHANGED typed
  BY DEF Process, RunsWhileOpen, Ownership, MainHolds, TypeOK
<1>2. Executed' = Append(Executed, buffer)
  BY <1>1, ExecutedAppend
<1>3. /\ Executed \in Seq(Line) /\ NonEmpty(input) \in Seq(Line) /\ NonEmpty(typed) \in Seq(Line)
  BY ExecutedType, NonEmptyType DEF TypeOK
<1>4. NonEmpty(typed) = (Executed \o <<buffer>>) \o NonEmpty(input)
  BY <1>1 DEF LinesInOrder, InHand
<1>5. PICK d \in Seq(Line), r \in Seq(Line), a \in Seq(Line), b \in Line :
        d = Executed /\ r = NonEmpty(input) /\ a = NonEmpty(typed) /\ b = buffer
  BY <1>1, <1>3
<1>6. a = (d \o <<b>>) \o r
  BY <1>4, <1>5
<1>7. Len(d) < Len(a) /\ a[Len(d) + 1] = b
  BY <1>6
<1>8. app' = ~ IsExit /\ IsExit \in BOOLEAN
  <2>1. app' = (app /\ ~ IsExit)
    BY DEF Process
  <2>2. app = TRUE
    BY <1>1 DEF TypeOK
  <2> QED
    BY <2>1, <2>2 DEF IsExit
<1>9. /\ Len(Executed) < Len(NonEmpty(typed))
      /\ Executed' = Append(Executed, NonEmpty(typed)[Len(Executed) + 1])
      /\ NonEmpty(typed') = NonEmpty(typed)
  BY <1>1, <1>2, <1>5, <1>7
<1>10. Commands!Execute(IsExit)
  BY <1>1, <1>8, <1>9 DEF Commands!Execute
<1> QED
  BY <1>8, <1>10

LEMMA CommandsNext ==
  TypeOK /\ Ownership /\ LinesInOrder /\ RunsWhileOpen /\ [Next]_vars
    => [Commands!Next]_(Commands!vars)
<1> SUFFICES ASSUME TypeOK, Ownership, LinesInOrder, RunsWhileOpen, [Next]_vars
             PROVE  [Commands!Next]_(Commands!vars)
  OBVIOUS
<1>1. ASSUME NEW l \in Line, Type(l) PROVE [Commands!Next]_(Commands!vars)
  BY <1>1, TypeEnters DEF Commands!Next
<1>2. CASE Process
  BY <1>2, ProcessExecutes DEF Commands!Next
<1>3. CASE ~ Process /\ ~ (\E l \in Line : Type(l))
  <2>1. UNCHANGED <<typed, executed, app>>
    BY <1>3 DEF Next, Ui, Main, SpuriousWakeup, UiLoop, UiTest, UiBlock, UiCheck, UiGet, UiCopy,
                UiPush, UiNotify, MainLoop, MainTest, MainBlock, MainCheck, StopUi, NotifyAll,
                ClearBuffer, ClearTokens, MainNotify, JoinUi, vars, mainVars
  <2> QED
    BY <2>1 DEF Commands!vars, Executed
<1> QED
  BY <1>1, <1>2, <1>3

\* The console of either program executes the commands typed in order, each once, and
\* none after the one that stops the program.
THEOREM Implements == Spec => ImplementsCommandQueue
<1>1. Init /\ [][Next]_vars => [](TypeOK /\ Ownership /\ LinesInOrder /\ RunsWhileOpen)
  BY TypeInit, TypeNext, OwnershipInit, OwnershipNext, LinesInit, LinesNext, OpenInit, OpenNext,
     PTL
<1> QED
  BY <1>1, CommandsInit, CommandsNext, PTL DEF Spec, ImplementsCommandQueue, Commands!Spec

-----------------------------------------------------------------------------
(* The words executed are those of the line, for a user who waits.         *)

LEMMA CalmInit == Init => CalmHandOver /\ CalmWords
<1> SUFFICES ASSUME Init PROVE CalmHandOver /\ CalmWords
  OBVIOUS
<1>1. Len(<<>>) = 0 /\ Words[Empty] = <<>>
  BY LineAssumption
<1> QED
  BY <1>1 DEF Init, CalmHandOver, CalmWords

LEMMA MoveHead ==
  \A s, t \in Seq(Token) : t # <<>> => Append(s, Head(t)) \o Tail(t) = s \o t
<1> SUFFICES ASSUME NEW s \in Seq(Token), NEW t \in Seq(Token), t # <<>>
             PROVE  Append(s, Head(t)) \o Tail(t) = s \o t
  OBVIOUS
<1>0. Head(t) \in Token /\ Tail(t) \in Seq(Token)
  OBVIOUS
<1>1. PICK e \in Token, u \in Seq(Token) : e = Head(t) /\ u = Tail(t)
  BY <1>0
<1>2. <<e>> \in Seq(Token) /\ <<e>> \o u = t
  BY <1>1
<1>3. (s \o <<e>>) \o u = s \o (<<e>> \o u)
  <2>1. <<e>> \in Seq(Token)
    BY <1>2
  <2> QED
    BY <2>1, WordsAssociate, Zenon
<1>4. s \o <<e>> = Append(s, e)
  OBVIOUS
<1> QED
  BY <1>1, <1>2, <1>3, <1>4

LEMMA CalmNext ==
  TypeOK /\ Ownership /\ CalmHandOver /\ [Next]_vars => CalmHandOver'
<1> SUFFICES ASSUME TypeOK, Ownership, CalmHandOver, [Next]_vars, calm' PROVE CalmHandOver'
  BY DEF CalmHandOver
<1> USE DEF uiVars, mainVars, WakeUi, WakeMain
<1>0. calm /\ Words[Empty] = <<>> /\ input \in Seq(Line) /\ buffer \in Line
      /\ Words[buffer] \in Seq(Token) /\ tokens \in Seq(Token) /\ iss \in Seq(Token)
  <2>1. calm
    <3>1. calm' = calm \/ calm' = FALSE \/ \E l \in Line : Type(l)
      BY DEF Next, Ui, Main, SpuriousWakeup, UiLoop, UiTest, UiBlock, UiCheck, UiGet, UiCopy,
             UiPush, UiNotify, MainLoop, MainTest, MainBlock, MainCheck, Process, StopUi,
             NotifyAll, ClearBuffer, ClearTokens, MainNotify, JoinUi, vars
    <3>2. (\E l \in Line : Type(l)) => calm
      BY DEF Type
    <3> QED
      BY <3>1, <3>2
  <2> QED
    BY <2>1, LineAssumption DEF TypeOK
<1>1. ASSUME NEW l \in Line, Type(l) PROVE CalmHandOver'
  <2>1. input = <<>> /\ ui = "get" /\ main = "wait" /\ input' = Append(input, l)
        /\ UNCHANGED <<buffer, tokens, ui, iss, main>>
    BY <1>1 DEF Type, Queued
  <2>2. Len(input') = 1
    BY <1>0, <2>1
  <2> QED
    BY <1>0, <2>1, <2>2 DEF CalmHandOver
<1>2. CASE SpuriousWakeup
  BY <1>2 DEF SpuriousWakeup
<1>3. CASE UiLoop \/ UiTest \/ UiBlock \/ UiCheck
  BY <1>0, <1>3 DEF UiLoop, UiTest, UiBlock, UiCheck, CalmHandOver
<1>4. CASE UiGet
  <2>1. input # <<>> /\ main = "wait" /\ buffer = Empty /\ tokens = <<>> /\ Len(input) <= 1
    BY <1>0, <1>4 DEF UiGet, CalmHandOver, Ownership
  <2>2. Tail(input) = <<>> /\ Len(Tail(input)) <= 1
    BY <1>0, <2>1
  <2> QED
    BY <1>4, <2>1, <2>2 DEF UiGet, CalmHandOver
<1>5. CASE UiCopy
  <2>1. <<>> \o Words[buffer] = Words[buffer]
    BY <1>0
  <2> QED
    BY <1>0, <1>5, <2>1 DEF UiCopy, CalmHandOver
<1>6. CASE UiPush
  <2>1. iss # <<>> /\ tokens' = Append(tokens, Head(iss)) /\ iss' = Tail(iss) /\ ui = "push"
        /\ UNCHANGED <<input, buffer, ui, main, calm>>
    BY <1>6 DEF UiPush
  <2>2. Append(tokens, Head(iss)) \o Tail(iss) = tokens \o iss
    BY <1>0, <2>1, MoveHead
  <2> QED
    BY <1>0, <2>1, <2>2 DEF CalmHandOver
<1>7. CASE UiNotify
  <2>1. tokens \o <<>> = tokens
    BY <1>0
  <2> QED
    BY <1>0, <1>7, <2>1 DEF UiNotify, CalmHandOver
<1>8. CASE MainLoop \/ MainTest \/ MainBlock \/ MainCheck
  BY <1>0, <1>8 DEF MainLoop, MainTest, MainBlock, MainCheck, CalmHandOver
<1>9. CASE Process \/ StopUi \/ NotifyAll
  BY <1>0, <1>9 DEF Process, StopUi, NotifyAll, CalmHandOver
<1>10. CASE ClearBuffer \/ ClearTokens \/ MainNotify \/ JoinUi
  BY <1>0, <1>10 DEF ClearBuffer, ClearTokens, MainNotify, JoinUi, CalmHandOver
<1>11. CASE UNCHANGED vars
  BY <1>11 DEF vars, CalmHandOver
<1> QED
  BY <1>1, <1>2, <1>3, <1>4, <1>5, <1>6, <1>7, <1>8, <1>9, <1>10, <1>11 DEF Next, Ui, Main

LEMMA WordsNext ==
  TypeOK /\ CalmHandOver /\ CalmWords /\ [Next]_vars => CalmWords'
<1> SUFFICES ASSUME TypeOK, CalmHandOver, CalmWords, [Next]_vars, calm' PROVE CalmWords'
  BY DEF CalmWords
<1> USE DEF uiVars, mainVars
<1>1. CASE Process
  <2>1. /\ calm /\ main = "process"
        /\ executed' = Append(executed, <<buffer, tokens>>)
    BY <1>1 DEF Process
  <2>2. tokens = Words[buffer]
    BY <2>1 DEF CalmHandOver
  <2>3. executed \in Seq(Line \X Seq(Token))
    BY DEF TypeOK
  <2>4. ASSUME NEW i \in 1..Len(executed') PROVE executed'[i][2] = Words[executed'[i][1]]
    <3>1. i \in 1..Len(executed) \/ executed'[i] = <<buffer, tokens>>
      BY <2>1, <2>3
    <3>2. i \in 1..Len(executed) => executed'[i] = executed[i]
      BY <2>1, <2>3
    <3> QED
      BY <2>1, <2>2, <3>1, <3>2 DEF CalmWords
  <2> QED
    BY <2>4 DEF CalmWords
<1>2. CASE ~ Process
  <2>1. UNCHANGED executed
    BY <1>2 DEF Next, Ui, Main, Type, SpuriousWakeup, UiLoop, UiTest, UiBlock, UiCheck, UiGet,
                UiCopy, UiPush, UiNotify, MainLoop, MainTest, MainBlock, MainCheck, StopUi,
                NotifyAll, ClearBuffer, ClearTokens, MainNotify, JoinUi, vars
  <2>2. calm' => calm
    BY DEF Next, Ui, Main, Type, SpuriousWakeup, UiLoop, UiTest, UiBlock, UiCheck, UiGet,
           UiCopy, UiPush, UiNotify, MainLoop, MainTest, MainBlock, MainCheck, Process, StopUi,
           NotifyAll, ClearBuffer, ClearTokens, MainNotify, JoinUi, vars
  <2> QED
    BY <2>1, <2>2 DEF CalmWords
<1> QED
  BY <1>1, <1>2

\* For a user who types a line only when both threads rest, the words executed are those of
\* the line, whatever the lines are and however many he types.
THEOREM WordsOfTheLine == Spec => []CalmWords
BY TypeInit, TypeNext, OwnershipInit, OwnershipNext, CalmInit, CalmNext, WordsNext,
   PTL DEF Spec

=============================================================================
