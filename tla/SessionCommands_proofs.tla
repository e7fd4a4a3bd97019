----------------------- MODULE SessionCommands_proofs -----------------------
(***************************************************************************)
(* The two threads of a session, for any commands, uploads and bounds: the *)
(* sender never sleeps on an answer, a logout is final, each socket has    *)
(* one reader, and the packets of an upload are stored once and in order   *)
(* (the last three as long as no delete was broadcast).                    *)
(***************************************************************************)
EXTENDS SessionCommands, Subsequences_proofs

USE NumberAssumption

LEMMA OtherSession == \A s \in Session : Other(s) \in Session
BY SessionAssumption DEF Other

LEMMA TypeInit == Init => TypeOK
<1>1. /\ <<>> \in Seq(Packet) /\ <<>> \in Seq({"answer", "listing"})
      /\ <<>> \in Seq(Session \X (0..Chunks))
  OBVIOUS
<1> QED
  BY <1>1 DEF Init, TypeOK, All, Self

LEMMA TypeNext == TypeOK /\ [Next]_vars => TypeOK'
<1> SUFFICES ASSUME TypeOK, [Next]_vars PROVE TypeOK'
  OBVIOUS
<1> USE DEF clientVars, rxVars, diskVars
<1>1. ASSUME NEW s \in Session, NEW c \in Cmd, Send(s, c) PROVE TypeOK'
  <2>1. /\ inbox' \in [Session -> Seq(Packet)]
        /\ sent' \in [Session -> Nat] /\ chunk' \in [Session -> 0..Chunks]
    <3>1. CASE c = "sdownload"
      <4>1. <<c, chunk[s]>> \in Packet /\ chunk[s] + 1 \in 0..Chunks
        BY <1>1, <3>1 DEF Send, Packet, TypeOK
      <4>2. Append(inbox[s], <<c, chunk[s]>>) \in Seq(Packet)
        BY <4>1 DEF TypeOK
      <4>3. /\ inbox' = [inbox EXCEPT ![s] = Append(inbox[s], <<c, chunk[s]>>)]
            /\ sent' = [sent EXCEPT ![s] = sent[s] + 1]
            /\ chunk' = [chunk EXCEPT ![s] = chunk[s] + 1]
        BY <1>1, <3>1 DEF Send
      <4>4. /\ inbox \in [Session -> Seq(Packet)] /\ sent \in [Session -> Nat]
            /\ chunk \in [Session -> 0..Chunks] /\ sent[s] + 1 \in Nat
        BY DEF TypeOK
      <4> QED
        BY <4>1, <4>2, <4>3, <4>4
    <3>2. CASE c # "sdownload"
      <4>1. <<c, 0>> \in Packet
        BY DEF Packet
      <4>2. Append(inbox[s], <<c, 0>>) \in Seq(Packet)
        BY <4>1 DEF TypeOK
      <4>3. /\ inbox' = [inbox EXCEPT ![s] = Append(inbox[s], <<c, 0>>)]
            /\ sent' = [sent EXCEPT ![s] = sent[s] + 1] /\ chunk' = chunk
        BY <1>1, <3>2 DEF Send
      <4>4. /\ inbox \in [Session -> Seq(Packet)] /\ sent \in [Session -> Nat]
            /\ chunk \in [Session -> 0..Chunks] /\ sent[s] + 1 \in Nat
        BY DEF TypeOK
      <4> QED
        BY <4>2, <4>3, <4>4
    <3> QED
      BY <3>1, <3>2
  <2> QED
    BY <1>1, <2>1 DEF Send, TypeOK
<1>2. CASE Restart
  <2>1. /\ <<>> \in Seq(Packet) /\ <<>> \in Seq({"answer", "listing"})
    OBVIOUS
  <2>2. /\ inbox' \in [Session -> Seq(Packet)] /\ chunk' \in [Session -> 0..Chunks]
        /\ queue' \in [Session -> Seq({"answer", "listing"})]
        /\ owner' \in [Session -> Session] /\ nested' \in [Session -> BOOLEAN]
        /\ runRx' \in [Session -> BOOLEAN] /\ runTx' \in [Session -> BOOLEAN]
    BY <1>2, <2>1 DEF Restart, All, Self
  <2>3. /\ hand' \in [Session -> Packet \cup {<<>>}]
        /\ \A s \in Session : rx'[s] = "start" /\ tx'[s] = "start"
        /\ rx' = All("start") /\ tx' = All("start")
    BY <1>2 DEF Restart, All
  <2>4. /\ sent' \in [Session -> Nat] /\ temp' \in Seq(Session \X (0..Chunks))
        /\ alive' \in BOOLEAN /\ restarts' \in Nat /\ calm' \in BOOLEAN
    <3>1. /\ sent' = sent /\ temp' = temp /\ alive' = TRUE /\ calm' = FALSE
          /\ restarts' = restarts + 1
      BY <1>2 DEF Restart
    <3>2. alive' \in BOOLEAN /\ calm' \in BOOLEAN
      BY <3>1
    <3>3. sent \in [Session -> Nat] /\ temp \in Seq(Session \X (0..Chunks)) /\ restarts \in Nat
      BY DEF TypeOK
    <3> QED
      BY <3>1, <3>2, <3>3
  <2>5. rx' \in [Session -> {"start", "loop", "receive", "handle", "notify", "erase", "done"}]
    BY <2>3 DEF All
  <2>6. tx' \in [Session -> {"start", "test", "wait", "check", "send", "done"}]
    BY <2>3 DEF All
  <2>7. \A s \in Session : rx'[s] = "handle" => hand'[s] \in Packet
    BY <2>3
  <2> QED
    BY <2>2, <2>3, <2>4, <2>5, <2>6, <2>7 DEF TypeOK
<1>3. ASSUME NEW s \in Session, RxStart(s) \/ RxLoop(s) \/ RxFails(s) PROVE TypeOK'
  <2>1. CASE RxStart(s)
    BY <2>1 DEF RxStart, TypeOK
  <2>2. CASE RxLoop(s)
    BY <2>2 DEF RxLoop, TypeOK
  <2>3. CASE RxFails(s)
    <3>1. CASE nested[s]
      BY <2>3, <3>1 DEF RxFails, Raise, Return, TypeOK
    <3>2. CASE ~ nested[s]
      BY <2>3, <3>2 DEF RxFails, Raise, TypeOK
    <3> QED
      BY <3>1, <3>2
  <2> QED
    BY <1>3, <2>1, <2>2, <2>3
<1>4. ASSUME NEW s \in Session, RxReceive(s) PROVE TypeOK'
  <2> DEFINE o == owner[s]
  <2>1. inbox[o] \in Seq(Packet) /\ inbox[o] # <<>> /\ o \in Session
    BY <1>4 DEF RxReceive, TypeOK
  <2>2. Head(inbox[o]) \in Packet /\ Tail(inbox[o]) \in Seq(Packet)
    BY <2>1
  <2> QED
    BY <1>4, <2>1, <2>2 DEF RxReceive, TypeOK
<1>5. ASSUME NEW s \in Session, Answer(s) \/ List(s) PROVE TypeOK'
  <2> DEFINE o == owner[s]
  <2>1. queue' \in [Session -> Seq({"answer", "listing"})]
    <3>1. o \in Session /\ queue[o] \in Seq({"answer", "listing"})
      BY DEF TypeOK
    <3>2. /\ Append(queue[o], "answer") \in Seq({"answer", "listing"})
          /\ Append(queue[o], "listing") \in Seq({"answer", "listing"})
      BY <3>1
    <3> QED
      BY <1>5, <3>1, <3>2 DEF Answer, List, Push, TypeOK
  <2>2. CASE Answer(s)
    BY <2>1, <2>2 DEF Answer, Handling, TypeOK
  <2>3. CASE List(s)
    BY <2>1, <2>3 DEF List, Return, TypeOK
  <2> QED
    BY <1>5, <2>2, <2>3
<1>6. ASSUME NEW s \in Session,
             Notify(s) \/ ListHandled(s) \/ Fail(s) \/ Ignore(s) \/ Logout(s)
      PROVE  TypeOK'
  <2>1. CASE Notify(s)
    <3>1. CASE hand[s][1] = "clist"
      BY <2>1, <3>1 DEF Notify, TypeOK
    <3>2. CASE hand[s][1] # "clist"
      BY <2>1, <3>2 DEF Notify, Return, TypeOK
    <3> QED
      BY <3>1, <3>2
  <2>5. CASE ListHandled(s)
    BY <2>5 DEF ListHandled, Return, TypeOK
  <2>2. CASE Fail(s)
    <3>1. CASE nested[s]
      BY <2>2, <3>1 DEF Fail, Raise, Return, TypeOK
    <3>2. CASE ~ nested[s]
      BY <2>2, <3>2 DEF Fail, Raise, TypeOK
    <3> QED
      BY <3>1, <3>2
  <2>3. CASE Ignore(s)
    BY <2>3 DEF Ignore, Return, TypeOK
  <2>4. CASE Logout(s)
    BY <2>4 DEF Logout, Return, TypeOK
  <2> QED
    BY <1>6, <2>1, <2>2, <2>3, <2>4, <2>5
<1>7. ASSUME NEW s \in Session, Store(s) PROVE TypeOK'
  <2>1. hand[s][2] \in 0..Chunks
    BY <1>7 DEF Store, Handling, TypeOK, Packet
  <2>2. temp' \in Seq(Session \X (0..Chunks))
    <3>2. <<owner[s], hand[s][2]>> \in Session \X (0..Chunks)
      BY <2>1 DEF TypeOK
    <3>3. temp \in Seq(Session \X (0..Chunks))
      BY DEF TypeOK
    <3>4. Append(temp, <<owner[s], hand[s][2]>>) \in Seq(Session \X (0..Chunks))
      BY <3>2, <3>3
    <3>5. temp' = Append(temp, <<owner[s], hand[s][2]>>) \/ temp' = temp
      BY <1>7 DEF Store, Appended
    <3> QED
      BY <3>3, <3>4, <3>5
  <2> QED
    BY <1>7, <2>2 DEF Store, Raise, Return, TypeOK
<1>8. ASSUME NEW s \in Session, Broadcast(s) PROVE TypeOK'
  <2>1. owner' \in [Session -> Session]
    BY <1>8, OtherSession DEF Broadcast, TypeOK
  <2> QED
    BY <1>8, <2>1 DEF Broadcast, TypeOK
<1>9. ASSUME NEW s \in Session, Erase(s) \/ TxSend(s) PROVE TypeOK'
  BY <1>9 DEF Erase, TxSend, Abort, TypeOK
<1>10. ASSUME NEW s \in Session, TxStart(s) \/ TxTest(s) \/ TxCheck(s) \/ SpuriousWakeup(s)
       PROVE  TypeOK'
  BY <1>10 DEF TxStart, TxTest, TxCheck, SpuriousWakeup, TypeOK
<1>11. CASE UNCHANGED vars
  BY <1>11 DEF vars, TypeOK
<1> QED
  BY <1>1, <1>2, <1>3, <1>4, <1>5, <1>6, <1>7, <1>8, <1>9, <1>10, <1>11 DEF Next, Rx, Tx

\* Type correctness of the sessions.
THEOREM TypeCorrect == Spec => []TypeOK
BY TypeInit, TypeNext, PTL DEF Spec

-----------------------------------------------------------------------------
LEMMA NoForgottenInit == Init => NoForgottenAnswer
BY DEF Init, NoForgottenAnswer, All

\* A step that neither puts a sender to sleep nor adds an answer nor ends a notify.
LEMMA NoForgottenFrame ==
  ASSUME NoForgottenAnswer,
         \A s \in Session : tx'[s] = "wait" => tx[s] = "wait",
         \A s \in Session : HasAnswer(s)' => HasAnswer(s),
         \A t \in Session : rx[t] = "notify" => rx'[t] = "notify" /\ owner'[t] = owner[t]
  PROVE  NoForgottenAnswer'
BY DEF NoForgottenAnswer

LEMMA NoForgottenNext == TypeOK /\ NoForgottenAnswer /\ [Next]_vars => NoForgottenAnswer'
<1> SUFFICES ASSUME TypeOK, NoForgottenAnswer, [Next]_vars PROVE NoForgottenAnswer'
  OBVIOUS
<1> USE DEF clientVars, rxVars, diskVars
<1>1. ASSUME NEW s \in Session, NEW c \in Cmd, Send(s, c) PROVE NoForgottenAnswer'
  BY <1>1, NoForgottenFrame DEF Send, HasAnswer
<1>2. CASE Restart
  BY <1>2 DEF Restart, NoForgottenAnswer, All
<1>3. ASSUME NEW s \in Session,
             \/ RxStart(s) \/ RxLoop(s) \/ RxReceive(s) \/ RxFails(s) \/ Fail(s)
             \/ Ignore(s) \/ Logout(s) \/ Store(s) \/ Broadcast(s) \/ ListHandled(s)
      PROVE NoForgottenAnswer'
  <2>1. UNCHANGED <<tx, queue>> /\ rx[s] # "notify"
    BY <1>3 DEF RxStart, RxLoop, RxReceive, RxFails, Fail, Ignore, Logout, Store, Broadcast,
                ListHandled, Handling
  <2>2. \A t \in Session : t # s => rx'[t] = rx[t] /\ owner'[t] = owner[t]
    BY <1>3 DEF RxStart, RxLoop, RxReceive, RxFails, Fail, Ignore, Logout, Store, Broadcast,
                ListHandled, Raise, Return, TypeOK
  <2> QED
    BY <2>1, <2>2, NoForgottenFrame DEF HasAnswer
<1>4. ASSUME NEW s \in Session, Answer(s) PROVE NoForgottenAnswer'
  <2> SUFFICES ASSUME NEW q \in Session, tx'[q] = "wait", HasAnswer(q)'
               PROVE  \E t \in Session : rx'[t] = "notify" /\ owner'[t] = q
    BY DEF NoForgottenAnswer
  <2>1. CASE q = owner[s]
    BY <1>4, <2>1 DEF Answer, TypeOK
  <2>2. CASE q # owner[s]
    <3>1. HasAnswer(q) /\ tx[q] = "wait"
      BY <1>4, <2>2 DEF Answer, Push, HasAnswer, TypeOK
    <3>2. PICK t \in Session : rx[t] = "notify" /\ owner[t] = q
      BY <3>1 DEF NoForgottenAnswer
    <3> QED
      BY <1>4, <3>2 DEF Answer, Handling, TypeOK
  <2> QED
    BY <2>1, <2>2
<1>5. ASSUME NEW s \in Session, Notify(s) PROVE NoForgottenAnswer'
  <2> SUFFICES ASSUME NEW q \in Session, tx'[q] = "wait", HasAnswer(q)'
               PROVE  \E t \in Session : rx'[t] = "notify" /\ owner'[t] = q
    BY DEF NoForgottenAnswer
  <2>1. q # owner[s] /\ tx[q] = "wait" /\ HasAnswer(q)
    BY <1>5 DEF Notify, HasAnswer, TypeOK
  <2>2. PICK t \in Session : rx[t] = "notify" /\ owner[t] = q
    BY <2>1 DEF NoForgottenAnswer
  <2> QED
    BY <1>5, <2>1, <2>2 DEF Notify, Return, TypeOK
<1>6. ASSUME NEW s \in Session, List(s) PROVE NoForgottenAnswer'
  <2>1. \A q \in Session : HasAnswer(q)' => HasAnswer(q)
    <3> SUFFICES ASSUME NEW q \in Session, NEW i \in 1..Len(queue'[q]), queue'[q][i] = "answer"
                 PROVE  HasAnswer(q)
      BY DEF HasAnswer
    <3>1. CASE q # owner[s]
      BY <1>6, <3>1 DEF List, Push, HasAnswer, TypeOK
    <3>2. CASE q = owner[s]
      <4>1. queue[q] \in Seq({"answer", "listing"}) /\ queue'[q] = Append(queue[q], "listing")
        BY <1>6, <3>2 DEF List, Push, TypeOK
      <4>2. i \in 1..Len(queue[q]) /\ queue[q][i] = "answer"
        BY <4>1
      <4> QED
        BY <4>2 DEF HasAnswer
    <3> QED
      BY <3>1, <3>2
  <2>2. UNCHANGED <<tx, owner>> /\ rx[s] = "handle"
        /\ \A t \in Session : t # s => rx'[t] = rx[t]
    BY <1>6 DEF List, Return, Handling, TypeOK
  <2> QED
    BY <2>1, <2>2, NoForgottenFrame
<1>7. ASSUME NEW s \in Session,
             Erase(s) \/ TxSend(s) \/ TxStart(s) \/ TxCheck(s) \/ SpuriousWakeup(s)
      PROVE  NoForgottenAnswer'
  <2>1. \A q \in Session : tx'[q] = "wait" => tx[q] = "wait"
    BY <1>7 DEF Erase, TxSend, Abort, TxStart, TxCheck, SpuriousWakeup, TypeOK
  <2>2. UNCHANGED <<queue, rx, owner>>
    BY <1>7 DEF Erase, TxSend, Abort, TxStart, TxCheck, SpuriousWakeup
  <2> QED
    BY <2>1, <2>2, NoForgottenFrame DEF HasAnswer
<1>8. ASSUME NEW s \in Session, TxTest(s) PROVE NoForgottenAnswer'
  <2> SUFFICES ASSUME NEW q \in Session, tx'[q] = "wait", HasAnswer(q)'
               PROVE  \E t \in Session : rx'[t] = "notify" /\ owner'[t] = q
    BY DEF NoForgottenAnswer
  <2>1. UNCHANGED <<queue, rx, owner>> /\ HasAnswer(q) /\ queue[q] # <<>>
    BY <1>8 DEF TxTest, HasAnswer, TypeOK
  <2>2. tx[q] = "wait"
    BY <1>8, <2>1 DEF TxTest, TypeOK
  <2> QED
    BY <2>1, <2>2 DEF NoForgottenAnswer
<1>9. CASE UNCHANGED vars
  BY <1>9, NoForgottenFrame DEF vars, HasAnswer
<1> QED
  BY <1>1, <1>2, <1>3, <1>4, <1>5, <1>6, <1>7, <1>8, <1>9 DEF Next, Rx, Tx

\* The sender of a session sleeps on an answer only between the push and the notify.
THEOREM NothingForgotten == Spec => []NoForgottenAnswer
BY TypeInit, TypeNext, NoForgottenInit, NoForgottenNext, PTL DEF Spec

-----------------------------------------------------------------------------
(* A logout is final.  As long as no delete was broadcast every thread     *)
(* acts for its own session, so its handlers return to the loop it tests.  *)

LogoutInv ==
  calm => \A s \in Session : /\ owner[s] = s /\ ~ nested[s]
                             /\ ~ runRx[s] => rx[s] \in {"loop", "done"}

LEMMA LogoutInit == Init => LogoutInv
BY DEF Init, LogoutInv, All, Self

\* A step that changes no receiver thread and no flag of one.
LEMMA LogoutFrame ==
  ASSUME LogoutInv, UNCHANGED <<rx, owner, nested, runRx, calm>>
  PROVE  LogoutInv'
BY DEF LogoutInv

LEMMA LogoutNext == TypeOK /\ LogoutInv /\ [Next]_vars => LogoutInv'
<1> SUFFICES ASSUME TypeOK, LogoutInv, [Next]_vars PROVE LogoutInv'
  OBVIOUS
<1> USE DEF clientVars, rxVars, diskVars
<1>1. ASSUME NEW s \in Session, NEW c \in Cmd, Send(s, c) PROVE LogoutInv'
  BY <1>1, LogoutFrame DEF Send
<1>2. CASE Restart
  BY <1>2 DEF Restart, LogoutInv
<1>3. ASSUME NEW s \in Session, RxStart(s) \/ RxLoop(s) \/ RxReceive(s) PROVE LogoutInv'
  <2>1. CASE RxStart(s)
    BY <2>1 DEF RxStart, LogoutInv, TypeOK
  <2>2. CASE RxLoop(s)
    BY <2>2 DEF RxLoop, LogoutInv, TypeOK
  <2>3. CASE RxReceive(s)
    BY <2>3 DEF RxReceive, LogoutInv, TypeOK
  <2> QED
    BY <1>3, <2>1, <2>2, <2>3
<1>4. ASSUME NEW s \in Session, RxFails(s) \/ Fail(s) PROVE LogoutInv'
  <2>1. CASE nested[s]
    BY <1>4, <2>1 DEF RxFails, Fail, LogoutInv
  <2>2. CASE ~ nested[s]
    BY <1>4, <2>2, LogoutFrame DEF RxFails, Fail, Raise
  <2> QED
    BY <2>1, <2>2
<1>5. ASSUME NEW s \in Session,
             Answer(s) \/ Notify(s) \/ ListHandled(s) \/ List(s) \/ Ignore(s)
      PROVE  LogoutInv'
  <2>1. UNCHANGED <<owner, nested, runRx, calm>> /\ rx[s] \in {"handle", "notify"}
    BY <1>5 DEF Answer, Notify, ListHandled, List, Ignore, Handling
  <2>2. \A t \in Session : t # s => rx'[t] = rx[t]
    BY <1>5 DEF Answer, Notify, ListHandled, List, Ignore, Return, TypeOK
  <2> QED
    BY <2>1, <2>2 DEF LogoutInv
<1>6. ASSUME NEW s \in Session, Logout(s) PROVE LogoutInv'
  BY <1>6 DEF Logout, Return, LogoutInv, TypeOK
<1>7. ASSUME NEW s \in Session, Store(s) PROVE LogoutInv'
  <2>1. UNCHANGED <<owner, nested, runRx, calm>> /\ rx[s] = "handle"
    BY <1>7 DEF Store, Handling
  <2>2. \A t \in Session : t # s => rx'[t] = rx[t]
    BY <1>7 DEF Store, Raise, Return, TypeOK
  <2> QED
    BY <2>1, <2>2 DEF LogoutInv
<1>8. ASSUME NEW s \in Session, Broadcast(s) PROVE LogoutInv'
  BY <1>8 DEF Broadcast, LogoutInv
<1>9. ASSUME NEW s \in Session,
             \/ Erase(s) \/ TxStart(s) \/ TxTest(s) \/ TxCheck(s) \/ TxSend(s)
             \/ SpuriousWakeup(s)
      PROVE  LogoutInv'
  BY <1>9, LogoutFrame DEF Erase, TxSend, Abort, TxStart, TxTest, TxCheck, SpuriousWakeup
<1>10. CASE UNCHANGED vars
  BY <1>10, LogoutFrame DEF vars
<1> QED
  BY <1>1, <1>2, <1>3, <1>4, <1>5, <1>6, <1>7, <1>8, <1>9, <1>10 DEF Next, Rx, Tx

\* After its exit packet a session's receiver handles nothing, for any commands and
\* bounds, as long as the other session's thread does not read its socket.
THEOREM LogoutFinal == Spec => []NothingAfterLogout
<1>1. LogoutInv => NothingAfterLogout
  BY DEF LogoutInv, NothingAfterLogout
<1> QED
  BY <1>1, TypeInit, TypeNext, LogoutInit, LogoutNext, PTL DEF Spec

\* A session's socket has one reader, its own receiver thread, until a delete is broadcast:
\* the hypothesis under which the transport delivers whole packets.
THEOREM OwnSocketOnly ==
  Spec => [](calm => \A s, t \in Session : owner[t] = s => t = s)
<1>1. LogoutInv => (calm => \A s, t \in Session : owner[t] = s => t = s)
  BY DEF LogoutInv
<1> QED
  BY <1>1, TypeInit, TypeNext, LogoutInit, LogoutNext, PTL DEF Spec

-----------------------------------------------------------------------------
(* The temporary file holds each device's packets once and in order.       *)

LEMMA WaitingType == ASSUME TypeOK, NEW s \in Session PROVE Waiting(s) \in Seq(Packet)
<1>1. inbox[s] \in Seq(Packet)
  BY DEF TypeOK
<1>2. Kept(inbox[s], {"sdownload"} \X (0..Chunks))
        \in Seq(Packet \cap ({"sdownload"} \X (0..Chunks)))
  BY <1>1, KeptType
<1> QED
  BY <1>2, SeqMonotonic DEF Waiting

LEMMA OwnType ==
  ASSUME TypeOK, NEW s \in Session PROVE Own(s) \in Seq(Session \X (0..Chunks))
<1>1. temp \in Seq(Session \X (0..Chunks))
  BY DEF TypeOK
<1>2. Kept(temp, {s} \X (0..Chunks))
        \in Seq((Session \X (0..Chunks)) \cap ({s} \X (0..Chunks)))
  BY <1>1, KeptType
<1> QED
  BY <1>2, SeqMonotonic DEF Own

ChunksInv == UploadNumbers /\ OwnChunksInOrder

LEMMA ChunksInit == Init => ChunksInv
<1> SUFFICES ASSUME Init PROVE ChunksInv
  OBVIOUS
<1>1. \A A : Kept(<<>>, A) = <<>>
  BY KeptEmpty
<1>2. \A s \in Session : Own(s) = <<>> /\ Waiting(s) = <<>> /\ Held(s) = 0 /\ chunk[s] = 0
  BY <1>1 DEF Init, Own, Waiting, Held, All
<1>3. Len(<<>>) = 0
  OBVIOUS
<1> QED
  BY <1>2, <1>3 DEF ChunksInv, UploadNumbers, OwnChunksInOrder

\* A step that neither moves a packet of an upload nor stores one.
LEMMA ChunksFrame ==
  ASSUME ChunksInv, UNCHANGED <<temp, inbox, chunk>>, calm' => calm, alive' => alive,
         alive' => \A s \in Session : Held(s)' = Held(s) /\ (Held(s) = 1 => hand'[s] = hand[s])
  PROVE  ChunksInv'
<1>1. \A s \in Session : Own(s)' = Own(s) /\ Waiting(s)' = Waiting(s)
  BY DEF Own, Waiting
<1>2. OwnChunksInOrder'
  BY <1>1 DEF ChunksInv, OwnChunksInOrder
<1>3. UploadNumbers'
  <2> SUFFICES ASSUME calm', alive', NEW s \in Session
               PROVE  /\ Held(s)' = 1 => hand'[s][2] = Len(Own(s)')
                      /\ \A i \in 1..Len(Waiting(s)') :
                           Waiting(s)'[i][2] = Len(Own(s)') + Held(s)' + i - 1
                      /\ chunk'[s] = Len(Own(s)') + Held(s)' + Len(Waiting(s)')
    BY DEF UploadNumbers
  <2>1. /\ Held(s) = 1 => hand[s][2] = Len(Own(s))
        /\ \A i \in 1..Len(Waiting(s)) : Waiting(s)[i][2] = Len(Own(s)) + Held(s) + i - 1
        /\ chunk[s] = Len(Own(s)) + Held(s) + Len(Waiting(s))
    BY DEF ChunksInv, UploadNumbers
  <2>2. Own(s)' = Own(s) /\ Waiting(s)' = Waiting(s) /\ Held(s)' = Held(s)
    BY <1>1
  <2> QED
    BY <2>1, <2>2
<1> QED
  BY <1>2, <1>3 DEF ChunksInv

LEMMA SendChunks ==
  ASSUME TypeOK, ChunksInv, NEW q \in Session, NEW c \in Cmd, Send(q, c)
  PROVE  ChunksInv'
<1> USE DEF rxVars, diskVars
<1>1. /\ UNCHANGED <<rx, hand, temp, alive, calm>> /\ alive
      /\ \A s \in Session : Own(s)' = Own(s) /\ Held(s)' = Held(s)
  BY DEF Send, Own, Held
<1>2. OwnChunksInOrder'
  BY <1>1 DEF ChunksInv, OwnChunksInOrder
<1>3. UploadNumbers'
  <2> SUFFICES ASSUME calm, NEW s \in Session
               PROVE  /\ \A i \in 1..Len(Waiting(s)') :
                           Waiting(s)'[i][2] = Len(Own(s)) + Held(s) + i - 1
                      /\ chunk'[s] = Len(Own(s)) + Held(s) + Len(Waiting(s)')
                      /\ Held(s) = 1 => hand[s][2] = Len(Own(s))
    BY <1>1 DEF UploadNumbers
  <2> DEFINE A == {"sdownload"} \X (0..Chunks)
             n == Len(Own(s)) + Held(s)
             w == Waiting(s)
  <2>1. /\ Held(s) = 1 => hand[s][2] = Len(Own(s))
        /\ \A i \in 1..Len(w) : w[i][2] = n + i - 1
        /\ chunk[s] = n + Len(w)
    BY <1>1 DEF ChunksInv, UploadNumbers
  <2>2. w \in Seq(Packet) /\ inbox[s] \in Seq(Packet) /\ chunk[s] \in Nat /\ n \in Nat
    <3>1. Held(s) \in Nat
      BY DEF Held
    <3>2. Len(Own(s)) \in Nat
      BY OwnType, LenProperties
    <3>3. w \in Seq(Packet)
      BY WaitingType
    <3>4. inbox[s] \in Seq(Packet) /\ chunk[s] \in Nat
      BY DEF TypeOK
    <3> QED
      BY <3>1, <3>2, <3>3, <3>4
  <2>3. CASE s # q
    <3>1. inbox'[s] = inbox[s] /\ chunk'[s] = chunk[s]
      BY <2>3 DEF Send, TypeOK
    <3>2. Waiting(s)' = Waiting(s)
      BY <3>1 DEF Waiting
    <3> QED
      BY <2>1, <3>1, <3>2
  <2>4. CASE s = q /\ c = "sdownload"
    <3>1. /\ chunk[s] < Chunks /\ chunk'[s] = chunk[s] + 1
          /\ inbox'[s] = Append(inbox[s], <<c, chunk[s]>>)
      BY <2>4 DEF Send, TypeOK
    <3>2. <<c, chunk[s]>> \in Packet /\ <<c, chunk[s]>> \in A
      BY <2>2, <2>4, <3>1 DEF Packet
    <3>3. Kept(Append(inbox[s], <<c, chunk[s]>>), A) = Append(Kept(inbox[s], A), <<c, chunk[s]>>)
      <4>1. PICK p \in Packet : p = <<c, chunk[s]>>
        BY <3>2
      <4>2. p \in A
        BY <3>2, <4>1
      <4>3. Kept(Append(inbox[s], p), A) = Append(Kept(inbox[s], A), p)
        <5> HIDE DEF A
        <5> QED
          BY <2>2, <4>2, KeptAppend
      <4> QED
        BY <4>1, <4>3
    <3>4. Waiting(s)' = Append(w, <<c, chunk[s]>>)
      BY <3>1, <3>3 DEF Waiting
    <3>5. /\ Len(Append(w, <<c, chunk[s]>>)) = Len(w) + 1
          /\ \A i \in 1..Len(w) : Append(w, <<c, chunk[s]>>)[i] = w[i]
          /\ Append(w, <<c, chunk[s]>>)[Len(w) + 1] = <<c, chunk[s]>>
      BY <2>2, <3>2, AppendProperties
    <3>6. \A i \in 1..Len(w) + 1 : Append(w, <<c, chunk[s]>>)[i][2] = n + i - 1
      <4> TAKE i \in 1..Len(w) + 1
      <4>1. CASE i \in 1..Len(w)
        BY <2>1, <3>5, <4>1
      <4>2. CASE i = Len(w) + 1
        BY <2>1, <2>2, <3>5, <4>2
      <4> QED
        BY <2>2, <4>1, <4>2
    <3> QED
      BY <2>1, <2>2, <3>1, <3>4, <3>5, <3>6
  <2>5. CASE s = q /\ c # "sdownload"
    <3>1. chunk'[s] = chunk[s] /\ inbox'[s] = Append(inbox[s], <<c, 0>>)
      BY <2>5 DEF Send, TypeOK
    <3>2. <<c, 0>> \in Packet /\ <<c, 0>> \notin A
      BY <2>5 DEF Packet
    <3>3. Kept(Append(inbox[s], <<c, 0>>), A) = Kept(inbox[s], A)
      BY <2>2, <3>2, KeptAppend
    <3>4. Waiting(s)' = w
      BY <3>1, <3>3 DEF Waiting
    <3> QED
      BY <2>1, <3>1, <3>4
  <2> QED
    BY <2>3, <2>4, <2>5
<1> QED
  BY <1>2, <1>3 DEF ChunksInv

LEMMA ReceiveChunks ==
  ASSUME TypeOK, LogoutInv, ChunksInv, NEW q \in Session, RxReceive(q), calm
  PROVE  ChunksInv'
<1> USE DEF diskVars
<1>1. /\ owner[q] = q /\ alive /\ UNCHANGED <<chunk, temp, alive, calm>>
      /\ rx[q] = "receive" /\ inbox[q] # <<>> /\ hand'[q] = Head(inbox[q]) /\ rx'[q] = "handle"
      /\ inbox'[q] = Tail(inbox[q])
      /\ \A s \in Session : s # q => /\ inbox'[s] = inbox[s] /\ hand'[s] = hand[s]
                                     /\ rx'[s] = rx[s]
  BY DEF RxReceive, LogoutInv, TypeOK
<1>2. \A s \in Session : Own(s)' = Own(s)
  BY <1>1 DEF Own
<1>3. OwnChunksInOrder'
  BY <1>1, <1>2 DEF ChunksInv, OwnChunksInOrder
<1>4. UploadNumbers'
  <2> SUFFICES ASSUME NEW s \in Session
               PROVE  /\ Held(s)' = 1 => hand'[s][2] = Len(Own(s))
                      /\ \A i \in 1..Len(Waiting(s)') :
                           Waiting(s)'[i][2] = Len(Own(s)) + Held(s)' + i - 1
                      /\ chunk[s] = Len(Own(s)) + Held(s)' + Len(Waiting(s)')
    BY <1>1, <1>2 DEF UploadNumbers
  <2> DEFINE A == {"sdownload"} \X (0..Chunks)
             n == Len(Own(s))
             w == Waiting(s)
             h == Head(inbox[s])
  <2>1. /\ Held(s) = 1 => hand[s][2] = n
        /\ \A i \in 1..Len(w) : w[i][2] = n + Held(s) + i - 1
        /\ chunk[s] = n + Held(s) + Len(w)
    BY <1>1 DEF ChunksInv, UploadNumbers
  <2>2. CASE s # q
    <3>1. Waiting(s)' = w /\ Held(s)' = Held(s) /\ hand'[s] = hand[s]
      BY <1>1, <2>2 DEF Waiting, Held
    <3> QED
      BY <2>1, <3>1
  <2>3. CASE s = q
    <3>1. inbox[s] \in Seq(Packet) /\ inbox[s] # <<>> /\ Held(s) = 0
      BY <1>1, <2>3 DEF Held, TypeOK
    <3>2. Kept(inbox[s], A) = (IF h \in A THEN <<h>> ELSE <<>>) \o Kept(Tail(inbox[s]), A)
      <4> HIDE DEF A
      <4> QED
        BY <3>1, KeptHead
    <3>3. PICK u \in Seq(Packet) : u = Kept(Tail(inbox[s]), A)
      <4>1. Tail(inbox[s]) \in Seq(Packet)
        BY <3>1
      <4>2. Kept(Tail(inbox[s]), A) \in Seq(Packet \cap A)
        <5> HIDE DEF A
        <5> QED
          BY <4>1, KeptType
      <4> QED
        BY <4>2, SeqMonotonic
    <3>4. w = (IF h \in A THEN <<h>> ELSE <<>>) \o u /\ Waiting(s)' = u
      BY <1>1, <2>3, <3>2, <3>3 DEF Waiting
    <3>5. h \in Packet /\ Len(u) \in Nat /\ n \in Nat
      BY <3>1, OwnType, LenProperties
    <3>6. CASE h[1] = "sdownload"
      <4>1. h \in A
        BY <3>5, <3>6 DEF Packet
      <4>2. w = <<h>> \o u
        BY <3>4, <4>1
      <4>3. /\ Len(w) = Len(u) + 1 /\ w[1] = h
            /\ \A i \in 1..Len(u) : i + 1 \in 1..Len(w) /\ w[i + 1] = u[i]
        BY <3>5, <4>2
      <4>4. Held(s)' = 1
        BY <1>1, <2>3, <3>6 DEF Held
      <4>5. h[2] = n
        BY <2>1, <3>1, <3>5, <4>3
      <4>6. \A i \in 1..Len(u) : u[i][2] = n + 1 + i - 1
        <5> TAKE i \in 1..Len(u)
        <5>1. w[i + 1][2] = n + 0 + (i + 1) - 1
          BY <2>1, <3>1, <4>3
        <5> QED
          BY <3>5, <4>3, <5>1
      <4> QED
        BY <1>1, <2>1, <2>3, <3>1, <3>4, <3>5, <4>3, <4>4, <4>5, <4>6
    <3>7. CASE h[1] # "sdownload"
      <4>1. h \notin A
        BY <3>7
      <4>2. w = u
        BY <3>4, <4>1
      <4>3. Held(s)' = 0
        BY <1>1, <2>3, <3>7 DEF Held
      <4> QED
        BY <2>1, <3>1, <3>4, <4>2, <4>3
    <3> QED
      BY <3>6, <3>7
  <2> QED
    BY <2>2, <2>3
<1> QED
  BY <1>3, <1>4 DEF ChunksInv

LEMMA StoreChunks ==
  ASSUME TypeOK, LogoutInv, ChunksInv, NEW q \in Session, Store(q), calm,
         temp' = Appended(q)
  PROVE  ChunksInv'
<1> DEFINE n == Len(Own(q))
<1>1. /\ owner[q] = q /\ ~ nested[q] /\ alive /\ rx[q] = "handle"
      /\ hand[q][1] = "sdownload" /\ hand[q] \in Packet
      /\ calm' = calm /\ UNCHANGED <<inbox, chunk>>
      /\ temp' = Append(temp, <<q, hand[q][2]>>)
  BY DEF Store, Handling, Appended, LogoutInv, TypeOK, clientVars
<1>2. hand[q][2] = n /\ n \in 0..Chunks
  BY <1>1 DEF ChunksInv, UploadNumbers, Held, Packet
<1>3. \A s \in Session : Own(s)' = IF s = q THEN Append(Own(s), <<q, n>>) ELSE Own(s)
  <2> TAKE s \in Session
  <2> DEFINE A == {s} \X (0..Chunks)
  <2>1. PICK p \in Session \X (0..Chunks) : p = <<q, n>>
    BY <1>2
  <2>2. p \in A <=> s = q
    BY <1>2, <2>1
  <2>3. Kept(Append(temp, p), A) = IF p \in A THEN Append(Kept(temp, A), p) ELSE Kept(temp, A)
    <3>1. temp \in Seq(Session \X (0..Chunks))
      BY DEF TypeOK
    <3> HIDE DEF A
    <3> QED
      BY <3>1, KeptAppend
  <2>4. temp' = Append(temp, p)
    BY <1>1, <1>2, <2>1
  <2>5. Own(s)' = Kept(Append(temp, p), A) /\ Own(s) = Kept(temp, A)
    BY <2>4 DEF Own
  <2> QED
    BY <2>1, <2>2, <2>3, <2>5
<1>4. /\ Own(q) \in Seq(Session \X (0..Chunks)) /\ <<q, n>> \in Session \X (0..Chunks)
      /\ Len(Append(Own(q), <<q, n>>)) = n + 1
      /\ \A i \in 1..n : Append(Own(q), <<q, n>>)[i] = Own(q)[i]
      /\ Append(Own(q), <<q, n>>)[n + 1] = <<q, n>>
  <2>1. Own(q) \in Seq(Session \X (0..Chunks)) /\ <<q, n>> \in Session \X (0..Chunks)
    BY <1>2, OwnType
  <2> QED
    BY <2>1, AppendProperties
<1>5. OwnChunksInOrder'
  <2> SUFFICES ASSUME NEW s \in Session, NEW i \in 1..Len(Own(s)')
               PROVE  Own(s)'[i] = <<s, i - 1>>
    BY DEF OwnChunksInOrder
  <2>1. \A t \in Session : \A j \in 1..Len(Own(t)) : Own(t)[j] = <<t, j - 1>>
    BY DEF ChunksInv, OwnChunksInOrder
  <2>2. CASE s # q
    BY <1>3, <2>1, <2>2
  <2>3. CASE s = q
    <3>1. Own(s)' = Append(Own(q), <<q, n>>)
      BY <1>3, <2>3
    <3>2. i \in 1..n \/ i = n + 1
      BY <1>2, <1>4, <3>1
    <3> QED
      BY <1>2, <1>4, <2>1, <2>3, <3>1, <3>2
  <2> QED
    BY <2>2, <2>3
<1>6. UploadNumbers'
  <2> SUFFICES ASSUME alive', NEW s \in Session
               PROVE  /\ Held(s)' = 1 => hand'[s][2] = Len(Own(s)')
                      /\ \A i \in 1..Len(Waiting(s)') :
                           Waiting(s)'[i][2] = Len(Own(s)') + Held(s)' + i - 1
                      /\ chunk'[s] = Len(Own(s)') + Held(s)' + Len(Waiting(s)')
    BY DEF UploadNumbers
  <2>1. /\ Held(s) = 1 => hand[s][2] = Len(Own(s))
        /\ \A i \in 1..Len(Waiting(s)) : Waiting(s)[i][2] = Len(Own(s)) + Held(s) + i - 1
        /\ chunk[s] = Len(Own(s)) + Held(s) + Len(Waiting(s))
    BY <1>1 DEF ChunksInv, UploadNumbers
  <2>2. Waiting(s)' = Waiting(s) /\ chunk' = chunk
    BY <1>1 DEF Waiting
  <2>3. /\ rx'[q] = "loop"
        /\ \A t \in Session : t # q => rx'[t] = rx[t] /\ hand'[t] = hand[t]
    BY <1>1 DEF Store, Raise, Return, TypeOK
  <2>4. CASE s # q
    <3>1. Held(s)' = Held(s) /\ hand'[s] = hand[s] /\ Own(s)' = Own(s)
      BY <1>3, <2>3, <2>4 DEF Held
    <3> QED
      BY <2>1, <2>2, <3>1
  <2>5. CASE s = q
    <3>1. Held(s)' = 0 /\ Held(s) = 1
      BY <1>1, <2>3, <2>5 DEF Held
    <3>2. Len(Own(s)') = n + 1
      BY <1>3, <1>4, <2>5
    <3>3. n + 1 + 0 = n + 1
      BY <1>2
    <3> QED
      BY <1>2, <2>1, <2>2, <2>5, <3>1, <3>2, <3>3
  <2> QED
    BY <2>4, <2>5
<1> QED
  BY <1>5, <1>6 DEF ChunksInv

LEMMA ChunksNext == TypeOK /\ LogoutInv /\ ChunksInv /\ [Next]_vars => ChunksInv'
<1> SUFFICES ASSUME TypeOK, LogoutInv, ChunksInv, [Next]_vars PROVE ChunksInv'
  OBVIOUS
<1> USE DEF clientVars, rxVars, diskVars
<1>1. ASSUME NEW s \in Session, NEW c \in Cmd, Send(s, c) PROVE ChunksInv'
  BY <1>1, SendChunks
<1>2. CASE Restart
  BY <1>2 DEF Restart, ChunksInv, UploadNumbers, OwnChunksInOrder
<1>3. ASSUME NEW s \in Session, RxStart(s) \/ RxLoop(s) \/ RxFails(s) PROVE ChunksInv'
  <2>1. UNCHANGED <<temp, inbox, chunk, calm>> /\ alive /\ rx[s] # "handle"
    BY <1>3 DEF RxStart, RxLoop, RxFails
  <2>2. rx'[s] # "handle"
    BY <1>3, <2>1 DEF RxStart, RxLoop, RxFails, Raise, Return, TypeOK
  <2>3. \A t \in Session : t # s => rx'[t] = rx[t] /\ hand'[t] = hand[t]
    BY <1>3 DEF RxStart, RxLoop, RxFails, Raise, Return, TypeOK
  <2>4. \A t \in Session : Held(t)' = Held(t) /\ (Held(t) = 1 => hand'[t] = hand[t])
    BY <2>1, <2>2, <2>3 DEF Held
  <2> QED
    BY <2>1, <2>4, ChunksFrame
<1>4. ASSUME NEW s \in Session, RxReceive(s) PROVE ChunksInv'
  <2>1. CASE calm
    BY <1>4, <2>1, ReceiveChunks
  <2>2. CASE ~ calm
    BY <1>4, <2>2 DEF RxReceive, ChunksInv, UploadNumbers, OwnChunksInOrder
  <2> QED
    BY <2>1, <2>2
<1>5. ASSUME NEW s \in Session,
             \/ Answer(s) \/ Notify(s) \/ ListHandled(s) \/ List(s)
             \/ Ignore(s) \/ Logout(s) \/ Fail(s)
      PROVE  ChunksInv'
  <2>1. UNCHANGED <<temp, inbox, chunk, calm>> /\ alive
    BY <1>5 DEF Answer, Notify, ListHandled, List, Ignore, Logout, Fail, Handling
  <2>2. ~ (rx[s] = "handle" /\ hand[s][1] = "sdownload")
    BY <1>5 DEF Answer, Notify, ListHandled, List, Ignore, Logout, Fail, Handling, Answered, Listed,
                Ignored, Failing
  <2>3. alive' => ~ (rx'[s] = "handle" /\ hand'[s][1] = "sdownload")
    BY <1>5 DEF Answer, Notify, ListHandled, List, Ignore, Logout, Fail, Raise, Return, TypeOK
  <2>4. \A t \in Session : t # s => rx'[t] = rx[t] /\ hand'[t] = hand[t]
    BY <1>5 DEF Answer, Notify, ListHandled, List, Ignore, Logout, Fail, Raise, Return, TypeOK
  <2>5. alive' => \A t \in Session : Held(t)' = Held(t) /\ (Held(t) = 1 => hand'[t] = hand[t])
    BY <2>2, <2>3, <2>4 DEF Held
  <2> QED
    BY <2>1, <2>5, ChunksFrame
<1>6. ASSUME NEW s \in Session, Store(s) PROVE ChunksInv'
  <2>1. CASE calm /\ temp' = Appended(s)
    BY <1>6, <2>1, StoreChunks
  <2>2. CASE calm /\ temp' = temp /\ Raise(s)
    <3>1. UNCHANGED <<temp, inbox, chunk, calm>> /\ alive /\ ~ nested[s]
      BY <1>6, <2>2 DEF Store, Handling, LogoutInv
    <3>2. ~ alive'
      BY <2>2, <3>1 DEF Raise
    <3> QED
      BY <3>1, <3>2, ChunksFrame
  <2>3. CASE ~ calm
    BY <1>6, <2>3 DEF Store, ChunksInv, UploadNumbers, OwnChunksInOrder
  <2> QED
    BY <1>6, <2>1, <2>2, <2>3 DEF Store
<1>7. ASSUME NEW s \in Session, Broadcast(s) PROVE ChunksInv'
  BY <1>7 DEF Broadcast, ChunksInv, UploadNumbers, OwnChunksInOrder
<1>8. ASSUME NEW s \in Session,
             \/ Erase(s) \/ TxStart(s) \/ TxTest(s) \/ TxCheck(s) \/ TxSend(s)
             \/ SpuriousWakeup(s)
      PROVE  ChunksInv'
  <2>1. UNCHANGED <<temp, inbox, chunk, calm, rx, hand>> /\ alive
    BY <1>8 DEF Erase, TxSend, Abort, TxStart, TxTest, TxCheck, SpuriousWakeup
  <2>2. \A t \in Session : Held(t)' = Held(t)
    BY <2>1 DEF Held
  <2> QED
    BY <2>1, <2>2, ChunksFrame
<1>9. CASE UNCHANGED vars
  <2>1. UNCHANGED <<temp, inbox, chunk, calm, rx, hand, alive>>
    BY <1>9 DEF vars
  <2>2. \A t \in Session : Held(t)' = Held(t)
    BY <2>1 DEF Held
  <2> QED
    BY <2>1, <2>2, ChunksFrame
<1> QED
  BY <1>1, <1>2, <1>3, <1>4, <1>5, <1>6, <1>7, <1>8, <1>9 DEF Next, Rx, Tx

\* As long as nothing was broadcast and the server not restarted, the temporary file holds
\* the packets of each device once and in the order sent, however the uploads of the two
\* devices interleave, for any number of packets.
THEOREM UploadsOrdered == Spec => []OwnChunksInOrder
<1>1. ChunksInv => OwnChunksInOrder
  BY DEF ChunksInv
<1> QED
  BY <1>1, TypeInit, TypeNext, LogoutInit, LogoutNext, ChunksInit, ChunksNext, PTL DEF Spec

=============================================================================
