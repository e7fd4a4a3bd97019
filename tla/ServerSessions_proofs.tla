------------------------ MODULE ServerSessions_proofs ------------------------
(***************************************************************************)
(* The safety of the login side for any number of connections, users and   *)
(* descriptors and any garbage in max_sessions_.                           *)
(***************************************************************************)
EXTENDS ServerSessions, TLAPS

USE DEF Goto, Login

\* Every refusal's reason is longer than what strcharray accepts for it, so no
\* refusal packet is ever built: a refusal only drops the connection.
LEMMA RefuseOnlyDrops ==
  Refuse(ReasonSize) => Drop /\ UNCHANGED replies
BY DEF Refuse, StrcharrayThrows, ReasonSize

\* The type invariant holds of every behaviour.
LEMMA TypeInit == Init => TypeOK
BY SMT DEF Init, TypeOK

LEMMA TypeNext == TypeOK /\ ServingInv /\ [Next]_vars => TypeOK'
<1> SUFFICES ASSUME TypeOK, ServingInv, [Next]_vars PROVE TypeOK'
  OBVIOUS
<1> USE FdAssumption, MaxOutcomesAssumption, SentinelAssumption
<1> USE DEF clientVars, socketVars, acceptVars, userVars, mainVars
<1>1. CASE Accept
  <2>1. CASE LoopTest
    BY <2>1 DEF LoopTest, TypeOK
  <2>2. CASE AcceptConnection
    BY <2>2 DEF AcceptConnection, FreeFds, TypeOK
  <2>3. CASE AcceptNothing
    BY <2>3 DEF AcceptNothing, TypeOK
  <2>4. CASE ReceiveLogin
    BY <2>4, RefuseOnlyDrops DEF ReceiveLogin, Drop, TypeOK, ServingInv, Serving, OnSocket
  <2>5. CASE ReceiveFails
    BY <2>5 DEF ReceiveFails, Drop, TypeOK, ServingInv, Serving, OnSocket
  <2>6. CASE LookupUser
    BY <2>6 DEF LookupUser, TypeOK
  <2>7. CASE LoadUser
    BY <2>7 DEF LoadUser, TypeOK, ServingInv
  <2>8. CASE LoadUserFails
    BY <2>8, RefuseOnlyDrops DEF LoadUserFails, Drop, TypeOK
  <2>9. CASE ConfirmLogin
    BY <2>9 DEF ConfirmLogin, TypeOK, ServingInv, Serving, SessionNumber
  <2>10. CASE RefuseLogin
    BY <2>10, RefuseOnlyDrops DEF RefuseLogin, Drop, TypeOK
  <2>11. CASE CreateSession
    BY <2>11 DEF CreateSession, TypeOK
  <2>12. CASE AddSession
    BY <2>12 DEF AddSession, TypeOK, ServingInv, Serving
  <2>13. CASE AddSessionFails
    BY <2>13, RefuseOnlyDrops DEF AddSessionFails, Drop, TypeOK
  <2>14. CASE Approve
    BY <2>14 DEF Approve, TypeOK
  <2>15. CASE ApproveFails
    BY <2>15, RefuseOnlyDrops DEF ApproveFails, Drop, TypeOK
  <2>16. CASE ConfirmKills \/ StartReceiverFails \/ ApproveKills
    BY <2>16 DEF ConfirmKills, StartReceiverFails, ApproveKills, TypeOK
  <2>17. CASE ConfirmFails \/ StartSenderFails
    BY <2>17, RefuseOnlyDrops DEF ConfirmFails, StartSenderFails, Drop, TypeOK
  <2> QED
    BY <1>1, <2>1, <2>2, <2>3, <2>4, <2>5, <2>6, <2>7, <2>8, <2>9, <2>10,
       <2>11, <2>12, <2>13, <2>14, <2>15, <2>16, <2>17 DEF Accept
<1>2. CASE Main
  BY <1>2 DEF Main, ListBegin, ListEnd, ListCrashes, Stop, Join, TypeOK
<1>3. ASSUME NEW c \in Conn,
             \/ ClientConnect(c) \/ ClientBeginLogin(c) \/ (\E l \in Login : ClientSendLogin(c, l))
             \/ ClientLoggedIn(c) \/ ClientExit(c) \/ ClientGone(c)
             \/ SessionLogout(c) \/ SessionFails(c) \/ StealLogin(c)
      PROVE TypeOK'
  <2>1. CASE ClientConnect(c)
    BY <2>1 DEF ClientConnect, TypeOK
  <2>2. ASSUME NEW l \in Login, ClientSendLogin(c, l) PROVE TypeOK'
    BY <2>2 DEF ClientSendLogin, TypeOK
  <2>3. CASE ClientBeginLogin(c) \/ ClientLoggedIn(c) \/ ClientExit(c) \/ ClientGone(c)
    BY <2>3 DEF ClientBeginLogin, ClientLoggedIn, ClientExit, ClientGone, TypeOK
  <2>4. CASE SessionLogout(c) \/ SessionFails(c) \/ StealLogin(c)
    BY <2>4 DEF SessionLogout, SessionFails, StealLogin, TypeOK
  <2> QED
    BY <1>3, <2>1, <2>2, <2>3, <2>4
<1>4. ASSUME NEW u \in User, OverseerTick(u) PROVE TypeOK'
  BY <1>4 DEF OverseerTick, TypeOK
<1>5. CASE UNCHANGED vars
  BY <1>5 DEF vars, TypeOK
<1> QED
  BY <1>1, <1>2, <1>3, <1>4, <1>5 DEF Next, Ended

-----------------------------------------------------------------------------
(* The inductive invariant.                                                *)

LEMMA InvInit == Init => IInv
BY TypeInit, SentinelAssumption, SMT
   DEF Init, IInv, ServingInv, Serving, GrantInv, QueueInv, Registered, DescriptorInv,
       ReplyInv, AtMostTwoSessions, SessionLimit, OneUserPerName, SessionsApart,
       NumberIsPlace, NoDescriptorLeak, TypeOK

\* The clients after their connection, the threads of sessions and users and the main
\* thread touch nothing the invariant relates.
LEMMA FrameKeeps ==
  ASSUME IInv, TypeOK',
         UNCHANGED <<backlog, replies, fd, socket, pc, current, name, users, sessions>>,
         \A c \in Conn : client'[c] = "idle" => client[c] = "idle"
  PROVE  IInv'
BY DEF IInv, ServingInv, Serving, OnSocket, Loaded, GrantInv, BelowLimit, SocketBusy,
       QueueInv, Registered, DescriptorInv, ReplyInv, SessionNumber, AtMostTwoSessions,
       OneUserPerName, SessionsApart, NumberIsPlace, NoDescriptorLeak

\* Moving the accept thread on, within one request.
LEMMA DropKeeps ==
  ASSUME IInv, TypeOK', Serving, Drop,
         UNCHANGED <<client, backlog, replies, users, sessions>>
  PROVE  IInv'
<1> USE SentinelAssumption, FdAssumption DEF IInv, Drop
<1>1. current \in Conn /\ socket[fd[current]] = current /\ fd[current] \in Fd
  BY DEF ServingInv, OnSocket
<1>2. ~ Serving'
  BY DEF Serving
<1>3. ServingInv'
  BY <1>2 DEF ServingInv, Serving
<1>4. GrantInv'
  BY <1>2 DEF GrantInv
<1>5. QueueInv'
  BY DEF QueueInv, Registered
<1>6. DescriptorInv' /\ ReplyInv'
  BY <1>1 DEF DescriptorInv, ReplyInv, TypeOK
<1>7. (AtMostTwoSessions /\ OneUserPerName /\ SessionsApart /\ NumberIsPlace)'
  BY DEF AtMostTwoSessions, OneUserPerName, SessionsApart, NumberIsPlace
<1>8. NoDescriptorLeak'
  <2> SUFFICES ASSUME NEW f \in Fd, socket'[f] # NoConn
               PROVE  \E u \in User : \E i \in 1..Len(sessions[u]) : sessions[u][i] = socket'[f]
    BY DEF NoDescriptorLeak, Registered
  <2>1. f # fd[current] /\ socket'[f] = socket[f]
    BY <1>1 DEF TypeOK
  <2>2. socket[f] # current
    BY <2>1 DEF DescriptorInv
  <2> QED
    BY <2>1, <2>2 DEF NoDescriptorLeak, Registered
<1> QED
  BY <1>3, <1>4, <1>5, <1>6, <1>7, <1>8

LEMMA ConnectKeeps ==
  ASSUME IInv, TypeOK', NEW c \in Conn, ClientConnect(c)
  PROVE  IInv'
<1> USE DEF IInv, ClientConnect, socketVars, acceptVars, userVars, mainVars
<1>1. QueueInv'
  <2>1. /\ client[c] = "idle" /\ fd[c] = NoFd /\ backlog \in Seq(Conn)
        /\ backlog' = Append(backlog, c) /\ fd' = fd /\ sessions' = sessions
        /\ \A d \in Conn : client'[d] = "idle" => client[d] = "idle" /\ d # c
        /\ \A i \in 1..Len(backlog) : backlog[i] # c
    BY DEF QueueInv, TypeOK
  <2>2. \A i \in 1..Len(backlog') :
          \/ i \in 1..Len(backlog) /\ backlog'[i] = backlog[i]
          \/ i = Len(backlog) + 1 /\ backlog'[i] = c
    <3> HIDE DEF IInv, ClientConnect
    <3>1. Len(backlog') = Len(backlog) + 1 /\ backlog'[Len(backlog) + 1] = c
      BY <2>1
    <3>2. \A i \in 1..Len(backlog) : backlog'[i] = backlog[i]
      BY <2>1
    <3>3. Len(backlog) \in Nat
      BY <2>1
    <3> QED
      BY <3>1, <3>2, <3>3
  <2>3. \A i, j \in 1..Len(backlog') : backlog'[i] = backlog'[j] => i = j
    BY <2>1, <2>2 DEF QueueInv
  <2>4. \A i \in 1..Len(backlog') : fd'[backlog'[i]] = NoFd
    BY <2>1, <2>2 DEF QueueInv
  <2>5. \A d \in Conn : client'[d] = "idle" =>
          fd'[d] = NoFd /\ \A i \in 1..Len(backlog') : backlog'[i] # d
    BY <2>1, <2>2 DEF QueueInv
  <2>6. \A d \in Conn : Registered(d)' => fd'[d] \in Fd
    BY <2>1 DEF QueueInv, Registered
  <2> QED
    BY <2>3, <2>4, <2>5, <2>6 DEF QueueInv
<1>2. ServingInv' /\ GrantInv' /\ DescriptorInv' /\ ReplyInv'
  BY DEF ServingInv, Serving, OnSocket, Loaded, GrantInv, BelowLimit, SocketBusy, Registered,
         DescriptorInv, ReplyInv, SessionNumber
<1>3. /\ AtMostTwoSessions' /\ OneUserPerName' /\ SessionsApart' /\ NumberIsPlace'
  BY DEF AtMostTwoSessions, OneUserPerName, SessionsApart, NumberIsPlace
<1>4. NoDescriptorLeak'
  BY DEF NoDescriptorLeak, Registered
<1> QED
  BY <1>1, <1>2, <1>3, <1>4

LEMMA AcceptConnectionKeeps ==
  ASSUME IInv, TypeOK', AcceptConnection
  PROVE  IInv'
<1> USE SentinelAssumption, FdAssumption DEF IInv, userVars, mainVars
<1> DEFINE c == Head(backlog)
<1>1. PICK f \in Fd : /\ socket[f] = NoConn
                     /\ fd' = [fd EXCEPT ![c] = f]
                     /\ socket' = [socket EXCEPT ![f] = c]
  BY DEF AcceptConnection, FreeFds
<1>2. /\ pc = "select" /\ backlog # <<>> /\ pc' = "receive" /\ current' = c
      /\ backlog' = Tail(backlog)
      /\ UNCHANGED <<client, replies, name, users, sessions, maxSessions>>
  BY DEF AcceptConnection
<1>3. c \in Conn /\ c = backlog[1] /\ fd[c] = NoFd /\ replies[c] = <<>>
  BY <1>2 DEF TypeOK, QueueInv, ReplyInv
<1>4. ~ Registered(c) /\ current = NoConn
  BY <1>2, <1>3 DEF QueueInv, ServingInv, Serving
<1>5. fd'[c] = f /\ socket'[f] = c /\ \A d \in Conn : d # c => fd'[d] = fd[d]
  BY <1>1, <1>3 DEF TypeOK
<1>6. ServingInv'
  BY <1>2, <1>3, <1>5 DEF ServingInv, Serving, OnSocket
<1>7. GrantInv'
  BY <1>2, <1>4 DEF GrantInv, Serving, Registered
<1>8. QueueInv'
  <2>1. \A i \in 1..Len(backlog') : i + 1 \in 1..Len(backlog) /\ backlog'[i] = backlog[i + 1]
    BY <1>2 DEF TypeOK
  <2>2. \A i \in 1..Len(backlog') : backlog'[i] # c
    BY <2>1, <1>2, <1>3 DEF QueueInv, TypeOK
  <2>3. \A i, j \in 1..Len(backlog') : backlog'[i] = backlog'[j] => i = j
    BY <2>1 DEF QueueInv, TypeOK
  <2>4. \A i \in 1..Len(backlog') : fd'[backlog'[i]] = NoFd
    <3> SUFFICES ASSUME NEW i \in 1..Len(backlog') PROVE fd'[backlog'[i]] = NoFd
      OBVIOUS
    <3>1. i + 1 \in 1..Len(backlog) /\ backlog'[i] = backlog[i + 1]
      BY <2>1
    <3>2. backlog[i + 1] \in Conn
      BY <3>1 DEF TypeOK
    <3>3. fd[backlog[i + 1]] = NoFd
      BY <3>1 DEF QueueInv
    <3> QED
      BY <3>1, <3>2, <3>3, <2>2, <1>5
  <2>5. client[c] # "idle"
    BY <1>2, <1>3 DEF QueueInv, TypeOK
  <2>6. \A d \in Conn : client'[d] = "idle" =>
          fd'[d] = NoFd /\ \A i \in 1..Len(backlog') : backlog'[i] # d
    BY <2>1, <2>5, <1>2, <1>5 DEF QueueInv, TypeOK
  <2>7. \A d \in Conn : Registered(d)' => fd'[d] \in Fd
    BY <1>2, <1>5 DEF QueueInv, Registered
  <2> QED
    BY <2>3, <2>4, <2>6, <2>7 DEF QueueInv
<1>9. DescriptorInv'
  <2> SUFFICES ASSUME NEW g \in Fd, socket'[g] # NoConn PROVE fd'[socket'[g]] = g
    BY DEF DescriptorInv
  <2>1. CASE g = f
    BY <2>1, <1>5
  <2>2. CASE g # f
    <3>1. socket'[g] = socket[g]
      BY <2>2, <1>1 DEF TypeOK
    <3>2. socket[g] \in Conn /\ fd[socket[g]] = g
      BY <3>1 DEF DescriptorInv, TypeOK
    <3>3. socket[g] # c
      BY <3>2, <1>3
    <3> QED
      BY <3>1, <3>2, <3>3, <1>5
  <2> QED
    BY <2>1, <2>2
<1>10. ReplyInv'
  <2>1. \A d \in Conn : fd'[d] = NoFd => replies'[d] = <<>>
    BY <1>2, <1>3, <1>5 DEF ReplyInv
  <2>2. replies'[current'] = <<>>
    BY <1>2, <1>3
  <2> QED
    BY <2>1, <2>2, <1>2 DEF ReplyInv
<1>11. SessionsApart'
  <2>1. \A u \in User : \A i \in 1..Len(sessions[u]) :
          sessions[u][i] \in Conn /\ sessions[u][i] # c
    BY <1>4 DEF Registered, TypeOK
  <2> QED
    BY <2>1, <1>2, <1>5 DEF SessionsApart
<1>12. (AtMostTwoSessions /\ OneUserPerName /\ NumberIsPlace)'
  BY <1>2 DEF AtMostTwoSessions, OneUserPerName, NumberIsPlace
<1>13. NoDescriptorLeak'
  <2> SUFFICES ASSUME NEW f2 \in Fd, socket'[f2] # NoConn, socket'[f2] # c
               PROVE  \E u \in User : \E i \in 1..Len(sessions[u]) : sessions[u][i] = socket'[f2]
    BY <1>2 DEF NoDescriptorLeak, Registered
  <2>1. f2 # f /\ socket'[f2] = socket[f2]
    BY <1>1, <1>5 DEF TypeOK
  <2>2. socket[f2] # current
    BY <2>1, <1>4
  <2> QED
    BY <2>1, <2>2 DEF NoDescriptorLeak, Registered
<1> QED
  BY <1>6, <1>7, <1>8, <1>9, <1>10, <1>11, <1>12, <1>13

\* Moving on within one request, nothing registered or answered.
LEMMA StepKeeps ==
  ASSUME IInv, TypeOK', Serving, Serving',
         UNCHANGED <<client, backlog, replies, fd, socket, current, sessions>>,
         ServingInv', OneUserPerName',
         pc' \in {"create", "add"} =>
           pc \in {"create", "add"} /\ UNCHANGED name,
         pc' \in {"receive", "lookup", "load", "check"} =>
           pc \in {"receive", "lookup", "load", "check"},
         pc' # "approve" /\ pc # "approve"
  PROVE  IInv'
<1> USE DEF IInv
<1>1. GrantInv'
  BY DEF GrantInv, BelowLimit, SocketBusy, Registered, Serving
<1>2. QueueInv'
  BY DEF QueueInv, Registered
<1>3. DescriptorInv' /\ ReplyInv'
  BY DEF DescriptorInv, ReplyInv, SessionNumber
<1>4. AtMostTwoSessions' /\ SessionsApart' /\ NumberIsPlace'
  BY DEF AtMostTwoSessions, SessionsApart, NumberIsPlace
<1>5. NoDescriptorLeak'
  BY DEF NoDescriptorLeak, Registered
<1> QED
  BY <1>1, <1>2, <1>3, <1>4, <1>5

LEMMA LoadUserKeeps ==
  ASSUME IInv, TypeOK', LoadUser
  PROVE  IInv'
<1> USE DEF IInv, LoadUser, clientVars, socketVars, mainVars
<1>1. name \in User /\ ~ Loaded(name)
  BY DEF ServingInv
<1>2. OneUserPerName'
  BY <1>1 DEF OneUserPerName, Loaded, TypeOK
<1>3. ServingInv'
  BY DEF ServingInv, Serving, OnSocket
<1> QED
  BY <1>2, <1>3, StepKeeps DEF Serving

LEMMA ConfirmLoginKeeps ==
  ASSUME IInv, TypeOK', ConfirmLogin
  PROVE  IInv'
<1> USE DEF IInv, ConfirmLogin, socketVars, userVars, mainVars
<1>1. current \in Conn /\ fd[current] \in Fd /\ name \in User /\ ~ Registered(current)
  BY DEF ServingInv, Serving, OnSocket, GrantInv
<1>2. replies[current] = <<>> /\ \A c \in Conn : c # current => replies'[c] = replies[c]
  BY <1>1 DEF ReplyInv, TypeOK
<1>3. replies'[current] = <<SessionNumber(name)>>
  BY <1>1, <1>2 DEF TypeOK, SessionNumber
<1>4. ServingInv' /\ GrantInv'
  BY DEF ServingInv, Serving, OnSocket, GrantInv, BelowLimit, SocketBusy, Registered
<1>5. QueueInv'
  BY DEF QueueInv, Registered
<1>6. ReplyInv'
  <2>1. \A c \in Conn : fd[c] = NoFd => c # current
    BY <1>1, FdAssumption
  <2> QED
    BY <2>1, <1>2, <1>3 DEF ReplyInv, SessionNumber
<1>7. AtMostTwoSessions' /\ OneUserPerName' /\ SessionsApart' /\ DescriptorInv'
  BY DEF AtMostTwoSessions, OneUserPerName, SessionsApart, DescriptorInv
<1>8. NumberIsPlace'
  BY <1>1, <1>2 DEF NumberIsPlace, Registered, TypeOK
<1>9. NoDescriptorLeak'
  BY DEF NoDescriptorLeak, Registered
<1> QED
  BY <1>4, <1>5, <1>6, <1>7, <1>8, <1>9

LEMMA AddSessionKeeps ==
  ASSUME IInv, TypeOK', AddSession
  PROVE  IInv'
<1> USE DEF IInv, AddSession, clientVars, socketVars, mainVars
<1> DEFINE n == Len(sessions[name]) + 1
<1>1. /\ current \in Conn /\ fd[current] \in Fd /\ socket[fd[current]] = current
      /\ name \in User /\ ~ Registered(current)
      /\ Len(sessions[name]) < SessionLimit /\ ~ SocketBusy(name, fd[current])
      /\ replies[current] = <<n>>
  BY DEF ServingInv, Serving, OnSocket, GrantInv, BelowLimit, ReplyInv, SessionNumber
<1>2. \A u \in User : u # name => sessions'[u] = sessions[u]
  BY DEF TypeOK
<1>3. /\ Len(sessions'[name]) = n /\ n \in Nat \ {0}
      /\ sessions'[name][n] = current
      /\ \A i \in 1..Len(sessions[name]) : sessions'[name][i] = sessions[name][i]
  BY <1>1 DEF TypeOK
<1>4. \A i \in 1..n : i \in 1..Len(sessions[name]) \/ i = n
  BY <1>3 DEF TypeOK
<1>5. \A c \in Conn : Registered(c)' <=> Registered(c) \/ c = current
  <2> SUFFICES ASSUME NEW c \in Conn
               PROVE  (\E u \in User : \E i \in 1..Len(sessions'[u]) : sessions'[u][i] = c)
                        <=> Registered(c) \/ c = current
    BY DEF Registered
  <2>1. ASSUME NEW u \in User, NEW i \in 1..Len(sessions'[u]), sessions'[u][i] = c
        PROVE  Registered(c) \/ c = current
    BY <2>1, <1>1, <1>2, <1>3, <1>4 DEF Registered
  <2>2. ASSUME NEW u \in User, NEW i \in 1..Len(sessions[u]), sessions[u][i] = c
        PROVE  \E v \in User : \E j \in 1..Len(sessions'[v]) : sessions'[v][j] = c
    <3>1. i \in 1..Len(sessions'[u]) /\ sessions'[u][i] = c
      BY <2>2, <1>1, <1>2, <1>3 DEF TypeOK
    <3> QED
      BY <3>1
  <2>3. n \in 1..Len(sessions'[name]) /\ sessions'[name][n] = current
    BY <1>3
  <2> QED
    BY <2>1, <2>2, <2>3, <1>1 DEF Registered
<1>6. ServingInv' /\ GrantInv' /\ ReplyInv' /\ DescriptorInv'
  BY <1>1, <1>5 DEF ServingInv, Serving, OnSocket, Loaded, GrantInv, ReplyInv, DescriptorInv
<1>7. QueueInv'
  BY <1>1, <1>5 DEF QueueInv
<1>8. AtMostTwoSessions' /\ OneUserPerName'
  BY <1>1, <1>2, <1>3 DEF AtMostTwoSessions, OneUserPerName, SessionLimit, TypeOK
<1>9. SessionsApart'
  <2> SUFFICES ASSUME NEW i \in 1..n, NEW j \in 1..n,
                      fd[sessions'[name][i]] = fd[sessions'[name][j]]
               PROVE  i = j
    BY <1>2, <1>3 DEF SessionsApart
  <2>1. CASE i # n /\ j # n
    BY <2>1, <1>1, <1>3, <1>4 DEF SessionsApart
  <2>2. CASE i = n \/ j = n
    BY <2>2, <1>1, <1>3, <1>4 DEF SocketBusy
  <2> QED
    BY <2>1, <2>2
<1>10. NumberIsPlace'
  <2> SUFFICES ASSUME NEW u \in User, NEW i \in 1..Len(sessions'[u])
               PROVE  replies[sessions'[u][i]] = <<i>>
    BY DEF NumberIsPlace
  <2>1. CASE u = name /\ i = n
    BY <2>1, <1>1, <1>3
  <2>2. CASE u = name /\ i # n
    <3>1. i \in 1..Len(sessions[name])
      BY <2>2, <1>3, <1>4
    <3>2. replies[sessions[name][i]] = <<i>>
      BY <3>1, <1>1 DEF NumberIsPlace
    <3> QED
      BY <2>2, <3>1, <3>2, <1>3
  <2>3. CASE u # name
    <3>1. sessions'[u] = sessions[u]
      BY <2>3, <1>2
    <3> QED
      BY <3>1 DEF NumberIsPlace
  <2> QED
    BY <2>1, <2>2, <2>3
<1>11. NoDescriptorLeak'
  <2> SUFFICES ASSUME NEW f \in Fd, socket[f] # NoConn
               PROVE  socket[f] = current \/ Registered(socket[f])'
    BY DEF NoDescriptorLeak
  <2>1. socket[f] \in Conn
    BY DEF TypeOK
  <2> QED
    BY <2>1, <1>5 DEF NoDescriptorLeak
<1> QED
  BY <1>6, <1>7, <1>8, <1>9, <1>10, <1>11

LEMMA ApproveKeeps ==
  ASSUME IInv, TypeOK', Approve
  PROVE  IInv'
<1> USE SentinelAssumption DEF IInv, Approve, clientVars, socketVars, userVars
<1>1. ServingInv' /\ GrantInv' /\ QueueInv' /\ DescriptorInv' /\ ReplyInv'
  BY DEF ServingInv, Serving, GrantInv, QueueInv, Registered, DescriptorInv, ReplyInv
<1>2. AtMostTwoSessions' /\ OneUserPerName' /\ SessionsApart' /\ NumberIsPlace'
  BY DEF AtMostTwoSessions, OneUserPerName, SessionsApart, NumberIsPlace
<1>3. NoDescriptorLeak'
  BY DEF NoDescriptorLeak, GrantInv, Registered
<1> QED
  BY <1>1, <1>2, <1>3

LEMMA AcceptKeeps ==
  ASSUME IInv, TypeOK', Accept
  PROVE  IInv'
<1> USE DEF IInv, clientVars, socketVars, acceptVars, userVars, mainVars
<1>1. CASE LoopTest \/ AcceptNothing
  <2>1. ServingInv' /\ GrantInv' /\ QueueInv' /\ DescriptorInv' /\ ReplyInv'
    BY <1>1 DEF LoopTest, AcceptNothing, ServingInv, Serving, GrantInv, QueueInv, Registered,
                DescriptorInv, ReplyInv
  <2>2. AtMostTwoSessions' /\ OneUserPerName' /\ SessionsApart' /\ NumberIsPlace'
    BY <1>1 DEF LoopTest, AcceptNothing, AtMostTwoSessions, OneUserPerName, SessionsApart,
                NumberIsPlace
  <2>3. NoDescriptorLeak'
    BY <1>1 DEF LoopTest, AcceptNothing, NoDescriptorLeak, Registered
  <2> QED
    BY <2>1, <2>2, <2>3
<1>2. CASE AcceptConnection
  BY <1>2, AcceptConnectionKeeps
<1>3. CASE ReceiveLogin
  <2>1. CASE wire[current] \in User
    <3>1. ServingInv'
      BY <1>3, <2>1 DEF ReceiveLogin, ServingInv, Serving, OnSocket
    <3>2. OneUserPerName'
      BY <1>3 DEF ReceiveLogin, OneUserPerName
    <3> QED
      BY <1>3, <2>1, <3>1, <3>2, StepKeeps DEF ReceiveLogin, Serving
  <2>2. CASE wire[current] \notin User
    BY <1>3, <2>2, RefuseOnlyDrops, DropKeeps DEF ReceiveLogin, Serving
  <2> QED
    BY <2>1, <2>2
<1>4. CASE ReceiveFails
  BY <1>4, DropKeeps DEF ReceiveFails, Serving
<1>5. CASE LookupUser \/ CreateSession
  <2>1. ServingInv' /\ OneUserPerName'
    BY <1>5 DEF LookupUser, CreateSession, ServingInv, Serving, OnSocket, Loaded, OneUserPerName
  <2> QED
    BY <1>5, <2>1, StepKeeps DEF LookupUser, CreateSession, Serving
<1>6. CASE LoadUser
  BY <1>6, LoadUserKeeps
<1>7. CASE \/ LoadUserFails \/ ConfirmFails \/ RefuseLogin
           \/ StartSenderFails \/ AddSessionFails \/ ApproveFails
  BY <1>7, RefuseOnlyDrops, DropKeeps
     DEF LoadUserFails, ConfirmFails, RefuseLogin, StartSenderFails, AddSessionFails,
         ApproveFails, Serving
<1>8. CASE ConfirmLogin
  BY <1>8, ConfirmLoginKeeps
<1>9. CASE AddSession
  BY <1>9, AddSessionKeeps
<1>10. CASE Approve
  BY <1>10, ApproveKeeps
<1>11. CASE ConfirmKills \/ StartReceiverFails \/ ApproveKills
  BY <1>11, FrameKeeps DEF ConfirmKills, StartReceiverFails, ApproveKills
<1> QED
  BY <1>1, <1>2, <1>3, <1>4, <1>5, <1>6, <1>7, <1>8, <1>9, <1>10, <1>11 DEF Accept

LEMMA InvNext == IInv /\ [Next]_vars => IInv'
<1> SUFFICES ASSUME IInv, [Next]_vars PROVE IInv'
  OBVIOUS
<1>1. TypeOK'
  BY TypeNext DEF IInv
<1> USE <1>1 DEF clientVars, socketVars, acceptVars, userVars, mainVars
<1>2. CASE Accept
  BY <1>2, AcceptKeeps
<1>3. CASE Main
  BY <1>3, FrameKeeps DEF Main, ListBegin, ListEnd, ListCrashes, Stop, Join
<1>4. ASSUME NEW c \in Conn, ClientConnect(c) PROVE IInv'
  BY <1>4, ConnectKeeps
<1>5. ASSUME NEW c \in Conn,
             \/ ClientBeginLogin(c) \/ \E l \in Login : ClientSendLogin(c, l)
             \/ ClientLoggedIn(c) \/ ClientExit(c) \/ ClientGone(c)
             \/ SessionLogout(c) \/ SessionFails(c) \/ StealLogin(c)
      PROVE IInv'
  <2>1. /\ UNCHANGED <<backlog, replies, fd, socket, pc, current, name, users, sessions>>
        /\ \A d \in Conn : client'[d] = "idle" => client[d] = "idle"
    BY <1>5 DEF ClientBeginLogin, ClientSendLogin, ClientLoggedIn, ClientExit, ClientGone,
                SessionLogout, SessionFails, StealLogin, IInv, TypeOK
  <2> QED
    BY <2>1, FrameKeeps
<1>6. ASSUME NEW u \in User, OverseerTick(u) PROVE IInv'
  BY <1>6, FrameKeeps DEF OverseerTick
<1>7. CASE UNCHANGED vars
  BY <1>7, FrameKeeps DEF vars
<1> QED
  BY <1>2, <1>3, <1>4, <1>5, <1>6, <1>7 DEF Next, Ended

THEOREM Invariance == Spec => []IInv
BY InvInit, InvNext, PTL DEF Spec

-----------------------------------------------------------------------------
(* What the runs check on three connections, for any number of them.       *)

\* Type correctness of the login side.
THEOREM TypeCorrect == Spec => []TypeOK
BY Invariance, PTL DEF IInv

\* A user never holds more than the two sessions the README promises.
THEOREM LimitHolds == Spec => []AtMostTwoSessions
BY Invariance, PTL DEF IInv

\* UserGroup never holds two User objects for one name.
THEOREM NamesUnique == Spec => []OneUserPerName
BY Invariance, PTL DEF IInv

\* No two sessions of one user share a descriptor, however descriptors are reused.
THEOREM DescriptorsApart == Spec => []SessionsApart
BY Invariance, PTL DEF IInv

\* The number told to a client before its session exists is the place it gets.
THEOREM NumbersTrue == Spec => []NumberIsPlace
BY Invariance, PTL DEF IInv

\* Every failure path of the accept thread closes the descriptor it was serving: a send
\* that raises at the confirmation or the approval and a thread that cannot be created too.
THEOREM NoLeak == Spec => []NoDescriptorLeak
BY Invariance, PTL DEF IInv

-----------------------------------------------------------------------------
(* The accept loop implements the login service.                           *)

LEMMA SameVerdicts ==
  UNCHANGED <<fd, socket, sessions>> => UNCHANGED <<sessions, Refused>>
BY DEF Refused, Closed, Registered

LEMMA AcceptConnectionIsSilent ==
  ASSUME IInv, TypeOK', AcceptConnection
  PROVE  UNCHANGED <<sessions, Refused>>
<1> USE SentinelAssumption, FdAssumption DEF IInv
<1> DEFINE c == Head(backlog)
<1>1. PICK f \in Fd : /\ socket[f] = NoConn
                     /\ fd' = [fd EXCEPT ![c] = f]
                     /\ socket' = [socket EXCEPT ![f] = c]
  BY DEF AcceptConnection, FreeFds
<1>2. c \in Conn /\ fd[c] = NoFd /\ UNCHANGED sessions
  BY DEF AcceptConnection, QueueInv, TypeOK, userVars
<1>3. ASSUME NEW d \in Conn PROVE Closed(d)' <=> Closed(d)
  <2>1. CASE d = c
    BY <1>1, <1>2, <2>1 DEF Closed, TypeOK
  <2>2. CASE d # c
    BY <1>1, <1>2, <2>2 DEF Closed, TypeOK
  <2> QED
    BY <2>1, <2>2
<1> QED
  BY <1>2, <1>3 DEF Refused, Registered

LEMMA DropIsRefusal ==
  ASSUME IInv, Serving, Drop, UNCHANGED sessions
  PROVE  IF Registered(current) THEN UNCHANGED <<sessions, Refused>>
         ELSE Service!Refuse(current)
<1> USE SentinelAssumption, FdAssumption DEF IInv
<1>1. current \in Conn /\ fd[current] \in Fd /\ socket[fd[current]] = current
  BY DEF ServingInv, OnSocket
<1>2. \A d \in Conn : d = current => Closed(d)' /\ ~ Closed(d)
  BY <1>1 DEF Closed, Drop, TypeOK
<1>3. ASSUME NEW d \in Conn, d # current PROVE Closed(d)' <=> Closed(d)
  BY <1>1, <1>3 DEF Closed, Drop, TypeOK
<1>4. \A d \in Conn : Registered(d)' <=> Registered(d)
  BY DEF Registered
<1>5. CASE Registered(current)
  BY <1>1, <1>3, <1>4, <1>5 DEF Refused
<1>6. CASE ~ Registered(current)
  <2>1. Refused' = Refused \cup {current} /\ current \notin Refused
    BY <1>1, <1>2, <1>3, <1>4, <1>6 DEF Refused
  <2> QED
    BY <1>6, <2>1 DEF Service!Refuse, Service!Granted, Registered, Refused
<1> QED
  BY <1>5, <1>6

LEMMA AddSessionIsGrant ==
  ASSUME IInv, AddSession
  PROVE  Service!Grant(name, current)
<1> USE DEF IInv, AddSession, socketVars
<1>1. /\ current \in Conn /\ socket[fd[current]] = current /\ name \in User
      /\ ~ Registered(current) /\ Len(sessions[name]) < 2
  BY DEF ServingInv, Serving, OnSocket, GrantInv, BelowLimit, SessionLimit
<1>2. current \notin Refused
  BY <1>1 DEF Refused, Closed
<1>3. ASSUME NEW d \in Conn, d # current
      PROVE  Registered(d)' <=> Registered(d)
  <2>1. /\ Len(sessions'[name]) = Len(sessions[name]) + 1
        /\ Len(sessions[name]) \in Nat
        /\ sessions'[name][Len(sessions[name]) + 1] = current
        /\ \A i \in 1..Len(sessions[name]) : sessions'[name][i] = sessions[name][i]
        /\ \A u \in User : u # name => sessions'[u] = sessions[u]
    BY <1>1 DEF TypeOK
  <2>2. ASSUME NEW u \in User, NEW i \in 1..Len(sessions'[u]), sessions'[u][i] = d
        PROVE  i \in 1..Len(sessions[u]) /\ sessions[u][i] = d
    BY <2>1, <2>2, <1>3
  <2>3. ASSUME NEW u \in User, NEW i \in 1..Len(sessions[u]), sessions[u][i] = d
        PROVE  i \in 1..Len(sessions'[u]) /\ sessions'[u][i] = d
    BY <2>1, <2>3
  <2> QED
    BY <2>2, <2>3 DEF Registered
<1>4. Closed(current)' = FALSE /\ \A d \in Conn : Closed(d)' <=> Closed(d)
  BY <1>1 DEF Closed
<1>5. UNCHANGED Refused
  BY <1>1, <1>2, <1>3, <1>4 DEF Refused
<1> QED
  BY <1>1, <1>2, <1>5 DEF Service!Grant, Service!Granted, Registered, Refused

LEMMA StepImplements ==
  ASSUME IInv, IInv', [Next]_vars
  PROVE  [Service!Next]_<<sessions, Refused>>
<1> USE DEF clientVars, socketVars, acceptVars, userVars, mainVars
<1> DEFINE Silent == UNCHANGED <<sessions, Refused>>
<1> DEFINE Dropping ==
      \/ ReceiveLogin /\ wire[current] \notin User
      \/ ReceiveFails \/ LoadUserFails \/ ConfirmFails \/ RefuseLogin
      \/ StartSenderFails \/ AddSessionFails \/ ApproveFails
<1>1. CASE AcceptConnection
  BY <1>1, AcceptConnectionIsSilent DEF IInv
<1>2. CASE Dropping
  <2>1. Serving /\ Drop /\ UNCHANGED sessions
    BY <1>2, RefuseOnlyDrops
       DEF ReceiveLogin, ReceiveFails, LoadUserFails, ConfirmFails, RefuseLogin,
           StartSenderFails, AddSessionFails, ApproveFails, Serving
  <2>2. current \in Conn
    BY <2>1 DEF IInv, ServingInv
  <2> QED
    BY <2>1, <2>2, DropIsRefusal DEF Service!Next
<1>3. CASE AddSession
  <2>1. name \in User /\ current \in Conn
    BY <1>3 DEF AddSession, IInv, ServingInv, Serving
  <2> QED
    BY <1>3, <2>1, AddSessionIsGrant DEF Service!Next
<1>4. CASE Accept /\ ~ AcceptConnection /\ ~ Dropping /\ ~ AddSession
  <2>1. UNCHANGED <<fd, socket, sessions>>
    BY <1>4 DEF Accept, LoopTest, AcceptNothing, ReceiveLogin, LookupUser, LoadUser,
                ConfirmLogin, ConfirmKills, CreateSession, StartReceiverFails, Approve, ApproveKills
  <2> QED
    BY <2>1, SameVerdicts
<1>5. ASSUME \/ Main \/ UNCHANGED vars \/ (\E u \in User : OverseerTick(u))
             \/ \E c \in Conn :
                  \/ ClientConnect(c) \/ ClientBeginLogin(c) \/ (\E l \in Login : ClientSendLogin(c, l))
                  \/ ClientLoggedIn(c) \/ ClientExit(c) \/ ClientGone(c)
                  \/ SessionLogout(c) \/ SessionFails(c) \/ StealLogin(c)
      PROVE  Silent
  <2>1. UNCHANGED <<fd, socket, sessions>>
    BY <1>5 DEF Main, ListBegin, ListEnd, ListCrashes, Stop, Join, vars, OverseerTick, ClientConnect,
                ClientBeginLogin, ClientSendLogin, ClientLoggedIn, ClientExit, ClientGone,
                SessionLogout, SessionFails, StealLogin
  <2> QED
    BY <2>1, SameVerdicts
<1> QED
  BY <1>1, <1>2, <1>3, <1>4, <1>5 DEF Next, Ended

\* At most two sessions per user, one verdict per connection, no session withdrawn: the
\* accept loop with all its failure paths implements the login service.
THEOREM Implements == Spec => ImplementsLoginService
<1>1. Init => Service!Init
  BY SentinelAssumption, FdAssumption DEF Init, Service!Init, Refused, Closed
<1>2. IInv /\ IInv' /\ [Next]_vars => [Service!Next]_<<sessions, Refused>>
  BY StepImplements
<1> QED
  BY <1>1, <1>2, Invariance, PTL DEF Spec, Service!Spec, ImplementsLoginService

=============================================================================
