--------------------------- MODULE ServerSessions ---------------------------
(***************************************************************************)
(* The server from the listening socket to the registered session: the    *)
(* accept thread (ServerConnectionManager::server_accept_loop and its      *)
(* callback Server::handle_new_session), the user manager (UserGroup,      *)
(* User), the threads a session starts, the overseer thread of each user,  *)
(* the main thread's "list clients" and "exit", and the clients that       *)
(* connect, log in (ClientConnectionManager::login), log out and vanish.   *)
(*                                                                         *)
(* A connection c \in Conn is one TCP connection of one client process.    *)
(* A session is named by the connection it was created for; the descriptor *)
(* it reads and writes is fd[c], whatever that descriptor denotes by then. *)
(* Time is abstract: a timeout may happen whenever nothing is there to     *)
(* receive.  An exception that leaves a thread ends the process            *)
(* (std::terminate): mode = "aborted".                                     *)
(***************************************************************************)
EXTENDS Integers, Sequences, FiniteSets

CONSTANTS
  Conn,         \* connections ever made to the server
  User,         \* user names that is_valid_username accepts
  Fd,           \* descriptors the process may open for connections
  MaxOutcomes,  \* values User::max_sessions_ may start with (see LoadUser)
  NoConn, NoFd, Malformed, BadName, NoLogin

SessionLimit == 2   \* handle_new_session's session_limit
ReasonSize == 18    \* characters of a refusal's reason: "Invalid user info!"

ASSUME FdAssumption == Fd \subseteq Nat /\ NoFd \notin Fd
ASSUME MaxOutcomesAssumption == MaxOutcomes \subseteq Nat
ASSUME SentinelAssumption ==
  /\ NoConn \notin Conn
  /\ Malformed \notin User /\ BadName \notin User /\ NoLogin \notin User
  /\ Malformed # BadName /\ Malformed # NoLogin /\ BadName # NoLogin

Login == User \cup {Malformed, BadName}

VARIABLES
  client,     \* where each client process is
  wire,       \* the login packet in flight on each connection
  replies,    \* N of each "login|ok|N" sent on a connection, 0 for "login|fail"
  backlog,    \* connections the kernel completed, not accepted yet
  fd,         \* the descriptor accept() returned for a connection
  socket,     \* the connection each descriptor denotes now
  pc,         \* where the accept thread is
  current,    \* the connection it is serving
  name,       \* the user name it parsed
  users,      \* UserGroup::users_
  sessions,   \* User::sessions_ of each user
  maxSessions,\* User::max_sessions_ of each user
  receiver,   \* the receiver thread of each session
  running,    \* running_accept_
  mode        \* the main thread, and whether the process is alive

clientVars == <<client, wire, replies, backlog>>
socketVars == <<fd, socket>>
acceptVars == <<pc, current, name>>
userVars   == <<users, sessions, maxSessions>>
mainVars   == <<running, mode>>
vars == <<clientVars, socketVars, acceptVars, userVars, receiver, mainVars>>

Alive == mode \notin {"stopped", "aborted"}

LoadedFirstOnly(u) == users # <<>> /\ users[1] = u    \* mutant: looks at one entry

Loaded(u) == \E i \in 1..Len(users) : users[i] = u
Registered(c) == \E u \in User : \E i \in 1..Len(sessions[u]) : sessions[u][i] = c
OnSocket(c) == fd[c] \in Fd /\ socket[fd[c]] = c   \* accepted and not closed

TypeOK ==
  /\ client \in [Conn -> {"idle", "connected", "sending", "sent", "in", "exiting", "gone"}]
  /\ wire \in [Conn -> Login \cup {NoLogin}]
  /\ replies \in [Conn -> Seq(Nat)]
  /\ backlog \in Seq(Conn)
  /\ fd \in [Conn -> Fd \cup {NoFd}]
  /\ socket \in [Fd -> Conn \cup {NoConn}]
  /\ pc \in {"top", "select", "receive", "lookup", "load", "check",
             "create", "add", "approve", "done"}
  /\ current \in Conn \cup {NoConn}
  /\ name \in User \cup {NoLogin}
  /\ users \in Seq(User)
  /\ sessions \in [User -> Seq(Conn)]
  /\ maxSessions \in [User -> MaxOutcomes \cup {0}]
  /\ receiver \in [Conn -> {"none", "running", "done"}]
  /\ running \in BOOLEAN
  /\ mode \in {"loop", "listing", "stopping", "stopped", "aborted"}

Init ==
  /\ client = [c \in Conn |-> "idle"]
  /\ wire = [c \in Conn |-> NoLogin]
  /\ replies = [c \in Conn |-> <<>>]
  /\ backlog = <<>>
  /\ fd = [c \in Conn |-> NoFd]
  /\ socket = [f \in Fd |-> NoConn]
  /\ pc = "top" /\ current = NoConn /\ name = NoLogin
  /\ users = <<>>
  /\ sessions = [u \in User |-> <<>>]
  /\ maxSessions = [u \in User |-> 0]
  /\ receiver = [c \in Conn |-> "none"]
  /\ running = TRUE
  /\ mode = "loop"

-----------------------------------------------------------------------------
(* Clients.                                                                *)

ClientConnect(c) ==
  /\ Alive /\ client[c] = "idle"
  /\ client' = [client EXCEPT ![c] = "connected"]
  /\ backlog' = Append(backlog, c)
  /\ UNCHANGED <<wire, replies, socketVars, acceptVars, userVars, receiver, mainVars>>

\* login() sends one packet: its first bytes arrive, then the rest.
ClientBeginLogin(c) ==
  /\ Alive /\ client[c] = "connected"
  /\ client' = [client EXCEPT ![c] = "sending"]
  /\ UNCHANGED <<wire, replies, backlog, socketVars, acceptVars, userVars, receiver, mainVars>>

\* "login|user|machine"; what is not this client may send anything.
ClientSendLogin(c, l) ==
  /\ Alive /\ client[c] = "sending"
  /\ client' = [client EXCEPT ![c] = "sent"]
  /\ wire' = [wire EXCEPT ![c] = l]
  /\ UNCHANGED <<replies, backlog, socketVars, acceptVars, userVars, receiver, mainVars>>

\* login() returns the id of the first packet it receives.
ClientLoggedIn(c) ==
  /\ Alive /\ client[c] = "sent" /\ replies[c] # <<>>
  /\ client' = [client EXCEPT ![c] = "in"]
  /\ UNCHANGED <<wire, replies, backlog, socketVars, acceptVars, userVars, receiver, mainVars>>

\* The "exit" command of the client's console sends an exit packet; from then on the
\* client may or may not be there, the packet is in the socket.
ClientExit(c) ==
  /\ Alive /\ client[c] = "in"
  /\ client' = [client EXCEPT ![c] = "exiting"]
  /\ UNCHANGED <<wire, replies, backlog, socketVars, acceptVars, userVars, receiver, mainVars>>

\* login() raises (3 s without an answer, or the server closed), or the process dies.
ClientGone(c) ==
  /\ Alive /\ client[c] \in {"connected", "sending", "sent", "in"}
  /\ client' = [client EXCEPT ![c] = "gone"]
  /\ UNCHANGED <<wire, replies, backlog, socketVars, acceptVars, userVars, receiver, mainVars>>

-----------------------------------------------------------------------------
(* The accept thread.                                                      *)

Goto(l) == pc' = l

\* while(running_accept_.load())
LoopTest ==
  /\ Alive /\ pc = "top"
  /\ Goto(IF running THEN "select" ELSE "done")
  /\ UNCHANGED <<clientVars, socketVars, current, name, userVars, receiver, mainVars>>

FreeFds == {f \in Fd : socket[f] = NoConn}

\* accept() returns the lowest free descriptor, or fails when there is none.
AcceptConnection ==
  /\ Alive /\ pc = "select" /\ backlog # <<>>
  /\ \E f \in FreeFds :
       /\ \A g \in FreeFds : f <= g
       /\ fd' = [fd EXCEPT ![Head(backlog)] = f]
       /\ socket' = [socket EXCEPT ![f] = Head(backlog)]
  /\ current' = Head(backlog)
  /\ backlog' = Tail(backlog)
  /\ Goto("receive")
  /\ UNCHANGED <<client, wire, replies, name, userVars, receiver, mainVars>>

\* select() times out, or accept() finds no free descriptor and the result is ignored.
AcceptNothing ==
  /\ Alive /\ pc = "select"
  /\ backlog = <<>> \/ FreeFds = {}
  /\ Goto("top")
  /\ UNCHANGED <<clientVars, socketVars, current, name, userVars, receiver, mainVars>>

DropWithoutClose ==   \* mutant: a failure path that forgets close(new_socket)
  /\ current' = NoConn /\ name' = NoLogin
  /\ Goto("top")
  /\ UNCHANGED socketVars

Drop ==
  /\ socket' = [socket EXCEPT ![fd[current]] = NoConn]
  /\ current' = NoConn /\ name' = NoLogin
  /\ Goto("top")
  /\ UNCHANGED fd

\* strcharray(s, out, max) with s of the given size; max is unsigned.
StrcharrayThrows(size, max) == max # 0 /\ size > max - 1

\* A refusal builds a "login|fail" packet (0 in replies) and copies a reason of n
\* characters into its payload with max = n.  When that throws, the handler around
\* the whole request only closes the socket.
Refuse(n) ==
  /\ replies' = IF StrcharrayThrows(n, n) THEN replies
                ELSE [replies EXCEPT ![current] = Append(@, 0)]
  /\ Drop

ReceiveLogin ==
  /\ Alive /\ pc = "receive" /\ wire[current] # NoLogin
  /\ wire' = [wire EXCEPT ![current] = NoLogin]
  /\ IF wire[current] \in User
       THEN /\ name' = wire[current] /\ Goto("lookup")
            /\ UNCHANGED <<replies, socketVars, current>>
       ELSE Refuse(ReasonSize)
  /\ UNCHANGED <<client, backlog, userVars, receiver, mainVars>>

ReceiveFailsAtEof ==   \* mutant: a receive without a timeout
  /\ Alive /\ pc = "receive" /\ wire[current] = NoLogin /\ client[current] = "gone"
  /\ Drop
  /\ UNCHANGED <<clientVars, userVars, receiver, mainVars>>

\* receive_packet times out 3 s before the first byte, or the client has closed.  Once
\* select() has seen a byte, recv() waits for the rest without a timeout.
ReceiveFails ==
  /\ Alive /\ pc = "receive" /\ wire[current] = NoLogin /\ client[current] # "sending"
  /\ Drop
  /\ UNCHANGED <<clientVars, userVars, receiver, mainVars>>

\* handle_new_session: get_user
LookupUser ==
  /\ Alive /\ pc = "lookup"
  /\ Goto(IF Loaded(name) THEN "check" ELSE "load")
  /\ UNCHANGED <<clientVars, socketVars, current, name, userVars, receiver, mainVars>>

\* load_user constructs the User and pushes it.  max_sessions_ is initialised from
\* max_sessions_default_, a member declared after it and not initialised yet.
LoadUser ==
  /\ Alive /\ pc = "load"
  /\ \E m \in MaxOutcomes : maxSessions' = [maxSessions EXCEPT ![name] = m]
  /\ users' = Append(users, name)
  /\ Goto("check")
  /\ UNCHANGED <<clientVars, socketVars, current, name, sessions, receiver, mainVars>>

\* The constructor of User raises when it cannot create the user's directory.
LoadUserFails ==
  /\ Alive /\ pc = "load"
  /\ Refuse(ReasonSize)
  /\ UNCHANGED <<client, wire, backlog, userVars, receiver, mainVars>>

BelowLimitOffByOne(u) == Len(sessions[u]) <= SessionLimit   \* mutant
SocketNeverBusy(u, f) == FALSE                              \* mutant: no duplicate test
SessionNumberStale(u) == Len(sessions[u])                   \* mutant: the count, not its successor

BelowLimit(u) == Len(sessions[u]) < SessionLimit
SessionNumber(u) == Len(sessions[u]) + 1
SocketBusy(u, f) == \E i \in 1..Len(sessions[u]) : fd[sessions[u][i]] = f

\* The limit, the duplicate test, and the confirmation sent before the session exists.
ConfirmLogin ==
  /\ Alive /\ pc = "check"
  /\ BelowLimit(name) /\ ~ SocketBusy(name, fd[current])
  /\ replies' = [replies EXCEPT ![current] = Append(@, SessionNumber(name))]
  /\ Goto("create")
  /\ UNCHANGED <<client, wire, backlog, socketVars, current, name, userVars, receiver, mainVars>>

\* The send of the confirmation raises (its select times out, or the peer has reset the
\* connection): the client is told nothing, and there is no session yet.
ConfirmFails ==
  /\ Alive /\ pc = "check"
  /\ BelowLimit(name) /\ ~ SocketBusy(name, fd[current])
  /\ Refuse(ReasonSize)
  /\ UNCHANGED <<client, wire, backlog, userVars, receiver, mainVars>>

\* The peer has closed in order: EPIPE, and SIGPIPE has its default action.
ConfirmKills ==
  /\ Alive /\ pc = "check" /\ client[current] = "gone"
  /\ BelowLimit(name) /\ ~ SocketBusy(name, fd[current])
  /\ mode' = "aborted"
  /\ UNCHANGED <<clientVars, socketVars, acceptVars, userVars, receiver, running>>

RefuseLogin ==
  /\ Alive /\ pc = "check"
  /\ ~ BelowLimit(name) \/ SocketBusy(name, fd[current])
  /\ Refuse(ReasonSize)
  /\ UNCHANGED <<client, wire, backlog, userVars, receiver, mainVars>>

\* The constructor of ClientSession starts the sender thread, then the receiver thread.
CreateSession ==
  /\ Alive /\ pc = "create"
  /\ receiver' = [receiver EXCEPT ![current] = "running"]
  /\ Goto("add")
  /\ UNCHANGED <<clientVars, socketVars, current, name, userVars, mainVars>>

\* The sender thread cannot be created: the client was already told its number.
StartSenderFails ==
  /\ Alive /\ pc = "create"
  /\ Refuse(ReasonSize)
  /\ UNCHANGED <<client, wire, backlog, userVars, receiver, mainVars>>

\* The receiver thread cannot: the half-built session is unwound, and the destructor of
\* the sender thread nobody joined ends the process.
StartReceiverFails ==
  /\ Alive /\ pc = "create"
  /\ mode' = "aborted"
  /\ UNCHANGED <<clientVars, socketVars, acceptVars, userVars, receiver, running>>

\* User::add_session
HasRoom(u) == Len(sessions[u]) <= maxSessions[u]

AddSessionMoved ==   \* mutant: the unique_ptr is moved before it is pushed
  /\ Alive /\ pc = "add" /\ HasRoom(name)
  /\ sessions' = [sessions EXCEPT ![name] = Append(@, NoConn)]
  /\ Goto("approve")
  /\ UNCHANGED <<clientVars, socketVars, current, name, users, maxSessions, receiver, mainVars>>

AddSession ==
  /\ Alive /\ pc = "add" /\ HasRoom(name)
  /\ sessions' = [sessions EXCEPT ![name] = Append(@, current)]
  /\ Goto("approve")
  /\ UNCHANGED <<clientVars, socketVars, current, name, users, maxSessions, receiver, mainVars>>

\* add_session raises: the session released to it keeps its threads.
AddSessionFails ==
  /\ Alive /\ pc = "add" /\ ~ HasRoom(name)
  /\ Refuse(ReasonSize)
  /\ UNCHANGED <<client, wire, backlog, userVars, receiver, mainVars>>

\* Back in the accept loop: a second approval, whose text "login|ok|" + new_socket is
\* pointer arithmetic; login() reads the first answer only, so it is not in replies.
Approve ==
  /\ Alive /\ pc = "approve"
  /\ Goto("top") /\ current' = NoConn /\ name' = NoLogin
  /\ UNCHANGED <<clientVars, socketVars, userVars, receiver, mainVars>>

\* The send of the approval raises, as that of the confirmation may, also with a client
\* that is there: the registered session loses its socket.
ApproveFails ==
  /\ Alive /\ pc = "approve"
  /\ Refuse(ReasonSize)
  /\ UNCHANGED <<client, wire, backlog, userVars, receiver, mainVars>>

\* EPIPE, as in ConfirmKills.
ApproveKills ==
  /\ Alive /\ pc = "approve" /\ client[current] \in {"gone", "exiting"}
  /\ mode' = "aborted"
  /\ UNCHANGED <<clientVars, socketVars, acceptVars, userVars, receiver, running>>

-----------------------------------------------------------------------------
(* The threads of sessions and users.                                      *)

\* client_requested_logout_ clears the flags; nothing else is undone.
SessionLogout(c) ==
  /\ Alive /\ receiver[c] = "running" /\ client[c] = "exiting" /\ OnSocket(c)
  /\ receiver' = [receiver EXCEPT ![c] = "done"]
  /\ UNCHANGED <<clientVars, socketVars, acceptVars, userVars, mainVars>>

\* 3 s of silence, end of stream or a closed descriptor: session_receiver_loop
\* raises again what it caught, out of its thread.
SessionFails(c) ==
  /\ Alive /\ receiver[c] = "running"
  /\ client[c] # "exiting" \/ ~ OnSocket(c)
  /\ mode' = "aborted"
  /\ UNCHANGED <<clientVars, socketVars, acceptVars, userVars, receiver, running>>

\* A session whose descriptor was closed and reused reads the login of the new
\* connection before the accept thread does, and drops it as malformed.
StealLogin(c) ==
  /\ Alive /\ receiver[c] = "running" /\ ~ OnSocket(c)
  /\ pc = "receive" /\ fd[c] = fd[current] /\ wire[current] # NoLogin
  /\ wire' = [wire EXCEPT ![current] = NoLogin]
  /\ UNCHANGED <<client, replies, backlog, socketVars, acceptVars, userVars, receiver, mainVars>>

\* overseer_loop: last_ping_ is never set, so the first tick that finds a session
\* disconnects it, and the strcharray of disconnect throws out of the thread.
OverseerTick(u) ==
  /\ Alive /\ Loaded(u) /\ sessions[u] # <<>>
  /\ mode' = "aborted"
  /\ UNCHANGED <<clientVars, socketVars, acceptVars, userVars, receiver, running>>

-----------------------------------------------------------------------------
(* The main thread.                                                        *)

\* process_input: "list clients" walks users_ and the size of each sessions_.
ListBegin ==
  /\ mode = "loop" /\ mode' = "listing"
  /\ UNCHANGED <<clientVars, socketVars, acceptVars, userVars, receiver, running>>

ListEnd ==
  /\ mode = "listing" /\ mode' = "loop"
  /\ UNCHANGED <<clientVars, socketVars, acceptVars, userVars, receiver, running>>

\* users_ and sessions_ are walked without the lock of the pushes: when the accept
\* thread is at one, its vector may be reallocated under the walk.
ListCrashes ==
  /\ mode = "listing" /\ pc \in {"load", "add"} /\ mode' = "aborted"
  /\ UNCHANGED <<clientVars, socketVars, acceptVars, userVars, receiver, running>>

StopWithoutFlag ==   \* mutant: stop() joins without stop_accept_loop()
  /\ mode = "loop" /\ mode' = "stopping"
  /\ UNCHANGED <<clientVars, socketVars, acceptVars, userVars, receiver, running>>

\* "exit": Server::stop clears running_accept_ and joins the accept thread.
Stop ==
  /\ mode = "loop" /\ mode' = "stopping" /\ running' = FALSE
  /\ UNCHANGED <<clientVars, socketVars, acceptVars, userVars, receiver>>

Join ==
  /\ mode = "stopping" /\ pc = "done" /\ mode' = "stopped"
  /\ UNCHANGED <<clientVars, socketVars, acceptVars, userVars, receiver, running>>

Ended == ~ Alive /\ UNCHANGED vars   \* the process is no more

-----------------------------------------------------------------------------
Accept ==
  \/ LoopTest \/ AcceptConnection \/ AcceptNothing
  \/ ReceiveLogin \/ ReceiveFails
  \/ LookupUser \/ LoadUser \/ LoadUserFails
  \/ ConfirmLogin \/ ConfirmFails \/ ConfirmKills \/ RefuseLogin
  \/ CreateSession \/ StartSenderFails \/ StartReceiverFails
  \/ AddSession \/ AddSessionFails
  \/ Approve \/ ApproveFails \/ ApproveKills

Main == ListBegin \/ ListEnd \/ ListCrashes \/ Stop \/ Join

Next ==
  \/ Accept
  \/ Main
  \/ \E c \in Conn :
       \/ ClientConnect(c) \/ ClientBeginLogin(c) \/ (\E l \in Login : ClientSendLogin(c, l))
       \/ ClientLoggedIn(c) \/ ClientExit(c) \/ ClientGone(c)
       \/ SessionLogout(c) \/ SessionFails(c) \/ StealLogin(c)
  \/ \E u \in User : OverseerTick(u)
  \/ Ended

Spec == Init /\ [][Next]_vars

(* The scheduler runs the accept thread and the main thread, and TCP       *)
(* delivers the rest of a packet whose first bytes it delivered or reports *)
(* the end of the stream; clients, commands and failures owe nothing.      *)
FairSpec ==
  /\ Spec /\ WF_vars(Accept) /\ WF_vars(ListEnd \/ Join)
  /\ \A c \in Conn : WF_vars(\E l \in Login : ClientSendLogin(c, l))

-----------------------------------------------------------------------------
(* Properties.                                                             *)

\* README: "on up to two different devices".  The count is read before the session
\* exists and add_session's own limit admits three: it is the one accept thread that
\* makes check-then-add atomic.
AtMostTwoSessions == \A u \in User : Len(sessions[u]) <= SessionLimit

\* UserGroup holds one User per name, whatever the order of requests and failures.
OneUserPerName ==
  \A i, j \in 1..Len(users) : users[i] = users[j] => i = j

\* Two sessions of one user never read and write the same descriptor, also after a
\* registered session has lost its socket and accept() has reused the number.
SessionsApart ==
  \A u \in User : \A i, j \in 1..Len(sessions[u]) :
    fd[sessions[u][i]] = fd[sessions[u][j]] => i = j

\* The number a client was told at its confirmation, sent before the session exists,
\* is the place its session then takes, and it was told only one.
NumberIsPlace ==
  \A u \in User : \A i \in 1..Len(sessions[u]) : replies[sessions[u][i]] = <<i>>

\* Every failure path closes (a malformed login, a user that cannot be loaded, a refusal,
\* a send or a thread that fails, a session that cannot be added): an open descriptor
\* belongs to the request being served or to a registered session.
NoDescriptorLeak ==
  \A f \in Fd : socket[f] # NoConn => socket[f] = current \/ Registered(socket[f])

Closed(c) == fd[c] \in Fd /\ socket[fd[c]] # c

-----------------------------------------------------------------------------
(* The inductive invariant behind the safety properties.                   *)

Serving == pc \in {"receive", "lookup", "load", "check", "create", "add", "approve"}

\* Who the accept thread serves, and that its descriptor stays open meanwhile.
ServingInv ==
  /\ Serving => current \in Conn /\ OnSocket(current)
  /\ ~ Serving => current = NoConn
  /\ pc \in {"lookup", "load", "check", "create", "add", "approve"} => name \in User
  /\ pc = "load" => ~ Loaded(name)

\* What handle_new_session tested stays true until the session is added.
GrantInv ==
  /\ pc \in {"create", "add"} => BelowLimit(name) /\ ~ SocketBusy(name, fd[current])
  /\ Serving /\ pc # "approve" => ~ Registered(current)
  /\ pc = "approve" => Registered(current)

\* Each connection is queued once, before it has a descriptor, an answer or a session.
QueueInv ==
  /\ \A i, j \in 1..Len(backlog) : backlog[i] = backlog[j] => i = j
  /\ \A i \in 1..Len(backlog) : fd[backlog[i]] = NoFd
  /\ \A c \in Conn : client[c] = "idle" =>
       fd[c] = NoFd /\ \A i \in 1..Len(backlog) : backlog[i] # c
  /\ \A c \in Conn : Registered(c) => fd[c] \in Fd

\* A descriptor denotes only the connection it was opened for.
DescriptorInv == \A f \in Fd : socket[f] # NoConn => fd[socket[f]] = f

\* Nobody is answered before the limit test, and then with the place to come.
ReplyInv ==
  /\ \A c \in Conn : fd[c] = NoFd => replies[c] = <<>>
  /\ pc \in {"receive", "lookup", "load", "check"} => replies[current] = <<>>
  /\ pc \in {"create", "add"} => replies[current] = <<SessionNumber(name)>>

IInv ==
  /\ TypeOK /\ ServingInv /\ GrantInv /\ QueueInv /\ DescriptorInv /\ ReplyInv
  /\ AtMostTwoSessions /\ OneUserPerName /\ SessionsApart
  /\ NumberIsPlace /\ NoDescriptorLeak

-----------------------------------------------------------------------------
\* With a descriptor for everyone, a client that sent its login is confirmed or closed,
\* however many silent or vanished clients are queued before it and whatever fails on the
\* way, unless the server is told to stop or the process dies first.
EveryRequestAnswered ==
  \A c \in Conn :
    client[c] = "sent" ~>
      replies[c] # <<>> \/ Closed(c) \/ mode \in {"stopping", "stopped", "aborted"}

\* "exit" ends: the accept thread notices the cleared flag and is joined.
StopCompletes == mode = "stopping" ~> ~ Alive

Refused == {c \in Conn : Closed(c) /\ ~ Registered(c)}

\* What the accept loop promises: at most two sessions per user, never withdrawn, and
\* one verdict per connection.
Service == INSTANCE LoginService WITH
  registry <- sessions,
  refused <- Refused
ImplementsLoginService == Service!Spec

\* README: "A user can use the service simultaneously on up to two different devices":
\* a login refused for the limit finds a device that is still using the service.
LimitCountsLiveSessions ==
  pc = "check" /\ ~ BelowLimit(name) =>
    \E i \in 1..Len(sessions[name]) : receiver[sessions[name][i]] = "running"

=============================================================================
