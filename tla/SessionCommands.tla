-------------------------- MODULE SessionCommands --------------------------
(***************************************************************************)
(* Two registered sessions of one user on the server: the receiver and the *)
(* sender thread of each (ClientSession), the commands they execute, the   *)
(* broadcast of a delete to the other session, and the temporary file that *)
(* an upload appends to, which a restart of the server leaves on disk.     *)
(*                                                                         *)
(* A receiver thread is named by its session.  owner[s] is the session the *)
(* thread s reads from and acts for: a broadcast reads the socket of the   *)
(* other session (add_packet_from_broadcast).  Packets are whole here.     *)
(* The clients are any that speak the commands the server accepts: the     *)
(* client of this commit queues most of them and starts no sender thread.  *)
(* Time is abstract: a receive that finds nothing may time out.            *)
(***************************************************************************)
EXTENDS Naturals, Sequences, Subsequences

CONSTANTS
  Session,      \* the two sessions
  Cmd,          \* commands the clients send
  Chunks,       \* packets of an upload
  MaxSent,      \* bound: packets a client sends
  MaxInbox,     \* bound: packets waiting on a socket
  MaxQueue,     \* bound: packets queued when a list of files asks for another file
  MaxRestarts   \* bound: restarts of the server

ASSUME SessionAssumption ==
  \E a, b \in Session : a # b /\ Session = {a, b}
ASSUME NumberAssumption ==
  /\ Chunks \in Nat \ {0} /\ MaxSent \in Nat /\ MaxInbox \in Nat
  /\ MaxQueue \in Nat /\ MaxRestarts \in Nat

(* The commands by what their handlers do.                                 *)
Answered == {"ping", "clist"}     \* queue a packet and notify the sender, clist per file
Listed   == {"slist", "flist"}    \* queue a packet, no notify
\* no such file: the reason is copied with max = its size, and strcharray throws
Failing  == {"deleteMissing", "adownloadMissing"}
Ignored  == {"pong", "supload", "download", "adownload", "malformed"}
ASSUME CmdAssumption ==
  Cmd \subseteq Answered \cup Listed \cup Failing \cup Ignored \cup {"exit", "delete", "sdownload"}

Packet == Cmd \X (0..Chunks)    \* the command and its sequence_number
Other(s) == CHOOSE t \in Session : t # s

VARIABLES
  inbox,     \* packets that arrived for a session
  sent,      \* packets a client sent
  chunk,     \* sequence_number of a client's next upload packet
  rx,        \* where each receiver thread is
  hand,      \* the packet it has received and not handled
  owner,     \* the session it reads from and acts for
  nested,    \* it is in the broadcast of a delete
  tx,        \* where each sender thread is
  queue,     \* sender_buffer_: an answer or a listing
  runRx, runTx,   \* running_receiver_, running_sender_
  temp,      \* the .swizdownload file: <<session, sequence_number>> appended
  alive,     \* the process runs
  restarts, calm  \* restarts so far; no restart and no broadcast so far

clientVars == <<inbox, sent, chunk>>
rxVars == <<rx, hand, owner, nested>>
diskVars == <<temp, restarts, calm>>
vars == <<clientVars, rxVars, tx, queue, runRx, runTx, diskVars, alive>>

TypeOK ==
  /\ inbox \in [Session -> Seq(Packet)]
  /\ sent \in [Session -> Nat] /\ chunk \in [Session -> 0..Chunks]
  /\ rx \in [Session -> {"start", "loop", "receive", "handle", "notify", "erase", "done"}]
  /\ hand \in [Session -> Packet \cup {<<>>}]
  /\ \A s \in Session : rx[s] \in {"handle", "notify"} => hand[s] \in Packet
  /\ owner \in [Session -> Session] /\ nested \in [Session -> BOOLEAN]
  /\ tx \in [Session -> {"start", "test", "wait", "check", "send", "done"}]
  /\ queue \in [Session -> Seq({"answer", "listing"})]
  /\ runRx \in [Session -> BOOLEAN] /\ runTx \in [Session -> BOOLEAN]
  /\ temp \in Seq(Session \X (0..Chunks))
  /\ alive \in BOOLEAN /\ restarts \in Nat /\ calm \in BOOLEAN

All(v) == [s \in Session |-> v]
Self == [s \in Session |-> s]

\* The constructors have started the threads.
Init ==
  /\ inbox = All(<<>>) /\ sent = All(0) /\ chunk = All(0)
  /\ rx = All("start") /\ hand = All(<<>>) /\ owner = Self /\ nested = All(FALSE)
  /\ tx = All("start") /\ queue = All(<<>>) /\ runRx = All(TRUE) /\ runTx = All(TRUE)
  /\ alive = TRUE
  /\ temp = <<>> /\ restarts = 0 /\ calm = TRUE

-----------------------------------------------------------------------------
(* The clients, and the operator who restarts the server.                  *)

\* Client::server_download_command_ answers a request with "sdownload" packets, in
\* order from packet 0; other packets have no number.
Send(s, c) ==
  /\ alive /\ sent[s] < MaxSent /\ Len(inbox[s]) < MaxInbox
  /\ sent' = [sent EXCEPT ![s] = @ + 1]
  /\ IF c = "sdownload"
       THEN /\ chunk[s] < Chunks
            /\ chunk' = [chunk EXCEPT ![s] = @ + 1]
            /\ inbox' = [inbox EXCEPT ![s] = Append(@, <<c, chunk[s]>>)]
       ELSE /\ inbox' = [inbox EXCEPT ![s] = Append(@, <<c, 0>>)]
            /\ UNCHANGED chunk
  /\ UNCHANGED <<rxVars, tx, queue, runRx, runTx, diskVars, alive>>

\* The users log in again; the directory is as it was.
Restart ==
  /\ ~ alive /\ restarts < MaxRestarts
  /\ inbox' = All(<<>>) /\ chunk' = All(0)
  /\ rx' = All("start") /\ hand' = All(<<>>) /\ owner' = Self /\ nested' = All(FALSE)
  /\ tx' = All("start") /\ queue' = All(<<>>) /\ runRx' = All(TRUE) /\ runTx' = All(TRUE)
  /\ alive' = TRUE
  /\ restarts' = restarts + 1 /\ calm' = FALSE
  /\ UNCHANGED <<temp, sent>>

\* An exception or an invalid access leaves a thread: the process ends.
Abort ==
  /\ alive' = FALSE
  /\ UNCHANGED <<clientVars, rxVars, tx, queue, runRx, runTx, diskVars>>

-----------------------------------------------------------------------------
(* session_receiver_loop and add_packet_from_broadcast.                    *)

\* The thread stores the flag itself, after start_receiver has.
RxStart(s) ==
  /\ alive /\ rx[s] = "start"
  /\ rx' = [rx EXCEPT ![s] = "loop"] /\ runRx' = [runRx EXCEPT ![s] = TRUE]
  /\ UNCHANGED <<clientVars, hand, owner, nested, tx, queue, runTx, diskVars, alive>>

RxLoopForever(s) ==   \* mutant: while(true)
  /\ alive /\ rx[s] = "loop"
  /\ rx' = [rx EXCEPT ![s] = "receive"]
  /\ UNCHANGED <<clientVars, hand, owner, nested, tx, queue, runRx, runTx, diskVars, alive>>

RxLoop(s) ==
  /\ alive /\ rx[s] = "loop"
  /\ rx' = [rx EXCEPT ![s] = IF runRx[s] THEN "receive" ELSE "done"]
  /\ UNCHANGED <<clientVars, hand, owner, nested, tx, queue, runRx, runTx, diskVars, alive>>

RxReceive(s) ==
  /\ alive /\ rx[s] = "receive" /\ inbox[owner[s]] # <<>>
  /\ hand' = [hand EXCEPT ![s] = Head(inbox[owner[s]])]
  /\ inbox' = [inbox EXCEPT ![owner[s]] = Tail(@)]
  /\ rx' = [rx EXCEPT ![s] = "handle"]
  /\ UNCHANGED <<sent, chunk, owner, nested, tx, queue, runRx, runTx, diskVars, alive>>

\* Back from a handler: to the loop, or to the delete that broadcast.
Return(s) ==
  /\ rx' = [rx EXCEPT ![s] = IF nested[s] THEN "erase" ELSE "loop"]
  /\ hand' = [hand EXCEPT ![s] = <<>>]

\* raise(): the receiver loop lets it out of the thread; broadcast_other_sessions
\* catches it and the delete goes on.
Raise(s) ==
  IF nested[s] THEN Return(s) /\ UNCHANGED alive ELSE alive' = FALSE /\ UNCHANGED <<rx, hand>>

\* 3 s of silence or the end of the stream
RxFails(s) ==
  /\ alive /\ rx[s] = "receive" /\ inbox[owner[s]] = <<>>
  /\ Raise(s)
  /\ UNCHANGED <<clientVars, owner, nested, tx, queue, runRx, runTx, diskVars>>

Handling(s, cmds) == alive /\ rx[s] = "handle" /\ hand[s][1] \in cmds
Push(s, r) == queue' = [queue EXCEPT ![s] = Append(@, r)]
SendMutexFree(s) == tx[s] \notin {"check", "send"}

AnswerUnnotified(s) ==   \* mutant: push_back without send_cv_.notify_one()
  /\ Handling(s, Answered) /\ SendMutexFree(owner[s])
  /\ Push(owner[s], "answer") /\ Return(s)
  /\ UNCHANGED <<clientVars, owner, nested, tx, runRx, runTx, diskVars, alive>>

\* client_requested_ping_; client_sent_clist_ for a file that the server does not list
Answer(s) ==
  /\ Handling(s, Answered) /\ SendMutexFree(owner[s])
  /\ hand[s][1] = "clist" => Len(queue[owner[s]]) < MaxQueue
  /\ Push(owner[s], "answer")
  /\ rx' = [rx EXCEPT ![s] = "notify"]
  /\ UNCHANGED <<clientVars, hand, owner, nested, tx, runRx, runTx, diskVars, alive>>

Notify(s) ==
  /\ alive /\ rx[s] = "notify"
  /\ tx' = [tx EXCEPT ![owner[s]] = IF @ = "wait" THEN "test" ELSE @]
  /\ IF hand[s][1] = "clist"
       THEN rx' = [rx EXCEPT ![s] = "handle"] /\ UNCHANGED hand
       ELSE Return(s)
  /\ UNCHANGED <<clientVars, owner, nested, queue, runRx, runTx, diskVars, alive>>

\* No file is left to ask for; or the packet had no payload, and split_buffer reads
\* through the null pointer.
ListHandled(s) ==
  /\ Handling(s, {"clist"})
  /\ \/ Return(s) /\ UNCHANGED alive
     \/ alive' = FALSE /\ UNCHANGED <<rx, hand>>
  /\ UNCHANGED <<clientVars, owner, nested, tx, queue, runRx, runTx, diskVars>>

\* client_requested_slist_, client_requested_flist_
List(s) ==
  /\ Handling(s, Listed) /\ SendMutexFree(owner[s])
  /\ Push(owner[s], "listing") /\ Return(s)
  /\ UNCHANGED <<clientVars, owner, nested, tx, runRx, runTx, diskVars, alive>>

Fail(s) ==
  /\ Handling(s, Failing) /\ Raise(s)
  /\ UNCHANGED <<clientVars, owner, nested, tx, queue, runRx, runTx, diskVars>>

\* Messages on the console only; adownload finds no file mutex, download is empty.
Ignore(s) ==
  /\ Handling(s, Ignored) /\ Return(s)
  /\ UNCHANGED <<clientVars, owner, nested, tx, queue, runRx, runTx, diskVars, alive>>

\* client_requested_logout_: nobody is notified.
Logout(s) ==
  /\ Handling(s, {"exit"}) /\ Return(s)
  /\ runRx' = [runRx EXCEPT ![owner[s]] = FALSE]
  /\ runTx' = [runTx EXCEPT ![owner[s]] = FALSE]
  /\ UNCHANGED <<clientVars, owner, nested, tx, queue, diskVars, alive>>

Prepended(s) == <<<<owner[s], hand[s][2]>>>> \o temp   \* mutant: written at the front
AppendedPastEnd(s) ==     \* mutant: numbered on from expected_packets
  Append(temp, <<owner[s], hand[s][2] + Chunks>>)
Appended(s) == Append(temp, <<owner[s], hand[s][2]>>)

\* client_sent_sdownload_: the last packet should replace the file, but no file has a
\* mutex in file_mtx_, which raises.  When the temporary file cannot be opened the text
\* of the answer does not fit, which throws.
Store(s) ==
  /\ Handling(s, {"sdownload"})
  /\ \/ /\ temp' = Appended(s)
        /\ IF hand[s][2] = Chunks - 1 THEN Raise(s) ELSE Return(s) /\ UNCHANGED alive
     \/ Raise(s) /\ UNCHANGED temp
  /\ UNCHANGED <<clientVars, owner, nested, tx, queue, runRx, runTx, restarts, calm>>

\* client_requested_delete_ of a file that is there: broadcast_other_sessions makes
\* this thread receive from the other session's socket.
Broadcast(s) ==
  /\ Handling(s, {"delete"})
  /\ owner' = [owner EXCEPT ![s] = Other(@)]
  /\ nested' = [nested EXCEPT ![s] = TRUE]
  /\ hand' = [hand EXCEPT ![s] = <<>>]
  /\ rx' = [rx EXCEPT ![s] = "receive"]
  /\ calm' = FALSE
  /\ UNCHANGED <<clientVars, tx, queue, runRx, runTx, temp, restarts, alive>>

\* After the broadcast: no entry in file_mtx_, and locking through the null pointer that
\* [] creates throws.
Erase(s) == alive /\ rx[s] = "erase" /\ Abort

-----------------------------------------------------------------------------
(* session_sender_loop.  send_mtx_ is held from the test to the sleep, and *)
(* in "check" and "send".                                                  *)

TxStart(s) ==
  /\ alive /\ tx[s] = "start"
  /\ tx' = [tx EXCEPT ![s] = "test"] /\ runTx' = [runTx EXCEPT ![s] = TRUE]
  /\ UNCHANGED <<clientVars, rxVars, queue, runRx, diskVars, alive>>

\* The test of the loop and, under the mutex, the predicate of the wait.
TxTest(s) ==
  /\ alive /\ tx[s] = "test"
  /\ tx' = [tx EXCEPT ![s] = IF ~ runTx[s] THEN "done"
                            ELSE IF queue[s] # <<>> THEN "check" ELSE "wait"]
  /\ UNCHANGED <<clientVars, rxVars, queue, runRx, runTx, diskVars, alive>>

SpuriousWakeup(s) ==
  /\ alive /\ tx[s] = "wait"
  /\ tx' = [tx EXCEPT ![s] = "test"]
  /\ UNCHANGED <<clientVars, rxVars, queue, runRx, runTx, diskVars, alive>>

TxCheck(s) ==
  /\ alive /\ tx[s] = "check"
  /\ tx' = [tx EXCEPT ![s] = IF runTx[s] THEN "send" ELSE "done"]
  /\ UNCHANGED <<clientVars, rxVars, queue, runRx, runTx, diskVars, alive>>

\* send_packet_ passes no descriptor: send_data waits for the listening socket, which
\* never becomes writable, and its exception leaves the thread.
TxSend(s) == alive /\ tx[s] = "send" /\ Abort

-----------------------------------------------------------------------------
Rx(s) ==
  \/ RxStart(s) \/ RxLoop(s) \/ RxReceive(s) \/ RxFails(s)
  \/ Answer(s) \/ Notify(s) \/ ListHandled(s) \/ List(s) \/ Fail(s) \/ Ignore(s)
  \/ Logout(s) \/ Store(s) \/ Broadcast(s) \/ Erase(s)

Tx(s) == TxStart(s) \/ TxTest(s) \/ TxCheck(s) \/ TxSend(s)

Next ==
  \/ \E s \in Session :
       Rx(s) \/ Tx(s) \/ SpuriousWakeup(s) \/ (\E c \in Cmd : Send(s, c))
  \/ Restart

Spec == Init /\ [][Next]_vars

-----------------------------------------------------------------------------
(* Properties.                                                             *)

HasAnswer(s) == \E i \in 1..Len(queue[s]) : queue[s][i] = "answer"

\* No lost wakeup in the sender: it never sleeps on an answer, but for the moment
\* between the push and the notify of the thread that answers.
NoForgottenAnswer ==
  \A s \in Session : tx[s] = "wait" /\ HasAnswer(s) =>
    \E t \in Session : rx[t] = "notify" /\ owner[t] = s

Own(s) == Kept(temp, {s} \X (0..Chunks))

\* As long as nothing was broadcast and the server not restarted, the temporary file
\* holds the packets of each device once and in the order sent.
OwnChunksInOrder ==
  calm => \A s \in Session : \A i \in 1..Len(Own(s)) : Own(s)[i] = <<s, i - 1>>

\* Nothing that a client sends after its exit packet is handled, as long as the other
\* session's thread does not read it.
NothingAfterLogout ==
  calm => \A s \in Session : ~ runRx[s] => rx[s] \in {"loop", "done"}

\* README: "Data storage structures on the server should be kept in a consistent state
\* and protected from concurrent access": the temporary file of an upload holds one
\* upload, from its first packet on.
OneUploadPerFile ==
  temp # <<>> => \A i \in 1..Len(temp) : temp[i] = <<temp[1][1], i - 1>>

-----------------------------------------------------------------------------
(* The inductive invariant behind OwnChunksInOrder: the packets of an      *)
(* upload that are stored, in the receiver's hand and still waiting on the *)
(* socket are numbered on from 0 up to the client's next one.              *)

Waiting(s) == Kept(inbox[s], {"sdownload"} \X (0..Chunks))
Held(s) == IF rx[s] = "handle" /\ hand[s][1] = "sdownload" THEN 1 ELSE 0

UploadNumbers ==
  calm /\ alive => \A s \in Session :
    /\ Held(s) = 1 => hand[s][2] = Len(Own(s))
    /\ \A i \in 1..Len(Waiting(s)) : Waiting(s)[i][2] = Len(Own(s)) + Held(s) + i - 1
    /\ chunk[s] = Len(Own(s)) + Held(s) + Len(Waiting(s))

=============================================================================
