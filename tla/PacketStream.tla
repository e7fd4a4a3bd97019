---------------------------- MODULE PacketStream ----------------------------
(***************************************************************************)
(* One direction of one TCP connection: send_packet and receive_packet     *)
(* (packet.cpp) over send_data and receive_data (socket_commands.cpp).     *)
(* TCP carries bytes: a packet is a header of Header units and a payload   *)
(* whose size the header tells.  One thread sends; the threads of Reader   *)
(* call receive_packet on the one descriptor: its session's receiver, and  *)
(* the thread of another session whose broadcast reads from it             *)
(* (client_connection_session_network.cpp:205).                            *)
(***************************************************************************)
EXTENDS Naturals, Sequences

CONSTANTS Reader,        \* the threads that receive from the descriptor
          Header,        \* units of a header
          PayloadSizes,  \* the payload sizes of packets; 0 is a bare header
          Capacity,      \* units the socket's buffers hold
          MaxPackets     \* bound on the packets sent

ASSUME HeaderAssumption == Header \in Nat \ {0}
ASSUME PayloadSizesAssumption == PayloadSizes \subseteq Nat
ASSUME BoundsAssumption == Capacity \in Nat \ {0} /\ MaxPackets \in Nat

VARIABLES
    sizes,      \* payload_size of each packet the sender has begun
    snd,        \* the sender: "idle", "select", "send", "failed"
    next,       \* the unit that goes out next: <<packet, place in it>>
    stream,     \* the units sent and not received
    closed,     \* no unit will follow those in stream
    rd,         \* per reader: "idle", "select", "recv", "failed"
    got,        \* per reader: the units of the packet it is receiving
    goal,       \* per reader: how many it wants before it looks at them
    delivered   \* the packets receive_packet returned

vars == <<sizes, snd, next, stream, closed, rd, got, goal, delivered>>
sender == <<sizes, snd, next>>
readers == <<rd, got, goal, delivered>>

Unit == (Nat \ {0}) \X (Nat \ {0})

\* Packet k as it was sent.
Whole(k) == [j \in 1..(Header + sizes[k]) |-> <<k, j>>]

\* The unit after u on the wire.
Succ(u) == IF u[2] < Header + sizes[u[1]] THEN <<u[1], u[2] + 1>>
                                          ELSE <<u[1] + 1, 1>>

\* What the header just received says of the payload.  Units of different
\* packets make a header whose bytes say anything.
Announced(g) == IF \E k \in DOMAIN sizes : g = [j \in 1..Header |-> <<k, j>>]
                THEN {sizes[g[1][1]]}
                ELSE PayloadSizes

Init == /\ sizes = <<>>
        /\ snd = "idle"
        /\ next = <<1, 1>>
        /\ stream = <<>>
        /\ closed = FALSE
        /\ rd = [r \in Reader |-> "idle"]
        /\ got = [r \in Reader |-> <<>>]
        /\ goal = [r \in Reader |-> Header]
        /\ delivered = <<>>
-----------------------------------------------------------------------------
(* The sender. *)

\* send_packet hands the header to send_data.
Send == /\ snd = "idle"
        /\ Len(sizes) < MaxPackets
        /\ \E n \in PayloadSizes : sizes' = Append(sizes, n)
        /\ snd' = "select"
        /\ UNCHANGED <<next, stream, closed, readers>>

\* select says the socket takes data.
Writable == /\ snd = "select"
            /\ Len(stream) < Capacity
            /\ snd' = "send"
            /\ UNCHANGED <<sizes, next, stream, closed, readers>>

\* What follows unit u: the rest of its part, the payload with a select of
\* its own, or the end of send_packet.
AfterUnit(u) == CASE u[2] = Header + sizes[u[1]] -> "idle"
                  [] u[2] = Header /\ sizes[u[1]] > 0 -> "select"
                  [] OTHER -> "send"

\* send takes any number of bytes and blocks while there is no room.
SendUnit == /\ snd = "send"
            /\ Len(stream) < Capacity
            /\ stream' = Append(stream, next)
            /\ next' = Succ(next)
            /\ snd' = AfterUnit(next)
            /\ UNCHANGED <<sizes, closed, readers>>

\* Three seconds without room: send_data raises.
SendTimesOut == /\ snd = "select"
                /\ Len(stream) >= Capacity
                /\ snd' = "failed"
                /\ UNCHANGED <<sizes, next, stream, closed, readers>>

\* Mutant: send's -1 is not looked at.
SendFailsIgnored == FALSE

\* The receiving end is gone: send returns -1 and send_data raises.
SendFails == /\ snd \in {"select", "send"}
             /\ \E r \in Reader : rd[r] = "failed"
             /\ snd' = "failed"
             /\ UNCHANGED <<sizes, next, stream, closed, readers>>

\* The exception ends the process or closes the descriptor, and so does an
\* exit or a crash at any other time, in the middle of a packet too.
Close == /\ ~closed
         /\ closed' = TRUE
         /\ snd' = "failed"
         /\ UNCHANGED <<sizes, next, stream, readers>>
-----------------------------------------------------------------------------
(* The readers. *)

\* receive_packet hands the header's buffer to receive_data.
Receive(r) == /\ rd[r] = "idle"
              /\ rd' = [rd EXCEPT ![r] = "select"]
              /\ UNCHANGED <<sender, stream, closed, got, goal, delivered>>

\* select says there is data, or the end of the stream.
Readable(r) == /\ rd[r] = "select"
               /\ stream # <<>> \/ closed
               /\ rd' = [rd EXCEPT ![r] = "recv"]
               /\ UNCHANGED <<sender, stream, closed, got, goal, delivered>>

\* Three seconds without data: receive_data raises.
ReceiveTimesOut(r) == /\ rd[r] = "select"
                      /\ stream = <<>> /\ ~closed
                      /\ rd' = [rd EXCEPT ![r] = "failed"]
                      /\ UNCHANGED <<sender, stream, closed, got, goal, delivered>>

\* select or recv returns -1, for a reset say: receive_data raises.
ReceiveFails(r) == /\ rd[r] \in {"select", "recv"}
                   /\ rd' = [rd EXCEPT ![r] = "failed"]
                   /\ UNCHANGED <<sender, stream, closed, got, goal, delivered>>

\* Mutant: The end of the stream counts as a packet's end.
EndOfStreamReturns(r) == /\ rd[r] = "recv"
                         /\ stream = <<>> /\ closed
                         /\ delivered' = Append(delivered, got[r])
                         /\ got' = [got EXCEPT ![r] = <<>>]
                         /\ rd' = [rd EXCEPT ![r] = "idle"]
                         /\ UNCHANGED <<sender, stream, closed, goal>>

\* Mutant: recv's 0 is taken for "nothing yet".
EndOfStreamIgnored(r) == FALSE

\* recv returns 0 and receive_data raises.
EndOfStream(r) == /\ rd[r] = "recv"
                  /\ stream = <<>> /\ closed
                  /\ rd' = [rd EXCEPT ![r] = "failed"]
                  /\ UNCHANGED <<sender, stream, closed, got, goal, delivered>>

Arrived(r) == Append(got[r], Head(stream))

\* recv returns some bytes, less than this part of the packet wants.
RecvMore(r) == /\ rd[r] = "recv"
               /\ stream # <<>>
               /\ Len(Arrived(r)) < goal[r]
               /\ got' = [got EXCEPT ![r] = Arrived(r)]
               /\ stream' = Tail(stream)
               /\ UNCHANGED <<sender, closed, rd, goal, delivered>>

\* Mutant: The header's payload size is read before the header is complete.
RecvHeaderEarly(r) == /\ rd[r] = "recv"
                      /\ stream # <<>>
                      /\ goal[r] = Header
                      /\ goal' = [goal EXCEPT ![r] = 0]
                      /\ got' = [got EXCEPT ![r] = Arrived(r)]
                      /\ stream' = Tail(stream)
                      /\ rd' = [rd EXCEPT ![r] = "select"]
                      /\ UNCHANGED <<sender, closed, delivered>>

\* The header is complete and tells of a payload: a select of its own.
RecvHeader(r) == /\ rd[r] = "recv"
                 /\ stream # <<>>
                 /\ Len(Arrived(r)) = goal[r]
                 /\ goal[r] = Header
                 /\ \E n \in Announced(Arrived(r)) \ {0} :
                        goal' = [goal EXCEPT ![r] = Header + n]
                 /\ got' = [got EXCEPT ![r] = Arrived(r)]
                 /\ stream' = Tail(stream)
                 /\ rd' = [rd EXCEPT ![r] = "select"]
                 /\ UNCHANGED <<sender, closed, delivered>>

\* Mutant: The payload's last byte is left on the stream.
RecvLastShort(r) == /\ rd[r] = "recv"
                    /\ stream # <<>>
                    /\ Len(Arrived(r)) = goal[r] - 1
                    /\ goal[r] > Header
                    /\ delivered' = Append(delivered, Arrived(r))
                    /\ stream' = Tail(stream)
                    /\ got' = [got EXCEPT ![r] = <<>>]
                    /\ goal' = [goal EXCEPT ![r] = Header]
                    /\ rd' = [rd EXCEPT ![r] = "idle"]
                    /\ UNCHANGED <<sender, closed>>

\* The packet is complete: receive_packet returns.
RecvLast(r) == /\ rd[r] = "recv"
               /\ stream # <<>>
               /\ Len(Arrived(r)) = goal[r]
               /\ goal[r] > Header \/ 0 \in Announced(Arrived(r))
               /\ delivered' = Append(delivered, Arrived(r))
               /\ stream' = Tail(stream)
               /\ got' = [got EXCEPT ![r] = <<>>]
               /\ goal' = [goal EXCEPT ![r] = Header]
               /\ rd' = [rd EXCEPT ![r] = "idle"]
               /\ UNCHANGED <<sender, closed>>
-----------------------------------------------------------------------------
Sender == Writable \/ SendUnit \/ SendTimesOut \/ SendFails
             \/ (snd = "failed" /\ Close)

\* What receive_packet does once it was called.
Receiving(r) == \/ Readable(r) \/ ReceiveTimesOut(r) \/ EndOfStream(r)
                \/ RecvMore(r) \/ RecvHeader(r) \/ RecvLast(r)

Receiver(r) == Receive(r) \/ Receiving(r) \/ ReceiveFails(r)

Next == Send \/ Close \/ Sender \/ (\E r \in Reader : Receiver(r))

Spec == Init /\ [][Next]_vars

\* The scheduler, and TCP between two hosts that are up: a packet once begun
\* goes on.  Beginning one is the application's choice, at either end: after
\* an exit a session's descriptor is neither read nor closed, and the client
\* reads nothing but the answer to its login.
Fairness == /\ WF_vars(Sender)
            /\ \A r \in Reader : WF_vars(Receiving(r))

FairSpec == Spec /\ Fairness
-----------------------------------------------------------------------------
(* Properties. *)

\* Types: places of the three parties, units on the wire, what was read.
TypeOK == /\ sizes \in Seq(PayloadSizes)
          /\ snd \in {"idle", "select", "send", "failed"}
          /\ next \in Unit
          /\ stream \in Seq(Unit)
          /\ closed \in BOOLEAN
          /\ rd \in [Reader -> {"idle", "select", "recv", "failed"}]
          /\ got \in [Reader -> Seq(Unit)]
          /\ goal \in [Reader -> Nat \ {0}]
          /\ delivered \in Seq(Seq(Unit))

\* What receive_packet returns is what send_packet was given: the packets come
\* whole, once and in order, however recv cuts the stream and whenever either
\* end fails.
WholePackets == \A i \in DOMAIN delivered :
                    i \in DOMAIN sizes /\ delivered[i] = Whole(i)

\* The same as a promise about behaviours: a FIFO of packets.
PossiblePackets == {[j \in 1..(Header + n) |-> <<k, j>>] :
                        k \in 1..MaxPackets, n \in PayloadSizes}

Queue == INSTANCE PacketQueue
             WITH Packet   <- PossiblePackets,
                  sent     <- [k \in 1..Len(sizes) |-> Whole(k)],
                  received <- delivered

ImplementsPacketQueue == Queue!Spec

\* A receive that was started ends, although nothing bounds recv once the
\* first byte is there: the sender's side ends or closes.
ReceiveEnds == \A r \in Reader :
                   rd[r] \in {"select", "recv"} ~> rd[r] \in {"idle", "failed"}

\* A send that was started ends, although nothing bounds send once there was
\* room for a byte, as long as somebody comes back to receive or is gone: the
\* premise is for the application to keep, and nothing in this code keeps it.
SendEnds == (\A r \in Reader : []<>(rd[r] # "idle"))
                => (snd \in {"select", "send"} ~> snd \in {"idle", "failed"})
=============================================================================
