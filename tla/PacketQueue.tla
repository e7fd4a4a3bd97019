---------------------------- MODULE PacketQueue ----------------------------
(***************************************************************************)
(* What send_packet and receive_packet promise together for one direction  *)
(* of a connection: packets are received whole, once and in the order in   *)
(* which they were sent.  Nothing is promised of the last ones: either end *)
(* may fail at any time.                                                   *)
(***************************************************************************)
EXTENDS Naturals, Sequences

CONSTANT Packet

VARIABLES sent,      \* the packets handed to send_packet, in order
          received   \* the packets receive_packet returned, in order

vars == <<sent, received>>

Init == /\ sent = <<>>
        /\ received = <<>>

\* send_packet is called.
Put(p) == /\ sent' = Append(sent, p)
          /\ UNCHANGED received

\* receive_packet returns.
Get == /\ Len(received) < Len(sent)
       /\ received' = Append(received, sent[Len(received) + 1])
       /\ UNCHANGED sent

Next == (\E p \in Packet : Put(p)) \/ Get

Spec == Init /\ [][Next]_vars
=============================================================================
