------------------------ MODULE PacketStream_proofs ------------------------
(***************************************************************************)
(* With one reader on a descriptor, packets arrive whole, once and in      *)
(* order, for any sizes of headers, payloads and buffers.                  *)
(***************************************************************************)
EXTENDS PacketStream, TLAPS

\* Nobody but its own receiver reads from a descriptor.
OneReader == \A r, s \in Reader : r = s

\* The packet that is being received.
Current == Len(delivered) + 1

\* The units on their way, the one to be sent last.
OnWire(i) == IF i <= Len(stream) THEN stream[i] ELSE next

\* Units that have been on the wire belong to packets the sender began.
Sent(u) == u[1] \in 1..Len(sizes) /\ u[2] \in 1..(Header + sizes[u[1]])

\* What the sender knows: it is inside its last packet, or behind it.
SenderInv == /\ \/ next[1] = Len(sizes) /\ Len(sizes) > 0 /\ Sent(next)
                \/ next = <<Len(sizes) + 1, 1>>
             /\ snd = "idle" => next = <<Len(sizes) + 1, 1>>
             /\ snd \in {"select", "send"} => next[1] = Len(sizes) /\ Sent(next)

\* The wire holds consecutive units.
WireInv == /\ \A i \in 1..Len(stream) : Sent(stream[i])
           /\ \A i \in 1..Len(stream) : OnWire(i + 1) = Succ(OnWire(i))

\* What a reader holds is the beginning of the current packet, and the wire
\* goes on where it ends.
ReaderInv == \A r \in Reader :
    /\ \A i \in 1..Len(got[r]) : got[r][i] = <<Current, i>>
    /\ Len(got[r]) < goal[r]
    /\ \/ goal[r] = Header
       \/ Current \in 1..Len(sizes) /\ goal[r] = Header + sizes[Current]
    /\ OnWire(1) = <<Current, Len(got[r]) + 1>>

IInv == TypeOK /\ SenderInv /\ WireInv /\ ReaderInv /\ WholePackets

USE HeaderAssumption, PayloadSizesAssumption, BoundsAssumption
DEF HeaderAssumption, PayloadSizesAssumption, BoundsAssumption
-----------------------------------------------------------------------------
\* Types.

LEMMA SuccTyping == \A u \in Unit : Succ(u) \in Unit
<1> SUFFICES ASSUME NEW k \in Nat \ {0}, NEW j \in Nat \ {0} PROVE Succ(<<k, j>>) \in Unit
  BY DEF Unit
<1>1. <<k, j + 1>> \in Unit /\ <<k + 1, 1>> \in Unit
  BY DEF Unit
<1> QED BY <1>1 DEF Succ

LEMMA SizesTyping ==
  TypeOK => /\ Len(sizes) \in Nat /\ DOMAIN sizes = 1..Len(sizes)
            /\ \A k \in 1..Len(sizes) : sizes[k] \in Nat
<1> SUFFICES ASSUME sizes \in Seq(PayloadSizes)
    PROVE /\ Len(sizes) \in Nat /\ DOMAIN sizes = 1..Len(sizes)
          /\ \A k \in 1..Len(sizes) : sizes[k] \in Nat
  BY DEF TypeOK
<1>1. Len(sizes) \in Nat /\ DOMAIN sizes = 1..Len(sizes)
  OBVIOUS
<1>2. \A k \in 1..Len(sizes) : sizes[k] \in PayloadSizes
  OBVIOUS
<1> QED BY <1>1, <1>2

\* A header that came whole tells the size of its own payload.
LEMMA AnnouncedWhole ==
  ASSUME TypeOK, NEW k \in 1..Len(sizes),
         NEW g, g = [j \in 1..Header |-> <<k, j>>]
  PROVE  Announced(g) = {sizes[k]}
<1>1. g[1] = <<k, 1>>
  OBVIOUS
<1>2. g[1][1] = k
  BY <1>1
<1>3. k \in DOMAIN sizes
  BY DEF TypeOK
<1> QED BY <1>2, <1>3 DEF Announced

LEMMA AnnouncedTyping == TypeOK => \A g : Announced(g) \subseteq Nat
<1> SUFFICES ASSUME TypeOK, NEW g PROVE Announced(g) \subseteq Nat
  OBVIOUS
<1>2. CASE ~ \E k \in DOMAIN sizes : g = [j \in 1..Header |-> <<k, j>>]
  BY <1>2 DEF Announced
<1>1. ASSUME NEW k \in DOMAIN sizes, g = [j \in 1..Header |-> <<k, j>>]
      PROVE Announced(g) \subseteq Nat
  <2>2. k \in 1..Len(sizes) /\ sizes[k] \in Nat
    BY SizesTyping
  <2> QED BY <1>1, <2>2, AnnouncedWhole
<1> QED BY <1>1, <1>2

LEMMA InitTyping == Init => TypeOK
<1>1. /\ <<>> \in Seq(PayloadSizes) /\ <<>> \in Seq(Unit)
      /\ <<>> \in Seq(Seq(Unit)) /\ <<1, 1>> \in Unit
  BY DEF Unit
<1> QED BY <1>1 DEF Init, TypeOK

LEMMA TypeNext == TypeOK /\ [Next]_vars => TypeOK'
<1> SUFFICES ASSUME TypeOK, [Next]_vars PROVE TypeOK'
  OBVIOUS
<1> USE DEF TypeOK, sender, readers
<1>1. CASE Send
  BY <1>1 DEF Send
<1>2. CASE Writable
  BY <1>2 DEF Writable
<1>3. CASE SendUnit
  <2>1. Succ(next) \in Unit
    BY SuccTyping
  <2>2. AfterUnit(next) \in {"idle", "select", "send"}
    BY DEF AfterUnit
  <2> QED BY <1>3, <2>1, <2>2 DEF SendUnit
<1>4. CASE SendTimesOut \/ SendFails
  BY <1>4 DEF SendTimesOut, SendFails
<1>5. CASE Close
  BY <1>5 DEF Close
<1>6. ASSUME NEW r \in Reader, Receive(r) \/ Readable(r) \/ ReceiveTimesOut(r) \/ EndOfStream(r) \/ ReceiveFails(r)
      PROVE TypeOK'
  BY <1>6 DEF Receive, Readable, ReceiveTimesOut, EndOfStream, ReceiveFails
<1>7. ASSUME NEW r \in Reader, stream # <<>> PROVE Arrived(r) \in Seq(Unit)
  BY <1>7 DEF Arrived
<1>8. ASSUME NEW r \in Reader, RecvMore(r) PROVE TypeOK'
  BY <1>7, <1>8 DEF RecvMore
<1>9. ASSUME NEW r \in Reader, RecvHeader(r) PROVE TypeOK'
  <2>1. Announced(Arrived(r)) \subseteq Nat
    BY AnnouncedTyping
  <2> QED BY <1>7, <1>9, <2>1 DEF RecvHeader
<1>10. ASSUME NEW r \in Reader, RecvLast(r) PROVE TypeOK'
  BY <1>7, <1>10 DEF RecvLast
<1>11. CASE UNCHANGED vars
  BY <1>11 DEF vars
<1> QED BY <1>1, <1>2, <1>3, <1>4, <1>5, <1>6, <1>8, <1>9, <1>10, <1>11
    DEF Next, Sender, Receiver, Receiving

\* The types of the module hold of every behaviour, with any number of readers.
THEOREM TypeCorrect == Spec => []TypeOK
<1> QED BY InitTyping, TypeNext, PTL DEF Spec
-----------------------------------------------------------------------------
\* One reader.

LEMMA InvInit == Init => IInv
<1> SUFFICES ASSUME Init PROVE IInv
  OBVIOUS
<1>1. TypeOK
  BY InitTyping
<1>2. Len(sizes) = 0 /\ Len(stream) = 0 /\ Len(delivered) = 0 /\ next = <<1, 1>>
  BY DEF Init
<1>3. SenderInv /\ WireInv /\ WholePackets
  BY <1>2 DEF Init, SenderInv, WireInv, WholePackets
<1>4. ReaderInv
  <2> SUFFICES ASSUME NEW r \in Reader
      PROVE /\ \A i \in 1..Len(got[r]) : got[r][i] = <<Current, i>>
            /\ Len(got[r]) < goal[r] /\ goal[r] = Header
            /\ OnWire(1) = <<Current, Len(got[r]) + 1>>
    BY DEF ReaderInv
  <2>1. got[r] = <<>> /\ goal[r] = Header
    BY DEF Init
  <2>2. Len(got[r]) = 0
    BY <2>1
  <2>3. OnWire(1) = <<1, 1>> /\ Current = 1
    BY <1>2 DEF OnWire, Current
  <2> QED BY <2>1, <2>2, <2>3
<1> QED BY <1>1, <1>3, <1>4 DEF IInv

\* The sender begins a packet.
LEMMA InvSend == IInv /\ Send => SenderInv' /\ WireInv' /\ ReaderInv' /\ WholePackets'
<1> SUFFICES ASSUME IInv, Send PROVE SenderInv' /\ WireInv' /\ ReaderInv' /\ WholePackets'
  OBVIOUS
<1> USE DEF IInv, TypeOK
<1>1. PICK n \in PayloadSizes : sizes' = Append(sizes, n)
  BY DEF Send
<1>2. /\ Len(sizes') = Len(sizes) + 1 /\ sizes'[Len(sizes) + 1] = n /\ n \in Nat
      /\ \A k \in 1..Len(sizes) : sizes'[k] = sizes[k]
  BY <1>1
<1>3. UNCHANGED <<next, stream, got, goal, delivered>> /\ next = <<Len(sizes) + 1, 1>>
      /\ snd' = "select"
  BY DEF Send, readers, SenderInv
<1>4. SenderInv'
  BY <1>2, <1>3 DEF SenderInv, Sent
<1>5. ASSUME NEW u, Sent(u) PROVE Sent(u)' /\ Succ(u)' = Succ(u)
  BY <1>2, <1>5 DEF Sent, Succ
<1>6. WireInv'
  <2>1. \A i : OnWire(i)' = OnWire(i)
    BY <1>3 DEF OnWire
  <2>2. \A i \in 1..Len(stream) : OnWire(i) = stream[i]
    BY DEF OnWire
  <2> QED BY <1>3, <1>5, <2>1, <2>2 DEF WireInv
<1>7. ReaderInv'
  <2>1. Current' = Current /\ OnWire(1)' = OnWire(1)
    BY <1>3 DEF OnWire, Current
  <2>2. Current \in 1..Len(sizes) =>
            Current \in 1..Len(sizes') /\ sizes'[Current] = sizes[Current]
    BY <1>2, SizesTyping
  <2> QED BY <1>3, <2>1, <2>2 DEF ReaderInv
<1>8. \A i \in 1..Len(sizes) : Whole(i)' = Whole(i)
  BY <1>2 DEF Whole
<1>9. WholePackets'
  BY <1>2, <1>3, <1>8 DEF WholePackets
<1> QED BY <1>4, <1>6, <1>7, <1>9

LEMMA UpTo == \A n \in Nat : \A i \in 1..(n + 1) : i <= n \/ i = n + 1
  OBVIOUS

\* A whole sequence of units of one packet is a function of the place.
LEMMA SameUnits ==
  ASSUME NEW g \in Seq(Unit), NEW k, NEW n \in Nat, Len(g) = n,
         \A i \in 1..Len(g) : g[i] = <<k, i>>
  PROVE  g = [j \in 1..n |-> <<k, j>>]
<1>1. DOMAIN g = 1..n /\ g = [i \in DOMAIN g |-> g[i]]
  OBVIOUS
<1> QED BY <1>1

LEMMA SuccInside ==
  ASSUME NEW k, NEW j \in Nat, j < Header + sizes[k]
  PROVE  Succ(<<k, j>>) = <<k, j + 1>>
  BY DEF Succ

LEMMA SuccBehind ==
  ASSUME NEW k, NEW j, NEW n \in Nat, j = n, Header + sizes[k] = n
  PROVE  Succ(<<k, j>>) = <<k + 1, 1>>
  BY DEF Succ

\* A unit goes out.
LEMMA InvSendUnit == IInv /\ SendUnit => SenderInv' /\ WireInv' /\ ReaderInv' /\ WholePackets'
<1> SUFFICES ASSUME IInv, SendUnit PROVE SenderInv' /\ WireInv' /\ ReaderInv' /\ WholePackets'
  OBVIOUS
<1> USE DEF IInv, TypeOK
<1>1. /\ UNCHANGED <<sizes, got, goal, delivered>>
      /\ stream' = Append(stream, next) /\ next' = Succ(next) /\ snd' = AfterUnit(next)
  BY DEF SendUnit, readers
<1>2. Sent(next) /\ next[1] = Len(sizes) /\ next \in Unit
  BY DEF SendUnit, SenderInv
<1>3. next = <<next[1], next[2]>> /\ next[1] \in Nat /\ next[2] \in Nat
  BY <1>2 DEF Unit
<1>4. SenderInv'
  <2>1. CASE next[2] < Header + sizes[Len(sizes)]
    <3>1. next' = <<Len(sizes), next[2] + 1>>
      BY <1>1, <1>2, <2>1 DEF Succ
    <3>2. AfterUnit(next) # "idle"
      BY <1>2, <2>1 DEF AfterUnit, Sent
    <3> QED BY <1>1, <1>2, <1>3, <2>1, <3>1, <3>2 DEF SenderInv, Sent
  <2>2. CASE next[2] = Header + sizes[Len(sizes)]
    <3>1. next' = <<Len(sizes) + 1, 1>>
      BY <1>1, <1>2, <1>3, <2>2 DEF Succ
    <3>2. AfterUnit(next) = "idle"
      <4>1. sizes[Len(sizes)] \in Nat
        BY <1>2, SizesTyping DEF Sent
      <4> QED BY <1>2, <2>2, <4>1 DEF AfterUnit
    <3> QED BY <1>1, <3>1, <3>2 DEF SenderInv
  <2> QED BY <1>2, <1>3, <2>1, <2>2 DEF Sent
<1> PICK n \in Nat : n = Len(stream)
  OBVIOUS
<1>5. Len(stream') = n + 1 /\ stream'[n + 1] = next
      /\ \A i \in 1..n : stream'[i] = stream[i]
  BY <1>1
<1>6. ASSUME NEW i \in 1..(n + 1) PROVE OnWire(i)' = OnWire(i)
  <2>1. CASE i <= n
    BY <1>5, <2>1 DEF OnWire
  <2>2. CASE i = n + 1
    BY <1>5, <2>2 DEF OnWire
  <2> QED BY <2>1, <2>2
<1>7. OnWire(n + 2)' = Succ(next) /\ OnWire(n + 1) = next
  BY <1>1, <1>5 DEF OnWire
<1>8. \A u : Succ(u)' = Succ(u) /\ (Sent(u)' <=> Sent(u))
  BY <1>1 DEF Succ, Sent
<1>9. WireInv'
  <2>1. ASSUME NEW i \in 1..(n + 1) PROVE Sent(stream'[i])
    <3>1. CASE i <= n
      BY <1>5, <3>1 DEF WireInv
    <3>2. CASE i = n + 1
      BY <1>2, <1>5, <3>2
    <3>3. i <= n \/ i = n + 1
      BY UpTo
    <3> QED BY <3>1, <3>2, <3>3
  <2>2. ASSUME NEW i \in 1..(n + 1) PROVE OnWire(i + 1)' = Succ(OnWire(i))
    <3>1. CASE i <= n
      BY <1>6, <3>1 DEF WireInv
    <3>2. CASE i = n + 1
      BY <1>7, <3>2
    <3> QED BY <3>1, <3>2
  <2>3. ASSUME NEW i \in 1..(n + 1) PROVE Sent(stream[i])' /\ Succ(OnWire(i))' = Succ(OnWire(i))
    <3>1. Succ(OnWire(i))' = Succ(OnWire(i)')
      BY <1>1 DEF Succ
    <3>2. Sent(stream[i])' <=> Sent(stream'[i])
      BY <1>1 DEF Sent
    <3> QED BY <1>6, <2>1, <3>1, <3>2
  <2> QED BY <1>5, <2>2, <2>3 DEF WireInv
<1>10. ReaderInv'
  BY <1>1, <1>6 DEF ReaderInv, Current
<1>11. WholePackets'
  BY <1>1 DEF WholePackets, Whole
<1> QED BY <1>4, <1>9, <1>10, <1>11

\* A reader takes one unit off the wire: what follows it and what holds of it.
LEMMA Taken ==
  ASSUME IInv, NEW r \in Reader, stream # <<>>, stream' = Tail(stream),
         UNCHANGED <<sizes, snd, next>>
  PROVE  /\ SenderInv' /\ WireInv'
         /\ Head(stream) = <<Current, Len(got[r]) + 1>>
         /\ Sent(Head(stream))
         /\ OnWire(1)' = Succ(Head(stream))
         /\ Len(Arrived(r)) = Len(got[r]) + 1
         /\ \A i \in 1..Len(Arrived(r)) : Arrived(r)[i] = <<Current, i>>
<1> USE DEF IInv, TypeOK
<1>1. /\ Len(stream) >= 1 /\ Len(stream') = Len(stream) - 1
      /\ \A i \in 1..Len(stream') : stream'[i] = stream[i + 1]
      /\ Head(stream) = stream[1]
  OBVIOUS
<1>2. Head(stream) = OnWire(1) /\ OnWire(1) = <<Current, Len(got[r]) + 1>>
  BY <1>1 DEF OnWire, ReaderInv
<1> PICK n \in Nat : n = Len(stream)
  OBVIOUS
<1>3. ASSUME NEW i \in 1..n PROVE OnWire(i)' = OnWire(i + 1)
  BY <1>1 DEF OnWire
<1>4. \A u : Succ(u)' = Succ(u) /\ (Sent(u)' <=> Sent(u))
  BY DEF Succ, Sent
<1>5. SenderInv'
  BY <1>4 DEF SenderInv
<1>6. WireInv'
  <2>1. ASSUME NEW i \in 1..(n - 1) PROVE Sent(stream[i])'
    <3>1. Sent(stream[i])' <=> Sent(stream'[i])
      BY DEF Sent
    <3> QED BY <1>1, <3>1 DEF WireInv
  <2>2. ASSUME NEW i \in 1..(n - 1) PROVE (OnWire(i + 1) = Succ(OnWire(i)))'
    <3>1. Succ(OnWire(i))' = Succ(OnWire(i)')
      BY DEF Succ
    <3>2. OnWire(i)' = OnWire(i + 1) /\ OnWire(i + 1)' = OnWire(i + 2)
      BY <1>3
    <3>3. OnWire(i + 2) = Succ(OnWire(i + 1))
      BY DEF WireInv
    <3> QED BY <3>1, <3>2, <3>3
  <2> QED BY <1>1, <2>1, <2>2 DEF WireInv
<1>7. Sent(Head(stream)) /\ OnWire(1)' = Succ(Head(stream))
  BY <1>1, <1>2, <1>3 DEF WireInv
<1>8. Len(Arrived(r)) = Len(got[r]) + 1
      /\ \A i \in 1..Len(Arrived(r)) : Arrived(r)[i] = <<Current, i>>
  <2>1. Head(stream) \in Unit
    BY <1>1
  <2> QED BY <1>2, <2>1 DEF Arrived, ReaderInv
<1> QED BY <1>2, <1>5, <1>6, <1>7, <1>8

\* Steps that move nothing: selects, timeouts, failures.
LEMMA InvIdle ==
  ASSUME IInv, UNCHANGED <<sizes, next, stream, got, goal, delivered>>,
         snd' # "idle" \/ snd' = snd,
         snd' \in {"select", "send"} => snd \in {"select", "send"}
  PROVE  SenderInv' /\ WireInv' /\ ReaderInv' /\ WholePackets'
<1> USE DEF IInv
<1>1. /\ \A u : Succ(u)' = Succ(u) /\ (Sent(u)' <=> Sent(u))
      /\ \A i : OnWire(i)' = OnWire(i)
  BY DEF Succ, Sent, OnWire
<1>2. SenderInv'
  BY <1>1 DEF SenderInv
<1>3. WireInv'
  <2>1. ASSUME NEW i \in 1..Len(stream) PROVE Succ(OnWire(i))' = Succ(OnWire(i))
    BY DEF Succ, OnWire
  <2>2. ASSUME NEW i \in 1..Len(stream) PROVE Sent(stream[i])' <=> Sent(stream[i])
    BY DEF Sent
  <2> QED BY <1>1, <2>1, <2>2 DEF WireInv
<1>4. ReaderInv'
  BY <1>1 DEF ReaderInv, Current
<1>5. WholePackets'
  BY DEF WholePackets, Whole
<1> QED BY <1>2, <1>3, <1>4, <1>5

\* More of the packet is wanted.
LEMMA InvRecvMore ==
  ASSUME OneReader, IInv, NEW r \in Reader, RecvMore(r)
  PROVE  SenderInv' /\ WireInv' /\ ReaderInv' /\ WholePackets'
<1> USE DEF IInv, TypeOK
<1>1. /\ stream # <<>> /\ stream' = Tail(stream) /\ UNCHANGED <<sizes, snd, next, goal, delivered>>
      /\ got' = [got EXCEPT ![r] = Arrived(r)] /\ Len(Arrived(r)) < goal[r]
  BY DEF RecvMore, sender
<1>2. /\ SenderInv' /\ WireInv' /\ Head(stream) = <<Current, Len(got[r]) + 1>>
      /\ Sent(Head(stream)) /\ OnWire(1)' = Succ(Head(stream))
      /\ Len(Arrived(r)) = Len(got[r]) + 1
      /\ \A i \in 1..Len(Arrived(r)) : Arrived(r)[i] = <<Current, i>>
  BY <1>1, Taken
<1>3. Current' = Current /\ got'[r] = Arrived(r) /\ Current \in 1..Len(sizes)
      /\ sizes[Current] \in Nat
  <2>1. Current' = Current /\ got'[r] = Arrived(r)
    BY <1>1 DEF Current
  <2>2. Current \in 1..Len(sizes)
    BY <1>2 DEF Sent
  <2> QED BY <2>1, <2>2, SizesTyping
<1>4. Succ(Head(stream)) = <<Current, Len(got[r]) + 2>>
  <2>1. Len(got[r]) \in Nat /\ goal[r] \in Nat
    OBVIOUS
  <2>2. goal[r] = Header \/ goal[r] = Header + sizes[Current]
    BY DEF ReaderInv
  <2>3. PICK j \in Nat : j = Len(got[r]) + 1
    BY <2>1
  <2>4. j < Header + sizes[Current]
    BY <1>1, <1>2, <1>3, <2>1, <2>2, <2>3
  <2>5. Succ(<<Current, j>>) = <<Current, j + 1>>
    BY <2>4, SuccInside
  <2>6. Head(stream) = <<Current, j>>
    BY <1>2, <2>3
  <2>7. j + 1 = Len(got[r]) + 2
    BY <2>1, <2>3
  <2> QED BY <2>5, <2>6, <2>7
<1>5. \A q \in Reader : q = r
  BY DEF OneReader
<1>6. OnWire(1)' = <<Current', Len(got'[r]) + 1>>
  BY <1>2, <1>3, <1>4
<1>7. ReaderInv'
  BY <1>1, <1>2, <1>3, <1>5, <1>6 DEF ReaderInv
<1>8. WholePackets'
  BY <1>1 DEF WholePackets, Whole
<1> QED BY <1>2, <1>7, <1>8

\* A header that came whole announces its own payload.
LEMMA HeaderTrue ==
  ASSUME IInv, NEW r \in Reader, stream # <<>>, stream' = Tail(stream),
         UNCHANGED <<sizes, snd, next>>,
         Len(Arrived(r)) = goal[r], goal[r] = Header
  PROVE  Announced(Arrived(r)) = {sizes[Current]} /\ Current \in 1..Len(sizes)
<1> USE DEF IInv
<1>1. /\ Head(stream) = <<Current, Len(got[r]) + 1>> /\ Sent(Head(stream))
      /\ \A i \in 1..Len(Arrived(r)) : Arrived(r)[i] = <<Current, i>>
  BY Taken
<1>2. Current \in 1..Len(sizes)
  BY <1>1 DEF Sent
<1>3. Arrived(r) \in Seq(Unit)
  BY DEF Arrived, TypeOK
<1>4. Arrived(r) = [j \in 1..Header |-> <<Current, j>>]
  BY <1>1, <1>3, SameUnits
<1>5. Announced(Arrived(r)) = {sizes[Current]}
  BY <1>2, <1>4, AnnouncedWhole
<1> QED BY <1>2, <1>5

\* The header is complete, a payload follows.
LEMMA InvRecvHeader ==
  ASSUME OneReader, IInv, NEW r \in Reader, RecvHeader(r)
  PROVE  SenderInv' /\ WireInv' /\ ReaderInv' /\ WholePackets'
<1> USE DEF IInv, TypeOK
<1>1. /\ stream # <<>> /\ stream' = Tail(stream) /\ UNCHANGED <<sizes, snd, next, delivered>>
      /\ got' = [got EXCEPT ![r] = Arrived(r)]
      /\ Len(Arrived(r)) = goal[r] /\ goal[r] = Header
  BY DEF RecvHeader, sender
<1>2. /\ SenderInv' /\ WireInv' /\ Head(stream) = <<Current, Len(got[r]) + 1>>
      /\ Sent(Head(stream)) /\ OnWire(1)' = Succ(Head(stream))
      /\ Len(Arrived(r)) = Len(got[r]) + 1
      /\ \A i \in 1..Len(Arrived(r)) : Arrived(r)[i] = <<Current, i>>
  BY <1>1, Taken
<1>3. Announced(Arrived(r)) = {sizes[Current]} /\ Current \in 1..Len(sizes)
  BY <1>1, HeaderTrue
<1>4. PICK n \in Announced(Arrived(r)) \ {0} : goal' = [goal EXCEPT ![r] = Header + n]
  BY DEF RecvHeader
<1>5. n = sizes[Current] /\ n # 0 /\ n \in Nat /\ goal'[r] = Header + n
  BY <1>3, <1>4, SizesTyping
<1>6. Current' = Current /\ got'[r] = Arrived(r)
  BY <1>1 DEF Current
<1>7. Succ(Head(stream)) = <<Current, Len(got[r]) + 2>>
  <2>1. PICK j \in Nat : j = Len(got[r]) + 1 /\ Header = j
    BY <1>1, <1>2
  <2>2. Succ(<<Current, j>>) = <<Current, j + 1>>
    BY <1>5, <2>1, SuccInside
  <2>3. Head(stream) = <<Current, j>> /\ j + 1 = Len(got[r]) + 2
    BY <1>2, <2>1
  <2> QED BY <2>2, <2>3
<1>8. \A q \in Reader : q = r
  BY DEF OneReader
<1>9. OnWire(1)' = <<Current', Len(got'[r]) + 1>>
  BY <1>2, <1>6, <1>7
<1>10. ReaderInv'
  <2>1. \A i \in 1..Len(got'[r]) : got'[r][i] = <<Current', i>>
    BY <1>2, <1>6
  <2>2. Len(got'[r]) < goal'[r]
    BY <1>1, <1>5, <1>6
  <2>3. Current' \in 1..Len(sizes') /\ goal'[r] = Header + sizes'[Current']
    BY <1>1, <1>3, <1>5, <1>6
  <2> QED BY <1>8, <1>9, <2>1, <2>2, <2>3 DEF ReaderInv
<1>11. WholePackets'
  BY <1>1 DEF WholePackets, Whole
<1> QED BY <1>2, <1>10, <1>11

\* A packet that is returned is the one that was sent.
LEMMA LastWhole ==
  ASSUME IInv, NEW r \in Reader, RecvLast(r)
  PROVE  /\ Current \in 1..Len(sizes)
         /\ goal[r] = Header + sizes[Current]
         /\ Arrived(r) = Whole(Current)
<1> USE DEF IInv
<1>1. /\ stream # <<>> /\ stream' = Tail(stream) /\ UNCHANGED <<sizes, snd, next>>
      /\ Len(Arrived(r)) = goal[r]
      /\ goal[r] > Header \/ 0 \in Announced(Arrived(r))
  BY DEF RecvLast, sender
<1>2. /\ Head(stream) = <<Current, Len(got[r]) + 1>> /\ Sent(Head(stream))
      /\ \A i \in 1..Len(Arrived(r)) : Arrived(r)[i] = <<Current, i>>
  BY <1>1, Taken
<1>3. Current \in 1..Len(sizes) /\ sizes[Current] \in Nat
  BY <1>2, SizesTyping DEF Sent
<1>4. goal[r] = Header + sizes[Current]
  <2>1. CASE goal[r] = Header
    <3>1. Announced(Arrived(r)) = {sizes[Current]}
      BY <1>1, <2>1, HeaderTrue
    <3> QED BY <1>1, <1>3, <2>1, <3>1
  <2>2. CASE goal[r] # Header
    BY <2>2 DEF ReaderInv
  <2> QED BY <2>1, <2>2
<1>5. Arrived(r) \in Seq(Unit)
  BY <1>1 DEF Arrived, TypeOK
<1>6. Arrived(r) = [j \in 1..(Header + sizes[Current]) |-> <<Current, j>>]
  <2>1. PICK n \in Nat : n = Header + sizes[Current]
    BY <1>3
  <2>2. Len(Arrived(r)) = n
    BY <1>1, <1>4, <2>1
  <2>3. Arrived(r) = [j \in 1..n |-> <<Current, j>>]
    BY <1>2, <1>5, <2>2, SameUnits
  <2> QED BY <2>1, <2>3
<1> QED BY <1>3, <1>4, <1>6 DEF Whole

\* The packet is complete.
LEMMA InvRecvLast ==
  ASSUME OneReader, IInv, NEW r \in Reader, RecvLast(r)
  PROVE  SenderInv' /\ WireInv' /\ ReaderInv' /\ WholePackets'
<1> USE DEF IInv, TypeOK
<1>1. /\ stream # <<>> /\ stream' = Tail(stream) /\ UNCHANGED <<sizes, snd, next>>
      /\ got' = [got EXCEPT ![r] = <<>>] /\ goal' = [goal EXCEPT ![r] = Header]
      /\ delivered' = Append(delivered, Arrived(r)) /\ Len(Arrived(r)) = goal[r]
  BY DEF RecvLast, sender
<1>2. /\ SenderInv' /\ WireInv' /\ Head(stream) = <<Current, Len(got[r]) + 1>>
      /\ OnWire(1)' = Succ(Head(stream)) /\ Len(Arrived(r)) = Len(got[r]) + 1
  BY <1>1, Taken
<1>3. /\ Current \in 1..Len(sizes) /\ goal[r] = Header + sizes[Current]
      /\ Arrived(r) = Whole(Current)
  BY LastWhole
<1>4. /\ Current = Len(delivered) + 1 /\ Len(delivered') = Current
      /\ delivered'[Current] = Arrived(r)
      /\ \A i \in 1..Len(delivered) : delivered'[i] = delivered[i]
  <2>1. Arrived(r) \in Seq(Unit)
    BY <1>1 DEF Arrived
  <2> QED BY <1>1, <2>1 DEF Current
<1>5. Current' = Current + 1 /\ got'[r] = <<>> /\ goal'[r] = Header
  BY <1>1, <1>4 DEF Current
<1>6. Succ(Head(stream)) = <<Current + 1, 1>>
  <2>1. Len(got[r]) + 1 = goal[r] /\ Header + sizes[Current] = goal[r] /\ goal[r] \in Nat
    BY <1>1, <1>2, <1>3
  <2> QED BY <1>2, <2>1, SuccBehind
<1>7. \A q \in Reader : q = r
  BY DEF OneReader
<1>8. Len(got'[r]) = 0
  BY <1>5
<1>9. OnWire(1)' = <<Current', Len(got'[r]) + 1>>
  BY <1>2, <1>5, <1>6, <1>8
<1>10. ReaderInv'
  BY <1>5, <1>7, <1>8, <1>9 DEF ReaderInv
<1>11. WholePackets'
  <2> SUFFICES ASSUME NEW i \in DOMAIN delivered'
      PROVE i \in DOMAIN sizes /\ delivered'[i] = Whole(i)
    BY <1>1 DEF WholePackets, Whole
  <2>1. i \in 1..Current
    <3>1. delivered' \in Seq(Seq(Unit))
      BY <1>1, <1>4 DEF Arrived
    <3> QED BY <1>4, <3>1
  <2>2. CASE i = Current
    BY <1>3, <1>4, <2>2
  <2>3. CASE i \in 1..Len(delivered)
    <3>1. DOMAIN delivered = 1..Len(delivered)
      OBVIOUS
    <3>2. i \in DOMAIN sizes /\ delivered[i] = Whole(i)
      BY <2>3, <3>1 DEF WholePackets
    <3> QED BY <1>4, <2>3, <3>2
  <2> QED BY <1>4, <2>1, <2>2, <2>3
<1> QED BY <1>2, <1>10, <1>11

LEMMA InvNext == OneReader /\ IInv /\ [Next]_vars => IInv'
<1> SUFFICES ASSUME OneReader, IInv, [Next]_vars PROVE IInv'
  OBVIOUS
<1>1. TypeOK'
  BY TypeNext DEF IInv
<1> SUFFICES SenderInv' /\ WireInv' /\ ReaderInv' /\ WholePackets'
  BY <1>1 DEF IInv
<1>2. CASE Send
  BY <1>2, InvSend
<1>3. CASE SendUnit
  BY <1>3, InvSendUnit
<1>4. CASE Writable \/ SendTimesOut \/ SendFails \/ Close
  BY <1>4, InvIdle DEF Writable, SendTimesOut, SendFails, Close, readers
<1>5. ASSUME NEW r \in Reader, Receiver(r) PROVE SenderInv' /\ WireInv' /\ ReaderInv' /\ WholePackets'
  <2>1. CASE Receive(r) \/ Readable(r) \/ ReceiveTimesOut(r) \/ EndOfStream(r) \/ ReceiveFails(r)
    BY <2>1, InvIdle DEF Receive, Readable, ReceiveTimesOut, EndOfStream, ReceiveFails, sender
  <2> QED BY <1>5, <2>1, InvRecvMore, InvRecvHeader, InvRecvLast DEF Receiver, Receiving
<1>6. CASE UNCHANGED vars
  BY <1>6, InvIdle DEF vars
<1> QED BY <1>2, <1>3, <1>4, <1>5, <1>6 DEF Next, Sender

\* With one reader the invariant holds: what is on the wire goes on where the
\* packet that is being received ends.
THEOREM Framing == ASSUME OneReader PROVE Spec => []IInv
<1>1. IInv /\ [Next]_vars => IInv'
  BY InvNext
<1> QED BY <1>1, InvInit, PTL DEF Spec

\* receive_packet returns the packets send_packet was given, whole and in
\* order, whatever recv cuts off and whenever an end fails: for one reader.
THEOREM PacketsWhole == ASSUME OneReader PROVE Spec => []WholePackets
<1>1. IInv => WholePackets
  BY DEF IInv
<1> QED BY <1>1, Framing, PTL

-----------------------------------------------------------------------------
\* Refinement.

\* With one reader the connection is a FIFO of packets.
THEOREM Implements == ASSUME OneReader PROVE Spec => ImplementsPacketQueue
<1> DEFINE sent == [k \in 1..Len(sizes) |-> Whole(k)]
<1> USE DEF Queue!vars, Queue!Next
<1>1. Init => Queue!Init
  BY DEF Init, Queue!Init
<1>2. IInv /\ IInv' /\ [Next]_vars => [Queue!Next]_(Queue!vars)
  <2> SUFFICES ASSUME IInv, IInv', [Next]_vars PROVE [Queue!Next]_(Queue!vars)
    OBVIOUS
  <2>1. ASSUME UNCHANGED <<sizes, delivered>> PROVE UNCHANGED Queue!vars
    BY <2>1 DEF Whole
  <2>2. CASE Send
    <3>1. PICK n \in PayloadSizes : sizes' = Append(sizes, n)
      BY <2>2 DEF Send
    <3>2. PICK m \in Nat : m = Len(sizes)
      BY SizesTyping DEF IInv
    <3>3. /\ Len(sizes') = m + 1 /\ sizes'[m + 1] = n
          /\ \A k \in 1..m : sizes'[k] = sizes[k]
          /\ delivered' = delivered /\ m < MaxPackets
      BY <2>2, <3>1, <3>2 DEF Send, readers, IInv, TypeOK
    <3>4. \A k \in 1..m : Whole(k)' = Whole(k)
      BY <3>3 DEF Whole
    <3>5. Whole(m + 1)' = [j \in 1..(Header + n) |-> <<m + 1, j>>]
      BY <3>3 DEF Whole
    <3>6. Whole(m + 1)' \in PossiblePackets
      <4>1. m + 1 \in 1..MaxPackets
        BY <3>3
      <4>2. \A k \in 1..MaxPackets :
              [j \in 1..(Header + n) |-> <<k, j>>] \in PossiblePackets
        BY DEF PossiblePackets
      <4> QED BY <3>5, <4>1, <4>2
    <3>7. sent' = Append(sent, Whole(m + 1)')
      <4>1. sent = [k \in 1..m |-> Whole(k)]
        BY <3>2
      <4>2. sent' = [k \in 1..(m + 1) |-> Whole(k)']
        BY <3>3
      <4> QED BY <3>4, <4>1, <4>2
    <3> QED BY <3>3, <3>6, <3>7 DEF Queue!Put
  <2>3. ASSUME NEW r \in Reader, RecvLast(r) PROVE Queue!Get
    <3>1. Current \in 1..Len(sizes) /\ Arrived(r) = Whole(Current)
      BY <2>3, LastWhole
    <3>2. delivered' = Append(delivered, Arrived(r)) /\ UNCHANGED sizes
      BY <2>3 DEF RecvLast, sender
    <3>3. Len(delivered) < Len(sizes) /\ sent[Len(delivered) + 1] = Arrived(r)
      <4>1. Len(delivered) \in Nat /\ Len(sizes) \in Nat
        BY DEF IInv, TypeOK
      <4> QED BY <3>1, <4>1 DEF Current
    <3>4. Len(sent) = Len(sizes) /\ sent' = sent
      BY <3>2, SizesTyping DEF Whole, IInv
    <3> QED BY <3>2, <3>3, <3>4 DEF Queue!Get
  <2>4. CASE SendUnit \/ Writable \/ SendTimesOut \/ SendFails \/ Close
    BY <2>1, <2>4 DEF SendUnit, Writable, SendTimesOut, SendFails, Close, readers
  <2>5. ASSUME NEW r \in Reader, Receiver(r), ~RecvLast(r) PROVE UNCHANGED <<sizes, delivered>>
    BY <2>5 DEF Receiver, Receiving, Receive, Readable, ReceiveTimesOut, EndOfStream, ReceiveFails, RecvMore,
                RecvHeader, sender
  <2>6. CASE UNCHANGED vars
    BY <2>1, <2>6 DEF vars
  <2> QED BY <2>1, <2>2, <2>3, <2>4, <2>5, <2>6 DEF Next, Sender
<1> QED BY <1>1, <1>2, Framing, PTL DEF Spec, ImplementsPacketQueue, Queue!Spec
=============================================================================
