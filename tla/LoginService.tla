---------------------------- MODULE LoginService ----------------------------
(***************************************************************************)
(* What the login side of the server promises, without threads, sockets    *)
(* or messages: every connection gets at most one verdict, a user holds at *)
(* most two sessions, and a session once granted is not withdrawn.         *)
(***************************************************************************)
EXTENDS Naturals, Sequences

CONSTANTS Conn, User

VARIABLES
  registry,   \* the sessions of each user, in the order they were granted
  refused     \* the connections that were turned away

Granted(c) == \E u \in User : \E i \in 1..Len(registry[u]) : registry[u][i] = c

Init ==
  /\ registry = [u \in User |-> <<>>]
  /\ refused = {}

Grant(u, c) ==
  /\ c \notin refused /\ ~ Granted(c)
  /\ Len(registry[u]) < 2
  /\ registry' = [registry EXCEPT ![u] = Append(@, c)]
  /\ UNCHANGED refused

Refuse(c) ==
  /\ c \notin refused /\ ~ Granted(c)
  /\ refused' = refused \cup {c}
  /\ UNCHANGED registry

Next == \E c \in Conn : Refuse(c) \/ \E u \in User : Grant(u, c)

Spec == Init /\ [][Next]_<<registry, refused>>

=============================================================================
