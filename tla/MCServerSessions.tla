-------------------------- MODULE MCServerSessions --------------------------
(* The constants of ServerSessions that a cfg cannot write, and the symmetry *)
(* of connections and users, neither of which the specification orders.      *)
EXTENDS ServerSessions, TLC

CONSTANTS c1, c2, c3, u1, u2

TwoFds == {4, 5}
ThreeFds == {4, 5, 6}
\* Garbage in max_sessions_: admits nobody but the first, or everybody.
GarbageMax == {0, 3}

Symmetry == Permutations(Conn) \cup Permutations(User)

=============================================================================
