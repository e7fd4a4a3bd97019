------------------------- MODULE MCSessionCommands -------------------------
(* Two sessions that the specification does not distinguish; one command of  *)
(* every class, and both of those that queue answers.                        *)
EXTENDS SessionCommands, TLC

CONSTANTS s1, s2

MCCmd == {"ping", "clist", "flist", "adownloadMissing", "pong", "exit", "delete", "sdownload"}

Symmetry == Permutations(Session)

=============================================================================
