---------------------------- MODULE CommandQueue ----------------------------
(***************************************************************************)
(* What the console promises the user: the lines he enters are executed    *)
(* one after the other, each once and in order, until one of them ends the *)
(* program; after that one nothing is executed.  Nothing is promised of    *)
(* when.                                                                   *)
(***************************************************************************)
EXTENDS Naturals, Sequences

CONSTANT Line

VARIABLES lines,   \* the lines entered, without the empty ones
          done,    \* those executed
          open     \* the program takes commands

vars == <<lines, done, open>>

Init == lines = <<>> /\ done = <<>> /\ open = TRUE

Enter(l) ==
  /\ lines' = Append(lines, l)
  /\ UNCHANGED <<done, open>>

Execute(last) ==
  /\ open /\ Len(done) < Len(lines)
  /\ done' = Append(done, lines[Len(done) + 1])
  /\ open' = ~ last
  /\ UNCHANGED lines

Next == (\E l \in Line : Enter(l)) \/ (\E last \in BOOLEAN : Execute(last))

Spec == Init /\ [][Next]_vars

=============================================================================
