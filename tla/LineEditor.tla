----------------------------- MODULE LineEditor -----------------------------
(***************************************************************************)
(* What the console does with the keys, threads and buffers left out: they *)
(* take effect one by one in the order typed, letters, digits and spaces   *)
(* extend the line, the erase key takes back the last of them, and enter   *)
(* hands the line over.  All other keys are dropped, '.' and '/' too, so   *)
(* that no command line holds the name of a file with an extension, or a   *)
(* path, as the commands of src/README.md want them.                       *)
(***************************************************************************)
EXTENDS Sequences, SequencesExt

CONSTANTS Char, Other, Enter, Erase

Key == Char \cup Other \cup {Enter, Erase}

VARIABLES pending,   \* keys that have not taken effect
          line,      \* the line being edited
          lines      \* the lines handed over

vars == <<pending, line, lines>>

Init == pending = <<>> /\ line = <<>> /\ lines = <<>>

\* The user types.
Type(k) == /\ pending' = Append(pending, k)
           /\ UNCHANGED <<line, lines>>

Edited(k) == IF k \in Char THEN Append(line, k)
             ELSE IF k = Erase /\ line # <<>> THEN Front(line)
             ELSE line

\* The oldest key takes effect.
Handle == /\ pending # <<>>
          /\ pending' = Tail(pending)
          /\ IF Head(pending) = Enter
             THEN line' = <<>> /\ lines' = Append(lines, line)
             ELSE line' = Edited(Head(pending)) /\ UNCHANGED lines

Next == (\E k \in Key : Type(k)) \/ Handle

Spec == Init /\ [][Next]_vars
=============================================================================
