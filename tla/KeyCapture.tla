----------------------------- MODULE KeyCapture -----------------------------
(***************************************************************************)
(* The capture thread of both programs (async_cout.cpp): keys from the     *)
(* terminal to lines, the mutex it prints under, and the clean-up that     *)
(* ends it, at the end of main() or from the handler of SIGINT.            *)
(*                                                                         *)
(* select() asks the terminal, but std::cin.get() takes the key out of the *)
(* buffer of stdin, which is filled with all that the terminal has: a key  *)
(* that came along with another stays there until one more is typed.       *)
(* Console has what becomes of the lines.                                  *)
(***************************************************************************)
EXTENDS Naturals, Sequences, SequencesExt

CONSTANTS Char,      \* letters, digits and the space
          Other,     \* keys the loop drops, '.' and '/' among them
          Enter, Erase,
          MaxKeys    \* bound: keys typed in a behaviour

Key == Char \cup Other \cup {Enter, Erase}

ASSUME KeyAssumption == /\ Enter # Erase /\ {Enter, Erase} \cap Char = {}
                        /\ Other \cap (Char \cup {Enter, Erase}) = {}
ASSUME BoundAssumption == MaxKeys \in Nat

VARIABLES
    typed,      \* history: every key
    tty,        \* keys in the terminal
    stdin,      \* keys in the buffer of stdin
    hand,       \* c in capture_loop
    line,       \* terminal_buffer
    lines,      \* what was ever pushed on input_buffer
    capture,    \* place of the capture thread
    capturing,  \* the flag that keeps it running
    cout,       \* who holds cout_mtx
    main        \* place of the main thread

vars == <<typed, tty, stdin, hand, line, lines, capture, capturing, cout, main>>
keys == <<typed, tty, stdin, hand>>
text == <<line, lines>>

\* start_capture, in raw mode.
Init == /\ typed = <<>> /\ tty = <<>> /\ stdin = <<>> /\ hand = Enter
        /\ line = <<>> /\ lines = <<>>
        /\ capture = "test" /\ capturing = TRUE
        /\ cout = "free" /\ main = "running"

\* The user types a key.
Type(k) == /\ Len(typed) < MaxKeys
           /\ typed' = Append(typed, k)
           /\ tty' = Append(tty, k)
           /\ UNCHANGED <<stdin, hand, text, capture, capturing, cout, main>>
-----------------------------------------------------------------------------
(* capture_loop *)

Test == /\ capture = "test"
        /\ capture' = IF capturing THEN "select" ELSE "done"
        /\ UNCHANGED <<keys, text, capturing, cout, main>>

\* The terminal, or the timeout: a second at first, and what was left of it later.
Select == /\ capture = "select"
          /\ capture' = IF tty # <<>> THEN "get" ELSE "test"
          /\ UNCHANGED <<keys, text, capturing, cout, main>>

\* Mutant: what the terminal has goes before what the buffer has.
GetFresh == /\ capture = "get"
            /\ hand' = Head(tty)
            /\ stdin' = stdin \o Tail(tty)
            /\ tty' = <<>>
            /\ capture' = "switch"
            /\ UNCHANGED <<typed, text, capturing, cout, main>>

\* std::cin.get(): the terminal is read only when the buffer is empty.
Get == /\ capture = "get"
       /\ \/ /\ stdin # <<>>
             /\ hand' = Head(stdin) /\ stdin' = Tail(stdin) /\ UNCHANGED tty
          \/ /\ stdin = <<>> /\ tty # <<>>
             /\ hand' = Head(tty) /\ stdin' = Tail(tty) /\ tty' = <<>>
       /\ capture' = "switch"
       /\ UNCHANGED <<typed, text, capturing, cout, main>>

EnterKey == /\ capture = "switch" /\ hand = Enter
            /\ lines' = Append(lines, line)
            /\ line' = <<>>
            /\ capture' = "echo"
            /\ UNCHANGED <<keys, capturing, cout, main>>

CharKey == /\ capture = "switch" /\ hand \in Char
           /\ line' = Append(line, hand)
           /\ capture' = "echo"
           /\ UNCHANGED <<keys, lines, capturing, cout, main>>

\* Mutant: pop_back on an empty string.
EraseUnchecked == /\ capture = "switch" /\ hand = Erase
                  /\ line' = IF line = <<>> THEN <<"garbage">> ELSE Front(line)
                  /\ capture' = "echo"
                  /\ UNCHANGED <<keys, lines, capturing, cout, main>>

EraseKey == /\ capture = "switch" /\ hand = Erase
            /\ \/ line # <<>> /\ line' = Front(line) /\ capture' = "echo"
               \/ line = <<>> /\ capture' = "test" /\ UNCHANGED line
            /\ UNCHANGED <<keys, lines, capturing, cout, main>>

\* Mutant: the key ends the loop and not the switch.
OtherKeyLeaves == /\ capture = "switch" /\ hand \in Other
                  /\ capture' = "done"
                  /\ UNCHANGED <<keys, text, capturing, cout, main>>

OtherKey == /\ capture = "switch" /\ hand \in Other
            /\ capture' = "test"
            /\ UNCHANGED <<keys, text, capturing, cout, main>>

\* altprint, all of it under cout_mtx.
Echo == /\ capture = "echo" /\ cout = "free"
        /\ capture' = "test"
        /\ UNCHANGED <<keys, text, capturing, cout, main>>
-----------------------------------------------------------------------------
(* The threads that print, and the clean-up. *)

MainPrint == /\ main = "running" /\ cout = "free"
             /\ main' = "printing" /\ cout' = "main"
             /\ UNCHANGED <<keys, text, capture, capturing>>

MainPrintEnd == /\ main = "printing"
                /\ main' = "running" /\ cout' = "free"
                /\ UNCHANGED <<keys, text, capture, capturing>>

OtherPrint == /\ cout = "free" /\ cout' = "other"
              /\ UNCHANGED <<keys, text, capture, capturing, main>>

OtherPrintEnd == /\ cout = "other" /\ cout' = "free"
                 /\ UNCHANGED <<keys, text, capture, capturing, main>>

\* Mutant: the thread is joined with its flag set.
CleanupKeepsFlag == /\ main \in {"running", "printing"}
                    /\ main' = "joining"
                    /\ UNCHANGED <<keys, text, capture, capturing, cout>>

\* cleanup(), at the end of main() or from the handler of SIGINT, which runs on
\* the main thread wherever that is: what it was doing is never continued.
Cleanup == /\ main \in {"running", "printing"}
           /\ main' = "joining" /\ capturing' = FALSE
           /\ UNCHANGED <<keys, text, capture, cout>>

Join == /\ main = "joining" /\ capture = "done"
        /\ main' = "ended"
        /\ UNCHANGED <<keys, text, capture, capturing, cout>>
-----------------------------------------------------------------------------
Capture == Test \/ Select \/ Get \/ EnterKey \/ CharKey \/ EraseKey \/ OtherKey
Printers == MainPrint \/ MainPrintEnd \/ OtherPrint \/ OtherPrintEnd

Next == Capture \/ Echo \/ Printers \/ Cleanup \/ Join \/ \E k \in Key : Type(k)

Spec == Init /\ [][Next]_vars

\* The threads are scheduled, who prints lets go of the mutex, and the capture
\* thread gets it when it is free again and again.
Fairness == /\ WF_vars(Capture) /\ SF_vars(Echo)
            /\ WF_vars(MainPrintEnd) /\ WF_vars(OtherPrintEnd) /\ WF_vars(Join)

FairSpec == Spec /\ Fairness
-----------------------------------------------------------------------------
(* Properties. *)

\* Types.
TypeOK == /\ {typed, tty, stdin} \subseteq Seq(Key) /\ hand \in Key
          /\ line \in Seq(Char) /\ lines \in Seq(Seq(Char))
          /\ capture \in {"test", "select", "get", "switch", "echo", "done"}
          /\ capturing \in BOOLEAN
          /\ cout \in {"free", "main", "other"}
          /\ main \in {"running", "printing", "joining", "ended"}

Taken == IF capture = "switch" THEN <<hand>> ELSE <<>>

\* The keys on their way are those that have no effect yet, in the order typed.
Editor == INSTANCE LineEditor WITH pending <- Taken \o (stdin \o tty)

\* Through the terminal, the buffer of stdin and the loop no key is lost, doubled
\* or overtaken.  The lines are what the keys say, less those that are dropped: the
\* '.' and the '/' of a file's name never reach a line.
ImplementsLineEditor == Editor!Spec

Handled == Len(typed) - Len(tty) - Len(stdin) - Len(Taken)

\* Keys that came together are all handled, once one more was typed.
OlderKeysHandled ==
    \A n \in 1..MaxKeys :
        Len(typed) - Len(tty) >= n /\ tty # <<>> ~> Handled >= n \/ ~capturing

\* The clean-up ends, unless the signal met the main thread as it was printing:
\* then it holds the mutex for ever that the capture thread may be waiting for.
\* (That the signal may also empty the terminal under a get() is left out.)
CleanupEnds == main = "joining" /\ cout # "main" ~> main = "ended"
=============================================================================
