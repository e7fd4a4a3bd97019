----------------------------- MODULE MCConsole -----------------------------
(* Lines for Console: enter alone, spaces alone, the exit command, a command *)
(* of two words.                                                             *)
EXTENDS Console

MCWords == [l \in {"", "exit", "list clients", " "} |->
  CASE l = "exit" -> <<"exit">>
    [] l = "list clients" -> <<"list", "clients">>
    [] OTHER -> <<>>]
MCLine == DOMAIN MCWords

=============================================================================
