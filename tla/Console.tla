------------------------------ MODULE Console ------------------------------
(***************************************************************************)
(* The console of both programs: the capture thread that queues typed      *)
(* lines (async_cout), the input thread that hands them over               *)
(* (UserInterface::input_loop) and the main loop that executes them        *)
(* (Server::main_loop, Client::main_loop), up to the join of the input     *)
(* thread in close().                                                      *)
(*                                                                         *)
(* The two loops share ui_buffer, ui_sanitized_buffer and one condition    *)
(* variable.  Both test their predicate under the mutex, but every change  *)
(* and every notify is made without it, so they fall between the test and  *)
(* the sleep of the other thread ("block").  Accesses to a string or a     *)
(* vector are atomic here.                                                 *)
(***************************************************************************)
EXTENDS Naturals, Sequences, Subsequences

CONSTANTS
  Kind,      \* "server" or "client": what the exit command does
  Line,      \* the lines a user may type
  Empty,     \* the line of the enter key alone, ui_buffer = ""
  Token,     \* words
  Words,     \* the words istringstream >> finds in each line
  ExitWord,
  MaxLines   \* bound: lines typed in a behaviour

ASSUME LineAssumption ==
  /\ Empty \in Line /\ ExitWord \in Token
  /\ Words \in [Line -> Seq(Token)] /\ Words[Empty] = <<>>
ASSUME KindAssumption == Kind \in {"server", "client"} /\ MaxLines \in Nat

VARIABLES
  typed,     \* history: every line typed
  input,     \* input_buffer of the capture thread
  buffer,    \* ui_buffer
  tokens,    \* ui_sanitized_buffer
  ui,        \* where the input thread is
  iss,       \* the words it has still to push
  uiRunning, uiStop,   \* running_ and stop_requested_ of UserInterface
  main,      \* where the main loop is
  app,       \* running_ /\ ~stop_requested_ of Server, running_app_ of Client
  executed,  \* history: <<ui_buffer, ui_sanitized_buffer>> of each process_input
  calm       \* history: no type-ahead and no spurious wakeup so far

uiVars == <<ui, iss, uiRunning, uiStop>>
mainVars == <<main, app, executed>>
vars == <<typed, input, buffer, tokens, uiVars, mainVars, calm>>

TypeOK ==
  /\ typed \in Seq(Line) /\ input \in Seq(Line) /\ buffer \in Line
  /\ tokens \in Seq(Token) /\ iss \in Seq(Token)
  /\ ui \in {"top", "test", "block", "wait", "check", "get", "copy", "push", "exited"}
  /\ main \in {"top", "test", "block", "wait", "check", "process", "stopUi", "notifyAll",
               "clearBuffer", "clearTokens", "notify", "join", "ended"}
  /\ uiRunning \in BOOLEAN /\ uiStop \in BOOLEAN /\ app \in BOOLEAN /\ calm \in BOOLEAN
  /\ executed \in Seq(Line \X Seq(Token))

Init ==
  /\ typed = <<>> /\ input = <<>> /\ buffer = Empty /\ tokens = <<>>
  /\ ui = "top" /\ iss = <<>> /\ uiRunning = TRUE /\ uiStop = FALSE
  /\ main = "top" /\ app = TRUE /\ executed = <<>>
  /\ calm = TRUE

-----------------------------------------------------------------------------
(* The user and the capture thread: the newline queues the line.           *)

Stacked(l) == <<l>> \o input       \* mutant: newest line first
Queued(l) == Append(input, l)

Type(l) ==
  /\ Len(typed) < MaxLines
  /\ typed' = Append(typed, l)
  /\ input' = Queued(l)
  /\ calm' = (calm /\ input = <<>> /\ ui = "get" /\ main = "wait")
  /\ UNCHANGED <<buffer, tokens, uiVars, mainVars>>

-----------------------------------------------------------------------------
(* notify_one and notify_all wake the other thread if it sleeps.           *)

WakeMain == main' = IF main = "wait" THEN "test" ELSE main
WakeUi   == ui' = IF ui = "wait" THEN "test" ELSE ui

SpuriousWakeup ==
  /\ \/ WakeMain /\ main = "wait" /\ UNCHANGED ui
     \/ WakeUi /\ ui = "wait" /\ UNCHANGED main
  /\ calm' = FALSE
  /\ UNCHANGED <<typed, input, buffer, tokens, iss, uiRunning, uiStop, app, executed>>

-----------------------------------------------------------------------------
(* UserInterface::input_loop.                                              *)

UiLoop ==
  /\ ui = "top"
  /\ ui' = IF uiRunning THEN "test" ELSE "exited"
  /\ UNCHANGED <<typed, input, buffer, tokens, iss, uiRunning, uiStop, mainVars, calm>>

UiAlwaysGoes == TRUE          \* mutant: no wait for a free buffer
UiMayGo == buffer = Empty \/ uiStop

\* cv_->wait: the predicate, with the mutex that the other thread holds while it blocks.
UiTest ==
  /\ ui = "test" /\ main # "block"
  /\ ui' = IF UiMayGo THEN "check" ELSE "block"
  /\ UNCHANGED <<typed, input, buffer, tokens, iss, uiRunning, uiStop, mainVars, calm>>

UiBlock ==
  /\ ui = "block" /\ ui' = "wait"
  /\ UNCHANGED <<typed, input, buffer, tokens, iss, uiRunning, uiStop, mainVars, calm>>

UiCheck ==
  /\ ui = "check"
  /\ IF uiStop THEN ui' = "exited" /\ WakeMain
               ELSE ui' = "get" /\ UNCHANGED main
  /\ UNCHANGED <<typed, input, buffer, tokens, iss, uiRunning, uiStop, app, executed, calm>>

\* *command_buffer_ = get_buffer(), which waits for input_buffer to be non-empty.
UiGet ==
  /\ ui = "get" /\ input # <<>>
  /\ buffer' = Head(input)
  /\ input' = Tail(input)
  /\ ui' = "copy"
  /\ UNCHANGED <<typed, tokens, iss, uiRunning, uiStop, mainVars, calm>>

UiCopyLine ==   \* mutant: std::getline(iss, word) in place of iss >> word
  /\ ui = "copy" /\ ui' = "push"
  /\ iss' = <<buffer>>
  /\ UNCHANGED <<typed, input, buffer, tokens, uiRunning, uiStop, mainVars, calm>>

\* std::istringstream iss(*command_buffer_)
UiCopy ==
  /\ ui = "copy" /\ ui' = "push"
  /\ iss' = Words[buffer]
  /\ UNCHANGED <<typed, input, buffer, tokens, uiRunning, uiStop, mainVars, calm>>

UiPush ==
  /\ ui = "push" /\ iss # <<>>
  /\ tokens' = Append(tokens, Head(iss))
  /\ iss' = Tail(iss)
  /\ UNCHANGED <<typed, input, buffer, ui, uiRunning, uiStop, mainVars, calm>>

UiNotify ==
  /\ ui = "push" /\ iss = <<>>
  /\ ui' = "top" /\ WakeMain
  /\ UNCHANGED <<typed, input, buffer, tokens, iss, uiRunning, uiStop, app, executed, calm>>

-----------------------------------------------------------------------------
(* Server::main_loop and Client::main_loop.                                *)

MainLoop ==
  /\ main = "top"
  /\ main' = IF app THEN "test" ELSE "join"
  /\ UNCHANGED <<typed, input, buffer, tokens, uiVars, app, executed, calm>>

MainMayGo == buffer # Empty \/ ~ app

MainTest ==
  /\ main = "test" /\ ui # "block"
  /\ main' = IF MainMayGo THEN "check" ELSE "block"
  /\ UNCHANGED <<typed, input, buffer, tokens, uiVars, app, executed, calm>>

MainBlock ==
  /\ main = "block" /\ main' = "wait"
  /\ UNCHANGED <<typed, input, buffer, tokens, uiVars, app, executed, calm>>

\* The test after the wait: a stopped program leaves the loop.
MainCheck ==
  /\ main = "check"
  /\ IF app THEN main' = "process" /\ UNCHANGED ui
            ELSE main' = "join" /\ WakeUi
  /\ UNCHANGED <<typed, input, buffer, tokens, iss, uiRunning, uiStop, app, executed, calm>>

IsExit == tokens = <<ExitWord>>

\* process_input acts on the words alone; ui_buffer only appears in its messages.
\* The exit of the server goes on to stop(), that of the client clears running_app_.
Process ==
  /\ main = "process"
  /\ executed' = Append(executed, <<buffer, tokens>>)
  /\ app' = (app /\ ~ IsExit)
  /\ main' = IF IsExit /\ Kind = "server" THEN "stopUi" ELSE "clearBuffer"
  /\ UNCHANGED <<typed, input, buffer, tokens, uiVars, calm>>

\* UserInterface::stop
StopUi ==
  /\ main = "stopUi" /\ main' = "notifyAll"
  /\ uiRunning' = FALSE /\ uiStop' = TRUE
  /\ UNCHANGED <<typed, input, buffer, tokens, ui, iss, app, executed, calm>>

NotifyAll ==
  /\ main = "notifyAll" /\ main' = "clearBuffer" /\ WakeUi
  /\ UNCHANGED <<typed, input, buffer, tokens, iss, uiRunning, uiStop, app, executed, calm>>

ClearBuffer ==
  /\ main = "clearBuffer" /\ main' = "clearTokens"
  /\ buffer' = Empty
  /\ UNCHANGED <<typed, input, tokens, uiVars, app, executed, calm>>

ClearTokensForgotten ==   \* mutant: ui_sanitized_buffer is not reset
  /\ main = "clearTokens" /\ main' = "notify"
  /\ UNCHANGED <<typed, input, buffer, tokens, uiVars, app, executed, calm>>

ClearTokens ==
  /\ main = "clearTokens" /\ main' = "notify"
  /\ tokens' = <<>>
  /\ UNCHANGED <<typed, input, buffer, uiVars, app, executed, calm>>

MainNotify ==
  /\ main = "notify" /\ main' = "top" /\ WakeUi
  /\ UNCHANGED <<typed, input, buffer, tokens, iss, uiRunning, uiStop, app, executed, calm>>

\* close(): S_UI_.input_thread_.join()
JoinUi ==
  /\ main = "join" /\ ui = "exited" /\ main' = "ended"
  /\ UNCHANGED <<typed, input, buffer, tokens, uiVars, app, executed, calm>>

-----------------------------------------------------------------------------
Ui == UiLoop \/ UiTest \/ UiBlock \/ UiCheck \/ UiGet \/ UiCopy \/ UiPush \/ UiNotify
Main ==
  \/ MainLoop \/ MainTest \/ MainBlock \/ MainCheck \/ Process \/ StopUi \/ NotifyAll
  \/ ClearBuffer \/ ClearTokens \/ MainNotify \/ JoinUi

Next == Ui \/ Main \/ SpuriousWakeup \/ \E l \in Line : Type(l)

Spec == Init /\ [][Next]_vars

(* Both threads are scheduled and get the mutex they ask for again and     *)
(* again; nobody has to type, and the runtime owes no spurious wakeup.     *)
FairSpec ==
  Spec /\ WF_vars(Ui) /\ WF_vars(Main) /\ SF_vars(UiTest) /\ SF_vars(MainTest)

-----------------------------------------------------------------------------
(* Properties.                                                             *)

NonEmpty(s) == Kept(s, Line \ {Empty})
InHand == IF buffer # Empty /\ main \notin {"stopUi", "notifyAll", "clearBuffer"}
          THEN <<buffer>> ELSE <<>>

Executed == [i \in 1..Len(executed) |-> executed[i][1]]

\* Every line typed is executed at most once and in the order typed: it is executed, or
\* in ui_buffer, or still queued, whatever the two threads interleave.
LinesInOrder == Executed \o InHand \o NonEmpty(input) = NonEmpty(typed)

\* The console is a queue of commands that ends with the command that stops the program,
\* although the input thread goes on filling ui_buffer while the main loop leaves.
Commands == INSTANCE CommandQueue
            WITH lines <- NonEmpty(typed), done <- Executed, open <- app
ImplementsCommandQueue == Commands!Spec

\* The handshake protects ui_buffer although both threads write it without the mutex: a
\* line in it is only ever cleared, never replaced by the next one.
NoOverwrite == [][buffer # Empty => buffer' \in {buffer, Empty}]_vars

\* For a user who types a line only when both threads rest, and without spurious wakeups,
\* the words executed are those of the line.
CalmWords ==
  calm => \A i \in 1..Len(executed) : executed[i][2] = Words[executed[i][1]]

\* application.cpp and server.cpp: "notifies UI_ that the buffer is free to be used
\* again": a queued line reaches the main loop unless the program is stopping.
LineIsRead == input # <<>> ~> input = <<>> \/ ~ app

-----------------------------------------------------------------------------
(* The inductive invariant behind NoOverwrite: who may write ui_buffer.    *)

MainHolds == main \in {"process", "stopUi", "notifyAll", "clearBuffer"}

Ownership ==
  /\ ui = "get" => buffer = Empty
  /\ MainHolds => buffer # Empty
  /\ ui = "check" => buffer = Empty \/ uiStop
  /\ main = "check" => buffer # Empty \/ ~ app

(* The inductive invariant behind CalmWords: the line typed while both     *)
(* threads rest has the two vectors of words to itself until it is         *)
(* executed and cleared.                                                   *)

CalmHandOver ==
  calm =>
    /\ Len(input) <= 1
    /\ input # <<>> => ui = "get" /\ main = "wait"
    /\ ui \in {"copy", "push"} => main = "wait" /\ input = <<>>
    /\ ui = "copy" => tokens = <<>>
    /\ ui = "push" => tokens \o iss = Words[buffer]
    /\ ui \notin {"copy", "push"} /\ main # "clearTokens" => tokens = Words[buffer]
    /\ main = "clearTokens" => buffer = Empty

=============================================================================
