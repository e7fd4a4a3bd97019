# A verification development of File-Synchronization

TLA+ modules for the server, the client's commands, the console and the packet
transport of File-Synchronization, the TLC configurations that check them on
small instances, and TLAPS proofs of the invariants that matter most. Paths are
relative to the repository.

## 1. The system

A server keeps files for users; each user works from up to two devices, each a
client process with a console. Client and server exchange packets (a command, a
sequence number, a payload) over one TCP connection per device.

| Part | State | Operations | Talks to |
|---|---|---|---|
| Accept thread (`server_commands.cpp`, `server_handler_new_sessions.cpp`) | the connection being served, `running_accept_` | accept, receive the login, look up or load the user, limit, duplicate test, confirm, create and register the session, refuse | clients (packets), user manager (calls), sessions (constructor starts threads) |
| User manager (`client_connection_group.cpp`, `client_connection_user.cpp`) | `users_`, `sessions_`, `max_sessions_`, one overseer thread per user | `get_user`, `load_user`, `add_session`, `list_users`, `broadcast_other_sessions`, `overseer_loop` | called by the accept thread, the main thread and session threads; no lock |
| Session (`client_connection_session*.cpp`) | two running flags, `sender_buffer_` under `send_mtx_`, `send_cv_`, `file_mtx_` (always empty) | receiver loop and one handler per command, sender loop, `disconnect` | its socket; other sessions through the user's broadcast; files |
| Packet transport (`packet.cpp`, `socket_commands.cpp`) | the bytes on the stream, what each end has of a packet | `send_packet`, `receive_packet` over `send_data`, `receive_data` | one descriptor; whoever calls |
| Server main thread (`server.cpp`, `server_handler_user_interface.cpp`) | `running_`, `stop_requested_`, `ui_buffer`, `ui_sanitized_buffer` | main loop, `list clients`, `exit` (stop, join) | input thread (shared buffers, condition variable), accept thread (flag, join), user manager |
| Console (`async_cout.cpp`, `user_interface.cpp`, the `main.cpp`s) | `terminal_buffer`, `input_buffer`, `cout_mtx`, the shared buffers, flags | capture thread, input thread, `stop`, the clean-up at the end and on SIGINT | the user; the main loop of either program |
| Client commands (`application.cpp`, `client_ui_handler.cpp`, `network_commands_client.cpp`) | `running_app_`, `sender_buffer_`, `sync_dir_path_`, local files and their temporary copies | `upload`, `download`, `delete`, `list`, `get sync dir`, `exit` | the console, the watcher, the local disk; the queue has no reader |
| Directory watcher (`inotify_watcher.cpp`) | `is_running_`, `monitor_thread_`, a descriptor | init, start, stop, monitor | the client's commands; the handler of its events is a stub |
| Client engine (`client_network_handler.cpp`, `network_commands_server.cpp`) | flags, queue, files | receiver and sender loops, one handler per command of the server | never started in this commit |
| Utilities, logging, sockets' set-up | none of their own | string conversions, texts, system calls | everyone |

What is hard here: the login is check-then-act over several steps, any of which
may fail; descriptors are closed by one thread and still used by another, and
reused by `accept()`; users and sessions are walked without locks; the console
hands lines over through buffers that are written outside the mutex; a sender
sleeps on a condition variable; a broadcast makes one session's thread read
another session's socket; a packet comes in pieces from an end that may be gone;
uploads are appended to a temporary file that survives a crash, on either side;
keys wait in a buffer that `select` does not see; a signal handler joins a
thread; and an exception that leaves any thread ends the process.
`PROJECT.json` lists each hazard at its line with the property that watches it.

What makes the parts correct: at most two sessions per user and one entry per
name; no descriptor shared or leaked; the number a client is told is its place;
every request gets a verdict; packets arrive whole, once and in order, and no
end of the transport waits for ever; what one end mounts as a command the other
reads as such; `exit` ends; keys take effect in order; typed lines are executed
once, in order, with their own words; no answer is forgotten by a sleeping
sender; an upload reaches its file whole and in order and leaves the local file
as it is; a logged out session is over.

## 2. The modules

| Module | Role |
|---|---|
| `LoginService` | abstract: a registry that only grows, at most two sessions per user, one verdict per connection |
| `ServerSessions` | from the listening socket to the registered session, with clients, session threads, overseers and the main thread's `list clients` and `exit` |
| `SessionCommands` | receiver and sender threads of two sessions of one user, the commands, the broadcast of a delete, the temporary file and a restart |
| `PacketQueue` | abstract: a FIFO of packets |
| `PacketStream` | one direction of a connection: sender, bytes in flight, one or more readers of the descriptor |
| `Protocol` | pure operators: texts of commands, `split_buffer`, the dispatch tables of both ends, what either end mounts |
| `ClientCommands` | the client's main thread between two lines, the watcher's thread, the local disk, crash and restart; extends `Protocol` |
| `LineEditor` | abstract: keys take effect one by one in the order typed |
| `KeyCapture` | the capture thread from keys to lines, the mutex it prints under, its end |
| `Console` | from queued lines to executed commands: input thread and main loop; `Kind` selects the server or the client |
| `CommandQueue` | abstract: lines are executed one by one in the order entered, none after the one that ends the program |
| `Subsequences` | `Kept(s, A)`, what of a sequence lies in a set, for `Console` and `SessionCommands` |
| `*_proofs` | theorems and proofs about `ServerSessions`, `SessionCommands`, `PacketStream`, `ClientCommands`, `KeyCapture`, `Console`, `Protocol`; the laws they share are in `Subsequences_proofs` |
| `MC*` | constants and symmetry for TLC |

### ServerSessions

`pc` is the place of the accept thread: `top` (loop test), `select`, `receive`,
then inside `handle_new_session` `lookup`, `load`, `check`, `create`, `add`, and
back in the loop `approve`. Each step between two accesses to shared state is an
action. `users`, `sessions`, `maxSessions` are the members of `UserGroup` and
`User`; `fd[c]` is the descriptor a connection got and `socket[f]` what that
descriptor denotes now, so a session that outlives its socket is visible as
`socket[fd[c]] # c`. `replies` records the answers that reach a client.

- `Refuse` is the common failure path. It evaluates the size test of
  `strcharray`, called with the reason's length as limit; the test always
  throws, so the handler around the request closes the socket and no refusal is
  sent. `RefuseOnlyDrops` proves this for the modelled reason.
- `LoadUser` starts `max_sessions_` with any value of `MaxOutcomes`: it is
  initialised from a member that is not initialised yet.
- The second approval, `"login|ok|" + new_socket`, is pointer arithmetic on a
  literal. `login()` reads one packet only, so its text does not matter; that
  its send may raise (`ApproveFails`) or raise SIGPIPE (`ApproveKills`) does, as
  the confirmation's may before it (`ConfirmFails`, `ConfirmKills`).
- Neither thread of a session need start. Without the sender thread the request
  fails as others do (`StartSenderFails`), though the client was told a number;
  without the receiver the sender's destructor ends the process
  (`StartReceiverFails`).
- `SessionFails`, `OverseerTick` and `ListCrashes` end the process: exceptions
  that leave their threads, and a data race on a vector.
- A client state `exiting` means its exit packet is on the way; whether the
  process is still there no longer matters to the server.

### SessionCommands

`rx` and `tx` are the places of the receiver and the sender thread; `owner[s]`
is the session on whose behalf thread `s` runs, which differs from `s` after a
broadcast, because `add_packet_from_broadcast` receives from the other
session's socket. Commands are grouped by what their handlers do; the groups
are sets at the top of the module. The clients are any that speak the commands
the server accepts, for instance the `sdownload` packets of the client's
`network_commands_server.cpp`: the client of this commit queues its commands but
starts no sender thread, so by itself it sends only `login` and `exit`. `Raise`
ends the process, or returns to the delete when the broadcast's handler catches
it. `SessionAssumption` names two sessions, which is the limit of the login.
`clist` queues and notifies for each file the server lacks, any number of times
up to `MaxQueue` packets (`Answer`, `Notify`, `ListHandled`), or none, or it
dies of a packet without a payload. `Store` also has the temporary file that
cannot be opened, for which the answer's text never fits.
Packets are whole here; `PacketStream` says when that is justified.

### PacketStream

A unit stands for some bytes of a packet: `<<k, j>>` is the j-th of packet `k`,
the first `Header` of them are the header. `receive_packet` is two calls of
`receive_data`, each of them a `select` with the timeout (`Readable`,
`ReceiveTimesOut`) and then `recv` in a loop without one (`RecvMore`,
`RecvHeader`, `RecvLast`, `EndOfStream`); `send_packet` is the same with
`Writable`, `SendTimesOut`, `SendUnit`, `SendFails`. `goal` is what the reader
wants before it looks at what it has: first a header, then what the header says.
A header made of units of several packets may say any size (`Announced`).
`Close` is the end of the sender at any time, within a packet too. The readers
of one descriptor share nothing else: with two of them no lock orders the
`recv`s, as nothing in `add_packet_from_broadcast` takes one. The socket's
buffers hold `Capacity` units. A `select` or `recv` that fails (`ReceiveFails`)
may do so at any time. A receiver that failed closes or ends its process, which
is what `SendFails` sees. `Receive` begins a `receive_packet` and is the
caller's choice; `Receiving` is what follows once it was called.

### Protocol

A text is a sequence of tokens, of which `Sep` is the separator; names are made
of the other tokens, and the name that the server reads in an empty list is
empty. `Split` is `split_buffer` character by character (`Taken`), `Join` puts
a text together field by field, both as recursive functions.
`ServerTable` and `ClientTable` are the dispatches of the two receiver loops:
the number of fields, then the first field. `Requests` and `Answers` are the
texts that either end mounts. Not all of them have a handler at the other end
(`Unread`): the server has none for `upload|name|checksum` and `flist|server`,
the client none for a list, for an exit without a reason and for the packets of
a download. `ReadOrDropped` states this exactly, so that neither a request read
as another nor one more or fewer that is dropped goes unnoticed.

### ClientCommands

`main` is the place of the main thread: `waiting` for a line, within `upload`
(`uploading`, `renaming`), within `get sync dir` (`sync init`, `sync start`),
within `exit` (`cleaning`, `stopping`, `joining`). Every exception of a command
is raised again by `main_loop` and `start`, and the destructor then waits in
`close()` for an input thread nobody stops: `failed`. What reading the code
showed, and the actions state:

- `packet::payload` is null where `upload_command_` reads a block of the file
  into it, so the stream fails without reaching its end: the loop ends at once
  for an empty file and otherwise queues packets until memory is used up
  (`ReachesEof`, `Mounts`, `MaxQueue`). Nothing is ever written to the temporary
  file (`Written`).
- `rename_replacing` throws when `rename` succeeded and returns when it failed
  (`UploadRename`). Together: an upload of an empty file replaces it by an empty
  file and fails; no other upload comes to the rename.
- No lock keeps other programs from the files: `Edit` changes, creates or deletes
  one at any step, also the one an upload works on. `opened` is what the upload's
  descriptor shows of it, which follows an edit in place and not a replaced
  file. After the first read the descriptor is not looked at again: the stream is
  at its end, or has failed and never gets there (`stuck`).
- `delete` of a file that exists queues its packet and then locks through a null
  mutex, which throws.
- `running_sync_` and the watcher's `watched_path_fd_` are never initialised:
  `Init` and `Fresh` choose. `start_watching` opens its descriptor into a local
  variable that hides the member, so the monitor reads whatever the member says.
- `sender_buffer_` is filled by the commands, dropped by `exit`, and read by no
  one, because nothing calls `start_sender`.

### KeyCapture and LineEditor

`tty` holds the keys in the terminal, `stdin` those that `std::cin.get()` already
took from there into its buffer, `hand` the key in the `switch`. `select`
asks the terminal only, so a key in `stdin` waits until another one is typed:
this is why `OlderKeysHandled` promises handling of the older keys when a newer
one is there, and no more. Letters, digits and the space (`Char`) extend the
line; every other key is dropped, `.` and `/` among them, so the
`upload <path/filename.ext>` of `src/README.md` cannot be typed. `LineEditor` is
therefore the editor the program has, not the one its user would expect: that
it is implemented shows that no key but the dropped ones is lost, and the
dropping is a finding. `Cleanup` is `cleanup()`, called at
the end of `main` or by SIGINT on the main thread, wherever it is: if it was
printing, it holds `cout_mtx` and never continues, and a capture thread that has
to echo is waited for in vain. `CleanupEnds` excludes exactly that case.
`Editor` maps keys on their way to `pending` of `LineEditor`.

### Console

The predicate of each `wait` is one step and going to sleep another
(`block`, with the mutex held), because the other thread changes the predicate
and notifies without the mutex. `executed` records what `process_input` saw.
`calm` is a history variable: the user has only typed while both threads rested.
The exit of the server stops the input thread; the exit of the client does not
(`Process`), so that `close()` of the client waits for ever. `Commands` maps to
`CommandQueue` the non-empty lines typed, the lines executed, and the flag that
the program runs: an empty line never reaches the main loop.

## 3. What TLC checks

| Run | Result | What it shows |
|---|---|---|
| `server_sessions` | holds | `AtMostTwoSessions`, `OneUserPerName`, `SessionsApart`, `NumberIsPlace`, `NoDescriptorLeak`, the types, and that `LoginService` is implemented |
| `server_sessions_live` | holds | `EveryRequestAnswered`, `StopCompletes` |
| `two_devices` | violated | with no session running and a descriptor left, a third login is refused: a logged out session still counts against the limit |
| `session_commands` | holds | `NoForgottenAnswer`, `OwnChunksInOrder`, `NothingAfterLogout`, the types |
| `uploads` | violated | two devices' uploads mix in one file |
| `packet_stream` | holds | `WholePackets`, that `PacketQueue` is implemented, `ReceiveEnds`, `SendEnds`, the types |
| `shared_socket` | violated | with the second reader that a broadcast brings, packets are cut and mixed |
| `client_commands` | holds | `UploadKeepsRead`, `NoWatcherAfterExit`, `ExitEnds`, `ReadOrDropped`, the types |
| `upload_race` | violated | what another program wrote into an empty file is replaced by the empty copy that an upload made before |
| `key_capture` | holds | that `LineEditor` is implemented, `OlderKeysHandled`, `CleanupEnds`, the types |
| `console` | holds | `LinesInOrder`, `NoOverwrite`, `CalmWords`, that `CommandQueue` is implemented, the types (the server's exit) |
| `console_wakeup` | violated | the input thread's notify falls between the test and the sleep of the client's main loop, and typed lines stay unread |

Every violated property states what a comment or `src/README.md` promises; the
quotation is in `PROJECT.json` under `findings`. Two more disagreements are shown
by properties that hold, because they state what the code does where
`src/README.md` says otherwise: `ReadOrDropped` (the requests of `upload` and
`list` that the client queues are dropped by the server) and
`ImplementsLineEditor` (file names with an extension, or paths, cannot be typed).

What the properties assume or leave out. `EveryRequestAnswered` is also met by a
server that is told to stop or dies. `OwnChunksInOrder` and `NothingAfterLogout`
end with the first broadcast, the former also with the first restart.
`UploadKeepsRead` says that a file is replaced only by what the upload read of
it, not that nobody wrote it since; that is `UploadKeepsFile`, which fails.
`SendEnds` has the premise that a reader comes back again and again. `ExitEnds`
has the premise that the monitor's `read()` returns, `CleanupEnds` that the
clean-up did not interrupt a print of the main thread.

**Bounds.** `server_sessions`: three connections, two users and three
descriptors. Three logins are the least that test a limit of two, and two users
of three connections give every split; descriptors are reused because failed
logins free them. `two_devices`: one user, three connections and three descriptors, so that
`accept()` has one for the third connection while both sessions keep theirs.
`server_sessions_live`: two connections of one user, no
symmetry. `MaxOutcomes = {0, 3}`: garbage that admits only the first session, or
all. `session_commands`: one command of every class, `MaxSent = 2` packets
per session, `MaxInbox = 1` waiting, `Chunks = 2` packets per upload,
`MaxQueue = 2` answers of a `clist`, `MaxRestarts = 1`; two packets per side make one upload complete or two
commands race, and the bound of the inbox only delays clients. `packet_stream`:
a header of 2 units and payloads of 0, 1 and 2, so that every part can be cut;
`Capacity = 2`, less than a packet, so that the sender blocks inside one;
`MaxPackets = 3`, so that a failure can fall in, before and after a neighbour.
`shared_socket`: two readers, two packets. `client_commands`: two names, one of
which is too long for the text of an upload with `MaxText = 5`; files are absent,
empty or not; `MaxQueue = 2` packets fill the memory, `MaxEdits = 2` changes
by other programs, `MaxRestarts = 1` (none in `upload_race`). `key_capture`: two letters, one key that is dropped,
`MaxKeys = 4`, which gives a line, a correction and keys that come together.
`console`: at most `MaxLines = 3` lines (2 in `console_wakeup`) out of enter, a
space, `exit` and a command of two words; three lines fill the pipeline
(executed, in the buffer, queued). Symmetry is used for safety only:
connections, users and sessions are interchangeable.

**Deadlock** is checked in `ServerSessions`, where a dead process stutters in
`Ended`. The other systems really stop: the console and the capture thread when
the user types no more or the program has ended, a server or client process that
has ended and is not restarted, a stream whose two ends have failed.

**Fairness.** `ServerSessions`: weak fairness of the accept thread and of the
main thread's pending steps (the scheduler; every wait in them is bounded by a
timeout), and of the arrival of the rest of a packet whose first bytes arrived.
Without the last the code gives no bound: `recv` has no timeout after the
first byte. `PacketStream` has what stands behind it: weak fairness of the
sender once it has begun a packet, and of each reader once it has begun to
receive; that is the scheduler of two hosts that are up and TCP between them. A
host that vanishes without a word is outside this assumption, and for it the
code has no answer. Beginning to send or to receive and closing a healthy
connection are under no fairness: after an exit packet a session's receiver loop
ends with the descriptor neither read nor closed
(`client_connection_session_commands.cpp:44`,
`client_connection_session_network.cpp:41`), and the client reads nothing but the
answer to its login. `SendEnds` is therefore conditional: a send ends as long as
some reader is found receiving, or failed, again and again; who keeps that
premise is left to the application, and this one does not. `ReceiveEnds` needs
no such premise. `ServerSessions`' clients, commands and failures are under no
fairness either. `SessionCommands` has no liveness property and no fairness.
`ClientCommands`: weak
fairness of the main thread within a command and of the monitor's test of its
flag; none for its `read()`, which may block for ever, so `ExitEnds` assumes that
it returns again and again; none for commands, crashes, edits. `KeyCapture`:
weak fairness of the capture thread, of the release of `cout_mtx` by who prints,
and of the join, strong fairness of `Echo`, which needs a mutex that others keep
taking; none for keys, prints and the clean-up. `Console`: weak fairness of both
threads, and strong fairness of the two predicate tests, which need a mutex the
other thread keeps taking; none for typing or spurious wakeups.

## 4. What is proved

The proofs hold for every value of the constants that satisfies the named
assumptions.

- `ServerSessions_proofs`, from `FdAssumption`, `MaxOutcomesAssumption`,
  `SentinelAssumption`: `Invariance` shows `IInv` inductive; from it
  `TypeCorrect`, `LimitHolds`, `NamesUnique`, `DescriptorsApart`, `NumbersTrue`,
  `NoLeak`, and the refinement `Implements`. `IInv` strengthens the five safety
  properties by what the accept thread knows at each place: `ServingInv` (whom
  it serves, on an open descriptor), `GrantInv` (the limit and the duplicate
  test stay true from `check` until `add`, as nobody else adds sessions),
  `QueueInv` and `DescriptorInv` (a connection is queued before it has a
  descriptor, and a descriptor denotes only the connection it was opened for),
  `ReplyInv` (no answer before the test, then the announced number).
  None of the five is inductive alone: the limit needs `GrantInv`, the number
  needs `ReplyInv`, and apartness of descriptors needs the duplicate test.
  `Implements` maps `AddSession` to `Grant`, every step that closes the socket
  of an unregistered connection to `Refuse`, and everything else to stuttering;
  `ApproveFails` closes a registered connection and is a stutter. `NoLeak` covers
  every failure after `accept`: `ConfirmFails` and `StartSenderFails` close, and
  where the process dies (`ConfirmKills`, `StartReceiverFails`) so do its descriptors.
- `SessionCommands_proofs`: `TypeCorrect`, `NothingForgotten` and `LogoutFinal`.
  The invariant of the second says where the answer's notify is still to come
  when the sender sleeps; that of the third (`LogoutInv`) that every thread
  acts for its own session, so that a receiver whose flag is cleared is at the
  test of its loop or past it, as long as no broadcast was made. `OwnSocketOnly`
  takes from it that each socket then has one reader, the hypothesis of the
  theorems about `PacketStream`. `UploadsOrdered` proves `OwnChunksInOrder`, which
  is not inductive: what is appended is right only because the receiver's hand,
  the packets waiting on the socket and the client's counter continue the
  numbers of those stored (`UploadNumbers`), and because no thread takes packets
  of the other session (`LogoutInv`).
- `PacketStream_proofs`: `TypeCorrect`, `Framing`, `PacketsWhole` and the
  refinement `Implements`. The last three assume `OneReader`, that `Reader` has
  at most one element: the run `shared_socket` shows that they fail without.
  `IInv` says that what the reader has of a packet, then the stream, then `next`
  of the sender are consecutive units, that the reader began at the first unit
  of the packet after those delivered, and that its goal is the header's size,
  or the packet's once the header is complete. From that no header is ever
  mixed, so `Announced` is the packet's own size, and `RecvLast` delivers `Whole`.
- `ClientCommands_proofs`: `NoneLeft` (`WatcherInv` follows the monitor thread
  through start and stop: while it runs it is joinable, and at every place from
  which an exit may come its flag is set, so that the exit joins it) and
  `UploadHarmless` (`UploadInv`: temporary files are never anything but empty and
  only an upload that read an empty file gets as far as the rename, over crashes,
  restarts and edits by other programs at any step; it assumes that there is a
  name). `Understandable` proves `ReadOrDropped` under the same assumption: every
  queued text was joined from the fields of a request (`QueueInv`), `SplitOfJoin`
  gives those fields back, and the number of fields and the first of them decide
  which of the texts have no handler.
  `TypeCorrect` combines these invariants.
- `Protocol_proofs`, from `TokenAssumption` (`Sep` is a token, and no command's
  name): `SplitOfJoin` and `JoinOfSplit`, that `split_buffer` and the joining of
  fields are inverse to each other on fields that hold no separator.
  Names hold none because the user cannot type it (`NameAssumption`).
- `KeyCapture_proofs`: `TypeCorrect` and the refinement `Implements`: `Type`
  appends a pending key, the actions of the `switch` take the first one, and
  `Get` moves keys without changing their order.
- `Console_proofs`: `TypeCorrect`, `TakesTurns` (`Ownership`) and from it
  `PendingLineSafe`, that a pending line is never replaced. `NoLineLost` proves
  `LinesInOrder`: with `Ownership` it is inductive, as the buffer is empty when
  the next line comes and full when the main loop executes it. `Implements` maps
  `Type` of a line that is not empty to `Enter` and `Process` to `Execute`; it
  needs `LinesInOrder`, which makes the line in the buffer the next of the
  abstract queue, and `RunsWhileOpen`, that the main loop executes only while the
  flag is set. `WordsOfTheLine` proves `CalmWords` from `CalmHandOver`: a line
  typed while both threads rest has both vectors of words to itself, from
  `get_buffer` until the last of the three clearing steps, so that what was
  pushed and what is still to push are always the words of the line.
- `Subsequences_proofs` holds what these need: induction over numbers, up to a
  number, and over sequences, existence and uniqueness of functions defined by
  recursion, and the laws of `Kept`.

Induction. The library's induction theorems take an operator as a parameter,
which the provers cannot instantiate; `NumberInduction` states induction for a
set in place of a predicate and follows from the well-foundedness of the
numbers (`WFMin`). That a recursive function exists is shown by extending one on
`0..m-1` to `0..m` (`RecursionDefined`), and that it is unique likewise.

Every invariant of a passing run is proved, and every refinement and safety
property of steps. Only model-checked: liveness (`EveryRequestAnswered`,
`StopCompletes`, `ReceiveEnds`, `SendEnds`, `ExitEnds`, `OlderKeysHandled`,
`CleanupEnds`), as fairness and ENABLED are out of the prover's reach. The
theorems say nothing of what the violated runs show.

## 5. What is not modelled

- The client's receiver and sender threads and its reactions to the server's
  commands: no code starts them in this commit. Only their dispatch and the
  texts they mount are in `Protocol`.
- What `slist`, `flist` and `list` print, and the comparison of directories that
  `clist` makes; contents of files beyond what the properties tell apart.
- The send loops of `adownload` and `clist` on the server: they sit behind a
  test for an entry in `file_mtx_`, which never has one.
- In `ClientCommands`: temporary files outside the synchronized directory, where
  uploads put them, are never cleaned, so the cleaning has nothing to do with
  `temps`; what closing the watcher's descriptor of unknown value does to others.
- In `PacketStream`: that a garbage header announces more than memory holds
  (the allocation throws).
- In `KeyCapture`: the data race of a printing thread that reads
  `terminal_buffer` while the capture thread changes it; that `select` leaves its
  timeout at zero, so that the loop soon turns without pause; that a
  SIGINT makes the terminal flush its input, and that the clean-up sets it back to
  whole lines: either may take away a key between `select` and `get`, so that
  `get` blocks until the user types again and the clean-up waits for that; the end of file on the standard
  input, for which `select` always reports and `get` returns a character that is
  dropped.
- Argument parsing, sockets' set-up, logging, vendored headers, the checksum.
- Functions without a caller: `remove_session`, `unload_user`, `nuke`,
  `global_broadcast`, `Client::stop`, `start_sync`, `stop_sync`, `agets`.
- Data races on containers are crashes where they may hit a reallocation
  (`ListCrashes`), and atomic accesses otherwise.
- Some failures are single steps of the models and no property is about them: a
  silent client ends the server (`SessionFails`, `Abort`), an answer that is sent
  ends it too (`TxSend`), type-ahead mixes the words of two lines (the hypothesis
  of `CalmWords`), the client's exit never returns from `close()`, a logout wakes
  no sender that sleeps on an empty queue, and a sender that starts after the
  logout sets its flag again.

## 6. Plan

Done, in this order: `ServerSessions` with `LoginService`, `Console`,
`SessionCommands`, `PacketStream` with `PacketQueue`, `Protocol`,
`ClientCommands`, `KeyCapture` with `LineEditor`, `CommandQueue`; the theorems of
section 4. To come, as the code allows:

1. `ServerFiles`: one directory for several users' sessions, deletes and uploads
   by different users, composed from several instances of `SessionCommands`.
2. `Reconcile`: the comparison that `clist` makes, as pure operators against a
   reference.
3. The client's threads, once a version of the program starts them, composed
   with `SessionCommands` over `PacketQueue`.
4. More theorems: what each liveness property needs of safety (that some step of
   the thread is possible wherever it waits, as an invariant without ENABLED), and
   the composition of `KeyCapture` with `Console`, from keys to executed words.
