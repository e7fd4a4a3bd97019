--------------------------- MODULE ClientCommands ---------------------------
(***************************************************************************)
(* The client's main thread between two console lines (application.cpp,    *)
(* client_ui_handler.cpp, network_commands_client.cpp) and the thread of   *)
(* its directory watcher (inotify_watcher.cpp), over crashes and restarts. *)
(* Commands go to sender_buffer_; nobody calls start_sender, so that buffer*)
(* is only filled, and emptied by exit.                                    *)
(***************************************************************************)
EXTENDS Protocol

CONSTANTS Name,         \* file names the user types: letters and digits, see KeyCapture
          Content,      \* contents of files: sequences; <<>> is an empty file
          NoFile,
          MaxQueue,     \* packets that fit into memory
          MaxRestarts, MaxEdits

ASSUME NameAssumption == Name \subseteq Seq(Token \ {Sep}) \ {<<>>}
ASSUME ContentAssumption == /\ <<>> \in Content /\ Content \subseteq Seq(Token)
                            /\ NoFile \notin Content
ASSUME CountAssumption == MaxQueue \in Nat /\ MaxRestarts \in Nat /\ MaxEdits \in Nat

\* sync_dir_path_ + name: a file next to the program before "get sync dir" and,
\* as "./sync dir" has no '/' at its end, after it as well.  The quotes that the
\* commands erase cannot be typed.
Path == BOOLEAN \X Name

VARIABLES
    main,      \* place of the main thread
    queue,     \* sender_buffer_
    synced,    \* sync_dir_path_ is set
    syncing,   \* running_sync_, which is never written
    watching,  \* is_running_ of the watcher
    joinable,  \* monitor_thread_ holds a thread
    monitor,   \* place of that thread
    fd,        \* what the watcher's member watched_path_fd_ happens to be
    current,   \* the path upload works on
    opened,    \* what the file that upload opened holds when it is read
    files,     \* the local files
    temps,     \* their ".swizdownload" files, which survive the process
    restarts, edits

vars == <<main, queue, synced, syncing, watching, joinable, monitor, fd,
          current, opened, files, temps, restarts, edits>>
job == <<current, opened>>
sync == <<synced, syncing>>
watcher == <<watching, joinable, monitor, fd>>
disk == <<files, temps>>
world == <<restarts, edits>>

\* "waiting" for a line; "exited" and "failed" end in close(), which waits for
\* the input thread; "dead" has ended.
Places == {"waiting", "sync init", "sync start", "uploading", "stuck",
           "renaming", "cleaning", "stopping", "joining", "exited", "failed", "dead"}
Ended == {"exited", "failed", "dead"}

\* A process starts: two of its members hold whatever the memory held.
Fresh == /\ main' = "waiting" /\ queue' = <<>> /\ synced' = FALSE
         /\ syncing' \in BOOLEAN
         /\ watching' = FALSE /\ joinable' = FALSE /\ monitor' = "none"
         /\ fd' \in {"invalid", "other"}

Init == /\ main = "waiting" /\ queue = <<>> /\ synced = FALSE
        /\ syncing \in BOOLEAN
        /\ watching = FALSE /\ joinable = FALSE /\ monitor = "none"
        /\ fd \in {"invalid", "other"}
        /\ current = CHOOSE p \in Path : TRUE
        /\ opened = <<>>
        /\ files = [p \in Path |-> NoFile]
        /\ temps = [p \in Path |-> NoFile]
        /\ restarts = 0 /\ edits = 0

Exists(path) == files[path] # NoFile
Local(name) == <<synced, name>>

\* An exception leaves process_user_interface_commands_: main_loop and start
\* raise it again, and the destructor of the application waits in close().
Raise == main' = "failed"
-----------------------------------------------------------------------------
(* Commands that are queued. *)

Mounts(fields) == /\ Fits(Join(fields))
                  /\ Len(queue) < MaxQueue
                  /\ queue' = Append(queue, Join(fields))

\* strcharray throws, or the memory is used up.
MountFails(fields) == /\ ~Fits(Join(fields)) \/ Len(queue) >= MaxQueue
                      /\ Raise
                      /\ UNCHANGED queue

\* download
RequestAsyncDownload(name) ==
    /\ main = "waiting"
    /\ LET fields == AsyncDownloadRequest(name)
       IN \/ Mounts(fields) /\ UNCHANGED main
          \/ MountFails(fields)
    /\ UNCHANGED <<sync, watcher, job, disk, world>>

\* list server
RequestListServer ==
    /\ main = "waiting"
    /\ \/ Mounts(ListRequest) /\ UNCHANGED main
       \/ MountFails(ListRequest)
    /\ UNCHANGED <<sync, watcher, job, disk, world>>

\* delete.  The test for the file's mutex is inverted: with one it raises, and
\* without one operator[] creates a null pointer, which throws when it is locked
\* through, before the file is touched.
RequestDelete(name) ==
    /\ main = "waiting"
    /\ LET fields == DeleteRequest(name)
       IN \/ Mounts(fields)
             /\ IF Exists(Local(name)) THEN Raise ELSE UNCHANGED main
          \/ MountFails(fields)
    /\ UNCHANGED <<sync, watcher, job, disk, world>>

\* list client: without a directory opendir fails.
ListClient == /\ main = "waiting"
              /\ \/ ~synced /\ Raise
                 \/ synced /\ main' \in {"waiting", "failed"}
              /\ UNCHANGED <<queue, sync, watcher, job, disk, world>>
-----------------------------------------------------------------------------
(* upload *)

\* The mutex, the checksum and the files.
UploadBegin(name) ==
    /\ main = "waiting"
    /\ Exists(Local(name))
    /\ temps' \in {temps, [temps EXCEPT ![Local(name)] = IF @ = NoFile THEN <<>> ELSE @]}
    /\ \/ /\ main' = "uploading"
          /\ current' = Local(name)
          /\ opened' = files[Local(name)]
          /\ temps'[Local(name)] # NoFile
       \/ /\ Raise \/ UNCHANGED main   \* the file vanished or is unreadable
          /\ UNCHANGED job
    /\ UNCHANGED <<queue, sync, watcher, files, world>>

UploadFields == UploadRequest(current[2])

\* Mutant: the packet has a buffer and the temporary file gets the contents.
BufferWritten(content) == content

\* Mutant: payload_size bytes of a buffer that was not read into.
GarbageWritten(content) == <<"garbage">>

\* packet::payload is null: read() fails without reaching the end unless the
\* file is empty, and nothing is written to the temporary file.
Written(content) == <<>>

ReachesEof(content) == content = <<>>

\* One turn of while(!file.eof()).  The first one reads; a stream that failed there
\* never gets to the end.
UploadPacket ==
    /\ main \in {"uploading", "stuck"}
    /\ \/ /\ Mounts(UploadFields)
          /\ temps' = [temps EXCEPT ![current] = @ \o Written(opened)]
          /\ main' = IF ReachesEof(opened) THEN "renaming" ELSE "stuck"
       \/ /\ ~Fits(Join(UploadFields))
          /\ Raise
          /\ UNCHANGED <<queue, temps>>
       \/ /\ Fits(Join(UploadFields)) /\ Len(queue) >= MaxQueue
          /\ temps' = [temps EXCEPT ![current] = @ \o Written(opened)]
          /\ Raise
          /\ UNCHANGED queue
    /\ UNCHANGED <<sync, watcher, job, files, world>>

\* rename_replacing tests rename's result the wrong way round: it throws when
\* the file was replaced, and returns when it was not.
UploadRename ==
    /\ main = "renaming"
    /\ \/ /\ files' = [files EXCEPT ![current] = temps[current]]
          /\ temps' = [temps EXCEPT ![current] = NoFile]
          /\ Raise
       \/ /\ main' = "waiting"
          /\ UNCHANGED disk
    /\ UNCHANGED <<queue, sync, watcher, job, world>>
-----------------------------------------------------------------------------
(* get sync dir, and the watcher. *)

\* start_sync_: the message when running_sync_ happens to be true; else the
\* directories, of which one may be missing.  No upload puts its temporary file
\* into the directory, so that the cleaning of it finds none of temps.
SyncBegin == /\ main = "waiting"
             /\ IF syncing
                THEN UNCHANGED <<main, synced>>
                ELSE /\ synced' = TRUE
                     /\ main' = "sync init" \/ Raise
             /\ UNCHANGED <<queue, syncing, watcher, job, disk, world>>

\* InotifyWatcher::init
SyncInit == /\ main = "sync init"
            /\ watching' = FALSE
            /\ main' = "sync start"
            /\ UNCHANGED <<queue, sync, joinable, monitor, fd, job, disk, world>>

\* start_watching: inotify may refuse; assigning over a thread that was not
\* joined ends the process.
SyncStart == /\ main = "sync start"
             /\ \/ /\ Raise
                   /\ UNCHANGED <<watching, joinable, monitor>>
                \/ /\ ~joinable
                   /\ watching' = TRUE /\ joinable' = TRUE /\ monitor' = "test"
                   /\ main' = "waiting"
                \/ /\ joinable
                   /\ watching' = TRUE
                   /\ main' = "dead"
                   /\ UNCHANGED <<joinable, monitor>>
             /\ UNCHANGED <<queue, sync, fd, job, disk, world>>

\* while(is_running_.load())
MonitorTest == /\ main # "dead"
               /\ monitor = "test"
               /\ monitor' = IF watching THEN "read" ELSE "ended"
               /\ UNCHANGED <<main, queue, sync, watching, joinable, fd, job, disk, world>>

\* read() on the member, which start_watching's local variable hides: an error
\* is thrown out of the thread, or another descriptor of the process delivers.
MonitorRead == /\ main # "dead"
               /\ monitor = "read"
               /\ \/ fd = "invalid" /\ main' = "dead" /\ UNCHANGED monitor
                  \/ fd = "other" /\ monitor' = "test" /\ UNCHANGED main
               /\ UNCHANGED <<queue, sync, watching, joinable, fd, job, disk, world>>
-----------------------------------------------------------------------------
(* exit *)

\* The queue is dropped for the exit packet; its send may raise.
ExitSend == /\ main = "waiting"
            /\ queue' = <<>>
            /\ main' = "cleaning" \/ Raise
            /\ UNCHANGED <<sync, watcher, job, disk, world>>

\* The temporary files in the directory, none of them ours, where the file system
\* may raise; then a watcher that runs.
ExitClean == /\ main = "cleaning"
             /\ \/ main' = IF watching THEN "stopping" ELSE "exited"
                \/ Raise
             /\ UNCHANGED <<queue, sync, watcher, job, disk, world>>

\* Mutant: stop_watching leaves the flag to the destructor.
StopWatchingFlagForgotten ==
    /\ main = "stopping"
    /\ main' = IF joinable THEN "joining" ELSE "exited"
    /\ UNCHANGED <<queue, sync, watcher, job, disk, world>>

\* Mutant: the monitor thread is not joined.
StopWatchingNoJoin ==
    /\ main = "stopping"
    /\ watching' = FALSE
    /\ main' = "exited"
    /\ UNCHANGED <<queue, sync, joinable, monitor, fd, job, disk, world>>

\* stop_watching: the flag, then the join.
StopWatching == /\ main = "stopping"
                /\ watching' = FALSE
                /\ main' = IF joinable THEN "joining" ELSE "exited"
                /\ UNCHANGED <<queue, sync, joinable, monitor, fd, job, disk, world>>

StopJoin == /\ main = "joining"
            /\ monitor = "ended"
            /\ joinable' = FALSE
            /\ main' = "exited"
            /\ UNCHANGED <<queue, sync, watching, monitor, fd, job, disk, world>>
-----------------------------------------------------------------------------
(* The world. *)

\* The user, or a failure, ends the process at any place.
Kill == /\ main # "dead"
        /\ main' = "dead"
        /\ UNCHANGED <<queue, sync, watcher, job, disk, world>>

Restart == /\ main = "dead"
           /\ restarts < MaxRestarts
           /\ restarts' = restarts + 1
           /\ Fresh
           /\ UNCHANGED <<job, disk, edits>>

\* Another program of the user writes or deletes a file, at any time: no lock keeps
\* it off.  What an upload has open changes with it unless the file was replaced.
Edit(path) == /\ edits < MaxEdits
              /\ edits' = edits + 1
              /\ \E c \in (Content \cup {NoFile}) \ {files[path]} :
                     /\ files' = [files EXCEPT ![path] = c]
                     /\ \/ UNCHANGED opened
                        \/ /\ main = "uploading" /\ path = current
                           /\ files[path] # NoFile /\ c # NoFile
                           /\ opened' = c
              /\ UNCHANGED <<main, queue, sync, watcher, current, temps, restarts>>

Command == \/ \E n \in Name : RequestAsyncDownload(n) \/ RequestDelete(n) \/ UploadBegin(n)
           \/ RequestListServer \/ ListClient \/ SyncBegin \/ ExitSend

Main == \/ UploadPacket \/ UploadRename \/ SyncInit \/ SyncStart
        \/ ExitClean \/ StopWatching \/ StopJoin

Next == \/ Command \/ Main \/ MonitorTest \/ MonitorRead
        \/ Kill \/ Restart \/ (\E p \in Path : Edit(p))

Spec == Init /\ [][Next]_vars

\* The scheduler.  read() of the monitor is under no fairness: nothing says
\* that the descriptor it happens to read ever delivers.
Fairness == WF_vars(Main) /\ WF_vars(MonitorTest)

FairSpec == Spec /\ Fairness
-----------------------------------------------------------------------------
(* Properties. *)

\* Types.
TypeOK == /\ main \in Places
          /\ queue \in Seq(Text)
          /\ {synced, syncing, watching, joinable} \subseteq BOOLEAN
          /\ monitor \in {"none", "test", "read", "ended"}
          /\ fd \in {"invalid", "other"}
          /\ current \in Path /\ opened \in Seq(Token)
          /\ files \in [Path -> Seq(Token) \cup {NoFile}]
          /\ temps \in [Path -> Seq(Token) \cup {NoFile}]
          /\ restarts \in Nat /\ edits \in Nat

\* An upload replaces the local file by its temporary copy, which an earlier crash
\* may have left behind.  As long as the file still is what the upload read of it,
\* that changes nothing.
UploadKeepsRead == [][UploadRename => files' = files \/ files[current] # opened]_vars

\* What src/README.md:29 lets a user rely on, that his changes to a file are kept: an
\* upload leaves the local file alone, whatever another program made of it.
UploadKeepsFile == [][UploadRename => files' = files]_vars

\* After an exit no thread of the watcher is left, whenever it was started and
\* whatever it was doing.
NoWatcherAfterExit == main = "exited" => monitor \in {"none", "ended"}

\* The exit command comes to its end, up to close(), as long as the monitor's read
\* returns: the thread it joins sees the cleared flag.
ExitEnds == []<>(monitor # "read") => (main = "cleaning" ~> main \in Ended)

\* The client takes the answers apart as they were meant, those too for the empty
\* name, as which the server reads an empty list of files.  It has no handler for a
\* list, for an exit without a reason and for the packets of a download.
AnswersRead ==
    \A n \in Name \cup {<<>>} :
        /\ \A a \in Answers(n) : Split(Join(a)) = a
        /\ Unread(ClientTable, Answers(n)) =
               {<<<<"exit">>>>, <<<<"slist">>>>, <<<<"flist">>>>,
                <<<<"sdownload">>, n, <<"fail">>>>,
                <<<<"sdownload">>, n, <<"checksum">>>>}

\* Whatever the user's commands queued, the server takes apart into the fields of a
\* command for one of his files, and it has a handler for all of these but upload and
\* list server, which it drops.  The answers come apart likewise.
ReadOrDropped ==
    /\ \A i \in DOMAIN queue : \E n \in Name :
           /\ Split(queue[i]) \in Requests(n)
           /\ Unread(ServerTable, Requests(n)) = {UploadRequest(n), ListRequest}
    /\ AnswersRead
=============================================================================
