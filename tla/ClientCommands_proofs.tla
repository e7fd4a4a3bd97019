----------------------- MODULE ClientCommands_proofs -----------------------
(***************************************************************************)
(* What the client's exit leaves running, what an upload does to the local *)
(* file, and how the server reads what the commands queue: for any names,  *)
(* contents, queues and numbers of restarts.                               *)
(***************************************************************************)
EXTENDS ClientCommands, Protocol_proofs

\* A monitor that runs is joined or still wanted, except where the flag was
\* just cleared on the way to a second start.
WatcherInv ==
    /\ monitor \in {"test", "read"} => joinable
    /\ main \in Places
    /\ main \in {"waiting", "sync init", "uploading", "stuck", "renaming", "cleaning",
                "stopping"}
           => (monitor \in {"test", "read"} => watching)
    /\ main = "exited" => monitor \notin {"test", "read"}
    /\ monitor \in {"none", "test", "read", "ended"}

LEMMA WatcherInit == Init => WatcherInv
  BY DEF Init, WatcherInv, Places

LEMMA WatcherNext == WatcherInv /\ [Next]_vars => WatcherInv'
<1> SUFFICES ASSUME WatcherInv, [Next]_vars PROVE WatcherInv'
  OBVIOUS
<1> USE DEF WatcherInv, Places, sync, watcher, Raise
<1>1. ASSUME NEW n \in Name, RequestAsyncDownload(n) \/ RequestDelete(n) \/ UploadBegin(n)
      PROVE WatcherInv'
  <2>1. UNCHANGED watcher /\ main = "waiting" /\ main' \in {"waiting", "failed", "uploading"}
    BY <1>1 DEF RequestAsyncDownload, RequestDelete, UploadBegin, MountFails
  <2> QED BY <2>1
<1>2. CASE RequestListServer \/ ListClient
  <2>1. UNCHANGED watcher /\ main = "waiting" /\ main' \in {"waiting", "failed"}
    BY <1>2 DEF RequestListServer, ListClient, MountFails
  <2> QED BY <2>1
<1>3. CASE SyncBegin \/ ExitSend
  <2>1. UNCHANGED watcher /\ main = "waiting"
        /\ main' \in {"waiting", "failed", "sync init", "cleaning"}
    BY <1>3 DEF SyncBegin, ExitSend
  <2> QED BY <2>1
<1>4. CASE UploadPacket \/ UploadRename
  <2>1. UNCHANGED watcher /\ main \in {"uploading", "stuck", "renaming"}
        /\ main' \in {"waiting", "failed", "stuck", "renaming"}
    BY <1>4 DEF UploadPacket, UploadRename
  <2> QED BY <2>1
<1>5. CASE SyncInit
  BY <1>5 DEF SyncInit
<1>6. CASE SyncStart
  BY <1>6 DEF SyncStart
<1>7. CASE ExitClean
  BY <1>7 DEF ExitClean
<1>8. CASE StopWatching \/ StopJoin
  BY <1>8 DEF StopWatching, StopJoin
<1>9. CASE MonitorTest
  BY <1>9 DEF MonitorTest
<1>10. CASE MonitorRead
  BY <1>10 DEF MonitorRead
<1>11. CASE Kill
  BY <1>11 DEF Kill
<1>12. CASE Restart
  BY <1>12 DEF Restart, Fresh
<1>13. ASSUME NEW p \in Path, Edit(p) PROVE WatcherInv'
  BY <1>13 DEF Edit
<1>14. CASE UNCHANGED vars
  BY <1>14 DEF vars
<1> QED BY <1>1, <1>2, <1>3, <1>4, <1>5, <1>6, <1>7, <1>8, <1>9, <1>10, <1>11, <1>12,
           <1>13, <1>14 DEF Next, Command, Main

\* An exit never leaves a thread of the watcher behind, however often it was
\* started and wherever its thread was.
THEOREM NoneLeft == Spec => []NoWatcherAfterExit
<1>1. WatcherInv => NoWatcherAfterExit
  BY DEF WatcherInv, NoWatcherAfterExit
<1> QED BY <1>1, WatcherInit, WatcherNext, PTL DEF Spec
-----------------------------------------------------------------------------
\* Temporary files never hold anything, those of crashed processes included; and
\* only a file that was read as empty gets as far as being replaced.
UploadInv ==
    /\ current \in Path /\ synced \in BOOLEAN
    /\ files = [p \in Path |-> files[p]]
    /\ temps \in [Path -> {<<>>, NoFile}]
    /\ main \in {"uploading", "stuck", "renaming"} => temps[current] = <<>>
    /\ main = "renaming" => opened = <<>>

LEMMA UploadInit == Name # {} /\ Init => UploadInv
<1> SUFFICES ASSUME Init, Name # {} PROVE UploadInv
  OBVIOUS
<1>1. PICK n \in Name : TRUE
  OBVIOUS
<1>2. <<FALSE, n>> \in Path
  BY DEF Path
<1> QED BY <1>2 DEF Init, UploadInv

LEMMA UploadNext == UploadInv /\ [Next]_vars => UploadInv'
<1> SUFFICES ASSUME UploadInv, [Next]_vars PROVE UploadInv'
  OBVIOUS
<1> USE DEF UploadInv, Raise, disk, sync, job
<1>1. ASSUME NEW n \in Name, UploadBegin(n) PROVE UploadInv'
  <2>1. Local(n) \in Path
    BY DEF Path, Local
  <2>2. temps' \in [Path -> {<<>>, NoFile}]
    <3>1. temps' = temps
          \/ temps' = [temps EXCEPT ![Local(n)] = IF @ = NoFile THEN <<>> ELSE @]
      BY <1>1 DEF UploadBegin
    <3> QED BY <2>1, <3>1
  <2>3. UNCHANGED <<files, synced>>
    BY <1>1 DEF UploadBegin
  <2>4. CASE /\ main' = "uploading" /\ current' = Local(n) /\ temps'[Local(n)] # NoFile
    <3>1. temps'[Local(n)] = <<>>
      BY <2>1, <2>2, <2>4
    <3> QED BY <2>1, <2>2, <2>3, <2>4, <3>1
  <2>5. CASE current' = current /\ main' \in {"waiting", "failed"}
    BY <2>2, <2>3, <2>5
  <2> QED BY <1>1, <2>4, <2>5 DEF UploadBegin
<1>2. CASE UploadPacket
  <2>1. <<>> \o Written(opened) = <<>>
    BY DEF Written
  <2>2. UNCHANGED <<current, opened, files, synced>> /\ temps[current] = <<>>
        /\ main' \in {"stuck", "renaming", "failed"}
    BY <1>2 DEF UploadPacket
  <2>3. temps' = temps \/ temps' = [temps EXCEPT ![current] = temps[current] \o Written(opened)]
    BY <1>2 DEF UploadPacket
  <2>4. temps' = temps
    BY <2>1, <2>2, <2>3
  <2>5. main' = "renaming" => opened = <<>>
    BY <1>2 DEF UploadPacket, ReachesEof
  <2> QED BY <2>2, <2>4, <2>5
<1>3. CASE UploadRename
  <2>1. CASE UNCHANGED <<files, temps>> /\ main' = "waiting"
    BY <1>3, <2>1 DEF UploadRename
  <2>2. CASE /\ files' = [files EXCEPT ![current] = temps[current]]
             /\ temps' = [temps EXCEPT ![current] = NoFile]
             /\ main' = "failed"
    BY <1>3, <2>2 DEF UploadRename
  <2> QED BY <1>3, <2>1, <2>2 DEF UploadRename
<1>4. ASSUME NEW n \in Name, RequestAsyncDownload(n) \/ RequestDelete(n) PROVE UploadInv'
  <2>1. UNCHANGED <<current, synced, files, temps>> /\ main' \in {"waiting", "failed"}
    BY <1>4 DEF RequestAsyncDownload, RequestDelete, MountFails, sync
  <2> QED BY <2>1
<1>5. CASE RequestListServer \/ ListClient \/ ExitSend
  <2>1. UNCHANGED <<current, synced, files, temps>> /\ main' \in {"waiting", "failed", "cleaning"}
    BY <1>5 DEF RequestListServer, ListClient, ExitSend, MountFails, sync
  <2> QED BY <2>1
<1>6. CASE SyncBegin
  <2>1. /\ UNCHANGED <<current, files, temps>> /\ synced' \in BOOLEAN
        /\ main' \in {"waiting", "failed", "sync init"}
    BY <1>6 DEF SyncBegin
  <2> QED BY <2>1
<1>7. CASE ExitClean
  <2>1. /\ UNCHANGED <<current, synced, files, temps>>
        /\ main' \in {"stopping", "exited", "failed"}
    BY <1>7 DEF ExitClean, sync
  <2> QED BY <2>1
<1>8. CASE SyncInit \/ SyncStart \/ StopWatching \/ StopJoin
  <2>1. /\ UNCHANGED <<current, synced, files, temps>>
        /\ main' \notin {"uploading", "stuck", "renaming"}
    BY <1>8 DEF SyncInit, SyncStart, StopWatching, StopJoin, sync
  <2> QED BY <2>1
<1>9. CASE MonitorTest \/ MonitorRead \/ Kill
  <2>1. /\ UNCHANGED <<current, opened, synced, files, temps>> /\ main' \in {main, "dead"}
    BY <1>9 DEF MonitorTest, MonitorRead, Kill, sync
  <2> QED BY <2>1
<1>10. CASE Restart
  BY <1>10 DEF Restart, Fresh
<1>11. ASSUME NEW p \in Path, Edit(p) PROVE UploadInv'
  <2>1. /\ UNCHANGED <<main, current, synced, temps>> /\ files' = [q \in Path |-> files'[q]]
        /\ opened' = opened \/ main = "uploading"
    BY <1>11 DEF Edit, sync
  <2> QED BY <2>1
<1>12. CASE UNCHANGED vars
  BY <1>12 DEF vars
<1> QED BY <1>1, <1>2, <1>3, <1>4, <1>5, <1>6, <1>7, <1>8, <1>9, <1>10, <1>11, <1>12
        DEF Next, Command, Main

\* An upload never changes a file that still is what the upload read of it, whatever
\* temporary files earlier processes left and whatever other programs do meanwhile.
THEOREM UploadHarmless == ASSUME Name # {} PROVE Spec => UploadKeepsRead
<1>1. UploadInv /\ [Next]_vars
          => [UploadRename => files' = files \/ files[current] # opened]_vars
  <2> SUFFICES ASSUME UploadInv, UploadRename, files[current] = opened PROVE files' = files
    OBVIOUS
  <2>1. temps[current] = files[current] /\ current \in Path
    BY DEF UploadInv, UploadRename
  <2>2. files' = files \/ files' = [files EXCEPT ![current] = files[current]]
    BY <2>1 DEF UploadRename, disk
  <2>3. [files EXCEPT ![current] = files[current]] = files
    BY <2>1 DEF UploadInv
  <2> QED BY <2>2, <2>3
<1>2. Init => UploadInv
  BY UploadInit
<1> QED BY <1>1, <1>2, UploadNext, PTL DEF Spec, UploadKeepsRead
-----------------------------------------------------------------------------
(* What is queued is understood at the other end.                          *)

LEMMA NamesAreFields == Name \subseteq Field
<1>1. Token \ {Sep} \subseteq Char \ {Sep}
  BY DEF Char
<1> QED BY <1>1, NameAssumption, SeqMonotonic DEF Field

LEMMA WordsAreFields == \A w \in Word : <<w>> \in Field
  BY TokenAssumption DEF Field, Char

LEMMA FieldsType ==
  \A a, b, c \in Field : /\ <<a>> \in Seq(Field) /\ <<a>> # <<>>
                          /\ <<a, b>> \in Seq(Field) /\ <<a, b>> # <<>>
                          /\ <<a, b, c>> \in Seq(Field) /\ <<a, b, c>> # <<>>
  OBVIOUS

LEMMA RequestsType ==
  \A n \in Field : \A r \in Requests(n) : r \in Seq(Field) /\ r # <<>>
<1> SUFFICES ASSUME NEW n \in Field PROVE \A r \in Requests(n) : r \in Seq(Field) /\ r # <<>>
  OBVIOUS
<1> USE DEF AsyncDownloadRequest, DeleteRequest, UploadRequest, ListRequest
<1>1. /\ <<"adownload">> \in Field /\ <<"delete">> \in Field /\ <<"upload">> \in Field
      /\ <<"flist">> \in Field /\ <<"server">> \in Field /\ <<"checksum">> \in Field
  <2>1. {"adownload", "delete", "upload", "flist", "server", "checksum"} \subseteq Word
    BY DEF Word
  <2> QED BY <2>1, WordsAreFields
<1>2. /\ AsyncDownloadRequest(n) \in Seq(Field) /\ DeleteRequest(n) \in Seq(Field)
      /\ UploadRequest(n) \in Seq(Field) /\ ListRequest \in Seq(Field)
  BY <1>1, FieldsType
<1>3. ASSUME NEW r \in Requests(n) PROVE r \in Seq(Field)
  BY <1>2 DEF Requests
<1>4. ASSUME NEW r \in Requests(n) PROVE r # <<>>
  BY DEF Requests
<1> QED BY <1>3, <1>4

LEMMA AnswersType ==
  \A n \in Field : \A r \in Answers(n) : r \in Seq(Field) /\ r # <<>>
<1> SUFFICES ASSUME NEW n \in Field PROVE \A r \in Answers(n) : r \in Seq(Field) /\ r # <<>>
  OBVIOUS
<1>1. \A w \in {"ping", "pong", "exit", "slist", "flist", "delete", "aupload",
                "sdownload", "fail", "checksum"} : <<w>> \in Field
  <2>1. {"ping", "pong", "exit", "slist", "flist", "delete", "aupload", "sdownload",
         "fail", "checksum"} \subseteq Word
    BY DEF Word
  <2> QED BY <2>1, WordsAreFields
<1>2. ASSUME NEW r \in Notices PROVE r \in Seq(Field) /\ r # <<>>
  BY <1>1, FieldsType DEF Notices
<1>3. ASSUME NEW r \in Failures(n) PROVE r \in Seq(Field) /\ r # <<>>
  BY <1>1, FieldsType DEF Failures
<1>4. ASSUME NEW r \in Updates(n) PROVE r \in Seq(Field) /\ r # <<>>
  BY <1>1, FieldsType DEF Updates
<1> QED BY <1>2, <1>3, <1>4 DEF Answers

\* A table has a handler for fields that it lists, by their number and the first.
LEMMA HandlerOf ==
  ASSUME NEW table, \A e \in table : e = <<e[1], e[2]>>
  PROVE  \A fields, w : fields[1] = <<w>>
             => (Handler(table, fields) = {} <=> <<Len(fields), w>> \notin table)
<1> SUFFICES ASSUME NEW fields, NEW w, fields[1] = <<w>>
             PROVE  Handler(table, fields) = {} <=> <<Len(fields), w>> \notin table
  OBVIOUS
<1>1. \A x, y : <<x>> = <<y>> => x = y
  OBVIOUS
<1>2. \A e \in table : (e[1] = Len(fields) /\ fields[1] = <<e[2]>>) <=> e = <<Len(fields), w>>
  BY <1>1
<1> QED BY <1>2 DEF Handler

LEMMA ServerHandler ==
  \A fields, k, w : Len(fields) = k /\ fields[1] = <<w>>
      => (Handler(ServerTable, fields) = {} <=> <<k, w>> \notin ServerTable)
<1>1. \A e \in ServerTable : e = <<e[1], e[2]>>
  BY DEF ServerTable
<1> QED BY <1>1, HandlerOf

LEMMA ClientHandler ==
  \A fields, k, w : Len(fields) = k /\ fields[1] = <<w>>
      => (Handler(ClientTable, fields) = {} <=> <<k, w>> \notin ClientTable)
<1>1. \A e \in ClientTable : e = <<e[1], e[2]>>
  BY DEF ClientTable
<1> QED BY <1>1, HandlerOf

\* The server has no handler for two of the requests.
LEMMA RequestsUnread ==
  ASSUME NEW n \in Field
  PROVE  Unread(ServerTable, Requests(n)) = {UploadRequest(n), ListRequest}
<1>1. \A r \in Requests(n) : Split(Join(r)) = r
  BY RequestsType, SplitOfJoin
<1>2. Unread(ServerTable, Requests(n)) = {r \in Requests(n) : Handler(ServerTable, r) = {}}
  BY <1>1 DEF Unread
<1>3. /\ Handler(ServerTable, AsyncDownloadRequest(n)) = {} <=> <<2, "adownload">> \notin ServerTable
      /\ Handler(ServerTable, DeleteRequest(n)) = {} <=> <<2, "delete">> \notin ServerTable
      /\ Handler(ServerTable, UploadRequest(n)) = {} <=> <<3, "upload">> \notin ServerTable
      /\ Handler(ServerTable, ListRequest) = {} <=> <<2, "flist">> \notin ServerTable
  <2>1. /\ Len(AsyncDownloadRequest(n)) = 2 /\ AsyncDownloadRequest(n)[1] = <<"adownload">>
        /\ Len(DeleteRequest(n)) = 2 /\ DeleteRequest(n)[1] = <<"delete">>
        /\ Len(UploadRequest(n)) = 3 /\ UploadRequest(n)[1] = <<"upload">>
        /\ Len(ListRequest) = 2 /\ ListRequest[1] = <<"flist">>
    BY DEF AsyncDownloadRequest, DeleteRequest, UploadRequest, ListRequest
  <2> QED BY <2>1, ServerHandler
<1>4. /\ <<2, "adownload">> \in ServerTable /\ <<2, "delete">> \in ServerTable
      /\ <<3, "upload">> \notin ServerTable /\ <<2, "flist">> \notin ServerTable
  BY DEF ServerTable
<1> QED BY <1>2, <1>3, <1>4 DEF Requests

\* The client has none for five of the answers.
LEMMA AnswersUnread == AnswersRead
<1> SUFFICES ASSUME NEW n \in Name \cup {<<>>}
             PROVE  /\ \A a \in Answers(n) : Split(Join(a)) = a
                    /\ Unread(ClientTable, Answers(n)) =
                           {<<<<"exit">>>>, <<<<"slist">>>>, <<<<"flist">>>>,
                            <<<<"sdownload">>, n, <<"fail">>>>,
                            <<<<"sdownload">>, n, <<"checksum">>>>}
  BY DEF AnswersRead
<1>1. n \in Field
  BY NamesAreFields, TextIsSeq
<1>2. \A a \in Answers(n) : Split(Join(a)) = a
  BY <1>1, AnswersType, SplitOfJoin
<1>3. Unread(ClientTable, Answers(n)) = {a \in Answers(n) : Handler(ClientTable, a) = {}}
  BY <1>2 DEF Unread
<1>4. ASSUME NEW w
      PROVE  Handler(ClientTable, <<<<w>>>>) = {} <=> <<1, w>> \notin ClientTable
  <2>1. PICK a : a = <<<<w>>>>
    OBVIOUS
  <2>2. Len(a) = 1 /\ a[1] = <<w>>
    BY <2>1
  <2> QED BY <2>1, <2>2, ClientHandler
<1>5. ASSUME NEW w, NEW x
      PROVE  Handler(ClientTable, <<<<w>>, x>>) = {} <=> <<2, w>> \notin ClientTable
  <2>1. PICK a : a = <<<<w>>, x>>
    OBVIOUS
  <2>2. Len(a) = 2 /\ a[1] = <<w>>
    BY <2>1
  <2> QED BY <2>1, <2>2, ClientHandler
<1>6. ASSUME NEW w, NEW x, NEW y
      PROVE  Handler(ClientTable, <<<<w>>, x, y>>) = {} <=> <<3, w>> \notin ClientTable
  <2>1. PICK a : a = <<<<w>>, x, y>>
    OBVIOUS
  <2>2. Len(a) = 3 /\ a[1] = <<w>>
    BY <2>1
  <2> QED BY <2>1, <2>2, ClientHandler
<1>7. \A w \in {"ping", "pong", "exit", "slist", "flist"} :
          <<1, w>> \notin ClientTable <=> w \in {"exit", "slist", "flist"}
  BY DEF ClientTable
<1>8. /\ <<2, "sdownload">> \in ClientTable /\ <<2, "delete">> \in ClientTable
      /\ <<3, "aupload">> \in ClientTable /\ <<3, "delete">> \in ClientTable
      /\ <<3, "sdownload">> \notin ClientTable
  BY DEF ClientTable
<1>9. {a \in Notices : Handler(ClientTable, a) = {}}
          = {<<<<"exit">>>>, <<<<"slist">>>>, <<<<"flist">>>>}
  BY <1>4, <1>7 DEF Notices
<1>10. {a \in Failures(n) : Handler(ClientTable, a) = {}} = {<<<<"sdownload">>, n, <<"fail">>>>}
  BY <1>6, <1>8 DEF Failures
<1>11. {a \in Updates(n) : Handler(ClientTable, a) = {}} = {<<<<"sdownload">>, n, <<"checksum">>>>}
  BY <1>5, <1>6, <1>8 DEF Updates
<1> QED BY <1>2, <1>3, <1>9, <1>10, <1>11 DEF Answers

\* The queue holds texts of requests for names of files.
QueueInv ==
    /\ queue \in Seq(Text)
    /\ \A i \in 1..Len(queue) : \E n \in Name : \E r \in Requests(n) : queue[i] = Join(r)

LEMMA QueueReadOrDropped == QueueInv => ReadOrDropped
<1> SUFFICES ASSUME QueueInv, NEW i \in DOMAIN queue
             PROVE  \E n \in Name :
                        /\ Split(queue[i]) \in Requests(n)
                        /\ Unread(ServerTable, Requests(n)) = {UploadRequest(n), ListRequest}
  BY AnswersUnread DEF ReadOrDropped
<1>1. i \in 1..Len(queue)
  BY DEF QueueInv
<1>2. PICK n \in Name : \E r \in Requests(n) : queue[i] = Join(r)
  BY <1>1 DEF QueueInv
<1>3. PICK r \in Requests(n) : queue[i] = Join(r)
  BY <1>2
<1>4. Split(queue[i]) = r
  BY <1>3, NamesAreFields, RequestsType, SplitOfJoin
<1>5. Unread(ServerTable, Requests(n)) = {UploadRequest(n), ListRequest}
  BY NamesAreFields, RequestsUnread
<1> QED BY <1>4, <1>5

LEMMA MountsQueue ==
  ASSUME QueueInv, NEW n \in Name, NEW r \in Requests(n), Mounts(r)
  PROVE  QueueInv'
<1>1. Join(r) \in Text
  <2>1. r \in Seq(Text)
    BY NamesAreFields, RequestsType, TextIsSeq, SeqMonotonic
  <2> QED BY <2>1, JoinType
<1>2. /\ queue' \in Seq(Text) /\ Len(queue') = Len(queue) + 1 /\ Len(queue) \in Nat
      /\ \A i \in 1..Len(queue) : queue'[i] = queue[i]
      /\ queue'[Len(queue) + 1] = Join(r)
  BY <1>1, AppendProperties, LenProperties DEF Mounts, QueueInv
<1>3. ASSUME NEW i \in 1..Len(queue')
      PROVE  \E m \in Name : \E q \in Requests(m) : queue'[i] = Join(q)
  <2>1. i \in 1..Len(queue) \/ i = Len(queue) + 1
    BY <1>2
  <2> QED BY <1>2, <2>1 DEF QueueInv
<1> QED BY <1>2, <1>3 DEF QueueInv

LEMMA QueueInit == Init => QueueInv
  BY DEF Init, QueueInv

LEMMA QueueNext == Name # {} /\ UploadInv /\ QueueInv /\ [Next]_vars => QueueInv'
<1> SUFFICES ASSUME Name # {}, UploadInv, QueueInv, [Next]_vars PROVE QueueInv'
  OBVIOUS
<1>1. CASE UNCHANGED queue
  BY <1>1 DEF QueueInv
<1>2. CASE queue' = <<>>
  BY <1>2 DEF QueueInv
<1>3. ASSUME NEW n \in Name, RequestAsyncDownload(n) PROVE QueueInv'
  <2>1. AsyncDownloadRequest(n) \in Requests(n)
    BY DEF Requests
  <2>2. Mounts(AsyncDownloadRequest(n)) \/ UNCHANGED queue
    BY <1>3 DEF RequestAsyncDownload, MountFails
  <2> QED BY <1>1, <2>1, <2>2, MountsQueue
<1>4. ASSUME NEW n \in Name, RequestDelete(n) PROVE QueueInv'
  <2>1. DeleteRequest(n) \in Requests(n)
    BY DEF Requests
  <2>2. Mounts(DeleteRequest(n)) \/ UNCHANGED queue
    BY <1>4 DEF RequestDelete, MountFails
  <2> QED BY <1>1, <2>1, <2>2, MountsQueue
<1>5. CASE RequestListServer
  <2>1. PICK n \in Name : TRUE
    OBVIOUS
  <2>2. ListRequest \in Requests(n)
    BY DEF Requests
  <2>3. Mounts(ListRequest) \/ UNCHANGED queue
    BY <1>5 DEF RequestListServer, MountFails
  <2> QED BY <1>1, <2>1, <2>2, <2>3, MountsQueue
<1>6. CASE UploadPacket
  <2>1. current[2] \in Name
    BY DEF UploadInv, Path
  <2>2. UploadFields \in Requests(current[2])
    BY DEF UploadFields, Requests
  <2>3. Mounts(UploadFields) \/ UNCHANGED queue
    BY <1>6 DEF UploadPacket
  <2> QED BY <1>1, <2>1, <2>2, <2>3, MountsQueue
<1>7. CASE ExitSend
  BY <1>2, <1>7 DEF ExitSend
<1>8. CASE ListClient \/ SyncBegin \/ UploadRename \/ SyncInit \/ SyncStart \/ ExitClean
           \/ StopWatching \/ StopJoin \/ MonitorTest \/ MonitorRead \/ Kill
  BY <1>1, <1>8 DEF ListClient, SyncBegin, UploadRename, SyncInit, SyncStart, ExitClean,
                    StopWatching, StopJoin, MonitorTest, MonitorRead, Kill
<1>9. CASE Restart
  BY <1>2, <1>9 DEF Restart, Fresh
<1>10. ASSUME NEW n \in Name, UploadBegin(n) PROVE QueueInv'
  BY <1>1, <1>10 DEF UploadBegin
<1>11. ASSUME NEW p \in Path, Edit(p) PROVE QueueInv'
  BY <1>1, <1>11 DEF Edit
<1>12. CASE UNCHANGED vars
  BY <1>1, <1>12 DEF vars
<1> QED BY <1>3, <1>4, <1>5, <1>6, <1>7, <1>8, <1>9, <1>10, <1>11, <1>12
        DEF Next, Command, Main

\* Whatever the user's commands queue, for any names and however long the queue: the
\* server takes it apart into the fields of a command for one of his files, and drops
\* exactly uploads and lists.
THEOREM Understandable == ASSUME Name # {} PROVE Spec => []ReadOrDropped
<1>1. Init => UploadInv
  BY UploadInit
<1>2. UploadInv /\ QueueInv /\ [Next]_vars => QueueInv'
  BY QueueNext
<1> QED BY <1>1, <1>2, UploadNext, QueueInit, QueueReadOrDropped, PTL DEF Spec
-----------------------------------------------------------------------------
\* What the invariants above leave to say of the types.
RestInv ==
    /\ syncing \in BOOLEAN /\ watching \in BOOLEAN /\ joinable \in BOOLEAN
    /\ fd \in {"invalid", "other"}
    /\ files \in [Path -> Seq(Token) \cup {NoFile}]
    /\ opened \in Seq(Token)
    /\ restarts \in Nat /\ edits \in Nat

LEMMA RestInit == Init => RestInv
<1> SUFFICES ASSUME Init PROVE RestInv
  OBVIOUS
<1>1. files \in [Path -> Seq(Token) \cup {NoFile}]
  BY DEF Init
<1>2. syncing \in BOOLEAN /\ watching \in BOOLEAN /\ joinable \in BOOLEAN
  BY DEF Init
<1> QED BY <1>1, <1>2 DEF Init, RestInv

LEMMA RestNext == UploadInv /\ RestInv /\ [Next]_vars => RestInv'
<1> SUFFICES ASSUME UploadInv, RestInv, [Next]_vars PROVE RestInv'
  OBVIOUS
<1> USE DEF RestInv, sync, watcher, disk, job, world
<1>1. CASE UNCHANGED <<syncing, watcher, files, opened, world>>
  BY <1>1
<1>2. ASSUME NEW n \in Name, RequestAsyncDownload(n) \/ RequestDelete(n)
      PROVE  RestInv'
  BY <1>1, <1>2 DEF RequestAsyncDownload, RequestDelete
<1>9. ASSUME NEW n \in Name, UploadBegin(n) PROVE RestInv'
  <2>1. /\ UNCHANGED <<syncing, watcher, files, world>> /\ files[Local(n)] # NoFile
        /\ opened' = opened \/ opened' = files[Local(n)]
    BY <1>9 DEF UploadBegin, Exists
  <2>2. Local(n) \in Path
    BY DEF Local, Path, UploadInv
  <2>3. files[Local(n)] \in Seq(Token)
    BY <2>1, <2>2
  <2> QED BY <2>1, <2>3
<1>3. CASE RequestListServer \/ ListClient \/ SyncBegin \/ ExitSend \/ UploadPacket
           \/ ExitClean \/ Kill
  BY <1>1, <1>3 DEF RequestListServer, ListClient, SyncBegin, ExitSend, UploadPacket,
                    ExitClean, Kill
<1>4. CASE UploadRename
  <2>1. UNCHANGED <<syncing, watcher, opened, world>>
    BY <1>4 DEF UploadRename
  <2>2. temps[current] \in Seq(Token) \cup {NoFile} /\ current \in Path
    <3>1. temps[current] \in {<<>>, NoFile} /\ current \in Path
      BY DEF UploadInv
    <3>2. <<>> \in Seq(Token)
      OBVIOUS
    <3> QED BY <3>1, <3>2 DEF UploadInv
  <2>3. files' = files \/ files' = [files EXCEPT ![current] = temps[current]]
    BY <1>4 DEF UploadRename
  <2> QED BY <2>1, <2>2, <2>3
<1>5. CASE SyncInit \/ SyncStart \/ StopWatching \/ StopJoin \/ MonitorTest \/ MonitorRead
  <2>1. UNCHANGED <<syncing, fd, files, opened, world>>
    BY <1>5 DEF SyncInit, SyncStart, StopWatching, StopJoin, MonitorTest, MonitorRead
  <2>2. watching' \in {watching, TRUE, FALSE} /\ joinable' \in {joinable, TRUE, FALSE}
    BY <1>5 DEF SyncInit, SyncStart, StopWatching, StopJoin, MonitorTest, MonitorRead
  <2> QED BY <2>1, <2>2
<1>6. CASE Restart
  <2>1. /\ UNCHANGED <<files, opened, edits>> /\ restarts' = restarts + 1
        /\ syncing' \in BOOLEAN /\ watching' = FALSE /\ joinable' = FALSE
        /\ fd' \in {"invalid", "other"}
    BY <1>6 DEF Restart, Fresh
  <2>2. syncing' \in BOOLEAN /\ watching' \in BOOLEAN /\ joinable' \in BOOLEAN
    BY <2>1
  <2>3. restarts' \in Nat /\ edits' \in Nat
    BY <2>1
  <2> QED BY <2>1, <2>2, <2>3
<1>7. ASSUME NEW p \in Path, Edit(p) PROVE RestInv'
  <2>1. PICK c \in Content \cup {NoFile} :
            /\ files' = [files EXCEPT ![p] = c]
            /\ opened' = opened \/ (c # NoFile /\ opened' = c)
    BY <1>7 DEF Edit
  <2>2. c \in Seq(Token) \cup {NoFile} /\ (c # NoFile => c \in Seq(Token))
    BY ContentAssumption
  <2>3. UNCHANGED <<syncing, watcher, restarts>> /\ edits' = edits + 1
    BY <1>7 DEF Edit
  <2> QED BY <2>1, <2>2, <2>3
<1>8. CASE UNCHANGED vars
  BY <1>1, <1>8 DEF vars
<1> QED BY <1>2, <1>3, <1>4, <1>5, <1>6, <1>7, <1>8, <1>9 DEF Next, Command, Main

\* Type correctness of the client: every text that is queued fits the protocol's
\* alphabet, and no file ever holds anything but tokens.
THEOREM TypeCorrect == ASSUME Name # {} PROVE Spec => []TypeOK
<1>1. Init => UploadInv
  BY UploadInit
<1>2. UploadInv /\ QueueInv /\ [Next]_vars => QueueInv'
  BY QueueNext
<1>3. UploadInv /\ WatcherInv /\ QueueInv /\ RestInv => TypeOK
  <2> SUFFICES ASSUME UploadInv, WatcherInv, QueueInv, RestInv PROVE TypeOK
    OBVIOUS
  <2>1. temps \in [Path -> Seq(Token) \cup {NoFile}]
    <3>1. <<>> \in Seq(Token)
      OBVIOUS
    <3> QED BY <3>1 DEF UploadInv
  <2> QED BY <2>1 DEF UploadInv, WatcherInv, QueueInv, RestInv, TypeOK
<1> QED BY <1>1, <1>2, <1>3, UploadNext, QueueInit, RestInit, RestNext, WatcherInit,
           WatcherNext, PTL DEF Spec
=============================================================================
