------------------------------ MODULE Protocol ------------------------------
(***************************************************************************)
(* The text of a packet's command: fields with a separator between them,   *)
(* how they are put together, taken apart again, and which handler the     *)
(* receiver loops choose.  A field is a sequence of tokens.                *)
(***************************************************************************)
EXTENDS Naturals, Sequences

CONSTANTS Token,    \* what names are made of
          Sep,      \* the character between fields
          MaxText   \* what fits into packet::command with its final '\0'

Word == {"checksum", "login", "exit", "ping", "pong", "slist", "flist", "clist", "list",
         "delete", "adownload", "download", "sdownload", "supload", "aupload",
         "upload", "server", "fail"}

\* No command name holds the separator.
ASSUME TokenAssumption == Sep \in Token /\ Sep \notin Word
ASSUME MaxTextAssumption == MaxText \in Nat

Text == Seq(Token \cup Word)

\* "command|argument|...": the fields with separators between them.
Join(fields) ==
    LET upTo[i \in 0..Len(fields)] ==
            IF i = 0 THEN <<>>
            ELSE IF i = 1 THEN fields[1]
            ELSE (upTo[i - 1] \o <<Sep>>) \o fields[i]
    IN upTo[Len(fields)]

\* strcharray throws when a text does not fit.
Fits(text) == Len(text) <= MaxText

WithChar(fields, c) == [fields EXCEPT ![Len(fields)] = Append(@, c)]

\* Mutant: an empty field between two separators is skipped.
TakenSkipsEmpty(fields, c) ==
    IF c # Sep THEN WithChar(fields, c)
    ELSE IF fields[Len(fields)] = <<>> THEN fields ELSE Append(fields, <<>>)

\* One character of split_buffer: every separator begins another field.
Taken(fields, c) == IF c = Sep THEN Append(fields, <<>>) ELSE WithChar(fields, c)

Split(text) ==
    LET upTo[i \in 0..Len(text)] ==
            IF i = 0 THEN <<<<>>>> ELSE Taken(upTo[i - 1], text[i])
    IN upTo[Len(text)]

\* The commands with a handler on the server, by the number of their fields.
ServerTable == ({1} \X {"exit", "ping", "pong", "slist", "flist", "clist"})
         \cup ({2} \X {"delete", "clist", "adownload", "download"})
         \cup ({3} \X {"sdownload", "supload"})

\* The commands with a handler on the client.
ClientTable == ({1} \X {"ping", "pong"})
         \cup ({2} \X {"delete", "exit", "sdownload", "list"})
         \cup ({3} \X {"supload", "aupload", "upload", "delete"})

\* The receiver loops look at the number of fields, then at the first.
Handler(table, fields) ==
    {e \in table : e[1] = Len(fields) /\ fields[1] = <<e[2]>>}
-----------------------------------------------------------------------------
(* What either end mounts, for the name of a file. *)

AsyncDownloadRequest(name) == <<<<"adownload">>, name>>
DeleteRequest(name) == <<<<"delete">>, name>>
UploadRequest(name) == <<<<"upload">>, name, <<"checksum">>>>
ListRequest == <<<<"flist">>, <<"server">>>>

\* What the client's console commands queue.
Requests(name) == {AsyncDownloadRequest(name), DeleteRequest(name),
                   UploadRequest(name), ListRequest}

\* What a session of the server answers that has one field.
Notices == {<<<<w>>>> : w \in {"ping", "pong", "exit", "slist", "flist"}}

\* The answers that report a failure.
Failures(name) == {<<<<w>>, name, <<"fail">>>> : w \in {"delete", "aupload", "sdownload"}}

\* The packets of a download, and those that tell of another device's file.
Updates(name) == {<<<<"aupload">>, name, <<"checksum">>>>,
                  <<<<"sdownload">>, name, <<"checksum">>>>,
                  <<<<"sdownload">>, name>>, <<<<"delete">>, name>>}

Answers(name) == Notices \cup Failures(name) \cup Updates(name)

\* The texts for which the other end, once it took them apart, has no handler: it
\* rejects their packets.
Unread(table, texts) == {fields \in texts : Handler(table, Split(Join(fields))) = {}}
=============================================================================
