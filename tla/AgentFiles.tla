----------------------------- MODULE AgentFiles -----------------------------
(***************************************************************************)
(* The agent's half of file operations: the commands of process_fileop and *)
(* the OK that closes a file, in the order in which process_incoming takes *)
(* them.  process_fileop blocks the event loop; only a listing awaits      *)
(* between its entries, and process_incoming with it.                      *)
(*                                                                         *)
(* All sessions open the same path.  A file opened for writing has a       *)
(* buffer of Python's: seek writes it out, write may leave data in it.     *)
(***************************************************************************)
EXTENDS FileLink, Functions

CONSTANT Entries    \* number of entries of the listed directory

ASSUME EntriesAssumption == Entries \in Nat

\* "none" stands for the absence of a token.
ASSUME NoneAssumption == "none" \notin Tokens

VARIABLES
    disk,           \* the file: [exists, data]
    full,           \* nothing more can be written to the disk
    file_queues,    \* token -> the open file: [mode, buffer]
    listing,        \* the DIRLS that process_incoming is in: [token, left]
    outcome         \* what the agent did for a token; "unread" is a listing that is
                    \* answered although the directory could not be read

agentVars == <<disk, full, file_queues, listing, outcome>>

Idle == [token |-> "none", left |-> 0]

NoFile == [exists |-> FALSE, data |-> <<>>]

\* Python's buffer of a file holds at most what was written last: every write
\* begins with a seek.
Buffer == {b \in Seq([offset : Nat, data : Seq(Nat)]) : Len(b) <= 1}

Handle == [mode : {"r", "w"}, buffer : Buffer, closed : BOOLEAN]

AgentTypeOK ==
    /\ disk \in [exists : BOOLEAN, data : Seq(Nat)]
    /\ full \in BOOLEAN
    /\ DOMAIN file_queues \subseteq Tokens
    /\ \A t \in DOMAIN file_queues : file_queues[t] \in Handle
    /\ listing.left \in Nat
    /\ outcome \in [Tokens -> {"none", "done", "unread", "failed"}]

AgentInit ==
    /\ disk = NoFile
    /\ full = FALSE
    /\ file_queues = <<>>
    /\ listing = Idle
    /\ outcome = [t \in Tokens |-> "none"]

\* The file with what is in the buffer of a handle.
Flushed(h) ==
    IF h.buffer = <<>> THEN disk.data
    ELSE LET w == Head(h.buffer) IN WriteAt(disk.data, w.offset, w.data)

\* Can the buffer of a handle be written out?
Flushes(h) == h.buffer = <<>> \/ ~full

-----------------------------------------------------------------------------
\* The command process_incoming takes next.
Command(type) ==
    /\ listing = Idle
    /\ c2a # <<>> /\ Head(c2a).type = type
    /\ c2a' = Tail(c2a)
    /\ UNCHANGED wsUp

Opened(t) == t \in DOMAIN file_queues /\ ~file_queues[t].closed

Reply(m) == AgentSend(m)

\* Mutant of Failed: the exception is only logged.
FailedSilent(t) == UNCHANGED a2c

\* What the except clause of process_fileop does.
Failed(t) == Reply(FileCmd("ERR", t))

\* FILEOPEN: open() may fail for reasons of its own; other modes are refused.
OpenFile ==
    /\ Command("FILEOPEN")
    /\ LET t == Head(c2a).token
           mode == Head(c2a).mode
       IN
       \/ /\ mode = "r" => disk.exists
          /\ mode \in {"r", "w"}
          /\ disk' = IF mode = "w" THEN [exists |-> TRUE, data |-> <<>>] ELSE disk
          /\ file_queues' =
                Put(file_queues, t, [mode |-> mode, buffer |-> <<>>, closed |-> FALSE])
          /\ Reply(FileCmd("CONTINUE", t))
       \/ Failed(t) /\ UNCHANGED <<disk, file_queues>>
    /\ UNCHANGED <<full, listing, outcome>>

\* FILEREAD: a KeyError without an open file.
ReadFile ==
    /\ Command("FILEREAD")
    /\ LET t == Head(c2a).token
           off == Head(c2a).offset
       IN IF Opened(t) THEN Reply(FileData(t, off, ReadAt(disk.data, off, 1)))
                       ELSE Failed(t)
    /\ UNCHANGED agentVars

\* Mutant of WriteFile: no seek, the data goes to the end of what was written.
WriteFileNoSeek ==
    /\ Command("FILEDATA")
    /\ LET t == Head(c2a).token IN
       IF Opened(t) /\ ~full
       THEN LET off == Len(Flushed(file_queues[t])) IN
            /\ disk' = [disk EXCEPT !.data = WriteAt(@, off, Head(c2a).data)]
            /\ UNCHANGED file_queues
            /\ Reply(FileCmd("CONTINUE", t))
       ELSE Failed(t) /\ UNCHANGED <<disk, file_queues>>
    /\ UNCHANGED <<full, listing, outcome>>

\* FILEDATA: seek writes out the buffer, write goes to the buffer or, when it
\* is large, to the disk.
WriteFile ==
    /\ Command("FILEDATA")
    /\ LET t == Head(c2a).token
           w == [offset |-> Head(c2a).offset, data |-> Head(c2a).data]
       IN
       IF Opened(t) /\ Flushes(file_queues[t])
       THEN LET file == Flushed(file_queues[t]) IN
            \/ /\ disk' = [disk EXCEPT !.data = file]
               /\ file_queues' = [file_queues EXCEPT ![t].buffer = <<w>>]
               /\ Reply(FileCmd("CONTINUE", t))
            \/ /\ ~full
               /\ disk' = [disk EXCEPT !.data = WriteAt(file, w.offset, w.data)]
               /\ file_queues' = [file_queues EXCEPT ![t].buffer = <<>>]
               /\ Reply(FileCmd("CONTINUE", t))
            \/ /\ full
               /\ file_queues' = [file_queues EXCEPT ![t].buffer = <<>>]
               /\ disk' = [disk EXCEPT !.data = file]
               /\ Failed(t)
       ELSE Failed(t) /\ UNCHANGED <<disk, file_queues>>
    /\ UNCHANGED <<full, listing, outcome>>

\* FILESTAT: the size on the disk, whatever is in the buffer.
StatFile ==
    /\ Command("FILESTAT")
    /\ LET t == Head(c2a).token IN
       IF Opened(t) THEN Reply(FileEntry(t, Len(disk.data))) ELSE Failed(t)
    /\ UNCHANGED agentVars

\* OK: close writes out the buffer.  When that fails the file is closed, what
\* was in the buffer is gone, and the entry stays.  Without a file OK is
\* ignored: it is also how a session ends that did something else.
CloseFile ==
    /\ Command("OK")
    /\ LET t == Head(c2a).token IN
       IF ~Opened(t) THEN UNCHANGED <<disk, file_queues>>
       ELSE IF Flushes(file_queues[t])
       THEN /\ disk' = [disk EXCEPT !.data = Flushed(file_queues[t])]
            /\ file_queues' = Restrict(file_queues, DOMAIN file_queues \ {t})
       ELSE /\ file_queues' = [file_queues EXCEPT ![t].closed = TRUE]
            /\ UNCHANGED disk
    /\ UNCHANGED <<a2c, full, listing, outcome>>

\* DIRRM, DIRMK, DIRCOPY, DIRMOVE, FILECOPY, FILEMOVE, FILERM of other paths.
Operate ==
    /\ Command("FILEOP")
    /\ LET t == Head(c2a).token IN
       \/ Reply(FileCmd("OK", t)) /\ outcome' = [outcome EXCEPT ![t] = "done"]
       \/ Failed(t) /\ outcome' = [outcome EXCEPT ![t] = "failed"]
    /\ UNCHANGED <<disk, full, file_queues, listing>>

\* DIRLS: an entry at a time, then OK.  os.walk has read the whole directory
\* when it yields.
List ==
    /\ Command("DIRLS")
    /\ listing' = [token |-> Head(c2a).token, left |-> Entries]
    /\ UNCHANGED <<a2c, disk, full, file_queues, outcome>>

\* DIRLS of a directory that is missing or cannot be read to its end: os.walk
\* swallows the error and yields nothing, so the loop is over and OK is sent.
ListUnread ==
    /\ Command("DIRLS")
    /\ LET t == Head(c2a).token IN
       Reply(FileCmd("OK", t)) /\ outcome' = [outcome EXCEPT ![t] = "unread"]
    /\ UNCHANGED <<disk, full, file_queues, listing>>

\* Mutant of ListEntry: an entry that stat fails for is left out.
ListEntrySkip ==
    /\ listing # Idle /\ listing.left > 0
    /\ Reply(FileEntry(listing.token, 0)) \/ UNCHANGED a2c
    /\ listing' = IF wsUp THEN [listing EXCEPT !.left = @ - 1] ELSE Idle
    /\ UNCHANGED <<c2a, wsUp, disk, full, file_queues, outcome>>

\* An entry, of which nothing but its size may be missing.
ListEntry ==
    /\ listing # Idle /\ listing.left > 0
    /\ Reply(FileEntry(listing.token, 0))
    /\ listing' = IF wsUp THEN [listing EXCEPT !.left = @ - 1] ELSE Idle
    /\ UNCHANGED <<c2a, wsUp, disk, full, file_queues, outcome>>

\* An entry that to_bytes raises for, a name that is no text or a time before
\* 1970: the loop ends in the except clause.
ListFail ==
    /\ listing # Idle /\ listing.left > 0
    /\ Failed(listing.token)
    /\ outcome' = [outcome EXCEPT ![listing.token] = "failed"]
    /\ listing' = Idle
    /\ UNCHANGED <<c2a, wsUp, disk, full, file_queues>>

ListEnd ==
    /\ listing # Idle /\ listing.left = 0
    /\ Reply(FileCmd("OK", listing.token))
    /\ outcome' = [outcome EXCEPT ![listing.token] = "done"]
    /\ listing' = Idle
    /\ UNCHANGED <<c2a, wsUp, disk, full, file_queues>>

\* The file system, from some moment on, has no room.
DiskFull ==
    /\ ~full
    /\ full' = TRUE
    /\ UNCHANGED <<linkVars, disk, file_queues, listing, outcome>>

Dispatch ==
    \/ OpenFile \/ ReadFile \/ WriteFile \/ StatFile \/ CloseFile \/ Operate
    \/ List \/ ListUnread \/ ListEntry \/ ListFail \/ ListEnd

AgentNext == Dispatch \/ DiskFull
=============================================================================
