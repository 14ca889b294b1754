---------------------------- MODULE BrowserFiles ----------------------------
(***************************************************************************)
(* The browser's half of file operations: WSNETFile and the operations of  *)
(* WSNETFileOps, each with a WSNETSession of its own.  A call sends a      *)
(* command and takes messages of its session until the one it waits for or *)
(* an ERR; others are skipped.  Each wait lasts at most 5 seconds.         *)
(*                                                                         *)
(* The application makes one call at a time on a session and opens the     *)
(* file for writing only when it has it open nowhere else, and for reading *)
(* only when it does not have it open for writing.                         *)
(***************************************************************************)
EXTENDS FileLink, Functions

CONSTANTS
    MaxCalls,       \* bound on the calls of the application
    MaxTimeouts,    \* bound on the waits that time out
    MaxSize         \* bound on offsets

ASSUME BoundsAssumption == {MaxCalls, MaxTimeouts, MaxSize} \subseteq Nat

VARIABLES
    sess,       \* token -> the WSNETFile or the operation
    told,       \* offset -> what the application knows to be there: chunks whose
                \* write was acknowledged to a handle none of whose calls timed out
    calls,      \* number of calls made
    timeouts    \* number of waits that timed out

browserVars == <<sess, told, calls, timeouts>>

\* What a session waits for, by the call it is in.
Wanted == [opening |-> "CONTINUE", sizing |-> "FILEENTRY", stating |-> "FILEENTRY",
           reading |-> "FILEDATA", writing |-> "CONTINUE",
           operating |-> "OK", listing |-> "OK"]

Waiting(t) == sess[t].st \in DOMAIN Wanted

OpenStates == {"opening", "sizing", "stating", "reading", "writing", "open"}

Session == [st : DOMAIN Wanted \cup {"new", "open", "closed", "done", "listed", "failed"},
            mode : {"", "r", "w"}, offset : Nat, size : Nat,
            left : Nat, from : Nat, data : Seq(Nat), clean : BOOLEAN]

BrowserTypeOK ==
    /\ sess \in [Tokens -> Session]
    /\ DOMAIN told \subseteq Nat /\ \A o \in DOMAIN told : told[o] \in Nat
    /\ {calls, timeouts} \subseteq Nat

BrowserInit ==
    /\ sess = [t \in Tokens |-> [st |-> "new", mode |-> "", offset |-> 0, size |-> 0,
                                 left |-> 0, from |-> 0, data |-> <<>>, clean |-> TRUE]]
    /\ told = <<>>
    /\ calls = 0
    /\ timeouts = 0

Forget(offsets) == Restrict(told, DOMAIN told \ offsets)

-----------------------------------------------------------------------------
(* Calls.                                                                   *)

Call(t, st) ==
    /\ calls < MaxCalls
    /\ calls' = calls + 1
    /\ sess[t].st = st
    /\ UNCHANGED <<a2c, wsUp, timeouts>>

\* The sessions with the file open in one of the modes.
OpenFor(modes) == {t \in Tokens : sess[t].mode \in modes /\ sess[t].st \in OpenStates}

\* WSNETFile.open; setup fails when the WebSocket does not connect in time.
Open(t, mode) ==
    /\ Call(t, "new")
    /\ OpenFor(IF mode = "w" THEN {"r", "w"} ELSE {"w"}) = {}
    /\ \/ /\ wsUp
          /\ sess' = [sess EXCEPT ![t].st = "opening", ![t].mode = mode]
          /\ BrowserSend(FileOpen(t, mode))
          /\ told' = IF mode = "w" THEN <<>> ELSE told
       \/ /\ ~wsUp
          /\ sess' = [sess EXCEPT ![t].st = "failed"]
          /\ UNCHANGED <<c2a, told>>

Stat(t) ==
    /\ Call(t, "open")
    /\ sess' = [sess EXCEPT ![t].st = "stating"]
    /\ BrowserSend(FileCmd("FILESTAT", t))
    /\ UNCHANGED told

Seek(t) ==
    /\ Call(t, "open")
    /\ \E off \in 0..MaxSize : sess' = [sess EXCEPT ![t].offset = off]
    /\ UNCHANGED <<c2a, told>>

\* read(n): what is left of the file at most; at its end nothing is sent.
Read(t) ==
    /\ Call(t, "open")
    /\ sess[t].mode = "r" /\ sess[t].offset < sess[t].size
    /\ \E n \in 1..(sess[t].size - sess[t].offset) :
          sess' = [sess EXCEPT ![t].st = "reading", ![t].left = n,
                               ![t].from = sess[t].offset, ![t].data = <<>>]
    /\ BrowserSend(FileRead(t, sess[t].offset))
    /\ UNCHANGED told

\* The next chunk of the data that is being written.
WriteChunk(t, s) ==
    BrowserSend(FileData(t, s.offset, <<Head(s.data)>>))

Write(t) ==
    /\ Call(t, "open")
    /\ sess[t].mode = "w"
    /\ \E n \in 1..2 :
          /\ sess[t].offset + n <= MaxSize
          /\ sess' = [sess EXCEPT ![t].st = "writing",
                                  ![t].data = [i \in 1..n |-> 2 * calls + i]]
    /\ WriteChunk(t, sess'[t])
    /\ told' = Forget({sess[t].offset})

\* close() sends OK and looks at nothing.
Close(t) ==
    /\ Call(t, "open")
    /\ sess' = [sess EXCEPT ![t].st = "closed"]
    /\ BrowserSend(FileCmd("OK", t))
    /\ UNCHANGED told

\* An operation on other paths, and ls or walk.
Operation(t, st, type) ==
    /\ Call(t, "new")
    /\ wsUp
    /\ sess' = [sess EXCEPT ![t].st = st]
    /\ BrowserSend(FileCmd(type, t))
    /\ UNCHANGED told

-----------------------------------------------------------------------------
(* Answers.                                                                 *)

\* The index of the next message of session t, 0 if there is none.
NextFor(t) == SelectInSeq(a2c, LAMBDA m : m.token = t)

Answer(t) == a2c[NextFor(t)]

Received(t) ==
    /\ Waiting(t)
    /\ NextFor(t) > 0
    /\ a2c' = RemoveAt(a2c, NextFor(t))
    /\ UNCHANGED <<wsUp, calls, timeouts>>

Answered(t, st) ==
    /\ Received(t)
    /\ sess[t].st = st
    /\ Answer(t).type = Wanted[st]

\* A file opened for reading is measured first.
OpenAnswered(t) ==
    /\ Answered(t, "opening")
    /\ IF sess[t].mode = "r"
       THEN /\ sess' = [sess EXCEPT ![t].st = "sizing"]
            /\ BrowserSend(FileCmd("FILESTAT", t))
       ELSE /\ sess' = [sess EXCEPT ![t].st = "open"]
            /\ UNCHANGED c2a
    /\ UNCHANGED told

StatAnswered(t) ==
    /\ \E st \in {"sizing", "stating"} : Answered(t, st)
    /\ sess' = [sess EXCEPT ![t].st = "open", ![t].size = Answer(t).size]
    /\ UNCHANGED <<c2a, told>>

\* Mutant of ReadAnswered: the offset stays.
ReadAnsweredInPlace(t) ==
    /\ Answered(t, "reading")
    /\ LET s == [sess[t] EXCEPT !.left = @ - 1, !.data = @ \o Answer(t).data]
       IN IF s.left = 0
          THEN /\ sess' = [sess EXCEPT ![t] = [s EXCEPT !.st = "open"]]
               /\ UNCHANGED c2a
          ELSE /\ sess' = [sess EXCEPT ![t] = s]
               /\ BrowserSend(FileRead(t, s.offset))
    /\ UNCHANGED told

\* No data is the end of the file, an error.  Nothing compares the offset of
\* the reply with the one that was asked for.
ReadAnswered(t) ==
    /\ Answered(t, "reading")
    /\ LET data == Answer(t).data
           s == [sess[t] EXCEPT !.offset = @ + Len(data), !.left = @ - Len(data),
                                !.data = @ \o data]
       IN IF data = <<>> \/ s.left = 0
          THEN /\ sess' = [sess EXCEPT ![t] = [s EXCEPT !.st = "open", !.left = 0]]
               /\ UNCHANGED c2a
          ELSE /\ sess' = [sess EXCEPT ![t] = s]
               /\ BrowserSend(FileRead(t, s.offset))
    /\ UNCHANGED told

WriteAnswered(t) ==
    /\ Answered(t, "writing")
    /\ LET off == sess[t].offset
           s == [sess[t] EXCEPT !.offset = @ + 1, !.data = Tail(@)]
           known == IF sess[t].clean THEN Put(told, off, Head(sess[t].data)) ELSE told
       IN IF s.data = <<>>
          THEN /\ sess' = [sess EXCEPT ![t] = [s EXCEPT !.st = "open"]]
               /\ told' = known
               /\ UNCHANGED c2a
          ELSE /\ sess' = [sess EXCEPT ![t] = s]
               /\ told' = Restrict(known, DOMAIN known \ {off + 1})
               /\ WriteChunk(t, s)

\* __aexit__ of the session sends OK, however the operation ended.
OperationAnswered(t) ==
    /\ \E st \in {"operating", "listing"} : Answered(t, st)
    /\ sess' = [sess EXCEPT ![t].st = IF @ = "listing" THEN "listed" ELSE "done"]
    /\ BrowserSend(FileCmd("OK", t))
    /\ UNCHANGED told

ListEntryAnswered(t) ==
    /\ Received(t)
    /\ sess[t].st = "listing" /\ Answer(t).type = "FILEENTRY"
    /\ sess' = [sess EXCEPT ![t].left = @ + 1]
    /\ UNCHANGED <<c2a, told>>

\* The call raises, or in write prints, the exception.  An open file stays
\* open: a read drops what it has got so far, though the offset has moved.
Raise(t, clean) ==
    LET st == sess[t].st
        s == [sess[t] EXCEPT !.left = 0, !.data = <<>>, !.clean = clean]
    IN /\ sess' = [sess EXCEPT ![t] = [s EXCEPT !.st =
                       IF st \in {"stating", "reading", "writing"} THEN "open" ELSE "failed"]]
       /\ IF st \in {"operating", "listing"}
          THEN BrowserSend(FileCmd("OK", t)) ELSE UNCHANGED c2a

Refused(t) ==
    /\ Received(t)
    /\ Answer(t).type = "ERR"
    /\ Raise(t, sess[t].clean)
    /\ UNCHANGED told

\* The loops skip every other message.
Skip(t) ==
    /\ Received(t)
    /\ Answer(t).type \notin {"ERR", Wanted[sess[t].st]}
    /\ ~(sess[t].st = "listing" /\ Answer(t).type = "FILEENTRY")
    /\ UNCHANGED <<c2a, sess, told>>

\* wait_for ends after 5 seconds, whatever is on its way.
Timeout(t) ==
    /\ Waiting(t)
    /\ timeouts < MaxTimeouts
    /\ timeouts' = timeouts + 1
    /\ Raise(t, FALSE)
    /\ UNCHANGED <<a2c, wsUp, told, calls>>

Answers(t) ==
    \/ OpenAnswered(t) \/ StatAnswered(t) \/ ReadAnswered(t) \/ WriteAnswered(t)
    \/ OperationAnswered(t) \/ ListEntryAnswered(t) \/ Refused(t) \/ Skip(t)

Calls(t) ==
    \/ \E mode \in {"r", "w"} : Open(t, mode)
    \/ Stat(t) \/ Seek(t) \/ Read(t) \/ Write(t) \/ Close(t)
    \/ Operation(t, "operating", "FILEOP") \/ Operation(t, "listing", "DIRLS")

BrowserNext == \E t \in Tokens : Answers(t) \/ Calls(t) \/ Timeout(t)
=============================================================================
