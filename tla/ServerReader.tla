---------------------------- MODULE ServerReader ----------------------------
(***************************************************************************)
(* WSNetworkServerTCPReader: the reader of one connection of a TCP server, *)
(* used by several tasks of the application at once.  A byte is its        *)
(* position in the stream of the connection.  BrowserServer fills the      *)
(* queue; here any cut of the stream into messages may arrive, an empty    *)
(* message (the peer's end of file) and the error that terminate puts.     *)
(***************************************************************************)
EXTENDS Integers, Sequences, SequencesExt

CONSTANTS
    Readers,        \* the tasks of the application
    Separators,     \* the positions of the bytes readuntil looks for
    MaxBytes,       \* bound on the bytes that arrive
    MaxCalls        \* bound on the calls

ASSUME ReaderBounds == MaxBytes \in Nat /\ MaxCalls \in Nat
ASSUME ReadersAreNamed == "none" \notin Readers

VARIABLES
    in_queue,       \* messages: their data and whether they are the error
    buffer,         \* bytes taken from in_queue and not yet returned
    closed_event,   \* that event
    lock,           \* the holder of bufferlock, "none" when it is free
    waiters,        \* those who wait for it, in order
    call,           \* reader -> its call, Idle when it is in none
    arrived,        \* number of bytes that arrived
    ended,          \* the empty message has arrived
    calls,          \* number of calls
    returned,       \* the bytes returned, in the order in which calls returned
    latest          \* the last call that returned bytes

vars == <<in_queue, buffer, closed_event, lock, waiters, call, arrived, ended,
          calls, returned, latest>>
historyVars == <<arrived, ended, calls, returned, latest>>

Idle == [kind |-> "idle", n |-> 0, id |-> 0, tried |-> FALSE]

Kinds == {"read", "readexactly", "readuntil"}

CallType == [kind : Kinds \cup {"idle"}, n : Nat, id : Nat, tried : BOOLEAN]

MessageType == [data : Seq(1..MaxBytes), error : BOOLEAN]

TypeOK ==
    /\ in_queue \in Seq(MessageType)
    /\ buffer \in Seq(1..MaxBytes) /\ returned \in Seq(1..MaxBytes)
    /\ closed_event \in BOOLEAN /\ ended \in BOOLEAN
    /\ lock \in Readers \cup {"none"}
    /\ waiters \in Seq(Readers)
    /\ call \in [Readers -> CallType]
    /\ arrived \in Nat /\ calls \in Nat /\ latest \in Nat

Init ==
    /\ in_queue = <<>> /\ buffer = <<>>
    /\ closed_event = FALSE
    /\ lock = "none" /\ waiters = <<>>
    /\ call = [r \in Readers |-> Idle]
    /\ arrived = 0 /\ ended = FALSE /\ calls = 0
    /\ returned = <<>> /\ latest = 0

-----------------------------------------------------------------------------
(* What the server puts in the queue.                                       *)

Put(data, error) == in_queue' = Append(in_queue, [data |-> data, error |-> error])

DataArrives ==
    /\ ~ended
    /\ \E n \in (arrived + 1)..MaxBytes :
          /\ arrived' = n
          /\ Put([i \in 1..(n - arrived) |-> arrived + i], FALSE)
    /\ UNCHANGED <<buffer, closed_event, lock, waiters, call, ended, calls, returned, latest>>

PeerEnds ==
    /\ ~ended
    /\ ended' = TRUE
    /\ Put(<<>>, FALSE)
    /\ UNCHANGED <<buffer, closed_event, lock, waiters, call, arrived, calls, returned, latest>>

ServerCloses ==
    /\ \A i \in DOMAIN in_queue : ~in_queue[i].error
    /\ ~closed_event
    /\ Put(<<>>, TRUE)
    /\ UNCHANGED <<buffer, closed_event, lock, waiters, call, historyVars>>

\* close() of the connection's writer.
WriterCloses ==
    /\ ~closed_event
    /\ closed_event' = TRUE
    /\ UNCHANGED <<in_queue, buffer, lock, waiters, call, historyVars>>

-----------------------------------------------------------------------------
(* The calls.                                                               *)

\* bufferlock is given to the one that waits longest.
Release == /\ lock' = IF waiters = <<>> THEN "none" ELSE Head(waiters)
           /\ waiters' = IF waiters = <<>> THEN <<>> ELSE Tail(waiters)

\* A newcomer waits behind the others.
Acquire(r) ==
    /\ lock' = IF lock = "none" THEN r ELSE lock
    /\ waiters' = IF lock = "none" THEN waiters ELSE Append(waiters, r)

\* n is 0 for read(-1).  On a closed connection the call returns b'' or raises.
Call(r, kind, n) ==
    /\ call[r] = Idle /\ calls < MaxCalls
    /\ calls' = calls + 1
    /\ IF closed_event
       THEN UNCHANGED <<call, lock, waiters>>
       ELSE /\ call' = [call EXCEPT ![r] = [kind |-> kind, n |-> n, id |-> calls', tried |-> FALSE]]
            /\ Acquire(r)
    /\ UNCHANGED <<in_queue, buffer, closed_event, arrived, ended, returned, latest>>

\* readexactly(0) is an error, and closes the connection.
CallBad(r) ==
    /\ call[r] = Idle /\ calls < MaxCalls
    /\ calls' = calls + 1
    /\ closed_event' = TRUE
    /\ UNCHANGED <<in_queue, buffer, lock, waiters, call, arrived, ended, returned, latest>>

\* The call has what it needs: for read() one message, be it empty.
Enough(c) ==
    CASE c.kind = "read"        -> buffer # <<>> \/ c.tried
      [] c.kind = "readexactly" -> Len(buffer) >= c.n
      [] c.kind = "readuntil"   -> ToSet(buffer) \cap Separators # {}
      [] OTHER                  -> FALSE

\* What it takes from the buffer.
Length(c) ==
    CASE c.kind = "readexactly" -> c.n
      [] c.kind = "readuntil"   -> SelectInSeq(buffer, LAMBDA b : b \in Separators)
      [] OTHER                  -> IF c.n \in 1..Len(buffer) THEN c.n ELSE Len(buffer)

Return(r) ==
    /\ lock = r /\ Enough(call[r])
    /\ LET n == Length(call[r]) IN
       /\ returned' = returned \o SubSeq(buffer, 1, n)
       /\ buffer' = SubSeq(buffer, n + 1, Len(buffer))
       /\ latest' = IF n > 0 THEN call[r].id ELSE latest
    /\ call' = [call EXCEPT ![r] = Idle]
    /\ Release
    /\ UNCHANGED <<in_queue, closed_event, arrived, ended, calls>>

\* Mutant of ReadOne: the error does not reach the caller.
ReadOneNoRaise(r) ==
    /\ lock = r /\ ~Enough(call[r])
    /\ in_queue # <<>>
    /\ in_queue' = Tail(in_queue)
    /\ closed_event' = (closed_event \/ Head(in_queue).error)
    /\ buffer' = buffer \o Head(in_queue).data
    /\ call' = [call EXCEPT ![r].tried = ~Head(in_queue).error]
    /\ UNCHANGED <<lock, waiters, historyVars>>

\* __read_one: the next message goes to the buffer.  The error comes without a
\* command, whose length __read_one then takes: that raises, too, and either
\* way the event is set and the caller gets an exception.
ReadOne(r) ==
    /\ lock = r /\ ~Enough(call[r])
    /\ in_queue # <<>>
    /\ in_queue' = Tail(in_queue)
    /\ IF Head(in_queue).error
       THEN /\ closed_event' = TRUE
            /\ call' = [call EXCEPT ![r] = Idle]
            /\ Release
            /\ UNCHANGED buffer
       ELSE /\ buffer' = buffer \o Head(in_queue).data
            /\ call' = [call EXCEPT ![r].tried = TRUE]
            /\ UNCHANGED <<closed_event, lock, waiters>>
    /\ UNCHANGED historyVars

\* Mutant of Cancel: what the call has taken goes with it.
CancelDrops(r) ==
    /\ call[r] # Idle
    /\ call' = [call EXCEPT ![r] = Idle]
    /\ IF lock = r THEN Release /\ buffer' = <<>>
       ELSE /\ waiters' = RemoveFirst(waiters, r)
            /\ UNCHANGED <<lock, buffer>>
    /\ UNCHANGED <<in_queue, closed_event, historyVars>>

\* The application cancels the call, with a timeout say: async with gives
\* bufferlock back, except Exception does not catch the cancellation, and the
\* bytes taken stay in buffer.
Cancel(r) ==
    /\ call[r] # Idle
    /\ call' = [call EXCEPT ![r] = Idle]
    /\ IF lock = r THEN Release
       ELSE /\ waiters' = RemoveFirst(waiters, r)
            /\ UNCHANGED lock
    /\ UNCHANGED <<in_queue, buffer, closed_event, historyVars>>

Step(r) == Return(r) \/ ReadOne(r)

Next ==
    \/ DataArrives \/ PeerEnds \/ ServerCloses \/ WriterCloses
    \/ \E r \in Readers :
          \/ \E n \in 0..2 : Call(r, "read", n)
          \/ \E n \in 1..2 : Call(r, "readexactly", n)
          \/ Call(r, "readuntil", 1)
          \/ CallBad(r) \/ Step(r) \/ Cancel(r)

Spec == Init /\ [][Next]_vars

\* The event loop runs a task whose await is over.
FairSpec == Spec /\ \A r \in Readers : WF_vars(Step(r))

-----------------------------------------------------------------------------
\* Whatever calls are made, by how many tasks and whichever of them are
\* cancelled while they wait, no byte is lost or returned twice or out of
\* order, and no call gets bytes ahead of one that was made before it.
BytesInOrder ==
    /\ returned \o buffer \o FlattenSeq([i \in DOMAIN in_queue |-> in_queue[i].data])
           = [i \in 1..arrived |-> i]
    /\ \A r \in Readers : call[r] # Idle => call[r].id > latest

\* The call whose turn it is comes back when the connection ends: with the
\* error of the server that closes, or with what was in the queue before it.
\* read() comes back with the peer's end of file, too, if no earlier call has
\* taken it from the queue; the other calls do not notice it.
EndEndsCall ==
    \A r \in Readers :
        /\ lock = r /\ (\E i \in DOMAIN in_queue : in_queue[i].error) ~> lock # r
        /\ lock = r /\ call[r].kind = "read" /\ in_queue # <<>> ~> lock # r
=============================================================================
