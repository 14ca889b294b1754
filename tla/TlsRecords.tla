----------------------------- MODULE TlsRecords -----------------------------
(***************************************************************************)
(* How WSNETConnection feeds TLS records to its TLS object: the handshake  *)
(* with __ssl_recv_one, then connection_handler_in_ssl, over socket data   *)
(* whose chunks need not end where records end.                            *)
(*                                                                         *)
(* A byte is its position in the stream from the peer; a record has a      *)
(* header of five bytes.  The TLS object is external: it knows how many    *)
(* records its handshake takes and that the last one is a close_notify.    *)
(***************************************************************************)
EXTENDS Integers, Sequences, SequencesExt

CONSTANTS
    Sizes,          \* the lengths of the records, headers included
    Handshake,      \* the number of records of the handshake
    MaxQueue        \* bound on the messages that wait in internal_in_q

ASSUME RecordAssumption ==
    /\ Sizes \in Seq(Nat) /\ \A r \in DOMAIN Sizes : Sizes[r] > 5
    /\ Handshake \in Nat /\ Handshake < Len(Sizes)
    /\ MaxQueue \in Nat

VARIABLES
    pc,             \* where the task is
    buffer,         \* rest, remaining or buffer
    internal_in_q,  \* messages: bytes, or EndItem for OK and ERR
    tls_in_buff,    \* what was written to it
    delivered,      \* number of records whose data was passed to data_received
    arrived,        \* number of bytes the agent has sent
    remote          \* the agent's end: "open" or "ended"

vars == <<pc, buffer, internal_in_q, tls_in_buff, delivered, arrived, remote>>

EndItem == <<>>

\* The positions of the last bytes of records 0, 1, ...
EndOf[r \in 0..Len(Sizes)] == IF r = 0 THEN 0 ELSE EndOf[r - 1] + Sizes[r]

Total == EndOf[Len(Sizes)]

Ends == {EndOf[r] : r \in 0..Len(Sizes)}

\* What the header at the front of a buffer says; garbage has some length.
RecordLen(b) ==
    IF \E r \in DOMAIN Sizes : EndOf[r - 1] + 1 = b[1]
    THEN Sizes[CHOOSE r \in DOMAIN Sizes : EndOf[r - 1] + 1 = b[1]]
    ELSE 6

HasRecord(b) == Len(b) > 5 /\ Len(b) >= RecordLen(b)

FirstRecord(b) == SubSeq(b, 1, RecordLen(b))

AfterRecord(b) == SubSeq(b, RecordLen(b) + 1, Len(b))

\* Number of whole records the TLS object was given.
RecordsFed == Cardinality({r \in DOMAIN Sizes : EndOf[r] <= Len(tls_in_buff)})

PcType == {"handshake", "recv rest", "recv", "handed", "waiting", "feeding",
           "decrypting", "eof", "closed"}

TypeOK ==
    /\ pc \in PcType
    /\ buffer \in Seq(1..Total) /\ tls_in_buff \in Seq(1..Total)
    /\ internal_in_q \in Seq(Seq(1..Total))
    /\ delivered \in 0..Len(Sizes)
    /\ arrived \in 0..Total
    /\ remote \in {"open", "ended"}

Init ==
    /\ pc = "handshake"
    /\ buffer = <<>>
    /\ internal_in_q = <<>>
    /\ tls_in_buff = <<>>
    /\ delivered = 0
    /\ arrived = 0
    /\ remote = "open"

-----------------------------------------------------------------------------
(* The agent: socket data as the socket yields it, and the end.             *)

Arrive ==
    /\ remote = "open" /\ Len(internal_in_q) < MaxQueue
    /\ \E n \in (arrived + 1)..Total :
          /\ arrived' = n
          /\ internal_in_q' = Append(internal_in_q, [i \in 1..(n - arrived) |-> arrived + i])
    /\ UNCHANGED <<pc, buffer, tls_in_buff, delivered, remote>>

AgentEnd ==
    /\ remote = "open" /\ Len(internal_in_q) < MaxQueue
    /\ remote' = "ended"
    /\ internal_in_q' = Append(internal_in_q, EndItem)
    /\ UNCHANGED <<pc, buffer, tls_in_buff, delivered, arrived>>

-----------------------------------------------------------------------------
(* do_handshake.                                                            *)

\* tls_obj.do_handshake wants more: first from what the last call left.
WantRead ==
    /\ pc = "handshake" /\ RecordsFed < Handshake
    /\ pc' = IF buffer # <<>> THEN "recv rest" ELSE "recv"
    /\ UNCHANGED <<buffer, internal_in_q, tls_in_buff, delivered, arrived, remote>>

\* Mutant of HandshakeDone: the reader task starts with nothing.
HandshakeDoneDropsRest ==
    /\ pc = "handshake" /\ RecordsFed = Handshake
    /\ pc' = "handed"
    /\ buffer' = <<>>
    /\ UNCHANGED <<internal_in_q, tls_in_buff, delivered, arrived, remote>>

\* It is over, and what was received beyond it goes to the reader task.
HandshakeDone ==
    /\ pc = "handshake" /\ RecordsFed = Handshake
    /\ pc' = "handed"
    /\ UNCHANGED <<buffer, internal_in_q, tls_in_buff, delivered, arrived, remote>>

\* It fails; do_handshake prints the exception and closes the connection, and
\* connect goes on.
HandshakeFails ==
    /\ pc = "handshake"
    /\ pc' = "closed"
    /\ buffer' = <<>>
    /\ UNCHANGED <<internal_in_q, tls_in_buff, delivered, arrived, remote>>

\* __ssl_recv_one returns one record, or nothing.  For the rest of an earlier
\* call nothing means to try once more, otherwise it fails the handshake.
Return(record, rest) ==
    /\ buffer' = rest
    /\ tls_in_buff' = tls_in_buff \o record
    /\ pc' = IF record # <<>> THEN "handshake"
             ELSE IF pc = "recv rest" THEN "recv" ELSE "closed"

InRecv == pc \in {"recv rest", "recv"}

RecvFromRest ==
    /\ InRecv /\ HasRecord(buffer)
    /\ Return(FirstRecord(buffer), AfterRecord(buffer))
    /\ UNCHANGED <<internal_in_q, delivered, arrived, remote>>

\* It waits until there is more than a header, whatever the header says.
RecvMessage ==
    /\ InRecv /\ ~HasRecord(buffer)
    /\ internal_in_q # <<>>
    /\ internal_in_q' = Tail(internal_in_q)
    /\ LET end == Head(internal_in_q) = EndItem
           b   == buffer \o Head(internal_in_q)
       IN  \/ end /\ Return(<<>>, <<>>)
           \/ ~end /\ HasRecord(b) /\ Return(FirstRecord(b), AfterRecord(b))
           \/ ~end /\ ~HasRecord(b) /\ Len(b) > 5 /\ Return(<<>>, b)
           \/ ~end /\ Len(b) <= 5 /\ buffer' = b /\ UNCHANGED <<pc, tls_in_buff>>
    /\ UNCHANGED <<delivered, arrived, remote>>

-----------------------------------------------------------------------------
(* connection_handler_in_ssl.                                               *)

\* The next message.  What the handshake left is not looked at before it.
GetMessage ==
    /\ pc \in {"handed", "waiting"} /\ internal_in_q # <<>>
    /\ internal_in_q' = Tail(internal_in_q)
    /\ buffer' = buffer \o Head(internal_in_q)
    /\ pc' = IF Head(internal_in_q) = EndItem THEN "closed"
             ELSE IF Len(buffer') < 5 THEN "waiting" ELSE "feeding"
    /\ UNCHANGED <<tls_in_buff, delivered, arrived, remote>>

\* Mutant of Feed: if instead of while.
FeedOne ==
    /\ pc = "feeding" /\ HasRecord(buffer)
    /\ tls_in_buff' = tls_in_buff \o FirstRecord(buffer)
    /\ buffer' = AfterRecord(buffer)
    /\ pc' = "decrypting"
    /\ UNCHANGED <<internal_in_q, delivered, arrived, remote>>

\* A turn of the loop over records.  With a part of a record at the front the
\* code goes round without a change, for ever: no action is enabled.
Feed ==
    /\ pc = "feeding" /\ HasRecord(buffer)
    /\ tls_in_buff' = tls_in_buff \o FirstRecord(buffer)
    /\ buffer' = AfterRecord(buffer)
    /\ UNCHANGED <<pc, internal_in_q, delivered, arrived, remote>>

FeedEnd ==
    /\ pc = "feeding" /\ Len(buffer) <= 5
    /\ pc' = "decrypting"
    /\ UNCHANGED <<buffer, internal_in_q, tls_in_buff, delivered, arrived, remote>>

\* tls_obj.read until it wants more.  After a close_notify it never does: it
\* returns b'' for ever.
Decrypt ==
    /\ pc = "decrypting"
    /\ delivered' = RecordsFed - Handshake
    /\ pc' = IF RecordsFed = Len(Sizes) THEN "eof" ELSE "waiting"
    /\ UNCHANGED <<buffer, internal_in_q, tls_in_buff, arrived, remote>>

Next ==
    \/ Arrive \/ AgentEnd
    \/ WantRead \/ HandshakeDone \/ HandshakeFails \/ RecvFromRest \/ RecvMessage
    \/ GetMessage \/ Feed \/ FeedEnd \/ Decrypt

Spec == Init /\ [][Next]_vars

-----------------------------------------------------------------------------
(* Safety.                                                                  *)

UpTo(n) == [i \in 1..n |-> i]

\* However the stream is cut into messages, the TLS object is given whole
\* records, in order; and the bytes that were taken beyond them, also those
\* that came with the end of the handshake, are kept until their turn.
RecordsWhole ==
    /\ Len(tls_in_buff) \in Ends
    /\ tls_in_buff = UpTo(Len(tls_in_buff))
    /\ pc # "closed" /\ remote = "open" =>
          tls_in_buff \o buffer \o FlattenSeq(internal_in_q) = UpTo(arrived)

\* When the reader task waits for another message it has passed on all it
\* could: every whole record was fed and its data delivered, unless it is the
\* first message since the handshake it waits for.
NothingHeldBack ==
    pc = "waiting" => /\ ~HasRecord(buffer)
                      /\ Handshake + delivered = RecordsFed

\* A comment in __ssl_recv_one says "used to recieve exactly one TLS record".
ExactlyOneRecord ==
    [][InRecv /\ pc' # pc => \/ tls_in_buff' # tls_in_buff
                             \/ Head(internal_in_q) = EndItem]_vars
=============================================================================
