------------------------- MODULE ServerReaderProofs -------------------------
(***************************************************************************)
(* Proofs about ServerReader for every set of readers, any separators and  *)
(* all bounds.                                                             *)
(***************************************************************************)
EXTENDS ServerReader, StreamLemmas, SequenceTheorems

(***************************************************************************)
(* The inductive invariant.  Queue: who is in a call holds bufferlock or   *)
(* waits for it, and they stand in line in the order of their calls, all   *)
(* of which are younger than the last that returned bytes.  Bytes: what    *)
(* was returned and what is in the buffer is the stream up to some         *)
(* position, from which the messages of the queue continue it.             *)
(***************************************************************************)
Waits(r) == \E i \in DOMAIN waiters : waiters[i] = r

Queue ==
    /\ lock = "none" => waiters = <<>>
    /\ \A r \in Readers : call[r] # Idle <=> (r = lock \/ Waits(r))
    /\ ~Waits(lock)
    /\ \A i, j \in DOMAIN waiters :
          i < j => call[waiters[i]].id < call[waiters[j]].id
    /\ \A i \in DOMAIN waiters : call[lock].id < call[waiters[i]].id
    /\ latest <= calls
    /\ \A r \in Readers : call[r].id <= calls
    /\ \A r \in Readers : call[r] # Idle => call[r].id > latest

Messages == [i \in DOMAIN in_queue |-> in_queue[i].data]

Bytes ==
    \E k \in 0..arrived : /\ returned \o buffer = Piece(0, k)
                          /\ Holds(Messages, k, arrived)

ErrorsAreEmpty == \A i \in DOMAIN in_queue : in_queue[i].error => in_queue[i].data = <<>>

Inv == TypeOK /\ Queue /\ ErrorsAreEmpty /\ Bytes

-----------------------------------------------------------------------------
(* Type correctness.                                                        *)

LEMMA InitType == Init => TypeOK
  <1> SUFFICES ASSUME Init PROVE TypeOK
      OBVIOUS
  <1>1. call \in [Readers -> CallType]
      BY DEF Init, Idle, CallType
  <1>2. in_queue \in Seq(MessageType)
      BY DEF Init
  <1>3. buffer \in Seq(1..MaxBytes) /\ returned \in Seq(1..MaxBytes)
      BY DEF Init
  <1>4. waiters \in Seq(Readers)
      BY DEF Init
  <1> QED BY <1>1, <1>2, <1>3, <1>4 DEF Init, TypeOK

LEMMA IdleType == Idle \in CallType
  BY DEF Idle, CallType

LEMMA PutType ==
    ASSUME TypeOK, NEW data \in Seq(1..MaxBytes), NEW error \in BOOLEAN,
           Put(data, error)
    PROVE  in_queue' \in Seq(MessageType)
  BY DEF TypeOK, Put, MessageType

LEMMA LockType ==
    ASSUME TypeOK, NEW r \in Readers
    PROVE  Release \/ Acquire(r) => lock' \in Readers \cup {"none"} /\ waiters' \in Seq(Readers)
  <1>1. waiters # <<>> => Head(waiters) \in Readers /\ Tail(waiters) \in Seq(Readers)
      BY Shift DEF TypeOK
  <1>2. Append(waiters, r) \in Seq(Readers) /\ <<>> \in Seq(Readers)
      BY DEF TypeOK
  <1> QED BY <1>1, <1>2 DEF TypeOK, Release, Acquire

\* What a call that has enough takes is there.
LEMMA LengthFits ==
    ASSUME TypeOK, NEW c \in CallType, Enough(c)
    PROVE  Length(c) \in 0..Len(buffer)
  <1>1. Len(buffer) \in Nat
      BY DEF TypeOK
  <1>2. CASE c.kind = "readexactly"
      BY <1>1, <1>2 DEF Enough, Length, CallType
  <1>3. CASE c.kind = "readuntil"
      <2> DEFINE I == {i \in 1..Len(buffer) : buffer[i] \in Separators}
      <2>1. ToSet(buffer) \cap Separators # {}
          BY <1>3 DEF Enough
      <2>a. I # {} /\ I \in SUBSET Nat
          <3>1. PICK b \in ToSet(buffer) : b \in Separators
              BY <2>1
          <3>2. DOMAIN buffer = 1..Len(buffer)
              BY DEF TypeOK
          <3> QED BY <1>1, <3>1, <3>2 DEF ToSet
      <2>2. \E x \in I : \A y \in I : x =< y
          BY <2>a, LeastNumber
      <2>3. Min(I) \in I
          BY <2>2 DEF Min
      <2>4. SelectInSeq(buffer, LAMBDA b : b \in Separators) = Min(I)
          BY <2>a DEF SelectInSeq
      <2>5. Length(c) = Min(I)
          BY <1>3, <2>4 DEF Length
      <2> QED BY <1>1, <2>3, <2>5
  <1>4. CASE c.kind = "read"
      BY <1>1, <1>4 DEF Length, CallType
  <1> QED BY <1>2, <1>3, <1>4 DEF Enough, CallType, Kinds

LEMMA TypeStep == TypeOK /\ [Next]_vars => TypeOK'
  <1> SUFFICES ASSUME TypeOK, [Next]_vars PROVE TypeOK'
      OBVIOUS
  <1> USE ReaderBounds
  <1>1. CASE DataArrives
      <2>1. PICK n \in (arrived + 1)..MaxBytes :
               /\ arrived' = n
               /\ Put([i \in 1..(n - arrived) |-> arrived + i], FALSE)
          BY <1>1 DEF DataArrives
      <2>2. [i \in 1..(n - arrived) |-> arrived + i] \in Seq(1..MaxBytes)
          BY DEF TypeOK
      <2>3. in_queue' \in Seq(MessageType)
          BY <2>1, <2>2, PutType
      <2> QED BY <1>1, <2>1, <2>3 DEF DataArrives, TypeOK
  <1>2. CASE PeerEnds \/ ServerCloses
      <2>1. in_queue' \in Seq(MessageType)
          <3>1. <<>> \in Seq(1..MaxBytes)
              OBVIOUS
          <3> QED BY <1>2, <3>1, PutType DEF PeerEnds, ServerCloses
      <2> QED BY <1>2, <2>1 DEF PeerEnds, ServerCloses, TypeOK, historyVars
  <1>3. CASE WriterCloses
      BY <1>3 DEF WriterCloses, TypeOK, historyVars
  <1>4. ASSUME NEW r \in Readers, NEW kind \in Kinds, NEW n \in Nat, Call(r, kind, n)
        PROVE  TypeOK'
      <2>1. calls' \in Nat
          BY <1>4 DEF Call, TypeOK
      <2>2. [kind |-> kind, n |-> n, id |-> calls', tried |-> FALSE] \in CallType
          BY <2>1 DEF CallType
      <2>3. call' \in [Readers -> CallType]
          BY <1>4, <2>2 DEF Call, TypeOK
      <2>4. lock' \in Readers \cup {"none"} /\ waiters' \in Seq(Readers)
          BY <1>4, LockType DEF Call, TypeOK
      <2> QED BY <1>4, <2>1, <2>3, <2>4 DEF Call, TypeOK
  <1>5. ASSUME NEW r \in Readers, CallBad(r)
        PROVE  TypeOK'
      BY <1>5 DEF CallBad, TypeOK
  <1>6. ASSUME NEW r \in Readers, Return(r)
        PROVE  TypeOK'
      <2>1. call[r] \in CallType /\ Length(call[r]) \in 0..Len(buffer)
          BY <1>6, LengthFits DEF Return, TypeOK
      <2>2. buffer' \in Seq(1..MaxBytes) /\ returned' \in Seq(1..MaxBytes)
          <3>1. /\ SubSeq(buffer, 1, Length(call[r])) \in Seq(1..MaxBytes)
                /\ SubSeq(buffer, Length(call[r]) + 1, Len(buffer)) \in Seq(1..MaxBytes)
              <4>1. buffer \in Seq(1..MaxBytes)
                  BY DEF TypeOK
              <4> HIDE DEF TypeOK
              <4> QED BY <2>1, <4>1, CutFacts
          <3> QED BY <1>6, <3>1 DEF Return, TypeOK
      <2>3. latest' \in Nat
          BY <1>6, <2>1 DEF Return, TypeOK, CallType
      <2>4. lock' \in Readers \cup {"none"} /\ waiters' \in Seq(Readers)
          BY <1>6, LockType DEF Return
      <2>5. call' \in [Readers -> CallType]
          BY <1>6, IdleType DEF Return, TypeOK
      <2> QED BY <1>6, <2>2, <2>3, <2>4, <2>5 DEF Return, TypeOK
  <1>7. ASSUME NEW r \in Readers, ReadOne(r)
        PROVE  TypeOK'
      <2>1. /\ Head(in_queue) \in MessageType
            /\ in_queue' \in Seq(MessageType)
          BY <1>7, Shift DEF ReadOne, TypeOK
      <2>2. buffer \o Head(in_queue).data \in Seq(1..MaxBytes)
          BY <2>1 DEF TypeOK, MessageType
      <2>3. lock' \in Readers \cup {"none"} /\ waiters' \in Seq(Readers)
          BY <1>7, LockType DEF ReadOne, TypeOK
      <2>4. call' \in [Readers -> CallType]
          <3>1. [call[r] EXCEPT !.tried = TRUE] \in CallType
              BY DEF TypeOK, CallType
          <3> QED BY <1>7, <3>1, IdleType DEF ReadOne, TypeOK
      <2> QED BY <1>7, <2>1, <2>2, <2>3, <2>4 DEF ReadOne, TypeOK, historyVars
  <1>8. ASSUME NEW r \in Readers, Cancel(r)
        PROVE  TypeOK'
      <2>1. RemoveFirst(waiters, r) \in Seq(Readers)
          <3>1. CASE \E i \in DOMAIN waiters : waiters[i] = r
              BY <3>1, RemoveFirstFacts DEF TypeOK, Without
          <3>2. CASE ~\E i \in DOMAIN waiters : waiters[i] = r
              <4>1. DOMAIN waiters = 1..Len(waiters)
                  BY DEF TypeOK
              <4> QED BY <3>2, <4>1 DEF RemoveFirst, TypeOK
          <3> QED BY <3>1, <3>2
      <2>2. lock' \in Readers \cup {"none"} /\ waiters' \in Seq(Readers)
          BY <1>8, <2>1, LockType DEF Cancel, TypeOK
      <2> QED BY <1>8, <2>2, IdleType DEF Cancel, TypeOK, historyVars
  <1>9. CASE UNCHANGED vars
      BY <1>9 DEF vars, TypeOK
  <1> QED BY <1>1, <1>2, <1>3, <1>4, <1>5, <1>6, <1>7, <1>8, <1>9
          DEF Next, Step, Kinds

-----------------------------------------------------------------------------
(* The line in front of bufferlock.                                         *)

LEMMA CallFacts ==
    TypeOK => /\ waiters \in Seq(Readers) /\ Len(waiters) \in Nat
              /\ DOMAIN waiters = 1..Len(waiters)
              /\ \A i \in DOMAIN waiters : waiters[i] \in Readers
              /\ \A r \in Readers : call[r].id \in Nat
              /\ calls \in Nat /\ latest \in Nat
  BY DEF TypeOK, CallType

\* The call at the head of the line ends.
LEMMA LeaveFront ==
    ASSUME TypeOK, Queue, NEW r \in Readers, lock = r, Release,
           call' = [call EXCEPT ![r] = Idle],
           latest' \in {latest, call[r].id}, UNCHANGED calls
    PROVE  Queue'
  <1> USE CallFacts, ReadersAreNamed
  <1>1. /\ \A s \in Readers \ {r} : call'[s] = call[s]
        /\ call'[r] = Idle /\ call[r] # Idle
      BY DEF TypeOK, Queue
  <1>2. CASE waiters = <<>>
      <2>1. lock' = "none" /\ waiters' = <<>>
          BY <1>2 DEF Release
      <2>2. \A s \in Readers : call'[s] = Idle
          BY <1>1, <1>2 DEF Queue, Waits
      <2> QED BY <1>1, <2>1, <2>2 DEF Queue, Waits, Idle
  <1>3. CASE waiters # <<>>
      <2>1. /\ lock' = waiters[1] /\ 1 \in DOMAIN waiters
            /\ DOMAIN waiters' = 1..(Len(waiters) - 1)
            /\ \A i \in DOMAIN waiters' : waiters'[i] = waiters[i + 1]
                                        /\ i + 1 \in DOMAIN waiters
          BY <1>3, Shift DEF Release
      <2>2. \A i \in DOMAIN waiters : waiters[i] \in Readers \ {r}
          BY DEF Queue, Waits
      <2>3. lock' # "none"
          BY <2>1, <2>2
      <2>4. \A s \in Readers : call'[s] # Idle <=> (s = lock' \/ Waits(s)')
          <3> TAKE s \in Readers
          <3>1. Waits(s) <=> (s = lock' \/ Waits(s)')
              <4>1. \A i \in DOMAIN waiters : i = 1 \/ (i - 1 \in DOMAIN waiters' /\ (i - 1) + 1 = i)
                  BY <2>1
              <4> QED BY <2>1, <4>1 DEF Waits
          <3>2. s = r => ~Waits(s)
              BY DEF Queue
          <3> QED BY <1>1, <3>1, <3>2 DEF Queue
      <2>5. ~Waits(lock)'
          <3> SUFFICES ASSUME NEW i \in DOMAIN waiters', waiters'[i] = lock' PROVE FALSE
              BY DEF Waits
          <3>1. 1 < i + 1 /\ i + 1 \in DOMAIN waiters /\ waiters[i + 1] = waiters[1]
              BY <2>1
          <3>2. call[waiters[1]].id < call[waiters[i + 1]].id
              BY <2>1, <3>1 DEF Queue
          <3> QED BY <3>1, <3>2, <2>2
      <2>6. \A i, j \in DOMAIN waiters' :
               i < j => call'[waiters'[i]].id < call'[waiters'[j]].id
          <3> SUFFICES ASSUME NEW i \in DOMAIN waiters', NEW j \in DOMAIN waiters', i < j
                       PROVE  call'[waiters'[i]].id < call'[waiters'[j]].id
              OBVIOUS
          <3>1. /\ i + 1 \in DOMAIN waiters /\ j + 1 \in DOMAIN waiters /\ i + 1 < j + 1
                /\ waiters'[i] = waiters[i + 1] /\ waiters'[j] = waiters[j + 1]
              BY <2>1
          <3>2. call[waiters[i + 1]].id < call[waiters[j + 1]].id
              BY <3>1 DEF Queue
          <3>3. /\ call'[waiters'[i]] = call[waiters[i + 1]]
                /\ call'[waiters'[j]] = call[waiters[j + 1]]
              BY <1>1, <2>1, <2>2, <3>1
          <3> QED BY <3>2, <3>3
      <2>7. \A i \in DOMAIN waiters' : call'[lock'].id < call'[waiters'[i]].id
          <3> SUFFICES ASSUME NEW i \in DOMAIN waiters'
                       PROVE  call'[lock'].id < call'[waiters'[i]].id
              OBVIOUS
          <3>1. /\ waiters'[i] = waiters[i + 1] /\ i + 1 \in DOMAIN waiters
                /\ 1 < i + 1 /\ lock' = waiters[1] /\ 1 \in DOMAIN waiters
              BY <2>1
          <3>2. call[waiters[1]].id < call[waiters[i + 1]].id
              BY <3>1 DEF Queue
          <3> QED BY <1>1, <2>2, <3>1, <3>2
      <2>8. latest' <= calls' /\ \A s \in Readers : call'[s].id <= calls'
          BY <1>1 DEF Queue, Idle
      <2>9. \A s \in Readers : call'[s] # Idle => call'[s].id > latest'
          <3> SUFFICES ASSUME NEW s \in Readers, call'[s] # Idle PROVE call'[s].id > latest'
              OBVIOUS
          <3>1. s # r /\ call'[s] = call[s] /\ Waits(s)
              BY <1>1 DEF Queue
          <3>2. call[s].id > latest /\ call[s].id > call[r].id
              BY <3>1 DEF Queue, Waits
          <3> QED BY <3>1, <3>2
      <2> QED BY <2>3, <2>4, <2>5, <2>6, <2>7, <2>8, <2>9 DEF Queue
  <1> QED BY <1>2, <1>3

\* A new call takes the lock or goes to the end of the line.
LEMMA JoinBack ==
    ASSUME TypeOK, Queue, NEW r \in Readers, call[r] = Idle, Acquire(r),
           NEW c, call' = [call EXCEPT ![r] = c],
           c # Idle, c.id = calls', calls' = calls + 1, UNCHANGED latest
    PROVE  Queue'
  <1> USE CallFacts, ReadersAreNamed
  <1>1. /\ \A s \in Readers \ {r} : call'[s] = call[s]
        /\ call'[r] = c /\ r # lock /\ ~Waits(r)
      BY DEF TypeOK, Queue
  <1>2. \A i \in DOMAIN waiters : waiters[i] \in Readers \ {r}
      BY <1>1 DEF Waits
  <1>3. \A s \in Readers : call[s].id <= calls
      BY DEF Queue
  <1>4. CASE lock = "none"
      <2>1. lock' = r /\ waiters' = <<>> /\ DOMAIN waiters' = {}
          BY <1>4 DEF Acquire, Queue
      <2>2. \A s \in Readers \ {r} : call'[s] = Idle
          BY <1>1, <1>4 DEF Queue, Waits
      <2> QED BY <1>1, <1>3, <2>1, <2>2 DEF Queue, Waits
  <1>5. CASE lock # "none"
      <2>1. /\ lock' = lock /\ lock \in Readers \ {r}
            /\ DOMAIN waiters' = 1..(Len(waiters) + 1)
            /\ \A i \in DOMAIN waiters : waiters'[i] = waiters[i]
            /\ waiters'[Len(waiters) + 1] = r
          BY <1>1, <1>5, Extend DEF Acquire, TypeOK
      <2>2. \A i \in DOMAIN waiters' : i \in DOMAIN waiters \/ i = Len(waiters) + 1
          BY <2>1
      <2>3. \A s \in Readers : Waits(s)' <=> Waits(s) \/ s = r
          BY <2>1, <2>2 DEF Waits
      <2>4. \A i, j \in DOMAIN waiters' :
               i < j => call'[waiters'[i]].id < call'[waiters'[j]].id
          <3> SUFFICES ASSUME NEW i \in DOMAIN waiters', NEW j \in DOMAIN waiters', i < j
                       PROVE  call'[waiters'[i]].id < call'[waiters'[j]].id
              OBVIOUS
          <3>1. i \in DOMAIN waiters /\ call'[waiters'[i]] = call[waiters[i]]
              BY <1>1, <1>2, <2>1
          <3>2. CASE j \in DOMAIN waiters
              BY <1>1, <1>2, <2>1, <3>1, <3>2 DEF Queue
          <3>3. CASE j = Len(waiters) + 1
              BY <1>1, <1>2, <1>3, <2>1, <3>1, <3>3
          <3> QED BY <2>2, <3>2, <3>3
      <2>5. \A i \in DOMAIN waiters' : call'[lock'].id < call'[waiters'[i]].id
          BY <1>1, <1>2, <1>3, <2>1, <2>2 DEF Queue
      <2>6. /\ lock' # "none" /\ ~Waits(lock)'
            /\ latest' <= calls' /\ \A s \in Readers : call'[s].id <= calls'
          BY <1>1, <1>3, <1>5, <2>1, <2>3 DEF Queue
      <2>7. \A s \in Readers : call'[s] # Idle <=> (s = lock' \/ Waits(s)')
          BY <1>1, <2>1, <2>3 DEF Queue
      <2>8. \A s \in Readers : call'[s] # Idle => call'[s].id > latest'
          BY <1>1 DEF Queue
      <2> QED BY <2>4, <2>5, <2>6, <2>7, <2>8 DEF Queue
  <1> QED BY <1>4, <1>5

\* The line without one of those who stand in it.
LEMMA LineWithout ==
    ASSUME TypeOK, NEW r, Waits(r)
    PROVE  \E m \in 1..Len(waiters) :
              /\ waiters[m] = r
              /\ DOMAIN RemoveFirst(waiters, r) = 1..(Len(waiters) - 1)
              /\ \A j \in 1..(Len(waiters) - 1) :
                    RemoveFirst(waiters, r)[j] = IF j < m THEN waiters[j] ELSE waiters[j + 1]
  <1>1. waiters \in Seq(Readers) /\ \E i \in DOMAIN waiters : waiters[i] = r
      BY DEF TypeOK, Waits
  <1>2. \E m \in 1..Len(waiters) :
              /\ waiters[m] = r
              /\ RemoveFirst(waiters, r) \in Seq(Readers)
              /\ Len(RemoveFirst(waiters, r)) = Len(waiters) - 1
              /\ DOMAIN RemoveFirst(waiters, r) = 1..(Len(waiters) - 1)
              /\ \A j \in 1..(Len(waiters) - 1) :
                    RemoveFirst(waiters, r)[j] = IF j < m THEN waiters[j] ELSE waiters[j + 1]
      BY <1>1, RemoveFirstFacts DEF Without
  <1> QED BY <1>2

\* A call that waits is cancelled.
LEMMA LeaveLine ==
    ASSUME TypeOK, Queue, NEW r \in Readers, call[r] # Idle, lock # r,
           waiters' = RemoveFirst(waiters, r), UNCHANGED <<lock, calls, latest>>,
           call' = [call EXCEPT ![r] = Idle]
    PROVE  Queue'
  <1> USE CallFacts, ReadersAreNamed
  <1>1. /\ \A s \in Readers \ {r} : call'[s] = call[s]
        /\ call'[r] = Idle /\ Waits(r)
      BY DEF TypeOK, Queue
  <1>2. PICK m \in 1..Len(waiters) :
           /\ waiters[m] = r
           /\ DOMAIN waiters' = 1..(Len(waiters) - 1)
           /\ \A j \in 1..(Len(waiters) - 1) :
                 waiters'[j] = IF j < m THEN waiters[j] ELSE waiters[j + 1]
      BY <1>1, LineWithout
  <1> DEFINE old(j) == IF j < m THEN j ELSE j + 1
  <1>3. \A j \in DOMAIN waiters' :
           old(j) \in DOMAIN waiters /\ old(j) # m /\ waiters'[j] = waiters[old(j)]
      BY <1>2
  <1>4. \A i, j \in DOMAIN waiters' : i < j => old(i) < old(j)
      BY <1>2
  <1>5. \A i, j \in DOMAIN waiters : waiters[i] = waiters[j] => i = j
      <2> SUFFICES ASSUME NEW i \in DOMAIN waiters, NEW j \in DOMAIN waiters,
                          i < j, waiters[i] = waiters[j]
                   PROVE  FALSE
          BY DEF TypeOK
      <2>1. call[waiters[i]].id < call[waiters[j]].id
          BY DEF Queue
      <2> QED BY <2>1
  <1>6. \A j \in DOMAIN waiters' : waiters'[j] \in Readers \ {r}
      BY <1>2, <1>3, <1>5
  <1>7. \A s \in Readers \ {r} : Waits(s)' <=> Waits(s)
      <2> SUFFICES ASSUME NEW s \in Readers \ {r}, Waits(s) PROVE Waits(s)'
          BY <1>3 DEF Waits
      <2>1. PICK i \in DOMAIN waiters : waiters[i] = s /\ i # m
          BY <1>2 DEF Waits
      <2>2. CASE i < m
          <3>1. i \in DOMAIN waiters' /\ waiters'[i] = waiters[i]
              BY <1>2, <2>1, <2>2
          <3> QED BY <2>1, <3>1 DEF Waits
      <2>3. CASE i > m
          <3>1. i - 1 \in DOMAIN waiters' /\ waiters'[i - 1] = waiters[i]
              BY <1>2, <2>1, <2>3
          <3> QED BY <2>1, <3>1 DEF Waits
      <2> QED BY <2>1, <2>2, <2>3
  <1> HIDE DEF old
  <1>8. \A s \in Readers : call'[s] # Idle <=> (s = lock' \/ Waits(s)')
      BY <1>1, <1>6, <1>7 DEF Queue, Waits
  <1>9. (lock' = "none" => waiters' = <<>>) /\ ~Waits(lock)'
      BY <1>2, <1>3 DEF Queue, Waits
  <1>10. \A i, j \in DOMAIN waiters' :
            i < j => call'[waiters'[i]].id < call'[waiters'[j]].id
      BY <1>1, <1>3, <1>4, <1>6 DEF Queue
  <1>11. \A i \in DOMAIN waiters' : call'[lock'].id < call'[waiters'[i]].id
      <2> SUFFICES ASSUME NEW i \in DOMAIN waiters'
                   PROVE  call'[lock'].id < call'[waiters'[i]].id
          OBVIOUS
      <2>1. lock \in Readers \ {r}
          BY <1>2 DEF Queue, TypeOK
      <2> QED BY <1>1, <1>3, <1>6, <2>1 DEF Queue
  <1>12. /\ latest' <= calls' /\ \A s \in Readers : call'[s].id <= calls'
         /\ \A s \in Readers : call'[s] # Idle => call'[s].id > latest'
      BY <1>1 DEF Queue, Idle
  <1> QED BY <1>8, <1>9, <1>10, <1>11, <1>12 DEF Queue

LEMMA QueueStep == TypeOK /\ Queue /\ [Next]_vars => Queue'
  <1> SUFFICES ASSUME TypeOK, Queue, [Next]_vars PROVE Queue'
      OBVIOUS
  <1> USE CallFacts
  <1>1. CASE UNCHANGED <<lock, waiters, call, calls, latest>>
      BY <1>1 DEF Queue, Waits
  <1>2. CASE DataArrives \/ PeerEnds \/ ServerCloses \/ WriterCloses \/ UNCHANGED vars
      BY <1>1, <1>2 DEF DataArrives, PeerEnds, ServerCloses, WriterCloses, historyVars, vars
  <1>3. ASSUME NEW r \in Readers, NEW kind \in Kinds, NEW n \in Nat, Call(r, kind, n)
        PROVE  Queue'
      <2>1. CASE closed_event
          BY <1>3, <2>1 DEF Call, Queue, Waits
      <2>2. CASE ~closed_event
          <3> DEFINE c == [kind |-> kind, n |-> n, id |-> calls', tried |-> FALSE]
          <3>1. c # Idle /\ c.id = calls'
              BY DEF Idle, Kinds
          <3>2. /\ call[r] = Idle /\ Acquire(r) /\ call' = [call EXCEPT ![r] = c]
                /\ calls' = calls + 1 /\ UNCHANGED latest
              BY <1>3, <2>2 DEF Call
          <3> HIDE DEF c
          <3> QED BY <3>1, <3>2, JoinBack
      <2> QED BY <2>1, <2>2
  <1>4. ASSUME NEW r \in Readers, CallBad(r)
        PROVE  Queue'
      BY <1>4 DEF CallBad, Queue, Waits
  <1>5. ASSUME NEW r \in Readers, Return(r)
        PROVE  Queue'
      <2>1. /\ lock = r /\ Release /\ call' = [call EXCEPT ![r] = Idle]
            /\ latest' \in {latest, call[r].id} /\ UNCHANGED calls
          BY <1>5 DEF Return
      <2> QED BY <2>1, LeaveFront
  <1>6. ASSUME NEW r \in Readers, ReadOne(r)
        PROVE  Queue'
      <2>1. CASE Head(in_queue).error
          <3>1. /\ lock = r /\ Release /\ call' = [call EXCEPT ![r] = Idle]
                /\ latest' \in {latest, call[r].id} /\ UNCHANGED calls
              BY <1>6, <2>1 DEF ReadOne, historyVars
          <3> QED BY <3>1, LeaveFront
      <2>2. CASE ~Head(in_queue).error
          <3>1. /\ call' = [call EXCEPT ![r].tried = TRUE]
                /\ UNCHANGED <<lock, waiters, calls, latest>> /\ lock = r
              BY <1>6, <2>2 DEF ReadOne, historyVars
          <3>2. /\ \A s \in Readers : call'[s].id = call[s].id
                /\ call'[r] # Idle /\ \A s \in Readers \ {r} : call'[s] = call[s]
              BY <3>1 DEF TypeOK, CallType, Idle
          <3>3. call[r] # Idle
              BY <3>1 DEF Queue
          <3> QED BY <3>1, <3>2, <3>3 DEF Queue, Waits
      <2> QED BY <2>1, <2>2
  <1>7. ASSUME NEW r \in Readers, Cancel(r)
        PROVE  Queue'
      <2>1. CASE lock = r
          <3>1. /\ Release /\ call' = [call EXCEPT ![r] = Idle]
                /\ latest' \in {latest, call[r].id} /\ UNCHANGED calls
              BY <1>7, <2>1 DEF Cancel, historyVars
          <3> QED BY <2>1, <3>1, LeaveFront
      <2>2. CASE lock # r
          <3>1. /\ call[r] # Idle /\ waiters' = RemoveFirst(waiters, r)
                /\ call' = [call EXCEPT ![r] = Idle]
                /\ UNCHANGED <<lock, calls, latest>>
              BY <1>7, <2>2 DEF Cancel, historyVars
          <3> QED BY <2>2, <3>1, LeaveLine
      <2> QED BY <2>1, <2>2
  <1> QED BY <1>2, <1>3, <1>4, <1>5, <1>6, <1>7 DEF Next, Step, Kinds

-----------------------------------------------------------------------------
(* The bytes.                                                               *)

LEMMA InitQueueBytes == Init => Queue /\ Bytes
  <1> SUFFICES ASSUME Init PROVE Queue /\ Bytes
      OBVIOUS
  <1>1. Queue
      BY ReadersAreNamed DEF Init, Queue, Waits, Idle
  <1>2. Messages = <<>> /\ returned \o buffer = Piece(0, 0)
      BY DEF Init, Messages, Piece
  <1>3. Holds(<<>>, 0, 0)
      BY HoldsNothing
  <1> QED BY <1>1, <1>2, <1>3 DEF Init, Bytes

\* The data of the queue follows the queue.
LEMMA MessagesFacts ==
    ASSUME TypeOK
    PROVE  /\ Messages \in Seq(Seq(1..MaxBytes))
           /\ \A data \in Seq(1..MaxBytes), error \in BOOLEAN :
                 Put(data, error) => Messages' = Append(Messages, data)
           /\ in_queue # <<>> =>
                 /\ Messages # <<>> /\ Head(Messages) = Head(in_queue).data
                 /\ in_queue' = Tail(in_queue) => Messages' = Tail(Messages)
  <1>1. /\ in_queue \in Seq(MessageType) /\ Len(in_queue) \in Nat
        /\ DOMAIN in_queue = 1..Len(in_queue)
        /\ \A i \in 1..Len(in_queue) : in_queue[i].data \in Seq(1..MaxBytes)
      <2>1. in_queue \in Seq(MessageType)
          BY DEF TypeOK
      <2>2. \A i \in 1..Len(in_queue) : in_queue[i] \in MessageType
          BY <2>1
      <2>3. \A m \in MessageType : m.data \in Seq(1..MaxBytes)
          BY DEF MessageType
      <2> QED BY <2>1, <2>2, <2>3
  <1>2. Messages \in Seq(Seq(1..MaxBytes)) /\ Len(Messages) = Len(in_queue)
      BY <1>1 DEF Messages
  <1>3. ASSUME NEW data \in Seq(1..MaxBytes), NEW error \in BOOLEAN, Put(data, error)
        PROVE  Messages' = Append(Messages, data)
      <2>1. /\ Len(in_queue') = Len(in_queue) + 1 /\ DOMAIN in_queue' = 1..(Len(in_queue) + 1)
            /\ \A i \in 1..Len(in_queue) : in_queue'[i] = in_queue[i]
            /\ in_queue'[Len(in_queue) + 1].data = data
          BY <1>1, <1>3 DEF Put
      <2> QED BY <1>1, <1>2, <2>1 DEF Messages
  <1>4. ASSUME in_queue # <<>>
        PROVE  /\ Messages # <<>> /\ Head(Messages) = Head(in_queue).data
               /\ in_queue' = Tail(in_queue) => Messages' = Tail(Messages)
      <2>1. /\ Len(in_queue) > 0 /\ Head(in_queue) = in_queue[1]
            /\ DOMAIN Tail(in_queue) = 1..(Len(in_queue) - 1)
            /\ \A i \in 1..(Len(in_queue) - 1) : Tail(in_queue)[i] = in_queue[i + 1]
          BY <1>1, <1>4
      <2>2. Messages # <<>> /\ Head(Messages) = Messages[1] /\ Messages[1] = in_queue[1].data
          <3>1. Messages # <<>> /\ Head(Messages) = Messages[1]
              BY <1>2, <2>1
          <3>2. Messages[1] = in_queue[1].data
              BY <1>1, <2>1 DEF Messages
          <3> QED BY <3>1, <3>2
      <2>3. /\ Len(Tail(Messages)) = Len(in_queue) - 1 /\ Tail(Messages) \in Seq(Seq(1..MaxBytes))
            /\ \A i \in 1..(Len(in_queue) - 1) : Tail(Messages)[i] = in_queue[i + 1].data
          BY <1>1, <1>2, <2>1, <2>2 DEF Messages
      <2>4. ASSUME in_queue' = Tail(in_queue)
            PROVE  Messages' = Tail(Messages)
          BY <1>1, <2>1, <2>3, <2>4 DEF Messages
      <2> QED BY <2>1, <2>2, <2>4
  <1> QED BY <1>2, <1>3, <1>4

LEMMA ErrorsStep == TypeOK /\ ErrorsAreEmpty /\ [Next]_vars => ErrorsAreEmpty'
  <1> SUFFICES ASSUME TypeOK, ErrorsAreEmpty, [Next]_vars PROVE ErrorsAreEmpty'
      OBVIOUS
  <1>1. in_queue \in Seq(MessageType)
      BY DEF TypeOK
  <1>2. CASE UNCHANGED in_queue
      BY <1>2 DEF ErrorsAreEmpty
  <1>3. ASSUME NEW data \in Seq(1..MaxBytes), NEW error \in BOOLEAN, Put(data, error),
               error => data = <<>>
        PROVE  ErrorsAreEmpty'
      <2>1. [data |-> data, error |-> error] \in MessageType
          BY DEF MessageType
      <2> QED BY <1>1, <1>3, <2>1, Extend DEF Put, ErrorsAreEmpty
  <1>4. CASE DataArrives
      <2>1. PICK n \in (arrived + 1)..MaxBytes :
               Put([i \in 1..(n - arrived) |-> arrived + i], FALSE)
          BY <1>4 DEF DataArrives
      <2>2. [i \in 1..(n - arrived) |-> arrived + i] \in Seq(1..MaxBytes)
          BY ReaderBounds DEF TypeOK
      <2> QED BY <1>3, <2>1, <2>2
  <1>5. CASE PeerEnds \/ ServerCloses
      <2>1. <<>> \in Seq(1..MaxBytes)
          OBVIOUS
      <2> QED BY <1>3, <1>5, <2>1 DEF PeerEnds, ServerCloses
  <1>6. ASSUME NEW r \in Readers, ReadOne(r)
        PROVE  ErrorsAreEmpty'
      <2>1. in_queue # <<>> /\ in_queue' = Tail(in_queue)
          BY <1>6 DEF ReadOne
      <2>2. \A i \in DOMAIN in_queue' : i + 1 \in DOMAIN in_queue /\ in_queue'[i] = in_queue[i + 1]
          BY <1>1, <2>1, Shift
      <2> QED BY <2>2 DEF ErrorsAreEmpty
  <1> QED BY <1>2, <1>4, <1>5, <1>6
          DEF Next, Step, Call, CallBad, Return, Cancel, WriterCloses, vars

LEMMA BytesStep == TypeOK /\ ErrorsAreEmpty /\ Bytes /\ [Next]_vars => Bytes'
  <1> SUFFICES ASSUME TypeOK, ErrorsAreEmpty, Bytes, [Next]_vars PROVE Bytes'
      OBVIOUS
  <1>1. PICK k \in 0..arrived : returned \o buffer = Piece(0, k) /\ Holds(Messages, k, arrived)
      BY DEF Bytes
  <1>2. /\ arrived \in Nat /\ k \in Nat
        /\ buffer \in Seq(1..MaxBytes) /\ returned \in Seq(1..MaxBytes)
      BY DEF TypeOK
  <1>3. CASE UNCHANGED <<in_queue, buffer, returned, arrived>>
      BY <1>1, <1>3 DEF Bytes, Messages
  <1>4. CASE DataArrives
      <2>1. PICK n \in (arrived + 1)..MaxBytes : arrived' = n /\ Put(Piece(arrived, n), FALSE)
          BY <1>4 DEF DataArrives, Piece
      <2>2. Piece(arrived, n) \in Seq(1..MaxBytes)
          BY <1>2, ReaderBounds DEF Piece
      <2>3. Messages' = Append(Messages, Piece(arrived, n))
          BY <2>1, <2>2, MessagesFacts
      <2>4. n \in Nat /\ arrived <= n /\ Messages \in Seq(Seq(1..MaxBytes))
          BY <1>2, ReaderBounds, MessagesFacts
      <2>5. Holds(Messages', k, n)
          BY <1>1, <1>2, <2>2, <2>3, <2>4, HoldsAppend
      <2>6. k \in 0..arrived' /\ UNCHANGED <<buffer, returned>>
          BY <1>2, <1>4, <2>1, <2>4 DEF DataArrives
      <2> QED BY <1>1, <2>1, <2>5, <2>6 DEF Bytes
  <1>5. CASE PeerEnds \/ ServerCloses
      <2>1. Piece(arrived, arrived) = <<>> /\ <<>> \in Seq(1..MaxBytes)
          BY <1>2 DEF Piece
      <2>2. Messages' = Append(Messages, Piece(arrived, arrived))
          BY <1>5, <2>1, MessagesFacts DEF PeerEnds, ServerCloses
      <2>3. Messages \in Seq(Seq(1..MaxBytes))
          BY MessagesFacts
      <2>4. Holds(Messages', k, arrived)
          <3>1. arrived <= arrived /\ Piece(arrived, arrived) \in Seq(1..MaxBytes)
              BY <1>2, <2>1
          <3> QED BY <1>1, <1>2, <2>2, <2>3, <3>1, HoldsAppend
      <2> QED BY <1>1, <1>5, <2>4 DEF PeerEnds, ServerCloses, historyVars, Bytes
  <1>6. ASSUME NEW r \in Readers, Return(r)
        PROVE  Bytes'
      <2> DEFINE n == Length(call[r])
      <2>1. n \in 0..Len(buffer)
          BY <1>6, LengthFits DEF Return, TypeOK
      <2>2. /\ returned' = returned \o SubSeq(buffer, 1, n)
            /\ buffer' = SubSeq(buffer, n + 1, Len(buffer))
            /\ UNCHANGED <<in_queue, arrived>>
          BY <1>6 DEF Return
      <2> HIDE DEF n
      <2>3. /\ SubSeq(buffer, 1, n) \in Seq(1..MaxBytes)
            /\ SubSeq(buffer, n + 1, Len(buffer)) \in Seq(1..MaxBytes)
            /\ SubSeq(buffer, 1, n) \o SubSeq(buffer, n + 1, Len(buffer)) = buffer
          BY <1>2, <2>1, CutFacts
      <2>4. returned' \o buffer' = returned \o buffer
          <3>1. (returned \o SubSeq(buffer, 1, n)) \o SubSeq(buffer, n + 1, Len(buffer))
                   = returned \o (SubSeq(buffer, 1, n) \o SubSeq(buffer, n + 1, Len(buffer)))
              <4> DEFINE taken == SubSeq(buffer, 1, n)
                         kept == SubSeq(buffer, n + 1, Len(buffer))
              <4>1. taken \in Seq(1..MaxBytes) /\ kept \in Seq(1..MaxBytes)
                  BY <2>3
              <4> HIDE DEF taken, kept
              <4>2. (returned \o taken) \o kept = returned \o (taken \o kept)
                  BY <1>2, <4>1, ConcatAssociative
              <4> QED BY <4>2 DEF taken, kept
          <3> QED BY <2>2, <2>3, <3>1
      <2> QED BY <1>1, <2>2, <2>4 DEF Bytes, Messages
  <1>7. ASSUME NEW r \in Readers, ReadOne(r)
        PROVE  Bytes'
      <2>1. /\ in_queue # <<>> /\ in_queue' = Tail(in_queue)
            /\ UNCHANGED <<arrived, returned>>
          BY <1>7 DEF ReadOne, historyVars
      <2>2. /\ Messages # <<>> /\ Head(Messages) = Head(in_queue).data
            /\ Messages' = Tail(Messages) /\ Messages \in Seq(Seq(1..MaxBytes))
          BY <2>1, MessagesFacts
      <2>3. PICK m \in k..arrived : /\ Head(Messages) = Piece(k, m)
                                    /\ Holds(Tail(Messages), m, arrived)
          BY <1>1, <1>2, <2>2, HoldsTail
      <2>4. buffer' = buffer \o Piece(k, m)
          <3>1. CASE ~Head(in_queue).error
              BY <1>7, <2>2, <2>3, <3>1 DEF ReadOne
          <3>2. CASE Head(in_queue).error
              <4>1. Piece(k, m) = <<>>
                  <5>1. 1 \in DOMAIN in_queue /\ Head(in_queue) = in_queue[1]
                      BY <2>1, Shift DEF TypeOK
                  <5> QED BY <2>2, <2>3, <3>2, <5>1 DEF ErrorsAreEmpty
              <4> QED BY <1>2, <1>7, <3>2, <4>1 DEF ReadOne
          <3> QED BY <3>1, <3>2
      <2>5. returned' \o buffer' = Piece(0, m)
          <3>1. (returned \o buffer) \o Piece(k, m) = Piece(0, m)
              <4>1. m \in Nat /\ 0 <= k /\ k <= m
                  BY <1>2
              <4>2. Piece(0, k) \o Piece(k, m) = Piece(0, m)
                  BY <1>2, <4>1, PieceConcat
              <4> QED BY <1>1, <4>2
          <3>2. Piece(k, m) \in Seq(1..MaxBytes)
              BY <2>2, <2>3, Shift
          <3>3. returned \o (buffer \o Piece(k, m)) = (returned \o buffer) \o Piece(k, m)
              <4> DEFINE p == Piece(k, m)
                         Bytes1 == 1..MaxBytes
              <4>1. returned \in Seq(Bytes1) /\ buffer \in Seq(Bytes1) /\ p \in Seq(Bytes1)
                  BY <1>2, <3>2
              <4> HIDE DEF p, Bytes1
              <4>2. returned \o (buffer \o p) = (returned \o buffer) \o p
                  BY <4>1, ConcatAssociative
              <4> QED BY <4>2 DEF p
          <3> QED BY <2>1, <2>4, <3>1, <3>3
      <2> QED BY <1>2, <2>1, <2>2, <2>3, <2>5 DEF Bytes
  <1> QED BY <1>3, <1>4, <1>5, <1>6, <1>7
          DEF Next, Step, Call, CallBad, Cancel, WriterCloses, historyVars, vars

-----------------------------------------------------------------------------
(* The theorems.                                                            *)

\* The inductive invariant holds.
THEOREM Invariance == Spec => []Inv
  <1>1. Init => Inv
      <2>1. Init => ErrorsAreEmpty
          BY DEF Init, ErrorsAreEmpty
      <2> QED BY <2>1, InitType, InitQueueBytes DEF Inv
  <1>2. Inv /\ [Next]_vars => Inv'
      BY TypeStep, QueueStep, ErrorsStep, BytesStep DEF Inv
  <1> QED BY <1>1, <1>2, PTL DEF Spec

\* Every variable keeps its type: what a call takes from the buffer is there.
THEOREM TypeCorrect == Spec => []TypeOK
  <1>1. Inv => TypeOK
      BY DEF Inv
  <1> QED BY <1>1, Invariance, PTL

\* Whichever tasks read with whatever calls, and are cancelled whenever, no
\* byte of the stream is lost, repeated or out of order, and bytes go to calls
\* in the order in which these were made.
THEOREM BytesAlwaysInOrder == Spec => []BytesInOrder
  <1>1. Inv => BytesInOrder
      <2> SUFFICES ASSUME Inv PROVE BytesInOrder
          OBVIOUS
      <2>1. PICK k \in 0..arrived :
               returned \o buffer = Piece(0, k) /\ Holds(Messages, k, arrived)
          BY DEF Inv, Bytes
      <2>2. arrived \in Nat /\ Messages \in Seq(Seq(1..MaxBytes))
          BY MessagesFacts DEF Inv, TypeOK
      <2>3. FlattenSeq(Messages) = Piece(k, arrived)
          BY <2>1, <2>2, HoldsFlatten
      <2>4. returned \o buffer \o FlattenSeq(Messages) = Piece(0, arrived)
          <3>1. Piece(0, k) \o Piece(k, arrived) = Piece(0, arrived)
              <4>1. k \in Nat /\ 0 <= k /\ k <= arrived
                  BY <2>2
              <4> QED BY <2>2, <4>1, PieceConcat
          <3> QED BY <2>1, <2>3, <3>1
      <2>5. Piece(0, arrived) = [i \in 1..arrived |-> i]
          BY <2>2 DEF Piece
      <2> QED BY <2>4, <2>5 DEF BytesInOrder, Messages, Inv, Queue
  <1> QED BY <1>1, Invariance, PTL

=============================================================================
