-------------------------- MODULE TlsRecordsProofs --------------------------
(***************************************************************************)
(* Proofs about TlsRecords for every sequence of records, any number of    *)
(* them in the handshake, and every cut of the stream into messages.       *)
(***************************************************************************)
EXTENDS TlsRecords, StreamLemmas, FiniteSetTheorems

(***************************************************************************)
(* The inductive invariant.  Given: the TLS object has the stream up to    *)
(* the end of a record.  Kept: the buffer continues it and the queue       *)
(* continues the buffer, until the connection is closed, or the agent's    *)
(* end made __ssl_recv_one drop the rest of a record.  EndIsLast: nothing  *)
(* follows the agent's end.  Progress: where the reader task is, and how   *)
(* much of what it was given it has delivered.                             *)
(***************************************************************************)
Given == Len(tls_in_buff) \in Ends /\ tls_in_buff = Piece(0, Len(tls_in_buff))

Dropped == remote = "ended" /\ buffer = <<>> /\ internal_in_q = <<>>

Kept ==
    \/ pc = "closed" \/ Dropped
    \/ \E k \in Len(tls_in_buff)..arrived :
          /\ buffer = Piece(Len(tls_in_buff), k)
          /\ Holds(internal_in_q, k, arrived)

EndIsLast == \A i \in DOMAIN internal_in_q :
                internal_in_q[i] = EndItem => i = Len(internal_in_q) /\ remote = "ended"

Progress ==
    /\ pc \in {"handshake", "recv rest", "recv", "handed"} => delivered = 0
    /\ pc = "handed" => RecordsFed = Handshake
    /\ pc \in {"waiting", "feeding", "decrypting"} => RecordsFed >= Handshake
    /\ pc \in {"waiting", "decrypting"} => Len(buffer) <= 5
    /\ pc = "waiting" => Handshake + delivered = RecordsFed

Inv == TypeOK /\ Given /\ Kept /\ EndIsLast /\ Progress

-----------------------------------------------------------------------------
(* The ends of the records.                                                 *)

Sums(f, n) == \A r \in 0..n : f[r] = IF r = 0 THEN 0 ELSE f[r - 1] + Sizes[r]

LEMMA SizesFacts ==
    /\ Len(Sizes) \in Nat \ {0} /\ DOMAIN Sizes = 1..Len(Sizes)
    /\ \A r \in 1..Len(Sizes) : Sizes[r] \in Nat /\ Sizes[r] > 5
  BY RecordAssumption

LEMMA SumsExist == \E f \in [0..Len(Sizes) -> Nat] : Sums(f, Len(Sizes))
  <1> DEFINE N == Len(Sizes)
             S == {n \in Nat : n <= N => \E f \in [0..n -> Nat] : Sums(f, n)}
  <1>1. N \in Nat
      BY SizesFacts
  <1>2. 0 \in S
      <2>1. [r \in 0..0 |-> 0] \in [0..0 -> Nat] /\ Sums([r \in 0..0 |-> 0], 0)
          BY DEF Sums
      <2> QED BY <2>1
  <1>3. ASSUME NEW n \in 0..(N - 1), n \in S PROVE n + 1 \in S
      <2>1. PICK f \in [0..n -> Nat] : Sums(f, n)
          BY <1>1, <1>3
      <2> DEFINE g == [r \in 0..(n + 1) |-> IF r <= n THEN f[r] ELSE f[n] + Sizes[n + 1]]
      <2>2. f[n] \in Nat /\ Sizes[n + 1] \in Nat
          BY <1>1, SizesFacts
      <2>3. g \in [0..(n + 1) -> Nat]
          BY <1>1, <2>2
      <2>4. Sums(g, n + 1)
          BY <1>1, <2>1, <2>2 DEF Sums
      <2> QED BY <2>3, <2>4
  <1>4. 0..N \subseteq S
      <2> HIDE DEF S
      <2>1. S \in SUBSET Nat
          BY DEF S
      <2> QED BY <1>1, <1>2, <1>3, <2>1, SetInduction
  <1> QED BY <1>1, <1>4

LEMMA EndOfSums ==
    /\ EndOf \in [0..Len(Sizes) -> Nat]
    /\ EndOf[0] = 0
    /\ \A r \in 1..Len(Sizes) : EndOf[r] = EndOf[r - 1] + Sizes[r]
  <1> DEFINE N == Len(Sizes)
             Eq(f) == f = [r \in 0..N |-> IF r = 0 THEN 0 ELSE f[r - 1] + Sizes[r]]
  <1>1. PICK f \in [0..N -> Nat] : Sums(f, N)
      BY SumsExist
  <1>2. Eq(f)
      BY <1>1 DEF Sums
  <1>3. Eq(EndOf)
      <2>1. EndOf = CHOOSE g : Eq(g)
          BY DEF EndOf
      <2> QED BY <1>2, <2>1
  <1>4. N \in Nat
      BY SizesFacts
  <1> DEFINE S == {n \in Nat : n <= N => EndOf[n] = f[n]}
  <1>5. 0 \in S
      BY <1>1, <1>2, <1>3, <1>4
  <1>6. ASSUME NEW n \in 0..(N - 1), n \in S PROVE n + 1 \in S
      <2>1. n + 1 \in 0..N /\ n + 1 # 0 /\ (n + 1) - 1 = n
          BY <1>4
      <2>2. EndOf[n + 1] = EndOf[n] + Sizes[n + 1]
          BY <1>3, <2>1
      <2>3. f[n + 1] = f[n] + Sizes[n + 1]
          BY <1>2, <2>1
      <2> QED BY <1>6, <2>1, <2>2, <2>3
  <1>7. 0..N \subseteq S
      <2> HIDE DEF S
      <2>1. S \in SUBSET Nat
          BY DEF S
      <2> QED BY <1>4, <1>5, <1>6, <2>1, SetInduction
  <1>8. \A n \in 0..N : EndOf[n] = f[n]
      BY <1>4, <1>7
  <1>9. DOMAIN EndOf = 0..N
      BY <1>3
  <1> QED
      <2>1. EndOf[0] = 0 /\ \A r \in 1..N : EndOf[r] = EndOf[r - 1] + Sizes[r]
          BY <1>3, <1>4
      <2>2. EndOf = [r \in 0..N |-> EndOf[r]]
          BY <1>3
      <2>3. EndOf \in [0..N -> Nat]
          BY <1>1, <1>8, <2>2
      <2> QED BY <2>1, <2>3

\* A later record ends later, by more than a header.
LEMMA EndsGrow ==
    ASSUME NEW q \in 0..Len(Sizes), NEW r \in 0..Len(Sizes), q < r
    PROVE  EndOf[q] + 5 < EndOf[r]
  <1> DEFINE N == Len(Sizes)
             S == {n \in Nat : q + n + 1 <= N => EndOf[q] + 5 < EndOf[q + n + 1]}
  <1>1. N \in Nat
      BY SizesFacts
  <1>2. 0 \in S
      <2>1. CASE q + 1 <= N
          <3>1. q + 1 \in 1..N /\ (q + 1) - 1 = q
              BY <1>1, <2>1
          <3>2. EndOf[q + 1] = EndOf[q] + Sizes[q + 1] /\ Sizes[q + 1] > 5
              BY <3>1, EndOfSums, SizesFacts
          <3>3. EndOf[q] \in Nat /\ Sizes[q + 1] \in Nat
              BY <3>1, EndOfSums, SizesFacts
          <3> QED BY <3>2, <3>3
      <2> QED BY <2>1
  <1>3. ASSUME NEW n \in 0..(N - 1), n \in S PROVE n + 1 \in S
      <2>1. CASE q + n + 2 <= N
          <3>1. q + n + 2 \in 1..N /\ (q + n + 2) - 1 = q + n + 1 /\ q + n + 1 \in 0..N
              BY <1>1, <2>1
          <3>2. EndOf[q + n + 2] = EndOf[q + n + 1] + Sizes[q + n + 2] /\ Sizes[q + n + 2] > 5
              BY <3>1, EndOfSums, SizesFacts
          <3>3. EndOf[q] \in Nat /\ EndOf[q + n + 1] \in Nat /\ Sizes[q + n + 2] \in Nat
              BY <3>1, EndOfSums, SizesFacts
          <3>4. EndOf[q] + 5 < EndOf[q + n + 1]
              BY <1>1, <1>3, <3>1
          <3>5. EndOf[q] + 5 < EndOf[q + n + 2]
              BY <3>2, <3>3, <3>4
          <3> QED BY <1>1, <3>5
      <2> QED BY <1>1, <2>1
  <1>4. 0..N \subseteq S
      <2> HIDE DEF S
      <2>1. S \in SUBSET Nat
          BY DEF S
      <2> QED BY <1>1, <1>2, <1>3, <2>1, SetInduction
  <1>5. r - q - 1 \in 0..N /\ q + (r - q - 1) + 1 = r /\ r <= N
      BY <1>1
  <1>6. r - q - 1 \in S
      <2> HIDE DEF S
      <2> QED BY <1>4, <1>5
  <1> QED BY <1>5, <1>6

LEMMA EndsFacts ==
    /\ Total \in Nat /\ Ends \subseteq 0..Total /\ 0 \in Ends
    /\ \A r \in 0..Len(Sizes) : EndOf[r] \in 0..Total
    /\ \A q, r \in 0..Len(Sizes) : EndOf[q] = EndOf[r] => q = r
    /\ \A q, r \in 0..Len(Sizes) : EndOf[q] <= EndOf[r] => q <= r
  <1>1. Len(Sizes) \in Nat
      BY SizesFacts
  <1>2. Total \in Nat /\ \A r \in 0..Len(Sizes) : EndOf[r] \in Nat
      BY <1>1, EndOfSums DEF Total
  <1>3. \A r \in 0..Len(Sizes) : EndOf[r] <= Total
      <2> TAKE r \in 0..Len(Sizes)
      <2>1. CASE r < Len(Sizes)
          BY <1>1, <1>2, <2>1, EndsGrow DEF Total
      <2>2. CASE r = Len(Sizes)
          BY <1>2, <2>2 DEF Total
      <2> QED BY <1>1, <2>1, <2>2
  <1>4. 0 \in Ends
      BY <1>1, EndOfSums DEF Ends
  <1>5. \A q, r \in 0..Len(Sizes) : EndOf[q] <= EndOf[r] => q <= r
      <2> TAKE q, r \in 0..Len(Sizes)
      <2>1. r < q => EndOf[r] + 5 < EndOf[q]
          BY EndsGrow
      <2> QED BY <1>2, <2>1
  <1>6. \A q, r \in 0..Len(Sizes) : EndOf[q] = EndOf[r] => q = r
      BY <1>2, <1>5
  <1> QED BY <1>2, <1>3, <1>4, <1>5, <1>6 DEF Ends

-----------------------------------------------------------------------------
(* Buffers that start where a record starts.                                *)

LEMMA PieceType ==
    ASSUME NEW a \in 0..Total, NEW b \in a..Total
    PROVE  Piece(a, b) \in Seq(1..Total)
  BY EndsFacts DEF Piece

LEMMA FirstOfBuffer ==
    ASSUME NEW r \in 0..Len(Sizes), NEW k \in EndOf[r]..Total,
           HasRecord(Piece(EndOf[r], k))
    PROVE  /\ r + 1 \in 1..Len(Sizes) /\ EndOf[r + 1] \in EndOf[r]..k
           /\ EndOf[r] < EndOf[r + 1]
           /\ FirstRecord(Piece(EndOf[r], k)) = Piece(EndOf[r], EndOf[r + 1])
           /\ AfterRecord(Piece(EndOf[r], k)) = Piece(EndOf[r + 1], k)
  <1> DEFINE a == EndOf[r]
             b == Piece(a, k)
  <1>1. Len(Sizes) \in Nat /\ Total \in Nat /\ a \in 0..Total /\ k \in Nat /\ a <= k
      BY EndsFacts, SizesFacts
  <1>a. a \in Nat
      BY <1>1
  <1> HIDE DEF a
  <1>2. Len(b) = k - a /\ \A i \in 1..(k - a) : b[i] = a + i
      BY <1>1, <1>a, PieceFacts
  <1>3. Len(b) > 5 /\ Len(b) >= RecordLen(b)
      BY DEF HasRecord, a
  <1> HIDE DEF b
  <1>4. k - a > 5 /\ b[1] = a + 1
      BY <1>1, <1>2, <1>3
  <1>5. r < Len(Sizes)
      BY <1>1, <1>4 DEF Total, a
  <1>6. r + 1 \in 1..Len(Sizes) /\ (r + 1) - 1 = r
      BY <1>1, <1>5
  <1>7. EndOf[r + 1] = a + Sizes[r + 1] /\ Sizes[r + 1] \in Nat /\ Sizes[r + 1] > 5
      BY <1>6, EndOfSums, SizesFacts DEF a
  <1>8. RecordLen(b) = Sizes[r + 1]
      <2>1. ASSUME NEW q \in DOMAIN Sizes, EndOf[q - 1] + 1 = b[1]
            PROVE  q = r + 1
          <3>1. q - 1 \in 0..Len(Sizes) /\ q \in Nat
              BY <1>1, SizesFacts
          <3>2. EndOf[q - 1] \in Nat
              BY <3>1, EndsFacts
          <3>3. EndOf[q - 1] = EndOf[r]
              <4>1. EndOf[q - 1] = a
                  BY <1>4, <1>a, <2>1, <3>2
              <4> QED BY <4>1 DEF a
          <3>4. q - 1 = r
              BY <3>1, <3>3, EndsFacts
          <3> QED BY <3>1, <3>4
      <2>2. r + 1 \in DOMAIN Sizes /\ EndOf[(r + 1) - 1] + 1 = b[1]
          BY <1>4, <1>6, SizesFacts DEF a
      <2>3. (CHOOSE q \in DOMAIN Sizes : EndOf[q - 1] + 1 = b[1]) = r + 1
          BY <2>1, <2>2
      <2> QED BY <2>2, <2>3 DEF RecordLen
  <1>9. Sizes[r + 1] \in 0..(k - a) /\ a + Sizes[r + 1] = EndOf[r + 1]
      BY <1>1, <1>2, <1>3, <1>7, <1>8
  <1>10. /\ SubSeq(b, 1, Sizes[r + 1]) = Piece(a, EndOf[r + 1])
         /\ SubSeq(b, Sizes[r + 1] + 1, k - a) = Piece(EndOf[r + 1], k)
      <2> DEFINE n == Sizes[r + 1]
      <2>1. n \in 0..(k - a) /\ a \in Nat
          BY <1>1, <1>9
      <2> HIDE DEF n
      <2>2. /\ SubSeq(Piece(a, k), 1, n) = Piece(a, a + n)
            /\ SubSeq(Piece(a, k), n + 1, k - a) = Piece(a + n, k)
          BY <1>1, <2>1, PieceCut
      <2> QED BY <1>9, <2>2 DEF b, n
  <1>11. EndOf[r + 1] \in a..k /\ a < EndOf[r + 1]
      BY <1>1, <1>7, <1>9
  <1>12. FirstRecord(b) = Piece(a, EndOf[r + 1])
      BY <1>8, <1>10 DEF FirstRecord
  <1>13. AfterRecord(b) = Piece(EndOf[r + 1], k)
      BY <1>2, <1>8, <1>10 DEF AfterRecord
  <1> QED BY <1>6, <1>11, <1>12, <1>13 DEF a, b

\* The number of records the TLS object was given.
LEMMA Fed ==
    ASSUME NEW n, NEW r \in 0..Len(Sizes), n = EndOf[r]
    PROVE  Cardinality({q \in DOMAIN Sizes : EndOf[q] <= n}) = r
  <1>1. Len(Sizes) \in Nat /\ DOMAIN Sizes = 1..Len(Sizes) /\ r \in Nat
      BY SizesFacts
  <1>2. ASSUME NEW q \in 1..Len(Sizes) PROVE EndOf[q] <= n <=> q <= r
      <2>1. q \in 0..Len(Sizes) /\ EndOf[q] \in Nat /\ EndOf[r] \in Nat
          BY <1>1, EndsFacts
      <2>2. q < r => EndOf[q] + 5 < EndOf[r]
          BY <2>1, EndsGrow
      <2>3. EndOf[q] <= EndOf[r] => q <= r
          BY <2>1, EndsFacts
      <2> QED BY <1>1, <2>1, <2>2, <2>3
  <1>3. {q \in DOMAIN Sizes : EndOf[q] <= n} = 1..r
      BY <1>1, <1>2
  <1>4. Cardinality(1..r) = r
      BY <1>1, FS_Interval
  <1> QED BY <1>3, <1>4

LEMMA FedNow ==
    ASSUME Given
    PROVE  \E r \in 0..Len(Sizes) :
              Len(tls_in_buff) = EndOf[r] /\ RecordsFed = r
  BY Fed DEF Given, Ends, RecordsFed

\* What giving the TLS object the first record of a buffer does.
LEMMA FeedFirst ==
    ASSUME TypeOK, Given, NEW k \in Len(tls_in_buff)..arrived,
           NEW b, b = Piece(Len(tls_in_buff), k), HasRecord(b),
           tls_in_buff' = tls_in_buff \o FirstRecord(b)
    PROVE  /\ tls_in_buff' \in Seq(1..Total) /\ Given'
           /\ RecordsFed >= Handshake => RecordsFed' >= Handshake
           /\ FirstRecord(b) # <<>>
           /\ AfterRecord(b) \in Seq(1..Total)
           /\ k \in (Len(tls_in_buff'))..arrived
           /\ AfterRecord(b) = Piece(Len(tls_in_buff'), k)
  <1>1. PICK r \in 0..Len(Sizes) : Len(tls_in_buff) = EndOf[r] /\ RecordsFed = r
      BY FedNow
  <1>2. /\ Len(Sizes) \in Nat /\ Total \in Nat /\ EndOf[r] \in 0..Total
        /\ k \in EndOf[r]..Total /\ arrived \in 0..Total
      BY <1>1, EndsFacts, SizesFacts DEF TypeOK
  <1>3. /\ r + 1 \in 1..Len(Sizes) /\ EndOf[r + 1] \in EndOf[r]..k
        /\ EndOf[r] < EndOf[r + 1]
        /\ FirstRecord(b) = Piece(EndOf[r], EndOf[r + 1])
        /\ AfterRecord(b) = Piece(EndOf[r + 1], k)
      BY <1>1, <1>2, FirstOfBuffer
  <1>a. EndOf[r] \in Nat /\ EndOf[r + 1] \in Nat /\ EndOf[r] <= EndOf[r + 1] /\ 0 \in Nat
        /\ 0 <= EndOf[r] /\ 0 <= EndOf[r + 1]
      BY <1>2, <1>3
  <1>4. tls_in_buff' = Piece(0, EndOf[r + 1])
      <2>1. Piece(0, EndOf[r]) \o Piece(EndOf[r], EndOf[r + 1]) = Piece(0, EndOf[r + 1])
          BY <1>a, PieceConcat
      <2> QED BY <1>1, <1>3, <2>1 DEF Given
  <1>5. Len(tls_in_buff') = EndOf[r + 1]
      <2>1. Len(Piece(0, EndOf[r + 1])) = EndOf[r + 1] - 0
          BY <1>a, PieceFacts
      <2> QED BY <1>4, <1>a, <2>1
  <1>6. r + 1 \in 0..Len(Sizes)
      BY <1>3
  <1>7. RecordsFed' = r + 1
      BY <1>5, <1>6, Fed DEF RecordsFed
  <1>8. Given'
      BY <1>4, <1>5, <1>6 DEF Given, Ends
  <1>9. tls_in_buff' \in Seq(1..Total) /\ AfterRecord(b) \in Seq(1..Total)
      <2>1. /\ 0 \in 0..Total /\ EndOf[r + 1] \in 0..Total
            /\ EndOf[r + 1] \in 0..Total /\ k \in EndOf[r + 1]..Total
          BY <1>2, <1>3
      <2>2. Piece(0, EndOf[r + 1]) \in Seq(1..Total) /\ Piece(EndOf[r + 1], k) \in Seq(1..Total)
          BY <2>1, PieceType
      <2> QED BY <1>3, <1>4, <2>2
  <1>10. FirstRecord(b) # <<>>
      <2>1. Len(Piece(EndOf[r], EndOf[r + 1])) = EndOf[r + 1] - EndOf[r]
          BY <1>a, PieceFacts
      <2> QED BY <1>3, <1>a, <2>1
  <1>11. RecordsFed >= Handshake => RecordsFed' >= Handshake
      <2>1. r \in Nat /\ Handshake \in Nat
          BY <1>2, RecordAssumption
      <2>2. r >= Handshake => r + 1 >= Handshake
          BY <2>1
      <2> QED BY <1>1, <1>7, <2>2
  <1> QED BY <1>2, <1>3, <1>5, <1>8, <1>9, <1>10, <1>11

-----------------------------------------------------------------------------
(* Every action preserves the invariant.                                    *)

LEMMA InitInv == Init => Inv
  <1> SUFFICES ASSUME Init PROVE Inv
      OBVIOUS
  <1>1. TypeOK
      BY EndsFacts, SizesFacts DEF Init, TypeOK, PcType
  <1>2. Given
      BY EndsFacts DEF Init, Given, Piece
  <1>3. Kept
      <2>1. Holds(<<>>, 0, 0)
          BY HoldsNothing
      <2>2. Piece(0, 0) = <<>>
          BY DEF Piece
      <2> QED BY <2>1, <2>2 DEF Init, Kept
  <1> QED BY <1>1, <1>2, <1>3 DEF Init, Inv, EndIsLast, Progress

LEMMA ArriveStep == Inv /\ Arrive => Inv'
  <1> SUFFICES ASSUME Inv, Arrive PROVE Inv'
      OBVIOUS
  <1>1. TypeOK /\ Given /\ Kept /\ EndIsLast /\ Progress
      BY DEF Inv
  <1>2. PICK n \in (arrived + 1)..Total :
           /\ arrived' = n
           /\ internal_in_q' = Append(internal_in_q, [i \in 1..(n - arrived) |-> arrived + i])
      BY DEF Arrive
  <1>3. remote = "open" /\ UNCHANGED <<pc, buffer, tls_in_buff, delivered, remote>>
      BY DEF Arrive
  <1>4. /\ Total \in Nat /\ arrived \in 0..Total /\ n \in arrived..Total /\ n \in Nat
        /\ arrived < n /\ internal_in_q \in Seq(Seq(1..Total))
      BY <1>1, EndsFacts DEF TypeOK
  <1>5. internal_in_q' = Append(internal_in_q, Piece(arrived, n))
      BY <1>2 DEF Piece
  <1>6. Piece(arrived, n) \in Seq(1..Total)
      BY <1>4, PieceType
  <1>7. TypeOK'
      BY <1>1, <1>2, <1>3, <1>4, <1>5, <1>6 DEF TypeOK
  <1>8. Kept'
      <2>1. ASSUME NEW k \in Len(tls_in_buff)..arrived,
                   buffer = Piece(Len(tls_in_buff), k), Holds(internal_in_q, k, arrived)
            PROVE  Kept'
          <3>1. k \in Nat /\ arrived \in Nat /\ n \in Nat /\ arrived <= n /\ k \in Len(tls_in_buff)..n
              BY <1>1, <1>4 DEF TypeOK
          <3>2. Holds(internal_in_q', k, n)
              BY <1>4, <1>5, <1>6, <2>1, <3>1, HoldsAppend
          <3> QED BY <1>2, <1>3, <2>1, <3>1, <3>2 DEF Kept
      <2>2. CASE pc = "closed"
          BY <1>3, <2>2 DEF Kept
      <2> QED BY <1>1, <1>3, <2>1, <2>2 DEF Kept, Dropped
  <1>9. EndIsLast'
      <2>1. \A i \in DOMAIN internal_in_q : internal_in_q[i] # EndItem
          BY <1>1, <1>3 DEF EndIsLast
      <2>2. Len(Piece(arrived, n)) = n - arrived
          BY <1>4, PieceFacts
      <2>3. Piece(arrived, n) # EndItem
          BY <1>4, <2>2 DEF EndItem
      <2>4. /\ DOMAIN internal_in_q' = 1..(Len(internal_in_q) + 1)
            /\ DOMAIN internal_in_q = 1..Len(internal_in_q)
            /\ Len(internal_in_q) \in Nat
            /\ \A i \in 1..Len(internal_in_q) : internal_in_q'[i] = internal_in_q[i]
            /\ internal_in_q'[Len(internal_in_q) + 1] = Piece(arrived, n)
          BY <1>4, <1>5, <1>6
      <2>5. \A i \in DOMAIN internal_in_q' : internal_in_q'[i] # EndItem
          BY <2>1, <2>3, <2>4
      <2> QED BY <2>5 DEF EndIsLast, EndItem
  <1>10. Given' /\ Progress'
      BY <1>1, <1>3 DEF Given, Progress, RecordsFed
  <1> QED BY <1>7, <1>8, <1>9, <1>10 DEF Inv

LEMMA AgentEndStep == Inv /\ AgentEnd => Inv'
  <1> SUFFICES ASSUME Inv, AgentEnd PROVE Inv'
      OBVIOUS
  <1>1. TypeOK /\ Given /\ Kept /\ EndIsLast /\ Progress
      BY DEF Inv
  <1>2. /\ remote = "open" /\ remote' = "ended"
        /\ internal_in_q' = Append(internal_in_q, EndItem)
        /\ UNCHANGED <<pc, buffer, tls_in_buff, delivered, arrived>>
      BY DEF AgentEnd
  <1>3. Total \in Nat /\ arrived \in Nat /\ internal_in_q \in Seq(Seq(1..Total))
      BY <1>1, EndsFacts DEF TypeOK
  <1>4. EndItem = Piece(arrived, arrived) /\ EndItem \in Seq(1..Total)
      BY <1>3 DEF EndItem, Piece
  <1>5. TypeOK'
      BY <1>1, <1>2, <1>3, <1>4 DEF TypeOK
  <1>6. Kept'
      <2>1. ASSUME NEW k \in Len(tls_in_buff)..arrived,
                   buffer = Piece(Len(tls_in_buff), k), Holds(internal_in_q, k, arrived)
            PROVE  Kept'
          <3>1. k \in Nat
              BY <1>1 DEF TypeOK
          <3>2. Holds(internal_in_q', k, arrived)
              BY <1>2, <1>3, <1>4, <2>1, <3>1, HoldsAppend
          <3> QED BY <1>2, <2>1, <3>2 DEF Kept
      <2>2. CASE pc = "closed"
          BY <1>2, <2>2 DEF Kept
      <2> QED BY <1>1, <1>2, <2>1, <2>2 DEF Kept, Dropped
  <1>7. EndIsLast'
      <2>1. \A i \in DOMAIN internal_in_q : internal_in_q[i] # EndItem
          BY <1>1, <1>2 DEF EndIsLast
      <2>2. /\ DOMAIN internal_in_q' = 1..(Len(internal_in_q) + 1)
            /\ DOMAIN internal_in_q = 1..Len(internal_in_q)
            /\ Len(internal_in_q) \in Nat /\ Len(internal_in_q') = Len(internal_in_q) + 1
            /\ \A i \in 1..Len(internal_in_q) : internal_in_q'[i] = internal_in_q[i]
          BY <1>2, <1>3, <1>4
      <2> QED BY <1>2, <2>1, <2>2 DEF EndIsLast, EndItem
  <1>8. Given' /\ Progress'
      BY <1>1, <1>2 DEF Given, Progress, RecordsFed
  <1> QED BY <1>5, <1>6, <1>7, <1>8 DEF Inv

\* Steps that move the task only.
LEMMA MoveStep ==
    ASSUME Inv, WantRead \/ HandshakeDone \/ HandshakeFails \/ FeedEnd \/ Decrypt
    PROVE  Inv'
  <1>1. TypeOK /\ Given /\ Kept /\ EndIsLast /\ Progress
      BY DEF Inv
  <1>2. UNCHANGED <<internal_in_q, tls_in_buff, arrived, remote>>
      BY DEF WantRead, HandshakeDone, HandshakeFails, FeedEnd, Decrypt
  <1>3. RecordsFed \in 0..Len(Sizes) /\ Len(Sizes) \in Nat /\ RecordsFed' = RecordsFed
      BY <1>1, <1>2, FedNow, SizesFacts DEF RecordsFed
  <1>4. TypeOK'
      <2>1. pc' \in PcType
          BY DEF WantRead, HandshakeDone, HandshakeFails, FeedEnd, Decrypt, PcType
      <2>2. delivered' \in 0..Len(Sizes)
          <3>1. CASE Decrypt
              <4>1. RecordsFed >= Handshake
                  BY <1>1, <3>1 DEF Decrypt, Progress
              <4> QED BY <1>3, <3>1, <4>1, RecordAssumption DEF Decrypt
          <3>2. CASE ~Decrypt
              BY <1>1, <3>2 DEF WantRead, HandshakeDone, HandshakeFails, FeedEnd, TypeOK
          <3> QED BY <3>1, <3>2
      <2>3. buffer' \in Seq(1..Total)
          <3>1. buffer \in Seq(1..Total) /\ <<>> \in Seq(1..Total)
              BY <1>1 DEF TypeOK
          <3> QED BY <3>1 DEF WantRead, HandshakeDone, HandshakeFails, FeedEnd, Decrypt
      <2> QED BY <1>1, <1>2, <2>1, <2>2, <2>3 DEF TypeOK
  <1>5. Kept'
      <2>1. CASE HandshakeFails
          BY <2>1 DEF HandshakeFails, Kept
      <2>2. CASE ~HandshakeFails
          <3>1. buffer' = buffer /\ pc # "closed"
              BY <2>2 DEF WantRead, HandshakeDone, FeedEnd, Decrypt
          <3> QED BY <1>1, <1>2, <3>1 DEF Kept, Dropped
      <2> QED BY <2>1, <2>2
  <1>6. Given' /\ EndIsLast'
      BY <1>1, <1>2 DEF Given, EndIsLast
  <1>7. Progress'
      <2>1. CASE WantRead
          BY <1>1, <1>3, <2>1 DEF WantRead, Progress
      <2>2. CASE HandshakeDone
          BY <1>1, <1>3, <2>2, RecordAssumption DEF HandshakeDone, Progress
      <2>3. CASE HandshakeFails
          BY <2>3 DEF HandshakeFails, Progress
      <2>4. CASE FeedEnd
          BY <1>1, <1>3, <2>4 DEF FeedEnd, Progress
      <2>5. CASE Decrypt
          BY <1>1, <1>3, <2>5, RecordAssumption DEF Decrypt, Progress
      <2> QED BY <2>1, <2>2, <2>3, <2>4, <2>5
  <1> QED BY <1>4, <1>5, <1>6, <1>7 DEF Inv

\* The TLS object is given the first record of what is in the buffer.
LEMMA TakeRecord ==
    ASSUME Inv, NEW k \in Len(tls_in_buff)..arrived,
           NEW b, b = Piece(Len(tls_in_buff), k), HasRecord(b),
           tls_in_buff' = tls_in_buff \o FirstRecord(b), buffer' = AfterRecord(b),
           UNCHANGED <<delivered, arrived, remote>>,
           internal_in_q' \in Seq(Seq(1..Total)), Holds(internal_in_q', k, arrived),
           EndIsLast',
           \/ pc \in {"recv rest", "recv"} /\ pc' = "handshake"
           \/ pc = "feeding" /\ pc' = "feeding"
    PROVE  Inv'
  <1>1. TypeOK /\ Given /\ Progress
      BY DEF Inv
  <1>2. /\ tls_in_buff' \in Seq(1..Total) /\ Given'
        /\ RecordsFed >= Handshake => RecordsFed' >= Handshake
        /\ AfterRecord(b) \in Seq(1..Total) /\ k \in (Len(tls_in_buff'))..arrived
        /\ AfterRecord(b) = Piece(Len(tls_in_buff'), k)
      BY <1>1, FeedFirst
  <1>3. TypeOK'
      BY <1>1, <1>2 DEF TypeOK, PcType
  <1>4. Kept'
      BY <1>2 DEF Kept
  <1>6. Progress'
      <2>1. CASE pc \in {"recv rest", "recv"} /\ pc' = "handshake"
          BY <1>1, <2>1 DEF Progress
      <2>2. CASE pc = "feeding" /\ pc' = "feeding"
          <3>1. RecordsFed >= Handshake
              BY <1>1, <2>2 DEF Progress
          <3>2. RecordsFed' >= Handshake
              BY <1>2, <3>1
          <3> QED BY <2>2, <3>2 DEF Progress
      <2> QED BY <2>1, <2>2
  <1> QED BY <1>2, <1>3, <1>4, <1>6 DEF Inv

\* The buffer, when it holds a record.
LEMMA HasRecordKept ==
    ASSUME Inv, pc # "closed", HasRecord(buffer)
    PROVE  \E k \in Len(tls_in_buff)..arrived :
              /\ buffer = Piece(Len(tls_in_buff), k)
              /\ Holds(internal_in_q, k, arrived)
  <1>1. Len(buffer) > 5
      BY DEF HasRecord
  <1>2. buffer # <<>>
      BY <1>1
  <1> QED BY <1>2 DEF Inv, Kept, Dropped

LEMMA RecvFromRestStep == Inv /\ RecvFromRest => Inv'
  <1> SUFFICES ASSUME Inv, RecvFromRest PROVE Inv'
      OBVIOUS
  <1>1. TypeOK /\ Given /\ Progress /\ EndIsLast
      BY DEF Inv
  <1>2. /\ pc \in {"recv rest", "recv"} /\ HasRecord(buffer)
        /\ Return(FirstRecord(buffer), AfterRecord(buffer))
        /\ UNCHANGED <<internal_in_q, delivered, arrived, remote>>
      BY DEF RecvFromRest, InRecv
  <1>3. PICK k \in Len(tls_in_buff)..arrived :
           buffer = Piece(Len(tls_in_buff), k) /\ Holds(internal_in_q, k, arrived)
      BY <1>2, HasRecordKept
  <1>4. /\ tls_in_buff' = tls_in_buff \o FirstRecord(buffer)
        /\ buffer' = AfterRecord(buffer)
      BY <1>2 DEF Return
  <1>5. FirstRecord(buffer) # <<>>
      BY <1>1, <1>2, <1>3, <1>4, FeedFirst
  <1>6. pc' = "handshake"
      BY <1>2, <1>5 DEF Return
  <1>7. internal_in_q' \in Seq(Seq(1..Total)) /\ Holds(internal_in_q', k, arrived) /\ EndIsLast'
      BY <1>1, <1>2, <1>3 DEF TypeOK, EndIsLast
  <1> QED BY <1>2, <1>3, <1>4, <1>6, <1>7, TakeRecord

LEMMA FeedStep == Inv /\ Feed => Inv'
  <1> SUFFICES ASSUME Inv, Feed PROVE Inv'
      OBVIOUS
  <1>1. TypeOK /\ EndIsLast
      BY DEF Inv
  <1>2. /\ pc = "feeding" /\ HasRecord(buffer)
        /\ tls_in_buff' = tls_in_buff \o FirstRecord(buffer)
        /\ buffer' = AfterRecord(buffer)
        /\ UNCHANGED <<pc, internal_in_q, delivered, arrived, remote>>
      BY DEF Feed
  <1>3. PICK k \in Len(tls_in_buff)..arrived :
           buffer = Piece(Len(tls_in_buff), k) /\ Holds(internal_in_q, k, arrived)
      BY <1>2, HasRecordKept
  <1>4. internal_in_q' \in Seq(Seq(1..Total)) /\ Holds(internal_in_q', k, arrived) /\ EndIsLast'
      BY <1>1, <1>2, <1>3 DEF TypeOK, EndIsLast
  <1> QED BY <1>2, <1>3, <1>4, TakeRecord

\* The message at the head of the queue: nothing follows the agent's end.
LEMMA HeadFacts ==
    ASSUME Inv, internal_in_q # <<>>, internal_in_q' = Tail(internal_in_q),
           remote' = remote
    PROVE  /\ Head(internal_in_q) \in Seq(1..Total)
           /\ internal_in_q' \in Seq(Seq(1..Total))
           /\ EndIsLast'
           /\ Head(internal_in_q) = EndItem => internal_in_q' = <<>> /\ remote = "ended"
           /\ pc # "closed" =>
                 \E k \in Len(tls_in_buff)..arrived : \E m \in k..arrived :
                    /\ buffer = Piece(Len(tls_in_buff), k)
                    /\ Head(internal_in_q) = Piece(k, m)
                    /\ Holds(internal_in_q', m, arrived)
  <1>1. internal_in_q \in Seq(Seq(1..Total)) /\ EndIsLast /\ TypeOK /\ Kept
      BY DEF Inv, TypeOK
  <1>2. /\ Len(internal_in_q) \in Nat \ {0} /\ DOMAIN internal_in_q = 1..Len(internal_in_q)
        /\ Head(internal_in_q) = internal_in_q[1]
        /\ Head(internal_in_q) \in Seq(1..Total)
        /\ internal_in_q' \in Seq(Seq(1..Total))
        /\ Len(internal_in_q') = Len(internal_in_q) - 1
        /\ DOMAIN internal_in_q' = 1..(Len(internal_in_q) - 1)
        /\ \A i \in 1..(Len(internal_in_q) - 1) : internal_in_q'[i] = internal_in_q[i + 1]
      BY <1>1
  <1>3. EndIsLast'
      <2> SUFFICES ASSUME NEW i \in DOMAIN internal_in_q', internal_in_q'[i] = EndItem
                   PROVE  i = Len(internal_in_q') /\ remote' = "ended"
          BY DEF EndIsLast, EndItem
      <2>1. i + 1 \in DOMAIN internal_in_q /\ internal_in_q[i + 1] = EndItem /\ i \in Int
          BY <1>2
      <2>2. i + 1 = Len(internal_in_q) /\ remote = "ended"
          BY <1>1, <2>1 DEF EndIsLast
      <2> QED BY <1>2, <2>1, <2>2
  <1>4. Head(internal_in_q) = EndItem => internal_in_q' = <<>> /\ remote = "ended"
      <2> SUFFICES ASSUME Head(internal_in_q) = EndItem
                   PROVE  internal_in_q' = <<>> /\ remote = "ended"
          OBVIOUS
      <2>1. 1 = Len(internal_in_q) /\ remote = "ended"
          BY <1>1, <1>2 DEF EndIsLast
      <2>2. Len(internal_in_q') = 0 /\ internal_in_q' \in Seq(Seq(1..Total))
          BY <1>2, <2>1
      <2>3. internal_in_q' = <<>>
          BY <2>2, EmptySeq
      <2> QED BY <2>1, <2>3
  <1>5. ASSUME pc # "closed"
        PROVE  \E k \in Len(tls_in_buff)..arrived : \E m \in k..arrived :
                    /\ buffer = Piece(Len(tls_in_buff), k)
                    /\ Head(internal_in_q) = Piece(k, m)
                    /\ Holds(internal_in_q', m, arrived)
      <2>1. PICK k \in Len(tls_in_buff)..arrived :
               buffer = Piece(Len(tls_in_buff), k) /\ Holds(internal_in_q, k, arrived)
          BY <1>1, <1>5 DEF Kept, Dropped
      <2>2. k \in Nat /\ arrived \in Nat
          BY <1>1 DEF TypeOK
      <2>3. \E m \in k..arrived :
               Head(internal_in_q) = Piece(k, m) /\ Holds(Tail(internal_in_q), m, arrived)
          BY <1>1, <2>1, <2>2, HoldsTail
      <2> QED BY <2>1, <2>3
  <1> QED BY <1>2, <1>3, <1>4, <1>5

\* The buffer and the next message are one piece of the stream.
LEMMA Joined ==
    ASSUME Inv, NEW k \in Len(tls_in_buff)..arrived, NEW m \in k..arrived,
           buffer = Piece(Len(tls_in_buff), k)
    PROVE  /\ m \in Len(tls_in_buff)..arrived
           /\ buffer \o Piece(k, m) = Piece(Len(tls_in_buff), m)
           /\ Piece(Len(tls_in_buff), m) \in Seq(1..Total)
  <1>1. /\ Len(tls_in_buff) \in Nat /\ arrived \in 0..Total /\ Total \in Nat
      BY EndsFacts DEF Inv, TypeOK
  <1>2. /\ k \in Nat /\ m \in Nat /\ Len(tls_in_buff) <= k /\ k <= m
        /\ m \in Len(tls_in_buff)..Total /\ m \in Len(tls_in_buff)..arrived
        /\ Len(tls_in_buff) \in 0..Total
      BY <1>1
  <1>3. Piece(Len(tls_in_buff), m) \in Seq(1..Total)
      BY <1>2, PieceType
  <1>4. buffer \o Piece(k, m) = Piece(Len(tls_in_buff), m)
      BY <1>1, <1>2, PieceConcat
  <1> QED BY <1>2, <1>3, <1>4

LEMMA RecvMessageStep == Inv /\ RecvMessage => Inv'
  <1> SUFFICES ASSUME Inv, RecvMessage PROVE Inv'
      OBVIOUS
  <1> DEFINE h == Head(internal_in_q)
             b == buffer \o h
  <1>1. TypeOK /\ Given /\ Progress
      BY DEF Inv
  <1>2. /\ pc \in {"recv rest", "recv"}
        /\ internal_in_q # <<>> /\ internal_in_q' = Tail(internal_in_q)
        /\ UNCHANGED <<delivered, arrived, remote>>
      BY DEF RecvMessage, InRecv
  <1>3. /\ h \in Seq(1..Total) /\ internal_in_q' \in Seq(Seq(1..Total)) /\ EndIsLast'
        /\ h = EndItem => internal_in_q' = <<>> /\ remote = "ended"
        /\ \E k \in Len(tls_in_buff)..arrived : \E m \in k..arrived :
              /\ buffer = Piece(Len(tls_in_buff), k) /\ h = Piece(k, m)
              /\ Holds(internal_in_q', m, arrived)
      BY <1>2, HeadFacts
  <1>a. PICK k \in Len(tls_in_buff)..arrived : \E m \in k..arrived :
              /\ buffer = Piece(Len(tls_in_buff), k) /\ h = Piece(k, m)
              /\ Holds(internal_in_q', m, arrived)
      BY <1>3
  <1>4. PICK m \in k..arrived :
              /\ buffer = Piece(Len(tls_in_buff), k) /\ h = Piece(k, m)
              /\ Holds(internal_in_q', m, arrived)
      BY <1>a
  <1> HIDE DEF h
  <1>5. /\ m \in Len(tls_in_buff)..arrived
        /\ b = Piece(Len(tls_in_buff), m) /\ b \in Seq(1..Total)
      BY <1>4, Joined
  <1>6. \/ h = EndItem /\ Return(<<>>, <<>>)
        \/ HasRecord(b) /\ Return(FirstRecord(b), AfterRecord(b))
        \/ ~HasRecord(b) /\ Return(<<>>, b)
        \/ buffer' = b /\ UNCHANGED <<pc, tls_in_buff>>
      BY DEF RecvMessage, h
  <1> HIDE DEF b
  <1>7. \* The steps that give the TLS object nothing.
        ASSUME UNCHANGED tls_in_buff, pc' \in {"recv", "recv rest", "closed"},
               \/ buffer' = b
               \/ buffer' = <<>> /\ internal_in_q' = <<>> /\ remote = "ended"
        PROVE  Inv'
      <2>1. TypeOK'
          <3>1. buffer' \in Seq(1..Total)
              <4>1. <<>> \in Seq(1..Total)
                  OBVIOUS
              <4> QED BY <1>5, <1>7, <4>1
          <3> QED BY <1>1, <1>2, <1>3, <1>7, <3>1 DEF TypeOK, PcType
      <2>2. Given'
          BY <1>1, <1>7 DEF Given
      <2>3. Kept'
          BY <1>2, <1>4, <1>5, <1>7 DEF Kept, Dropped
      <2>4. Progress'
          BY <1>1, <1>2, <1>7 DEF Progress
      <2> QED BY <1>3, <2>1, <2>2, <2>3, <2>4 DEF Inv
  <1>8. tls_in_buff \in Seq(1..Total)
      BY <1>1 DEF TypeOK
  <1>9. CASE h = EndItem /\ Return(<<>>, <<>>)
      <2>1. tls_in_buff' = tls_in_buff /\ buffer' = <<>> /\ pc' \in {"recv", "closed"}
          <3>1. tls_in_buff \o <<>> = tls_in_buff
              BY <1>8
          <3> QED BY <1>2, <1>9, <3>1 DEF Return
      <2> QED BY <1>3, <1>7, <1>9, <2>1
  <1>10. CASE HasRecord(b) /\ Return(FirstRecord(b), AfterRecord(b))
      <2>1. tls_in_buff' = tls_in_buff \o FirstRecord(b) /\ buffer' = AfterRecord(b)
          BY <1>10 DEF Return
      <2>2. FirstRecord(b) # <<>>
          BY <1>1, <1>5, <1>10, <2>1, FeedFirst
      <2>3. pc' = "handshake"
          BY <1>10, <2>2 DEF Return
      <2> QED BY <1>2, <1>3, <1>4, <1>5, <1>10, <2>1, <2>3, TakeRecord
  <1>11. CASE ~HasRecord(b) /\ Return(<<>>, b)
      <2>1. tls_in_buff' = tls_in_buff /\ buffer' = b /\ pc' \in {"recv", "closed"}
          <3>1. tls_in_buff \o <<>> = tls_in_buff
              BY <1>8
          <3> QED BY <1>2, <1>11, <3>1 DEF Return
      <2> QED BY <1>7, <2>1
  <1>12. CASE buffer' = b /\ UNCHANGED <<pc, tls_in_buff>>
      BY <1>2, <1>7, <1>12
  <1> QED BY <1>6, <1>9, <1>10, <1>11, <1>12

LEMMA GetMessageStep == Inv /\ GetMessage => Inv'
  <1> SUFFICES ASSUME Inv, GetMessage PROVE Inv'
      OBVIOUS
  <1> DEFINE h == Head(internal_in_q)
             b == buffer \o h
  <1>1. TypeOK /\ Given /\ Progress
      BY DEF Inv
  <1>2. /\ pc \in {"handed", "waiting"}
        /\ internal_in_q # <<>> /\ internal_in_q' = Tail(internal_in_q)
        /\ buffer' = b
        /\ UNCHANGED <<tls_in_buff, delivered, arrived, remote>>
      BY DEF GetMessage
  <1>3. /\ h \in Seq(1..Total) /\ internal_in_q' \in Seq(Seq(1..Total)) /\ EndIsLast'
        /\ \E k \in Len(tls_in_buff)..arrived : \E m \in k..arrived :
              /\ buffer = Piece(Len(tls_in_buff), k) /\ h = Piece(k, m)
              /\ Holds(internal_in_q', m, arrived)
      BY <1>2, HeadFacts
  <1>a. PICK k \in Len(tls_in_buff)..arrived : \E m \in k..arrived :
              /\ buffer = Piece(Len(tls_in_buff), k) /\ h = Piece(k, m)
              /\ Holds(internal_in_q', m, arrived)
      BY <1>3
  <1>4. PICK m \in k..arrived :
              /\ buffer = Piece(Len(tls_in_buff), k) /\ h = Piece(k, m)
              /\ Holds(internal_in_q', m, arrived)
      BY <1>a
  <1>5. pc' = IF h = EndItem THEN "closed"
              ELSE IF Len(buffer') < 5 THEN "waiting" ELSE "feeding"
      BY DEF GetMessage
  <1> HIDE DEF h
  <1>6. /\ m \in Len(tls_in_buff)..arrived
        /\ b = Piece(Len(tls_in_buff), m) /\ b \in Seq(1..Total)
      BY <1>4, Joined
  <1> HIDE DEF b
  <1>7. TypeOK'
      BY <1>1, <1>2, <1>3, <1>5, <1>6 DEF TypeOK, PcType
  <1>8. Kept'
      BY <1>2, <1>4, <1>6 DEF Kept
  <1>9. RecordsFed \in Nat /\ Handshake \in Nat /\ RecordsFed' = RecordsFed
      <2>1. RecordsFed \in 0..Len(Sizes)
          BY <1>1, FedNow
      <2>2. RecordsFed' = RecordsFed
          BY <1>2 DEF RecordsFed
      <2> QED BY <2>1, <2>2, SizesFacts, RecordAssumption
  <1>10. Progress'
      <2>1. RecordsFed >= Handshake /\ Handshake + delivered = RecordsFed
          <3>1. CASE pc = "handed"
              <4>1. RecordsFed = Handshake /\ delivered = 0
                  BY <1>1, <3>1 DEF Progress
              <4> QED BY <1>9, <4>1
          <3>2. CASE pc = "waiting"
              BY <1>1, <3>2 DEF Progress
          <3> QED BY <1>2, <3>1, <3>2
      <2>2. Len(buffer') \in Nat
          BY <1>2, <1>6
      <2> QED BY <1>2, <1>5, <1>9, <2>1, <2>2 DEF Progress
  <1>11. Given'
      BY <1>1, <1>2 DEF Given
  <1> QED BY <1>3, <1>7, <1>8, <1>10, <1>11 DEF Inv

LEMMA InvStep == Inv /\ [Next]_vars => Inv'
  <1> SUFFICES ASSUME Inv, [Next]_vars PROVE Inv'
      OBVIOUS
  <1>1. CASE UNCHANGED vars
      BY <1>1 DEF vars, Inv, TypeOK, Given, Kept, Dropped, EndIsLast, Progress, RecordsFed
  <1> QED BY <1>1, ArriveStep, AgentEndStep, MoveStep, RecvFromRestStep,
             RecvMessageStep, GetMessageStep, FeedStep DEF Next

-----------------------------------------------------------------------------
(* The theorems.                                                            *)

\* The invariant holds in every behaviour.
THEOREM Invariance == Spec => []Inv
  BY InitInv, InvStep, PTL DEF Spec

\* Every variable keeps its type: in particular the buffers hold bytes that the
\* peer sent, and no more records are delivered than there are.
THEOREM TypeCorrect == Spec => []TypeOK
  <1>1. Inv => TypeOK
      BY DEF Inv
  <1> QED BY <1>1, Invariance, PTL

\* However the stream is cut into messages, the TLS object is given whole
\* records in the order of the stream, and no byte beyond them is lost.
THEOREM RecordsAlwaysWhole == Spec => []RecordsWhole
  <1>1. ASSUME Inv PROVE RecordsWhole
      <2>1. \A n \in Nat : UpTo(n) = Piece(0, n)
          BY DEF UpTo, Piece
      <2>2. /\ TypeOK /\ Given /\ Kept
            /\ Len(tls_in_buff) \in Nat /\ arrived \in Nat
            /\ internal_in_q \in Seq(Seq(1..Total))
          BY <1>1 DEF Inv, TypeOK
      <2>3. ASSUME pc # "closed", remote = "open"
            PROVE  tls_in_buff \o buffer \o FlattenSeq(internal_in_q) = UpTo(arrived)
          <3>1. PICK k \in Len(tls_in_buff)..arrived :
                   buffer = Piece(Len(tls_in_buff), k) /\ Holds(internal_in_q, k, arrived)
              BY <2>2, <2>3 DEF Kept, Dropped
          <3>2. k \in Nat /\ Len(tls_in_buff) <= k /\ k <= arrived
                /\ 0 \in Nat /\ 0 <= Len(tls_in_buff) /\ 0 <= k
              BY <2>2
          <3>3. FlattenSeq(internal_in_q) = Piece(k, arrived)
              BY <2>2, <3>1, <3>2, HoldsFlatten
          <3>4. tls_in_buff = Piece(0, Len(tls_in_buff))
              BY <2>2 DEF Given
          <3>5. tls_in_buff \o buffer = Piece(0, k)
              <4>1. Piece(0, Len(tls_in_buff)) \o Piece(Len(tls_in_buff), k) = Piece(0, k)
                  BY <2>2, <3>2, PieceConcat
              <4> QED BY <3>1, <3>4, <4>1
          <3>6. Piece(0, k) \o Piece(k, arrived) = Piece(0, arrived)
              BY <2>2, <3>2, PieceConcat
          <3> QED BY <2>1, <2>2, <3>3, <3>5, <3>6
      <2> QED BY <2>1, <2>2, <2>3 DEF RecordsWhole, Given
  <1> QED BY <1>1, Invariance, PTL

\* When the reader task waits for another message no whole record is in its
\* buffer, and what it was given is delivered.
THEOREM NothingIsHeldBack == Spec => []NothingHeldBack
  <1>1. ASSUME Inv PROVE NothingHeldBack
      <2>1. pc = "waiting" => Len(buffer) \in Nat /\ Len(buffer) <= 5
          BY <1>1 DEF Inv, Progress, TypeOK
      <2>2. pc = "waiting" => Handshake + delivered = RecordsFed
          BY <1>1 DEF Inv, Progress
      <2>3. pc = "waiting" => ~HasRecord(buffer)
          BY <2>1 DEF HasRecord
      <2> QED BY <2>2, <2>3 DEF NothingHeldBack
  <1> QED BY <1>1, Invariance, PTL

=============================================================================
