---------------------------- MODULE StreamLemmas ----------------------------
(***************************************************************************)
(* Facts about streams that are cut into messages.  An element of a stream *)
(* is its position, so that a message is a sequence of consecutive numbers.*)
(* A queue holds the stream from a to b if its messages follow one another *)
(* without a gap; some may be empty.                                       *)
(*                                                                         *)
(* The induction theorems of the library take operators as parameters,     *)
(* which the provers cannot instantiate.  Induction is over a SET of       *)
(* numbers here, from the theorem that < is well-founded.                  *)
(***************************************************************************)
EXTENDS Integers, Sequences, SequencesExt, SequenceTheorems,
        WellFoundedInduction, TLAPS

Piece(a, b) == [i \in 1..(b - a) |-> a + i]

\* bound[i] is the position of the last element of the first i messages.
CutAt(q, bound) == \A i \in 1..Len(q) : /\ bound[i - 1] <= bound[i]
                                        /\ q[i] = Piece(bound[i - 1], bound[i])

Holds(q, a, b) ==
    \E bound \in [0..Len(q) -> 0..b] :
        bound[0] = a /\ bound[Len(q)] = b /\ CutAt(q, bound)

-----------------------------------------------------------------------------
(* Induction.                                                               *)

Less == {p \in Nat \X Nat : p[1] < p[2]}

LEMMA LessIsWellFounded == IsWellFoundedOn(Less, Nat)
  BY NatLessThanWellFounded DEF OpToRel, Less

LEMMA LeastNumber ==
    ASSUME NEW S \in SUBSET Nat, S # {}
    PROVE  \E n \in S : \A m \in S : n <= m
  <1>1. \E n \in S : \A m \in S : <<m, n>> \notin Less
      BY LessIsWellFounded, WFMin
  <1>2. ASSUME NEW n \in S, NEW m \in S, <<m, n>> \notin Less
        PROVE  n <= m
      BY <1>2 DEF Less
  <1> QED BY <1>1, <1>2

LEMMA SetInduction ==
    ASSUME NEW S \in SUBSET Nat, NEW n \in Nat, 0 \in S,
           \A k \in 0..(n - 1) : k \in S => k + 1 \in S
    PROVE  0..n \subseteq S
  <1> SUFFICES ASSUME (0..n) \ S # {} PROVE FALSE
      OBVIOUS
  <1>1. PICK k \in (0..n) \ S : \A m \in (0..n) \ S : k <= m
      <2>1. (0..n) \ S \in SUBSET Nat
          OBVIOUS
      <2> QED BY <2>1, LeastNumber
  <1>2. k # 0 /\ k - 1 \in 0..(n - 1) /\ k - 1 \notin S
      BY <1>1
  <1> QED BY <1>1, <1>2

-----------------------------------------------------------------------------
(* Operations on sequences.                                                 *)

LEMMA Shift ==
    ASSUME NEW S, NEW s \in Seq(S), s # <<>>
    PROVE  /\ Tail(s) \in Seq(S) /\ Head(s) = s[1] /\ Head(s) \in S
           /\ DOMAIN s = 1..Len(s) /\ Len(s) \in Nat \ {0}
           /\ DOMAIN Tail(s) = 1..(Len(s) - 1)
           /\ \A i \in 1..(Len(s) - 1) : Tail(s)[i] = s[i + 1]
  OBVIOUS

LEMMA Extend ==
    ASSUME NEW S, NEW s \in Seq(S), NEW e \in S
    PROVE  /\ Append(s, e) \in Seq(S)
           /\ DOMAIN s = 1..Len(s) /\ Len(s) \in Nat
           /\ DOMAIN Append(s, e) = 1..(Len(s) + 1)
           /\ \A i \in 1..Len(s) : Append(s, e)[i] = s[i]
           /\ Append(s, e)[Len(s) + 1] = e
  OBVIOUS

LEMMA Prefix ==
    ASSUME NEW S, NEW s \in Seq(S), NEW n \in 0..Len(s)
    PROVE  /\ SubSeq(s, 1, n) \in Seq(S)
           /\ DOMAIN s = 1..Len(s) /\ Len(s) \in Nat
           /\ DOMAIN SubSeq(s, 1, n) = 1..n
           /\ \A i \in 1..n : SubSeq(s, 1, n)[i] = s[i]
  OBVIOUS

\* A sequence is cut into two and joined again.
LEMMA CutFacts ==
    ASSUME NEW S, NEW s \in Seq(S), NEW n \in 0..Len(s)
    PROVE  /\ SubSeq(s, 1, n) \in Seq(S)
           /\ SubSeq(s, n + 1, Len(s)) \in Seq(S)
           /\ SubSeq(s, 1, n) \o SubSeq(s, n + 1, Len(s)) = s
  <1>1. Len(s) \in Nat /\ \A i \in 1..Len(s) : s[i] \in S
      OBVIOUS
  <1>2. SubSeq(s, 1, n) \in Seq(S) /\ SubSeq(s, n + 1, Len(s)) \in Seq(S)
      BY <1>1, SubSeqProperties
  <1>3. SubSeq(s, 1, n) \o SubSeq(s, n + 1, Len(s)) = SubSeq(s, 1, Len(s))
      <2>1. 1 \in 1..(Len(s) + 1) /\ n \in (1 - 1)..Len(s) /\ Len(s) \in n..Len(s)
          BY <1>1
      <2> QED BY <2>1, ConcatAdjacentSubSeq
  <1> QED BY <1>2, <1>3, SubSeqFull

-----------------------------------------------------------------------------
(* Pieces, and queues of them.                                              *)

LEMMA PieceFacts ==
    ASSUME NEW a \in Nat, NEW b \in Nat, a <= b
    PROVE  /\ Piece(a, b) \in Seq(Nat)
           /\ Len(Piece(a, b)) = b - a
           /\ \A i \in 1..(b - a) : Piece(a, b)[i] = a + i
  BY DEF Piece

LEMMA PieceConcat ==
    ASSUME NEW a \in Nat, NEW b \in Nat, NEW c \in Nat, a <= b, b <= c
    PROVE  Piece(a, b) \o Piece(b, c) = Piece(a, c)
  BY DEF Piece

\* A piece is cut into two at any position.
LEMMA PieceCut ==
    ASSUME NEW a \in Nat, NEW b \in Nat, a <= b, NEW n \in 0..(b - a)
    PROVE  /\ SubSeq(Piece(a, b), 1, n) = Piece(a, a + n)
           /\ SubSeq(Piece(a, b), n + 1, b - a) = Piece(a + n, b)
  <1>1. Piece(a, b) \in Seq(Nat) /\ Len(Piece(a, b)) = b - a
      BY PieceFacts
  <1>2. SubSeq(Piece(a, b), 1, n) = Piece(a, a + n)
      BY <1>1 DEF Piece
  <1>3. SubSeq(Piece(a, b), n + 1, b - a) = Piece(a + n, b)
      BY <1>1 DEF Piece
  <1> QED BY <1>2, <1>3

LEMMA HoldsNothing ==
    ASSUME NEW a \in Nat
    PROVE  Holds(<<>>, a, a)
  <1> DEFINE bound == [i \in 0..0 |-> a]
  <1>1. /\ bound \in [0..Len(<<>>) -> 0..a]
        /\ bound[0] = a /\ bound[Len(<<>>)] = a
        /\ CutAt(<<>>, bound)
      BY DEF CutAt
  <1> QED BY <1>1 DEF Holds

LEMMA HoldsAppend ==
    ASSUME NEW S, NEW q \in Seq(S), NEW a \in Nat, NEW b \in Nat, NEW c \in Nat,
           Holds(q, a, b), b <= c, Piece(b, c) \in S
    PROVE  Holds(Append(q, Piece(b, c)), a, c)
  <1> DEFINE r == Append(q, Piece(b, c))
  <1>1. PICK bound \in [0..Len(q) -> 0..b] :
           bound[0] = a /\ bound[Len(q)] = b /\ CutAt(q, bound)
      BY DEF Holds
  <1>2. /\ Len(q) \in Nat /\ Len(r) = Len(q) + 1
        /\ \A i \in 1..Len(q) : r[i] = q[i]
        /\ r[Len(q) + 1] = Piece(b, c)
      OBVIOUS
  <1> DEFINE more == [i \in 0..Len(r) |-> IF i <= Len(q) THEN bound[i] ELSE c]
  <1> HIDE DEF r
  <1>3. /\ more \in [0..Len(r) -> 0..c]
        /\ more[0] = a /\ more[Len(r)] = c
      BY <1>1, <1>2
  <1>4. CutAt(r, more)
      <2>1. ASSUME NEW i \in 1..Len(q)
            PROVE  more[i - 1] <= more[i] /\ r[i] = Piece(more[i - 1], more[i])
          BY <1>1, <1>2 DEF CutAt
      <2>2. /\ more[Len(r) - 1] <= more[Len(r)]
            /\ r[Len(r)] = Piece(more[Len(r) - 1], more[Len(r)])
          BY <1>1, <1>2
      <2>3. \A i \in 1..Len(r) : i \in 1..Len(q) \/ i = Len(r)
          BY <1>2
      <2> HIDE DEF more
      <2> QED BY <2>1, <2>2, <2>3 DEF CutAt
  <1> QED BY <1>3, <1>4 DEF Holds, r

LEMMA HoldsTail ==
    ASSUME NEW S, NEW q \in Seq(S), q # <<>>, NEW a \in Nat, NEW b \in Nat,
           Holds(q, a, b)
    PROVE  \E m \in a..b : Head(q) = Piece(a, m) /\ Holds(Tail(q), m, b)
  <1>1. PICK bound \in [0..Len(q) -> 0..b] :
           bound[0] = a /\ bound[Len(q)] = b /\ CutAt(q, bound)
      BY DEF Holds
  <1>2. /\ Len(q) \in Nat \ {0} /\ Len(Tail(q)) = Len(q) - 1
        /\ Head(q) = q[1]
        /\ \A i \in 1..(Len(q) - 1) : Tail(q)[i] = q[i + 1]
      OBVIOUS
  <1> DEFINE rest == [i \in 0..Len(Tail(q)) |-> bound[i + 1]]
  <1>3. /\ rest \in [0..Len(Tail(q)) -> 0..b]
        /\ rest[0] = bound[1] /\ rest[Len(Tail(q))] = b
      BY <1>1, <1>2
  <1>4. CutAt(Tail(q), rest)
      <2> SUFFICES ASSUME NEW i \in 1..Len(Tail(q))
                   PROVE  /\ rest[i - 1] <= rest[i]
                          /\ Tail(q)[i] = Piece(rest[i - 1], rest[i])
          BY DEF CutAt
      <2>1. i + 1 \in 1..Len(q) /\ (i + 1) - 1 = i
          BY <1>2
      <2>2. bound[i] <= bound[i + 1] /\ q[i + 1] = Piece(bound[i], bound[i + 1])
          BY <1>1, <2>1 DEF CutAt
      <2> QED BY <1>2, <2>1, <2>2
  <1>5. bound[1] \in a..b /\ Head(q) = Piece(a, bound[1])
      BY <1>1, <1>2 DEF CutAt
  <1> QED BY <1>3, <1>4, <1>5 DEF Holds

\* The messages of a queue joined together are the stream it holds.
LEMMA HoldsFlatten ==
    ASSUME NEW S, NEW q \in Seq(S), NEW a \in Nat, NEW b \in Nat, Holds(q, a, b)
    PROVE  FlattenSeq(q) = Piece(a, b) /\ a <= b
  <1>1. PICK bound \in [0..Len(q) -> 0..b] :
           bound[0] = a /\ bound[Len(q)] = b /\ CutAt(q, bound)
      BY DEF Holds
  <1> DEFINE n == Len(q)
             Joins(f) == f = [i \in 1..n |-> IF i = 1 THEN q[i] ELSE f[i - 1] \o q[i]]
             joined == CHOOSE f : Joins(f)
             pieces == [i \in 1..n |-> Piece(a, bound[i])]
             Above == {i \in Nat : i \in 0..n => a <= bound[i]}
             Same == {i \in Nat : i \in 1..n => joined[i] = pieces[i]}
  <1>2. n \in Nat
      OBVIOUS
  <1>3. \A i \in 0..n : a <= bound[i]
      <2>1. 0 \in Above
          BY <1>1
      <2>2. ASSUME NEW k \in 0..(n - 1), k \in Above PROVE k + 1 \in Above
          <3>1. bound[(k + 1) - 1] <= bound[k + 1]
              BY <1>1, <1>2 DEF CutAt
          <3>2. bound[k] <= bound[k + 1]
              BY <3>1
          <3>3. bound[k] \in Nat /\ bound[k + 1] \in Nat /\ k \in 0..n
              BY <1>1, <1>2
          <3> QED BY <2>2, <3>2, <3>3
      <2>3. 0..n \subseteq Above
          BY <1>2, <2>1, <2>2, SetInduction
      <2> QED BY <2>3
  <1>4. CASE n = 0
      <2>1. q = <<>> /\ b = a
          BY <1>1, <1>4
      <2> QED BY <2>1 DEF FlattenSeq, Piece
  <1>5. CASE n # 0
      <2>1. FlattenSeq(q) = joined[n]
          BY <1>5 DEF FlattenSeq
      <2>2. Joins(pieces)
          <3>1. ASSUME NEW i \in 1..n
                PROVE  pieces[i] = IF i = 1 THEN q[i] ELSE pieces[i - 1] \o q[i]
              <4>a. i \in 1..Len(q) /\ i \in 0..n /\ i - 1 \in 0..n
                  BY <1>1
              <4>b. bound[i - 1] \in Nat /\ bound[i] \in Nat
                  BY <1>1, <4>a
              <4>1. /\ bound[i - 1] <= bound[i] /\ q[i] = Piece(bound[i - 1], bound[i])
                    /\ bound[i - 1] \in Nat /\ bound[i] \in Nat
                  BY <1>1, <4>a, <4>b DEF CutAt
              <4>2. a <= bound[i - 1]
                  BY <1>2, <1>3
              <4>3. CASE i = 1
                  BY <1>1, <4>1, <4>3
              <4>4. CASE i # 1
                  <5>1. /\ pieces[i - 1] = Piece(a, bound[i - 1])
                        /\ pieces[i] = Piece(a, bound[i])
                      BY <1>2, <4>4
                  <5>2. Piece(a, bound[i - 1]) \o Piece(bound[i - 1], bound[i])
                           = Piece(a, bound[i])
                      BY <4>1, <4>2, PieceConcat
                  <5> HIDE DEF pieces
                  <5> QED BY <4>1, <4>4, <5>1, <5>2
              <4> QED BY <4>3, <4>4
          <3> QED BY <3>1
      <2>3. Joins(joined)
          BY <2>2
      <2>4. \A i \in Nat : i \in 1..n => joined[i] = pieces[i]
          <3> HIDE DEF joined, pieces
          <3>1. 0 \in Same
              OBVIOUS
          <3>2. ASSUME NEW k \in 0..(n - 1), k \in Same PROVE k + 1 \in Same
              <4>1. CASE k = 0
                  BY <1>2, <2>2, <2>3, <4>1
              <4>2. CASE k # 0
                  <5>1. joined[k] = pieces[k] /\ k + 1 \in 1..n /\ (k + 1) - 1 = k /\ k + 1 # 1
                      BY <1>2, <3>2, <4>2
                  <5>2. joined[k + 1] = joined[k] \o q[k + 1]
                      BY <2>3, <5>1
                  <5>3. pieces[k + 1] = pieces[k] \o q[k + 1]
                      BY <2>2, <5>1
                  <5>4. joined[k + 1] = pieces[k + 1]
                      BY <5>1, <5>2, <5>3
                  <5> QED BY <5>4
              <4> QED BY <4>1, <4>2
          <3>3. 0..n \subseteq Same
              BY <1>2, <3>1, <3>2, SetInduction
          <3> QED BY <3>3, <1>2
      <2> QED BY <1>1, <1>2, <1>3, <1>5, <2>1, <2>4
  <1> QED BY <1>1, <1>2, <1>3, <1>4, <1>5
-----------------------------------------------------------------------------
(* Taking an element out.                                                 *)

\* r is the sequence s without its m-th element.
Without(s, m, r) ==
    /\ Len(r) = Len(s) - 1
    /\ DOMAIN r = 1..(Len(s) - 1)
    /\ \A j \in 1..(Len(s) - 1) : r[j] = IF j < m THEN s[j] ELSE s[j + 1]

LEMMA RemoveAtFacts ==
    ASSUME NEW S, NEW s \in Seq(S), NEW m \in 1..Len(s)
    PROVE  RemoveAt(s, m) \in Seq(S) /\ Without(s, m, RemoveAt(s, m))
  <1> DEFINE A == SubSeq(s, 1, m - 1)
             B == SubSeq(s, m + 1, Len(s))
  <1>1. Len(s) \in Nat
      OBVIOUS
  <1>2. /\ A \in Seq(S) /\ Len(A) = m - 1
        /\ \A j \in 1..(m - 1) : A[j] = s[j]
      BY <1>1
  <1>3. /\ B \in Seq(S) /\ Len(B) = Len(s) - m
        /\ \A j \in 1..(Len(s) - m) : B[j] = s[m + j]
      BY <1>1
  <1>4. RemoveAt(s, m) = A \o B
      BY DEF RemoveAt
  <1> HIDE DEF A, B
  <1>5. Len(A) + Len(B) = Len(s) - 1
      BY <1>1, <1>2, <1>3
  <1>6. A \o B \in Seq(S) /\ Len(A \o B) = Len(s) - 1
      BY <1>2, <1>3, <1>5, ConcatProperties
  <1>7. \A j \in 1..(Len(s) - 1) : (A \o B)[j] = IF j <= m - 1 THEN A[j] ELSE B[j - (m - 1)]
      BY <1>2, <1>3, <1>5, ConcatProperties
  <1>8. ASSUME NEW j \in 1..(Len(s) - 1)
        PROVE  (A \o B)[j] = IF j < m THEN s[j] ELSE s[j + 1]
      <2>1. CASE j < m
          BY <1>1, <1>2, <1>7, <2>1
      <2>2. CASE ~(j < m)
          <3>1. j - (m - 1) \in 1..(Len(s) - m) /\ m + (j - (m - 1)) = j + 1
              BY <1>1, <2>2
          <3>2. (A \o B)[j] = B[j - (m - 1)]
              <4>1. ~(j <= m - 1)
                  BY <1>1, <2>2
              <4> QED BY <1>7, <4>1
          <3>3. B[j - (m - 1)] = s[m + (j - (m - 1))]
              BY <1>3, <3>1
          <3> QED BY <2>2, <3>1, <3>2, <3>3
      <2> QED BY <2>1, <2>2
  <1> QED BY <1>1, <1>4, <1>6, <1>8 DEF Without

\* The least of the positions of a set.
LEMMA MinIsLeast ==
    ASSUME NEW I \in SUBSET Nat, I # {}
    PROVE  Min(I) \in I /\ \A i \in I : Min(I) <= i
  <1>1. \E x \in I : \A y \in I : x =< y
      BY LeastNumber
  <1> QED BY <1>1 DEF Min

\* RemoveFirst takes the first of the elements equal to e out.
LEMMA RemoveFirstFacts ==
    ASSUME NEW S, NEW s \in Seq(S), NEW e, \E i \in DOMAIN s : s[i] = e
    PROVE  \E m \in 1..Len(s) : /\ s[m] = e
                               /\ RemoveFirst(s, e) \in Seq(S)
                               /\ Without(s, m, RemoveFirst(s, e))
  <1> DEFINE I == {i \in 1..Len(s) : s[i] = e}
             m == SelectInSeq(s, LAMBDA v : v = e)
  <1>1. I \in SUBSET Nat /\ I # {} /\ Len(s) \in Nat
      OBVIOUS
  <1>2. m = Min(I)
      BY <1>1 DEF SelectInSeq
  <1>3. Min(I) \in I
      <2> HIDE DEF I
      <2> QED BY <1>1, MinIsLeast
  <1>4. m \in 1..Len(s) /\ s[m] = e
      BY <1>2, <1>3
  <1>5. RemoveFirst(s, e) = RemoveAt(s, m)
      BY <1>1 DEF RemoveFirst
  <1> HIDE DEF m
  <1> QED BY <1>4, <1>5, RemoveAtFacts

Unique(s) == \A i, j \in DOMAIN s : s[i] = s[j] => i = j

LEMMA RemoveUnique ==
    ASSUME NEW S, NEW s \in Seq(S), Unique(s), NEW e
    PROVE  /\ RemoveFirst(s, e) \in Seq(S) /\ Unique(RemoveFirst(s, e))
           /\ \A d : Contains(RemoveFirst(s, e), d) <=> Contains(s, d) /\ d # e
  <1> DEFINE r == RemoveFirst(s, e)
  <1>1. DOMAIN s = 1..Len(s) /\ Len(s) \in Nat
      OBVIOUS
  <1>2. CASE ~ \E i \in 1..Len(s) : s[i] = e
      <2>1. r = s
          BY <1>2 DEF RemoveFirst
      <2> QED BY <1>2, <2>1 DEF Contains
  <1>3. CASE \E i \in 1..Len(s) : s[i] = e
      <2>1. \E i \in DOMAIN s : s[i] = e
          BY <1>1, <1>3
      <2>a. \E m \in 1..Len(s) : /\ s[m] = e
                                /\ RemoveFirst(s, e) \in Seq(S)
                                /\ Without(s, m, RemoveFirst(s, e))
          BY <2>1, RemoveFirstFacts
      <2>b. r = RemoveFirst(s, e)
          OBVIOUS
      <2> HIDE DEF r
      <2>2. PICK m \in 1..Len(s) :
               /\ s[m] = e /\ r \in Seq(S) /\ DOMAIN r = 1..(Len(s) - 1)
               /\ Len(r) = Len(s) - 1
               /\ \A j \in 1..(Len(s) - 1) : r[j] = IF j < m THEN s[j] ELSE s[j + 1]
          BY <2>a, <2>b DEF Without
      <2>3. Len(r) = Len(s) - 1
          BY <2>2
      <2> DEFINE old(j) == IF j < m THEN j ELSE j + 1
      <2>4. \A j \in DOMAIN r : old(j) \in DOMAIN s /\ old(j) # m /\ r[j] = s[old(j)]
          BY <1>1, <2>2
      <2>5. \A i, j \in DOMAIN r : old(i) = old(j) => i = j
          BY <1>1, <2>2
      <2>6. Unique(r)
          <3> SUFFICES ASSUME NEW i \in DOMAIN r, NEW j \in DOMAIN r, r[i] = r[j]
                       PROVE  i = j
              BY DEF Unique
          <3> HIDE DEF old
          <3>1. old(i) = old(j)
              BY <2>4 DEF Unique
          <3> QED BY <2>5, <3>1
      <2>7. ASSUME NEW d, Contains(s, d), d # e PROVE Contains(r, d)
          <3>1. PICK i \in 1..Len(s) : s[i] = d
              BY <2>7 DEF Contains
          <3>2. CASE i < m
              <4>1. i \in 1..(Len(s) - 1) /\ r[i] = s[i]
                  BY <1>1, <2>2, <3>2
              <4> QED BY <2>3, <3>1, <4>1 DEF Contains
          <3>3. CASE i > m
              <4>1. i - 1 \in 1..(Len(s) - 1) /\ r[i - 1] = s[i]
                  BY <1>1, <2>2, <3>3
              <4> QED BY <2>3, <3>1, <4>1 DEF Contains
          <3> QED BY <1>1, <2>2, <2>7, <3>1, <3>2, <3>3
      <2>8. ASSUME NEW d, Contains(r, d) PROVE Contains(s, d) /\ d # e
          <3>1. PICK j \in DOMAIN r : r[j] = d
              BY <2>2, <2>3, <2>8 DEF Contains
          <3> HIDE DEF old
          <3>2. old(j) \in DOMAIN s /\ old(j) # m /\ s[old(j)] = d
              BY <2>4, <3>1
          <3> QED BY <1>1, <2>2, <3>2 DEF Contains, Unique
      <2> QED BY <2>2, <2>6, <2>7, <2>8 DEF r
  <1> QED BY <1>2, <1>3

-----------------------------------------------------------------------------
(* A channel carries the chunks of several streams and other messages.      *)
(* Those of one stream are its lane: lane[m] is the message with the m-th   *)
(* chunk.  got is what left the channel at its end, and n the number of     *)
(* chunks that entered it.  InOrder: chunks leave the channel one after     *)
(* the other and once.  Whole: none has been lost.                          *)

Pos == Nat \ {0}

IsLane(lane) == \A l, m \in Pos : lane[l] = lane[m] => l = m

Carries(ch, lane, m) == \E i \in DOMAIN ch : ch[i] = lane[m]

Behind(ch, lane, got, i, m) ==
    \A l \in 1..(m - 1) : l \in got \/ \E j \in 1..(i - 1) : ch[j] = lane[l]

InOrder(ch, lane, got, n) ==
    /\ \A m \in Pos : m \in got => m <= n
    /\ \A i \in DOMAIN ch, m \in Pos :
          ch[i] = lane[m] => /\ m \notin got /\ m <= n
                            /\ \A j \in DOMAIN ch : ch[j] = lane[m] => j = i
                            /\ Behind(ch, lane, got, i, m)

Whole(ch, lane, got, n) == \A m \in 1..n : m \in got \/ Carries(ch, lane, m)

LEMMA LaneEnter ==
    ASSUME NEW S, NEW ch \in Seq(S), NEW lane, IsLane(lane), NEW got, NEW n \in Nat,
           lane[n + 1] \in S, InOrder(ch, lane, got, n), Whole(ch, lane, got, n)
    PROVE  /\ InOrder(Append(ch, lane[n + 1]), lane, got, n + 1)
           /\ Whole(Append(ch, lane[n + 1]), lane, got, n + 1)
  <1> DEFINE more == Append(ch, lane[n + 1])
  <1>1. /\ DOMAIN ch = 1..Len(ch) /\ Len(ch) \in Nat
        /\ DOMAIN more = 1..(Len(ch) + 1)
        /\ \A i \in 1..Len(ch) : more[i] = ch[i]
        /\ more[Len(ch) + 1] = lane[n + 1]
      BY Extend
  <1> HIDE DEF more
  <1>2. Whole(more, lane, got, n + 1)
      <2> SUFFICES ASSUME NEW m \in 1..(n + 1), m \notin got PROVE Carries(more, lane, m)
          BY DEF Whole
      <2>1. CASE m = n + 1
          BY <1>1, <2>1 DEF Carries
      <2>2. CASE m # n + 1
          <3>1. m \in 1..n
              BY <2>2
          <3>2. Carries(ch, lane, m)
              BY <3>1 DEF Whole
          <3> QED BY <1>1, <3>2 DEF Carries
      <2> QED BY <2>1, <2>2
  <1>3. \A m \in Pos : m \in got => m <= n + 1
      BY DEF InOrder, Pos
  <1>4. ASSUME NEW i \in DOMAIN more, NEW m \in Pos, more[i] = lane[m]
        PROVE  /\ m \notin got /\ m <= n + 1
               /\ \A j \in DOMAIN more : more[j] = lane[m] => j = i
               /\ Behind(more, lane, got, i, m)
      <2>1. CASE i \in 1..Len(ch)
          <3>1. ch[i] = lane[m] /\ i \in DOMAIN ch
              BY <1>1, <1>4, <2>1
          <3>2. /\ m \notin got /\ m <= n /\ \A j \in DOMAIN ch : ch[j] = lane[m] => j = i
                /\ Behind(ch, lane, got, i, m)
              BY <3>1 DEF InOrder
          <3>3. m # n + 1 /\ m <= n + 1
              BY <3>2 DEF Pos
          <3>4. \A j \in DOMAIN more : more[j] = lane[m] => j = i
              BY <1>1, <3>2, <3>3 DEF IsLane, Pos
          <3>5. Behind(more, lane, got, i, m)
              <4>1. \A j \in 1..(i - 1) : more[j] = ch[j]
                  BY <1>1, <2>1
              <4> QED BY <3>2, <4>1 DEF Behind
          <3> QED BY <3>2, <3>3, <3>4, <3>5
      <2>2. CASE i = Len(ch) + 1
          <3>1. m = n + 1
              BY <1>1, <1>4, <2>2 DEF IsLane, Pos
          <3>2. m \notin got
              BY <3>1 DEF InOrder, Pos
          <3>3. \A j \in DOMAIN ch : ch[j] # lane[n + 1]
              BY DEF InOrder, Pos
          <3>4. \A j \in DOMAIN more : more[j] = lane[m] => j = i
              BY <1>1, <2>2, <3>1, <3>3
          <3>5. Behind(more, lane, got, i, m)
              <4> SUFFICES ASSUME NEW l \in 1..(m - 1), l \notin got
                           PROVE  \E j \in 1..(i - 1) : more[j] = lane[l]
                  BY DEF Behind
              <4>1. PICK j \in DOMAIN ch : ch[j] = lane[l]
                  BY <3>1 DEF Whole, Carries
              <4>2. j \in 1..(i - 1) /\ more[j] = lane[l]
                  BY <1>1, <2>2, <4>1
              <4> QED BY <4>2
          <3> QED BY <3>1, <3>2, <3>4, <3>5
      <2> QED BY <1>1, <2>1, <2>2
  <1>5. InOrder(more, lane, got, n + 1)
      BY <1>3, <1>4 DEF InOrder
  <1> QED BY <1>2, <1>5 DEF more

\* A message of another kind enters.
LEMMA LaneOther ==
    ASSUME NEW S, NEW ch \in Seq(S), NEW lane, NEW got, NEW n,
           NEW e \in S, \A m \in Pos : e # lane[m], InOrder(ch, lane, got, n)
    PROVE  /\ InOrder(Append(ch, e), lane, got, n)
           /\ Whole(ch, lane, got, n) => Whole(Append(ch, e), lane, got, n)
  <1> DEFINE more == Append(ch, e)
  <1>1. /\ DOMAIN ch = 1..Len(ch) /\ Len(ch) \in Nat
        /\ DOMAIN more = 1..(Len(ch) + 1)
        /\ \A i \in 1..Len(ch) : more[i] = ch[i]
        /\ more[Len(ch) + 1] = e
      BY Extend
  <1> HIDE DEF more
  <1>2. Whole(ch, lane, got, n) => Whole(more, lane, got, n)
      BY <1>1 DEF Whole, Carries
  <1>3. ASSUME NEW i \in DOMAIN more, NEW m \in Pos, more[i] = lane[m]
        PROVE  /\ m \notin got /\ m <= n
               /\ \A j \in DOMAIN more : more[j] = lane[m] => j = i
               /\ Behind(more, lane, got, i, m)
      <2>1. i \in 1..Len(ch) /\ ch[i] = lane[m] /\ i \in DOMAIN ch
          BY <1>1, <1>3
      <2>2. /\ m \notin got /\ m <= n /\ \A j \in DOMAIN ch : ch[j] = lane[m] => j = i
            /\ Behind(ch, lane, got, i, m)
          BY <2>1 DEF InOrder
      <2>3. \A j \in DOMAIN more : more[j] = lane[m] => j = i
          BY <1>1, <2>2
      <2>4. Behind(more, lane, got, i, m)
          <3>1. \A j \in 1..(i - 1) : more[j] = ch[j]
              BY <1>1, <2>1
          <3> QED BY <2>2, <3>1 DEF Behind
      <2> QED BY <2>2, <2>3, <2>4
  <1>4. InOrder(more, lane, got, n)
      BY <1>3 DEF InOrder
  <1> QED BY <1>2, <1>4 DEF more

\* A message leaves.  If it is of the lane, it is the next one.
LEMMA LaneLeave ==
    ASSUME NEW S, NEW ch \in Seq(S), ch # <<>>, NEW lane, IsLane(lane), NEW got, NEW n,
           InOrder(ch, lane, got, n), NEW m \in Pos, Head(ch) = lane[m],
           NEW new, new \cap Pos = (got \cap Pos) \cup {m}
    PROVE  /\ m \notin got /\ m <= n /\ \A l \in 1..(m - 1) : l \in got
           /\ InOrder(Tail(ch), lane, new, n)
           /\ Whole(ch, lane, got, n) => Whole(Tail(ch), lane, new, n)
  <1> DEFINE rest == Tail(ch)
  <1>1. /\ Head(ch) = ch[1] /\ DOMAIN ch = 1..Len(ch) /\ Len(ch) \in Nat \ {0}
        /\ DOMAIN rest = 1..(Len(ch) - 1)
        /\ \A i \in 1..(Len(ch) - 1) : rest[i] = ch[i + 1]
      BY Shift
  <1> HIDE DEF rest
  <1>2. 1 \in DOMAIN ch /\ ch[1] = lane[m]
      BY <1>1
  <1>3. /\ m \notin got /\ m <= n /\ \A j \in DOMAIN ch : ch[j] = lane[m] => j = 1
        /\ Behind(ch, lane, got, 1, m)
      BY <1>2 DEF InOrder
  <1>4. \A l \in 1..(m - 1) : l \in got
      BY <1>3 DEF Behind
  <1>5. \A l \in Pos : l \in new <=> l \in got \/ l = m
      OBVIOUS
  <1>6. Whole(ch, lane, got, n) => Whole(rest, lane, new, n)
      <2> SUFFICES ASSUME Whole(ch, lane, got, n), NEW l \in 1..n, l \notin new
                   PROVE  Carries(rest, lane, l)
          BY DEF Whole
      <2>1. l \in Pos
          BY DEF Pos
      <2>2. l \notin got /\ l # m
          BY <1>5, <2>1
      <2>3. PICK i \in DOMAIN ch : ch[i] = lane[l]
          BY <2>2 DEF Whole, Carries
      <2>4. i # 1
          BY <1>2, <2>1, <2>2, <2>3 DEF IsLane
      <2>5. i - 1 \in DOMAIN rest /\ rest[i - 1] = lane[l]
          BY <1>1, <2>3, <2>4
      <2> QED BY <2>5 DEF Carries
  <1>7. ASSUME NEW i \in DOMAIN rest, NEW l \in Pos, rest[i] = lane[l]
        PROVE  /\ l \notin new /\ l <= n
               /\ \A j \in DOMAIN rest : rest[j] = lane[l] => j = i
               /\ Behind(rest, lane, new, i, l)
      <2>1. i \in Nat /\ i + 1 \in DOMAIN ch /\ ch[i + 1] = lane[l] /\ i + 1 # 1
          BY <1>1, <1>7
      <2>2. /\ l \notin got /\ l <= n /\ \A j \in DOMAIN ch : ch[j] = lane[l] => j = i + 1
            /\ Behind(ch, lane, got, i + 1, l)
          BY <2>1 DEF InOrder
      <2>3. l # m
          BY <1>2, <2>1, <2>2
      <2>4. l \notin new
          BY <1>5, <2>2, <2>3
      <2>5. \A j \in DOMAIN rest : rest[j] = lane[l] => j = i
          <3> SUFFICES ASSUME NEW j \in DOMAIN rest, rest[j] = lane[l] PROVE j = i
              OBVIOUS
          <3>1. j + 1 \in DOMAIN ch /\ ch[j + 1] = lane[l] /\ j \in Nat
              BY <1>1
          <3>2. j + 1 = i + 1
              BY <2>2, <3>1
          <3> QED BY <2>1, <3>1, <3>2
      <2>6. Behind(rest, lane, new, i, l)
          <3> SUFFICES ASSUME NEW k \in 1..(l - 1), k \notin new
                       PROVE  \E j \in 1..(i - 1) : rest[j] = lane[k]
              BY DEF Behind
          <3>1. k \in Pos /\ k \notin got /\ k # m
              BY <1>5 DEF Pos
          <3>2. PICK j \in 1..((i + 1) - 1) : ch[j] = lane[k]
              BY <2>2, <3>1 DEF Behind
          <3>3. j # 1
              BY <1>2, <3>1, <3>2 DEF IsLane
          <3>4. j - 1 \in 1..(i - 1) /\ rest[j - 1] = lane[k]
              BY <1>1, <2>1, <3>2, <3>3
          <3> QED BY <3>4
      <2> QED BY <2>2, <2>4, <2>5, <2>6
  <1>8. InOrder(rest, lane, new, n)
      <2>1. \A l \in Pos : l \in new => l <= n
          BY <1>3, <1>5 DEF InOrder
      <2> QED BY <1>7, <2>1 DEF InOrder
  <1> QED BY <1>3, <1>4, <1>6, <1>8 DEF rest

\* A message of another kind leaves.
LEMMA LaneSkip ==
    ASSUME NEW S, NEW ch \in Seq(S), ch # <<>>, NEW lane, NEW got, NEW n,
           InOrder(ch, lane, got, n), \A m \in Pos : Head(ch) # lane[m]
    PROVE  /\ InOrder(Tail(ch), lane, got, n)
           /\ Whole(ch, lane, got, n) => Whole(Tail(ch), lane, got, n)
  <1> DEFINE rest == Tail(ch)
  <1>1. /\ Head(ch) = ch[1] /\ DOMAIN ch = 1..Len(ch) /\ Len(ch) \in Nat \ {0}
        /\ DOMAIN rest = 1..(Len(ch) - 1)
        /\ \A i \in 1..(Len(ch) - 1) : rest[i] = ch[i + 1]
      BY Shift
  <1> HIDE DEF rest
  <1>2. Whole(ch, lane, got, n) => Whole(rest, lane, got, n)
      <2> SUFFICES ASSUME Whole(ch, lane, got, n), NEW l \in 1..n, l \notin got
                   PROVE  Carries(rest, lane, l)
          BY DEF Whole
      <2>1. PICK i \in DOMAIN ch : ch[i] = lane[l]
          BY DEF Whole, Carries
      <2>2. i # 1
          BY <1>1, <2>1 DEF Pos
      <2>3. i - 1 \in DOMAIN rest /\ rest[i - 1] = lane[l]
          BY <1>1, <2>1, <2>2
      <2> QED BY <2>3 DEF Carries
  <1>3. ASSUME NEW i \in DOMAIN rest, NEW l \in Pos, rest[i] = lane[l]
        PROVE  /\ l \notin got /\ l <= n
               /\ \A j \in DOMAIN rest : rest[j] = lane[l] => j = i
               /\ Behind(rest, lane, got, i, l)
      <2>1. i \in Nat /\ i + 1 \in DOMAIN ch /\ ch[i + 1] = lane[l]
          BY <1>1, <1>3
      <2>2. /\ l \notin got /\ l <= n /\ \A j \in DOMAIN ch : ch[j] = lane[l] => j = i + 1
            /\ Behind(ch, lane, got, i + 1, l)
          BY <2>1 DEF InOrder
      <2>3. \A j \in DOMAIN rest : rest[j] = lane[l] => j = i
          <3> SUFFICES ASSUME NEW j \in DOMAIN rest, rest[j] = lane[l] PROVE j = i
              OBVIOUS
          <3>1. j + 1 \in DOMAIN ch /\ ch[j + 1] = lane[l] /\ j \in Nat
              BY <1>1
          <3>2. j + 1 = i + 1
              BY <2>2, <3>1
          <3> QED BY <2>1, <3>1, <3>2
      <2>4. Behind(rest, lane, got, i, l)
          <3> SUFFICES ASSUME NEW k \in 1..(l - 1), k \notin got
                       PROVE  \E j \in 1..(i - 1) : rest[j] = lane[k]
              BY DEF Behind
          <3>1. PICK j \in 1..((i + 1) - 1) : ch[j] = lane[k]
              BY <2>2 DEF Behind
          <3>2. j # 1
              BY <1>1, <3>1 DEF Pos
          <3>3. j - 1 \in 1..(i - 1) /\ rest[j - 1] = lane[k]
              BY <1>1, <2>1, <3>1, <3>2
          <3> QED BY <3>3
      <2> QED BY <2>2, <2>3, <2>4
  <1>4. InOrder(rest, lane, got, n)
      BY <1>3 DEF InOrder
  <1> QED BY <1>2, <1>4 DEF rest

\* A message of another kind leaves from anywhere.
LEMMA LaneDropped ==
    ASSUME NEW S, NEW ch \in Seq(S), NEW d \in 1..Len(ch), NEW rest, Without(ch, d, rest),
           NEW lane, NEW got, NEW n, InOrder(ch, lane, got, n), \A m \in Pos : ch[d] # lane[m]
    PROVE  /\ InOrder(rest, lane, got, n)
           /\ Whole(ch, lane, got, n) => Whole(rest, lane, got, n)
  <1> DEFINE old(i) == IF i < d THEN i ELSE i + 1
  <1>1. /\ DOMAIN ch = 1..Len(ch) /\ Len(ch) \in Nat /\ DOMAIN rest = 1..(Len(ch) - 1)
        /\ \A i \in DOMAIN rest : rest[i] = ch[old(i)]
      BY DEF Without
  <1>2. /\ \A i \in DOMAIN rest : i \in Nat /\ old(i) \in DOMAIN ch
        /\ \A i, j \in DOMAIN rest : old(i) = old(j) => i = j
        /\ \A i, j \in DOMAIN rest : old(j) <= old(i) - 1 <=> j <= i - 1
      BY <1>1
  <1>3. \A j \in DOMAIN ch : j # d => \E i \in DOMAIN rest : old(i) = j
      <2> SUFFICES ASSUME NEW j \in DOMAIN ch, j # d
                   PROVE  \E i \in DOMAIN rest : old(i) = j
          OBVIOUS
      <2>1. CASE j < d
          BY <1>1, <2>1
      <2>2. CASE j > d
          <3>1. j - 1 \in DOMAIN rest /\ old(j - 1) = j
              BY <1>1, <2>2
          <3> QED BY <3>1
      <2> QED BY <1>1, <2>1, <2>2
  <1> HIDE DEF old
  <1>4. Whole(ch, lane, got, n) => Whole(rest, lane, got, n)
      <2> SUFFICES ASSUME Whole(ch, lane, got, n), NEW l \in 1..n, l \notin got
                   PROVE  Carries(rest, lane, l)
          BY DEF Whole
      <2>1. PICK j \in DOMAIN ch : ch[j] = lane[l]
          BY DEF Whole, Carries
      <2>2. j # d
          BY <2>1 DEF Pos
      <2> QED BY <1>1, <1>3, <2>1, <2>2 DEF Carries
  <1>5. ASSUME NEW i \in DOMAIN rest, NEW l \in Pos, rest[i] = lane[l]
        PROVE  /\ l \notin got /\ l <= n
               /\ \A j \in DOMAIN rest : rest[j] = lane[l] => j = i
               /\ Behind(rest, lane, got, i, l)
      <2>1. old(i) \in DOMAIN ch /\ ch[old(i)] = lane[l]
          BY <1>1, <1>2, <1>5
      <2>2. /\ l \notin got /\ l <= n /\ \A j \in DOMAIN ch : ch[j] = lane[l] => j = old(i)
            /\ Behind(ch, lane, got, old(i), l)
          BY <2>1 DEF InOrder
      <2>3. \A j \in DOMAIN rest : rest[j] = lane[l] => j = i
          BY <1>1, <1>2, <2>2
      <2>4. Behind(rest, lane, got, i, l)
          <3> SUFFICES ASSUME NEW k \in 1..(l - 1), k \notin got
                       PROVE  \E j \in 1..(i - 1) : rest[j] = lane[k]
              BY DEF Behind
          <3>1. PICK j \in 1..(old(i) - 1) : ch[j] = lane[k]
              BY <2>2 DEF Behind
          <3>2. j # d
              BY <3>1 DEF Pos
          <3>3. j \in DOMAIN ch
              BY <1>1, <2>1
          <3>4. PICK h \in DOMAIN rest : old(h) = j
              BY <1>3, <3>2, <3>3
          <3>5. h <= i - 1 /\ rest[h] = lane[k]
              BY <1>1, <1>2, <3>1, <3>4
          <3>6. h \in 1..(i - 1)
              BY <1>1, <1>2, <3>5
          <3> QED BY <3>5, <3>6
      <2> QED BY <2>2, <2>3, <2>4
  <1>6. InOrder(rest, lane, got, n)
      BY <1>5 DEF InOrder
  <1> QED BY <1>4, <1>6

\* The end of the channel is cut off.
LEMMA LanePrefix ==
    ASSUME NEW S, NEW ch \in Seq(S), NEW k \in 0..Len(ch), NEW lane, NEW got, NEW n,
           InOrder(ch, lane, got, n)
    PROVE  InOrder(SubSeq(ch, 1, k), lane, got, n)
  <1> DEFINE cut == SubSeq(ch, 1, k)
  <1>1. /\ DOMAIN ch = 1..Len(ch) /\ Len(ch) \in Nat /\ DOMAIN cut = 1..k
        /\ \A i \in 1..k : cut[i] = ch[i]
      BY Prefix
  <1> HIDE DEF cut
  <1>2. ASSUME NEW i \in DOMAIN cut, NEW l \in Pos, cut[i] = lane[l]
        PROVE  /\ l \notin got /\ l <= n
               /\ \A j \in DOMAIN cut : cut[j] = lane[l] => j = i
               /\ Behind(cut, lane, got, i, l)
      <2>1. i \in DOMAIN ch /\ ch[i] = lane[l]
          BY <1>1, <1>2
      <2>2. /\ l \notin got /\ l <= n /\ \A j \in DOMAIN ch : ch[j] = lane[l] => j = i
            /\ Behind(ch, lane, got, i, l)
          BY <2>1 DEF InOrder
      <2>3. \A j \in DOMAIN cut : cut[j] = lane[l] => j = i
          BY <1>1, <2>2
      <2>4. \A j \in 1..(i - 1) : cut[j] = ch[j]
          BY <1>1
      <2> QED BY <2>2, <2>3, <2>4 DEF Behind
  <1>3. InOrder(cut, lane, got, n)
      BY <1>2 DEF InOrder
  <1> QED BY <1>3 DEF cut

\* What is not a position does not matter; neither do chunks sent in vain.
LEMMA LaneSame ==
    ASSUME NEW ch, NEW lane, NEW got, NEW new, new \cap Pos = got \cap Pos,
           NEW n \in Nat, NEW k \in Nat, n <= k, InOrder(ch, lane, got, n)
    PROVE  /\ InOrder(ch, lane, new, k)
           /\ Whole(ch, lane, got, n) => Whole(ch, lane, new, n)
  <1>1. \A m \in Pos : m \in new <=> m \in got
      OBVIOUS
  <1>2. \A m \in Nat : \A l \in 1..(m - 1) : l \in Pos
      BY DEF Pos
  <1>3. Whole(ch, lane, got, n) => Whole(ch, lane, new, n)
      BY <1>1 DEF Whole, Pos
  <1>4. \A m \in Pos : m \in Nat /\ (m <= n => m <= k)
      BY DEF Pos
  <1>5. ASSUME NEW i \in DOMAIN ch, NEW m \in Pos, ch[i] = lane[m]
        PROVE  /\ m \notin new /\ m <= k
               /\ \A j \in DOMAIN ch : ch[j] = lane[m] => j = i
               /\ Behind(ch, lane, new, i, m)
      <2>1. /\ m \notin got /\ m <= n
            /\ \A j \in DOMAIN ch : ch[j] = lane[m] => j = i
            /\ Behind(ch, lane, got, i, m)
          BY <1>5 DEF InOrder
      <2>2. Behind(ch, lane, new, i, m)
          BY <1>1, <1>2, <1>4, <2>1 DEF Behind
      <2> QED BY <1>1, <1>4, <2>1, <2>2
  <1>6. \A m \in Pos : m \in new => m <= k
      BY <1>1, <1>4 DEF InOrder
  <1> QED BY <1>3, <1>5, <1>6 DEF InOrder

\* Messages of other kinds enter together.
LEMMA LaneOthers ==
    ASSUME NEW S, NEW ch \in Seq(S), NEW others \in Seq(S), NEW lane, NEW got, NEW n,
           \A i \in DOMAIN others : \A m \in Pos : others[i] # lane[m],
           InOrder(ch, lane, got, n)
    PROVE  /\ InOrder(ch \o others, lane, got, n)
           /\ Whole(ch, lane, got, n) => Whole(ch \o others, lane, got, n)
  <1> DEFINE more == ch \o others
  <1>1. /\ DOMAIN ch = 1..Len(ch) /\ Len(ch) \in Nat
        /\ DOMAIN others = 1..Len(others) /\ Len(others) \in Nat
        /\ DOMAIN more = 1..(Len(ch) + Len(others))
        /\ \A i \in 1..Len(ch) : more[i] = ch[i]
      OBVIOUS
  <1>2. \A i \in DOMAIN more : i \notin DOMAIN ch => \A m \in Pos : more[i] # lane[m]
      <2> SUFFICES ASSUME NEW i \in DOMAIN more, i \notin DOMAIN ch
                   PROVE  \A m \in Pos : more[i] # lane[m]
          OBVIOUS
      <2>1. i - Len(ch) \in DOMAIN others /\ more[i] = others[i - Len(ch)]
          BY <1>1
      <2> QED BY <2>1
  <1> HIDE DEF more
  <1>3. Whole(ch, lane, got, n) => Whole(more, lane, got, n)
      BY <1>1 DEF Whole, Carries
  <1>4. ASSUME NEW i \in DOMAIN more, NEW m \in Pos, more[i] = lane[m]
        PROVE  /\ m \notin got /\ m <= n
               /\ \A j \in DOMAIN more : more[j] = lane[m] => j = i
               /\ Behind(more, lane, got, i, m)
      <2>1. i \in 1..Len(ch) /\ ch[i] = lane[m] /\ i \in DOMAIN ch
          BY <1>1, <1>2, <1>4
      <2>2. /\ m \notin got /\ m <= n /\ \A j \in DOMAIN ch : ch[j] = lane[m] => j = i
            /\ Behind(ch, lane, got, i, m)
          BY <2>1 DEF InOrder
      <2>3. \A j \in DOMAIN more : more[j] = lane[m] => j = i
          BY <1>1, <1>2, <2>2
      <2>4. \A j \in 1..(i - 1) : more[j] = ch[j]
          BY <1>1, <2>1
      <2> QED BY <2>2, <2>3, <2>4 DEF Behind
  <1>5. InOrder(more, lane, got, n)
      BY <1>4 DEF InOrder
  <1> QED BY <1>3, <1>5 DEF more

\* What has been delivered grows by one; an End is no position.
LEMMA GotMore ==
    ASSUME NEW s \in Seq(Nat), NEW e \in Nat
    PROVE  /\ Range(Append(s, e)) = Range(s) \cup {e}
           /\ e = 0 => Range(Append(s, e)) \cap Pos = Range(s) \cap Pos
           /\ e # 0 => /\ e \in Pos
                       /\ Range(Append(s, e)) \cap Pos = (Range(s) \cap Pos) \cup {e}
  <1>1. /\ DOMAIN s = 1..Len(s) /\ Len(s) \in Nat
        /\ DOMAIN Append(s, e) = 1..(Len(s) + 1)
        /\ \A i \in 1..Len(s) : Append(s, e)[i] = s[i]
        /\ Append(s, e)[Len(s) + 1] = e
      BY Extend
  <1>2. Range(Append(s, e)) \subseteq Range(s) \cup {e}
      BY <1>1 DEF Range
  <1>3. Range(s) \cup {e} \subseteq Range(Append(s, e))
      BY <1>1 DEF Range
  <1> QED BY <1>2, <1>3 DEF Pos

=============================================================================
