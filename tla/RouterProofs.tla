---------------------------- MODULE RouterProofs ----------------------------
(***************************************************************************)
(* Proofs about Router for all sets of agents and operators, any number of *)
(* messages and every reading of the bounds.                               *)
(***************************************************************************)
EXTENDS Router, StreamLemmas, FiniteSetTheorems, TLAPS

USE RouterAssumption

(***************************************************************************)
(* The inductive invariant.  Finite is about the tables only.  Mirror adds *)
(* to AgentsMirror what the signals of one agent look like: its departure  *)
(* comes last and after it has left.  Kept adds to OperatorKept why the    *)
(* signal task deletes only operators that are gone.  Routing adds to      *)
(* ReplyRoutable where replies come from: from commands, whose entry was   *)
(* made before they were queued.                                           *)
(***************************************************************************)
In(a)  == [msg |-> "AGENTIN", agent |-> a]
Out(a) == [msg |-> "AGENTOUT", agent |-> a]

Finite == IsFiniteSet(agents.keys) /\ IsFiniteSet(operators.keys)

\* AgentsMirror in terms of In and Out.
Agree(a) ==
    a \in announced /\ a \in clients
        <=> (a \in agents.keys \/ Contains(signals, In(a))) /\ ~Contains(signals, Out(a))

\* The departure of an agent comes last.
OutLast(q, a) == \A i, j \in 1..Len(q) : q[i] = In(a) /\ q[j] = Out(a) => i < j

MirrorOf(a) ==
    /\ agentWs[a] = "new" => a \notin announced /\ a \notin clients
    /\ agentWs[a] = "up" => a \in clients
    /\ Contains(signals, Out(a)) => a \notin clients /\ agentWs[a] = "closed"
    /\ OutLast(signals, a)
    /\ Agree(a)

Mirror == \A a \in Agents : MirrorOf(a)

Kept ==
    /\ \A o \in operators.keys : opWs[o] # "new"
    /\ notify.at = "raise" => opWs[notify.op] = "closed"
    /\ OperatorKept

Routed(s) == \/ opWs[s[1]] = "closed"
             \/ opWs[s[1]] = "up" /\ s \in data_lookop

Routing ==
    /\ \A o \in Ops : opWs[o] = "new" => handler[o] = "none"
    /\ \A i \in 1..Len(in_q) : Routed(in_q[i].stream)
    /\ \A i \in 1..Len(out_q) : Routed(out_q[i].stream)
    /\ \A s \in Streams : atAgent[s] # <<>> => Routed(s)

-----------------------------------------------------------------------------
(* Facts about queues and dictionaries.                                     *)

LEMMA AppendFacts ==
    ASSUME NEW S, NEW s \in Seq(S), NEW e \in S
    PROVE  /\ Append(s, e) \in Seq(S)
           /\ Len(s) \in Nat /\ Len(Append(s, e)) = Len(s) + 1
           /\ \A i \in 1..Len(s) : s[i] \in S /\ Append(s, e)[i] = s[i]
           /\ Append(s, e)[Len(s) + 1] = e
           /\ Append(s, e) # <<>>
  OBVIOUS

LEMMA TailFacts ==
    ASSUME NEW S, NEW s \in Seq(S), s # <<>>
    PROVE  /\ Tail(s) \in Seq(S)
           /\ Head(s) \in S /\ Head(s) = s[1]
           /\ Len(s) \in Nat \ {0} /\ Len(Tail(s)) = Len(s) - 1
           /\ \A i \in 1..Len(Tail(s)) : Tail(s)[i] = s[i + 1] /\ i + 1 \in 1..Len(s)
  OBVIOUS

\* s holds, in their order, the first n elements of e that are in L.
Compacts(e, L, s, n) ==
    /\ Len(s) <= n
    /\ \A i \in 1..Len(s) : \E j \in i..n : s[i] = e[j] /\ e[j] \in L
    /\ \A j \in 1..n : e[j] \in L => \E i \in 1..Len(s) : s[i] = e[j]
    /\ Unique(e) => Unique(s)

LEMMA CompactsStep ==
    ASSUME NEW K, NEW e \in Seq(K), NEW L, NEW s \in Seq(K), NEW n \in 0..(Len(e) - 1),
           Compacts(e, L, s, n)
    PROVE  Compacts(e, L, IF e[n + 1] \in L THEN Append(s, e[n + 1]) ELSE s, n + 1)
  <1>0. /\ Len(e) \in Nat /\ n \in Nat /\ n + 1 \in 1..Len(e) /\ e[n + 1] \in K
        /\ DOMAIN e = 1..Len(e) /\ Len(s) \in Nat /\ DOMAIN s = 1..Len(s)
      OBVIOUS
  <1>1. CASE e[n + 1] \notin L
      <2>1. \A j \in 1..(n + 1) : e[j] \in L => j \in 1..n
          BY <1>0, <1>1
      <2> QED BY <1>0, <1>1, <2>1 DEF Compacts
  <1>2. CASE e[n + 1] \in L
      <2> DEFINE t == Append(s, e[n + 1])
      <2>1. /\ t \in Seq(K) /\ Len(t) = Len(s) + 1 /\ DOMAIN t = 1..(Len(s) + 1)
            /\ \A i \in 1..Len(s) : t[i] = s[i]
            /\ t[Len(s) + 1] = e[n + 1]
          BY <1>0
      <2> HIDE DEF t
      <2>2. \A i \in 1..Len(t) : \E j \in i..(n + 1) : t[i] = e[j] /\ e[j] \in L
          <3>1. ASSUME NEW i \in 1..Len(t)
                PROVE  \E j \in i..(n + 1) : t[i] = e[j] /\ e[j] \in L
              <4>1. CASE i \in 1..Len(s)
                  <5>1. PICK j \in i..n : s[i] = e[j] /\ e[j] \in L
                      BY <4>1 DEF Compacts
                  <5>2. j \in i..(n + 1)
                      BY <1>0, <4>1, <5>1
                  <5> QED BY <2>1, <4>1, <5>1, <5>2
              <4>2. CASE i = Len(s) + 1
                  <5>1. n + 1 \in i..(n + 1)
                      BY <1>0, <4>2 DEF Compacts
                  <5> QED BY <1>2, <2>1, <4>2, <5>1
              <4> QED BY <1>0, <2>1, <4>1, <4>2
          <3> QED BY <3>1
      <2>3. \A j \in 1..(n + 1) : e[j] \in L => \E i \in 1..Len(t) : t[i] = e[j]
          <3>1. ASSUME NEW j \in 1..(n + 1), e[j] \in L
                PROVE  \E i \in 1..Len(t) : t[i] = e[j]
              <4>1. CASE j \in 1..n
                  <5>1. PICK i \in 1..Len(s) : s[i] = e[j]
                      BY <3>1, <4>1 DEF Compacts
                  <5>2. i \in 1..Len(t)
                      BY <1>0, <2>1
                  <5> QED BY <2>1, <5>1, <5>2
              <4>2. CASE j = n + 1
                  <5>1. Len(s) + 1 \in 1..Len(t)
                      BY <1>0, <2>1
                  <5> QED BY <2>1, <4>2, <5>1
              <4> QED BY <1>0, <4>1, <4>2
          <3> QED BY <3>1
      <2>4. ASSUME Unique(e) PROVE Unique(t)
          <3>1. ASSUME NEW i \in 1..Len(s) PROVE t[i] # e[n + 1]
              <4>1. PICK j \in i..n : s[i] = e[j]
                  BY DEF Compacts
              <4>2. j \in DOMAIN e /\ j # n + 1 /\ n + 1 \in DOMAIN e
                  BY <1>0, <4>1
              <4> QED BY <2>1, <2>4, <4>1, <4>2 DEF Unique
          <3>2. Unique(s)
              BY <2>4 DEF Compacts
          <3> QED BY <1>0, <2>1, <3>1, <3>2 DEF Unique
      <2>5. Len(t) <= n + 1
          BY <1>0, <2>1 DEF Compacts
      <2>6. Compacts(e, L, t, n + 1)
          BY <2>2, <2>3, <2>4, <2>5 DEF Compacts
      <2> QED BY <1>2, <2>6 DEF t
  <1> QED BY <1>1, <1>2

LEMMA CompactedFacts ==
    ASSUME NEW K, NEW d \in Dict(K)
    PROVE  /\ Compacted(d) \in Seq(K)
           /\ Compacts(d.entries, d.keys, Compacted(d), Len(d.entries))
  <1> DEFINE e == d.entries
             N == Len(e)
             Next1(s, n) == IF e[n] \in d.keys THEN Append(s, e[n]) ELSE s
             Eq(f) == f = [n \in 0..N |-> IF n = 0 THEN <<>>
                                          ELSE IF e[n] \in d.keys
                                               THEN Append(f[n - 1], e[n])
                                               ELSE f[n - 1]]
             Built(f, n) == /\ f[0] = <<>>
                            /\ \A r \in 1..n : f[r] = Next1(f[r - 1], r)
             S == {n \in Nat : n <= N => \E f \in [0..n -> Seq(K)] : Built(f, n)}
             upTo == CHOOSE f : Eq(f)
             T == {n \in Nat : n <= N => /\ upTo[n] \in Seq(K)
                                         /\ Compacts(e, d.keys, upTo[n], n)}
  <1>0. e \in Seq(K) /\ N \in Nat /\ \A n \in 1..N : e[n] \in K
      BY DEF Dict
  <1>1. Compacted(d) = upTo[N]
      BY DEF Compacted
  <1>2. 0 \in S
      <2>1. [r \in 0..0 |-> <<>>] \in [0..0 -> Seq(K)] /\ Built([r \in 0..0 |-> <<>>], 0)
          OBVIOUS
      <2> QED BY <2>1
  <1>3. ASSUME NEW n \in 0..(N - 1), n \in S PROVE n + 1 \in S
      <2>0. n \in Nat /\ n <= N /\ n + 1 \in 1..N
          BY <1>0
      <2>1. PICK f \in [0..n -> Seq(K)] : Built(f, n)
          BY <1>3, <2>0
      <2> DEFINE g == [r \in 0..(n + 1) |-> IF r <= n THEN f[r] ELSE Next1(f[n], n + 1)]
      <2>2. f[n] \in Seq(K) /\ e[n + 1] \in K
          BY <1>0, <2>0
      <2>3. Next1(f[n], n + 1) \in Seq(K)
          BY <2>2
      <2>4. g \in [0..(n + 1) -> Seq(K)]
          <3> HIDE DEF Next1
          <3> QED BY <2>0, <2>3
      <2>5. Built(g, n + 1)
          <3> HIDE DEF Next1
          <3>1. g[0] = <<>> /\ g[n + 1] = Next1(f[n], n + 1) /\ \A r \in 0..n : g[r] = f[r]
              BY <2>0, <2>1
          <3>2. \A r \in 1..(n + 1) : g[r] = Next1(g[r - 1], r)
              <4> HIDE DEF g
              <4>1. ASSUME NEW r \in 1..(n + 1) PROVE g[r] = Next1(g[r - 1], r)
                  <5>1. CASE r = n + 1
                      <6>1. r - 1 = n /\ n \in 0..n
                          BY <2>0, <5>1
                      <6>2. g[r - 1] = f[n] /\ g[r] = Next1(f[n], n + 1)
                          BY <3>1, <5>1, <6>1
                      <6> QED BY <5>1, <6>2
                  <5>2. CASE r # n + 1
                      <6>1. r \in 1..n /\ r \in 0..n /\ r - 1 \in 0..n
                          BY <2>0, <5>2
                      <6>2. f[r] = Next1(f[r - 1], r) /\ g[r] = f[r] /\ g[r - 1] = f[r - 1]
                          BY <2>1, <3>1, <6>1
                      <6> QED BY <6>2
                  <5> QED BY <5>1, <5>2
              <4> QED BY <4>1
          <3> QED BY <3>1, <3>2
      <2> HIDE DEF Built, g
      <2> QED BY <2>0, <2>4, <2>5
  <1>4. \E f : Eq(f)
      <2>1. N \in S
          <3> HIDE DEF S
          <3>1. S \in SUBSET Nat
              BY DEF S
          <3>2. N \in Nat
              BY <1>0
          <3> HIDE DEF N
          <3>3. 0..N \subseteq S
              BY <1>2, <1>3, <3>1, <3>2, SetInduction
          <3> QED BY <3>2, <3>3
      <2>2. PICK f \in [0..N -> Seq(K)] : Built(f, N)
          <3>1. N <= N
              BY <1>0
          <3> HIDE DEF N, Built
          <3> QED BY <2>1, <3>1
      <2>3. Eq(f)
          <3>1. f = [n \in 0..N |-> f[n]]
              OBVIOUS
          <3>2. \A n \in 0..N : n = 0 \/ n \in 1..N
              BY <1>0
          <3>3. \A n \in 0..N : f[n] = IF n = 0 THEN <<>>
                                       ELSE IF e[n] \in d.keys
                                            THEN Append(f[n - 1], e[n]) ELSE f[n - 1]
              BY <2>2, <3>2
          <3> QED BY <3>1, <3>3
      <2> QED BY <2>3
  <1>5. Eq(upTo)
      BY <1>4
  <1>6. 0 \in T
      <2>1. upTo[0] = <<>>
          <3>1. 0 \in 0..N
              BY <1>0
          <3> HIDE DEF upTo, N
          <3> QED BY <1>5, <3>1
      <2>2. Compacts(e, d.keys, <<>>, 0)
          BY DEF Compacts, Unique
      <2> HIDE DEF upTo, N, e
      <2>3. <<>> \in Seq(K)
          OBVIOUS
      <2> QED BY <2>1, <2>2, <2>3
  <1>7. ASSUME NEW n \in 0..(N - 1), n \in T PROVE n + 1 \in T
      <2>1. n \in Nat /\ n <= N /\ n + 1 \in 0..N /\ n + 1 # 0 /\ (n + 1) - 1 = n
          BY <1>0
      <2>2. upTo[n + 1] = Next1(upTo[n], n + 1)
          BY <1>5, <2>1
      <2> HIDE DEF upTo
      <2>3. upTo[n] \in Seq(K) /\ Compacts(e, d.keys, upTo[n], n) /\ e[n + 1] \in K
          BY <1>0, <1>7, <2>1
      <2>4. Compacts(e, d.keys, upTo[n + 1], n + 1)
          BY <1>0, <2>2, <2>3, CompactsStep
      <2>5. upTo[n + 1] \in Seq(K)
          BY <2>2, <2>3
      <2> QED BY <2>1, <2>4, <2>5
  <1>8. N \in T
      <2> HIDE DEF T
      <2>1. T \in SUBSET Nat
          BY DEF T
      <2>2. N \in Nat
          BY <1>0
      <2> HIDE DEF N
      <2>3. 0..N \subseteq T
          BY <1>6, <1>7, <2>1, <2>2, SetInduction
      <2> QED BY <2>2, <2>3
  <1> HIDE DEF upTo
  <1> QED BY <1>0, <1>1, <1>8

\* Room for one more: nothing that is in use is lost.
LEMMA RoomyFacts ==
    ASSUME NEW K, NEW d \in Dict(K), IsFiniteSet(d.keys)
    PROVE  /\ Roomy(d) \in Dict(K) /\ Roomy(d).keys = d.keys
           /\ \/ Roomy(d) = d
              \/ /\ Roomy(d).entries = Compacted(d)
                 /\ Roomy(d).rebuilds = d.rebuilds + 1
  <1>1. Compacted(d) \in Seq(K) /\ Cardinality(d.keys) \in Nat
      BY CompactedFacts, FS_CardinalityType
  <1>2. CASE Roomy(d) = d
      BY <1>2
  <1>3. CASE Roomy(d) # d
      <2>1. Roomy(d) = [entries |-> Compacted(d), keys |-> d.keys,
                        base |-> Cardinality(d.keys), rebuilds |-> d.rebuilds + 1]
          BY <1>3 DEF Roomy
      <2> QED BY <1>1, <2>1 DEF Dict
  <1> QED BY <1>2, <1>3

LEMMA InsertKeys == \A d, k : Insert(d, k).keys = d.keys \cup {k}
  BY DEF Insert

LEMMA DictFacts ==
    ASSUME NEW K, NEW d \in Dict(K), IsFiniteSet(d.keys), NEW k \in K
    PROVE  /\ Insert(d, k) \in Dict(K) /\ IsFiniteSet(Insert(d, k).keys)
           /\ Insert(d, k).keys = d.keys \cup {k}
           /\ Delete(d, k) \in Dict(K) /\ IsFiniteSet(Delete(d, k).keys)
           /\ Delete(d, k).keys = d.keys \ {k}
           /\ Start(d) \in Iterator(K)
  <1>1. Append(Roomy(d).entries, k) \in Seq(K)
      <2>1. Roomy(d).entries \in Seq(K)
          BY RoomyFacts DEF Dict
      <2> QED BY <2>1, AppendFacts
  <1>2. IsFiniteSet(d.keys \cup {k}) /\ IsFiniteSet(d.keys \ {k})
      BY FS_AddElement, FS_RemoveElement
  <1>3. Cardinality(d.keys) \in Nat
      BY FS_CardinalityType
  <1>4. Insert(d, k) \in Dict(K) /\ Insert(d, k).keys = d.keys \cup {k}
      <2>1. /\ Roomy(d).base \in Nat /\ Roomy(d).rebuilds \in Nat
            /\ d.keys \cup {k} \in SUBSET K
          BY RoomyFacts DEF Dict
      <2>2. PICK x, b, n : x = Append(Roomy(d).entries, k) /\ b = Roomy(d).base
                             /\ n = Roomy(d).rebuilds
          OBVIOUS
      <2>3. Insert(d, k) = [entries |-> x, keys |-> d.keys \cup {k}, base |-> b, rebuilds |-> n]
          BY <2>2 DEF Insert
      <2> QED BY <1>1, <2>1, <2>2, <2>3 DEF Dict
  <1>5. Delete(d, k) \in Dict(K) /\ Delete(d, k).keys = d.keys \ {k}
      BY DEF Dict, Delete
  <1> QED BY <1>2, <1>3, <1>4, <1>5 DEF Dict, Start, Iterator

LEMMA AdvanceFacts ==
    ASSUME NEW K, NEW d \in Dict(K), NEW it \in Iterator(K), NEW i,
           Yields(d, it, i)
    PROVE  Advance(d, it, i) \in Iterator(K) /\ d.entries[i] \in K
  <1>1. /\ d.entries \in Seq(K) /\ Len(d.entries) \in Nat
        /\ it.pos \in Nat /\ it.size \in Nat /\ it.seen \in SUBSET K /\ it.rebuilds \in Nat
      BY DEF Dict, Iterator
  <1>2. i \in (it.pos + 1)..Len(d.entries)
      BY DEF Yields, Remaining
  <1>3. i \in Nat /\ d.entries[i] \in K
      BY <1>1, <1>2
  <1> QED BY <1>1, <1>3 DEF Advance, Iterator

-----------------------------------------------------------------------------
(* Types.                                                                   *)

LEMMA InitType == Init => TypeOK /\ Finite
  <1> SUFFICES ASSUME Init PROVE TypeOK /\ Finite
      OBVIOUS
  <1>1. IsFiniteSet({}) /\ Cardinality({}) = 0
      BY FS_EmptySet
  <1>2. \A K : EmptyDict \in Dict(K)
      BY DEF EmptyDict, Dict
  <1>3. \A K : Start(EmptyDict) \in Iterator(K)
      BY <1>1 DEF EmptyDict, Start, Iterator
  <1> QED BY <1>1, <1>2, <1>3 DEF Init, TypeOK, Finite, EmptyDict, Idle, Streams

LEMMA SeqTypes ==
    ASSUME TypeOK
    PROVE  /\ \A a \in Agents : In(a) \in Signals /\ Out(a) \in Signals
           /\ \A m \in Signals : Append(signals, m) \in Seq(Signals)
           /\ signals # <<>> => Tail(signals) \in Seq(Signals)
           /\ \A m \in Messages : /\ Append(in_q, m) \in Seq(Messages)
                                  /\ Append(out_q, m) \in Seq(Messages)
           /\ in_q # <<>> => Tail(in_q) \in Seq(Messages) /\ Head(in_q) \in Messages
           /\ out_q # <<>> => Tail(out_q) \in Seq(Messages) /\ Head(out_q) \in Messages
           /\ \A q \in Seq(Nat), n \in Nat : Append(q, n) \in Seq(Nat)
           /\ \A t \in Streams, n \in Pos : Msg(t, n) \in Messages
           /\ \A t \in Streams : t[1] \in Ops /\ t[2] \in Agents
  <1>1. /\ signals \in Seq(Signals) /\ in_q \in Seq(Messages)
        /\ out_q \in Seq(Messages)
      BY DEF TypeOK
  <1>2. \A m \in Signals : Append(signals, m) \in Seq(Signals)
      BY <1>1, AppendFacts
  <1>3. \A m \in Messages : /\ Append(in_q, m) \in Seq(Messages)
                            /\ Append(out_q, m) \in Seq(Messages)
      BY <1>1, AppendFacts
  <1>4. /\ signals # <<>> => Tail(signals) \in Seq(Signals)
        /\ in_q # <<>> => Tail(in_q) \in Seq(Messages) /\ Head(in_q) \in Messages
        /\ out_q # <<>> => Tail(out_q) \in Seq(Messages) /\ Head(out_q) \in Messages
      BY <1>1, TailFacts
  <1>5. \A q \in Seq(Nat), n \in Nat : Append(q, n) \in Seq(Nat)
      BY AppendFacts
  <1>6. \A a \in Agents : In(a) \in Signals /\ Out(a) \in Signals
      BY DEF In, Out, Signals
  <1>7. \A t \in Streams, n \in Pos : Msg(t, n) \in Messages
      BY DEF Msg, Messages, Pos
  <1>8. \A t \in Streams : t[1] \in Ops /\ t[2] \in Agents
      BY DEF Streams
  <1> QED BY <1>2, <1>3, <1>4, <1>5, <1>6, <1>7, <1>8

Notifying == {Idle} \cup [at : {"send", "raise"}, agent : Agents,
                          it : Iterator(Ops), op : Ops]

LEMMA NotifyFromType ==
    ASSUME TypeOK, NEW d \in Dict(Ops), NEW a \in Agents, NEW it \in Iterator(Ops),
           NotifyFrom(d, a, it)
    PROVE  notify' \in Notifying /\ told' \in [Ops -> SUBSET Agents]
  <1>1. told \in [Ops -> SUBSET Agents]
      BY DEF TypeOK
  <1>2. CASE notify' = Idle /\ UNCHANGED told
      BY <1>1, <1>2 DEF Notifying
  <1>3. CASE \E i \in DOMAIN d.entries :
               LET o == d.entries[i] IN
               /\ Yields(d, it, i)
               /\ notify' = [at |-> IF opWs[o] = "up" THEN "send" ELSE "raise",
                             agent |-> a, op |-> o, it |-> Advance(d, it, i)]
               /\ told' = IF opWs[o] = "up"
                          THEN [told EXCEPT ![o] = @ \cup {a}] ELSE told
      <2>1. PICK i \in DOMAIN d.entries :
               LET o == d.entries[i] IN
               /\ Yields(d, it, i)
               /\ notify' = [at |-> IF opWs[o] = "up" THEN "send" ELSE "raise",
                             agent |-> a, op |-> o, it |-> Advance(d, it, i)]
               /\ told' = IF opWs[o] = "up"
                          THEN [told EXCEPT ![o] = @ \cup {a}] ELSE told
          BY <1>3
      <2>2. Advance(d, it, i) \in Iterator(Ops) /\ d.entries[i] \in Ops
          BY <2>1, AdvanceFacts
      <2>3. notify' \in Notifying
          BY <2>1, <2>2 DEF Notifying
      <2>4. told' \in [Ops -> SUBSET Agents]
          BY <1>1, <2>1, <2>2
      <2> QED BY <2>3, <2>4
  <1> QED BY <1>2, <1>3 DEF NotifyFrom

LEMMA EndType ==
    ASSUME TypeOK, Finite, NEW o \in Ops, End(o)
    PROVE  /\ operators' \in Dict(Ops) /\ IsFiniteSet(operators'.keys)
           /\ handler' \in [Ops -> {"none", "recv", "listing", "done"}]
           /\ opWs' \in [Ops -> {"new", "up", "closed"}]
           /\ listing' \in [Ops -> Iterator(Agents)]
           /\ told' \in [Ops -> SUBSET Agents]
  <1>1. operators' \in Dict(Ops) /\ IsFiniteSet(operators'.keys)
      BY DictFacts DEF TypeOK, Finite, End
  <1> QED BY <1>1 DEF TypeOK, End

LEMMA ListFromType ==
    ASSUME TypeOK, Finite, NEW o \in Ops, NEW it \in Iterator(Agents),
           ListFrom(o, it)
    PROVE  /\ operators' \in Dict(Ops) /\ IsFiniteSet(operators'.keys)
           /\ handler' \in [Ops -> {"none", "recv", "listing", "done"}]
           /\ opWs' \in [Ops -> {"new", "up", "closed"}]
           /\ listing' \in [Ops -> Iterator(Agents)]
           /\ told' \in [Ops -> SUBSET Agents]
  <1>1. CASE End(o)
      BY <1>1, EndType
  <1>2. CASE \E i \in DOMAIN agents.entries :
               /\ Yields(agents, it, i) /\ opWs[o] = "up"
               /\ handler' = [handler EXCEPT ![o] = "listing"]
               /\ listing' = [listing EXCEPT ![o] = Advance(agents, it, i)]
               /\ told' = [told EXCEPT ![o] = @ \cup {agents.entries[i]}]
               /\ UNCHANGED <<operators, opWs>>
      <2>1. PICK i \in DOMAIN agents.entries :
               /\ Yields(agents, it, i) /\ opWs[o] = "up"
               /\ handler' = [handler EXCEPT ![o] = "listing"]
               /\ listing' = [listing EXCEPT ![o] = Advance(agents, it, i)]
               /\ told' = [told EXCEPT ![o] = @ \cup {agents.entries[i]}]
               /\ UNCHANGED <<operators, opWs>>
          BY <1>2
      <2>2. Advance(agents, it, i) \in Iterator(Agents) /\ agents.entries[i] \in Agents
          BY <2>1, AdvanceFacts DEF TypeOK
      <2>3. listing' \in [Ops -> Iterator(Agents)]
          BY <2>1, <2>2 DEF TypeOK
      <2>4. told' \in [Ops -> SUBSET Agents]
          BY <2>1, <2>2 DEF TypeOK
      <2> QED BY <2>1, <2>3, <2>4 DEF TypeOK, Finite
  <1>3. CASE /\ handler' = [handler EXCEPT ![o] = "recv"]
             /\ UNCHANGED <<operators, opWs, listing, told>>
      BY <1>3 DEF TypeOK, Finite
  <1> QED BY <1>1, <1>2, <1>3 DEF ListFrom

LEMMA AgentType ==
    ASSUME TypeOK, Finite, AgentNext
    PROVE  TypeOK' /\ Finite'
  <1> USE DEF TypeOK, Finite, agentVars, opVars, streamVars
  <1>1. PICK a \in Agents : AgentConnect(a) \/ AgentInfo(a) \/ AgentClose(a)
                                \/ AgentLeave(a)
      BY DEF AgentNext
  <1>2. CASE AgentConnect(a)
      BY <1>2 DEF AgentConnect
  <1>3. CASE AgentInfo(a)
      <2>1. signals' \in Seq(Signals)
          BY <1>3, SeqTypes DEF AgentInfo, In
      <2> QED BY <1>3, <2>1 DEF AgentInfo
  <1>4. CASE AgentClose(a)
      BY <1>4 DEF AgentClose
  <1>5. CASE AgentLeave(a)
      <2>1. signals' \in Seq(Signals)
          BY <1>5, SeqTypes DEF AgentLeave, Out
      <2> QED BY <1>5, <2>1 DEF AgentLeave
  <1> QED BY <1>1, <1>2, <1>3, <1>4, <1>5

LEMMA SignalType ==
    ASSUME TypeOK, Finite, Signal
    PROVE  TypeOK' /\ Finite'
  <1> USE DEF agentVars, opVars, streamVars
  <1>0. agents \in Dict(Agents) /\ operators \in Dict(Ops)
      BY DEF TypeOK
  <1>1. CASE NotifySent
      <2>1. notify.agent \in Agents /\ notify.it \in Iterator(Ops)
          BY <1>1 DEF NotifySent, TypeOK
      <2>2. notify' \in Notifying /\ told' \in [Ops -> SUBSET Agents]
          BY <1>0, <1>1, <2>1, NotifyFromType DEF NotifySent
      <2> QED BY <1>1, <2>2 DEF NotifySent, TypeOK, Finite, Notifying, Idle
  <1>2. CASE NotifyFailed
      <2>1. notify.op \in Ops
          BY <1>2 DEF NotifyFailed, TypeOK
      <2>2. operators' \in Dict(Ops) /\ IsFiniteSet(operators'.keys)
          BY <1>0, <1>2, <2>1, DictFacts DEF NotifyFailed, Finite
      <2>3. notify' \in Notifying /\ told' \in [Ops -> SUBSET Agents]
          <3>1. CASE notify' = Idle /\ UNCHANGED told
              BY <3>1 DEF TypeOK, Notifying
          <3>2. CASE NotifyFrom(operators', notify.agent, notify.it)
              <4>1. notify.agent \in Agents /\ notify.it \in Iterator(Ops)
                  BY <1>2 DEF NotifyFailed, TypeOK
              <4>2. PICK d : d = operators'
                  OBVIOUS
              <4>3. NotifyFrom(d, notify.agent, notify.it) /\ d \in Dict(Ops)
                  BY <2>2, <3>2, <4>2
              <4> QED BY <4>1, <4>3, NotifyFromType
          <3> QED BY <1>2, <3>1, <3>2 DEF NotifyFailed
      <2> QED BY <1>2, <2>2, <2>3 DEF NotifyFailed, TypeOK, Finite, Notifying, Idle
  <1>3. ASSUME NEW a \in Agents, SignalIn(a)
        PROVE  TypeOK' /\ Finite'
      <2>1. signals' \in Seq(Signals)
          BY <1>3, SeqTypes DEF SignalIn
      <2>2. agents' \in Dict(Agents) /\ IsFiniteSet(agents'.keys)
          BY <1>0, <1>3, DictFacts DEF SignalIn, Finite
      <2>4. Start(operators) \in Iterator(Ops)
          <3>1. Cardinality(operators.keys) \in Nat
              BY FS_CardinalityType DEF Finite
          <3> QED BY <1>0, <3>1 DEF Start, Iterator, Dict
      <2>5. notify' \in Notifying /\ told' \in [Ops -> SUBSET Agents]
          BY <1>0, <1>3, <2>4, NotifyFromType DEF SignalIn
      <2> QED BY <1>3, <2>1, <2>2, <2>5 DEF SignalIn, TypeOK, Finite, Notifying, Idle
  <1>4. ASSUME NEW a \in Agents, SignalOut(a)
        PROVE  TypeOK' /\ Finite'
      <2>1. signals' \in Seq(Signals)
          BY <1>4, SeqTypes DEF SignalOut
      <2>2. agents' \in Dict(Agents) /\ IsFiniteSet(agents'.keys)
          BY <1>0, <1>4, DictFacts DEF SignalOut, Finite
      <2> QED BY <1>4, <2>1, <2>2 DEF SignalOut, TypeOK, Finite
  <1> QED BY <1>1, <1>2, <1>3, <1>4 DEF Signal

LEMMA OpType ==
    ASSUME TypeOK, Finite, OpNext
    PROVE  TypeOK' /\ Finite'
  <1> USE DEF agentVars, streamVars
  <1>1. PICK o \in Ops : OpConnect(o) \/ OpClose(o) \/ OpLeave(o) \/ OpList(o)
                            \/ ListSent(o)
      BY DEF OpNext
  <1>2. CASE OpConnect(o)
      <2>1. operators' \in Dict(Ops) /\ IsFiniteSet(operators'.keys)
          BY <1>2, DictFacts DEF OpConnect, TypeOK, Finite
      <2> QED BY <1>2, <2>1 DEF OpConnect, TypeOK, Finite
  <1>3. CASE OpClose(o)
      BY <1>3 DEF OpClose, TypeOK, Finite
  <1>4. CASE OpLeave(o)
      BY <1>4, EndType DEF OpLeave, TypeOK, Finite
  <1>5. CASE OpList(o)
      <2>1. Start(agents) \in Iterator(Agents)
          <3>1. Cardinality(agents.keys) \in Nat
              BY FS_CardinalityType DEF Finite
          <3> QED BY <3>1 DEF Start, Iterator, TypeOK, Dict
      <2> QED BY <1>5, <2>1, ListFromType DEF OpList, TypeOK, Finite
  <1>6. CASE ListSent(o)
      <2>1. listing[o] \in Iterator(Agents)
          BY DEF TypeOK
      <2> QED BY <1>6, <2>1, ListFromType DEF ListSent, TypeOK, Finite
  <1> QED BY <1>1, <1>2, <1>3, <1>4, <1>5, <1>6

LEMMA StreamType ==
    ASSUME TypeOK, Finite, StreamNext \/ ToAgent \/ ToOperator
    PROVE  TypeOK' /\ Finite'
  <1> USE DEF agentVars, opVars
  <1>0. /\ cmds \in [Streams -> Nat] /\ replies \in [Streams -> Nat]
        /\ atAgent \in [Streams -> Seq(Nat)] /\ atOp \in [Streams -> Seq(Nat)]
      BY DEF TypeOK
  <1>1. ASSUME NEW s \in Streams, AgentReply(s)
        PROVE  TypeOK' /\ Finite'
      <2>1. replies' \in [Streams -> Nat] /\ in_q' \in Seq(Messages)
          <3>1. replies[s] + 1 \in Pos
              BY <1>0 DEF Pos
          <3>2. Msg(s, replies[s] + 1) \in Messages
              BY <3>1, SeqTypes
          <3>3. in_q' \in Seq(Messages)
              BY <1>1, <3>2, SeqTypes DEF AgentReply
          <3> QED BY <1>0, <1>1, <3>3 DEF AgentReply
      <2> QED BY <1>1, <2>1 DEF AgentReply, TypeOK, Finite
  <1>2. ASSUME NEW s \in Streams, OpCommand(s)
        PROVE  TypeOK' /\ Finite'
      <2>1. cmds' \in [Streams -> Nat] /\ out_q' \in Seq(Messages)
          <3>1. cmds[s] + 1 \in Pos
              BY <1>0 DEF Pos
          <3>2. Msg(s, cmds[s] + 1) \in Messages
              BY <3>1, SeqTypes
          <3>3. out_q' \in Seq(Messages)
              BY <1>2, <3>2, SeqTypes DEF OpCommand
          <3> QED BY <1>0, <1>2, <3>3 DEF OpCommand
      <2>2. data_lookop' \in SUBSET Streams
          BY <1>2 DEF OpCommand, TypeOK
      <2> QED BY <1>2, <2>1, <2>2 DEF OpCommand, TypeOK, Finite
  <1>3. ASSUME NEW s \in Streams, OpCommandRefused(s)
        PROVE  TypeOK' /\ Finite'
      <2>1. cmds' \in [Streams -> Nat]
          BY <1>0, <1>3 DEF OpCommandRefused
      <2>2. CASE UNCHANGED <<opVars, told>>
          BY <1>3, <2>1, <2>2 DEF OpCommandRefused, TypeOK, Finite
      <2>3. CASE End(s[1])
          <3>1. s[1] \in Ops
              BY SeqTypes
          <3> QED BY <1>3, <2>1, <2>3, <3>1, EndType
                  DEF OpCommandRefused, TypeOK, Finite
      <2> QED BY <1>3, <2>2, <2>3 DEF OpCommandRefused
  <1>4. CASE ToAgent
      <2>1. /\ out_q' \in Seq(Messages)
            /\ Head(out_q).stream \in Streams /\ Head(out_q).chunk \in Nat
          BY <1>4, SeqTypes DEF ToAgent, Messages
      <2>2. Append(atAgent[Head(out_q).stream], Head(out_q).chunk) \in Seq(Nat)
          BY <1>0, <2>1, AppendFacts
      <2>3. atAgent' \in [Streams -> Seq(Nat)]
          BY <1>0, <1>4, <2>1, <2>2 DEF ToAgent
      <2> QED BY <1>4, <2>1, <2>3 DEF ToAgent, TypeOK, Finite
  <1>5. CASE ToOperator
      <2>1. /\ in_q' \in Seq(Messages)
            /\ Head(in_q).stream \in Streams /\ Head(in_q).chunk \in Nat
          BY <1>5, SeqTypes DEF ToOperator, Messages
      <2>2. Append(atOp[Head(in_q).stream], Head(in_q).chunk) \in Seq(Nat)
          BY <1>0, <2>1, AppendFacts
      <2>3. atOp' \in [Streams -> Seq(Nat)]
          BY <1>0, <1>5, <2>1, <2>2 DEF ToOperator
      <2>4. data_lookop' \in SUBSET Streams
          BY <1>5 DEF ToOperator, TypeOK
      <2> QED BY <1>5, <2>1, <2>3, <2>4 DEF ToOperator, TypeOK, Finite
  <1> QED BY <1>1, <1>2, <1>3, <1>4, <1>5 DEF StreamNext

LEMMA TypeStep == TypeOK /\ Finite /\ [Next]_vars => TypeOK' /\ Finite'
  <1> SUFFICES ASSUME TypeOK, Finite, [Next]_vars
               PROVE  TypeOK' /\ Finite'
      OBVIOUS
  <1>1. CASE UNCHANGED vars
      BY <1>1 DEF vars, TypeOK, Finite
  <1> QED BY <1>1, AgentType, SignalType, OpType, StreamType DEF Next

\* Every variable of the router keeps its type.
THEOREM TypeCorrect == Spec => []TypeOK
  BY InitType, TypeStep, PTL DEF Spec

-----------------------------------------------------------------------------
(* The two tables of agents.                                                *)

\* What a queue of signals holds after one was added or the first one taken.
LEMMA QueuedAppend ==
    ASSUME NEW q \in Seq(Signals), NEW m \in Signals
    PROVE  \A x : Contains(Append(q, m), x) <=> Contains(q, x) \/ x = m
  <1>1. /\ Len(q) \in Nat /\ Len(Append(q, m)) = Len(q) + 1
        /\ \A k \in 1..Len(q) : Append(q, m)[k] = q[k]
        /\ Append(q, m)[Len(q) + 1] = m
      BY AppendFacts
  <1>2. ASSUME NEW x, Contains(Append(q, m), x)
        PROVE  Contains(q, x) \/ x = m
      BY <1>1, <1>2 DEF Contains
  <1>3. ASSUME NEW x, Contains(q, x)
        PROVE  Contains(Append(q, m), x)
      BY <1>1, <1>3 DEF Contains
  <1>4. Contains(Append(q, m), m)
      BY <1>1 DEF Contains
  <1> QED BY <1>2, <1>3, <1>4

LEMMA QueuedTail ==
    ASSUME NEW q \in Seq(Signals), q # <<>>
    PROVE  /\ Contains(q, Head(q))
           /\ \A x : Contains(q, x) <=> Contains(Tail(q), x) \/ x = Head(q)
  <1>1. /\ Head(q) = q[1] /\ Len(q) \in Nat \ {0} /\ Len(Tail(q)) = Len(q) - 1
        /\ \A i \in 1..Len(Tail(q)) : Tail(q)[i] = q[i + 1] /\ i + 1 \in 1..Len(q)
      BY TailFacts
  <1>2. ASSUME NEW x, Contains(q, x), x # Head(q)
        PROVE  Contains(Tail(q), x)
      <2>1. PICK i \in 1..Len(q) : q[i] = x
          BY <1>2 DEF Contains
      <2>2. i # 1
          BY <1>1, <1>2, <2>1
      <2>3. i - 1 \in 1..Len(Tail(q)) /\ Tail(q)[i - 1] = x
          BY <1>1, <2>1, <2>2
      <2> QED BY <2>3 DEF Contains
  <1>3. ASSUME NEW x, Contains(Tail(q), x)
        PROVE  Contains(q, x)
      BY <1>1, <1>3 DEF Contains
  <1>4. Contains(q, Head(q))
      BY <1>1 DEF Contains
  <1> QED BY <1>2, <1>3, <1>4

LEMMA DifferentSignals ==
    \A a, b : /\ In(a) # Out(b)
              /\ In(a) = In(b) => a = b
              /\ Out(a) = Out(b) => a = b
  BY DEF In, Out

LEMMA MirrorMeans == AgentsMirror <=> \A a \in Agents : Agree(a)
  BY DEF AgentsMirror, Agree, In, Out

LEMMA OutLastAppend ==
    ASSUME NEW q \in Seq(Signals), NEW m \in Signals, NEW a, OutLast(q, a),
           m = In(a) => ~Contains(q, Out(a))
    PROVE  OutLast(Append(q, m), a)
  <1> SUFFICES ASSUME NEW i \in 1..Len(Append(q, m)), NEW j \in 1..Len(Append(q, m)),
                      Append(q, m)[i] = In(a), Append(q, m)[j] = Out(a)
               PROVE  i < j
      BY DEF OutLast
  <1>1. /\ Len(q) \in Nat /\ Len(Append(q, m)) = Len(q) + 1
        /\ \A k \in 1..Len(q) : Append(q, m)[k] = q[k]
        /\ Append(q, m)[Len(q) + 1] = m
      BY AppendFacts
  <1>2. CASE i \in 1..Len(q) /\ j \in 1..Len(q)
      BY <1>1, <1>2 DEF OutLast
  <1>3. CASE i = Len(q) + 1 /\ j \in 1..Len(q)
      BY <1>1, <1>3 DEF Contains
  <1>4. CASE i \in 1..Len(q) /\ j = Len(q) + 1
      BY <1>1, <1>4
  <1>5. CASE i = Len(q) + 1 /\ j = Len(q) + 1
      BY <1>1, <1>5, DifferentSignals
  <1> QED BY <1>1, <1>2, <1>3, <1>4, <1>5

LEMMA OutLastTail ==
    ASSUME NEW q \in Seq(Signals), q # <<>>, NEW a, OutLast(q, a)
    PROVE  /\ OutLast(Tail(q), a)
           /\ Head(q) = Out(a) => ~Contains(q, In(a))
  <1>1. /\ Head(q) = q[1] /\ Len(q) \in Nat \ {0} /\ Len(Tail(q)) = Len(q) - 1
        /\ \A i \in 1..Len(Tail(q)) : Tail(q)[i] = q[i + 1] /\ i + 1 \in 1..Len(q)
      BY TailFacts
  <1>2. ASSUME NEW i \in 1..Len(Tail(q)), NEW j \in 1..Len(Tail(q)),
               Tail(q)[i] = In(a), Tail(q)[j] = Out(a)
        PROVE  i < j
      <2>1. i + 1 < j + 1
          BY <1>1, <1>2 DEF OutLast
      <2> QED BY <2>1
  <1>3. ASSUME Head(q) = Out(a), NEW i \in 1..Len(q), q[i] = In(a)
        PROVE  FALSE
      <2>1. 1 \in 1..Len(q) /\ q[1] = Out(a)
          BY <1>1, <1>3
      <2>2. i < 1
          BY <1>3, <2>1 DEF OutLast
      <2> QED BY <2>2
  <1> QED BY <1>2, <1>3 DEF OutLast, Contains

LEMMA MirrorFrame ==
    ASSUME Mirror, UNCHANGED <<agentWs, announced, clients, signals>>,
           agents'.keys = agents.keys
    PROVE  Mirror'
  BY DEF Mirror, MirrorOf, Agree

LEMMA MirrorInit == Init => Mirror
  BY DEF Init, Mirror, MirrorOf, Agree, OutLast, Contains, EmptyDict

LEMMA MirrorAgent ==
    ASSUME TypeOK, Mirror, AgentNext
    PROVE  Mirror'
  <1> SUFFICES ASSUME NEW b \in Agents
               PROVE  MirrorOf(b)'
      BY DEF Mirror
  <1> MirrorOf(b)
      BY DEF Mirror
  <1> signals \in Seq(Signals) /\ agentWs \in [Agents -> {"new", "up", "closed"}]
      BY DEF TypeOK
  <1>1. PICK a \in Agents : AgentConnect(a) \/ AgentInfo(a) \/ AgentClose(a)
                                \/ AgentLeave(a)
      BY DEF AgentNext
  <1> MirrorOf(a)
      BY DEF Mirror
  <1>2. CASE AgentConnect(a)
      BY <1>2 DEF AgentConnect, MirrorOf, Agree
  <1>3. CASE AgentInfo(a)
      <2>1. In(a) \in Signals /\ signals' = Append(signals, In(a))
          BY <1>3 DEF AgentInfo, In, Signals
      <2>2. \A x : Contains(signals', x) <=> Contains(signals, x) \/ x = In(a)
          BY <2>1, QueuedAppend
      <2>3. a \in clients /\ ~Contains(signals, Out(a))
          BY <1>3 DEF AgentInfo, MirrorOf
      <2>4. OutLast(signals', b)
          BY <2>1, <2>3, OutLastAppend, DifferentSignals DEF MirrorOf
      <2>5. Agree(b)'
          BY <1>3, <2>2, <2>3, DifferentSignals DEF AgentInfo, MirrorOf, Agree
      <2> QED BY <1>3, <2>2, <2>4, <2>5, DifferentSignals DEF AgentInfo, MirrorOf
  <1>4. CASE AgentClose(a)
      BY <1>4 DEF AgentClose, MirrorOf, Agree
  <1>5. CASE AgentLeave(a)
      <2>1. Out(a) \in Signals /\ signals' = Append(signals, Out(a))
          BY <1>5 DEF AgentLeave, Out, Signals
      <2>2. \A x : Contains(signals', x) <=> Contains(signals, x) \/ x = Out(a)
          BY <2>1, QueuedAppend
      <2>3. OutLast(signals', b)
          BY <2>1, OutLastAppend, DifferentSignals DEF MirrorOf
      <2>4. Agree(b)'
          BY <1>5, <2>2, DifferentSignals DEF AgentLeave, MirrorOf, Agree
      <2> QED BY <1>5, <2>2, <2>3, <2>4, DifferentSignals DEF AgentLeave, MirrorOf
  <1> QED BY <1>1, <1>2, <1>3, <1>4, <1>5

LEMMA MirrorSignal ==
    ASSUME TypeOK, Mirror, Signal
    PROVE  Mirror'
  <1> USE DEF agentVars, opVars
  <1> signals \in Seq(Signals) /\ agents \in Dict(Agents)
      BY DEF TypeOK
  <1>1. CASE NotifySent \/ NotifyFailed
      BY <1>1, MirrorFrame DEF NotifySent, NotifyFailed
  <1>2. ASSUME NEW a \in Agents, SignalIn(a) \/ SignalOut(a)
        PROVE  Mirror'
      <2> SUFFICES ASSUME NEW b \in Agents
                   PROVE  MirrorOf(b)'
          BY DEF Mirror
      <2> MirrorOf(b) /\ MirrorOf(a)
          BY DEF Mirror
      <2>1. signals # <<>> /\ signals' = Tail(signals)
          BY <1>2 DEF SignalIn, SignalOut
      <2>2. /\ Contains(signals, Head(signals))
            /\ \A x : Contains(signals, x) <=> Contains(signals', x) \/ x = Head(signals)
          BY <2>1, QueuedTail
      <2>3. OutLast(signals', b) /\ (Head(signals) = Out(b) => ~Contains(signals, In(b)))
          BY <2>1, OutLastTail DEF MirrorOf
      <2>4. UNCHANGED <<agentWs, announced, clients>>
          BY <1>2 DEF SignalIn, SignalOut
      <2>5. CASE SignalIn(a)
          <3>1. Head(signals) = In(a)
              BY <2>5 DEF SignalIn, In
          <3>2. agents'.keys = agents.keys \cup {a}
              BY <2>5, InsertKeys DEF SignalIn
          <3>3. Agree(b)'
              BY <2>2, <2>4, <3>1, <3>2, DifferentSignals DEF MirrorOf, Agree
          <3> QED BY <2>2, <2>3, <2>4, <3>3 DEF MirrorOf
      <2>6. CASE SignalOut(a)
          <3>1. Head(signals) = Out(a)
              BY <2>6 DEF SignalOut, Out
          <3>2. agents'.keys = agents.keys \ {a}
              BY <2>6 DEF SignalOut, Delete, Dict
          <3>3. Agree(b)'
              <4>1. CASE b = a
                  BY <2>2, <2>3, <2>4, <3>1, <3>2, <4>1 DEF MirrorOf, Agree
              <4>2. CASE b # a
                  BY <2>2, <2>4, <3>1, <3>2, <4>2, DifferentSignals DEF MirrorOf, Agree
              <4> QED BY <4>1, <4>2
          <3> QED BY <2>2, <2>3, <2>4, <3>3 DEF MirrorOf
      <2> QED BY <1>2, <2>5, <2>6
  <1> QED BY <1>1, <1>2 DEF Signal

LEMMA MirrorRest ==
    ASSUME TypeOK, Mirror,
           OpNext \/ StreamNext \/ ToAgent \/ ToOperator \/ UNCHANGED vars
    PROVE  Mirror'
  <1>1. UNCHANGED <<agentVars, signals, agents>>
      BY DEF OpNext, OpConnect, OpClose, OpLeave, OpList, ListSent, StreamNext,
             AgentReply, OpCommand, OpCommandRefused, ToAgent, ToOperator,
             vars, agentVars
  <1> QED BY <1>1, MirrorFrame DEF agentVars

-----------------------------------------------------------------------------
(* The table of operators.                                                  *)

LEMMA KeptInit == Init => Kept
  BY DEF Init, Kept, OperatorKept, Idle, EmptyDict

\* A WebSocket that is closed stays closed, and none is new again.
LEMMA WebSocketsMoveOn ==
    ASSUME TypeOK, [Next]_vars, NEW o \in Ops
    PROVE  /\ opWs[o] = "closed" => opWs'[o] = "closed"
           /\ opWs[o] # "new" => opWs'[o] # "new"
  <1> opWs \in [Ops -> {"new", "up", "closed"}]
      BY DEF TypeOK
  <1> DEFINE P == /\ opWs[o] = "closed" => opWs'[o] = "closed"
                  /\ opWs[o] # "new" => opWs'[o] # "new"
  <1>1. CASE AgentNext \/ Signal \/ ToAgent \/ ToOperator \/ UNCHANGED vars
      BY <1>1 DEF AgentNext, AgentConnect, AgentInfo, AgentClose, AgentLeave,
                  Signal, NotifySent, NotifyFailed, SignalIn, SignalOut, ToAgent,
                  ToOperator, opVars, vars
  <1>2. CASE OpNext
      <2>1. PICK p \in Ops : OpConnect(p) \/ OpClose(p) \/ OpLeave(p) \/ OpList(p)
                                \/ ListSent(p)
          BY <1>2 DEF OpNext
      <2>2. End(p) => P
          BY DEF End
      <2>3. OpList(p) \/ ListSent(p) => End(p) \/ UNCHANGED opWs
          BY DEF OpList, ListSent, ListFrom
      <2> QED BY <2>1, <2>2, <2>3 DEF OpConnect, OpClose, OpLeave
  <1>3. CASE StreamNext
      <2>1. PICK s \in Streams : AgentReply(s) \/ OpCommand(s) \/ OpCommandRefused(s)
          BY <1>3 DEF StreamNext
      <2>2. End(s[1]) => P
          BY DEF End
      <2> QED BY <2>1, <2>2 DEF AgentReply, OpCommand, OpCommandRefused, opVars
  <1> QED BY <1>1, <1>2, <1>3 DEF Next

\* Nobody but the operator itself makes it "recv" or "listing", and none of its
\* steps that leave it there deletes it.
LEMMA KeptOp ==
    ASSUME TypeOK, Kept, OpNext \/ StreamNext \/ ToAgent \/ ToOperator
    PROVE  OperatorKept'
  <1> SUFFICES ASSUME NEW o \in Ops,
                      handler'[o] \in {"recv", "listing"}, opWs'[o] = "up"
               PROVE  o \in operators'.keys
      BY DEF OperatorKept
  <1>0. /\ opWs \in [Ops -> {"new", "up", "closed"}]
        /\ handler \in [Ops -> {"none", "recv", "listing", "done"}]
        /\ operators \in Dict(Ops)
        /\ handler[o] \in {"recv", "listing"} /\ opWs[o] = "up" => o \in operators.keys
      BY DEF TypeOK, Kept, OperatorKept
  <1>1. ASSUME NEW p \in Ops, End(p)
        PROVE  o \in operators'.keys
      BY <1>0, <1>1 DEF End, Delete, Dict
  <1>2. ASSUME UNCHANGED opVars
        PROVE  o \in operators'.keys
      BY <1>0, <1>2 DEF opVars
  <1>3. CASE OpNext
      <2>1. PICK p \in Ops : OpConnect(p) \/ OpClose(p) \/ OpLeave(p) \/ OpList(p)
                                \/ ListSent(p)
          BY <1>3 DEF OpNext
      <2>2. CASE OpConnect(p)
          BY <1>0, <2>2, InsertKeys DEF OpConnect
      <2>3. CASE OpClose(p)
          BY <1>0, <2>3 DEF OpClose
      <2>4. CASE OpLeave(p)
          BY <1>1, <2>4 DEF OpLeave
      <2>5. CASE OpList(p) \/ ListSent(p)
          <3>1. /\ handler[p] \in {"recv", "listing"}
                /\ \/ End(p)
                   \/ /\ UNCHANGED <<operators, opWs>>
                      /\ \E x \in {"recv", "listing"} :
                            handler' = [handler EXCEPT ![p] = x]
              BY <2>5 DEF OpList, ListSent, ListFrom
          <3> QED BY <1>0, <1>1, <3>1
      <2> QED BY <2>1, <2>2, <2>3, <2>4, <2>5
  <1>4. CASE StreamNext
      <2>1. PICK s \in Streams : AgentReply(s) \/ OpCommand(s) \/ OpCommandRefused(s)
          BY <1>4 DEF StreamNext
      <2>2. s[1] \in Ops
          BY DEF Streams
      <2>3. UNCHANGED opVars \/ End(s[1])
          BY <2>1 DEF AgentReply, OpCommand, OpCommandRefused
      <2> QED BY <1>1, <1>2, <2>2, <2>3
  <1>5. CASE ToAgent \/ ToOperator
      BY <1>2, <1>5 DEF ToAgent, ToOperator
  <1> QED BY <1>3, <1>4, <1>5

\* Who is in the table has connected.
LEMMA OperatorsJoined ==
    ASSUME TypeOK, Kept, OpNext \/ StreamNext \/ ToAgent \/ ToOperator,
           NEW o \in operators'.keys
    PROVE  opWs'[o] # "new"
  <1>0. /\ opWs \in [Ops -> {"new", "up", "closed"}]
        /\ operators \in Dict(Ops)
        /\ o \in operators.keys => o \in Ops /\ opWs[o] # "new"
      BY DEF TypeOK, Kept, Dict
  <1>1. o \in operators.keys \/ (o \in Ops /\ OpConnect(o))
      <2>1. ASSUME NEW p \in Ops, End(p)
            PROVE  o \in operators.keys
          BY <1>0, <2>1 DEF End, Delete, Dict
      <2>2. CASE OpNext
          <3>1. PICK p \in Ops : OpConnect(p) \/ OpClose(p) \/ OpLeave(p) \/ OpList(p)
                                    \/ ListSent(p)
              BY <2>2 DEF OpNext
          <3>2. OpConnect(p) => operators'.keys = operators.keys \cup {p}
              BY <1>0, InsertKeys DEF OpConnect
          <3>3. ~OpConnect(p) => End(p) \/ UNCHANGED operators
              BY <3>1 DEF OpClose, OpLeave, OpList, ListSent, ListFrom
          <3> QED BY <2>1, <3>2, <3>3
      <2>3. CASE StreamNext
          <3>1. PICK s \in Streams : AgentReply(s) \/ OpCommand(s) \/ OpCommandRefused(s)
              BY <2>3 DEF StreamNext
          <3>2. s[1] \in Ops
              BY DEF Streams
          <3>3. UNCHANGED operators \/ End(s[1])
              BY <3>1 DEF AgentReply, OpCommand, OpCommandRefused, opVars
          <3> QED BY <2>1, <3>2, <3>3
      <2>4. CASE ToAgent \/ ToOperator
          BY <2>4 DEF ToAgent, ToOperator, opVars
      <2> QED BY <2>2, <2>3, <2>4
  <1>2. CASE o \in operators.keys
      BY <1>0, <1>2, WebSocketsMoveOn DEF Next
  <1>3. CASE o \in Ops /\ OpConnect(o)
      BY <1>0, <1>3 DEF OpConnect
  <1> QED BY <1>1, <1>2, <1>3

\* The signal task deletes only who is gone.
LEMMA KeptSignal ==
    ASSUME TypeOK, Kept, Signal
    PROVE  Kept'
  <1> USE DEF opVars
  <1>0. /\ opWs \in [Ops -> {"new", "up", "closed"}]
        /\ operators \in Dict(Ops)
      BY DEF TypeOK
  <1>1. ASSUME NEW d \in Dict(Ops), d.keys \subseteq operators.keys, NEW a, NEW it,
               NotifyFrom(d, a, it), UNCHANGED opWs
        PROVE  notify'.at = "raise" => opWs'[notify'.op] = "closed"
      <2>1. CASE notify' = Idle
          BY <2>1 DEF Idle
      <2>2. CASE notify' # Idle
          <3>1. PICK i \in DOMAIN d.entries :
                   /\ Yields(d, it, i)
                   /\ notify' = [at |-> IF opWs[d.entries[i]] = "up"
                                        THEN "send" ELSE "raise",
                                 agent |-> a, op |-> d.entries[i],
                                 it |-> Advance(d, it, i)]
              BY <1>1, <2>2 DEF NotifyFrom
          <3>2. d.entries[i] \in operators.keys
              BY <1>1, <3>1 DEF Yields, Remaining
          <3>3. d.entries[i] \in Ops /\ opWs[d.entries[i]] # "new"
              BY <1>0, <3>2 DEF Dict, Kept
          <3> QED BY <1>0, <1>1, <3>1, <3>3
      <2> QED BY <2>1, <2>2
  <1>2. CASE NotifyFailed
      <2>1. opWs[notify.op] = "closed"
          BY <1>2 DEF NotifyFailed, Kept
      <2>2. operators'.keys = operators.keys \ {notify.op} /\ operators' \in Dict(Ops)
          BY <1>0, <1>2 DEF NotifyFailed, Delete, Dict
      <2>3. UNCHANGED <<opWs, handler>>
          BY <1>2 DEF NotifyFailed
      <2>4. notify'.at = "raise" => opWs'[notify'.op] = "closed"
          <3>1. CASE notify' = Idle
              BY <3>1 DEF Idle
          <3>2. CASE NotifyFrom(operators', notify.agent, notify.it)
              <4>1. PICK d : d = operators'
                  OBVIOUS
              <4>2. /\ NotifyFrom(d, notify.agent, notify.it) /\ d \in Dict(Ops)
                    /\ d.keys \subseteq operators.keys
                  BY <2>2, <3>2, <4>1
              <4> QED BY <1>1, <2>3, <4>2
          <3> QED BY <1>2, <3>1, <3>2 DEF NotifyFailed
      <2> QED BY <2>1, <2>2, <2>3, <2>4 DEF Kept, OperatorKept
  <1>3. CASE NotifySent
      <2>1. notify'.at = "raise" => opWs'[notify'.op] = "closed"
          BY <1>0, <1>1, <1>3 DEF NotifySent
      <2> QED BY <1>3, <2>1 DEF NotifySent, Kept, OperatorKept
  <1>4. CASE \E a \in Agents : SignalIn(a)
      <2>1. notify'.at = "raise" => opWs'[notify'.op] = "closed"
          BY <1>0, <1>1, <1>4 DEF SignalIn
      <2> QED BY <1>4, <2>1 DEF SignalIn, Kept, OperatorKept
  <1>5. CASE \E a \in Agents : SignalOut(a)
      BY <1>5 DEF SignalOut, Kept, OperatorKept
  <1> QED BY <1>2, <1>3, <1>4, <1>5 DEF Signal

LEMMA KeptStep ==
    ASSUME TypeOK, Kept, [Next]_vars
    PROVE  Kept'
  <1>1. CASE Signal
      BY <1>1, KeptSignal
  <1>2. CASE OpNext \/ StreamNext \/ ToAgent \/ ToOperator
      <2>1. OperatorKept'
          BY <1>2, KeptOp
      <2>2. notify' = notify
          BY <1>2 DEF OpNext, OpConnect, OpClose, OpLeave, OpList, ListSent,
                      StreamNext, AgentReply, OpCommand, OpCommandRefused, ToAgent,
                      ToOperator
      <2>3. notify.at = "raise" => notify.op \in Ops
          BY DEF TypeOK
      <2>4. notify'.at = "raise" => opWs'[notify'.op] = "closed"
          BY <2>2, <2>3, WebSocketsMoveOn DEF Kept
      <2>5. ASSUME NEW o \in operators'.keys
            PROVE  opWs'[o] # "new"
          BY <1>2, <2>5, OperatorsJoined
      <2> QED BY <2>1, <2>4, <2>5 DEF Kept
  <1>3. CASE AgentNext \/ UNCHANGED vars
      <2>1. UNCHANGED <<operators, opWs, handler, notify>>
          BY <1>3 DEF AgentNext, AgentConnect, AgentInfo, AgentClose, AgentLeave,
                      opVars, vars
      <2> QED BY <2>1 DEF Kept, OperatorKept
  <1> QED BY <1>1, <1>2, <1>3 DEF Next

-----------------------------------------------------------------------------
(* Where replies go.                                                        *)

LEMMA RoutingInit == Init => Routing
  BY DEF Init, Routing

LEMMA RoutedStays ==
    ASSUME TypeOK, Finite, [Next]_vars, NEW s \in Streams, Routed(s)
    PROVE  Routed(s)'
  <1>0. s[1] \in Ops /\ opWs \in [Ops -> {"new", "up", "closed"}]
      BY DEF TypeOK, Streams
  <1>1. /\ opWs[s[1]] = "closed" => opWs'[s[1]] = "closed"
        /\ opWs[s[1]] # "new" => opWs'[s[1]] # "new"
      BY <1>0, WebSocketsMoveOn
  <1>2. opWs'[s[1]] \in {"new", "up", "closed"}
      <2>1. opWs' \in [Ops -> {"new", "up", "closed"}]
          BY TypeStep DEF TypeOK
      <2> QED BY <1>0, <2>1
  <1>3. CASE opWs[s[1]] = "closed"
      BY <1>1, <1>3 DEF Routed
  <1>4. CASE opWs[s[1]] = "up" /\ s \in data_lookop
      <2>1. s \in data_lookop'
          <3>1. CASE AgentNext \/ OpNext \/ Signal \/ ToAgent \/ UNCHANGED vars
              BY <1>4, <3>1
                 DEF AgentNext, AgentConnect, AgentInfo, AgentClose, AgentLeave,
                     OpNext, OpConnect, OpClose, OpLeave, OpList, ListSent, Signal,
                     NotifySent, NotifyFailed, SignalIn, SignalOut, ToAgent,
                     streamVars, vars
          <3>2. CASE StreamNext
              BY <1>4, <3>2 DEF StreamNext, AgentReply, OpCommand, OpCommandRefused
          <3>3. CASE ToOperator
              BY <1>4, <3>3 DEF ToOperator
          <3> QED BY <3>1, <3>2, <3>3 DEF Next
      <2> QED BY <1>1, <1>2, <1>4, <2>1 DEF Routed
  <1> QED BY <1>3, <1>4 DEF Routed

\* Nobody serves an operator before it has connected.
LEMMA ServedHasConnected ==
    ASSUME TypeOK, Routing, [Next]_vars, NEW o \in Ops, opWs'[o] = "new"
    PROVE  handler'[o] = "none"
  <1>0. /\ opWs \in [Ops -> {"new", "up", "closed"}]
        /\ handler \in [Ops -> {"none", "recv", "listing", "done"}]
      BY DEF TypeOK
  <1>1. opWs[o] = "new"
      BY WebSocketsMoveOn
  <1>2. handler[o] = "none"
      BY <1>1 DEF Routing
  <1>3. CASE AgentNext \/ Signal \/ ToAgent \/ ToOperator \/ UNCHANGED vars
      BY <1>2, <1>3 DEF AgentNext, AgentConnect, AgentInfo, AgentClose, AgentLeave,
                  Signal, NotifySent, NotifyFailed, SignalIn, SignalOut, ToAgent,
                  ToOperator, opVars, vars
  <1>4. CASE OpNext
      <2>1. PICK p \in Ops : OpConnect(p) \/ OpClose(p) \/ OpLeave(p) \/ OpList(p)
                                \/ ListSent(p)
          BY <1>4 DEF OpNext
      <2>2. CASE OpConnect(p)
          BY <1>0, <1>2, <2>2 DEF OpConnect
      <2>3. CASE ~OpConnect(p)
          <3>1. handler[p] # "none" \/ UNCHANGED handler
              BY <2>1, <2>3 DEF OpClose, OpLeave, OpList, ListSent
          <3>2. handler' = handler \/ \E x : handler' = [handler EXCEPT ![p] = x]
              BY <2>1, <2>3 DEF OpClose, OpLeave, OpList, ListSent, ListFrom, End
          <3> QED BY <1>0, <1>2, <3>1, <3>2
      <2> QED BY <2>2, <2>3
  <1>5. CASE StreamNext
      <2>1. PICK s \in Streams : AgentReply(s) \/ OpCommand(s) \/ OpCommandRefused(s)
          BY <1>5 DEF StreamNext
      <2>2. UNCHANGED handler \/ (handler[s[1]] = "recv" /\ End(s[1]))
          BY <2>1 DEF AgentReply, OpCommand, OpCommandRefused, opVars
      <2> QED BY <1>0, <1>2, <2>2 DEF End
  <1> QED BY <1>3, <1>4, <1>5 DEF Next

\* A message that is queued belongs to a stream.
LEMMA StreamsQueued ==
    ASSUME TypeOK
    PROVE  /\ \A i \in 1..Len(in_q) : in_q[i].stream \in Streams
           /\ \A i \in 1..Len(out_q) : out_q[i].stream \in Streams
  <1>1. in_q \in Seq(Messages) /\ out_q \in Seq(Messages)
      BY DEF TypeOK
  <1>2. \A m \in Messages : m.stream \in Streams
      BY DEF Messages
  <1> QED BY <1>1, <1>2

\* A queue after a step holds what it held, without its head or with a message
\* of a stream that is routed.
LEMMA QueueRouted ==
    ASSUME NEW q \in Seq(Messages), NEW r, NEW R,
           \A i \in 1..Len(q) : q[i].stream \in R,
           \/ r = q
           \/ q # <<>> /\ r = Tail(q)
           \/ \E s \in R \cap Streams, n \in Pos : r = Append(q, Msg(s, n))
    PROVE  \A i \in 1..Len(r) : r[i].stream \in R
  <1>1. CASE r = q
      BY <1>1
  <1>2. CASE q # <<>> /\ r = Tail(q)
      BY <1>2, TailFacts
  <1>3. ASSUME NEW s \in R \cap Streams, NEW n \in Pos, r = Append(q, Msg(s, n))
        PROVE  \A i \in 1..Len(r) : r[i].stream \in R
      <2>1. Msg(s, n) \in Messages /\ Msg(s, n).stream = s
          BY DEF Msg, Messages, Pos
      <2> QED BY <1>3, <2>1, AppendFacts
  <1> QED BY <1>1, <1>2, <1>3

LEMMA RoutingStep ==
    ASSUME TypeOK, Finite, Routing, [Next]_vars
    PROVE  Routing'
  <1> DEFINE R == {s \in Streams : Routed(s)'}
  <1>0. /\ in_q \in Seq(Messages) /\ out_q \in Seq(Messages)
        /\ atAgent \in [Streams -> Seq(Nat)]
        /\ opWs' \in [Ops -> {"new", "up", "closed"}]
        /\ cmds \in [Streams -> Nat] /\ replies \in [Streams -> Nat]
      BY TypeStep DEF TypeOK
  <1>1. /\ \A i \in 1..Len(in_q) : in_q[i].stream \in R
        /\ \A i \in 1..Len(out_q) : out_q[i].stream \in R
        /\ \A s \in Streams : atAgent[s] # <<>> => s \in R
      BY StreamsQueued, RoutedStays DEF Routing
  <1>2. \A i \in 1..Len(in_q') : in_q'[i].stream \in R
      <2>1. \/ in_q' = in_q
            \/ in_q # <<>> /\ in_q' = Tail(in_q)
            \/ \E s \in R \cap Streams, n \in Pos : in_q' = Append(in_q, Msg(s, n))
          <3>1. CASE AgentNext \/ OpNext \/ Signal \/ ToAgent \/ UNCHANGED vars
              BY <3>1 DEF AgentNext, AgentConnect, AgentInfo, AgentClose, AgentLeave,
                     OpNext, OpConnect, OpClose, OpLeave, OpList, ListSent, Signal,
                     NotifySent, NotifyFailed, SignalIn, SignalOut, ToAgent,
                     streamVars, vars
          <3>2. ASSUME NEW s \in Streams, AgentReply(s)
                PROVE  \E t \in R \cap Streams, n \in Pos :
                           in_q' = Append(in_q, Msg(t, n))
              <4>1. s \in R
                  BY <1>1, <3>2 DEF AgentReply
              <4>2. replies[s] + 1 \in Pos
                  BY <1>0 DEF Pos
              <4> QED BY <3>2, <4>1, <4>2 DEF AgentReply
          <3>3. ASSUME NEW s \in Streams, OpCommand(s) \/ OpCommandRefused(s)
                PROVE  in_q' = in_q
              BY <3>3 DEF OpCommand, OpCommandRefused
          <3>4. CASE ToOperator
              BY <3>4 DEF ToOperator
          <3> HIDE DEF R
          <3> QED BY <3>1, <3>2, <3>3, <3>4 DEF Next, StreamNext
      <2> HIDE DEF R
      <2> QED BY <1>0, <1>1, <2>1, QueueRouted
  <1>3. \A i \in 1..Len(out_q') : out_q'[i].stream \in R
      <2>1. \/ out_q' = out_q
            \/ out_q # <<>> /\ out_q' = Tail(out_q)
            \/ \E s \in R \cap Streams, n \in Pos : out_q' = Append(out_q, Msg(s, n))
          <3>1. CASE AgentNext \/ OpNext \/ Signal \/ ToOperator \/ UNCHANGED vars
              BY <3>1 DEF AgentNext, AgentConnect, AgentInfo, AgentClose, AgentLeave,
                     OpNext, OpConnect, OpClose, OpLeave, OpList, ListSent, Signal,
                     NotifySent, NotifyFailed, SignalIn, SignalOut, ToOperator,
                     streamVars, vars
          <3>2. ASSUME NEW s \in Streams, OpCommand(s)
                PROVE  \E t \in R \cap Streams, n \in Pos :
                           out_q' = Append(out_q, Msg(t, n))
              <4>1. s[1] \in Ops
                  BY DEF Streams
              <4>2. opWs[s[1]] # "new" /\ UNCHANGED opWs /\ s \in data_lookop'
                  BY <3>2, <4>1 DEF OpCommand, Routing, opVars
              <4>3. s \in R
                  BY <1>0, <4>1, <4>2 DEF Routed
              <4>4. cmds[s] + 1 \in Pos
                  BY <1>0 DEF Pos
              <4> QED BY <3>2, <4>3, <4>4 DEF OpCommand
          <3>3. ASSUME NEW s \in Streams, AgentReply(s) \/ OpCommandRefused(s)
                PROVE  out_q' = out_q
              BY <3>3 DEF AgentReply, OpCommandRefused
          <3>4. CASE ToAgent
              BY <3>4 DEF ToAgent
          <3> HIDE DEF R
          <3> QED BY <3>1, <3>2, <3>3, <3>4 DEF Next, StreamNext
      <2> HIDE DEF R
      <2> QED BY <1>0, <1>1, <2>1, QueueRouted
  <1>4. ASSUME NEW s \in Streams, atAgent'[s] # <<>>
        PROVE  s \in R
      <2>1. CASE atAgent' = atAgent
          BY <1>1, <1>4, <2>1
      <2>2. CASE ToAgent
          <3>1. out_q # <<>> /\ Head(out_q).stream \in R
              BY <1>0, <1>1, <2>2, TailFacts DEF ToAgent
          <3>2. s = Head(out_q).stream \/ atAgent'[s] = atAgent[s]
              BY <1>0, <2>2 DEF ToAgent
          <3> QED BY <1>1, <1>4, <3>1, <3>2
      <2>3. atAgent' = atAgent \/ ToAgent
          BY DEF Next, AgentNext, AgentConnect, AgentInfo, AgentClose, AgentLeave,
                 OpNext, OpConnect, OpClose, OpLeave, OpList, ListSent, Signal,
                 NotifySent, NotifyFailed, SignalIn, SignalOut, ToOperator,
                 StreamNext, AgentReply, OpCommand, OpCommandRefused,
                 streamVars, vars
      <2> QED BY <2>1, <2>2, <2>3
  <1> QED BY <1>2, <1>3, <1>4, ServedHasConnected DEF Routing

-----------------------------------------------------------------------------
(* Streams.  A command is accepted for an agent that is in the table, or   *)
(* refused when the agent has closed its WebSocket.  Until then nothing of *)
(* what was accepted is dropped: every command that is not with the agent  *)
(* is in out_q, in its place.  The same for replies until the operator has *)
(* closed its WebSocket.                                                   *)

Lane(s) == [m \in Nat |-> Msg(s, m)]

Lined(q, s, d, n) == InOrder(q, Lane(s), Range(d), n) /\ Whole(q, Lane(s), Range(d), n)

\* An agent that somebody was told about.
Known(a) == a \in agents.keys \/ agentWs[a] = "closed"

Introduced ==
    /\ notify.at \in {"send", "raise"} => Known(notify.agent)
    /\ \A o \in Ops : \A a \in told[o] : Known(a)
    /\ \A i \in 1..Len(out_q) : agentWs[out_q[i].stream[2]] # "new"

Outgoing(s) == agentWs[s[2]] # "closed" => Lined(out_q, s, atAgent[s], cmds[s])

Incoming(s) == opWs[s[1]] # "closed" => Lined(in_q, s, atOp[s], replies[s])

Streaming == Introduced /\ \A s \in Streams : Outgoing(s) /\ Incoming(s)

LEMMA LaneFacts ==
    ASSUME NEW s \in Streams
    PROVE  /\ IsLane(Lane(s))
           /\ \A n \in Nat : Lane(s)[n] = Msg(s, n)
           /\ \A e \in Messages, m \in Pos :
                 e = Lane(s)[m] <=> e.stream = s /\ e.chunk = m
  <1>1. \A n \in Nat : Lane(s)[n] = Msg(s, n)
      BY DEF Lane
  <1>2. \A m \in Pos : m \in Nat
      BY DEF Pos
  <1>3. \A e \in Messages, m \in Pos : e = Msg(s, m) <=> e.stream = s /\ e.chunk = m
      BY DEF Messages, Msg
  <1>4. \A m, l \in Pos : Msg(s, m) = Msg(s, l) => m = l
      BY DEF Msg
  <1> QED BY <1>1, <1>2, <1>3, <1>4 DEF IsLane

LEMMA LinedAppend ==
    ASSUME NEW q \in Seq(Messages), NEW s \in Streams, NEW t \in Streams,
           NEW d, NEW n \in Nat, Lined(q, s, d, n), NEW k \in Pos,
           t = s => k = n + 1
    PROVE  Lined(Append(q, Msg(t, k)), s, d, IF t = s THEN n + 1 ELSE n)
  <1>1. Msg(t, k) \in Messages
      BY DEF Msg, Messages, Pos
  <1>2. CASE t = s
      <2>1. n + 1 \in Nat /\ Lane(s)[n + 1] = Msg(s, n + 1)
          BY LaneFacts
      <2> QED BY <1>1, <1>2, <2>1, LaneEnter, LaneFacts DEF Lined
  <1>3. CASE t # s
      <2>1. \A m \in Pos : Msg(t, k) # Lane(s)[m]
          BY <1>1, <1>3, LaneFacts DEF Msg
      <2> QED BY <1>1, <1>3, <2>1, LaneOther DEF Lined
  <1> QED BY <1>2, <1>3

\* A message that leaves its queue is the next of its stream.
LEMMA LinedTail ==
    ASSUME NEW q \in Seq(Messages), q # <<>>, NEW s \in Streams, NEW d \in Seq(Nat),
           NEW n \in Nat, Lined(q, s, d, n)
    PROVE  /\ Head(q) \in Messages
           /\ Head(q).stream # s => Lined(Tail(q), s, d, n)
           /\ Head(q).stream = s =>
                 /\ Head(q).chunk \in 1..n /\ Head(q).chunk \notin Range(d)
                 /\ \A m \in 1..(Head(q).chunk - 1) : m \in Range(d)
                 /\ Lined(Tail(q), s, Append(d, Head(q).chunk), n)
  <1>1. Head(q) \in Messages
      BY TailFacts
  <1>2. CASE Head(q).stream # s
      <2>1. \A m \in Pos : Head(q) # Lane(s)[m]
          BY <1>1, <1>2, LaneFacts
      <2> QED BY <1>1, <1>2, <2>1, LaneSkip DEF Lined
  <1>3. CASE Head(q).stream = s
      <2>1. PICK m : m = Head(q).chunk
          OBVIOUS
      <2>2. m \in Pos /\ Head(q) = Lane(s)[m]
          BY <1>1, <1>3, <2>1, LaneFacts DEF Messages, Pos
      <2>3. m \in Nat /\ m # 0
          BY <2>2 DEF Pos
      <2>4. Range(Append(d, m)) \cap Pos = (Range(d) \cap Pos) \cup {m}
          BY <2>3, GotMore
      <2>5. PICK new : new = Range(Append(d, m))
          OBVIOUS
      <2>6. PICK lane : lane = Lane(s)
          OBVIOUS
      <2>7. PICK got : got = Range(d)
          OBVIOUS
      <2>8. IsLane(lane) /\ InOrder(q, lane, got, n) /\ Whole(q, lane, got, n)
          BY <2>6, <2>7, LaneFacts DEF Lined
      <2>9. /\ m \notin got /\ m <= n /\ \A l \in 1..(m - 1) : l \in got
            /\ InOrder(Tail(q), lane, new, n) /\ Whole(Tail(q), lane, new, n)
          BY <2>2, <2>4, <2>5, <2>6, <2>7, <2>8, LaneLeave
      <2>10. Lined(Tail(q), s, Append(d, m), n)
          BY <2>5, <2>6, <2>9 DEF Lined
      <2> QED BY <1>1, <1>3, <2>1, <2>3, <2>7, <2>9, <2>10
  <1> QED BY <1>2, <1>3

LEMMA AgentsMoveOn ==
    ASSUME TypeOK, [Next]_vars, NEW a \in Agents
    PROVE  /\ agentWs[a] = "closed" => agentWs'[a] = "closed"
           /\ agentWs[a] # "new" => agentWs'[a] # "new"
  <1> agentWs \in [Agents -> {"new", "up", "closed"}]
      BY DEF TypeOK
  <1>1. CASE OpNext \/ StreamNext \/ Signal \/ ToAgent \/ ToOperator \/ UNCHANGED vars
      BY <1>1 DEF OpNext, OpConnect, OpClose, OpLeave, OpList, ListSent, StreamNext,
                  AgentReply, OpCommand, OpCommandRefused, Signal, NotifySent,
                  NotifyFailed, SignalIn, SignalOut, ToAgent, ToOperator, agentVars, vars
  <1>2. CASE AgentNext
      BY <1>2 DEF AgentNext, AgentConnect, AgentInfo, AgentClose, AgentLeave
  <1> QED BY <1>1, <1>2 DEF Next

\* OPServer strikes off only an agent that has closed its WebSocket.
LEMMA KnownStays ==
    ASSUME TypeOK, Mirror, [Next]_vars, NEW a \in Agents, Known(a)
    PROVE  Known(a)'
  <1>1. agentWs[a] = "closed" => agentWs'[a] = "closed"
      BY AgentsMoveOn
  <1>2. CASE AgentNext \/ OpNext \/ StreamNext \/ ToAgent \/ ToOperator \/ UNCHANGED vars
      <2>1. UNCHANGED agents
          BY <1>2 DEF AgentNext, AgentConnect, AgentInfo, AgentClose, AgentLeave, OpNext,
                      OpConnect, OpClose, OpLeave, OpList, ListSent, StreamNext,
                      AgentReply, OpCommand, OpCommandRefused, ToAgent, ToOperator, vars
      <2> QED BY <1>1, <2>1 DEF Known
  <1>3. CASE Signal
      <2>1. CASE NotifySent \/ NotifyFailed
          BY <1>1, <2>1 DEF NotifySent, NotifyFailed, Known
      <2>2. CASE \E b \in Agents : SignalIn(b)
          <3>1. PICK b \in Agents : SignalIn(b)
              BY <2>2
          <3>2. agents'.keys = agents.keys \cup {b} /\ Head(signals) = In(b)
              BY <3>1, InsertKeys DEF SignalIn, In, TypeOK
          <3> QED BY <1>1, <3>1, <3>2 DEF SignalIn, Known
      <2>3. ASSUME NEW b \in Agents, SignalOut(b)
            PROVE  Known(a)'
          <3>1. signals # <<>> /\ Head(signals) = Out(b)
              BY <2>3 DEF SignalOut, Out
          <3>2. Contains(signals, Out(b))
              BY <3>1, QueuedTail DEF TypeOK
          <3>3. agentWs[b] = "closed"
              BY <3>2 DEF Mirror, MirrorOf
          <3>4. agents' = [agents EXCEPT !.keys = @ \ {b}]
              BY <2>3 DEF SignalOut, Delete
          <3>5. agents'.keys = agents.keys \ {b}
              BY <3>4 DEF TypeOK, Dict
          <3> QED BY <1>1, <3>3, <3>5 DEF Known
      <2> QED BY <1>3, <2>1, <2>2, <2>3 DEF Signal
  <1> QED BY <1>2, <1>3 DEF Next

LEMMA KnownHasConnected ==
    ASSUME Mirror, NEW a \in Agents, Known(a)
    PROVE  agentWs[a] # "new"
  BY DEF Known, Mirror, MirrorOf, Agree

\* Who is told of an agent, and by whom.
LEMMA ToldStep ==
    ASSUME TypeOK, Mirror, Introduced, [Next]_vars
    PROVE  /\ \A a : notify'.at \in {"send", "raise"} /\ a = notify'.agent => Known(a)'
           /\ \A o \in Ops : \A a \in told'[o] : Known(a)'
  <1> DEFINE Told == \A o \in Ops : \A a \in told'[o] : Known(a)'
             Notified == \A a : (notify'.at \in {"send", "raise"} /\ a = notify'.agent)
                                  => Known(a)'
  <1> SUFFICES Told /\ Notified
      OBVIOUS
  <1>0. /\ told \in [Ops -> SUBSET Agents]
        /\ notify.at \in {"send", "raise"} => notify.agent \in Agents
      BY DEF TypeOK
  <1>1. \A o \in Ops : \A a \in told[o] : Known(a)'
      BY <1>0, KnownStays DEF Introduced
  <1>2. \A a : notify.at \in {"send", "raise"} /\ a = notify.agent => Known(a)'
      BY <1>0, KnownStays DEF Introduced
  <1>3. ASSUME NEW d, NEW a \in Agents, NEW it, NotifyFrom(d, a, it), Known(a)'
        PROVE  Told /\ Notified
      <2>1. CASE notify' = Idle /\ UNCHANGED told
          BY <1>1, <2>1 DEF Idle
      <2>2. CASE \E i \in DOMAIN d.entries :
               LET o == d.entries[i] IN
               /\ Yields(d, it, i)
               /\ notify' = [at |-> IF opWs[o] = "up" THEN "send" ELSE "raise",
                             agent |-> a, op |-> o, it |-> Advance(d, it, i)]
               /\ told' = IF opWs[o] = "up"
                          THEN [told EXCEPT ![o] = @ \cup {a}] ELSE told
          <3>1. notify'.agent = a
              BY <2>2
          <3>2. \A o \in Ops : told'[o] \subseteq told[o] \cup {a}
              BY <1>0, <2>2
          <3>3. Told
              BY <1>1, <1>3, <3>2
          <3> QED BY <1>3, <3>1, <3>3
      <2> QED BY <1>3, <2>1, <2>2 DEF NotifyFrom
  <1>4. CASE UNCHANGED <<told, notify>>
      BY <1>1, <1>2, <1>4
  <1>5. CASE OpNext
      <2>1. UNCHANGED notify
          BY <1>5 DEF OpNext, OpConnect, OpClose, OpLeave, OpList, ListSent
      <2>2. ASSUME NEW o \in Ops, NEW it, ListFrom(o, it)
            PROVE  \A p \in Ops : told'[p] \subseteq told[p] \cup agents.keys
          <3>1. CASE UNCHANGED told
              BY <3>1
          <3>2. CASE \E i \in DOMAIN agents.entries :
                        /\ Yields(agents, it, i)
                        /\ told' = [told EXCEPT ![o] = @ \cup {agents.entries[i]}]
              <4>1. PICK i \in DOMAIN agents.entries :
                        /\ Yields(agents, it, i)
                        /\ told' = [told EXCEPT ![o] = @ \cup {agents.entries[i]}]
                  BY <3>2
              <4>2. agents.entries[i] \in agents.keys
                  BY <4>1 DEF Yields, Remaining
              <4> QED BY <1>0, <4>1, <4>2
          <3> QED BY <2>2, <3>1, <3>2 DEF ListFrom, End
      <2>3. \A p \in Ops : told'[p] \subseteq told[p] \cup agents.keys
          BY <1>5, <2>2 DEF OpNext, OpConnect, OpClose, OpLeave, OpList, ListSent, End
      <2>4. \A a \in agents.keys : Known(a)'
          BY KnownStays DEF Known, TypeOK, Dict
      <2> QED BY <1>1, <1>2, <2>1, <2>3, <2>4
  <1>6. CASE Signal
      <2>1. CASE NotifySent
          <3>1. PICK a : a \in Agents /\ a = notify.agent
              BY <1>0, <2>1 DEF NotifySent
          <3>2. NotifyFrom(operators, a, notify.it) /\ Known(a)'
              BY <1>2, <2>1, <3>1 DEF NotifySent
          <3> HIDE DEF Told, Notified
          <3> QED BY <1>3, <3>1, <3>2
      <2>2. CASE NotifyFailed
          <3>1. CASE notify' = Idle /\ UNCHANGED told
              BY <1>1, <3>1 DEF Idle
          <3>2. CASE NotifyFrom(operators', notify.agent, notify.it)
              <4>1. PICK a : a \in Agents /\ a = notify.agent
                  BY <1>0, <2>2 DEF NotifyFailed
              <4>2. PICK d : d = operators'
                  OBVIOUS
              <4>3. NotifyFrom(d, a, notify.it)
                  BY <3>2, <4>1, <4>2
              <4>4. Known(a)'
                  BY <1>2, <2>2, <4>1 DEF NotifyFailed
              <4> HIDE DEF Told, Notified
              <4> QED BY <1>3, <4>1, <4>3, <4>4
          <3> QED BY <2>2, <3>1, <3>2 DEF NotifyFailed
      <2>3. ASSUME NEW a \in Agents, SignalIn(a)
            PROVE  Told /\ Notified
          <3>1. Known(a)'
              BY <2>3, InsertKeys DEF SignalIn, Known, TypeOK
          <3> QED BY <1>3, <2>3, <3>1 DEF SignalIn
      <2>4. CASE \E a \in Agents : SignalOut(a)
          BY <1>4, <2>4 DEF SignalOut
      <2> HIDE DEF Told, Notified
      <2> QED BY <1>6, <2>1, <2>2, <2>3, <2>4 DEF Signal
  <1>7. AgentNext \/ StreamNext \/ ToAgent \/ ToOperator \/ UNCHANGED vars
            => UNCHANGED <<told, notify>>
      BY DEF AgentNext, AgentConnect, AgentInfo, AgentClose, AgentLeave, StreamNext,
             AgentReply, OpCommand, OpCommandRefused, ToAgent, ToOperator, End, vars
  <1> QED BY <1>4, <1>5, <1>6, <1>7 DEF Next

\* What a step does to out_q and to commands.
OutStep ==
    \/ UNCHANGED <<out_q, cmds, atAgent>>
    \/ \E s \in Streams : OpCommand(s) \/ OpCommandRefused(s)
    \/ ToAgent

\* What it does to in_q and to replies.
InStep ==
    \/ UNCHANGED <<in_q, replies, atOp>>
    \/ \E s \in Streams : AgentReply(s)
    \/ ToOperator

LEMMA StreamSteps == [Next]_vars => OutStep /\ InStep
  BY DEF Next, AgentNext, AgentConnect, AgentInfo, AgentClose, AgentLeave, OpNext,
         OpConnect, OpClose, OpLeave, OpList, ListSent, StreamNext, Signal, NotifySent,
         NotifyFailed, SignalIn, SignalOut, AgentReply, OpCommand, OpCommandRefused,
         ToAgent, ToOperator, streamVars, vars, OutStep, InStep

LEMMA IntroducedStep ==
    ASSUME TypeOK, Mirror, Introduced, [Next]_vars
    PROVE  Introduced'
  <1> DEFINE R == {s \in Streams : agentWs'[s[2]] # "new"}
  <1>0. /\ out_q \in Seq(Messages) /\ cmds \in [Streams -> Nat]
        /\ \A s \in Streams : s[1] \in Ops /\ s[2] \in Agents
      BY SeqTypes DEF TypeOK
  <1>1. \A i \in 1..Len(out_q) : out_q[i].stream \in R
      BY <1>0, StreamsQueued, AgentsMoveOn DEF Introduced
  <1>2. \/ out_q' = out_q
        \/ out_q # <<>> /\ out_q' = Tail(out_q)
        \/ \E s \in R \cap Streams, n \in Pos : out_q' = Append(out_q, Msg(s, n))
      <2>1. ASSUME NEW s \in Streams, OpCommand(s)
            PROVE  \E t \in R \cap Streams, n \in Pos : out_q' = Append(out_q, Msg(t, n))
          <3>1. s[2] \in Agents /\ Known(s[2])
              BY <1>0, <2>1 DEF OpCommand, Known
          <3>2. s \in R
              BY <3>1, KnownHasConnected, AgentsMoveOn
          <3>3. cmds[s] + 1 \in Pos
              BY <1>0 DEF Pos
          <3> QED BY <2>1, <3>2, <3>3 DEF OpCommand
      <2>2. (\E s \in Streams : OpCommandRefused(s)) => out_q' = out_q
          BY DEF OpCommandRefused
      <2>3. ToAgent => out_q # <<>> /\ out_q' = Tail(out_q)
          BY DEF ToAgent
      <2> HIDE DEF R
      <2> QED BY <2>1, <2>2, <2>3, StreamSteps DEF OutStep
  <1>3. \A i \in 1..Len(out_q') : out_q'[i].stream \in R
      <2> HIDE DEF R
      <2> QED BY <1>0, <1>1, <1>2, QueueRouted
  <1> QED BY <1>3, ToldStep DEF Introduced

LEMMA OutgoingStep ==
    ASSUME TypeOK, Mirror, Introduced, [Next]_vars, NEW s \in Streams, Outgoing(s)
    PROVE  Outgoing(s)'
  <1>0. /\ out_q \in Seq(Messages) /\ cmds \in [Streams -> Nat]
        /\ atAgent \in [Streams -> Seq(Nat)] /\ s[2] \in Agents /\ s[1] \in Ops
        /\ agentWs \in [Agents -> {"new", "up", "closed"}]
      BY SeqTypes DEF TypeOK
  <1> SUFFICES ASSUME agentWs'[s[2]] # "closed"
               PROVE  Lined(out_q', s, atAgent'[s], cmds'[s])
      BY DEF Outgoing
  <1>1. agentWs[s[2]] # "closed" /\ Lined(out_q, s, atAgent[s], cmds[s])
      BY <1>0, AgentsMoveOn DEF Outgoing
  <1>2. CASE UNCHANGED <<out_q, cmds, atAgent>>
      BY <1>1, <1>2
  <1>3. ASSUME NEW t \in Streams, OpCommand(t)
        PROVE  Lined(out_q', s, atAgent'[s], cmds'[s])
      <2>1. cmds[t] + 1 \in Pos /\ cmds[s] \in Nat
          BY <1>0 DEF Pos
      <2>2. Lined(out_q', s, atAgent[s], IF t = s THEN cmds[s] + 1 ELSE cmds[s])
          BY <1>0, <1>1, <1>3, <2>1, LinedAppend DEF OpCommand
      <2>3. atAgent' = atAgent /\ cmds'[s] = IF t = s THEN cmds[s] + 1 ELSE cmds[s]
          BY <1>0, <1>3 DEF OpCommand
      <2> QED BY <2>2, <2>3
  <1>4. ASSUME NEW t \in Streams, OpCommandRefused(t)
        PROVE  Lined(out_q', s, atAgent'[s], cmds'[s])
      <2>1. t[1] \in Ops /\ t[2] \in Agents /\ t[2] \in told[t[1]] /\ t[2] \notin agents.keys
          BY <1>4, SeqTypes DEF OpCommandRefused
      <2>2. agentWs[t[2]] = "closed"
          BY <2>1 DEF Introduced, Known
      <2>3. t # s
          BY <1>1, <2>2
      <2> QED BY <1>0, <1>1, <1>4, <2>3 DEF OpCommandRefused
  <1>5. CASE ToAgent
      <2>1. out_q # <<>>
          BY <1>5 DEF ToAgent
      <2>2. CASE Head(out_q).stream # s
          BY <1>0, <1>1, <1>5, <2>1, <2>2, LinedTail DEF ToAgent
      <2>3. CASE Head(out_q).stream = s
          <3>1. agentWs[s[2]] = "up"
              <4>1. agentWs[Head(out_q).stream[2]] # "new"
                  BY <1>0, <2>1, TailFacts DEF Introduced
              <4> QED BY <1>0, <1>1, <2>3, <4>1
          <3>2. s[2] \in clients
              BY <1>0, <3>1 DEF Mirror, MirrorOf
          <3>3. atAgent'[s] = Append(atAgent[s], Head(out_q).chunk)
              BY <1>0, <1>5, <2>3, <3>1, <3>2 DEF ToAgent
          <3> QED BY <1>0, <1>1, <1>5, <2>1, <2>3, <3>3, LinedTail DEF ToAgent
      <2> QED BY <2>2, <2>3
  <1> QED BY <1>2, <1>3, <1>4, <1>5, StreamSteps DEF OutStep

LEMMA IncomingStep ==
    ASSUME TypeOK, Routing, [Next]_vars, NEW s \in Streams, Incoming(s)
    PROVE  Incoming(s)'
  <1>0. /\ in_q \in Seq(Messages) /\ replies \in [Streams -> Nat]
        /\ atOp \in [Streams -> Seq(Nat)] /\ s[1] \in Ops
      BY SeqTypes DEF TypeOK
  <1> SUFFICES ASSUME opWs'[s[1]] # "closed"
               PROVE  Lined(in_q', s, atOp'[s], replies'[s])
      BY DEF Incoming
  <1>1. opWs[s[1]] # "closed" /\ Lined(in_q, s, atOp[s], replies[s])
      BY <1>0, WebSocketsMoveOn DEF Incoming
  <1>2. CASE UNCHANGED <<in_q, replies, atOp>>
      BY <1>1, <1>2
  <1>3. ASSUME NEW t \in Streams, AgentReply(t)
        PROVE  Lined(in_q', s, atOp'[s], replies'[s])
      <2>1. replies[t] + 1 \in Pos /\ replies[s] \in Nat
          BY <1>0 DEF Pos
      <2>2. Lined(in_q', s, atOp[s], IF t = s THEN replies[s] + 1 ELSE replies[s])
          BY <1>0, <1>1, <1>3, <2>1, LinedAppend DEF AgentReply
      <2>3. atOp' = atOp /\ replies'[s] = IF t = s THEN replies[s] + 1 ELSE replies[s]
          BY <1>0, <1>3 DEF AgentReply
      <2> QED BY <2>2, <2>3
  <1>4. CASE ToOperator
      <2>1. in_q # <<>>
          BY <1>4 DEF ToOperator
      <2>2. CASE Head(in_q).stream # s
          BY <1>0, <1>1, <1>4, <2>1, <2>2, LinedTail DEF ToOperator
      <2>3. CASE Head(in_q).stream = s
          <3>1. Routed(Head(in_q).stream)
              BY <1>0, <2>1, TailFacts DEF Routing
          <3>2. atOp'[s] = Append(atOp[s], Head(in_q).chunk)
              BY <1>0, <1>1, <1>4, <2>3, <3>1 DEF ToOperator, Routed
          <3> QED BY <1>0, <1>1, <1>4, <2>1, <2>3, <3>2, LinedTail DEF ToOperator
      <2> QED BY <2>2, <2>3
  <1> QED BY <1>2, <1>3, <1>4, StreamSteps DEF InStep

-----------------------------------------------------------------------------
(* The answer to LISTAGENTS.  An agent describes itself once, so that its  *)
(* key is inserted once and a deleted one does not come back: every key    *)
(* has its entry, and the loop has yielded the keys of the entries it has  *)
(* passed, because one that is inserted meanwhile is behind its position.  *)
(* That is over when the table is rebuilt, and the number of rebuilds only *)
(* grows: Going.                                                            *)

OnceIn(q, a) == \A i, j \in 1..Len(q) : q[i] = In(a) /\ q[j] = In(a) => i = j

Fresh(a) ==
    /\ Contains(signals, In(a)) => a \in announced /\ a \notin Range(agents.entries)
    /\ a \in Range(agents.entries) => a \in announced
    /\ OnceIn(signals, a)

Passed(d, it) ==
    /\ it.pos <= Len(d.entries)
    /\ \A i \in 1..it.pos : d.entries[i] \in d.keys => d.entries[i] \in it.seen

Going(d, it) ==
    /\ it.rebuilds <= d.rebuilds
    /\ it.rebuilds = d.rebuilds => Passed(d, it)

Listed ==
    /\ agents.keys \subseteq Range(agents.entries)
    /\ \A a \in Agents : Fresh(a)
    /\ \A o \in Ops : handler[o] = "listing" => Going(agents, listing[o])

LEMMA EntriesFacts ==
    ASSUME NEW d \in Dict(Agents), IsFiniteSet(d.keys), NEW a \in Agents
    PROVE  /\ d.entries \in Seq(Agents) /\ Len(d.entries) \in Nat
           /\ d.keys \subseteq Range(d.entries)
                => Insert(d, a).keys \subseteq Range(Insert(d, a).entries)
           /\ Range(Insert(d, a).entries) \subseteq Range(d.entries) \cup {a}
           /\ \/ Insert(d, a).rebuilds = d.rebuilds
              \/ Insert(d, a).rebuilds = d.rebuilds + 1
           /\ Insert(d, a).rebuilds = d.rebuilds
                => /\ Len(Insert(d, a).entries) = Len(d.entries) + 1
                   /\ \A i \in 1..Len(d.entries) : Insert(d, a).entries[i] = d.entries[i]
           /\ Delete(d, a).entries = d.entries /\ Delete(d, a).rebuilds = d.rebuilds
           /\ Delete(d, a).keys = d.keys \ {a}
           /\ \A i \in 1..Len(d.entries) : d.entries[i] \in Range(d.entries)
  <1> DEFINE s == Roomy(d).entries
  <1>1. /\ d.entries \in Seq(Agents) /\ Len(d.entries) \in Nat
        /\ DOMAIN d.entries = 1..Len(d.entries) /\ d.rebuilds \in Nat
      BY DEF Dict
  <1>2. \A i \in 1..Len(d.entries) : d.entries[i] \in Range(d.entries)
      BY <1>1 DEF Range
  <1>3. Delete(d, a).entries = d.entries /\ Delete(d, a).keys = d.keys \ {a}
        /\ Delete(d, a).rebuilds = d.rebuilds
      BY DEF Delete, Dict
  <1>4. /\ Insert(d, a).entries = Append(s, a)
        /\ Insert(d, a).keys = d.keys \cup {a}
        /\ Insert(d, a).rebuilds = Roomy(d).rebuilds
      BY DEF Insert
  <1>5. s \in Seq(Agents) /\ Len(s) \in Nat /\ DOMAIN s = 1..Len(s)
      BY RoomyFacts DEF Dict
  <1>6. /\ Range(s) \subseteq Range(d.entries)
        /\ d.keys \subseteq Range(d.entries) => d.keys \subseteq Range(s)
      <2>1. CASE Roomy(d) = d
          BY <2>1
      <2>2. CASE s = Compacted(d)
          <3>1. Compacts(d.entries, d.keys, s, Len(d.entries))
              BY <2>2, CompactedFacts
          <3> HIDE DEF s
          <3>2. ASSUME NEW i \in 1..Len(s) PROVE s[i] \in Range(d.entries)
              <4>1. PICK j \in i..Len(d.entries) : s[i] = d.entries[j]
                  BY <3>1 DEF Compacts
              <4>2. j \in 1..Len(d.entries)
                  BY <1>1, <1>5, <4>1
              <4> QED BY <1>2, <4>1, <4>2
          <3>3. ASSUME d.keys \subseteq Range(d.entries), NEW k \in d.keys
                PROVE  k \in Range(s)
              <4>1. PICK j \in 1..Len(d.entries) : d.entries[j] = k
                  BY <1>1, <3>3 DEF Range
              <4>2. PICK i \in 1..Len(s) : s[i] = k
                  BY <3>1, <4>1 DEF Compacts
              <4> QED BY <1>5, <4>2 DEF Range
          <3> QED BY <1>5, <3>2, <3>3 DEF Range
      <2> QED BY <2>1, <2>2, RoomyFacts
  <1> HIDE DEF s
  <1>7. /\ Len(Append(s, a)) = Len(s) + 1
        /\ DOMAIN Append(s, a) = 1..(Len(s) + 1)
        /\ \A i \in 1..Len(s) : Append(s, a)[i] = s[i]
        /\ Append(s, a)[Len(s) + 1] = a
      BY <1>5
  <1>8. Range(Append(s, a)) = Range(s) \cup {a}
      <2>1. \A x : x \in Range(Append(s, a)) <=> x \in Range(s) \/ x = a
          BY <1>5, <1>7 DEF Range
      <2> QED BY <2>1
  <1>9. /\ Roomy(d).rebuilds = d.rebuilds \/ Roomy(d).rebuilds = d.rebuilds + 1
        /\ Roomy(d).rebuilds = d.rebuilds => s = d.entries
      BY <1>1, RoomyFacts DEF s
  <1>10. Insert(d, a).rebuilds = d.rebuilds
            => /\ Len(Insert(d, a).entries) = Len(d.entries) + 1
               /\ \A i \in 1..Len(d.entries) : Insert(d, a).entries[i] = d.entries[i]
      BY <1>4, <1>7, <1>9
  <1>11. /\ Range(Insert(d, a).entries) \subseteq Range(d.entries) \cup {a}
         /\ d.keys \subseteq Range(d.entries)
              => Insert(d, a).keys \subseteq Range(Insert(d, a).entries)
      BY <1>4, <1>6, <1>8
  <1> QED BY <1>1, <1>2, <1>3, <1>4, <1>9, <1>10, <1>11

\* The loop goes on: the entries between the old position and the new one are
\* of agents that have left.
LEMMA PassedAdvance ==
    ASSUME NEW d \in Dict(Agents), NEW it \in Iterator(Agents), Passed(d, it),
           NEW i, Yields(d, it, i)
    PROVE  Passed(d, Advance(d, it, i))
  <1>1. d.entries \in Seq(Agents) /\ Len(d.entries) \in Nat /\ it.pos \in Nat
      BY DEF Dict, Iterator
  <1>2. /\ i \in (it.pos + 1)..Len(d.entries)
        /\ \A j \in (it.pos + 1)..Len(d.entries) : d.entries[j] \in d.keys => i <= j
      BY DEF Yields, Remaining
  <1>3. /\ Advance(d, it, i).pos = i
        /\ Advance(d, it, i).seen = it.seen \cup {d.entries[i]}
      BY DEF Advance, Iterator
  <1>4. ASSUME NEW j \in 1..i, d.entries[j] \in d.keys
        PROVE  d.entries[j] \in it.seen \cup {d.entries[i]}
      <2>1. CASE j = i
          BY <2>1
      <2>2. CASE j # i
          <3>1. j \in 1..it.pos
              BY <1>1, <1>2, <1>4, <2>2
          <3> QED BY <1>4, <3>1 DEF Passed
      <2> QED BY <2>1, <2>2
  <1> QED BY <1>1, <1>2, <1>3, <1>4 DEF Passed

LEMMA GoingAdvance ==
    ASSUME NEW d \in Dict(Agents), NEW it \in Iterator(Agents), Going(d, it),
           NEW i, Yields(d, it, i)
    PROVE  Going(d, Advance(d, it, i))
  <1>1. Advance(d, it, i).rebuilds = it.rebuilds
      BY DEF Advance, Iterator
  <1> QED BY <1>1, PassedAdvance DEF Going

LEMMA GoingStart ==
    ASSUME NEW d \in Dict(Agents)
    PROVE  Going(d, Start(d))
  BY DEF Going, Passed, Start, Dict

LEMMA ListFromGoes ==
    ASSUME TypeOK, Listed, NEW o \in Ops, NEW it \in Iterator(Agents), Going(agents, it),
           ListFrom(o, it), NEW p \in Ops, handler'[p] = "listing"
    PROVE  Going(agents, listing'[p])
  <1>0. /\ agents \in Dict(Agents) /\ listing \in [Ops -> Iterator(Agents)]
        /\ handler \in [Ops -> {"none", "recv", "listing", "done"}]
      BY DEF TypeOK
  <1>1. CASE p = o
      <2>1. \E i : Yields(agents, it, i) /\ listing' = [listing EXCEPT ![o] = Advance(agents, it, i)]
          BY <1>0, <1>1 DEF ListFrom, End
      <2> QED BY <1>0, <1>1, <2>1, GoingAdvance
  <1>2. CASE p # o
      <2>1. handler'[p] = handler[p] /\ listing'[p] = listing[p]
          BY <1>0, <1>2 DEF ListFrom, End
      <2> QED BY <2>1 DEF Listed
  <1> QED BY <1>1, <1>2

LEMMA OnceInAppend ==
    ASSUME NEW q \in Seq(Signals), NEW m \in Signals, NEW a, OnceIn(q, a),
           m = In(a) => ~Contains(q, In(a))
    PROVE  OnceIn(Append(q, m), a)
  <1>1. /\ Len(q) \in Nat /\ Len(Append(q, m)) = Len(q) + 1
        /\ \A k \in 1..Len(q) : Append(q, m)[k] = q[k]
        /\ Append(q, m)[Len(q) + 1] = m
      BY AppendFacts
  <1> SUFFICES ASSUME NEW i \in 1..(Len(q) + 1), NEW j \in 1..(Len(q) + 1),
                      Append(q, m)[i] = In(a), Append(q, m)[j] = In(a)
               PROVE  i = j
      BY <1>1 DEF OnceIn
  <1>2. CASE m = In(a)
      BY <1>1, <1>2 DEF Contains
  <1>3. CASE m # In(a)
      BY <1>1, <1>3 DEF OnceIn
  <1> QED BY <1>2, <1>3

LEMMA OnceInTail ==
    ASSUME NEW q \in Seq(Signals), q # <<>>, NEW a, OnceIn(q, a)
    PROVE  /\ OnceIn(Tail(q), a)
           /\ Head(q) = In(a) => ~Contains(Tail(q), In(a))
  <1>1. /\ Head(q) = q[1] /\ Len(q) \in Nat \ {0} /\ Len(Tail(q)) = Len(q) - 1
        /\ \A i \in 1..Len(Tail(q)) : Tail(q)[i] = q[i + 1] /\ i + 1 \in 1..Len(q)
      BY TailFacts
  <1>2. ASSUME NEW i \in 1..Len(Tail(q)), NEW j \in 1..Len(Tail(q)),
               Tail(q)[i] = In(a), Tail(q)[j] = In(a)
        PROVE  i = j
      <2>1. i + 1 = j + 1
          BY <1>1, <1>2 DEF OnceIn
      <2> QED BY <2>1
  <1>3. ASSUME Head(q) = In(a), NEW i \in 1..Len(Tail(q)), Tail(q)[i] = In(a)
        PROVE  FALSE
      <2>1. 1 \in 1..Len(q) /\ q[1] = In(a)
          BY <1>1, <1>3
      <2>2. i + 1 = 1
          BY <1>1, <1>3, <2>1 DEF OnceIn
      <2> QED BY <2>2
  <1> QED BY <1>2, <1>3 DEF OnceIn, Contains

\* The table of agents changes, or a loop over it goes on, but not both.
LEMMA FreshStep ==
    ASSUME TypeOK, Finite, Mirror, Listed, [Next]_vars, NEW b \in Agents
    PROVE  Fresh(b)'
  <1>0. /\ signals \in Seq(Signals) /\ agents \in Dict(Agents) /\ announced \in SUBSET Agents
        /\ Fresh(b)
      BY DEF TypeOK, Listed
  <1>1. CASE UNCHANGED <<signals, announced, agents>>
      BY <1>0, <1>1 DEF Fresh
  <1>2. ASSUME NEW a \in Agents, AgentInfo(a)
        PROVE  Fresh(b)'
      <2>1. In(a) \in Signals /\ signals' = Append(signals, In(a))
          BY <1>2 DEF AgentInfo, In, Signals
      <2>2. \A x : Contains(signals', x) <=> Contains(signals, x) \/ x = In(a)
          BY <1>0, <2>1, QueuedAppend
      <2>3. a \notin announced /\ announced' = announced \cup {a} /\ agents' = agents
          BY <1>2 DEF AgentInfo
      <2>4. b = a => ~Contains(signals, In(b)) /\ b \notin Range(agents.entries)
          BY <1>0, <2>3 DEF Fresh
      <2>5. OnceIn(signals', b)
          BY <1>0, <2>1, <2>4, OnceInAppend, DifferentSignals DEF Fresh
      <2> QED BY <1>0, <2>2, <2>3, <2>4, <2>5, DifferentSignals DEF Fresh
  <1>3. ASSUME NEW a \in Agents, AgentLeave(a)
        PROVE  Fresh(b)'
      <2>1. Out(a) \in Signals /\ signals' = Append(signals, Out(a))
          BY <1>3 DEF AgentLeave, Out, Signals
      <2>2. \A x : Contains(signals', x) <=> Contains(signals, x) \/ x = Out(a)
          BY <1>0, <2>1, QueuedAppend
      <2>3. OnceIn(signals', b)
          BY <1>0, <2>1, OnceInAppend, DifferentSignals DEF Fresh
      <2>4. UNCHANGED <<announced, agents>>
          BY <1>3 DEF AgentLeave
      <2> QED BY <1>0, <2>2, <2>3, <2>4, DifferentSignals DEF Fresh
  <1>4. ASSUME NEW a \in Agents, SignalIn(a) \/ SignalOut(a)
        PROVE  Fresh(b)'
      <2>1. signals # <<>> /\ signals' = Tail(signals) /\ announced' = announced
          BY <1>4 DEF SignalIn, SignalOut, agentVars
      <2>2. /\ Contains(signals, Head(signals))
            /\ \A x : Contains(signals, x) <=> Contains(signals', x) \/ x = Head(signals)
          BY <1>0, <2>1, QueuedTail
      <2>3. OnceIn(signals', b) /\ (Head(signals) = In(b) => ~Contains(signals', In(b)))
          BY <1>0, <2>1, OnceInTail DEF Fresh
      <2>4. CASE SignalIn(a)
          <3>1. Head(signals) = In(a)
              BY <2>4 DEF SignalIn, In
          <3>2. Range(agents'.entries) \subseteq Range(agents.entries) \cup {a}
              BY <1>0, <2>4, EntriesFacts DEF SignalIn, Finite
          <3> QED BY <1>0, <2>1, <2>2, <2>3, <3>1, <3>2 DEF Fresh
      <2>5. CASE SignalOut(a)
          <3>1. agents'.entries = agents.entries
              BY <1>0, <2>5, EntriesFacts DEF SignalOut, Finite
          <3> QED BY <1>0, <2>1, <2>2, <2>3, <3>1 DEF Fresh
      <2> QED BY <1>4, <2>4, <2>5
  <1>5. \/ UNCHANGED <<signals, announced, agents>>
        \/ \E a \in Agents : AgentInfo(a) \/ AgentLeave(a) \/ SignalIn(a) \/ SignalOut(a)
      BY DEF Next, AgentNext, AgentConnect, AgentClose, OpNext, OpConnect, OpClose,
             OpLeave, OpList, ListSent, StreamNext, Signal, NotifySent, NotifyFailed,
             AgentReply, OpCommand, OpCommandRefused, ToAgent, ToOperator, agentVars, vars
  <1> QED BY <1>1, <1>2, <1>3, <1>4, <1>5

LEMMA ListedStep ==
    ASSUME TypeOK, Finite, Mirror, Listed, [Next]_vars
    PROVE  Listed'
  <1> DEFINE Covered == agents'.keys \subseteq Range(agents'.entries)
             Loops == \A o \in Ops : handler'[o] = "listing" => Going(agents', listing'[o])
  <1> SUFFICES Covered /\ Loops
      BY FreshStep DEF Listed
  <1>0. /\ agents \in Dict(Agents) /\ listing \in [Ops -> Iterator(Agents)]
        /\ handler \in [Ops -> {"none", "recv", "listing", "done"}]
        /\ agents.keys \subseteq Range(agents.entries)
        /\ \A o \in Ops : handler[o] = "listing" => Going(agents, listing[o])
        /\ IsFiniteSet(agents.keys)
      BY DEF TypeOK, Finite, Listed
  <1>1. CASE UNCHANGED <<agents, handler, listing>>
      BY <1>0, <1>1
  <1>2. ASSUME NEW a \in Agents, SignalIn(a)
        PROVE  Covered /\ Loops
      <2>1. agents' = Insert(agents, a) /\ UNCHANGED <<handler, listing>>
          BY <1>2 DEF SignalIn, opVars
      <2>2. a \notin Range(agents.entries)
          <3>1. Contains(signals, In(a))
              BY <1>2, QueuedTail DEF SignalIn, In, TypeOK
          <3> QED BY <3>1 DEF Listed, Fresh
      <2>3. Covered
          BY <1>0, <2>1, EntriesFacts
      <2>4. ASSUME NEW o \in Ops, handler'[o] = "listing"
            PROVE  Going(agents', listing'[o])
          <3>1. /\ Going(agents, listing[o]) /\ listing'[o] = listing[o]
                /\ listing[o].pos \in Nat /\ listing[o].rebuilds \in Nat
                /\ agents.rebuilds \in Nat
              BY <1>0, <2>1, <2>4 DEF Iterator, Dict
          <3>2. /\ \/ agents'.rebuilds = agents.rebuilds
                   \/ agents'.rebuilds = agents.rebuilds + 1
                /\ agents'.keys = agents.keys \cup {a} /\ Len(agents.entries) \in Nat
              BY <1>0, <2>1, EntriesFacts, InsertKeys
          <3>3. CASE listing[o].rebuilds # agents'.rebuilds
              BY <3>1, <3>2, <3>3 DEF Going
          <3>4. CASE listing[o].rebuilds = agents'.rebuilds
              <4>1. agents'.rebuilds = agents.rebuilds /\ Passed(agents, listing[o])
                  BY <3>1, <3>2, <3>4 DEF Going
              <4>2. \A i \in 1..listing[o].pos : /\ i \in 1..Len(agents.entries)
                                                 /\ agents'.entries[i] = agents.entries[i]
                                                 /\ agents.entries[i] # a
                  BY <1>0, <2>1, <2>2, <3>1, <4>1, EntriesFacts DEF Passed
              <4>3. Len(agents'.entries) = Len(agents.entries) + 1
                  BY <1>0, <2>1, <4>1, EntriesFacts
              <4>4. Passed(agents', listing[o])
                  BY <3>1, <3>2, <4>1, <4>2, <4>3 DEF Passed
              <4> QED BY <3>1, <3>4, <4>4 DEF Going
          <3> QED BY <3>3, <3>4
      <2> QED BY <2>3, <2>4
  <1>3. ASSUME NEW a \in Agents, SignalOut(a)
        PROVE  Covered /\ Loops
      <2>1. agents' = Delete(agents, a) /\ UNCHANGED <<handler, listing>>
          BY <1>3 DEF SignalOut, opVars
      <2>2. /\ agents'.entries = agents.entries /\ agents'.keys = agents.keys \ {a}
            /\ agents'.rebuilds = agents.rebuilds
          BY <1>0, <2>1, EntriesFacts
      <2> QED BY <1>0, <2>1, <2>2 DEF Going, Passed
  <1>4. CASE UNCHANGED agents /\ OpNext
      <2>1. Covered
          BY <1>0, <1>4
      <2>2. PICK o \in Ops : OpConnect(o) \/ OpClose(o) \/ OpLeave(o) \/ OpList(o)
                                \/ ListSent(o)
          BY <1>4 DEF OpNext
      <2>3. CASE OpConnect(o) \/ OpClose(o) \/ OpLeave(o)
          <3>1. /\ UNCHANGED listing
                /\ \A p \in Ops : handler'[p] = "listing" => handler[p] = "listing"
              BY <1>0, <2>3 DEF OpConnect, OpClose, OpLeave, End
          <3> QED BY <1>0, <1>4, <2>1, <3>1
      <2>4. CASE OpList(o)
          <3>1. Start(agents) \in Iterator(Agents)
              <4>1. Cardinality(agents.keys) \in Nat
                  BY FS_CardinalityType DEF Finite
              <4> QED BY <1>0, <4>1 DEF Start, Iterator, Dict
          <3>2. Going(agents, Start(agents))
              BY <1>0, GoingStart
          <3>3. ListFrom(o, Start(agents))
              BY <2>4 DEF OpList
          <3>4. PICK it : it = Start(agents)
              OBVIOUS
          <3>5. \A p \in Ops : handler'[p] = "listing" => Going(agents, listing'[p])
              BY <3>1, <3>2, <3>3, <3>4, ListFromGoes
          <3> QED BY <1>4, <2>1, <3>5
      <2>5. CASE ListSent(o)
          <3>1. /\ handler[o] = "listing" /\ listing[o] \in Iterator(Agents)
                /\ ListFrom(o, listing[o])
              BY <1>0, <2>5 DEF ListSent
          <3>2. PICK it : it = listing[o]
              OBVIOUS
          <3>3. \A p \in Ops : handler'[p] = "listing" => Going(agents, listing'[p])
              BY <1>0, <3>1, <3>2, ListFromGoes
          <3> QED BY <1>4, <2>1, <3>3
      <2> QED BY <2>2, <2>3, <2>4, <2>5
  <1>5. ASSUME NEW s \in Streams, OpCommandRefused(s)
        PROVE  Covered /\ Loops
      <2>1. UNCHANGED <<agents, listing>>
          BY <1>5 DEF OpCommandRefused, opVars, End
      <2>2. \A p \in Ops : handler'[p] = "listing" => handler[p] = "listing"
          BY <1>0, <1>5 DEF OpCommandRefused, opVars, End
      <2> QED BY <1>0, <2>1, <2>2
  <1>6. \/ UNCHANGED <<agents, handler, listing>>
        \/ \E a \in Agents : SignalIn(a) \/ SignalOut(a)
        \/ UNCHANGED agents /\ OpNext
        \/ \E s \in Streams : OpCommandRefused(s)
      BY DEF Next, AgentNext, AgentConnect, AgentInfo, AgentClose, AgentLeave, OpNext,
             OpConnect, OpClose, OpLeave, OpList, ListSent, StreamNext, Signal,
             NotifySent, NotifyFailed, AgentReply, OpCommand, ToAgent, ToOperator,
             opVars, vars
  <1> HIDE DEF Covered, Loops
  <1> QED BY <1>1, <1>2, <1>3, <1>4, <1>5, <1>6

-----------------------------------------------------------------------------
(* No agent is described twice in one answer, also when the table is        *)
(* rebuilt: an entry that is still in use only moves to the left.           *)

Ahead(d, it) ==
    \A i \in 1..Len(d.entries) :
        i > it.pos /\ d.entries[i] \in d.keys => d.entries[i] \notin it.seen

\* What a loop has yielded was in the table before.
Met(a, it) == a \in it.seen => a \in announced /\ ~Contains(signals, In(a))

Once ==
    /\ Unique(agents.entries)
    /\ \A o \in Ops : handler[o] = "listing" =>
          Ahead(agents, listing[o]) /\ \A a \in Agents : Met(a, listing[o])

LEMMA UniqueInsert ==
    ASSUME NEW d \in Dict(Agents), IsFiniteSet(d.keys), NEW a \in Agents,
           a \notin Range(d.entries), Unique(d.entries)
    PROVE  /\ Unique(Insert(d, a).entries)
           /\ \A i \in 1..Len(Insert(d, a).entries) :
                 \/ Insert(d, a).entries[i] = a
                 \/ \E j \in i..Len(d.entries) : Insert(d, a).entries[i] = d.entries[j]
  <1> DEFINE s == Roomy(d).entries
  <1>1. /\ d.entries \in Seq(Agents) /\ Len(d.entries) \in Nat
        /\ \A i \in 1..Len(d.entries) : d.entries[i] \in Range(d.entries)
      BY EntriesFacts
  <1>2. /\ Insert(d, a).entries = Append(s, a)
        /\ s \in Seq(Agents) /\ Len(s) \in Nat /\ DOMAIN s = 1..Len(s)
      BY RoomyFacts DEF Insert, Dict
  <1>3. /\ Unique(s)
        /\ \A i \in 1..Len(s) : \E j \in i..Len(d.entries) : s[i] = d.entries[j]
      <2>1. CASE Roomy(d) = d
          <3>1. \A i \in 1..Len(s) : i \in i..Len(d.entries)
              BY <1>1, <2>1
          <3> QED BY <2>1, <3>1
      <2>2. CASE s = Compacted(d)
          BY <2>2, CompactedFacts DEF Compacts
      <2> QED BY <2>1, <2>2, RoomyFacts
  <1> HIDE DEF s
  <1>4. /\ Len(Append(s, a)) = Len(s) + 1
        /\ DOMAIN Append(s, a) = 1..(Len(s) + 1)
        /\ \A i \in 1..Len(s) : Append(s, a)[i] = s[i]
        /\ Append(s, a)[Len(s) + 1] = a
      BY <1>2
  <1>5. ASSUME NEW i \in 1..Len(s) PROVE s[i] # a
      <2>1. PICK j \in i..Len(d.entries) : s[i] = d.entries[j]
          BY <1>3
      <2>2. j \in 1..Len(d.entries)
          BY <1>1, <1>2, <2>1
      <2> QED BY <1>1, <2>1, <2>2
  <1>6. Unique(Append(s, a))
      BY <1>2, <1>3, <1>4, <1>5 DEF Unique
  <1>7. ASSUME NEW i \in 1..Len(Append(s, a))
        PROVE  \/ Append(s, a)[i] = a
               \/ \E j \in i..Len(d.entries) : Append(s, a)[i] = d.entries[j]
      <2>1. CASE i \in 1..Len(s)
          BY <1>3, <1>4, <2>1
      <2>2. CASE i = Len(s) + 1
          BY <1>4, <2>2
      <2> QED BY <1>2, <1>4, <2>1, <2>2
  <1> QED BY <1>2, <1>6, <1>7

LEMMA AheadAdvance ==
    ASSUME NEW d \in Dict(Agents), NEW it \in Iterator(Agents), Ahead(d, it),
           Unique(d.entries), NEW i, Yields(d, it, i)
    PROVE  /\ Ahead(d, Advance(d, it, i))
           /\ d.entries[i] \in d.keys /\ d.entries[i] \notin it.seen
           /\ Advance(d, it, i).seen = it.seen \cup {d.entries[i]}
  <1>1. /\ d.entries \in Seq(Agents) /\ Len(d.entries) \in Nat /\ it.pos \in Nat
        /\ DOMAIN d.entries = 1..Len(d.entries)
      BY DEF Dict, Iterator
  <1>2. i \in (it.pos + 1)..Len(d.entries) /\ d.entries[i] \in d.keys
      BY DEF Yields, Remaining
  <1>3. /\ Advance(d, it, i).pos = i
        /\ Advance(d, it, i).seen = it.seen \cup {d.entries[i]}
      BY DEF Advance, Iterator
  <1>4. i \in 1..Len(d.entries) /\ i > it.pos
      BY <1>1, <1>2
  <1>5. ASSUME NEW j \in 1..Len(d.entries), j > i, d.entries[j] \in d.keys
        PROVE  d.entries[j] \notin it.seen \cup {d.entries[i]}
      <2>1. d.entries[j] # d.entries[i]
          BY <1>1, <1>4, <1>5 DEF Unique
      <2>2. j > it.pos
          BY <1>1, <1>4, <1>5
      <2> QED BY <1>5, <2>1, <2>2 DEF Ahead
  <1> QED BY <1>2, <1>3, <1>4, <1>5 DEF Ahead

LEMMA ListFromOnce ==
    ASSUME TypeOK, Listed, Once, UNCHANGED <<signals, announced>>,
           NEW o \in Ops, NEW it \in Iterator(Agents), Ahead(agents, it),
           \A a \in Agents : Met(a, it),
           ListFrom(o, it), NEW p \in Ops, handler'[p] = "listing"
    PROVE  /\ Ahead(agents, listing'[p])
           /\ \A a \in Agents : a \in listing'[p].seen
                => a \in announced' /\ ~Contains(signals', In(a))
  <1>0. /\ agents \in Dict(Agents) /\ listing \in [Ops -> Iterator(Agents)]
        /\ handler \in [Ops -> {"none", "recv", "listing", "done"}]
        /\ Unique(agents.entries)
      BY DEF TypeOK, Once
  <1>1. CASE p = o
      <2>1. PICK i : Yields(agents, it, i) /\ listing' = [listing EXCEPT ![o] = Advance(agents, it, i)]
          BY <1>0, <1>1 DEF ListFrom, End
      <2>2. /\ Ahead(agents, Advance(agents, it, i))
            /\ agents.entries[i] \in agents.keys
            /\ Advance(agents, it, i).seen = it.seen \cup {agents.entries[i]}
          BY <1>0, <2>1, AheadAdvance
      <2>3. listing'[p] = Advance(agents, it, i)
          BY <1>0, <1>1, <2>1
      <2>4. \A a \in Agents : a \in agents.keys => a \in announced /\ ~Contains(signals, In(a))
          BY DEF Listed, Fresh
      <2> QED BY <2>2, <2>3, <2>4 DEF Met
  <1>2. CASE p # o
      <2>1. handler'[p] = handler[p] /\ listing'[p] = listing[p]
          BY <1>0, <1>2 DEF ListFrom, End
      <2> QED BY <2>1 DEF Once, Met
  <1> QED BY <1>1, <1>2

LEMMA OnceStep ==
    ASSUME TypeOK, Finite, Listed, Once, [Next]_vars
    PROVE  Once'
  <1> DEFINE Loops == \A o \in Ops : handler'[o] = "listing" =>
                        /\ Ahead(agents', listing'[o])
                        /\ \A a \in Agents : a \in listing'[o].seen
                              => a \in announced' /\ ~Contains(signals', In(a))
  <1> SUFFICES Unique(agents'.entries) /\ Loops
      BY DEF Once, Met
  <1>0. /\ agents \in Dict(Agents) /\ listing \in [Ops -> Iterator(Agents)]
        /\ handler \in [Ops -> {"none", "recv", "listing", "done"}]
        /\ signals \in Seq(Signals)
        /\ IsFiniteSet(agents.keys) /\ Unique(agents.entries)
        /\ \A o \in Ops : handler[o] = "listing" =>
              /\ Ahead(agents, listing[o])
              /\ \A a \in Agents : a \in listing[o].seen
                    => a \in announced /\ ~Contains(signals, In(a))
      BY DEF TypeOK, Finite, Once, Met
  <1>1. ASSUME UNCHANGED <<agents, listing, signals, announced>>,
               \A p \in Ops : handler'[p] = "listing" => handler[p] = "listing"
        PROVE  Unique(agents'.entries) /\ Loops
      BY <1>0, <1>1
  <1>2. ASSUME NEW a \in Agents, AgentInfo(a) \/ AgentLeave(a)
        PROVE  Unique(agents'.entries) /\ Loops
      <2>1. UNCHANGED <<agents, handler, listing>> /\ announced \subseteq announced'
          BY <1>2 DEF AgentInfo, AgentLeave, opVars
      <2>2. /\ In(a) \in Signals /\ Out(a) \in Signals
            /\ \/ signals' = Append(signals, Out(a))
               \/ signals' = Append(signals, In(a)) /\ a \notin announced
          BY <1>2, SeqTypes DEF AgentInfo, AgentLeave, In, Out
      <2>3. \A b \in Agents : b \in announced /\ Contains(signals', In(b))
                                  => Contains(signals, In(b))
          <3>1. CASE signals' = Append(signals, Out(a))
              <4>1. \A x : Contains(signals', x) <=> Contains(signals, x) \/ x = Out(a)
                  BY <1>0, <2>2, <3>1, QueuedAppend
              <4> QED BY <4>1, DifferentSignals
          <3>2. CASE signals' = Append(signals, In(a)) /\ a \notin announced
              <4>1. \A x : Contains(signals', x) <=> Contains(signals, x) \/ x = In(a)
                  BY <1>0, <2>2, <3>2, QueuedAppend
              <4> QED BY <3>2, <4>1, DifferentSignals
          <3> QED BY <2>2, <3>1, <3>2
      <2> QED BY <1>0, <2>1, <2>3
  <1>3. ASSUME NEW a \in Agents, SignalIn(a)
        PROVE  Unique(agents'.entries) /\ Loops
      <2>1. /\ agents' = Insert(agents, a) /\ signals' = Tail(signals)
            /\ signals # <<>> /\ Head(signals) = In(a)
            /\ UNCHANGED <<handler, listing, announced>>
          BY <1>3 DEF SignalIn, opVars, agentVars, In
      <2>2. /\ Contains(signals, In(a))
            /\ \A x : Contains(signals', x) => Contains(signals, x)
          BY <1>0, <2>1, QueuedTail
      <2>3. a \notin Range(agents.entries)
          BY <2>2 DEF Listed, Fresh
      <2>4. /\ Unique(agents'.entries)
            /\ \A i \in 1..Len(agents'.entries) :
                  \/ agents'.entries[i] = a
                  \/ \E j \in i..Len(agents.entries) : agents'.entries[i] = agents.entries[j]
          BY <1>0, <2>1, <2>3, UniqueInsert
      <2>5. agents'.keys = agents.keys \cup {a}
          BY <2>1, InsertKeys
      <2>6. ASSUME NEW o \in Ops, handler'[o] = "listing"
            PROVE  Ahead(agents', listing'[o])
          <3>1. /\ Ahead(agents, listing[o]) /\ listing'[o] = listing[o]
                /\ a \notin listing[o].seen /\ listing[o].pos \in Nat
              BY <1>0, <2>1, <2>2, <2>6 DEF Iterator
          <3>2. ASSUME NEW i \in 1..Len(agents'.entries), i > listing[o].pos,
                       agents'.entries[i] \in agents'.keys
                PROVE  agents'.entries[i] \notin listing[o].seen
              <4>1. CASE agents'.entries[i] = a
                  BY <3>1, <4>1
              <4>2. CASE agents'.entries[i] # a
                  <5>1. PICK j \in i..Len(agents.entries) : agents'.entries[i] = agents.entries[j]
                      BY <2>4, <4>2
                  <5>2. Len(agents.entries) \in Nat /\ i \in Nat \ {0}
                      <6>1. agents' \in Dict(Agents)
                          BY <1>0, <2>1, DictFacts
                      <6> QED BY <1>0, <6>1 DEF Dict
                  <5>3. j \in 1..Len(agents.entries) /\ j > listing[o].pos
                      BY <3>1, <3>2, <5>1, <5>2
                  <5>4. agents.entries[j] \in agents.keys
                      BY <2>5, <3>2, <4>2, <5>1
                  <5> QED BY <3>1, <5>1, <5>3, <5>4 DEF Ahead
              <4> QED BY <4>1, <4>2
          <3> QED BY <3>1, <3>2 DEF Ahead
      <2> QED BY <1>0, <2>1, <2>2, <2>4, <2>6
  <1>4. ASSUME NEW a \in Agents, SignalOut(a)
        PROVE  Unique(agents'.entries) /\ Loops
      <2>1. /\ agents' = Delete(agents, a) /\ signals' = Tail(signals) /\ signals # <<>>
            /\ UNCHANGED <<handler, listing, announced>>
          BY <1>4 DEF SignalOut, opVars, agentVars
      <2>2. \A x : Contains(signals', x) => Contains(signals, x)
          BY <1>0, <2>1, QueuedTail
      <2>3. agents'.entries = agents.entries /\ agents'.keys \subseteq agents.keys
          BY <1>0, <2>1, EntriesFacts
      <2> QED BY <1>0, <2>1, <2>2, <2>3 DEF Ahead
  <1>5. ASSUME NEW o \in Ops, OpList(o) \/ ListSent(o)
        PROVE  Unique(agents'.entries) /\ Loops
      <2>1. UNCHANGED <<agents, signals, announced>>
          BY <1>5 DEF OpList, ListSent, agentVars
      <2>2. PICK it \in Iterator(Agents) :
               /\ ListFrom(o, it) /\ Ahead(agents, it) /\ \A a \in Agents : Met(a, it)
          <3>1. CASE OpList(o)
              <4>1. Cardinality(agents.keys) \in Nat
                  BY FS_CardinalityType DEF Finite
              <4>2. Start(agents) \in Iterator(Agents) /\ Start(agents).seen = {}
                  BY <1>0, <4>1 DEF Start, Iterator, Dict
              <4>3. Ahead(agents, Start(agents)) /\ \A a \in Agents : Met(a, Start(agents))
                  BY <4>2 DEF Ahead, Met
              <4> QED BY <3>1, <4>2, <4>3 DEF OpList
          <3>2. CASE ListSent(o)
              BY <1>0, <3>2 DEF ListSent, Once
          <3> QED BY <1>5, <3>1, <3>2
      <2>3. ASSUME NEW p \in Ops, handler'[p] = "listing"
            PROVE  /\ Ahead(agents, listing'[p])
                   /\ \A a \in Agents : a \in listing'[p].seen
                         => a \in announced' /\ ~Contains(signals', In(a))
          BY <2>1, <2>2, <2>3, ListFromOnce
      <2> QED BY <1>0, <2>1, <2>3
  <1>6. \/ /\ UNCHANGED <<agents, listing, signals, announced>>
           /\ \A p \in Ops : handler'[p] = "listing" => handler[p] = "listing"
        \/ \E a \in Agents : AgentInfo(a) \/ AgentLeave(a) \/ SignalIn(a) \/ SignalOut(a)
        \/ \E o \in Ops : OpList(o) \/ ListSent(o)
      <2>1. CASE OpNext
          <3>1. PICK o \in Ops : OpConnect(o) \/ OpClose(o) \/ OpLeave(o) \/ OpList(o)
                                    \/ ListSent(o)
              BY <2>1 DEF OpNext
          <3> QED BY <1>0, <3>1 DEF OpConnect, OpClose, OpLeave, End, agentVars
      <2>2. CASE StreamNext
          <3>1. PICK s \in Streams : AgentReply(s) \/ OpCommand(s) \/ OpCommandRefused(s)
              BY <2>2 DEF StreamNext
          <3>2. s[1] \in Ops
              BY DEF Streams
          <3> QED BY <1>0, <3>1, <3>2 DEF AgentReply, OpCommand, OpCommandRefused, End,
                                          opVars, agentVars
      <2>3. CASE AgentNext \/ Signal \/ ToAgent \/ ToOperator \/ UNCHANGED vars
          BY <2>3 DEF AgentNext, AgentConnect, AgentClose, Signal, NotifySent,
                      NotifyFailed, ToAgent, ToOperator, agentVars, opVars, vars
      <2> QED BY <2>1, <2>2, <2>3 DEF Next
  <1> HIDE DEF Loops
  <1> QED BY <1>1, <1>2, <1>3, <1>4, <1>5, <1>6

-----------------------------------------------------------------------------
(* The theorems.                                                            *)

Inductive == TypeOK /\ Finite /\ Mirror /\ Kept /\ Routing

LEMMA Invariance == Spec => []Inductive
  <1>1. Init => Inductive
      BY InitType, MirrorInit, KeptInit, RoutingInit DEF Inductive
  <1>2. Inductive /\ [Next]_vars => Inductive'
      <2> SUFFICES ASSUME Inductive, [Next]_vars
                   PROVE  Inductive'
          OBVIOUS
      <2> TypeOK /\ Finite /\ Mirror /\ Kept /\ Routing
          BY DEF Inductive
      <2>1. TypeOK' /\ Finite'
          BY TypeStep
      <2>2. Mirror'
          BY MirrorAgent, MirrorSignal, MirrorRest DEF Next
      <2>3. Kept'
          BY KeptStep
      <2>4. Routing'
          BY RoutingStep
      <2> QED BY <2>1, <2>2, <2>3, <2>4 DEF Inductive
  <1> QED BY <1>1, <1>2, PTL DEF Spec

\* The agents OPServer knows, with the signals that are on their way to it, are
\* those that WSNETRouter serves and that have described themselves: for any
\* number of agents and operators, whatever the notifications meet.
THEOREM MirrorCorrect == Spec => []AgentsMirror
  <1>1. Inductive => AgentsMirror
      BY MirrorMeans DEF Inductive, Mirror, MirrorOf
  <1> QED BY <1>1, Invariance, PTL

\* An operator that is connected and served stays in the table of those who are
\* notified: __handle_signal_in_queue deletes only operators that are gone.
THEOREM KeptCorrect == Spec => []OperatorKept
  <1>1. Inductive => OperatorKept
      BY DEF Inductive, Kept
  <1> QED BY <1>1, Invariance, PTL

\* Every reply in in_q finds its operator in data_lookop while that operator is
\* connected, because the entry is older than the command the agent answers.
THEOREM RoutingCorrect == Spec => []ReplyRoutable
  <1>1. Inductive => ReplyRoutable
      <2> SUFFICES ASSUME Inductive, NEW i \in DOMAIN in_q
                   PROVE  \/ in_q[i].stream \in data_lookop
                          \/ opWs[in_q[i].stream[1]] = "closed"
          BY DEF ReplyRoutable
      <2>1. in_q \in Seq(Messages)
          BY DEF Inductive, TypeOK
      <2>2. i \in 1..Len(in_q)
          BY <2>1
      <2> QED BY <2>2 DEF Inductive, Routing, Routed
  <1> QED BY <1>1, Invariance, PTL

-----------------------------------------------------------------------------
(* Streams and listings, on top of that invariant.                          *)

LEMMA StreamInvariance == Spec => []Streaming
  <1>1. Init => Streaming
      <2> SUFFICES ASSUME Init PROVE Streaming
          OBVIOUS
      <2>1. Introduced
          BY DEF Init, Introduced, Idle
      <2>2. ASSUME NEW s \in Streams
            PROVE  Lined(<<>>, s, <<>>, 0)
          <3>1. Range(<<>>) = {} /\ DOMAIN <<>> = {}
              BY DEF Range
          <3> QED BY <3>1 DEF Lined, InOrder, Whole
      <2> QED BY <2>1, <2>2 DEF Init, Streaming, Outgoing, Incoming
  <1>2. Inductive /\ Streaming /\ [Next]_vars => Streaming'
      <2> SUFFICES ASSUME Inductive, Streaming, [Next]_vars
                   PROVE  Streaming'
          OBVIOUS
      <2> TypeOK /\ Mirror /\ Routing /\ Introduced
          BY DEF Inductive, Streaming
      <2>1. Introduced'
          BY IntroducedStep
      <2>2. \A s \in Streams : Outgoing(s)' /\ Incoming(s)'
          BY OutgoingStep, IncomingStep DEF Streaming
      <2> QED BY <2>1, <2>2 DEF Streaming
  <1> QED BY <1>1, <1>2, Invariance, PTL DEF Spec

\* A command that is sent on to its agent is the next one of its stream.
LEMMA CommandsStep ==
    ASSUME Inductive, Streaming, [Next]_vars
    PROVE  [Commands!Next]_<<cmds, atAgent>>
  <1>0. /\ out_q \in Seq(Messages) /\ cmds \in [Streams -> Nat]
        /\ atAgent \in [Streams -> Seq(Nat)] /\ agentWs \in [Agents -> {"new", "up", "closed"}]
      BY DEF Inductive, TypeOK
  <1>1. ASSUME NEW s \in Streams, OpCommand(s) \/ OpCommandRefused(s)
        PROVE  Commands!Next
      <2>1. cmds' = [cmds EXCEPT ![s] = @ + 1] /\ UNCHANGED atAgent
          BY <1>1 DEF OpCommand, OpCommandRefused
      <2> QED BY <2>1 DEF Commands!Next, Commands!Accept
  <1>2. CASE ToAgent
      <2>1. PICK s : s = Head(out_q).stream
          OBVIOUS
      <2>2. PICK n : n = Head(out_q).chunk
          OBVIOUS
      <2>3. out_q # <<>> /\ cmds' = cmds
          BY <1>2 DEF ToAgent
      <2>4. s \in Streams /\ s[2] \in Agents
          <3>1. Head(out_q) \in Messages
              BY <1>0, <2>3, TailFacts
          <3> QED BY <2>1, <3>1 DEF Messages, Streams
      <2>5. CASE agentWs[s[2]] # "up" \/ s[2] \notin clients
          BY <1>2, <2>1, <2>3, <2>5 DEF ToAgent
      <2>6. CASE agentWs[s[2]] = "up" /\ s[2] \in clients
          <3>1. Lined(out_q, s, atAgent[s], cmds[s])
              BY <2>4, <2>6 DEF Streaming, Outgoing
          <3>2. /\ n \in 1..cmds[s] /\ n \notin Range(atAgent[s])
                /\ \A m \in 1..(n - 1) : m \in Range(atAgent[s])
              BY <1>0, <2>1, <2>2, <2>3, <2>4, <3>1, LinedTail
          <3>3. atAgent' = [atAgent EXCEPT ![s] = Append(@, n)]
              BY <1>2, <2>1, <2>2, <2>6 DEF ToAgent
          <3>4. Commands!Range(atAgent[s]) = Range(atAgent[s])
              BY DEF Range, Commands!Range
          <3>5. Commands!Deliver(s)
              BY <2>3, <3>2, <3>3, <3>4 DEF Commands!Deliver
          <3> QED BY <2>4, <3>5 DEF Commands!Next
      <2> QED BY <2>5, <2>6
  <1> QED BY <1>1, <1>2, StreamSteps DEF OutStep

LEMMA RepliesStep ==
    ASSUME Inductive, Streaming, [Next]_vars
    PROVE  [Replies!Next]_<<replies, atOp>>
  <1>0. /\ in_q \in Seq(Messages) /\ replies \in [Streams -> Nat]
        /\ atOp \in [Streams -> Seq(Nat)]
      BY DEF Inductive, TypeOK
  <1>1. ASSUME NEW s \in Streams, AgentReply(s)
        PROVE  Replies!Next
      <2>1. replies' = [replies EXCEPT ![s] = @ + 1] /\ UNCHANGED atOp
          BY <1>1 DEF AgentReply
      <2> QED BY <2>1 DEF Replies!Next, Replies!Accept
  <1>2. CASE ToOperator
      <2>1. PICK s : s = Head(in_q).stream
          OBVIOUS
      <2>2. PICK n : n = Head(in_q).chunk
          OBVIOUS
      <2>3. in_q # <<>> /\ replies' = replies
          BY <1>2 DEF ToOperator
      <2>4. s \in Streams
          <3>1. Head(in_q) \in Messages
              BY <1>0, <2>3, TailFacts
          <3> QED BY <2>1, <3>1 DEF Messages
      <2>5. CASE ~(s \in data_lookop /\ opWs[s[1]] = "up")
          BY <1>2, <2>1, <2>3, <2>5 DEF ToOperator
      <2>6. CASE s \in data_lookop /\ opWs[s[1]] = "up"
          <3>1. Lined(in_q, s, atOp[s], replies[s])
              BY <2>4, <2>6 DEF Streaming, Incoming
          <3>2. /\ n \in 1..replies[s] /\ n \notin Range(atOp[s])
                /\ \A m \in 1..(n - 1) : m \in Range(atOp[s])
              BY <1>0, <2>1, <2>2, <2>3, <2>4, <3>1, LinedTail
          <3>3. atOp' = [atOp EXCEPT ![s] = Append(@, n)]
              BY <1>2, <2>1, <2>2, <2>6 DEF ToOperator
          <3>4. Replies!Range(atOp[s]) = Range(atOp[s])
              BY DEF Range, Replies!Range
          <3>5. Replies!Deliver(s)
              BY <2>3, <3>2, <3>3, <3>4 DEF Replies!Deliver
          <3> QED BY <2>4, <3>5 DEF Replies!Next
      <2> QED BY <2>5, <2>6
  <1> QED BY <1>1, <1>2, StreamSteps DEF InStep

\* The router implements OrderedStream twice: the n-th command of an operator
\* reaches the agent at most once and after those before it, and so do replies,
\* whoever comes and goes meanwhile.
THEOREM StreamsAlwaysInOrder == Spec => StreamsInOrder
  <1>1. Init => Commands!Init /\ Replies!Init
      BY DEF Init, Commands!Init, Replies!Init
  <1>2. Inductive /\ Streaming /\ [Next]_vars => [Commands!Next]_<<cmds, atAgent>>
      BY CommandsStep
  <1>3. Inductive /\ Streaming /\ [Next]_vars => [Replies!Next]_<<replies, atOp>>
      BY RepliesStep
  <1> QED BY <1>1, <1>2, <1>3, Invariance, StreamInvariance, PTL
          DEF Spec, StreamsInOrder, Commands!Spec, Replies!Spec

LEMMA ListInvariance == Spec => []Listed
  <1>1. Init => Listed
      <2>1. Range(<<>>) = {}
          BY DEF Range
      <2> QED BY <2>1 DEF Init, Listed, Fresh, OnceIn, EmptyDict, Contains
  <1>2. Inductive /\ Listed /\ [Next]_vars => Listed'
      BY ListedStep DEF Inductive
  <1> QED BY <1>1, <1>2, Invariance, PTL DEF Spec

\* A loop that is exhausted has yielded every key there is.
LEMMA ExhaustedHasSeen ==
    ASSUME NEW d \in Dict(Agents), NEW it \in Iterator(Agents), Passed(d, it),
           d.keys \subseteq Range(d.entries), Exhausted(d, it)
    PROVE  d.keys \subseteq it.seen
  <1> SUFFICES ASSUME NEW a \in d.keys PROVE a \in it.seen
      OBVIOUS
  <1>1. d.entries \in Seq(Agents) /\ Len(d.entries) \in Nat /\ it.pos \in Nat
      BY DEF Dict, Iterator
  <1>2. PICK i \in 1..Len(d.entries) : d.entries[i] = a
      BY <1>1 DEF Range
  <1>3. i \notin (it.pos + 1)..Len(d.entries)
      BY <1>2 DEF Exhausted, Remaining
  <1>4. i \in 1..it.pos
      BY <1>1, <1>2, <1>3
  <1> QED BY <1>2, <1>4 DEF Passed

LEMMA OnceInvariance == Spec => []Once
  <1>1. Init => Once
      BY DEF Init, Once, EmptyDict, Unique
  <1>2. Inductive /\ Listed /\ Once /\ [Next]_vars => Once'
      BY OnceStep DEF Inductive
  <1> QED BY <1>1, <1>2, Invariance, ListInvariance, PTL DEF Spec

LEMMA ListingOnceStep ==
    ASSUME TypeOK, Routing, Once, [Next]_vars, NEW o \in Ops, handler[o] = "listing",
           handler'[o] = "listing", listing'[o].pos # listing[o].pos
    PROVE  listing'[o].seen # listing[o].seen
  <1>0. /\ agents \in Dict(Agents) /\ listing \in [Ops -> Iterator(Agents)]
        /\ Unique(agents.entries) /\ Ahead(agents, listing[o])
      BY DEF TypeOK, Once
  <1>1. PICK p \in Ops : OpList(p) \/ ListSent(p)
      <2>1. listing' # listing
          OBVIOUS
      <2> QED BY <2>1 DEF Next, AgentNext, AgentConnect, AgentInfo, AgentClose, AgentLeave,
                  OpNext, OpConnect, OpClose, OpLeave, StreamNext, Signal, NotifySent,
                  NotifyFailed, SignalIn, SignalOut, AgentReply, OpCommand,
                  OpCommandRefused, ToAgent, ToOperator, End, opVars, vars
  <1>2. PICK it, i : /\ ListFrom(p, it) /\ Yields(agents, it, i)
                     /\ listing' = [listing EXCEPT ![p] = Advance(agents, it, i)]
                     /\ handler[p] = "listing" => it = listing[p]
      <2>1. PICK it : ListFrom(p, it) /\ (handler[p] = "listing" => it = listing[p])
          BY <1>1 DEF OpList, ListSent
      <2>2. listing' # listing
          OBVIOUS
      <2> QED BY <2>1, <2>2 DEF ListFrom, End
  <1>3. p = o
      BY <1>0, <1>2
  <1>4. listing'[o] = Advance(agents, listing[o], i) /\ Yields(agents, listing[o], i)
      BY <1>0, <1>2, <1>3
  <1>5. /\ agents.entries[i] \notin listing[o].seen
        /\ Advance(agents, listing[o], i).seen = listing[o].seen \cup {agents.entries[i]}
      BY <1>0, <1>4, AheadAdvance
  <1> QED BY <1>4, <1>5

LEMMA ListingStep ==
    ASSUME TypeOK, Routing, Listed, [Next]_vars, NEW o \in Ops, handler[o] = "listing",
           handler'[o] = "recv", listing[o].rebuilds = agents.rebuilds
    PROVE  agents.keys \subseteq listing[o].seen
  <1>0. /\ agents \in Dict(Agents) /\ listing[o] \in Iterator(Agents)
        /\ handler \in [Ops -> {"none", "recv", "listing", "done"}]
      BY DEF TypeOK
  <1>1. ListSent(o)
      <2>1. CASE AgentNext \/ Signal \/ ToAgent \/ ToOperator \/ UNCHANGED vars
          <3>1. handler' = handler
              BY <2>1 DEF AgentNext, AgentConnect, AgentInfo, AgentClose, AgentLeave,
                          Signal, NotifySent, NotifyFailed, SignalIn, SignalOut, ToAgent,
                          ToOperator, opVars, vars
          <3> QED BY <3>1
      <2>2. CASE StreamNext
          <3>1. PICK s \in Streams : AgentReply(s) \/ OpCommand(s) \/ OpCommandRefused(s)
              BY <2>2 DEF StreamNext
          <3>2. UNCHANGED handler \/ handler' = [handler EXCEPT ![s[1]] = "done"]
              BY <3>1 DEF AgentReply, OpCommand, OpCommandRefused, opVars, End
          <3> QED BY <1>0, <3>2
      <2>3. CASE OpNext
          <3>1. PICK p \in Ops : OpConnect(p) \/ OpClose(p) \/ OpLeave(p) \/ OpList(p)
                                    \/ ListSent(p)
              BY <2>3 DEF OpNext
          <3>2. handler'[o] # handler[o]
              OBVIOUS
          <3>3. handler' = handler \/ \E x : handler' = [handler EXCEPT ![p] = x]
              BY <3>1 DEF OpConnect, OpClose, OpLeave, OpList, ListSent, ListFrom, End
          <3>4. p = o
              BY <1>0, <3>2, <3>3
          <3>5. ~OpConnect(o) /\ ~OpClose(o) /\ ~OpLeave(o) /\ ~OpList(o)
              BY <3>2 DEF OpConnect, Routing, OpClose, OpLeave, OpList
          <3> QED BY <3>1, <3>4, <3>5
      <2> QED BY <2>1, <2>2, <2>3 DEF Next
  <1>2. ListFrom(o, listing[o])
      BY <1>1 DEF ListSent
  <1>3. Exhausted(agents, listing[o])
      BY <1>0, <1>2 DEF ListFrom, End
  <1> QED BY <1>0, <1>3, ExhaustedHasSeen DEF Listed, Going

\* The OK that ends an answer to LISTAGENTS follows a description of every
\* agent in the table, although the table changes between two of them: unless
\* it was rebuilt meanwhile.
THEOREM ListingsComplete == Spec => ListingComplete
  <1>1. Inductive /\ Listed /\ [Next]_vars
            => [\A o \in Ops :
                  (/\ handler[o] = "listing" /\ handler'[o] = "recv"
                   /\ listing[o].rebuilds = agents.rebuilds)
                    => agents.keys \subseteq listing[o].seen]_vars
      BY ListingStep DEF Inductive
  <1> QED BY <1>1, Invariance, ListInvariance, PTL DEF Spec, ListingComplete

\* No agent is described twice in one answer to LISTAGENTS, also when the table
\* is rebuilt between two descriptions.
THEOREM ListingsOnce == Spec => ListedOnce
  <1>1. Inductive /\ Once /\ [Next]_vars
            => [\A o \in Ops :
                  handler[o] = "listing" /\ handler'[o] = "listing"
                    /\ listing'[o].pos # listing[o].pos
                    => listing'[o].seen # listing[o].seen]_vars
      BY ListingOnceStep DEF Inductive
  <1> QED BY <1>1, Invariance, OnceInvariance, PTL DEF Spec, ListedOnce

\* Both together: what an operator is told of the agents by one answer.
THEOREM ListingsTrue == Spec => ListingTrue
  BY ListingsComplete, ListingsOnce DEF ListingTrue
=============================================================================
