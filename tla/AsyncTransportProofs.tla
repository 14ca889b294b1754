------------------------ MODULE AsyncTransportProofs ------------------------
(***************************************************************************)
(* Proofs about AsyncTransport for all bounds and every set of pause tasks.*)
(***************************************************************************)
EXTENDS AsyncTransport, StreamLemmas, SequenceTheorems, TLAPS

(***************************************************************************)
(* The inductive invariant.                                                *)
(*                                                                         *)
(* Turns: no task is ready twice, or ready while it runs.  Lock: a task    *)
(* holds read_lock, or waits for it, where its own state says so; one that *)
(* was woken from waiting is the first in line and finds the lock free.    *)
(* Writer: as long as nothing has ended the connection, the task that      *)
(* sends what was written runs, or is ready ahead of the task of close().  *)
(* Flow: the queue continues what was delivered, and the agent's end is    *)
(* the last that it holds.                                                 *)
(***************************************************************************)
Due(t) == cur = t \/ Contains(ready, t)

Turns == Unique(ready) /\ ~Contains(ready, cur)

Lock ==
    /\ inTask = "get" <=> lock = "in"
    /\ inTask = "lock" <=> Contains(waiters, "in")
    /\ \A p \in PauseIds : /\ pauseTask[p] = "resume" <=> lock = p
                           /\ pauseTask[p] = "lock" <=> Contains(waiters, p)
                           /\ pauseTask[p] = "none" => ~Due(p)
    /\ Unique(waiters)
    /\ \A w \in ({"in"} \cup PauseIds) \ cancelled :
          Contains(waiters, w) /\ Due(w) => lock = "free" /\ w = Head(waiters)

\* The writing task is in the queue r, and the task of close() not before it.
Ahead(r) == \E i \in 1..Len(r) : r[i] = "out" /\ \A j \in 1..i : r[j] # "close"

Writer ==
    /\ Due("close") => closeTask = "start"
    /\ ~disconnected_evt =>
          /\ cancelled = {} /\ outTask # "done"
          /\ outTask = "start" \/ out_q # <<>> => cur = "out" \/ Ahead(ready)
          /\ cur = "close" => out_q = <<>>

Flow ==
    /\ Len(delivered) <= arrived
    /\ \A i \in 1..Len(delivered) : delivered[i] = i
    /\ \A i \in 1..Len(internal_in_q) :
          internal_in_q[i] = IF remote = "ended" /\ i = Len(internal_in_q)
                             THEN OkItem ELSE Len(delivered) + i
    /\ remote = "open" \/ internal_in_q # <<>> =>
          Len(delivered) + Len(internal_in_q)
            = arrived + (IF remote = "ended" THEN 1 ELSE 0)

Inv == TypeOK /\ Turns /\ Lock /\ Writer /\ Flow

-----------------------------------------------------------------------------
(* The queue of the loop.                                                   *)

\* s is the queue r with the tasks T behind, of which some may have been in it.
Adds(r, s, T) ==
    /\ s \in Seq(Task)
    /\ Unique(r) => Unique(s)
    /\ \A d : Contains(s, d) <=> Contains(r, d) \/ d \in T
    /\ Ahead(r) => Ahead(s)

LEMMA AddsNone ==
    ASSUME NEW r \in Seq(Task)
    PROVE  Adds(r, r, {})
  BY DEF Adds

LEMMA AddsBoth ==
    ASSUME NEW r, NEW s, NEW u, NEW S, NEW T, Adds(r, s, S), Adds(s, u, T)
    PROVE  Adds(r, u, S \cup T)
  BY DEF Adds

LEMMA AppendAdds ==
    ASSUME NEW r \in Seq(Task), NEW t \in Task, ~Contains(r, t)
    PROVE  Adds(r, Append(r, t), {t})
  <1> DEFINE s == Append(r, t)
  <1>1. /\ s \in Seq(Task) /\ Len(s) = Len(r) + 1 /\ Len(r) \in Nat
        /\ DOMAIN s = 1..(Len(r) + 1) /\ DOMAIN r = 1..Len(r)
        /\ \A i \in 1..Len(r) : s[i] = r[i]
        /\ s[Len(r) + 1] = t
      OBVIOUS
  <1> HIDE DEF s
  <1>2. \A i \in 1..Len(r) : r[i] # t
      BY DEF Contains
  <1>3. Unique(r) => Unique(s)
      BY <1>1, <1>2 DEF Unique
  <1>4. \A d : Contains(s, d) <=> Contains(r, d) \/ d = t
      BY <1>1 DEF Contains
  <1>5. ASSUME Ahead(r) PROVE Ahead(s)
      <2>1. PICK i \in 1..Len(r) : r[i] = "out" /\ \A j \in 1..i : r[j] # "close"
          BY <1>5 DEF Ahead
      <2>2. i \in 1..Len(s) /\ s[i] = "out" /\ \A j \in 1..i : s[j] # "close"
          BY <1>1, <2>1
      <2> QED BY <2>2 DEF Ahead
  <1> QED BY <1>1, <1>3, <1>4, <1>5 DEF Adds, s

LEMMA WokenAdds ==
    ASSUME NEW r \in Seq(Task), NEW t \in Task
    PROVE  Adds(r, Woken(r, t), {t})
  <1>1. CASE Contains(r, t)
      <2>1. Woken(r, t) = r
          BY <1>1 DEF Woken
      <2> QED BY <1>1, <2>1 DEF Adds
  <1>2. CASE ~Contains(r, t)
      <2>1. Woken(r, t) = Append(r, t)
          BY <1>2 DEF Woken
      <2> QED BY <1>2, <2>1, AppendAdds
  <1> QED BY <1>1, <1>2

\* The task that finds the lock free when it is released.
NextIn(ws) == IF ws = <<>> THEN {} ELSE {Head(ws)}

LEMMA ReleasedAdds ==
    ASSUME NEW r \in Seq(Task), NEW ws \in Seq({"in"} \cup PauseIds)
    PROVE  Adds(r, Released(r, ws), NextIn(ws))
  <1>1. CASE ws = <<>>
      BY <1>1, AddsNone DEF Released, NextIn
  <1>2. CASE ws # <<>>
      <2>1. Head(ws) \in Task
          BY <1>2 DEF Task
      <2> QED BY <1>2, <2>1, WokenAdds DEF Released, NextIn
  <1> QED BY <1>1, <1>2

Victims(self) == {t \in {"in", "out"} \ {self} :
                     IF t = "in" THEN inTask # "done" ELSE outTask # "done"}

LEMMA CloseAdds ==
    ASSUME NEW r \in Seq(Task), NEW self, CloseConn(self, r)
    PROVE  /\ Adds(r, ready', Victims(self))
           /\ lost' /\ disconnected_evt'
           /\ cancelled' = (cancelled \cup Victims(self)) \ {self}
  <1> DEFINE V == Victims(self)
             out == IF "out" \in V THEN Woken(r, "out") ELSE r
  <1>1. /\ lost' = TRUE /\ disconnected_evt' = TRUE
        /\ cancelled' = (cancelled \cup V) \ {self}
        /\ ready' = IF "in" \in V THEN Woken(out, "in") ELSE out
      BY DEF CloseConn, Victims
  <1>2. V \subseteq {"in", "out"}
      BY DEF Victims
  <1> HIDE DEF V
  <1>3. Adds(r, out, V \cap {"out"})
      <2>1. CASE "out" \in V
          BY <2>1, WokenAdds DEF Task, Adds
      <2>2. CASE "out" \notin V
          BY <2>2, AddsNone DEF Adds
      <2> QED BY <2>1, <2>2
  <1>4. out \in Seq(Task)
      BY <1>3 DEF Adds
  <1> HIDE DEF out
  <1>5. Adds(out, ready', V \cap {"in"})
      <2>1. CASE "in" \in V
          BY <1>1, <1>4, <2>1, WokenAdds DEF Task, Adds
      <2>2. CASE "in" \notin V
          BY <1>1, <1>4, <2>2, AddsNone DEF Adds
      <2> QED BY <2>1, <2>2
  <1>6. Adds(r, ready', V)
      <2>1. Adds(r, ready', (V \cap {"out"}) \cup (V \cap {"in"}))
          BY <1>3, <1>5, AddsBoth
      <2>2. (V \cap {"out"}) \cup (V \cap {"in"}) = V
          BY <1>2
      <2> QED BY <2>1, <2>2
  <1> QED BY <1>1, <1>6 DEF V

\* The first of a queue without repetitions leaves it.
LEMMA TailFacts ==
    ASSUME NEW S, NEW s \in Seq(S), s # <<>>
    PROVE  /\ Head(s) \in S /\ Tail(s) \in Seq(S) /\ Contains(s, Head(s))
           /\ Unique(s) => /\ Unique(Tail(s)) /\ ~Contains(Tail(s), Head(s))
                           /\ \A d : Contains(Tail(s), d) <=> Contains(s, d) /\ d # Head(s)
  <1>1. /\ Head(s) \in S /\ Tail(s) \in Seq(S) /\ Len(s) \in Nat /\ Len(s) > 0
        /\ Head(s) = s[1] /\ Len(Tail(s)) = Len(s) - 1
        /\ DOMAIN s = 1..Len(s) /\ DOMAIN Tail(s) = 1..(Len(s) - 1)
        /\ \A i \in 1..(Len(s) - 1) : Tail(s)[i] = s[i + 1]
      OBVIOUS
  <1> DEFINE t == Tail(s)
             h == Head(s)
  <1>2. /\ h \in S /\ t \in Seq(S) /\ Len(s) \in Nat /\ Len(s) > 0
        /\ h = s[1] /\ Len(t) = Len(s) - 1
        /\ DOMAIN s = 1..Len(s) /\ DOMAIN t = 1..(Len(s) - 1)
        /\ \A i \in 1..(Len(s) - 1) : t[i] = s[i + 1]
      BY <1>1
  <1> HIDE DEF t, h
  <1>3. Contains(s, h)
      BY <1>2 DEF Contains
  <1>4. ASSUME Unique(s)
        PROVE  /\ Unique(t) /\ ~Contains(t, h)
               /\ \A d : Contains(t, d) <=> Contains(s, d) /\ d # h
      <2>1. ASSUME NEW i \in 1..(Len(s) - 1), NEW j \in 1..(Len(s) - 1), t[i] = t[j]
            PROVE  i = j
          <3>1. i + 1 \in DOMAIN s /\ j + 1 \in DOMAIN s /\ s[i + 1] = s[j + 1]
              BY <1>2, <2>1
          <3>2. i + 1 = j + 1
              BY <1>4, <3>1 DEF Unique
          <3> QED BY <1>2, <3>2
      <2>2. Unique(t)
          BY <1>2, <2>1 DEF Unique
      <2>3. ASSUME NEW i \in 1..Len(s), s[i] = h PROVE i = 1
          BY <1>2, <1>4, <2>3 DEF Unique
      <2>4. ~Contains(t, h)
          <3> SUFFICES ASSUME NEW i \in 1..(Len(s) - 1), t[i] = h PROVE FALSE
              BY <1>2 DEF Contains
          <3>1. i + 1 \in 1..Len(s) /\ s[i + 1] = h
              BY <1>2
          <3> QED BY <1>2, <2>3, <3>1
      <2>5. ASSUME NEW d, Contains(s, d), d # h PROVE Contains(t, d)
          <3>1. PICK i \in 1..Len(s) : s[i] = d
              BY <2>5 DEF Contains
          <3>2. i - 1 \in 1..(Len(s) - 1) /\ s[(i - 1) + 1] = d
              BY <1>2, <2>5, <3>1
          <3> QED BY <1>2, <3>2 DEF Contains
      <2>6. ASSUME NEW d, Contains(t, d) PROVE Contains(s, d)
          <3>1. PICK i \in 1..(Len(s) - 1) : t[i] = d
              BY <1>2, <2>6 DEF Contains
          <3>2. i + 1 \in 1..Len(s) /\ s[i + 1] = d
              BY <1>2, <3>1
          <3> QED BY <3>2 DEF Contains
      <2> QED BY <2>2, <2>4, <2>5, <2>6
  <1> QED BY <1>2, <1>3, <1>4 DEF t, h

\* One more joins the end of a queue.
LEMMA JoinFacts ==
    ASSUME NEW S, NEW s \in Seq(S), NEW e \in S, Unique(s), ~Contains(s, e)
    PROVE  /\ Unique(Append(s, e))
           /\ \A d : Contains(Append(s, e), d) <=> Contains(s, d) \/ d = e
           /\ s # <<>> => Head(Append(s, e)) = Head(s)
  <1> DEFINE t == Append(s, e)
  <1>1. /\ Len(t) = Len(s) + 1 /\ Len(s) \in Nat
        /\ DOMAIN t = 1..(Len(s) + 1) /\ DOMAIN s = 1..Len(s)
        /\ \A i \in 1..Len(s) : t[i] = s[i]
        /\ t[Len(s) + 1] = e
      OBVIOUS
  <1>2. s # <<>> => Head(t) = Head(s)
      OBVIOUS
  <1> HIDE DEF t
  <1>3. \A i \in 1..Len(s) : s[i] # e
      BY DEF Contains
  <1>4. Unique(t)
      BY <1>1, <1>3 DEF Unique
  <1>5. \A d : Contains(t, d) <=> Contains(s, d) \/ d = e
      BY <1>1 DEF Contains
  <1> QED BY <1>2, <1>4, <1>5 DEF t

LEMMA QueueOfTasks ==
    ASSUME NEW S, NEW s \in Seq(S), NEW d, Contains(s, d)
    PROVE  d \in S
  BY DEF Contains

-----------------------------------------------------------------------------
(* What each action adds to the queue of the loop.                          *)

LEMMA DeliverWakes ==
    ASSUME TypeOK, Lock, InDeliver
    PROVE  \/ /\ Adds(ready, ready', NextIn(waiters))
              /\ UNCHANGED <<paused, pauseTask>>
           \/ \E p \in PauseIds :
                 /\ pauseTask[p] = "none" /\ ~paused /\ paused' = TRUE
                 /\ pauseTask' = [pauseTask EXCEPT ![p] = "start"]
                 /\ Adds(ready, ready', {p} \cup NextIn(waiters))
  <1> DEFINE p == CHOOSE q \in PauseIds : pauseTask[q] = "none"
  <1>0. ready \in Seq(Task) /\ waiters \in Seq({"in"} \cup PauseIds)
      BY DEF TypeOK
  <1>1. \/ ready' = Released(ready, waiters) /\ UNCHANGED <<paused, pauseTask>>
        \/ /\ ~paused /\ \E q \in PauseIds : pauseTask[q] = "none"
           /\ paused' = TRUE
           /\ pauseTask' = [pauseTask EXCEPT ![p] = "start"]
           /\ ready' = Released(Append(ready, p), waiters)
      BY DEF InDeliver
  <1>2. CASE ready' = Released(ready, waiters) /\ UNCHANGED <<paused, pauseTask>>
      BY <1>0, <1>2, ReleasedAdds
  <1>3. CASE /\ ~paused /\ \E q \in PauseIds : pauseTask[q] = "none"
             /\ paused' = TRUE
             /\ pauseTask' = [pauseTask EXCEPT ![p] = "start"]
             /\ ready' = Released(Append(ready, p), waiters)
      <2>1. p \in PauseIds /\ pauseTask[p] = "none"
          BY <1>3
      <2> HIDE DEF p
      <2>2. p \in Task /\ ~Contains(ready, p)
          BY <2>1 DEF Task, Lock, Due
      <2>3. Adds(ready, Append(ready, p), {p})
          BY <1>0, <2>2, AppendAdds
      <2>4. Append(ready, p) \in Seq(Task)
          BY <1>0, <2>2
      <2>5. Adds(Append(ready, p), ready', NextIn(waiters))
          BY <1>0, <1>3, <2>4, ReleasedAdds
      <2>6. Adds(ready, ready', {p} \cup NextIn(waiters))
          BY <2>3, <2>5, AddsBoth
      <2> QED BY <1>3, <2>1, <2>6
  <1> QED BY <1>1, <1>2, <1>3

LEMMA EndWakes ==
    ASSUME TypeOK, InEnd
    PROVE  /\ Adds(ready, ready', NextIn(waiters) \cup Victims("in"))
           /\ disconnected_evt'
           /\ cancelled' = (cancelled \cup Victims("in")) \ {"in"}
  <1>1. Adds(ready, Released(ready, waiters), NextIn(waiters))
      BY ReleasedAdds DEF TypeOK
  <1>2. Released(ready, waiters) \in Seq(Task)
      BY <1>1 DEF Adds
  <1>3. CloseConn("in", Released(ready, waiters))
      BY DEF InEnd
  <1>4. /\ Adds(Released(ready, waiters), ready', Victims("in"))
        /\ disconnected_evt'
        /\ cancelled' = (cancelled \cup Victims("in")) \ {"in"}
      BY <1>2, <1>3, CloseAdds
  <1> QED BY <1>1, <1>4, AddsBoth

\* The others that wait when the reading task leaves.
Others == RemoveFirst(waiters, "in")

LEMMA OthersFacts ==
    ASSUME TypeOK, Lock
    PROVE  /\ Others \in Seq({"in"} \cup PauseIds) /\ Unique(Others)
           /\ \A d : Contains(Others, d) <=> Contains(waiters, d) /\ d # "in"
           /\ waiters # <<>> /\ Head(waiters) # "in" =>
                 Others # <<>> /\ Head(Others) = Head(waiters)
  <1>1. /\ Others \in Seq({"in"} \cup PauseIds) /\ Unique(Others)
        /\ \A d : Contains(Others, d) <=> Contains(waiters, d) /\ d # "in"
      BY RemoveUnique DEF TypeOK, Lock, Others
  <1>2. ASSUME waiters # <<>>, Head(waiters) # "in"
        PROVE  Others # <<>> /\ Head(Others) = Head(waiters)
      <2>0. waiters \in Seq({"in"} \cup PauseIds) /\ DOMAIN waiters = 1..Len(waiters)
          BY DEF TypeOK
      <2>1. CASE \E i \in DOMAIN waiters : waiters[i] = "in"
          <3>1. PICK m \in 1..Len(waiters) :
                   /\ waiters[m] = "in"
                   /\ Without(waiters, m, Others)
              BY <2>0, <2>1, RemoveFirstFacts DEF Others
          <3>2. m # 1 /\ Len(waiters) > 1
              BY <1>2, <2>0, <3>1
          <3>3. Len(Others) = Len(waiters) - 1 /\ Others[1] = waiters[1]
              BY <2>0, <3>1, <3>2 DEF Without
          <3> QED BY <1>1, <1>2, <2>0, <3>2, <3>3
      <2>2. CASE ~\E i \in DOMAIN waiters : waiters[i] = "in"
          BY <1>2, <2>0, <2>2 DEF Others, RemoveFirst
      <2> QED BY <2>1, <2>2
  <1> QED BY <1>1, <1>2

LEMMA CancelledWakes ==
    ASSUME TypeOK, Lock, InCancelled
    PROVE  /\ Adds(ready, ready', (IF lock' = "free" THEN NextIn(Others) ELSE {})
                                     \cup Victims("in"))
           /\ disconnected_evt'
           /\ cancelled' = (cancelled \cup Victims("in")) \ {"in"}
  <1> DEFINE r == IF lock' = "free" THEN Released(ready, Others) ELSE ready
             T == IF lock' = "free" THEN NextIn(Others) ELSE {}
  <1>1. CloseConn("in", r)
      BY DEF InCancelled, Others
  <1>2. Adds(ready, r, T)
      <2>1. ready \in Seq(Task) /\ Others \in Seq({"in"} \cup PauseIds)
          BY OthersFacts DEF TypeOK
      <2>2. CASE lock' = "free"
          BY <2>1, <2>2, ReleasedAdds
      <2>3. CASE lock' # "free"
          BY <2>1, <2>3, AddsNone
      <2> QED BY <2>2, <2>3
  <1>3. r \in Seq(Task)
      BY <1>2 DEF Adds
  <1> HIDE DEF r, T
  <1>4. /\ Adds(r, ready', Victims("in")) /\ disconnected_evt'
        /\ cancelled' = (cancelled \cup Victims("in")) \ {"in"}
      BY <1>1, <1>3, CloseAdds
  <1>5. Adds(ready, ready', T \cup Victims("in"))
      BY <1>2, <1>4, AddsBoth
  <1> QED BY <1>4, <1>5 DEF T

LEMMA OtherWakes ==
    ASSUME TypeOK
    PROVE  /\ InAcquire \/ InGranted \/ InWait \/ OutSend \/ OutWait \/ OutKilled
                 => Adds(ready, ready', {})
           /\ \A self : CloseConn(self, ready) =>
                 /\ Adds(ready, ready', Victims(self)) /\ disconnected_evt'
                 /\ cancelled' = (cancelled \cup Victims(self)) \ {self}
           /\ Arrive \/ RemoteEnd =>
                 Adds(ready, ready', IF inTask = "get" THEN {"in"} ELSE {})
           /\ \A item : Put(item) =>
                 Adds(ready, ready', IF outTask = "get" THEN {"out"} ELSE {})
           /\ Resume => Adds(ready, ready', IF lock \in PauseIds THEN {lock} ELSE {})
           /\ ~Contains(ready, "close") /\ Close => Adds(ready, ready', {"close"})
           /\ \A p \in PauseIds :
                 /\ PauseBegin(p) => Adds(ready, ready', {})
                 /\ PauseOver(p) => Adds(ready, ready', NextIn(waiters))
  <1>0. /\ ready \in Seq(Task) /\ waiters \in Seq({"in"} \cup PauseIds)
        /\ \A t \in Task : Adds(ready, Woken(ready, t), {t})
        /\ Adds(ready, ready, {})
        /\ Adds(ready, Released(ready, waiters), NextIn(waiters))
        /\ {"in", "out", "close"} \cup PauseIds = Task
      BY WokenAdds, AddsNone, ReleasedAdds DEF TypeOK, Task
  <1>1. InAcquire \/ InGranted \/ InWait \/ OutSend \/ OutWait \/ OutKilled
                 => Adds(ready, ready', {})
      BY <1>0 DEF InAcquire, InGranted, InWait, OutSend, OutWait, OutKilled, loopVars
  <1>2. \A self : CloseConn(self, ready) =>
                 /\ Adds(ready, ready', Victims(self)) /\ disconnected_evt'
                 /\ cancelled' = (cancelled \cup Victims(self)) \ {self}
      BY <1>0, CloseAdds
  <1>3. Arrive \/ RemoteEnd => Adds(ready, ready', IF inTask = "get" THEN {"in"} ELSE {})
      BY <1>0 DEF Arrive, RemoteEnd
  <1>4. \A item : Put(item) =>
                 Adds(ready, ready', IF outTask = "get" THEN {"out"} ELSE {})
      BY <1>0 DEF Put
  <1>5. Resume => Adds(ready, ready', IF lock \in PauseIds THEN {lock} ELSE {})
      BY <1>0 DEF Resume
  <1>6. ~Contains(ready, "close") /\ Close => Adds(ready, ready', {"close"})
      BY <1>0, AppendAdds DEF Close
  <1>7. ASSUME NEW p \in PauseIds
        PROVE  /\ PauseBegin(p) => Adds(ready, ready', {})
               /\ PauseOver(p) => Adds(ready, ready', NextIn(waiters))
      BY <1>0 DEF PauseBegin, PauseOver
  <1> QED BY <1>1, <1>2, <1>3, <1>4, <1>5, <1>6, <1>7

LEMMA GrantedWakes ==
    ASSUME TypeOK, Lock, NEW p \in PauseIds, PauseGranted(p)
    PROVE  /\ waiters # <<>>
           /\ Adds(ready, ready', IF read_resume THEN NextIn(Tail(waiters)) ELSE {})
  <1>1. waiters \in Seq({"in"} \cup PauseIds) /\ waiters # <<>>
      BY DEF TypeOK, Lock, PauseGranted, Contains
  <1>2. Tail(waiters) \in Seq({"in"} \cup PauseIds)
      BY <1>1
  <1>3. ready \in Seq(Task)
      BY DEF TypeOK
  <1>4. CASE read_resume
      <2>1. ready' = Released(ready, Tail(waiters))
          BY <1>4 DEF PauseGranted
      <2> QED BY <1>1, <1>2, <1>3, <1>4, <2>1, ReleasedAdds
  <1>5. CASE ~read_resume
      <2>1. ready' = ready
          BY <1>5 DEF PauseGranted
      <2> QED BY <1>1, <1>3, <1>5, <2>1, AddsNone
  <1> QED BY <1>4, <1>5

-----------------------------------------------------------------------------
(* Type correctness.                                                        *)

LEMMA Items ==
    ASSUME NEW S, NEW s \in Seq(S)
    PROVE  /\ s # <<>> => Head(s) \in S /\ Tail(s) \in Seq(S)
           /\ \A e \in S : Append(s, e) \in Seq(S)
  OBVIOUS

LEMMA TypeStep ==
    ASSUME TypeOK, Turns, Lock, Writer, Next
    PROVE  TypeOK'
  <1> USE BoundsAssumption
  <1>0. \A T : Adds(ready, ready', T) => ready' \in Seq(Task)
      BY DEF Adds
  <1>a. \A self : /\ self \notin Victims(self)
                  /\ (cancelled \cup Victims(self)) \ {self} \subseteq {"in", "out"}
      BY DEF TypeOK, Victims
  <1>b. /\ waiters # <<>> => Tail(waiters) \in Seq({"in"} \cup PauseIds)
        /\ \A w \in {"in"} \cup PauseIds : Append(waiters, w) \in Seq({"in"} \cup PauseIds)
      BY DEF TypeOK
  <1>1. CASE Turn
      <2>1. ready \in Seq(Task) /\ ready # <<>>
          BY <1>1 DEF Turn, TypeOK
      <2>2. Head(ready) \in Task /\ Tail(ready) \in Seq(Task)
          BY <2>1
      <2> QED BY <1>1, <2>2
            DEF Turn, TypeOK, taskVars, lockVars, inVars, outVars
  <1>2. CASE InAcquire
      <2>1. /\ UNCHANGED <<ready, cancelled, outTask, pauseTask, closeTask, read_resume,
                            disconnected_evt, inVars, outVars, lost>>
            /\ cur' \in {cur, "loop"} /\ inTask' \in {"get", "lock"}
            /\ lock' \in {lock, "in"} /\ waiters' \in {waiters, Append(waiters, "in")}
          BY <1>2 DEF InAcquire
      <2>2. waiters' \in Seq({"in"} \cup PauseIds)
          BY <1>b, <2>1 DEF TypeOK
      <2> QED BY <2>1, <2>2 DEF TypeOK, inVars, outVars
  <1>3. CASE InGranted
      <2>1. waiters # <<>>
          BY <1>3 DEF InGranted, Lock, Contains, TypeOK
      <2> QED BY <1>3, <1>b, <2>1 DEF InGranted, TypeOK, loopVars, inVars, outVars
  <1>4. CASE InWait
      BY <1>4 DEF InWait, TypeOK, taskVars, lockVars, inVars, outVars
  <1>5. CASE InDeliver
      <2>1. ready' \in Seq(Task) /\ paused' \in BOOLEAN
              /\ pauseTask' \in [PauseIds -> {"none", "start", "lock", "resume"}]
          BY <1>0, <1>5, DeliverWakes DEF TypeOK
      <2>2. internal_in_q' \in Seq(Nat) /\ delivered' \in Seq(Nat)
          <3>1. internal_in_q \in Seq(Nat) /\ internal_in_q # <<>> /\ delivered \in Seq(Nat)
              BY <1>5 DEF InDeliver, TypeOK
          <3>2. Tail(internal_in_q) \in Seq(Nat) /\ Head(internal_in_q) \in Nat
              BY <3>1, Items
          <3>3. Append(delivered, Head(internal_in_q)) \in Seq(Nat)
              BY <3>1, <3>2, Items
          <3> QED BY <1>5, <3>2, <3>3 DEF InDeliver
      <2> QED BY <1>5, <2>1, <2>2 DEF InDeliver, TypeOK, outVars
  <1>6. CASE InEnd
      <2>1. ready' \in Seq(Task) /\ cancelled' \subseteq {"in", "out"}
          BY <1>0, <1>a, <1>6, EndWakes
      <2>2. internal_in_q' \in Seq(Nat)
          BY <1>6, Items DEF InEnd, TypeOK
      <2>3. disconnected_evt' = TRUE /\ lost' = TRUE
          BY <1>6 DEF InEnd, CloseConn
      <2> QED BY <1>6, <2>1, <2>2, <2>3 DEF InEnd, TypeOK, outVars
  <1>7. CASE InCancelled
      <2>1. ready' \in Seq(Task) /\ cancelled' \subseteq {"in", "out"}
          BY <1>0, <1>a, <1>7, CancelledWakes
      <2>2. waiters' \in Seq({"in"} \cup PauseIds)
          BY <1>7, OthersFacts DEF InCancelled, Others
      <2>3. disconnected_evt' = TRUE /\ lost' = TRUE
          BY <1>7 DEF InCancelled, CloseConn
      <2> QED BY <1>7, <2>1, <2>2, <2>3 DEF InCancelled, TypeOK, inVars, outVars
  <1>8. CASE OutSend
      <2>1. out_q \in Seq(Nat) /\ out_q # <<>> /\ wire \in Seq(Nat)
          BY <1>8 DEF OutSend, TypeOK
      <2>2. Tail(out_q) \in Seq(Nat) /\ Head(out_q) \in Nat
          BY <2>1, Items
      <2>3. Append(wire, Head(out_q)) \in Seq(Nat)
          BY <2>1, <2>2, Items
      <2> QED BY <1>8, <2>2, <2>3 DEF OutSend, TypeOK, loopVars, lockVars, inVars
  <1>9. CASE OutWait
      BY <1>9 DEF OutWait, TypeOK, lockVars, inVars, outVars
  <1>10. CASE OutEnd \/ OutExit \/ OutCancelled
      <2>1. ready' \in Seq(Task) /\ cancelled' \subseteq {"in", "out"}
          BY <1>0, <1>a, <1>10, OtherWakes DEF OutEnd, OutExit, OutCancelled, OutFinally
      <2>2. out_q' \in Seq(Nat)
          BY <1>10, Items DEF OutEnd, OutExit, OutCancelled, TypeOK
      <2>3. disconnected_evt' = TRUE /\ lost' = TRUE
          BY <1>10 DEF OutEnd, OutExit, OutCancelled, OutFinally, CloseConn
      <2> QED BY <1>10, <2>1, <2>2, <2>3
            DEF OutEnd, OutExit, OutCancelled, OutFinally, TypeOK, lockVars, inVars
  <1>11. CASE OutKilled
      BY <1>11 DEF OutKilled, TypeOK, lockVars, inVars, outVars
  <1>12. ASSUME NEW p \in PauseIds, PauseBegin(p)
         PROVE  TypeOK'
      <2>1. /\ pauseTask' \in [PauseIds -> {"none", "start", "lock", "resume"}]
            /\ waiters' \in Seq({"in"} \cup PauseIds)
            /\ lock' \in {"free", "in"} \cup PauseIds
          <3>1. \A at \in {"lock", "resume"} :
                   [pauseTask EXCEPT ![p] = at]
                     \in [PauseIds -> {"none", "start", "lock", "resume"}]
              BY DEF TypeOK
          <3>2. CASE LockIsFree
              <4>1. lock' = p /\ waiters' = waiters
                      /\ pauseTask' = [pauseTask EXCEPT ![p] = "resume"]
                  BY <1>12, <3>2 DEF PauseBegin
              <4> QED BY <3>1, <4>1 DEF TypeOK
          <3>3. CASE ~LockIsFree
              <4>1. lock' = lock /\ waiters' = Append(waiters, p)
                      /\ pauseTask' = [pauseTask EXCEPT ![p] = "lock"]
                  BY <1>12, <3>3 DEF PauseBegin
              <4> QED BY <1>b, <3>1, <4>1 DEF TypeOK
          <3> QED BY <3>2, <3>3
      <2>2. /\ UNCHANGED <<ready, cancelled, inTask, outTask, closeTask, disconnected_evt,
                            internal_in_q, paused, arrived, remote, delivered, out_q,
                            appSent, wire, okSent, lost>>
            /\ cur' = "loop" /\ read_resume' = FALSE
          BY <1>12 DEF PauseBegin, inVars, outVars
      <2>3. /\ ready' \in Seq(Task) /\ cur' \in Task \cup {"loop"}
            /\ cancelled' \subseteq {"in", "out"}
            /\ inTask' \in {"start", "lock", "get", "done"}
            /\ outTask' \in {"start", "get", "done"}
            /\ pauseTask' \in [PauseIds -> {"none", "start", "lock", "resume"}]
            /\ closeTask' \in {"none", "start", "done"}
            /\ lock' \in {"free", "in"} \cup PauseIds
            /\ waiters' \in Seq({"in"} \cup PauseIds)
          BY <2>1, <2>2 DEF TypeOK
      <2> QED BY <2>2, <2>3 DEF TypeOK
  <1>13. ASSUME NEW p \in PauseIds, PauseGranted(p)
         PROVE  TypeOK'
      <2>1. ready' \in Seq(Task) /\ waiters # <<>>
          BY <1>0, <1>13, GrantedWakes
      <2>2. /\ pauseTask' \in [PauseIds -> {"none", "start", "lock", "resume"}]
            /\ waiters' \in Seq({"in"} \cup PauseIds)
            /\ lock' \in {"free", "in"} \cup PauseIds
          BY <1>13, <1>b, <2>1 DEF PauseGranted, TypeOK
      <2> QED BY <1>13, <2>1, <2>2 DEF PauseGranted, TypeOK, inVars, outVars
  <1>14. ASSUME NEW p \in PauseIds, PauseOver(p)
         PROVE  TypeOK'
      <2>1. ready' \in Seq(Task)
          BY <1>0, <1>14, OtherWakes
      <2> QED BY <1>14, <2>1 DEF PauseOver, TypeOK, inVars, outVars
  <1>15. CASE CloseRun
      <2>1. ready' \in Seq(Task) /\ cancelled' \subseteq {"in", "out"}
          BY <1>0, <1>a, <1>15, OtherWakes DEF CloseRun
      <2>2. disconnected_evt' = TRUE /\ lost' = TRUE
          BY <1>15 DEF CloseRun, CloseConn
      <2> QED BY <1>15, <2>1, <2>2 DEF CloseRun, TypeOK, lockVars, inVars, outVars
  <1>16. CASE Arrive \/ RemoteEnd
      <2>1. ready' \in Seq(Task)
          BY <1>0, <1>16, OtherWakes
      <2>2. arrived + 1 \in Nat /\ OkItem \in Nat /\ internal_in_q \in Seq(Nat)
          BY DEF TypeOK, OkItem
      <2>3. \A n \in Nat : Append(internal_in_q, n) \in Seq(Nat)
          BY <2>2, Items
      <2>4. CASE Arrive
          BY <2>1, <2>2, <2>3, <2>4 DEF Arrive, TypeOK, taskVars, lockVars, outVars
      <2>5. CASE RemoteEnd
          BY <2>1, <2>2, <2>3, <2>5 DEF RemoteEnd, TypeOK, taskVars, lockVars, outVars
      <2> QED BY <1>16, <2>4, <2>5
  <1>17. CASE Write \/ WriteEof
      <2>1. PICK item \in Nat : Put(item) /\ appSent' \in Nat
          <3>1. CASE Write
              <4>1. appSent + 1 \in Nat
                  BY DEF TypeOK
              <4> QED BY <3>1, <4>1 DEF Write
          <3>2. CASE WriteEof
              <4>1. NoneItem \in Nat /\ appSent \in Nat
                  BY DEF TypeOK, NoneItem
              <4> QED BY <3>2, <4>1 DEF WriteEof
          <3> QED BY <1>17, <3>1, <3>2
      <2>2. ready' \in Seq(Task) /\ out_q' \in Seq(Nat)
          <3>1. out_q \in Seq(Nat)
              BY DEF TypeOK
          <3>2. Append(out_q, item) \in Seq(Nat)
              BY <3>1, Items
          <3> QED BY <1>0, <2>1, <3>2, OtherWakes DEF Put
      <2> QED BY <2>1, <2>2 DEF Put, TypeOK, taskVars, lockVars, inVars
  <1>20. CASE InExit
      <2>1. ready' \in Seq(Task) /\ cancelled' \subseteq {"in", "out"}
          BY <1>0, <1>a, <1>20, OtherWakes DEF InExit
      <2>2. disconnected_evt' = TRUE /\ lost' = TRUE
          BY <1>20 DEF InExit, CloseConn
      <2> QED BY <1>20, <2>1, <2>2 DEF InExit, TypeOK, lockVars, inVars, outVars
  <1>21. CASE WsLost
      BY <1>21 DEF WsLost, TypeOK, loopVars, taskVars, lockVars, outVars
  <1>18. CASE Close
      <2>1. ready' \in Seq(Task)
          BY <1>0, <1>18, OtherWakes DEF Writer, Due, Close
      <2> QED BY <1>18, <2>1 DEF Close, TypeOK, lockVars, inVars, outVars
  <1>19. CASE Resume
      <2>1. ready' \in Seq(Task)
          BY <1>0, <1>19, OtherWakes
      <2>2. UNCHANGED <<cur, cancelled, taskVars, lock, waiters, disconnected_evt,
                        internal_in_q, arrived, remote, delivered, outVars, lost>>
              /\ paused' = FALSE /\ read_resume' = TRUE
          BY <1>19 DEF Resume
      <2>3. UNCHANGED <<cur, cancelled, inTask, outTask, pauseTask, closeTask, lock,
                        waiters, disconnected_evt, internal_in_q, out_q, arrived,
                        remote, delivered, appSent, wire, okSent, lost>>
          BY <2>2 DEF taskVars, outVars
      <2>4. /\ ready' \in Seq(Task) /\ cur' \in Task \cup {"loop"}
            /\ cancelled' \subseteq {"in", "out"}
            /\ inTask' \in {"start", "lock", "get", "done"}
            /\ outTask' \in {"start", "get", "done"}
            /\ pauseTask' \in [PauseIds -> {"none", "start", "lock", "resume"}]
            /\ closeTask' \in {"none", "start", "done"}
            /\ lock' \in {"free", "in"} \cup PauseIds
            /\ waiters' \in Seq({"in"} \cup PauseIds)
          BY <2>1, <2>2, <2>3 DEF TypeOK
      <2> QED BY <2>2, <2>4, <2>3 DEF TypeOK
  <1> QED BY <1>1, <1>2, <1>3, <1>4, <1>5, <1>6, <1>7, <1>8, <1>9, <1>10, <1>11,
             <1>12, <1>13, <1>14, <1>15, <1>16, <1>17, <1>18, <1>19, <1>20, <1>21
        DEF Next, Loop, Outside, InStep, OutStep, PauseStep

-----------------------------------------------------------------------------
(* The turns of the loop and read_lock.                                     *)

LEMMA DueAfter ==
    ASSUME TypeOK, Turns, NEW T \in SUBSET Task, Adds(ready, ready', T),
           (cur' = cur /\ cur \notin T) \/ cur' = "loop"
    PROVE  /\ Turns'
           /\ \A d \in Task :
                 Due(d)' <=> (Due(d) /\ (cur' = "loop" => d # cur)) \/ d \in T
  <1>1. "loop" \notin Task
      BY PausesAreNamed DEF Task
  <1>2. \A d : Contains(ready, d) => d \in Task
      BY QueueOfTasks DEF TypeOK
  <1>3. /\ Unique(ready')
        /\ \A d : Contains(ready', d) <=> Contains(ready, d) \/ d \in T
      BY DEF Adds, Turns
  <1>4. ~Contains(ready', cur')
      BY <1>1, <1>2, <1>3 DEF Turns
  <1>5. \A d \in Task : Due(d)' <=> cur' = d \/ Contains(ready', d)
      BY DEF Due
  <1>6. \A d \in Task :
                 Due(d)' <=> (Due(d) /\ (cur' = "loop" => d # cur)) \/ d \in T
      <2>1. \A d \in Task : d # "loop"
          BY <1>1
      <2> QED BY <1>3, <1>5, <2>1 DEF Due, Turns
  <1> QED BY <1>3, <1>4, <1>6 DEF Turns

\* An action that wakes no one who waits for the lock, or who is cancelled.
LEMMA LockSame ==
    ASSUME TypeOK, Turns, Lock, NEW T \in SUBSET Task, Adds(ready, ready', T),
           (cur' = cur /\ cur \notin T) \/ cur' = "loop",
           UNCHANGED <<lock, waiters, inTask, pauseTask>>,
           "in" \in cancelled => "in" \in cancelled',
           \A d \in T : d \in PauseIds => d = lock,
           "in" \in T => inTask = "get" \/ "in" \in cancelled'
    PROVE  Turns' /\ Lock'
  <1>1. /\ Turns'
        /\ \A d \in Task :
              Due(d)' <=> (Due(d) /\ (cur' = "loop" => d # cur)) \/ d \in T
      BY DueAfter
  <1>2. {"in"} \cup PauseIds \subseteq Task
      BY DEF Task
  <1>3. ASSUME NEW w \in ({"in"} \cup PauseIds) \ cancelled',
               Contains(waiters, w), Due(w)'
        PROVE  lock = "free" /\ w = Head(waiters)
      <2>1. w \notin T
          BY <1>3, PausesAreNamed DEF Lock
      <2>2. Due(w)
          BY <1>1, <1>2, <1>3, <2>1
      <2>3. w \notin cancelled
          BY PausesAreNamed DEF TypeOK
      <2> QED BY <1>3, <2>2, <2>3 DEF Lock
  <1>4. ASSUME NEW p \in PauseIds, pauseTask[p] = "none"
        PROVE  ~Due(p)'
      BY <1>1, <1>2, <1>4 DEF Lock
  <1>5. /\ lock' = lock /\ waiters' = waiters
        /\ inTask' = inTask /\ pauseTask' = pauseTask
      OBVIOUS
  <1> QED BY <1>1, <1>3, <1>4, <1>5 DEF Lock

LEMMA TurnKeepsLock ==
    ASSUME TypeOK, Turns, Lock, Turn
    PROVE  /\ Turns' /\ Lock'
           /\ \A d \in Task : Due(d)' <=> Due(d)
  <1>1. /\ ready \in Seq(Task) /\ ready # <<>> /\ cur = "loop"
        /\ cur' = Head(ready) /\ ready' = Tail(ready)
      BY DEF Turn, TypeOK
  <1>2. /\ Contains(ready, cur') /\ Unique(ready') /\ ~Contains(ready', cur')
        /\ \A d : Contains(ready', d) <=> Contains(ready, d) /\ d # cur'
      BY <1>1, TailFacts DEF Turns
  <1>3. \A d \in Task : d # "loop"
      BY PausesAreNamed DEF Task
  <1>4. \A d \in Task : Due(d)' <=> Due(d)
      BY <1>1, <1>2, <1>3 DEF Due
  <1>5. Turns'
      BY <1>2 DEF Turns
  <1>6. /\ lock' = lock /\ waiters' = waiters /\ cancelled' = cancelled
        /\ inTask' = inTask /\ pauseTask' = pauseTask
      BY DEF Turn, lockVars, taskVars
  <1>7. {"in"} \cup PauseIds \subseteq Task
      BY DEF Task
  <1>8. Lock'
      BY <1>4, <1>6, <1>7 DEF Lock
  <1> QED BY <1>4, <1>5, <1>8

\* The holder releases the lock: who is first in line is woken, and no other
\* was.  W is who is woken for another reason.
LEMMA LockReleased ==
    ASSUME TypeOK, Turns, Lock, NEW W \in SUBSET Task,
           Adds(ready, ready', W \cup NextIn(waiters)),
           cur' = cur \/ cur' = "loop", cur # "loop", cur \notin W, ~Contains(waiters, cur),
           lock # "free", lock' = "free", waiters' = waiters,
           \A w \in W : ~Contains(waiters, w), cancelled' \cap PauseIds = {},
           "in" \in cancelled => "in" \in cancelled' \/ ~Contains(waiters, "in")
    PROVE  /\ Turns'
           /\ \A d \in Task : Due(d)' <=> (Due(d) /\ (cur' = "loop" => d # cur))
                                              \/ d \in W \cup NextIn(waiters)
           /\ \A w \in ({"in"} \cup PauseIds) \ cancelled' :
                 Contains(waiters, w) /\ Due(w)' => w = Head(waiters)
  <1>0. waiters \in Seq({"in"} \cup PauseIds) /\ {"in"} \cup PauseIds \subseteq Task
      BY DEF TypeOK, Task
  <1>1. NextIn(waiters) \subseteq Task /\ cur \notin NextIn(waiters)
      BY <1>0, TailFacts DEF NextIn
  <1>2. /\ Turns'
        /\ \A d \in Task : Due(d)' <=> (Due(d) /\ (cur' = "loop" => d # cur))
                                              \/ d \in W \cup NextIn(waiters)
      <2>1. W \cup NextIn(waiters) \in SUBSET Task /\ cur \notin W \cup NextIn(waiters)
          BY <1>1
      <2>2. (cur' = cur /\ cur \notin W \cup NextIn(waiters)) \/ cur' = "loop"
          BY <2>1
      <2> HIDE DEF NextIn
      <2> QED BY <2>1, <2>2, DueAfter
  <1>3. ASSUME NEW w \in ({"in"} \cup PauseIds) \ cancelled',
               Contains(waiters, w), Due(w)'
        PROVE  w = Head(waiters)
      <2>1. w \notin cancelled
          BY <1>3, PausesAreNamed DEF TypeOK
      <2>2. ~Due(w)
          BY <1>3, <2>1 DEF Lock
      <2>3. w \in NextIn(waiters)
          BY <1>0, <1>2, <1>3, <2>2
      <2> QED BY <2>3 DEF NextIn
  <1> QED BY <1>2, <1>3

LEMMA AcquireKeepsLock ==
    ASSUME TypeOK, Turns, Lock, InAcquire
    PROVE  Turns' /\ Lock'
  <1>0. /\ cur = "in" /\ inTask = "start" /\ "in" \notin cancelled
        /\ cancelled' = cancelled /\ pauseTask' = pauseTask
      BY DEF InAcquire, Runs
  <1>1. Adds(ready, ready', {})
      BY OtherWakes
  <1>2. cur' = cur \/ cur' = "loop"
      BY DEF InAcquire
  <1>3. /\ Turns'
        /\ \A d \in Task : Due(d)' <=> Due(d) /\ (cur' = "loop" => d # cur)
      BY <1>1, <1>2, DueAfter
  <1>4. {"in"} \cup PauseIds \subseteq Task /\ "in" \notin PauseIds
      BY PausesAreNamed DEF Task
  <1>5. CASE LockIsFree
      <2>1. lock' = "in" /\ inTask' = "get" /\ waiters' = waiters
          BY <1>5 DEF InAcquire
      <2>2. lock = "free" /\ \A d : ~Contains(waiters, d)
          BY <1>5 DEF LockIsFree, Contains
      <2>3. \A p \in PauseIds : p # "free" /\ p # "in"
          BY PausesAreNamed
      <2> QED BY <1>0, <1>3, <1>4, <2>1, <2>2, <2>3 DEF Lock
  <1>6. CASE ~LockIsFree
      <2>1. lock' = lock /\ inTask' = "lock" /\ cur' = "loop"
              /\ waiters' = Append(waiters, "in")
          BY <1>6 DEF InAcquire
      <2>2. /\ ~Contains(waiters, "in") /\ Unique(waiters')
            /\ \A d : Contains(waiters', d) <=> Contains(waiters, d) \/ d = "in"
            /\ waiters # <<>> => Head(waiters') = Head(waiters)
          BY <1>0, <2>1, JoinFacts DEF Lock, TypeOK
      <2>3. ~Due("in")'
          BY <1>0, <1>3, <1>4, <2>1
      <2>4. ASSUME NEW w \in ({"in"} \cup PauseIds) \ cancelled',
                   Contains(waiters', w), Due(w)'
            PROVE  lock = "free" /\ w = Head(waiters')
          <3>1. w # "in" /\ Contains(waiters, w) /\ Due(w)
              BY <1>3, <1>4, <2>2, <2>3, <2>4
          <3>2. lock = "free" /\ w = Head(waiters)
              BY <1>0, <2>4, <3>1 DEF Lock
          <3>3. waiters # <<>>
              BY <3>1 DEF Contains
          <3> QED BY <2>2, <3>2, <3>3
      <2> QED BY <1>0, <1>3, <1>4, <2>1, <2>2, <2>4 DEF Lock
  <1> QED BY <1>5, <1>6

LEMMA GrantedKeepsLock ==
    ASSUME TypeOK, Turns, Lock, InGranted
    PROVE  Turns' /\ Lock'
  <1>0. /\ cur = "in" /\ inTask = "lock" /\ "in" \notin cancelled /\ cur' = cur
        /\ cancelled' = cancelled /\ pauseTask' = pauseTask
        /\ lock' = "in" /\ inTask' = "get" /\ waiters' = Tail(waiters)
      BY DEF InGranted, Runs, loopVars
  <1>1. Adds(ready, ready', {})
      BY OtherWakes
  <1>2. /\ Turns'
        /\ \A d \in Task : Due(d)' <=> Due(d)
      BY <1>0, <1>1, DueAfter
  <1>3. {"in"} \cup PauseIds \subseteq Task /\ "in" \notin PauseIds
      BY PausesAreNamed DEF Task
  <1>4. Contains(waiters, "in") /\ lock = "free" /\ Head(waiters) = "in"
      BY <1>0 DEF Lock, Due
  <1>5. /\ Unique(waiters')
        /\ \A d : Contains(waiters', d) <=> Contains(waiters, d) /\ d # "in"
      <2>1. waiters # <<>> /\ waiters \in Seq({"in"} \cup PauseIds)
          BY <1>4 DEF Contains, TypeOK
      <2> QED BY <1>0, <1>4, <2>1, TailFacts DEF Lock
  <1>6. \A p \in PauseIds : p # "free" /\ p # "in"
      BY PausesAreNamed
  <1>7. ASSUME NEW w \in ({"in"} \cup PauseIds) \ cancelled', Contains(waiters', w)
        PROVE  ~Due(w)'
      <2>1. w \in Task /\ Contains(waiters, w) /\ w # Head(waiters) /\ w \notin cancelled
          BY <1>0, <1>3, <1>4, <1>5, <1>7
      <2> QED BY <1>2, <1>7, <2>1 DEF Lock
  <1> QED BY <1>0, <1>2, <1>3, <1>4, <1>5, <1>6, <1>7 DEF Lock

LEMMA DeliverKeepsLock ==
    ASSUME TypeOK, Turns, Lock, InDeliver
    PROVE  Turns' /\ Lock'
  <1>0. /\ cur = "in" /\ inTask = "get" /\ "in" \notin cancelled /\ cur' = cur
        /\ cancelled' = cancelled /\ waiters' = waiters
        /\ lock' = "free" /\ inTask' = "start"
      BY DEF InDeliver, Runs
  <1>1. {"in"} \cup PauseIds \subseteq Task /\ "in" \notin PauseIds
          /\ \A p \in PauseIds : p # "free"
      BY PausesAreNamed DEF Task
  <1>2. lock = "in" /\ ~Contains(waiters, "in")
      BY <1>0 DEF Lock
  <1>3. cancelled \cap PauseIds = {}
      BY PausesAreNamed DEF TypeOK
  <1>4. PICK W \in SUBSET PauseIds :
           /\ Adds(ready, ready', W \cup NextIn(waiters))
           /\ \A w \in W : pauseTask[w] = "none"
           /\ \/ W = {} /\ pauseTask' = pauseTask
              \/ \E p \in PauseIds : /\ W = {p}
                                     /\ pauseTask' = [pauseTask EXCEPT ![p] = "start"]
      <2>1. CASE Adds(ready, ready', NextIn(waiters)) /\ UNCHANGED <<paused, pauseTask>>
          <3>1. Adds(ready, ready', {} \cup NextIn(waiters))
              <4>1. {} \cup NextIn(waiters) = NextIn(waiters)
                  OBVIOUS
              <4> QED BY <2>1, <4>1
          <3> QED BY <2>1, <3>1
      <2>2. ASSUME NEW p \in PauseIds, pauseTask[p] = "none",
                   pauseTask' = [pauseTask EXCEPT ![p] = "start"],
                   Adds(ready, ready', {p} \cup NextIn(waiters))
            PROVE  \E W \in SUBSET PauseIds :
                      /\ Adds(ready, ready', W \cup NextIn(waiters))
                      /\ \A w \in W : pauseTask[w] = "none"
                      /\ \/ W = {} /\ pauseTask' = pauseTask
                         \/ \E q \in PauseIds :
                               /\ W = {q}
                               /\ pauseTask' = [pauseTask EXCEPT ![q] = "start"]
          <3> WITNESS {p} \in SUBSET PauseIds
          <3> QED BY <2>2
      <2> QED BY <2>1, <2>2, DeliverWakes
  <1>5. \A w \in W : ~Contains(waiters, w)
      BY <1>4 DEF Lock
  <1>6. /\ Turns'
        /\ \A d \in Task : Due(d)' <=> Due(d) \/ d \in W \cup NextIn(waiters)
        /\ \A w \in ({"in"} \cup PauseIds) \ cancelled' :
              Contains(waiters, w) /\ Due(w)' => w = Head(waiters)
      <2>1. W \in SUBSET Task /\ cur \notin W /\ cur # "loop" /\ lock # "free"
              /\ ~Contains(waiters, cur) /\ cancelled' \cap PauseIds = {}
          BY <1>0, <1>1, <1>2, <1>3
      <2>2. /\ Turns'
            /\ \A d \in Task : Due(d)' <=> (Due(d) /\ (cur' = "loop" => d # cur))
                                              \/ d \in W \cup NextIn(waiters)
            /\ \A w \in ({"in"} \cup PauseIds) \ cancelled' :
                 Contains(waiters, w) /\ Due(w)' => w = Head(waiters)
          BY <1>0, <1>4, <1>5, <2>1, LockReleased
      <2> QED BY <1>0, <2>2
  <1>7. \A p \in PauseIds : pauseTask'[p] # pauseTask[p] =>
           p \in W /\ pauseTask'[p] = "start"
      BY <1>4 DEF TypeOK
  <1>8. ASSUME NEW p \in PauseIds, pauseTask'[p] = "none"
        PROVE  ~Due(p)'
      <2>1. pauseTask[p] = "none" /\ p \notin W
          BY <1>4, <1>7, <1>8 DEF TypeOK
      <2>2. p \notin NextIn(waiters)
          <3>1. ~Contains(waiters, p)
              BY <2>1 DEF Lock
          <3> QED BY <3>1, TailFacts DEF NextIn, TypeOK
      <2> QED BY <1>1, <1>6, <2>1, <2>2 DEF Lock
  <1>9. ASSUME NEW p \in PauseIds
        PROVE  /\ pauseTask'[p] = "resume" <=> lock' = p
               /\ pauseTask'[p] = "lock" <=> Contains(waiters', p)
      <2>1. pauseTask[p] # "resume" /\ lock' # p
          BY <1>0, <1>1, <1>2 DEF Lock
      <2>2. CASE p \in W
          BY <1>0, <1>4, <1>5, <2>1, <2>2 DEF TypeOK
      <2>3. CASE p \notin W
          BY <1>0, <1>7, <2>1, <2>3 DEF Lock
      <2> QED BY <2>2, <2>3
  <1> QED BY <1>0, <1>1, <1>2, <1>6, <1>8, <1>9 DEF Lock

LEMMA EndKeepsLock ==
    ASSUME TypeOK, Turns, Lock, InEnd
    PROVE  Turns' /\ Lock'
  <1>0. /\ cur = "in" /\ inTask = "get" /\ cur' = "loop"
        /\ waiters' = waiters /\ pauseTask' = pauseTask
        /\ lock' = "free" /\ inTask' = "done"
      BY DEF InEnd, Runs
  <1>1. {"in"} \cup PauseIds \subseteq Task /\ "in" \notin PauseIds
          /\ \A p \in PauseIds : p # "free"
      BY PausesAreNamed DEF Task
  <1>2. lock = "in" /\ ~Contains(waiters, "in")
      BY <1>0 DEF Lock
  <1> DEFINE W == Victims("in")
  <1>3. W \subseteq {"out"}
      BY DEF Victims
  <1>4. Adds(ready, ready', W \cup NextIn(waiters))
      <2>1. NextIn(waiters) \cup W = W \cup NextIn(waiters)
          OBVIOUS
      <2> QED BY <2>1, EndWakes
  <1>5. cancelled' \cap PauseIds = {}
      BY <1>3, EndWakes, PausesAreNamed DEF TypeOK
  <1>6. \A w \in W : ~Contains(waiters, w)
      <2>1. waiters \in Seq({"in"} \cup PauseIds) /\ "out" \notin {"in"} \cup PauseIds
          BY PausesAreNamed DEF TypeOK
      <2>2. ~Contains(waiters, "out")
          BY <2>1, QueueOfTasks
      <2> QED BY <1>3, <2>2
  <1>7. /\ Turns'
        /\ \A d \in Task : Due(d)' <=> (Due(d) /\ (cur' = "loop" => d # cur))
                                          \/ d \in W \cup NextIn(waiters)
        /\ \A w \in ({"in"} \cup PauseIds) \ cancelled' :
              Contains(waiters, w) /\ Due(w)' => w = Head(waiters)
      <2>1. W \in SUBSET Task /\ cur \notin W /\ cur # "loop" /\ lock # "free"
              /\ ~Contains(waiters, cur)
          BY <1>0, <1>2, <1>3 DEF Task
      <2> HIDE DEF W
      <2> QED BY <1>0, <1>2, <1>4, <1>5, <1>6, <2>1, LockReleased
  <1>8. ASSUME NEW p \in PauseIds, pauseTask[p] = "none"
        PROVE  ~Due(p)'
      <2>1. p \notin NextIn(waiters)
          <3>1. ~Contains(waiters, p)
              BY <1>8 DEF Lock
          <3> QED BY <3>1, TailFacts DEF NextIn, TypeOK
      <2>2. p \notin W /\ p \in Task
          BY <1>1, <1>3, PausesAreNamed
      <2> HIDE DEF W
      <2> QED BY <1>7, <1>8, <2>1, <2>2 DEF Lock
  <1>9. \A p \in PauseIds : pauseTask[p] # "resume"
      BY <1>1, <1>2 DEF Lock
  <1> QED BY <1>0, <1>1, <1>2, <1>7, <1>8, <1>9 DEF Lock

LEMMA ExitKeepsLock ==
    ASSUME TypeOK, Turns, Lock, InExit
    PROVE  Turns' /\ Lock'
  <1>0. /\ cur = "in" /\ inTask = "start" /\ cur' = "loop" /\ inTask' = "done"
        /\ UNCHANGED <<lock, waiters, pauseTask>> /\ CloseConn("in", ready)
      BY DEF InExit, Runs, lockVars
  <1>1. {"in"} \cup PauseIds \subseteq Task /\ "in" \notin PauseIds /\ "out" \notin PauseIds
      BY PausesAreNamed DEF Task
  <1> DEFINE T == Victims("in")
  <1>2. T \subseteq {"out"} /\ T \in SUBSET Task
      BY DEF Victims, Task
  <1>3. /\ Adds(ready, ready', T)
        /\ cancelled' = (cancelled \cup T) \ {"in"}
      BY <1>0, OtherWakes
  <1>4. lock # "in" /\ ~Contains(waiters, "in")
      BY <1>0 DEF Lock
  <1> HIDE DEF T
  <1>5. /\ Turns'
        /\ \A d \in Task : Due(d)' <=> (Due(d) /\ (cur' = "loop" => d # cur)) \/ d \in T
      BY <1>0, <1>2, <1>3, DueAfter
  <1>6. \A p \in PauseIds : Due(p)' => Due(p)
      BY <1>1, <1>2, <1>5
  <1>7. \A p \in PauseIds : p \notin cancelled
      BY <1>1 DEF TypeOK
  <1> QED BY <1>0, <1>1, <1>4, <1>5, <1>6, <1>7 DEF Lock

LEMMA CancelledKeepsLock ==
    ASSUME TypeOK, Turns, Lock, InCancelled
    PROVE  Turns' /\ Lock'
  <1>0. /\ cur = "in" /\ inTask \in {"lock", "get"} /\ cur' = "loop"
        /\ waiters' = Others /\ pauseTask' = pauseTask
        /\ lock' = (IF inTask = "get" THEN "free" ELSE lock) /\ inTask' = "done"
      BY DEF InCancelled, Others
  <1>1. {"in"} \cup PauseIds \subseteq Task /\ "in" \notin PauseIds
          /\ "free" \notin PauseIds /\ "out" \notin PauseIds
      BY PausesAreNamed DEF Task
  <1> DEFINE N == IF lock' = "free" THEN NextIn(Others) ELSE {}
             T == N \cup Victims("in")
  <1>2. Victims("in") \subseteq {"out"}
      BY DEF Victims
  <1>3. /\ Others \in Seq({"in"} \cup PauseIds) /\ Unique(Others)
        /\ \A d : Contains(Others, d) <=> Contains(waiters, d) /\ d # "in"
        /\ waiters # <<>> /\ Head(waiters) # "in" =>
                 Others # <<>> /\ Head(Others) = Head(waiters)
      BY OthersFacts
  <1>4. Adds(ready, ready', T)
      BY CancelledWakes
  <1>5. \A d \in N : lock' = "free" /\ Contains(Others, d) /\ d = Head(Others)
      BY <1>3, TailFacts DEF NextIn
  <1>6. N \subseteq PauseIds
      BY <1>3, <1>5, QueueOfTasks
  <1> HIDE DEF N
  <1>7. T \in SUBSET Task
      BY <1>1, <1>2, <1>6 DEF Task
  <1>8. /\ Turns'
        /\ \A d \in Task : Due(d)' <=> (Due(d) /\ (cur' = "loop" => d # cur)) \/ d \in T
      <2> HIDE DEF T
      <2> QED BY <1>0, <1>4, <1>7, DueAfter
  <1>9. \A p \in PauseIds : p \notin Victims("in")
      BY <1>1, <1>2
  <1>10. ASSUME NEW w \in PauseIds, Contains(Others, w), Due(w)'
         PROVE  lock' = "free" /\ w = Head(Others)
      <2>1. CASE w \in N
          BY <1>5, <2>1
      <2>2. CASE w \notin N
          <3>1. Due(w) /\ Contains(waiters, w) /\ w # "in"
              BY <1>1, <1>3, <1>8, <1>9, <1>10, <2>2
          <3>2. w \notin cancelled
              BY PausesAreNamed DEF TypeOK
          <3>3. lock = "free" /\ w = Head(waiters) /\ waiters # <<>>
              <4>1. waiters # <<>>
                  BY <3>1 DEF Contains
              <4> QED BY <3>1, <3>2, <4>1 DEF Lock
          <3> QED BY <1>0, <1>3, <3>1, <3>3
      <2> QED BY <2>1, <2>2
  <1>11. ASSUME NEW p \in PauseIds, pauseTask[p] = "none"
         PROVE  ~Due(p)'
      <2>1. ~Contains(waiters, p) /\ ~Due(p)
          BY <1>11 DEF Lock
      <2>2. p \notin T /\ p \in Task
          BY <1>1, <1>3, <1>5, <1>9, <2>1
      <2> QED BY <1>8, <2>1, <2>2
  <1>12. ASSUME NEW p \in PauseIds
         PROVE  pauseTask[p] = "resume" <=> lock' = p
      BY <1>0, <1>1 DEF Lock
  <1>13. lock' # "in"
      BY <1>0 DEF Lock
  <1> HIDE DEF T
  <1> QED BY <1>0, <1>1, <1>3, <1>8, <1>10, <1>11, <1>12, <1>13 DEF Lock

LEMMA BeginKeepsLock ==
    ASSUME TypeOK, Turns, Lock, NEW p \in PauseIds, PauseBegin(p)
    PROVE  Turns' /\ Lock'
  <1>0. /\ cur = p /\ pauseTask[p] = "start" /\ cur' = "loop"
        /\ cancelled' = cancelled /\ inTask' = inTask
      BY DEF PauseBegin
  <1>1. {"in"} \cup PauseIds \subseteq Task /\ "in" \notin PauseIds
          /\ "free" \notin PauseIds /\ cancelled \cap PauseIds = {}
      BY PausesAreNamed DEF Task, TypeOK
  <1>2. Adds(ready, ready', {})
      BY OtherWakes
  <1>3. /\ Turns'
        /\ \A d \in Task : Due(d)' <=> Due(d) /\ d # p
      BY <1>0, <1>2, DueAfter
  <1>4. lock # p /\ ~Contains(waiters, p)
      BY <1>0 DEF Lock
  <1>5. CASE LockIsFree
      <2>1. lock' = p /\ waiters' = waiters
              /\ pauseTask' = [pauseTask EXCEPT ![p] = "resume"]
          BY <1>5 DEF PauseBegin
      <2>2. lock = "free" /\ \A d : ~Contains(waiters, d)
          BY <1>5 DEF LockIsFree, Contains
      <2>3. ASSUME NEW q \in PauseIds
            PROVE  /\ pauseTask'[q] = "resume" <=> lock' = q
                   /\ pauseTask'[q] = "lock" <=> Contains(waiters', q)
                   /\ pauseTask'[q] = "none" => ~Due(q)'
          <3>1. pauseTask'[q] = IF q = p THEN "resume" ELSE pauseTask[q]
              BY <2>1 DEF TypeOK
          <3> QED BY <1>1, <1>3, <2>1, <2>2, <3>1 DEF Lock
      <2>4. lock' # "in" /\ inTask # "get" /\ inTask # "lock"
          BY <1>1, <2>1, <2>2 DEF Lock
      <2> QED BY <1>0, <1>3, <2>1, <2>2, <2>3, <2>4 DEF Lock
  <1>6. CASE ~LockIsFree
      <2>1. lock' = lock /\ waiters' = Append(waiters, p)
              /\ pauseTask' = [pauseTask EXCEPT ![p] = "lock"]
          BY <1>6 DEF PauseBegin
      <2>2. /\ Unique(waiters')
            /\ \A d : Contains(waiters', d) <=> Contains(waiters, d) \/ d = p
            /\ waiters # <<>> => Head(waiters') = Head(waiters)
          BY <1>4, <2>1, JoinFacts DEF Lock, TypeOK
      <2>3. ASSUME NEW w \in ({"in"} \cup PauseIds) \ cancelled',
                   Contains(waiters', w), Due(w)'
            PROVE  lock = "free" /\ w = Head(waiters')
          <3>1. w # p /\ Contains(waiters, w) /\ Due(w)
              BY <1>1, <1>3, <2>2, <2>3
          <3>2. lock = "free" /\ w = Head(waiters)
              BY <1>0, <2>3, <3>1 DEF Lock
          <3>3. waiters # <<>>
              BY <3>1 DEF Contains
          <3> QED BY <2>2, <3>2, <3>3
      <2>4. ASSUME NEW q \in PauseIds
            PROVE  /\ pauseTask'[q] = "resume" <=> lock' = q
                   /\ pauseTask'[q] = "lock" <=> Contains(waiters', q)
                   /\ pauseTask'[q] = "none" => ~Due(q)'
          <3>1. pauseTask'[q] = IF q = p THEN "lock" ELSE pauseTask[q]
              BY <2>1 DEF TypeOK
          <3> QED BY <1>1, <1>3, <1>4, <2>1, <2>2, <3>1 DEF Lock
      <2>5. Contains(waiters', "in") <=> Contains(waiters, "in")
          BY <1>1, <2>2
      <2> QED BY <1>0, <1>3, <2>1, <2>2, <2>3, <2>4, <2>5 DEF Lock
  <1> QED BY <1>5, <1>6

LEMMA PauseGrantedKeepsLock ==
    ASSUME TypeOK, Turns, Lock, NEW p \in PauseIds, PauseGranted(p)
    PROVE  Turns' /\ Lock'
  <1>0. /\ cur = p /\ pauseTask[p] = "lock" /\ cur' = "loop"
        /\ cancelled' = cancelled /\ inTask' = inTask /\ waiters' = Tail(waiters)
      BY DEF PauseGranted
  <1>1. {"in"} \cup PauseIds \subseteq Task /\ "in" \notin PauseIds
          /\ "free" \notin PauseIds /\ cancelled \cap PauseIds = {}
      BY PausesAreNamed DEF Task, TypeOK
  <1>2. Contains(waiters, p) /\ lock = "free" /\ p = Head(waiters) /\ waiters # <<>>
      <2>1. Contains(waiters, p) /\ p \notin cancelled /\ Due(p)
          BY <1>0, <1>1 DEF Lock, Due
      <2>2. waiters # <<>>
          BY <2>1 DEF Contains
      <2> QED BY <2>1, <2>2 DEF Lock
  <1>3. /\ waiters' \in Seq({"in"} \cup PauseIds) /\ Unique(waiters')
        /\ \A d : Contains(waiters', d) <=> Contains(waiters, d) /\ d # p
      BY <1>0, <1>2, TailFacts DEF Lock, TypeOK
  <1> DEFINE T == IF read_resume THEN NextIn(waiters') ELSE {}
  <1>4. Adds(ready, ready', T)
      BY <1>0, GrantedWakes
  <1>5. \A d \in T : read_resume /\ Contains(waiters', d) /\ d = Head(waiters')
      BY <1>3, TailFacts DEF NextIn
  <1>6. T \subseteq {"in"} \cup PauseIds
      BY <1>3, <1>5, QueueOfTasks
  <1> HIDE DEF T
  <1>7. /\ Turns'
        /\ \A d \in Task : Due(d)' <=> (Due(d) /\ d # p) \/ d \in T
      <2>1. T \in SUBSET Task
          BY <1>1, <1>6
      <2>2. /\ Turns'
            /\ \A d \in Task : Due(d)' <=> (Due(d) /\ (cur' = "loop" => d # cur)) \/ d \in T
          BY <1>0, <1>4, <2>1, DueAfter
      <2> QED BY <1>0, <2>2
  <1>8. ASSUME NEW w \in ({"in"} \cup PauseIds) \ cancelled,
               Contains(waiters', w), Due(w)'
        PROVE  read_resume /\ w = Head(waiters')
      <2>1. Contains(waiters, w) /\ w # Head(waiters) /\ w \in Task
          BY <1>1, <1>2, <1>3, <1>8
      <2>2. ~Due(w)
          BY <1>8, <2>1 DEF Lock
      <2> QED BY <1>5, <1>7, <1>8, <2>1, <2>2
  <1>9. /\ read_resume => lock' = lock /\ pauseTask' = [pauseTask EXCEPT ![p] = "none"]
        /\ ~read_resume => lock' = p /\ pauseTask' = [pauseTask EXCEPT ![p] = "resume"]
      BY DEF PauseGranted
  <1>10. ASSUME NEW q \in PauseIds
         PROVE  /\ pauseTask'[q] = "resume" <=> lock' = q
                /\ pauseTask'[q] = "lock" <=> Contains(waiters', q)
                /\ pauseTask'[q] = "none" => ~Due(q)'
      <2>1. /\ q # p => pauseTask'[q] = pauseTask[q]
            /\ pauseTask'[p] = IF read_resume THEN "none" ELSE "resume"
          BY <1>9 DEF TypeOK
      <2>2. q \in Task /\ p \in Task
          BY <1>1
      <2>3. CASE q = p
          <3>1. p \notin T /\ ~Contains(waiters', p)
              BY <1>3, <1>5
          <3> QED BY <1>1, <1>2, <1>7, <1>9, <2>1, <2>2, <2>3, <3>1
      <2>4. CASE q # p
          <3>1. /\ pauseTask[q] # "resume" /\ lock' # q
              BY <1>1, <1>2, <1>9, <2>4 DEF Lock
          <3>2. pauseTask[q] = "lock" <=> Contains(waiters', q)
              BY <1>3, <2>4 DEF Lock
          <3>3. pauseTask[q] = "none" => ~Due(q) /\ q \notin T
              BY <1>5, <3>2 DEF Lock
          <3> QED BY <1>7, <2>1, <2>2, <2>4, <3>1, <3>2, <3>3
      <2> QED BY <2>3, <2>4
  <1>11. /\ inTask # "get" /\ lock' # "in"
         /\ inTask = "lock" <=> Contains(waiters', "in")
      BY <1>1, <1>2, <1>3, <1>9 DEF Lock
  <1> QED BY <1>0, <1>2, <1>3, <1>7, <1>8, <1>9, <1>10, <1>11 DEF Lock

LEMMA OverKeepsLock ==
    ASSUME TypeOK, Turns, Lock, NEW p \in PauseIds, PauseOver(p)
    PROVE  Turns' /\ Lock'
  <1>0. /\ cur = p /\ pauseTask[p] = "resume" /\ cur' = "loop"
        /\ cancelled' = cancelled /\ inTask' = inTask /\ waiters' = waiters
        /\ lock' = "free" /\ pauseTask' = [pauseTask EXCEPT ![p] = "none"]
      BY DEF PauseOver
  <1>1. {"in"} \cup PauseIds \subseteq Task /\ "in" \notin PauseIds /\ p # "loop"
          /\ "free" \notin PauseIds /\ cancelled \cap PauseIds = {}
      BY PausesAreNamed DEF Task, TypeOK
  <1>2. lock = p /\ ~Contains(waiters, p)
      BY <1>0 DEF Lock
  <1> DEFINE W == {}
  <1>3. /\ Turns'
        /\ \A d \in Task : Due(d)' <=> (Due(d) /\ (cur' = "loop" => d # cur))
                                          \/ d \in W \cup NextIn(waiters)
        /\ \A w \in ({"in"} \cup PauseIds) \ cancelled' :
              Contains(waiters, w) /\ Due(w)' => w = Head(waiters)
      <2>1. Adds(ready, ready', W \cup NextIn(waiters))
          <3>1. W \cup NextIn(waiters) = NextIn(waiters)
              OBVIOUS
          <3> QED BY <3>1, OtherWakes
      <2>2. W \in SUBSET Task /\ cur \notin W /\ cur # "loop" /\ lock # "free"
              /\ ~Contains(waiters, cur) /\ cancelled' \cap PauseIds = {}
              /\ \A w \in W : ~Contains(waiters, w)
          BY <1>0, <1>1, <1>2
      <2> HIDE DEF W
      <2> QED BY <1>0, <2>1, <2>2, LockReleased
  <1>4. \A d \in Task : Due(d)' <=> (Due(d) /\ d # p) \/ d \in NextIn(waiters)
      BY <1>0, <1>3
  <1>5. ASSUME NEW q \in PauseIds
        PROVE  /\ pauseTask'[q] = "resume" <=> lock' = q
               /\ pauseTask'[q] = "lock" <=> Contains(waiters', q)
               /\ pauseTask'[q] = "none" => ~Due(q)'
      <2>1. pauseTask'[q] = IF q = p THEN "none" ELSE pauseTask[q]
          BY <1>0 DEF TypeOK
      <2>2. pauseTask[q] = "resume" => q = p
          BY <1>2 DEF Lock
      <2>3. ~Contains(waiters, q) => q \notin NextIn(waiters)
          BY TailFacts DEF NextIn, TypeOK
      <2>4. q \in Task /\ lock' # q
          BY <1>0, <1>1
      <2>5. CASE q = p
          BY <1>0, <1>2, <1>4, <2>1, <2>3, <2>4, <2>5
      <2>6. CASE q # p
          <3>1. pauseTask[q] = "none" => ~Due(q) /\ ~Contains(waiters, q)
              BY DEF Lock
          <3> QED BY <1>0, <1>4, <2>1, <2>2, <2>3, <2>4, <2>6, <3>1 DEF Lock
      <2> QED BY <2>5, <2>6
  <1>6. inTask # "get" /\ lock' # "in"
      BY <1>0, <1>1, <1>2 DEF Lock
  <1> HIDE DEF W
  <1> QED BY <1>0, <1>3, <1>5, <1>6 DEF Lock

LEMMA OthersKeepLock ==
    ASSUME TypeOK, Turns, Lock, Writer,
           \/ InWait \/ OutStep \/ CloseRun \/ Outside
    PROVE  Turns' /\ Lock'
  <1>0. /\ \A self : Victims(self) \subseteq {"in", "out"} /\ self \notin Victims(self)
        /\ "in" \in Task /\ "out" \in Task /\ "close" \in Task /\ "loop" \notin Task
        /\ PauseIds \subseteq Task /\ {} \in SUBSET Task
        /\ \A p \in PauseIds : p \notin {"in", "out", "close", "free"}
      BY PausesAreNamed DEF Victims, Task
  <1>1. CASE InWait \/ OutSend \/ OutWait \/ OutKilled
      <2>1. Adds(ready, ready', {})
          BY <1>1, OtherWakes
      <2>2. /\ cur' = cur \/ cur' = "loop"
            /\ UNCHANGED <<lock, waiters, inTask, pauseTask>>
            /\ "in" \in cancelled => "in" \in cancelled'
          BY <1>1 DEF InWait, OutSend, OutWait, OutKilled, loopVars, taskVars, lockVars
      <2> QED BY <1>0, <2>1, <2>2, LockSame
  <1>2. CASE OutEnd \/ OutExit \/ OutCancelled \/ CloseRun
      <2>1. PICK self \in {"out", "close"} : CloseConn(self, ready)
          BY <1>2 DEF OutEnd, OutExit, OutCancelled, OutFinally, CloseRun
      <2>2. /\ cur' = "loop" /\ UNCHANGED <<lock, waiters, inTask, pauseTask>>
          BY <1>2 DEF OutEnd, OutExit, OutCancelled, OutFinally, CloseRun, lockVars
      <2>3. /\ Adds(ready, ready', Victims(self))
            /\ cancelled' = (cancelled \cup Victims(self)) \ {self}
          BY <2>1, OtherWakes
      <2>4. /\ "in" \in cancelled => "in" \in cancelled'
            /\ "in" \in Victims(self) => "in" \in cancelled'
            /\ \A d \in Victims(self) : d \notin PauseIds
            /\ Victims(self) \in SUBSET Task
          BY <1>0, <2>3
      <2> QED BY <2>2, <2>3, <2>4, LockSame
  <1>3. CASE Arrive \/ RemoteEnd
      <2> DEFINE T == IF inTask = "get" THEN {"in"} ELSE {}
      <2>1. /\ cur' = cur /\ cur = "loop" /\ cancelled' = cancelled
            /\ UNCHANGED <<lock, waiters, inTask, pauseTask>>
          BY <1>3 DEF Arrive, RemoteEnd, taskVars, lockVars
      <2>2. Adds(ready, ready', T)
          BY <1>3, OtherWakes
      <2>3. /\ T \in SUBSET Task /\ cur \notin T /\ \A d \in T : d \notin PauseIds
            /\ "in" \in T => inTask = "get"
          BY <1>0, <2>1
      <2> HIDE DEF T
      <2> QED BY <2>1, <2>2, <2>3, LockSame
  <1>4. ASSUME NEW item, Put(item), cur = "loop"
        PROVE  Turns' /\ Lock'
      <2> DEFINE T == IF outTask = "get" THEN {"out"} ELSE {}
      <2>1. /\ cur' = cur /\ cancelled' = cancelled
            /\ UNCHANGED <<lock, waiters, inTask, pauseTask>>
          BY <1>4 DEF Put, taskVars, lockVars
      <2>2. Adds(ready, ready', T)
          BY <1>4, OtherWakes
      <2>3. /\ T \in SUBSET Task /\ cur \notin T /\ \A d \in T : d \notin PauseIds
            /\ "in" \notin T
          BY <1>0, <1>4
      <2> HIDE DEF T
      <2> QED BY <2>1, <2>2, <2>3, LockSame
  <1>5. CASE Close
      <2>1. /\ cur' = cur /\ cur = "loop" /\ cancelled' = cancelled
            /\ UNCHANGED <<lock, waiters, inTask, pauseTask>>
          BY <1>5 DEF Close, lockVars
      <2>2. Adds(ready, ready', {"close"})
          <3>1. ~Contains(ready, "close")
              BY <1>5 DEF Close, Writer, Due
          <3> QED BY <1>5, <3>1, OtherWakes
      <2>3. /\ {"close"} \in SUBSET Task /\ cur \notin {"close"}
            /\ \A d \in {"close"} : d \notin PauseIds
          BY <1>0, <2>1
      <2> QED BY <2>1, <2>2, <2>3, LockSame
  <1>6. CASE Resume
      <2> DEFINE T == IF lock \in PauseIds THEN {lock} ELSE {}
      <2>1. /\ cur' = cur /\ cur = "loop" /\ cancelled' = cancelled
            /\ UNCHANGED <<lock, waiters, inTask, pauseTask>>
          BY <1>6 DEF Resume, taskVars
      <2>2. Adds(ready, ready', T)
          BY <1>6, OtherWakes
      <2>3. /\ T \in SUBSET Task /\ cur \notin T /\ \A d \in T : d = lock
            /\ "in" \notin T
          BY <1>0, <2>1
      <2> HIDE DEF T
      <2> QED BY <2>1, <2>2, <2>3, LockSame
  <1>7. CASE WsLost
      <2>1. /\ cur' = cur /\ cancelled' = cancelled /\ ready' = ready
            /\ UNCHANGED <<lock, waiters, inTask, pauseTask>>
          BY <1>7 DEF WsLost, loopVars, taskVars, lockVars
      <2>2. Adds(ready, ready', {})
          BY <2>1, AddsNone DEF TypeOK
      <2> QED BY <1>0, <2>1, <2>2, LockSame
  <1> QED BY <1>1, <1>2, <1>3, <1>4, <1>5, <1>6, <1>7 DEF OutStep, Outside, Write, WriteEof

LEMMA LockStep ==
    ASSUME TypeOK, Turns, Lock, Writer, Next
    PROVE  Turns' /\ Lock'
  BY TurnKeepsLock, AcquireKeepsLock, GrantedKeepsLock, DeliverKeepsLock, EndKeepsLock,
     ExitKeepsLock, CancelledKeepsLock, BeginKeepsLock, PauseGrantedKeepsLock, OverKeepsLock,
     OthersKeepLock
  DEF Next, Loop, InStep, PauseStep

-----------------------------------------------------------------------------
(* The writing task and the task of close().                                *)

LEMMA AheadFacts ==
    ASSUME NEW r \in Seq(Task)
    PROVE  /\ Contains(r, "out") /\ ~Contains(r, "close") => Ahead(r)
           /\ Ahead(r) => /\ r # <<>> /\ Head(r) # "close"
                          /\ Head(r) = "out" \/ Ahead(Tail(r))
  <1>0. /\ Len(r) \in Nat
        /\ r # <<>> => /\ Head(r) = r[1] /\ Len(Tail(r)) = Len(r) - 1
                       /\ \A i \in 1..(Len(r) - 1) : Tail(r)[i] = r[i + 1]
        /\ Len(r) > 0 => r # <<>>
      OBVIOUS
  <1>1. Contains(r, "out") /\ ~Contains(r, "close") => Ahead(r)
      BY <1>0 DEF Contains, Ahead
  <1>2. ASSUME Ahead(r)
        PROVE  /\ r # <<>> /\ Head(r) # "close"
               /\ Head(r) = "out" \/ Ahead(Tail(r))
      <2>1. PICK i \in 1..Len(r) : r[i] = "out" /\ \A j \in 1..i : r[j] # "close"
          BY <1>2 DEF Ahead
      <2>2. r # <<>> /\ Head(r) = r[1] /\ r[1] # "close" /\ i \in Nat /\ 1 \in 1..i
          BY <1>0, <2>1
      <2>3. CASE i = 1
          BY <2>1, <2>2, <2>3
      <2>4. CASE i # 1
          <3>1. /\ i - 1 \in 1..Len(Tail(r)) /\ Tail(r)[i - 1] = r[(i - 1) + 1]
                /\ (i - 1) + 1 = i
              BY <1>0, <2>1, <2>2, <2>4
          <3>2. ASSUME NEW j \in 1..(i - 1)
                PROVE  Tail(r)[j] # "close"
              <4>1. j + 1 \in 1..i /\ j \in 1..(Len(r) - 1)
                  BY <1>0, <2>1
              <4>2. Tail(r)[j] = r[j + 1]
                  BY <1>0, <2>2, <4>1
              <4> QED BY <2>1, <4>1, <4>2
          <3>3. Tail(r)[i - 1] = "out"
              BY <2>1, <3>1
          <3>4. Ahead(Tail(r))
              BY <3>1, <3>2, <3>3 DEF Ahead
          <3> QED BY <2>2, <3>4
      <2> QED BY <2>3, <2>4
  <1> QED BY <1>1, <1>2

\* An action that has no part in either.
LEMMA WriterSame ==
    ASSUME TypeOK, Turns, Writer, NEW T \in SUBSET Task, Adds(ready, ready', T),
           (cur' = cur /\ cur \notin T) \/ cur' = "loop", cur \notin {"out", "close"},
           "close" \notin T,
           UNCHANGED <<cancelled, outTask, closeTask, out_q, disconnected_evt>>
    PROVE  Writer'
  <1>1. \A d \in Task : Due(d)' <=> (Due(d) /\ (cur' = "loop" => d # cur)) \/ d \in T
      BY DueAfter
  <1>2. "close" \in Task
      BY DEF Task
  <1>3. Due("close")' => closeTask' = "start"
      BY <1>1, <1>2 DEF Writer
  <1>4. Ahead(ready) => Ahead(ready')
      BY DEF Adds
  <1>5. cur' # "close"
      OBVIOUS
  <1> QED BY <1>3, <1>4, <1>5 DEF Writer

\* An action that ends the connection.
LEMMA WriterEnded ==
    ASSUME TypeOK, Turns, Writer, NEW T \in SUBSET Task, Adds(ready, ready', T),
           cur' = "loop", "close" \notin T, disconnected_evt',
           closeTask' = closeTask \/ cur = "close"
    PROVE  Writer'
  <1>1. \A d \in Task : Due(d)' <=> (Due(d) /\ (cur' = "loop" => d # cur)) \/ d \in T
      BY DueAfter
  <1>2. "close" \in Task
      BY DEF Task
  <1>3. Due("close")' => closeTask' = "start"
      BY <1>1, <1>2 DEF Writer
  <1> QED BY <1>3 DEF Writer

LEMMA WriterStep ==
    ASSUME TypeOK, Turns, Lock, Writer, Next
    PROVE  Writer'
  <1>0. /\ ready \in Seq(Task) /\ waiters \in Seq({"in"} \cup PauseIds)
        /\ "in" \in Task /\ "out" \in Task /\ "close" \in Task /\ "loop" \notin Task
        /\ PauseIds \subseteq Task /\ {} \in SUBSET Task
        /\ \A p \in PauseIds : p \notin {"in", "out", "close", "free"}
      BY PausesAreNamed DEF Task, TypeOK
  <1>a. \A ws \in Seq({"in"} \cup PauseIds) : NextIn(ws) \subseteq {"in"} \cup PauseIds
      BY TailFacts DEF NextIn
  <1>b. \A self : Victims(self) \subseteq {"in", "out"}
      BY DEF Victims
  <1>1. CASE Turn
      <2>1. /\ cur = "loop" /\ ready # <<>> /\ cur' = Head(ready) /\ ready' = Tail(ready)
            /\ UNCHANGED <<cancelled, outTask, closeTask, out_q, disconnected_evt>>
          BY <1>1 DEF Turn, taskVars, outVars
      <2>2. Due("close")' <=> Due("close")
          BY <1>0, <1>1, TurnKeepsLock
      <2>3. Ahead(ready) => cur' # "close" /\ (cur' = "out" \/ Ahead(ready'))
          BY <1>0, <2>1, AheadFacts
      <2> QED BY <2>1, <2>2, <2>3 DEF Writer
  <1>2. CASE InAcquire \/ InGranted \/ InWait
      <2>1. Adds(ready, ready', {})
          BY <1>2, OtherWakes
      <2>2. /\ cur' = cur \/ cur' = "loop"
            /\ cur = "in" /\ UNCHANGED <<cancelled, outTask, closeTask, out_q, disconnected_evt>>
          BY <1>2 DEF InAcquire, InGranted, InWait, Runs, loopVars, taskVars, outVars
      <2> QED BY <1>0, <2>1, <2>2, WriterSame
  <1>3. CASE InDeliver
      <2>1. PICK W \in SUBSET PauseIds : Adds(ready, ready', W \cup NextIn(waiters))
          <3>1. CASE Adds(ready, ready', NextIn(waiters))
              <4>1. {} \cup NextIn(waiters) = NextIn(waiters) /\ {} \in SUBSET PauseIds
                  OBVIOUS
              <4>2. Adds(ready, ready', {} \cup NextIn(waiters))
                  BY <3>1, <4>1
              <4> QED BY <4>1, <4>2
          <3>2. ASSUME NEW p \in PauseIds, Adds(ready, ready', {p} \cup NextIn(waiters))
                PROVE  \E W \in SUBSET PauseIds : Adds(ready, ready', W \cup NextIn(waiters))
              <4> WITNESS {p} \in SUBSET PauseIds
              <4> QED BY <3>2
          <3> QED BY <1>3, <3>1, <3>2, DeliverWakes
      <2>2. /\ cur' = "in" /\ cur = "in" /\ inTask = "get"
            /\ UNCHANGED <<cancelled, outTask, closeTask, out_q, disconnected_evt>>
          BY <1>3 DEF InDeliver, Runs, outVars
      <2>3. "in" \notin NextIn(waiters)
          <3>1. ~Contains(waiters, "in")
              BY <2>2 DEF Lock
          <3> QED BY <1>0, <3>1, TailFacts DEF NextIn
      <2>4. /\ W \cup NextIn(waiters) \in SUBSET Task
            /\ "in" \notin W \cup NextIn(waiters) /\ "close" \notin W \cup NextIn(waiters)
          BY <1>0, <1>a, <2>3
      <2> HIDE DEF NextIn
      <2> QED BY <2>1, <2>2, <2>4, WriterSame
  <1>4. CASE InEnd
      <2>1. /\ NextIn(waiters) \cup Victims("in") \in SUBSET Task
            /\ "close" \notin NextIn(waiters) \cup Victims("in")
          BY <1>0, <1>a, <1>b
      <2>2. cur' = "loop" /\ closeTask' = closeTask
          BY <1>4 DEF InEnd
      <2> QED BY <1>4, <2>1, <2>2, EndWakes, WriterEnded
  <1>14. CASE InExit
      <2>1. CloseConn("in", ready) /\ cur' = "loop" /\ closeTask' = closeTask
          BY <1>14 DEF InExit
      <2>2. Adds(ready, ready', Victims("in")) /\ disconnected_evt'
          BY <2>1, OtherWakes
      <2>3. Victims("in") \in SUBSET Task /\ "close" \notin Victims("in")
          BY <1>0, <1>b
      <2> QED BY <2>1, <2>2, <2>3, WriterEnded
  <1>15. CASE WsLost
      <2>1. /\ UNCHANGED <<cur, ready, closeTask>> /\ disconnected_evt' = TRUE
          BY <1>15 DEF WsLost, loopVars, taskVars
      <2> QED BY <2>1 DEF Writer, Due
  <1>5. CASE InCancelled
      <2> DEFINE T == (IF lock' = "free" THEN NextIn(Others) ELSE {}) \cup Victims("in")
      <2>1. NextIn(Others) \subseteq {"in"} \cup PauseIds
          BY <1>a, OthersFacts
      <2>2. T \in SUBSET Task /\ "close" \notin T
          BY <1>0, <1>b, <2>1
      <2>3. cur' = "loop" /\ closeTask' = closeTask
          BY <1>5 DEF InCancelled
      <2>4. Adds(ready, ready', T) /\ disconnected_evt'
          BY <1>5, CancelledWakes
      <2> HIDE DEF T
      <2> QED BY <2>2, <2>3, <2>4, WriterEnded
  <1>6. CASE OutSend
      <2>1. /\ cur = "out" /\ cur' = cur /\ ready' = ready /\ outTask' = "get"
            /\ UNCHANGED <<cancelled, closeTask, disconnected_evt>>
          BY <1>6 DEF OutSend, Runs, loopVars
      <2> QED BY <2>1 DEF Writer, Due
  <1>7. CASE OutWait
      <2>1. /\ cur = "out" /\ cur' = "loop" /\ ready' = ready /\ outTask' = "get"
            /\ out_q = <<>> /\ UNCHANGED <<cancelled, closeTask, disconnected_evt, out_q>>
          BY <1>7 DEF OutWait, Runs, outVars
      <2> QED BY <2>1 DEF Writer, Due
  <1>8. CASE OutEnd \/ OutExit \/ OutCancelled \/ CloseRun
      <2>1. PICK self \in {"out", "close"} : CloseConn(self, ready)
          BY <1>8 DEF OutEnd, OutExit, OutCancelled, OutFinally, CloseRun
      <2>2. cur' = "loop" /\ (closeTask' = closeTask \/ cur = "close")
          BY <1>8 DEF OutEnd, OutExit, OutCancelled, OutFinally, CloseRun
      <2>3. Adds(ready, ready', Victims(self)) /\ disconnected_evt'
          BY <2>1, OtherWakes
      <2>4. Victims(self) \in SUBSET Task /\ "close" \notin Victims(self)
          BY <1>0, <1>b
      <2> QED BY <2>2, <2>3, <2>4, WriterEnded
  <1>9. CASE OutKilled
      <2>1. /\ cur = "out" /\ cur' = "loop" /\ ready' = ready /\ "out" \in cancelled
            /\ UNCHANGED <<closeTask, disconnected_evt>>
          BY <1>9 DEF OutKilled
      <2> QED BY <2>1 DEF Writer, Due
  <1>10. ASSUME NEW p \in PauseIds, PauseBegin(p) \/ PauseGranted(p) \/ PauseOver(p)
         PROVE  Writer'
      <2>1. /\ cur = p /\ cur' = "loop"
            /\ UNCHANGED <<cancelled, outTask, closeTask, out_q, disconnected_evt>>
          BY <1>10 DEF PauseBegin, PauseGranted, PauseOver, outVars
      <2>2. \E ws \in Seq({"in"} \cup PauseIds) :
               Adds(ready, ready', NextIn(ws)) \/ Adds(ready, ready', {})
          <3>1. PauseGranted(p) => Tail(waiters) \in Seq({"in"} \cup PauseIds)
              BY <1>0, GrantedWakes
          <3>2. CASE PauseGranted(p)
              BY <3>1, <3>2, GrantedWakes
          <3>3. CASE PauseBegin(p) \/ PauseOver(p)
              BY <1>0, <3>3, OtherWakes
          <3> QED BY <1>10, <3>2, <3>3
      <2>3. PICK T \in SUBSET ({"in"} \cup PauseIds) : Adds(ready, ready', T)
          BY <1>a, <2>2
      <2>4. T \in SUBSET Task /\ "close" \notin T /\ cur \notin {"out", "close"}
          BY <1>0, <2>1
      <2> QED BY <2>1, <2>3, <2>4, WriterSame
  <1>11. CASE Arrive \/ RemoteEnd \/ Resume
      <2>1. /\ cur = "loop" /\ cur' = cur
            /\ UNCHANGED <<cancelled, outTask, closeTask, out_q, disconnected_evt>>
          BY <1>11 DEF Arrive, RemoteEnd, Resume, taskVars, outVars
      <2>2. PICK T \in SUBSET ({"in"} \cup PauseIds) : Adds(ready, ready', T)
          <3>1. CASE Arrive \/ RemoteEnd
              <4>1. (IF inTask = "get" THEN {"in"} ELSE {}) \in SUBSET ({"in"} \cup PauseIds)
                  OBVIOUS
              <4> QED BY <3>1, <4>1, OtherWakes
          <3>2. CASE Resume
              <4>1. (IF lock \in PauseIds THEN {lock} ELSE {}) \in SUBSET ({"in"} \cup PauseIds)
                  OBVIOUS
              <4> QED BY <3>2, <4>1, OtherWakes
          <3> QED BY <1>11, <3>1, <3>2
      <2>3. T \in SUBSET Task /\ "close" \notin T /\ cur \notin T
          BY <1>0, <2>1
      <2> QED BY <2>1, <2>2, <2>3, WriterSame
  <1>12. CASE Write \/ WriteEof
      <2> DEFINE T == IF outTask = "get" THEN {"out"} ELSE {}
      <2>1. PICK item : Put(item)
          BY <1>12 DEF Write, WriteEof
      <2>2. /\ cur = "loop" /\ closeTask = "none" /\ cur' = cur
            /\ UNCHANGED <<cancelled, outTask, closeTask, disconnected_evt>>
          BY <1>12, <2>1 DEF Write, WriteEof, Put, taskVars
      <2>3. Adds(ready, ready', T)
          BY <2>1, OtherWakes
      <2>4. "close" \notin T /\ ~Contains(ready, "close")
          BY <2>2 DEF Writer, Due
      <2>5. ready' \in Seq(Task) /\ ~Contains(ready', "close")
          BY <2>3, <2>4 DEF Adds
      <2>6. ASSUME ~disconnected_evt PROVE Ahead(ready')
          <3>1. CASE outTask = "start"
              <4>1. Ahead(ready)
                  BY <2>2, <2>6, <3>1 DEF Writer
              <4> QED BY <2>3, <4>1 DEF Adds
          <3>2. CASE outTask = "get"
              <4>1. Contains(ready', "out")
                  BY <2>3, <3>2 DEF Adds
              <4> QED BY <2>5, <4>1, AheadFacts
          <3> QED BY <2>6, <3>1, <3>2 DEF Writer, TypeOK
      <2> QED BY <2>2, <2>5, <2>6 DEF Writer, Due
  <1>13. CASE Close
      <2>1. /\ cur = "loop" /\ cur' = cur /\ closeTask' = "start"
            /\ UNCHANGED <<cancelled, outTask, out_q, disconnected_evt>>
          BY <1>13 DEF Close, outVars
      <2>2. Adds(ready, ready', {"close"})
          <3>1. ~Contains(ready, "close")
              BY <1>13 DEF Close, Writer, Due
          <3> QED BY <1>13, <3>1, OtherWakes
      <2>3. Ahead(ready) => Ahead(ready')
          BY <2>2 DEF Adds
      <2> QED BY <2>1, <2>3 DEF Writer
  <1> QED BY <1>1, <1>2, <1>3, <1>4, <1>5, <1>6, <1>7, <1>8, <1>9, <1>10, <1>11,
             <1>12, <1>13, <1>14, <1>15
        DEF Next, Loop, Outside, InStep, OutStep, PauseStep

-----------------------------------------------------------------------------
(* What the agent sends.                                                    *)

LEMMA FlowSame ==
    ASSUME Flow, UNCHANGED <<internal_in_q, arrived, remote, delivered>>
    PROVE  Flow'
  BY DEF Flow

LEMMA InDeliverFlow ==
    ASSUME TypeOK, Flow, InDeliver
    PROVE  /\ Flow'
           /\ Head(internal_in_q) = Len(delivered) + 1
           /\ Len(delivered) + 1 <= arrived
  <1>1. /\ internal_in_q \in Seq(Nat) /\ internal_in_q # <<>> /\ delivered \in Seq(Nat)
        /\ Head(internal_in_q) # 0 /\ arrived \in Nat /\ remote \in {"open", "ended", "gone"}
        /\ internal_in_q' = Tail(internal_in_q)
        /\ delivered' = Append(delivered, Head(internal_in_q))
        /\ arrived' = arrived /\ remote' = remote
      BY DEF InDeliver, TypeOK, OkItem
  <1> DEFINE q == internal_in_q
             r == Tail(internal_in_q)
             n == Len(delivered)
             end == IF remote = "ended" THEN 1 ELSE 0
  <1>2. /\ Len(q) \in Nat /\ Len(q) > 0 /\ Head(q) = q[1] /\ Len(r) = Len(q) - 1
        /\ \A i \in 1..(Len(q) - 1) : r[i] = q[i + 1]
        /\ n \in Nat /\ r \in Seq(Nat)
      BY <1>1
  <1>3. /\ n <= arrived /\ \A i \in 1..n : delivered[i] = i
        /\ \A i \in 1..Len(q) : q[i] = IF remote = "ended" /\ i = Len(q) THEN 0 ELSE n + i
        /\ n + Len(q) = arrived + end
      BY <1>1 DEF Flow, OkItem
  <1>5. end \in {0, 1} /\ (end = 1 <=> remote = "ended")
      OBVIOUS
  <1>a. /\ Len(delivered') = n + 1 /\ delivered'[n + 1] = Head(q)
        /\ \A i \in 1..n : delivered'[i] = delivered[i]
      BY <1>1
  <1>b. Head(q) # 0 /\ arrived \in Nat
      BY <1>1
  <1> HIDE DEF q, r, n, end
  <1>4. q[1] = n + 1 /\ ~(remote = "ended" /\ Len(q) = 1)
      <2>1. 1 \in 1..Len(q) /\ q[1] # 0
          BY <1>2, <1>b
      <2> QED BY <1>3, <2>1
  <1>6. n + 1 <= arrived
      BY <1>2, <1>3, <1>4, <1>5, <1>b
  <1>7. \A i \in 1..(n + 1) : delivered'[i] = i
      BY <1>2, <1>3, <1>4, <1>a
  <1>8. \A i \in 1..Len(r) :
           r[i] = IF remote = "ended" /\ i = Len(r) THEN 0 ELSE (n + 1) + i
      <2> SUFFICES ASSUME NEW i \in 1..Len(r)
                   PROVE  r[i] = IF remote = "ended" /\ i = Len(r) THEN 0 ELSE (n + 1) + i
          OBVIOUS
      <2>1. i + 1 \in 1..Len(q) /\ r[i] = q[i + 1] /\ (i + 1 = Len(q) <=> i = Len(r))
            /\ n + (i + 1) = (n + 1) + i
          BY <1>2
      <2> QED BY <1>3, <2>1
  <1>9. (n + 1) + Len(r) = arrived + end
      <2>1. Len(r) = Len(q) - 1 /\ n + Len(q) = arrived + end
          BY <1>2, <1>3
      <2>2. Len(q) \in Nat /\ n \in Nat /\ arrived \in Nat /\ end \in Nat
          BY <1>2, <1>5, <1>b
      <2> HIDE DEF q, r, n, end
      <2> QED BY <2>1, <2>2
  <1> QED BY <1>1, <1>2, <1>4, <1>6, <1>7, <1>8, <1>9, <1>a DEF Flow, OkItem, q, r, n, end

LEMMA FlowStep ==
    ASSUME TypeOK, Flow, Next
    PROVE  Flow'
  <1>1. CASE InDeliver
      BY <1>1, InDeliverFlow
  <1>2. CASE InEnd
      <2>1. /\ internal_in_q \in Seq(Nat) /\ internal_in_q # <<>> /\ delivered \in Seq(Nat)
            /\ internal_in_q[1] = 0 /\ arrived \in Nat
            /\ internal_in_q' = Tail(internal_in_q)
            /\ UNCHANGED <<delivered, arrived, remote>>
          BY <1>2 DEF InEnd, TypeOK, OkItem
      <2>a. Len(internal_in_q) \in Nat /\ 1 \in 1..Len(internal_in_q) /\ Len(delivered) \in Nat
          BY <2>1
      <2>2. remote = "ended" /\ Len(internal_in_q) = 1
          <3>1. internal_in_q[1] = IF remote = "ended" /\ 1 = Len(internal_in_q)
                                   THEN 0 ELSE Len(delivered) + 1
              BY <2>a DEF Flow, OkItem
          <3> QED BY <2>1, <2>a, <3>1
      <2>3. internal_in_q' = <<>>
          <3>1. Tail(internal_in_q) \in Seq(Nat) /\ Len(Tail(internal_in_q)) = 0
              BY <2>1, <2>2
          <3> QED BY <2>1, <3>1, EmptySeq
      <2>4. Len(internal_in_q') = 0 /\ Len(delivered') = Len(delivered)
          BY <2>1, <2>3
      <2>5. /\ Len(delivered) <= arrived
            /\ \A i \in 1..Len(delivered) : delivered[i] = i
          BY DEF Flow
      <2>6. 1..Len(internal_in_q') = {}
          BY <2>4
      <2>7. remote' = "ended" /\ delivered' = delivered /\ arrived' = arrived
          BY <2>1, <2>2
      <2> QED BY <2>3, <2>5, <2>6, <2>7 DEF Flow
  <1>3. CASE Arrive \/ RemoteEnd
      <2> DEFINE q == internal_in_q
                 n == Len(delivered)
      <2>1. /\ q \in Seq(Nat) /\ delivered \in Seq(Nat) /\ arrived \in Nat
            /\ n \in Nat /\ Len(q) \in Nat /\ remote = "open" /\ delivered' = delivered
          BY <1>3 DEF Arrive, RemoteEnd, TypeOK
      <2>2. /\ n <= arrived /\ \A i \in 1..n : delivered[i] = i
            /\ \A i \in 1..Len(q) : q[i] = n + i
            /\ n + Len(q) = arrived
          BY <2>1 DEF Flow
      <2>3. PICK item \in Nat :
               /\ q' = Append(q, item)
               /\ \/ arrived' = arrived + 1 /\ remote' = "open" /\ item = arrived + 1
                  \/ arrived' = arrived /\ remote' = "ended" /\ item = 0
          BY <1>3, <2>1 DEF Arrive, RemoteEnd, OkItem
      <2>4. /\ Len(q') = Len(q) + 1 /\ q'[Len(q) + 1] = item
            /\ \A i \in 1..Len(q) : q'[i] = q[i]
          BY <2>1, <2>3
      <2>5. q' # <<>> /\ DOMAIN q' = 1..(Len(q) + 1)
          BY <2>1, <2>3
      <2> HIDE DEF n, q
      <2>6. ASSUME NEW i \in 1..(Len(q) + 1)
            PROVE  q'[i] = IF remote' = "ended" /\ i = Len(q) + 1 THEN 0 ELSE n + i
          <3>1. CASE i = Len(q) + 1
              BY <2>1, <2>2, <2>3, <2>4, <3>1
          <3>2. CASE i # Len(q) + 1
              <4>1. i \in 1..Len(q)
                  BY <2>1, <3>2
              <4> QED BY <2>2, <2>4, <3>2, <4>1
          <3> QED BY <3>1, <3>2
      <2>7. /\ Len(delivered') = n /\ n <= arrived'
            /\ n + Len(q') = arrived' + (IF remote' = "ended" THEN 1 ELSE 0)
            /\ \A i \in 1..n : delivered'[i] = i
          BY <2>1, <2>2, <2>3, <2>4 DEF n
      <2>8. \A i \in 1..Len(q') :
               q'[i] = IF remote' = "ended" /\ i = Len(q') THEN 0 ELSE n + i
          BY <2>4, <2>6
      <2> QED BY <2>7, <2>8 DEF Flow, OkItem, q
  <1>5. CASE WsLost
      <2>1. /\ remote' = remote \/ (remote = "open" /\ remote' = "gone")
            /\ UNCHANGED <<internal_in_q, arrived, delivered>>
          BY <1>5 DEF WsLost
      <2> QED BY <2>1 DEF Flow
  <1>4. CASE \/ Turn \/ InAcquire \/ InGranted \/ InWait \/ InExit \/ InCancelled \/ OutStep
             \/ PauseStep \/ CloseRun \/ Write \/ WriteEof \/ Close \/ Resume
      <2>1. UNCHANGED <<internal_in_q, arrived, remote, delivered>>
          BY <1>4
          DEF Turn, InAcquire, InGranted, InWait, InExit, InCancelled, OutStep, OutSend,
              OutWait, OutEnd, OutExit, OutCancelled, OutFinally, OutKilled, PauseStep, PauseBegin,
              PauseGranted, PauseOver, CloseRun, Write, WriteEof, Put, Close, Resume, inVars
      <2> QED BY <2>1, FlowSame
  <1> QED BY <1>1, <1>2, <1>3, <1>4, <1>5 DEF Next, Loop, InStep, Outside

-----------------------------------------------------------------------------
(* The theorems.                                                            *)

LEMMA InitInv == Init => Inv
  <1> SUFFICES ASSUME Init PROVE Inv
      OBVIOUS
  <1> USE BoundsAssumption
  <1>1. /\ ready = <<"in", "out">> /\ cur = "loop" /\ waiters = <<>>
        /\ cancelled = {} /\ internal_in_q = <<>> /\ delivered = <<>> /\ out_q = <<>>
        /\ wire = <<>>
      BY DEF Init
  <1>2. /\ <<>> \in Seq(Nat) /\ <<>> \in Seq({"in"} \cup PauseIds)
        /\ <<"in", "out">> \in Seq(Task)
      BY DEF Task
  <1>3. \A d : Contains(ready, d) <=> d \in {"in", "out"}
      BY <1>1 DEF Contains
  <1>4. \A d : ~Contains(waiters, d)
      BY <1>1 DEF Contains
  <1>5. TypeOK
      BY <1>1, <1>2 DEF Init, TypeOK
  <1>6. Turns
      BY <1>1, <1>3 DEF Turns, Unique
  <1>7. Unique(waiters)
      BY <1>1 DEF Unique
  <1>8. \A p \in PauseIds : p \notin {"in", "out", "loop", "free"}
      BY PausesAreNamed
  <1>9. Lock
      BY <1>1, <1>3, <1>4, <1>7, <1>8 DEF Init, Lock, Due
  <1>10. Ahead(ready)
      <2>1. ready \in Seq(Task) /\ Contains(ready, "out") /\ ~Contains(ready, "close")
          <3>1. ready \in Seq(Task)
              BY <1>5 DEF TypeOK
          <3>2. Contains(ready, "out") /\ ~Contains(ready, "close")
              BY <1>3
          <3> QED BY <3>1, <3>2
      <2> QED BY <2>1, AheadFacts
  <1>11. Writer
      BY <1>1, <1>3, <1>10 DEF Init, Writer, Due
  <1>12. Flow
      BY <1>1 DEF Init, Flow
  <1> QED BY <1>5, <1>6, <1>9, <1>11, <1>12 DEF Inv

LEMMA InvStep == Inv /\ [Next]_vars => Inv'
  <1> SUFFICES ASSUME Inv, [Next]_vars PROVE Inv'
      OBVIOUS
  <1>1. CASE Next
      BY <1>1, TypeStep, LockStep, WriterStep, FlowStep DEF Inv
  <1>2. CASE UNCHANGED vars
      <2>1. TypeOK'
          BY <1>2 DEF Inv, TypeOK, vars
      <2>2. Turns' /\ Lock' /\ Writer' /\ Flow'
          BY <1>2 DEF Inv, Turns, Lock, Writer, Flow, Due, vars
      <2> QED BY <2>1, <2>2 DEF Inv
  <1> QED BY <1>1, <1>2

\* The inductive invariant holds in every state: read_lock, its waiters and the
\* queue of the event loop agree with where the tasks of the connection are.
THEOREM Invariance == Spec => []Inv
  BY InitInv, InvStep, PTL DEF Spec

\* Every variable of the transport keeps its type.
THEOREM TypeCorrect == Spec => []TypeOK
  <1>1. Inv => TypeOK
      BY DEF Inv
  <1> QED BY <1>1, Invariance, PTL

\* However writes, close() and what the agent sends interleave, the task of
\* close() does not run before out_q is empty, unless the connection had ended:
\* the promise of WSNETTransport.close, for any number of pauses and chunks.
THEOREM AlwaysFlushed == Spec => []FlushedBeforeLost
  <1>1. Inv => FlushedBeforeLost
      BY DEF Inv, Writer, FlushedBeforeLost
  <1> QED BY <1>1, Invariance, PTL

\* No chunk reaches data_received while a pause_reading task holds read_lock,
\* for any number of such tasks: connection_handler_in gets a message only with
\* the lock, and a task that was woken from waiting for it finds it free.
THEOREM PausesAlwaysHold == Spec => PauseHolds
  <1>1. Inv /\ [Next]_vars =>
           [delivered' # delivered => \A p \in PauseIds : pauseTask[p] # "resume"]_vars
      <2> SUFFICES ASSUME Inv, Next, delivered' # delivered, NEW p \in PauseIds
                   PROVE  pauseTask[p] # "resume"
          BY DEF vars
      <2>1. InDeliver
          BY DEF Next, Loop, InStep, Outside, Turn, InAcquire, InGranted, InWait,
                 InExit, InEnd, InCancelled, OutStep, OutSend, OutWait, OutEnd, OutExit,
                 OutCancelled, OutFinally, OutKilled, PauseStep, PauseBegin, PauseGranted, PauseOver,
                 CloseRun, Arrive, RemoteEnd, WsLost, Write, WriteEof, Put, Close, Resume,
                 inVars
      <2>2. lock = "in"
          BY <2>1 DEF InDeliver, Inv, Lock
      <2> QED BY <2>2, PausesAreNamed DEF Inv, Lock
  <1> QED BY <1>1, Invariance, PTL DEF Spec, PauseHolds

\* A step of the transport is a step of the ordered stream from the agent to
\* data_received, or leaves it as it is.
LEMMA StreamStep ==
    ASSUME Inv, [Next]_vars
    PROVE  [Stream!Next]_<<[s \in {"in"} |-> arrived], [s \in {"in"} |-> delivered]>>
  <1> DEFINE acc == [s \in {"in"} |-> arrived]
             del == [s \in {"in"} |-> delivered]
  <1>1. CASE InDeliver
      <2>1. /\ delivered' = Append(delivered, Head(internal_in_q)) /\ arrived' = arrived
            /\ delivered \in Seq(Nat) /\ arrived \in Nat
          BY <1>1 DEF InDeliver, Inv, TypeOK
      <2> DEFINE n == Len(delivered) + 1
      <2>2. Head(internal_in_q) = n /\ n <= arrived
          BY <1>1, InDeliverFlow DEF Inv
      <2>3. \A i \in 1..(n - 1) : delivered[i] = i
          BY <2>1 DEF Inv, Flow
      <2>4. /\ DOMAIN delivered = 1..(n - 1) /\ n \in 1..arrived
          BY <2>1, <2>2
      <2>5. Range(delivered) = 1..(n - 1)
          BY <2>3, <2>4 DEF Range
      <2> HIDE DEF n
      <2>6. n \in 1..acc["in"] /\ n \notin Range(del["in"])
              /\ \A m \in 1..(n - 1) : m \in Range(del["in"])
          BY <2>4, <2>5
      <2>7. del' = [del EXCEPT !["in"] = Append(@, n)] /\ acc' = acc
          BY <2>1, <2>2
      <2>8. Stream!Deliver("in")
          <3>1. \E k \in 1..acc["in"] :
                   /\ k \notin Range(del["in"])
                   /\ \A m \in 1..(k - 1) : m \in Range(del["in"])
                   /\ del' = [del EXCEPT !["in"] = Append(@, k)]
              <4> HIDE DEF acc, del
              <4> QED BY <2>6, <2>7
          <3>2. acc' = acc
              BY <2>7
          <3>3. Stream!Range(del["in"]) = Range(del["in"])
              BY DEF Range, Stream!Range
          <3>4. \E k \in 1..acc["in"] :
                   /\ k \notin Stream!Range(del["in"])
                   /\ \A m \in 1..(k - 1) : m \in Stream!Range(del["in"])
                   /\ del' = [del EXCEPT !["in"] = Append(@, k)]
              <4> HIDE DEF acc, del
              <4> QED BY <3>1, <3>3
          <3> QED BY <3>2, <3>4 DEF Stream!Deliver
      <2> QED BY <2>8 DEF Stream!Next
  <1>2. CASE Arrive
      <2>1. arrived' = arrived + 1 /\ delivered' = delivered
          BY <1>2 DEF Arrive
      <2>2. acc' = [acc EXCEPT !["in"] = @ + 1] /\ del' = del
          BY <2>1
      <2>3. Stream!Accept("in")
          BY <2>2 DEF Stream!Accept
      <2> QED BY <2>3 DEF Stream!Next
  <1>3. CASE \/ Turn \/ InAcquire \/ InGranted \/ InWait \/ InExit \/ InEnd \/ InCancelled
             \/ OutStep \/ PauseStep \/ CloseRun \/ RemoteEnd \/ WsLost \/ Write \/ WriteEof \/ Close \/ Resume
             \/ UNCHANGED vars
      <2>1. arrived' = arrived /\ delivered' = delivered
          BY <1>3
          DEF Turn, InAcquire, InGranted, InWait, InExit, InEnd, InCancelled, OutStep, OutSend,
              WsLost, OutWait, OutEnd, OutExit, OutCancelled, OutFinally, OutKilled, PauseStep, PauseBegin,
              PauseGranted, PauseOver, CloseRun, RemoteEnd, Write, WriteEof, Put, Close,
              Resume, inVars, vars
      <2>2. acc' = acc /\ del' = del
          BY <2>1
      <2> QED BY <2>2
  <1> QED BY <1>1, <1>2, <1>3 DEF Next, Loop, InStep, Outside

\* What the agent sends reaches data_received in order, without gaps or
\* repetitions, whatever pauses, ends and cancellations come between: the
\* transport implements OrderedStream in that direction.
THEOREM AlwaysDeliveredInOrder == Spec => DeliveredInOrder
  <1>1. Init => Stream!Init
      BY DEF Init, Stream!Init
  <1> QED BY <1>1, StreamStep, Invariance, PTL DEF Spec, DeliveredInOrder, Stream!Spec
=============================================================================
