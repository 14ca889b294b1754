----------------------------- MODULE FilesProofs -----------------------------
(***************************************************************************)
(* What an operation on files reports is what the agent did, what write()  *)
(* acknowledges is in the file, and what was written and closed reads back *)
(* as it was written, for any number of sessions, entries, chunks, calls   *)
(* and timeouts.                                                           *)
(***************************************************************************)
EXTENDS Files, StreamLemmas, FiniteSetTheorems

-----------------------------------------------------------------------------
(* The inductive invariant.                                                 *)

Chunk == {d \in Seq(Nat) : Len(d) = 1}

Request ==
    [type : {"FILESTAT", "OK", "FILEOP", "DIRLS"}, token : Tokens]
        \cup [type : {"FILEOPEN"}, token : Tokens, mode : {"r", "w"}]
        \cup [type : {"FILEREAD"}, token : Tokens, offset : Nat]
        \cup [type : {"FILEDATA"}, token : Tokens, offset : Nat, data : Chunk]

Response ==
    [type : {"CONTINUE", "OK", "ERR"}, token : Tokens]
        \cup [type : {"FILEENTRY"}, token : Tokens, size : Nat]
        \cup [type : {"FILEDATA"}, token : Tokens, offset : Nat,
              data : {d \in Seq(Nat) : Len(d) <= 1}]

LinkType == c2a \in Seq(Request) /\ a2c \in Seq(Response) /\ wsUp \in BOOLEAN

ListingType ==
    listing = Idle \/ listing \in [token : Tokens, left : 0..Entries]

\* What the calls of a session leave in it.
SessionFacts(s) ==
    /\ s.st \in OpenStates \cup {"closed"} => s.mode \in {"r", "w"}
    /\ s.st = "writing" => s.data # <<>>
    /\ s.st = "reading" => s.left > 0
    /\ s.st = "new" => s.left = 0

Types ==
    TypeOK /\ LinkType /\ ListingType /\ \A t \in Tokens : SessionFacts(sess[t])

\* The session is of a file, or of nothing yet.
OfFile(t) == sess[t].st \in OpenStates \cup {"closed"}

\* The request for an operation or a listing.
Asks(m) == m.type \in {"FILEOP", "DIRLS"}

AskedOnce ==
    \A i, j \in DOMAIN c2a :
        Asks(c2a[i]) /\ Asks(c2a[j]) /\ c2a[i].token = c2a[j].token => i = j

\* Every request is from a session in a state that sends it, and an operation
\* is not requested once more.
Requested(t) ==
    \A i \in DOMAIN c2a : c2a[i].token = t =>
        /\ sess[t].st # "new"
        /\ c2a[i].type \notin {"OK", "FILEOP", "DIRLS"} =>
              OfFile(t) \/ sess[t].st = "failed"
        /\ Asks(c2a[i]) => /\ outcome[t] = "none" /\ listing.token # t
                           /\ sess[t].st \notin {"operating", "listing"} =>
                                 sess[t].st = "failed" /\ ~sess[t].clean
                           /\ sess[t].st = "operating" => c2a[i].type = "FILEOP"
                           /\ sess[t].st = "listing" =>
                                 /\ c2a[i].type = "DIRLS" /\ sess[t].left = 0
                                 /\ \A k \in DOMAIN a2c : a2c[k].token # t

\* The listing that the agent is in is the one that was asked for, or nobody
\* waits for it any more.
Listed(t) ==
    listing.token = t =>
        /\ outcome[t] = "none"
        /\ sess[t].st # "listing" => sess[t].st = "failed" /\ ~sess[t].clean

\* Every reply says what the agent did.
Replied(t) ==
    \A i \in DOMAIN a2c : a2c[i].token = t =>
        /\ sess[t].st # "new"
        /\ a2c[i].type = "OK" => outcome[t] \in {"done", "unread"}
        /\ a2c[i].type = "OK" /\ sess[t].st = "operating" => outcome[t] = "done"
        /\ a2c[i].type = "ERR" /\ sess[t].st \in {"operating", "listing"} =>
              outcome[t] = "failed"
        /\ sess[t].st = "listing" => a2c[i].type \in {"OK", "ERR", "FILEENTRY"}

\* The entries of a listing that was answered.
Total(t) == IF outcome[t] = "unread" THEN 0 ELSE Entries

\* The session knows no more than the agent.
Reported(t) ==
    /\ sess[t].st = "new" \/ OfFile(t) => outcome[t] = "none"
    /\ sess[t].st = "done" => outcome[t] = "done"
    /\ sess[t].st = "listed" =>
          outcome[t] \in {"done", "unread"} /\ sess[t].left = Total(t)
    /\ sess[t].st = "failed" /\ sess[t].clean => outcome[t] \notin {"done", "unread"}

\* The messages of a token among the first n.
Of(s, n, t) == {i \in 1..n : s[i].token = t}

CountOf(s, n, t) == Cardinality(Of(s, n, t))

\* The entries that a listing has got, those on the way and those to come.
Tallied(t) ==
    sess[t].st = "listing" =>
        /\ listing.token = t /\ wsUp =>
              sess[t].left + CountOf(a2c, Len(a2c), t) + listing.left = Entries
        /\ \A i \in DOMAIN a2c : a2c[i].token = t /\ a2c[i].type = "OK" =>
              sess[t].left + CountOf(a2c, i - 1, t) = Total(t)

Tracked(t) ==
    Requested(t) /\ Listed(t) /\ Replied(t) /\ Reported(t) /\ Tallied(t)

IInv == Types /\ AskedOnce /\ \A t \in Tokens : Tracked(t)

-----------------------------------------------------------------------------
(* The messages of a session in a channel.                                  *)

LEMMA OfIsFinite ==
    ASSUME NEW s, NEW n \in Nat, NEW t
    PROVE  IsFiniteSet(Of(s, n, t)) /\ CountOf(s, n, t) \in Nat
  <1>1. IsFiniteSet(1..n)
      BY FS_Interval
  <1>2. IsFiniteSet(Of(s, n, t))
      BY <1>1, FS_Subset DEF Of
  <1> QED BY <1>2, FS_CardinalityType DEF CountOf

LEMMA CountSame ==
    ASSUME NEW s, NEW r, NEW n \in Nat, NEW t, \A i \in 1..n : r[i] = s[i]
    PROVE  CountOf(r, n, t) = CountOf(s, n, t)
  <1>1. Of(r, n, t) = Of(s, n, t)
      BY DEF Of
  <1> QED BY <1>1 DEF CountOf

LEMMA CountNoMore ==
    ASSUME NEW s, NEW r, NEW n \in Nat, NEW t, \A i \in 1..n : r[i] = s[i],
           r[n + 1].token # t
    PROVE  CountOf(r, n + 1, t) = CountOf(s, n, t)
  <1>1. Of(r, n + 1, t) = Of(r, n, t)
      BY DEF Of
  <1> QED BY <1>1, CountSame DEF CountOf

LEMMA CountOneMore ==
    ASSUME NEW s, NEW r, NEW n \in Nat, NEW t, \A i \in 1..n : r[i] = s[i],
           r[n + 1].token = t
    PROVE  CountOf(r, n + 1, t) = CountOf(s, n, t) + 1
  <1>1. CountOf(r, n, t) = CountOf(s, n, t)
      BY CountSame
  <1>2. IsFiniteSet(Of(r, n, t))
      BY OfIsFinite
  <1>3. n + 1 \notin Of(r, n, t)
      BY DEF Of
  <1>4. Of(r, n + 1, t) = Of(r, n, t) \cup {n + 1}
      BY DEF Of
  <1>5. Cardinality(Of(r, n, t) \cup {n + 1}) = Cardinality(Of(r, n, t)) + 1
      BY <1>2, <1>3, FS_AddElement
  <1> QED BY <1>1, <1>4, <1>5 DEF CountOf

\* A message is taken out: what comes after it moves up.
LEMMA CountLess ==
    ASSUME NEW S, NEW s \in Seq(S), NEW m \in 1..Len(s), NEW r, Without(s, m, r),
           NEW n \in (m - 1)..(Len(s) - 1), NEW t
    PROVE  CountOf(r, n, t) = CountOf(s, n + 1, t) - (IF s[m].token = t THEN 1 ELSE 0)
  <1> DEFINE old == [i \in Of(r, n, t) |-> IF i < m THEN i ELSE i + 1]
             rest == Of(s, n + 1, t) \ {m}
  <1>1. Len(s) \in Nat /\ n \in Nat /\ n + 1 \in Nat
      OBVIOUS
  <1>2. \A i \in 1..n : r[i] = IF i < m THEN s[i] ELSE s[i + 1]
      BY <1>1 DEF Without
  <1>3. old \in [Of(r, n, t) -> rest]
      BY <1>1, <1>2 DEF Of
  <1>4. \A i, j \in Of(r, n, t) : i # j => old[i] # old[j]
      BY <1>1 DEF Of
  <1>5. \A k \in rest : \E i \in Of(r, n, t) : old[i] = k
      <2> SUFFICES ASSUME NEW k \in rest PROVE \E i \in Of(r, n, t) : old[i] = k
          OBVIOUS
      <2>1. k \in 1..(n + 1) /\ k # m /\ s[k].token = t
          BY DEF Of
      <2>2. CASE k < m
          <3>1. k \in 1..n /\ r[k] = s[k]
              BY <1>1, <1>2, <2>1, <2>2
          <3>2. k \in Of(r, n, t) /\ old[k] = k
              BY <2>1, <2>2, <3>1 DEF Of
          <3> QED BY <3>2
      <2>3. CASE k > m
          <3>1. k - 1 \in 1..n /\ ~(k - 1 < m) /\ (k - 1) + 1 = k
              BY <1>1, <2>1, <2>3
          <3>2. r[k - 1] = s[k]
              BY <1>2, <3>1
          <3>3. k - 1 \in Of(r, n, t)
              BY <2>1, <3>1, <3>2 DEF Of
          <3>4. old[k - 1] = k
              BY <3>1, <3>3
          <3> QED BY <3>3, <3>4
      <2> QED BY <1>1, <2>1, <2>2, <2>3
  <1>6. ExistsBijection(Of(r, n, t), rest)
      <2> HIDE DEF old, rest
      <2> QED BY <1>3, <1>4, <1>5
             DEF ExistsBijection, Bijection, Injection, Surjection, IsInjective
  <1>7. IsFiniteSet(Of(r, n, t)) /\ IsFiniteSet(Of(s, n + 1, t))
      BY <1>1, OfIsFinite
  <1>8. Cardinality(rest) = Cardinality(Of(r, n, t))
      <2> HIDE DEF rest
      <2> QED BY <1>6, <1>7, FS_Bijection
  <1>9. Cardinality(rest) =
            IF m \in Of(s, n + 1, t) THEN Cardinality(Of(s, n + 1, t)) - 1
            ELSE Cardinality(Of(s, n + 1, t))
      BY <1>7, FS_RemoveElement
  <1>10. m \in Of(s, n + 1, t) <=> s[m].token = t
      BY <1>1 DEF Of
  <1>11. CountOf(s, n + 1, t) \in Nat
      BY <1>1, OfIsFinite
  <1> HIDE DEF rest
  <1> QED BY <1>8, <1>9, <1>10, <1>11 DEF CountOf

\* The messages of a session in a channel were there before, or are in M.
Gains(new, old, t, M) ==
    \A i \in DOMAIN new : new[i].token = t =>
        new[i] \in M \/ \E j \in DOMAIN old : old[j] = new[i]

LEMMA GainsNothing ==
    ASSUME NEW s, NEW t
    PROVE  Gains(s, s, t, {})
  BY DEF Gains

LEMMA GainsByAppend ==
    ASSUME NEW S, NEW s \in Seq(S), NEW m \in S
    PROVE  /\ \A t : Gains(Append(s, m), s, t, {m})
           /\ \A t : t # m.token => Gains(Append(s, m), s, t, {})
  BY Extend DEF Gains

LEMMA GainsByTail ==
    ASSUME NEW S, NEW s \in Seq(S), s # <<>>
    PROVE  \A t : Gains(Tail(s), s, t, {})
  BY Shift DEF Gains

LEMMA GainsByPrefix ==
    ASSUME NEW S, NEW s \in Seq(S), NEW n \in 0..Len(s)
    PROVE  \A t : Gains(SubSeq(s, 1, n), s, t, {})
  BY Prefix DEF Gains

LEMMA GainsByRemoval ==
    ASSUME NEW S, NEW s \in Seq(S), NEW m \in 1..Len(s), NEW r, Without(s, m, r)
    PROVE  \A t : Gains(r, s, t, {})
  <1>1. /\ Len(s) \in Nat /\ DOMAIN s = 1..Len(s) /\ DOMAIN r = 1..(Len(s) - 1)
        /\ \A i \in DOMAIN r : r[i] = IF i < m THEN s[i] ELSE s[i + 1]
      BY DEF Without
  <1>2. \A i \in DOMAIN r : \E j \in DOMAIN s : s[j] = r[i]
      BY <1>1
  <1> QED BY <1>2 DEF Gains

\* A request is sent, or dropped on a closed WebSocket.
LEMMA SendFacts ==
    ASSUME LinkType, AskedOnce, NEW m \in Request, BrowserSend(m),
           Asks(m) => \A i \in DOMAIN c2a : c2a[i].token # m.token
    PROVE  /\ c2a' \in Seq(Request) /\ AskedOnce'
           /\ \A t : Gains(c2a', c2a, t, {m})
           /\ \A t : t # m.token => Gains(c2a', c2a, t, {})
  <1>1. CASE wsUp
      <2>1. c2a' = Append(c2a, m) /\ c2a \in Seq(Request)
          BY <1>1 DEF BrowserSend, LinkType
      <2>2. /\ DOMAIN c2a = 1..Len(c2a) /\ Len(c2a) \in Nat
            /\ DOMAIN c2a' = 1..(Len(c2a) + 1)
            /\ \A i \in 1..Len(c2a) : c2a'[i] = c2a[i]
            /\ c2a'[Len(c2a) + 1] = m
          BY <2>1, Extend
      <2>3. ASSUME NEW i \in DOMAIN c2a', NEW j \in DOMAIN c2a', Asks(c2a'[i]),
                   Asks(c2a'[j]), c2a'[i].token = c2a'[j].token
            PROVE  i = j
          <3>1. CASE i \in DOMAIN c2a /\ j \in DOMAIN c2a
              BY <2>2, <2>3, <3>1 DEF AskedOnce
          <3>2. CASE i \notin DOMAIN c2a
              BY <2>2, <2>3, <3>2
          <3>3. CASE j \notin DOMAIN c2a
              BY <2>2, <2>3, <3>3
          <3> QED BY <3>1, <3>2, <3>3
      <2>4. AskedOnce'
          BY <2>3 DEF AskedOnce
      <2> QED BY <2>1, <2>4, GainsByAppend, Extend
  <1>2. CASE ~wsUp
      <2>1. c2a' = c2a
          BY <1>2 DEF BrowserSend
      <2> QED BY <2>1 DEF LinkType, AskedOnce, Gains
  <1> QED BY <1>1, <1>2

\* The next reply of a session is taken.
LEMMA ReceiveFacts ==
    ASSUME LinkType, NEW t \in Tokens, Received(t)
    PROVE  \E k \in 1..Len(a2c) :
              /\ a2c[k].token = t /\ Answer(t) = a2c[k] /\ a2c[k] \in Response
              /\ Len(a2c) \in Nat /\ k \in DOMAIN a2c
              /\ \A j \in 1..(k - 1) : a2c[j].token # t
              /\ a2c' \in Seq(Response) /\ Without(a2c, k, a2c')
              /\ \A u : Gains(a2c', a2c, u, {})
  <1> DEFINE I == {i \in 1..Len(a2c) : a2c[i].token = t}
             k == NextFor(t)
  <1>1. a2c \in Seq(Response) /\ Len(a2c) \in Nat /\ I \in SUBSET Nat
      BY DEF LinkType
  <1>2. k > 0 /\ k = IF I # {} THEN Min(I) ELSE 0
      BY DEF Received, NextFor, SelectInSeq
  <1>3. k \in I /\ \A i \in I : k <= i
      <2>1. I # {} /\ k = Min(I)
          BY <1>2
      <2> HIDE DEF I, k
      <2> QED BY <1>1, <2>1, MinIsLeast
  <1>4. a2c' = RemoveAt(a2c, k) /\ Answer(t) = a2c[k]
      BY DEF Received, Answer
  <1> HIDE DEF k
  <1>5. k \in 1..Len(a2c) /\ a2c[k].token = t /\ a2c[k] \in Response
      BY <1>1, <1>3
  <1>6. \A j \in 1..(k - 1) : a2c[j].token # t
      BY <1>1, <1>3, <1>5
  <1>7. a2c' \in Seq(Response) /\ Without(a2c, k, a2c')
      BY <1>1, <1>4, <1>5, RemoveAtFacts
  <1>8. \A u : Gains(a2c', a2c, u, {})
      BY <1>1, <1>5, <1>7, GainsByRemoval
  <1> QED BY <1>1, <1>4, <1>5, <1>6, <1>7, <1>8

\* The agent takes the command at the front.
LEMMA CommandFacts ==
    ASSUME LinkType, AskedOnce, NEW type, Command(type)
    PROVE  /\ Head(c2a) \in Request /\ Head(c2a).type = type /\ Head(c2a) = c2a[1]
           /\ 1 \in DOMAIN c2a /\ listing = Idle /\ wsUp' = wsUp
           /\ c2a' \in Seq(Request) /\ AskedOnce' /\ \A t : Gains(c2a', c2a, t, {})
           /\ Asks(Head(c2a)) => \A i \in DOMAIN c2a' :
                                    ~(Asks(c2a'[i]) /\ c2a'[i].token = Head(c2a).token)
  <1>1. c2a \in Seq(Request) /\ c2a # <<>> /\ c2a' = Tail(c2a) /\ Head(c2a).type = type
        /\ listing = Idle /\ wsUp' = wsUp
      BY DEF LinkType, Command
  <1>2. /\ Tail(c2a) \in Seq(Request) /\ Head(c2a) = c2a[1] /\ Head(c2a) \in Request
        /\ DOMAIN c2a = 1..Len(c2a) /\ Len(c2a) \in Nat \ {0}
        /\ DOMAIN Tail(c2a) = 1..(Len(c2a) - 1)
        /\ \A i \in 1..(Len(c2a) - 1) : Tail(c2a)[i] = c2a[i + 1]
      BY <1>1, Shift
  <1>3. /\ DOMAIN c2a' = 1..(Len(c2a) - 1) /\ 1 \in DOMAIN c2a
        /\ \A i \in DOMAIN c2a' : i + 1 \in DOMAIN c2a /\ c2a'[i] = c2a[i + 1] /\ i + 1 # 1
      BY <1>1, <1>2
  <1>4. AskedOnce'
      <2> SUFFICES ASSUME NEW i \in DOMAIN c2a', NEW j \in DOMAIN c2a', Asks(c2a'[i]),
                          Asks(c2a'[j]), c2a'[i].token = c2a'[j].token
                   PROVE  i = j
          BY DEF AskedOnce
      <2>1. i + 1 = j + 1
          BY <1>3 DEF AskedOnce
      <2> QED BY <1>3, <2>1
  <1>5. \A t : Gains(c2a', c2a, t, {})
      BY <1>1, GainsByTail
  <1>6. ASSUME Asks(Head(c2a)), NEW i \in DOMAIN c2a', Asks(c2a'[i]),
               c2a'[i].token = Head(c2a).token
        PROVE  FALSE
      <2>1. i + 1 = 1
          BY <1>2, <1>3, <1>6 DEF AskedOnce
      <2> QED BY <1>3, <2>1
  <1> QED BY <1>1, <1>2, <1>3, <1>4, <1>5, <1>6

\* A reply is sent, or dropped on a closed WebSocket.
LEMMA ReplyFacts ==
    ASSUME LinkType, NEW m \in Response, Reply(m)
    PROVE  /\ a2c' \in Seq(Response) /\ \A t : Gains(a2c', a2c, t, {m})
           /\ \A t : t # m.token => Gains(a2c', a2c, t, {})
           /\ Len(a2c) \in Nat /\ DOMAIN a2c = 1..Len(a2c)
           /\ \A i \in 1..Len(a2c) : a2c'[i] = a2c[i]
           /\ a2c' # a2c => /\ wsUp /\ Len(a2c') = Len(a2c) + 1
                            /\ DOMAIN a2c' = 1..(Len(a2c) + 1)
                            /\ a2c'[Len(a2c) + 1] = m
           /\ wsUp => a2c' # a2c
  <1>1. a2c \in Seq(Response)
      BY DEF LinkType
  <1>2. CASE wsUp
      <2>1. a2c' = Append(a2c, m)
          BY <1>2 DEF Reply, AgentSend
      <2>2. Len(a2c') = Len(a2c) + 1 /\ Len(a2c) \in Nat
          BY <1>1, <2>1
      <2>3. a2c' # a2c
          BY <2>2
      <2>4. /\ \A t : Gains(a2c', a2c, t, {m})
            /\ \A t : t # m.token => Gains(a2c', a2c, t, {})
          BY <1>1, <2>1, GainsByAppend
      <2>5. /\ a2c' \in Seq(Response) /\ DOMAIN a2c = 1..Len(a2c)
            /\ DOMAIN a2c' = 1..(Len(a2c) + 1)
            /\ \A i \in 1..Len(a2c) : a2c'[i] = a2c[i]
            /\ a2c'[Len(a2c) + 1] = m
          BY <1>1, <2>1, Extend
      <2> QED BY <1>2, <2>2, <2>3, <2>4, <2>5
  <1>3. CASE ~wsUp
      <2>1. a2c' = a2c
          BY <1>3 DEF Reply, AgentSend
      <2> QED BY <1>1, <1>3, <2>1 DEF Gains
  <1> QED BY <1>2, <1>3

-----------------------------------------------------------------------------
(* A session that a step is not about.                                      *)

LEMMA Untouched ==
    ASSUME NEW t, Requested(t), Listed(t), Replied(t), Reported(t),
           sess'[t] = sess[t], outcome'[t] = outcome[t],
           listing'.token = t => listing.token = t,
           Gains(c2a', c2a, t, {}), Gains(a2c', a2c, t, {})
    PROVE  Requested(t)' /\ Listed(t)' /\ Replied(t)' /\ Reported(t)'
  <1>1. OfFile(t)' <=> OfFile(t)
      BY DEF OfFile
  <1>2. \A k \in DOMAIN a2c' : a2c'[k].token = t =>
            \E j \in DOMAIN a2c : a2c[j] = a2c'[k]
      BY DEF Gains
  <1>3. \A i \in DOMAIN c2a' : c2a'[i].token = t =>
            \E j \in DOMAIN c2a : c2a[j] = c2a'[i]
      BY DEF Gains
  <1>4. Requested(t)'
      <2> SUFFICES ASSUME NEW i \in DOMAIN c2a', c2a'[i].token = t
                   PROVE  /\ sess'[t].st # "new"
                          /\ c2a'[i].type \notin {"OK", "FILEOP", "DIRLS"} =>
                                OfFile(t)' \/ sess'[t].st = "failed"
                          /\ Asks(c2a'[i]) =>
                                /\ outcome'[t] = "none" /\ listing'.token # t
                                /\ sess'[t].st \notin {"operating", "listing"} =>
                                      sess'[t].st = "failed" /\ ~sess'[t].clean
                                /\ sess'[t].st = "operating" => c2a'[i].type = "FILEOP"
                                /\ sess'[t].st = "listing" =>
                                      /\ c2a'[i].type = "DIRLS" /\ sess'[t].left = 0
                                      /\ \A k \in DOMAIN a2c' : a2c'[k].token # t
          BY DEF Requested
      <2>1. PICK j \in DOMAIN c2a : c2a[j] = c2a'[i]
          BY <1>3
      <2>2. /\ sess[t].st # "new"
            /\ c2a[j].type \notin {"OK", "FILEOP", "DIRLS"} =>
                  OfFile(t) \/ sess[t].st = "failed"
            /\ Asks(c2a[j]) =>
                  /\ outcome[t] = "none" /\ listing.token # t
                  /\ sess[t].st \notin {"operating", "listing"} =>
                        sess[t].st = "failed" /\ ~sess[t].clean
                  /\ sess[t].st = "operating" => c2a[j].type = "FILEOP"
                  /\ sess[t].st = "listing" =>
                        /\ c2a[j].type = "DIRLS" /\ sess[t].left = 0
                        /\ \A k \in DOMAIN a2c : a2c[k].token # t
          BY <2>1 DEF Requested
      <2> QED BY <1>1, <1>2, <2>1, <2>2
  <1>5. Listed(t)'
      BY DEF Listed
  <1>6. Replied(t)'
      BY <1>2 DEF Replied
  <1>7. Reported(t)'
      BY <1>1 DEF Reported, Total
  <1> QED BY <1>4, <1>5, <1>6, <1>7

\* A reply of another session is taken.
LEMMA TallyRemoved ==
    ASSUME LinkType, NEW t, Tallied(t), sess'[t] = sess[t], listing' = listing,
           outcome'[t] = outcome[t], wsUp' = wsUp, NEW m \in 1..Len(a2c), a2c[m].token # t, Without(a2c, m, a2c')
    PROVE  Tallied(t)'
  <1>1. /\ a2c \in Seq(Response) /\ Len(a2c) \in Nat \ {0} /\ DOMAIN a2c = 1..Len(a2c)
        /\ Len(a2c') = Len(a2c) - 1 /\ DOMAIN a2c' = 1..(Len(a2c) - 1)
        /\ \A i \in DOMAIN a2c' : a2c'[i] = IF i < m THEN a2c[i] ELSE a2c[i + 1]
      BY DEF LinkType, Without
  <1>2. \A n \in (m - 1)..(Len(a2c) - 1) : CountOf(a2c', n, t) = CountOf(a2c, n + 1, t)
      <2> SUFFICES ASSUME NEW n \in (m - 1)..(Len(a2c) - 1)
                   PROVE  CountOf(a2c', n, t) = CountOf(a2c, n + 1, t)
          OBVIOUS
      <2>1. CountOf(a2c', n, t) =
                CountOf(a2c, n + 1, t) - (IF a2c[m].token = t THEN 1 ELSE 0)
          BY <1>1, CountLess
      <2>2. CountOf(a2c, n + 1, t) \in Nat
          BY <1>1, OfIsFinite
      <2> QED BY <2>1, <2>2
  <1>3. ASSUME sess[t].st = "listing"
        PROVE  /\ listing.token = t /\ wsUp =>
                     sess[t].left + CountOf(a2c', Len(a2c'), t) + listing.left = Entries
               /\ \A i \in DOMAIN a2c' : a2c'[i].token = t /\ a2c'[i].type = "OK" =>
                     sess[t].left + CountOf(a2c', i - 1, t) = Total(t)
      <2>1. /\ listing.token = t /\ wsUp =>
                  sess[t].left + CountOf(a2c, Len(a2c), t) + listing.left = Entries
            /\ \A i \in DOMAIN a2c : a2c[i].token = t /\ a2c[i].type = "OK" =>
                  sess[t].left + CountOf(a2c, i - 1, t) = Total(t)
          BY <1>3 DEF Tallied, Total
      <2>2. CountOf(a2c', Len(a2c'), t) = CountOf(a2c, Len(a2c), t)
          BY <1>1, <1>2
      <2>3. ASSUME NEW i \in DOMAIN a2c', a2c'[i].token = t, a2c'[i].type = "OK"
            PROVE  sess[t].left + CountOf(a2c', i - 1, t) = Total(t)
          <3>1. CASE i < m
              <4>1. i - 1 \in Nat /\ \A j \in 1..(i - 1) : a2c'[j] = a2c[j]
                  BY <1>1, <3>1
              <4>2. CountOf(a2c', i - 1, t) = CountOf(a2c, i - 1, t)
                  BY <4>1, CountSame
              <4>3. i \in DOMAIN a2c /\ a2c'[i] = a2c[i]
                  BY <1>1, <3>1
              <4> QED BY <2>1, <2>3, <4>2, <4>3
          <3>2. CASE ~(i < m)
              <4>1. i + 1 \in DOMAIN a2c /\ a2c'[i] = a2c[i + 1] /\ (i + 1) - 1 = i
                    /\ i - 1 \in (m - 1)..(Len(a2c) - 1) /\ (i - 1) + 1 = i
                  BY <1>1, <3>2
              <4>2. CountOf(a2c', i - 1, t) = CountOf(a2c, i, t)
                  BY <1>2, <4>1
              <4>3. sess[t].left + CountOf(a2c, (i + 1) - 1, t) = Total(t)
                  BY <2>1, <2>3, <4>1
              <4> QED BY <4>1, <4>2, <4>3
          <3> QED BY <3>1, <3>2
      <2> QED BY <2>1, <2>2, <2>3
  <1> QED BY <1>3 DEF Tallied, Total

\* A reply of another session is sent, or none.
LEMMA TallyAppended ==
    ASSUME LinkType, NEW t, Tallied(t), sess'[t] = sess[t], outcome'[t] = outcome[t],
           listing'.token = t /\ wsUp' =>
               listing.token = t /\ wsUp /\ listing'.left = listing.left,
           \A i \in 1..Len(a2c) : a2c'[i] = a2c[i],
           a2c' # a2c => /\ Len(a2c') = Len(a2c) + 1
                         /\ DOMAIN a2c' = 1..(Len(a2c) + 1)
                         /\ a2c'[Len(a2c) + 1].token # t
    PROVE  Tallied(t)'
  <1>1. a2c \in Seq(Response) /\ Len(a2c) \in Nat /\ DOMAIN a2c = 1..Len(a2c)
      BY DEF LinkType
  <1>2. CountOf(a2c', Len(a2c'), t) = CountOf(a2c, Len(a2c), t)
      <2>1. CASE a2c' # a2c
          <3> DEFINE old == a2c
                     new == a2c'
                     n == Len(a2c)
          <3>1. n \in Nat /\ \A i \in 1..n : new[i] = old[i]
              BY <1>1
          <3>2. new[n + 1].token # t /\ Len(a2c') = n + 1
              BY <2>1
          <3> HIDE DEF n, old, new
          <3>3. CountOf(new, n + 1, t) = CountOf(old, n, t)
              BY <3>1, <3>2, CountNoMore
          <3> QED BY <3>2, <3>3 DEF n, old, new
      <2> QED BY <2>1
  <1>3. ASSUME NEW i \in DOMAIN a2c', a2c'[i].token = t
        PROVE  /\ i \in DOMAIN a2c /\ a2c'[i] = a2c[i]
               /\ CountOf(a2c', i - 1, t) = CountOf(a2c, i - 1, t)
      <2>1. i \in DOMAIN a2c
          BY <1>1, <1>3
      <2>2. i - 1 \in Nat /\ \A j \in 1..(i - 1) : a2c'[j] = a2c[j]
          BY <1>1, <2>1
      <2>3. CountOf(a2c', i - 1, t) = CountOf(a2c, i - 1, t)
          BY <2>2, CountSame
      <2> QED BY <1>1, <2>1, <2>3
  <1> QED BY <1>2, <1>3 DEF Tallied, Total

\* A step of the browser is about one session.
LEMMA BrowserOthers ==
    ASSUME IInv, NEW t, NEW u \in Tokens, u # t, sess'[u] = sess[u],
           UNCHANGED <<wsUp, listing, outcome>>, Gains(c2a', c2a, u, {}),
           \/ a2c' = a2c
           \/ \E k \in 1..Len(a2c) : a2c[k].token = t /\ Without(a2c, k, a2c')
    PROVE  Tracked(u)'
  <1>1. LinkType /\ Tracked(u)
      BY DEF IInv, Types
  <1>2. Gains(a2c', a2c, u, {}) /\ Tallied(u)'
      <2>1. CASE a2c' = a2c
          BY <1>1, <2>1, GainsNothing DEF Tracked, Tallied, Total
      <2>2. CASE \E k \in 1..Len(a2c) : a2c[k].token = t /\ Without(a2c, k, a2c')
          <3>1. PICK k \in 1..Len(a2c) : a2c[k].token = t /\ Without(a2c, k, a2c')
              BY <2>2
          <3>2. a2c \in Seq(Response)
              BY <1>1 DEF LinkType
          <3>3. Gains(a2c', a2c, u, {})
              BY <3>1, <3>2, GainsByRemoval
          <3>4. Tallied(u)'
              BY <1>1, <3>1, TallyRemoved DEF Tracked
          <3> QED BY <3>3, <3>4
      <2> QED BY <2>1, <2>2
  <1>3. Requested(u)' /\ Listed(u)' /\ Replied(u)' /\ Reported(u)'
      BY <1>1, <1>2, Untouched DEF Tracked
  <1> QED BY <1>2, <1>3 DEF Tracked

\* So is a step of the agent.
LEMMA AgentOthers ==
    ASSUME IInv, NEW t, NEW u \in Tokens, u # t, UNCHANGED <<sess, wsUp>>,
           outcome'[u] = outcome[u],
           listing'.token = u => listing' = listing,
           Gains(c2a', c2a, u, {}),
           \/ a2c' = a2c
           \/ \E m \in Response : m.token = t /\ Reply(m)
    PROVE  Tracked(u)'
  <1>1. LinkType /\ Tracked(u)
      BY DEF IInv, Types
  <1>2. /\ Gains(a2c', a2c, u, {})
        /\ \A i \in 1..Len(a2c) : a2c'[i] = a2c[i]
        /\ a2c' # a2c => /\ Len(a2c') = Len(a2c) + 1
                         /\ DOMAIN a2c' = 1..(Len(a2c) + 1)
                         /\ a2c'[Len(a2c) + 1].token # u
      <2>1. CASE a2c' = a2c
          BY <2>1, GainsNothing
      <2>2. CASE \E m \in Response : m.token = t /\ Reply(m)
          <3>1. PICK m \in Response : m.token = t /\ Reply(m)
              BY <2>2
          <3> QED BY <1>1, <3>1, ReplyFacts
      <2> QED BY <2>1, <2>2
  <1>3. Tallied(u)'
      BY <1>1, <1>2, TallyAppended DEF Tracked
  <1>4. Requested(u)' /\ Listed(u)' /\ Replied(u)' /\ Reported(u)'
      BY <1>1, <1>2, Untouched DEF Tracked
  <1> QED BY <1>3, <1>4 DEF Tracked

-----------------------------------------------------------------------------
(* The session that a step of the browser is about.                         *)

LEMMA WantedFacts ==
    /\ DOMAIN Wanted = {"opening", "sizing", "stating", "reading", "writing",
                        "operating", "listing"}
    /\ Wanted["opening"] = "CONTINUE" /\ Wanted["writing"] = "CONTINUE"
    /\ Wanted["sizing"] = "FILEENTRY" /\ Wanted["stating"] = "FILEENTRY"
    /\ Wanted["reading"] = "FILEDATA"
    /\ Wanted["operating"] = "OK" /\ Wanted["listing"] = "OK"
  BY DEF Wanted

\* What a step of the browser does besides.
Becomes(t, s) == s \in Session /\ SessionFacts(s) /\ sess' = [sess EXCEPT ![t] = s]

Sends(t) ==
    \/ c2a' = c2a
    \/ \E m \in Request : m.token = t /\ BrowserSend(m) /\ ~Asks(m)

Takes(t) == a2c' = a2c \/ Received(t)

Noted ==
    /\ DOMAIN told' \subseteq Nat /\ \A o \in DOMAIN told' : told'[o] \in Nat
    /\ calls' \in Nat /\ timeouts' \in Nat

\* A step of the browser keeps the invariant if it does for its session.
LEMMA BrowserStep ==
    ASSUME IInv, NEW t \in Tokens, NEW s, Becomes(t, s),
           UNCHANGED <<wsUp, agentVars>>, Noted, Takes(t), Tracked(t)',
           \/ Sends(t)
           \/ /\ \A i \in DOMAIN c2a : c2a[i].token # t
              /\ \E m \in Request : m.token = t /\ BrowserSend(m)
    PROVE  IInv'
  <1>1. /\ TypeOK /\ LinkType /\ ListingType /\ AskedOnce
        /\ \A u \in Tokens : SessionFacts(sess[u])
      BY DEF IInv, Types
  <1>2. sess \in [Tokens -> Session]
      BY <1>1 DEF TypeOK, BrowserTypeOK
  <1>3. /\ sess' \in [Tokens -> Session] /\ sess'[t] = s
        /\ \A u \in Tokens : u # t => sess'[u] = sess[u]
      BY <1>2 DEF Becomes
  <1>4. \A u \in Tokens : SessionFacts(sess'[u])
      BY <1>1, <1>3 DEF Becomes
  <1>5. /\ c2a' \in Seq(Request) /\ AskedOnce'
        /\ \A u \in Tokens : u # t => Gains(c2a', c2a, u, {})
      <2>1. CASE c2a' = c2a
          BY <1>1, <2>1 DEF LinkType, AskedOnce, Gains
      <2>2. CASE \E m \in Request : /\ m.token = t /\ BrowserSend(m)
                                    /\ Asks(m) => \A i \in DOMAIN c2a : c2a[i].token # t
          BY <1>1, <2>2, SendFacts
      <2> QED BY <2>1, <2>2 DEF Sends
  <1>6. /\ a2c' \in Seq(Response)
        /\ \/ a2c' = a2c
           \/ \E k \in 1..Len(a2c) : a2c[k].token = t /\ Without(a2c, k, a2c')
      <2>1. CASE a2c' = a2c
          BY <1>1, <2>1 DEF LinkType
      <2>2. CASE Received(t)
          BY <1>1, <2>2, ReceiveFacts
      <2> QED BY <2>1, <2>2 DEF Takes
  <1>7. \A u \in Tokens : Tracked(u)'
      <2> SUFFICES ASSUME NEW u \in Tokens, u # t PROVE Tracked(u)'
          OBVIOUS
      <2>1. UNCHANGED <<wsUp, listing, outcome>>
          BY DEF agentVars
      <2> QED BY <1>3, <1>5, <1>6, <2>1, BrowserOthers
  <1>8. TypeOK'
      BY <1>1, <1>3 DEF Noted, TypeOK, BrowserTypeOK, AgentTypeOK, agentVars
  <1>9. LinkType' /\ ListingType'
      BY <1>1, <1>5, <1>6 DEF LinkType, ListingType, agentVars
  <1> QED BY <1>4, <1>5, <1>7, <1>8, <1>9 DEF IInv, Types

LEMMA OfFileFacts ==
    ASSUME NEW t, OfFile(t)
    PROVE  sess[t].st \notin {"new", "operating", "listing", "done", "listed", "failed"}
  BY DEF OfFile, OpenStates

\* The session of a file stays one, whatever it sends and takes.
LEMMA FileStep ==
    ASSUME NEW t, Tracked(t), OfFile(t), OfFile(t)', UNCHANGED <<listing, outcome>>,
           NEW M, \A m \in M : ~Asks(m),
           Gains(c2a', c2a, t, M), Gains(a2c', a2c, t, {})
    PROVE  Tracked(t)'
  <1>1. sess[t].st \notin {"new", "operating", "listing", "done", "listed", "failed"}
      BY OfFileFacts
  <1>2. sess'[t].st \notin {"new", "operating", "listing", "done", "listed", "failed"}
      BY DEF OfFile, OpenStates
  <1>3. outcome[t] = "none" /\ listing.token # t
      BY <1>1 DEF Tracked, Reported, Total, Listed
  <1>4. \A i \in DOMAIN a2c' : a2c'[i].token = t =>
            \E j \in DOMAIN a2c : a2c[j] = a2c'[i]
      BY DEF Gains
  <1>5. \A i \in DOMAIN c2a' : c2a'[i].token = t => ~Asks(c2a'[i])
      <2>1. \A j \in DOMAIN c2a : c2a[j].token = t => ~Asks(c2a[j])
          BY <1>1 DEF Tracked, Requested
      <2> QED BY <2>1 DEF Gains
  <1>6. Requested(t)'
      BY <1>2, <1>5 DEF Requested
  <1>7. Replied(t)'
      BY <1>2, <1>4 DEF Tracked, Replied
  <1> QED BY <1>2, <1>3, <1>6, <1>7 DEF Tracked, Listed, Reported, Tallied, Total

\* A session fails.  If none of its calls timed out, the agent has not done
\* what it asked for, and will not.
LEMMA FailStep ==
    ASSUME NEW t, Tracked(t), sess'[t].st = "failed", UNCHANGED <<listing, outcome>>,
           NEW M, \A m \in M : ~Asks(m),
           Gains(c2a', c2a, t, M), Gains(a2c', a2c, t, {}),
           sess'[t].clean =>
               /\ outcome[t] \notin {"done", "unread"} /\ listing.token # t
               /\ \A i \in DOMAIN c2a : c2a[i].token = t => ~Asks(c2a[i])
    PROVE  Tracked(t)'
  <1>1. \A i \in DOMAIN a2c' : a2c'[i].token = t =>
            \E j \in DOMAIN a2c : a2c[j] = a2c'[i]
      BY DEF Gains
  <1>2. Requested(t)'
      <2> SUFFICES ASSUME NEW i \in DOMAIN c2a', c2a'[i].token = t, Asks(c2a'[i])
                   PROVE  outcome'[t] = "none" /\ listing'.token # t /\ ~sess'[t].clean
          BY DEF Requested
      <2>1. PICK j \in DOMAIN c2a : c2a[j] = c2a'[i]
          BY DEF Gains
      <2> QED BY <2>1 DEF Tracked, Requested
  <1>3. Replied(t)'
      BY <1>1 DEF Tracked, Replied
  <1>4. Listed(t)'
      BY DEF Tracked, Listed
  <1>5. Reported(t)' /\ Tallied(t)'
      BY DEF Tracked, Reported, Tallied, Total, OfFile, OpenStates
  <1> QED BY <1>2, <1>3, <1>4, <1>5 DEF Tracked

\* Nobody has heard of a new session.
LEMMA NewFacts ==
    ASSUME NEW t, Tracked(t), sess[t].st = "new"
    PROVE  /\ \A i \in DOMAIN c2a : c2a[i].token # t
           /\ \A i \in DOMAIN a2c : a2c[i].token # t
           /\ listing.token # t /\ outcome[t] = "none"
  BY DEF Tracked, Requested, Replied, Listed, Reported, Total

LEMMA RequestFacts ==
    ASSUME NEW t \in Tokens
    PROVE  /\ \A type \in {"FILESTAT", "OK", "FILEOP", "DIRLS"} :
                 /\ FileCmd(type, t) \in Request /\ FileCmd(type, t).token = t
                 /\ FileCmd(type, t).type = type
           /\ \A mode \in {"r", "w"} :
                 /\ FileOpen(t, mode) \in Request /\ FileOpen(t, mode).token = t
                 /\ ~Asks(FileOpen(t, mode))
           /\ \A off \in Nat :
                 /\ FileRead(t, off) \in Request /\ FileRead(t, off).token = t
                 /\ ~Asks(FileRead(t, off))
           /\ \A off \in Nat : \A x \in Nat :
                 /\ FileData(t, off, <<x>>) \in Request
                 /\ FileData(t, off, <<x>>).token = t /\ ~Asks(FileData(t, off, <<x>>))
  <1>1. \A x \in Nat : <<x>> \in Chunk
      BY DEF Chunk
  <1> QED BY <1>1 DEF FileCmd, FileOpen, FileRead, FileData, Request, Asks

\* A session of a file calls or is answered: what is left to show of a step is
\* what it makes of the session.
LEMMA FileSessionStep ==
    ASSUME IInv, NEW t \in Tokens, OfFile(t), NEW s, Becomes(t, s),
           s.st \in OpenStates \cup {"closed"},
           UNCHANGED <<wsUp, agentVars>>, Sends(t), Takes(t), Noted
    PROVE  IInv'
  <1>1. Tracked(t) /\ LinkType /\ AskedOnce /\ sess \in [Tokens -> Session]
      BY DEF IInv, Types, TypeOK, BrowserTypeOK
  <1>2. sess'[t] = s
      BY <1>1 DEF Becomes
  <1>3. OfFile(t)'
      BY <1>2 DEF OfFile
  <1>4. Gains(a2c', a2c, t, {})
      BY <1>1, ReceiveFacts, GainsNothing DEF Takes
  <1>5. \E M : Gains(c2a', c2a, t, M) /\ \A m \in M : ~Asks(m)
      <2>1. CASE c2a' = c2a
          BY <2>1, GainsNothing
      <2>2. CASE \E m \in Request : m.token = t /\ BrowserSend(m) /\ ~Asks(m)
          <3>1. PICK m \in Request : m.token = t /\ BrowserSend(m) /\ ~Asks(m)
              BY <2>2
          <3>2. Gains(c2a', c2a, t, {m})
              BY <1>1, <3>1, SendFacts
          <3> QED BY <3>1, <3>2
      <2> QED BY <2>1, <2>2 DEF Sends
  <1>6. UNCHANGED <<listing, outcome>>
      BY DEF agentVars
  <1>7. Tracked(t)'
      BY <1>1, <1>3, <1>4, <1>5, <1>6, FileStep
  <1> QED BY <1>7, BrowserStep

-----------------------------------------------------------------------------
(* Calls.                                                                   *)

LEMMA CallFacts ==
    ASSUME IInv, NEW t \in Tokens
    PROVE  /\ sess[t] \in Session /\ sess \in [Tokens -> Session]
           /\ SessionFacts(sess[t]) /\ Tracked(t)
           /\ DOMAIN told \subseteq Nat /\ \A o \in DOMAIN told : told[o] \in Nat
           /\ calls \in Nat /\ timeouts \in Nat
           /\ LinkType /\ AskedOnce
  BY DEF IInv, Types, TypeOK, BrowserTypeOK

LEMMA StatKeeps ==
    ASSUME IInv, NEW t \in Tokens, Stat(t), UNCHANGED agentVars
    PROVE  IInv'
  <1> DEFINE s == [sess[t] EXCEPT !.st = "stating"]
  <1>1. /\ sess[t] \in Session /\ sess \in [Tokens -> Session]
        /\ SessionFacts(sess[t]) /\ calls \in Nat /\ timeouts \in Nat
        /\ DOMAIN told \subseteq Nat /\ \A o \in DOMAIN told : told[o] \in Nat
      BY CallFacts
  <1>2. /\ sess[t].st = "open" /\ calls' = calls + 1 /\ UNCHANGED <<a2c, wsUp, timeouts, told>>
        /\ BrowserSend(FileCmd("FILESTAT", t))
        /\ sess' = [sess EXCEPT ![t].st = "stating"]
      BY DEF Stat, Call
  <1>3. s \in Session /\ s.st = "stating" /\ s.mode = sess[t].mode
      BY <1>1, WantedFacts DEF Session
  <1>4. sess' = [sess EXCEPT ![t] = s]
      BY <1>1, <1>2
  <1>5. SessionFacts(s) /\ OfFile(t) /\ s.st \in OpenStates \cup {"closed"}
      BY <1>1, <1>2, <1>3 DEF SessionFacts, OfFile, OpenStates
  <1>6. Sends(t)
      BY <1>2, RequestFacts DEF Sends, Asks
  <1>7. Becomes(t, s) /\ Noted /\ Takes(t) /\ Sends(t) /\ UNCHANGED <<wsUp, agentVars>>
      <2> HIDE DEF s
      <2>1. Becomes(t, s)
          BY <1>3, <1>4, <1>5 DEF Becomes
      <2>2. Noted
          BY <1>1, <1>2 DEF Noted
      <2> QED BY <1>2, <1>6, <2>1, <2>2 DEF Takes
  <1> HIDE DEF s
  <1> QED BY <1>3, <1>4, <1>5, <1>6, <1>7, FileSessionStep

LEMMA SeekKeeps ==
    ASSUME IInv, NEW t \in Tokens, Seek(t), UNCHANGED agentVars
    PROVE  IInv'
  <1>1. /\ sess[t] \in Session /\ sess \in [Tokens -> Session]
        /\ SessionFacts(sess[t]) /\ calls \in Nat /\ timeouts \in Nat
        /\ DOMAIN told \subseteq Nat /\ \A o \in DOMAIN told : told[o] \in Nat
      BY CallFacts
  <1>2. PICK off : off \in 0..MaxSize /\ sess' = [sess EXCEPT ![t].offset = off]
      BY DEF Seek
  <1>3. off \in Nat
      BY <1>2, BoundsAssumption
  <1> DEFINE s == [sess[t] EXCEPT !.offset = off]
  <1>4. /\ sess[t].st = "open" /\ calls' = calls + 1
        /\ UNCHANGED <<c2a, a2c, wsUp, timeouts, told>>
      BY DEF Seek, Call
  <1>5. s \in Session /\ s.st = "open" /\ s.mode = sess[t].mode
      BY <1>1, <1>4, <1>3, WantedFacts DEF Session
  <1>6. sess' = [sess EXCEPT ![t] = s]
      BY <1>1, <1>2
  <1>7. SessionFacts(s) /\ OfFile(t) /\ s.st \in OpenStates \cup {"closed"}
      BY <1>1, <1>4, <1>5 DEF SessionFacts, OfFile, OpenStates
  <1>8. Becomes(t, s) /\ Noted /\ Takes(t) /\ Sends(t) /\ UNCHANGED <<wsUp, agentVars>>
      <2> HIDE DEF s
      <2> QED BY <1>1, <1>4, <1>5, <1>6, <1>7 DEF Becomes, Noted, Takes, Sends
  <1> HIDE DEF s
  <1> QED BY <1>4, <1>5, <1>6, <1>7, <1>8, FileSessionStep

LEMMA ReadKeeps ==
    ASSUME IInv, NEW t \in Tokens, Read(t), UNCHANGED agentVars
    PROVE  IInv'
  <1>1. /\ sess[t] \in Session /\ sess \in [Tokens -> Session]
        /\ SessionFacts(sess[t]) /\ calls \in Nat /\ timeouts \in Nat
        /\ DOMAIN told \subseteq Nat /\ \A o \in DOMAIN told : told[o] \in Nat
      BY CallFacts
  <1>2. PICK n : /\ n \in 1..(sess[t].size - sess[t].offset)
                 /\ sess' = [sess EXCEPT ![t].st = "reading", ![t].left = n,
                                         ![t].from = sess[t].offset, ![t].data = <<>>]
      BY DEF Read
  <1> DEFINE s == [sess[t] EXCEPT !.st = "reading", !.left = n,
                                  !.from = sess[t].offset, !.data = <<>>]
  <1>3. /\ sess[t].st = "open" /\ calls' = calls + 1
        /\ UNCHANGED <<a2c, wsUp, timeouts, told>>
        /\ BrowserSend(FileRead(t, sess[t].offset))
      BY DEF Read, Call
  <1>4. sess[t].offset \in Nat /\ sess[t].size \in Nat /\ n \in Nat \ {0}
      <2>1. sess[t].offset \in Nat /\ sess[t].size \in Nat
          BY <1>1 DEF Session
      <2> QED BY <1>2, <2>1
  <1>5. s \in Session /\ s.st = "reading" /\ s.mode = sess[t].mode /\ s.left = n
      <2>1. "reading" \in DOMAIN Wanted /\ <<>> \in Seq(Nat)
          BY WantedFacts
      <2>2. s \in Session
          BY <1>1, <1>4, <2>1 DEF Session
      <2> QED BY <1>1, <2>2 DEF Session
  <1>6. sess' = [sess EXCEPT ![t] = s]
      BY <1>1, <1>2
  <1>7. SessionFacts(s) /\ OfFile(t) /\ s.st \in OpenStates \cup {"closed"}
      BY <1>1, <1>3, <1>4, <1>5 DEF SessionFacts, OfFile, OpenStates
  <1>8. Sends(t)
      BY <1>3, <1>4, RequestFacts DEF Sends
  <1>9. Becomes(t, s) /\ Noted /\ Takes(t) /\ Sends(t) /\ UNCHANGED <<wsUp, agentVars>>
      <2> HIDE DEF s
      <2> QED BY <1>1, <1>3, <1>5, <1>6, <1>7, <1>8 DEF Becomes, Noted, Takes, Sends
  <1> HIDE DEF s
  <1> QED BY <1>5, <1>6, <1>7, <1>8, <1>9, FileSessionStep

LEMMA WriteKeeps ==
    ASSUME IInv, NEW t \in Tokens, Write(t), UNCHANGED agentVars
    PROVE  IInv'
  <1>1. /\ sess[t] \in Session /\ sess \in [Tokens -> Session]
        /\ SessionFacts(sess[t]) /\ calls \in Nat /\ timeouts \in Nat
        /\ DOMAIN told \subseteq Nat /\ \A o \in DOMAIN told : told[o] \in Nat
      BY CallFacts
  <1>2. PICK n \in 1..2 :
           sess' = [sess EXCEPT ![t].st = "writing", ![t].data = [i \in 1..n |-> 2 * calls + i]]
      BY DEF Write
  <1> DEFINE d == [i \in 1..n |-> 2 * calls + i]
             s == [sess[t] EXCEPT !.st = "writing", !.data = d]
  <1>3. calls' = calls + 1 /\ timeouts' = timeouts
      BY DEF Write, Call
  <1>4. /\ sess[t].st = "open" /\ calls' = calls + 1 /\ UNCHANGED <<a2c, wsUp, timeouts>>
        /\ told' = Forget({sess[t].offset}) /\ WriteChunk(t, sess'[t])
      BY DEF Write, Call
  <1>5. d \in Seq(Nat) /\ d # <<>> /\ Head(d) \in Nat
      BY <1>1
  <1>6. sess' = [sess EXCEPT ![t] = s]
      BY <1>1, <1>2
  <1> HIDE DEF d
  <1>7. s \in Session /\ s.st = "writing" /\ s.mode = sess[t].mode /\ s.data = d
        /\ s.offset = sess[t].offset /\ s.offset \in Nat
      BY <1>1, <1>5, WantedFacts DEF Session
  <1>8. SessionFacts(s) /\ OfFile(t) /\ s.st \in OpenStates \cup {"closed"}
      BY <1>1, <1>4, <1>5, <1>7 DEF SessionFacts, OfFile, OpenStates
  <1>9. sess'[t] = s
      BY <1>1, <1>6
  <1>10. DOMAIN told' \subseteq Nat /\ \A o \in DOMAIN told' : told'[o] \in Nat
      BY <1>1, <1>4 DEF Forget, Restrict
  <1> HIDE DEF s
  <1>11. Sends(t)
      BY <1>4, <1>5, <1>7, <1>9, RequestFacts DEF Sends, WriteChunk
  <1>12. Becomes(t, s) /\ Noted /\ Takes(t) /\ Sends(t) /\ UNCHANGED <<wsUp, agentVars>>
      <2>1. Becomes(t, s)
          BY <1>6, <1>7, <1>8 DEF Becomes
      <2>2. Noted
          BY <1>1, <1>10, <1>3 DEF Noted
      <2> QED BY <1>4, <1>11, <2>1, <2>2 DEF Takes
  <1> QED BY <1>8, <1>12, FileSessionStep

LEMMA CloseKeeps ==
    ASSUME IInv, NEW t \in Tokens, Close(t), UNCHANGED agentVars
    PROVE  IInv'
  <1> DEFINE s == [sess[t] EXCEPT !.st = "closed"]
  <1>1. /\ sess[t] \in Session /\ sess \in [Tokens -> Session]
        /\ SessionFacts(sess[t]) /\ calls \in Nat /\ timeouts \in Nat
        /\ DOMAIN told \subseteq Nat /\ \A o \in DOMAIN told : told[o] \in Nat
      BY CallFacts
  <1>2. /\ sess[t].st = "open" /\ calls' = calls + 1 /\ UNCHANGED <<a2c, wsUp, timeouts, told>>
        /\ BrowserSend(FileCmd("OK", t))
        /\ sess' = [sess EXCEPT ![t].st = "closed"]
      BY DEF Close, Call
  <1>3. s \in Session /\ s.st = "closed" /\ s.mode = sess[t].mode
      BY <1>1, WantedFacts DEF Session
  <1>4. sess' = [sess EXCEPT ![t] = s]
      BY <1>1, <1>2
  <1>5. SessionFacts(s) /\ OfFile(t) /\ s.st \in OpenStates \cup {"closed"}
      BY <1>1, <1>2, <1>3 DEF SessionFacts, OfFile, OpenStates
  <1>6. Sends(t)
      BY <1>2, RequestFacts DEF Sends, Asks
  <1>7. Becomes(t, s) /\ Noted /\ Takes(t) /\ Sends(t) /\ UNCHANGED <<wsUp, agentVars>>
      <2> HIDE DEF s
      <2>1. Becomes(t, s)
          BY <1>3, <1>4, <1>5 DEF Becomes
      <2>2. Noted
          BY <1>1, <1>2 DEF Noted
      <2> QED BY <1>2, <1>6, <2>1, <2>2 DEF Takes
  <1> HIDE DEF s
  <1> QED BY <1>3, <1>4, <1>5, <1>6, <1>7, FileSessionStep
\* A session is used for the first time.
LEMMA OpenKeeps ==
    ASSUME IInv, NEW t \in Tokens, NEW mode \in {"r", "w"}, Open(t, mode),
           UNCHANGED agentVars
    PROVE  IInv'
  <1>1. /\ sess[t] \in Session /\ sess \in [Tokens -> Session]
        /\ SessionFacts(sess[t]) /\ calls \in Nat /\ timeouts \in Nat
        /\ DOMAIN told \subseteq Nat /\ \A o \in DOMAIN told : told[o] \in Nat
        /\ Tracked(t) /\ LinkType /\ AskedOnce
      BY CallFacts
  <1>2. /\ sess[t].st = "new" /\ calls' = calls + 1 /\ UNCHANGED <<a2c, wsUp, timeouts>>
        /\ UNCHANGED <<listing, outcome>>
      BY DEF Open, Call, agentVars
  <1>3. /\ \A i \in DOMAIN c2a : c2a[i].token # t
        /\ \A i \in DOMAIN a2c : a2c[i].token # t
        /\ listing.token # t /\ outcome[t] = "none"
      BY <1>1, <1>2, NewFacts
  <1>4. "opening" \in DOMAIN Wanted
      BY WantedFacts
  <1>5. CASE /\ sess' = [sess EXCEPT ![t].st = "opening", ![t].mode = mode]
             /\ BrowserSend(FileOpen(t, mode))
             /\ told' = IF mode = "w" THEN <<>> ELSE told
      <2> DEFINE s == [sess[t] EXCEPT !.st = "opening", !.mode = mode]
      <2>1. s \in Session /\ s.st = "opening" /\ s.mode = mode
          BY <1>1, <1>4 DEF Session
      <2>2. sess' = [sess EXCEPT ![t] = s]
          BY <1>1, <1>5
      <2> HIDE DEF s
      <2>3. Becomes(t, s) /\ sess'[t] = s
          BY <1>1, <2>1, <2>2 DEF Becomes, SessionFacts
      <2>4. Noted
          <3>1. told' = <<>> \/ told' = told
              BY <1>5
          <3> QED BY <1>1, <1>2, <3>1 DEF Noted
      <2>5. /\ FileOpen(t, mode) \in Request /\ FileOpen(t, mode).token = t
            /\ ~Asks(FileOpen(t, mode))
          BY RequestFacts
      <2>6. Sends(t)
          BY <1>5, <2>5 DEF Sends
      <2>7. Gains(c2a', c2a, t, {FileOpen(t, mode)})
          BY <1>1, <1>5, <2>5, SendFacts
      <2>8. \A i \in DOMAIN c2a' : c2a'[i].token = t => ~Asks(c2a'[i])
          BY <1>3, <2>5, <2>7 DEF Gains
      <2>9. Requested(t)'
          BY <2>1, <2>3, <2>8 DEF Requested, OfFile, OpenStates
      <2>10. Tracked(t)'
          BY <1>2, <1>3, <2>1, <2>3, <2>9 DEF Tracked, Listed, Replied, Reported, Tallied, Total
      <2> QED BY <1>2, <2>3, <2>4, <2>6, <2>10, BrowserStep DEF Takes
  <1>6. CASE /\ sess' = [sess EXCEPT ![t].st = "failed"]
             /\ UNCHANGED <<c2a, told>>
      <2> DEFINE s == [sess[t] EXCEPT !.st = "failed"]
      <2>1. s \in Session /\ s.st = "failed"
          BY <1>1 DEF Session
      <2>2. sess' = [sess EXCEPT ![t] = s]
          BY <1>1, <1>6
      <2> HIDE DEF s
      <2>3. Becomes(t, s) /\ sess'[t].st = "failed"
          BY <1>1, <2>1, <2>2 DEF Becomes, SessionFacts, OpenStates
      <2>4. Noted
          BY <1>1, <1>2, <1>6 DEF Noted
      <2>5. Gains(c2a', c2a, t, {}) /\ Gains(a2c', a2c, t, {}) /\ \A m \in {} : ~Asks(m)
          BY <1>2, <1>6, GainsNothing
      <2>6. Tracked(t)'
          BY <1>1, <1>2, <1>3, <2>3, <2>5, FailStep
      <2>7. Sends(t) /\ Takes(t)
          BY <1>2, <1>6 DEF Sends, Takes
      <2> QED BY <1>2, <2>3, <2>4, <2>6, <2>7, BrowserStep
  <1> QED BY <1>5, <1>6 DEF Open

LEMMA OperationKeeps ==
    ASSUME IInv, NEW t \in Tokens, NEW st, NEW type,
           <<st, type>> \in {<<"operating", "FILEOP">>, <<"listing", "DIRLS">>},
           Operation(t, st, type), UNCHANGED agentVars
    PROVE  IInv'
  <1> DEFINE s == [sess[t] EXCEPT !.st = st]
             m == FileCmd(type, t)
  <1>1. /\ sess[t] \in Session /\ sess \in [Tokens -> Session]
        /\ SessionFacts(sess[t]) /\ calls \in Nat /\ timeouts \in Nat
        /\ DOMAIN told \subseteq Nat /\ \A o \in DOMAIN told : told[o] \in Nat
        /\ Tracked(t) /\ LinkType /\ AskedOnce
      BY CallFacts
  <1>2. /\ sess[t].st = "new" /\ calls' = calls + 1 /\ UNCHANGED <<a2c, wsUp, timeouts, told>>
        /\ UNCHANGED <<listing, outcome>> /\ BrowserSend(m)
      BY DEF Operation, Call, agentVars
  <1>3. /\ \A i \in DOMAIN c2a : c2a[i].token # t
        /\ \A i \in DOMAIN a2c : a2c[i].token # t
        /\ listing.token # t /\ outcome[t] = "none"
      BY <1>1, <1>2, NewFacts
  <1>4. s \in Session /\ s.st = st /\ s.left = sess[t].left
      BY <1>1, WantedFacts DEF Session
  <1>5. sess' = [sess EXCEPT ![t] = s]
      BY <1>1 DEF Operation
  <1> HIDE DEF s
  <1>6. sess[t].left = 0
      BY <1>1, <1>2 DEF SessionFacts
  <1>7. Becomes(t, s) /\ sess'[t] = s
      BY <1>1, <1>4, <1>5 DEF Becomes, SessionFacts, OpenStates
  <1>8. m \in Request /\ m.token = t /\ m.type = type
      BY RequestFacts
  <1> HIDE DEF m
  <1>9. Gains(c2a', c2a, t, {m})
      BY <1>1, <1>2, <1>3, <1>8, SendFacts
  <1>10. \A i \in DOMAIN c2a' : c2a'[i].token = t => c2a'[i] = m
      BY <1>3, <1>9 DEF Gains
  <1>11. Requested(t)'
      BY <1>2, <1>3, <1>4, <1>6, <1>7, <1>8, <1>10 DEF Requested
  <1>12. Tracked(t)'
      BY <1>2, <1>3, <1>4, <1>7, <1>11
         DEF Tracked, Listed, Replied, Reported, Tallied, Total, OfFile, OpenStates
  <1>13. Noted
      BY <1>1, <1>2 DEF Noted
  <1>14. Takes(t)
      BY <1>2 DEF Takes
  <1> QED BY <1>2, <1>3, <1>7, <1>8, <1>12, <1>13, <1>14, BrowserStep

-----------------------------------------------------------------------------
(* Answers.                                                                 *)

LEMMA ResponseFacts ==
    ASSUME NEW m \in Response
    PROVE  /\ m.type = "FILEENTRY" => m.size \in Nat
           /\ m.type = "FILEDATA" => m.data \in Seq(Nat) /\ Len(m.data) \in 0..1
  <1>1. CASE m \in [type : {"CONTINUE", "OK", "ERR"}, token : Tokens]
      BY <1>1
  <1>2. CASE m \in [type : {"FILEENTRY"}, token : Tokens, size : Nat]
      BY <1>2
  <1>3. CASE m \in [type : {"FILEDATA"}, token : Tokens, offset : Nat,
                    data : {d \in Seq(Nat) : Len(d) <= 1}]
      <2>1. m.data \in {d \in Seq(Nat) : Len(d) <= 1} /\ m.type = "FILEDATA"
          BY <1>3
      <2>2. m.data \in Seq(Nat) /\ Len(m.data) <= 1
          BY <2>1
      <2>3. Len(m.data) \in Nat
          BY <2>2
      <2>4. Len(m.data) \in 0..1
          <3>1. \A n \in Nat : n <= 1 => n \in 0..1
              OBVIOUS
          <3> QED BY <2>2, <2>3, <3>1
      <2>5. m.type # "FILEENTRY"
          BY <2>1
      <2> QED BY <2>2, <2>4, <2>5
  <1> QED BY <1>1, <1>2, <1>3 DEF Response

LEMMA AnsweredFacts ==
    ASSUME IInv, NEW t \in Tokens, NEW st, Answered(t, st)
    PROVE  /\ sess[t].st = st /\ Answer(t) \in Response /\ Answer(t).type = Wanted[st]
           /\ Received(t) /\ Takes(t) /\ UNCHANGED <<wsUp, calls, timeouts>>
  <1>1. LinkType /\ Received(t)
      BY CallFacts DEF Answered
  <1>2. Answer(t) \in Response
      BY <1>1, ReceiveFacts
  <1> QED BY <1>1, <1>2 DEF Answered, Received, Takes

LEMMA OpenAnsweredKeeps ==
    ASSUME IInv, NEW t \in Tokens, OpenAnswered(t), UNCHANGED agentVars
    PROVE  IInv'
  <1>1. /\ sess[t] \in Session /\ sess \in [Tokens -> Session]
        /\ SessionFacts(sess[t]) /\ calls \in Nat /\ timeouts \in Nat
        /\ DOMAIN told \subseteq Nat /\ \A o \in DOMAIN told : told[o] \in Nat
      BY CallFacts
  <1>2. sess[t].st = "opening" /\ Takes(t) /\ UNCHANGED <<wsUp, calls, timeouts>>
      BY AnsweredFacts DEF OpenAnswered
  <1>3. PICK st \in {"sizing", "open"} :
            /\ sess' = [sess EXCEPT ![t].st = st]
            /\ c2a' = c2a \/ BrowserSend(FileCmd("FILESTAT", t))
      BY DEF OpenAnswered
  <1> DEFINE s == [sess[t] EXCEPT !.st = st]
  <1>4. s \in Session /\ s.st = st /\ s.mode = sess[t].mode
      BY <1>1, <1>3, WantedFacts DEF Session
  <1>5. sess' = [sess EXCEPT ![t] = s]
      BY <1>1, <1>3
  <1> HIDE DEF s
  <1>6. SessionFacts(s) /\ OfFile(t) /\ s.st \in OpenStates \cup {"closed"}
      BY <1>1, <1>2, <1>3, <1>4 DEF SessionFacts, OfFile, OpenStates
  <1>7. Sends(t)
      BY <1>3, RequestFacts DEF Sends, Asks
  <1>8. Becomes(t, s)
      BY <1>4, <1>5, <1>6 DEF Becomes
  <1>9. told' = told
      BY DEF OpenAnswered
  <1>10. Noted
      BY <1>1, <1>2, <1>9 DEF Noted
  <1>11. UNCHANGED <<wsUp, agentVars>>
      BY <1>2
  <1> QED BY <1>2, <1>6, <1>7, <1>8, <1>10, <1>11, FileSessionStep

LEMMA StatAnsweredKeeps ==
    ASSUME IInv, NEW t \in Tokens, StatAnswered(t), UNCHANGED agentVars
    PROVE  IInv'
  <1>1. /\ sess[t] \in Session /\ sess \in [Tokens -> Session]
        /\ SessionFacts(sess[t]) /\ calls \in Nat /\ timeouts \in Nat
        /\ DOMAIN told \subseteq Nat /\ \A o \in DOMAIN told : told[o] \in Nat
      BY CallFacts
  <1>2. PICK st \in {"sizing", "stating"} : Answered(t, st)
      BY DEF StatAnswered
  <1>3. /\ sess[t].st = st /\ Takes(t) /\ UNCHANGED <<wsUp, calls, timeouts>>
        /\ Answer(t) \in Response /\ Answer(t).type = "FILEENTRY"
      BY <1>2, AnsweredFacts, WantedFacts
  <1>4. Answer(t).size \in Nat
      BY <1>3, ResponseFacts
  <1> DEFINE size == Answer(t).size
  <1>5. sess' = [sess EXCEPT ![t].st = "open", ![t].size = size]
      BY DEF StatAnswered
  <1>6. size \in Nat
      BY <1>4
  <1> HIDE DEF size
  <1> DEFINE s == [sess[t] EXCEPT !.st = "open", !.size = size]
  <1>7. s \in Session /\ s.st = "open" /\ s.mode = sess[t].mode
      BY <1>1, <1>6 DEF Session
  <1>8. sess' = [sess EXCEPT ![t] = s]
      BY <1>1, <1>5
  <1> HIDE DEF s
  <1>9. SessionFacts(s) /\ OfFile(t) /\ s.st \in OpenStates \cup {"closed"}
      BY <1>1, <1>2, <1>3, <1>7 DEF SessionFacts, OfFile, OpenStates
  <1>10. Becomes(t, s)
      BY <1>7, <1>8, <1>9 DEF Becomes
  <1>11. UNCHANGED <<c2a, told>>
      BY DEF StatAnswered
  <1>12. Noted
      BY <1>1, <1>3, <1>11 DEF Noted
  <1>13. Sends(t) /\ UNCHANGED <<wsUp, agentVars>>
      BY <1>3, <1>11 DEF Sends
  <1> QED BY <1>3, <1>9, <1>10, <1>12, <1>13, FileSessionStep

LEMMA ReadAnsweredKeeps ==
    ASSUME IInv, NEW t \in Tokens, ReadAnswered(t), UNCHANGED agentVars
    PROVE  IInv'
  <1>1. /\ sess[t] \in Session /\ sess \in [Tokens -> Session]
        /\ SessionFacts(sess[t]) /\ calls \in Nat /\ timeouts \in Nat
        /\ DOMAIN told \subseteq Nat /\ \A o \in DOMAIN told : told[o] \in Nat
      BY CallFacts
  <1>2. /\ sess[t].st = "reading" /\ Takes(t) /\ UNCHANGED <<wsUp, calls, timeouts>>
        /\ Answer(t) \in Response /\ Answer(t).type = "FILEDATA"
      BY AnsweredFacts, WantedFacts DEF ReadAnswered
  <1> DEFINE data == Answer(t).data
             s == [sess[t] EXCEPT !.offset = @ + Len(data), !.left = @ - Len(data),
                                  !.data = @ \o data]
             done == [s EXCEPT !.st = "open", !.left = 0]
  <1>3. /\ UNCHANGED told
        /\ \/ /\ sess' = [sess EXCEPT ![t] = done]
              /\ UNCHANGED c2a
           \/ /\ s.left # 0
              /\ sess' = [sess EXCEPT ![t] = s]
              /\ BrowserSend(FileRead(t, s.offset))
      BY DEF ReadAnswered
  <1>4. data \in Seq(Nat) /\ Len(data) \in 0..1
      BY <1>2, ResponseFacts
  <1> HIDE DEF data
  <1>5. /\ sess[t].offset \in Nat /\ sess[t].left \in Nat /\ sess[t].data \in Seq(Nat)
        /\ sess[t].left > 0 /\ sess[t].mode \in {"r", "w"}
      BY <1>1, <1>2 DEF Session, SessionFacts, OpenStates
  <1>6. /\ sess[t].offset + Len(data) \in Nat /\ sess[t].left - Len(data) \in Nat
        /\ sess[t].data \o data \in Seq(Nat)
      <2>1. sess[t].data \o data \in Seq(Nat)
          BY <1>4, <1>5
      <2>2. \A a, b \in Nat : \A c \in 0..1 : a + c \in Nat /\ (b > 0 => b - c \in Nat)
          OBVIOUS
      <2> QED BY <1>4, <1>5, <2>1, <2>2
  <1>7. /\ s \in Session /\ s.st = "reading" /\ s.mode = sess[t].mode
        /\ s.left \in Nat /\ s.offset \in Nat
      BY <1>1, <1>2, <1>6 DEF Session
  <1> HIDE DEF s
  <1>8. done \in Session /\ done.st = "open" /\ done.mode = sess[t].mode
      BY <1>7 DEF Session
  <1> HIDE DEF done
  <1>9. SessionFacts(done) /\ done.st \in OpenStates \cup {"closed"} /\ OfFile(t)
      BY <1>2, <1>5, <1>8 DEF SessionFacts, OpenStates, OfFile
  <1>10. Noted
      BY <1>1, <1>2, <1>3 DEF Noted
  <1>11. UNCHANGED <<wsUp, agentVars>>
      BY <1>2
  <1>12. CASE sess' = [sess EXCEPT ![t] = done] /\ UNCHANGED c2a
      <2>1. Becomes(t, done) /\ Sends(t)
          BY <1>8, <1>9, <1>12 DEF Becomes, Sends
      <2> QED BY <1>2, <1>9, <1>10, <1>11, <2>1, FileSessionStep
  <1>13. CASE /\ s.left # 0
              /\ sess' = [sess EXCEPT ![t] = s]
              /\ BrowserSend(FileRead(t, s.offset))
      <2>1. SessionFacts(s) /\ s.st \in OpenStates \cup {"closed"}
          BY <1>5, <1>7, <1>13 DEF SessionFacts, OpenStates
      <2>2. Becomes(t, s)
          BY <1>7, <1>13, <2>1 DEF Becomes
      <2>3. Sends(t)
          BY <1>7, <1>13, RequestFacts DEF Sends
      <2> QED BY <1>2, <1>9, <1>10, <1>11, <2>1, <2>2, <2>3, FileSessionStep
  <1> QED BY <1>3, <1>12, <1>13

LEMMA WriteAnsweredKeeps ==
    ASSUME IInv, NEW t \in Tokens, WriteAnswered(t), UNCHANGED agentVars
    PROVE  IInv'
  <1>1. /\ sess[t] \in Session /\ sess \in [Tokens -> Session]
        /\ SessionFacts(sess[t]) /\ calls \in Nat /\ timeouts \in Nat
        /\ DOMAIN told \subseteq Nat /\ \A o \in DOMAIN told : told[o] \in Nat
      BY CallFacts
  <1>2. sess[t].st = "writing" /\ Takes(t) /\ UNCHANGED <<wsUp, calls, timeouts>>
      BY AnsweredFacts DEF WriteAnswered
  <1> DEFINE off == sess[t].offset
             s == [sess[t] EXCEPT !.offset = @ + 1, !.data = Tail(@)]
             known == IF sess[t].clean THEN Put(told, off, Head(sess[t].data)) ELSE told
             done == [s EXCEPT !.st = "open"]
  <1>3. \/ /\ sess' = [sess EXCEPT ![t] = done]
           /\ told' = known
           /\ UNCHANGED c2a
        \/ /\ s.data # <<>>
           /\ sess' = [sess EXCEPT ![t] = s]
           /\ told' = Restrict(known, DOMAIN known \ {off + 1})
           /\ WriteChunk(t, s)
      BY DEF WriteAnswered
  <1>4. /\ sess[t].offset \in Nat /\ sess[t].data \in Seq(Nat) /\ sess[t].data # <<>>
        /\ sess[t].mode \in {"r", "w"}
      BY <1>1, <1>2 DEF Session, SessionFacts, OpenStates
  <1>5. Tail(sess[t].data) \in Seq(Nat) /\ Head(sess[t].data) \in Nat
      BY <1>4
  <1>6. DOMAIN known \subseteq Nat /\ \A o \in DOMAIN known : known[o] \in Nat
      BY <1>1, <1>4, <1>5 DEF Put
  <1> HIDE DEF known
  <1>7. /\ s \in Session /\ s.st = "writing" /\ s.mode = sess[t].mode
        /\ s.data \in Seq(Nat) /\ s.offset \in Nat
      <2>1. sess[t].offset + 1 \in Nat
          BY <1>4
      <2>2. s \in Session
          BY <1>1, <1>5, <2>1 DEF Session
      <2> QED BY <1>1, <1>2, <2>2 DEF Session
  <1> HIDE DEF s, off
  <1>8. done \in Session /\ done.st = "open" /\ done.mode = sess[t].mode
      BY <1>7 DEF Session
  <1> HIDE DEF done
  <1>9. SessionFacts(done) /\ done.st \in OpenStates \cup {"closed"} /\ OfFile(t)
      BY <1>2, <1>4, <1>8 DEF SessionFacts, OpenStates, OfFile
  <1>10. DOMAIN told' \subseteq Nat /\ \A o \in DOMAIN told' : told'[o] \in Nat
      <2>1. CASE told' = known
          BY <1>6, <2>1
      <2>2. CASE told' = Restrict(known, DOMAIN known \ {off + 1})
          BY <1>6, <2>2 DEF Restrict
      <2> QED BY <1>3, <2>1, <2>2
  <1>11. Noted
      BY <1>1, <1>2, <1>10 DEF Noted
  <1>12. UNCHANGED <<wsUp, agentVars>>
      BY <1>2
  <1>13. CASE sess' = [sess EXCEPT ![t] = done] /\ UNCHANGED c2a
      <2>1. Becomes(t, done) /\ Sends(t)
          BY <1>8, <1>9, <1>13 DEF Becomes, Sends
      <2> QED BY <1>2, <1>9, <1>11, <1>12, <2>1, FileSessionStep
  <1>14. CASE /\ s.data # <<>>
              /\ sess' = [sess EXCEPT ![t] = s]
              /\ WriteChunk(t, s)
      <2>1. SessionFacts(s) /\ s.st \in OpenStates \cup {"closed"} /\ Head(s.data) \in Nat
          BY <1>4, <1>7, <1>14 DEF SessionFacts, OpenStates
      <2>2. Becomes(t, s)
          BY <1>7, <1>14, <2>1 DEF Becomes
      <2>3. Sends(t)
          BY <1>7, <1>14, <2>1, RequestFacts DEF Sends, WriteChunk
      <2> QED BY <1>2, <1>9, <1>11, <1>12, <2>1, <2>2, <2>3, FileSessionStep
  <1> QED BY <1>3, <1>13, <1>14

LEMMA CountNone ==
    ASSUME NEW s, NEW n \in Nat, NEW t, \A i \in 1..n : s[i].token # t
    PROVE  CountOf(s, n, t) = 0
  <1>1. Of(s, n, t) = {}
      BY DEF Of
  <1> QED BY <1>1, FS_EmptySet DEF CountOf

\* An operation or a listing that is over was done.
LEMMA OperationAnsweredKeeps ==
    ASSUME IInv, NEW t \in Tokens, OperationAnswered(t), UNCHANGED agentVars
    PROVE  IInv'
  <1>1. /\ sess[t] \in Session /\ sess \in [Tokens -> Session]
        /\ SessionFacts(sess[t]) /\ calls \in Nat /\ timeouts \in Nat
        /\ DOMAIN told \subseteq Nat /\ \A o \in DOMAIN told : told[o] \in Nat
        /\ Tracked(t) /\ LinkType /\ AskedOnce
      BY CallFacts
  <1>2. PICK st \in {"operating", "listing"} : Answered(t, st)
      BY DEF OperationAnswered
  <1>3. /\ sess[t].st = st /\ Takes(t) /\ UNCHANGED <<wsUp, calls, timeouts>>
        /\ Received(t) /\ Answer(t).type = "OK"
      BY <1>2, AnsweredFacts, WantedFacts
  <1>4. PICK k \in 1..Len(a2c) :
              /\ a2c[k].token = t /\ Answer(t) = a2c[k] /\ Len(a2c) \in Nat
              /\ k \in DOMAIN a2c /\ \A j \in 1..(k - 1) : a2c[j].token # t
              /\ Gains(a2c', a2c, t, {})
      BY <1>1, <1>3, ReceiveFacts
  <1>5. outcome[t] \in {"done", "unread"} /\ (st = "operating" => outcome[t] = "done")
      BY <1>1, <1>3, <1>4 DEF Tracked, Replied
  <1>6. st = "listing" => sess[t].left = Total(t)
      <2> SUFFICES ASSUME st = "listing" PROVE sess[t].left = Total(t)
          OBVIOUS
      <2>1. sess[t].left + CountOf(a2c, k - 1, t) = Total(t)
          BY <1>1, <1>3, <1>4 DEF Tracked, Tallied, Total
      <2>2. CountOf(a2c, k - 1, t) = 0
          BY <1>4, CountNone
      <2>3. sess[t].left \in Nat /\ Total(t) \in Nat
          BY <1>1, EntriesAssumption DEF Session, Total
      <2> QED BY <2>1, <2>2, <2>3
  <1> DEFINE new == IF st = "listing" THEN "listed" ELSE "done"
             s == [sess[t] EXCEPT !.st = new]
             m == FileCmd("OK", t)
  <1>7. sess' = [sess EXCEPT ![t] = s]
      BY <1>1, <1>3 DEF OperationAnswered
  <1>8. new \in {"listed", "done"} /\ (new = "listed" => st = "listing")
        /\ (new = "done" => st = "operating")
      OBVIOUS
  <1> HIDE DEF new
  <1>9. s \in Session /\ s.st = new /\ s.left = sess[t].left
      BY <1>1, <1>8 DEF Session
  <1> HIDE DEF s
  <1>10. Becomes(t, s) /\ sess'[t] = s
      BY <1>1, <1>7, <1>8, <1>9 DEF Becomes, SessionFacts, OpenStates
  <1>11. /\ UNCHANGED <<told, listing, outcome, wsUp, agentVars>>
         /\ BrowserSend(m)
      BY <1>3 DEF OperationAnswered, agentVars
  <1>12. m \in Request /\ m.token = t /\ m.type = "OK" /\ ~Asks(m)
      BY RequestFacts DEF Asks
  <1> HIDE DEF m
  <1>13. Gains(c2a', c2a, t, {m})
      BY <1>1, <1>11, <1>12, SendFacts
  <1>14. \A i \in DOMAIN c2a : c2a[i].token = t => c2a[i].type = "OK"
      BY <1>1, <1>3, <1>5 DEF Tracked, Requested, Asks, OfFile, OpenStates
  <1>15. \A i \in DOMAIN c2a' : c2a'[i].token = t => c2a'[i].type = "OK"
      BY <1>12, <1>13, <1>14 DEF Gains
  <1>16. Requested(t)'
      BY <1>8, <1>9, <1>10, <1>15 DEF Requested, Asks
  <1>17. Replied(t)'
      BY <1>5, <1>8, <1>9, <1>10, <1>11 DEF Replied
  <1>18. Listed(t)' /\ Tallied(t)'
      BY <1>1, <1>5, <1>8, <1>9, <1>10, <1>11 DEF Tracked, Listed, Tallied, Total
  <1>19. Reported(t)'
      BY <1>5, <1>6, <1>8, <1>9, <1>10, <1>11 DEF Reported, Total, OfFile, OpenStates
  <1>20. Tracked(t)'
      BY <1>16, <1>17, <1>18, <1>19 DEF Tracked
  <1>21. Noted
      BY <1>1, <1>3, <1>11 DEF Noted
  <1>22. Sends(t)
      BY <1>11, <1>12 DEF Sends
  <1> QED BY <1>3, <1>10, <1>11, <1>20, <1>21, <1>22, BrowserStep

\* An entry of a listing has come.
LEMMA ListEntryAnsweredKeeps ==
    ASSUME IInv, NEW t \in Tokens, ListEntryAnswered(t), UNCHANGED agentVars
    PROVE  IInv'
  <1>1. /\ sess[t] \in Session /\ sess \in [Tokens -> Session]
        /\ SessionFacts(sess[t]) /\ calls \in Nat /\ timeouts \in Nat
        /\ DOMAIN told \subseteq Nat /\ \A o \in DOMAIN told : told[o] \in Nat
        /\ Tracked(t) /\ LinkType /\ AskedOnce
      BY CallFacts
  <1>2. /\ Received(t) /\ sess[t].st = "listing" /\ Answer(t).type = "FILEENTRY"
        /\ UNCHANGED <<c2a, told, wsUp, calls, timeouts>>
        /\ UNCHANGED <<listing, outcome>> /\ UNCHANGED <<wsUp, agentVars>>
      BY DEF ListEntryAnswered, Received, agentVars
  <1>3. PICK k \in 1..Len(a2c) :
              /\ a2c[k].token = t /\ Answer(t) = a2c[k] /\ Len(a2c) \in Nat
              /\ k \in DOMAIN a2c /\ \A j \in 1..(k - 1) : a2c[j].token # t
              /\ Gains(a2c', a2c, t, {}) /\ Without(a2c, k, a2c')
      BY <1>1, <1>2, ReceiveFacts
  <1> DEFINE s == [sess[t] EXCEPT !.left = @ + 1]
  <1>4. sess[t].left \in Nat
      BY <1>1 DEF Session
  <1>5. s \in Session /\ s.st = "listing" /\ s.left = sess[t].left + 1
      <2>1. sess[t].left + 1 \in Nat
          BY <1>4
      <2>2. s \in Session
          BY <1>1, <2>1 DEF Session
      <2> QED BY <1>1, <1>2, <2>2 DEF Session
  <1>6. sess' = [sess EXCEPT ![t] = s]
      BY <1>1 DEF ListEntryAnswered
  <1> HIDE DEF s
  <1>7. Becomes(t, s) /\ sess'[t] = s
      BY <1>1, <1>5, <1>6 DEF Becomes, SessionFacts, OpenStates
  <1>8. \A i \in DOMAIN c2a : c2a[i].token = t => c2a[i].type = "OK"
      BY <1>1, <1>2, <1>3 DEF Tracked, Requested, Asks, OfFile, OpenStates
  <1>9. Requested(t)'
      BY <1>2, <1>5, <1>7, <1>8 DEF Requested, Asks
  <1>10. \A i \in DOMAIN a2c' : a2c'[i].token = t =>
            \E j \in DOMAIN a2c : a2c[j] = a2c'[i]
      BY <1>3 DEF Gains
  <1>11. Replied(t)'
      BY <1>1, <1>2, <1>5, <1>7, <1>10 DEF Tracked, Replied
  <1>12. Listed(t)' /\ Reported(t)'
      BY <1>1, <1>2, <1>5, <1>7 DEF Tracked, Listed, Reported, Total, OfFile, OpenStates
  <1>13. /\ a2c \in Seq(Response) /\ DOMAIN a2c = 1..Len(a2c) /\ Len(a2c) \in Nat \ {0}
         /\ Len(a2c') = Len(a2c) - 1 /\ DOMAIN a2c' = 1..(Len(a2c) - 1)
         /\ \A i \in DOMAIN a2c' : a2c'[i] = IF i < k THEN a2c[i] ELSE a2c[i + 1]
      BY <1>1, <1>3 DEF LinkType, Without
  <1>14. \A n \in (k - 1)..(Len(a2c) - 1) :
             /\ CountOf(a2c', n, t) = CountOf(a2c, n + 1, t) - 1
             /\ CountOf(a2c, n + 1, t) \in Nat
      <2> SUFFICES ASSUME NEW n \in (k - 1)..(Len(a2c) - 1)
                   PROVE  /\ CountOf(a2c', n, t) = CountOf(a2c, n + 1, t) - 1
                          /\ CountOf(a2c, n + 1, t) \in Nat
          OBVIOUS
      <2>1. CountOf(a2c', n, t) =
                CountOf(a2c, n + 1, t) - (IF a2c[k].token = t THEN 1 ELSE 0)
          BY <1>3, <1>13, CountLess
      <2>2. CountOf(a2c, n + 1, t) \in Nat
          BY <1>13, OfIsFinite
      <2> QED BY <1>3, <2>1, <2>2
  <1>15. listing.token = t /\ wsUp =>
             s.left + CountOf(a2c', Len(a2c'), t) + listing.left = Entries
      <2> SUFFICES ASSUME listing.token = t, wsUp
                   PROVE  s.left + CountOf(a2c', Len(a2c'), t) + listing.left = Entries
          OBVIOUS
      <2>1. sess[t].left + CountOf(a2c, Len(a2c), t) + listing.left = Entries
          BY <1>1, <1>2 DEF Tracked, Tallied, Total
      <2>2. CountOf(a2c', Len(a2c'), t) = CountOf(a2c, Len(a2c), t) - 1
            /\ CountOf(a2c, Len(a2c), t) \in Nat
          <3>1. Len(a2c) - 1 \in (k - 1)..(Len(a2c) - 1) /\ (Len(a2c) - 1) + 1 = Len(a2c)
              BY <1>13
          <3> QED BY <1>13, <1>14, <3>1
      <2>3. listing.left \in Nat
          BY DEF IInv, Types, TypeOK, AgentTypeOK
      <2> DEFINE got == sess[t].left
                 count == CountOf(a2c, Len(a2c), t)
                 left == listing.left
      <2>4. got \in Nat /\ count \in Nat /\ left \in Nat /\ got + count + left = Entries
          BY <1>4, <2>1, <2>2, <2>3
      <2>5. s.left = got + 1 /\ CountOf(a2c', Len(a2c'), t) = count - 1
          BY <1>5, <2>2
      <2> HIDE DEF got, count, left
      <2>6. (got + 1) + (count - 1) + left = Entries
          BY <2>4
      <2> QED BY <2>5, <2>6 DEF left
  <1>16. ASSUME NEW i \in DOMAIN a2c', a2c'[i].token = t, a2c'[i].type = "OK"
         PROVE  s.left + CountOf(a2c', i - 1, t) = Total(t)
      <2>1. ~(i < k)
          BY <1>3, <1>13, <1>16
      <2>2. i + 1 \in DOMAIN a2c /\ a2c'[i] = a2c[i + 1] /\ (i + 1) - 1 = i
            /\ i - 1 \in (k - 1)..(Len(a2c) - 1) /\ (i - 1) + 1 = i
          BY <1>13, <2>1
      <2>3. CountOf(a2c', i - 1, t) = CountOf(a2c, i, t) - 1 /\ CountOf(a2c, i, t) \in Nat
          BY <1>14, <2>2
      <2>4. sess[t].left + CountOf(a2c, (i + 1) - 1, t) = Total(t)
          BY <1>1, <1>2, <1>16, <2>2 DEF Tracked, Tallied, Total
      <2>5. sess[t].left + CountOf(a2c, i, t) = Total(t)
          BY <2>2, <2>4
      <2> DEFINE got == sess[t].left
                 count == CountOf(a2c, i, t)
      <2>6. got \in Nat /\ count \in Nat /\ got + count = Total(t)
          BY <1>4, <2>3, <2>5
      <2>7. s.left = got + 1 /\ CountOf(a2c', i - 1, t) = count - 1
          BY <1>5, <2>3
      <2> HIDE DEF got, count
      <2>8. (got + 1) + (count - 1) = Total(t)
          BY <2>6
      <2> QED BY <2>7, <2>8
  <1>17. Tallied(t)'
      BY <1>2, <1>7, <1>15, <1>16 DEF Tallied, Total
  <1>18. Tracked(t)'
      BY <1>9, <1>11, <1>12, <1>17 DEF Tracked
  <1>19. Noted
      BY <1>1, <1>2 DEF Noted
  <1>20. Sends(t) /\ Takes(t)
      BY <1>2 DEF Sends, Takes
  <1> QED BY <1>2, <1>7, <1>18, <1>19, <1>20, BrowserStep

\* A call raises.  If no call of the session timed out, the agent has not done
\* what it asked for.
LEMMA RaiseKeeps ==
    ASSUME IInv, NEW t \in Tokens, NEW clean \in BOOLEAN, Waiting(t), Raise(t, clean),
           Takes(t), Noted, UNCHANGED <<wsUp, agentVars>>,
           clean /\ sess[t].st \in {"operating", "listing"} =>
               outcome[t] \notin {"none", "done", "unread"}
    PROVE  IInv'
  <1>1. /\ sess[t] \in Session /\ sess \in [Tokens -> Session]
        /\ SessionFacts(sess[t]) /\ Tracked(t) /\ LinkType /\ AskedOnce
      BY CallFacts
  <1> DEFINE st == sess[t].st
             new == IF st \in {"stating", "reading", "writing"} THEN "open" ELSE "failed"
             s == [[sess[t] EXCEPT !.left = 0, !.data = <<>>, !.clean = clean]
                      EXCEPT !.st = new]
  <1>2. sess' = [sess EXCEPT ![t] = s]
      BY DEF Raise
  <1>3. st \in {"opening", "sizing", "stating", "reading", "writing", "operating", "listing"}
      BY WantedFacts DEF Waiting
  <1>4. new \in {"open", "failed"}
      OBVIOUS
  <1>5. s \in Session /\ s.st = new /\ s.mode = sess[t].mode /\ s.clean = clean
      <2>1. <<>> \in Seq(Nat)
          OBVIOUS
      <2> HIDE DEF new
      <2>2. s \in Session
          BY <1>1, <1>4, <2>1 DEF Session
      <2> QED BY <1>1, <2>2 DEF Session
  <1>6. SessionFacts(s)
      <2> HIDE DEF s
      <2>1. s.st = "open" => sess[t].st \in OpenStates
          BY <1>5 DEF OpenStates
      <2>2. s.st \in {"open", "failed"}
          BY <1>4, <1>5
      <2> QED BY <1>1, <1>5, <2>1, <2>2 DEF SessionFacts, OpenStates
  <1>7. \/ UNCHANGED c2a /\ st \notin {"operating", "listing"}
        \/ BrowserSend(FileCmd("OK", t))
      BY DEF Raise
  <1> HIDE DEF s
  <1>8. Becomes(t, s) /\ sess'[t] = s
      BY <1>1, <1>2, <1>5, <1>6 DEF Becomes
  <1>9. FileCmd("OK", t) \in Request /\ FileCmd("OK", t).token = t /\ ~Asks(FileCmd("OK", t))
      BY RequestFacts DEF Asks
  <1>10. Sends(t)
      BY <1>7, <1>9 DEF Sends
  <1>11. CASE st \in {"stating", "reading", "writing"}
      <2>1. OfFile(t) /\ s.st \in OpenStates \cup {"closed"}
          BY <1>5, <1>11 DEF OfFile, OpenStates
      <2> QED BY <1>8, <1>10, <2>1, FileSessionStep
  <1>12. CASE st \notin {"stating", "reading", "writing"}
      <2>1. sess'[t].st = "failed" /\ sess'[t].clean = clean
          BY <1>5, <1>8, <1>12
      <2>2. Gains(a2c', a2c, t, {})
          BY <1>1, ReceiveFacts, GainsNothing DEF Takes
      <2>3. \E M : Gains(c2a', c2a, t, M) /\ \A m \in M : ~Asks(m)
          <3>1. CASE UNCHANGED c2a
              BY <3>1, GainsNothing
          <3>2. CASE BrowserSend(FileCmd("OK", t))
              <4>1. Gains(c2a', c2a, t, {FileCmd("OK", t)})
                  BY <1>1, <1>9, <3>2, SendFacts
              <4> QED BY <1>9, <4>1
          <3> QED BY <1>7, <3>1, <3>2
      <2>4. clean => /\ outcome[t] \notin {"done", "unread"} /\ listing.token # t
                     /\ \A i \in DOMAIN c2a : c2a[i].token = t => ~Asks(c2a[i])
          <3>1. CASE st \in {"opening", "sizing"}
              BY <1>1, <3>1 DEF Tracked, Requested, Listed, Reported, Total, OfFile, OpenStates
          <3>2. CASE st \in {"operating", "listing"}
              BY <1>1, <3>2 DEF Tracked, Requested, Listed
          <3> QED BY <1>3, <1>12, <3>1, <3>2
      <2>5. UNCHANGED <<listing, outcome>>
          BY DEF agentVars
      <2>6. Tracked(t)'
          BY <1>1, <2>1, <2>2, <2>3, <2>4, <2>5, FailStep
      <2> QED BY <1>8, <1>10, <2>6, BrowserStep
  <1> QED BY <1>11, <1>12

LEMMA RefusedKeeps ==
    ASSUME IInv, NEW t \in Tokens, Refused(t), UNCHANGED agentVars
    PROVE  IInv'
  <1>1. /\ sess[t] \in Session /\ Tracked(t) /\ LinkType
        /\ calls \in Nat /\ timeouts \in Nat
        /\ DOMAIN told \subseteq Nat /\ \A o \in DOMAIN told : told[o] \in Nat
      BY CallFacts
  <1>2. /\ Received(t) /\ Waiting(t) /\ Answer(t).type = "ERR" /\ Raise(t, sess[t].clean)
        /\ UNCHANGED <<told, wsUp, calls, timeouts>>
      BY DEF Refused, Received
  <1>3. PICK k \in 1..Len(a2c) :
            a2c[k].token = t /\ Answer(t) = a2c[k] /\ k \in DOMAIN a2c
      BY <1>1, <1>2, ReceiveFacts
  <1>4. sess[t].st \in {"operating", "listing"} => outcome[t] \notin {"none", "done", "unread"}
      BY <1>1, <1>2, <1>3 DEF Tracked, Replied
  <1>5. sess[t].clean \in BOOLEAN
      BY <1>1 DEF Session
  <1>6. Noted
      BY <1>1, <1>2 DEF Noted
  <1>7. Takes(t) /\ UNCHANGED <<wsUp, agentVars>>
      BY <1>2 DEF Takes
  <1> QED BY <1>2, <1>4, <1>5, <1>6, <1>7, RaiseKeeps

LEMMA TimeoutKeeps ==
    ASSUME IInv, NEW t \in Tokens, Timeout(t), UNCHANGED agentVars
    PROVE  IInv'
  <1>1. /\ calls \in Nat /\ timeouts \in Nat
        /\ DOMAIN told \subseteq Nat /\ \A o \in DOMAIN told : told[o] \in Nat
      BY CallFacts
  <1>2. /\ Waiting(t) /\ Raise(t, FALSE) /\ timeouts' = timeouts + 1
        /\ UNCHANGED <<a2c, wsUp, told, calls>>
      BY DEF Timeout
  <1>3. Noted
      BY <1>1, <1>2 DEF Noted
  <1>4. Takes(t) /\ UNCHANGED <<wsUp, agentVars>>
      BY <1>2 DEF Takes
  <1> QED BY <1>2, <1>3, <1>4, RaiseKeeps

LEMMA SkipKeeps ==
    ASSUME IInv, NEW t \in Tokens, Skip(t), UNCHANGED agentVars
    PROVE  IInv'
  <1>1. /\ sess[t] \in Session /\ sess \in [Tokens -> Session] /\ SessionFacts(sess[t])
        /\ Tracked(t) /\ LinkType /\ calls \in Nat /\ timeouts \in Nat
        /\ DOMAIN told \subseteq Nat /\ \A o \in DOMAIN told : told[o] \in Nat
      BY CallFacts
  <1>2. /\ Received(t) /\ UNCHANGED <<c2a, sess, told, wsUp, calls, timeouts>>
        /\ UNCHANGED <<listing, outcome>>
      BY DEF Skip, Received, agentVars
  <1>3. PICK k \in 1..Len(a2c) :
            /\ a2c[k].token = t /\ Answer(t) = a2c[k] /\ k \in DOMAIN a2c
            /\ Gains(a2c', a2c, t, {})
      BY <1>1, <1>2, ReceiveFacts
  <1>4. sess[t].st # "listing"
      <2>1. sess[t].st = "listing" => Answer(t).type \in {"OK", "ERR", "FILEENTRY"}
          BY <1>1, <1>3 DEF Tracked, Replied
      <2> QED BY <2>1, WantedFacts DEF Skip
  <1>5. Requested(t)' /\ Listed(t)' /\ Replied(t)' /\ Reported(t)'
      <2>1. Gains(c2a', c2a, t, {}) /\ sess'[t] = sess[t] /\ outcome'[t] = outcome[t]
            /\ listing' = listing
          BY <1>2, GainsNothing
      <2> QED BY <1>1, <1>3, <2>1, Untouched DEF Tracked
  <1>6. Tracked(t)'
      BY <1>2, <1>4, <1>5 DEF Tracked, Tallied, Total
  <1>7. Becomes(t, sess[t])
      BY <1>1, <1>2 DEF Becomes
  <1>8. Noted
      BY <1>1, <1>2 DEF Noted
  <1>9. Sends(t) /\ Takes(t) /\ UNCHANGED <<wsUp, agentVars>>
      BY <1>2 DEF Sends, Takes
  <1> QED BY <1>6, <1>7, <1>8, <1>9, BrowserStep

LEMMA BrowserKeeps ==
    ASSUME IInv, BrowserNext, UNCHANGED agentVars
    PROVE  IInv'
  <1> SUFFICES ASSUME NEW t \in Tokens, Answers(t) \/ Calls(t) \/ Timeout(t)
               PROVE  IInv'
      BY DEF BrowserNext
  <1>1. CASE Answers(t)
      BY <1>1, OpenAnsweredKeeps, StatAnsweredKeeps, ReadAnsweredKeeps, WriteAnsweredKeeps,
         OperationAnsweredKeeps, ListEntryAnsweredKeeps, RefusedKeeps, SkipKeeps
         DEF Answers
  <1>2. CASE Calls(t)
      <2>1. CASE \E mode \in {"r", "w"} : Open(t, mode)
          BY <2>1, OpenKeeps
      <2>2. CASE Stat(t) \/ Seek(t) \/ Read(t) \/ Write(t) \/ Close(t)
          BY <2>2, StatKeeps, SeekKeeps, ReadKeeps, WriteKeeps, CloseKeeps
      <2>3. CASE Operation(t, "operating", "FILEOP") \/ Operation(t, "listing", "DIRLS")
          <3>1. /\ <<"operating", "FILEOP">> \in
                       {<<"operating", "FILEOP">>, <<"listing", "DIRLS">>}
                /\ <<"listing", "DIRLS">> \in
                       {<<"operating", "FILEOP">>, <<"listing", "DIRLS">>}
              OBVIOUS
          <3>2. CASE Operation(t, "operating", "FILEOP")
              BY <3>1, <3>2, OperationKeeps
          <3>3. CASE Operation(t, "listing", "DIRLS")
              BY <3>1, <3>3, OperationKeeps
          <3> QED BY <2>3, <3>2, <3>3
      <2> QED BY <1>2, <2>1, <2>2, <2>3 DEF Calls
  <1>3. CASE Timeout(t)
      BY <1>3, TimeoutKeeps
  <1> QED BY <1>1, <1>2, <1>3

-----------------------------------------------------------------------------
(* The agent.                                                               *)

LEMMA CommandTypes ==
    ASSUME NEW m \in Request
    PROVE  /\ m.token \in Tokens
           /\ m.type = "FILEREAD" => m.offset \in Nat
           /\ m.type = "FILEDATA" => m.offset \in Nat /\ m.data \in Chunk
  <1>1. CASE m \in [type : {"FILESTAT", "OK", "FILEOP", "DIRLS"}, token : Tokens]
      BY <1>1
  <1>2. CASE m \in [type : {"FILEOPEN"}, token : Tokens, mode : {"r", "w"}]
      BY <1>2
  <1>3. CASE m \in [type : {"FILEREAD"}, token : Tokens, offset : Nat]
      BY <1>3
  <1>4. CASE m \in [type : {"FILEDATA"}, token : Tokens, offset : Nat, data : Chunk]
      BY <1>4
  <1> QED BY <1>1, <1>2, <1>3, <1>4 DEF Request

LEMMA WriteAtType ==
    ASSUME NEW file \in Seq(Nat), NEW off \in Nat, NEW data \in Seq(Nat)
    PROVE  WriteAt(file, off, data) \in Seq(Nat)
  <1> DEFINE n == IF Len(file) > off + Len(data) THEN Len(file) ELSE off + Len(data)
  <1>1. Len(file) \in Nat /\ Len(data) \in Nat /\ n \in Nat
      OBVIOUS
  <1>2. ASSUME NEW i \in 1..n
        PROVE  (IF i \in (off + 1)..(off + Len(data)) THEN data[i - off]
                ELSE IF i <= Len(file) THEN file[i] ELSE 0) \in Nat
      <2>1. CASE i \in (off + 1)..(off + Len(data))
          <3>1. i - off \in 1..Len(data)
              BY <1>1, <2>1
          <3> QED BY <2>1, <3>1
      <2>2. CASE i \notin (off + 1)..(off + Len(data))
          <3>1. i <= Len(file) => i \in 1..Len(file)
              BY <1>1
          <3> QED BY <2>2, <3>1
      <2> QED BY <2>1, <2>2
  <1>3. WriteAt(file, off, data) =
            [i \in 1..n |-> IF i \in (off + 1)..(off + Len(data)) THEN data[i - off]
                            ELSE IF i <= Len(file) THEN file[i] ELSE 0]
      BY DEF WriteAt
  <1> HIDE DEF n
  <1> QED BY <1>1, <1>2, <1>3

LEMMA ReadAtType ==
    ASSUME NEW file \in Seq(Nat), NEW off \in Nat
    PROVE  ReadAt(file, off, 1) \in {d \in Seq(Nat) : Len(d) <= 1}
  <1> DEFINE last == IF off + 1 < Len(file) THEN off + 1 ELSE Len(file)
  <1>1. Len(file) \in Nat /\ last \in Nat /\ last <= off + 1 /\ last <= Len(file)
      OBVIOUS
  <1>2. ReadAt(file, off, 1) = SubSeq(file, off + 1, last)
      BY DEF ReadAt
  <1> HIDE DEF last
  <1>3. SubSeq(file, off + 1, last) \in Seq(Nat) /\ Len(SubSeq(file, off + 1, last)) <= 1
      BY <1>1
  <1> QED BY <1>2, <1>3

LEMMA FlushedType ==
    ASSUME AgentTypeOK, NEW h \in Handle
    PROVE  Flushed(h) \in Seq(Nat)
  <1>1. disk.data \in Seq(Nat)
      BY DEF AgentTypeOK
  <1>2. ASSUME h.buffer # <<>>
        PROVE  Head(h.buffer).offset \in Nat /\ Head(h.buffer).data \in Seq(Nat)
      <2>1. h.buffer \in Seq([offset : Nat, data : Seq(Nat)])
          BY DEF Handle, Buffer
      <2>2. Head(h.buffer) \in [offset : Nat, data : Seq(Nat)]
          BY <1>2, <2>1, Shift
      <2> QED BY <2>2
  <1> QED BY <1>1, <1>2, WriteAtType DEF Flushed

\* A step of the agent keeps the invariant if it does for the token it is about.
LEMMA AgentStep ==
    ASSUME IInv, NEW t, UNCHANGED <<browserVars, wsUp>>, AgentTypeOK', ListingType',
           c2a' = c2a \/ \E type : Command(type),
           a2c' = a2c \/ \E m \in Response : m.token = t /\ Reply(m),
           \A u \in Tokens : u # t => outcome'[u] = outcome[u],
           \A u \in Tokens : u # t => (listing'.token = u => listing' = listing),
           t \in Tokens => Tracked(t)'
    PROVE  IInv'
  <1>1. /\ TypeOK /\ LinkType /\ AskedOnce
        /\ \A u \in Tokens : SessionFacts(sess[u])
      BY DEF IInv, Types
  <1>2. c2a' \in Seq(Request) /\ AskedOnce' /\ \A u : Gains(c2a', c2a, u, {})
      <2>1. CASE c2a' = c2a
          BY <1>1, <2>1, GainsNothing DEF LinkType, AskedOnce
      <2>2. CASE \E type : Command(type)
          BY <1>1, <2>2, CommandFacts
      <2> QED BY <2>1, <2>2
  <1>3. a2c' \in Seq(Response)
      <2>1. CASE a2c' = a2c
          BY <1>1, <2>1 DEF LinkType
      <2>2. CASE \E m \in Response : m.token = t /\ Reply(m)
          BY <1>1, <2>2, ReplyFacts
      <2> QED BY <2>1, <2>2
  <1>4. /\ UNCHANGED <<sess, wsUp>> /\ BrowserTypeOK'
        /\ \A u \in Tokens : SessionFacts(sess'[u])
      BY <1>1 DEF browserVars, TypeOK, BrowserTypeOK
  <1>5. ASSUME NEW u \in Tokens, u # t
        PROVE  Tracked(u)'
      <2>1. outcome'[u] = outcome[u] /\ (listing'.token = u => listing' = listing)
          BY <1>5
      <2>2. Gains(c2a', c2a, u, {})
          BY <1>2
      <2> QED BY <1>4, <1>5, <2>1, <2>2, AgentOthers
  <1>6. \A u \in Tokens : Tracked(u)'
      BY <1>5
  <1>7. TypeOK' /\ LinkType'
      BY <1>1, <1>2, <1>3, <1>4 DEF TypeOK, LinkType
  <1> QED BY <1>2, <1>4, <1>6, <1>7 DEF IInv, Types

\* A command for an open file, or for one that is not open any more, is
\* answered; the OK of close is not.
LEMMA FileCommand ==
    ASSUME IInv, NEW type \in {"FILEOPEN", "FILEREAD", "FILEDATA", "FILESTAT", "OK"},
           Command(type), UNCHANGED <<browserVars, listing, outcome>>, AgentTypeOK',
           \/ a2c' = a2c
           \/ \E m \in Response : /\ m.token = Head(c2a).token /\ Reply(m)
                                  /\ m.type # "OK" /\ type # "OK"
    PROVE  IInv'
  <1>1. LinkType /\ AskedOnce /\ ListingType
      BY DEF IInv, Types
  <1>2. /\ Head(c2a) \in Request /\ Head(c2a).type = type /\ Head(c2a) = c2a[1]
        /\ 1 \in DOMAIN c2a /\ wsUp' = wsUp /\ \A u : Gains(c2a', c2a, u, {})
      BY <1>1, CommandFacts
  <1>3. PICK t \in Tokens : t = Head(c2a).token
      BY <1>2, CommandTypes
  <1>4. Tracked(t)
      BY DEF IInv
  <1>5. sess'[t] = sess[t] /\ outcome'[t] = outcome[t] /\ listing' = listing
      BY DEF browserVars
  <1>6. Gains(c2a', c2a, t, {}) /\ wsUp' = wsUp
      BY <1>2
  <1>7. ASSUME a2c' = a2c
        PROVE  Tracked(t)'
      <2>1. Gains(a2c', a2c, t, {})
          BY <1>7, GainsNothing
      <2>2. Requested(t)' /\ Listed(t)' /\ Replied(t)' /\ Reported(t)'
          BY <1>4, <1>5, <1>6, <2>1, Untouched DEF Tracked
      <2>3. Tallied(t)'
          BY <1>4, <1>5, <1>6, <1>7 DEF Tracked, Tallied, Total
      <2> QED BY <2>2, <2>3 DEF Tracked
  <1>8. ASSUME NEW m \in Response, m.token = t, Reply(m), m.type # "OK", type # "OK"
        PROVE  Tracked(t)'
      <2>1. OfFile(t) \/ sess[t].st = "failed"
          BY <1>2, <1>3, <1>4, <1>8 DEF Tracked, Requested
      <2>2. sess[t].st \notin {"new", "operating", "listing"}
          BY <2>1 DEF OfFile, OpenStates
      <2>3. Gains(a2c', a2c, t, {m})
          BY <1>1, <1>8, ReplyFacts
      <2>4. OfFile(t)' <=> OfFile(t)
          BY <1>5 DEF OfFile
      <2>5. Requested(t)'
          <3>1. \A i \in DOMAIN c2a' : c2a'[i].token = t =>
                    \E j \in DOMAIN c2a : c2a[j] = c2a'[i]
              BY <1>6 DEF Gains
          <3> QED BY <1>4, <1>5, <2>2, <2>4, <3>1 DEF Tracked, Requested
      <2>6. Replied(t)'
          <3>1. \A i \in DOMAIN a2c' : a2c'[i].token = t =>
                    a2c'[i] = m \/ \E j \in DOMAIN a2c : a2c[j] = a2c'[i]
              BY <2>3 DEF Gains
          <3> QED BY <1>4, <1>5, <1>8, <2>2, <3>1 DEF Tracked, Replied
      <2>7. Listed(t)' /\ Reported(t)' /\ Tallied(t)'
          BY <1>4, <1>5, <2>2, <2>4 DEF Tracked, Listed, Reported, Tallied, Total
      <2> QED BY <2>5, <2>6, <2>7 DEF Tracked
  <1>9. Tracked(t)'
      BY <1>3, <1>7, <1>8
  <1>10. /\ UNCHANGED <<browserVars, wsUp>> /\ ListingType'
         /\ \A u \in Tokens : u # t => outcome'[u] = outcome[u]
         /\ \A u \in Tokens : u # t => (listing'.token = u => listing' = listing)
      BY <1>1, <1>5, <1>6 DEF ListingType
  <1>11. a2c' = a2c \/ \E m \in Response : m.token = t /\ Reply(m)
      BY <1>3
  <1>12. c2a' = c2a \/ \E x : Command(x)
      OBVIOUS
  <1> QED BY <1>9, <1>10, <1>11, <1>12, AgentStep

LEMMA ReplyTypes ==
    ASSUME NEW t \in Tokens
    PROVE  /\ \A type \in {"CONTINUE", "OK", "ERR"} :
                 /\ FileCmd(type, t) \in Response /\ FileCmd(type, t).token = t
                 /\ FileCmd(type, t).type = type
           /\ \A size \in Nat :
                 /\ FileEntry(t, size) \in Response /\ FileEntry(t, size).token = t
                 /\ FileEntry(t, size).type = "FILEENTRY"
           /\ \A off \in Nat : \A data \in {d \in Seq(Nat) : Len(d) <= 1} :
                 /\ FileData(t, off, data) \in Response /\ FileData(t, off, data).token = t
                 /\ FileData(t, off, data).type = "FILEDATA"
  BY DEF FileCmd, FileEntry, FileData, Response

LEMMA CommandToken ==
    ASSUME IInv, NEW type, Command(type)
    PROVE  /\ Head(c2a) \in Request /\ Head(c2a).type = type
           /\ Head(c2a).token \in Tokens
           /\ AgentTypeOK /\ listing = Idle /\ wsUp' = wsUp
  <1>1. LinkType /\ AskedOnce /\ AgentTypeOK
      BY DEF IInv, Types, TypeOK
  <1>2. Head(c2a) \in Request /\ Head(c2a).type = type /\ listing = Idle /\ wsUp' = wsUp
      BY <1>1, CommandFacts
  <1> QED BY <1>1, <1>2, CommandTypes

LEMMA OpenFileKeeps ==
    ASSUME IInv, OpenFile, UNCHANGED browserVars
    PROVE  IInv'
  <1>1. Command("FILEOPEN") /\ UNCHANGED <<full, listing, outcome>>
      BY DEF OpenFile
  <1>2. Head(c2a).token \in Tokens /\ AgentTypeOK
      BY <1>1, CommandToken
  <1>3. PICK t \in Tokens : t = Head(c2a).token
      BY <1>2
  <1>4. /\ FileCmd("CONTINUE", t) \in Response /\ FileCmd("CONTINUE", t).token = t
        /\ FileCmd("CONTINUE", t).type # "OK"
        /\ FileCmd("ERR", t) \in Response /\ FileCmd("ERR", t).token = t
        /\ FileCmd("ERR", t).type # "OK"
      BY ReplyTypes
  <1> DEFINE mode == Head(c2a).mode
             new == [mode |-> mode, buffer |-> <<>>, closed |-> FALSE]
  <1>5. CASE /\ mode \in {"r", "w"}
             /\ disk' = IF mode = "w" THEN [exists |-> TRUE, data |-> <<>>] ELSE disk
             /\ file_queues' = Put(file_queues, t, new)
             /\ Reply(FileCmd("CONTINUE", t))
      <2>1. <<>> \in Buffer
          BY DEF Buffer
      <2>2. new \in Handle
          BY <1>5, <2>1 DEF Handle
      <2>3. disk' \in [exists : BOOLEAN, data : Seq(Nat)]
          BY <1>2, <1>5 DEF AgentTypeOK
      <2> HIDE DEF new, mode
      <2>4. /\ DOMAIN file_queues' \subseteq Tokens
            /\ \A u \in DOMAIN file_queues' : file_queues'[u] \in Handle
          BY <1>2, <1>5, <2>2 DEF AgentTypeOK, Put
      <2>5. AgentTypeOK'
          BY <1>1, <1>2, <2>3, <2>4 DEF AgentTypeOK
      <2> QED BY <1>1, <1>3, <1>4, <1>5, <2>5, FileCommand
  <1>6. CASE Failed(t) /\ UNCHANGED <<disk, file_queues>>
      <2>1. AgentTypeOK'
          BY <1>1, <1>2, <1>6 DEF AgentTypeOK
      <2> QED BY <1>1, <1>3, <1>4, <1>6, <2>1, FileCommand DEF Failed
  <1> QED BY <1>3, <1>5, <1>6 DEF OpenFile

LEMMA ReadFileKeeps ==
    ASSUME IInv, ReadFile, UNCHANGED browserVars
    PROVE  IInv'
  <1>1. Command("FILEREAD") /\ UNCHANGED <<disk, full, file_queues, listing, outcome>>
      BY DEF ReadFile, agentVars
  <1>2. /\ Head(c2a).token \in Tokens /\ AgentTypeOK /\ Head(c2a) \in Request
        /\ Head(c2a).type = "FILEREAD"
      BY <1>1, CommandToken
  <1>3. PICK t \in Tokens : t = Head(c2a).token
      BY <1>2
  <1>4. Head(c2a).offset \in Nat
      BY <1>2, CommandTypes
  <1> DEFINE data == ReadAt(disk.data, Head(c2a).offset, 1)
             reply == FileData(t, Head(c2a).offset, data)
  <1>5. data \in {d \in Seq(Nat) : Len(d) <= 1}
      <2>1. disk.data \in Seq(Nat)
          BY <1>2 DEF AgentTypeOK
      <2> QED BY <1>4, <2>1, ReadAtType
  <1> HIDE DEF data
  <1>6. /\ reply \in Response /\ reply.token = t /\ reply.type # "OK"
        /\ FileCmd("ERR", t) \in Response /\ FileCmd("ERR", t).token = t
        /\ FileCmd("ERR", t).type # "OK"
      BY <1>4, <1>5, ReplyTypes
  <1>7. Reply(reply) \/ Reply(FileCmd("ERR", t))
      BY <1>3 DEF ReadFile, Failed, data
  <1> HIDE DEF reply
  <1>8. AgentTypeOK'
      BY <1>1, <1>2 DEF AgentTypeOK
  <1> QED BY <1>1, <1>3, <1>6, <1>7, <1>8, FileCommand

LEMMA StatFileKeeps ==
    ASSUME IInv, StatFile, UNCHANGED browserVars
    PROVE  IInv'
  <1>1. Command("FILESTAT") /\ UNCHANGED <<disk, full, file_queues, listing, outcome>>
      BY DEF StatFile, agentVars
  <1>2. Head(c2a).token \in Tokens /\ AgentTypeOK
      BY <1>1, CommandToken
  <1>3. PICK t \in Tokens : t = Head(c2a).token
      BY <1>2
  <1> DEFINE reply == FileEntry(t, Len(disk.data))
  <1>4. Len(disk.data) \in Nat
      BY <1>2 DEF AgentTypeOK
  <1>5. /\ reply \in Response /\ reply.token = t /\ reply.type # "OK"
        /\ FileCmd("ERR", t) \in Response /\ FileCmd("ERR", t).token = t
        /\ FileCmd("ERR", t).type # "OK"
      BY <1>4, ReplyTypes
  <1>6. Reply(reply) \/ Reply(FileCmd("ERR", t))
      BY <1>3 DEF StatFile, Failed
  <1> HIDE DEF reply
  <1>7. AgentTypeOK'
      BY <1>1, <1>2 DEF AgentTypeOK
  <1> QED BY <1>1, <1>3, <1>5, <1>6, <1>7, FileCommand

LEMMA WriteFileKeeps ==
    ASSUME IInv, WriteFile, UNCHANGED browserVars
    PROVE  IInv'
  <1>1. Command("FILEDATA") /\ UNCHANGED <<full, listing, outcome>>
      BY DEF WriteFile
  <1>2. /\ Head(c2a).token \in Tokens /\ AgentTypeOK /\ Head(c2a) \in Request
        /\ Head(c2a).type = "FILEDATA"
      BY <1>1, CommandToken
  <1>3. PICK t \in Tokens : t = Head(c2a).token
      BY <1>2
  <1>4. /\ FileCmd("CONTINUE", t) \in Response /\ FileCmd("CONTINUE", t).token = t
        /\ FileCmd("CONTINUE", t).type # "OK"
        /\ FileCmd("ERR", t) \in Response /\ FileCmd("ERR", t).token = t
        /\ FileCmd("ERR", t).type # "OK"
      BY ReplyTypes
  <1>5. Head(c2a).offset \in Nat /\ Head(c2a).data \in Seq(Nat)
      BY <1>2, CommandTypes DEF Chunk
  <1> DEFINE w == [offset |-> Head(c2a).offset, data |-> Head(c2a).data]
             file == Flushed(file_queues[t])
  <1>6. CASE /\ Opened(t)
             /\ \E b \in {<<w>>, <<>>} : file_queues' = [file_queues EXCEPT ![t].buffer = b]
             /\ \/ disk' = [disk EXCEPT !.data = file]
                \/ disk' = [disk EXCEPT !.data = WriteAt(file, w.offset, w.data)]
             /\ Reply(FileCmd("CONTINUE", t)) \/ Reply(FileCmd("ERR", t))
      <2>1. t \in DOMAIN file_queues /\ file_queues[t] \in Handle
          BY <1>2, <1>6 DEF Opened, AgentTypeOK
      <2>2. file \in Seq(Nat)
          BY <1>2, <2>1, FlushedType
      <2>3. w \in [offset : Nat, data : Seq(Nat)] /\ w.offset = Head(c2a).offset
            /\ w.data = Head(c2a).data
          BY <1>5
      <2> HIDE DEF w, file
      <2>4. WriteAt(file, w.offset, w.data) \in Seq(Nat)
          BY <1>5, <2>2, <2>3, WriteAtType
      <2>5. disk' \in [exists : BOOLEAN, data : Seq(Nat)]
          BY <1>2, <1>6, <2>2, <2>4 DEF AgentTypeOK
      <2>6. <<w>> \in Buffer /\ <<>> \in Buffer
          BY <2>3 DEF Buffer
      <2>7. PICK b \in Buffer : file_queues' = [file_queues EXCEPT ![t].buffer = b]
          BY <1>6, <2>6
      <2>8. [file_queues[t] EXCEPT !.buffer = b] \in Handle
          BY <2>1, <2>7 DEF Handle
      <2>9. /\ DOMAIN file_queues' = DOMAIN file_queues
            /\ \A u \in DOMAIN file_queues :
                   u # t => file_queues'[u] = file_queues[u]
            /\ file_queues'[t] = [file_queues[t] EXCEPT !.buffer = b]
          BY <2>1, <2>7
      <2>10. /\ DOMAIN file_queues' \subseteq Tokens
             /\ \A u \in DOMAIN file_queues' : file_queues'[u] \in Handle
          BY <1>2, <2>8, <2>9 DEF AgentTypeOK
      <2>11. AgentTypeOK'
          BY <1>1, <1>2, <2>5, <2>10 DEF AgentTypeOK
      <2> QED BY <1>1, <1>3, <1>4, <1>6, <2>11, FileCommand
  <1>7. CASE Failed(t) /\ UNCHANGED <<disk, file_queues>>
      <2>1. AgentTypeOK'
          BY <1>1, <1>2, <1>7 DEF AgentTypeOK
      <2> QED BY <1>1, <1>3, <1>4, <1>7, <2>1, FileCommand DEF Failed
  <1> QED BY <1>3, <1>6, <1>7 DEF WriteFile, Failed

LEMMA CloseFileKeeps ==
    ASSUME IInv, CloseFile, UNCHANGED browserVars
    PROVE  IInv'
  <1>1. Command("OK") /\ UNCHANGED <<a2c, full, listing, outcome>>
      BY DEF CloseFile
  <1>2. Head(c2a).token \in Tokens /\ AgentTypeOK
      BY <1>1, CommandToken
  <1>3. PICK t \in Tokens : t = Head(c2a).token
      BY <1>2
  <1>4. CASE UNCHANGED <<disk, file_queues>>
      <2>1. AgentTypeOK'
          BY <1>1, <1>2, <1>4 DEF AgentTypeOK
      <2> QED BY <1>1, <2>1, FileCommand
  <1>5. CASE /\ Opened(t)
             /\ disk' = [disk EXCEPT !.data = Flushed(file_queues[t])]
             /\ file_queues' = Restrict(file_queues, DOMAIN file_queues \ {t})
      <2>1. file_queues[t] \in Handle
          BY <1>2, <1>5 DEF Opened, AgentTypeOK
      <2>2. Flushed(file_queues[t]) \in Seq(Nat)
          BY <1>2, <2>1, FlushedType
      <2>3. disk' \in [exists : BOOLEAN, data : Seq(Nat)]
          BY <1>2, <1>5, <2>2 DEF AgentTypeOK
      <2>4. /\ DOMAIN file_queues' \subseteq Tokens
            /\ \A u \in DOMAIN file_queues' : file_queues'[u] \in Handle
          BY <1>2, <1>5 DEF AgentTypeOK, Restrict
      <2>5. AgentTypeOK'
          BY <1>1, <1>2, <2>3, <2>4 DEF AgentTypeOK
      <2> QED BY <1>1, <2>5, FileCommand
  <1>6. CASE /\ Opened(t)
             /\ file_queues' = [file_queues EXCEPT ![t].closed = TRUE]
             /\ UNCHANGED disk
      <2>1. t \in DOMAIN file_queues /\ file_queues[t] \in Handle
          BY <1>2, <1>6 DEF Opened, AgentTypeOK
      <2>2. [file_queues[t] EXCEPT !.closed = TRUE] \in Handle
          BY <2>1 DEF Handle
      <2>3. /\ DOMAIN file_queues' = DOMAIN file_queues
            /\ \A u \in DOMAIN file_queues :
                   u # t => file_queues'[u] = file_queues[u]
            /\ file_queues'[t] = [file_queues[t] EXCEPT !.closed = TRUE]
          BY <1>6, <2>1
      <2>4. AgentTypeOK'
          BY <1>1, <1>2, <1>6, <2>2, <2>3 DEF AgentTypeOK
      <2> QED BY <1>1, <2>4, FileCommand
  <1> QED BY <1>3, <1>4, <1>5, <1>6 DEF CloseFile

LEMMA NoneIsNoToken ==
    ASSUME NEW t \in Tokens
    PROVE  Idle.token # t
  BY NoneAssumption DEF Idle

\* What is known when an operation or a listing is taken up.
LEMMA AskedFacts ==
    ASSUME IInv, NEW type \in {"FILEOP", "DIRLS"}, Command(type)
    PROVE  \E t \in Tokens :
              /\ t = Head(c2a).token /\ listing = Idle /\ wsUp' = wsUp
              /\ AgentTypeOK /\ Tracked(t) /\ outcome[t] = "none"
              /\ Gains(c2a', c2a, t, {})
              /\ \A i \in DOMAIN c2a' : c2a'[i].token = t => ~Asks(c2a'[i])
              /\ sess[t].st # "new"
              /\ sess[t].st # "operating" /\ sess[t].st # "listing" =>
                    sess[t].st = "failed" /\ ~sess[t].clean
              /\ type = "FILEOP" => sess[t].st # "listing"
              /\ type = "DIRLS" => sess[t].st # "operating"
              /\ sess[t].st = "listing" =>
                    sess[t].left = 0 /\ \A k \in DOMAIN a2c : a2c[k].token # t
  <1>1. LinkType /\ AskedOnce
      BY DEF IInv, Types
  <1>2. /\ Head(c2a) \in Request /\ Head(c2a).token \in Tokens /\ AgentTypeOK
        /\ Head(c2a).type = type
      BY CommandToken
  <1>3. PICK t \in Tokens : t = Head(c2a).token
      BY <1>2
  <1>4. Asks(Head(c2a)) /\ Tracked(t)
      BY <1>2 DEF Asks, IInv
  <1>5. /\ Head(c2a) = c2a[1] /\ 1 \in DOMAIN c2a /\ listing = Idle /\ wsUp' = wsUp
        /\ Gains(c2a', c2a, t, {})
        /\ \A i \in DOMAIN c2a' : ~(Asks(c2a'[i]) /\ c2a'[i].token = Head(c2a).token)
      BY <1>1, <1>4, CommandFacts
  <1>6. \A i \in DOMAIN c2a' : c2a'[i].token = t => ~Asks(c2a'[i])
      BY <1>3, <1>5
  <1>7. /\ outcome[t] = "none" /\ sess[t].st # "new"
        /\ sess[t].st # "operating" /\ sess[t].st # "listing" =>
              sess[t].st = "failed" /\ ~sess[t].clean
        /\ sess[t].st = "operating" => type = "FILEOP"
        /\ sess[t].st = "listing" => /\ type = "DIRLS" /\ sess[t].left = 0
                                     /\ \A k \in DOMAIN a2c : a2c[k].token # t
      BY <1>2, <1>3, <1>4, <1>5 DEF Tracked, Requested
  <1> QED BY <1>2, <1>3, <1>4, <1>5, <1>6, <1>7

LEMMA OperateKeeps ==
    ASSUME IInv, Operate, UNCHANGED browserVars
    PROVE  IInv'
  <1>1. Command("FILEOP") /\ UNCHANGED <<disk, full, file_queues, listing>>
      BY DEF Operate
  <1>2. PICK t \in Tokens :
              /\ t = Head(c2a).token /\ listing = Idle /\ wsUp' = wsUp
              /\ AgentTypeOK /\ Tracked(t) /\ outcome[t] = "none"
              /\ Gains(c2a', c2a, t, {})
              /\ \A i \in DOMAIN c2a' : c2a'[i].token = t => ~Asks(c2a'[i])
              /\ sess[t].st # "new"
              /\ sess[t].st # "operating" /\ sess[t].st # "listing" =>
                    sess[t].st = "failed" /\ ~sess[t].clean
              /\ sess[t].st # "listing"
      BY <1>1, AskedFacts
  <1>3. PICK result \in {<<"OK", "done">>, <<"ERR", "failed">>} :
              /\ Reply(FileCmd(result[1], t))
              /\ outcome' = [outcome EXCEPT ![t] = result[2]]
      <2>1. CASE Reply(FileCmd("OK", t)) /\ outcome' = [outcome EXCEPT ![t] = "done"]
          BY <2>1
      <2>2. CASE Failed(t) /\ outcome' = [outcome EXCEPT ![t] = "failed"]
          BY <2>2 DEF Failed
      <2> QED BY <1>2, <2>1, <2>2 DEF Operate
  <1> DEFINE m == FileCmd(result[1], t)
  <1>4. /\ m \in Response /\ m.token = t /\ m.type = result[1]
      BY ReplyTypes
  <1>5. \/ result[1] = "OK" /\ result[2] = "done"
        \/ result[1] = "ERR" /\ result[2] = "failed"
      OBVIOUS
  <1>6. Reply(m)
      BY <1>3
  <1> HIDE DEF m
  <1>7. outcome \in [Tokens -> {"none", "done", "unread", "failed"}] /\ LinkType /\ ListingType
      BY <1>2 DEF AgentTypeOK, IInv, Types
  <1>8. /\ outcome'[t] = result[2] /\ \A u \in Tokens : u # t => outcome'[u] = outcome[u]
        /\ outcome' \in [Tokens -> {"none", "done", "unread", "failed"}]
      BY <1>3, <1>5, <1>7
  <1>9. sess' = sess /\ listing' = listing /\ (OfFile(t)' <=> OfFile(t))
      BY <1>1 DEF browserVars, OfFile
  <1>10. Gains(a2c', a2c, t, {m})
      BY <1>4, <1>6, <1>7, ReplyFacts
  <1>11. Requested(t)'
      <2>1. \A i \in DOMAIN c2a' : c2a'[i].token = t =>
                \E j \in DOMAIN c2a : c2a[j] = c2a'[i]
          BY <1>2 DEF Gains
      <2> QED BY <1>2, <1>9, <2>1 DEF Tracked, Requested
  <1>12. Replied(t)'
      <2>1. \A i \in DOMAIN a2c' : a2c'[i].token = t =>
                a2c'[i] = m \/ \E j \in DOMAIN a2c : a2c[j] = a2c'[i]
          BY <1>10 DEF Gains
      <2>2. \A j \in DOMAIN a2c : a2c[j].token = t =>
                a2c[j].type # "OK" /\ (sess[t].st = "operating" => a2c[j].type # "ERR")
          BY <1>2 DEF Tracked, Replied
      <2> QED BY <1>2, <1>4, <1>5, <1>8, <1>9, <2>1, <2>2 DEF Replied
  <1>13. Listed(t)'
      BY <1>2, <1>9, NoneIsNoToken DEF Listed
  <1>14. Reported(t)' /\ Tallied(t)'
      BY <1>2, <1>9 DEF Reported, Tallied, Total, OfFile, OpenStates
  <1>15. Tracked(t)'
      BY <1>11, <1>12, <1>13, <1>14 DEF Tracked
  <1>16. AgentTypeOK' /\ ListingType'
      BY <1>1, <1>2, <1>7, <1>8 DEF AgentTypeOK, ListingType
  <1>17. UNCHANGED <<browserVars, wsUp>>
      BY <1>2
  <1>18. c2a' = c2a \/ \E x : Command(x)
      BY <1>1
  <1>19. a2c' = a2c \/ \E x \in Response : x.token = t /\ Reply(x)
      BY <1>4, <1>6
  <1>20. \A u \in Tokens : u # t => (listing'.token = u => listing' = listing)
      BY <1>9
  <1> QED BY <1>8, <1>15, <1>16, <1>17, <1>18, <1>19, <1>20, AgentStep

LEMMA ListKeeps ==
    ASSUME IInv, List, UNCHANGED browserVars
    PROVE  IInv'
  <1>1. Command("DIRLS") /\ UNCHANGED <<a2c, disk, full, file_queues, outcome>>
      BY DEF List
  <1>2. PICK t \in Tokens :
              /\ t = Head(c2a).token /\ listing = Idle /\ wsUp' = wsUp
              /\ AgentTypeOK /\ Tracked(t) /\ outcome[t] = "none"
              /\ Gains(c2a', c2a, t, {})
              /\ \A i \in DOMAIN c2a' : c2a'[i].token = t => ~Asks(c2a'[i])
              /\ sess[t].st # "new"
              /\ sess[t].st # "operating" /\ sess[t].st # "listing" =>
                    sess[t].st = "failed" /\ ~sess[t].clean
              /\ sess[t].st # "operating"
              /\ sess[t].st = "listing" =>
                    sess[t].left = 0 /\ \A k \in DOMAIN a2c : a2c[k].token # t
      BY <1>1, AskedFacts
  <1>3. listing' = [token |-> t, left |-> Entries]
      BY <1>2 DEF List
  <1>4. listing'.token = t /\ listing'.left = Entries
      BY <1>3
  <1>5. sess' = sess /\ outcome' = outcome /\ a2c' = a2c /\ (OfFile(t)' <=> OfFile(t))
      BY <1>1 DEF browserVars, OfFile
  <1>6. Requested(t)'
      <2>1. \A i \in DOMAIN c2a' : c2a'[i].token = t =>
                \E j \in DOMAIN c2a : c2a[j] = c2a'[i]
          BY <1>2 DEF Gains
      <2> QED BY <1>2, <1>5, <2>1 DEF Tracked, Requested
  <1>7. Replied(t)' /\ Listed(t)' /\ Reported(t)'
      BY <1>2, <1>5 DEF Tracked, Replied, Listed, Reported, Total, OfFile
  <1>8. Tallied(t)'
      <2>1. ASSUME sess[t].st = "listing"
            PROVE  sess[t].left + CountOf(a2c, Len(a2c), t) + Entries = Entries
          <3>1. a2c \in Seq(Response)
              BY DEF IInv, Types, LinkType
          <3>2. Len(a2c) \in Nat /\ \A k \in 1..Len(a2c) : a2c[k].token # t
              BY <1>2, <2>1, <3>1
          <3>3. CountOf(a2c, Len(a2c), t) = 0
              BY <3>2, CountNone
          <3> QED BY <1>2, <2>1, <3>3, EntriesAssumption
      <2> QED BY <1>2, <1>4, <1>5, <2>1 DEF Tallied, Total
  <1>9. Tracked(t)'
      BY <1>6, <1>7, <1>8 DEF Tracked
  <1>10. Entries \in Nat
      BY EntriesAssumption
  <1>11. AgentTypeOK' /\ ListingType'
      BY <1>1, <1>2, <1>3, <1>10 DEF AgentTypeOK, ListingType
  <1>12. UNCHANGED <<browserVars, wsUp>>
      BY <1>2
  <1>13. c2a' = c2a \/ \E x : Command(x)
      BY <1>1
  <1>14. /\ \A u \in Tokens : u # t => outcome'[u] = outcome[u]
         /\ \A u \in Tokens : u # t => (listing'.token = u => listing' = listing)
      BY <1>4, <1>5
  <1> QED BY <1>5, <1>9, <1>11, <1>12, <1>13, <1>14, AgentStep

\* A listing of a directory that cannot be read is answered at once.
LEMMA ListUnreadKeeps ==
    ASSUME IInv, ListUnread, UNCHANGED browserVars
    PROVE  IInv'
  <1>1. Command("DIRLS") /\ UNCHANGED <<disk, full, file_queues, listing>>
      BY DEF ListUnread
  <1>2. PICK t \in Tokens :
              /\ t = Head(c2a).token /\ listing = Idle /\ wsUp' = wsUp
              /\ AgentTypeOK /\ Tracked(t) /\ outcome[t] = "none"
              /\ Gains(c2a', c2a, t, {})
              /\ \A i \in DOMAIN c2a' : c2a'[i].token = t => ~Asks(c2a'[i])
              /\ sess[t].st # "new"
              /\ sess[t].st # "operating" /\ sess[t].st # "listing" =>
                    sess[t].st = "failed" /\ ~sess[t].clean
              /\ sess[t].st # "operating"
              /\ sess[t].st = "listing" =>
                    sess[t].left = 0 /\ \A k \in DOMAIN a2c : a2c[k].token # t
      BY <1>1, AskedFacts
  <1> DEFINE m == FileCmd("OK", t)
  <1>3. m \in Response /\ m.token = t /\ m.type = "OK" /\ Reply(m)
      BY <1>2, ReplyTypes DEF ListUnread
  <1> HIDE DEF m
  <1>4. outcome \in [Tokens -> {"none", "done", "unread", "failed"}] /\ LinkType /\ ListingType
      BY <1>2 DEF AgentTypeOK, IInv, Types
  <1>5. /\ outcome'[t] = "unread" /\ \A u \in Tokens : u # t => outcome'[u] = outcome[u]
        /\ outcome' \in [Tokens -> {"none", "done", "unread", "failed"}]
      BY <1>2, <1>4 DEF ListUnread
  <1>6. sess' = sess /\ listing' = listing /\ (OfFile(t)' <=> OfFile(t))
      BY <1>1 DEF browserVars, OfFile
  <1>7. /\ Gains(a2c', a2c, t, {m}) /\ Len(a2c) \in Nat /\ DOMAIN a2c = 1..Len(a2c)
        /\ \A i \in 1..Len(a2c) : a2c'[i] = a2c[i]
        /\ a2c' # a2c => DOMAIN a2c' = 1..(Len(a2c) + 1)
      BY <1>3, <1>4, ReplyFacts
  <1>8. Requested(t)'
      <2>1. \A i \in DOMAIN c2a' : c2a'[i].token = t =>
                \E j \in DOMAIN c2a : c2a[j] = c2a'[i]
          BY <1>2 DEF Gains
      <2> QED BY <1>2, <1>6, <2>1 DEF Tracked, Requested
  <1>9. Replied(t)'
      <2>1. \A i \in DOMAIN a2c' : a2c'[i].token = t =>
                a2c'[i] = m \/ \E j \in DOMAIN a2c : a2c[j] = a2c'[i]
          BY <1>7 DEF Gains
      <2>2. \A i \in DOMAIN a2c' : a2c'[i].token = t /\ sess[t].st = "listing" =>
                a2c'[i] = m
          BY <1>2, <2>1
      <2> QED BY <1>2, <1>3, <1>5, <1>6, <2>1, <2>2 DEF Replied
  <1>10. Listed(t)'
      BY <1>2, <1>6, NoneIsNoToken DEF Listed
  <1>11. Reported(t)'
      BY <1>2, <1>6 DEF Reported, OfFile, OpenStates
  <1>12. Tallied(t)'
      <2>1. ASSUME sess[t].st = "listing", NEW i \in DOMAIN a2c', a2c'[i].token = t
            PROVE  sess[t].left + CountOf(a2c', i - 1, t) = 0
          <3>1. i = Len(a2c) + 1
              BY <1>2, <1>7, <2>1
          <3>2. i - 1 = Len(a2c) /\ \A j \in 1..Len(a2c) : a2c'[j].token # t
              BY <1>2, <1>7, <2>1, <3>1
          <3>3. CountOf(a2c', i - 1, t) = 0
              BY <1>7, <3>2, CountNone
          <3> QED BY <1>2, <2>1, <3>3
      <2>2. Total(t)' = 0
          BY <1>5 DEF Total
      <2> QED BY <1>2, <1>6, <2>1, <2>2, NoneIsNoToken DEF Tallied
  <1>13. Tracked(t)'
      BY <1>8, <1>9, <1>10, <1>11, <1>12 DEF Tracked
  <1>14. AgentTypeOK' /\ ListingType'
      BY <1>1, <1>2, <1>4, <1>5 DEF AgentTypeOK, ListingType
  <1>15. UNCHANGED <<browserVars, wsUp>>
      BY <1>2
  <1>16. c2a' = c2a \/ \E x : Command(x)
      BY <1>1
  <1>17. a2c' = a2c \/ \E x \in Response : x.token = t /\ Reply(x)
      BY <1>3
  <1>18. \A u \in Tokens : u # t => (listing'.token = u => listing' = listing)
      BY <1>6
  <1> QED BY <1>5, <1>13, <1>14, <1>15, <1>16, <1>17, <1>18, AgentStep

\* The listing that the agent is in.
LEMMA ListingFacts ==
    ASSUME IInv, listing # Idle
    PROVE  \E t \in Tokens :
              /\ t = listing.token /\ listing \in [token : Tokens, left : 0..Entries]
              /\ AgentTypeOK /\ LinkType /\ Tracked(t) /\ outcome[t] = "none"
              /\ sess[t].st # "listing" => sess[t].st = "failed" /\ ~sess[t].clean
              /\ \A i \in DOMAIN c2a : c2a[i].token = t => ~Asks(c2a[i])
              /\ \A i \in DOMAIN a2c : a2c[i].token = t => a2c[i].type # "OK"
  <1>1. AgentTypeOK /\ LinkType /\ listing \in [token : Tokens, left : 0..Entries]
      BY DEF IInv, Types, TypeOK, ListingType
  <1>2. PICK t \in Tokens : t = listing.token
      BY <1>1
  <1>3. Tracked(t)
      BY DEF IInv
  <1>4. /\ outcome[t] = "none"
        /\ sess[t].st # "listing" => sess[t].st = "failed" /\ ~sess[t].clean
        /\ \A i \in DOMAIN c2a : c2a[i].token = t => ~Asks(c2a[i])
        /\ \A i \in DOMAIN a2c : a2c[i].token = t => a2c[i].type # "OK"
      BY <1>2, <1>3 DEF Tracked, Listed, Requested, Replied
  <1> QED BY <1>1, <1>2, <1>3, <1>4

LEMMA ListEntryKeeps ==
    ASSUME IInv, ListEntry, UNCHANGED browserVars
    PROVE  IInv'
  <1>1. /\ listing # Idle /\ listing.left > 0 /\ Reply(FileEntry(listing.token, 0))
        /\ listing' = IF wsUp THEN [listing EXCEPT !.left = @ - 1] ELSE Idle
        /\ UNCHANGED <<c2a, wsUp, disk, full, file_queues, outcome>>
      BY DEF ListEntry
  <1>2. PICK t \in Tokens :
              /\ t = listing.token /\ listing \in [token : Tokens, left : 0..Entries]
              /\ AgentTypeOK /\ LinkType /\ Tracked(t) /\ outcome[t] = "none"
              /\ sess[t].st # "listing" => sess[t].st = "failed" /\ ~sess[t].clean
              /\ \A i \in DOMAIN c2a : c2a[i].token = t => ~Asks(c2a[i])
              /\ \A i \in DOMAIN a2c : a2c[i].token = t => a2c[i].type # "OK"
      BY <1>1, ListingFacts
  <1> DEFINE m == FileEntry(t, 0)
  <1>3. m \in Response /\ m.token = t /\ m.type = "FILEENTRY" /\ Reply(m)
      BY <1>1, <1>2, ReplyTypes
  <1> HIDE DEF m
  <1>4. /\ Gains(a2c', a2c, t, {m}) /\ Len(a2c) \in Nat /\ DOMAIN a2c = 1..Len(a2c)
        /\ \A i \in 1..Len(a2c) : a2c'[i] = a2c[i]
        /\ wsUp => /\ Len(a2c') = Len(a2c) + 1 /\ DOMAIN a2c' = 1..(Len(a2c) + 1)
                   /\ a2c'[Len(a2c) + 1] = m
      BY <1>2, <1>3, ReplyFacts
  <1>5. sess' = sess /\ outcome' = outcome /\ c2a' = c2a /\ wsUp' = wsUp
        /\ (OfFile(t)' <=> OfFile(t))
      BY <1>1 DEF browserVars, OfFile
  <1>6. /\ listing'.token = t => wsUp /\ listing'.left = listing.left - 1
        /\ wsUp => listing' \in [token : Tokens, left : 0..Entries] /\ listing'.token = t
        /\ ~wsUp => listing' = Idle
      <2>1. CASE wsUp
          <3>1. listing' = [listing EXCEPT !.left = @ - 1] /\ Entries \in Nat
              BY <1>1, <2>1, EntriesAssumption
          <3>2. listing.left \in 0..Entries
              BY <1>2
          <3>3. listing.left - 1 \in 0..Entries
              BY <1>1, <3>1, <3>2
          <3> QED BY <1>2, <2>1, <3>1, <3>3
      <2>2. CASE ~wsUp
          BY <1>1, <2>2, NoneIsNoToken
      <2> QED BY <2>1, <2>2
  <1>7. Requested(t)'
      BY <1>2, <1>5 DEF Tracked, Requested
  <1>8. Replied(t)'
      <2>1. \A i \in DOMAIN a2c' : a2c'[i].token = t =>
                a2c'[i] = m \/ \E j \in DOMAIN a2c : a2c[j] = a2c'[i]
          BY <1>4 DEF Gains
      <2>2. sess[t].st # "new"
          BY <1>2
      <2> QED BY <1>2, <1>3, <1>5, <2>1, <2>2 DEF Tracked, Replied
  <1>9. Listed(t)' /\ Reported(t)'
      BY <1>2, <1>5 DEF Tracked, Listed, Reported, Total
  <1>10. Tallied(t)'
      <2>1. \A i \in DOMAIN a2c' : a2c'[i].token = t => a2c'[i].type # "OK"
          BY <1>2, <1>3, <1>4 DEF Gains
      <2>2. ASSUME sess[t].st = "listing", listing'.token = t
            PROVE  sess[t].left + CountOf(a2c', Len(a2c'), t) + listing'.left = Entries
          <3>1. /\ wsUp /\ listing'.left = listing.left - 1
                /\ Len(a2c') = Len(a2c) + 1 /\ a2c'[Len(a2c) + 1] = m
              BY <1>4, <1>6, <2>2
          <3>2. sess[t].left + CountOf(a2c, Len(a2c), t) + listing.left = Entries
              BY <1>2, <2>2, <3>1 DEF Tracked, Tallied, Total
          <3>3. CountOf(a2c', Len(a2c'), t) = CountOf(a2c, Len(a2c), t) + 1
              <4> DEFINE old == a2c
                         new == a2c'
                         n == Len(a2c)
              <4>1. n \in Nat /\ \A i \in 1..n : new[i] = old[i]
                  BY <1>4
              <4>2. new[n + 1].token = t /\ Len(a2c') = n + 1
                  BY <1>3, <3>1
              <4> HIDE DEF n, old, new
              <4>3. CountOf(new, n + 1, t) = CountOf(old, n, t) + 1
                  BY <4>1, <4>2, CountOneMore
              <4> QED BY <4>2, <4>3 DEF n, old, new
          <3>4. CountOf(a2c, Len(a2c), t) \in Nat
              BY <1>4, OfIsFinite
          <3>5. sess[t].left \in Nat /\ listing.left \in Nat
              <4>1. sess[t] \in Session
                  BY DEF IInv, Types, TypeOK, BrowserTypeOK
              <4>2. sess[t].left \in Nat
                  BY <4>1 DEF Session
              <4> QED BY <1>2, <4>2 DEF AgentTypeOK
          <3> DEFINE got == sess[t].left
                     count == CountOf(a2c, Len(a2c), t)
                     left == listing.left
          <3>6. got \in Nat /\ count \in Nat /\ left \in Nat /\ got + count + left = Entries
              BY <3>2, <3>4, <3>5
          <3>7. listing'.left = left - 1 /\ CountOf(a2c', Len(a2c'), t) = count + 1
              BY <3>1, <3>3
          <3> HIDE DEF count, left, got
          <3>8. got + (count + 1) + (left - 1) = Entries
              BY <3>6
          <3> QED BY <3>7, <3>8 DEF got
      <2> QED BY <1>5, <2>1, <2>2 DEF Tallied, Total
  <1>11. Tracked(t)'
      BY <1>7, <1>8, <1>9, <1>10 DEF Tracked
  <1>12. ListingType'
      BY <1>6 DEF ListingType
  <1>13. AgentTypeOK'
      <2>1. listing'.left \in Nat
          BY <1>6, EntriesAssumption DEF Idle
      <2> QED BY <1>1, <1>2, <2>1 DEF AgentTypeOK
  <1>14. a2c' = a2c \/ \E x \in Response : x.token = t /\ Reply(x)
      BY <1>3
  <1>15. /\ \A u \in Tokens : u # t => outcome'[u] = outcome[u]
         /\ \A u \in Tokens : u # t => (listing'.token = u => listing' = listing)
      BY <1>5, <1>6, NoneIsNoToken
  <1> QED BY <1>5, <1>11, <1>12, <1>13, <1>14, <1>15, AgentStep

\* A listing that fails has sent no OK and will send none.
LEMMA ListFailKeeps ==
    ASSUME IInv, ListFail, UNCHANGED browserVars
    PROVE  IInv'
  <1>1. /\ listing # Idle /\ Reply(FileCmd("ERR", listing.token))
        /\ outcome' = [outcome EXCEPT ![listing.token] = "failed"] /\ listing' = Idle
        /\ UNCHANGED <<c2a, wsUp, disk, full, file_queues>>
      BY DEF ListFail, Failed
  <1>2. PICK t \in Tokens :
              /\ t = listing.token /\ listing \in [token : Tokens, left : 0..Entries]
              /\ AgentTypeOK /\ LinkType /\ Tracked(t) /\ outcome[t] = "none"
              /\ sess[t].st # "listing" => sess[t].st = "failed" /\ ~sess[t].clean
              /\ \A i \in DOMAIN c2a : c2a[i].token = t => ~Asks(c2a[i])
              /\ \A i \in DOMAIN a2c : a2c[i].token = t => a2c[i].type # "OK"
      BY <1>1, ListingFacts
  <1> DEFINE m == FileCmd("ERR", t)
  <1>3. m \in Response /\ m.token = t /\ m.type = "ERR" /\ Reply(m)
      BY <1>1, <1>2, ReplyTypes
  <1> HIDE DEF m
  <1>4. Gains(a2c', a2c, t, {m})
      BY <1>2, <1>3, ReplyFacts
  <1>5. sess' = sess /\ c2a' = c2a /\ wsUp' = wsUp
      BY <1>1 DEF browserVars
  <1>6. /\ outcome'[t] = "failed" /\ \A u \in Tokens : u # t => outcome'[u] = outcome[u]
        /\ outcome' \in [Tokens -> {"none", "done", "unread", "failed"}]
      BY <1>1, <1>2 DEF AgentTypeOK
  <1>7. \A u \in Tokens : listing'.token # u
      BY <1>1, NoneIsNoToken
  <1>8. OfFile(t)' <=> OfFile(t)
      BY <1>5 DEF OfFile
  <1>9. Requested(t)'
      BY <1>2, <1>5, <1>8 DEF Tracked, Requested
  <1>10. \A i \in DOMAIN a2c' : a2c'[i].token = t =>
             a2c'[i] = m \/ \E j \in DOMAIN a2c : a2c[j] = a2c'[i]
      BY <1>4 DEF Gains
  <1>11. Replied(t)'
      <2>1. sess[t].st # "new" /\ sess[t].st # "operating"
          BY <1>2
      <2> QED BY <1>2, <1>3, <1>5, <1>6, <1>10, <2>1 DEF Tracked, Replied
  <1>12. Listed(t)' /\ Reported(t)'
      BY <1>2, <1>5, <1>6, <1>7 DEF Listed, Reported, OfFile, OpenStates
  <1>13. Tallied(t)'
      <2>1. \A i \in DOMAIN a2c' : a2c'[i].token = t => a2c'[i].type # "OK"
          BY <1>2, <1>3, <1>10
      <2> QED BY <1>7, <2>1 DEF Tallied
  <1>14. Tracked(t)'
      BY <1>9, <1>11, <1>12, <1>13 DEF Tracked
  <1>15. AgentTypeOK' /\ ListingType'
      BY <1>1, <1>2, <1>6 DEF AgentTypeOK, ListingType, Idle
  <1>16. a2c' = a2c \/ \E x \in Response : x.token = t /\ Reply(x)
      BY <1>3
  <1>17. \A u \in Tokens : u # t => (listing'.token = u => listing' = listing)
      BY <1>7
  <1> QED BY <1>5, <1>6, <1>14, <1>15, <1>16, <1>17, AgentStep

LEMMA ListEndKeeps ==
    ASSUME IInv, ListEnd, UNCHANGED browserVars
    PROVE  IInv'
  <1>1. /\ listing # Idle /\ listing.left = 0 /\ Reply(FileCmd("OK", listing.token))
        /\ outcome' = [outcome EXCEPT ![listing.token] = "done"] /\ listing' = Idle
        /\ UNCHANGED <<c2a, wsUp, disk, full, file_queues>>
      BY DEF ListEnd
  <1>2. PICK t \in Tokens :
              /\ t = listing.token /\ listing \in [token : Tokens, left : 0..Entries]
              /\ AgentTypeOK /\ LinkType /\ Tracked(t) /\ outcome[t] = "none"
              /\ sess[t].st # "listing" => sess[t].st = "failed" /\ ~sess[t].clean
              /\ \A i \in DOMAIN c2a : c2a[i].token = t => ~Asks(c2a[i])
              /\ \A i \in DOMAIN a2c : a2c[i].token = t => a2c[i].type # "OK"
      BY <1>1, ListingFacts
  <1> DEFINE m == FileCmd("OK", t)
  <1>3. m \in Response /\ m.token = t /\ m.type = "OK" /\ Reply(m)
      BY <1>1, <1>2, ReplyTypes
  <1> HIDE DEF m
  <1>4. /\ Gains(a2c', a2c, t, {m}) /\ Len(a2c) \in Nat /\ DOMAIN a2c = 1..Len(a2c)
        /\ \A i \in 1..Len(a2c) : a2c'[i] = a2c[i]
        /\ a2c' # a2c => wsUp /\ DOMAIN a2c' = 1..(Len(a2c) + 1)
      BY <1>2, <1>3, ReplyFacts
  <1>5. sess' = sess /\ c2a' = c2a /\ wsUp' = wsUp
      BY <1>1 DEF browserVars
  <1>6. /\ outcome'[t] = "done" /\ \A u \in Tokens : u # t => outcome'[u] = outcome[u]
        /\ outcome' \in [Tokens -> {"none", "done", "unread", "failed"}]
      BY <1>1, <1>2 DEF AgentTypeOK
  <1>7. \A u \in Tokens : listing'.token # u
      BY <1>1, NoneIsNoToken
  <1>8. OfFile(t)' <=> OfFile(t)
      BY <1>5 DEF OfFile
  <1>9. Requested(t)'
      BY <1>2, <1>5, <1>8 DEF Tracked, Requested
  <1>10. Replied(t)'
      <2>1. \A i \in DOMAIN a2c' : a2c'[i].token = t =>
                a2c'[i] = m \/ \E j \in DOMAIN a2c : a2c[j] = a2c'[i]
          BY <1>4 DEF Gains
      <2>2. sess[t].st # "new" /\ sess[t].st # "operating"
          BY <1>2
      <2> QED BY <1>2, <1>3, <1>5, <1>6, <2>1, <2>2 DEF Tracked, Replied
  <1>11. Listed(t)' /\ Reported(t)'
      BY <1>2, <1>5, <1>6, <1>7 DEF Listed, Reported, Total, OfFile, OpenStates
  <1>12. Tallied(t)'
      <2>1. ASSUME sess[t].st = "listing", NEW i \in DOMAIN a2c', a2c'[i].token = t,
                   a2c'[i].type = "OK"
            PROVE  sess[t].left + CountOf(a2c', i - 1, t) = Entries
          <3>1. wsUp /\ i = Len(a2c) + 1
              BY <1>2, <1>4, <2>1
          <3>2. sess[t].left + CountOf(a2c, Len(a2c), t) + listing.left = Entries
              BY <1>2, <2>1, <3>1 DEF Tracked, Tallied, Total
          <3>3. CountOf(a2c', Len(a2c), t) = CountOf(a2c, Len(a2c), t)
              BY <1>4, CountSame
          <3>4. CountOf(a2c, Len(a2c), t) \in Nat
              BY <1>4, OfIsFinite
          <3>5. sess[t].left \in Nat
              <4>1. sess[t] \in Session
                  BY DEF IInv, Types, TypeOK, BrowserTypeOK
              <4> QED BY <4>1 DEF Session
          <3>6. i - 1 = Len(a2c)
              BY <1>4, <3>1
          <3> QED BY <1>1, <3>2, <3>3, <3>4, <3>5, <3>6
      <2>2. Total(t)' = Entries
          BY <1>6 DEF Total
      <2> QED BY <1>5, <1>7, <2>1, <2>2 DEF Tallied
  <1>13. Tracked(t)'
      BY <1>9, <1>10, <1>11, <1>12 DEF Tracked
  <1>14. AgentTypeOK' /\ ListingType'
      BY <1>1, <1>2, <1>6 DEF AgentTypeOK, ListingType, Idle
  <1>15. a2c' = a2c \/ \E x \in Response : x.token = t /\ Reply(x)
      BY <1>3
  <1>16. \A u \in Tokens : u # t => (listing'.token = u => listing' = listing)
      BY <1>7
  <1> QED BY <1>5, <1>6, <1>13, <1>14, <1>15, <1>16, AgentStep

\* Nothing of the invariant changes.
LEMMA SameKeeps ==
    ASSUME IInv, AgentTypeOK', UNCHANGED <<linkVars, listing, outcome, browserVars>>
    PROVE  IInv'
  <1>1. UNCHANGED <<c2a, a2c, wsUp, listing, outcome, sess, told, calls, timeouts>>
      BY DEF linkVars, browserVars
  <1>2. TypeOK' /\ LinkType' /\ ListingType' /\ \A t \in Tokens : SessionFacts(sess'[t])
      BY <1>1 DEF IInv, Types, TypeOK, BrowserTypeOK, LinkType, ListingType
  <1>3. ASSUME NEW t \in Tokens
        PROVE  Tracked(t)'
      <2>1. Tracked(t)
          BY DEF IInv
      <2>2. Tallied(t)'
          BY <1>1, <2>1 DEF Tracked, Tallied, Total
      <2>3. Requested(t)' /\ Listed(t)' /\ Replied(t)' /\ Reported(t)'
          BY <1>1, <2>1 DEF Tracked, Requested, Listed, Replied, Reported, Total, OfFile
      <2> QED BY <2>2, <2>3 DEF Tracked
  <1>4. AskedOnce'
      BY <1>1 DEF IInv, AskedOnce
  <1> QED BY <1>2, <1>3, <1>4 DEF IInv, Types

LEMMA AgentKeeps ==
    ASSUME IInv, AgentNext, UNCHANGED browserVars
    PROVE  IInv'
  <1>1. CASE Dispatch
      BY <1>1, OpenFileKeeps, ReadFileKeeps, WriteFileKeeps, StatFileKeeps, CloseFileKeeps,
         OperateKeeps, ListKeeps, ListUnreadKeeps, ListEntryKeeps, ListFailKeeps, ListEndKeeps
         DEF Dispatch
  <1>2. CASE DiskFull
      <2>1. AgentTypeOK
          BY DEF IInv, Types, TypeOK
      <2>2. AgentTypeOK'
          BY <1>2, <2>1 DEF DiskFull, AgentTypeOK
      <2> QED BY <1>2, <2>2, SameKeeps DEF DiskFull
  <1> QED BY <1>1, <1>2 DEF AgentNext

-----------------------------------------------------------------------------
(* The WebSocket breaks.                                                    *)

LEMMA LinkFailureKeeps ==
    ASSUME IInv, LinkFailure
    PROVE  IInv'
  <1>1. WsLost /\ UNCHANGED <<disk, full, file_queues, listing, outcome>>
        /\ UNCHANGED <<sess, told, calls, timeouts>>
      BY DEF LinkFailure, agentVars, browserVars
  <1>2. TypeOK /\ LinkType /\ ListingType /\ AskedOnce
        /\ \A t \in Tokens : SessionFacts(sess[t])
      BY DEF IInv, Types
  <1>3. PICK n \in 0..Len(c2a) : c2a' = SubSeq(c2a, 1, n)
      BY <1>1 DEF WsLost
  <1>4. PICK k \in 0..Len(a2c) : a2c' = SubSeq(a2c, 1, k)
      BY <1>1 DEF WsLost
  <1>5. /\ c2a' \in Seq(Request) /\ \A t : Gains(c2a', c2a, t, {})
        /\ \A i \in DOMAIN c2a' : i \in DOMAIN c2a /\ c2a'[i] = c2a[i]
      BY <1>2, <1>3, Prefix, GainsByPrefix DEF LinkType
  <1>6. /\ a2c' \in Seq(Response) /\ \A t : Gains(a2c', a2c, t, {})
        /\ DOMAIN a2c' = 1..k /\ \A i \in 1..k : i \in DOMAIN a2c /\ a2c'[i] = a2c[i]
      BY <1>2, <1>4, Prefix, GainsByPrefix DEF LinkType
  <1>7. wsUp' = FALSE
      BY <1>1 DEF WsLost
  <1>8. AskedOnce'
      BY <1>2, <1>5 DEF AskedOnce
  <1>9. ASSUME NEW t \in Tokens
        PROVE  Tracked(t)'
      <2>1. Tracked(t)
          BY DEF IInv
      <2>2. Requested(t)' /\ Listed(t)' /\ Replied(t)' /\ Reported(t)'
          BY <1>1, <1>5, <1>6, <2>1, Untouched DEF Tracked
      <2>3. ASSUME NEW i \in DOMAIN a2c'
            PROVE  CountOf(a2c', i - 1, t) = CountOf(a2c, i - 1, t)
          <3>1. i - 1 \in Nat /\ \A j \in 1..(i - 1) : a2c'[j] = a2c[j]
              BY <1>6
          <3> QED BY <3>1, CountSame
      <2>4. Tallied(t)'
          BY <1>1, <1>6, <1>7, <2>1, <2>3 DEF Tracked, Tallied, Total
      <2> QED BY <2>2, <2>4 DEF Tracked
  <1>10. TypeOK' /\ LinkType' /\ ListingType' /\ \A t \in Tokens : SessionFacts(sess'[t])
      BY <1>1, <1>2, <1>5, <1>6, <1>7
         DEF TypeOK, AgentTypeOK, BrowserTypeOK, LinkType, ListingType
  <1> QED BY <1>8, <1>9, <1>10 DEF IInv, Types

-----------------------------------------------------------------------------
(* The specification.                                                       *)

LEMMA InitIInv == Init => IInv
  <1> SUFFICES ASSUME Init PROVE IInv
      OBVIOUS
  <1>1. /\ c2a = <<>> /\ a2c = <<>> /\ wsUp = TRUE /\ listing = Idle
        /\ outcome = [t \in Tokens |-> "none"]
        /\ disk = NoFile /\ full = FALSE /\ file_queues = <<>>
        /\ told = <<>> /\ calls = 0 /\ timeouts = 0
        /\ sess = [t \in Tokens |-> [st |-> "new", mode |-> "", offset |-> 0, size |-> 0,
                                     left |-> 0, from |-> 0, data |-> <<>>, clean |-> TRUE]]
      BY DEF Init, LinkInit, AgentInit, BrowserInit
  <1>2. /\ DOMAIN <<>> = {} /\ <<>> \in Seq(Nat) /\ <<>> \in Seq(Request)
        /\ <<>> \in Seq(Response)
      OBVIOUS
  <1>3. AgentTypeOK
      <2>1. disk \in [exists : BOOLEAN, data : Seq(Nat)] /\ listing.left = 0
          BY <1>1, <1>2 DEF NoFile, Idle
      <2>2. outcome \in [Tokens -> {"none", "done", "unread", "failed"}]
          BY <1>1
      <2>3. DOMAIN file_queues \subseteq Tokens /\ full \in BOOLEAN
            /\ \A t \in DOMAIN file_queues : file_queues[t] \in Handle
          BY <1>1, <1>2
      <2>4. listing.left \in Nat
          BY <2>1
      <2> QED BY <2>1, <2>2, <2>3, <2>4 DEF AgentTypeOK
  <1>4. BrowserTypeOK
      <2>1. [st |-> "new", mode |-> "", offset |-> 0, size |-> 0, left |-> 0, from |-> 0,
             data |-> <<>>, clean |-> TRUE] \in Session
          BY <1>2 DEF Session
      <2>2. sess \in [Tokens -> Session]
          BY <1>1, <2>1
      <2>3. DOMAIN told \subseteq Nat /\ \A o \in DOMAIN told : told[o] \in Nat
          BY <1>1, <1>2
      <2>4. calls = 0 /\ timeouts = 0
          BY <1>1
      <2> QED BY <2>2, <2>3, <2>4 DEF BrowserTypeOK
  <1>5. LinkType /\ ListingType
      BY <1>1, <1>2 DEF LinkType, ListingType
  <1>6. DOMAIN c2a = {} /\ DOMAIN a2c = {}
      BY <1>1, <1>2
  <1>7. AskedOnce
      BY <1>6 DEF AskedOnce
  <1>8. ASSUME NEW t \in Tokens
        PROVE  SessionFacts(sess[t]) /\ Tracked(t)
      <2>1. sess[t].st = "new" /\ sess[t].left = 0 /\ outcome[t] = "none" /\ listing.token # t
          BY <1>1, NoneIsNoToken
      <2>2. ~OfFile(t) /\ SessionFacts(sess[t])
          BY <2>1 DEF OfFile, OpenStates, SessionFacts
      <2>3. Requested(t) /\ Listed(t) /\ Replied(t)
          BY <1>6, <2>1 DEF Requested, Listed, Replied
      <2>4. Reported(t) /\ Tallied(t)
          BY <2>1, <2>2 DEF Reported, Tallied, Total
      <2> QED BY <2>2, <2>3, <2>4 DEF Tracked
  <1> QED BY <1>1, <1>3, <1>4, <1>5, <1>7, <1>8 DEF IInv, Types, TypeOK

LEMMA StepIInv == IInv /\ [Next]_vars => IInv'
  <1> SUFFICES ASSUME IInv, [Next]_vars PROVE IInv'
      OBVIOUS
  <1>1. CASE AgentNext /\ UNCHANGED browserVars
      BY <1>1, AgentKeeps
  <1>2. CASE BrowserNext /\ UNCHANGED agentVars
      BY <1>2, BrowserKeeps
  <1>3. CASE LinkFailure
      BY <1>3, LinkFailureKeeps
  <1>4. CASE UNCHANGED vars
      <2>1. AgentTypeOK'
          BY <1>4 DEF vars, agentVars, AgentTypeOK, IInv, Types, TypeOK
      <2> QED BY <1>4, <2>1, SameKeeps DEF vars, agentVars
  <1> QED BY <1>1, <1>2, <1>3, <1>4 DEF Next

\* The invariant holds in every state: the commands on the way, the listing
\* the agent is in and the sessions belong together.
THEOREM Invariance == Spec => []IInv
  BY InitIInv, StepIInv, PTL DEF Spec

\* Open files, sessions, the file and its buffers keep their types.
THEOREM TypeCorrect == Spec => []TypeOK
  <1>1. IInv => TypeOK
      BY DEF IInv, Types
  <1> QED BY <1>1, Invariance, PTL

\* An operation that the browser reports as done was done by the agent, a
\* listing has each entry of its directory or, when os.walk could not read it,
\* none, and one that is reported as failed without a timeout was not answered:
\* of all the answers to earlier calls that process_incoming or a timed-out wait
\* leaves behind, none is taken for the answer to another one.
THEOREM ResultsAlwaysTrue == Spec => []ResultTrue
  <1>1. IInv => ResultTrue
      BY DEF IInv, Tracked, Reported, Total, ResultTrue
  <1> QED BY <1>1, Invariance, PTL

-----------------------------------------------------------------------------
(* The file.                                                                *)
(*                                                                          *)
(* What is acknowledged is in the file for two reasons.  The requests and   *)
(* the replies are in order (Ordered): a session asks for nothing before    *)
(* the agent has opened its file, nobody touches the file between a write   *)
(* and the OK that writes it out, and a session none of whose calls timed   *)
(* out has one request on the way or its reply.  So the file changes only   *)
(* where nothing is known of it, and what is known stays (Content).         *)

\* What a session is while it is open.
Modes(s) ==
    /\ s.st \in {"sizing", "reading"} => s.mode = "r"
    /\ s.st = "writing" => s.mode = "w"
    /\ s.st \in {"new", "opening", "sizing"} => s.clean
    /\ s.st = "new" => s.data = <<>>

\* A file that is open for writing is open once.
Exclusive == \A t \in OpenFor({"w"}) : OpenFor({"r", "w"}) = {t}

Touches(m) == m.type \in {"FILEOPEN", "FILESTAT", "FILEREAD", "FILEDATA"}

Truncates(m) == m.type = "FILEOPEN" /\ m.mode = "w"

Changes(m) == m.type = "FILEDATA" \/ Truncates(m)

Ends(m, t) == m.type = "OK" /\ m.token = t

Writes(m, t) == m.type = "FILEDATA" /\ m.token = t

\* The OK of a session is its last request.
Ended(t) ==
    \A i \in DOMAIN c2a : Ends(c2a[i], t) =>
        /\ sess[t].st \in {"closed", "done", "listed", "failed"}
        /\ \A j \in DOMAIN c2a : j > i => c2a[j].token # t

\* A file is opened before anything else is asked of it.
Opening(t) ==
    \A i \in DOMAIN c2a : c2a[i].token = t =>
        /\ c2a[i].type = "FILEOPEN" =>
              sess[t].st \in {"opening", "failed"} /\ c2a[i].mode = sess[t].mode
        /\ sess[t].st = "opening" => c2a[i].type = "FILEOPEN"

\* What a session in a call has asked for.
Expected(m, t) ==
    /\ sess[t].st = "opening" => m.type = "FILEOPEN"
    /\ sess[t].st \in {"sizing", "stating"} => m = FileCmd("FILESTAT", t)
    /\ sess[t].st = "reading" => m = FileRead(t, sess[t].offset)
    /\ sess[t].st = "writing" => m = FileData(t, sess[t].offset, <<Head(sess[t].data)>>)

None(ch, t) == \A i \in DOMAIN ch : ch[i].token # t

Once(ch, t) == \A i, j \in DOMAIN ch : ch[i].token = t /\ ch[j].token = t => i = j

\* A session none of whose calls timed out has at most the request of its call
\* on the way, or the reply to it.
Alone(t) ==
    t \in OpenFor({"r", "w"}) /\ sess[t].clean =>
        /\ Once(c2a, t) /\ Once(a2c, t) /\ (None(c2a, t) \/ None(a2c, t))
        /\ sess[t].st = "open" => None(c2a, t) /\ None(a2c, t)
        /\ \A i \in DOMAIN c2a : c2a[i].token = t => Expected(c2a[i], t)
        /\ sess[t].st # "open" =>
           \A i \in DOMAIN a2c : a2c[i].token = t => a2c[i].type \in {"ERR", Wanted[sess[t].st]}

\* There is data in Python's buffer of the file.
Dirty(t) == Opened(t) /\ file_queues[t].buffer # <<>>

\* Data that has not reached the disk is of a session that is open for writing,
\* or its OK is on the way.
Writer(t) ==
    Dirty(t) \/ (\E i \in DOMAIN c2a : Writes(c2a[i], t)) =>
        /\ sess[t].mode = "w" /\ sess[t].st \in {"open", "writing", "stating", "closed"}
        /\ sess[t].st = "closed" /\ wsUp => \E i \in DOMAIN c2a : Ends(c2a[i], t)

\* No session touches the file before the agent has closed it for a writer.
InTurn(t) ==
    \A i \in DOMAIN c2a :
        /\ Touches(c2a[i]) /\ c2a[i].token # t
        /\ Dirty(t) \/ \E j \in DOMAIN c2a : j < i /\ Writes(c2a[j], t)
        => \E j \in DOMAIN c2a : j < i /\ Ends(c2a[j], t)

\* The agent has answered the FILEOPEN of a session.
Arrived(t) ==
    /\ t \in OpenFor({"r", "w"})
    /\ sess[t].st # "opening" \/ ~None(a2c, t)

\* Nobody else changes a file that is open.
Undisturbed(t) ==
    /\ Arrived(t) => /\ \A i \in DOMAIN c2a : Changes(c2a[i]) => c2a[i].token = t
                     /\ \A u \in Tokens : Dirty(u) => u = t
    /\ t \in OpenFor({"r", "w"}) =>
          \A i, j \in DOMAIN c2a :
              /\ c2a[i].type = "FILEOPEN" /\ c2a[i].token = t
              /\ i < j /\ Changes(c2a[j])
              => c2a[j].token = t

\* The agent has the file open whose session knows it, or is about to.
OpenAt(t) ==
    /\ t \in OpenFor({"r", "w"})
    /\ \/ sess[t].st # "opening"
       \/ \E i \in DOMAIN a2c : a2c[i].token = t /\ a2c[i].type = "CONTINUE"
    => Opened(t)

\* At most one handle has data in its buffer.
OneDirty == \A t, u \in Tokens : Dirty(t) /\ Dirty(u) => t = u

Orderly(t) ==
    /\ Modes(sess[t])
    /\ Ended(t)
    /\ Opening(t)
    /\ Alone(t)
    /\ Writer(t)
    /\ InTurn(t)
    /\ Undisturbed(t)
    /\ OpenAt(t)

Ordered == Exclusive /\ OneDirty /\ \A t \in Tokens : Orderly(t)

Has(file, off, v) == off < Len(file) /\ file[off + 1] = v

\* The file holds v at an offset, on the disk or in a buffer.
InFile(off, v) ==
    /\ \A t \in Tokens : Dirty(t) => Has(Flushed(file_queues[t]), off, v)
    /\ (\A t \in Tokens : ~Dirty(t)) => Has(disk.data, off, v)

\* What is known to be written stays so.
Lasting ==
    \A off \in DOMAIN told :
        /\ \A i \in DOMAIN c2a : /\ ~Truncates(c2a[i])
                                 /\ c2a[i].type = "FILEDATA" => c2a[i].offset # off
        /\ ~full => InFile(off, told[off])

\* A reply to a session none of whose calls timed out is true of the file: a
\* write that is acknowledged was done, a size leaves room for what is known to
\* be written, and what is read there is that.
Truthful(m, t) ==
    sess[t].clean /\ ~full =>
        /\ t \in OpenFor({"w"}) /\ sess[t].st = "writing" /\ m.type = "CONTINUE" =>
              InFile(sess[t].offset, Head(sess[t].data))
        /\ t \in OpenFor({"r"}) /\ m.type = "FILEENTRY" =>
              \A off \in DOMAIN told : off < m.size
        /\ t \in OpenFor({"r"}) /\ m.type = "FILEDATA" /\ sess[t].st = "reading" =>
              \A off \in DOMAIN told : off = sess[t].offset => m.data = <<told[off]>>

Informed(t) == \A i \in DOMAIN a2c : a2c[i].token = t => Truthful(a2c[i], t)

\* What a handle for reading has got.
Reads(t) ==
    t \in OpenFor({"r"}) /\ sess[t].clean /\ ~full =>
        /\ sess[t].st \notin {"opening", "sizing"} => \A off \in DOMAIN told : off < sess[t].size
        /\ sess[t].st = "reading" => sess[t].offset = sess[t].from + Len(sess[t].data)
        /\ \A off \in DOMAIN told : off - sess[t].from + 1 \in DOMAIN sess[t].data =>
               sess[t].data[off - sess[t].from + 1] = told[off]

Content == Lasting /\ \A t \in Tokens : Informed(t) /\ Reads(t)

-----------------------------------------------------------------------------
(* What a step does to a channel.                                           *)

Grown(r, q, m) ==
    /\ DOMAIN q = 1..Len(q) /\ Len(q) \in Nat
    /\ DOMAIN r = 1..(Len(q) + 1)
    /\ \A i \in 1..Len(q) : r[i] = q[i]
    /\ r[Len(q) + 1] = m

Shrunk(r, q) ==
    /\ DOMAIN q = 1..Len(q) /\ Len(q) \in Nat \ {0}
    /\ DOMAIN r = 1..(Len(q) - 1)
    /\ \A i \in 1..(Len(q) - 1) : r[i] = q[i + 1]

Cut(r, q) ==
    \E n \in Nat : /\ DOMAIN r = 1..n /\ 1..n \subseteq DOMAIN q
                   /\ \A i \in 1..n : r[i] = q[i]

\* The request of a browser's step is sent, or dropped on a closed WebSocket.
LEMMA SentShape ==
    ASSUME LinkType, NEW m \in Request, BrowserSend(m)
    PROVE  \/ ~wsUp /\ c2a' = c2a
           \/ wsUp /\ Grown(c2a', c2a, m)
  BY Extend DEF LinkType, BrowserSend, Grown

LEMMA RepliedShape ==
    ASSUME LinkType, NEW m \in Response, Reply(m)
    PROVE  \/ ~wsUp /\ a2c' = a2c
           \/ wsUp /\ Grown(a2c', a2c, m)
  BY Extend DEF LinkType, Reply, AgentSend, Grown

LEMMA TakenShape ==
    ASSUME LinkType, NEW type, Command(type)
    PROVE  /\ Shrunk(c2a', c2a) /\ Head(c2a) = c2a[1] /\ 1 \in DOMAIN c2a
           /\ c2a[1] \in Request /\ c2a[1].token \in Tokens /\ c2a[1].type = type
           /\ listing = Idle /\ wsUp' = wsUp
  <1>1. c2a \in Seq(Request) /\ c2a # <<>> /\ c2a' = Tail(c2a) /\ Head(c2a).type = type
      BY DEF LinkType, Command
  <1>2. Shrunk(c2a', c2a) /\ Head(c2a) = c2a[1] /\ 1 \in DOMAIN c2a /\ c2a[1] \in Request
      BY <1>1, Shift DEF Shrunk
  <1> QED BY <1>1, <1>2, CommandTypes DEF Command

LEMMA NoneStays ==
    ASSUME NEW t, NEW q, NEW r, None(q, t)
    PROVE  /\ Shrunk(r, q) => None(r, t)
           /\ Cut(r, q) => None(r, t)
           /\ \A m : Grown(r, q, m) /\ m.token # t => None(r, t)
  BY DEF None, Shrunk, Cut, Grown

LEMMA OnceStays ==
    ASSUME NEW t, NEW q, NEW r, Once(q, t)
    PROVE  /\ Shrunk(r, q) => Once(r, t)
           /\ Cut(r, q) => Once(r, t)
           /\ \A m : Grown(r, q, m) /\ m.token # t => Once(r, t)
           /\ \A m : Grown(r, q, m) /\ None(q, t) => Once(r, t)
  <1>1. Shrunk(r, q) => Once(r, t)
      <2> SUFFICES ASSUME Shrunk(r, q), NEW i \in DOMAIN r, NEW j \in DOMAIN r,
                          r[i].token = t, r[j].token = t
                   PROVE  i = j
          BY DEF Once
      <2>1. i + 1 \in DOMAIN q /\ j + 1 \in DOMAIN q /\ q[i + 1] = r[i] /\ q[j + 1] = r[j]
            /\ i \in Nat /\ j \in Nat
          BY DEF Shrunk
      <2>2. i + 1 = j + 1
          BY <2>1 DEF Once
      <2> QED BY <2>1, <2>2
  <1>2. Cut(r, q) => Once(r, t)
      BY DEF Once, Cut
  <1>3. \A m : Grown(r, q, m) /\ m.token # t => Once(r, t)
      BY DEF Once, Grown
  <1>4. \A m : Grown(r, q, m) /\ None(q, t) => Once(r, t)
      BY DEF Once, Grown, None
  <1> QED BY <1>1, <1>2, <1>3, <1>4

\* Of two sessions the messages of one are left alone when one of the other is
\* taken, and a session with one message has none then.
LEMMA RemovedNone ==
    ASSUME NEW S, NEW s \in Seq(S), NEW k \in 1..Len(s), NEW r, Without(s, k, r),
           NEW t
    PROVE  /\ None(s, t) => None(r, t)
           /\ Once(s, t) => Once(r, t)
           /\ Once(s, t) /\ s[k].token = t => None(r, t)
  <1>1. /\ Len(s) \in Nat /\ DOMAIN s = 1..Len(s) /\ DOMAIN r = 1..(Len(s) - 1)
        /\ \A i \in DOMAIN r : r[i] = IF i < k THEN s[i] ELSE s[i + 1]
      BY DEF Without
  <1> DEFINE old(i) == IF i < k THEN i ELSE i + 1
  <1>2. \A i \in DOMAIN r : old(i) \in DOMAIN s /\ r[i] = s[old(i)] /\ old(i) # k
      BY <1>1
  <1>3. \A i, j \in DOMAIN r : old(i) = old(j) => i = j
      BY <1>1
  <1> HIDE DEF old
  <1>4. k \in DOMAIN s
      BY <1>1
  <1> QED BY <1>2, <1>3, <1>4 DEF None, Once

-----------------------------------------------------------------------------
(* What a step of the browser does to its session and to the requests.      *)

\* The session asks for something else of its file.
MoveAsk(t) ==
    /\ \/ sess[t].st = "open" /\ a2c' = a2c
       \/ sess[t].st \in {"opening", "reading", "writing"} /\ Answered(t, sess[t].st)
    /\ sess'[t].st \in {"sizing", "stating", "reading", "writing"}
    /\ sess[t].st = "opening" => sess'[t].st = "sizing"
    /\ \E m \in Request :
          /\ m.token = t /\ BrowserSend(m)
          /\ m.type \in {"FILESTAT", "FILEREAD", "FILEDATA"}
          /\ m.type = "FILEDATA" <=> sess'[t].st = "writing"
          /\ Expected(m, t)'

\* Its call is over, or a call fails before the file is open.
MoveBack(t) ==
    /\ c2a' = c2a
    /\ \/ /\ sess[t].st \in OpenStates /\ sess'[t].st = "open"
          /\ \/ Answered(t, sess[t].st)
             \/ sess[t].st \in {"stating", "reading", "writing"} /\ Received(t)
             \/ sess[t].st \in {"stating", "reading", "writing"} /\ ~sess'[t].clean
             \/ sess[t].st = "open" /\ a2c' = a2c
       \/ sess[t].st \in {"new", "opening", "sizing"} /\ sess'[t].st = "failed"

\* A message is skipped or an entry counted.
MoveOn(t) ==
    /\ c2a' = c2a /\ Received(t)
    /\ sess'[t].st = sess[t].st /\ sess'[t].clean = sess[t].clean

MoveOpen(t) ==
    /\ sess[t].st = "new" /\ sess'[t].st = "opening" /\ a2c' = a2c /\ wsUp
    /\ \E mode \in {"r", "w"} :
          /\ sess'[t].mode = mode
          /\ OpenFor(IF mode = "w" THEN {"r", "w"} ELSE {"w"}) = {}
          /\ BrowserSend(FileOpen(t, mode))

MoveEnd(t) ==
    /\ \/ sess[t].st = "open" /\ sess'[t].st = "closed"
       \/ /\ sess[t].st \in {"operating", "listing"}
          /\ sess'[t].st \in {"done", "listed", "failed"}
    /\ BrowserSend(FileCmd("OK", t))

MoveOther(t) ==
    /\ sess[t].st = "new" /\ sess'[t].st \in {"operating", "listing"}
    /\ \E type \in {"FILEOP", "DIRLS"} : BrowserSend(FileCmd(type, t))

Move(t) ==
    /\ \A u \in Tokens : u # t => sess'[u] = sess[u]
    /\ sess'[t].clean => sess[t].clean
    /\ a2c' = a2c \/ Received(t)
    /\ UNCHANGED wsUp /\ UNCHANGED agentVars
    /\ Modes(sess'[t])
    /\ sess'[t].mode = sess[t].mode \/ MoveOpen(t)
    /\ MoveAsk(t) \/ MoveBack(t) \/ MoveOn(t) \/ MoveOpen(t) \/ MoveEnd(t) \/ MoveOther(t)

\* What a session becomes.
LEMMA SessionFields ==
    ASSUME NEW s \in Session
    PROVE  /\ s.mode \in {"", "r", "w"} /\ s.offset \in Nat /\ s.size \in Nat
           /\ s.left \in Nat /\ s.from \in Nat /\ s.data \in Seq(Nat)
           /\ s.clean \in BOOLEAN
           /\ \A st : /\ [s EXCEPT !.st = st].st = st
                      /\ [s EXCEPT !.st = st].mode = s.mode
                      /\ [s EXCEPT !.st = st].clean = s.clean
                      /\ [s EXCEPT !.st = st].offset = s.offset
                      /\ [s EXCEPT !.st = st].data = s.data
  BY DEF Session

LEMMA OpenMoves ==
    ASSUME IInv, NEW t \in Tokens, Modes(sess[t]), NEW mode \in {"r", "w"},
           Open(t, mode), UNCHANGED agentVars
    PROVE  Move(t)
  <1>1. sess \in [Tokens -> Session] /\ sess[t] \in Session
      BY CallFacts
  <1>2. sess[t].st = "new" /\ UNCHANGED <<a2c, wsUp>>
      BY DEF Open, Call
  <1>3. CASE wsUp /\ sess' = [sess EXCEPT ![t].st = "opening", ![t].mode = mode]
                  /\ BrowserSend(FileOpen(t, mode))
      <2>1. /\ sess'[t].st = "opening" /\ sess'[t].mode = mode /\ sess'[t].clean = sess[t].clean
            /\ \A u \in Tokens : u # t => sess'[u] = sess[u]
          BY <1>1, <1>3 DEF Session
      <2>2. Modes(sess'[t])
          BY <1>2, <2>1 DEF Modes
      <2>3. MoveOpen(t)
          BY <1>2, <1>3, <2>1 DEF MoveOpen, Open
      <2> QED BY <1>2, <2>1, <2>2, <2>3 DEF Move
  <1>4. CASE sess' = [sess EXCEPT ![t].st = "failed"] /\ c2a' = c2a
      <2>1. /\ sess'[t].st = "failed" /\ sess'[t].mode = sess[t].mode
            /\ sess'[t].clean = sess[t].clean
            /\ \A u \in Tokens : u # t => sess'[u] = sess[u]
          BY <1>1, <1>4 DEF Session
      <2>2. Modes(sess'[t])
          BY <2>1 DEF Modes
      <2>3. MoveBack(t)
          BY <1>2, <1>4, <2>1 DEF MoveBack
      <2> QED BY <1>2, <2>1, <2>2, <2>3 DEF Move
  <1> QED BY <1>3, <1>4 DEF Open

LEMMA StatMoves ==
    ASSUME IInv, NEW t \in Tokens, Stat(t), UNCHANGED agentVars
    PROVE  Move(t)
  <1>1. sess \in [Tokens -> Session] /\ sess[t] \in Session
      BY CallFacts
  <1>2. /\ sess[t].st = "open" /\ UNCHANGED <<a2c, wsUp>>
        /\ sess' = [sess EXCEPT ![t].st = "stating"] /\ BrowserSend(FileCmd("FILESTAT", t))
      BY DEF Stat, Call
  <1>3. /\ sess'[t].st = "stating" /\ sess'[t].mode = sess[t].mode
        /\ sess'[t].clean = sess[t].clean
        /\ \A u \in Tokens : u # t => sess'[u] = sess[u]
      BY <1>1, <1>2 DEF Session
  <1>4. Modes(sess'[t])
      BY <1>3 DEF Modes
  <1>5. Expected(FileCmd("FILESTAT", t), t)'
      BY <1>3 DEF Expected, FileCmd
  <1>6. MoveAsk(t)
      BY <1>2, <1>3, <1>5, RequestFacts DEF MoveAsk
  <1> QED BY <1>2, <1>3, <1>4, <1>6 DEF Move

LEMMA SeekMoves ==
    ASSUME IInv, NEW t \in Tokens, Modes(sess[t]), Seek(t), UNCHANGED agentVars
    PROVE  Move(t)
  <1>1. sess \in [Tokens -> Session] /\ sess[t] \in Session
      BY CallFacts
  <1>2. sess[t].st = "open" /\ UNCHANGED <<a2c, c2a, wsUp>>
      BY DEF Seek, Call
  <1>3. PICK off : sess' = [sess EXCEPT ![t].offset = off]
      BY DEF Seek
  <1>4. /\ sess'[t].st = "open" /\ sess'[t].mode = sess[t].mode
        /\ sess'[t].clean = sess[t].clean
        /\ \A u \in Tokens : u # t => sess'[u] = sess[u]
      BY <1>1, <1>2, <1>3 DEF Session
  <1>5. Modes(sess'[t]) /\ MoveBack(t)
      BY <1>2, <1>4 DEF Modes, MoveBack, OpenStates
  <1> QED BY <1>2, <1>4, <1>5 DEF Move

LEMMA ReadMoves ==
    ASSUME IInv, NEW t \in Tokens, Read(t), UNCHANGED agentVars
    PROVE  Move(t)
  <1>1. sess \in [Tokens -> Session] /\ sess[t] \in Session
      BY CallFacts
  <1>2. /\ sess[t].st = "open" /\ UNCHANGED <<a2c, wsUp>> /\ sess[t].mode = "r"
        /\ BrowserSend(FileRead(t, sess[t].offset))
      BY DEF Read, Call
  <1>3. PICK n : sess' = [sess EXCEPT ![t].st = "reading", ![t].left = n,
                               ![t].from = sess[t].offset, ![t].data = <<>>]
      BY DEF Read
  <1>4. /\ sess'[t].st = "reading" /\ sess'[t].mode = "r"
        /\ sess'[t].clean = sess[t].clean /\ sess'[t].offset = sess[t].offset
        /\ \A u \in Tokens : u # t => sess'[u] = sess[u]
      BY <1>1, <1>2, <1>3 DEF Session
  <1>5. Modes(sess'[t])
      BY <1>4 DEF Modes
  <1>6. Expected(FileRead(t, sess[t].offset), t)'
      BY <1>4 DEF Expected, FileRead
  <1>7. FileRead(t, sess[t].offset) \in Request /\ FileRead(t, sess[t].offset).token = t
        /\ FileRead(t, sess[t].offset).type = "FILEREAD"
      BY <1>1, SessionFields, RequestFacts DEF FileRead
  <1>8. MoveAsk(t)
      BY <1>2, <1>4, <1>6, <1>7 DEF MoveAsk
  <1> QED BY <1>2, <1>4, <1>5, <1>8 DEF Move

LEMMA WriteMoves ==
    ASSUME IInv, NEW t \in Tokens, Write(t), UNCHANGED agentVars
    PROVE  Move(t)
  <1>1. sess \in [Tokens -> Session] /\ sess[t] \in Session /\ calls \in Nat
      BY CallFacts
  <1>2. /\ sess[t].st = "open" /\ UNCHANGED <<a2c, wsUp>> /\ sess[t].mode = "w"
        /\ WriteChunk(t, sess'[t])
      BY DEF Write, Call
  <1>3. PICK n : /\ n \in 1..2
                 /\ sess' = [sess EXCEPT ![t].st = "writing",
                                         ![t].data = [i \in 1..n |-> 2 * calls + i]]
      BY DEF Write
  <1>4. /\ sess'[t].st = "writing" /\ sess'[t].mode = "w"
        /\ sess'[t].clean = sess[t].clean /\ sess'[t].offset = sess[t].offset
        /\ sess'[t].data = [i \in 1..n |-> 2 * calls + i]
        /\ \A u \in Tokens : u # t => sess'[u] = sess[u]
      BY <1>1, <1>2, <1>3 DEF Session
  <1>5. Modes(sess'[t])
      BY <1>4 DEF Modes
  <1>6. Head(sess'[t].data) \in Nat
      BY <1>1, <1>3, <1>4
  <1>7. PICK m : m = FileData(t, sess'[t].offset, <<Head(sess'[t].data)>>)
      OBVIOUS
  <1>8. Expected(m, t)'
      BY <1>4, <1>7 DEF Expected, FileData
  <1>9. m \in Request /\ m.token = t /\ m.type = "FILEDATA"
      BY <1>1, <1>4, <1>6, <1>7, SessionFields, RequestFacts DEF FileData
  <1>10. BrowserSend(m)
      BY <1>2, <1>7 DEF WriteChunk
  <1>11. MoveAsk(t)
      BY <1>2, <1>4, <1>8, <1>9, <1>10 DEF MoveAsk
  <1> QED BY <1>2, <1>4, <1>5, <1>11 DEF Move

LEMMA CloseMoves ==
    ASSUME IInv, NEW t \in Tokens, Close(t), UNCHANGED agentVars
    PROVE  Move(t)
  <1>1. sess \in [Tokens -> Session] /\ sess[t] \in Session
      BY CallFacts
  <1>2. /\ sess[t].st = "open" /\ UNCHANGED <<a2c, wsUp>>
        /\ sess' = [sess EXCEPT ![t].st = "closed"] /\ BrowserSend(FileCmd("OK", t))
      BY DEF Close, Call
  <1>3. /\ sess'[t].st = "closed" /\ sess'[t].mode = sess[t].mode
        /\ sess'[t].clean = sess[t].clean
        /\ \A u \in Tokens : u # t => sess'[u] = sess[u]
      BY <1>1, <1>2 DEF Session
  <1>4. Modes(sess'[t]) /\ MoveEnd(t)
      BY <1>2, <1>3 DEF Modes, MoveEnd
  <1> QED BY <1>2, <1>3, <1>4 DEF Move

LEMMA OperationMoves ==
    ASSUME IInv, NEW t \in Tokens,
           \/ Operation(t, "operating", "FILEOP")
           \/ Operation(t, "listing", "DIRLS"),
           UNCHANGED agentVars
    PROVE  Move(t)
  <1>1. sess \in [Tokens -> Session] /\ sess[t] \in Session
      BY CallFacts
  <1>2. PICK st \in {"operating", "listing"}, type \in {"FILEOP", "DIRLS"} :
            /\ sess[t].st = "new" /\ UNCHANGED <<a2c, wsUp>>
            /\ sess' = [sess EXCEPT ![t].st = st] /\ BrowserSend(FileCmd(type, t))
      BY DEF Operation, Call
  <1>3. /\ sess'[t].st = st /\ sess'[t].mode = sess[t].mode
        /\ sess'[t].clean = sess[t].clean
        /\ \A u \in Tokens : u # t => sess'[u] = sess[u]
      BY <1>1, <1>2 DEF Session
  <1>4. Modes(sess'[t]) /\ MoveOther(t)
      BY <1>2, <1>3 DEF Modes, MoveOther
  <1> QED BY <1>2, <1>3, <1>4 DEF Move

\* The session is the only one that changes.
LEMMA MoveStep ==
    ASSUME IInv, NEW t \in Tokens, NEW s, sess' = [sess EXCEPT ![t] = s],
           s.mode = sess[t].mode, s.clean => sess[t].clean, Modes(s),
           a2c' = a2c \/ Received(t), UNCHANGED wsUp, UNCHANGED agentVars,
           MoveAsk(t) \/ MoveBack(t) \/ MoveOn(t) \/ MoveEnd(t)
    PROVE  Move(t)
  <1>1. sess \in [Tokens -> Session]
      BY CallFacts
  <1>2. sess'[t] = s /\ \A u \in Tokens : u # t => sess'[u] = sess[u]
      BY <1>1
  <1> QED BY <1>2 DEF Move

LEMMA OpenAnsweredMoves ==
    ASSUME IInv, NEW t \in Tokens, Modes(sess[t]), OpenAnswered(t), UNCHANGED agentVars
    PROVE  Move(t)
  <1>1. sess \in [Tokens -> Session] /\ sess[t] \in Session
      BY CallFacts
  <1>2. sess[t].st = "opening" /\ Answered(t, sess[t].st) /\ Received(t) /\ wsUp' = wsUp
      BY AnsweredFacts DEF OpenAnswered
  <1>3. PICK st \in {"sizing", "open"} :
            /\ sess' = [sess EXCEPT ![t].st = st]
            /\ st = "sizing" => sess[t].mode = "r" /\ BrowserSend(FileCmd("FILESTAT", t))
            /\ st = "open" => c2a' = c2a
      BY DEF OpenAnswered
  <1> DEFINE s == [sess[t] EXCEPT !.st = st]
  <1>4. s.st = st /\ s.mode = sess[t].mode /\ s.clean = sess[t].clean
      BY <1>1 DEF Session
  <1>5. sess' = [sess EXCEPT ![t] = s]
      BY <1>1, <1>3
  <1> HIDE DEF s
  <1>6. sess'[t] = s
      BY <1>1, <1>5
  <1>7. Modes(s)
      BY <1>2, <1>3, <1>4 DEF Modes
  <1>8. CASE st = "sizing"
      <2>1. Expected(FileCmd("FILESTAT", t), t)'
          BY <1>4, <1>6, <1>8 DEF Expected, FileCmd
      <2>2. MoveAsk(t)
          BY <1>2, <1>3, <1>4, <1>6, <1>8, <2>1, RequestFacts DEF MoveAsk
      <2> QED BY <1>2, <1>4, <1>5, <1>7, <2>2, MoveStep
  <1>9. CASE st = "open"
      <2>1. MoveBack(t)
          BY <1>2, <1>3, <1>4, <1>6, <1>9 DEF MoveBack, OpenStates
      <2> QED BY <1>2, <1>4, <1>5, <1>7, <2>1, MoveStep
  <1> QED BY <1>3, <1>8, <1>9

LEMMA StatAnsweredMoves ==
    ASSUME IInv, NEW t \in Tokens, Modes(sess[t]), StatAnswered(t), UNCHANGED agentVars
    PROVE  Move(t)
  <1>1. sess \in [Tokens -> Session] /\ sess[t] \in Session
      BY CallFacts
  <1>2. /\ sess[t].st \in {"sizing", "stating"} /\ Answered(t, sess[t].st) /\ Received(t)
        /\ wsUp' = wsUp /\ c2a' = c2a
      BY AnsweredFacts DEF StatAnswered
  <1>3. PICK size : sess' = [sess EXCEPT ![t].st = "open", ![t].size = size]
      BY DEF StatAnswered
  <1> DEFINE s == [sess[t] EXCEPT !.st = "open", !.size = size]
  <1>4. s.st = "open" /\ s.mode = sess[t].mode /\ s.clean = sess[t].clean
      BY <1>1 DEF Session
  <1>5. sess' = [sess EXCEPT ![t] = s]
      BY <1>1, <1>3
  <1> HIDE DEF s
  <1>6. sess'[t] = s /\ Modes(s)
      BY <1>1, <1>4, <1>5 DEF Modes
  <1>7. MoveBack(t)
      BY <1>2, <1>4, <1>6 DEF MoveBack, OpenStates
  <1> QED BY <1>2, <1>4, <1>5, <1>6, <1>7, MoveStep

LEMMA ReadAnsweredMoves ==
    ASSUME IInv, NEW t \in Tokens, Modes(sess[t]), ReadAnswered(t), UNCHANGED agentVars
    PROVE  Move(t)
  <1>1. sess \in [Tokens -> Session] /\ sess[t] \in Session
      BY CallFacts
  <1>2. /\ sess[t].st = "reading" /\ Answered(t, sess[t].st) /\ Received(t) /\ wsUp' = wsUp
        /\ Answer(t) \in Response /\ Answer(t).type = "FILEDATA" /\ sess[t].mode = "r"
      BY AnsweredFacts, WantedFacts DEF ReadAnswered, Modes
  <1> DEFINE data == Answer(t).data
             s == [sess[t] EXCEPT !.offset = @ + Len(data), !.left = @ - Len(data),
                                  !.data = @ \o data]
             done == [s EXCEPT !.st = "open", !.left = 0]
  <1>3. \/ sess' = [sess EXCEPT ![t] = done] /\ c2a' = c2a
        \/ sess' = [sess EXCEPT ![t] = s] /\ BrowserSend(FileRead(t, s.offset))
      BY DEF ReadAnswered
  <1>4. data \in Seq(Nat) /\ Len(data) \in 0..1
      BY <1>2, ResponseFacts
  <1> HIDE DEF data
  <1>5. sess[t].offset + Len(data) \in Nat
      <2>1. sess[t].offset \in Nat
          BY <1>1 DEF Session
      <2>2. Len(data) \in Nat
          BY <1>4
      <2> QED BY <2>1, <2>2
  <1>6. /\ s.st = "reading" /\ s.mode = "r" /\ s.clean = sess[t].clean /\ s.offset \in Nat
        /\ done.st = "open" /\ done.mode = "r" /\ done.clean = sess[t].clean
      BY <1>1, <1>2, <1>5 DEF Session
  <1> HIDE DEF s, done
  <1>7. CASE sess' = [sess EXCEPT ![t] = done] /\ c2a' = c2a
      <2>1. sess'[t] = done /\ Modes(done)
          BY <1>1, <1>6, <1>7 DEF Modes
      <2>2. MoveBack(t)
          BY <1>2, <1>6, <1>7, <2>1 DEF MoveBack, OpenStates
      <2> QED BY <1>2, <1>6, <1>7, <2>1, <2>2, MoveStep
  <1>8. CASE sess' = [sess EXCEPT ![t] = s] /\ BrowserSend(FileRead(t, s.offset))
      <2>1. sess'[t] = s /\ Modes(s)
          BY <1>1, <1>6, <1>8 DEF Modes
      <2>2. PICK m : m = FileRead(t, s.offset)
          OBVIOUS
      <2>3. m \in Request /\ m.token = t /\ m.type = "FILEREAD"
          BY <1>6, <2>2, RequestFacts DEF FileRead
      <2>4. Expected(m, t)'
          BY <1>6, <2>1, <2>2 DEF Expected
      <2>5. MoveAsk(t)
          BY <1>2, <1>6, <1>8, <2>1, <2>2, <2>3, <2>4 DEF MoveAsk
      <2> QED BY <1>2, <1>6, <1>8, <2>1, <2>5, MoveStep
  <1> QED BY <1>3, <1>7, <1>8

LEMMA WriteAnsweredMoves ==
    ASSUME IInv, NEW t \in Tokens, Modes(sess[t]), WriteAnswered(t), UNCHANGED agentVars
    PROVE  Move(t)
  <1>1. sess \in [Tokens -> Session] /\ sess[t] \in Session
      BY CallFacts
  <1>2. /\ sess[t].st = "writing" /\ Answered(t, sess[t].st) /\ Received(t) /\ wsUp' = wsUp
        /\ sess[t].mode = "w"
      BY AnsweredFacts DEF WriteAnswered, Modes
  <1> DEFINE s == [sess[t] EXCEPT !.offset = @ + 1, !.data = Tail(@)]
             done == [s EXCEPT !.st = "open"]
  <1>3. \/ sess' = [sess EXCEPT ![t] = done] /\ c2a' = c2a
        \/ s.data # <<>> /\ sess' = [sess EXCEPT ![t] = s] /\ WriteChunk(t, s)
      BY DEF WriteAnswered
  <1>4. /\ sess[t].offset \in Nat /\ sess[t].data \in Seq(Nat) /\ sess[t].data # <<>>
      BY <1>1, <1>2, CallFacts DEF Session, SessionFacts
  <1>5. Tail(sess[t].data) \in Seq(Nat) /\ sess[t].offset + 1 \in Nat
      BY <1>4
  <1>6. /\ s.st = "writing" /\ s.mode = "w" /\ s.clean = sess[t].clean /\ s.offset \in Nat
        /\ s.data \in Seq(Nat)
        /\ done.st = "open" /\ done.mode = "w" /\ done.clean = sess[t].clean
      BY <1>1, <1>2, <1>5 DEF Session
  <1> HIDE DEF s, done
  <1>7. CASE sess' = [sess EXCEPT ![t] = done] /\ c2a' = c2a
      <2>1. sess'[t] = done /\ Modes(done)
          BY <1>1, <1>6, <1>7 DEF Modes
      <2>2. MoveBack(t)
          BY <1>2, <1>6, <1>7, <2>1 DEF MoveBack, OpenStates
      <2> QED BY <1>2, <1>6, <1>7, <2>1, <2>2, MoveStep
  <1>8. CASE s.data # <<>> /\ sess' = [sess EXCEPT ![t] = s] /\ WriteChunk(t, s)
      <2>1. sess'[t] = s /\ Modes(s)
          BY <1>1, <1>6, <1>8 DEF Modes
      <2>2. Head(s.data) \in Nat
          BY <1>6, <1>8
      <2>3. PICK m : m = FileData(t, s.offset, <<Head(s.data)>>)
          OBVIOUS
      <2>4. m \in Request /\ m.token = t /\ m.type = "FILEDATA"
          BY <1>6, <2>2, <2>3, RequestFacts DEF FileData
      <2>5. Expected(m, t)'
          BY <1>6, <2>1, <2>3 DEF Expected
      <2>6. BrowserSend(m)
          BY <1>8, <2>3 DEF WriteChunk
      <2>7. MoveAsk(t)
          BY <1>2, <1>6, <2>1, <2>4, <2>5, <2>6 DEF MoveAsk
      <2> QED BY <1>2, <1>6, <1>8, <2>1, <2>7, MoveStep
  <1> QED BY <1>3, <1>7, <1>8

LEMMA OperationAnsweredMoves ==
    ASSUME IInv, NEW t \in Tokens, OperationAnswered(t), UNCHANGED agentVars
    PROVE  Move(t)
  <1>1. sess \in [Tokens -> Session] /\ sess[t] \in Session
      BY CallFacts
  <1>2. /\ sess[t].st \in {"operating", "listing"} /\ Received(t) /\ wsUp' = wsUp
      BY AnsweredFacts DEF OperationAnswered
  <1>3. PICK st \in {"listed", "done"} : sess' = [sess EXCEPT ![t].st = st]
      BY DEF OperationAnswered
  <1> DEFINE s == [sess[t] EXCEPT !.st = st]
  <1>4. s.st = st /\ s.mode = sess[t].mode /\ s.clean = sess[t].clean
      BY <1>1 DEF Session
  <1>5. sess' = [sess EXCEPT ![t] = s]
      BY <1>1, <1>3
  <1> HIDE DEF s
  <1>6. sess'[t] = s /\ Modes(s)
      BY <1>1, <1>3, <1>4, <1>5 DEF Modes
  <1>7. BrowserSend(FileCmd("OK", t))
      BY DEF OperationAnswered
  <1>8. MoveEnd(t)
      BY <1>2, <1>3, <1>4, <1>6, <1>7 DEF MoveEnd
  <1> QED BY <1>2, <1>4, <1>5, <1>6, <1>8, MoveStep

LEMMA ListEntryAnsweredMoves ==
    ASSUME IInv, NEW t \in Tokens, ListEntryAnswered(t), UNCHANGED agentVars
    PROVE  Move(t)
  <1>1. sess \in [Tokens -> Session] /\ sess[t] \in Session
      BY CallFacts
  <1>2. /\ sess[t].st = "listing" /\ Received(t) /\ wsUp' = wsUp /\ c2a' = c2a
        /\ sess' = [sess EXCEPT ![t].left = @ + 1]
      BY DEF ListEntryAnswered, Received
  <1> DEFINE s == [sess[t] EXCEPT !.left = @ + 1]
  <1>3. s.st = "listing" /\ s.mode = sess[t].mode /\ s.clean = sess[t].clean
      BY <1>1, <1>2 DEF Session
  <1>4. sess' = [sess EXCEPT ![t] = s]
      BY <1>1, <1>2
  <1> HIDE DEF s
  <1>5. sess'[t] = s /\ Modes(s)
      BY <1>1, <1>3, <1>4 DEF Modes
  <1>6. MoveOn(t)
      BY <1>2, <1>3, <1>5 DEF MoveOn
  <1> QED BY <1>2, <1>3, <1>4, <1>5, <1>6, MoveStep

LEMMA SkipMoves ==
    ASSUME IInv, NEW t \in Tokens, Modes(sess[t]), Skip(t), UNCHANGED agentVars
    PROVE  Move(t)
  <1>1. sess \in [Tokens -> Session] /\ sess[t] \in Session
      BY CallFacts
  <1>2. Received(t) /\ wsUp' = wsUp /\ c2a' = c2a /\ sess' = sess
      BY DEF Skip, Received
  <1>3. sess' = [sess EXCEPT ![t] = sess[t]]
      BY <1>1, <1>2
  <1>4. MoveOn(t)
      BY <1>2 DEF MoveOn
  <1> QED BY <1>2, <1>3, <1>4, MoveStep

LEMMA RaiseMoves ==
    ASSUME IInv, NEW t \in Tokens, NEW clean \in BOOLEAN, Waiting(t), Raise(t, clean),
           \/ Received(t) /\ clean = sess[t].clean
           \/ a2c' = a2c /\ ~clean,
           UNCHANGED wsUp, UNCHANGED agentVars
    PROVE  Move(t)
  <1>1. sess \in [Tokens -> Session] /\ sess[t] \in Session
      BY CallFacts
  <1>2. sess[t].st \in {"opening", "sizing", "stating", "reading", "writing",
                        "operating", "listing"}
      BY WantedFacts DEF Waiting
  <1>3. PICK st \in {"open", "failed"} :
            /\ st = "open" <=> sess[t].st \in {"stating", "reading", "writing"}
            /\ sess' = [sess EXCEPT ![t] = [[sess[t] EXCEPT !.left = 0, !.data = <<>>,
                                                             !.clean = clean]
                                               EXCEPT !.st = st]]
            /\ \/ c2a' = c2a /\ sess[t].st \notin {"operating", "listing"}
               \/ BrowserSend(FileCmd("OK", t)) /\ sess[t].st \in {"operating", "listing"}
      BY DEF Raise
  <1> DEFINE s == [[sess[t] EXCEPT !.left = 0, !.data = <<>>, !.clean = clean]
                      EXCEPT !.st = st]
  <1>4. s.st = st /\ s.mode = sess[t].mode /\ s.clean = clean
      BY <1>1 DEF Session
  <1>5. sess' = [sess EXCEPT ![t] = s]
      BY <1>3
  <1> HIDE DEF s
  <1>6. sess'[t] = s /\ Modes(s)
      BY <1>1, <1>3, <1>4, <1>5 DEF Modes
  <1>7. CASE st = "open"
      <2>1. MoveBack(t)
          BY <1>3, <1>4, <1>6, <1>7 DEF MoveBack, OpenStates
      <2> QED BY <1>4, <1>5, <1>6, <2>1, MoveStep
  <1>8. CASE st = "failed" /\ sess[t].st \in {"opening", "sizing"}
      <2>1. MoveBack(t)
          BY <1>3, <1>4, <1>6, <1>8 DEF MoveBack
      <2> QED BY <1>4, <1>5, <1>6, <2>1, MoveStep
  <1>9. CASE st = "failed" /\ sess[t].st \in {"operating", "listing"}
      <2>1. MoveEnd(t)
          BY <1>3, <1>4, <1>6, <1>9 DEF MoveEnd
      <2> QED BY <1>4, <1>5, <1>6, <2>1, MoveStep
  <1> QED BY <1>2, <1>3, <1>7, <1>8, <1>9

LEMMA RefusedMoves ==
    ASSUME IInv, NEW t \in Tokens, Refused(t), UNCHANGED agentVars
    PROVE  Move(t)
  <1>1. /\ Received(t) /\ Waiting(t) /\ Raise(t, sess[t].clean) /\ wsUp' = wsUp
        /\ sess[t].clean \in BOOLEAN
      BY CallFacts, SessionFields DEF Refused, Received
  <1> QED BY <1>1, RaiseMoves

LEMMA TimeoutMoves ==
    ASSUME IInv, NEW t \in Tokens, Timeout(t), UNCHANGED agentVars
    PROVE  Move(t)
  <1>1. Waiting(t) /\ Raise(t, FALSE) /\ a2c' = a2c /\ wsUp' = wsUp
      BY DEF Timeout
  <1>2. /\ FALSE \in BOOLEAN /\ ~FALSE
      OBVIOUS
  <1> QED BY <1>1, <1>2, RaiseMoves

\* Every step of the browser is one of these.
LEMMA BrowserMoves ==
    ASSUME IInv, \A t \in Tokens : Modes(sess[t]), BrowserNext, UNCHANGED agentVars
    PROVE  \E t \in Tokens : Move(t) /\ (Answers(t) \/ Calls(t) \/ Timeout(t))
  <1>1. PICK t \in Tokens : Answers(t) \/ Calls(t) \/ Timeout(t)
      BY DEF BrowserNext
  <1> SUFFICES Move(t)
      BY <1>1
  <1>2. Modes(sess[t])
      OBVIOUS
  <1>3. CASE OpenAnswered(t) \/ StatAnswered(t) \/ ReadAnswered(t) \/ WriteAnswered(t)
      BY <1>2, <1>3, OpenAnsweredMoves, StatAnsweredMoves, ReadAnsweredMoves,
         WriteAnsweredMoves
  <1>4. CASE OperationAnswered(t) \/ ListEntryAnswered(t) \/ Refused(t) \/ Skip(t)
      BY <1>2, <1>4, OperationAnsweredMoves, ListEntryAnsweredMoves, RefusedMoves, SkipMoves
  <1>5. CASE Calls(t)
      <2>1. CASE \E mode \in {"r", "w"} : Open(t, mode)
          BY <1>2, <2>1, OpenMoves
      <2>2. CASE Stat(t) \/ Seek(t) \/ Read(t) \/ Write(t) \/ Close(t)
          BY <1>2, <2>2, StatMoves, SeekMoves, ReadMoves, WriteMoves, CloseMoves
      <2>3. CASE Operation(t, "operating", "FILEOP") \/ Operation(t, "listing", "DIRLS")
          BY <2>3, OperationMoves
      <2> QED BY <1>5, <2>1, <2>2, <2>3 DEF Calls
  <1>6. CASE Timeout(t)
      BY <1>6, TimeoutMoves
  <1> QED BY <1>1, <1>3, <1>4, <1>5, <1>6 DEF Answers

-----------------------------------------------------------------------------
(* The order of what the sessions ask for.                                  *)

\* What a step of the browser does to everything but its session.
LEMMA MoveShape ==
    ASSUME IInv, NEW t \in Tokens, Move(t)
    PROVE  /\ \A u \in Tokens : u # t => sess'[u] = sess[u]
           /\ wsUp' = wsUp
           /\ \A u : (Opened(u)' <=> Opened(u)) /\ (Dirty(u)' <=> Dirty(u))
           /\ \A u : None(a2c, u) => None(a2c', u)
           /\ \A u : Once(a2c, u) => Once(a2c', u)
           /\ \A i \in DOMAIN a2c' : \E j \in DOMAIN a2c : a2c[j] = a2c'[i]
           /\ Received(t) => Waiting(t) /\ ~None(a2c, t)
           /\ Received(t) /\ Once(a2c, t) => None(a2c', t)
           /\ Answered(t, sess[t].st) =>
                 \E i \in DOMAIN a2c : a2c[i].token = t /\ a2c[i].type = Wanted[sess[t].st]
  <1>1. LinkType /\ a2c \in Seq(Response)
      BY CallFacts DEF LinkType
  <1>2. /\ \A u \in Tokens : u # t => sess'[u] = sess[u]
        /\ wsUp' = wsUp /\ file_queues' = file_queues
        /\ a2c' = a2c \/ Received(t)
      BY DEF Move, agentVars
  <1>3. \A u : (Opened(u)' <=> Opened(u)) /\ (Dirty(u)' <=> Dirty(u))
      BY <1>2 DEF Opened, Dirty
  <1>4. ASSUME Received(t)
        PROVE  /\ \A u : None(a2c, u) => None(a2c', u)
               /\ \A u : Once(a2c, u) => Once(a2c', u)
               /\ \A i \in DOMAIN a2c' : \E j \in DOMAIN a2c : a2c[j] = a2c'[i]
               /\ Waiting(t) /\ ~None(a2c, t)
               /\ Once(a2c, t) => None(a2c', t)
               /\ \E i \in DOMAIN a2c : a2c[i].token = t /\ a2c[i] = Answer(t)
      <2>1. PICK k \in 1..Len(a2c) :
                /\ a2c[k].token = t /\ Answer(t) = a2c[k] /\ k \in DOMAIN a2c
                /\ Without(a2c, k, a2c') /\ Len(a2c) \in Nat
          BY <1>1, <1>4, ReceiveFacts
      <2>2. \A u : /\ None(a2c, u) => None(a2c', u)
                   /\ Once(a2c, u) => Once(a2c', u)
                   /\ Once(a2c, u) /\ a2c[k].token = u => None(a2c', u)
          BY <1>1, <2>1, RemovedNone
      <2>3. \A i \in DOMAIN a2c' : \E j \in DOMAIN a2c : a2c[j] = a2c'[i]
          <3>1. DOMAIN a2c = 1..Len(a2c)
              BY <1>1
          <3> QED BY <2>1, <3>1 DEF Without
      <2>4. Waiting(t) /\ ~None(a2c, t)
          BY <1>4, <2>1 DEF Received, None
      <2> QED BY <2>1, <2>2, <2>3, <2>4
  <1>5. Answered(t, sess[t].st) =>
            \E i \in DOMAIN a2c : a2c[i].token = t /\ a2c[i].type = Wanted[sess[t].st]
      BY <1>4 DEF Answered
  <1>6. a2c' = a2c => /\ \A u : None(a2c, u) => None(a2c', u)
                      /\ \A u : Once(a2c, u) => Once(a2c', u)
                      /\ \A i \in DOMAIN a2c' : \E j \in DOMAIN a2c : a2c[j] = a2c'[i]
      OBVIOUS
  <1> QED BY <1>2, <1>3, <1>4, <1>5, <1>6

\* A session that is over does nothing more.
LEMMA MoveState ==
    ASSUME IInv, NEW t \in Tokens, Move(t)
    PROVE  sess[t].st \notin {"closed", "done", "listed", "failed"}
  <1>1. MoveOn(t) => Waiting(t)
      BY DEF MoveOn, Received
  <1>2. MoveBack(t) => sess[t].st \in OpenStates \cup {"new"}
      BY DEF MoveBack, OpenStates
  <1> QED BY <1>1, <1>2, WantedFacts
         DEF Move, MoveAsk, MoveOpen, MoveEnd, MoveOther, Waiting, OpenStates

\* Only open makes a session one with an open file.
LEMMA MoveStaysOpen ==
    ASSUME IInv, NEW t \in Tokens, Move(t), ~MoveOpen(t)
    PROVE  /\ \A modes : \A u \in Tokens : u \in OpenFor(modes)' => u \in OpenFor(modes)
           /\ t \in OpenFor({"r", "w"})' =>
                 /\ MoveAsk(t) \/ MoveBack(t) \/ MoveOn(t)
                 /\ sess[t].st \in OpenStates /\ sess[t].mode \in {"r", "w"}
                 /\ t \in OpenFor({"r", "w"})
  <1>1. /\ \A u \in Tokens : u # t => sess'[u] = sess[u]
        /\ sess'[t].mode = sess[t].mode
      BY DEF Move
  <1>2. sess'[t].st \in OpenStates =>
            sess[t].st \in OpenStates /\ (MoveAsk(t) \/ MoveBack(t) \/ MoveOn(t))
      BY DEF Move, MoveAsk, MoveBack, MoveOn, MoveEnd, MoveOther, OpenStates
  <1> QED BY <1>1, <1>2 DEF OpenFor

\* What a session knows whose file is open.
LEMMA OpeningFacts ==
    ASSUME IInv, Ordered, NEW t \in Tokens, t \in OpenFor({"r", "w"}), sess[t].clean,
           ~None(a2c, t)
    PROVE  None(c2a, t) /\ Once(a2c, t) /\ Arrived(t)
  BY DEF Ordered, Orderly, Alone, Arrived

\* The FILEOPEN of a session has been answered when it goes on.
LEMMA MoveAnswered ==
    ASSUME IInv, Ordered, NEW t \in Tokens, Move(t), MoveAsk(t) \/ MoveBack(t),
           sess'[t].st # "failed"
    PROVE  /\ t \in OpenFor({"r", "w"}) /\ Arrived(t) /\ Opened(t)
           /\ \A i \in DOMAIN c2a : c2a[i].token = t => c2a[i].type # "FILEOPEN"
  <1>1. sess[t].st \in OpenStates /\ SessionFacts(sess[t]) /\ Orderly(t)
      BY CallFacts DEF MoveAsk, MoveBack, OpenStates, Ordered
  <1>2. t \in OpenFor({"r", "w"})
      BY <1>1 DEF OpenFor, SessionFacts
  <1>3. CASE sess[t].st # "opening"
      <2>1. sess[t].st # "failed"
          BY <1>1 DEF OpenStates
      <2> QED BY <1>1, <1>2, <1>3, <2>1 DEF Orderly, Arrived, OpenAt, Opening
  <1>4. CASE sess[t].st = "opening"
      <2>1. Answered(t, sess[t].st)
          BY <1>4 DEF MoveAsk, MoveBack
      <2>2. Wanted[sess[t].st] = "CONTINUE"
          BY <1>4, WantedFacts
      <2>3. PICK i \in DOMAIN a2c : a2c[i].token = t /\ a2c[i].type = "CONTINUE"
          BY <2>1, <2>2, MoveShape
      <2>4. ~None(a2c, t)
          BY <2>3 DEF None
      <2>5. sess[t].clean
          BY <1>1, <1>4 DEF Orderly, Modes
      <2>6. None(c2a, t) /\ Arrived(t)
          BY <1>2, <2>4, <2>5, OpeningFacts
      <2>7. Opened(t)
          BY <1>1, <1>2, <2>3 DEF Orderly, OpenAt
      <2> QED BY <1>2, <2>6, <2>7 DEF None
  <1> QED BY <1>3, <1>4

LEMMA MoveExclusive ==
    ASSUME IInv, Ordered, NEW t \in Tokens, Move(t)
    PROVE  Exclusive'
  <1>1. CASE MoveOpen(t)
      <2>1. PICK mode \in {"r", "w"} :
                /\ sess'[t].mode = mode
                /\ OpenFor(IF mode = "w" THEN {"r", "w"} ELSE {"w"}) = {}
          BY <1>1 DEF MoveOpen
      <2>2. \A u \in Tokens : u # t => sess'[u] = sess[u]
          BY DEF Move
      <2>3. CASE mode = "w"
          <3>1. \A u \in Tokens : u # t => u \notin OpenFor({"r", "w"})'
              BY <2>1, <2>2, <2>3 DEF OpenFor
          <3> QED BY <3>1 DEF Exclusive, OpenFor
      <2>4. CASE mode = "r"
          <3>1. \A u \in Tokens : u \notin OpenFor({"w"})'
              BY <2>1, <2>2, <2>4 DEF OpenFor
          <3> QED BY <3>1 DEF Exclusive, OpenFor
      <2> QED BY <2>1, <2>3, <2>4
  <1>2. CASE ~MoveOpen(t)
      <2>1. \A modes : \A u \in Tokens : u \in OpenFor(modes)' => u \in OpenFor(modes)
          BY <1>2, MoveStaysOpen
      <2>2. ASSUME NEW u \in Tokens, u \in OpenFor({"w"})', NEW v \in Tokens,
                   v \in OpenFor({"r", "w"})'
            PROVE  v = u
          BY <2>1, <2>2 DEF Ordered, Exclusive
      <2>3. \A u \in Tokens : u \in OpenFor({"w"})' => u \in OpenFor({"r", "w"})'
          BY DEF OpenFor
      <2>4. OpenFor({"w"})' \subseteq Tokens /\ OpenFor({"r", "w"})' \subseteq Tokens
          BY DEF OpenFor
      <2>5. ASSUME NEW u \in OpenFor({"w"})'
            PROVE  OpenFor({"r", "w"})' = {u}
          BY <2>2, <2>3, <2>4, <2>5
      <2> QED BY <2>5 DEF Exclusive
  <1> QED BY <1>1, <1>2

LEMMA MoveEnded ==
    ASSUME IInv, Ordered, NEW t \in Tokens, Move(t), NEW u \in Tokens
    PROVE  Ended(u)'
  <1>1. Ended(u) /\ Ended(t) /\ LinkType
      BY CallFacts DEF Ordered, Orderly
  <1>2. \A i \in DOMAIN c2a : ~Ends(c2a[i], t)
      BY <1>1, MoveState DEF Ended
  <1>3. CASE c2a' = c2a
      <2>1. CASE u = t
          BY <1>2, <1>3, <2>1 DEF Ended
      <2>2. CASE u # t
          BY <1>1, <1>3, <2>2, MoveShape DEF Ended
      <2> QED BY <2>1, <2>2
  <1>4. CASE \E m \in Request :
                /\ m.token = t /\ BrowserSend(m) /\ c2a' # c2a
                /\ m.type = "OK" => sess'[t].st \in {"closed", "done", "listed", "failed"}
      <2>1. PICK m \in Request :
                /\ m.token = t /\ BrowserSend(m)
                /\ m.type = "OK" => sess'[t].st \in {"closed", "done", "listed", "failed"}
          BY <1>4
      <2>2. Grown(c2a', c2a, m)
          BY <1>1, <1>4, <2>1, SentShape
      <2>3. CASE u = t
          BY <1>2, <2>1, <2>2, <2>3 DEF Ended, Grown, Ends
      <2>4. CASE u # t
          <3>1. sess'[u] = sess[u]
              BY <2>4, MoveShape
          <3> QED BY <1>1, <2>1, <2>2, <2>4, <3>1 DEF Ended, Grown, Ends
      <2> QED BY <2>3, <2>4
  <1>5. CASE MoveAsk(t)
      BY <1>3, <1>4, <1>5 DEF MoveAsk
  <1>6. CASE MoveOpen(t) \/ MoveEnd(t) \/ MoveOther(t)
      <2>1. \A mode \in {"r", "w"} : FileOpen(t, mode).type = "FILEOPEN"
          BY DEF FileOpen
      <2> QED BY <1>3, <1>4, <1>6, <2>1, RequestFacts DEF MoveOpen, MoveEnd, MoveOther
  <1> QED BY <1>3, <1>5, <1>6 DEF Move, MoveBack, MoveOn

\* What a step of the browser asks for.
LEMMA MoveSends ==
    ASSUME IInv, NEW t \in Tokens, Move(t)
    PROVE  \/ c2a' = c2a
           \/ \E m \in Request :
                 /\ m.token = t /\ wsUp /\ Grown(c2a', c2a, m)
                 /\ \/ /\ MoveAsk(t) /\ m.type \in {"FILESTAT", "FILEREAD", "FILEDATA"}
                       /\ m.type = "FILEDATA" <=> sess'[t].st = "writing"
                       /\ Expected(m, t)'
                    \/ MoveOpen(t) /\ m = FileOpen(t, sess'[t].mode) /\ m.type = "FILEOPEN"
                    \/ MoveEnd(t) /\ m.type = "OK"
                    \/ MoveOther(t) /\ m.type \in {"FILEOP", "DIRLS"}
  <1>1. LinkType
      BY CallFacts
  <1>2. CASE MoveAsk(t)
      <2>1. PICK m \in Request :
                /\ m.token = t /\ BrowserSend(m)
                /\ m.type \in {"FILESTAT", "FILEREAD", "FILEDATA"}
                /\ m.type = "FILEDATA" <=> sess'[t].st = "writing"
                /\ Expected(m, t)'
          BY <1>2 DEF MoveAsk
      <2> QED BY <1>1, <1>2, <2>1, SentShape
  <1>3. CASE MoveOpen(t)
      <2>1. PICK mode \in {"r", "w"} :
                sess'[t].mode = mode /\ BrowserSend(FileOpen(t, mode))
          BY <1>3 DEF MoveOpen
      <2>2. /\ FileOpen(t, mode) \in Request /\ FileOpen(t, mode).token = t
            /\ FileOpen(t, mode).type = "FILEOPEN"
          BY RequestFacts DEF FileOpen
      <2> QED BY <1>1, <1>3, <2>1, <2>2, SentShape
  <1>4. CASE MoveEnd(t)
      <2>1. BrowserSend(FileCmd("OK", t))
          BY <1>4 DEF MoveEnd
      <2> QED BY <1>1, <1>4, <2>1, SentShape, RequestFacts
  <1>5. CASE MoveOther(t)
      <2>1. PICK type \in {"FILEOP", "DIRLS"} : BrowserSend(FileCmd(type, t))
          BY <1>5 DEF MoveOther
      <2> QED BY <1>1, <1>5, <2>1, SentShape, RequestFacts
  <1> QED BY <1>2, <1>3, <1>4, <1>5 DEF Move, MoveBack, MoveOn

\* Nobody has heard of a session that opens its file.
LEMMA MoveOpenNew ==
    ASSUME IInv, NEW t \in Tokens, Move(t), MoveOpen(t) \/ MoveOther(t)
    PROVE  None(c2a, t) /\ None(a2c, t) /\ None(a2c', t)
  <1>1. sess[t].st = "new" /\ Tracked(t)
      BY CallFacts DEF MoveOpen, MoveOther
  <1>2. None(c2a, t) /\ None(a2c, t)
      BY <1>1, NewFacts DEF None
  <1> QED BY <1>2, MoveShape

LEMMA MoveOpening ==
    ASSUME IInv, Ordered, NEW t \in Tokens, Move(t), NEW u \in Tokens
    PROVE  Opening(u)'
  <1>1. Opening(u) /\ Opening(t)
      BY DEF Ordered, Orderly
  <1>2. CASE u # t
      <2>1. sess'[u] = sess[u]
          BY <1>2, MoveShape
      <2>2. \A i \in DOMAIN c2a' : c2a'[i].token = u => i \in DOMAIN c2a /\ c2a'[i] = c2a[i]
          BY <1>2, MoveSends DEF Grown
      <2> QED BY <1>1, <2>1, <2>2 DEF Opening
  <1>3. CASE u = t
      <2> DEFINE Kept == \A i \in DOMAIN c2a : c2a[i].token = t =>
                            /\ c2a[i].type = "FILEOPEN" =>
                                  /\ sess'[t].st \in {"opening", "failed"}
                                  /\ c2a[i].mode = sess'[t].mode
                            /\ sess'[t].st = "opening" => c2a[i].type = "FILEOPEN"
      <2>1. Kept
          <3>1. CASE (MoveAsk(t) \/ MoveBack(t)) /\ sess'[t].st # "failed"
              <4>1. \A i \in DOMAIN c2a : c2a[i].token = t => c2a[i].type # "FILEOPEN"
                  BY <3>1, MoveAnswered
              <4>2. sess'[t].st # "opening"
                  BY <3>1 DEF MoveAsk, MoveBack
              <4> QED BY <4>1, <4>2
          <3>2. CASE MoveBack(t) /\ sess'[t].st = "failed"
              <4>1. sess'[t].mode = sess[t].mode
                  BY <3>2 DEF Move, MoveOpen
              <4> QED BY <1>1, <3>2, <4>1 DEF Opening
          <3>3. CASE MoveOn(t)
              <4>1. ~MoveOpen(t)
                  BY <3>3 DEF MoveOpen, MoveOn
              <4>2. sess'[t].mode = sess[t].mode
                  BY <4>1 DEF Move
              <4> QED BY <1>1, <3>3, <4>2 DEF Opening, MoveOn
          <3>4. CASE MoveOpen(t) \/ MoveOther(t)
              BY <3>4, MoveOpenNew DEF None
          <3>5. CASE MoveEnd(t)
              BY <1>1, <3>5 DEF MoveEnd, Opening
          <3> QED BY <3>1, <3>2, <3>3, <3>4, <3>5 DEF Move, MoveAsk
      <2> HIDE DEF Kept
      <2>2. CASE c2a' = c2a
          BY <1>3, <2>1, <2>2 DEF Opening, Kept
      <2>3. CASE \E m \in Request :
                    /\ Grown(c2a', c2a, m) /\ m.token = t
                    /\ m.type = "FILEOPEN" => sess'[t].st = "opening" /\ m.mode = sess'[t].mode
                    /\ sess'[t].st = "opening" => m.type = "FILEOPEN"
          <3>1. PICK m \in Request :
                    /\ Grown(c2a', c2a, m) /\ m.token = t
                    /\ m.type = "FILEOPEN" => sess'[t].st = "opening" /\ m.mode = sess'[t].mode
                    /\ sess'[t].st = "opening" => m.type = "FILEOPEN"
              BY <2>3
          <3> QED BY <1>3, <2>1, <3>1 DEF Opening, Kept, Grown
      <2>4. CASE c2a' # c2a
          <3>1. /\ FileOpen(t, sess'[t].mode).mode = sess'[t].mode
                /\ MoveOpen(t) => sess'[t].st = "opening"
                /\ MoveAsk(t) \/ MoveEnd(t) \/ MoveOther(t) => sess'[t].st # "opening"
              BY DEF FileOpen, MoveOpen, MoveAsk, MoveEnd, MoveOther
          <3> QED BY <2>3, <2>4, <3>1, MoveSends
      <2> QED BY <2>2, <2>4
  <1> QED BY <1>2, <1>3

LEMMA MoveAlone ==
    ASSUME IInv, Ordered, NEW t \in Tokens, Move(t), NEW u \in Tokens
    PROVE  Alone(u)'
  <1>1. Orderly(u) /\ Orderly(t) /\ Alone(u) /\ Alone(t)
      BY DEF Ordered, Orderly
  <1>2. /\ \A v : None(a2c, v) => None(a2c', v)
        /\ \A v : Once(a2c, v) => Once(a2c', v)
        /\ \A i \in DOMAIN a2c' : \E j \in DOMAIN a2c : a2c[j] = a2c'[i]
      BY MoveShape
  <1>3. CASE u # t
      <2>1. sess'[u] = sess[u]
          BY <1>3, MoveShape
      <2>2. /\ \A i \in DOMAIN c2a' : c2a'[i].token = u =>
                  i \in DOMAIN c2a /\ c2a'[i] = c2a[i]
          BY <1>3, MoveSends DEF Grown
      <2>3. (None(c2a, u) => None(c2a', u)) /\ (Once(c2a, u) => Once(c2a', u))
          BY <2>2 DEF None, Once
      <2>4. u \in OpenFor({"r", "w"})' <=> u \in OpenFor({"r", "w"})
          BY <2>1 DEF OpenFor
      <2>5. \A m : Expected(m, u)' <=> Expected(m, u)
          BY <2>1 DEF Expected
      <2> QED BY <1>1, <1>2, <2>1, <2>2, <2>3, <2>4, <2>5 DEF Alone
  <1>4. CASE u = t
      <2> SUFFICES ASSUME t \in OpenFor({"r", "w"})', sess'[t].clean
                   PROVE  Alone(t)'
          BY <1>4 DEF Alone
      <2>1. sess[t].clean
          BY DEF Move
      <2>2. CASE MoveOpen(t)
          <3>1. None(c2a, t) /\ None(a2c', t) /\ sess'[t].st = "opening"
              BY <2>2, MoveOpenNew DEF MoveOpen
          <3>2. CASE c2a' = c2a
              BY <3>1, <3>2 DEF Alone, None, Once
          <3>3. CASE \E m \in Request : Grown(c2a', c2a, m) /\ m.type = "FILEOPEN"
              <4>1. PICK m \in Request : Grown(c2a', c2a, m) /\ m.type = "FILEOPEN"
                  BY <3>3
              <4>2. Once(c2a', t)
                  BY <3>1, <4>1 DEF Once, None, Grown
              <4>3. \A i \in DOMAIN c2a' : c2a'[i].token = t => c2a'[i] = m
                  BY <3>1, <4>1 DEF None, Grown
              <4>4. Expected(m, t)' /\ sess'[t].st # "open"
                  BY <3>1, <4>1 DEF Expected
              <4> QED BY <3>1, <4>2, <4>3, <4>4 DEF Alone, None, Once
          <3> QED BY <2>2, <3>2, <3>3, MoveSends DEF MoveOpen, MoveAsk, MoveEnd, MoveOther
      <2>3. CASE ~MoveOpen(t)
          <3>1. /\ MoveAsk(t) \/ MoveBack(t) \/ MoveOn(t)
                /\ t \in OpenFor({"r", "w"})
              BY <2>3, MoveStaysOpen
          <3>2. Received(t) => None(c2a, t) /\ None(a2c', t)
              BY <1>1, <2>1, <3>1, MoveShape DEF Alone
          <3>3. sess[t].st = "open" => None(c2a, t) /\ None(a2c', t)
              BY <1>1, <1>2, <2>1, <3>1 DEF Alone
          <3>4. None(c2a, t) /\ None(a2c', t)
              <4>1. Answered(t, sess[t].st) => Received(t)
                  BY DEF Answered
              <4>2. sess'[t].st # "failed"
                  BY DEF OpenFor, OpenStates
              <4> QED BY <3>1, <3>2, <3>3, <4>1, <4>2 DEF MoveAsk, MoveBack, MoveOn
          <3>5. CASE c2a' = c2a
              BY <3>4, <3>5 DEF Alone, None, Once
          <3>6. CASE c2a' # c2a
              <4>1. PICK m \in Request :
                        /\ Grown(c2a', c2a, m) /\ Expected(m, t)' /\ sess'[t].st # "open"
                  <5>1. ~MoveEnd(t) /\ ~MoveOther(t)
                      BY DEF MoveEnd, MoveOther, OpenFor, OpenStates
                  <5>2. MoveAsk(t) => sess'[t].st # "open"
                      BY DEF MoveAsk
                  <5> QED BY <2>3, <3>6, <5>1, <5>2, MoveSends
              <4>2. Once(c2a', t)
                  BY <3>4, <4>1 DEF Once, None, Grown
              <4>3. \A i \in DOMAIN c2a' : c2a'[i].token = t => c2a'[i] = m
                  BY <3>4, <4>1 DEF None, Grown
              <4> QED BY <3>4, <4>1, <4>2, <4>3 DEF Alone, None, Once
          <3> QED BY <3>5, <3>6
      <2> QED BY <2>2, <2>3
  <1> QED BY <1>3, <1>4

LEMMA MoveOpenAt ==
    ASSUME IInv, Ordered, NEW t \in Tokens, Move(t), NEW u \in Tokens
    PROVE  OpenAt(u)'
  <1>1. OpenAt(u) /\ OpenAt(t)
      BY DEF Ordered, Orderly
  <1>2. /\ \A i \in DOMAIN a2c' : \E j \in DOMAIN a2c : a2c[j] = a2c'[i]
        /\ \A v : Opened(v)' <=> Opened(v)
      BY MoveShape
  <1>3. CASE sess'[u].st = sess[u].st /\ sess'[u].mode = sess[u].mode
      BY <1>1, <1>2, <1>3 DEF OpenAt, OpenFor
  <1>4. CASE u # t
      BY <1>3, <1>4, MoveShape
  <1>5. CASE u = t /\ ~(sess'[u].st = sess[u].st /\ sess'[u].mode = sess[u].mode)
      <2>1. CASE (MoveAsk(t) \/ MoveBack(t)) /\ sess'[t].st # "failed"
          BY <1>2, <1>5, <2>1, MoveAnswered DEF OpenAt
      <2>2. CASE MoveOpen(t)
          <3>1. None(a2c', t) /\ sess'[t].st = "opening"
              BY <2>2, MoveOpenNew DEF MoveOpen
          <3> QED BY <1>5, <3>1 DEF OpenAt, None
      <2>3. CASE t \notin OpenFor({"r", "w"})'
          BY <1>5, <2>3 DEF OpenAt
      <2>4. CASE t \in OpenFor({"r", "w"})' /\ ~MoveOpen(t)
          <3>1. sess'[t].st # "failed" /\ sess'[t].mode = sess[t].mode
              BY <2>4 DEF OpenFor, OpenStates, Move
          <3>2. ~MoveOn(t)
              BY <1>5, <3>1 DEF MoveOn
          <3> QED BY <2>1, <2>4, <3>1, <3>2, MoveStaysOpen
      <2> QED BY <2>2, <2>3, <2>4
  <1> QED BY <1>3, <1>4, <1>5

\* A session that may write has the file for itself.
LEMMA MoveTouches ==
    ASSUME IInv, Ordered, NEW t \in Tokens, Move(t), MoveAsk(t) \/ MoveOpen(t),
           NEW u \in Tokens, u # t
    PROVE  /\ u \notin OpenFor({"w"})
           /\ \/ MoveAsk(t) /\ sess'[t].st = "writing"
              \/ MoveOpen(t) /\ sess'[t].mode = "w"
              => u \notin OpenFor({"r", "w"})
  <1>1. CASE MoveAsk(t)
      <2>1. t \in OpenFor({"r", "w"})
          BY <1>1, MoveAnswered DEF MoveAsk
      <2>2. u \notin OpenFor({"w"})
          BY <2>1 DEF Ordered, Exclusive
      <2>3. ~MoveOpen(t)
          BY <1>1 DEF MoveAsk, MoveOpen
      <2>4. sess'[t].st = "writing" => t \in OpenFor({"w"})
          <3>1. sess'[t].st = "writing" => sess[t].mode = "w"
              BY <2>3 DEF Move, Modes
          <3> QED BY <2>1, <3>1 DEF OpenFor
      <2>5. sess'[t].st = "writing" => u \notin OpenFor({"r", "w"})
          BY <2>4 DEF Ordered, Exclusive
      <2> QED BY <2>2, <2>3, <2>5
  <1>2. CASE MoveOpen(t)
      <2>1. ~MoveAsk(t)
          BY <1>2 DEF MoveAsk, MoveOpen
      <2>2. PICK mode \in {"r", "w"} :
                /\ sess'[t].mode = mode
                /\ OpenFor(IF mode = "w" THEN {"r", "w"} ELSE {"w"}) = {}
          BY <1>2 DEF MoveOpen
      <2>3. OpenFor({"w"}) \subseteq OpenFor({"r", "w"})
          BY DEF OpenFor
      <2> QED BY <2>1, <2>2, <2>3
  <1> QED BY <1>1, <1>2

LEMMA MoveWriter ==
    ASSUME IInv, Ordered, NEW t \in Tokens, Move(t), NEW u \in Tokens
    PROVE  Writer(u)'
  <1>1. Writer(u) /\ Writer(t)
      BY DEF Ordered, Orderly
  <1>2. (Dirty(u)' <=> Dirty(u)) /\ (u # t => sess'[u] = sess[u]) /\ wsUp' = wsUp
      BY MoveShape
  <1>3. (\E i \in DOMAIN c2a : Ends(c2a[i], u)) => (\E i \in DOMAIN c2a' : Ends(c2a'[i], u))
      BY MoveSends DEF Grown
  <1>4. CASE u # t
      <2>1. (\E i \in DOMAIN c2a' : Writes(c2a'[i], u)) => (\E i \in DOMAIN c2a : Writes(c2a[i], u))
          BY <1>4, MoveSends DEF Grown, Writes
      <2> QED BY <1>1, <1>2, <1>3, <1>4, <2>1 DEF Writer
  <1>5. CASE u = t
      <2> DEFINE Before == Dirty(t) \/ (\E i \in DOMAIN c2a : Writes(c2a[i], t))
      <2>1. CASE Before
          <3>1. sess[t].mode = "w" /\ sess[t].st \in {"open", "writing", "stating"}
              BY <1>1, <2>1, MoveState DEF Writer
          <3>2. sess'[t].mode = "w" /\ Modes(sess'[t])
              BY <3>1 DEF Move, MoveOpen
          <3>3. CASE MoveAsk(t)
              <4>1. sess'[t].st \in {"writing", "stating"}
                  BY <3>2, <3>3 DEF MoveAsk, Modes
              <4> QED BY <1>5, <3>2, <4>1 DEF Writer
          <3>4. CASE MoveBack(t)
              <4>1. sess'[t].st = "open"
                  BY <3>1, <3>4 DEF MoveBack
              <4> QED BY <1>5, <3>2, <4>1 DEF Writer
          <3>5. CASE MoveOn(t)
              <4>1. sess'[t].st \in {"open", "writing", "stating"}
                  BY <3>1, <3>5 DEF MoveOn
              <4> QED BY <1>5, <3>2, <4>1 DEF Writer
          <3>6. CASE MoveEnd(t)
              <4>1. sess'[t].st = "closed" /\ BrowserSend(FileCmd("OK", t))
                  BY <3>1, <3>6 DEF MoveEnd
              <4>2. wsUp => \E i \in DOMAIN c2a' : Ends(c2a'[i], t)
                  <5>1. LinkType /\ FileCmd("OK", t) \in Request /\ Ends(FileCmd("OK", t), t)
                      BY CallFacts, RequestFacts DEF Ends
                  <5>2. wsUp => Grown(c2a', c2a, FileCmd("OK", t))
                      BY <4>1, <5>1, SentShape
                  <5> QED BY <5>1, <5>2 DEF Grown
              <4> QED BY <1>2, <1>5, <3>2, <4>1, <4>2 DEF Writer
          <3> QED BY <3>1, <3>3, <3>4, <3>5, <3>6 DEF Move, MoveOpen, MoveOther
      <2>2. CASE ~Before
          <3>1. CASE \E i \in DOMAIN c2a' : Writes(c2a'[i], t)
              <4>1. sess'[t].st = "writing"
                  BY <2>2, <3>1, MoveSends DEF Grown, Writes
              <4>2. sess'[t].mode = "w"
                  BY <4>1 DEF Move, Modes
              <4> QED BY <1>5, <4>1, <4>2 DEF Writer
          <3>2. CASE ~\E i \in DOMAIN c2a' : Writes(c2a'[i], t)
              BY <1>2, <1>5, <2>2, <3>2 DEF Writer
          <3> QED BY <3>1, <3>2
      <2> QED BY <2>1, <2>2
  <1> QED BY <1>4, <1>5

LEMMA MoveInTurn ==
    ASSUME IInv, Ordered, NEW t \in Tokens, Move(t), NEW u \in Tokens
    PROVE  InTurn(u)'
  <1>1. InTurn(u) /\ Writer(u)
      BY DEF Ordered, Orderly
  <1>2. Dirty(u)' <=> Dirty(u)
      BY MoveShape
  <1>3. CASE c2a' = c2a
      BY <1>1, <1>2, <1>3 DEF InTurn
  <1>4. CASE \E m \in Request : m.token = t /\ wsUp /\ Grown(c2a', c2a, m)
                                /\ (Touches(m) => MoveAsk(t) \/ MoveOpen(t))
      <2>1. PICK m \in Request : m.token = t /\ wsUp /\ Grown(c2a', c2a, m)
                                 /\ (Touches(m) => MoveAsk(t) \/ MoveOpen(t))
          BY <1>4
      <2>2. /\ DOMAIN c2a = 1..Len(c2a) /\ Len(c2a) \in Nat
            /\ DOMAIN c2a' = 1..(Len(c2a) + 1) /\ c2a'[Len(c2a) + 1] = m
            /\ \A i \in DOMAIN c2a : c2a'[i] = c2a[i]
          BY <2>1 DEF Grown
      <2> SUFFICES ASSUME NEW i \in DOMAIN c2a', Touches(c2a'[i]), c2a'[i].token # u,
                          Dirty(u)' \/ \E j \in DOMAIN c2a' : j < i /\ Writes(c2a'[j], u)
                   PROVE  \E j \in DOMAIN c2a' : j < i /\ Ends(c2a'[j], u)
          BY DEF InTurn
      <2>3. CASE i \in DOMAIN c2a
          <3>1. Dirty(u) \/ \E j \in DOMAIN c2a : j < i /\ Writes(c2a[j], u)
              BY <1>2, <2>2, <2>3
          <3>2. \E j \in DOMAIN c2a : j < i /\ Ends(c2a[j], u)
              BY <1>1, <2>2, <2>3, <3>1 DEF InTurn
          <3> QED BY <2>2, <3>2
      <2>4. CASE i = Len(c2a) + 1
          <3>1. u # t /\ Touches(m)
              BY <2>1, <2>2, <2>4
          <3>2. u \notin OpenFor({"w"})
              BY <2>1, <3>1, MoveTouches
          <3>3. Dirty(u) \/ \E j \in DOMAIN c2a : Writes(c2a[j], u)
              BY <1>2, <2>2, <2>4
          <3>4. sess[u].mode = "w" /\ sess[u].st \in {"open", "writing", "stating", "closed"}
              BY <1>1, <3>3 DEF Writer
          <3>5. sess[u].st = "closed"
              BY <3>2, <3>4 DEF OpenFor, OpenStates
          <3>6. \E j \in DOMAIN c2a : Ends(c2a[j], u)
              BY <1>1, <2>1, <3>3, <3>5 DEF Writer
          <3> QED BY <2>2, <2>4, <3>6
      <2> QED BY <2>2, <2>3, <2>4
  <1> QED BY <1>3, <1>4, MoveSends DEF Touches

LEMMA MoveUndisturbed ==
    ASSUME IInv, Ordered, NEW t \in Tokens, Move(t), NEW u \in Tokens
    PROVE  Undisturbed(u)'
  <1>1. Undisturbed(u)
      BY DEF Ordered, Orderly
  <1>2. /\ \A v : Dirty(v)' <=> Dirty(v)
        /\ \A v : None(a2c, v) => None(a2c', v)
        /\ \A v \in Tokens : v # t => sess'[v] = sess[v]
        /\ Received(t) => ~None(a2c, t)
      BY MoveShape
  <1>3. \/ c2a' = c2a
        \/ \E m \in Request :
              /\ Grown(c2a', c2a, m) /\ m.token = t
              /\ Changes(m) => \/ MoveAsk(t) /\ sess'[t].st = "writing"
                               \/ MoveOpen(t) /\ sess'[t].mode = "w"
      <2>1. FileOpen(t, sess'[t].mode).mode = sess'[t].mode
          BY DEF FileOpen
      <2> QED BY <2>1, MoveSends DEF Changes, Truncates
  <1>4. ASSUME u \in OpenFor({"r", "w"}), NEW i \in DOMAIN c2a', i \notin DOMAIN c2a,
               Changes(c2a'[i])
        PROVE  c2a'[i].token = u
      <2>1. PICK m \in Request :
                /\ Grown(c2a', c2a, m) /\ m.token = t
                /\ Changes(m) => \/ MoveAsk(t) /\ sess'[t].st = "writing"
                                 \/ MoveOpen(t) /\ sess'[t].mode = "w"
          BY <1>3, <1>4
      <2>2. c2a'[i] = m
          BY <1>4, <2>1 DEF Grown
      <2>3. u = t
          BY <1>4, <2>1, <2>2, MoveTouches
      <2> QED BY <2>1, <2>2, <2>3
  <1>5. \A i \in DOMAIN c2a : i \in DOMAIN c2a' /\ c2a'[i] = c2a[i]
      BY <1>3 DEF Grown
  <1>6. Arrived(u)' => Arrived(u)
      <2>1. CASE u # t
          BY <1>2, <2>1 DEF Arrived, OpenFor
      <2>2. CASE u = t /\ MoveOpen(t)
          <3>1. None(a2c', t) /\ sess'[t].st = "opening"
              BY <2>2, MoveOpenNew DEF MoveOpen
          <3> QED BY <2>2, <3>1 DEF Arrived
      <2>3. CASE u = t /\ ~MoveOpen(t) /\ t \in OpenFor({"r", "w"})'
          <3>1. MoveAsk(t) \/ MoveBack(t) \/ MoveOn(t)
              BY <2>3, MoveStaysOpen
          <3>2. sess'[t].st # "failed"
              BY <2>3 DEF OpenFor, OpenStates
          <3>3. CASE MoveOn(t)
              BY <1>2, <2>3, <3>3, MoveStaysOpen DEF Arrived, MoveOn
          <3> QED BY <2>3, <3>1, <3>2, <3>3, MoveAnswered
      <2>4. CASE u = t /\ t \notin OpenFor({"r", "w"})'
          BY <2>4 DEF Arrived
      <2> QED BY <2>1, <2>2, <2>3, <2>4
  <1>7. ASSUME Arrived(u)'
        PROVE  /\ \A i \in DOMAIN c2a' : Changes(c2a'[i]) => c2a'[i].token = u
               /\ \A v \in Tokens : Dirty(v)' => v = u
      <2>1. u \in OpenFor({"r", "w"})
          BY <1>6, <1>7 DEF Arrived
      <2> QED BY <1>1, <1>2, <1>4, <1>5, <1>6, <1>7, <2>1 DEF Undisturbed
  <1>8. ASSUME u \in OpenFor({"r", "w"})',
               NEW i \in DOMAIN c2a', NEW j \in DOMAIN c2a',
               c2a'[i].type = "FILEOPEN", c2a'[i].token = u, i < j, Changes(c2a'[j])
        PROVE  c2a'[j].token = u
      <2>1. CASE u \in OpenFor({"r", "w"})
          <3>1. CASE j \in DOMAIN c2a
              <4>1. i \in DOMAIN c2a
                  BY <1>3, <1>8, <3>1 DEF Grown
              <4> QED BY <1>1, <1>5, <1>8, <2>1, <3>1, <4>1 DEF Undisturbed
          <3>2. CASE j \notin DOMAIN c2a
              BY <1>4, <1>8, <2>1, <3>2
          <3> QED BY <3>1, <3>2
      <2>2. CASE u \notin OpenFor({"r", "w"})
          <3>1. u = t /\ MoveOpen(t)
              <4>1. u = t
                  BY <1>2, <1>8, <2>2 DEF OpenFor
              <4> QED BY <1>8, <2>2, <4>1, MoveStaysOpen
          <3>2. None(c2a, t)
              BY <3>1, MoveOpenNew
          <3>3. i \notin DOMAIN c2a
              BY <1>5, <1>8, <3>1, <3>2 DEF None
          <3> QED BY <1>3, <1>8, <3>3 DEF Grown
      <2> QED BY <2>1, <2>2
  <1> QED BY <1>7, <1>8 DEF Undisturbed

LEMMA MoveOrdered ==
    ASSUME IInv, Ordered, NEW t \in Tokens, Move(t)
    PROVE  Ordered'
  <1>1. Exclusive'
      BY MoveExclusive
  <1>2. OneDirty'
      BY MoveShape DEF Ordered, OneDirty
  <1>3. ASSUME NEW u \in Tokens
        PROVE  Orderly(u)'
      <2>1. Modes(sess'[u])
          BY MoveShape DEF Move, Ordered, Orderly
      <2>2. Ended(u)' /\ Opening(u)' /\ Alone(u)'
          BY MoveEnded, MoveOpening, MoveAlone
      <2>3. Writer(u)' /\ InTurn(u)' /\ Undisturbed(u)' /\ OpenAt(u)'
          BY MoveWriter, MoveInTurn, MoveUndisturbed, MoveOpenAt
      <2> QED BY <2>1, <2>2, <2>3 DEF Orderly
  <1> QED BY <1>1, <1>2, <1>3 DEF Ordered

-----------------------------------------------------------------------------
(* What a step of the agent does to the requests, the replies and the files. *)

\* The agent's reply to a request.
RepliesTo(type) ==
    CASE type = "FILEOPEN" -> {"CONTINUE", "ERR"}
      [] type = "FILEREAD" -> {"FILEDATA", "ERR"}
      [] type = "FILEDATA" -> {"CONTINUE", "ERR"}
      [] type = "FILESTAT" -> {"FILEENTRY", "ERR"}
      [] type = "FILEOP"   -> {"OK", "ERR"}
      [] type = "DIRLS"    -> {"OK"}
      [] OTHER             -> {}

\* A request of session t is taken, and answered unless it is one of those that
\* are not.
Served(t, type) ==
    /\ t \in Tokens
    /\ Shrunk(c2a', c2a) /\ 1 \in DOMAIN c2a
    /\ c2a[1] \in Request /\ c2a[1].token = t /\ c2a[1].type = type
    /\ sess' = sess /\ wsUp' = wsUp
    /\ \A u : u # t => (Opened(u)' <=> Opened(u)) /\ (Dirty(u)' <=> Dirty(u))
    /\ type # "OK" => (Opened(t) => Opened(t)')
    /\ type # "FILEDATA" => (Dirty(t)' => Dirty(t))
    /\ type = "OK" => ~Dirty(t)'
    /\ \/ a2c' = a2c
       \/ \E m \in Response :
             /\ m.token = t /\ Grown(a2c', a2c, m) /\ m.type \in RepliesTo(type)
             /\ type = "FILEOPEN" /\ m.type = "CONTINUE" => Opened(t)'

\* A handle takes the place of another one in file_queues.
LEMMA PutFacts ==
    ASSUME NEW t, NEW h, file_queues' = Put(file_queues, t, h)
    PROVE  /\ \A u : u # t => (Opened(u)' <=> Opened(u)) /\ (Dirty(u)' <=> Dirty(u))
           /\ Opened(t)' <=> ~h.closed
           /\ Dirty(t)' <=> ~h.closed /\ h.buffer # <<>>
  BY DEF Put, Opened, Dirty

LEMMA OpenFileServes ==
    ASSUME IInv, OpenFile, UNCHANGED browserVars
    PROVE  \E t \in Tokens : Served(t, "FILEOPEN")
  <1>1. LinkType /\ Command("FILEOPEN") /\ sess' = sess
      BY DEF OpenFile, browserVars, IInv, Types
  <1>2. /\ Shrunk(c2a', c2a) /\ Head(c2a) = c2a[1] /\ 1 \in DOMAIN c2a
        /\ c2a[1] \in Request /\ c2a[1].token \in Tokens /\ c2a[1].type = "FILEOPEN"
        /\ wsUp' = wsUp
      BY <1>1, TakenShape
  <1>3. PICK t \in Tokens : t = c2a[1].token
      BY <1>2
  <1>4. /\ FileCmd("CONTINUE", t) \in Response /\ FileCmd("CONTINUE", t).token = t
        /\ FileCmd("CONTINUE", t).type = "CONTINUE"
        /\ FileCmd("ERR", t) \in Response /\ FileCmd("ERR", t).token = t
        /\ FileCmd("ERR", t).type = "ERR"
      BY ReplyTypes
  <1>5. RepliesTo("FILEOPEN") = {"CONTINUE", "ERR"}
      BY DEF RepliesTo
  <1>6. CASE \E mode : /\ file_queues' = Put(file_queues, t, [mode |-> mode, buffer |-> <<>>,
                                                             closed |-> FALSE])
                       /\ Reply(FileCmd("CONTINUE", t))
      <2>1. /\ \A u : u # t => (Opened(u)' <=> Opened(u)) /\ (Dirty(u)' <=> Dirty(u))
            /\ Opened(t)' /\ ~Dirty(t)'
          BY <1>6, PutFacts
      <2>2. a2c' = a2c \/ Grown(a2c', a2c, FileCmd("CONTINUE", t))
          BY <1>1, <1>4, <1>6, RepliedShape
      <2> QED BY <1>1, <1>2, <1>3, <1>4, <1>5, <2>1, <2>2 DEF Served
  <1>7. CASE Failed(t) /\ UNCHANGED <<disk, file_queues>>
      <2>1. \A u : (Opened(u)' <=> Opened(u)) /\ (Dirty(u)' <=> Dirty(u))
          BY <1>7 DEF Opened, Dirty
      <2>2. a2c' = a2c \/ Grown(a2c', a2c, FileCmd("ERR", t))
          BY <1>1, <1>4, <1>7, RepliedShape DEF Failed
      <2> QED BY <1>1, <1>2, <1>3, <1>4, <1>5, <2>1, <2>2 DEF Served
  <1>8. \/ \E mode : /\ file_queues' = Put(file_queues, t, [mode |-> mode, buffer |-> <<>>,
                                                             closed |-> FALSE])
                     /\ Reply(FileCmd("CONTINUE", t))
        \/ Failed(t) /\ UNCHANGED <<disk, file_queues>>
      BY <1>2, <1>3 DEF OpenFile
  <1> QED BY <1>6, <1>7, <1>8

\* Requests that leave the files alone.
LEMMA QuietServes ==
    ASSUME IInv, NEW type \in {"FILEREAD", "FILESTAT", "FILEOP", "DIRLS"}, Command(type),
           UNCHANGED <<browserVars, file_queues>>,
           \/ a2c' = a2c
           \/ \E m \in Response : /\ m.token = Head(c2a).token /\ Reply(m)
                                  /\ m.type \in RepliesTo(type)
    PROVE  \E t \in Tokens : Served(t, type)
  <1>1. LinkType /\ sess' = sess
      BY DEF browserVars, IInv, Types
  <1>2. /\ Shrunk(c2a', c2a) /\ Head(c2a) = c2a[1] /\ 1 \in DOMAIN c2a
        /\ c2a[1] \in Request /\ c2a[1].token \in Tokens /\ c2a[1].type = type
        /\ wsUp' = wsUp
      BY <1>1, TakenShape
  <1>3. PICK t \in Tokens : t = c2a[1].token
      BY <1>2
  <1>4. \A u : (Opened(u)' <=> Opened(u)) /\ (Dirty(u)' <=> Dirty(u))
      BY DEF Opened, Dirty
  <1>5. \/ a2c' = a2c
        \/ \E m \in Response : /\ m.token = t /\ Grown(a2c', a2c, m)
                               /\ m.type \in RepliesTo(type)
      BY <1>1, <1>2, <1>3, RepliedShape
  <1>6. type # "OK" /\ type # "FILEOPEN" /\ type # "FILEDATA"
      OBVIOUS
  <1> QED BY <1>1, <1>2, <1>3, <1>4, <1>5, <1>6 DEF Served

LEMMA ReadFileServes ==
    ASSUME IInv, ReadFile, UNCHANGED browserVars
    PROVE  \E t \in Tokens : Served(t, "FILEREAD")
  <1>1. Command("FILEREAD") /\ UNCHANGED <<disk, full, file_queues, listing, outcome>>
      BY DEF ReadFile, agentVars
  <1>2. /\ Head(c2a).token \in Tokens /\ AgentTypeOK /\ Head(c2a) \in Request
        /\ Head(c2a).type = "FILEREAD"
      BY <1>1, CommandToken
  <1>3. PICK t \in Tokens : t = Head(c2a).token
      BY <1>2
  <1>4. Head(c2a).offset \in Nat
      BY <1>2, CommandTypes
  <1> DEFINE data == ReadAt(disk.data, Head(c2a).offset, 1)
             reply == FileData(t, Head(c2a).offset, data)
  <1>5. data \in {d \in Seq(Nat) : Len(d) <= 1}
      <2>1. disk.data \in Seq(Nat)
          BY <1>2 DEF AgentTypeOK
      <2> QED BY <1>4, <2>1, ReadAtType
  <1> HIDE DEF data
  <1>6. /\ reply \in Response /\ reply.token = t /\ reply.type = "FILEDATA"
        /\ FileCmd("ERR", t) \in Response /\ FileCmd("ERR", t).token = t
        /\ FileCmd("ERR", t).type = "ERR"
      BY <1>4, <1>5, ReplyTypes
  <1>7. Reply(reply) \/ Reply(FileCmd("ERR", t))
      BY <1>3 DEF ReadFile, Failed, data
  <1> HIDE DEF reply
  <1>8. RepliesTo("FILEREAD") = {"FILEDATA", "ERR"}
      BY DEF RepliesTo
  <1>9. UNCHANGED <<browserVars, file_queues>>
      BY <1>1
  <1>10. \E m \in Response : /\ m.token = Head(c2a).token /\ Reply(m)
                             /\ m.type \in RepliesTo("FILEREAD")
      BY <1>3, <1>6, <1>7, <1>8
  <1>11. "FILEREAD" \in {"FILEREAD", "FILESTAT", "FILEOP", "DIRLS"}
      OBVIOUS
  <1> QED BY <1>1, <1>9, <1>10, <1>11, QuietServes

LEMMA StatFileServes ==
    ASSUME IInv, StatFile, UNCHANGED browserVars
    PROVE  \E t \in Tokens : Served(t, "FILESTAT")
  <1>1. Command("FILESTAT") /\ UNCHANGED <<disk, full, file_queues, listing, outcome>>
      BY DEF StatFile, agentVars
  <1>2. Head(c2a).token \in Tokens /\ AgentTypeOK
      BY <1>1, CommandToken
  <1>3. PICK t \in Tokens : t = Head(c2a).token
      BY <1>2
  <1> DEFINE reply == FileEntry(t, Len(disk.data))
  <1>4. Len(disk.data) \in Nat
      BY <1>2 DEF AgentTypeOK
  <1>5. /\ reply \in Response /\ reply.token = t /\ reply.type = "FILEENTRY"
        /\ FileCmd("ERR", t) \in Response /\ FileCmd("ERR", t).token = t
        /\ FileCmd("ERR", t).type = "ERR"
      BY <1>4, ReplyTypes
  <1>6. Reply(reply) \/ Reply(FileCmd("ERR", t))
      BY <1>3 DEF StatFile, Failed
  <1> HIDE DEF reply
  <1>7. RepliesTo("FILESTAT") = {"FILEENTRY", "ERR"}
      BY DEF RepliesTo
  <1>8. UNCHANGED <<browserVars, file_queues>>
      BY <1>1
  <1>9. \E m \in Response : /\ m.token = Head(c2a).token /\ Reply(m)
                            /\ m.type \in RepliesTo("FILESTAT")
      BY <1>3, <1>5, <1>6, <1>7
  <1>10. "FILESTAT" \in {"FILEREAD", "FILESTAT", "FILEOP", "DIRLS"}
      OBVIOUS
  <1> QED BY <1>1, <1>8, <1>9, <1>10, QuietServes

LEMMA OperateServes ==
    ASSUME IInv, Operate, UNCHANGED browserVars
    PROVE  \E t \in Tokens : Served(t, "FILEOP")
  <1>1. Command("FILEOP") /\ UNCHANGED <<browserVars, file_queues>>
      BY DEF Operate
  <1>2. PICK t \in Tokens : t = Head(c2a).token
      BY <1>1, CommandToken
  <1>3. Reply(FileCmd("OK", t)) \/ Reply(FileCmd("ERR", t))
      BY <1>2 DEF Operate, Failed
  <1>4. RepliesTo("FILEOP") = {"OK", "ERR"}
      BY DEF RepliesTo
  <1>5. \E m \in Response : /\ m.token = Head(c2a).token /\ Reply(m)
                            /\ m.type \in RepliesTo("FILEOP")
      BY <1>2, <1>3, <1>4, ReplyTypes
  <1>6. "FILEOP" \in {"FILEREAD", "FILESTAT", "FILEOP", "DIRLS"}
      OBVIOUS
  <1> QED BY <1>1, <1>5, <1>6, QuietServes

LEMMA ListServes ==
    ASSUME IInv, List, UNCHANGED browserVars
    PROVE  \E t \in Tokens : Served(t, "DIRLS")
  <1>1. Command("DIRLS") /\ UNCHANGED <<browserVars, file_queues>> /\ a2c' = a2c
      BY DEF List
  <1>2. "DIRLS" \in {"FILEREAD", "FILESTAT", "FILEOP", "DIRLS"}
      OBVIOUS
  <1> QED BY <1>1, <1>2, QuietServes

LEMMA ListUnreadServes ==
    ASSUME IInv, ListUnread, UNCHANGED browserVars
    PROVE  \E t \in Tokens : Served(t, "DIRLS")
  <1>1. Command("DIRLS") /\ UNCHANGED <<browserVars, file_queues>>
      BY DEF ListUnread
  <1>2. PICK t \in Tokens : t = Head(c2a).token
      BY <1>1, CommandToken
  <1>3. Reply(FileCmd("OK", t))
      BY <1>2 DEF ListUnread
  <1>4. RepliesTo("DIRLS") = {"OK"}
      BY DEF RepliesTo
  <1>5. \E m \in Response : /\ m.token = Head(c2a).token /\ Reply(m)
                            /\ m.type \in RepliesTo("DIRLS")
      BY <1>2, <1>3, <1>4, ReplyTypes
  <1>6. "DIRLS" \in {"FILEREAD", "FILESTAT", "FILEOP", "DIRLS"}
      OBVIOUS
  <1> QED BY <1>1, <1>5, <1>6, QuietServes

LEMMA WriteFileServes ==
    ASSUME IInv, WriteFile, UNCHANGED browserVars
    PROVE  \E t \in Tokens : Served(t, "FILEDATA")
  <1>1. LinkType /\ Command("FILEDATA") /\ sess' = sess
      BY DEF WriteFile, browserVars, IInv, Types
  <1>2. /\ Shrunk(c2a', c2a) /\ Head(c2a) = c2a[1] /\ 1 \in DOMAIN c2a
        /\ c2a[1] \in Request /\ c2a[1].token \in Tokens /\ c2a[1].type = "FILEDATA"
        /\ wsUp' = wsUp
      BY <1>1, TakenShape
  <1>3. PICK t \in Tokens : t = c2a[1].token
      BY <1>2
  <1>4. /\ FileCmd("CONTINUE", t) \in Response /\ FileCmd("CONTINUE", t).token = t
        /\ FileCmd("CONTINUE", t).type = "CONTINUE"
        /\ FileCmd("ERR", t) \in Response /\ FileCmd("ERR", t).token = t
        /\ FileCmd("ERR", t).type = "ERR"
      BY ReplyTypes
  <1>5. RepliesTo("FILEDATA") = {"CONTINUE", "ERR"}
      BY DEF RepliesTo
  <1>6. /\ \/ UNCHANGED file_queues
           \/ \E b : file_queues' = [file_queues EXCEPT ![t].buffer = b] /\ Opened(t)
        /\ Reply(FileCmd("CONTINUE", t)) \/ Reply(FileCmd("ERR", t))
      BY <1>2, <1>3 DEF WriteFile, Failed
  <1>7. /\ \A u : u # t => (Opened(u)' <=> Opened(u)) /\ (Dirty(u)' <=> Dirty(u))
        /\ Opened(t) => Opened(t)'
      <2>1. CASE UNCHANGED file_queues
          BY <2>1 DEF Opened, Dirty
      <2>2. CASE \E b : file_queues' = [file_queues EXCEPT ![t].buffer = b] /\ Opened(t)
          <3>1. PICK b : file_queues' = [file_queues EXCEPT ![t].buffer = b] /\ Opened(t)
              BY <2>2
          <3>2. t \in DOMAIN file_queues /\ file_queues[t] \in Handle
              BY <3>1 DEF Opened, IInv, Types, TypeOK, AgentTypeOK
          <3>3. [file_queues[t] EXCEPT !.buffer = b].closed = file_queues[t].closed
              BY <3>2 DEF Handle
          <3>4. /\ DOMAIN file_queues' = DOMAIN file_queues
                /\ \A u \in DOMAIN file_queues : u # t => file_queues'[u] = file_queues[u]
                /\ file_queues'[t].closed = file_queues[t].closed
              BY <3>1, <3>2, <3>3
          <3> QED BY <3>4 DEF Opened, Dirty
      <2> QED BY <1>6, <2>1, <2>2
  <1>8. \E m \in Response : /\ m.token = t /\ m.type \in RepliesTo("FILEDATA")
                            /\ a2c' = a2c \/ Grown(a2c', a2c, m)
      BY <1>1, <1>4, <1>5, <1>6, RepliedShape
  <1> QED BY <1>1, <1>2, <1>3, <1>7, <1>8 DEF Served

LEMMA CloseFileServes ==
    ASSUME IInv, CloseFile, UNCHANGED browserVars
    PROVE  \E t \in Tokens : Served(t, "OK")
  <1>1. LinkType /\ Command("OK") /\ sess' = sess /\ a2c' = a2c
      BY DEF CloseFile, browserVars, IInv, Types
  <1>2. /\ Shrunk(c2a', c2a) /\ Head(c2a) = c2a[1] /\ 1 \in DOMAIN c2a
        /\ c2a[1] \in Request /\ c2a[1].token \in Tokens /\ c2a[1].type = "OK"
        /\ wsUp' = wsUp
      BY <1>1, TakenShape
  <1>3. PICK t \in Tokens : t = c2a[1].token
      BY <1>2
  <1>4. \/ ~Opened(t) /\ UNCHANGED file_queues
        \/ file_queues' = Restrict(file_queues, DOMAIN file_queues \ {t})
        \/ Opened(t) /\ file_queues' = [file_queues EXCEPT ![t].closed = TRUE]
      BY <1>2, <1>3 DEF CloseFile
  <1>5. /\ \A u : u # t => (Opened(u)' <=> Opened(u)) /\ (Dirty(u)' <=> Dirty(u))
        /\ ~Dirty(t)'
      <2>1. CASE ~Opened(t) /\ UNCHANGED file_queues
          BY <2>1 DEF Opened, Dirty
      <2>2. CASE file_queues' = Restrict(file_queues, DOMAIN file_queues \ {t})
          BY <2>2 DEF Opened, Dirty, Restrict
      <2>3. CASE Opened(t) /\ file_queues' = [file_queues EXCEPT ![t].closed = TRUE]
          <3>1. t \in DOMAIN file_queues /\ file_queues[t] \in Handle
              BY <2>3 DEF Opened, IInv, Types, TypeOK, AgentTypeOK
          <3>2. [file_queues[t] EXCEPT !.closed = TRUE].closed = TRUE
              BY <3>1 DEF Handle
          <3>3. /\ DOMAIN file_queues' = DOMAIN file_queues
                /\ \A u \in DOMAIN file_queues : u # t => file_queues'[u] = file_queues[u]
                /\ file_queues'[t].closed = TRUE
              BY <2>3, <3>1, <3>2
          <3> QED BY <3>3 DEF Opened, Dirty
      <2> QED BY <1>4, <2>1, <2>2, <2>3
  <1> QED BY <1>1, <1>2, <1>3, <1>5 DEF Served

\* Where the rest of the requests was before.
LEMMA ShrunkFacts ==
    ASSUME NEW r, NEW q, Shrunk(r, q)
    PROVE  /\ \A i \in DOMAIN r : /\ i \in Nat /\ i + 1 \in DOMAIN q /\ r[i] = q[i + 1]
                                  /\ 1 < i + 1
           /\ \A j \in DOMAIN q : j # 1 => j - 1 \in DOMAIN r /\ r[j - 1] = q[j] /\ j \in Nat
           /\ \A i, j \in DOMAIN r : i < j <=> i + 1 < j + 1
  BY DEF Shrunk

LEMMA ServedEnded ==
    ASSUME Ordered, NEW t, NEW type, Served(t, type), NEW u \in Tokens
    PROVE  Ended(u)' /\ Opening(u)' /\ Modes(sess'[u])
  <1>1. Ended(u) /\ Opening(u) /\ Modes(sess[u]) /\ sess' = sess /\ Shrunk(c2a', c2a)
      BY DEF Ordered, Orderly, Served
  <1>2. /\ \A i \in DOMAIN c2a' : i + 1 \in DOMAIN c2a /\ c2a'[i] = c2a[i + 1]
        /\ \A i, j \in DOMAIN c2a' : j > i => j + 1 > i + 1
      BY <1>1 DEF Shrunk
  <1>3. Ended(u)'
      BY <1>1, <1>2 DEF Ended
  <1>4. Opening(u)'
      BY <1>1, <1>2 DEF Opening
  <1> QED BY <1>1, <1>3, <1>4

\* A session with an open file: what the agent takes of it.
LEMMA ServedExpected ==
    ASSUME Ordered, NEW t, NEW type, Served(t, type), t \in OpenFor({"r", "w"})
    PROVE  /\ type # "OK"
           /\ sess[t].st = "opening" => type = "FILEOPEN" /\ sess[t].clean
           /\ sess[t].clean =>
                 /\ sess[t].st # "open" /\ None(a2c, t) /\ None(c2a', t)
                 /\ Expected(c2a[1], t)
                 /\ sess[t].st \in {"opening", "sizing", "stating", "reading", "writing"}
                 /\ RepliesTo(type) = {"ERR", Wanted[sess[t].st]}
  <1>1. /\ Orderly(t) /\ Ended(t) /\ Alone(t) /\ Opening(t)
        /\ 1 \in DOMAIN c2a /\ c2a[1].token = t /\ c2a[1].type = type /\ Shrunk(c2a', c2a)
      BY DEF Ordered, Orderly, Served
  <1>2. sess[t].st \in {"opening", "sizing", "stating", "reading", "writing", "open"}
      BY DEF OpenFor, OpenStates
  <1>3. type # "OK"
      BY <1>1, <1>2 DEF Ended, Ends
  <1>4. sess[t].st = "opening" => type = "FILEOPEN" /\ sess[t].clean
      BY <1>1 DEF Opening, Orderly, Modes
  <1>5. ASSUME sess[t].clean
        PROVE  /\ sess[t].st # "open" /\ None(a2c, t) /\ None(c2a', t)
               /\ Expected(c2a[1], t)
               /\ RepliesTo(type) = {"ERR", Wanted[sess[t].st]}
      <2>1. ~None(c2a, t)
          BY <1>1 DEF None
      <2>2. /\ sess[t].st # "open" /\ None(a2c, t) /\ Expected(c2a[1], t) /\ Once(c2a, t)
          BY <1>1, <1>5, <2>1 DEF Alone
      <2>3. None(c2a', t)
          <3>1. \A i \in DOMAIN c2a : c2a[i].token = t => i = 1
              BY <1>1, <2>2 DEF Once
          <3>2. \A i \in DOMAIN c2a' : i + 1 \in DOMAIN c2a /\ c2a'[i] = c2a[i + 1] /\ i + 1 # 1
              BY <1>1 DEF Shrunk
          <3> QED BY <3>1, <3>2 DEF None
      <2>4. \/ sess[t].st = "opening" /\ type = "FILEOPEN"
            \/ sess[t].st \in {"sizing", "stating"} /\ type = "FILESTAT"
            \/ sess[t].st = "reading" /\ type = "FILEREAD"
            \/ sess[t].st = "writing" /\ type = "FILEDATA"
          BY <1>1, <1>2, <2>2 DEF Expected, FileCmd, FileRead, FileData
      <2>5. RepliesTo(type) = {"ERR", Wanted[sess[t].st]}
          BY <2>4, WantedFacts DEF RepliesTo
      <2> QED BY <2>2, <2>3, <2>5
  <1> QED BY <1>2, <1>3, <1>4, <1>5

LEMMA ServedAlone ==
    ASSUME Ordered, NEW t, NEW type, Served(t, type), NEW u \in Tokens
    PROVE  Alone(u)'
  <1>1. /\ Alone(u) /\ sess' = sess /\ Shrunk(c2a', c2a)
        /\ \/ a2c' = a2c
           \/ \E m \in Response : m.token = t /\ Grown(a2c', a2c, m) /\ m.type \in RepliesTo(type)
      BY DEF Ordered, Orderly, Served
  <1>2. (u \in OpenFor({"r", "w"})' <=> u \in OpenFor({"r", "w"}))
        /\ \A m : Expected(m, u)' <=> Expected(m, u)
      BY <1>1 DEF OpenFor, Expected
  <1> SUFFICES ASSUME u \in OpenFor({"r", "w"}), sess[u].clean
               PROVE  Alone(u)'
      BY <1>1, <1>2 DEF Alone
  <1>3. CASE u = t
      <2>1. /\ sess[t].st # "open" /\ None(a2c, t) /\ None(c2a', t)
            /\ RepliesTo(type) = {"ERR", Wanted[sess[t].st]}
          BY <1>3, ServedExpected
      <2>2. Once(a2c', t) /\ \A i \in DOMAIN a2c' : a2c'[i].token = t =>
                                 a2c'[i].type \in {"ERR", Wanted[sess[t].st]}
          <3>1. CASE a2c' = a2c
              BY <2>1, <3>1 DEF None, Once
          <3>2. CASE a2c' # a2c
              <4>1. PICK m \in Response : Grown(a2c', a2c, m) /\ m.type \in RepliesTo(type)
                  BY <1>1, <3>2
              <4>2. Once(a2c', t)
                  BY <2>1, <4>1 DEF Once, None, Grown
              <4>3. \A i \in DOMAIN a2c' : a2c'[i].token = t => a2c'[i] = m
                  BY <2>1, <4>1 DEF None, Grown
              <4> QED BY <2>1, <4>1, <4>2, <4>3
          <3> QED BY <3>1, <3>2
      <2> QED BY <1>1, <1>3, <2>1, <2>2 DEF Alone, None, Once
  <1>4. CASE u # t
      <2>1. \A i \in DOMAIN a2c' : a2c'[i].token = u => i \in DOMAIN a2c /\ a2c'[i] = a2c[i]
          BY <1>1, <1>4 DEF Grown
      <2>2. (None(a2c, u) => None(a2c', u)) /\ (Once(a2c, u) => Once(a2c', u))
          BY <2>1 DEF None, Once
      <2>3. (None(c2a, u) => None(c2a', u)) /\ (Once(c2a, u) => Once(c2a', u))
          BY <1>1, NoneStays, OnceStays
      <2>4. \A i \in DOMAIN c2a' : \E j \in DOMAIN c2a : c2a[j] = c2a'[i]
          BY <1>1 DEF Shrunk
      <2> QED BY <1>1, <1>2, <2>1, <2>2, <2>3, <2>4 DEF Alone
  <1> QED BY <1>3, <1>4

LEMMA ServedOpenAt ==
    ASSUME Ordered, NEW t, NEW type, Served(t, type), NEW u \in Tokens
    PROVE  OpenAt(u)'
  <1>1. /\ OpenAt(u) /\ sess' = sess
        /\ \A v : v # t => (Opened(v)' <=> Opened(v))
        /\ type # "OK" => (Opened(t) => Opened(t)')
        /\ \/ a2c' = a2c
           \/ \E m \in Response : /\ m.token = t /\ Grown(a2c', a2c, m)
                                  /\ type = "FILEOPEN" /\ m.type = "CONTINUE" => Opened(t)'
      BY DEF Ordered, Orderly, Served
  <1> SUFFICES ASSUME u \in OpenFor({"r", "w"}),
                      \/ sess[u].st # "opening"
                      \/ \E i \in DOMAIN a2c' : a2c'[i].token = u /\ a2c'[i].type = "CONTINUE"
               PROVE  Opened(u)'
      BY <1>1 DEF OpenAt, OpenFor
  <1>2. u = t => type # "OK" /\ (sess[u].st = "opening" => type = "FILEOPEN")
      BY ServedExpected
  <1>3. Opened(u) => Opened(u)'
      BY <1>1, <1>2
  <1>4. CASE \/ sess[u].st # "opening"
             \/ \E i \in DOMAIN a2c : a2c[i].token = u /\ a2c[i].type = "CONTINUE"
      BY <1>1, <1>3, <1>4 DEF OpenAt
  <1>5. CASE /\ sess[u].st = "opening"
             /\ ~\E i \in DOMAIN a2c : a2c[i].token = u /\ a2c[i].type = "CONTINUE"
      <2>1. PICK i \in DOMAIN a2c' : a2c'[i].token = u /\ a2c'[i].type = "CONTINUE"
          BY <1>5
      <2>2. a2c' # a2c
          BY <1>5, <2>1
      <2>3. PICK m \in Response : /\ m.token = t /\ Grown(a2c', a2c, m)
                                  /\ type = "FILEOPEN" /\ m.type = "CONTINUE" => Opened(t)'
          BY <1>1, <2>2
      <2>4. a2c'[i] = m
          BY <1>5, <2>1, <2>3 DEF Grown
      <2> QED BY <1>2, <1>5, <2>1, <2>3, <2>4
  <1> QED BY <1>4, <1>5

LEMMA ServedWriter ==
    ASSUME Ordered, NEW t, NEW type, Served(t, type), NEW u \in Tokens
    PROVE  Writer(u)'
  <1>1. /\ Writer(u) /\ Ended(u) /\ sess' = sess /\ wsUp' = wsUp /\ Shrunk(c2a', c2a)
        /\ 1 \in DOMAIN c2a /\ c2a[1].token = t /\ c2a[1].type = type
        /\ \A v : v # t => (Dirty(v)' <=> Dirty(v))
        /\ type # "FILEDATA" => (Dirty(t)' => Dirty(t))
        /\ type = "OK" => ~Dirty(t)'
      BY DEF Ordered, Orderly, Served
  <1>2. /\ \A i \in DOMAIN c2a' : i + 1 \in DOMAIN c2a /\ c2a'[i] = c2a[i + 1] /\ i + 1 > 1
        /\ \A j \in DOMAIN c2a : j # 1 => j - 1 \in DOMAIN c2a' /\ c2a'[j - 1] = c2a[j]
      BY <1>1 DEF Shrunk
  <1> SUFFICES ASSUME Dirty(u)' \/ (\E i \in DOMAIN c2a' : Writes(c2a'[i], u))
               PROVE  /\ sess[u].mode = "w"
                      /\ sess[u].st \in {"open", "writing", "stating", "closed"}
                      /\ sess[u].st = "closed" /\ wsUp => \E i \in DOMAIN c2a' : Ends(c2a'[i], u)
      BY <1>1 DEF Writer
  <1>3. Dirty(u) \/ \E i \in DOMAIN c2a : Writes(c2a[i], u)
      <2>1. CASE Dirty(u)' /\ ~Dirty(u)
          BY <1>1, <2>1 DEF Writes
      <2> QED BY <1>2, <2>1
  <1>4. /\ sess[u].mode = "w" /\ sess[u].st \in {"open", "writing", "stating", "closed"}
        /\ sess[u].st = "closed" /\ wsUp => \E i \in DOMAIN c2a : Ends(c2a[i], u)
      BY <1>1, <1>3 DEF Writer
  <1>5. ~Ends(c2a[1], u)
      <2> SUFFICES ASSUME Ends(c2a[1], u) PROVE FALSE
          OBVIOUS
      <2>1. u = t /\ type = "OK" /\ \A j \in DOMAIN c2a : j > 1 => c2a[j].token # u
          BY <1>1 DEF Ends, Ended
      <2> QED BY <1>1, <1>2, <2>1 DEF Writes
  <1>6. (\E i \in DOMAIN c2a : Ends(c2a[i], u)) => \E i \in DOMAIN c2a' : Ends(c2a'[i], u)
      BY <1>2, <1>5
  <1> QED BY <1>4, <1>6

LEMMA ServedInTurn ==
    ASSUME Ordered, NEW t, NEW type, Served(t, type), NEW u \in Tokens
    PROVE  InTurn(u)'
  <1>1. /\ InTurn(u) /\ Ended(u) /\ Shrunk(c2a', c2a)
        /\ 1 \in DOMAIN c2a /\ c2a[1].token = t /\ c2a[1].type = type
        /\ \A v : v # t => (Dirty(v)' <=> Dirty(v))
        /\ type # "FILEDATA" => (Dirty(t)' => Dirty(t))
        /\ type = "OK" => ~Dirty(t)'
      BY DEF Ordered, Orderly, Served
  <1>2. /\ \A i \in DOMAIN c2a' : /\ i \in Nat /\ i + 1 \in DOMAIN c2a /\ c2a'[i] = c2a[i + 1]
                                  /\ 1 < i + 1
        /\ \A j \in DOMAIN c2a : j # 1 => j - 1 \in DOMAIN c2a' /\ c2a'[j - 1] = c2a[j]
                                          /\ j \in Nat
      BY <1>1, ShrunkFacts
  <1> SUFFICES ASSUME NEW i \in DOMAIN c2a', Touches(c2a'[i]), c2a'[i].token # u,
                      Dirty(u)' \/ \E j \in DOMAIN c2a' : j < i /\ Writes(c2a'[j], u)
               PROVE  \E j \in DOMAIN c2a' : j < i /\ Ends(c2a'[j], u)
      BY DEF InTurn
  <1>3. Dirty(u) \/ \E j \in DOMAIN c2a : j < i + 1 /\ Writes(c2a[j], u)
      <2>1. CASE Dirty(u)' /\ ~Dirty(u)
          BY <1>1, <1>2, <2>1 DEF Writes
      <2>2. CASE \E j \in DOMAIN c2a' : j < i /\ Writes(c2a'[j], u)
          <3>1. PICK j \in DOMAIN c2a' : j < i /\ Writes(c2a'[j], u)
              BY <2>2
          <3>2. j + 1 \in DOMAIN c2a /\ j + 1 < i + 1 /\ Writes(c2a[j + 1], u)
              BY <1>2, <3>1
          <3> QED BY <3>2
      <2> QED BY <2>1, <2>2
  <1>4. PICK k \in DOMAIN c2a : k < i + 1 /\ Ends(c2a[k], u)
      BY <1>1, <1>2, <1>3 DEF InTurn
  <1>5. k # 1
      <2> SUFFICES ASSUME k = 1 PROVE FALSE
          OBVIOUS
      <2>1. u = t /\ type = "OK" /\ \A j \in DOMAIN c2a : j > 1 => c2a[j].token # u
          BY <1>1, <1>4 DEF Ends, Ended
      <2>2. \A j \in DOMAIN c2a' : ~Writes(c2a'[j], u)
          BY <1>2, <2>1 DEF Writes
      <2> QED BY <1>1, <2>1, <2>2
  <1>6. k - 1 \in DOMAIN c2a' /\ c2a'[k - 1] = c2a[k] /\ k - 1 < i
      BY <1>2, <1>4, <1>5
  <1> QED BY <1>4, <1>6

\* Nobody else has data in a buffer when a session's request is taken.
LEMMA ServedClean ==
    ASSUME Ordered, NEW t, NEW type, Served(t, type), Touches(c2a[1]), NEW v \in Tokens,
           Dirty(v)
    PROVE  v = t
  <1>1. /\ InTurn(v) /\ 1 \in DOMAIN c2a /\ c2a[1].token = t /\ Shrunk(c2a', c2a)
      BY DEF Ordered, Orderly, Served
  <1>2. \A j \in DOMAIN c2a : ~(j < 1)
      BY <1>1 DEF Shrunk
  <1> QED BY <1>1, <1>2 DEF InTurn

LEMMA ServedUndisturbed ==
    ASSUME Ordered, NEW t, NEW type, Served(t, type), NEW u \in Tokens
    PROVE  Undisturbed(u)'
  <1>1. /\ Undisturbed(u) /\ Orderly(u) /\ sess' = sess /\ Shrunk(c2a', c2a)
        /\ 1 \in DOMAIN c2a /\ c2a[1].token = t /\ c2a[1].type = type
        /\ \A v : v # t => (Dirty(v)' <=> Dirty(v))
        /\ type # "FILEDATA" => (Dirty(t)' => Dirty(t))
        /\ \/ a2c' = a2c
           \/ \E m \in Response : m.token = t /\ Grown(a2c', a2c, m)
      BY DEF Ordered, Orderly, Served
  <1>2. /\ \A i \in DOMAIN c2a' : /\ i \in Nat /\ i + 1 \in DOMAIN c2a /\ c2a'[i] = c2a[i + 1]
                                  /\ 1 < i + 1
        /\ \A i, j \in DOMAIN c2a' : i < j => i + 1 < j + 1
      BY <1>1, ShrunkFacts
  <1>3. u \in OpenFor({"r", "w"})' <=> u \in OpenFor({"r", "w"})
      BY <1>1 DEF OpenFor
  <1>4. ASSUME Arrived(u)'
        PROVE  /\ \A i \in DOMAIN c2a' : Changes(c2a'[i]) => c2a'[i].token = u
               /\ \A v \in Tokens : Dirty(v)' => v = u
      <2>1. CASE Arrived(u)
          <3>1. /\ \A i \in DOMAIN c2a : Changes(c2a[i]) => c2a[i].token = u
                /\ \A v \in Tokens : Dirty(v) => v = u
              BY <1>1, <2>1 DEF Undisturbed
          <3>2. \A i \in DOMAIN c2a' : Changes(c2a'[i]) => c2a'[i].token = u
              BY <1>2, <3>1
          <3>3. ASSUME NEW v \in Tokens, Dirty(v)', ~Dirty(v)
                PROVE  v = u
              <4>1. v = t /\ type = "FILEDATA"
                  BY <1>1, <3>3
              <4> QED BY <1>1, <3>1, <4>1 DEF Changes
          <3> QED BY <3>1, <3>2, <3>3
      <2>2. CASE ~Arrived(u)
          <3>1. u \in OpenFor({"r", "w"}) /\ sess[u].st = "opening" /\ None(a2c, u)
                /\ ~None(a2c', u)
              BY <1>1, <1>3, <1>4, <2>2 DEF Arrived
          <3>2. u = t
              BY <1>1, <3>1 DEF Grown, None
          <3>3. type = "FILEOPEN"
              BY <3>1, <3>2, ServedExpected
          <3>4. \A i \in DOMAIN c2a' : Changes(c2a'[i]) => c2a'[i].token = u
              BY <1>1, <1>2, <3>1, <3>2, <3>3 DEF Undisturbed
          <3>5. ASSUME NEW v \in Tokens, Dirty(v)'
                PROVE  v = u
              <4>1. Dirty(v)
                  BY <1>1, <3>3, <3>5
              <4>2. Touches(c2a[1])
                  BY <1>1, <3>3 DEF Touches
              <4> QED BY <3>2, <4>1, <4>2, ServedClean
          <3> QED BY <3>4, <3>5
      <2> QED BY <2>1, <2>2
  <1>5. ASSUME u \in OpenFor({"r", "w"})',
               NEW i \in DOMAIN c2a', NEW j \in DOMAIN c2a',
               c2a'[i].type = "FILEOPEN", c2a'[i].token = u, i < j, Changes(c2a'[j])
        PROVE  c2a'[j].token = u
      BY <1>1, <1>2, <1>3, <1>5 DEF Undisturbed
  <1> QED BY <1>4, <1>5 DEF Undisturbed

LEMMA ServedOneDirty ==
    ASSUME Ordered, NEW t, NEW type, Served(t, type)
    PROVE  OneDirty'
  <1>1. /\ t \in Tokens /\ c2a[1].type = type
        /\ \A v : v # t => (Dirty(v)' <=> Dirty(v))
        /\ type # "FILEDATA" => (Dirty(t)' => Dirty(t))
      BY DEF Served
  <1>2. CASE type = "FILEDATA"
      <2>1. Touches(c2a[1])
          BY <1>1, <1>2 DEF Touches
      <2>2. \A v \in Tokens : Dirty(v)' => v = t
          BY <1>1, <2>1, ServedClean
      <2> QED BY <2>2 DEF OneDirty
  <1>3. CASE type # "FILEDATA"
      <2>1. \A v \in Tokens : Dirty(v)' => Dirty(v)
          BY <1>1, <1>3
      <2> QED BY <2>1 DEF Ordered, OneDirty
  <1> QED BY <1>2, <1>3

LEMMA ServedOrdered ==
    ASSUME Ordered, NEW t, NEW type, Served(t, type)
    PROVE  Ordered'
  <1>1. Exclusive'
      BY DEF Ordered, Exclusive, OpenFor, Served
  <1>2. OneDirty'
      BY ServedOneDirty
  <1>3. ASSUME NEW u \in Tokens
        PROVE  Orderly(u)'
      BY ServedEnded, ServedAlone, ServedOpenAt, ServedWriter, ServedInTurn,
         ServedUndisturbed DEF Orderly
  <1> QED BY <1>1, <1>2, <1>3 DEF Ordered

\* The listing that the agent is in is of nobody's file.
LEMMA ListingOrdered ==
    ASSUME IInv, Ordered, ListEntry \/ ListFail \/ ListEnd, UNCHANGED browserVars
    PROVE  Ordered'
  <1>1. /\ listing # Idle /\ UNCHANGED <<c2a, wsUp, file_queues>> /\ sess' = sess
      BY DEF ListEntry, ListFail, ListEnd, browserVars
  <1>2. PICK t \in Tokens : t = listing.token /\ LinkType /\ sess[t].st \in {"listing", "failed"}
      BY <1>1, ListingFacts
  <1>3. \E m \in Response : m.token = t /\ Reply(m)
      <2>1. 0 \in Nat
          OBVIOUS
      <2> QED BY <1>2, <2>1, ReplyTypes DEF ListEntry, ListFail, Failed, ListEnd
  <1>4. a2c' = a2c \/ \E m \in Response : m.token = t /\ Grown(a2c', a2c, m)
      BY <1>2, <1>3, RepliedShape
  <1>5. Exclusive' /\ OneDirty'
      BY <1>1 DEF Ordered, Exclusive, OpenFor, OneDirty, Dirty, Opened
  <1>6. ASSUME NEW u \in Tokens
        PROVE  Orderly(u)'
      <2>1. Orderly(u)
          BY DEF Ordered
      <2>2. Modes(sess[u])' /\ Ended(u)' /\ Opening(u)'
          BY <1>1, <2>1 DEF Orderly, Ended, Opening, Modes
      <2>3. Writer(u)' /\ InTurn(u)'
          BY <1>1, <2>1 DEF Orderly, Writer, InTurn, Dirty, Opened
      <2>4. u \in OpenFor({"r", "w"}) =>
                \A i \in DOMAIN a2c' : a2c'[i].token = u => i \in DOMAIN a2c /\ a2c'[i] = a2c[i]
          BY <1>2, <1>4 DEF Grown, OpenFor, OpenStates
      <2>5. u \in OpenFor({"r", "w"}) => /\ None(a2c, u) => None(a2c', u)
                                         /\ Once(a2c, u) => Once(a2c', u)
          BY <2>4 DEF None, Once
      <2>6. u \in OpenFor({"r", "w"})' <=> u \in OpenFor({"r", "w"})
          BY <1>1 DEF OpenFor
      <2>7. Alone(u)'
          BY <1>1, <2>1, <2>4, <2>5, <2>6 DEF Orderly, Alone, None, Once, Expected
      <2>8. Undisturbed(u)'
          BY <1>1, <2>1, <2>5, <2>6 DEF Orderly, Undisturbed, Arrived, Dirty, Opened
      <2>9. OpenAt(u)'
          BY <1>1, <2>1, <2>4, <2>6 DEF Orderly, OpenAt, Opened
      <2> QED BY <2>2, <2>3, <2>7, <2>8, <2>9 DEF Orderly
  <1> QED BY <1>5, <1>6 DEF Ordered

LEMMA LostShape ==
    ASSUME IInv, LinkFailure
    PROVE  /\ Cut(c2a', c2a) /\ Cut(a2c', a2c) /\ wsUp' = FALSE
           /\ UNCHANGED agentVars /\ UNCHANGED browserVars
  <1>1. WsLost /\ UNCHANGED agentVars /\ UNCHANGED browserVars /\ LinkType
      BY DEF LinkFailure, IInv, Types
  <1>2. PICK n \in 0..Len(c2a) : c2a' = SubSeq(c2a, 1, n)
      BY <1>1 DEF WsLost
  <1>3. PICK k \in 0..Len(a2c) : a2c' = SubSeq(a2c, 1, k)
      BY <1>1 DEF WsLost
  <1>4. n \in Nat /\ k \in Nat /\ 1..n \subseteq DOMAIN c2a /\ 1..k \subseteq DOMAIN a2c
      <2>1. Len(c2a) \in Nat /\ DOMAIN c2a = 1..Len(c2a) /\ Len(a2c) \in Nat
            /\ DOMAIN a2c = 1..Len(a2c)
          BY <1>1 DEF LinkType
      <2> QED BY <2>1
  <1>5. Cut(c2a', c2a)
      BY <1>1, <1>2, <1>4, Prefix DEF Cut, LinkType
  <1>6. Cut(a2c', a2c)
      BY <1>1, <1>3, <1>4, Prefix DEF Cut, LinkType
  <1>7. wsUp' = FALSE
      BY <1>1 DEF WsLost
  <1> QED BY <1>1, <1>5, <1>6, <1>7

LEMMA LostOrdered ==
    ASSUME IInv, Ordered, LinkFailure
    PROVE  Ordered'
  <1>1. /\ Cut(c2a', c2a) /\ Cut(a2c', a2c) /\ wsUp' = FALSE
        /\ sess' = sess /\ file_queues' = file_queues
      BY LostShape DEF agentVars, browserVars
  <1>2. /\ \A i \in DOMAIN c2a' : i \in DOMAIN c2a /\ c2a'[i] = c2a[i]
        /\ \A i \in DOMAIN c2a' : \A j \in DOMAIN c2a : j < i => j \in DOMAIN c2a'
        /\ \A i \in DOMAIN a2c' : i \in DOMAIN a2c /\ a2c'[i] = a2c[i]
      <2>1. PICK n \in Nat : /\ DOMAIN c2a' = 1..n /\ 1..n \subseteq DOMAIN c2a
                             /\ \A i \in 1..n : c2a'[i] = c2a[i]
          BY <1>1 DEF Cut
      <2>2. c2a \in Seq(Request)
          BY DEF IInv, Types, LinkType
      <2>3. \A j \in DOMAIN c2a : j \in Nat /\ j > 0
          BY <2>2
      <2>4. \A i \in DOMAIN c2a' : \A j \in DOMAIN c2a : j < i => j \in DOMAIN c2a'
          BY <2>1, <2>3
      <2> QED BY <1>1, <2>1, <2>4 DEF Cut
  <1>3. Exclusive' /\ OneDirty'
      BY <1>1 DEF Ordered, Exclusive, OpenFor, OneDirty, Dirty, Opened
  <1>4. ASSUME NEW u \in Tokens
        PROVE  Orderly(u)'
      <2>1. Orderly(u)
          BY DEF Ordered
      <2>2. Modes(sess[u])' /\ Ended(u)' /\ Opening(u)'
          BY <1>1, <1>2, <2>1 DEF Orderly, Ended, Opening, Modes
      <2>3. Writer(u)'
          BY <1>1, <1>2, <2>1 DEF Orderly, Writer, Dirty, Opened
      <2>4. InTurn(u)'
          BY <1>1, <1>2, <2>1 DEF Orderly, InTurn, Dirty, Opened
      <2>5. /\ None(a2c, u) => None(a2c', u)
            /\ Once(a2c, u) => Once(a2c', u)
            /\ None(c2a, u) => None(c2a', u)
            /\ Once(c2a, u) => Once(c2a', u)
          BY <1>2 DEF None, Once
      <2>6. u \in OpenFor({"r", "w"})' <=> u \in OpenFor({"r", "w"})
          BY <1>1 DEF OpenFor
      <2>7. Alone(u)'
          BY <1>1, <1>2, <2>1, <2>5, <2>6 DEF Orderly, Alone, Expected
      <2>8. Undisturbed(u)'
          BY <1>1, <1>2, <2>1, <2>5, <2>6 DEF Orderly, Undisturbed, Arrived, Dirty, Opened
      <2>9. OpenAt(u)'
          BY <1>1, <1>2, <2>1, <2>6 DEF Orderly, OpenAt, Opened
      <2> QED BY <2>2, <2>3, <2>4, <2>7, <2>8, <2>9 DEF Orderly
  <1> QED BY <1>3, <1>4 DEF Ordered

LEMMA SameOrdered ==
    ASSUME Ordered, UNCHANGED <<linkVars, file_queues, sess>>
    PROVE  Ordered'
  <1>1. UNCHANGED <<c2a, a2c, wsUp, file_queues, sess>>
      BY DEF linkVars
  <1>2. Exclusive' /\ OneDirty'
      BY <1>1 DEF Ordered, Exclusive, OpenFor, OneDirty, Dirty, Opened
  <1>3. ASSUME NEW u \in Tokens
        PROVE  Orderly(u)'
      <2>1. Orderly(u)
          BY DEF Ordered
      <2>2. Modes(sess[u])' /\ Ended(u)' /\ Opening(u)' /\ Writer(u)' /\ InTurn(u)'
          BY <1>1, <2>1
             DEF Orderly, Ended, Opening, Modes, Writer, InTurn, Dirty, Opened
      <2>3. Alone(u)' /\ Undisturbed(u)' /\ OpenAt(u)'
          BY <1>1, <2>1
             DEF Orderly, Alone, Expected, None, Once, Undisturbed, Arrived, Dirty, Opened,
                 OpenAt, OpenFor
      <2> QED BY <2>2, <2>3 DEF Orderly
  <1> QED BY <1>2, <1>3 DEF Ordered

LEMMA DispatchServes ==
    ASSUME IInv, Dispatch, UNCHANGED browserVars
    PROVE  \/ \E t, type : Served(t, type)
           \/ ListEntry \/ ListFail \/ ListEnd
  <1>1. CASE OpenFile \/ ReadFile \/ WriteFile \/ StatFile
      BY <1>1, OpenFileServes, ReadFileServes, WriteFileServes, StatFileServes
  <1>2. CASE CloseFile \/ Operate \/ List \/ ListUnread
      BY <1>2, CloseFileServes, OperateServes, ListServes, ListUnreadServes
  <1> QED BY <1>1, <1>2 DEF Dispatch

LEMMA InitOrdered == Init => Ordered
  <1> SUFFICES ASSUME Init PROVE Ordered
      OBVIOUS
  <1>1. /\ c2a = <<>> /\ a2c = <<>> /\ file_queues = <<>>
        /\ sess = [t \in Tokens |-> [st |-> "new", mode |-> "", offset |-> 0, size |-> 0,
                                     left |-> 0, from |-> 0, data |-> <<>>, clean |-> TRUE]]
      BY DEF Init, LinkInit, AgentInit, BrowserInit
  <1>2. DOMAIN c2a = {} /\ DOMAIN a2c = {} /\ DOMAIN file_queues = {}
      <2>1. DOMAIN <<>> = {}
          OBVIOUS
      <2> QED BY <1>1, <2>1
  <1>3. \A t \in Tokens : /\ sess[t].st = "new" /\ sess[t].mode = "" /\ sess[t].clean
                         /\ sess[t].data = <<>>
      BY <1>1
  <1>4. \A t : ~Dirty(t)
      BY <1>2 DEF Dirty, Opened
  <1>5. \A modes : OpenFor(modes) = {}
      BY <1>3 DEF OpenFor, OpenStates
  <1>6. ASSUME NEW t \in Tokens
        PROVE  Orderly(t)
      <2>1. Modes(sess[t]) /\ Ended(t) /\ Opening(t)
          BY <1>2, <1>3 DEF Modes, Ended, Opening
      <2>2. Writer(t) /\ InTurn(t)
          BY <1>2, <1>4 DEF Writer, InTurn
      <2>3. Alone(t) /\ Undisturbed(t) /\ OpenAt(t)
          BY <1>5 DEF Alone, Undisturbed, Arrived, OpenAt
      <2> QED BY <2>1, <2>2, <2>3 DEF Orderly
  <1> QED BY <1>4, <1>5, <1>6 DEF Ordered, Exclusive, OneDirty

LEMMA StepOrdered == IInv /\ Ordered /\ [Next]_vars => Ordered'
  <1> SUFFICES ASSUME IInv, Ordered, [Next]_vars PROVE Ordered'
      OBVIOUS
  <1>1. CASE BrowserNext /\ UNCHANGED agentVars
      <2>1. \A t \in Tokens : Modes(sess[t])
          BY DEF Ordered, Orderly
      <2>2. PICK t \in Tokens : Move(t)
          BY <1>1, <2>1, BrowserMoves
      <2> QED BY <2>2, MoveOrdered
  <1>2. CASE Dispatch /\ UNCHANGED browserVars
      <2>1. CASE \E t, type : Served(t, type)
          BY <2>1, ServedOrdered
      <2>2. CASE ListEntry \/ ListFail \/ ListEnd
          BY <1>2, <2>2, ListingOrdered
      <2> QED BY <1>2, <2>1, <2>2, DispatchServes
  <1>3. CASE DiskFull /\ UNCHANGED browserVars
      <2>1. UNCHANGED <<linkVars, file_queues, sess>>
          BY <1>3 DEF DiskFull, browserVars
      <2> QED BY <2>1, SameOrdered
  <1>4. CASE LinkFailure
      BY <1>4, LostOrdered
  <1>5. CASE UNCHANGED vars
      <2>1. UNCHANGED <<linkVars, file_queues, sess>>
          BY <1>5 DEF vars, agentVars, browserVars
      <2> QED BY <2>1, SameOrdered
  <1> QED BY <1>1, <1>2, <1>3, <1>4, <1>5 DEF Next, AgentNext

-----------------------------------------------------------------------------
(* What is in the file.                                                     *)

\* A chunk that is written is there, and the others stay.
LEMMA WriteAtHas ==
    ASSUME NEW file \in Seq(Nat), NEW o \in Nat, NEW d \in Seq(Nat), Len(d) = 1
    PROVE  /\ Has(WriteAt(file, o, d), o, d[1])
           /\ \A off \in Nat : \A v : off # o /\ Has(file, off, v) =>
                                          Has(WriteAt(file, o, d), off, v)
  <1> DEFINE n == IF Len(file) > o + 1 THEN Len(file) ELSE o + 1
             new == [i \in 1..n |-> IF i \in (o + 1)..(o + 1) THEN d[i - o]
                                    ELSE IF i <= Len(file) THEN file[i] ELSE 0]
  <1>1. WriteAt(file, o, d) = new
      BY DEF WriteAt
  <1>2. Len(file) \in Nat /\ n \in Nat /\ o + 1 <= n /\ Len(file) <= n
      OBVIOUS
  <1> HIDE DEF n
  <1>3. Len(new) = n
      BY <1>2
  <1>4. new[o + 1] = d[1]
      <2>1. o + 1 \in 1..n /\ o + 1 \in (o + 1)..(o + 1) /\ (o + 1) - o = 1
          BY <1>2
      <2> QED BY <2>1
  <1>5. ASSUME NEW off \in Nat, off # o, off < Len(file)
        PROVE  new[off + 1] = file[off + 1]
      <2>1. off + 1 \in 1..n /\ off + 1 \notin (o + 1)..(o + 1) /\ off + 1 <= Len(file)
          BY <1>2, <1>5
      <2> QED BY <2>1
  <1>6. o < n /\ \A off \in Nat : off < Len(file) => off < n
      BY <1>2
  <1> HIDE DEF new
  <1> QED BY <1>1, <1>3, <1>4, <1>5, <1>6 DEF Has

LEMMA SubSeqOne ==
    ASSUME NEW S, NEW s \in Seq(S), NEW k \in 1..Len(s)
    PROVE  SubSeq(s, k, k) = <<s[k]>>
  <1> DEFINE d == SubSeq(s, k, k)
  <1>1. d \in Seq(S) /\ Len(d) = 1 /\ d[1] = s[k]
      OBVIOUS
  <1> HIDE DEF d
  <1>2. d = <<d[1]>>
      BY <1>1
  <1> QED BY <1>1, <1>2 DEF d

LEMMA ReadAtHas ==
    ASSUME NEW file \in Seq(Nat), NEW off \in Nat, NEW v, Has(file, off, v)
    PROVE  ReadAt(file, off, 1) = <<v>>
  <1>1. Len(file) \in Nat /\ off + 1 <= Len(file) /\ file[off + 1] = v
      BY DEF Has
  <1> DEFINE last == IF off + 1 < Len(file) THEN off + 1 ELSE Len(file)
  <1>2. last = off + 1
      BY <1>1
  <1>3. ReadAt(file, off, 1) = SubSeq(file, off + 1, off + 1)
      BY <1>2 DEF ReadAt
  <1>4. SubSeq(file, off + 1, off + 1) = <<file[off + 1]>>
      <2>1. off + 1 \in 1..Len(file)
          BY <1>1
      <2> QED BY <2>1, SubSeqOne
  <1> QED BY <1>1, <1>3, <1>4

\* Buffers that hold data, and the disk, are left alone.
LEMMA SameFile ==
    ASSUME disk' = disk, \A u : Dirty(u)' <=> Dirty(u),
           \A u : Dirty(u) => file_queues'[u] = file_queues[u]
    PROVE  \A off, v : InFile(off, v)' <=> InFile(off, v)
  <1> SUFFICES ASSUME NEW off, NEW v PROVE InFile(off, v)' <=> InFile(off, v)
      OBVIOUS
  <1>1. ASSUME NEW u, Dirty(u)
        PROVE  Flushed(file_queues[u])' = Flushed(file_queues[u])
      <2>1. file_queues'[u] = file_queues[u]
          BY <1>1
      <2> QED BY <2>1 DEF Flushed
  <1>2. ASSUME NEW u, Dirty(u)
        PROVE  Has(Flushed(file_queues[u]), off, v)' <=> Has(Flushed(file_queues[u]), off, v)
      BY <1>1, <1>2 DEF Has
  <1>3. Has(disk.data, off, v)' <=> Has(disk.data, off, v)
      BY DEF Has
  <1> QED BY <1>2, <1>3 DEF InFile

\* While no other buffer holds data the file is what a handle sees of it.
LEMMA SeenFile ==
    ASSUME NEW t \in Tokens, Opened(t), \A u \in Tokens : Dirty(u) => u = t
    PROVE  \A off, v : InFile(off, v) <=> Has(Flushed(file_queues[t]), off, v)
  <1>1. ~Dirty(t) => Flushed(file_queues[t]) = disk.data
      BY DEF Dirty, Flushed
  <1> QED BY <1>1 DEF InFile

\* No buffer holds data: the file is what is on the disk.
LEMMA DiskFile ==
    ASSUME \A u \in Tokens : ~Dirty(u)
    PROVE  \A off, v : InFile(off, v) <=> Has(disk.data, off, v)
  BY DEF InFile

\* A step of the agent changes neither the sessions nor what is known: what is
\* left to show is that the file keeps what is in it and the reply is true.
LEMMA AgentContent ==
    ASSUME Content, UNCHANGED <<sess, told>>, full => full', NEW t,
           \A i \in DOMAIN c2a' : \E j \in DOMAIN c2a : c2a[j] = c2a'[i],
           \A i \in DOMAIN a2c' : \/ \E j \in DOMAIN a2c : a2c[j] = a2c'[i]
                                  \/ \E m \in Response : /\ a2c'[i] = m /\ m.token = t
                                                          /\ Truthful(m, t)',
           ~full' => \A off \in DOMAIN told :
                         InFile(off, told[off]) => InFile(off, told[off])',
           ~full' => \A u \in OpenFor({"w"}) :
                         /\ sess[u].st = "writing" /\ sess[u].clean
                         /\ \E i \in DOMAIN a2c : a2c[i].token = u /\ a2c[i].type = "CONTINUE"
                         /\ InFile(sess[u].offset, Head(sess[u].data))
                         => InFile(sess[u].offset, Head(sess[u].data))'
    PROVE  Content'
  <1>1. Lasting'
      BY DEF Content, Lasting
  <1>2. \A modes : OpenFor(modes)' = OpenFor(modes)
      BY DEF OpenFor
  <1>3. ASSUME NEW u \in Tokens, NEW m, NEW i \in DOMAIN a2c, m = a2c[i], m.token = u,
               Truthful(m, u)
        PROVE  Truthful(m, u)'
      BY <1>2, <1>3 DEF Truthful
  <1>4. ASSUME NEW u \in Tokens
        PROVE  Informed(u)'
      <2>1. ASSUME NEW i \in DOMAIN a2c', a2c'[i].token = u, NEW m, m = a2c'[i]
            PROVE  Truthful(m, u)'
          <3>1. CASE \E j \in DOMAIN a2c : a2c[j] = m
              <4>1. PICK j \in DOMAIN a2c : a2c[j] = m
                  BY <3>1
              <4>2. Truthful(m, u)
                  BY <2>1, <4>1 DEF Content, Informed
              <4> QED BY <1>3, <2>1, <4>1, <4>2
          <3>2. CASE \E n \in Response : m = n /\ n.token = t /\ Truthful(n, t)'
              BY <2>1, <3>2
          <3> QED BY <2>1, <3>1, <3>2
      <2> QED BY <2>1 DEF Informed
  <1>5. ASSUME NEW u \in Tokens
        PROVE  Reads(u)'
      BY <1>2 DEF Content, Reads
  <1> QED BY <1>1, <1>4, <1>5 DEF Content

LEMMA ServedContent ==
    ASSUME Content, NEW t, NEW type, Served(t, type), told' = told, full' = full,
           \/ a2c' = a2c
           \/ \E m \in Response : m.token = t /\ Grown(a2c', a2c, m) /\ Truthful(m, t)',
           ~full => \A off \in DOMAIN told :
                        InFile(off, told[off]) => InFile(off, told[off])',
           ~full => \A u \in OpenFor({"w"}) :
                        /\ sess[u].st = "writing" /\ sess[u].clean
                        /\ \E i \in DOMAIN a2c : a2c[i].token = u /\ a2c[i].type = "CONTINUE"
                        /\ InFile(sess[u].offset, Head(sess[u].data))
                        => InFile(sess[u].offset, Head(sess[u].data))'
    PROVE  Content'
  <1>1. UNCHANGED <<sess, told>> /\ Shrunk(c2a', c2a)
      BY DEF Served
  <1>2. \A i \in DOMAIN c2a' : \E j \in DOMAIN c2a : c2a[j] = c2a'[i]
      BY <1>1 DEF Shrunk
  <1>3. \A i \in DOMAIN a2c' : \/ \E j \in DOMAIN a2c : a2c[j] = a2c'[i]
                               \/ \E m \in Response : /\ a2c'[i] = m /\ m.token = t
                                                      /\ Truthful(m, t)'
      BY DEF Grown
  <1> QED BY <1>1, <1>2, <1>3, AgentContent

\* The file is as it was.
LEMMA ServedQuiet ==
    ASSUME Content, NEW t, NEW type, Served(t, type), told' = told, full' = full,
           \/ a2c' = a2c
           \/ \E m \in Response : m.token = t /\ Grown(a2c', a2c, m) /\ Truthful(m, t)',
           ~full => \A off, v : InFile(off, v) => InFile(off, v)'
    PROVE  Content'
  <1>1. \A u \in OpenFor({"w"}) : sess'[u] = sess[u]
      BY DEF Served
  <1>2. ~full => \A off \in DOMAIN told : InFile(off, told[off]) => InFile(off, told[off])'
      <2> SUFFICES ASSUME ~full, NEW off \in DOMAIN told, InFile(off, told[off])
                   PROVE  InFile(off, told[off])'
          OBVIOUS
      <2>1. PICK v : v = told[off]
          OBVIOUS
      <2>2. InFile(off, v)'
          BY <2>1
      <2> QED BY <2>1, <2>2
  <1>3. ~full => \A u \in OpenFor({"w"}) :
                     InFile(sess[u].offset, Head(sess[u].data)) =>
                         InFile(sess[u].offset, Head(sess[u].data))'
      <2> SUFFICES ASSUME ~full, NEW u \in OpenFor({"w"}),
                          InFile(sess[u].offset, Head(sess[u].data))
                   PROVE  InFile(sess[u].offset, Head(sess[u].data))'
          OBVIOUS
      <2>1. PICK off, v : off = sess[u].offset /\ v = Head(sess[u].data)
          OBVIOUS
      <2>2. InFile(off, v)'
          BY <2>1
      <2> QED BY <1>1, <2>1, <2>2
  <1> QED BY <1>2, <1>3, ServedContent

\* What a handle for reading sees is what is known to be written.
LEMMA ReaderSees ==
    ASSUME Ordered, Content, ~full, NEW t \in OpenFor({"r"}), sess[t].st # "opening",
           NEW off \in DOMAIN told
    PROVE  Has(disk.data, off, told[off])
  <1>1. t \in Tokens /\ Orderly(t) /\ sess[t].mode = "r" /\ t \in OpenFor({"r", "w"})
      BY DEF OpenFor, Ordered
  <1>2. \A u \in Tokens : Dirty(u) => u = t
      BY <1>1 DEF Orderly, Undisturbed, Arrived
  <1>3. ~Dirty(t)
      BY <1>1 DEF Orderly, Writer
  <1>4. InFile(off, told[off])
      BY DEF Content, Lasting
  <1> QED BY <1>2, <1>3, <1>4, DiskFile

LEMMA ReadFileContent ==
    ASSUME IInv, Ordered, Content, ReadFile, UNCHANGED browserVars
    PROVE  Content'
  <1>1. /\ Command("FILEREAD") /\ told' = told /\ full' = full
        /\ UNCHANGED <<disk, file_queues, sess>>
      BY DEF ReadFile, agentVars, browserVars
  <1>2. PICK t \in Tokens : Served(t, "FILEREAD")
      BY ReadFileServes
  <1>3. /\ LinkType /\ Head(c2a) = c2a[1] /\ c2a[1].token = t /\ c2a[1] \in Request
        /\ c2a[1].type = "FILEREAD" /\ disk.data \in Seq(Nat)
      BY <1>1, <1>2, CommandToken, CommandFacts DEF Served, IInv, Types, TypeOK, AgentTypeOK
  <1>4. \A off, v : InFile(off, v) => InFile(off, v)'
      <2>1. \A u : Dirty(u)' <=> Dirty(u)
          BY <1>1 DEF Dirty, Opened
      <2> QED BY <1>1, <2>1, SameFile
  <1>5. CASE Reply(FileCmd("ERR", t))
      <2>1. /\ FileCmd("ERR", t) \in Response /\ FileCmd("ERR", t).token = t
            /\ FileCmd("ERR", t).type = "ERR"
          BY ReplyTypes
      <2>2. a2c' = a2c \/ Grown(a2c', a2c, FileCmd("ERR", t))
          BY <1>3, <1>5, <2>1, RepliedShape
      <2>3. Truthful(FileCmd("ERR", t), t)'
          BY <2>1 DEF Truthful
      <2> QED BY <1>1, <1>2, <1>4, <2>1, <2>2, <2>3, ServedQuiet
  <1>6. CASE Reply(FileData(t, c2a[1].offset, ReadAt(disk.data, c2a[1].offset, 1)))
      <2>1. PICK o \in Nat : o = c2a[1].offset
          BY <1>3, CommandTypes
      <2>2. PICK d : d = ReadAt(disk.data, o, 1)
          OBVIOUS
      <2>3. PICK m \in Response :
                m = FileData(t, o, d) /\ m.token = t /\ m.type = "FILEDATA" /\ m.data = d
          <3>1. d \in {x \in Seq(Nat) : Len(x) <= 1} /\ t \in Tokens
              BY <1>2, <1>3, <2>1, <2>2, ReadAtType DEF Served
          <3>2. /\ FileData(t, o, d) \in Response /\ FileData(t, o, d).token = t
                /\ FileData(t, o, d).type = "FILEDATA"
              BY <2>1, <3>1, ReplyTypes
          <3>3. FileData(t, o, d).data = d
              BY DEF FileData
          <3> QED BY <3>2, <3>3
      <2>4. a2c' = a2c \/ Grown(a2c', a2c, m)
          BY <1>3, <1>6, <2>1, <2>2, <2>3, RepliedShape
      <2>5. ASSUME sess[t].clean, ~full, t \in OpenFor({"r"}), sess[t].st = "reading",
                   NEW off \in DOMAIN told, off = sess[t].offset
            PROVE  d = <<told[off]>>
          <3>1. Expected(c2a[1], t)
              BY <1>2, <2>5, ServedExpected DEF OpenFor
          <3>2. c2a[1].offset = sess[t].offset
              BY <2>5, <3>1 DEF Expected, FileRead
          <3>3. Has(disk.data, off, told[off])
              BY <2>5, ReaderSees
          <3> QED BY <1>3, <2>1, <2>2, <2>5, <3>2, <3>3, ReadAtHas
      <2>6. Truthful(m, t)'
          BY <1>1, <2>3, <2>5 DEF Truthful, OpenFor
      <2> QED BY <1>1, <1>2, <1>4, <2>3, <2>4, <2>6, ServedQuiet
  <1> QED BY <1>3, <1>5, <1>6 DEF ReadFile, Failed

LEMMA StatFileContent ==
    ASSUME IInv, Ordered, Content, StatFile, UNCHANGED browserVars
    PROVE  Content'
  <1>1. /\ Command("FILESTAT") /\ told' = told /\ full' = full
        /\ UNCHANGED <<disk, file_queues, sess>>
      BY DEF StatFile, agentVars, browserVars
  <1>2. PICK t \in Tokens : Served(t, "FILESTAT")
      BY StatFileServes
  <1>3. /\ LinkType /\ Head(c2a) = c2a[1] /\ c2a[1].token = t
        /\ disk.data \in Seq(Nat)
      BY <1>1, <1>2, CommandFacts DEF Served, IInv, Types, TypeOK, AgentTypeOK
  <1>4. \A off, v : InFile(off, v) => InFile(off, v)'
      <2>1. \A u : Dirty(u)' <=> Dirty(u)
          BY <1>1 DEF Dirty, Opened
      <2> QED BY <1>1, <2>1, SameFile
  <1>5. CASE Reply(FileCmd("ERR", t))
      <2>1. /\ FileCmd("ERR", t) \in Response /\ FileCmd("ERR", t).token = t
            /\ FileCmd("ERR", t).type = "ERR"
          BY ReplyTypes
      <2>2. a2c' = a2c \/ Grown(a2c', a2c, FileCmd("ERR", t))
          BY <1>3, <1>5, <2>1, RepliedShape
      <2>3. Truthful(FileCmd("ERR", t), t)'
          BY <2>1 DEF Truthful
      <2> QED BY <1>1, <1>2, <1>4, <2>1, <2>2, <2>3, ServedQuiet
  <1>6. CASE Reply(FileEntry(t, Len(disk.data)))
      <2>1. PICK size \in Nat : size = Len(disk.data)
          BY <1>3
      <2>2. PICK m \in Response :
                m = FileEntry(t, size) /\ m.token = t /\ m.type = "FILEENTRY" /\ m.size = size
          <3>1. /\ FileEntry(t, size) \in Response /\ FileEntry(t, size).token = t
                /\ FileEntry(t, size).type = "FILEENTRY"
              BY <2>1, ReplyTypes
          <3>2. FileEntry(t, size).size = size
              BY DEF FileEntry
          <3> QED BY <3>1, <3>2
      <2>3. a2c' = a2c \/ Grown(a2c', a2c, m)
          BY <1>3, <1>6, <2>1, <2>2, RepliedShape
      <2>4. ASSUME ~full, t \in OpenFor({"r"}), NEW off \in DOMAIN told
            PROVE  off < size
          <3>1. sess[t].st # "opening"
              BY <1>2, <2>4, ServedExpected DEF OpenFor
          <3>2. Has(disk.data, off, told[off])
              BY <2>4, <3>1, ReaderSees
          <3> QED BY <2>1, <3>2 DEF Has
      <2>5. Truthful(m, t)'
          BY <1>1, <2>2, <2>4 DEF Truthful, OpenFor
      <2> QED BY <1>1, <1>2, <1>4, <2>2, <2>3, <2>5, ServedQuiet
  <1> QED BY <1>3, <1>5, <1>6 DEF StatFile, Failed

\* Operations and listings are of other files.
LEMMA OperateContent ==
    ASSUME IInv, Ordered, Content, Operate \/ List \/ ListUnread, UNCHANGED browserVars
    PROVE  Content'
  <1>1. UNCHANGED <<disk, full, file_queues, sess, told>>
      BY DEF Operate, List, ListUnread, browserVars
  <1>2. PICK t \in Tokens, type \in {"FILEOP", "DIRLS"} : Served(t, type)
      BY OperateServes, ListServes, ListUnreadServes
  <1>3. \A off, v : InFile(off, v) => InFile(off, v)'
      <2>1. \A u : Dirty(u)' <=> Dirty(u)
          BY <1>1 DEF Dirty, Opened
      <2> QED BY <1>1, <2>1, SameFile
  <1>4. RepliesTo(type) \subseteq {"OK", "ERR"}
      BY <1>2 DEF RepliesTo
  <1>5. ASSUME NEW m \in Response, m.type \in {"OK", "ERR"}
        PROVE  Truthful(m, t)'
      BY <1>5 DEF Truthful
  <1>6. \/ a2c' = a2c
        \/ \E m \in Response : m.token = t /\ Grown(a2c', a2c, m) /\ Truthful(m, t)'
      BY <1>2, <1>4, <1>5 DEF Served
  <1> QED BY <1>1, <1>2, <1>3, <1>6, ServedQuiet

\* Nobody has data in a buffer when a file is opened; and what is truncated had
\* nothing in it that is known to be written.
LEMMA OpenFileContent ==
    ASSUME IInv, Ordered, Content, OpenFile, UNCHANGED browserVars
    PROVE  Content'
  <1>1. /\ Command("FILEOPEN") /\ told' = told /\ full' = full /\ sess' = sess
      BY DEF OpenFile, browserVars
  <1>2. PICK t \in Tokens : Served(t, "FILEOPEN")
      BY OpenFileServes
  <1>3. /\ LinkType /\ Head(c2a) = c2a[1] /\ c2a[1].token = t /\ c2a[1].type = "FILEOPEN"
        /\ 1 \in DOMAIN c2a
      BY <1>1, <1>2, CommandFacts DEF Served, IInv, Types
  <1>4. sess[t].st \in {"opening", "failed"} /\ Orderly(t)
      BY <1>3 DEF Ordered, Orderly, Opening
  <1>5. \A u \in Tokens : ~Dirty(u)
      <2>1. Touches(c2a[1])
          BY <1>3 DEF Touches
      <2>2. ~Dirty(t)
          BY <1>4 DEF Orderly, Writer
      <2> QED BY <1>2, <2>1, <2>2, ServedClean
  <1>6. \A u \in Tokens : ~Dirty(u)'
      BY <1>2, <1>5 DEF Served
  <1>7. \A m : m.type \in {"CONTINUE", "ERR"} => Truthful(m, t)'
      BY <1>1, <1>4 DEF Truthful
  <1>8. \/ a2c' = a2c
        \/ \E m \in Response : m.token = t /\ Grown(a2c', a2c, m) /\ Truthful(m, t)'
      BY <1>2, <1>7 DEF Served, RepliesTo
  <1>9. CASE disk' = disk
      <2>1. \A off, v : InFile(off, v) => InFile(off, v)'
          BY <1>5, <1>6, <1>9 DEF InFile
      <2> QED BY <1>1, <1>2, <1>8, <2>1, ServedQuiet
  <1>10. CASE c2a[1].mode = "w"
      <2>1. Truncates(c2a[1]) /\ Changes(c2a[1])
          BY <1>3, <1>10 DEF Truncates, Changes
      <2>2. DOMAIN told = {}
          BY <1>3, <2>1 DEF Content, Lasting
      <2>3. ASSUME NEW u \in OpenFor({"w"}), sess[u].st = "writing"
            PROVE  FALSE
          <3>1. Arrived(u) /\ u \in Tokens
              BY <2>3 DEF Arrived, OpenFor
          <3>2. u = t
              BY <1>3, <2>1, <3>1 DEF Ordered, Orderly, Undisturbed
          <3> QED BY <1>4, <2>3, <3>2
      <2> QED BY <1>1, <1>2, <1>8, <2>2, <2>3, ServedContent
  <1> QED BY <1>3, <1>9, <1>10 DEF OpenFile

\* What is in the buffer goes to the disk: the file is as it was.
LEMMA CloseFileContent ==
    ASSUME IInv, Ordered, Content, CloseFile, UNCHANGED browserVars
    PROVE  Content'
  <1>1. /\ Command("OK") /\ told' = told /\ full' = full /\ sess' = sess /\ a2c' = a2c
      BY DEF CloseFile, browserVars
  <1>2. PICK t \in Tokens : Served(t, "OK")
      BY CloseFileServes
  <1>3. LinkType /\ Head(c2a) = c2a[1] /\ c2a[1].token = t
      BY <1>1, <1>2, CommandFacts DEF Served, IInv, Types
  <1>4. ~Dirty(t)' /\ \A u : u # t => (Dirty(u)' <=> Dirty(u))
      BY <1>2 DEF Served
  <1>5. ASSUME ~full, NEW off, NEW v, InFile(off, v)
        PROVE  InFile(off, v)'
      <2>1. CASE ~Opened(t)
          <3>1. UNCHANGED <<disk, file_queues>>
              BY <1>3, <2>1 DEF CloseFile
          <3>2. \A u : Dirty(u)' <=> Dirty(u)
              BY <1>4, <2>1 DEF Dirty
          <3> QED BY <1>5, <3>1, <3>2, SameFile
      <2>2. CASE Opened(t)
          <3>1. /\ disk' = [disk EXCEPT !.data = Flushed(file_queues[t])]
                /\ file_queues' = Restrict(file_queues, DOMAIN file_queues \ {t})
              BY <1>3, <1>5, <2>2 DEF CloseFile, Flushes
          <3>2. disk'.data = Flushed(file_queues[t])
              BY <3>1 DEF IInv, Types, TypeOK, AgentTypeOK
          <3>3. CASE Dirty(t)
              <4>1. \A u \in Tokens : ~Dirty(u)'
                  BY <1>4, <3>3 DEF Ordered, OneDirty
              <4>2. Has(Flushed(file_queues[t]), off, v)
                  BY <1>5, <3>3 DEF InFile
              <4> QED BY <3>2, <4>1, <4>2 DEF InFile
          <3>4. CASE ~Dirty(t)
              <4>1. disk'.data = disk.data
                  BY <2>2, <3>2, <3>4 DEF Dirty, Flushed
              <4>2. \A u : (Dirty(u)' <=> Dirty(u))
                  BY <1>4, <3>4
              <4>3. \A u : Dirty(u) => file_queues'[u] = file_queues[u]
                  BY <3>1, <3>4 DEF Restrict, Dirty, Opened
              <4>4. \A u : Dirty(u) => Flushed(file_queues[u])' = Flushed(file_queues[u])
                  BY <4>1, <4>3 DEF Flushed
              <4> QED BY <1>5, <4>1, <4>2, <4>4 DEF InFile
          <3> QED BY <3>3, <3>4
      <2> QED BY <2>1, <2>2
  <1> QED BY <1>1, <1>2, <1>5, ServedQuiet

\* A write puts its data at its offset, in the buffer or on the disk.
LEMMA WriteFileSeen ==
    ASSUME IInv, WriteFile, ~full, NEW t \in Tokens, c2a[1].token = t, Head(c2a) = c2a[1],
           Opened(t), \A u : u # t => (Opened(u)' <=> Opened(u)) /\ (Dirty(u)' <=> Dirty(u)),
           \A u \in Tokens : Dirty(u) => u = t
    PROVE  /\ Reply(FileCmd("CONTINUE", t))
           /\ \A off, v : Has(WriteAt(Flushed(file_queues[t]), c2a[1].offset, c2a[1].data),
                              off, v)
                          => InFile(off, v)'
  <1>1. PICK file, o, d, w : /\ file = Flushed(file_queues[t])
                             /\ o = c2a[1].offset /\ d = c2a[1].data
                             /\ w = [offset |-> o, data |-> d]
      OBVIOUS
  <1>2. /\ t \in DOMAIN file_queues /\ file_queues[t] \in Handle
        /\ disk \in [exists : BOOLEAN, data : Seq(Nat)] /\ ~file_queues[t].closed
      BY DEF Opened, IInv, Types, TypeOK, AgentTypeOK
  <1>3. \/ /\ disk' = [disk EXCEPT !.data = file]
           /\ file_queues' = [file_queues EXCEPT ![t].buffer = <<w>>]
           /\ Reply(FileCmd("CONTINUE", t))
        \/ /\ disk' = [disk EXCEPT !.data = WriteAt(file, w.offset, w.data)]
           /\ file_queues' = [file_queues EXCEPT ![t].buffer = <<>>]
           /\ Reply(FileCmd("CONTINUE", t))
      BY <1>1 DEF WriteFile, Flushes
  <1>4. Reply(FileCmd("CONTINUE", t))
      BY <1>3
  <1>5. ASSUME NEW off, NEW v, Has(WriteAt(file, o, d), off, v)
        PROVE  InFile(off, v)'
      <2>1. CASE /\ disk' = [disk EXCEPT !.data = file]
                 /\ file_queues' = [file_queues EXCEPT ![t].buffer = <<w>>]
          <3>1. [file_queues[t] EXCEPT !.buffer = <<w>>].buffer = <<w>>
              BY <1>2 DEF Handle
          <3>2. file_queues'[t].buffer = <<w>> /\ disk'.data = file
              BY <1>2, <2>1, <3>1
          <3>3. <<w>> # <<>> /\ Head(<<w>>) = w /\ w.offset = o /\ w.data = d
              BY <1>1
          <3>4. Flushed(file_queues[t])' = WriteAt(file, o, d)
              BY <3>2, <3>3 DEF Flushed
          <3>5. Dirty(t)'
              <4>1. [file_queues[t] EXCEPT !.buffer = <<w>>].closed = file_queues[t].closed
                  BY <1>2 DEF Handle
              <4>2. t \in DOMAIN file_queues' /\ ~file_queues'[t].closed
                  BY <1>2, <2>1, <4>1
              <4> QED BY <3>2, <3>3, <4>2 DEF Dirty, Opened
          <3>6. \A u \in Tokens : Dirty(u)' => u = t
              OBVIOUS
          <3> QED BY <1>5, <3>4, <3>5, <3>6 DEF InFile
      <2>2. CASE /\ disk' = [disk EXCEPT !.data = WriteAt(file, w.offset, w.data)]
                 /\ file_queues' = [file_queues EXCEPT ![t].buffer = <<>>]
          <3>1. [file_queues[t] EXCEPT !.buffer = <<>>].buffer = <<>>
              BY <1>2 DEF Handle
          <3>2. file_queues'[t].buffer = <<>> /\ disk'.data = WriteAt(file, w.offset, w.data)
              BY <1>2, <2>2, <3>1
          <3>3. w.offset = o /\ w.data = d
              BY <1>1
          <3>4. \A u \in Tokens : ~Dirty(u)'
              BY <3>2 DEF Dirty
          <3> QED BY <1>5, <3>2, <3>3, <3>4 DEF InFile
      <2> QED BY <1>3, <2>1, <2>2
  <1> QED BY <1>1, <1>4, <1>5

\* A write leaves every other offset alone, and what is acknowledged is what was
\* asked for.
LEMMA WriteFileContent ==
    ASSUME IInv, Ordered, Content, WriteFile, UNCHANGED browserVars
    PROVE  Content'
  <1>1. /\ Command("FILEDATA") /\ told' = told /\ full' = full /\ sess' = sess
      BY DEF WriteFile, browserVars
  <1>2. PICK t \in Tokens : Served(t, "FILEDATA")
      BY WriteFileServes
  <1>3. /\ LinkType /\ Head(c2a) = c2a[1] /\ c2a[1].token = t /\ c2a[1].type = "FILEDATA"
        /\ 1 \in DOMAIN c2a /\ c2a[1] \in Request
      BY <1>1, <1>2, CommandFacts DEF Served, IInv, Types
  <1>4. CASE full
      <2>1. \A m : Truthful(m, t)'
          BY <1>1, <1>4 DEF Truthful
      <2>2. \/ a2c' = a2c
            \/ \E m \in Response : m.token = t /\ Grown(a2c', a2c, m) /\ Truthful(m, t)'
          BY <1>2, <2>1 DEF Served
      <2> QED BY <1>1, <1>2, <1>4, <2>2, ServedQuiet
  <1>5. CASE ~full /\ ~Opened(t)
      <2>1. Failed(t) /\ UNCHANGED <<disk, file_queues>>
          BY <1>3, <1>5 DEF WriteFile
      <2>2. /\ FileCmd("ERR", t) \in Response /\ FileCmd("ERR", t).token = t
            /\ FileCmd("ERR", t).type = "ERR"
          BY ReplyTypes
      <2>3. a2c' = a2c \/ Grown(a2c', a2c, FileCmd("ERR", t))
          BY <1>3, <2>1, <2>2, RepliedShape DEF Failed
      <2>4. Truthful(FileCmd("ERR", t), t)'
          BY <2>2 DEF Truthful
      <2>5. \A u : Dirty(u)' <=> Dirty(u)
          BY <2>1 DEF Dirty, Opened
      <2>6. \A off, v : InFile(off, v) => InFile(off, v)'
          BY <2>1, <2>5, SameFile
      <2> QED BY <1>1, <1>2, <2>2, <2>3, <2>4, <2>6, ServedQuiet
  <1>6. CASE ~full /\ Opened(t)
      <2>1. PICK file, o, d : /\ file = Flushed(file_queues[t])
                              /\ o = c2a[1].offset /\ d = c2a[1].data
          OBVIOUS
      <2>2. file \in Seq(Nat) /\ o \in Nat /\ d \in Seq(Nat) /\ Len(d) = 1
          <3>1. AgentTypeOK /\ file_queues[t] \in Handle
              BY <1>6 DEF Opened, IInv, Types, TypeOK, AgentTypeOK
          <3>2. o \in Nat /\ d \in Chunk
              BY <1>3, <2>1, CommandTypes
          <3> QED BY <2>1, <3>1, <3>2, FlushedType DEF Chunk
      <2>3. \A u \in Tokens : Dirty(u) => u = t
          BY <1>2, <1>3, ServedClean DEF Touches
      <2>4. /\ Reply(FileCmd("CONTINUE", t))
            /\ \A off, v : Has(WriteAt(file, o, d), off, v) => InFile(off, v)'
          BY <1>2, <1>3, <1>6, <2>1, <2>3, WriteFileSeen DEF Served
      <2>5. ASSUME NEW off \in DOMAIN told, InFile(off, told[off])
            PROVE  InFile(off, told[off])'
          <3>1. off # o
              BY <1>3, <2>1 DEF Content, Lasting
          <3>2. off \in Nat
              BY DEF IInv, Types, TypeOK, BrowserTypeOK
          <3>3. PICK v : v = told[off]
              OBVIOUS
          <3>4. Has(file, off, v)
              BY <1>6, <2>1, <2>3, <2>5, <3>3, SeenFile
          <3>5. Has(WriteAt(file, o, d), off, v)
              BY <2>2, <3>1, <3>2, <3>4, WriteAtHas
          <3> QED BY <1>1, <2>4, <3>3, <3>5
      <2>6. ASSUME NEW u \in OpenFor({"w"}), sess[u].st = "writing", sess[u].clean,
                   NEW i \in DOMAIN a2c, a2c[i].token = u
            PROVE  FALSE
          <3>1. Arrived(u) /\ u \in Tokens /\ u \in OpenFor({"r", "w"})
              BY <2>6 DEF Arrived, OpenFor
          <3>2. u = t
              BY <1>3, <3>1 DEF Ordered, Orderly, Undisturbed, Changes
          <3>3. None(a2c, t)
              BY <1>2, <2>6, <3>1, <3>2, ServedExpected
          <3> QED BY <2>6, <3>2, <3>3 DEF None
      <2>7. PICK m \in Response : m = FileCmd("CONTINUE", t) /\ m.token = t
                                  /\ m.type = "CONTINUE"
          BY ReplyTypes
      <2>8. ASSUME sess[t].clean, t \in OpenFor({"w"}), sess[t].st = "writing"
            PROVE  InFile(sess[t].offset, Head(sess[t].data))'
          <3>1. PICK v : v = Head(sess[t].data)
              OBVIOUS
          <3>2. Expected(c2a[1], t)
              BY <1>2, <2>8, ServedExpected DEF OpenFor
          <3>3. c2a[1] = FileData(t, sess[t].offset, <<v>>)
              BY <2>8, <3>1, <3>2 DEF Expected
          <3>4. o = sess[t].offset /\ d[1] = v
              BY <2>1, <3>3 DEF FileData
          <3>5. InFile(o, v)'
              BY <2>2, <2>4, <3>4, WriteAtHas
          <3> QED BY <1>1, <3>1, <3>4, <3>5
      <2>9. Truthful(m, t)'
          BY <1>1, <2>7, <2>8 DEF Truthful, OpenFor
      <2>10. a2c' = a2c \/ Grown(a2c', a2c, m)
          BY <1>3, <2>4, <2>7, RepliedShape
      <2> QED BY <1>1, <1>2, <2>5, <2>6, <2>7, <2>9, <2>10, ServedContent
  <1> QED BY <1>4, <1>5, <1>6

\* What changes neither the file nor a session.
LEMMA QuietContent ==
    ASSUME Content, UNCHANGED <<disk, file_queues, sess, told>>, full => full', NEW t,
           \A i \in DOMAIN c2a' : \E j \in DOMAIN c2a : c2a[j] = c2a'[i],
           \A i \in DOMAIN a2c' : \/ \E j \in DOMAIN a2c : a2c[j] = a2c'[i]
                                  \/ \E m \in Response : /\ a2c'[i] = m /\ m.token = t
                                                          /\ Truthful(m, t)'
    PROVE  Content'
  <1>1. \A off, v : InFile(off, v)' <=> InFile(off, v)
      <2>1. \A u : Dirty(u)' <=> Dirty(u)
          BY DEF Dirty, Opened
      <2> QED BY <2>1, SameFile
  <1>2. \A off \in DOMAIN told : InFile(off, told[off]) => InFile(off, told[off])'
      <2> SUFFICES ASSUME NEW off \in DOMAIN told, InFile(off, told[off])
                   PROVE  InFile(off, told[off])'
          OBVIOUS
      <2>1. PICK v : v = told[off]
          OBVIOUS
      <2>2. InFile(off, v)'
          BY <1>1, <2>1
      <2> QED BY <2>1, <2>2
  <1>3. \A u \in OpenFor({"w"}) :
            InFile(sess[u].offset, Head(sess[u].data)) =>
                InFile(sess[u].offset, Head(sess[u].data))'
      <2> SUFFICES ASSUME NEW u \in OpenFor({"w"}),
                          InFile(sess[u].offset, Head(sess[u].data))
                   PROVE  InFile(sess[u].offset, Head(sess[u].data))'
          OBVIOUS
      <2>1. PICK off, v : off = sess[u].offset /\ v = Head(sess[u].data)
          OBVIOUS
      <2>2. InFile(off, v)'
          BY <1>1, <2>1
      <2> QED BY <2>1, <2>2
  <1> QED BY <1>2, <1>3, AgentContent

LEMMA ListingContent ==
    ASSUME IInv, Content, ListEntry \/ ListFail \/ ListEnd, UNCHANGED browserVars
    PROVE  Content'
  <1>1. /\ listing # Idle /\ UNCHANGED <<c2a, wsUp>>
        /\ UNCHANGED <<disk, full, file_queues, sess, told>>
      BY DEF ListEntry, ListFail, ListEnd, browserVars
  <1>2. PICK t \in Tokens : t = listing.token /\ LinkType /\ sess[t].st \in {"listing", "failed"}
      BY <1>1, ListingFacts
  <1>3. \E m \in Response : m.token = t /\ Reply(m)
      <2>1. 0 \in Nat
          OBVIOUS
      <2> QED BY <1>2, <2>1, ReplyTypes DEF ListEntry, ListFail, Failed, ListEnd
  <1>4. a2c' = a2c \/ \E m \in Response : m.token = t /\ Grown(a2c', a2c, m)
      BY <1>2, <1>3, RepliedShape
  <1>5. \A m : Truthful(m, t)'
      BY <1>1, <1>2 DEF Truthful, OpenFor, OpenStates
  <1>6. \A i \in DOMAIN a2c' : \/ \E j \in DOMAIN a2c : a2c[j] = a2c'[i]
                               \/ \E m \in Response : /\ a2c'[i] = m /\ m.token = t
                                                      /\ Truthful(m, t)'
      BY <1>4, <1>5 DEF Grown
  <1> QED BY <1>1, <1>6, QuietContent

LEMMA LostContent ==
    ASSUME IInv, Content, LinkFailure
    PROVE  Content'
  <1>1. /\ Cut(c2a', c2a) /\ Cut(a2c', a2c)
        /\ UNCHANGED <<disk, full, file_queues, sess, told>>
      BY LostShape DEF agentVars, browserVars
  <1>2. /\ \A i \in DOMAIN c2a' : \E j \in DOMAIN c2a : c2a[j] = c2a'[i]
        /\ \A i \in DOMAIN a2c' : \E j \in DOMAIN a2c : a2c[j] = a2c'[i]
      BY <1>1 DEF Cut
  <1> QED BY <1>1, <1>2, QuietContent

LEMMA SameContent ==
    ASSUME Content, UNCHANGED <<linkVars, disk, file_queues, sess, told>>, full => full'
    PROVE  Content'
  <1>1. UNCHANGED <<c2a, a2c>>
      BY DEF linkVars
  <1> QED BY <1>1, QuietContent

LEMMA AgentNextContent ==
    ASSUME IInv, Ordered, Content, AgentNext, UNCHANGED browserVars
    PROVE  Content'
  <1>1. CASE DiskFull
      <2>1. UNCHANGED <<linkVars, disk, file_queues, sess, told>> /\ full'
          BY <1>1 DEF DiskFull, browserVars
      <2> QED BY <2>1, SameContent
  <1>2. CASE OpenFile \/ ReadFile \/ WriteFile \/ StatFile \/ CloseFile
      BY <1>2, OpenFileContent, ReadFileContent, WriteFileContent, StatFileContent,
         CloseFileContent
  <1>3. CASE Operate \/ List \/ ListUnread \/ ListEntry \/ ListFail \/ ListEnd
      BY <1>3, OperateContent, ListingContent
  <1> QED BY <1>1, <1>2, <1>3 DEF AgentNext, Dispatch

-----------------------------------------------------------------------------
(* What a step of the browser knows of the file.                            *)

\* Nothing is forgotten, and nothing is asked for that changes the file.
Keeping ==
    /\ told' = told
    /\ c2a' = c2a \/ \E m \in Request : Grown(c2a', c2a, m) /\ ~Changes(m)

\* Where the size of a session is from.
Sized(t) ==
    \/ sess'[t].st \in {"opening", "sizing"}
    \/ sess[t].st \notin {"opening", "sizing"} /\ sess'[t].size = sess[t].size
    \/ /\ sess[t].st \in {"sizing", "stating"} /\ Answered(t, sess[t].st)
       /\ sess'[t].size = Answer(t).size

\* Where its data is from.
Gathered(t) ==
    \/ /\ sess'[t].data = <<>>
       /\ sess'[t].st = "reading" => sess'[t].from = sess'[t].offset
    \/ /\ sess'[t].data = sess[t].data /\ sess'[t].from = sess[t].from
       /\ sess'[t].st = "reading" =>
             sess[t].st = "reading" /\ sess'[t].offset = sess[t].offset
    \/ /\ sess[t].st = "reading" /\ Answered(t, "reading")
       /\ sess'[t].from = sess[t].from
       /\ sess'[t].data = sess[t].data \o Answer(t).data
       /\ sess'[t].offset = sess[t].offset + Len(Answer(t).data)

Fills(t) == t \in OpenFor({"r"})' /\ sess'[t].clean => Sized(t) /\ Gathered(t)

\* A session whose file is open waits for nothing when it goes on.
LEMMA MoveAwaits ==
    ASSUME IInv, Ordered, NEW t \in Tokens, Move(t), t \in OpenFor({"r", "w"})',
           sess'[t].clean
    PROVE  None(c2a, t) /\ None(a2c', t)
  <1>1. sess[t].clean /\ Alone(t)
      BY DEF Move, Ordered, Orderly
  <1>2. CASE MoveOpen(t)
      BY <1>2, MoveOpenNew
  <1>3. CASE ~MoveOpen(t)
      <2>1. /\ MoveAsk(t) \/ MoveBack(t) \/ MoveOn(t)
            /\ t \in OpenFor({"r", "w"})
          BY <1>3, MoveStaysOpen
      <2>2. Received(t) => None(c2a, t) /\ None(a2c', t)
          BY <1>1, <2>1, MoveShape DEF Alone
      <2>3. sess[t].st = "open" => None(c2a, t) /\ None(a2c', t)
          BY <1>1, <2>1, MoveShape DEF Alone
      <2>4. Answered(t, sess[t].st) => Received(t)
          BY DEF Answered
      <2>5. sess'[t].st # "failed"
          BY DEF OpenFor, OpenStates
      <2> QED BY <2>1, <2>2, <2>3, <2>4, <2>5 DEF MoveAsk, MoveBack, MoveOn
  <1> QED BY <1>2, <1>3

LEMMA AnswerTruthful ==
    ASSUME IInv, Content, NEW t \in Tokens, NEW st, Answered(t, st)
    PROVE  /\ sess[t].st = st /\ Answer(t) \in Response /\ Answer(t).type = Wanted[st]
           /\ Truthful(Answer(t), t)
  <1>1. LinkType /\ Received(t)
      BY CallFacts DEF Answered
  <1>2. PICK k \in DOMAIN a2c : a2c[k].token = t /\ Answer(t) = a2c[k]
      BY <1>1, ReceiveFacts
  <1>3. Truthful(a2c[k], t)
      BY <1>2 DEF Content, Informed
  <1> QED BY <1>2, <1>3, AnsweredFacts

\* The agent keeps the file.
LEMMA MoveFile ==
    ASSUME NEW t, Move(t)
    PROVE  /\ full' = full /\ \A off, v : InFile(off, v)' <=> InFile(off, v)
  <1>1. UNCHANGED <<disk, full, file_queues>>
      BY DEF Move, agentVars
  <1>2. \A u : Dirty(u)' <=> Dirty(u)
      BY <1>1 DEF Dirty, Opened
  <1> QED BY <1>1, <1>2, SameFile

\* The replies that are left are as true as they were.
LEMMA MoveInformed ==
    ASSUME IInv, Ordered, Content, NEW t \in Tokens, Move(t), NEW u \in Tokens,
           told' = told \/ DOMAIN told' = {} \/ u \notin OpenFor({"r"})
    PROVE  Informed(u)'
  <1>1. /\ full' = full
        /\ \A off, v : InFile(off, v)' <=> InFile(off, v)
      BY MoveFile
  <1>2. CASE u # t
      <2>1. sess'[u] = sess[u] /\ \A i \in DOMAIN a2c' : \E j \in DOMAIN a2c : a2c[j] = a2c'[i]
          BY <1>2, MoveShape
      <2>2. \A modes : u \in OpenFor(modes)' <=> u \in OpenFor(modes)
          BY <2>1 DEF OpenFor
      <2>3. InFile(sess[u].offset, Head(sess[u].data)) =>
                InFile(sess[u].offset, Head(sess[u].data))'
          <3>1. PICK off, v : off = sess[u].offset /\ v = Head(sess[u].data)
              OBVIOUS
          <3>2. InFile(off, v) => InFile(off, v)'
              BY <1>1
          <3> QED BY <2>1, <3>1, <3>2
      <2>4. ASSUME NEW m, Truthful(m, u)
            PROVE  Truthful(m, u)'
          <3>1. CASE u \in OpenFor({"w"})
              <4>1. u \notin OpenFor({"r"})
                  BY <3>1 DEF OpenFor
              <4> QED BY <1>1, <2>1, <2>2, <2>3, <2>4, <3>1, <4>1 DEF Truthful
          <3>2. CASE u \notin OpenFor({"w"})
              BY <1>1, <2>1, <2>2, <2>4, <3>2 DEF Truthful
          <3> QED BY <3>1, <3>2
      <2>5. ASSUME NEW i \in DOMAIN a2c', a2c'[i].token = u, NEW m, m = a2c'[i]
            PROVE  Truthful(m, u)'
          <3>1. Truthful(m, u)
              BY <2>1, <2>5 DEF Content, Informed
          <3> QED BY <2>4, <3>1
      <2> QED BY <2>5 DEF Informed
  <1>3. CASE u = t
      <2>1. CASE t \in OpenFor({"r", "w"})' /\ sess'[t].clean
          <3>1. None(a2c', t)
              BY <2>1, MoveAwaits
          <3> QED BY <1>3, <3>1 DEF Informed, None
      <2>2. CASE ~(t \in OpenFor({"r", "w"})' /\ sess'[t].clean)
          <3>1. \A m : Truthful(m, t)'
              BY <2>2 DEF Truthful, OpenFor
          <3> QED BY <1>3, <3>1 DEF Informed
      <2> QED BY <2>1, <2>2
  <1> QED BY <1>2, <1>3

\* What a session has read stays true of the file.
LEMMA OthersRead ==
    ASSUME IInv, Content, NEW t \in Tokens, Move(t), NEW u \in Tokens, u # t,
           told' = told \/ DOMAIN told' = {} \/ u \notin OpenFor({"r"})
    PROVE  Reads(u)'
  <1>1. sess'[u] = sess[u]
      BY MoveShape
  <1>2. \A modes : u \in OpenFor(modes)' <=> u \in OpenFor(modes)
      BY <1>1 DEF OpenFor
  <1>3. full' = full /\ Reads(u) /\ sess[u] \in Session
      BY MoveFile, CallFacts DEF Content
  <1>4. CASE told' = told
      BY <1>1, <1>2, <1>3, <1>4 DEF Reads
  <1>5. CASE u \notin OpenFor({"r"})
      BY <1>2, <1>5 DEF Reads
  <1>6. CASE DOMAIN told' = {}
      BY <1>1, <1>2, <1>3, <1>6 DEF Reads
  <1> QED BY <1>4, <1>5, <1>6

\* What a session gets is what is in the file.
LEMMA MoveReads ==
    ASSUME IInv, IInv', Ordered, Content, NEW t \in Tokens, Move(t), Fills(t),
           told' = told
    PROVE  Reads(t)'
  <1>1. full' = full
      BY MoveFile
  <1> SUFFICES ASSUME t \in OpenFor({"r"})', sess'[t].clean, ~full
               PROVE  /\ sess'[t].st \notin {"opening", "sizing"} =>
                             \A off \in DOMAIN told : off < sess'[t].size
                      /\ sess'[t].st = "reading" =>
                             sess'[t].offset = sess'[t].from + Len(sess'[t].data)
                      /\ \A off \in DOMAIN told :
                             off - sess'[t].from + 1 \in DOMAIN sess'[t].data =>
                                 sess'[t].data[off - sess'[t].from + 1] = told[off]
      BY <1>1 DEF Reads
  <1>2. Sized(t) /\ Gathered(t) /\ sess[t].clean
      BY DEF Fills, Move
  <1>3. sess[t] \in Session /\ DOMAIN told \subseteq Nat /\ Orderly(t)
      BY CallFacts DEF Ordered
  <1>4. t \in OpenFor({"r"}) \/ MoveOpen(t)
      BY MoveStaysOpen
  <1>5. t \in OpenFor({"r"}) =>
            /\ sess[t].st \notin {"opening", "sizing"} =>
                   \A off \in DOMAIN told : off < sess[t].size
            /\ sess[t].st = "reading" => sess[t].offset = sess[t].from + Len(sess[t].data)
            /\ \A off \in DOMAIN told : off - sess[t].from + 1 \in DOMAIN sess[t].data =>
                   sess[t].data[off - sess[t].from + 1] = told[off]
      BY <1>2 DEF Content, Reads
  <1>6. sess'[t].st \notin {"opening", "sizing"} => \A off \in DOMAIN told : off < sess'[t].size
      <2>1. MoveOpen(t) => sess'[t].st = "opening"
          BY DEF MoveOpen
      <2>2. CASE sess[t].st \notin {"opening", "sizing"} /\ sess'[t].size = sess[t].size
          BY <1>4, <1>5, <2>1, <2>2
      <2>3. CASE /\ sess[t].st \in {"sizing", "stating"} /\ Answered(t, sess[t].st)
                 /\ sess'[t].size = Answer(t).size
          <3>1. Answer(t).type = "FILEENTRY" /\ Truthful(Answer(t), t)
              BY <2>3, AnswerTruthful, WantedFacts
          <3>2. t \in OpenFor({"r"})
              BY <1>4, <2>3 DEF MoveOpen
          <3>3. \A off \in DOMAIN told : off < Answer(t).size
              BY <1>2, <3>1, <3>2 DEF Truthful
          <3> QED BY <2>3, <3>3
      <2> QED BY <1>2, <2>2, <2>3 DEF Sized
  <1>7. CASE /\ sess'[t].data = <<>>
             /\ sess'[t].st = "reading" => sess'[t].from = sess'[t].offset
      <2>1. DOMAIN sess'[t].data = {} /\ Len(sess'[t].data) = 0
          <3>1. DOMAIN <<>> = {} /\ Len(<<>>) = 0
              OBVIOUS
          <3> QED BY <1>7, <3>1
      <2>2. sess'[t].from \in Nat
          BY DEF IInv, Types, TypeOK, BrowserTypeOK, Session
      <2> QED BY <1>6, <1>7, <2>1, <2>2
  <1>8. CASE /\ sess'[t].data = sess[t].data /\ sess'[t].from = sess[t].from
             /\ sess'[t].st = "reading" =>
                   sess[t].st = "reading" /\ sess'[t].offset = sess[t].offset
      <2>1. CASE t \in OpenFor({"r"})
          BY <1>5, <1>6, <1>8, <2>1
      <2>2. CASE MoveOpen(t)
          <3>1. sess[t].data = <<>> /\ sess'[t].st = "opening"
              BY <1>3, <2>2 DEF MoveOpen, Orderly, Modes
          <3>2. DOMAIN <<>> = {}
              OBVIOUS
          <3> QED BY <1>6, <1>8, <3>1, <3>2
      <2> QED BY <1>4, <2>1, <2>2
  <1>9. CASE /\ sess[t].st = "reading" /\ Answered(t, "reading")
             /\ sess'[t].from = sess[t].from
             /\ sess'[t].data = sess[t].data \o Answer(t).data
             /\ sess'[t].offset = sess[t].offset + Len(Answer(t).data)
      <2>1. PICK old, from, o : old = sess[t].data /\ from = sess[t].from /\ o = sess[t].offset
          OBVIOUS
      <2>2. PICK d : d = Answer(t).data
          OBVIOUS
      <2>3. old \in Seq(Nat) /\ from \in Nat /\ o \in Nat
          BY <1>3, <2>1 DEF Session
      <2>4. /\ Answer(t) \in Response /\ Answer(t).type = "FILEDATA"
            /\ Truthful(Answer(t), t)
          BY <1>9, AnswerTruthful, WantedFacts
      <2>5. d \in Seq(Nat) /\ Len(d) \in 0..1
          BY <2>2, <2>4, ResponseFacts
      <2>6. t \in OpenFor({"r"})
          BY <1>4, <1>9 DEF MoveOpen
      <2>7. \A off \in DOMAIN told : off = o => d = <<told[off]>>
          BY <1>2, <1>9, <2>1, <2>2, <2>4, <2>6 DEF Truthful
      <2>8. /\ Len(old) \in Nat /\ Len(d) \in Nat /\ Len(old \o d) = Len(old) + Len(d)
            /\ DOMAIN old = 1..Len(old) /\ DOMAIN (old \o d) = 1..(Len(old) + Len(d))
            /\ \A i \in 1..Len(old) : (old \o d)[i] = old[i]
            /\ \A i \in 1..Len(d) : (old \o d)[Len(old) + i] = d[i]
          BY <2>3, <2>5
      <2>9. o = from + Len(old)
          BY <1>5, <1>9, <2>1, <2>6
      <2>10. o + Len(d) = from + Len(old \o d)
          BY <2>3, <2>8, <2>9
      <2>11. ASSUME NEW off \in DOMAIN told, off - from + 1 \in DOMAIN (old \o d)
             PROVE  (old \o d)[off - from + 1] = told[off]
          <3>1. off \in Nat
              BY <1>3
          <3>2. CASE off - from + 1 \in DOMAIN old
              BY <1>5, <2>1, <2>6, <2>8, <3>2
          <3>3. CASE off - from + 1 \notin DOMAIN old
              <4>1. Len(d) = 1 /\ off - from + 1 = Len(old) + 1
                  <5>1. \A n \in Nat : \A k \in 0..1 : \A i \in 1..(n + k) :
                            i \notin 1..n => k = 1 /\ i = n + 1
                      OBVIOUS
                  <5> QED BY <2>5, <2>8, <2>11, <3>3, <5>1
              <4>2. off = o
                  BY <2>3, <2>8, <2>9, <3>1, <4>1
              <4>3. d = <<told[off]>>
                  BY <2>7, <4>2
              <4>4. d[1] = told[off]
                  BY <4>3
              <4> QED BY <2>8, <4>1, <4>4
          <3> QED BY <3>2, <3>3
      <2> QED BY <1>6, <1>9, <2>1, <2>2, <2>10, <2>11
  <1> QED BY <1>2, <1>7, <1>8, <1>9 DEF Gathered

\* Nothing is known of the file any more.
LEMMA ForgottenContent ==
    ASSUME IInv, Ordered, Content, NEW t \in Tokens, Move(t), DOMAIN told' = {},
           sess'[t].mode = "w"
    PROVE  Content'
  <1>1. Lasting'
      BY DEF Lasting
  <1>2. \A u \in Tokens : Informed(u)'
      BY MoveInformed
  <1>3. \A u \in Tokens : u # t => Reads(u)'
      BY OthersRead
  <1>4. Reads(t)'
      BY DEF Reads, OpenFor
  <1> QED BY <1>1, <1>2, <1>3, <1>4 DEF Content

LEMMA KeptContent ==
    ASSUME IInv, IInv', Ordered, Content, NEW t \in Tokens, Move(t), Keeping, Fills(t)
    PROVE  Content'
  <1>1. full' = full /\ told' = told
        /\ \A off, v : InFile(off, v)' <=> InFile(off, v)
      BY MoveFile DEF Keeping
  <1>2. \A i \in DOMAIN c2a' : ~Changes(c2a'[i]) \/ \E j \in DOMAIN c2a : c2a[j] = c2a'[i]
      BY DEF Keeping, Grown
  <1>3. Lasting'
      <2>1. ASSUME NEW off \in DOMAIN told
            PROVE  /\ \A i \in DOMAIN c2a' :
                          /\ ~Truncates(c2a'[i])
                          /\ c2a'[i].type = "FILEDATA" => c2a'[i].offset # off
                   /\ ~full => InFile(off, told[off])'
          <3>1. ~full => InFile(off, told[off])
              BY DEF Content, Lasting
          <3>2. PICK v : v = told[off]
              OBVIOUS
          <3>3. ~full => InFile(off, v)'
              BY <1>1, <3>1, <3>2
          <3>4. \A i \in DOMAIN c2a : /\ ~Truncates(c2a[i])
                                      /\ c2a[i].type = "FILEDATA" => c2a[i].offset # off
              BY DEF Content, Lasting
          <3> QED BY <1>1, <1>2, <3>2, <3>3, <3>4 DEF Changes
      <2> QED BY <1>1, <2>1 DEF Lasting
  <1>4. \A u \in Tokens : Informed(u)'
      BY <1>1, MoveInformed
  <1>5. \A u \in Tokens : u # t => Reads(u)'
      BY <1>1, OthersRead
  <1>6. Reads(t)'
      BY <1>1, MoveReads
  <1> QED BY <1>3, <1>4, <1>5, <1>6 DEF Content

\* While a file is open for writing nobody has it open for reading.
LEMMA WriterContent ==
    ASSUME IInv, Ordered, Content, NEW t \in Tokens, Move(t), t \in OpenFor({"w"}),
           sess'[t].mode = "w", Lasting'
    PROVE  Content'
  <1>1. \A u \in Tokens : u \notin OpenFor({"r"})
      <2>1. \A u \in OpenFor({"r", "w"}) : u = t
          BY DEF Ordered, Exclusive
      <2> QED BY <2>1 DEF OpenFor
  <1>2. \A u \in Tokens : Informed(u)'
      BY <1>1, MoveInformed
  <1>3. \A u \in Tokens : u # t => Reads(u)'
      BY <1>1, OthersRead
  <1>4. Reads(t)'
      BY DEF Reads, OpenFor
  <1> QED BY <1>2, <1>3, <1>4 DEF Content

\* A write forgets what was at its offset before it asks for the change.
LEMMA WriteContent ==
    ASSUME IInv, Ordered, Content, NEW t \in Tokens, Move(t), Write(t)
    PROVE  Content'
  <1>1. /\ sess[t] \in Session /\ sess \in [Tokens -> Session] /\ calls \in Nat /\ LinkType
        /\ sess[t].st = "open" /\ sess[t].mode = "w"
        /\ told' = Forget({sess[t].offset}) /\ WriteChunk(t, sess'[t])
      BY CallFacts DEF Write, Call
  <1>2. PICK n \in 1..2 :
            sess' = [sess EXCEPT ![t].st = "writing", ![t].data = [i \in 1..n |-> 2 * calls + i]]
      BY DEF Write
  <1>3. PICK o \in Nat : o = sess[t].offset
      BY <1>1 DEF Session
  <1>4. PICK d : d = [i \in 1..n |-> 2 * calls + i]
      OBVIOUS
  <1>5. sess'[t].offset = o /\ sess'[t].data = d /\ sess'[t].mode = "w"
      BY <1>1, <1>2, <1>3, <1>4 DEF Session
  <1>6. /\ DOMAIN told' = DOMAIN told \ {o} /\ \A off \in DOMAIN told' : told'[off] = told[off]
      BY <1>1, <1>3 DEF Forget, Restrict
  <1>7. PICK v : v = Head(d)
      OBVIOUS
  <1>8. v \in Nat
      <2>1. d \in Seq(Nat) /\ Len(d) = n
          BY <1>1, <1>4
      <2> QED BY <1>7, <2>1
  <1>9. PICK m : m = FileData(t, o, <<v>>)
      OBVIOUS
  <1>10. m \in Request /\ m.type = "FILEDATA" /\ m.offset = o /\ BrowserSend(m)
      <2>1. m \in Request
          BY <1>8, <1>9, RequestFacts
      <2> QED BY <1>1, <1>5, <1>7, <1>9, <2>1 DEF FileData, WriteChunk
  <1>11. \A i \in DOMAIN c2a' : c2a'[i] = m \/ \E j \in DOMAIN c2a : c2a[j] = c2a'[i]
      BY <1>1, <1>10, SentShape DEF Grown
  <1>12. full' = full /\ \A off, x : InFile(off, x)' <=> InFile(off, x)
      BY MoveFile
  <1>13. Lasting'
      <2>1. ASSUME NEW off \in DOMAIN told, off # o
            PROVE  /\ \A i \in DOMAIN c2a' :
                          /\ ~Truncates(c2a'[i])
                          /\ c2a'[i].type = "FILEDATA" => c2a'[i].offset # off
                   /\ ~full => \A x : x = told[off] => InFile(off, x)'
          <3>1. ~full => InFile(off, told[off])
              BY DEF Content, Lasting
          <3>2. \A i \in DOMAIN c2a : /\ ~Truncates(c2a[i])
                                      /\ c2a[i].type = "FILEDATA" => c2a[i].offset # off
              BY DEF Content, Lasting
          <3>3. ~Truncates(m)
              BY <1>10 DEF Truncates
          <3> QED BY <1>10, <1>11, <1>12, <2>1, <3>1, <3>2, <3>3
      <2> QED BY <1>6, <1>12, <2>1 DEF Lasting
  <1>14. t \in OpenFor({"w"})
      BY <1>1 DEF OpenFor, OpenStates
  <1> QED BY <1>5, <1>13, <1>14, WriterContent

\* What is acknowledged is in the file, and nothing is on the way that changes
\* it there.
LEMMA WriteAnsweredContent ==
    ASSUME IInv, Ordered, Content, NEW t \in Tokens, Move(t), WriteAnswered(t)
    PROVE  Content'
  <1>1. /\ sess[t] \in Session /\ sess \in [Tokens -> Session] /\ LinkType
        /\ DOMAIN told \subseteq Nat /\ SessionFacts(sess[t]) /\ Orderly(t)
      BY CallFacts DEF Ordered
  <1>2. /\ sess[t].st = "writing" /\ Answer(t).type = "CONTINUE" /\ Truthful(Answer(t), t)
        /\ Received(t)
      BY AnswerTruthful, AnsweredFacts, WantedFacts DEF WriteAnswered
  <1>3. /\ sess[t].mode = "w" /\ t \in OpenFor({"w"}) /\ t \in OpenFor({"r", "w"})
      BY <1>1, <1>2 DEF Orderly, Modes, OpenFor, OpenStates
  <1>4. PICK o \in Nat : o = sess[t].offset
      BY <1>1 DEF Session
  <1>5. PICK v : v = Head(sess[t].data)
      OBVIOUS
  <1> DEFINE s == [sess[t] EXCEPT !.offset = @ + 1, !.data = Tail(@)]
             done == [s EXCEPT !.st = "open"]
             known == IF sess[t].clean THEN Put(told, o, v) ELSE told
  <1>6. \/ /\ sess' = [sess EXCEPT ![t] = done] /\ told' = known /\ c2a' = c2a
        \/ /\ s.data # <<>> /\ sess' = [sess EXCEPT ![t] = s]
           /\ told' = Restrict(known, DOMAIN known \ {o + 1})
           /\ WriteChunk(t, s)
      BY <1>4, <1>5 DEF WriteAnswered
  <1>7. Tail(sess[t].data) \in Seq(Nat) /\ o + 1 \in Nat
      <2>1. sess[t].data \in Seq(Nat) /\ sess[t].data # <<>>
          BY <1>1, <1>2 DEF Session, SessionFacts
      <2> QED BY <1>4, <2>1
  <1>8. /\ s.mode = "w" /\ s.offset = o + 1 /\ s.data \in Seq(Nat) /\ done.mode = "w"
      BY <1>1, <1>3, <1>4, <1>7 DEF Session
  <1> HIDE DEF s, done
  <1>9. sess'[t].mode = "w"
      BY <1>1, <1>6, <1>8
  <1>10. ASSUME NEW off \in DOMAIN known
         PROVE  \/ off \in DOMAIN told /\ known[off] = told[off]
                \/ off = o /\ known[off] = v /\ sess[t].clean
      BY <1>10 DEF Put
  <1> HIDE DEF known
  <1>11. full' = full /\ \A off, x : InFile(off, x)' <=> InFile(off, x)
      BY MoveFile
  <1>12. ~full /\ sess[t].clean => InFile(o, v)
      <2>1. ~full /\ sess[t].clean => InFile(sess[t].offset, Head(sess[t].data))
          BY <1>2, <1>3 DEF Truthful
      <2> QED BY <1>4, <1>5, <2>1
  <1>13. ASSUME NEW off \in DOMAIN known
         PROVE  ~full => \A x : x = known[off] => InFile(off, x)'
      <2>1. off \in DOMAIN told => (~full => InFile(off, told[off]))
          BY DEF Content, Lasting
      <2> QED BY <1>10, <1>11, <1>12, <2>1
  <1>14. ASSUME sess[t].clean, NEW i \in DOMAIN c2a
         PROVE  ~Changes(c2a[i])
      <2>1. Received(t) => ~None(a2c, t)
          BY MoveShape
      <2>2. None(c2a, t) /\ Arrived(t)
          BY <1>2, <1>3, <1>14, <2>1, OpeningFacts
      <2> QED BY <1>1, <2>2 DEF Orderly, Undisturbed, None
  <1>15. ASSUME NEW off \in DOMAIN known, NEW i \in DOMAIN c2a
         PROVE  /\ ~Truncates(c2a[i])
                /\ c2a[i].type = "FILEDATA" => c2a[i].offset # off
      <2>1. CASE off \in DOMAIN told
          BY <2>1 DEF Content, Lasting
      <2>2. CASE sess[t].clean
          BY <1>14, <2>2 DEF Changes
      <2> QED BY <1>10, <2>1, <2>2
  <1>16. CASE told' = known /\ c2a' = c2a
      <2>1. Lasting'
          BY <1>11, <1>13, <1>15, <1>16 DEF Lasting
      <2> QED BY <1>3, <1>9, <2>1, WriterContent
  <1>17. CASE /\ s.data # <<>> /\ told' = Restrict(known, DOMAIN known \ {o + 1})
              /\ WriteChunk(t, s)
      <2>1. /\ DOMAIN told' = DOMAIN known \ {o + 1}
            /\ \A off \in DOMAIN told' : told'[off] = known[off]
          BY <1>17 DEF Restrict
      <2>2. PICK m : m = FileData(t, o + 1, <<Head(s.data)>>)
          OBVIOUS
      <2>3. m \in Request /\ m.type = "FILEDATA" /\ m.offset = o + 1 /\ BrowserSend(m)
          <3>1. Head(s.data) \in Nat
              BY <1>8, <1>17
          <3>2. m \in Request
              BY <1>7, <2>2, <3>1, RequestFacts
          <3> QED BY <1>8, <1>17, <2>2, <3>2 DEF FileData, WriteChunk
      <2>4. \A i \in DOMAIN c2a' : c2a'[i] = m \/ \E j \in DOMAIN c2a : c2a[j] = c2a'[i]
          BY <1>1, <2>3, SentShape DEF Grown
      <2>5. ~Truncates(m)
          BY <2>3 DEF Truncates
      <2>6. \A off \in DOMAIN told' : \A i \in DOMAIN c2a' :
                /\ ~Truncates(c2a'[i])
                /\ c2a'[i].type = "FILEDATA" => c2a'[i].offset # off
          BY <1>15, <2>1, <2>3, <2>4, <2>5
      <2>7. \A off \in DOMAIN told' : ~full => \A x : x = told'[off] => InFile(off, x)'
          BY <1>13, <2>1
      <2>8. Lasting'
          BY <1>11, <2>6, <2>7 DEF Lasting
      <2> QED BY <1>3, <1>9, <2>8, WriterContent
  <1> QED BY <1>6, <1>16, <1>17

\* Every other step keeps what is known, and gets what it gets from an answer.
LEMMA KeepsBySending ==
    ASSUME LinkType, told' = told,
           c2a' = c2a \/ \E m \in Request : BrowserSend(m) /\ ~Changes(m)
    PROVE  Keeping
  <1>1. CASE c2a' = c2a
      BY <1>1 DEF Keeping
  <1>2. CASE \E m \in Request : BrowserSend(m) /\ ~Changes(m)
      <2>1. PICK m \in Request : BrowserSend(m) /\ ~Changes(m)
          BY <1>2
      <2> QED BY <2>1, SentShape DEF Keeping
  <1> QED BY <1>1, <1>2

LEMMA QuietRequests ==
    ASSUME NEW t \in Tokens
    PROVE  /\ \A type \in {"FILESTAT", "OK", "FILEOP", "DIRLS"} :
                 FileCmd(type, t) \in Request /\ ~Changes(FileCmd(type, t))
           /\ \A off \in Nat : FileRead(t, off) \in Request /\ ~Changes(FileRead(t, off))
           /\ FileOpen(t, "r") \in Request /\ ~Changes(FileOpen(t, "r"))
  BY RequestFacts DEF FileCmd, FileRead, FileOpen, Changes, Truncates

LEMMA OpenContent ==
    ASSUME IInv, IInv', Ordered, Content, NEW t \in Tokens, NEW mode \in {"r", "w"},
           Move(t), Open(t, mode)
    PROVE  Content'
  <1>1. /\ sess[t] \in Session /\ sess \in [Tokens -> Session] /\ LinkType
        /\ Modes(sess[t]) /\ sess[t].st = "new"
      BY CallFacts DEF Ordered, Orderly, Open, Call
  <1>2. CASE sess' = [sess EXCEPT ![t].st = "failed"] /\ UNCHANGED <<c2a, told>>
      <2>1. sess'[t].st = "failed"
          BY <1>1, <1>2 DEF Session
      <2>2. Fills(t)
          BY <2>1 DEF Fills, OpenFor, OpenStates
      <2> QED BY <1>2, <2>2, KeptContent DEF Keeping
  <1>3. CASE /\ sess' = [sess EXCEPT ![t].st = "opening", ![t].mode = mode]
             /\ BrowserSend(FileOpen(t, mode))
             /\ told' = IF mode = "w" THEN <<>> ELSE told
      <2>1. /\ sess'[t].st = "opening" /\ sess'[t].mode = mode
            /\ sess'[t].data = sess[t].data
          BY <1>1, <1>3 DEF Session
      <2>2. CASE mode = "w"
          <3>1. DOMAIN told' = {}
              <4>1. DOMAIN <<>> = {}
                  OBVIOUS
              <4> QED BY <1>3, <2>2, <4>1
          <3> QED BY <2>1, <2>2, <3>1, ForgottenContent
      <2>3. CASE mode = "r"
          <3>1. Keeping
              BY <1>1, <1>3, <2>3, QuietRequests, KeepsBySending
          <3>2. sess[t].data = <<>>
              BY <1>1 DEF Modes
          <3>3. Fills(t)
              BY <2>1, <3>2 DEF Fills, Sized, Gathered
          <3> QED BY <3>1, <3>3, KeptContent
      <2> QED BY <2>2, <2>3
  <1> QED BY <1>2, <1>3 DEF Open

LEMMA StatContent ==
    ASSUME IInv, IInv', Ordered, Content, NEW t \in Tokens, Move(t), Stat(t)
    PROVE  Content'
  <1>1. /\ sess[t] \in Session /\ sess \in [Tokens -> Session] /\ LinkType
        /\ sess[t].st = "open" /\ told' = told
        /\ sess' = [sess EXCEPT ![t].st = "stating"] /\ BrowserSend(FileCmd("FILESTAT", t))
      BY CallFacts DEF Stat, Call
  <1>2. /\ sess'[t].st = "stating" /\ sess'[t].data = sess[t].data
        /\ sess'[t].from = sess[t].from /\ sess'[t].size = sess[t].size
      BY <1>1 DEF Session
  <1>3. Keeping
      BY <1>1, QuietRequests, KeepsBySending
  <1>4. Fills(t)
      BY <1>1, <1>2 DEF Fills, Sized, Gathered
  <1> QED BY <1>3, <1>4, KeptContent

LEMMA SeekContent ==
    ASSUME IInv, IInv', Ordered, Content, NEW t \in Tokens, Move(t), Seek(t)
    PROVE  Content'
  <1>1. /\ sess[t] \in Session /\ sess \in [Tokens -> Session]
        /\ sess[t].st = "open" /\ UNCHANGED <<c2a, told>>
      BY CallFacts DEF Seek, Call
  <1>2. PICK off : sess' = [sess EXCEPT ![t].offset = off]
      BY DEF Seek
  <1>3. /\ sess'[t].st = "open" /\ sess'[t].data = sess[t].data
        /\ sess'[t].from = sess[t].from /\ sess'[t].size = sess[t].size
      BY <1>1, <1>2 DEF Session
  <1>4. Keeping /\ Fills(t)
      BY <1>1, <1>3 DEF Keeping, Fills, Sized, Gathered
  <1> QED BY <1>4, KeptContent

LEMMA ReadContent ==
    ASSUME IInv, IInv', Ordered, Content, NEW t \in Tokens, Move(t), Read(t)
    PROVE  Content'
  <1>1. /\ sess[t] \in Session /\ sess \in [Tokens -> Session] /\ LinkType
        /\ sess[t].st = "open" /\ told' = told /\ BrowserSend(FileRead(t, sess[t].offset))
      BY CallFacts DEF Read, Call
  <1>2. PICK n : sess' = [sess EXCEPT ![t].st = "reading", ![t].left = n,
                               ![t].from = sess[t].offset, ![t].data = <<>>]
      BY DEF Read
  <1>3. /\ sess'[t].data = <<>> /\ sess'[t].from = sess'[t].offset
        /\ sess'[t].size = sess[t].size
      BY <1>1, <1>2 DEF Session
  <1>4. sess[t].offset \in Nat
      BY <1>1 DEF Session
  <1>5. Keeping
      BY <1>1, <1>4, QuietRequests, KeepsBySending
  <1>6. Fills(t)
      BY <1>1, <1>3 DEF Fills, Sized, Gathered
  <1> QED BY <1>5, <1>6, KeptContent

\* A session that ends, or has nothing to do with the file.
LEMMA AwayContent ==
    ASSUME IInv, IInv', Ordered, Content, NEW t \in Tokens, Move(t), told' = told,
           sess'[t].st \notin OpenStates,
           \/ c2a' = c2a
           \/ \E type \in {"OK", "FILEOP", "DIRLS"} : BrowserSend(FileCmd(type, t))
    PROVE  Content'
  <1>1. LinkType
      BY CallFacts
  <1>2. Keeping
      BY <1>1, QuietRequests, KeepsBySending
  <1>3. Fills(t)
      BY DEF Fills, OpenFor
  <1> QED BY <1>2, <1>3, KeptContent

LEMMA CallContent ==
    ASSUME IInv, IInv', Ordered, Content, NEW t \in Tokens, Move(t), Calls(t)
    PROVE  Content'
  <1>1. CASE \E mode \in {"r", "w"} : Open(t, mode)
      BY <1>1, OpenContent
  <1>2. CASE Stat(t) \/ Seek(t) \/ Read(t) \/ Write(t)
      BY <1>2, StatContent, SeekContent, ReadContent, WriteContent
  <1>3. CASE Close(t)
      <2>1. /\ sess[t] \in Session /\ sess \in [Tokens -> Session] /\ told' = told
            /\ sess' = [sess EXCEPT ![t].st = "closed"] /\ BrowserSend(FileCmd("OK", t))
          BY <1>3, CallFacts DEF Close
      <2>2. sess'[t].st = "closed"
          BY <2>1 DEF Session
      <2>3. sess'[t].st \notin OpenStates
          BY <2>2 DEF OpenStates
      <2> QED BY <2>1, <2>3, AwayContent
  <1>4. CASE \E st \in {"operating", "listing"}, type \in {"FILEOP", "DIRLS"} :
                 Operation(t, st, type)
      <2>1. PICK st \in {"operating", "listing"}, type \in {"FILEOP", "DIRLS"} :
                     Operation(t, st, type)
          BY <1>4
      <2>2. /\ sess[t] \in Session /\ sess \in [Tokens -> Session] /\ told' = told
            /\ sess' = [sess EXCEPT ![t].st = st] /\ BrowserSend(FileCmd(type, t))
          BY <2>1, CallFacts DEF Operation
      <2>3. sess'[t].st = st
          BY <2>2 DEF Session
      <2>4. sess'[t].st \notin OpenStates
          BY <2>3 DEF OpenStates
      <2> QED BY <2>2, <2>4, AwayContent
  <1> QED BY <1>1, <1>2, <1>3, <1>4 DEF Calls

LEMMA OpenAnsweredContent ==
    ASSUME IInv, IInv', Ordered, Content, NEW t \in Tokens, Move(t), OpenAnswered(t)
    PROVE  Content'
  <1>1. /\ sess[t] \in Session /\ sess \in [Tokens -> Session] /\ LinkType /\ told' = told
      BY CallFacts DEF OpenAnswered
  <1>2. PICK st \in {"sizing", "open"} :
            /\ sess' = [sess EXCEPT ![t].st = st]
            /\ st = "open" => sess[t].mode # "r"
            /\ c2a' = c2a \/ BrowserSend(FileCmd("FILESTAT", t))
      BY DEF OpenAnswered
  <1>3. /\ sess'[t].st = st /\ sess'[t].mode = sess[t].mode
        /\ sess'[t].data = sess[t].data /\ sess'[t].from = sess[t].from
      BY <1>1, <1>2 DEF Session
  <1>4. Keeping
      BY <1>1, <1>2, QuietRequests, KeepsBySending
  <1>5. Fills(t)
      BY <1>2, <1>3 DEF Fills, OpenFor, Sized, Gathered
  <1> QED BY <1>4, <1>5, KeptContent

LEMMA StatAnsweredContent ==
    ASSUME IInv, IInv', Ordered, Content, NEW t \in Tokens, Move(t), StatAnswered(t)
    PROVE  Content'
  <1>1. /\ sess[t] \in Session /\ sess \in [Tokens -> Session]
        /\ UNCHANGED <<c2a, told>>
      BY CallFacts DEF StatAnswered
  <1>2. PICK st \in {"sizing", "stating"} : Answered(t, st)
      BY DEF StatAnswered
  <1>3. PICK size : size = Answer(t).size
      OBVIOUS
  <1>4. sess' = [sess EXCEPT ![t].st = "open", ![t].size = size] /\ sess[t].st = st
      BY <1>2, <1>3 DEF StatAnswered, Answered
  <1>5. /\ sess'[t].st = "open" /\ sess'[t].size = size
        /\ sess'[t].data = sess[t].data /\ sess'[t].from = sess[t].from
      BY <1>1, <1>4 DEF Session
  <1>6. Keeping /\ Fills(t)
      BY <1>1, <1>2, <1>3, <1>4, <1>5 DEF Keeping, Fills, Sized, Gathered
  <1> QED BY <1>6, KeptContent

LEMMA ReadAnsweredContent ==
    ASSUME IInv, IInv', Ordered, Content, NEW t \in Tokens, Move(t), ReadAnswered(t)
    PROVE  Content'
  <1>1. /\ sess[t] \in Session /\ sess \in [Tokens -> Session] /\ LinkType
        /\ sess[t].st = "reading" /\ Answered(t, "reading") /\ told' = told
        /\ Answer(t) \in Response /\ Answer(t).type = "FILEDATA"
      BY CallFacts, AnsweredFacts, WantedFacts DEF ReadAnswered
  <1>2. PICK data : data = Answer(t).data
      OBVIOUS
  <1> DEFINE s == [sess[t] EXCEPT !.offset = @ + Len(data), !.left = @ - Len(data),
                                  !.data = @ \o data]
             done == [s EXCEPT !.st = "open", !.left = 0]
  <1>3. \/ sess' = [sess EXCEPT ![t] = done] /\ c2a' = c2a
        \/ sess' = [sess EXCEPT ![t] = s] /\ BrowserSend(FileRead(t, s.offset))
      BY <1>2 DEF ReadAnswered
  <1>4. data \in Seq(Nat) /\ Len(data) \in Nat
      BY <1>1, <1>2, ResponseFacts
  <1>5. sess[t].offset + Len(data) \in Nat
      <2>1. sess[t].offset \in Nat
          BY <1>1 DEF Session
      <2> QED BY <1>4, <2>1
  <1>6. /\ s.st = "reading" /\ s.from = sess[t].from /\ s.size = sess[t].size
        /\ s.data = sess[t].data \o data /\ s.offset = sess[t].offset + Len(data)
        /\ done.st = "open" /\ done.from = sess[t].from /\ done.size = sess[t].size
        /\ done.data = sess[t].data \o data /\ done.offset = sess[t].offset + Len(data)
      BY <1>1 DEF Session
  <1> HIDE DEF s, done
  <1>7. /\ sess'[t].from = sess[t].from /\ sess'[t].size = sess[t].size
        /\ sess'[t].data = sess[t].data \o data
        /\ sess'[t].offset = sess[t].offset + Len(data)
      BY <1>1, <1>3, <1>6
  <1>8. Keeping
      BY <1>1, <1>3, <1>5, <1>6, QuietRequests, KeepsBySending
  <1>9. Fills(t)
      BY <1>1, <1>2, <1>7 DEF Fills, Sized, Gathered
  <1> QED BY <1>8, <1>9, KeptContent

\* A call raises: what it has got so far is dropped.
LEMMA RaiseContent ==
    ASSUME IInv, IInv', Ordered, Content, NEW t \in Tokens, Move(t), NEW clean \in BOOLEAN,
           Waiting(t), Raise(t, clean), told' = told
    PROVE  Content'
  <1>1. sess[t] \in Session /\ sess \in [Tokens -> Session] /\ LinkType
      BY CallFacts
  <1>2. PICK new \in {"open", "failed"} :
            /\ new = "open" => sess[t].st \in {"stating", "reading", "writing"}
            /\ sess' = [sess EXCEPT ![t] = [[sess[t] EXCEPT !.left = 0, !.data = <<>>,
                                                           !.clean = clean]
                                               EXCEPT !.st = new]]
      BY DEF Raise
  <1>3. sess'[t].st = new /\ sess'[t].data = <<>> /\ sess'[t].size = sess[t].size
      BY <1>1, <1>2 DEF Session
  <1>4. c2a' = c2a \/ BrowserSend(FileCmd("OK", t))
      BY DEF Raise
  <1>5. Keeping
      BY <1>1, <1>4, QuietRequests, KeepsBySending
  <1>6. Fills(t)
      BY <1>2, <1>3 DEF Fills, OpenFor, OpenStates, Sized, Gathered
  <1> QED BY <1>5, <1>6, KeptContent

LEMMA SkipContent ==
    ASSUME IInv, IInv', Ordered, Content, NEW t \in Tokens, Move(t), Skip(t)
    PROVE  Content'
  <1>1. UNCHANGED <<c2a, sess, told>>
      BY DEF Skip
  <1>2. Keeping /\ Fills(t)
      BY <1>1 DEF Keeping, Fills, Sized, Gathered
  <1> QED BY <1>2, KeptContent

LEMMA AnswersContent ==
    ASSUME IInv, IInv', Ordered, Content, NEW t \in Tokens, Move(t), Answers(t)
    PROVE  Content'
  <1>1. CASE OpenAnswered(t) \/ StatAnswered(t) \/ ReadAnswered(t) \/ WriteAnswered(t)
      BY <1>1, OpenAnsweredContent, StatAnsweredContent, ReadAnsweredContent,
         WriteAnsweredContent
  <1>2. CASE OperationAnswered(t)
      <2>1. PICK st \in {"done", "listed"} :
                /\ sess' = [sess EXCEPT ![t].st = st]
                /\ BrowserSend(FileCmd("OK", t)) /\ told' = told
          <3>1. sess[t] \in Session /\ sess \in [Tokens -> Session]
              BY CallFacts
          <3> QED BY <1>2, <3>1 DEF OperationAnswered
      <2>2. sess'[t].st = st
          BY <2>1, CallFacts DEF Session
      <2>3. sess'[t].st \notin OpenStates
          BY <2>2 DEF OpenStates
      <2> QED BY <2>1, <2>3, AwayContent
  <1>3. CASE ListEntryAnswered(t)
      <2>1. /\ sess[t] \in Session /\ sess \in [Tokens -> Session]
            /\ sess[t].st = "listing" /\ UNCHANGED <<c2a, told>>
            /\ sess' = [sess EXCEPT ![t].left = @ + 1]
          BY <1>3, CallFacts DEF ListEntryAnswered
      <2>2. sess'[t].st = "listing"
          BY <2>1 DEF Session
      <2>3. sess'[t].st \notin OpenStates
          BY <2>2 DEF OpenStates
      <2> QED BY <2>1, <2>3, AwayContent
  <1>4. CASE Refused(t)
      <2>1. sess[t].clean \in BOOLEAN
          BY CallFacts DEF Session
      <2> QED BY <1>4, <2>1, RaiseContent DEF Refused, Received
  <1>5. CASE Skip(t)
      BY <1>5, SkipContent
  <1> QED BY <1>1, <1>2, <1>3, <1>4, <1>5 DEF Answers

LEMMA BrowserContent ==
    ASSUME IInv, IInv', Ordered, Content, BrowserNext, UNCHANGED agentVars
    PROVE  Content'
  <1>1. \A t \in Tokens : Modes(sess[t])
      BY DEF Ordered, Orderly
  <1>2. ASSUME NEW t \in Tokens, Move(t), Answers(t) \/ Calls(t) \/ Timeout(t)
        PROVE  Content'
      <2>1. CASE Answers(t) \/ Calls(t)
          BY <1>2, <2>1, AnswersContent, CallContent
      <2>2. CASE Timeout(t)
          <3>1. FALSE \in BOOLEAN
              OBVIOUS
          <3> QED BY <1>2, <2>2, <3>1, RaiseContent DEF Timeout
      <2> QED BY <1>2, <2>1, <2>2
  <1> QED BY <1>1, <1>2, BrowserMoves DEF BrowserNext

LEMMA InitContent == Init => Content
  <1> SUFFICES ASSUME Init PROVE Content
      OBVIOUS
  <1>1. /\ a2c = <<>> /\ told = <<>>
        /\ sess = [t \in Tokens |-> [st |-> "new", mode |-> "", offset |-> 0, size |-> 0,
                                     left |-> 0, from |-> 0, data |-> <<>>, clean |-> TRUE]]
      BY DEF Init, LinkInit, AgentInit, BrowserInit
  <1>2. DOMAIN a2c = {} /\ DOMAIN told = {}
      <2>1. DOMAIN <<>> = {}
          OBVIOUS
      <2> QED BY <1>1, <2>1
  <1>3. OpenFor({"r"}) = {}
      BY <1>1 DEF OpenFor
  <1> QED BY <1>2, <1>3 DEF Content, Lasting, Informed, Reads

LEMMA StepContent == IInv /\ Ordered /\ Content /\ [Next]_vars => Content'
  <1> SUFFICES ASSUME IInv, Ordered, Content, [Next]_vars PROVE Content'
      OBVIOUS
  <1>1. CASE BrowserNext /\ UNCHANGED agentVars
      <2>1. IInv'
          BY StepIInv
      <2> QED BY <1>1, <2>1, BrowserContent
  <1>2. CASE AgentNext /\ UNCHANGED browserVars
      BY <1>2, AgentNextContent
  <1>3. CASE LinkFailure
      BY <1>3, LostContent
  <1>4. CASE UNCHANGED vars
      <2>1. UNCHANGED <<linkVars, disk, file_queues, sess, told>> /\ full' = full
          BY <1>4 DEF vars, agentVars, browserVars
      <2> QED BY <2>1, SameContent
  <1> QED BY <1>1, <1>2, <1>3, <1>4 DEF Next

\* The requests and the replies of the sessions are in the order in which a file
\* can stand them, and what is known of the file is so.
LEMMA OrderedContent == Spec => [](IInv /\ Ordered /\ Content)
  <1>1. Init => IInv /\ Ordered /\ Content
      BY InitIInv, InitOrdered, InitContent
  <1>2. IInv /\ Ordered /\ Content /\ [Next]_vars => (IInv /\ Ordered /\ Content)'
      BY StepIInv, StepOrdered, StepContent
  <1> QED BY <1>1, <1>2, PTL DEF Spec

LEMMA AckedWrittenHolds == IInv /\ Ordered /\ Content => AckedWritten
  <1> SUFFICES ASSUME IInv, Ordered, Content, NEW t \in OpenFor({"w"}),
                      sess[t].st # "opening", sess[t].clean, ~full
               PROVE  /\ Opened(t)
                      /\ \A off \in DOMAIN told : Keeps(Flushed(file_queues[t]), off)
      BY DEF AckedWritten
  <1>1. t \in Tokens /\ t \in OpenFor({"r", "w"}) /\ Orderly(t)
      BY DEF OpenFor, Ordered
  <1>2. Opened(t)
      BY <1>1 DEF Orderly, OpenAt
  <1>3. \A u \in Tokens : Dirty(u) => u = t
      BY <1>1 DEF Orderly, Undisturbed, Arrived
  <1>4. \A off \in DOMAIN told : Has(Flushed(file_queues[t]), off, told[off])
      BY <1>1, <1>2, <1>3, SeenFile DEF Content, Lasting
  <1> QED BY <1>2, <1>4 DEF Keeps, Has

LEMMA ReadBackHolds == IInv /\ Ordered /\ Content => ReadBack
  <1> SUFFICES ASSUME Content, NEW t \in OpenFor({"r"}),
                      sess[t].st \notin {"opening", "sizing"}, sess[t].clean, ~full,
                      NEW off \in DOMAIN told
               PROVE  /\ off < sess[t].size
                      /\ off - sess[t].from + 1 \in DOMAIN sess[t].data =>
                            sess[t].data[off - sess[t].from + 1] = told[off]
      BY DEF ReadBack
  <1>1. Reads(t)
      BY DEF Content, OpenFor
  <1> QED BY <1>1 DEF Reads

\* A write that is acknowledged is in the file: while a file is open for writing
\* and none of its calls timed out, the agent's handle holds every chunk that
\* write() was told is written, at its offset, unless the disk is full
\* (WSNETFile.write, FILEDATA in process_fileop).
THEOREM AckedAlwaysWritten == Spec => []AckedWritten
  BY OrderedContent, AckedWrittenHolds, PTL

\* What was written and closed reads back: a handle for reading none of whose
\* calls timed out knows of every chunk that was acknowledged to a writer, and
\* returns each at its own offset, although the buffer of the writer's file is
\* written out only by an OK that nobody waits for (WSNETFile.read and close,
\* FILEREAD and OK in the agent).
THEOREM ReadsBack == Spec => []ReadBack
  BY OrderedContent, ReadBackHolds, PTL
=============================================================================
