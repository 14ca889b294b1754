--------------------------- MODULE TcpServerProofs --------------------------
(***************************************************************************)
(* Theorems about TcpServer, for any number of connections, chunks and     *)
(* losses of the WebSocket.                                                *)
(*                                                                         *)
(* One inductive invariant carries them all.  Who owns an entry of the     *)
(* table (Owned), what is said about a connection before and after the     *)
(* agent knows it (Calls, Announced), how the server itself starts (Once), *)
(* and, for the data of both directions, where each chunk is: in the       *)
(* channel, behind the chunks before it, or delivered (InFlow, OutFlow).   *)
(***************************************************************************)
EXTENDS TcpServer, StreamLemmas

\* The task of the connection has run: the connection was announced, unless
\* run() raised before.
Started(c) == run[c] \notin {"none", "accepted"}

Spoken(c) == Started(c) /\ run[c] # "raised"

\* A stop() of the connection is between its send and its end.
Stopping(c) ==
    \/ run[c] = "stopping"
    \/ disp.at \in {"stop", "closestop"} /\ disp.conn = c

Owned ==
    /\ Unique(table)
    /\ \A c \in Conns :
          /\ Contains(table, c) \/ c \in evt => Started(c)
          /\ run[c] \in {"stopping", "done"} => c \in evt
          /\ sock[c] = "closed" => c \in evt \/ run[c] = "raised"
          /\ Contains(table, c) /\ c \in evt /\ wsUp => Stopping(c)
    /\ disp.at \in {"drain", "stop", "closestop"} =>
          disp.conn \in Conns /\ Started(disp.conn)
    /\ disp.at \in {"stop", "closestop"} => disp.conn \in evt

\* Data is only about connections whose task has run.
Begun == {c \in Conns : Started(c)}

Known(ch, S) == \A i \in DOMAIN ch : ch[i].type = "SDSRV" => ch[i].token \in S

Calls ==
    /\ Known(a2c, Begun) /\ Known(c2a, Begun)
    /\ \A c \in Conns :
          /\ callbacks[c] = IF Contains(connections, c) THEN 1 ELSE 0
          /\ Contains(connections, c) => Started(c)

Connects(ch) == {i \in DOMAIN ch : ch[i].type = "CONNECT"}

OneConnect(ch) == \A i, j \in Connects(ch) : i = j

\* There is one CONNECT, and its answer comes before any data.
Once ==
    /\ OneConnect(c2a)
    /\ Connects(c2a) # {} => server = "none" /\ binding # "idle"
    /\ binding = "idle" => server = "none"
    /\ disp.at \in {"close", "closestop"} => server = "registered"
    /\ server \in {"none", "starting"} =>
          a2c = <<>> /\ \A c \in Conns : run[c] = "none"
    /\ binding \in {"idle", "connecting"} =>
          /\ a2c # <<>> => Head(a2c).type # "SDSRV"
          /\ a2c = <<>> /\ wsUp => server \in {"none", "starting"}

\* The browser has heard or will hear of the connection.
Heard(c) ==
    \/ Contains(connections, c)
    \/ \E j \in DOMAIN a2c : a2c[j].token = c

\* It has heard or will hear of its end.
EndHeard(c) ==
    \/ \E i \in DOMAIN in_q[c] : in_q[c][i] = End
    \/ \E i \in DOMAIN a2c : /\ a2c[i] = SDSRV(c, End)
                             /\ \/ Contains(connections, c)
                                \/ \E j \in 1..(i - 1) : a2c[j].token = c
    \/ binding = "failed"

Announced ==
    wsUp => \A c \in Conns : /\ Spoken(c) => Heard(c) \/ binding = "failed"
                             /\ Spoken(c) /\ c \in evt => EndHeard(c)

\* The chunks of a connection, as messages.
Lane(c) == [n \in Pos |-> SDSRV(c, n)]

Inward(c) ==
    /\ taken[c] <= sent[c]
    /\ InOrder(a2c, Lane(c), Range(in_q[c]), taken[c])
    /\ wsUp => Whole(a2c, Lane(c), Range(in_q[c]), taken[c])

InFlow == \A c \in Conns : Inward(c)

\* As long as data for the connection may still be written.
Gate(c) == \/ Contains(table, c) /\ sock[c] # "closed"
           \/ ~Started(c)

Outward(c) ==
    /\ InOrder(c2a, Lane(c), Range(written[c]), appSent[c])
    /\ wsUp => Whole(c2a, Lane(c), Range(written[c]), appSent[c])

OutFlow == \A c \in Conns : Gate(c) => Outward(c)

Inv == /\ TypeOK /\ Owned /\ Calls /\ Once /\ Announced
       /\ InFlow /\ OutFlow

-----------------------------------------------------------------------------
(* Messages.                                                                *)

LEMMA MessageFacts ==
    /\ \A c \in Conns, n \in Nat : SDSRV(c, n) \in Message
    /\ \A c \in Conns : SDSRV(c, End) \in Message
    /\ \A type \in {"CONNECT", "CONTINUE", "OK", "ERR"} : Cmd(type, Server) \in Message
    /\ \A m \in Message : /\ m.type = "SDSRV" => m.token \in Conns /\ m.chunk \in Nat
                          /\ m.type # "SDSRV" => m.token = Server
                          /\ m.type = "SDSRV" => m = SDSRV(m.token, m.chunk)
  BY DEF Message, SDSRV, Cmd, End

LEMMA LaneFacts ==
    ASSUME NEW c \in Conns
    PROVE  /\ IsLane(Lane(c))
           /\ \A m \in Pos : Lane(c)[m] = SDSRV(c, m)
           /\ \A m \in Pos : SDSRV(c, End) # Lane(c)[m]
           /\ \A m \in Pos : \A d, n : d # c => SDSRV(d, n) # Lane(c)[m]
           /\ \A m \in Pos, e \in Message : e.type # "SDSRV" => e # Lane(c)[m]
  BY DEF Lane, IsLane, SDSRV, End, Pos

LEMMA MessageSeq ==
    ASSUME NEW s \in Seq(Message)
    PROVE  /\ s # <<>> => Tail(s) \in Seq(Message) /\ Head(s) \in Message
           /\ \A m \in Message : Append(s, m) \in Seq(Message)
           /\ \A n \in 0..Len(s) : SubSeq(s, 1, n) \in Seq(Message)
  OBVIOUS

\* A message leaves a channel.  If it has a chunk of c, that is delivered.
LEMMA LaneTaken ==
    ASSUME NEW c \in Conns, NEW ch \in Seq(Message), ch # <<>>, NEW q \in Seq(Nat), NEW r,
           NEW n \in Nat, InOrder(ch, Lane(c), Range(q), n),
           \/ /\ Head(ch) = SDSRV(c, Head(ch).chunk)
              /\ \/ r = Append(q, Head(ch).chunk)
                 \/ Head(ch).chunk = End /\ r = q
           \/ /\ \A m \in Pos : Head(ch) # Lane(c)[m]
              /\ r = q
    PROVE  /\ InOrder(Tail(ch), Lane(c), Range(r), n)
           /\ Whole(ch, Lane(c), Range(q), n) => Whole(Tail(ch), Lane(c), Range(r), n)
  <1> DEFINE got == Range(q)
             new == Range(r)
             e == Head(ch)
  <1>1. e \in Message /\ n <= n /\ IsLane(Lane(c)) /\ InOrder(ch, Lane(c), got, n)
      BY MessageSeq, LaneFacts
  <1>2. CASE e = SDSRV(c, e.chunk) /\ e.chunk # End
      <2>1. e.type = "SDSRV"
          BY <1>2 DEF SDSRV
      <2>2. e.chunk \in Pos /\ e.chunk \in Nat /\ e.chunk # 0
          BY <1>1, <1>2, <2>1, MessageFacts DEF Pos, End
      <2>3. e = Lane(c)[e.chunk]
          BY <1>2, <2>2, LaneFacts
      <2>4. r = Append(q, e.chunk)
          BY <1>2, <2>2, <2>3
      <2>5. new \cap Pos = (got \cap Pos) \cup {e.chunk}
          BY <2>2, <2>4, GotMore
      <2> DEFINE m == e.chunk
      <2>6. m \in Pos /\ new \cap Pos = (got \cap Pos) \cup {m} /\ Head(ch) = Lane(c)[m]
          BY <2>2, <2>3, <2>5
      <2> HIDE DEF m, e, got, new
      <2>7. /\ InOrder(Tail(ch), Lane(c), new, n)
            /\ Whole(ch, Lane(c), got, n) => Whole(Tail(ch), Lane(c), new, n)
          BY <1>1, <2>6, LaneLeave
      <2> QED BY <2>7 DEF got, new
  <1>3. CASE \A m \in Pos : e # Lane(c)[m]
      <2>1. new \cap Pos = got \cap Pos
          <3>1. CASE r = q
              BY <3>1
          <3>2. CASE r = Append(q, e.chunk) /\ e = SDSRV(c, e.chunk)
              <4>1. e.type = "SDSRV"
                  BY <3>2 DEF SDSRV
              <4>2. e.chunk \in Nat
                  BY <1>1, <4>1, MessageFacts
              <4>a. \A m \in Pos : Lane(c)[m] = SDSRV(c, m)
                  BY LaneFacts
              <4>b. e.chunk \notin Pos
                  BY <1>3, <3>2, <4>a
              <4>3. e.chunk = 0
                  BY <4>2, <4>b DEF Pos
              <4> QED BY <3>2, <4>2, <4>3, GotMore
          <3> QED BY <3>1, <3>2
      <2> HIDE DEF got, new
      <2>2. /\ InOrder(Tail(ch), Lane(c), got, n)
            /\ Whole(ch, Lane(c), got, n) => Whole(Tail(ch), Lane(c), got, n)
          BY <1>1, <1>3, LaneSkip
      <2>3. /\ InOrder(Tail(ch), Lane(c), new, n)
            /\ Whole(Tail(ch), Lane(c), got, n) => Whole(Tail(ch), Lane(c), new, n)
          BY <1>1, <2>1, <2>2, LaneSame
      <2> QED BY <2>2, <2>3 DEF got, new
  <1>4. e = SDSRV(c, e.chunk) /\ e.chunk = End => \A m \in Pos : e # Lane(c)[m]
      BY LaneFacts
  <1> QED BY <1>2, <1>3, <1>4

LEMMA SendType ==
    ASSUME ServerLinkTypeOK, NEW m \in Message
    PROVE  /\ AgentSend(m) => a2c' \in Seq(Message)
           /\ BrowserSend(m) => c2a' \in Seq(Message)
  BY MessageSeq DEF AgentSend, BrowserSend, ServerLinkTypeOK

LEMMA DispFacts ==
    /\ Idle \in DispState
    /\ \A d \in DispState : /\ d.conn \in Tokens /\ d.chunk \in Nat
                            /\ d.todo \in Seq(Conns)
                            /\ [d EXCEPT !.at = "stop"] \in DispState
    /\ \A c \in Conns, n \in Nat :
          [Idle EXCEPT !.at = "drain", !.conn = c, !.chunk = n] \in DispState
    /\ \A q \in Seq(Conns) : [Idle EXCEPT !.at = "close", !.todo = q] \in DispState
    /\ \A d \in DispState, q \in Seq(Conns) : [d EXCEPT !.todo = q] \in DispState
    /\ \A d \in DispState, c \in Conns, q \in Seq(Conns) :
          [d EXCEPT !.at = "closestop", !.conn = c, !.todo = q] \in DispState
  <1>1. Server \in Tokens /\ Conns \subseteq Tokens /\ <<>> \in Seq(Conns)
      BY ServerAssumption DEF Conns
  <1>2. Idle \in DispState
      BY <1>1 DEF Idle, DispState, End
  <1>3. ASSUME NEW d \in DispState
        PROVE  /\ d.conn \in Tokens /\ d.chunk \in Nat /\ d.todo \in Seq(Conns)
               /\ [d EXCEPT !.at = "stop"] \in DispState
      BY DEF DispState
  <1>4. ASSUME NEW c \in Conns, NEW n \in Nat
        PROVE  [Idle EXCEPT !.at = "drain", !.conn = c, !.chunk = n] \in DispState
      BY <1>1, <1>2 DEF DispState
  <1>5. ASSUME NEW q \in Seq(Conns)
        PROVE  [Idle EXCEPT !.at = "close", !.todo = q] \in DispState
      BY <1>2 DEF DispState
  <1>6. ASSUME NEW d \in DispState, NEW q \in Seq(Conns)
        PROVE  [d EXCEPT !.todo = q] \in DispState
      BY DEF DispState
  <1>7. ASSUME NEW d \in DispState, NEW c \in Conns, NEW q \in Seq(Conns)
        PROVE  [d EXCEPT !.at = "closestop", !.conn = c, !.todo = q] \in DispState
      BY <1>1 DEF DispState
  <1> QED BY <1>2, <1>3, <1>4, <1>5, <1>6, <1>7

\* Taking a key out of a table that does not have it twice.
LEMMA Forget ==
    ASSUME NEW q \in Seq(Conns), Unique(q), NEW c
    PROVE  /\ RemoveFirst(q, c) \in Seq(Conns) /\ Unique(RemoveFirst(q, c))
           /\ \A d : Contains(RemoveFirst(q, c), d) <=> Contains(q, d) /\ d # c
  BY RemoveUnique

LEMMA Register ==
    ASSUME NEW q \in Seq(Conns), NEW c \in Conns
    PROVE  /\ Append(q, c) \in Seq(Conns)
           /\ \A d : Contains(Append(q, c), d) <=> Contains(q, d) \/ d = c
           /\ Unique(q) /\ ~Contains(q, c) => Unique(Append(q, c))
  <1>1. /\ DOMAIN q = 1..Len(q) /\ Len(q) \in Nat
        /\ Append(q, c) \in Seq(Conns) /\ Len(Append(q, c)) = Len(q) + 1
        /\ DOMAIN Append(q, c) = 1..(Len(q) + 1)
        /\ \A i \in 1..Len(q) : Append(q, c)[i] = q[i]
        /\ Append(q, c)[Len(q) + 1] = c
      BY Extend
  <1>2. \A d : Contains(Append(q, c), d) <=> Contains(q, d) \/ d = c
      BY <1>1 DEF Contains
  <1>3. Unique(q) /\ ~Contains(q, c) => Unique(Append(q, c))
      BY <1>1 DEF Unique, Contains
  <1> QED BY <1>1, <1>2, <1>3

-----------------------------------------------------------------------------
(* Type correctness.                                                        *)

LEMMA InitType == Init => TypeOK
  <1> SUFFICES ASSUME Init PROVE TypeOK
      OBVIOUS
  <1>1. ServerLinkTypeOK
      BY DEF Init, LinkInit, ServerLinkTypeOK
  <1>0. <<>> \in Seq(Conns) /\ <<>> \in Seq(Nat)
      OBVIOUS
  <1>2. AgentTypeOK
      BY <1>0, DispFacts DEF Init, AgentInit, AgentTypeOK, ServerState, RunState
  <1>3. BrowserTypeOK
      BY <1>0 DEF Init, BrowserInit, BrowserTypeOK
  <1> QED BY <1>1, <1>2, <1>3 DEF TypeOK

\* stop() is part of several steps.
LEMMA StopType ==
    ASSUME ServerLinkTypeOK, AgentTypeOK, NEW c \in Conns
    PROVE  /\ Stop(c) => /\ a2c' \in Seq(Message) /\ evt' \in SUBSET Conns
                         /\ sock' \in [Conns -> {"none", "open", "closed"}]
           /\ StopAgain(c) => /\ a2c' \in Seq(Message) /\ evt' \in SUBSET Conns
                              /\ sock' \in [Conns -> {"none", "open", "closed"}]
           /\ StopEnd(c) /\ Unique(table) =>
                 /\ table' \in Seq(Conns)
                 /\ sock' \in [Conns -> {"none", "open", "closed"}]
  <1>1. Stop(c) => a2c' \in Seq(Message)
      BY MessageFacts, SendType DEF Stop
  <1>2. StopEnd(c) /\ Unique(table) => table' \in Seq(Conns)
      BY Forget DEF StopEnd, AgentTypeOK
  <1> QED BY <1>1, <1>2 DEF Stop, StopAgain, StopEnd, AgentTypeOK, ServerLinkTypeOK

LEMMA BindType ==
    ASSUME ServerLinkTypeOK, AgentTypeOK, Bind
    PROVE  ServerLinkTypeOK' /\ AgentTypeOK'
  <1>1. Cmd("CONTINUE", Server) \in Message /\ Cmd("ERR", Server) \in Message
      BY MessageFacts
  <1>2. a2c' \in Seq(Message)
      BY <1>1, SendType
      DEF Bind, BindOk, BindFail, BindRegister, BindLost, linkVars, ServerLinkTypeOK
  <1> QED BY <1>2
      DEF Bind, BindOk, BindFail, BindRegister, BindLost, linkVars, peerVars,
          ServerLinkTypeOK, AgentTypeOK, ServerState

LEMMA RunTaskType ==
    ASSUME ServerLinkTypeOK, AgentTypeOK, Unique(table), NEW c \in Conns,
           RunTask(c) \/ Accept(c)
    PROVE  ServerLinkTypeOK' /\ AgentTypeOK'
  <1> USE DEF linkVars, dispVars, peerVars
  <1>1. CASE Accept(c)
      BY <1>1 DEF Accept, ServerLinkTypeOK, AgentTypeOK, RunState
  <1>2. CASE Announce(c)
      <2>1. a2c' \in Seq(Message) /\ table' \in Seq(Conns)
          BY <1>2, MessageFacts, SendType, Register DEF Announce, AgentTypeOK
      <2> QED BY <1>2, <2>1
          DEF Announce, AfterSend, ServerLinkTypeOK, AgentTypeOK, RunState
  <1>3. CASE ReadData(c)
      <2>1. taken[c] + 1 \in Nat
          BY DEF AgentTypeOK
      <2>2. a2c' \in Seq(Message)
          BY <1>3, <2>1, MessageFacts, SendType DEF ReadData
      <2> QED BY <1>3, <2>1, <2>2
          DEF ReadData, AfterSend, ServerLinkTypeOK, AgentTypeOK, RunState
  <1>4. CASE ReadEof(c) \/ ReadCancelled(c)
      <2>1. a2c' \in Seq(Message)
          BY <1>4, MessageFacts, SendType
          DEF ReadEof, ReadCancelled, ServerLinkTypeOK
      <2> QED BY <1>4, <2>1
          DEF ReadEof, ReadCancelled, ServerLinkTypeOK, AgentTypeOK, RunState
  <1>5. CASE RunStop(c)
      BY <1>5, StopType DEF RunStop, ServerLinkTypeOK, AgentTypeOK, RunState
  <1>6. CASE RunStopEnd(c)
      BY <1>6, StopType DEF RunStopEnd, ServerLinkTypeOK, AgentTypeOK, RunState
  <1>7. CASE AnnounceRaises(c)
      <2>1. table' \in Seq(Conns)
          BY <1>7, Register DEF AnnounceRaises, AgentTypeOK
      <2> QED BY <1>7, <2>1
          DEF AnnounceRaises, ServerLinkTypeOK, AgentTypeOK, RunState
  <1> QED BY <1>1, <1>2, <1>3, <1>4, <1>5, <1>6, <1>7 DEF RunTask

LEMMA DispatchType ==
    ASSUME ServerLinkTypeOK, AgentTypeOK, Owned, Dispatch
    PROVE  ServerLinkTypeOK' /\ AgentTypeOK'
  <1> USE DEF linkVars, dispVars, peerVars
  <1>0. /\ disp \in DispState /\ table \in Seq(Conns) /\ Unique(table)
        /\ disp.todo \in Seq(Conns)
      BY DispFacts DEF AgentTypeOK, Owned
  <1>1. CASE DispatchBind
      BY <1>1, MessageSeq
      DEF DispatchBind, Receive, ServerLinkTypeOK, AgentTypeOK, ServerState
  <1>2. ASSUME NEW c \in Conns, DispatchWrite(c)
        PROVE  ServerLinkTypeOK' /\ AgentTypeOK'
      <2> DEFINE n == Head(c2a).chunk
      <2>1. c2a # <<>> /\ Head(c2a) = SDSRV(c, n) /\ c2a' = Tail(c2a)
          BY <1>2 DEF DispatchWrite, Receive
      <2>2. Head(c2a) \in Message /\ Tail(c2a) \in Seq(Message)
          BY <2>1, MessageSeq DEF ServerLinkTypeOK
      <2>3. n \in Nat
          BY <2>1, <2>2, MessageFacts DEF SDSRV
      <2> HIDE DEF n
      <2>4. disp' \in DispState
          BY <1>2, <2>3, DispFacts DEF DispatchWrite, n
      <2>5. Append(written[c], n) \in Seq(Nat)
          BY <2>3 DEF AgentTypeOK
      <2>6. written' \in [Conns -> Seq(Nat)]
          BY <1>2, <2>5 DEF DispatchWrite, AgentTypeOK, n
      <2> QED BY <1>2, <2>1, <2>2, <2>4, <2>6
          DEF DispatchWrite, ServerLinkTypeOK, AgentTypeOK
  <1>3. ASSUME NEW c \in Conns, DispatchUnknown(c)
        PROVE  ServerLinkTypeOK' /\ AgentTypeOK'
      <2>1. a2c' \in Seq(Message) /\ c2a' \in Seq(Message)
          BY <1>3, MessageFacts, SendType, MessageSeq
          DEF DispatchUnknown, Receive, ServerLinkTypeOK
      <2> QED BY <1>3, <2>1 DEF DispatchUnknown, ServerLinkTypeOK, AgentTypeOK
  <1>4. CASE DrainDone
      BY <1>4, DispFacts DEF DrainDone, ServerLinkTypeOK, AgentTypeOK
  <1>5. CASE DrainStop
      <2>1. disp.conn \in Conns
          BY <1>5 DEF DrainStop, Owned
      <2>2. disp' \in DispState
          BY <1>0, <1>5, DispFacts DEF DrainStop
      <2> QED BY <1>5, <2>1, <2>2, StopType
          DEF DrainStop, ServerLinkTypeOK, AgentTypeOK
  <1>6. CASE DrainStopEnd
      <2>1. disp.conn \in Conns
          BY <1>6 DEF DrainStopEnd, Owned
      <2> QED BY <1>0, <1>6, <2>1, StopType, DispFacts
          DEF DrainStopEnd, ServerLinkTypeOK, AgentTypeOK
  <1>7. CASE DispatchClose \/ DispatchEarlyOk
      <2>1. c2a' \in Seq(Message)
          BY <1>7, MessageSeq DEF DispatchClose, DispatchEarlyOk, Receive, ServerLinkTypeOK
      <2>2. disp' \in DispState
          BY <1>0, <1>7, DispFacts DEF DispatchClose, DispatchEarlyOk
      <2> QED BY <1>7, <2>1, <2>2
          DEF DispatchClose, DispatchEarlyOk, ServerLinkTypeOK, AgentTypeOK
  <1>8. CASE CloseNext
      <2> DEFINE c == Head(disp.todo)
      <2>1. c \in Conns /\ Tail(disp.todo) \in Seq(Conns)
          BY <1>0, <1>8 DEF CloseNext
      <2> HIDE DEF c
      <2>2. disp' \in DispState
          <3>1. /\ [disp EXCEPT !.todo = Tail(disp.todo)] \in DispState
                /\ [disp EXCEPT !.at = "closestop", !.conn = c, !.todo = Tail(disp.todo)]
                      \in DispState
              BY <1>0, <2>1, DispFacts
          <3>2. \/ disp' = [disp EXCEPT !.at = "closestop", !.conn = c,
                                       !.todo = Tail(disp.todo)]
                \/ disp' = [disp EXCEPT !.todo = Tail(disp.todo)]
              BY <1>8 DEF CloseNext, c
          <3> QED BY <3>1, <3>2
      <2>3. /\ a2c' \in Seq(Message) /\ evt' \in SUBSET Conns
            /\ sock' \in [Conns -> {"none", "open", "closed"}]
          BY <1>8, <2>1, StopType DEF CloseNext, c
      <2> QED BY <1>8, <2>2, <2>3 DEF CloseNext, ServerLinkTypeOK, AgentTypeOK
  <1>9. CASE CloseStopEnd
      <2>1. disp.conn \in Conns
          BY <1>9 DEF CloseStopEnd, Owned
      <2>2. disp' \in DispState
          BY <1>0, <1>9, DispFacts DEF CloseStopEnd
      <2> QED BY <1>0, <1>9, <2>1, <2>2, StopType
          DEF CloseStopEnd, ServerLinkTypeOK, AgentTypeOK
  <1>10. CASE CloseKeyError \/ CloseDone
      BY <1>10, DispFacts
      DEF CloseKeyError, CloseDone, ServerLinkTypeOK, AgentTypeOK, ServerState
  <1> QED BY <1>1, <1>2, <1>3, <1>4, <1>5, <1>6, <1>7, <1>8, <1>9, <1>10 DEF Dispatch

LEMMA AgentType ==
    ASSUME ServerLinkTypeOK, AgentTypeOK, Owned, AgentNext
    PROVE  ServerLinkTypeOK' /\ AgentTypeOK'
  <1>1. CASE Terminate
      BY <1>1 DEF Terminate, linkVars, peerVars, ServerLinkTypeOK, AgentTypeOK, ServerState
  <1>2. ASSUME NEW c \in Conns, PeerSend(c) \/ PeerClose(c)
        PROVE  ServerLinkTypeOK' /\ AgentTypeOK'
      <2>1. sent' \in [Conns -> Nat]
          <3>1. sent' = sent \/ sent' = [sent EXCEPT ![c] = sent[c] + 1]
              BY <1>2 DEF PeerSend, PeerClose
          <3>2. sent \in [Conns -> Nat] /\ sent[c] + 1 \in Nat
              BY DEF AgentTypeOK
          <3> QED BY <3>1, <3>2
      <2>2. peer' \in [Conns -> {"open", "eof", "reset"}]
          <3>1. \/ peer' = peer
                \/ peer' = [peer EXCEPT ![c] = "eof"]
                \/ peer' = [peer EXCEPT ![c] = "reset"]
              BY <1>2 DEF PeerSend, PeerClose
          <3> QED BY <3>1 DEF AgentTypeOK
      <2> QED BY <1>2, <2>1, <2>2
          DEF PeerSend, PeerClose, linkVars, dispVars, ServerLinkTypeOK, AgentTypeOK
  <1>3. Unique(table)
      BY DEF Owned
  <1> QED BY <1>1, <1>2, <1>3, BindType, DispatchType, RunTaskType DEF AgentNext

\* The empty messages of a server that is closed.
LEMMA EndsFacts ==
    ASSUME NEW q \in Seq(Conns)
    PROVE  [i \in DOMAIN q |-> SDSRV(q[i], End)] \in Seq(Message)
  <1>1. DOMAIN q = 1..Len(q) /\ Len(q) \in Nat /\ \A i \in 1..Len(q) : q[i] \in Conns
      OBVIOUS
  <1>2. \A i \in 1..Len(q) : SDSRV(q[i], End) \in Message
      BY <1>1, MessageFacts
  <1> QED BY <1>1, <1>2

LEMMA BrowserType ==
    ASSUME ServerLinkTypeOK, BrowserTypeOK, BrowserNext
    PROVE  ServerLinkTypeOK' /\ BrowserTypeOK'
  <1>1. CASE SendConnect
      BY <1>1, MessageFacts, SendType
      DEF SendConnect, ServerLinkTypeOK, BrowserTypeOK
  <1>2. CASE FirstReply
      BY <1>2, MessageSeq DEF FirstReply, ServerLinkTypeOK, BrowserTypeOK
  <1>3. ASSUME NEW c \in Conns, NewConnection(c) \/ KnownConnection(c)
        PROVE  ServerLinkTypeOK' /\ BrowserTypeOK'
      <2> DEFINE n == Head(a2c).chunk
      <2>1. /\ a2c # <<>> /\ Head(a2c).type = "SDSRV" /\ a2c' = Tail(a2c)
            /\ UNCHANGED <<c2a, wsUp>>
          BY <1>3 DEF NewConnection, KnownConnection, HandleIn
      <2>2. a2c' \in Seq(Message) /\ n \in Nat
          BY <2>1, MessageSeq, MessageFacts DEF ServerLinkTypeOK
      <2> HIDE DEF n
      <2>3. Append(in_q[c], n) \in Seq(Nat)
          BY <2>2 DEF BrowserTypeOK
      <2>4. in_q' \in [Conns -> Seq(Nat)]
          <3>1. in_q' = [in_q EXCEPT ![c] = IF n = End THEN @ ELSE Append(@, n)]
                \/ in_q' = [in_q EXCEPT ![c] = Append(@, n)]
              BY <1>3 DEF NewConnection, KnownConnection, n
          <3> QED BY <2>3, <3>1 DEF BrowserTypeOK
      <2>5. callbacks' \in [Conns -> Nat]
          <3>1. callbacks' = callbacks \/ callbacks' = [callbacks EXCEPT ![c] = callbacks[c] + 1]
              BY <1>3 DEF NewConnection, KnownConnection
          <3>2. callbacks \in [Conns -> Nat] /\ callbacks[c] + 1 \in Nat
              BY DEF BrowserTypeOK
          <3> QED BY <3>1, <3>2
      <2>6. connections' \in Seq(Conns)
          BY <1>3, Register DEF NewConnection, KnownConnection, BrowserTypeOK
      <2> QED BY <1>3, <2>1, <2>2, <2>4, <2>5, <2>6
          DEF NewConnection, KnownConnection, ServerLinkTypeOK, BrowserTypeOK
  <1>4. CASE CloseServer
      <2> DEFINE ends == [i \in DOMAIN connections |-> SDSRV(connections[i], End)]
      <2>1. ends \in Seq(Message)
          BY EndsFacts DEF BrowserTypeOK
      <2>2. Cmd("OK", Server) \in Message
          BY MessageFacts
      <2>3. c2a' = IF wsUp THEN Append(c2a \o ends, Cmd("OK", Server)) ELSE c2a
          BY <1>4 DEF CloseServer
      <2> HIDE DEF ends
      <2>4. c2a \o ends \in Seq(Message)
          BY <2>1 DEF ServerLinkTypeOK
      <2>5. c2a' \in Seq(Message)
          BY <2>2, <2>3, <2>4 DEF ServerLinkTypeOK
      <2>6. \A c \in Conns : Append(in_q[c], End) \in Seq(Nat)
          BY DEF BrowserTypeOK, End
      <2>7. in_q' \in [Conns -> Seq(Nat)]
          BY <1>4, <2>6 DEF CloseServer, BrowserTypeOK
      <2> QED BY <1>4, <2>5, <2>7 DEF CloseServer, ServerLinkTypeOK, BrowserTypeOK
  <1>5. ASSUME NEW c \in Conns, Write(c)
        PROVE  ServerLinkTypeOK' /\ BrowserTypeOK'
      <2>1. appSent[c] + 1 \in Nat
          BY DEF BrowserTypeOK
      <2>2. c2a' \in Seq(Message)
          BY <1>5, <2>1, MessageFacts, SendType DEF Write
      <2> QED BY <1>5, <2>1, <2>2 DEF Write, ServerLinkTypeOK, BrowserTypeOK
  <1>6. ASSUME NEW c \in Conns, CloseWriter(c)
        PROVE  ServerLinkTypeOK' /\ BrowserTypeOK'
      BY <1>6, MessageFacts, SendType DEF CloseWriter, ServerLinkTypeOK, BrowserTypeOK
  <1> QED BY <1>1, <1>2, <1>3, <1>4, <1>5, <1>6 DEF BrowserNext, HandleInTask

LEMMA TypeStep == Inv /\ [Next]_vars => TypeOK'
  <1> SUFFICES ASSUME TypeOK, Owned, [Next]_vars
               PROVE  TypeOK'
      BY DEF Inv
  <1>1. UNCHANGED agentVars => AgentTypeOK'
      BY DEF TypeOK, agentVars, AgentTypeOK
  <1>2. UNCHANGED browserVars => BrowserTypeOK'
      BY DEF TypeOK, browserVars, BrowserTypeOK
  <1>3. CASE AgentNext /\ UNCHANGED browserVars
      BY <1>2, <1>3, AgentType DEF TypeOK
  <1>4. CASE BrowserNext /\ UNCHANGED agentVars
      BY <1>1, <1>4, BrowserType DEF TypeOK
  <1>5. CASE LinkFailure
      <2>1. ServerLinkTypeOK'
          BY <1>5, MessageSeq DEF LinkFailure, WsLost, TypeOK, ServerLinkTypeOK
      <2> QED BY <1>1, <1>2, <1>5, <2>1 DEF LinkFailure, TypeOK
  <1>6. CASE UNCHANGED vars
      BY <1>1, <1>2, <1>6 DEF vars, linkVars, TypeOK, ServerLinkTypeOK
  <1> QED BY <1>3, <1>4, <1>5, <1>6 DEF Next

-----------------------------------------------------------------------------
(* Who removes an entry of the table.                                       *)

LEMMA OwnedInit == Init => Owned
  BY DEF Init, LinkInit, AgentInit, Owned, Idle, Unique, Contains

\* stop() in a step of the connection's task or of process_incoming.
LEMMA OwnedRun ==
    ASSUME TypeOK, Owned, NEW c \in Conns, Accept(c) \/ RunTask(c)
    PROVE  Owned'
  <1> USE DEF linkVars, dispVars, peerVars, Started, Stopping
  <1>0. /\ table \in Seq(Conns) /\ run \in [Conns -> RunState] /\ evt \in SUBSET Conns
        /\ sock \in [Conns -> {"none", "open", "closed"}] /\ disp \in DispState
      BY DEF TypeOK, AgentTypeOK
  <1>1. CASE Accept(c)
      BY <1>0, <1>1 DEF Accept, Owned
  <1>2. CASE Announce(c)
      <2>1. /\ Unique(table') /\ \A d : Contains(table', d) <=> Contains(table, d) \/ d = c
            /\ run[c] = "accepted" /\ run'[c] \in {"reading", "finally"}
            /\ \A d \in Conns : d # c => run'[d] = run[d]
            /\ UNCHANGED <<evt, sock, disp, wsUp>>
          BY <1>0, <1>2, Register DEF Announce, AfterSend, Owned
      <2> QED BY <1>0, <2>1 DEF Owned
  <1>3. CASE ReadData(c) \/ ReadEof(c) \/ ReadCancelled(c)
      <2>1. /\ run[c] = "reading" /\ run'[c] \in {"reading", "finally"}
            /\ \A d \in Conns : d # c => run'[d] = run[d]
            /\ UNCHANGED <<evt, sock, disp, wsUp, table>>
          BY <1>0, <1>3 DEF ReadData, ReadEof, ReadCancelled, AfterSend
      <2> QED BY <1>0, <2>1 DEF Owned
  <1>4. CASE RunStop(c)
      <2>1. /\ run[c] = "finally" /\ run' = [run EXCEPT ![c] = run'[c]]
            /\ UNCHANGED <<disp, wsUp, table>>
            /\ \/ Stop(c) /\ run'[c] = "stopping"
               \/ StopAgain(c) /\ run'[c] = "done"
          BY <1>0, <1>4 DEF RunStop
      <2>2. CASE Stop(c) /\ run'[c] = "stopping"
          BY <1>0, <2>1, <2>2 DEF Owned, Stop
      <2>3. CASE StopAgain(c) /\ run'[c] = "done"
          BY <1>0, <2>1, <2>3 DEF Owned, StopAgain
      <2> QED BY <2>1, <2>2, <2>3
  <1>5. CASE RunStopEnd(c)
      <2>1. /\ run[c] = "stopping" /\ run' = [run EXCEPT ![c] = "done"]
            /\ UNCHANGED <<disp, wsUp, evt>>
            /\ sock' = [sock EXCEPT ![c] = "closed"]
            /\ table' = RemoveFirst(table, c) \/ (~wsUp /\ table' = table)
          BY <1>5 DEF RunStopEnd, StopEnd
      <2>2. Unique(table) /\ Unique(RemoveFirst(table, c))
            /\ \A d : Contains(RemoveFirst(table, c), d) <=> Contains(table, d) /\ d # c
          BY <1>0, Forget DEF Owned
      <2> QED BY <1>0, <2>1, <2>2 DEF Owned
  <1>6. CASE AnnounceRaises(c)
      <2>1. /\ Unique(table') /\ \A d : Contains(table', d) <=> Contains(table, d) \/ d = c
            /\ run[c] = "accepted" /\ run'[c] = "raised"
            /\ \A d \in Conns : d # c => run'[d] = run[d] /\ sock'[d] = sock[d]
            /\ UNCHANGED <<evt, disp, wsUp>>
          BY <1>0, <1>6, Register DEF AnnounceRaises, Owned
      <2> QED BY <1>0, <2>1 DEF Owned
  <1> QED BY <1>1, <1>2, <1>3, <1>4, <1>5, <1>6 DEF RunTask

LEMMA OwnedDispatch ==
    ASSUME TypeOK, Owned, Calls, Dispatch
    PROVE  Owned'
  <1> USE DEF linkVars, dispVars, peerVars, Started, Stopping
  <1>0. /\ table \in Seq(Conns) /\ run \in [Conns -> RunState] /\ evt \in SUBSET Conns
        /\ sock \in [Conns -> {"none", "open", "closed"}] /\ disp \in DispState
        /\ c2a \in Seq(Message)
      BY DEF TypeOK, AgentTypeOK, ServerLinkTypeOK
  <1>1. CASE DispatchBind \/ DispatchEarlyOk \/ \E c \in Conns : DispatchUnknown(c)
      BY <1>1 DEF DispatchBind, DispatchEarlyOk, DispatchUnknown, Owned
  <1>2. ASSUME NEW c \in Conns, DispatchWrite(c)
        PROVE  Owned'
      <2>1. /\ Contains(table, c) /\ disp.at = "idle"
            /\ disp'.at = "drain" /\ disp'.conn = c
            /\ UNCHANGED <<table, run, evt, sock, wsUp>>
          BY <1>2 DEF DispatchWrite, Receive, Idle
      <2> QED BY <1>0, <2>1 DEF Owned
  <1>3. CASE DrainDone \/ DispatchClose \/ CloseKeyError \/ CloseDone
      <2>1. /\ disp.at \in {"idle", "drain", "close"} /\ disp'.at \in {"idle", "close"}
            /\ UNCHANGED <<table, run, evt, sock, wsUp>>
          <3>1. Idle.at = "idle" /\ [Idle EXCEPT !.at = "close", !.todo = table].at = "close"
              BY DEF Idle
          <3> QED BY <1>3, <3>1
                  DEF DrainDone, DispatchClose, CloseKeyError, CloseDone, Receive
      <2> QED BY <1>0, <2>1 DEF Owned
  <1>4. CASE DrainStop
      <2> DEFINE c == disp.conn
      <2>1. /\ c \in Conns /\ Started(c) /\ disp.at = "drain"
            /\ UNCHANGED <<table, run, wsUp>>
            /\ \/ Stop(c) /\ disp'.at = "stop" /\ disp'.conn = c
               \/ StopAgain(c) /\ disp'.at = "idle"
          BY <1>0, <1>4 DEF DrainStop, Owned, Idle, DispState
      <2> HIDE DEF c
      <2>2. CASE Stop(c) /\ disp'.at = "stop" /\ disp'.conn = c
          BY <1>0, <2>1, <2>2 DEF Owned, Stop
      <2>3. CASE StopAgain(c) /\ disp'.at = "idle"
          BY <1>0, <2>1, <2>3 DEF Owned, StopAgain
      <2> QED BY <2>1, <2>2, <2>3
  <1>5. CASE DrainStopEnd \/ CloseStopEnd
      <2> DEFINE c == disp.conn
      <2>1. /\ c \in Conns /\ c \in evt /\ Started(c)
            /\ disp.at \in {"stop", "closestop"} /\ disp'.at \in {"idle", "close"}
            /\ UNCHANGED <<run, evt, wsUp>>
            /\ sock' = [sock EXCEPT ![c] = "closed"]
            /\ table' = RemoveFirst(table, c) \/ (~wsUp /\ table' = table)
          <3>1. Idle.at = "idle" /\ [Idle EXCEPT !.at = "close", !.todo = disp.todo].at = "close"
              BY DEF Idle
          <3>2. /\ disp.at \in {"stop", "closestop"} /\ disp'.at \in {"idle", "close"}
                /\ UNCHANGED <<run, evt, wsUp>>
                /\ StopEnd(c)
              BY <1>5, <3>1 DEF DrainStopEnd, CloseStopEnd
          <3>3. c \in Conns /\ c \in evt /\ Started(c)
              BY <3>2 DEF Owned
          <3> QED BY <3>2, <3>3 DEF StopEnd
      <2>2. Unique(table) /\ Unique(RemoveFirst(table, c))
            /\ \A d : Contains(RemoveFirst(table, c), d) <=> Contains(table, d) /\ d # c
          BY <1>0, Forget DEF Owned
      <2>3. \A d \in Conns : Contains(table', d) /\ d \in evt /\ wsUp => run[d] = "stopping"
          BY <2>1, <2>2 DEF Owned
      <2> HIDE DEF c
      <2> QED BY <1>0, <2>1, <2>2, <2>3 DEF Owned
  <1>6. CASE CloseNext
      <2> DEFINE c == Head(disp.todo)
      <2>1. c \in Conns
          BY <1>0, <1>6 DEF CloseNext, DispState
      <2>2. /\ Contains(table, c) /\ Started(c) /\ disp.at = "close"
            /\ UNCHANGED <<table, run, wsUp>>
            /\ \/ Stop(c) /\ disp'.at = "closestop" /\ disp'.conn = c
               \/ StopAgain(c) /\ disp'.at = "close"
          BY <1>0, <1>6, <2>1 DEF CloseNext, Owned, DispState
      <2> HIDE DEF c
      <2>3. CASE Stop(c) /\ disp'.at = "closestop" /\ disp'.conn = c
          BY <1>0, <2>1, <2>2, <2>3 DEF Owned, Stop
      <2>4. CASE StopAgain(c) /\ disp'.at = "close"
          BY <1>0, <2>1, <2>2, <2>4 DEF Owned, StopAgain
      <2> QED BY <2>2, <2>3, <2>4
  <1> QED BY <1>1, <1>2, <1>3, <1>4, <1>5, <1>6 DEF Dispatch

LEMMA OwnedStep == Inv /\ [Next]_vars => Owned'
  <1> SUFFICES ASSUME TypeOK, Owned, Calls, [Next]_vars
               PROVE  Owned'
      BY DEF Inv
  <1> USE DEF Started, Stopping
  <1>1. CASE \E c \in Conns : Accept(c) \/ RunTask(c)
      BY <1>1, OwnedRun
  <1>2. CASE Dispatch
      BY <1>2, OwnedDispatch
  <1>3. CASE Bind \/ Terminate \/ \E c \in Conns : PeerSend(c) \/ PeerClose(c)
      <2>1. UNCHANGED <<table, run, evt, sock, disp, wsUp>>
          BY <1>3 DEF Bind, BindOk, BindFail, BindRegister, BindLost, Terminate,
                      PeerSend, PeerClose, linkVars, dispVars
      <2> QED BY <2>1 DEF Owned
  <1>4. CASE (BrowserNext /\ UNCHANGED agentVars) \/ UNCHANGED vars
      <2>1. UNCHANGED <<agentVars, wsUp>>
          BY <1>4 DEF BrowserNext, SendConnect, HandleInTask, CloseServer, FirstReply,
                      NewConnection, KnownConnection, Write, CloseWriter, vars, linkVars
      <2> QED BY <2>1 DEF Owned, agentVars
  <1>5. CASE LinkFailure
      <2>1. UNCHANGED agentVars /\ ~wsUp'
          BY <1>5 DEF LinkFailure, WsLost
      <2> QED BY <2>1 DEF Owned, agentVars
  <1> QED BY <1>1, <1>2, <1>3, <1>4, <1>5 DEF Next, AgentNext

-----------------------------------------------------------------------------
(* What a step of the agent says to the browser, and what it hears.         *)

SameSpoken(S) == \A d \in S : Spoken(d)' <=> Spoken(d)

Quiet == UNCHANGED <<a2c, evt, taken>> /\ SameSpoken(Conns)

\* An empty message: announcement, end, or answer to data for no connection.
Says(c) ==
    /\ AgentSend(SDSRV(c, End)) /\ Started(c)' /\ UNCHANGED taken
    /\ evt' = evt \/ (evt' = evt \cup {c} /\ Started(c))
    /\ SameSpoken(Conns \ {c})

Reads(c) ==
    /\ AgentSend(SDSRV(c, taken[c] + 1)) /\ Started(c) /\ taken[c] < sent[c]
    /\ taken' = [taken EXCEPT ![c] = @ + 1]
    /\ UNCHANGED <<evt, sent>> /\ SameSpoken(Conns)

Answers ==
    /\ \E type \in {"CONTINUE", "ERR"} : AgentSend(Cmd(type, Server))
    /\ server = "starting" /\ server' \in {"listening", "failed"}
    /\ UNCHANGED <<evt, taken, run>>

LEMMA AgentSays ==
    ASSUME TypeOK, Owned, Calls, AgentNext
    PROVE  /\ wsUp' = wsUp
           /\ \A c \in Conns : /\ Started(c) => Started(c)'
                               /\ run[c] = "raised" => run'[c] = "raised"
                               /\ sent[c] <= sent'[c]
           /\ Quiet \/ Answers \/ \E c \in Conns : Says(c) \/ Reads(c)
  <1> USE DEF Started, Spoken, SameSpoken, linkVars, dispVars, peerVars
  <1> DEFINE Effect == /\ wsUp' = wsUp
                       /\ \A c \in Conns : /\ Started(c) => Started(c)'
                                           /\ run[c] = "raised" => run'[c] = "raised"
                                           /\ sent[c] <= sent'[c]
                       /\ Quiet \/ Answers \/ \E c \in Conns : Says(c) \/ Reads(c)
  <1>0. /\ run \in [Conns -> RunState] /\ evt \in SUBSET Conns
        /\ sent \in [Conns -> Nat] /\ c2a \in Seq(Message) /\ disp \in DispState
      BY DEF TypeOK, AgentTypeOK, ServerLinkTypeOK
  <1>a. \A c \in Conns : sent[c] <= sent[c]
      BY <1>0
  <1>1. CASE \E c \in Conns : Accept(c)
      BY <1>0, <1>a, <1>1 DEF Accept, Quiet
  <1>2. ASSUME NEW c \in Conns, Announce(c) PROVE Effect
      <2>1. Says(c)
          BY <1>0, <1>2 DEF Announce, Says, AfterSend
      <2> QED BY <1>0, <1>a, <1>2, <2>1 DEF Announce, AfterSend
  <1>3. ASSUME NEW c \in Conns, ReadData(c) PROVE Effect
      <2>1. Reads(c)
          BY <1>0, <1>3 DEF ReadData, Reads, AfterSend
      <2> QED BY <1>0, <1>a, <1>3, <2>1 DEF ReadData, AfterSend
  <1>4. ASSUME NEW c \in Conns, ReadEof(c) PROVE Effect
      <2>1. Says(c)
          BY <1>0, <1>4 DEF ReadEof, Says
      <2> QED BY <1>0, <1>a, <1>4, <2>1 DEF ReadEof
  <1>5. ASSUME NEW c \in Conns, ReadCancelled(c) \/ RunStopEnd(c) PROVE Effect
      BY <1>0, <1>a, <1>5 DEF ReadCancelled, RunStopEnd, Quiet
  <1>b. ASSUME NEW c \in Conns, AnnounceRaises(c) PROVE Effect
      BY <1>0, <1>a, <1>b DEF AnnounceRaises, Quiet
  <1>6. ASSUME NEW c \in Conns, RunStop(c) PROVE Effect
      <2>1. /\ run[c] = "finally" /\ UNCHANGED <<c2a, wsUp, dispVars, table, peerVars, taken>>
            /\ \/ Stop(c) /\ run' = [run EXCEPT ![c] = "stopping"]
               \/ StopAgain(c) /\ run' = [run EXCEPT ![c] = "done"]
          BY <1>6 DEF RunStop
      <2>2. CASE Stop(c) /\ run' = [run EXCEPT ![c] = "stopping"]
          <3>1. Says(c)
              BY <1>0, <2>1, <2>2 DEF Stop, Says
          <3> QED BY <1>0, <1>a, <2>1, <2>2, <3>1
      <2>3. CASE StopAgain(c) /\ run' = [run EXCEPT ![c] = "done"]
          BY <1>0, <1>a, <2>1, <2>3 DEF StopAgain, Quiet
      <2> QED BY <2>1, <2>2, <2>3
  <1>7. ASSUME NEW c \in Conns, PeerSend(c) \/ PeerClose(c) PROVE Effect
      BY <1>0, <1>a, <1>7 DEF PeerSend, PeerClose, Quiet
  <1>8. CASE BindOk \/ BindFail
      <2>1. Answers
          BY <1>8 DEF BindOk, BindFail, Answers
      <2> QED BY <1>a, <1>8, <2>1 DEF BindOk, BindFail
  <1>9. CASE \/ BindRegister \/ BindLost \/ Terminate
             \/ DispatchBind \/ DispatchClose \/ DispatchEarlyOk
             \/ \E c \in Conns : DispatchWrite(c)
      BY <1>0, <1>a, <1>9
      DEF BindRegister, BindLost, Terminate, DispatchBind, DispatchClose, DispatchEarlyOk,
          DispatchWrite, Quiet
  <1>10. CASE DrainDone \/ DrainStopEnd \/ CloseStopEnd \/ CloseKeyError \/ CloseDone
      BY <1>0, <1>a, <1>10
      DEF DrainDone, DrainStopEnd, CloseStopEnd, CloseKeyError, CloseDone, Quiet
  <1>11. ASSUME NEW c \in Conns, DispatchUnknown(c) PROVE Effect
      <2>1. Started(c)
          <3>1. Head(c2a) = SDSRV(c, Head(c2a).chunk) /\ 1 \in DOMAIN c2a
                /\ Head(c2a) = c2a[1]
              BY <1>0, <1>11, Shift DEF DispatchUnknown, Receive
          <3>2. c2a[1].type = "SDSRV" /\ c2a[1].token = c
              BY <3>1 DEF SDSRV
          <3>3. c2a[1].type = "SDSRV" => Started(c2a[1].token)
              BY <3>1 DEF Calls, Known, Begun
          <3> QED BY <3>2, <3>3
      <2>2. Says(c)
          BY <1>0, <1>11, <2>1 DEF DispatchUnknown, Says
      <2> QED BY <1>0, <1>a, <1>11, <2>1, <2>2 DEF DispatchUnknown
  <1>12. ASSUME NEW c \in Conns, Started(c), Stop(c) \/ StopAgain(c),
                UNCHANGED <<wsUp, run, sent, taken>>
         PROVE  Effect
      <2>1. CASE Stop(c)
          <3>1. Says(c)
              BY <1>0, <1>12, <2>1 DEF Stop, Says
          <3> QED BY <1>0, <1>a, <1>12, <3>1
      <2>2. CASE StopAgain(c)
          BY <1>0, <1>a, <1>12, <2>2 DEF StopAgain, Quiet
      <2> QED BY <1>12, <2>1, <2>2
  <1>13. CASE DrainStop
      <2> DEFINE c == disp.conn
      <2>1. /\ c \in Conns /\ Started(c)
            /\ Stop(c) \/ StopAgain(c)
            /\ UNCHANGED <<wsUp, run, sent, taken>>
          BY <1>13 DEF DrainStop, Owned
      <2> HIDE DEF c
      <2> QED BY <1>12, <2>1
  <1>14. CASE CloseNext
      <2> DEFINE c == Head(disp.todo)
      <2>1. c \in Conns
          BY <1>0, <1>14 DEF CloseNext, DispState
      <2>2. /\ Started(c)
            /\ Stop(c) \/ StopAgain(c)
            /\ UNCHANGED <<wsUp, run, sent, taken>>
          BY <1>14, <2>1 DEF CloseNext, Owned
      <2> HIDE DEF c
      <2> QED BY <1>12, <2>1, <2>2
  <1> QED BY <1>1, <1>2, <1>3, <1>4, <1>5, <1>b, <1>6, <1>7, <1>8, <1>9, <1>10, <1>11,
             <1>13, <1>14
          DEF AgentNext, Bind, Dispatch, RunTask

-----------------------------------------------------------------------------
(* The data that peers send.                                                *)

LEMMA InFlowInit == Init => InFlow
  <1> SUFFICES ASSUME Init, NEW c \in Conns PROVE Inward(c)
      BY DEF InFlow
  <1>1. a2c = <<>> /\ in_q[c] = <<>> /\ taken[c] = 0 /\ sent[c] = 0
      BY DEF Init, LinkInit, AgentInit, BrowserInit
  <1>2. Range(in_q[c]) = {}
      BY <1>1 DEF Range
  <1> QED BY <1>1, <1>2 DEF Inward, InOrder, Whole

\* A message that is no data of c enters.
LEMMA InwardOther ==
    ASSUME TypeOK, NEW c \in Conns, Inward(c), NEW e \in Message,
           \A m \in Pos : e # Lane(c)[m], AgentSend(e),
           wsUp' = wsUp, taken'[c] = taken[c], in_q'[c] = in_q[c], sent[c] <= sent'[c],
           sent'[c] \in Nat
    PROVE  Inward(c)'
  <1>1. a2c \in Seq(Message) /\ taken[c] \in Nat /\ sent[c] \in Nat
      BY DEF TypeOK, ServerLinkTypeOK, AgentTypeOK
  <1>2. InOrder(a2c, Lane(c), Range(in_q[c]), taken[c])
      BY DEF Inward
  <1>3. /\ InOrder(Append(a2c, e), Lane(c), Range(in_q[c]), taken[c])
        /\ Whole(a2c, Lane(c), Range(in_q[c]), taken[c])
              => Whole(Append(a2c, e), Lane(c), Range(in_q[c]), taken[c])
      BY <1>1, <1>2, LaneOther
  <1>4. a2c' = Append(a2c, e) \/ (a2c' = a2c /\ ~wsUp)
      BY DEF AgentSend
  <1>5. taken'[c] <= sent'[c]
      BY <1>1 DEF Inward
  <1>6. Lane(c)' = Lane(c)
      BY DEF Lane, SDSRV
  <1> QED BY <1>2, <1>3, <1>4, <1>5, <1>6 DEF Inward

\* The next chunk of c enters.
LEMMA InwardNext ==
    ASSUME TypeOK, NEW c \in Conns, Inward(c), Reads(c), wsUp' = wsUp, in_q'[c] = in_q[c]
    PROVE  Inward(c)'
  <1> DEFINE n == taken[c]
  <1>1. /\ a2c \in Seq(Message) /\ n \in Nat /\ sent[c] \in Nat
        /\ taken'[c] = n + 1 /\ sent' = sent /\ n < sent[c]
      BY DEF TypeOK, ServerLinkTypeOK, AgentTypeOK, Reads
  <1>2. /\ IsLane(Lane(c)) /\ Lane(c)[n + 1] = SDSRV(c, n + 1)
        /\ SDSRV(c, n + 1) \in Message
      BY <1>1, LaneFacts, MessageFacts DEF Pos
  <1>3. InOrder(a2c, Lane(c), Range(in_q[c]), n)
      BY DEF Inward
  <1>4. CASE wsUp
      <2>1. a2c' = Append(a2c, Lane(c)[n + 1])
          BY <1>2, <1>4 DEF Reads, AgentSend
      <2>2. Whole(a2c, Lane(c), Range(in_q[c]), n)
          BY <1>4 DEF Inward
      <2> HIDE DEF n
      <2>3. /\ InOrder(Append(a2c, Lane(c)[n + 1]), Lane(c), Range(in_q[c]), n + 1)
            /\ Whole(Append(a2c, Lane(c)[n + 1]), Lane(c), Range(in_q[c]), n + 1)
          BY <1>1, <1>2, <1>3, <2>2, LaneEnter
      <2>4. Lane(c)' = Lane(c)
          BY DEF Lane, SDSRV
      <2> QED BY <1>1, <2>1, <2>3, <2>4 DEF Inward
  <1>5. CASE ~wsUp
      <2>1. a2c' = a2c
          BY <1>5 DEF Reads, AgentSend
      <2> HIDE DEF n
      <2>2. n + 1 \in Nat /\ n <= n + 1
          BY <1>1
      <2>3. InOrder(a2c, Lane(c), Range(in_q[c]), n + 1)
          BY <1>1, <1>3, <2>2, LaneSame
      <2>4. Lane(c)' = Lane(c)
          BY DEF Lane, SDSRV
      <2> QED BY <1>1, <1>5, <2>1, <2>3, <2>4 DEF Inward
  <1> QED BY <1>4, <1>5

LEMMA InFlowAgent ==
    ASSUME TypeOK, TypeOK', Owned, Calls, InFlow, AgentNext, UNCHANGED browserVars
    PROVE  InFlow'
  <1> SUFFICES ASSUME NEW c \in Conns PROVE Inward(c)'
      BY DEF InFlow
  <1>0. /\ Inward(c) /\ in_q' = in_q /\ sent'[c] \in Nat /\ taken \in [Conns -> Nat]
        /\ sent[c] \in Nat
      BY DEF InFlow, browserVars, TypeOK, AgentTypeOK
  <1>1. /\ wsUp' = wsUp /\ sent[c] <= sent'[c]
        /\ Quiet \/ Answers \/ \E d \in Conns : Says(d) \/ Reads(d)
      BY AgentSays
  <1>2. CASE Quiet
      <2>1. a2c' = a2c /\ taken' = taken /\ taken[c] <= sent'[c]
          BY <1>0, <1>1, <1>2 DEF Quiet, Inward
      <2>2. Lane(c)' = Lane(c)
          BY DEF Lane, SDSRV
      <2> QED BY <1>0, <1>1, <2>1, <2>2 DEF Inward
  <1>3. CASE Answers
      <2>1. PICK type \in {"CONTINUE", "ERR"} : AgentSend(Cmd(type, Server))
          BY <1>3 DEF Answers
      <2>2. Cmd(type, Server) \in Message /\ Cmd(type, Server).type # "SDSRV"
          BY MessageFacts DEF Cmd
      <2>3. \A m \in Pos : Cmd(type, Server) # Lane(c)[m]
          BY <2>2, LaneFacts
      <2>4. taken' = taken
          BY <1>3 DEF Answers
      <2> QED BY <1>0, <1>1, <2>1, <2>2, <2>3, <2>4, InwardOther
  <1>4. ASSUME NEW d \in Conns, Says(d) PROVE Inward(c)'
      <2>1. \A m \in Pos : SDSRV(d, End) # Lane(c)[m]
          BY LaneFacts
      <2>2. SDSRV(d, End) \in Message /\ AgentSend(SDSRV(d, End)) /\ taken' = taken
          BY <1>4, MessageFacts DEF Says
      <2> QED BY <1>0, <1>1, <2>1, <2>2, InwardOther
  <1>5. ASSUME NEW d \in Conns, Reads(d) PROVE Inward(c)'
      <2>1. CASE d = c
          BY <1>0, <1>1, <1>5, <2>1, InwardNext
      <2>2. CASE d # c
          <3>1. /\ AgentSend(SDSRV(d, taken[d] + 1)) /\ taken'[c] = taken[c]
                /\ taken[d] + 1 \in Nat
              BY <1>0, <1>5, <2>2 DEF Reads
          <3>2. /\ SDSRV(d, taken[d] + 1) \in Message
                /\ \A m \in Pos : SDSRV(d, taken[d] + 1) # Lane(c)[m]
              BY <2>2, <3>1, LaneFacts, MessageFacts
          <3> QED BY <1>0, <1>1, <3>1, <3>2, InwardOther
      <2> QED BY <2>1, <2>2
  <1> QED BY <1>1, <1>2, <1>3, <1>4, <1>5

\* The browser takes a message.
LEMMA InwardTaken ==
    ASSUME TypeOK, NEW c \in Conns, Inward(c), a2c # <<>>, a2c' = Tail(a2c),
           UNCHANGED <<wsUp, taken, sent>>,
           \/ /\ Head(a2c) = SDSRV(c, Head(a2c).chunk)
              /\ \/ in_q'[c] = Append(in_q[c], Head(a2c).chunk)
                 \/ Head(a2c).chunk = End /\ in_q'[c] = in_q[c]
           \/ /\ \A m \in Pos : Head(a2c) # Lane(c)[m]
              /\ in_q'[c] = in_q[c]
    PROVE  Inward(c)'
  <1>1. /\ a2c \in Seq(Message) /\ taken[c] \in Nat /\ in_q[c] \in Seq(Nat)
        /\ Lane(c)' = Lane(c)
      BY DEF TypeOK, ServerLinkTypeOK, AgentTypeOK, BrowserTypeOK, Lane, SDSRV
  <1>2. InOrder(a2c, Lane(c), Range(in_q[c]), taken[c])
      BY DEF Inward
  <1>3. /\ InOrder(Tail(a2c), Lane(c), Range(in_q'[c]), taken[c])
        /\ Whole(a2c, Lane(c), Range(in_q[c]), taken[c])
              => Whole(Tail(a2c), Lane(c), Range(in_q'[c]), taken[c])
      BY <1>1, <1>2, LaneTaken
  <1> QED BY <1>1, <1>3 DEF Inward

\* An End that no message carries is put in the queue.
LEMMA InwardEnded ==
    ASSUME TypeOK, NEW c \in Conns, Inward(c), UNCHANGED <<a2c, wsUp, taken, sent>>,
           in_q'[c] \in {in_q[c], Append(in_q[c], End)}
    PROVE  Inward(c)'
  <1> DEFINE got == Range(in_q[c])
             new == Range(in_q'[c])
             n == taken[c]
  <1>1. /\ n \in Nat /\ in_q[c] \in Seq(Nat) /\ Lane(c)' = Lane(c) /\ n <= n /\ 0 \in Nat
      BY DEF TypeOK, AgentTypeOK, BrowserTypeOK, Lane, SDSRV
  <1>2. InOrder(a2c, Lane(c), got, n)
      BY DEF Inward
  <1>3. new \cap Pos = got \cap Pos
      <2>1. CASE in_q'[c] = in_q[c]
          BY <2>1
      <2>2. CASE in_q'[c] = Append(in_q[c], 0)
          <3>1. Range(Append(in_q[c], 0)) \cap Pos = Range(in_q[c]) \cap Pos
              BY <1>1, GotMore
          <3> QED BY <2>2, <3>1
      <2> QED BY <2>1, <2>2 DEF End
  <1> HIDE DEF got, new, n
  <1>4. /\ InOrder(a2c, Lane(c), new, n)
        /\ Whole(a2c, Lane(c), got, n) => Whole(a2c, Lane(c), new, n)
      BY <1>1, <1>2, <1>3, LaneSame
  <1> QED BY <1>1, <1>4 DEF Inward, got, new, n

LEMMA InFlowBrowser ==
    ASSUME TypeOK, Once, InFlow, BrowserNext, UNCHANGED agentVars
    PROVE  InFlow'
  <1> SUFFICES ASSUME NEW c \in Conns PROVE Inward(c)'
      BY DEF InFlow
  <1>0. /\ Inward(c) /\ in_q \in [Conns -> Seq(Nat)] /\ UNCHANGED <<taken, sent>>
        /\ a2c \in Seq(Message)
      BY DEF InFlow, agentVars, peerVars, TypeOK, BrowserTypeOK, ServerLinkTypeOK
  <1>1. CASE SendConnect \/ \E d \in Conns : Write(d) \/ CloseWriter(d)
      <2>1. UNCHANGED <<a2c, wsUp, in_q>>
          BY <1>1 DEF SendConnect, Write, CloseWriter
      <2> QED BY <1>0, <2>1, InwardEnded
  <1>2. CASE CloseServer
      <2>1. UNCHANGED <<a2c, wsUp>> /\ in_q'[c] \in {in_q[c], Append(in_q[c], End)}
          BY <1>2 DEF CloseServer
      <2> QED BY <1>0, <2>1, InwardEnded
  <1>3. CASE FirstReply
      <2>1. a2c # <<>> /\ a2c' = Tail(a2c) /\ UNCHANGED <<wsUp, in_q>>
          BY <1>3 DEF FirstReply
      <2>2. Head(a2c) \in Message /\ Head(a2c).type # "SDSRV"
          BY <1>0, <1>3, <2>1, MessageSeq DEF FirstReply, Once
      <2>3. \A m \in Pos : Head(a2c) # Lane(c)[m]
          BY <2>2, LaneFacts
      <2> QED BY <1>0, <2>1, <2>3, InwardTaken
  <1>4. ASSUME NEW d \in Conns, NewConnection(d) \/ KnownConnection(d)
        PROVE  Inward(c)'
      <2>1. /\ a2c # <<>> /\ a2c' = Tail(a2c) /\ UNCHANGED wsUp
            /\ Head(a2c).type = "SDSRV" /\ Head(a2c).token = d
          BY <1>4 DEF NewConnection, KnownConnection, HandleIn
      <2>2. Head(a2c) = SDSRV(d, Head(a2c).chunk)
          BY <1>0, <2>1, MessageSeq, MessageFacts
      <2>3. CASE d = c
          <3>1. \/ in_q'[c] = Append(in_q[c], Head(a2c).chunk)
                \/ Head(a2c).chunk = End /\ in_q'[c] = in_q[c]
              BY <1>0, <1>4, <2>3 DEF NewConnection, KnownConnection
          <3> QED BY <1>0, <2>1, <2>2, <2>3, <3>1, InwardTaken
      <2>4. CASE d # c
          <3>1. in_q'[c] = in_q[c]
              BY <1>0, <1>4, <2>4 DEF NewConnection, KnownConnection
          <3>2. \A m \in Pos : Head(a2c) # Lane(c)[m]
              BY <2>2, <2>4, LaneFacts
          <3> QED BY <1>0, <2>1, <3>1, <3>2, InwardTaken
      <2> QED BY <2>3, <2>4
  <1> QED BY <1>1, <1>2, <1>3, <1>4 DEF BrowserNext, HandleInTask

LEMMA InFlowStep == Inv /\ TypeOK' /\ [Next]_vars => InFlow'
  <1> SUFFICES ASSUME Inv, TypeOK', [Next]_vars
               PROVE  InFlow'
      OBVIOUS
  <1>0. TypeOK /\ Owned /\ Calls /\ Once /\ InFlow
      BY DEF Inv
  <1>1. CASE AgentNext /\ UNCHANGED browserVars
      BY <1>0, <1>1, InFlowAgent
  <1>2. CASE BrowserNext /\ UNCHANGED agentVars
      BY <1>0, <1>2, InFlowBrowser
  <1>3. CASE LinkFailure
      <2> SUFFICES ASSUME NEW c \in Conns PROVE Inward(c)'
          BY DEF InFlow
      <2>1. /\ UNCHANGED <<taken, sent, in_q>> /\ ~wsUp' /\ Lane(c)' = Lane(c)
          BY <1>3 DEF LinkFailure, WsLost, agentVars, browserVars, peerVars, Lane, SDSRV
      <2>2. PICK k \in 0..Len(a2c) : a2c' = SubSeq(a2c, 1, k)
          BY <1>3 DEF LinkFailure, WsLost
      <2>3. a2c \in Seq(Message) /\ InOrder(a2c, Lane(c), Range(in_q[c]), taken[c])
          BY <1>0 DEF TypeOK, ServerLinkTypeOK, InFlow, Inward
      <2>4. InOrder(SubSeq(a2c, 1, k), Lane(c), Range(in_q[c]), taken[c])
          BY <2>3, LanePrefix
      <2> QED BY <1>0, <2>1, <2>2, <2>4 DEF InFlow, Inward
  <1>4. CASE UNCHANGED vars
      BY <1>0, <1>4 DEF vars, linkVars, agentVars, browserVars, peerVars, InFlow, Inward,
                        Lane, SDSRV
  <1> QED BY <1>1, <1>2, <1>3, <1>4 DEF Next

-----------------------------------------------------------------------------
(* The data that the application writes.                                    *)

LEMMA OutFlowInit == Init => OutFlow
  <1> SUFFICES ASSUME Init, NEW c \in Conns PROVE Outward(c)
      BY DEF OutFlow
  <1>1. c2a = <<>> /\ written[c] = <<>> /\ appSent[c] = 0
      BY DEF Init, LinkInit, AgentInit, BrowserInit
  <1>2. Range(written[c]) = {}
      BY <1>1 DEF Range
  <1> QED BY <1>1, <1>2 DEF Outward, InOrder, Whole

\* Once no data for the connection may be written, that is so for ever.
LEMMA GateRun ==
    ASSUME TypeOK, Owned, NEW d \in Conns, Accept(d) \/ RunTask(d), NEW c \in Conns, Gate(c)'
    PROVE  Gate(c)
  <1> USE DEF Gate, Started, linkVars, dispVars, peerVars
  <1>0. /\ table \in Seq(Conns) /\ Unique(table) /\ run \in [Conns -> RunState]
        /\ sock \in [Conns -> {"none", "open", "closed"}]
      BY DEF TypeOK, AgentTypeOK, Owned
  <1>1. CASE Accept(d)
      BY <1>0, <1>1 DEF Accept
  <1>2. CASE Announce(d)
      <2>1. \A e : Contains(table', e) <=> Contains(table, e) \/ e = d
          BY <1>0, <1>2, Register DEF Announce
      <2> QED BY <1>0, <1>2, <2>1 DEF Announce, AfterSend
  <1>3. CASE ReadData(d) \/ ReadEof(d) \/ ReadCancelled(d)
      BY <1>0, <1>3 DEF ReadData, ReadEof, ReadCancelled, AfterSend
  <1>4. CASE RunStop(d)
      <2>1. /\ run[d] = "finally" /\ table' = table
            /\ \/ run' = [run EXCEPT ![d] = "stopping"] /\ sock' = sock
               \/ /\ run' = [run EXCEPT ![d] = "done"]
                  /\ sock' = [sock EXCEPT ![d] = "closed"]
          BY <1>4 DEF RunStop, Stop, StopAgain
      <2> QED BY <1>0, <2>1
  <1>5. CASE RunStopEnd(d)
      <2>1. /\ run[d] = "stopping" /\ run' = [run EXCEPT ![d] = "done"]
            /\ sock' = [sock EXCEPT ![d] = "closed"]
            /\ \A e : Contains(table', e) => Contains(table, e)
          BY <1>0, <1>5, Forget DEF RunStopEnd, StopEnd
      <2> QED BY <1>0, <2>1
  <1>6. CASE AnnounceRaises(d)
      <2>1. \A e : Contains(table', e) <=> Contains(table, e) \/ e = d
          BY <1>0, <1>6, Register DEF AnnounceRaises
      <2> QED BY <1>0, <1>6, <2>1 DEF AnnounceRaises
  <1> QED BY <1>1, <1>2, <1>3, <1>4, <1>5, <1>6 DEF RunTask

LEMMA GateStep ==
    ASSUME TypeOK, Owned, AgentNext, NEW c \in Conns, Gate(c)'
    PROVE  Gate(c)
  <1>0. /\ table \in Seq(Conns) /\ Unique(table) /\ run \in [Conns -> RunState]
        /\ sock \in [Conns -> {"none", "open", "closed"}]
      BY DEF TypeOK, AgentTypeOK, Owned
  <1>1. CASE \E d \in Conns : Accept(d) \/ RunTask(d)
      BY <1>1, GateRun
  <1> USE DEF Gate, Started, linkVars, dispVars, peerVars
  <1>2. CASE \/ Bind \/ Terminate \/ DispatchBind \/ DispatchClose \/ DispatchEarlyOk
             \/ \E d \in Conns : DispatchWrite(d) \/ DispatchUnknown(d)
             \/ DrainDone \/ CloseKeyError \/ CloseDone
             \/ \E d \in Conns : PeerSend(d) \/ PeerClose(d)
      <2>1. UNCHANGED <<table, run, sock>>
          BY <1>2
          DEF Bind, BindOk, BindFail, BindRegister, BindLost, Terminate, DispatchBind,
              DispatchClose, DispatchEarlyOk, DispatchWrite, DispatchUnknown, DrainDone,
              CloseKeyError, CloseDone, PeerSend, PeerClose
      <2> QED BY <2>1
  <1>3. ASSUME NEW d, Stop(d) \/ StopAgain(d), UNCHANGED <<table, run>>
        PROVE  Gate(c)
      BY <1>0, <1>3 DEF Stop, StopAgain
  <1>4. ASSUME NEW d, StopEnd(d), UNCHANGED run
        PROVE  Gate(c)
      <2>1. \A e : Contains(table', e) => Contains(table, e)
          BY <1>0, <1>4, Forget DEF StopEnd
      <2>2. sock'[c] # "closed" => sock[c] # "closed"
          BY <1>0, <1>4 DEF StopEnd
      <2> QED BY <1>4, <2>1, <2>2
  <1>5. CASE DrainStop \/ CloseNext
      BY <1>3, <1>5 DEF DrainStop, CloseNext
  <1>6. CASE DrainStopEnd \/ CloseStopEnd
      BY <1>4, <1>6 DEF DrainStopEnd, CloseStopEnd
  <1> QED BY <1>1, <1>2, <1>5, <1>6 DEF AgentNext, Dispatch

\* What the agent takes from the channel.
LEMMA AgentHears ==
    ASSUME AgentNext
    PROVE  \/ UNCHANGED <<c2a, written>>
           \/ /\ c2a # <<>> /\ c2a' = Tail(c2a) /\ UNCHANGED written
              /\ Head(c2a).type # "SDSRV"
           \/ \E d \in Conns : DispatchWrite(d) \/ DispatchUnknown(d)
  <1> USE DEF linkVars, dispVars, peerVars
  <1>1. CASE DispatchBind \/ DispatchClose \/ DispatchEarlyOk
      <2>1. \A type \in {"CONNECT", "OK"} : Cmd(type, Server).type # "SDSRV"
          BY DEF Cmd
      <2> QED BY <1>1, <2>1 DEF DispatchBind, DispatchClose, DispatchEarlyOk, Receive
  <1>2. CASE Bind \/ Terminate \/ \E c \in Conns : Accept(c) \/ PeerSend(c) \/ PeerClose(c)
      BY <1>2 DEF Bind, BindOk, BindFail, BindRegister, BindLost, Terminate,
                  Accept, PeerSend, PeerClose
  <1>3. ASSUME NEW c \in Conns, RunTask(c)
        PROVE  UNCHANGED <<c2a, written>>
      BY <1>3 DEF RunTask, Announce, AnnounceRaises, ReadData, ReadEof, ReadCancelled,
                  RunStop, RunStopEnd
  <1>4. CASE \/ DrainDone \/ DrainStop \/ DrainStopEnd
             \/ CloseNext \/ CloseStopEnd \/ CloseKeyError \/ CloseDone
      BY <1>4 DEF DrainDone, DrainStop, DrainStopEnd, CloseNext, CloseStopEnd,
                  CloseKeyError, CloseDone
  <1> QED BY <1>1, <1>2, <1>3, <1>4 DEF AgentNext, Dispatch

LEMMA OutwardTaken ==
    ASSUME TypeOK, NEW c \in Conns, Outward(c), c2a # <<>>, c2a' = Tail(c2a),
           UNCHANGED <<wsUp, appSent>>,
           \/ /\ Head(c2a) = SDSRV(c, Head(c2a).chunk)
              /\ \/ written'[c] = Append(written[c], Head(c2a).chunk)
                 \/ Head(c2a).chunk = End /\ written'[c] = written[c]
           \/ /\ \A m \in Pos : Head(c2a) # Lane(c)[m]
              /\ written'[c] = written[c]
    PROVE  Outward(c)'
  <1>1. /\ c2a \in Seq(Message) /\ appSent[c] \in Nat /\ written[c] \in Seq(Nat)
        /\ Lane(c)' = Lane(c)
      BY DEF TypeOK, ServerLinkTypeOK, AgentTypeOK, BrowserTypeOK, Lane, SDSRV
  <1>2. InOrder(c2a, Lane(c), Range(written[c]), appSent[c])
      BY DEF Outward
  <1>3. /\ InOrder(Tail(c2a), Lane(c), Range(written'[c]), appSent[c])
        /\ Whole(c2a, Lane(c), Range(written[c]), appSent[c])
              => Whole(Tail(c2a), Lane(c), Range(written'[c]), appSent[c])
      BY <1>1, <1>2, LaneTaken
  <1> QED BY <1>1, <1>3 DEF Outward

LEMMA OutFlowAgent ==
    ASSUME TypeOK, Owned, Calls, OutFlow, AgentNext, UNCHANGED browserVars
    PROVE  OutFlow'
  <1> SUFFICES ASSUME NEW c \in Conns, Gate(c)' PROVE Outward(c)'
      BY DEF OutFlow
  <1>0. /\ Gate(c) /\ Outward(c) /\ appSent' = appSent /\ wsUp' = wsUp
        /\ c2a \in Seq(Message) /\ written \in [Conns -> Seq(Nat)]
      BY GateStep, AgentSays
      DEF OutFlow, browserVars, TypeOK, AgentTypeOK, ServerLinkTypeOK
  <1>1. CASE UNCHANGED <<c2a, written>>
      BY <1>0, <1>1 DEF Outward, Lane, SDSRV
  <1>2. CASE /\ c2a # <<>> /\ c2a' = Tail(c2a) /\ UNCHANGED written
             /\ Head(c2a).type # "SDSRV"
      <2>1. \A m \in Pos : Head(c2a) # Lane(c)[m]
          BY <1>0, <1>2, MessageSeq, LaneFacts
      <2> QED BY <1>0, <1>2, <2>1, OutwardTaken
  <1>3. ASSUME NEW d \in Conns, DispatchWrite(d) \/ DispatchUnknown(d)
        PROVE  Outward(c)'
      <2>1. /\ c2a # <<>> /\ c2a' = Tail(c2a)
            /\ Head(c2a) = SDSRV(d, Head(c2a).chunk)
          BY <1>3 DEF DispatchWrite, DispatchUnknown, Receive
      <2>2. CASE d # c
          <3>1. written'[c] = written[c]
              BY <1>0, <1>3, <2>2 DEF DispatchWrite, DispatchUnknown
          <3>2. \A m \in Pos : Head(c2a) # Lane(c)[m]
              BY <2>1, <2>2, LaneFacts
          <3> QED BY <1>0, <2>1, <3>1, <3>2, OutwardTaken
      <2>3. CASE d = c
          <3>1. Started(c)
              <4>1. 1 \in DOMAIN c2a /\ Head(c2a) = c2a[1]
                  BY <1>0, <2>1, Shift
              <4>2. c2a[1].type = "SDSRV" /\ c2a[1].token = c
                  BY <2>1, <2>3, <4>1 DEF SDSRV
              <4> QED BY <4>1, <4>2 DEF Calls, Known, Begun
          <3>2. DispatchWrite(c) /\ sock[c] # "closed"
              BY <1>0, <1>3, <2>3, <3>1 DEF DispatchUnknown, Gate
          <3>3. \/ written'[c] = Append(written[c], Head(c2a).chunk)
                \/ Head(c2a).chunk = End /\ written'[c] = written[c]
              BY <1>0, <3>2 DEF DispatchWrite
          <3> QED BY <1>0, <2>1, <2>3, <3>3, OutwardTaken
      <2> QED BY <2>2, <2>3
  <1> QED BY <1>1, <1>2, <1>3, AgentHears

\* A message that is no data of c is sent.
LEMMA OutwardOther ==
    ASSUME TypeOK, NEW c \in Conns, Outward(c), NEW e \in Message,
           \A m \in Pos : e # Lane(c)[m], BrowserSend(e),
           wsUp' = wsUp, appSent'[c] = appSent[c], written'[c] = written[c]
    PROVE  Outward(c)'
  <1>1. c2a \in Seq(Message) /\ Lane(c)' = Lane(c)
      BY DEF TypeOK, ServerLinkTypeOK, Lane, SDSRV
  <1>2. InOrder(c2a, Lane(c), Range(written[c]), appSent[c])
      BY DEF Outward
  <1>3. /\ InOrder(Append(c2a, e), Lane(c), Range(written[c]), appSent[c])
        /\ Whole(c2a, Lane(c), Range(written[c]), appSent[c])
              => Whole(Append(c2a, e), Lane(c), Range(written[c]), appSent[c])
      BY <1>1, <1>2, LaneOther
  <1>4. c2a' = Append(c2a, e) \/ (c2a' = c2a /\ ~wsUp)
      BY DEF BrowserSend
  <1> QED BY <1>1, <1>2, <1>3, <1>4 DEF Outward

\* The next chunk is written.
LEMMA OutwardNext ==
    ASSUME TypeOK, NEW c \in Conns, Outward(c), Write(c), written'[c] = written[c]
    PROVE  Outward(c)'
  <1> DEFINE n == appSent[c]
  <1>1. /\ c2a \in Seq(Message) /\ n \in Nat /\ appSent'[c] = n + 1
        /\ wsUp' = wsUp /\ Lane(c)' = Lane(c) /\ n + 1 \in Nat /\ n <= n + 1
      BY DEF TypeOK, ServerLinkTypeOK, BrowserTypeOK, Write, Lane, SDSRV
  <1>2. /\ IsLane(Lane(c)) /\ Lane(c)[n + 1] = SDSRV(c, n + 1)
        /\ SDSRV(c, n + 1) \in Message
      BY <1>1, LaneFacts, MessageFacts DEF Pos
  <1>3. InOrder(c2a, Lane(c), Range(written[c]), n)
      BY DEF Outward
  <1>4. CASE wsUp
      <2>1. c2a' = Append(c2a, Lane(c)[n + 1])
          BY <1>2, <1>4 DEF Write, BrowserSend
      <2>2. Whole(c2a, Lane(c), Range(written[c]), n)
          BY <1>4 DEF Outward
      <2> HIDE DEF n
      <2>3. /\ InOrder(Append(c2a, Lane(c)[n + 1]), Lane(c), Range(written[c]), n + 1)
            /\ Whole(Append(c2a, Lane(c)[n + 1]), Lane(c), Range(written[c]), n + 1)
          BY <1>1, <1>2, <1>3, <2>2, LaneEnter
      <2> QED BY <1>1, <2>1, <2>3 DEF Outward
  <1>5. CASE ~wsUp
      <2>1. c2a' = c2a
          BY <1>5 DEF Write, BrowserSend
      <2> HIDE DEF n
      <2>2. InOrder(c2a, Lane(c), Range(written[c]), n + 1)
          BY <1>1, <1>3, LaneSame
      <2> QED BY <1>1, <1>5, <2>1, <2>2 DEF Outward
  <1> QED BY <1>4, <1>5

\* The server is closed.
LEMMA OutwardClosed ==
    ASSUME TypeOK, NEW c \in Conns, Outward(c), CloseServer, written'[c] = written[c]
    PROVE  Outward(c)'
  <1> DEFINE ends == [i \in DOMAIN connections |-> SDSRV(connections[i], End)]
             ok == Cmd("OK", Server)
             n == appSent[c]
             got == Range(written[c])
  <1>1. /\ c2a \in Seq(Message) /\ connections \in Seq(Conns) /\ appSent' = appSent
        /\ wsUp' = wsUp /\ Lane(c)' = Lane(c)
        /\ c2a' = IF wsUp THEN Append(c2a \o ends, ok) ELSE c2a
      BY DEF TypeOK, ServerLinkTypeOK, BrowserTypeOK, CloseServer, Lane, SDSRV
  <1>2. ends \in Seq(Message) /\ ok \in Message
      BY <1>1, EndsFacts, MessageFacts
  <1>3. \A i \in DOMAIN ends : \A m \in Pos : ends[i] # Lane(c)[m]
      <2>1. \A i \in DOMAIN connections : connections[i] \in Conns
          BY <1>1
      <2> QED BY <2>1, LaneFacts
  <1>4. \A m \in Pos : ok # Lane(c)[m]
      BY <1>2, LaneFacts DEF Cmd
  <1>5. InOrder(c2a, Lane(c), got, n)
      BY DEF Outward
  <1> HIDE DEF ends, ok, got, n
  <1>6. /\ InOrder(c2a \o ends, Lane(c), got, n)
        /\ Whole(c2a, Lane(c), got, n) => Whole(c2a \o ends, Lane(c), got, n)
      BY <1>1, <1>2, <1>3, <1>5, LaneOthers
  <1>7. c2a \o ends \in Seq(Message)
      BY <1>1, <1>2
  <1>8. /\ InOrder(Append(c2a \o ends, ok), Lane(c), got, n)
        /\ Whole(c2a \o ends, Lane(c), got, n)
              => Whole(Append(c2a \o ends, ok), Lane(c), got, n)
      BY <1>2, <1>4, <1>6, <1>7, LaneOther
  <1> QED BY <1>1, <1>5, <1>6, <1>8 DEF Outward, got, n

LEMMA OutFlowBrowser ==
    ASSUME TypeOK, OutFlow, BrowserNext, UNCHANGED agentVars
    PROVE  OutFlow'
  <1> SUFFICES ASSUME NEW c \in Conns, Gate(c)' PROVE Outward(c)'
      BY DEF OutFlow
  <1>0. /\ Outward(c) /\ written' = written /\ appSent \in [Conns -> Nat]
      BY DEF OutFlow, agentVars, Gate, Started, TypeOK, BrowserTypeOK
  <1>1. CASE SendConnect
      <2>1. /\ Cmd("CONNECT", Server) \in Message /\ BrowserSend(Cmd("CONNECT", Server))
            /\ UNCHANGED <<wsUp, appSent>> /\ Cmd("CONNECT", Server).type # "SDSRV"
          BY <1>1, MessageFacts DEF SendConnect, Cmd
      <2>2. \A m \in Pos : Cmd("CONNECT", Server) # Lane(c)[m]
          BY <2>1, LaneFacts
      <2> QED BY <1>0, <2>1, <2>2, OutwardOther
  <1>2. CASE CloseServer
      BY <1>0, <1>2, OutwardClosed
  <1>3. CASE HandleInTask
      <2>1. UNCHANGED <<c2a, wsUp, appSent>>
          BY <1>3 DEF HandleInTask, FirstReply, NewConnection, KnownConnection
      <2> QED BY <1>0, <2>1 DEF Outward, Lane, SDSRV
  <1>4. ASSUME NEW d \in Conns, Write(d) PROVE Outward(c)'
      <2>1. CASE d = c
          BY <1>0, <1>4, <2>1, OutwardNext
      <2>2. CASE d # c
          <3>1. /\ BrowserSend(SDSRV(d, appSent[d] + 1)) /\ appSent[d] + 1 \in Nat
                /\ wsUp' = wsUp /\ appSent'[c] = appSent[c]
              BY <1>0, <1>4, <2>2 DEF Write
          <3>2. /\ SDSRV(d, appSent[d] + 1) \in Message
                /\ \A m \in Pos : SDSRV(d, appSent[d] + 1) # Lane(c)[m]
              BY <2>2, <3>1, LaneFacts, MessageFacts
          <3> QED BY <1>0, <3>1, <3>2, OutwardOther
      <2> QED BY <2>1, <2>2
  <1>5. ASSUME NEW d \in Conns, CloseWriter(d) PROVE Outward(c)'
      <2>1. BrowserSend(SDSRV(d, End)) /\ UNCHANGED <<wsUp, appSent>>
          BY <1>5 DEF CloseWriter
      <2>2. SDSRV(d, End) \in Message /\ \A m \in Pos : SDSRV(d, End) # Lane(c)[m]
          BY LaneFacts, MessageFacts
      <2> QED BY <1>0, <2>1, <2>2, OutwardOther
  <1> QED BY <1>1, <1>2, <1>3, <1>4, <1>5 DEF BrowserNext

LEMMA OutFlowStep == Inv /\ [Next]_vars => OutFlow'
  <1> SUFFICES ASSUME Inv, [Next]_vars
               PROVE  OutFlow'
      OBVIOUS
  <1>0. TypeOK /\ Owned /\ Calls /\ OutFlow
      BY DEF Inv
  <1>1. CASE AgentNext /\ UNCHANGED browserVars
      BY <1>0, <1>1, OutFlowAgent
  <1>2. CASE BrowserNext /\ UNCHANGED agentVars
      BY <1>0, <1>2, OutFlowBrowser
  <1>3. CASE LinkFailure
      <2> SUFFICES ASSUME NEW c \in Conns, Gate(c)' PROVE Outward(c)'
          BY DEF OutFlow
      <2>1. /\ UNCHANGED <<written, appSent>> /\ ~wsUp' /\ Lane(c)' = Lane(c)
            /\ Outward(c)
          BY <1>0, <1>3 DEF LinkFailure, WsLost, agentVars, browserVars, Lane, SDSRV,
                            OutFlow, Gate, Started
      <2>2. PICK k \in 0..Len(c2a) : c2a' = SubSeq(c2a, 1, k)
          BY <1>3 DEF LinkFailure, WsLost
      <2>3. c2a \in Seq(Message) /\ InOrder(c2a, Lane(c), Range(written[c]), appSent[c])
          BY <1>0, <2>1 DEF TypeOK, ServerLinkTypeOK, Outward
      <2>4. InOrder(SubSeq(c2a, 1, k), Lane(c), Range(written[c]), appSent[c])
          BY <2>3, LanePrefix
      <2> QED BY <2>1, <2>2, <2>4 DEF Outward
  <1>4. CASE UNCHANGED vars
      BY <1>0, <1>4 DEF vars, linkVars, agentVars, browserVars, OutFlow, Outward,
                        Gate, Started, Lane, SDSRV
  <1> QED BY <1>1, <1>2, <1>3, <1>4 DEF Next

-----------------------------------------------------------------------------
(* What is said about connections, and how often the application is called. *)

LEMMA CallsInit == Init => Calls
  BY DEF Init, LinkInit, BrowserInit, Calls, Known, Contains

\* A message for a connection that has been announced, or one for the server.
LEMMA KnownAppend ==
    ASSUME NEW ch \in Seq(Message), NEW S, Known(ch, S), NEW e \in Message,
           e.type = "SDSRV" => e.token \in S
    PROVE  Known(Append(ch, e), S)
  <1>1. /\ DOMAIN Append(ch, e) = 1..(Len(ch) + 1) /\ DOMAIN ch = 1..Len(ch)
        /\ \A i \in 1..Len(ch) : Append(ch, e)[i] = ch[i]
        /\ Append(ch, e)[Len(ch) + 1] = e /\ Len(ch) \in Nat
      BY Extend
  <1> QED BY <1>1 DEF Known

LEMMA KnownTail ==
    ASSUME NEW ch \in Seq(Message), NEW S, Known(ch, S), ch # <<>>
    PROVE  Known(Tail(ch), S) /\ (Head(ch).type = "SDSRV" => Head(ch).token \in S)
  <1>1. /\ DOMAIN Tail(ch) = 1..(Len(ch) - 1) /\ DOMAIN ch = 1..Len(ch)
        /\ \A i \in 1..(Len(ch) - 1) : Tail(ch)[i] = ch[i + 1]
        /\ Head(ch) = ch[1] /\ Len(ch) \in Nat \ {0}
      BY Shift
  <1> QED BY <1>1 DEF Known

LEMMA KnownPrefix ==
    ASSUME NEW ch \in Seq(Message), NEW S, Known(ch, S), NEW k \in 0..Len(ch)
    PROVE  Known(SubSeq(ch, 1, k), S)
  <1>1. /\ DOMAIN SubSeq(ch, 1, k) = 1..k /\ DOMAIN ch = 1..Len(ch) /\ Len(ch) \in Nat
        /\ \A i \in 1..k : SubSeq(ch, 1, k)[i] = ch[i]
      BY Prefix
  <1> QED BY <1>1 DEF Known

LEMMA KnownMore ==
    ASSUME NEW ch, NEW S, Known(ch, S), NEW T, S \subseteq T
    PROVE  Known(ch, T)
  BY DEF Known

LEMMA CallsAgent ==
    ASSUME TypeOK, Owned, Calls, AgentNext, UNCHANGED browserVars
    PROVE  Calls'
  <1>0. /\ a2c \in Seq(Message) /\ c2a \in Seq(Message)
        /\ UNCHANGED <<callbacks, connections>>
      BY DEF TypeOK, ServerLinkTypeOK, browserVars
  <1>1. /\ \A c \in Conns : Started(c) => Started(c)'
        /\ Quiet \/ Answers \/ \E c \in Conns : Says(c) \/ Reads(c)
      BY AgentSays
  <1>2. Begun \subseteq Begun'
      BY <1>1 DEF Begun
  <1>3. Known(a2c, Begun') /\ Known(c2a, Begun')
      BY <1>2, KnownMore DEF Calls
  <1>4. Known(c2a', Begun')
      <2>1. c2a' = c2a \/ (c2a # <<>> /\ c2a' = Tail(c2a))
          BY AgentHears DEF DispatchWrite, DispatchUnknown, Receive
      <2> QED BY <1>0, <1>3, <2>1, KnownTail
  <1>5. Known(a2c', Begun')
      <2>1. ASSUME NEW e \in Message, AgentSend(e), e.type = "SDSRV" => e.token \in Begun'
            PROVE  Known(a2c', Begun')
          BY <1>0, <1>3, <2>1, KnownAppend DEF AgentSend
      <2>2. CASE Quiet
          BY <1>3, <2>2 DEF Quiet
      <2>3. CASE Answers
          <3>1. PICK type \in {"CONTINUE", "ERR"} : AgentSend(Cmd(type, Server))
              BY <2>3 DEF Answers
          <3>2. Cmd(type, Server) \in Message /\ Cmd(type, Server).type # "SDSRV"
              BY MessageFacts DEF Cmd
          <3> QED BY <2>1, <3>1, <3>2
      <2>4. ASSUME NEW c \in Conns, Says(c) PROVE Known(a2c', Begun')
          <3>1. SDSRV(c, End) \in Message /\ SDSRV(c, End).token = c
              BY MessageFacts DEF SDSRV
          <3>2. c \in Begun' /\ AgentSend(SDSRV(c, End))
              BY <2>4 DEF Says, Begun
          <3> QED BY <2>1, <3>1, <3>2
      <2>5. ASSUME NEW c \in Conns, Reads(c) PROVE Known(a2c', Begun')
          <3> DEFINE e == SDSRV(c, taken[c] + 1)
          <3>1. taken[c] + 1 \in Nat
              BY DEF TypeOK, AgentTypeOK
          <3>2. e \in Message /\ e.token = c
              BY <3>1, MessageFacts DEF SDSRV
          <3>3. c \in Begun' /\ AgentSend(e)
              BY <1>2, <2>5 DEF Reads, Begun
          <3> HIDE DEF e
          <3> QED BY <2>1, <3>2, <3>3
      <2> QED BY <1>1, <2>2, <2>3, <2>4, <2>5
  <1>6. \A c \in Conns : /\ callbacks'[c] = IF Contains(connections', c) THEN 1 ELSE 0
                         /\ Contains(connections', c) => Started(c)'
      BY <1>0, <1>1 DEF Calls
  <1> QED BY <1>4, <1>5, <1>6 DEF Calls

LEMMA KnownClosed ==
    ASSUME TypeOK, Calls, CloseServer
    PROVE  Known(c2a', Begun)
  <1> DEFINE ends == [i \in DOMAIN connections |-> SDSRV(connections[i], End)]
             ok == Cmd("OK", Server)
  <1>1. /\ c2a \in Seq(Message) /\ connections \in Seq(Conns)
        /\ c2a' = IF wsUp THEN Append(c2a \o ends, ok) ELSE c2a
      BY DEF TypeOK, ServerLinkTypeOK, BrowserTypeOK, CloseServer
  <1>2. ends \in Seq(Message) /\ ok \in Message /\ ok.type # "SDSRV"
      BY <1>1, EndsFacts, MessageFacts DEF Cmd
  <1>3. \A i \in DOMAIN ends : ends[i].token \in Begun
      <2>1. \A i \in DOMAIN connections :
               connections[i] \in Conns /\ Contains(connections, connections[i])
          BY <1>1 DEF Contains
      <2>2. \A i \in DOMAIN connections : connections[i] \in Begun
          BY <2>1 DEF Calls, Begun
      <2> QED BY <2>2 DEF SDSRV
  <1> HIDE DEF ends, ok
  <1>4. c2a \o ends \in Seq(Message)
      BY <1>1, <1>2
  <1>5. Known(c2a \o ends, Begun)
      <2>1. /\ DOMAIN c2a = 1..Len(c2a) /\ Len(c2a) \in Nat
            /\ DOMAIN ends = 1..Len(ends) /\ Len(ends) \in Nat
            /\ DOMAIN (c2a \o ends) = 1..(Len(c2a) + Len(ends))
            /\ \A i \in 1..(Len(c2a) + Len(ends)) :
                  (c2a \o ends)[i] = IF i <= Len(c2a) THEN c2a[i] ELSE ends[i - Len(c2a)]
          BY <1>1, <1>2
      <2>2. \A i \in 1..(Len(c2a) + Len(ends)) :
               ~(i <= Len(c2a)) => i - Len(c2a) \in DOMAIN ends
          BY <2>1
      <2> QED BY <1>3, <2>1, <2>2 DEF Known, Calls
  <1>6. Known(Append(c2a \o ends, ok), Begun)
      BY <1>2, <1>4, <1>5, KnownAppend
  <1> QED BY <1>1, <1>6 DEF Calls

LEMMA CallsBrowser ==
    ASSUME TypeOK, Calls, BrowserNext, UNCHANGED agentVars
    PROVE  Calls'
  <1>0. /\ a2c \in Seq(Message) /\ c2a \in Seq(Message) /\ Begun' = Begun
        /\ connections \in Seq(Conns) /\ callbacks \in [Conns -> Nat]
        /\ \A c \in Conns : Started(c)' <=> Started(c)
      BY DEF TypeOK, ServerLinkTypeOK, BrowserTypeOK, agentVars, Begun, Started
  <1>1. Known(c2a', Begun)
      <2>1. ASSUME NEW e \in Message, BrowserSend(e), e.type = "SDSRV" => e.token \in Begun
            PROVE  Known(c2a', Begun)
          BY <1>0, <2>1, KnownAppend DEF BrowserSend, Calls
      <2>2. CASE SendConnect
          <3>1. /\ Cmd("CONNECT", Server) \in Message /\ BrowserSend(Cmd("CONNECT", Server))
                /\ Cmd("CONNECT", Server).type # "SDSRV"
              BY <2>2, MessageFacts DEF SendConnect, Cmd
          <3> QED BY <2>1, <3>1
      <2>3. CASE HandleInTask
          BY <2>3 DEF HandleInTask, FirstReply, NewConnection, KnownConnection, Calls
      <2>4. ASSUME NEW c \in Conns, Write(c) \/ CloseWriter(c)
            PROVE  Known(c2a', Begun)
          <3>1. PICK n \in Nat : BrowserSend(SDSRV(c, n))
              BY <2>4 DEF Write, CloseWriter, TypeOK, BrowserTypeOK, End
          <3>2. SDSRV(c, n) \in Message /\ SDSRV(c, n).token = c
              BY MessageFacts DEF SDSRV
          <3>3. c \in Begun
              BY <2>4 DEF Write, CloseWriter, Calls, Begun
          <3> QED BY <2>1, <3>1, <3>2, <3>3
      <2>5. CASE CloseServer
          BY <2>5, KnownClosed
      <2> QED BY <2>2, <2>3, <2>4, <2>5 DEF BrowserNext
  <1>2. Known(a2c', Begun)
      <2>1. a2c' = a2c \/ (a2c # <<>> /\ a2c' = Tail(a2c))
          BY DEF BrowserNext, SendConnect, HandleInTask, FirstReply, NewConnection,
                 KnownConnection, HandleIn, CloseServer, Write, CloseWriter
      <2> QED BY <1>0, <2>1, KnownTail DEF Calls
  <1>3. \A c \in Conns : /\ callbacks'[c] = IF Contains(connections', c) THEN 1 ELSE 0
                         /\ Contains(connections', c) => Started(c)
      <2>1. ASSUME NEW d \in Conns, NewConnection(d)
            PROVE  \A c \in Conns : /\ callbacks'[c] = IF Contains(connections', c) THEN 1 ELSE 0
                                    /\ Contains(connections', c) => Started(c)
          <3>1. /\ ~Contains(connections, d) /\ connections' = Append(connections, d)
                /\ callbacks' = [callbacks EXCEPT ![d] = callbacks[d] + 1]
                /\ a2c # <<>> /\ Head(a2c).type = "SDSRV" /\ Head(a2c).token = d
              BY <2>1 DEF NewConnection, HandleIn
          <3>2. d \in Begun
              BY <1>0, <3>1, KnownTail DEF Calls
          <3>3. \A c : Contains(connections', c) <=> Contains(connections, c) \/ c = d
              BY <1>0, <3>1, Register
          <3>4. callbacks[d] = 0 /\ callbacks'[d] = 1
              BY <1>0, <3>1 DEF Calls
          <3> QED BY <1>0, <3>1, <3>2, <3>3, <3>4 DEF Calls, Begun
      <2>2. CASE ~ \E d \in Conns : NewConnection(d)
          <3>1. UNCHANGED <<callbacks, connections>>
              BY <2>2 DEF BrowserNext, SendConnect, HandleInTask, FirstReply,
                          KnownConnection, CloseServer, Write, CloseWriter
          <3> QED BY <3>1 DEF Calls
      <2> QED BY <2>1, <2>2
  <1> QED BY <1>0, <1>1, <1>2, <1>3 DEF Calls

LEMMA CallsStep == Inv /\ [Next]_vars => Calls'
  <1> SUFFICES ASSUME Inv, [Next]_vars
               PROVE  Calls'
      OBVIOUS
  <1>0. TypeOK /\ Owned /\ Calls
      BY DEF Inv
  <1>1. CASE AgentNext /\ UNCHANGED browserVars
      BY <1>0, <1>1, CallsAgent
  <1>2. CASE BrowserNext /\ UNCHANGED agentVars
      BY <1>0, <1>2, CallsBrowser
  <1>3. CASE LinkFailure
      <2>1. /\ UNCHANGED <<callbacks, connections, run>>
            /\ Begun' = Begun /\ \A c \in Conns : Started(c)' <=> Started(c)
          BY <1>3 DEF LinkFailure, agentVars, browserVars, Begun, Started
      <2>2. Known(a2c', Begun)
          BY <1>0, <1>3, KnownPrefix DEF LinkFailure, WsLost, Calls, TypeOK, ServerLinkTypeOK
      <2>3. Known(c2a', Begun)
          BY <1>0, <1>3, KnownPrefix DEF LinkFailure, WsLost, Calls, TypeOK, ServerLinkTypeOK
      <2> QED BY <1>0, <2>1, <2>2, <2>3 DEF Calls
  <1>4. CASE UNCHANGED vars
      BY <1>0, <1>4 DEF vars, linkVars, agentVars, browserVars, Calls, Begun, Started
  <1> QED BY <1>1, <1>2, <1>3, <1>4 DEF Next

-----------------------------------------------------------------------------
(* How the server starts.                                                   *)

LEMMA ConnectTail ==
    ASSUME NEW ch \in Seq(Message), ch # <<>>, OneConnect(ch)
    PROVE  /\ OneConnect(Tail(ch))
           /\ Connects(Tail(ch)) # {} => Connects(ch) # {}
           /\ Head(ch).type = "CONNECT" => Connects(ch) # {} /\ Connects(Tail(ch)) = {}
  <1>1. /\ DOMAIN Tail(ch) = 1..(Len(ch) - 1) /\ DOMAIN ch = 1..Len(ch)
        /\ \A i \in 1..(Len(ch) - 1) : Tail(ch)[i] = ch[i + 1]
        /\ Head(ch) = ch[1] /\ Len(ch) \in Nat \ {0}
      BY Shift
  <1>2. \A i \in Connects(Tail(ch)) : i \in Nat \ {0} /\ i + 1 \in Connects(ch)
      BY <1>1 DEF Connects
  <1>3. OneConnect(Tail(ch))
      <2> SUFFICES ASSUME NEW i \in Connects(Tail(ch)), NEW j \in Connects(Tail(ch))
                   PROVE  i = j
          BY DEF OneConnect
      <2>1. i \in Nat /\ j \in Nat /\ i + 1 = j + 1
          BY <1>2 DEF OneConnect
      <2> QED BY <2>1
  <1>4. Head(ch).type = "CONNECT" => 1 \in Connects(ch)
      BY <1>1 DEF Connects
  <1>5. ASSUME Head(ch).type = "CONNECT", NEW i \in Connects(Tail(ch)) PROVE FALSE
      <2>1. i \in Nat \ {0} /\ i + 1 = 1
          BY <1>2, <1>4, <1>5 DEF OneConnect
      <2> QED BY <2>1
  <1> QED BY <1>2, <1>3, <1>4, <1>5

LEMMA ConnectAppend ==
    ASSUME NEW ch \in Seq(Message), OneConnect(ch), NEW e \in Message
    PROVE  /\ e.type # "CONNECT" =>
                 /\ OneConnect(Append(ch, e))
                 /\ Connects(Append(ch, e)) # {} => Connects(ch) # {}
           /\ Connects(ch) = {} => OneConnect(Append(ch, e))
  <1>1. /\ DOMAIN Append(ch, e) = 1..(Len(ch) + 1) /\ DOMAIN ch = 1..Len(ch)
        /\ \A i \in 1..Len(ch) : Append(ch, e)[i] = ch[i]
        /\ Append(ch, e)[Len(ch) + 1] = e /\ Len(ch) \in Nat
      BY Extend
  <1>2. \A i \in Connects(Append(ch, e)) :
           i \in Connects(ch) \/ (i = Len(ch) + 1 /\ e.type = "CONNECT")
      BY <1>1 DEF Connects
  <1> QED BY <1>2 DEF OneConnect

LEMMA ConnectPrefix ==
    ASSUME NEW ch \in Seq(Message), OneConnect(ch), NEW k \in 0..Len(ch)
    PROVE  /\ OneConnect(SubSeq(ch, 1, k))
           /\ Connects(SubSeq(ch, 1, k)) # {} => Connects(ch) # {}
  <1>1. /\ DOMAIN SubSeq(ch, 1, k) = 1..k /\ DOMAIN ch = 1..Len(ch) /\ Len(ch) \in Nat
        /\ \A i \in 1..k : SubSeq(ch, 1, k)[i] = ch[i]
      BY Prefix
  <1>2. Connects(SubSeq(ch, 1, k)) \subseteq Connects(ch)
      BY <1>1 DEF Connects
  <1> QED BY <1>2 DEF OneConnect

LEMMA ConnectConcat ==
    ASSUME NEW ch \in Seq(Message), NEW more \in Seq(Message),
           \A i \in DOMAIN more : more[i].type # "CONNECT"
    PROVE  Connects(ch \o more) = Connects(ch)
  <1>1. /\ DOMAIN ch = 1..Len(ch) /\ Len(ch) \in Nat
        /\ DOMAIN more = 1..Len(more) /\ Len(more) \in Nat
        /\ DOMAIN (ch \o more) = 1..(Len(ch) + Len(more))
        /\ \A i \in 1..(Len(ch) + Len(more)) :
              (ch \o more)[i] = IF i <= Len(ch) THEN ch[i] ELSE more[i - Len(ch)]
      OBVIOUS
  <1>2. \A i \in 1..(Len(ch) + Len(more)) :
           ~(i <= Len(ch)) => i - Len(ch) \in DOMAIN more
      BY <1>1
  <1>3. Connects(ch) \subseteq Connects(ch \o more)
      BY <1>1 DEF Connects
  <1>4. Connects(ch \o more) \subseteq Connects(ch)
      BY <1>1, <1>2 DEF Connects
  <1> QED BY <1>3, <1>4

LEMMA OnceInit == Init => Once
  <1> SUFFICES ASSUME Init PROVE Once
      OBVIOUS
  <1>1. c2a = <<>> /\ Connects(c2a) = {}
      BY DEF Init, LinkInit, Connects
  <1> QED BY <1>1 DEF Init, LinkInit, AgentInit, BrowserInit, Once, OneConnect, Idle

\* Until the server listens there is nothing to say but the answer.
LEMMA Early ==
    ASSUME TypeOK, Owned, Calls, Once, AgentNext, server \in {"none", "starting"}
    PROVE  run' = run /\ (a2c' = a2c \/ Answers)
  <1> USE DEF linkVars, dispVars, peerVars
  <1>1. \A c \in Conns : run[c] = "none"
      BY DEF Once
  <1>2. run' = run
      <2>1. CASE \E c \in Conns : Accept(c) \/ RunTask(c)
          BY <1>1, <2>1 DEF Accept, Listening, RunTask, Announce, AnnounceRaises,
                            ReadData, ReadEof, ReadCancelled, RunStop, RunStopEnd
      <2>2. CASE Bind \/ Terminate \/ \E c \in Conns : PeerSend(c) \/ PeerClose(c)
          BY <2>2 DEF Bind, BindOk, BindFail, BindRegister, BindLost, Terminate,
                      PeerSend, PeerClose
      <2>3. CASE Dispatch
          BY <2>3 DEF Dispatch, DispatchBind, DispatchClose, DispatchEarlyOk, DispatchWrite,
                      DispatchUnknown, DrainDone, DrainStop, DrainStopEnd, CloseNext,
                      CloseStopEnd, CloseKeyError, CloseDone
      <2> QED BY <2>1, <2>2, <2>3 DEF AgentNext
  <1>3. \A c \in Conns : ~Started(c) /\ ~Started(c)'
      BY <1>1, <1>2 DEF Started
  <1> QED BY <1>2, <1>3, AgentSays DEF Quiet, Says, Reads

LEMMA ServerMoves ==
    ASSUME TypeOK, Once, AgentNext
    PROVE  \/ server' = server
           \/ DispatchBind
           \/ Answers
           \/ /\ server \notin {"none", "starting"} /\ server' \notin {"none", "starting"}
              /\ disp'.at \notin {"close", "closestop"}
           \/ Terminate
  <1> USE DEF linkVars, dispVars, peerVars
  <1>1. CASE BindOk \/ BindFail
      BY <1>1 DEF BindOk, BindFail, Answers
  <1>2. CASE BindRegister \/ BindLost
      <2>1. server = "listening" /\ server' \in {"registered", "leaked"} /\ disp' = disp
          BY <1>2 DEF BindRegister, BindLost
      <2>2. disp.at \notin {"close", "closestop"}
          BY <2>1 DEF Once
      <2> QED BY <2>1, <2>2
  <1>3. CASE CloseDone
      <2>1. server = "registered" /\ server' = "closed" /\ disp'.at = "idle"
          BY <1>3 DEF CloseDone, Once, Idle
      <2> QED BY <2>1
  <1>4. CASE \E c \in Conns : Accept(c) \/ PeerSend(c) \/ PeerClose(c) \/ RunTask(c)
      BY <1>4 DEF Accept, PeerSend, PeerClose, RunTask, Announce, AnnounceRaises,
                  ReadData, ReadEof, ReadCancelled, RunStop, RunStopEnd
  <1>5. CASE \/ DispatchClose \/ DispatchEarlyOk
             \/ \E c \in Conns : DispatchWrite(c) \/ DispatchUnknown(c)
             \/ DrainDone \/ DrainStop \/ DrainStopEnd
             \/ CloseNext \/ CloseStopEnd \/ CloseKeyError
      BY <1>5 DEF DispatchClose, DispatchEarlyOk, DispatchWrite, DispatchUnknown,
                  DrainDone, DrainStop, DrainStopEnd, CloseNext, CloseStopEnd, CloseKeyError
  <1> QED BY <1>1, <1>2, <1>3, <1>4, <1>5 DEF AgentNext, Dispatch, Bind

\* Where process_incoming is when a server is being closed.
LEMMA ClosingMoves ==
    ASSUME TypeOK, Once, AgentNext
    PROVE  \/ disp'.at \notin {"close", "closestop"}
           \/ disp.at \in {"close", "closestop"}
           \/ server = "registered" /\ server' = server
  <1> USE DEF linkVars, dispVars, peerVars
  <1>1. CASE DispatchClose
      BY <1>1 DEF DispatchClose
  <1>2. CASE \/ Bind \/ Terminate \/ DispatchBind \/ DispatchEarlyOk
             \/ \E c \in Conns : DispatchUnknown(c)
             \/ \E c \in Conns : Accept(c) \/ PeerSend(c) \/ PeerClose(c) \/ RunTask(c)
      <2>1. disp' = disp
          BY <1>2 DEF Bind, BindOk, BindFail, BindRegister, BindLost, Terminate,
                      DispatchBind, DispatchEarlyOk, DispatchUnknown, Accept, PeerSend,
                      PeerClose, RunTask, Announce, AnnounceRaises, ReadData, ReadEof,
                      ReadCancelled, RunStop, RunStopEnd
      <2> QED BY <2>1
  <1>3. CASE \/ \E c \in Conns : DispatchWrite(c)
             \/ DrainDone \/ DrainStop \/ DrainStopEnd \/ CloseKeyError \/ CloseDone
      <2>1. disp'.at \in {"idle", "drain", "stop"}
          <3>1. CASE \E c \in Conns : DispatchWrite(c)
              BY <3>1 DEF DispatchWrite, Idle
          <3>2. CASE DrainStop
              BY <3>2 DEF DrainStop, Idle, TypeOK, AgentTypeOK, DispState
          <3>3. CASE DrainDone \/ DrainStopEnd \/ CloseKeyError \/ CloseDone
              BY <3>3 DEF DrainDone, DrainStopEnd, CloseKeyError, CloseDone, Idle
          <3> QED BY <1>3, <3>1, <3>2, <3>3
      <2> QED BY <2>1
  <1>4. CASE CloseNext \/ CloseStopEnd
      BY <1>4 DEF CloseNext, CloseStopEnd
  <1> QED BY <1>1, <1>2, <1>3, <1>4 DEF AgentNext, Dispatch

LEMMA OnceAgent ==
    ASSUME TypeOK, Owned, Calls, Once, AgentNext, UNCHANGED browserVars
    PROVE  Once'
  <1>0. /\ c2a \in Seq(Message) /\ a2c \in Seq(Message) /\ binding' = binding
        /\ wsUp' = wsUp /\ server \in ServerState
      BY AgentSays DEF TypeOK, ServerLinkTypeOK, AgentTypeOK, browserVars
  <1>1. \/ server' = server
        \/ DispatchBind
        \/ Answers
        \/ /\ server \notin {"none", "starting"} /\ server' \notin {"none", "starting"}
           /\ disp'.at \notin {"close", "closestop"}
        \/ Terminate
      BY ServerMoves
  <1>2. server \in {"none", "starting"} => run' = run /\ (a2c' = a2c \/ Answers)
      BY Early
  <1>3. /\ OneConnect(c2a')
        /\ Connects(c2a') # {} => Connects(c2a) # {}
        /\ DispatchBind => Connects(c2a) # {} /\ Connects(c2a') = {}
      <2>1. c2a' = c2a \/ (c2a # <<>> /\ c2a' = Tail(c2a))
          BY AgentHears DEF DispatchWrite, DispatchUnknown, Receive
      <2>2. OneConnect(c2a)
          BY DEF Once
      <2>3. DispatchBind => c2a # <<>> /\ c2a' = Tail(c2a) /\ Head(c2a).type = "CONNECT"
          BY DEF DispatchBind, Receive, Cmd
      <2> QED BY <1>0, <2>1, <2>2, <2>3, ConnectTail
  <1>4. \/ disp'.at \notin {"close", "closestop"}
        \/ disp.at \in {"close", "closestop"}
        \/ server = "registered" /\ server' = server
      BY ClosingMoves
  <1>5. DispatchBind => /\ server' = "starting" /\ a2c' = a2c /\ run' = run
                        /\ disp' = disp /\ disp.at = "idle"
      BY DEF DispatchBind, dispVars, Receive
  <1>6. Answers => /\ server = "starting" /\ server' \in {"listening", "failed"}
                   /\ wsUp => /\ a2c' # <<>>
                              /\ a2c = <<>> => Head(a2c').type # "SDSRV"
      <2>1. \A type : Cmd(type, Server).type = type
          BY DEF Cmd
      <2> QED BY <1>0, <2>1 DEF Answers, AgentSend
  <1>7. Terminate => /\ ~wsUp /\ disp'.at = "idle" /\ a2c' = a2c /\ run' = run
                     /\ server' = "none" <=> server = "none"
                     /\ server' # "starting" /\ c2a' = c2a
      BY <1>0 DEF Terminate, linkVars, ServerState
  <1>8. a2c # <<>> => a2c' # <<>> /\ Head(a2c') = Head(a2c)
      <2>1. a2c' = a2c \/ \E e \in Message : a2c' = Append(a2c, e)
          <3>1. \A type \in {"CONTINUE", "ERR"} : Cmd(type, Server) \in Message
              BY MessageFacts
          <3>2. \A c \in Conns : SDSRV(c, End) \in Message /\ SDSRV(c, taken[c] + 1) \in Message
              BY MessageFacts DEF TypeOK, AgentTypeOK
          <3> QED BY <3>1, <3>2, AgentSays DEF Quiet, Says, Reads, Answers, AgentSend
      <2>2. ASSUME NEW e \in Message, a2c # <<>>, a2c' = Append(a2c, e)
            PROVE  a2c' # <<>> /\ Head(a2c') = Head(a2c)
          <3>1. 1 \in 1..Len(a2c) /\ Head(a2c) = a2c[1]
              BY <1>0, <2>2, Shift
          <3>2. a2c' \in Seq(Message) /\ a2c'[1] = a2c[1] /\ a2c' # <<>>
              BY <1>0, <2>2, <3>1
          <3> QED BY <3>1, <3>2
      <2> QED BY <2>1, <2>2
  <1>9. disp'.at \in {"close", "closestop"} => server' = "registered"
      BY <1>1, <1>4, <1>5, <1>6, <1>7 DEF Once
  <1>10. Connects(c2a') # {} => server' = "none" /\ binding' # "idle"
      BY <1>0, <1>1, <1>3, <1>6, <1>7 DEF Once
  <1>11. binding' = "idle" => server' = "none"
      BY <1>0, <1>1, <1>3, <1>6, <1>7 DEF Once
  <1>12. server' \in {"none", "starting"} => a2c' = <<>> /\ \A c \in Conns : run'[c] = "none"
      BY <1>0, <1>1, <1>2, <1>3, <1>5, <1>6, <1>7 DEF Once
  <1>13. binding' \in {"idle", "connecting"} =>
            /\ a2c' # <<>> => Head(a2c').type # "SDSRV"
            /\ a2c' = <<>> /\ wsUp' => server' \in {"none", "starting"}
      <2> SUFFICES ASSUME binding \in {"idle", "connecting"}
                   PROVE  /\ a2c' # <<>> => Head(a2c').type # "SDSRV"
                          /\ a2c' = <<>> /\ wsUp => server' \in {"none", "starting"}
          BY <1>0
      <2>1. CASE a2c # <<>>
          BY <1>8, <2>1 DEF Once
      <2>2. CASE a2c = <<>> /\ ~wsUp
          <3>1. a2c' = a2c
              BY <2>2, AgentSays DEF Quiet, Says, Reads, Answers, AgentSend
          <3> QED BY <2>2, <3>1
      <2>3. CASE a2c = <<>> /\ wsUp
          <3>1. server \in {"none", "starting"}
              BY <2>3 DEF Once
          <3> QED BY <1>1, <1>2, <1>5, <1>6, <1>7, <2>3, <3>1
      <2> QED BY <2>1, <2>2, <2>3
  <1> QED BY <1>3, <1>9, <1>10, <1>11, <1>12, <1>13 DEF Once

LEMMA OnceBrowser ==
    ASSUME TypeOK, Once, BrowserNext, UNCHANGED agentVars
    PROVE  Once'
  <1>0. /\ c2a \in Seq(Message) /\ a2c \in Seq(Message)
        /\ UNCHANGED <<server, run, disp>> /\ OneConnect(c2a)
      BY DEF TypeOK, ServerLinkTypeOK, agentVars, dispVars, Once
  <1>1. CASE SendConnect
      <2>1. /\ binding = "idle" /\ binding' = "connecting" /\ UNCHANGED <<a2c, wsUp>>
            /\ server = "none" /\ Connects(c2a) = {}
            /\ Cmd("CONNECT", Server) \in Message
            /\ c2a' = Append(c2a, Cmd("CONNECT", Server)) \/ c2a' = c2a
          BY <1>1, MessageFacts DEF SendConnect, BrowserSend, Once
      <2>2. OneConnect(c2a')
          BY <1>0, <2>1, ConnectAppend
      <2> QED BY <1>0, <2>1, <2>2 DEF Once
  <1>2. CASE HandleInTask
      <2>1. /\ UNCHANGED <<c2a, wsUp>> /\ a2c # <<>>
            /\ binding' \in {"serving", "failed"}
          BY <1>2 DEF HandleInTask, FirstReply, NewConnection, KnownConnection, HandleIn
      <2> QED BY <1>0, <2>1 DEF Once
  <1>3. ASSUME UNCHANGED <<a2c, wsUp, binding>>, OneConnect(c2a'),
               Connects(c2a') # {} => Connects(c2a) # {}
        PROVE  Once'
      BY <1>0, <1>3 DEF Once
  <1>4. ASSUME NEW c \in Conns, Write(c) \/ CloseWriter(c) PROVE Once'
      <2>1. PICK n \in Nat : BrowserSend(SDSRV(c, n))
          BY <1>4 DEF Write, CloseWriter, TypeOK, BrowserTypeOK, End
      <2>2. SDSRV(c, n) \in Message /\ SDSRV(c, n).type # "CONNECT"
          BY MessageFacts DEF SDSRV
      <2>3. OneConnect(c2a') /\ (Connects(c2a') # {} => Connects(c2a) # {})
          BY <1>0, <2>1, <2>2, ConnectAppend DEF BrowserSend
      <2>4. UNCHANGED <<a2c, wsUp, binding>>
          BY <1>4 DEF Write, CloseWriter
      <2> QED BY <1>3, <2>3, <2>4
  <1>5. CASE CloseServer
      <2> DEFINE ends == [i \in DOMAIN connections |-> SDSRV(connections[i], End)]
                 ok == Cmd("OK", Server)
      <2>1. /\ connections \in Seq(Conns) /\ UNCHANGED <<a2c, wsUp, binding>>
            /\ c2a' = IF wsUp THEN Append(c2a \o ends, ok) ELSE c2a
          BY <1>5 DEF TypeOK, BrowserTypeOK, CloseServer
      <2>2. /\ ends \in Seq(Message) /\ ok \in Message /\ ok.type # "CONNECT"
            /\ \A i \in DOMAIN ends : ends[i].type # "CONNECT"
          BY <2>1, EndsFacts, MessageFacts DEF Cmd, SDSRV
      <2> HIDE DEF ends, ok
      <2>3. Connects(c2a \o ends) = Connects(c2a) /\ c2a \o ends \in Seq(Message)
          BY <1>0, <2>2, ConnectConcat
      <2>4. OneConnect(c2a \o ends)
          BY <1>0, <2>3 DEF OneConnect
      <2>5. OneConnect(c2a') /\ (Connects(c2a') # {} => Connects(c2a) # {})
          BY <1>0, <2>1, <2>2, <2>3, <2>4, ConnectAppend
      <2> QED BY <1>3, <2>1, <2>5
  <1> QED BY <1>1, <1>2, <1>4, <1>5 DEF BrowserNext

LEMMA OnceStep == Inv /\ [Next]_vars => Once'
  <1> SUFFICES ASSUME Inv, [Next]_vars
               PROVE  Once'
      OBVIOUS
  <1>0. /\ TypeOK /\ Owned /\ Calls /\ Once /\ a2c \in Seq(Message)
        /\ c2a \in Seq(Message)
      BY DEF Inv, TypeOK, ServerLinkTypeOK
  <1>1. CASE AgentNext /\ UNCHANGED browserVars
      BY <1>0, <1>1, OnceAgent
  <1>2. CASE BrowserNext /\ UNCHANGED agentVars
      BY <1>0, <1>2, OnceBrowser
  <1>3. CASE LinkFailure
      <2>1. UNCHANGED <<server, run, disp, binding>> /\ ~wsUp'
          BY <1>3 DEF LinkFailure, WsLost, agentVars, browserVars, dispVars
      <2>2. OneConnect(c2a') /\ (Connects(c2a') # {} => Connects(c2a) # {})
          BY <1>0, <1>3, ConnectPrefix DEF LinkFailure, WsLost, Once
      <2>3. /\ a2c = <<>> => a2c' = <<>>
            /\ a2c' # <<>> => a2c # <<>> /\ Head(a2c') = Head(a2c)
          <3>1. PICK k \in 0..Len(a2c) : a2c' = SubSeq(a2c, 1, k)
              BY <1>3 DEF LinkFailure, WsLost
          <3> QED BY <1>0, <3>1
      <2> QED BY <1>0, <2>1, <2>2, <2>3 DEF Once
  <1>4. CASE UNCHANGED vars
      BY <1>0, <1>4 DEF vars, linkVars, agentVars, dispVars, browserVars, Once
  <1> QED BY <1>1, <1>2, <1>3, <1>4 DEF Next

-----------------------------------------------------------------------------
(* What the browser hears of a connection.                                  *)

LEMMA AnnouncedInit == Init => Announced
  BY DEF Init, AgentInit, Announced, Spoken, Started

\* The channel grows.
LEMMA HeardMore ==
    ASSUME NEW e \in Message, a2c \in Seq(Message), a2c' = Append(a2c, e),
           UNCHANGED <<connections, in_q, binding>>, NEW c
    PROVE  /\ Heard(c) => Heard(c)'
           /\ e.token = c => Heard(c)'
           /\ EndHeard(c) => EndHeard(c)'
           /\ e = SDSRV(c, End) /\ (Heard(c) \/ binding = "failed") => EndHeard(c)'
  <1>1. /\ DOMAIN a2c' = 1..(Len(a2c) + 1) /\ DOMAIN a2c = 1..Len(a2c)
        /\ \A i \in 1..Len(a2c) : a2c'[i] = a2c[i]
        /\ a2c'[Len(a2c) + 1] = e /\ Len(a2c) \in Nat
      BY Extend
  <1>2. Heard(c) => Heard(c)'
      BY <1>1 DEF Heard
  <1>3. e.token = c => Heard(c)'
      BY <1>1 DEF Heard
  <1>4. ASSUME EndHeard(c) PROVE EndHeard(c)'
      <2>1. CASE \/ \E i \in DOMAIN in_q[c] : in_q[c][i] = End
                 \/ binding = "failed"
          BY <2>1 DEF EndHeard
      <2>2. CASE \E i \in DOMAIN a2c : /\ a2c[i] = SDSRV(c, End)
                                       /\ \/ Contains(connections, c)
                                          \/ \E j \in 1..(i - 1) : a2c[j].token = c
          <3>1. PICK i \in DOMAIN a2c : /\ a2c[i] = SDSRV(c, End)
                                        /\ \/ Contains(connections, c)
                                           \/ \E j \in 1..(i - 1) : a2c[j].token = c
              BY <2>2
          <3>2. i \in DOMAIN a2c' /\ \A j \in 1..i : a2c'[j] = a2c[j]
              BY <1>1
          <3>3. a2c'[i] = SDSRV(c, End)
              BY <1>1, <3>1
          <3>4. \/ Contains(connections', c)
                \/ \E j \in 1..(i - 1) : a2c'[j].token = c
              BY <1>1, <3>1, <3>2
          <3> QED BY <3>2, <3>3, <3>4 DEF EndHeard, SDSRV
      <2> QED BY <1>4, <2>1, <2>2 DEF EndHeard
  <1>5. ASSUME e = SDSRV(c, End), Heard(c) \/ binding = "failed" PROVE EndHeard(c)'
      <2> DEFINE i == Len(a2c) + 1
      <2>1. i \in DOMAIN a2c' /\ a2c'[i] = SDSRV(c, End)
          BY <1>1, <1>5
      <2>2. CASE binding = "failed" \/ Contains(connections, c)
          BY <2>1, <2>2 DEF EndHeard, SDSRV
      <2>3. CASE \E j \in DOMAIN a2c : a2c[j].token = c
          <3>1. \E j \in 1..(i - 1) : a2c'[j].token = c
              BY <1>1, <2>3
          <3> QED BY <2>1, <3>1 DEF EndHeard, SDSRV
      <2> QED BY <1>5, <2>2, <2>3 DEF Heard
  <1> QED BY <1>2, <1>3, <1>4, <1>5

\* The head of the channel is taken.  If it is for c, c is known from then on,
\* and an End is put in its queue if it was known before.
LEMMA HeardTaken ==
    ASSUME a2c \in Seq(Message), a2c # <<>>, a2c' = Tail(a2c), binding # "failed",
           NEW c \in Conns, in_q[c] \in Seq(Nat),
           Contains(connections, c) => Contains(connections', c),
           Head(a2c).token = c => Contains(connections', c),
           Head(a2c) = SDSRV(c, End) /\ Contains(connections, c) =>
              in_q'[c] = Append(in_q[c], End),
           in_q'[c] = in_q[c] \/ \E n \in Nat : in_q'[c] = Append(in_q[c], n)
    PROVE  /\ Heard(c) => Heard(c)'
           /\ EndHeard(c) => EndHeard(c)'
  <1>1. /\ DOMAIN a2c' = 1..(Len(a2c) - 1) /\ DOMAIN a2c = 1..Len(a2c)
        /\ \A i \in 1..(Len(a2c) - 1) : a2c'[i] = a2c[i + 1]
        /\ Head(a2c) = a2c[1] /\ Len(a2c) \in Nat \ {0}
      BY Shift
  <1>2. \A j \in DOMAIN a2c : j # 1 => j - 1 \in DOMAIN a2c' /\ a2c'[j - 1] = a2c[j]
      BY <1>1
  <1>3. Heard(c) => Heard(c)'
      BY <1>1, <1>2 DEF Heard
  <1>4. ASSUME \E i \in DOMAIN in_q[c] : in_q[c][i] = End PROVE EndHeard(c)'
      <2>1. PICK i \in DOMAIN in_q[c] : in_q[c][i] = End
          BY <1>4
      <2>2. i \in DOMAIN in_q'[c] /\ in_q'[c][i] = End
          <3>1. \A n \in Nat : /\ i \in DOMAIN Append(in_q[c], n)
                               /\ Append(in_q[c], n)[i] = in_q[c][i]
              BY <2>1
          <3> QED BY <2>1, <3>1
      <2> QED BY <2>2 DEF EndHeard
  <1>5. ASSUME NEW i \in DOMAIN a2c, a2c[i] = SDSRV(c, End),
               \/ Contains(connections, c)
               \/ \E j \in 1..(i - 1) : a2c[j].token = c
        PROVE  EndHeard(c)'
      <2>1. CASE i = 1
          <3>1. Contains(connections, c) /\ Head(a2c) = SDSRV(c, End)
              BY <1>1, <1>5, <2>1
          <3>2. in_q'[c] = Append(in_q[c], End) /\ End \in Nat
              BY <3>1 DEF End
          <3>3. Len(in_q[c]) + 1 \in DOMAIN in_q'[c] /\ in_q'[c][Len(in_q[c]) + 1] = End
              BY <3>2
          <3> QED BY <3>3 DEF EndHeard
      <2>2. CASE i # 1
          <3>1. i - 1 \in DOMAIN a2c' /\ a2c'[i - 1] = SDSRV(c, End)
              BY <1>2, <1>5, <2>2
          <3>2. CASE Contains(connections', c)
              BY <3>1, <3>2 DEF EndHeard, SDSRV
          <3>3. CASE ~Contains(connections', c)
              <4>1. PICK j \in 1..(i - 1) : a2c[j].token = c
                  BY <1>5, <3>3
              <4>2. j # 1
                  BY <1>1, <3>3, <4>1
              <4>3. j - 1 \in 1..((i - 1) - 1) /\ a2c'[j - 1].token = c
                  BY <1>1, <1>2, <4>1, <4>2
              <4> QED BY <3>1, <4>3 DEF EndHeard, SDSRV
          <3> QED BY <3>2, <3>3
      <2> QED BY <2>1, <2>2
  <1> QED BY <1>3, <1>4, <1>5 DEF EndHeard

LEMMA AnnouncedAgent ==
    ASSUME TypeOK, Owned, Calls, Announced, AgentNext, UNCHANGED browserVars
    PROVE  Announced'
  <1>0. /\ a2c \in Seq(Message) /\ UNCHANGED <<connections, in_q, binding>>
        /\ wsUp' = wsUp
      BY AgentSays DEF TypeOK, ServerLinkTypeOK, browserVars
  <1> SUFFICES ASSUME wsUp, NEW c \in Conns
               PROVE  /\ Spoken(c)' => Heard(c)' \/ binding' = "failed"
                      /\ Spoken(c)' /\ c \in evt' => EndHeard(c)'
      BY <1>0 DEF Announced
  <1>1. /\ Spoken(c) => Heard(c) \/ binding = "failed"
        /\ Spoken(c) /\ c \in evt => EndHeard(c)
      BY DEF Announced
  <1>2. CASE Quiet
      <2>1. a2c' = a2c /\ evt' = evt /\ (Spoken(c)' <=> Spoken(c))
          BY <1>2 DEF Quiet, SameSpoken
      <2>2. (Heard(c)' <=> Heard(c)) /\ (EndHeard(c)' <=> EndHeard(c))
          BY <1>0, <2>1 DEF Heard, EndHeard, SDSRV
      <2> QED BY <1>0, <1>1, <2>1, <2>2
  <1>3. CASE Answers
      <2>1. PICK type \in {"CONTINUE", "ERR"} : AgentSend(Cmd(type, Server))
          BY <1>3 DEF Answers
      <2>2. Cmd(type, Server) \in Message /\ a2c' = Append(a2c, Cmd(type, Server))
          BY <2>1, MessageFacts DEF AgentSend
      <2>3. evt' = evt /\ (Spoken(c)' <=> Spoken(c))
          BY <1>3 DEF Answers, Spoken, Started
      <2> QED BY <1>0, <1>1, <2>2, <2>3, HeardMore
  <1>4. ASSUME NEW d \in Conns, Says(d)
        PROVE  /\ Spoken(c)' => Heard(c)' \/ binding' = "failed"
               /\ Spoken(c)' /\ c \in evt' => EndHeard(c)'
      <2>1. /\ SDSRV(d, End) \in Message /\ a2c' = Append(a2c, SDSRV(d, End))
            /\ SDSRV(d, End).token = d
          BY <1>4, MessageFacts DEF Says, AgentSend, SDSRV
      <2>2. CASE d = c
          <3>1. c \in evt' => c \in evt \/ Started(c)
              BY <1>4, <2>2 DEF Says
          <3>2. c \in evt \/ Started(c) => Started(c)
              BY DEF Owned
          <3>3. Started(c) /\ Spoken(c)' => Spoken(c)
              BY AgentSays DEF Spoken
          <3> QED BY <1>0, <1>1, <2>1, <2>2, <3>1, <3>2, <3>3, HeardMore
      <2>3. CASE d # c
          <3>1. (c \in evt' => c \in evt) /\ (Spoken(c)' <=> Spoken(c))
              BY <1>4, <2>3 DEF Says, SameSpoken
          <3> QED BY <1>0, <1>1, <2>1, <3>1, HeardMore
      <2> QED BY <2>2, <2>3
  <1>5. ASSUME NEW d \in Conns, Reads(d)
        PROVE  /\ Spoken(c)' => Heard(c)' \/ binding' = "failed"
               /\ Spoken(c)' /\ c \in evt' => EndHeard(c)'
      <2> DEFINE e == SDSRV(d, taken[d] + 1)
      <2>1. e \in Message /\ a2c' = Append(a2c, e)
          BY <1>5, MessageFacts DEF Reads, AgentSend, TypeOK, AgentTypeOK
      <2>2. evt' = evt /\ (Spoken(c)' <=> Spoken(c))
          BY <1>5 DEF Reads, SameSpoken
      <2> HIDE DEF e
      <2> QED BY <1>0, <1>1, <2>1, <2>2, HeardMore
  <1> QED BY <1>2, <1>3, <1>4, <1>5, AgentSays

LEMMA AnnouncedBrowser ==
    ASSUME TypeOK, Once, Announced, BrowserNext, UNCHANGED agentVars
    PROVE  Announced'
  <1>0. /\ a2c \in Seq(Message) /\ connections \in Seq(Conns) /\ evt' = evt
        /\ in_q \in [Conns -> Seq(Nat)]
        /\ \A c \in Conns : Spoken(c)' <=> Spoken(c)
      BY DEF TypeOK, ServerLinkTypeOK, BrowserTypeOK, agentVars, Spoken, Started
  <1>a. wsUp' = wsUp
      BY DEF BrowserNext, SendConnect, HandleInTask, FirstReply, NewConnection,
             KnownConnection, CloseServer, Write, CloseWriter
  <1> SUFFICES ASSUME wsUp, NEW c \in Conns
               PROVE  /\ Spoken(c) => Heard(c)' \/ binding' = "failed"
                      /\ Spoken(c) /\ c \in evt => EndHeard(c)'
      BY <1>0, <1>a DEF Announced
  <1>1. /\ Spoken(c) => Heard(c) \/ binding = "failed"
        /\ Spoken(c) /\ c \in evt => EndHeard(c)
      BY DEF Announced
  <1>2. CASE SendConnect \/ CloseServer \/ \E d \in Conns : Write(d) \/ CloseWriter(d)
      <2>1. /\ UNCHANGED <<a2c, connections>> /\ in_q[c] \in Seq(Nat)
            /\ binding = "failed" => binding' = "failed"
            /\ in_q'[c] = in_q[c] \/ in_q'[c] = Append(in_q[c], End)
          BY <1>0, <1>2 DEF SendConnect, CloseServer, Write, CloseWriter
      <2>2. Heard(c) => Heard(c)'
          BY <2>1 DEF Heard
      <2>3. \A i \in DOMAIN in_q[c] : i \in DOMAIN in_q'[c] /\ in_q'[c][i] = in_q[c][i]
          BY <2>1
      <2>4. EndHeard(c) => EndHeard(c)'
          BY <2>1, <2>3 DEF EndHeard, SDSRV
      <2> QED BY <1>1, <2>1, <2>2, <2>4
  <1>3. CASE FirstReply
      <2>1. /\ a2c # <<>> /\ a2c' = Tail(a2c) /\ UNCHANGED <<connections, in_q>>
            /\ binding = "connecting" /\ Head(a2c).type # "SDSRV" /\ Head(a2c) \in Message
          BY <1>0, <1>3, MessageSeq DEF FirstReply, Once
      <2>2. Head(a2c).token # c /\ Head(a2c) # SDSRV(c, End)
          BY <2>1, MessageFacts DEF Conns, SDSRV
      <2>3. binding # "failed" /\ in_q[c] \in Seq(Nat) /\ in_q'[c] = in_q[c]
          BY <1>0, <2>1
      <2>4. /\ Heard(c) => Heard(c)'
            /\ EndHeard(c) => EndHeard(c)'
          BY <1>0, <2>1, <2>2, <2>3, HeardTaken
      <2> QED BY <1>1, <2>1, <2>4
  <1>4. ASSUME NEW d \in Conns, NewConnection(d) \/ KnownConnection(d)
        PROVE  /\ Spoken(c) => Heard(c)' \/ binding' = "failed"
               /\ Spoken(c) /\ c \in evt => EndHeard(c)'
      <2> DEFINE n == Head(a2c).chunk
      <2>1. /\ a2c # <<>> /\ a2c' = Tail(a2c) /\ binding = "serving"
            /\ Head(a2c).type = "SDSRV" /\ Head(a2c).token = d /\ Head(a2c) \in Message
          BY <1>0, <1>4, MessageSeq DEF NewConnection, KnownConnection, HandleIn
      <2>2. n \in Nat
          BY <2>1, MessageFacts
      <2>3. \/ /\ ~Contains(connections, d) /\ connections' = Append(connections, d)
               /\ in_q' = [in_q EXCEPT ![d] = IF n = End THEN @ ELSE Append(@, n)]
            \/ /\ Contains(connections, d) /\ connections' = connections
               /\ in_q' = [in_q EXCEPT ![d] = Append(@, n)]
          BY <1>4 DEF NewConnection, KnownConnection
      <2>4. /\ Contains(connections, c) => Contains(connections', c)
            /\ Head(a2c).token = c => Contains(connections', c)
          <3>1. \A e : Contains(Append(connections, d), e) <=> Contains(connections, e) \/ e = d
              BY <1>0, Register
          <3>2. CASE ~Contains(connections, d) /\ connections' = Append(connections, d)
              BY <2>1, <3>1, <3>2
          <3>3. CASE Contains(connections, d) /\ connections' = connections
              BY <2>1, <3>3
          <3> QED BY <2>3, <3>2, <3>3
      <2>5. Head(a2c) = SDSRV(c, End) => d = c /\ n = End
          BY <2>1 DEF SDSRV
      <2> HIDE DEF n
      <2>6. Head(a2c) = SDSRV(c, End) /\ Contains(connections, c) =>
               in_q'[c] = Append(in_q[c], End)
          BY <1>0, <2>3, <2>5
      <2>7. in_q'[c] = in_q[c] \/ \E m \in Nat : in_q'[c] = Append(in_q[c], m)
          BY <1>0, <2>2, <2>3
      <2>8. binding # "failed" /\ in_q[c] \in Seq(Nat)
          BY <1>0, <2>1
      <2>9. /\ Heard(c) => Heard(c)'
            /\ EndHeard(c) => EndHeard(c)'
          BY <1>0, <2>1, <2>4, <2>6, <2>7, <2>8, HeardTaken
      <2> QED BY <1>1, <2>1, <2>9
  <1> QED BY <1>2, <1>3, <1>4 DEF BrowserNext, HandleInTask

LEMMA AnnouncedStep == Inv /\ [Next]_vars => Announced'
  <1> SUFFICES ASSUME Inv, [Next]_vars
               PROVE  Announced'
      OBVIOUS
  <1>0. TypeOK /\ Owned /\ Calls /\ Once /\ Announced
      BY DEF Inv
  <1>1. CASE AgentNext /\ UNCHANGED browserVars
      BY <1>0, <1>1, AnnouncedAgent
  <1>2. CASE BrowserNext /\ UNCHANGED agentVars
      BY <1>0, <1>2, AnnouncedBrowser
  <1>3. CASE LinkFailure
      BY <1>3 DEF LinkFailure, WsLost, Announced
  <1>4. CASE UNCHANGED vars
      BY <1>0, <1>4 DEF vars, linkVars, agentVars, browserVars, Announced, Heard, EndHeard,
                        Spoken, Started, SDSRV
  <1> QED BY <1>1, <1>2, <1>3, <1>4 DEF Next

-----------------------------------------------------------------------------
(* The theorems.                                                            *)

\* The invariant holds of every behaviour.
THEOREM Invariance == Spec => []Inv
  <1>1. Init => Inv
      BY InitType, OwnedInit, CallsInit, OnceInit, AnnouncedInit, InFlowInit, OutFlowInit
      DEF Inv
  <1>2. Inv /\ [Next]_vars => Inv'
      BY TypeStep, OwnedStep, CallsStep, OnceStep, AnnouncedStep, InFlowStep, OutFlowStep
      DEF Inv
  <1> QED BY <1>1, <1>2, PTL DEF Spec

\* Every variable keeps its type.
THEOREM TypeCorrect == Spec => []TypeOK
  <1>1. Inv => TypeOK
      BY DEF Inv
  <1> QED BY <1>1, Invariance, PTL

\* An entry of server_tcp_connections always has someone who will remove it, but
\* for the entry of a connection whose run() raised before it was announced.
THEOREM EntryAlwaysOwned == Spec => []EntryOwned
  <1>1. ASSUME Inv PROVE EntryOwned
      <2>1. ASSUME NEW c \in Conns, Contains(table, c)
            PROVE  \/ run[c] \in {"reading", "finally", "stopping", "raised"}
                   \/ disp.at \in {"stop", "closestop"} /\ disp.conn = c
                   \/ ~wsUp
          <3>1. Started(c) /\ run[c] \in RunState
              BY <1>1, <2>1 DEF Inv, Owned, TypeOK, AgentTypeOK
          <3>2. run[c] = "done" /\ wsUp => Stopping(c)
              BY <1>1, <2>1 DEF Inv, Owned
          <3> QED BY <3>1, <3>2 DEF Started, Stopping, RunState
      <2>2. \A i, j \in DOMAIN table : table[i] = table[j] => i = j
          BY <1>1 DEF Inv, Owned, Unique
      <2> QED BY <2>1, <2>2 DEF EntryOwned
  <1> QED BY <1>1, Invariance, PTL

\* The application is called once for a connection, and only if one was accepted.
THEOREM AlwaysCalledOnce == Spec => []CalledOnce
  <1>1. Inv => CalledOnce
      BY DEF Inv, Calls, CalledOnce, Started
  <1> QED BY <1>1, Invariance, PTL

\* A connection whose socket the agent closed does not end silently, unless its
\* run() raised before it was announced.
THEOREM EndAlwaysAnnounced == Spec => []EndAnnounced
  <1>1. ASSUME Inv, NEW c \in Conns, sock[c] = "closed", wsUp, run[c] # "raised"
        PROVE  EndHeard(c)
      BY <1>1 DEF Inv, Owned, Announced, Spoken
  <1>2. Inv => EndAnnounced
      BY <1>1 DEF EndAnnounced, EndHeard
  <1> QED BY <1>2, Invariance, PTL

-----------------------------------------------------------------------------
(* Both directions implement OrderedStream.                                 *)

\* The message at the head of a channel has the next chunk.
LEMMA HeadIsNext ==
    ASSUME NEW c \in Conns, NEW ch \in Seq(Message), ch # <<>>, NEW got,
           NEW n \in Nat, NEW k \in Nat, n <= k, InOrder(ch, Lane(c), got, n),
           NEW m \in Nat, m # End, Head(ch) = SDSRV(c, m)
    PROVE  m \in 1..k /\ m \notin got /\ \A l \in 1..(m - 1) : l \in got
  <1> DEFINE new == got \cup {m}
  <1>1. m \in Pos /\ new \cap Pos = (got \cap Pos) \cup {m} /\ IsLane(Lane(c))
      BY LaneFacts DEF Pos, End
  <1>2. Head(ch) = Lane(c)[m]
      BY <1>1, LaneFacts
  <1> HIDE DEF new
  <1>3. /\ m \notin got /\ m <= n /\ \A l \in 1..(m - 1) : l \in got
        /\ InOrder(Tail(ch), Lane(c), new, n)
        /\ Whole(ch, Lane(c), got, n) => Whole(Tail(ch), Lane(c), new, n)
      BY <1>1, <1>2, LaneLeave
  <1> QED BY <1>1, <1>3 DEF Pos

LEMMA InboundInit == Init => Inbound!Init
  BY DEF Init, AgentInit, BrowserInit, Inbound!Init

LEMMA OutboundInit == Init => Outbound!Init
  BY DEF Init, AgentInit, BrowserInit, Outbound!Init

LEMMA SentAgent ==
    ASSUME AgentNext
    PROVE  sent' = sent \/ \E c \in Conns : sent' = [sent EXCEPT ![c] = @ + 1]
  <1> USE DEF dispVars, peerVars, linkVars
  <1>1. CASE \E c \in Conns : Accept(c) \/ PeerSend(c) \/ PeerClose(c) \/ RunTask(c)
      BY <1>1 DEF Accept, PeerSend, PeerClose, RunTask, Announce, AnnounceRaises,
                  ReadData, ReadEof, ReadCancelled, RunStop, RunStopEnd
  <1>2. CASE Bind \/ Terminate
      BY <1>2 DEF Bind, BindOk, BindFail, BindRegister, BindLost, Terminate
  <1>3. CASE Dispatch
      BY <1>3 DEF Dispatch, DispatchBind, DispatchClose, DispatchEarlyOk, DispatchWrite,
                  DispatchUnknown, DrainDone, DrainStop, DrainStopEnd, CloseNext,
                  CloseStopEnd, CloseKeyError, CloseDone
  <1> QED BY <1>1, <1>2, <1>3 DEF AgentNext

LEMMA InboundStep ==
    ASSUME Inv, [Next]_vars
    PROVE  [Inbound!Next]_<<sent, in_q>>
  <1>0. /\ a2c \in Seq(Message) /\ in_q \in [Conns -> Seq(Nat)]
        /\ sent \in [Conns -> Nat] /\ taken \in [Conns -> Nat]
      BY DEF Inv, TypeOK, ServerLinkTypeOK, AgentTypeOK, BrowserTypeOK
  <1>1. CASE AgentNext /\ UNCHANGED browserVars
      <2>1. in_q' = in_q
          BY <1>1 DEF browserVars
      <2>2. sent' = sent \/ \E c \in Conns : sent' = [sent EXCEPT ![c] = @ + 1]
          BY <1>1, SentAgent
      <2> QED BY <2>1, <2>2 DEF Inbound!Next, Inbound!Accept
  <1>2. CASE LinkFailure \/ UNCHANGED vars
      BY <1>2 DEF LinkFailure, vars, agentVars, peerVars, browserVars
  <1>3. CASE BrowserNext /\ UNCHANGED agentVars
      <2>0. sent' = sent
          BY <1>3 DEF agentVars, peerVars
      <2>1. ASSUME NEW S \in SUBSET Conns,
                   in_q' = [c \in Conns |-> IF c \in S THEN Append(in_q[c], 0) ELSE in_q[c]]
            PROVE  Inbound!Next
          BY <2>0, <2>1 DEF Inbound!Next, Inbound!SignalEnd, Inbound!End
      <2>2. CASE SendConnect \/ FirstReply \/ \E d \in Conns : Write(d) \/ CloseWriter(d)
          BY <2>0, <2>2 DEF SendConnect, FirstReply, Write, CloseWriter
      <2>3. CASE CloseServer
          <3> DEFINE S == {c \in Conns : Contains(connections, c)}
          <3>1. in_q' = [c \in Conns |-> IF c \in S THEN Append(in_q[c], 0) ELSE in_q[c]]
              BY <2>3 DEF CloseServer, End
          <3>2. S \in SUBSET Conns
              OBVIOUS
          <3> HIDE DEF S
          <3> QED BY <2>1, <3>1, <3>2
      <2>4. ASSUME NEW d \in Conns, NewConnection(d) \/ KnownConnection(d)
            PROVE  [Inbound!Next]_<<sent, in_q>>
          <3> DEFINE n == Head(a2c).chunk
          <3>1. /\ a2c # <<>> /\ Head(a2c) \in Message
                /\ Head(a2c).type = "SDSRV" /\ Head(a2c).token = d
              BY <1>0, <2>4, MessageSeq DEF NewConnection, KnownConnection, HandleIn
          <3>2. n \in Nat /\ Head(a2c) = SDSRV(d, n)
              BY <3>1, MessageFacts
          <3>3. \/ in_q' = [in_q EXCEPT ![d] = IF n = End THEN @ ELSE Append(@, n)]
                \/ in_q' = [in_q EXCEPT ![d] = Append(@, n)]
              BY <2>4 DEF NewConnection, KnownConnection
          <3> HIDE DEF n
          <3>4. CASE n = End
              <4>1. CASE in_q' = in_q
                  BY <2>0, <4>1
              <4>2. CASE in_q' = [in_q EXCEPT ![d] = Append(@, n)]
                  <5>1. in_q' = [c \in Conns |-> IF c \in {d} THEN Append(in_q[c], 0)
                                                            ELSE in_q[c]]
                      BY <1>0, <3>4, <4>2 DEF End
                  <5> QED BY <2>1, <5>1
              <4>3. [in_q EXCEPT ![d] = in_q[d]] = in_q
                  BY <1>0
              <4> QED BY <3>3, <3>4, <4>1, <4>2, <4>3
          <3>5. CASE n # End
              <4>1. in_q' = [in_q EXCEPT ![d] = Append(@, n)]
                  BY <3>3, <3>5
              <4>2. taken[d] <= sent[d] /\ InOrder(a2c, Lane(d), Range(in_q[d]), taken[d])
                  BY DEF Inv, InFlow, Inward
              <4>3. /\ n \in 1..sent[d] /\ n \notin Range(in_q[d])
                    /\ \A l \in 1..(n - 1) : l \in Range(in_q[d])
                  <5>1. taken[d] \in Nat /\ sent[d] \in Nat
                      BY <1>0
                  <5> DEFINE got == Range(in_q[d])
                  <5> HIDE DEF got
                  <5>2. InOrder(a2c, Lane(d), got, taken[d])
                      BY <4>2 DEF got
                  <5>3. n \in 1..sent[d] /\ n \notin got /\ \A l \in 1..(n - 1) : l \in got
                      BY <1>0, <3>1, <3>2, <3>5, <4>2, <5>1, <5>2, HeadIsNext
                  <5> QED BY <5>3 DEF got
              <4>4. Inbound!Range(in_q[d]) = Range(in_q[d])
                  BY DEF Range, Inbound!Range
              <4>5. Inbound!Deliver(d)
                  BY <2>0, <4>1, <4>3, <4>4 DEF Inbound!Deliver
              <4> QED BY <4>5 DEF Inbound!Next
          <3> QED BY <3>4, <3>5
      <2> QED BY <1>3, <2>1, <2>2, <2>3, <2>4 DEF BrowserNext, HandleInTask
  <1> QED BY <1>1, <1>2, <1>3 DEF Next

LEMMA OutboundStep ==
    ASSUME Inv, [Next]_vars
    PROVE  [Outbound!Next]_<<appSent, written>>
  <1>0. /\ c2a \in Seq(Message) /\ written \in [Conns -> Seq(Nat)]
        /\ appSent \in [Conns -> Nat]
      BY DEF Inv, TypeOK, ServerLinkTypeOK, AgentTypeOK, BrowserTypeOK
  <1>1. CASE BrowserNext /\ UNCHANGED agentVars
      <2>1. written' = written
          BY <1>1 DEF agentVars
      <2>2. appSent' = appSent \/ \E c \in Conns : appSent' = [appSent EXCEPT ![c] = @ + 1]
          BY <1>1 DEF BrowserNext, SendConnect, HandleInTask, FirstReply, NewConnection,
                      KnownConnection, CloseServer, Write, CloseWriter
      <2> QED BY <2>1, <2>2 DEF Outbound!Next, Outbound!Accept
  <1>2. CASE LinkFailure \/ UNCHANGED vars
      BY <1>2 DEF LinkFailure, vars, agentVars, browserVars
  <1>3. CASE AgentNext /\ UNCHANGED browserVars
      <2>0. appSent' = appSent
          BY <1>3 DEF browserVars
      <2>1. CASE UNCHANGED written
          BY <2>0, <2>1
      <2>2. ASSUME NEW d \in Conns, DispatchWrite(d)
            PROVE  [Outbound!Next]_<<appSent, written>>
          <3> DEFINE n == Head(c2a).chunk
          <3>1. /\ c2a # <<>> /\ Head(c2a) \in Message /\ Head(c2a) = SDSRV(d, n)
                /\ Contains(table, d)
              BY <1>0, <2>2, MessageSeq DEF DispatchWrite, Receive
          <3>2. n \in Nat
              <4>1. Head(c2a).type = "SDSRV"
                  BY <3>1 DEF SDSRV
              <4> QED BY <3>1, <4>1, MessageFacts
          <3>3. written' = [written EXCEPT ![d] =
                               IF n = End \/ sock[d] = "closed" THEN @ ELSE Append(@, n)]
              BY <2>2 DEF DispatchWrite
          <3> HIDE DEF n
          <3>4. CASE n = End \/ sock[d] = "closed"
              <4>1. written' = written
                  BY <1>0, <3>3, <3>4
              <4> QED BY <2>0, <4>1
          <3>5. CASE n # End /\ sock[d] # "closed"
              <4>1. written' = [written EXCEPT ![d] = Append(@, n)]
                  BY <3>3, <3>5
              <4> DEFINE got == Range(written[d])
                         k == appSent[d]
              <4>2. InOrder(c2a, Lane(d), got, k) /\ k \in Nat /\ k <= k
                  BY <1>0, <3>1, <3>5 DEF Inv, OutFlow, Outward, Gate
              <4> HIDE DEF got, k
              <4>3. n \in 1..k /\ n \notin got /\ \A l \in 1..(n - 1) : l \in got
                  BY <1>0, <3>1, <3>2, <3>5, <4>2, HeadIsNext
              <4>4. Outbound!Range(written[d]) = got
                  BY DEF Range, Outbound!Range, got
              <4>5. Outbound!Deliver(d)
                  BY <2>0, <4>1, <4>3, <4>4 DEF Outbound!Deliver, k
              <4> QED BY <4>5 DEF Outbound!Next
          <3> QED BY <3>4, <3>5
      <2>3. ASSUME NEW d \in Conns, DispatchUnknown(d) PROVE UNCHANGED written
          BY <2>3 DEF DispatchUnknown
      <2> QED BY <1>3, <2>1, <2>2, <2>3, AgentHears
  <1> QED BY <1>1, <1>2, <1>3 DEF Next

\* In both directions the n-th chunk is delivered at most once, and after those
\* before it, although two tasks may be stopping the connection.
THEOREM StreamsAlwaysInOrder == Spec => StreamsInOrder
  <1>1. Init => Inbound!Init /\ Outbound!Init
      BY InboundInit, OutboundInit
  <1>2. Inv /\ [Next]_vars => [Inbound!Next]_<<sent, in_q>>
      BY InboundStep
  <1>3. Inv /\ [Next]_vars => [Outbound!Next]_<<appSent, written>>
      BY OutboundStep
  <1> QED BY <1>1, <1>2, <1>3, Invariance, PTL
          DEF Spec, StreamsInOrder, Inbound!Spec, Outbound!Spec

=============================================================================
