--------------------------- MODULE TcpTunnelProofs --------------------------
(***************************************************************************)
(* Proofs about TcpTunnel for every set of tokens and all bounds.          *)
(***************************************************************************)
EXTENDS TcpTunnel, StreamLemmas

(***************************************************************************)
(* The inductive invariant.  Owned is local to the agent; Handshake ties   *)
(* what the browser believes, and what is on the wire, to the agent's      *)
(* progress: nothing that presupposes a TCP connection exists before       *)
(* ConnectOk created the handler.  ConnectOnce says that a token starts at *)
(* most one tunnel.                                                        *)
(***************************************************************************)
Owned ==
    \A t \in Tokens :
        /\ conn[t] \in {"none", "connecting"} => handler[t] = "none"
        /\ conn[t] \in {"reading", "closing"} => handler[t] # "none"
        /\ handler[t] = "none" <=> sock[t] = "none"
        /\ handler[t] = "done" <=> sock[t] = "closed"
        /\ t \in process_queues <=> handler[t] \notin {"none", "done"}
        /\ handler[t] = "killed" => ~wsUp /\ conn[t] = "done"

ConnectOnce ==
    /\ \A t \in Tokens : client[t] = "idle" => conn[t] = "none"
    /\ \A i \in DOMAIN c2a : c2a[i].type = "CONNECT" =>
          /\ conn[c2a[i].token] = "none"
          /\ client[c2a[i].token] # "idle"
          /\ \A j \in DOMAIN c2a :
                c2a[j].type = "CONNECT" /\ c2a[j].token = c2a[i].token => j = i

\* What the commands in a channel presuppose.
ReplyOK(m) == /\ conn[m.token] # "none"
              /\ m.type \in {"CONTINUE", "SD"} => handler[m.token] # "none"

RequestOK(m) == m.type = "SD" => handler[m.token] # "none"

Believed ==
    \A t \in Tokens : handler[t] = "none" =>
        /\ established[t] => last_error[t]
        /\ client[t] # "open"
        /\ out_task[t] # "running"

Handshake ==
    /\ \A i \in DOMAIN a2c : ReplyOK(a2c[i])
    /\ \A i \in DOMAIN c2a : RequestOK(c2a[i])
    /\ Believed

Inv == TypeOK /\ Owned /\ ConnectOnce /\ Handshake

-----------------------------------------------------------------------------
(* Facts about the operations on channels.                                  *)

LEMMA AppendFacts ==
    ASSUME NEW S, NEW s \in Seq(S), NEW e \in S
    PROVE  /\ Append(s, e) \in Seq(S)
           /\ DOMAIN Append(s, e) = 1..(Len(s) + 1)
           /\ DOMAIN s = 1..Len(s)
           /\ Len(s) \in Nat
           /\ \A i \in 1..Len(s) : Append(s, e)[i] = s[i]
           /\ Append(s, e)[Len(s) + 1] = e
  OBVIOUS

LEMMA TailFacts ==
    ASSUME NEW S, NEW s \in Seq(S), s # <<>>
    PROVE  /\ Tail(s) \in Seq(S)
           /\ Head(s) \in S /\ Head(s) = s[1]
           /\ DOMAIN s = 1..Len(s) /\ Len(s) \in Nat \ {0}
           /\ DOMAIN Tail(s) = 1..(Len(s) - 1)
           /\ \A i \in 1..(Len(s) - 1) : Tail(s)[i] = s[i + 1]
  OBVIOUS

LEMMA PrefixFacts ==
    ASSUME NEW S, NEW s \in Seq(S), NEW n \in 0..Len(s)
    PROVE  /\ SubSeq(s, 1, n) \in Seq(S)
           /\ DOMAIN s = 1..Len(s) /\ Len(s) \in Nat
           /\ DOMAIN SubSeq(s, 1, n) = 1..n
           /\ \A i \in 1..n : SubSeq(s, 1, n)[i] = s[i]
  OBVIOUS

LEMMA CmdSeq ==
    /\ \A s \in Seq(CMD), m \in CMD : Append(s, m) \in Seq(CMD)
    /\ \A s \in Seq(CMD) : s # <<>> => Tail(s) \in Seq(CMD) /\ Head(s) \in CMD
    /\ \A s \in Seq(CMD) : \A n \in 0..Len(s) : SubSeq(s, 1, n) \in Seq(CMD)
  BY AppendFacts, TailFacts, PrefixFacts

LEMMA CmdElements ==
    \A s \in Seq(CMD) : \A i \in DOMAIN s :
        /\ s[i] \in CMD
        /\ s[i].token \in Tokens /\ s[i].type \in CMDType /\ s[i].chunk \in Nat
  <1>1. \A s \in Seq(CMD) : \A i \in DOMAIN s : s[i] \in CMD
      OBVIOUS
  <1> QED BY <1>1 DEF CMD

LEMMA NatSeq ==
    /\ \A s \in Seq(Nat), n \in Nat : Append(s, n) \in Seq(Nat)
    /\ \A s \in Seq(Nat) : s # <<>> => Tail(s) \in Seq(Nat) /\ Head(s) \in Nat
  BY AppendFacts, TailFacts

\* A channel from which commands were taken, or lost at the end.
Shrinks(new, old) ==
    \E k \in Nat : \A i \in DOMAIN new :
        i \in Nat /\ i + k \in DOMAIN old /\ new[i] = old[i + k]

LEMMA ShrinkFacts ==
    \A s \in Seq(CMD) :
        /\ Shrinks(s, s)
        /\ s # <<>> => Shrinks(Tail(s), s)
        /\ \A n \in 0..Len(s) : Shrinks(SubSeq(s, 1, n), s)
        /\ Shrinks(<<>>, s)
  <1> SUFFICES ASSUME NEW s \in Seq(CMD)
               PROVE  /\ Shrinks(s, s)
                      /\ s # <<>> => Shrinks(Tail(s), s)
                      /\ \A n \in 0..Len(s) : Shrinks(SubSeq(s, 1, n), s)
                      /\ Shrinks(<<>>, s)
      OBVIOUS
  <1>1. Shrinks(s, s) /\ Shrinks(<<>>, s)
      <2>1. \A i \in DOMAIN s : i \in Nat /\ i + 0 = i
          OBVIOUS
      <2> QED BY <2>1 DEF Shrinks
  <1>2. ASSUME s # <<>> PROVE Shrinks(Tail(s), s)
      <2>1. \A i \in DOMAIN Tail(s) :
               i \in Nat /\ i + 1 \in DOMAIN s /\ Tail(s)[i] = s[i + 1]
          BY <1>2, TailFacts
      <2> QED BY <2>1 DEF Shrinks
  <1>3. ASSUME NEW n \in 0..Len(s) PROVE Shrinks(SubSeq(s, 1, n), s)
      <2>1. \A i \in DOMAIN SubSeq(s, 1, n) :
               i \in Nat /\ i + 0 \in DOMAIN s /\ SubSeq(s, 1, n)[i] = s[i + 0]
          BY PrefixFacts
      <2> QED BY <2>1 DEF Shrinks
  <1> QED BY <1>1, <1>2, <1>3

LEMMA CmdTypes ==
    ASSUME NEW t \in Tokens
    PROVE  /\ \A type \in CMDType : Cmd(type, t) \in CMD
           /\ \A n \in Nat : SocketData(t, n) \in CMD
  BY DEF Cmd, SocketData, CMD, CMDType

\* What the two sends, and a loss of the WebSocket, do to a channel.
LEMMA SendType ==
    ASSUME LinkTypeOK, NEW m \in CMD
    PROVE  /\ AgentSend(m) => a2c' \in Seq(CMD)
           /\ BrowserSend(m) => c2a' \in Seq(CMD)
  BY CmdSeq DEF AgentSend, BrowserSend, LinkTypeOK

-----------------------------------------------------------------------------
(* Type correctness.                                                        *)

LEMMA InitType == Init => TypeOK
  BY DEF Init, LinkInit, AgentInit, BrowserInit, TypeOK, LinkTypeOK,
         AgentTypeOK, BrowserTypeOK, ConnState, HandlerState

LEMMA DispatchType ==
    ASSUME LinkTypeOK, AgentTypeOK, Dispatch
    PROVE  LinkTypeOK' /\ AgentTypeOK'
  <1> USE DEF taskVars, queueVars, peerVars
  <1>0. c2a' \in Seq(CMD) /\ Head(c2a) \in CMD
      BY CmdSeq DEF Dispatch, DispatchToQueue, DispatchConnect,
                       DispatchUnexpected, DispatchIgnored, Receive, LinkTypeOK
  <1>1. CASE DispatchToQueue
      <2>1. PICK t \in process_queues :
               /\ cmdq' = [cmdq EXCEPT ![t] = Append(@, Head(c2a))]
               /\ UNCHANGED <<a2c, wsUp, taskVars, process_queues, writing,
                              sock, peerVars, taken, written>>
          BY <1>1 DEF DispatchToQueue
      <2>2. cmdq' \in [Tokens -> Seq(CMD)]
          BY <1>0, <2>1 DEF AgentTypeOK
      <2> QED BY <1>0, <2>1, <2>2 DEF LinkTypeOK, AgentTypeOK
  <1>2. CASE DispatchConnect
      BY <1>0, <1>2 DEF DispatchConnect, LinkTypeOK, AgentTypeOK, ConnState
  <1>3. CASE DispatchUnexpected
      BY <1>0, <1>3, SendType, CmdTypes
      DEF DispatchUnexpected, LinkTypeOK, AgentTypeOK, CMDType
  <1>4. CASE DispatchIgnored
      BY <1>0, <1>4 DEF DispatchIgnored, LinkTypeOK, AgentTypeOK
  <1> QED BY <1>1, <1>2, <1>3, <1>4 DEF Dispatch

LEMMA ConnTaskType ==
    ASSUME LinkTypeOK, AgentTypeOK, NEW t \in Tokens, ConnTask(t)
    PROVE  LinkTypeOK' /\ AgentTypeOK'
  <1> USE DEF taskVars, queueVars, peerVars
  <1>0. LinkTypeOK'
      BY CmdTypes, SendType
      DEF LinkTypeOK, ConnTask, ConnectOk, ConnectFail, ReadData, ReadEof,
          ReadError, ConnFinally, ConnCancelled, CancelHandler, CMDType,
          AgentTypeOK
  <1> USE DEF AgentTypeOK, ConnState, HandlerState
  <1>1. CASE ConnectOk(t)
      <2>1. conn' \in [Tokens -> ConnState]
          <3>1. PICK c \in ConnState : conn' = [conn EXCEPT ![t] = c]
              BY <1>1 DEF ConnectOk, AfterSend
          <3> QED BY <3>1
      <2>2. handler' \in [Tokens -> HandlerState]
          BY <1>1 DEF ConnectOk
      <2> QED BY <1>0, <1>1, <2>1, <2>2 DEF ConnectOk
  <1>2. CASE ConnectFail(t)
      BY <1>0, <1>2 DEF ConnectFail
  <1>3. CASE ReadData(t)
      BY <1>0, <1>3 DEF ReadData, AfterSend
  <1>4. CASE ReadEof(t) \/ ReadError(t)
      BY <1>0, <1>4 DEF ReadEof, ReadError
  <1>5. CASE ConnFinally(t) \/ ConnCancelled(t)
      <2>0. conn' = [conn EXCEPT ![t] = "done"]
          BY <1>5 DEF ConnFinally, ConnCancelled, CancelHandler
      <2>1. conn' \in [Tokens -> ConnState]
          BY <2>0
      <2>2. hcancel' \in [Tokens -> BOOLEAN]
          <3>1. hcancel' = hcancel \/ hcancel' = [hcancel EXCEPT ![t] = TRUE]
              BY <1>5 DEF ConnFinally, ConnCancelled, CancelHandler
          <3> QED BY <3>1
      <2> QED BY <1>0, <1>5, <2>1, <2>2
              DEF ConnFinally, ConnCancelled, CancelHandler
  <1> QED BY <1>1, <1>2, <1>3, <1>4, <1>5 DEF ConnTask

LEMMA HandlerTaskType ==
    ASSUME LinkTypeOK, AgentTypeOK, NEW t \in Tokens, HandlerTask(t)
    PROVE  LinkTypeOK' /\ AgentTypeOK'
  <1> USE DEF taskVars, queueVars, peerVars, linkVars
  <1>0. LinkTypeOK'
      BY CmdTypes, SendType
      DEF LinkTypeOK, HandlerTask, HandlerStart, GetData, GetOk, WriteData,
          WriteError, HandlerEnd, HandlerFinally, CMDType
  <1> USE DEF AgentTypeOK, HandlerState
  <1>1. CASE HandlerStart(t)
      BY <1>0, <1>1 DEF HandlerStart
  <1>2. CASE GetData(t)
      <2>1. Tail(cmdq[t]) \in Seq(CMD) /\ Head(cmdq[t]).chunk \in Nat
          BY <1>2, CmdSeq DEF GetData, CMD
      <2> QED BY <1>0, <1>2, <2>1 DEF GetData
  <1>3. CASE GetOk(t)
      <2>1. Tail(cmdq[t]) \in Seq(CMD)
          BY <1>3, CmdSeq DEF GetOk
      <2> QED BY <1>0, <1>3, <2>1 DEF GetOk, HandlerFinally
  <1>4. CASE WriteData(t) \/ WriteError(t)
      <2>1. Append(written[t], writing[t]) \in Seq(Nat)
          BY NatSeq
      <2>2. written' \in [Tokens -> Seq(Nat)]
          BY <1>4, <2>1 DEF WriteData, WriteError
      <2>3. handler' \in [Tokens -> HandlerState]
          <3>1. \E h \in {"get", "failed"} : handler' = [handler EXCEPT ![t] = h]
              BY <1>4 DEF WriteData, WriteError
          <3> QED BY <3>1
      <2> QED BY <1>0, <1>4, <2>2, <2>3 DEF WriteData, WriteError
  <1>5. CASE HandlerEnd(t)
      BY <1>0, <1>5 DEF HandlerEnd, HandlerFinally
  <1> QED BY <1>1, <1>2, <1>3, <1>4, <1>5 DEF HandlerTask

LEMMA OtherAgentType ==
    ASSUME LinkTypeOK, AgentTypeOK, Terminate \/ \E t \in Tokens : Peer(t)
    PROVE  LinkTypeOK' /\ AgentTypeOK'
  <1>1. CASE Terminate
      <2>1. ccancel' \in [Tokens -> BOOLEAN]
          BY <1>1, Zenon DEF Terminate
      <2> QED BY <1>1, <2>1 DEF Terminate, queueVars, peerVars, linkVars,
                                LinkTypeOK, AgentTypeOK
  <1>2. ASSUME NEW t \in Tokens, Peer(t)
        PROVE  LinkTypeOK' /\ AgentTypeOK'
      <2>1. peer' \in [Tokens -> {"open", "eof", "reset"}]
          BY <1>2 DEF Peer, PeerSend, PeerClose, AgentTypeOK
      <2>2. sent' \in [Tokens -> Nat]
          BY <1>2 DEF Peer, PeerSend, PeerClose, peerVars, AgentTypeOK
      <2> QED BY <1>2, <2>1, <2>2
              DEF Peer, PeerSend, PeerClose, taskVars, queueVars, linkVars,
                  LinkTypeOK, AgentTypeOK
  <1> QED BY <1>1, <1>2

LEMMA ClientType ==
    ASSUME LinkTypeOK, BrowserTypeOK, NEW t \in Tokens,
           RunTask(t) \/ Timeout(t) \/ OutTask(t) \/ App(t) \/ SendOkTask(t)
    PROVE  LinkTypeOK' /\ BrowserTypeOK'
  <1>1. CASE SendOkTask(t)
      BY <1>1, CmdTypes, SendType
      DEF SendOkTask, CMDType, LinkTypeOK, BrowserTypeOK
  <1>2. CASE Established(t)
      BY <1>2 DEF Established, linkVars, LinkTypeOK, BrowserTypeOK
  <1>3. CASE TerminateClient(t)
      BY <1>3 DEF TerminateClient, linkVars, LinkTypeOK, BrowserTypeOK
  <1>4. CASE OutTask(t)
      <2>1. Tail(out_q[t]) \in Seq(Nat) /\ Head(out_q[t]) \in Nat
          BY <1>4, NatSeq DEF OutTask, OutSend, OutEnd, BrowserTypeOK
      <2>2. LinkTypeOK'
          BY <1>4, <2>1, CmdTypes, SendType
          DEF OutTask, OutSend, OutEnd, linkVars, LinkTypeOK
      <2>3. /\ out_q' = [out_q EXCEPT ![t] = Tail(@)]
            /\ out_task' = out_task \/ out_task' = [out_task EXCEPT ![t] = "done"]
            /\ UNCHANGED <<ifaceUp, dispatch_table, client, established, last_error, in_q,
                           appSent, okTasks>>
          BY <1>4 DEF OutTask, OutSend, OutEnd
      <2>4. /\ out_q \in [Tokens -> Seq(Nat)]
            /\ out_task \in [Tokens -> {"none", "running", "done"}]
          BY DEF BrowserTypeOK
      <2>5. out_q' \in [Tokens -> Seq(Nat)]
          BY <2>1, <2>3, <2>4
      <2>6. out_task' \in [Tokens -> {"none", "running", "done"}]
          BY <2>3, <2>4
      <2> QED BY <2>2, <2>3, <2>5, <2>6 DEF BrowserTypeOK
  <1>5. CASE Run(t)
      BY <1>5, CmdTypes, SendType DEF Run, CMDType, LinkTypeOK, BrowserTypeOK
  <1>6. CASE AppSend(t) \/ AppEnd(t)
      <2>1. /\ Append(out_q[t], appSent[t] + 1) \in Seq(Nat)
            /\ Append(out_q[t], EndItem) \in Seq(Nat)
          BY NatSeq DEF BrowserTypeOK, EndItem
      <2>2. out_q' \in [Tokens -> Seq(Nat)]
          BY <1>6, <2>1 DEF AppSend, AppEnd, BrowserTypeOK
      <2>3. appSent' \in [Tokens -> Nat]
          BY <1>6 DEF AppSend, AppEnd, BrowserTypeOK
      <2> QED BY <1>6, <2>2, <2>3 DEF AppSend, AppEnd, linkVars, LinkTypeOK, BrowserTypeOK
  <1> QED BY <1>1, <1>2, <1>3, <1>4, <1>5, <1>6
          DEF RunTask, EstablishFailed, Timeout, App, AppTerminate

LEMMA InterfaceType ==
    ASSUME LinkTypeOK, BrowserTypeOK,
           IfaceTerminate \/ \E t \in Tokens : OnData(t)
    PROVE  LinkTypeOK' /\ BrowserTypeOK'
  <1>1. CASE IfaceTerminate
      <2>1. /\ last_error' \in [Tokens -> BOOLEAN]
            /\ established' \in [Tokens -> BOOLEAN]
          BY <1>1, Zenon DEF IfaceTerminate
      <2>2. \A t \in Tokens : Append(in_q[t], EndItem) \in Seq(Nat)
          BY NatSeq DEF BrowserTypeOK, EndItem
      <2>3. in_q' \in [Tokens -> Seq(Nat)]
          BY <1>1, <2>2 DEF IfaceTerminate, BrowserTypeOK
      <2>4. BrowserTypeOK'
          BY <1>1, <2>1, <2>3 DEF IfaceTerminate, BrowserTypeOK
      <2>5. <<>> \in Seq(CMD)
          OBVIOUS
      <2> QED BY <1>1, <2>4, <2>5 DEF IfaceTerminate, LinkTypeOK
  <1>2. ASSUME NEW t \in Tokens, OnData(t)
        PROVE  LinkTypeOK' /\ BrowserTypeOK'
      <2>1. /\ a2c # <<>> /\ Tail(a2c) \in Seq(CMD) /\ Head(a2c).chunk \in Nat
            /\ a2c' = Tail(a2c)
          BY <1>2, CmdSeq DEF OnData, OnEnd, OnContinue, OnSocketData,
                                 OnUnknown, OnDataFor, CMD, LinkTypeOK
      <2>2. LinkTypeOK'
          BY <1>2, <2>1 DEF OnData, OnEnd, OnContinue, OnSocketData, OnUnknown,
                            LinkTypeOK
      <2>3. /\ Append(in_q[t], EndItem) \in Seq(Nat)
            /\ Append(in_q[t], Head(a2c).chunk) \in Seq(Nat)
          BY <2>1, NatSeq DEF BrowserTypeOK, EndItem
      <2>4. in_q' \in [Tokens -> Seq(Nat)]
          BY <1>2, <2>3 DEF OnData, OnEnd, OnContinue, OnSocketData, OnUnknown,
                            BrowserTypeOK
      <2>5. established' \in [Tokens -> BOOLEAN]
          BY <1>2 DEF OnData, OnEnd, OnContinue, OnSocketData, OnUnknown,
                      BrowserTypeOK
      <2>6. last_error' \in [Tokens -> BOOLEAN]
          BY <1>2 DEF OnData, OnEnd, OnContinue, OnSocketData, OnUnknown,
                      BrowserTypeOK
      <2>7. okTasks' \in [Tokens -> Nat]
          <3>1. okTasks' = okTasks \/ okTasks' = [okTasks EXCEPT ![t] = @ + 1]
              BY <1>2 DEF OnData, OnEnd, OnContinue, OnSocketData, OnUnknown
          <3>2. okTasks \in [Tokens -> Nat] /\ okTasks[t] + 1 \in Nat
              BY DEF BrowserTypeOK
          <3> QED BY <3>1, <3>2
      <2> QED BY <1>2, <2>2, <2>4, <2>5, <2>6, <2>7
              DEF OnData, OnEnd, OnContinue, OnSocketData, OnUnknown, BrowserTypeOK
  <1> QED BY <1>1, <1>2

LEMMA TypeStep == TypeOK /\ [Next]_vars => TypeOK'
  <1> SUFFICES ASSUME TypeOK, [Next]_vars
               PROVE  TypeOK'
      OBVIOUS
  <1>1. UNCHANGED agentVars => AgentTypeOK'
      BY DEF TypeOK, agentVars, AgentTypeOK
  <1>2. UNCHANGED browserVars => BrowserTypeOK'
      BY DEF TypeOK, browserVars, BrowserTypeOK
  <1>3. CASE AgentNext /\ UNCHANGED browserVars
      BY <1>2, <1>3, DispatchType, ConnTaskType, HandlerTaskType, OtherAgentType
      DEF AgentNext, TypeOK
  <1>4. CASE BrowserNext /\ UNCHANGED agentVars
      BY <1>1, <1>4, ClientType, InterfaceType DEF BrowserNext, TypeOK
  <1>5. CASE LinkFailure
      BY <1>1, <1>2, <1>5, CmdSeq DEF LinkFailure, WsLost, TypeOK, LinkTypeOK
  <1>6. CASE UNCHANGED vars
      BY <1>1, <1>2, <1>6 DEF vars, linkVars, TypeOK, LinkTypeOK
  <1> QED BY <1>3, <1>4, <1>5, <1>6 DEF Next

\* Every variable keeps its type.
THEOREM TypeCorrect == Spec => []TypeOK
  BY InitType, TypeStep, PTL DEF Spec

-----------------------------------------------------------------------------
(* A token starts at most one tunnel.                                       *)

LEMMA ConnectOnceFrame ==
    ASSUME TypeOK, ConnectOnce,
           \A t \in Tokens : conn'[t] = "none" <=> conn[t] = "none",
           \A t \in Tokens : client'[t] = "idle" <=> client[t] = "idle",
           \/ Shrinks(c2a', c2a)
           \/ \E m \in CMD : m.type # "CONNECT" /\ c2a' = Append(c2a, m)
    PROVE  ConnectOnce'
  <1>0. c2a \in Seq(CMD) /\ \A i \in DOMAIN c2a : c2a[i].token \in Tokens
      BY CmdElements DEF TypeOK, LinkTypeOK
  <1>1. CASE Shrinks(c2a', c2a)
      <2>1. PICK k \in Nat : \A i \in DOMAIN c2a' :
               i \in Nat /\ i + k \in DOMAIN c2a /\ c2a'[i] = c2a[i + k]
          BY <1>1 DEF Shrinks
      <2> QED BY <1>0, <2>1 DEF ConnectOnce
  <1>2. ASSUME NEW m \in CMD, m.type # "CONNECT", c2a' = Append(c2a, m)
        PROVE  ConnectOnce'
      <2>1. \A i \in DOMAIN c2a' : c2a'[i].type = "CONNECT" =>
               i \in DOMAIN c2a /\ c2a'[i] = c2a[i]
          BY <1>0, <1>2, AppendFacts
      <2> QED BY <1>0, <2>1 DEF ConnectOnce
  <1> QED BY <1>1, <1>2

LEMMA ConnectOnceAgent ==
    ASSUME TypeOK, ConnectOnce, AgentNext, UNCHANGED browserVars
    PROVE  ConnectOnce'
  <1> USE ConnectOnceFrame, ShrinkFacts
      DEF browserVars, taskVars, queueVars, peerVars, linkVars
  <1>0. c2a \in Seq(CMD) /\ conn \in [Tokens -> ConnState]
      BY DEF TypeOK, LinkTypeOK, AgentTypeOK
  <1>1. CASE DispatchToQueue \/ DispatchUnexpected \/ DispatchIgnored
      BY <1>0, <1>1
      DEF DispatchToQueue, DispatchUnexpected, DispatchIgnored, Receive
  <1>2. CASE DispatchConnect
      <2>1. PICK t \in Tokens : /\ c2a # <<>> /\ Head(c2a) = Cmd("CONNECT", t)
                                /\ c2a' = Tail(c2a)
                                /\ conn' = [conn EXCEPT ![t] = "connecting"]
          BY <1>2 DEF DispatchConnect, Receive
      <2>2. /\ 1 \in DOMAIN c2a /\ c2a[1].type = "CONNECT" /\ c2a[1].token = t
            /\ \A i \in DOMAIN c2a' : /\ i + 1 \in DOMAIN c2a /\ i + 1 # 1
                                      /\ c2a'[i] = c2a[i + 1]
          BY <1>0, <2>1, TailFacts DEF Cmd
      <2>3. \A u \in Tokens : client[u] = "idle" => u # t
          BY <2>2 DEF ConnectOnce
      <2>4. \A i \in DOMAIN c2a' : c2a'[i].type = "CONNECT" =>
               c2a'[i].token # t /\ c2a'[i].token \in Tokens
          BY <1>0, <2>2, CmdElements DEF ConnectOnce
      <2>5. \A i \in DOMAIN c2a' : i \in Nat
          BY <1>0, <2>1, TailFacts
      <2> HIDE DEF browserVars
      <2>6. UNCHANGED client
          BY DEF browserVars
      <2>7. \A u \in Tokens : u # t => conn'[u] = conn[u]
          BY <1>0, <2>1
      <2> QED BY <2>2, <2>3, <2>4, <2>5, <2>6, <2>7 DEF ConnectOnce
  <1>3. ASSUME NEW t \in Tokens, ConnTask(t)
        PROVE  ConnectOnce'
      <2>1. UNCHANGED c2a
          BY <1>3 DEF ConnTask, ConnectOk, ConnectFail, ReadData, ReadEof,
                      ReadError, ConnFinally, ConnCancelled, CancelHandler
      <2>2. conn[t] # "none" /\ \E c \in ConnState \ {"none"} :
                                   conn' = [conn EXCEPT ![t] = c]
          BY <1>3 DEF ConnTask, ConnectOk, ConnectFail, ReadData, ReadEof,
                      ReadError, ConnFinally, ConnCancelled, CancelHandler,
                      Reading, AfterSend, ConnState
      <2> QED BY <1>0, <2>1, <2>2
  <1>4. ASSUME NEW t \in Tokens, HandlerTask(t) \/ Peer(t)
        PROVE  ConnectOnce'
      BY <1>0, <1>4 DEF HandlerTask, HandlerStart, GetData, GetOk, WriteData,
         WriteError, HandlerEnd, HandlerFinally, Peer, PeerSend, PeerClose
  <1>5. CASE Terminate
      BY <1>0, <1>5 DEF Terminate
  <1> QED BY <1>1, <1>2, <1>3, <1>4, <1>5 DEF AgentNext, Dispatch

LEMMA ConnectOnceBrowser ==
    ASSUME TypeOK, ConnectOnce, BrowserNext, UNCHANGED agentVars
    PROVE  ConnectOnce'
  <1>0. /\ c2a \in Seq(CMD) /\ UNCHANGED conn
        /\ client \in [Tokens -> {"idle", "connecting", "open", "closed"}]
      BY DEF TypeOK, LinkTypeOK, BrowserTypeOK, agentVars
  <1>1. CASE IfaceTerminate
      BY <1>0, <1>1, ConnectOnceFrame, ShrinkFacts DEF IfaceTerminate
  <1>2. ASSUME NEW t \in Tokens, OnData(t) \/ OutEnd(t) \/ AppSend(t) \/ AppEnd(t)
        PROVE  ConnectOnce'
      BY <1>0, <1>2, ConnectOnceFrame, ShrinkFacts
      DEF OnData, OnEnd, OnContinue, OnSocketData, OnUnknown, OutEnd, AppSend,
          AppEnd, linkVars
  <1>3. ASSUME NEW t \in Tokens, Established(t)
        PROVE  ConnectOnce'
      BY <1>0, <1>3, ConnectOnceFrame, ShrinkFacts DEF Established, linkVars
  <1>4. ASSUME NEW t \in Tokens, TerminateClient(t), client[t] # "idle"
        PROVE  ConnectOnce'
      BY <1>0, <1>4, ConnectOnceFrame, ShrinkFacts DEF TerminateClient, linkVars
  <1>5. ASSUME NEW t \in Tokens, SendOkTask(t) \/ OutSend(t)
        PROVE  ConnectOnce'
      <2>1. c2a' = c2a \/ \E m \in CMD : /\ m.type # "CONNECT"
                                         /\ c2a' = Append(c2a, m)
          <3>1. Head(out_q[t]) \in Nat \/ ~OutSend(t)
              BY NatSeq DEF OutSend, TypeOK, BrowserTypeOK
          <3>2. \A n \in Nat : /\ SocketData(t, n) \in CMD
                               /\ SocketData(t, n).type # "CONNECT"
              BY CmdTypes DEF SocketData
          <3>3. Cmd("OK", t) \in CMD /\ Cmd("OK", t).type # "CONNECT"
              BY CmdTypes DEF Cmd, CMDType
          <3> QED BY <1>5, <3>1, <3>2, <3>3 DEF SendOkTask, OutSend, BrowserSend
      <2>2. UNCHANGED client
          BY <1>5 DEF SendOkTask, OutSend
      <2> QED BY <1>0, <2>1, <2>2, ConnectOnceFrame, ShrinkFacts
  <1>6. ASSUME NEW t \in Tokens, Run(t)
        PROVE  ConnectOnce'
      <2> DEFINE m == Cmd("CONNECT", t)
      <2>1. /\ m \in CMD /\ m.type = "CONNECT" /\ m.token = t
            /\ client[t] = "idle" /\ conn[t] = "none"
            /\ client' = [client EXCEPT ![t] = "connecting"]
          BY <1>6, CmdTypes DEF Run, Cmd, CMDType, ConnectOnce
      <2>2. CASE c2a' = c2a
          BY <1>0, <2>1, <2>2, CmdElements DEF ConnectOnce
      <2>3. CASE c2a' = Append(c2a, m)
          <3>1. /\ DOMAIN c2a = 1..Len(c2a) /\ DOMAIN c2a' = 1..(Len(c2a) + 1)
                /\ Len(c2a) \in Nat
                /\ \A i \in 1..Len(c2a) : c2a'[i] = c2a[i]
                /\ c2a'[Len(c2a) + 1] = m
              BY <1>0, <2>1, <2>3, AppendFacts
          <3>2. \A i \in DOMAIN c2a' : \/ i \in DOMAIN c2a /\ c2a'[i] = c2a[i]
                                       \/ i = Len(c2a) + 1 /\ c2a'[i] = m
              BY <3>1
          <3>3. \A i \in DOMAIN c2a : c2a[i].type = "CONNECT" =>
                   c2a[i].token # t /\ c2a[i].token \in Tokens
              BY <1>0, <2>1, CmdElements DEF ConnectOnce
          <3> HIDE DEF m
          <3> QED BY <1>0, <2>1, <3>2, <3>3 DEF ConnectOnce
      <2> QED BY <1>6, <2>2, <2>3 DEF Run, BrowserSend
  <1> QED BY <1>1, <1>2, <1>3, <1>4, <1>5, <1>6
          DEF BrowserNext, App, RunTask, EstablishFailed, Timeout, OutTask,
              AppTerminate

LEMMA ConnectOnceStep ==
    ASSUME TypeOK, ConnectOnce, [Next]_vars
    PROVE  ConnectOnce'
  <1>1. CASE LinkFailure
      <2>1. Shrinks(c2a', c2a) /\ UNCHANGED <<conn, client>>
          BY <1>1, ShrinkFacts DEF LinkFailure, WsLost, TypeOK, LinkTypeOK,
                                   agentVars, browserVars
      <2> QED BY <2>1, ConnectOnceFrame
  <1>2. CASE UNCHANGED vars
      <2>1. Shrinks(c2a', c2a) /\ UNCHANGED <<conn, client>>
          BY <1>2, ShrinkFacts DEF vars, linkVars, TypeOK, LinkTypeOK,
                                   agentVars, browserVars
      <2> QED BY <2>1, ConnectOnceFrame
  <1> QED BY <1>1, <1>2, ConnectOnceAgent, ConnectOnceBrowser DEF Next

-----------------------------------------------------------------------------
(* Sockets, queues and tasks of the agent.                                  *)

LEMMA OwnedConn ==
    ASSUME TypeOK, Owned, NEW t \in Tokens, ConnTask(t)
    PROVE  Owned'
  <1> USE DEF TypeOK, AgentTypeOK, Owned, queueVars, ConnState, HandlerState
  <1>1. CASE ConnectOk(t)
      <2>1. PICK c \in ConnState, h \in HandlerState :
               /\ conn' = [conn EXCEPT ![t] = c]
               /\ handler' = [handler EXCEPT ![t] = h]
               /\ \/ c \in {"reading", "closing"} /\ h = "created"
                  \/ c = "done" /\ h = "killed" /\ ~wsUp
          BY <1>1 DEF ConnectOk, AfterSend
      <2>2. handler[t] = "none"
          BY <1>1 DEF ConnectOk
      <2> QED BY <1>1, <2>1, <2>2 DEF ConnectOk
  <1>2. CASE ConnectFail(t)
      BY <1>2 DEF ConnectFail, taskVars
  <1>3. CASE ReadData(t)
      <2>1. PICK c \in {"reading", "closing"} : conn' = [conn EXCEPT ![t] = c]
          BY <1>3 DEF ReadData, AfterSend
      <2> QED BY <1>3, <2>1 DEF ReadData, Reading
  <1>4. CASE ReadEof(t) \/ ReadError(t)
      BY <1>4 DEF ReadEof, ReadError, Reading
  <1>5. CASE ConnFinally(t) \/ ConnCancelled(t)
      BY <1>5 DEF ConnFinally, ConnCancelled, CancelHandler
  <1> QED BY <1>1, <1>2, <1>3, <1>4, <1>5 DEF ConnTask

LEMMA OwnedHandler ==
    ASSUME TypeOK, Owned, NEW t \in Tokens, HandlerTask(t)
    PROVE  Owned'
  <1> USE DEF TypeOK, AgentTypeOK, Owned, queueVars, linkVars, HandlerState
  <1>1. CASE HandlerFinally(t) /\ handler[t] \in {"get", "write", "failed"}
      BY <1>1 DEF HandlerFinally
  <1>2. CASE HandlerStart(t) \/ GetData(t)
      BY <1>2 DEF HandlerStart, GetData
  <1>3. CASE WriteData(t) \/ WriteError(t)
      BY <1>3 DEF WriteData, WriteError
  <1> QED BY <1>1, <1>2, <1>3
          DEF HandlerTask, GetOk, HandlerEnd, HandlerAlive

LEMMA OwnedStep ==
    ASSUME TypeOK, Owned, ConnectOnce, [Next]_vars
    PROVE  Owned'
  <1>1. CASE UNCHANGED <<conn, handler, sock, process_queues>> /\ (wsUp' => wsUp)
      BY <1>1 DEF Owned
  <1>2. CASE DispatchConnect
      <2>1. PICK t \in Tokens : /\ c2a # <<>> /\ Head(c2a) = Cmd("CONNECT", t)
                                /\ conn' = [conn EXCEPT ![t] = "connecting"]
          BY <1>2 DEF DispatchConnect, Receive
      <2>2. 1 \in DOMAIN c2a /\ c2a[1].type = "CONNECT" /\ c2a[1].token = t
          BY <2>1, TailFacts DEF Cmd, TypeOK, LinkTypeOK
      <2>3. handler[t] = "none" /\ conn[t] = "none"
          BY <2>2 DEF ConnectOnce, Owned
      <2>4. UNCHANGED <<handler, sock, process_queues, wsUp>>
          BY <1>2 DEF DispatchConnect, queueVars
      <2> QED BY <2>1, <2>3, <2>4 DEF TypeOK, AgentTypeOK, Owned
  <1>3. CASE DispatchToQueue \/ DispatchUnexpected \/ DispatchIgnored
      BY <1>1, <1>3 DEF DispatchToQueue, DispatchUnexpected, DispatchIgnored,
                        taskVars, queueVars
  <1>4. CASE Terminate \/ LinkFailure \/ UNCHANGED vars
      BY <1>1, <1>4 DEF Terminate, LinkFailure, WsLost, vars, linkVars,
                        agentVars, queueVars
  <1>5. ASSUME NEW t \in Tokens, Peer(t)
        PROVE  Owned'
      BY <1>1, <1>5 DEF Peer, PeerSend, PeerClose, linkVars, taskVars, queueVars
  <1>6. CASE BrowserNext /\ UNCHANGED agentVars
      <2>1. wsUp' => wsUp
          BY <1>6 DEF BrowserNext, IfaceTerminate, OnData, OnEnd, OnContinue,
             OnSocketData, OnUnknown, SendOkTask, RunTask, Established,
             EstablishFailed, Timeout, TerminateClient, OutTask, OutSend, OutEnd,
             App, Run, AppSend, AppEnd, AppTerminate, linkVars
      <2> QED BY <1>1, <1>6, <2>1 DEF agentVars
  <1> QED BY <1>2, <1>3, <1>4, <1>5, <1>6, OwnedConn, OwnedHandler
          DEF Next, AgentNext, Dispatch

-----------------------------------------------------------------------------
(* What the browser believes and what is on the wire.                       *)

LEMMA HandshakeFrame ==
    ASSUME TypeOK, Handshake,
           \A t \in Tokens : conn'[t] = "none" => conn[t] = "none",
           \A t \in Tokens : handler'[t] = "none" => handler[t] = "none",
           \/ Shrinks(a2c', a2c)
           \/ \E m \in CMD : a2c' = Append(a2c, m) /\ ReplyOK(m)',
           \/ Shrinks(c2a', c2a)
           \/ \E m \in CMD : c2a' = Append(c2a, m) /\ RequestOK(m)',
           Believed'
    PROVE  Handshake'
  <1>0. /\ a2c \in Seq(CMD) /\ \A i \in DOMAIN a2c : a2c[i].token \in Tokens
        /\ c2a \in Seq(CMD) /\ \A i \in DOMAIN c2a : c2a[i].token \in Tokens
      BY CmdElements DEF TypeOK, LinkTypeOK
  <1> DEFINE Reply(m) == /\ conn'[m.token] # "none"
                         /\ m.type \in {"CONTINUE", "SD"} => handler'[m.token] # "none"
             Request(m) == m.type = "SD" => handler'[m.token] # "none"
  <1>1. \A i \in DOMAIN a2c' : Reply(a2c'[i])
      <2>1. \A i \in DOMAIN a2c : Reply(a2c[i])
          BY <1>0 DEF Handshake, ReplyOK
      <2>2. CASE Shrinks(a2c', a2c)
          BY <2>1, <2>2 DEF Shrinks
      <2>3. ASSUME NEW m \in CMD, a2c' = Append(a2c, m), ReplyOK(m)'
            PROVE  \A i \in DOMAIN a2c' : Reply(a2c'[i])
          <3>1. \A i \in DOMAIN a2c' : \/ i \in DOMAIN a2c /\ a2c'[i] = a2c[i]
                                       \/ a2c'[i] = m
              BY <1>0, <2>3, AppendFacts
          <3>2. Reply(m)
              BY <2>3 DEF ReplyOK
          <3> QED BY <2>1, <3>1, <3>2
      <2> QED BY <2>2, <2>3
  <1>2. \A i \in DOMAIN c2a' : Request(c2a'[i])
      <2>1. \A i \in DOMAIN c2a : Request(c2a[i])
          BY <1>0 DEF Handshake, RequestOK
      <2>2. CASE Shrinks(c2a', c2a)
          BY <2>1, <2>2 DEF Shrinks
      <2>3. ASSUME NEW m \in CMD, c2a' = Append(c2a, m), RequestOK(m)'
            PROVE  \A i \in DOMAIN c2a' : Request(c2a'[i])
          <3>1. \A i \in DOMAIN c2a' : \/ i \in DOMAIN c2a /\ c2a'[i] = c2a[i]
                                       \/ c2a'[i] = m
              BY <1>0, <2>3, AppendFacts
          <3>2. Request(m)
              BY <2>3 DEF RequestOK
          <3> QED BY <2>1, <3>1, <3>2
      <2> QED BY <2>2, <2>3
  <1> QED BY <1>1, <1>2 DEF Handshake, ReplyOK, RequestOK

LEMMA HandshakeAgent ==
    ASSUME Inv, AgentNext, UNCHANGED browserVars
    PROVE  Handshake'
  <1>0. /\ TypeOK /\ Handshake
        /\ c2a \in Seq(CMD) /\ a2c \in Seq(CMD) /\ conn \in [Tokens -> ConnState]
        /\ handler \in [Tokens -> HandlerState]
        /\ Shrinks(a2c, a2c) /\ Shrinks(c2a, c2a)
      BY ShrinkFacts DEF Inv, TypeOK, LinkTypeOK, AgentTypeOK
  <1>1. (\A t \in Tokens : handler'[t] = "none" => handler[t] = "none") => Believed'
      BY <1>0 DEF Handshake, Believed, browserVars
  <1> USE DEF taskVars, queueVars, peerVars, linkVars
  <1>2. CASE DispatchConnect
      <2>1. /\ \A t \in Tokens : conn'[t] = "none" => conn[t] = "none"
            /\ c2a # <<>> /\ c2a' = Tail(c2a) /\ UNCHANGED <<a2c, handler>>
          BY <1>0, <1>2 DEF DispatchConnect, Receive
      <2>2. Shrinks(c2a', c2a)
          BY <1>0, <2>1, ShrinkFacts
      <2> QED BY <1>0, <1>1, <2>1, <2>2, HandshakeFrame
  <1>3. CASE DispatchToQueue \/ DispatchIgnored
      <2>1. c2a # <<>> /\ c2a' = Tail(c2a) /\ UNCHANGED <<a2c, conn, handler>>
          BY <1>3 DEF DispatchToQueue, DispatchIgnored, Receive
      <2>2. Shrinks(c2a', c2a)
          BY <1>0, <2>1, ShrinkFacts
      <2> QED BY <1>0, <1>1, <2>1, <2>2, HandshakeFrame
  <1>4. CASE DispatchUnexpected
      <2>1. PICK t \in Tokens : /\ c2a # <<>> /\ c2a' = Tail(c2a)
                                /\ Head(c2a).token = t /\ Head(c2a).type = "SD"
                                /\ AgentSend(Cmd("ERR", t))
                                /\ UNCHANGED <<conn, handler>>
          BY <1>4 DEF DispatchUnexpected, Receive
      <2>2. Shrinks(c2a', c2a)
          BY <1>0, <2>1, ShrinkFacts
      <2>3. handler[t] # "none"
          BY <1>0, <2>1, TailFacts DEF Handshake, RequestOK
      <2>4. ReplyOK(Cmd("ERR", t))' /\ Cmd("ERR", t) \in CMD
          BY <2>1, <2>3, CmdTypes DEF Inv, Owned, ReplyOK, Cmd, CMDType
      <2> QED BY <1>0, <1>1, <2>1, <2>2, <2>4, HandshakeFrame DEF AgentSend
  <1>5. ASSUME NEW t \in Tokens, ConnTask(t)
        PROVE  Handshake'
      <2>1. /\ conn[t] # "none" /\ UNCHANGED c2a
            /\ \E c \in ConnState \ {"none"} : conn' = [conn EXCEPT ![t] = c]
          BY <1>5 DEF ConnTask, ConnectOk, ConnectFail, ReadData, ReadEof,
                      ReadError, ConnFinally, ConnCancelled, CancelHandler,
                      Reading, AfterSend, ConnState
      <2>2. /\ \A u \in Tokens : conn'[u] = "none" => conn[u] = "none"
            /\ conn'[t] # "none"
          BY <1>0, <2>1
      <2>3. \A u \in Tokens : handler'[u] = "none" => handler[u] = "none"
          <3>1. \/ UNCHANGED handler
                \/ \E h \in {"created", "killed"} : handler' = [handler EXCEPT ![t] = h]
              BY <1>5 DEF ConnTask, ConnectOk, ConnectFail, ReadData, ReadEof,
                          ReadError, ConnFinally, ConnCancelled, CancelHandler
          <3> QED BY <1>0, <3>1
      <2>4. \/ UNCHANGED a2c
            \/ AgentSend(Cmd("CONTINUE", t)) /\ handler'[t] # "none"
            \/ AgentSend(Cmd("OK", t)) \/ AgentSend(Cmd("ERR", t))
            \/ AgentSend(SocketData(t, taken[t] + 1)) /\ handler'[t] # "none"
          BY <1>0, <1>5
          DEF ConnTask, ConnectOk, ConnectFail, ReadData, ReadEof, ReadError,
              ConnFinally, ConnCancelled, CancelHandler, Reading, Inv, Owned
      <2>5. Shrinks(a2c', a2c) \/ \E m \in CMD : a2c' = Append(a2c, m) /\ ReplyOK(m)'
          <3>1. taken[t] + 1 \in Nat
              BY DEF Inv, TypeOK, AgentTypeOK
          <3>2. /\ Cmd("OK", t) \in CMD /\ ReplyOK(Cmd("OK", t))'
                /\ Cmd("ERR", t) \in CMD /\ ReplyOK(Cmd("ERR", t))'
                /\ Cmd("CONTINUE", t) \in CMD
                /\ handler'[t] # "none" => ReplyOK(Cmd("CONTINUE", t))'
                /\ SocketData(t, taken[t] + 1) \in CMD
              BY <2>2, <3>1, CmdTypes DEF ReplyOK, Cmd, CMDType
          <3>3. ASSUME NEW n \in Nat, a2c' = Append(a2c, SocketData(t, n)),
                       handler'[t] # "none"
                PROVE  \E m \in CMD : a2c' = Append(a2c, m) /\ ReplyOK(m)'
              <4>1. PICK m \in CMD : m = SocketData(t, n)
                  BY CmdTypes
              <4>2. ReplyOK(m)'
                  BY <2>2, <3>3, <4>1 DEF ReplyOK, SocketData
              <4> QED BY <3>3, <4>1, <4>2
          <3> QED BY <1>0, <2>4, <3>1, <3>2, <3>3 DEF AgentSend
      <2> QED BY <1>0, <1>1, <2>1, <2>2, <2>3, <2>5, HandshakeFrame
  <1>6. ASSUME NEW t \in Tokens, HandlerTask(t)
        PROVE  Handshake'
      <2>1. /\ handler[t] # "none" /\ UNCHANGED <<c2a, conn>>
            /\ \/ UNCHANGED handler
               \/ \E h \in HandlerState \ {"none"} : handler' = [handler EXCEPT ![t] = h]
            /\ UNCHANGED a2c \/ AgentSend(Cmd("ERR", t))
          BY <1>6 DEF HandlerTask, HandlerStart, GetData, GetOk, WriteData,
             WriteError, HandlerEnd, HandlerFinally, HandlerAlive, HandlerState
      <2>2. \A u \in Tokens : handler'[u] = "none" => handler[u] = "none"
          BY <1>0, <2>1
      <2>3. ReplyOK(Cmd("ERR", t))' /\ Cmd("ERR", t) \in CMD
          BY <2>1, CmdTypes DEF Inv, Owned, ReplyOK, Cmd, CMDType
      <2> QED BY <1>0, <1>1, <2>1, <2>2, <2>3, HandshakeFrame DEF AgentSend
  <1>7. ASSUME NEW t \in Tokens, Peer(t)
        PROVE  Handshake'
      BY <1>0, <1>1, <1>7, HandshakeFrame DEF Peer, PeerSend, PeerClose
  <1>8. CASE Terminate
      BY <1>0, <1>1, <1>8, HandshakeFrame DEF Terminate
  <1> QED BY <1>2, <1>3, <1>4, <1>5, <1>6, <1>7, <1>8 DEF AgentNext, Dispatch

LEMMA HandshakeBrowser ==
    ASSUME Inv, BrowserNext, UNCHANGED agentVars
    PROVE  Handshake'
  <1>0. /\ TypeOK /\ Handshake /\ Believed /\ BrowserTypeOK
        /\ c2a \in Seq(CMD) /\ a2c \in Seq(CMD)
        /\ UNCHANGED <<conn, handler>>
        /\ Shrinks(a2c, a2c) /\ Shrinks(c2a, c2a)
      BY ShrinkFacts DEF Inv, TypeOK, LinkTypeOK, agentVars, Handshake
  <1> USE DEF linkVars
  <1>1. CASE IfaceTerminate
      <2>1. Believed'
          BY <1>0, <1>1 DEF Believed, IfaceTerminate
      <2>2. UNCHANGED c2a /\ Shrinks(a2c', a2c)
          BY <1>0, <1>1, ShrinkFacts DEF IfaceTerminate
      <2> QED BY <1>0, <2>1, <2>2, HandshakeFrame
  <1>2. ASSUME NEW t \in Tokens, OnData(t)
        PROVE  Handshake'
      <2>1. /\ a2c # <<>> /\ Head(a2c).token = t /\ a2c' = Tail(a2c)
            /\ UNCHANGED <<c2a, client, out_task>>
          BY <1>2 DEF OnData, OnEnd, OnContinue, OnSocketData, OnUnknown, OnDataFor
      <2>2. Shrinks(a2c', a2c) /\ ReplyOK(Head(a2c))
          BY <1>0, <2>1, ShrinkFacts, TailFacts DEF Handshake
      <2>3. Believed'
          <3>1. CASE OnContinue(t)
              <4>1. handler[t] # "none"
                  BY <2>1, <2>2, <3>1 DEF OnContinue, ReplyOK
              <4> QED BY <1>0, <3>1, <4>1 DEF Believed, OnContinue, BrowserTypeOK
          <3>2. CASE OnEnd(t)
              BY <1>0, <3>2 DEF Believed, OnEnd, BrowserTypeOK
          <3>3. CASE OnSocketData(t) \/ OnUnknown(t)
              BY <1>0, <3>3 DEF Believed, OnSocketData, OnUnknown
          <3> QED BY <1>2, <3>1, <3>2, <3>3 DEF OnData
      <2> QED BY <1>0, <2>1, <2>2, <2>3, HandshakeFrame
  <1>3. ASSUME NEW t \in Tokens, Established(t)
        PROVE  Handshake'
      <2>1. Believed'
          BY <1>0, <1>3 DEF Believed, Established, BrowserTypeOK
      <2> QED BY <1>0, <1>3, <2>1, HandshakeFrame DEF Established
  <1>4. ASSUME NEW t \in Tokens, TerminateClient(t)
        PROVE  Handshake'
      <2>1. Believed'
          BY <1>0, <1>4 DEF Believed, TerminateClient, BrowserTypeOK
      <2> QED BY <1>0, <1>4, <2>1, HandshakeFrame DEF TerminateClient
  <1>5. ASSUME NEW t \in Tokens,
               SendOkTask(t) \/ OutTask(t) \/ Run(t) \/ AppSend(t) \/ AppEnd(t)
        PROVE  Handshake'
      <2>1. /\ UNCHANGED <<a2c, established, last_error>>
            /\ \/ UNCHANGED c2a
               \/ BrowserSend(Cmd("OK", t)) \/ BrowserSend(Cmd("CONNECT", t))
               \/ /\ out_task[t] = "running" /\ Head(out_q[t]) \in Nat
                  /\ BrowserSend(SocketData(t, Head(out_q[t])))
          <3>1. OutSend(t) => Head(out_q[t]) \in Nat
              BY <1>0, NatSeq DEF OutSend, BrowserTypeOK
          <3> QED BY <1>5, <3>1
                  DEF SendOkTask, OutTask, OutSend, OutEnd, Run, AppSend, AppEnd
      <2>2. Believed'
          <3>1. \A u \in Tokens : /\ client'[u] = "open" => client[u] = "open"
                                  /\ out_task'[u] = "running" => out_task[u] = "running"
              BY <1>0, <1>5 DEF SendOkTask, OutTask, OutSend, OutEnd, Run,
                                AppSend, AppEnd, BrowserTypeOK
          <3> QED BY <1>0, <2>1, <3>1 DEF Believed
      <2>3. Shrinks(c2a', c2a) \/ \E m \in CMD : c2a' = Append(c2a, m) /\ RequestOK(m)'
          <3>1. /\ Cmd("OK", t) \in CMD /\ RequestOK(Cmd("OK", t))'
                /\ Cmd("CONNECT", t) \in CMD /\ RequestOK(Cmd("CONNECT", t))'
              BY CmdTypes DEF RequestOK, Cmd, CMDType
          <3>2. ASSUME out_task[t] = "running", NEW n \in Nat,
                       c2a' = Append(c2a, SocketData(t, n))
                PROVE  \E m \in CMD : c2a' = Append(c2a, m) /\ RequestOK(m)'
              <4>1. PICK m \in CMD : m = SocketData(t, n)
                  BY CmdTypes
              <4>2. RequestOK(m)'
                  BY <1>0, <3>2, <4>1 DEF RequestOK, SocketData, Believed
              <4> QED BY <3>2, <4>1, <4>2
          <3> QED BY <1>0, <2>1, <3>1, <3>2 DEF BrowserSend
      <2> QED BY <1>0, <2>1, <2>2, <2>3, HandshakeFrame
  <1> QED BY <1>1, <1>2, <1>3, <1>4, <1>5
          DEF BrowserNext, App, RunTask, EstablishFailed, Timeout, AppTerminate

LEMMA HandshakeStep ==
    ASSUME Inv, [Next]_vars
    PROVE  Handshake'
  <1>1. CASE LinkFailure \/ UNCHANGED vars
      <2>1. /\ Shrinks(c2a', c2a) /\ Shrinks(a2c', a2c)
            /\ UNCHANGED <<conn, handler, client, established, last_error, out_task>>
          BY <1>1, ShrinkFacts DEF LinkFailure, WsLost, vars, linkVars, Inv, TypeOK,
                                   LinkTypeOK, agentVars, browserVars
      <2>2. Believed'
          BY <2>1 DEF Believed, Inv, Handshake
      <2> QED BY <2>1, <2>2, HandshakeFrame DEF Inv
  <1> QED BY <1>1, HandshakeAgent, HandshakeBrowser DEF Next

-----------------------------------------------------------------------------
LEMMA InitInv == Init => Inv
  BY InitType DEF Inv, Init, LinkInit, AgentInit, BrowserInit, Owned,
                  ConnectOnce, Handshake, Believed

LEMMA InvStep == Inv /\ [Next]_vars => Inv'
  BY TypeStep, OwnedStep, ConnectOnceStep, HandshakeStep DEF Inv

THEOREM Invariance == Spec => []Inv
  BY InitInv, InvStep, PTL DEF Spec

\* An open socket has a handler that will close it, reachable through
\* __process_queues.
THEOREM SocketOwnedAlways == Spec => []SocketOwned
  <1>1. Inv => SocketOwned
      BY DEF Inv, Owned, SocketOwned, TypeOK, AgentTypeOK, HandlerState, HandlerAlive
  <1> QED BY <1>1, Invariance, PTL

\* Socket data from the browser never reaches the agent before its queue.
THEOREM DataNeverEarly == Spec => []DataNotEarly
  <1>1. Inv => DataNotEarly
      BY DEF Inv, Owned, Handshake, RequestOK, DataNotEarly, InFlight
  <1> QED BY <1>1, Invariance, PTL

\* run() returns True only for a tunnel whose TCP connection was made.
THEOREM OpenIsConnected == Spec => []OpenMeansConnected
  <1>1. Inv => OpenMeansConnected
      BY DEF Inv, Owned, Handshake, Believed, OpenMeansConnected
  <1> QED BY <1>1, Invariance, PTL

-----------------------------------------------------------------------------
(* The agent's OK ends what it says about a token.                          *)

LEMMA OkIsLastFrame ==
    ASSUME TypeOK, TypeOK', OkIsLast,
           \A t \in Tokens :
               conn[t] \in {"closing", "done"} => conn'[t] \in {"closing", "done"},
           \/ Shrinks(a2c', a2c)
           \/ \E m \in CMD :
                 /\ a2c' = Append(a2c, m)
                 /\ m.type = "ERR" \/ conn[m.token] \notin {"closing", "done"}
                 /\ m.type = "OK" => conn'[m.token] \in {"closing", "done"}
    PROVE  OkIsLast'
  <1>0. /\ a2c \in Seq(CMD) /\ a2c' \in Seq(CMD)
        /\ \A i \in DOMAIN a2c : a2c[i].token \in Tokens
        /\ \A i \in DOMAIN a2c' : a2c'[i].token \in Tokens
        /\ DOMAIN a2c = 1..Len(a2c) /\ Len(a2c) \in Nat
        /\ DOMAIN a2c' = 1..Len(a2c') /\ Len(a2c') \in Nat
      BY CmdElements DEF TypeOK, LinkTypeOK
  <1>1. CASE Shrinks(a2c', a2c)
      <2>1. PICK k \in Nat : \A i \in DOMAIN a2c' :
               i \in Nat /\ i + k \in DOMAIN a2c /\ a2c'[i] = a2c[i + k]
          BY <1>1 DEF Shrinks
      <2> SUFFICES ASSUME NEW i \in DOMAIN a2c', a2c'[i].type = "OK"
                   PROVE  /\ conn'[a2c'[i].token] \in {"closing", "done"}
                          /\ \A j \in (i + 1)..Len(a2c') :
                                a2c'[j].token = a2c'[i].token => a2c'[j].type = "ERR"
          BY DEF OkIsLast
      <2>2. /\ conn[a2c[i + k].token] \in {"closing", "done"}
            /\ \A j \in (i + k + 1)..Len(a2c) :
                  a2c[j].token = a2c[i + k].token => a2c[j].type = "ERR"
          BY <1>0, <2>1 DEF OkIsLast
      <2>3. ASSUME NEW j \in (i + 1)..Len(a2c'), a2c'[j].token = a2c'[i].token
            PROVE  a2c'[j].type = "ERR"
          <3>1. PICK n \in Nat, l \in Nat :
                   /\ DOMAIN a2c' = 1..n /\ i \in 1..n /\ j \in (i + 1)..n
                   /\ DOMAIN a2c = 1..l /\ l = Len(a2c)
              BY <1>0, <2>3
          <3>2. j \in DOMAIN a2c'
              BY <3>1
          <3>3. /\ a2c'[j] = a2c[j + k] /\ j + k \in DOMAIN a2c
              BY <2>1, <3>2
          <3>4. j + k \in (i + k + 1)..Len(a2c)
              BY <3>1, <3>3
          <3> QED BY <2>1, <2>2, <2>3, <3>3, <3>4
      <2> QED BY <1>0, <2>1, <2>2, <2>3
  <1>2. ASSUME NEW m \in CMD, a2c' = Append(a2c, m),
               m.type = "ERR" \/ conn[m.token] \notin {"closing", "done"},
               m.type = "OK" => conn'[m.token] \in {"closing", "done"}
        PROVE  OkIsLast'
      <2>1. /\ Len(a2c') = Len(a2c) + 1 /\ a2c'[Len(a2c) + 1] = m
            /\ \A i \in 1..Len(a2c) : a2c'[i] = a2c[i]
          BY <1>0, <1>2, AppendFacts
      <2> SUFFICES ASSUME NEW i \in DOMAIN a2c', a2c'[i].type = "OK"
                   PROVE  /\ conn'[a2c'[i].token] \in {"closing", "done"}
                          /\ \A j \in (i + 1)..Len(a2c') :
                                a2c'[j].token = a2c'[i].token => a2c'[j].type = "ERR"
          BY DEF OkIsLast
      <2>2. CASE i = Len(a2c) + 1
          BY <1>0, <1>2, <2>1, <2>2
      <2>3. CASE i \in 1..Len(a2c)
          <3>1. /\ conn[a2c[i].token] \in {"closing", "done"}
                /\ \A j \in (i + 1)..Len(a2c) :
                      a2c[j].token = a2c[i].token => a2c[j].type = "ERR"
              BY <1>0, <2>1, <2>3 DEF OkIsLast
          <3>2. ASSUME NEW j \in (i + 1)..Len(a2c'), a2c'[j].token = a2c'[i].token
                PROVE  a2c'[j].type = "ERR"
              <4>1. CASE j = Len(a2c) + 1
                  BY <1>2, <2>1, <2>3, <3>1, <3>2, <4>1
              <4>2. CASE j \in (i + 1)..Len(a2c)
                  BY <1>0, <2>1, <2>3, <3>1, <3>2, <4>2
              <4> QED BY <1>0, <2>1, <4>1, <4>2
          <3> QED BY <1>0, <2>1, <2>3, <3>1, <3>2
      <2> QED BY <1>0, <2>1, <2>2, <2>3
  <1> QED BY <1>1, <1>2

LEMMA OkIsLastStep ==
    ASSUME Inv, OkIsLast, [Next]_vars
    PROVE  OkIsLast'
  <1>0. /\ TypeOK /\ TypeOK' /\ a2c \in Seq(CMD) /\ conn \in [Tokens -> ConnState]
        /\ Shrinks(a2c, a2c)
      BY TypeStep, ShrinkFacts DEF Inv, TypeOK, LinkTypeOK, AgentTypeOK
  <1> USE DEF taskVars, queueVars, peerVars, linkVars
  <1>1. CASE DispatchConnect
      <2>1. PICK t \in Tokens : /\ c2a # <<>> /\ Head(c2a) = Cmd("CONNECT", t)
                                /\ conn' = [conn EXCEPT ![t] = "connecting"]
                                /\ UNCHANGED a2c
          BY <1>1 DEF DispatchConnect, Receive
      <2>2. 1 \in DOMAIN c2a /\ c2a[1].type = "CONNECT" /\ c2a[1].token = t
          BY <2>1, TailFacts DEF Cmd, Inv, TypeOK, LinkTypeOK
      <2>3. conn[t] = "none"
          BY <2>2 DEF ConnectOnce, Inv
      <2> QED BY <1>0, <2>1, <2>3, OkIsLastFrame
  <1>2. CASE DispatchToQueue \/ DispatchIgnored \/ DispatchUnexpected
      <2>1. /\ UNCHANGED conn
            /\ UNCHANGED a2c \/ \E t \in Tokens : AgentSend(Cmd("ERR", t))
          BY <1>2 DEF DispatchToQueue, DispatchIgnored, DispatchUnexpected
      <2>2. \A t \in Tokens : Cmd("ERR", t) \in CMD /\ Cmd("ERR", t).type = "ERR"
          BY CmdTypes DEF Cmd, CMDType
      <2> QED BY <1>0, <2>1, <2>2, OkIsLastFrame DEF AgentSend
  <1>3. ASSUME NEW t \in Tokens, ConnTask(t)
        PROVE  OkIsLast'
      <2>1. \E c \in ConnState : /\ conn' = [conn EXCEPT ![t] = c]
                                 /\ conn[t] = "closing" => c = "done"
          BY <1>3 DEF ConnTask, ConnectOk, ConnectFail, ReadData, ReadEof,
                      ReadError, ConnFinally, ConnCancelled, CancelHandler,
                      Reading, AfterSend, ConnState
      <2>2. \A u \in Tokens : conn[u] \in {"closing", "done"} =>
                                 conn'[u] \in {"closing", "done"}
          <3>1. conn[t] # "done"
              BY <1>3 DEF ConnTask, ConnectOk, ConnectFail, ReadData, ReadEof,
                          ReadError, ConnFinally, ConnCancelled, Reading
          <3> QED BY <1>0, <2>1, <3>1
      <2>3. \/ UNCHANGED a2c
            \/ AgentSend(Cmd("ERR", t))
            \/ AgentSend(Cmd("CONTINUE", t)) /\ conn[t] = "connecting"
            \/ AgentSend(Cmd("OK", t)) /\ conn[t] = "reading" /\ conn'[t] = "closing"
            \/ AgentSend(SocketData(t, taken[t] + 1)) /\ conn[t] = "reading"
          BY <1>0, <1>3
          DEF ConnTask, ConnectOk, ConnectFail, ReadData, ReadEof, ReadError,
              ConnFinally, ConnCancelled, CancelHandler, Reading
      <2>4. /\ Cmd("OK", t) \in CMD /\ Cmd("OK", t).token = t
            /\ Cmd("ERR", t) \in CMD /\ Cmd("ERR", t).type = "ERR"
            /\ Cmd("CONTINUE", t) \in CMD /\ Cmd("CONTINUE", t).token = t
            /\ Cmd("CONTINUE", t).type # "OK"
          BY CmdTypes DEF Cmd, CMDType
      <2>5. PICK n \in Nat : n = taken[t] + 1
          BY DEF Inv, TypeOK, AgentTypeOK
      <2>6. /\ SocketData(t, n) \in CMD /\ SocketData(t, n).token = t
            /\ SocketData(t, n).type # "OK"
          BY CmdTypes DEF SocketData
      <2> QED BY <1>0, <2>2, <2>3, <2>4, <2>5, <2>6, OkIsLastFrame DEF AgentSend
  <1>4. ASSUME NEW t \in Tokens, HandlerTask(t) \/ Peer(t)
        PROVE  OkIsLast'
      <2>1. UNCHANGED conn /\ (UNCHANGED a2c \/ AgentSend(Cmd("ERR", t)))
          BY <1>4 DEF HandlerTask, HandlerStart, GetData, GetOk, WriteData,
             WriteError, HandlerEnd, HandlerFinally, Peer, PeerSend, PeerClose
      <2>2. Cmd("ERR", t) \in CMD /\ Cmd("ERR", t).type = "ERR"
          BY CmdTypes DEF Cmd, CMDType
      <2> QED BY <1>0, <2>1, <2>2, OkIsLastFrame DEF AgentSend
  <1>5. CASE UNCHANGED <<conn, a2c>>
      BY <1>0, <1>5, OkIsLastFrame
  <1>6. CASE BrowserNext /\ UNCHANGED agentVars
      <2>1. /\ UNCHANGED conn
            /\ \/ a2c' \in {a2c, <<>>}
               \/ a2c # <<>> /\ a2c' = Tail(a2c)
          <3>1. UNCHANGED conn
              BY <1>6 DEF agentVars
          <3>2. CASE IfaceTerminate
              BY <3>1, <3>2 DEF IfaceTerminate
          <3>3. ASSUME NEW t \in Tokens, OnData(t)
                PROVE  a2c # <<>> /\ a2c' = Tail(a2c)
              BY <3>3 DEF OnData, OnDataFor, OnEnd, OnContinue, OnSocketData, OnUnknown
          <3>4. ASSUME NEW t \in Tokens,
                       SendOkTask(t) \/ RunTask(t) \/ Timeout(t) \/ OutTask(t) \/ App(t)
                PROVE  UNCHANGED a2c
              BY <3>4 DEF SendOkTask, RunTask, Established, EstablishFailed, Timeout,
                 TerminateClient, OutTask, OutSend, OutEnd, App, Run, AppSend,
                 AppEnd, AppTerminate
          <3> QED BY <1>6, <3>1, <3>2, <3>3, <3>4 DEF BrowserNext
      <2>2. Shrinks(a2c', a2c)
          BY <1>0, <2>1, ShrinkFacts
      <2> QED BY <1>0, <2>1, <2>2, OkIsLastFrame
  <1>7. CASE LinkFailure
      <2>1. UNCHANGED conn /\ Shrinks(a2c', a2c)
          BY <1>0, <1>7, ShrinkFacts DEF LinkFailure, WsLost, agentVars
      <2> QED BY <1>0, <2>1, OkIsLastFrame
  <1>8. CASE Terminate
      BY <1>5, <1>8 DEF Terminate
  <1> QED BY <1>1, <1>2, <1>3, <1>4, <1>5, <1>6, <1>7, <1>8
          DEF Next, AgentNext, Dispatch, vars, agentVars

\* After the agent's OK no socket data and no second OK for that token.
THEOREM OkAlwaysLast == Spec => []OkIsLast
  <1>1. Init => OkIsLast
      BY DEF Init, LinkInit, OkIsLast
  <1>2. Inv /\ OkIsLast /\ [Next]_vars => OkIsLast'
      BY OkIsLastStep
  <1> QED BY <1>1, <1>2, Invariance, PTL DEF Spec
-----------------------------------------------------------------------------
(* Both directions as ordered streams.  A second invariant says where the  *)
(* chunks of a tunnel are.  From the peer: read, then in the channel in     *)
(* the order of the reads, then in in_q, as long as the browser knows the   *)
(* token.  From the application: in out_q, then in the channel, then in     *)
(* the queue of the handler, then in its hands, then written, as long as    *)
(* the handler is not done.  While the WebSocket is open none is missing.   *)

Registered == dispatch_table = {t \in Tokens : client[t] \in {"connecting", "open"}}

\* The queue of a token has commands of that token only.
Mine == \A t \in Tokens : \A i \in DOMAIN cmdq[t] : cmdq[t][i].token = t

Lane(t) == [n \in Pos |-> SocketData(t, n)]

Inward(t) ==
    /\ InOrder(a2c, Lane(t), Range(in_q[t]), taken[t])
    /\ wsUp => Whole(a2c, Lane(t), Range(in_q[t]), taken[t])

InFlow == \A t \in Tokens : /\ taken[t] <= sent[t]
                            /\ client[t] # "closed" => Inward(t)

\* What is on its way to the handler, and what has reached it.
Pipe(t) == cmdq[t] \o c2a

InHand(t) == IF handler[t] = "write" THEN {writing[t]} ELSE {}

Reached(t) == Range(written[t]) \cup InHand(t)

\* The first k chunks have left out_q, and the others wait there in order.
Numbers == [n \in Pos |-> n]

Unsent(t, k) == /\ InOrder(out_q[t], Numbers, 1..k, appSent[t])
                /\ Whole(out_q[t], Numbers, 1..k, appSent[t])

Sent(t, k) == /\ InOrder(Pipe(t), Lane(t), Reached(t), k)
              /\ Whole(Pipe(t), Lane(t), Reached(t), k)

Outward(t) ==
    /\ InOrder(Pipe(t), Lane(t), Reached(t), appSent[t])
    /\ wsUp => \E k \in 0..appSent[t] : Sent(t, k) /\ Unsent(t, k)

OutFlow == \A t \in Tokens : handler[t] # "done" => Outward(t)

\* The chunk that the handler will write is the next one.
NextInHand ==
    \A t \in Tokens : handler[t] = "write" =>
        \/ writing[t] = EndItem
        \/ /\ writing[t] \in 1..appSent[t] /\ writing[t] \notin Range(written[t])
           /\ \A l \in 1..(writing[t] - 1) : l \in Range(written[t])

Flow == Registered /\ Mine /\ InFlow /\ OutFlow /\ NextInHand


LEMMA CommandFacts ==
    ASSUME NEW m \in CMD
    PROVE  /\ m.token \in Tokens /\ m.type \in CMDType /\ m.chunk \in Nat
           /\ m.type = "SD" => m = SocketData(m.token, m.chunk)
  BY DEF CMD, SocketData

LEMMA LaneFacts ==
    ASSUME NEW t \in Tokens
    PROVE  /\ IsLane(Lane(t))
           /\ \A n \in Pos : Lane(t)[n] = SocketData(t, n) /\ Lane(t)[n] \in CMD
           /\ \A m \in CMD : m.type # "SD" \/ m.token # t \/ m.chunk = 0
                                => \A n \in Pos : m # Lane(t)[n]
           /\ Lane(t)' = Lane(t)
  <1>1. \A n \in Pos : Lane(t)[n] = SocketData(t, n)
      BY DEF Lane
  <1>2. \A n \in Pos : SocketData(t, n) \in CMD
      BY CmdTypes DEF Pos
  <1>0. \A n : /\ SocketData(t, n).chunk = n /\ SocketData(t, n).token = t
               /\ SocketData(t, n).type = "SD"
      BY DEF SocketData
  <1>3. IsLane(Lane(t))
      <2>1. ASSUME NEW l \in Pos, NEW m \in Pos, Lane(t)[l] = Lane(t)[m] PROVE l = m
          <3>1. SocketData(t, l) = SocketData(t, m)
              BY <1>1, <2>1
          <3>2. SocketData(t, l).chunk = SocketData(t, m).chunk
              BY <3>1
          <3> QED BY <1>0, <3>2
      <2> QED BY <2>1 DEF IsLane
  <1>4. ASSUME NEW m \in CMD, m.type # "SD" \/ m.token # t \/ m.chunk = 0, NEW n \in Pos
        PROVE  m # Lane(t)[n]
      <2>1. SUFFICES ASSUME m = SocketData(t, n) PROVE FALSE
          BY <1>1
      <2>2. m.type = "SD" /\ m.token = t /\ m.chunk = n
          BY <1>0, <2>1
      <2> QED BY <1>4, <2>2 DEF Pos
  <1>5. Lane(t)' = Lane(t)
      BY DEF Lane, SocketData
  <1> QED BY <1>1, <1>2, <1>3, <1>4, <1>5

LEMMA NumberLane ==
    /\ IsLane(Numbers) /\ \A n \in Pos : Numbers[n] = n
    /\ \A n \in Pos : 0 # Numbers[n]
  BY DEF IsLane, Numbers, Pos

\* The command at the head of a channel has the next chunk.
LEMMA HeadIsNext ==
    ASSUME NEW t \in Tokens, NEW ch \in Seq(CMD), ch # <<>>, NEW got,
           NEW n \in Nat, NEW k \in Nat, n <= k, InOrder(ch, Lane(t), got, n),
           NEW m \in Nat, m # 0, Head(ch) = SocketData(t, m)
    PROVE  m \in 1..k /\ m \notin got /\ \A l \in 1..(m - 1) : l \in got
  <1> DEFINE new == got \cup {m}
  <1>1. m \in Pos /\ new \cap Pos = (got \cap Pos) \cup {m} /\ IsLane(Lane(t))
      BY LaneFacts DEF Pos
  <1>2. Head(ch) = Lane(t)[m]
      BY <1>1, LaneFacts
  <1> HIDE DEF new
  <1>3. /\ m \notin got /\ m <= n /\ \A l \in 1..(m - 1) : l \in got
        /\ InOrder(Tail(ch), Lane(t), new, n)
        /\ Whole(ch, Lane(t), got, n) => Whole(Tail(ch), Lane(t), new, n)
      BY <1>1, <1>2, LaneLeave
  <1> QED BY <1>1, <1>3 DEF Pos

\* A command leaves a channel.  If it has a chunk of t, that has arrived.
LEMMA LaneTaken ==
    ASSUME NEW t \in Tokens, NEW ch \in Seq(CMD), ch # <<>>, NEW got, NEW new, NEW n \in Nat,
           InOrder(ch, Lane(t), got, n),
           \/ /\ Head(ch).type = "SD" /\ Head(ch).token = t
              /\ new = got \cup {Head(ch).chunk}
           \/ /\ Head(ch).type # "SD" \/ Head(ch).token # t
              /\ new \cap Pos = got \cap Pos
    PROVE  /\ InOrder(Tail(ch), Lane(t), new, n)
           /\ Whole(ch, Lane(t), got, n) => Whole(Tail(ch), Lane(t), new, n)
  <1> DEFINE e == Head(ch)
  <1>1. e \in CMD /\ n <= n /\ IsLane(Lane(t))
      BY CmdSeq, LaneFacts
  <1>2. CASE e.type = "SD" /\ e.token = t /\ e.chunk # 0
      <2>1. e.chunk \in Pos /\ e = Lane(t)[e.chunk]
          BY <1>1, <1>2, CommandFacts, LaneFacts DEF Pos
      <2>2. new = got \cup {e.chunk}
          BY <1>2
      <2>3. new \cap Pos = (got \cap Pos) \cup {e.chunk}
          BY <2>1, <2>2
      <2> DEFINE m == e.chunk
      <2>4. m \in Pos /\ Head(ch) = Lane(t)[m] /\ new \cap Pos = (got \cap Pos) \cup {m}
          BY <2>1, <2>3
      <2> HIDE DEF m, e
      <2> QED BY <1>1, <2>4, LaneLeave
  <1>3. CASE e.type # "SD" \/ e.token # t \/ e.chunk = 0
      <2>1. \A m \in Pos : Head(ch) # Lane(t)[m]
          BY <1>1, <1>3, LaneFacts
      <2>2. new \cap Pos = got \cap Pos
          BY <1>3 DEF Pos
      <2>3. /\ InOrder(Tail(ch), Lane(t), got, n)
            /\ Whole(ch, Lane(t), got, n) => Whole(Tail(ch), Lane(t), got, n)
          BY <2>1, LaneSkip
      <2> HIDE DEF e
      <2>4. /\ InOrder(Tail(ch), Lane(t), new, n)
            /\ Whole(Tail(ch), Lane(t), got, n) => Whole(Tail(ch), Lane(t), new, n)
          BY <1>1, <2>2, <2>3, LaneSame
      <2> QED BY <2>3, <2>4
  <1> QED BY <1>2, <1>3

-----------------------------------------------------------------------------
(* The browser knows a token from run() until terminate().                  *)

LEMMA NothingInRange == Range(<<>>) = {}
  BY DEF Range

LEMMA FlowInit == Init => Flow
  <1> SUFFICES ASSUME Init PROVE Flow
      OBVIOUS
  <1> USE DEF Init, LinkInit, AgentInit, BrowserInit
  <1>1. Registered /\ Mine /\ NextInHand
      BY DEF Registered, Mine, NextInHand
  <1>2. \A t \in Tokens : Range(in_q[t]) = {} /\ Range(written[t]) = {}
      <2>1. \A t \in Tokens : in_q[t] = <<>> /\ written[t] = <<>>
          OBVIOUS
      <2> QED BY <2>1, NothingInRange
  <1>3. InFlow
      <2> SUFFICES ASSUME NEW t \in Tokens PROVE taken[t] <= sent[t] /\ Inward(t)
          BY DEF InFlow
      <2>1. a2c = <<>> /\ taken[t] = 0 /\ sent[t] = 0
          OBVIOUS
      <2> QED BY <1>2, <2>1 DEF Inward, InOrder, Whole
  <1>4. OutFlow
      <2> SUFFICES ASSUME NEW t \in Tokens PROVE Outward(t)
          BY DEF OutFlow
      <2>1. c2a = <<>> /\ cmdq[t] = <<>> /\ out_q[t] = <<>> /\ appSent[t] = 0
          OBVIOUS
      <2>2. Pipe(t) = <<>> /\ Reached(t) = {}
          BY <1>2, <2>1 DEF Pipe, Reached, InHand
      <2>3. Sent(t, 0) /\ Unsent(t, 0)
          BY <2>1, <2>2 DEF Sent, Unsent, InOrder, Whole
      <2>4. 0 \in 0..appSent[t]
          BY <2>1
      <2> QED BY <2>1, <2>3, <2>4 DEF Outward, Sent
  <1> QED BY <1>1, <1>3, <1>4 DEF Flow

LEMMA RegisteredStep == Inv /\ Registered /\ [Next]_vars => Registered'
  <1> SUFFICES ASSUME Inv, Registered, [Next]_vars PROVE Registered'
      OBVIOUS
  <1>0. client \in [Tokens -> {"idle", "connecting", "open", "closed"}]
      BY DEF Inv, TypeOK, BrowserTypeOK
  <1>1. CASE UNCHANGED <<dispatch_table, client>>
      BY <1>1 DEF Registered
  <1>2. ASSUME NEW t \in Tokens, TerminateClient(t) PROVE Registered'
      BY <1>0, <1>2 DEF TerminateClient, Registered
  <1>3. ASSUME NEW t \in Tokens, Run(t) \/ Established(t) PROVE Registered'
      BY <1>0, <1>3 DEF Run, Established, Registered
  <1>4. ASSUME NEW t \in Tokens,
               OnData(t) \/ SendOkTask(t) \/ OutTask(t) \/ AppSend(t) \/ AppEnd(t)
        PROVE  UNCHANGED <<dispatch_table, client>>
      BY <1>4 DEF OnData, OnEnd, OnContinue, OnSocketData, OnUnknown, SendOkTask,
                  OutTask, OutSend, OutEnd, AppSend, AppEnd
  <1>5. IfaceTerminate => UNCHANGED <<dispatch_table, client>>
      BY DEF IfaceTerminate
  <1>6. CASE BrowserNext
      BY <1>1, <1>2, <1>3, <1>4, <1>5, <1>6
      DEF BrowserNext, RunTask, EstablishFailed, Timeout, App, AppTerminate
  <1>7. CASE UNCHANGED browserVars
      BY <1>1, <1>7 DEF browserVars
  <1> QED BY <1>6, <1>7 DEF Next, LinkFailure, vars

LEMMA ClosedForGood ==
    ASSUME Inv, [Next]_vars, NEW t \in Tokens, client[t] = "closed"
    PROVE  client'[t] = "closed"
  <1>0. client \in [Tokens -> {"idle", "connecting", "open", "closed"}]
      BY DEF Inv, TypeOK, BrowserTypeOK
  <1>1. ASSUME NEW u \in Tokens, TerminateClient(u) PROVE client'[t] = "closed"
      BY <1>0, <1>1 DEF TerminateClient
  <1>2. ASSUME NEW u \in Tokens, Run(u) \/ Established(u) PROVE client'[t] = "closed"
      BY <1>0, <1>2 DEF Run, Established
  <1>3. ASSUME NEW u \in Tokens,
               OnData(u) \/ SendOkTask(u) \/ OutTask(u) \/ AppSend(u) \/ AppEnd(u)
        PROVE  UNCHANGED client
      BY <1>3 DEF OnData, OnEnd, OnContinue, OnSocketData, OnUnknown, SendOkTask,
                  OutTask, OutSend, OutEnd, AppSend, AppEnd
  <1>4. IfaceTerminate => UNCHANGED client
      BY DEF IfaceTerminate
  <1>5. CASE BrowserNext
      BY <1>1, <1>2, <1>3, <1>4, <1>5
      DEF BrowserNext, RunTask, EstablishFailed, Timeout, App, AppTerminate
  <1>6. CASE UNCHANGED browserVars
      BY <1>6 DEF browserVars
  <1> QED BY <1>5, <1>6 DEF Next, LinkFailure, vars


-----------------------------------------------------------------------------
(* The data that peers send.                                                *)

\* What the agent says, and what it reads from the peer before.
Says(types) == \E t \in Tokens, type \in types : AgentSend(Cmd(type, t))

LEMMA AgentSays ==
    ASSUME AgentNext
    PROVE  /\ wsUp' = wsUp
           /\ \/ UNCHANGED <<a2c, taken>>
              \/ Says({"CONTINUE", "OK", "ERR"}) /\ UNCHANGED taken
              \/ \E t \in Tokens : ReadData(t)
  <1> USE DEF taskVars, queueVars, peerVars, linkVars
  <1> DEFINE Saying == Says({"CONTINUE", "OK", "ERR"}) /\ UNCHANGED taken
  <1>0. \A t \in Tokens, type \in {"CONTINUE", "OK", "ERR"} :
           AgentSend(Cmd(type, t)) => Says({"CONTINUE", "OK", "ERR"})
      BY DEF Says
  <1>1. CASE Terminate \/ DispatchToQueue \/ DispatchConnect \/ DispatchIgnored
      BY <1>1 DEF Terminate, DispatchToQueue, DispatchConnect, DispatchIgnored
  <1>2. CASE DispatchUnexpected
      BY <1>0, <1>2 DEF DispatchUnexpected
  <1>3. ASSUME NEW t \in Tokens, Peer(t) \/ HandlerStart(t) \/ GetData(t) \/ GetOk(t)
                                  \/ WriteData(t) \/ HandlerEnd(t)
        PROVE  UNCHANGED <<a2c, wsUp, taken>>
      BY <1>3 DEF Peer, PeerSend, PeerClose, HandlerStart, GetData, GetOk, WriteData,
                  HandlerEnd, HandlerFinally
  <1>4. ASSUME NEW t \in Tokens, WriteError(t) PROVE wsUp' = wsUp /\ Saying
      BY <1>0, <1>4 DEF WriteError
  <1>5. ASSUME NEW t \in Tokens, ConnectOk(t) \/ ConnectFail(t) \/ ReadEof(t) \/ ReadError(t)
        PROVE  wsUp' = wsUp /\ Saying
      BY <1>0, <1>5 DEF ConnectOk, ConnectFail, ReadEof, ReadError
  <1>6. ASSUME NEW t \in Tokens, ConnFinally(t) \/ ConnCancelled(t)
        PROVE  UNCHANGED <<a2c, wsUp, taken>>
      BY <1>6 DEF ConnFinally, ConnCancelled, CancelHandler
  <1>7. ASSUME NEW t \in Tokens, ReadData(t) PROVE wsUp' = wsUp
      BY <1>7 DEF ReadData
  <1> QED BY <1>1, <1>2, <1>3, <1>4, <1>5, <1>6, <1>7
          DEF AgentNext, Dispatch, ConnTask, HandlerTask

\* A command that is no data of t enters the channel.
LEMMA InwardOther ==
    ASSUME TypeOK, NEW t \in Tokens, Inward(t), NEW m \in CMD,
           m.type # "SD" \/ m.token # t, AgentSend(m),
           wsUp' = wsUp, taken'[t] = taken[t], in_q'[t] = in_q[t]
    PROVE  Inward(t)'
  <1>1. a2c \in Seq(CMD) /\ Lane(t)' = Lane(t) /\ \A n \in Pos : m # Lane(t)[n]
      BY LaneFacts DEF TypeOK, LinkTypeOK
  <1>2. InOrder(a2c, Lane(t), Range(in_q[t]), taken[t])
      BY DEF Inward
  <1>3. /\ InOrder(Append(a2c, m), Lane(t), Range(in_q[t]), taken[t])
        /\ Whole(a2c, Lane(t), Range(in_q[t]), taken[t])
              => Whole(Append(a2c, m), Lane(t), Range(in_q[t]), taken[t])
      BY <1>1, <1>2, LaneOther
  <1>4. a2c' = Append(a2c, m) \/ (a2c' = a2c /\ ~wsUp)
      BY DEF AgentSend
  <1> QED BY <1>1, <1>2, <1>3, <1>4 DEF Inward

\* The next chunk of t enters it.
LEMMA InwardNext ==
    ASSUME TypeOK, NEW t \in Tokens, Inward(t), ReadData(t), in_q'[t] = in_q[t]
    PROVE  Inward(t)'
  <1> DEFINE n == taken[t]
  <1>1. /\ a2c \in Seq(CMD) /\ n \in Nat /\ n + 1 \in Nat /\ n <= n + 1
        /\ taken'[t] = n + 1 /\ wsUp' = wsUp
      BY DEF TypeOK, LinkTypeOK, AgentTypeOK, ReadData
  <1>2. /\ IsLane(Lane(t)) /\ Lane(t)[n + 1] = SocketData(t, n + 1)
        /\ Lane(t)[n + 1] \in CMD /\ Lane(t)' = Lane(t)
      BY <1>1, LaneFacts DEF Pos
  <1>3. InOrder(a2c, Lane(t), Range(in_q[t]), n)
      BY DEF Inward
  <1>4. CASE wsUp
      <2>1. a2c' = Append(a2c, Lane(t)[n + 1])
          BY <1>2, <1>4 DEF ReadData, AgentSend
      <2>2. Whole(a2c, Lane(t), Range(in_q[t]), n)
          BY <1>4 DEF Inward
      <2> HIDE DEF n
      <2>3. /\ InOrder(Append(a2c, Lane(t)[n + 1]), Lane(t), Range(in_q[t]), n + 1)
            /\ Whole(Append(a2c, Lane(t)[n + 1]), Lane(t), Range(in_q[t]), n + 1)
          BY <1>1, <1>2, <1>3, <2>2, LaneEnter
      <2> QED BY <1>1, <1>2, <2>1, <2>3 DEF Inward
  <1>5. CASE ~wsUp
      <2>1. a2c' = a2c
          BY <1>5 DEF ReadData, AgentSend
      <2> HIDE DEF n
      <2>2. InOrder(a2c, Lane(t), Range(in_q[t]), n + 1)
          BY <1>1, <1>3, LaneSame
      <2> QED BY <1>1, <1>2, <1>5, <2>1, <2>2 DEF Inward
  <1> QED BY <1>4, <1>5

\* The number of chunks read and sent.
LEMMA ReadBound ==
    ASSUME TypeOK, AgentNext, NEW t \in Tokens, taken[t] <= sent[t]
    PROVE  taken'[t] <= sent'[t]
  <1> USE DEF taskVars, queueVars, peerVars, linkVars
  <1>0. taken \in [Tokens -> Nat] /\ sent \in [Tokens -> Nat]
      BY DEF TypeOK, AgentTypeOK
  <1>1. ASSUME NEW u \in Tokens, Peer(u) PROVE taken'[t] <= sent'[t]
      <2>1. taken' = taken /\ (sent' = sent \/ sent' = [sent EXCEPT ![u] = @ + 1])
          BY <1>1 DEF Peer, PeerSend, PeerClose
      <2> QED BY <1>0, <2>1
  <1>2. ASSUME NEW u \in Tokens, ReadData(u) PROVE taken'[t] <= sent'[t]
      BY <1>0, <1>2 DEF ReadData
  <1>3. ASSUME NEW u \in Tokens, ConnTask(u), ~ReadData(u) PROVE UNCHANGED <<taken, sent>>
      BY <1>3 DEF ConnTask, ConnectOk, ConnectFail, ReadEof, ReadError, ConnFinally,
                  ConnCancelled, CancelHandler
  <1>4. ASSUME NEW u \in Tokens, HandlerTask(u) PROVE UNCHANGED <<taken, sent>>
      BY <1>4 DEF HandlerTask, HandlerStart, GetData, GetOk, WriteData, WriteError,
                  HandlerEnd, HandlerFinally
  <1>5. Dispatch \/ Terminate => UNCHANGED <<taken, sent>>
      BY DEF Dispatch, DispatchToQueue, DispatchConnect, DispatchUnexpected,
             DispatchIgnored, Terminate
  <1> QED BY <1>1, <1>2, <1>3, <1>4, <1>5 DEF AgentNext

LEMMA InFlowAgent ==
    ASSUME TypeOK, InFlow, AgentNext, UNCHANGED browserVars
    PROVE  InFlow'
  <1> SUFFICES ASSUME NEW t \in Tokens, client[t] # "closed" PROVE Inward(t)'
      BY ReadBound DEF InFlow, browserVars
  <1>0. Inward(t) /\ in_q' = in_q /\ taken \in [Tokens -> Nat] /\ Lane(t)' = Lane(t)
      BY LaneFacts DEF InFlow, browserVars, TypeOK, AgentTypeOK
  <1>1. wsUp' = wsUp
      BY AgentSays
  <1>2. CASE UNCHANGED <<a2c, taken>>
      BY <1>0, <1>1, <1>2 DEF Inward
  <1>3. CASE Says({"CONTINUE", "OK", "ERR"}) /\ UNCHANGED taken
      <2>1. PICK u \in Tokens, type \in {"CONTINUE", "OK", "ERR"} : AgentSend(Cmd(type, u))
          BY <1>3 DEF Says
      <2>2. Cmd(type, u) \in CMD /\ Cmd(type, u).type # "SD"
          BY CmdTypes DEF CMDType, Cmd
      <2> QED BY <1>0, <1>1, <1>3, <2>1, <2>2, InwardOther
  <1>4. ASSUME NEW u \in Tokens, ReadData(u) PROVE Inward(t)'
      <2>1. CASE u = t
          BY <1>0, <1>4, <2>1, InwardNext
      <2>2. CASE u # t
          <3> DEFINE m == SocketData(u, taken[u] + 1)
          <3>1. AgentSend(m) /\ taken'[t] = taken[t] /\ taken[u] + 1 \in Nat
              BY <1>0, <1>4, <2>2 DEF ReadData
          <3>2. m \in CMD /\ m.token # t
              BY <2>2, <3>1, CmdTypes DEF SocketData
          <3> HIDE DEF m
          <3> QED BY <1>0, <1>1, <3>1, <3>2, InwardOther
      <2> QED BY <2>1, <2>2
  <1> QED BY <1>2, <1>3, <1>4, AgentSays

\* The browser takes a command, and what it puts in in_q is what it took.
LEMMA InwardTaken ==
    ASSUME TypeOK, NEW t \in Tokens, Inward(t), a2c # <<>>, a2c' = Tail(a2c),
           UNCHANGED <<wsUp, taken>>,
           \/ /\ Head(a2c).type = "SD" /\ Head(a2c).token = t
              /\ in_q'[t] = Append(in_q[t], Head(a2c).chunk)
           \/ /\ Head(a2c).type # "SD" \/ Head(a2c).token # t
              /\ in_q'[t] \in {in_q[t], Append(in_q[t], EndItem)}
    PROVE  Inward(t)'
  <1> DEFINE got == Range(in_q[t])
             new == Range(in_q'[t])
             n == taken[t]
             e == Head(a2c)
  <1>1. /\ a2c \in Seq(CMD) /\ n \in Nat /\ in_q[t] \in Seq(Nat) /\ Lane(t)' = Lane(t)
        /\ e.chunk \in Nat /\ 0 \in Nat
      BY LaneFacts, CmdSeq, CommandFacts DEF TypeOK, LinkTypeOK, AgentTypeOK, BrowserTypeOK
  <1>2. InOrder(a2c, Lane(t), got, n)
      BY DEF Inward
  <1>3. \/ e.type = "SD" /\ e.token = t /\ new = got \cup {e.chunk}
        \/ (e.type # "SD" \/ e.token # t) /\ new \cap Pos = got \cap Pos
      <2>1. /\ Range(Append(in_q[t], e.chunk)) = got \cup {e.chunk}
            /\ Range(Append(in_q[t], 0)) \cap Pos = got \cap Pos
          BY <1>1, GotMore
      <2> QED BY <2>1 DEF EndItem
  <1> HIDE DEF got, new, n
  <1>4. /\ InOrder(Tail(a2c), Lane(t), new, n)
        /\ Whole(a2c, Lane(t), got, n) => Whole(Tail(a2c), Lane(t), new, n)
      BY <1>1, <1>2, <1>3, LaneTaken
  <1> QED BY <1>1, <1>4 DEF Inward, got, new, n

LEMMA InFlowBrowser ==
    ASSUME Inv, Registered, InFlow, BrowserNext, UNCHANGED agentVars
    PROVE  InFlow'
  <1> SUFFICES ASSUME NEW t \in Tokens, client'[t] # "closed" PROVE Inward(t)'
      <2>1. UNCHANGED <<taken, sent>>
          BY DEF agentVars
      <2> QED BY <2>1 DEF InFlow
  <1>0. /\ UNCHANGED taken /\ in_q \in [Tokens -> Seq(Nat)] /\ a2c \in Seq(CMD)
        /\ TypeOK /\ Lane(t)' = Lane(t)
      BY LaneFacts DEF agentVars, Inv, TypeOK, BrowserTypeOK, LinkTypeOK
  <1>1. client[t] # "closed" /\ Inward(t)
      BY ClosedForGood DEF Next, InFlow
  <1>2. CASE UNCHANGED <<a2c, wsUp, in_q>>
      BY <1>0, <1>1, <1>2 DEF Inward
  <1>3. ASSUME NEW u \in Tokens,
               SendOkTask(u) \/ RunTask(u) \/ Timeout(u) \/ OutTask(u) \/ App(u)
        PROVE  UNCHANGED <<a2c, wsUp, in_q>>
      BY <1>3 DEF SendOkTask, RunTask, Established, EstablishFailed, Timeout, OutTask,
                  OutSend, OutEnd, App, Run, AppSend, AppEnd, AppTerminate,
                  TerminateClient, linkVars
  <1>4. CASE IfaceTerminate
      <2> DEFINE got == Range(in_q[t])
                 new == Range(in_q'[t])
                 n == taken[t]
      <2>1. n \in Nat /\ InOrder(a2c, Lane(t), got, n)
          BY <1>0, <1>1 DEF Inward, TypeOK, AgentTypeOK
      <2>2. in_q'[t] \in {in_q[t], Append(in_q[t], 0)} /\ a2c' = <<>> /\ ~wsUp'
          BY <1>4 DEF IfaceTerminate, EndItem
      <2>3. Range(Append(in_q[t], 0)) \cap Pos = got \cap Pos
          <3>1. in_q[t] \in Seq(Nat) /\ 0 \in Nat
              BY <1>0
          <3> QED BY <3>1, GotMore
      <2>4. new \cap Pos = got \cap Pos
          BY <2>2, <2>3
      <2> HIDE DEF got, new
      <2>5. InOrder(<<>>, Lane(t), new, n)
          BY <2>1, <2>4 DEF InOrder
      <2> QED BY <1>0, <2>2, <2>5 DEF Inward, new
  <1>5. ASSUME NEW u \in Tokens, OnData(u) PROVE Inward(t)'
      <2>1. /\ a2c # <<>> /\ a2c' = Tail(a2c) /\ wsUp' = wsUp
            /\ Head(a2c).token = u /\ Head(a2c) \in CMD
          BY <1>0, <1>5, CmdSeq DEF OnData, OnEnd, OnContinue, OnSocketData, OnUnknown,
                                    OnDataFor
      <2>2. CASE u # t
          <3>1. in_q'[t] = in_q[t]
              BY <1>0, <1>5, <2>2
              DEF OnData, OnEnd, OnContinue, OnSocketData, OnUnknown
          <3> QED BY <1>0, <1>1, <2>1, <2>2, <3>1, InwardTaken
      <2>3. CASE u = t
          <3>1. CASE OnEnd(t) \/ OnContinue(t)
              <4>1. /\ Head(a2c).type # "SD"
                    /\ in_q'[t] \in {in_q[t], Append(in_q[t], EndItem)}
                  BY <1>0, <3>1 DEF OnEnd, OnContinue
              <4> QED BY <1>0, <1>1, <2>1, <4>1, InwardTaken
          <3>2. CASE OnSocketData(t)
              <4>1. /\ Head(a2c).type = "SD" /\ Head(a2c).token = t
                    /\ in_q'[t] = Append(in_q[t], Head(a2c).chunk)
                  BY <1>0, <3>2 DEF OnSocketData, OnDataFor
              <4> QED BY <1>0, <1>1, <2>1, <4>1, InwardTaken
          <3>3. CASE OnUnknown(t)
              <4>1. t \notin dispatch_table
                  BY <3>3 DEF OnUnknown
              <4>2. client[t] = "idle"
                  BY <1>0, <1>1, <4>1 DEF Registered, TypeOK, BrowserTypeOK
              <4>3. conn[t] = "none"
                  BY <4>2 DEF Inv, ConnectOnce
              <4>4. 1 \in DOMAIN a2c /\ a2c[1] = Head(a2c)
                  BY <1>0, <2>1, TailFacts
              <4>5. conn[t] # "none"
                  BY <2>1, <2>3, <4>4 DEF Inv, Handshake, ReplyOK
              <4> QED BY <4>3, <4>5
          <3> QED BY <1>5, <2>3, <3>1, <3>2, <3>3 DEF OnData
      <2> QED BY <2>2, <2>3
  <1> QED BY <1>2, <1>3, <1>4, <1>5 DEF BrowserNext

LEMMA InFlowStep == Inv /\ Flow /\ [Next]_vars => InFlow'
  <1> SUFFICES ASSUME Inv, Flow, [Next]_vars PROVE InFlow'
      OBVIOUS
  <1>0. TypeOK /\ Registered /\ InFlow
      BY DEF Inv, Flow
  <1>1. CASE AgentNext /\ UNCHANGED browserVars
      BY <1>0, <1>1, InFlowAgent
  <1>2. CASE BrowserNext /\ UNCHANGED agentVars
      BY <1>0, <1>2, InFlowBrowser
  <1>3. CASE LinkFailure
      <2>1. UNCHANGED <<taken, sent, in_q, client>> /\ ~wsUp'
          BY <1>3 DEF LinkFailure, WsLost, agentVars, browserVars
      <2> SUFFICES ASSUME NEW t \in Tokens, client[t] # "closed" PROVE Inward(t)'
          BY <1>0, <2>1 DEF InFlow
      <2>2. PICK k \in 0..Len(a2c) : a2c' = SubSeq(a2c, 1, k)
          BY <1>3 DEF LinkFailure, WsLost
      <2>3. /\ a2c \in Seq(CMD) /\ InOrder(a2c, Lane(t), Range(in_q[t]), taken[t])
            /\ Lane(t)' = Lane(t)
          BY <1>0, LaneFacts DEF TypeOK, LinkTypeOK, InFlow, Inward
      <2>4. InOrder(SubSeq(a2c, 1, k), Lane(t), Range(in_q[t]), taken[t])
          BY <2>3, LanePrefix
      <2> QED BY <2>1, <2>2, <2>3, <2>4 DEF Inward
  <1>4. CASE UNCHANGED vars
      <2>1. \A t \in Tokens : Lane(t)' = Lane(t)
          BY LaneFacts
      <2> QED BY <1>0, <1>4, <2>1
              DEF vars, linkVars, agentVars, browserVars, InFlow, Inward
  <1> QED BY <1>1, <1>2, <1>3, <1>4 DEF Next


-----------------------------------------------------------------------------
(* The data that the application sends.                                     *)

\* Concatenation of what waits in the queue and in the channel.
LEMMA PipeFacts ==
    ASSUME NEW q \in Seq(CMD), NEW ch \in Seq(CMD)
    PROVE  /\ q \o ch \in Seq(CMD) /\ Len(q \o ch) = Len(q) + Len(ch)
           /\ \A m \in CMD : q \o Append(ch, m) = Append(q \o ch, m)
           /\ q # <<>> => /\ q \o ch # <<>> /\ Head(q \o ch) = Head(q)
                          /\ Tail(q) \o ch = Tail(q \o ch)
           /\ ch # <<>> => /\ Append(q, Head(ch)) \o Tail(ch) = q \o ch
                           /\ Len(q) + 1 \in 1..Len(q \o ch)
                           /\ (q \o ch)[Len(q) + 1] = Head(ch)
                           /\ Without(q \o ch, Len(q) + 1, q \o Tail(ch))
           /\ \A k \in 0..Len(ch) :
                 /\ Len(q) + k \in 0..Len(q \o ch)
                 /\ q \o SubSeq(ch, 1, k) = SubSeq(q \o ch, 1, Len(q) + k)
  <1>1. q \o ch \in Seq(CMD) /\ Len(q \o ch) = Len(q) + Len(ch)
      OBVIOUS
  <1>2. ASSUME NEW m \in CMD PROVE q \o Append(ch, m) = Append(q \o ch, m)
      OBVIOUS
  <1>3. ASSUME q # <<>>
        PROVE  q \o ch # <<>> /\ Head(q \o ch) = Head(q) /\ Tail(q) \o ch = Tail(q \o ch)
      BY <1>3
  <1>4. ASSUME ch # <<>>
        PROVE  /\ Append(q, Head(ch)) \o Tail(ch) = q \o ch
               /\ Len(q) + 1 \in 1..Len(q \o ch)
               /\ (q \o ch)[Len(q) + 1] = Head(ch)
               /\ Without(q \o ch, Len(q) + 1, q \o Tail(ch))
      <2>1. Append(q, Head(ch)) \o Tail(ch) = q \o ch
          BY <1>4
      <2>2. Len(q) + 1 \in 1..Len(q \o ch) /\ (q \o ch)[Len(q) + 1] = Head(ch)
          BY <1>4
      <2>3. Without(q \o ch, Len(q) + 1, q \o Tail(ch))
          BY <1>4 DEF Without
      <2> QED BY <2>1, <2>2, <2>3
  <1>5. ASSUME NEW k \in 0..Len(ch)
        PROVE  /\ Len(q) + k \in 0..Len(q \o ch)
               /\ q \o SubSeq(ch, 1, k) = SubSeq(q \o ch, 1, Len(q) + k)
      OBVIOUS
  <1> QED BY <1>1, <1>2, <1>3, <1>4, <1>5

LEMMA PipeType ==
    ASSUME TypeOK, NEW t \in Tokens
    PROVE  /\ c2a \in Seq(CMD) /\ cmdq[t] \in Seq(CMD) /\ Pipe(t) \in Seq(CMD)
           /\ written[t] \in Seq(Nat) /\ writing[t] \in Nat
           /\ out_q[t] \in Seq(Nat) /\ appSent[t] \in Nat /\ handler[t] \in HandlerState
  BY PipeFacts DEF TypeOK, LinkTypeOK, AgentTypeOK, BrowserTypeOK, Pipe

\* The pipe moves, and nothing happens in the browser.
LEMMA OutwardPipe ==
    ASSUME NEW t \in Tokens, Outward(t), out_q'[t] = out_q[t], appSent'[t] = appSent[t],
           wsUp' => wsUp, appSent[t] \in Nat,
           \A n \in Nat : InOrder(Pipe(t), Lane(t), Reached(t), n) =>
               /\ InOrder(Pipe(t)', Lane(t), Reached(t)', n)
               /\ wsUp' /\ Whole(Pipe(t), Lane(t), Reached(t), n)
                     => Whole(Pipe(t)', Lane(t), Reached(t)', n)
    PROVE  Outward(t)'
  <1>1. Lane(t)' = Lane(t)
      BY LaneFacts
  <1>2. InOrder(Pipe(t), Lane(t), Reached(t), appSent[t])'
      BY <1>1 DEF Outward
  <1>3. ASSUME wsUp' PROVE \E k \in 0..(appSent'[t]) : Sent(t, k)' /\ Unsent(t, k)'
      <2>1. PICK k \in 0..appSent[t] : Sent(t, k) /\ Unsent(t, k)
          BY <1>3 DEF Outward
      <2>2. Unsent(t, k)'
          BY <2>1 DEF Unsent
      <2>3. Sent(t, k)'
          BY <1>1, <1>3, <2>1 DEF Sent
      <2> QED BY <2>2, <2>3
  <1> QED BY <1>2, <1>3 DEF Outward

\* Nothing of the kind happens.
LEMMA OutwardSame ==
    ASSUME TypeOK, NEW t \in Tokens, Outward(t), Pipe(t)' = Pipe(t),
           Reached(t)' = Reached(t), out_q'[t] = out_q[t], appSent'[t] = appSent[t],
           wsUp' => wsUp
    PROVE  Outward(t)'
  <1>1. appSent[t] \in Nat
      BY PipeType
  <1> QED BY <1>1, OutwardPipe

\* A command that is no data of t is sent.
LEMMA OutwardOther ==
    ASSUME TypeOK, NEW t \in Tokens, Outward(t), NEW m \in CMD,
           m.type # "SD" \/ m.token # t, BrowserSend(m), wsUp' = wsUp, cmdq' = cmdq,
           Reached(t)' = Reached(t), out_q'[t] = out_q[t], appSent'[t] = appSent[t]
    PROVE  Outward(t)'
  <1>1. Pipe(t) \in Seq(CMD) /\ appSent[t] \in Nat /\ \A n \in Pos : m # Lane(t)[n]
      BY PipeType, LaneFacts
  <1>2. CASE ~wsUp
      <2>1. Pipe(t)' = Pipe(t)
          BY <1>2 DEF Pipe, BrowserSend
      <2> QED BY <2>1, OutwardSame
  <1>3. CASE wsUp
      <2>1. Pipe(t)' = Append(Pipe(t), m)
          BY <1>3, PipeType, PipeFacts DEF Pipe, BrowserSend
      <2>2. ASSUME NEW n \in Nat, InOrder(Pipe(t), Lane(t), Reached(t), n)
            PROVE  /\ InOrder(Append(Pipe(t), m), Lane(t), Reached(t), n)
                   /\ Whole(Pipe(t), Lane(t), Reached(t), n)
                         => Whole(Append(Pipe(t), m), Lane(t), Reached(t), n)
          BY <1>1, <2>2, LaneOther
      <2> QED BY <1>1, <2>1, <2>2, OutwardPipe
  <1> QED BY <1>2, <1>3

\* The agent takes a command from the channel that is no data of t.
LEMMA OutwardPassed ==
    ASSUME TypeOK, NEW t \in Tokens, Outward(t), c2a # <<>>, c2a' = Tail(c2a),
           Head(c2a).type # "SD" \/ Head(c2a).token # t, wsUp' = wsUp,
           cmdq'[t] = cmdq[t], Reached(t)' = Reached(t), out_q'[t] = out_q[t],
           appSent'[t] = appSent[t]
    PROVE  Outward(t)'
  <1> DEFINE d == Len(cmdq[t]) + 1
             pipe == Pipe(t)
             got == Reached(t)
  <1>1. /\ pipe \in Seq(CMD) /\ d \in 1..Len(pipe) /\ Without(pipe, d, Pipe(t)')
        /\ pipe[d] = Head(c2a) /\ Head(c2a) \in CMD
      BY PipeType, PipeFacts, CmdSeq DEF Pipe
  <1>2. \A n \in Pos : pipe[d] # Lane(t)[n]
      BY <1>1, LaneFacts
  <1> HIDE DEF d, pipe, got
  <1>3. ASSUME NEW n \in Nat, InOrder(pipe, Lane(t), got, n)
        PROVE  /\ InOrder(Pipe(t)', Lane(t), got, n)
               /\ Whole(pipe, Lane(t), got, n) => Whole(Pipe(t)', Lane(t), got, n)
      BY <1>1, <1>2, <1>3, LaneDropped
  <1>4. appSent[t] \in Nat
      BY PipeType
  <1> QED BY <1>3, <1>4, OutwardPipe DEF pipe, got

\* The handler takes a command from its queue.
LEMMA OutwardGet ==
    ASSUME TypeOK, Mine, NEW t \in Tokens, Outward(t), GetData(t), UNCHANGED browserVars
    PROVE  Outward(t)'
  <1> DEFINE x == Head(cmdq[t]).chunk
  <1>0. /\ cmdq \in [Tokens -> Seq(CMD)] /\ handler \in [Tokens -> HandlerState]
        /\ writing \in [Tokens -> Nat]
      BY DEF TypeOK, AgentTypeOK
  <1>1. /\ Pipe(t) \in Seq(CMD) /\ Pipe(t) # <<>> /\ Head(Pipe(t)) = Head(cmdq[t])
        /\ Pipe(t)' = Tail(Pipe(t))
      <2>1. cmdq[t] # <<>> /\ cmdq'[t] = Tail(cmdq[t]) /\ c2a' = c2a
          BY <1>0 DEF GetData, linkVars
      <2> QED BY <2>1, PipeType, PipeFacts DEF Pipe
  <1>2. Head(cmdq[t]).type = "SD" /\ Head(cmdq[t]).token = t
      <2>1. cmdq[t] # <<>> /\ 1 \in DOMAIN cmdq[t] /\ cmdq[t][1] = Head(cmdq[t])
          BY <1>0, TailFacts DEF GetData
      <2> QED BY <2>1 DEF GetData, Mine
  <1>3. Reached(t)' = Reached(t) \cup {x}
      BY <1>0 DEF Reached, InHand, GetData
  <1>4. /\ out_q'[t] = out_q[t] /\ appSent'[t] = appSent[t] /\ wsUp' = wsUp
        /\ appSent[t] \in Nat
      BY PipeType DEF GetData, browserVars, linkVars
  <1> DEFINE pipe == Pipe(t)
             got == Reached(t)
             new == Reached(t)'
  <1> HIDE DEF x
  <1>5. ASSUME NEW n \in Nat, InOrder(pipe, Lane(t), got, n)
        PROVE  /\ InOrder(Tail(pipe), Lane(t), new, n)
               /\ Whole(pipe, Lane(t), got, n) => Whole(Tail(pipe), Lane(t), new, n)
      <2>1. /\ pipe \in Seq(CMD) /\ pipe # <<>> /\ Head(pipe).type = "SD"
            /\ Head(pipe).token = t /\ new = got \cup {Head(pipe).chunk}
          BY <1>1, <1>2, <1>3 DEF x
      <2> HIDE DEF pipe, got, new
      <2> QED BY <1>5, <2>1, LaneTaken
  <1> QED BY <1>1, <1>4, <1>5, OutwardPipe

\* It has written the command in its hands.
LEMMA ReachedSame ==
    ASSUME TypeOK, NEW t \in Tokens, handler[t] = "write", handler'[t] # "write",
           written'[t] = Append(written[t], writing[t])
    PROVE  Reached(t)' = Reached(t)
  <1>1. Range(Append(written[t], writing[t])) = Range(written[t]) \cup {writing[t]}
      BY PipeType, GotMore
  <1> QED BY <1>1 DEF Reached, InHand

\* Something happens in out_q.
LEMMA OutwardQueue ==
    ASSUME TypeOK, NEW t \in Tokens, Outward(t), Pipe(t)' = Pipe(t),
           Reached(t)' = Reached(t), wsUp' = wsUp, appSent'[t] \in Nat,
           appSent[t] <= appSent'[t],
           \A k \in Nat : Unsent(t, k) => Unsent(t, k)'
    PROVE  Outward(t)'
  <1>1. /\ Lane(t)' = Lane(t) /\ appSent[t] \in Nat
        /\ InOrder(Pipe(t), Lane(t), Reached(t), appSent[t])
      BY LaneFacts, PipeType DEF Outward
  <1>2. InOrder(Pipe(t), Lane(t), Reached(t), appSent'[t])
      BY <1>1, LaneSame
  <1>3. ASSUME wsUp PROVE \E k \in 0..(appSent'[t]) : Sent(t, k)' /\ Unsent(t, k)'
      <2>1. PICK k \in 0..appSent[t] : Sent(t, k) /\ Unsent(t, k)
          BY <1>3 DEF Outward
      <2>2. k \in 0..(appSent'[t]) /\ k \in Nat
          BY <1>1
      <2>3. Sent(t, k)'
          BY <1>1, <2>1 DEF Sent
      <2> QED BY <2>1, <2>2, <2>3
  <1> QED BY <1>1, <1>2, <1>3 DEF Outward


\* The next chunk of t is sent, or lost because the WebSocket is closed.
LEMMA OutwardNext ==
    ASSUME TypeOK, NEW t \in Tokens, Outward(t), OutSend(t), UNCHANGED agentVars
    PROVE  Outward(t)'
  <1> DEFINE x == Head(out_q[t])
             a == appSent[t]
  <1>1. /\ a \in Nat /\ a <= a /\ out_q[t] \in Seq(Nat) /\ out_q[t] # <<>> /\ x \in Pos
        /\ Pipe(t) \in Seq(CMD)
      BY PipeType, NatSeq DEF OutSend, EndItem, Pos
  <1>2. /\ out_q'[t] = Tail(out_q[t]) /\ appSent'[t] = a /\ wsUp' = wsUp
        /\ Reached(t)' = Reached(t) /\ cmdq' = cmdq /\ Lane(t)' = Lane(t)
      BY LaneFacts DEF OutSend, agentVars, Reached, InHand, TypeOK, BrowserTypeOK
  <1>3. CASE ~wsUp
      <2>1. Pipe(t)' = Pipe(t)
          BY <1>2, <1>3 DEF Pipe, OutSend, BrowserSend
      <2> QED BY <1>2, <1>3, <2>1 DEF Outward
  <1>4. CASE wsUp
      <2>1. PICK k \in 0..a : Sent(t, k) /\ Unsent(t, k)
          BY <1>4 DEF Outward
      <2> DEFINE one == 1..k
                 more == (1..k) \cup {x}
      <2>2. /\ InOrder(out_q[t], Numbers, one, a) /\ Whole(out_q[t], Numbers, one, a)
            /\ more \cap Pos = (one \cap Pos) \cup {x} /\ x = Numbers[x]
          BY <1>1, <2>1, NumberLane DEF Unsent
      <2> HIDE DEF one, more, x, a
      <2>3. /\ x \notin one /\ x <= a /\ \A l \in 1..(x - 1) : l \in one
            /\ InOrder(Tail(out_q[t]), Numbers, more, a)
            /\ Whole(Tail(out_q[t]), Numbers, more, a)
          <3>1. Head(out_q[t]) = Numbers[x]
              BY <2>2 DEF x
          <3> DEFINE q == out_q[t]
          <3>2. /\ q \in Seq(Nat) /\ q # <<>> /\ x \in Pos /\ a \in Nat
                /\ InOrder(q, Numbers, one, a) /\ Whole(q, Numbers, one, a)
                /\ Head(q) = Numbers[x] /\ more \cap Pos = (one \cap Pos) \cup {x}
              BY <1>1, <2>2, <3>1
          <3>3. IsLane(Numbers)
              BY NumberLane
          <3> HIDE DEF q
          <3>4. /\ x \notin one /\ x <= a /\ \A l \in 1..(x - 1) : l \in one
                /\ InOrder(Tail(q), Numbers, more, a)
                /\ Whole(q, Numbers, one, a) => Whole(Tail(q), Numbers, more, a)
              BY <3>2, <3>3, LaneLeave
          <3> QED BY <3>2, <3>4 DEF q
      <2>4. x = k + 1 /\ more = 1..(k + 1) /\ k + 1 \in 0..a /\ k \in Nat
          <3>1. x \in Nat \ {0} /\ k \in Nat /\ a \in Nat
              BY <1>1, <2>1 DEF Pos
          <3>2. ~(x <= k)
              BY <2>3, <3>1 DEF one
          <3>3. x - 1 <= k
              <4>1. CASE x = 1
                  BY <3>1, <4>1
              <4>2. CASE x # 1
                  <5>1. x - 1 \in 1..(x - 1)
                      BY <3>1, <4>2
                  <5> QED BY <2>3, <5>1 DEF one
              <4> QED BY <4>1, <4>2
          <3>4. x = k + 1
              BY <3>1, <3>2, <3>3
          <3>5. more = 1..(k + 1)
              BY <3>1, <3>4 DEF more
          <3> QED BY <2>3, <3>1, <3>4, <3>5
      <2>5. Unsent(t, k + 1)'
          <3>1. /\ InOrder(Tail(out_q[t]), Numbers, 1..(k + 1), a)
                /\ Whole(Tail(out_q[t]), Numbers, 1..(k + 1), a)
              BY <2>3, <2>4
          <3> QED BY <1>2, <3>1 DEF Unsent, a, Numbers
      <2>6. Pipe(t)' = Append(Pipe(t), Lane(t)[k + 1])
          <3>1. /\ Lane(t)[k + 1] = SocketData(t, k + 1) /\ Lane(t)[k + 1] \in CMD
              BY <1>1, <2>4, LaneFacts
          <3>2. c2a' = Append(c2a, Lane(t)[k + 1])
              BY <1>4, <2>4, <3>1 DEF OutSend, BrowserSend, x
          <3> QED BY <1>2, <3>1, <3>2, PipeType, PipeFacts DEF Pipe
      <2>7. /\ InOrder(Pipe(t)', Lane(t), Reached(t), k + 1)
            /\ Whole(Pipe(t)', Lane(t), Reached(t), k + 1)
          <3>1. /\ IsLane(Lane(t)) /\ Lane(t)[k + 1] \in CMD /\ k \in Nat
                /\ InOrder(Pipe(t), Lane(t), Reached(t), k)
                /\ Whole(Pipe(t), Lane(t), Reached(t), k)
              BY <1>1, <2>1, <2>4, LaneFacts DEF Sent
          <3> DEFINE lane == Lane(t)
                     pipe == Pipe(t)
                     got == Reached(t)
          <3>2. /\ IsLane(lane) /\ lane[k + 1] \in CMD /\ k \in Nat /\ pipe \in Seq(CMD)
                /\ InOrder(pipe, lane, got, k) /\ Whole(pipe, lane, got, k)
              BY <1>1, <3>1
          <3> HIDE DEF lane, pipe, got
          <3>3. /\ InOrder(Append(pipe, lane[k + 1]), lane, got, k + 1)
                /\ Whole(Append(pipe, lane[k + 1]), lane, got, k + 1)
              BY <3>2, LaneEnter
          <3> QED BY <2>6, <3>3 DEF lane, pipe, got
      <2>8. InOrder(Pipe(t)', Lane(t), Reached(t), a)
          <3>1. k + 1 \in Nat /\ a \in Nat /\ k + 1 <= a
              BY <1>1, <2>4
          <3> QED BY <2>7, <3>1, LaneSame
      <2>9. Sent(t, k + 1)'
          BY <1>2, <2>7 DEF Sent
      <2> QED BY <1>2, <2>4, <2>5, <2>8, <2>9 DEF Outward, a
  <1> QED BY <1>3, <1>4

\* The application adds to out_q, and the end of it is taken from there.
LEMMA OutwardApp ==
    ASSUME TypeOK, NEW t \in Tokens, Outward(t), AppSend(t) \/ AppEnd(t) \/ OutEnd(t),
           UNCHANGED agentVars
    PROVE  Outward(t)'
  <1> DEFINE a == appSent[t]
             q == out_q[t]
  <1>1. /\ Pipe(t)' = Pipe(t) /\ Reached(t)' = Reached(t) /\ wsUp' = wsUp
        /\ a \in Nat /\ q \in Seq(Nat) /\ 0 \in Nat /\ a + 1 \in Nat
      <2>1. UNCHANGED <<c2a, wsUp>>
          BY DEF AppSend, AppEnd, OutEnd, linkVars
      <2>2. UNCHANGED <<cmdq, written, writing, handler>>
          BY DEF agentVars, taskVars, queueVars
      <2>3. Pipe(t)' = Pipe(t)
          BY <2>1, <2>2 DEF Pipe
      <2>4. Reached(t)' = Reached(t)
          BY <2>2 DEF Reached, InHand
      <2>5. a \in Nat /\ q \in Seq(Nat)
          BY PipeType
      <2> QED BY <2>1, <2>3, <2>4, <2>5
  <1>2. /\ out_q \in [Tokens -> Seq(Nat)] /\ appSent \in [Tokens -> Nat]
      BY DEF TypeOK, BrowserTypeOK
  <1>3. CASE AppSend(t)
      <2>1. out_q'[t] = Append(q, a + 1) /\ appSent'[t] = a + 1
          BY <1>2, <1>3 DEF AppSend
      <2>2. ASSUME NEW k \in Nat, Unsent(t, k) PROVE Unsent(t, k)'
          <3> DEFINE got == 1..k
          <3>1. /\ InOrder(q, Numbers, got, a) /\ Whole(q, Numbers, got, a)
                /\ Numbers[a + 1] \in Nat /\ Numbers[a + 1] = a + 1 /\ IsLane(Numbers)
              BY <1>1, <2>2, NumberLane DEF Unsent, Pos
          <3> HIDE DEF a, q, got
          <3>2. /\ InOrder(Append(q, Numbers[a + 1]), Numbers, got, a + 1)
                /\ Whole(Append(q, Numbers[a + 1]), Numbers, got, a + 1)
              BY <1>1, <3>1, LaneEnter
          <3> QED BY <2>1, <3>1, <3>2 DEF Unsent, got, Numbers
      <2>3. appSent'[t] \in Nat /\ appSent[t] <= appSent'[t]
          BY <1>1, <2>1
      <2> QED BY <1>1, <2>2, <2>3, OutwardQueue
  <1>4. CASE AppEnd(t)
      <2>1. out_q'[t] = Append(q, 0) /\ appSent' = appSent
          BY <1>2, <1>4 DEF AppEnd, EndItem
      <2>2. ASSUME NEW k \in Nat, Unsent(t, k) PROVE Unsent(t, k)'
          <3> DEFINE got == 1..k
          <3>1. InOrder(q, Numbers, got, a) /\ Whole(q, Numbers, got, a)
              BY <2>2 DEF Unsent
          <3> HIDE DEF a, q, got
          <3>2. /\ InOrder(Append(q, 0), Numbers, got, a)
                /\ Whole(Append(q, 0), Numbers, got, a)
              BY <1>1, <3>1, NumberLane, LaneOther
          <3> QED BY <2>1, <3>2 DEF Unsent, got, Numbers, a
      <2>3. appSent'[t] \in Nat /\ appSent[t] <= appSent'[t]
          BY <1>1, <2>1
      <2> QED BY <1>1, <2>2, <2>3, OutwardQueue
  <1>5. CASE OutEnd(t)
      <2>1. out_q'[t] = Tail(q) /\ appSent' = appSent /\ q # <<>> /\ Head(q) = 0
          BY <1>2, <1>5 DEF OutEnd, EndItem
      <2>2. ASSUME NEW k \in Nat, Unsent(t, k) PROVE Unsent(t, k)'
          <3> DEFINE got == 1..k
          <3>1. InOrder(q, Numbers, got, a) /\ Whole(q, Numbers, got, a)
              BY <2>2 DEF Unsent
          <3>2. \A n \in Pos : Head(q) # Numbers[n]
              BY <2>1, NumberLane
          <3> HIDE DEF a, q, got
          <3>3. /\ InOrder(Tail(q), Numbers, got, a)
                /\ Whole(Tail(q), Numbers, got, a)
              BY <1>1, <2>1, <3>1, <3>2, LaneSkip
          <3> QED BY <2>1, <3>3 DEF Unsent, got, Numbers, a
      <2>3. appSent'[t] \in Nat /\ appSent[t] <= appSent'[t]
          BY <1>1, <2>1
      <2> QED BY <1>1, <2>2, <2>3, OutwardQueue
  <1> QED BY <1>3, <1>4, <1>5

LEMMA OutFlowBrowser ==
    ASSUME TypeOK, OutFlow, BrowserNext, UNCHANGED agentVars
    PROVE  OutFlow'
  <1> SUFFICES ASSUME NEW t \in Tokens, handler[t] # "done" PROVE Outward(t)'
      BY DEF OutFlow, agentVars
  <1>0. Outward(t) /\ cmdq' = cmdq /\ Reached(t)' = Reached(t)
      BY DEF OutFlow, agentVars, Reached, InHand
  <1>1. CASE UNCHANGED <<c2a, out_q, appSent>> /\ (wsUp' => wsUp)
      <2>1. Pipe(t)' = Pipe(t)
          BY <1>0, <1>1 DEF Pipe
      <2> QED BY <1>0, <1>1, <2>1, OutwardSame
  <1>2. CASE IfaceTerminate
      BY <1>1, <1>2 DEF IfaceTerminate
  <1>3. ASSUME NEW u \in Tokens, OnData(u) \/ RunTask(u) \/ Timeout(u) \/ AppTerminate(u)
        PROVE  Outward(t)'
      BY <1>1, <1>3 DEF OnData, OnEnd, OnContinue, OnSocketData, OnUnknown, RunTask,
           Established, EstablishFailed, Timeout, AppTerminate, TerminateClient, linkVars
  <1>4. ASSUME NEW u \in Tokens, SendOkTask(u) \/ Run(u) PROVE Outward(t)'
      <2>1. /\ \E type \in {"OK", "CONNECT"} : BrowserSend(Cmd(type, u))
            /\ UNCHANGED <<wsUp, out_q, appSent>>
          BY <1>4 DEF SendOkTask, Run
      <2>2. PICK type \in {"OK", "CONNECT"} : BrowserSend(Cmd(type, u))
          BY <2>1
      <2>3. Cmd(type, u) \in CMD /\ Cmd(type, u).type # "SD"
          BY CmdTypes DEF CMDType, Cmd
      <2> QED BY <1>0, <2>1, <2>2, <2>3, OutwardOther
  <1>5. CASE OutSend(t)
      BY <1>0, <1>5, OutwardNext
  <1>6. CASE AppSend(t) \/ AppEnd(t) \/ OutEnd(t)
      BY <1>0, <1>6, OutwardApp
  <1>7. ASSUME NEW u \in Tokens, u # t, OutSend(u) \/ AppSend(u) \/ AppEnd(u) \/ OutEnd(u)
        PROVE  Outward(t)'
      <2>1. out_q'[t] = out_q[t] /\ appSent'[t] = appSent[t] /\ wsUp' = wsUp
          BY <1>7 DEF OutSend, AppSend, AppEnd, OutEnd, linkVars, TypeOK, BrowserTypeOK
      <2>2. CASE UNCHANGED c2a
          <3>1. Pipe(t)' = Pipe(t)
              BY <1>0, <2>2 DEF Pipe
          <3> QED BY <1>0, <2>1, <3>1, OutwardSame
      <2>3. CASE OutSend(u)
          <3> DEFINE m == SocketData(u, Head(out_q[u]))
          <3>1. Head(out_q[u]) \in Nat /\ BrowserSend(m)
              BY <2>3, PipeType, NatSeq DEF OutSend
          <3>2. m \in CMD /\ m.token # t
              BY <1>7, <3>1, CmdTypes DEF SocketData
          <3> HIDE DEF m
          <3> QED BY <1>0, <2>1, <3>1, <3>2, OutwardOther
      <2> QED BY <1>7, <2>2, <2>3 DEF AppSend, AppEnd, OutEnd, linkVars
  <1> QED BY <1>2, <1>3, <1>4, <1>5, <1>6, <1>7 DEF BrowserNext, OutTask, App

\* A handler that is done stays done.
LEMMA DoneForGood ==
    ASSUME Inv, AgentNext, NEW t \in Tokens, handler[t] = "done"
    PROVE  handler'[t] = "done"
  <1> USE DEF taskVars, queueVars, peerVars, linkVars
  <1>0. handler \in [Tokens -> HandlerState] /\ conn[t] # "connecting"
      BY DEF Inv, TypeOK, AgentTypeOK, Owned
  <1>1. ASSUME NEW u \in Tokens, ConnectOk(u) PROVE handler'[t] = "done"
      BY <1>0, <1>1 DEF ConnectOk
  <1>2. ASSUME NEW u \in Tokens, HandlerTask(u) PROVE handler'[t] = "done"
      BY <1>0, <1>2 DEF HandlerTask, HandlerStart, GetData, GetOk, WriteData, WriteError,
                        HandlerEnd, HandlerFinally, HandlerAlive
  <1>3. ASSUME NEW u \in Tokens, ConnTask(u), ~ConnectOk(u) PROVE UNCHANGED handler
      BY <1>3 DEF ConnTask, ConnectFail, ReadData, ReadEof, ReadError, ConnFinally,
                  ConnCancelled, CancelHandler
  <1>4. Dispatch \/ Terminate \/ (\E u \in Tokens : Peer(u)) => UNCHANGED handler
      BY DEF Dispatch, DispatchToQueue, DispatchConnect, DispatchUnexpected,
             DispatchIgnored, Terminate, Peer, PeerSend, PeerClose
  <1> QED BY <1>1, <1>2, <1>3, <1>4 DEF AgentNext


\* What the tasks of a token leave alone.
LEMMA ConnLeaves ==
    ASSUME TypeOK, Owned, NEW u \in Tokens, ConnTask(u) \/ Peer(u), NEW t \in Tokens
    PROVE  /\ UNCHANGED <<c2a, wsUp, cmdq, written, writing>>
           /\ handler'[t] = "write" <=> handler[t] = "write"
           /\ handler[t] # "none" => handler'[t] = handler[t]
  <1> USE DEF taskVars, queueVars, peerVars, linkVars
  <1>0. handler \in [Tokens -> HandlerState]
      BY DEF TypeOK, AgentTypeOK
  <1>1. CASE ConnectOk(u)
      BY <1>0, <1>1 DEF ConnectOk, Owned
  <1>2. CASE ConnectFail(u) \/ ReadData(u) \/ ReadEof(u) \/ ReadError(u) \/ Peer(u)
      BY <1>2 DEF ConnectFail, ReadData, ReadEof, ReadError, Peer, PeerSend, PeerClose
  <1>3. CASE ConnFinally(u) \/ ConnCancelled(u)
      BY <1>3 DEF ConnFinally, ConnCancelled, CancelHandler
  <1> QED BY <1>1, <1>2, <1>3 DEF ConnTask

LEMMA HandlerLeaves ==
    ASSUME TypeOK, NEW u \in Tokens, HandlerTask(u), NEW t \in Tokens, u # t
    PROVE  /\ UNCHANGED <<c2a, wsUp>>
           /\ cmdq'[t] = cmdq[t] /\ written'[t] = written[t]
           /\ writing'[t] = writing[t] /\ handler'[t] = handler[t]
  <1> USE DEF taskVars, queueVars, peerVars, linkVars, TypeOK, AgentTypeOK
  <1>1. CASE HandlerStart(u) \/ WriteData(u) \/ WriteError(u)
      BY <1>1 DEF HandlerStart, WriteData, WriteError
  <1>2. CASE GetData(u)
      BY <1>2 DEF GetData
  <1>3. CASE GetOk(u) \/ HandlerEnd(u)
      BY <1>3 DEF GetOk, HandlerEnd, HandlerFinally
  <1> QED BY <1>1, <1>2, <1>3 DEF HandlerTask

LEMMA OutFlowDispatch ==
    ASSUME Inv, OutFlow, Dispatch, UNCHANGED browserVars, NEW t \in Tokens,
           handler[t] # "done"
    PROVE  Outward(t)'
  <1> USE DEF taskVars, queueVars, peerVars
  <1>0. /\ TypeOK /\ Outward(t) /\ c2a \in Seq(CMD) /\ cmdq \in [Tokens -> Seq(CMD)]
        /\ UNCHANGED <<out_q, appSent>>
      BY DEF OutFlow, Inv, TypeOK, LinkTypeOK, AgentTypeOK, browserVars
  <1>1. /\ c2a # <<>> /\ c2a' = Tail(c2a) /\ wsUp' = wsUp /\ Head(c2a) \in CMD
        /\ UNCHANGED <<handler, written, writing>>
      BY <1>0, CmdSeq DEF Dispatch, DispatchToQueue, DispatchConnect, DispatchUnexpected,
                          DispatchIgnored, Receive
  <1>2. Reached(t)' = Reached(t)
      BY <1>1 DEF Reached, InHand
  <1>3. CASE DispatchToQueue
      <2>1. PICK u \in process_queues : /\ Head(c2a).token = u
                                        /\ cmdq' = [cmdq EXCEPT ![u] = Append(@, Head(c2a))]
          BY <1>3 DEF DispatchToQueue
      <2>2. CASE u = t
          <3>1. cmdq'[t] = Append(cmdq[t], Head(c2a))
              BY <1>0, <2>1, <2>2
          <3>2. Pipe(t)' = Pipe(t)
              <4> DEFINE q == cmdq[t]
              <4>1. q \in Seq(CMD)
                  BY <1>0
              <4> HIDE DEF q
              <4>2. Append(q, Head(c2a)) \o Tail(c2a) = q \o c2a
                  BY <1>0, <1>1, <4>1, PipeFacts
              <4> QED BY <1>1, <3>1, <4>2 DEF Pipe, q
          <3> QED BY <1>0, <1>1, <1>2, <3>2, OutwardSame
      <2>3. CASE u # t
          <3>1. cmdq'[t] = cmdq[t]
              BY <1>0, <2>1, <2>3
          <3> QED BY <1>0, <1>1, <1>2, <2>1, <2>3, <3>1, OutwardPassed
      <2> QED BY <2>2, <2>3
  <1>4. ASSUME Head(c2a).type # "SD" \/ Head(c2a).token # t, cmdq' = cmdq
        PROVE  Outward(t)'
      BY <1>0, <1>1, <1>2, <1>4, OutwardPassed
  <1>5. CASE DispatchConnect \/ DispatchIgnored
      <2>1. \A u : Cmd("CONNECT", u).type # "SD" /\ Cmd("OK", u).type # "SD"
          BY DEF Cmd
      <2> QED BY <1>4, <1>5, <2>1 DEF DispatchConnect, DispatchIgnored, Receive
  <1>6. CASE DispatchUnexpected
      <2>1. PICK u \in Tokens \ process_queues :
               Head(c2a).token = u /\ Head(c2a).type = "SD" /\ cmdq' = cmdq
          BY <1>6 DEF DispatchUnexpected
      <2>2. CASE u = t
          <3>1. 1 \in DOMAIN c2a /\ c2a[1] = Head(c2a)
              BY <1>0, <1>1, TailFacts
          <3>2. handler[t] # "none"
              BY <2>1, <2>2, <3>1 DEF Inv, Handshake, RequestOK
          <3>3. t \in process_queues
              BY <3>2 DEF Inv, Owned
          <3> QED BY <2>1, <2>2, <3>3
      <2>3. CASE u # t
          BY <1>4, <2>1, <2>3
      <2> QED BY <2>2, <2>3
  <1> QED BY <1>3, <1>5, <1>6 DEF Dispatch

LEMMA OutFlowAgent ==
    ASSUME Inv, Mine, OutFlow, AgentNext, UNCHANGED browserVars
    PROVE  OutFlow'
  <1> SUFFICES ASSUME NEW t \in Tokens, handler'[t] # "done" PROVE Outward(t)'
      BY DEF OutFlow
  <1>0. handler[t] # "done"
      BY DoneForGood
  <1>1. TypeOK /\ Owned /\ Outward(t) /\ UNCHANGED <<out_q, appSent>>
      BY <1>0 DEF OutFlow, Inv, browserVars
  <1>2. CASE Dispatch
      BY <1>0, <1>2, OutFlowDispatch
  <1>3. ASSUME UNCHANGED <<c2a, wsUp>>, cmdq'[t] = cmdq[t], Reached(t)' = Reached(t)
        PROVE  Outward(t)'
      <2>1. Pipe(t)' = Pipe(t)
          BY <1>3 DEF Pipe
      <2> QED BY <1>1, <1>3, <2>1, OutwardSame
  <1>4. CASE Terminate
      <2>1. UNCHANGED <<c2a, wsUp, cmdq, written, writing, handler>>
          BY <1>4 DEF Terminate, linkVars, queueVars
      <2> QED BY <1>3, <2>1 DEF Reached, InHand
  <1>5. ASSUME NEW u \in Tokens, ConnTask(u) \/ Peer(u) PROVE Outward(t)'
      <2>1. /\ UNCHANGED <<c2a, wsUp, cmdq, written, writing>>
            /\ handler'[t] = "write" <=> handler[t] = "write"
          BY <1>1, <1>5, ConnLeaves
      <2> QED BY <1>3, <2>1 DEF Reached, InHand
  <1>6. ASSUME NEW u \in Tokens, HandlerTask(u) PROVE Outward(t)'
      <2>1. CASE u # t
          <3>1. /\ UNCHANGED <<c2a, wsUp>> /\ cmdq'[t] = cmdq[t]
                /\ written'[t] = written[t] /\ writing'[t] = writing[t]
                /\ handler'[t] = handler[t]
              BY <1>1, <1>6, <2>1, HandlerLeaves
          <3>2. Reached(t)' = Reached(t)
              BY <3>1 DEF Reached, InHand
          <3> QED BY <1>3, <3>1, <3>2
      <2> USE DEF taskVars, queueVars, peerVars, linkVars
      <2>2. CASE HandlerStart(t)
          <3>1. /\ UNCHANGED <<c2a, wsUp, cmdq, written, writing>>
                /\ handler[t] # "write" /\ handler'[t] # "write"
              BY <1>1, <2>2 DEF HandlerStart, TypeOK, AgentTypeOK
          <3> QED BY <1>3, <3>1 DEF Reached, InHand
      <2>3. CASE GetData(t)
          BY <1>1, <2>3, OutwardGet
      <2>4. CASE WriteData(t) \/ WriteError(t)
          <3>1. /\ UNCHANGED <<c2a, wsUp, cmdq>>
                /\ handler[t] = "write" /\ handler'[t] # "write"
                /\ written'[t] = Append(written[t], writing[t])
              BY <1>1, <2>4 DEF WriteData, WriteError, TypeOK, AgentTypeOK
          <3> QED BY <1>1, <1>3, <3>1, ReachedSame
      <2>5. CASE GetOk(t) \/ HandlerEnd(t)
          <3>1. handler'[t] = "done"
              BY <1>1, <2>5 DEF GetOk, HandlerEnd, HandlerFinally, TypeOK, AgentTypeOK
          <3> QED BY <3>1
      <2> QED BY <1>6, <2>1, <2>2, <2>3, <2>4, <2>5 DEF HandlerTask
  <1> QED BY <1>2, <1>4, <1>5, <1>6 DEF AgentNext

LEMMA OutFlowStep == Inv /\ Flow /\ [Next]_vars => OutFlow'
  <1> SUFFICES ASSUME Inv, Flow, [Next]_vars PROVE OutFlow'
      OBVIOUS
  <1>0. TypeOK /\ Mine /\ OutFlow
      BY DEF Inv, Flow
  <1>1. CASE AgentNext /\ UNCHANGED browserVars
      BY <1>0, <1>1, OutFlowAgent
  <1>2. CASE BrowserNext /\ UNCHANGED agentVars
      BY <1>0, <1>2, OutFlowBrowser
  <1>3. CASE LinkFailure
      <2>1. UNCHANGED <<cmdq, written, writing, handler, out_q, appSent>> /\ ~wsUp'
          BY <1>3 DEF LinkFailure, WsLost, agentVars, browserVars
      <2> SUFFICES ASSUME NEW t \in Tokens, handler[t] # "done" PROVE Outward(t)'
          BY <2>1 DEF OutFlow
      <2>2. PICK k \in 0..Len(c2a) : c2a' = SubSeq(c2a, 1, k)
          BY <1>3 DEF LinkFailure, WsLost
      <2> DEFINE pipe == Pipe(t)
                 i == Len(cmdq[t]) + k
      <2>3. pipe \in Seq(CMD) /\ i \in 0..Len(pipe) /\ Pipe(t)' = SubSeq(pipe, 1, i)
          <3> DEFINE q == cmdq[t]
          <3>1. q \in Seq(CMD) /\ c2a \in Seq(CMD) /\ k \in 0..Len(c2a)
              BY <1>0, <2>2, PipeType
          <3> HIDE DEF q
          <3>2. /\ q \o c2a \in Seq(CMD) /\ Len(q) + k \in 0..Len(q \o c2a)
                /\ q \o SubSeq(c2a, 1, k) = SubSeq(q \o c2a, 1, Len(q) + k)
              BY <3>1, PipeFacts
          <3>3. Pipe(t)' = q \o SubSeq(c2a, 1, k)
              BY <2>1, <2>2 DEF Pipe, q
          <3> QED BY <3>2, <3>3 DEF Pipe, q
      <2>4. Outward(t) /\ Reached(t)' = Reached(t)
          BY <1>0, <2>1 DEF OutFlow, Reached, InHand
      <2>5. InOrder(pipe, Lane(t), Reached(t), appSent[t])
          BY <2>4 DEF Outward
      <2> HIDE DEF pipe, i
      <2>6. InOrder(SubSeq(pipe, 1, i), Lane(t), Reached(t), appSent[t])
          BY <2>3, <2>5, LanePrefix
      <2> QED BY <2>1, <2>3, <2>4, <2>6, LaneFacts DEF Outward
  <1>4. CASE UNCHANGED vars
      <2> SUFFICES ASSUME NEW t \in Tokens, handler[t] # "done" PROVE Outward(t)'
          BY <1>4 DEF OutFlow, vars, agentVars
      <2>1. /\ Pipe(t)' = Pipe(t) /\ Reached(t)' = Reached(t) /\ Outward(t)
            /\ UNCHANGED <<out_q, appSent, wsUp>>
          BY <1>0, <1>4
          DEF vars, agentVars, browserVars, linkVars, Pipe, Reached, InHand, OutFlow
      <2> QED BY <1>0, <2>1, OutwardSame
  <1> QED BY <1>1, <1>2, <1>3, <1>4 DEF Next


-----------------------------------------------------------------------------
(* The queue of a token, and what its handler took from there.              *)

\* The queues grow by dispatched commands and shrink by the handler's gets.
LEMMA QueueMoves ==
    ASSUME TypeOK, [Next]_vars, NEW t \in Tokens
    PROVE  \/ cmdq'[t] = cmdq[t]
           \/ \E m \in CMD : m.token = t /\ cmdq'[t] = Append(cmdq[t], m)
           \/ cmdq[t] # <<>> /\ cmdq'[t] = Tail(cmdq[t])
  <1> USE DEF taskVars, queueVars, peerVars, linkVars
  <1>0. cmdq \in [Tokens -> Seq(CMD)] /\ c2a \in Seq(CMD)
      BY DEF TypeOK, AgentTypeOK, LinkTypeOK
  <1>1. CASE DispatchToQueue
      <2>1. PICK u \in process_queues :
               /\ c2a # <<>> /\ Head(c2a).token = u
               /\ cmdq' = [cmdq EXCEPT ![u] = Append(@, Head(c2a))]
          BY <1>1 DEF DispatchToQueue, Receive
      <2>2. Head(c2a) \in CMD
          BY <1>0, <2>1, CmdSeq
      <2> QED BY <1>0, <2>1, <2>2
  <1>2. ASSUME NEW u \in Tokens, GetData(u) \/ GetOk(u)
        PROVE  cmdq'[t] = cmdq[t] \/ (cmdq[t] # <<>> /\ cmdq'[t] = Tail(cmdq[t]))
      BY <1>0, <1>2 DEF GetData, GetOk
  <1>3. ASSUME NEW u \in Tokens, HandlerStart(u) \/ WriteData(u) \/ WriteError(u)
                                   \/ HandlerEnd(u) \/ ConnTask(u) \/ Peer(u)
        PROVE  cmdq' = cmdq
      BY <1>3 DEF HandlerStart, WriteData, WriteError, HandlerEnd, ConnTask, ConnectOk,
                  ConnectFail, ReadData, ReadEof, ReadError, ConnFinally, ConnCancelled,
                  CancelHandler, Peer, PeerSend, PeerClose
  <1>4. DispatchConnect \/ DispatchUnexpected \/ DispatchIgnored \/ Terminate
           => cmdq' = cmdq
      BY DEF DispatchConnect, DispatchUnexpected, DispatchIgnored, Terminate
  <1>5. UNCHANGED agentVars => cmdq' = cmdq
      BY DEF agentVars
  <1> QED BY <1>1, <1>2, <1>3, <1>4, <1>5
          DEF Next, AgentNext, Dispatch, HandlerTask, LinkFailure, vars

LEMMA MineStep == Inv /\ Mine /\ [Next]_vars => Mine'
  <1> SUFFICES ASSUME Inv, Mine, [Next]_vars, NEW t \in Tokens, NEW i \in DOMAIN cmdq'[t]
               PROVE  cmdq'[t][i].token = t
      BY DEF Mine
  <1>0. TypeOK /\ cmdq[t] \in Seq(CMD) /\ \A j \in DOMAIN cmdq[t] : cmdq[t][j].token = t
      BY DEF Inv, TypeOK, AgentTypeOK, Mine
  <1>1. ASSUME NEW m \in CMD, m.token = t, cmdq'[t] = Append(cmdq[t], m)
        PROVE  cmdq'[t][i].token = t
      <2>1. /\ DOMAIN cmdq'[t] = 1..(Len(cmdq[t]) + 1) /\ Len(cmdq[t]) \in Nat
            /\ DOMAIN cmdq[t] = 1..Len(cmdq[t])
            /\ \A j \in 1..Len(cmdq[t]) : cmdq'[t][j] = cmdq[t][j]
            /\ cmdq'[t][Len(cmdq[t]) + 1] = m
          BY <1>0, <1>1, AppendFacts
      <2> QED BY <1>0, <1>1, <2>1
  <1>2. CASE cmdq[t] # <<>> /\ cmdq'[t] = Tail(cmdq[t])
      <2>1. /\ DOMAIN cmdq'[t] = 1..(Len(cmdq[t]) - 1) /\ Len(cmdq[t]) \in Nat
            /\ DOMAIN cmdq[t] = 1..Len(cmdq[t])
            /\ \A j \in 1..(Len(cmdq[t]) - 1) : cmdq'[t][j] = cmdq[t][j + 1]
          BY <1>0, <1>2, TailFacts
      <2>2. i + 1 \in DOMAIN cmdq[t] /\ cmdq'[t][i] = cmdq[t][i + 1]
          BY <2>1
      <2> QED BY <1>0, <2>2
  <1>3. CASE cmdq'[t] = cmdq[t]
      BY <1>0, <1>3
  <1> QED BY <1>0, <1>1, <1>2, <1>3, QueueMoves

\* What the handler takes is the next chunk, or the end.
LEMMA TakesNext ==
    ASSUME Inv, Mine, OutFlow, NEW t \in Tokens, GetData(t)
    PROVE  LET x == Head(cmdq[t]).chunk IN
           \/ x = EndItem
           \/ /\ x \in 1..appSent[t] /\ x \notin Range(written[t])
              /\ \A l \in 1..(x - 1) : l \in Range(written[t])
  <1> DEFINE x == Head(cmdq[t]).chunk
             pipe == Pipe(t)
             got == Range(written[t])
             n == appSent[t]
  <1>0. TypeOK /\ cmdq[t] \in Seq(CMD) /\ n \in Nat /\ n <= n
      BY PipeType DEF Inv
  <1>1. /\ cmdq[t] # <<>> /\ Head(cmdq[t]) \in CMD /\ Head(cmdq[t]).token = t
        /\ Head(cmdq[t]).type = "SD"
      BY <1>0, TailFacts DEF GetData, Mine
  <1>2. x \in Nat /\ Head(cmdq[t]) = SocketData(t, x)
      BY <1>1, CommandFacts
  <1>3. pipe \in Seq(CMD) /\ pipe # <<>> /\ Head(pipe) = Head(cmdq[t])
      BY <1>0, <1>1, PipeType, PipeFacts DEF Pipe
  <1>4. InOrder(pipe, Lane(t), got, n)
      <2>1. Reached(t) = got
          BY DEF GetData, Reached, InHand
      <2> QED BY <2>1 DEF OutFlow, Outward, GetData
  <1>5. CASE x # EndItem
      <2>1. x # 0 /\ Head(pipe) = SocketData(t, x)
          BY <1>2, <1>3, <1>5 DEF EndItem
      <2> HIDE DEF x, pipe, got, n
      <2>2. x \in 1..n /\ x \notin got /\ \A l \in 1..(x - 1) : l \in got
          BY <1>0, <1>2, <1>3, <1>4, <2>1, HeadIsNext
      <2> QED BY <2>2 DEF x, got, n
  <1> QED BY <1>5

LEMMA NextInHandStep == Inv /\ Flow /\ [Next]_vars => NextInHand'
  <1> SUFFICES ASSUME Inv, Flow, [Next]_vars, NEW t \in Tokens, handler'[t] = "write"
               PROVE  \/ writing'[t] = EndItem
                      \/ /\ writing'[t] \in 1..appSent'[t]
                         /\ writing'[t] \notin Range(written'[t])
                         /\ \A l \in 1..(writing'[t] - 1) : l \in Range(written'[t])
      BY DEF NextInHand
  <1> USE DEF taskVars, queueVars, peerVars, linkVars
  <1>0. /\ TypeOK /\ Owned /\ handler \in [Tokens -> HandlerState]
        /\ writing \in [Tokens -> Nat] /\ appSent \in [Tokens -> Nat]
      BY DEF Inv, TypeOK, AgentTypeOK, BrowserTypeOK
  <1>1. ASSUME handler[t] = "write", writing'[t] = writing[t], written'[t] = written[t],
               appSent'[t] \in Nat, appSent[t] <= appSent'[t]
        PROVE  \/ writing'[t] = EndItem
               \/ /\ writing'[t] \in 1..appSent'[t]
                  /\ writing'[t] \notin Range(written'[t])
                  /\ \A l \in 1..(writing'[t] - 1) : l \in Range(written'[t])
      <2>1. \/ writing[t] = EndItem
            \/ /\ writing[t] \in 1..appSent[t] /\ writing[t] \notin Range(written[t])
               /\ \A l \in 1..(writing[t] - 1) : l \in Range(written[t])
          BY <1>1 DEF Flow, NextInHand
      <2>2. writing[t] \in 1..appSent[t] => writing[t] \in 1..appSent'[t]
          BY <1>0, <1>1
      <2> QED BY <1>1, <2>1, <2>2
  <1>2. CASE BrowserNext /\ UNCHANGED agentVars
      <2>1. UNCHANGED <<handler, writing, written>>
          BY <1>2 DEF agentVars
      <2>2. appSent' = appSent \/ \E u \in Tokens : appSent' = [appSent EXCEPT ![u] = @ + 1]
          <3>1. ASSUME NEW u \in Tokens, OnData(u) \/ SendOkTask(u) \/ RunTask(u) \/ Timeout(u)
                PROVE  appSent' = appSent
              BY <3>1 DEF OnData, OnEnd, OnContinue, OnSocketData, OnUnknown, SendOkTask,
                          RunTask, Established, EstablishFailed, Timeout, TerminateClient
          <3>2. ASSUME NEW u \in Tokens, OutTask(u) \/ App(u)
                PROVE  appSent' = appSent \/ appSent' = [appSent EXCEPT ![u] = @ + 1]
              BY <3>2 DEF OutTask, OutSend, OutEnd, App, Run, AppSend, AppEnd,
                          AppTerminate, TerminateClient
          <3>3. IfaceTerminate => appSent' = appSent
              BY DEF IfaceTerminate
          <3> QED BY <1>2, <3>1, <3>2, <3>3 DEF BrowserNext
      <2>3. appSent'[t] \in Nat /\ appSent[t] <= appSent'[t]
          BY <1>0, <2>2
      <2> QED BY <1>1, <2>1, <2>3
  <1>3. ASSUME handler'[t] = handler[t], UNCHANGED <<writing, written, appSent>>
        PROVE  \/ writing'[t] = EndItem
               \/ /\ writing'[t] \in 1..appSent'[t]
                  /\ writing'[t] \notin Range(written'[t])
                  /\ \A l \in 1..(writing'[t] - 1) : l \in Range(written'[t])
      BY <1>0, <1>1, <1>3
  <1>4. CASE LinkFailure \/ UNCHANGED vars
      BY <1>3, <1>4 DEF LinkFailure, vars, agentVars, browserVars
  <1>5. CASE AgentNext /\ UNCHANGED browserVars
      <2>0. appSent' = appSent
          BY <1>5 DEF browserVars
      <2>1. CASE Dispatch \/ Terminate
          <3>1. UNCHANGED <<handler, writing, written>>
              BY <2>1 DEF Dispatch, DispatchToQueue, DispatchConnect, DispatchUnexpected,
                          DispatchIgnored, Terminate
          <3> QED BY <1>3, <2>0, <3>1
      <2>2. ASSUME NEW u \in Tokens, ConnTask(u) \/ Peer(u)
            PROVE  handler[t] = "write" /\ UNCHANGED <<writing, written>>
          BY <1>0, <2>2, ConnLeaves
      <2>3. CASE \E u \in Tokens : ConnTask(u) \/ Peer(u)
          <3>1. handler'[t] = handler[t] /\ UNCHANGED <<writing, written>>
              BY <2>2, <2>3
          <3> QED BY <1>3, <2>0, <3>1
      <2>4. ASSUME NEW u \in Tokens, HandlerTask(u)
            PROVE  \/ writing'[t] = EndItem
                   \/ /\ writing'[t] \in 1..appSent'[t]
                      /\ writing'[t] \notin Range(written'[t])
                      /\ \A l \in 1..(writing'[t] - 1) : l \in Range(written'[t])
          <3>1. CASE u # t
              <4>1. /\ written'[t] = written[t] /\ writing'[t] = writing[t]
                    /\ handler'[t] = handler[t]
                  BY <1>0, <2>4, <3>1, HandlerLeaves
              <4> QED BY <1>0, <1>1, <2>0, <4>1
          <3>2. CASE GetData(t)
              <4>1. written' = written /\ writing'[t] = Head(cmdq[t]).chunk
                  BY <1>0, <3>2 DEF GetData
              <4> QED BY <2>0, <3>2, <4>1, TakesNext DEF Flow
          <3>3. CASE u = t /\ ~GetData(t)
              <4>1. handler'[t] # "write"
                  BY <1>0, <2>4, <3>3 DEF HandlerTask, HandlerStart, GetOk, WriteData,
                                          WriteError, HandlerEnd, HandlerFinally
              <4> QED BY <4>1
          <3> QED BY <2>4, <3>1, <3>2, <3>3
      <2> QED BY <1>5, <2>1, <2>3, <2>4 DEF AgentNext
  <1> QED BY <1>2, <1>4, <1>5 DEF Next

\* The second invariant holds of every behaviour.
THEOREM FlowInvariance == Spec => []Flow
  <1>1. Init => Flow
      BY FlowInit
  <1>2. Inv /\ Flow /\ [Next]_vars => Flow'
      BY RegisteredStep, MineStep, InFlowStep, OutFlowStep, NextInHandStep DEF Flow
  <1> QED BY <1>1, <1>2, Invariance, PTL DEF Spec


-----------------------------------------------------------------------------
(* Both directions implement OrderedStream.                                 *)

LEMMA InboundInit == Init => Inbound!Init
  BY DEF Init, AgentInit, BrowserInit, Inbound!Init

LEMMA OutboundInit == Init => Outbound!Init
  BY DEF Init, AgentInit, BrowserInit, Outbound!Init

LEMMA InboundStep ==
    ASSUME Inv, Flow, [Next]_vars
    PROVE  [Inbound!Next]_<<sent, in_q>>
  <1> USE DEF taskVars, queueVars, peerVars, linkVars
  <1>0. /\ a2c \in Seq(CMD) /\ in_q \in [Tokens -> Seq(Nat)]
        /\ sent \in [Tokens -> Nat] /\ taken \in [Tokens -> Nat]
      BY DEF Inv, TypeOK, LinkTypeOK, AgentTypeOK, BrowserTypeOK
  <1>1. CASE AgentNext /\ UNCHANGED browserVars
      <2>1. in_q' = in_q
          BY <1>1 DEF browserVars
      <2>2. sent' = sent \/ \E t \in Tokens : sent' = [sent EXCEPT ![t] = @ + 1]
          <3>1. Dispatch \/ Terminate => sent' = sent
              BY DEF Dispatch, DispatchToQueue, DispatchConnect, DispatchUnexpected,
                     DispatchIgnored, Terminate
          <3>2. ASSUME NEW t \in Tokens, ConnTask(t) \/ HandlerTask(t) PROVE sent' = sent
              BY <3>2 DEF ConnTask, ConnectOk, ConnectFail, ReadData, ReadEof, ReadError,
                 ConnFinally, ConnCancelled, CancelHandler, HandlerTask, HandlerStart,
                 GetData, GetOk, WriteData, WriteError, HandlerEnd, HandlerFinally
          <3>3. ASSUME NEW t \in Tokens, Peer(t)
                PROVE  sent' = sent \/ sent' = [sent EXCEPT ![t] = @ + 1]
              BY <3>3 DEF Peer, PeerSend, PeerClose
          <3> QED BY <1>1, <3>1, <3>2, <3>3 DEF AgentNext
      <2> QED BY <2>1, <2>2 DEF Inbound!Next, Inbound!Accept
  <1>2. CASE LinkFailure \/ UNCHANGED vars
      BY <1>2 DEF LinkFailure, vars, agentVars, browserVars
  <1>3. CASE BrowserNext /\ UNCHANGED agentVars
      <2>0. sent' = sent
          BY <1>3 DEF agentVars
      <2>1. ASSUME NEW S \in SUBSET Tokens,
                   in_q' = [t \in Tokens |-> IF t \in S THEN Append(in_q[t], 0) ELSE in_q[t]]
            PROVE  Inbound!Next
          BY <2>0, <2>1 DEF Inbound!Next, Inbound!SignalEnd, Inbound!End
      <2>2. CASE IfaceTerminate
          <3>1. dispatch_table \in SUBSET Tokens
              BY DEF Inv, TypeOK, BrowserTypeOK
          <3>2. in_q' = [t \in Tokens |-> IF t \in dispatch_table
                                          THEN Append(in_q[t], 0) ELSE in_q[t]]
              BY <2>2 DEF IfaceTerminate, EndItem
          <3> QED BY <2>1, <3>1, <3>2
      <2>3. ASSUME NEW t \in Tokens, in_q' = [in_q EXCEPT ![t] = Append(@, 0)]
            PROVE  Inbound!Next
          <3>1. in_q' = [u \in Tokens |-> IF u \in {t} THEN Append(in_q[u], 0) ELSE in_q[u]]
              BY <1>0, <2>3
          <3> QED BY <2>1, <3>1
      <2>4. ASSUME NEW t \in Tokens, OnEnd(t) PROVE Inbound!Next
          BY <2>3, <2>4 DEF OnEnd, EndItem
      <2>5. ASSUME NEW t \in Tokens, OnSocketData(t) PROVE Inbound!Next
          <3> DEFINE n == Head(a2c).chunk
                     got == Range(in_q[t])
          <3>1. /\ a2c # <<>> /\ Head(a2c) \in CMD
                /\ Head(a2c).type = "SD" /\ Head(a2c).token = t
                /\ in_q' = [in_q EXCEPT ![t] = Append(@, n)] /\ t \in dispatch_table
              BY <1>0, <2>5, CmdSeq DEF OnSocketData, OnDataFor
          <3>2. n \in Nat /\ Head(a2c) = SocketData(t, n)
              BY <3>1, CommandFacts
          <3>3. CASE n = 0
              BY <2>3, <3>1, <3>3
          <3>4. CASE n # 0
              <4>1. client[t] # "closed"
                  BY <3>1 DEF Flow, Registered
              <4>2. /\ taken[t] <= sent[t] /\ InOrder(a2c, Lane(t), got, taken[t])
                    /\ taken[t] \in Nat /\ sent[t] \in Nat
                  BY <1>0, <4>1 DEF Flow, InFlow, Inward
              <4> DEFINE most == sent[t]
                         read == taken[t]
              <4>3. /\ read <= most /\ read \in Nat /\ most \in Nat /\ InOrder(a2c, Lane(t), got, read)
                    /\ n # 0 /\ n \in Nat /\ Head(a2c) = SocketData(t, n)
                    /\ a2c \in Seq(CMD) /\ a2c # <<>>
                  BY <1>0, <3>1, <3>2, <3>4, <4>2
              <4> HIDE DEF n, got, most, read
              <4>4. n \in 1..most /\ n \notin got /\ \A l \in 1..(n - 1) : l \in got
                  BY <4>3, HeadIsNext
              <4>5. n \in 1..sent[t] /\ n \notin got /\ \A l \in 1..(n - 1) : l \in got
                  BY <4>4 DEF most
              <4>6. Inbound!Range(in_q[t]) = got
                  BY DEF Range, Inbound!Range, got
              <4>7. \E k \in 1..sent[t] :
                       /\ k \notin Inbound!Range(in_q[t])
                       /\ \A m \in 1..(k - 1) : m \in Inbound!Range(in_q[t])
                       /\ in_q' = [in_q EXCEPT ![t] = Append(@, k)]
                  BY <3>1, <4>5, <4>6
              <4>8. Inbound!Deliver(t)
                  BY <2>0, <4>7 DEF Inbound!Deliver
              <4> QED BY <4>8 DEF Inbound!Next
          <3> QED BY <3>3, <3>4
      <2>6. ASSUME NEW t \in Tokens, OnContinue(t) \/ OnUnknown(t) \/ SendOkTask(t)
                        \/ RunTask(t) \/ Timeout(t) \/ OutTask(t) \/ App(t)
            PROVE  in_q' = in_q
          BY <2>6 DEF OnContinue, OnUnknown, SendOkTask, RunTask, Established,
             EstablishFailed, Timeout, OutTask, OutSend, OutEnd, App, Run, AppSend, AppEnd,
             AppTerminate, TerminateClient
      <2> QED BY <1>3, <2>0, <2>2, <2>4, <2>5, <2>6 DEF BrowserNext, OnData
  <1> QED BY <1>1, <1>2, <1>3 DEF Next

LEMMA OutboundStep ==
    ASSUME Inv, Flow, [Next]_vars
    PROVE  [Outbound!Next]_<<appSent, written>>
  <1> USE DEF taskVars, queueVars, peerVars, linkVars
  <1>0. /\ written \in [Tokens -> Seq(Nat)] /\ appSent \in [Tokens -> Nat]
      BY DEF Inv, TypeOK, AgentTypeOK, BrowserTypeOK
  <1>1. CASE BrowserNext /\ UNCHANGED agentVars
      <2>1. written' = written
          BY <1>1 DEF agentVars
      <2>2. appSent' = appSent \/ \E t \in Tokens : appSent' = [appSent EXCEPT ![t] = @ + 1]
          <3>1. ASSUME NEW t \in Tokens, OnData(t) \/ SendOkTask(t) \/ RunTask(t) \/ Timeout(t)
                PROVE  appSent' = appSent
              BY <3>1 DEF OnData, OnEnd, OnContinue, OnSocketData, OnUnknown, SendOkTask,
                          RunTask, Established, EstablishFailed, Timeout, TerminateClient
          <3>2. ASSUME NEW t \in Tokens, OutTask(t) \/ App(t)
                PROVE  appSent' = appSent \/ appSent' = [appSent EXCEPT ![t] = @ + 1]
              BY <3>2 DEF OutTask, OutSend, OutEnd, App, Run, AppSend, AppEnd,
                          AppTerminate, TerminateClient
          <3>3. IfaceTerminate => appSent' = appSent
              BY DEF IfaceTerminate
          <3> QED BY <1>1, <3>1, <3>2, <3>3 DEF BrowserNext
      <2> QED BY <2>1, <2>2 DEF Outbound!Next, Outbound!Accept
  <1>2. CASE LinkFailure \/ UNCHANGED vars
      BY <1>2 DEF LinkFailure, vars, agentVars, browserVars
  <1>3. CASE AgentNext /\ UNCHANGED browserVars
      <2>0. appSent' = appSent
          BY <1>3 DEF browserVars
      <2>1. ASSUME NEW t \in Tokens, WriteData(t) \/ WriteError(t) PROVE Outbound!Next
          <3> DEFINE n == writing[t]
                     got == Range(written[t])
          <3>1. handler[t] = "write" /\ written' = [written EXCEPT ![t] = Append(@, n)]
              BY <2>1 DEF WriteData, WriteError
          <3>2. \/ n = 0
                \/ n \in 1..appSent[t] /\ n \notin got /\ \A l \in 1..(n - 1) : l \in got
              BY <3>1 DEF Flow, NextInHand, EndItem
          <3> HIDE DEF n
          <3>3. CASE n = 0
              <4>1. written' = [u \in Tokens |-> IF u \in {t} THEN Append(written[u], 0)
                                                              ELSE written[u]]
                  BY <1>0, <3>1, <3>3
              <4>2. {t} \in SUBSET Tokens
                  OBVIOUS
              <4> QED BY <2>0, <4>1, <4>2
                      DEF Outbound!Next, Outbound!SignalEnd, Outbound!End
          <3>4. CASE n # 0
              <4>1. Outbound!Range(written[t]) = got
                  BY DEF Range, Outbound!Range
              <4>2. \E k \in 1..appSent[t] :
                       /\ k \notin Outbound!Range(written[t])
                       /\ \A m \in 1..(k - 1) : m \in Outbound!Range(written[t])
                       /\ written' = [written EXCEPT ![t] = Append(@, k)]
                  BY <3>1, <3>2, <3>4, <4>1
              <4>3. Outbound!Deliver(t)
                  BY <2>0, <4>2 DEF Outbound!Deliver
              <4> QED BY <4>3 DEF Outbound!Next
          <3> QED BY <3>3, <3>4
      <2>2. ASSUME NEW t \in Tokens, \/ HandlerStart(t) \/ GetData(t) \/ GetOk(t)
                                     \/ HandlerEnd(t) \/ ConnTask(t) \/ Peer(t)
            PROVE  written' = written
          BY <2>2 DEF HandlerStart, GetData, GetOk, HandlerEnd, HandlerFinally, ConnTask,
             ConnectOk, ConnectFail, ReadData, ReadEof, ReadError, ConnFinally,
             ConnCancelled, CancelHandler, Peer, PeerSend, PeerClose
      <2>3. Dispatch \/ Terminate => written' = written
          BY DEF Dispatch, DispatchToQueue, DispatchConnect, DispatchUnexpected,
                 DispatchIgnored, Terminate
      <2> QED BY <1>3, <2>0, <2>1, <2>2, <2>3 DEF AgentNext, HandlerTask
  <1> QED BY <1>1, <1>2, <1>3 DEF Next

\* In both directions of every tunnel the n-th chunk is delivered at most once,
\* and after those before it, whatever ends, fails or is lost.
THEOREM StreamsAlwaysInOrder == Spec => StreamsInOrder
  <1>1. Init => Inbound!Init /\ Outbound!Init
      BY InboundInit, OutboundInit
  <1>2. Inv /\ Flow /\ [Next]_vars => [Inbound!Next]_<<sent, in_q>>
      BY InboundStep
  <1>3. Inv /\ Flow /\ [Next]_vars => [Outbound!Next]_<<appSent, written>>
      BY OutboundStep
  <1> QED BY <1>1, <1>2, <1>3, Invariance, FlowInvariance, PTL
          DEF Spec, StreamsInOrder, Inbound!Spec, Outbound!Spec
=============================================================================
