---------------------------- MODULE AgentTunnel -----------------------------
(***************************************************************************)
(* The agent's half of a TCP client tunnel (WSNETAgent): the dispatcher    *)
(* process_incoming, one socket_connect task per tunnel that reads the     *)
(* TCP socket, and one __socket_data_in_handle task per tunnel that writes *)
(* it.  All of them run on one event loop: an action is the code between   *)
(* two awaits that can suspend.  The TCP peer is external.                 *)
(***************************************************************************)
EXTENDS WsLink

CONSTANT MaxPeer        \* bound: chunks a peer sends on one connection

ASSUME MaxPeerAssumption == MaxPeer \in Nat

VARIABLES
    agent,              \* the handle_client loop: "serving" or "terminated"
    conn,               \* the socket_connect task of a token
    ccancel,            \* that task has been cancelled by terminate()
    handler,            \* the __socket_data_in_handle task of a token
    hcancel,            \* that task has been cancelled by socket_connect
    process_queues,     \* tokens with an entry in __process_queues
    cmdq,               \* the queue of that entry
    writing,            \* the command the handler took and will write
    sock,               \* the agent's end of the TCP connection
    peer,               \* the peer's end
    sent,               \* number of chunks the peer has sent
    taken,              \* number of chunks reader.read has returned
    written             \* the chunks handed to writer.write

taskVars  == <<agent, conn, ccancel, handler, hcancel>>
queueVars == <<process_queues, cmdq, writing>>
peerVars  == <<peer, sent>>
agentVars == <<agent, conn, ccancel, handler, hcancel, process_queues, cmdq,
               writing, sock, peer, sent, taken, written>>

ConnState    == {"none", "connecting", "reading", "closing", "done"}
\* "killed": cancelled before its first step, so that its finally never runs.
HandlerState == {"none", "created", "get", "write", "failed", "done", "killed"}
HandlerAlive == {"created", "get", "write", "failed"}

AgentTypeOK ==
    /\ agent \in {"serving", "terminated"}
    /\ conn \in [Tokens -> ConnState]
    /\ ccancel \in [Tokens -> BOOLEAN]
    /\ handler \in [Tokens -> HandlerState]
    /\ hcancel \in [Tokens -> BOOLEAN]
    /\ process_queues \in SUBSET Tokens
    /\ cmdq \in [Tokens -> Seq(CMD)]
    /\ writing \in [Tokens -> Nat]
    /\ sock \in [Tokens -> {"none", "open", "closed"}]
    /\ peer \in [Tokens -> {"open", "eof", "reset"}]
    /\ sent \in [Tokens -> Nat]
    /\ taken \in [Tokens -> Nat]
    /\ written \in [Tokens -> Seq(Nat)]

AgentInit ==
    /\ agent = "serving"
    /\ conn = [t \in Tokens |-> "none"]
    /\ ccancel = [t \in Tokens |-> FALSE]
    /\ handler = [t \in Tokens |-> "none"]
    /\ hcancel = [t \in Tokens |-> FALSE]
    /\ process_queues = {}
    /\ cmdq = [t \in Tokens |-> <<>>]
    /\ writing = [t \in Tokens |-> 0]
    /\ sock = [t \in Tokens |-> "none"]
    /\ peer = [t \in Tokens |-> "open"]
    /\ sent = [t \in Tokens |-> 0]
    /\ taken = [t \in Tokens |-> 0]
    /\ written = [t \in Tokens |-> <<>>]

-----------------------------------------------------------------------------
(* process_incoming: one command at a time, in order of arrival.            *)

Receive(cmd) ==
    /\ agent = "serving"
    /\ c2a # <<>>
    /\ cmd = Head(c2a)
    /\ c2a' = Tail(c2a)

\* The token has a queue: the command goes there, whatever its type.
DispatchToQueue ==
    \E t \in process_queues :
        LET cmd == Head(c2a) IN
        /\ Receive(cmd)
        /\ cmd.token = t
        /\ cmdq' = [cmdq EXCEPT ![t] = Append(@, cmd)]
        /\ UNCHANGED <<a2c, wsUp, taskVars, process_queues, writing, sock,
                       peerVars, taken, written>>

\* CONNECT starts a socket_connect task.
DispatchConnect ==
    \E t \in Tokens \ process_queues :
        /\ Receive(Cmd("CONNECT", t))
        /\ conn' = [conn EXCEPT ![t] = "connecting"]
        /\ UNCHANGED <<a2c, wsUp, agent, ccancel, handler, hcancel, queueVars,
                       sock, peerVars, taken, written>>

\* Socket data for a token without a queue is answered with an error.
DispatchUnexpected ==
    \E t \in Tokens \ process_queues :
        LET cmd == Head(c2a) IN
        /\ Receive(cmd)
        /\ cmd.token = t /\ cmd.type = "SD"
        /\ AgentSend(Cmd("ERR", t))
        /\ UNCHANGED <<wsUp, taskVars, queueVars, sock, peerVars, taken, written>>

\* An OK for a token without a queue matches no branch.
DispatchIgnored ==
    \E t \in Tokens \ process_queues :
        /\ Receive(Cmd("OK", t))
        /\ UNCHANGED <<a2c, wsUp, taskVars, queueVars, sock, peerVars, taken,
                       written>>

Dispatch == DispatchToQueue \/ DispatchConnect \/ DispatchUnexpected
                \/ DispatchIgnored

-----------------------------------------------------------------------------
(* socket_connect, the branch for a TCP client.                             *)

\* After a send the task goes on; on a closed WebSocket the send may raise
\* instead, send_err then raises as well, and the task goes to its finally.
AfterSend ==
    IF wsUp THEN {"reading"} ELSE {"reading", "closing"}

\* Mutant of ConnectOk: the queue is not registered before CONTINUE is sent.
ConnectOkNoQueue(t) ==
    /\ conn[t] = "connecting" /\ ~ccancel[t]
    /\ sock' = [sock EXCEPT ![t] = "open"]
    /\ AgentSend(Cmd("CONTINUE", t))
    /\ \E s \in AfterSend : conn' = [conn EXCEPT ![t] = s]
    /\ handler' = [handler EXCEPT ![t] = "created"]
    /\ UNCHANGED <<c2a, wsUp, agent, ccancel, hcancel, queueVars, peerVars, taken,
                   written>>

\* open_connection returned: the queue is registered and the handler created
\* before CONTINUE is sent.  When that and send_err raise without suspending,
\* out_task is cancelled before its first step and never runs its finally.
ConnectOk(t) ==
    /\ conn[t] = "connecting" /\ ~ccancel[t]
    /\ sock' = [sock EXCEPT ![t] = "open"]
    /\ process_queues' = process_queues \cup {t}
    /\ AgentSend(Cmd("CONTINUE", t))
    /\ \/ /\ \E s \in AfterSend : conn' = [conn EXCEPT ![t] = s]
          /\ handler' = [handler EXCEPT ![t] = "created"]
       \/ /\ ~wsUp
          /\ conn' = [conn EXCEPT ![t] = "done"]
          /\ handler' = [handler EXCEPT ![t] = "killed"]
    /\ UNCHANGED <<c2a, wsUp, agent, ccancel, hcancel, cmdq, writing, peerVars,
                   taken, written>>

\* Refused, unreachable or not connected within 5 seconds.
ConnectFail(t) ==
    /\ conn[t] = "connecting" /\ ~ccancel[t]
    /\ AgentSend(Cmd("ERR", t))
    /\ conn' = [conn EXCEPT ![t] = "done"]
    /\ UNCHANGED <<c2a, wsUp, agent, ccancel, handler, hcancel, queueVars, sock,
                   peerVars, taken, written>>

\* The read loop.  sleep(0) lets the handler, which was scheduled first, take
\* its first step before the first read.
Reading(t) == conn[t] = "reading" /\ ~ccancel[t] /\ handler[t] # "created"

ReadData(t) ==
    /\ Reading(t)
    /\ taken[t] < sent[t]
    /\ taken' = [taken EXCEPT ![t] = @ + 1]
    /\ AgentSend(SocketData(t, taken[t] + 1))
    /\ \E s \in AfterSend : conn' = [conn EXCEPT ![t] = s]
    /\ UNCHANGED <<c2a, wsUp, agent, ccancel, handler, hcancel, queueVars, sock,
                   peerVars, written>>

\* Mutant of ReadEof: the loop goes on after the OK.
ReadEofGoesOn(t) ==
    /\ Reading(t)
    /\ peer[t] = "eof" /\ taken[t] = sent[t]
    /\ AgentSend(Cmd("OK", t))
    /\ UNCHANGED <<c2a, wsUp, taskVars, queueVars, sock, peerVars, taken, written>>

\* Mutant of ReadEof: the task returns without telling the browser.
ReadEofSilent(t) ==
    /\ Reading(t)
    /\ \/ peer[t] = "eof" /\ taken[t] = sent[t]
       \/ sock[t] = "closed"
    /\ conn' = [conn EXCEPT ![t] = "closing"]
    /\ UNCHANGED <<linkVars, agent, ccancel, handler, hcancel, queueVars, sock,
                   peerVars, taken, written>>

\* b'': the peer closed and everything it sent has been read, or the handler
\* closed the writer.
ReadEof(t) ==
    /\ Reading(t)
    /\ \/ peer[t] = "eof" /\ taken[t] = sent[t]
       \/ sock[t] = "closed"
    /\ AgentSend(Cmd("OK", t))
    /\ conn' = [conn EXCEPT ![t] = "closing"]
    /\ UNCHANGED <<c2a, wsUp, agent, ccancel, handler, hcancel, queueVars, sock,
                   peerVars, taken, written>>

\* A reset connection makes read raise, even with data in the buffer, as soon
\* as the event loop has seen the reset.
ReadError(t) ==
    /\ Reading(t)
    /\ peer[t] = "reset"
    /\ AgentSend(Cmd("ERR", t))
    /\ conn' = [conn EXCEPT ![t] = "closing"]
    /\ UNCHANGED <<c2a, wsUp, agent, ccancel, handler, hcancel, queueVars, sock,
                   peerVars, taken, written>>

\* The finally of a task that has created the handler: out_task.cancel().
CancelHandler(t) ==
    /\ handler[t] # "created"
    /\ conn' = [conn EXCEPT ![t] = "done"]
    /\ hcancel' = IF handler[t] \in HandlerAlive
                    THEN [hcancel EXCEPT ![t] = TRUE] ELSE hcancel
    /\ UNCHANGED <<c2a, a2c, wsUp, agent, ccancel, handler, queueVars, sock,
                   peerVars, taken, written>>

ConnFinally(t) ==
    /\ conn[t] = "closing"
    /\ CancelHandler(t)

\* terminate() cancelled the task: while connecting there is no handler yet.
ConnCancelled(t) ==
    /\ ccancel[t]
    /\ \/ conn[t] \in {"reading", "closing"} /\ CancelHandler(t)
       \/ /\ conn[t] = "connecting"
          /\ conn' = [conn EXCEPT ![t] = "done"]
          /\ UNCHANGED <<c2a, a2c, wsUp, agent, ccancel, handler, hcancel,
                         queueVars, sock, peerVars, taken, written>>

-----------------------------------------------------------------------------
(* __socket_data_in_handle.                                                 *)

HandlerStart(t) ==
    /\ handler[t] = "created"
    /\ handler' = [handler EXCEPT ![t] = "get"]
    /\ UNCHANGED <<linkVars, agent, conn, ccancel, hcancel, queueVars, sock,
                   peerVars, taken, written>>

\* Mutant of HandlerFinally: the writer is not closed.
HandlerFinallyNoClose(t) ==
    /\ process_queues' = process_queues \ {t}
    /\ handler' = [handler EXCEPT ![t] = "done"]
    /\ hcancel' = [hcancel EXCEPT ![t] = FALSE]
    /\ UNCHANGED <<linkVars, agent, conn, ccancel, writing, sock, peerVars, taken,
                   written>>

\* The finally: close the writer, drop the queue.
HandlerFinally(t) ==
    /\ sock' = [sock EXCEPT ![t] = "closed"]
    /\ process_queues' = process_queues \ {t}
    /\ handler' = [handler EXCEPT ![t] = "done"]
    /\ hcancel' = [hcancel EXCEPT ![t] = FALSE]
    /\ UNCHANGED <<linkVars, agent, conn, ccancel, writing, peerVars, taken,
                   written>>

\* Mutant of GetData: the command stays in the queue.
GetDataPeek(t) ==
    /\ handler[t] = "get" /\ ~hcancel[t]
    /\ cmdq[t] # <<>> /\ Head(cmdq[t]).type = "SD"
    /\ writing' = [writing EXCEPT ![t] = Head(cmdq[t]).chunk]
    /\ handler' = [handler EXCEPT ![t] = "write"]
    /\ UNCHANGED <<linkVars, agent, conn, ccancel, hcancel, process_queues, cmdq,
                   sock, peerVars, taken, written>>

GetData(t) ==
    /\ handler[t] = "get" /\ ~hcancel[t]
    /\ cmdq[t] # <<>> /\ Head(cmdq[t]).type = "SD"
    /\ writing' = [writing EXCEPT ![t] = Head(cmdq[t]).chunk]
    /\ cmdq' = [cmdq EXCEPT ![t] = Tail(@)]
    /\ handler' = [handler EXCEPT ![t] = "write"]
    /\ UNCHANGED <<linkVars, agent, conn, ccancel, hcancel, process_queues, sock,
                   peerVars, taken, written>>

GetOk(t) ==
    /\ handler[t] = "get" /\ ~hcancel[t]
    /\ cmdq[t] # <<>> /\ Head(cmdq[t]).type = "OK"
    /\ cmdq' = [cmdq EXCEPT ![t] = Tail(@)]
    /\ HandlerFinally(t)

WriteData(t) ==
    /\ handler[t] = "write" /\ ~hcancel[t]
    /\ written' = [written EXCEPT ![t] = Append(@, writing[t])]
    /\ handler' = [handler EXCEPT ![t] = "get"]
    /\ UNCHANGED <<linkVars, agent, conn, ccancel, hcancel, queueVars, sock,
                   peerVars, taken>>

\* drain raises: the error is reported before the finally runs.
WriteError(t) ==
    /\ handler[t] = "write" /\ ~hcancel[t]
    /\ peer[t] = "reset"
    /\ written' = [written EXCEPT ![t] = Append(@, writing[t])]
    /\ AgentSend(Cmd("ERR", t))
    /\ handler' = [handler EXCEPT ![t] = "failed"]
    /\ UNCHANGED <<c2a, wsUp, agent, conn, ccancel, hcancel, queueVars, sock,
                   peerVars, taken>>

HandlerEnd(t) ==
    /\ \/ handler[t] = "failed"
       \/ handler[t] \in HandlerAlive \ {"created"} /\ hcancel[t]
    /\ cmdq' = cmdq
    /\ HandlerFinally(t)

-----------------------------------------------------------------------------
\* Mutant of Terminate: the running tasks are not cancelled.
TerminateNoCancel ==
    /\ agent = "serving"
    /\ ~wsUp /\ c2a = <<>>
    /\ agent' = "terminated"
    /\ UNCHANGED <<linkVars, conn, ccancel, handler, hcancel, queueVars, sock,
                   peerVars, taken, written>>

\* handle_client: the WebSocket is closed and everything received from it has
\* been processed; terminate() cancels the socket_connect tasks.
Terminate ==
    /\ agent = "serving"
    /\ ~wsUp /\ c2a = <<>>
    /\ agent' = "terminated"
    /\ ccancel' = [t \in Tokens |-> conn[t] \notin {"none", "done"}]
    /\ UNCHANGED <<linkVars, conn, handler, hcancel, queueVars, sock, peerVars,
                   taken, written>>

\* The TCP peer (external).  What it does after the agent closed its end is
\* not seen by anyone.
PeerSend(t) ==
    /\ sock[t] = "open" /\ peer[t] = "open" /\ sent[t] < MaxPeer
    /\ sent' = [sent EXCEPT ![t] = @ + 1]
    /\ UNCHANGED <<linkVars, taskVars, queueVars, sock, peer, taken, written>>

PeerClose(t) ==
    /\ sock[t] = "open"
    /\ \/ peer[t] = "open" /\ peer' = [peer EXCEPT ![t] = "eof"]
       \/ peer[t] # "reset" /\ peer' = [peer EXCEPT ![t] = "reset"]
    /\ UNCHANGED <<linkVars, taskVars, queueVars, sock, sent, taken, written>>

ConnTask(t) ==
    \/ ConnectOk(t) \/ ConnectFail(t)
    \/ ReadData(t) \/ ReadEof(t) \/ ReadError(t)
    \/ ConnFinally(t) \/ ConnCancelled(t)

HandlerTask(t) ==
    \/ HandlerStart(t) \/ GetData(t) \/ GetOk(t)
    \/ WriteData(t) \/ WriteError(t) \/ HandlerEnd(t)

Peer(t) == PeerSend(t) \/ PeerClose(t)

AgentNext ==
    \/ Dispatch
    \/ Terminate
    \/ \E t \in Tokens : ConnTask(t) \/ HandlerTask(t) \/ Peer(t)
=============================================================================
