---------------------------- MODULE AgentServer -----------------------------
(***************************************************************************)
(* The agent's half of a TCP server (a bind): process_incoming, the branch *)
(* of socket_connect that starts the server, and a TCPServerConnection for *)
(* each accepted connection.  One server is modelled.                      *)
(*                                                                         *)
(* process_incoming awaits handle_write and stop: while it waits for a     *)
(* drain no other command is looked at.  stop() suspends between sending   *)
(* and forgetting the connection when the WebSocket's buffer is full.      *)
(***************************************************************************)
EXTENDS ServerLink, SequencesExt

CONSTANT MaxPeer    \* bound: chunks a peer sends on one connection

ASSUME MaxPeerAssumption == MaxPeer \in Nat

VARIABLES
    agent,          \* the handle_client loop: "serving" or "terminated"
    disp,           \* where process_incoming waits
    server,         \* the server, from CONNECT to the end
    table,          \* the keys of server_tcp_connections[token], in order
    run,            \* the task running TCPServerConnection.run
    evt,            \* the connections whose disconnected_evt is set
    sock,           \* the agent's end of a connection
    peer,           \* the peer's end
    sent,           \* number of chunks the peer has sent
    taken,          \* number of chunks reader.read has returned
    written         \* the chunks handed to writer.write

dispVars  == <<agent, disp, server>>
peerVars  == <<peer, sent>>
agentVars == <<agent, disp, server, table, run, evt, sock, peer, sent, taken,
               written>>

\* "listening" but not yet in __servers, "registered", "leaked" when it will
\* never be in __servers, "closed" by an OK, "cancelled" by terminate().
ServerState == {"none", "starting", "listening", "registered", "leaked",
                "failed", "closed", "cancelled"}
Listening   == {"listening", "registered", "leaked"}
\* "raised" when run() ended in an exception of its own handlers.
RunState    == {"none", "accepted", "reading", "finally", "stopping", "done", "raised"}

\* drain: in handle_write; stop: in the stop() handle_write called; closestop:
\* in a stop() called by the loop that closes a server; close: between two such
\* calls, where the loop does not suspend.
DispState == [at   : {"idle", "drain", "stop", "close", "closestop"},
              conn : Tokens, chunk : Nat, todo : Seq(Conns)]

Idle == [at |-> "idle", conn |-> Server, chunk |-> End, todo |-> <<>>]

AgentTypeOK ==
    /\ agent \in {"serving", "terminated"}
    /\ disp \in DispState
    /\ server \in ServerState
    /\ table \in Seq(Conns)
    /\ run \in [Conns -> RunState]
    /\ evt \in SUBSET Conns
    /\ sock \in [Conns -> {"none", "open", "closed"}]
    /\ peer \in [Conns -> {"open", "eof", "reset"}]
    /\ sent \in [Conns -> Nat]
    /\ taken \in [Conns -> Nat]
    /\ written \in [Conns -> Seq(Nat)]

AgentInit ==
    /\ agent = "serving"
    /\ disp = Idle
    /\ server = "none"
    /\ table = <<>>
    /\ run = [c \in Conns |-> "none"]
    /\ evt = {}
    /\ sock = [c \in Conns |-> "none"]
    /\ peer = [c \in Conns |-> "open"]
    /\ sent = [c \in Conns |-> 0]
    /\ taken = [c \in Conns |-> 0]
    /\ written = [c \in Conns |-> <<>>]

-----------------------------------------------------------------------------
(* socket_connect, the branch for a TCP server.                             *)

\* start_server begins to listen; no connection is accepted before the next
\* turn of the event loop, so CONTINUE is the first thing the browser hears.
BindOk ==
    /\ server = "starting"
    /\ AgentSend(Cmd("CONTINUE", Server))
    /\ server' = "listening"
    /\ UNCHANGED <<c2a, wsUp, agent, disp, table, run, evt, sock, peerVars, taken,
                   written>>

BindFail ==
    /\ server = "starting"
    /\ AgentSend(Cmd("ERR", Server))
    /\ server' = "failed"
    /\ UNCHANGED <<c2a, wsUp, agent, disp, table, run, evt, sock, peerVars, taken,
                   written>>

\* The send of CONTINUE is over: only now an OK for the server is obeyed.
BindRegister ==
    /\ server = "listening"
    /\ server' = "registered"
    /\ UNCHANGED <<linkVars, agent, disp, table, run, evt, sock, peerVars, taken,
                   written>>

\* It failed instead, as did send_err: the server listens on.
BindLost ==
    /\ server = "listening" /\ ~wsUp
    /\ server' = "leaked"
    /\ UNCHANGED <<linkVars, agent, disp, table, run, evt, sock, peerVars, taken,
                   written>>

Bind == disp.at # "close" /\ (BindOk \/ BindFail \/ BindRegister \/ BindLost)

-----------------------------------------------------------------------------
(* TCPServerConnection.stop, as far as its first suspension.                *)

\* The first caller announces the end.
Stop(c) ==
    /\ c \notin evt
    /\ evt' = evt \cup {c}
    /\ AgentSend(SDSRV(c, End))
    /\ UNCHANGED sock

\* Later callers only close the writer.
StopAgain(c) ==
    /\ c \in evt
    /\ sock' = [sock EXCEPT ![c] = "closed"]
    /\ UNCHANGED <<a2c, evt>>

\* The rest: the connection is forgotten, unless the send failed, and the
\* writer closed.
StopEnd(c) ==
    /\ sock' = [sock EXCEPT ![c] = "closed"]
    /\ \/ table' = RemoveFirst(table, c)
       \/ ~wsUp /\ table' = table

-----------------------------------------------------------------------------
(* TCPServerConnection.run.                                                 *)

\* A connection is accepted (external); its task has not run yet.
Accept(c) ==
    /\ server \in Listening /\ disp.at # "close"
    /\ run[c] = "none"
    /\ run' = [run EXCEPT ![c] = "accepted"]
    /\ sock' = [sock EXCEPT ![c] = "open"]
    /\ UNCHANGED <<linkVars, dispVars, table, evt, peerVars, taken, written>>

\* After a send the loop goes on; on a closed WebSocket the send may raise.
AfterSend == IF wsUp THEN {"reading"} ELSE {"reading", "finally"}

\* The connection is registered before it is announced.
Announce(c) ==
    /\ run[c] = "accepted"
    /\ table' = Append(table, c)
    /\ AgentSend(SDSRV(c, End))
    /\ \E s \in AfterSend : run' = [run EXCEPT ![c] = s]
    /\ UNCHANGED <<c2a, wsUp, dispVars, evt, sock, peerVars, taken, written>>

\* The address of the peer is no pair: four values for IPv6, None when the peer
\* is gone already.  The unpacking raises after the connection is registered,
\* the except clause and then finally raise as well, over an unbound clientip,
\* and stop() is not called.  From Python 3.12 on asyncio closes the transport
\* of a callback that raised; before that nobody does.
AnnounceRaises(c) ==
    /\ run[c] = "accepted"
    /\ table' = Append(table, c)
    /\ run' = [run EXCEPT ![c] = "raised"]
    /\ sock' \in {sock, [sock EXCEPT ![c] = "closed"]}
    /\ UNCHANGED <<linkVars, dispVars, evt, peerVars, taken, written>>

\* run_with_cancellation returns data.  It may do so just after stop() set the
\* event: the data then follows the empty message and the loop ends.
ReadData(c) ==
    /\ run[c] = "reading" /\ taken[c] < sent[c]
    /\ taken' = [taken EXCEPT ![c] = @ + 1]
    /\ AgentSend(SDSRV(c, taken[c] + 1))
    /\ \E s \in AfterSend :
          run' = [run EXCEPT ![c] = IF c \in evt THEN "finally" ELSE s]
    /\ UNCHANGED <<c2a, wsUp, dispVars, table, evt, sock, peerVars, written>>

\* b'' is passed on as an empty message; stop() will send a second one.
ReadEof(c) ==
    /\ run[c] = "reading"
    /\ peer[c] = "eof" \/ sock[c] = "closed"
    /\ taken[c] = sent[c]
    /\ AgentSend(SDSRV(c, End))
    /\ run' = [run EXCEPT ![c] = "finally"]
    /\ UNCHANGED <<c2a, wsUp, dispVars, table, evt, sock, peerVars, taken, written>>

\* The event is set, or the peer reset the connection: a chunk that was read
\* in the same turn of the event loop is lost.
ReadCancelled(c) ==
    /\ run[c] = "reading"
    /\ c \in evt \/ peer[c] = "reset"
    /\ run' = [run EXCEPT ![c] = "finally"]
    /\ UNCHANGED <<linkVars, dispVars, table, evt, sock, peerVars, taken, written>>

\* Mutant of RunStop: there is no finally.
RunStopSkipped(c) ==
    /\ run[c] = "finally"
    /\ run' = [run EXCEPT ![c] = "done"]
    /\ UNCHANGED <<linkVars, dispVars, table, evt, sock, peerVars, taken, written>>

RunStop(c) ==
    /\ run[c] = "finally"
    /\ \/ Stop(c) /\ run' = [run EXCEPT ![c] = "stopping"]
       \/ StopAgain(c) /\ run' = [run EXCEPT ![c] = "done"]
    /\ UNCHANGED <<c2a, wsUp, dispVars, table, peerVars, taken, written>>

RunStopEnd(c) ==
    /\ run[c] = "stopping"
    /\ StopEnd(c)
    /\ run' = [run EXCEPT ![c] = "done"]
    /\ UNCHANGED <<linkVars, dispVars, evt, peerVars, taken, written>>

RunTask(c) ==
    /\ disp.at # "close"
    /\ \/ Announce(c) \/ AnnounceRaises(c)
       \/ ReadData(c) \/ ReadEof(c) \/ ReadCancelled(c)
       \/ RunStop(c) \/ RunStopEnd(c)

-----------------------------------------------------------------------------
(* process_incoming.                                                        *)

Receive(cmd) ==
    /\ agent = "serving" /\ disp.at = "idle"
    /\ c2a # <<>>
    /\ cmd = Head(c2a)
    /\ c2a' = Tail(c2a)

DispatchBind ==
    /\ Receive(Cmd("CONNECT", Server))
    /\ server' = "starting"
    /\ UNCHANGED <<a2c, wsUp, agent, disp, table, run, evt, sock, peerVars, taken,
                   written>>

\* Mutant of DispatchWrite: each command has a task, and the newest runs first.
DispatchWriteNewest(c) ==
    LET i == SelectLastInSeq(c2a, LAMBDA m : m.token = c)
        n == c2a[i].chunk
    IN
    /\ agent = "serving" /\ disp.at = "idle"
    /\ Contains(table, c) /\ i > 0
    /\ c2a' = RemoveAt(c2a, i)
    /\ disp' = [Idle EXCEPT !.at = "drain", !.conn = c, !.chunk = n]
    /\ written' = [written EXCEPT ![c] =
                      IF n = End \/ sock[c] = "closed" THEN @ ELSE Append(@, n)]
    /\ UNCHANGED <<a2c, wsUp, agent, server, table, run, evt, sock, peerVars, taken>>

\* handle_write, until drain.  A closed transport drops what it is given.
DispatchWrite(c) ==
    LET n == Head(c2a).chunk IN
    /\ Contains(table, c)
    /\ Receive(SDSRV(c, n))
    /\ disp' = [Idle EXCEPT !.at = "drain", !.conn = c, !.chunk = n]
    /\ written' = [written EXCEPT ![c] =
                      IF n = End \/ sock[c] = "closed" THEN @ ELSE Append(@, n)]
    /\ UNCHANGED <<a2c, wsUp, agent, server, table, run, evt, sock, peerVars, taken>>

\* The connection is not known (any more): the browser gets an empty message.
DispatchUnknown(c) ==
    /\ ~Contains(table, c)
    /\ Receive(SDSRV(c, Head(c2a).chunk))
    /\ AgentSend(SDSRV(c, End))
    /\ UNCHANGED <<wsUp, dispVars, table, run, evt, sock, peerVars, taken, written>>

\* drain returned after data.
DrainDone ==
    /\ disp.at = "drain" /\ disp.chunk # End
    /\ disp' = Idle
    /\ UNCHANGED <<linkVars, agent, server, table, run, evt, sock, peerVars, taken,
                   written>>

\* It returned after an empty message, or raised: the connection is stopped.
DrainStop ==
    LET c == disp.conn IN
    /\ disp.at = "drain"
    /\ disp.chunk = End \/ peer[c] = "reset" \/ sock[c] = "closed"
    /\ \/ Stop(c) /\ disp' = [disp EXCEPT !.at = "stop"]
       \/ StopAgain(c) /\ disp' = Idle
    /\ UNCHANGED <<c2a, wsUp, agent, server, table, run, peerVars, taken, written>>

DrainStopEnd ==
    /\ disp.at = "stop"
    /\ StopEnd(disp.conn)
    /\ disp' = Idle
    /\ UNCHANGED <<linkVars, agent, server, run, evt, peerVars, taken, written>>

\* OK for a server in __servers: its connections are stopped one by one.
DispatchClose ==
    /\ server = "registered"
    /\ Receive(Cmd("OK", Server))
    /\ disp' = [Idle EXCEPT !.at = "close", !.todo = table]
    /\ UNCHANGED <<a2c, wsUp, agent, server, table, run, evt, sock, peerVars, taken,
                   written>>

\* OK for a server that is not (yet) in __servers: no branch matches.
DispatchEarlyOk ==
    /\ server # "registered"
    /\ Receive(Cmd("OK", Server))
    /\ UNCHANGED <<a2c, wsUp, dispVars, table, run, evt, sock, peerVars, taken,
                   written>>

\* Mutant of CloseNext: the writer is closed without a stop().
CloseNextAbrupt ==
    LET c == Head(disp.todo) IN
    /\ disp.at = "close" /\ disp.todo # <<>>
    /\ Contains(table, c)
    /\ sock' = [sock EXCEPT ![c] = "closed"]
    /\ table' = Remove(table, c)
    /\ disp' = [disp EXCEPT !.todo = Tail(@)]
    /\ UNCHANGED <<linkVars, agent, server, run, evt, peerVars, taken, written>>

CloseNext ==
    LET c == Head(disp.todo) IN
    /\ disp.at = "close" /\ disp.todo # <<>>
    /\ Contains(table, c)
    /\ \/ /\ Stop(c)
          /\ disp' = [disp EXCEPT !.at = "closestop", !.conn = c, !.todo = Tail(@)]
       \/ /\ StopAgain(c)
          /\ disp' = [disp EXCEPT !.todo = Tail(@)]
    /\ UNCHANGED <<c2a, wsUp, agent, server, table, run, peerVars, taken, written>>

\* Mutant of CloseStopEnd: the loop does not wait for the end of stop().
CloseStopEndForgets ==
    /\ disp.at = "closestop"
    /\ disp' = [Idle EXCEPT !.at = "close", !.todo = disp.todo]
    /\ UNCHANGED <<linkVars, agent, server, table, run, evt, sock, peerVars, taken,
                   written>>

CloseStopEnd ==
    /\ disp.at = "closestop"
    /\ StopEnd(disp.conn)
    /\ disp' = [Idle EXCEPT !.at = "close", !.todo = disp.todo]
    /\ UNCHANGED <<linkVars, agent, server, run, evt, peerVars, taken, written>>

\* The connection ended while another one was being stopped: KeyError.
CloseKeyError ==
    /\ disp.at = "close" /\ disp.todo # <<>>
    /\ ~Contains(table, Head(disp.todo))
    /\ disp' = Idle
    /\ UNCHANGED <<linkVars, agent, server, table, run, evt, sock, peerVars, taken,
                   written>>

CloseDone ==
    /\ disp.at = "close" /\ disp.todo = <<>>
    /\ server' = "closed"
    /\ disp' = Idle
    /\ UNCHANGED <<linkVars, agent, table, run, evt, sock, peerVars, taken, written>>

Dispatch ==
    \/ DispatchBind \/ DispatchClose \/ DispatchEarlyOk
    \/ \E c \in Conns : DispatchWrite(c) \/ DispatchUnknown(c)
    \/ DrainDone \/ DrainStop \/ DrainStopEnd
    \/ CloseNext \/ CloseStopEnd \/ CloseKeyError \/ CloseDone

-----------------------------------------------------------------------------
\* The WebSocket is closed and all commands are processed.  The task of
\* socket_connect and the server task are cancelled, connections are not.
Terminate ==
    /\ agent = "serving" /\ disp.at = "idle"
    /\ ~wsUp /\ c2a = <<>>
    /\ agent' = "terminated"
    /\ server' = CASE server = "registered" -> "cancelled"
                   [] server = "listening"  -> "leaked"
                   [] server = "starting"   -> "failed"
                   [] OTHER                 -> server
    /\ UNCHANGED <<linkVars, disp, table, run, evt, sock, peerVars, taken, written>>

\* The TCP peer (external).
PeerSend(c) ==
    /\ sock[c] = "open" /\ peer[c] = "open" /\ sent[c] < MaxPeer
    /\ sent' = [sent EXCEPT ![c] = @ + 1]
    /\ UNCHANGED <<linkVars, dispVars, table, run, evt, sock, peer, taken, written>>

PeerClose(c) ==
    /\ sock[c] = "open"
    /\ \/ peer[c] = "open" /\ peer' = [peer EXCEPT ![c] = "eof"]
       \/ peer[c] # "reset" /\ peer' = [peer EXCEPT ![c] = "reset"]
    /\ UNCHANGED <<linkVars, dispVars, table, run, evt, sock, sent, taken, written>>

AgentNext ==
    \/ Bind \/ Dispatch \/ Terminate
    \/ \E c \in Conns : Accept(c) \/ RunTask(c) \/ PeerSend(c) \/ PeerClose(c)
=============================================================================
