------------------------------ MODULE AgentUdp ------------------------------
(***************************************************************************)
(* The agent's UDP tunnels.  A client tunnel is the else-branch of         *)
(* socket_connect with handle_udp_writer; a server (bind, LLMNR, NBTNS,    *)
(* MDNS: the bind types differ in their socket options only) is a          *)
(* UDPConnHandler with its run and writer tasks.                           *)
(*                                                                         *)
(* In in_queue 0 is what connection_lost and error_received put there.     *)
(***************************************************************************)
EXTENDS UdpLink

CONSTANTS
    MaxPeer,    \* bound on the datagrams that arrive at a socket
    MaxError    \* bound on the errors a socket reports

ASSUME UdpBounds == {MaxPeer, MaxError} \subseteq Nat

VARIABLES
    kind,           \* token -> what CONNECT asked for: "none", "client", "server"
    conn,           \* token -> socket_connect: "none", "opening", "reading", "done"
    transport,      \* token -> the endpoint: "none", "open", "closing", "closed"
    handler,        \* token -> run: "none", "created", "running", "done", "killed"
    writer,         \* token -> the writer task is alive
    disconnected,   \* token -> disconnected_evt
    in_queue,       \* token -> what the endpoint received
    server_queues,  \* token -> what waits for the writer task
    registered,     \* the tokens in server_queues
    arrived,        \* token -> number of datagrams that arrived at the socket
    errors,         \* token -> number of errors the socket reported
    written         \* token -> datagrams given to sendto

agentVars == <<kind, conn, transport, handler, writer, disconnected,
               in_queue, server_queues, registered, arrived, errors, written>>
connVars == <<kind, conn, registered>>
socketVars == <<arrived, errors, written>>

AgentTypeOK ==
    /\ kind \in [Tokens -> {"none", "client", "server"}]
    /\ conn \in [Tokens -> {"none", "opening", "reading", "done"}]
    /\ transport \in [Tokens -> {"none", "open", "closing", "closed"}]
    /\ handler \in [Tokens -> {"none", "created", "running", "done", "killed"}]
    /\ {writer, disconnected} \subseteq [Tokens -> BOOLEAN]
    /\ {in_queue, server_queues, written} \subseteq [Tokens -> Seq(Nat)]
    /\ registered \subseteq Tokens
    /\ {arrived, errors} \subseteq [Tokens -> Nat]

AgentInit ==
    LET All(v) == [t \in Tokens |-> v] IN
    /\ kind = All("none") /\ conn = All("none")
    /\ transport = All("none") /\ handler = All("none")
    /\ writer = All(FALSE) /\ disconnected = All(FALSE)
    /\ in_queue = All(<<>>) /\ server_queues = All(<<>>) /\ registered = {}
    /\ arrived = All(0) /\ errors = All(0) /\ written = All(<<>>)

-----------------------------------------------------------------------------
(* process_incoming.                                                        *)

Receive(type) ==
    /\ c2a # <<>> /\ Head(c2a).type = type
    /\ c2a' = Tail(c2a)
    /\ UNCHANGED wsUp

DispatchConnect ==
    /\ Receive("CONNECT")
    /\ LET t == Head(c2a).token IN
       /\ kind' = [kind EXCEPT ![t] = Head(c2a).kind]
       /\ conn' = [conn EXCEPT ![t] = "opening"]
    /\ UNCHANGED <<a2c, transport, handler, writer, disconnected,
                   in_queue, server_queues, registered, socketVars>>

\* A datagram for a token that was never registered is an error; the entry of
\* a tunnel that is over stays, and nobody reads its queue.
DispatchDatagram ==
    /\ Receive("SDSRV")
    /\ LET t == Head(c2a).token IN
       IF t \in registered
       THEN /\ server_queues' = [server_queues EXCEPT ![t] = Append(@, Head(c2a).chunk)]
            /\ UNCHANGED a2c
       ELSE /\ AgentSend(Cmd("ERR", t))
            /\ UNCHANGED server_queues
    /\ UNCHANGED <<connVars, transport, handler, writer, disconnected,
                   in_queue, socketVars>>

\* OK ends a server; of a client tunnel the agent knows nothing that it ends.
DispatchOk ==
    /\ Receive("OK")
    /\ kind[Head(c2a).token] = "client"
    /\ UNCHANGED <<a2c, agentVars>>

-----------------------------------------------------------------------------
(* UDPConnHandler.terminate: once; closes the endpoint and cancels both     *)
(* tasks, whose only remaining step is to end.  The watchdog is left out:   *)
(* it waits for an event that nothing else sets.                            *)

\* Mutant of TerminateHandler: the endpoint is left to its tasks.
TerminateHandlerNoClose(t) ==
    /\ disconnected' = [disconnected EXCEPT ![t] = TRUE]
    /\ writer' = [writer EXCEPT ![t] = FALSE]
    /\ UNCHANGED transport

TerminateHandler(t) ==
    IF disconnected[t]
    THEN UNCHANGED <<disconnected, transport, writer>>
    ELSE /\ disconnected' = [disconnected EXCEPT ![t] = TRUE]
         /\ transport' = [transport EXCEPT ![t] = "closing"]
         /\ writer' = [writer EXCEPT ![t] = FALSE]

\* create_datagram_endpoint of a server is over: its task is created, its
\* queue registered, CONTINUE sent.
Bound(t) ==
    /\ kind[t] = "server" /\ conn[t] = "opening"
    /\ conn' = [conn EXCEPT ![t] = "done"]
    /\ transport' = [transport EXCEPT ![t] = "open"]
    /\ handler' = [handler EXCEPT ![t] = "created"]
    /\ registered' = registered \cup {t}
    /\ AgentSend(Cmd("CONTINUE", t))
    /\ UNCHANGED <<c2a, wsUp, kind, writer, disconnected, in_queue,
                   server_queues, socketVars>>

\* The same for a client tunnel: if CONTINUE cannot be sent the task ends, and
\* the endpoint and the writer stay.
Connected(t) ==
    /\ kind[t] = "client" /\ conn[t] = "opening"
    /\ conn' = [conn EXCEPT ![t] = IF wsUp THEN "reading" ELSE "done"]
    /\ transport' = [transport EXCEPT ![t] = "open"]
    /\ writer' = [writer EXCEPT ![t] = TRUE]
    /\ registered' = registered \cup {t}
    /\ AgentSend(Cmd("CONTINUE", t))
    /\ UNCHANGED <<c2a, wsUp, kind, handler, disconnected, in_queue,
                   server_queues, socketVars>>

\* No such address.  A client tunnel only prints the exception: its inner
\* handler hides it from the one that sends ERR.
OpenFailed(t) ==
    /\ conn[t] = "opening"
    /\ conn' = [conn EXCEPT ![t] = "done"]
    /\ IF kind[t] = "server" THEN AgentSend(Cmd("ERR", t)) ELSE UNCHANGED a2c
    /\ UNCHANGED <<c2a, wsUp, kind, transport, handler, writer,
                   disconnected, in_queue, server_queues, registered, socketVars>>

-----------------------------------------------------------------------------
(* A server's tasks.                                                        *)

RunStart(t) ==
    /\ handler[t] = "created"
    /\ handler' = [handler EXCEPT ![t] = "running"]
    /\ writer' = [writer EXCEPT ![t] = TRUE]
    /\ UNCHANGED <<linkVars, connVars, transport, disconnected, in_queue,
                   server_queues, socketVars>>

\* The next item of in_queue: a datagram is sent on; the end of the endpoint,
\* an error of the endpoint or a WebSocket that is closed ends the server.
RunNext(t) ==
    /\ handler[t] = "running" /\ in_queue[t] # <<>>
    /\ in_queue' = [in_queue EXCEPT ![t] = Tail(@)]
    /\ IF Head(in_queue[t]) # 0 /\ wsUp
       THEN /\ AgentSend(Datagram(t, Head(in_queue[t])))
            /\ UNCHANGED <<handler, transport, disconnected, writer>>
       ELSE /\ handler' = [handler EXCEPT ![t] = "done"]
            /\ TerminateHandler(t)
            /\ UNCHANGED a2c
    /\ UNCHANGED <<c2a, wsUp, connVars, server_queues, socketVars>>

\* Mutant of WriterNext: the item stays in the queue.
WriterNextPeek(t) ==
    /\ kind[t] = "server" /\ writer[t] /\ server_queues[t] # <<>>
    /\ IF Head(server_queues[t]) # 0
       THEN /\ Len(written[t]) < 4
            /\ written' = [written EXCEPT ![t] = Append(@, Head(server_queues[t]))]
            /\ UNCHANGED <<disconnected, transport, writer>>
       ELSE TerminateHandler(t) /\ UNCHANGED written
    /\ UNCHANGED <<linkVars, connVars, handler, in_queue, server_queues, arrived, errors>>

\* The writer task: the empty datagram ends the server.
WriterNext(t) ==
    /\ kind[t] = "server" /\ writer[t] /\ server_queues[t] # <<>>
    /\ server_queues' = [server_queues EXCEPT ![t] = Tail(@)]
    /\ IF Head(server_queues[t]) # 0
       THEN /\ written' = [written EXCEPT ![t] = Append(@, Head(server_queues[t]))]
            /\ UNCHANGED <<disconnected, transport, writer>>
       ELSE TerminateHandler(t) /\ UNCHANGED written
    /\ UNCHANGED <<linkVars, connVars, handler, in_queue, arrived, errors>>

-----------------------------------------------------------------------------
(* A client tunnel's tasks.                                                 *)

\* Mutant of ReadNext: an error of the endpoint ends the task.
ReadNextRaises(t) ==
    /\ conn[t] = "reading" /\ in_queue[t] # <<>>
    /\ in_queue' = [in_queue EXCEPT ![t] = Tail(@)]
    /\ IF Head(in_queue[t]) # 0
       THEN AgentSend(Datagram(t, Head(in_queue[t]))) /\ UNCHANGED conn
       ELSE conn' = [conn EXCEPT ![t] = "done"] /\ UNCHANGED a2c
    /\ UNCHANGED <<c2a, wsUp, kind, transport, handler, writer, disconnected,
                   server_queues, registered, socketVars>>

\* The next item: a datagram is sent on, an error is passed over, the end of
\* the endpoint has no address and raises.  disconnected_evt is looked at
\* after each item only.
ReadNext(t) ==
    /\ conn[t] = "reading" /\ in_queue[t] # <<>>
    /\ in_queue' = [in_queue EXCEPT ![t] = Tail(@)]
    /\ IF Head(in_queue[t]) # 0 THEN AgentSend(Datagram(t, Head(in_queue[t])))
                                ELSE UNCHANGED a2c
    /\ conn' = [conn EXCEPT ![t] =
                   IF disconnected[t] \/ (Head(in_queue[t]) # 0 /\ ~wsUp) THEN "done" ELSE @]
    /\ transport' = [transport EXCEPT ![t] =
                   IF disconnected[t] /\ (Head(in_queue[t]) = 0 \/ wsUp) THEN "closing" ELSE @]
    /\ UNCHANGED <<c2a, wsUp, kind, handler, writer, disconnected,
                   server_queues, registered, socketVars>>

\* handle_udp_writer: sendto refuses an address that is not the tunnel's.
ClientWriterNext(t) ==
    /\ kind[t] = "client" /\ writer[t] /\ server_queues[t] # <<>>
    /\ server_queues' = [server_queues EXCEPT ![t] = Tail(@)]
    /\ \/ /\ written' = [written EXCEPT ![t] = Append(@, Head(server_queues[t]))]
          /\ UNCHANGED <<writer, disconnected>>
       \/ /\ writer' = [writer EXCEPT ![t] = FALSE]
          /\ disconnected' = [disconnected EXCEPT ![t] = TRUE]
          /\ UNCHANGED written
    /\ UNCHANGED <<linkVars, connVars, transport, handler, in_queue,
                   arrived, errors>>

-----------------------------------------------------------------------------
(* The endpoint.                                                            *)

\* The callback that close() schedules.
ConnectionLost(t) ==
    /\ transport[t] = "closing"
    /\ transport' = [transport EXCEPT ![t] = "closed"]
    /\ in_queue' = [in_queue EXCEPT ![t] = Append(@, 0)]
    /\ UNCHANGED <<linkVars, connVars, handler, writer, disconnected,
                   server_queues, socketVars>>

DatagramReceived(t) ==
    /\ transport[t] = "open" /\ arrived[t] < MaxPeer
    /\ arrived' = [arrived EXCEPT ![t] = @ + 1]
    /\ in_queue' = [in_queue EXCEPT ![t] = Append(@, arrived'[t])]
    /\ UNCHANGED <<linkVars, connVars, transport, handler, writer,
                   disconnected, server_queues, errors, written>>

ErrorReceived(t) ==
    /\ transport[t] = "open" /\ errors[t] < MaxError
    /\ errors' = [errors EXCEPT ![t] = @ + 1]
    /\ in_queue' = [in_queue EXCEPT ![t] = Append(@, 0)]
    /\ UNCHANGED <<linkVars, connVars, transport, handler, writer,
                   disconnected, server_queues, arrived, written>>

\* WSNETAgent.terminate cancels every socket_connect and every run.  A run
\* that had not started never does; the endpoint and the writer of a client
\* tunnel are nobody's.
Terminate ==
    LET live == {t \in Tokens : handler[t] = "running" /\ ~disconnected[t]} IN
    /\ ~wsUp /\ c2a = <<>>
    /\ \E t \in Tokens : conn[t] \in {"opening", "reading"}
                         \/ handler[t] \in {"created", "running"}
    /\ conn' = [t \in Tokens |-> IF conn[t] = "none" THEN "none" ELSE "done"]
    /\ handler' = [t \in Tokens |-> CASE handler[t] = "created" -> "killed"
                                      [] handler[t] = "running" -> "done"
                                      [] OTHER -> handler[t]]
    /\ disconnected' = [t \in Tokens |-> disconnected[t] \/ t \in live]
    /\ transport' = [t \in Tokens |-> IF t \in live THEN "closing" ELSE transport[t]]
    /\ writer' = [t \in Tokens |-> writer[t] /\ t \notin live]
    /\ UNCHANGED <<linkVars, kind, registered, in_queue, server_queues, socketVars>>

Dispatch == DispatchConnect \/ DispatchDatagram \/ DispatchOk

ConnTask(t) == Bound(t) \/ Connected(t) \/ OpenFailed(t) \/ ReadNext(t)

RunTask(t) == RunStart(t) \/ RunNext(t)

WriterTask(t) == WriterNext(t) \/ ClientWriterNext(t)

Environment(t) == DatagramReceived(t) \/ ErrorReceived(t)

AgentNext ==
    \/ Dispatch \/ Terminate
    \/ \E t \in Tokens : \/ ConnTask(t) \/ RunTask(t) \/ WriterTask(t)
                         \/ ConnectionLost(t) \/ Environment(t)
=============================================================================
