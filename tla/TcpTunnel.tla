----------------------------- MODULE TcpTunnel ------------------------------
(***************************************************************************)
(* TCP client tunnels from end to end: applications in the browser, the    *)
(* browser's WebSocket interface, the WebSocket, the agent, the TCP peers. *)
(* Browser and agent run concurrently and share nothing but the WebSocket, *)
(* which may break at any time.                                            *)
(***************************************************************************)
EXTENDS AgentTunnel, BrowserTunnel

vars == <<linkVars, agentVars, browserVars>>

Init == LinkInit /\ AgentInit /\ BrowserInit

LinkFailure == WsLost /\ UNCHANGED <<agentVars, browserVars>>

Next ==
    \/ AgentNext /\ UNCHANGED browserVars
    \/ BrowserNext /\ UNCHANGED agentVars
    \/ LinkFailure

Spec == Init /\ [][Next]_vars

\* Both event loops run what is ready: callbacks, and tasks whose await is
\* over.  A drain is over some time, that is, the peer reads what it is sent.
\* Nothing is assumed of applications and peers otherwise, nor of the 10 s
\* timer of run(), of WSNETWSInterface.terminate or of the WebSocket.
Fairness ==
    /\ WF_vars(Dispatch /\ UNCHANGED browserVars)
    /\ WF_vars(Terminate /\ UNCHANGED browserVars)
    /\ \A t \in Tokens :
          /\ WF_vars(ConnTask(t) /\ UNCHANGED browserVars)
          /\ WF_vars(HandlerTask(t) /\ UNCHANGED browserVars)
          /\ WF_vars(OnData(t) /\ UNCHANGED agentVars)
          /\ WF_vars(SendOkTask(t) /\ UNCHANGED agentVars)
          /\ WF_vars(RunTask(t) /\ UNCHANGED agentVars)
          /\ WF_vars(OutTask(t) /\ UNCHANGED agentVars)

FairSpec == Spec /\ Fairness

TypeOK == LinkTypeOK /\ AgentTypeOK /\ BrowserTypeOK

-----------------------------------------------------------------------------
(* Safety.                                                                  *)

\* An open TCP socket always has a __socket_data_in_handle task that will
\* close it, registered in __process_queues so that the browser's OK reaches
\* it.  The one exception: the WebSocket was already closed when
\* open_connection returned and out_task was cancelled before its first step;
\* its finally never runs and the socket and the queue stay.
SocketOwned ==
    \A t \in Tokens :
        sock[t] = "open" => /\ t \in process_queues
                            /\ \/ handler[t] \in HandlerAlive
                               \/ handler[t] = "killed" /\ ~wsUp

\* Whatever the order in which the two sides run, socket data that is on its
\* way to the agent meets the queue of its tunnel, or a tunnel that is over:
\* "Unexpected token for socket data" never answers data that came too early.
\* The agent relies on registering the queue before it sends CONTINUE.
DataNotEarly ==
    \A t \in Tokens :
        InFlight(c2a, {"SD"}, t) => t \in process_queues \/ handler[t] = "done"

\* The agent's OK is the last word of its read loop: behind it on the wire
\* there is no socket data and no second OK, and nothing is added later.
OkIsLast ==
    \A i \in DOMAIN a2c : a2c[i].type = "OK" =>
        /\ conn[a2c[i].token] \in {"closing", "done"}
        /\ \A j \in (i + 1)..Len(a2c) :
              a2c[j].token = a2c[i].token => a2c[j].type = "ERR"

\* run() returns True only for a tunnel whose TCP connection was made, also
\* when an error or the end of the tunnel has overtaken its wake-up.
OpenMeansConnected ==
    \A t \in Tokens : client[t] = "open" => sock[t] # "none"

\* Every chunk from the peer reaches in_q at most once and after all chunks
\* before it, whatever is lost when the WebSocket breaks or either side stops.
Inbound == INSTANCE OrderedStream
    WITH Streams <- Tokens, accepted <- sent, delivered <- in_q

\* The same for what the application puts in out_q and the agent writes to
\* the TCP socket.
Outbound == INSTANCE OrderedStream
    WITH Streams <- Tokens, accepted <- appSent, delivered <- written

\* Both directions of every tunnel are ordered streams, in the face of every
\* end, error and loss.
StreamsInOrder == Inbound!Spec /\ Outbound!Spec

-----------------------------------------------------------------------------
(* Liveness.                                                                *)

Ended(t) == \E i \in DOMAIN in_q[t] : in_q[t][i] = EndItem

\* When the peer ends its side of an open tunnel, the reader of in_q is told,
\* unless the application left or the WebSocket broke first.
EofReachesApp ==
    \A t \in Tokens :
        peer[t] # "open" /\ client[t] = "open"
            ~> Ended(t) \/ client[t] = "closed" \/ ~wsUp

\* Once the WebSocket is gone the agent ends all its tasks and closes every
\* socket, except one whose handler was killed before its first step.
AgentReleases ==
    \A t \in Tokens :
        ~wsUp ~> /\ conn[t] \in {"none", "done"}
                 /\ sock[t] # "open" \/ handler[t] = "killed"

\* terminate() tells the agent nothing.  The agent's half of a tunnel that the
\* application left behind is still taken down as soon as the peer sends
\* something: the interface answers the unknown token with OK.
AbandonedTornDown ==
    \A t \in Tokens :
        client[t] = "closed" /\ conn[t] = "reading" /\ taken[t] < sent[t]
            ~> sock[t] = "closed"

\* What the application puts in out_q is written to the socket unless one
\* side ended the tunnel or the WebSocket broke.
OutboundProgress ==
    \A t \in Tokens : \A n \in 1..MaxApp :
        client[t] = "open" /\ appSent[t] >= n
            ~> \/ \E i \in DOMAIN written[t] : written[t][i] = n
               \/ client[t] = "closed" \/ out_task[t] = "done"
               \/ handler[t] = "done" \/ ~wsUp
=============================================================================
