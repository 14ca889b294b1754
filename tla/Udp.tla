-------------------------------- MODULE Udp ---------------------------------
(***************************************************************************)
(* UDP tunnels from end to end: applications in the browser, WSNetworkUDP  *)
(* and WSNetworkUDPServer, the WebSocket, the agent, its UDP endpoints.    *)
(***************************************************************************)
EXTENDS AgentUdp, BrowserUdp

vars == <<linkVars, agentVars, browserVars>>

Init == LinkInit /\ AgentInit /\ BrowserInit

LinkFailure == WsLost /\ UNCHANGED <<agentVars, browserVars>>

Next ==
    \/ AgentNext /\ UNCHANGED browserVars
    \/ BrowserNext /\ UNCHANGED agentVars
    \/ LinkFailure

Spec == Init /\ [][Next]_vars

\* Both event loops run what is ready.  Nothing is assumed of applications,
\* of the network or of the WebSocket.
Fairness ==
    /\ WF_vars(Dispatch /\ UNCHANGED browserVars)
    /\ WF_vars(Terminate /\ UNCHANGED browserVars)
    /\ \A t \in Tokens :
          /\ WF_vars(ConnTask(t) /\ UNCHANGED browserVars)
          /\ WF_vars(RunTask(t) /\ UNCHANGED browserVars)
          /\ WF_vars(WriterTask(t) /\ UNCHANGED browserVars)
          /\ WF_vars(ConnectionLost(t) /\ UNCHANGED browserVars)
          /\ WF_vars(InTask(t) /\ UNCHANGED agentVars)
          /\ WF_vars(OutNext(t) /\ UNCHANGED agentVars)

FairSpec == Spec /\ Fairness

TypeOK == wsUp \in BOOLEAN /\ AgentTypeOK /\ BrowserTypeOK

-----------------------------------------------------------------------------
(* Safety.                                                                  *)

\* Datagrams reach the application in the order in which they arrived at the
\* agent's socket, none of them twice, and those before an end or a loss of
\* the WebSocket without a gap.
Inbound == INSTANCE OrderedStream
    WITH Streams <- Tokens, accepted <- arrived, delivered <- in_q

\* And what the application sends reaches sendto in that order.
Outbound == INSTANCE OrderedStream
    WITH Streams <- Tokens, accepted <- appSent, delivered <- written

\* Both directions of every UDP tunnel are ordered streams.
DatagramsInOrder == Inbound!Spec /\ Outbound!Spec

-----------------------------------------------------------------------------
(* Liveness.                                                                *)

Released(t) == transport[t] = "closed" /\ handler[t] = "done"

\* The application's close of a server is one empty datagram behind whatever
\* the server still has to send.  It ends all of the server: the writer task
\* closes the endpoint, and that ends the run task, even when the end meets an
\* error of the endpoint.  The loss of the WebSocket ends every server, except
\* one whose task was cancelled before its first step.
ServerReleased ==
    \A t \in Tokens :
        /\ role[t] = "server" /\ socket[t] = "closed" ~> Released(t) \/ ~wsUp
        /\ kind[t] = "server" /\ ~wsUp
              ~> transport[t] \in {"none", "closed"} \/ handler[t] = "killed"

\* An error of a client tunnel's endpoint (a port that is unreachable) does
\* not end the tunnel: a later datagram still reaches the application, unless
\* one side ended the tunnel or the WebSocket broke.
ErrorPassedOver ==
    \A t \in Tokens : \A n \in 1..MaxPeer :
        role[t] = "client" /\ arrived[t] >= n
            ~> \/ \E i \in DOMAIN in_q[t] : in_q[t][i] = n
               \/ socket[t] \in {"closed", "void", "failed"} \/ disconnected[t] \/ ~wsUp
=============================================================================
