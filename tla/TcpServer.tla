----------------------------- MODULE TcpServer ------------------------------
(***************************************************************************)
(* A TCP server from end to end: the application in the browser, the       *)
(* WebSocket, the agent that listens, and the peers that connect to it.    *)
(***************************************************************************)
EXTENDS AgentServer, BrowserServer

vars == <<linkVars, agentVars, browserVars>>

Init == LinkInit /\ AgentInit /\ BrowserInit

LinkFailure == WsLost /\ UNCHANGED <<agentVars, browserVars>>

Next ==
    \/ AgentNext /\ UNCHANGED browserVars
    \/ BrowserNext /\ UNCHANGED agentVars
    \/ LinkFailure

Spec == Init /\ [][Next]_vars

\* Both event loops run what is ready, and a drain is over some time.  Each has
\* only so much to run within the bounds that one condition for all tasks of the
\* agent is enough.  Nothing is assumed of peers, application and WebSocket.
Fairness ==
    /\ WF_vars(/\ Dispatch \/ Bind \/ \E c \in Conns : RunTask(c)
               /\ UNCHANGED browserVars)
    /\ WF_vars(HandleInTask /\ UNCHANGED agentVars)

FairSpec == Spec /\ Fairness

TypeOK == ServerLinkTypeOK /\ AgentTypeOK /\ BrowserTypeOK

-----------------------------------------------------------------------------
(* Safety.                                                                  *)

\* An entry of server_tcp_connections always has someone who will remove it:
\* the task of the connection or a stop() in process_incoming.  The exceptions:
\* the empty message of stop() could not be sent, or run() raised before it
\* announced the connection, whose entry only the close of the server removes.
EntryOwned ==
    /\ \A c \in Conns :
          Contains(table, c) =>
              \/ run[c] \in {"reading", "finally", "stopping", "raised"}
              \/ disp.at \in {"stop", "closestop"} /\ disp.conn = c
              \/ ~wsUp
    /\ \A i, j \in DOMAIN table : table[i] = table[j] => i = j

\* The application is called once for a connection and only for one that was
\* accepted, although each connection ends with two empty messages and the
\* agent answers late data with more of them.
CalledOnce ==
    \A c \in Conns :
        /\ callbacks[c] <= 1
        /\ callbacks[c] = 1 => run[c] \notin {"none", "accepted"}

\* A connection does not end silently: when the agent closed its socket, an
\* empty message was put in the queue of the browser or is on its way there
\* behind the announcement, unless the WebSocket broke or the connection was
\* never announced because run() raised.
EndAnnounced ==
    \A c \in Conns : sock[c] = "closed" /\ wsUp /\ run[c] # "raised" =>
        \/ \E i \in DOMAIN in_q[c] : in_q[c][i] = End
        \/ \E i \in DOMAIN a2c : /\ a2c[i] = SDSRV(c, End)
                                 /\ \/ Contains(connections, c)
                                    \/ \E j \in 1..(i - 1) : a2c[j].token = c
        \/ binding = "failed"

\* Both directions of every connection are ordered streams: nothing is lost,
\* repeated or reordered before the end, although the connection's task and
\* process_incoming may both be stopping it.
Inbound == INSTANCE OrderedStream
    WITH Streams <- Conns, accepted <- sent, delivered <- in_q

Outbound == INSTANCE OrderedStream
    WITH Streams <- Conns, accepted <- appSent, delivered <- written

StreamsInOrder == Inbound!Spec /\ Outbound!Spec

\* A comment in process_incoming says of the loop that closes a server "this is
\* closing the server thus all connections will be closed".
AllConnectionsClosed ==
    server = "closed" => \A c \in Conns : run[c] # "none" => c \in evt

-----------------------------------------------------------------------------
(* Liveness.                                                                *)

\* A connection does not outlive either of its ends: the agent gives it up
\* when the peer left, also while process_incoming waits for another
\* connection, and when the application closed it, unless the WebSocket breaks.
\* A connection whose run() raised is given up by nobody.
ConnectionReleased ==
    \A c \in Conns :
        /\ peer[c] # "open" ~> \/ sock[c] = "closed" /\ run[c] = "done"
                               \/ run[c] = "raised"
        /\ c \in wclosed ~> sock[c] = "closed" \/ ~wsUp
=============================================================================
