--------------------------- MODULE BrowserServer ----------------------------
(***************************************************************************)
(* The browser's half of a TCP server: WSNetworkTCPServer, which binds and *)
(* then dispatches in its __handle_in task, WSNetworkServerTCPServer with  *)
(* its tables, and a WSNetworkServerTCPWriter and a queue per connection.  *)
(* The application is external: it is called once per connection with a    *)
(* reader and a writer.                                                    *)
(***************************************************************************)
EXTENDS ServerLink, SequencesExt

CONSTANT MaxApp     \* bound: chunks the application writes on a connection

ASSUME MaxAppAssumption == MaxApp \in Nat

VARIABLES
    binding,        \* WSNetworkTCPServer.run: "idle", "connecting", ...
    closed,         \* WSNetworkServerTCPServer.close has been called
    connections,    \* the keys of connections and of writers, in order
    callbacks,      \* how often handle_client_cb was called for a connection
    in_q,           \* everything put in the queue of a connection
    wclosed,        \* the connections whose writer the application closed
    appSent         \* number of chunks the application has written

browserVars == <<binding, closed, connections, callbacks, in_q, wclosed, appSent>>

BrowserTypeOK ==
    /\ binding \in {"idle", "connecting", "serving", "failed"}
    /\ closed \in BOOLEAN
    /\ connections \in Seq(Conns)
    /\ callbacks \in [Conns -> Nat]
    /\ in_q \in [Conns -> Seq(Nat)]
    /\ wclosed \in SUBSET Conns
    /\ appSent \in [Conns -> Nat]

BrowserInit ==
    /\ binding = "idle"
    /\ closed = FALSE
    /\ connections = <<>>
    /\ callbacks = [c \in Conns |-> 0]
    /\ in_q = [c \in Conns |-> <<>>]
    /\ wclosed = {}
    /\ appSent = [c \in Conns |-> 0]

-----------------------------------------------------------------------------
(* WSNetworkTCPServer.run and connect.                                      *)

SendConnect ==
    /\ binding = "idle"
    /\ binding' = "connecting"
    /\ BrowserSend(Cmd("CONNECT", Server))
    /\ UNCHANGED <<a2c, wsUp, closed, connections, callbacks, in_q, wclosed, appSent>>

\* The first message decides: anything but CONTINUE is a failure.
FirstReply ==
    /\ binding = "connecting"
    /\ a2c # <<>>
    /\ a2c' = Tail(a2c)
    /\ binding' = IF Head(a2c).type = "CONTINUE" THEN "serving" ELSE "failed"
    /\ UNCHANGED <<c2a, wsUp, closed, connections, callbacks, in_q, wclosed, appSent>>

-----------------------------------------------------------------------------
(* __handle_in and handle_new_msg.  The agent never sends OK or ERR for the *)
(* token of a server that it has continued.                                 *)

HandleIn(c) ==
    /\ binding = "serving"
    /\ a2c # <<>> /\ Head(a2c).type = "SDSRV" /\ Head(a2c).token = c
    /\ a2c' = Tail(a2c)

\* A connection token that is not in the table is a new connection, whatever
\* the message says; its data, if any, is the first in the queue.  The turn of
\* the event loop that writer.run() gives away is part of the step: until it is
\* over nothing but the message is gone.
NewConnection(c) ==
    LET n == Head(a2c).chunk IN
    /\ HandleIn(c) /\ ~Contains(connections, c)
    /\ connections' = Append(connections, c)
    /\ callbacks' = [callbacks EXCEPT ![c] = @ + 1]
    /\ in_q' = [in_q EXCEPT ![c] = IF n = End THEN @ ELSE Append(@, n)]
    /\ UNCHANGED <<c2a, wsUp, binding, closed, wclosed, appSent>>

\* Mutant of KnownConnection: an empty message removes it from the table.
KnownConnectionEnds(c) ==
    LET n == Head(a2c).chunk IN
    /\ HandleIn(c) /\ Contains(connections, c)
    /\ in_q' = [in_q EXCEPT ![c] = Append(@, n)]
    /\ connections' = IF n = End THEN Remove(connections, c) ELSE connections
    /\ UNCHANGED <<c2a, wsUp, binding, closed, callbacks, wclosed, appSent>>

KnownConnection(c) ==
    LET n == Head(a2c).chunk IN
    /\ HandleIn(c) /\ Contains(connections, c)
    /\ in_q' = [in_q EXCEPT ![c] = Append(@, n)]
    /\ UNCHANGED <<c2a, wsUp, binding, closed, connections, callbacks, wclosed,
                   appSent>>

-----------------------------------------------------------------------------
(* What the application calls.  Nothing looks at closed_event.              *)

Write(c) ==
    /\ Contains(connections, c) /\ c \notin wclosed
    /\ appSent[c] < MaxApp
    /\ appSent' = [appSent EXCEPT ![c] = @ + 1]
    /\ BrowserSend(SDSRV(c, appSent[c] + 1))
    /\ UNCHANGED <<a2c, wsUp, binding, closed, connections, callbacks, in_q, wclosed>>

CloseWriter(c) ==
    /\ Contains(connections, c) /\ c \notin wclosed
    /\ wclosed' = wclosed \cup {c}
    /\ BrowserSend(SDSRV(c, End))
    /\ UNCHANGED <<a2c, wsUp, binding, closed, connections, callbacks, in_q, appSent>>

\* WSNetworkServerTCPServer.close: an empty message for every connection there
\* ever was, an error in every queue, and OK for the server.
CloseServer ==
    LET ends == [i \in DOMAIN connections |-> SDSRV(connections[i], End)] IN
    /\ binding = "serving" /\ ~closed
    /\ closed' = TRUE
    /\ in_q' = [c \in Conns |-> IF Contains(connections, c)
                                THEN Append(in_q[c], End) ELSE in_q[c]]
    /\ c2a' = IF wsUp THEN Append(c2a \o ends, Cmd("OK", Server)) ELSE c2a
    /\ UNCHANGED <<a2c, wsUp, binding, connections, callbacks, wclosed, appSent>>

-----------------------------------------------------------------------------
HandleInTask == FirstReply \/ \E c \in Conns : NewConnection(c) \/ KnownConnection(c)

BrowserNext ==
    \/ SendConnect \/ HandleInTask \/ CloseServer
    \/ \E c \in Conns : Write(c) \/ CloseWriter(c)
=============================================================================
