----------------------------- MODULE BrowserUdp -----------------------------
(***************************************************************************)
(* The browser's UDP tunnels: WSNetworkUDP, with its in and out tasks, and *)
(* WSNetworkUDPServer, whose writer sends at once.  JavaScript delivers    *)
(* the messages of a token until deleteWebSocket and drops them afterwards.*)
(***************************************************************************)
EXTENDS UdpLink

CONSTANT MaxApp     \* bound on the datagrams the application sends

ASSUME MaxAppAssumption == MaxApp \in Nat

VARIABLES
    socket,     \* token -> the state of its tunnel
    role,       \* token -> the class: "none", "client", "server"
    appSent,    \* token -> number of datagrams the application sent
    outSent,    \* token -> number of those that left out_q
    in_q        \* token -> datagrams the application received, 0 for an end

browserVars == <<socket, role, appSent, outSent, in_q>>

\* answered: CONTINUE waits for run, which has not been woken; void: terminate
\* came before the wake-up, so that run reports a tunnel with no WebSocket.
SocketState ==
    {"new", "connecting", "answered", "void", "open", "closed", "failed"}

BrowserTypeOK ==
    /\ socket \in [Tokens -> SocketState]
    /\ role \in [Tokens -> {"none", "client", "server"}]
    /\ {appSent, outSent} \subseteq [Tokens -> Nat]
    /\ in_q \in [Tokens -> Seq(Nat)]

BrowserInit ==
    /\ socket = [t \in Tokens |-> "new"]
    /\ role = [t \in Tokens |-> "none"]
    /\ appSent = [t \in Tokens |-> 0] /\ outSent = [t \in Tokens |-> 0]
    /\ in_q = [t \in Tokens |-> <<>>]

Become(t, st) == socket' = [socket EXCEPT ![t] = st]

Give(t, item) == in_q' = [in_q EXCEPT ![t] = Append(@, item)]

-----------------------------------------------------------------------------
\* run: connect sends CONNECT and waits, without a timer, for the answer.
Run(t, k) ==
    /\ socket[t] = "new"
    /\ Become(t, "connecting")
    /\ role' = [role EXCEPT ![t] = k]
    /\ BrowserSend(Connect(t, k))
    /\ UNCHANGED <<a2c, wsUp, appSent, outSent, in_q>>

\* The next message for a token that JavaScript still delivers to.
Deliver(t) ==
    /\ a2c # <<>> /\ Head(a2c).token = t
    /\ a2c' = Tail(a2c)
    /\ UNCHANGED <<wsUp, role, appSent, outSent>>

\* The answer to CONNECT.  When run fails, a client's in_q gets None.
Answered(t) ==
    /\ Deliver(t)
    /\ socket[t] = "connecting"
    /\ Become(t, IF Head(a2c).type = "CONTINUE" THEN "answered" ELSE "failed")
    /\ IF Head(a2c).type # "CONTINUE" /\ role[t] = "client"
       THEN Give(t, 0) ELSE UNCHANGED in_q
    /\ UNCHANGED c2a

\* The next turn of the event loop: run starts __handle_in and returns.
Woken(t) ==
    /\ socket[t] = "answered"
    /\ Become(t, "open")
    /\ UNCHANGED <<linkVars, role, appSent, outSent, in_q>>

\* __handle_in: a datagram.  Without a WebSocket it still reads what JavaScript
\* had delivered before.
Received(t) ==
    /\ Deliver(t)
    /\ socket[t] \in {"open", "void"} /\ Head(a2c).type = "SDSRV"
    /\ Give(t, Head(a2c).chunk)
    /\ UNCHANGED <<c2a, socket>>

\* What terminate sends: a server's empty datagram, nothing for a client.
Farewell(t) ==
    IF role[t] = "server" THEN BrowserSend(Datagram(t, 0)) ELSE UNCHANGED c2a

\* __handle_in: OK or ERR ends the tunnel.
EndReceived(t) ==
    /\ Deliver(t)
    /\ Head(a2c).type \in {"OK", "ERR"}
    /\ \/ socket[t] = "open" /\ Become(t, "closed") /\ Farewell(t)
       \/ socket[t] = "void" /\ Become(t, "failed") /\ UNCHANGED c2a
    /\ Give(t, 0)

\* That was all: nothing reaches this tunnel any more.
VoidEnd(t) ==
    /\ socket[t] = "void"
    /\ Become(t, "failed")
    /\ UNCHANGED <<linkVars, role, appSent, outSent, in_q>>

Dropped(t) ==
    /\ Deliver(t)
    /\ socket[t] \in {"closed", "failed"}
    /\ UNCHANGED <<c2a, socket, in_q>>

-----------------------------------------------------------------------------
\* The application sends a datagram: a client's waits in out_q.
AppSend(t) ==
    /\ socket[t] = "open" /\ appSent[t] < MaxApp
    /\ appSent' = [appSent EXCEPT ![t] = @ + 1]
    /\ IF role[t] = "server"
       THEN /\ outSent' = [outSent EXCEPT ![t] = @ + 1]
            /\ BrowserSend(Datagram(t, appSent'[t]))
       ELSE UNCHANGED <<c2a, outSent>>
    /\ UNCHANGED <<a2c, wsUp, socket, role, in_q>>

\* __handle_out of a client.
OutNext(t) ==
    /\ socket[t] = "open" /\ outSent[t] < appSent[t]
    /\ outSent' = [outSent EXCEPT ![t] = @ + 1]
    /\ BrowserSend(Datagram(t, outSent'[t]))
    /\ UNCHANGED <<a2c, wsUp, socket, role, appSent, in_q>>

\* None or an empty datagram in a client's out_q: __handle_out sends OK, then
\* terminates.
OutEnd(t) ==
    /\ socket[t] = "open" /\ role[t] = "client" /\ outSent[t] = appSent[t]
    /\ Become(t, "closed")
    /\ BrowserSend(Cmd("OK", t))
    /\ UNCHANGED <<a2c, wsUp, role, appSent, outSent, in_q>>

\* terminate: a client's tasks are cancelled, and when __handle_out comes to
\* send its OK the WebSocket is None already.
AppTerminate(t) ==
    /\ socket[t] = "open"
    /\ Become(t, "closed")
    /\ Farewell(t)
    /\ UNCHANGED <<a2c, wsUp, role, appSent, outSent, in_q>>

\* terminate before the tunnel is open: there is no writer to say it with.  A
\* client's connect is woken with None, unless CONTINUE is before it in the queue.
AppAbandon(t) ==
    /\ \/ /\ socket[t] = "connecting" /\ Become(t, "failed")
          /\ IF role[t] = "client" THEN Give(t, 0) ELSE UNCHANGED in_q
       \/ socket[t] = "answered" /\ Become(t, "void") /\ UNCHANGED in_q
    /\ UNCHANGED <<linkVars, role, appSent, outSent>>

InTask(t) ==
    \/ Answered(t) \/ Woken(t) \/ Received(t) \/ EndReceived(t)
    \/ VoidEnd(t) \/ Dropped(t)

BrowserNext ==
    \E t \in Tokens :
        \/ \E k \in {"client", "server"} : Run(t, k)
        \/ InTask(t) \/ OutNext(t) \/ AppSend(t) \/ OutEnd(t) \/ AppTerminate(t) \/ AppAbandon(t)
=============================================================================
