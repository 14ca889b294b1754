--------------------------- MODULE BrowserTunnel ----------------------------
(***************************************************************************)
(* The browser's half of a TCP client tunnel: the WebSocket interface      *)
(* shared by all tunnels (WSNETWSInterface) and one WSNetworkTCP object    *)
(* per token.  The application that owns the object puts data in its out_q *)
(* and reads its in_q; it is external.  onData is called by the browser's  *)
(* event loop, one message at a time, in the order of arrival.             *)
(***************************************************************************)
EXTENDS WsLink

CONSTANT MaxApp         \* bound: chunks the application sends on a tunnel

ASSUME MaxAppAssumption == MaxApp \in Nat

VARIABLES
    ifaceUp,            \* WSNETWSInterface.terminate has not been called
    dispatch_table,     \* the tokens that have a callback
    client,             \* the WSNetworkTCP object: where run() is
    established,        \* connection_established_evt is set
    last_error,         \* last_error is set
    in_q,               \* everything put in in_q; EndItem is (b'', error)
    out_q,              \* out_q; EndItem is None
    appSent,            \* number of chunks the application has put in out_q
    out_task,           \* the __handle_out task
    okTasks             \* pending sendCmd(WSNOK(token)) tasks of onData

browserVars == <<ifaceUp, dispatch_table, client, established, last_error,
                 in_q, out_q, appSent, out_task, okTasks>>

EndItem == 0

BrowserTypeOK ==
    /\ ifaceUp \in BOOLEAN
    /\ dispatch_table \in SUBSET Tokens
    /\ client \in [Tokens -> {"idle", "connecting", "open", "closed"}]
    /\ established \in [Tokens -> BOOLEAN]
    /\ last_error \in [Tokens -> BOOLEAN]
    /\ in_q \in [Tokens -> Seq(Nat)]
    /\ out_q \in [Tokens -> Seq(Nat)]
    /\ appSent \in [Tokens -> Nat]
    /\ out_task \in [Tokens -> {"none", "running", "done"}]
    /\ okTasks \in [Tokens -> Nat]

BrowserInit ==
    /\ ifaceUp = TRUE
    /\ dispatch_table = {}
    /\ client = [t \in Tokens |-> "idle"]
    /\ established = [t \in Tokens |-> FALSE]
    /\ last_error = [t \in Tokens |-> FALSE]
    /\ in_q = [t \in Tokens |-> <<>>]
    /\ out_q = [t \in Tokens |-> <<>>]
    /\ appSent = [t \in Tokens |-> 0]
    /\ out_task = [t \in Tokens |-> "none"]
    /\ okTasks = [t \in Tokens |-> 0]

-----------------------------------------------------------------------------
(* WSNetworkTCP.run and terminate.                                          *)

\* registerConnection draws a fresh token, stores the callback, then sends
\* CONNECT; a failure to send is not noticed.
Run(t) ==
    /\ client[t] = "idle"
    /\ client' = [client EXCEPT ![t] = "connecting"]
    /\ dispatch_table' = dispatch_table \cup {t}
    /\ BrowserSend(Cmd("CONNECT", t))
    /\ UNCHANGED <<a2c, wsUp, ifaceUp, established, last_error, in_q, out_q,
                   appSent, out_task, okTasks>>

\* terminate: the out task is cancelled and the token forgotten; nothing is
\* sent to the agent.
TerminateClient(t) ==
    /\ client' = [client EXCEPT ![t] = "closed"]
    /\ out_task' = [out_task EXCEPT ![t] = IF @ = "running" THEN "done" ELSE @]
    /\ dispatch_table' = dispatch_table \ {t}
    /\ established' = [established EXCEPT ![t] = FALSE]
    /\ last_error' = [last_error EXCEPT ![t] = FALSE]
    /\ UNCHANGED <<linkVars, ifaceUp, in_q, out_q, appSent, okTasks>>

\* Mutant of Established: last_error is not looked at.
EstablishedAnyway(t) ==
    /\ client[t] = "connecting" /\ established[t]
    /\ client' = [client EXCEPT ![t] = "open"]
    /\ out_task' = [out_task EXCEPT ![t] = "running"]
    /\ UNCHANGED <<linkVars, ifaceUp, dispatch_table, established, last_error,
                   in_q, out_q, appSent, okTasks>>

\* Mutant of Established: the task that empties out_q is not created.
EstablishedNoOutTask(t) ==
    /\ client[t] = "connecting" /\ established[t] /\ ~last_error[t]
    /\ client' = [client EXCEPT ![t] = "open"]
    /\ UNCHANGED <<linkVars, ifaceUp, dispatch_table, established, last_error,
                   in_q, out_q, appSent, out_task, okTasks>>

\* The wait for connection_established_evt ends without an error.
Established(t) ==
    /\ client[t] = "connecting" /\ established[t] /\ ~last_error[t]
    /\ client' = [client EXCEPT ![t] = "open"]
    /\ out_task' = [out_task EXCEPT ![t] = "running"]
    /\ UNCHANGED <<linkVars, ifaceUp, dispatch_table, established, last_error,
                   in_q, out_q, appSent, okTasks>>

\* It ends with an error that arrived meanwhile.
EstablishFailed(t) ==
    /\ client[t] = "connecting" /\ established[t] /\ last_error[t]
    /\ TerminateClient(t)

\* The 10 seconds of wait_for are over; an answer may already have arrived.
Timeout(t) ==
    /\ client[t] = "connecting"
    /\ TerminateClient(t)

-----------------------------------------------------------------------------
(* WSNETWSInterface.onData and the onDataReceived it calls.                 *)

OnDataFor(t) ==
    /\ ifaceUp
    /\ a2c # <<>> /\ Head(a2c).token = t
    /\ a2c' = Tail(a2c)

\* OK or ERR: the tunnel is over.
OnEnd(t) ==
    /\ OnDataFor(t) /\ t \in dispatch_table
    /\ Head(a2c).type \in {"OK", "ERR"}
    /\ last_error' = [last_error EXCEPT ![t] = TRUE]
    /\ in_q' = [in_q EXCEPT ![t] = Append(@, EndItem)]
    /\ established' = [established EXCEPT ![t] = TRUE]
    /\ UNCHANGED <<c2a, wsUp, ifaceUp, dispatch_table, client, out_q, appSent,
                   out_task, okTasks>>

OnContinue(t) ==
    /\ OnDataFor(t) /\ t \in dispatch_table
    /\ Head(a2c).type = "CONTINUE"
    /\ established' = [established EXCEPT ![t] = TRUE]
    /\ UNCHANGED <<c2a, wsUp, ifaceUp, dispatch_table, client, last_error, in_q,
                   out_q, appSent, out_task, okTasks>>

OnSocketData(t) ==
    /\ OnDataFor(t) /\ t \in dispatch_table
    /\ Head(a2c).type = "SD"
    /\ in_q' = [in_q EXCEPT ![t] = Append(@, Head(a2c).chunk)]
    /\ UNCHANGED <<c2a, wsUp, ifaceUp, dispatch_table, client, established,
                   last_error, out_q, appSent, out_task, okTasks>>

\* Mutant of OnUnknown: the message is ignored.
OnUnknownIgnored(t) ==
    /\ OnDataFor(t) /\ t \notin dispatch_table
    /\ UNCHANGED <<c2a, wsUp, browserVars>>

\* No callback for the token: a task is created that sends OK to the agent.
OnUnknown(t) ==
    /\ OnDataFor(t) /\ t \notin dispatch_table
    /\ okTasks' = [okTasks EXCEPT ![t] = @ + 1]
    /\ UNCHANGED <<c2a, wsUp, ifaceUp, dispatch_table, client, established,
                   last_error, in_q, out_q, appSent, out_task>>

\* Mutant of SendOkTask: it runs without having been created.
SendOkTaskUnasked(t) ==
    /\ okTasks' = [okTasks EXCEPT ![t] = @ - 1]
    /\ BrowserSend(Cmd("OK", t))
    /\ UNCHANGED <<a2c, wsUp, ifaceUp, dispatch_table, client, established,
                   last_error, in_q, out_q, appSent, out_task>>

SendOkTask(t) ==
    /\ okTasks[t] > 0
    /\ okTasks' = [okTasks EXCEPT ![t] = @ - 1]
    /\ BrowserSend(Cmd("OK", t))
    /\ UNCHANGED <<a2c, wsUp, ifaceUp, dispatch_table, client, established,
                   last_error, in_q, out_q, appSent, out_task>>

\* WSNETWSInterface.terminate: the callbacks are destroyed, the WebSocket is
\* closed, and every registered tunnel gets a made-up OK.
IfaceTerminate ==
    /\ ifaceUp
    /\ ifaceUp' = FALSE
    /\ wsUp' = FALSE
    /\ a2c' = <<>>
    /\ last_error' = [t \in Tokens |-> last_error[t] \/ t \in dispatch_table]
    /\ established' = [t \in Tokens |-> established[t] \/ t \in dispatch_table]
    /\ in_q' = [t \in Tokens |-> IF t \in dispatch_table
                                 THEN Append(in_q[t], EndItem) ELSE in_q[t]]
    /\ UNCHANGED <<c2a, dispatch_table, client, out_q, appSent, out_task, okTasks>>

-----------------------------------------------------------------------------
(* __handle_out, and the application that feeds it.                         *)

OutSend(t) ==
    /\ out_task[t] = "running"
    /\ out_q[t] # <<>> /\ Head(out_q[t]) # EndItem
    /\ out_q' = [out_q EXCEPT ![t] = Tail(@)]
    /\ BrowserSend(SocketData(t, Head(out_q[t])))
    /\ UNCHANGED <<a2c, wsUp, ifaceUp, dispatch_table, client, established,
                   last_error, in_q, appSent, out_task, okTasks>>

\* None ends the task; nothing is sent to the agent.
OutEnd(t) ==
    /\ out_task[t] = "running"
    /\ out_q[t] # <<>> /\ Head(out_q[t]) = EndItem
    /\ out_q' = [out_q EXCEPT ![t] = Tail(@)]
    /\ out_task' = [out_task EXCEPT ![t] = "done"]
    /\ UNCHANGED <<linkVars, ifaceUp, dispatch_table, client, established,
                   last_error, in_q, appSent, okTasks>>

AppSend(t) ==
    /\ client[t] = "open" /\ appSent[t] < MaxApp
    /\ appSent' = [appSent EXCEPT ![t] = @ + 1]
    /\ out_q' = [out_q EXCEPT ![t] = Append(@, appSent[t] + 1)]
    /\ UNCHANGED <<linkVars, ifaceUp, dispatch_table, client, established,
                   last_error, in_q, out_task, okTasks>>

AppEnd(t) ==
    /\ client[t] = "open" /\ out_task[t] = "running"
    /\ \A i \in DOMAIN out_q[t] : out_q[t][i] # EndItem
    /\ out_q' = [out_q EXCEPT ![t] = Append(@, EndItem)]
    /\ UNCHANGED <<linkVars, ifaceUp, dispatch_table, client, established,
                   last_error, in_q, appSent, out_task, okTasks>>

AppTerminate(t) ==
    /\ client[t] = "open"
    /\ TerminateClient(t)

-----------------------------------------------------------------------------
OnData(t) == OnEnd(t) \/ OnContinue(t) \/ OnSocketData(t) \/ OnUnknown(t)

RunTask(t) == Established(t) \/ EstablishFailed(t)

OutTask(t) == OutSend(t) \/ OutEnd(t)

App(t) == Run(t) \/ AppSend(t) \/ AppEnd(t) \/ AppTerminate(t)

BrowserNext ==
    \/ IfaceTerminate
    \/ \E t \in Tokens : OnData(t) \/ SendOkTask(t) \/ RunTask(t) \/ Timeout(t)
                            \/ OutTask(t) \/ App(t)
=============================================================================
