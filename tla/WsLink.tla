------------------------------- MODULE WsLink -------------------------------
(***************************************************************************)
(* The WebSocket between the browser and the agent, as the TCP tunnels use *)
(* it: two FIFO channels of commands.  A command is its type, its token    *)
(* (the 16 random bytes that name a tunnel) and, for socket data, the      *)
(* chunk it carries.  A chunk is represented by its position in the stream *)
(* it belongs to, so that a lost, repeated or reordered chunk is visible.  *)
(***************************************************************************)
EXTENDS Naturals, Sequences

CONSTANT Tokens

VARIABLES
    c2a,    \* commands on their way from the browser to the agent
    a2c,    \* commands on their way from the agent to the browser
    wsUp    \* the WebSocket is open

linkVars == <<c2a, a2c, wsUp>>

CMDType == {"CONNECT", "CONTINUE", "SD", "OK", "ERR"}

CMD == [type : CMDType, token : Tokens, chunk : Nat]

Cmd(type, t) == [type |-> type, token |-> t, chunk |-> 0]

SocketData(t, n) == [type |-> "SD", token |-> t, chunk |-> n]

\* A command for token t of one of the given types waits in channel ch.
InFlight(ch, types, t) ==
    \E i \in DOMAIN ch : ch[i].type \in types /\ ch[i].token = t

LinkTypeOK ==
    /\ c2a \in Seq(CMD)
    /\ a2c \in Seq(CMD)
    /\ wsUp \in BOOLEAN

LinkInit ==
    /\ c2a = <<>>
    /\ a2c = <<>>
    /\ wsUp = TRUE

\* transport.send: the command is on the wire when the call suspends; on a
\* closed WebSocket the call raises and nothing is sent.
AgentSend(m) == a2c' = IF wsUp THEN Append(a2c, m) ELSE a2c

\* sendCmd and sendSocketData report a failure in a result that their callers
\* never look at: on a closed WebSocket the command is silently dropped.
BrowserSend(m) == c2a' = IF wsUp THEN Append(c2a, m) ELSE c2a

\* The connection breaks: each side has received some prefix of what the
\* other one sent.
WsLost ==
    /\ wsUp
    /\ wsUp' = FALSE
    /\ \E i \in 0..Len(c2a) : c2a' = SubSeq(c2a, 1, i)
    /\ \E j \in 0..Len(a2c) : a2c' = SubSeq(a2c, 1, j)
=============================================================================
