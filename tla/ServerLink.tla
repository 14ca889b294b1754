----------------------------- MODULE ServerLink -----------------------------
(***************************************************************************)
(* The commands of a TCP server on the WebSocket.  Server is the token of  *)
(* the server, the other tokens are those of its connections.  The data of *)
(* a connection travels in SDSRV commands; an empty one announces the      *)
(* connection, ends it, or says that it does not exist.                    *)
(***************************************************************************)
EXTENDS WsLink

CONSTANT Server

ASSUME ServerAssumption == Server \in Tokens

Conns == Tokens \ {Server}

End == 0

SDSRV(c, n) == [type |-> "SDSRV", token |-> c, chunk |-> n]

Message == [type : {"CONNECT", "CONTINUE", "OK", "ERR"}, token : {Server}, chunk : {0}]
              \cup [type : {"SDSRV"}, token : Conns, chunk : Nat]

ServerLinkTypeOK ==
    /\ c2a \in Seq(Message)
    /\ a2c \in Seq(Message)
    /\ wsUp \in BOOLEAN
=============================================================================
