---------------------------- MODULE MCTcpServer -----------------------------
(* Model values for TLC, and a bound: one server with one connection, or    *)
(* with two that carry no data and are closed by the server's end only,     *)
(* over a WebSocket that holds.  One connection carries two chunks in one   *)
(* direction, or one in each over a WebSocket that holds.                   *)
EXTENDS TcpServer

CONSTANTS s, c1, c2

ServerTokens == {s, c1, c2}

OneConnection == {s, c1}

FewChunks ==
    \/ sent'[c1] = 0 \/ appSent'[c1] = 0
    \/ sent'[c1] + appSent'[c1] = 2 /\ wsUp'

OneOrTwo ==
    \/ run'[c2] = "none" /\ peer'[c2] = "open" /\ FewChunks
    \/ /\ wsUp' /\ run'[c1] # "none"
       /\ \A c \in Conns : sent'[c] = 0 /\ appSent'[c] = 0
       /\ peer'[c1] = "open" /\ wclosed' = {}

BoundedSpec == Init /\ [][Next /\ OneOrTwo]_vars /\ Fairness
=============================================================================
