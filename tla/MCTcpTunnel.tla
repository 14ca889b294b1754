---------------------------- MODULE MCTcpTunnel -----------------------------
(* Model values for TLC, and a bound: three chunks on a tunnel, in both     *)
(* directions together.                                                     *)
EXTENDS TcpTunnel

CONSTANT t1

OneToken == {t1}

ThreeChunks == sent'[t1] + appSent'[t1] <= 3

BoundedSpec == Init /\ [][Next /\ ThreeChunks]_vars /\ Fairness
=============================================================================
