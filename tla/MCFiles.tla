------------------------------ MODULE MCFiles -------------------------------
(* Model values for TLC, and a bound: one fault in a behaviour, be it a     *)
(* full disk, the loss of the WebSocket or a wait that times out.           *)
EXTENDS Files

CONSTANTS t1, t2

TwoTokens == {t1, t2}

OneFault == timeouts' + (IF full' THEN 1 ELSE 0) + (IF wsUp' THEN 0 ELSE 1) <= 1

BoundedSpec == Init /\ [][Next /\ OneFault]_vars /\ Fairness
=============================================================================
