------------------------------ MODULE MCRouter ------------------------------
(* Model values for TLC, and a bound.  Either two agents and two operators  *)
(* come and go (Crowd), or three agents come and go while one operator      *)
(* lists them (Listings), or one agent and the operator behind a reverse    *)
(* connection exchange commands and replies (Exchange).  Agents are alike:  *)
(* they come in the order of their names.  With MinSlots = 4 a table has    *)
(* room for two entries, and is rebuilt for the third.                      *)
EXTENDS Router

CONSTANTS a1, a2, a3, o1, o2

InTurn ==
    /\ agentWs'[a2] # "new" => agentWs'[a1] # "new"
    /\ agentWs'[a3] # "new" => agentWs'[a2] # "new"

Silent == \A s \in Streams : cmds'[s] = 0 /\ replies'[s] = 0

Crowd ==
    /\ Silent /\ agentWs'[a3] = "new"
    /\ \A o \in Ops : listing'[o].seen = {}

Listings == Silent /\ opWs'[o2] = "new"

Exchange == agentWs'[a2] = "new" /\ opWs'[o1] = "new"

BoundedSpec ==
    Init /\ [][Next /\ InTurn /\ (Crowd \/ Listings \/ Exchange)]_vars /\ Fairness
=============================================================================
