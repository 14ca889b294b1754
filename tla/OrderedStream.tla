--------------------------- MODULE OrderedStream ----------------------------
(***************************************************************************)
(* What one direction of a set of TCP tunnels promises: the n-th chunk the *)
(* sender hands over is delivered at most once, and only after the n-1     *)
(* chunks before it.  Nothing promises that it is delivered at all: the    *)
(* tunnel may break.  The receiver may at any time be told of an end.      *)
(***************************************************************************)
EXTENDS Naturals, Sequences, Functions

CONSTANT Streams

VARIABLES
    accepted,       \* number of chunks the sender has handed over
    delivered       \* what the receiver has been given

End == 0

Init ==
    /\ accepted = [s \in Streams |-> 0]
    /\ delivered = [s \in Streams |-> <<>>]

Accept(s) ==
    /\ accepted' = [accepted EXCEPT ![s] = @ + 1]
    /\ UNCHANGED delivered

Deliver(s) ==
    /\ \E n \in 1..accepted[s] :
          /\ n \notin Range(delivered[s])
          /\ \A m \in 1..(n - 1) : m \in Range(delivered[s])
          /\ delivered' = [delivered EXCEPT ![s] = Append(@, n)]
    /\ UNCHANGED accepted

SignalEnd(S) ==
    /\ delivered' = [s \in Streams |-> IF s \in S THEN Append(delivered[s], End)
                                                  ELSE delivered[s]]
    /\ UNCHANGED accepted

Next ==
    \/ \E s \in Streams : Accept(s) \/ Deliver(s)
    \/ \E S \in SUBSET Streams : SignalEnd(S)

Spec == Init /\ [][Next]_<<accepted, delivered>>
=============================================================================
