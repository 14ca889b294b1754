------------------------------- MODULE Router -------------------------------
(***************************************************************************)
(* The router: a WSNETRouter, to which agents connect, and an OPServer, to *)
(* which operators connect, joined by two queues of messages and one of    *)
(* signals.  All tasks run on one event loop.                              *)
(*                                                                         *)
(* An agent or an operator is one connection; who comes back is another.   *)
(* Agents, operators and WebSockets are external: a message is received in *)
(* the step that handles it, and sent once send() was called on an open    *)
(* WebSocket.  Only two sends are followed by anything that depends on     *)
(* what happened meanwhile: those in a loop over a dictionary.             *)
(*                                                                         *)
(* An operator uses one token per agent, and tokens are random, so a pair  *)
(* of them is a stream; a message is its position in its stream.           *)
(***************************************************************************)
EXTENDS Naturals, Sequences, FiniteSets, SequencesExt

CONSTANTS
    Agents,             \* connections of agents
    Ops,                \* connections of operators
    ReverseOps,         \* those of Ops that the router itself opened
    MinSlots,           \* slots of the smallest dictionary: 8 in CPython, fewer in
                        \* a run, for which a table is then full earlier
    MaxCmd,             \* bound: commands of an operator to an agent
    MaxReply            \* bound: replies of an agent to an operator

ASSUME RouterAssumption == /\ ReverseOps \subseteq Ops
                           /\ MinSlots \in Nat \ {0, 1}
                           /\ MaxCmd \in Nat /\ MaxReply \in Nat

VARIABLES
    agentWs,            \* an agent's WebSocket: "new", "up" or "closed"
    announced,          \* the agents that have sent their description
    clients,            \* WSNETRouter.clients
    signals,            \* signal_q_in
    agents,             \* OPServer.agents
    operators,          \* OPServer.operators
    notify,             \* where __handle_signal_in_queue is
    opWs,               \* an operator's WebSocket
    handler,            \* the operator's handle_client
    listing,            \* where its answer to LISTAGENTS is
    told,               \* the agents whose description an operator was sent
    data_lookop,        \* that table
    out_q,              \* messages on their way to agents
    in_q,               \* messages on their way to operators
    cmds,               \* number of commands of a stream
    atAgent,            \* those sent on to the agent
    replies,            \* number of replies of a stream
    atOp                \* those sent on to the operator

agentVars  == <<agentWs, announced, clients>>
opVars     == <<operators, opWs, handler, listing>>
streamVars == <<data_lookop, out_q, in_q, cmds, atAgent, replies, atOp>>
vars       == <<agentWs, announced, clients, signals, agents, operators, notify,
                opWs, handler, listing, told, data_lookop, out_q, in_q, cmds,
                atAgent, replies, atOp>>

Streams == Ops \X Agents

Msg(s, n) == [stream |-> s, chunk |-> n]

Messages == [stream : Streams, chunk : Nat \ {0}]

Signals == [msg : {"AGENTIN", "AGENTOUT"}, agent : Agents]

-----------------------------------------------------------------------------
(* A dictionary of CPython: its entries in the order in which they were     *)
(* made, the keys still in use, and how many there were when its table was  *)
(* made.  A key comes once.  rebuilds is auxiliary, for ListingComplete.    *)

Dict(K) == [entries : Seq(K), keys : SUBSET K, base : Nat, rebuilds : Nat]

EmptyDict == [entries |-> <<>>, keys |-> {}, base |-> 0, rebuilds |-> 0]

\* The slots of a table made for n keys: the least power of two from 3n on.
Slots(n) == Min({s \in {MinSlots * 2^i : i \in 0..n} : s >= 3 * n})

\* The entries that fit in it, those of deleted keys included.
Room(n) == (2 * Slots(n)) \div 3

\* The entries whose keys are still in use.
Compacted(d) ==
    LET upTo[n \in 0..Len(d.entries)] ==
            IF n = 0 THEN <<>>
            ELSE IF d.entries[n] \in d.keys THEN Append(upTo[n - 1], d.entries[n])
            ELSE upTo[n - 1]
    IN  upTo[Len(d.entries)]

\* The table d with room for one more: one that is full is rebuilt.
Roomy(d) ==
    IF Len(d.entries) < Room(d.base) THEN d
    ELSE [entries |-> Compacted(d), keys |-> d.keys, base |-> Cardinality(d.keys),
          rebuilds |-> d.rebuilds + 1]

Insert(d, k) ==
    LET r == Roomy(d) IN
    [entries |-> Append(r.entries, k), keys |-> d.keys \cup {k},
     base |-> r.base, rebuilds |-> r.rebuilds]

Delete(d, k) == [d EXCEPT !.keys = @ \ {k}]

\* A loop over a dictionary: its position, which a rebuilt table does not change,
\* the size and the rebuilds at the beginning, and the keys it has yielded.
Iterator(K) == [pos : Nat, size : Nat, rebuilds : Nat, seen : SUBSET K]

Start(d) == [pos |-> 0, size |-> Cardinality(d.keys), rebuilds |-> d.rebuilds,
             seen |-> {}]

Remaining(d, it) == {i \in (it.pos + 1)..Len(d.entries) : d.entries[i] \in d.keys}

\* RuntimeError: the size changed, or there is more than there was.
Broken(d, it) ==
    \/ Cardinality(d.keys) # it.size
    \/ Remaining(d, it) # {} /\ Cardinality(it.seen) = it.size

Exhausted(d, it) == ~Broken(d, it) /\ Remaining(d, it) = {}

\* The loop yields entry i.
Yields(d, it, i) ==
    /\ ~Broken(d, it)
    /\ i \in Remaining(d, it) /\ \A j \in Remaining(d, it) : i <= j

Advance(d, it, i) == [it EXCEPT !.pos = i, !.seen = @ \cup {d.entries[i]}]

-----------------------------------------------------------------------------
\* notify.at is "idle", "send" while the send to an operator is not over, or
\* "raise" when its WebSocket was closed before: that send raises, at once or
\* after it was suspended.
TypeOK ==
    /\ agentWs \in [Agents -> {"new", "up", "closed"}]
    /\ announced \in SUBSET Agents
    /\ clients \in SUBSET Agents
    /\ signals \in Seq(Signals)
    /\ agents \in Dict(Agents)
    /\ operators \in Dict(Ops)
    /\ notify \in {[at |-> "idle"]}
                    \cup [at : {"send", "raise"}, agent : Agents, it : Iterator(Ops), op : Ops]
    /\ opWs \in [Ops -> {"new", "up", "closed"}]
    /\ handler \in [Ops -> {"none", "recv", "listing", "done"}]
    /\ listing \in [Ops -> Iterator(Agents)]
    /\ told \in [Ops -> SUBSET Agents]
    /\ data_lookop \in SUBSET Streams
    /\ out_q \in Seq(Messages)
    /\ in_q \in Seq(Messages)
    /\ cmds \in [Streams -> Nat]
    /\ atAgent \in [Streams -> Seq(Nat)]
    /\ replies \in [Streams -> Nat]
    /\ atOp \in [Streams -> Seq(Nat)]

Idle == [at |-> "idle"]

Init ==
    /\ agentWs = [a \in Agents |-> "new"]
    /\ announced = {}
    /\ clients = {}
    /\ signals = <<>>
    /\ agents = EmptyDict
    /\ operators = EmptyDict
    /\ notify = Idle
    /\ opWs = [o \in Ops |-> "new"]
    /\ handler = [o \in Ops |-> "none"]
    /\ listing = [o \in Ops |-> Start(EmptyDict)]
    /\ told = [o \in Ops |-> {}]
    /\ data_lookop = {}
    /\ out_q = <<>>
    /\ in_q = <<>>
    /\ cmds = [s \in Streams |-> 0]
    /\ atAgent = [s \in Streams |-> <<>>]
    /\ replies = [s \in Streams |-> 0]
    /\ atOp = [s \in Streams |-> <<>>]

-----------------------------------------------------------------------------
(* WSNETRouter.                                                             *)

AgentConnect(a) ==
    /\ agentWs[a] = "new"
    /\ agentWs' = [agentWs EXCEPT ![a] = "up"]
    /\ clients' = clients \cup {a}
    /\ UNCHANGED <<announced, signals, agents, notify, opVars, told, streamVars>>

\* A message with the zero token describes the agent.
AgentInfo(a) ==
    /\ agentWs[a] = "up" /\ a \notin announced
    /\ announced' = announced \cup {a}
    /\ signals' = Append(signals, [msg |-> "AGENTIN", agent |-> a])
    /\ UNCHANGED <<agentWs, clients, agents, notify, opVars, told, streamVars>>

\* Any other message goes to in_q.  An agent answers what it has received.
AgentReply(s) ==
    /\ agentWs[s[2]] = "up" /\ atAgent[s] # <<>> /\ replies[s] < MaxReply
    /\ replies' = [replies EXCEPT ![s] = @ + 1]
    /\ in_q' = Append(in_q, Msg(s, replies[s] + 1))
    /\ UNCHANGED <<agentVars, signals, agents, notify, opVars, told, data_lookop,
                   out_q, cmds, atAgent, atOp>>

AgentClose(a) ==
    /\ agentWs[a] = "up"
    /\ agentWs' = [agentWs EXCEPT ![a] = "closed"]
    /\ UNCHANGED <<announced, clients, signals, agents, notify, opVars, told,
                   streamVars>>

\* Mutant of AgentLeave: OPServer is not told.
AgentLeaveSilent(a) ==
    /\ agentWs[a] = "closed" /\ a \in clients
    /\ clients' = clients \ {a}
    /\ UNCHANGED <<agentWs, announced, signals, agents, notify, opVars, told,
                   streamVars>>

\* The finally of handle_client.
AgentLeave(a) ==
    /\ agentWs[a] = "closed" /\ a \in clients
    /\ clients' = clients \ {a}
    /\ signals' = Append(signals, [msg |-> "AGENTOUT", agent |-> a])
    /\ UNCHANGED <<agentWs, announced, agents, notify, opVars, told, streamVars>>

\* Mutant of ToAgent: the newest message is taken first.
ToAgentNewest ==
    LET m == Last(out_q) IN
    /\ out_q # <<>>
    /\ out_q' = Front(out_q)
    /\ atAgent' = IF m.stream[2] \in clients /\ agentWs[m.stream[2]] = "up"
                  THEN [atAgent EXCEPT ![m.stream] = Append(@, m.chunk)]
                  ELSE atAgent
    /\ UNCHANGED <<agentVars, signals, agents, notify, opVars, told, data_lookop,
                   in_q, cmds, replies, atOp>>

\* __handle_in_queue.  It finds the agent's WebSocket, or the agent has left
\* since the operator's command was accepted: the command is dropped.
ToAgent ==
    LET m == Head(out_q) IN
    /\ out_q # <<>>
    /\ out_q' = Tail(out_q)
    /\ atAgent' = IF m.stream[2] \in clients /\ agentWs[m.stream[2]] = "up"
                  THEN [atAgent EXCEPT ![m.stream] = Append(@, m.chunk)]
                  ELSE atAgent
    /\ UNCHANGED <<agentVars, signals, agents, notify, opVars, told, data_lookop,
                   in_q, cmds, replies, atOp>>

-----------------------------------------------------------------------------
(* OPServer.__handle_signal_in_queue.                                       *)

\* The loop over the operators d begins or goes on, until a send suspends.
NotifyFrom(d, a, it) ==
    \/ /\ Exhausted(d, it) \/ Broken(d, it)
       /\ notify' = Idle
       /\ UNCHANGED told
    \/ \E i \in DOMAIN d.entries :
          LET o == d.entries[i] IN
          /\ Yields(d, it, i)
          /\ notify' = [at |-> IF opWs[o] = "up" THEN "send" ELSE "raise",
                        agent |-> a, op |-> o, it |-> Advance(d, it, i)]
          /\ told' = IF opWs[o] = "up" THEN [told EXCEPT ![o] = @ \cup {a}] ELSE told

SignalIn(a) ==
    /\ notify.at = "idle"
    /\ signals # <<>> /\ Head(signals) = [msg |-> "AGENTIN", agent |-> a]
    /\ signals' = Tail(signals)
    /\ agents' = Insert(agents, a)
    /\ NotifyFrom(operators, a, Start(operators))
    /\ UNCHANGED <<agentVars, opVars, streamVars>>

\* Mutant of SignalOut: the entries of the agent in data_lookop are dropped, too.
SignalOutForgets(a) ==
    /\ notify.at = "idle"
    /\ signals # <<>> /\ Head(signals) = [msg |-> "AGENTOUT", agent |-> a]
    /\ signals' = Tail(signals)
    /\ agents' = Delete(agents, a)
    /\ data_lookop' = {s \in data_lookop : s[2] # a}
    /\ UNCHANGED <<agentVars, notify, opVars, told, out_q, in_q, cmds, atAgent,
                   replies, atOp>>

SignalOut(a) ==
    /\ notify.at = "idle"
    /\ signals # <<>> /\ Head(signals) = [msg |-> "AGENTOUT", agent |-> a]
    /\ signals' = Tail(signals)
    /\ agents' = Delete(agents, a)
    /\ UNCHANGED <<agentVars, notify, opVars, told, streamVars>>

NotifySent ==
    /\ notify.at = "send"
    /\ NotifyFrom(operators, notify.agent, notify.it)
    /\ UNCHANGED <<agentVars, signals, agents, opVars, streamVars>>

\* Mutant of NotifyFailed: a send that takes long is given up, too.
NotifyFailedSlow ==
    /\ notify.at \in {"raise", "send"}
    /\ operators' = Delete(operators, notify.op)
    /\ notify' = Idle
    /\ UNCHANGED <<agentVars, signals, agents, opWs, handler, listing, told,
                   streamVars>>

\* Mutant of NotifyFailed: nobody catches the error, the task is over.
NotifyFailedDies ==
    /\ notify.at \in {"raise", "send"} /\ opWs[notify.op] = "closed"
    /\ notify' = [notify EXCEPT !.at = "raise"]
    /\ UNCHANGED <<agentVars, signals, agents, operators, opWs, handler, listing,
                   told, streamVars>>

\* The send raised: the operator is deleted and the loop goes on, which finds
\* the size changed unless another operator has connected.  An operator that is
\* gone already is a KeyError, and the rest is not told.
NotifyFailed ==
    LET others == Delete(operators, notify.op) IN
    /\ \/ notify.at = "raise"
       \/ notify.at = "send" /\ opWs[notify.op] = "closed"
    /\ operators' = others
    /\ IF notify.op \in operators.keys THEN NotifyFrom(others, notify.agent, notify.it)
                                       ELSE notify' = Idle /\ UNCHANGED told
    /\ UNCHANGED <<agentVars, signals, agents, opWs, handler, listing, streamVars>>

Signal == NotifySent \/ NotifyFailed \/ \E a \in Agents : SignalIn(a) \/ SignalOut(a)

-----------------------------------------------------------------------------
(* OPServer.__handle_in_queue: an entry of data_lookop is only deleted when *)
(* a send to its operator fails.                                            *)

\* Mutant of ToOperator: a message waits while nobody serves its operator.
ToOperatorServed ==
    LET m == Head(in_q) IN
    /\ in_q # <<>> /\ handler[m.stream[1]] \in {"recv", "listing"}
    /\ in_q' = Tail(in_q)
    /\ atOp' = IF opWs[m.stream[1]] = "up"
               THEN [atOp EXCEPT ![m.stream] = Append(@, m.chunk)] ELSE atOp
    /\ UNCHANGED <<agentVars, signals, agents, notify, opVars, told, data_lookop,
                   out_q, cmds, atAgent, replies>>

ToOperator ==
    LET m == Head(in_q)
        up == opWs[m.stream[1]] = "up"
        found == m.stream \in data_lookop
    IN
    /\ in_q # <<>>
    /\ in_q' = Tail(in_q)
    /\ atOp' = IF found /\ up THEN [atOp EXCEPT ![m.stream] = Append(@, m.chunk)]
                              ELSE atOp
    /\ data_lookop' = IF up THEN data_lookop ELSE data_lookop \ {m.stream}
    /\ UNCHANGED <<agentVars, signals, agents, notify, opVars, told, out_q, cmds,
                   atAgent, replies>>

-----------------------------------------------------------------------------
(* OPServer.handle_client.                                                  *)

OpConnect(o) ==
    /\ opWs[o] = "new"
    /\ opWs' = [opWs EXCEPT ![o] = "up"]
    /\ operators' = Insert(operators, o)
    /\ handler' = [handler EXCEPT ![o] = "recv"]
    /\ UNCHANGED <<agentVars, signals, agents, notify, listing, told, streamVars>>

\* The end of handle_client.  The server closes the WebSocket; one that the
\* router opened stays open while __handle_reverse_operator sleeps.
End(o) ==
    /\ operators' = Delete(operators, o)
    /\ handler' = [handler EXCEPT ![o] = "done"]
    /\ opWs' = IF o \in ReverseOps THEN opWs ELSE [opWs EXCEPT ![o] = "closed"]
    /\ UNCHANGED <<listing, told>>

OpClose(o) ==
    /\ opWs[o] = "up"
    /\ opWs' = [opWs EXCEPT ![o] = "closed"]
    /\ UNCHANGED <<agentVars, signals, agents, operators, notify, handler, listing,
                   told, streamVars>>

OpLeave(o) ==
    /\ handler[o] = "recv" /\ opWs[o] = "closed"
    /\ End(o)
    /\ UNCHANGED <<agentVars, signals, agents, notify, streamVars>>

\* A command for an agent that is known.
OpCommand(s) ==
    /\ handler[s[1]] = "recv" /\ s[2] \in told[s[1]] /\ cmds[s] < MaxCmd
    /\ s[2] \in agents.keys
    /\ cmds' = [cmds EXCEPT ![s] = @ + 1]
    /\ data_lookop' = data_lookop \cup {s}
    /\ out_q' = Append(out_q, Msg(s, cmds[s] + 1))
    /\ UNCHANGED <<agentVars, signals, agents, notify, opVars, told, in_q, atAgent,
                   replies, atOp>>

\* A command for one that is not known any more is answered with an error.
OpCommandRefused(s) ==
    /\ handler[s[1]] = "recv" /\ s[2] \in told[s[1]] /\ cmds[s] < MaxCmd
    /\ s[2] \notin agents.keys
    /\ cmds' = [cmds EXCEPT ![s] = @ + 1]
    /\ \/ opWs[s[1]] = "up" /\ UNCHANGED <<opVars, told>>
       \/ opWs[s[1]] = "closed" /\ End(s[1])
    /\ UNCHANGED <<agentVars, signals, agents, notify, data_lookop, out_q, in_q,
                   atAgent, replies, atOp>>

\* Mutant of ListFrom: it goes over a copy of the keys.
ListFromCopy(o, it) ==
    \/ opWs[o] = "closed" /\ End(o)
    \/ \E i \in Remaining(agents, it) :
          /\ Cardinality(it.seen) < it.size /\ opWs[o] = "up"
          /\ handler' = [handler EXCEPT ![o] = "listing"]
          /\ listing' = [listing EXCEPT ![o] = Advance(agents, it, i)]
          /\ told' = [told EXCEPT ![o] = @ \cup {agents.entries[i]}]
          /\ UNCHANGED <<operators, opWs>>
    \/ /\ Cardinality(it.seen) = it.size /\ opWs[o] = "up"
       /\ handler' = [handler EXCEPT ![o] = "recv"]
       /\ UNCHANGED <<operators, opWs, listing, told>>

\* The loop that answers LISTAGENTS, until a send suspends.  An error in it
\* ends handle_client; after the last agent OK is sent.
ListFrom(o, it) ==
    \/ Broken(agents, it) /\ End(o)
    \/ opWs[o] = "closed" /\ End(o)
    \/ \E i \in DOMAIN agents.entries :
          /\ Yields(agents, it, i) /\ opWs[o] = "up"
          /\ handler' = [handler EXCEPT ![o] = "listing"]
          /\ listing' = [listing EXCEPT ![o] = Advance(agents, it, i)]
          /\ told' = [told EXCEPT ![o] = @ \cup {agents.entries[i]}]
          /\ UNCHANGED <<operators, opWs>>
    \/ /\ Exhausted(agents, it) /\ opWs[o] = "up"
       /\ handler' = [handler EXCEPT ![o] = "recv"]
       /\ UNCHANGED <<operators, opWs, listing, told>>

OpList(o) ==
    /\ handler[o] = "recv"
    /\ ListFrom(o, Start(agents))
    /\ UNCHANGED <<agentVars, signals, agents, notify, streamVars>>

ListSent(o) ==
    /\ handler[o] = "listing"
    /\ ListFrom(o, listing[o])
    /\ UNCHANGED <<agentVars, signals, agents, notify, streamVars>>

-----------------------------------------------------------------------------
AgentNext == \E a \in Agents : AgentConnect(a) \/ AgentInfo(a) \/ AgentClose(a)
                                    \/ AgentLeave(a)

OpNext == \E o \in Ops : OpConnect(o) \/ OpClose(o) \/ OpLeave(o) \/ OpList(o)
                            \/ ListSent(o)

StreamNext == \E s \in Streams : AgentReply(s) \/ OpCommand(s) \/ OpCommandRefused(s)

Next == AgentNext \/ OpNext \/ StreamNext \/ Signal \/ ToAgent \/ ToOperator

Spec == Init /\ [][Next]_vars

\* The event loop runs what is ready, and a send is over some time.
Fairness ==
    /\ WF_vars(Signal) /\ WF_vars(ToAgent) /\ WF_vars(ToOperator)
    /\ \A a \in Agents : WF_vars(AgentLeave(a))
    /\ \A o \in Ops : WF_vars(OpLeave(o)) /\ WF_vars(ListSent(o))

FairSpec == Spec /\ Fairness

-----------------------------------------------------------------------------
\* The two halves of the router agree: with the signals that are still queued
\* OPServer.agents becomes the set of connected agents that have described
\* themselves, however often the loop over the operators is given up.
AgentsMirror ==
    LET queued(m, a) == Contains(signals, [msg |-> m, agent |-> a]) IN
    \A a \in Agents :
        a \in announced /\ a \in clients
            <=> (a \in agents.keys \/ queued("AGENTIN", a)) /\ ~queued("AGENTOUT", a)

\* Who is connected and served stays in the table of those who are notified,
\* whatever happens to other operators during a notification.
OperatorKept ==
    \A o \in Ops :
        handler[o] \in {"recv", "listing"} /\ opWs[o] = "up" => o \in operators.keys

\* What an agent sent is not lost in the router because the agent has left:
\* its replies find the operator as long as that is connected.
ReplyRoutable ==
    \A i \in DOMAIN in_q :
        in_q[i].stream \in data_lookop \/ opWs[in_q[i].stream[1]] = "closed"

\* The OK that ends an answer to LISTAGENTS comes only after a description of
\* every agent there is, although agents come and go during the answer: unless
\* the table was full when one came and was rebuilt.  The position of the loop is
\* then too far behind, and it may end without an error.
ListingComplete ==
    [][\A o \in Ops :
         (/\ handler[o] = "listing" /\ handler'[o] = "recv"
          /\ listing[o].rebuilds = agents.rebuilds)
           => agents.keys \subseteq listing[o].seen]_vars

\* Rebuilt or not, no agent is described twice in one answer.
ListedOnce ==
    [][\A o \in Ops :
         handler[o] = "listing" /\ handler'[o] = "listing" /\ listing'[o].pos # listing[o].pos
           => listing'[o].seen # listing[o].seen]_vars

\* An answer to LISTAGENTS that ends with OK is true, as far as the dictionary
\* over which it goes allows it.
ListingTrue == ListingComplete /\ ListedOnce

\* A command that was refused or dropped is the last of its stream: an agent
\* never sees a later one without it.
Commands == INSTANCE OrderedStream
    WITH accepted <- cmds, delivered <- atAgent

\* The same for replies.
Replies == INSTANCE OrderedStream
    WITH accepted <- replies, delivered <- atOp

\* Commands and replies of every pair of operator and agent are ordered
\* streams, although the router looks each message up twice.
StreamsInOrder == Commands!Spec /\ Replies!Spec

\* An agent that has left is struck off the list, also when operators come and
\* go meanwhile.
DepartureNoticed ==
    \A a \in Agents : a \in announced /\ agentWs[a] = "closed" ~> a \notin agents.keys

\* What agents replied to an operator reaches it, unless that has left.
ReplyArrives ==
    \A o \in Ops :
        (\E a \in Agents : Len(atOp[<<o, a>>]) < replies[<<o, a>>])
            ~> \/ \A a \in Agents : Len(atOp[<<o, a>>]) = replies[<<o, a>>]
               \/ opWs[o] = "closed"
=============================================================================
