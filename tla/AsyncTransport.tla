--------------------------- MODULE AsyncTransport ---------------------------
(***************************************************************************)
(* WSNETTransport and WSNETConnection without TLS: the asyncio transport   *)
(* that a StreamReader and a StreamWriter use over a TCP tunnel.           *)
(*                                                                         *)
(* All its tasks run on one event loop, which runs what is ready in the    *)
(* order in which it became ready.  That order matters here, so the loop   *)
(* is explicit: ready is its queue, cur the task that runs; a task runs    *)
(* until it suspends.  What comes from outside (a WebSocket message, a     *)
(* call of the application) happens between two turns, or, for a call from *)
(* data_received, while the reading task runs.                             *)
(*                                                                         *)
(* The agent (see AgentTunnel), the WebSocket and asyncio's streams are    *)
(* external.  A chunk is its position in its stream.                       *)
(***************************************************************************)
EXTENDS Naturals, Sequences, SequencesExt

CONSTANTS
    MaxPeer,            \* bound: chunks the agent sends
    MaxApp,             \* bound: chunks the application writes
    PauseIds            \* bound: names for pause_reading tasks, one for each
                        \* that exists at the same time

ASSUME BoundsAssumption == MaxPeer \in Nat /\ MaxApp \in Nat

\* A pause task is not one of the others, nor one of the marks for none of them.
ASSUME PausesAreNamed == PauseIds \cap {"in", "out", "close", "loop", "free"} = {}

VARIABLES
    ready,              \* the tasks the event loop will run next, in order
    cur,                \* the task that runs, "loop" when none does
    cancelled,          \* the tasks that will find CancelledError
    inTask,             \* where connection_handler_in is
    outTask,            \* where connection_handler_out is
    pauseTask,          \* where each pause_reading task is
    closeTask,          \* where the task that close() creates is
    lock,               \* the holder of read_lock
    waiters,            \* those who wait for it, in order
    read_resume,        \* that event
    disconnected_evt,   \* that event
    internal_in_q,      \* messages of the agent: chunks, then OkItem or ErrItem
    out_q,              \* what the application wrote; NoneItem is None
    paused,             \* the StreamReader has paused the transport
    arrived,            \* number of chunks that came from the agent
    remote,             \* the agent's end: "open", "ended" (OK or ERR sent), or
                        \* "gone" when the WebSocket was lost before that
    delivered,          \* chunks passed to data_received
    appSent,            \* number of chunks the application has written
    wire,               \* chunks sent to the agent
    okSent,             \* OK for the agent was handed to JavaScript
    lost                \* connection_lost was called

loopVars  == <<ready, cur, cancelled>>
taskVars  == <<inTask, outTask, pauseTask, closeTask>>
lockVars  == <<lock, waiters, read_resume>>
inVars    == <<internal_in_q, paused, arrived, remote, delivered>>
outVars   == <<out_q, appSent, wire, okSent>>
vars      == <<ready, cur, cancelled, inTask, outTask, pauseTask, closeTask, lock,
               waiters, read_resume, disconnected_evt, internal_in_q, out_q, paused,
               arrived, remote, delivered, appSent, wire, okSent, lost>>

NoneItem == 0
OkItem   == 0
Task     == {"in", "out", "close"} \cup PauseIds

TypeOK ==
    /\ ready \in Seq(Task)
    /\ cur \in Task \cup {"loop"}
    /\ cancelled \subseteq {"in", "out"}
    /\ inTask \in {"start", "lock", "get", "done"}
    /\ outTask \in {"start", "get", "done"}
    /\ pauseTask \in [PauseIds -> {"none", "start", "lock", "resume"}]
    /\ closeTask \in {"none", "start", "done"}
    /\ lock \in {"free", "in"} \cup PauseIds
    /\ waiters \in Seq({"in"} \cup PauseIds)
    /\ read_resume \in BOOLEAN
    /\ disconnected_evt \in BOOLEAN
    /\ internal_in_q \in Seq(Nat)
    /\ out_q \in Seq(Nat)
    /\ paused \in BOOLEAN
    /\ arrived \in Nat
    /\ remote \in {"open", "ended", "gone"}
    /\ delivered \in Seq(Nat)
    /\ appSent \in Nat
    /\ wire \in Seq(Nat)
    /\ okSent \in BOOLEAN
    /\ lost \in BOOLEAN

\* Right after connect(): CONTINUE has come, both tasks are created.
Init ==
    /\ ready = <<"in", "out">>
    /\ cur = "loop"
    /\ cancelled = {}
    /\ inTask = "start"
    /\ outTask = "start"
    /\ pauseTask = [p \in PauseIds |-> "none"]
    /\ closeTask = "none"
    /\ lock = "free"
    /\ waiters = <<>>
    /\ read_resume = TRUE
    /\ disconnected_evt = FALSE
    /\ internal_in_q = <<>>
    /\ out_q = <<>>
    /\ paused = FALSE
    /\ arrived = 0
    /\ remote = "open"
    /\ delivered = <<>>
    /\ appSent = 0
    /\ wire = <<>>
    /\ okSent = FALSE
    /\ lost = FALSE

-----------------------------------------------------------------------------
(* The event loop (asyncio).                                                *)

\* The loop runs the task that has been ready for longest.
Turn ==
    /\ cur = "loop" /\ ready # <<>>
    /\ cur' = Head(ready)
    /\ ready' = Tail(ready)
    /\ UNCHANGED <<cancelled, taskVars, lockVars, disconnected_evt, inVars, outVars,
                   lost>>

\* The queue r after task t was woken.
Woken(r, t) == IF Contains(r, t) THEN r ELSE Append(r, t)

\* The queue r after read_lock was released to those in ws.
Released(r, ws) == IF ws = <<>> THEN r ELSE Woken(r, Head(ws))

LockIsFree == lock = "free" /\ waiters = <<>>

\* A task that is not cancelled goes on; the others find CancelledError.
Runs(t) == cur = t /\ t \notin cancelled

-----------------------------------------------------------------------------
(* WSNETConnection.close: it does not suspend.  The tasks it cancels have a *)
(* finally in which they call it again.                                     *)

CloseConn(self, r) ==
    LET victims == {t \in {"in", "out"} \ {self} :
                       IF t = "in" THEN inTask # "done" ELSE outTask # "done"}
        out     == IF "out" \in victims THEN Woken(r, "out") ELSE r
    IN  /\ lost' = TRUE
        /\ disconnected_evt' = TRUE
        /\ cancelled' = (cancelled \cup victims) \ {self}
        /\ ready' = IF "in" \in victims THEN Woken(out, "in") ELSE out

CloseRun ==
    /\ cur = "close"
    /\ CloseConn("close", ready)
    /\ closeTask' = "done"
    /\ cur' = "loop"
    /\ UNCHANGED <<inTask, outTask, pauseTask, lockVars, inVars, outVars>>

-----------------------------------------------------------------------------
(* connection_handler_in.                                                   *)

\* Mutant of InAcquire: read_lock is not asked for.
InAcquireNoLock ==
    /\ Runs("in") /\ inTask = "start"
    /\ inTask' = "get"
    /\ UNCHANGED <<loopVars, outTask, pauseTask, closeTask, lockVars,
                   disconnected_evt, inVars, outVars, lost>>

\* The head of the loop: read_lock is taken, or the task queues for it.
InAcquire ==
    /\ Runs("in") /\ inTask = "start" /\ ~disconnected_evt
    /\ \/ /\ LockIsFree
          /\ lock' = "in" /\ inTask' = "get"
          /\ UNCHANGED <<cur, waiters>>
       \/ /\ ~LockIsFree
          /\ waiters' = Append(waiters, "in") /\ inTask' = "lock"
          /\ cur' = "loop"
          /\ UNCHANGED lock
    /\ UNCHANGED <<ready, cancelled, outTask, pauseTask, closeTask, read_resume,
                   disconnected_evt, inVars, outVars, lost>>

InGranted ==
    /\ Runs("in") /\ inTask = "lock"
    /\ lock' = "in" /\ waiters' = Tail(waiters)
    /\ inTask' = "get"
    /\ UNCHANGED <<loopVars, outTask, pauseTask, closeTask, read_resume,
                   disconnected_evt, inVars, outVars, lost>>

\* internal_in_q.get() on an empty queue suspends, with the lock held.
InWait ==
    /\ Runs("in") /\ inTask = "get" /\ internal_in_q = <<>>
    /\ cur' = "loop"
    /\ UNCHANGED <<ready, cancelled, taskVars, lockVars, disconnected_evt, inVars,
                   outVars, lost>>

\* Mutant of InDeliver: the last message of the queue is taken.
InDeliverLast ==
    /\ Runs("in") /\ inTask = "get"
    /\ internal_in_q # <<>> /\ Last(internal_in_q) # OkItem
    /\ internal_in_q' = Front(internal_in_q)
    /\ delivered' = Append(delivered, Last(internal_in_q))
    /\ ready' = Released(ready, waiters)
    /\ lock' = "free" /\ inTask' = "start"
    /\ UNCHANGED <<cur, cancelled, outTask, pauseTask, closeTask, waiters,
                   read_resume, disconnected_evt, paused, arrived, remote, outVars,
                   lost>>

\* A chunk goes to data_received, where the StreamReader may find its buffer
\* too full and call pause_reading, which creates a task.
InDeliver ==
    /\ Runs("in") /\ inTask = "get"
    /\ internal_in_q # <<>> /\ Head(internal_in_q) # OkItem
    /\ internal_in_q' = Tail(internal_in_q)
    /\ delivered' = Append(delivered, Head(internal_in_q))
    /\ \/ /\ ready' = Released(ready, waiters)
          /\ UNCHANGED <<paused, pauseTask>>
       \/ LET p == CHOOSE q \in PauseIds : pauseTask[q] = "none" IN
             /\ ~paused /\ \E q \in PauseIds : pauseTask[q] = "none"
             /\ paused' = TRUE
             /\ pauseTask' = [pauseTask EXCEPT ![p] = "start"]
             /\ ready' = Released(Append(ready, p), waiters)
    /\ lock' = "free" /\ inTask' = "start"
    /\ UNCHANGED <<cur, cancelled, outTask, closeTask, waiters, read_resume,
                   disconnected_evt, arrived, remote, outVars, lost>>

\* The loop is over: the WebSocket was lost.  What it still holds stays there.
InExit ==
    /\ Runs("in") /\ inTask = "start" /\ disconnected_evt
    /\ inTask' = "done"
    /\ CloseConn("in", ready)
    /\ cur' = "loop"
    /\ UNCHANGED <<outTask, pauseTask, closeTask, lockVars, inVars, outVars>>

\* OK or ERR of the agent ends the task and the connection.
InEnd ==
    /\ Runs("in") /\ inTask = "get"
    /\ internal_in_q # <<>> /\ Head(internal_in_q) = OkItem
    /\ internal_in_q' = Tail(internal_in_q)
    /\ lock' = "free" /\ inTask' = "done"
    /\ CloseConn("in", Released(ready, waiters))
    /\ cur' = "loop"
    /\ UNCHANGED <<outTask, pauseTask, closeTask, waiters, read_resume, paused,
                   arrived, remote, delivered, outVars>>

\* Cancelled in get(), or while it queues for the lock.
InCancelled ==
    LET others == RemoveFirst(waiters, "in") IN
    /\ cur = "in" /\ "in" \in cancelled /\ inTask \in {"lock", "get"}
    /\ lock' = IF inTask = "get" THEN "free" ELSE lock
    /\ waiters' = others
    /\ CloseConn("in", IF lock' = "free" THEN Released(ready, others) ELSE ready)
    /\ inTask' = "done"
    /\ cur' = "loop"
    /\ UNCHANGED <<outTask, pauseTask, closeTask, read_resume, inVars, outVars>>

InStep == \/ InAcquire \/ InGranted \/ InWait \/ InDeliver
          \/ InExit \/ InEnd \/ InCancelled

-----------------------------------------------------------------------------
(* connection_handler_out.                                                  *)

OutSend ==
    /\ Runs("out") /\ ~disconnected_evt
    /\ out_q # <<>> /\ Head(out_q) # NoneItem
    /\ out_q' = Tail(out_q)
    /\ wire' = Append(wire, Head(out_q))
    /\ outTask' = "get"
    /\ UNCHANGED <<loopVars, inTask, pauseTask, closeTask, lockVars,
                   disconnected_evt, inVars, appSent, okSent, lost>>

OutWait ==
    /\ Runs("out") /\ out_q = <<>> /\ ~disconnected_evt
    /\ outTask' = "get"
    /\ cur' = "loop"
    /\ UNCHANGED <<ready, cancelled, inTask, pauseTask, closeTask, lockVars,
                   disconnected_evt, inVars, outVars, lost>>

\* Mutant of OutFinally: the agent is not told.
OutFinallySilent ==
    /\ outTask' = "done"
    /\ CloseConn("out", ready)
    /\ cur' = "loop"
    /\ UNCHANGED <<inTask, pauseTask, closeTask, lockVars, inVars, appSent, wire,
                   okSent>>

\* The finally: OK to the agent, then close().
OutFinally ==
    /\ okSent' = TRUE
    /\ outTask' = "done"
    /\ CloseConn("out", ready)
    /\ cur' = "loop"
    /\ UNCHANGED <<inTask, pauseTask, closeTask, lockVars, inVars, appSent, wire>>

\* None, put there by write_eof.
OutEnd ==
    /\ Runs("out") /\ ~disconnected_evt
    /\ out_q # <<>> /\ Head(out_q) = NoneItem
    /\ out_q' = Tail(out_q)
    /\ OutFinally

\* The WebSocket was lost: the loop does not begin, or what the task was woken
\* with is the last that it takes, and is lost.
OutExit ==
    /\ Runs("out") /\ disconnected_evt
    /\ \/ outTask = "start" /\ out_q' = out_q
       \/ outTask = "get" /\ out_q # <<>> /\ out_q' = Tail(out_q)
    /\ OutFinally

OutCancelled ==
    /\ cur = "out" /\ "out" \in cancelled /\ outTask = "get"
    /\ out_q' = out_q
    /\ OutFinally

\* Cancelled before its first step: the body, and so its finally, never runs.
OutKilled ==
    /\ cur = "out" /\ "out" \in cancelled /\ outTask = "start"
    /\ outTask' = "done"
    /\ cancelled' = cancelled \ {"out"}
    /\ cur' = "loop"
    /\ UNCHANGED <<ready, inTask, pauseTask, closeTask, lockVars, disconnected_evt,
                   inVars, outVars, lost>>

OutStep == OutSend \/ OutWait \/ OutEnd \/ OutExit \/ OutCancelled \/ OutKilled

-----------------------------------------------------------------------------
(* pause_reading of WSNETConnection: the event is cleared when the task     *)
(* begins, not when it is created.  The lock keeps the reader out.          *)

PauseBegin(p) ==
    /\ cur = p /\ pauseTask[p] = "start"
    /\ read_resume' = FALSE
    /\ \/ /\ LockIsFree
          /\ lock' = p /\ pauseTask' = [pauseTask EXCEPT ![p] = "resume"]
          /\ UNCHANGED waiters
       \/ /\ ~LockIsFree
          /\ waiters' = Append(waiters, p)
          /\ pauseTask' = [pauseTask EXCEPT ![p] = "lock"]
          /\ UNCHANGED lock
    /\ cur' = "loop"
    /\ UNCHANGED <<ready, cancelled, inTask, outTask, closeTask, disconnected_evt,
                   inVars, outVars, lost>>

PauseGranted(p) ==
    /\ cur = p /\ pauseTask[p] = "lock"
    /\ waiters' = Tail(waiters)
    /\ \/ /\ ~read_resume
          /\ lock' = p /\ pauseTask' = [pauseTask EXCEPT ![p] = "resume"]
          /\ UNCHANGED ready
       \/ /\ read_resume
          /\ ready' = Released(ready, Tail(waiters))
          /\ pauseTask' = [pauseTask EXCEPT ![p] = "none"]
          /\ UNCHANGED lock
    /\ cur' = "loop"
    /\ UNCHANGED <<cancelled, inTask, outTask, closeTask, read_resume,
                   disconnected_evt, inVars, outVars, lost>>

\* Mutant of PauseOver: the lock is kept.
PauseOverKeepsLock(p) ==
    /\ cur = p /\ pauseTask[p] = "resume"
    /\ pauseTask' = [pauseTask EXCEPT ![p] = "none"]
    /\ cur' = "loop"
    /\ UNCHANGED <<ready, cancelled, inTask, outTask, closeTask, lockVars,
                   disconnected_evt, inVars, outVars, lost>>

PauseOver(p) ==
    /\ cur = p /\ pauseTask[p] = "resume"
    /\ lock' = "free" /\ ready' = Released(ready, waiters)
    /\ pauseTask' = [pauseTask EXCEPT ![p] = "none"]
    /\ cur' = "loop"
    /\ UNCHANGED <<cancelled, inTask, outTask, closeTask, waiters, read_resume,
                   disconnected_evt, inVars, outVars, lost>>

PauseStep == \E p \in PauseIds : PauseBegin(p) \/ PauseGranted(p) \/ PauseOver(p)

-----------------------------------------------------------------------------
(* From outside, between two turns: the agent, and the application through  *)
(* WSNETTransport.                                                          *)

Arrive ==
    /\ cur = "loop" /\ remote = "open" /\ arrived < MaxPeer
    /\ arrived' = arrived + 1
    /\ internal_in_q' = Append(internal_in_q, arrived + 1)
    /\ ready' = IF inTask = "get" THEN Woken(ready, "in") ELSE ready
    /\ UNCHANGED <<cur, cancelled, taskVars, lockVars, disconnected_evt, paused,
                   remote, delivered, outVars, lost>>

RemoteEnd ==
    /\ cur = "loop" /\ remote = "open"
    /\ remote' = "ended"
    /\ internal_in_q' = Append(internal_in_q, OkItem)
    /\ ready' = IF inTask = "get" THEN Woken(ready, "in") ELSE ready
    /\ UNCHANGED <<cur, cancelled, taskVars, lockVars, disconnected_evt, paused,
                   arrived, delivered, outVars, lost>>

\* JavaScript sets disconnected_evt when the WebSocket is lost.  That wakes no
\* task: one that waits in get() finds out when it is woken by something else.
WsLost ==
    /\ cur = "loop" /\ ~disconnected_evt
    /\ disconnected_evt' = TRUE
    /\ remote' = IF remote = "open" THEN "gone" ELSE remote
    /\ UNCHANGED <<loopVars, taskVars, lockVars, internal_in_q, paused, arrived,
                   delivered, outVars, lost>>

Put(item) ==
    /\ out_q' = Append(out_q, item)
    /\ ready' = IF outTask = "get" THEN Woken(ready, "out") ELSE ready
    /\ UNCHANGED <<cur, cancelled, taskVars, lockVars, disconnected_evt, inVars,
                   wire, okSent, lost>>

Write ==
    /\ cur = "loop" /\ closeTask = "none" /\ appSent < MaxApp
    /\ appSent' = appSent + 1
    /\ Put(appSent + 1)

WriteEof ==
    /\ cur = "loop" /\ closeTask = "none"
    /\ ~Contains(out_q, NoneItem)
    /\ appSent' = appSent
    /\ Put(NoneItem)

\* Mutant of Close: the task overtakes what is ready.
CloseAtOnce ==
    /\ cur = "loop" /\ closeTask = "none"
    /\ closeTask' = "start"
    /\ ready' = <<"close">> \o ready
    /\ UNCHANGED <<cur, cancelled, inTask, outTask, pauseTask, lockVars,
                   disconnected_evt, inVars, outVars, lost>>

\* close() and abort() create a task that calls WSNETConnection.close.
Close ==
    /\ cur = "loop" /\ closeTask = "none"
    /\ closeTask' = "start"
    /\ ready' = Append(ready, "close")
    /\ UNCHANGED <<cur, cancelled, inTask, outTask, pauseTask, lockVars,
                   disconnected_evt, inVars, outVars, lost>>

\* resume_reading, called by a read of the application, sets the event at once.
Resume ==
    /\ cur = "loop" /\ paused
    /\ paused' = FALSE
    /\ read_resume' = TRUE
    /\ ready' = IF lock \in PauseIds THEN Woken(ready, lock) ELSE ready
    /\ UNCHANGED <<cur, cancelled, taskVars, lock, waiters, disconnected_evt,
                   internal_in_q, arrived, remote, delivered, outVars, lost>>

Loop == Turn \/ InStep \/ OutStep \/ PauseStep \/ CloseRun

Outside == Arrive \/ RemoteEnd \/ WsLost \/ Write \/ WriteEof \/ Close \/ Resume

Next == Loop \/ Outside

Spec == Init /\ [][Next]_vars

\* The event loop runs what is ready; nothing is assumed of agent and
\* application.
FairSpec == Spec /\ WF_vars(Loop)

-----------------------------------------------------------------------------
\* close() says "Buffered data will be flushed asynchronously", and only after
\* that connection_lost is called.  The task it creates cancels the task that
\* empties out_q: the promise rests on the latter being ready before it.
FlushedBeforeLost ==
    cur = "close" /\ ~disconnected_evt => out_q = <<>>

\* While a pause_reading task holds read_lock no data reaches data_received,
\* however many pauses and resumes are under way.
PauseHolds ==
    [][delivered' # delivered => \A p \in PauseIds : pauseTask[p] # "resume"]_vars

\* What the agent sent is delivered in order, without gaps or repetitions.
Stream == INSTANCE OrderedStream
    WITH Streams <- {"in"}, accepted <- [s \in {"in"} |-> arrived],
         delivered <- [s \in {"in"} |-> delivered]

DeliveredInOrder == Stream!Spec

\* After close() the protocol's connection_lost is called, and whoever ends the
\* connection, the agent is told unless it or the WebSocket ended first.
CloseCompletes ==
    /\ closeTask = "start" ~> lost
    /\ lost ~> okSent \/ remote # "open"

\* Once a resume has come after the pause task began, what arrives is delivered
\* until the next pause: no waiter is left behind read_lock.
ResumeAfterPause ==
    (read_resume /\ ~paused /\ internal_in_q # <<>>
        /\ \A p \in PauseIds : pauseTask[p] # "start")
      ~> (paused \/ disconnected_evt \/ internal_in_q = <<>>)

\* resume_reading says "Data received will once again be passed to the
\* protocol's data_received() method."
ResumeDelivers ==
    (~paused /\ internal_in_q # <<>>)
      ~> (paused \/ disconnected_evt \/ internal_in_q = <<>>)
=============================================================================
