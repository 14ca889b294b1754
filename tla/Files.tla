------------------------------- MODULE Files --------------------------------
(***************************************************************************)
(* File operations from end to end: calls of applications in the browser,  *)
(* the WebSocket, the agent, the file system.  The WebSocket may break,    *)
(* the disk may fill up, and any wait of the browser may time out while    *)
(* its answer is on the way.                                               *)
(***************************************************************************)
EXTENDS AgentFiles, BrowserFiles

vars == <<linkVars, agentVars, browserVars>>

Init == LinkInit /\ AgentInit /\ BrowserInit

LinkFailure == WsLost /\ UNCHANGED <<agentVars, browserVars>>

Next ==
    \/ AgentNext /\ UNCHANGED browserVars
    \/ BrowserNext /\ UNCHANGED agentVars
    \/ LinkFailure

Spec == Init /\ [][Next]_vars

\* Both event loops run what is ready.  Nothing is assumed of timers: a call
\* has to come back without them.
Fairness ==
    /\ WF_vars(Dispatch /\ UNCHANGED browserVars)
    /\ \A t \in Tokens : WF_vars(Answers(t) /\ UNCHANGED agentVars)

FairSpec == Spec /\ Fairness

TypeOK ==
    /\ wsUp \in BOOLEAN
    /\ AgentTypeOK
    /\ BrowserTypeOK

-----------------------------------------------------------------------------
(* Safety.                                                                  *)

Keeps(file, off) == off < Len(file) /\ file[off + 1] = told[off]

\* What write() was told is written is in the file as the agent's handle sees
\* it, on the disk or in its buffer, at the offset the application meant, as
\* long as no call on the handle timed out and the disk is not full.
AckedWritten ==
    \A t \in OpenFor({"w"}) :
        sess[t].st # "opening" /\ sess[t].clean /\ ~full =>
            /\ Opened(t)
            /\ \A off \in DOMAIN told : Keeps(Flushed(file_queues[t]), off)

\* A file that was written and closed reads back as it was written: a handle
\* for reading knows of every acknowledged chunk and returns each at its own
\* offset, however many requests a read takes, although the agent's buffer is
\* written out only by the OK of close, which nobody waits for.
ReadBack ==
    \A t \in OpenFor({"r"}) :
        sess[t].st \notin {"opening", "sizing"} /\ sess[t].clean /\ ~full =>
            \A off \in DOMAIN told :
                LET i == off - sess[t].from + 1 IN
                /\ off < sess[t].size
                /\ i \in DOMAIN sess[t].data => sess[t].data[i] = told[off]

\* What an operation reports is what the agent did: success only if it was
\* done, failure without a timeout only if it was not.  A listing that comes
\* back has every entry of the directory, or none when os.walk could not read
\* it, which the application cannot tell from an empty one: it never has a part.
ResultTrue ==
    \A t \in Tokens :
        /\ sess[t].st = "done" => outcome[t] = "done"
        /\ sess[t].st = "listed" =>
              \/ outcome[t] = "done" /\ sess[t].left = Entries
              \/ outcome[t] = "unread" /\ sess[t].left = 0
        /\ sess[t].st = "failed" /\ sess[t].clean =>
              outcome[t] \notin {"done", "unread"}

-----------------------------------------------------------------------------
(* Liveness.                                                                *)

\* Every call comes back without its timer, unless the WebSocket breaks,
\* whatever calls of the session have timed out before and whatever answers
\* to them are still on the way.
CallsAnswered ==
    \A t \in Tokens : Waiting(t) ~> ~Waiting(t) \/ ~wsUp
=============================================================================
