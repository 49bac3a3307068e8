-------------------------- MODULE MCReportPipeline --------------------------
(***************************************************************************)
(* ReportPipeline for TLC: the liveness specification.                     *)
(***************************************************************************)
EXTENDS ReportPipeline

\* Reports beyond the bound are outside the model, but the cycles that would
\* make them still flush the spool.
CycleBeyondBound ==
  /\ pc = "idle"
  /\ made = MaxReports \/ (state.inst = 0 /\ insts = MaxInstances)
  /\ pc' = "flush"
  /\ UNCHANGED <<makingVars, spool, state, next, saved, drops, net, answer,
                 now, consoleVars>>

MCNext == Next \/ CycleBeyondBound

\* The main loop runs a cycle every interval and each step of it is local, so
\* the agent's steps are weakly fair.  An outage ends: a request that is sent
\* again and again is handled and answered some time, and the agent is not
\* stopped every single time before it removes the file.
Fairness ==
  /\ WF_vars(\E restarted \in BOOLEAN : WriteReport(restarted))
  /\ WF_vars(DropOldest)
  /\ SF_vars(SaveState)
  /\ SF_vars(Post)
  /\ WF_vars(CycleBeyondBound)
  /\ SF_vars(\E i \in Ids : Receive(i, TRUE))
  /\ SF_vars(Remove)
  /\ WF_vars(EndCycle)

FairSpec == Init /\ [][MCNext]_vars /\ Fairness

\* Every report file leaves the spool in the end: it is accepted, dropped or
\* replaced.  A report the console has stored already must not block the rest.
SpoolDrains == \A i \in Ids : i \in spool ~> i \notin spool
=============================================================================
