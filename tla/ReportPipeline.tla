--------------------------- MODULE ReportPipeline ---------------------------
(***************************************************************************)
(* A node's traffic reports on their way to the console.                   *)
(*                                                                         *)
(* The node agent (docker/edge-tools/edge_reporter.py, run_once) makes a   *)
(* report each cycle, writes it to its spool directory, drops the oldest   *)
(* files over the limit, saves its state (instance, sequence number, count *)
(* of dropped reports) and posts the spooled files in order of file name.  *)
(* The console (console/reports.py, store) counts the traffic of a report  *)
(* unless it already holds its (instance, seq), and keeps a node status.   *)
(*                                                                         *)
(* The agent may crash between any two of these steps, its state file may  *)
(* be lost, requests and answers may be lost or come late, the console may *)
(* refuse a report, and the table of stored sequence numbers is purged of  *)
(* old rows.  One node: the table is keyed by node, and other nodes matter *)
(* only because their reports trigger the purge too.                       *)
(*                                                                         *)
(* A report is identified by the order in which it was made, which is also *)
(* the order of the period it ends with (the node's clock moves forward);  *)
(* reports[i] holds the other fields the console looks at.  The traffic is *)
(* a single unit: counts[i] says how many times the console added it.      *)
(***************************************************************************)
EXTENDS Naturals, FiniteSets

CONSTANTS
  MaxReports,   \* bound: reports made
  MaxInstances, \* bound: reporter instances started
  MaxTime,      \* bound: days that pass
  Limit,        \* SPOOL_MAX: unsent reports kept
  KeepFor,      \* REPORT_SEQ_DAYS: days a sequence number is remembered
  PurgeEvery    \* the purge runs on every PurgeEvery-th sequence number

ASSUME BoundsAssumption ==
  /\ MaxReports \in Nat /\ MaxInstances \in Nat /\ MaxTime \in Nat
  /\ Limit \in Nat \ {0} /\ KeepFor \in Nat /\ PurgeEvery \in Nat \ {0}

Ids == 1 .. MaxReports

VARIABLES
  \* the agent: durable
  reports,      \* [Ids -> Report]: what each report says, once it is made
  made,         \* number of reports made so far
  insts,        \* instances drawn so far (secrets.token_hex: always a new one)
  spool,        \* the report files, by report
  state,        \* state.json; inst = 0 when it is missing or unreadable
  \* the agent: in memory
  pc,           \* where run_once is
  next,         \* the state it is about to save
  \* the way to the console
  net,          \* requests on their way (a timed-out one may still arrive)
  answer,       \* the answer to the request the agent waits for
  \* the console
  seqs,         \* report_seq: stored (instance, seq) with received_at
  counts,       \* how many times the traffic of a report was added
  status,       \* node_status: the report shown, 0 for none
  restartAt,    \* node_status.xray_restart_at
  \* the world and what the properties look back at
  now,          \* the day
  saved,        \* reports whose state was saved: their traffic is not read again
  drops,        \* files removed because the spool was full
  announced,    \* sum of dropped_reports over the reports stored
  purgedEarly   \* reports whose row was purged while they could still be sent

makingVars  == <<reports, made, insts>>
agentVars   == <<makingVars, spool, state, pc, next, saved, drops>>
consoleVars == <<seqs, counts, status, restartAt, announced, purgedEarly>>
vars == <<reports, made, insts, spool, state, pc, next, net, answer,
          seqs, counts, status, restartAt, now, saved, drops, announced, purgedEarly>>

Report == [inst : Nat, seq : Nat, restarted : BOOLEAN, mark : Nat]
AgentState == [inst : Nat, seq : Nat, dropped : Nat]
SeqRow == [inst : Nat, seq : Nat, at : Nat]

Blank   == [inst |-> 0, seq |-> 0, restarted |-> FALSE, mark |-> 0]
NoState == [inst |-> 0, seq |-> 0, dropped |-> 0]

TypeOK ==
  /\ reports \in [Ids -> Report]
  /\ made \in 0 .. MaxReports
  /\ \A i \in 1 .. made : reports[i].inst > 0 /\ reports[i].seq > 0
  /\ insts \in Nat
  /\ spool \in SUBSET Ids
  /\ state \in AgentState
  /\ pc \in {"idle", "trim", "flush", "wait"}
  /\ next \in AgentState
  /\ net \in SUBSET Ids
  /\ answer \in {"none", "stored", "duplicate"}
  /\ seqs \in SUBSET SeqRow
  /\ counts \in [Ids -> Nat]
  /\ status \in 0 .. MaxReports
  /\ restartAt \in Nat
  /\ now \in Nat
  /\ saved \in SUBSET Nat
  /\ drops \in Nat
  /\ announced \in Nat
  /\ purgedEarly \in SUBSET Ids

Init ==
  /\ reports = [i \in Ids |-> Blank]
  /\ made = 0 /\ insts = 0 /\ spool = {}
  /\ state = NoState /\ pc = "idle" /\ next = NoState
  /\ net = {} /\ answer = "none"
  /\ seqs = {} /\ counts = [i \in Ids |-> 0]
  /\ status = 0 /\ restartAt = 0
  /\ now = 0 /\ saved = {} /\ drops = 0 /\ announced = 0 /\ purgedEarly = {}

-----------------------------------------------------------------------------
(***************************************************************************)
(* The agent.                                                              *)
(***************************************************************************)

NewestIn(files, i) ==
  /\ i \in files
  /\ \A j \in files : reports[i].seq >= reports[j].seq

\* Files are named by sequence number alone, so sorting the names sorts by seq.
OldestIn(files, i) ==
  /\ i \in files
  /\ \A j \in files : reports[i].seq <= reports[j].seq

NextSeq == state.seq + 1

\* secrets.token_hex: an instance that was never used before.
NewInstance == insts + 1

\* collect and the first half of Spool.add: the report is made from the saved
\* state (or from a new instance when there is none) and its file is written,
\* over a file of the same name.
WriteReport(restarted) ==
  LET inst == IF state.inst = 0 THEN NewInstance ELSE state.inst
      n == made + 1
  IN
  /\ pc = "idle"
  /\ made < MaxReports
  /\ state.inst = 0 => insts < MaxInstances
  /\ made' = n
  /\ insts' = IF state.inst = 0 THEN insts + 1 ELSE insts
  /\ reports' = [reports EXCEPT ![n] =
       [inst |-> inst, seq |-> NextSeq,
        restarted |-> restarted, mark |-> state.dropped]]
  /\ spool' = {j \in spool : reports[j].seq # NextSeq} \cup {n}
  /\ next' = [inst |-> inst, seq |-> NextSeq, dropped |-> 0]
  /\ pc' = "trim"
  /\ UNCHANGED <<state, saved, drops, net, answer, now, consoleVars>>

\* The second half of Spool.add: the oldest file goes while there are too many.
DropOldest ==
  /\ pc = "trim"
  /\ Cardinality(spool) > Limit
  /\ \E i \in spool :
       /\ OldestIn(spool, i)
       /\ spool' = spool \ {i}
  /\ next' = [inst |-> next.inst, seq |-> next.seq,
              dropped |-> next.dropped + 1]
  /\ drops' = drops + 1
  /\ UNCHANGED <<makingVars, state, pc, saved, net, answer, now, consoleVars>>

SaveState ==
  /\ pc = "trim"
  /\ Cardinality(spool) <= Limit
  /\ state' = next
  /\ saved' = saved \cup {made}
  /\ pc' = "flush"
  /\ UNCHANGED <<makingVars, spool, next, drops, net, answer, now, consoleVars>>

\* flush: the first file is posted.
Post ==
  /\ pc = "flush"
  /\ \E i \in spool :
       /\ OldestIn(spool, i)
       /\ net' = net \cup {i}
  /\ pc' = "wait"
  /\ UNCHANGED <<makingVars, spool, state, next, saved, drops, answer, now,
                 consoleVars>>

\* The answers (200 and 409) on which the file is removed.
AcceptedOnlyStored == {"stored"}

AnyAnswer == {"none", "stored", "duplicate"}

Accepted == {"stored", "duplicate"}

Remove ==
  /\ pc = "wait"
  /\ answer \in Accepted
  /\ \E i \in spool :
       /\ OldestIn(spool, i)
       /\ spool' = spool \ {i}
  /\ pc' = "flush"
  /\ answer' = "none"
  /\ UNCHANGED <<makingVars, state, next, saved, drops, net, now, consoleVars>>

FlushDone ==
  /\ pc = "flush"
  /\ spool = {}
  /\ pc' = "idle"
  /\ UNCHANGED <<makingVars, spool, state, next, saved, drops, net, answer,
                 now, consoleVars>>

\* The token cannot be read, the console cannot be reached, no answer comes in
\* time, or the answer is not one of the accepted ones: the cycle ends.
EndCycle ==
  /\ \/ pc = "flush"
     \/ pc = "wait" /\ answer \notin Accepted
  /\ pc' = "idle"
  /\ answer' = "none"
  /\ UNCHANGED <<makingVars, spool, state, next, saved, drops, net, now,
                 consoleVars>>

\* The agent stops between two steps and is started again by Docker.
Crash ==
  /\ pc # "idle"
  /\ pc' = "idle"
  /\ next' = NoState
  /\ answer' = "none"
  /\ UNCHANGED <<makingVars, spool, state, saved, drops, net, now, consoleVars>>

\* state.json is missing or does not parse the next time it is loaded.
LoseState ==
  /\ pc = "idle"
  /\ state.inst # 0
  /\ state' = NoState
  /\ UNCHANGED <<makingVars, spool, pc, next, saved, drops, net, answer, now,
                 consoleVars>>

-----------------------------------------------------------------------------
(***************************************************************************)
(* The console.                                                            *)
(***************************************************************************)

\* INSERT OR IGNORE: the primary key of report_seq is (node, instance, seq).
KeyIsNodeAndSeq(row, i) == row.seq = reports[i].seq

SameKey(row, i) == row.inst = reports[i].inst /\ row.seq = reports[i].seq

NothingIsStored(i) == FALSE

Stored(i) == \E row \in seqs : SameKey(row, i)

\* ON CONFLICT ... WHERE excluded.period_to >= node_status.period_to
AnyReplacesStatus(i) == TRUE

ReplacesStatus(i) == i >= status

\* MAX(COALESCE(xray_restart_at, 0), the end of the report's period)
LatestRestart(i) ==
  IF reports[i].restarted /\ i > restartAt THEN i ELSE restartAt

\* db.purge: rows received more than KeepFor days ago are deleted.
Kept(rows) == {row \in rows : row.at + KeepFor >= now}

PurgedEarly(rows) ==
  {i \in spool \cup net : \E row \in rows \ Kept(rows) : SameKey(row, i)}

\* reports.store and the purge after it, in the handler of POST /report.  The
\* answer reaches the agent only if it still waits for this very request; a
\* request stays in net, as an earlier copy of it may still be on its way.
Receive(i, answered) ==
  LET stored == ~Stored(i)
      rows == IF stored
                THEN seqs \cup {[inst |-> reports[i].inst,
                                 seq |-> reports[i].seq, at |-> now]}
                ELSE seqs
      purges == reports[i].seq % PurgeEvery = 0
  IN
  /\ i \in net
  /\ counts' = IF stored THEN [counts EXCEPT ![i] = @ + 1] ELSE counts
  /\ announced' = IF stored THEN announced + reports[i].mark ELSE announced
  /\ status' = IF stored /\ ReplacesStatus(i) THEN i ELSE status
  /\ restartAt' = IF stored THEN LatestRestart(i) ELSE restartAt
  /\ seqs' = IF purges THEN Kept(rows) ELSE rows
  /\ purgedEarly' = IF purges THEN purgedEarly \cup PurgedEarly(rows)
                              ELSE purgedEarly
  /\ answered => pc = "wait" /\ answer = "none" /\ OldestIn(spool, i)
  /\ answer' = IF answered
                 THEN IF stored THEN "stored" ELSE "duplicate"
                 ELSE answer
  /\ UNCHANGED <<agentVars, net, now>>

\* A report of another node runs the purge of the table all nodes share.
OtherNodePurges ==
  /\ seqs # Kept(seqs)
  /\ seqs' = Kept(seqs)
  /\ purgedEarly' = purgedEarly \cup PurgedEarly(seqs)
  /\ UNCHANGED <<counts, status, restartAt, announced, agentVars, net, answer,
                 now>>

\* A request is lost on the way, or refused (401, 413, 400, a tunnel error).
LoseRequest(i) ==
  /\ i \in net
  /\ net' = net \ {i}
  /\ UNCHANGED <<agentVars, answer, now, consoleVars>>

\* A connection does not outlive the day: the requests still open are gone.
DayPasses ==
  /\ now < MaxTime
  /\ now' = now + 1
  /\ net' = {}
  /\ UNCHANGED <<agentVars, answer, consoleVars>>

-----------------------------------------------------------------------------
Agent ==
  \/ \E restarted \in BOOLEAN : WriteReport(restarted)
  \/ DropOldest
  \/ SaveState
  \/ Post
  \/ Remove
  \/ FlushDone
  \/ EndCycle
  \/ Crash
  \/ LoseState

Console ==
  \/ \E i \in Ids, answered \in BOOLEAN : Receive(i, answered)
  \/ OtherNodePurges

Next ==
  \/ Agent
  \/ Console
  \/ \E i \in Ids : LoseRequest(i)
  \/ DayPasses

Spec == Init /\ [][Next]_vars

-----------------------------------------------------------------------------
(***************************************************************************)
(* Safety.                                                                 *)
(***************************************************************************)

\* The traffic of a report is added at most once, whatever is resent, late or
\* lost (INSERT OR IGNORE in reports.store), unless its row was purged from
\* report_seq while the report could still be sent.
CountedOnce == \A i \in Ids \ purgedEarly : counts[i] <= 1

\* The agent deletes a report file on a 200 or 409 answer: then the traffic of
\* that very report has been counted.  A 409 is never about another report.
AcceptedIsCounted ==
  pc = "wait" /\ answer \in {"stored", "duplicate"} =>
    \A i \in spool : OldestIn(spool, i) => counts[i] > 0

\* What is lost was dropped: once the state is saved, so that the traffic of a report is
\* not read again, the report is counted, or its file is there, or it is among the files
\* dropped over the limit.  No crash, no answer and no file written over another loses
\* one more, unless state.json itself was lost (Spool.add, save_state, flush).
Lost == {i \in saved : counts[i] = 0 /\ i \notin spool}

LostWereDropped == insts <= 1 => Cardinality(Lost) <= drops

\* "Stop at the first failure so order is kept" (flush): a report is first
\* counted after a later one of its instance only when its file had already
\* been dropped and a late copy of it arrives.
CountedInOrder ==
  [][\A i, j \in Ids :
       /\ counts[i] = 0 /\ counts'[i] = 1 /\ counts[j] > 0
       /\ reports[i].inst = reports[j].inst /\ reports[i].seq < reports[j].seq
       => i \notin spool]_vars

\* A dropped report is announced in dropped_reports at most once (collect puts the
\* count into the next report and resets it), whatever is sent again, made again
\* after a crash or forgotten; unless a report was counted twice.
AnnouncedOnce == purgedEarly = {} => announced <= drops

\* The abstract ledger: a report is open while its file or a copy of it exists.
Ledger == INSTANCE ReportLedger WITH
  open  <- {i \in spool \cup net : counts[i] = 0},
  tally <- counts

LedgerSpec == Ledger!LedgerSpec
=============================================================================
