----------------------- MODULE ReportPipelineProofs -----------------------
(***************************************************************************)
(* Proofs about ReportPipeline for every number of reports and instances,  *)
(* every spool limit, retention and purge frequency.                       *)
(***************************************************************************)
EXTENDS ReportPipeline, FiniteSetTheorems, WellFoundedInduction, TLAPS

-----------------------------------------------------------------------------
(***************************************************************************)
(* The inductive invariant behind CountedOnce and AcceptedIsCounted.       *)
(***************************************************************************)

\* Reports that reached the network, and those that still matter.
Sent == net \cup {i \in Ids : counts[i] > 0}
Live == spool \cup Sent

SameReportKey(i, j) ==
  reports[i].inst = reports[j].inst /\ reports[i].seq = reports[j].seq

MadeOnly ==
  /\ \A i \in Live : i <= made
  /\ \A i \in 1 .. made : reports[i].inst \in 1 .. insts
  /\ state.inst <= insts
  /\ state.inst = 0 => state.seq = 0
  /\ pc # "wait" => answer = "none"

\* A sequence number that was sent is never drawn again.
SentIsSaved ==
  /\ \A i \in Sent : reports[i].inst = state.inst => reports[i].seq <= state.seq
  /\ \A i \in spool :
       reports[i].inst = state.inst => reports[i].seq <= state.seq + 1
  /\ pc \in {"flush", "wait"} =>
       \A i \in spool :
         reports[i].inst = state.inst => reports[i].seq <= state.seq

\* Between the file and the saved state.
NextIsFresh ==
  pc = "trim" =>
    /\ next.seq = state.seq + 1
    /\ next.inst \in 1 .. insts
    /\ state.inst # 0 => next.inst = state.inst
    /\ state.inst = 0 => \A i \in Sent : reports[i].inst # next.inst
    /\ \A i \in spool :
         reports[i].inst = next.inst => reports[i].seq <= next.seq

KeysDiffer == \A i, j \in Live : SameReportKey(i, j) => i = j

FileNamesDiffer == \A i, j \in spool : reports[i].seq = reports[j].seq => i = j

\* report_seq holds counted reports only, and all of those that can still come.
RowsAreCounted == \A row \in seqs : \E i \in Ids : counts[i] > 0 /\ SameKey(row, i)

CountedIsRemembered ==
  \A i \in (spool \cup net) \ purgedEarly : counts[i] > 0 => Stored(i)

IInv ==
  /\ TypeOK /\ MadeOnly /\ SentIsSaved /\ NextIsFresh
  /\ KeysDiffer /\ FileNamesDiffer
  /\ RowsAreCounted /\ CountedIsRemembered /\ CountedOnce /\ AcceptedIsCounted

-----------------------------------------------------------------------------
(***************************************************************************)
(* Behind CountedInOrder and AnnouncedOnce.                                *)
(***************************************************************************)

\* A file still there is not older than what was sent of its instance.
SentInOrder ==
  \A i \in spool, j \in Sent :
    reports[i].inst = reports[j].inst => reports[j].seq <= reports[i].seq

\* Made with a sequence number that is not saved: it will be made again, and its file
\* replaced, unless the state is lost.
Unsaved(i) == reports[i].inst = state.inst /\ reports[i].seq = state.seq + 1

UnsavedTellsDropped ==
  /\ \A i \in spool : Unsaved(i) => reports[i].mark = state.dropped
  /\ state.inst = 0 => state.dropped = 0

\* What the reports that may still be counted would announce.
ToAnnounce ==
  [i \in Ids |-> IF i \in spool \cup net /\ counts[i] = 0 /\ ~Unsaved(i)
                   THEN reports[i].mark ELSE 0]

Total(tells) ==
  LET sum[n \in 0 .. MaxReports] == IF n = 0 THEN 0 ELSE sum[n - 1] + tells[n]
  IN  sum[MaxReports]

DroppedNow == IF pc = "trim" THEN next.dropped ELSE 0

\* Every dropped file is announced, about to be announced by one report or kept in
\* one state, or forgotten.
DropsCoverAll ==
  purgedEarly = {} =>
    announced + Total(ToAnnounce) + state.dropped + DroppedNow <= drops

AnnounceIInv == IInv /\ UnsavedTellsDropped /\ DropsCoverAll

-----------------------------------------------------------------------------
(***************************************************************************)
(* Behind LostWereDropped.                                                 *)
(***************************************************************************)

\* The report at hand will be saved; its file may be dropped before.
ToBeSaved == IF pc = "trim" THEN {made} ELSE {}

LostSoFar == {i \in saved \cup ToBeSaved : counts[i] = 0 /\ i \notin spool}

\* No file of a saved report bears the sequence number drawn next by its instance.
SavedAreBehind ==
  /\ saved \subseteq 1 .. made
  /\ \A i \in saved : reports[i].inst = state.inst => reports[i].seq <= state.seq
  /\ pc = "trim" =>
       /\ made \in 1 .. made
       /\ reports[made].inst = next.inst /\ reports[made].seq = next.seq
       /\ state.inst = 0 => \A i \in saved : reports[i].inst # next.inst

LossIInv == IInv /\ SavedAreBehind /\ (insts <= 1 => Cardinality(LostSoFar) <= drops)

USE BoundsAssumption

\* The initial state satisfies the inductive invariant.
LEMMA InitIInv == Init => IInv
<1> SUFFICES ASSUME Init PROVE IInv
  OBVIOUS
<1> USE DEF Init
<1>1. TypeOK
  <2>1. Blank \in Report /\ NoState \in AgentState
    BY DEF Report, AgentState, Blank, NoState
  <2> QED
    BY <2>1 DEF TypeOK, Ids
<1>2. MadeOnly /\ SentIsSaved /\ NextIsFresh /\ KeysDiffer /\ FileNamesDiffer
  BY DEF MadeOnly, SentIsSaved, NextIsFresh, KeysDiffer, FileNamesDiffer, Live, Sent, NoState, Ids
<1>3. RowsAreCounted /\ CountedIsRemembered /\ CountedOnce /\ AcceptedIsCounted
  BY DEF RowsAreCounted, CountedIsRemembered, CountedOnce, AcceptedIsCounted, Ids
<1> QED
  BY <1>1, <1>2, <1>3 DEF IInv

\* Every step preserves the type invariant.
LEMMA TypeStep == TypeOK /\ [Next]_vars => TypeOK'
<1> SUFFICES ASSUME TypeOK, [Next]_vars PROVE TypeOK'
  OBVIOUS
<1> USE DEF TypeOK, Ids, makingVars, agentVars, consoleVars
<1>1. ASSUME NEW restarted \in BOOLEAN, WriteReport(restarted) PROVE TypeOK'
  <2> DEFINE inst == IF state.inst = 0 THEN insts + 1 ELSE state.inst
             report == [inst |-> inst, seq |-> NextSeq,
                        restarted |-> restarted, mark |-> state.dropped]
  <2>1. /\ made' = made + 1 /\ made < MaxReports
        /\ reports' = [reports EXCEPT ![made + 1] = report]
        /\ next' = [inst |-> inst, seq |-> NextSeq, dropped |-> 0]
        /\ insts' = IF state.inst = 0 THEN insts + 1 ELSE insts
        /\ spool' = {j \in spool : reports[j].seq # NextSeq} \cup {made + 1}
        /\ pc' = "trim"
        /\ UNCHANGED <<state, saved, drops, net, answer, now, consoleVars>>
    BY <1>1 DEF WriteReport, NewInstance
  <2>2. inst \in Nat /\ inst > 0 /\ NextSeq \in Nat /\ NextSeq > 0
    BY DEF NextSeq, AgentState
  <2>3. report \in Report /\ next' \in AgentState
    BY <2>1, <2>2 DEF Report, AgentState
  <2>4. made + 1 \in Ids
    BY <2>1
  <2>5. reports' \in [Ids -> Report]
    BY <2>1, <2>3, <2>4
  <2>6. \A i \in 1 .. made' : reports'[i].inst > 0 /\ reports'[i].seq > 0
    BY <2>1, <2>2, <2>4
  <2>7. made' \in 0 .. MaxReports /\ insts' \in Nat
    BY <2>1
  <2>9. spool' \in SUBSET Ids
    BY <2>1, <2>4
  <2>8. UNCHANGED <<state, saved, drops, net, answer, now, consoleVars>> /\ pc' = "trim"
    BY <2>1
  <2> QED
    BY <2>3, <2>5, <2>6, <2>7, <2>8, <2>9
<1>2. CASE DropOldest
  <2>1. next' \in AgentState
    BY <1>2 DEF DropOldest, AgentState
  <2>2. /\ spool' \in SUBSET Ids /\ drops' \in Nat
        /\ UNCHANGED <<makingVars, state, pc, saved, net, answer, now, consoleVars>>
    BY <1>2 DEF DropOldest
  <2> QED
    BY <2>1, <2>2
<1>3. CASE SaveState
  <2>1. (state \in AgentState /\ pc \in {"idle", "trim", "flush", "wait"}
          /\ saved \in SUBSET Nat)'
    BY <1>3 DEF SaveState
  <2> QED
    BY <1>3, <2>1 DEF SaveState
<1>4. CASE Post
  BY <1>4 DEF Post
<1>5. CASE Remove
  BY <1>5 DEF Remove
<1>6. CASE FlushDone \/ EndCycle
  BY <1>6 DEF FlushDone, EndCycle
<1>7. CASE Crash \/ LoseState
  <2>1. NoState \in AgentState
    BY DEF AgentState, NoState
  <2> QED
    BY <1>7, <2>1 DEF Crash, LoseState
<1>8. ASSUME NEW i \in Ids, NEW answered \in BOOLEAN, Receive(i, answered)
      PROVE TypeOK'
  <2> DEFINE row == [inst |-> reports[i].inst, seq |-> reports[i].seq, at |-> now]
  <2>6. row \in SeqRow /\ reports[i].mark \in Nat
    BY DEF SeqRow, Report
  <2>1. (seqs \in SUBSET SeqRow)'
    <3>1. \A rows \in SUBSET SeqRow : Kept(rows) \in SUBSET SeqRow
      BY DEF Kept
    <3>2. seqs \cup {row} \in SUBSET SeqRow
      BY <2>6
    <3>3. seqs' \in {seqs, seqs \cup {row}, Kept(seqs), Kept(seqs \cup {row})}
      BY <1>8 DEF Receive
    <3> QED
      BY <3>1, <3>2, <3>3
  <2>2. (counts \in [Ids -> Nat] /\ announced \in Nat)'
    BY <1>8, <2>6 DEF Receive
  <2>3. (status \in 0 .. MaxReports /\ restartAt \in Nat)'
    BY <1>8 DEF Receive, LatestRestart
  <2>4. (answer \in {"none", "stored", "duplicate"})'
    BY <1>8 DEF Receive
  <2>5. (purgedEarly \in SUBSET Ids)'
    BY <1>8 DEF Receive, PurgedEarly
  <2> QED
    BY <1>8, <2>1, <2>2, <2>3, <2>4, <2>5 DEF Receive
<1>9. CASE OtherNodePurges
  BY <1>9 DEF OtherNodePurges, Kept, PurgedEarly
<1>10. ASSUME NEW i \in Ids, LoseRequest(i) PROVE TypeOK'
  BY <1>10 DEF LoseRequest
<1>11. CASE DayPasses
  BY <1>11 DEF DayPasses
<1>12. CASE UNCHANGED vars
  BY <1>12 DEF vars
<1> QED
  BY <1>1, <1>2, <1>3, <1>4, <1>5, <1>6, <1>7, <1>8, <1>9, <1>10, <1>11, <1>12
  DEF Next, Agent, Console

\* Every variable has its type in every reachable state.
THEOREM TypeCorrect == Spec => []TypeOK
<1>1. Init => TypeOK
  BY InitIInv DEF IInv
<1> QED
  BY <1>1, TypeStep, PTL DEF Spec

-----------------------------------------------------------------------------
(***************************************************************************)
(* The inductive invariant: one lemma for each kind of step.               *)
(***************************************************************************)

\* Steps that at most take files and requests away and move the agent on.
LEMMA ShrinkStep ==
  ASSUME IInv, TypeOK',
         UNCHANGED <<makingVars, state, seqs, counts, purgedEarly>>,
         spool' \subseteq spool, net' \subseteq net,
         pc' = "trim" => pc = "trim" /\ next'.inst = next.inst /\ next'.seq = next.seq,
         pc' \in {"flush", "wait"} => pc \in {"flush", "wait"},
         pc' # "wait" => answer' = "none",
         pc' = "wait" /\ answer' # "none" =>
           pc = "wait" /\ answer = answer' /\ spool' = spool
  PROVE  IInv'
<1> USE DEF makingVars
<1>1. Sent' \subseteq Sent /\ Live' \subseteq Live
  BY DEF Sent, Live
<1>2. MadeOnly'
  BY <1>1 DEF IInv, MadeOnly
<1>3. SentIsSaved'
  BY <1>1 DEF IInv, SentIsSaved
<1>4. NextIsFresh'
  BY <1>1 DEF IInv, NextIsFresh
<1>5. KeysDiffer' /\ FileNamesDiffer'
  BY <1>1 DEF IInv, KeysDiffer, FileNamesDiffer, SameReportKey
<1>6. RowsAreCounted' /\ CountedIsRemembered' /\ CountedOnce'
  BY DEF IInv, RowsAreCounted, CountedIsRemembered, CountedOnce, Stored, SameKey
<1>7. AcceptedIsCounted'
  BY DEF IInv, AcceptedIsCounted, OldestIn
<1> QED
  BY <1>2, <1>3, <1>4, <1>5, <1>6, <1>7 DEF IInv

\* A new report: its sequence number was never sent, and no other file has it.
LEMMA WriteReportStep ==
  ASSUME IInv, TypeOK', NEW restarted \in BOOLEAN, WriteReport(restarted)
  PROVE  IInv'
<1> DEFINE n == made + 1
           inst == IF state.inst = 0 THEN insts + 1 ELSE state.inst
<1>1. /\ pc = "idle" /\ pc' = "trim" /\ made' = n /\ n \in Ids
      /\ insts' = IF state.inst = 0 THEN insts + 1 ELSE insts
      /\ spool' = {j \in spool : reports[j].seq # NextSeq} \cup {n}
      /\ next' = [inst |-> inst, seq |-> NextSeq, dropped |-> 0]
      /\ UNCHANGED <<state, net, answer, seqs, counts, purgedEarly>>
  BY DEF WriteReport, NewInstance, consoleVars, IInv, TypeOK, Ids
<1>2. /\ reports'[n].inst = inst /\ reports'[n].seq = NextSeq
      /\ \A i \in Ids \ {n} : reports'[i] = reports[i]
  BY <1>1 DEF WriteReport, NewInstance, IInv, TypeOK
<1>3. NextSeq = state.seq + 1 /\ state.seq \in Nat /\ state.inst \in Nat
      /\ insts \in Nat /\ made \in Nat
  BY DEF NextSeq, IInv, TypeOK, AgentState
<1>4. \A i \in Live : i \in Ids /\ i # n /\ i \in 1 .. made
  BY <1>3 DEF IInv, MadeOnly, Live, Sent, TypeOK, Ids
<1>5. n \notin Sent /\ Sent' = Sent /\ Live' \subseteq Live \cup {n}
  BY <1>1, <1>4 DEF Live, Sent
<1>6. \A i \in Live : reports'[i] = reports[i] /\ reports[i].inst \in 1 .. insts
  BY <1>2, <1>4 DEF IInv, MadeOnly
<1>7. inst \in 1 .. insts' /\ insts <= insts' /\ insts' \in Nat
  BY <1>1, <1>3 DEF IInv, MadeOnly
<1>8. \A i \in Sent : ~(reports[i].inst = inst /\ reports[i].seq = NextSeq)
  <2>1. \A i \in Sent : reports[i].inst \in Nat /\ reports[i].seq \in Nat
    BY <1>4 DEF Live, IInv, TypeOK, Report
  <2>2. CASE state.inst = 0
    BY <2>2, <1>3, <1>6, <2>1 DEF Live
  <2>3. CASE state.inst # 0
    BY <2>3, <1>3, <2>1 DEF IInv, SentIsSaved
  <2> QED
    BY <2>2, <2>3
<1> HIDE DEF n, inst
<1>9. MadeOnly'
  <2>1. \A i \in Live' : i <= made'
    BY <1>1, <1>3, <1>4, <1>5 DEF n
  <2>2. \A i \in 1 .. made' : reports'[i].inst \in 1 .. insts'
    <3> SUFFICES ASSUME NEW i \in 1 .. made' PROVE reports'[i].inst \in 1 .. insts'
      OBVIOUS
    <3>1. CASE i = n
      BY <3>1, <1>2, <1>7
    <3>2. CASE i # n
      <4>1. i \in 1 .. made /\ i \in Ids
        BY <3>2, <1>1, <1>3 DEF n, Ids
      <4>2. reports[i].inst \in 1 .. insts
        BY <4>1 DEF IInv, MadeOnly
      <4> QED
        BY <4>1, <4>2, <3>2, <1>2, <1>3, <1>7
    <3> QED
      BY <3>1, <3>2
  <2>3. (/\ state.inst <= insts
         /\ state.inst = 0 => state.seq = 0
         /\ pc # "wait" => answer = "none")'
    BY <1>1, <1>3, <1>7 DEF IInv, MadeOnly
  <2> QED
    BY <2>1, <2>2, <2>3 DEF MadeOnly
<1>10. SentIsSaved'
  <2>1. \A i \in Sent' : reports'[i].inst = state'.inst => reports'[i].seq <= state'.seq
    BY <1>1, <1>5, <1>6 DEF IInv, SentIsSaved, Live
  <2>2. \A i \in spool' :
          reports'[i].inst = state'.inst => reports'[i].seq <= state'.seq + 1
    <3> SUFFICES ASSUME NEW i \in spool', reports'[i].inst = state'.inst
                 PROVE  reports'[i].seq <= state'.seq + 1
      OBVIOUS
    <3>1. CASE i = n
      BY <3>1, <1>1, <1>2, <1>3
    <3>2. CASE i # n
      <4>1. i \in spool
        BY <3>2, <1>1
      <4> QED
        BY <4>1, <1>1, <1>6 DEF IInv, SentIsSaved, Live
    <3> QED
      BY <3>1, <3>2
  <2> QED
    BY <2>1, <2>2, <1>1 DEF SentIsSaved
<1>11. NextIsFresh'
  <2>1. next'.seq = state'.seq + 1 /\ next'.inst \in 1 .. insts'
    BY <1>1, <1>3, <1>7
  <2>2. state'.inst # 0 => next'.inst = state'.inst
    BY <1>1 DEF inst
  <2>3. state'.inst = 0 => \A i \in Sent' : reports'[i].inst # next'.inst
    BY <1>1, <1>3, <1>5, <1>6 DEF inst, Live
  <2>4. \A i \in spool' :
          reports'[i].inst = next'.inst => reports'[i].seq <= next'.seq
    <3> SUFFICES ASSUME NEW i \in spool', reports'[i].inst = next'.inst
                 PROVE  reports'[i].seq <= next'.seq
      OBVIOUS
    <3>1. CASE i = n
      BY <3>1, <1>1, <1>2, <1>3
    <3>2. CASE i # n
      <4>1. i \in spool /\ i \in Live
        BY <3>2, <1>1 DEF Live
      <4>2. reports[i].inst = inst /\ reports[i].inst \in 1 .. insts
        BY <4>1, <1>1, <1>6
      <4>3. state.inst # 0 /\ reports[i].inst = state.inst
        BY <4>2, <1>3 DEF inst
      <4> QED
        BY <4>1, <4>3, <1>1, <1>3, <1>6 DEF IInv, SentIsSaved
    <3> QED
      BY <3>1, <3>2
  <2> QED
    BY <2>1, <2>2, <2>3, <2>4 DEF NextIsFresh
<1>12. KeysDiffer'
  <2> SUFFICES ASSUME NEW i \in Live', NEW j \in Live', SameReportKey(i, j)', i # j
               PROVE  FALSE
    BY DEF KeysDiffer
  <2>1. CASE i # n /\ j # n
    BY <2>1, <1>5, <1>6 DEF IInv, KeysDiffer, SameReportKey
  <2>2. ASSUME NEW k \in Live', k # n,
               reports'[k].inst = inst, reports'[k].seq = NextSeq
        PROVE  FALSE
    <3>1. reports[k].inst = inst /\ reports[k].seq = NextSeq
      BY <2>2, <1>5, <1>6
    <3>2. k \notin spool'
      BY <3>1, <2>2, <1>1
    <3> QED
      BY <3>1, <3>2, <1>5, <1>8 DEF Live
  <2>3. CASE i = n \/ j = n
    BY <2>2, <2>3, <1>2 DEF SameReportKey
  <2> QED
    BY <2>1, <2>3
<1>16. FileNamesDiffer'
  <2> SUFFICES ASSUME NEW i \in spool', NEW j \in spool', i # j,
                      reports'[i].seq = reports'[j].seq
               PROVE  FALSE
    BY DEF FileNamesDiffer
  <2>1. \A k \in spool' : k # n => k \in spool /\ reports'[k].seq # NextSeq
    BY <1>1, <1>6 DEF Live
  <2>2. CASE i # n /\ j # n
    BY <2>1, <2>2, <1>6 DEF IInv, FileNamesDiffer, Live
  <2>3. CASE i = n \/ j = n
    BY <2>1, <2>3, <1>2
  <2> QED
    BY <2>2, <2>3
<1>13. RowsAreCounted'
  BY <1>1, <1>6 DEF IInv, RowsAreCounted, SameKey, Live, Sent
<1>14. CountedIsRemembered' /\ CountedOnce'
  <2>1. \A i \in Ids : counts[i] > 0 => i # n
    BY <1>5 DEF Sent
  <2>2. \A i \in spool' \cup net' : counts'[i] > 0 => i \in spool \cup net
    BY <2>1, <1>1
  <2> QED
    BY <2>2, <1>1, <1>6
    DEF IInv, CountedIsRemembered, CountedOnce, Stored, SameKey, Live, Sent
<1>15. AcceptedIsCounted'
  BY <1>1 DEF AcceptedIsCounted
<1> QED
  BY <1>9, <1>10, <1>11, <1>12, <1>13, <1>14, <1>15, <1>16 DEF IInv

\* The state is saved: from here on the sequence number may be sent.
LEMMA SaveStateStep ==
  ASSUME IInv, TypeOK', SaveState
  PROVE  IInv'
<1>1. /\ pc = "trim" /\ pc' = "flush" /\ state' = next
      /\ UNCHANGED <<reports, made, insts, spool, net, answer, seqs, counts,
                     purgedEarly>>
  BY DEF SaveState, makingVars, consoleVars
<1>2. Sent' = Sent /\ Live' = Live
  BY <1>1 DEF Sent, Live
<1>3. state.seq \in Nat /\ state.inst \in Nat /\ insts \in Nat
      /\ \A i \in Live : reports[i].inst \in Nat /\ reports[i].seq \in Nat
  BY DEF IInv, TypeOK, AgentState, Report, Live, Sent
<1>4. MadeOnly'
  BY <1>1, <1>2, <1>3 DEF IInv, MadeOnly, NextIsFresh
<1>5. SentIsSaved'
  <2>1. \A i \in Sent : reports[i].inst = next.inst => reports[i].seq <= next.seq
    <3> SUFFICES ASSUME NEW i \in Sent, reports[i].inst = next.inst
                 PROVE  reports[i].seq <= next.seq
      OBVIOUS
    <3>1. state.inst # 0 /\ next.inst = state.inst /\ next.seq = state.seq + 1
      BY <1>1 DEF IInv, NextIsFresh
    <3>2. reports[i].seq <= state.seq
      BY <3>1 DEF IInv, SentIsSaved
    <3> QED
      BY <3>1, <3>2, <1>3 DEF Live
  <2>2. \A i \in spool : reports[i].inst = next.inst => reports[i].seq <= next.seq
    BY <1>1 DEF IInv, NextIsFresh
  <2>3. next.seq \in Nat
    BY DEF IInv, TypeOK, AgentState
  <2> QED
    BY <2>1, <2>2, <2>3, <1>1, <1>2, <1>3 DEF SentIsSaved, Live
<1>6. NextIsFresh' /\ AcceptedIsCounted'
  BY <1>1 DEF NextIsFresh, AcceptedIsCounted
<1>7. /\ KeysDiffer' /\ FileNamesDiffer' /\ RowsAreCounted'
      /\ CountedIsRemembered' /\ CountedOnce'
  BY <1>1, <1>2 DEF IInv, KeysDiffer, FileNamesDiffer, SameReportKey, RowsAreCounted,
    CountedIsRemembered, CountedOnce, Stored, SameKey
<1> QED
  BY <1>4, <1>5, <1>6, <1>7 DEF IInv

\* A file is posted: its sequence number is saved by then.
LEMMA PostStep ==
  ASSUME IInv, TypeOK', Post
  PROVE  IInv'
<1>1. PICK k \in spool : OldestIn(spool, k) /\ net' = net \cup {k}
  BY DEF Post
<1>2. /\ pc = "flush" /\ pc' = "wait"
      /\ UNCHANGED <<reports, made, insts, spool, state, answer, seqs, counts,
                     purgedEarly>>
  BY DEF Post, makingVars, consoleVars
<1>3. Sent' = Sent \cup {k} /\ Live' = Live
  BY <1>1, <1>2 DEF Sent, Live
<1>4. MadeOnly' /\ KeysDiffer' /\ FileNamesDiffer' /\ RowsAreCounted'
  BY <1>2, <1>3 DEF IInv, MadeOnly, KeysDiffer, FileNamesDiffer, SameReportKey,
    RowsAreCounted, SameKey
<1>5. SentIsSaved'
  BY <1>1, <1>2, <1>3 DEF IInv, SentIsSaved
<1>6. NextIsFresh' /\ AcceptedIsCounted'
  BY <1>2 DEF IInv, MadeOnly, NextIsFresh, AcceptedIsCounted
<1>7. CountedIsRemembered' /\ CountedOnce'
  BY <1>1, <1>2 DEF IInv, CountedIsRemembered, CountedOnce, Stored, SameKey
<1> QED
  BY <1>4, <1>5, <1>6, <1>7 DEF IInv

\* The state file is lost: the next report starts an instance of its own.
LEMMA LoseStateStep ==
  ASSUME IInv, TypeOK', LoseState
  PROVE  IInv'
<1>1. /\ pc = "idle" /\ pc' = "idle" /\ state'.inst = 0 /\ state'.seq = 0
      /\ UNCHANGED <<reports, made, insts, spool, net, answer, seqs, counts,
                     purgedEarly>>
  BY DEF LoseState, NoState, makingVars, consoleVars
<1>2. Sent' = Sent /\ Live' = Live
  BY <1>1 DEF Sent, Live
<1>3. \A i \in Live : reports[i].inst # 0
  <2>1. \A i \in Live : i \in 1 .. made
    BY DEF IInv, MadeOnly, TypeOK, Live, Sent, Ids
  <2> QED
    BY <2>1 DEF IInv, MadeOnly, TypeOK
<1>4. MadeOnly'
  BY <1>1, <1>2 DEF IInv, MadeOnly, TypeOK
<1>5. SentIsSaved' /\ NextIsFresh' /\ AcceptedIsCounted'
  BY <1>1, <1>2, <1>3 DEF SentIsSaved, NextIsFresh, AcceptedIsCounted, Live
<1>6. /\ KeysDiffer' /\ FileNamesDiffer' /\ RowsAreCounted'
      /\ CountedIsRemembered' /\ CountedOnce'
  BY <1>1, <1>2 DEF IInv, KeysDiffer, FileNamesDiffer, SameReportKey, RowsAreCounted,
    CountedIsRemembered, CountedOnce, Stored, SameKey
<1> QED
  BY <1>4, <1>5, <1>6 DEF IInv

\* What a purge of the rows keeps: every report that may still be sent and was
\* remembered is remembered afterwards, or listed in purgedEarly.
LEMMA PurgeKeeps ==
  ASSUME NEW rows, NEW i \in spool \cup net,
         \E row \in rows : SameKey(row, i),
         i \notin PurgedEarly(rows)
  PROVE  \E row \in Kept(rows) : SameKey(row, i)
BY DEF PurgedEarly

\* Another node's report purges the shared table.
LEMMA PurgeStep ==
  ASSUME IInv, TypeOK', OtherNodePurges
  PROVE  IInv'
<1>1. /\ seqs' = Kept(seqs) /\ purgedEarly' = purgedEarly \cup PurgedEarly(seqs)
      /\ UNCHANGED <<reports, made, insts, spool, state, pc, next, net, answer, counts>>
  BY DEF OtherNodePurges, agentVars, makingVars
<1>2. Sent' = Sent /\ Live' = Live
  BY <1>1 DEF Sent, Live
<1>3. MadeOnly' /\ SentIsSaved' /\ NextIsFresh' /\ KeysDiffer' /\ FileNamesDiffer'
  BY <1>1, <1>2 DEF IInv, MadeOnly, SentIsSaved, NextIsFresh, KeysDiffer,
    FileNamesDiffer, SameReportKey
<1>4. AcceptedIsCounted' /\ CountedOnce'
  BY <1>1 DEF IInv, AcceptedIsCounted, CountedOnce, OldestIn
<1>5. RowsAreCounted'
  BY <1>1 DEF IInv, RowsAreCounted, Kept, SameKey
<1>6. CountedIsRemembered'
  <2> SUFFICES ASSUME NEW i \in (spool \cup net) \ purgedEarly', counts[i] > 0
               PROVE  Stored(i)'
    BY <1>1 DEF CountedIsRemembered
  <2>1. Stored(i) /\ i \notin PurgedEarly(seqs)
    BY <1>1 DEF IInv, CountedIsRemembered
  <2>2. \E row \in Kept(seqs) : SameKey(row, i)
    BY <2>1, PurgeKeeps DEF Stored
  <2> QED
    BY <2>2, <1>1 DEF Stored, SameKey
<1> QED
  BY <1>3, <1>4, <1>5, <1>6 DEF IInv

\* The console handles a request: a fresh one is counted for the first time, and
\* a duplicate is one of the very same report.
LEMMA ReceiveStep ==
  ASSUME IInv, TypeOK', NEW i \in Ids, NEW answered \in BOOLEAN,
         Receive(i, answered)
  PROVE  IInv'
<1> DEFINE row  == [inst |-> reports[i].inst, seq |-> reports[i].seq, at |-> now]
           rows == IF ~Stored(i) THEN seqs \cup {row} ELSE seqs
<1>1. /\ i \in net /\ i \in Live
      /\ counts' = IF ~Stored(i) THEN [counts EXCEPT ![i] = @ + 1] ELSE counts
      /\ UNCHANGED <<reports, made, insts, spool, state, pc, next, net>>
  BY DEF Receive, agentVars, makingVars, Live, Sent
<1>2. \/ seqs' = rows /\ purgedEarly' = purgedEarly
      \/ seqs' = Kept(rows) /\ purgedEarly' = purgedEarly \cup PurgedEarly(rows)
  BY DEF Receive
<1>3. \/ answer' = answer
      \/ /\ pc = "wait" /\ OldestIn(spool, i)
         /\ answer' = IF ~Stored(i) THEN "stored" ELSE "duplicate"
  BY DEF Receive
<1>4. /\ \A j \in Ids : counts[j] \in Nat /\ counts'[j] \in Nat
      /\ \A j \in Ids : counts'[j] >= counts[j]
      /\ \A j \in Ids \ {i} : counts'[j] = counts[j]
      /\ ~Stored(i) => counts'[i] = counts[i] + 1
  BY <1>1 DEF IInv, TypeOK
<1>5. Sent' = Sent /\ Live' = Live
  BY <1>1, <1>4 DEF Sent, Live
<1>6. Stored(i) => counts[i] > 0
  <2> SUFFICES ASSUME Stored(i) PROVE counts[i] > 0
    OBVIOUS
  <2>1. PICK r \in seqs : SameKey(r, i)
    BY DEF Stored
  <2>2. PICK j \in Ids : counts[j] > 0 /\ SameKey(r, j)
    BY DEF IInv, RowsAreCounted
  <2>3. i = j
    BY <1>1, <2>1, <2>2 DEF IInv, KeysDiffer, SameReportKey, SameKey, Live, Sent
  <2> QED
    BY <2>2, <2>3
<1>7. counts'[i] > 0
  BY <1>1, <1>4, <1>6
<1>8. SameKey(row, i) /\ \A r \in rows : r = row \/ r \in seqs
  BY DEF SameKey
<1>9. \A j \in spool \cup net : counts'[j] > 0 /\ j \notin purgedEarly
        => \E r \in rows : SameKey(r, j)
  <2> SUFFICES ASSUME NEW j \in spool \cup net, counts'[j] > 0, j \notin purgedEarly
               PROVE  \E r \in rows : SameKey(r, j)
    OBVIOUS
  <2>1. CASE j = i
    BY <2>1, <1>8 DEF Stored
  <2>2. CASE j # i
    <3>1. Stored(j)
      BY <2>2, <1>4 DEF IInv, CountedIsRemembered, TypeOK
    <3> QED
      BY <3>1 DEF Stored
  <2> QED
    BY <2>1, <2>2
<1> HIDE DEF row, rows
<1>10. MadeOnly'
  BY <1>1, <1>3, <1>5 DEF IInv, MadeOnly
<1>11. SentIsSaved' /\ NextIsFresh' /\ KeysDiffer' /\ FileNamesDiffer'
  BY <1>1, <1>5 DEF IInv, SentIsSaved, NextIsFresh, KeysDiffer, FileNamesDiffer,
    SameReportKey
<1>12. RowsAreCounted'
  <2>1. \A r \in rows : \E j \in Ids : counts'[j] > 0 /\ SameKey(r, j)
    <3> SUFFICES ASSUME NEW r \in rows
                 PROVE  \E j \in Ids : counts'[j] > 0 /\ SameKey(r, j)
      OBVIOUS
    <3>1. CASE r = row
      BY <3>1, <1>7, <1>8
    <3>2. CASE r \in seqs
      <4>1. PICK j \in Ids : counts[j] > 0 /\ SameKey(r, j)
        BY <3>2 DEF IInv, RowsAreCounted
      <4> QED
        BY <4>1, <1>4
    <3> QED
      BY <3>1, <3>2, <1>8
  <2>2. seqs' \subseteq rows
    BY <1>2 DEF Kept
  <2> QED
    BY <2>1, <2>2, <1>1 DEF RowsAreCounted, SameKey
<1>13. CountedIsRemembered'
  <2> SUFFICES ASSUME NEW j \in (spool \cup net) \ purgedEarly', counts'[j] > 0
               PROVE  \E r \in seqs' : SameKey(r, j)
    BY <1>1 DEF CountedIsRemembered, Stored, SameKey
  <2>1. \E r \in rows : SameKey(r, j)
    BY <1>2, <1>9
  <2>2. CASE seqs' = rows
    BY <2>1, <2>2
  <2>3. CASE seqs' = Kept(rows) /\ purgedEarly' = purgedEarly \cup PurgedEarly(rows)
    BY <2>1, <2>3, PurgeKeeps
  <2> QED
    BY <2>2, <2>3, <1>2
<1>14. CountedOnce'
  <2> SUFFICES ASSUME NEW j \in Ids, j \notin purgedEarly' PROVE counts'[j] <= 1
    BY DEF CountedOnce
  <2>1. j \notin purgedEarly /\ counts[j] <= 1
    BY <1>2 DEF IInv, CountedOnce
  <2>2. CASE j = i /\ ~Stored(i)
    <3>1. ~(counts[i] > 0)
      BY <2>1, <2>2, <1>1 DEF IInv, CountedIsRemembered
    <3> QED
      BY <3>1, <2>2, <1>4
  <2>3. CASE j # i \/ Stored(i)
    BY <2>1, <2>3, <1>1, <1>4
  <2> QED
    BY <2>2, <2>3
<1>15. AcceptedIsCounted'
  <2> SUFFICES ASSUME pc = "wait", answer' \in {"stored", "duplicate"},
                      NEW j \in spool, OldestIn(spool, j)
               PROVE  counts'[j] > 0
    BY <1>1 DEF AcceptedIsCounted, OldestIn
  <2>1. CASE answer' = answer
    BY <2>1, <1>4 DEF IInv, AcceptedIsCounted, TypeOK
  <2>2. CASE OldestIn(spool, i)
    <3>2. i \in spool /\ reports[i].seq \in Nat /\ reports[j].seq \in Nat
      BY <2>2 DEF OldestIn, IInv, TypeOK, Report
    <3>3. reports[i].seq <= reports[j].seq /\ reports[j].seq <= reports[i].seq
      BY <2>2, <3>2 DEF OldestIn
    <3>1. reports[i].seq = reports[j].seq /\ i \in spool
      BY <3>2, <3>3
    <3> QED
      BY <3>1, <1>7 DEF IInv, FileNamesDiffer
  <2> QED
    BY <2>1, <2>2, <1>3
<1> QED
  BY <1>10, <1>11, <1>12, <1>13, <1>14, <1>15 DEF IInv

-----------------------------------------------------------------------------
\* Every step preserves the inductive invariant.
LEMMA IInvStep == IInv /\ [Next]_vars => IInv'
<1> SUFFICES ASSUME IInv, [Next]_vars PROVE IInv'
  OBVIOUS
<1>1. TypeOK'
  BY TypeStep DEF IInv
<1>2. CASE DropOldest
  BY <1>1, <1>2, ShrinkStep DEF DropOldest, IInv, MadeOnly, makingVars, consoleVars
<1>3. CASE Remove \/ FlushDone \/ EndCycle
  BY <1>1, <1>3, ShrinkStep
  DEF Remove, FlushDone, EndCycle, IInv, MadeOnly, makingVars, consoleVars
<1>4. CASE Crash \/ DayPasses \/ UNCHANGED vars \/ \E i \in Ids : LoseRequest(i)
  BY <1>1, <1>4, ShrinkStep DEF Crash, DayPasses, LoseRequest, IInv, MadeOnly, vars,
    agentVars, makingVars, consoleVars
<1> QED
  BY <1>1, <1>2, <1>3, <1>4, WriteReportStep, SaveStateStep, PostStep, LoseStateStep,
    PurgeStep, ReceiveStep
  DEF Next, Agent, Console

\* The inductive invariant holds in every reachable state.
THEOREM Invariance == Spec => []IInv
BY InitIInv, IInvStep, PTL DEF Spec

\* Whatever is resent, late, lost or purged, and wherever the agent stops, the
\* traffic of a report is counted at most once unless its row was purged early.
THEOREM CountedAtMostOnce == Spec => []CountedOnce
<1>1. IInv => CountedOnce
  BY DEF IInv
<1> QED
  BY <1>1, Invariance, PTL

\* A file is deleted only when the traffic of that very report is counted.
THEOREM AcceptedWasCounted == Spec => []AcceptedIsCounted
<1>1. IInv => AcceptedIsCounted
  BY DEF IInv
<1> QED
  BY <1>1, Invariance, PTL

-----------------------------------------------------------------------------
(***************************************************************************)
(* The other invariants, and the refinement.                               *)
(***************************************************************************)

\* Reports come late and out of order, and still the status shown is the newest
\* one counted and the last restart is never forgotten (reports.store:
\* "a retried older report ... does not replace a newer status").
StatusIsNewest == \A i \in Ids : counts[i] > 0 => i <= status

RestartIsRemembered ==
  \A i \in Ids : counts[i] > 0 /\ reports[i].restarted => i <= restartAt

\* Late and reordered reports never push the status or the last restart back.
LEMMA NewestStep ==
  ASSUME IInv, StatusIsNewest, RestartIsRemembered, [Next]_vars
  PROVE  StatusIsNewest' /\ RestartIsRemembered'
<1> USE DEF StatusIsNewest, RestartIsRemembered
<1>1. ASSUME NEW restarted \in BOOLEAN, WriteReport(restarted)
      PROVE  StatusIsNewest' /\ RestartIsRemembered'
  <2>1. /\ UNCHANGED <<counts, status, restartAt>> /\ made + 1 \in Ids
        /\ \A i \in Ids \ {made + 1} : reports'[i] = reports[i]
    BY <1>1 DEF WriteReport, NewInstance, consoleVars, IInv, TypeOK, Ids
  <2>2. \A i \in Ids : counts[i] > 0 => i # made + 1
    BY DEF IInv, MadeOnly, TypeOK, Live, Sent, Ids
  <2> QED
    BY <2>1, <2>2
<1>2. ASSUME NEW i \in Ids, NEW answered \in BOOLEAN, Receive(i, answered)
      PROVE  StatusIsNewest' /\ RestartIsRemembered'
  <2>1. /\ reports' = reports
        /\ \/ UNCHANGED <<counts, status, restartAt>>
           \/ /\ \A j \in Ids \ {i} : counts'[j] = counts[j]
              /\ status' = IF i >= status THEN i ELSE status
              /\ restartAt' = IF reports[i].restarted /\ i > restartAt
                                THEN i ELSE restartAt
    BY <1>2 DEF Receive, agentVars, makingVars, ReplacesStatus, LatestRestart,
      IInv, TypeOK
  <2>2. status \in Nat /\ restartAt \in Nat /\ \A j \in Ids : j \in Nat
    BY DEF IInv, TypeOK, Ids
  <2> QED
    BY <2>1, <2>2
<1>3. CASE UNCHANGED <<reports, counts, status, restartAt>>
  BY <1>3
<1> QED
  BY <1>1, <1>2, <1>3 DEF Next, Agent, Console, DropOldest, SaveState, Post, Remove,
    FlushDone, EndCycle, Crash, LoseState, OtherNodePurges, LoseRequest, DayPasses,
    vars, agentVars, makingVars, consoleVars

\* The status shown is the newest one counted, and no restart is forgotten.
THEOREM NewestIsShown == Spec => [](StatusIsNewest /\ RestartIsRemembered)
<1>1. Init => StatusIsNewest /\ RestartIsRemembered
  BY DEF Init, StatusIsNewest, RestartIsRemembered
<1>2. IInv /\ StatusIsNewest /\ RestartIsRemembered /\ [Next]_vars
      => (StatusIsNewest /\ RestartIsRemembered)'
  BY NewestStep
<1> QED
  BY <1>1, <1>2, Invariance, PTL DEF Spec

\* While no row is purged early, every step is a step of the ledger or a stutter.
LEMMA LedgerStep ==
  ASSUME IInv, IInv', purgedEarly = {}, [Next]_vars
  PROVE  [Ledger!LedgerNext]_(Ledger!ledger)
<1> DEFINE open == {i \in spool \cup net : counts[i] = 0}
<1> USE DEF Ledger!LedgerNext, Ledger!ledger
<1>1. ASSUME NEW restarted \in BOOLEAN, WriteReport(restarted)
      PROVE  Ledger!Make
  <2> DEFINE n == made + 1
             gone == open \ open'
  <2>1. /\ n \in Ids /\ n \in spool' /\ spool' \subseteq spool \cup {n}
        /\ UNCHANGED <<net, counts>>
    BY <1>1 DEF WriteReport, NewInstance, consoleVars, IInv, TypeOK, Ids
  <2>2. n \notin spool \cup net /\ counts[n] = 0
    BY <2>1 DEF IInv, MadeOnly, TypeOK, Live, Sent, Ids
  <2>3. open' = (open \ gone) \cup {n} /\ gone \in SUBSET open
    BY <2>1, <2>2
  <2> QED
    BY <2>1, <2>2, <2>3 DEF Ledger!Make
<1>2. ASSUME UNCHANGED counts, spool' \cup net' \subseteq spool \cup net
      PROVE  Ledger!GiveUpOn
  <2>1. open' = open \ (open \ open')
    BY <1>2
  <2> QED
    BY <2>1, <1>2 DEF Ledger!GiveUpOn
<1>3. ASSUME NEW i \in Ids, NEW answered \in BOOLEAN, Receive(i, answered)
      PROVE  Ledger!Count(i) \/ UNCHANGED Ledger!ledger
  <2>1. i \in net /\ UNCHANGED <<spool, net>>
    BY <1>3 DEF Receive, agentVars
  <2>2. CASE Stored(i)
    <3>1. UNCHANGED counts
      BY <1>3, <2>2 DEF Receive
    <3> QED
      BY <2>1, <3>1
  <2>3. CASE ~Stored(i)
    <3>1. counts' = [counts EXCEPT ![i] = @ + 1]
      BY <1>3, <2>3 DEF Receive
    <3>2. counts[i] = 0
      BY <2>1, <2>3 DEF IInv, CountedIsRemembered, TypeOK
    <3>3. counts' = [counts EXCEPT ![i] = 1]
      BY <3>1, <3>2 DEF IInv, TypeOK
    <3>4. open' = open \ {i}
      BY <2>1, <3>2, <3>3 DEF IInv, TypeOK
    <3> QED
      BY <2>1, <3>2, <3>3, <3>4 DEF Ledger!Count
  <2> QED
    BY <2>2, <2>3
<1>4. CASE Post
  <2>1. UNCHANGED counts /\ spool' \cup net' = spool \cup net
    BY <1>4 DEF Post, consoleVars
  <2> QED
    BY <2>1, <1>2
<1>5. CASE DropOldest \/ SaveState \/ Remove \/ FlushDone \/ EndCycle \/ Crash
           \/ LoseState
  <2>1. UNCHANGED counts /\ spool' \subseteq spool /\ net' = net
    BY <1>5 DEF DropOldest, SaveState, Remove, FlushDone, EndCycle, Crash, LoseState,
      consoleVars
  <2> QED
    BY <2>1, <1>2
<1>6. CASE OtherNodePurges \/ DayPasses \/ (\E i \in Ids : LoseRequest(i))
  <2>1. UNCHANGED counts /\ spool' = spool /\ net' \subseteq net
    BY <1>6 DEF OtherNodePurges, DayPasses, LoseRequest, agentVars, consoleVars
  <2> QED
    BY <2>1, <1>2
<1>7. CASE UNCHANGED vars
  BY <1>7 DEF vars
<1> QED
  BY <1>1, <1>3, <1>4, <1>5, <1>6, <1>7 DEF Next, Agent, Console

\* The pipeline implements the ledger as long as no row is purged while its
\* report can still be sent.
THEOREM ImplementsLedger == Spec /\ [](purgedEarly = {}) => LedgerSpec
<1>1. Init => Ledger!LedgerInit
  BY DEF Init, Ledger!LedgerInit
<1> QED
  BY <1>1, LedgerStep, Invariance, PTL DEF Spec, LedgerSpec, Ledger!LedgerSpec

-----------------------------------------------------------------------------
(***************************************************************************)
(* No report is counted out of order.                                      *)
(***************************************************************************)

\* A sent report is not newer than the files left of its instance.
LEMMA SentInOrderStep ==
  ASSUME IInv, SentInOrder, [Next]_vars
  PROVE  SentInOrder'
<1>1. /\ \A i \in Ids : counts[i] \in Nat /\ reports[i].inst \in Nat /\ reports[i].seq \in Nat
      /\ spool \subseteq Ids /\ net \subseteq Ids
      /\ state.seq \in Nat /\ state.inst \in Nat /\ insts \in Nat
  BY DEF IInv, TypeOK, Report, AgentState
<1>2. ASSUME reports' = reports, spool' \subseteq spool, Sent' \subseteq Sent
      PROVE  SentInOrder'
  BY <1>2 DEF SentInOrder
<1>3. ASSUME NEW restarted \in BOOLEAN, WriteReport(restarted) PROVE SentInOrder'
  <2> DEFINE n == made + 1
             inst == IF state.inst = 0 THEN insts + 1 ELSE state.inst
  <2>1. /\ n \in Ids /\ UNCHANGED <<net, counts>> /\ spool' \subseteq spool \cup {n}
        /\ reports' = [reports EXCEPT ![n] =
             [inst |-> inst, seq |-> state.seq + 1, restarted |-> restarted,
              mark |-> state.dropped]]
    BY <1>3 DEF WriteReport, NewInstance, NextSeq, consoleVars, IInv, TypeOK, Ids
  <2>2. /\ reports'[n].inst = inst /\ reports'[n].seq = state.seq + 1
        /\ \A i \in Ids \ {n} : reports'[i] = reports[i]
    BY <2>1 DEF IInv, TypeOK
  <2>3. Sent' = Sent /\ n \notin Sent /\ \A j \in Sent : j \in Ids /\ reports[j].inst \in 1 .. insts
    BY <2>1, <1>1 DEF Sent, IInv, MadeOnly, Live, TypeOK, Ids
  <2>4. ASSUME NEW j \in Sent, reports[j].inst = inst PROVE reports[j].seq <= state.seq + 1
    <3>1. reports[j].inst = state.inst
      BY <1>1, <2>3, <2>4
    <3>2. reports[j].seq <= state.seq
      BY <3>1 DEF IInv, SentIsSaved
    <3> QED
      BY <1>1, <2>3, <3>2
  <2> HIDE DEF n, inst
  <2> QED
    BY <1>1, <2>1, <2>2, <2>3, <2>4 DEF SentInOrder
<1>4. CASE Post
  <2>1. PICK k \in spool : OldestIn(spool, k) /\ net' = net \cup {k}
    BY <1>4 DEF Post
  <2>2. UNCHANGED <<reports, spool, counts>> /\ Sent' = Sent \cup {k}
    BY <1>4, <2>1 DEF Post, makingVars, consoleVars, Sent
  <2> QED
    BY <2>1, <2>2 DEF SentInOrder, OldestIn
<1>5. ASSUME NEW i \in Ids, NEW answered \in BOOLEAN, Receive(i, answered)
      PROVE  SentInOrder'
  <2>1. i \in net /\ UNCHANGED <<reports, spool, net>>
        /\ \A j \in Ids \ {i} : counts'[j] = counts[j]
    BY <1>5 DEF Receive, agentVars, makingVars, IInv, TypeOK
  <2>2. Sent' \subseteq Sent
    BY <1>1, <2>1 DEF Sent
  <2> QED
    BY <1>2, <2>1, <2>2
<1>6. CASE \/ DropOldest \/ SaveState \/ Remove \/ FlushDone \/ EndCycle \/ Crash
           \/ LoseState \/ OtherNodePurges \/ DayPasses \/ UNCHANGED vars
           \/ \E i \in Ids : LoseRequest(i)
  <2>1. UNCHANGED <<reports, counts>> /\ spool' \subseteq spool /\ net' \subseteq net
    BY <1>6 DEF DropOldest, SaveState, Remove, FlushDone, EndCycle, Crash, LoseState,
      OtherNodePurges, DayPasses, LoseRequest, vars, agentVars, consoleVars, makingVars
  <2>2. Sent' \subseteq Sent
    BY <2>1 DEF Sent
  <2> QED
    BY <1>2, <2>1, <2>2
<1> QED
  BY <1>3, <1>4, <1>5, <1>6 DEF Next, Agent, Console

\* A report is first counted after a later one of its instance only when its file is
\* gone, dropped over the limit: flush stops at the first failure.
THEOREM OrderIsKept == Spec => CountedInOrder
<1>1. Init => SentInOrder
  BY DEF Init, SentInOrder
<1>2. IInv /\ SentInOrder /\ [Next]_vars => SentInOrder'
  BY SentInOrderStep
<1>3. IInv /\ SentInOrder =>
        (\A i, j \in Ids :
           /\ counts[i] = 0 /\ counts'[i] = 1 /\ counts[j] > 0
           /\ reports[i].inst = reports[j].inst /\ reports[i].seq < reports[j].seq
           => i \notin spool)
  BY DEF IInv, TypeOK, Report, SentInOrder, Sent
<1> QED
  BY <1>1, <1>2, <1>3, Invariance, PTL DEF Spec, CountedInOrder

-----------------------------------------------------------------------------
(***************************************************************************)
(* Sums.                                                                   *)
(***************************************************************************)

\* A set of numbers that has 0 and with each number the next has all.
LEMMA Induct == ASSUME NEW T \in SUBSET Nat, 0 \in T, \A n \in T : n + 1 \in T PROVE T = Nat
<1> DEFINE Others == Nat \ T
<1>1. ASSUME Others # {} PROVE FALSE
  <2>1. PICK x \in Others : \A y \in Others : ~(<<y, x>> \in OpToRel(<, Nat))
    <3>1. Others \subseteq Nat
      OBVIOUS
    <3> HIDE DEF Others
    <3> QED
      BY <3>1, <1>1, NatLessThanWellFounded, WFMin
  <2>2. x # 0 /\ x \in Nat /\ x - 1 \in Nat /\ x - 1 + 1 = x
    OBVIOUS
  <2>3. x - 1 \in Others
    BY <2>1, <2>2
  <2>4. <<x - 1, x>> \in OpToRel(<, Nat)
    BY <2>2 DEF OpToRel
  <2> QED
    BY <2>1, <2>3, <2>4
<1> QED
  BY <1>1

IsSum(f, n, tells) == f = [i \in 0 .. n |-> IF i = 0 THEN 0 ELSE f[i - 1] + tells[i]]

LEMMA SumExists == ASSUME NEW tells PROVE \E f : IsSum(f, MaxReports, tells)
<1> DEFINE T == {n \in Nat : \E f : IsSum(f, n, tells)}
<1>1. 0 \in T
  <2>1. IsSum([i \in 0 .. 0 |-> 0], 0, tells)
    BY DEF IsSum
  <2> QED
    BY <2>1
<1>2. ASSUME NEW n \in T PROVE n + 1 \in T
  <2>1. n \in Nat
    OBVIOUS
  <2>2. PICK f : IsSum(f, n, tells)
    OBVIOUS
  <2> DEFINE g == [i \in 0 .. n + 1 |-> IF i = 0 THEN 0 ELSE f[i - 1] + tells[i]]
  <2>3. \A i \in 0 .. n : f[i] = IF i = 0 THEN 0 ELSE f[i - 1] + tells[i]
    BY <2>2 DEF IsSum
  <2>4. \A i \in 0 .. n : g[i] = f[i]
    BY <2>1, <2>3
  <2>5. \A i \in 0 .. n + 1 : g[i] = IF i = 0 THEN 0 ELSE g[i - 1] + tells[i]
    <3>1. \A i \in 0 .. n + 1 : i # 0 => i - 1 \in 0 .. n
      BY <2>1
    <3> QED
      BY <2>4, <3>1
  <2>6. g = [i \in 0 .. n + 1 |-> g[i]]
    OBVIOUS
  <2> HIDE DEF g
  <2>7. IsSum(g, n + 1, tells)
    BY <2>5, <2>6 DEF IsSum
  <2> QED
    BY <2>1, <2>7
<1>3. T \in SUBSET Nat
  OBVIOUS
<1> HIDE DEF T
<1>4. T = Nat
  BY <1>1, <1>2, <1>3, Induct
<1> QED
  BY <1>4 DEF T

\* Total adds up, one report after the other.
LEMMA TotalSteps ==
  ASSUME NEW tells \in [Ids -> Nat]
  PROVE  \E f \in [0 .. MaxReports -> Nat] :
           /\ f[0] = 0 /\ \A n \in Ids : f[n] = f[n - 1] + tells[n]
           /\ Total(tells) = f[MaxReports]
<1> DEFINE f == CHOOSE g : IsSum(g, MaxReports, tells)
<1>1. IsSum(f, MaxReports, tells)
  BY SumExists
<1>2. Total(tells) = f[MaxReports]
  BY DEF Total, IsSum
<1> HIDE DEF f
<1>3. f[0] = 0 /\ \A n \in Ids : f[n] = f[n - 1] + tells[n]
  BY <1>1 DEF IsSum, Ids
<1>4. \A n \in 0 .. MaxReports : f[n] \in Nat
  <2> DEFINE T == {n \in Nat : n <= MaxReports => f[n] \in Nat}
  <2>1. 0 \in T /\ T \in SUBSET Nat
    BY <1>3
  <2>2. ASSUME NEW n \in T PROVE n + 1 \in T
    <3>1. ASSUME n + 1 <= MaxReports PROVE f[n + 1] \in Nat
      <4>1. f[n] \in Nat /\ n + 1 \in Ids /\ n + 1 - 1 = n
        BY <3>1 DEF Ids
      <4>2. f[n + 1] = f[n] + tells[n + 1] /\ tells[n + 1] \in Nat
        BY <4>1, <1>3
      <4> QED
        BY <4>1, <4>2
    <3> QED
      BY <3>1
  <2> HIDE DEF T
  <2>3. T = Nat
    BY <2>1, <2>2, Induct
  <2> QED
    BY <2>3 DEF T
<1>5. f \in [0 .. MaxReports -> Nat]
  BY <1>1, <1>4 DEF IsSum
<1> QED
  BY <1>2, <1>3, <1>5

LEMMA AddUp ==
  ASSUME NEW a, NEW b, NEW x, NEW y, NEW m, NEW e,
         a \in Nat, b \in Nat, x \in Nat, y \in Nat, m \in Int, e \in Int,
         b <= a + m, y <= x + e
  PROVE  b + y <= (a + x) + (m + e)
OBVIOUS

\* When one report tells at most d more (or at least -d less) and no other tells more,
\* neither do all of them.
LEMMA TotalDiffers ==
  ASSUME NEW tells \in [Ids -> Nat], NEW told \in [Ids -> Nat], NEW k \in Ids, NEW d \in Int,
         \A i \in Ids \ {k} : told[i] <= tells[i], told[k] <= tells[k] + d
  PROVE  Total(told) <= Total(tells) + d
<1>1. PICK f \in [0 .. MaxReports -> Nat] :
           /\ f[0] = 0 /\ \A n \in Ids : f[n] = f[n - 1] + tells[n]
           /\ Total(tells) = f[MaxReports]
  BY TotalSteps
<1>2. PICK g \in [0 .. MaxReports -> Nat] :
           /\ g[0] = 0 /\ \A n \in Ids : g[n] = g[n - 1] + told[n]
           /\ Total(told) = g[MaxReports]
  BY TotalSteps
<1> DEFINE more == [n \in Nat |-> IF k <= n THEN d ELSE 0]
           T == {n \in Nat : n <= MaxReports => g[n] <= f[n] + more[n]}
<1>3. 0 \in T /\ T \in SUBSET Nat
  <2>1. more[0] = 0
    BY DEF Ids
  <2>2. g[0] <= f[0] + more[0]
    BY <1>1, <1>2, <2>1
  <2> QED
    BY <2>2
<1>4. ASSUME NEW n \in T PROVE n + 1 \in T
  <2>1. ASSUME n + 1 <= MaxReports
        PROVE  g[n + 1] <= f[n + 1] + more[n + 1]
    <3>1. /\ n \in Nat /\ n + 1 \in Ids /\ n + 1 - 1 = n /\ n \in 0 .. MaxReports /\ k \in Nat
          /\ n + 1 \in 0 .. MaxReports
      BY <2>1 DEF Ids
    <3>2. g[n] <= f[n] + more[n]
      BY <2>1, <3>1
    <3>3. f[n + 1] = f[n] + tells[n + 1] /\ g[n + 1] = g[n] + told[n + 1]
      BY <1>1, <1>2, <3>1
    <3>4. f[n] \in Nat /\ g[n] \in Nat /\ tells[n + 1] \in Nat /\ told[n + 1] \in Nat
      BY <3>1
    <3>5. PICK e \in {0, d} : told[n + 1] <= tells[n + 1] + e /\ more[n + 1] = more[n] + e
      <4>1. CASE k = n + 1
        <5>1. more[n] = 0 /\ more[n + 1] = d
          BY <3>1, <4>1
        <5> QED
          BY <4>1, <5>1
      <4>2. CASE k # n + 1
        <5>1. more[n + 1] = more[n] /\ more[n] \in Int
          BY <3>1, <4>2
        <5>2. told[n + 1] <= tells[n + 1] + 0
          BY <3>1, <3>4, <4>2
        <5> QED
          BY <5>1, <5>2
      <4> QED
        BY <4>1, <4>2
    <3>6. more[n] \in Int /\ e \in Int
      BY <3>1
    <3> HIDE DEF more, T
    <3>7. g[n] + told[n + 1] <= (f[n] + tells[n + 1]) + (more[n] + e)
      BY <3>2, <3>4, <3>5, <3>6, AddUp
    <3> QED
      BY <3>3, <3>5, <3>7
  <2> QED
    BY <2>1
<1> HIDE DEF T
<1>5. T = Nat
  BY <1>3, <1>4, Induct
<1>6. MaxReports \in Nat /\ k <= MaxReports
  BY DEF Ids
<1>7. g[MaxReports] <= f[MaxReports] + d
  <2>1. more[MaxReports] = d
    BY <1>6
  <2> HIDE DEF more
  <2>3. MaxReports \in T
    BY <1>5, <1>6
  <2>2. g[MaxReports] <= f[MaxReports] + more[MaxReports]
    BY <1>6, <2>3 DEF T
  <2> QED
    BY <2>1, <2>2
<1> QED
  BY <1>1, <1>2, <1>7

LEMMA TotalType == ASSUME NEW tells \in [Ids -> Nat] PROVE Total(tells) \in Nat
BY TotalSteps

\* When none tells more.
LEMMA TotalShrinks ==
  ASSUME NEW tells \in [Ids -> Nat], NEW told \in [Ids -> Nat],
         \A i \in Ids : told[i] <= tells[i]
  PROVE  Total(told) <= Total(tells)
<1>1. CASE Ids = {}
  <2>1. tells = told
    BY <1>1
  <2> QED
    BY <2>1, TotalType
<1>2. CASE Ids # {}
  <2>1. PICK k \in Ids : TRUE
    BY <1>2
  <2>2. told[k] <= tells[k] + 0
    OBVIOUS
  <2>3. Total(told) <= Total(tells) + 0
    BY <2>2, TotalDiffers
  <2> QED
    BY <2>3, TotalType
<1> QED
  BY <1>1, <1>2

-----------------------------------------------------------------------------
(***************************************************************************)
(* No dropped report is announced twice.                                   *)
(***************************************************************************)

LEMMA AnnounceType ==
  ASSUME TypeOK
  PROVE  /\ ToAnnounce \in [Ids -> Nat] /\ Total(ToAnnounce) \in Nat
         /\ announced \in Nat /\ drops \in Nat /\ DroppedNow \in Nat
         /\ state.dropped \in Nat /\ state.seq \in Nat /\ state.inst \in Nat
         /\ next.dropped \in Nat /\ next.seq \in Nat /\ next.inst \in Nat
         /\ \A i \in Ids : reports[i].mark \in Nat
<1>1. /\ \A i \in Ids : reports[i].mark \in Nat
      /\ state.dropped \in Nat /\ state.seq \in Nat /\ state.inst \in Nat
      /\ next.dropped \in Nat /\ next.seq \in Nat /\ next.inst \in Nat
  BY DEF TypeOK, Report, AgentState
<1>2. ToAnnounce \in [Ids -> Nat]
  BY <1>1 DEF ToAnnounce
<1>3. DroppedNow \in Nat
  BY <1>1 DEF DroppedNow
<1> QED
  BY <1>1, <1>2, <1>3, TotalType DEF TypeOK

\* Numbers only: the sum changes by x, the rest by no more than the drops.
LEMMA Within ==
  ASSUME NEW a, NEW t, NEW b, NEW n, NEW d, NEW c, NEW u, NEW e, NEW m, NEW f, NEW x,
         a \in Nat, t \in Nat, b \in Nat, n \in Nat, d \in Nat,
         c \in Nat, u \in Nat, e \in Nat, m \in Nat, f \in Nat, x \in Int,
         a + t + b + n <= d, u <= t + x, c + x + e + m + d <= a + b + n + f
  PROVE  c + u + e + m <= f
OBVIOUS

LEMMA CoverStep ==
  ASSUME TypeOK, TypeOK', DropsCoverAll, purgedEarly \subseteq purgedEarly', NEW x \in Int,
         Total(ToAnnounce)' <= Total(ToAnnounce) + x,
         announced' + x + state'.dropped + DroppedNow' + drops
           <= announced + state.dropped + DroppedNow + drops'
  PROVE  DropsCoverAll'
<1>1. (Total(ToAnnounce) \in Nat /\ announced \in Nat /\ drops \in Nat
        /\ DroppedNow \in Nat /\ state.dropped \in Nat)'
  BY AnnounceType, PTL
<1>2. Total(ToAnnounce) \in Nat /\ announced \in Nat /\ drops \in Nat
        /\ DroppedNow \in Nat /\ state.dropped \in Nat
  BY AnnounceType
<1>3. ASSUME purgedEarly' = {}
      PROVE  (announced + Total(ToAnnounce) + state.dropped + DroppedNow <= drops)'
  <2>1. announced + Total(ToAnnounce) + state.dropped + DroppedNow <= drops
    BY <1>3 DEF DropsCoverAll
  <2> QED
    BY <1>1, <1>2, <2>1, Within
<1> QED
  BY <1>3 DEF DropsCoverAll

\* Numbers only: the drops grow by what is remembered of them.
LEMMA SameOtherwise ==
  ASSUME NEW a, NEW e, NEW n, NEW m, NEW d, NEW f,
         a \in Nat, e \in Nat, n \in Nat, m \in Nat, d \in Nat, f \in Nat, m + d <= n + f
  PROVE  a + 0 + e + m + d <= a + e + n + f
OBVIOUS

\* What was sent is saved, and at most one file is not.
LEMMA SavedOrLast ==
  ASSUME IInv
  PROVE  /\ \A i \in Sent : ~Unsaved(i)
         /\ \A i, j \in spool : Unsaved(i) /\ Unsaved(j) => i = j
<1>1. state.seq \in Nat /\ spool \subseteq Ids
  BY DEF IInv, TypeOK, AgentState
<1>2. \A i \in Sent : ~Unsaved(i)
  BY <1>1 DEF IInv, SentIsSaved, Unsaved
<1>3. \A i, j \in spool : Unsaved(i) /\ Unsaved(j) => i = j
  BY DEF IInv, FileNamesDiffer, Unsaved
<1> QED
  BY <1>2, <1>3

\* Steps by which files and requests only go, each dropped file being counted.
LEMMA AnnounceShrinks ==
  ASSUME AnnounceIInv, TypeOK', UNCHANGED <<reports, counts, state, announced>>,
         spool' \subseteq spool, spool' \cup net' \subseteq spool \cup net,
         purgedEarly \subseteq purgedEarly', DroppedNow' + drops <= DroppedNow + drops'
  PROVE  UnsavedTellsDropped' /\ DropsCoverAll'
<1>1. TypeOK
  BY DEF AnnounceIInv, IInv
<1>2. \A i \in Ids : ToAnnounce'[i] <= ToAnnounce[i]
  <2>1. ASSUME NEW i \in Ids PROVE ToAnnounce'[i] <= ToAnnounce[i]
    <3>1. reports[i].mark \in Nat
      BY <1>1, AnnounceType
    <3> QED
      BY <3>1 DEF ToAnnounce, Unsaved
  <2> QED
    BY <2>1
<1>3. Total(ToAnnounce)' <= Total(ToAnnounce)
  <2>1. ToAnnounce \in [Ids -> Nat]
    BY <1>1, AnnounceType
  <2>3. (ToAnnounce \in [Ids -> Nat])'
    BY AnnounceType, PTL
  <2>2. Total(ToAnnounce') <= Total(ToAnnounce)
    BY <1>2, <2>1, <2>3, TotalShrinks
  <2> QED
    BY <2>2
<1>4. UnsavedTellsDropped'
  BY DEF AnnounceIInv, UnsavedTellsDropped, Unsaved
<1>5. DropsCoverAll'
  <2>1. Total(ToAnnounce)' <= Total(ToAnnounce) + 0
    BY <1>1, <1>3, AnnounceType
  <2>2. announced' = announced /\ state' = state
        /\ DroppedNow' + drops <= DroppedNow + drops'
    OBVIOUS
  <2>3. announced \in Nat /\ drops \in Nat /\ DroppedNow \in Nat /\ state.dropped \in Nat
    BY <1>1, AnnounceType
  <2>4. (drops \in Nat /\ DroppedNow \in Nat)'
    BY AnnounceType, PTL
  <2>5. announced' + 0 + state'.dropped + DroppedNow' + drops
           <= announced + state.dropped + DroppedNow + drops'
    BY <2>2, <2>3, <2>4, SameOtherwise
  <2> QED
    BY <1>1, <2>1, <2>5, CoverStep DEF AnnounceIInv
<1> QED
  BY <1>4, <1>5

\* A new report takes the count of the state, which it leaves there until it is saved.
LEMMA AnnounceWrite ==
  ASSUME AnnounceIInv, IInv', NEW restarted \in BOOLEAN, WriteReport(restarted)
  PROVE  UnsavedTellsDropped' /\ DropsCoverAll'
<1> DEFINE n == made + 1
           inst == IF state.inst = 0 THEN insts + 1 ELSE state.inst
<1>1. TypeOK /\ TypeOK' /\ IInv
  BY DEF AnnounceIInv, IInv
<1>2. /\ n \in Ids /\ n \notin Live /\ pc = "idle" /\ pc' = "trim" /\ next'.dropped = 0
      /\ spool' = {j \in spool : reports[j].seq # state.seq + 1} \cup {n}
      /\ UNCHANGED <<net, counts, state, announced, drops, purgedEarly>>
      /\ reports' = [reports EXCEPT ![n] =
           [inst |-> inst, seq |-> state.seq + 1, restarted |-> restarted,
            mark |-> state.dropped]]
  BY <1>1 DEF WriteReport, NewInstance, NextSeq, consoleVars, IInv, TypeOK, Ids, MadeOnly
<1>3. /\ reports'[n].inst = inst /\ reports'[n].seq = state.seq + 1
      /\ reports'[n].mark = state.dropped
      /\ \A i \in Ids \ {n} : reports'[i] = reports[i]
  BY <1>1, <1>2 DEF TypeOK
<1>4. state.inst = 0 => state.dropped = 0
  BY DEF AnnounceIInv, UnsavedTellsDropped
<1>5. UnsavedTellsDropped'
  <2>1. ASSUME NEW i \in spool', Unsaved(i)' PROVE reports'[i].mark = state.dropped
    BY <1>2, <1>3, <2>1 DEF Unsaved, IInv, TypeOK
  <2> QED
    BY <1>2, <1>4, <2>1 DEF UnsavedTellsDropped
<1>6. \A i \in Ids : ToAnnounce'[i] <= ToAnnounce[i]
  <2>1. ASSUME NEW i \in Ids, i # n PROVE ToAnnounce'[i] <= ToAnnounce[i]
    <3>1. reports[i].mark \in Nat
      BY <1>1, AnnounceType
    <3> QED
      BY <1>2, <1>3, <2>1, <3>1 DEF ToAnnounce, Unsaved
  <2>2. ToAnnounce'[n] = 0
    BY <1>2, <1>3, <1>4 DEF ToAnnounce, Unsaved
  <2>3. ToAnnounce[n] \in Nat
    BY <1>1, <1>2, AnnounceType
  <2> QED
    BY <2>1, <2>2, <2>3
<1>7. Total(ToAnnounce)' <= Total(ToAnnounce) + 0
  <2>1. ToAnnounce \in [Ids -> Nat] /\ Total(ToAnnounce) \in Nat
    BY <1>1, AnnounceType
  <2>2. (ToAnnounce \in [Ids -> Nat] /\ Total(ToAnnounce) \in Nat)'
    BY <1>1, AnnounceType, PTL
  <2>3. Total(ToAnnounce') <= Total(ToAnnounce)
    BY <1>6, <2>1, <2>2, TotalShrinks
  <2> QED
    BY <2>1, <2>2, <2>3
<1>8. DroppedNow = 0 /\ DroppedNow' = 0
  BY <1>2 DEF DroppedNow
<1>9. announced' + 0 + state'.dropped + DroppedNow' + drops
           <= announced + state.dropped + DroppedNow + drops'
  <2>1. announced \in Nat /\ drops \in Nat /\ state.dropped \in Nat
    BY <1>1, AnnounceType
  <2> QED
    BY <1>2, <1>8, <2>1
<1> QED
  BY <1>1, <1>2, <1>5, <1>7, <1>9, CoverStep DEF AnnounceIInv

\* When the state moves on, the one report that was not saved may come to tell what the
\* state told so far.
LEMMA AnnounceMoves ==
  ASSUME AnnounceIInv, IInv', UNCHANGED <<reports, counts, spool, net>>
  PROVE  Total(ToAnnounce)' <= Total(ToAnnounce) + state.dropped
<1>1. TypeOK /\ TypeOK' /\ IInv
  BY DEF AnnounceIInv, IInv
<1>2. /\ ToAnnounce \in [Ids -> Nat] /\ Total(ToAnnounce) \in Nat /\ state.dropped \in Nat
      /\ \A i \in Ids : reports[i].mark \in Nat
  BY <1>1, AnnounceType
<1>3. (ToAnnounce \in [Ids -> Nat] /\ Total(ToAnnounce) \in Nat)'
  BY <1>1, AnnounceType, PTL
<1>4. ASSUME NEW i \in Ids, ~(i \in spool /\ Unsaved(i))
      PROVE  ToAnnounce'[i] <= ToAnnounce[i]
  <2>1. i \in net => ~Unsaved(i)
    BY <1>1, SavedOrLast DEF Sent
  <2> QED
    BY <1>2, <1>4, <2>1 DEF ToAnnounce
<1>5. CASE \E k \in spool : Unsaved(k)
  <2>1. PICK k \in spool : Unsaved(k)
    BY <1>5
  <2>2. \A i \in Ids \ {k} : ~(i \in spool /\ Unsaved(i))
    BY <1>1, <2>1, SavedOrLast
  <2>3. k \in Ids /\ reports[k].mark = state.dropped
    BY <1>1, <2>1 DEF TypeOK, AnnounceIInv, UnsavedTellsDropped
  <2>4. ToAnnounce'[k] \in {0, state.dropped}
    BY <2>3 DEF ToAnnounce
  <2>5. ToAnnounce'[k] <= ToAnnounce[k] + state.dropped
    BY <1>2, <2>3, <2>4
  <2>6. Total(ToAnnounce') <= Total(ToAnnounce) + state.dropped
    BY <1>2, <1>3, <1>4, <2>2, <2>3, <2>5, TotalDiffers
  <2> QED
    BY <2>6
<1>6. CASE ~\E k \in spool : Unsaved(k)
  <2>1. Total(ToAnnounce') <= Total(ToAnnounce)
    BY <1>2, <1>3, <1>4, <1>6, TotalShrinks
  <2> QED
    BY <1>2, <1>3, <2>1
<1> QED
  BY <1>5, <1>6

LEMMA AnnounceState ==
  ASSUME AnnounceIInv, IInv', SaveState \/ LoseState
  PROVE  UnsavedTellsDropped' /\ DropsCoverAll'
<1>1. TypeOK /\ TypeOK' /\ IInv
  BY DEF AnnounceIInv, IInv
<1>2. /\ UNCHANGED <<reports, made, insts, counts, spool, net, announced, drops, purgedEarly>>
      /\ \/ pc = "trim" /\ pc' = "flush" /\ state' = next
         \/ pc = "idle" /\ pc' = "idle" /\ state' = NoState
  BY DEF SaveState, LoseState, makingVars, consoleVars
<1>3. /\ announced \in Nat /\ drops \in Nat /\ state.dropped \in Nat /\ next.dropped \in Nat
      /\ next.seq \in Nat /\ next.inst \in Nat
  BY <1>1, AnnounceType
<1>4. UnsavedTellsDropped'
  <2>1. CASE state' = next /\ pc = "trim"
    <3>1. next.inst # 0 /\ \A i \in spool :
            reports[i].inst = next.inst => reports[i].seq <= next.seq
      BY <1>1, <2>1 DEF IInv, NextIsFresh
    <3>2. \A i \in spool : reports[i].seq \in Nat
      BY <1>1 DEF TypeOK, Report
    <3>3. \A i \in spool : ~(reports[i].inst = next.inst /\ reports[i].seq = next.seq + 1)
      BY <1>3, <3>1, <3>2
    <3> QED
      BY <1>2, <2>1, <3>1, <3>3 DEF UnsavedTellsDropped, Unsaved
  <2>2. CASE state' = NoState
    <3>1. \A i \in spool : reports[i].inst # 0
      BY <1>1 DEF IInv, MadeOnly, Live, TypeOK, Ids
    <3> QED
      BY <1>2, <2>2, <3>1 DEF UnsavedTellsDropped, Unsaved, NoState
  <2> QED
    BY <1>2, <2>1, <2>2
<1>5. Total(ToAnnounce)' <= Total(ToAnnounce) + state.dropped
  BY <1>2, AnnounceMoves
<1>6. state'.dropped + DroppedNow' <= DroppedNow
  BY <1>2, <1>3 DEF DroppedNow, NoState
<1>7. announced' + state.dropped + state'.dropped + DroppedNow' + drops
           <= announced + state.dropped + DroppedNow + drops'
  <2>1. DroppedNow \in Nat
    BY <1>1, AnnounceType
  <2>2. (DroppedNow \in Nat /\ state.dropped \in Nat)'
    BY <1>1, AnnounceType, PTL
  <2> QED
    BY <1>2, <1>3, <1>6, <2>1, <2>2
<1> QED
  BY <1>1, <1>2, <1>3, <1>4, <1>5, <1>7, CoverStep DEF AnnounceIInv

\* The console counts a report: what it told is announced, and it tells no more.
LEMMA AnnounceReceive ==
  ASSUME AnnounceIInv, IInv', NEW i \in Ids, NEW answered \in BOOLEAN, Receive(i, answered)
  PROVE  UnsavedTellsDropped' /\ DropsCoverAll'
<1>1. TypeOK /\ TypeOK' /\ IInv
  BY DEF AnnounceIInv, IInv
<1>2. /\ i \in net /\ purgedEarly \subseteq purgedEarly'
      /\ UNCHANGED <<reports, spool, net, state, next, pc, drops>>
      /\ IF Stored(i) THEN UNCHANGED <<counts, announced>>
                      ELSE /\ counts' = [counts EXCEPT ![i] = @ + 1]
                           /\ announced' = announced + reports[i].mark
  BY DEF Receive, agentVars, makingVars
<1>3. UnsavedTellsDropped'
  BY <1>2 DEF AnnounceIInv, UnsavedTellsDropped, Unsaved
<1>4. DroppedNow' = DroppedNow
  BY <1>2 DEF DroppedNow
<1>5. /\ announced \in Nat /\ drops \in Nat /\ DroppedNow \in Nat /\ state.dropped \in Nat
      /\ reports[i].mark \in Nat /\ ToAnnounce \in [Ids -> Nat]
  BY <1>1, AnnounceType
<1>6. (ToAnnounce \in [Ids -> Nat] /\ Total(ToAnnounce) \in Nat)'
  BY <1>1, AnnounceType, PTL
<1>7. CASE purgedEarly' # {}
  BY <1>3, <1>7 DEF DropsCoverAll
<1>8. CASE Stored(i)
  <2>1. ToAnnounce' = ToAnnounce
    BY <1>2, <1>8 DEF ToAnnounce, Unsaved
  <2>2. Total(ToAnnounce') <= Total(ToAnnounce)
    BY <1>5, <1>6, <2>1, TotalShrinks
  <2>3. Total(ToAnnounce)' <= Total(ToAnnounce) + 0
    BY <1>1, <2>2, AnnounceType
  <2>4. announced' + 0 + state'.dropped + DroppedNow' + drops
           <= announced + state.dropped + DroppedNow + drops'
    BY <1>2, <1>4, <1>5, <1>8, SameOtherwise
  <2> QED
    BY <1>1, <1>2, <1>3, <2>3, <2>4, CoverStep DEF AnnounceIInv
<1>9. CASE ~Stored(i) /\ purgedEarly' = {}
  <2> DEFINE x == -reports[i].mark
  <2>1. counts[i] = 0
    BY <1>2, <1>9 DEF AnnounceIInv, IInv, CountedIsRemembered, TypeOK
  <2>2. counts'[i] = 1 /\ \A j \in Ids \ {i} : counts'[j] = counts[j]
    BY <1>1, <1>2, <1>9, <2>1 DEF TypeOK
  <2>3. ~Unsaved(i)
    BY <1>1, <1>2, SavedOrLast DEF Sent
  <2>4. ToAnnounce[i] = reports[i].mark /\ ToAnnounce'[i] = 0
    BY <1>2, <2>1, <2>2, <2>3 DEF ToAnnounce
  <2>5. \A j \in Ids \ {i} : ToAnnounce'[j] <= ToAnnounce[j]
    <3>1. ASSUME NEW j \in Ids \ {i} PROVE ToAnnounce'[j] = ToAnnounce[j]
      BY <1>2, <2>2, <3>1 DEF ToAnnounce, Unsaved
    <3> QED
      BY <1>5, <3>1
  <2>6. x \in Int /\ ToAnnounce'[i] <= ToAnnounce[i] + x
    BY <1>5, <2>4
  <2> HIDE DEF x
  <2>7. Total(ToAnnounce') <= Total(ToAnnounce) + x
    BY <1>5, <1>6, <2>5, <2>6, TotalDiffers
  <2>8. Total(ToAnnounce)' <= Total(ToAnnounce) + x
    BY <2>7
  <2>9. announced' + x + state'.dropped + DroppedNow' + drops
           <= announced + state.dropped + DroppedNow + drops'
    <3>1. announced' = announced + reports[i].mark
      BY <1>2, <1>9
    <3>2. announced' + x = announced
      BY <1>5, <3>1 DEF x
    <3>3. drops' = drops /\ state' = state
      BY <1>2
    <3> QED
      BY <1>4, <1>5, <3>2, <3>3
  <2> QED
    BY <1>1, <1>2, <1>3, <2>6, <2>8, <2>9, CoverStep DEF AnnounceIInv
<1> QED
  BY <1>7, <1>8, <1>9

LEMMA AnnounceStep ==
  ASSUME AnnounceIInv, IInv', [Next]_vars
  PROVE  UnsavedTellsDropped' /\ DropsCoverAll'
<1>1. TypeOK /\ TypeOK'
  BY DEF AnnounceIInv, IInv
<1>2. ASSUME NEW restarted \in BOOLEAN, WriteReport(restarted)
      PROVE  UnsavedTellsDropped' /\ DropsCoverAll'
  BY <1>2, AnnounceWrite
<1>3. CASE SaveState \/ LoseState
  BY <1>3, AnnounceState
<1>4. ASSUME NEW i \in Ids, NEW answered \in BOOLEAN, Receive(i, answered)
      PROVE  UnsavedTellsDropped' /\ DropsCoverAll'
  BY <1>4, AnnounceReceive
<1>5. drops \in Nat /\ next.dropped \in Nat
  BY <1>1, AnnounceType
<1>6. CASE DropOldest
  <2>1. /\ pc = "trim" /\ pc' = "trim" /\ next'.dropped = next.dropped + 1
        /\ drops' = drops + 1 /\ spool' \subseteq spool
        /\ UNCHANGED <<reports, counts, state, announced, net, purgedEarly>>
    BY <1>6 DEF DropOldest, makingVars, consoleVars
  <2>2. DroppedNow' + drops <= DroppedNow + drops'
    BY <1>5, <2>1 DEF DroppedNow
  <2> QED
    BY <1>1, <2>1, <2>2, AnnounceShrinks
<1>7. CASE Post
  <2>1. /\ pc = "flush" /\ pc' = "wait" /\ drops' = drops /\ spool' = spool
        /\ spool' \cup net' \subseteq spool \cup net
        /\ UNCHANGED <<reports, counts, state, announced, purgedEarly>>
    BY <1>7 DEF Post, makingVars, consoleVars
  <2>2. DroppedNow' + drops <= DroppedNow + drops'
    BY <1>5, <2>1 DEF DroppedNow
  <2> QED
    BY <1>1, <2>1, <2>2, AnnounceShrinks
<1>8. CASE Remove \/ FlushDone \/ EndCycle \/ Crash
  <2>1. /\ pc' # "trim" /\ drops' = drops /\ spool' \subseteq spool
        /\ UNCHANGED <<reports, counts, state, announced, net, purgedEarly>>
    BY <1>8 DEF Remove, FlushDone, EndCycle, Crash, makingVars, consoleVars
  <2>2. DroppedNow' + drops <= DroppedNow + drops'
    BY <1>5, <2>1 DEF DroppedNow
  <2> QED
    BY <1>1, <2>1, <2>2, AnnounceShrinks
<1>9. CASE OtherNodePurges \/ DayPasses \/ UNCHANGED vars \/ (\E i \in Ids : LoseRequest(i))
  <2>1. /\ UNCHANGED <<reports, counts, state, announced, spool, pc, next, drops>>
        /\ net' \subseteq net /\ purgedEarly \subseteq purgedEarly'
    BY <1>9 DEF OtherNodePurges, DayPasses, LoseRequest, vars, agentVars, makingVars, consoleVars
  <2>2. DroppedNow' + drops <= DroppedNow + drops'
    BY <1>5, <2>1 DEF DroppedNow
  <2> QED
    BY <1>1, <2>1, <2>2, AnnounceShrinks
<1> QED
  BY <1>2, <1>3, <1>4, <1>6, <1>7, <1>8, <1>9 DEF Next, Agent, Console

LEMMA AnnounceInit == Init => UnsavedTellsDropped /\ DropsCoverAll
<1> SUFFICES ASSUME Init PROVE UnsavedTellsDropped /\ DropsCoverAll
  OBVIOUS
<1>1. ToAnnounce \in [Ids -> Nat] /\ \A i \in Ids : ToAnnounce[i] = 0
  BY DEF Init, ToAnnounce
<1>2. Total(ToAnnounce) = 0
  <2>1. PICK f \in [0 .. MaxReports -> Nat] :
             /\ f[0] = 0 /\ \A n \in Ids : f[n] = f[n - 1] + ToAnnounce[n]
             /\ Total(ToAnnounce) = f[MaxReports]
    BY <1>1, TotalSteps
  <2> DEFINE T == {n \in Nat : n <= MaxReports => f[n] = 0}
  <2>2. ASSUME NEW n \in T PROVE n + 1 \in T
    <3>1. n \in Nat /\ n + 1 \in Nat
      OBVIOUS
    <3>2. ASSUME n + 1 <= MaxReports PROVE f[n + 1] = 0
      <4>1. n + 1 \in Ids /\ n <= MaxReports /\ (n + 1) - 1 = n
        BY <3>1, <3>2 DEF Ids
      <4>2. f[n + 1] = f[n] + 0
        BY <1>1, <2>1, <4>1
      <4> QED
        BY <4>1, <4>2
    <3> QED
      BY <3>1, <3>2
  <2>3. T \in SUBSET Nat /\ 0 \in T
    BY <2>1
  <2> HIDE DEF T
  <2>4. T = Nat
    BY <2>2, <2>3, Induct
  <2> QED
    BY <2>1, <2>4 DEF T
<1>3. announced = 0 /\ drops = 0 /\ state.dropped = 0 /\ DroppedNow = 0
  BY DEF Init, NoState, DroppedNow
<1> QED
  BY <1>2, <1>3 DEF Init, UnsavedTellsDropped, DropsCoverAll

\* No dropped report is announced twice, unless a row was purged early: it is told by
\* one report not yet counted, by the state, or by the console, never by two of them.
THEOREM AnnouncedAtMostOnce == Spec => []AnnouncedOnce
<1>1. AnnounceIInv /\ IInv' /\ [Next]_vars => AnnounceIInv'
  BY AnnounceStep DEF AnnounceIInv
<1>2. Init => AnnounceIInv
  BY AnnounceInit, InitIInv DEF AnnounceIInv
<1>3. AnnounceIInv => AnnouncedOnce
  <2> SUFFICES ASSUME AnnounceIInv, purgedEarly = {} PROVE announced <= drops
    BY DEF AnnouncedOnce
  <2>1. announced + Total(ToAnnounce) + state.dropped + DroppedNow <= drops
    BY DEF AnnounceIInv, DropsCoverAll
  <2>2. /\ announced \in Nat /\ Total(ToAnnounce) \in Nat /\ state.dropped \in Nat
        /\ DroppedNow \in Nat /\ drops \in Nat
    BY AnnounceType DEF AnnounceIInv, IInv
  <2>3. announced + 0 + 0 + 0 + 0 <= drops
    BY <2>1, <2>2, Within
  <2> QED
    BY <2>2, <2>3
<1> QED
  BY <1>1, <1>2, <1>3, Invariance, PTL DEF Spec

-----------------------------------------------------------------------------
(***************************************************************************)
(* What is lost was dropped.                                               *)
(***************************************************************************)
LEMMA SavedStep ==
  ASSUME LossIInv, [Next]_vars PROVE SavedAreBehind'
<1>1. TypeOK /\ MadeOnly /\ NextIsFresh /\ SavedAreBehind
  BY DEF LossIInv, IInv
<1>2. /\ made \in Nat /\ made <= MaxReports /\ 1 .. made \subseteq Ids
      /\ \A i \in Ids : reports[i].inst \in Nat /\ reports[i].seq \in Nat
      /\ state.inst \in Nat /\ state.seq \in Nat /\ next.inst \in Nat /\ next.seq \in Nat
      /\ insts \in Nat
  BY <1>1 DEF TypeOK, Report, AgentState, Ids
<1>3. ASSUME NEW restarted \in BOOLEAN, WriteReport(restarted) PROVE SavedAreBehind'
  <2> DEFINE inst == IF state.inst = 0 THEN insts + 1 ELSE state.inst
  <2>1. /\ made' = made + 1 /\ made + 1 \in Ids /\ UNCHANGED <<state, saved>>
        /\ next'.inst = inst /\ next'.seq = state.seq + 1
        /\ reports'[made + 1].inst = inst /\ reports'[made + 1].seq = state.seq + 1
        /\ \A i \in 1 .. made : reports'[i] = reports[i]
    BY <1>1, <1>2, <1>3 DEF WriteReport, NewInstance, NextSeq, TypeOK, Ids
  <2>2. ASSUME NEW i \in saved PROVE i \in 1 .. made /\ reports[i].inst <= insts
    BY <1>1, <1>2 DEF SavedAreBehind, MadeOnly
  <2>3. state.inst = 0 => \A i \in saved : reports'[i].inst # inst
    BY <1>2, <2>1, <2>2
  <2> HIDE DEF inst
  <2>4. made' \in 1 .. made' /\ saved' \subseteq 1 .. made'
    BY <1>1, <1>2, <2>1 DEF SavedAreBehind
  <2> QED
    BY <1>1, <2>1, <2>2, <2>3, <2>4 DEF SavedAreBehind
<1>4. CASE SaveState
  <2>1. /\ pc = "trim" /\ pc' = "flush" /\ state' = next /\ saved' = saved \cup {made}
        /\ UNCHANGED <<reports, made>>
    BY <1>4 DEF SaveState, makingVars
  <2>2. ASSUME NEW i \in saved, reports[i].inst = next.inst PROVE reports[i].seq <= next.seq
    <3>1. state.inst # 0 /\ next.inst = state.inst /\ next.seq = state.seq + 1
      BY <1>1, <2>1, <2>2 DEF SavedAreBehind, NextIsFresh
    <3>2. reports[i].seq <= state.seq /\ i \in Ids
      BY <1>1, <1>2, <2>2, <3>1 DEF SavedAreBehind
    <3> QED BY <1>2, <3>1, <3>2
  <2>3. reports[made].seq <= next.seq
    BY <1>1, <1>2, <2>1 DEF SavedAreBehind
  <2> QED
    BY <1>1, <2>1, <2>2, <2>3 DEF SavedAreBehind
<1>5. CASE LoseState
  <2>1. /\ pc = "idle" /\ UNCHANGED <<reports, made, saved, pc>> /\ state'.inst = 0
    BY <1>5 DEF LoseState, makingVars, NoState
  <2>2. \A i \in saved : reports[i].inst # 0
    BY <1>1, <1>2 DEF SavedAreBehind, MadeOnly
  <2> QED
    BY <1>1, <2>1, <2>2 DEF SavedAreBehind
<1>6. CASE DropOldest
  <2>1. /\ UNCHANGED <<reports, made, saved, pc, state>>
        /\ next'.inst = next.inst /\ next'.seq = next.seq
    BY <1>6 DEF DropOldest, makingVars
  <2> QED
    BY <1>1, <2>1 DEF SavedAreBehind
<1>7. CASE Post \/ Remove \/ FlushDone \/ EndCycle \/ Crash
  <2>1. UNCHANGED <<reports, made, saved, state>> /\ pc' # "trim"
    BY <1>7 DEF Post, Remove, FlushDone, EndCycle, Crash, makingVars
  <2> QED
    BY <1>1, <2>1 DEF SavedAreBehind
<1>8. CASE UNCHANGED agentVars
  BY <1>1, <1>8 DEF agentVars, makingVars, SavedAreBehind
<1> QED
  BY <1>3, <1>4, <1>5, <1>6, <1>7, <1>8 DEF Next, Agent, Console, Receive, OtherNodePurges,
    LoseRequest, DayPasses, vars, agentVars, makingVars

\* The bound lasts when at most as many more are lost as files are dropped.
LEMMA NoMoreLost ==
  ASSUME TypeOK, SavedAreBehind, Cardinality(LostSoFar) <= drops,
         NEW gone, gone \in SUBSET Ids,
         LostSoFar' \subseteq LostSoFar \cup gone,
         \/ gone = {} /\ drops' = drops
         \/ drops' = drops + 1 /\ \E i : gone = {i}
  PROVE  Cardinality(LostSoFar') <= drops'
<1>1. LostSoFar \subseteq Ids /\ IsFiniteSet(Ids) /\ drops \in Nat
  <2>1. IsFiniteSet(Ids)
    BY FS_Interval DEF Ids
  <2>2. 1 .. made \subseteq Ids
    BY DEF TypeOK, Ids
  <2> QED BY <2>1, <2>2 DEF SavedAreBehind, LostSoFar, ToBeSaved, TypeOK
<1>2. IsFiniteSet(LostSoFar) /\ Cardinality(LostSoFar) \in Nat
  BY <1>1, FS_Subset, FS_CardinalityType
<1> HIDE DEF LostSoFar
<1>3. CASE gone = {} /\ drops' = drops
  <2>1. LostSoFar' \subseteq LostSoFar
    BY <1>3
  <2> QED BY <1>1, <1>2, <1>3, <2>1, FS_Subset, FS_CardinalityType
<1>4. ASSUME NEW i, gone = {i}, drops' = drops + 1 PROVE Cardinality(LostSoFar') <= drops'
  <2> DEFINE more == LostSoFar \cup {i}
  <2>1. /\ IsFiniteSet(more)
        /\ Cardinality(more) = IF i \in LostSoFar THEN Cardinality(LostSoFar)
                               ELSE Cardinality(LostSoFar) + 1
    BY <1>2, FS_AddElement
  <2>2. LostSoFar' \subseteq more
    BY <1>4
  <2> HIDE DEF more
  <2>3. Cardinality(LostSoFar') <= Cardinality(more)
    BY <2>1, <2>2, FS_Subset
  <2>4. Cardinality(LostSoFar') \in Nat
    BY <2>1, <2>2, FS_Subset, FS_CardinalityType
  <2> QED BY <1>1, <1>2, <1>4, <2>1, <2>3, <2>4
<1> QED BY <1>3, <1>4

LEMMA LossStep ==
  ASSUME LossIInv, [Next]_vars, insts' <= 1
  PROVE  Cardinality(LostSoFar') <= drops'
<1>1. IInv /\ TypeOK /\ MadeOnly /\ SavedAreBehind
  BY DEF LossIInv, IInv
<1>2. insts \in Nat /\ insts <= insts' /\ insts <= 1
  <2>1. insts \in Nat
    BY <1>1 DEF TypeOK
  <2>2. insts' \in {insts, insts + 1}
    BY DEF Next, Agent, Console, WriteReport, DropOldest, SaveState, Post, Remove, FlushDone,
      EndCycle, Crash, LoseState, Receive, OtherNodePurges, LoseRequest, DayPasses, vars,
      agentVars, makingVars
  <2>3. insts' <= 1
    OBVIOUS
  <2> QED BY <2>1, <2>2, <2>3
<1>3. Cardinality(LostSoFar) <= drops
  BY <1>2 DEF LossIInv
<1>4. /\ state.inst \in Nat /\ state.seq \in Nat /\ saved \subseteq Ids
      /\ \A i \in Ids : reports[i].inst \in Nat /\ reports[i].seq \in Nat /\ counts[i] \in Nat
      /\ made \in 0 .. MaxReports /\ (pc = "trim" => made \in Ids)
  <2>1. made \in 0 .. MaxReports /\ MaxReports \in Nat
    BY <1>1 DEF TypeOK
  <2>2. 1 .. made \subseteq Ids
    BY <2>1 DEF Ids
  <2>3. \A i \in Ids : reports[i] \in Report /\ counts[i] \in Nat
    BY <1>1 DEF TypeOK
  <2>4. state \in AgentState
    BY <1>1 DEF TypeOK
  <2> QED BY <1>1, <2>1, <2>2, <2>3, <2>4 DEF SavedAreBehind, Report, AgentState
<1>5. ASSUME LostSoFar' \subseteq LostSoFar, drops' = drops
      PROVE  Cardinality(LostSoFar') <= drops'
  <2>1. LostSoFar' \subseteq LostSoFar \cup {} /\ {} \in SUBSET Ids
    BY <1>5
  <2> QED BY <1>1, <1>3, <1>5, <2>1, NoMoreLost
<1>6. ASSUME NEW restarted \in BOOLEAN, WriteReport(restarted)
      PROVE  LostSoFar' \subseteq LostSoFar /\ drops' = drops
  <2>1. /\ made' = made + 1 /\ UNCHANGED <<counts, saved, drops>>
        /\ spool' = {j \in spool : reports[j].seq # state.seq + 1} \cup {made + 1}
        /\ insts' = IF state.inst = 0 THEN insts + 1 ELSE insts
    BY <1>6 DEF WriteReport, NextSeq, consoleVars
  <2>2. ASSUME NEW i \in saved PROVE reports[i].seq # state.seq + 1
    <3>1. i \in 1 .. made /\ reports[i].inst \in 1 .. insts
      BY <1>1 DEF SavedAreBehind, MadeOnly
    <3>2. state.inst # 0 /\ insts = 1 /\ reports[i].inst = 1 /\ state.inst = 1
      BY <1>1, <1>2, <1>4, <2>1, <3>1 DEF MadeOnly
    <3>3. reports[i].seq <= state.seq
      BY <1>1, <3>2 DEF SavedAreBehind
    <3> QED BY <1>4, <3>3
  <2>3. ASSUME NEW i \in LostSoFar' PROVE i \in LostSoFar
    <3>1. i \in saved /\ counts[i] = 0 /\ i \notin spool'
      BY <2>1 DEF LostSoFar, ToBeSaved
    <3>2. i \notin spool
      BY <2>1, <2>2, <3>1
    <3> QED BY <3>1, <3>2 DEF LostSoFar
  <2> QED BY <2>1, <2>3
<1>7. CASE DropOldest
  <2>1. PICK i \in spool : spool' = spool \ {i}
    BY <1>7 DEF DropOldest
  <2>2. UNCHANGED <<counts, saved, made, pc>> /\ drops' = drops + 1
    BY <1>7 DEF DropOldest, consoleVars, makingVars
  <2>3. LostSoFar' \subseteq LostSoFar \cup {i} /\ {i} \in SUBSET Ids
    BY <1>1, <2>1, <2>2 DEF LostSoFar, ToBeSaved, TypeOK
  <2> QED BY <1>1, <1>3, <2>2, <2>3, NoMoreLost
<1>8. CASE SaveState
  <2>1. /\ pc = "trim" /\ pc' = "flush" /\ saved' = saved \cup {made}
        /\ UNCHANGED <<counts, spool, drops>>
    BY <1>8 DEF SaveState, consoleVars
  <2> QED BY <1>5, <2>1 DEF LostSoFar, ToBeSaved
<1>9. CASE Remove
  <2>1. PICK i \in spool : OldestIn(spool, i) /\ spool' = spool \ {i}
    BY <1>9 DEF Remove
  <2>2. UNCHANGED <<counts, saved, drops>> /\ pc = "wait" /\ pc' = "flush"
    BY <1>9 DEF Remove, consoleVars
  <2>3. counts[i] > 0
    BY <1>1, <1>9, <2>1 DEF Remove, Accepted, IInv, AcceptedIsCounted
  <2>4. i \in Ids /\ counts[i] # 0
    BY <1>1, <1>4, <2>3 DEF TypeOK
  <2>5. LostSoFar' \subseteq LostSoFar
    BY <2>1, <2>2, <2>4 DEF LostSoFar, ToBeSaved
  <2> QED BY <1>5, <2>2, <2>5
<1>10. CASE Post \/ FlushDone \/ EndCycle \/ Crash
  <2>1. UNCHANGED <<counts, saved, spool, drops>> /\ pc' # "trim"
    BY <1>10 DEF Post, FlushDone, EndCycle, Crash, consoleVars
  <2> QED BY <1>5, <2>1 DEF LostSoFar, ToBeSaved
<1>11. CASE LoseState
  <2>1. UNCHANGED <<counts, saved, spool, drops, pc, made>>
    BY <1>11 DEF LoseState, consoleVars, makingVars
  <2> QED BY <1>5, <2>1 DEF LostSoFar, ToBeSaved
<1>12. ASSUME NEW i \in Ids, NEW answered \in BOOLEAN, Receive(i, answered)
      PROVE  LostSoFar' \subseteq LostSoFar /\ drops' = drops
  <2>1. UNCHANGED <<saved, spool, drops, pc, made>>
    BY <1>12 DEF Receive, agentVars, makingVars
  <2>2. \A j \in Ids : counts'[j] = 0 => counts[j] = 0
    BY <1>1, <1>4, <1>12 DEF Receive, TypeOK
  <2>3. saved \cup ToBeSaved \subseteq Ids
    BY <1>1, <1>4 DEF ToBeSaved, SavedAreBehind
  <2> QED BY <2>1, <2>2, <2>3 DEF LostSoFar, ToBeSaved
<1>13. CASE UNCHANGED <<agentVars, counts>>
  BY <1>5, <1>13 DEF agentVars, makingVars, LostSoFar, ToBeSaved
<1> QED
  BY <1>5, <1>6, <1>7, <1>8, <1>9, <1>10, <1>11, <1>12, <1>13 DEF Next, Agent, Console,
    OtherNodePurges, LoseRequest, DayPasses, vars, consoleVars, agentVars, makingVars

\* Once the state is saved, a report is counted, its file is there, or it is one of those
\* dropped over the limit, wherever the agent stops and whatever is answered, unless the
\* state was lost (Spool.add, save_state, flush).
THEOREM OnlyDropsLose == Spec => []LostWereDropped
<1>1. Init => LossIInv
  <2> SUFFICES ASSUME Init PROVE LossIInv
    OBVIOUS
  <2>1. SavedAreBehind
    BY DEF Init, SavedAreBehind
  <2>2. LostSoFar = {} /\ drops = 0
    BY DEF Init, LostSoFar, ToBeSaved
  <2>3. Cardinality({}) = 0
    BY FS_EmptySet
  <2> QED BY <2>1, <2>2, <2>3, InitIInv DEF LossIInv
<1>2. LossIInv /\ [Next]_vars => LossIInv'
  <2>1. ASSUME LossIInv, [Next]_vars PROVE LossIInv'
    BY <2>1, IInvStep, SavedStep, LossStep DEF LossIInv
  <2> QED BY <2>1
<1>3. LossIInv => LostWereDropped
  <2> SUFFICES ASSUME LossIInv, insts <= 1 PROVE Cardinality(Lost) <= drops
    BY DEF LostWereDropped
  <2>1. LostSoFar \subseteq Ids /\ IsFiniteSet(Ids) /\ drops \in Nat
    <3>1. TypeOK /\ SavedAreBehind
      BY DEF LossIInv, IInv
    <3>2. IsFiniteSet(Ids)
      BY FS_Interval DEF Ids
    <3>3. 1 .. made \subseteq Ids
      BY <3>1 DEF TypeOK, Ids
    <3> QED BY <3>1, <3>2, <3>3 DEF SavedAreBehind, LostSoFar, ToBeSaved, TypeOK
  <2>2. Lost \subseteq LostSoFar
    BY DEF Lost, LostSoFar
  <2>3. IsFiniteSet(LostSoFar) /\ Cardinality(LostSoFar) \in Nat
    BY <2>1, FS_Subset, FS_CardinalityType
  <2>4. Cardinality(Lost) <= Cardinality(LostSoFar) /\ Cardinality(Lost) \in Nat
    BY <2>2, <2>3, FS_Subset, FS_CardinalityType
  <2> QED BY <2>1, <2>3, <2>4 DEF LossIInv
<1> QED
  BY <1>1, <1>2, <1>3, PTL DEF Spec
=============================================================================
