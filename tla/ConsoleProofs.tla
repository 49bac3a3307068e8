--------------------------- MODULE ConsoleProofs ---------------------------
(***************************************************************************)
(* Two parts of the console.                                               *)
(*                                                                         *)
(* The pool of egress stays whole and UDP is not sent where none works,    *)
(* for any rows, users and requests (console/egress_web.py, egress.py).    *)
(*                                                                         *)
(* The incidents of a node are a chronicle of which the last row says what *)
(* is down, and nothing is purged that is still to be shown, for any       *)
(* transports, counts, intervals and lengths of a day; and for counts that *)
(* differ by one at most they say what was down when, and the days of the  *)
(* document for how long (console/status.py).                              *)
(***************************************************************************)
EXTENDS EgressPool, StatusDocument, FiniteSetTheorems, WellFoundedInduction, TLAPS

-----------------------------------------------------------------------------
(***************************************************************************)
(* The inductive invariant behind Referenced and NoUdpWhereNone.           *)
(***************************************************************************)

\* What a request that waits has in hand.
JobsFit ==
  /\ DOMAIN job = Requests
  /\ \A p \in Requests :
       /\ pc[p] = "scheme" => job[p] \in [scheme : Schemes, value : Scheme]
       /\ pc[p] = "rules" => /\ job[p] \in [row : Rows, value : Assignment]
                             /\ job[p].value.scheme = None
       /\ pc[p] = "probe" => job[p] \in [egress : Egresses, version : Nat]

PoolIInv == TypeOK /\ JobsFit /\ Referenced

-----------------------------------------------------------------------------
(***************************************************************************)
(* The inductive invariant behind Chronicle and OpenIsDown.                *)
(***************************************************************************)

\* Nothing is dated later than the round it was found in.
TimesPassed ==
  /\ last <= now /\ changedAt <= now /\ joined <= last
  /\ \A t \in Transports :
       /\ state[t].downSince <= last /\ state[t].lastKnown <= last
       /\ state[t].firstFail <= last /\ state[t].firstOk <= last
  /\ \A i \in incidents : i.from <= last /\ i.to <= last

\* The maintenance still to be opened begins after all that was found before.
HiddenSinceLast ==
  shown = "no" /\ joined # Never /\ ~Opened(incidents, {"maintenance"}) => last <= changedAt

StatusIInv == StatusTypeOK /\ TimesPassed /\ HiddenSinceLast /\ Chronicle /\ OpenIsDown

-----------------------------------------------------------------------------
(***************************************************************************)
(* The inductive invariant behind TellsTheTruth.                           *)
(***************************************************************************)

\* The last count results are all the same and the one before is not.
Counted(results, what, count, first) ==
  LET n == Len(results)
  IN  /\ count <= n
      /\ \A i \in n - count + 1 .. n : results[i].ok = what
      /\ count < n => results[n - count].ok # what
      /\ count > 0 => first = results[n - count + 1].at

\* The counters of a transport are what was heard of it until a time.
CountedFrom(s, results, time) ==
  /\ \A i \in DOMAIN results : Never < results[i].at /\ results[i].at <= time
  /\ \A i, j \in DOMAIN results : i < j => results[i].at < results[j].at
  /\ Counted(results, "fail", s.fails, s.firstFail)
  /\ Counted(results, "ok", s.oks, s.firstOk)
  /\ s.fails >= FailCount => s.downSince # Never
  /\ s.oks >= RecoverCount => s.downSince = Never
  /\ s.downSince # Never <=> DownBy(results, time)

AsHeard ==
  /\ \A t \in Transports : CountedFrom(state[t], heard[t], last)
  /\ \A t \in Transports \ targets : heard[t] = <<>>
  /\ Opened(incidents, {"maintenance"}) => \A t \in Transports : heard[t] = <<>>

\* The last results of all transports are of the same rounds.
InStep(results, others) ==
  \A k \in 0 .. Len(results) - 1 : k < Len(others) =>
    results[Len(results) - k].at = others[Len(others) - k].at

\* The counts differ by one at most.
CloseCounts == FailCount <= RecoverCount + 1 /\ RecoverCount <= FailCount + 1

\* A row has nothing to say of a time at which something may still be found to have begun.
NotAfter(time, results) ==
  \A j \in DOMAIN results :
    j + FailCount >= Len(results) + 2 \/ j + RecoverCount >= Len(results) + 2 =>
      time <= results[j].at

Settled ==
  even = "yes" => \A t \in targets :
    /\ \A u \in targets : InStep(heard[t], heard[u])
    /\ \A i \in incidents :
         /\ i.from <= since \/ NotAfter(i.from, heard[t])
         /\ i.to <= since \/ NotAfter(i.to, heard[t])

TruthIInv == StatusIInv /\ since <= last /\ AsHeard /\ Settled /\ TellsTheTruth

-----------------------------------------------------------------------------
(***************************************************************************)
(* The inductive invariant behind ShownIsKept.                             *)
(***************************************************************************)

\* What ended and may still be shown is in the table.
PastIsThere ==
  /\ past \subseteq Incident /\ \A i \in past : i.to # Never
  /\ {i \in past : i.to > WindowStart(last)} \subseteq incidents

DocumentIsOfLast == building \in {Never, last} /\ doc.at \in Nat /\ doc.at <= last

DocIInv == StatusIInv /\ PastIsThere /\ DocumentIsOfLast /\ ShownIsKept

\* The rows there are.
LEMMA RowTypes ==
  ASSUME TypeOK
  PROVE  /\ \A e \in Pool : egress[e] \in [version : Nat \ {0}, on : BOOLEAN]
         /\ \A s \in SchemeIds : schemes[s] \in Scheme
         /\ \A r \in Ids : assigned[r] \in Assignment
BY DEF TypeOK, Pool, SchemeIds, Ids

\* A row of the pool or a scheme is none of the two marks.
LEMMA RowsAreRows ==
  /\ \A x \in [version : Nat \ {0}, on : BOOLEAN] : x \notin {None, Deleted}
  /\ \A x \in Scheme : x \notin {None, Deleted}
<1>1. ASSUME NEW x \in [version : Nat \ {0}, on : BOOLEAN] PROVE x \notin {None, Deleted}
  <2>1. x \in [version : Nat, on : BOOLEAN]
    OBVIOUS
  <2> QED
    BY <2>1, PoolAssumption
<1>2. ASSUME NEW x \in Scheme PROVE x \notin {None, Deleted}
  BY PoolAssumption DEF Scheme, Nets
<1> QED
  BY <1>1, <1>2

LEMMA NetTypes ==
  ASSUME TypeOK, NEW a \in Assignment
  PROVE  NetOf(a) \in Nets /\ FailsOf(a) \in {"direct", "block"}
<1>1. CASE a.scheme \in SchemeIds
  <2>1. schemes[a.scheme] \in Scheme
    BY <1>1, RowTypes
  <2> QED
    BY <1>1, <2>1 DEF NetOf, FailsOf, Scheme
<1>2. CASE a.scheme \notin SchemeIds
  BY <1>2 DEF NetOf, FailsOf, Assignment
<1> QED
  BY <1>1, <1>2

\* What a new row holds.
LEMMA SavedType ==
  ASSUME TypeOK, NEW a \in Assignment
  PROVE  LET saved == [a EXCEPT !.net = NetOf(a), !.fails = FailsOf(a)]
         IN  /\ saved \in Assignment
             /\ saved.egress = a.egress /\ saved.scheme = a.scheme /\ saved.on = a.on
             /\ saved.net = NetOf(a)
BY NetTypes DEF Assignment

LEMMA PoolInit == Init => PoolIInv
<1> SUFFICES ASSUME Init PROVE PoolIInv
  OBVIOUS
<1>1. TypeOK
  BY PoolAssumption DEF Init, TypeOK
<1>2. JobsFit /\ Referenced
  BY DEF Init, JobsFit, Referenced, Ids
<1> QED
  BY <1>1, <1>2 DEF PoolIInv

-----------------------------------------------------------------------------
(***************************************************************************)
(* Types.                                                                  *)
(***************************************************************************)
\* An edit and the switch leave a row of the pool in its place.
LEMMA EditRow ==
  ASSUME TypeOK, NEW e \in Egresses, Edit(e) \/ SetEnabled(e)
  PROVE  \E row \in [version : Nat \ {0}, on : BOOLEAN] :
           egress' = [egress EXCEPT ![e] = row]
<1>1. egress[e] \in [version : Nat \ {0}, on : BOOLEAN]
  BY RowTypes DEF Edit, SetEnabled
<1>2. CASE Edit(e)
  <2>1. [egress[e] EXCEPT !.version = @ + 1] \in [version : Nat \ {0}, on : BOOLEAN]
    BY <1>1
  <2>2. egress' = [egress EXCEPT ![e] = [egress[e] EXCEPT !.version = @ + 1]]
    BY <1>2 DEF Edit
  <2> QED
    BY <2>1, <2>2
<1>3. CASE SetEnabled(e)
  <2>1. [egress[e] EXCEPT !.on = ~@] \in [version : Nat \ {0}, on : BOOLEAN]
    BY <1>1
  <2>2. egress' = [egress EXCEPT ![e] = [egress[e] EXCEPT !.on = ~@]]
    BY <1>3 DEF SetEnabled
  <2> QED
    BY <2>1, <2>2
<1> QED
  BY <1>2, <1>3

LEMMA EditType ==
  ASSUME TypeOK, NEW e \in Egresses, Edit(e) \/ SetEnabled(e)
  PROVE  TypeOK'
<1>2. UNCHANGED <<schemes, assigned, pc, lock, loop, probing>> /\ requests' \in Nat
  BY DEF Edit, SetEnabled, Page, Request, web, TypeOK
<1>3. egress' \in [Egresses -> [version : Nat \ {0}, on : BOOLEAN] \cup {None, Deleted}]
  BY EditRow DEF TypeOK
<1>4. found' \in [Egresses -> [udp : Finding, of : Nat, fresh : BOOLEAN] \cup {None}]
  <2>1. CASE found[e] = None
    BY <2>1 DEF Edit, SetEnabled, Cleared, TypeOK
  <2>2. CASE found[e] # None
    <3>1. found[e] \in [udp : Finding, of : Nat, fresh : BOOLEAN]
      BY <2>2 DEF TypeOK
    <3>2. /\ [found[e] EXCEPT !.udp = "unknown", !.fresh = FALSE]
               \in [udp : Finding, of : Nat, fresh : BOOLEAN]
          /\ [found[e] EXCEPT !.fresh = FALSE]
               \in [udp : Finding, of : Nat, fresh : BOOLEAN]
      BY <3>1 DEF Finding
    <3>3. \/ found' = [found EXCEPT ![e] = [found[e] EXCEPT !.udp = "unknown", !.fresh = FALSE]]
          \/ found' = [found EXCEPT ![e] = [found[e] EXCEPT !.fresh = FALSE]]
      BY <2>2 DEF Edit, SetEnabled, Cleared
    <3> QED
      BY <3>2, <3>3 DEF TypeOK
  <2> QED
    BY <2>1, <2>2
<1> QED
  BY <1>2, <1>3, <1>4 DEF TypeOK

\* assign, with what its form held.
LEMMA AssignType ==
  ASSUME TypeOK, NEW r \in Rows, NEW a \in Assignment, Assign(r, a)
  PROVE  /\ assigned' \in [Rows -> Assignment \cup {None}]
         /\ UNCHANGED <<egress, schemes, found>>
BY SavedType DEF Assign, TypeOK

LEMMA PagesType ==
  ASSUME TypeOK, Pages
  PROVE  TypeOK'
<1>1. CASE \E new \in SUBSET Egresses : Import(new)
  BY <1>1 DEF Import, import_links, Page, Request, web, TypeOK
<1>2. CASE \E e \in Egresses : Edit(e) \/ SetEnabled(e)
  BY <1>2, EditType
<1>3. CASE \E e \in Egresses : Delete(e)
  BY <1>3 DEF Delete, AssignedWithout, Page, Request, web, TypeOK
<1>4. CASE \E s \in Schemes : DeleteScheme(s)
  BY <1>4 DEF DeleteScheme, Page, Request, web, TypeOK
<1>5. ASSUME NEW r \in Rows, Toggle(r) PROVE TypeOK'
  <2>1. assigned[r] \in Assignment
    BY <1>5, RowTypes DEF Toggle
  <2>2. [assigned[r] EXCEPT !.on = ~@] \in Assignment
    BY <2>1 DEF Assignment
  <2>3. assigned' = [assigned EXCEPT ![r] = [assigned[r] EXCEPT !.on = ~@]]
    BY <1>5 DEF Toggle
  <2> QED
    BY <1>5, <2>2, <2>3 DEF Toggle, Page, Request, web, TypeOK
<1>6. CASE \E r \in Rows : Unassign(r)
  BY <1>6 DEF Unassign, Page, Request, web, TypeOK
<1>7. ASSUME NEW r \in Rows, AssignScheme(r) PROVE TypeOK'
  <2>1. PICK a \in Form : Assign(r, a)
    BY <1>7 DEF AssignScheme
  <2>2. a \in Assignment
    BY DEF Form
  <2> QED
    BY <1>7, <2>1, <2>2, AssignType DEF AssignScheme, Page, Request, web, TypeOK
<1> QED
  BY <1>1, <1>2, <1>3, <1>4, <1>5, <1>6, <1>7 DEF Pages, NodePage

\* A finding that is recorded.
LEMMA RecordType ==
  ASSUME TypeOK, NEW e \in Egresses, NEW version \in Nat, Record(e, version)
  PROVE  /\ found' \in [Egresses -> [udp : Finding, of : Nat, fresh : BOOLEAN] \cup {None}]
         /\ UNCHANGED <<egress, schemes, assigned>>
<1>1. PICK udp \in Finding : found' = [found EXCEPT ![e] = Recorded(e, version, udp)]
  BY DEF Record
<1>2. Recorded(e, version, udp) \in [udp : Finding, of : Nat, fresh : BOOLEAN]
  BY DEF Recorded, TypeOK
<1> QED
  BY <1>1, <1>2 DEF Record, TypeOK

LEMMA RequestType ==
  ASSUME TypeOK, JobsFit, NEW p \in Requests, Waits(p) \/ Ends(p) \/ Stuck(p)
  PROVE  TypeOK'
<1>1. CASE Waits(p)
  BY <1>1 DEF Waits, SchemeForm, AssignForm, CheckForm, Await, Request, tables, TypeOK
<1>2. CASE SaveScheme(p)
  <2>1. job[p] \in [scheme : Schemes, value : Scheme]
    BY <1>2 DEF SaveScheme, JobsFit
  <2> QED
    BY <1>2, <2>1 DEF SaveScheme, Over, TypeOK
<1>3. CASE SaveAssignment(p)
  <2>1. job[p] \in [row : Rows, value : Assignment]
    BY <1>3 DEF SaveAssignment, JobsFit
  <2>2. Assign(job[p].row, job[p].value) /\ job[p].row \in Rows /\ job[p].value \in Assignment
    BY <1>3, <2>1 DEF SaveAssignment
  <2> QED
    BY <1>3, <2>2, AssignType DEF SaveAssignment, Over, TypeOK
<1>4. CASE Refused(p)
  BY <1>4 DEF Refused, Over, tables, TypeOK
<1>5. CASE SaveCheck(p)
  <2>1. job[p] \in [egress : Egresses, version : Nat]
    BY <1>5 DEF SaveCheck, JobsFit
  <2>2. Record(job[p].egress, job[p].version) /\ job[p].egress \in Egresses
        /\ job[p].version \in Nat
    BY <1>5, <2>1 DEF SaveCheck
  <2> QED
    BY <1>5, <2>2, RecordType DEF SaveCheck, Over, TypeOK
<1>6. CASE TimesOut(p)
  BY <1>6 DEF TimesOut, tables, TypeOK
<1>7. CASE Stuck(p)
  BY <1>7 DEF Stuck, Request, tables, TypeOK
<1> QED
  BY <1>1, <1>2, <1>3, <1>4, <1>5, <1>6, <1>7 DEF Ends

LEMMA ProbeType ==
  ASSUME TypeOK,
         (\E full \in BOOLEAN : Probe(full)) \/ ProbeFails
           \/ \E e \in Egresses : ProbeRecorded(e)
  PROVE  TypeOK'
<1>1. ASSUME NEW full \in BOOLEAN, Probe(full) PROVE TypeOK'
  <2>1. \A e \in Due(full) : egress[e].version \in Nat
    BY RowTypes DEF Due, Unassigned
  <2> QED
    BY <1>1, <2>1 DEF Probe, tables, web, TypeOK
<1>2. CASE ProbeFails
  BY <1>2 DEF ProbeFails, tables, web, TypeOK
<1>3. ASSUME NEW e \in Egresses, ProbeRecorded(e) PROVE TypeOK'
  <2>1. Record(e, probing[e]) /\ probing[e] \in Nat
    BY <1>3 DEF ProbeRecorded, TypeOK
  <2> QED
    BY <1>3, <2>1, RecordType DEF ProbeRecorded, web, TypeOK
<1> QED
  BY <1>1, <1>2, <1>3

LEMMA TypeStep ==
  ASSUME TypeOK, JobsFit, [Next]_vars
  PROVE  TypeOK'
<1>1. CASE Pages
  BY <1>1, PagesType
<1>2. CASE \E p \in Requests : Waits(p) \/ Ends(p) \/ Stuck(p)
  BY <1>2, RequestType
<1>3. CASE Probe(FALSE) \/ Probe(TRUE) \/ ProbeFails \/ \E e \in Egresses : ProbeRecorded(e)
  BY <1>3, ProbeType
<1>4. CASE UNCHANGED vars
  BY <1>4 DEF vars, tables, web, TypeOK
<1> QED
  BY <1>1, <1>2, <1>3, <1>4 DEF Next

-----------------------------------------------------------------------------
(***************************************************************************)
(* What requests have in hand.                                             *)
(***************************************************************************)
LEMMA JobsStep ==
  ASSUME TypeOK, JobsFit, [Next]_vars
  PROVE  JobsFit'
<1>1. DOMAIN job = Requests /\ DOMAIN pc = Requests
  BY DEF JobsFit, TypeOK
<1>2. CASE UNCHANGED <<pc, job>>
  BY <1>2 DEF JobsFit
<1>3. ASSUME NEW p \in Requests, NEW at, NEW what, Await(p, at, what),
             \/ at = "scheme" /\ what \in [scheme : Schemes, value : Scheme]
             \/ at = "rules" /\ what \in [row : Rows, value : Assignment]
                             /\ what.value.scheme = None
             \/ at = "probe" /\ what \in [egress : Egresses, version : Nat]
      PROVE  JobsFit'
  <2>1. pc' = [pc EXCEPT ![p] = at] /\ job' = [job EXCEPT ![p] = what]
    BY <1>3 DEF Await
  <2> QED
    BY <1>1, <1>3, <2>1 DEF JobsFit
<1>4. ASSUME NEW p \in Requests, SchemeForm(p) PROVE JobsFit'
  <2>1. PICK s \in Schemes, v \in Scheme : Await(p, "scheme", [scheme |-> s, value |-> v])
    BY <1>4 DEF SchemeForm
  <2> QED
    BY <1>3, <2>1
<1>5. ASSUME NEW p \in Requests, AssignForm(p) PROVE JobsFit'
  <2>1. PICK r \in Rows, a \in Form :
          a.scheme = None /\ Await(p, "rules", [row |-> r, value |-> a])
    BY <1>5 DEF AssignForm
  <2>2. a \in Assignment
    BY DEF Form
  <2> QED
    BY <1>3, <2>1, <2>2
<1>6. ASSUME NEW p \in Requests, CheckForm(p) PROVE JobsFit'
  <2>1. PICK e \in Pool : Await(p, "probe", [egress |-> e, version |-> egress[e].version])
    BY <1>6 DEF CheckForm
  <2>2. e \in Egresses /\ egress[e].version \in Nat
    BY RowTypes DEF Pool
  <2> QED
    BY <1>3, <2>1, <2>2
<1>7. ASSUME NEW p \in Requests, Ends(p) \/ Stuck(p) PROVE JobsFit'
  <2>1. \/ pc' = [pc EXCEPT ![p] = "idle"] /\ job' = [job EXCEPT ![p] = None]
        \/ pc' = [pc EXCEPT ![p] = "stuck"] /\ job' = job
    BY <1>7 DEF Ends, SaveScheme, SaveAssignment, Refused, SaveCheck, Over, TimesOut, Stuck
  <2> QED
    BY <1>1, <2>1 DEF JobsFit
<1>8. CASE Pages
  <2>1. UNCHANGED <<pc, job>>
    BY <1>8 DEF Pages, Import, Edit, SetEnabled, Delete, DeleteScheme, NodePage, Toggle,
      Unassign, AssignScheme, Page, web
  <2> QED
    BY <1>2, <2>1
<1>9. CASE Probe(FALSE) \/ Probe(TRUE) \/ ProbeFails \/ \E e \in Egresses : ProbeRecorded(e)
  BY <1>2, <1>9 DEF Probe, ProbeFails, ProbeRecorded, web
<1>10. CASE UNCHANGED vars
  BY <1>2, <1>10 DEF vars, web
<1> QED
  BY <1>4, <1>5, <1>6, <1>7, <1>8, <1>9, <1>10 DEF Next, Waits

-----------------------------------------------------------------------------
(***************************************************************************)
(* References.                                                             *)
(***************************************************************************)

\* Nothing an assignment needs goes, and none is added or changed.
LEMMA SameRows ==
  ASSUME Referenced, Pool \subseteq Pool', SchemeIds \subseteq SchemeIds',
         \A r \in Ids' : r \in Ids /\ assigned'[r].egress = assigned[r].egress
                                 /\ assigned'[r].scheme = assigned[r].scheme
  PROVE  Referenced'
BY DEF Referenced, Missing

\* assign: the new row's egress and scheme are there when it is written.
LEMMA AssignReferenced ==
  ASSUME TypeOK, Referenced, NEW r \in Rows, NEW a \in Assignment, Assign(r, a)
  PROVE  Referenced'
<1>1. /\ a.egress \in Pool /\ (a.scheme # None => a.scheme \in SchemeIds)
      /\ UNCHANGED <<egress, schemes>>
      /\ assigned' = [assigned EXCEPT ![r] = [a EXCEPT !.net = NetOf(a), !.fails = FailsOf(a)]]
  BY DEF Assign, EgressThere
<1>2. Pool' = Pool /\ SchemeIds' = SchemeIds
  BY <1>1 DEF Pool, SchemeIds
<1>3. assigned'[r].egress = a.egress /\ assigned'[r].scheme = a.scheme
  BY <1>1, SavedType DEF TypeOK
<1>4. ASSUME NEW q \in Ids' PROVE assigned'[q].egress \in Pool /\ ~Missing(assigned[q])'
  <2>1. CASE q = r
    BY <1>1, <1>2, <1>3, <2>1 DEF Missing
  <2>2. CASE q # r
    <3>1. assigned'[q] = assigned[q] /\ q \in Ids
      BY <1>1, <1>4, <2>2 DEF Ids, TypeOK
    <3> QED
      BY <1>2, <3>1 DEF Referenced, Missing
  <2> QED
    BY <2>1, <2>2
<1> QED
  BY <1>2, <1>4 DEF Referenced

LEMMA ReferencedStep ==
  ASSUME TypeOK, JobsFit, Referenced, [Next]_vars
  PROVE  Referenced'
<1>1. CASE UNCHANGED <<egress, schemes, assigned>>
  BY <1>1 DEF Referenced, Missing, Ids, Pool, SchemeIds
<1>2. ASSUME NEW new \in SUBSET Egresses, Import(new) PROVE Referenced'
  <2>1. UNCHANGED <<schemes, assigned>> /\ egress' = import_links(new)
        /\ \A e \in new : egress[e] = None
    BY <1>2 DEF Import
  <2>2. Pool \subseteq Pool'
    BY <2>1 DEF Pool, import_links
  <2> QED
    BY <2>1, <2>2, SameRows DEF Ids, SchemeIds
<1>3. ASSUME NEW e \in Egresses, Edit(e) \/ SetEnabled(e) PROVE Referenced'
  <2>1. UNCHANGED <<schemes, assigned>>
    BY <1>3 DEF Edit, SetEnabled
  <2>2. PICK row \in [version : Nat \ {0}, on : BOOLEAN] : egress' = [egress EXCEPT ![e] = row]
    BY <1>3, EditRow
  <2>3. egress'[e] = row /\ \A f \in Egresses \ {e} : egress'[f] = egress[f]
    BY <2>2 DEF TypeOK
  <2>4. Pool \subseteq Pool'
    BY <2>3, RowsAreRows DEF Pool
  <2> QED
    BY <2>1, <2>4, SameRows DEF Ids, SchemeIds
<1>4. ASSUME NEW e \in Egresses, Delete(e) PROVE Referenced'
  <2>1. /\ schemes' = schemes /\ assigned' = AssignedWithout(e)
        /\ \A f \in Egresses \ {e} : egress'[f] = egress[f]
    BY <1>4 DEF Delete, TypeOK
  <2>2. Pool \ {e} \subseteq Pool' /\ SchemeIds' = SchemeIds
    BY <2>1 DEF Pool, SchemeIds
  <2>3. ASSUME NEW r \in Ids'
        PROVE  r \in Ids /\ assigned'[r] = assigned[r] /\ assigned[r].egress # e
    BY <2>1 DEF Ids, AssignedWithout
  <2>4. \A r \in Ids' : assigned[r].egress \in Pool' /\ ~Missing(assigned[r])
    BY <2>2, <2>3 DEF Referenced
  <2> QED
    BY <2>2, <2>3, <2>4 DEF Referenced, Missing
<1>5. ASSUME NEW s \in Schemes, DeleteScheme(s) PROVE Referenced'
  <2>1. /\ UNCHANGED <<egress, assigned>> /\ \A r \in Ids : assigned[r].scheme # s
        /\ \A t \in Schemes \ {s} : schemes'[t] = schemes[t]
    BY <1>5 DEF DeleteScheme, MayDelete, TypeOK
  <2>2. Pool' = Pool /\ Ids' = Ids /\ SchemeIds \ {s} \subseteq SchemeIds'
    BY <2>1 DEF Pool, Ids, SchemeIds
  <2> QED
    BY <2>1, <2>2 DEF Referenced, Missing
<1>6. ASSUME NEW r \in Rows, Toggle(r) PROVE Referenced'
  <2>1. UNCHANGED <<egress, schemes>> /\ assigned[r] \in Assignment /\ r \in Ids
        /\ assigned' = [assigned EXCEPT ![r] = [assigned[r] EXCEPT !.on = ~@]]
    BY <1>6, RowTypes DEF Toggle
  <2>2. \A q \in Ids' : q \in Ids /\ assigned'[q].egress = assigned[q].egress
                                  /\ assigned'[q].scheme = assigned[q].scheme
    BY <2>1 DEF Ids, TypeOK, Assignment
  <2> QED
    BY <2>1, <2>2, SameRows DEF Pool, SchemeIds
<1>7. ASSUME NEW r \in Rows, Unassign(r) PROVE Referenced'
  <2>1. UNCHANGED <<egress, schemes>> /\ assigned' = [assigned EXCEPT ![r] = None]
    BY <1>7 DEF Unassign
  <2>2. \A q \in Ids' : q \in Ids /\ assigned'[q] = assigned[q]
    BY <2>1 DEF Ids, TypeOK
  <2> QED
    BY <2>1, <2>2, SameRows DEF Pool, SchemeIds
<1>8. ASSUME NEW r \in Rows, AssignScheme(r) PROVE Referenced'
  BY <1>8, AssignReferenced DEF AssignScheme, Form
<1>9. CASE Pages
  BY <1>2, <1>3, <1>4, <1>5, <1>6, <1>7, <1>8, <1>9 DEF Pages, NodePage
<1>10. ASSUME NEW p \in Requests, SaveScheme(p) PROVE Referenced'
  <2>1. job[p] \in [scheme : Schemes, value : Scheme]
    BY <1>10 DEF SaveScheme, JobsFit
  <2>2. UNCHANGED <<egress, assigned>>
        /\ schemes' = [schemes EXCEPT ![job[p].scheme] = job[p].value]
    BY <1>10 DEF SaveScheme
  <2>3. SchemeIds \subseteq SchemeIds'
    BY <2>1, <2>2, RowsAreRows DEF SchemeIds, TypeOK
  <2> QED
    BY <2>2, <2>3, SameRows DEF Pool, Ids
<1>11. ASSUME NEW p \in Requests, SaveAssignment(p) PROVE Referenced'
  <2>1. job[p] \in [row : Rows, value : Assignment] /\ Assign(job[p].row, job[p].value)
    BY <1>11 DEF SaveAssignment, JobsFit
  <2> QED
    BY <2>1, AssignReferenced
<1>12. ASSUME NEW p \in Requests,
              Waits(p) \/ Refused(p) \/ SaveCheck(p) \/ TimesOut(p) \/ Stuck(p)
       PROVE  Referenced'
  BY <1>1, <1>12 DEF Waits, SchemeForm, AssignForm, CheckForm, Await, Refused, SaveCheck,
    Record, TimesOut, Stuck, tables
<1>13. CASE Probe(FALSE) \/ Probe(TRUE) \/ ProbeFails \/ \E e \in Egresses : ProbeRecorded(e)
  BY <1>1, <1>13 DEF Probe, ProbeFails, ProbeRecorded, Record, tables
<1>14. CASE UNCHANGED vars
  BY <1>1, <1>14 DEF vars, tables
<1> QED
  BY <1>9, <1>10, <1>11, <1>12, <1>13, <1>14 DEF Next, Ends

-----------------------------------------------------------------------------
(***************************************************************************)
(* UDP.                                                                    *)
(***************************************************************************)

\* A row that is as it was, with its scheme, carries what it carried.
LEMMA SameNet ==
  ASSUME NEW r \in Rows, CarriesUdp(r)', assigned'[r] = assigned[r],
         schemes'[assigned[r].scheme] = schemes[assigned[r].scheme]
  PROVE  CarriesUdp(r)
BY DEF CarriesUdp, Ids, NetOf, SchemeIds

\* assign: the network is looked at with the finding there is when the row is written.
LEMMA AssignUdp ==
  ASSUME TypeOK, NEW q \in Rows, NEW a \in Assignment, Assign(q, a),
         NEW r \in Rows, CarriesUdp(r)', ~CarriesUdp(r)
  PROVE  UdpSupport(assigned'[r].egress) # "no"
<1>1. /\ UNCHANGED schemes /\ NetworkWorks(a.egress, NetOf(a))
      /\ assigned' = [assigned EXCEPT ![q] = [a EXCEPT !.net = NetOf(a), !.fails = FailsOf(a)]]
  BY DEF Assign
<1>2. q = r
  <2>1. q # r => assigned'[r] = assigned[r]
    BY <1>1
  <2> QED
    BY <1>1, <2>1, SameNet
<1>3. /\ assigned'[r].egress = a.egress /\ assigned'[r].scheme = a.scheme
      /\ assigned'[r].net = NetOf(a)
  BY <1>1, <1>2, SavedType DEF TypeOK
<1>4. NetOf(assigned[r])' = NetOf(a)
  BY <1>1, <1>3 DEF NetOf, SchemeIds
<1>5. NetOf(a) = "tcp,udp"
  BY <1>4 DEF CarriesUdp
<1> QED
  BY <1>1, <1>3, <1>5 DEF NetworkWorks

LEMMA ToggleUdp ==
  ASSUME TypeOK, NEW q \in Rows, Toggle(q),
         NEW r \in Rows, CarriesUdp(r)', ~CarriesUdp(r)
  PROVE  UdpSupport(assigned'[r].egress) # "no"
<1>1. /\ UNCHANGED schemes /\ assigned[q] \in Assignment
      /\ assigned' = [assigned EXCEPT ![q] = [assigned[q] EXCEPT !.on = ~@]]
      /\ assigned[q].on \/ NetworkWorks(assigned[q].egress, NetOf(assigned[q]))
  BY RowTypes DEF Toggle
<1>2. q = r
  <2>1. q # r => assigned'[r] = assigned[r]
    BY <1>1
  <2> QED
    BY <1>1, <2>1, SameNet
<1>3. assigned'[r] = [assigned[r] EXCEPT !.on = ~assigned[r].on]
  BY <1>1, <1>2 DEF TypeOK
<1>4. /\ assigned'[r].egress = assigned[r].egress /\ assigned'[r].scheme = assigned[r].scheme
      /\ assigned'[r].net = assigned[r].net /\ assigned'[r].on = ~assigned[r].on
  BY <1>1, <1>2, <1>3 DEF Assignment
<1>5. NetOf(assigned[r])' = NetOf(assigned[r])
  BY <1>1, <1>4 DEF NetOf, SchemeIds
<1>6. NetOf(assigned[r]) = "tcp,udp" /\ ~assigned[r].on
  BY <1>4, <1>5 DEF CarriesUdp
<1> QED
  BY <1>1, <1>2, <1>4, <1>6 DEF NetworkWorks

\* save_scheme: the rows that follow the scheme are looked at with its new network.
LEMMA SchemeUdp ==
  ASSUME TypeOK, JobsFit, NEW p \in Requests, SaveScheme(p),
         NEW r \in Rows, CarriesUdp(r)', ~CarriesUdp(r)
  PROVE  UdpSupport(assigned'[r].egress) # "no"
<1> DEFINE s == job[p].scheme
           v == job[p].value
<1>1. s \in Schemes /\ v \in Scheme
  BY DEF SaveScheme, JobsFit
<1>2. /\ UNCHANGED assigned /\ MaySave(s, v)
      /\ schemes' = [schemes EXCEPT ![s] = v]
  BY DEF SaveScheme
<1>3. assigned[r].scheme = s
  <2>1. assigned[r].scheme # s => schemes'[assigned[r].scheme] = schemes[assigned[r].scheme]
    BY <1>2
  <2> QED
    BY <1>2, <2>1, SameNet
<1>4. schemes'[s] = v /\ v \notin {None, Deleted}
  BY <1>1, <1>2, RowsAreRows DEF TypeOK
<1>5. NetOf(assigned[r])' = v.net /\ r \in Ids /\ assigned[r].on
  BY <1>1, <1>2, <1>3, <1>4 DEF NetOf, SchemeIds, CarriesUdp, Ids
<1>6. v.net = "tcp,udp"
  BY <1>5 DEF CarriesUdp
<1> QED
  BY <1>2, <1>3, <1>5, <1>6 DEF MaySave, NetworkWorks

LEMMA UdpStep ==
  ASSUME TypeOK, JobsFit, [Next]_vars, NEW r \in Rows, CarriesUdp(r)', ~CarriesUdp(r)
  PROVE  UdpSupport(assigned'[r].egress) # "no"
<1>1. ~UNCHANGED <<schemes, assigned>>
  BY SameNet
<1>2. ASSUME NEW e \in Egresses, Delete(e) PROVE FALSE
  <2>1. assigned'[r] = assigned[r] /\ schemes' = schemes
    BY <1>2 DEF Delete, AssignedWithout, CarriesUdp, Ids
  <2> QED
    BY <2>1, SameNet
<1>3. ASSUME NEW s \in Schemes, DeleteScheme(s) PROVE FALSE
  <2>1. /\ assigned' = assigned /\ schemes' = [schemes EXCEPT ![s] = Deleted]
        /\ \A q \in Ids : assigned[q].scheme # s
    BY <1>3 DEF DeleteScheme, MayDelete
  <2>2. assigned[r].scheme # s
    BY <2>1 DEF CarriesUdp, Ids
  <2> QED
    BY <2>1, <2>2, SameNet
<1>4. ASSUME NEW q \in Rows, Unassign(q) PROVE FALSE
  <2>1. schemes' = schemes /\ assigned' = [assigned EXCEPT ![q] = None]
    BY <1>4 DEF Unassign
  <2>2. q # r
    BY <2>1 DEF CarriesUdp, Ids, TypeOK
  <2> QED
    BY <2>1, <2>2, SameNet
<1>5. ASSUME NEW q \in Rows, AssignScheme(q) PROVE UdpSupport(assigned'[r].egress) # "no"
  BY <1>5, AssignUdp DEF AssignScheme, Form
<1>6. CASE Pages
  <2>1. CASE \/ \E new \in SUBSET Egresses : Import(new)
             \/ \E e \in Egresses : Edit(e) \/ SetEnabled(e)
    BY <1>1, <2>1 DEF Import, Edit, SetEnabled
  <2> QED
    BY <1>2, <1>3, <1>4, <1>5, <1>6, <2>1, ToggleUdp DEF Pages, NodePage
<1>7. ASSUME NEW p \in Requests, SaveAssignment(p)
      PROVE  UdpSupport(assigned'[r].egress) # "no"
  <2>1. job[p] \in [row : Rows, value : Assignment] /\ Assign(job[p].row, job[p].value)
    BY <1>7 DEF SaveAssignment, JobsFit
  <2> QED
    BY <2>1, AssignUdp
<1>8. ASSUME NEW p \in Requests,
             Waits(p) \/ Refused(p) \/ SaveCheck(p) \/ TimesOut(p) \/ Stuck(p)
      PROVE  FALSE
  BY <1>1, <1>8 DEF Waits, SchemeForm, AssignForm, CheckForm, Await, Refused, SaveCheck,
    Record, TimesOut, Stuck, tables
<1>9. CASE Probe(FALSE) \/ Probe(TRUE) \/ ProbeFails \/ \E e \in Egresses : ProbeRecorded(e)
  BY <1>1, <1>9 DEF Probe, ProbeFails, ProbeRecorded, Record, tables
<1>10. CASE UNCHANGED vars
  BY <1>1, <1>10 DEF vars, tables
<1> QED
  BY <1>6, <1>7, <1>8, <1>9, <1>10, SchemeUdp DEF Next, Ends

-----------------------------------------------------------------------------
\* The tables and what every waiting request has in hand keep their types, and no
\* reference is ever left hanging (console/egress.py, console/egress_web.py).
THEOREM PoolInvariance == Spec => []PoolIInv
<1>1. PoolIInv /\ [Next]_vars => PoolIInv'
  BY TypeStep, JobsStep, ReferencedStep DEF PoolIInv
<1> QED
  BY <1>1, PoolInit, PTL DEF Spec

\* An assignment always has its egress and its scheme, whatever is deleted while its
\* form is tested (assign, delete, delete_scheme).
THEOREM AlwaysReferenced == Spec => []Referenced
<1>1. PoolIInv => Referenced
  BY DEF PoolIInv
<1> QED
  BY <1>1, PoolInvariance, PTL

\* No page, in any order with checks and other pages, makes an assignment carry UDP
\* into an egress whose last finding is that it does not (_check_network).
THEOREM UdpOnlyWhereItWorks == Spec => NoUdpWhereNone
<1>1. PoolIInv /\ [Next]_vars =>
        [\A r \in Rows :
           CarriesUdp(r)' /\ ~CarriesUdp(r) => UdpSupport(assigned'[r].egress) # "no"]_vars
  BY UdpStep DEF PoolIInv
<1> QED
  BY <1>1, PoolInvariance, PTL DEF Spec, NoUdpWhereNone

-----------------------------------------------------------------------------
(***************************************************************************)
(* The greatest of some numbers, and the replay of a round's transitions.  *)
(***************************************************************************)

\* A set of numbers that has 0 and with each number the next has all.
LEMMA Induct == ASSUME NEW T \in SUBSET Nat, 0 \in T, \A n \in T : n + 1 \in T PROVE T = Nat
<1> DEFINE Others == Nat \ T
<1>1. ASSUME Others # {} PROVE FALSE
  <2>1. PICK x \in Others : \A y \in Others : ~(<<y, x>> \in OpToRel(<, Nat))
    <3>1. Others \subseteq Nat
      OBVIOUS
    <3> HIDE DEF Others
    <3> QED
      BY <3>1, <1>1, NatLessThanWellFounded, WFMin
  <2>2. x # 0 /\ x \in Nat /\ x - 1 \in Nat /\ x - 1 + 1 = x
    OBVIOUS
  <2>3. x - 1 \in Others
    BY <2>1, <2>2
  <2>4. <<x - 1, x>> \in OpToRel(<, Nat)
    BY <2>2 DEF OpToRel
  <2> QED
    BY <2>1, <2>3, <2>4
<1> QED
  BY <1>1

\* Some numbers, and at least one, below a bound have a greatest.
LEMMA Greatest ==
  ASSUME NEW S \in SUBSET Nat, S # {}, NEW b \in Nat, \A s \in S : s <= b
  PROVE  \E m \in S : \A s \in S : s <= m
<1> SUFFICES ASSUME ~\E m \in S : \A s \in S : s <= m PROVE FALSE
  OBVIOUS
<1> DEFINE T == {n \in Nat : \E s \in S : s >= n}
<1>1. 0 \in T
  <2>1. PICK s \in S : TRUE
    OBVIOUS
  <2>2. s >= 0 /\ 0 \in Nat
    OBVIOUS
  <2> QED
    BY <2>2
<1>2. ASSUME NEW n \in T PROVE n + 1 \in T
  <2>1. PICK s \in S : s >= n
    OBVIOUS
  <2>2. PICK r \in S : ~(r <= s)
    OBVIOUS
  <2>3. r \in Nat /\ s \in Nat /\ n \in Nat
    OBVIOUS
  <2>4. r >= n + 1
    BY <2>1, <2>2, <2>3
  <2> QED
    BY <2>3, <2>4
<1>3. T \in SUBSET Nat
  OBVIOUS
<1> HIDE DEF T
<1>4. b + 1 \in T
  BY <1>1, <1>2, <1>3, Induct
<1> QED
  BY <1>4 DEF T

LEMMA LatestIs ==
  ASSUME NEW S \in SUBSET Nat, S # {}, NEW b \in Nat, \A s \in S : s <= b
  PROVE  Latest(S) \in S /\ \A s \in S : s <= Latest(S)
<1>1. \E m \in S : \A s \in S : s <= m
  BY Greatest
<1> QED
  BY <1>1 DEF Latest

Transition(b) == [at : 0 .. b, order : {0, 1}, who : Transports]

LEMMA LastOfIs ==
  ASSUME NEW b \in Nat, NEW d \in SUBSET Transition(b), d # {}
  PROVE  LastOf(d) \in d /\ \A t \in d : t.at <= LastOf(d).at
<1> DEFINE W == {2 * t.at + t.order : t \in d}
<1>1. \A t \in d : t.at \in Nat /\ t.order \in {0, 1} /\ t.at <= b
  BY DEF Transition
<1>2. W \in SUBSET Nat /\ W # {} /\ \A w \in W : w <= 2 * b + 1
  <2>1. ASSUME NEW t \in d
        PROVE  2 * t.at + t.order \in Nat /\ 2 * t.at + t.order <= 2 * b + 1
    BY <1>1
  <2> QED
    BY <2>1
<1> HIDE DEF W
<1>3. 2 * b + 1 \in Nat
  OBVIOUS
<1>4. PICK m \in W : \A w \in W : w <= m
  BY <1>2, <1>3, Greatest
<1>5. PICK t \in d : m = 2 * t.at + t.order
  BY DEF W
<1>6. ASSUME NEW other \in d PROVE ~Before(t, other)
  <2>1. 2 * other.at + other.order <= 2 * t.at + t.order
    BY <1>4, <1>5 DEF W
  <2> QED
    BY <1>1, <2>1 DEF Before
<1>7. LastOf(d) \in d /\ \A other \in d : ~Before(LastOf(d), other)
  BY <1>6 DEF LastOf
<1>8. ASSUME NEW other \in d PROVE other.at <= LastOf(d).at
  BY <1>1, <1>7 DEF Before
<1> QED
  BY <1>7, <1>8

\* A family of subsets that has the empty one, and each one that it has without some
\* element of it, has them all.
LEMMA OnSubsets ==
  ASSUME NEW S, IsFiniteSet(S), NEW G \in SUBSET SUBSET S, {} \in G,
         \A d \in SUBSET S : d # {} => \E x \in d : d \ {x} \in G => d \in G
  PROVE  \A d \in SUBSET S : d \in G
<1> DEFINE T == {n \in Nat : \A d \in SUBSET S : Cardinality(d) = n => d \in G}
<1>1. \A d \in SUBSET S : IsFiniteSet(d) /\ Cardinality(d) \in Nat
  BY FS_Subset, FS_CardinalityType
<1>2. 0 \in T
  <2>1. ASSUME NEW d \in SUBSET S, Cardinality(d) = 0 PROVE d \in G
    BY <1>1, <2>1, FS_EmptySet
  <2> QED
    BY <2>1
<1>3. ASSUME NEW n \in T PROVE n + 1 \in T
  <2>1. ASSUME NEW d \in SUBSET S, Cardinality(d) = n + 1 PROVE d \in G
    <3>1. d # {} /\ n \in Nat
      BY <2>1, FS_EmptySet
    <3>2. PICK x \in d : d \ {x} \in G => d \in G
      BY <3>1
    <3>3. Cardinality(d \ {x}) = Cardinality(d) - 1
      BY <1>1, FS_RemoveElement
    <3>4. Cardinality(d \ {x}) = n
      BY <2>1, <3>1, <3>3
    <3>5. d \ {x} \in G
      BY <3>4
    <3> QED
      BY <3>2, <3>5
  <2>2. n + 1 \in Nat
    OBVIOUS
  <2> QED
    BY <2>1, <2>2
<1>4. T \in SUBSET Nat
  OBVIOUS
<1> HIDE DEF T
<1>5. T = Nat
  BY <1>2, <1>3, <1>4, Induct
<1> QED
  BY <1>1, <1>5 DEF T

AfterOf(f, d, book, of) ==
  IF d = {} THEN book ELSE Replayed(f[d \ {LastOf(d)}], LastOf(d), of)

IsReplay(f, dom, book, of) == f = [d \in dom |-> AfterOf(f, d, book, of)]

LEMMA ReplayExists ==
  ASSUME NEW b \in Nat, NEW S \in SUBSET Transition(b), IsFiniteSet(S), NEW book, NEW of
  PROVE  \E f : IsReplay(f, SUBSET S, book, of)
<1> DEFINE Dom(n) == {d \in SUBSET S : Cardinality(d) <= n}
           T == {n \in Nat : \E f : IsReplay(f, Dom(n), book, of)}
<1>1. ASSUME NEW d \in SUBSET S
      PROVE  /\ IsFiniteSet(d) /\ Cardinality(d) \in Nat /\ Cardinality(d) <= Cardinality(S)
             /\ d # {} => /\ LastOf(d) \in d /\ d \ {LastOf(d)} \in SUBSET S
                          /\ Cardinality(d \ {LastOf(d)}) = Cardinality(d) - 1
  <2>1. /\ IsFiniteSet(d) /\ Cardinality(d) \in Nat /\ Cardinality(d) <= Cardinality(S)
    BY FS_Subset, FS_CardinalityType
  <2>2. ASSUME d # {} PROVE LastOf(d) \in d
    BY <2>2, LastOfIs
  <2> QED
    BY <2>1, <2>2, FS_RemoveElement
<1>2. \A d \in SUBSET S : IsFiniteSet(d) /\ Cardinality(d) \in Nat
  BY <1>1
<1>3. 0 \in T
  <2> DEFINE f == [d \in Dom(0) |-> book]
  <2>1. ASSUME NEW d \in Dom(0) PROVE d = {}
    <3>1. d \in SUBSET S /\ Cardinality(d) <= 0
      OBVIOUS
    <3>2. IsFiniteSet(d) /\ Cardinality(d) = 0
      BY <1>2, <3>1
    <3> QED
      BY <3>2, FS_EmptySet
  <2>2. f = [d \in Dom(0) |-> AfterOf(f, d, book, of)]
    BY <2>1 DEF AfterOf
  <2> QED
    BY <2>2 DEF IsReplay
<1>4. ASSUME NEW n \in T PROVE n + 1 \in T
  <2>1. PICK f : IsReplay(f, Dom(n), book, of)
    OBVIOUS
  <2> DEFINE g == [d \in Dom(n + 1) |-> AfterOf(f, d, book, of)]
  <2>2. \A d \in Dom(n) : f[d] = AfterOf(f, d, book, of)
    BY <2>1 DEF IsReplay
  <2>3. n \in Nat
    OBVIOUS
  <2>4. \A d \in Dom(n) : d \in Dom(n + 1) /\ g[d] = f[d]
    <3>1. ASSUME NEW d \in Dom(n) PROVE d \in Dom(n + 1)
      <4>1. d \in SUBSET S /\ Cardinality(d) <= n
        OBVIOUS
      <4>2. Cardinality(d) <= n + 1
        BY <1>2, <2>3, <4>1
      <4> QED
        BY <4>1, <4>2
    <3> QED
      BY <2>2, <3>1
  <2>5. ASSUME NEW d \in Dom(n + 1), d # {} PROVE d \ {LastOf(d)} \in Dom(n)
    <3>1. d \in SUBSET S /\ Cardinality(d) <= n + 1
      OBVIOUS
    <3>2. Cardinality(d) \in Nat /\ d \ {LastOf(d)} \in SUBSET S
          /\ Cardinality(d \ {LastOf(d)}) = Cardinality(d) - 1
      BY <1>1, <2>5, <3>1
    <3> QED
      BY <2>3, <3>1, <3>2
  <2> HIDE DEF Dom
  <2>6. ASSUME NEW d \in Dom(n + 1) PROVE AfterOf(f, d, book, of) = AfterOf(g, d, book, of)
    BY <2>4, <2>5 DEF AfterOf
  <2>7. IsReplay(g, Dom(n + 1), book, of)
    BY <2>6 DEF IsReplay
  <2> QED
    BY <2>3, <2>7
<1>5. T \in SUBSET Nat
  OBVIOUS
<1> HIDE DEF T
<1>6. T = Nat
  BY <1>3, <1>4, <1>5, Induct
<1>7. Cardinality(S) \in T
  BY <1>6, FS_CardinalityType
<1>8. Dom(Cardinality(S)) = SUBSET S
  BY <1>1
<1> QED
  BY <1>7, <1>8 DEF T

\* The book after any of the transitions comes from the book after all but the last.
Steps(f, S, book, of) ==
  /\ f[{}] = book /\ Replays(book, S, of) = f[S]
  /\ \A d \in SUBSET S : d # {} =>
       /\ LastOf(d) \in d /\ f[d] = Replayed(f[d \ {LastOf(d)}], LastOf(d), of)
       /\ \A t \in d : t.at <= LastOf(d).at

LEMMA ReplaySteps ==
  ASSUME NEW b \in Nat, NEW S \in SUBSET Transition(b), IsFiniteSet(S), NEW book, NEW of
  PROVE  \E f : Steps(f, S, book, of)
<1> DEFINE f == CHOOSE g : IsReplay(g, SUBSET S, book, of)
<1>1. IsReplay(f, SUBSET S, book, of)
  BY ReplayExists
<1>2. Replays(book, S, of) = f[S]
  BY DEF Replays, IsReplay, AfterOf
<1> HIDE DEF f
<1>3. \A d \in SUBSET S : f[d] = AfterOf(f, d, book, of)
  BY <1>1 DEF IsReplay
<1>4. f[{}] = book
  BY <1>3 DEF AfterOf
<1>5. \A d \in SUBSET S : d # {} => LastOf(d) \in d /\ \A t \in d : t.at <= LastOf(d).at
  BY LastOfIs
<1> QED
  BY <1>2, <1>3, <1>4, <1>5 DEF AfterOf, Steps

-----------------------------------------------------------------------------
(***************************************************************************)
(* The table of incidents.                                                 *)
(***************************************************************************)

\* Rows of a table in order, none of them dated later than b.
Table(rows, b) ==
  /\ rows \in SUBSET Incident /\ InOrder(rows)
  /\ \A i \in rows : i.from <= b /\ i.to <= b

\* What has ended stays.
KeepsEnded(old, new) == \A i \in old : i.to # Never => i \in new

LEMMA CloseRows ==
  ASSUME NEW b \in Nat, NEW at \in 0 .. b, NEW rows, Table(rows, b), NEW kinds
  PROVE  LET new == CloseOpen(rows, kinds, at)
         IN  /\ Table(new, b) /\ KeepsEnded(rows, new) /\ Open(new, kinds) = {}
             /\ \A i \in new : i \in rows \/ i.to = at
             /\ \A i \in new : i.to = Never => i \in rows
             /\ \A i \in rows : i.to = Never /\ i.kind \notin kinds => i \in new
<1> DEFINE open == Open(rows, kinds)
           Closed(i) == [kind |-> i.kind, from |-> i.from, to |-> at, who |-> i.who]
           new == CloseOpen(rows, kinds, at)
<1>1. new = (rows \ open) \cup {Closed(i) : i \in {i \in open : at > i.from}}
  BY DEF CloseOpen
<1>2. ASSUME NEW i \in rows
      PROVE  /\ i \in Incident /\ i.kind \in Faults \cup {"maintenance"} /\ i.who \in SUBSET Transports
             /\ i.from \in Nat /\ i.to \in Nat /\ i.from <= b /\ i.to <= b
             /\ i.to # Never => i.from < i.to
             /\ i \in open <=> i.to = Never /\ i.kind \in kinds
  BY DEF Table, Incident, InOrder, Open, IsOpen
<1>3. ASSUME NEW i \in open, at > i.from
      PROVE  Closed(i) \in Incident /\ Closed(i).from = i.from /\ Closed(i).to = at /\ at # Never
  <2>1. i \in rows
    BY DEF Open
  <2> QED
    BY <1>2, <1>3, <2>1 DEF Incident, Never
<1>4. \A i \in new : \/ i \in rows /\ i \notin open
                     \/ \E j \in open : at > j.from /\ i = Closed(j)
  BY <1>1
<1>5. open \subseteq rows
  BY DEF Open
<1>6. new \in SUBSET Incident
  BY <1>2, <1>3, <1>4
<1>7. \A i \in new : i.from <= b /\ i.to <= b /\ (i.to # Never => i.from < i.to)
  <2>1. ASSUME NEW j \in open, at > j.from
        PROVE  LET i == Closed(j) IN i.from <= b /\ i.to <= b /\ i.from < i.to
    BY <1>2, <1>3, <1>5, <2>1
  <2> QED
    BY <1>2, <1>4, <2>1
<1>8. \A i, j \in rows : i = j \/ Follows(i, j) \/ Follows(j, i)
  BY DEF Table, InOrder
<1>9. ASSUME NEW i \in new, NEW j \in new PROVE i = j \/ Follows(i, j) \/ Follows(j, i)
  <2>1. CASE i \in rows /\ j \in rows
    BY <1>8, <2>1
  <2>2. ASSUME NEW k \in rows \ open, NEW l \in open, at > l.from
        PROVE  Follows(Closed(l), k)
    <3>1. k # l /\ l \in rows /\ l.to = Never
      BY <1>2, <1>5
    <3>2. Follows(l, k)
      BY <1>8, <3>1 DEF Follows
    <3> QED
      BY <1>3, <2>2, <3>2 DEF Follows
  <2>3. ASSUME NEW k \in open, NEW l \in open PROVE k = l
    BY <1>2, <1>5, <1>8 DEF Follows
  <2> QED
    BY <1>4, <2>1, <2>2, <2>3
<1>10. Table(new, b)
  BY <1>6, <1>7, <1>9 DEF Table, InOrder
<1>11. KeepsEnded(rows, new)
  BY <1>1, <1>2 DEF KeepsEnded
<1>12. Open(new, kinds) = {}
  <2>1. ASSUME NEW i \in new PROVE ~IsOpen(i, kinds)
    BY <1>2, <1>3, <1>4, <1>5 DEF IsOpen
  <2> QED
    BY <2>1 DEF Open
<1>13. \A i \in new : (i \in rows \/ i.to = at) /\ (i.to = Never => i \in rows)
  BY <1>3, <1>4
<1>14. \A i \in rows : i.to = Never /\ i.kind \notin kinds => i \in new
  BY <1>1, <1>2
<1> QED
  BY <1>10, <1>11, <1>12, <1>13, <1>14

LEMMA StartRow ==
  ASSUME NEW b \in Nat, NEW at \in 0 .. b, NEW rows, Table(rows, b),
         NEW kind \in Faults \cup {"maintenance"}, NEW who \in SUBSET Transports,
         \A i \in rows : i.to # Never /\ i.to <= at
  PROVE  LET new == Start(rows, kind, at, who)
         IN  Table(new, b) /\ KeepsEnded(rows, new)
<1> DEFINE row == [kind |-> kind, from |-> at, to |-> Never, who |-> who]
           new == Start(rows, kind, at, who)
<1>1. new = rows \cup {row}
  BY DEF Start
<1>2. row \in Incident /\ row.from = at /\ row.to = Never
  BY DEF Incident, Never
<1>3. \A i \in rows : i \in Incident /\ i.from <= b /\ i.to <= b
  BY DEF Table
<1>4. \A i \in rows : Follows(row, i)
  BY <1>2 DEF Follows
<1>5. \A i, j \in rows : i = j \/ Follows(i, j) \/ Follows(j, i)
  BY DEF Table, InOrder
<1>6. \A i \in rows : i.to # Never => i.from < i.to
  BY DEF Table, InOrder
<1> HIDE DEF row
<1>7. InOrder(new)
  BY <1>1, <1>2, <1>4, <1>5, <1>6 DEF InOrder
<1>8. \A i \in new : i \in Incident /\ i.from <= b /\ i.to <= b
  BY <1>1, <1>2, <1>3 DEF Never
<1>9. Table(new, b)
  BY <1>7, <1>8 DEF Table
<1>10. KeepsEnded(rows, new)
  BY <1>1 DEF KeepsEnded
<1> QED
  BY <1>9, <1>10

\* What settle is given and gives back: no maintenance is open, the floor is not before
\* any end and the transports are known.
Book(book, b) ==
  /\ Table(book.rows, b) /\ Open(book.rows, {"maintenance"}) = {}
  /\ book.floor \in 0 .. b /\ \A i \in book.rows : i.to <= book.floor
  /\ book.down \in SUBSET Transports

LEMMA LaterIs ==
  ASSUME NEW x \in Nat, NEW y \in Nat
  PROVE  /\ Later(x, y) \in Nat /\ x <= Later(x, y) /\ y <= Later(x, y)
         /\ (Later(x, y) = x \/ Later(x, y) = y)
         /\ Earlier(x, y) \in Nat /\ Earlier(x, y) <= x /\ Earlier(x, y) <= y
         /\ (Earlier(x, y) = x \/ Earlier(x, y) = y)
BY DEF Later, Earlier

\* No fault is open in a book but the one that is settled.
LEMMA OpenOfBook ==
  ASSUME NEW b \in Nat, NEW rows, Table(rows, b), Open(rows, {"maintenance"}) = {},
         Open(rows, Faults) = {}
  PROVE  \A i \in rows : i.to # Never
BY DEF Table, Incident, Open, IsOpen

LEMMA SettleBook ==
  ASSUME NEW b \in Nat, NEW book, Book(book, b), NEW of, NEW at \in 0 .. b
  PROVE  LET new == settle(book, of, at)
         IN  /\ Book(new, b) /\ new.down = book.down /\ KeepsEnded(book.rows, new.rows)
             /\ new.down # {} <=> Opened(new.rows, Faults)
             /\ Fits(new.rows, new.down, of)
<1> DEFINE fits == Fits(book.rows, book.down, of)
           rows == IF fits THEN book.rows ELSE CloseOpen(book.rows, Faults, at)
           ends == {Never} \cup {Later(at, i.from) : i \in Open(book.rows, Faults)}
           floor == IF fits THEN book.floor ELSE Later(book.floor, EndOfOpen(book.rows, at))
           starts == book.down # {} /\ ~Opened(rows, Faults)
           kind == Kind(book.down, of)
           begin == BeginsAt(at, floor)
           new == settle(book, of, at)
<1>1. new = [rows |-> IF starts THEN Start(rows, kind, begin, book.down) ELSE rows,
             floor |-> floor, down |-> book.down]
  BY DEF settle
<1>2. /\ Table(book.rows, b) /\ Open(book.rows, {"maintenance"}) = {}
      /\ book.floor \in 0 .. b /\ \A i \in book.rows : i.to <= book.floor
      /\ book.down \in SUBSET Transports
      /\ \A i \in book.rows : i \in Incident /\ i.from \in 0 .. b /\ i.to \in 0 .. b
  BY DEF Book, Table, Incident
<1>3. EndOfOpen(book.rows, at) \in 0 .. b /\ (Open(book.rows, Faults) # {} => at <= EndOfOpen(book.rows, at))
  <2>1. \A i \in Open(book.rows, Faults) : Later(at, i.from) \in 0 .. b /\ at <= Later(at, i.from)
    <3>1. ASSUME NEW i \in Open(book.rows, Faults)
          PROVE  Later(at, i.from) \in 0 .. b /\ at <= Later(at, i.from)
      <4>1. i.from \in Nat /\ i.from <= b /\ at \in Nat /\ at <= b
        BY <1>2 DEF Open
      <4>2. /\ Later(at, i.from) \in Nat /\ at <= Later(at, i.from)
            /\ Later(at, i.from) = at \/ Later(at, i.from) = i.from
        BY <4>1, LaterIs
      <4> QED
        BY <4>1, <4>2
    <3> QED
      BY <3>1
  <2>2. ends \in SUBSET Nat /\ ends # {} /\ \A e \in ends : e <= b
    BY <2>1 DEF Never
  <2>3. Latest(ends) \in ends /\ \A e \in ends : e <= Latest(ends)
    <3> HIDE DEF ends
    <3> QED
      BY <2>2, LatestIs
  <2>4. EndOfOpen(book.rows, at) = Latest(ends)
    BY DEF EndOfOpen
  <2>5. ASSUME NEW i \in Open(book.rows, Faults) PROVE at <= Latest(ends)
    <3>1. Later(at, i.from) <= Latest(ends) /\ Later(at, i.from) \in Nat /\ at <= Later(at, i.from)
      BY <2>1, <2>3
    <3>2. Latest(ends) \in Nat
      BY <2>2, <2>3
    <3> QED
      BY <3>1, <3>2
  <2> HIDE DEF ends
  <2>6. Latest(ends) \in Nat /\ Latest(ends) <= b
    BY <2>2, <2>3
  <2>7. Open(book.rows, Faults) # {} => at <= Latest(ends)
    BY <2>5
  <2> QED
    BY <2>4, <2>6, <2>7
<1>4. floor \in 0 .. b /\ book.floor <= floor /\ (~fits => at <= floor)
  <2>1. CASE fits
    BY <1>2, <2>1
  <2>2. CASE ~fits
    <3>1. Open(book.rows, Faults) # {}
      BY <2>2 DEF Fits
    <3>2. at <= EndOfOpen(book.rows, at) /\ EndOfOpen(book.rows, at) \in Nat /\ book.floor \in Nat
      BY <1>2, <1>3, <3>1
    <3>3. floor = Later(book.floor, EndOfOpen(book.rows, at))
      BY <2>2
    <3> HIDE DEF floor
    <3>4. floor \in Nat /\ book.floor <= floor /\ EndOfOpen(book.rows, at) <= floor
          /\ (floor = book.floor \/ floor = EndOfOpen(book.rows, at))
      BY <3>2, <3>3, LaterIs
    <3> QED
      BY <1>2, <1>3, <3>2, <3>4
  <2> QED
    BY <2>1, <2>2
<1>5. /\ Table(rows, b) /\ KeepsEnded(book.rows, rows) /\ Open(rows, {"maintenance"}) = {}
      /\ \A i \in rows : i.to <= floor
  <2>1. CASE fits
    BY <1>2, <2>1 DEF KeepsEnded
  <2>2. CASE ~fits
    <3>1. rows = CloseOpen(book.rows, Faults, at)
      BY <2>2
    <3>2. /\ Table(rows, b) /\ KeepsEnded(book.rows, rows)
          /\ \A i \in rows : (i \in book.rows \/ i.to = at) /\ (i.to = Never => i \in book.rows)
      BY <1>2, <3>1, CloseRows
    <3> HIDE DEF rows
    <3>3. Open(rows, {"maintenance"}) = {}
      BY <1>2, <3>2 DEF Open, IsOpen
    <3>4. ASSUME NEW i \in rows PROVE i.to <= floor
      <4>1. CASE i \in book.rows
        BY <1>2, <1>4, <4>1
      <4>2. CASE i.to = at
        BY <1>4, <2>2, <4>2
      <4> QED
        BY <3>2, <4>1, <4>2
    <3> QED
      BY <3>2, <3>3, <3>4
  <2> QED
    BY <2>1, <2>2
<1>6. ~fits => Open(rows, Faults) = {}
  BY <1>2, CloseRows
<1>7. begin \in 0 .. b /\ floor <= begin
  <2>1. begin = Later(at, floor) /\ floor \in Nat /\ at \in Nat
    BY <1>4 DEF BeginsAt
  <2> HIDE DEF begin
  <2> QED
    BY <1>4, <2>1, LaterIs
<1>8. kind \in Faults
  BY DEF Kind, Faults
<1> HIDE DEF floor, begin, kind
<1>9. CASE starts
  <2> DEFINE row == [kind |-> kind, from |-> begin, to |-> Never, who |-> book.down]
  <2>1. Open(rows, Faults) = {}
    BY <1>9 DEF Opened
  <2>2. \A i \in rows : i.to # Never
    BY <1>5, <2>1, OpenOfBook
  <2>3. \A i \in rows : i.to \in Nat /\ i.to <= begin
    <3>1. \A i \in rows : i.to \in Nat
      BY <1>5 DEF Table, Incident
    <3> QED
      BY <1>4, <1>5, <1>7, <3>1
  <2>4. new.rows = Start(rows, kind, begin, book.down) /\ new.rows = rows \cup {row}
    BY <1>1, <1>9 DEF Start
  <2>5. Table(new.rows, b) /\ KeepsEnded(rows, new.rows)
    <3> HIDE DEF new, rows
    <3> QED
      BY <1>2, <1>5, <1>7, <1>8, <2>2, <2>3, <2>4, StartRow
  <2>6. Open(new.rows, Faults) = {row} /\ Open(new.rows, {"maintenance"}) = {}
    <3>1. Open(rows, {"maintenance"}) = {}
      BY <1>5
    <3>2. IsOpen(row, Faults) /\ ~IsOpen(row, {"maintenance"})
      BY <1>8 DEF IsOpen, Faults
    <3> HIDE DEF new, rows, row
    <3> QED
      BY <2>1, <2>4, <3>1, <3>2 DEF Open
  <2>7. row.kind = kind /\ row.who = book.down /\ row.to = Never
    OBVIOUS
  <2>8. \A i \in new.rows : i.to <= floor
    <3>1. row.to <= floor
      BY <1>4 DEF Never
    <3> HIDE DEF new, rows, row
    <3> QED
      BY <1>5, <2>4, <3>1
  <2>9. KeepsEnded(book.rows, new.rows)
    BY <1>5, <2>5 DEF KeepsEnded
  <2>10. new.floor = floor /\ new.down = book.down /\ book.down # {}
    BY <1>1, <1>9
  <2> HIDE DEF new, rows, row
  <2>11. Fits(new.rows, new.down, of)
    BY <2>6, <2>7, <2>10 DEF Fits, kind
  <2> QED
    BY <1>2, <1>4, <2>5, <2>6, <2>8, <2>9, <2>10, <2>11 DEF Book, Opened, new
<1>10. CASE ~starts
  <2>1. new.rows = rows /\ new.floor = floor /\ new.down = book.down
    BY <1>1, <1>10
  <2>2. Fits(rows, book.down, of)
    BY <1>6 DEF Fits
  <2>3. book.down # {} <=> Opened(rows, Faults)
    <3>1. Opened(rows, Faults) => book.down # {}
      BY <2>2 DEF Opened, Fits
    <3> QED
      BY <1>10, <3>1
  <2> HIDE DEF new, rows
  <2> QED
    BY <1>2, <1>4, <1>5, <2>1, <2>2, <2>3 DEF Book, new
<1> QED
  BY <1>9, <1>10

-----------------------------------------------------------------------------
(***************************************************************************)
(* The transitions of a round replayed.                                    *)
(***************************************************************************)
Changes(down, d) ==
  (down \cup {t.who : t \in {t \in d : t.order = 1}}) \ {t.who : t \in {t \in d : t.order = 0}}

LEMMA ReplayedBook ==
  ASSUME NEW b \in Nat, NEW book, Book(book, b), NEW t \in Transition(b), NEW of
  PROVE  LET new == Replayed(book, t, of)
         IN  /\ Book(new, b) /\ KeepsEnded(book.rows, new.rows)
             /\ t.order = 1 => new.down = book.down \cup {t.who}
             /\ t.order # 1 => new.down = book.down \ {t.who}
<1> DEFINE noted == Noted(book, t)
<1>1. t.at \in 0 .. b /\ t.who \in Transports
  BY DEF Transition
<1>2. /\ noted.rows = book.rows /\ noted.floor = book.floor
      /\ t.order = 1 => noted.down = book.down \cup {t.who}
      /\ t.order # 1 => noted.down = book.down \ {t.who}
  BY DEF Noted
<1>3. Replayed(book, t, of) = settle(noted, of, t.at)
  BY DEF Replayed
<1> HIDE DEF noted
<1>4. Book(noted, b)
  BY <1>1, <1>2 DEF Book
<1> QED
  BY <1>1, <1>2, <1>3, <1>4, SettleBook

LEMMA ChangesGrow ==
  ASSUME NEW d, NEW t, t \in d, \A u \in d : u.order \in {0, 1},
         \A u \in d : u.who = t.who => u = t, NEW down
  PROVE  /\ t.order = 1 => Changes(down, d) = Changes(down, d \ {t}) \cup {t.who}
         /\ t.order # 1 => Changes(down, d) = Changes(down, d \ {t}) \ {t.who}
<1> DEFINE Whos(e, o) == {u.who : u \in {u \in e : u.order = o}}
<1>1. ASSUME t.order = 1
      PROVE  Whos(d, 1) = Whos(d \ {t}, 1) \cup {t.who} /\ Whos(d, 0) = Whos(d \ {t}, 0)
             /\ t.who \notin Whos(d, 0)
  BY <1>1
<1>2. ASSUME t.order = 0
      PROVE  Whos(d, 0) = Whos(d \ {t}, 0) \cup {t.who} /\ Whos(d, 1) = Whos(d \ {t}, 1)
  BY <1>2
<1>3. Changes(down, d) = (down \cup Whos(d, 1)) \ Whos(d, 0)
      /\ Changes(down, d \ {t}) = (down \cup Whos(d \ {t}, 1)) \ Whos(d \ {t}, 0)
  BY DEF Changes
<1> HIDE DEF Whos
<1> QED
  BY <1>1, <1>2, <1>3

LEMMA StepsBook ==
  ASSUME NEW b \in Nat, NEW S \in SUBSET Transition(b), IsFiniteSet(S),
         \A t, u \in S : t.who = u.who => t = u,
         NEW book, Book(book, b), NEW of, NEW f, Steps(f, S, book, of)
  PROVE  \A d \in SUBSET S : /\ Book(f[d], b) /\ KeepsEnded(book.rows, f[d].rows)
                             /\ f[d].down = Changes(book.down, d)
<1> DEFINE Good(d) == /\ Book(f[d], b) /\ KeepsEnded(book.rows, f[d].rows)
                      /\ f[d].down = Changes(book.down, d)
           G == {d \in SUBSET S : Good(d)}
<1>1. /\ f[{}] = book /\ Replays(book, S, of) = f[S]
      /\ \A d \in SUBSET S : d # {} =>
           LastOf(d) \in d /\ f[d] = Replayed(f[d \ {LastOf(d)}], LastOf(d), of)
  BY DEF Steps
<1>2. Good({})
  BY <1>1 DEF KeepsEnded, Changes
<1>3. ASSUME NEW d \in SUBSET S, d # {}, Good(d \ {LastOf(d)}) PROVE Good(d)
  <2> DEFINE t == LastOf(d)
             before == f[d \ {t}]
  <2>1. t \in d /\ t \in S /\ f[d] = Replayed(before, t, of)
    BY <1>1, <1>3
  <2>2. t \in Transition(b) /\ Book(before, b) /\ KeepsEnded(book.rows, before.rows)
        /\ before.down = Changes(book.down, d \ {t})
    BY <1>3, <2>1
  <2>3. \A u \in d : u.order \in {0, 1}
    BY DEF Transition
  <2>4. /\ t.order = 1 => Changes(book.down, d) = Changes(book.down, d \ {t}) \cup {t.who}
        /\ t.order # 1 => Changes(book.down, d) = Changes(book.down, d \ {t}) \ {t.who}
    <3> HIDE DEF t
    <3> QED
      <4>1. t \in d /\ d \in SUBSET S
        BY <2>1
      <4>2. \A u \in d : u.who = t.who => u = t
        BY <4>1
      <4> QED
        BY <2>3, <4>1, <4>2, ChangesGrow
  <2> HIDE DEF t, before
  <2>5. /\ Book(f[d], b) /\ KeepsEnded(before.rows, f[d].rows)
        /\ t.order = 1 => f[d].down = before.down \cup {t.who}
        /\ t.order # 1 => f[d].down = before.down \ {t.who}
    <3>1. Book(before, b) /\ t \in Transition(b)
      BY <2>2
    <3>2. Book(Replayed(before, t, of), b) /\ KeepsEnded(before.rows, Replayed(before, t, of).rows)
      BY <3>1, ReplayedBook
    <3>3. /\ t.order = 1 => Replayed(before, t, of).down = before.down \cup {t.who}
          /\ t.order # 1 => Replayed(before, t, of).down = before.down \ {t.who}
      BY <3>1, ReplayedBook
    <3> QED
      BY <2>1, <3>2, <3>3
  <2>6. KeepsEnded(book.rows, f[d].rows)
    BY <2>2, <2>5 DEF KeepsEnded
  <2> QED
    BY <2>2, <2>4, <2>5, <2>6
<1> HIDE DEF Good
<1>4. \A d \in SUBSET S : d # {} => \E x \in d : d \ {x} \in G => d \in G
  BY <1>1, <1>3
<1>5. G \in SUBSET SUBSET S /\ {} \in G
  BY <1>2
<1> HIDE DEF G
<1>6. \A d \in SUBSET S : d \in G
  BY <1>4, <1>5, OnSubsets
<1> QED
  BY <1>6 DEF G, Good

LEMMA ReplaysBook ==
  ASSUME NEW b \in Nat, NEW S \in SUBSET Transition(b), IsFiniteSet(S),
         \A t, u \in S : t.who = u.who => t = u,
         NEW book, Book(book, b), NEW of
  PROVE  LET new == Replays(book, S, of)
         IN  /\ Book(new, b) /\ KeepsEnded(book.rows, new.rows)
             /\ new.down = Changes(book.down, S)
<1>1. PICK f : Steps(f, S, book, of)
  BY ReplaySteps
<1>2. Replays(book, S, of) = f[S] /\ S \in SUBSET S
  BY <1>1 DEF Steps
<1> QED
  BY <1>1, <1>2, StepsBook

LEMMA ReplayBook ==
  ASSUME NEW b \in Nat, NEW S \in SUBSET Transition(b), IsFiniteSet(S),
         \A t, u \in S : t.who = u.who => t = u,
         NEW book, Book(book, b), NEW of
  PROVE  LET new == Replay(book, S, of, b)
         IN  /\ Book(new, b) /\ KeepsEnded(book.rows, new.rows)
             /\ new.down = Changes(book.down, S)
             /\ new.down # {} <=> Opened(new.rows, Faults)
             /\ Fits(new.rows, new.down, of)
<1> DEFINE before == Replays(book, S, of)
<1>1. Book(before, b) /\ KeepsEnded(book.rows, before.rows) /\ before.down = Changes(book.down, S)
  BY ReplaysBook
<1>2. Replay(book, S, of, b) = settle(before, of, b) /\ b \in 0 .. b
  BY DEF Replay
<1> HIDE DEF before
<1>3. LET new == Replay(book, S, of, b)
      IN  /\ Book(new, b) /\ new.down = before.down /\ KeepsEnded(before.rows, new.rows)
          /\ new.down # {} <=> Opened(new.rows, Faults)
          /\ Fits(new.rows, new.down, of)
  BY <1>1, <1>2, SettleBook
<1> QED
  BY <1>1, <1>3 DEF KeepsEnded

-----------------------------------------------------------------------------
(***************************************************************************)
(* A round.                                                                *)
(***************************************************************************)
LEMMA RoundAt ==
  ASSUME NEW n \in Nat, NEW i \in Nat \ {0}
  PROVE  (n \div i) * i \in Nat /\ (n \div i) * i <= n /\ n < (n \div i) * i + i
OBVIOUS

LEMMA PurgedRows ==
  ASSUME NEW b \in Nat, NEW rows, Table(rows, b), NEW at \in Nat
  PROVE  LET new == Purged(rows, at)
         IN  /\ Table(new, b) /\ new \subseteq rows
             /\ \A i \in rows : i.to = Never => i \in new
             /\ \A i \in rows : i.to >= at - KeepFor => i \in new
BY DEF Purged, Table, InOrder

\* Nothing in a state is later than b.
StateUntil(s, b) ==
  s \in State /\ s.downSince <= b /\ s.lastKnown <= b /\ s.firstFail <= b /\ s.firstOk <= b

LEMMA AdvanceState ==
  ASSUME NEW b \in Nat, NEW s, StateUntil(s, b), NEW result \in Results
  PROVE  StateUntil(advance(s, result, b), b)
<1>1. CASE result = "none"
  BY <1>1 DEF advance
<1>2. CASE result = "fail"
  <2>1. advance(s, result, b) = Failed(s, b)
    BY <1>2 DEF advance
  <2> QED
    BY <2>1 DEF Failed, StateUntil, State, Never
<1>3. CASE result = "ok"
  <2>1. advance(s, result, b) = Succeeded(s, b)
    BY <1>3 DEF advance
  <2> QED
    BY <2>1 DEF Succeeded, StateUntil, State, Never
<1> QED
  BY <1>1, <1>2, <1>3 DEF Results

LEMMA NewStateUntil == ASSUME NEW b \in Nat PROVE StateUntil(NewState, b)
BY DEF NewState, StateUntil, State, Never

LEMMA LastEndIs ==
  ASSUME NEW b \in Nat, NEW rows, Table(rows, b)
  PROVE  LastEnd(rows) \in 0 .. b /\ \A i \in rows : i.to <= LastEnd(rows)
<1> DEFINE ends == {Never} \cup {i.to : i \in rows}
<1>1. \A i \in rows : i.to \in 0 .. b
  BY DEF Table, Incident
<1>2. ends \in SUBSET Nat /\ ends # {} /\ \A e \in ends : e <= b
  BY <1>1 DEF Never
<1>3. LastEnd(rows) = Latest(ends) /\ \A i \in rows : i.to \in ends
  BY DEF LastEnd
<1> HIDE DEF ends
<1>4. Latest(ends) \in ends /\ \A e \in ends : e <= Latest(ends)
  BY <1>2, LatestIs
<1>5. Latest(ends) \in Nat /\ Latest(ends) <= b
  BY <1>2, <1>4
<1> QED
  BY <1>3, <1>4, <1>5

\* What the results change, each transport once.
LEMMA TransitionsAre ==
  ASSUME NEW b \in Nat, targets' \in SUBSET Transports, NEW old, NEW new,
         \A t \in targets' : StateUntil(new[t], b)
  PROVE  LET all == Transitions(old, new)
         IN  /\ all \in SUBSET Transition(b) /\ IsFiniteSet(all)
             /\ \A t, u \in all : t.who = u.who => t = u
             /\ Changes({t \in targets' : old[t].downSince # Never}, all)
                  = {t \in targets' : new[t].downSince # Never}
<1> DEFINE Fell == {t \in targets' : old[t].downSince = Never /\ new[t].downSince # Never}
           Rose == {t \in targets' : old[t].downSince # Never /\ new[t].downSince = Never}
           Down(t) == [at |-> new[t].downSince, order |-> 1, who |-> t]
           Up(t) == [at |-> new[t].firstOk, order |-> 0, who |-> t]
           all == Transitions(old, new)
<1>1. all = {Down(t) : t \in Fell} \cup {Up(t) : t \in Rose}
  BY DEF Transitions
<1>2. \A t \in Fell : Down(t) \in Transition(b) /\ Down(t).who = t /\ Down(t).order = 1
  BY DEF StateUntil, State, Transition
<1>3. \A t \in Rose : Up(t) \in Transition(b) /\ Up(t).who = t /\ Up(t).order = 0
  BY DEF StateUntil, State, Transition
<1>4. Fell \cap Rose = {} /\ Fell \subseteq targets' /\ Rose \subseteq targets'
  OBVIOUS
<1> HIDE DEF Down, Up, all
<1>5. all \in SUBSET Transition(b)
  BY <1>1, <1>2, <1>3
<1>6. \A t, u \in all : t.who = u.who => t = u
  BY <1>1, <1>2, <1>3, <1>4
<1>7. IsFiniteSet(all)
  <2> DEFINE f == [t \in all |-> t.who]
  <2>1. f \in Injection(all, Transports)
    BY <1>5, <1>6 DEF Injection, IsInjective, Transition
  <2> QED
    BY <2>1, FS_Injection, StatusAssumption
<1>8. {t.who : t \in {t \in all : t.order = 1}} = Fell
  BY <1>1, <1>2, <1>3
<1>9. {t.who : t \in {t \in all : t.order = 0}} = Rose
  BY <1>1, <1>2, <1>3
<1>10. Changes({t \in targets' : old[t].downSince # Never}, all)
         = {t \in targets' : new[t].downSince # Never}
  BY <1>8, <1>9 DEF Changes
<1> QED
  BY <1>5, <1>6, <1>7, <1>10 DEF all

\* What the round has found so far of the tables and the states.
LEMMA RoundStart ==
  ASSUME StatusIInv, NEW at \in Nat, last < at
  PROVE  /\ Table(incidents, at) /\ node \in SUBSET Transports
         /\ \A t \in Transports : StateUntil(Remaining(t), at)
         /\ Began(at) \in Nat /\ Began(at) <= at /\ Began(at) # Never
         /\ Changed(at) \in 0 .. at
         /\ shown = "no" /\ ~Opened(incidents, {"maintenance"}) => last <= Changed(at)
<1>1. /\ last \in Nat /\ joined \in Nat /\ changedAt \in Nat /\ node \in SUBSET Transports
      /\ incidents \in SUBSET Incident /\ state \in [Transports -> State]
      /\ joined <= last
  BY DEF StatusIInv, StatusTypeOK, TimesPassed
<1>2. Table(incidents, at)
  <2>1. \A i \in incidents : i.from \in Nat /\ i.to \in Nat /\ i.from <= last /\ i.to <= last
    BY <1>1 DEF StatusIInv, TimesPassed, Incident
  <2>2. \A i \in incidents : i.from <= at /\ i.to <= at
    BY <1>1, <2>1
  <2> QED
    BY <1>1, <2>2 DEF Table, StatusIInv, Chronicle
<1>3. ASSUME NEW t \in Transports PROVE StateUntil(Remaining(t), at)
  <2>1. state[t] \in State
    BY <1>1
  <2>2. StateUntil(state[t], at)
    BY <1>1, <2>1 DEF StatusIInv, TimesPassed, StateUntil, State
  <2> QED
    BY <2>2, NewStateUntil DEF Remaining
<1>4. Began(at) \in Nat /\ Began(at) <= at /\ Began(at) # Never
  BY <1>1 DEF Began, Never
<1>5. LET l == Later(changedAt, Began(at))
      IN  l \in Nat /\ changedAt <= l /\ Began(at) <= l /\ Changed(at) = Earlier(l, at)
  BY <1>1, <1>4, LaterIs DEF Changed
<1>6. Changed(at) \in Nat /\ Changed(at) <= at
      /\ (Changed(at) = Later(changedAt, Began(at)) \/ Changed(at) = at)
  BY <1>5, LaterIs
<1>7. ASSUME shown = "no", ~Opened(incidents, {"maintenance"}) PROVE last <= Changed(at)
  <2>1. joined = Never => Began(at) = at
    BY DEF Began
  <2>2. joined # Never => last <= changedAt
    BY <1>7 DEF StatusIInv, HiddenSinceLast
  <2>3. last <= Later(changedAt, Began(at))
    BY <1>1, <1>4, <1>5, <2>1, <2>2
  <2> QED
    BY <1>1, <1>6, <2>3
<1> QED
  BY <1>1, <1>2, <1>3, <1>4, <1>6, <1>7

\* What each of the three cases of a round must give.
RoundGives(at) ==
  /\ Table(incidents', at)
  /\ state' \in [Transports -> State] /\ \A t \in Transports : StateUntil(state'[t], at)
  /\ joined' \in Nat /\ joined' <= at
  /\ shown = "no" /\ joined' # Never => Opened(incidents', {"maintenance"})
  /\ shown = "yes" => ~Opened(incidents', {"maintenance"})
  /\ OpenIsDown'
  /\ \A i \in incidents : i.to # Never /\ i.to >= at - KeepFor => i \in incidents'

\* Open incidents are never purged.
LEMMA PurgedOpen ==
  ASSUME NEW b \in Nat, NEW rows, Table(rows, b), NEW at \in Nat
  PROVE  \A kinds : Open(Purged(rows, at), kinds) = Open(rows, kinds)
BY PurgedRows DEF Open, IsOpen

LEMMA NoneDown ==
  ASSUME state' = [t \in Transports |-> NewState], targets' \in SUBSET Transports,
         Open(incidents, Faults)' = {}
  PROVE  OpenIsDown'
<1>1. {t \in targets' : state'[t].downSince # Never} = {}
  BY DEF NewState
<1> QED
  BY <1>1 DEF OpenIsDown, Opened, Fits

LEMMA NotProbedGives ==
  ASSUME StatusIInv, NEW at \in Nat, last < at, NotProbed(at), targets' \in SUBSET Transports
  PROVE  RoundGives(at)
<1> DEFINE kinds == Faults \cup {"maintenance"}
           rows == CloseOpen(incidents, kinds, at)
<1>1. Table(incidents, at)
  BY RoundStart
<1>2. Table(rows, at) /\ KeepsEnded(incidents, rows) /\ Open(rows, kinds) = {}
  BY <1>1, CloseRows
<1>3. incidents' = Purged(rows, at) /\ state' = [t \in Transports |-> NewState] /\ joined' = Never
  BY DEF NotProbed
<1> HIDE DEF rows
<1>4. Table(incidents', at) /\ Open(incidents', kinds) = {}
      /\ \A i \in rows : i.to >= at - KeepFor => i \in incidents'
  BY <1>2, <1>3, PurgedRows, PurgedOpen
<1>5. Open(incidents', Faults) = {} /\ ~Opened(incidents', {"maintenance"})
  BY <1>4 DEF Open, IsOpen, Opened
<1>6. OpenIsDown'
  BY <1>3, <1>5, NoneDown
<1>7. state' \in [Transports -> State] /\ \A t \in Transports : StateUntil(state'[t], at)
  BY <1>3, NewStateUntil DEF StateUntil
<1> QED
  BY <1>2, <1>3, <1>4, <1>5, <1>6, <1>7 DEF RoundGives, KeepsEnded, Never

LEMMA HiddenGives ==
  ASSUME StatusIInv, NEW at \in Nat, last < at, Hidden(at), targets' \in SUBSET Transports
  PROVE  RoundGives(at)
<1> DEFINE rows == CloseOpen(incidents, Faults, Changed(at))
           all == IF Opened(rows, {"maintenance"}) THEN rows
                  ELSE Start(rows, "maintenance", Changed(at), {})
<1>1. /\ Table(incidents, at) /\ Changed(at) \in 0 .. at
      /\ Began(at) \in Nat /\ Began(at) <= at
      /\ ~Opened(incidents, {"maintenance"}) => last <= Changed(at)
  BY RoundStart DEF Hidden
<1>2. /\ Table(rows, at) /\ KeepsEnded(incidents, rows) /\ Open(rows, Faults) = {}
      /\ \A i \in rows : i \in incidents \/ i.to = Changed(at)
      /\ \A i \in incidents : i.to = Never /\ i.kind \notin Faults => i \in rows
  BY <1>1, CloseRows
<1>3. /\ incidents' = Purged(all, at) /\ state' = [t \in Transports |-> NewState]
      /\ joined' = Began(at) /\ shown = "no"
  BY DEF Hidden
<1> HIDE DEF rows
<1>4. /\ Table(all, at) /\ KeepsEnded(rows, all) /\ Open(all, Faults) = {}
      /\ Opened(all, {"maintenance"})
  <2>1. CASE Opened(rows, {"maintenance"})
    BY <1>2, <2>1 DEF KeepsEnded
  <2>2. CASE ~Opened(rows, {"maintenance"})
    <3> DEFINE row == [kind |-> "maintenance", from |-> Changed(at), to |-> Never, who |-> {}]
    <3>1. ~Opened(incidents, {"maintenance"})
      BY <1>2, <2>2 DEF Opened, Open, IsOpen, Faults
    <3>2. \A i \in rows : i.to # Never
      <4>1. \A i \in rows : i.kind \in Faults \cup {"maintenance"}
        BY <1>2 DEF Table, Incident
      <4> QED
        BY <1>2, <2>2, <4>1 DEF Opened, Open, IsOpen
    <3>3. \A i \in rows : i.to <= Changed(at)
      <4>1. last <= Changed(at) /\ Changed(at) \in Nat /\ last \in Nat
        BY <1>1, <3>1 DEF StatusIInv, StatusTypeOK
      <4>2. \A i \in incidents : i.to \in Nat /\ i.to <= last
        BY DEF StatusIInv, StatusTypeOK, TimesPassed, Incident
      <4>3. ASSUME NEW i \in rows PROVE i.to <= Changed(at)
        <5>1. CASE i \in incidents
          BY <4>1, <4>2, <5>1
        <5>2. CASE i.to = Changed(at)
          BY <4>1, <5>2
        <5> QED
          BY <1>2, <5>1, <5>2
      <4> QED
        BY <4>3
    <3>4. all = Start(rows, "maintenance", Changed(at), {}) /\ all = rows \cup {row}
      BY <2>2 DEF Start
    <3>5. Table(all, at) /\ KeepsEnded(rows, all)
      <4> HIDE DEF all
      <4>1. "maintenance" \in Faults \cup {"maintenance"} /\ {} \in SUBSET Transports
        OBVIOUS
      <4> QED
        BY <1>1, <1>2, <3>2, <3>3, <3>4, <4>1, StartRow
    <3>6. IsOpen(row, {"maintenance"}) /\ ~IsOpen(row, Faults)
      BY DEF IsOpen, Faults
    <3> HIDE DEF all, row
    <3>7. Open(all, Faults) = {} /\ Opened(all, {"maintenance"})
      BY <1>2, <3>4, <3>6 DEF Open, Opened
    <3> QED
      BY <3>5, <3>7
  <2> QED
    BY <2>1, <2>2
<1> HIDE DEF all
<1>5. /\ Table(incidents', at) /\ Open(incidents', Faults) = {} /\ Opened(incidents', {"maintenance"})
      /\ \A i \in all : i.to >= at - KeepFor => i \in incidents'
  BY <1>3, <1>4, PurgedRows, PurgedOpen DEF Opened
<1>6. OpenIsDown'
  BY <1>3, <1>5, NoneDown
<1>7. state' \in [Transports -> State] /\ \A t \in Transports : StateUntil(state'[t], at)
  BY <1>3, NewStateUntil DEF StateUntil
<1> QED
  BY <1>1, <1>2, <1>3, <1>4, <1>5, <1>6, <1>7 DEF RoundGives, KeepsEnded

LEMMA ShownGives ==
  ASSUME StatusIInv, NEW at \in Nat, last < at, NEW results \in [Transports -> Results],
         Shown(at, results), targets' = node
  PROVE  RoundGives(at)
<1> DEFINE old == [t \in Transports |-> IF Gap(at) THEN NewState ELSE Remaining(t)]
           new == [t \in Transports |->
                     IF t \in node THEN advance(old[t], results[t], at) ELSE NewState]
           visible == CloseOpen(incidents, {"maintenance"}, Changed(at))
           rows == IF Gap(at) THEN CloseOpen(visible, Faults, LastKnown + Interval) ELSE visible
           book == [rows |-> rows, floor |-> LastEnd(rows),
                    down |-> {t \in node : old[t].downSince # Never}]
           all == Transitions(old, new)
           after == Replay(book, all, node, at)
<1>1. /\ state' = new /\ incidents' = Purged(after.rows, at) /\ joined' = Began(at)
      /\ shown = "yes"
  BY DEF Shown
<1>2. /\ Table(incidents, at) /\ node \in SUBSET Transports
      /\ \A t \in Transports : StateUntil(Remaining(t), at)
      /\ Began(at) \in Nat /\ Began(at) <= at /\ Changed(at) \in 0 .. at
  BY RoundStart
<1>3. \A t \in Transports : StateUntil(old[t], at)
  BY <1>2, NewStateUntil
<1>4. \A t \in Transports : StateUntil(new[t], at)
  BY <1>2, <1>3, NewStateUntil, AdvanceState
<1>5. new \in [Transports -> State]
  <2>1. \A t \in Transports : new[t] \in State
    BY <1>4 DEF StateUntil
  <2> QED
    BY <2>1
<1> HIDE DEF old, new
<1>6. /\ Table(visible, at) /\ KeepsEnded(incidents, visible)
      /\ Open(visible, {"maintenance"}) = {}
  BY <1>2, CloseRows
<1> HIDE DEF visible
<1>7. Table(rows, at) /\ KeepsEnded(visible, rows) /\ Open(rows, {"maintenance"}) = {}
  <2>1. CASE Gap(at)
    <3>1. KnownAt \in SUBSET Nat /\ KnownAt # {} /\ \A k \in KnownAt : k <= at
      BY <1>2, <2>1 DEF KnownAt, Gap, StateUntil, State
    <3>2. LastKnown \in KnownAt
      BY <3>1, LatestIs DEF LastKnown
    <3>3. LastKnown + Interval \in 0 .. at
      <4>1. LastKnown \in Nat /\ Interval \in Nat /\ at - LastKnown > 2 * Interval
        BY <2>1, <3>1, <3>2, StatusAssumption DEF Gap
      <4> QED
        BY <4>1
    <3>4. /\ Table(rows, at) /\ KeepsEnded(visible, rows)
          /\ \A i \in rows : i.to = Never => i \in visible
      BY <1>6, <2>1, <3>3, CloseRows
    <3> QED
      BY <1>6, <3>4 DEF Open, IsOpen
  <2>2. CASE ~Gap(at)
    BY <1>6, <2>2 DEF KeepsEnded
  <2> QED
    BY <2>1, <2>2
<1> HIDE DEF rows
<1>8. Book(book, at)
  <2>1. LastEnd(rows) \in 0 .. at /\ \A i \in rows : i.to <= LastEnd(rows)
    BY <1>7, LastEndIs
  <2>2. {t \in node : old[t].downSince # Never} \in SUBSET Transports
    BY <1>2
  <2> QED
    BY <1>7, <2>1, <2>2 DEF Book
<1>9. /\ all \in SUBSET Transition(at) /\ IsFiniteSet(all)
      /\ \A t, u \in all : t.who = u.who => t = u
      /\ Changes({t \in node : old[t].downSince # Never}, all)
           = {t \in node : new[t].downSince # Never}
  <2>1. targets' \in SUBSET Transports /\ \A t \in targets' : StateUntil(new[t], at)
    BY <1>2, <1>4
  <2>2. LET every == Transitions(old, new)
        IN  /\ every \in SUBSET Transition(at) /\ IsFiniteSet(every)
            /\ \A t, u \in every : t.who = u.who => t = u
            /\ Changes({t \in targets' : old[t].downSince # Never}, every)
                 = {t \in targets' : new[t].downSince # Never}
    BY <2>1, TransitionsAre
  <2> QED
    BY <2>2
<1>10. book.rows = rows /\ book.down = {t \in node : old[t].downSince # Never}
  OBVIOUS
<1> HIDE DEF book, all
<1>11. /\ Book(after, at) /\ KeepsEnded(rows, after.rows)
       /\ after.down = {t \in node : new[t].downSince # Never}
       /\ after.down # {} <=> Opened(after.rows, Faults)
       /\ Fits(after.rows, after.down, node)
  BY <1>8, <1>9, <1>10, ReplayBook
<1> HIDE DEF after
<1>12. Table(after.rows, at)
  BY <1>11 DEF Book
<1>13. /\ Table(incidents', at)
       /\ \A kinds : Open(incidents', kinds) = Open(after.rows, kinds)
       /\ \A i \in after.rows : i.to >= at - KeepFor => i \in incidents'
  BY <1>1, <1>12, PurgedRows, PurgedOpen
<1>14. OpenIsDown'
  <2>1. {t \in targets' : state'[t].downSince # Never} = after.down
    BY <1>1, <1>11
  <2>2. Opened(incidents', Faults) <=> Opened(after.rows, Faults)
    BY <1>13 DEF Opened
  <2>3. Fits(incidents', after.down, node)
    BY <1>11, <1>13 DEF Fits
  <2> QED
    BY <1>11, <2>1, <2>2, <2>3 DEF OpenIsDown
<1>15. ~Opened(incidents', {"maintenance"})
  BY <1>11, <1>13 DEF Book, Opened
<1>16. ASSUME NEW i \in incidents, i.to # Never, i.to >= at - KeepFor PROVE i \in incidents'
  BY <1>6, <1>7, <1>11, <1>13, <1>16 DEF KeepsEnded
<1> QED
  BY <1>1, <1>2, <1>4, <1>5, <1>13, <1>14, <1>15, <1>16 DEF RoundGives

-----------------------------------------------------------------------------
(***************************************************************************)
(* Every step keeps the invariant.                                         *)
(***************************************************************************)

\* What ended and has not passed the time for which it is kept stays.
EndedIsKept == \A i \in incidents : i.to # Never /\ i.to >= last' - KeepFor => i \in incidents'

LEMMA RoundStep ==
  ASSUME StatusIInv, NEW results \in [Transports -> Results], Round(results)
  PROVE  StatusIInv' /\ EndedIsKept /\ last < last' /\ targets' = node
         /\ (shown = "yes" => ~Opened(incidents', {"maintenance"}))
<1> DEFINE at == (now \div Interval) * Interval
           Heard == [at : Nat, ok : {"ok", "fail"}]
<1>1. /\ now \in Nat /\ node \in SUBSET Transports /\ shown \in {"yes", "no"}
      /\ changedAt \in Nat /\ last \in Nat /\ since \in Nat /\ even \in {"yes", "no"}
      /\ upsets \in Nat /\ heard \in [Transports -> Seq(Heard)] /\ changedAt <= now
  BY DEF StatusIInv, StatusTypeOK, TimesPassed
<1>2. at \in Nat /\ at <= now
  BY <1>1, RoundAt, StatusAssumption
<1>3. last' = at /\ last < at /\ now' = now /\ node' = node /\ shown' = shown
      /\ changedAt' = changedAt /\ targets' = node
  BY DEF Round, Listen, display
<1>4. /\ since' \in {at, since} /\ even' \in {"yes", "no", even} /\ upsets' \in Nat
  BY <1>1 DEF Round, Listen, Upset
<1> HIDE DEF at
<1>5. heard' \in [Transports -> Seq(Heard)]
  <2> DEFINE Until(t) == IF Anew(at) \/ t \notin node THEN <<>> ELSE heard[t]
             Now(t) == IF shown = "no" \/ t \notin node \/ results[t] = "none" THEN Until(t)
                       ELSE Append(Until(t), [at |-> at, ok |-> results[t]])
  <2>1. heard' = [t \in Transports |-> Now(t)]
    BY DEF Round, Listen, at
  <2>2. ASSUME NEW t \in Transports PROVE Now(t) \in Seq(Heard)
    <3>1. Until(t) \in Seq(Heard)
      BY <1>1
    <3> HIDE DEF Until
    <3>2. ASSUME results[t] # "none"
          PROVE  Append(Until(t), [at |-> at, ok |-> results[t]]) \in Seq(Heard)
      <4>1. [at |-> at, ok |-> results[t]] \in Heard
        BY <1>2, <3>2 DEF Results
      <4> HIDE DEF Heard
      <4> QED
        BY <3>1, <4>1
    <3> QED
      BY <3>1, <3>2
  <2> HIDE DEF Now
  <2> QED
    BY <2>1, <2>2
<1>6. RoundGives(at)
  <2>1. NotProbed(at) \/ Hidden(at) \/ Shown(at, results)
    BY DEF Round, at
  <2> QED
    BY <1>1, <1>2, <1>3, <2>1, NotProbedGives, HiddenGives, ShownGives
<1>7. StatusTypeOK'
  <2>1. incidents' \in SUBSET Incident /\ state' \in [Transports -> State] /\ joined' \in Nat
    BY <1>6 DEF RoundGives, Table
  <2> QED
    BY <1>1, <1>2, <1>3, <1>4, <1>5, <2>1 DEF StatusTypeOK
<1>8. TimesPassed'
  BY <1>1, <1>2, <1>3, <1>6 DEF TimesPassed, RoundGives, StateUntil, Table
<1>9. HiddenSinceLast'
  BY <1>3, <1>6 DEF HiddenSinceLast, RoundGives, Opened, Open, IsOpen
<1>10. Chronicle' /\ OpenIsDown' /\ EndedIsKept
  BY <1>3, <1>6 DEF RoundGives, Table, Chronicle, InOrder, Follows, EndedIsKept
<1>11. shown = "yes" => ~Opened(incidents', {"maintenance"})
  BY <1>6 DEF RoundGives
<1> QED
  BY <1>3, <1>7, <1>8, <1>9, <1>10, <1>11 DEF StatusIInv

\* A step that leaves what the rounds have stored.
LEMMA StoredStep ==
  ASSUME StatusIInv, UNCHANGED stored, now' \in Nat, now <= now', node' \in SUBSET Transports,
         shown' \in {"yes", "no"}, changedAt' \in Nat, changedAt' <= now', upsets' \in Nat,
         shown' = "no" => (shown = "no" /\ changedAt' = changedAt) \/ changedAt' = now
  PROVE  StatusIInv'
<1>1. /\ last' = last /\ joined' = joined /\ state' = state /\ incidents' = incidents
      /\ targets' = targets /\ heard' = heard /\ since' = since /\ even' = even
  BY DEF stored, ghosts
<1>2. StatusTypeOK /\ TimesPassed /\ HiddenSinceLast /\ Chronicle /\ OpenIsDown
  BY DEF StatusIInv
<1>3. StatusTypeOK'
  BY <1>1, <1>2 DEF StatusTypeOK
<1>4. TimesPassed'
  <2>1. now \in Nat /\ last \in Nat
    BY <1>2 DEF StatusTypeOK
  <2> QED
    BY <1>1, <1>2, <2>1 DEF TimesPassed
<1>5. HiddenSinceLast'
  BY <1>1, <1>2 DEF HiddenSinceLast, TimesPassed, Opened, Open, IsOpen
<1>6. Chronicle' /\ OpenIsDown'
  BY <1>1, <1>2 DEF Chronicle, InOrder, Follows, OpenIsDown, Opened, Open, IsOpen, Fits
<1> QED
  BY <1>3, <1>4, <1>5, <1>6 DEF StatusIInv

LEMMA AroundStep ==
  ASSUME StatusIInv, TimePasses \/ RoundsMissed \/ ShowOrHide \/ Redeployed
  PROVE  StatusIInv' /\ UNCHANGED stored
<1>1. /\ now \in Nat /\ node \in SUBSET Transports /\ shown \in {"yes", "no"}
      /\ changedAt \in Nat /\ upsets \in Nat /\ changedAt <= now
  BY DEF StatusIInv, StatusTypeOK, TimesPassed
<1>2. CASE TimePasses
  BY <1>1, <1>2, StoredStep DEF TimePasses, display
<1>3. CASE RoundsMissed
  <2>1. now' \in Nat /\ now <= now'
    <3>1. Earlier(now + 3 * Interval + 1, MaxTime) \in Nat
      BY <1>1, StatusAssumption, LaterIs
    <3> QED
      BY <1>1, <1>3, <3>1 DEF RoundsMissed
  <2> QED
    BY <1>1, <1>3, <2>1, StoredStep DEF RoundsMissed, Upset, display
<1>4. CASE ShowOrHide
  BY <1>1, <1>4, StoredStep DEF ShowOrHide, Upset
<1>5. CASE Redeployed
  <2>1. node' \in SUBSET Transports
    BY <1>5, StatusAssumption DEF Redeployed
  <2> QED
    BY <1>1, <1>5, <2>1, StoredStep DEF Redeployed, Upset, display
<1> QED
  BY <1>2, <1>3, <1>4, <1>5 DEF TimePasses, RoundsMissed, ShowOrHide, Redeployed

LEMMA StatusBegins == ASSUME StatusInit PROVE StatusIInv
<1>1. StatusTypeOK
  BY StatusAssumption DEF StatusInit, StatusTypeOK, NewState, State, Never
<1>2. TimesPassed
  BY StatusAssumption DEF StatusInit, TimesPassed, NewState, Never
<1>3. HiddenSinceLast /\ Chronicle
  BY DEF StatusInit, HiddenSinceLast, Chronicle, InOrder
<1>4. OpenIsDown
  BY DEF StatusInit, OpenIsDown, Opened, Open, Fits
<1> QED
  BY <1>1, <1>2, <1>3, <1>4 DEF StatusIInv

-----------------------------------------------------------------------------
(***************************************************************************)
(* The document.                                                           *)
(***************************************************************************)
LEMMA Product ==
  ASSUME NEW x \in Int, NEW y \in Int, NEW k \in Nat, x <= y
  PROVE  x * k \in Int /\ y * k \in Int /\ x * k <= y * k
<1>1. \E n \in Nat : y = x + n
  <2>1. y - x \in Nat /\ y = x + (y - x)
    OBVIOUS
  <2> QED
    BY <2>1
<1>2. PICK n \in Nat : y = x + n
  BY <1>1
<1>3. y * k = x * k + n * k /\ n * k \in Nat /\ x * k \in Int
  BY <1>2
<1> QED
  BY <1>3

LEMMA Quotient ==
  ASSUME NEW m \in Nat, NEW n \in Nat, m <= n, NEW k \in Nat \ {0}
  PROVE  m \div k \in Nat /\ n \div k \in Nat /\ m \div k <= n \div k
OBVIOUS

\* The window of a later round begins no earlier, and within the time for which ended
\* incidents are kept.
LEMMA WindowMoves ==
  ASSUME NEW m \in Nat, NEW n \in Nat, m <= n
  PROVE  /\ WindowStart(m) \in Int /\ WindowStart(n) \in Int /\ WindowStart(m) <= WindowStart(n)
         /\ n - KeepFor <= WindowStart(n)
<1>1. DayLength \in Nat \ {0} /\ ShowDays \in Nat \ {0} /\ KeepFor \in Nat
      /\ KeepFor >= ShowDays * DayLength
  BY DocumentAssumption, StatusAssumption
<1>2. Day(m) \in Nat /\ Day(n) \in Nat /\ Day(m) <= Day(n)
  BY <1>1, Quotient DEF Day
<1>3. WindowStart(m) \in Int /\ WindowStart(n) \in Int /\ WindowStart(m) <= WindowStart(n)
  <2>1. Day(m) + 1 - ShowDays \in Int /\ Day(n) + 1 - ShowDays \in Int
        /\ Day(m) + 1 - ShowDays <= Day(n) + 1 - ShowDays
    BY <1>1, <1>2
  <2> QED
    BY <1>1, <2>1, Product DEF WindowStart
<1>4. n < Day(n) * DayLength + DayLength
  BY <1>1, RoundAt DEF Day
<1>5. WindowStart(n) = Day(n) * DayLength + DayLength - ShowDays * DayLength
      /\ Day(n) * DayLength \in Nat /\ ShowDays * DayLength \in Nat
  BY <1>1, <1>2 DEF WindowStart
<1> QED
  BY <1>1, <1>3, <1>4, <1>5

LEMMA StoreRoundStep ==
  ASSUME DocIInv, NEW results \in [Transports -> Results], StoreRound(results)
  PROVE  DocIInv'
<1>1. StatusIInv' /\ EndedIsKept /\ last < last'
  BY RoundStep DEF DocIInv, StoreRound
<1>2. last \in Nat /\ last' \in Nat /\ incidents' \in SUBSET Incident
  BY <1>1 DEF DocIInv, StatusIInv, StatusTypeOK
<1>3. WindowStart(last) \in Int /\ WindowStart(last') \in Int
      /\ WindowStart(last) <= WindowStart(last') /\ last' - KeepFor <= WindowStart(last')
  BY <1>1, <1>2, WindowMoves
<1>4. past' = past \cup Ended /\ building' = last' /\ doc' = doc
  BY DEF StoreRound
<1>5. PastIsThere'
  <2>1. past' \subseteq Incident /\ \A i \in past' : i.to # Never
    BY <1>2, <1>4 DEF Ended, DocIInv, PastIsThere
  <2>2. ASSUME NEW i \in past, i.to > WindowStart(last)' PROVE i \in incidents'
    <3>1. i.to \in Nat /\ i.to # Never
      BY DEF DocIInv, PastIsThere, Incident
    <3>2. WindowStart(last)' = WindowStart(last')
      BY DEF WindowStart, Day
    <3>3. last' - KeepFor \in Int
      BY <1>2, StatusAssumption
    <3>4. i.to > WindowStart(last) /\ i.to >= last' - KeepFor
      BY <1>3, <2>2, <3>1, <3>2, <3>3
    <3>5. i \in incidents
      BY <3>4 DEF DocIInv, PastIsThere
    <3> QED
      BY <1>1, <3>1, <3>4, <3>5 DEF EndedIsKept
  <2>3. \A i \in Ended : i \in incidents'
    BY DEF Ended
  <2> QED
    BY <1>4, <2>1, <2>2, <2>3 DEF PastIsThere
<1>6. doc.at \in Nat /\ doc.at <= last
  BY DEF DocIInv, DocumentIsOfLast
<1>7. DocumentIsOfLast' /\ ShownIsKept'
  BY <1>1, <1>2, <1>4, <1>6 DEF DocumentIsOfLast, ShownIsKept
<1> QED
  BY <1>1, <1>5, <1>7 DEF DocIInv

LEMMA PublishStep == ASSUME DocIInv, Publish PROVE DocIInv'
<1>1. UNCHANGED statusVars /\ past' = past /\ building' = Never /\ building = last
      /\ doc' = build_document(targets, building)
  BY DEF Publish, DocIInv, DocumentIsOfLast
<1>2. last' = last /\ incidents' = incidents /\ UNCHANGED stored
  BY <1>1 DEF statusVars, stored
<1>3. StatusIInv'
  <2>1. /\ now \in Nat /\ node \in SUBSET Transports /\ shown \in {"yes", "no"}
        /\ changedAt \in Nat /\ upsets \in Nat /\ changedAt <= now
    BY DEF DocIInv, StatusIInv, StatusTypeOK, TimesPassed
  <2> QED
    BY <1>1, <1>2, <2>1, StoredStep DEF DocIInv, statusVars, display
<1>4. last \in Nat
  BY DEF DocIInv, StatusIInv, StatusTypeOK
<1>5. doc'.at = last /\ (doc'.state # "absent" => doc'.events = InWindow(last))
  BY <1>1 DEF build_document, NoDocument
<1>6. PastIsThere' /\ DocumentIsOfLast'
  BY <1>1, <1>2, <1>4, <1>5 DEF DocIInv, PastIsThere, WindowStart, Day, DocumentIsOfLast
<1>7. ShownIsKept'
  <2>1. {i \in past : i.to > WindowStart(last)} \subseteq InWindow(last)
    BY DEF DocIInv, PastIsThere, InWindow
  <2> QED
    BY <1>1, <1>2, <1>5, <2>1 DEF ShownIsKept, WindowStart, Day
<1> QED
  BY <1>3, <1>6, <1>7 DEF DocIInv

\* The tables stay as they are, and so do the document and what has ended.
LEMMA OtherStep ==
  ASSUME DocIInv, StatusIInv', UNCHANGED <<stored, doc, past>>, building' \in {Never, building}
  PROVE  DocIInv'
<1>1. last' = last /\ incidents' = incidents /\ doc' = doc /\ past' = past
  BY DEF stored
<1> QED
  BY <1>1 DEF DocIInv, PastIsThere, DocumentIsOfLast, ShownIsKept, WindowStart, Day

LEMMA DocBegins == ASSUME DocInit PROVE DocIInv
<1>1. StatusIInv
  BY StatusBegins DEF DocInit
<1> QED
  BY <1>1 DEF DocInit, StatusInit, DocIInv, PastIsThere, DocumentIsOfLast, ShownIsKept, NoDocument,
              Never

\* The invariant of the status service: the chronicle and the counters, whatever the order
\* of rounds, gaps, changes and restarts, and what the document still has to show.
THEOREM StatusInvariance == DocSpec => []DocIInv
<1>1. DocInit => DocIInv
  BY DocBegins
<1>2. DocIInv /\ [DocNext]_allVars => DocIInv'
  <2> SUFFICES ASSUME DocIInv, [DocNext]_allVars PROVE DocIInv'
    OBVIOUS
  <2>1. /\ now \in Nat /\ node \in SUBSET Transports /\ shown \in {"yes", "no"}
        /\ changedAt \in Nat /\ upsets \in Nat /\ changedAt <= now /\ StatusIInv
    BY DEF DocIInv, StatusIInv, StatusTypeOK, TimesPassed
  <2>2. ASSUME NEW results \in [Transports -> Results], StoreRound(results) PROVE DocIInv'
    BY <2>2, StoreRoundStep
  <2>3. CASE Publish
    BY <2>3, PublishStep
  <2>4. CASE Cut
    <3>1. StatusIInv'
      BY <2>1, <2>4, StoredStep DEF Cut, Upset, display
    <3> QED
      BY <2>4, <3>1, OtherStep DEF Cut
  <2>5. CASE Around
    <3>1. StatusIInv' /\ UNCHANGED stored
      BY <2>1, <2>5, AroundStep DEF Around
    <3> QED
      BY <2>5, <3>1, OtherStep DEF Around, docVars
  <2>6. CASE UNCHANGED allVars
    <3>1. StatusIInv'
      BY <2>1, <2>6, StoredStep DEF allVars, statusVars, display
    <3> QED
      BY <2>6, <3>1, OtherStep DEF allVars, statusVars, docVars
  <2> QED
    BY <2>2, <2>3, <2>4, <2>5, <2>6 DEF DocNext
<1> QED
  BY <1>1, <1>2, PTL DEF DocSpec

\* The incidents of a node are a chronicle: none is empty, each ends before the next
\* begins and only the last may be open, however rounds, gaps, changes of the node and
\* maintenance follow on each other (settle, record_round).
THEOREM IncidentsAreAChronicle == DocSpec => []Chronicle
<1>1. DocIInv => Chronicle
  BY DEF DocIInv, StatusIInv
<1> QED
  BY <1>1, StatusInvariance, PTL

\* The open incident names exactly the transports that are down by the counters, and there
\* is none when none is down, in whatever order a round found them (settle).
THEOREM OpenIncidentIsDown == DocSpec => []OpenIsDown
<1>1. DocIInv => OpenIsDown
  BY DEF DocIInv, StatusIInv
<1> QED
  BY <1>1, StatusInvariance, PTL

\* Nothing that has ended leaves the tables before it leaves the page, for every length of
\* a day and number of days shown (purge, build_document).
THEOREM DocumentShowsWhatEnded == DocSpec => []ShownIsKept
<1>1. DocIInv => ShownIsKept
  BY DEF DocIInv
<1> QED
  BY <1>1, StatusInvariance, PTL

-----------------------------------------------------------------------------
(***************************************************************************)
(* What is heard of a transport, and its counters.                         *)
(***************************************************************************)
Heared == [at : Nat, ok : {"ok", "fail"}]

LEMMA RunIs ==
  ASSUME NEW h \in Seq(Heared), NEW i \in Nat \ {0}, NEW count \in Nat \ {0}, NEW what
  PROVE  RunOf(h, what, i, count) <=>
           /\ i + count - 1 <= Len(h)
           /\ \A j \in i .. i + count - 1 : h[j].ok = what
<1>1. Len(h) \in Nat
  OBVIOUS
<1>2. ASSUME RunOf(h, what, i, count)
      PROVE  i + count - 1 <= Len(h) /\ \A j \in i .. i + count - 1 : h[j].ok = what
  <2>1. PICK k \in i .. Len(h) : (\A j \in i .. k : h[j].ok = what) /\ k - i + 1 >= count
    BY <1>2 DEF RunOf
  <2>2. i + count - 1 <= k /\ k <= Len(h) /\ k \in Nat
    BY <1>1, <2>1
  <2> QED
    BY <1>1, <2>1, <2>2
<1>3. ASSUME i + count - 1 <= Len(h), \A j \in i .. i + count - 1 : h[j].ok = what
      PROVE  RunOf(h, what, i, count)
  <2>1. i + count - 1 \in i .. Len(h) /\ (i + count - 1) - i + 1 >= count
    BY <1>1, <1>3
  <2> QED
    BY <1>3, <2>1 DEF RunOf
<1> QED
  BY <1>2, <1>3

\* One result more.
Longer(g, h, e) ==
  /\ g \in Seq(Heared) /\ Len(g) = Len(h) + 1 /\ g[Len(h) + 1] = e
  /\ \A i \in 1 .. Len(h) : g[i] = h[i]

LEMMA Appended ==
  ASSUME NEW h \in Seq(Heared), NEW e \in Heared
  PROVE  Longer(Append(h, e), h, e)
BY DEF Longer

LEMMA CountedNext ==
  ASSUME NEW h \in Seq(Heared), NEW e \in Heared, NEW g, Longer(g, h, e),
         NEW what, NEW c \in Nat, NEW first \in Nat, Counted(h, what, c, first)
  PROVE  /\ e.ok = what => Counted(g, what, c + 1, IF c = 0 THEN e.at ELSE first)
         /\ e.ok # what => Counted(g, what, 0, Never)
<1>1. Len(h) \in Nat /\ Len(g) = Len(h) + 1
  BY DEF Longer
<1>2. /\ c <= Len(h) /\ (\A i \in Len(h) - c + 1 .. Len(h) : h[i].ok = what)
      /\ (c < Len(h) => h[Len(h) - c].ok # what)
      /\ (c > 0 => first = h[Len(h) - c + 1].at)
  BY DEF Counted
<1>3. ASSUME e.ok = what PROVE Counted(g, what, c + 1, IF c = 0 THEN e.at ELSE first)
  <2>1. c + 1 <= Len(g)
    BY <1>1, <1>2
  <2>2. ASSUME NEW i \in Len(g) - (c + 1) + 1 .. Len(g) PROVE g[i].ok = what
    <3>1. CASE i = Len(h) + 1
      BY <1>3, <3>1 DEF Longer
    <3>2. CASE i # Len(h) + 1
      <4>1. i \in 1 .. Len(h) /\ i \in Len(h) - c + 1 .. Len(h)
        BY <1>1, <1>2, <3>2
      <4> QED
        BY <1>2, <4>1 DEF Longer
    <3> QED
      BY <3>1, <3>2
  <2>3. ASSUME c + 1 < Len(g) PROVE g[Len(g) - (c + 1)].ok # what
    <3>1. Len(g) - (c + 1) = Len(h) - c /\ Len(h) - c \in 1 .. Len(h) /\ c < Len(h)
      BY <1>1, <1>2, <2>3
    <3> QED
      BY <1>2, <3>1 DEF Longer
  <2>4. (IF c = 0 THEN e.at ELSE first) = g[Len(g) - (c + 1) + 1].at
    <3>1. CASE c = 0
      <4>1. Len(g) - (c + 1) + 1 = Len(h) + 1
        BY <1>1, <3>1
      <4> QED
        BY <3>1, <4>1 DEF Longer
    <3>2. CASE c # 0
      <4>1. Len(g) - (c + 1) + 1 = Len(h) - c + 1 /\ Len(h) - c + 1 \in 1 .. Len(h) /\ c > 0
        BY <1>1, <1>2, <3>2
      <4> QED
        BY <1>2, <3>2, <4>1 DEF Longer
    <3> QED
      BY <3>1, <3>2
  <2> QED
    BY <2>1, <2>2, <2>3, <2>4 DEF Counted
<1>4. ASSUME e.ok # what PROVE Counted(g, what, 0, Never)
  <2>1. Len(g) - 0 = Len(h) + 1 /\ g[Len(h) + 1].ok # what
    BY <1>1, <1>4 DEF Longer
  <2>2. ~(\E i \in Nat : i \in Len(g) - 0 + 1 .. Len(g))
    BY <1>1
  <2> QED
    BY <1>1, <2>1, <2>2 DEF Counted
<1> QED
  BY <1>3, <1>4

LEMMA RunNext ==
  ASSUME NEW h \in Seq(Heared), NEW e \in Heared, NEW g, Longer(g, h, e),
         NEW what, NEW c \in Nat, NEW first \in Nat, Counted(h, what, c, first),
         NEW count \in Nat \ {0}
  PROVE  /\ \A i \in 1 .. Len(h) : RunOf(h, what, i, count) => RunOf(g, what, i, count)
         /\ \A i \in 1 .. Len(h) + 1 : RunOf(g, what, i, count) =>
              \/ i <= Len(h) /\ RunOf(h, what, i, count)
              \/ e.ok = what /\ i = Len(h) + 2 - count /\ c + 1 >= count
         /\ e.ok = what /\ c + 1 >= count =>
              /\ Len(h) + 2 - count \in 1 .. Len(h) + 1
              /\ RunOf(g, what, Len(h) + 2 - count, count)
<1>1. Len(h) \in Nat /\ Len(g) = Len(h) + 1 /\ g \in Seq(Heared)
  BY DEF Longer
<1>2. /\ c <= Len(h) /\ (\A i \in Len(h) - c + 1 .. Len(h) : h[i].ok = what)
      /\ (c < Len(h) => h[Len(h) - c].ok # what)
  BY DEF Counted
<1>3. \A i \in 1 .. Len(h) : g[i] = h[i]
  BY DEF Longer
<1>4. ASSUME NEW i \in 1 .. Len(h), RunOf(h, what, i, count) PROVE RunOf(g, what, i, count)
  <2>1. i + count - 1 <= Len(h) /\ \A j \in i .. i + count - 1 : h[j].ok = what
    BY <1>1, <1>4, RunIs
  <2>2. i + count - 1 <= Len(g)
    BY <1>1, <2>1
  <2>3. ASSUME NEW j \in i .. i + count - 1 PROVE g[j].ok = what
    <3>1. j \in 1 .. Len(h)
      BY <1>1, <2>1
    <3> QED
      BY <1>3, <2>1, <3>1
  <2> QED
    BY <1>1, <2>2, <2>3, RunIs
<1>5. ASSUME NEW i \in 1 .. Len(h) + 1, RunOf(g, what, i, count)
      PROVE  \/ i <= Len(h) /\ RunOf(h, what, i, count)
             \/ e.ok = what /\ i = Len(h) + 2 - count /\ c + 1 >= count
  <2>1. i + count - 1 <= Len(h) + 1 /\ \A j \in i .. i + count - 1 : g[j].ok = what
    BY <1>1, <1>5, RunIs
  <2>2. CASE i + count - 1 <= Len(h)
    <3>1. ASSUME NEW j \in i .. i + count - 1 PROVE h[j].ok = what
      <4>1. j \in 1 .. Len(h)
        BY <1>1, <2>2
      <4> QED
        BY <1>3, <2>1, <4>1
    <3> QED
      BY <1>1, <2>2, <3>1, RunIs
  <2>3. CASE i + count - 1 = Len(h) + 1
    <3>1. i = Len(h) + 2 - count /\ Len(h) + 1 \in i .. i + count - 1
      BY <1>1, <2>3
    <3>2. e.ok = what
      BY <2>1, <3>1 DEF Longer
    <3>3. ASSUME c + 1 < count PROVE FALSE
      <4>1. Len(h) - c \in i .. i + count - 1 /\ Len(h) - c \in 1 .. Len(h) /\ c < Len(h)
        BY <1>1, <1>2, <3>1, <3>3
      <4> QED
        BY <1>2, <1>3, <2>1, <4>1
    <3> QED
      BY <3>1, <3>2, <3>3
  <2> QED
    BY <1>1, <2>1, <2>2, <2>3
<1>6. ASSUME e.ok = what, c + 1 >= count
      PROVE  Len(h) + 2 - count \in 1 .. Len(h) + 1 /\ RunOf(g, what, Len(h) + 2 - count, count)
  <2>1. Len(h) + 2 - count \in 1 .. Len(h) + 1
    BY <1>1, <1>2, <1>6
  <2>2. ASSUME NEW j \in Len(h) + 2 - count .. Len(h) + 2 - count + count - 1
        PROVE  g[j].ok = what
    <3>1. CASE j = Len(h) + 1
      BY <1>6, <3>1 DEF Longer
    <3>2. CASE j # Len(h) + 1
      <4>1. j \in 1 .. Len(h) /\ j \in Len(h) - c + 1 .. Len(h)
        BY <1>1, <1>2, <1>6, <2>1, <3>2
      <4> QED
        BY <1>2, <1>3, <4>1
    <3> QED
      BY <3>1, <3>2
  <2> QED
    BY <1>1, <2>1, <2>2, RunIs
<1> QED
  BY <1>4, <1>5, <1>6

FailsFrom(h, i) == RunOf(h, "fail", i, FailCount)
WorksFrom(h, i) == RunOf(h, "ok", i, RecoverCount)

\* The times of what was heard, up to b.
Timed(h, b) ==
  /\ \A i \in 1 .. Len(h) : h[i].at \in Nat /\ Never < h[i].at /\ h[i].at <= b
  /\ \A i, j \in 1 .. Len(h) : i < j => h[i].at < h[j].at

LEMMA DownIs ==
  ASSUME NEW h \in Seq(Heared), NEW time \in Nat
  PROVE  DownBy(h, time) <=>
           \E i \in 1 .. Len(h) :
             /\ h[i].at <= time /\ FailsFrom(h, i)
             /\ \A j \in 1 .. Len(h) : i < j /\ h[j].at <= time => ~WorksFrom(h, j)
<1>1. DOMAIN h = 1 .. Len(h) /\ Len(h) \in Nat
  OBVIOUS
<1>2. \A i \in 1 .. Len(h) : \A j : j \in i + 1 .. Len(h) <=> j \in 1 .. Len(h) /\ i < j
  BY <1>1
<1> QED
  BY <1>1, <1>2 DEF DownBy, FailsFrom, WorksFrom

LEMMA RunsAre ==
  ASSUME NEW h \in Seq(Heared), NEW i \in 1 .. Len(h)
  PROVE  /\ FailsFrom(h, i) => i + FailCount - 1 <= Len(h)
                               /\ \A j \in i .. i + FailCount - 1 : h[j].ok = "fail"
         /\ WorksFrom(h, i) => i + RecoverCount - 1 <= Len(h)
                               /\ \A j \in i .. i + RecoverCount - 1 : h[j].ok = "ok"
<1>1. i \in Nat \ {0} /\ FailCount \in Nat \ {0} /\ RecoverCount \in Nat \ {0}
  BY StatusAssumption
<1> QED
  BY <1>1, RunIs DEF FailsFrom, WorksFrom

\* The same as before the last result, at every time but, it may be, from the one on at
\* which the run that it completes began.
LEMMA SameBefore ==
  ASSUME NEW h \in Seq(Heared), NEW g, NEW e \in Heared, Longer(g, h, e), NEW time \in Nat,
         \A i \in 1 .. Len(g) : g[i].at <= time =>
           /\ FailsFrom(g, i) <=> i <= Len(h) /\ FailsFrom(h, i)
           /\ WorksFrom(g, i) <=> i <= Len(h) /\ WorksFrom(h, i)
  PROVE  DownBy(g, time) <=> DownBy(h, time)
<1>1. Len(h) \in Nat /\ Len(g) = Len(h) + 1 /\ g \in Seq(Heared) /\ \A i \in 1 .. Len(h) : g[i] = h[i]
  BY DEF Longer
<1>2. ASSUME DownBy(g, time) PROVE DownBy(h, time)
  <2>1. PICK i \in 1 .. Len(g) :
          /\ g[i].at <= time /\ FailsFrom(g, i)
          /\ \A j \in 1 .. Len(g) : i < j /\ g[j].at <= time => ~WorksFrom(g, j)
    BY <1>1, <1>2, DownIs
  <2>2. i \in 1 .. Len(h) /\ FailsFrom(h, i) /\ h[i].at <= time
    BY <1>1, <2>1
  <2>3. ASSUME NEW j \in 1 .. Len(h), i < j, h[j].at <= time PROVE ~WorksFrom(h, j)
    <3>1. j \in 1 .. Len(g) /\ g[j].at <= time /\ j <= Len(h)
      BY <1>1, <2>3
    <3> QED
      BY <2>1, <2>3, <3>1
  <2> QED
    BY <2>2, <2>3, DownIs
<1>3. ASSUME DownBy(h, time) PROVE DownBy(g, time)
  <2>1. PICK i \in 1 .. Len(h) :
          /\ h[i].at <= time /\ FailsFrom(h, i)
          /\ \A j \in 1 .. Len(h) : i < j /\ h[j].at <= time => ~WorksFrom(h, j)
    BY <1>3, DownIs
  <2>2. i \in 1 .. Len(g) /\ g[i].at <= time /\ FailsFrom(g, i)
    BY <1>1, <2>1
  <2>3. ASSUME NEW j \in 1 .. Len(g), i < j, g[j].at <= time PROVE ~WorksFrom(g, j)
    <3>1. CASE j \in 1 .. Len(h)
      BY <1>1, <2>1, <2>3, <3>1
    <3>2. CASE j \notin 1 .. Len(h)
      BY <1>1, <2>3, <3>2
    <3> QED
      BY <3>1, <3>2
  <2> QED
    BY <1>1, <2>2, <2>3, DownIs
<1> QED
  BY <1>2, <1>3

\* What a state says that has changed to another, with one result more.
Heeds(s, new, h, g) ==
  /\ s.downSince = Never /\ new.downSince # Never =>
       /\ FailCount <= Len(g) /\ new.downSince = g[Len(g) + 1 - FailCount].at
       /\ \A time \in Nat : DownBy(g, time) <=> new.downSince <= time \/ DownBy(h, time)
  /\ s.downSince # Never /\ new.downSince = Never =>
       /\ RecoverCount <= Len(g) /\ new.firstOk = g[Len(g) + 1 - RecoverCount].at
       /\ \A time \in Nat : DownBy(g, time) <=> time < new.firstOk /\ DownBy(h, time)
  /\ (s.downSince = Never <=> new.downSince = Never) =>
       \A time \in Nat : DownBy(g, time) <=> DownBy(h, time)

LEMMA TimedNext ==
  ASSUME NEW h \in Seq(Heared), NEW b \in Nat, Timed(h, b), NEW at \in Nat, b < at,
         NEW e \in Heared, e.at = at, NEW g, Longer(g, h, e)
  PROVE  Timed(g, at)
<1>1. Len(h) \in Nat /\ Len(g) = Len(h) + 1 /\ g[Len(h) + 1] = e /\ \A i \in 1 .. Len(h) : g[i] = h[i]
  BY DEF Longer
<1>2. ASSUME NEW i \in 1 .. Len(g)
      PROVE  /\ (i = Len(h) + 1 /\ g[i].at = at) \/ (i \in 1 .. Len(h) /\ g[i].at = h[i].at)
             /\ g[i].at \in Nat /\ Never < g[i].at /\ g[i].at <= at
  <2>1. CASE i = Len(h) + 1
    <3>1. g[i] = e
      BY <1>1, <2>1
    <3>2. Never < at
      BY DEF Never
    <3> QED
      BY <2>1, <3>1, <3>2
  <2>2. CASE i # Len(h) + 1
    <3>1. i \in 1 .. Len(h) /\ g[i] = h[i]
      BY <1>1, <2>2
    <3>2. h[i].at \in Nat /\ Never < h[i].at /\ h[i].at <= b
      BY <3>1 DEF Timed
    <3> QED
      BY <3>1, <3>2
  <2> QED
    BY <2>1, <2>2
<1>3. ASSUME NEW i \in 1 .. Len(g), NEW j \in 1 .. Len(g), i < j PROVE g[i].at < g[j].at
  <2>1. CASE j = Len(h) + 1
    <3>1. i \in 1 .. Len(h)
      BY <1>1, <1>3, <2>1
    <3> QED
      BY <1>1, <2>1, <3>1 DEF Timed
  <2>2. CASE j # Len(h) + 1
    <3>1. i \in 1 .. Len(h) /\ j \in 1 .. Len(h)
      BY <1>1, <1>3, <2>2
    <3> QED
      BY <1>1, <1>3, <3>1 DEF Timed
  <2> QED
    BY <2>1, <2>2
<1> QED
  BY <1>2, <1>3 DEF Timed

\* All that was heard is past.
LEMMA DownStays ==
  ASSUME NEW h \in Seq(Heared), NEW b \in Nat, Timed(h, b), NEW time \in Nat, b <= time
  PROVE  DownBy(h, time) <=> DownBy(h, b)
<1>1. \A i \in 1 .. Len(h) : h[i].at <= b /\ h[i].at <= time
  BY DEF Timed
<1> QED
  BY <1>1, DownIs

LEMMA FailHeard ==
  ASSUME NEW h \in Seq(Heared), NEW b \in Nat, Timed(h, b), NEW at \in Nat, b < at,
         NEW e \in Heared, e.at = at, e.ok = "fail", NEW g, Longer(g, h, e),
         NEW s \in State, CountedFrom(s, h, b)
  PROVE  Heeds(s, Failed(s, at), h, g)
<1> DEFINE n == Len(h)
           start == n + 2 - FailCount
           new == Failed(s, at)
<1>1. n \in Nat /\ Len(g) = n + 1 /\ g \in Seq(Heared) /\ (\A i \in 1 .. n : g[i] = h[i])
      /\ FailCount \in Nat \ {0} /\ RecoverCount \in Nat \ {0}
  BY StatusAssumption DEF Longer
<1>2. /\ s.fails \in Nat /\ s.oks \in Nat /\ s.firstFail \in Nat /\ s.firstOk \in Nat /\ s.downSince \in Nat
      /\ Counted(h, "fail", s.fails, s.firstFail) /\ Counted(h, "ok", s.oks, s.firstOk)
      /\ (s.fails >= FailCount => s.downSince # Never)
      /\ (s.downSince # Never <=> DownBy(h, b))
  BY DEF State, CountedFrom
<1>3. Timed(g, at)
  BY TimedNext
<1>4. /\ \A i \in 1 .. n : FailsFrom(h, i) => FailsFrom(g, i)
      /\ \A i \in 1 .. n + 1 : FailsFrom(g, i) =>
           (i <= n /\ FailsFrom(h, i)) \/ (i = start /\ s.fails + 1 >= FailCount)
      /\ s.fails + 1 >= FailCount => start \in 1 .. n + 1 /\ FailsFrom(g, start)
  <2>1. /\ \A i \in 1 .. Len(h) : RunOf(h, "fail", i, FailCount) => RunOf(g, "fail", i, FailCount)
        /\ \A i \in 1 .. Len(h) + 1 : RunOf(g, "fail", i, FailCount) =>
             \/ i <= Len(h) /\ RunOf(h, "fail", i, FailCount)
             \/ e.ok = "fail" /\ i = Len(h) + 2 - FailCount /\ s.fails + 1 >= FailCount
        /\ e.ok = "fail" /\ s.fails + 1 >= FailCount =>
             /\ Len(h) + 2 - FailCount \in 1 .. Len(h) + 1
             /\ RunOf(g, "fail", Len(h) + 2 - FailCount, FailCount)
    BY <1>1, <1>2, RunNext
  <2> QED
    BY <2>1 DEF FailsFrom
<1>5. \A i \in 1 .. n + 1 : WorksFrom(g, i) <=> i <= n /\ WorksFrom(h, i)
  BY <1>1, <1>2, RunNext DEF WorksFrom
<1>6. ASSUME s.fails + 1 < FailCount, NEW time \in Nat PROVE DownBy(g, time) <=> DownBy(h, time)
  <2>1. \A i \in 1 .. n + 1 : FailsFrom(g, i) <=> i <= n /\ FailsFrom(h, i)
    BY <1>1, <1>2, <1>4, <1>6
  <2> QED
    BY <1>1, <1>5, <2>1, SameBefore
<1>7. ASSUME s.fails + 1 >= FailCount, NEW time \in Nat, g[start].at <= time
      PROVE  DownBy(g, time)
  <2>1. start \in 1 .. Len(g) /\ FailsFrom(g, start)
    BY <1>1, <1>4, <1>7
  <2>2. ASSUME NEW j \in 1 .. Len(g), start < j PROVE ~WorksFrom(g, j)
    <3>1. \A k \in start .. start + FailCount - 1 : g[k].ok = "fail"
      BY <1>1, <2>1, RunsAre
    <3>2. j \in start .. start + FailCount - 1 /\ j \in j .. j + RecoverCount - 1
      BY <1>1, <2>1, <2>2
    <3>3. WorksFrom(g, j) => g[j].ok = "ok"
      BY <1>1, <3>2, RunsAre
    <3> QED
      BY <3>1, <3>2, <3>3
  <2> QED
    BY <1>1, <1>7, <2>1, <2>2, DownIs
<1>8. ASSUME s.fails + 1 >= FailCount, NEW time \in Nat, ~(g[start].at <= time)
      PROVE  DownBy(g, time) <=> DownBy(h, time)
  <2>1. \A i \in 1 .. n + 1 : g[i].at <= time => (FailsFrom(g, i) <=> i <= n /\ FailsFrom(h, i))
    BY <1>1, <1>4, <1>8
  <2> QED
    BY <1>1, <1>5, <2>1, SameBefore
<1>9. ASSUME s.fails + 1 >= FailCount, s.downSince # Never, NEW time \in Nat, g[start].at <= time
      PROVE  DownBy(h, time)
  <2>1. PICK i \in 1 .. n : /\ FailsFrom(h, i)
                            /\ \A j \in 1 .. n : i < j /\ h[j].at <= b => ~WorksFrom(h, j)
    BY <1>2, <1>9, DownIs
  <2>2. i < start /\ start \in 1 .. n + 1 /\ i \in 1 .. n + 1
    BY <1>1, <1>4, <1>9, <2>1, RunsAre
  <2>3. h[i].at <= time
    BY <1>1, <1>3, <1>9, <2>2 DEF Timed
  <2>4. \A j \in 1 .. n : i < j => ~WorksFrom(h, j)
    BY <2>1 DEF Timed
  <2> QED
    BY <2>1, <2>3, <2>4, DownIs
<1>10. /\ new.downSince = IF s.downSince = Never /\ s.fails + 1 >= FailCount
                            THEN IF s.fails = 0 THEN at ELSE s.firstFail ELSE s.downSince
  BY DEF Failed
<1>11. ASSUME s.downSince = Never, s.fails + 1 >= FailCount
       PROVE  /\ FailCount <= Len(g) /\ new.downSince = g[Len(g) + 1 - FailCount].at
              /\ start = Len(g) + 1 - FailCount /\ new.downSince = g[start].at
              /\ new.downSince # Never
  <2>1. s.fails + 1 = FailCount
    BY <1>1, <1>2, <1>11
  <2>2. Counted(g, "fail", s.fails + 1, IF s.fails = 0 THEN at ELSE s.firstFail)
    BY <1>2, CountedNext
  <2>3. Counted(g, "fail", s.fails + 1, new.downSince)
    BY <1>10, <1>11, <2>2
  <2>4. s.fails + 1 <= Len(g) /\ new.downSince = g[Len(g) - (s.fails + 1) + 1].at
    BY <1>2, <2>3 DEF Counted
  <2>5. start = Len(g) + 1 - FailCount /\ start = Len(g) - (s.fails + 1) + 1 /\ start \in 1 .. Len(g)
    <3>1. Len(g) \in Nat /\ FailCount <= Len(g)
      BY <1>1, <2>1, <2>4
    <3> QED
      BY <1>1, <1>2, <2>1, <3>1
  <2>6. g[start].at > Never
    BY <1>3, <2>5 DEF Timed
  <2> QED
    BY <2>1, <2>4, <2>5, <2>6 DEF Never
<1>12. CASE s.downSince = Never /\ s.fails + 1 >= FailCount
  <2>1. \A time \in Nat : DownBy(g, time) <=> new.downSince <= time \/ DownBy(h, time)
    BY <1>7, <1>8, <1>11, <1>12
  <2> QED
    BY <1>11, <1>12, <2>1 DEF Heeds
<1>13. CASE s.downSince # Never
  <2>1. \A time \in Nat : DownBy(g, time) <=> DownBy(h, time)
    BY <1>1, <1>2, <1>6, <1>7, <1>8, <1>9, <1>13
  <2> QED
    BY <1>10, <1>13, <2>1 DEF Heeds
<1>14. CASE s.downSince = Never /\ ~(s.fails + 1 >= FailCount)
  <2>1. \A time \in Nat : DownBy(g, time) <=> DownBy(h, time)
    BY <1>1, <1>2, <1>6, <1>14
  <2> QED
    BY <1>10, <1>14, <2>1 DEF Heeds
<1> QED
  BY <1>12, <1>13, <1>14

LEMMA OkHeard ==
  ASSUME NEW h \in Seq(Heared), NEW b \in Nat, Timed(h, b), NEW at \in Nat, b < at,
         NEW e \in Heared, e.at = at, e.ok = "ok", NEW g, Longer(g, h, e),
         NEW s \in State, CountedFrom(s, h, b)
  PROVE  Heeds(s, Succeeded(s, at), h, g)
<1> DEFINE n == Len(h)
           start == n + 2 - RecoverCount
           new == Succeeded(s, at)
<1>1. n \in Nat /\ Len(g) = n + 1 /\ g \in Seq(Heared) /\ (\A i \in 1 .. n : g[i] = h[i])
      /\ FailCount \in Nat \ {0} /\ RecoverCount \in Nat \ {0}
  BY StatusAssumption DEF Longer
<1>2. /\ s.fails \in Nat /\ s.oks \in Nat /\ s.firstFail \in Nat /\ s.firstOk \in Nat /\ s.downSince \in Nat
      /\ Counted(h, "fail", s.fails, s.firstFail) /\ Counted(h, "ok", s.oks, s.firstOk)
      /\ (s.oks >= RecoverCount => s.downSince = Never)
      /\ (s.downSince # Never <=> DownBy(h, b))
  BY DEF State, CountedFrom
<1>3. Timed(g, at)
  BY TimedNext
<1>4. /\ \A i \in 1 .. n : WorksFrom(h, i) => WorksFrom(g, i)
      /\ \A i \in 1 .. n + 1 : WorksFrom(g, i) =>
           (i <= n /\ WorksFrom(h, i)) \/ (i = start /\ s.oks + 1 >= RecoverCount)
      /\ s.oks + 1 >= RecoverCount => start \in 1 .. n + 1 /\ WorksFrom(g, start)
  <2>1. /\ \A i \in 1 .. Len(h) : RunOf(h, "ok", i, RecoverCount) => RunOf(g, "ok", i, RecoverCount)
        /\ \A i \in 1 .. Len(h) + 1 : RunOf(g, "ok", i, RecoverCount) =>
             \/ i <= Len(h) /\ RunOf(h, "ok", i, RecoverCount)
             \/ e.ok = "ok" /\ i = Len(h) + 2 - RecoverCount /\ s.oks + 1 >= RecoverCount
        /\ e.ok = "ok" /\ s.oks + 1 >= RecoverCount =>
             /\ Len(h) + 2 - RecoverCount \in 1 .. Len(h) + 1
             /\ RunOf(g, "ok", Len(h) + 2 - RecoverCount, RecoverCount)
    BY <1>1, <1>2, RunNext
  <2> QED
    BY <2>1 DEF WorksFrom
<1>5. \A i \in 1 .. n + 1 : FailsFrom(g, i) <=> i <= n /\ FailsFrom(h, i)
  BY <1>1, <1>2, RunNext DEF FailsFrom
<1>6. ASSUME s.oks + 1 < RecoverCount, NEW time \in Nat PROVE DownBy(g, time) <=> DownBy(h, time)
  <2>1. \A i \in 1 .. n + 1 : WorksFrom(g, i) <=> i <= n /\ WorksFrom(h, i)
    BY <1>1, <1>2, <1>4, <1>6
  <2> QED
    BY <1>1, <1>5, <2>1, SameBefore
<1>7. ASSUME s.oks + 1 >= RecoverCount, NEW time \in Nat, g[start].at <= time
      PROVE  ~DownBy(g, time)
  <2>1. start \in 1 .. Len(g) /\ WorksFrom(g, start)
    BY <1>1, <1>4, <1>7
  <2>2. ASSUME NEW i \in 1 .. Len(g), FailsFrom(g, i) PROVE i < start
    <3>1. \A k \in start .. start + RecoverCount - 1 : g[k].ok = "ok"
      BY <1>1, <2>1, RunsAre
    <3>2. i >= start => i \in start .. start + RecoverCount - 1
      BY <1>1, <2>1
    <3>3. i \in i .. i + FailCount - 1
      BY <1>1
    <3>4. g[i].ok = "fail"
      BY <1>1, <2>2, <3>3, RunsAre
    <3> QED
      BY <1>1, <2>1, <3>1, <3>2, <3>4
  <2> QED
    BY <1>1, <1>7, <2>1, <2>2, DownIs
<1>8. ASSUME s.oks + 1 >= RecoverCount, NEW time \in Nat, ~(g[start].at <= time)
      PROVE  DownBy(g, time) <=> DownBy(h, time)
  <2>1. \A i \in 1 .. n + 1 : g[i].at <= time => (WorksFrom(g, i) <=> i <= n /\ WorksFrom(h, i))
    BY <1>1, <1>4, <1>8
  <2> QED
    BY <1>1, <1>5, <2>1, SameBefore
<1>9. ASSUME s.oks + 1 >= RecoverCount, s.downSince = Never, NEW time \in Nat, g[start].at <= time
      PROVE  ~DownBy(h, time)
  <2>1. ASSUME NEW i \in 1 .. n, FailsFrom(h, i)
        PROVE  \E j \in 1 .. n : i < j /\ h[j].at <= time /\ WorksFrom(h, j)
    <3>1. PICK j \in 1 .. n : i < j /\ WorksFrom(h, j)
      <4>1. ~DownBy(h, b)
        BY <1>2, <1>9
      <4>2. h[i].at <= b
        BY DEF Timed
      <4> QED
        BY <2>1, <4>1, <4>2, DownIs
    <3>2. j < start /\ start \in 1 .. n + 1 /\ j \in 1 .. n + 1
      BY <1>1, <1>4, <1>9, <3>1, RunsAre
    <3>3. h[j].at <= time
      <4>1. g[j].at < g[start].at /\ g[j].at \in Nat /\ g[start].at \in Nat
        BY <1>1, <1>3, <3>2 DEF Timed
      <4>2. g[j] = h[j]
        BY <1>1
      <4> QED
        BY <1>9, <4>1, <4>2
    <3> QED
      BY <3>1, <3>3
  <2> QED
    BY <2>1, DownIs
<1>10. /\ new.downSince = IF s.oks + 1 >= RecoverCount THEN Never ELSE s.downSince
       /\ new.firstOk = IF s.oks = 0 THEN at ELSE s.firstOk
  BY DEF Succeeded
<1>11. ASSUME s.downSince # Never, s.oks + 1 >= RecoverCount
       PROVE  /\ RecoverCount <= Len(g) /\ new.firstOk = g[Len(g) + 1 - RecoverCount].at
              /\ start = Len(g) + 1 - RecoverCount /\ new.firstOk = g[start].at
              /\ g[start].at \in Nat
  <2>1. s.oks + 1 = RecoverCount
    BY <1>1, <1>2, <1>11
  <2>2. Counted(g, "ok", s.oks + 1, IF s.oks = 0 THEN at ELSE s.firstOk)
    BY <1>2, CountedNext
  <2>3. Counted(g, "ok", s.oks + 1, new.firstOk)
    BY <1>10, <1>11, <2>2
  <2>4. s.oks + 1 <= Len(g) /\ new.firstOk = g[Len(g) - (s.oks + 1) + 1].at
    BY <1>2, <2>3 DEF Counted
  <2>5. start = Len(g) + 1 - RecoverCount /\ start = Len(g) - (s.oks + 1) + 1 /\ start \in 1 .. Len(g)
    <3>1. Len(g) \in Nat /\ RecoverCount <= Len(g) /\ RecoverCount \in Nat \ {0} /\ Len(g) = n + 1
      BY <1>1, <2>1, <2>4
    <3>2. s.oks \in Nat /\ s.oks = RecoverCount - 1
      BY <1>1, <1>2, <2>1
    <3> HIDE DEF n
    <3>3. n \in Nat
      BY <1>1
    <3> QED
      BY <3>1, <3>2, <3>3
  <2>6. g[start].at \in Nat
    BY <1>3, <2>5 DEF Timed
  <2> QED
    BY <2>1, <2>4, <2>5, <2>6
<1>12. CASE s.downSince # Never /\ s.oks + 1 >= RecoverCount
  <2>1. \A time \in Nat : DownBy(g, time) <=> time < new.firstOk /\ DownBy(h, time)
    <3>1. ASSUME NEW time \in Nat, g[start].at <= time PROVE ~DownBy(g, time) /\ ~(time < new.firstOk)
      BY <1>7, <1>11, <1>12, <3>1
    <3>2. ASSUME NEW time \in Nat, ~(g[start].at <= time)
          PROVE  (DownBy(g, time) <=> DownBy(h, time)) /\ time < new.firstOk
      BY <1>8, <1>11, <1>12, <3>2
    <3> QED
      BY <3>1, <3>2
  <2> QED
    BY <1>11, <1>12, <2>1, <1>10 DEF Heeds
<1>13. CASE s.downSince = Never
  <2>1. CASE s.oks + 1 >= RecoverCount
    <3>1. ASSUME NEW time \in Nat PROVE DownBy(g, time) <=> DownBy(h, time)
      BY <1>7, <1>8, <1>9, <1>13, <2>1
    <3> QED
      BY <1>10, <1>13, <2>1, <3>1 DEF Heeds
  <2>2. CASE ~(s.oks + 1 >= RecoverCount)
    <3>1. s.oks + 1 < RecoverCount
      BY <1>1, <1>2, <2>2
    <3>2. ASSUME NEW time \in Nat PROVE DownBy(g, time) <=> DownBy(h, time)
      BY <1>6, <3>1
    <3> QED
      BY <1>10, <1>13, <2>2, <3>2 DEF Heeds
  <2> QED
    BY <2>1, <2>2
<1>14. CASE s.downSince # Never /\ ~(s.oks + 1 >= RecoverCount)
  <2>1. \A time \in Nat : DownBy(g, time) <=> DownBy(h, time)
    BY <1>1, <1>2, <1>6, <1>14
  <2> QED
    BY <1>10, <1>14, <2>1 DEF Heeds
<1> QED
  BY <1>12, <1>13, <1>14

LEMMA TimedIs ==
  ASSUME NEW h \in Seq(Heared), NEW b \in Nat, NEW s, CountedFrom(s, h, b)
  PROVE  Timed(h, b)
<1>1. DOMAIN h = 1 .. Len(h)
  OBVIOUS
<1>2. ASSUME NEW i \in 1 .. Len(h) PROVE h[i].at \in Nat
  <2>1. h[i] \in Heared
    OBVIOUS
  <2> QED
    BY <2>1 DEF Heared
<1> QED
  BY <1>1, <1>2 DEF CountedFrom, Timed

\* The counters stay those of what was heard, and when they tell of a change it is one of
\* what was down.
LEMMA AdvanceHeard ==
  ASSUME NEW h \in Seq(Heared), NEW b \in Nat, NEW at \in Nat, b < at,
         NEW s, StateUntil(s, b), CountedFrom(s, h, b), NEW result \in {"ok", "fail"}, NEW g,
         Longer(g, h, [at |-> at, ok |-> result])
  PROVE  LET new == advance(s, result, at)
         IN  Heeds(s, new, h, g) /\ CountedFrom(new, g, at)
<1> DEFINE e == [at |-> at, ok |-> result]
           new == advance(s, result, at)
<1>1. e \in Heared /\ e.at = at /\ e.ok = result
  BY DEF Heared
<1>2. /\ s \in State /\ s.fails \in Nat /\ s.oks \in Nat /\ s.firstFail \in Nat /\ s.firstOk \in Nat
      /\ Counted(h, "fail", s.fails, s.firstFail) /\ Counted(h, "ok", s.oks, s.firstOk)
      /\ (s.downSince # Never <=> DownBy(h, b)) /\ s.downSince \in Nat
      /\ (s.fails >= FailCount => s.downSince # Never)
      /\ (s.oks >= RecoverCount => s.downSince = Never)
  BY DEF StateUntil, CountedFrom, State
<1>3. Timed(h, b)
  BY TimedIs
<1> HIDE DEF e
<1>4. Timed(g, at) /\ g \in Seq(Heared) /\ Longer(g, h, e)
  <2>1. Longer(g, h, e)
    BY DEF e
  <2> QED
    BY <1>1, <1>3, <2>1, TimedNext DEF Longer
<1>5. DOMAIN g = 1 .. Len(g)
  BY <1>4
<1>6. CASE result = "fail"
  <2>1. new = Failed(s, at)
    BY <1>6 DEF advance
  <2>2. Heeds(s, new, h, g)
    BY <1>1, <1>2, <1>3, <1>4, <1>6, <2>1, FailHeard
  <2>3. Counted(g, "fail", new.fails, new.firstFail) /\ Counted(g, "ok", new.oks, new.firstOk)
    <3>1. /\ new.fails = s.fails + 1 /\ new.oks = 0 /\ new.firstOk = Never
          /\ new.firstFail = IF s.fails = 0 THEN at ELSE s.firstFail
      BY <2>1 DEF Failed
    <3>2. Counted(g, "fail", s.fails + 1, IF s.fails = 0 THEN at ELSE s.firstFail)
      BY <1>1, <1>2, <1>4, <1>6, CountedNext
    <3>3. Counted(g, "ok", 0, Never)
      BY <1>1, <1>2, <1>4, <1>6, CountedNext
    <3> QED
      BY <3>1, <3>2, <3>3
  <2>4. (new.fails >= FailCount => new.downSince # Never) /\ (new.oks >= RecoverCount => new.downSince = Never)
    <3>1. /\ new.fails = s.fails + 1 /\ new.oks = 0
          /\ new.downSince = IF s.downSince = Never /\ s.fails + 1 >= FailCount
                               THEN IF s.fails = 0 THEN at ELSE s.firstFail ELSE s.downSince
      BY <2>1 DEF Failed
    <3>2. ASSUME s.downSince = Never, s.fails + 1 >= FailCount PROVE new.downSince # Never
      <4>1. CASE s.fails = 0
        BY <3>1, <3>2, <4>1 DEF Never
      <4>2. CASE s.fails # 0
        <5>1. s.firstFail = h[Len(h) - s.fails + 1].at /\ s.fails <= Len(h)
          BY <1>2, <4>2 DEF Counted
        <5>2. Len(h) - s.fails + 1 \in 1 .. Len(h)
          BY <1>2, <4>2, <5>1
        <5>3. Never < s.firstFail
          BY <1>3, <5>1, <5>2 DEF Timed
        <5> QED
          BY <1>2, <3>1, <3>2, <4>2, <5>3 DEF Never
      <4> QED
        BY <4>1, <4>2
    <3>3. RecoverCount \in Nat \ {0}
      BY StatusAssumption
    <3> QED
      BY <1>2, <3>1, <3>2, <3>3
  <2>5. DownBy(h, at) <=> DownBy(h, b)
    BY <1>3, DownStays
  <2>6. new.downSince \in Nat /\ (s.downSince = Never => new.downSince <= at) /\ (s.downSince # Never => new.downSince # Never)
    <3>1. StateUntil(Failed(s, at), at)
      <4>1. StateUntil(s, at)
        BY <1>2 DEF StateUntil, State
      <4> QED
        BY <2>1, <1>6, <4>1, AdvanceState DEF Results
    <3> QED
      BY <2>1, <3>1 DEF StateUntil, State, Failed
  <2>7. new.downSince # Never <=> DownBy(g, at)
    BY <1>2, <2>2, <2>5, <2>6 DEF Heeds
  <2> QED
    BY <1>4, <1>5, <2>2, <2>3, <2>4, <2>7 DEF CountedFrom, Timed
<1>7. CASE result = "ok"
  <2>1. new = Succeeded(s, at)
    BY <1>7 DEF advance
  <2>2. Heeds(s, new, h, g)
    BY <1>1, <1>2, <1>3, <1>4, <1>7, <2>1, OkHeard
  <2>3. Counted(g, "fail", new.fails, new.firstFail) /\ Counted(g, "ok", new.oks, new.firstOk)
    <3>1. /\ new.oks = s.oks + 1 /\ new.fails = 0 /\ new.firstFail = Never
          /\ new.firstOk = IF s.oks = 0 THEN at ELSE s.firstOk
      BY <2>1 DEF Succeeded
    <3>2. Counted(g, "ok", s.oks + 1, IF s.oks = 0 THEN at ELSE s.firstOk)
      BY <1>1, <1>2, <1>4, <1>7, CountedNext
    <3>3. Counted(g, "fail", 0, Never)
      BY <1>1, <1>2, <1>4, <1>7, CountedNext
    <3> QED
      BY <3>1, <3>2, <3>3
  <2>4. (new.fails >= FailCount => new.downSince # Never) /\ (new.oks >= RecoverCount => new.downSince = Never)
    <3>1. FailCount \in Nat \ {0}
      BY StatusAssumption
    <3> QED
      BY <1>2, <2>1, <3>1 DEF Succeeded
  <2>5. DownBy(h, at) <=> DownBy(h, b)
    BY <1>3, DownStays
  <2>6. new.firstOk \in Nat /\ new.firstOk <= at /\ (s.downSince = Never => new.downSince = Never)
    <3>1. StateUntil(Succeeded(s, at), at)
      <4>1. StateUntil(s, at)
        BY <1>2 DEF StateUntil, State
      <4> QED
        BY <2>1, <1>7, <4>1, AdvanceState DEF Results
    <3> QED
      BY <2>1, <3>1 DEF StateUntil, State, Succeeded
  <2>7. new.downSince # Never <=> DownBy(g, at)
    BY <1>2, <2>2, <2>5, <2>6 DEF Heeds
  <2> QED
    BY <1>4, <1>5, <2>2, <2>3, <2>4, <2>7 DEF CountedFrom, Timed
<1> QED
  BY <1>6, <1>7

-----------------------------------------------------------------------------
(***************************************************************************)
(* What the table says of a time.                                          *)
(***************************************************************************)

\* Two tables say the same of a time.
Alike(rows, new, time) ==
  /\ \A i \in Covering(rows, time) : \E j \in Covering(new, time) : j.who = i.who /\ j.kind = i.kind
  /\ \A j \in Covering(new, time) : \E i \in Covering(rows, time) : i.who = j.who /\ i.kind = j.kind

LEMMA AlikeNamed ==
  ASSUME NEW rows, NEW new, NEW time, Alike(rows, new, time), NEW down, NEW of,
         Named(rows, time, down, of)
  PROVE  Named(new, time, down, of)
<1>1. CASE down = {}
  BY <1>1 DEF Named, Alike
<1>2. CASE down # {}
  <2>1. PICK i \in Covering(rows, time) : i.who = down /\ i.kind = Kind(down, of)
    BY <1>2 DEF Named
  <2>2. PICK j \in Covering(new, time) : j.who = i.who /\ j.kind = i.kind
    BY <2>1 DEF Alike
  <2> QED
    BY <1>2, <2>1, <2>2 DEF Named
<1> QED
  BY <1>1, <1>2

LEMMA SameAlike ==
  ASSUME NEW rows, NEW new, NEW time, Covering(rows, time) = Covering(new, time)
  PROVE  Alike(rows, new, time)
BY DEF Alike

LEMMA CloseCovers ==
  ASSUME NEW b \in Nat, NEW rows, Table(rows, b), NEW at \in Nat, NEW kinds, NEW time \in Nat,
         time < at
  PROVE  Alike(rows, CloseOpen(rows, kinds, at), time)
<1> DEFINE open == Open(rows, kinds)
           Closed(i) == [kind |-> i.kind, from |-> i.from, to |-> at, who |-> i.who]
           new == CloseOpen(rows, kinds, at)
<1>1. new = (rows \ open) \cup {Closed(i) : i \in {i \in open : at > i.from}}
  BY DEF CloseOpen
<1>2. \A i \in rows : i.from \in Nat /\ i.to \in Nat
  BY DEF Table, Incident
<1>3. \A i \in open : i \in rows /\ i.to = Never
  BY DEF Open, IsOpen
<1>4. \A i : Closed(i).kind = i.kind /\ Closed(i).from = i.from /\ Closed(i).to = at /\ Closed(i).who = i.who
  OBVIOUS
<1> HIDE DEF Closed, new, open
<1>5. ASSUME NEW i \in Covering(rows, time)
      PROVE  \E j \in Covering(new, time) : j.who = i.who /\ j.kind = i.kind
  <2>1. i \in rows /\ i.kind \in Faults /\ i.from <= time /\ (i.to = Never \/ time < i.to)
    BY DEF Covering
  <2>2. CASE i \in open
    <3>1. at > i.from
      BY <1>2, <2>1
    <3>2. Closed(i) \in new
      BY <1>1, <2>2, <3>1
    <3>3. Closed(i) \in Covering(new, time)
      BY <1>4, <2>1, <3>2 DEF Covering
    <3> QED
      BY <1>4, <3>3
  <2>3. CASE i \notin open
    <3>1. i \in new
      BY <1>1, <2>1, <2>3
    <3> QED
      BY <2>1, <3>1 DEF Covering
  <2> QED
    BY <2>2, <2>3
<1>6. ASSUME NEW j \in Covering(new, time)
      PROVE  \E i \in Covering(rows, time) : i.who = j.who /\ i.kind = j.kind
  <2>1. j \in new /\ j.kind \in Faults /\ j.from <= time /\ (j.to = Never \/ time < j.to)
    BY DEF Covering
  <2>2. CASE j \in rows
    BY <2>1, <2>2 DEF Covering
  <2>3. CASE j \notin rows
    <3>1. PICK i \in open : j = Closed(i)
      BY <1>1, <2>1, <2>3
    <3>2. i \in Covering(rows, time)
      BY <1>3, <1>4, <2>1, <3>1 DEF Covering
    <3> QED
      BY <1>4, <3>1, <3>2
  <2> QED
    BY <2>2, <2>3
<1> QED
  BY <1>5, <1>6 DEF Alike, new

\* Closing what is not a fault.
LEMMA CloseOthers ==
  ASSUME NEW rows, NEW at, NEW time
  PROVE  Covering(CloseOpen(rows, {"maintenance"}, at), time) = Covering(rows, time)
<1>1. "maintenance" \notin Faults
  BY DEF Faults
<1> QED
  BY <1>1 DEF CloseOpen, Covering, Open, IsOpen

\* What is over by a time.
OverBy(rows, time) == \A i \in rows : i.from <= time /\ i.to <= time

LEMMA OpenNamed ==
  ASSUME NEW b \in Nat, NEW rows, Table(rows, b), NEW by \in Nat, OverBy(rows, by),
         NEW down, NEW of, down # {} <=> Opened(rows, Faults), Fits(rows, down, of),
         NEW time \in Nat, by <= time
  PROVE  /\ Named(rows, time, down, of)
         /\ \A other : Named(rows, time, other, of) => other = down
<1>1. \A i \in rows : i.from \in Nat /\ i.to \in Nat /\ i.from <= by /\ i.to <= by
  BY DEF Table, Incident, OverBy
<1>2. Covering(rows, time) = Open(rows, Faults)
  BY <1>1 DEF Covering, Open, IsOpen
<1>3. \A i \in Covering(rows, time) : i.kind = Kind(down, of) /\ i.who = down
  BY <1>2 DEF Fits
<1>4. down # {} <=> Covering(rows, time) # {}
  BY <1>2 DEF Opened
<1> QED
  BY <1>3, <1>4 DEF Named

LEMMA PurgeCovers ==
  ASSUME NEW b \in Nat, NEW rows, Table(rows, b), NEW at \in Nat, NEW time \in Nat,
         time >= at - KeepFor
  PROVE  Covering(Purged(rows, at), time) = Covering(rows, time)
<1>1. \A i \in rows : i.to \in Nat
  BY DEF Table, Incident
<1>2. KeepFor \in Nat
  BY StatusAssumption
<1>3. ASSUME NEW i \in Covering(rows, time) PROVE i.to = Never \/ i.to >= at - KeepFor
  BY <1>1, <1>2 DEF Covering
<1>4. Purged(rows, at) \subseteq rows
      /\ \A i \in rows : i.to = Never \/ i.to >= at - KeepFor => i \in Purged(rows, at)
  BY DEF Purged
<1> QED
  BY <1>3, <1>4 DEF Covering

LEMMA SettleCovers ==
  ASSUME NEW b \in Nat, NEW book, Book(book, b), NEW of, NEW at \in 0 .. b,
         NEW by \in Nat, at <= by, OverBy(book.rows, by), book.floor <= by
  PROVE  LET new == settle(book, of, at)
         IN  /\ OverBy(new.rows, by) /\ new.floor <= by
             /\ by = at => \A time \in Nat : time < at => Alike(book.rows, new.rows, time)
<1> DEFINE fits == Fits(book.rows, book.down, of)
           rows == IF fits THEN book.rows ELSE CloseOpen(book.rows, Faults, at)
           ends == {Never} \cup {Later(at, i.from) : i \in Open(book.rows, Faults)}
           floor == IF fits THEN book.floor ELSE Later(book.floor, EndOfOpen(book.rows, at))
           starts == book.down # {} /\ ~Opened(rows, Faults)
           kind == Kind(book.down, of)
           begin == BeginsAt(at, floor)
           new == settle(book, of, at)
<1>1. new = [rows |-> IF starts THEN Start(rows, kind, begin, book.down) ELSE rows,
             floor |-> floor, down |-> book.down]
  BY DEF settle
<1>2. /\ Table(book.rows, b) /\ book.floor \in Nat /\ at \in Nat
      /\ \A i \in book.rows : i.from \in Nat /\ i.to \in Nat /\ i.from <= by /\ i.to <= by
  BY DEF Book, Table, Incident, OverBy
<1> HIDE DEF fits, starts, new, kind
<1>3. floor \in Nat /\ floor <= by
  <2>1. ends \in SUBSET Nat /\ ends # {} /\ \A e \in ends : e <= by
    <3>1. ASSUME NEW i \in Open(book.rows, Faults) PROVE Later(at, i.from) \in Nat /\ Later(at, i.from) <= by
      <4>1. i.from \in Nat /\ i.from <= by
        BY <1>2 DEF Open
      <4> QED
        BY <1>2, <4>1, LaterIs
    <3> QED
      BY <3>1 DEF Never
  <2>2. EndOfOpen(book.rows, at) = Latest(ends)
    BY DEF EndOfOpen
  <2> HIDE DEF ends
  <2>3. EndOfOpen(book.rows, at) \in Nat /\ EndOfOpen(book.rows, at) <= by
    BY <2>1, <2>2, LatestIs
  <2>4. LET l == Later(book.floor, EndOfOpen(book.rows, at)) IN l \in Nat /\ l <= by
    BY <1>2, <2>3, LaterIs
  <2> QED
    BY <1>2, <2>4
<1>4. OverBy(rows, by) /\ (by = at => \A time \in Nat : time < at => Alike(book.rows, rows, time))
  <2>1. CASE fits
    BY <2>1, SameAlike
  <2>2. CASE ~fits
    <3>1. rows = CloseOpen(book.rows, Faults, at)
      BY <2>2
    <3>2. ASSUME NEW i \in rows PROVE i.from <= by /\ i.to <= by
      BY <1>2, <3>1 DEF CloseOpen, Open
    <3>3. ASSUME NEW time \in Nat, time < at PROVE Alike(book.rows, rows, time)
      BY <1>2, <3>1, <3>3, CloseCovers
    <3> QED
      BY <3>2, <3>3 DEF OverBy
  <2> QED
    BY <2>1, <2>2
<1> HIDE DEF rows, floor
<1>5. begin \in Nat /\ begin <= by /\ at <= begin
  BY <1>2, <1>3, LaterIs DEF BeginsAt
<1> HIDE DEF begin
<1>6. OverBy(new.rows, by) /\ (\A time \in Nat : time < at => Covering(new.rows, time) = Covering(rows, time))
  <2>1. CASE starts
    <3> DEFINE row == [kind |-> kind, from |-> begin, to |-> Never, who |-> book.down]
    <3>1. new.rows = rows \cup {row}
      BY <1>1, <2>1 DEF Start
    <3>2. row.from = begin /\ row.to = 0
      BY DEF Never
    <3> HIDE DEF row
    <3>3. OverBy(new.rows, by)
      BY <1>4, <1>5, <3>1, <3>2 DEF OverBy
    <3>4. ASSUME NEW time \in Nat, time < at PROVE Covering(new.rows, time) = Covering(rows, time)
      <4>1. ~(row.from <= time)
        BY <1>2, <1>5, <3>2, <3>4
      <4> QED
        BY <3>1, <4>1 DEF Covering
    <3> QED
      BY <3>3, <3>4
  <2>2. CASE ~starts
    BY <1>1, <1>4, <2>2
  <2> QED
    BY <2>1, <2>2
<1>7. ASSUME by = at, NEW time \in Nat, time < at PROVE Alike(book.rows, new.rows, time)
  BY <1>4, <1>6, <1>7 DEF Alike
<1> QED
  BY <1>1, <1>3, <1>6, <1>7 DEF new

\* A book that is settled stays.
LEMMA SettledStays ==
  ASSUME NEW book, NEW of, NEW at, Fits(book.rows, book.down, of),
         book.down # {} => Opened(book.rows, Faults)
  PROVE  settle(book, of, at).rows = book.rows
BY DEF settle

\* A transition changes nothing that the table says of a time before it.
LEMMA ReplayedCovers ==
  ASSUME NEW b \in Nat, NEW book, Book(book, b), NEW t \in Transition(b), NEW of,
         NEW by \in Nat, t.at <= by, OverBy(book.rows, by), book.floor <= by
  PROVE  LET new == Replayed(book, t, of)
         IN  /\ OverBy(new.rows, by) /\ new.floor <= by
             /\ new.down # {} <=> Opened(new.rows, Faults)
             /\ Fits(new.rows, new.down, of)
             /\ by = t.at => \A time \in Nat : time < by => Alike(book.rows, new.rows, time)
<1> DEFINE noted == Noted(book, t)
           new == Replayed(book, t, of)
<1>1. t.at \in 0 .. b /\ t.who \in Transports
  BY DEF Transition
<1>2. /\ noted.rows = book.rows /\ noted.floor = book.floor
      /\ noted.down \in {book.down \cup {t.who}, book.down \ {t.who}}
  BY DEF Noted
<1>3. new = settle(noted, of, t.at)
  BY DEF Replayed
<1> HIDE DEF noted, new
<1>4. Book(noted, b)
  BY <1>1, <1>2 DEF Book
<1>5. /\ OverBy(new.rows, by) /\ new.floor <= by
      /\ by = t.at => \A time \in Nat : time < t.at => Alike(noted.rows, new.rows, time)
  BY <1>1, <1>2, <1>3, <1>4, SettleCovers
<1>6. (new.down # {} <=> Opened(new.rows, Faults)) /\ Fits(new.rows, new.down, of)
  BY <1>1, <1>3, <1>4, SettleBook
<1> QED
  BY <1>2, <1>5, <1>6 DEF new

Reached(d, time) == {x \in d : x.at <= time}

\* A table that tells at some times what is down then.
TrueOf(rows, W, D, of) == \A time \in W : Named(rows, time, D[time], of)

\* A book whose open incident is what it takes to be down, with nothing later than any of
\* the transitions, nor than the time from which it tells.
Ready(book, S, from, of) ==
  /\ (book.down # {} <=> Opened(book.rows, Faults)) /\ Fits(book.rows, book.down, of)
  /\ \A t \in S : OverBy(book.rows, Later(from, t.at)) /\ book.floor <= Later(from, t.at)

\* Then the table tells what the transitions make of it after they are replayed.
LEMMA ReplaysTruth ==
  ASSUME NEW b \in Nat, NEW S \in SUBSET Transition(b), IsFiniteSet(S),
         \A t, u \in S : t.who = u.who => t = u,
         NEW book, Book(book, b), NEW of, NEW from \in Nat, Ready(book, S, from, of),
         NEW W \in SUBSET Nat, \A time \in W : from <= time,
         NEW D, TrueOf(book.rows, W, D, of),
         NEW E, \A time \in W : E[time] = Changes(D[time], Reached(S, time))
  PROVE  TrueOf(Replays(book, S, of).rows, W, E, of)
<1>1. PICK f : Steps(f, S, book, of)
  BY ReplaySteps
<1>2. /\ f[{}] = book /\ Replays(book, S, of) = f[S]
      /\ \A d \in SUBSET S : d # {} =>
           /\ LastOf(d) \in d /\ f[d] = Replayed(f[d \ {LastOf(d)}], LastOf(d), of)
           /\ \A t \in d : t.at <= LastOf(d).at
  BY <1>1 DEF Steps
<1>3. \A d \in SUBSET S : Book(f[d], b) /\ f[d].down = Changes(book.down, d)
  BY <1>1, StepsBook
<1>4. /\ (book.down # {} <=> Opened(book.rows, Faults)) /\ Fits(book.rows, book.down, of)
      /\ \A t \in S : OverBy(book.rows, Later(from, t.at)) /\ book.floor <= Later(from, t.at)
      /\ \A time \in W : Named(book.rows, time, D[time], of)
  BY DEF Ready, TrueOf
<1> DEFINE Bounded(d) == \A by \in Nat :
             (\A t \in d : t.at <= by) /\ OverBy(book.rows, by) /\ book.floor <= by =>
               OverBy(f[d].rows, by) /\ f[d].floor <= by
           True(d) == \A time \in W : Named(f[d].rows, time, Changes(D[time], Reached(d, time)), of)
           G == {d \in SUBSET S : Bounded(d) /\ True(d)}
<1>5. Bounded({}) /\ True({})
  <2>1. \A time \in W : Reached({}, time) = {} /\ Changes(D[time], {}) = D[time]
    BY DEF Changes, Reached
  <2> QED
    BY <1>4, <1>2, <2>1
<1>6. ASSUME NEW d \in SUBSET S, d # {}, Bounded(d \ {LastOf(d)}), True(d \ {LastOf(d)})
      PROVE  Bounded(d) /\ True(d)
  <2> DEFINE t == LastOf(d)
             e == d \ {t}
  <2>1. /\ t \in d /\ t \in S /\ e \in SUBSET S /\ f[d] = Replayed(f[e], t, of)
        /\ \A u \in d : u.at <= t.at
    BY <1>2, <1>6
  <2>2. t \in Transition(b) /\ t.at \in Nat
    BY <2>1 DEF Transition
  <2>3. Bounded(e) /\ True(e) /\ Book(f[e], b) /\ Book(f[d], b)
    BY <1>3, <1>6, <2>1
  <2>4. d = e \cup {t}
    BY <2>1
  <2> HIDE DEF t, e
  <2>5. ASSUME NEW by \in Nat, \A u \in d : u.at <= by, OverBy(book.rows, by), book.floor <= by
        PROVE  /\ OverBy(f[d].rows, by) /\ f[d].floor <= by
               /\ (f[d].down # {} <=> Opened(f[d].rows, Faults)) /\ Fits(f[d].rows, f[d].down, of)
               /\ by = t.at => \A time \in Nat : time < by => Alike(f[e].rows, f[d].rows, time)
    <3>1. OverBy(f[e].rows, by) /\ f[e].floor <= by /\ t.at <= by
      BY <2>1, <2>3, <2>4, <2>5
    <3> QED
      BY <2>1, <2>2, <2>3, <3>1, ReplayedCovers
  <2>6. Bounded(d)
    BY <2>5
  <2>7. ASSUME NEW time \in W
        PROVE  Named(f[d].rows, time, Changes(D[time], Reached(d, time)), of)
    <3> DEFINE by == Later(from, t.at)
    <3>1. time \in Nat /\ from <= time
      OBVIOUS
    <3>2. by \in Nat /\ from <= by /\ t.at <= by /\ (by = from \/ by = t.at)
      BY <2>2, LaterIs
    <3>3. OverBy(book.rows, by) /\ book.floor <= by
      BY <1>4, <2>1
    <3> HIDE DEF by
    <3>4. \A u \in d : u.at \in Nat /\ u.at <= t.at
      BY <2>1 DEF Transition
    <3>5. \A u \in d : u.at <= by
      BY <2>2, <3>2, <3>4
    <3>6. /\ OverBy(f[d].rows, by)
          /\ (f[d].down # {} <=> Opened(f[d].rows, Faults)) /\ Fits(f[d].rows, f[d].down, of)
          /\ by = t.at => \A tm \in Nat : tm < by => Alike(f[e].rows, f[d].rows, tm)
      BY <2>5, <3>2, <3>3, <3>5
    <3>7. CASE by <= time
      <4>1. Reached(d, time) = d
        BY <3>1, <3>2, <3>4, <3>5, <3>7 DEF Reached
      <4>2. Table(book.rows, b) /\ Table(f[d].rows, b)
        BY <2>3 DEF Book
      <4>3. D[time] = book.down
        BY <1>4, <3>1, <3>2, <3>3, <3>7, <4>2, OpenNamed
      <4>4. Named(f[d].rows, time, f[d].down, of)
        BY <3>1, <3>2, <3>6, <3>7, <4>2, OpenNamed
      <4>5. f[d].down = Changes(book.down, d)
        BY <1>3
      <4> QED
        BY <4>1, <4>3, <4>4, <4>5
    <3>8. CASE ~(by <= time)
      <4>1. by = t.at /\ time < t.at
        BY <2>2, <3>1, <3>2, <3>8
      <4>2. Reached(d, time) = Reached(e, time)
        <5>1. ~(t.at <= time)
          BY <2>2, <3>1, <4>1
        <5> QED
          BY <2>4, <5>1 DEF Reached
      <4>3. Alike(f[e].rows, f[d].rows, time)
        BY <3>1, <3>6, <4>1
      <4>4. Named(f[e].rows, time, Changes(D[time], Reached(e, time)), of)
        BY <2>3
      <4> QED
        BY <4>2, <4>3, <4>4, AlikeNamed
    <3> QED
      BY <3>7, <3>8
  <2> QED
    BY <2>6, <2>7
<1> HIDE DEF Bounded, True
<1>7. \A d \in SUBSET S : d # {} => \E x \in d : d \ {x} \in G => d \in G
  BY <1>2, <1>6
<1>8. G \in SUBSET SUBSET S /\ {} \in G
  BY <1>5
<1> HIDE DEF G
<1>9. \A d \in SUBSET S : d \in G
  BY <1>7, <1>8, OnSubsets
<1>10. True(S)
  BY <1>9 DEF G
<1> QED
  BY <1>2, <1>10 DEF True, TrueOf

-----------------------------------------------------------------------------
(***************************************************************************)
(* What a round makes of what was heard.                                   *)
(***************************************************************************)
LEMMA RoundIs ==
  ASSUME StatusIInv, NEW results \in [Transports -> Results], Round(results)
  PROVE  /\ last \in Nat /\ last' \in Nat /\ last < last' /\ node' = node
         /\ node \in SUBSET Transports /\ since \in Nat
         /\ Listen(last', results)
         /\ NotProbed(last') \/ Hidden(last') \/ Shown(last', results)
<1> DEFINE at == (now \div Interval) * Interval
<1>1. now \in Nat /\ last \in Nat /\ node \in SUBSET Transports /\ since \in Nat
  BY DEF StatusIInv, StatusTypeOK
<1>2. at \in Nat
  BY <1>1, RoundAt, StatusAssumption
<1>3. /\ last' = at /\ last < at /\ node' = node /\ Listen(at, results)
      /\ NotProbed(at) \/ Hidden(at) \/ Shown(at, results)
  BY DEF Round
<1> HIDE DEF at
<1> QED
  BY <1>1, <1>2, <1>3

LEMMA NewCounted == ASSUME NEW b \in Nat PROVE CountedFrom(NewState, <<>>, b)
<1>1. Len(<<>>) = 0 /\ DOMAIN <<>> = {}
  OBVIOUS
<1>2. ~DownBy(<<>>, b)
  BY <1>1 DEF DownBy
<1>3. \A what : Counted(<<>>, what, 0, Never)
  BY <1>1 DEF Counted
<1>4. FailCount \in Nat \ {0} /\ RecoverCount \in Nat \ {0}
  BY StatusAssumption
<1>5. /\ NewState.fails = 0 /\ NewState.oks = 0 /\ NewState.firstFail = Never
      /\ NewState.firstOk = Never /\ NewState.downSince = Never
  BY DEF NewState
<1> QED
  BY <1>1, <1>2, <1>3, <1>4, <1>5 DEF CountedFrom

LEMMA CountedLater ==
  ASSUME NEW h \in Seq(Heared), NEW b \in Nat, NEW s, CountedFrom(s, h, b), NEW c \in Nat, b <= c
  PROVE  CountedFrom(s, h, c)
<1>1. Timed(h, b)
  BY TimedIs
<1>2. DownBy(h, c) <=> DownBy(h, b)
  BY <1>1, DownStays
<1>3. \A i \in DOMAIN h : h[i].at <= c
  BY <1>1 DEF Timed
<1> QED
  BY <1>2, <1>3 DEF CountedFrom

\* A transport's counters, with what was heard of it: what counts before the round, and
\* after it.
LEMMA Advanced ==
  ASSUME NEW h \in Seq(Heared), NEW b \in Nat, NEW at \in Nat, b < at,
         NEW s, StateUntil(s, b), CountedFrom(s, h, b), NEW result \in Results, NEW g,
         result = "none" => g = h,
         result # "none" => g = Append(h, [at |-> at, ok |-> result])
  PROVE  LET new == advance(s, result, at)
         IN  /\ g \in Seq(Heared) /\ CountedFrom(new, g, at) /\ Heeds(s, new, h, g)
             /\ result = "none" => new = s
             /\ result # "none" => Longer(g, h, [at |-> at, ok |-> result])
<1>1. CASE result = "none"
  <2>1. advance(s, result, at) = s
    BY <1>1 DEF advance
  <2>2. CountedFrom(s, h, at)
    BY CountedLater
  <2> QED
    BY <1>1, <2>1, <2>2 DEF Heeds
<1>2. CASE result # "none"
  <2> DEFINE e == [at |-> at, ok |-> result]
  <2>1. result \in {"ok", "fail"}
    BY <1>2 DEF Results
  <2>2. e \in Heared
    BY <2>1 DEF Heared
  <2>3. g = Append(h, e)
    BY <1>2
  <2> HIDE DEF e
  <2>4. Longer(g, h, e)
    BY <2>2, <2>3, Appended
  <2>5. g \in Seq(Heared)
    BY <2>4 DEF Longer
  <2> USE DEF e
  <2>6. Heeds(s, advance(s, result, at), h, g) /\ CountedFrom(advance(s, result, at), g, at)
    BY <2>1, <2>4, AdvanceHeard
  <2> QED
    BY <1>2, <2>4, <2>5, <2>6
<1> QED
  BY <1>1, <1>2

LEMMA RoundHears ==
  ASSUME StatusIInv, AsHeard, NEW results \in [Transports -> Results], Round(results),
         NEW t \in Transports
  PROVE  /\ heard[t] \in Seq(Heared) /\ heard'[t] \in Seq(Heared)
         /\ CountedFrom(state'[t], heard'[t], last')
         /\ t \notin node \/ shown = "no" => heard'[t] = <<>>
         /\ Anew(last') => \A i \in DOMAIN heard'[t] : heard'[t][i].at = last'
         /\ Anew(last') => Len(heard'[t]) \in {0, 1}
         /\ ~Anew(last') /\ t \in node =>
              /\ Heeds(state[t], state'[t], heard[t], heard'[t])
              /\ results[t] = "none" => state'[t] = state[t] /\ heard'[t] = heard[t]
              /\ results[t] # "none" =>
                   Longer(heard'[t], heard[t], [at |-> last', ok |-> results[t]])
<1> DEFINE at == last'
           before == IF Anew(at) \/ t \notin node THEN <<>> ELSE heard[t]
           old == IF Gap(at) THEN NewState ELSE Remaining(t)
<1>1. /\ last \in Nat /\ at \in Nat /\ last < at /\ Listen(at, results)
      /\ NotProbed(at) \/ Hidden(at) \/ Shown(at, results)
  BY RoundIs
<1> HIDE DEF at
<1>2. heard[t] \in Seq(Heared) /\ shown \in {"yes", "no"} /\ CountedFrom(state[t], heard[t], last)
      /\ StateUntil(state[t], last) /\ results[t] \in Results
  BY DEF StatusIInv, StatusTypeOK, AsHeard, Heared, TimesPassed, StateUntil
<1>3. heard'[t] = IF shown = "no" \/ t \notin node \/ results[t] = "none" THEN before
                  ELSE Append(before, [at |-> at, ok |-> results[t]])
  BY <1>1 DEF Listen
<1>4. CountedFrom(NewState, <<>>, last) /\ CountedFrom(NewState, <<>>, at)
  BY <1>1, NewCounted
<1>5. <<>> \in Seq(Heared) /\ Len(<<>>) = 0 /\ DOMAIN <<>> = {}
  OBVIOUS
<1>6. CASE t \notin node \/ shown = "no"
  <2>1. heard'[t] = <<>>
    BY <1>3, <1>6 DEF Anew
  <2>2. state'[t] = NewState
    BY <1>1, <1>6 DEF NotProbed, Hidden, Shown
  <2>3. ~Anew(at) => t \notin node
    BY <1>6 DEF Anew
  <2> QED
    BY <1>2, <1>4, <1>5, <2>1, <2>2, <2>3 DEF at
<1>7. CASE t \in node /\ shown = "yes"
  <2>1. Shown(at, results) /\ node # {} /\ (Anew(at) <=> Gap(at))
    BY <1>1, <1>7 DEF NotProbed, Hidden, Anew
  <2>2. state'[t] = advance(old, results[t], at)
    BY <1>7, <2>1 DEF Shown
  <2>3. before \in Seq(Heared) /\ CountedFrom(old, before, last) /\ StateUntil(old, last)
    <3>1. CASE Anew(at)
      BY <1>1, <1>4, <1>5, <2>1, <3>1, NewStateUntil
    <3>2. CASE ~Anew(at)
      BY <1>2, <1>7, <2>1, <3>2 DEF Remaining
    <3> QED
      BY <3>1, <3>2
  <2>4. /\ results[t] = "none" => heard'[t] = before
        /\ results[t] # "none" => heard'[t] = Append(before, [at |-> at, ok |-> results[t]])
    BY <1>3, <1>7
  <2>5. ~Anew(at) => before = heard[t] /\ old = state[t]
    BY <1>7, <2>1 DEF Remaining
  <2>6. Anew(at) => before = <<>>
    OBVIOUS
  <2> HIDE DEF before, old
  <2>7. /\ heard'[t] \in Seq(Heared) /\ CountedFrom(state'[t], heard'[t], at)
        /\ Heeds(old, state'[t], before, heard'[t])
        /\ results[t] = "none" => state'[t] = old
        /\ results[t] # "none" => Longer(heard'[t], before, [at |-> at, ok |-> results[t]])
    <3> DEFINE r == results[t]
               g == heard'[t]
    <3>1. /\ r \in Results /\ state'[t] = advance(old, r, at)
          /\ r = "none" => g = before
          /\ r # "none" => g = Append(before, [at |-> at, ok |-> r])
      BY <1>2, <2>2, <2>4
    <3> HIDE DEF r, g
    <3>2. LET new == advance(old, r, at)
          IN  /\ g \in Seq(Heared) /\ CountedFrom(new, g, at) /\ Heeds(old, new, before, g)
              /\ r = "none" => new = old
              /\ r # "none" => Longer(g, before, [at |-> at, ok |-> r])
      BY <1>1, <2>3, <3>1, Advanced
    <3> QED
      BY <3>1, <3>2 DEF r, g
  <2>8. ASSUME Anew(at)
        PROVE  Len(heard'[t]) \in {0, 1} /\ \A i \in DOMAIN heard'[t] : heard'[t][i].at = at
    <3>1. CASE results[t] = "none"
      BY <1>5, <2>4, <2>6, <2>8, <3>1
    <3>2. CASE results[t] # "none"
      <4>1. Len(heard'[t]) = 1 /\ heard'[t][1] = [at |-> at, ok |-> results[t]]
        BY <1>5, <2>6, <2>7, <2>8, <3>2 DEF Longer
      <4>2. DOMAIN heard'[t] = {1}
        BY <2>7, <4>1
      <4> QED
        BY <4>1, <4>2
    <3> QED
      BY <3>1, <3>2
  <2> QED
    BY <1>2, <1>7, <2>4, <2>5, <2>7, <2>8 DEF at
<1> QED
  BY <1>2, <1>6, <1>7

LEMMA AsHeardNext ==
  ASSUME StatusIInv, AsHeard, NEW results \in [Transports -> Results], Round(results)
  PROVE  AsHeard'
<1>1. \A t \in Transports : CountedFrom(state'[t], heard'[t], last')
                            /\ (t \notin node \/ shown = "no" => heard'[t] = <<>>)
  BY RoundHears
<1>2. targets' = node /\ (shown = "yes" => ~Opened(incidents', {"maintenance"}))
  BY RoundStep
<1>3. shown \in {"yes", "no"}
  BY DEF StatusIInv, StatusTypeOK
<1>4. Opened(incidents, {"maintenance"})' => Opened(incidents', {"maintenance"})
  BY DEF Opened, Open, IsOpen
<1>5. \A t \in Transports : CountedFrom(state[t], heard[t], last)'
  BY <1>1 DEF CountedFrom, Counted, DownBy, RunOf
<1> QED
  BY <1>1, <1>2, <1>3, <1>4, <1>5 DEF AsHeard

LEMMA EvenRound ==
  ASSUME NEW at, NEW results, Listen(at, results), even' = "yes"
  PROVE  /\ (\A t \in node : results[t] = "none") \/ (\A t \in node : results[t] # "none")
         /\ ~Anew(at) => even = "yes"
<1>1. {t \in node : results[t] # "none"} \in {{}, node} /\ (~Anew(at) => even = "yes")
  BY DEF Listen
<1> QED
  BY <1>1

LEMMA InStepNext ==
  ASSUME NEW h \in Seq(Heared), NEW i \in Seq(Heared), InStep(h, i),
         NEW e, NEW f, e.at = f.at, NEW g, Longer(g, h, e), NEW j, Longer(j, i, f)
  PROVE  InStep(g, j)
<1>1. /\ Len(h) \in Nat /\ Len(i) \in Nat /\ Len(g) = Len(h) + 1 /\ Len(j) = Len(i) + 1
      /\ g[Len(h) + 1] = e /\ j[Len(i) + 1] = f
      /\ \A k \in 1 .. Len(h) : g[k] = h[k]
      /\ \A k \in 1 .. Len(i) : j[k] = i[k]
  BY DEF Longer
<1>2. ASSUME NEW k \in 0 .. Len(g) - 1, k < Len(j) PROVE g[Len(g) - k].at = j[Len(j) - k].at
  <2>1. CASE k = 0
    BY <1>1, <2>1
  <2>2. CASE k # 0
    <3>1. /\ k - 1 \in 0 .. Len(h) - 1 /\ k - 1 < Len(i)
          /\ Len(g) - k = Len(h) - (k - 1) /\ Len(j) - k = Len(i) - (k - 1)
          /\ Len(h) - (k - 1) \in 1 .. Len(h) /\ Len(i) - (k - 1) \in 1 .. Len(i)
      BY <1>1, <1>2, <2>2
    <3>2. h[Len(h) - (k - 1)].at = i[Len(i) - (k - 1)].at
      BY <3>1 DEF InStep
    <3> QED
      BY <1>1, <3>1, <3>2
  <2> QED
    BY <2>1, <2>2
<1> QED
  BY <1>2 DEF InStep

LEMMA InStepRound ==
  ASSUME StatusIInv, AsHeard, Settled, NEW results \in [Transports -> Results], Round(results),
         even' = "yes", NEW t \in node, NEW u \in node
  PROVE  InStep(heard'[t], heard'[u])
<1>1. t \in Transports /\ u \in Transports /\ Listen(last', results) /\ last' \in Nat
  BY RoundIs
<1>2. CASE Anew(last')
  <2>1. /\ \A i \in DOMAIN heard'[t] : heard'[t][i].at = last'
        /\ \A i \in DOMAIN heard'[u] : heard'[u][i].at = last'
        /\ heard'[t] \in Seq(Heared) /\ heard'[u] \in Seq(Heared)
    BY <1>1, <1>2, RoundHears
  <2>2. /\ Len(heard'[t]) \in Nat /\ Len(heard'[u]) \in Nat
        /\ DOMAIN heard'[t] = 1 .. Len(heard'[t]) /\ DOMAIN heard'[u] = 1 .. Len(heard'[u])
    BY <2>1
  <2>3. ASSUME NEW k \in 0 .. Len(heard'[t]) - 1, k < Len(heard'[u])
        PROVE  heard'[t][Len(heard'[t]) - k].at = heard'[u][Len(heard'[u]) - k].at
    <3>1. Len(heard'[t]) - k \in DOMAIN heard'[t] /\ Len(heard'[u]) - k \in DOMAIN heard'[u]
      BY <2>2, <2>3
    <3> QED
      BY <2>1, <3>1
  <2> QED
    BY <2>3 DEF InStep
<1>3. CASE ~Anew(last')
  <2>1. InStep(heard[t], heard[u])
    <3>1. even = "yes"
      BY <1>1, <1>3, EvenRound
    <3>2. CASE t \in targets /\ u \in targets
      BY <3>1, <3>2 DEF Settled
    <3>3. CASE t \notin targets \/ u \notin targets
      <4>1. heard[t] = <<>> \/ heard[u] = <<>>
        BY <1>1, <3>3 DEF AsHeard
      <4>2. Len(heard[t]) \in Nat /\ Len(heard[u]) \in Nat /\ Len(<<>>) = 0
        BY <1>1, RoundHears
      <4>3. \A k \in 0 .. Len(heard[t]) - 1 : ~(k < Len(heard[u]))
        BY <4>1, <4>2
      <4> QED
        BY <4>3 DEF InStep
    <3> QED
      BY <3>2, <3>3
  <2>2. CASE \A v \in node : results[v] = "none"
    <3>1. heard'[t] = heard[t] /\ heard'[u] = heard[u]
      BY <1>1, <1>3, <2>2, RoundHears
    <3> QED
      BY <2>1, <3>1
  <2>3. CASE \A v \in node : results[v] # "none"
    <3> DEFINE e == [at |-> last', ok |-> results[t]]
               f == [at |-> last', ok |-> results[u]]
    <3>1. /\ Longer(heard'[t], heard[t], e) /\ Longer(heard'[u], heard[u], f)
          /\ heard[t] \in Seq(Heared) /\ heard[u] \in Seq(Heared)
      BY <1>1, <1>3, <2>3, RoundHears
    <3>2. e.at = f.at
      OBVIOUS
    <3> HIDE DEF e, f
    <3> QED
      BY <2>1, <3>1, <3>2, InStepNext
  <2> QED
    BY <1>1, <2>2, <2>3, EvenRound
<1> QED
  BY <1>2, <1>3

\* Down by the counters is down by what was heard, at the last round and after it as far
\* as that was all; the open incident tells it.
LEMMA TrueNow ==
  ASSUME NEW b \in Nat, NEW rows, Table(rows, b), NEW of, NEW st, NEW h,
         \A t \in of : h[t] \in Seq(Heared) /\ CountedFrom(st[t], h[t], b),
         {t \in of : st[t].downSince # Never} # {} <=> Opened(rows, Faults),
         Fits(rows, {t \in of : st[t].downSince # Never}, of),
         NEW time \in Nat, b <= time
  PROVE  Named(rows, time, {t \in of : DownBy(h[t], time)}, of)
<1> DEFINE down == {t \in of : st[t].downSince # Never}
<1>1. OverBy(rows, b)
  BY DEF Table, OverBy
<1>2. ASSUME NEW t \in of PROVE st[t].downSince # Never <=> DownBy(h[t], time)
  <2>1. h[t] \in Seq(Heared) /\ CountedFrom(st[t], h[t], b)
    OBVIOUS
  <2>2. Timed(h[t], b)
    BY <2>1, TimedIs
  <2>3. DownBy(h[t], time) <=> DownBy(h[t], b)
    BY <2>1, <2>2, DownStays
  <2> QED
    BY <2>1, <2>3 DEF CountedFrom
<1>3. down = {t \in of : DownBy(h[t], time)}
  BY <1>2
<1>4. (down # {} <=> Opened(rows, Faults)) /\ Fits(rows, down, of)
  OBVIOUS
<1> HIDE DEF down
<1>5. Named(rows, time, down, of)
  BY <1>1, <1>4, OpenNamed
<1> QED
  BY <1>3, <1>5

LEMMA WindowIs ==
  ASSUME NEW s \in Nat, NEW l \in Nat, NEW time
  PROVE  time \in Later(s, l - KeepFor) .. l <=>
           time \in Nat /\ s <= time /\ l - KeepFor <= time /\ time <= l
<1>1. KeepFor \in Nat /\ l - KeepFor \in Int
  BY StatusAssumption
<1> QED
  BY <1>1 DEF Later

LEMMA TruthNext ==
  ASSUME since' \in Nat, last' \in Nat,
         even' = "yes" => \A time \in Nat :
           since' <= time /\ last' - KeepFor <= time /\ time <= last' =>
             Named(incidents', time, {t \in targets' : DownBy(heard'[t], time)}, targets')
  PROVE  TellsTheTruth'
<1>1. even' = "yes" => \A time \in Later(since', last' - KeepFor) .. last' :
        Named(incidents', time, {t \in targets' : DownBy(heard'[t], time)}, targets')
  BY WindowIs
<1> QED
  BY <1>1 DEF TellsTheTruth, DownAt, Named, Covering, DownBy, RunOf, Later, Kind

\* A round that begins anew, or probes others than before, has its own time only to tell of.
LEMMA NewTruth ==
  ASSUME TruthIInv, NEW results \in [Transports -> Results], Round(results),
         Anew(last') \/ node # targets
  PROVE  Settled' /\ TellsTheTruth'
<1>1. StatusIInv /\ AsHeard /\ Settled
  BY DEF TruthIInv
<1>2. /\ StatusIInv' /\ AsHeard' /\ targets' = node /\ since' = last' /\ last' \in Nat
      /\ node \in SUBSET Transports
  <2>1. Listen(last', results) /\ last' \in Nat /\ node \in SUBSET Transports
    BY <1>1, RoundIs
  <2> QED
    BY <1>1, <2>1, RoundStep, AsHeardNext DEF Listen
<1>3. Table(incidents', last') /\ \A i \in incidents' : i.from <= since' /\ i.to <= since'
  BY <1>2 DEF StatusIInv, StatusTypeOK, TimesPassed, Table, Chronicle, InOrder, Follows
<1>4. Settled'
  <2>1. ASSUME even' = "yes", NEW t \in targets', NEW u \in targets'
        PROVE  InStep(heard'[t], heard'[u])
    BY <1>1, <1>2, <2>1, InStepRound
  <2> QED
    BY <1>3, <2>1 DEF Settled, InStep
<1>5. TellsTheTruth'
  <2> DEFINE down == {t \in targets' : state'[t].downSince # Never}
  <2>1. (down # {} <=> Opened(incidents', Faults)) /\ Fits(incidents', down, targets')
    BY <1>2 DEF StatusIInv, OpenIsDown, Opened, Open, IsOpen, Fits
  <2>2. \A t \in targets' : heard'[t] \in Seq(Heared) /\ CountedFrom(state'[t], heard'[t], last')
    BY <1>1, <1>2, RoundHears
  <2>3. Named(incidents', last', {t \in targets' : DownBy(heard'[t], last')}, targets')
    BY <1>2, <1>3, <2>1, <2>2, TrueNow
  <2>4. ASSUME NEW time \in Nat, since' <= time, time <= last' PROVE time = last'
    BY <1>2, <2>4
  <2> QED
    BY <1>2, <2>3, <2>4, TruthNext
<1> QED
  BY <1>4, <1>5

-----------------------------------------------------------------------------
(***************************************************************************)
(* The times of the table.                                                 *)
(***************************************************************************)
DatedIn(rows, X) == \A i \in rows : i.from \in X /\ i.to \in X

LEMMA ClosedIs ==
  ASSUME NEW rows, NEW kinds, NEW at, NEW i \in CloseOpen(rows, kinds, at)
  PROVE  \E j \in rows : /\ i.from = j.from
                         /\ i.to = j.to \/ (i.to = at /\ Opened(rows, kinds))
<1> DEFINE open == Open(rows, kinds)
           Closed(j) == [kind |-> j.kind, from |-> j.from, to |-> at, who |-> j.who]
<1>1. CloseOpen(rows, kinds, at) = (rows \ open) \cup {Closed(j) : j \in {j \in open : at > j.from}}
  BY DEF CloseOpen
<1>2. \A j : Closed(j).from = j.from /\ Closed(j).to = at
  OBVIOUS
<1>3. \A j \in open : j \in rows /\ Opened(rows, kinds)
  BY DEF Open, Opened
<1> HIDE DEF Closed, open
<1>4. CASE i \in rows
  BY <1>4
<1>5. CASE i \notin rows
  <2>1. PICK j \in open : i = Closed(j)
    BY <1>1, <1>5
  <2> QED
    BY <1>2, <1>3, <2>1
<1> QED
  BY <1>4, <1>5

\* Closing the maintenance leaves the faults.
LEMMA CloseKeepsFaults ==
  ASSUME NEW rows, NEW at
  PROVE  Open(CloseOpen(rows, {"maintenance"}, at), Faults) = Open(rows, Faults)
<1>1. "maintenance" \notin Faults
  BY DEF Faults
<1> QED
  BY <1>1 DEF CloseOpen, Open, IsOpen

LEMMA LastEndDated ==
  ASSUME NEW b \in Nat, NEW rows, Table(rows, b), NEW X, Never \in X, DatedIn(rows, X)
  PROVE  LastEnd(rows) \in X
<1> DEFINE ends == {Never} \cup {i.to : i \in rows}
<1>1. \A i \in rows : i.to \in 0 .. b
  BY DEF Table, Incident
<1>2. ends \in SUBSET Nat /\ ends # {} /\ (\A e \in ends : e <= b) /\ ends \subseteq X
  BY <1>1 DEF Never, DatedIn
<1>3. LastEnd(rows) = Latest(ends)
  BY DEF LastEnd
<1> HIDE DEF ends
<1> QED
  BY <1>2, <1>3, LatestIs

\* No time comes into the table but those of the transitions.
LEMMA SettleDated ==
  ASSUME NEW b \in Nat, NEW book, Book(book, b), NEW of, NEW at \in 0 .. b,
         NEW X, Never \in X, at \in X, book.floor \in X, DatedIn(book.rows, X)
  PROVE  LET new == settle(book, of, at) IN DatedIn(new.rows, X) /\ new.floor \in X
<1> DEFINE fits == Fits(book.rows, book.down, of)
           rows == IF fits THEN book.rows ELSE CloseOpen(book.rows, Faults, at)
           ends == {Never} \cup {Later(at, i.from) : i \in Open(book.rows, Faults)}
           floor == IF fits THEN book.floor ELSE Later(book.floor, EndOfOpen(book.rows, at))
           starts == book.down # {} /\ ~Opened(rows, Faults)
           kind == Kind(book.down, of)
           begin == BeginsAt(at, floor)
           new == settle(book, of, at)
<1>1. new = [rows |-> IF starts THEN Start(rows, kind, begin, book.down) ELSE rows,
             floor |-> floor, down |-> book.down]
  BY DEF settle
<1>2. \A i \in book.rows : i.from \in Nat /\ i.from <= b /\ i.from \in X /\ i.to \in X
  BY DEF Book, Table, Incident, DatedIn
<1> HIDE DEF fits, starts, new, kind
<1>3. floor \in X
  <2>1. ends \in SUBSET Nat /\ ends # {} /\ (\A e \in ends : e <= b) /\ ends \subseteq X
    <3>1. ASSUME NEW i \in Open(book.rows, Faults)
          PROVE  Later(at, i.from) \in Nat /\ Later(at, i.from) <= b /\ Later(at, i.from) \in X
      BY <1>2 DEF Open, Later
    <3> QED
      BY <3>1 DEF Never
  <2>2. EndOfOpen(book.rows, at) = Latest(ends)
    BY DEF EndOfOpen
  <2> HIDE DEF ends
  <2>3. EndOfOpen(book.rows, at) \in X
    BY <2>1, <2>2, LatestIs
  <2> QED
    BY <2>3 DEF Later
<1>4. DatedIn(rows, X)
  <2>1. CASE fits
    BY <2>1
  <2>2. CASE ~fits
    <3>1. rows = CloseOpen(book.rows, Faults, at)
      BY <2>2
    <3>2. ASSUME NEW i \in rows PROVE i.from \in X /\ i.to \in X
      BY <1>2, <3>1, ClosedIs
    <3> QED
      BY <3>2 DEF DatedIn
  <2> QED
    BY <2>1, <2>2
<1> HIDE DEF rows, floor
<1>5. begin \in X
  BY <1>3 DEF BeginsAt, Later
<1> HIDE DEF begin
<1>6. DatedIn(new.rows, X)
  <2> DEFINE row == [kind |-> kind, from |-> begin, to |-> Never, who |-> book.down]
  <2>1. new.rows = rows \cup {row} \/ new.rows = rows
    BY <1>1 DEF Start
  <2>2. row.from \in X /\ row.to \in X
    BY <1>5
  <2> HIDE DEF row
  <2> QED
    BY <1>4, <2>1, <2>2 DEF DatedIn
<1> QED
  BY <1>1, <1>3, <1>6 DEF new

LEMMA ReplaysDated ==
  ASSUME NEW b \in Nat, NEW S \in SUBSET Transition(b), IsFiniteSet(S),
         \A t, u \in S : t.who = u.who => t = u,
         NEW book, Book(book, b), NEW of,
         NEW X, Never \in X, book.floor \in X, DatedIn(book.rows, X), \A t \in S : t.at \in X
  PROVE  DatedIn(Replays(book, S, of).rows, X)
<1>1. PICK f : Steps(f, S, book, of)
  BY ReplaySteps
<1>2. /\ f[{}] = book /\ Replays(book, S, of) = f[S]
      /\ \A d \in SUBSET S : d # {} =>
           LastOf(d) \in d /\ f[d] = Replayed(f[d \ {LastOf(d)}], LastOf(d), of)
  BY <1>1 DEF Steps
<1>3. \A d \in SUBSET S : Book(f[d], b)
  BY <1>1, StepsBook
<1> DEFINE G == {d \in SUBSET S : DatedIn(f[d].rows, X) /\ f[d].floor \in X}
<1>4. ASSUME NEW d \in SUBSET S, d # {}, d \ {LastOf(d)} \in G PROVE d \in G
  <2> DEFINE t == LastOf(d)
             before == f[d \ {t}]
             noted == Noted(before, t)
  <2>1. t \in d /\ t \in S /\ f[d] = settle(noted, of, t.at)
    BY <1>2, <1>4 DEF Replayed
  <2>2. Book(before, b) /\ DatedIn(before.rows, X) /\ before.floor \in X
    BY <1>3, <1>4
  <2> HIDE DEF t, before
  <2>3. t.at \in X /\ t.at \in 0 .. b /\ t.who \in Transports
    BY <2>1 DEF Transition
  <2>4. /\ noted.rows = before.rows /\ noted.floor = before.floor
        /\ noted.down \in {before.down \cup {t.who}, before.down \ {t.who}}
    BY DEF Noted
  <2> HIDE DEF noted
  <2>5. Book(noted, b)
    BY <2>2, <2>3, <2>4 DEF Book
  <2>6. DatedIn(f[d].rows, X) /\ f[d].floor \in X
    BY <2>1, <2>2, <2>3, <2>4, <2>5, SettleDated
  <2> QED
    BY <2>6
<1>5. G \in SUBSET SUBSET S /\ {} \in G
  BY <1>2
<1>6. \A d \in SUBSET S : d # {} => \E x \in d : d \ {x} \in G => d \in G
  BY <1>2, <1>4
<1> HIDE DEF G
<1>7. \A d \in SUBSET S : d \in G
  BY <1>5, <1>6, OnSubsets
<1> QED
  BY <1>2, <1>7 DEF G

\* A book that is settled is so after its transitions.
LEMMA ReplaysSettled ==
  ASSUME NEW b \in Nat, NEW S \in SUBSET Transition(b), IsFiniteSet(S),
         \A t, u \in S : t.who = u.who => t = u,
         NEW book, Book(book, b), NEW of,
         book.down # {} <=> Opened(book.rows, Faults), Fits(book.rows, book.down, of)
  PROVE  LET new == Replays(book, S, of)
         IN  (new.down # {} <=> Opened(new.rows, Faults)) /\ Fits(new.rows, new.down, of)
<1>1. PICK f : Steps(f, S, book, of)
  BY ReplaySteps
<1>2. f[{}] = book /\ Replays(book, S, of) = f[S]
  BY <1>1 DEF Steps
<1>3. CASE S = {}
  BY <1>2, <1>3
<1>4. CASE S # {}
  <2> DEFINE t == LastOf(S)
             before == f[S \ {t}]
             noted == Noted(before, t)
  <2>1. t \in S /\ f[S] = settle(noted, of, t.at)
    BY <1>1, <1>4 DEF Steps, Replayed
  <2>2. Book(before, b)
    BY <1>1, StepsBook
  <2> HIDE DEF t, before
  <2>3. t.at \in 0 .. b /\ t.who \in Transports
    BY <2>1 DEF Transition
  <2>4. /\ noted.rows = before.rows /\ noted.floor = before.floor
        /\ noted.down \in {before.down \cup {t.who}, before.down \ {t.who}}
    BY DEF Noted
  <2> HIDE DEF noted
  <2>5. Book(noted, b)
    BY <2>2, <2>3, <2>4 DEF Book
  <2> QED
    BY <1>2, <2>1, <2>3, <2>5, SettleBook
<1> QED
  BY <1>3, <1>4

\* A time of the table is settled still with one result more, and no transition that this
\* result reveals is before it.
LEMMA OldDate ==
  ASSUME NEW h \in Seq(Heared), NEW g, NEW e, Longer(g, h, e), NEW time \in Nat,
         time <= e.at, NotAfter(time, h)
  PROVE  /\ NotAfter(time, g)
         /\ \A p \in {FailCount, RecoverCount} : p <= Len(g) => time <= g[Len(g) + 1 - p].at
<1>1. /\ Len(h) \in Nat /\ Len(g) = Len(h) + 1 /\ g \in Seq(Heared) /\ g[Len(h) + 1] = e
      /\ \A i \in 1 .. Len(h) : g[i] = h[i]
  BY DEF Longer
<1>2. DOMAIN h = 1 .. Len(h) /\ DOMAIN g = 1 .. Len(g)
  BY <1>1
<1>3. FailCount \in Nat \ {0} /\ RecoverCount \in Nat \ {0}
  BY StatusAssumption
<1>4. ASSUME NEW j \in 1 .. Len(g), NEW p \in {FailCount, RecoverCount}, j + p >= Len(h) + 2
      PROVE  time <= g[j].at
  <2>1. CASE j = Len(h) + 1
    BY <1>1, <2>1
  <2>2. CASE j # Len(h) + 1
    <3>1. j \in 1 .. Len(h) /\ g[j] = h[j]
      BY <1>1, <2>2
    <3> QED
      BY <1>2, <1>4, <3>1 DEF NotAfter
  <2> QED
    BY <2>1, <2>2
<1>5. NotAfter(time, g)
  <2>1. ASSUME NEW j \in DOMAIN g, NEW p \in {FailCount, RecoverCount}, j + p >= Len(g) + 2
        PROVE  time <= g[j].at
    <3>1. j + p >= Len(h) + 2
      BY <1>1, <1>2, <1>3, <2>1
    <3> QED
      BY <1>2, <1>4, <3>1
  <2> QED
    BY <2>1 DEF NotAfter
<1>6. ASSUME NEW p \in {FailCount, RecoverCount}, p <= Len(g)
      PROVE  time <= g[Len(g) + 1 - p].at
  <2>1. Len(g) + 1 - p \in 1 .. Len(g) /\ (Len(g) + 1 - p) + p >= Len(h) + 2
    BY <1>1, <1>3, <1>6
  <2> QED
    BY <1>4, <2>1
<1> QED
  BY <1>5, <1>6

\* The time of a transition is settled, for all transports whose rounds are the same.
LEMMA NewDate ==
  ASSUME CloseCounts, NEW g \in Seq(Heared), NEW h \in Seq(Heared), NEW b \in Nat, Timed(g, b),
         InStep(h, g), NEW p \in {FailCount, RecoverCount}, p <= Len(g)
  PROVE  NotAfter(g[Len(g) + 1 - p].at, h)
<1>1. Len(g) \in Nat /\ Len(h) \in Nat /\ DOMAIN h = 1 .. Len(h)
  OBVIOUS
<1>2. FailCount \in Nat \ {0} /\ RecoverCount \in Nat \ {0}
  BY StatusAssumption
<1>3. ASSUME NEW j \in 1 .. Len(h), NEW q \in {FailCount, RecoverCount}, j + q >= Len(h) + 2
      PROVE  g[Len(g) + 1 - p].at <= h[j].at
  <2> DEFINE k == Len(h) - j
  <2>1. q <= p + 1
    BY <1>2 DEF CloseCounts
  <2>2. q \in Nat /\ p \in Nat \ {0}
    BY <1>2
  <2>3. /\ k \in 0 .. Len(h) - 1 /\ k < Len(g) /\ Len(h) - k = j
        /\ Len(g) - k \in 1 .. Len(g) /\ Len(g) + 1 - p \in 1 .. Len(g)
        /\ Len(g) + 1 - p <= Len(g) - k
    BY <1>1, <1>3, <2>1, <2>2
  <2> HIDE DEF k
  <2>4. h[j].at = g[Len(g) - k].at
    BY <2>3 DEF InStep
  <2>5. g[Len(g) + 1 - p].at <= g[Len(g) - k].at
    <3>1. CASE Len(g) + 1 - p = Len(g) - k
      BY <2>3, <3>1 DEF Timed
    <3>2. CASE Len(g) + 1 - p < Len(g) - k
      <4>1. /\ g[Len(g) + 1 - p].at < g[Len(g) - k].at
            /\ g[Len(g) + 1 - p].at \in Nat /\ g[Len(g) - k].at \in Nat
        BY <2>3, <3>2 DEF Timed
      <4> QED
        BY <4>1
    <3> QED
      BY <2>2, <2>3, <3>1, <3>2
  <2> QED
    BY <2>4, <2>5
<1> QED
  BY <1>1, <1>3 DEF NotAfter

-----------------------------------------------------------------------------
(***************************************************************************)
(* A round that goes on with the transports of the last one.               *)
(***************************************************************************)
Visible(at) == CloseOpen(incidents, {"maintenance"}, Changed(at))
WasDown == {t \in node : state[t].downSince # Never}
BookOf(at) == [rows |-> Visible(at), floor |-> LastEnd(Visible(at)), down |-> WasDown]
Revealed == Transitions(state, state')

LEMMA GoesOn ==
  ASSUME StatusIInv, NEW results \in [Transports -> Results], Round(results), ~Anew(last')
  PROVE  /\ Book(BookOf(last'), last') /\ Table(Visible(last'), last')
         /\ Revealed \in SUBSET Transition(last') /\ IsFiniteSet(Revealed)
         /\ \A t, u \in Revealed : t.who = u.who => t = u
         /\ incidents' = Purged(Replay(BookOf(last'), Revealed, node, last').rows, last')
         /\ Changed(last') \in 0 .. last'
<1> DEFINE at == last'
           old == [t \in Transports |-> IF Gap(at) THEN NewState ELSE Remaining(t)]
           new == [t \in Transports |->
                     IF t \in node THEN advance(old[t], results[t], at) ELSE NewState]
           book == [rows |-> Visible(at), floor |-> LastEnd(Visible(at)),
                    down |-> {t \in node : old[t].downSince # Never}]
<1>1. /\ last \in Nat /\ at \in Nat /\ last < at /\ Listen(at, results)
      /\ node \in SUBSET Transports /\ (NotProbed(at) \/ Hidden(at) \/ Shown(at, results))
  BY RoundIs
<1> HIDE DEF at
<1>2. Shown(at, results) /\ ~Gap(at) /\ targets' = node
  BY <1>1 DEF Anew, NotProbed, Hidden, Listen, at
<1>3. \A t \in node : old[t] = state[t]
  BY <1>1, <1>2 DEF Remaining
<1>4. state' = new /\ incidents' = Purged(Replay(book, Transitions(old, new), node, at).rows, at)
  BY <1>2 DEF Shown, Visible
<1>5. \A t \in targets' : StateUntil(state'[t], at)
  <2>1. StatusIInv'
    BY RoundStep
  <2> QED
    BY <1>1, <1>2, <2>1 DEF StatusIInv, StatusTypeOK, TimesPassed, StateUntil, at
<1>6. /\ Table(incidents, at) /\ Changed(at) \in 0 .. at
  BY <1>1, RoundStart
<1>7. Table(Visible(at), at) /\ Open(Visible(at), {"maintenance"}) = {}
  BY <1>1, <1>6, CloseRows DEF Visible
<1>8. Transitions(old, new) = Revealed
  <2>1. \A t \in targets' : old[t] = state[t] /\ new[t] = state'[t]
    BY <1>2, <1>3, <1>4
  <2> HIDE DEF old, new
  <2> QED
    BY <2>1 DEF Transitions, Revealed
<1>9. book = BookOf(at)
  BY <1>3 DEF BookOf, WasDown
<1>10. Book(BookOf(at), at)
  <2>1. LastEnd(Visible(at)) \in 0 .. at /\ \A i \in Visible(at) : i.to <= LastEnd(Visible(at))
    BY <1>1, <1>7, LastEndIs
  <2>2. WasDown \in SUBSET Transports
    BY <1>1 DEF WasDown
  <2> QED
    BY <1>7, <2>1, <2>2 DEF Book, BookOf
<1>11. /\ Revealed \in SUBSET Transition(at) /\ IsFiniteSet(Revealed)
       /\ \A t, u \in Revealed : t.who = u.who => t = u
  <2>1. targets' \in SUBSET Transports
    BY <1>1, <1>2
  <2> QED
    BY <1>1, <1>5, <2>1, TransitionsAre DEF Revealed
<1> HIDE DEF book, old, new
<1> QED
  BY <1>4, <1>6, <1>7, <1>8, <1>9, <1>10, <1>11 DEF at

\* What is revealed is dated as heard.
LEMMA RevealedIs ==
  ASSUME StatusIInv, AsHeard, NEW results \in [Transports -> Results], Round(results),
         ~Anew(last'), NEW x \in Revealed
  PROVE  /\ x.who \in node /\ results[x.who] # "none"
         /\ \E p \in {FailCount, RecoverCount} :
              p <= Len(heard'[x.who]) /\ x.at = heard'[x.who][Len(heard'[x.who]) + 1 - p].at
<1>1. targets' = node /\ node \in SUBSET Transports
  BY RoundStep, RoundIs
<1>2. \/ /\ state[x.who].downSince = Never /\ state'[x.who].downSince # Never
         /\ x.at = state'[x.who].downSince /\ x.who \in node
      \/ /\ state[x.who].downSince # Never /\ state'[x.who].downSince = Never
         /\ x.at = state'[x.who].firstOk /\ x.who \in node
  BY <1>1 DEF Revealed, Transitions
<1>3. /\ Heeds(state[x.who], state'[x.who], heard[x.who], heard'[x.who])
      /\ results[x.who] = "none" => state'[x.who] = state[x.who]
  BY <1>1, <1>2, RoundHears
<1> QED
  BY <1>2, <1>3 DEF Heeds

\* What was down before the round, with the transitions up to a time, is what was down then
\* as is known now.
LEMMA RevealedDown ==
  ASSUME StatusIInv, AsHeard, NEW results \in [Transports -> Results], Round(results),
         ~Anew(last'), NEW time \in Nat
  PROVE  Changes({t \in node : DownBy(heard[t], time)}, Reached(Revealed, time))
           = {t \in node : DownBy(heard'[t], time)}
<1> DEFINE was == {t \in node : DownBy(heard[t], time)}
           seen == Reached(Revealed, time)
           fell == {t \in node : /\ state[t].downSince = Never /\ state'[t].downSince # Never
                                 /\ state'[t].downSince <= time}
           rose == {t \in node : /\ state[t].downSince # Never /\ state'[t].downSince = Never
                                 /\ state'[t].firstOk <= time}
<1>1. targets' = node /\ node \in SUBSET Transports
  BY RoundStep, RoundIs
<1>2. \A x : x \in Revealed <=>
        \/ /\ x.who \in node /\ x = [at |-> state'[x.who].downSince, order |-> 1, who |-> x.who]
           /\ state[x.who].downSince = Never /\ state'[x.who].downSince # Never
        \/ /\ x.who \in node /\ x = [at |-> state'[x.who].firstOk, order |-> 0, who |-> x.who]
           /\ state[x.who].downSince # Never /\ state'[x.who].downSince = Never
  BY <1>1 DEF Revealed, Transitions
<1>3. /\ {x.who : x \in {x \in seen : x.order = 1}} = fell
      /\ {x.who : x \in {x \in seen : x.order = 0}} = rose
  <2> USE DEF Reached
  <2> DEFINE Down(t) == [at |-> state'[t].downSince, order |-> 1, who |-> t]
             Up(t) == [at |-> state'[t].firstOk, order |-> 0, who |-> t]
  <2>1. ASSUME NEW t \in fell PROVE Down(t) \in {x \in seen : x.order = 1} /\ Down(t).who = t
    BY <1>2
  <2>2. ASSUME NEW t \in rose PROVE Up(t) \in {x \in seen : x.order = 0} /\ Up(t).who = t
    BY <1>2
  <2>3. ASSUME NEW x \in seen
        PROVE  (x.order = 1 => x.who \in fell) /\ (x.order = 0 => x.who \in rose)
    BY <1>2
  <2> HIDE DEF seen, fell, rose, Down, Up
  <2> QED
    BY <2>1, <2>2, <2>3
<1>4. ASSUME NEW t \in node PROVE DownBy(heard'[t], time) <=> (t \in was \/ t \in fell) /\ t \notin rose
  <2>1. Heeds(state[t], state'[t], heard[t], heard'[t])
    BY <1>1, RoundHears
  <2>2. state'[t].firstOk \in Nat /\ state'[t].downSince \in Nat
    <3>1. StatusIInv'
      BY RoundStep
    <3> QED
      BY <1>1, <3>1 DEF StatusIInv, StatusTypeOK, State
  <2>3. CASE state[t].downSince = Never /\ state'[t].downSince # Never
    BY <2>1, <2>3 DEF Heeds
  <2>4. CASE state[t].downSince # Never /\ state'[t].downSince = Never
    <3>1. DownBy(heard'[t], time) <=> time < state'[t].firstOk /\ DownBy(heard[t], time)
      BY <2>1, <2>4 DEF Heeds
    <3>2. time < state'[t].firstOk <=> ~(state'[t].firstOk <= time)
      BY <2>2
    <3> QED
      BY <2>4, <3>1, <3>2
  <2>5. CASE state[t].downSince = Never <=> state'[t].downSince = Never
    BY <2>1, <2>5 DEF Heeds
  <2> QED
    BY <2>3, <2>4, <2>5
<1> HIDE DEF seen, fell, rose
<1>5. Changes(was, seen) = (was \cup fell) \ rose
  BY <1>2, <1>3 DEF Changes
<1>6. fell \subseteq node
  BY DEF fell
<1> QED
  BY <1>4, <1>5, <1>6 DEF seen

\* The times of which the table may speak.
SettledTimes(of, from, h) == {time \in Nat : \A t \in of : time <= from \/ NotAfter(time, h[t])}

\* A time that was settled, or before counting began, is so still.
LEMMA OldTime ==
  ASSUME StatusIInv, AsHeard, NEW results \in [Transports -> Results], Round(results),
         ~Anew(last'), even' = "yes", NEW time \in SettledTimes(node, since, heard), time <= last'
  PROVE  /\ time \in SettledTimes(node, since, heard')
         /\ \A x \in Revealed : time <= Later(since, x.at)
<1>1. /\ last' \in Nat /\ node \in SUBSET Transports /\ since \in Nat
      /\ (\A t \in node : results[t] = "none") \/ (\A t \in node : results[t] # "none")
  BY RoundIs, EvenRound
<1>2. /\ time \in Nat /\ \A t \in node : time <= since \/ NotAfter(time, heard[t])
  BY DEF SettledTimes
<1>3. \A x \in Revealed : x.who \in node /\ x.at \in Nat
  BY GoesOn, RevealedIs DEF Transition
<1>4. CASE \A t \in node : results[t] = "none"
  <2>1. \A t \in node : heard'[t] = heard[t]
    BY <1>1, <1>4, RoundHears
  <2>2. Revealed = {}
    BY <1>4, RevealedIs
  <2> QED
    BY <1>2, <2>1, <2>2 DEF SettledTimes
<1>5. CASE \A t \in node : results[t] # "none"
  <2>1. ASSUME NEW t \in node, NotAfter(time, heard[t])
        PROVE  /\ NotAfter(time, heard'[t])
               /\ \A p \in {FailCount, RecoverCount} :
                    p <= Len(heard'[t]) => time <= heard'[t][Len(heard'[t]) + 1 - p].at
    <3> DEFINE e == [at |-> last', ok |-> results[t]]
    <3>1. heard[t] \in Seq(Heared) /\ Longer(heard'[t], heard[t], e)
      BY <1>1, <1>5, RoundHears
    <3>2. time <= e.at
      OBVIOUS
    <3> HIDE DEF e
    <3> QED
      BY <1>2, <2>1, <3>1, <3>2, OldDate
  <2>2. time \in SettledTimes(node, since, heard')
    BY <1>2, <2>1 DEF SettledTimes
  <2>3. ASSUME NEW x \in Revealed PROVE time <= Later(since, x.at)
    <3>1. since <= Later(since, x.at) /\ x.at <= Later(since, x.at) /\ Later(since, x.at) \in Nat
      BY <1>1, <1>3, LaterIs
    <3>2. PICK p \in {FailCount, RecoverCount} :
            p <= Len(heard'[x.who]) /\ x.at = heard'[x.who][Len(heard'[x.who]) + 1 - p].at
      BY RevealedIs
    <3>3. CASE time <= since
      BY <1>1, <1>2, <3>1, <3>3
    <3>4. CASE NotAfter(time, heard[x.who])
      <4>1. time <= x.at
        BY <1>3, <2>1, <3>2, <3>4
      <4> QED
        BY <1>2, <1>3, <3>1, <4>1
    <3> QED
      BY <1>2, <1>3, <3>3, <3>4
  <2> QED
    BY <2>2, <2>3
<1> QED
  BY <1>1, <1>4, <1>5

\* The time of what is revealed is settled.
LEMMA NewTime ==
  ASSUME CloseCounts, StatusIInv, AsHeard, Settled,
         NEW results \in [Transports -> Results], Round(results),
         ~Anew(last'), even' = "yes", NEW x \in Revealed
  PROVE  x.at \in SettledTimes(node, since, heard')
<1>1. /\ x.who \in node /\ x.at \in Nat /\ node \in SUBSET Transports /\ last' \in Nat
  BY GoesOn, RevealedIs, RoundIs DEF Transition
<1>2. PICK p \in {FailCount, RecoverCount} :
        p <= Len(heard'[x.who]) /\ x.at = heard'[x.who][Len(heard'[x.who]) + 1 - p].at
  BY RevealedIs
<1>3. ASSUME NEW t \in node PROVE NotAfter(x.at, heard'[t])
  <2>1. /\ heard'[x.who] \in Seq(Heared) /\ heard'[t] \in Seq(Heared)
        /\ CountedFrom(state'[x.who], heard'[x.who], last')
    BY <1>1, RoundHears
  <2>2. Timed(heard'[x.who], last')
    BY <1>1, <2>1, TimedIs
  <2>3. InStep(heard'[t], heard'[x.who])
    BY <1>1, InStepRound
  <2> QED
    BY <1>1, <1>2, <2>1, <2>2, <2>3, NewDate
<1> QED
  BY <1>1, <1>3 DEF SettledTimes

\* All that the round starts from is settled.
LEMMA VisibleDated ==
  ASSUME TruthIInv, NEW results \in [Transports -> Results], Round(results),
         ~Anew(last'), even' = "yes", node = targets
  PROVE  LET X == SettledTimes(node, since, heard')
         IN  /\ Never \in X /\ LastEnd(Visible(last')) \in X /\ DatedIn(Visible(last'), X)
             /\ \A x \in Revealed : /\ OverBy(Visible(last'), Later(since, x.at))
                                    /\ LastEnd(Visible(last')) <= Later(since, x.at)
<1> DEFINE X == {time \in SettledTimes(node, since, heard') :
                   \A x \in Revealed : time <= Later(since, x.at)}
<1>1. StatusIInv /\ AsHeard /\ Settled /\ since <= last
  BY DEF TruthIInv
<1>2. /\ last \in Nat /\ last' \in Nat /\ last < last' /\ node \in SUBSET Transports /\ since \in Nat
      /\ even = "yes" /\ incidents \in SUBSET Incident
      /\ \A i \in incidents : i.from <= last /\ i.to <= last
  <2>1. even = "yes"
    BY <1>1, RoundIs, EvenRound
  <2> QED
    BY <1>1, <2>1, RoundIs DEF StatusIInv, StatusTypeOK, TimesPassed
<1>3. ASSUME NEW time \in SettledTimes(node, since, heard), time <= last' PROVE time \in X
  BY <1>1, <1>3, OldTime
<1>4. ASSUME NEW i \in incidents PROVE i.from \in X /\ i.to \in X
  <2>1. i.from \in Nat /\ i.to \in Nat /\ i.from <= last' /\ i.to <= last'
    BY <1>2 DEF Incident
  <2>2. i.from \in SettledTimes(node, since, heard) /\ i.to \in SettledTimes(node, since, heard)
    BY <1>1, <1>2, <2>1 DEF SettledTimes, Settled
  <2> QED
    BY <1>3, <2>1, <2>2
<1>5. Never \in X
  <2>1. Never \in SettledTimes(node, since, heard) /\ Never <= last'
    BY <1>2 DEF SettledTimes, Never
  <2> QED
    BY <1>3, <2>1
<1>6. ASSUME Opened(incidents, {"maintenance"}) PROVE Changed(last') \in X
  <2>1. \A t \in node : heard[t] = <<>>
    BY <1>1, <1>2, <1>6 DEF AsHeard
  <2>2. \A time : NotAfter(time, <<>>)
    BY DEF NotAfter
  <2>3. Changed(last') \in Nat /\ Changed(last') <= last'
    BY <1>1, <1>2, GoesOn
  <2>4. Changed(last') \in SettledTimes(node, since, heard)
    BY <2>1, <2>2, <2>3 DEF SettledTimes
  <2> QED
    BY <1>3, <2>3, <2>4
<1> HIDE DEF X
<1>7. DatedIn(Visible(last'), X)
  <2>1. ASSUME NEW i \in Visible(last') PROVE i.from \in X /\ i.to \in X
    BY <1>4, <1>6, ClosedIs DEF Visible
  <2> QED
    BY <2>1 DEF DatedIn
<1>8. LastEnd(Visible(last')) \in X
  <2>1. Table(Visible(last'), last')
    BY <1>1, GoesOn
  <2> QED
    BY <1>2, <1>5, <1>7, <2>1, LastEndDated
<1>9. X \subseteq SettledTimes(node, since, heard')
      /\ \A time \in X : \A x \in Revealed : time <= Later(since, x.at)
  BY DEF X
<1>10. \A x \in Revealed : OverBy(Visible(last'), Later(since, x.at))
  BY <1>7, <1>9 DEF OverBy, DatedIn
<1>11. DatedIn(Visible(last'), SettledTimes(node, since, heard'))
  BY <1>7, <1>9 DEF DatedIn
<1> QED
  BY <1>5, <1>8, <1>9, <1>10, <1>11

LEMMA LaterWindow ==
  ASSUME NEW a \in Nat, NEW b \in Nat, a < b, NEW k \in Nat, NEW time \in Nat, b - k <= time
  PROVE  a - k <= time
OBVIOUS

\* The table told the truth of the time since counting began, and tells it of the time
\* until this round by what was heard before it.
LEMMA TrueBefore ==
  ASSUME TruthIInv, NEW results \in [Transports -> Results], Round(results),
         even = "yes", node = targets,
         NEW time \in Nat, since <= time, last' - KeepFor <= time, time <= last'
  PROVE  Named(Visible(last'), time, {t \in node : DownBy(heard[t], time)}, node)
<1> DEFINE down == {t \in node : DownBy(heard[t], time)}
<1>1. StatusIInv /\ AsHeard /\ TellsTheTruth
  BY DEF TruthIInv
<1>2. /\ last \in Nat /\ last' \in Nat /\ last < last' /\ node \in SUBSET Transports /\ since \in Nat
      /\ KeepFor \in Nat
  BY <1>1, RoundIs, StatusAssumption
<1>3. Named(incidents, time, down, node)
  <2>1. CASE time <= last
    <3>1. time \in Later(since, last - KeepFor) .. last
      <4>1. last - KeepFor <= time
        BY <1>2, LaterWindow
      <4> QED
        BY <1>2, <2>1, <4>1, WindowIs
    <3> QED
      BY <1>1, <3>1 DEF TellsTheTruth, DownAt
  <2>2. CASE ~(time <= last)
    <3> DEFINE was == {t \in node : state[t].downSince # Never}
    <3>1. Table(incidents, last)
      BY <1>1 DEF StatusIInv, StatusTypeOK, TimesPassed, Table, Chronicle
    <3>2. \A t \in node : heard[t] \in Seq(Heared) /\ CountedFrom(state[t], heard[t], last)
      BY <1>1, <1>2 DEF StatusIInv, StatusTypeOK, AsHeard, Heared
    <3>3. (was # {} <=> Opened(incidents, Faults)) /\ Fits(incidents, was, node)
      BY <1>1 DEF StatusIInv, OpenIsDown
    <3> QED
      BY <1>2, <2>2, <3>1, <3>2, <3>3, TrueNow
  <2> QED
    BY <2>1, <2>2
<1> HIDE DEF down
<1>4. Covering(Visible(last'), time) = Covering(incidents, time)
  BY CloseOthers DEF Visible
<1> QED
  BY <1>3, <1>4 DEF Named, down

LEMMA SteadyTruth ==
  ASSUME CloseCounts, TruthIInv, NEW results \in [Transports -> Results], Round(results),
         ~Anew(last'), node = targets, even' = "yes"
  PROVE  Settled' /\ TellsTheTruth'
<1> DEFINE at == last'
           book == BookOf(at)
           after == Replays(book, Revealed, node)
           W == {time \in Nat : since <= time /\ at - KeepFor <= time /\ time <= at}
           D == [time \in W |-> {t \in node : DownBy(heard[t], time)}]
           X == SettledTimes(node, since, heard')
<1>1. StatusIInv /\ AsHeard /\ Settled /\ TellsTheTruth
  BY DEF TruthIInv
<1>2. /\ last \in Nat /\ at \in Nat /\ last < at /\ node \in SUBSET Transports /\ since \in Nat
      /\ Listen(at, results) /\ even = "yes"
  <2>1. Listen(last', results)
    BY <1>1, RoundIs
  <2>2. even = "yes"
    BY <2>1, EvenRound
  <2> QED
    BY <1>1, <2>2, RoundIs
<1>3. since' = since /\ targets' = node
  BY <1>2 DEF Listen
<1>4. /\ Book(book, at) /\ Table(Visible(at), at)
      /\ Revealed \in SUBSET Transition(at) /\ IsFiniteSet(Revealed)
      /\ \A t, u \in Revealed : t.who = u.who => t = u
      /\ incidents' = Purged(Replay(book, Revealed, node, at).rows, at)
  BY <1>1, GoesOn
<1>5. book.rows = Visible(at) /\ book.floor = LastEnd(Visible(at)) /\ book.down = WasDown
  BY DEF BookOf
<1>6. (book.down # {} <=> Opened(book.rows, Faults)) /\ Fits(book.rows, book.down, node)
  <2>1. Open(Visible(at), Faults) = Open(incidents, Faults)
    BY CloseKeepsFaults DEF Visible
  <2>2. (WasDown # {} <=> Opened(incidents, Faults)) /\ Fits(incidents, WasDown, node)
    BY <1>1 DEF StatusIInv, OpenIsDown, WasDown
  <2> HIDE DEF book
  <2> QED
    BY <1>5, <2>1, <2>2 DEF Opened, Fits
<1>7. /\ Never \in X /\ book.floor \in X /\ DatedIn(book.rows, X)
      /\ \A x \in Revealed : OverBy(book.rows, Later(since, x.at)) /\ book.floor <= Later(since, x.at)
  <2> HIDE DEF X
  <2>1. LET Y == SettledTimes(node, since, heard')
        IN  /\ Never \in Y /\ LastEnd(Visible(last')) \in Y /\ DatedIn(Visible(last'), Y)
            /\ \A x \in Revealed : /\ OverBy(Visible(last'), Later(since, x.at))
                                   /\ LastEnd(Visible(last')) <= Later(since, x.at)
    BY VisibleDated
  <2> HIDE DEF book
  <2> QED
    BY <1>5, <2>1 DEF X
<1>8. \A time \in W : Named(book.rows, time, D[time], node)
  <2>1. ASSUME NEW time \in W PROVE Named(book.rows, time, D[time], node)
    <3>1. /\ time \in Nat /\ since <= time /\ last' - KeepFor <= time /\ time <= last'
          /\ D[time] = {t \in node : DownBy(heard[t], time)}
      OBVIOUS
    <3> HIDE DEF D, W, book
    <3> QED
      BY <1>2, <1>5, <3>1, TrueBefore
  <2> QED
    BY <2>1
<1>9. \A x \in Revealed : x.at \in X
  BY <1>1, NewTime
<1> HIDE DEF book, X
<1>10. DatedIn(after.rows, X)
  BY <1>2, <1>4, <1>7, <1>9, ReplaysDated
<1>11. \A time \in W : Named(after.rows, time, {t \in node : DownBy(heard'[t], time)}, node)
  <2> DEFINE E == [time \in W |-> {t \in node : DownBy(heard'[t], time)}]
             S == Revealed
  <2>1. W \in SUBSET Nat /\ \A time \in W : since <= time
    OBVIOUS
  <2>2. \A time \in W : /\ D[time] = {t \in node : DownBy(heard[t], time)}
                        /\ E[time] = {t \in node : DownBy(heard'[t], time)}
    OBVIOUS
  <2> HIDE DEF W, D, E
  <2>3. \A time \in W : E[time] = Changes(D[time], Reached(S, time))
    BY <1>1, <2>1, <2>2, RevealedDown
  <2>4. Ready(book, S, since, node) /\ TrueOf(book.rows, W, D, node)
    BY <1>6, <1>7, <1>8 DEF Ready, TrueOf
  <2>5. /\ S \in SUBSET Transition(at) /\ IsFiniteSet(S) /\ \A t, u \in S : t.who = u.who => t = u
        /\ after = Replays(book, S, node)
    BY <1>4
  <2> HIDE DEF S, after
  <2>6. TrueOf(Replays(book, S, node).rows, W, E, node)
    BY <1>2, <1>4, <2>1, <2>3, <2>4, <2>5, ReplaysTruth
  <2> QED
    BY <2>2, <2>5, <2>6 DEF TrueOf
<1>12. Table(after.rows, at) /\ incidents' = Purged(after.rows, at)
  <2>1. Book(after, at)
    BY <1>2, <1>4, ReplaysBook
  <2>2. (after.down # {} <=> Opened(after.rows, Faults)) /\ Fits(after.rows, after.down, node)
    BY <1>2, <1>4, <1>6, ReplaysSettled
  <2>3. Replay(book, Revealed, node, at) = settle(after, node, at)
    BY DEF Replay
  <2> HIDE DEF after
  <2> QED
    BY <1>4, <2>1, <2>2, <2>3, SettledStays DEF Book
<1> HIDE DEF after, D
<1>13. TellsTheTruth'
  <2>1. ASSUME NEW time \in Nat, since <= time, at - KeepFor <= time, time <= at
        PROVE  Named(incidents', time, {t \in node : DownBy(heard'[t], time)}, node)
    <3>1. Covering(incidents', time) = Covering(after.rows, time)
      BY <1>2, <1>12, <2>1, PurgeCovers
    <3>2. Named(after.rows, time, {t \in node : DownBy(heard'[t], time)}, node)
      BY <1>11, <2>1
    <3> QED
      BY <3>1, <3>2 DEF Named
  <2> QED
    BY <1>2, <1>3, <2>1, TruthNext
<1>14. Settled'
  <2>1. ASSUME NEW t \in node, NEW u \in node PROVE InStep(heard'[t], heard'[u])
    BY <1>1, InStepRound
  <2>2. ASSUME NEW i \in incidents', NEW t \in node
        PROVE  /\ i.from <= since \/ NotAfter(i.from, heard'[t])
               /\ i.to <= since \/ NotAfter(i.to, heard'[t])
    <3>1. i \in after.rows
      BY <1>12, <2>2 DEF Purged
    <3>2. i.from \in X /\ i.to \in X
      BY <1>10, <3>1 DEF DatedIn
    <3> QED
      BY <3>2 DEF X, SettledTimes
  <2> QED
    BY <1>3, <2>1, <2>2 DEF Settled, InStep, NotAfter
<1> QED
  BY <1>13, <1>14

LEMMA TruthRound ==
  ASSUME CloseCounts, TruthIInv, NEW results \in [Transports -> Results], Round(results)
  PROVE  TruthIInv'
<1>1. StatusIInv /\ AsHeard /\ since <= last
  BY DEF TruthIInv
<1>2. StatusIInv' /\ AsHeard'
  BY <1>1, RoundStep, AsHeardNext
<1>3. since' <= last'
  <2>1. /\ last \in Nat /\ last' \in Nat /\ last < last' /\ since \in Nat /\ since' \in {last', since}
    BY <1>1, RoundIs DEF Listen
  <2> QED
    BY <1>1, <2>1
<1>4. Settled' /\ TellsTheTruth'
  <2>1. CASE Anew(last') \/ node # targets
    BY <2>1, NewTruth
  <2>2. CASE ~Anew(last') /\ node = targets /\ even' = "yes"
    BY <2>2, SteadyTruth
  <2>3. CASE even' # "yes"
    BY <2>3 DEF Settled, TellsTheTruth
  <2> QED
    BY <2>1, <2>2, <2>3
<1> QED
  BY <1>2, <1>3, <1>4 DEF TruthIInv

LEMMA TruthStored ==
  ASSUME TruthIInv, UNCHANGED stored, StatusIInv'
  PROVE  TruthIInv'
<1>1. /\ last' = last /\ state' = state /\ incidents' = incidents
      /\ targets' = targets /\ heard' = heard /\ since' = since /\ even' = even
  BY DEF stored, ghosts
<1>2. (since <= last)' /\ last' \in Nat /\ since' \in Nat
  BY <1>1 DEF TruthIInv, StatusIInv, StatusTypeOK
<1>3. AsHeard'
  <2>1. /\ \A t \in Transports : CountedFrom(state[t], heard[t], last)
        /\ \A t \in Transports \ targets : heard[t] = <<>>
        /\ Opened(incidents, {"maintenance"}) => \A t \in Transports : heard[t] = <<>>
    BY DEF TruthIInv, AsHeard
  <2>2. \A t \in Transports : CountedFrom(state'[t], heard'[t], last')
    BY <1>1, <2>1
  <2>3. \A t \in Transports \ targets' : heard'[t] = <<>>
    BY <1>1, <2>1
  <2>4. Opened(incidents, {"maintenance"})' => \A t \in Transports : heard'[t] = <<>>
    BY <1>1, <2>1 DEF Opened, Open, IsOpen
  <2>5. \A t \in Transports : CountedFrom(state[t], heard[t], last)'
    BY <2>2 DEF CountedFrom, Counted, DownBy, RunOf
  <2> QED
    BY <2>3, <2>4, <2>5 DEF AsHeard
<1>4. Settled'
  BY <1>1 DEF TruthIInv, Settled, InStep, NotAfter
<1>5. TellsTheTruth'
  <2>1. ASSUME even = "yes", NEW time \in Nat, since <= time, last - KeepFor <= time, time <= last
        PROVE  Named(incidents, time, {t \in targets : DownBy(heard[t], time)}, targets)
    <3>1. time \in Later(since, last - KeepFor) .. last
      BY <1>1, <1>2, <2>1, WindowIs
    <3> QED
      BY <2>1, <3>1 DEF TruthIInv, TellsTheTruth, DownAt
  <2> QED
    BY <1>1, <1>2, <2>1, TruthNext
<1> QED
  BY <1>2, <1>3, <1>4, <1>5 DEF TruthIInv

LEMMA TruthBegins == ASSUME StatusInit PROVE TruthIInv
<1>1. StatusIInv
  BY StatusBegins
<1>2. since <= last
  BY DEF StatusInit, Never
<1>3. AsHeard
  <2>1. \A t \in Transports : CountedFrom(NewState, <<>>, 0)
    BY NewCounted
  <2> QED
    BY <2>1 DEF StatusInit, AsHeard, Never
<1>4. Settled
  BY DEF StatusInit, Settled
<1>5. TellsTheTruth
  <2>1. \A time : Named({}, time, {}, {})
    BY DEF Named, Covering
  <2> QED
    BY <2>1 DEF StatusInit, TellsTheTruth
<1> QED
  BY <1>1, <1>2, <1>3, <1>4, <1>5 DEF TruthIInv

\* The invariant of what the incidents tell, for any counts that differ by one at most: the
\* counters are what was heard, and nothing in the table is later than what may still be
\* found to have begun.
THEOREM TruthInvariance == ASSUME CloseCounts PROVE DocSpec => []TruthIInv
<1>1. DocInit => TruthIInv
  BY TruthBegins DEF DocInit
<1>2. TruthIInv /\ [DocNext]_allVars => TruthIInv'
  <2> SUFFICES ASSUME TruthIInv, [DocNext]_allVars PROVE TruthIInv'
    OBVIOUS
  <2>1. /\ now \in Nat /\ node \in SUBSET Transports /\ shown \in {"yes", "no"}
        /\ changedAt \in Nat /\ upsets \in Nat /\ changedAt <= now /\ StatusIInv
    BY DEF TruthIInv, StatusIInv, StatusTypeOK, TimesPassed
  <2>2. ASSUME NEW results \in [Transports -> Results], StoreRound(results) PROVE TruthIInv'
    BY <2>2, TruthRound DEF StoreRound
  <2>3. CASE Publish \/ UNCHANGED allVars
    <3>1. UNCHANGED statusVars
      BY <2>3 DEF Publish, allVars
    <3>2. StatusIInv' /\ UNCHANGED stored
      BY <2>1, <3>1, StoredStep DEF statusVars, display
    <3> QED
      BY <3>2, TruthStored
  <2>4. CASE Cut
    <3>1. StatusIInv' /\ UNCHANGED stored
      BY <2>1, <2>4, StoredStep DEF Cut, Upset, display
    <3> QED
      BY <3>1, TruthStored
  <2>5. CASE Around
    <3>1. StatusIInv' /\ UNCHANGED stored
      BY <2>1, <2>5, AroundStep DEF Around
    <3> QED
      BY <3>1, TruthStored
  <2> QED
    BY <2>2, <2>3, <2>4, <2>5 DEF DocNext
<1> QED
  BY <1>1, <1>2, PTL DEF DocSpec

\* At every moment since counting began the incident that covers it names exactly the
\* transports that were down then, as known now: outages dated back, a recovery and a failure
\* revealed in one round, in whatever order (record_round, settle).
THEOREM IncidentsTellTheTruth == ASSUME CloseCounts PROVE DocSpec => []TellsTheTruth
<1>1. TruthIInv => TellsTheTruth
  BY DEF TruthIInv
<1> QED
  BY <1>1, TruthInvariance, PTL

-----------------------------------------------------------------------------
(***************************************************************************)
(* The days of the document: what a sum over incidents counts.             *)
(***************************************************************************)
Chosen(rows) == CHOOSE i \in rows : TRUE

AddedTo(f, rows, lo, hi, at) ==
  IF rows = {} THEN 0
  ELSE Lasted(Chosen(rows), lo, hi, at) + f[rows \ {Chosen(rows)}]

IsSum(f, dom, lo, hi, at) == f = [rows \in dom |-> AddedTo(f, rows, lo, hi, at)]

Total(rows, lo, hi, at) == MapThenSumSet(LAMBDA i : Lasted(i, lo, hi, at), rows)

LEMMA SumExists ==
  ASSUME NEW S, IsFiniteSet(S), NEW lo, NEW hi, NEW at
  PROVE  \E f : IsSum(f, SUBSET S, lo, hi, at)
<1> DEFINE Dom(n) == {d \in SUBSET S : Cardinality(d) <= n}
           T == {n \in Nat : \E f : IsSum(f, Dom(n), lo, hi, at)}
<1>1. ASSUME NEW d \in SUBSET S
      PROVE  /\ IsFiniteSet(d) /\ Cardinality(d) \in Nat /\ Cardinality(d) <= Cardinality(S)
             /\ d # {} => /\ d \ {Chosen(d)} \in SUBSET S
                          /\ Cardinality(d \ {Chosen(d)}) = Cardinality(d) - 1
  <2>1. /\ IsFiniteSet(d) /\ Cardinality(d) \in Nat /\ Cardinality(d) <= Cardinality(S)
    BY FS_Subset, FS_CardinalityType
  <2>2. ASSUME d # {} PROVE Chosen(d) \in d
    BY <2>2 DEF Chosen
  <2> QED
    BY <2>1, <2>2, FS_RemoveElement
<1>2. \A d \in SUBSET S : IsFiniteSet(d) /\ Cardinality(d) \in Nat
  BY <1>1
<1>3. 0 \in T
  <2> DEFINE f == [d \in Dom(0) |-> 0]
  <2>1. ASSUME NEW d \in Dom(0) PROVE d = {}
    <3>1. d \in SUBSET S /\ Cardinality(d) <= 0
      OBVIOUS
    <3>2. IsFiniteSet(d) /\ Cardinality(d) = 0
      BY <1>2, <3>1
    <3> QED
      BY <3>2, FS_EmptySet
  <2>2. f = [d \in Dom(0) |-> AddedTo(f, d, lo, hi, at)]
    BY <2>1 DEF AddedTo
  <2> QED
    BY <2>2 DEF IsSum
<1>4. ASSUME NEW n \in T PROVE n + 1 \in T
  <2>1. PICK f : IsSum(f, Dom(n), lo, hi, at)
    OBVIOUS
  <2> DEFINE g == [d \in Dom(n + 1) |-> AddedTo(f, d, lo, hi, at)]
  <2>2. n \in Nat
    OBVIOUS
  <2>3. ASSUME NEW d \in Dom(n) PROVE d \in Dom(n + 1) /\ g[d] = f[d]
    <3>1. d \in SUBSET S /\ Cardinality(d) <= n
      OBVIOUS
    <3>2. Cardinality(d) <= n + 1
      BY <1>2, <2>2, <3>1
    <3>3. d \in Dom(n + 1)
      BY <3>1, <3>2
    <3>4. f[d] = AddedTo(f, d, lo, hi, at)
      BY <2>1 DEF IsSum
    <3> QED
      BY <3>3, <3>4
  <2>4. ASSUME NEW d \in Dom(n + 1), d # {} PROVE d \ {Chosen(d)} \in Dom(n)
    <3>1. d \in SUBSET S /\ Cardinality(d) <= n + 1
      OBVIOUS
    <3>2. Cardinality(d) \in Nat /\ d \ {Chosen(d)} \in SUBSET S
          /\ Cardinality(d \ {Chosen(d)}) = Cardinality(d) - 1
      BY <1>1, <2>4, <3>1
    <3> QED
      BY <2>2, <3>1, <3>2
  <2> HIDE DEF Dom
  <2>5. ASSUME NEW d \in Dom(n + 1) PROVE AddedTo(f, d, lo, hi, at) = AddedTo(g, d, lo, hi, at)
    BY <2>3, <2>4 DEF AddedTo
  <2>6. IsSum(g, Dom(n + 1), lo, hi, at)
    BY <2>5 DEF IsSum
  <2> QED
    BY <2>2, <2>6
<1>5. T \in SUBSET Nat
  OBVIOUS
<1> HIDE DEF T
<1>6. T = Nat
  BY <1>3, <1>4, <1>5, Induct
<1>7. Cardinality(S) \in T
  BY <1>6, FS_CardinalityType
<1>8. Dom(Cardinality(S)) = SUBSET S
  BY <1>1
<1> QED
  BY <1>7, <1>8 DEF T

LEMMA SumSteps ==
  ASSUME NEW S, IsFiniteSet(S), NEW lo, NEW hi, NEW at
  PROVE  \E f : /\ Total(S, lo, hi, at) = f[S]
                /\ \A d \in SUBSET S : f[d] = AddedTo(f, d, lo, hi, at)
<1> DEFINE f == CHOOSE g : IsSum(g, SUBSET S, lo, hi, at)
<1>1. IsSum(f, SUBSET S, lo, hi, at)
  BY SumExists
<1>2. Total(S, lo, hi, at) = f[S]
  BY DEF Total, MapThenSumSet, MapThenFoldSet, IsSum, AddedTo, Chosen
<1> HIDE DEF f
<1>3. \A d \in SUBSET S : f[d] = AddedTo(f, d, lo, hi, at)
  BY <1>1 DEF IsSum
<1> QED
  BY <1>2, <1>3

\* The moments of a stretch of time that some of the rows cover.
Moments(rows, lo, hi, at) ==
  {time \in lo .. hi - 1 :
     time < Horizon(at) /\ \E i \in rows : i.from <= time /\ (i.to = Never \/ time < i.to)}

LEMMA LastedMoments ==
  ASSUME NEW i \in Incident, NEW lo \in Nat, NEW hi \in Nat, NEW at, Horizon(at) \in Nat
  PROVE  /\ IsFiniteSet(Moments({i}, lo, hi, at))
         /\ Lasted(i, lo, hi, at) = Cardinality(Moments({i}, lo, hi, at))
<1> DEFINE begin == Later(i.from, lo)
           end == Earlier(IF i.to = Never THEN Horizon(at) ELSE i.to, Earlier(hi, Horizon(at)))
<1>1. i.from \in Nat /\ i.to \in Nat
  BY DEF Incident
<1>2. begin \in Nat /\ end \in Nat
  BY <1>1 DEF Later, Earlier
<1>3. Moments({i}, lo, hi, at) = begin .. end - 1
  <2>1. ASSUME NEW time \in Int
        PROVE  time \in Moments({i}, lo, hi, at) <=> begin <= time /\ time <= end - 1
    BY <1>1 DEF Moments, Later, Earlier
  <2>2. Moments({i}, lo, hi, at) \subseteq Int
    BY DEF Moments
  <2> HIDE DEF begin, end
  <2>3. \A time \in Int : time \in begin .. end - 1 <=> begin <= time /\ time <= end - 1
    BY <1>2
  <2>4. begin .. end - 1 \subseteq Int
    BY <1>2
  <2> QED
    BY <2>1, <2>2, <2>3, <2>4
<1>4. Lasted(i, lo, hi, at) = IF end > begin THEN end - begin ELSE 0
  BY DEF Lasted, overlap
<1> HIDE DEF begin, end
<1>5. begin \in Int /\ end - 1 \in Int
  BY <1>2
<1>6. /\ IsFiniteSet(begin .. end - 1)
      /\ Cardinality(begin .. end - 1) = IF begin > end - 1 THEN 0 ELSE end - 1 - begin + 1
  BY <1>5, FS_Interval
<1> QED
  BY <1>2, <1>3, <1>4, <1>6

\* Rows in order cover no moment twice, so the sum of their times is the number of moments
\* they cover together.
LEMMA TotalMoments ==
  ASSUME NEW S \in SUBSET Incident, IsFiniteSet(S), InOrder(S), NEW lo \in Nat, NEW hi \in Nat,
         NEW at, Horizon(at) \in Nat
  PROVE  Total(S, lo, hi, at) = Cardinality(Moments(S, lo, hi, at))
<1> DEFINE M(rows) == Moments(rows, lo, hi, at)
<1>1. PICK f : /\ Total(S, lo, hi, at) = f[S]
               /\ \A d \in SUBSET S : f[d] = AddedTo(f, d, lo, hi, at)
  BY SumSteps
<1> DEFINE G == {d \in SUBSET S : IsFiniteSet(M(d)) /\ f[d] = Cardinality(M(d))}
<1>2. {} \in G
  <2>1. M({}) = {}
    BY DEF Moments
  <2>2. f[{}] = 0
    BY <1>1 DEF AddedTo
  <2> QED
    BY <2>1, <2>2, FS_EmptySet
<1>3. ASSUME NEW d \in SUBSET S, d # {}, d \ {Chosen(d)} \in G PROVE d \in G
  <2> DEFINE i == Chosen(d)
             others == d \ {i}
  <2>1. i \in d /\ i \in Incident
    BY <1>3 DEF Chosen
  <2>2. f[d] = Lasted(i, lo, hi, at) + f[others]
    BY <1>1, <1>3 DEF AddedTo
  <2>3. IsFiniteSet(M({i})) /\ Lasted(i, lo, hi, at) = Cardinality(M({i}))
    BY <2>1, LastedMoments
  <2>4. IsFiniteSet(M(others)) /\ f[others] = Cardinality(M(others))
    BY <1>3
  <2> HIDE DEF i
  <2>5. M(d) = M(others) \cup M({i})
    BY <2>1 DEF Moments
  <2>6. M(others) \cap M({i}) = {}
    <3>1. ASSUME NEW time \in M(others) \cap M({i}) PROVE FALSE
      <4>1. PICK j \in others : j.from <= time /\ (j.to = Never \/ time < j.to)
        BY DEF Moments
      <4>2. i.from <= time /\ (i.to = Never \/ time < i.to) /\ time \in lo .. hi - 1
        BY DEF Moments
      <4>3. j \in S /\ i \in S /\ i # j
        BY <2>1
      <4>4. i.from \in Nat /\ i.to \in Nat /\ j.from \in Nat /\ j.to \in Nat /\ time \in Int
        BY <4>2, <4>3 DEF Incident
      <4>5. Follows(i, j) \/ Follows(j, i)
        BY <4>3 DEF InOrder
      <4> QED
        BY <4>1, <4>2, <4>4, <4>5 DEF Follows
    <3> QED
      BY <3>1
  <2> DEFINE A == M(others)
             B == M({i})
  <2>7. IsFiniteSet(A) /\ IsFiniteSet(B) /\ A \cap B = {} /\ M(d) = A \cup B
    BY <2>3, <2>4, <2>5, <2>6
  <2> HIDE DEF A, B
  <2>8. /\ IsFiniteSet(A \cup B)
         /\ Cardinality(A \cup B) = Cardinality(A) + Cardinality(B) - Cardinality(A \cap B)
    BY <2>7, FS_Union
  <2>9. /\ IsFiniteSet(M(d))
        /\ Cardinality(M(d)) = Cardinality(M(others)) + Cardinality(M({i})) - Cardinality({})
    BY <2>7, <2>8 DEF A, B
  <2>10. Cardinality(M(others)) \in Nat /\ Cardinality(M({i})) \in Nat /\ Cardinality({}) = 0
    BY <2>3, <2>4, FS_CardinalityType, FS_EmptySet
  <2>11. f[d] = Cardinality(M(d))
    BY <2>2, <2>3, <2>4, <2>9, <2>10
  <2> QED
    BY <2>9, <2>11
<1> HIDE DEF G
<1>4. \A d \in SUBSET S : d # {} => Chosen(d) \in d
  BY DEF Chosen
<1>5. G \in SUBSET SUBSET S
  BY DEF G
<1>6. \A d \in SUBSET S : d # {} => \E x \in d : d \ {x} \in G => d \in G
  BY <1>3, <1>4
<1>7. \A d \in SUBSET S : d \in G
  BY <1>2, <1>5, <1>6, OnSubsets
<1> QED
  BY <1>1, <1>7 DEF G

\* The incidents of a table in order are as many as the times they begin at.
LEMMA RowsAreFinite ==
  ASSUME NEW b \in Nat, NEW rows, Table(rows, b)
  PROVE  IsFiniteSet(rows)
<1> DEFINE f == [i \in rows |-> i.from]
<1>1. f \in [rows -> 0 .. b]
  BY DEF Table, Incident
<1>2. ASSUME NEW i \in rows, NEW j \in rows, f[i] = f[j] PROVE i = j
  <2>1. i.from \in Nat /\ j.from \in Nat /\ i.to \in Nat /\ j.to \in Nat /\ i.from = j.from
    BY <1>2 DEF Table, Incident
  <2>2. i.to # Never => i.from < i.to
    BY DEF Table, InOrder
  <2>3. j.to # Never => j.from < j.to
    BY DEF Table, InOrder
  <2>4. i = j \/ Follows(i, j) \/ Follows(j, i)
    BY DEF Table, InOrder
  <2> QED
    BY <2>1, <2>2, <2>3, <2>4 DEF Follows
<1>3. f \in Injection(rows, 0 .. b)
  BY <1>1, <1>2 DEF Injection, IsInjective
<1>4. IsFiniteSet(0 .. b)
  BY FS_Interval
<1> HIDE DEF f
<1> QED
  BY <1>3, <1>4, FS_Injection

\* After the last round the table and what was heard say what they say of it.
LEMMA TruthSince ==
  ASSUME TruthIInv, NEW time \in Nat, last <= time
  PROVE  /\ Covering(incidents, time) = Covering(incidents, last)
         /\ \A t \in targets : DownAt(t, time) <=> DownAt(t, last)
<1>1. /\ last \in Nat /\ incidents \subseteq Incident
      /\ \A i \in incidents : i.from <= last /\ i.to <= last
  BY DEF TruthIInv, StatusIInv, StatusTypeOK, TimesPassed
<1>2. ASSUME NEW i \in incidents
      PROVE  i \in Covering(incidents, time) <=> i \in Covering(incidents, last)
  <2>1. i.from \in Nat /\ i.to \in Nat /\ i.from <= last /\ i.to <= last
    BY <1>1 DEF Incident
  <2> QED
    BY <1>1, <2>1 DEF Covering
<1>3. ASSUME NEW t \in targets PROVE DownAt(t, time) <=> DownAt(t, last)
  <2>1. t \in Transports /\ heard[t] \in Seq(Heared)
    BY DEF TruthIInv, StatusIInv, StatusTypeOK, Heared
  <2>2. CountedFrom(state[t], heard[t], last)
    BY <2>1 DEF TruthIInv, AsHeard
  <2>3. Timed(heard[t], last)
    BY <1>1, <2>1, <2>2, TimedIs
  <2> QED
    BY <1>1, <2>1, <2>3, DownStays DEF DownAt
<1> QED
  BY <1>2, <1>3 DEF Covering

\* The moments of a stretch that begins on the page and since counting began are named.
LEMMA TruthOnPage ==
  ASSUME TruthIInv, even = "yes", NEW time \in Nat, since <= time, last - KeepFor <= time
  PROVE  Named(incidents, time, {t \in targets : DownAt(t, time)}, targets)
<1>1. last \in Nat /\ since \in Nat /\ KeepFor \in Nat
  BY StatusAssumption DEF TruthIInv, StatusIInv, StatusTypeOK
<1>2. CASE time <= last
  <2>1. time \in Later(since, last - KeepFor) .. last
    BY <1>1, <1>2 DEF Later
  <2> QED
    BY <2>1 DEF TruthIInv, TellsTheTruth
<1>3. CASE last < time
  <2>1. last \in Later(since, last - KeepFor) .. last
    BY <1>1 DEF Later, TruthIInv
  <2>2. Named(incidents, last, {t \in targets : DownAt(t, last)}, targets)
    BY <2>1 DEF TruthIInv, TellsTheTruth
  <2>3. {t \in targets : DownAt(t, time)} = {t \in targets : DownAt(t, last)}
        /\ Covering(incidents, time) = Covering(incidents, last)
    BY <1>1, <1>3, TruthSince
  <2> QED
    BY <2>2, <2>3 DEF Named
<1> QED
  BY <1>1, <1>2, <1>3

LEMMA OneCovers ==
  ASSUME NEW rows \in SUBSET Incident, InOrder(rows), NEW time \in Nat,
         NEW i \in Covering(rows, time), NEW j \in Covering(rows, time)
  PROVE  i = j
<1>1. /\ i \in rows /\ j \in rows
      /\ i.from <= time /\ (i.to = Never \/ time < i.to)
      /\ j.from <= time /\ (j.to = Never \/ time < j.to)
  BY DEF Covering
<1>2. i.from \in Nat /\ j.from \in Nat /\ i.to \in Nat /\ j.to \in Nat
  BY <1>1 DEF Incident
<1>3. i = j \/ Follows(i, j) \/ Follows(j, i)
  BY <1>1 DEF InOrder
<1> QED
  BY <1>1, <1>2, <1>3 DEF Follows

\* The days of the page begin on it, and not before what is kept.
LEMMA DayOnPage ==
  ASSUME NEW m \in Nat, NEW n \in Nat, m <= n, NEW d \in DaysShown(n)
  PROVE  /\ d \in Nat /\ d * DayLength \in Nat /\ (d + 1) * DayLength \in Nat
         /\ WindowStart(n) \in Int /\ WindowStart(n) <= d * DayLength
         /\ m - KeepFor <= d * DayLength
<1>1. DayLength \in Nat \ {0} /\ ShowDays \in Nat \ {0} /\ KeepFor \in Nat
  BY DocumentAssumption, StatusAssumption
<1>2. Day(n) \in Nat
  BY <1>1, Quotient DEF Day
<1>3. d \in Nat /\ d + ShowDays > Day(n)
  BY <1>2 DEF DaysShown
<1>4. d * DayLength \in Nat /\ (d + 1) * DayLength \in Nat
  BY <1>1, <1>3
<1>5. Day(n) + 1 - ShowDays \in Int /\ Day(n) + 1 - ShowDays <= d
  BY <1>1, <1>2, <1>3
<1>6. WindowStart(n) <= d * DayLength
  BY <1>1, <1>3, <1>5, Product DEF WindowStart
<1>7. WindowStart(n) \in Int /\ n - KeepFor <= WindowStart(n)
  BY WindowMoves
<1> QED
  BY <1>1, <1>3, <1>4, <1>6, <1>7

LEMMA SecondsAre ==
  ASSUME NEW d, NEW at, NEW kind \in Faults
  PROVE  Seconds(d, at)[kind] =
           Total({i \in InWindow(at) : i.kind = kind}, d * DayLength, (d + 1) * DayLength, at)
<1>1. kind \in Kinds
  BY DEF Kinds
<1> QED
  BY <1>1 DEF Seconds, Total, MapThenSumSet, MapThenFoldSet

LEMMA DaysFollow == ASSUME TruthIInv PROVE DaysTellTheTruth
<1> DEFINE page == build_document(node, now)
           watched == IF now > last + 3 * Interval THEN last + Interval ELSE now
           Down(time) == {t \in node : DownAt(t, time)}
<1> SUFFICES ASSUME even = "yes", node = targets, node # {},
                    NEW d \in DOMAIN page.days, NEW kind \in Faults, d * DayLength >= since
             PROVE  page.days[d].seconds[kind] =
                      Cardinality({time \in d * DayLength .. (d + 1) * DayLength - 1 :
                        time < watched /\ Down(time) # {} /\ Kind(Down(time), node) = kind})
  BY DEF DaysTellTheTruth
<1>1. /\ last \in Nat /\ now \in Nat /\ last <= now /\ since \in Nat /\ Interval \in Nat
      /\ incidents \in SUBSET Incident /\ InOrder(incidents) /\ Table(incidents, last)
  BY StatusAssumption
     DEF TruthIInv, StatusIInv, StatusTypeOK, TimesPassed, Chronicle, Table
<1>2. page.days = [day \in DaysShown(now) |-> Cell(day, now)]
  BY DEF build_document
<1>3. Horizon(now) = watched /\ watched \in Nat
  BY <1>1 DEF Horizon, Earlier
<1> HIDE DEF page, watched
<1>4. d \in DaysShown(now)
  BY <1>2
<1> DEFINE lo == d * DayLength
           hi == (d + 1) * DayLength
           R == {i \in InWindow(now) : i.kind = kind}
           Times == {time \in lo .. hi - 1 :
                       time < watched /\ Down(time) # {} /\ Kind(Down(time), node) = kind}
<1>5. /\ lo \in Nat /\ hi \in Nat /\ WindowStart(now) \in Int /\ WindowStart(now) <= lo
      /\ last - KeepFor <= lo /\ since <= lo
  BY <1>1, <1>4, DayOnPage
<1>6. page.days[d].seconds[kind] = Total(R, lo, hi, now)
  BY <1>2, SecondsAre DEF Cell
<1>7. R \in SUBSET Incident /\ IsFiniteSet(R) /\ InOrder(R)
  <2>1. IsFiniteSet(incidents) /\ R \subseteq incidents
    BY <1>1, RowsAreFinite DEF InWindow
  <2> QED
    BY <1>1, <2>1, FS_Subset DEF InOrder
<1> HIDE DEF lo, hi
<1>8. ASSUME NEW time \in lo .. hi - 1
      PROVE  (\E i \in R : i.from <= time /\ (i.to = Never \/ time < i.to))
               <=> Down(time) # {} /\ Kind(Down(time), node) = kind
  <2>1. time \in Nat /\ lo <= time
    BY <1>5
  <2>2. Named(incidents, time, Down(time), node)
    <3>1. since <= time /\ last - KeepFor <= time
      BY <1>1, <1>5, <2>1, StatusAssumption
    <3> QED
      BY <2>1, <3>1, TruthOnPage
  <2> HIDE DEF Down
  <2>3. ASSUME NEW i \in R, i.from <= time, i.to = Never \/ time < i.to
        PROVE  Down(time) # {} /\ Kind(Down(time), node) = kind
    <3>1. i \in Covering(incidents, time) /\ i.kind = kind
      BY <2>3 DEF InWindow, Covering
    <3>2. PICK j \in Covering(incidents, time) : j.kind = Kind(Down(time), node)
      BY <2>2, <3>1 DEF Named
    <3>3. i = j
      BY <1>1, <2>1, <3>1, OneCovers
    <3> QED
      BY <2>2, <3>1, <3>2, <3>3 DEF Named
  <2>4. ASSUME Down(time) # {}, Kind(Down(time), node) = kind
        PROVE  \E i \in R : i.from <= time /\ (i.to = Never \/ time < i.to)
    <3>1. PICK i \in Covering(incidents, time) : i.kind = kind
      BY <2>2, <2>4 DEF Named
    <3>2. i \in incidents /\ i.from <= time /\ (i.to = Never \/ time < i.to) /\ i.to \in Nat
      BY <1>1, <3>1 DEF Covering, Incident
    <3>3. i \in R
      BY <1>5, <2>1, <3>1, <3>2 DEF InWindow
    <3> QED
      BY <3>2, <3>3
  <2> QED
    BY <2>3, <2>4
<1>9. Moments(R, lo, hi, now) = Times
  BY <1>3, <1>8 DEF Moments
<1>10. Total(R, lo, hi, now) = Cardinality(Moments(R, lo, hi, now))
  BY <1>3, <1>5, <1>7, TotalMoments
<1> QED
  BY <1>6, <1>9, <1>10 DEF lo, hi

\* The time that a day on the page is in outage or in partial outage is the time for which
\* all or some transports were down, as known now, for any lengths of a day and counts that
\* differ by one at most (build_document).
THEOREM DaysOnThePageTellTheTruth == ASSUME CloseCounts PROVE DocSpec => []DaysTellTheTruth
<1>1. TruthIInv => DaysTellTheTruth
  BY DaysFollow
<1> QED
  BY <1>1, TruthInvariance, PTL
=============================================================================
