----------------------------- MODULE EgressPool -----------------------------
(***************************************************************************)
(* The pool of proxy egress behind the admin pages: console/egress_web.py  *)
(* and the tables of console/egress.py, for one node.                      *)
(*                                                                         *)
(* The handlers of the pages are coroutines of one event loop: one runs    *)
(* until it awaits the test of a form's rules or the check of an egress,   *)
(* and others run meanwhile.  The form of a scheme is awaited inside a     *)
(* transaction, so that the database is locked meanwhile; a handler that   *)
(* writes then waits for the lock with the loop in its hands, until        *)
(* SQLite's busy timeout.  The status service checks the egress that no    *)
(* assignment uses from a thread of another process.  What a node's agent  *)
(* does with its plan, and its own checks, are EgressApply.                *)
(*                                                                         *)
(* Rows are never used again under the same number.  The users and         *)
(* websites an assignment takes (EgressApply: its match), the network      *)
(* "tcp-block-udp", priorities, labels and notes are left out.             *)
(***************************************************************************)
EXTENDS Naturals, FiniteSets

CONSTANTS
  Egresses, Schemes, Rows,          \* numbers of rows
  Requests,                         \* handlers that may wait at the same time
  None, Deleted,                    \* no row yet, or none any more
  MaxRequests                       \* bound: requests to the pages

ASSUME PoolAssumption ==
  /\ {None, Deleted} \cap (Rows \cup Schemes \cup Egresses \cup Requests) = {}
  /\ {None, Deleted} \cap [net : {"tcp", "tcp,udp"}, fails : {"direct", "block"}] = {}
  /\ {None, Deleted} \cap [version : Nat, on : BOOLEAN] = {}
  /\ MaxRequests \in Nat

VARIABLES
  egress,     \* rows: [version, on]; None while unused, Deleted afterwards
  schemes,    \* egress_scheme: [net, fails]
  assigned,   \* egress_assignment: [egress, scheme, net, fails, on]
  found,      \* egress_check of this host: [udp, of, fresh]
  pc, job,    \* where each request is, and with what
  lock,       \* the request that awaits inside a transaction
  loop,       \* the request that holds up the event loop
  probing,    \* the status service's check: the version of each egress, 0 if not checked
  requests

tables == <<egress, schemes, assigned, found>>
web == <<pc, job, lock, loop>>
vars == <<tables, web, probing, requests>>

Nets == {"tcp", "tcp,udp"}
Scheme == [net : Nets, fails : {"direct", "block"}]
Assignment == [egress : Egresses, scheme : Schemes \cup {None},
               net : Nets, fails : {"direct", "block"}, on : BOOLEAN]
Finding == {"yes", "no", "unknown"}

TypeOK ==
  /\ egress \in [Egresses -> [version : Nat \ {0}, on : BOOLEAN] \cup {None, Deleted}]
  /\ schemes \in [Schemes -> Scheme \cup {None, Deleted}]
  /\ assigned \in [Rows -> Assignment \cup {None}]
  /\ found \in [Egresses -> [udp : Finding, of : Nat, fresh : BOOLEAN]
                              \cup {None}]
  /\ pc \in [Requests -> {"idle", "scheme", "rules", "probe", "stuck"}]
  /\ lock \in Requests \cup {None} /\ loop \in Requests \cup {None}
  /\ probing \in [Egresses -> Nat] /\ requests \in Nat

Init ==
  /\ egress = [e \in Egresses |-> None] /\ schemes = [s \in Schemes |-> None]
  /\ assigned = [r \in Rows |-> None] /\ found = [e \in Egresses |-> None]
  /\ pc = [p \in Requests |-> "idle"] /\ job = [p \in Requests |-> None]
  /\ lock = None /\ loop = None
  /\ probing = [e \in Egresses |-> 0]
  /\ requests = 0

Pool == {e \in Egresses : egress[e] \notin {None, Deleted}}
SchemeIds == {s \in Schemes : schemes[s] \notin {None, Deleted}}
Ids == {r \in Rows : assigned[r] # None}

-----------------------------------------------------------------------------
(***************************************************************************)
(* What the rows say.                                                      *)
(***************************************************************************)

\* assignments: a scheme gives the network and what happens on failure.
Missing(a) == a.scheme # None /\ a.scheme \notin SchemeIds
NetOf(a) == IF a.scheme \in SchemeIds THEN schemes[a.scheme].net ELSE a.net
FailsOf(a) == IF a.scheme \in SchemeIds THEN schemes[a.scheme].fails ELSE a.fails

\* udp_support and _check_network.
UdpSupport(e) == IF found[e] = None THEN "unknown" ELSE found[e].udp
AnyNetwork(e, net) == TRUE

NetworkWorks(e, net) == net = "tcp,udp" => UdpSupport(e) # "no"

-----------------------------------------------------------------------------
(***************************************************************************)
(* Requests that end without waiting.                                      *)
(***************************************************************************)
Request == requests < MaxRequests /\ requests' = requests + 1

\* The handler runs, and its writes find the database unlocked.
Writes == loop = None /\ lock = None

Page == Request /\ Writes /\ UNCHANGED <<web, probing>>

\* A row for each line that is good.
import_links(new) ==
  [e \in Egresses |-> IF e \in new THEN [version |-> 1, on |-> TRUE] ELSE egress[e]]

\* /egress/import and, for one, /egress/new.
Import(new) ==
  /\ Page
  /\ new # {} /\ \A e \in new : egress[e] = None
  /\ egress' = import_links(new)
  /\ UNCHANGED <<schemes, assigned, found>>

\* Another proxy: what was found about UDP no longer holds.
Cleared(e) ==
  IF found[e] = None THEN None
  ELSE [found[e] EXCEPT !.udp = "unknown", !.fresh = FALSE]

Edit(e) ==
  /\ Page
  /\ e \in Pool
  /\ egress' = [egress EXCEPT ![e].version = @ + 1]
  /\ found' = [found EXCEPT ![e] = Cleared(e)]
  /\ UNCHANGED <<schemes, assigned>>

SetEnabled(e) ==
  /\ Page
  /\ e \in Pool
  /\ egress' = [egress EXCEPT ![e].on = ~@]
  /\ found' = IF found[e] = None THEN found ELSE [found EXCEPT ![e].fresh = FALSE]
  /\ UNCHANGED <<schemes, assigned>>

AssignedWithout(e) ==
  [r \in Rows |-> IF r \in Ids /\ assigned[r].egress = e THEN None ELSE assigned[r]]

Delete(e) ==
  /\ Page
  /\ e \in Pool
  /\ egress' = [egress EXCEPT ![e] = Deleted]
  /\ assigned' = AssignedWithout(e)
  /\ found' = [found EXCEPT ![e] = None]
  /\ UNCHANGED <<schemes>>

\* delete_scheme: not while an assignment, enabled or not, uses it.
MayDelete(s) == s \in SchemeIds /\ \A r \in Ids : assigned[r].scheme # s

DeleteScheme(s) ==
  /\ Page
  /\ MayDelete(s)
  /\ schemes' = [schemes EXCEPT ![s] = Deleted]
  /\ UNCHANGED <<egress, assigned, found>>

\* Enabling looks at the network again.
Toggle(r) ==
  LET a == assigned[r]
  IN  /\ Page
      /\ r \in Ids
      /\ a.on \/ (~Missing(a) /\ NetworkWorks(a.egress, NetOf(a)))
      /\ assigned' = [assigned EXCEPT ![r].on = ~@]
      /\ UNCHANGED <<egress, schemes, found>>

Unassign(r) ==
  /\ Page
  /\ r \in Ids
  /\ assigned' = [assigned EXCEPT ![r] = None]
  /\ UNCHANGED <<egress, schemes, found>>

NodePage(r) == Toggle(r) \/ Unassign(r)

\* assign: egress, scheme and network are looked at in its transaction.
EgressChosen(a) == egress[a.egress] # None

EgressThere(a) == a.egress \in Pool

Assign(r, a) ==
  /\ assigned[r] = None
  /\ EgressThere(a)
  /\ a.scheme # None => a.scheme \in SchemeIds
  /\ NetworkWorks(a.egress, NetOf(a))
  /\ assigned' = [assigned EXCEPT ![r] = [a EXCEPT !.net = NetOf(a), !.fails = FailsOf(a)]]
  /\ UNCHANGED <<egress, schemes, found>>

\* The form of an assignment: its egress is in the list.
Form == {a \in Assignment : a.on /\ a.egress \in Pool}

\* With a scheme nothing is awaited: its rules were tested when it was saved.
AssignScheme(r) ==
  /\ Page
  /\ \E a \in Form : a.scheme \in SchemeIds /\ Assign(r, a)

Pages ==
  \/ \E new \in SUBSET Egresses : Import(new)
  \/ \E e \in Egresses : Edit(e) \/ SetEnabled(e) \/ Delete(e)
  \/ \E s \in Schemes : DeleteScheme(s)
  \/ \E r \in Rows : NodePage(r) \/ AssignScheme(r)

-----------------------------------------------------------------------------
(***************************************************************************)
(* Requests that wait.                                                     *)
(***************************************************************************)
Await(p, at, what) ==
  /\ pc[p] = "idle" /\ loop = None /\ Request
  /\ pc' = [pc EXCEPT ![p] = at] /\ job' = [job EXCEPT ![p] = what]
  /\ UNCHANGED <<tables, loop, probing>>

\* The transaction begins before the form is tested.
SchemeForm(p) ==
  /\ lock = None /\ lock' = p
  /\ \E s \in Schemes, v \in Scheme :
       schemes[s] # Deleted /\ Await(p, "scheme", [scheme |-> s, value |-> v])

AssignForm(p) ==
  /\ UNCHANGED lock
  /\ \E r \in Rows, a \in Form :
       assigned[r] = None /\ a.scheme = None /\ Await(p, "rules", [row |-> r, value |-> a])

CheckForm(p) ==
  /\ UNCHANGED lock
  /\ \E e \in Pool : Await(p, "probe", [egress |-> e, version |-> egress[e].version])

Over(p) ==
  /\ loop = None
  /\ pc' = [pc EXCEPT ![p] = "idle"] /\ job' = [job EXCEPT ![p] = None]
  /\ UNCHANGED <<loop, probing, requests>>

\* save_scheme: the assignments that use it follow it, so their egress must do.
MaySave(s, v) ==
  \A r \in Ids : assigned[r].scheme = s /\ assigned[r].on =>
    NetworkWorks(assigned[r].egress, v.net)

SaveScheme(p) ==
  LET s == job[p].scheme
      v == job[p].value
  IN  /\ pc[p] = "scheme" /\ Over(p)
      /\ lock' = None
      /\ MaySave(s, v)
      /\ schemes' = [schemes EXCEPT ![s] = v]
      /\ UNCHANGED <<egress, assigned, found>>

SaveAssignment(p) ==
  /\ pc[p] = "rules" /\ Over(p) /\ lock = None
  /\ Assign(job[p].row, job[p].value)
  /\ UNCHANGED lock

\* Refused by Xray, or by what has changed meanwhile.
Refused(p) ==
  /\ pc[p] \in {"scheme", "rules"} /\ Over(p)
  /\ lock' = IF lock = p THEN None ELSE lock
  /\ UNCHANGED tables

\* record_check: a finding about UDP stays when UDP was not tried.
Recorded(e, version, udp) ==
  [udp |-> IF udp # "unknown" \/ found[e] = None THEN udp ELSE found[e].udp,
   of |-> version, fresh |-> TRUE]

Record(e, version) ==
  /\ \E udp \in Finding : found' = [found EXCEPT ![e] = Recorded(e, version, udp)]
  /\ UNCHANGED <<egress, schemes, assigned>>

SaveCheck(p) ==
  /\ pc[p] = "probe" /\ Over(p) /\ lock = None
  /\ Record(job[p].egress, job[p].version)
  /\ UNCHANGED lock

\* A handler that comes to its writes while the database is locked holds up the
\* loop, and with it the request that is to unlock it, until SQLite gives up.
Stuck(p) ==
  /\ loop = None /\ lock # None
  /\ \/ pc[p] = "idle" /\ Request
     \/ pc[p] \in {"rules", "probe"} /\ UNCHANGED requests
  /\ pc' = [pc EXCEPT ![p] = "stuck"] /\ loop' = p
  /\ UNCHANGED <<tables, job, lock, probing>>

NoTimeout(p) == loop = p /\ lock = None

GivesUp(p) == loop = p

TimesOut(p) ==
  /\ GivesUp(p)
  /\ pc' = [pc EXCEPT ![p] = "idle"] /\ job' = [job EXCEPT ![p] = None]
  /\ loop' = None
  /\ UNCHANGED <<tables, lock, probing, requests>>

Waits(p) == SchemeForm(p) \/ AssignForm(p) \/ CheckForm(p)

Ends(p) ==
  \/ SaveScheme(p) \/ SaveAssignment(p) \/ Refused(p) \/ SaveCheck(p) \/ TimesOut(p)
  \/ pc[p] # "idle" /\ Stuck(p)

-----------------------------------------------------------------------------
(***************************************************************************)
(* The status service: check_unassigned.                                   *)
(***************************************************************************)
Unassigned ==
  {e \in Pool : egress[e].on /\ \A r \in Ids : assigned[r].egress = e => ~assigned[r].on}

\* Every round the new or changed ones, every ten minutes all.
Due(full) == {e \in Unassigned : full \/ found[e] = None \/ ~found[e].fresh}

OnlyNew == {FALSE}

Rounds == BOOLEAN

Probe(full) ==
  /\ \A e \in Egresses : probing[e] = 0
  /\ full \in Rounds /\ Due(full) # {}
  /\ probing' = [e \in Egresses |-> IF e \in Due(full) THEN egress[e].version ELSE 0]
  /\ UNCHANGED <<tables, web, requests>>

ProbeRecorded(e) ==
  /\ probing[e] # 0 /\ lock = None
  /\ Record(e, probing[e])
  /\ probing' = [probing EXCEPT ![e] = 0]
  /\ UNCHANGED <<web, requests>>

\* Locked for too long: the round ends.
ProbeFails ==
  /\ lock # None /\ \E e \in Egresses : probing[e] # 0
  /\ probing' = [e \in Egresses |-> 0]
  /\ UNCHANGED <<tables, web, requests>>

Next ==
  \/ Pages
  \/ \E p \in Requests : Waits(p) \/ Ends(p) \/ (pc[p] = "idle" /\ Stuck(p))
  \/ Probe(FALSE) \/ Probe(TRUE) \/ ProbeFails \/ \E e \in Egresses : ProbeRecorded(e)

\* Tests, checks and timeouts end; the status service goes on round after round,
\* and every ten minutes checks them all.
Fairness ==
  /\ \A p \in Requests : WF_vars(Ends(p))
  /\ SF_vars(Probe(TRUE))
  /\ \A e \in Egresses : WF_vars(ProbeRecorded(e))

Spec == Init /\ [][Next]_vars /\ Fairness

-----------------------------------------------------------------------------
(***************************************************************************)
(* Properties.                                                             *)
(***************************************************************************)

\* An assignment always has its egress and its scheme, whatever was deleted while
\* its form was tested (assign, delete, delete_scheme).
Referenced ==
  \A r \in Ids : assigned[r].egress \in Pool /\ ~Missing(assigned[r])

\* No page makes an assignment carry UDP into an egress whose last finding is that
\* it does not: not the form, not the switch, and not an edit of the scheme that the
\* assignment follows (_check_network in assign, toggle_assignment, save_scheme).
CarriesUdp(r) == r \in Ids /\ assigned[r].on /\ NetOf(assigned[r]) = "tcp,udp"

NoUdpWhereNone ==
  [][\A r \in Rows :
       CarriesUdp(r)' /\ ~CarriesUdp(r) => UdpSupport(assigned'[r].egress) # "no"]_vars

\* Every request ends, also those that wait for one that waits for them.
RequestsEnd == \A p \in Requests : pc[p] # "idle" ~> pc[p] = "idle"

\* When nothing changes any more, the last check of an egress that no assignment uses
\* is of its present settings: the result of a check that was under way when they
\* were changed does not stay (check_unassigned, egress_loop).
CheckedAsItIs ==
  \A e \in Egresses :
    <>[](e \in Unassigned => found[e] # None /\ found[e].of = egress[e].version)
=============================================================================
