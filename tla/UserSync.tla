------------------------------ MODULE UserSync ------------------------------
(***************************************************************************)
(* Keeping the users of a node in line with the console.                   *)
(*                                                                         *)
(* Every minute the node agent (docker/edge-tools/edge_reporter.py, class  *)
(* Sync) reads the users running on each inbound from Xray, tells the      *)
(* console, receives the console's list when it does not claim to run it,  *)
(* and removes and adds users through Xray's API.  When it changed         *)
(* something it reads again, reconciles again and tells the console again. *)
(* The console (console/report_app.py, POST /sync) keeps what a node last  *)
(* said in one row.                                                        *)
(*                                                                         *)
(* In between, the console's list changes, Xray restarts with the list of  *)
(* the last deployment, a deployment replaces that list, the agent         *)
(* restarts, an API call fails after doing part of its work, and a request *)
(* is lost, loses its answer or is handled after the agent gave up.        *)
(*                                                                         *)
(* A list maps a user to the credential it has there, 0 for none; the      *)
(* version of a list is a hash of it, so here it is the list itself.       *)
(* Inbound 1 is the REALITY inbound, inbound 2 the XHTTP one.              *)
(***************************************************************************)
EXTENDS Naturals, FiniteSets

CONSTANTS
  Users,
  Keep,         \* SYNC_KEEP: users the agent never adds or removes
  Lists,        \* the lists the console may have for the node
  Deployed,     \* the list of the first deployment
  NoList,       \* no list, or no claim to run one
  Inbounds,     \* number of inbounds
  MinRefused,   \* MIN_REMOVALS_REFUSED
  MaxUpsets     \* bound: changes, restarts and failures

List == [Users -> Nat]

ASSUME SyncAssumption ==
  /\ IsFiniteSet(Users)
  /\ Keep \subseteq Users
  /\ Lists \subseteq List /\ Lists # {}
  /\ Deployed \in List
  /\ NoList \notin List
  /\ Inbounds \in Nat \ {0}
  /\ MinRefused \in Nat
  /\ MaxUpsets \in Nat

Tags == 1 .. Inbounds
Others == Users \ Keep

VARIABLES
  list,         \* the console's list for the node now
  row,          \* node_sync: what the node last said
  deployed,     \* the list in Xray's configuration
  run,          \* the users running, per inbound
  desired,      \* the agent: the last list received
  verified,     \* the agent: it believes the node runs that list
  pc,           \* where tick is
  round,        \* 1, or 2 after something was changed
  tag,          \* the inbound at hand
  seen,         \* the users read, per inbound
  changed,      \* the return value of reconcile
  late,         \* requests the agent gave up that may still be handled
  upsets,       \* changes, restarts and failures so far
  fault         \* ghost: what happened since the tick began

agentVars == <<desired, verified, pc, round, tag, seen, changed>>
vars == <<list, row, deployed, run, desired, verified, pc, round, tag, seen,
          changed, late, upsets, fault>>

Names(l) == {u \in Others : l[u] # 0}

NoRow == [desired |-> NoList, applied |-> NoList, running |-> {}]
Request == [applied : List \cup {NoList}, running : SUBSET Users]

TypeOK ==
  /\ list \in Lists
  /\ row \in [desired : List \cup {NoList}, applied : List \cup {NoList},
              running : SUBSET Users]
  /\ deployed \in List
  /\ run \in [Tags -> List]
  /\ desired \in List \cup {NoList}
  /\ verified \in {"yes", "no"}
  /\ pc \in {"idle", "read", "tell", "plan", "add"}
  /\ round \in {1, 2}
  /\ tag \in 1 .. Inbounds + 1
  /\ seen \in [Tags -> List]
  /\ changed \in {"yes", "no"}
  /\ late \in SUBSET Request
  /\ upsets \in Nat
  /\ fault \in SUBSET {"restart", "newer"}
  /\ pc \in {"plan", "add"} \/ (pc = "read" /\ round = 2) => desired # NoList
  /\ pc = "add" => tag \in Tags
  /\ pc = "tell" => tag = 1
  /\ verified = "yes" => desired # NoList

Init ==
  /\ list \in Lists
  /\ row = NoRow
  /\ deployed = Deployed /\ run = [t \in Tags |-> Deployed]
  /\ desired = NoList /\ verified = "no"
  /\ pc = "idle" /\ round = 1 /\ tag = 1
  /\ seen = [t \in Tags |-> Deployed] /\ changed = "no"
  /\ late = {} /\ upsets = 0 /\ fault = {}

Upset == upsets < MaxUpsets /\ upsets' = upsets + 1

-----------------------------------------------------------------------------
(***************************************************************************)
(* Around the agent.                                                       *)
(***************************************************************************)

\* A user is added, changed, disabled, given new credentials, or expires.
ChangeList ==
  /\ Upset
  /\ list' \in Lists \ {list}
  /\ UNCHANGED <<row, deployed, run, agentVars, late, fault>>

\* Xray starts again with the list in its configuration.
XrayRestart ==
  /\ Upset
  /\ run' = [t \in Tags |-> deployed]
  /\ fault' = fault \cup {"restart"}
  /\ UNCHANGED <<list, row, deployed, agentVars, late>>

\* A deployment (edge.yml) configures and runs the console's list.
Deploy ==
  /\ Upset
  /\ deployed' = [u \in Users |-> IF u \in Keep THEN deployed[u] ELSE list[u]]
  /\ run' = [t \in Tags |-> deployed']
  /\ fault' = fault \cup {"restart"}
  /\ UNCHANGED <<list, row, agentVars, late>>

\* Sync.__init__
FreshStart == desired' = NoList /\ pc' = "idle" /\ verified' = "no"

\* The agent ends, on its own or with its container, and starts with no list.
AgentRestart ==
  /\ Upset
  /\ FreshStart
  /\ UNCHANGED <<list, row, deployed, run, round, tag, seen, changed, late,
                 fault>>

-----------------------------------------------------------------------------
(***************************************************************************)
(* The console: POST /sync.                                                *)
(***************************************************************************)

RecordOnce(request) ==
  row' = IF row = NoRow
           THEN [desired |-> list, applied |-> request.applied,
                 running |-> request.running]
           ELSE row

\* users.record_sync, INSERT OR REPLACE
Record(request) ==
  row' = [desired |-> list, applied |-> request.applied,
          running |-> request.running]

HandleLate ==
  \E request \in late :
    /\ Record(request)
    /\ late' = late \ {request}
    /\ UNCHANGED <<list, deployed, run, agentVars, upsets, fault>>

-----------------------------------------------------------------------------
(***************************************************************************)
(* The agent: one cycle of Sync.tick.                                      *)
(***************************************************************************)

\* Sync.running reads inbound after inbound.
StartTick ==
  /\ pc = "idle"
  /\ pc' = "read" /\ round' = 1 /\ tag' = 1 /\ changed' = "no"
  /\ fault' = {}
  /\ UNCHANGED <<list, row, deployed, run, desired, verified, seen, late,
                 upsets>>

ReadTag ==
  /\ pc = "read"
  /\ tag \in Tags
  /\ seen' = [seen EXCEPT ![tag] = run[tag]]
  /\ tag' = tag + 1
  /\ UNCHANGED <<list, row, deployed, run, desired, verified, pc, round,
                 changed, late, upsets, fault>>

\* After the first reading the agent tells the console; after the second it
\* reconciles first.
ReadDone ==
  /\ pc = "read"
  /\ tag = Inbounds + 1
  /\ pc' = IF round = 1 THEN "tell" ELSE "plan"
  /\ tag' = 1
  /\ UNCHANGED <<list, row, deployed, run, desired, verified, round, seen,
                 changed, late, upsets, fault>>

\* A SyncError or an OSError ends the cycle.
StaysVerified == pc' = "idle" /\ UNCHANGED verified

GiveUp == pc' = "idle" /\ verified' = "no"

ReadFails ==
  /\ pc = "read"
  /\ Upset
  /\ GiveUp
  /\ UNCHANGED <<list, row, deployed, run, desired, round, tag, seen, changed,
                 late, fault>>

Claim == IF verified = "yes" THEN desired ELSE NoList

TheRequest == [applied |-> Claim, running |-> Names(seen[1])]

\* Sync.exchange: the list comes back unless the request claims to run it.  The
\* second exchange of a cycle ends it, whatever list it brought.
Exchange ==
  /\ pc = "tell"
  /\ Record(TheRequest)
  /\ desired' = list
  /\ pc' = IF round = 1 THEN "plan" ELSE "idle"
  /\ fault' = IF round = 2 /\ desired # list THEN fault \cup {"newer"} ELSE fault
  /\ UNCHANGED <<list, deployed, run, verified, round, tag, seen, changed, late,
                 upsets>>

\* No answer in time, or another answer than 200: the request is lost or
\* refused, was handled, or will be handled later.
ExchangeFails ==
  /\ pc = "tell"
  /\ Upset
  /\ GiveUp
  /\ \/ UNCHANGED <<row, late>>
     \/ Record(TheRequest) /\ UNCHANGED late
     \/ late' = late \cup {TheRequest} /\ UNCHANGED row
  /\ UNCHANGED <<list, deployed, run, desired, round, tag, seen, changed, fault>>

\* sync_plan: a changed credential is removed, then added.
RemoveAll(l) == {u \in Others : l[u] # 0}

ToRemove(l) == {u \in Others : l[u] # 0 /\ l[u] # desired[u]}

ToAdd(l) == {u \in Others : desired[u] # 0 /\ l[u] # desired[u]}

\* check_plan
NeverRefused(want, l) == FALSE

Refused(want, l) ==
  LET dropped == {u \in Others : l[u] # 0 /\ want[u] = 0}
  IN  \/ Names(want) = {} /\ Names(l) # {}
      \/ /\ Cardinality(dropped) >= MinRefused
         /\ Cardinality(dropped) * 2 > Cardinality(Names(l))

Refuse ==
  /\ pc = "plan"
  /\ tag \in Tags
  /\ Refused(desired, seen[tag])
  /\ GiveUp
  /\ UNCHANGED <<list, row, deployed, run, desired, round, tag, seen, changed,
                 late, upsets, fault>>

NothingToDo ==
  /\ pc = "plan"
  /\ tag \in Tags
  /\ ~Refused(desired, seen[tag])
  /\ ToRemove(seen[tag]) = {} /\ ToAdd(seen[tag]) = {}
  /\ tag' = tag + 1
  /\ UNCHANGED <<list, row, deployed, run, desired, verified, pc, round, seen,
                 changed, late, upsets, fault>>

\* apply_tag: the users of an inbound that an API call takes off or puts on; Xray
\* rejects a user it already has.
Without(l, users) == [u \in Users |-> IF u \in users THEN 0 ELSE l[u]]

With(l, users) ==
  [u \in Users |-> IF u \in users /\ l[u] = 0 THEN desired[u] ELSE l[u]]

Removing ==
  /\ pc = "plan"
  /\ tag \in Tags
  /\ ~Refused(desired, seen[tag])
  /\ ToRemove(seen[tag]) # {}

Adding ==
  /\ pc \in {"plan", "add"}
  /\ tag \in Tags
  /\ ToAdd(seen[tag]) # {}
  /\ \/ pc = "add"
     \/ /\ pc = "plan" /\ ToRemove(seen[tag]) = {}
        /\ ~Refused(desired, seen[tag])

RemoveUsers ==
  /\ Removing
  /\ run' = [run EXCEPT ![tag] = Without(run[tag], ToRemove(seen[tag]))]
  /\ changed' = "yes"
  /\ IF ToAdd(seen[tag]) = {}
       THEN tag' = tag + 1 /\ pc' = "plan"
       ELSE tag' = tag /\ pc' = "add"
  /\ UNCHANGED <<list, row, deployed, desired, verified, round, seen, late,
                 upsets, fault>>

AddUsers ==
  /\ Adding
  /\ run' = [run EXCEPT ![tag] = With(run[tag], ToAdd(seen[tag]))]
  /\ changed' = "yes"
  /\ tag' = tag + 1 /\ pc' = "plan"
  /\ UNCHANGED <<list, row, deployed, desired, verified, round, seen, late,
                 upsets, fault>>

\* A call fails or times out after it did any part of its work.
CallFails ==
  /\ Upset
  /\ \/ Removing /\ \E done \in SUBSET ToRemove(seen[tag]) :
          run' = [run EXCEPT ![tag] = Without(run[tag], done)]
     \/ Adding /\ \E done \in SUBSET ToAdd(seen[tag]) :
          run' = [run EXCEPT ![tag] = With(run[tag], done)]
  /\ GiveUp
  /\ UNCHANGED <<list, row, deployed, desired, round, tag, seen, changed, late,
                 fault>>

\* After the last inbound: read again when something was changed, and tell the
\* console after the second round, which is not read again.
AfterRound ==
  IF round = 1 /\ changed = "yes"
    THEN pc' = "read" /\ round' = 2 /\ UNCHANGED verified
    ELSE /\ verified' = "yes"
         /\ pc' = IF round = 1 THEN "idle" ELSE "tell"
         /\ UNCHANGED round

RoundDone ==
  /\ pc = "plan"
  /\ tag = Inbounds + 1
  /\ AfterRound
  /\ tag' = 1
  /\ UNCHANGED <<list, row, deployed, run, desired, seen, changed, late, upsets,
                 fault>>

-----------------------------------------------------------------------------
Around == ChangeList \/ XrayRestart \/ Deploy \/ AgentRestart

Tick ==
  \/ StartTick \/ ReadTag \/ ReadDone \/ Exchange
  \/ Refuse \/ NothingToDo \/ RemoveUsers \/ AddUsers \/ RoundDone

Fails == ReadFails \/ ExchangeFails \/ CallFails

Next == Around \/ HandleLate \/ Tick \/ Fails

Spec == Init /\ [][Next]_vars

\* The loop of main runs a tick every interval and every step of it ends, by
\* itself or by a time limit; a late request is handled or gone some time.
FairSpec == Spec /\ WF_vars(Tick) /\ WF_vars(HandleLate)

-----------------------------------------------------------------------------
(***************************************************************************)
(* Properties.                                                             *)
(***************************************************************************)

Runs(l) == \A t \in Tags, u \in Others : run[t][u] = l[u]

\* Between ticks, when the agent believes it runs its list then every inbound
\* does, unless Xray was restarted since the tick began or the last exchange
\* brought another list: no partial failure is taken for success.
VerifiedRuns ==
  pc = "idle" /\ verified = "yes" /\ fault = {} => Runs(desired)

\* The agent never touches the users it is told to keep (the status probe
\* account), whatever the console's list says of them.
KeptRun == \A t \in Tags, u \in Keep : run[t][u] = deployed[u]

\* A user that runs as the held list wants is never cut off, unless Xray was
\* restarted under the agent: no needless reconnection.
NobodyCutOff ==
  [][desired # NoList /\ fault' = {} =>
       \A t \in Tags, u \in Others :
         run[t][u] # 0 /\ run'[t][u] = 0 => run[t][u] # desired[u]]_vars

\* An empty list, or one without most of the users, takes nobody off a node: not
\* in one call, and not by parts of failed ones (a failed call does not make the
\* rest of the removals look small to the next tick).
GoneByHalves(t) ==
  LET gone == {u \in Others : run[t][u] # 0 /\ run'[t][u] = 0 /\ desired[u] = 0}
  IN  /\ gone # {} => Names(desired) # {}
      /\ Cardinality(gone) >= MinRefused =>
           Cardinality(gone) * 2 <= Cardinality(Names(run[t]))

RefusalProtects ==
  [][desired # NoList /\ fault' = {} => \A t \in Tags : GoneByHalves(t)]_vars

\* After the last change, restart or failure the node runs the console's list and
\* the console knows it, whatever late request overwrote its row; or the agent
\* refuses the list, which then waits for a deployment.
Waits == \E t \in Tags : Refused(list, run[t])

Converges ==
  <>[](Waits \/ (Runs(list) /\ row.applied = list /\ row.running = Names(list)))
=============================================================================
