----------------------------- MODULE EgressApply -----------------------------
(***************************************************************************)
(* Proxy egress on a node: console/egress.py and the node agent's          *)
(* edge_egress.py.                                                         *)
(*                                                                         *)
(* The console keeps a pool of egress and their assignments to a node, and *)
(* sends the node its plan with a sync.  After each sync the agent checks  *)
(* every egress and makes Xray's runtime match: the rules of an assignment *)
(* lead through its egress, are left out (traffic goes direct) or lead     *)
(* nowhere (blocked).  It does so by calls of Xray's API, each of which    *)
(* may fail after a part of its work.  Xray may restart with the rules of  *)
(* the last deployment; the agent, cut off from it, restarts too.          *)
(*                                                                         *)
(* An assignment is its position in Pool, in priority order; an edit or a  *)
(* change of the node's users gives it another match.  One that is         *)
(* disabled, without users or without its scheme is not assigned.  Rules   *)
(* and outbounds outside this feature are left out, except the default.    *)
(***************************************************************************)
EXTENDS Naturals, Sequences, SequencesExt

CONSTANTS
  Egresses,        \* numbers
  Settings,        \* of an egress
  Matches,         \* of an assignment: who and what it takes
  Pool,            \* assignments: [egress, on_failure, udp, rules]
  None,
  RECOVER,         \* good checks in a row before a failed egress is used again
  MaxUpsets        \* bound: changes, restarts and failures

ASSUME EgressAssumption ==
  /\ Egresses \subseteq Nat
  /\ Settings # {} /\ Matches # {} /\ None \notin Settings \cup Matches
  /\ Pool \in Seq([egress : Egresses, on_failure : {"direct", "block"},
                   udp : {"yes", "no"}, rules : Seq({"egress", "block"})])
  /\ \A a \in DOMAIN Pool : Pool[a].rules # <<>> /\ Pool[a].rules[1] = "egress"
  /\ RECOVER \in Nat \ {0} /\ MaxUpsets \in Nat

Ids == DOMAIN Pool

VARIABLES
  \* the console's database
  enabled, settings,   \* egress: enabled, configuration
  assigned, match,     \* egress_assignment
  row,                 \* egress_node: what was recorded last
  late,                \* a request given up by the agent that the console handles later
  \* the node
  deployed,            \* the plan written at the last deployment
  rules, outbounds,    \* Xray: rules of this feature and the default; outbounds
  reach,               \* the agent is in the network namespace of Xray
  works,               \* what goes through an egress: nothing, TCP, or both
  \* the agent
  pc,
  payload,
  health,
  states,
  applied,             \* what it believes runs
  added,               \* outbound_state
  error,
  \* ghosts
  failed,              \* the calls that failed in this tick, or the last
  seen,                \* the last RECOVER checks of TCP and of UDP, per egress
  astray,              \* an outbound went although its removal failed
  upsets

consoleVars == <<enabled, settings, assigned, match>>
heard == <<row, late>>
xrayVars == <<rules, outbounds>>
memory == <<payload, health, states, applied, added, error>>
ghosts == <<failed, seen, astray>>
vars == <<consoleVars, heard, deployed, xrayVars, reach, works, pc, memory, ghosts,
          upsets>>

Payload == [outbounds : [Egresses -> Settings \cup {None}],
            assignments : [Ids -> Matches \cup {None}]]
Rule == [id : Ids, index : Nat, match : Matches, to : {"egress", "blocked"}]
DefaultRule == [id |-> 0, index |-> 0, match |-> None, to |-> "direct"]
Signature == [outbounds : [Egresses -> Settings \cup {None}], rules : Seq(Rule)]
Kind == [ok : {"yes", "no"}, streak : 0 .. RECOVER]
Health == [tcp : Kind, udp : Kind]
States == [Ids -> {"active", "direct", "blocked", "pending"}]
Report == [applied : Payload \cup {None}, states : States, error : {"yes", "no"}]
ASSUME NoneIsNothing == None \notin Payload \cup Health \cup Report
Steps == {"idle", "send", "again", "resend", "check", "apply", "rmrules", "rmo", "ado",
          "adrules", "fallback", "default", "verify"}
Calls == {"check", "read", "rmrules", "rmo", "ado", "adrules", "fallback", "default"}

NoOutbounds == [e \in Egresses |-> None]
Pending == [a \in Ids |-> "pending"]
Fresh == [ok |-> "yes", streak |-> RECOVER]

TypeOK ==
  /\ enabled \in SUBSET Egresses /\ settings \in [Egresses -> Settings]
  /\ assigned \in SUBSET Ids /\ match \in [Ids -> Matches]
  /\ row \in Report /\ late \in Report \cup {None} /\ deployed \in Payload
  /\ rules \in Seq(Rule \cup {DefaultRule})
  /\ outbounds \in [Egresses -> Settings \cup {None}]
  /\ reach \in {"yes", "no"}
  /\ works \in [Egresses -> {"none", "tcp", "both"}]
  /\ pc \in Steps
  /\ payload \in Payload \cup {None}
  /\ health \in [Egresses -> Health \cup {None}]
  /\ states \in States
  /\ applied \in Signature \cup {None}
  /\ added \in [Egresses -> Settings \cup {None}]
  /\ error \in {"yes", "no"}
  /\ failed \in SUBSET Calls
  /\ seen \in [Egresses -> [tcp : Seq({"ok", "fail"}), udp : Seq({"ok", "fail"})]]
  /\ astray \in {"yes", "no"}
  /\ upsets \in Nat

-----------------------------------------------------------------------------
(***************************************************************************)
(* What the node is to run: plan, desired, deploy_rules.                   *)
(***************************************************************************)

\* An assignment of a disabled egress stays only when it is to block.
Sent == {a \in assigned : Pool[a].egress \in enabled \/ Pool[a].on_failure = "block"}

plan ==
  [outbounds |-> [e \in Egresses |->
     IF e \in enabled /\ \E a \in Sent : Pool[a].egress = e THEN settings[e] ELSE None],
   assignments |-> [a \in Ids |-> IF a \in Sent THEN match[a] ELSE None]]

\* Without its outbound in the plan, the egress is disabled (egress_off).
EgressOff(p, a) == p.outbounds[Pool[a].egress] = None

usable(e, needsUdp) ==
  \/ health[e] = None
  \/ health[e].tcp.ok = "yes" /\ (needsUdp = "yes" => health[e].udp.ok = "yes")

StateOf(p, a) ==
  IF p.assignments[a] = None THEN "pending"
  ELSE IF ~EgressOff(p, a) /\ usable(Pool[a].egress, Pool[a].udp) THEN "active"
  ELSE IF Pool[a].on_failure = "block" THEN "blocked" ELSE "direct"

\* The rules of an assignment, tagged by it and their index.
RulesOf(p, a, through) ==
  [i \in 1 .. Len(Pool[a].rules) |->
     [id |-> a, index |-> i, match |-> p.assignments[a],
      to |-> IF through /\ Pool[a].rules[i] = "egress" THEN "egress" ELSE "blocked"]]

Desired ==
  FlattenSeq([a \in Ids |->
    IF StateOf(payload, a) \in {"active", "blocked"}
      THEN RulesOf(payload, a, StateOf(payload, a) = "active") ELSE <<>>])

NoFallback == <<>>

\* When the outbounds cannot be placed: the "block" assignments, blocked.
Fallback ==
  FlattenSeq([a \in Ids |->
    IF payload.assignments[a] # None /\ Pool[a].on_failure = "block"
      THEN RulesOf(payload, a, FALSE) ELSE <<>>])

\* In the configuration, every assignment is as if its egress works.
deploy_rules(p) ==
  FlattenSeq([a \in Ids |->
    IF p.assignments[a] # None THEN RulesOf(p, a, ~EgressOff(p, a)) ELSE <<>>])

Tags(list) == [n \in DOMAIN list |-> <<list[n].id, list[n].index>>]

Ours == SelectSeq(rules, LAMBDA r : r # DefaultRule)
NoneOurs == \A n \in DOMAIN rules : rules[n] = DefaultRule

ReportHeld == [applied |-> payload, states |-> states, error |-> error]

NewReport == [applied |-> IF applied # None /\ error = "no" THEN payload ELSE None,
              states |-> states, error |-> error]

NothingKnown ==
  /\ pc' = "idle" /\ payload' = None
  /\ health' = [e \in Egresses |-> None]
  /\ states' = Pending /\ applied' = None /\ added' = NoOutbounds /\ error' = "no"
  /\ failed' = {} /\ astray' = "no"
  /\ seen' = [e \in Egresses |-> [tcp |-> <<>>, udp |-> <<>>]]

Init ==
  /\ enabled = Egresses /\ settings = [e \in Egresses |-> CHOOSE s \in Settings : TRUE]
  /\ assigned = Ids /\ match = [a \in Ids |-> CHOOSE m \in Matches : TRUE]
  /\ row = [applied |-> None, states |-> Pending, error |-> "no"] /\ late = None
  /\ deployed = plan
  /\ rules = deploy_rules(deployed) \o <<DefaultRule>>
  /\ outbounds = deployed.outbounds
  /\ reach = "yes" /\ works = [e \in Egresses |-> "both"]
  /\ pc = "idle" /\ payload = None
  /\ health = [e \in Egresses |-> None]
  /\ states = Pending /\ applied = None /\ added = NoOutbounds /\ error = "no"
  /\ failed = {} /\ astray = "no"
  /\ seen = [e \in Egresses |-> [tcp |-> <<>>, udp |-> <<>>]]
  /\ upsets = 0

Upset == upsets < MaxUpsets /\ upsets' = upsets + 1

-----------------------------------------------------------------------------
(***************************************************************************)
(* Around the agent.                                                       *)
(***************************************************************************)
ConsoleChanges ==
  /\ Upset
  /\ UNCHANGED <<heard, deployed, xrayVars, reach, works, pc, memory, ghosts>>

set_enabled(e) ==
  /\ ConsoleChanges
  /\ enabled' = IF e \in enabled THEN enabled \ {e} ELSE enabled \cup {e}
  /\ UNCHANGED <<settings, assigned, match>>

save(e) ==
  /\ ConsoleChanges
  /\ \E s \in Settings \ {settings[e]} : settings' = [settings EXCEPT ![e] = s]
  /\ UNCHANGED <<enabled, assigned, match>>

\* assign, toggle_assignment and unassign, or the assignment's users or scheme go.
Reassign(a) ==
  /\ ConsoleChanges
  /\ assigned' = IF a \in assigned THEN assigned \ {a} ELSE assigned \cup {a}
  /\ UNCHANGED <<enabled, settings, match>>

Rematch(a) ==
  /\ ConsoleChanges
  /\ \E m \in Matches \ {match[a]} : match' = [match EXCEPT ![a] = m]
  /\ UNCHANGED <<enabled, settings, assigned>>

\* A deployment that differs in users or egress only: the files, not the runtime.
Deploy ==
  /\ Upset
  /\ deployed # plan /\ deployed' = plan
  /\ UNCHANGED <<consoleVars, heard, xrayVars, reach, works, pc, memory, ghosts>>

\* Xray starts again from its files, in another network namespace.
XrayRestarts ==
  /\ Upset
  /\ rules' = deploy_rules(deployed) \o <<DefaultRule>>
  /\ outbounds' = deployed.outbounds
  /\ reach' = "no"
  /\ UNCHANGED <<consoleVars, heard, deployed, works, pc, memory, ghosts>>

\* The agent stops when it cannot reach Xray repeatedly, or at any time.
AgentRestarts ==
  /\ IF reach = "no" THEN UNCHANGED upsets ELSE Upset
  /\ reach' = "yes"
  /\ NothingKnown
  /\ UNCHANGED <<consoleVars, heard, deployed, xrayVars, works>>

EgressChanges(e) ==
  /\ Upset
  /\ \E w \in {"none", "tcp", "both"} \ {works[e]} : works' = [works EXCEPT ![e] = w]
  /\ UNCHANGED <<consoleVars, heard, deployed, xrayVars, reach, pc, memory, ghosts>>

-----------------------------------------------------------------------------
(***************************************************************************)
(* The agent's tick: it reads what Xray runs, exchanges with the console   *)
(* (both a second time when users changed) and checks every egress.        *)
(***************************************************************************)
\* A request that was given up is handled at last, whatever was recorded since.
HandleLate ==
  /\ late # None
  /\ row' = late /\ late' = None
  /\ UNCHANGED <<consoleVars, deployed, xrayVars, reach, works, pc, memory, ghosts, upsets>>

Quiet == UNCHANGED <<consoleVars, deployed, xrayVars, reach, works, health, states,
                     applied, added, error, ghosts>>

\* Without Xray there is no tick.
Read ==
  /\ reach = "yes"
  /\ \/ pc = "idle" /\ pc' = "send"
     \/ pc = "again" /\ pc' = "resend"
  /\ Quiet /\ UNCHANGED <<heard, payload, upsets>>

\* Cut off from Xray since the first exchange, the tick goes on without the second.
CutOff ==
  /\ pc = "again" /\ pc' = "check"
  /\ IF reach = "no" THEN UNCHANGED upsets ELSE Upset
  /\ Quiet /\ UNCHANGED <<heard, payload>>

\* The answer holds the plan unless the agent reported its version.
Exchange ==
  /\ \/ pc = "send" /\ pc' \in {"again", "check"}
     \/ pc = "resend" /\ pc' = "check"
  /\ row' = NewReport
  /\ payload' = IF NewReport.applied = plan THEN payload ELSE plan
  /\ Quiet /\ UNCHANGED <<late, upsets>>

\* Before or after the console handled the request, or it does so later.
ExchangeFails ==
  /\ pc \in {"send", "resend"} /\ pc' = "check"
  /\ Upset
  /\ \/ row' \in {row, NewReport} /\ UNCHANGED late
     \/ late = None /\ late' = NewReport /\ UNCHANGED row
  /\ Quiet /\ UNCHANGED payload

KeptStreak(k, ok) ==
  LET streak == IF k.streak < RECOVER THEN k.streak + 1 ELSE RECOVER
  IN  IF ok THEN [ok |-> IF streak >= RECOVER THEN "yes" ELSE k.ok, streak |-> streak]
            ELSE [ok |-> "no", streak |-> k.streak]

Counted(k, ok) ==
  IF ~ok THEN [ok |-> "no", streak |-> 0]
  ELSE LET streak == IF k.streak < RECOVER THEN k.streak + 1 ELSE RECOVER
       IN  [ok |-> IF streak >= RECOVER THEN "yes" ELSE k.ok, streak |-> streak]

\* What the agent's own probe finds; without Xray's namespace, nothing.
Found(e) == IF reach = "yes" THEN works[e] ELSE "none"

\* UDP is not tried while TCP fails.
Checked(h, e) ==
  LET old == IF h = None THEN [tcp |-> Fresh, udp |-> Fresh] ELSE h
  IN  [tcp |-> Counted(old.tcp, Found(e) # "none"),
       udp |-> IF Found(e) = "none" THEN old.udp ELSE Counted(old.udp, Found(e) = "both")]

Noted(list, ok) ==
  LET longer == Append(list, IF ok THEN "ok" ELSE "fail")
  IN  IF Len(longer) > RECOVER THEN Tail(longer) ELSE longer

ToCheckWorking ==
  IF payload = None THEN {}
  ELSE {e \in Egresses : payload.outbounds[e] # None /\ usable(e, "no")}

ToCheck == IF payload = None THEN {} ELSE {e \in Egresses : payload.outbounds[e] # None}

check ==
  /\ pc = "check"
  /\ pc' = "apply"
  /\ health' = [e \in Egresses |-> IF e \in ToCheck THEN Checked(health[e], e) ELSE health[e]]
  /\ seen' = [e \in Egresses |->
       IF e \notin ToCheck THEN seen[e]
       ELSE [tcp |-> Noted(seen[e].tcp, Found(e) # "none"),
             udp |-> IF Found(e) = "none" THEN seen[e].udp
                     ELSE Noted(seen[e].udp, Found(e) = "both")]]
  /\ UNCHANGED <<consoleVars, heard, deployed, xrayVars, reach, works, payload, states,
                 applied, added, error, failed, astray, upsets>>

\* An exception of the temporary Xray ends the tick.
CheckFails ==
  /\ pc = "check" /\ ToCheck # {}
  /\ Upset
  /\ pc' = "idle"
  /\ failed' = {"check"}
  /\ UNCHANGED <<consoleVars, heard, deployed, xrayVars, reach, works, memory, seen, astray>>

-----------------------------------------------------------------------------
(***************************************************************************)
(* Egress.apply, a call of Xray's API at a time.  Without Xray a call      *)
(* fails and does nothing; otherwise it may fail after part of its work.   *)
(***************************************************************************)
Wanted == payload.outbounds
Present == {e \in Egresses : outbounds[e] # None}

Absent == {e \in Egresses : Wanted[e] # None /\ e \notin Present}

\* Not there, or not added with these settings by this agent.
Changed == {e \in Egresses : /\ Wanted[e] # None
                             /\ e \notin Present \/ added[e] # Wanted[e]}

Stale == {e \in Present : Wanted[e] = None \/ e \in Changed}

NowStates == [a \in Ids |-> StateOf(payload, a)]

Keep == UNCHANGED <<consoleVars, heard, deployed, reach, works, payload, health, seen>>

At(step) == pc = step /\ Keep

Works == reach = "yes" /\ UNCHANGED upsets

Fails(call) ==
  /\ IF reach = "no" THEN UNCHANGED upsets ELSE Upset
  /\ failed' = failed \cup {call}

Forget == pc' = "idle" /\ applied' = None /\ error' = "yes" /\ UNCHANGED states

Believe == UNCHANGED <<states, applied, error>>

Nothing ==
  /\ At("apply")
  /\ payload = None
  /\ pc' = "idle"
  /\ UNCHANGED <<xrayVars, states, applied, added, error, failed, astray, upsets>>

AsApplied ==
  /\ applied = [outbounds |-> Wanted, rules |-> Desired]
  /\ Tags(Ours) = Tags(Desired)

\* lsrules and lso
Look ==
  /\ At("apply") /\ payload # None /\ Works
  /\ failed' = {}
  /\ IF AsApplied
       THEN pc' = "idle" /\ states' = NowStates /\ error' = "no" /\ UNCHANGED applied
       ELSE pc' = "rmrules" /\ Believe
  /\ UNCHANGED <<xrayVars, added, astray>>

LookFails ==
  /\ At("apply") /\ payload # None
  /\ IF reach = "no" THEN UNCHANGED upsets ELSE Upset
  /\ failed' = {"read"}
  /\ Forget
  /\ UNCHANGED <<xrayVars, added, astray>>

\* One after the other, the default last; a failure ends the apply at once.
RemoveRules ==
  /\ At("rmrules") /\ Works
  /\ rules' = <<>>
  /\ pc' = "rmo" /\ Believe
  /\ UNCHANGED <<outbounds, added, failed, astray>>

RemoveRulesFails ==
  /\ At("rmrules") /\ Fails("rmrules")
  /\ \E gone \in 0 .. Len(rules) :
       /\ reach = "no" => gone = 0
       /\ rules' = SubSeq(rules, gone + 1, Len(rules))
  /\ Forget
  /\ UNCHANGED <<outbounds, added, astray>>

RemoveOutbounds ==
  /\ At("rmo")
  /\ Stale = {} \/ reach = "yes"
  /\ outbounds' = [e \in Egresses |-> IF e \in Stale THEN None ELSE outbounds[e]]
  /\ added' = [e \in Egresses |-> IF e \in Stale THEN None ELSE added[e]]
  /\ pc' = "ado" /\ Believe
  /\ UNCHANGED <<rules, failed, astray, upsets>>

\* In the order of their tags; what this agent added is not forgotten.
RemoveOutboundsFails ==
  /\ At("rmo") /\ Stale # {} /\ Fails("rmo")
  /\ \E gone \in {{e \in Stale : e < n} : n \in Stale} \cup {Stale} :
       /\ reach = "no" => gone = {}
       /\ outbounds' = [e \in Egresses |-> IF e \in gone THEN None ELSE outbounds[e]]
       /\ astray' = IF gone = {} THEN astray ELSE "yes"
  /\ pc' = "fallback" /\ Believe
  /\ UNCHANGED <<rules, added>>

AddOutbounds ==
  /\ At("ado")
  /\ Changed = {} \/ reach = "yes"
  /\ outbounds' = [e \in Egresses |-> IF e \in Changed THEN Wanted[e] ELSE outbounds[e]]
  /\ added' = [e \in Egresses |-> IF e \in Changed THEN Wanted[e] ELSE added[e]]
  /\ pc' = "adrules" /\ Believe
  /\ UNCHANGED <<rules, failed, astray, upsets>>

AddOutboundsFails ==
  /\ At("ado") /\ Changed # {} /\ Fails("ado")
  /\ \E done \in {{e \in Changed : e < n} : n \in Changed} \cup {Changed} :
       /\ reach = "no" => done = {}
       /\ outbounds' = [e \in Egresses |-> IF e \in done THEN Wanted[e] ELSE outbounds[e]]
  /\ pc' = "fallback" /\ Believe
  /\ UNCHANGED <<rules, added, astray>>

AddRules ==
  /\ At("adrules")
  /\ Desired = <<>> \/ reach = "yes"
  /\ rules' = rules \o Desired
  /\ pc' = "default" /\ Believe
  /\ UNCHANGED <<outbounds, added, failed, astray, upsets>>

AddRulesFails ==
  /\ At("adrules") /\ Desired # <<>> /\ Fails("adrules")
  /\ rules' \in {rules} \cup IF reach = "yes" THEN {rules \o Desired} ELSE {}
  /\ pc' = "fallback" /\ Believe
  /\ UNCHANGED <<outbounds, added, astray>>

\* Xray refuses a rule whose tag is there.
AddFallback ==
  /\ At("fallback")
  /\ Fallback = <<>> \/ reach = "yes"
  /\ rules' = IF NoneOurs THEN Fallback ELSE rules
  /\ pc' = "default" /\ Believe
  /\ UNCHANGED <<outbounds, added, failed, astray, upsets>>

AddFallbackFails ==
  /\ At("fallback") /\ Fallback # <<>> /\ Fails("fallback")
  /\ rules' \in {rules} \cup IF reach = "yes" /\ NoneOurs THEN {Fallback} ELSE {}
  /\ pc' = "default" /\ Believe
  /\ UNCHANGED <<outbounds, added, astray>>

\* The default rule always goes back, last.
AddDefault ==
  /\ At("default") /\ Works
  /\ rules' = Append(rules, DefaultRule)
  /\ IF failed = {} THEN pc' = "verify" /\ Believe ELSE Forget
  /\ UNCHANGED <<outbounds, added, failed, astray>>

AddDefaultFails ==
  /\ At("default") /\ Fails("default")
  /\ rules' \in {rules} \cup IF reach = "yes" THEN {Append(rules, DefaultRule)} ELSE {}
  /\ Forget
  /\ UNCHANGED <<outbounds, added, astray>>

Verify ==
  /\ At("verify") /\ Works
  /\ IF Tags(Ours) = Tags(Desired) /\ rules[Len(rules)] = DefaultRule
       THEN /\ applied' = [outbounds |-> Wanted, rules |-> Desired]
            /\ states' = NowStates /\ error' = "no" /\ pc' = "idle"
       ELSE Forget
  /\ UNCHANGED <<xrayVars, added, failed, astray>>

VerifyFails ==
  /\ At("verify") /\ Fails("read")
  /\ Forget
  /\ UNCHANGED <<xrayVars, added, astray>>

-----------------------------------------------------------------------------
World ==
  \/ \E e \in Egresses : set_enabled(e) \/ save(e) \/ EgressChanges(e)
  \/ \E a \in Ids : Reassign(a) \/ Rematch(a)
  \/ Deploy \/ XrayRestarts \/ AgentRestarts \/ HandleLate

apply ==
  \/ Nothing \/ Look \/ RemoveRules \/ RemoveOutbounds \/ AddOutbounds \/ AddRules
  \/ AddFallback \/ AddDefault \/ Verify

CallFails ==
  \/ LookFails \/ RemoveRulesFails \/ RemoveOutboundsFails \/ AddOutboundsFails
  \/ AddRulesFails \/ AddFallbackFails \/ AddDefaultFails \/ VerifyFails

Agent == Read \/ Exchange \/ CutOff \/ check \/ apply \/ CallFails

Next == World \/ Agent \/ ExchangeFails \/ CheckFails

Spec == Init /\ [][Next]_vars

\* The agent is a loop in one process; cut off from Xray it stops and Docker
\* starts it again.
FairSpec ==
  Spec /\ WF_vars(Agent) /\ WF_vars(reach = "no" /\ pc = "idle" /\ AgentRestarts)

-----------------------------------------------------------------------------
(***************************************************************************)
(* Properties.                                                             *)
(***************************************************************************)
AtRest == pc = "idle" /\ reach = "yes"

RunsExactly(signature) ==
  /\ rules = signature.rules \o <<DefaultRule>>
  /\ outbounds = signature.outbounds

\* What the agent believes runs is what Xray runs: these rules with these matches in
\* this order, these outbounds with these settings, the default rule last; whichever
\* calls failed before, although it compares tags only.  (Not once the removal of an
\* outbound failed after it was gone: the agent still remembers having added it.)
BelievesWhatRuns ==
  AtRest /\ applied # None /\ astray = "no" => RunsExactly(applied)

\* When only outbounds could not be removed or added, or only the rules could not,
\* every assignment that is to block leads, with all its rules, through its egress as
\* it is wanted or nowhere, until the next apply.  (As it is wanted, not once the removal
\* of an outbound failed after it was gone, as in BelievesWhatRuns.)
RulesFor(a) == {n \in DOMAIN rules : rules[n].id = a}

Covered(a) ==
  /\ {rules[n].index : n \in RulesFor(a)} = DOMAIN Pool[a].rules
  /\ \A n \in RulesFor(a) :
       rules[n].to = "egress" =>
         astray = "yes" \/ outbounds[Pool[a].egress] = Wanted[Pool[a].egress]

BlocksOnFailure ==
  AtRest /\ failed # {} /\ (failed = {"adrules"} \/ failed \in SUBSET {"rmo", "ado"}) =>
    \A a \in Ids :
      payload.assignments[a] # None /\ Pool[a].on_failure = "block" => Covered(a)

\* What the agent says of an assignment is so, and it is so by the last RECOVER
\* checks: through its egress unless one of them failed (of UDP, if it takes UDP).
NoFailure(list) == \A n \in DOMAIN list : list[n] = "ok"

Leads(a) ==
  IF RulesFor(a) = {} THEN "direct"
  ELSE IF \E n \in RulesFor(a) : rules[n].to = "egress" THEN "active" ELSE "blocked"

SwitchesByChecks ==
  AtRest /\ applied # None /\ failed = {} =>
    \A a \in Ids : payload.assignments[a] # None =>
      LET e == Pool[a].egress
          good == /\ ~EgressOff(payload, a)
                  /\ NoFailure(seen[e].tcp)
                  /\ Pool[a].udp = "yes" => NoFailure(seen[e].udp)
      IN  /\ states[a] = Leads(a)
          /\ Leads(a) = IF good THEN "active"
                        ELSE IF Pool[a].on_failure = "block" THEN "blocked" ELSE "direct"

\* The plan the agent names as applied, when it sends the first report of a tick, runs on
\* the node: the outbounds of that plan, for each of its assignments rules with its match
\* that lead where the states sent with it say, and none for the others.  (Not when Xray
\* restarted since it was read, when the check of the tick before raised, for then the
\* plan named was not applied, nor as in BelievesWhatRuns.)  egress_applied and
\* egress_states in report.  Recorded late, it may be of another moment: see Converges.
RunsAsReported(r) ==
  /\ outbounds = r.applied.outbounds
  /\ \A a \in Ids :
       IF r.applied.assignments[a] = None THEN RulesFor(a) = {}
       ELSE /\ Leads(a) = r.states[a]
            /\ \A n \in RulesFor(a) : rules[n].match = r.applied.assignments[a]

ReportedRuns ==
  pc = "send" /\ reach = "yes" /\ NewReport.applied # None
    /\ failed # {"check"} /\ astray = "no" => RunsAsReported(NewReport)

\* After the last change, failure and restart, the node runs the console's plan, each
\* assignment as its egress works by then, and the console shows just that.
Ideal ==
  [a \in Ids |->
     LET e == Pool[a].egress
     IN  IF plan.assignments[a] = None THEN "pending"
         ELSE IF ~EgressOff(plan, a) /\ works[e] # "none"
                 /\ (Pool[a].udp = "yes" => works[e] = "both") THEN "active"
         ELSE IF Pool[a].on_failure = "block" THEN "blocked" ELSE "direct"]

Converges ==
  <>[](/\ payload = plan
       /\ row = [applied |-> plan, states |-> Ideal, error |-> "no"]
       /\ astray = "no" => RunsExactly([outbounds |-> plan.outbounds, rules |-> Desired]))

\* "Rather cut than change the address": while it is applied, an assignment that is
\* to block never goes direct.
NeverDirect ==
  reach = "yes" /\ applied # None =>
    \A n \in DOMAIN applied.rules :
      LET a == applied.rules[n].id
      IN  Pool[a].on_failure = "block" /\ payload.assignments[a] # None => RulesFor(a) # {}
=============================================================================
