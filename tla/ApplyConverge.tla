---------------------------- MODULE ApplyConverge ----------------------------
(***************************************************************************)
(* Deploying a node's configuration.                                       *)
(*                                                                         *)
(* A deployment (edge.yml) runs the applier on the node                    *)
(* (roles/xray_edge/files/xray_edge_apply.py): it renders the desired      *)
(* state, compares it with conf.d, saves conf.d as last-good, replaces the *)
(* files one by one, and brings Xray in line through its API (only users   *)
(* differ) or by a restart.  It verifies the running users and puts        *)
(* last-good back when that fails.  Then compose starts what does not run  *)
(* and the applier verifies once more.                                     *)
(*                                                                         *)
(* Xray reads conf.d whenever it starts, also by itself after a crash; the *)
(* node agent changes the running users meanwhile (see UserSync).  The     *)
(* applier is cut off when it is killed, when a file cannot be written and *)
(* when a command takes too long: none of these is an ApplyError.          *)
(*                                                                         *)
(* A file holds a shape (everything but the rest), in the inbounds the     *)
(* users' credentials, and in the outbounds and the routing the proxy      *)
(* egress the console manages.  A user of OwnId has a short id of its own, *)
(* which REALITY accepts only when it was in the file Xray started from;   *)
(* the others share one that is always there.  Where the node agent        *)
(* manages the proxy egress at runtime, a deployment that changes it       *)
(* leaves it to the agent and restarts nothing; what the agent makes of    *)
(* the running outbounds and rules is EgressApply.                         *)
(***************************************************************************)
EXTENDS Naturals

CONSTANTS
  Users,
  OwnId,      \* the users with a short id of their own
  Shapes,     \* what the inventory may say: numbers from 1
  Bad,        \* the shapes that pass the test and that Xray does not start with
  Files,      \* how many files
  Inbounds,   \* the one with the users
  Proxied,    \* those with the proxy egress
  Egresses,   \* what the console's proxy egress may be: numbers from 1
  MaxUpsets   \* bound: changes, crashes, failed calls and cut-off deployments

ASSUME ApplyAssumption ==
  /\ OwnId \subseteq Users
  /\ Shapes \subseteq Nat \ {0} /\ 1 \in Shapes
  /\ Bad \subseteq Shapes
  /\ Files \in Nat \ {0} /\ Inbounds \in 1 .. Files
  /\ Proxied \subseteq 1 .. Files
  /\ Egresses \subseteq Nat \ {0} /\ 1 \in Egresses
  /\ MaxUpsets \in Nat

FileNos == 1 .. Files
List == [Users -> Nat]
Nobody == [u \in Users |-> 0]
Doc == [shape : Nat, egress : Nat, clients : List]
Conf == [FileNos -> Doc]
Missing == [shape |-> 0, egress |-> 0, clients |-> Nobody]
Empty == [f \in FileNos |-> Missing]

VARIABLES
  present, cred,  \* the console: the node's users, and their credentials
  egress,         \* the console: the node's proxy egress
  shape,          \* the inventory
  conf, lastGood, \* the directories
  xray,           \* none, starting (or failing to) or up; the files it started
                  \* from; the users it runs
  pc,             \* where the deployment is
  want, live,     \* the applier: rendered, and conf.d when it began
  action, wasUp,
  at,             \* the file at hand
  cut,            \* ghost: was an applier ever cut off; "open" until Xray is
                  \* started again
  handed,         \* ghost: "yes" when a deployment left a changed proxy egress to
                  \* the agent since Xray was started
  synced,         \* ghost: lists the agent applied since the deployment began
  upsets

consoleVars == <<present, cred, egress, shape>>
dirVars == <<conf, lastGood>>
runVars == <<want, live, action, wasUp>>
vars == <<consoleVars, dirVars, xray, pc, runVars, at, cut, handed, synced,
          upsets>>

Steps == {"idle", "save", "saving", "install", "remove", "add", "restart",
          "wait", "verify", "restore", "back", "compose", "check", "done"}

TypeOK ==
  /\ present \in SUBSET Users /\ cred \in List
  /\ egress \in Egresses /\ shape \in Shapes
  /\ conf \in Conf /\ lastGood \in Conf
  /\ xray \in [state : {"none", "starting", "up"}, files : Conf, clients : List]
  /\ pc \in Steps
  /\ want \in Conf /\ live \in Conf
  /\ action \in {"none", "api", "restart"}
  /\ wasUp \in {"yes", "no"}
  /\ at \in FileNos
  /\ cut \in {"no", "open", "past"} /\ handed \in {"no", "yes"}
  /\ synced \in SUBSET List
  /\ upsets \in Nat

\* The console's list for the node (console.admin node-users, and POST /sync).
TheList == [u \in Users |-> IF u \in present THEN cred[u] ELSE 0]

Rendered(list, e, s) ==
  [f \in FileNos |-> [shape |-> s,
                      egress |-> IF f \in Proxied THEN e ELSE 0,
                      clients |-> IF f = Inbounds THEN list ELSE Nobody]]

\* A node never deployed to.
Init ==
  /\ present = Users /\ cred = [u \in Users |-> 1] /\ egress = 1 /\ shape = 1
  /\ conf = Empty /\ lastGood = Empty
  /\ xray = [state |-> "none", files |-> Empty, clients |-> Nobody]
  /\ pc = "idle" /\ want = Empty /\ live = Empty
  /\ action = "none" /\ wasUp = "no" /\ at = 1
  /\ cut = "no" /\ handed = "no" /\ synced = {} /\ upsets = 0

Names(list) == {u \in Users : list[u] # 0}

Ids(c) == Names(c[Inbounds].clients) \cap OwnId

SameShape(c, d) == \A f \in FileNos : c[f].shape = d[f].shape

SameEgress(c, d) == \A f \in FileNos : c[f].egress = d[f].egress

Upset == upsets < MaxUpsets /\ upsets' = upsets + 1

-----------------------------------------------------------------------------
(***************************************************************************)
(* Around the deployment.                                                  *)
(***************************************************************************)

\* A user is enabled or disabled for the node, or gets new credentials.
ChangeUsers ==
  /\ Upset
  /\ \E u \in Users :
       \/ present' = (present \ {u}) \cup ({u} \ present) /\ UNCHANGED cred
       \/ cred' = [cred EXCEPT ![u] = cred[u] + 1] /\ UNCHANGED present
  /\ UNCHANGED <<egress, shape, dirVars, xray, pc, runVars, at, cut, handed,
                 synced>>

\* A proxy or what goes through it is changed for the node.
ChangeEgress ==
  /\ Upset
  /\ egress' \in Egresses \ {egress}
  /\ UNCHANGED <<present, cred, shape, dirVars, xray, pc, runVars, at, cut, handed,
                 synced>>

ChangeShape ==
  /\ Upset
  /\ shape' \in Shapes \ {shape}
  /\ UNCHANGED <<present, cred, egress, dirVars, xray, pc, runVars, at, cut, handed,
                 synced>>

\* The node agent makes Xray run the console's list.
AgentSyncs ==
  /\ xray.state = "up"
  /\ xray.clients # TheList
  /\ xray' = [state |-> "up", files |-> xray.files, clients |-> TheList]
  /\ synced' = IF pc = "idle" THEN synced ELSE synced \cup {TheList}
  /\ UNCHANGED <<consoleVars, dirVars, pc, runVars, at, cut, handed, upsets>>

\* The files of this deployment differ by the proxy egress, without a restart.
HandsOver == action = "api" /\ ~SameEgress(live, want)

\* Xray comes up with what is in conf.d, complete or not.
ComesUp ==
  /\ xray.state = "starting"
  /\ \A f \in FileNos : conf[f].shape \notin Bad \cup {0}
  /\ xray' = [state |-> "up", files |-> conf, clients |-> conf[Inbounds].clients]
  /\ cut' = IF cut = "open" THEN "past" ELSE cut
  /\ handed' = IF pc \in {"save", "saving", "install"} /\ HandsOver THEN handed
                                                                   ELSE "no"
  /\ UNCHANGED <<consoleVars, dirVars, pc, runVars, at, synced, upsets>>

Starting == [state |-> "starting", files |-> xray.files, clients |-> xray.clients]

\* Docker starts it again (restart: unless-stopped).
XrayStops ==
  /\ Upset
  /\ xray.state = "up"
  /\ xray' = Starting
  /\ UNCHANGED <<consoleVars, dirVars, pc, runVars, at, cut, handed, synced>>

-----------------------------------------------------------------------------
(***************************************************************************)
(* Helpers of the applier.                                                 *)
(***************************************************************************)
EgressAtRuntime(now, rendered, runtime) ==
  /\ SameShape(now, rendered)
  /\ Ids(rendered) \subseteq Ids(now)

\* Only users differ; and the proxy egress where the agent manages it (runtime).
\* A new short id needs a restart, one left over does no harm.
UsersDiffer(now, rendered, runtime) ==
  /\ SameShape(now, rendered)
  /\ runtime \/ SameEgress(now, rendered)
  /\ Ids(rendered) \subseteq Ids(now)

classify(now, rendered, runtime) ==
  IF now = rendered THEN "none"
  ELSE IF UsersDiffer(now, rendered, runtime) THEN "api" ELSE "restart"

\* user_diff: a changed client is removed, then added.
Remove ==
  {u \in Names(live[Inbounds].clients) :
     live[Inbounds].clients[u] # want[Inbounds].clients[u]}

Add ==
  {u \in Names(want[Inbounds].clients) :
     live[Inbounds].clients[u] # want[Inbounds].clients[u]}

Without(list, users) == [u \in Users |-> IF u \in users THEN 0 ELSE list[u]]

\* Xray rejects a user it already runs.
With(list, users) ==
  [u \in Users |-> IF u \in users /\ list[u] = 0
                     THEN want[Inbounds].clients[u] ELSE list[u]]

Running(list) == [state |-> "up", files |-> xray.files, clients |-> list]

\* verify: the names, not the credentials.
Verified ==
  xray.state = "up" /\ Names(xray.clients) = Names(want[Inbounds].clients)

-----------------------------------------------------------------------------
(***************************************************************************)
(* The applier: cmd_apply.  Each action is one call to the outside.        *)
(***************************************************************************)
Go(step) == pc' = step /\ at' = 1

\* Render, read conf.d, classify, test the candidate (a rejected one changes
\* nothing), look whether the container runs.  The inventory says whether the
\* agent manages the proxy egress, and may say otherwise the next time.
Begin ==
  \E runtime \in BOOLEAN :
  LET rendered == Rendered(TheList, egress, shape)
      todo == classify(conf, rendered, runtime)
  IN  /\ pc = "idle"
      /\ want' = rendered /\ live' = conf /\ action' = todo
      /\ wasUp' = IF xray.state = "none" THEN "no" ELSE "yes"
      /\ synced' = {}
      /\ handed' = IF runtime /\ todo = "api" /\ ~SameEgress(conf, rendered)
                     THEN "yes" ELSE handed
      /\ Go(CASE todo = "none" -> "compose"
              [] todo # "none" /\ conf = Empty -> "install"
              [] todo # "none" /\ conf # Empty -> "save")
      /\ UNCHANGED <<consoleVars, dirVars, xray, cut, upsets>>

KeepOlder ==
  /\ pc = "save"
  /\ UNCHANGED lastGood
  /\ Go(IF lastGood = Empty THEN "saving" ELSE "install")
  /\ UNCHANGED <<consoleVars, conf, xray, runVars, cut, handed, synced, upsets>>

\* install: last-good is removed, and written anew.
DropLastGood ==
  /\ pc = "save"
  /\ lastGood' = Empty
  /\ Go("saving")
  /\ UNCHANGED <<consoleVars, conf, xray, runVars, cut, handed, synced, upsets>>

NextFile(step, after) ==
  IF at < Files THEN pc' = step /\ at' = at + 1 ELSE Go(after)

SaveFile ==
  /\ pc = "saving"
  /\ lastGood' = [lastGood EXCEPT ![at] = live[at]]
  /\ NextFile("saving", "install")
  /\ UNCHANGED <<consoleVars, conf, xray, runVars, cut, handed, synced, upsets>>

\* What follows the files; the container that did not run is left to compose.
Then ==
  CASE wasUp = "no" -> "compose"
    [] wasUp = "yes" /\ action = "api" -> "remove"
    [] wasUp = "yes" /\ action # "api" -> "restart"

InstallFile ==
  /\ pc = "install"
  /\ conf' = [conf EXCEPT ![at] = want[at]]
  /\ NextFile("install", Then)
  /\ UNCHANGED <<consoleVars, lastGood, xray, runVars, cut, handed, synced, upsets>>

RemoveUsers ==
  /\ pc = "remove"
  /\ xray.state = "up"
  /\ xray' = Running(Without(xray.clients, Remove))
  /\ Go("add")
  /\ UNCHANGED <<consoleVars, dirVars, runVars, cut, handed, synced, upsets>>

AddUsers ==
  /\ pc = "add"
  /\ xray.state = "up"
  /\ \A u \in Add : xray.clients[u] = 0
  /\ xray' = Running(With(xray.clients, Add))
  /\ Go("verify")
  /\ UNCHANGED <<consoleVars, dirVars, runVars, cut, handed, synced, upsets>>

\* The API is not there, a user to remove does not run or one to add does, or
\* the call fails after part of its work: a restart makes the runtime match the
\* files.
Unable ==
  \/ xray.state # "up"
  \/ pc = "remove" /\ \E u \in Remove : xray.clients[u] = 0
  \/ pc = "add" /\ \E u \in Add : xray.clients[u] # 0

ApiFails ==
  /\ pc \in {"remove", "add"}
  /\ IF Unable THEN UNCHANGED upsets ELSE Upset
  /\ IF xray.state # "up" THEN UNCHANGED xray
     ELSE IF pc = "remove"
       THEN \E users \in SUBSET Remove : xray' = Running(Without(xray.clients, users))
       ELSE \E users \in SUBSET Add : xray' = Running(With(xray.clients, users))
  /\ action' = "restart"
  /\ Go("restart")
  /\ UNCHANGED <<consoleVars, dirVars, want, live, wasUp, cut, handed, synced>>

\* docker restart, then wait for the API.
Restart ==
  /\ pc = "restart"
  /\ xray' = Starting
  /\ Go("wait")
  /\ UNCHANGED <<consoleVars, dirVars, runVars, cut, handed, synced, upsets>>

Ready ==
  /\ pc = "wait"
  /\ xray.state = "up"
  /\ Go("verify")
  /\ UNCHANGED <<consoleVars, dirVars, xray, runVars, cut, handed, synced, upsets>>

Verify ==
  /\ pc = "verify"
  /\ Verified
  /\ Go("compose")
  /\ UNCHANGED <<consoleVars, dirVars, xray, runVars, cut, handed, synced, upsets>>

StayFailed ==
  /\ \/ pc = "restart" /\ Upset
     \/ pc = "wait" /\ xray.state # "up" /\ UNCHANGED upsets
     \/ pc = "verify" /\ IF Verified THEN Upset ELSE UNCHANGED upsets
  /\ Go("idle")
  /\ UNCHANGED <<consoleVars, dirVars, xray, runVars, cut, handed, synced>>

\* The ApplyErrors: docker restart fails, the API is not ready in time, the users
\* are others or cannot be listed.
ApplyFails ==
  /\ \/ pc = "restart" /\ Upset
     \/ pc = "wait" /\ xray.state # "up" /\ UNCHANGED upsets
     \/ pc = "verify" /\ IF Verified THEN Upset ELSE UNCHANGED upsets
  /\ Go(IF lastGood = Empty THEN "idle" ELSE "restore")
  /\ UNCHANGED <<consoleVars, dirVars, xray, runVars, cut, handed, synced>>

\* restore_last_good
RestoreFile ==
  /\ pc = "restore"
  /\ conf' = IF lastGood[at] = Missing THEN conf
                                       ELSE [conf EXCEPT ![at] = lastGood[at]]
  /\ NextFile("restore", "back")
  /\ UNCHANGED <<consoleVars, lastGood, xray, runVars, cut, handed, synced, upsets>>

NoRestart ==
  /\ pc = "back"
  /\ UNCHANGED xray
  /\ Go("idle")
  /\ UNCHANGED <<consoleVars, dirVars, runVars, cut, handed, synced, upsets>>

\* The restart that ends a failed deployment, whether the API answers or not.
RestartBack ==
  /\ pc = "back"
  /\ xray' = Starting
  /\ Go("idle")
  /\ UNCHANGED <<consoleVars, dirVars, runVars, cut, handed, synced, upsets>>

\* compose up: a container is made when there is none or its definition changed.
Compose ==
  /\ pc = "compose"
  /\ \/ xray' = Starting
     \/ xray.state # "none" /\ UNCHANGED xray
  /\ Go("check")
  /\ UNCHANGED <<consoleVars, dirVars, runVars, cut, handed, synced, upsets>>

\* cmd_verify decides whether the deployment succeeded; it changes nothing.
Check ==
  /\ pc = "check"
  /\ \/ Verified /\ Go("done") /\ UNCHANGED upsets
     \/ Go("idle") /\ IF Verified THEN Upset ELSE UNCHANGED upsets
  /\ UNCHANGED <<consoleVars, dirVars, xray, runVars, cut, handed, synced>>

End ==
  /\ pc = "done"
  /\ Go("idle")
  /\ UNCHANGED <<consoleVars, dirVars, xray, runVars, cut, handed, synced, upsets>>

\* A killed applier, an OSError of a file, a subprocess.TimeoutExpired (a restart
\* that took too long may still happen), or the last restart fails: nothing (more)
\* is put back.
CutOff ==
  /\ pc \notin {"idle", "compose", "check", "done"}
  /\ Upset
  /\ \/ UNCHANGED xray
     \/ pc \in {"restart", "back"} /\ xray' = Starting
  /\ Go("idle")
  /\ cut' = "open"
  /\ UNCHANGED <<consoleVars, dirVars, runVars, handed, synced>>

-----------------------------------------------------------------------------
Around ==
  \/ ChangeUsers \/ ChangeEgress \/ ChangeShape \/ AgentSyncs \/ ComesUp \/ XrayStops

Apply ==
  \/ DropLastGood \/ SaveFile \/ InstallFile \/ RemoveUsers \/ AddUsers
  \/ ApiFails \/ Restart \/ Ready \/ Verify \/ ApplyFails \/ RestoreFile
  \/ RestartBack

Next == Around \/ Begin \/ Apply \/ Compose \/ Check \/ End \/ CutOff

Spec == Init /\ [][Next]_vars

\* The applier runs to its end, or is cut off; a container that starts comes up
\* before deployment after deployment stops it again.
FairSpec ==
  /\ Spec
  /\ WF_vars(Apply) /\ WF_vars(Compose) /\ WF_vars(Check) /\ WF_vars(End)
  /\ SF_vars(ComesUp)

-----------------------------------------------------------------------------
(***************************************************************************)
(* Properties.                                                             *)
(***************************************************************************)

\* A deployment that succeeds leaves Xray running what it was asked for: every
\* file of it, the short ids its users need, and their credentials or those of a
\* newer list the agent applied meanwhile; unless Xray was not started since an
\* applier was cut off, and but for a proxy egress that a deployment left to the
\* agent since Xray was started.  Verify alone compares no more than names.
RunsWanted ==
  /\ SameShape(xray.files, want)
  /\ handed = "no" => SameEgress(xray.files, want)
  /\ Ids(want) \subseteq Ids(xray.files)
  /\ \A u \in Users :
       xray.clients[u] \in {want[Inbounds].clients[u]} \cup {list[u] : list \in synced}

SuccessRuns ==
  pc = "done" /\ cut # "open" =>
    conf = want /\ (xray.state = "up" => RunsWanted)

\* Between deployments, succeeded or failed, Xray was started from what is in
\* conf.d, but for the users and for a proxy egress that a deployment left to the
\* agent since: its next restart changes nothing else.
FilesRun ==
  pc = "idle" /\ cut # "open" /\ xray.state = "up" =>
    /\ SameShape(xray.files, conf)
    /\ handed = "no" => SameEgress(xray.files, conf)
    /\ Ids(conf) \subseteq Ids(xray.files)

\* A failed deployment puts back what it found, wherever it failed.
RolledBack ==
  pc = "back" => \A f \in FileNos : live[f] # Missing => conf[f] = live[f]

\* A configuration that Xray does not start with takes no node down for good that
\* ran between two deployments: it comes up again and again.  After an applier was
\* cut off last-good may be a mix of two configurations, or one that never ran.
Serves == pc = "idle" /\ xray.state = "up"

ServesAgain == [](Serves => []<>(xray.state = "up" \/ cut # "no"))
=============================================================================
