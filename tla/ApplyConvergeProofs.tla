------------------------- MODULE ApplyConvergeProofs -------------------------
(***************************************************************************)
(* Proofs about ApplyConverge, for any users, shapes, files and bounds:    *)
(* what the directories hold at each step of a deployment, that a failed   *)
(* one puts back what it found, that Xray runs what is in conf.d between   *)
(* deployments, and that one that succeeds leaves it running what was      *)
(* asked for, unless an applier was cut off.                               *)
(***************************************************************************)
EXTENDS ApplyConverge, TLAPS

-----------------------------------------------------------------------------
(***************************************************************************)
(* The inductive invariant behind FilesRun, RolledBack and SuccessRuns.    *)
(***************************************************************************)

\* Xray started from files that differ from these by users it need not know, and by
\* the proxy egress if that was left to the agent.
Agree(files, c, left) ==
  /\ SameShape(files, c)
  /\ left = "no" => SameEgress(files, c)
  /\ Ids(c) \subseteq Ids(files)

Installed == {"remove", "add", "restart", "wait", "verify", "compose", "check", "done"}

\* An installation that an API change can follow.
NeedsNoRestart(c, d) == SameShape(c, d) /\ Ids(d) \subseteq Ids(c)

\* What the directories hold at each step.
Directories ==
  /\ pc \in {"save", "saving"} => conf = live /\ live # Empty
  /\ pc = "saving" => \A f \in FileNos : f < at => lastGood[f] = live[f]
  /\ pc \in {"install", "remove", "add", "restart", "wait", "verify", "restore",
             "back"} => live = Empty \/ lastGood = live
  /\ pc = "install" =>
       \A f \in FileNos : conf[f] = IF f < at THEN want[f] ELSE live[f]
  /\ pc \in {"save", "saving", "install"} /\ action = "api" =>
       /\ NeedsNoRestart(live, want)
       /\ handed = "no" => SameEgress(live, want)
  /\ pc \in Installed => conf = want
  /\ pc = "restore" => \A f \in FileNos : f < at /\ live[f] # Missing => conf[f] = live[f]
  /\ RolledBack

\* A node that was ever started has a configuration; the applier that finds the
\* container finds one.
Started ==
  /\ xray.state # "none" => conf # Empty
  /\ pc # "idle" => \A f \in FileNos : want[f].shape # 0
  /\ pc \in {"save", "saving", "install"} =>
       \/ wasUp = "no" /\ xray.state = "none"
       \/ wasUp = "yes" /\ live # Empty
  /\ pc \in {"remove", "add", "restart", "wait", "verify", "restore", "back"} =>
       live # Empty

\* Xray runs the files that are there, or is about to be started from them.
RunsFiles ==
  cut # "open" /\ xray.state = "up" =>
    /\ pc \in {"idle", "save", "saving", "wait", "verify", "compose", "check", "done"}
         => Agree(xray.files, conf, handed)
    /\ (pc = "install" /\ action = "api") \/ pc \in {"remove", "add"} =>
         Agree(xray.files, want, handed)

\* Credentials are only replaced by newer ones, and every list is of some time.
Past(c) == \A f \in FileNos : \A u \in Users : c[f].clients[u] <= cred[u]

Older ==
  /\ Past(conf) /\ Past(lastGood) /\ Past(want) /\ Past(live)
  /\ \A u \in Users : xray.clients[u] <= cred[u]
  /\ \A list \in synced : \A u \in Users :
       list[u] <= cred[u] /\ (list[u] # 0 => want[Inbounds].clients[u] <= list[u])

\* The users Xray runs: between deployments none older than in the files; in one, who
\* stays as asked or as the agent applied meanwhile, then everyone, or missing.
Asked(u) == {want[Inbounds].clients[u]} \cup {list[u] : list \in synced}

RunsUsers ==
  cut # "open" /\ xray.state = "up" =>
    \A u \in Users :
      /\ pc = "idle" /\ xray.clients[u] # 0 => conf[Inbounds].clients[u] <= xray.clients[u]
      /\ pc \in {"save", "saving", "install", "remove", "add"}
           /\ want[Inbounds].clients[u] # 0
           /\ live[Inbounds].clients[u] = want[Inbounds].clients[u] =>
             xray.clients[u] \in Asked(u) \cup {0}
      /\ pc \in {"wait", "verify", "compose", "check"} /\ want[Inbounds].clients[u] # 0 =>
           xray.clients[u] \in Asked(u) \cup {0}
      /\ pc = "done" => xray.clients[u] \in Asked(u)

ApplyIInv == TypeOK /\ Directories /\ Started /\ RunsFiles /\ FilesRun
UsersIInv == ApplyIInv /\ Older /\ RunsUsers

USE ApplyAssumption

\* The rendered state is a configuration with every file.
LEMMA RenderedIsConf ==
  ASSUME NEW list \in List, NEW e \in Egresses, NEW s \in Shapes
  PROVE  /\ Rendered(list, e, s) \in Conf
         /\ \A f \in FileNos : Rendered(list, e, s)[f].shape # 0
<1>1. Nobody \in List
  BY DEF Nobody, List
<1>2. s \in Nat /\ s # 0 /\ e \in Nat
  OBVIOUS
<1>3. \A f \in FileNos : (IF f = Inbounds THEN list ELSE Nobody) \in List
  BY <1>1
<1>4. \A f \in FileNos :
        [shape |-> s, egress |-> IF f \in Proxied THEN e ELSE 0,
         clients |-> IF f = Inbounds THEN list ELSE Nobody] \in Doc
  BY <1>2, <1>3 DEF Doc
<1> QED
  BY <1>2, <1>4 DEF Rendered, Conf

LEMMA TheListIsList ==
  ASSUME present \in SUBSET Users, cred \in List
  PROVE  TheList \in List
BY DEF TheList, List

LEMMA EmptyIsConf == Empty \in Conf /\ Nobody \in List /\ Missing.shape = 0
<1>1. Nobody \in List
  BY DEF Nobody, List
<1> QED
  BY <1>1 DEF Empty, Missing, Conf, Doc

LEMMA ClientsAreList ==
  ASSUME NEW c \in Conf
  PROVE  c[Inbounds].clients \in List
BY DEF Conf, Doc, FileNos

\* A file replaced in a configuration.
LEMMA ReplacedIsConf ==
  ASSUME NEW c \in Conf, NEW d \in Conf, NEW f \in FileNos
  PROVE  [c EXCEPT ![f] = d[f]] \in Conf
BY DEF Conf

LEMMA WithoutIsList ==
  ASSUME NEW list \in List, NEW users
  PROVE  Without(list, users) \in List
BY DEF Without, List

LEMMA WithIsList ==
  ASSUME NEW list \in List, NEW users, want \in Conf
  PROVE  With(list, users) \in List
<1>1. want[Inbounds].clients \in List
  BY ClientsAreList
<1> QED
  BY <1>1 DEF With, List

\* The next file, or the step after the last.
LEMMA NextFileType ==
  ASSUME at \in FileNos, NEW step \in Steps, NEW after \in Steps,
         NextFile(step, after)
  PROVE  pc' \in Steps /\ at' \in FileNos
BY DEF NextFile, Go, FileNos

LEMMA GoType ==
  ASSUME NEW step \in Steps, Go(step)
  PROVE  pc' \in Steps /\ at' \in FileNos
BY DEF Go, FileNos

XrayType == [state : {"none", "starting", "up"}, files : Conf, clients : List]

-----------------------------------------------------------------------------
(***************************************************************************)
(* The type invariant.                                                     *)
(***************************************************************************)

LEMMA InitType == Init => TypeOK
<1> SUFFICES ASSUME Init PROVE TypeOK
  OBVIOUS
<1>1. cred \in List
  BY DEF Init, List
<1>2. xray \in XrayType
  BY EmptyIsConf DEF Init, XrayType
<1> QED
  BY <1>1, <1>2, EmptyIsConf DEF Init, TypeOK, XrayType, Steps, FileNos

LEMMA NextType == TypeOK /\ [Next]_vars => TypeOK'
<1> SUFFICES ASSUME TypeOK, [Next]_vars PROVE TypeOK'
  OBVIOUS
<1>0. xray \in XrayType
  BY DEF TypeOK, XrayType
<1>a. /\ upsets \in Nat
      /\ Upset => upsets' \in Nat
  BY DEF TypeOK, Upset
<1>1. CASE ChangeUsers
  <2>1. present' \in SUBSET Users /\ cred' \in List
    <3>1. PICK u \in Users :
            \/ present' = (present \ {u}) \cup ({u} \ present) /\ UNCHANGED cred
            \/ cred' = [cred EXCEPT ![u] = cred[u] + 1] /\ UNCHANGED present
      BY <1>1 DEF ChangeUsers
    <3> QED
      BY <3>1 DEF TypeOK, List
  <2> QED
    BY <1>1, <1>a, <2>1 DEF ChangeUsers, TypeOK, dirVars, runVars
<1>2. CASE ChangeShape \/ ChangeEgress
  BY <1>2, <1>a DEF ChangeShape, ChangeEgress, TypeOK, dirVars, runVars
<1>3. CASE AgentSyncs
  <2>1. TheList \in List
    BY TheListIsList DEF TypeOK
  <2>2. xray' \in XrayType
    BY <1>3, <1>0, <2>1 DEF AgentSyncs, XrayType
  <2>3. synced' \in SUBSET List
    BY <1>3, <2>1 DEF AgentSyncs, TypeOK
  <2> QED
    BY <1>3, <2>2, <2>3 DEF AgentSyncs, TypeOK, XrayType, consoleVars, dirVars, runVars
<1>4. CASE ComesUp
  <2>1. xray' \in XrayType
    BY <1>4, ClientsAreList DEF ComesUp, XrayType, TypeOK
  <2> QED
    BY <1>4, <2>1 DEF ComesUp, TypeOK, XrayType, consoleVars, dirVars, runVars
<1>5. Starting \in XrayType
  BY <1>0 DEF Starting, XrayType
<1>6. CASE XrayStops
  BY <1>6, <1>a, <1>5 DEF XrayStops, TypeOK, XrayType, consoleVars, dirVars, runVars
<1>7. CASE Begin
  <2>1. Rendered(TheList, egress, shape) \in Conf
    BY TheListIsList, RenderedIsConf DEF TypeOK
  <2>2. want' \in Conf /\ live' \in Conf
    BY <1>7, <2>1 DEF Begin, TypeOK
  <2>3. /\ action' \in {"none", "api", "restart"} /\ wasUp' \in {"yes", "no"}
        /\ handed' \in {"no", "yes"}
    BY <1>7 DEF Begin, classify, TypeOK
  <2>4. pc' \in Steps /\ at' \in FileNos
    BY <1>7 DEF Begin, Go, Steps, FileNos, classify
  <2>5. UNCHANGED <<consoleVars, dirVars, xray, cut, upsets>> /\ synced' = {}
    BY <1>7 DEF Begin
  <2> QED
    BY <2>2, <2>3, <2>4, <2>5 DEF TypeOK, consoleVars, dirVars
<1>8. CASE DropLastGood
  BY <1>8, GoType, EmptyIsConf
  DEF DropLastGood, TypeOK, Steps, consoleVars, runVars
<1>9. CASE SaveFile
  <2>1. lastGood' \in Conf
    BY <1>9, ReplacedIsConf DEF SaveFile, TypeOK
  <2>2. pc' \in Steps /\ at' \in FileNos
    BY <1>9, NextFileType DEF SaveFile, TypeOK, Steps
  <2> QED
    BY <1>9, <2>1, <2>2 DEF SaveFile, TypeOK, consoleVars, runVars
<1>10. CASE InstallFile
  <2>1. conf' \in Conf
    BY <1>10, ReplacedIsConf DEF InstallFile, TypeOK
  <2>2. Then \in Steps
    BY DEF Then, TypeOK, Steps
  <2>3. pc' \in Steps /\ at' \in FileNos
    BY <1>10, <2>2, NextFileType DEF InstallFile, TypeOK, Steps
  <2> QED
    BY <1>10, <2>1, <2>3 DEF InstallFile, TypeOK, consoleVars, runVars
<1>11. CASE RemoveUsers
  <2>1. xray' \in XrayType
    BY <1>11, <1>0, WithoutIsList DEF RemoveUsers, Running, XrayType
  <2> QED
    BY <1>11, <2>1, GoType
    DEF RemoveUsers, TypeOK, XrayType, Steps, consoleVars, dirVars, runVars
<1>12. CASE AddUsers
  <2>1. xray' \in XrayType
    BY <1>12, <1>0, WithIsList DEF AddUsers, Running, XrayType, TypeOK
  <2> QED
    BY <1>12, <2>1, GoType
    DEF AddUsers, TypeOK, XrayType, Steps, consoleVars, dirVars, runVars
<1>13. CASE ApiFails
  <2>1. \A users : Running(Without(xray.clients, users)) \in XrayType
    BY <1>0, WithoutIsList DEF Running, XrayType
  <2>2. \A users : Running(With(xray.clients, users)) \in XrayType
    BY <1>0, WithIsList DEF Running, XrayType, TypeOK
  <2>3. xray' \in XrayType
    BY <1>13, <1>0, <2>1, <2>2 DEF ApiFails
  <2>4. upsets' \in Nat
    BY <1>13, <1>a DEF ApiFails
  <2> QED
    BY <1>13, <2>3, <2>4, GoType
    DEF ApiFails, TypeOK, XrayType, Steps, consoleVars, dirVars
<1>14. CASE Restart
  BY <1>14, <1>5, GoType
  DEF Restart, TypeOK, XrayType, Steps, consoleVars, dirVars, runVars
<1>15. CASE Ready \/ Verify
  BY <1>15, GoType
  DEF Ready, Verify, TypeOK, Steps, consoleVars, dirVars, runVars
<1>16. CASE ApplyFails
  <2>1. upsets' \in Nat
    BY <1>16, <1>a DEF ApplyFails
  <2> QED
    BY <1>16, <2>1, GoType DEF ApplyFails, TypeOK, Steps, consoleVars, dirVars, runVars
<1>17. CASE RestoreFile
  <2>1. conf' \in Conf
    BY <1>17, ReplacedIsConf DEF RestoreFile, TypeOK
  <2>2. pc' \in Steps /\ at' \in FileNos
    BY <1>17, NextFileType DEF RestoreFile, TypeOK, Steps
  <2> QED
    BY <1>17, <2>1, <2>2 DEF RestoreFile, TypeOK, consoleVars, runVars
<1>18. CASE RestartBack
  BY <1>18, <1>5, GoType
  DEF RestartBack, TypeOK, XrayType, Steps, consoleVars, dirVars, runVars
<1>19. CASE Compose
  BY <1>19, <1>5, <1>0, GoType
  DEF Compose, TypeOK, XrayType, Steps, consoleVars, dirVars, runVars
<1>20. CASE Check
  <2>1. upsets' \in Nat
    BY <1>20, <1>a DEF Check
  <2> QED
    BY <1>20, <2>1, GoType DEF Check, TypeOK, Steps, consoleVars, dirVars, runVars
<1>21. CASE End
  BY <1>21, GoType DEF End, TypeOK, Steps, consoleVars, dirVars, runVars
<1>22. CASE CutOff
  BY <1>22, <1>5, <1>a, <1>0, GoType
  DEF CutOff, TypeOK, XrayType, Steps, consoleVars, dirVars, runVars
<1>23. CASE UNCHANGED vars
  BY <1>23 DEF vars, TypeOK, consoleVars, dirVars, runVars
<1> QED
  BY <1>1, <1>2, <1>3, <1>4, <1>6, <1>7, <1>8, <1>9, <1>10, <1>11, <1>12, <1>13,
     <1>14, <1>15, <1>16, <1>17, <1>18, <1>19, <1>20, <1>21, <1>22, <1>23
  DEF Next, Around, Apply

\* Every variable keeps its type, for any users, shapes, files and bounds.
THEOREM TypeCorrect == Spec => []TypeOK
<1> QED
  BY InitType, NextType, PTL DEF Spec

-----------------------------------------------------------------------------
(***************************************************************************)
(* The inductive invariant.                                                *)
(***************************************************************************)

LEMMA AgreeItself == ASSUME NEW c, NEW left PROVE Agree(c, c, left)
BY DEF Agree, SameShape, SameEgress

LEMMA AgreeOnward ==
  ASSUME NEW files, NEW c, NEW d, NEW left, Agree(files, c, left),
         NeedsNoRestart(c, d), left = "no" => SameEgress(c, d)
  PROVE  Agree(files, d, left)
BY DEF Agree, NeedsNoRestart, SameShape, SameEgress

\* What Xray reads between two files of an installation that only changes users.
LEMMA HalfInstalledAgrees ==
  ASSUME NEW c, NEW old, NEW new, NEW left, NeedsNoRestart(old, new),
         left = "no" => SameEgress(old, new),
         \A f \in FileNos : c[f] = new[f] \/ c[f] = old[f]
  PROVE  Agree(c, new, left)
<1>1. SameShape(c, new)
  BY DEF SameShape, NeedsNoRestart
<1>2. Ids(new) \subseteq Ids(c)
  BY DEF Ids, NeedsNoRestart, FileNos
<1>3. left = "no" => SameEgress(c, new)
  BY DEF SameEgress
<1> QED
  BY <1>1, <1>2, <1>3 DEF Agree

LEMMA SameConf ==
  ASSUME NEW c \in Conf, NEW d \in Conf, \A f \in FileNos : c[f] = d[f]
  PROVE  c = d
BY DEF Conf

LEMMA NotEmpty ==
  ASSUME NEW c, NEW f \in FileNos, c[f] # Missing
  PROVE  c # Empty
BY DEF Empty

LEMMA HasAFile ==
  ASSUME NEW c \in Conf, c # Empty
  PROVE  \E f \in FileNos : c[f] # Missing
<1>1. Empty \in Conf /\ \A f \in FileNos : Empty[f] = Missing
  BY EmptyIsConf DEF Empty
<1> QED
  BY <1>1, SameConf

LEMMA WantIsThere ==
  ASSUME NEW c, \A f \in FileNos : c[f].shape # 0
  PROVE  c # Empty
<1>1. Inbounds \in FileNos /\ Missing.shape = 0
  BY DEF FileNos, Missing
<1> QED
  BY <1>1, NotEmpty

\* FilesRun is what RunsFiles says of a deployment that is over.
LEMMA RunsFilesRuns == RunsFiles => FilesRun
BY DEF RunsFiles, FilesRun, Agree

\* Once every file is written there is a configuration, and after a failed
\* deployment too.
LEMMA ConfIsThere ==
  ASSUME TypeOK, Directories, Started, pc \in Installed \cup {"back"}
  PROVE  conf # Empty
<1>1. CASE pc \in Installed
  BY <1>1, WantIsThere DEF Directories, Started, Installed
<1>2. CASE pc = "back"
  <2>1. live # Empty /\ live \in Conf
    BY <1>2 DEF Started, TypeOK
  <2>2. PICK f \in FileNos : live[f] # Missing
    BY <2>1, HasAFile
  <2>3. conf[f] # Missing
    BY <1>2, <2>2 DEF Directories, RolledBack
  <2> QED
    BY <2>3, NotEmpty
<1> QED
  BY <1>1, <1>2

LEMMA InitIInv == Init => ApplyIInv
<1> SUFFICES ASSUME Init PROVE ApplyIInv
  OBVIOUS
<1>1. Directories /\ Started /\ RunsFiles /\ FilesRun
  BY DEF Init, Directories, Started, RunsFiles, FilesRun, RolledBack, Installed
<1> QED
  BY <1>1, InitType DEF ApplyIInv

Deployment == Directories /\ Started /\ RunsFiles

\* Nothing but the console changes.
LEMMA ElsewhereStep ==
  ASSUME Deployment, UNCHANGED <<dirVars, xray, pc, runVars, at, cut, handed>>
  PROVE  Deployment'
BY DEF Deployment, Directories, Started, RunsFiles, RolledBack, dirVars, runVars

LEMMA XrayStep ==
  ASSUME TypeOK, TypeOK', Deployment, AgentSyncs \/ ComesUp \/ XrayStops
  PROVE  Deployment'
<1>1. /\ UNCHANGED <<dirVars, pc, runVars, at>>
      /\ xray.state # "none" /\ xray'.state # "none"
      /\ \/ handed' = handed
         \/ handed' = "no" /\ ~(pc \in {"save", "saving", "install"} /\ HandsOver)
  BY DEF AgentSyncs, ComesUp, XrayStops, Starting
<1>2. Directories' /\ Started'
  <2>1. /\ pc \in {"save", "saving", "install"} /\ action = "api" /\ handed' = "no"
             => SameEgress(live, want)
    BY <1>1 DEF Deployment, Directories, HandsOver
  <2> QED
    BY <1>1, <2>1 DEF Deployment, Directories, Started, RolledBack, dirVars, runVars
<1>3. RunsFiles'
  <2>1. CASE AgentSyncs
    BY <2>1 DEF AgentSyncs, Deployment, RunsFiles, dirVars, runVars
  <2>2. CASE XrayStops
    BY <2>2 DEF XrayStops, Starting, RunsFiles
  <2>3. CASE ComesUp
    <3>1. xray'.files = conf /\ Agree(conf, conf, handed')
      BY <2>3, AgreeItself DEF ComesUp
    <3>2. ASSUME pc = "install", action = "api" PROVE Agree(conf, want, handed')
      <4>1. NeedsNoRestart(live, want) /\ (handed' = "no" => SameEgress(live, want))
        BY <1>1, <3>2 DEF Deployment, Directories, HandsOver
      <4>2. \A f \in FileNos : conf[f] = want[f] \/ conf[f] = live[f]
        BY <3>2 DEF Deployment, Directories
      <4> QED
        BY <4>1, <4>2, HalfInstalledAgrees
    <3>3. pc \in {"remove", "add"} => conf = want
      BY DEF Deployment, Directories, Installed
    <3> QED
      BY <1>1, <3>1, <3>2, <3>3 DEF RunsFiles, dirVars, runVars
  <2> QED
    BY <2>1, <2>2, <2>3
<1> QED
  BY <1>2, <1>3 DEF Deployment

LEMMA BeginStep ==
  ASSUME TypeOK, TypeOK', Deployment, Begin
  PROVE  Deployment'
<1>0. PICK runtime \in BOOLEAN :
        LET rendered == Rendered(TheList, egress, shape)
            todo == classify(conf, rendered, runtime)
        IN  /\ pc = "idle"
            /\ want' = rendered /\ live' = conf /\ action' = todo
            /\ wasUp' = IF xray.state = "none" THEN "no" ELSE "yes"
            /\ handed' = IF runtime /\ todo = "api" /\ ~SameEgress(conf, rendered)
                           THEN "yes" ELSE handed
            /\ Go(CASE todo = "none" -> "compose"
                    [] todo # "none" /\ conf = Empty -> "install"
                    [] todo # "none" /\ conf # Empty -> "save")
            /\ UNCHANGED <<consoleVars, dirVars, xray, cut, upsets>>
  BY DEF Begin
<1> DEFINE todo == classify(conf, Rendered(TheList, egress, shape), runtime)
<1>1. /\ pc = "idle" /\ want' = Rendered(TheList, egress, shape) /\ live' = conf
      /\ action' = todo /\ at' = 1
      /\ wasUp' = IF xray.state = "none" THEN "no" ELSE "yes"
      /\ UNCHANGED <<dirVars, xray, cut>>
  BY <1>0 DEF Go
<1>2. \/ todo = "none" /\ pc' = "compose"
      \/ todo # "none" /\ conf = Empty /\ pc' = "install"
      \/ todo # "none" /\ conf # Empty /\ pc' = "save"
  BY <1>0 DEF Go
<1>3. /\ todo = "none" => conf = want'
      /\ todo = "api" => /\ NeedsNoRestart(conf, want')
                         /\ handed' = "no" => SameEgress(conf, want')
      /\ handed' = "no" => handed = "no"
  BY <1>0, <1>1 DEF classify, UsersDiffer, NeedsNoRestart, TypeOK
<1>4. \A f \in FileNos : want'[f].shape # 0
  BY <1>1, TheListIsList, RenderedIsConf DEF TypeOK
<1>5. xray.state # "none" => conf # Empty
  BY DEF Deployment, Started
<1>6. Directories'
  BY <1>1, <1>2, <1>3 DEF Directories, RolledBack, Installed, dirVars, FileNos
<1>7. Started'
  BY <1>1, <1>2, <1>4, <1>5 DEF Started, dirVars
<1>8. RunsFiles'
  BY <1>1, <1>2, <1>3, <1>5 DEF Deployment, RunsFiles, Agree, dirVars
<1> QED
  BY <1>6, <1>7, <1>8 DEF Deployment

LEMMA SaveStep ==
  ASSUME TypeOK, TypeOK', Deployment, DropLastGood \/ SaveFile
  PROVE  Deployment'
<1>1. CASE DropLastGood
  <2>1. /\ pc = "save" /\ pc' = "saving" /\ at' = 1
        /\ UNCHANGED <<conf, xray, runVars, cut, handed>>
    BY <1>1 DEF DropLastGood, Go
  <2> QED
    BY <2>1
    DEF Deployment, Directories, Started, RunsFiles, RolledBack, Installed, runVars, FileNos
<1>2. CASE SaveFile
  <2>1. /\ pc = "saving"
        /\ lastGood' = [lastGood EXCEPT ![at] = live[at]]
        /\ UNCHANGED <<conf, xray, runVars, cut, handed>>
    BY <1>2 DEF SaveFile
  <2>2. /\ conf = live /\ live # Empty
        /\ action = "api" => /\ NeedsNoRestart(live, want)
                             /\ handed = "no" => SameEgress(live, want)
        /\ \A f \in FileNos : f < at => lastGood[f] = live[f]
    BY <2>1 DEF Deployment, Directories
  <2>3. /\ at \in FileNos
        /\ \/ at < Files /\ pc' = "saving" /\ at' = at + 1
           \/ at = Files /\ pc' = "install" /\ at' = 1
    BY <1>2 DEF SaveFile, NextFile, Go, TypeOK, FileNos
  <2>4. \A f \in FileNos : f <= at => lastGood'[f] = live[f]
    BY <2>1, <2>2, <2>3 DEF TypeOK, Conf, FileNos
  <2>5. pc' = "install" => lastGood' = live
    BY <2>3, <2>4, SameConf DEF TypeOK, FileNos
  <2>6. Directories'
    BY <2>1, <2>2, <2>3, <2>4, <2>5
    DEF Directories, RolledBack, Installed, runVars, FileNos
  <2>7. Started'
    BY <2>1, <2>3 DEF Deployment, Started, runVars
  <2>8. RunsFiles'
    BY <2>1, <2>2, <2>3, AgreeOnward DEF Deployment, RunsFiles, runVars
  <2> QED
    BY <2>6, <2>7, <2>8 DEF Deployment
<1> QED
  BY <1>1, <1>2

LEMMA InstallStep ==
  ASSUME TypeOK, TypeOK', Deployment, InstallFile
  PROVE  Deployment'
<1>1. /\ pc = "install"
      /\ conf' = [conf EXCEPT ![at] = want[at]]
      /\ UNCHANGED <<lastGood, xray, runVars, cut, handed>>
  BY DEF InstallFile
<1>2. /\ at \in FileNos
      /\ \/ at < Files /\ pc' = "install" /\ at' = at + 1
         \/ at = Files /\ pc' = Then /\ at' = 1
  BY DEF InstallFile, NextFile, Go, TypeOK, FileNos
<1>3. /\ \A f \in FileNos : conf[f] = IF f < at THEN want[f] ELSE live[f]
      /\ live = Empty \/ lastGood = live
      /\ action = "api" => /\ NeedsNoRestart(live, want)
                           /\ handed = "no" => SameEgress(live, want)
  BY <1>1 DEF Deployment, Directories
<1>4. \A f \in FileNos : conf'[f] = IF f <= at THEN want[f] ELSE live[f]
  BY <1>1, <1>2, <1>3 DEF TypeOK, Conf, FileNos
<1>5. at = Files => conf' = want
  BY <1>2, <1>4, SameConf DEF TypeOK, FileNos, runVars
<1>6. \/ wasUp = "no" /\ Then = "compose" /\ xray.state = "none"
      \/ wasUp = "yes" /\ live # Empty /\ action = "api" /\ Then = "remove"
      \/ wasUp = "yes" /\ live # Empty /\ action # "api" /\ Then = "restart"
  BY <1>1 DEF Deployment, Started, Then
<1>7. \A f \in FileNos : want[f].shape # 0
  BY <1>1 DEF Deployment, Started
<1>8. conf' # Empty
  BY <1>2, <1>4, <1>7, NotEmpty DEF Missing, FileNos
<1>9. Directories'
  BY <1>1, <1>2, <1>3, <1>4, <1>5, <1>6
  DEF Directories, RolledBack, Installed, runVars, FileNos
<1>10. Started'
  BY <1>1, <1>2, <1>6, <1>7, <1>8 DEF Started, runVars
<1>11. RunsFiles'
  BY <1>1, <1>2, <1>6 DEF Deployment, RunsFiles, runVars
<1> QED
  BY <1>9, <1>10, <1>11 DEF Deployment

LEMMA RuntimeStep ==
  ASSUME TypeOK, TypeOK', Deployment,
         RemoveUsers \/ AddUsers \/ ApiFails \/ Restart \/ Ready \/ Verify
  PROVE  Deployment'
<1>1. /\ UNCHANGED <<dirVars, want, live, wasUp, cut, handed>>
      /\ \/ pc = "remove" /\ pc' = "add" /\ xray'.files = xray.files
         \/ pc = "add" /\ pc' = "verify" /\ xray'.files = xray.files
         \/ pc \in {"remove", "add"} /\ pc' = "restart"
         \/ pc = "restart" /\ pc' = "wait" /\ xray'.state = "starting"
         \/ pc = "wait" /\ pc' = "verify" /\ UNCHANGED xray
         \/ pc = "verify" /\ pc' = "compose" /\ UNCHANGED xray
      /\ pc' \in {"add", "verify"} => xray.state = "up" \/ UNCHANGED xray
  BY DEF RemoveUsers, AddUsers, ApiFails, Restart, Ready, Verify, Go, Running,
         Starting, runVars
<1>2. conf = want /\ live # Empty /\ (live = Empty \/ lastGood = live)
  BY <1>1 DEF Deployment, Directories, Started, Installed
<1>3. conf # Empty
  BY <1>1, ConfIsThere DEF Deployment, Installed
<1>4. Directories'
  BY <1>1, <1>2 DEF Directories, RolledBack, Installed, dirVars
<1>5. Started'
  BY <1>1, <1>2, <1>3 DEF Deployment, Started, dirVars
<1>6. RunsFiles'
  BY <1>1, <1>2 DEF Deployment, RunsFiles, dirVars
<1> QED
  BY <1>4, <1>5, <1>6 DEF Deployment

LEMMA FailStep ==
  ASSUME TypeOK, TypeOK', Deployment, ApplyFails
  PROVE  Deployment'
<1>1. /\ pc \in {"restart", "wait", "verify"}
      /\ pc' = (IF lastGood = Empty THEN "idle" ELSE "restore") /\ at' = 1
      /\ UNCHANGED <<dirVars, xray, runVars, cut, handed>>
  BY DEF ApplyFails, Go
<1>2. live # Empty /\ lastGood = live
  BY <1>1 DEF Deployment, Directories, Started
<1>3. pc' = "restore"
  BY <1>1, <1>2
<1> QED
  BY <1>1, <1>2, <1>3
  DEF Deployment, Directories, Started, RunsFiles, RolledBack, Installed, dirVars,
      runVars, FileNos

LEMMA RestoreStep ==
  ASSUME TypeOK, TypeOK', Deployment, RestoreFile
  PROVE  Deployment'
<1>1. /\ pc = "restore"
      /\ conf' = IF lastGood[at] = Missing THEN conf
                                           ELSE [conf EXCEPT ![at] = lastGood[at]]
      /\ UNCHANGED <<lastGood, xray, runVars, cut, handed>>
  BY DEF RestoreFile
<1>2. /\ at \in FileNos
      /\ \/ at < Files /\ pc' = "restore" /\ at' = at + 1
         \/ at = Files /\ pc' = "back" /\ at' = 1
  BY DEF RestoreFile, NextFile, Go, TypeOK, FileNos
<1>3. /\ live # Empty /\ lastGood = live
      /\ \A f \in FileNos : f < at /\ live[f] # Missing => conf[f] = live[f]
  BY <1>1 DEF Deployment, Directories, Started
<1>4. \A f \in FileNos : f <= at /\ live[f] # Missing => conf'[f] = live[f]
  BY <1>1, <1>2, <1>3 DEF TypeOK, Conf, FileNos
<1>5. xray.state # "none" => conf' # Empty
  <2>1. CASE lastGood[at] = Missing
    BY <2>1, <1>1 DEF Deployment, Started
  <2>2. CASE lastGood[at] # Missing
    <3>1. conf'[at] # Missing
      BY <2>2, <1>2, <1>3, <1>4 DEF FileNos
    <3> QED
      BY <3>1, <1>2, NotEmpty
  <2> QED
    BY <2>1, <2>2
<1>6. Directories'
  BY <1>1, <1>2, <1>3, <1>4 DEF Directories, RolledBack, Installed, runVars, FileNos
<1>7. Started'
  BY <1>1, <1>2, <1>3, <1>5 DEF Deployment, Started, runVars
<1>8. RunsFiles'
  BY <1>1, <1>2 DEF RunsFiles
<1> QED
  BY <1>6, <1>7, <1>8 DEF Deployment

LEMMA EndStep ==
  ASSUME TypeOK, TypeOK', Deployment,
         RestartBack \/ Compose \/ Check \/ End \/ CutOff
  PROVE  Deployment'
<1>1. /\ UNCHANGED <<dirVars, runVars, handed>>
      /\ \/ pc = "back" /\ pc' = "idle" /\ xray'.state = "starting"
         \/ pc = "compose" /\ pc' = "check" /\ cut' = cut
              /\ (xray'.state = "starting" \/ UNCHANGED xray)
         \/ pc = "check" /\ pc' \in {"done", "idle"} /\ UNCHANGED <<xray, cut>>
         \/ pc = "done" /\ pc' = "idle" /\ UNCHANGED <<xray, cut>>
         \/ pc' = "idle" /\ cut' = "open"
              /\ (UNCHANGED xray \/ pc \in {"restart", "back"})
  BY DEF RestartBack, Compose, Check, End, CutOff, Starting, Go, consoleVars
<1>2. pc \in Installed \cup {"back"} => conf # Empty
  BY ConfIsThere DEF Deployment
<1>3. Directories'
  BY <1>1 DEF Deployment, Directories, RolledBack, Installed, dirVars, runVars
<1>4. Started'
  BY <1>1, <1>2 DEF Deployment, Started, Installed, dirVars, runVars
<1>5. RunsFiles'
  BY <1>1 DEF Deployment, RunsFiles, dirVars, runVars
<1> QED
  BY <1>3, <1>4, <1>5 DEF Deployment

LEMMA NextIInv == ApplyIInv /\ [Next]_vars => ApplyIInv'
<1> SUFFICES ASSUME ApplyIInv, [Next]_vars PROVE ApplyIInv'
  OBVIOUS
<1>1. TypeOK /\ Deployment
  BY DEF ApplyIInv, Deployment
<1>2. TypeOK'
  BY <1>1, NextType
<1>3. ASSUME ChangeUsers \/ ChangeEgress \/ ChangeShape \/ UNCHANGED vars PROVE Deployment'
  <2>1. UNCHANGED <<dirVars, xray, pc, runVars, at, cut, handed>>
    BY <1>3 DEF ChangeUsers, ChangeEgress, ChangeShape, vars
  <2> QED
    BY <2>1, <1>1, ElsewhereStep
<1>4. ASSUME ~(ChangeUsers \/ ChangeEgress \/ ChangeShape \/ UNCHANGED vars) PROVE Deployment'
  BY <1>1, <1>2, <1>4, XrayStep, BeginStep, SaveStep, InstallStep, RuntimeStep,
     FailStep, RestoreStep, EndStep
  DEF Next, Around, Apply
<1>5. FilesRun'
  <2>1. RunsFiles'
    BY <1>3, <1>4 DEF Deployment
  <2> QED
    BY <2>1, RunsFilesRuns, PTL
<1> QED
  BY <1>2, <1>3, <1>4, <1>5 DEF ApplyIInv, Deployment

\* The inductive invariant: what conf.d and last-good hold at each step of a
\* deployment, and that Xray runs the files, but for what a deployment left to the
\* agent, or is about to be started from them.
THEOREM Invariance == Spec => []ApplyIInv
<1> QED
  BY InitIInv, NextIInv, PTL DEF Spec

\* Between deployments, succeeded or failed, Xray was started from what is in conf.d
\* but for the users and a proxy egress left to the agent since, unless it was not
\* started since an applier was cut off.
THEOREM RunsItsFiles == Spec => []FilesRun
<1>1. ApplyIInv => FilesRun
  BY DEF ApplyIInv
<1> QED
  BY <1>1, Invariance, PTL

\* A deployment that fails after it replaced files puts back every file it found.
THEOREM PutsBack == Spec => []RolledBack
<1>1. ApplyIInv => RolledBack
  BY DEF ApplyIInv, Directories
<1> QED
  BY <1>1, Invariance, PTL

-----------------------------------------------------------------------------
(***************************************************************************)
(* The users Xray runs.                                                    *)
(***************************************************************************)

\* The users in a file, of Xray and of a list, as numbers.
LEMMA Numbers ==
  ASSUME TypeOK
  PROVE  /\ Inbounds \in FileNos
         /\ \A u \in Users : /\ cred[u] \in Nat /\ xray.clients[u] \in Nat /\ TheList[u] \in Nat
                             /\ TheList[u] \in {0, cred[u]}
                             /\ \A list \in synced : list[u] \in Nat
         /\ \A c \in {conf, lastGood, want, live} : \A f \in FileNos : \A u \in Users :
              c[f].clients[u] \in Nat
<1>1. \A c \in Conf : \A f \in FileNos : \A u \in Users : c[f].clients[u] \in Nat
  <2> SUFFICES ASSUME NEW c \in Conf, NEW f \in FileNos, NEW u \in Users
               PROVE  c[f].clients[u] \in Nat
    OBVIOUS
  <2>1. c[f] \in Doc
    BY DEF Conf
  <2>2. c[f].clients \in List
    BY <2>1 DEF Doc
  <2> QED BY <2>2 DEF List
<1>2. Inbounds \in FileNos
  BY DEF FileNos
<1>3. xray.clients \in List /\ cred \in List /\ \A list \in synced : list \in List
  BY DEF TypeOK
<1>4. \A u \in Users : TheList[u] \in {0, cred[u]}
  BY DEF TheList
<1>5. conf \in Conf /\ lastGood \in Conf /\ want \in Conf /\ live \in Conf
  BY DEF TypeOK
<1>6. \A u \in Users : /\ cred[u] \in Nat /\ xray.clients[u] \in Nat
                       /\ \A list \in synced : list[u] \in Nat
  BY <1>3 DEF List
<1>7. \A u \in Users : TheList[u] \in Nat
  <2>1. \A u \in Users : cred[u] \in Nat
    BY <1>3 DEF List
  <2>2. 0 \in Nat
    OBVIOUS
  <2> QED BY <1>4, <2>1, <2>2, Zenon
<1> QED
  BY <1>1, <1>2, <1>4, <1>5, <1>6, <1>7

\* Every list, in a file, in Xray or in the agent's hands, is of the console's past.
LEMMA OlderStep ==
  ASSUME TypeOK, TypeOK', Older, [Next]_vars
  PROVE  Older'
<1>0. /\ Inbounds \in FileNos
      /\ \A u \in Users : cred[u] \in Nat /\ TheList[u] <= cred[u] /\ 0 <= cred[u]
  BY Numbers
<1>1. CASE ChangeUsers
  <2>1. /\ \A u \in Users : cred[u] <= cred'[u] /\ cred[u] \in Nat /\ cred'[u] \in Nat
        /\ UNCHANGED <<dirVars, xray, runVars, synced>>
    BY <1>1, <1>0 DEF ChangeUsers, TypeOK, List
  <2>2. \A c \in {conf, lastGood, want, live} : \A f \in FileNos : \A u \in Users :
          c[f].clients[u] \in Nat
    BY Numbers
  <2>3. /\ \A c \in {conf, lastGood, want, live} : \A f \in FileNos : \A u \in Users :
             c[f].clients[u] <= cred'[u]
        /\ \A u \in Users : xray.clients[u] <= cred'[u]
        /\ \A list \in synced : \A u \in Users : list[u] <= cred'[u]
    BY <2>1, <2>2, Numbers DEF Older, Past
  <2> QED
    BY <2>1, <2>3 DEF Older, Past, dirVars, runVars
<1>2. CASE AgentSyncs
  <2>1. /\ UNCHANGED <<cred, dirVars, runVars>>
        /\ xray'.clients = TheList /\ synced' \subseteq synced \cup {TheList}
    BY <1>2 DEF AgentSyncs, consoleVars
  <2>2. \A u \in Users : TheList[u] # 0 => want[Inbounds].clients[u] <= TheList[u]
    BY <1>0, Numbers DEF Older, Past
  <2> QED
    BY <1>0, <2>1, <2>2 DEF Older, Past, dirVars, runVars
<1>3. CASE ComesUp
  <2>1. UNCHANGED <<cred, dirVars, runVars, synced>> /\ xray'.clients = conf[Inbounds].clients
    BY <1>3 DEF ComesUp, consoleVars
  <2> QED
    BY <1>0, <2>1 DEF Older, Past, dirVars, runVars
<1>4. CASE Begin
  <2>1. /\ UNCHANGED <<cred, dirVars, xray>> /\ synced' = {}
        /\ want' = Rendered(TheList, egress, shape) /\ live' = conf
    BY <1>4 DEF Begin, consoleVars
  <2>2. \A f \in FileNos : \A u \in Users : want'[f].clients[u] <= cred[u]
    <3> SUFFICES ASSUME NEW f \in FileNos, NEW u \in Users PROVE want'[f].clients[u] <= cred[u]
      OBVIOUS
    <3>1. want'[f].clients = IF f = Inbounds THEN TheList ELSE Nobody
      BY <2>1 DEF Rendered
    <3>2. Nobody[u] = 0
      BY DEF Nobody
    <3> QED BY <1>0, <3>1, <3>2
  <2> QED
    BY <2>1, <2>2 DEF Older, Past, dirVars
<1>5. CASE DropLastGood \/ SaveFile \/ InstallFile \/ RestoreFile
  <2>1. UNCHANGED <<cred, xray, want, live, synced>>
    BY <1>5 DEF DropLastGood, SaveFile, InstallFile, RestoreFile, consoleVars, runVars
  <2>2. /\ \A f \in FileNos : \/ conf'[f] = conf[f]
                              \/ conf'[f] \in {want[f], lastGood[f]}
        /\ \A f \in FileNos : lastGood'[f] \in {lastGood[f], live[f], Missing}
    BY <1>5 DEF DropLastGood, SaveFile, InstallFile, RestoreFile, TypeOK, Conf, Empty
  <2>3. \A u \in Users : Missing.clients[u] = 0
    BY DEF Missing, Nobody
  <2>4. \A f \in FileNos : \A u \in Users : conf'[f].clients[u] <= cred[u]
    BY <2>2 DEF Older, Past
  <2>5. \A f \in FileNos : \A u \in Users : lastGood'[f].clients[u] <= cred[u]
    BY <1>0, <2>2, <2>3 DEF Older, Past
  <2> QED
    BY <2>1, <2>4, <2>5 DEF Older, Past
<1>6. CASE RemoveUsers \/ AddUsers \/ ApiFails
  <2>1. UNCHANGED <<cred, dirVars, want, live, synced>>
    BY <1>6 DEF RemoveUsers, AddUsers, ApiFails, consoleVars, runVars
  <2>2. \A u \in Users : xray'.clients[u] \in {0, xray.clients[u], want[Inbounds].clients[u]}
    BY <1>6 DEF RemoveUsers, AddUsers, ApiFails, Running, Without, With
  <2>3. \A u \in Users : xray'.clients[u] <= cred[u]
    BY <1>0, <2>2 DEF Older, Past
  <2> QED
    BY <2>1, <2>3 DEF Older, Past, dirVars
<1>7. CASE \/ ChangeEgress \/ ChangeShape \/ XrayStops \/ Restart \/ Ready \/ Verify \/ ApplyFails
           \/ RestartBack \/ Compose \/ Check \/ End \/ CutOff \/ UNCHANGED vars
  <2>1. UNCHANGED <<cred, dirVars, runVars, synced>> /\ xray'.clients = xray.clients
    BY <1>7 DEF ChangeEgress, ChangeShape, XrayStops, Restart, Ready, Verify, ApplyFails, RestartBack,
      Compose, Check, End, CutOff, vars, Starting, consoleVars
  <2> QED
    BY <2>1 DEF Older, Past, dirVars, runVars
<1> QED
  BY <1>1, <1>2, <1>3, <1>4, <1>5, <1>6, <1>7 DEF Next, Around, Apply

\* A step that leaves Xray, and a user that is asked for as it is.
LEMMA RunsUsersOn ==
  ASSUME RunsUsers, UNCHANGED <<xray, want, live, cut, synced>>, pc # "idle",
         \/ pc' = pc
         \/ pc \in {"save", "saving", "install"} /\ pc' \in {"saving", "install", "remove"}
         \/ pc \in {"wait", "verify", "compose"} /\ pc' \in {"verify", "compose", "check"}
         \/ pc' \in {"restore", "back", "restart"}
  PROVE  RunsUsers'
BY DEF RunsUsers, Asked

\* Whoever is asked for runs as asked, or as a list the agent applied since.
LEMMA AskedIsNewer ==
  ASSUME TypeOK, Older, NEW u \in Users, NEW n \in Asked(u), n # 0
  PROVE  want[Inbounds].clients[u] <= n
BY Numbers DEF Older, Asked

LEMMA SyncRunsUsers ==
  ASSUME TypeOK, Older, RunsUsers, AgentSyncs
  PROVE  RunsUsers'
<1>1. /\ UNCHANGED <<dirVars, pc, runVars, cut, handed>> /\ xray'.clients = TheList
      /\ synced' = IF pc = "idle" THEN synced ELSE synced \cup {TheList}
  BY DEF AgentSyncs
<1>2. \A u \in Users : TheList[u] # 0 => conf[Inbounds].clients[u] <= TheList[u]
  BY Numbers DEF Older, Past
<1>3. pc # "idle" => \A u \in Users : TheList[u] \in Asked(u)'
  BY <1>1 DEF Asked
<1> QED
  BY <1>1, <1>2, <1>3 DEF RunsUsers, dirVars, runVars

LEMMA ComesUpRunsUsers ==
  ASSUME TypeOK, Deployment, ComesUp
  PROVE  RunsUsers'
<1>1. /\ UNCHANGED <<dirVars, pc, runVars, synced>> /\ xray'.clients = conf[Inbounds].clients
  BY DEF ComesUp
<1>2. pc \in {"save", "saving"} => conf = live
  BY DEF Deployment, Directories
<1>3. pc = "install" => conf[Inbounds] \in {want[Inbounds], live[Inbounds]}
  BY Numbers DEF Deployment, Directories
<1>4. pc \in Installed => conf = want
  BY DEF Deployment, Directories
<1>5. \A u \in Users : conf[Inbounds].clients[u] <= conf[Inbounds].clients[u]
  <2>1. \A u \in Users : conf[Inbounds].clients[u] \in Nat
    BY Numbers
  <2>2. \A n \in Nat : n <= n
    OBVIOUS
  <2> QED BY <2>1, <2>2
<1> QED
  BY <1>1, <1>2, <1>3, <1>4, <1>5 DEF RunsUsers, Asked, Installed, dirVars, runVars

LEMMA BeginRunsUsers ==
  ASSUME TypeOK, Older, RunsUsers, Begin
  PROVE  RunsUsers'
<1>1. /\ pc = "idle" /\ want' = Rendered(TheList, egress, shape) /\ live' = conf
      /\ UNCHANGED <<xray, cut>>
      /\ \/ pc' = "compose" /\ want' = conf
         \/ pc' \in {"save", "install"}
  BY DEF Begin, Go, classify
<1>2. want'[Inbounds].clients = TheList
  BY <1>1, Numbers DEF Rendered
<1>3. ASSUME cut # "open", xray.state = "up", NEW u \in Users,
             TheList[u] # 0, conf[Inbounds].clients[u] = TheList[u]
      PROVE  xray.clients[u] \in {0, TheList[u]}
  <2>1. xray.clients[u] # 0 => TheList[u] <= xray.clients[u]
    BY <1>1, <1>3 DEF RunsUsers
  <2>2. xray.clients[u] <= cred[u] /\ TheList[u] = cred[u]
    BY <1>3, Numbers DEF Older
  <2> QED BY <2>1, <2>2, Numbers
<1> QED
  BY <1>1, <1>2, <1>3 DEF RunsUsers, Asked

LEMMA ApiRunsUsers ==
  ASSUME TypeOK, RunsUsers, RemoveUsers \/ AddUsers \/ ApiFails
  PROVE  RunsUsers'
<1>1. UNCHANGED <<dirVars, want, live, cut, synced>>
  BY DEF RemoveUsers, AddUsers, ApiFails, runVars
<1>2. \A u \in Users :
        live[Inbounds].clients[u] = want[Inbounds].clients[u] => u \notin Remove /\ u \notin Add
  BY DEF Remove, Add
<1>3. CASE RemoveUsers
  <2>1. /\ pc = "remove" /\ pc' = "add" /\ xray.state = "up"
        /\ \A u \in Users : u \notin Remove => xray'.clients[u] = xray.clients[u]
    BY <1>3 DEF RemoveUsers, Go, Running, Without
  <2> QED
    BY <1>1, <1>2, <2>1 DEF RunsUsers, Asked
<1>4. CASE AddUsers
  <2>1. /\ pc = "add" /\ pc' = "verify" /\ xray.state = "up"
        /\ \A u \in Users : xray'.clients[u] = IF u \in Add THEN want[Inbounds].clients[u]
                                               ELSE xray.clients[u]
    BY <1>4 DEF AddUsers, Go, Running, With
  <2>2. \A u \in Users : want[Inbounds].clients[u] # 0 =>
          u \in Add \/ live[Inbounds].clients[u] = want[Inbounds].clients[u]
    BY DEF Add, Names
  <2> QED
    BY <1>1, <1>2, <2>1, <2>2 DEF RunsUsers, Asked
<1>5. CASE ApiFails
  BY <1>5 DEF ApiFails, Go, RunsUsers
<1> QED
  BY <1>3, <1>4, <1>5

LEMMA CheckRunsUsers ==
  ASSUME TypeOK, Deployment, Older, RunsUsers, Check \/ End
  PROVE  RunsUsers'
<1>1. /\ pc \in {"check", "done"} /\ UNCHANGED <<dirVars, xray, runVars, cut, synced>>
      /\ conf = want
  BY DEF Check, End, Deployment, Directories, Installed
<1>2. ASSUME cut # "open", xray.state = "up", NEW u \in Users, xray.clients[u] # 0
      PROVE  want[Inbounds].clients[u] <= xray.clients[u]
  <2>1. CASE want[Inbounds].clients[u] = 0
    BY <2>1, Numbers
  <2>2. CASE want[Inbounds].clients[u] # 0
    <3>1. xray.clients[u] \in Asked(u)
      BY <1>1, <1>2, <2>2 DEF RunsUsers
    <3> QED BY <1>2, <3>1, AskedIsNewer
  <2> QED BY <2>1, <2>2
<1>3. CASE pc' = "idle"
  BY <1>1, <1>2, <1>3 DEF RunsUsers, dirVars
<1>4. CASE pc' = "done"
  <2>1. pc = "check" /\ Verified
    BY <1>4 DEF Check, End, Go
  <2>2. \A u \in Users : want[Inbounds].clients[u] = 0 <=> xray.clients[u] = 0
    BY <2>1 DEF Verified, Names
  <2>3. cut # "open" => \A u \in Users : xray.clients[u] \in Asked(u)
    BY <2>1, <2>2 DEF RunsUsers, Asked, Verified
  <2> QED
    BY <1>1, <1>4, <2>3 DEF RunsUsers, Asked, runVars
<1> QED
  BY <1>3, <1>4 DEF Check, End, Go

LEMMA RunsUsersStep ==
  ASSUME TypeOK, Deployment, Older, RunsUsers, [Next]_vars
  PROVE  RunsUsers'
<1>1. CASE ChangeUsers \/ ChangeEgress \/ ChangeShape \/ UNCHANGED vars
  BY <1>1 DEF ChangeUsers, ChangeEgress, ChangeShape, vars, RunsUsers, Asked, dirVars,
    runVars
<1>2. CASE XrayStops \/ Restart \/ RestartBack
  BY <1>2 DEF XrayStops, Restart, RestartBack, Starting, RunsUsers
<1>3. CASE CutOff
  BY <1>3 DEF CutOff, RunsUsers
<1>4. CASE DropLastGood \/ SaveFile \/ RestoreFile \/ Ready \/ Verify
  BY <1>4, RunsUsersOn DEF DropLastGood, SaveFile, RestoreFile, Ready, Verify, NextFile, Go,
    runVars
<1>5. CASE InstallFile
  <2>1. /\ pc = "install" /\ UNCHANGED <<xray, runVars, cut, synced>>
        /\ pc' \in {"install", "remove", "restart"} \/ xray.state = "none"
    BY <1>5 DEF InstallFile, NextFile, Go, Then, Deployment, Started
  <2> QED
    BY <2>1, RunsUsersOn DEF RunsUsers, runVars
<1>6. CASE ApplyFails
  <2>1. lastGood # Empty
    BY <1>6 DEF ApplyFails, Deployment, Directories, Started
  <2> QED
    BY <1>6, <2>1, RunsUsersOn DEF ApplyFails, Go, runVars
<1>7. CASE Compose
  <2>1. CASE xray' = Starting
    BY <2>1 DEF Starting, RunsUsers
  <2>2. CASE UNCHANGED xray
    BY <1>7, <2>2, RunsUsersOn DEF Compose, Go, runVars
  <2> QED BY <1>7, <2>1, <2>2 DEF Compose
<1> QED
  BY <1>1, <1>2, <1>3, <1>4, <1>5, <1>6, <1>7, SyncRunsUsers, ComesUpRunsUsers, BeginRunsUsers,
    ApiRunsUsers, CheckRunsUsers DEF Next, Around, Apply

LEMMA UsersInit == Init => UsersIInv
<1> SUFFICES ASSUME Init PROVE UsersIInv
  OBVIOUS
<1>1. \A f \in FileNos : \A u \in Users : Empty[f].clients[u] = 0
  BY DEF Empty, Missing, Nobody
<1>2. Older
  BY <1>1 DEF Init, Older, Past, Nobody
<1>3. RunsUsers
  BY DEF Init, RunsUsers
<1> QED
  BY <1>2, <1>3, InitIInv DEF UsersIInv

\* Every list the applier or Xray holds is of the console's past, and the users Xray
\* runs are, at each step of a deployment, as asked or of a list the agent applied since.
THEOREM UsersInvariance == Spec => []UsersIInv
<1>1. UsersIInv /\ [Next]_vars => UsersIInv'
  <2> SUFFICES ASSUME UsersIInv, [Next]_vars PROVE UsersIInv'
    OBVIOUS
  <2>1. ApplyIInv /\ Older /\ RunsUsers /\ TypeOK /\ Deployment
    BY DEF UsersIInv, ApplyIInv, Deployment
  <2>2. ApplyIInv' /\ TypeOK'
    BY <2>1, NextIInv, NextType DEF ApplyIInv
  <2>3. Older' /\ RunsUsers'
    BY <2>1, <2>2, OlderStep, RunsUsersStep
  <2> QED BY <2>2, <2>3 DEF UsersIInv
<1> QED
  BY <1>1, UsersInit, PTL DEF Spec

\* A deployment that succeeds leaves Xray running what it was asked for: every file but
\* for a proxy egress left to the agent since Xray was started, the short ids, and
\* everyone's credentials or newer ones, although verify compares names.
THEOREM SucceedsWithWhatWasAsked == Spec => []SuccessRuns
<1>1. ASSUME UsersIInv, pc = "done", cut # "open"
      PROVE  conf = want /\ (xray.state = "up" => RunsWanted)
  <2>1. conf = want
    BY <1>1 DEF UsersIInv, ApplyIInv, Directories, Installed
  <2>2. ASSUME xray.state = "up" PROVE RunsWanted
    <3>1. Agree(xray.files, conf, handed)
      BY <1>1, <2>2 DEF UsersIInv, ApplyIInv, RunsFiles
    <3>2. \A u \in Users : xray.clients[u] \in Asked(u)
      BY <1>1, <2>2 DEF UsersIInv, RunsUsers
    <3> QED BY <2>1, <3>1, <3>2 DEF RunsWanted, Agree, Asked
  <2> QED BY <2>1, <2>2
<1>2. UsersIInv => SuccessRuns
  BY <1>1 DEF SuccessRuns
<1> QED
  BY <1>2, UsersInvariance, PTL
=============================================================================
