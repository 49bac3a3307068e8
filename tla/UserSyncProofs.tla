--------------------------- MODULE UserSyncProofs ---------------------------
(***************************************************************************)
(* Proofs about UserSync for any users, lists, inbounds and refusal limit. *)
(***************************************************************************)
EXTENDS UserSync, FiniteSetTheorems, TLAPS

-----------------------------------------------------------------------------
(***************************************************************************)
(* The inductive invariant behind VerifiedRuns.                            *)
(***************************************************************************)

SameUsers(l, m) == \A u \in Others : l[u] = m[u]

\* While nothing disturbs the tick, what it read is what runs, and the inbounds
\* it is done with run the list.
TickIsTrue ==
  fault = {} =>
    /\ pc = "read" => \A t \in Tags : t < tag => seen[t] = run[t]
    /\ pc = "tell" /\ round = 1 => \A t \in Tags : seen[t] = run[t]
    /\ pc = "tell" /\ round = 2 => verified = "yes" /\ Runs(desired)
    /\ pc \in {"plan", "add"} =>
         \A t \in Tags :
           /\ t < tag => SameUsers(run[t], desired)
           /\ t > tag \/ (t = tag /\ pc = "plan") => seen[t] = run[t]
    /\ pc = "add" => run[tag] = Without(seen[tag], ToRemove(seen[tag]))

IInv == TypeOK /\ TickIsTrue /\ VerifiedRuns

USE SyncAssumption DEF Tags

\* The initial state satisfies the inductive invariant.
LEMMA InitIInv == Init => IInv
<1> SUFFICES ASSUME Init PROVE IInv
  OBVIOUS
<1>1. row \in [desired : List \cup {NoList}, applied : List \cup {NoList},
               running : SUBSET Users]
  BY DEF Init, NoRow
<1>2. [t \in Tags |-> Deployed] \in [Tags -> List]
  OBVIOUS
<1>3. TypeOK
  BY <1>1, <1>2 DEF Init, TypeOK
<1>4. TickIsTrue /\ VerifiedRuns
  BY DEF Init, TickIsTrue, VerifiedRuns
<1> QED
  BY <1>3, <1>4 DEF IInv

\* What the agent does with a list gives a list.
LEMMA ListOps ==
  ASSUME NEW l \in List, NEW users, desired \in List
  PROVE  Without(l, users) \in List /\ With(l, users) \in List
BY DEF List, Without, With

\* A request, and the row made from it, have their types.
LEMMA RequestType == TypeOK => TheRequest \in Request
<1> SUFFICES ASSUME TypeOK PROVE TheRequest \in Request
  OBVIOUS
<1>1. Claim \in List \cup {NoList}
  BY DEF Claim, TypeOK
<1>2. Names(seen[1]) \in SUBSET Users
  BY DEF Names, Others
<1> QED
  BY <1>1, <1>2 DEF TheRequest, Request

LEMMA RecordType ==
  ASSUME TypeOK, NEW request \in Request, Record(request)
  PROVE  row' \in [desired : List \cup {NoList}, applied : List \cup {NoList},
                   running : SUBSET Users]
<1>1. /\ list \in List /\ request.applied \in List \cup {NoList}
      /\ request.running \in SUBSET Users
  BY DEF TypeOK, Request
<1> QED
  BY <1>1 DEF Record

\* Steps around the agent: the list, the configuration and Xray change.
LEMMA AroundStep == IInv /\ Around => IInv'
<1> SUFFICES ASSUME IInv, Around PROVE IInv'
  OBVIOUS
<1> USE DEF IInv
<1>1. CASE ChangeList
  <2> USE <1>1 DEF ChangeList, agentVars, Upset
  <2>1. TypeOK'
    BY DEF TypeOK
  <2>2. TickIsTrue' /\ VerifiedRuns'
    BY DEF TickIsTrue, VerifiedRuns, Runs, ToRemove, Without
  <2> QED
    BY <2>1, <2>2
<1>2. CASE XrayRestart
  <2> USE <1>2 DEF XrayRestart, agentVars, Upset
  <2>1. TypeOK'
    BY DEF TypeOK
  <2>2. TickIsTrue' /\ VerifiedRuns'
    BY DEF TickIsTrue, VerifiedRuns
  <2> QED
    BY <2>1, <2>2
<1>3. CASE Deploy
  <2>1. /\ deployed' = [u \in Users |-> IF u \in Keep THEN deployed[u] ELSE list[u]]
        /\ run' = [t \in Tags |-> deployed']
        /\ fault' = fault \cup {"restart"} /\ upsets' = upsets + 1
        /\ UNCHANGED <<list, row, agentVars, late>>
    BY <1>3 DEF Deploy, Upset
  <2>2. deployed' \in List
    BY <2>1 DEF TypeOK, List
  <2>3. run' \in [Tags -> List] /\ fault' # {}
    BY <2>1, <2>2
  <2>4. UNCHANGED <<list, row, desired, verified, pc, round, tag, seen, changed, late>>
    BY <2>1 DEF agentVars
  <2>5. fault' \in SUBSET {"restart", "newer"} /\ upsets' \in Nat
    BY <2>1 DEF TypeOK
  <2>6. TypeOK'
    BY <2>2, <2>3, <2>4, <2>5 DEF TypeOK
  <2>7. TickIsTrue' /\ VerifiedRuns'
    BY <2>3 DEF TickIsTrue, VerifiedRuns
  <2> QED
    BY <2>6, <2>7
<1>4. CASE AgentRestart
  <2> USE <1>4 DEF AgentRestart, FreshStart, Upset
  <2>1. TypeOK'
    BY DEF TypeOK
  <2>2. TickIsTrue' /\ VerifiedRuns'
    BY DEF TickIsTrue, VerifiedRuns
  <2> QED
    BY <2>1, <2>2
<1> QED
  BY <1>1, <1>2, <1>3, <1>4 DEF Around

\* A late request only changes the console's row.
LEMMA LateStep == IInv /\ HandleLate => IInv'
<1> SUFFICES ASSUME IInv, HandleLate PROVE IInv'
  OBVIOUS
<1>1. PICK request \in late :
        /\ Record(request) /\ late' = late \ {request}
        /\ UNCHANGED <<list, deployed, run, agentVars, upsets, fault>>
  BY DEF HandleLate
<1>2. row' \in [desired : List \cup {NoList}, applied : List \cup {NoList},
                running : SUBSET Users]
  BY <1>1, RecordType DEF IInv, TypeOK
<1>3. TypeOK'
  BY <1>1, <1>2 DEF IInv, TypeOK, agentVars
<1>4. TickIsTrue' /\ VerifiedRuns'
  BY <1>1 DEF IInv, TickIsTrue, VerifiedRuns, Runs, agentVars, ToRemove, Without
<1> QED
  BY <1>3, <1>4 DEF IInv

\* A step of the tick that gives up leaves nothing to be believed.
LEMMA FailStep == IInv /\ (Fails \/ Refuse) => IInv'
<1> SUFFICES ASSUME IInv, Fails \/ Refuse PROVE IInv'
  OBVIOUS
<1> USE DEF IInv
<1>1. pc' = "idle" /\ verified' = "no"
  BY DEF Fails, ReadFails, ExchangeFails, CallFails, Refuse, GiveUp
<1>2. TickIsTrue' /\ VerifiedRuns'
  BY <1>1 DEF TickIsTrue, VerifiedRuns
<1>3. CASE ReadFails \/ Refuse
  <2>1. /\ UNCHANGED <<list, row, deployed, run, desired, round, tag, seen, changed, late,
                        fault>>
        /\ upsets' \in Nat
    BY <1>3 DEF TypeOK, ReadFails, Refuse, Upset
  <2>2. TypeOK'
    BY <1>1, <2>1 DEF TypeOK
  <2> QED
    BY <1>2, <2>2
<1>4. CASE ExchangeFails
  <2>1. row' \in [desired : List \cup {NoList}, applied : List \cup {NoList},
                  running : SUBSET Users]
    BY <1>4, RequestType, RecordType DEF ExchangeFails, TypeOK
  <2>2. late' \in SUBSET Request
    BY <1>4, RequestType DEF ExchangeFails, TypeOK
  <2>3. upsets' \in Nat
    BY <1>4 DEF ExchangeFails, Upset, TypeOK
  <2>4. TypeOK'
    BY <1>1, <1>4, <2>1, <2>2, <2>3 DEF TypeOK, ExchangeFails
  <2> QED
    BY <1>2, <2>4
<1>5. CASE CallFails
  <2>1. upsets' \in Nat
    BY <1>5 DEF CallFails, Upset, TypeOK
  <2>2. tag \in Tags /\ desired \in List /\ run[tag] \in List
    BY <1>5 DEF CallFails, Removing, Adding, TypeOK
  <2>3. run' \in [Tags -> List]
    <3>1. \A users : Without(run[tag], users) \in List /\ With(run[tag], users) \in List
      BY <2>2, ListOps
    <3>2. \E l \in List : run' = [run EXCEPT ![tag] = l]
      BY <1>5, <3>1 DEF CallFails
    <3> QED
      BY <2>2, <3>2 DEF TypeOK
  <2>4. TypeOK'
    BY <1>1, <1>5, <2>1, <2>3 DEF TypeOK, CallFails
  <2> QED
    BY <1>2, <2>4
<1> QED
  BY <1>3, <1>4, <1>5 DEF Fails

\* Reading: what has been read is what runs.
LEMMA ReadStep == IInv /\ (StartTick \/ ReadTag \/ ReadDone) => IInv'
<1> SUFFICES ASSUME IInv, StartTick \/ ReadTag \/ ReadDone PROVE IInv'
  OBVIOUS
<1> USE DEF IInv
<1>1. CASE StartTick
  <2> USE <1>1 DEF StartTick
  <2>1. TypeOK'
    BY DEF TypeOK
  <2>2. TickIsTrue' /\ VerifiedRuns'
    BY DEF TickIsTrue, VerifiedRuns
  <2> QED
    BY <2>1, <2>2
<1>2. CASE ReadTag
  <2> USE <1>2 DEF ReadTag
  <2>1. TypeOK'
    BY DEF TypeOK
  <2>2. ASSUME fault = {}, NEW t \in Tags, t < tag + 1
        PROVE seen'[t] = run[t]
    <3>1. CASE t = tag
      BY <3>1 DEF TypeOK
    <3>2. CASE t # tag
      BY <3>2, <2>2 DEF TickIsTrue, TypeOK
    <3> QED
      BY <3>1, <3>2
  <2>3. TickIsTrue' /\ VerifiedRuns'
    BY <2>2 DEF TickIsTrue, VerifiedRuns
  <2> QED
    BY <2>1, <2>3
<1>3. CASE ReadDone
  <2> USE <1>3 DEF ReadDone
  <2>1. fault = {} => \A t \in Tags : seen[t] = run[t]
    BY DEF TickIsTrue
  <2>3. TypeOK'
    BY DEF TypeOK
  <2>4. TickIsTrue' /\ VerifiedRuns'
    BY <2>1 DEF TickIsTrue, VerifiedRuns, TypeOK
  <2> QED
    BY <2>3, <2>4
<1> QED
  BY <1>1, <1>2, <1>3

\* The exchange: the list received is planned in round 1 and only kept in round 2.
LEMMA ExchangeStep == IInv /\ Exchange => IInv'
<1> SUFFICES ASSUME IInv, Exchange PROVE IInv'
  OBVIOUS
<1> USE DEF IInv
<1>1. /\ pc = "tell" /\ desired' = list /\ pc' = IF round = 1 THEN "plan" ELSE "idle"
      /\ fault' = IF round = 2 /\ desired # list THEN fault \cup {"newer"} ELSE fault
      /\ UNCHANGED <<list, deployed, run, verified, round, tag, seen, changed, late, upsets>>
      /\ Record(TheRequest)
  BY DEF Exchange
<1>2. row' \in [desired : List \cup {NoList}, applied : List \cup {NoList},
                running : SUBSET Users]
  BY <1>1, RequestType, RecordType
<1>3. list \in List /\ list # NoList
  BY DEF TypeOK
<1>4. TypeOK'
  BY <1>1, <1>2, <1>3 DEF TypeOK
<1>5. CASE round = 1
  <2>1. TickIsTrue'
    BY <1>1, <1>5 DEF TickIsTrue, TypeOK
  <2>2. VerifiedRuns'
    BY <1>1, <1>5 DEF VerifiedRuns
  <2> QED
    BY <1>4, <2>1, <2>2
<1>6. CASE round = 2
  <2>1. pc' = "idle"
    BY <1>1, <1>6
  <2>2. fault' = {} => fault = {} /\ desired' = desired
    BY <1>1, <1>6
  <2>3. fault' = {} => Runs(desired)
    BY <2>2, <1>1, <1>6 DEF TickIsTrue
  <2>4. VerifiedRuns'
    BY <2>2, <2>3, <1>1 DEF VerifiedRuns, Runs
  <2>5. TickIsTrue'
    BY <2>1 DEF TickIsTrue
  <2> QED
    BY <1>4, <2>4, <2>5
<1> QED
  BY <1>5, <1>6 DEF TypeOK

\* Removing and adding what differs leaves the wanted users.
LEMMA RemoveIsEnough ==
  ASSUME NEW l \in List, desired \in List, ToAdd(l) = {}
  PROVE  SameUsers(Without(l, ToRemove(l)), desired)
BY DEF List, SameUsers, Without, ToRemove, ToAdd, Others

LEMMA RemoveThenAdd ==
  ASSUME NEW l \in List, desired \in List
  PROVE  SameUsers(With(Without(l, ToRemove(l)), ToAdd(l)), desired)
BY DEF List, SameUsers, Without, With, ToRemove, ToAdd, Others

LEMMA AddIsEnough ==
  ASSUME NEW l \in List, desired \in List, ToRemove(l) = {}
  PROVE  SameUsers(With(l, ToAdd(l)), desired)
BY DEF List, SameUsers, With, ToRemove, ToAdd, Others

LEMMA NothingDiffers ==
  ASSUME NEW l \in List, desired \in List, ToRemove(l) = {}, ToAdd(l) = {}
  PROVE  SameUsers(l, desired)
BY DEF List, SameUsers, ToRemove, ToAdd, Others

\* An inbound without differences is done.
LEMMA NothingStep == IInv /\ NothingToDo => IInv'
<1> SUFFICES ASSUME IInv, NothingToDo PROVE IInv'
  OBVIOUS
<1> USE DEF IInv
<1>1. /\ pc = "plan" /\ tag \in Tags /\ tag' = tag + 1
      /\ ToRemove(seen[tag]) = {} /\ ToAdd(seen[tag]) = {}
      /\ UNCHANGED <<list, row, deployed, run, desired, verified, pc, round, seen, changed,
                     late, upsets, fault>>
  BY DEF NothingToDo
<1>2. TypeOK'
  BY <1>1 DEF TypeOK
<1>3. desired \in List /\ seen[tag] \in List
  BY <1>1 DEF TypeOK
<1>4. SameUsers(seen[tag], desired)
  BY <1>1, <1>3, NothingDiffers
<1>5. ASSUME fault = {}, NEW t \in Tags
      PROVE /\ t < tag + 1 => SameUsers(run[t], desired)
            /\ t >= tag + 1 => seen[t] = run[t]
  BY <1>1, <1>4, <1>5 DEF TickIsTrue, TypeOK
<1>6. TickIsTrue'
  BY <1>1, <1>5 DEF TickIsTrue, SameUsers, TypeOK
<1>7. VerifiedRuns'
  BY <1>1 DEF VerifiedRuns
<1> QED
  BY <1>2, <1>6, <1>7

\* One API call on an inbound leaves the other inbounds alone.
LEMMA RemoveStep == IInv /\ RemoveUsers => IInv'
<1> SUFFICES ASSUME IInv, RemoveUsers PROVE IInv'
  OBVIOUS
<1> USE DEF IInv
<1>1. /\ pc = "plan" /\ tag \in Tags /\ changed' = "yes"
      /\ run' = [run EXCEPT ![tag] = Without(run[tag], ToRemove(seen[tag]))]
      /\ \/ ToAdd(seen[tag]) = {} /\ tag' = tag + 1 /\ pc' = "plan"
         \/ tag' = tag /\ pc' = "add"
      /\ UNCHANGED <<list, row, deployed, desired, verified, round, seen, late, upsets, fault>>
  BY DEF RemoveUsers, Removing
<1>2. desired \in List /\ seen[tag] \in List /\ run[tag] \in List
  BY <1>1 DEF TypeOK
<1>3. run' \in [Tags -> List]
  BY <1>1, <1>2, ListOps DEF TypeOK
<1>4. TypeOK'
  BY <1>1, <1>3 DEF TypeOK
<1>5. /\ run'[tag] = Without(run[tag], ToRemove(seen[tag]))
      /\ \A t \in Tags : t # tag => run'[t] = run[t]
  BY <1>1 DEF TypeOK
<1>6. fault = {} => /\ run[tag] = seen[tag]
                    /\ \A t \in Tags : t < tag => SameUsers(run[t], desired)
                    /\ \A t \in Tags : t > tag => seen[t] = run[t]
  BY <1>1 DEF TickIsTrue
<1>7. VerifiedRuns'
  BY <1>1 DEF VerifiedRuns
<1>8. CASE ToAdd(seen[tag]) = {} /\ tag' = tag + 1 /\ pc' = "plan"
  <2>1. fault = {} => SameUsers(run'[tag], desired)
    BY <1>2, <1>5, <1>6, <1>8, RemoveIsEnough
  <2>2. ASSUME fault = {}, NEW t \in Tags
        PROVE /\ t < tag + 1 => SameUsers(run'[t], desired)
              /\ t >= tag + 1 => seen[t] = run'[t]
    BY <1>1, <1>5, <1>6, <2>1, <2>2
  <2>3. TickIsTrue'
    BY <1>1, <1>8, <2>2 DEF TickIsTrue, SameUsers, TypeOK
  <2> QED
    BY <1>4, <1>7, <2>3
<1>9. CASE tag' = tag /\ pc' = "add"
  <2>1. ASSUME fault = {}, NEW t \in Tags
        PROVE /\ t < tag => SameUsers(run'[t], desired)
              /\ t > tag => seen[t] = run'[t]
    BY <1>1, <1>5, <1>6, <2>1
  <2>2. fault = {} => run'[tag] = Without(seen[tag], ToRemove(seen[tag]))
    BY <1>5, <1>6
  <2>3. TickIsTrue'
    BY <1>1, <1>9, <2>1, <2>2 DEF TickIsTrue, SameUsers, ToRemove, Without
  <2> QED
    BY <1>4, <1>7, <2>3
<1> QED
  BY <1>1, <1>8, <1>9

LEMMA AddStep == IInv /\ AddUsers => IInv'
<1> SUFFICES ASSUME IInv, AddUsers PROVE IInv'
  OBVIOUS
<1> USE DEF IInv
<1>1. /\ pc \in {"plan", "add"} /\ tag \in Tags /\ changed' = "yes"
      /\ pc = "plan" => ToRemove(seen[tag]) = {}
      /\ run' = [run EXCEPT ![tag] = With(run[tag], ToAdd(seen[tag]))]
      /\ tag' = tag + 1 /\ pc' = "plan"
      /\ UNCHANGED <<list, row, deployed, desired, verified, round, seen, late, upsets, fault>>
  BY DEF AddUsers, Adding
<1>2. desired \in List /\ seen[tag] \in List /\ run[tag] \in List
  BY <1>1 DEF TypeOK
<1>3. run' \in [Tags -> List]
  BY <1>1, <1>2, ListOps DEF TypeOK
<1>4. TypeOK'
  BY <1>1, <1>3 DEF TypeOK
<1>5. /\ run'[tag] = With(run[tag], ToAdd(seen[tag]))
      /\ \A t \in Tags : t # tag => run'[t] = run[t]
  BY <1>1 DEF TypeOK
<1>6. fault = {} => SameUsers(run'[tag], desired)
  <2>1. CASE pc = "plan"
    BY <2>1, <1>1, <1>2, <1>5, AddIsEnough DEF TickIsTrue
  <2>2. CASE pc = "add"
    BY <2>2, <1>1, <1>2, <1>5, RemoveThenAdd DEF TickIsTrue
  <2> QED
    BY <1>1, <2>1, <2>2
<1>7. ASSUME fault = {}, NEW t \in Tags
      PROVE /\ t < tag + 1 => SameUsers(run'[t], desired)
            /\ t >= tag + 1 => seen[t] = run'[t]
  <2>1. t < tag => SameUsers(run[t], desired)
    BY <1>1, <1>7 DEF TickIsTrue
  <2>2. t > tag => seen[t] = run[t]
    BY <1>1, <1>7 DEF TickIsTrue
  <2> QED
    BY <1>1, <1>5, <1>6, <1>7, <2>1, <2>2
<1>8. TickIsTrue'
  BY <1>1, <1>7 DEF TickIsTrue, SameUsers, TypeOK
<1>9. VerifiedRuns'
  BY <1>1 DEF VerifiedRuns
<1> QED
  BY <1>4, <1>8, <1>9

\* After the last inbound every inbound runs the list.
LEMMA RoundStep == IInv /\ RoundDone => IInv'
<1> SUFFICES ASSUME IInv, RoundDone PROVE IInv'
  OBVIOUS
<1> USE DEF IInv
<1>1. /\ pc = "plan" /\ tag = Inbounds + 1 /\ AfterRound /\ tag' = 1
      /\ UNCHANGED <<list, row, deployed, run, desired, seen, changed, late, upsets, fault>>
  BY DEF RoundDone
<1>2. \/ pc' = "read" /\ round' = 2 /\ UNCHANGED verified
      \/ round = 1 /\ verified' = "yes" /\ pc' = "idle" /\ UNCHANGED round
      \/ round # 1 /\ verified' = "yes" /\ pc' = "tell" /\ UNCHANGED round
  BY <1>1 DEF AfterRound
<1>3. TypeOK'
  BY <1>1, <1>2 DEF TypeOK
<1>4. fault = {} => Runs(desired)
  BY <1>1 DEF TickIsTrue, SameUsers, Runs
<1>5. TickIsTrue' /\ VerifiedRuns'
  BY <1>1, <1>2, <1>4 DEF TickIsTrue, VerifiedRuns, Runs, TypeOK
<1> QED
  BY <1>3, <1>5

\* IInv holds throughout every behaviour.
THEOREM Invariance == Spec => []IInv
<1>1. ASSUME IInv, UNCHANGED vars PROVE IInv'
  BY <1>1 DEF vars, IInv, TypeOK, TickIsTrue, VerifiedRuns, Runs, SameUsers, ToRemove, Without
<1>2. IInv /\ [Next]_vars => IInv'
  BY <1>1, AroundStep, LateStep, FailStep, ReadStep, ExchangeStep, NothingStep, RemoveStep,
     AddStep, RoundStep DEF Next, Tick
<1> QED
  BY InitIInv, <1>2, PTL DEF Spec

\* Every variable keeps its type.
THEOREM TypeCorrect == Spec => []TypeOK
<1>1. IInv => TypeOK
  BY DEF IInv
<1> QED
  BY Invariance, <1>1, PTL

\* When the agent believes between two ticks that it runs its list, it does, on
\* every inbound, unless Xray restarted since or a newer list came last.
THEOREM VerifiedIsTrue == Spec => []VerifiedRuns
<1>1. IInv => VerifiedRuns
  BY DEF IInv
<1> QED
  BY Invariance, <1>1, PTL

\* The agent never touches the users it is told to keep, whatever list it gets.
THEOREM KeptUsersRun == Spec => []KeptRun
<1>1. Init => KeptRun
  BY DEF Init, KeptRun
<1>2. ASSUME TypeOK, TypeOK', KeptRun, [Next]_vars PROVE KeptRun'
  <2>1. CASE UNCHANGED <<run, deployed>>
    BY <1>2, <2>1 DEF KeptRun
  <2>2. CASE XrayRestart \/ Deploy
    <3>1. \A t \in Tags : run'[t] = deployed'
      BY <2>2 DEF XrayRestart, Deploy
    <3> QED
      BY <3>1 DEF KeptRun
  <2>3. ASSUME UNCHANGED deployed, tag \in Tags,
               NEW l \in List, run' = [run EXCEPT ![tag] = l],
               \A u \in Keep : l[u] = run[tag][u]
        PROVE  KeptRun'
    BY <1>2, <2>3 DEF KeptRun, TypeOK
  <2>4. CASE RemoveUsers \/ AddUsers \/ CallFails
    <3>1. /\ tag \in Tags /\ UNCHANGED deployed
          /\ desired \in List /\ run[tag] \in List
      BY <1>2, <2>4 DEF RemoveUsers, AddUsers, CallFails, Removing, Adding, TypeOK
    <3>2. /\ ToRemove(seen[tag]) \subseteq Others
          /\ ToAdd(seen[tag]) \subseteq Others
      BY DEF ToRemove, ToAdd
    <3>3. \E done \in SUBSET Others :
            \/ run' = [run EXCEPT ![tag] = Without(run[tag], done)]
            \/ run' = [run EXCEPT ![tag] = With(run[tag], done)]
      BY <2>4, <3>2 DEF RemoveUsers, AddUsers, CallFails
    <3>4. PICK done \in SUBSET Others :
            \/ run' = [run EXCEPT ![tag] = Without(run[tag], done)]
            \/ run' = [run EXCEPT ![tag] = With(run[tag], done)]
      BY <3>3
    <3>5. /\ \A u \in Keep : Without(run[tag], done)[u] = run[tag][u]
          /\ \A u \in Keep : With(run[tag], done)[u] = run[tag][u]
      BY DEF Without, With, Others
    <3>6. Without(run[tag], done) \in List /\ With(run[tag], done) \in List
      BY <3>1, ListOps
    <3> QED
      BY <2>3, <3>1, <3>4, <3>5, <3>6
  <2>5. \/ UNCHANGED <<run, deployed>> \/ XrayRestart \/ Deploy
        \/ RemoveUsers \/ AddUsers \/ CallFails
    BY <1>2 DEF Next, Around, ChangeList, AgentRestart, HandleLate, Tick, StartTick, ReadTag,
       ReadDone, Exchange, Refuse, NothingToDo, RoundDone, Fails, ReadFails, ExchangeFails, vars
  <2> QED
    BY <2>1, <2>2, <2>4, <2>5
<1> QED
  BY <1>1, <1>2, TypeCorrect, PTL DEF Spec

-----------------------------------------------------------------------------
(***************************************************************************)
(* What a step may never do to the users that run.                         *)
(***************************************************************************)

\* A step of an undisturbed tick takes a user off an inbound only when the plan for it
\* says so, and the plan was made from what runs there.
LEMMA TakenOff ==
  ASSUME IInv, [Next]_vars, fault' = {}, NEW t \in Tags, NEW u \in Others,
         run[t][u] # 0, run'[t][u] = 0
  PROVE  /\ ~Refused(desired, seen[t]) /\ seen[t] = run[t]
         /\ u \in ToRemove(seen[t])
<1>1. Removing \/ Adding
  BY DEF Next, Around, ChangeList, XrayRestart, Deploy, AgentRestart, HandleLate, Tick,
    StartTick, ReadTag, ReadDone, Exchange, Refuse, NothingToDo, RemoveUsers, AddUsers,
    RoundDone, Fails, ReadFails, ExchangeFails, CallFails, vars
<1>2. RemoveUsers \/ AddUsers \/ CallFails
  BY DEF Next, Around, ChangeList, XrayRestart, Deploy, AgentRestart, HandleLate, Tick,
    StartTick, ReadTag, ReadDone, Exchange, Refuse, NothingToDo, RoundDone, Fails, ReadFails,
    ExchangeFails, vars
<1>3. tag \in Tags /\ run \in [Tags -> List] /\ fault = {}
  BY <1>1, <1>2 DEF Removing, Adding, RemoveUsers, AddUsers, CallFails, IInv, TypeOK
<1>4. u \in Users
  BY DEF Others
<1>5. \A users : With(run[tag], users)[u] = 0 => run[tag][u] = 0
  BY <1>4 DEF With
<1>6. \A users : Without(run[tag], users)[u] = 0 => run[tag][u] = 0 \/ u \in users
  BY <1>4 DEF Without
<1>7. PICK users \in SUBSET ToRemove(seen[tag]) :
        run' = [run EXCEPT ![tag] = Without(run[tag], users)] /\ Removing
  <2>1. CASE \E users : run' = [run EXCEPT ![tag] = With(run[tag], users)]
    BY <1>3, <1>5, <2>1
  <2> QED BY <1>2, <2>1 DEF RemoveUsers, AddUsers, CallFails
<1>8. t = tag /\ u \in users
  BY <1>3, <1>6, <1>7
<1>9. seen[tag] = run[tag]
  BY <1>3, <1>7 DEF Removing, IInv, TickIsTrue
<1> QED
  BY <1>7, <1>8, <1>9 DEF Removing

\* Nobody that runs as the list wants is taken off, unless Xray was restarted under the
\* agent: a plan made from what was read holds until it is carried out (Sync.reconcile).
THEOREM NoNeedlessCut == Spec => NobodyCutOff
<1>1. IInv /\ [Next]_vars =>
        (desired # NoList /\ fault' = {} =>
           \A t \in Tags, u \in Others :
             run[t][u] # 0 /\ run'[t][u] = 0 => run[t][u] # desired[u])
  <2> SUFFICES ASSUME IInv, [Next]_vars, fault' = {}, NEW t \in Tags, NEW u \in Others,
                      run[t][u] # 0, run'[t][u] = 0
               PROVE  run[t][u] # desired[u]
    OBVIOUS
  <2> QED
    BY TakenOff DEF ToRemove
<1> QED
  BY <1>1, Invariance, PTL DEF Spec, NobodyCutOff

\* An empty list, or one without most of the users, takes nobody off, in one call or by
\* parts of calls that failed (check_plan before each inbound).
THEOREM RefusalHolds == Spec => RefusalProtects
<1>1. ASSUME IInv, [Next]_vars, fault' = {}, NEW t \in Tags
      PROVE  GoneByHalves(t)
  <2> DEFINE gone == {u \in Others : run[t][u] # 0 /\ run'[t][u] = 0 /\ desired[u] = 0}
             dropped == {u \in Others : seen[t][u] # 0 /\ desired[u] = 0}
  <2>1. Cardinality(Names(run[t])) \in Nat /\ Cardinality({}) = 0
    <3>1. Names(run[t]) \in SUBSET Users
      BY DEF Names, Others
    <3> QED BY <3>1, FS_Subset, FS_CardinalityType, FS_EmptySet
  <2>2. CASE gone = {}
    BY <2>1, <2>2 DEF GoneByHalves
  <2>3. CASE gone # {}
    <3>1. ~Refused(desired, seen[t]) /\ seen[t] = run[t]
      BY <1>1, <2>3, TakenOff
    <3>2. gone \subseteq dropped /\ dropped \in SUBSET Users /\ gone \subseteq Names(seen[t])
      BY <3>1 DEF Names, Others
    <3>3. /\ Cardinality(gone) <= Cardinality(dropped)
          /\ Cardinality(gone) \in Nat /\ Cardinality(dropped) \in Nat
      BY <3>2, FS_Subset, FS_CardinalityType
    <3>4. ~(Names(desired) = {} /\ Names(seen[t]) # {})
      BY <3>1 DEF Refused
    <3>5. ~(Cardinality(dropped) >= MinRefused /\ Cardinality(dropped) * 2 > Cardinality(Names(seen[t])))
      BY <3>1 DEF Refused
    <3>6. Names(desired) # {}
      BY <2>3, <3>2, <3>4
    <3> HIDE DEF gone, dropped
    <3>7. Cardinality(gone) >= MinRefused => Cardinality(gone) * 2 <= Cardinality(Names(run[t]))
      BY <2>1, <3>1, <3>3, <3>5
    <3> QED BY <3>6, <3>7 DEF GoneByHalves, gone
  <2> QED BY <2>2, <2>3
<1>2. IInv /\ [Next]_vars =>
        (desired # NoList /\ fault' = {} => \A t \in Tags : GoneByHalves(t))
  BY <1>1
<1> QED
  BY <1>2, Invariance, PTL DEF Spec, RefusalProtects
=============================================================================
