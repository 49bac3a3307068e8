-------------------------- MODULE EgressApplyProofs --------------------------
(***************************************************************************)
(* Proofs about EgressApply, for any pool of assignments and any number of *)
(* changes, restarts and failures.                                         *)
(***************************************************************************)
EXTENDS EgressApply, WellFoundedInduction, SequenceTheorems, TLAPS

-----------------------------------------------------------------------------
(***************************************************************************)
(* The inductive invariant behind BelievesWhatRuns, BlocksOnFailure and    *)
(* SwitchesByChecks.                                                       *)
(***************************************************************************)
Applying == {"rmrules", "rmo", "ado", "adrules", "fallback", "default", "verify"}

PlanKnown == applied # None \/ failed # {} \/ pc \in Applying => payload # None

\* As long as the agent reaches it, Xray is as the agent left it.
Remembers ==
  reach = "yes" =>
    /\ astray = "no" => \A e \in Egresses : added[e] # None => outbounds[e] = added[e]
    /\ pc \notin Applying /\ applied # None =>
         /\ rules = applied.rules \o <<DefaultRule>>
         /\ astray = "no" => outbounds = applied.outbounds

\* What the calls of an apply have done at each step.
Runs(list) == rules = list /\ (astray = "no" => outbounds = Wanted)

AsFarAs ==
  reach = "yes" =>
    /\ pc \in {"rmrules", "rmo", "ado", "adrules", "verify"} => failed = {}
    /\ pc \in {"rmo", "ado", "adrules"} => rules = <<>>
    /\ pc = "ado" /\ astray = "no" =>
         \A e \in Egresses : outbounds[e] = added[e] /\ added[e] \in {None, Wanted[e]}
    /\ pc = "adrules" => Runs(<<>>)
    /\ pc = "default" /\ failed = {} => Runs(Desired)
    /\ pc = "verify" => Runs(Desired \o <<DefaultRule>>)
    /\ pc = "fallback" => \/ failed \in {{"rmo"}, {"ado"}} /\ rules = <<>>
                          \/ failed = {"adrules"} /\ rules = <<>>
                          \/ failed = {"adrules"} /\ Desired # <<>> /\ Runs(Desired)

\* Where no rule is the agent's, or only part of what it placed is known to be there.
Guarded ==
  reach = "yes" /\ pc \in {"default", "idle"} /\ failed # {}
      /\ (failed = {"adrules"} \/ failed \in SUBSET {"rmo", "ado"}) =>
    \A a \in Ids :
      payload.assignments[a] # None /\ Pool[a].on_failure = "block" => Covered(a)

\* After an apply that went well, until the plan may change, what was decided is what
\* would be decided.
Decided ==
  pc \in {"idle", "send"} /\ applied # None /\ failed = {} =>
    applied = [outbounds |-> Wanted, rules |-> Desired] /\ states = NowStates

\* The streak is the run of good checks at the end, and the last RECOVER are kept.
Fits(k, list) ==
  /\ Len(list) <= RECOVER
  /\ k.ok = "yes" => NoFailure(list)
  /\ k.ok = "no" =>
       /\ k.streak < RECOVER /\ k.streak < Len(list)
       /\ list[Len(list) - k.streak] = "fail"
       /\ \A n \in Len(list) - k.streak + 1 .. Len(list) : list[n] = "ok"

Streaks ==
  \A e \in Egresses :
    IF health[e] = None THEN seen[e] = [tcp |-> <<>>, udp |-> <<>>]
    ELSE Fits(health[e].tcp, seen[e].tcp) /\ Fits(health[e].udp, seen[e].udp)

EgressIInv ==
  TypeOK /\ PlanKnown /\ Remembers /\ AsFarAs /\ Guarded /\ Decided /\ Streaks

-----------------------------------------------------------------------------
(***************************************************************************)
(* FlattenSeq, which joins the rules of the assignments.  It is recursive: *)
(* what is proved of it for every sequence is proved by induction, here on *)
(* sets of numbers.                                                        *)
(***************************************************************************)

\* A set of numbers that has 0 and with each number the next has all.
LEMMA Induct == ASSUME NEW T \in SUBSET Nat, 0 \in T, \A n \in T : n + 1 \in T PROVE T = Nat
<1> DEFINE B == Nat \ T
<1>1. ASSUME B # {} PROVE FALSE
  <2>1. PICK x \in B : \A y \in B : ~(<<y, x>> \in OpToRel(<, Nat))
    <3>1. B \subseteq Nat
      OBVIOUS
    <3> HIDE DEF B
    <3> QED BY <3>1, <1>1, NatLessThanWellFounded, WFMin
  <2>2. x # 0 /\ x \in Nat /\ x - 1 \in Nat
    OBVIOUS
  <2>3. x - 1 \in B
    <3>1. x - 1 + 1 = x BY <2>2
    <3> QED BY <2>1, <2>2, <3>1
  <2>4. <<x - 1, x>> \in OpToRel(<, Nat)
    BY <2>2 DEF OpToRel
  <2> QED BY <2>1, <2>3, <2>4
<1> QED BY <1>1

\* The same up to n, from 1.
LEMMA InductUpTo ==
  ASSUME NEW n \in Nat \ {0}, NEW T, 1 \in T, \A m \in 1 .. n - 1 : m \in T => m + 1 \in T
  PROVE  n \in T
<1> DEFINE U == {m \in Nat : m + 1 \in 1 .. n => m + 1 \in T}
<1>1. U \in SUBSET Nat /\ 0 \in U
  OBVIOUS
<1>2. ASSUME NEW m \in U PROVE m + 1 \in U
  <2>1. m \in Nat /\ (m + 1 \in 1 .. n => m + 1 \in T)
    OBVIOUS
  <2>2. m + 1 + 1 \in 1 .. n => m + 1 \in 1 .. n - 1 /\ m + 1 \in 1 .. n
    BY <2>1
  <2> QED BY <2>1, <2>2
<1>3. U = Nat
  <2> HIDE DEF U
  <2> QED BY <1>1, <1>2, Induct
<1>4. n - 1 \in U /\ n - 1 + 1 = n
  BY <1>3
<1> QED BY <1>4

\* f[i] joins the first i of ss.
IsFlat(f, n, ss) ==
  f = [i \in 1 .. n |-> IF i = 1 THEN ss[i] ELSE f[i - 1] \o ss[i]]

LEMMA FlatExists ==
  ASSUME NEW S, NEW ss \in Seq(Seq(S)) PROVE \E f : IsFlat(f, Len(ss), ss)
<1> DEFINE T == {n \in Nat : \E f : IsFlat(f, n, ss)}
<1>1. 0 \in T
  <2>1. IsFlat([i \in 1 .. 0 |-> <<>>], 0, ss)
    BY DEF IsFlat
  <2> QED BY <2>1
<1>2. ASSUME NEW n \in T PROVE n + 1 \in T
  <2>1. n \in Nat
    OBVIOUS
  <2>2. PICK f : IsFlat(f, n, ss)
    OBVIOUS
  <2> DEFINE g == [i \in 1 .. n + 1 |->
                     IF i = 1 THEN ss[i] ELSE f[i - 1] \o ss[i]]
  <2>3. \A i \in 1 .. n : f[i] = IF i = 1 THEN ss[i] ELSE f[i - 1] \o ss[i]
    BY <2>2 DEF IsFlat
  <2>4. \A i \in 1 .. n : g[i] = f[i]
    BY <2>1, <2>3
  <2>5. \A i \in 1 .. n + 1 : g[i] = IF i = 1 THEN ss[i] ELSE g[i - 1] \o ss[i]
    <3>1. \A i \in 1 .. n + 1 : i # 1 => i - 1 \in 1 .. n
      BY <2>1
    <3> QED BY <2>4, <3>1
  <2>6. g = [i \in 1 .. n + 1 |-> g[i]]
    OBVIOUS
  <2>7. IsFlat(g, n + 1, ss)
    <3> HIDE DEF g
    <3> QED BY <2>5, <2>6, Zenon DEF IsFlat
  <2> QED BY <2>1, <2>7
<1>3. T \subseteq Nat
  OBVIOUS
<1>4. Len(ss) \in T
  <2> HIDE DEF T
  <2>1. Len(ss) \in Nat
    OBVIOUS
  <2> QED BY <1>1, <1>2, <1>3, <2>1, Induct
<1> QED BY <1>4

LEMMA FlatDef ==
  ASSUME NEW S, NEW ss \in Seq(Seq(S)), ss # <<>>
  PROVE  \E f : /\ FlattenSeq(ss) = f[Len(ss)]
                /\ f[1] = ss[1]
                /\ \A i \in 1 .. Len(ss) - 1 : f[i + 1] = f[i] \o ss[i + 1]
<1> DEFINE f == CHOOSE g : IsFlat(g, Len(ss), ss)
<1>1. IsFlat(f, Len(ss), ss)
  BY FlatExists
<1>2. FlattenSeq(ss) = f[Len(ss)]
  <2>1. Len(ss) # 0
    OBVIOUS
  <2>2. FlattenSeq(ss) = (CHOOSE g : g = [i \in 1..Len(ss) |-> IF i = 1 THEN ss[i] ELSE g[i-1] \o ss[i]])[Len(ss)]
    BY <2>1 DEF FlattenSeq
  <2> QED BY <2>2, Zenon DEF IsFlat
<1> HIDE DEF f
<1>3. f[1] = ss[1] /\ \A i \in 1 .. Len(ss) - 1 : f[i + 1] = f[i] \o ss[i + 1]
  <2>1. \A i \in 1 .. Len(ss) : f[i] = IF i = 1 THEN ss[i] ELSE f[i - 1] \o ss[i]
    BY <1>1 DEF IsFlat
  <2>2. 1 \in 1 .. Len(ss)
    OBVIOUS
  <2>3. ASSUME NEW i \in 1 .. Len(ss) - 1
        PROVE  i + 1 \in 1 .. Len(ss) /\ i + 1 # 1 /\ (i + 1) - 1 = i
    OBVIOUS
  <2> QED BY <2>1, <2>2, <2>3
<1> QED BY <1>2, <1>3

\* What is in the lists is in all of them together, and nothing else.
LEMMA FlatElements ==
  ASSUME NEW S, NEW ss \in Seq(Seq(S))
  PROVE  /\ FlattenSeq(ss) \in Seq(S)
         /\ \A x : x \in Range(FlattenSeq(ss)) <=> \E i \in 1 .. Len(ss) : x \in Range(ss[i])
<1>1. CASE ss = <<>>
  BY <1>1 DEF FlattenSeq, Range
<1>2. CASE ss # <<>>
  <2>1. PICK f : /\ FlattenSeq(ss) = f[Len(ss)]
                 /\ f[1] = ss[1]
                 /\ \A i \in 1 .. Len(ss) - 1 : f[i + 1] = f[i] \o ss[i + 1]
    BY <1>2, FlatDef
  <2> DEFINE
        Has(m) == /\ f[m] \in Seq(S)
                  /\ \A x : x \in Range(f[m]) <=> \E i \in 1 .. m : x \in Range(ss[i])
        T == {m \in 1 .. Len(ss) : Has(m)}
  <2>2. Len(ss) \in Nat \ {0} /\ 1 \in 1 .. Len(ss)
    BY <1>2
  <2>3. Has(1)
    <3>1. ss[1] \in Seq(S) /\ f[1] = ss[1]
      BY <2>1, <2>2
    <3>2. \A i : i \in 1 .. 1 <=> i = 1
      OBVIOUS
    <3>3. \A x : x \in Range(f[1]) <=> \E i \in 1 .. 1 : x \in Range(ss[i])
      BY <3>1, <3>2, Zenon
    <3> QED BY <3>1, <3>3
  <2>4. ASSUME NEW m \in 1 .. Len(ss) - 1, Has(m) PROVE Has(m + 1)
    <3>0. m + 1 \in 1 .. Len(ss)
      BY <2>2
    <3>1. f[m + 1] = f[m] \o ss[m + 1] /\ ss[m + 1] \in Seq(S) /\ f[m] \in Seq(S)
      <4>1. f[m + 1] = f[m] \o ss[m + 1]
        BY <2>1
      <4>2. ss[m + 1] \in Seq(S)
        BY <3>0
      <4>3. f[m] \in Seq(S)
        BY <2>4
      <4> QED BY <4>1, <4>2, <4>3
    <3>2. Range(f[m + 1]) = Range(f[m]) \cup Range(ss[m + 1])
      BY <3>1, RangeConcatenation
    <3>3. \A i : i \in 1 .. m + 1 <=> i \in 1 .. m \/ i = m + 1
      OBVIOUS
    <3>4. f[m + 1] \in Seq(S)
      BY <3>1
    <3>5. ASSUME NEW x
          PROVE  x \in Range(f[m + 1]) <=> \E i \in 1 .. m + 1 : x \in Range(ss[i])
      <4>1. x \in Range(f[m + 1]) <=> x \in Range(f[m]) \/ x \in Range(ss[m + 1])
        BY <3>2
      <4>2. x \in Range(f[m]) <=> \E i \in 1 .. m : x \in Range(ss[i])
        BY <2>4
      <4> QED BY <3>3, <4>1, <4>2, Zenon
    <3> QED BY <3>4, <3>5
  <2> HIDE DEF Has
  <2>5. 1 \in T
    BY <2>2, <2>3
  <2>6. ASSUME NEW m \in 1 .. Len(ss) - 1, m \in T PROVE m + 1 \in T
    <3>1. m + 1 \in 1 .. Len(ss)
      BY <2>2
    <3>2. Has(m)
      BY <2>6
    <3>3. Has(m + 1)
      BY <2>4, <3>2
    <3> QED BY <3>1, <3>3
  <2>7. Len(ss) \in T
    <3> HIDE DEF T
    <3> QED BY <2>2, <2>5, <2>6, InductUpTo
  <2>8. Has(Len(ss))
    BY <2>7
  <2> QED BY <2>1, <2>8 DEF Has
<1> QED BY <1>1, <1>2

-----------------------------------------------------------------------------
(***************************************************************************)
(* The rules of a plan.                                                    *)
(***************************************************************************)
LEMMA IsSeq ==
  ASSUME NEW S, NEW n \in Nat, NEW f, f = [i \in 1 .. n |-> f[i]], \A i \in 1 .. n : f[i] \in S
  PROVE  f \in Seq(S) /\ Len(f) = n /\ DOMAIN f = 1 .. n
OBVIOUS

\* Assignments are numbered from 1, and each has rules, the first through its egress.
LEMMA PoolType ==
  /\ Ids = 1 .. Len(Pool) /\ Len(Pool) \in Nat /\ 0 \notin Ids
  /\ \A a \in Ids : /\ Pool[a].egress \in Egresses
                    /\ Pool[a].rules \in Seq({"egress", "block"})
                    /\ 1 \in DOMAIN Pool[a].rules /\ Pool[a].rules[1] = "egress"
                    /\ DOMAIN Pool[a].rules = 1 .. Len(Pool[a].rules)
<1>1. Ids = 1 .. Len(Pool) /\ Len(Pool) \in Nat /\ 0 \notin Ids
  BY EgressAssumption DEF Ids
<1>2. ASSUME NEW a \in Ids
      PROVE  /\ Pool[a].egress \in Egresses
             /\ Pool[a].rules \in Seq({"egress", "block"})
             /\ Pool[a].rules # <<>> /\ Pool[a].rules[1] = "egress"
  <2>1. Pool[a] \in [egress : Egresses, on_failure : {"direct", "block"},
                     udp : {"yes", "no"}, rules : Seq({"egress", "block"})]
    <3> DEFINE R == [egress : Egresses, on_failure : {"direct", "block"},
                     udp : {"yes", "no"}, rules : Seq({"egress", "block"})]
    <3>1. Pool \in Seq(R) /\ a \in 1 .. Len(Pool)
      BY <1>1, EgressAssumption
    <3> HIDE DEF R
    <3>2. Pool[a] \in R
      BY <3>1
    <3> QED BY <3>2 DEF R
  <2> QED BY <2>1, EgressAssumption DEF Ids
<1>3. ASSUME NEW s \in Seq({"egress", "block"}), s # <<>>
      PROVE  1 \in DOMAIN s /\ DOMAIN s = 1 .. Len(s)
  BY <1>3
<1> QED
  BY <1>1, <1>2, <1>3

LEMMA PlanType == TypeOK => plan \in Payload
<1> SUFFICES ASSUME TypeOK PROVE plan \in Payload
  OBVIOUS
<1>1. \A e \in Egresses : settings[e] \in Settings
  BY DEF TypeOK
<1>2. \A a \in Ids : match[a] \in Matches
  BY DEF TypeOK
<1> QED
  BY <1>1, <1>2 DEF plan, Payload

\* One rule for each of the assignment's, in their order.
LEMMA RulesOfType ==
  ASSUME NEW p \in Payload, NEW a \in Ids, p.assignments[a] # None, NEW open
  PROVE  /\ RulesOf(p, a, a \in open) \in Seq(Rule)
         /\ DOMAIN RulesOf(p, a, a \in open) = DOMAIN Pool[a].rules
         /\ \A i \in DOMAIN Pool[a].rules :
              /\ RulesOf(p, a, a \in open)[i].id = a
              /\ RulesOf(p, a, a \in open)[i].index = i
              /\ RulesOf(p, a, a \in open)[i].match = p.assignments[a]
              /\ RulesOf(p, a, a \in open)[i].to = "egress"
                   <=> a \in open /\ Pool[a].rules[i] = "egress"
<1> DEFINE n == Len(Pool[a].rules)
           R == RulesOf(p, a, a \in open)
<1>1. n \in Nat /\ DOMAIN Pool[a].rules = 1 .. n
  BY PoolType
<1>2. p.assignments[a] \in Matches
  BY DEF Payload
<1>3. R = [i \in 1 .. n |->
             [id |-> a, index |-> i, match |-> p.assignments[a],
              to |-> IF a \in open /\ Pool[a].rules[i] = "egress" THEN "egress" ELSE "blocked"]]
  BY DEF RulesOf
<1> HIDE DEF R, n
<1>4. ASSUME NEW i \in 1 .. n
      PROVE  /\ R[i] \in Rule /\ R[i].id = a /\ R[i].index = i
             /\ R[i].match = p.assignments[a]
             /\ R[i].to = "egress" <=> a \in open /\ Pool[a].rules[i] = "egress"
  BY <1>1, <1>2, <1>3 DEF Rule
<1>5. DOMAIN R = 1 .. n /\ R \in Seq(Rule)
  <2>0. n \in Nat
    BY <1>1
  <2>1. R = [i \in 1 .. n |-> R[i]]
    BY <1>3
  <2>2. \A i \in 1 .. n : R[i] \in Rule
    BY <1>4
  <2> HIDE DEF Rule
  <2> QED BY <2>0, <2>1, <2>2, IsSeq
<1>6. DOMAIN R = DOMAIN Pool[a].rules
  BY <1>1, <1>5
<1> QED
  BY <1>1, <1>4, <1>5, <1>6 DEF R

\* A list of the rules of some assignments of a plan, some of them through their egress.
IsList(list, p, chosen, open) ==
  /\ list \in Seq(Rule)
  /\ \A n \in DOMAIN list :
       /\ list[n].id \in chosen
       /\ list[n].index \in DOMAIN Pool[list[n].id].rules
       /\ list[n].match = p.assignments[list[n].id]
       /\ list[n].to = "egress" <=>
            list[n].id \in open /\ Pool[list[n].id].rules[list[n].index] = "egress"
  /\ \A a \in chosen : \A i \in DOMAIN Pool[a].rules :
       \E n \in DOMAIN list : list[n].id = a /\ list[n].index = i

LEMMA Joined ==
  ASSUME NEW p \in Payload, NEW chosen \in SUBSET {a \in Ids : p.assignments[a] # None},
         NEW open, NEW lists, lists = [a \in Ids |-> lists[a]],
         \A a \in Ids : lists[a] = IF a \in chosen THEN RulesOf(p, a, a \in open) ELSE <<>>
  PROVE  IsList(FlattenSeq(lists), p, chosen, open)
<1> DEFINE F == FlattenSeq(lists)
<1>1. \A a \in Ids : lists[a] \in Seq(Rule)
  <2> SUFFICES ASSUME NEW a \in Ids PROVE lists[a] \in Seq(Rule)
    OBVIOUS
  <2>2. CASE a \in chosen
    BY <2>2, RulesOfType
  <2>3. CASE a \notin chosen
    <3>1. lists[a] = <<>>
      BY <2>3
    <3>2. <<>> \in Seq(Rule)
      OBVIOUS
    <3> QED BY <3>1, <3>2
  <2> QED BY <2>2, <2>3
<1>2. lists \in Seq(Seq(Rule)) /\ Len(lists) = Len(Pool)
  <2> HIDE DEF Ids
  <2>1. Ids = 1 .. Len(Pool) /\ Len(Pool) \in Nat
    BY PoolType
  <2> QED BY <1>1, <2>1, IsSeq
<1>3. /\ F \in Seq(Rule)
      /\ \A x : x \in Range(F) <=> \E a \in Ids : x \in Range(lists[a])
  BY <1>2, PoolType, FlatElements
<1> HIDE DEF F
<1>4. ASSUME NEW a \in chosen
      PROVE  \A x : x \in Range(lists[a]) <=>
                 \E i \in DOMAIN Pool[a].rules : x = RulesOf(p, a, a \in open)[i]
  <2>1. DOMAIN lists[a] = DOMAIN Pool[a].rules /\ lists[a] = RulesOf(p, a, a \in open)
    BY RulesOfType
  <2> QED BY <2>1 DEF Range
<1>5. ASSUME NEW n \in DOMAIN F
      PROVE  /\ F[n].id \in chosen
             /\ F[n].index \in DOMAIN Pool[F[n].id].rules
             /\ F[n].match = p.assignments[F[n].id]
             /\ F[n].to = "egress" <=>
                  F[n].id \in open /\ Pool[F[n].id].rules[F[n].index] = "egress"
  <2>1. F[n] \in Range(F)
    BY DEF Range
  <2>2. PICK a \in Ids : F[n] \in Range(lists[a])
    BY <1>3, <2>1
  <2>3. a \in chosen
    BY <2>2 DEF Range
  <2>4. PICK i \in DOMAIN Pool[a].rules : F[n] = RulesOf(p, a, a \in open)[i]
    BY <1>4, <2>2, <2>3
  <2> QED BY <2>3, <2>4, RulesOfType
<1>6. ASSUME NEW a \in chosen, NEW i \in DOMAIN Pool[a].rules
      PROVE  \E n \in DOMAIN F : F[n].id = a /\ F[n].index = i
  <2> DEFINE r == RulesOf(p, a, a \in open)[i]
  <2>1. r.id = a /\ r.index = i
    BY RulesOfType
  <2>2. r \in Range(F)
    BY <1>3, <1>4
  <2> HIDE DEF r
  <2>3. PICK n \in DOMAIN F : F[n] = r
    BY <2>2 DEF Range
  <2> QED BY <2>1, <2>3
<1> QED
  BY <1>3, <1>5, <1>6 DEF IsList, F

\* The assignments whose rules the agent places, and the ones through their egress.
Placed == {a \in Ids : StateOf(payload, a) \in {"active", "blocked"}}
Open == {a \in Ids : StateOf(payload, a) = "active"}
Guards == {a \in Ids : payload.assignments[a] # None /\ Pool[a].on_failure = "block"}

LEMMA DesiredList ==
  ASSUME payload \in Payload PROVE IsList(Desired, payload, Placed, Open)
<1> DEFINE lists == [a \in Ids |->
              IF StateOf(payload, a) \in {"active", "blocked"}
                THEN RulesOf(payload, a, StateOf(payload, a) = "active") ELSE <<>>]
<1>1. Placed \in SUBSET {a \in Ids : payload.assignments[a] # None}
  BY DEF Placed, StateOf
<1>2. \A a \in Ids : lists[a] = IF a \in Placed THEN RulesOf(payload, a, a \in Open) ELSE <<>>
  BY DEF Placed, Open, RulesOf
<1>3. lists = [a \in Ids |-> lists[a]] /\ Desired = FlattenSeq(lists)
  BY DEF Desired
<1> HIDE DEF lists
<1> QED
  BY <1>1, <1>2, <1>3, Joined

LEMMA FallbackList ==
  ASSUME payload \in Payload PROVE IsList(Fallback, payload, Guards, {})
<1> DEFINE lists == [a \in Ids |->
              IF payload.assignments[a] # None /\ Pool[a].on_failure = "block"
                THEN RulesOf(payload, a, FALSE) ELSE <<>>]
<1>1. Guards \in SUBSET {a \in Ids : payload.assignments[a] # None}
  BY DEF Guards
<1>2. \A a \in Ids : lists[a] = IF a \in Guards THEN RulesOf(payload, a, a \in {}) ELSE <<>>
  BY DEF Guards, RulesOf
<1>3. lists = [a \in Ids |-> lists[a]] /\ Fallback = FlattenSeq(lists)
  BY DEF Fallback
<1> HIDE DEF lists
<1> QED
  BY <1>1, <1>2, <1>3, Joined

LEMMA DeployList ==
  ASSUME NEW p \in Payload PROVE deploy_rules(p) \in Seq(Rule)
<1> DEFINE chosen == {a \in Ids : p.assignments[a] # None}
           open == {a \in Ids : ~EgressOff(p, a)}
           lists == [a \in Ids |->
              IF p.assignments[a] # None THEN RulesOf(p, a, ~EgressOff(p, a)) ELSE <<>>]
<1>1. \A a \in Ids : lists[a] = IF a \in chosen THEN RulesOf(p, a, a \in open) ELSE <<>>
  BY DEF RulesOf
<1>2. lists = [a \in Ids |-> lists[a]] /\ deploy_rules(p) = FlattenSeq(lists)
  BY DEF deploy_rules
<1> HIDE DEF lists
<1>3. IsList(deploy_rules(p), p, chosen, open)
  BY <1>1, <1>2, Joined
<1> QED
  BY <1>3 DEF IsList

-----------------------------------------------------------------------------
(***************************************************************************)
(* Types.                                                                  *)
(***************************************************************************)
Listed == Rule \cup {DefaultRule}

LEMMA ListedRules ==
  /\ <<>> \in Seq(Listed) /\ <<DefaultRule>> \in Seq(Listed)
  /\ \A list \in Seq(Rule) : list \in Seq(Listed)
<1>1. \A list \in Seq(Rule) : list \in Seq(Listed)
  <2> SUFFICES ASSUME NEW list \in Seq(Rule) PROVE list \in Seq(Listed)
    OBVIOUS
  <2>1. Len(list) \in Nat /\ list = [i \in 1 .. Len(list) |-> list[i]]
    OBVIOUS
  <2>2. \A i \in 1 .. Len(list) : list[i] \in Listed
    BY DEF Listed
  <2> QED BY <2>1, <2>2, IsSeq
<1>2. <<>> \in Seq(Listed) /\ <<DefaultRule>> \in Seq(Listed)
  BY DEF Listed
<1> QED
  BY <1>1, <1>2

LEMMA ListsType ==
  /\ payload \in Payload => Desired \in Seq(Rule) /\ Fallback \in Seq(Rule)
  /\ \A p \in Payload : deploy_rules(p) \o <<DefaultRule>> \in Seq(Listed)
<1>1. payload \in Payload => Desired \in Seq(Rule) /\ Fallback \in Seq(Rule)
  BY DesiredList, FallbackList DEF IsList
<1>2. ASSUME NEW p \in Payload PROVE deploy_rules(p) \o <<DefaultRule>> \in Seq(Listed)
  <2>1. deploy_rules(p) \in Seq(Listed) /\ <<DefaultRule>> \in Seq(Listed)
    BY DeployList, ListedRules
  <2> HIDE DEF Listed
  <2> QED BY <2>1
<1> QED
  BY <1>1, <1>2

LEMMA CountedType ==
  ASSUME NEW k \in Kind, NEW good \in BOOLEAN
  PROVE  Counted(k, good) \in Kind
BY EgressAssumption DEF Counted, Kind

LEMMA NotedType ==
  ASSUME NEW list \in Seq({"ok", "fail"}), NEW good \in BOOLEAN
  PROVE  Noted(list, good) \in Seq({"ok", "fail"})
<1> DEFINE longer == Append(list, IF good THEN "ok" ELSE "fail")
<1>1. longer \in Seq({"ok", "fail"}) /\ longer # <<>>
  OBVIOUS
<1> HIDE DEF longer
<1>2. Tail(longer) \in Seq({"ok", "fail"})
  BY <1>1
<1> QED
  BY <1>1, <1>2 DEF Noted, longer

\* What the agent knows when it starts.
NoChecks == [e \in Egresses |-> [tcp |-> <<>>, udp |-> <<>>]]

LEMMA NothingType ==
  /\ NoChecks \in [Egresses -> [tcp : Seq({"ok", "fail"}), udp : Seq({"ok", "fail"})]]
  /\ Pending \in States
  /\ NoOutbounds \in [Egresses -> Settings \cup {None}]
  /\ [e \in Egresses |-> None] \in [Egresses -> Health \cup {None}]
<1>1. <<>> \in Seq({"ok", "fail"})
  OBVIOUS
<1>2. \A e \in Egresses : NoChecks[e] \in [tcp : Seq({"ok", "fail"}), udp : Seq({"ok", "fail"})]
  BY <1>1 DEF NoChecks
<1> QED
  BY <1>2 DEF NoChecks, Pending, States, NoOutbounds

LEMMA TypeInit == Init => TypeOK
<1> SUFFICES ASSUME Init PROVE TypeOK
  OBVIOUS
<1>1. settings \in [Egresses -> Settings] /\ match \in [Ids -> Matches]
  BY EgressAssumption DEF Init
<1>2. plan \in Payload
  <2>1. \A e \in Egresses : settings[e] \in Settings
    BY <1>1
  <2>2. \A a \in Ids : match[a] \in Matches
    BY <1>1
  <2> QED BY <2>1, <2>2 DEF plan, Payload
<1>3. /\ deployed \in Payload /\ deployed.outbounds \in [Egresses -> Settings \cup {None}]
      /\ deploy_rules(deployed) \o <<DefaultRule>> \in Seq(Listed)
  <2>1. deployed \in Payload
    BY <1>2 DEF Init
  <2> QED BY <2>1, ListsType DEF Payload
<1>4. row \in Report /\ late \in Report \cup {None}
  BY NothingType DEF Init, Report
<1>5. enabled \in SUBSET Egresses /\ assigned \in SUBSET Ids
  BY DEF Init
<1>6. rules \in Seq(Listed) /\ outbounds \in [Egresses -> Settings \cup {None}]
  BY <1>3 DEF Init
<1>7. /\ reach \in {"yes", "no"} /\ works \in [Egresses -> {"none", "tcp", "both"}]
      /\ pc \in Steps /\ payload \in Payload \cup {None}
  BY DEF Init, Steps
<1>8. /\ health \in [Egresses -> Health \cup {None}] /\ states \in States
      /\ applied \in Signature \cup {None}
      /\ added \in [Egresses -> Settings \cup {None}]
      /\ error \in {"yes", "no"}
  BY NothingType DEF Init
<1>9. /\ failed \in SUBSET Calls /\ astray \in {"yes", "no"} /\ upsets \in Nat
      /\ seen \in [Egresses -> [tcp : Seq({"ok", "fail"}), udp : Seq({"ok", "fail"})]]
  BY NothingType DEF Init, NoChecks
<1> QED
  BY <1>1, <1>3, <1>4, <1>5, <1>6, <1>7, <1>8, <1>9 DEF TypeOK, Listed

LEMMA UpsetType ==
  ASSUME upsets \in Nat, Upset \/ UNCHANGED upsets
  PROVE  upsets' \in Nat
BY DEF Upset

LEMMA WorldType ==
  ASSUME TypeOK, World
  PROVE  TypeOK'
<1>1. upsets' \in Nat
  BY UpsetType DEF TypeOK, World, set_enabled, save, Reassign, Rematch, ConsoleChanges,
    Deploy, XrayRestarts, AgentRestarts, EgressChanges, HandleLate
<1>2. ASSUME NEW e \in Egresses, set_enabled(e) PROVE TypeOK'
  <2>1. enabled' \in SUBSET Egresses
    BY <1>2 DEF TypeOK, set_enabled
  <2> QED
    BY <1>1, <1>2, <2>1 DEF TypeOK, set_enabled, ConsoleChanges, xrayVars, heard, memory, ghosts
<1>3. ASSUME NEW e \in Egresses, save(e) PROVE TypeOK'
  <2>1. settings' \in [Egresses -> Settings]
    BY <1>3 DEF TypeOK, save
  <2> QED
    BY <1>1, <1>3, <2>1 DEF TypeOK, save, ConsoleChanges, xrayVars, heard, memory, ghosts
<1>4. ASSUME NEW a \in Ids, Reassign(a) PROVE TypeOK'
  <2>1. assigned' \in SUBSET Ids
    BY <1>4 DEF TypeOK, Reassign
  <2> QED
    BY <1>1, <1>4, <2>1 DEF TypeOK, Reassign, ConsoleChanges, xrayVars, heard, memory, ghosts
<1>5. ASSUME NEW a \in Ids, Rematch(a) PROVE TypeOK'
  <2>1. match' \in [Ids -> Matches]
    BY <1>5 DEF TypeOK, Rematch
  <2> QED
    BY <1>1, <1>5, <2>1 DEF TypeOK, Rematch, ConsoleChanges, xrayVars, heard, memory, ghosts
<1>6. ASSUME Deploy PROVE TypeOK'
  <2>1. deployed' \in Payload
    BY <1>6, PlanType DEF Deploy
  <2> QED
    BY <1>1, <1>6, <2>1 DEF TypeOK, Deploy, consoleVars, xrayVars, heard, memory, ghosts
<1>7. ASSUME XrayRestarts PROVE TypeOK'
  <2>1. deployed \in Payload
    BY DEF TypeOK
  <2>2. rules' \in Seq(Rule \cup {DefaultRule})
    BY <1>7, <2>1, ListsType DEF XrayRestarts, Listed
  <2>3. outbounds' \in [Egresses -> Settings \cup {None}] /\ reach' \in {"yes", "no"}
    BY <1>7, <2>1 DEF XrayRestarts, Payload
  <2> QED
    BY <1>1, <1>7, <2>2, <2>3 DEF TypeOK, XrayRestarts, consoleVars, heard, memory, ghosts
<1>8. ASSUME AgentRestarts PROVE TypeOK'
  <2>1. /\ pc' \in Steps /\ payload' \in Payload \cup {None}
        /\ health' \in [Egresses -> Health \cup {None}] /\ states' \in States
        /\ applied' \in Signature \cup {None}
        /\ added' \in [Egresses -> Settings \cup {None}]
        /\ error' \in {"yes", "no"}
    BY <1>8, NothingType DEF AgentRestarts, NothingKnown, Steps
  <2>2. /\ failed' \in SUBSET Calls /\ astray' \in {"yes", "no"} /\ reach' \in {"yes", "no"}
        /\ seen' \in [Egresses -> [tcp : Seq({"ok", "fail"}), udp : Seq({"ok", "fail"})]]
    BY <1>8, NothingType DEF AgentRestarts, NothingKnown, NoChecks
  <2> QED
    BY <1>1, <1>8, <2>1, <2>2 DEF TypeOK, AgentRestarts, heard, consoleVars, xrayVars
<1>9. ASSUME NEW e \in Egresses, EgressChanges(e) PROVE TypeOK'
  <2>1. works' \in [Egresses -> {"none", "tcp", "both"}]
    BY <1>9 DEF TypeOK, EgressChanges
  <2> QED
    BY <1>1, <1>9, <2>1 DEF TypeOK, EgressChanges, consoleVars, xrayVars, heard, memory, ghosts
<1>10. ASSUME HandleLate PROVE TypeOK'
  <2>1. row' \in Report /\ late' \in Report \cup {None}
    BY <1>10 DEF TypeOK, HandleLate
  <2> QED
    BY <1>1, <1>10, <2>1 DEF TypeOK, HandleLate, consoleVars, xrayVars, memory, ghosts
<1> QED
  BY <1>2, <1>3, <1>4, <1>5, <1>6, <1>7, <1>8, <1>9, <1>10 DEF World

LEMMA ExchangeType ==
  ASSUME TypeOK, Read \/ CutOff \/ Exchange \/ ExchangeFails \/ CheckFails
  PROVE  TypeOK'
<1>1. NewReport \in Report
  BY DEF TypeOK, NewReport, Report
<1>2. /\ row' \in Report /\ late' \in Report \cup {None}
      /\ payload' \in Payload \cup {None} /\ pc' \in Steps
      /\ failed' \in SUBSET Calls /\ upsets' \in Nat
  <2>1. CASE Exchange
    BY <1>1, <2>1, PlanType DEF TypeOK, Exchange, Quiet, ghosts, Steps
  <2>2. CASE Read
    BY <2>2 DEF TypeOK, Read, Quiet, heard, ghosts, Steps
  <2>3. CASE ExchangeFails
    BY <1>1, <2>3, UpsetType DEF TypeOK, ExchangeFails, Quiet, ghosts, Steps
  <2>4. CASE CheckFails
    BY <2>4, UpsetType DEF TypeOK, CheckFails, heard, memory, Steps, Calls
  <2>5. CASE CutOff
    BY <2>5, UpsetType DEF TypeOK, CutOff, Quiet, heard, ghosts, Steps
  <2> QED BY <2>1, <2>2, <2>3, <2>4, <2>5
<1>3. UNCHANGED <<consoleVars, deployed, xrayVars, reach, works, health, states, applied,
                  added, error, seen, astray>>
  BY DEF Read, CutOff, Exchange, ExchangeFails, CheckFails, Quiet, memory, ghosts
<1> QED
  BY <1>2, <1>3 DEF TypeOK, consoleVars, xrayVars

LEMMA CheckedType ==
  ASSUME TypeOK, NEW e \in Egresses PROVE Checked(health[e], e) \in Health
<1> DEFINE old == IF health[e] = None THEN [tcp |-> Fresh, udp |-> Fresh] ELSE health[e]
<1>1. old \in Health
  BY EgressAssumption DEF TypeOK, Health, Fresh, Kind
<1>2. old.tcp \in Kind /\ old.udp \in Kind
  BY <1>1 DEF Health
<1> HIDE DEF old
<1>3. Counted(old.tcp, Found(e) # "none") \in Kind /\ Counted(old.udp, Found(e) = "both") \in Kind
  BY <1>2, EgressAssumption DEF Counted, Kind
<1>4. Checked(health[e], e) =
        [tcp |-> Counted(old.tcp, Found(e) # "none"),
         udp |-> IF Found(e) = "none" THEN old.udp ELSE Counted(old.udp, Found(e) = "both")]
  BY DEF Checked, old
<1> QED
  BY <1>2, <1>3, <1>4 DEF Health

LEMMA CheckType ==
  ASSUME TypeOK, check
  PROVE  TypeOK'
<1>2. health' \in [Egresses -> Health \cup {None}]
  BY CheckedType DEF TypeOK, check
<1>3. ASSUME NEW e \in Egresses
      PROVE  /\ Noted(seen[e].tcp, Found(e) # "none") \in Seq({"ok", "fail"})
             /\ Noted(seen[e].udp, Found(e) = "both") \in Seq({"ok", "fail"})
             /\ seen[e].tcp \in Seq({"ok", "fail"}) /\ seen[e].udp \in Seq({"ok", "fail"})
  <2>1. seen[e].tcp \in Seq({"ok", "fail"}) /\ seen[e].udp \in Seq({"ok", "fail"})
    BY DEF TypeOK
  <2>2. \A list \in Seq({"ok", "fail"}) :
          /\ Noted(list, Found(e) # "none") \in Seq({"ok", "fail"})
          /\ Noted(list, Found(e) = "both") \in Seq({"ok", "fail"})
    BY NotedType
  <2> QED BY <2>1, <2>2
<1>4. seen' \in [Egresses -> [tcp : Seq({"ok", "fail"}), udp : Seq({"ok", "fail"})]]
  BY <1>3 DEF TypeOK, check
<1>5. pc' \in Steps
  BY DEF check, Steps
<1> QED
  BY <1>2, <1>4, <1>5 DEF TypeOK, check, heard, consoleVars, xrayVars

LEMMA ApplyingType ==
  ASSUME TypeOK, PlanKnown, apply \/ CallFails
  PROVE  TypeOK'
<1>1. Keep
  BY DEF apply, CallFails, Nothing, Look, RemoveRules, RemoveOutbounds, AddOutbounds, AddRules,
    AddFallback, AddDefault, Verify, LookFails, RemoveRulesFails, RemoveOutboundsFails,
    AddOutboundsFails, AddRulesFails, AddFallbackFails, AddDefaultFails, VerifyFails, At
<1>2. pc' \in Steps /\ error' \in {"yes", "no"} /\ upsets' \in Nat
  BY UpsetType DEF TypeOK, apply, CallFails, Nothing, Look, RemoveRules, RemoveOutbounds,
    AddOutbounds, AddRules, AddFallback, AddDefault, Verify, LookFails, RemoveRulesFails,
    RemoveOutboundsFails, AddOutboundsFails, AddRulesFails, AddFallbackFails, AddDefaultFails,
    VerifyFails, Steps, Forget, Believe, Works, Fails
<1>3. failed' \in SUBSET Calls /\ astray' \in {"yes", "no"}
  BY DEF TypeOK, apply, CallFails, Nothing, Look, RemoveRules, RemoveOutbounds,
    AddOutbounds, AddRules, AddFallback, AddDefault, Verify, LookFails, RemoveRulesFails,
    RemoveOutboundsFails, AddOutboundsFails, AddRulesFails, AddFallbackFails, AddDefaultFails,
    VerifyFails, Calls, Fails
<1>4. payload # None => payload \in Payload
  BY DEF TypeOK
<1>5. states' \in States
  <2>1. NowStates \in States
    BY DEF NowStates, States, StateOf
  <2> QED
    BY <2>1 DEF TypeOK, apply, CallFails, Nothing, Look, RemoveRules, RemoveOutbounds,
      AddOutbounds, AddRules, AddFallback, AddDefault, Verify, LookFails, RemoveRulesFails,
      RemoveOutboundsFails, AddOutboundsFails, AddRulesFails, AddFallbackFails,
      AddDefaultFails, VerifyFails, Forget, Believe
<1>6. applied' \in Signature \cup {None}
  <2>1. ASSUME payload \in Payload
        PROVE  [outbounds |-> Wanted, rules |-> Desired] \in Signature
    BY <2>1, ListsType DEF Signature, Wanted, Payload
  <2>2. Verify => payload \in Payload
    BY <1>4 DEF Verify, At, PlanKnown, Applying
  <2> QED
    BY <2>1, <2>2 DEF TypeOK, apply, CallFails, Nothing, Look, RemoveRules, RemoveOutbounds,
      AddOutbounds, AddRules, AddFallback, AddDefault, Verify, LookFails, RemoveRulesFails,
      RemoveOutboundsFails, AddOutboundsFails, AddRulesFails, AddFallbackFails,
      AddDefaultFails, VerifyFails, Forget, Believe
<1>7. /\ outbounds' \in [Egresses -> Settings \cup {None}]
      /\ added' \in [Egresses -> Settings \cup {None}]
  <2>1. pc \in Applying => \A e \in Egresses : Wanted[e] \in Settings \cup {None}
    BY <1>4 DEF PlanKnown, Wanted, Payload
  <2>2. CASE RemoveOutbounds
    BY <2>2 DEF TypeOK, RemoveOutbounds
  <2>3. CASE RemoveOutboundsFails
    BY <2>3 DEF TypeOK, RemoveOutboundsFails
  <2>4. CASE AddOutbounds
    BY <2>1, <2>4 DEF TypeOK, AddOutbounds, At, Applying
  <2>5. CASE AddOutboundsFails
    BY <2>1, <2>5 DEF TypeOK, AddOutboundsFails, At, Applying
  <2>6. CASE ~(RemoveOutbounds \/ RemoveOutboundsFails \/ AddOutbounds \/ AddOutboundsFails)
    BY <2>6 DEF TypeOK, apply, CallFails, Nothing, Look, RemoveRules, AddRules, AddFallback,
      AddDefault, Verify, LookFails, RemoveRulesFails, AddRulesFails, AddFallbackFails,
      AddDefaultFails, VerifyFails, xrayVars
  <2> QED BY <2>2, <2>3, <2>4, <2>5, <2>6
<1>8. rules' \in Seq(Listed)
  <2> HIDE DEF Listed
  <2>1. rules \in Seq(Listed) /\ <<DefaultRule>> \in Seq(Listed) /\ <<>> \in Seq(Listed)
    BY ListedRules DEF TypeOK, Listed
  <2>2. pc \in Applying => Desired \in Seq(Listed) /\ Fallback \in Seq(Listed)
    BY <1>4, ListsType, ListedRules DEF PlanKnown
  <2>3. CASE RemoveRules
    BY <2>1, <2>3 DEF RemoveRules
  <2>4. CASE RemoveRulesFails
    BY <2>1, <2>4 DEF RemoveRulesFails
  <2>5. CASE AddRules \/ AddRulesFails
    <3>1. Desired \in Seq(Listed)
      BY <2>2, <2>5 DEF AddRules, AddRulesFails, At, Applying
    <3>2. rules \o Desired \in Seq(Listed)
      BY <2>1, <3>1
    <3> QED BY <2>1, <2>5, <3>2 DEF AddRules, AddRulesFails
  <2>6. CASE AddFallback \/ AddFallbackFails
    BY <2>1, <2>2, <2>6 DEF AddFallback, AddFallbackFails, At, Applying
  <2>7. CASE AddDefault \/ AddDefaultFails
    <3>1. DefaultRule \in Listed
      BY DEF Listed
    <3>2. Append(rules, DefaultRule) \in Seq(Listed)
      BY <2>1, <3>1
    <3> QED BY <2>1, <2>7, <3>2 DEF AddDefault, AddDefaultFails
  <2>8. CASE ~(RemoveRules \/ RemoveRulesFails \/ AddRules \/ AddRulesFails \/ AddFallback
               \/ AddFallbackFails \/ AddDefault \/ AddDefaultFails)
    BY <2>1, <2>8 DEF apply, CallFails, Nothing, Look, RemoveOutbounds, AddOutbounds, Verify,
      LookFails, RemoveOutboundsFails, AddOutboundsFails, VerifyFails, xrayVars
  <2> QED BY <2>3, <2>4, <2>5, <2>6, <2>7, <2>8
<1> QED
  BY <1>1, <1>2, <1>3, <1>5, <1>6, <1>7, <1>8 DEF TypeOK, Keep, heard, consoleVars, Listed

LEMMA TypeStep ==
  ASSUME TypeOK, PlanKnown, [Next]_vars
  PROVE  TypeOK'
<1>1. CASE UNCHANGED vars
  BY <1>1 DEF TypeOK, vars, heard, consoleVars, xrayVars, memory, ghosts
<1> QED
  BY <1>1, WorldType, ExchangeType, CheckType, ApplyingType DEF Next, Agent

-----------------------------------------------------------------------------
(***************************************************************************)
(* The streak of good checks (Egress.check).                               *)
(***************************************************************************)
LEMMA FitsStep ==
  ASSUME NEW k \in Kind, NEW list \in Seq({"ok", "fail"}), NEW good \in BOOLEAN, Fits(k, list)
  PROVE  Fits(Counted(k, good), Noted(list, good))
<1> DEFINE longer == Append(list, IF good THEN "ok" ELSE "fail")
           n == Len(list)
           new == Noted(list, good)
<1>1. RECOVER \in Nat \ {0} /\ n \in Nat /\ n <= RECOVER
  BY EgressAssumption DEF Fits
<1>2. /\ Len(longer) = n + 1 /\ longer[n + 1] = IF good THEN "ok" ELSE "fail"
      /\ \A i \in 1 .. n : longer[i] = list[i]
  OBVIOUS
<1>3. CASE n < RECOVER
  <2>1. new = longer
    BY <1>1, <1>2, <1>3 DEF Noted
  <2>2. /\ Len(new) = n + 1 /\ DOMAIN new = 1 .. n + 1
        /\ new[n + 1] = IF good THEN "ok" ELSE "fail"
        /\ \A i \in 1 .. n : new[i] = list[i]
    BY <1>2, <2>1
  <2> HIDE DEF new, longer, n
  <2>3. CASE ~good
    BY <1>1, <1>3, <2>2, <2>3 DEF Fits, Counted, new
  <2>4. CASE good /\ k.ok = "yes"
    <3>1. Counted(k, good).ok = "yes"
      BY <2>4 DEF Counted
    <3>2. NoFailure(new)
      <4>1. \A i \in 1 .. n : list[i] = "ok"
        BY <2>4 DEF Fits, NoFailure, n
      <4> QED BY <1>1, <2>2, <2>4, <4>1 DEF NoFailure
    <3> QED BY <1>1, <1>3, <2>2, <3>1, <3>2 DEF Fits, new
  <2>5. CASE good /\ k.ok = "no"
    <3>1. /\ k.streak \in Nat /\ k.streak < n /\ list[n - k.streak] = "fail"
          /\ \A i \in n - k.streak + 1 .. n : list[i] = "ok"
      BY <2>5 DEF Fits, n, Kind
    <3>2. Counted(k, good) = [ok |-> "no", streak |-> k.streak + 1]
      BY <1>1, <1>3, <2>5, <3>1 DEF Counted
    <3>3. n + 1 - (k.streak + 1) = n - k.streak /\ n - k.streak \in 1 .. n
      BY <1>1, <3>1
    <3>4. \A i \in n - k.streak + 1 .. n + 1 : new[i] = "ok"
      BY <1>1, <2>2, <2>5, <3>1
    <3>5. new[n + 1 - (k.streak + 1)] = "fail"
      BY <2>2, <3>1, <3>3
    <3>6. \A i \in n + 1 - (k.streak + 1) + 1 .. n + 1 : new[i] = "ok"
      BY <3>3, <3>4
    <3>7. n + 1 <= RECOVER /\ k.streak + 1 < RECOVER /\ k.streak + 1 < n + 1
      BY <1>1, <1>3, <3>1
    <3> DEFINE c == [ok |-> "no", streak |-> k.streak + 1]
    <3>8. c.ok = "no" /\ c.ok # "yes" /\ c.streak = k.streak + 1 /\ Len(new) = n + 1
      BY <2>2
    <3> HIDE DEF c
    <3>9. Fits(c, new)
      <4>1. /\ Len(new) <= RECOVER /\ c.streak < RECOVER /\ c.streak < Len(new)
            /\ new[Len(new) - c.streak] = "fail"
            /\ \A i \in Len(new) - c.streak + 1 .. Len(new) : new[i] = "ok"
        <5>1. Len(new) <= RECOVER /\ c.streak < RECOVER /\ c.streak < Len(new)
          BY <3>7, <3>8
        <5>2. Len(new) - c.streak = n + 1 - (k.streak + 1)
          BY <1>1, <3>1, <3>8
        <5> QED BY <3>5, <3>6, <3>8, <5>1, <5>2
      <4> QED BY <3>8, <4>1 DEF Fits
    <3> QED BY <3>2, <3>9 DEF new, c
  <2> QED BY <2>3, <2>4, <2>5 DEF Kind
<1>4. CASE n = RECOVER
  <2>1. new = Tail(longer)
    BY <1>1, <1>2, <1>4 DEF Noted
  <2>2. /\ Len(new) = n /\ DOMAIN new = 1 .. n
        /\ new[n] = IF good THEN "ok" ELSE "fail"
        /\ \A i \in 1 .. n - 1 : new[i] = list[i + 1]
    BY <1>1, <1>2, <1>4, <2>1
  <2> HIDE DEF new, longer, n
  <2>3. CASE ~good
    BY <1>1, <1>4, <2>2, <2>3 DEF Fits, Counted, new
  <2>4. CASE good /\ k.ok = "yes"
    <3>1. Counted(k, good).ok = "yes"
      BY <2>4 DEF Counted
    <3>2. NoFailure(new)
      <4>1. \A i \in 1 .. n : list[i] = "ok"
        BY <2>4 DEF Fits, NoFailure, n
      <4> QED BY <1>1, <2>2, <2>4, <4>1 DEF NoFailure
    <3> QED BY <1>1, <1>4, <2>2, <3>1, <3>2 DEF Fits, new
  <2>5. CASE good /\ k.ok = "no"
    <3>1. /\ k.streak \in Nat /\ k.streak < n /\ list[n - k.streak] = "fail"
          /\ \A i \in n - k.streak + 1 .. n : list[i] = "ok"
      BY <2>5 DEF Fits, n, Kind
    <3>2. \A i \in n - k.streak .. n : new[i] = "ok"
      BY <1>1, <2>2, <2>5, <3>1
    <3>3. CASE k.streak + 1 < RECOVER
      <4>1. Counted(k, good) = [ok |-> "no", streak |-> k.streak + 1]
        BY <1>1, <2>5, <3>1, <3>3 DEF Counted
      <4>2. new[n - (k.streak + 1)] = "fail"
        <5>1. n - (k.streak + 1) \in 1 .. n - 1 /\ n - (k.streak + 1) + 1 = n - k.streak
          BY <1>1, <1>4, <3>1, <3>3
        <5> QED BY <2>2, <3>1, <5>1
      <4>3. n - (k.streak + 1) + 1 = n - k.streak
        BY <1>1, <3>1
      <4> QED BY <1>1, <1>4, <2>2, <3>1, <3>2, <3>3, <4>1, <4>2, <4>3 DEF Fits, new
    <3>4. CASE k.streak + 1 >= RECOVER
      <4>1. Counted(k, good).ok = "yes"
        BY <1>1, <1>4, <2>5, <3>1, <3>4 DEF Counted
      <4>2. n - k.streak = 1
        BY <1>1, <1>4, <3>1, <3>4
      <4>3. NoFailure(new)
        BY <2>2, <3>2, <4>2 DEF NoFailure
      <4> QED BY <1>1, <1>4, <2>2, <4>1, <4>3 DEF Fits, new
    <3> QED BY <1>1, <3>1, <3>3, <3>4
  <2> QED BY <2>3, <2>4, <2>5 DEF Kind
<1> QED
  BY <1>1, <1>3, <1>4

LEMMA FreshFits == Fits(Fresh, <<>>)
BY EgressAssumption DEF Fits, Fresh, NoFailure

LEMMA StreaksStep ==
  ASSUME TypeOK, Streaks, check
  PROVE  Streaks'
<1> SUFFICES ASSUME NEW e \in Egresses
             PROVE  IF health'[e] = None THEN seen'[e] = [tcp |-> <<>>, udp |-> <<>>]
                    ELSE Fits(health'[e].tcp, seen'[e].tcp) /\ Fits(health'[e].udp, seen'[e].udp)
  BY Zenon DEF Streaks
<1>1. CASE e \notin ToCheck
  BY <1>1 DEF Streaks, check
<1>2. CASE e \in ToCheck
  <2> DEFINE old == IF health[e] = None THEN [tcp |-> Fresh, udp |-> Fresh] ELSE health[e]
             found == Found(e) # "none"
             both == Found(e) = "both"
  <2>1. /\ old.tcp \in Kind /\ old.udp \in Kind
        /\ seen[e].tcp \in Seq({"ok", "fail"}) /\ seen[e].udp \in Seq({"ok", "fail"})
    BY EgressAssumption DEF TypeOK, Health, Fresh, Kind
  <2>2. Fits(old.tcp, seen[e].tcp) /\ Fits(old.udp, seen[e].udp)
    BY FreshFits DEF Streaks
  <2>3. /\ health'[e] = [tcp |-> Counted(old.tcp, found),
                         udp |-> IF ~found THEN old.udp ELSE Counted(old.udp, both)]
        /\ seen'[e] = [tcp |-> Noted(seen[e].tcp, found),
                       udp |-> IF ~found THEN seen[e].udp ELSE Noted(seen[e].udp, both)]
    BY <1>2 DEF check, Checked
  <2> HIDE DEF old
  <2>4. /\ Fits(Counted(old.tcp, found), Noted(seen[e].tcp, found))
        /\ Fits(Counted(old.udp, both), Noted(seen[e].udp, both))
    <3> HIDE DEF found, both
    <3>1. found \in BOOLEAN /\ both \in BOOLEAN
      BY DEF found, both
    <3> QED BY <2>1, <2>2, <3>1, FitsStep
  <2>5. health'[e] # None
    BY <1>2, CheckedType, NoneIsNothing DEF check
  <2> QED
    BY <2>2, <2>3, <2>4, <2>5
<1> QED
  BY <1>1, <1>2

-----------------------------------------------------------------------------
(***************************************************************************)
(* What the agent remembers, and how far an apply is.                      *)
(***************************************************************************)
Progress == PlanKnown /\ Remembers /\ AsFarAs /\ Guarded /\ Decided

\* The plan and the checks decide what is to run.
LEMMA SameDecision ==
  ASSUME payload' = payload, health' = health
  PROVE  Desired' = Desired /\ Fallback' = Fallback /\ Wanted' = Wanted /\ NowStates' = NowStates
BY DEF Desired, Fallback, Wanted, NowStates, StateOf, RulesOf, usable, EgressOff

LEMMA ProgressInit == Init => Progress
BY DEF Init, Progress, PlanKnown, Remembers, AsFarAs, Guarded, Decided, Applying, NoOutbounds

\* Most that happens around the agent changes nothing it is about.
LEMMA Unmoved ==
  ASSUME Progress, Streaks,
         UNCHANGED <<rules, outbounds, reach, pc, payload, health, states, applied, added,
                     failed, seen, astray>>
  PROVE  Progress' /\ Streaks'
<1>1. Desired' = Desired /\ Wanted' = Wanted /\ NowStates' = NowStates
  BY SameDecision
<1>2. \A a \in Ids : Covered(a)' = Covered(a)
  BY <1>1 DEF Covered, RulesFor
<1>3. PlanKnown' /\ Remembers' /\ Decided'
  BY <1>1 DEF Progress, PlanKnown, Remembers, Decided
<1>4. AsFarAs'
  BY <1>1 DEF Progress, AsFarAs, Runs
<1>5. Guarded'
  BY <1>2 DEF Progress, Guarded
<1>6. Streaks'
  BY DEF Streaks
<1> QED
  BY <1>3, <1>4, <1>5, <1>6 DEF Progress

LEMMA WorldProgress ==
  ASSUME Progress, Streaks, World
  PROVE  Progress' /\ Streaks'
<1>1. CASE XrayRestarts
  <2>1. /\ reach' = "no"
        /\ UNCHANGED <<pc, payload, health, states, applied, failed, seen>>
    BY <1>1 DEF XrayRestarts, memory, ghosts
  <2>2. Desired' = Desired /\ Wanted' = Wanted /\ NowStates' = NowStates
    BY <2>1, SameDecision
  <2> QED
    BY <2>1, <2>2 DEF Progress, PlanKnown, Remembers, AsFarAs, Guarded, Decided, Streaks
<1>2. CASE AgentRestarts
  <2>1. /\ pc' = "idle" /\ applied' = None /\ added' = NoOutbounds /\ failed' = {}
        /\ \A e \in Egresses : health'[e] = None /\ seen'[e] = [tcp |-> <<>>, udp |-> <<>>]
    BY <1>2 DEF AgentRestarts, NothingKnown
  <2> QED
    BY <2>1 DEF Progress, PlanKnown, Remembers, AsFarAs, Guarded, Decided, Streaks, Applying,
      NoOutbounds
<1>3. CASE ~(XrayRestarts \/ AgentRestarts)
  <2>1. UNCHANGED <<rules, outbounds, reach, pc, payload, health, states, applied, added,
                    failed, seen, astray>>
    BY <1>3 DEF World, set_enabled, save, Reassign, Rematch, ConsoleChanges, Deploy,
      EgressChanges, HandleLate, xrayVars, memory, ghosts
  <2> QED BY <2>1, Unmoved
<1> QED
  BY <1>1, <1>2, <1>3

LEMMA ExchangeProgress ==
  ASSUME TypeOK, Progress, Streaks, Read \/ CutOff \/ Exchange \/ ExchangeFails
  PROVE  Progress' /\ Streaks'
<1>1. /\ pc \in {"idle", "send", "again", "resend"}
      /\ pc' \in {"send", "again", "resend", "check"}
      /\ pc' = "send" => pc = "idle" /\ payload' = payload
      /\ UNCHANGED <<rules, outbounds, reach, health, states, applied, added, failed, seen,
                     astray>>
  BY DEF Read, CutOff, Exchange, ExchangeFails, Quiet, xrayVars, memory, ghosts
<1>2. payload' = payload \/ payload' # None
  <2>1. plan # None
    BY PlanType, NoneIsNothing
  <2> QED
    BY <2>1 DEF Read, CutOff, Exchange, ExchangeFails
<1>3. PlanKnown'
  BY <1>1, <1>2 DEF Progress, PlanKnown, Applying
<1>4. Remembers'
  BY <1>1 DEF Progress, Remembers, Applying
<1>5. AsFarAs' /\ Guarded'
  BY <1>1 DEF AsFarAs, Guarded
<1>6. Decided'
  <2>1. CASE pc' = "send"
    BY <1>1, <2>1, SameDecision DEF Progress, Decided
  <2>2. CASE pc' # "send"
    BY <1>1, <2>2 DEF Decided
  <2> QED BY <2>1, <2>2
<1>7. Streaks'
  BY <1>1 DEF Streaks
<1> QED
  BY <1>3, <1>4, <1>5, <1>6, <1>7 DEF Progress

LEMMA CheckProgress ==
  ASSUME TypeOK, Progress, Streaks, check \/ CheckFails
  PROVE  Progress' /\ Streaks'
<1>1. CASE check
  <2>1. /\ pc = "check" /\ pc' = "apply"
        /\ UNCHANGED <<rules, outbounds, reach, payload, applied, added, failed, astray>>
    BY <1>1 DEF check, xrayVars
  <2>2. PlanKnown' /\ Remembers' /\ AsFarAs' /\ Guarded' /\ Decided'
    BY <2>1 DEF Progress, PlanKnown, Remembers, AsFarAs, Guarded, Decided, Applying
  <2> QED
    BY <1>1, <2>2, StreaksStep DEF Progress
<1>2. CASE CheckFails
  <2>1. /\ pc = "check" /\ pc' = "idle" /\ failed' = {"check"} /\ payload # None
        /\ UNCHANGED <<rules, outbounds, reach, payload, health, applied, added, seen, astray>>
    BY <1>2 DEF CheckFails, ToCheck, xrayVars, memory
  <2>2. PlanKnown' /\ Remembers' /\ AsFarAs' /\ Decided'
    BY <2>1 DEF Progress, PlanKnown, Remembers, AsFarAs, Decided, Applying
  <2>3. Guarded' /\ Streaks'
    BY <2>1 DEF Guarded, Streaks
  <2> QED
    BY <2>2, <2>3 DEF Progress
<1> QED
  BY <1>1, <1>2

-----------------------------------------------------------------------------
(***************************************************************************)
(* What blocks when something failed.                                      *)
(***************************************************************************)
IndexesOf(list, a) == {list[n].index : n \in {n \in DOMAIN list : list[n].id = a}}

LEMMA ListCovers ==
  ASSUME NEW list, NEW p, NEW chosen, NEW open, IsList(list, p, chosen, open), NEW a \in chosen
  PROVE  IndexesOf(list, a) = DOMAIN Pool[a].rules
<1>1. \A i \in DOMAIN Pool[a].rules : \E n \in DOMAIN list : list[n].id = a /\ list[n].index = i
  BY DEF IsList
<1>2. \A n \in DOMAIN list : list[n].id = a => list[n].index \in DOMAIN Pool[a].rules
  BY DEF IsList
<1> QED
  BY <1>1, <1>2 DEF IndexesOf

LEMMA CoveredByFallback ==
  ASSUME payload \in Payload, payload' = payload, rules' = Fallback, NEW a \in Guards
  PROVE  Covered(a)'
<1>1. IsList(Fallback, payload, Guards, {})
  BY FallbackList
<1>2. IndexesOf(rules', a) = DOMAIN Pool[a].rules
  BY <1>1, ListCovers
<1>3. \A n \in DOMAIN rules' : rules'[n].to # "egress"
  BY <1>1 DEF IsList
<1> QED
  BY <1>2, <1>3 DEF Covered, RulesFor, IndexesOf

LEMMA GuardsPlaced ==
  ASSUME payload \in Payload
  PROVE  Guards \subseteq Placed
BY DEF Guards, Placed, StateOf

LEMMA CoveredByDesired ==
  ASSUME payload \in Payload, payload' = payload, health' = health, Runs(Desired)',
         NEW a \in Guards, astray' \in {"yes", "no"}
  PROVE  Covered(a)'
<1>1. rules' = Desired /\ Wanted' = Wanted /\ (astray' = "no" => outbounds' = Wanted)
  BY SameDecision DEF Runs
<1>2. IsList(Desired, payload, Placed, Open) /\ a \in Placed
  BY DesiredList, GuardsPlaced
<1>3. IndexesOf(rules', a) = DOMAIN Pool[a].rules
  BY <1>1, <1>2, ListCovers
<1>4. astray' = "yes" \/ outbounds'[Pool[a].egress] = Wanted'[Pool[a].egress]
  BY <1>1
<1> QED
  BY <1>3, <1>4 DEF Covered, RulesFor, IndexesOf

\* The default rule is no assignment's.
LEMMA CoveredWithDefault ==
  ASSUME TypeOK, NEW a \in Ids, Covered(a), rules' = Append(rules, DefaultRule),
         UNCHANGED <<outbounds, payload, astray>>
  PROVE  Covered(a)'
<1>1. DefaultRule.id # a
  BY PoolType DEF DefaultRule
<1>2. /\ rules \in Seq(Listed) /\ DOMAIN rules' = DOMAIN rules \cup {Len(rules) + 1}
      /\ rules'[Len(rules) + 1] = DefaultRule
      /\ \A n \in DOMAIN rules : rules'[n] = rules[n]
  <2>1. rules \in Seq(Listed)
    BY DEF TypeOK, Listed
  <2> HIDE DEF Listed, DefaultRule
  <2> QED BY <2>1
<1>3. RulesFor(a)' = RulesFor(a) /\ \A n \in RulesFor(a) : rules'[n] = rules[n]
  BY <1>1, <1>2 DEF RulesFor
<1>4. {rules'[n].index : n \in RulesFor(a)'} = {rules[n].index : n \in RulesFor(a)}
  BY <1>3
<1> QED
  BY <1>3, <1>4 DEF Covered, Wanted

-----------------------------------------------------------------------------
(***************************************************************************)
(* An apply, step by step (Egress.apply).                                  *)
(***************************************************************************)
LEMMA Kept ==
  ASSUME Keep
  PROVE  /\ reach' = reach /\ payload' = payload /\ health' = health /\ seen' = seen
         /\ Desired' = Desired /\ Fallback' = Fallback /\ Wanted' = Wanted
         /\ NowStates' = NowStates
         /\ Streaks => Streaks'
BY SameDecision DEF Keep, Streaks

LEMMA LookProgress ==
  ASSUME TypeOK, Progress, Nothing \/ Look \/ LookFails
  PROVE  Progress'
<1>1. /\ pc = "apply" /\ Keep
      /\ UNCHANGED <<rules, outbounds, added, astray>>
  BY DEF Nothing, Look, LookFails, At, xrayVars
<1>2. CASE Nothing
  <2>1. /\ payload = None /\ pc' = "idle" /\ UNCHANGED <<applied, failed>>
    BY <1>2 DEF Nothing
  <2>2. applied = None /\ failed = {}
    BY <2>1 DEF Progress, PlanKnown
  <2> QED
    BY <1>1, <2>1, <2>2, Kept
    DEF Progress, PlanKnown, Remembers, AsFarAs, Guarded, Decided, Applying
<1>3. CASE Look /\ AsApplied
  <2>1. /\ applied = [outbounds |-> Wanted, rules |-> Desired] /\ payload # None
        /\ pc' = "idle" /\ failed' = {} /\ applied' = applied /\ states' = NowStates
    BY <1>3 DEF Look, AsApplied
  <2>2. PlanKnown' /\ Remembers' /\ AsFarAs' /\ Guarded'
    BY <1>1, <2>1, Kept DEF Progress, PlanKnown, Remembers, AsFarAs, Guarded, Applying
  <2>3. Decided'
    BY <1>1, <2>1, Kept DEF Decided
  <2> QED
    BY <2>2, <2>3 DEF Progress
<1>4. CASE Look /\ ~AsApplied
  <2>1. payload # None /\ pc' = "rmrules" /\ failed' = {} /\ applied' = applied
    BY <1>4 DEF Look, Believe
  <2> QED
    BY <1>1, <2>1, Kept
    DEF Progress, PlanKnown, Remembers, AsFarAs, Guarded, Decided, Applying
<1>5. CASE LookFails
  <2>1. payload # None /\ pc' = "idle" /\ failed' = {"read"} /\ applied' = None
    BY <1>5 DEF LookFails, Forget
  <2> QED
    BY <1>1, <2>1, Kept
    DEF Progress, PlanKnown, Remembers, AsFarAs, Guarded, Decided, Applying
<1> QED
  BY <1>2, <1>3, <1>4, <1>5

LEMMA RemoveRulesProgress ==
  ASSUME TypeOK, Progress, RemoveRules \/ RemoveRulesFails
  PROVE  Progress'
<1>1. /\ pc = "rmrules" /\ Keep
      /\ UNCHANGED <<outbounds, added, astray>>
  BY DEF RemoveRules, RemoveRulesFails, At
<1>2. CASE RemoveRules
  <2>1. rules' = <<>> /\ pc' = "rmo" /\ UNCHANGED <<applied, failed>>
    BY <1>2 DEF RemoveRules, Believe
  <2> QED
    BY <1>1, <2>1, Kept
    DEF Progress, PlanKnown, Remembers, AsFarAs, Guarded, Decided, Applying
<1>3. CASE RemoveRulesFails
  <2>1. pc' = "idle" /\ "rmrules" \in failed' /\ applied' = None
    BY <1>3 DEF RemoveRulesFails, Forget, Fails
  <2>2. PlanKnown' /\ Remembers' /\ AsFarAs' /\ Decided'
    BY <1>1, <2>1, Kept DEF Progress, PlanKnown, Remembers, AsFarAs, Decided, Applying
  <2>3. Guarded'
    BY <2>1 DEF Guarded
  <2> QED BY <2>2, <2>3 DEF Progress
<1> QED
  BY <1>2, <1>3

LEMMA RemoveOutboundsProgress ==
  ASSUME TypeOK, Progress, RemoveOutbounds \/ RemoveOutboundsFails
  PROVE  Progress'
<1>1. /\ pc = "rmo" /\ Keep /\ payload # None
      /\ UNCHANGED <<rules, applied>>
  BY DEF RemoveOutbounds, RemoveOutboundsFails, At, Believe, Progress, PlanKnown, Applying
<1>2. reach = "yes" => rules = <<>> /\ failed = {}
  BY <1>1 DEF Progress, AsFarAs
<1>3. reach = "yes" /\ astray = "no" => \A e \in Egresses : added[e] # None => outbounds[e] = added[e]
  BY DEF Progress, Remembers
<1>4. CASE RemoveOutbounds
  <2>1. /\ pc' = "ado" /\ UNCHANGED <<failed, astray>>
        /\ \A e \in Egresses : /\ outbounds'[e] = IF e \in Stale THEN None ELSE outbounds[e]
                               /\ added'[e] = IF e \in Stale THEN None ELSE added[e]
    BY <1>4 DEF RemoveOutbounds
  <2>2. \A e \in Egresses \ Stale :
          \/ outbounds[e] = None
          \/ added[e] = Wanted[e] /\ Wanted[e] # None
    BY DEF Stale, Present, Changed
  <2>3. reach = "yes" /\ astray = "no" =>
          \A e \in Egresses : outbounds'[e] = added'[e] /\ added'[e] \in {None, Wanted[e]}
    BY <1>3, <2>1, <2>2
  <2>4. AsFarAs' /\ Remembers'
    BY <1>1, <1>2, <1>3, <2>1, <2>3, Kept DEF AsFarAs, Remembers, Applying
  <2>5. PlanKnown' /\ Guarded' /\ Decided'
    BY <1>1, <2>1, Kept DEF PlanKnown, Guarded, Decided
  <2> QED BY <2>4, <2>5 DEF Progress
<1>5. CASE RemoveOutboundsFails
  <2>1. /\ pc' = "fallback" /\ failed' = failed \cup {"rmo"} /\ added' = added
    BY <1>5 DEF RemoveOutboundsFails, Fails
  <2>2. astray' = "no" => astray = "no" /\ \A e \in Egresses : outbounds'[e] = outbounds[e]
    BY <1>5 DEF RemoveOutboundsFails
  <2>3. Remembers'
    BY <1>1, <1>3, <2>1, <2>2, Kept DEF Remembers, Applying
  <2>4. AsFarAs'
    BY <1>1, <1>2, <2>1, Kept DEF AsFarAs
  <2>5. PlanKnown' /\ Guarded' /\ Decided'
    BY <1>1, <2>1, Kept DEF PlanKnown, Guarded, Decided
  <2> QED BY <2>3, <2>4, <2>5 DEF Progress
<1> QED
  BY <1>4, <1>5

LEMMA AddOutboundsProgress ==
  ASSUME TypeOK, Progress, AddOutbounds \/ AddOutboundsFails
  PROVE  Progress'
<1>1. /\ pc = "ado" /\ Keep /\ payload # None
      /\ UNCHANGED <<rules, applied, astray>>
  BY DEF AddOutbounds, AddOutboundsFails, At, Believe, Progress, PlanKnown, Applying
<1>2. reach = "yes" => rules = <<>> /\ failed = {}
  BY <1>1 DEF Progress, AsFarAs
<1>3. reach = "yes" /\ astray = "no" =>
        \A e \in Egresses : outbounds[e] = added[e] /\ added[e] \in {None, Wanted[e]}
  BY <1>1 DEF Progress, AsFarAs
<1>4. \A e \in Egresses :
        /\ e \in Changed => Wanted[e] # None /\ (outbounds[e] = None \/ added[e] # Wanted[e])
        /\ e \notin Changed => \/ Wanted[e] = None
                               \/ outbounds[e] # None /\ added[e] = Wanted[e]
  BY DEF Changed, Present
<1>5. CASE AddOutbounds
  <2>1. /\ pc' = "adrules" /\ UNCHANGED failed
        /\ outbounds' = [e \in Egresses |-> IF e \in Changed THEN Wanted[e] ELSE outbounds[e]]
        /\ added' = [e \in Egresses |-> IF e \in Changed THEN Wanted[e] ELSE added[e]]
    BY <1>5 DEF AddOutbounds
  <2>2. reach = "yes" /\ astray = "no" =>
          \A e \in Egresses : outbounds'[e] = Wanted[e] /\ added'[e] = Wanted[e]
    BY <1>3, <1>4, <2>1
  <2>3. Wanted = [e \in Egresses |-> Wanted[e]]
    BY <1>1 DEF TypeOK, Payload, Wanted
  <2>4. reach = "yes" /\ astray = "no" => outbounds' = Wanted
    <3> HIDE DEF Wanted
    <3> QED BY <2>1, <2>2, <2>3
  <2>5. AsFarAs'
    BY <1>1, <1>2, <2>1, <2>4, Kept DEF AsFarAs, Runs
  <2>6. Remembers'
    BY <1>1, <2>1, <2>2, Kept DEF Remembers, Applying
  <2>7. PlanKnown' /\ Guarded' /\ Decided'
    BY <1>1, <2>1, Kept DEF PlanKnown, Guarded, Decided
  <2> QED BY <2>5, <2>6, <2>7 DEF Progress
<1>6. CASE AddOutboundsFails
  <2>1. /\ pc' = "fallback" /\ failed' = failed \cup {"ado"} /\ added' = added
    BY <1>6 DEF AddOutboundsFails, Fails
  <2>2. \A e \in Egresses : outbounds'[e] = outbounds[e] \/ e \in Changed
    BY <1>6 DEF AddOutboundsFails
  <2>3. reach = "yes" /\ astray = "no" =>
          \A e \in Egresses : added[e] # None => outbounds'[e] = added[e]
    BY <1>3, <1>4, <2>2
  <2>4. Remembers'
    BY <1>1, <2>1, <2>3, Kept DEF Remembers, Applying
  <2>5. AsFarAs'
    BY <1>1, <1>2, <2>1, Kept DEF AsFarAs
  <2>6. PlanKnown' /\ Guarded' /\ Decided'
    BY <1>1, <2>1, Kept DEF PlanKnown, Guarded, Decided
  <2> QED BY <2>4, <2>5, <2>6 DEF Progress
<1> QED
  BY <1>5, <1>6

LEMMA AddRulesProgress ==
  ASSUME TypeOK, Progress, AddRules \/ AddRulesFails
  PROVE  Progress'
<1>1. /\ pc = "adrules" /\ Keep /\ payload # None
      /\ UNCHANGED <<outbounds, added, applied, astray>>
  BY DEF AddRules, AddRulesFails, At, Believe, Progress, PlanKnown, Applying
<1>2. reach = "yes" => Runs(<<>>) /\ failed = {}
  BY <1>1 DEF Progress, AsFarAs
<1>3. rules = <<>> => rules \o Desired = Desired
  <2>1. Desired \in Seq(Rule)
    BY <1>1, ListsType DEF TypeOK
  <2> HIDE DEF Rule
  <2> QED BY <2>1
<1>4. Remembers'
  <2>1. pc' \in Applying
    BY DEF AddRules, AddRulesFails, Applying
  <2> QED
    BY <1>1, <2>1, Kept DEF Progress, Remembers
<1>5. PlanKnown' /\ Decided'
  BY <1>1, Kept DEF PlanKnown, Decided, AddRules, AddRulesFails
<1>6. CASE AddRules
  <2>1. rules' = rules \o Desired /\ pc' = "default" /\ failed' = failed
    BY <1>6 DEF AddRules
  <2>2. reach = "yes" => Runs(Desired)'
    BY <1>1, <1>2, <1>3, <2>1, Kept DEF Runs
  <2>3. AsFarAs'
    BY <1>1, <2>1, <2>2, Kept DEF AsFarAs, Runs
  <2>4. Guarded'
    BY <1>1, <1>2, <2>1, Kept DEF Guarded
  <2> QED BY <1>4, <1>5, <2>3, <2>4 DEF Progress
<1>7. CASE AddRulesFails
  <2>1. /\ pc' = "fallback" /\ failed' = failed \cup {"adrules"} /\ Desired # <<>>
        /\ rules' = rules \/ rules' = rules \o Desired
    BY <1>7 DEF AddRulesFails, Fails
  <2>2. reach = "yes" => rules' = <<>> \/ Runs(Desired)'
    BY <1>1, <1>2, <1>3, <2>1, Kept DEF Runs
  <2>3. AsFarAs'
    BY <1>1, <1>2, <2>1, <2>2, Kept DEF AsFarAs, Runs
  <2>4. Guarded'
    BY <2>1 DEF Guarded
  <2> QED BY <1>4, <1>5, <2>3, <2>4 DEF Progress
<1> QED
  BY <1>6, <1>7

LEMMA AddFallbackProgress ==
  ASSUME TypeOK, Progress, AddFallback \/ AddFallbackFails
  PROVE  Progress'
<1>1. /\ pc = "fallback" /\ pc' = "default" /\ Keep /\ payload # None
      /\ UNCHANGED <<outbounds, added, applied, astray>>
  BY DEF AddFallback, AddFallbackFails, At, Believe, Progress, PlanKnown, Applying
<1>2. payload \in Payload /\ astray' \in {"yes", "no"}
  BY <1>1 DEF TypeOK
<1>3. Remembers'
  BY <1>1, Kept DEF Progress, Remembers, Applying
<1>4. PlanKnown' /\ Decided'
  BY <1>1, Kept DEF PlanKnown, Decided
<1>5. reach = "yes" =>
        \/ failed \in {{"rmo"}, {"ado"}} /\ rules = <<>>
        \/ failed = {"adrules"} /\ rules = <<>>
        \/ failed = {"adrules"} /\ Desired # <<>> /\ Runs(Desired)
  BY <1>1 DEF Progress, AsFarAs
<1>6. failed \subseteq failed'
  BY DEF AddFallback, AddFallbackFails, Fails
<1>7. AsFarAs'
  BY <1>1, <1>5, <1>6, Kept DEF AsFarAs
<1>8. CASE AddFallback
  <2>1. rules' = IF NoneOurs THEN Fallback ELSE rules
    BY <1>8 DEF AddFallback
  <2>2. ASSUME reach = "yes", NEW a \in Guards PROVE Covered(a)'
    <3>1. CASE rules = <<>>
      <4>1. NoneOurs
        BY <3>1 DEF NoneOurs
      <4> QED
        BY <1>1, <1>2, <2>1, <4>1, Kept, CoveredByFallback
    <3>2. CASE Desired # <<>> /\ Runs(Desired)
      <4>1. Desired \in Seq(Rule)
        BY <1>2, ListsType
      <4>2. 1 \in DOMAIN Desired /\ Desired[1] \in Rule
        <5> HIDE DEF Rule
        <5> QED BY <3>2, <4>1
      <4>3. Desired[1] # DefaultRule
        BY <4>2, PoolType DEF Rule, DefaultRule
      <4>4. ~NoneOurs
        BY <3>2, <4>2, <4>3 DEF NoneOurs, Runs
      <4>5. Runs(Desired)'
        BY <1>1, <2>1, <3>2, <4>4, Kept DEF Runs
      <4> QED
        BY <1>1, <1>2, <4>5, Kept, CoveredByDesired
    <3> QED BY <1>5, <2>2, <3>1, <3>2
  <2>3. Guarded'
    <3>1. Guards' = Guards
      BY <1>1, Kept DEF Guards
    <3> QED BY <1>1, <2>2, <3>1, Kept DEF Guarded, Guards
  <2> QED BY <1>3, <1>4, <1>7, <2>3 DEF Progress
<1>9. CASE AddFallbackFails
  <2>1. "fallback" \in failed'
    BY <1>9 DEF AddFallbackFails, Fails
  <2>2. Guarded'
    BY <2>1 DEF Guarded
  <2> QED BY <1>3, <1>4, <1>7, <2>2 DEF Progress
<1> QED
  BY <1>8, <1>9

LEMMA AddDefaultProgress ==
  ASSUME TypeOK, Progress, AddDefault \/ AddDefaultFails
  PROVE  Progress'
<1>1. /\ pc = "default" /\ Keep /\ payload # None
      /\ UNCHANGED <<outbounds, added, astray>>
  BY DEF AddDefault, AddDefaultFails, At, Progress, PlanKnown, Applying
<1>2. payload \in Payload
  BY <1>1 DEF TypeOK
<1>3. CASE AddDefault /\ failed = {}
  <2>1. /\ rules' = Append(rules, DefaultRule) /\ pc' = "verify"
        /\ failed' = {} /\ applied' = applied
    BY <1>3 DEF AddDefault, Believe
  <2>2. reach = "yes" => rules' = Desired \o <<DefaultRule>> /\ (astray = "no" => outbounds = Wanted)
    <3>1. Desired \in Seq(Rule)
      BY <1>2, ListsType
    <3>2. Append(Desired, DefaultRule) = Desired \o <<DefaultRule>>
      <4> HIDE DEF Rule, DefaultRule
      <4> QED BY <3>1
    <3> QED BY <1>1, <1>3, <2>1, <3>2 DEF Progress, AsFarAs, Runs
  <2>3. AsFarAs'
    BY <1>1, <2>1, <2>2, Kept DEF AsFarAs, Runs
  <2>4. Remembers'
    BY <1>1, <2>1, Kept DEF Progress, Remembers, Applying
  <2>5. PlanKnown' /\ Guarded' /\ Decided'
    BY <1>1, <2>1, Kept DEF PlanKnown, Guarded, Decided
  <2> QED BY <2>3, <2>4, <2>5 DEF Progress
<1>4. CASE AddDefault /\ failed # {}
  <2>1. /\ rules' = Append(rules, DefaultRule) /\ pc' = "idle"
        /\ failed' = failed /\ applied' = None
    BY <1>4 DEF AddDefault, Forget
  <2>2. PlanKnown' /\ Remembers' /\ AsFarAs' /\ Decided'
    BY <1>1, <2>1, Kept DEF Progress, PlanKnown, Remembers, AsFarAs, Decided, Applying
  <2>3. \A a \in Ids : Covered(a) => Covered(a)'
    BY <1>1, <2>1, Kept, CoveredWithDefault
  <2>4. Guarded'
    BY <1>1, <2>1, <2>3, Kept DEF Progress, Guarded
  <2> QED BY <2>2, <2>4 DEF Progress
<1>5. CASE AddDefaultFails
  <2>1. pc' = "idle" /\ "default" \in failed' /\ applied' = None
    BY <1>5 DEF AddDefaultFails, Forget, Fails
  <2>2. PlanKnown' /\ Remembers' /\ AsFarAs' /\ Decided'
    BY <1>1, <2>1, Kept DEF Progress, PlanKnown, Remembers, AsFarAs, Decided, Applying
  <2>3. Guarded'
    BY <2>1 DEF Guarded
  <2> QED BY <2>2, <2>3 DEF Progress
<1> QED
  BY <1>3, <1>4, <1>5

LEMMA VerifyProgress ==
  ASSUME TypeOK, Progress, Verify \/ VerifyFails
  PROVE  Progress'
<1>1. /\ pc = "verify" /\ pc' = "idle" /\ Keep /\ payload # None
      /\ UNCHANGED <<rules, outbounds, added, astray>>
  BY DEF Verify, VerifyFails, At, Forget, Progress, PlanKnown, Applying, xrayVars
<1>2. reach = "yes" => Runs(Desired \o <<DefaultRule>>) /\ failed = {}
  BY <1>1 DEF Progress, AsFarAs
<1>3. AsFarAs'
  BY <1>1 DEF AsFarAs
<1>4. CASE Verify /\ applied' # None
  <2>1. /\ applied' = [outbounds |-> Wanted, rules |-> Desired] /\ states' = NowStates
        /\ failed' = failed /\ reach = "yes"
    BY <1>4 DEF Verify, Forget, Works
  <2>2. Remembers'
    BY <1>1, <1>2, <2>1, Kept DEF Progress, Remembers, Runs
  <2>3. PlanKnown' /\ Decided' /\ Guarded'
    BY <1>1, <1>2, <2>1, Kept DEF PlanKnown, Decided, Guarded
  <2> QED BY <1>3, <2>2, <2>3 DEF Progress
<1>5. CASE applied' = None /\ (Verify \/ VerifyFails)
  <2>1. PlanKnown' /\ Remembers' /\ Decided'
    BY <1>1, <1>5, Kept DEF Progress, PlanKnown, Remembers, Decided
  <2>2. reach = "yes" => failed' = {} \/ failed' = {"read"}
    BY <1>2, <1>5 DEF Verify, VerifyFails, Fails
  <2>3. Guarded'
    BY <1>1, <2>2, Kept DEF Guarded
  <2> QED BY <1>3, <2>1, <2>3 DEF Progress
<1> QED
  BY <1>4, <1>5 DEF VerifyFails, Forget

-----------------------------------------------------------------------------
LEMMA EgressInit == Init => EgressIInv
<1> SUFFICES ASSUME Init PROVE EgressIInv
  OBVIOUS
<1>1. Streaks
  BY DEF Init, Streaks
<1> QED
  BY <1>1, TypeInit, ProgressInit DEF EgressIInv, Progress

LEMMA EgressStep ==
  ASSUME EgressIInv, [Next]_vars
  PROVE  EgressIInv'
<1>1. TypeOK /\ PlanKnown /\ Progress /\ Streaks
  BY DEF EgressIInv, Progress
<1>2. TypeOK'
  BY <1>1, TypeStep
<1>3. Progress' /\ Streaks'
  <2>1. CASE UNCHANGED vars
    BY <1>1, <2>1, Unmoved DEF vars, xrayVars, memory, ghosts
  <2>2. CASE World
    BY <1>1, <2>2, WorldProgress
  <2>3. CASE Read \/ CutOff \/ Exchange \/ ExchangeFails
    BY <1>1, <2>3, ExchangeProgress
  <2>4. CASE check \/ CheckFails
    BY <1>1, <2>4, CheckProgress
  <2>5. CASE apply \/ CallFails
    <3>1. Keep
      BY <2>5 DEF apply, CallFails, Nothing, Look, RemoveRules, RemoveOutbounds, AddOutbounds,
        AddRules, AddFallback, AddDefault, Verify, LookFails, RemoveRulesFails,
        RemoveOutboundsFails, AddOutboundsFails, AddRulesFails, AddFallbackFails,
        AddDefaultFails, VerifyFails, At
    <3>2. Progress'
      BY <1>1, <2>5, LookProgress, RemoveRulesProgress, RemoveOutboundsProgress,
        AddOutboundsProgress, AddRulesProgress, AddFallbackProgress, AddDefaultProgress,
        VerifyProgress DEF apply, CallFails
    <3> QED BY <1>1, <3>1, <3>2, Kept
  <2> QED BY <2>1, <2>2, <2>3, <2>4, <2>5 DEF Next, Agent
<1> QED
  BY <1>2, <1>3 DEF EgressIInv, Progress

\* What the agent remembers of the outbounds it added is so while it reaches Xray, each
\* call of an apply finds what the calls before left, and the streaks say what the last
\* checks were (Egress.apply, Egress.check).
THEOREM EgressInvariance == Spec => []EgressIInv
<1>1. EgressIInv /\ [Next]_vars => EgressIInv'
  BY EgressStep
<1> QED
  BY <1>1, EgressInit, PTL DEF Spec

\* Whatever failed before, what the agent believes runs is what Xray runs, in this order
\* and with these settings, although it compares tags (Egress.apply).
THEOREM BelievedRuns == Spec => []BelievesWhatRuns
<1>1. EgressIInv => BelievesWhatRuns
  BY DEF EgressIInv, Remembers, BelievesWhatRuns, AtRest, RunsExactly, Applying
<1> QED
  BY <1>1, EgressInvariance, PTL

\* An apply of which only the outbounds or only the rules failed leaves every assignment
\* that is to block with all its rules (Egress.apply's fallback).
THEOREM BlocksWhenItFails == Spec => []BlocksOnFailure
<1>1. EgressIInv => BlocksOnFailure
  BY DEF EgressIInv, Guarded, BlocksOnFailure, AtRest
<1> QED
  BY <1>1, EgressInvariance, PTL

\* With the rules of the plan placed as decided, each assignment leads as was decided, by
\* rules with its match; one that is not in the plan has no rules.
LEMMA LeadsAsDecided ==
  ASSUME payload \in Payload, rules = Desired \o <<DefaultRule>>, NEW a \in Ids
  PROVE  /\ payload.assignments[a] = None => RulesFor(a) = {}
         /\ payload.assignments[a] # None => Leads(a) = StateOf(payload, a)
         /\ \A n \in RulesFor(a) : rules[n].match = payload.assignments[a]
<1>1. IsList(Desired, payload, Placed, Open) /\ Desired \in Seq(Rule)
  BY DesiredList, ListsType
<1>2. /\ DOMAIN rules = DOMAIN Desired \cup {Len(Desired) + 1}
      /\ rules[Len(Desired) + 1] = DefaultRule
      /\ \A n \in DOMAIN Desired : rules[n] = Desired[n]
  <2> HIDE DEF Rule, DefaultRule
  <2> QED BY <1>1
<1>3. DefaultRule.id # a
  BY PoolType DEF DefaultRule
<1>4. \A n : n \in RulesFor(a) <=> n \in DOMAIN Desired /\ Desired[n].id = a
  BY <1>2, <1>3 DEF RulesFor
<1>5. \A n \in RulesFor(a) : rules[n].match = payload.assignments[a]
  BY <1>1, <1>2, <1>4 DEF IsList
<1>6. CASE a \notin Placed
  <2>1. RulesFor(a) = {}
    BY <1>1, <1>4, <1>6 DEF IsList
  <2>2. payload.assignments[a] # None => StateOf(payload, a) = "direct"
    BY <1>6 DEF Placed, StateOf
  <2> QED BY <2>1, <2>2 DEF Leads
<1>7. CASE a \in Open
  <2>1. PICK n \in DOMAIN Desired : Desired[n].id = a /\ Desired[n].index = 1
    BY <1>1, <1>7, PoolType DEF IsList, Placed, Open
  <2>2. Desired[n].to = "egress"
    BY <1>1, <1>7, <2>1, PoolType DEF IsList
  <2>3. n \in RulesFor(a) /\ rules[n].to = "egress"
    BY <1>2, <1>4, <2>1, <2>2
  <2>4. Leads(a) = "active"
    BY <2>3 DEF Leads
  <2> QED BY <1>5, <1>7, <2>4 DEF Open, StateOf
<1>8. CASE a \in Placed \ Open
  <2>1. PICK n \in DOMAIN Desired : Desired[n].id = a /\ Desired[n].index = 1
    BY <1>1, <1>8, PoolType DEF IsList
  <2>2. n \in RulesFor(a)
    BY <1>4, <2>1
  <2>3. \A i \in RulesFor(a) : rules[i].to # "egress"
    BY <1>1, <1>2, <1>4, <1>8 DEF IsList
  <2>4. Leads(a) = "blocked"
    BY <2>2, <2>3 DEF Leads
  <2>5. StateOf(payload, a) = "blocked" /\ payload.assignments[a] # None
    BY <1>8 DEF Placed, Open, StateOf
  <2> QED BY <1>5, <2>4, <2>5
<1> QED BY <1>5, <1>6, <1>7, <1>8

\* After an apply that went well each assignment leads where the last RECOVER checks of
\* its egress send it, and the agent says so (Egress.check, usable, desired).
THEOREM SwitchesAsChecked == Spec => []SwitchesByChecks
<1>1. ASSUME EgressIInv, AtRest, applied # None, failed = {},
             NEW a \in Ids, payload.assignments[a] # None
      PROVE  LET e == Pool[a].egress
                 good == /\ ~EgressOff(payload, a)
                         /\ NoFailure(seen[e].tcp)
                         /\ Pool[a].udp = "yes" => NoFailure(seen[e].udp)
             IN  /\ states[a] = Leads(a)
                 /\ Leads(a) = IF good THEN "active"
                               ELSE IF Pool[a].on_failure = "block" THEN "blocked" ELSE "direct"
  <2> DEFINE e == Pool[a].egress
             good == /\ ~EgressOff(payload, a)
                     /\ NoFailure(seen[e].tcp)
                     /\ Pool[a].udp = "yes" => NoFailure(seen[e].udp)
  <2>1. /\ TypeOK /\ payload \in Payload /\ states = NowStates
        /\ rules = Desired \o <<DefaultRule>>
    <3>1. TypeOK /\ payload # None
      BY <1>1 DEF EgressIInv, PlanKnown
    <3>2. payload \in Payload
      BY <3>1 DEF TypeOK
    <3>3. states = NowStates /\ applied = [outbounds |-> Wanted, rules |-> Desired]
      BY <1>1 DEF EgressIInv, Decided, AtRest
    <3>4. rules = applied.rules \o <<DefaultRule>>
      BY <1>1 DEF EgressIInv, Remembers, AtRest, Applying
    <3>5. applied.rules = Desired
      BY <3>3
    <3> QED BY <3>1, <3>2, <3>3, <3>4, <3>5
  <2>2. usable(e, Pool[a].udp) <=>
          NoFailure(seen[e].tcp) /\ (Pool[a].udp = "yes" => NoFailure(seen[e].udp))
    <3>1. e \in Egresses
      BY PoolType
    <3>2. CASE health[e] = None
      BY <1>1, <3>1, <3>2 DEF EgressIInv, Streaks, usable, NoFailure
    <3>3. CASE health[e] # None
      <4>1. /\ Fits(health[e].tcp, seen[e].tcp) /\ Fits(health[e].udp, seen[e].udp)
            /\ health[e].tcp \in Kind /\ health[e].udp \in Kind
            /\ seen[e].tcp \in Seq({"ok", "fail"}) /\ seen[e].udp \in Seq({"ok", "fail"})
        BY <1>1, <2>1, <3>1, <3>3 DEF EgressIInv, Streaks, TypeOK, Health
      <4>2. ASSUME NEW k \in Kind, NEW list \in Seq({"ok", "fail"}), Fits(k, list)
            PROVE  k.ok = "yes" <=> NoFailure(list)
        <5>1. CASE k.ok = "yes"
          BY <4>2, <5>1 DEF Fits
        <5>2. CASE k.ok = "no"
          <6>1. /\ k.streak \in Nat /\ k.streak < Len(list) /\ Len(list) \in Nat
                /\ list[Len(list) - k.streak] = "fail"
            BY <4>2, <5>2 DEF Fits, Kind
          <6>2. Len(list) - k.streak \in DOMAIN list
            BY <6>1
          <6> QED BY <5>2, <6>1, <6>2 DEF NoFailure
        <5> QED BY <5>1, <5>2 DEF Kind
      <4> QED BY <3>3, <4>1, <4>2 DEF usable
    <3> QED BY <3>2, <3>3
  <2>3. states[a] = IF good THEN "active"
                    ELSE IF Pool[a].on_failure = "block" THEN "blocked" ELSE "direct"
    BY <1>1, <2>1, <2>2 DEF NowStates, StateOf
  <2>4. states[a] = StateOf(payload, a)
    BY <2>1 DEF NowStates
  <2> HIDE DEF good
  <2>5. Leads(a) = states[a]
    BY <1>1, <2>1, <2>4, LeadsAsDecided
  <2> QED BY <2>3, <2>5 DEF good
<1>2. EgressIInv => SwitchesByChecks
  BY <1>1 DEF SwitchesByChecks
<1> QED
  BY <1>2, EgressInvariance, PTL

-----------------------------------------------------------------------------
(***************************************************************************)
(* What the agent reports as applied.                                      *)
(***************************************************************************)

\* While something is believed to run, of the calls at most the check of the tick before
\* failed: every failure of a call of the apply ends in Forget.
OnlyChecksFail == pc \notin Applying /\ applied # None => failed \in {{}, {"check"}}

LEMMA OnlyChecksStep ==
  ASSUME EgressIInv, OnlyChecksFail, [Next]_vars
  PROVE  OnlyChecksFail'
<1>1. CASE UNCHANGED vars
  BY <1>1 DEF vars, memory, ghosts, OnlyChecksFail
<1>2. CASE World
  <2>1. applied' = None \/ (pc' = pc /\ applied' = applied /\ failed' = failed)
    BY <1>2 DEF World, set_enabled, save, EgressChanges, Reassign, Rematch, Deploy,
      XrayRestarts, AgentRestarts, HandleLate, ConsoleChanges, NothingKnown, memory, ghosts
  <2> QED BY <2>1 DEF OnlyChecksFail
<1>3. CASE Read \/ CutOff \/ Exchange \/ ExchangeFails \/ check
  <2>1. pc \notin Applying /\ applied' = applied /\ failed' = failed
    BY <1>3 DEF Read, CutOff, Exchange, ExchangeFails, check, Quiet, Applying, memory, ghosts
  <2> QED BY <2>1 DEF OnlyChecksFail
<1>4. CASE CheckFails
  BY <1>4 DEF CheckFails, OnlyChecksFail
<1>5. CASE Nothing
  BY <1>5 DEF Nothing, At, OnlyChecksFail, Applying
<1>6. CASE Look
  BY <1>6 DEF Look, OnlyChecksFail
<1>7. CASE RemoveRules \/ RemoveOutbounds \/ AddOutbounds \/ AddRules \/ AddFallback
  <2>1. pc' \in Applying
    BY <1>7 DEF RemoveRules, RemoveOutbounds, AddOutbounds, AddRules, AddFallback, Applying
  <2> QED BY <2>1 DEF OnlyChecksFail
<1>8. CASE AddDefault
  <2>1. pc' \in Applying \/ applied' = None
    BY <1>8 DEF AddDefault, Forget, Applying
  <2> QED BY <2>1 DEF OnlyChecksFail
<1>9. CASE Verify
  <2>1. failed = {} /\ failed' = failed
    BY <1>9 DEF Verify, At, Works, EgressIInv, AsFarAs
  <2> QED BY <2>1 DEF OnlyChecksFail
<1>10. CASE CallFails
  <2>1. applied' = None \/ pc' \in Applying
    BY <1>10 DEF CallFails, LookFails, RemoveRulesFails, RemoveOutboundsFails,
      AddOutboundsFails, AddRulesFails, AddFallbackFails, AddDefaultFails, VerifyFails,
      Forget, Applying
  <2> QED BY <2>1 DEF OnlyChecksFail
<1> QED
  BY <1>1, <1>2, <1>3, <1>4, <1>5, <1>6, <1>7, <1>8, <1>9, <1>10 DEF Next, Agent, apply

\* A plan that the agent names as applied, in the first report of a tick, is what the
\* node runs, and the states sent with it say where its assignments lead, unless Xray
\* restarted since it was read or the check of the tick before raised (Egress.report).
THEOREM ReportedPlanRuns == Spec => []ReportedRuns
<1>1. ASSUME EgressIInv, OnlyChecksFail, pc = "send", reach = "yes",
             NewReport.applied # None, failed # {"check"}, astray = "no"
      PROVE  RunsAsReported(NewReport)
  <2>1. applied # None /\ NewReport.applied = payload /\ NewReport.states = states
    BY <1>1 DEF NewReport
  <2>2. failed = {} /\ payload \in Payload
    BY <1>1, <2>1 DEF OnlyChecksFail, Applying, EgressIInv, PlanKnown, TypeOK
  <2>3. applied = [outbounds |-> Wanted, rules |-> Desired] /\ states = NowStates
    BY <1>1, <2>1, <2>2 DEF EgressIInv, Decided
  <2>4. rules = applied.rules \o <<DefaultRule>> /\ outbounds = applied.outbounds
    BY <1>1, <2>1 DEF EgressIInv, Remembers, Applying
  <2>5. rules = Desired \o <<DefaultRule>> /\ outbounds = payload.outbounds
    BY <2>3, <2>4 DEF Wanted
  <2>6. \A a \in Ids : states[a] = StateOf(payload, a)
    BY <2>3 DEF NowStates
  <2> QED
    BY <2>1, <2>2, <2>5, <2>6, LeadsAsDecided DEF RunsAsReported
<1>2. Init => OnlyChecksFail
  BY DEF Init, OnlyChecksFail, NothingKnown
<1>3. EgressIInv /\ OnlyChecksFail /\ [Next]_vars => OnlyChecksFail'
  BY OnlyChecksStep
<1>4. EgressIInv /\ OnlyChecksFail => ReportedRuns
  BY <1>1 DEF ReportedRuns
<1> QED
  BY <1>2, <1>3, <1>4, EgressInvariance, PTL DEF Spec
=============================================================================
