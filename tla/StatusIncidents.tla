--------------------------- MODULE StatusIncidents ---------------------------
(***************************************************************************)
(* From probe results to the incidents of a node (console/status.py,       *)
(* advance, settle, record_round).                                         *)
(*                                                                         *)
(* Each interval the status service probes every transport of a node and   *)
(* stores the round in one transaction: FailCount failures in a row open   *)
(* an incident dated back to the first of them, RecoverCount successes end *)
(* it at the first, rounds without a result change nothing, and a gap ends *)
(* what is open.  A hidden node is in maintenance.  The node may leave the *)
(* probe set or change its transports; the service may miss rounds.        *)
(*                                                                         *)
(* A round bears the time it was started at, a multiple of the interval;   *)
(* the node may be hidden or shown until it is stored.  Notes and           *)
(* latencies are left out.  What is published is StatusDocument.           *)
(***************************************************************************)
EXTENDS Naturals, FiniteSets, Sequences

CONSTANTS
  Transports,
  Vision,        \* the one every node has
  FailCount, RecoverCount,
  Interval,      \* a round per Interval
  KeepFor,       \* ended incidents are kept that long
  PurgeEvery,    \* the first round of each PurgeEvery (an hour) purges
  MaxTime,       \* bound: the last time
  MaxUpsets      \* bound: changes, missed rounds and missing results

ASSUME StatusAssumption ==
  /\ IsFiniteSet(Transports) /\ Vision \in Transports
  /\ FailCount \in Nat \ {0} /\ RecoverCount \in Nat \ {0}
  /\ Interval \in Nat \ {0}
  /\ KeepFor \in Nat /\ PurgeEvery \in Nat \ {0}
  /\ MaxTime \in Nat /\ MaxUpsets \in Nat

Never == 0
Results == {"ok", "fail", "none"}
Faults == {"outage", "partial"}

VARIABLES
  now,
  node,          \* the node's transports to probe; none when it has no probe account
  shown, changedAt,       \* node_display
  last,          \* status_meta: the last round, and when the node joined
  joined,
  state,         \* probe_state, per transport
  incidents,     \* the rows of incident; to = Never while open
  targets,       \* ghost: the transports of the last round
  heard,         \* ghost: the results of a transport that count, oldest first
  since,         \* ghost: when counting began anew, or the transports changed
  even,          \* ghost: since then a round told of all transports or of none
  upsets

display == <<shown, changedAt>>
ghosts == <<targets, heard, since, even>>
stored == <<last, joined, state, incidents, ghosts>>
statusVars == <<now, node, display, stored, upsets>>

NewState == [fails |-> 0, oks |-> 0, firstFail |-> Never, firstOk |-> Never,
             downSince |-> Never, lastKnown |-> Never]

State == [fails : Nat, oks : Nat, firstFail : Nat, firstOk : Nat,
          downSince : Nat, lastKnown : Nat]

Incident == [kind : Faults \cup {"maintenance"}, from : Nat, to : Nat,
             who : SUBSET Transports]

StatusTypeOK ==
  /\ now \in Nat /\ node \in SUBSET Transports
  /\ shown \in {"yes", "no"} /\ changedAt \in Nat
  /\ last \in Nat /\ joined \in Nat
  /\ state \in [Transports -> State]
  /\ incidents \in SUBSET Incident
  /\ targets \in SUBSET Transports
  /\ heard \in [Transports -> Seq([at : Nat, ok : {"ok", "fail"}])]
  /\ since \in Nat /\ even \in {"yes", "no"}
  /\ upsets \in Nat

StatusInit ==
  /\ now = Interval
  /\ node = Transports /\ shown = "yes" /\ changedAt = Never
  /\ last = Never /\ joined = Never
  /\ state = [t \in Transports |-> NewState]
  /\ incidents = {}
  /\ targets = {} /\ heard = [t \in Transports |-> <<>>]
  /\ since = Never /\ even = "yes"
  /\ upsets = 0

Upset == upsets < MaxUpsets /\ upsets' = upsets + 1

Later(a, b) == IF a > b THEN a ELSE b
Earlier(a, b) == IF a < b THEN a ELSE b

-----------------------------------------------------------------------------
(***************************************************************************)
(* Around the service.                                                     *)
(***************************************************************************)
Interrupted == last < (now \div Interval) * Interval

\* The round of every interval is stored.
TimePasses ==
  /\ now < MaxTime
  /\ now' = now + 1
  /\ now' % Interval = 0 => ~Interrupted
  /\ UNCHANGED <<node, display, stored, upsets>>

\* The service is down, or its rounds take too long.
RoundsMissed ==
  /\ Upset
  /\ now' \in now + 1 .. Earlier(now + 3 * Interval + 1, MaxTime)
  /\ UNCHANGED <<node, display, stored>>

\* set_shown
ShowOrHide ==
  /\ Upset
  /\ shown' = IF shown = "yes" THEN "no" ELSE "yes"
  /\ changedAt' = now
  /\ UNCHANGED <<now, node, stored>>

\* The node is deployed without the probe account, or with other transports.
Redeployed ==
  /\ Upset
  /\ node' \in {{}, {Vision}, Transports} \ {node}
  /\ UNCHANGED <<now, display, stored>>

-----------------------------------------------------------------------------
(***************************************************************************)
(* One result of one transport: advance.                                   *)
(***************************************************************************)
Failed(s, at) ==
  LET first == IF s.fails = 0 THEN at ELSE s.firstFail
      down == s.downSince # Never
  IN  [fails |-> s.fails + 1, oks |-> 0, firstFail |-> first, firstOk |-> Never,
       downSince |-> IF ~down /\ s.fails + 1 >= FailCount THEN first ELSE s.downSince,
       lastKnown |-> at]

Succeeded(s, at) ==
  LET first == IF s.oks = 0 THEN at ELSE s.firstOk
  IN  [fails |-> 0, oks |-> s.oks + 1, firstFail |-> Never, firstOk |-> first,
       downSince |-> IF s.oks + 1 >= RecoverCount THEN Never ELSE s.downSince,
       lastKnown |-> at]

advance(s, result, at) ==
  CASE result = "none" -> s
    [] result = "fail" -> Failed(s, at)
    [] result = "ok" -> Succeeded(s, at)

\* What a result changes: the transport goes down at its first failure, or is up
\* at its first success.
Transitions(old, new) ==
  {[at |-> new[t].downSince, order |-> 1, who |-> t] :
     t \in {t \in targets' : old[t].downSince = Never /\ new[t].downSince # Never}}
  \cup
  {[at |-> new[t].firstOk, order |-> 0, who |-> t] :
     t \in {t \in targets' : old[t].downSince # Never /\ new[t].downSince = Never}}

UpsFirst(a, b) == a.order < b.order

Before(a, b) == a.at < b.at \/ (a.at = b.at /\ a.order < b.order)

-----------------------------------------------------------------------------
(***************************************************************************)
(* The table of incidents.                                                 *)
(***************************************************************************)
IsOpen(incident, kinds) == incident.to = Never /\ incident.kind \in kinds

Open(rows, kinds) == {i \in rows : IsOpen(i, kinds)}
Opened(rows, kinds) == Open(rows, kinds) # {}

\* close_incident: an incident that would end at its start, or before, is deleted.
CloseOpen(rows, kinds, at) ==
  LET open == Open(rows, kinds)
      Closed(i) == [kind |-> i.kind, from |-> i.from, to |-> at, who |-> i.who]
  IN  (rows \ open) \cup {Closed(i) : i \in {i \in open : at > i.from}}

Start(rows, kind, at, who) ==
  rows \cup {[kind |-> kind, from |-> at, to |-> Never, who |-> who]}

Latest(times) == CHOOSE e \in times : \A other \in times : other <= e

LastEnd(rows) == Latest({Never} \cup {i.to : i \in rows})

\* The end of the incident that is closed now, also when it is deleted.
EndOfOpen(rows, at) ==
  Latest({Never} \cup {Later(at, i.from) : i \in Open(rows, Faults)})

Kind(down, of) == IF down = of THEN "outage" ELSE "partial"

AsFound(at, floor) == at

\* An incident dated back never begins before an earlier one ended.
BeginsAt(at, floor) == Later(at, floor)

\* settle: the open incident names the transports that are down.
Fits(rows, down, of) ==
  \A i \in Open(rows, Faults) :
    down # {} /\ i.kind = Kind(down, of) /\ i.who = down

settle(book, of, at) ==
  LET fits == Fits(book.rows, book.down, of)
      rows == IF fits THEN book.rows ELSE CloseOpen(book.rows, Faults, at)
      floor == IF fits THEN book.floor ELSE Later(book.floor, EndOfOpen(book.rows, at))
  IN  [rows |-> IF book.down # {} /\ ~Opened(rows, Faults)
                  THEN Start(rows, Kind(book.down, of), BeginsAt(at, floor), book.down)
                  ELSE rows,
       floor |-> floor, down |-> book.down]

\* The transition is noted, and the incident settled as of it.
Noted(book, transition) ==
  [rows |-> book.rows, floor |-> book.floor,
   down |-> IF transition.order = 1 THEN book.down \cup {transition.who}
                                    ELSE book.down \ {transition.who}]

Replayed(book, transition, of) == settle(Noted(book, transition), of, transition.at)

LastOf(transitions) ==
  CHOOSE t \in transitions : \A other \in transitions : ~Before(t, other)

\* The transitions in the order of their times, the incident settled after each.
Replays(book, transitions, of) ==
  LET after[done \in SUBSET transitions] ==
        IF done = {} THEN book
        ELSE Replayed(after[done \ {LastOf(done)}], LastOf(done), of)
  IN  after[transitions]

TransitionsOnly(book, transitions, of, at) == Replays(book, transitions, of)

Replay(book, transitions, of, at) == settle(Replays(book, transitions, of), of, at)

-----------------------------------------------------------------------------
(***************************************************************************)
(* One round: record_round, in one transaction.                            *)
(***************************************************************************)

PurgedByStart(rows, at) ==
  IF at % PurgeEvery < Interval THEN {i \in rows : i.from >= at - KeepFor} ELSE rows

\* purge, at the end of the transaction.
Purged(rows, at) ==
  IF at % PurgeEvery < Interval THEN {i \in rows : i.to = Never \/ i.to >= at - KeepFor}
                                ELSE rows

\* What left the probe set starts afresh.
Remaining(t) == IF t \in node THEN state[t] ELSE NewState

KnownAt == {Remaining(t).lastKnown : t \in node} \ {Never}

LastKnown == Latest(KnownAt)

Gap(at) == KnownAt # {} /\ at - LastKnown > 2 * Interval

Began(at) == IF joined = Never THEN at ELSE joined

\* Never before the node joined, nor after this round.
Changed(at) == Earlier(Later(changedAt, Began(at)), at)

NotProbed(at) ==
  /\ node = {}
  /\ incidents' = Purged(CloseOpen(incidents, Faults \cup {"maintenance"}, at), at)
  /\ state' = [t \in Transports |-> NewState]
  /\ joined' = Never

Hidden(at) ==
  /\ node # {} /\ shown = "no"
  /\ LET rows == CloseOpen(incidents, Faults, Changed(at))
     IN  incidents' = Purged(IF Opened(rows, {"maintenance"}) THEN rows
                             ELSE Start(rows, "maintenance", Changed(at), {}), at)
  /\ state' = [t \in Transports |-> NewState]
  /\ joined' = Began(at)

Shown(at, results) ==
  LET old == [t \in Transports |-> IF Gap(at) THEN NewState ELSE Remaining(t)]
      new == [t \in Transports |->
                IF t \in node THEN advance(old[t], results[t], at) ELSE NewState]
      visible == CloseOpen(incidents, {"maintenance"}, Changed(at))
      rows == IF Gap(at) THEN CloseOpen(visible, Faults, LastKnown + Interval) ELSE visible
      book == [rows |-> rows, floor |-> LastEnd(rows),
               down |-> {t \in node : old[t].downSince # Never}]
  IN  /\ node # {} /\ shown = "yes"
      /\ state' = new
      /\ incidents' = Purged(Replay(book, Transitions(old, new), node, at).rows, at)
      /\ joined' = Began(at)

\* Ghosts.
Anew(at) == node = {} \/ shown = "no" \/ Gap(at)

Listen(at, results) ==
  /\ targets' = node
  /\ heard' = [t \in Transports |->
       LET before == IF Anew(at) \/ t \notin node THEN <<>> ELSE heard[t]
       IN  IF shown = "no" \/ t \notin node \/ results[t] = "none" THEN before
           ELSE Append(before, [at |-> at, ok |-> results[t]])]
  /\ since' = IF Anew(at) \/ node # targets THEN at ELSE since
  /\ LET told == {t \in node : results[t] # "none"}
     IN  even' = IF told \notin {{}, node} THEN "no" ELSE IF Anew(at) THEN "yes" ELSE even

Round(results) ==
  LET at == (now \div Interval) * Interval
  IN  /\ last < at
      /\ last' = at
      /\ \A t \in Transports \ node : results[t] = "none"
      /\ IF \E t \in node : results[t] = "none" THEN Upset ELSE UNCHANGED upsets
      /\ Listen(at, results)
      /\ NotProbed(at) \/ Hidden(at) \/ Shown(at, results)
      /\ UNCHANGED <<now, node, display>>

StatusNext ==
  \/ TimePasses \/ RoundsMissed \/ ShowOrHide \/ Redeployed
  \/ \E results \in [Transports -> Results] : Round(results)

StatusSpec == StatusInit /\ [][StatusNext]_statusVars

-----------------------------------------------------------------------------
(***************************************************************************)
(* Properties.                                                             *)
(***************************************************************************)

\* The incidents of a node are a chronicle: each ends before the next begins, only
\* the last may be open, none is empty; outages dated back, gaps and maintenance
\* included (settle, record_round).
Follows(i, j) == j.to # Never /\ j.to <= i.from

InOrder(rows) ==
  /\ \A i \in rows : i.to # Never => i.from < i.to
  /\ \A i, j \in rows : i = j \/ Follows(i, j) \/ Follows(j, i)

Chronicle == InOrder(incidents)

\* Down at a time, by definition: from the first of FailCount failures without a
\* success between, to the first of RecoverCount successes without a failure.
RunOf(results, what, i, count) ==
  \E k \in i .. Len(results) :
    /\ \A j \in i .. k : results[j].ok = what
    /\ k - i + 1 >= count

DownBy(results, time) ==
  \E i \in DOMAIN results :
    /\ results[i].at <= time
    /\ RunOf(results, "fail", i, FailCount)
    /\ \A j \in i + 1 .. Len(results) :
         results[j].at <= time => ~RunOf(results, "ok", j, RecoverCount)

DownAt(t, time) == DownBy(heard[t], time)

Covering(rows, time) ==
  {i \in rows : i.kind \in Faults /\ i.from <= time /\ (i.to = Never \/ time < i.to)}

Named(rows, time, down, of) ==
  IF down = {} THEN Covering(rows, time) = {}
  ELSE \E i \in Covering(rows, time) : i.who = down /\ i.kind = Kind(down, of)

\* At every moment since counting began, the incident that covers it names exactly
\* the transports that were down then, as far as is known now; whatever the order
\* in which the rounds revealed it (unless some rounds told of one transport only,
\* and for counts that differ by one at most), and as long as incidents are kept.
TellsTheTruth ==
  even = "yes" =>
    \A time \in Later(since, last - KeepFor) .. last :
      Named(incidents, time, {t \in targets : DownAt(t, time)}, targets)

\* What the status page shows as going on is what the counters say: the open
\* incident names the transports that are down, also after uneven rounds.
OpenIsDown ==
  LET down == {t \in targets : state[t].downSince # Never}
  IN  /\ down # {} <=> Opened(incidents, Faults)
      /\ Fits(incidents, down, targets)
=============================================================================
