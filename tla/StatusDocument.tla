--------------------------- MODULE StatusDocument ---------------------------
(***************************************************************************)
(* What the status page is made from: status.json, built after each round  *)
(* (console/status.py, build_document, run_round).                         *)
(*                                                                         *)
(* A round is stored in one transaction; the document is built from the    *)
(* tables afterwards and then written.  In between the node may be hidden  *)
(* or shown, and the service may stop: a round that is stored is not       *)
(* probed again, so its document is left to the next one.                  *)
(*                                                                         *)
(* The rows of one node: its state, and for each day shown the time in     *)
(* outage, in partial outage and in maintenance.  Days begin at multiples  *)
(* of DayLength.  The cells of the last hour and day, which are counted    *)
(* the same way, availability and formatting are left out.                 *)
(***************************************************************************)
EXTENDS StatusIncidents, FiniteSetsExt

CONSTANTS
  DayLength,
  ShowDays       \* days on the page

ASSUME DocumentAssumption ==
  /\ DayLength \in Nat \ {0} /\ ShowDays \in Nat \ {0}
  /\ KeepFor >= ShowDays * DayLength

VARIABLES
  knownDays,     \* status_daily: days with a round that told something
  told,          \* probe_state: transports whose last probe gave a result
  building,      \* the round whose document is not written yet; Never if none
  doc,           \* status.json
  past           \* ghost: every incident that has ended

docVars == <<knownDays, told, building, doc, past>>
allVars == <<statusVars, docVars>>

Kinds == Faults \cup {"maintenance"}

NoDocument == [at |-> Never, state |-> "absent", days |-> <<>>, events |-> {}]

Day(time) == time \div DayLength
DaysShown(at) == {d \in 0 .. Day(at) : d + ShowDays > Day(at)}
WindowStart(at) == (Day(at) + 1 - ShowDays) * DayLength

DocTypeOK ==
  /\ StatusTypeOK
  /\ knownDays \subseteq Nat /\ told \subseteq Transports
  /\ building \in Nat
  /\ doc.at \in Nat
  /\ doc.state \in {"ok", "partial", "outage", "maintenance", "nodata", "absent"}
  /\ doc.events \subseteq Incident
  /\ \A d \in DOMAIN doc.days : doc.days[d].seconds \in [Kinds -> Nat]

DocInit ==
  /\ StatusInit
  /\ knownDays = {} /\ told = {} /\ building = Never /\ doc = NoDocument /\ past = {}

-----------------------------------------------------------------------------
(***************************************************************************)
(* The document.                                                           *)
(***************************************************************************)
overlap(from, to, lo, hi) ==
  LET end == Earlier(to, hi)
      begin == Later(from, lo)
  IN  IF end > begin THEN end - begin ELSE 0

ToNow(at) == at

\* Nothing is known past the last round when the service stands still.
Horizon(at) == IF last + 3 * Interval < at THEN Earlier(at, last + Interval) ELSE at

Lasted(incident, lo, hi, at) ==
  overlap(incident.from, IF incident.to = Never THEN Horizon(at) ELSE incident.to,
          lo, Earlier(hi, Horizon(at)))

InWindow(at) ==
  {i \in incidents : i.to = Never \/ i.to > WindowStart(at)}

Seconds(d, at) ==
  [kind \in Kinds |->
     MapThenSumSet(LAMBDA i : Lasted(i, d * DayLength, (d + 1) * DayLength, at),
                   {i \in InWindow(at) : i.kind = kind})]

\* The worst thing of a day gives its colour.
Colour(seconds, d) ==
  CASE seconds["outage"] > 0 -> "outage"
    [] seconds["outage"] = 0 /\ seconds["partial"] > 0 -> "partial"
    [] seconds["outage"] = 0 /\ seconds["partial"] = 0 /\ seconds["maintenance"] > 0
         -> "maintenance"
    [] OTHER -> IF d \in knownDays THEN "ok" ELSE "nodata"

Cell(d, at) == [seconds |-> Seconds(d, at), colour |-> Colour(Seconds(d, at), d)]

NothingTold(at) == last + 3 * Interval < at \/ told = {}

Current(at) ==
  IF shown = "no" THEN "maintenance"
  ELSE IF NothingTold(at) THEN "nodata"
  ELSE IF Opened(incidents, Faults) THEN (CHOOSE i \in Open(incidents, Faults) : TRUE).kind
  ELSE "ok"

\* For the nodes of the round, also when the registry has changed since.
build_document(of, at) ==
  IF of = {} THEN [NoDocument EXCEPT !.at = at]
  ELSE [at |-> at, state |-> Current(at),
        days |-> [d \in DaysShown(at) |-> Cell(d, at)],
        events |-> InWindow(at)]

-----------------------------------------------------------------------------
(***************************************************************************)
(* run_round                                                               *)
(***************************************************************************)
PurgedDays(days, at) ==
  IF at % PurgeEvery < Interval THEN {d \in days : d >= Day(at - KeepFor)} ELSE days

Ended == {i \in incidents' : i.to # Never}

StoreRound(results) ==
  /\ building = Never
  /\ Round(results)
  /\ told' = {t \in node : results[t] # "none"}
  /\ LET days == IF shown = "yes" /\ told' # {} THEN knownDays \cup {Day(last')}
                 ELSE knownDays
     IN  knownDays' = PurgedDays(days, last')
  /\ building' = last'
  /\ past' = past \cup Ended
  /\ UNCHANGED doc

Publish ==
  /\ building # Never
  /\ doc' = build_document(targets, building)
  /\ building' = Never
  /\ UNCHANGED <<statusVars, knownDays, told, past>>

\* The service stops before the document is written.
Cut ==
  /\ building # Never /\ building' = Never
  /\ Upset
  /\ UNCHANGED <<now, node, display, stored, knownDays, told, doc, past>>

Around ==
  /\ TimePasses \/ RoundsMissed \/ ShowOrHide \/ Redeployed
  /\ UNCHANGED docVars

DocNext ==
  \/ \E results \in [Transports -> Results] : StoreRound(results)
  \/ Publish \/ Cut \/ Around

DocSpec == DocInit /\ [][DocNext]_allVars

-----------------------------------------------------------------------------
(***************************************************************************)
(* Properties.                                                             *)
(***************************************************************************)

\* The admin's page builds the document anew: in its days since counting began,
\* the time in outage and in partial outage is exactly the time for which all or
\* some transports were down, as known now; split at midnight, dated back over it,
\* and counted no further than the last round when the service stands still
\* (build_document).
DaysTellTheTruth ==
  even = "yes" /\ node = targets /\ node # {} =>
    LET page == build_document(node, now)
        watched == IF now > last + 3 * Interval THEN last + Interval ELSE now
    IN  \A d \in DOMAIN page.days, kind \in Faults :
          d * DayLength >= since =>
            page.days[d].seconds[kind] =
              Cardinality({time \in d * DayLength .. (d + 1) * DayLength - 1 :
                time < watched /\
                LET down == {t \in node : DownAt(t, time)}
                IN  down # {} /\ Kind(down, node) = kind})

\* What has ended stays on the page for as long as its days do: the purge never
\* takes an incident, however long it lasted, that the document still has to show,
\* also when a document was left unwritten (purge, build_document).
ShownIsKept ==
  doc.at = last /\ doc.state # "absent" =>
    {i \in past : i.to > WindowStart(doc.at)} \subseteq doc.events
=============================================================================
