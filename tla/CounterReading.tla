--------------------------- MODULE CounterReading ---------------------------
(***************************************************************************)
(* How the node agent turns Xray's counters into traffic                   *)
(* (docker/edge-tools/edge_reporter.py: collect, log_startups,             *)
(* traffic_delta).                                                         *)
(*                                                                         *)
(* Counters only grow while a process of Xray runs and start at zero when  *)
(* it restarts.  The agent reads them, then reads what was appended to the *)
(* error log since its last position to see whether Xray started again,    *)
(* and reports the difference to the last reading, or the whole counters   *)
(* after a restart.  The two reads are not atomic: Xray serves its         *)
(* counters before it writes its start line, may restart between them, and *)
(* the log is truncated by logrotate (copytruncate) at any time.  A log    *)
(* that cannot be read says nothing of a restart, and the cycle goes on:   *)
(* the counters are reported and saved, the position in the log stays.     *)
(*                                                                         *)
(* Processes are numbered in the order they start.  A line of the log is   *)
(* the number of the process whose start line it is, or 0 for any other    *)
(* line; a line not yet complete is one not yet written.  A counter is a   *)
(* direction of a user.  Xray has an entry for a user from the user's      *)
(* first connection, at 0 in each direction without traffic, and keeps it  *)
(* while the process runs; without an entry the counters are taken as 0.   *)
(* Variables marked ghost are not in the code: they compare what is        *)
(* reported with what a reader that knew the processes would say.          *)
(***************************************************************************)
EXTENDS Naturals, Sequences

CONSTANTS
  Users,        \* names of the users of the node
  Directions,   \* uplink and downlink
  MaxProcs,     \* bound: processes of Xray
  MaxCount,     \* bound: value of a counter
  MaxLog,       \* bound: lines in the log file
  MaxFiles,     \* bound: times the log is truncated, plus one
  MaxScan       \* lines read per cycle (MAX_SCAN_BYTES)

ASSUME CountersAssumption ==
  /\ MaxProcs \in Nat /\ MaxCount \in Nat /\ MaxLog \in Nat
  /\ MaxFiles \in Nat /\ MaxScan \in Nat \ {0}

Counters == Users \X Directions

VARIABLES
  \* Xray and its log
  proc,         \* the process running
  logged,       \* processes that have written their start line
  known,        \* users it has an entry for
  ctr,          \* its counters
  log,          \* the error log
  file,         \* ghost: which content the log file has, counting truncations
  \* the agent's state file; prevProc = 0 when there is none
  prevProc,     \* ghost: the process the stored counters were read from
  prevKnown,    \* state.counters: users it has,
  prevCtr,      \* and their values
  pos,          \* state.errlog.offset; 0 when state.errlog is None
  posFile,      \* ghost: the content of the log file pos was taken in; 0 for None
  \* the agent's memory
  pc,           \* "idle", or "scan" once the counters are read
  readProc,     \* ghost: the process they were read from
  readKnown,    \* users the reading has an entry for
  readCtr,      \* the counters read
  \* what has been reported, and what it is compared with
  counted,      \* sum of the traffic reported
  ideal,        \* ghost: the same by a reader that knows the processes
  restarts,     \* number of reports with xray_restarted
  changes,      \* ghost: number of readings from another process than the last
  fault         \* ghost: what made the two sources disagree so far

logVars   == <<log, file>>
xrayVars  == <<proc, logged, known, ctr, logVars>>
stateVars == <<prevProc, prevKnown, prevCtr, pos, posFile>>
readVars  == <<readProc, readKnown, readCtr>>
tellVars  == <<counted, ideal, restarts, changes>>
vars == <<xrayVars, stateVars, pc, readVars, tellVars, fault>>

Zero == [c \in Counters |-> 0]

TypeOK ==
  /\ proc \in Nat \ {0}
  /\ logged \in SUBSET Nat
  /\ known \in SUBSET Users /\ prevKnown \in SUBSET Users
  /\ readKnown \in SUBSET Users
  /\ ctr \in [Counters -> Nat]
  /\ log \in Seq(Nat)
  /\ file \in Nat
  /\ prevProc \in Nat
  /\ prevCtr \in [Counters -> Nat]
  /\ pos \in Nat
  /\ posFile \in Nat
  /\ pc \in {"idle", "scan"}
  /\ readProc \in Nat
  /\ readCtr \in [Counters -> Nat]
  /\ counted \in [Counters -> Nat]
  /\ ideal \in [Counters -> Nat]
  /\ restarts \in Nat
  /\ changes \in Nat
  /\ fault \in SUBSET {"raced", "behind", "hidden", "unread"}

Init ==
  /\ proc = 1 /\ logged = {1} /\ known = {} /\ ctr = Zero
  /\ log = <<1>> /\ file = 1
  /\ prevProc = 0 /\ prevKnown = {} /\ prevCtr = Zero /\ pos = 0 /\ posFile = 0
  /\ pc = "idle" /\ readProc = 0 /\ readKnown = {} /\ readCtr = Zero
  /\ counted = Zero /\ ideal = Zero /\ restarts = 0 /\ changes = 0
  /\ fault = {}

-----------------------------------------------------------------------------
(***************************************************************************)
(* Xray and logrotate.                                                     *)
(***************************************************************************)

\* A user connects: the entry comes before the traffic.
Appear(u) ==
  /\ u \notin known
  /\ known' = known \cup {u}
  /\ UNCHANGED <<proc, logged, ctr, logVars, stateVars, pc, readVars, tellVars,
                 fault>>

Traffic(c) ==
  /\ c[1] \in known
  /\ ctr[c] < MaxCount
  /\ ctr' = [ctr EXCEPT ![c] = @ + 1]
  /\ UNCHANGED <<proc, logged, known, logVars, stateVars, pc, readVars,
                 tellVars, fault>>

\* The process ends and another one serves its counters, without any entry.
Restart ==
  /\ proc < MaxProcs
  /\ proc' = proc + 1
  /\ known' = {}
  /\ ctr' = Zero
  /\ UNCHANGED <<logged, logVars, stateVars, pc, readVars, tellVars, fault>>

\* "core: Xray <version> started" is written at the end of the start.
LogStart ==
  /\ proc \notin logged
  /\ Len(log) < MaxLog
  /\ log' = Append(log, proc)
  /\ logged' = logged \cup {proc}
  /\ UNCHANGED <<proc, known, ctr, file, stateVars, pc, readVars, tellVars,
                 fault>>

LogOther ==
  /\ Len(log) < MaxLog
  /\ log' = Append(log, 0)
  /\ UNCHANGED <<proc, logged, known, ctr, file, stateVars, pc, readVars,
                 tellVars, fault>>

\* Where the first line not yet read really is (ghost).
TrulyRead == IF posFile = file THEN pos ELSE 0

\* A start line is in the file that no reading has taken into account (ghost).
CutOff ==
  \/ prevProc # 0 /\ \E k \in TrulyRead + 1 .. Len(log) : log[k] > prevProc
  \/ pc = "scan" /\ \E k \in 1 .. Len(log) : log[k] > readProc

\* logrotate copies the log and truncates it: what was not read yet is gone.
Rotate ==
  /\ Len(log) > 0
  /\ file < MaxFiles
  /\ log' = <<>>
  /\ file' = file + 1
  /\ fault' = IF CutOff THEN fault \cup {"hidden"} ELSE fault
  /\ UNCHANGED <<proc, logged, known, ctr, stateVars, pc, readVars, tellVars>>

-----------------------------------------------------------------------------
(***************************************************************************)
(* The agent.                                                              *)
(***************************************************************************)

\* A reading that fails ends the cycle and changes nothing.
FetchMetrics ==
  /\ pc = "idle"
  /\ pc' = "scan"
  /\ readProc' = proc
  /\ readKnown' = known
  /\ readCtr' = ctr
  /\ UNCHANGED <<xrayVars, stateVars, tellVars, fault>>

\* log_startups reads from the stored offset, or from the start of a file that
\* is shorter than it, and at most MaxScan lines.
ScanFrom == IF Len(log) < pos THEN 0 ELSE pos

ScanTo == IF Len(log) - ScanFrom > MaxScan THEN ScanFrom + MaxScan ELSE Len(log)

NeverStarted == FALSE

\* Of a log without a position only the end is recorded.
Started == posFile # 0 /\ \E k \in ScanFrom + 1 .. ScanTo : log[k] # 0

EveryUserFell(started) ==
  \/ started
  \/ /\ prevKnown # {}
     /\ \A u \in prevKnown :
          \/ u \notin readKnown
          \/ \E d \in Directions : readCtr[<<u, d>>] < prevCtr[<<u, d>>]

\* traffic_delta; started is what the log said
Restarted(started) ==
  \/ started
  \/ \E u \in prevKnown : u \notin readKnown
  \/ \E c \in Counters : readCtr[c] < prevCtr[c]

Increment(c, started) ==
  IF Restarted(started) THEN readCtr[c] ELSE readCtr[c] - prevCtr[c]

TrueIncrement(c) ==
  IF readProc # prevProc THEN readCtr[c] ELSE readCtr[c] - prevCtr[c]

\* Ghost: the ways the counters and the log can tell of different times.  A start
\* line is written around the reading, or is beyond the limit of the scan; it is
\* where no scan will come, or the cycle that should find it cannot read the log.
Raced == readProc \notin logged \/ \E k \in 1 .. Len(log) : log[k] > readProc
Behind == posFile # 0 /\ \E k \in ScanTo + 1 .. Len(log) : log[k] # 0
Missed ==
  \E k \in TrulyRead + 1 .. Len(log) : prevProc < log[k] /\ log[k] <= readProc
Hidden ==
  IF posFile = 0
    THEN Missed
    ELSE posFile # file /\ \E k \in 1 .. ScanFrom : log[k] # 0

ScanFaults ==
  (IF Raced THEN {"raced"} ELSE {}) \cup
  (IF prevProc # 0 /\ Behind THEN {"behind"} ELSE {}) \cup
  (IF prevProc # 0 /\ Hidden THEN {"hidden"} ELSE {})

FailFaults ==
  (IF readProc \notin logged THEN {"raced"} ELSE {}) \cup
  (IF prevProc # 0 /\ Missed
     THEN {IF posFile = 0 THEN "hidden" ELSE "unread"} ELSE {})

PositionNotMoved ==
  /\ pos' = IF posFile = 0 THEN Len(log) ELSE pos
  /\ posFile' = file

StatePosition ==
  /\ pos' = IF posFile = 0 THEN Len(log) ELSE ScanTo
  /\ posFile' = file

\* The reading is gone with the cycle.
Forget == pc' = "idle" /\ readProc' = 0 /\ readKnown' = {} /\ readCtr' = Zero

\* The rest of collect, and save_state: without a previous reading the counters
\* only become the baseline.
Report(started) ==
  /\ pc = "scan"
  /\ IF prevProc = 0
       THEN UNCHANGED tellVars
       ELSE /\ counted' = [c \in Counters |-> counted[c] + Increment(c, started)]
            /\ ideal' = [c \in Counters |-> ideal[c] + TrueIncrement(c)]
            /\ restarts' = IF Restarted(started) THEN restarts + 1 ELSE restarts
            /\ changes' = IF readProc # prevProc THEN changes + 1 ELSE changes
  /\ prevProc' = readProc
  /\ prevKnown' = readKnown
  /\ prevCtr' = readCtr
  /\ Forget
  /\ UNCHANGED xrayVars

ScanAndReport ==
  /\ Report(Started)
  /\ StatePosition
  /\ fault' = fault \cup ScanFaults

\* The log cannot be opened or read: no restart seen, the position stays.
ScanFails ==
  /\ Report(FALSE)
  /\ fault' = fault \cup FailFaults
  /\ UNCHANGED <<pos, posFile>>

\* The agent stops between the reading and the state file; the report made in
\* between, if any, is made again under the same number.
Crash ==
  /\ pc = "scan"
  /\ Forget
  /\ UNCHANGED <<xrayVars, stateVars, tellVars, fault>>

LoseState ==
  /\ pc = "idle"
  /\ prevProc # 0
  /\ prevProc' = 0
  /\ prevKnown' = {}
  /\ prevCtr' = Zero
  /\ pos' = 0
  /\ posFile' = 0
  /\ UNCHANGED <<xrayVars, pc, readVars, tellVars, fault>>

-----------------------------------------------------------------------------
Xray ==
  \/ \E u \in Users : Appear(u)
  \/ \E c \in Counters : Traffic(c)
  \/ Restart \/ LogStart \/ LogOther

Agent == FetchMetrics \/ ScanAndReport \/ ScanFails \/ Crash \/ LoseState

Next == Xray \/ Rotate \/ Agent

Spec == Init /\ [][Next]_vars

-----------------------------------------------------------------------------
(***************************************************************************)
(* Safety.                                                                 *)
(***************************************************************************)

\* The increments reported add up to the traffic of every process as read, and
\* exactly the readings from a new process say that Xray restarted, as long as
\* no start line was written around a reading, left for the next cycle by the
\* scan limit, lost to a truncation or to a log not yet readable when the agent
\* started, or due in a cycle that could not read the log (collect,
\* log_startups, traffic_delta).
CountsExactly == fault = {} => counted = ideal /\ restarts = changes

\* No report takes traffic back, whatever the log says or hides: one user whose
\* counters fell or are gone tells of the restart for all.  And a start line that
\* is lost never makes the agent count too much: whole counters are reported
\* twice only when a start line is read with a reading of the same process as
\* the last one.
CountsNoMore ==
  \A c \in Counters :
    /\ counted[c] >= 0
    /\ fault \subseteq {"hidden"} => counted[c] <= ideal[c]
=============================================================================
