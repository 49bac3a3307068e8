------------------------ MODULE CounterReadingProofs ------------------------
(***************************************************************************)
(* Proofs about CounterReading for any counters and any bounds, the scan   *)
(* limit included.                                                         *)
(***************************************************************************)
EXTENDS CounterReading, TLAPS

-----------------------------------------------------------------------------
(***************************************************************************)
(* The inductive invariant.                                                *)
(***************************************************************************)

LogIsOrdinary ==
  /\ \A k \in 1 .. Len(log) : log[k] # 0 => log[k] \in logged
  /\ \A p \in logged : p <= proc
  /\ posFile <= file /\ file # 0
  /\ posFile = file => pos <= Len(log)
  /\ posFile # 0 => prevProc # 0

ReadingsGrow ==
  /\ prevProc <= proc
  /\ prevProc = proc =>
       prevKnown \subseteq known /\ \A c \in Counters : prevCtr[c] <= ctr[c]
  /\ pc = "scan" =>
       /\ prevProc <= readProc /\ readProc <= proc /\ readProc # 0
       /\ readProc = proc =>
            readKnown \subseteq known /\ \A c \in Counters : readCtr[c] <= ctr[c]
       /\ readProc = prevProc =>
            /\ prevKnown \subseteq readKnown
            /\ \A c \in Counters : prevCtr[c] <= readCtr[c]

\* What the log has still to say is about processes not yet read ...
UnreadIsNewer ==
  posFile # 0 /\ fault \subseteq {"hidden"} =>
    /\ prevProc \in logged
    /\ \A k \in TrulyRead + 1 .. Len(log) : log[k] # 0 => log[k] > prevProc

\* ... and about every one of them that said it started.
NewerIsUnread ==
  prevProc # 0 /\ fault = {} =>
    \A p \in logged : p > prevProc =>
      \E k \in TrulyRead + 1 .. Len(log) : log[k] = p

\* A process that started after the one just read still has its line in the log.
NewerIsLogged ==
  pc = "scan" /\ fault = {} =>
    \A p \in logged : p > readProc => \E k \in 1 .. Len(log) : log[k] = p

IInv ==
  /\ TypeOK /\ LogIsOrdinary /\ ReadingsGrow
  /\ UnreadIsNewer /\ NewerIsUnread /\ NewerIsLogged
  /\ CountsExactly /\ CountsNoMore

USE CountersAssumption

\* The initial state satisfies the inductive invariant.
LEMMA InitIInv == Init => IInv
<1> SUFFICES ASSUME Init PROVE IInv
  OBVIOUS
<1>1. log \in Seq(Nat) /\ Len(log) = 1 /\ log[1] = 1
  BY DEF Init
<1>2. Zero \in [Counters -> Nat]
  BY DEF Zero
<1>3. TypeOK
  BY <1>1, <1>2 DEF Init, TypeOK
<1>4. LogIsOrdinary /\ ReadingsGrow
  BY <1>1 DEF Init, LogIsOrdinary, ReadingsGrow
<1>5. UnreadIsNewer /\ NewerIsUnread /\ NewerIsLogged /\ CountsExactly /\ CountsNoMore
  BY <1>2 DEF Init, UnreadIsNewer, NewerIsUnread, NewerIsLogged, CountsExactly,
         CountsNoMore, Zero
<1> QED
  BY <1>3, <1>4, <1>5 DEF IInv

\* What the rest of the invariant says of variables that do not change.
LEMMA StutterStep == IInv /\ UNCHANGED vars => IInv'
BY DEF IInv, vars, xrayVars, logVars, stateVars, readVars, tellVars, TypeOK, LogIsOrdinary,
       ReadingsGrow, UnreadIsNewer, NewerIsUnread, NewerIsLogged, CountsExactly,
       CountsNoMore, TrulyRead

\* Traffic raises a counter of the process that runs.
LEMMA TrafficStep ==
  ASSUME IInv, NEW c \in Counters, Traffic(c) PROVE IInv'
<1> USE DEF IInv, Traffic, logVars, stateVars, readVars, tellVars
<1>1. TypeOK'
  BY DEF TypeOK
<1>2. \A d \in Counters : ctr[d] <= ctr'[d]
  BY DEF TypeOK
<1>3. LogIsOrdinary'
  BY DEF LogIsOrdinary
<1>4. ReadingsGrow'
  <2>1. \A x \in [Counters -> Nat] :
          (\A d \in Counters : x[d] <= ctr[d]) => \A d \in Counters : x[d] <= ctr'[d]
    BY <1>1, <1>2 DEF TypeOK
  <2> QED
    BY <2>1 DEF ReadingsGrow, TypeOK
<1>5. UnreadIsNewer' /\ NewerIsUnread' /\ NewerIsLogged'
  BY DEF UnreadIsNewer, NewerIsUnread, NewerIsLogged, TrulyRead
<1>6. CountsExactly' /\ CountsNoMore'
  BY DEF CountsExactly, CountsNoMore
<1> QED
  BY <1>1, <1>3, <1>4, <1>5, <1>6

\* An entry is added to those of the process that runs.
LEMMA AppearStep ==
  ASSUME IInv, NEW u \in Users, Appear(u) PROVE IInv'
<1> USE DEF IInv, Appear, logVars, stateVars, readVars, tellVars
<1>1. TypeOK' /\ LogIsOrdinary'
  BY DEF TypeOK, LogIsOrdinary
<1>2. ReadingsGrow'
  BY DEF ReadingsGrow
<1>3. UnreadIsNewer' /\ NewerIsUnread' /\ NewerIsLogged'
  BY DEF UnreadIsNewer, NewerIsUnread, NewerIsLogged, TrulyRead
<1>4. CountsExactly' /\ CountsNoMore'
  BY DEF CountsExactly, CountsNoMore
<1> QED
  BY <1>1, <1>2, <1>3, <1>4

\* A new process is newer than every reading.
LEMMA RestartStep == IInv /\ Restart => IInv'
<1> SUFFICES ASSUME IInv, Restart PROVE IInv'
  OBVIOUS
<1> USE DEF IInv, Restart, logVars, stateVars, readVars, tellVars
<1>1. TypeOK'
  BY DEF TypeOK, Zero
<1>2. LogIsOrdinary'
  BY DEF LogIsOrdinary, TypeOK
<1>3. ReadingsGrow'
  BY DEF ReadingsGrow, TypeOK
<1>4. UnreadIsNewer' /\ NewerIsUnread' /\ NewerIsLogged'
  BY DEF UnreadIsNewer, NewerIsUnread, NewerIsLogged, TrulyRead
<1>5. CountsExactly' /\ CountsNoMore'
  BY DEF CountsExactly, CountsNoMore
<1> QED
  BY <1>1, <1>2, <1>3, <1>4, <1>5

\* A line is appended: it is a start line of the running process, or another line.
LEMMA AppendStep ==
  ASSUME IInv, LogStart \/ LogOther PROVE IInv'
<1> DEFINE line == IF LogStart THEN proc ELSE 0
<1>1. /\ log \in Seq(Nat) /\ line \in Nat /\ log' = Append(log, line)
      /\ UNCHANGED <<proc, known, ctr, file, stateVars, pc, readVars, tellVars, fault>>
  BY DEF IInv, TypeOK, LogStart, LogOther
<1>2. /\ log' \in Seq(Nat) /\ Len(log) \in Nat /\ Len(log') = Len(log) + 1
      /\ \A k \in 1 .. Len(log) : log'[k] = log[k]
      /\ log'[Len(log) + 1] = line
      /\ \A k \in 1 .. Len(log) : log[k] \in Nat
  BY <1>1
<1>3. /\ logged \in SUBSET Nat /\ logged' \in SUBSET Nat /\ logged \subseteq logged'
      /\ \A p \in logged' : p \in logged \/ (p = proc /\ line = proc)
      /\ line # 0 => line = proc /\ proc \in logged' /\ proc \notin logged
  BY DEF IInv, TypeOK, LogStart, LogOther
<1>4. TypeOK'
  BY <1>1, <1>2, <1>3 DEF IInv, TypeOK, stateVars, readVars, tellVars
<1>5. LogIsOrdinary'
  BY <1>1, <1>2, <1>3 DEF IInv, TypeOK, LogIsOrdinary, stateVars
<1>6. ReadingsGrow'
  BY <1>1 DEF IInv, ReadingsGrow, stateVars, readVars
<1>7. UNCHANGED TrulyRead /\ TrulyRead \in Nat
  BY <1>1 DEF TrulyRead, stateVars, IInv, TypeOK
<1>8. UnreadIsNewer'
  <2> SUFFICES ASSUME posFile # 0, fault \subseteq {"hidden"}
      PROVE /\ prevProc \in logged'
            /\ \A k \in TrulyRead + 1 .. Len(log') : log'[k] # 0 => log'[k] > prevProc
    BY <1>1, <1>7 DEF UnreadIsNewer, stateVars
  <2>1. /\ prevProc \in logged
        /\ \A k \in TrulyRead + 1 .. Len(log) : log[k] # 0 => log[k] > prevProc
    BY DEF IInv, UnreadIsNewer
  <2>2. line # 0 => line > prevProc
    BY <1>3, <2>1 DEF IInv, ReadingsGrow, LogIsOrdinary, TypeOK
  <2> QED
    BY <1>2, <1>3, <1>7, <2>1, <2>2
<1>9. NewerIsUnread'
  <2> SUFFICES ASSUME prevProc # 0, fault = {}, NEW p \in logged', p > prevProc
      PROVE \E k \in TrulyRead + 1 .. Len(log') : log'[k] = p
    BY <1>1, <1>7 DEF NewerIsUnread, stateVars
  <2>1. CASE p \in logged
    BY <2>1, <1>2, <1>7 DEF IInv, NewerIsUnread
  <2>2. CASE p = proc /\ line = proc
    <3>1. TrulyRead <= Len(log)
      BY <1>2 DEF TrulyRead, IInv, LogIsOrdinary
    <3> QED
      BY <2>2, <3>1, <1>2, <1>7
  <2> QED
    BY <2>1, <2>2, <1>3
<1>10. NewerIsLogged'
  <2> SUFFICES ASSUME pc = "scan", fault = {}, NEW p \in logged', p > readProc
      PROVE \E k \in 1 .. Len(log') : log'[k] = p
    BY <1>1 DEF NewerIsLogged, readVars
  <2>1. CASE p \in logged
    BY <2>1, <1>2 DEF IInv, NewerIsLogged
  <2>2. CASE p = proc /\ line = proc
    BY <2>2, <1>2
  <2> QED
    BY <2>1, <2>2, <1>3
<1>11. CountsExactly' /\ CountsNoMore'
  BY <1>1 DEF IInv, CountsExactly, CountsNoMore, tellVars
<1> QED
  BY <1>4, <1>5, <1>6, <1>8, <1>9, <1>10, <1>11 DEF IInv

\* A truncation either cuts off a start line, which is a fault, or loses nothing.
LEMMA RotateStep == IInv /\ Rotate => IInv'
<1> SUFFICES ASSUME IInv, Rotate PROVE IInv'
  OBVIOUS
<1>1. /\ log' = <<>> /\ file' = file + 1
      /\ UNCHANGED <<proc, logged, known, ctr, stateVars, pc, readVars, tellVars>>
  BY DEF Rotate
<1>2. log' \in Seq(Nat) /\ Len(log') = 0
  BY <1>1
<1>3. fault' \in {fault, fault \cup {"hidden"}} /\ fault \subseteq fault'
  BY DEF Rotate
<1>4. TypeOK'
  BY <1>1, <1>2, <1>3 DEF IInv, TypeOK, stateVars, readVars, tellVars
<1>5. LogIsOrdinary'
  BY <1>1, <1>2 DEF IInv, TypeOK, LogIsOrdinary, stateVars
<1>6. ReadingsGrow'
  BY <1>1 DEF IInv, ReadingsGrow, stateVars, readVars
<1>7. UnreadIsNewer'
  BY <1>1, <1>2, <1>3 DEF IInv, UnreadIsNewer, TrulyRead, TypeOK, stateVars
<1>8. NewerIsUnread'
  <2> SUFFICES ASSUME prevProc # 0, fault' = {}, NEW p \in logged, p > prevProc
      PROVE FALSE
    BY <1>1 DEF NewerIsUnread, stateVars
  <2>1. fault = {} /\ ~CutOff
    BY DEF Rotate
  <2>2. PICK k \in TrulyRead + 1 .. Len(log) : log[k] = p
    BY <2>1 DEF IInv, NewerIsUnread
  <2> QED
    BY <2>1, <2>2 DEF CutOff, IInv, TypeOK
<1>9. NewerIsLogged'
  <2> SUFFICES ASSUME pc = "scan", fault' = {}, NEW p \in logged, p > readProc
      PROVE FALSE
    BY <1>1 DEF NewerIsLogged, readVars
  <2>1. fault = {} /\ ~CutOff
    BY DEF Rotate
  <2>2. PICK k \in 1 .. Len(log) : log[k] = p
    BY <2>1 DEF IInv, NewerIsLogged
  <2> QED
    BY <2>1, <2>2 DEF CutOff
<1>10. CountsExactly' /\ CountsNoMore'
  BY <1>1, <1>3 DEF IInv, CountsExactly, CountsNoMore, tellVars
<1> QED
  BY <1>4, <1>5, <1>6, <1>7, <1>8, <1>9, <1>10 DEF IInv

\* The counters read are those of the running process.
LEMMA FetchStep == IInv /\ FetchMetrics => IInv'
<1> SUFFICES ASSUME IInv, FetchMetrics PROVE IInv'
  OBVIOUS
<1> USE DEF IInv, FetchMetrics, xrayVars, logVars, stateVars, tellVars
<1>1. TypeOK'
  BY DEF TypeOK
<1>2. LogIsOrdinary' /\ UnreadIsNewer' /\ NewerIsUnread'
  BY DEF LogIsOrdinary, UnreadIsNewer, NewerIsUnread, TrulyRead
<1>3. NewerIsLogged'
  BY DEF NewerIsLogged, LogIsOrdinary, TypeOK
<1>4. ReadingsGrow'
  BY DEF ReadingsGrow, TypeOK
<1>5. CountsExactly' /\ CountsNoMore'
  BY DEF CountsExactly, CountsNoMore
<1> QED
  BY <1>1, <1>2, <1>3, <1>4, <1>5

\* The agent stops: nothing is reported.
LEMMA CrashStep == IInv /\ Crash => IInv'
<1> SUFFICES ASSUME IInv, Crash PROVE IInv'
  OBVIOUS
<1> USE DEF IInv, Crash, Forget, xrayVars, logVars, stateVars, tellVars
<1>1. TypeOK'
  BY DEF TypeOK, Zero
<1>2. LogIsOrdinary' /\ UnreadIsNewer' /\ NewerIsUnread' /\ NewerIsLogged'
  BY DEF LogIsOrdinary, UnreadIsNewer, NewerIsUnread, NewerIsLogged, TrulyRead
<1>3. ReadingsGrow'
  BY DEF ReadingsGrow
<1>4. CountsExactly' /\ CountsNoMore'
  BY DEF CountsExactly, CountsNoMore
<1> QED
  BY <1>1, <1>2, <1>3, <1>4

\* Without a state file there is no last reading to disagree with.
LEMMA LoseStep == IInv /\ LoseState => IInv'
<1> SUFFICES ASSUME IInv, LoseState PROVE IInv'
  OBVIOUS
<1> USE DEF IInv, LoseState, xrayVars, logVars, readVars, tellVars
<1>1. TypeOK'
  BY DEF TypeOK, Zero
<1>2. LogIsOrdinary'
  BY DEF LogIsOrdinary, TypeOK
<1>3. UnreadIsNewer' /\ NewerIsUnread' /\ NewerIsLogged'
  BY DEF UnreadIsNewer, NewerIsUnread, NewerIsLogged
<1>4. ReadingsGrow'
  BY DEF ReadingsGrow, TypeOK, Zero
<1>5. CountsExactly' /\ CountsNoMore'
  BY DEF CountsExactly, CountsNoMore
<1> QED
  BY <1>1, <1>2, <1>3, <1>4, <1>5

\* The scan stays within the file.
LEMMA ScanRange ==
  ASSUME TypeOK
  PROVE  /\ ScanFrom \in Nat /\ ScanTo \in Nat /\ Len(log) \in Nat
         /\ ScanFrom <= ScanTo /\ ScanTo <= Len(log)
         /\ \A k \in 1 .. Len(log) : log[k] \in Nat
BY DEF TypeOK, ScanFrom, ScanTo

\* No counter is reported negative.
LEMMA IncrementsAreNat ==
  ASSUME IInv, pc = "scan", NEW c \in Counters, NEW started \in BOOLEAN
  PROVE  /\ Increment(c, started) \in Nat /\ TrueIncrement(c) \in Nat
         /\ readProc # prevProc => Increment(c, started) <= TrueIncrement(c)
         /\ readProc # prevProc /\ Restarted(started)
              => Increment(c, started) = TrueIncrement(c)
         /\ readProc = prevProc /\ ~Restarted(started)
              => Increment(c, started) = TrueIncrement(c)
<1>1. readCtr[c] \in Nat /\ prevCtr[c] \in Nat
  BY DEF IInv, TypeOK
<1>2. readProc = prevProc => prevCtr[c] <= readCtr[c]
  BY DEF IInv, ReadingsGrow
<1>3. ~Restarted(started) => prevCtr[c] <= readCtr[c]
  BY <1>1 DEF Restarted, IInv, TypeOK
<1> QED
  BY <1>1, <1>2, <1>3 DEF Increment, TrueIncrement

\* The counters of one process say nothing of a restart.
LEMMA SameProcessGrows ==
  ASSUME IInv, pc = "scan", readProc = prevProc
  PROVE  ~Restarted(FALSE)
<1>1. ASSUME NEW c \in Counters PROVE ~(readCtr[c] < prevCtr[c])
  <2>1. readCtr[c] \in Nat /\ prevCtr[c] \in Nat
    BY DEF IInv, TypeOK
  <2>2. prevCtr[c] <= readCtr[c]
    BY DEF IInv, ReadingsGrow
  <2> QED
    BY <2>1, <2>2
<1>2. prevKnown \subseteq readKnown
  BY DEF IInv, ReadingsGrow
<1> QED
  BY <1>1, <1>2 DEF Restarted

\* A scan that is not raced finds no start line when the process is the one of
\* the last reading.
LEMMA SameProcessIsQuiet ==
  ASSUME IInv, pc = "scan", fault \subseteq {"hidden"}, ~Raced, readProc = prevProc
  PROVE  ~Started
<1> SUFFICES ASSUME posFile # 0, NEW k \in ScanFrom + 1 .. ScanTo, log[k] # 0 PROVE FALSE
  BY DEF Started
<1>1. TrulyRead <= ScanFrom
  BY ScanRange DEF TrulyRead, ScanFrom, IInv, LogIsOrdinary, TypeOK
<1>2. k \in TrulyRead + 1 .. Len(log) /\ k \in 1 .. Len(log)
  BY <1>1, ScanRange DEF TrulyRead, IInv, TypeOK
<1>3. log[k] > prevProc
  BY <1>2 DEF IInv, UnreadIsNewer
<1> QED
  BY <1>2, <1>3 DEF Raced

\* The start line of a process not read before is in the log and not yet read.
LEMMA NewProcessIsUnread ==
  ASSUME IInv, pc = "scan", prevProc # 0, fault = {}, readProc \in logged,
         readProc # prevProc
  PROVE  /\ readProc > prevProc /\ readProc # 0
         /\ \E k \in TrulyRead + 1 .. Len(log) : log[k] = readProc
         /\ Missed
<1>1. readProc > prevProc /\ readProc # 0
  BY DEF IInv, ReadingsGrow, TypeOK
<1>2. PICK k \in TrulyRead + 1 .. Len(log) : log[k] = readProc
  BY <1>1 DEF IInv, NewerIsUnread
<1>3. prevProc < readProc /\ readProc <= readProc
  BY <1>1 DEF IInv, TypeOK
<1>4. Missed
  BY <1>2, <1>3 DEF Missed
<1> QED
  BY <1>1, <1>2, <1>4

\* A scan without a fault finds the start line of a process not read before.
LEMMA NewProcessIsSeen ==
  ASSUME IInv, pc = "scan", prevProc # 0, fault = {}, ~Raced, ~Behind, ~Hidden,
         readProc # prevProc
  PROVE  Started
<1>1. readProc \in logged
  BY DEF Raced
<1>2. readProc # 0 /\ Missed
  BY <1>1, NewProcessIsUnread
<1>3. posFile # 0
  BY <1>2 DEF Hidden
<1>4. PICK k \in TrulyRead + 1 .. Len(log) : log[k] = readProc
  BY <1>1, NewProcessIsUnread
<1>5. k \in 1 .. Len(log) /\ TrulyRead \in Nat
  BY <1>4, ScanRange DEF TrulyRead, IInv, TypeOK
<1>6. k > ScanFrom
  <2>1. CASE posFile = file
    BY <2>1, <1>4, <1>5, ScanRange DEF TrulyRead, ScanFrom, IInv, LogIsOrdinary, TypeOK
  <2>2. CASE posFile # file
    BY <2>2, <1>2, <1>3, <1>4, <1>5, ScanRange DEF Hidden, IInv
  <2> QED
    BY <2>1, <2>2
<1>7. k <= ScanTo
  BY <1>2, <1>3, <1>4, <1>5, ScanRange DEF Behind, IInv
<1> QED
  BY <1>2, <1>3, <1>4, <1>5, <1>6, <1>7, ScanRange DEF Started, IInv

\* What a report adds is right when it tells a restart from none: with no fault
\* both ways, and with start lines lost at least never without a restart.
LEMMA ReportCounts ==
  ASSUME IInv, NEW started \in BOOLEAN, Report(started), fault \subseteq fault',
         /\ prevProc # 0 /\ readProc = prevProc /\ fault' \subseteq {"hidden"}
              => ~Restarted(started),
         /\ prevProc # 0 /\ readProc # prevProc /\ fault' = {}
              => Restarted(started)
  PROVE  /\ (counted \in [Counters -> Nat] /\ ideal \in [Counters -> Nat]
               /\ restarts \in Nat /\ changes \in Nat)'
         /\ CountsExactly' /\ CountsNoMore'
<1>1. TypeOK /\ pc = "scan"
  BY DEF IInv, Report
<1>2. CASE prevProc = 0
  <2>1. UNCHANGED tellVars
    BY <1>2 DEF Report
  <2> QED
    BY <2>1, <1>1 DEF IInv, CountsExactly, CountsNoMore, tellVars, TypeOK
<1>3. CASE prevProc # 0
  <2>1. /\ counted' = [c \in Counters |-> counted[c] + Increment(c, started)]
        /\ ideal' = [c \in Counters |-> ideal[c] + TrueIncrement(c)]
        /\ restarts' = IF Restarted(started) THEN restarts + 1 ELSE restarts
        /\ changes' = IF readProc # prevProc THEN changes + 1 ELSE changes
    BY <1>3 DEF Report
  <2>2. \A c \in Counters : Increment(c, started) \in Nat /\ TrueIncrement(c) \in Nat
    BY <1>1, IncrementsAreNat
  <2>3. (counted \in [Counters -> Nat] /\ ideal \in [Counters -> Nat]
          /\ restarts \in Nat /\ changes \in Nat)'
    BY <2>1, <2>2, <1>1 DEF TypeOK
  <2>4. CountsExactly'
    <3> SUFFICES ASSUME fault' = {}
        PROVE counted' = ideal' /\ restarts' = changes'
      BY DEF CountsExactly
    <3>1. counted = ideal /\ restarts = changes
      BY DEF IInv, CountsExactly
    <3>2. Restarted(started) <=> readProc # prevProc
      BY <1>3
    <3>3. \A c \in Counters : Increment(c, started) = TrueIncrement(c)
      BY <3>2, <1>1, IncrementsAreNat
    <3> QED
      BY <2>1, <3>1, <3>2, <3>3
  <2>5. CountsNoMore'
    <3> SUFFICES ASSUME NEW c \in Counters
        PROVE counted'[c] >= 0 /\ (fault' \subseteq {"hidden"} => counted'[c] <= ideal'[c])
      BY DEF CountsNoMore
    <3>1. counted'[c] >= 0
      BY <2>3
    <3>2. ASSUME fault' \subseteq {"hidden"} PROVE counted'[c] <= ideal'[c]
      <4>1. counted[c] <= ideal[c] /\ counted[c] \in Nat /\ ideal[c] \in Nat
        BY <3>2, <1>1 DEF IInv, CountsNoMore, TypeOK
      <4>2. readProc = prevProc => ~Restarted(started)
        BY <3>2, <1>3
      <4>3. Increment(c, started) <= TrueIncrement(c)
        <5>1. CASE readProc # prevProc
          BY <5>1, <1>1, IncrementsAreNat
        <5>2. CASE readProc = prevProc
          BY <5>2, <4>2, <2>2, <1>1, IncrementsAreNat
        <5> QED
          BY <5>1, <5>2
      <4>4. counted'[c] = counted[c] + Increment(c, started)
              /\ ideal'[c] = ideal[c] + TrueIncrement(c)
        BY <2>1
      <4> QED
        BY <4>1, <4>3, <4>4, <2>2
    <3> QED
      BY <3>1, <3>2
  <2> QED
    BY <2>3, <2>4, <2>5
<1> QED
  BY <1>2, <1>3

\* The report is made with what the log says: the reading becomes the last one.
LEMMA ScanStep == IInv /\ ScanAndReport => IInv'
<1> SUFFICES ASSUME IInv, ScanAndReport PROVE IInv'
  OBVIOUS
<1>1. /\ pc = "scan" /\ pc' = "idle" /\ posFile' = file
      /\ prevProc' = readProc /\ prevKnown' = readKnown /\ prevCtr' = readCtr
      /\ readProc' = 0 /\ readKnown' = {} /\ readCtr' = Zero
      /\ UNCHANGED <<proc, logged, known, ctr, log, file>>
      /\ fault' = fault \cup ScanFaults
      /\ pos' = IF posFile = 0 THEN Len(log) ELSE ScanTo
  BY DEF ScanAndReport, Report, Forget, StatePosition, xrayVars, logVars
<1>2. /\ ScanFaults \subseteq {"raced", "behind", "hidden", "unread"}
      /\ fault' \subseteq {"hidden"} =>
           fault \subseteq {"hidden"} /\ ~Raced /\ (prevProc # 0 => ~Behind)
      /\ fault' = {} => fault = {} /\ ~Raced /\ (prevProc # 0 => ~Behind /\ ~Hidden)
  BY <1>1 DEF ScanFaults
<1>3. TypeOK
  BY DEF IInv
<1>4. /\ (counted \in [Counters -> Nat] /\ ideal \in [Counters -> Nat]
            /\ restarts \in Nat /\ changes \in Nat)'
      /\ CountsExactly' /\ CountsNoMore'
  <2>1. Started \in BOOLEAN /\ Report(Started)
    BY DEF Started, ScanAndReport
  <2>2. prevProc # 0 /\ readProc = prevProc /\ fault' \subseteq {"hidden"}
          => ~Restarted(Started)
    BY <1>1, <1>2, SameProcessIsQuiet, SameProcessGrows DEF Restarted
  <2>3. prevProc # 0 /\ readProc # prevProc /\ fault' = {} => Restarted(Started)
    BY <1>1, <1>2, NewProcessIsSeen DEF Restarted
  <2> QED
    BY <2>1, <2>2, <2>3, <1>1, ReportCounts
<1>5. TypeOK'
  BY <1>1, <1>2, <1>3, <1>4, ScanRange DEF TypeOK, Zero
<1>6. LogIsOrdinary'
  BY <1>1, <1>3, ScanRange DEF IInv, LogIsOrdinary, ReadingsGrow, TypeOK
<1>7. ReadingsGrow'
  BY <1>1 DEF IInv, ReadingsGrow
<1>8. UnreadIsNewer'
  <2> SUFFICES ASSUME fault' \subseteq {"hidden"}
      PROVE /\ readProc \in logged
            /\ \A k \in pos' + 1 .. Len(log) : log[k] = 0
    BY <1>1, <1>3 DEF UnreadIsNewer, TrulyRead, TypeOK
  <2>1. readProc \in logged
    BY <1>2 DEF Raced
  <2>2. CASE posFile = 0
    BY <2>1, <2>2, <1>1, <1>3, ScanRange
  <2>3. CASE posFile # 0
    BY <2>1, <2>3, <1>1, <1>2 DEF Behind, IInv, LogIsOrdinary
  <2> QED
    BY <2>2, <2>3
<1>9. NewerIsUnread'
  <2> SUFFICES ASSUME fault' = {}, NEW p \in logged, p > readProc
      PROVE FALSE
    BY <1>1 DEF NewerIsUnread
  <2>1. PICK k \in 1 .. Len(log) : log[k] = p
    BY <1>1, <1>2 DEF IInv, NewerIsLogged
  <2> QED
    BY <2>1, <1>2 DEF Raced
<1>10. NewerIsLogged'
  BY <1>1 DEF NewerIsLogged
<1> QED
  BY <1>4, <1>5, <1>6, <1>7, <1>8, <1>9, <1>10 DEF IInv

\* The report is made without the log: what it has still to say is left unread.
LEMMA ScanFailsStep == IInv /\ ScanFails => IInv'
<1> SUFFICES ASSUME IInv, ScanFails PROVE IInv'
  OBVIOUS
<1>1. /\ pc = "scan" /\ pc' = "idle"
      /\ prevProc' = readProc /\ prevKnown' = readKnown /\ prevCtr' = readCtr
      /\ readProc' = 0 /\ readKnown' = {} /\ readCtr' = Zero
      /\ UNCHANGED <<proc, logged, known, ctr, log, file, pos, posFile>>
      /\ fault' = fault \cup FailFaults
  BY DEF ScanFails, Report, Forget, xrayVars, logVars
<1>2. /\ FailFaults \subseteq {"raced", "behind", "hidden", "unread"}
      /\ fault' \subseteq {"hidden"} =>
           /\ fault \subseteq {"hidden"} /\ readProc \in logged
           /\ prevProc # 0 /\ posFile # 0 => ~Missed
      /\ fault' = {} => fault = {} /\ readProc \in logged /\ (prevProc # 0 => ~Missed)
  BY <1>1 DEF FailFaults
<1>3. TypeOK /\ UNCHANGED TrulyRead
  BY <1>1 DEF IInv, TrulyRead
<1>4. /\ (counted \in [Counters -> Nat] /\ ideal \in [Counters -> Nat]
            /\ restarts \in Nat /\ changes \in Nat)'
      /\ CountsExactly' /\ CountsNoMore'
  <2>1. FALSE \in BOOLEAN /\ Report(FALSE)
    BY DEF ScanFails
  <2>2. prevProc # 0 /\ readProc = prevProc /\ fault' \subseteq {"hidden"}
          => ~Restarted(FALSE)
    BY <1>1, SameProcessGrows
  <2>3. prevProc # 0 /\ readProc # prevProc /\ fault' = {} => Restarted(FALSE)
    BY <1>1, <1>2, NewProcessIsUnread
  <2> QED
    BY <2>1, <2>2, <2>3, <1>1, ReportCounts
<1>5. TypeOK'
  BY <1>1, <1>2, <1>3, <1>4 DEF TypeOK, Zero
<1>6. LogIsOrdinary'
  BY <1>1, <1>3 DEF IInv, LogIsOrdinary, ReadingsGrow, TypeOK
<1>7. ReadingsGrow'
  BY <1>1 DEF IInv, ReadingsGrow
<1>8. UnreadIsNewer'
  <2> SUFFICES ASSUME fault' \subseteq {"hidden"}, posFile # 0,
                      NEW k \in TrulyRead + 1 .. Len(log), log[k] # 0
      PROVE log[k] > readProc
    BY <1>1, <1>2, <1>3 DEF UnreadIsNewer
  <2>1. log[k] > prevProc /\ ~Missed
    BY <1>2 DEF IInv, UnreadIsNewer, LogIsOrdinary
  <2>2. TrulyRead \in Nat /\ Len(log) \in Nat
    BY <1>3, ScanRange DEF TypeOK, TrulyRead
  <2>3. log[k] \in Nat /\ prevProc \in Nat /\ readProc \in Nat
    BY <1>3, <2>2 DEF TypeOK
  <2> QED
    BY <2>1, <2>3 DEF Missed
<1>9. NewerIsUnread'
  <2> SUFFICES ASSUME fault' = {}, NEW p \in logged, p > readProc
      PROVE \E k \in TrulyRead + 1 .. Len(log) : log[k] = p
    BY <1>1, <1>3 DEF NewerIsUnread
  <2>1. CASE prevProc # 0
    <3>1. p > prevProc
      BY <1>1, <1>3 DEF IInv, ReadingsGrow, TypeOK
    <3> QED
      BY <2>1, <3>1, <1>2 DEF IInv, NewerIsUnread
  <2>2. CASE prevProc = 0
    <3>1. TrulyRead = 0
      BY <2>2 DEF IInv, LogIsOrdinary, TrulyRead
    <3> QED
      BY <3>1, <1>1, <1>2 DEF IInv, NewerIsLogged
  <2> QED
    BY <2>1, <2>2
<1>10. NewerIsLogged'
  BY <1>1 DEF NewerIsLogged
<1> QED
  BY <1>4, <1>5, <1>6, <1>7, <1>8, <1>9, <1>10 DEF IInv

\* IInv holds throughout every behaviour of the agent, Xray and logrotate.
THEOREM Invariance == Spec => []IInv
<1>1. IInv /\ [Next]_vars => IInv'
  BY AppearStep, TrafficStep, RestartStep, AppendStep, RotateStep, FetchStep, ScanStep,
     ScanFailsStep, CrashStep, LoseStep, StutterStep DEF Next, Xray, Agent
<1> QED
  BY InitIInv, <1>1, PTL DEF Spec

\* Every variable keeps its type; no increment is ever negative.
THEOREM TypeCorrect == Spec => []TypeOK
<1>1. IInv => TypeOK
  BY DEF IInv
<1> QED
  BY Invariance, <1>1, PTL

\* Without a start line at the wrong time and with the log read in every cycle that
\* has one to find, the traffic reported is exactly the traffic read, and the
\* restarts reported are exactly the restarts read.
THEOREM ExactCounting == Spec => []CountsExactly
<1>1. IInv => CountsExactly
  BY DEF IInv
<1> QED
  BY Invariance, <1>1, PTL

\* No report takes traffic back, and start lines that are lost never make the
\* agent report too much.
THEOREM NoOvercount == Spec => []CountsNoMore
<1>1. IInv => CountsNoMore
  BY DEF IInv
<1> QED
  BY Invariance, <1>1, PTL
=============================================================================
