---------------------------- MODULE ReportLedger ----------------------------
(***************************************************************************)
(* What the report pipeline promises, without files, messages or retries:  *)
(* a node makes reports, a report stays open until the console counts its  *)
(* traffic, and the console counts each report at most once.  A report may *)
(* also be given up (dropped by a full spool, replaced after a crash); it  *)
(* is then never counted.  Nothing is closed without being counted or      *)
(* given up.                                                               *)
(***************************************************************************)
EXTENDS Naturals

CONSTANT Ids            \* the reports that may be made

VARIABLES
  open,                 \* reports made and neither counted nor given up
  tally                 \* tally[i]: how many times the traffic of i is counted

ledger == <<open, tally>>

LedgerInit ==
  /\ open = {}
  /\ tally = [i \in Ids |-> 0]

\* A report is made; making it may give up an open one it replaces.
Make ==
  \E i \in Ids, gone \in SUBSET open :
    /\ i \notin open
    /\ tally[i] = 0
    /\ open' = (open \ gone) \cup {i}
    /\ UNCHANGED tally

\* The console counts an open report: it had never been counted before.
Count(i) ==
  /\ i \in open
  /\ tally[i] = 0
  /\ tally' = [tally EXCEPT ![i] = 1]
  /\ open' = open \ {i}

GiveUpOn ==
  \E gone \in SUBSET open :
    /\ open' = open \ gone
    /\ UNCHANGED tally

LedgerNext == Make \/ GiveUpOn \/ \E i \in Ids : Count(i)

LedgerSpec == LedgerInit /\ [][LedgerNext]_ledger
=============================================================================
