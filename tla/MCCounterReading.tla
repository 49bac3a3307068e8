--------------------------- MODULE MCCounterReading ---------------------------
(***************************************************************************)
(* CounterReading for TLC: users are only told apart by their counters.    *)
(***************************************************************************)
EXTENDS CounterReading, TLC

SameUsers == Permutations(Users)
=============================================================================
