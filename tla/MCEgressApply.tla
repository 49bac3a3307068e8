---------------------------- MODULE MCEgressApply ----------------------------
(***************************************************************************)
(* EgressApply for TLC: two egress; one assignment that falls back to      *)
(* direct, one with UDP that blocks, one for websites that blocks QUIC.    *)
(***************************************************************************)
EXTENDS EgressApply

MCPool ==
  << [egress |-> 1, on_failure |-> "direct", udp |-> "no", rules |-> <<"egress">>],
     [egress |-> 1, on_failure |-> "block", udp |-> "yes", rules |-> <<"egress">>],
     [egress |-> 2, on_failure |-> "block", udp |-> "no", rules |-> <<"egress", "block">>] >>
=============================================================================
