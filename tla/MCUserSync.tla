----------------------------- MODULE MCUserSync -----------------------------
(***************************************************************************)
(* UserSync for TLC: four users, one of them the status probe account.     *)
(***************************************************************************)
EXTENDS UserSync

CONSTANTS a, b, c, probe

MCUsers == {a, b, c, probe}
MCKeep == {probe}

UserList(x, y, z, p) ==
  [u \in MCUsers |-> CASE u = a -> x [] u = b -> y [] u = c -> z [] u = probe -> p]

MCDeployed == UserList(1, 1, 0, 1)

\* The deployed users; a user rotated, one added and the probe account listed;
\* most users gone; nobody left.
MCLists ==
  {UserList(1, 1, 0, 0), UserList(2, 1, 1, 2), UserList(1, 0, 0, 0), UserList(0, 0, 0, 0)}
=============================================================================
