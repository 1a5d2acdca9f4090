-------------------------- MODULE MCSecurityAlerts --------------------------
(***************************************************************************)
(* A small instance of SecurityAlerts for TLC.                             *)
(***************************************************************************)
EXTENDS SecurityAlerts, TLC

CONSTANTS w1, api, c1, c2

CallerSymmetry == Permutations({c1, c2})

(* A check that finds MySQL unreachable and nothing else.                  *)
Outages ==
  {[redis |-> TRUE, consumers |-> "some", persistence |-> FALSE, over |-> {}]}
=============================================================================
