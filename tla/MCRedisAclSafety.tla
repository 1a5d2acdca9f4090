-------------------------- MODULE MCRedisAclSafety --------------------------
(***************************************************************************)
(* A small instance of RedisAclSafety for TLC: production behind its own   *)
(* port and behind a forwarded one, and a test server.                     *)
(***************************************************************************)
EXTENDS RedisAclSafety, TLC

CONSTANTS c1, n1, n2, u1, u2

Target == [production |-> "prod", forwarded |-> "prod", scratch |-> "test"]

NonceAndIdentitySymmetry == Permutations({n1, n2}) \cup Permutations({u1, u2})
=============================================================================
