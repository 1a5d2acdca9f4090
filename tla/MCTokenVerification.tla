------------------------ MODULE MCTokenVerification -------------------------
(***************************************************************************)
(* A small instance of TokenVerification for TLC: two keys, a token of     *)
(* each, one with the shared secret that may be revoked, and one that      *)
(* names a published key but is not signed with it, or is a refresh token. *)
(***************************************************************************)
EXTENDS TokenVerification, TLC

CONSTANTS t1, t2, k1, k2, j1

Token(alg, kid, signer, exp, claims, jti) ==
  [alg |-> alg, kid |-> kid, signer |-> signer, exp |-> exp, claims |-> claims, jti |-> jti]

FewTokens ==
  {Token("RS256", k1, k1, MaxTime + 1, TRUE, None),
   Token("RS256", k2, k2, MaxTime + 1, TRUE, None),
   Token("RS256", k1, None, MaxTime + 1, TRUE, None),
   Token("HS256", None, Secret, 2, TRUE, j1),
   Token("HS256", None, Secret, MaxTime + 1, FALSE, None)}

ThreadSymmetry == Permutations({t1, t2})
=============================================================================
