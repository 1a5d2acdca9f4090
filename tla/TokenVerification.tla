------------------------- MODULE TokenVerification --------------------------
(***************************************************************************)
(* audit/jwt_verify.py: verify_token, as the API's threads run it at the   *)
(* same time for require_platform_admin, require_audit_read_access and     *)
(* validate_identity_token, while omnibioai-auth rotates its keys and      *)
(* revokes tokens.                                                         *)
(*                                                                         *)
(* The threads share one PyJWKClient, whose cache they fill and clear; the *)
(* fetch of the key set is a request and a reply, and the cache is filled  *)
(* after the reply, so that another thread, a rotation or a failure can    *)
(* come in between.  PyJWT is modelled from how jwt_verify.py relies on    *)
(* it.  The signature is ideal: only a key's owner can sign with it.       *)
(*                                                                         *)
(* A token is a record of what the code looks at:                          *)
(*   alg     its header's alg: "RS256", "HS256" or "other";                *)
(*   kid     its header's kid, or None;                                    *)
(*   signer  the key it is really signed with: a key ID, Secret, or None;  *)
(*   exp     the instant at which it expires;                              *)
(*   claims  iss and aud are absent or the platform's, type is absent or   *)
(*           "access", and there is a sub;                                 *)
(*   jti     its jti claim, or None.                                       *)
(***************************************************************************)
EXTENDS Naturals, FiniteSets

CONSTANTS
  Threads,    \* API threads
  KeyIds,     \* the key pairs omnibioai-auth ever has
  Tokens,     \* the tokens presented
  Secret,     \* JWT_SECRET, shared with omnibioai-auth
  None,
  TTL,        \* JWKS_CACHE_TTL_SECONDS
  Timeout,    \* JWKS_TIMEOUT_SECONDS
  MaxTime,    \* bound on the clock
  MaxFaults   \* bound: how many fetches and blacklist reads fail

Jtis == {t.jti : t \in Tokens} \ {None}

ASSUME TokensAssumption ==
  \A t \in Tokens :
    /\ t.alg \in {"RS256", "HS256", "other"} /\ t.kid \in KeyIds \cup {None}
    /\ t.signer \in KeyIds \cup {Secret, None} /\ t.exp \in Nat /\ t.claims \in BOOLEAN
ASSUME TimesAssumption == {TTL, Timeout, MaxTime, MaxFaults} \subseteq Nat
ASSUME NamesAssumption ==
  Secret \notin KeyIds /\ None \notin KeyIds \cup Nat /\ Secret # None

VARIABLES
  now,
  published,      \* the keys in omnibioai-auth's JWKS
  lastPublished,  \* history: when each key was last in it, or None
  cache,          \* the JWKS cache of _jwks_client: keys and time, or None
  blacklist,      \* the jtis under blacklist:jti:* in Redis
  revoked,        \* history: the jtis ever revoked
  req,            \* what each thread is doing
  faults

vars == <<now, published, lastPublished, cache, blacklist, revoked, req, faults>>
auth == <<published, lastPublished, blacklist, revoked>>

Idle == [at |-> "idle", token |-> None, keys |-> {}, since |-> 0,
         refreshed |-> FALSE, revoked |-> FALSE, deserved |-> FALSE, failed |-> FALSE]

Init ==
  /\ now = 0
  /\ \E k \in KeyIds : published = {k}
  /\ lastPublished = [k \in KeyIds |-> IF k \in published THEN 0 ELSE None]
  /\ cache = None
  /\ blacklist = {} /\ revoked = {}
  /\ req = [r \in Threads |-> Idle]
  /\ faults = 0

Fault == faults < MaxFaults /\ faults' = faults + 1

Go(r, at) == req' = [req EXCEPT ![r].at = at]

-----------------------------------------------------------------------------
(* omnibioai-auth publishes a new key, and retires an old one.             *)
PublishKey(k) ==
  /\ lastPublished[k] = None
  /\ published' = published \cup {k}
  /\ lastPublished' = [lastPublished EXCEPT ![k] = now]
  /\ UNCHANGED <<now, cache, blacklist, revoked, req, faults>>

RetireKey(k) ==
  /\ k \in published /\ published # {k}
  /\ published' = published \ {k}
  /\ UNCHANGED <<now, lastPublished, cache, blacklist, revoked, req, faults>>

Revoke(j) ==
  /\ j \notin revoked
  /\ revoked' = revoked \cup {j} /\ blacklist' = blacklist \cup {j}
  /\ UNCHANGED <<now, published, lastPublished, cache, req, faults>>

(* A blacklist entry lives as long as the token it blocks.                 *)
BlacklistExpires(j) ==
  /\ j \in blacklist /\ \A t \in Tokens : t.jti = j => t.exp <= now
  /\ blacklist' = blacklist \ {j}
  /\ UNCHANGED <<now, published, lastPublished, cache, revoked, req, faults>>

(* Time passes; a fetch whose reply has come ends within Timeout.          *)
Tick ==
  /\ now < MaxTime
  /\ \A r \in Threads : req[r].at = "put" => now < req[r].since + Timeout
  /\ now' = now + 1
  /\ lastPublished' = [k \in KeyIds |-> IF k \in published THEN now + 1 ELSE lastPublished[k]]
  /\ UNCHANGED <<published, cache, blacklist, revoked, req, faults>>

-----------------------------------------------------------------------------
(* A token that should be accepted: genuine, current, of the right kind    *)
(* and not revoked.                                                        *)
Deserves(t) ==
  /\ \/ t.alg = "RS256" /\ t.kid # None /\ t.signer = t.kid /\ t.kid \in published
     \/ t.alg = "HS256" /\ t.signer = Secret
  /\ t.claims /\ now < t.exp /\ t.jti \notin revoked

(* _decode's dispatch on the header's alg.                                 *)
Begin(r, t) ==
  /\ req[r].at = "idle"
  /\ req' = [req EXCEPT ![r] =
       [Idle EXCEPT !.token = t, !.revoked = t.jti \in revoked, !.deserved = Deserves(t),
                    !.at = CASE t.alg = "RS256" /\ t.kid # None -> "lookup"
                             [] t.alg = "HS256"                 -> "decode"
                             [] OTHER                           -> "refused"]]
  /\ UNCHANGED <<now, auth, cache, faults>>

\* Mutant: a cached key set never expires.
MutantNoExpiry == cache # None

(* JWKSetCache.is_expired: the lifespan counts from when the set was put.  *)
CacheValid == cache # None /\ now <= cache.time + TTL

\* Mutant: a kid that is not in the cached set is refused without a refresh.
MutantNoRefresh(r, keys) ==
  req' = [req EXCEPT ![r].at = IF req[r].token.kid \in keys THEN "decode" ELSE "refused"]

(* PyJWKClient.get_signing_key, given a key set: refetch once when the kid *)
(* is not in it.                                                           *)
MatchKid(r, keys) ==
  req' = [req EXCEPT ![r].at = IF req[r].token.kid \in keys THEN "decode"
                               ELSE IF req[r].refreshed THEN "refused" ELSE "fetch",
                     ![r].refreshed = req[r].token.kid \notin keys,
                     ![r].keys = {}, ![r].since = 0]

(* get_signing_key: the cached set, or else a fetch.                       *)
Lookup(r) ==
  /\ req[r].at = "lookup"
  /\ IF CacheValid THEN MatchKid(r, cache.keys) ELSE Go(r, "fetch")
  /\ UNCHANGED <<now, auth, cache, faults>>

(* The JWKS endpoint answers with what is published.                       *)
FetchReply(r) ==
  /\ req[r].at = "fetch"
  /\ req' = [req EXCEPT ![r].at = "put", ![r].keys = published, ![r].since = now]
  /\ UNCHANGED <<now, auth, cache, faults>>

(* fetch_data puts the set into the shared cache, over whatever another    *)
(* thread has put there since, and the thread goes on with its own set.    *)
FetchPut(r) ==
  /\ req[r].at = "put"
  /\ cache' = [keys |-> req[r].keys, time |-> now]
  /\ MatchKid(r, req[r].keys)
  /\ UNCHANGED <<now, auth, faults>>

(* A fetch that fails clears the cache, and the token is refused.          *)
FetchFails(r) ==
  /\ req[r].at \in {"fetch", "put"}
  /\ Fault
  /\ cache' = None
  /\ req' = [req EXCEPT ![r].at = "refused", ![r].failed = TRUE,
                         ![r].keys = {}, ![r].since = 0]
  /\ UNCHANGED <<now, auth>>

(* jwt.decode with the key of the header's alg.                            *)
SignatureVerified(t) == t.signer = IF t.alg = "RS256" THEN t.kid ELSE Secret

(* jwt.decode, _validate_platform_claims, and verify_token's checks of     *)
(* type and sub; a token without a jti is not looked up.                   *)
Decode(r) ==
  LET t == req[r].token IN
  /\ req[r].at = "decode"
  /\ Go(r, IF ~(SignatureVerified(t) /\ now < t.exp /\ t.claims) THEN "refused"
           ELSE IF t.jti = None THEN "accepted" ELSE "blacklist")
  /\ UNCHANGED <<now, auth, cache, faults>>

\* Mutant: revocation is taken as empty when Redis is unavailable.
MutantFailOpen(r) == Go(r, "accepted")

(* revocation state unavailable.                                           *)
RevocationUnknown(r) == req' = [req EXCEPT ![r].at = "refused", ![r].failed = TRUE]

(* EXISTS blacklist:jti:<jti>.                                             *)
CheckBlacklist(r) ==
  /\ req[r].at = "blacklist"
  /\ \/ /\ Go(r, IF req[r].token.jti \in blacklist THEN "refused" ELSE "accepted")
        /\ UNCHANGED faults
     \/ Fault /\ RevocationUnknown(r)
  /\ UNCHANGED <<now, auth, cache>>

(* The caller has the payload, or a TokenInvalid: a 401, and for           *)
(* validate_identity_token None.                                           *)
Return(r) ==
  /\ req[r].at \in {"accepted", "refused"}
  /\ req' = [req EXCEPT ![r] = Idle]
  /\ UNCHANGED <<now, auth, cache, faults>>

Next ==
  \/ \E k \in KeyIds : PublishKey(k) \/ RetireKey(k)
  \/ \E j \in Jtis : Revoke(j) \/ BlacklistExpires(j)
  \/ Tick
  \/ \E r \in Threads :
       \/ \E t \in Tokens : Begin(r, t)
       \/ Lookup(r) \/ FetchReply(r) \/ FetchPut(r) \/ FetchFails(r)
       \/ Decode(r) \/ CheckBlacklist(r) \/ Return(r)

Spec == Init /\ [][Next]_vars

-----------------------------------------------------------------------------
(* A retired key is not trusted for longer than the cache's lifespan and   *)
(* one fetch, also when a slow fetch puts an old set over a newer one, or  *)
(* threads keep using the cache.                                           *)
RetiredKeysAge ==
  [][\A r \in Threads : req[r].at \in {"lookup", "put"} /\ req'[r].at = "decode" =>
       now <= lastPublished[req[r].token.kid] + TTL + Timeout]_vars

(* A token that was revoked before its request came is not accepted, also  *)
(* when Redis fails, unless it expires during the request, and its         *)
(* blacklist entry with it.                                                *)
RevokedIsRefused ==
  \A r \in Threads :
    req[r].at = "accepted" /\ req[r].revoked => req[r].token.exp <= now

(* A token that deserves to be accepted from the start of its request to   *)
(* the end of it is refused only when a call of that request failed: a     *)
(* rotation, an outdated cache or another thread's failing fetch is no     *)
(* reason.                                                                 *)
RefusedForAReason ==
  \A r \in Threads :
    req[r].at = "refused" /\ req[r].deserved => req[r].failed \/ ~Deserves(req[r].token)
=============================================================================
