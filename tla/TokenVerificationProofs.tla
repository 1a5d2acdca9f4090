---------------------- MODULE TokenVerificationProofs -----------------------
(***************************************************************************)
(* verify_token for any number of threads, keys and tokens, any cache      *)
(* lifespan and timeout, and any number of failures.                       *)
(*                                                                         *)
(* Three arguments share one description of the requests' shape: how old a *)
(* key of the cache, or of a reply on its way there, can be; that a        *)
(* revoked jti stays on the blacklist while its token lives; and that a    *)
(* token which deserves acceptance keeps passing every check.              *)
(***************************************************************************)
EXTENDS TokenVerification, TLAPS

Places == {"idle", "lookup", "fetch", "put", "decode", "blacklist", "accepted", "refused"}

Request ==
  [at : Places, token : Tokens \cup {None}, keys : SUBSET KeyIds, since : Nat,
   refreshed : BOOLEAN, revoked : BOOLEAN, deserved : BOOLEAN, failed : BOOLEAN]

(* The shape of the state; a thread that is at work has a token.           *)
Shape ==
  /\ now \in Nat
  /\ published \subseteq KeyIds
  /\ lastPublished \in [KeyIds -> Nat \cup {None}]
  /\ cache \in [keys : SUBSET KeyIds, time : Nat] \cup {None}
  /\ blacklist \subseteq revoked /\ revoked \subseteq Jtis
  /\ req \in [Threads -> Request]
  /\ \A r \in Threads : req[r].at # "idle" => req[r].token \in Tokens

-----------------------------------------------------------------------------
(* What each step of a thread does to its own request.                     *)

(* Going on to another place changes nothing else of the request.          *)
LEMMA GoEffect ==
  ASSUME Shape, NEW r \in Threads, NEW at \in Places, Go(r, at)
  PROVE  /\ req' \in [Threads -> Request]
         /\ \A s \in Threads \ {r} : req'[s] = req[s]
         /\ req'[r].at = at /\ req'[r].token = req[r].token /\ req'[r].keys = req[r].keys
         /\ req'[r].since = req[r].since /\ req'[r].refreshed = req[r].refreshed
         /\ req'[r].revoked = req[r].revoked /\ req'[r].deserved = req[r].deserved
         /\ req'[r].failed = req[r].failed
BY DEF Shape, Request, Go

(* get_signing_key on a key set: the request goes on to the signature, to  *)
(* one more fetch, or, after that fetch, is refused.                       *)
LEMMA MatchKidEffect ==
  ASSUME Shape, NEW r \in Threads, NEW keys, MatchKid(r, keys)
  PROVE  /\ req' \in [Threads -> Request]
         /\ \A s \in Threads \ {r} : req'[s] = req[s]
         /\ req'[r].token = req[r].token
         /\ req'[r].revoked = req[r].revoked /\ req'[r].deserved = req[r].deserved
         /\ req'[r].failed = req[r].failed
         /\ req'[r].at \in {"decode", "fetch", "refused"}
         /\ req'[r].at = "decode" <=> req[r].token.kid \in keys
         /\ req'[r].at = "refused" => req[r].refreshed
<1> DEFINE at == IF req[r].token.kid \in keys THEN "decode"
                 ELSE IF req[r].refreshed THEN "refused" ELSE "fetch"
           missed == req[r].token.kid \notin keys
<1>1. req' = [req EXCEPT ![r] = [req[r] EXCEPT !.at = at, !.refreshed = missed,
                                               !.keys = {}, !.since = 0]]
  BY DEF MatchKid
<1>2. /\ at \in {"decode", "fetch", "refused"} /\ missed \in BOOLEAN
      /\ at = "decode" <=> req[r].token.kid \in keys
      /\ at = "refused" => req[r].refreshed
  OBVIOUS
<1> HIDE DEF at, missed
<1>3. req[r] \in Request
  BY DEF Shape
<1>4. [req[r] EXCEPT !.at = at, !.refreshed = missed, !.keys = {}, !.since = 0] \in Request
  BY <1>2, <1>3 DEF Request, Places
<1> QED  BY <1>1, <1>2, <1>3, <1>4 DEF Shape, Request

(* A request begins with what it will be judged by.                        *)
LEMMA BeginEffect ==
  ASSUME Shape, NEW r \in Threads, NEW t \in Tokens, Begin(r, t)
  PROVE  /\ req' \in [Threads -> Request]
         /\ \A s \in Threads \ {r} : req'[s] = req[s]
         /\ req'[r].token = t /\ ~req'[r].refreshed
         /\ req'[r].revoked <=> t.jti \in revoked
         /\ req'[r].deserved <=> Deserves(t)
         /\ req'[r].at \in {"lookup", "decode", "refused"}
         /\ req'[r].at = "lookup" => t.alg = "RS256" /\ t.kid # None
         /\ req'[r].at = "refused" => ~Deserves(t)
<1> DEFINE at == CASE t.alg = "RS256" /\ t.kid # None -> "lookup"
                   [] t.alg = "HS256"                 -> "decode"
                   [] OTHER                           -> "refused"
           gone == t.jti \in revoked
           worth == Deserves(t)
           q == [Idle EXCEPT !.token = t, !.revoked = gone, !.deserved = worth, !.at = at]
<1>1. req' = [req EXCEPT ![r] = q]
  BY DEF Begin
<1>2. /\ at \in {"lookup", "decode", "refused"}
      /\ at = "lookup" => t.alg = "RS256" /\ t.kid # None
      /\ at = "refused" => ~(t.alg = "RS256" /\ t.kid # None) /\ t.alg # "HS256"
  OBVIOUS
<1>3. at = "refused" => ~Deserves(t)
  BY <1>2 DEF Deserves
<1>4. gone \in BOOLEAN /\ worth \in BOOLEAN
  BY DEF Deserves
<1> HIDE DEF at, gone, worth
<1>5. /\ q \in Request /\ q.token = t /\ q.refreshed = FALSE /\ q.revoked = gone
      /\ q.deserved = worth /\ q.at = at
  BY <1>2, <1>4 DEF Idle, Request, Places
<1> HIDE DEF q
<1>6. req' \in [Threads -> Request] /\ req'[r] = q /\ \A s \in Threads \ {r} : req'[s] = req[s]
  BY <1>1, <1>5 DEF Shape
<1> QED  BY <1>2, <1>3, <1>4, <1>5, <1>6 DEF gone, worth

(* The reply of the JWKS endpoint is kept with the time it came.           *)
LEMMA ReplyEffect ==
  ASSUME Shape, NEW r \in Threads, FetchReply(r)
  PROVE  /\ req' \in [Threads -> Request]
         /\ \A s \in Threads \ {r} : req'[s] = req[s]
         /\ req'[r].at = "put" /\ req'[r].keys = published /\ req'[r].since = now
         /\ req'[r].token = req[r].token
         /\ req'[r].revoked = req[r].revoked /\ req'[r].deserved = req[r].deserved
<1> DEFINE q == [req[r] EXCEPT !.at = "put", !.keys = published, !.since = now]
<1>1. req' = [req EXCEPT ![r] = q]
  BY DEF FetchReply
<1>2. req[r] \in Request
  BY DEF Shape
<1>3. /\ q \in Request /\ q.at = "put" /\ q.keys = published /\ q.since = now
      /\ q.token = req[r].token /\ q.revoked = req[r].revoked /\ q.deserved = req[r].deserved
  BY <1>2 DEF Request, Shape, Places
<1> HIDE DEF q
<1> QED  BY <1>1, <1>3 DEF Shape

(* A call that fails refuses the token and says why.                       *)
LEMMA FailEffect ==
  ASSUME Shape, NEW r \in Threads, FetchFails(r) \/ RevocationUnknown(r)
  PROVE  /\ req' \in [Threads -> Request]
         /\ \A s \in Threads \ {r} : req'[s] = req[s]
         /\ req'[r].at = "refused" /\ req'[r].failed /\ req'[r].token = req[r].token
         /\ req'[r].revoked = req[r].revoked /\ req'[r].deserved = req[r].deserved
<1>1. req[r] \in Request
  BY DEF Shape
<1>2. PICK q : /\ req' = [req EXCEPT ![r] = q]
               /\ q \in {[req[r] EXCEPT !.at = "refused", !.failed = TRUE,
                                        !.keys = {}, !.since = 0],
                         [req[r] EXCEPT !.at = "refused", !.failed = TRUE]}
  BY DEF FetchFails, RevocationUnknown
<1>3. /\ q \in Request /\ q.at = "refused" /\ q.failed = TRUE
      /\ q.token = req[r].token /\ q.revoked = req[r].revoked /\ q.deserved = req[r].deserved
  <2>1. CASE q = [req[r] EXCEPT !.at = "refused", !.failed = TRUE, !.keys = {}, !.since = 0]
    BY <1>1, <2>1 DEF Request, Places
  <2>2. CASE q = [req[r] EXCEPT !.at = "refused", !.failed = TRUE]
    BY <1>1, <2>2 DEF Request, Places
  <2> QED  BY <1>2, <2>1, <2>2
<1> QED  BY <1>2, <1>3 DEF Shape

(* A request that is over leaves the thread idle.                          *)
LEMMA ReturnEffect ==
  ASSUME Shape, NEW r \in Threads, Return(r)
  PROVE  /\ req' \in [Threads -> Request]
         /\ \A s \in Threads \ {r} : req'[s] = req[s]
         /\ req'[r].at = "idle" /\ req'[r].deserved = FALSE /\ req'[r].revoked = FALSE
<1>1. Idle \in Request /\ Idle.at = "idle" /\ Idle.deserved = FALSE /\ Idle.revoked = FALSE
  BY DEF Idle, Request, Places
<1> QED  BY <1>1 DEF Return, Shape

(* jwt.decode and the blacklist send a request to one of three places.     *)
LEMMA DecodeEffect ==
  ASSUME Shape, NEW r \in Threads,
         \/ Decode(r)
         \/ CheckBlacklist(r) /\ ~RevocationUnknown(r)
  PROVE  \E at \in {"refused", "accepted", "blacklist"} : Go(r, at)
BY DEF Decode, CheckBlacklist

(* Every step keeps the shape of the state.                                *)
LEMMA ShapeNext ==
  ASSUME Shape, [Next]_vars
  PROVE  Shape'
<1>1. ASSUME UNCHANGED <<now, auth>>, NEW r \in Threads,
             req' \in [Threads -> Request], \A s \in Threads \ {r} : req'[s] = req[s],
             req'[r].at # "idle" => req'[r].token \in Tokens,
             cache' \in [keys : SUBSET KeyIds, time : Nat] \cup {None}
      PROVE  Shape'
  BY <1>1 DEF Shape, auth
<1>2. ASSUME NEW k \in KeyIds, PublishKey(k) \/ RetireKey(k)
      PROVE  Shape'
  BY <1>2 DEF Shape, PublishKey, RetireKey
<1>3. ASSUME NEW j \in Jtis, Revoke(j) \/ BlacklistExpires(j)
      PROVE  Shape'
  BY <1>3 DEF Shape, Revoke, BlacklistExpires
<1>4. CASE Tick
  BY <1>4 DEF Shape, Tick
<1>5. ASSUME NEW r \in Threads, NEW t \in Tokens, Begin(r, t)
      PROVE  Shape'
  <2>1. UNCHANGED <<now, auth>> /\ cache' = cache
    BY <1>5 DEF Begin
  <2> QED  BY <1>1, <1>5, <2>1, BeginEffect DEF Shape
<1>6. ASSUME NEW r \in Threads, Lookup(r)
      PROVE  Shape'
  <2>1. UNCHANGED <<now, auth>> /\ cache' = cache /\ req[r].token \in Tokens
    BY <1>6 DEF Lookup, Shape
  <2>2. CASE MatchKid(r, cache.keys)
    BY <1>1, <2>1, <2>2, MatchKidEffect DEF Shape
  <2>3. CASE Go(r, "fetch")
    <3>1. "fetch" \in Places
      BY DEF Places
    <3> QED  BY <1>1, <2>1, <2>3, <3>1, GoEffect DEF Shape
  <2> QED  BY <1>6, <2>2, <2>3 DEF Lookup
<1>7. ASSUME NEW r \in Threads, FetchReply(r)
      PROVE  Shape'
  <2>1. UNCHANGED <<now, auth>> /\ cache' = cache /\ req[r].token \in Tokens
    BY <1>7 DEF FetchReply, Shape
  <2> QED  BY <1>1, <1>7, <2>1, ReplyEffect DEF Shape
<1>8. ASSUME NEW r \in Threads, FetchPut(r)
      PROVE  Shape'
  <2>1. UNCHANGED <<now, auth>> /\ req[r].token \in Tokens
    BY <1>8 DEF FetchPut, Shape
  <2>2. cache' \in [keys : SUBSET KeyIds, time : Nat]
    BY <1>8 DEF FetchPut, Shape, Request
  <2>3. MatchKid(r, req[r].keys)
    BY <1>8 DEF FetchPut
  <2> QED  BY <1>1, <2>1, <2>2, <2>3, MatchKidEffect
<1>9. ASSUME NEW r \in Threads, FetchFails(r)
      PROVE  Shape'
  <2>1. UNCHANGED <<now, auth>> /\ cache' = None /\ req[r].token \in Tokens
    BY <1>9 DEF FetchFails, Shape
  <2> QED  BY <1>1, <1>9, <2>1, FailEffect
<1>10. ASSUME NEW r \in Threads, Decode(r) \/ CheckBlacklist(r)
       PROVE  Shape'
  <2>1. UNCHANGED <<now, auth>> /\ cache' = cache /\ req[r].token \in Tokens
    BY <1>10 DEF Decode, CheckBlacklist, Shape
  <2>2. CASE RevocationUnknown(r)
    BY <1>1, <2>1, <2>2, FailEffect DEF Shape
  <2>3. CASE ~RevocationUnknown(r)
    <3>1. PICK at \in Places : Go(r, at)
      BY <1>10, <2>3, DecodeEffect DEF Places
    <3> QED  BY <1>1, <2>1, <3>1, GoEffect DEF Shape
  <2> QED  BY <2>2, <2>3
<1>11. ASSUME NEW r \in Threads, Return(r)
       PROVE  Shape'
  <2>1. UNCHANGED <<now, auth>> /\ cache' = cache
    BY <1>11 DEF Return
  <2> QED  BY <1>1, <1>11, <2>1, ReturnEffect DEF Shape
<1>12. CASE UNCHANGED vars
  BY <1>12 DEF Shape, vars
<1> QED
  BY <1>2, <1>3, <1>4, <1>5, <1>6, <1>7, <1>8, <1>9, <1>10, <1>11, <1>12 DEF Next

(* The shape holds at first.                                               *)
LEMMA ShapeInit == Init => Shape
<1>1. Idle \in Request /\ Idle.at = "idle"
  BY DEF Idle, Request, Places
<1> QED  BY <1>1 DEF Init, Shape

-----------------------------------------------------------------------------
(* A key was last published when it was retired, or is published now.      *)
ClockOfKeys ==
  /\ \A k \in KeyIds : lastPublished[k] # None => lastPublished[k] <= now
  /\ \A k \in published : lastPublished[k] = now

(* A reply on its way into the cache is at most Timeout old, and its keys  *)
(* were published when it was sent.                                        *)
RepliesAreRecent ==
  \A r \in Threads : req[r].at = "put" =>
    /\ now <= req[r].since + Timeout
    /\ \A k \in req[r].keys : lastPublished[k] # None /\ req[r].since <= lastPublished[k]

(* The keys of the cached set were published at most Timeout before it was *)
(* put there.                                                              *)
CacheIsRecent ==
  cache # None => \A k \in cache.keys :
    lastPublished[k] # None /\ cache.time <= lastPublished[k] + Timeout

AgeInv == Shape /\ ClockOfKeys /\ RepliesAreRecent /\ CacheIsRecent

(* The date of a key only moves forward, and never gets lost.              *)
LEMMA KeysMoveForward ==
  ASSUME Shape, ClockOfKeys, [Next]_vars, NEW k \in KeyIds, lastPublished[k] # None
  PROVE  lastPublished'[k] # None /\ lastPublished[k] <= lastPublished'[k]
<1>0. lastPublished[k] \in Nat /\ lastPublished[k] <= now /\ now \in Nat
  BY DEF Shape, ClockOfKeys
<1>1. CASE lastPublished' = lastPublished
  BY <1>0, <1>1
<1>2. ASSUME NEW j \in KeyIds, PublishKey(j)
      PROVE  lastPublished'[k] # None /\ lastPublished[k] <= lastPublished'[k]
  BY <1>0, <1>2 DEF PublishKey, Shape
<1>3. CASE Tick
  BY <1>0, <1>3, NamesAssumption DEF Tick, Shape
<1> QED
  BY <1>1, <1>2, <1>3
  DEF Next, vars, auth, RetireKey, Revoke, BlacklistExpires, Begin, Lookup, FetchReply,
      FetchPut, FetchFails, Decode, CheckBlacklist, Return

(* The steps of a thread leave omnibioai-auth and the clock alone.         *)
LEMMA StepKinds ==
  ASSUME [Next]_vars
  PROVE  \/ UNCHANGED vars
         \/ Tick
         \/ \E k \in KeyIds : PublishKey(k) \/ RetireKey(k)
         \/ \E j \in Jtis : Revoke(j) \/ BlacklistExpires(j)
         \/ /\ UNCHANGED <<now, published, lastPublished, blacklist, revoked>>
            /\ \E r \in Threads :
                 \/ \E t \in Tokens : Begin(r, t)
                 \/ Lookup(r) \/ FetchReply(r) \/ FetchPut(r) \/ FetchFails(r)
                 \/ Decode(r) \/ CheckBlacklist(r) \/ Return(r)
BY DEF Next, auth, Begin, Lookup, FetchReply, FetchPut, FetchFails, Decode, CheckBlacklist,
       Return

ThreadStep(r) ==
  \/ \E t \in Tokens : Begin(r, t)
  \/ Lookup(r) \/ FetchReply(r) \/ FetchPut(r) \/ FetchFails(r)
  \/ Decode(r) \/ CheckBlacklist(r) \/ Return(r)

(* A thread's step leaves the other requests alone, and keeps its token    *)
(* and what was noted about it until the request is over.                  *)
LEMMA ThreadEffect ==
  ASSUME Shape, NEW r \in Threads, ThreadStep(r)
  PROVE  /\ \A s \in Threads \ {r} : req'[s] = req[s]
         /\ req'[r].at = "put" => FetchReply(r)
         /\ \/ \E t \in Tokens : Begin(r, t)
            \/ Return(r)
            \/ /\ req'[r].token = req[r].token /\ req'[r].revoked = req[r].revoked
               /\ req'[r].deserved = req[r].deserved /\ req[r].at # "idle"
<1>1. CASE \E t \in Tokens : Begin(r, t)
  BY <1>1, BeginEffect
<1>2. CASE Lookup(r)
  <2>1. CASE MatchKid(r, cache.keys)
    BY <1>2, <2>1, MatchKidEffect DEF Lookup
  <2>2. CASE Go(r, "fetch")
    <3>1. "fetch" \in Places
      BY DEF Places
    <3> QED  BY <1>2, <2>2, <3>1, GoEffect DEF Lookup
  <2> QED  BY <1>2, <2>1, <2>2 DEF Lookup
<1>3. CASE FetchReply(r)
  BY <1>3, ReplyEffect DEF FetchReply
<1>4. CASE FetchPut(r)
  BY <1>4, MatchKidEffect DEF FetchPut
<1>5. CASE FetchFails(r)
  BY <1>5, FailEffect DEF FetchFails
<1>6. CASE Decode(r) \/ CheckBlacklist(r)
  <2>1. req[r].at # "idle"
    BY <1>6 DEF Decode, CheckBlacklist
  <2>2. CASE RevocationUnknown(r)
    BY <2>1, <2>2, FailEffect
  <2>3. CASE ~RevocationUnknown(r)
    <3>1. PICK at \in {"refused", "accepted", "blacklist"} : Go(r, at)
      BY <1>6, <2>3, DecodeEffect
    <3>2. at \in Places
      BY DEF Places
    <3> QED  BY <2>1, <3>1, <3>2, GoEffect
  <2> QED  BY <2>2, <2>3
<1>7. CASE Return(r)
  BY <1>7, ReturnEffect
<1> QED  BY <1>1, <1>2, <1>3, <1>4, <1>5, <1>6, <1>7 DEF ThreadStep

(* Every step keeps replies and cache recent: a reply is put, or given up, *)
(* within Timeout.                                                         *)
LEMMA AgeNext ==
  ASSUME AgeInv, [Next]_vars
  PROVE  AgeInv'
<1>0. Shape' /\ Shape
  BY ShapeNext DEF AgeInv
<1>1. \A k \in KeyIds : lastPublished[k] # None =>
        lastPublished'[k] # None /\ lastPublished[k] <= lastPublished'[k]
  BY KeysMoveForward DEF AgeInv
<1>2. ClockOfKeys'
  <2>1. CASE UNCHANGED <<now, published, lastPublished>>
    BY <2>1 DEF AgeInv, ClockOfKeys
  <2>2. ASSUME NEW k \in KeyIds, PublishKey(k) \/ RetireKey(k)
        PROVE  ClockOfKeys'
    BY <1>0, <2>2 DEF AgeInv, ClockOfKeys, PublishKey, RetireKey, Shape
  <2>3. CASE Tick
    BY <1>0, <2>3 DEF AgeInv, ClockOfKeys, Tick, Shape
  <2> QED  BY <2>1, <2>2, <2>3, StepKinds DEF vars, Revoke, BlacklistExpires
<1>3. RepliesAreRecent'
  <2>0. \A r \in Threads : /\ req[r].keys \subseteq KeyIds /\ req[r].since \in Nat
                           /\ req'[r].keys \subseteq KeyIds
    BY <1>0 DEF Shape, Request
  <2>1. ASSUME NEW r \in Threads, req'[r] = req[r], req[r].at = "put",
               now' <= req[r].since + Timeout
        PROVE  /\ now' <= req'[r].since + Timeout
               /\ \A k \in req'[r].keys :
                    lastPublished'[k] # None /\ req'[r].since <= lastPublished'[k]
    <3>1. \A k \in req[r].keys : /\ k \in KeyIds /\ lastPublished[k] # None
                                 /\ req[r].since <= lastPublished[k]
      BY <2>0, <2>1 DEF AgeInv, RepliesAreRecent
    <3>2. \A k \in KeyIds : /\ lastPublished[k] # None => lastPublished[k] \in Nat
                            /\ lastPublished'[k] # None => lastPublished'[k] \in Nat
      BY <1>0 DEF Shape
    <3> QED  BY <1>1, <2>0, <2>1, <3>1, <3>2
  <2>2. CASE UNCHANGED <<now, req>>
    BY <2>1, <2>2 DEF AgeInv, RepliesAreRecent
  <2>3. CASE Tick
    <3>1. \A r \in Threads : req[r].at = "put" => now' <= req[r].since + Timeout
      BY <1>0, <2>0, <2>3, TimesAssumption DEF Tick, Shape
    <3> QED  BY <2>1, <2>3, <3>1 DEF Tick, RepliesAreRecent
  <2>4. ASSUME NEW r \in Threads, ThreadStep(r), UNCHANGED <<now, published, lastPublished>>
        PROVE  RepliesAreRecent'
    <3>1. ASSUME NEW s \in Threads, req'[s].at = "put"
          PROVE  /\ now' <= req'[s].since + Timeout
                 /\ \A k \in req'[s].keys :
                      lastPublished'[k] # None /\ req'[s].since <= lastPublished'[k]
      <4>1. CASE s # r
        <5>1. req'[s] = req[s]
          BY <1>0, <2>4, <4>1, ThreadEffect
        <5>2. now' <= req[s].since + Timeout
          BY <2>4, <3>1, <5>1 DEF AgeInv, RepliesAreRecent
        <5> QED  BY <2>1, <3>1, <5>1, <5>2
      <4>2. CASE s = r
        <5>1. req'[r].keys = published /\ req'[r].since = now
          BY <1>0, <2>4, <3>1, <4>2, ThreadEffect, ReplyEffect
        <5>2. \A k \in published : lastPublished[k] = now /\ now # None
          BY <1>0, NamesAssumption DEF AgeInv, ClockOfKeys, Shape
        <5> QED  BY <1>0, <2>4, <4>2, <5>1, <5>2, TimesAssumption DEF Shape
      <4> QED  BY <4>1, <4>2
    <3> QED  BY <3>1 DEF RepliesAreRecent
  <2> QED
    BY <2>2, <2>3, <2>4, StepKinds
    DEF vars, ThreadStep, PublishKey, RetireKey, Revoke, BlacklistExpires
<1>4. CacheIsRecent'
  <2>1. CASE cache' = cache
    <3>1. ASSUME cache # None, NEW k \in cache.keys
          PROVE  lastPublished'[k] # None /\ cache.time <= lastPublished'[k] + Timeout
      <4>1. /\ k \in KeyIds /\ lastPublished[k] # None /\ cache.time \in Nat
            /\ cache.time <= lastPublished[k] + Timeout
        BY <1>0, <3>1 DEF AgeInv, CacheIsRecent, Shape
      <4>2. lastPublished[k] \in Nat /\ lastPublished'[k] \in Nat \cup {None}
        BY <1>0, <4>1 DEF Shape
      <4> QED  BY <1>1, <4>1, <4>2, TimesAssumption
    <3> QED  BY <2>1, <3>1 DEF CacheIsRecent
  <2>2. CASE cache' = None
    BY <2>2 DEF CacheIsRecent
  <2>3. ASSUME NEW r \in Threads, FetchPut(r)
        PROVE  CacheIsRecent'
    <3>1. /\ cache' = [keys |-> req[r].keys, time |-> now] /\ req[r].at = "put"
          /\ lastPublished' = lastPublished
      BY <2>3 DEF FetchPut, auth
    <3>2. req[r].since \in Nat /\ req[r].keys \subseteq KeyIds
      BY <1>0 DEF Shape, Request
    <3>3. \A k \in req[r].keys : /\ lastPublished[k] # None /\ lastPublished[k] \in Nat
                                 /\ now <= lastPublished[k] + Timeout
      BY <1>0, <3>1, <3>2, TimesAssumption DEF AgeInv, RepliesAreRecent, Shape
    <3> QED  BY <3>1, <3>3 DEF CacheIsRecent
  <2> QED
    BY <2>1, <2>2, <2>3
    DEF Next, vars, PublishKey, RetireKey, Revoke, BlacklistExpires, Tick, Begin, Lookup,
        FetchReply, FetchFails, Decode, CheckBlacklist, Return
<1> QED  BY <1>0, <1>2, <1>3, <1>4 DEF AgeInv

(* A key that omnibioai-auth has retired is trusted for at most the        *)
(* cache's lifespan and one fetch, whichever thread filled the cache last  *)
(* and however the fetches of several threads overlap.                     *)
THEOREM RetiredKeysAreDropped == Spec => RetiredKeysAge
<1> DEFINE Young == \A r \in Threads : req[r].at \in {"lookup", "put"} /\ req'[r].at = "decode" =>
                      now <= lastPublished[req[r].token.kid] + TTL + Timeout
<1>1. Init => AgeInv
  BY ShapeInit DEF Init, AgeInv, ClockOfKeys, RepliesAreRecent, CacheIsRecent, Idle
<1>2. AgeInv /\ [Next]_vars => [Young]_vars
  <2> SUFFICES ASSUME AgeInv, [Next]_vars, NEW r \in Threads,
                      req[r].at \in {"lookup", "put"}, req'[r].at = "decode"
               PROVE  now <= lastPublished[req[r].token.kid] + TTL + Timeout
    OBVIOUS
  <2>0. Shape
    BY DEF AgeInv
  <2>1. ThreadStep(r)
    <3>1. req'[r] # req[r]
      OBVIOUS
    <3>2. PICK s \in Threads : ThreadStep(s)
      BY <3>1, StepKinds
      DEF ThreadStep, vars, PublishKey, RetireKey, Revoke, BlacklistExpires, Tick
    <3> QED  BY <2>0, <3>1, <3>2, ThreadEffect
  <2>2. CASE Lookup(r)
    <3>1. CASE CacheValid /\ MatchKid(r, cache.keys)
      <4>1. /\ cache # None /\ now <= cache.time + TTL /\ req[r].token.kid \in cache.keys
        BY <2>0, <3>1, MatchKidEffect DEF CacheValid
      <4>2. /\ cache.time \in Nat /\ cache.keys \subseteq KeyIds
            /\ lastPublished[req[r].token.kid] # None
            /\ cache.time <= lastPublished[req[r].token.kid] + Timeout
        BY <2>0, <4>1 DEF AgeInv, CacheIsRecent, Shape
      <4>3. lastPublished[req[r].token.kid] \in Nat
        BY <2>0, <4>1, <4>2 DEF Shape
      <4> QED  BY <2>0, <4>1, <4>2, <4>3, TimesAssumption DEF Shape
    <3>2. CASE Go(r, "fetch")
      <4>1. "fetch" \in Places
        BY DEF Places
      <4>2. req'[r].at = "fetch"
        BY <2>0, <3>2, <4>1, GoEffect
      <4> QED  BY <4>2
    <3> QED  BY <2>2, <3>1, <3>2 DEF Lookup
  <2>3. CASE FetchPut(r)
    <3>1. req[r].token.kid \in req[r].keys /\ req[r].at = "put"
      BY <2>0, <2>3, MatchKidEffect DEF FetchPut
    <3>2. /\ req[r].keys \subseteq KeyIds /\ req[r].since \in Nat
          /\ now <= req[r].since + Timeout
          /\ lastPublished[req[r].token.kid] # None
          /\ req[r].since <= lastPublished[req[r].token.kid]
      BY <2>0, <3>1 DEF AgeInv, RepliesAreRecent, Shape, Request
    <3>3. lastPublished[req[r].token.kid] \in Nat
      BY <2>0, <3>1, <3>2 DEF Shape
    <3> QED  BY <2>0, <3>2, <3>3, TimesAssumption DEF Shape
  <2>4. CASE FetchFails(r)
    BY <2>0, <2>4, FailEffect
  <2> QED
    BY <2>1, <2>2, <2>3, <2>4
    DEF ThreadStep, Begin, FetchReply, Decode, CheckBlacklist, Return
<1> HIDE DEF Young
<1>3. Spec => [][Young]_vars
  BY <1>1, <1>2, AgeNext, PTL DEF Spec
<1> QED  BY <1>3 DEF RetiredKeysAge, Young

-----------------------------------------------------------------------------
(* A revoked jti is on the blacklist for as long as a token with it lives. *)
BlacklistHolds ==
  \A j \in revoked : j \in blacklist \/ \A t \in Tokens : t.jti = j => t.exp <= now

(* What a request noted about revocation at its beginning stays true.      *)
RevokedIsNoted ==
  \A r \in Threads : req[r].at # "idle" /\ req[r].revoked => req[r].token.jti \in revoked

RevocationInv == Shape /\ BlacklistHolds /\ RevokedIsNoted /\ RevokedIsRefused

(* Every step keeps the blacklist complete, and none but a look at it      *)
(* accepts a token that has a jti.                                         *)
LEMMA RevocationNext ==
  ASSUME RevocationInv, [Next]_vars
  PROVE  RevocationInv'
<1>0. Shape /\ Shape'
  BY ShapeNext DEF RevocationInv
<1>1. now \in Nat /\ now' \in Nat /\ now <= now' /\ revoked \subseteq revoked'
  BY <1>0, StepKinds
  DEF Shape, vars, Tick, PublishKey, RetireKey, Revoke, BlacklistExpires
<1>2. BlacklistHolds'
  <2>1. CASE UNCHANGED <<blacklist, revoked>>
    BY <1>1, <2>1, TokensAssumption DEF RevocationInv, BlacklistHolds
  <2>2. ASSUME NEW j \in Jtis, Revoke(j) \/ BlacklistExpires(j)
        PROVE  BlacklistHolds'
    BY <2>2 DEF RevocationInv, BlacklistHolds, Revoke, BlacklistExpires
  <2> QED  BY <2>1, <2>2, StepKinds DEF vars, Tick, PublishKey, RetireKey
<1>3. CASE req' = req
  <2>1. RevokedIsNoted'
    BY <1>1, <1>3 DEF RevocationInv, RevokedIsNoted
  <2>2. \A r \in Threads : req[r].at = "accepted" => req[r].token.exp \in Nat
    BY <1>0, TokensAssumption DEF Shape
  <2>3. RevokedIsRefused'
    BY <1>1, <1>3, <2>2 DEF RevocationInv, RevokedIsRefused
  <2> QED  BY <1>0, <1>2, <2>1, <2>3 DEF RevocationInv
<1>4. ASSUME NEW r \in Threads, ThreadStep(r), UNCHANGED <<now, blacklist, revoked>>
      PROVE  RevocationInv'
  <2>1. \A s \in Threads \ {r} : req'[s] = req[s]
    BY <1>0, <1>4, ThreadEffect
  <2>2. CASE \E t \in Tokens : Begin(r, t)
    <3>1. PICK t \in Tokens : Begin(r, t)
      BY <2>2
    <3>2. /\ req'[r].token = t /\ (req'[r].revoked <=> t.jti \in revoked)
          /\ req'[r].at # "accepted"
      BY <1>0, <3>1, BeginEffect
    <3>3. RevokedIsNoted'
      BY <1>4, <2>1, <3>2 DEF RevocationInv, RevokedIsNoted
    <3>4. RevokedIsRefused'
      BY <1>4, <2>1, <3>2 DEF RevocationInv, RevokedIsRefused
    <3> QED  BY <1>0, <1>2, <3>3, <3>4 DEF RevocationInv
  <2>3. CASE Return(r)
    <3>1. req'[r].at = "idle"
      BY <1>0, <2>3, ReturnEffect
    <3>2. RevokedIsNoted'
      BY <1>4, <2>1, <3>1 DEF RevocationInv, RevokedIsNoted
    <3>3. RevokedIsRefused'
      BY <1>4, <2>1, <3>1 DEF RevocationInv, RevokedIsRefused
    <3> QED  BY <1>0, <1>2, <3>2, <3>3 DEF RevocationInv
  <2>4. CASE /\ req'[r].token = req[r].token /\ req'[r].revoked = req[r].revoked
             /\ req[r].at # "idle" /\ ~\E t \in Tokens : Begin(r, t)
             /\ ~Return(r)
    <3>1. RevokedIsNoted'
      BY <1>4, <2>1, <2>4 DEF RevocationInv, RevokedIsNoted
    <3>2. ASSUME req'[r].at = "accepted", req[r].revoked
          PROVE  req[r].token.exp <= now
      <4>1. /\ req[r].token \in Tokens /\ req[r].token.jti \in revoked
            /\ req[r].token.jti # None
        BY <1>0, <2>4, <3>2 DEF RevocationInv, RevokedIsNoted, Shape, Jtis
      <4>2. CASE CheckBlacklist(r)
        <5>1. CASE RevocationUnknown(r)
          BY <1>0, <3>2, <5>1, FailEffect
        <5>2. CASE Go(r, IF req[r].token.jti \in blacklist THEN "refused" ELSE "accepted")
          <6>1. (IF req[r].token.jti \in blacklist THEN "refused" ELSE "accepted") \in Places
            BY DEF Places
          <6>2. req[r].token.jti \notin blacklist
            BY <1>0, <3>2, <5>2, <6>1, GoEffect
          <6> QED  BY <4>1, <6>2 DEF RevocationInv, BlacklistHolds
        <5> QED  BY <4>2, <5>1, <5>2 DEF CheckBlacklist
      <4>3. CASE Decode(r)
        <5>1. PICK at \in {"refused", "blacklist"} : Go(r, at)
          BY <4>1, <4>3 DEF Decode
        <5>2. at \in Places
          BY DEF Places
        <5>3. req'[r].at = at
          BY <1>0, <5>1, <5>2, GoEffect
        <5> QED  BY <3>2, <5>1, <5>3
      <4>4. CASE FetchReply(r) \/ FetchPut(r) \/ FetchFails(r)
        <5>1. req'[r].at # "accepted"
          BY <1>0, <4>4, ReplyEffect, MatchKidEffect, FailEffect DEF FetchPut
        <5> QED  BY <3>2, <5>1
      <4>5. CASE Lookup(r)
        <5>1. "fetch" \in Places
          BY DEF Places
        <5>2. req'[r].at # "accepted"
          BY <1>0, <4>5, <5>1, GoEffect, MatchKidEffect DEF Lookup
        <5> QED  BY <3>2, <5>2
      <4> QED  BY <1>4, <2>4, <4>2, <4>3, <4>4, <4>5 DEF ThreadStep
    <3>3. RevokedIsRefused'
      BY <1>4, <2>1, <2>4, <3>2 DEF RevocationInv, RevokedIsRefused
    <3> QED  BY <1>0, <1>2, <3>1, <3>3 DEF RevocationInv
  <2> QED  BY <1>0, <1>4, <2>2, <2>3, <2>4, ThreadEffect
<1> QED
  BY <1>3, <1>4, StepKinds
  DEF vars, ThreadStep, Tick, PublishKey, RetireKey, Revoke, BlacklistExpires

(* A token that was revoked before its request came is not accepted while  *)
(* it has not expired, also when Redis fails in between or its blacklist   *)
(* entry times out.                                                        *)
THEOREM RevocationHolds == Spec => []RevokedIsRefused
<1>1. Init => RevocationInv
  BY ShapeInit DEF Init, RevocationInv, BlacklistHolds, RevokedIsNoted, RevokedIsRefused, Idle
<1>2. RevocationInv => RevokedIsRefused
  BY DEF RevocationInv
<1> QED  BY <1>1, <1>2, RevocationNext, PTL DEF Spec

-----------------------------------------------------------------------------
(* The key of a request that deserved acceptance when it began has been    *)
(* published, so that it can be retired but not come back; if it still is, *)
(* a reply on its way to this request has it, and the first lookup is not  *)
(* the last.                                                               *)
DeservedIsServed ==
  \A r \in Threads :
    /\ req[r].at = "lookup" => ~req[r].refreshed /\ req[r].token.alg = "RS256"
    /\ req[r].at \in {"fetch", "put"} => req[r].token.alg = "RS256"
    /\ req[r].at # "idle" /\ req[r].deserved /\ req[r].token.alg = "RS256"
         => req[r].token.kid \in KeyIds /\ lastPublished[req[r].token.kid] # None
    /\ req[r].at = "put" /\ req[r].deserved /\ req[r].token.kid \in published
         => req[r].token.kid \in req[r].keys

ReasonInv == Shape /\ DeservedIsServed /\ RefusedForAReason

(* A token whose key is retired, that is revoked or has expired, never     *)
(* comes to deserve acceptance again.                                      *)
LEMMA DeservingIsLost ==
  ASSUME Shape, [Next]_vars, NEW t \in Tokens, Deserves(t)',
         t.alg = "RS256" => lastPublished[t.kid] # None
  PROVE  Deserves(t)
<1>1. now \in Nat /\ now' \in Nat /\ now <= now' /\ revoked \subseteq revoked'
  BY StepKinds DEF Shape, vars, Tick, PublishKey, RetireKey, Revoke, BlacklistExpires
<1>2. t.alg = "RS256" /\ t.kid \in published' => t.kid \in published
  BY StepKinds DEF vars, Tick, PublishKey, RetireKey, Revoke, BlacklistExpires
<1>3. t.exp \in Nat
  BY TokensAssumption
<1> QED  BY <1>1, <1>2, <1>3 DEF Deserves

(* A thread's step refuses a token that still deserves acceptance only     *)
(* after a call of its own has failed.                                     *)
LEMMA RefusalHasReason ==
  ASSUME Shape, DeservedIsServed, NEW r \in Threads, ThreadStep(r),
         req[r].at # "idle", req[r].at # "refused", req'[r].at = "refused",
         req[r].deserved, Deserves(req[r].token)
  PROVE  req'[r].failed
<1>0. req[r].token \in Tokens
  BY DEF Shape
<1>1. CASE Lookup(r)
  <2>1. ~req[r].refreshed
    BY <1>1 DEF Lookup, DeservedIsServed
  <2>2. "fetch" \in Places
    BY DEF Places
  <2>3. req'[r].at # "refused"
    BY <1>1, <2>1, <2>2, GoEffect, MatchKidEffect DEF Lookup
  <2> QED  BY <2>3
<1>2. CASE FetchPut(r)
  <2>1. req[r].token.alg = "RS256" /\ req[r].at = "put"
    BY <1>2 DEF FetchPut, DeservedIsServed
  <2>2. req[r].token.kid \in published
    BY <2>1 DEF Deserves
  <2>3. req[r].token.kid \in req[r].keys
    BY <2>1, <2>2 DEF DeservedIsServed
  <2>4. req'[r].at = "decode"
    BY <1>2, <2>3, MatchKidEffect DEF FetchPut
  <2> QED  BY <2>4
<1>3. CASE FetchFails(r)
  BY <1>3, FailEffect
<1>4. CASE Decode(r)
  <2>1. SignatureVerified(req[r].token) /\ now < req[r].token.exp /\ req[r].token.claims
    BY DEF Deserves, SignatureVerified
  <2>2. PICK at \in {"accepted", "blacklist"} : Go(r, at)
    BY <1>4, <2>1 DEF Decode
  <2>3. at \in Places
    BY DEF Places
  <2>4. req'[r].at = at
    BY <2>2, <2>3, GoEffect
  <2> QED  BY <2>2, <2>4
<1>5. CASE CheckBlacklist(r)
  <2>1. CASE RevocationUnknown(r)
    BY <2>1, FailEffect
  <2>2. CASE Go(r, IF req[r].token.jti \in blacklist THEN "refused" ELSE "accepted")
    <3>1. req[r].token.jti \notin blacklist
      BY DEF Deserves, Shape
    <3>2. "accepted" \in Places
      BY DEF Places
    <3>3. req'[r].at = "accepted"
      BY <2>2, <3>1, <3>2, GoEffect
    <3> QED  BY <3>3
  <2> QED  BY <1>5, <2>1, <2>2 DEF CheckBlacklist
<1>6. CASE FetchReply(r)
  BY <1>6, ReplyEffect
<1>7. CASE Return(r)
  BY <1>7, ReturnEffect
<1> QED  BY <1>1, <1>2, <1>3, <1>4, <1>5, <1>6, <1>7 DEF ThreadStep, Begin

(* Only Begin leads to the first lookup, and only a lookup to a fetch.     *)
LEMMA FetchFollowsLookup ==
  ASSUME Shape, NEW r \in Threads, ThreadStep(r), req[r].at # "idle"
  PROVE  /\ req'[r].at # "lookup"
         /\ req'[r].at \in {"fetch", "put"} => req[r].at \in {"lookup", "fetch", "put"}
<1>1. CASE Lookup(r)
  <2>1. "fetch" \in Places
    BY DEF Places
  <2> QED  BY <1>1, <2>1, GoEffect, MatchKidEffect DEF Lookup
<1>2. CASE FetchReply(r) \/ FetchFails(r)
  BY <1>2, ReplyEffect, FailEffect DEF FetchReply
<1>3. CASE FetchPut(r)
  BY <1>3, MatchKidEffect DEF FetchPut
<1>4. CASE Decode(r) \/ CheckBlacklist(r)
  <2>1. CASE RevocationUnknown(r)
    BY <2>1, FailEffect
  <2>2. CASE ~RevocationUnknown(r)
    <3>1. PICK at \in {"refused", "accepted", "blacklist"} : Go(r, at)
      BY <1>4, <2>2, DecodeEffect
    <3>2. at \in Places
      BY DEF Places
    <3> QED  BY <3>1, <3>2, GoEffect
  <2> QED  BY <2>1, <2>2
<1>5. CASE Return(r)
  BY <1>5, ReturnEffect
<1> QED  BY <1>1, <1>2, <1>3, <1>4, <1>5 DEF ThreadStep, Begin

(* Every step keeps a deserving request on its way.                        *)
LEMMA ReasonNext ==
  ASSUME ReasonInv, ClockOfKeys, [Next]_vars
  PROVE  ReasonInv'
<1>0. Shape /\ Shape'
  BY ShapeNext DEF ReasonInv
<1>1. \A k \in KeyIds : lastPublished[k] # None => lastPublished'[k] # None
  BY KeysMoveForward DEF ReasonInv
<1>2. \A r \in Threads : req[r].at # "idle" /\ req[r].deserved /\ Deserves(req[r].token)'
        /\ req'[r].token = req[r].token => Deserves(req[r].token)
  <2> SUFFICES ASSUME NEW r \in Threads, req[r].at # "idle", req[r].deserved,
                      Deserves(req[r].token)', req'[r].token = req[r].token
               PROVE  Deserves(req[r].token)
    OBVIOUS
  <2> DEFINE t == req[r].token
  <2>1. t \in Tokens /\ (t.alg = "RS256" => lastPublished[t.kid] # None)
    BY <1>0 DEF ReasonInv, DeservedIsServed, Shape
  <2>2. ASSUME NEW u \in Tokens, u = t
        PROVE  Deserves(u)' => Deserves(t)
    BY <1>0, <2>1, <2>2, DeservingIsLost
  <2>3. PICK u \in Tokens : u = t
    BY <2>1
  <2>4. Deserves(u)'
    BY <2>3 DEF Deserves
  <2> QED  BY <2>2, <2>3, <2>4
<1>3. \A k \in KeyIds : lastPublished[k] # None /\ k \in published' => k \in published
  BY StepKinds DEF vars, Tick, PublishKey, RetireKey, Revoke, BlacklistExpires
<1> DEFINE Served(r) ==
      /\ req[r].at = "lookup" => ~req[r].refreshed /\ req[r].token.alg = "RS256"
      /\ req[r].at \in {"fetch", "put"} => req[r].token.alg = "RS256"
      /\ req[r].at # "idle" /\ req[r].deserved /\ req[r].token.alg = "RS256"
           => req[r].token.kid \in KeyIds /\ lastPublished[req[r].token.kid] # None
      /\ req[r].at = "put" /\ req[r].deserved /\ req[r].token.kid \in published
           => req[r].token.kid \in req[r].keys
    Reasoned(r) ==
      req[r].at = "refused" /\ req[r].deserved => req[r].failed \/ ~Deserves(req[r].token)
<1>4. \A r \in Threads : Served(r) /\ Reasoned(r)
  BY DEF ReasonInv, DeservedIsServed, RefusedForAReason
<1>5. ASSUME NEW r \in Threads, req'[r] = req[r]
      PROVE  Served(r)' /\ Reasoned(r)'
  <2>1. Served(r)'
    BY <1>1, <1>3, <1>4, <1>5
  <2>2. Reasoned(r)'
    BY <1>2, <1>4, <1>5
  <2> QED  BY <2>1, <2>2
<1>6. ASSUME NEW r \in Threads, ThreadStep(r),
             UNCHANGED <<now, published, lastPublished, blacklist, revoked>>
      PROVE  Served(r)' /\ Reasoned(r)'
  <2>0. \A t : Deserves(t)' <=> Deserves(t)
    BY <1>6 DEF Deserves
  <2>1. CASE \E t \in Tokens : Begin(r, t)
    <3>1. PICK t \in Tokens : Begin(r, t)
      BY <2>1
    <3>2. /\ req'[r].token = t /\ ~req'[r].refreshed /\ (req'[r].deserved <=> Deserves(t))
          /\ req'[r].at \in {"lookup", "decode", "refused"}
          /\ req'[r].at = "lookup" => t.alg = "RS256" /\ t.kid # None
      BY <1>0, <3>1, BeginEffect
    <3>3. req'[r].at = "refused" => ~Deserves(t)
      BY <1>0, <3>1, BeginEffect
    <3>4. Deserves(t) /\ t.alg = "RS256" => t.kid \in KeyIds /\ lastPublished[t.kid] # None
      BY <1>0, NamesAssumption DEF Deserves, ClockOfKeys, Shape
    <3> QED  BY <1>6, <2>0, <3>2, <3>3, <3>4
  <2>2. CASE Return(r)
    <3>1. req'[r].at = "idle"
      BY <1>0, <2>2, ReturnEffect
    <3> QED  BY <3>1
  <2>3. CASE /\ req'[r].token = req[r].token /\ req'[r].deserved = req[r].deserved
             /\ req[r].at # "idle"
    <3>1. /\ req'[r].at # "lookup"
          /\ req'[r].at \in {"fetch", "put"} => req[r].at \in {"lookup", "fetch", "put"}
      BY <1>0, <1>6, <2>3, FetchFollowsLookup
    <3>2. req'[r].at = "put" => req'[r].keys = published
      BY <1>0, <1>6, ThreadEffect, ReplyEffect
    <3>3. ASSUME req'[r].at = "refused", req[r].deserved, Deserves(req[r].token)
          PROVE  req'[r].failed
      <4>1. CASE req[r].at = "refused"
        <5>1. Return(r)
          BY <1>6, <4>1
          DEF ThreadStep, Begin, Lookup, FetchReply, FetchPut, FetchFails, Decode,
              CheckBlacklist
        <5> QED  BY <1>0, <3>3, <5>1, ReturnEffect
      <4>2. CASE req[r].at # "refused"
        BY <1>0, <1>6, <2>3, <3>3, <4>2, RefusalHasReason DEF ReasonInv
      <4> QED  BY <4>1, <4>2
    <3>4. Served(r)'
      BY <1>4, <1>6, <2>3, <3>1, <3>2
    <3>5. Reasoned(r)'
      BY <2>0, <2>3, <3>3
    <3> QED  BY <3>4, <3>5
  <2> QED  BY <1>0, <1>6, <2>1, <2>2, <2>3, ThreadEffect
<1>7. ASSUME NEW r \in Threads, ThreadStep(r),
             UNCHANGED <<now, published, lastPublished, blacklist, revoked>>
      PROVE  \A s \in Threads : Served(s)' /\ Reasoned(s)'
  BY <1>0, <1>5, <1>6, <1>7, ThreadEffect
<1>8. \A s \in Threads : Served(s)' /\ Reasoned(s)'
  BY <1>5, <1>7, StepKinds
  DEF vars, ThreadStep, Tick, PublishKey, RetireKey, Revoke, BlacklistExpires
<1> QED  BY <1>0, <1>8 DEF ReasonInv, DeservedIsServed, RefusedForAReason

(* A token that deserves acceptance from the start of its request to the   *)
(* end of it is refused only when a call of that request failed: neither a *)
(* rotation, nor an outdated cache, nor another thread's failing fetch is  *)
(* a reason.                                                               *)
THEOREM RefusalsAreDeserved == Spec => []RefusedForAReason
<1>1. Init => ReasonInv /\ AgeInv
  BY ShapeInit
  DEF Init, ReasonInv, DeservedIsServed, RefusedForAReason, AgeInv, ClockOfKeys,
      RepliesAreRecent, CacheIsRecent, Idle
<1>2. ReasonInv /\ AgeInv /\ [Next]_vars => ReasonInv' /\ AgeInv'
  BY ReasonNext, AgeNext DEF AgeInv
<1>3. ReasonInv => RefusedForAReason
  BY DEF ReasonInv
<1> QED  BY <1>1, <1>2, <1>3, PTL DEF Spec
=============================================================================
