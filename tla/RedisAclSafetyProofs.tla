------------------------ MODULE RedisAclSafetyProofs ------------------------
(***************************************************************************)
(* What scripts/redis_acl_safety.py guarantees for any number of callers,  *)
(* endpoints and servers.                                                  *)
(*                                                                         *)
(* A command that is not on the production allowlist gets through a gate   *)
(* only when the gate is one of the two disposable ones, and such a gate   *)
(* exists only because its nonce was read back from the server it is for.  *)
(* The argument follows that chain: only test servers carry a nonce, so a  *)
(* disposable gate was constructed for an endpoint that leads to one, and  *)
(* it stays that gate in the session it is handed to.  Where that session  *)
(* is connected is the caller's choice, and nothing is proved about it.    *)
(***************************************************************************)
EXTENDS RedisAclSafety, TLAPS

Attestation == [endpoint : Endpoints, nonce_value : Nonces]
CommandGates == [kind : Gates, endpoint : Endpoints \cup {None}]
Session ==
  [endpoint : Endpoints, gate : CommandGates, user : Identities \cup {Default},
   username : Identities, expected_identity : Identities,
   at : {"auth", "whoami", "run"}, reconnected : BOOLEAN]

(* The shape of the callers' objects and of the servers' nonces.           *)
Shape ==
  /\ nonce \in [Instances -> Nonces \cup {None}]
  /\ attestation \in [Callers -> Attestation \cup {None}]
  /\ gate \in [Callers -> CommandGates \cup {None}]
  /\ session \in [Callers -> Session \cup {None}]

(* A nonce is only ever found on test infrastructure.                      *)
NonceMarksDisposable ==
  \A i \in Instances : nonce[i] # None => i \in Disposable

(* A gate that lets more through than production's was constructed for an  *)
(* endpoint that leads to a test server, whatever was attested about it.   *)
Earned(g) ==
  g.kind # "ProductionValidator" =>
    g.endpoint \in Endpoints /\ Reaches[g.endpoint] \in Disposable

GatesAreEarned == \A c \in Callers : gate[c] # None => Earned(gate[c])

(* The same of the gate that a session was given.                          *)
SessionsAreGuarded == \A c \in Callers : session[c] # None => Earned(session[c].gate)

(* A session that authenticate() has handed out is logged in as it should  *)
(* be, unless its connection was replaced since.                           *)
SessionsAreConfirmed ==
  \A c \in Callers : session[c] # None /\ session[c].at = "run"
    => session[c].user = session[c].expected_identity \/ session[c].reconnected

ExposureInv ==
  /\ Shape /\ NonceMarksDisposable /\ GatesAreEarned /\ SessionsAreGuarded
  /\ WideGatesAreEarned

IdentityInv == Shape /\ SessionsAreConfirmed /\ RunsAsExpected

-----------------------------------------------------------------------------
(* What classify_environment's verdict is worth.  DISPOSABLE is answered   *)
(* only for an endpoint whose server holds a nonce.                        *)
LEMMA DisposableVerdict ==
  ASSUME NEW e \in Endpoints, NEW a \in Attestation \cup {None},
         nonce \in [Instances -> Nonces \cup {None}], NonceMarksDisposable,
         classify_environment(e, a) = "DISPOSABLE"
  PROVE  Reaches[e] \in Disposable
<1>1. /\ e \notin ProductionPort /\ a # None
      /\ nonce[Reaches[e]] = a.nonce_value
  BY DEF classify_environment
<1>2. a.nonce_value \in Nonces
  BY <1>1 DEF Attestation
<1>3. Reaches[e] \in Instances /\ nonce[Reaches[e]] # None
  BY <1>1, <1>2, EndpointsAssumption, NamesAssumption
<1> QED  BY <1>3 DEF NonceMarksDisposable

(* Every step keeps the callers' objects and the nonces in their shape.    *)
LEMMA ShapeNext ==
  ASSUME Shape, [Next]_vars
  PROVE  Shape'
<1> USE DEF Shape
<1>1. CASE UNCHANGED vars
  BY <1>1 DEF vars
<1>2. ASSUME NEW i \in Instances, NEW n \in Nonces, Bootstrap(i, n)
      PROVE  Shape'
  BY <1>2 DEF Bootstrap
<1>3. ASSUME NEW c \in Callers, Step(c)
      PROVE  Shape'
  <2>1. ASSUME NEW e \in Endpoints, NEW n \in Nonces, Attest(c, e, n)
        PROVE  Shape'
    BY <2>1 DEF Attest, Attestation
  <2>2. CASE NewProductionValidator(c)
    BY <2>2 DEF NewProductionValidator, CommandGate, CommandGates, Gates
  <2>3. ASSUME NEW kind \in Gates \ {"ProductionValidator"}, NEW e \in Endpoints,
               NewDisposableGate(c, kind, e)
        PROVE  Shape'
    BY <2>3 DEF NewDisposableGate, CommandGate, CommandGates
  <2>4. ASSUME NEW e \in Endpoints, NEW u \in Identities, NEW x \in Identities,
               Connect(c, e, u, x)
        PROVE  Shape'
    <3>1. gate[c] \in CommandGates
      BY <2>4 DEF Connect
    <3> QED  BY <2>4, <3>1 DEF Connect, Open, Connection, Session
  <2>5. ASSUME NEW e \in Endpoints, NEW u \in Identities, NEW x \in Identities,
               ConnectProduction(c, e, u, x)
        PROVE  Shape'
    BY <2>5 DEF ConnectProduction, Open, Connection, Session, CommandGate, CommandGates, Gates
  <2>6. ASSUME NEW accepted \in BOOLEAN, Auth(c, accepted)
        PROVE  Shape'
    BY <2>6 DEF Auth, FailClosed, CloseSession, Session
  <2>7. CASE Whoami(c)
    BY <2>7 DEF Whoami, FailClosed, CloseSession, Session
  <2>8. CASE CallFails(c)
    BY <2>8 DEF CallFails, FailClosed, CloseSession
  <2>9. CASE Close(c)
    BY <2>9 DEF Close, CloseSession
  <2>10. CASE ConnectionDrops(c)
    <3> DEFINE dropped == [session[c] EXCEPT !.user = Default, !.reconnected = TRUE]
    <3>1. session' = [session EXCEPT ![c] = dropped] /\ session[c] \in Session
      BY <2>10 DEF ConnectionDrops
    <3>2. dropped \in Session
      BY <3>1 DEF Session
    <3> HIDE DEF dropped
    <3>3. session' \in [Callers -> Session \cup {None}]
      BY <3>1, <3>2
    <3> QED  BY <2>10, <3>3 DEF ConnectionDrops
  <2>11. ASSUME NEW cmd \in Commands, Run(c, cmd)
         PROVE  Shape'
    BY <2>11 DEF Run
  <2> QED  BY <1>3, <2>1, <2>2, <2>3, <2>4, <2>5, <2>6, <2>7, <2>8, <2>9, <2>10, <2>11
           DEF Step
<1> QED  BY <1>1, <1>2, <1>3 DEF Next

-----------------------------------------------------------------------------
(* Nonces are written by the bootstrap of a test server and removed by a   *)
(* FLUSHALL; no call spreads one to another server.                        *)
LEMMA NonceNext ==
  ASSUME Shape, NonceMarksDisposable, [Next]_vars
  PROVE  NonceMarksDisposable'
<1> USE DEF NonceMarksDisposable, Shape
<1>1. CASE UNCHANGED nonce
  BY <1>1
<1>2. ASSUME NEW i \in Instances, NEW n \in Nonces, Bootstrap(i, n)
      PROVE  NonceMarksDisposable'
  BY <1>2 DEF Bootstrap
<1>3. ASSUME NEW c \in Callers, NEW cmd \in Commands, Run(c, cmd)
      PROVE  NonceMarksDisposable'
  BY <1>3 DEF Run
<1> QED
  BY <1>1, <1>2, <1>3
  DEF Next, Step, vars, Attest, NewProductionValidator, NewDisposableGate, Connect,
      ConnectProduction, Open, Auth, Whoami, CallFails, Close, ConnectionDrops

(* A disposable gate comes into being only behind classify_environment,    *)
(* and a gate is never changed.                                            *)
LEMMA GatesNext ==
  ASSUME Shape, NonceMarksDisposable, GatesAreEarned, [Next]_vars
  PROVE  GatesAreEarned'
<1> USE DEF GatesAreEarned, Earned, Shape
<1>1. CASE UNCHANGED gate
  BY <1>1
<1>2. ASSUME NEW c \in Callers, NewProductionValidator(c)
      PROVE  GatesAreEarned'
  BY <1>2 DEF NewProductionValidator, CommandGate
<1>3. ASSUME NEW c \in Callers, NEW kind \in Gates, NEW e \in Endpoints,
             NewDisposableGate(c, kind, e)
      PROVE  GatesAreEarned'
  <2>1. Reaches[e] \in Disposable
    BY <1>3, DisposableVerdict DEF NewDisposableGate
  <2> QED  BY <1>3, <2>1 DEF NewDisposableGate, CommandGate
<1> QED
  BY <1>1, <1>2, <1>3
  DEF Next, Step, vars, Bootstrap, Attest, Connect, ConnectProduction, Open, Auth,
      Whoami, CallFails, Close, ConnectionDrops, Run

(* A session's gate is the one its caller holds, or production's own.      *)
LEMMA SessionsNext ==
  ASSUME Shape, GatesAreEarned, SessionsAreGuarded, [Next]_vars
  PROVE  SessionsAreGuarded'
<1> USE DEF SessionsAreGuarded, Shape
<1>1. CASE UNCHANGED session
  BY <1>1
<1>2. ASSUME NEW c \in Callers, NEW e \in Endpoints, NEW u \in Identities,
             NEW x \in Identities, Connect(c, e, u, x)
      PROVE  SessionsAreGuarded'
  <2>1. Earned(gate[c])
    BY <1>2 DEF Connect, GatesAreEarned
  <2> QED  BY <1>2, <2>1 DEF Connect, Open, Connection
<1>3. ASSUME NEW c \in Callers, NEW e \in Endpoints, NEW u \in Identities,
             NEW x \in Identities, ConnectProduction(c, e, u, x)
      PROVE  SessionsAreGuarded'
  BY <1>3 DEF ConnectProduction, Open, Connection, CommandGate, Earned
<1>4. ASSUME NEW c \in Callers, NEW accepted \in BOOLEAN, Auth(c, accepted)
      PROVE  SessionsAreGuarded'
  BY <1>4 DEF Auth, FailClosed, CloseSession, Session
<1>5. ASSUME NEW c \in Callers,
             Whoami(c) \/ CallFails(c) \/ Close(c) \/ ConnectionDrops(c)
      PROVE  SessionsAreGuarded'
  BY <1>5 DEF Whoami, CallFails, Close, ConnectionDrops, FailClosed, CloseSession, Session
<1> QED
  BY <1>1, <1>2, <1>3, <1>4, <1>5
  DEF Next, Step, vars, Bootstrap, Attest, NewProductionValidator, NewDisposableGate, Run

(* "Structurally cannot be constructed for a non-disposable target": a     *)
(* command outside the production allowlist is sent only under a gate      *)
(* whose constructor read the nonce back from a test server.  A wrong      *)
(* attestation, a forwarded port, a nonce rewritten by another caller, a   *)
(* FLUSHALL that removes it and a reconnect do not matter.                 *)
THEOREM ExposureIsEarned == Spec => []WideGatesAreEarned
<1>1. Init => ExposureInv
  BY DEF Init, ExposureInv, Shape, NonceMarksDisposable, GatesAreEarned,
         SessionsAreGuarded, WideGatesAreEarned
<1>2. ExposureInv /\ [Next]_vars => ExposureInv'
  <2> SUFFICES ASSUME ExposureInv, [Next]_vars
               PROVE  ExposureInv'
    OBVIOUS
  <2> USE DEF ExposureInv
  <2>1. Shape' /\ NonceMarksDisposable' /\ GatesAreEarned' /\ SessionsAreGuarded'
    BY ShapeNext, NonceNext, GatesNext, SessionsNext
  <2>2. WideGatesAreEarned'
    <3> USE DEF WideGatesAreEarned
    <3>1. CASE UNCHANGED sent
      BY <3>1
    <3>2. ASSUME NEW c \in Callers, NEW cmd \in Commands, Run(c, cmd)
          PROVE  WideGatesAreEarned'
      <4>1. session[c] \in Session /\ session[c] # None
        BY <3>2 DEF Run, Shape
      <4>2. cmd # "allowed" => session[c].gate.kind # "ProductionValidator"
        BY <3>2, <4>1 DEF Run, authorize
      <4>3. Earned(session[c].gate)
        BY <4>1 DEF SessionsAreGuarded
      <4> QED  BY <3>2, <4>2, <4>3, NamesAssumption DEF Run, Earned
    <3> QED
      BY <3>1, <3>2
      DEF Next, Step, vars, Bootstrap, Attest, NewProductionValidator, NewDisposableGate,
          Connect, ConnectProduction, Open, Auth, Whoami, CallFails, Close, ConnectionDrops
  <2> QED  BY <2>1, <2>2
<1>3. ExposureInv => WideGatesAreEarned
  BY DEF ExposureInv
<1> QED  BY <1>1, <1>2, <1>3, PTL DEF Spec

-----------------------------------------------------------------------------
(* A session is handed out only by ACL WHOAMI, which finds the expected    *)
(* identity, and only a reconnect changes who is logged in after that.     *)
LEMMA ConfirmedNext ==
  ASSUME Shape, SessionsAreConfirmed, [Next]_vars
  PROVE  SessionsAreConfirmed'
<1> USE DEF SessionsAreConfirmed, Shape
<1>1. CASE UNCHANGED session
  BY <1>1
<1>2. ASSUME NEW c \in Callers, NEW conn, conn.at = "auth", Open(c, conn)
      PROVE  SessionsAreConfirmed'
  BY <1>2 DEF Open
<1>3. ASSUME NEW c \in Callers, NEW accepted \in BOOLEAN, Auth(c, accepted)
      PROVE  SessionsAreConfirmed'
  BY <1>3 DEF Auth, FailClosed, CloseSession, Session
<1>4. ASSUME NEW c \in Callers, Whoami(c)
      PROVE  SessionsAreConfirmed'
  BY <1>4 DEF Whoami, identity_confirmed, FailClosed, CloseSession, Session
<1>5. ASSUME NEW c \in Callers, CallFails(c) \/ Close(c) \/ ConnectionDrops(c)
      PROVE  SessionsAreConfirmed'
  BY <1>5 DEF CallFails, Close, ConnectionDrops, FailClosed, CloseSession, Session
<1>6. ASSUME NEW e, NEW g, NEW u, NEW x
      PROVE  Connection(e, g, u, x).at = "auth"
  BY DEF Connection
<1> QED
  BY <1>1, <1>2, <1>3, <1>4, <1>5, <1>6
  DEF Next, Step, vars, Connect, ConnectProduction, Bootstrap, Attest,
      NewProductionValidator, NewDisposableGate, Run

(* The incident cannot recur: no command runs as anyone but the identity   *)
(* that was asked for on the connection that ACL WHOAMI confirmed, whether *)
(* AUTH failed, was lost, or logged in somebody else.                      *)
THEOREM IdentityIsConfirmed == Spec => []RunsAsExpected
<1>1. Init => IdentityInv
  BY DEF Init, IdentityInv, Shape, SessionsAreConfirmed, RunsAsExpected
<1>2. IdentityInv /\ [Next]_vars => IdentityInv'
  <2> SUFFICES ASSUME IdentityInv, [Next]_vars
               PROVE  IdentityInv'
    OBVIOUS
  <2> USE DEF IdentityInv
  <2>1. Shape' /\ SessionsAreConfirmed'
    BY ShapeNext, ConfirmedNext
  <2>2. RunsAsExpected'
    <3> USE DEF RunsAsExpected
    <3>1. CASE UNCHANGED sent
      BY <3>1
    <3>2. ASSUME NEW c \in Callers, NEW cmd \in Commands, Run(c, cmd)
          PROVE  RunsAsExpected'
      BY <3>2 DEF Run, SessionsAreConfirmed
    <3> QED
      BY <3>1, <3>2
      DEF Next, Step, vars, Bootstrap, Attest, NewProductionValidator, NewDisposableGate,
          Connect, ConnectProduction, Open, Auth, Whoami, CallFails, Close, ConnectionDrops
  <2> QED  BY <2>1, <2>2
<1>3. IdentityInv => RunsAsExpected
  BY DEF IdentityInv
<1> QED  BY <1>1, <1>2, <1>3, PTL DEF Spec
=============================================================================
