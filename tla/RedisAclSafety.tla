--------------------------- MODULE RedisAclSafety ---------------------------
(***************************************************************************)
(* scripts/redis_acl_safety.py: validating a Redis ACL identity without    *)
(* repeating the incident in which a failed AUTH left a connection logged  *)
(* in as `default` and a FLUSHALL sent on it ran in production.            *)
(*                                                                         *)
(* Callers attest that an endpoint is disposable, build a command gate for *)
(* it (which re-verifies the attestation on the live instance), and        *)
(* authenticate a session whose every command passes the gate.  Several    *)
(* endpoints may lead to one instance: a forwarded port of production is   *)
(* an endpoint whose port is not the production port.  One action per call *)
(* that reaches Redis, so that the connection may drop between two calls   *)
(* and another caller may rewrite the nonce.                               *)
(*                                                                         *)
(* Commands are abstracted to the classes the gates tell apart, host and   *)
(* port to an endpoint, and a password to whether AUTH accepts it.  Error  *)
(* classes and messages are left out: every refusal is one.                *)
(***************************************************************************)
EXTENDS Naturals

CONSTANTS
  Callers,          \* processes that use the module
  Endpoints,        \* the (host, port) pairs
  ProductionPort,   \* the endpoints whose port is PRODUCTION_PORT
  Instances,        \* the Redis servers
  Disposable,       \* the servers that really are test infrastructure
  Reaches,          \* which server an endpoint leads to
  Nonces,           \* nonce values
  Identities,       \* the ACL users that callers authenticate as
  Default,          \* the nopass user of every fresh connection
  None,             \* no attestation, gate, connection, nonce or command
  MaxDrops          \* bound: how many calls fail and connections drop

ASSUME EndpointsAssumption ==
  /\ ProductionPort \subseteq Endpoints /\ Disposable \subseteq Instances
  /\ Reaches \in [Endpoints -> Instances]
ASSUME ProductionAssumption == \A e \in ProductionPort : Reaches[e] \notin Disposable
ASSUME NamesAssumption ==
  /\ Default \notin Identities
  /\ None \notin Endpoints \cup Nonces \cup Identities \cup {Default}

VARIABLES
  nonce,        \* the value under nonce_key on each server, or None
  attestation,  \* each caller's DisposableAttestation, or None
  gate,         \* each caller's CommandGate, or None
  session,      \* each caller's connection, or None
  sent,         \* history: the last command that reached a server, or None
  drops         \* how much of MaxDrops is spent

vars == <<nonce, attestation, gate, session, sent, drops>>

(* PRODUCTION_ALLOWED_COMMANDS; ordinary ones; DANGEROUS_COMMANDS.         *)
Commands == {"allowed", "ordinary", "dangerous"}
Gates    == {"ProductionValidator", "DisposableValidator", "DisposableNegativeTestGate"}

(* A gate, with the endpoint it was constructed for: the code verifies     *)
(* that endpoint in the constructor and forgets it.                        *)
CommandGate(kind, e) == [kind |-> kind, endpoint |-> e]

Init ==
  /\ nonce = [i \in Instances |-> None]
  /\ attestation = [c \in Callers |-> None]
  /\ gate = [c \in Callers |-> None]
  /\ session = [c \in Callers |-> None]
  /\ sent = None /\ drops = 0

Fault == drops < MaxDrops /\ drops' = drops + 1

-----------------------------------------------------------------------------
(* The caller's own bootstrap code writes a nonce on its test instance.    *)
Bootstrap(i, n) ==
  /\ i \in Disposable
  /\ nonce' = [nonce EXCEPT ![i] = n]
  /\ UNCHANGED <<attestation, gate, session, sent, drops>>

(* DisposableAttestation.__post_init__ refuses the production port (and    *)
(* empty fields); anything else a caller may assert, rightly or not.       *)
Attest(c, e, n) ==
  /\ e \notin ProductionPort
  /\ attestation' = [attestation EXCEPT ![c] = [endpoint |-> e, nonce_value |-> n]]
  /\ UNCHANGED <<nonce, gate, session, sent, drops>>

\* Mutant: the nonce is not read back.
MutantTrustAttestation(e, a) ==
  IF e \in ProductionPort  THEN "PRODUCTION"
  ELSE IF a = None         THEN "UNKNOWN"
  ELSE IF a.endpoint # e   THEN "error"
  ELSE "DISPOSABLE"

(* classify_environment, when its probe succeeds.                          *)
classify_environment(e, a) ==
  IF e \in ProductionPort                                         THEN "PRODUCTION"
  ELSE IF a = None                                                THEN "UNKNOWN"
  ELSE IF a.endpoint # e \/ nonce[Reaches[e]] # a.nonce_value     THEN "error"
  ELSE "DISPOSABLE"

(* ProductionValidator has no target of its own.                           *)
NewProductionValidator(c) ==
  /\ gate' = [gate EXCEPT ![c] = CommandGate("ProductionValidator", None)]
  /\ UNCHANGED <<nonce, attestation, session, sent, drops>>

(* DisposableValidator.__init__ and DisposableNegativeTestGate.__init__:   *)
(* anything but DISPOSABLE, a failing probe included, and there is no      *)
(* gate.                                                                   *)
NewDisposableGate(c, kind, e) ==
  /\ classify_environment(e, attestation[c]) = "DISPOSABLE"
  /\ gate' = [gate EXCEPT ![c] = CommandGate(kind, e)]
  /\ UNCHANGED <<nonce, attestation, session, sent, drops>>

(* CommandGate.authorize of each gate.                                     *)
authorize(g, cmd) ==
  CASE g.kind = "ProductionValidator"        -> cmd = "allowed"
    [] g.kind = "DisposableValidator"        -> cmd # "dangerous"
    [] g.kind = "DisposableNegativeTestGate" -> TRUE

-----------------------------------------------------------------------------
(* A connection: the server's idea of who is logged in on it, what the     *)
(* caller asked for, how far authenticate() has come, and whether redis-py *)
(* has had to reconnect it since ACL WHOAMI.  redis-py opens it while      *)
(* constructing the client, as Default.                                    *)
Connection(e, g, username, expected) ==
  [endpoint |-> e, gate |-> g, user |-> Default, username |-> username,
   expected_identity |-> expected, at |-> "auth", reconnected |-> FALSE]

Open(c, conn) ==
  /\ session[c] = None
  /\ session' = [session EXCEPT ![c] = conn]
  /\ UNCHANGED <<nonce, attestation, gate, sent, drops>>

(* authenticate(), up to its AUTH: the gate is an argument, and is not     *)
(* compared with host and port, so e is any endpoint.                      *)
Connect(c, e, username, expected) ==
  /\ gate[c] # None
  /\ Open(c, Connection(e, gate[c], username, expected))

(* authenticate_production: only the production port, and its own gate.    *)
ConnectProduction(c, e, username, expected) ==
  /\ e \in ProductionPort
  /\ Open(c, Connection(e, CommandGate("ProductionValidator", None), username, expected))

CloseSession(c) == session' = [session EXCEPT ![c] = None]

\* Mutant: after a failed AUTH the connection stays, as in the incident.
MutantKeepOpen(c) == session' = [session EXCEPT ![c].at = "run"]

(* The except clauses of authenticate(): whatever failed, the connection   *)
(* is closed before control returns.                                       *)
FailClosed(c) == CloseSession(c)

(* AUTH is accepted and changes the connection's user, or is refused and   *)
(* leaves it as it was; the reply, or the connection, may be lost.         *)
Auth(c, accepted) ==
  /\ session[c] # None /\ session[c].at = "auth"
  /\ IF accepted
       THEN session' = [session EXCEPT ![c].user = session[c].username, ![c].at = "whoami"]
       ELSE FailClosed(c)
  /\ UNCHANGED <<nonce, attestation, gate, sent, drops>>

(* The comparison of ACL WHOAMI's answer with expected_identity.           *)
identity_confirmed(conn) == conn.user = conn.expected_identity

(* ACL WHOAMI, through the gate, and the comparison.                       *)
Whoami(c) ==
  /\ session[c] # None /\ session[c].at = "whoami"
  /\ IF authorize(session[c].gate, "allowed") /\ identity_confirmed(session[c])
       THEN session' = [session EXCEPT ![c].at = "run", ![c].reconnected = FALSE]
       ELSE FailClosed(c)
  /\ UNCHANGED <<nonce, attestation, gate, sent, drops>>

(* A call of authenticate() fails on the wire.                             *)
CallFails(c) ==
  /\ session[c] # None /\ session[c].at \in {"auth", "whoami"}
  /\ Fault
  /\ FailClosed(c)
  /\ UNCHANGED <<nonce, attestation, gate, sent>>

(* AuthenticatedSession.run: authorize, then execute_command.  What a      *)
(* dangerous command does when Redis's own ACL lets it: the nonce is gone. *)
Run(c, cmd) ==
  /\ session[c] # None /\ session[c].at = "run"
  /\ authorize(session[c].gate, cmd)
  /\ LET i == Reaches[session[c].endpoint] IN
       /\ sent' = [instance |-> i, command |-> cmd, gate |-> session[c].gate,
                   user |-> session[c].user,
                   expected |-> session[c].expected_identity,
                   reconnected |-> session[c].reconnected]
       /\ nonce' \in {nonce} \cup
            IF cmd = "dangerous" THEN {[nonce EXCEPT ![i] = None]} ELSE {}
  /\ UNCHANGED <<attestation, gate, session, drops>>

(* AuthenticatedSession.close.                                             *)
Close(c) ==
  /\ session[c] # None /\ session[c].at = "run"
  /\ CloseSession(c)
  /\ UNCHANGED <<nonce, attestation, gate, sent, drops>>

(* The server or the network drops an idle connection.  redis-py reopens   *)
(* it at the next command, and knows no credentials to log in with.        *)
ConnectionDrops(c) ==
  /\ session[c] # None /\ session[c].at \in {"whoami", "run"}
  /\ Fault
  /\ session' = [session EXCEPT ![c].user = Default, ![c].reconnected = TRUE]
  /\ UNCHANGED <<nonce, attestation, gate, sent>>

-----------------------------------------------------------------------------
Step(c) ==
  \/ \E e \in Endpoints, n \in Nonces : Attest(c, e, n)
  \/ NewProductionValidator(c)
  \/ \E kind \in Gates \ {"ProductionValidator"}, e \in Endpoints : NewDisposableGate(c, kind, e)
  \/ \E e \in Endpoints, u, x \in Identities :
       Connect(c, e, u, x) \/ ConnectProduction(c, e, u, x)
  \/ \E accepted \in BOOLEAN : Auth(c, accepted)
  \/ Whoami(c) \/ CallFails(c) \/ Close(c) \/ ConnectionDrops(c)
  \/ \E cmd \in Commands : Run(c, cmd)

Next ==
  \/ \E i \in Instances, n \in Nonces : Bootstrap(i, n)
  \/ \E c \in Callers : Step(c)

Spec == Init /\ [][Next]_vars

-----------------------------------------------------------------------------
(* The module's promise to make the incident "structurally impossible for  *)
(* any caller that uses it", with ProductionValidator "the only gate       *)
(* usable for PRODUCTION or UNKNOWN environments": a command outside the   *)
(* production allowlist reaches only a disposable server.  authenticate()  *)
(* does not keep it: a gate constructed for a test server also guards a    *)
(* session at an endpoint of production.                                   *)
OnlyDisposableIsExposed ==
  sent # None /\ sent.command # "allowed" => sent.instance \in Disposable

(* What the gates do guarantee: whatever was attested, through whatever    *)
(* port, however the nonces changed meanwhile, a command outside the       *)
(* allowlist is sent only under a gate that was constructed for a server   *)
(* that is disposable, and so reaches another one only when the session    *)
(* was opened elsewhere than where its gate was constructed for.           *)
WideGatesAreEarned ==
  sent # None /\ sent.command # "allowed" =>
    /\ sent.gate.endpoint # None
    /\ Reaches[sent.gate.endpoint] \in Disposable

(* No command runs as anyone but the identity that the caller asked for,   *)
(* in particular not as `default` after a failed AUTH, as long as the      *)
(* connection that ACL WHOAMI confirmed is the one that is used.           *)
RunsAsExpected ==
  sent # None => sent.user = sent.expected \/ sent.reconnected
=============================================================================
