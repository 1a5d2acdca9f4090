# A TLA+ model of the Security Audit service

The Security Audit service takes security events from the platform's services,
carries them over a Redis stream, verifies and classifies them, and keeps them
in MySQL, where nothing may be changed and only an approved retention run may
delete. This directory models the parts of it whose correctness depends on
order, concurrency, failure or time, checks them with TLC on small instances,
and proves with TLAPS, for instances of any size, the safety properties that the
passing runs check, all but one.

Source paths below are relative to the repository's root.

## Inventory

| Component | State it keeps | Operations | Hard behaviour | What makes it correct |
|---|---|---|---|---|
| Producer (`audit/logger.py`, `audit/models.py`) | the stream | `AuditLogger.log`: XADD with approximate MAXLEN | trimming removes unread and pending entries; a failed XADD is swallowed | an entry is in the stream once |
| Worker (`worker/main.py`) | what it has in hand; the time of its last group recreation | `run`, `sweep_pending`, `handle_message`, `quarantine_and_ack`, `_handle_nogroup` | replicas race; a crash or a lost reply falls between any two calls; the group may vanish | acknowledgement only after commit; every event settles; nothing stays pending |
| Stream reader (`consumers/stream_reader.py`) | the consumer group: cursor, PEL with delivery counts and idle times (all in Redis) | `ensure_group`, `read_group`, `ack`, `claim_stale` | XPENDING replies are stale when acted on; COUNT limits | an existing group is never reset; deliveries are bounded |
| Sinks (`consumers/sink.py`, `consumers/quarantine.py`) | `audit_events`, `quarantined_audit_events` | insert; a duplicate key is a no-op | a commit whose reply is lost | one row per event; evidence is kept |
| Classification (`consumers/processor.py`, `audit/signing.py`) | none | parse, verify, classify | payloads of every form | a category the schema knows, for every payload |
| Retention (`scripts/audit_retention_cleanup.py`) | open transactions, the status file and its `.tmp` | count, delete, commit, report, alert | holds placed between statements; overlapping runs; failing commits | only expired, unheld rows go; success is never claimed for less |
| Triggers and holds (`alembic/versions/0005_retention_immutability.py`), identities (`scripts/provision_audit_db_users.py`) | `audit_legal_holds` | reject UPDATE; reject DELETE except by the maintenance identity of an unheld row | which identity a trigger sees | held rows survive |
| Record integrity (`audit/record_integrity.py`) | hash and key ID in each row | canonical message, HMAC, verification | rounding, time zones, three generations of rows | what is hashed is what is recomputed |
| Verifier (`scripts/verify_audit_integrity.py`) | keyring, status file | scan both tables, report, alert | key rotation at two places; failure between detection and alert | no false alarm; a pass means intact, as far as the message tells rows apart |
| Alerts (`audit/security_alerts.py`) | `_LAST_SENT` of each process | deduplicated emission | threads pass the lock in another order than they read the clock; a sink that fails | no storm; no condition silenced for longer than a window |
| Health (`services/audit_health_service.py`, `api/routes_audit_health.py`) | none | five Redis calls and one MySQL transaction per request | the pipeline moves between two calls; any of them may fail | an all-clear is true |
| Query service and routes (`services/audit_query_service.py`, `api/routes_audit_events.py`, `api/routes_audit_safe.py`, `api/deps*.py`) | none; a client on its way through the pages | authorize, scope, filter, count, page | the table changes between two pages | an organisation is given its own rows only; no current row is missed |
| Tokens and identity (`audit/jwt_verify.py`, `audit/identity.py`) | the JWKS cache, shared by threads | decode by `alg`, key lookup, revocation check | rotation and revocation while a request runs; failing and slow fetches | retired keys age out; revoked tokens are refused; good ones are not |
| Redis ACL tool (`scripts/redis_acl_safety.py`) | attestations, gates, sessions | attest, classify, build a gate, authenticate, run, close | a refused AUTH leaves `default` logged in; several endpoints lead to one server | only a gate earned at a disposable server lets more than the allowlist through; commands run as who was asked for |

The components meet in five places. Producers and workers share the Redis
stream. Workers share the consumer group, and with it every pending entry. The
worker writes the rows that retention deletes and the verifier and the query
service read. A health request reads the group and the tables of a pipeline at
work. All
processes report through `emit_security_alert`.

`PROJECT.json` lists every component with its status, the lines each
definition stands for, and the hazards the properties are aimed at.

## Modules

| Module | Models | Extends |
|---|---|---|
| `AuditConsumers` | payload forms; parsing, signature check, classification, the rows the sinks build | |
| `AuditPipeline` | Redis, MySQL, producers and workers: the whole delivery path | `AuditConsumers` |
| `DeliveryContract` | what the delivery path promises, with no stream, group, worker or retry | |
| `RetentionCleanup` | the ledger with its triggers, grants and holds, and retention runs | |
| `RecordIntegrity` | writer, stored rows, key rotation, verifier | |
| `SecurityAlerts` | alert deduplication in workers and API threads; health findings | |
| `PipelineHealth` | health requests, call by call, next to the pipeline | `AuditPipeline` |
| `AuditQuery` | authorization, tenant scope and pagination over a changing table | |
| `TokenVerification` | `verify_token` in several threads, key rotation, revocation | |
| `RedisAclSafety` | attestation, command gates, authenticated sessions | |
| `AuditPipelineProofs` | proofs: types, durability, no loss, idempotence, evidence, the contract, bounded deliveries | `AuditPipeline` |
| `PipelineHealthProofs` | proof that an all-clear can be trusted | `PipelineHealth`, `AuditPipelineProofs` |
| `RetentionProofs`, `RecordIntegrityProofs`, `SecurityAlertsProofs`, `AuditQueryProofs`, `TokenVerificationProofs`, `RedisAclSafetyProofs` | proofs of the safety properties of each | `RetentionCleanup`, `RecordIntegrity`, ... |
| `MC...` | constants for TLC, and the documented claims that the code does not keep | the module named |

### AuditPipeline

Each action is one call that leaves the process, so that another worker, a
producer, a crash or a failure can come between any two of them.

| Code | Action |
|---|---|
| `run` before its loop, `ensure_group` | `Start` |
| `claim_stale`: XPENDING, XRANGE per poison entry, XCLAIM | `ListStale`, `FetchPoison`, `Claim` |
| `quarantine_and_ack` up to the commit | `Quarantine` |
| `handle_message` up to the commit | `Persist` |
| the XACK that ends either | `Ack` |
| `read_group` | `ReadGroup` |
| `_handle_nogroup`, with or without recreation | `RecreateGroup`, `LeaveNogroup` |
| an exception that leaves `run`, a kill, a restart | `Terminate` (part of the calls that raise), `Crash`, `Restart` |
| `AuditLogger.log` | `Log` |
| `PEL_MIN_IDLE_MS` passes; an operator deletes the stream or group | `IdleElapses`, `DeleteGroup` |

Every call has an outcome: `"done"`, `"failed"` (no effect, the caller sees an
exception) or `"lost"` (the effect happened, the caller sees an exception).
The last two, crashes and deletions draw on one budget, `MaxFaults`.

State: `log` is everything ever published, `stream` the IDs that are left;
`group`, `cursor`, `times` and `stale` are the consumer group; `auditEvents`
and `quarantined` are the tables; `pc`, `phase`, `snap`, `fetched`, `gone`,
`batch` and `due` are the local variables of each worker. `acked` is a history
variable.

Abstractions. Consumer names are left out: Redis records them and no code reads
them. Alerts are left out here: `emit_security_alert` never raises and nothing
depends on it. Of the recreation backoff the model keeps whether it has surely
elapsed (`due`, true after the sleep on the `read_group` path); when it may or
may not have, the worker may do either. A payload is a record of the few facts the consumer tells apart: how
`data` parses, what the signature is, whether it has an `event_id`, whether its
columns fit. Forms that the code treats alike are not all published in the runs:
an absent `data` behaves like text that is no JSON (and also arises when the
stream has trimmed the entry), and an object that `AuditEvent` rejects like a
value that is no object, but for its category. Every insert makes a row of its
own: `created_at` and `quarantined_at` are the server's clock, which the model
represents by the number of rows already there, so that only the primary key
keeps a second delivery from being a second row. The start-up check that refuses a default signing secret ends the
process before its first call and is left out.

### RetentionCleanup

One action per SQL statement, commit, file operation and exit of the script.
A row is its key and its date; days are naturals. The date of an event is the
producer's timestamp, past or future; that of a quarantined one is the server's
clock. A hold names a table and a
key. `Trigger` is the delete trigger, `MayDelete` and `MayReadHolds` are the
grants. The DELETE holds its row locks until the commit, and its subquery on
`audit_legal_holds` keeps a hold on a doomed row from being inserted until then
(InnoDB's locking read of a subquery in a DELETE at its default isolation
level). The code relies on this without saying so: at a weaker isolation level
a hold could be placed between DELETE and commit. A DELETE waits while another
run has locked rows of its table (`Waits`), and fails when the server gives up
the wait, which counts as a fault. Writing the status file is three steps: opening
the shared `.tmp` truncates it, the text is written when the file is closed, and
the rename publishes it; a file that another run has renamed meanwhile stays open
and is written under its new name (`handle`). When two runs write one file, the
shorter text leaves the end of the longer one behind its last line; the model
keeps the four fields, which are those of the later write. The update triggers reject every UPDATE, so
rows have no update action.

### RecordIntegrity

Time is in quarter seconds, enough to tell a fraction that rounds down, one that
rounds up and the half between them. The HMAC is ideal: equal only for equal
secret and message. Every key ID has its own secret. Writers of three releases
follow each other: without hashes, with the `+00:00` form under the shared
secret, and the current one; the older two are known only from the rows that
the current code accepts from them, and saw naive or UTC timestamps. Columns
that no hash covers are left out, as are policy checks on the key strings, which
end the run before it reads a row. One verifier run at a time; its status
directory is configured, and its keys are those of whatever environment it is
started in.

The canonical message is the text that the code joins, `name=value` lines with a
line break between them, and not a record: three columns stand for the fields (a
required text, a text that may be NULL, the JSON of `context`), a text is a
sequence of lines, and a line a sequence of words, so that a stored line can look
like a field. `shown` is `!s`, which writes NULL as `None`, and the default `{}`
of `context`; `part` and `joined` put the message together. Rows with the same
text therefore have the same hash, in the model as in the code. Keys
(`event_id`, `stream_message_id`, key IDs) are taken to have no line breaks. An alteration
changes one column; a sequence of them changes several. That MySQL's JSON column
gives a context back that serialises as it was written is taken for granted
(it need not for, say, integers beyond 64 bits).

### SecurityAlerts

A call of `emit_security_alert` is three steps: reading the clock, the block
under the lock, and the sink. Severities, metadata and the choice of sink are
left out. A health check is one step that finds any of the given snapshots.

### PipelineHealth

`Xlen`, `Xpending`, `OldestPending`, `RetrySample`, `XinfoGroups` and
`Persistence` are the calls of `get_redis_pipeline_health` and
`get_persistence_pipeline_health` in their order, and `Next` of `AuditPipeline`
may take any step between two of them. Any exception but XINFO's gives up the
Redis half of the answer (`GiveUpRedis`). The lag is what Redis may say of a
trimmed stream: the number of unread entries, a number that counts trimmed ones
too, or nothing. `seen` is a history variable: what was
published and unread when XPENDING replied, and what of it had been handed to a
worker when XINFO GROUPS did. XINFO CONSUMERS is left out
because the pipeline's model has no consumer names, and so are the timestamps of the
newest rows and the status files, which are copied into the answer.
`SecurityAlerts` has the alerts that follow from an answer.

### AuditQuery

`StartWalk`, `GetPage` and `EndWalk` are a client that asks for page after page
until it has had the last that the latest response told it of; `Insert`,
`RunRetention` and `CutoffMoves` are the table under it. `Matching`, `Before`,
`Page` and `total_pages` are the query: filters and scope, the order, OFFSET and
LIMIT, and the route's page count. A page is one step because count and rows are
read in one REPEATABLE READ transaction. The equality filters are
one filter; the rows' contents are left out.

### TokenVerification

A request goes through `Begin` (the dispatch on `alg`), `Lookup`, `FetchReply`
and `FetchPut` (the JWKS client), `Decode`, `CheckBlacklist` and `Return`; it may
fail at the fetch and at the blacklist. The reply of a fetch and the filling of
the cache are separate steps, because threads share the cache. PyJWT is not
part of the repository: `CacheValid`, `MatchKid` and the fetch follow what
`jwt_verify.py` relies on (lines 55 to 72: a lifespan, one refetch for an
unknown kid). Signatures are ideal. Which HTTP status a refusal becomes is left
out.

### RedisAclSafety

An endpoint is a host and a port; `Reaches` says which server it leads to, and
two endpoints may lead to one, as a forwarded port of production does. Commands
are the three classes that the gates tell apart. A connection is logged in as
`Default` when it opens, as whoever AUTH accepts, and as `Default` again when
redis-py has had to reopen it. A gate carries the endpoint that it was constructed
for, which the code verifies and forgets; `Connect` takes any gate to any endpoint,
because `authenticate()` compares them with nothing.

## What the runs check

All bounds are in the `.cfg` files. "Faults" are failing calls, lost replies,
crashes and (for the pipeline) deletions.

| Run | Instance | Properties |
|---|---|---|
| `pipeline_faults` | 2 workers, 2 entries of 4 forms (good; its `event_id` again with a bad signature; without `event_id`; not an object), stream trimmed to 1, 2 deliveries, 2 faults | `TypeOK`, `AckedIsDurable`, `NothingLost`, `DeliveryBound`, `RowsAreUnique`, `DuplicatesAreBounded`, `QuarantineKeepsEvidence`, `GroupStateSurvives`, `FirstRowStands`, `ImplementsContract` |
| `pipeline_group_loss` | 2 workers, 2 good entries, recreation on, 2 faults, deletions among them | `AckedIsDurable`, `NothingLost`, `GroupStateSurvives`, `EverythingComesToRest` |
| `health` | 1 worker, 1 request at a time, 2 entries good or no JSON, stream trimmed to 1, sweeps of 1, 1 delivery, recreation on, 1 fault, a deletion among them | `AllClearIsHonest`, `EverythingComesToRest` |
| `retention` | 2 overlapping runs, each with any configuration, identity and mode, 1 key per table, 3 days, 1 fault | `TypeOK`, `SuccessIsTheWholeTruth`, `NoStandstill`, `HeldRowsSurvive`, `RunsRemoveOnlyExpired` |
| `integrity` | 1 key per table, 6 contents, 2 key IDs, 3 forms of timestamp, 1 alteration, 1 fault | `NoFalseAlarm`, `AlteredRowsShow`, `PassMeansIntact` |
| `alerts` | 1 API process with 2 threads, 1 worker, window 2, 1 fault | `NoStorm`, `EveryReportIsCovered` |
| `query` | 5 rows of 2 organisations (a shared timestamp, a held row, one without organisation scope), 4 kinds of identity, 2 filters, pages of 1 and 2 | `NoCurrentRowIsMissed`, `TenantIsolation` |
| `tokens` | 2 threads, 2 keys, 5 tokens, cache lifespan 1, timeout 1, 1 fault | `RevokedIsRefused`, `RefusedForAReason`, `RetiredKeysAge` |
| `redis_acl` | 1 caller, 3 endpoints to 2 servers, 2 nonces, 2 identities, 2 failures | `WideGatesAreEarned`, `RunsAsExpected` |

Why the bounds are enough to be of use. Every race the pipeline's code is
exposed to involves two workers and one entry; the second entry is there for
order in a batch, for starvation and for trimming. Two deliveries are the
smallest number with a retry before quarantine; the health run has one, which
makes an entry poison sooner. Two faults allow a lost reply
and then a crash of whoever repairs it. A retention run that planned one
row may find it held, deleted by the other run or joined by a new one; on day 2 a
one-day retention has something to remove. The `VIEW` of that run
makes TLC treat states as equal that differ only in locals of a run that nothing
reads any more (`LiveState`). The six contents of the integrity run are pairs
that the HMAC does not tell apart, pairs that it does, and one with an empty
required column. In the alerts, the third instant is the first outside a window of two. Among the
tokens, an instant each for the cache's lifespan and the fetch leaves one in
which a retired key must be gone. Among the pages, three rows of one
organisation and pages of one let a row move across a boundary in either
direction, twice. The attestations need two nonces, so that one can be out of
date.

### Fairness

`LiveSpec` of `AuditPipeline` assumes that workers keep taking steps (the loop
in `run` never ends by itself), that a terminated worker is restarted (the
comment at `worker/main.py:264` refers to Docker's `restart: on-failure`), and
that idle time passes for an entry left pending. Faults get no fairness, and
there are finitely many of them: liveness says what happens once failures stop.
`HealthLiveSpec` assumes the same of the pipeline and nothing of the health
requests, which may stop anywhere.

That retention runs end is not stated as a property with fairness; the two halves
of the argument are, and are proved for any number of runs. While a run is under
way, one that is under way waits for nobody (`NoStandstill`), and a run that moves
has less left to do than before (`RunsOnlyAdvance`). The rest is that a process
that can take a step takes one: nothing suspends the script, and a statement that
waits goes on when the locks are gone.

### Where the documentation and the code part

Three runs state a sentence of the documentation and find it violated.

* `doc_pending_is_retried`: any live worker reclaims a stale entry
  (`worker/main.py:103-105`), unless entries whose quarantine write always fails
  fill the batch that XPENDING returns.
* `doc_verify_detection_alerts`: detection does not depend on the exit code
  (`scripts/verify_audit_integrity.py:267-269`), but a failing second scan or
  status write comes before the alert.
* `doc_only_disposable_is_exposed`: the incident is "structurally impossible for
  any caller", not a matter of "operator discipline"
  (`scripts/redis_acl_safety.py:19-21`), and `ProductionValidator` is "the only
  gate usable for PRODUCTION or UNKNOWN environments" (`:357`); but
  `authenticate()` (`:491-568`) takes the gate and the endpoint as unrelated
  arguments, and a gate that was constructed for a test server also guards a
  session to production.

Reading notes, seen while modelling and not the subject of a run:

* `sweep_pending` "Never raises" (`worker/main.py:214`), but the XACK that ends
  `handle_message` and `quarantine_and_ack` is outside its handler. The entry is
  not lost; the process ends and is restarted.
* Redelivery is idempotent (`README.md:68-69`) except for a payload without
  `event_id`, which is given a new one at each parse (`audit/models.py:22`).
* `times_delivered` counts deliveries without an acknowledgement, so an event
  that has its row can be quarantined as never persisted (`consumers/quarantine.py:43`).
* XCLAIM drops a trimmed entry from the PEL before its deliveries are used up
  (against `worker/main.py:105-106`).
* A JSON object that `AuditEvent` rejects is filed as `persistence_exhausted`,
  which `db/models.py:103-104` reserves for valid payloads.
* An entry that reuses an `event_id` is acknowledged as a duplicate and its
  classification is stored nowhere (against `worker/main.py:114-115`).
* The total in the retention status file leaves out the rows of a partial table
  (`scripts/audit_retention_cleanup.py:78`).
* Overlapping runs share one `.tmp` path; the one whose file is renamed away
  raises before its alert (`:87`). A run may also publish the file between the
  other's truncation and its write, so that the status is empty for a moment.
* "Any changed field still breaks the HMAC" (`audit/record_integrity.py:177`) is
  not true of every change, because the canonical message is joined without
  quoting (`:136-139`): a column changed between NULL and the text `None`, a
  `context` between NULL and `{}` (`:101`), and a line moved from one column to
  the next leave the message, and so the hash, as it was. `AlteredRowsShow` and
  `PassMeansIntact` say exactly what is excepted (`Alike`), and nothing else is.
* After a key rotation intact rows are unverifiable, and the alert speaks of
  tampered records (`scripts/verify_audit_integrity.py:276`).
* A row with the default action `""` fails the verifier's required-field check
  (`audit/models.py:34`).
* `emit_security_alert` returns an alert although the sink failed, and suppresses
  its repetitions (`audit/security_alerts.py:111-112`).
* The window is kept per process, not per component (`:28-29`).
* Page boundaries do shift between requests (against
  `services/audit_query_service.py:38-40`): an insert can make a row appear on
  two pages. An expired row under legal hold can be passed over, because
  retention deletes the rows before it; `NoCurrentRowIsMissed` has to except it.
* `from_timestamp` and `to_timestamp` with a UTC offset are compared by their
  wall-clock time: the column is a naive UTC DATETIME, and MySQL's driver drops
  the offset (`:54-57`, `:106-109`).
* In a health answer an entry that is read between XPENDING and XINFO GROUPS is
  neither pending nor lag; `AllClearIsHonest` has to except it
  (`services/audit_health_service.py:97-128`).
* `oldest_pending_age_seconds` is the idle time of the pending entry with the
  lowest ID, which a reclaim has reset, and not the longest idle time (`:105`).
* A lag that Redis leaves out for a trimmed stream is reported as
  `unsupported_redis_version` (`:127-128`).
* A session whose connection was dropped is reopened by redis-py without AUTH, and
  its next command runs as `default` (`:473`, against `:18-21`). `RunsAsExpected`
  has to except it.
* The attestation is verified when a gate is built, and not again (`:393-400`).

## What is proved

For every value of the constants that the named ASSUMEs admit:

| Module | Theorem | States |
|---|---|---|
| `AuditPipelineProofs` | `TypeCorrect` | `Spec => []TypeOK` |
| | `AckFollowsCommit` | `Spec => []AckedIsDurable` |
| | `NothingIsLost` | `Spec => []NothingLost` |
| | `GroupIsNeverReset` | `Spec => GroupStateSurvives` |
| | `RowsStand` | `Spec => FirstRowStands` |
| | `RedeliveryIsIdempotent` | `Spec => []RowsAreUnique` |
| | `EvidenceIsKept` | `Spec => []QuarantineKeepsEvidence` |
| | `PipelineImplementsContract` | `Spec => ImplementsContract` |
| | `DeliveriesAreBounded` | `Spec => []DeliveryBound` |
| `PipelineHealthProofs` | `AllClearCanBeTrusted` | `HealthSpec => []AllClearIsHonest` |
| `RetentionProofs` | `RetentionTypes` | `Spec => []TypeOK` |
| | `HoldsAreHonoured` | `Spec => HeldRowsSurvive` |
| | `OnlyTheExpiredGo` | `Spec => RunsRemoveOnlyExpired` |
| | `SuccessIsTrue` | `Spec => []SuccessIsTheWholeTruth` |
| | `NobodyIsStuck` | `Spec => []NoStandstill` |
| | `RunsOnlyAdvance` | every step leaves each run where it is, or with less left to do |
| `RecordIntegrityProofs` | `GenuineRowsPass` | `Spec => []NoFalseAlarm` |
| | `NothingAlteredPasses` | `Spec => []AlteredRowsShow` |
| | `PassIsProof` | `Spec => []PassMeansIntact` |
| `SecurityAlertsProofs` | `StormsAreStopped` | `Spec => []NoStorm` |
| | `NothingIsSilenced` | `Spec => []EveryReportIsCovered` |
| `AuditQueryProofs` | `TenantsAreIsolated` | `Spec => TenantIsolation` |
| | `WalksAreComplete` | `Spec => []NoCurrentRowIsMissed` |
| | `PagesPartition` | the pages 1 to `total_pages` of any finite table partition it, with at most `page_size` rows each |
| `TokenVerificationProofs` | `RetiredKeysAreDropped` | `Spec => RetiredKeysAge` |
| | `RevocationHolds` | `Spec => []RevokedIsRefused` |
| | `RefusalsAreDeserved` | `Spec => []RefusedForAReason` |
| `RedisAclSafetyProofs` | `ExposureIsEarned` | `Spec => []WideGatesAreEarned` |
| | `IdentityIsConfirmed` | `Spec => []RunsAsExpected` |

### Assumptions

Each module names what it assumes of its constants, and TLC evaluates the
ASSUMEs in the runs. Most give the constants their types. The ones that say
more: a producer's `event_id` is never one that `AuditEvent` mints
(`EventIdAssumption`); there are finitely many workers (`WorkersAssumption`,
needed to count them in `DeliveryBound`); an `event_id` is the primary key of
the rows a client walks through (`CatalogAssumption`); a fetch of the key set
ends within `Timeout` (a guard of the model's clock, from the timeout that
`jwt_verify.py` gives the JWKS client); and the endpoint on the production port
leads to no disposable server (`ProductionAssumption`).

No theorem has a hypothesis beyond these. Where the code gives less than its
documentation says, the property itself states the exception (`RunsAsExpected`,
`AlteredRowsShow`, `PassMeansIntact`, `AllClearIsHonest`, `NoCurrentRowIsMissed`).

### Inductive invariants

TLC finds no violation of any of them on the runs of its module.

**Pipeline.** `TypeOK` is inductive by itself; it holds the facts that the rest
needs, that only published entries are in the stream, the PEL, a table or a
worker's hands. `AckedIsDurable` is not: that the entry is on record when XACK
runs is a fact about a worker between its commit and its acknowledgement. The
inductive invariant is

    DurabilityInv == TypeOK /\ StoredIsDurable /\ UuidsAreSpent /\ AckedIsDurable

`StoredIsDurable` says that what a worker in that position has in hand is on
durable record. It needs `UuidsAreSpent`: an insert under a minted `event_id`
really adds a row, because the identifier is new; without it, the insert might
be taken for a duplicate of another event. The proof separates what each step
does to the tables (`Monotone`: rows stay), to a worker's hands (`NewlyStored`)
and to the group (`GroupStep`), so that each action is looked at once for each.
`NothingLost` then follows from `GroupStep` and from `DurabilityInv`;
`ReadGroup` needs `LowestHasNoGaps`: a cursor that moves to the last entry
of a batch passes no entry outside it. `RowsAreUnique` adds `RowsNameTheirEntry`
(a row keeps the `event_id` that its entry names, so two rows of one entry would
be two rows of one `event_id`). `QuarantineKeepsEvidence` adds `GoneIsGone`: what
XRANGE did not find does not come back. The refinement is step by step
(`StepImplements`): `Log` is the contract's `Publish`, `DeleteGroup` its `Evict`,
the two writes its `Record`, `Ack` its `Settle`, and all other steps stutter.
`DeliveryBound` is inductive with `TypeOK`, because it counts the workers that
hold an entry on an outdated list: a listing adds a holder only while deliveries
are left, a claim turns a holder into a delivery, and nothing else adds either.

**Health.** Each call adds a fact that outlives it. After an empty XPENDING,
what was published and is left is on record or unread (`PendingTold`); after a
lag of 0, what was unread has been handed out (`LagTold`); after an empty
quarantine, a record can only be a row of `audit_events` (`QuarantineTold`).
What was handed out is noted when XINFO GROUPS replies and not read off the
cursor later, so the argument also holds when the group is deleted and its cursor
starts again from 0.
`BaseInv` carries `DurabilityInv` and `NothingLost` of the pipeline along, whose
steps the lemmas of `AuditPipelineProofs` cover.

**Retention.** `LedgerInv` is about the rows an open transaction has deleted:
two runs have none in the same table (`LocksExclude`), and what the WHERE clause
and the trigger checked stays true until the commit (`DoomedMayGo`, `Planned`).
`TruthInv` is about the books: the tables that the loop has not reached have no
result (`Unreported`), a run without a failed or partial table has counted what
it removed (`Balanced`), and a status file belongs to a run that is past its last
commit (`FileIsTrue`). `NoStandstill` follows from `LedgerInv`: only a run that is
about to commit has rows locked, and it waits for nobody. `Remaining` numbers the
places of a run by what is left from there, for `RunsOnlyAdvance`.

**Integrity.** `OriginVerifies`: a row as the writer stored it verifies under the
key that its key ID names. It rests on `RoundingAgrees`, the one place where
MySQL's rounding and `canonical_timestamp` meet. `HashesAreTheWriters`: a hash in
a table is one the writer made, so a row that verifies has the message of the row
its hash was made for (`OneRowPerHash`), and so is that row but for what the
message does not show (`VerifiedIsGenuine`). What a message does show is
`UnbrokenReads`: when one of two rows has no line break, the messages are equal
only if both have as many lines, so that each field is on its own line and the
columns read the same. `GenuineRowsPass` and `NothingAlteredPasses` together make
the report exact, up to that, for rows that have a hash and whose key is in the
keyring.

**Alerts.** The lock orders the calls of a process and the clock does not.
`LastIsLatest` (`_LAST_SENT` is no earlier than any alert of this life of the
process) makes `NoStorm` inductive; `LastWasSent` and `ReportsAreNear` (that time
is an alert's, and near enough to every suppressed report) give coverage.

**Queries.** A row that is still owed to a client is never in front of its next
page (`NothingIsBehind`, by the number of rows before it). Inserts only add to
that number; retention takes rows from the end of the order. `TenantIsolation`
follows from the scope each request is given, with no invariant but the shape of
the client. `PagesPartition` is about `Page` and `total_pages` alone: the order has
no ties, so a row's rank is its own and falls on one page.

**Tokens.** `CacheIsRecent` and `RepliesAreRecent` date the keys in the cache and
in a reply on its way there. `BlacklistHolds`: a revoked `jti` is on the blacklist
while a token with it lives. `DeservedIsServed`: a key that is still published is
in any reply on its way to a request that deserved acceptance, and the first
lookup is not the last.

**Redis ACL tool.** Only test servers carry a nonce (`NonceMarksDisposable`), so a
gate that lets more through than production's was constructed for an endpoint of
one (`GatesAreEarned`), and so was the gate of a session (`SessionsAreGuarded`).
Where the session is connected does not follow. `SessionsAreConfirmed` does the same for identities.

### Only model-checked

* `EverythingComesToRest` of the pipeline, also after a deletion of its group and
  next to health requests: liveness under fairness.

* `DuplicatesAreBounded`: it counts the rows of an entry against its deliveries,
  which are gone from the PEL once it is acknowledged.

Liveness is out of the provers' reach. The three documented claims that the code does
not keep are refuted by TLC's counterexamples.

## Not modelled

* Event vocabulary, context variables and the `audit` decorator
  (`audit/events.py`, `audit/context.py`, `audit/contexts.py`,
  `audit/decorators.py`): each task has its own context, and the decorator makes
  one call of `AuditLogger.log`, which is modelled. There is no order of events in
  them to check.
* Of the API: response layout, the projection of `context` to the safe keys, the
  evidence fields (constants of `audit/source_semantics.py`), `/health` and the
  smoke-test route.
* XINFO CONSUMERS and the status files in a health answer.
* Reading the environment (`audit/config.py`), issuing GRANTs
  (`scripts/provision_audit_db_users.py`), the database session set-up.
* Migrations other than 0005: DDL that runs once, before the processes start.
* The JSON encoding of `context`, the HMAC itself, log texts, severities, metadata.

## Plan

The plan is carried out: the modules above, their runs, and proofs of the safety
properties of the passing runs. What could follow: to prove `DuplicatesAreBounded`
with a history of each entry's deliveries; to relate `SecurityAlerts` and
`PipelineHealth` (an answer's findings as the alerts that follow from it), and to
state what `RunsAsExpected` and `AllClearIsHonest` have to except as properties of
a repaired code, should the reading notes lead to changes.
