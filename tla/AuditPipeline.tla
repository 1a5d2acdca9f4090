--------------------------- MODULE AuditPipeline ----------------------------
(***************************************************************************)
(* The delivery path of the audit trail: producers append events to the    *)
(* Redis stream audit:events, the workers of the consumer group            *)
(* audit-workers read them, persist each one to audit_events and only then *)
(* acknowledge it, reclaim what a crashed or failing worker left in the    *)
(* Pending Entries List (PEL), and move an entry delivered MaxDeliveries   *)
(* times without success to quarantined_audit_events.                      *)
(*                                                                         *)
(* One action per call that crosses a process boundary (a Redis command or *)
(* a MySQL transaction), so that another worker, a producer, a crash or a  *)
(* failure can fall between any two of them.  Stream entry IDs are the     *)
(* naturals 1, 2, ...: XADD's IDs increase, also across a deletion.        *)
(*                                                                         *)
(* Left out: the consumer names (XREADGROUP and XCLAIM record one per PEL  *)
(* entry, and no code reads it) and the alerts (emit_security_alert never  *)
(* raises and is never a condition of a later step).                       *)
(***************************************************************************)
EXTENDS Naturals, Sequences, FiniteSets, AuditConsumers

CONSTANTS
  Workers,          \* the worker replicas
  Payloads,         \* the fields producers may publish
  MaxMessages,      \* bound: how many entries are ever published
  MaxLen,           \* AuditConfig.MAX_STREAM_LENGTH
  MaxDeliveries,    \* AuditConfig.PEL_MAX_DELIVERIES
  SweepBatch,       \* AuditConfig.PEL_SWEEP_BATCH
  ReadCount,        \* read_group's count
  AutoRecreate,     \* AuditConfig.WORKER_AUTO_RECREATE_STREAM_ON_NOGROUP
  KeyConfigured,    \* whether require_record_integrity_key() succeeds
  OperatorDeletes,  \* whether the stream or its group may be deleted
  MaxFaults         \* bound: how many calls fail, processes crash, and
                    \* deletions happen, together

\* An event_id that a producer chose is never one that AuditEvent mints.
ASSUME EventIdAssumption == EventId \cap Nat = {}
ASSUME PayloadsAssumption == Payloads \subseteq Fields
ASSUME BoundsAssumption ==
  /\ MaxMessages \in Nat /\ MaxLen \in Nat \ {0} /\ MaxDeliveries \in Nat \ {0}
  /\ SweepBatch \in Nat \ {0} /\ ReadCount \in Nat \ {0} /\ MaxFaults \in Nat
ASSUME WorkersAssumption == IsFiniteSet(Workers)
ASSUME SwitchesAssumption ==
  {AutoRecreate, KeyConfigured, OperatorDeletes} \subseteq BOOLEAN

VARIABLES
  \* Redis
  log,          \* the fields of every entry ever added, in ID order
  stream,       \* the IDs still in the stream
  group,        \* whether the consumer group exists
  cursor,       \* the group's last-delivered-id
  times,        \* times_delivered of each PEL entry; 0: not in the PEL
  stale,        \* the PEL entries idle for at least PEL_MIN_IDLE_MS
  \* MySQL
  auditEvents,  \* the rows of audit_events
  quarantined,  \* the rows of quarantined_audit_events
  \* each worker process
  pc,           \* where it is
  phase,        \* which half of run()'s loop it is in
  snap,         \* claim_stale's XPENDING reply: ID -> times_delivered, or 0
  fetched,      \* the poison IDs it has fetched with XRANGE
  gone,         \* ... of which XRANGE no longer found the entry
  batch,        \* the claimed or read entries left to hand to handle_message
  due,          \* _last_nogroup_recreate_attempt is None or surely old enough
  \* history
  acked,        \* the entries some worker has acknowledged
  faults        \* how much of MaxFaults is spent

redis   == <<stream, group, cursor, times, stale>>
mysql   == <<auditEvents, quarantined>>
sweep   == <<snap, fetched, gone>>
process == <<pc, phase, snap, fetched, gone, batch, due>>
vars    == <<log, stream, group, cursor, times, stale, auditEvents,
             quarantined, pc, phase, snap, fetched, gone, batch, due,
             acked, faults>>

Id == 1..MaxMessages

NoSnap == [m \in Id |-> 0]

Init ==
  /\ log = <<>> /\ stream = {} /\ group = FALSE /\ cursor = 0
  /\ times = NoSnap /\ stale = {}
  /\ auditEvents = {} /\ quarantined = {}
  /\ pc = [w \in Workers |-> "start"]
  /\ phase = [w \in Workers |-> "read"]
  /\ snap = [w \in Workers |-> NoSnap]
  /\ fetched = [w \in Workers |-> {}]
  /\ gone = [w \in Workers |-> {}]
  /\ batch = [w \in Workers |-> {}]
  /\ due = [w \in Workers |-> TRUE]
  /\ acked = {} /\ faults = 0

-----------------------------------------------------------------------------
(* The outcome of a call to Redis or MySQL: it took effect and returned;   *)
(* it failed without effect; or it took effect and the reply was lost, so  *)
(* that the caller sees an exception.  The last two spend a fault.         *)
Outcome == {"done", "failed", "lost"}
TookEffect(o) == o \in {"done", "lost"}

Charge(o) ==
  IF o = "done" THEN faults' = faults
                ELSE faults < MaxFaults /\ faults' = faults + 1

(* The n smallest of a set of IDs: Redis lists the PEL and the stream in   *)
(* ID order and stops at COUNT.                                            *)
Lowest(S, n) == {m \in S : Cardinality({k \in S : k < m}) < n}
IsFirst(m, S) == m \in S /\ \A k \in S : m <= k
IsLast(m, S)  == m \in S /\ \A k \in S : k <= m

\* Mutant: every listed entry is reclaimed.
MutantReclaimAll(w) == {m \in Id : snap[w][m] > 0}

(* claim_stale's split of what XPENDING listed.                            *)
Poison(w)      == {m \in Id : snap[w][m] >= MaxDeliveries}
Reclaimable(w) == {m \in Id : snap[w][m] > 0 /\ snap[w][m] < MaxDeliveries}

(* sweep_pending's two loops, the poison entries first, or run()'s loop    *)
(* over what read_group returned: the entry in hand is the first left.     *)
InHand(w, m) == IF Poison(w) # {} THEN IsFirst(m, Poison(w)) ELSE IsFirst(m, batch[w])

\* Mutant: XRANGE is not issued, the fields are always {}.
MutantNoXrange(w, m) == NoFields

(* The fields quarantine_and_ack is given.                                 *)
FetchedFields(w, m) == IF m \in gone[w] THEN NoFields ELSE log[m]

(* claim_stale gives up everything it has gathered when it raises.         *)
AbandonSweep(w) ==
  /\ snap' = [snap EXCEPT ![w] = NoSnap]
  /\ fetched' = [fetched EXCEPT ![w] = {}]
  /\ gone' = [gone EXCEPT ![w] = {}]
  /\ UNCHANGED batch

(* The process ends: how is "raised" (an exception left run()) or          *)
(* "crashed" (it was killed).                                              *)
Terminate(w, how) ==
  /\ pc' = [pc EXCEPT ![w] = how]
  /\ phase' = [phase EXCEPT ![w] = "read"]
  /\ snap' = [snap EXCEPT ![w] = NoSnap]
  /\ fetched' = [fetched EXCEPT ![w] = {}]
  /\ gone' = [gone EXCEPT ![w] = {}]
  /\ batch' = [batch EXCEPT ![w] = {}]
  /\ due' = [due EXCEPT ![w] = TRUE]

(* The worker is done with the entry in hand, acknowledged or not.         *)
Drop(w, m) ==
  /\ pc' = [pc EXCEPT ![w] = "process"]
  /\ snap' = [snap EXCEPT ![w][m] = 0]
  /\ batch' = [batch EXCEPT ![w] = @ \ {m}]
  /\ UNCHANGED <<phase, fetched, gone, due>>

-----------------------------------------------------------------------------
(* A producer: AuditLogger.log, XADD with MAXLEN ~ MaxLen.  Approximate    *)
(* trimming drops a prefix of the stream, possibly none of it, and leaves  *)
(* at least MaxLen entries.  A failed XADD is swallowed and changes        *)
(* nothing.                                                                *)
Log ==
  LET n == Len(log) + 1
      all == stream \cup {n}
  IN /\ n <= MaxMessages
     /\ \E p \in Payloads : log' = Append(log, p)
     /\ \E cut \in 1..n :
          LET kept == {m \in all : cut <= m}
          IN /\ kept = all \/ Cardinality(kept) >= MaxLen
             /\ stream' = kept
     /\ UNCHANGED <<group, cursor, times, stale, mysql, process, acked, faults>>

(* Time passes: a PEL entry has been idle for PEL_MIN_IDLE_MS.             *)
IdleElapses(m) ==
  /\ times[m] > 0 /\ m \notin stale
  /\ stale' = stale \cup {m}
  /\ UNCHANGED <<log, stream, group, cursor, times, mysql, process, acked, faults>>

(* DEL audit:events, or XGROUP DESTROY: the PEL and the cursor go too.     *)
DeleteGroup ==
  /\ OperatorDeletes /\ (group \/ stream # {})
  /\ Charge("failed")
  /\ stream' \in {stream, {}}
  /\ group' = FALSE /\ cursor' = 0 /\ times' = NoSnap /\ stale' = {}
  /\ UNCHANGED <<log, mysql, process, acked>>

Crash(w) ==
  /\ pc[w] \notin {"raised", "crashed"}
  /\ Charge("failed")
  /\ Terminate(w, "crashed")
  /\ UNCHANGED <<log, redis, mysql, acked>>

(* The container's restart policy starts a new process.                    *)
Restart(w) ==
  /\ pc[w] \in {"raised", "crashed"}
  /\ pc' = [pc EXCEPT ![w] = "start"]
  /\ UNCHANGED <<log, redis, mysql, phase, sweep, batch, due, acked, faults>>

-----------------------------------------------------------------------------
\* Mutants: the group starts at "$"; BUSYGROUP leads to a reset (XGROUP SETID).
MutantFromTail(o) ==
  /\ IF TookEffect(o) /\ ~group
       THEN group' = TRUE /\ cursor' = Len(log)
       ELSE UNCHANGED <<group, cursor>>
  /\ UNCHANGED <<stream, times, stale>>
MutantResetsCursor(o) ==
  /\ IF TookEffect(o)
       THEN group' = TRUE /\ cursor' = 0
       ELSE UNCHANGED <<group, cursor>>
  /\ UNCHANGED <<stream, times, stale>>

(* StreamReader.ensure_group: XGROUP CREATE ... 0-0 MKSTREAM; BUSYGROUP,   *)
(* the reply when the group exists, is tolerated and changes nothing.      *)
ensure_group(o) ==
  /\ IF TookEffect(o) /\ ~group
       THEN group' = TRUE /\ cursor' = 0
       ELSE UNCHANGED <<group, cursor>>
  /\ UNCHANGED <<stream, times, stale>>

(* run() before its loop; an exception leaves run().                       *)
Start(w, o) ==
  /\ pc[w] = "start"
  /\ Charge(o)
  /\ ensure_group(o)
  /\ IF o = "done"
       THEN /\ pc' = [pc EXCEPT ![w] = "process"]
            /\ UNCHANGED <<phase, sweep, batch, due>>
       ELSE Terminate(w, "raised")
  /\ UNCHANGED <<log, mysql, acked>>

(* sweep_pending -> claim_stale: XPENDING IDLE, the lowest SweepBatch      *)
(* stale entries with their times_delivered.  A failure ends the sweep;    *)
(* so does the missing group, which is then handled.                       *)
ListStale(w, o) ==
  /\ pc[w] = "process" /\ phase[w] = "read" /\ batch[w] = {}
  /\ phase' = [phase EXCEPT ![w] = "sweep"]
  /\ o \in {"done", "failed"} /\ Charge(o)
  /\ LET S == IF group /\ o = "done" THEN Lowest(stale, SweepBatch) ELSE {}
     IN /\ snap' = [snap EXCEPT ![w] = [m \in Id |-> IF m \in S THEN times[m] ELSE 0]]
        /\ pc' = [pc EXCEPT ![w] = CASE o = "done" /\ ~group -> "nogroup"
                                     [] S # {}               -> "fetch"
                                     [] OTHER                -> "process"]
  /\ UNCHANGED <<log, redis, mysql, fetched, gone, batch, due, acked>>

(* claim_stale: XRANGE of the next poison entry, a pure read.  It finds    *)
(* nothing when the entry has been trimmed from the stream.                *)
FetchPoison(w, o) ==
  \E m \in Id :
    /\ pc[w] = "fetch" /\ IsFirst(m, Poison(w) \ fetched[w])
    /\ o \in {"done", "failed"} /\ Charge(o)
    /\ IF o = "done"
         THEN /\ fetched' = [fetched EXCEPT ![w] = @ \cup {m}]
              /\ gone' = [gone EXCEPT ![w] = IF m \in stream THEN @ ELSE @ \cup {m}]
              /\ UNCHANGED <<pc, snap, batch>>
         ELSE /\ pc' = [pc EXCEPT ![w] = "process"]
              /\ AbandonSweep(w)
    /\ UNCHANGED <<log, redis, mysql, phase, due, acked>>

(* XCLAIM's effect on the PEL: of the IDs asked for, those no longer in    *)
(* the stream leave the PEL; those still idle are redelivered.             *)
Claimed(R) == R \cap stale \cap stream
xclaim(R) ==
  /\ times' = [m \in Id |-> CASE m \in R \ stream   -> 0
                              [] m \in Claimed(R) -> times[m] + 1
                              [] OTHER            -> times[m]]
  /\ stale' = (stale \ Claimed(R)) \ (R \ stream)
  /\ UNCHANGED <<stream, group, cursor>>

(* claim_stale: one XCLAIM of the reclaimable IDs, if there are any, and   *)
(* its return to sweep_pending.                                            *)
Claim(w, o) ==
  LET R == Reclaimable(w) IN
  /\ pc[w] = "fetch" /\ Poison(w) \subseteq fetched[w]
  /\ R = {} => o = "done"
  /\ Charge(o)
  /\ IF group /\ TookEffect(o) THEN xclaim(R) ELSE UNCHANGED redis
  /\ pc' = [pc EXCEPT ![w] = IF R # {} /\ ~group /\ o = "done" THEN "nogroup" ELSE "process"]
  /\ IF o = "done" /\ (group \/ R = {})
       THEN /\ batch' = [batch EXCEPT ![w] = Claimed(R)]
            /\ snap' = [snap EXCEPT ![w] =
                          [m \in Id |-> IF m \in R THEN 0 ELSE snap[w][m]]]
            /\ UNCHANGED <<fetched, gone>>
       ELSE AbandonSweep(w)
  /\ UNCHANGED <<log, mysql, phase, due, acked>>

\* Mutant: the backoff, once started, never counts as elapsed.
MutantNeverDue(w, attempted) ==
  /\ pc' = [pc EXCEPT ![w] = "process"]
  /\ due' = [due EXCEPT ![w] = FALSE]
  /\ UNCHANGED <<log, mysql, phase, sweep, batch, acked>>

(* _handle_nogroup: recreation is opt-in and rate-limited, and its failure *)
(* is swallowed.  The group may have come back since the NOGROUP reply.    *)
(* Only run()'s read_group path then sleeps for the backoff.               *)
AfterNogroup(w, attempted) ==
  /\ pc' = [pc EXCEPT ![w] = "process"]
  /\ due' = [due EXCEPT ![w] = IF phase[w] = "read" THEN TRUE ELSE @ /\ ~attempted]
  /\ UNCHANGED <<log, mysql, phase, sweep, batch, acked>>

RecreateGroup(w, o) ==
  /\ pc[w] = "nogroup" /\ AutoRecreate
  /\ Charge(o)
  /\ ensure_group(o)
  /\ AfterNogroup(w, TRUE)

LeaveNogroup(w) ==
  /\ pc[w] = "nogroup"
  /\ ~AutoRecreate \/ ~due[w]
  /\ AfterNogroup(w, FALSE)
  /\ UNCHANGED <<redis, faults>>

-----------------------------------------------------------------------------
\* Mutant: the entry is acknowledged whether or not the write returned.
MutantAckAnyway(w, m, o) ==
  /\ pc' = [pc EXCEPT ![w] = "stored"]
  /\ UNCHANGED <<phase, sweep, batch, due>>

(* After a write: the entry in hand is stored, and acknowledged next, only *)
(* if the write returned.  After an exception it is left pending.          *)
AfterWrite(w, m, o) ==
  IF o = "done"
    THEN /\ pc' = [pc EXCEPT ![w] = "stored"]
         /\ UNCHANGED <<phase, sweep, batch, due>>
    ELSE Drop(w, m)

\* Mutant: the duplicate key of a repeated quarantine write is an error.
MutantDuplicateRaises(w, m) ==
  /\ KeyConfigured /\ (m \in gone[w] \/ log[m].rawFits)
  /\ \A q \in quarantined : q.stream_message_id # m

(* QuarantineSink.write raises every time without the integrity key, or    *)
(* when the columns reject the row.                                        *)
Quarantinable(w, m) == KeyConfigured /\ (m \in gone[w] \/ log[m].rawFits)

(* server_default=func.now() of created_at and quarantined_at.  No row     *)
(* leaves a table here, so the number of rows tells the times apart at     *)
(* which two of them were inserted.                                        *)
ServerTime(table) == Cardinality(table)

(* stream_message_id is the primary key: a second insert is rolled back,   *)
(* and counts as success.                                                  *)
InsertQuarantine(row) ==
  quarantined' = IF \E q \in quarantined : q.stream_message_id = row.stream_message_id
                   THEN quarantined ELSE quarantined \cup {row}

(* What QuarantineSink.write would insert for the entry in hand.           *)
PoisonRow(w, m) ==
  QuarantinedAuditEvent(m, FetchedFields(w, m), snap[w][m], ServerTime(quarantined))

(* quarantine_and_ack up to its acknowledgement.                           *)
Quarantine(w, o) ==
  \E m \in Id :
    /\ pc[w] = "process" /\ IsFirst(m, Poison(w))
    /\ IF Quarantinable(w, m) THEN Charge(o) ELSE o = "failed" /\ UNCHANGED faults
    /\ IF TookEffect(o)
         THEN InsertQuarantine(PoisonRow(w, m))
         ELSE UNCHANGED quarantined
    /\ AfterWrite(w, m, o)
    /\ UNCHANGED <<log, redis, auditEvents, acked>>

(* handle_message returns False for an entry that does not parse, and      *)
(* whenever Sink.write raises: every time without the integrity key, or    *)
(* when the columns reject the row.                                        *)
Persistable(m) == parse_audit_event(log[m]) /\ KeyConfigured /\ log[m].rowFits

\* Mutants: the table has no primary key; ON DUPLICATE KEY UPDATE.
MutantNoKey(row) == auditEvents' = auditEvents \cup {row}
MutantUpsert(row) ==
  auditEvents' = {r \in auditEvents : r.event_id # row.event_id} \cup {row}

(* event_id is the primary key: a second insert is rolled back, and counts *)
(* as success.                                                             *)
InsertEvent(row) ==
  auditEvents' = IF \E r \in auditEvents : r.event_id = row.event_id
                   THEN auditEvents ELSE auditEvents \cup {row}

(* Rows are only ever added, so their number has not been an event_id yet. *)
FreshUuid == Cardinality(auditEvents)

(* What Sink.write would insert for the entry in hand.                     *)
EventRow(m) == AuditEventRecord(m, log[m], FreshUuid, ServerTime(auditEvents))

(* handle_message up to its acknowledgement: parse, classify, Sink.write.  *)
Persist(w, o) ==
  \E m \in Id :
    /\ pc[w] = "process" /\ Poison(w) = {} /\ IsFirst(m, batch[w])
    /\ IF Persistable(m) THEN Charge(o) ELSE o = "failed" /\ UNCHANGED faults
    /\ IF TookEffect(o) THEN InsertEvent(EventRow(m)) ELSE UNCHANGED auditEvents
    /\ AfterWrite(w, m, o)
    /\ UNCHANGED <<log, redis, quarantined, acked>>

(* reader.ack, the last step of handle_message and quarantine_and_ack: no  *)
(* handler surrounds it up to run()'s caller, so an exception ends the     *)
(* process.  XACK without the group is a no-op.                            *)
Ack(w, o) ==
  \E m \in Id :
    /\ pc[w] = "stored" /\ InHand(w, m)
    /\ Charge(o)
    /\ IF TookEffect(o)
         THEN /\ times' = [times EXCEPT ![m] = 0]
              /\ stale' = stale \ {m}
              /\ acked' = acked \cup {m}
         ELSE UNCHANGED <<times, stale, acked>>
    /\ IF o = "done" THEN Drop(w, m) ELSE Terminate(w, "raised")
    /\ UNCHANGED <<log, stream, group, cursor, mysql>>

(* run(): XREADGROUP ">", the entries after the cursor.  Every failure,    *)
(* the expected socket timeout and a lost reply included, counts as an     *)
(* empty response; the entries of a lost reply stay in the PEL.            *)
ReadGroup(w, o) ==
  LET new == IF group /\ TookEffect(o)
               THEN Lowest({m \in stream : m > cursor}, ReadCount) ELSE {}
  IN
  /\ pc[w] = "process" /\ phase[w] = "sweep" /\ Poison(w) = {} /\ batch[w] = {}
  /\ Charge(o)
  /\ IF new = {} THEN UNCHANGED cursor ELSE IsLast(cursor', new)
  /\ times' = [m \in Id |-> IF m \in new THEN 1 ELSE times[m]]
  /\ batch' = [batch EXCEPT ![w] = IF o = "done" THEN new ELSE {}]
  /\ phase' = [phase EXCEPT ![w] = "read"]
  /\ pc' = [pc EXCEPT ![w] = IF ~group /\ o = "done" THEN "nogroup" ELSE "process"]
  /\ fetched' = [fetched EXCEPT ![w] = {}]
  /\ gone' = [gone EXCEPT ![w] = {}]
  /\ UNCHANGED <<log, stream, group, stale, mysql, snap, due, acked>>

-----------------------------------------------------------------------------
Call(w, o) ==
  \/ Start(w, o) \/ ListStale(w, o) \/ FetchPoison(w, o) \/ Claim(w, o)
  \/ Quarantine(w, o) \/ Persist(w, o) \/ Ack(w, o) \/ ReadGroup(w, o)
  \/ RecreateGroup(w, o)

WorkerStep(w) == LeaveNogroup(w) \/ \E o \in Outcome : Call(w, o)

Next ==
  \/ Log
  \/ \E m \in Id : IdleElapses(m)
  \/ DeleteGroup
  \/ \E w \in Workers : WorkerStep(w) \/ Crash(w) \/ Restart(w)

Spec == Init /\ [][Next]_vars

(* A process that is up keeps making its calls, the restart policy brings  *)
(* a dead one back, and wall-clock time passes for an entry left pending.  *)
Fairness ==
  /\ \A w \in Workers : WF_vars(WorkerStep(w)) /\ WF_vars(Restart(w))
  /\ \A m \in Id : WF_vars(IdleElapses(m))

LiveSpec == Spec /\ Fairness

-----------------------------------------------------------------------------
Published == 1..Len(log)
Listed(w) == {m \in Id : snap[w][m] > 0}
Pending == {m \in Id : times[m] > 0}

(* Entry m is on durable record: its event, or another delivery of the     *)
(* same event_id, has a row in audit_events, or m has one in               *)
(* quarantined_audit_events.                                               *)
Durable(m) ==
  \/ /\ parse_audit_event(log[m])
     /\ \E r \in auditEvents : r.columns = m \/ r.event_id = log[m].event_id
  \/ \E q \in quarantined : q.stream_message_id = m

RedisType ==
  /\ log \in Seq(Payloads) /\ Len(log) <= MaxMessages
  /\ stream \subseteq Published
  /\ group \in BOOLEAN /\ cursor \in 0..Len(log)
  /\ times \in [Id -> Nat] /\ stale \subseteq Pending /\ Pending \subseteq Published
  /\ acked \subseteq Published
  /\ faults \in 0..MaxFaults

MysqlType ==
  /\ IsFiniteSet(auditEvents) /\ IsFiniteSet(quarantined)
  /\ auditEvents \subseteq [event_id : EventId \cup Nat, columns : Published,
                            integrity_status : IntegrityStatus, created_at : Nat]
  /\ quarantined \subseteq [stream_message_id : Published, raw_data : Data,
                            failure_category : FailureCategory, delivery_attempts : Nat,
                            quarantined_at : Nat]

ProcessType ==
  /\ pc \in [Workers -> {"start", "process", "fetch", "stored", "nogroup",
                          "raised", "crashed"}]
  /\ phase \in [Workers -> {"read", "sweep"}]
  /\ snap \in [Workers -> [Id -> Nat]] /\ \A w \in Workers : Listed(w) \subseteq Published
  /\ fetched \in [Workers -> SUBSET Published]
  /\ gone \in [Workers -> SUBSET Published]
  /\ batch \in [Workers -> SUBSET Published]
  /\ due \in [Workers -> BOOLEAN]

(* The types of all state: only published entries are in the stream, in    *)
(* the PEL, in a table or in a worker's hands.                             *)
TypeOK == RedisType /\ MysqlType /\ ProcessType

(* "Only ack after a successful DB commit", and quarantine before ack,     *)
(* "never the other order": whatever failed, crashed or raced, every       *)
(* acknowledged entry is on durable record.                                *)
AckedIsDurable == \A m \in acked : Durable(m)

(* An entry that is in the stream and on no durable record is never out of *)
(* the group's sight: it is still to be read, or in the PEL where a sweep  *)
(* finds it.                                                               *)
NothingLost ==
  group => \A m \in stream : Durable(m) \/ m > cursor \/ m \in Pending

(* The poison rule bounds deliveries also when workers race: a worker may  *)
(* act on an XPENDING reply that another worker's XCLAIM has outdated, and *)
(* so deliver an entry again that has had its MaxDeliveries, but each      *)
(* worker can do so only once.                                             *)
Holders(m) == {w \in Workers : m \in Reclaimable(w)}
DeliveryBound ==
  \A m \in Pending :
    times[m] + Cardinality(Holders(m)) <= MaxDeliveries + Cardinality(Workers) - 1

(* Redelivery is idempotent: however often an entry is delivered after a   *)
(* lost reply, a crash or a race, each delivery an insert of its own, no   *)
(* event_id, and no entry that names its event_id, ever has two rows in    *)
(* audit_events, and no entry has two in quarantined_audit_events.         *)
RowsAreUnique ==
  /\ \A r, s \in auditEvents :
       r.event_id = s.event_id \/ (r.columns = s.columns /\ log[r.columns].event_id # Omitted)
         => r = s
  /\ \A q, s \in quarantined : q.stream_message_id = s.stream_message_id => q = s

(* An entry without an event_id is given a new one by every delivery, so   *)
(* the primary key does not stop a second row of it.  What bounds its rows *)
(* is the poison rule, as long as nobody deletes the group: every row took *)
(* a delivery of its own.                                                  *)
DuplicatesAreBounded ==
  ~OperatorDeletes =>
    \A m \in Published :
      Cardinality({r \in auditEvents : r.columns = m})
        <= MaxDeliveries + Cardinality(Workers) - 1

(* A row stands as first written: no redelivery, and no other entry that   *)
(* uses the same event_id (one whose signature is wrong, say), replaces a  *)
(* row's columns or its integrity_status, and none is removed.             *)
FirstRowStands ==
  [][auditEvents \subseteq auditEvents' /\ quarantined \subseteq quarantined']_vars

(* Quarantine keeps the entry's payload as evidence, unless the stream had *)
(* already lost it; and it never takes an entry that had not used up its   *)
(* deliveries.                                                             *)
QuarantineKeepsEvidence ==
  \A q \in quarantined :
    /\ q.delivery_attempts >= MaxDeliveries
    /\ q.raw_data = log[q.stream_message_id].data \/ q.stream_message_id \notin stream

(* ensure_group, also when _handle_nogroup calls it on a stale NOGROUP     *)
(* reply, never resets an existing group's cursor, and no step but an      *)
(* acknowledgement takes an entry that is still in the stream out of an    *)
(* existing group's PEL.                                                   *)
GroupStateSurvives ==
  [][group /\ group' =>
       /\ cursor <= cursor'
       /\ \A m \in Pending \cap stream' : times'[m] > 0 \/ m \in acked']_vars

(* The pipeline implements the delivery contract: an entry is settled when *)
(* a worker's XACK takes effect, and evicted when it has left the stream.  *)
Contract == INSTANCE DeliveryContract
              WITH published <- Published,
                   evicted   <- Published \ stream,
                   durable   <- {m \in Published : Durable(m)},
                   settled   <- acked
ImplementsContract == Contract!ContractSpec

(* Once the failures stop, every published entry comes to rest: it is on   *)
(* durable record unless the stream lost it first, and it is not in the    *)
(* PEL, also when its row was written and the acknowledgement was then     *)
(* lost, or the group was deleted under a worker.                          *)
EverythingComesToRest ==
  \A m \in Id : m \in Published ~> (m \notin Pending /\ (m \notin stream \/ Durable(m)))
=============================================================================
