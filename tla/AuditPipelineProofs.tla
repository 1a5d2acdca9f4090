------------------------ MODULE AuditPipelineProofs -------------------------
(***************************************************************************)
(* The guarantees of AuditPipeline, for every number of workers, entries,  *)
(* failures and deletions: types, then what is acknowledged is on durable  *)
(* record, what is on no durable record stays in the group's sight, the    *)
(* group's own state survives every step, redelivery is idempotent,        *)
(* quarantine keeps the evidence, the delivery contract is implemented,    *)
(* and deliveries are bounded.                                             *)
(*                                                                         *)
(* AckedIsDurable is not inductive: that the acknowledgement follows the   *)
(* commit is a fact about what a worker between the two has in hand, and   *)
(* that a row whose event_id was minted is really inserted is a fact about *)
(* the event_ids already used.                                             *)
(***************************************************************************)
EXTENDS AuditPipeline, FiniteSetTheorems, TLAPS

(* Types.                                                                  *)
LEMMA TypeInit == Init => TypeOK
<1> SUFFICES ASSUME Init PROVE TypeOK
  OBVIOUS
<1>1. RedisType
  <2>1. log \in Seq(Payloads) /\ Len(log) = 0
    BY DEF Init
  <2>2. times \in [Id -> Nat] /\ Pending = {}
    BY DEF Init, Pending, NoSnap
  <2>3. Len(log) <= MaxMessages /\ cursor \in 0..Len(log) /\ faults \in 0..MaxFaults
    BY <2>1, BoundsAssumption DEF Init
  <2>4. group \in BOOLEAN /\ stale = {} /\ stream = {} /\ acked = {}
    BY DEF Init
  <2> QED
    BY <2>1, <2>2, <2>3, <2>4 DEF RedisType
<1>2. MysqlType
  BY FS_EmptySet DEF Init, MysqlType
<1>3. ProcessType
  BY DEF Init, ProcessType, Published, Listed, NoSnap, Id
<1> QED
  BY <1>1, <1>2, <1>3 DEF TypeOK

LEMMA TypeLog == TypeOK /\ Log => TypeOK'
<1> SUFFICES ASSUME TypeOK, Log PROVE TypeOK'
  OBVIOUS
<1> USE BoundsAssumption
<1>0. RedisType /\ MysqlType /\ ProcessType
  BY DEF TypeOK
<1>1. PICK p \in Payloads : log' = Append(log, p)
  BY DEF Log
<1>2. /\ log' \in Seq(Payloads) /\ Len(log') = Len(log) + 1 /\ Len(log) \in Nat
      /\ Len(log') <= MaxMessages
  BY <1>0, <1>1 DEF Log, RedisType
<1>3. Published \subseteq Published'
  BY <1>2 DEF Published
<1>4. stream' \subseteq Published'
  <2>1. stream' \subseteq stream \cup {Len(log) + 1}
    BY DEF Log
  <2>2. Len(log) + 1 \in Published'
    BY <1>2 DEF Published
  <2> QED
    BY <1>0, <1>3, <2>1, <2>2 DEF RedisType
<1>5. Pending' = Pending /\ \A w \in Workers : Listed(w)' = Listed(w)
  BY DEF Log, Pending, Listed, process
<1>6. RedisType'
  BY <1>0, <1>2, <1>3, <1>4, <1>5 DEF Log, RedisType
<1>7. MysqlType'
  BY <1>0, <1>3 DEF Log, MysqlType, mysql
<1>8. ProcessType'
  BY <1>0, <1>3, <1>5 DEF Log, ProcessType, process
<1> QED
  BY <1>6, <1>7, <1>8 DEF TypeOK

(* The pieces that the worker's steps are made of keep the types.          *)
LEMMA ChargeType ==
  ASSUME faults \in 0..MaxFaults, NEW o, Charge(o)
  PROVE  faults' \in 0..MaxFaults
BY BoundsAssumption DEF Charge

LEMMA SameProcess == ProcessType /\ UNCHANGED <<log, process>> => ProcessType'
BY DEF ProcessType, process, Published, Listed

LEMMA SameMysql == MysqlType /\ UNCHANGED <<log, mysql>> => MysqlType'
BY DEF MysqlType, mysql, Published

LEMMA SameRedis ==
  ASSUME RedisType, UNCHANGED <<log, redis, acked>>, faults' \in 0..MaxFaults
  PROVE  RedisType'
BY DEF RedisType, redis, Published, Pending

LEMMA TerminateType ==
  ASSUME ProcessType, UNCHANGED log, NEW w \in Workers,
         NEW how \in {"raised", "crashed"}, Terminate(w, how)
  PROVE  ProcessType'
<1>1. Published' = Published
  BY DEF Published
<1>2. NoSnap \in [Id -> Nat]
  BY DEF NoSnap
<1>3. \A v \in Workers : Listed(v)' \subseteq Published
  BY DEF Terminate, ProcessType, Listed, NoSnap
<1> QED
  BY <1>1, <1>2, <1>3 DEF Terminate, ProcessType

LEMMA DropType ==
  ASSUME ProcessType, UNCHANGED log, NEW w \in Workers, NEW m \in Id, Drop(w, m)
  PROVE  ProcessType'
<1>1. Published' = Published
  BY DEF Published
<1>2. snap' \in [Workers -> [Id -> Nat]]
  BY DEF Drop, ProcessType
<1>3. \A v \in Workers : Listed(v)' \subseteq Published
  BY DEF Drop, ProcessType, Listed
<1> QED
  BY <1>1, <1>2, <1>3 DEF Drop, ProcessType

LEMMA AbandonType ==
  ASSUME ProcessType, UNCHANGED log, NEW w \in Workers, AbandonSweep(w)
  PROVE  /\ snap' \in [Workers -> [Id -> Nat]]
         /\ \A v \in Workers : Listed(v)' \subseteq Published'
         /\ fetched' \in [Workers -> SUBSET Published']
         /\ gone' \in [Workers -> SUBSET Published']
         /\ batch' \in [Workers -> SUBSET Published']
<1>1. Published' = Published
  BY DEF Published
<1>2. NoSnap \in [Id -> Nat]
  BY DEF NoSnap
<1>3. \A v \in Workers : Listed(v)' \subseteq Published
  BY DEF AbandonSweep, ProcessType, Listed, NoSnap
<1> QED
  BY <1>1, <1>2, <1>3 DEF AbandonSweep, ProcessType

(* The environment's steps.                                                *)
LEMMA TypeIdle == ASSUME TypeOK, NEW m \in Id, IdleElapses(m) PROVE TypeOK'
<1>0. RedisType /\ MysqlType /\ ProcessType
  BY DEF TypeOK
<1>1. RedisType'
  BY <1>0 DEF RedisType, IdleElapses, Published, Pending
<1>2. MysqlType' /\ ProcessType'
  BY <1>0, SameMysql, SameProcess DEF IdleElapses
<1> QED
  BY <1>1, <1>2 DEF TypeOK

LEMMA TypeDeleteGroup == TypeOK /\ DeleteGroup => TypeOK'
<1> SUFFICES ASSUME TypeOK, DeleteGroup PROVE TypeOK'
  OBVIOUS
<1>0. RedisType /\ MysqlType /\ ProcessType
  BY DEF TypeOK
<1>1. faults' \in 0..MaxFaults
  BY <1>0, ChargeType DEF RedisType, DeleteGroup
<1>2. times' \in [Id -> Nat] /\ Pending' = {} /\ Published' = Published
  BY DEF DeleteGroup, NoSnap, Pending, Published
<1>3. 0 \in 0..Len(log) /\ stream' \subseteq stream
  BY <1>0 DEF RedisType, DeleteGroup
<1>4. RedisType'
  BY <1>0, <1>1, <1>2, <1>3 DEF RedisType, DeleteGroup
<1>5. MysqlType' /\ ProcessType'
  BY <1>0, SameMysql, SameProcess DEF DeleteGroup
<1> QED
  BY <1>4, <1>5 DEF TypeOK

LEMMA TypeCrash == ASSUME TypeOK, NEW w \in Workers, Crash(w) \/ Restart(w) PROVE TypeOK'
<1>0. RedisType /\ MysqlType /\ ProcessType
  BY DEF TypeOK
<1>1. CASE Crash(w)
  <2>1. faults' \in 0..MaxFaults
    BY <1>0, <1>1, ChargeType DEF RedisType, Crash
  <2>2. RedisType' /\ MysqlType'
    BY <1>0, <1>1, <2>1, SameRedis, SameMysql DEF Crash
  <2>3. ProcessType'
    BY <1>0, <1>1, TerminateType DEF Crash
  <2> QED
    BY <2>2, <2>3 DEF TypeOK
<1>2. CASE Restart(w)
  <2>1. RedisType' /\ MysqlType'
    BY <1>0, <1>2, SameRedis, SameMysql DEF Restart, RedisType
  <2>2. ProcessType'
    BY <1>0, <1>2 DEF Restart, ProcessType, sweep, Published, Listed
  <2> QED
    BY <2>1, <2>2 DEF TypeOK
<1> QED
  BY <1>1, <1>2

(* The worker's steps.                                                     *)
LEMMA EnsureGroupType ==
  ASSUME RedisType, UNCHANGED <<log, acked>>, NEW o, ensure_group(o), faults' \in 0..MaxFaults
  PROVE  RedisType'
<1>1. Published' = Published /\ Pending' = Pending /\ 0 \in 0..Len(log)
  BY DEF RedisType, ensure_group, Published, Pending
<1>2. group' \in BOOLEAN /\ cursor' \in 0..Len(log)
  BY <1>1 DEF RedisType, ensure_group
<1> QED
  BY <1>1, <1>2 DEF RedisType, ensure_group

LEMMA TypeStart ==
  ASSUME TypeOK, NEW w \in Workers, NEW o \in Outcome, Start(w, o) PROVE TypeOK'
<1>0. RedisType /\ MysqlType /\ ProcessType
  BY DEF TypeOK
<1>1. faults' \in 0..MaxFaults
  BY <1>0, ChargeType DEF RedisType, Start
<1>2. RedisType' /\ MysqlType'
  BY <1>0, <1>1, EnsureGroupType, SameMysql DEF Start
<1>3. ProcessType'
  <2>1. CASE o = "done"
    BY <1>0, <2>1 DEF Start, ProcessType, sweep, Published, Listed
  <2>2. CASE o # "done"
    BY <1>0, <2>2, TerminateType DEF Start
  <2> QED
    BY <2>1, <2>2
<1> QED
  BY <1>2, <1>3 DEF TypeOK

LEMMA TypeListStale ==
  ASSUME TypeOK, NEW w \in Workers, NEW o \in Outcome, ListStale(w, o) PROVE TypeOK'
<1>0. RedisType /\ MysqlType /\ ProcessType
  BY DEF TypeOK
<1>1. faults' \in 0..MaxFaults
  BY <1>0, ChargeType DEF RedisType, ListStale
<1>2. RedisType' /\ MysqlType'
  BY <1>0, <1>1, SameRedis, SameMysql DEF ListStale
<1>3. ProcessType'
  <2>1. PICK S \in SUBSET stale :
          /\ snap' = [snap EXCEPT ![w] = [m \in Id |-> IF m \in S THEN times[m] ELSE 0]]
          /\ pc' = [pc EXCEPT ![w] = CASE o = "done" /\ ~group -> "nogroup"
                                       [] S # {}               -> "fetch"
                                       [] OTHER                -> "process"]
    BY DEF ListStale, Lowest
  <2>2. pc' \in [Workers -> {"start", "process", "fetch", "stored", "nogroup",
                             "raised", "crashed"}]
    BY <1>0, <2>1 DEF ProcessType
  <2>3. snap' \in [Workers -> [Id -> Nat]] /\ Published' = Published
    BY <1>0, <2>1 DEF ProcessType, RedisType, ListStale, Published
  <2>4. \A v \in Workers : Listed(v)' \subseteq Published
    BY <1>0, <2>1 DEF ProcessType, RedisType, Listed
  <2> QED
    BY <1>0, <2>2, <2>3, <2>4 DEF ListStale, ProcessType
<1> QED
  BY <1>2, <1>3 DEF TypeOK

LEMMA PoisonIsListed ==
  ASSUME TypeOK, NEW w \in Workers
  PROVE  /\ Poison(w) \subseteq Listed(w) /\ Reclaimable(w) \subseteq Listed(w)
         /\ Listed(w) \subseteq Published
BY BoundsAssumption DEF TypeOK, ProcessType, Poison, Reclaimable, Listed

LEMMA TypeFetchPoison ==
  ASSUME TypeOK, NEW w \in Workers, NEW o \in Outcome, FetchPoison(w, o) PROVE TypeOK'
<1>0. RedisType /\ MysqlType /\ ProcessType
  BY DEF TypeOK
<1>1. faults' \in 0..MaxFaults
  BY <1>0, ChargeType DEF RedisType, FetchPoison
<1>2. RedisType' /\ MysqlType'
  BY <1>0, <1>1, SameRedis, SameMysql DEF FetchPoison
<1>3. ProcessType'
  <2>1. CASE o = "done"
    <3>1. PICK m \in Published :
            /\ fetched' = [fetched EXCEPT ![w] = @ \cup {m}]
            /\ gone' = [gone EXCEPT ![w] = IF m \in stream THEN @ ELSE @ \cup {m}]
      BY <2>1, PoisonIsListed DEF FetchPoison, IsFirst
    <3>2. Published' = Published /\ \A v \in Workers : Listed(v)' = Listed(v)
      BY <2>1 DEF FetchPoison, Published, Listed
    <3> QED
      BY <1>0, <2>1, <3>1, <3>2 DEF FetchPoison, ProcessType
  <2>2. CASE o # "done"
    <3>1. AbandonSweep(w) /\ pc' = [pc EXCEPT ![w] = "process"] /\ UNCHANGED <<log, phase, due>>
      BY <2>2 DEF FetchPoison
    <3> QED
      BY <1>0, <3>1, AbandonType DEF ProcessType
  <2> QED
    BY <2>1, <2>2
<1> QED
  BY <1>2, <1>3 DEF TypeOK

LEMMA XclaimType ==
  ASSUME RedisType, UNCHANGED <<log, acked>>, NEW R \in SUBSET Id, xclaim(R),
         faults' \in 0..MaxFaults
  PROVE  RedisType'
<1>1. Published' = Published
  BY DEF Published
<1>2. times' \in [Id -> Nat]
  BY DEF RedisType, xclaim
<1>3. Pending' \subseteq Published
  BY DEF RedisType, xclaim, Pending, Claimed
<1>4. stale' \subseteq Pending'
  BY DEF RedisType, xclaim, Pending, Claimed
<1> QED
  BY <1>1, <1>2, <1>3, <1>4 DEF RedisType, xclaim

LEMMA TypeClaim ==
  ASSUME TypeOK, NEW w \in Workers, NEW o \in Outcome, Claim(w, o) PROVE TypeOK'
<1>0. RedisType /\ MysqlType /\ ProcessType
  BY DEF TypeOK
<1>1. faults' \in 0..MaxFaults
  BY <1>0, ChargeType DEF RedisType, Claim
<1>2. RedisType'
  <2>1. Reclaimable(w) \in SUBSET Id
    BY DEF Reclaimable
  <2>2. CASE group /\ TookEffect(o)
    BY <1>0, <1>1, <2>1, <2>2, XclaimType DEF Claim
  <2>3. CASE ~(group /\ TookEffect(o))
    BY <1>0, <1>1, <2>3, SameRedis DEF Claim
  <2> QED
    BY <2>2, <2>3
<1>3. MysqlType'
  BY <1>0, SameMysql DEF Claim
<1>4. ProcessType'
  <2>1. pc' \in [Workers -> {"start", "process", "fetch", "stored", "nogroup",
                             "raised", "crashed"}]
    BY <1>0 DEF Claim, ProcessType
  <2>2. CASE o = "done" /\ (group \/ Reclaimable(w) = {})
    <3>1. /\ batch' = [batch EXCEPT ![w] = Claimed(Reclaimable(w))]
          /\ snap' = [snap EXCEPT ![w] =
                        [m \in Id |-> IF m \in Reclaimable(w) THEN 0 ELSE snap[w][m]]]
          /\ UNCHANGED <<log, fetched, gone, phase, due>>
      BY <2>2 DEF Claim
    <3>2. Published' = Published /\ Claimed(Reclaimable(w)) \subseteq Published
      BY <1>0, <3>1 DEF Published, Claimed, RedisType
    <3>3. snap' \in [Workers -> [Id -> Nat]]
      BY <1>0, <3>1 DEF ProcessType
    <3>4. \A v \in Workers : Listed(v)' \subseteq Published
      BY <1>0, <3>1 DEF ProcessType, Listed
    <3> QED
      BY <1>0, <2>1, <3>1, <3>2, <3>3, <3>4 DEF ProcessType
  <2>3. CASE ~(o = "done" /\ (group \/ Reclaimable(w) = {}))
    <3>1. AbandonSweep(w) /\ UNCHANGED <<log, phase, due>>
      BY <2>3 DEF Claim
    <3> QED
      BY <1>0, <2>1, <3>1, AbandonType DEF ProcessType
  <2> QED
    BY <2>2, <2>3
<1> QED
  BY <1>2, <1>3, <1>4 DEF TypeOK

LEMMA TypeNogroup ==
  ASSUME TypeOK, NEW w \in Workers, NEW o \in Outcome,
         RecreateGroup(w, o) \/ LeaveNogroup(w)
  PROVE  TypeOK'
<1>0. RedisType /\ MysqlType /\ ProcessType
  BY DEF TypeOK
<1>1. \E a \in BOOLEAN : AfterNogroup(w, a)
  BY DEF RecreateGroup, LeaveNogroup
<1>2. MysqlType'
  BY <1>0, <1>1, SameMysql DEF AfterNogroup
<1>3. ProcessType'
  BY <1>0, <1>1 DEF AfterNogroup, ProcessType, sweep, Published, Listed
<1>4. RedisType'
  <2>1. CASE RecreateGroup(w, o)
    <3>1. faults' \in 0..MaxFaults
      BY <1>0, <2>1, ChargeType DEF RedisType, RecreateGroup
    <3> QED
      BY <1>0, <2>1, <3>1, EnsureGroupType DEF RecreateGroup, AfterNogroup
  <2>2. CASE LeaveNogroup(w)
    BY <1>0, <2>2, SameRedis DEF LeaveNogroup, AfterNogroup, RedisType
  <2> QED
    BY <2>1, <2>2
<1> QED
  BY <1>2, <1>3, <1>4 DEF TypeOK

LEMMA AfterWriteType ==
  ASSUME ProcessType, UNCHANGED log, NEW w \in Workers, NEW m \in Id, NEW o, AfterWrite(w, m, o)
  PROVE  ProcessType'
<1>1. CASE o = "done"
  BY <1>1 DEF AfterWrite, ProcessType, sweep, Published, Listed
<1>2. CASE o # "done"
  BY <1>2, DropType DEF AfterWrite
<1> QED
  BY <1>1, <1>2

LEMMA PublishedFields ==
  ASSUME TypeOK, NEW m \in Published
  PROVE  log[m] \in Fields /\ m \in Id /\ m \in Nat /\ Len(log) \in Nat
<1>1. log \in Seq(Payloads) /\ Len(log) <= MaxMessages
  BY DEF TypeOK, RedisType
<1>2. log[m] \in Payloads
  BY <1>1 DEF Published
<1> QED
  BY <1>1, <1>2, PayloadsAssumption, BoundsAssumption DEF Published, Id

LEMMA QuarantineRowType ==
  ASSUME TypeOK, NEW w \in Workers, NEW m \in Poison(w)
  PROVE  PoisonRow(w, m)
           \in [stream_message_id : Published, raw_data : Data,
                failure_category : FailureCategory, delivery_attempts : Nat,
                quarantined_at : Nat]
<1>1. m \in Published /\ m \in Id
  BY PoisonIsListed DEF Poison
<1>2. FetchedFields(w, m).data \in Data
  BY <1>1, PublishedFields DEF FetchedFields, NoFields, Fields, Data
<1>3. classify_poison_reason(FetchedFields(w, m)) \in FailureCategory
  BY DEF classify_poison_reason, FailureCategory
<1>4. snap[w][m] \in Nat
  BY <1>1 DEF TypeOK, ProcessType
<1>5. ServerTime(quarantined) \in Nat
  BY FS_CardinalityType DEF TypeOK, MysqlType, ServerTime
<1> QED
  BY <1>1, <1>2, <1>3, <1>4, <1>5 DEF PoisonRow, QuarantinedAuditEvent

LEMMA TypeQuarantine ==
  ASSUME TypeOK, NEW w \in Workers, NEW o \in Outcome, Quarantine(w, o) PROVE TypeOK'
<1>0. RedisType /\ MysqlType /\ ProcessType
  BY DEF TypeOK
<1>1. PICK m \in Id :
        /\ IsFirst(m, Poison(w))
        /\ IF Quarantinable(w, m) THEN Charge(o) ELSE o = "failed" /\ UNCHANGED faults
        /\ IF TookEffect(o)
             THEN InsertQuarantine(PoisonRow(w, m))
             ELSE UNCHANGED quarantined
        /\ AfterWrite(w, m, o)
        /\ UNCHANGED <<log, redis, auditEvents, acked>>
  BY DEF Quarantine
<1>2. faults' \in 0..MaxFaults
  BY <1>0, <1>1, ChargeType DEF RedisType
<1>3. RedisType'
  BY <1>0, <1>1, <1>2, SameRedis
<1>4. MysqlType'
  <2>1. m \in Poison(w)
    BY <1>1 DEF IsFirst
  <2>2. IsFiniteSet(quarantined')
    BY <1>0, <1>1, FS_AddElement DEF InsertQuarantine, MysqlType
  <2> QED
    BY <1>0, <1>1, <2>1, <2>2, QuarantineRowType DEF InsertQuarantine, MysqlType, Published
<1>5. ProcessType'
  BY <1>0, <1>1, AfterWriteType
<1> QED
  BY <1>3, <1>4, <1>5 DEF TypeOK

LEMMA EventRowType ==
  ASSUME TypeOK, NEW m \in Published
  PROVE  EventRow(m)
           \in [event_id : EventId \cup Nat, columns : Published,
                integrity_status : IntegrityStatus, created_at : Nat]
<1>1. log[m] \in Fields
  BY PublishedFields
<1>2. FreshUuid \in Nat /\ ServerTime(auditEvents) \in Nat
  BY FS_CardinalityType DEF TypeOK, MysqlType, FreshUuid, ServerTime
<1>3. parsed_event_id(log[m], FreshUuid) \in EventId \cup Nat
  BY <1>1, <1>2 DEF parsed_event_id, Fields
<1>4. classify_event_integrity(log[m]) \in IntegrityStatus
  BY <1>1 DEF classify_event_integrity, Fields, IntegrityStatus
<1> QED
  BY <1>2, <1>3, <1>4 DEF EventRow, AuditEventRecord

LEMMA TypePersist ==
  ASSUME TypeOK, NEW w \in Workers, NEW o \in Outcome, Persist(w, o) PROVE TypeOK'
<1>0. RedisType /\ MysqlType /\ ProcessType
  BY DEF TypeOK
<1>1. PICK m \in Id :
        /\ IsFirst(m, batch[w])
        /\ IF Persistable(m) THEN Charge(o) ELSE o = "failed" /\ UNCHANGED faults
        /\ IF TookEffect(o) THEN InsertEvent(EventRow(m))
                            ELSE UNCHANGED auditEvents
        /\ AfterWrite(w, m, o)
        /\ UNCHANGED <<log, redis, quarantined, acked>>
  BY DEF Persist
<1>2. faults' \in 0..MaxFaults
  BY <1>0, <1>1, ChargeType DEF RedisType
<1>3. RedisType'
  BY <1>0, <1>1, <1>2, SameRedis
<1>4. MysqlType'
  <2>1. m \in Published
    BY <1>0, <1>1 DEF IsFirst, ProcessType
  <2>2. IsFiniteSet(auditEvents')
    BY <1>0, <1>1, FS_AddElement DEF InsertEvent, MysqlType
  <2> QED
    BY <1>0, <1>1, <2>1, <2>2, EventRowType DEF InsertEvent, MysqlType, Published
<1>5. ProcessType'
  BY <1>0, <1>1, AfterWriteType
<1> QED
  BY <1>3, <1>4, <1>5 DEF TypeOK

(* The entry in hand is one that was published.                            *)
LEMMA InHandIsPublished ==
  ASSUME TypeOK, NEW w \in Workers, NEW m, InHand(w, m) PROVE m \in Published
BY PoisonIsListed DEF InHand, IsFirst, TypeOK, ProcessType

LEMMA TypeAck ==
  ASSUME TypeOK, NEW w \in Workers, NEW o \in Outcome, Ack(w, o) PROVE TypeOK'
<1>0. RedisType /\ MysqlType /\ ProcessType
  BY DEF TypeOK
<1>1. PICK m \in Id :
        /\ InHand(w, m) /\ Charge(o)
        /\ IF TookEffect(o)
             THEN /\ times' = [times EXCEPT ![m] = 0]
                  /\ stale' = stale \ {m}
                  /\ acked' = acked \cup {m}
             ELSE UNCHANGED <<times, stale, acked>>
        /\ IF o = "done" THEN Drop(w, m) ELSE Terminate(w, "raised")
        /\ UNCHANGED <<log, stream, group, cursor, mysql>>
  BY DEF Ack
<1>2. faults' \in 0..MaxFaults
  BY <1>0, <1>1, ChargeType DEF RedisType
<1>3. RedisType'
  <2>1. m \in Published
    BY <1>1, InHandIsPublished
  <2>2. Published' = Published
    BY <1>1 DEF Published
  <2>3. times' \in [Id -> Nat] /\ stale' \subseteq Pending' /\ Pending' \subseteq Pending
    BY <1>0, <1>1 DEF RedisType, Pending
  <2> QED
    BY <1>0, <1>1, <1>2, <2>1, <2>2, <2>3 DEF RedisType
<1>4. MysqlType'
  BY <1>0, <1>1, SameMysql
<1>5. ProcessType'
  BY <1>0, <1>1, DropType, TerminateType
<1> QED
  BY <1>3, <1>4, <1>5 DEF TypeOK

LEMMA TypeReadGroup ==
  ASSUME TypeOK, NEW w \in Workers, NEW o \in Outcome, ReadGroup(w, o) PROVE TypeOK'
<1>0. RedisType /\ MysqlType /\ ProcessType
  BY DEF TypeOK
<1> DEFINE new == IF group /\ TookEffect(o)
                    THEN Lowest({m \in stream : m > cursor}, ReadCount) ELSE {}
<1>1. /\ Charge(o)
      /\ IF new = {} THEN UNCHANGED cursor ELSE IsLast(cursor', new)
      /\ times' = [m \in Id |-> IF m \in new THEN 1 ELSE times[m]]
      /\ batch' = [batch EXCEPT ![w] = IF o = "done" THEN new ELSE {}]
      /\ phase' = [phase EXCEPT ![w] = "read"]
      /\ pc' = [pc EXCEPT ![w] = IF ~group /\ o = "done" THEN "nogroup" ELSE "process"]
      /\ fetched' = [fetched EXCEPT ![w] = {}]
      /\ gone' = [gone EXCEPT ![w] = {}]
      /\ UNCHANGED <<log, stream, group, stale, mysql, snap, due, acked>>
  BY DEF ReadGroup
<1>2. new \subseteq stream
  BY DEF Lowest
<1> HIDE DEF new
<1>3. faults' \in 0..MaxFaults
  BY <1>0, <1>1, ChargeType DEF RedisType
<1>4. Published' = Published /\ \A v \in Workers : Listed(v)' = Listed(v)
  BY <1>1 DEF Published, Listed
<1>5. RedisType'
  <2>1. cursor' \in 0..Len(log)
    <3>1. cursor' = cursor \/ cursor' \in Published
      BY <1>0, <1>1, <1>2 DEF RedisType, IsLast
    <3> QED
      BY <1>0, <3>1 DEF RedisType, Published
  <2>2. times' \in [Id -> Nat]
    BY <1>0, <1>1 DEF RedisType
  <2>3. Pending' \subseteq Published
    BY <1>0, <1>1, <1>2 DEF RedisType, Pending
  <2>4. stale' \subseteq Pending'
    BY <1>0, <1>1 DEF RedisType, Pending
  <2> QED
    BY <1>0, <1>1, <1>3, <1>4, <2>1, <2>2, <2>3, <2>4 DEF RedisType
<1>6. MysqlType'
  BY <1>0, <1>1, SameMysql
<1>7. ProcessType'
  BY <1>0, <1>1, <1>2, <1>4 DEF ProcessType, RedisType
<1> QED
  BY <1>5, <1>6, <1>7 DEF TypeOK

LEMMA TypeStutter == TypeOK /\ UNCHANGED vars => TypeOK'
<1> SUFFICES ASSUME TypeOK, UNCHANGED vars PROVE TypeOK'
  OBVIOUS
<1>1. RedisType' /\ MysqlType' /\ ProcessType'
  BY SameRedis, SameMysql, SameProcess DEF TypeOK, RedisType, vars, redis, mysql, process
<1> QED
  BY <1>1 DEF TypeOK

LEMMA TypeNext == TypeOK /\ [Next]_vars => TypeOK'
<1> SUFFICES ASSUME TypeOK, [Next]_vars PROVE TypeOK'
  OBVIOUS
<1>1. CASE Log
  BY <1>1, TypeLog
<1>2. ASSUME NEW m \in Id, IdleElapses(m) PROVE TypeOK'
  BY <1>2, TypeIdle
<1>3. CASE DeleteGroup
  BY <1>3, TypeDeleteGroup
<1>4. ASSUME NEW w \in Workers, Crash(w) \/ Restart(w) PROVE TypeOK'
  BY <1>4, TypeCrash
<1>5. ASSUME NEW w \in Workers, NEW o \in Outcome, Call(w, o) PROVE TypeOK'
  BY <1>5, TypeStart, TypeListStale, TypeFetchPoison, TypeClaim, TypeQuarantine,
     TypePersist, TypeAck, TypeReadGroup, TypeNogroup DEF Call
<1>6. ASSUME NEW w \in Workers, LeaveNogroup(w) PROVE TypeOK'
  <2>1. "done" \in Outcome
    BY DEF Outcome
  <2> QED
    BY <1>6, <2>1, TypeNogroup
<1>7. CASE UNCHANGED vars
  BY <1>7, TypeStutter
<1> QED
  BY <1>1, <1>2, <1>3, <1>4, <1>5, <1>6, <1>7 DEF Next, WorkerStep

(* Whatever fails, crashes, races or is deleted, only published entries    *)
(* are in the stream, in the PEL, in a table or in a worker's hands, and   *)
(* every row has the shape its table declares.                             *)
THEOREM TypeCorrect == Spec => []TypeOK
<1>1. Init => TypeOK
  BY TypeInit
<1>2. TypeOK /\ [Next]_vars => TypeOK'
  BY TypeNext
<1> QED
  BY <1>1, <1>2, PTL DEF Spec

-----------------------------------------------------------------------------
(* Between the write and the acknowledgement, the entry in hand is on      *)
(* durable record.                                                         *)
StoredIsDurable ==
  \A w \in Workers : pc[w] = "stored" => \A m \in Id : InHand(w, m) => Durable(m)

(* A fresh event_id has not been used.                                     *)
UuidsAreSpent ==
  \A r \in auditEvents : r.event_id \in EventId \/ r.event_id < Cardinality(auditEvents)

DurabilityInv == TypeOK /\ StoredIsDurable /\ UuidsAreSpent /\ AckedIsDurable

-----------------------------------------------------------------------------
(* What w has in hand, and where it is.                                    *)
Untouched(w) == pc'[w] = pc[w] /\ snap'[w] = snap[w] /\ batch'[w] = batch[w]

(* A step leaves the rows, and the fields of what was published, alone; it *)
(* brings a worker to the acknowledgement only by way of a write.          *)
Writes(w) == Quarantine(w, "done") \/ Persist(w, "done")
Monotone ==
  /\ auditEvents \subseteq auditEvents' /\ quarantined \subseteq quarantined'
  /\ \A m \in Published : m \in Published' /\ log'[m] = log[m]
NewlyStored == \A w \in Workers : pc'[w] = "stored" => Untouched(w) \/ Writes(w)

LEMMA QuietStep ==
  ASSUME UNCHANGED <<log, mysql>> PROVE Monotone
BY DEF Monotone, mysql, Published

(* A step of the environment.                                              *)
LEMMA EnvironmentStep ==
  ASSUME TypeOK, Log \/ (\E m \in Id : IdleElapses(m)) \/ DeleteGroup \/ UNCHANGED vars
  PROVE  Monotone /\ NewlyStored
<1>1. NewlyStored
  BY DEF NewlyStored, Untouched, Log, IdleElapses, DeleteGroup, vars, process
<1>2. Monotone
  <2>1. CASE Log
    <3>1. /\ \E p \in Payloads : log' = Append(log, p)
          /\ log \in Seq(Payloads)
          /\ UNCHANGED mysql
      BY <2>1 DEF TypeOK, RedisType, Log
    <3>2. \A m \in Published : m \in Published' /\ log'[m] = log[m]
      BY <3>1 DEF Published
    <3> QED
      BY <3>1, <3>2 DEF Monotone, mysql
  <2>2. CASE ~Log
    BY <2>2, QuietStep DEF IdleElapses, DeleteGroup, vars, mysql
  <2> QED
    BY <2>1, <2>2
<1> QED
  BY <1>1, <1>2

(* A step of worker w that is neither of the two writes.                   *)
LEMMA QuietWorkerStep ==
  ASSUME TypeOK, NEW w \in Workers, NEW o \in Outcome,
         \/ Crash(w) \/ Restart(w) \/ LeaveNogroup(w) \/ RecreateGroup(w, o)
         \/ Start(w, o) \/ ListStale(w, o) \/ FetchPoison(w, o) \/ Claim(w, o)
         \/ Ack(w, o) \/ ReadGroup(w, o)
  PROVE  Monotone /\ NewlyStored
<1>0. ProcessType
  BY DEF TypeOK
<1>1. Monotone
  BY QuietStep DEF Crash, Restart, LeaveNogroup, RecreateGroup, AfterNogroup, Start,
     ListStale, FetchPoison, Claim, Ack, ReadGroup
<1>2. CASE Crash(w) \/ Restart(w)
  BY <1>0, <1>1, <1>2 DEF Crash, Restart, Terminate, sweep, ProcessType, NewlyStored, Untouched
<1>3. CASE LeaveNogroup(w) \/ RecreateGroup(w, o)
  BY <1>0, <1>1, <1>3 DEF LeaveNogroup, RecreateGroup, AfterNogroup, sweep,
     ProcessType, NewlyStored, Untouched
<1>4. CASE Start(w, o)
  BY <1>0, <1>1, <1>4 DEF Start, Terminate, sweep, ProcessType, NewlyStored, Untouched
<1>5. CASE ListStale(w, o)
  BY <1>0, <1>1, <1>5 DEF ListStale, ProcessType, NewlyStored, Untouched
<1>6. CASE FetchPoison(w, o)
  BY <1>0, <1>1, <1>6 DEF FetchPoison, AbandonSweep, ProcessType, NewlyStored, Untouched
<1>7. CASE Claim(w, o)
  BY <1>0, <1>1, <1>7 DEF Claim, AbandonSweep, ProcessType, NewlyStored, Untouched
<1>8. CASE Ack(w, o)
  BY <1>0, <1>1, <1>8 DEF Ack, Drop, Terminate, ProcessType, NewlyStored, Untouched
<1>9. CASE ReadGroup(w, o)
  BY <1>0, <1>1, <1>9 DEF ReadGroup, ProcessType, NewlyStored, Untouched
<1> QED
  BY <1>2, <1>3, <1>4, <1>5, <1>6, <1>7, <1>8, <1>9

(* A write.                                                                *)
LEMMA WriteStep ==
  ASSUME TypeOK, NEW w \in Workers, NEW o \in Outcome, Quarantine(w, o) \/ Persist(w, o)
  PROVE  Monotone /\ NewlyStored
<1>0. ProcessType
  BY DEF TypeOK
<1>1. Monotone
  BY DEF Quarantine, Persist, InsertQuarantine, InsertEvent, Monotone, Published
<1>2. PICK m \in Id : AfterWrite(w, m, o)
  BY DEF Quarantine, Persist
<1>3. NewlyStored
  BY <1>0, <1>2 DEF AfterWrite, Drop, sweep, ProcessType, NewlyStored, Untouched, Writes
<1> QED
  BY <1>1, <1>3

LEMMA EveryStep == ASSUME TypeOK, [Next]_vars PROVE Monotone /\ NewlyStored
<1>1. CASE Log \/ (\E m \in Id : IdleElapses(m)) \/ DeleteGroup \/ UNCHANGED vars
  BY <1>1, EnvironmentStep
<1>2. ASSUME NEW w \in Workers, NEW o \in Outcome, Call(w, o)
      PROVE  Monotone /\ NewlyStored
  BY <1>2, QuietWorkerStep, WriteStep DEF Call
<1>3. ASSUME NEW w \in Workers, Crash(w) \/ Restart(w) \/ LeaveNogroup(w)
      PROVE  Monotone /\ NewlyStored
  <2>1. "done" \in Outcome
    BY DEF Outcome
  <2> QED
    BY <1>3, <2>1, QuietWorkerStep
<1> QED
  BY <1>1, <1>2, <1>3 DEF Next, WorkerStep

(* What is on durable record stays there.                                  *)
LEMMA DurableStays ==
  ASSUME Monotone, NEW m \in Published, Durable(m) PROVE Durable(m)'
BY DEF Monotone, Durable, parse_audit_event

LEMMA DurabilityInit == Init => DurabilityInv
<1> SUFFICES ASSUME Init PROVE DurabilityInv
  OBVIOUS
<1>1. StoredIsDurable
  BY DEF Init, StoredIsDurable
<1>2. UuidsAreSpent /\ AckedIsDurable
  BY DEF Init, UuidsAreSpent, AckedIsDurable
<1> QED
  BY <1>1, <1>2, TypeInit DEF DurabilityInv

(* After a write that returned, the entry it was for is on durable record. *)
LEMMA PersistedIsDurable ==
  ASSUME TypeOK, UuidsAreSpent, NEW m \in Published, UNCHANGED log,
         parse_audit_event(log[m]), InsertEvent(EventRow(m))
  PROVE  Durable(m)'
<1> DEFINE row == EventRow(m)
<1>1. log[m] \in Fields /\ log'[m] = log[m]
  BY PublishedFields
<1>2. row.columns = m /\ row.event_id = parsed_event_id(log[m], FreshUuid)
  BY DEF EventRow, AuditEventRecord
<1>3. CASE \E r \in auditEvents : r.event_id = row.event_id
  <2>1. PICK r \in auditEvents : r.event_id = row.event_id
    BY <1>3
  <2>2. r \in auditEvents'
    BY <1>3, <2>1 DEF InsertEvent
  <2>3. log[m].event_id # Omitted
    <3>1. SUFFICES ASSUME log[m].event_id = Omitted PROVE FALSE
      OBVIOUS
    <3>2. r.event_id = Cardinality(auditEvents)
      BY <1>2, <2>1, <3>1 DEF parsed_event_id, FreshUuid
    <3>3. Cardinality(auditEvents) \in Nat
      BY FS_CardinalityType DEF TypeOK, MysqlType
    <3>4. r.event_id \in EventId \/ r.event_id < Cardinality(auditEvents)
      BY DEF UuidsAreSpent
    <3> QED
      BY <3>2, <3>3, <3>4, EventIdAssumption
  <2>4. r.event_id = log[m].event_id
    BY <1>2, <2>1, <2>3 DEF parsed_event_id
  <2> QED
    BY <1>1, <2>2, <2>4 DEF Durable
<1>4. CASE ~\E r \in auditEvents : r.event_id = row.event_id
  <2>1. row \in auditEvents'
    BY <1>4 DEF InsertEvent
  <2> QED
    BY <1>1, <1>2, <2>1 DEF Durable
<1> QED
  BY <1>3, <1>4

LEMMA QuarantinedIsDurable ==
  ASSUME NEW w, NEW m, InsertQuarantine(PoisonRow(w, m))
  PROVE  Durable(m)'
<1> DEFINE row == PoisonRow(w, m)
<1>1. row.stream_message_id = m
  BY DEF PoisonRow, QuarantinedAuditEvent
<1>2. \E q \in quarantined' : q.stream_message_id = m
  BY <1>1 DEF InsertQuarantine
<1> QED
  BY <1>2 DEF Durable

(* The smallest entry of a set is unique.                                  *)
LEMMA FirstIsUnique ==
  ASSUME NEW S \in SUBSET Nat, NEW m, NEW k, IsFirst(m, S), IsFirst(k, S) PROVE m = k
BY DEF IsFirst

LEMMA StoredNext ==
  ASSUME DurabilityInv, [Next]_vars PROVE StoredIsDurable'
<1>0. TypeOK /\ Monotone /\ NewlyStored
  BY EveryStep DEF DurabilityInv
<1>1. SUFFICES ASSUME NEW w \in Workers, pc'[w] = "stored", NEW m \in Id, InHand(w, m)'
               PROVE  Durable(m)'
  BY DEF StoredIsDurable
<1>2. CASE Untouched(w)
  <2>1. InHand(w, m)
    BY <1>1, <1>2 DEF Untouched, InHand, Poison
  <2>2. m \in Published
    BY <1>0, <2>1, InHandIsPublished
  <2>3. Durable(m)
    BY <1>1, <1>2, <2>1 DEF Untouched, DurabilityInv, StoredIsDurable
  <2> QED
    BY <1>0, <2>2, <2>3, DurableStays
<1>3. CASE Quarantine(w, "done")
  <2>1. PICK k \in Id :
          /\ IsFirst(k, Poison(w))
          /\ InsertQuarantine(PoisonRow(w, k))
          /\ AfterWrite(w, k, "done")
    BY <1>3 DEF Quarantine, TookEffect
  <2>2. Poison(w)' = Poison(w) /\ Poison(w) \in SUBSET Nat
    BY <2>1 DEF AfterWrite, sweep, Poison, Id
  <2>3. IsFirst(m, Poison(w))
    BY <1>1, <2>1, <2>2 DEF InHand, IsFirst
  <2>4. m = k
    BY <2>1, <2>2, <2>3, FirstIsUnique
  <2> QED
    BY <2>1, <2>4, QuarantinedIsDurable
<1>4. CASE Persist(w, "done")
  <2>1. PICK k \in Id :
          /\ Poison(w) = {} /\ IsFirst(k, batch[w]) /\ Persistable(k)
          /\ InsertEvent(EventRow(k))
          /\ AfterWrite(w, k, "done") /\ UNCHANGED log
    BY <1>4 DEF Persist, TookEffect
  <2>2. Poison(w)' = Poison(w) /\ batch'[w] = batch[w]
    BY <2>1 DEF AfterWrite, sweep, Poison
  <2>3. batch[w] \in SUBSET Nat /\ k \in Published
    BY <1>0, <2>1 DEF TypeOK, ProcessType, Published, IsFirst
  <2>4. IsFirst(m, batch[w])
    BY <1>1, <2>1, <2>2 DEF InHand, IsFirst
  <2>5. m = k
    BY <2>1, <2>3, <2>4, FirstIsUnique
  <2>6. parse_audit_event(log[k])
    BY <2>1 DEF Persistable
  <2> QED
    BY <1>0, <2>1, <2>3, <2>5, <2>6, PersistedIsDurable DEF DurabilityInv
<1> QED
  BY <1>0, <1>1, <1>2, <1>3, <1>4 DEF NewlyStored, Writes

(* Only Persist adds to audit_events, and only Ack acknowledges.           *)
LEMMA OnlyPersistAndAck ==
  ASSUME [Next]_vars
  PROVE  /\ UNCHANGED auditEvents \/ \E w \in Workers : \E o \in Outcome : Persist(w, o)
         /\ UNCHANGED acked \/ \E w \in Workers : \E o \in Outcome : Ack(w, o)
<1> USE DEF mysql
<1>1. CASE Log \/ (\E m \in Id : IdleElapses(m)) \/ DeleteGroup \/ UNCHANGED vars
  BY <1>1 DEF Log, IdleElapses, DeleteGroup, vars
<1>2. ASSUME NEW w \in Workers, Crash(w) \/ Restart(w) \/ LeaveNogroup(w)
      PROVE  UNCHANGED <<auditEvents, acked>>
  BY <1>2 DEF Crash, Restart, LeaveNogroup, AfterNogroup
<1>3. ASSUME NEW w \in Workers, NEW o \in Outcome, Call(w, o), ~Persist(w, o), ~Ack(w, o)
      PROVE  UNCHANGED <<auditEvents, acked>>
  <2>1. CASE Start(w, o) \/ ListStale(w, o) \/ FetchPoison(w, o)
    BY <2>1 DEF Start, ListStale, FetchPoison
  <2>2. CASE Claim(w, o) \/ Quarantine(w, o) \/ ReadGroup(w, o) \/ RecreateGroup(w, o)
    BY <2>2 DEF Claim, Quarantine, ReadGroup, RecreateGroup, AfterNogroup
  <2> QED
    BY <1>3, <2>1, <2>2 DEF Call
<1>4. ASSUME NEW w \in Workers, NEW o \in Outcome, Persist(w, o) PROVE UNCHANGED acked
  BY <1>4 DEF Persist
<1>5. ASSUME NEW w \in Workers, NEW o \in Outcome, Ack(w, o) PROVE UNCHANGED auditEvents
  BY <1>5 DEF Ack
<1> QED
  BY <1>1, <1>2, <1>3, <1>4, <1>5 DEF Next, WorkerStep

LEMMA UuidsNext == ASSUME DurabilityInv, [Next]_vars PROVE UuidsAreSpent'
<1>0. TypeOK /\ UuidsAreSpent
  BY DEF DurabilityInv
<1>1. CASE UNCHANGED auditEvents
  BY <1>0, <1>1 DEF UuidsAreSpent
<1>2. ASSUME NEW w \in Workers, NEW o \in Outcome, Persist(w, o), auditEvents' # auditEvents
      PROVE  UuidsAreSpent'
  <2>1. PICK m \in Id :
          /\ IsFirst(m, batch[w])
          /\ auditEvents' = auditEvents \cup {EventRow(m)}
    BY <1>2 DEF Persist, InsertEvent
  <2> DEFINE row == EventRow(m)
  <2>2. IsFiniteSet(auditEvents) /\ row \notin auditEvents
    BY <1>0, <1>2, <2>1 DEF TypeOK, MysqlType
  <2>3. /\ Cardinality(auditEvents) \in Nat
        /\ Cardinality(auditEvents') = Cardinality(auditEvents) + 1
    BY <2>1, <2>2, FS_AddElement, FS_CardinalityType
  <2>4. row.event_id \in EventId \/ row.event_id = Cardinality(auditEvents)
    <3>1. m \in Published
      BY <1>0, <2>1 DEF IsFirst, TypeOK, ProcessType
    <3>2. log[m] \in Fields
      BY <1>0, <3>1, PublishedFields
    <3> QED
      BY <3>2 DEF EventRow, AuditEventRecord, parsed_event_id, Fields, FreshUuid
  <2>5. ASSUME NEW r \in auditEvents'
        PROVE  r.event_id \in EventId \/ r.event_id < Cardinality(auditEvents')
    <3>1. CASE r = row
      BY <2>3, <2>4, <3>1
    <3>2. CASE r \in auditEvents
      <4>1. r.event_id \in EventId \/ r.event_id \in Nat
        BY <1>0, <3>2 DEF TypeOK, MysqlType
      <4>2. r.event_id \in EventId \/ r.event_id < Cardinality(auditEvents)
        BY <1>0, <3>2 DEF UuidsAreSpent
      <4> QED
        BY <2>3, <4>1, <4>2
    <3> QED
      BY <2>1, <3>1, <3>2
  <2> QED
    BY <2>5 DEF UuidsAreSpent
<1>3. \/ UNCHANGED auditEvents
      \/ \E w \in Workers : \E o \in Outcome : Persist(w, o)
  BY OnlyPersistAndAck
<1> QED
  BY <1>1, <1>2, <1>3

LEMMA AckedNext == ASSUME DurabilityInv, [Next]_vars PROVE AckedIsDurable'
<1>0. TypeOK /\ Monotone /\ StoredIsDurable /\ AckedIsDurable
  BY EveryStep DEF DurabilityInv
<1>1. \/ UNCHANGED acked
      \/ \E w \in Workers : \E o \in Outcome : Ack(w, o)
  BY OnlyPersistAndAck
<1>2. ASSUME NEW m \in acked' PROVE m \in Published /\ Durable(m)
  <2>1. CASE m \in acked
    BY <1>0, <2>1 DEF AckedIsDurable, TypeOK, RedisType
  <2>2. CASE m \notin acked
    <3>1. PICK w \in Workers : pc[w] = "stored" /\ m \in Id /\ InHand(w, m)
      BY <1>1, <1>2, <2>2 DEF Ack
    <3> QED
      BY <1>0, <3>1, InHandIsPublished DEF StoredIsDurable
  <2> QED
    BY <2>1, <2>2
<1> QED
  BY <1>0, <1>2, DurableStays DEF AckedIsDurable

LEMMA DurabilityNext == DurabilityInv /\ [Next]_vars => DurabilityInv'
<1> SUFFICES ASSUME DurabilityInv, [Next]_vars PROVE DurabilityInv'
  OBVIOUS
<1>1. TypeOK'
  BY TypeNext DEF DurabilityInv
<1> QED
  BY <1>1, StoredNext, UuidsNext, AckedNext DEF DurabilityInv

(* "Only ack after a successful DB commit", and quarantine before ack:     *)
(* every acknowledged entry is on durable record, for any number of        *)
(* workers, failures, crashes and deletions of the stream.                 *)
THEOREM AckFollowsCommit == Spec => []AckedIsDurable
<1>1. Init => DurabilityInv
  BY DurabilityInit
<1>2. DurabilityInv /\ [Next]_vars => DurabilityInv'
  BY DurabilityNext
<1>3. DurabilityInv => AckedIsDurable
  BY DEF DurabilityInv
<1> QED
  BY <1>1, <1>2, <1>3, PTL DEF Spec

-----------------------------------------------------------------------------
(* XREADGROUP leaves no gap: an entry of S below one of the n lowest is    *)
(* itself one of the n lowest.                                             *)
LEMMA LowestHasNoGaps ==
  ASSUME NEW S \in SUBSET Nat, IsFiniteSet(S), NEW n \in Nat,
         NEW k \in Lowest(S, n), NEW m \in S, m <= k
  PROVE  m \in Lowest(S, n)
<1> DEFINE Below(j) == {i \in S : i < j}
<1>0. k \in S /\ k \in Nat /\ m \in Nat
  BY DEF Lowest
<1>1. Below(m) \subseteq Below(k)
  <2>1. SUFFICES ASSUME NEW i \in S, i < m PROVE i < k
    OBVIOUS
  <2>2. i \in Nat
    OBVIOUS
  <2> QED
    BY <1>0, <2>1, <2>2
<1>2. IsFiniteSet(Below(k))
  BY FS_Subset
<1>3. Cardinality(Below(m)) <= Cardinality(Below(k)) /\ IsFiniteSet(Below(m))
  BY <1>1, <1>2, FS_Subset
<1>4. Cardinality(Below(m)) \in Nat /\ Cardinality(Below(k)) \in Nat
  BY <1>2, <1>3, FS_CardinalityType
<1>5. Cardinality(Below(k)) < n
  BY DEF Lowest
<1>6. Cardinality(Below(m)) < n
  BY <1>3, <1>4, <1>5
<1> QED
  BY <1>6 DEF Lowest

(* One step of the group: an existing group's cursor only moves forward,   *)
(* over entries that it delivers; an entry still in the stream leaves its  *)
(* PEL only by an acknowledgement; a new group starts at the beginning.    *)
(* The stream gains only entries that are new.                             *)
Advances ==
  /\ cursor <= cursor'
  /\ \A m \in stream' : cursor < m /\ m <= cursor' => m \in Pending'
  /\ \A m \in Pending \cap stream' :
       m \in Pending' \/ \E w \in Workers : pc[w] = "stored" /\ InHand(w, m) /\ m \in acked'
GroupStep ==
  /\ group' => (group /\ Advances) \/ (~group /\ cursor' = 0)
  /\ \A m \in stream' : m \in stream \/ m = Len(log) + 1

LEMMA StillGroupStep ==
  ASSUME TypeOK, UNCHANGED redis PROVE GroupStep
<1>1. cursor \in Nat /\ stream \subseteq Nat
  BY DEF TypeOK, RedisType, Published
<1>2. Pending' = Pending
  BY DEF redis, Pending
<1> QED
  BY <1>1, <1>2 DEF redis, GroupStep, Advances

LEMMA EnsureGroupStep ==
  ASSUME TypeOK, NEW o, ensure_group(o) PROVE GroupStep
<1>1. cursor \in Nat /\ stream \subseteq Nat
  BY DEF TypeOK, RedisType, Published
<1>2. Pending' = Pending
  BY DEF ensure_group, Pending
<1> QED
  BY <1>1, <1>2 DEF ensure_group, GroupStep, Advances

LEMMA LogGroupStep == ASSUME TypeOK, Log PROVE GroupStep
<1>1. cursor \in Nat /\ stream \subseteq Nat /\ Len(log) \in Nat
  BY DEF TypeOK, RedisType, Published
<1>2. Pending' = Pending /\ UNCHANGED <<group, cursor>> /\ stream' \subseteq stream \cup {Len(log) + 1}
  BY DEF Log, Pending
<1> QED
  BY <1>1, <1>2 DEF GroupStep, Advances

LEMMA ClaimGroupStep ==
  ASSUME TypeOK, NEW w \in Workers, NEW o \in Outcome, Claim(w, o) PROVE GroupStep
<1>1. CASE group /\ TookEffect(o)
  <2>1. cursor \in Nat /\ stream \subseteq Nat /\ times \in [Id -> Nat]
    BY DEF TypeOK, RedisType, Published
  <2>2. UNCHANGED <<stream, group, cursor>>
    BY <1>1 DEF Claim, xclaim
  <2>3. \A m \in Pending \cap stream' : m \in Pending'
    BY <1>1, <2>1, <2>2 DEF Claim, xclaim, Pending
  <2> QED
    BY <1>1, <2>1, <2>2, <2>3 DEF GroupStep, Advances
<1>2. CASE ~(group /\ TookEffect(o))
  BY <1>2, StillGroupStep DEF Claim
<1> QED
  BY <1>1, <1>2

LEMMA AckGroupStep ==
  ASSUME TypeOK, NEW w \in Workers, NEW o \in Outcome, Ack(w, o) PROVE GroupStep
<1>1. cursor \in Nat /\ stream \subseteq Nat /\ times \in [Id -> Nat]
  BY DEF TypeOK, RedisType, Published
<1>2. UNCHANGED <<stream, group, cursor>>
  BY DEF Ack
<1>3. \A m \in Pending : m \in Pending' \/ (pc[w] = "stored" /\ InHand(w, m) /\ m \in acked')
  BY <1>1 DEF Ack, Pending
<1> QED
  BY <1>1, <1>2, <1>3 DEF GroupStep, Advances

LEMMA ReadGroupStep ==
  ASSUME TypeOK, NEW w \in Workers, NEW o \in Outcome, ReadGroup(w, o) PROVE GroupStep
<1> DEFINE ahead == {m \in stream : m > cursor}
           new == IF group /\ TookEffect(o) THEN Lowest(ahead, ReadCount) ELSE {}
<1>1. /\ cursor \in Nat /\ stream \subseteq Nat /\ times \in [Id -> Nat]
      /\ Len(log) \in Nat /\ stream \subseteq 1..Len(log) /\ stream \subseteq Id
  BY BoundsAssumption DEF TypeOK, RedisType, Published, Id
<1>2. /\ IF new = {} THEN UNCHANGED cursor ELSE IsLast(cursor', new)
      /\ times' = [m \in Id |-> IF m \in new THEN 1 ELSE times[m]]
      /\ UNCHANGED <<stream, group>>
  BY DEF ReadGroup
<1>3. new \subseteq ahead
  BY DEF Lowest
<1>4. ASSUME NEW m \in ahead, m <= cursor', cursor' # cursor PROVE m \in new
  <2>1. cursor' \in new
    BY <1>2, <1>4 DEF IsLast
  <2>2. ahead \in SUBSET Nat /\ IsFiniteSet(ahead)
    <3>1. 1 \in Int /\ Len(log) \in Int
      BY <1>1
    <3>2. IsFiniteSet(1..Len(log))
      BY <3>1, FS_Interval
    <3>3. ahead \subseteq 1..Len(log) /\ ahead \subseteq Nat
      BY <1>1
    <3> QED
      BY <3>2, <3>3, FS_Subset
  <2> QED
    BY <1>4, <2>1, <2>2, BoundsAssumption, LowestHasNoGaps
<1> HIDE DEF new
<1>5. cursor <= cursor' /\ cursor' \in Nat
  <2>1. cursor' = cursor \/ (cursor' \in stream /\ cursor' > cursor)
    BY <1>2, <1>3 DEF IsLast
  <2>2. cursor \in Nat /\ (cursor' \in stream => cursor' \in Nat)
    BY <1>1
  <2> QED
    BY <2>1, <2>2
<1>6. \A m \in stream' : cursor < m /\ m <= cursor' => m \in Pending'
  BY <1>1, <1>2, <1>4, <1>5 DEF Pending
<1>7. \A m \in Pending : m \in Pending'
  BY <1>1, <1>2 DEF Pending
<1> QED
  BY <1>2, <1>5, <1>6, <1>7 DEF GroupStep, Advances

LEMMA EveryGroupStep == ASSUME TypeOK, [Next]_vars PROVE GroupStep
<1>1. CASE Log
  BY <1>1, LogGroupStep
<1>2. CASE DeleteGroup
  BY <1>2 DEF DeleteGroup, GroupStep
<1>3. ASSUME NEW m \in Id, IdleElapses(m) PROVE GroupStep
  <2>1. cursor \in Nat /\ stream \subseteq Nat
    BY DEF TypeOK, RedisType, Published
  <2> QED
    BY <1>3, <2>1 DEF IdleElapses, GroupStep, Advances, Pending
<1>4. CASE UNCHANGED vars
  BY <1>4, StillGroupStep DEF vars, redis
<1>5. ASSUME NEW w \in Workers, Crash(w) \/ Restart(w) \/ LeaveNogroup(w) PROVE GroupStep
  BY <1>5, StillGroupStep DEF Crash, Restart, LeaveNogroup
<1>6. ASSUME NEW w \in Workers, NEW o \in Outcome, Call(w, o) PROVE GroupStep
  <2>1. CASE Start(w, o) \/ RecreateGroup(w, o)
    BY <2>1, EnsureGroupStep DEF Start, RecreateGroup
  <2>2. CASE ListStale(w, o) \/ FetchPoison(w, o) \/ Quarantine(w, o) \/ Persist(w, o)
    BY <2>2, StillGroupStep DEF ListStale, FetchPoison, Quarantine, Persist
  <2> QED
    BY <1>6, <2>1, <2>2, ClaimGroupStep, AckGroupStep, ReadGroupStep DEF Call
<1> QED
  BY <1>1, <1>2, <1>3, <1>4, <1>5, <1>6 DEF Next, WorkerStep

LEMMA NothingLostNext ==
  ASSUME DurabilityInv, NothingLost, [Next]_vars PROVE NothingLost'
<1>0. TypeOK /\ TypeOK' /\ Monotone /\ StoredIsDurable /\ GroupStep
  BY EveryStep, EveryGroupStep, TypeNext DEF DurabilityInv
<1>1. SUFFICES ASSUME group', NEW m \in stream'
               PROVE  Durable(m)' \/ m > cursor' \/ m \in Pending'
  BY DEF NothingLost
<1>2. /\ cursor \in Nat /\ cursor' \in Nat /\ m \in Nat /\ m > 0
      /\ cursor <= Len(log) /\ Len(log) \in Nat
  BY <1>0, <1>1 DEF TypeOK, RedisType, Published
<1>3. CASE ~group
  BY <1>0, <1>1, <1>2, <1>3 DEF GroupStep
<1>4. CASE group /\ m \notin stream
  BY <1>0, <1>1, <1>2, <1>4 DEF GroupStep, Advances
<1>5. CASE group /\ m \in stream
  <2>0. Advances /\ m \in Published /\ m \in Id
    BY <1>0, <1>1, <1>5, PublishedFields DEF GroupStep, TypeOK, RedisType
  <2>1. CASE Durable(m)
    BY <1>0, <2>0, <2>1, DurableStays
  <2>2. CASE m > cursor
    BY <1>1, <1>2, <2>0, <2>2 DEF Advances
  <2>3. CASE m \in Pending
    <3>1. m \in Pending' \/ Durable(m)
      BY <1>0, <1>1, <2>0, <2>3 DEF Advances, StoredIsDurable
    <3> QED
      BY <1>0, <2>0, <3>1, DurableStays
  <2> QED
    BY <1>5, <2>1, <2>2, <2>3 DEF NothingLost
<1> QED
  BY <1>3, <1>4, <1>5

(* An entry in the stream and on no durable record is never out of the     *)
(* group's sight, however readers, sweeps, crashes, lost replies, trims    *)
(* and re-creations of the group interleave.                               *)
THEOREM NothingIsLost == Spec => []NothingLost
<1>1. Init => DurabilityInv /\ NothingLost
  BY DurabilityInit DEF Init, NothingLost
<1>2. (DurabilityInv /\ NothingLost) /\ [Next]_vars => (DurabilityInv /\ NothingLost)'
  BY DurabilityNext, NothingLostNext
<1> QED
  BY <1>1, <1>2, PTL DEF Spec

(* No step moves an existing group's cursor back, and none but an          *)
(* acknowledgement takes an entry still in the stream out of its PEL:      *)
(* ensure_group may be called on a stale NOGROUP reply.                    *)
THEOREM GroupIsNeverReset == Spec => GroupStateSurvives
<1> DEFINE Survives ==
      group /\ group' =>
        /\ cursor <= cursor'
        /\ \A m \in Pending \cap stream' : times'[m] > 0 \/ m \in acked'
<1>1. TypeOK /\ [Next]_vars => [Survives]_vars
  BY EveryGroupStep DEF GroupStep, Advances, Pending
<1> HIDE DEF Survives
<1>2. Spec => [][Survives]_vars
  BY <1>1, TypeCorrect, PTL DEF Spec
<1> QED
  BY <1>2 DEF GroupStateSurvives, Survives

-----------------------------------------------------------------------------
(* A row stands as first written: nothing the worker does replaces or      *)
(* removes a row of either table.                                          *)
THEOREM RowsStand == Spec => FirstRowStands
<1> DEFINE Grows == auditEvents \subseteq auditEvents' /\ quarantined \subseteq quarantined'
<1>1. TypeOK /\ [Next]_vars => [Grows]_vars
  BY EveryStep DEF Monotone
<1> HIDE DEF Grows
<1>2. Spec => [][Grows]_vars
  BY <1>1, TypeCorrect, PTL DEF Spec
<1> QED
  BY <1>2 DEF FirstRowStands, Grows

-----------------------------------------------------------------------------
(* A row keeps the event_id that its entry names.                          *)
RowsNameTheirEntry ==
  \A r \in auditEvents :
    log[r.columns].event_id # Omitted => r.event_id = log[r.columns].event_id

UniqueInv == DurabilityInv /\ RowsNameTheirEntry /\ RowsAreUnique

(* Only Quarantine adds to quarantined_audit_events.                       *)
LEMMA OnlyQuarantine ==
  ASSUME [Next]_vars
  PROVE  UNCHANGED quarantined \/ \E w \in Workers : \E o \in Outcome : Quarantine(w, o)
<1> USE DEF mysql
<1>1. CASE Log \/ (\E m \in Id : IdleElapses(m)) \/ DeleteGroup \/ UNCHANGED vars
  BY <1>1 DEF Log, IdleElapses, DeleteGroup, vars
<1>2. ASSUME NEW w \in Workers, Crash(w) \/ Restart(w) \/ LeaveNogroup(w)
      PROVE  UNCHANGED quarantined
  BY <1>2 DEF Crash, Restart, LeaveNogroup, AfterNogroup
<1>3. ASSUME NEW w \in Workers, NEW o \in Outcome, Call(w, o), ~Quarantine(w, o)
      PROVE  UNCHANGED quarantined
  <2>1. CASE Start(w, o) \/ ListStale(w, o) \/ FetchPoison(w, o) \/ Persist(w, o) \/ Ack(w, o)
    BY <2>1 DEF Start, ListStale, FetchPoison, Persist, Ack
  <2>2. CASE Claim(w, o) \/ ReadGroup(w, o) \/ RecreateGroup(w, o)
    BY <2>2 DEF Claim, ReadGroup, RecreateGroup, AfterNogroup
  <2> QED
    BY <1>3, <2>1, <2>2 DEF Call
<1> QED
  BY <1>1, <1>2, <1>3 DEF Next, WorkerStep

(* The row of a write is the only one with its key.                        *)
LEMMA UniqueNext == UniqueInv /\ [Next]_vars => UniqueInv'
<1> SUFFICES ASSUME UniqueInv, [Next]_vars PROVE UniqueInv'
  OBVIOUS
<1>0. /\ DurabilityInv /\ DurabilityInv' /\ TypeOK /\ TypeOK' /\ Monotone
      /\ RowsNameTheirEntry /\ RowsAreUnique
  BY DurabilityNext, EveryStep DEF UniqueInv, DurabilityInv
<1>1. \A r \in auditEvents : r.columns \in Published /\ log'[r.columns] = log[r.columns]
  BY <1>0 DEF TypeOK, MysqlType, Monotone
<1>2. \/ UNCHANGED auditEvents
      \/ \E m \in Published :
           /\ log' = log
           /\ ~\E r \in auditEvents :
                 r.event_id = EventRow(m).event_id
           /\ auditEvents' = auditEvents \cup {EventRow(m)}
  <2>1. CASE UNCHANGED auditEvents
    BY <2>1
  <2>2. ASSUME NEW w \in Workers, NEW o \in Outcome, Persist(w, o)
        PROVE  \/ UNCHANGED auditEvents
               \/ \E m \in Published :
                    /\ log' = log
                    /\ ~\E r \in auditEvents :
                          r.event_id = EventRow(m).event_id
                    /\ auditEvents' = auditEvents \cup {EventRow(m)}
    <3>1. PICK m \in Id :
            /\ IsFirst(m, batch[w]) /\ log' = log
            /\ InsertEvent(EventRow(m)) \/ UNCHANGED auditEvents
      BY <2>2 DEF Persist
    <3>2. m \in Published
      BY <1>0, <3>1 DEF IsFirst, TypeOK, ProcessType
    <3> QED
      BY <3>1, <3>2 DEF InsertEvent
  <2> QED
    BY <2>1, <2>2, OnlyPersistAndAck
<1>3. RowsNameTheirEntry'
  <2>1. CASE UNCHANGED auditEvents
    BY <1>0, <1>1, <2>1 DEF RowsNameTheirEntry
  <2>2. CASE ~UNCHANGED auditEvents
    <3>1. PICK m \in Published :
            log' = log /\ auditEvents' = auditEvents \cup {EventRow(m)}
      BY <1>2, <2>2
    <3>2. /\ EventRow(m).columns = m
          /\ log[m].event_id # Omitted =>
               EventRow(m).event_id = log[m].event_id
      BY DEF EventRow, AuditEventRecord, parsed_event_id
    <3> QED
      BY <1>0, <3>1, <3>2 DEF RowsNameTheirEntry
  <2> QED
    BY <2>1, <2>2
<1>4. \A r, s \in auditEvents' : r.event_id = s.event_id => r = s
  <2>1. \A r, s \in auditEvents : r.event_id = s.event_id => r = s
    BY <1>0 DEF RowsAreUnique
  <2> QED
    BY <1>2, <2>1
<1>5. \A r, s \in auditEvents' :
        r.columns = s.columns /\ log'[r.columns].event_id # Omitted => r.event_id = s.event_id
  BY <1>3 DEF RowsNameTheirEntry
<1>6. \A q, s \in quarantined' : q.stream_message_id = s.stream_message_id => q = s
  <2>1. \A q, s \in quarantined : q.stream_message_id = s.stream_message_id => q = s
    BY <1>0 DEF RowsAreUnique
  <2>2. ASSUME NEW w \in Workers, NEW o \in Outcome, Quarantine(w, o), ~UNCHANGED quarantined
        PROVE  \E row : /\ ~\E q \in quarantined : q.stream_message_id = row.stream_message_id
                        /\ quarantined' = quarantined \cup {row}
    BY <2>2 DEF Quarantine, InsertQuarantine
  <2> QED
    BY <2>1, <2>2, OnlyQuarantine
<1> QED
  BY <1>0, <1>3, <1>4, <1>5, <1>6 DEF UniqueInv, RowsAreUnique

(* Redelivery is idempotent, also when two workers hold the same entry, or *)
(* a lost reply makes a worker write again: no event_id, no entry that     *)
(* names its event_id and no quarantined entry ever has two rows.          *)
THEOREM RedeliveryIsIdempotent == Spec => []RowsAreUnique
<1>1. Init => UniqueInv
  BY DurabilityInit DEF Init, UniqueInv, RowsNameTheirEntry, RowsAreUnique
<1>2. UniqueInv => RowsAreUnique
  BY DEF UniqueInv
<1> QED
  BY <1>1, <1>2, UniqueNext, PTL DEF Spec

-----------------------------------------------------------------------------
(* The steps that touch neither the entries nor the tables nor acked.      *)
LEMMA UnseenSteps ==
  ASSUME NEW w \in Workers, NEW o \in Outcome,
         \/ Crash(w) \/ Restart(w) \/ LeaveNogroup(w) \/ RecreateGroup(w, o)
         \/ Start(w, o) \/ ListStale(w, o) \/ FetchPoison(w, o) \/ Claim(w, o)
         \/ ReadGroup(w, o) \/ (\E m \in Id : IdleElapses(m)) \/ UNCHANGED vars
  PROVE  UNCHANGED <<log, stream, auditEvents, quarantined, acked>>
<1> USE DEF redis, mysql
<1>1. CASE Crash(w) \/ Restart(w) \/ LeaveNogroup(w) \/ RecreateGroup(w, o)
  BY <1>1 DEF Crash, Restart, LeaveNogroup, RecreateGroup, AfterNogroup, ensure_group
<1>2. CASE Start(w, o) \/ ListStale(w, o) \/ FetchPoison(w, o)
  BY <1>2 DEF Start, ensure_group, ListStale, FetchPoison
<1>3. CASE Claim(w, o) \/ ReadGroup(w, o)
  BY <1>3 DEF Claim, xclaim, ReadGroup
<1>4. CASE (\E m \in Id : IdleElapses(m)) \/ UNCHANGED vars
  BY <1>4 DEF IdleElapses, vars
<1> QED
  BY <1>1, <1>2, <1>3, <1>4

(* Only a producer adds entries.                                           *)
LEMMA OnlyLogAppends == ASSUME [Next]_vars, ~Log PROVE UNCHANGED log
<1>1. CASE DeleteGroup \/ (\E m \in Id : IdleElapses(m)) \/ UNCHANGED vars
  BY <1>1 DEF DeleteGroup, IdleElapses, vars
<1>2. "done" \in Outcome
  BY DEF Outcome
<1>3. ASSUME NEW w \in Workers, WorkerStep(w) \/ Crash(w) \/ Restart(w)
      PROVE  UNCHANGED log
  <2>1. ASSUME NEW o \in Outcome, Quarantine(w, o) \/ Persist(w, o) \/ Ack(w, o)
        PROVE  UNCHANGED log
    BY <2>1 DEF Quarantine, Persist, Ack
  <2> QED
    BY <1>2, <1>3, <2>1, UnseenSteps DEF WorkerStep, Call
<1> QED
  BY <1>1, <1>3 DEF Next

(* An entry that a worker's XRANGE did not find is in the stream no more.  *)
GoneIsGone == \A w \in Workers : gone[w] \cap stream = {}

EvidenceInv == DurabilityInv /\ GoneIsGone /\ QuarantineKeepsEvidence

(* A worker's list of lost entries grows only by what the stream lacks.    *)
LEMMA GoneGrows ==
  ASSUME TypeOK, [Next]_vars
  PROVE  \A w \in Workers : \A m \in gone'[w] : m \in gone[w] \/ m \notin stream
<1>0. gone \in [Workers -> SUBSET Published]
  BY DEF TypeOK, ProcessType
<1> USE DEF process, sweep
<1>1. CASE Log \/ (\E m \in Id : IdleElapses(m)) \/ DeleteGroup \/ UNCHANGED vars
  BY <1>1 DEF Log, IdleElapses, DeleteGroup, vars
<1>2. ASSUME NEW w \in Workers, Crash(w) \/ Restart(w) \/ LeaveNogroup(w)
      PROVE  \A v \in Workers : \A m \in gone'[v] : m \in gone[v]
  BY <1>0, <1>2 DEF Crash, Restart, LeaveNogroup, AfterNogroup, Terminate
<1>3. ASSUME NEW w \in Workers, NEW o \in Outcome, Call(w, o), ~FetchPoison(w, o)
      PROVE  \A v \in Workers : \A m \in gone'[v] : m \in gone[v]
  <2>1. CASE Start(w, o) \/ ListStale(w, o) \/ RecreateGroup(w, o) \/ ReadGroup(w, o)
    BY <1>0, <2>1 DEF Start, Terminate, ListStale, RecreateGroup, AfterNogroup, ReadGroup
  <2>2. CASE Claim(w, o)
    BY <1>0, <2>2 DEF Claim, AbandonSweep
  <2>3. CASE Persist(w, o) \/ Quarantine(w, o)
    BY <1>0, <2>3 DEF Persist, Quarantine, AfterWrite, Drop
  <2>4. CASE Ack(w, o)
    BY <1>0, <2>4 DEF Ack, Drop, Terminate
  <2> QED
    BY <1>3, <2>1, <2>2, <2>3, <2>4 DEF Call
<1>4. ASSUME NEW w \in Workers, NEW o \in Outcome, FetchPoison(w, o)
      PROVE  \A v \in Workers : \A m \in gone'[v] : m \in gone[v] \/ m \notin stream
  BY <1>0, <1>4 DEF FetchPoison, AbandonSweep
<1> QED
  BY <1>1, <1>2, <1>3, <1>4 DEF Next, WorkerStep

(* The stream does not take back what it has lost.                         *)
LEMMA LostForGood ==
  ASSUME TypeOK, [Next]_vars, NEW m \in Published, m \notin stream
  PROVE  m \notin stream'
<1>1. GroupStep
  BY EveryGroupStep
<1>2. m # Len(log) + 1
  BY DEF Published, TypeOK, RedisType
<1> QED
  BY <1>1, <1>2 DEF GroupStep

(* Every step keeps the evidence.                                          *)
LEMMA EvidenceNext == EvidenceInv /\ [Next]_vars => EvidenceInv'
<1> SUFFICES ASSUME EvidenceInv, [Next]_vars PROVE EvidenceInv'
  OBVIOUS
<1>0. /\ DurabilityInv /\ DurabilityInv' /\ TypeOK /\ TypeOK' /\ Monotone
      /\ GoneIsGone /\ QuarantineKeepsEvidence
  BY DurabilityNext, EveryStep DEF EvidenceInv, DurabilityInv
<1>1. \A w \in Workers : gone[w] \subseteq Published
  BY <1>0 DEF TypeOK, ProcessType
<1>2. GoneIsGone'
  <2>1. ASSUME NEW w \in Workers, NEW m \in gone'[w], m \in stream' PROVE FALSE
    <3>1. m \in gone[w] \/ m \notin stream
      BY <1>0, GoneGrows
    <3>2. m \notin stream
      BY <1>0, <3>1 DEF GoneIsGone
    <3>3. m \in Published \/ m = Len(log) + 1
      BY <1>0, <2>1, EveryGroupStep DEF GroupStep, TypeOK, RedisType
    <3>4. m \in gone[w] => m \in Published
      BY <1>1
    <3>5. CASE m \in gone[w] \/ m \in Published
      BY <1>0, <2>1, <3>2, <3>4, <3>5, LostForGood
    <3>6. CASE m \notin gone[w] /\ m \notin Published
      <4>1. CASE Log
        BY <2>1, <3>6, <4>1 DEF Log, process
      <4>2. CASE ~Log
        <5>1. UNCHANGED log
          BY <4>2, OnlyLogAppends
        <5>2. m \in Published
          BY <1>0, <2>1, <5>1 DEF TypeOK, ProcessType, Published
        <5> QED
          BY <3>6, <5>2
      <4> QED
        BY <4>1, <4>2
    <3> QED
      BY <3>5, <3>6
  <2> QED
    BY <2>1 DEF GoneIsGone
<1>3. ASSUME NEW q \in quarantined
      PROVE  /\ q.delivery_attempts >= MaxDeliveries
             /\ \/ q.raw_data = log'[q.stream_message_id].data
                \/ q.stream_message_id \notin stream'
  <2>1. q.stream_message_id \in Published
    BY <1>0 DEF TypeOK, MysqlType
  <2> QED
    BY <1>0, <2>1, LostForGood DEF QuarantineKeepsEvidence, Monotone
<1>4. ASSUME NEW w \in Workers, NEW o \in Outcome, Quarantine(w, o), NEW q \in quarantined',
             q \notin quarantined
      PROVE  /\ q.delivery_attempts >= MaxDeliveries
             /\ \/ q.raw_data = log'[q.stream_message_id].data
                \/ q.stream_message_id \notin stream'
  <2>1. PICK m \in Id :
          /\ IsFirst(m, Poison(w)) /\ log' = log /\ stream' = stream
          /\ q = PoisonRow(w, m)
    BY <1>4 DEF Quarantine, InsertQuarantine, redis
  <2>2. /\ q.stream_message_id = m /\ q.raw_data = FetchedFields(w, m).data
        /\ q.delivery_attempts = snap[w][m]
    BY <2>1 DEF PoisonRow, QuarantinedAuditEvent
  <2>3. snap[w][m] >= MaxDeliveries
    BY <2>1 DEF IsFirst, Poison
  <2>4. FetchedFields(w, m) = log[m] \/ m \notin stream
    BY <1>0 DEF FetchedFields, GoneIsGone
  <2> QED
    BY <2>1, <2>2, <2>3, <2>4
<1>5. QuarantineKeepsEvidence'
  BY <1>3, <1>4, OnlyQuarantine DEF QuarantineKeepsEvidence
<1> QED
  BY <1>0, <1>2, <1>5 DEF EvidenceInv

(* Quarantine keeps an entry's payload unless the stream had lost it, and  *)
(* takes no entry that had deliveries left, although the payload is        *)
(* fetched in one call, and written in a later one, from a listing that    *)
(* other workers may have outdated.                                        *)
THEOREM EvidenceIsKept == Spec => []QuarantineKeepsEvidence
<1>1. Init => EvidenceInv
  BY DurabilityInit DEF Init, EvidenceInv, GoneIsGone, QuarantineKeepsEvidence
<1>2. EvidenceInv => QuarantineKeepsEvidence
  BY DEF EvidenceInv
<1> QED
  BY <1>1, <1>2, EvidenceNext, PTL DEF Spec

-----------------------------------------------------------------------------
(* The refinement of the delivery contract.  What the contract sees of a   *)
(* step that changes neither the stream, the tables nor acked is nothing.  *)
DurableSet == {m \in Published : Durable(m)}
Evicted == Published \ stream

(* With the same tables and entries, the same entries are on record.       *)
LEMMA SameDurable ==
  ASSUME UNCHANGED <<log, auditEvents, quarantined>>
  PROVE  DurableSet' = DurableSet /\ Published' = Published
BY DEF DurableSet, Durable, Published

(* A new entry: the contract's Publish.                                    *)
LEMMA LogPublishes == ASSUME TypeOK, Log PROVE Contract!Publish
<1> DEFINE n == Len(log) + 1
<1>1. PICK p \in Payloads : log' = Append(log, p)
  BY DEF Log
<1>2. /\ log \in Seq(Payloads) /\ Len(log) \in Nat /\ stream \subseteq Published
      /\ n <= MaxMessages /\ UNCHANGED <<auditEvents, quarantined, acked>>
      /\ stream' \subseteq stream \cup {n}
  BY DEF TypeOK, RedisType, Log, mysql
<1>3. n \in Id \ Published /\ Published' = Published \cup {n}
  BY <1>1, <1>2, BoundsAssumption DEF Id, Published
<1>4. \A m \in Published : log'[m] = log[m]
  BY <1>1, <1>2 DEF Published
<1>5. \A m \in Published : Durable(m)' <=> Durable(m)
  BY <1>2, <1>4 DEF Durable
<1>6. DurableSet' \in {DurableSet, DurableSet \cup {n}}
  BY <1>3, <1>5 DEF DurableSet
<1>7. Evicted \subseteq Evicted' /\ Evicted' \subseteq Published'
  BY <1>2, <1>3 DEF Evicted
<1> HIDE DEF n
<1> QED
  BY <1>2, <1>3, <1>6, <1>7 DEF Contract!Publish, DurableSet, Evicted

(* Every step of the pipeline is a step of the contract, or stutters.      *)
LEMMA StepImplements ==
  ASSUME DurabilityInv, [Next]_vars
  PROVE  Contract!ContractNext \/ UNCHANGED Contract!contractVars
<1>0. TypeOK /\ TypeOK' /\ Monotone /\ StoredIsDurable
  BY EveryStep, TypeNext DEF DurabilityInv
<1>1. CASE Log
  BY <1>0, <1>1, LogPublishes DEF Contract!ContractNext
<1>2. CASE DeleteGroup
  <2>1. UNCHANGED <<log, auditEvents, quarantined, acked>> /\ stream' \subseteq stream
    BY <1>2 DEF DeleteGroup, mysql
  <2>2. Evicted \subseteq Evicted' /\ Evicted' \subseteq Published
    BY <2>1 DEF Evicted, Published
  <2>3. Contract!Evict
    BY <2>1, <2>2, SameDurable DEF Contract!Evict, DurableSet, Evicted
  <2> QED
    BY <2>3 DEF Contract!ContractNext
<1>3. ASSUME NEW w \in Workers, NEW o \in Outcome, Quarantine(w, o) \/ Persist(w, o)
      PROVE  Contract!Record
  <2>1. UNCHANGED <<log, stream, acked>>
    BY <1>3 DEF Quarantine, Persist, redis
  <2>2. Published' = Published
    BY <2>1 DEF Published
  <2>3. DurableSet \subseteq DurableSet' /\ DurableSet' \subseteq Published
    BY <1>0, <2>2, DurableStays DEF DurableSet
  <2> QED
    BY <2>1, <2>2, <2>3 DEF Contract!Record, DurableSet
<1>4. ASSUME NEW w \in Workers, NEW o \in Outcome, Ack(w, o)
      PROVE  Contract!Settle \/ UNCHANGED Contract!contractVars
  <2>1. UNCHANGED <<log, stream, auditEvents, quarantined>>
    BY <1>4 DEF Ack, mysql
  <2>2. PICK m \in Id : /\ pc[w] = "stored" /\ InHand(w, m)
                        /\ acked' = acked \cup {m} \/ acked' = acked
    BY <1>4 DEF Ack
  <2>3. m \in DurableSet
    BY <1>0, <2>2, InHandIsPublished DEF StoredIsDurable, DurableSet
  <2> QED
    BY <2>1, <2>2, <2>3, SameDurable DEF Contract!Settle, Contract!contractVars, DurableSet
<1>5. ASSUME UNCHANGED <<log, stream, auditEvents, quarantined, acked>>
      PROVE  UNCHANGED Contract!contractVars
  BY <1>5, SameDurable DEF Contract!contractVars, DurableSet
<1>6. ASSUME NEW m \in Id, IdleElapses(m)
      PROVE  UNCHANGED <<log, stream, auditEvents, quarantined, acked>>
  BY <1>6 DEF IdleElapses, mysql
<1>7. CASE UNCHANGED vars
  BY <1>5, <1>7 DEF vars
<1>8. "done" \in Outcome
  BY DEF Outcome
<1>9. ASSUME NEW w \in Workers, WorkerStep(w) \/ Crash(w) \/ Restart(w)
      PROVE  Contract!ContractNext \/ UNCHANGED Contract!contractVars
  BY <1>3, <1>4, <1>5, <1>8, <1>9, UnseenSteps DEF WorkerStep, Call, Contract!ContractNext
<1> QED
  BY <1>1, <1>2, <1>5, <1>6, <1>7, <1>9 DEF Next

(* The pipeline implements the delivery contract: whatever fails, crashes  *)
(* or races, an entry that is settled was on durable record, what is on    *)
(* record stays, and nothing evicted comes back.                           *)
THEOREM PipelineImplementsContract == Spec => ImplementsContract
<1>1. Init => Contract!ContractInit
  BY DEF Init, Contract!ContractInit, Published
<1>2. DurabilityInv /\ [Next]_vars => [Contract!ContractNext]_(Contract!contractVars)
  BY StepImplements
<1>3. Spec => []DurabilityInv
  BY DurabilityInit, DurabilityNext, PTL DEF Spec
<1> QED
  BY <1>1, <1>2, <1>3, PTL DEF Spec, ImplementsContract, Contract!ContractSpec

-----------------------------------------------------------------------------
(* The bound on deliveries.  A worker that holds an outdated listing can   *)
(* add one delivery to what the listing says, and then holds it no more:   *)
(* times_delivered and the number of holders have a bounded sum.           *)
Limit == MaxDeliveries + Cardinality(Workers) - 1

(* The holders of an entry are workers, and finitely many.                 *)
LEMMA HoldersAreFinite ==
  ASSUME NEW m
  PROVE  /\ IsFiniteSet(Holders(m)) /\ Cardinality(Holders(m)) \in Nat
         /\ Cardinality(Holders(m)) <= Cardinality(Workers)
         /\ Cardinality(Workers) \in Nat
<1>1. Holders(m) \subseteq Workers
  BY DEF Holders
<1> QED
  BY <1>1, WorkersAssumption, FS_Subset, FS_CardinalityType

(* A step after which no entry has more deliveries or more holders.        *)
Recedes ==
  \A m \in Id : times'[m] <= times[m] /\ Holders(m)' \subseteq Holders(m)

LEMMA RecedingKeepsBound ==
  ASSUME TypeOK, TypeOK', DeliveryBound, Recedes PROVE DeliveryBound'
<1>1. SUFFICES ASSUME NEW m \in Pending'
               PROVE  times'[m] + Cardinality(Holders(m)') <= Limit
  BY DEF DeliveryBound, Limit, Holders
<1>2. m \in Id /\ times'[m] > 0 /\ times[m] \in Nat /\ times'[m] \in Nat
  BY <1>1 DEF Pending, TypeOK, RedisType
<1>3. m \in Pending
  BY <1>2 DEF Recedes, Pending
<1>4. /\ Cardinality(Holders(m)') <= Cardinality(Holders(m))
      /\ Cardinality(Holders(m)') \in Nat /\ Cardinality(Holders(m)) \in Nat
  BY <1>2, HoldersAreFinite, FS_Subset, FS_CardinalityType DEF Recedes
<1>5. Limit \in Int
  BY BoundsAssumption, HoldersAreFinite DEF Limit
<1> QED
  BY <1>2, <1>3, <1>4, <1>5 DEF Recedes, DeliveryBound, Limit

(* A worker that drops or abandons its listing holds less.                 *)
LEMMA FewerHolders ==
  ASSUME TypeOK, NEW w \in Workers, NEW new \in [Id -> Nat],
         snap' = [snap EXCEPT ![w] = new], \A m \in Id : new[m] \in {0, snap[w][m]}
  PROVE  \A m \in Id : Holders(m)' \subseteq Holders(m)
<1>1. snap \in [Workers -> [Id -> Nat]]
  BY DEF TypeOK, ProcessType
<1>2. \A v \in Workers, m \in Id : snap'[v][m] \in {0, snap[v][m]}
  BY <1>1
<1> QED
  BY <1>2 DEF Holders, Reclaimable

(* The steps of the environment.                                           *)
LEMMA EnvironmentRecedes ==
  ASSUME TypeOK, Log \/ (\E m \in Id : IdleElapses(m)) \/ DeleteGroup \/ UNCHANGED vars
  PROVE  Recedes
<1>0. times \in [Id -> Nat]
  BY DEF TypeOK, RedisType
<1>1. UNCHANGED snap
  BY DEF Log, IdleElapses, DeleteGroup, vars, process
<1>2. \A m \in Id : times'[m] <= times[m]
  BY <1>0 DEF Log, IdleElapses, DeleteGroup, vars, NoSnap
<1> QED
  BY <1>1, <1>2 DEF Recedes, Holders, Reclaimable

(* The steps of a worker that neither list, claim nor read.                *)
LEMMA WorkerRecedes ==
  ASSUME TypeOK, NEW w \in Workers, NEW o \in Outcome,
         \/ Crash(w) \/ Restart(w) \/ LeaveNogroup(w) \/ RecreateGroup(w, o)
         \/ Start(w, o) \/ FetchPoison(w, o) \/ Quarantine(w, o) \/ Persist(w, o) \/ Ack(w, o)
  PROVE  Recedes
<1>0. snap \in [Workers -> [Id -> Nat]] /\ times \in [Id -> Nat]
  BY DEF TypeOK, RedisType, ProcessType
<1>1. /\ UNCHANGED times => \A m \in Id : times'[m] <= times[m]
      /\ UNCHANGED snap => \A m \in Id : Holders(m)' \subseteq Holders(m)
  BY <1>0 DEF Holders, Reclaimable
<1>2. NoSnap \in [Id -> Nat] /\ \A m \in Id : NoSnap[m] = 0
  BY DEF NoSnap
<1>3. ASSUME snap' = [snap EXCEPT ![w] = NoSnap]
      PROVE  \A m \in Id : Holders(m)' \subseteq Holders(m)
  <2>1. \A m \in Id : NoSnap[m] \in {0, snap[w][m]}
    BY <1>2
  <2> QED
    BY <1>2, <1>3, <2>1, FewerHolders
<1>4. ASSUME NEW k \in Id, Drop(w, k)
      PROVE  \A m \in Id : Holders(m)' \subseteq Holders(m)
  <2> DEFINE new == [snap[w] EXCEPT ![k] = 0]
  <2>1. snap' = [snap EXCEPT ![w] = new]
    BY <1>4 DEF Drop
  <2>2. new \in [Id -> Nat] /\ \A m \in Id : new[m] \in {0, snap[w][m]}
    BY <1>0
  <2> HIDE DEF new
  <2> QED
    BY <2>1, <2>2, FewerHolders
<1> USE DEF process, sweep, redis
<1>5. CASE Crash(w) \/ Restart(w)
  BY <1>1, <1>3, <1>5 DEF Crash, Restart, Terminate, Recedes
<1>6. CASE LeaveNogroup(w) \/ RecreateGroup(w, o)
  BY <1>1, <1>6 DEF LeaveNogroup, RecreateGroup, AfterNogroup, ensure_group, Recedes
<1>7. CASE Start(w, o)
  BY <1>1, <1>3, <1>7 DEF Start, ensure_group, Terminate, Recedes
<1>8. CASE FetchPoison(w, o)
  BY <1>1, <1>3, <1>8 DEF FetchPoison, AbandonSweep, Recedes
<1>9. CASE Quarantine(w, o) \/ Persist(w, o)
  <2>1. PICK k \in Id : AfterWrite(w, k, o) /\ UNCHANGED times
    BY <1>9 DEF Quarantine, Persist
  <2> QED
    BY <1>1, <1>4, <2>1 DEF AfterWrite, Recedes
<1>10. CASE Ack(w, o)
  <2>1. PICK k \in Id : /\ Drop(w, k) \/ Terminate(w, "raised")
                        /\ times' = [times EXCEPT ![k] = 0] \/ UNCHANGED times
    BY <1>10 DEF Ack
  <2>2. \A m \in Id : times'[m] <= times[m]
    BY <1>0, <2>1
  <2> QED
    BY <1>3, <1>4, <2>1, <2>2 DEF Terminate, Recedes
<1> QED
  BY <1>5, <1>6, <1>7, <1>8, <1>9, <1>10

(* A listing makes its reader a holder only of entries below the limit.    *)
LEMMA ListingKeepsBound ==
  ASSUME TypeOK, TypeOK', DeliveryBound, NEW w \in Workers, NEW o \in Outcome, ListStale(w, o)
  PROVE  DeliveryBound'
<1>0. snap \in [Workers -> [Id -> Nat]] /\ times \in [Id -> Nat]
  BY DEF TypeOK, RedisType, ProcessType
<1>1. UNCHANGED times /\ Pending' = Pending
  BY DEF ListStale, redis, Pending
<1>2. PICK S : snap' = [snap EXCEPT ![w] = [m \in Id |-> IF m \in S THEN times[m] ELSE 0]]
  BY DEF ListStale
<1>3. SUFFICES ASSUME NEW m \in Pending
               PROVE  times[m] + Cardinality(Holders(m)') <= Limit
  BY <1>1 DEF DeliveryBound, Limit, Holders
<1>4. m \in Id /\ times[m] \in Nat
  BY <1>0 DEF Pending
<1>5. /\ Cardinality(Holders(m)) \in Nat /\ Cardinality(Workers) \in Nat
      /\ MaxDeliveries \in Nat /\ times[m] + Cardinality(Holders(m)) <= Limit
  BY BoundsAssumption, HoldersAreFinite DEF DeliveryBound, Limit
<1>6. Holders(m)' \subseteq Workers
  BY DEF Holders
<1>7. /\ Cardinality(Holders(m)') \in Nat
      /\ Cardinality(Holders(m)') <= Cardinality(Workers)
  BY <1>6, WorkersAssumption, FS_Subset, FS_CardinalityType
<1>8. CASE times[m] < MaxDeliveries
  BY <1>4, <1>5, <1>7, <1>8 DEF Limit
<1>9. CASE ~(times[m] < MaxDeliveries)
  <2>1. \A v \in Workers : v \in Holders(m)' => v \in Holders(m)
    BY <1>0, <1>2, <1>4, <1>9 DEF Holders, Reclaimable
  <2>2. Holders(m)' \subseteq Holders(m)
    BY <1>6, <2>1
  <2>3. Cardinality(Holders(m)') <= Cardinality(Holders(m))
    BY <2>2, HoldersAreFinite, FS_Subset
  <2> QED
    BY <1>4, <1>5, <1>7, <2>3 DEF Limit
<1> QED
  BY <1>8, <1>9

(* A claim adds a delivery and takes a holder away.                        *)
LEMMA ClaimKeepsBound ==
  ASSUME TypeOK, TypeOK', DeliveryBound, NEW w \in Workers, NEW o \in Outcome, Claim(w, o)
  PROVE  DeliveryBound'
<1> DEFINE R == Reclaimable(w)
<1>0. snap \in [Workers -> [Id -> Nat]] /\ times \in [Id -> Nat]
  BY DEF TypeOK, RedisType, ProcessType
<1>1. \/ snap' = [snap EXCEPT ![w] = [m \in Id |-> IF m \in R THEN 0 ELSE snap[w][m]]]
      \/ snap' = [snap EXCEPT ![w] = NoSnap]
  BY DEF Claim, AbandonSweep
<1>2. \A m \in Id : Holders(m)' \subseteq Holders(m) \ {w}
  <2>1. \A v \in Workers, m \in Id : snap'[v][m] \in {0, snap[v][m]}
    BY <1>0, <1>1 DEF NoSnap
  <2>2. \A m \in Id : m \in R => snap'[w][m] = 0
    BY <1>0, <1>1 DEF NoSnap
  <2> QED
    BY <2>1, <2>2 DEF Holders, Reclaimable
<1>3. CASE UNCHANGED redis
  <2>1. Recedes
    BY <1>0, <1>2, <1>3 DEF Recedes, redis
  <2> QED
    BY <2>1, RecedingKeepsBound
<1>4. CASE xclaim(R)
  <2>1. SUFFICES ASSUME NEW m \in Pending'
                 PROVE  times'[m] + Cardinality(Holders(m)') <= Limit
    BY DEF DeliveryBound, Limit, Holders
  <2>2. m \in Id /\ times'[m] \in Nat /\ times[m] \in Nat /\ times'[m] > 0
    BY <1>0, <2>1 DEF TypeOK, RedisType, Pending
  <2>3. \/ times'[m] = times[m]
        \/ m \in R /\ times'[m] = times[m] + 1 /\ times[m] > 0
    BY <1>4, <2>2 DEF xclaim, Claimed, TypeOK, RedisType, Pending
  <2>4. m \in Pending
    BY <2>2, <2>3 DEF Pending
  <2>5. /\ Cardinality(Holders(m)) \in Nat /\ IsFiniteSet(Holders(m))
        /\ Limit \in Int /\ times[m] + Cardinality(Holders(m)) <= Limit
    BY <2>4, BoundsAssumption, HoldersAreFinite DEF DeliveryBound, Limit
  <2>6. CASE times'[m] = times[m]
    <3>1. Holders(m)' \subseteq Holders(m)
      BY <1>2, <2>2
    <3>2. /\ Cardinality(Holders(m)') <= Cardinality(Holders(m))
          /\ Cardinality(Holders(m)') \in Nat
      BY <2>5, <3>1, FS_Subset, FS_CardinalityType
    <3> QED
      BY <2>2, <2>5, <2>6, <3>2
  <2>7. CASE m \in R /\ times'[m] = times[m] + 1
    <3>1. w \in Holders(m)
      BY <2>7 DEF Holders
    <3>2. /\ IsFiniteSet(Holders(m) \ {w})
          /\ Cardinality(Holders(m) \ {w}) = Cardinality(Holders(m)) - 1
      BY <2>5, <3>1, FS_RemoveElement
    <3>3. /\ Cardinality(Holders(m)') <= Cardinality(Holders(m) \ {w})
          /\ Cardinality(Holders(m)') \in Nat
      BY <1>2, <2>2, <3>2, FS_Subset, FS_CardinalityType
    <3> QED
      BY <2>2, <2>5, <2>7, <3>2, <3>3
  <2> QED
    BY <2>3, <2>6, <2>7
<1> QED
  BY <1>3, <1>4 DEF Claim

(* A first delivery is within the bound, whatever older listings say.      *)
LEMMA ReadKeepsBound ==
  ASSUME TypeOK, TypeOK', DeliveryBound, NEW w \in Workers, NEW o \in Outcome, ReadGroup(w, o)
  PROVE  DeliveryBound'
<1>1. PICK new : times' = [m \in Id |-> IF m \in new THEN 1 ELSE times[m]]
  BY DEF ReadGroup
<1>2. UNCHANGED snap /\ \A m \in Id : Holders(m)' = Holders(m)
  BY DEF ReadGroup, Holders, Reclaimable
<1>3. SUFFICES ASSUME NEW m \in Pending'
               PROVE  times'[m] + Cardinality(Holders(m)') <= Limit
  BY DEF DeliveryBound, Limit, Holders
<1>4. m \in Id /\ times[m] \in Nat /\ times'[m] > 0
  BY <1>3 DEF Pending, TypeOK, RedisType
<1>5. /\ Cardinality(Holders(m)) \in Nat /\ Cardinality(Workers) \in Nat
      /\ MaxDeliveries \in Nat \ {0} /\ Cardinality(Holders(m)) <= Cardinality(Workers)
  BY BoundsAssumption, HoldersAreFinite
<1>6. CASE m \in new
  <2>1. times'[m] = 1
    BY <1>1, <1>4, <1>6
  <2>2. CASE MaxDeliveries = 1
    <3>1. snap \in [Workers -> [Id -> Nat]]
      BY DEF TypeOK, ProcessType
    <3>2. Holders(m) = {}
      BY <2>2, <3>1 DEF Holders, Reclaimable
    <3>3. Cardinality(Holders(m)) = 0 /\ Cardinality(Workers) # 0
      BY <3>2, WorkersAssumption, FS_EmptySet
    <3> QED
      BY <1>2, <1>4, <1>5, <2>1, <2>2, <3>3 DEF Limit
  <2>3. CASE MaxDeliveries # 1
    BY <1>2, <1>4, <1>5, <2>1, <2>3 DEF Limit
  <2> QED
    BY <2>2, <2>3
<1>7. CASE m \notin new
  <2>1. times'[m] = times[m] /\ m \in Pending
    BY <1>1, <1>4, <1>7 DEF Pending
  <2> QED
    BY <1>2, <1>4, <2>1 DEF DeliveryBound, Limit
<1> QED
  BY <1>6, <1>7

(* The poison rule bounds deliveries, for any number of workers that race  *)
(* with listings of each other's claims: MaxDeliveries, and one more for   *)
(* every worker but one.                                                   *)
THEOREM DeliveriesAreBounded == Spec => []DeliveryBound
<1>1. Init => DeliveryBound
  BY DEF Init, DeliveryBound, Pending, NoSnap
<1>2. ASSUME TypeOK, DeliveryBound, [Next]_vars PROVE DeliveryBound'
  <2>0. TypeOK'
    BY <1>2, TypeNext
  <2>1. CASE Log \/ (\E m \in Id : IdleElapses(m)) \/ DeleteGroup \/ UNCHANGED vars
    BY <1>2, <2>0, <2>1, EnvironmentRecedes, RecedingKeepsBound
  <2>2. ASSUME NEW w \in Workers, Crash(w) \/ Restart(w) \/ LeaveNogroup(w)
        PROVE  DeliveryBound'
    <3>1. "done" \in Outcome
      BY DEF Outcome
    <3> QED
      BY <1>2, <2>0, <2>2, <3>1, WorkerRecedes, RecedingKeepsBound
  <2>3. ASSUME NEW w \in Workers, NEW o \in Outcome, Call(w, o)
        PROVE  DeliveryBound'
    BY <1>2, <2>0, <2>3, WorkerRecedes, RecedingKeepsBound, ListingKeepsBound,
       ClaimKeepsBound, ReadKeepsBound DEF Call
  <2> QED
    BY <1>2, <2>1, <2>2, <2>3 DEF Next, WorkerStep
<1>3. TypeOK /\ DeliveryBound /\ [Next]_vars => DeliveryBound'
  BY <1>2
<1> QED
  BY <1>1, <1>3, TypeCorrect, PTL DEF Spec
=============================================================================
