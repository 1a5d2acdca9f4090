------------------------ MODULE PipelineHealthProofs ------------------------
(***************************************************************************)
(* What an all-clear of GET /audit/pipeline-health is worth, for any       *)
(* number of workers, entries and failures around the calls it is put      *)
(* together from, and also when the stream or its group is deleted and     *)
(* created anew between two of them.                                       *)
(*                                                                         *)
(* Each call of the request adds one fact, and the fact outlives the call: *)
(* an empty PEL leaves only what is on record or unread, no lag leaves     *)
(* nothing unread, and an empty quarantine leaves audit_events as the only *)
(* place where a record can be.                                            *)
(***************************************************************************)
EXTENDS PipelineHealth, AuditPipelineProofs

HasRow(m) == \E r \in auditEvents : r.columns = m \/ r.event_id = log[m].event_id

(* What holds of the pipeline next to a health check.                      *)
BaseInv == DurabilityInv /\ NothingLost

(* The answer is a record of its fields; a field is unknown until its call *)
(* has been made.                                                          *)
AnswerShape ==
  /\ answer = [redis_available |-> answer.redis_available,
               pending_count |-> answer.pending_count,
               oldest_pending_stale |-> answer.oldest_pending_stale,
               retry_in_progress_count |-> answer.retry_in_progress_count,
               consumer_lag |-> answer.consumer_lag,
               db_available |-> answer.db_available,
               quarantine_count |-> answer.quarantine_count]
  /\ hpc \in {"idle", "xpending"} => answer = NoAnswer
  /\ hpc \notin {"mysql", "answered"} => answer.consumer_lag = None
  /\ hpc # "answered" => answer.quarantine_count = None
  /\ seen = [published |-> seen.published, unread |-> seen.unread, handed |-> seen.handed]
  /\ seen.published \subseteq Published

(* After an empty XPENDING, after a lag of 0, and after an empty           *)
(* quarantine.                                                             *)
PendingTold ==
  answer.pending_count = 0 =>
    \A m \in seen.published \cap stream : Durable(m) \/ m \in seen.unread
LagTold ==
  answer.pending_count = 0 /\ answer.consumer_lag = 0 =>
    \A m \in seen.published \cap stream : Durable(m) \/ m \in seen.handed
QuarantineTold ==
  answer.pending_count = 0 /\ answer.consumer_lag = 0 /\ answer.quarantine_count = 0 =>
    \A m \in seen.published \cap stream : HasRow(m) \/ m \in seen.handed

HealthInv == BaseInv /\ AnswerShape /\ PendingTold /\ LagTold /\ QuarantineTold

-----------------------------------------------------------------------------
(* A call of the request changes nothing of the pipeline but the budget.   *)
LEMMA CallKeepsBase ==
  ASSUME BaseInv, UNCHANGED <<log, redis, mysql, process, acked>>, faults' \in 0..MaxFaults
  PROVE  BaseInv'
<1>1. TypeOK'
  BY SameRedis, SameMysql, SameProcess DEF BaseInv, DurabilityInv, TypeOK
<1>2. StoredIsDurable'
  BY DEF BaseInv, DurabilityInv, StoredIsDurable, InHand, Poison, IsFirst, Durable, process, mysql
<1>3. UuidsAreSpent' /\ AckedIsDurable'
  BY DEF BaseInv, DurabilityInv, UuidsAreSpent, AckedIsDurable, Durable, mysql
<1>4. NothingLost'
  BY DEF BaseInv, NothingLost, Durable, Pending, redis, mysql
<1> QED  BY <1>1, <1>2, <1>3, <1>4 DEF BaseInv, DurabilityInv

(* A step of the pipeline.                                                 *)
LEMMA StepKeepsBase == ASSUME BaseInv, [Next]_vars PROVE BaseInv'
BY DurabilityNext, NothingLostNext DEF BaseInv

(* Facts about entries that the request has seen outlive the steps of the  *)
(* pipeline: a row stays, a record stays, and the stream takes nothing     *)
(* back.                                                                   *)
LEMMA StepKeepsFacts ==
  ASSUME HealthInv, [Next]_vars, UNCHANGED healthVars
  PROVE  HealthInv'
<1>0. /\ TypeOK /\ TypeOK' /\ Monotone /\ BaseInv /\ BaseInv'
      /\ AnswerShape /\ PendingTold /\ LagTold /\ QuarantineTold
  BY StepKeepsBase, EveryStep DEF HealthInv, BaseInv, DurabilityInv
<1>1. UNCHANGED <<hpc, answer, seen>>
  BY DEF healthVars
<1>2. AnswerShape'
  <2>1. Published \subseteq Published'
    BY <1>0 DEF Monotone
  <2> QED  BY <1>0, <1>1, <2>1 DEF AnswerShape
<1>3. ASSUME NEW m \in seen.published, m \in stream'
      PROVE  /\ m \in seen.published \cap stream
             /\ Durable(m) => Durable(m)'
             /\ HasRow(m) => HasRow(m)'
  <2>1. m \in Published
    BY <1>0 DEF AnswerShape
  <2>2. m \in stream
    BY <1>0, <1>3, <2>1, LostForGood
  <2>3. HasRow(m) => HasRow(m)'
    BY <1>0, <2>1 DEF HasRow, Monotone
  <2> QED  BY <1>0, <2>1, <2>2, <2>3, DurableStays
<1>4. PendingTold'
  BY <1>0, <1>1, <1>3 DEF PendingTold
<1>5. LagTold'
  BY <1>0, <1>1, <1>3 DEF LagTold
<1>6. QuarantineTold'
  BY <1>0, <1>1, <1>3 DEF QuarantineTold
<1> QED  BY <1>0, <1>2, <1>4, <1>5, <1>6 DEF HealthInv

-----------------------------------------------------------------------------
(* What every call of the request leaves alone.                            *)
Untold ==
  /\ UNCHANGED <<log, stream, group, cursor, times, stale, auditEvents, quarantined>>
  /\ \A m : (Durable(m)' <=> Durable(m)) /\ (HasRow(m)' <=> HasRow(m))
  /\ Published' = Published /\ Pending' = Pending /\ Unread' = Unread

LEMMA CallIsRead ==
  ASSUME HealthInv, NEW from, NEW to, NEW o, HealthCall(from, to, o)
  PROVE  BaseInv' /\ Untold /\ hpc = from /\ hpc' = to /\ o \in {"done", "failed"}
<1>1. /\ UNCHANGED <<log, redis, mysql, process, acked>> /\ hpc = from /\ hpc' = to
      /\ o \in {"done", "failed"} /\ Charge(o)
  BY DEF HealthCall
<1>2. faults' \in 0..MaxFaults
  BY <1>1, ChargeType DEF HealthInv, BaseInv, DurabilityInv, TypeOK, RedisType
<1>3. BaseInv'
  BY <1>1, <1>2, CallKeepsBase DEF HealthInv
<1>4. Untold
  BY <1>1 DEF Untold, redis, mysql, Durable, HasRow, Published, Pending, Unread
<1> QED  BY <1>1, <1>3, <1>4

(* None is not a number.                                                   *)
LEMMA NoneIsNotZero ==
  /\ None # 0 /\ NoAnswer.pending_count = None /\ NoAnswer.consumer_lag = None
  /\ NoAnswer.quarantine_count = None
BY NoneAssumption DEF NoAnswer

(* An answer of which nothing is known tells nothing.                      *)
LEMMA NothingTold ==
  ASSUME BaseInv', answer' = NoAnswer, seen'.published \subseteq Published',
         seen' = [published |-> seen'.published, unread |-> seen'.unread, handed |-> seen'.handed]
  PROVE  HealthInv'
<1>1. NoAnswer = [redis_available |-> NoAnswer.redis_available,
                  pending_count |-> NoAnswer.pending_count,
                  oldest_pending_stale |-> NoAnswer.oldest_pending_stale,
                  retry_in_progress_count |-> NoAnswer.retry_in_progress_count,
                  consumer_lag |-> NoAnswer.consumer_lag,
                  db_available |-> NoAnswer.db_available,
                  quarantine_count |-> NoAnswer.quarantine_count]
  BY DEF NoAnswer
<1>2. AnswerShape'
  BY <1>1, NoneIsNotZero DEF AnswerShape
<1>3. PendingTold' /\ LagTold' /\ QuarantineTold'
  BY NoneIsNotZero DEF PendingTold, LagTold, QuarantineTold
<1> QED  BY <1>2, <1>3 DEF HealthInv

(* A call that changes none of the three numbers.                          *)
LEMMA SameNumbers ==
  ASSUME HealthInv, BaseInv', Untold, seen' = seen,
         answer'.pending_count = answer.pending_count,
         answer'.consumer_lag = answer.consumer_lag,
         answer'.quarantine_count = answer.quarantine_count
  PROVE  PendingTold' /\ LagTold' /\ QuarantineTold'
BY DEF HealthInv, PendingTold, LagTold, QuarantineTold, Untold

(* XLEN.                                                                   *)
LEMMA XlenTells == ASSUME HealthInv, NEW o, Xlen(o) PROVE HealthInv'
<1>1. BaseInv' /\ Untold /\ hpc = "idle" /\ UNCHANGED <<answer, seen>>
  BY CallIsRead DEF Xlen
<1>2. /\ answer = NoAnswer /\ seen.published \subseteq Published
      /\ seen = [published |-> seen.published, unread |-> seen.unread, handed |-> seen.handed]
  BY <1>1 DEF HealthInv, AnswerShape
<1> QED  BY <1>1, <1>2, NothingTold DEF Untold

(* XPENDING: with an empty PEL, what the stream holds is on record or      *)
(* unread, because nothing is lost.                                        *)
LEMMA XpendingTells == ASSUME HealthInv, NEW o, Xpending(o) PROVE HealthInv'
<1> DEFINE n == Cardinality(Pending)
<1>1. /\ BaseInv' /\ Untold /\ hpc = "xpending"
      /\ hpc' \in {"mysql", "xinfo", "oldest"}
      /\ seen' = IF answer'.pending_count = 0
                   THEN [published |-> Published, unread |-> Unread, handed |-> {}]
                   ELSE NothingSeen
  BY CallIsRead DEF Xpending
<1>2. /\ seen'.published \subseteq Published /\ answer = NoAnswer
      /\ answer'.pending_count = 0 => seen'.unread = Unread
      /\ seen' = [published |-> seen'.published, unread |-> seen'.unread, handed |-> seen'.handed]
  BY <1>1 DEF HealthInv, AnswerShape, NothingSeen
<1>3. CASE ~(o = "done" /\ group)
  <2>1. answer' = NoAnswer
    BY <1>3 DEF Xpending, GiveUpRedis
  <2> QED  BY <1>1, <1>2, <2>1, NothingTold DEF Untold
<1>4. CASE o = "done" /\ group
  <2>1. answer' = [NoAnswer EXCEPT !.pending_count = n]
    BY <1>2, <1>4 DEF Xpending
  <2> HIDE DEF n
  <2>2. /\ answer'.pending_count = n /\ answer'.consumer_lag = None
        /\ answer'.quarantine_count = None
        /\ answer' = [redis_available |-> answer'.redis_available,
                      pending_count |-> answer'.pending_count,
                      oldest_pending_stale |-> answer'.oldest_pending_stale,
                      retry_in_progress_count |-> answer'.retry_in_progress_count,
                      consumer_lag |-> answer'.consumer_lag,
                      db_available |-> answer'.db_available,
                      quarantine_count |-> answer'.quarantine_count]
    BY <2>1 DEF NoAnswer
  <2>3. AnswerShape'
    BY <1>1, <1>2, <2>2 DEF AnswerShape, Untold
  <2>4. ASSUME n = 0, NEW m \in stream PROVE Durable(m) \/ m \in Unread
    <3>1. IsFiniteSet(Pending)
      <4>1. 1 \in Int /\ MaxMessages \in Int /\ Pending \subseteq 1..MaxMessages
        BY BoundsAssumption DEF Pending, Id
      <4> QED  BY <4>1, FS_Interval, FS_Subset
    <3>2. Pending = {}
      BY <2>4, <3>1, FS_EmptySet DEF n
    <3> QED  BY <1>4, <3>2 DEF HealthInv, BaseInv, NothingLost, Unread
  <2>5. PendingTold'
    BY <1>1, <1>2, <1>4, <2>2, <2>4 DEF PendingTold, Untold
  <2>6. LagTold' /\ QuarantineTold'
    BY <2>2, NoneIsNotZero DEF LagTold, QuarantineTold
  <2> QED  BY <1>1, <2>3, <2>5, <2>6 DEF HealthInv
<1> QED  BY <1>3, <1>4

(* The two calls about single entries.                                     *)
LEMMA EntriesTell ==
  ASSUME HealthInv, NEW o, OldestPending(o) \/ RetrySample(o) PROVE HealthInv'
<1>1. /\ BaseInv' /\ Untold /\ seen' = seen /\ hpc \in {"oldest", "sample"}
      /\ hpc' \in {"sample", "xinfo", "mysql"}
  BY CallIsRead DEF OldestPending, RetrySample
<1>2. CASE answer' = NoAnswer
  BY <1>1, <1>2, NothingTold DEF HealthInv, AnswerShape, Untold
<1>3. CASE ~(answer' = NoAnswer)
  <2>1. \/ \E v : answer' = [answer EXCEPT !.oldest_pending_stale = v]
        \/ \E v : answer' = [answer EXCEPT !.retry_in_progress_count = v]
    BY <1>3 DEF OldestPending, RetrySample, GiveUpRedis
  <2>2. /\ answer'.pending_count = answer.pending_count
        /\ answer'.consumer_lag = answer.consumer_lag
        /\ answer'.quarantine_count = answer.quarantine_count
        /\ answer' = [redis_available |-> answer'.redis_available,
                      pending_count |-> answer'.pending_count,
                      oldest_pending_stale |-> answer'.oldest_pending_stale,
                      retry_in_progress_count |-> answer'.retry_in_progress_count,
                      consumer_lag |-> answer'.consumer_lag,
                      db_available |-> answer'.db_available,
                      quarantine_count |-> answer'.quarantine_count]
    BY <2>1 DEF HealthInv, AnswerShape
  <2>3. AnswerShape'
    BY <1>1, <2>2 DEF HealthInv, AnswerShape, Untold
  <2> QED  BY <1>1, <2>2, <2>3, SameNumbers DEF HealthInv
<1> QED  BY <1>2, <1>3

(* XINFO GROUPS: a lag of 0, whichever way Redis came to it, says that the *)
(* cursor has passed everything that is in the stream.                     *)
LEMMA XinfoTells == ASSUME HealthInv, NEW o, XinfoGroups(o) PROVE HealthInv'
<1>1. /\ BaseInv' /\ Untold /\ hpc = "xinfo" /\ hpc' = "mysql"
      /\ seen' = [seen EXCEPT !.handed = {m \in seen.unread : m <= cursor}]
  BY CallIsRead DEF XinfoGroups
<1>2. PICK lag \in IF o = "done" /\ group THEN ReportedLag ELSE {None} :
        answer' = [answer EXCEPT !.redis_available = TRUE, !.consumer_lag = lag]
  BY DEF XinfoGroups
<1>3. /\ answer'.pending_count = answer.pending_count /\ answer'.consumer_lag = lag
      /\ answer'.quarantine_count = answer.quarantine_count
      /\ answer' = [redis_available |-> answer'.redis_available,
                    pending_count |-> answer'.pending_count,
                    oldest_pending_stale |-> answer'.oldest_pending_stale,
                    retry_in_progress_count |-> answer'.retry_in_progress_count,
                    consumer_lag |-> answer'.consumer_lag,
                    db_available |-> answer'.db_available,
                    quarantine_count |-> answer'.quarantine_count]
  BY <1>2 DEF HealthInv, AnswerShape
<1>4. /\ answer.quarantine_count = None
      /\ seen'.published = seen.published /\ seen'.unread = seen.unread
      /\ seen'.handed = {m \in seen.unread : m <= cursor}
      /\ seen' = [published |-> seen'.published, unread |-> seen'.unread, handed |-> seen'.handed]
  BY <1>1 DEF HealthInv, AnswerShape
<1>5. AnswerShape'
  BY <1>1, <1>3, <1>4 DEF HealthInv, AnswerShape, Untold
<1>6. PendingTold'
  BY <1>1, <1>3, <1>4 DEF HealthInv, PendingTold, Untold
<1>7. ASSUME lag = 0, NEW m \in stream PROVE m <= cursor
  <2>1. lag \in ReportedLag
    BY <1>2, <1>7, NoneIsNotZero
  <2>2. /\ Len(log) \in Nat /\ stream \subseteq 1..Len(log) /\ cursor \in Nat
    BY DEF HealthInv, BaseInv, DurabilityInv, TypeOK, RedisType, Published
  <2>3. IsFiniteSet(Unread) /\ IsFiniteSet({k \in Published : k > cursor})
    <3>1. IsFiniteSet(1..Len(log))
      BY <2>2, FS_Interval
    <3>2. Unread \subseteq 1..Len(log) /\ {k \in Published : k > cursor} \subseteq 1..Len(log)
      BY <2>2 DEF Unread, Published
    <3> QED  BY <3>1, <3>2, FS_Subset
  <2>4. Unread = {} \/ {k \in Published : k > cursor} = {}
    BY <1>7, <2>1, <2>3, FS_EmptySet, NoneIsNotZero DEF ReportedLag
  <2>5. ~(m > cursor) /\ m \in Nat
    BY <2>2, <2>4 DEF Unread, Published
  <2> QED  BY <2>2, <2>5
<1>8. LagTold'
  BY <1>1, <1>3, <1>4, <1>7 DEF HealthInv, PendingTold, LagTold, Untold
<1>9. QuarantineTold'
  BY <1>3, <1>4, NoneIsNotZero DEF QuarantineTold
<1> QED  BY <1>1, <1>5, <1>6, <1>8, <1>9 DEF HealthInv

(* The MySQL half: with nothing in quarantine, what is on record has its   *)
(* row in audit_events.                                                    *)
LEMMA PersistenceTells == ASSUME HealthInv, NEW o, Persistence(o) PROVE HealthInv'
<1>1. /\ BaseInv' /\ Untold /\ seen' = seen /\ hpc = "mysql" /\ hpc' = "answered"
  BY CallIsRead DEF Persistence
<1>2. CASE o # "done"
  <2>1. answer' = answer
    BY <1>2 DEF Persistence
  <2>2. AnswerShape'
    BY <1>1, <2>1 DEF HealthInv, AnswerShape, Untold
  <2> QED  BY <1>1, <2>1, <2>2, SameNumbers DEF HealthInv
<1>3. CASE o = "done"
  <2> DEFINE n == Cardinality(quarantined)
  <2>1. answer' = [answer EXCEPT !.db_available = TRUE, !.quarantine_count = n]
    BY <1>3 DEF Persistence
  <2> HIDE DEF n
  <2>2. /\ answer'.pending_count = answer.pending_count
        /\ answer'.consumer_lag = answer.consumer_lag /\ answer'.quarantine_count = n
        /\ answer' = [redis_available |-> answer'.redis_available,
                      pending_count |-> answer'.pending_count,
                      oldest_pending_stale |-> answer'.oldest_pending_stale,
                      retry_in_progress_count |-> answer'.retry_in_progress_count,
                      consumer_lag |-> answer'.consumer_lag,
                      db_available |-> answer'.db_available,
                      quarantine_count |-> answer'.quarantine_count]
    BY <2>1 DEF HealthInv, AnswerShape
  <2>3. AnswerShape'
    BY <1>1, <2>2 DEF HealthInv, AnswerShape, Untold
  <2>4. PendingTold' /\ LagTold'
    BY <1>1, <2>2 DEF HealthInv, PendingTold, LagTold, Untold
  <2>5. ASSUME n = 0, NEW m, Durable(m) PROVE HasRow(m)
    <3>1. quarantined = {}
      BY <2>5, FS_EmptySet DEF HealthInv, BaseInv, DurabilityInv, TypeOK, MysqlType, n
    <3> QED  BY <2>5, <3>1 DEF Durable, HasRow
  <2>6. QuarantineTold'
    BY <1>1, <2>2, <2>5 DEF HealthInv, LagTold, QuarantineTold, Untold
  <2> QED  BY <1>1, <2>3, <2>4, <2>6 DEF HealthInv
<1> QED  BY <1>2, <1>3

(* The response.                                                           *)
LEMMA RespondTells == ASSUME HealthInv, Respond PROVE HealthInv'
<1>1. answer' = NoAnswer /\ seen' = NothingSeen /\ UNCHANGED vars
  BY DEF Respond
<1>2. BaseInv'
  BY <1>1, StepKeepsBase DEF HealthInv
<1>3. /\ seen'.published = {}
      /\ seen' = [published |-> seen'.published, unread |-> seen'.unread, handed |-> seen'.handed]
  BY <1>1 DEF NothingSeen
<1> QED  BY <1>1, <1>2, <1>3, NothingTold

(* The invariant of the pipeline and the request together.                 *)
LEMMA HealthNextKeeps ==
  ASSUME HealthInv, [HealthNext]_allVars
  PROVE  HealthInv'
<1>1. CASE HealthStep
  BY <1>1, XlenTells, XpendingTells, EntriesTell, XinfoTells, PersistenceTells, RespondTells
     DEF HealthStep
<1>2. CASE Next /\ UNCHANGED healthVars
  BY <1>2, StepKeepsFacts
<1>3. CASE UNCHANGED allVars
  BY <1>3, StepKeepsFacts DEF allVars
<1> QED  BY <1>1, <1>2, <1>3 DEF HealthNext

LEMMA HealthInitTells == HealthInit => HealthInv
<1> SUFFICES ASSUME HealthInit PROVE HealthInv
  OBVIOUS
<1>1. Init /\ hpc = "idle" /\ answer = NoAnswer /\ seen = NothingSeen
  BY DEF HealthInit
<1>2. BaseInv
  BY <1>1, DurabilityInit, FS_EmptySet DEF Init, BaseInv, NothingLost
<1>3. AnswerShape
  BY <1>1, NoneIsNotZero DEF AnswerShape, NoAnswer, NothingSeen
<1>4. PendingTold /\ LagTold /\ QuarantineTold
  BY <1>1, NoneIsNotZero DEF PendingTold, LagTold, QuarantineTold
<1> QED  BY <1>2, <1>3, <1>4 DEF HealthInv

(* An all-clear of the health route can be relied on, although its numbers *)
(* belong to no single moment: what was published when XPENDING replied    *)
(* and is still in the stream has its row in audit_events, or was handed   *)
(* to a worker between that reply and the one of XINFO GROUPS.             *)
THEOREM AllClearCanBeTrusted == HealthSpec => []AllClearIsHonest
<1>1. HealthInv /\ [HealthNext]_allVars => HealthInv'
  BY HealthNextKeeps
<1>2. HealthInv => AllClearIsHonest
  BY DEF HealthInv, QuarantineTold, AllClear, AllClearIsHonest, HasRow
<1> QED  BY <1>1, <1>2, HealthInitTells, PTL DEF HealthSpec
=============================================================================
