--------------------------- MODULE PipelineHealth ---------------------------
(***************************************************************************)
(* GET /audit/pipeline-health next to a live pipeline.  get_pipeline_health *)
(* computes its answer from several Redis calls and then one MySQL         *)
(* transaction, and producers and workers take steps between any two of    *)
(* them, so that its numbers belong to no single moment.  One action per   *)
(* call; one request at a time.                                            *)
(*                                                                         *)
(* Left out: XINFO CONSUMERS (AuditPipeline has no consumer names), the    *)
(* timestamps of the newest rows, and the status files, which are copied   *)
(* into the answer unread.  The alerts that follow from an answer are in   *)
(* SecurityAlerts.                                                         *)
(***************************************************************************)
EXTENDS AuditPipeline

CONSTANT None   \* Python's None, in a field of the answer that is unknown

ASSUME NoneAssumption == None \notin Nat /\ None \notin BOOLEAN

VARIABLES
  hpc,      \* where the request is
  answer,   \* the fields of the answer computed so far
  seen      \* history: what was published and what the group had not read
            \* when XPENDING replied that nothing is pending, and what of
            \* that the group had handed out when XINFO GROUPS replied

healthVars == <<hpc, answer, seen>>
allVars    == <<vars, healthVars>>

(* The dataclass defaults of RedisPipelineHealth and                       *)
(* PersistencePipelineHealth.                                              *)
NoAnswer ==
  [redis_available |-> FALSE, pending_count |-> None,
   oldest_pending_stale |-> None, retry_in_progress_count |-> None,
   consumer_lag |-> None, db_available |-> FALSE, quarantine_count |-> None]
NothingSeen == [published |-> {}, unread |-> {}, handed |-> {}]

HealthInit == Init /\ hpc = "idle" /\ answer = NoAnswer /\ seen = NothingSeen

-----------------------------------------------------------------------------
Unread == {m \in stream : m > cursor}

\* Mutant: a lag that Redis cannot give is reported as 0.
MutantZeroLag == IF Published = stream THEN {Cardinality(Unread)} ELSE {0}

(* XINFO GROUPS' lag.  It counts unread entries that were trimmed as well, *)
(* unless Redis works from the IDs that are left; and it is nil when a     *)
(* trimmed entry makes the number uncertain.                               *)
ReportedLag ==
  IF Published = stream
    THEN {Cardinality(Unread)}
    ELSE {None, Cardinality(Unread), Cardinality({m \in Published : m > cursor})}

(* The lowest SweepBatch pending entries: XPENDING's range, a bounded scan *)
(* in ID order.                                                            *)
Sample == Lowest(Pending, SweepBatch)

(* A call of the request: from one place to the next, with its outcome.    *)
(* When a reply is lost the reader cannot tell it from a failure.          *)
HealthCall(from, to, o) ==
  /\ hpc = from /\ hpc' = to
  /\ o \in {"done", "failed"} /\ Charge(o)
  /\ UNCHANGED <<log, redis, mysql, process, acked>>

(* Any exception but XINFO's makes the whole Redis half of the answer      *)
(* RedisPipelineHealth(available=False): nothing gathered is kept.         *)
GiveUpRedis == answer' = NoAnswer

(* The first call of the request.  Its value, stream_length, is copied     *)
(* into the answer and compared with nothing.                              *)
Xlen(o) ==
  /\ HealthCall("idle", IF o = "done" THEN "xpending" ELSE "mysql", o)
  /\ UNCHANGED <<answer, seen>>

(* XPENDING, the summary; a missing group is an exception (NOGROUP).       *)
Xpending(o) ==
  LET n == Cardinality(Pending) IN
  /\ HealthCall("xpending", IF o = "failed" \/ ~group THEN "mysql"
                            ELSE IF n = 0 THEN "xinfo" ELSE "oldest", o)
  /\ IF o = "done" /\ group THEN answer' = [answer EXCEPT !.pending_count = n]
                            ELSE GiveUpRedis
  /\ seen' = IF answer'.pending_count = 0
               THEN [published |-> Published, unread |-> Unread, handed |-> {}]
               ELSE NothingSeen

(* XPENDING - + 1: the idle time of the entry with the lowest ID, if the   *)
(* PEL still has an entry.                                                 *)
OldestPending(o) ==
  /\ HealthCall("oldest", IF o = "done" /\ group THEN "sample" ELSE "mysql", o)
  /\ IF o = "done" /\ group
       THEN answer' = [answer EXCEPT !.oldest_pending_stale =
                         IF Pending = {} THEN None ELSE \E m \in stale : IsFirst(m, Pending)]
       ELSE GiveUpRedis
  /\ UNCHANGED seen

RetrySample(o) ==
  /\ HealthCall("sample", IF o = "done" /\ group THEN "xinfo" ELSE "mysql", o)
  /\ IF o = "done" /\ group
       THEN answer' = [answer EXCEPT !.retry_in_progress_count =
                         Cardinality({m \in Sample : times[m] > 1})]
       ELSE GiveUpRedis
  /\ UNCHANGED seen

(* XINFO GROUPS, whose failure only leaves the lag unknown.                *)
XinfoGroups(o) ==
  /\ HealthCall("xinfo", "mysql", o)
  /\ \E lag \in IF o = "done" /\ group THEN ReportedLag ELSE {None} :
       answer' = [answer EXCEPT !.redis_available = TRUE, !.consumer_lag = lag]
  /\ seen' = [seen EXCEPT !.handed = {m \in seen.unread : m <= cursor}]

(* get_persistence_pipeline_health: three queries in one transaction.      *)
Persistence(o) ==
  /\ HealthCall("mysql", "answered", o)
  /\ answer' = IF o = "done"
       THEN [answer EXCEPT !.db_available = TRUE, !.quarantine_count = Cardinality(quarantined)]
       ELSE answer
  /\ UNCHANGED seen

(* The response is sent.                                                   *)
Respond ==
  /\ hpc = "answered" /\ hpc' = "idle"
  /\ answer' = NoAnswer /\ seen' = NothingSeen
  /\ UNCHANGED vars

HealthStep ==
  \/ \E o \in Outcome :
       \/ Xlen(o) \/ Xpending(o) \/ OldestPending(o) \/ RetrySample(o)
       \/ XinfoGroups(o) \/ Persistence(o)
  \/ Respond

HealthNext == HealthStep \/ (Next /\ UNCHANGED healthVars)
HealthSpec == HealthInit /\ [][HealthNext]_allVars
HealthLiveSpec == HealthSpec /\ Fairness

-----------------------------------------------------------------------------
AllClear ==
  /\ hpc = "answered" /\ answer.redis_available /\ answer.db_available
  /\ answer.pending_count = 0 /\ answer.consumer_lag = 0 /\ answer.quarantine_count = 0

(* An answer with nothing pending, no lag and nothing quarantined can be   *)
(* relied on although it was put together call by call: each entry that    *)
(* was published when XPENDING replied, and is still in the stream, has    *)
(* its row in audit_events, or was handed to a worker between the replies  *)
(* of XPENDING and XINFO GROUPS.  It rests on the order of the calls: what *)
(* is read between them is missed once and counted by the next request,    *)
(* and quarantine is counted last, so that an entry cannot leave the PEL   *)
(* for the quarantine in between.                                          *)
AllClearIsHonest ==
  AllClear =>
    \A m \in seen.published \cap stream :
      \/ \E r \in auditEvents : r.columns = m \/ r.event_id = log[m].event_id
      \/ m \in seen.handed
=============================================================================
