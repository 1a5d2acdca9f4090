--------------------------- MODULE SecurityAlerts ---------------------------
(***************************************************************************)
(* audit/security_alerts.py: emit_security_alert with its deduplication    *)
(* window, called from the worker, from the scripts, and from the threads  *)
(* that serve the health route (services/audit_health_service.py).         *)
(*                                                                         *)
(* A call is three steps, because other threads run between them: it reads *)
(* the clock, it takes the lock to check and set _LAST_SENT, and it calls  *)
(* the sink after it has left the lock.  Each condition is emitted under   *)
(* one component name, so the condition alone is the deduplication key.    *)
(* _LAST_SENT belongs to one process and is empty when it starts.          *)
(***************************************************************************)
EXTENDS Integers, Sequences

CONSTANTS
  Workers,      \* processes with one thread: workers, and the scripts' runs
  Servers,      \* API processes
  Callers,      \* the threads that serve requests in each of them
  Direct,       \* the conditions that worker processes emit
  Health,       \* what health checks may find
  Window,       \* dedup_window_seconds
  MaxTime,      \* bound: the last instant
  MaxFaults     \* bound: failing sinks and restarted processes

Recoveries == {"audit_stream_or_group_missing_recovered"}

Conditions ==
  Recoveries \cup
  {"audit_stream_or_group_missing", "poison_event_quarantined",
   "integrity_verification_failed", "retention_cleanup_failed",
   "redis_stream_unavailable", "audit_worker_never_registered",
   "pel_backlog_threshold_exceeded", "pel_entry_age_threshold_exceeded",
   "audit_worker_stalled", "audit_database_unavailable",
   "quarantine_count_threshold_exceeded"}

(* A health snapshot, as far as its evaluation tells it apart: consumers   *)
(* is "unknown" when XINFO CONSUMERS failed, and over has the thresholds   *)
(* that are configured and exceeded.  There is no idle consumer to be over *)
(* the stall threshold when none is known.                                 *)
PipelineHealth ==
  {h \in [redis       : BOOLEAN,
          consumers   : {"unknown", "zero", "some"},
          persistence : BOOLEAN,
          over        : SUBSET {"pending", "age", "stall", "quarantine"}] :
     "stall" \in h.over => h.consumers = "some"}

ASSUME AlertConstantsAssumption ==
  /\ Workers \cap Servers = {}
  /\ Direct \subseteq Conditions /\ Health \subseteq PipelineHealth
  /\ Window \in Nat \ {0} /\ {MaxTime, MaxFaults} \subseteq Nat

VARIABLES
  clock,     \* time.monotonic()
  lastSent,  \* process -> its _LAST_SENT: condition -> time, or Never
  todo,      \* thread -> the conditions it has still to emit
  pc,        \* thread -> where it is
  stamp,     \* thread -> now, as the call in progress read it
  life,      \* process -> how often it has restarted
  reported,  \* history: thread -> the last call that it has decided
  attempts,  \* history: the alerts handed to a sink
  faults     \* how much of MaxFaults is spent

vars == <<clock, lastSent, todo, pc, stamp, life, reported, attempts, faults>>

Processes == Workers \cup Servers
Threads == (Workers \X {"main"}) \cup (Servers \X Callers)
Never == -1
NothingSent == [c \in Conditions |-> Never]

Init ==
  /\ clock = 0
  /\ lastSent = [p \in Processes |-> NothingSent]
  /\ todo = [t \in Threads |-> <<>>]
  /\ pc = [t \in Threads |-> "idle"]
  /\ stamp = [t \in Threads |-> 0]
  /\ life = [p \in Processes |-> 0]
  /\ reported = [t \in Threads |-> {}] /\ attempts = {} /\ faults = 0

-----------------------------------------------------------------------------
When(found, condition) == IF found THEN <<condition>> ELSE <<>>

(* _evaluate_health_alerts: the conditions of a snapshot, in order.  The   *)
(* numbers of an unavailable source are not judged.                        *)
health_conditions(h) ==
  When(~h.redis, "redis_stream_unavailable")
    \o When(h.redis /\ h.consumers = "zero", "audit_worker_never_registered")
    \o When(h.redis /\ "pending" \in h.over, "pel_backlog_threshold_exceeded")
    \o When(h.redis /\ "age" \in h.over, "pel_entry_age_threshold_exceeded")
    \o When(h.redis /\ "stall" \in h.over, "audit_worker_stalled")
    \o When(~h.persistence, "audit_database_unavailable")
    \o When(h.persistence /\ "quarantine" \in h.over, "quarantine_count_threshold_exceeded")

(* A thread comes to code that emits alerts: an API process to a health    *)
(* check, the others to one condition of their own.                        *)
Report(t) ==
  /\ todo[t] = <<>>
  /\ \E new \in IF t[1] \in Servers THEN {health_conditions(h) : h \in Health}
                                    ELSE {<<c>> : c \in Direct} :
       todo' = [todo EXCEPT ![t] = new]
  /\ UNCHANGED <<clock, lastSent, pc, stamp, life, reported, attempts, faults>>

(* emit_security_alert up to the lock.                                     *)
Emit(t) ==
  /\ todo[t] # <<>> /\ pc[t] = "idle"
  /\ stamp' = [stamp EXCEPT ![t] = clock]
  /\ pc' = [pc EXCEPT ![t] = "stamped"]
  /\ UNCHANGED <<clock, lastSent, todo, life, reported, attempts, faults>>

(* The call a thread is in.                                                *)
Alert(t) ==
  [process |-> t[1], life |-> life[t[1]], condition |-> Head(todo[t]), now |-> stamp[t]]

\* Mutant: a time before the last one does not count as within the window.
MutantOnlyLater(last, now, c) ==
  c \notin Recoveries /\ last # Never /\ now >= last /\ now - last < Window

(* The condition that makes the call return None.                          *)
is_duplicate(last, now, c) ==
  c \notin Recoveries /\ last # Never /\ now - last < Window

\* Mutant: every call, also a suppressed one, restarts the window.
MutantSlidingWindow(t, c, duplicate) ==
  lastSent' = [lastSent EXCEPT ![t[1]][c] = stamp[t]]

(* _LAST_SENT[key] = now, before the sink is called.                       *)
SetLastSent(t, c, duplicate) ==
  IF duplicate THEN UNCHANGED lastSent
               ELSE lastSent' = [lastSent EXCEPT ![t[1]][c] = stamp[t]]

(* The block under _DEDUP_LOCK.                                            *)
Dedup(t) ==
  LET c == Head(todo[t])
      duplicate == is_duplicate(lastSent[t[1]][c], stamp[t], c)
  IN /\ pc[t] = "stamped"
     /\ SetLastSent(t, c, duplicate)
     /\ pc' = [pc EXCEPT ![t] = IF duplicate THEN "idle" ELSE "send"]
     /\ todo' = [todo EXCEPT ![t] = IF duplicate THEN Tail(@) ELSE @]
     /\ stamp' = [stamp EXCEPT ![t] = IF duplicate THEN 0 ELSE @]
     /\ reported' = [reported EXCEPT ![t] = {Alert(t)}]
     /\ UNCHANGED <<clock, life, attempts, faults>>

(* The sink; its failure is swallowed, and the alert returned all the same.*)
Send(t, sent) ==
  /\ pc[t] = "send"
  /\ IF sent THEN UNCHANGED faults ELSE faults < MaxFaults /\ faults' = faults + 1
  /\ attempts' = attempts \cup {[alert |-> Alert(t), sent |-> sent]}
  /\ pc' = [pc EXCEPT ![t] = "idle"]
  /\ todo' = [todo EXCEPT ![t] = Tail(@)]
  /\ stamp' = [stamp EXCEPT ![t] = 0]
  /\ UNCHANGED <<clock, lastSent, life, reported>>

Tick ==
  /\ clock < MaxTime /\ clock' = clock + 1
  /\ UNCHANGED <<lastSent, todo, pc, stamp, life, reported, attempts, faults>>

(* The process ends and starts again; its _LAST_SENT is gone.              *)
Restart(p) ==
  /\ faults < MaxFaults /\ faults' = faults + 1
  /\ life' = [life EXCEPT ![p] = @ + 1]
  /\ lastSent' = [lastSent EXCEPT ![p] = NothingSent]
  /\ todo' = [t \in Threads |-> IF t[1] = p THEN <<>> ELSE todo[t]]
  /\ pc' = [t \in Threads |-> IF t[1] = p THEN "idle" ELSE pc[t]]
  /\ stamp' = [t \in Threads |-> IF t[1] = p THEN 0 ELSE stamp[t]]
  /\ reported' = [t \in Threads |-> IF t[1] = p THEN {} ELSE reported[t]]
  /\ UNCHANGED <<clock, attempts>>

Next ==
  \/ Tick
  \/ \E p \in Processes : Restart(p)
  \/ \E t \in Threads :
       Report(t) \/ Emit(t) \/ Dedup(t) \/ \E sent \in BOOLEAN : Send(t, sent)

Spec == Init /\ [][Next]_vars

-----------------------------------------------------------------------------
SameKey(a, b) ==
  a.process = b.process /\ a.life = b.life /\ a.condition = b.condition

(* What has been handed to the sink, and what is on its way there.         *)
Underway == {Alert(t) : t \in {u \in Threads : pc[u] = "send"}}
Sent == {a.alert : a \in attempts}

(* "a retry loop or a burst of poison events cannot become an alert        *)
(* storm": two alerts of one condition from one process are Window apart,  *)
(* also when threads pass through the lock in another order than they read *)
(* the clock, or when one is still sending after the window.               *)
NoStorm ==
  /\ \A a, b \in Sent \cup Underway :
       SameKey(a, b) /\ a.condition \notin Recoveries /\ a.now < b.now => b.now - a.now >= Window
  /\ \A a \in Sent \cap Underway : a.condition \in Recoveries
  /\ \A t, u \in {v \in Threads : pc[v] = "send"} :
       t # u /\ Alert(t) = Alert(u) => Alert(t).condition \in Recoveries

(* Suppression never silences a condition that persists: every report has  *)
(* an alert that went to the sink, or is about to, less than Window before *)
(* it or later than it (a thread that waited for the lock with an old time *)
(* is suppressed by it); and a recovery has one of its own.  Only a        *)
(* process that dies takes its alerts with it.                             *)
EveryReportIsCovered ==
  \A r \in UNION {reported[t] : t \in Threads} :
    \E a \in Sent \cup Underway :
      SameKey(a, r) /\ IF r.condition \in Recoveries THEN a.now = r.now
                                                     ELSE a.now > r.now - Window
=============================================================================
