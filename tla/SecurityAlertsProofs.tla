------------------------ MODULE SecurityAlertsProofs ------------------------
(***************************************************************************)
(* emit_security_alert's deduplication, for any number of processes and    *)
(* threads, any window, and any number of failing sinks and restarts.      *)
(*                                                                         *)
(* The lock orders the calls of a process, not the clock: a thread may     *)
(* come to the lock with an older time than the one before it.  What makes *)
(* both promises hold is that _LAST_SENT is the latest of the alerts that  *)
(* went past the lock in this life of the process, and that one of them    *)
(* has exactly that time.                                                  *)
(***************************************************************************)
EXTENDS SecurityAlerts, SequenceTheorems, TLAPS

AlertSet == [process : Processes, life : Nat, condition : Conditions, now : Nat]

(* The threads between the lock and the end of the sink.                   *)
Senders == {t \in Threads : pc[t] = "send"}

(* The shape of the state.  A call in progress has a condition to emit.    *)
Shape ==
  /\ clock \in Nat
  /\ lastSent \in [Processes -> [Conditions -> Nat \cup {Never}]]
  /\ todo \in [Threads -> Seq(Conditions)]
  /\ pc \in [Threads -> {"idle", "stamped", "send"}]
  /\ stamp \in [Threads -> Nat]
  /\ life \in [Processes -> Nat]
  /\ reported \in [Threads -> SUBSET AlertSet]
  /\ attempts \subseteq [alert : AlertSet, sent : BOOLEAN]
  /\ \A t \in Threads : pc[t] # "idle" => todo[t] # <<>>

(* No alert is of a life that its process has yet to begin.                *)
LivesAreKnown ==
  \A a \in Sent \cup Underway : a \in AlertSet /\ a.life <= life[a.process]

(* _LAST_SENT is no earlier than any alert of this life.                   *)
LastIsLatest ==
  \A a \in Sent \cup Underway :
    a.life = life[a.process] /\ a.condition \notin Recoveries =>
      a.now <= lastSent[a.process][a.condition]

(* The time in _LAST_SENT is that of an alert of this life.                *)
LastWasSent ==
  \A p \in Processes, c \in Conditions : lastSent[p][c] # Never =>
    \E a \in Sent \cup Underway :
      a.process = p /\ a.life = life[p] /\ a.condition = c /\ a.now = lastSent[p][c]

(* A report was let through itself, or _LAST_SENT is near enough to it.    *)
ReportsAreNear ==
  \A t \in Threads : \A r \in reported[t] :
    /\ r.process = t[1] /\ r.life = life[t[1]]
    /\ IF r.condition \in Recoveries
         THEN \E a \in Sent \cup Underway : SameKey(a, r) /\ a.now = r.now
         ELSE /\ lastSent[t[1]][r.condition] # Never
              /\ lastSent[t[1]][r.condition] > r.now - Window

StormInv == Shape /\ LivesAreKnown /\ LastIsLatest /\ NoStorm
CoverInv == StormInv /\ LastWasSent /\ ReportsAreNear

-----------------------------------------------------------------------------
(* A thread runs in a process.                                             *)
LEMMA ThreadProcess == ASSUME NEW t \in Threads PROVE t[1] \in Processes
BY DEF Threads, Processes

(* What a health check emits are conditions, in a sequence.                *)
LEMMA HealthConditions ==
  ASSUME NEW h
  PROVE  health_conditions(h) \in Seq(Conditions)
<1>1. ASSUME NEW b \in BOOLEAN, NEW c \in Conditions
      PROVE  When(b, c) \in Seq(Conditions)
  BY <1>1 DEF When
<1>2. \A a, b \in Seq(Conditions) : a \o b \in Seq(Conditions)
  BY ConcatProperties
<1>3. /\ When(~h.redis, "redis_stream_unavailable") \in Seq(Conditions)
      /\ When(h.redis /\ h.consumers = "zero", "audit_worker_never_registered") \in Seq(Conditions)
      /\ When(h.redis /\ "pending" \in h.over, "pel_backlog_threshold_exceeded") \in Seq(Conditions)
      /\ When(h.redis /\ "age" \in h.over, "pel_entry_age_threshold_exceeded") \in Seq(Conditions)
      /\ When(h.redis /\ "stall" \in h.over, "audit_worker_stalled") \in Seq(Conditions)
      /\ When(~h.persistence, "audit_database_unavailable") \in Seq(Conditions)
      /\ When(h.persistence /\ "quarantine" \in h.over, "quarantine_count_threshold_exceeded")
           \in Seq(Conditions)
  BY <1>1 DEF Conditions
<1> QED  BY <1>2, <1>3 DEF health_conditions

(* The call a thread is in is an alert, whether it is sent or not.         *)
LEMMA AlertShape ==
  ASSUME Shape, NEW t \in Threads, pc[t] # "idle"
  PROVE  /\ Alert(t) \in AlertSet /\ Head(todo[t]) \in Conditions
         /\ Tail(todo[t]) \in Seq(Conditions)
         /\ Alert(t).process = t[1] /\ Alert(t).life = life[t[1]]
         /\ Alert(t).condition = Head(todo[t]) /\ Alert(t).now = stamp[t]
<1>1. todo[t] \in Seq(Conditions) /\ todo[t] # <<>>
  BY DEF Shape
<1>2. Head(todo[t]) \in Conditions /\ Tail(todo[t]) \in Seq(Conditions)
  BY <1>1, HeadTailProperties
<1>3. t[1] \in Processes /\ life[t[1]] \in Nat /\ stamp[t] \in Nat
  BY ThreadProcess DEF Shape
<1> QED  BY <1>2, <1>3 DEF Alert, AlertSet

-----------------------------------------------------------------------------
(* How each step changes the threads that send and what was sent.          *)

(* A step by which no thread passes the lock or leaves the sink.           *)
Quiet ==
  /\ attempts' = attempts /\ Senders' = Senders /\ life' = life /\ lastSent' = lastSent
  /\ \A u \in Senders : Alert(u)' = Alert(u)

(* The clock, a new report, a call up to the lock and a suppressed one.    *)
LEMMA QuietSteps ==
  ASSUME Shape, NEW t \in Threads,
         \/ Tick \/ Report(t) \/ Emit(t)
         \/ Dedup(t) /\ is_duplicate(lastSent[t[1]][Head(todo[t])], stamp[t], Head(todo[t]))
         \/ UNCHANGED vars
  PROVE  Quiet
<1>1. CASE Tick \/ UNCHANGED vars
  BY <1>1 DEF Tick, Quiet, Senders, Alert, vars
<1>2. CASE Report(t)
  <2>1. PICK new : todo' = [todo EXCEPT ![t] = new]
    BY <1>2 DEF Report
  <2>2. t \notin Senders
    BY <1>2 DEF Report, Shape, Senders
  <2>3. \A u \in Senders : todo'[u] = todo[u]
    BY <2>1, <2>2 DEF Senders, Shape
  <2>4. UNCHANGED <<attempts, pc, stamp, life, lastSent>>
    BY <1>2 DEF Report
  <2> QED  BY <2>3, <2>4 DEF Quiet, Senders, Alert
<1>3. CASE Emit(t)
  <2>1. /\ t \notin Senders /\ UNCHANGED <<attempts, todo, life, lastSent>>
        /\ stamp' = [stamp EXCEPT ![t] = clock] /\ pc' = [pc EXCEPT ![t] = "stamped"]
    BY <1>3 DEF Emit, Senders
  <2>2. Senders' = Senders /\ \A u \in Senders : stamp'[u] = stamp[u]
    BY <2>1 DEF Senders, Shape
  <2> QED  BY <2>1, <2>2 DEF Quiet, Alert
<1>4. CASE Dedup(t) /\ is_duplicate(lastSent[t[1]][Head(todo[t])], stamp[t], Head(todo[t]))
  <2>1. /\ t \notin Senders /\ UNCHANGED <<attempts, life, lastSent>>
        /\ stamp' = [stamp EXCEPT ![t] = 0] /\ pc' = [pc EXCEPT ![t] = "idle"]
        /\ todo' = [todo EXCEPT ![t] = Tail(@)]
    BY <1>4 DEF Dedup, SetLastSent, Senders
  <2>2. /\ Senders' = Senders
        /\ \A u \in Senders : stamp'[u] = stamp[u] /\ todo'[u] = todo[u]
    BY <2>1 DEF Senders, Shape
  <2> QED  BY <2>1, <2>2 DEF Quiet, Alert
<1> QED  BY <1>1, <1>2, <1>3, <1>4

(* A call that is not suppressed joins the threads that send.              *)
LEMMA FreshStep ==
  ASSUME Shape, NEW t \in Threads, Dedup(t),
         ~is_duplicate(lastSent[t[1]][Head(todo[t])], stamp[t], Head(todo[t]))
  PROVE  /\ attempts' = attempts /\ Senders' = Senders \cup {t} /\ life' = life
         /\ t \notin Senders /\ \A u \in Senders' : Alert(u)' = Alert(u)
         /\ \A p \in Processes, c \in Conditions :
              lastSent'[p][c] = IF p = t[1] /\ c = Head(todo[t]) THEN stamp[t]
                                                                 ELSE lastSent[p][c]
         /\ lastSent' \in [Processes -> [Conditions -> Nat \cup {Never}]]
<1> DEFINE c0 == Head(todo[t])
<1>1. /\ attempts' = attempts /\ life' = life /\ pc[t] = "stamped"
      /\ pc' = [pc EXCEPT ![t] = "send"]
      /\ todo' = [todo EXCEPT ![t] = @] /\ stamp' = [stamp EXCEPT ![t] = @]
      /\ lastSent' = [lastSent EXCEPT ![t[1]][c0] = stamp[t]]
  BY DEF Dedup, SetLastSent
<1>2. todo' = todo /\ stamp' = stamp
  BY <1>1 DEF Shape
<1>3. Senders' = Senders \cup {t} /\ t \notin Senders
  BY <1>1 DEF Senders, Shape
<1>4. c0 \in Conditions /\ t[1] \in Processes /\ stamp[t] \in Nat
  BY <1>1, AlertShape, ThreadProcess DEF Shape
<1> HIDE DEF c0
<1>5. lastSent' = [lastSent EXCEPT ![t[1]] = [lastSent[t[1]] EXCEPT ![c0] = stamp[t]]]
  BY <1>1
<1>6. [lastSent[t[1]] EXCEPT ![c0] = stamp[t]] \in [Conditions -> Nat \cup {Never}]
  BY <1>4 DEF Shape
<1>7. lastSent' \in [Processes -> [Conditions -> Nat \cup {Never}]]
  BY <1>4, <1>5, <1>6 DEF Shape
<1>8. \A p \in Processes, c \in Conditions :
        lastSent'[p][c] = IF p = t[1] /\ c = c0 THEN stamp[t] ELSE lastSent[p][c]
  BY <1>4, <1>5 DEF Shape
<1> QED  BY <1>1, <1>2, <1>3, <1>7, <1>8 DEF Alert, c0

(* A thread leaves the sink.                                               *)
LEMMA SendStep ==
  ASSUME Shape, NEW t \in Threads, NEW sent \in BOOLEAN, Send(t, sent)
  PROVE  /\ Sent' = Sent \cup {Alert(t)} /\ Senders' = Senders \ {t} /\ life' = life
         /\ t \in Senders /\ \A u \in Senders' : Alert(u)' = Alert(u)
         /\ lastSent' = lastSent
<1>1. /\ attempts' = attempts \cup {[alert |-> Alert(t), sent |-> sent]}
      /\ pc[t] = "send" /\ pc' = [pc EXCEPT ![t] = "idle"]
      /\ todo' = [todo EXCEPT ![t] = Tail(@)] /\ stamp' = [stamp EXCEPT ![t] = 0]
      /\ UNCHANGED <<life, lastSent>>
  BY DEF Send
<1>2. Senders' = Senders \ {t} /\ t \in Senders
  BY <1>1 DEF Senders, Shape
<1>3. \A u \in Senders' : stamp'[u] = stamp[u] /\ todo'[u] = todo[u]
  BY <1>1, <1>2 DEF Senders, Shape
<1>4. Sent' = Sent \cup {Alert(t)}
  <2> DEFINE new == [alert |-> Alert(t), sent |-> sent]
  <2>1. new.alert = Alert(t)
    OBVIOUS
  <2>2. attempts' = attempts \cup {new}
    BY <1>1
  <2> HIDE DEF new
  <2> QED  BY <2>1, <2>2 DEF Sent
<1> QED  BY <1>1, <1>2, <1>3, <1>4 DEF Alert

(* A process that restarts forgets what it was sending.                    *)
LEMMA RestartStep ==
  ASSUME Shape, NEW p \in Processes, Restart(p)
  PROVE  /\ Sent' = Sent /\ Senders' = {u \in Senders : u[1] # p}
         /\ life' = [life EXCEPT ![p] = @ + 1]
         /\ \A u \in Senders' : Alert(u)' = Alert(u)
         /\ lastSent' = [lastSent EXCEPT ![p] = NothingSent]
<1>1. /\ attempts' = attempts /\ life' = [life EXCEPT ![p] = @ + 1]
      /\ lastSent' = [lastSent EXCEPT ![p] = NothingSent]
      /\ pc' = [t \in Threads |-> IF t[1] = p THEN "idle" ELSE pc[t]]
      /\ todo' = [t \in Threads |-> IF t[1] = p THEN <<>> ELSE todo[t]]
      /\ stamp' = [t \in Threads |-> IF t[1] = p THEN 0 ELSE stamp[t]]
  BY DEF Restart
<1>2. Senders' = {u \in Senders : u[1] # p}
  BY <1>1 DEF Senders
<1>3. \A u \in Senders' : /\ stamp'[u] = stamp[u] /\ todo'[u] = todo[u]
                          /\ life'[u[1]] = life[u[1]]
  BY <1>1, <1>2, ThreadProcess DEF Senders, Shape
<1> QED  BY <1>1, <1>2, <1>3 DEF Alert, Sent

-----------------------------------------------------------------------------
(* Every step keeps the shape of the state.                                *)
LEMMA ShapeNext ==
  ASSUME Shape, [Next]_vars
  PROVE  Shape'
<1>1. CASE Tick \/ UNCHANGED vars
  BY <1>1 DEF Shape, Tick, vars
<1>2. ASSUME NEW p \in Processes, Restart(p)
      PROVE  Shape'
  <2>1. NothingSent \in [Conditions -> Nat \cup {Never}] /\ <<>> \in Seq(Conditions)
    BY DEF NothingSent
  <2>2. /\ lastSent' \in [Processes -> [Conditions -> Nat \cup {Never}]]
        /\ life' \in [Processes -> Nat]
    BY <1>2, <2>1 DEF Restart, Shape
  <2>3. /\ todo' \in [Threads -> Seq(Conditions)] /\ stamp' \in [Threads -> Nat]
        /\ pc' \in [Threads -> {"idle", "stamped", "send"}]
        /\ reported' \in [Threads -> SUBSET AlertSet]
        /\ \A t \in Threads : pc'[t] # "idle" => todo'[t] # <<>>
    BY <1>2, <2>1 DEF Restart, Shape
  <2> QED  BY <1>2, <2>2, <2>3 DEF Restart, Shape
<1>3. ASSUME NEW t \in Threads, Report(t)
      PROVE  Shape'
  <2>1. PICK new \in Seq(Conditions) : todo' = [todo EXCEPT ![t] = new]
    <3>1. \A c \in Direct : <<c>> \in Seq(Conditions)
      BY AlertConstantsAssumption
    <3> QED  BY <1>3, <3>1, HealthConditions DEF Report
  <2>2. /\ UNCHANGED <<clock, lastSent, pc, stamp, life, reported, attempts>>
        /\ todo[t] = <<>>
    BY <1>3 DEF Report
  <2>3. /\ todo' \in [Threads -> Seq(Conditions)]
        /\ \A u \in Threads : pc[u] # "idle" => todo'[u] # <<>>
    BY <2>1, <2>2 DEF Shape
  <2> QED  BY <2>2, <2>3 DEF Shape
<1>4. ASSUME NEW t \in Threads, Emit(t)
      PROVE  Shape'
  BY <1>4 DEF Emit, Shape
<1>5. ASSUME NEW t \in Threads, Dedup(t)
      PROVE  Shape'
  <2> DEFINE d == is_duplicate(lastSent[t[1]][Head(todo[t])], stamp[t], Head(todo[t]))
  <2>1. /\ UNCHANGED <<clock, life, attempts>> /\ pc[t] = "stamped"
        /\ pc' = [pc EXCEPT ![t] = IF d THEN "idle" ELSE "send"]
        /\ todo' = [todo EXCEPT ![t] = IF d THEN Tail(todo[t]) ELSE todo[t]]
        /\ stamp' = [stamp EXCEPT ![t] = IF d THEN 0 ELSE stamp[t]]
        /\ reported' = [reported EXCEPT ![t] = {Alert(t)}]
    BY <1>5 DEF Dedup
  <2>2. Alert(t) \in AlertSet /\ Tail(todo[t]) \in Seq(Conditions)
    BY <2>1, AlertShape
  <2>3. lastSent' \in [Processes -> [Conditions -> Nat \cup {Never}]]
    <3>1. CASE d
      BY <1>5, <3>1 DEF Dedup, SetLastSent, Shape
    <3>2. CASE ~d
      BY <1>5, <3>2, FreshStep
    <3> QED  BY <3>1, <3>2
  <2> HIDE DEF d
  <2>4. reported' \in [Threads -> SUBSET AlertSet]
    BY <2>1, <2>2 DEF Shape
  <2>5. /\ todo' \in [Threads -> Seq(Conditions)] /\ stamp' \in [Threads -> Nat]
        /\ pc' \in [Threads -> {"idle", "stamped", "send"}]
        /\ \A u \in Threads : pc'[u] # "idle" => todo'[u] # <<>>
    <3>1. CASE d
      BY <2>1, <2>2, <3>1 DEF Shape
    <3>2. CASE ~d
      BY <2>1, <2>2, <3>2 DEF Shape
    <3> QED  BY <3>1, <3>2
  <2> QED  BY <2>1, <2>3, <2>4, <2>5 DEF Shape
<1>6. ASSUME NEW t \in Threads, NEW sent \in BOOLEAN, Send(t, sent)
      PROVE  Shape'
  <2>1. pc[t] = "send"
    BY <1>6 DEF Send
  <2>2. Alert(t) \in AlertSet /\ Tail(todo[t]) \in Seq(Conditions)
    BY <2>1, AlertShape
  <2>3. attempts' \subseteq [alert : AlertSet, sent : BOOLEAN]
    BY <1>6, <2>2 DEF Send, Shape
  <2>4. /\ todo' \in [Threads -> Seq(Conditions)] /\ stamp' \in [Threads -> Nat]
        /\ pc' \in [Threads -> {"idle", "stamped", "send"}]
        /\ \A u \in Threads : pc'[u] # "idle" => todo'[u] # <<>>
    BY <1>6, <2>2 DEF Send, Shape
  <2> QED  BY <1>6, <2>3, <2>4 DEF Send, Shape
<1> QED  BY <1>1, <1>2, <1>3, <1>4, <1>5, <1>6 DEF Next

-----------------------------------------------------------------------------
(* Everything that went past the lock and is not forgotten.                *)
Passed == Sent \cup Underway

(* What passed the lock before a step is there after it, but for the       *)
(* unsent alerts of a process that restarts.                               *)
LEMMA QuietPassed ==
  ASSUME Quiet
  PROVE  Sent' = Sent /\ Underway' = Underway /\ Passed' = Passed
<1>1. Underway = {Alert(u) : u \in Senders} /\ Underway' = {Alert(u)' : u \in Senders'}
  BY DEF Underway, Senders
<1>2. Underway' = Underway
  BY <1>1 DEF Quiet
<1> QED  BY <1>2 DEF Quiet, Sent, Passed

(* A call that is not suppressed adds its own alert.                       *)
LEMMA FreshPassed ==
  ASSUME Shape, NEW t \in Threads, Dedup(t),
         ~is_duplicate(lastSent[t[1]][Head(todo[t])], stamp[t], Head(todo[t]))
  PROVE  /\ Sent' = Sent /\ Underway' = Underway \cup {Alert(t)}
         /\ Passed' = Passed \cup {Alert(t)}
<1>1. Underway = {Alert(u) : u \in Senders} /\ Underway' = {Alert(u)' : u \in Senders'}
  BY DEF Underway, Senders
<1>2. Underway' = Underway \cup {Alert(t)}
  BY <1>1, FreshStep
<1> QED  BY <1>2, FreshStep DEF Sent, Passed

(* A thread that leaves the sink moves its alert.                          *)
LEMMA SendPassed ==
  ASSUME Shape, NEW t \in Threads, NEW sent \in BOOLEAN, Send(t, sent)
  PROVE  /\ Sent' = Sent \cup {Alert(t)} /\ Alert(t) \in Underway
         /\ Underway' = {Alert(u) : u \in Senders \ {t}} /\ Passed' = Passed
<1>1. Underway = {Alert(u) : u \in Senders} /\ Underway' = {Alert(u)' : u \in Senders'}
  BY DEF Underway, Senders
<1>2. /\ Underway' = {Alert(u) : u \in Senders \ {t}} /\ Alert(t) \in Underway
      /\ Underway = {Alert(u) : u \in Senders \ {t}} \cup {Alert(t)}
  BY <1>1, SendStep
<1> QED  BY <1>2, SendStep DEF Passed

(* A restart loses only alerts of the process that restarts.               *)
LEMMA RestartPassed ==
  ASSUME Shape, NEW p \in Processes, Restart(p)
  PROVE  /\ Sent' = Sent /\ Underway' \subseteq Underway /\ Passed' \subseteq Passed
         /\ \A a \in Underway' : a.process # p
         /\ \A a \in Passed : a.process # p => a \in Passed'
<1>1. Underway = {Alert(u) : u \in Senders} /\ Underway' = {Alert(u)' : u \in Senders'}
  BY DEF Underway, Senders
<1>2. Senders' = {u \in Senders : u[1] # p} /\ \A u \in Senders' : Alert(u)' = Alert(u)
  BY RestartStep
<1>3. \A u \in Senders : Alert(u).process = u[1]
  BY AlertShape DEF Senders
<1>4. Underway' = {Alert(u) : u \in {v \in Senders : v[1] # p}}
  BY <1>1, <1>2
<1>5. /\ Underway' \subseteq Underway /\ \A a \in Underway' : a.process # p
      /\ \A a \in Underway : a.process # p => a \in Underway'
  BY <1>1, <1>3, <1>4
<1> QED  BY <1>5, RestartStep DEF Passed

-----------------------------------------------------------------------------
(* The alert of a call that is not suppressed is Window after every other  *)
(* of its key.                                                             *)
LEMMA FreshIsLater ==
  ASSUME StormInv, NEW t \in Threads, pc[t] = "stamped",
         ~is_duplicate(lastSent[t[1]][Head(todo[t])], stamp[t], Head(todo[t])),
         NEW a \in Passed, SameKey(a, Alert(t)), a.condition \notin Recoveries
  PROVE  /\ a \in AlertSet /\ a.now \in Nat /\ Alert(t).now \in Nat
         /\ Alert(t).now - a.now >= Window
<1>1. /\ Alert(t) \in AlertSet /\ Alert(t).process = t[1] /\ Alert(t).life = life[t[1]]
      /\ Alert(t).condition = Head(todo[t]) /\ Alert(t).now = stamp[t]
      /\ Head(todo[t]) \in Conditions /\ t[1] \in Processes
  BY AlertShape, ThreadProcess DEF StormInv
<1>2. /\ a \in AlertSet /\ a.process = t[1] /\ a.life = life[t[1]]
      /\ a.condition = Head(todo[t])
  BY <1>1 DEF SameKey, StormInv, LivesAreKnown, Passed
<1>3. a.now <= lastSent[t[1]][Head(todo[t])]
  BY <1>2 DEF StormInv, LastIsLatest, Passed
<1>4. a.now \in Nat /\ stamp[t] \in Nat /\ Window \in Nat
  BY <1>2, AlertConstantsAssumption DEF AlertSet, StormInv, Shape
<1>5. lastSent[t[1]][Head(todo[t])] \in Nat \cup {Never}
  BY <1>1 DEF StormInv, Shape
<1>6. ~(stamp[t] - lastSent[t[1]][Head(todo[t])] < Window)
  BY <1>2, <1>3, <1>4, <1>5 DEF is_duplicate, Never
<1> QED  BY <1>1, <1>2, <1>3, <1>4, <1>5, <1>6 DEF Never

-----------------------------------------------------------------------------
(* Two alerts of one key are Window apart, unless they are recoveries.     *)
Apart(S) ==
  \A a, b \in S : SameKey(a, b) /\ a.condition \notin Recoveries /\ a.now < b.now =>
                    b.now - a.now >= Window

(* The invariants, spelled with the names used here.                       *)
LEMMA StormParts ==
  /\ NoStorm <=> /\ Apart(Passed)
                 /\ \A a \in Sent \cap Underway : a.condition \in Recoveries
                 /\ \A t, u \in Senders :
                      t # u /\ Alert(t) = Alert(u) => Alert(t).condition \in Recoveries
  /\ LivesAreKnown <=> \A a \in Passed : a \in AlertSet /\ a.life <= life[a.process]
  /\ LastIsLatest <=> \A a \in Passed :
       a.life = life[a.process] /\ a.condition \notin Recoveries =>
         a.now <= lastSent[a.process][a.condition]
BY DEF NoStorm, Apart, Passed, Senders, LivesAreKnown, LastIsLatest

(* A call that passes the lock.                                            *)
LEMMA StormFresh ==
  ASSUME StormInv, NEW t \in Threads, Dedup(t), Shape',
         ~is_duplicate(lastSent[t[1]][Head(todo[t])], stamp[t], Head(todo[t]))
  PROVE  StormInv'
<1> DEFINE new == Alert(t)
<1>0. Shape /\ pc[t] = "stamped" /\ LivesAreKnown /\ LastIsLatest /\ NoStorm
  BY DEF StormInv, Dedup
<1>1. /\ new \in AlertSet /\ new.process = t[1] /\ new.life = life[t[1]]
      /\ new.condition = Head(todo[t]) /\ new.now = stamp[t]
      /\ Head(todo[t]) \in Conditions /\ t[1] \in Processes
  BY <1>0, AlertShape, ThreadProcess
<1>2. /\ Sent' = Sent /\ Underway' = Underway \cup {new} /\ Passed' = Passed \cup {new}
  BY <1>0, FreshPassed
<1>3. /\ Senders' = Senders \cup {t} /\ life' = life /\ t \notin Senders
      /\ \A u \in Senders' : Alert(u)' = Alert(u)
      /\ \A p \in Processes, c \in Conditions :
           lastSent'[p][c] = IF p = t[1] /\ c = Head(todo[t]) THEN stamp[t] ELSE lastSent[p][c]
  BY <1>0, FreshStep
<1>4. ASSUME NEW a \in Passed, SameKey(a, new), a.condition \notin Recoveries
      PROVE  a.now \in Nat /\ new.now \in Nat /\ new.now - a.now >= Window
  BY <1>0, <1>4, FreshIsLater
<1>5. Window \in Nat \ {0}
  BY AlertConstantsAssumption
<1>6. \A a, b : SameKey(a, b) => SameKey(b, a) /\ a.condition = b.condition
  BY DEF SameKey
<1> HIDE DEF new
<1>7. LivesAreKnown'
  <2>1. \A a \in Passed' : a \in AlertSet /\ a.life <= life'[a.process]
    <3>1. life[t[1]] \in Nat
      BY <1>0, <1>1 DEF Shape
    <3> QED  BY <1>0, <1>1, <1>2, <1>3, <3>1, StormParts
  <2> QED  BY <2>1 DEF LivesAreKnown, Passed
<1>8. LastIsLatest'
  <2>1. ASSUME NEW a \in Passed', a.life = life[a.process], a.condition \notin Recoveries
        PROVE  a.now <= lastSent'[a.process][a.condition]
    <3>1. a \in AlertSet
      BY <1>0, <1>1, <1>2, StormParts
    <3>2. /\ a.process \in Processes /\ a.condition \in Conditions /\ a.now \in Nat
          /\ stamp[t] \in Nat
      BY <3>1, <1>0 DEF AlertSet, Shape
    <3>3. CASE a = new
      BY <3>3, <3>2, <1>1, <1>3
    <3>4. CASE a # new /\ a.process = t[1] /\ a.condition = Head(todo[t])
      <4>1. a \in Passed /\ SameKey(a, new)
        BY <2>1, <3>4, <1>1, <1>2 DEF SameKey
      <4>2. new.now - a.now >= Window /\ new.now \in Nat
        BY <4>1, <2>1, <1>4
      <4>3. lastSent'[a.process][a.condition] = new.now
        BY <3>4, <3>2, <1>1, <1>3
      <4> QED  BY <4>2, <4>3, <3>2, <1>5
    <3>5. CASE a # new /\ ~(a.process = t[1] /\ a.condition = Head(todo[t]))
      <4>1. lastSent'[a.process][a.condition] = lastSent[a.process][a.condition]
        BY <3>5, <3>2, <1>3
      <4> QED  BY <4>1, <3>5, <2>1, <1>0, <1>2, StormParts
    <3> QED  BY <3>3, <3>4, <3>5
  <2> QED  BY <2>1, <1>3 DEF LastIsLatest, Passed
<1>9. NoStorm'
  <2>1. Apart(Passed')
    <3>1. SUFFICES ASSUME NEW a \in Passed', NEW b \in Passed', SameKey(a, b),
                          a.condition \notin Recoveries, a.now < b.now
                   PROVE  b.now - a.now >= Window
      BY DEF Apart
    <3>2. CASE a \in Passed /\ b \in Passed
      BY <3>1, <3>2, <1>0, StormParts DEF Apart
    <3>3. CASE a \in Passed /\ b = new
      BY <3>1, <3>3, <1>4
    <3>4. CASE b \in Passed /\ a = new
      <4>1. b.now \in Nat /\ new.now \in Nat /\ new.now - b.now >= Window
        BY <3>1, <3>4, <1>4, <1>6
      <4> QED  BY <4>1, <3>1, <3>4, <1>5
    <3>5. CASE a = new /\ b = new
      BY <3>1, <3>5, <1>1, <1>0 DEF Shape
    <3> QED  BY <3>2, <3>3, <3>4, <3>5, <1>2
  <2>2. \A a \in Passed : a = new => a.condition \in Recoveries
    BY <1>4, <1>5 DEF SameKey
  <2>3. \A a \in Sent' \cap Underway' : a.condition \in Recoveries
    BY <2>2, <1>2, <1>0, StormParts DEF Passed
  <2>4. \A u \in Senders : Alert(u) \in Passed
    BY DEF Passed, Underway, Senders
  <2>5. ASSUME NEW u \in Senders', NEW v \in Senders', u # v, Alert(u) = Alert(v)
        PROVE  Alert(u).condition \in Recoveries
    <3>1. CASE u = t \/ v = t
      BY <3>1, <2>5, <2>2, <2>4, <1>3 DEF new
    <3>2. CASE u \in Senders /\ v \in Senders
      BY <3>2, <2>5, <1>0, StormParts
    <3> QED  BY <3>1, <3>2, <1>3
  <2>6. \A u, v \in Senders' :
          u # v /\ Alert(u)' = Alert(v)' => Alert(u)'.condition \in Recoveries
    BY <2>5, <1>3
  <2> QED  BY <2>1, <2>3, <2>6 DEF NoStorm, Apart, Passed, Senders, SameKey
<1> QED  BY <1>7, <1>8, <1>9 DEF StormInv

(* Every step keeps the alerts apart.                                      *)
LEMMA StormNext ==
  ASSUME StormInv, [Next]_vars
  PROVE  StormInv'
<1>0. Shape /\ Shape' /\ LivesAreKnown /\ LastIsLatest /\ NoStorm
  BY ShapeNext DEF StormInv
<1>1. ASSUME Quiet
      PROVE  StormInv'
  <2>1. /\ Passed' = Passed /\ Sent' = Sent /\ Underway' = Underway /\ life' = life
        /\ lastSent' = lastSent /\ Senders' = Senders
        /\ \A u \in Senders : Alert(u)' = Alert(u)
    BY <1>1, QuietPassed DEF Quiet
  <2>2. LivesAreKnown' /\ LastIsLatest'
    BY <2>1, <1>0 DEF LivesAreKnown, LastIsLatest
  <2>3. \A u, v \in Senders' :
          u # v /\ Alert(u)' = Alert(v)' => Alert(u)'.condition \in Recoveries
    BY <2>1, <1>0, StormParts
  <2>4. NoStorm'
    BY <2>1, <2>3, <1>0 DEF NoStorm, Senders, SameKey
  <2> QED  BY <2>2, <2>4, <1>0 DEF StormInv
<1>2. ASSUME NEW t \in Threads, NEW sent \in BOOLEAN, Send(t, sent)
      PROVE  StormInv'
  <2>1. /\ Passed' = Passed /\ Sent' = Sent \cup {Alert(t)}
        /\ Underway' = {Alert(u) : u \in Senders \ {t}} /\ Alert(t) \in Underway
    BY <1>0, <1>2, SendPassed
  <2>2. /\ life' = life /\ lastSent' = lastSent /\ Senders' = Senders \ {t} /\ t \in Senders
        /\ \A u \in Senders' : Alert(u)' = Alert(u)
    BY <1>0, <1>2, SendStep
  <2>3. LivesAreKnown' /\ LastIsLatest'
    BY <2>1, <2>2, <1>0 DEF LivesAreKnown, LastIsLatest, Passed
  <2>4. Underway' \subseteq Underway
    BY <2>1 DEF Underway, Senders
  <2>5. \A a \in Sent' \cap Underway' : a.condition \in Recoveries
    <3>1. ASSUME NEW a \in Underway', a = Alert(t)
          PROVE  a.condition \in Recoveries
      <4>1. PICK u \in Senders \ {t} : a = Alert(u)
        BY <3>1, <2>1
      <4> QED  BY <4>1, <3>1, <2>2, <1>0, StormParts
    <3> QED  BY <3>1, <2>1, <2>4, <1>0, StormParts
  <2>6. \A u, v \in Senders' :
          u # v /\ Alert(u)' = Alert(v)' => Alert(u)'.condition \in Recoveries
    BY <2>2, <1>0, StormParts
  <2>7. Apart(Passed')
    BY <2>1, <1>0, StormParts
  <2>8. NoStorm'
    BY <2>5, <2>6, <2>7 DEF NoStorm, Apart, Passed, Senders, SameKey
  <2> QED  BY <2>3, <2>8, <1>0 DEF StormInv
<1>3. ASSUME NEW p \in Processes, Restart(p)
      PROVE  StormInv'
  <2>1. /\ Passed' \subseteq Passed /\ Sent' = Sent /\ Underway' \subseteq Underway
        /\ \A a \in Underway' : a.process # p
    BY <1>0, <1>3, RestartPassed
  <2>2. /\ life' = [life EXCEPT ![p] = @ + 1] /\ Senders' \subseteq Senders
        /\ lastSent' = [lastSent EXCEPT ![p] = NothingSent]
        /\ \A u \in Senders' : Alert(u)' = Alert(u)
    BY <1>0, <1>3, RestartStep
  <2>3. ASSUME NEW a \in Passed'
        PROVE  /\ a \in AlertSet /\ a.life <= life'[a.process]
               /\ a.life = life'[a.process] /\ a.condition \notin Recoveries =>
                    a.now <= lastSent'[a.process][a.condition]
    <3>1. /\ a \in AlertSet /\ a.life <= life[a.process] /\ a \in Passed
      BY <2>1, <1>0, StormParts
    <3>2. a.process \in Processes /\ a.life \in Nat /\ life[a.process] \in Nat
      BY <3>1, <1>0 DEF AlertSet, Shape
    <3>3. CASE a.process = p
      <4>1. life'[p] = life[p] + 1
        BY <2>2, <1>0 DEF Shape
      <4> QED  BY <4>1, <3>1, <3>2, <3>3
    <3>4. CASE a.process # p
      <4>1. life'[a.process] = life[a.process] /\ lastSent'[a.process] = lastSent[a.process]
        BY <2>2, <3>2, <3>4, <1>0 DEF Shape
      <4> QED  BY <4>1, <3>1, <1>0, StormParts
    <3> QED  BY <3>3, <3>4
  <2>4. LivesAreKnown' /\ LastIsLatest'
    BY <2>3 DEF LivesAreKnown, LastIsLatest, Passed
  <2>5. \A a \in Sent' \cap Underway' : a.condition \in Recoveries
    BY <2>1, <1>0, StormParts
  <2>6. \A u, v \in Senders' :
          u # v /\ Alert(u)' = Alert(v)' => Alert(u)'.condition \in Recoveries
    BY <2>2, <1>0, StormParts
  <2>7. Apart(Passed')
    BY <2>1, <1>0, StormParts DEF Apart
  <2>8. NoStorm'
    BY <2>5, <2>6, <2>7 DEF NoStorm, Apart, Passed, Senders, SameKey
  <2> QED  BY <2>4, <2>8, <1>0 DEF StormInv
<1>4. ASSUME NEW t \in Threads, Dedup(t)
      PROVE  StormInv'
  BY <1>0, <1>1, <1>4, StormFresh, QuietSteps
<1>5. CASE Tick \/ UNCHANGED vars
  BY <1>5, <1>1 DEF Tick, Quiet, Senders, Alert, vars
<1>6. ASSUME NEW t \in Threads, Report(t) \/ Emit(t)
      PROVE  StormInv'
  BY <1>0, <1>1, <1>6, QuietSteps
<1> QED  BY <1>2, <1>3, <1>4, <1>5, <1>6 DEF Next

-----------------------------------------------------------------------------
(* What a step leaves of the cover that a report has: nothing that passed  *)
(* the lock is forgotten, no _LAST_SENT goes back, and no life ends.       *)
Keeps ==
  /\ Passed \subseteq Passed' /\ life' = life
  /\ \A p \in Processes, c \in Conditions \ Recoveries : lastSent[p][c] <= lastSent'[p][c]

(* Every step but a restart keeps it.                                      *)
LEMMA StepKeeps ==
  ASSUME StormInv, NEW t \in Threads, NEW sent \in BOOLEAN,
         Tick \/ Report(t) \/ Emit(t) \/ Dedup(t) \/ Send(t, sent) \/ UNCHANGED vars
  PROVE  Keeps
<1>0. Shape
  BY DEF StormInv
<1>1. \A p \in Processes, c \in Conditions : lastSent[p][c] \in Nat \cup {Never}
  BY <1>0 DEF Shape
<1>2. ASSUME lastSent' = lastSent
      PROVE  \A p \in Processes, c \in Conditions \ Recoveries :
               lastSent[p][c] <= lastSent'[p][c]
  BY <1>1, <1>2 DEF Never
<1>3. ASSUME Quiet PROVE Keeps
  BY <1>2, <1>3, QuietPassed DEF Keeps, Quiet
<1>4. CASE Send(t, sent)
  BY <1>0, <1>2, <1>4, SendPassed, SendStep DEF Keeps
<1>5. CASE /\ Dedup(t)
           /\ ~is_duplicate(lastSent[t[1]][Head(todo[t])], stamp[t], Head(todo[t]))
  <2>1. /\ life' = life
        /\ \A p \in Processes, c \in Conditions :
             lastSent'[p][c] = IF p = t[1] /\ c = Head(todo[t]) THEN stamp[t]
                                                                ELSE lastSent[p][c]
    BY <1>0, <1>5, FreshStep
  <2>2. stamp[t] \in Nat /\ Window \in Nat
    BY <1>0, AlertConstantsAssumption DEF Shape
  <2>3. ASSUME NEW p \in Processes, NEW c \in Conditions \ Recoveries
        PROVE  lastSent[p][c] <= lastSent'[p][c]
    <3>1. CASE p = t[1] /\ c = Head(todo[t])
      <4>1. lastSent[p][c] = Never \/ stamp[t] - lastSent[p][c] >= Window
        BY <1>1, <1>5, <2>2, <3>1 DEF is_duplicate, Never
      <4> QED  BY <1>1, <2>1, <2>2, <3>1, <4>1 DEF Never
    <3>2. CASE ~(p = t[1] /\ c = Head(todo[t]))
      BY <1>1, <2>1, <3>2 DEF Never
    <3> QED  BY <3>1, <3>2
  <2>4. Passed \subseteq Passed'
    BY <1>0, <1>5, FreshPassed
  <2> QED  BY <2>1, <2>3, <2>4 DEF Keeps
<1>6. CASE /\ Dedup(t)
           /\ is_duplicate(lastSent[t[1]][Head(todo[t])], stamp[t], Head(todo[t]))
  BY <1>0, <1>3, <1>6, QuietSteps
<1>7. CASE Tick \/ Report(t) \/ Emit(t) \/ UNCHANGED vars
  BY <1>0, <1>3, <1>7, QuietSteps
<1> QED  BY <1>4, <1>5, <1>6, <1>7

(* The cover of a report, in terms of one process.                         *)
Covered(r, p) ==
  /\ r.process = p /\ r.life = life[p]
  /\ IF r.condition \in Recoveries
       THEN \E a \in Passed : SameKey(a, r) /\ a.now = r.now
       ELSE /\ lastSent[p][r.condition] # Never
            /\ lastSent[p][r.condition] > r.now - Window

(* The two parts of the invariant in these words.                          *)
LEMMA CoverParts ==
  /\ ReportsAreNear <=> \A t \in Threads : \A r \in reported[t] : Covered(r, t[1])
  /\ LastWasSent <=> \A p \in Processes, c \in Conditions : lastSent[p][c] # Never =>
       \E a \in Passed :
         a.process = p /\ a.life = life[p] /\ a.condition = c /\ a.now = lastSent[p][c]
BY DEF ReportsAreNear, LastWasSent, Covered, Passed

(* A step that keeps what covers a report leaves the report covered.       *)
LEMMA CoverStays ==
  ASSUME Shape, Shape', Keeps, NEW p \in Processes, NEW r \in AlertSet, Covered(r, p)
  PROVE  Covered(r, p)'
<1>1. r.condition \in Conditions /\ r.now \in Nat /\ Window \in Nat
  BY AlertConstantsAssumption DEF AlertSet
<1>2. CASE r.condition \in Recoveries
  BY <1>2 DEF Covered, Keeps, SameKey
<1>3. CASE r.condition \notin Recoveries
  <2>1. /\ lastSent[p][r.condition] \in Nat \cup {Never}
        /\ lastSent'[p][r.condition] \in Nat \cup {Never}
        /\ lastSent[p][r.condition] <= lastSent'[p][r.condition]
    BY <1>1, <1>3 DEF Shape, Keeps
  <2>2. /\ lastSent'[p][r.condition] # Never
        /\ lastSent'[p][r.condition] > r.now - Window
    BY <1>1, <1>3, <2>1 DEF Covered, Never
  <2> QED  BY <1>3, <2>2 DEF Covered, Keeps
<1> QED  BY <1>2, <1>3

(* The call that a thread decides is covered at once: by its own alert, or *)
(* by the one that suppresses it.                                          *)
LEMMA DecidedIsCovered ==
  ASSUME StormInv, NEW t \in Threads, Dedup(t), NEW r, r = Alert(t)
  PROVE  r \in AlertSet /\ Covered(r, t[1])'
<1>0. Shape /\ pc[t] = "stamped" /\ life' = life
  BY DEF StormInv, Dedup
<1>1. /\ r \in AlertSet /\ r.process = t[1] /\ r.life = life[t[1]]
      /\ r.condition = Head(todo[t]) /\ r.now = stamp[t]
      /\ Head(todo[t]) \in Conditions /\ t[1] \in Processes
  BY <1>0, AlertShape, ThreadProcess
<1>2. r.now \in Nat /\ Window \in Nat \ {0}
  BY <1>1, AlertConstantsAssumption DEF AlertSet
<1>3. CASE is_duplicate(lastSent[t[1]][Head(todo[t])], stamp[t], Head(todo[t]))
  <2>1. lastSent' = lastSent
    BY <1>3 DEF Dedup, SetLastSent
  <2>2. lastSent[t[1]][r.condition] \in Nat \cup {Never}
    BY <1>0, <1>1 DEF Shape
  <2>3. /\ r.condition \notin Recoveries /\ lastSent[t[1]][r.condition] # Never
        /\ lastSent[t[1]][r.condition] > r.now - Window
    BY <1>1, <1>2, <1>3, <2>2 DEF is_duplicate, Never
  <2> QED  BY <1>0, <1>1, <2>1, <2>3 DEF Covered
<1>4. CASE ~is_duplicate(lastSent[t[1]][Head(todo[t])], stamp[t], Head(todo[t]))
  <2>1. r \in Passed'
    BY <1>0, <1>4, FreshPassed
  <2>2. lastSent'[t[1]][r.condition] = stamp[t]
    BY <1>0, <1>1, <1>4, FreshStep
  <2>3. SameKey(r, r)
    BY DEF SameKey
  <2>4. /\ lastSent'[t[1]][r.condition] # Never
        /\ lastSent'[t[1]][r.condition] > r.now - Window
    BY <1>1, <1>2, <2>2 DEF Never
  <2> QED  BY <1>0, <1>1, <2>1, <2>3, <2>4 DEF Covered, SameKey
<1> QED  BY <1>1, <1>3, <1>4

(* Every step keeps the reports covered.                                   *)
LEMMA CoverNext ==
  ASSUME CoverInv, [Next]_vars
  PROVE  CoverInv'
<1>0. StormInv /\ StormInv' /\ Shape /\ Shape' /\ LastWasSent /\ ReportsAreNear
  BY StormNext DEF CoverInv, StormInv
<1>1. ASSUME NEW t \in Threads, NEW r \in reported[t]
      PROVE  r \in AlertSet /\ Covered(r, t[1]) /\ t[1] \in Processes
  BY <1>0, CoverParts, ThreadProcess DEF Shape
<1>2. ASSUME Keeps, reported' = reported
      PROVE  ReportsAreNear'
  <2>1. ASSUME NEW t \in Threads, NEW r \in reported[t]
        PROVE  Covered(r, t[1])'
    BY <1>0, <1>1, <1>2, CoverStays
  <2> QED  BY <1>2, <2>1 DEF ReportsAreNear, Covered, Passed
<1>3. ASSUME Passed' = Passed, lastSent' = lastSent, life' = life
      PROVE  LastWasSent'
  BY <1>0, <1>3 DEF LastWasSent, Passed
<1>4. ASSUME NEW t \in Threads, NEW sent \in BOOLEAN, Send(t, sent)
      PROVE  CoverInv'
  <2>1. LastWasSent'
    BY <1>0, <1>3, <1>4, SendPassed, SendStep
  <2>2. reported' = reported
    BY <1>4 DEF Send
  <2>3. Keeps
    BY <1>0, <1>4, StepKeeps
  <2> QED  BY <1>0, <1>2, <2>1, <2>2, <2>3 DEF CoverInv
<1>5. ASSUME NEW t \in Threads, Dedup(t)
      PROVE  CoverInv'
  <2>1. Keeps
    BY <1>0, <1>5, StepKeeps
  <2>2. reported' = [reported EXCEPT ![t] = {Alert(t)}]
    BY <1>5 DEF Dedup
  <2>3. PICK new : new = Alert(t)
    OBVIOUS
  <2>4. ASSUME NEW u \in Threads, NEW r \in reported'[u]
        PROVE  Covered(r, u[1])'
    <3>1. CASE u = t
      <4>1. r = new
        BY <2>2, <2>3, <3>1, <1>0 DEF Shape
      <4> QED  BY <1>0, <1>5, <2>3, <3>1, <4>1, DecidedIsCovered
    <3>2. CASE u # t
      <4>1. r \in reported[u]
        BY <2>2, <3>2, <1>0 DEF Shape
      <4> QED  BY <1>0, <1>1, <2>1, <4>1, CoverStays
    <3> QED  BY <3>1, <3>2
  <2>5. ReportsAreNear'
    BY <2>4 DEF ReportsAreNear, Covered, Passed
  <2>6. LastWasSent'
    <3>1. CASE is_duplicate(lastSent[t[1]][Head(todo[t])], stamp[t], Head(todo[t]))
      BY <1>0, <1>3, <1>5, <3>1, QuietSteps, QuietPassed DEF Quiet
    <3>2. CASE ~is_duplicate(lastSent[t[1]][Head(todo[t])], stamp[t], Head(todo[t]))
      <4>1. /\ Passed' = Passed \cup {new}
        BY <1>0, <1>5, <2>3, <3>2, FreshPassed
      <4>2. /\ life' = life
            /\ \A p \in Processes, c \in Conditions :
                 lastSent'[p][c] = IF p = t[1] /\ c = Head(todo[t]) THEN stamp[t]
                                                                    ELSE lastSent[p][c]
        BY <1>0, <1>5, <3>2, FreshStep
      <4>3. /\ new.process = t[1] /\ new.life = life[t[1]]
            /\ new.condition = Head(todo[t]) /\ new.now = stamp[t]
        BY <1>0, <1>5, <2>3, AlertShape DEF Dedup
      <4>4. ASSUME NEW p \in Processes, NEW c \in Conditions, lastSent'[p][c] # Never
            PROVE  \E a \in Passed' : /\ a.process = p /\ a.life = life'[p]
                                      /\ a.condition = c /\ a.now = lastSent'[p][c]
        <5>1. CASE p = t[1] /\ c = Head(todo[t])
          BY <4>1, <4>2, <4>3, <5>1
        <5>2. CASE ~(p = t[1] /\ c = Head(todo[t]))
          BY <4>1, <4>2, <4>4, <5>2, <1>0, CoverParts
        <5> QED  BY <5>1, <5>2
      <4> QED  BY <4>4 DEF LastWasSent, Passed
    <3> QED  BY <3>1, <3>2
  <2> QED  BY <1>0, <2>5, <2>6 DEF CoverInv
<1>6. ASSUME NEW p \in Processes, Restart(p)
      PROVE  CoverInv'
  <2>1. /\ \A a \in Passed : a.process # p => a \in Passed'
    BY <1>0, <1>6, RestartPassed
  <2>2. /\ life' = [life EXCEPT ![p] = @ + 1]
        /\ lastSent' = [lastSent EXCEPT ![p] = NothingSent]
    BY <1>0, <1>6, RestartStep
  <2>3. /\ \A q \in Processes : q # p => life'[q] = life[q] /\ lastSent'[q] = lastSent[q]
        /\ \A c \in Conditions : lastSent'[p][c] = Never
    BY <2>2, <1>0 DEF Shape, NothingSent
  <2>4. \A t \in Threads : reported'[t] = IF t[1] = p THEN {} ELSE reported[t]
    BY <1>6 DEF Restart
  <2>5. LastWasSent'
    <3>1. ASSUME NEW q \in Processes, NEW c \in Conditions, lastSent'[q][c] # Never
          PROVE  \E a \in Passed' : /\ a.process = q /\ a.life = life'[q]
                                    /\ a.condition = c /\ a.now = lastSent'[q][c]
      <4>1. q # p /\ life'[q] = life[q] /\ lastSent'[q] = lastSent[q]
        BY <2>3, <3>1
      <4>2. PICK a \in Passed : /\ a.process = q /\ a.life = life[q]
                                /\ a.condition = c /\ a.now = lastSent[q][c]
        BY <3>1, <4>1, <1>0, CoverParts
      <4> QED  BY <2>1, <4>1, <4>2
    <3> QED  BY <3>1 DEF LastWasSent, Passed
  <2>6. ReportsAreNear'
    <3>1. ASSUME NEW t \in Threads, NEW r \in reported'[t]
          PROVE  Covered(r, t[1])'
      <4>1. t[1] # p /\ r \in reported[t]
        BY <2>4, <3>1
      <4>2. /\ Covered(r, t[1]) /\ t[1] \in Processes
            /\ life'[t[1]] = life[t[1]] /\ lastSent'[t[1]] = lastSent[t[1]]
        BY <4>1, <1>1, <2>3
      <4>3. \A a \in Passed : SameKey(a, r) => a \in Passed'
        BY <2>1, <4>1, <4>2 DEF SameKey, Covered
      <4> QED  BY <4>2, <4>3 DEF Covered, SameKey
    <3> QED  BY <3>1 DEF ReportsAreNear, Covered, Passed
  <2> QED  BY <1>0, <2>5, <2>6 DEF CoverInv
<1>7. ASSUME Quiet, reported' = reported
      PROVE  CoverInv'
  <2>1. Passed' = Passed /\ lastSent' = lastSent /\ life' = life
    BY <1>7, QuietPassed DEF Quiet
  <2>2. lastSent \in [Processes -> [Conditions -> Int]]
    BY <1>0 DEF Shape, Never
  <2>3. Keeps
    BY <2>1, <2>2 DEF Keeps
  <2> QED  BY <1>0, <1>2, <1>3, <1>7, <2>1, <2>3 DEF CoverInv
<1>8. CASE Tick \/ UNCHANGED vars
  BY <1>7, <1>8 DEF Tick, Quiet, Senders, Alert, vars
<1>9. ASSUME NEW t \in Threads, Report(t) \/ Emit(t)
      PROVE  CoverInv'
  <2>1. reported' = reported
    BY <1>9 DEF Report, Emit
  <2> QED  BY <1>0, <1>7, <1>9, <2>1, QuietSteps
<1> QED  BY <1>4, <1>5, <1>6, <1>8, <1>9 DEF Next

(* It holds when every process has just started.                           *)
LEMMA CoverInit ==
  ASSUME Init
  PROVE  CoverInv
<1>1. Shape
  <2>1. NothingSent \in [Conditions -> Nat \cup {Never}] /\ <<>> \in Seq(Conditions)
    BY DEF NothingSent
  <2> QED  BY <2>1 DEF Init, Shape
<1>2. Senders = {} /\ Sent = {} /\ Underway = {}
  BY DEF Init, Senders, Sent, Underway
<1>3. LivesAreKnown /\ LastIsLatest /\ NoStorm
  BY <1>2 DEF LivesAreKnown, LastIsLatest, NoStorm, Senders
<1>4. LastWasSent /\ ReportsAreNear
  BY DEF Init, NothingSent, LastWasSent, ReportsAreNear
<1> QED  BY <1>1, <1>3, <1>4 DEF CoverInv, StormInv

(* The invariant of the whole specification.                               *)
LEMMA CoverAlways == Spec => []CoverInv
<1>1. CoverInv /\ [Next]_vars => CoverInv'
  BY CoverNext
<1> QED  BY CoverInit, <1>1, PTL DEF Spec

(* No alert storm: two alerts of a condition that one life of a process    *)
(* hands to the sink are a window apart, however its threads interleave    *)
(* between the clock, the lock and the sink, and no alert goes out twice.  *)
THEOREM StormsAreStopped == Spec => []NoStorm
<1>1. CoverInv => NoStorm
  BY DEF CoverInv, StormInv
<1> QED  BY <1>1, CoverAlways, PTL

(* No silence: every report that emit_security_alert has decided has an    *)
(* alert of its process on the way to the sink or there, less than a       *)
(* window before it or later than it, and a recovery has one of its own.   *)
THEOREM NothingIsSilenced == Spec => []EveryReportIsCovered
<1>1. ASSUME CoverInv
      PROVE  EveryReportIsCovered
  <2>1. SUFFICES ASSUME NEW t \in Threads, NEW r \in reported[t]
                 PROVE  \E a \in Passed :
                          SameKey(a, r) /\ IF r.condition \in Recoveries
                                             THEN a.now = r.now
                                             ELSE a.now > r.now - Window
    BY DEF EveryReportIsCovered, Passed
  <2>2. Covered(r, t[1]) /\ t[1] \in Processes /\ r.condition \in Conditions
    BY <1>1, CoverParts, ThreadProcess DEF CoverInv, StormInv, Shape, AlertSet
  <2>3. CASE r.condition \in Recoveries
    BY <2>2, <2>3 DEF Covered
  <2>4. CASE r.condition \notin Recoveries
    <3>1. PICK a \in Passed : /\ a.process = t[1] /\ a.life = life[t[1]]
                              /\ a.condition = r.condition
                              /\ a.now = lastSent[t[1]][r.condition]
      BY <1>1, <2>2, <2>4, CoverParts DEF Covered, CoverInv
    <3> QED  BY <2>2, <2>4, <3>1 DEF Covered, SameKey
  <2> QED  BY <2>3, <2>4
<1>2. CoverInv => EveryReportIsCovered
  BY <1>1
<1> QED  BY <1>2, CoverAlways, PTL
=============================================================================
