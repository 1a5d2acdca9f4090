-------------------------- MODULE RetentionCleanup --------------------------
(***************************************************************************)
(* scripts/audit_retention_cleanup.py against a live ledger: the two       *)
(* append-only tables with their triggers (migration 0005) and grants      *)
(* (scripts/provision_audit_db_users.py), legal holds that come and go,    *)
(* the worker that keeps inserting, and other runs of the same script.     *)
(*                                                                         *)
(* One action per SQL statement, commit and file operation of a run.  A    *)
(* DELETE locks the rows it removes, and the hold index where it looked,   *)
(* until its transaction ends (InnoDB locking reads), so inserts of those  *)
(* keys and holds on them wait; COUNT is a plain read.  No statement of    *)
(* the code, and no trigger, lets a row be updated, so rows have no update *)
(* action.                                                                 *)
(***************************************************************************)
EXTENDS Integers, FiniteSets

CONSTANTS
  Runs,            \* executions of the script, possibly overlapping
  Keys,            \* event_id and stream_message_id values
  RetentionDays,   \* AUDIT_RETENTION_DAYS, when it is valid
  Configs,         \* how the environment of a run may be set up
  Identities,      \* the MySQL users AUDIT_MAINTENANCE_DATABASE_URL may name
  StatusDir,       \* whether AUDIT_HEALTH_STATUS_DIR is set
  MaxTime,         \* bound: the last day
  MaxFaults        \* bound: failing calls and killed runs

Tables == {"audit_events", "quarantined_audit_events"}
Users  == {"audit_writer", "audit_maintenance", "root"}

ASSUME ParametersAssumption ==
  /\ RetentionDays \in Nat \ {0} /\ MaxTime \in Nat /\ MaxFaults \in Nat
  /\ Configs \subseteq {"unset", "invalid", "noUrl", "ok"}
  /\ Identities \subseteq Users /\ StatusDir \in BOOLEAN

VARIABLES
  now,        \* today
  rows,       \* table -> its rows: the key, and the day its date column names
  holds,      \* audit_legal_holds: <<record_table, record_key>>
  pc,         \* where each run is
  user,       \* the identity it connects as
  execute,    \* --execute was given
  cutoff,     \* main()'s cutoff
  table,      \* the table its loop is at
  eligible,   \* what _count_eligible returned
  doomed,     \* the rows its open transaction has deleted
  results,    \* main()'s results
  tmp,        \* the .tmp file of the status file: its contents, or NoFile
  statusFile, \* audit-retention-run.env: its contents, or NoFile
  handle,     \* the file a run has open for writing: it is now tmp, or was
              \* renamed to the status file, or is gone; or none is open
  alerted,    \* the runs that emitted retention_cleanup_failed
  removed,    \* history: how many rows each run's commits removed
  faults      \* how much of MaxFaults is spent

ledger  == <<rows, holds>>
locals  == <<user, execute, cutoff>>
files   == <<tmp, statusFile, handle>>
vars    == <<now, rows, holds, pc, user, execute, cutoff, table, eligible,
             doomed, results, tmp, statusFile, handle, alerted, removed, faults>>

Row == [key : Keys, date : 0..MaxTime]
NoFile    == [mode |-> "none", result |-> "none"]
EmptyFile == [mode |-> "empty", result |-> "empty"]
StatusSet == [run : Runs, mode : {"execute", "dry_run"},
              result : {"success", "failed_or_partial"}, total : Nat]
StatusFiles == StatusSet \cup {NoFile, EmptyFile}
Result(status, count) == [status |-> status, count |-> count]
NoResult == Result("none", 0)

Init ==
  /\ now = 0
  /\ rows = [t \in Tables |-> {}] /\ holds = {}
  /\ pc = [r \in Runs |-> "idle"]
  /\ user = [r \in Runs |-> "audit_maintenance"]
  /\ execute = [r \in Runs |-> FALSE]
  /\ cutoff = [r \in Runs |-> 0]
  /\ table = [r \in Runs |-> "audit_events"]
  /\ eligible = [r \in Runs |-> 0]
  /\ doomed = [r \in Runs |-> {}]
  /\ results = [r \in Runs |-> [t \in Tables |-> NoResult]]
  /\ tmp = NoFile /\ statusFile = NoFile /\ handle = [r \in Runs |-> "none"]
  /\ alerted = {} /\ removed = [r \in Runs |-> 0] /\ faults = 0

Fault == faults < MaxFaults /\ faults' = faults + 1

-----------------------------------------------------------------------------
(* The ledger.                                                             *)

\* Mutant: the lookup ignores which table the hold names.
MutantHeldAnyTable(t, k) == <<"audit_events", k>> \in holds

(* Whether audit_legal_holds has a row for the record.                     *)
Held(t, k) == <<t, k>> \in holds

(* trg_..._no_delete: only the maintenance identity, and no held row.      *)
Trigger(u, t, k) == u = "audit_maintenance" /\ ~Held(t, k)

(* The grants of scripts/provision_audit_db_users.py; root has every one.  *)
MayDelete(u)    == u \in {"audit_maintenance", "root"}
MayReadHolds(u) == u \in {"audit_maintenance", "root"}

(* The rows of t that an open transaction has deleted and not committed.   *)
Locked(t) == UNION {doomed[r] : r \in {s \in Runs : table[s] = t}}
LockedKey(t, k) == \E x \in Locked(t) : x.key = k

(* The worker inserts a row.  audit_events carries the producer's          *)
(* timestamp, whatever it says, and quarantined_audit_events the server's  *)
(* own clock.                                                              *)
InsertRow(t, k, d) ==
  /\ \A x \in rows[t] : x.key # k
  /\ ~LockedKey(t, k)
  /\ t = "quarantined_audit_events" => d = now
  /\ rows' = [rows EXCEPT ![t] = @ \cup {[key |-> k, date |-> d]}]
  /\ UNCHANGED <<now, holds, pc, locals, table, eligible, doomed, results,
                 files, alerted, removed, faults>>

(* A hold is placed on a record, or released: plain privileged statements. *)
PlaceHold(t, k) ==
  /\ ~Held(t, k) /\ ~LockedKey(t, k)
  /\ holds' = holds \cup {<<t, k>>}
  /\ UNCHANGED <<now, rows, pc, locals, table, eligible, doomed, results,
                 files, alerted, removed, faults>>

ReleaseHold(t, k) ==
  /\ Held(t, k)
  /\ holds' = holds \ {<<t, k>>}
  /\ UNCHANGED <<now, rows, pc, locals, table, eligible, doomed, results,
                 files, alerted, removed, faults>>

(* A DELETE of one row outside the script: the grants, then the trigger.   *)
ManualDelete(u, t, x) ==
  /\ x \in rows[t] \ Locked(t)
  /\ MayDelete(u) /\ Trigger(u, t, x.key)
  /\ rows' = [rows EXCEPT ![t] = @ \ {x}]
  /\ UNCHANGED <<now, holds, pc, locals, table, eligible, doomed, results,
                 files, alerted, removed, faults>>

Tick ==
  /\ now < MaxTime /\ now' = now + 1
  /\ UNCHANGED <<ledger, pc, locals, table, eligible, doomed, results, files,
                 alerted, removed, faults>>

-----------------------------------------------------------------------------
(* The script.                                                             *)

(* main(): its gates.  Without AUDIT_RETENTION_DAYS there is nothing to do *)
(* and the run succeeds; an invalid number, or no maintenance URL, is an   *)
(* error.                                                                  *)
Refuse(r) ==
  /\ pc[r] = "idle"
  /\ \E c \in Configs \ {"ok"} :
       pc' = [pc EXCEPT ![r] = IF c = "unset" THEN "exit0" ELSE "exit1"]
  /\ UNCHANGED <<now, ledger, locals, table, eligible, doomed, results, files,
                 alerted, removed, faults>>

Begin(r) ==
  /\ pc[r] = "idle" /\ "ok" \in Configs
  /\ pc' = [pc EXCEPT ![r] = "count"]
  /\ \E u \in Identities, x \in BOOLEAN :
       /\ user' = [user EXCEPT ![r] = u]
       /\ execute' = [execute EXCEPT ![r] = x]
  /\ cutoff' = [cutoff EXCEPT ![r] = now - RetentionDays]
  /\ UNCHANGED <<now, ledger, table, eligible, doomed, results, files, alerted,
                 removed, faults>>

\* Mutant: the comparison is <= .
MutantUpToCutoff(r, t) == {x \in rows[t] : x.date <= cutoff[r] /\ ~Held(t, x.key)}

(* The WHERE clause that _count_eligible and _delete_eligible share.       *)
Eligible(r, t) == {x \in rows[t] : x.date < cutoff[r] /\ ~Held(t, x.key)}

(* The table's result is known; the loop goes on.                          *)
Advance(r, result) ==
  /\ results' = [results EXCEPT ![r][table[r]] = result]
  /\ IF table[r] = "audit_events"
       THEN /\ pc' = [pc EXCEPT ![r] = "count"]
            /\ table' = [table EXCEPT ![r] = "quarantined_audit_events"]
       ELSE /\ pc' = [pc EXCEPT ![r] = IF StatusDir THEN "open" ELSE "finish"]
            /\ UNCHANGED table

(* _count_eligible, and the two continues that follow it.                  *)
Count(r) ==
  LET n == Cardinality(Eligible(r, table[r])) IN
  /\ pc[r] = "count" /\ MayReadHolds(user[r])
  /\ eligible' = [eligible EXCEPT ![r] = n]
  /\ IF execute[r] /\ n > 0
       THEN pc' = [pc EXCEPT ![r] = "delete"] /\ UNCHANGED <<table, results>>
       ELSE Advance(r, Result(IF execute[r] THEN "success" ELSE "dry_run", n))
  /\ UNCHANGED <<now, ledger, locals, doomed, files, alerted, removed, faults>>

(* The connection or the COUNT raises: by a fault, or every time without   *)
(* the privilege.                                                          *)
CountFails(r) ==
  /\ pc[r] = "count"
  /\ IF MayReadHolds(user[r]) THEN Fault ELSE UNCHANGED faults
  /\ Advance(r, Result("failed", 0))
  /\ UNCHANGED <<now, ledger, locals, eligible, doomed, files, alerted, removed>>

(* The DELETE waits for the row locks of another run.                      *)
Waits(r) == pc[r] = "delete" /\ Locked(table[r]) # {}

(* _delete_eligible: the trigger runs for every row, and rejecting one     *)
(* rejects the statement.                                                  *)
DeleteRejected(r) ==
  \E x \in Eligible(r, table[r]) : ~MayDelete(user[r]) \/ ~Trigger(user[r], table[r], x.key)

Delete(r) ==
  /\ pc[r] = "delete" /\ ~Waits(r)
  /\ ~DeleteRejected(r)
  /\ doomed' = [doomed EXCEPT ![r] = Eligible(r, table[r])]
  /\ pc' = [pc EXCEPT ![r] = "commit"]
  /\ UNCHANGED <<now, ledger, locals, table, eligible, results, files, alerted,
                 removed, faults>>

(* It raises: by a fault, as when the wait for the locks times out, or     *)
(* because it is rejected.                                                 *)
DeleteFails(r) ==
  /\ pc[r] = "delete"
  /\ IF ~Waits(r) /\ DeleteRejected(r) THEN UNCHANGED faults ELSE Fault
  /\ Advance(r, Result("failed", 0))
  /\ UNCHANGED <<now, ledger, locals, eligible, doomed, files, alerted, removed>>

\* Mutants: the planned number is reported, whatever was deleted; a status
\* that overall_ok does not know.
MutantTrustPlan(planned, deleted) == Result("success", planned)
MutantNewStatus(planned, deleted) ==
  Result(IF deleted = planned THEN "success" ELSE "mismatch", deleted)

(* main()'s verdict on a committed table.                                  *)
Verdict(planned, deleted) ==
  Result(IF deleted = planned THEN "success" ELSE "partial", deleted)

\* Mutant: the connection is left open, with its locks.
MutantStaysOpen(r) == UNCHANGED doomed

(* The with block closes the connection: the locks go.                     *)
EndTransaction(r) == doomed' = [doomed EXCEPT ![r] = {}]

RemoveDoomed(r) ==
  /\ rows' = [rows EXCEPT ![table[r]] = @ \ doomed[r]]
  /\ removed' = [removed EXCEPT ![r] = @ + Cardinality(doomed[r])]

(* conn.commit(), and the comparison of what was planned and deleted.      *)
Commit(r) ==
  LET n == Cardinality(doomed[r]) IN
  /\ pc[r] = "commit"
  /\ RemoveDoomed(r)
  /\ EndTransaction(r)
  /\ Advance(r, Verdict(eligible[r], n))
  /\ UNCHANGED <<now, holds, locals, eligible, files, alerted, faults>>

(* commit raises; the server may have committed all the same.              *)
CommitFails(r) ==
  /\ pc[r] = "commit" /\ Fault
  /\ RemoveDoomed(r) \/ UNCHANGED <<rows, removed>>
  /\ EndTransaction(r)
  /\ Advance(r, Result("failed", 0))
  /\ UNCHANGED <<now, holds, locals, eligible, files, alerted>>

(* _write_status_file: write_text opens the .tmp file, which empties it,   *)
(* and writes it; then it is renamed.  All runs use the same names, so an  *)
(* open file may be renamed by another run before it is written.  A write  *)
(* over a longer text leaves the end of that text behind, after the last   *)
(* line: the four fields are those of the last write.                      *)
overall_ok(r) == \A t \in Tables : results[r][t].status \notin {"partial", "failed"}

Counted(r, t) == IF results[r][t].status = "success" THEN results[r][t].count ELSE 0
total_deleted(r) == Counted(r, "audit_events") + Counted(r, "quarantined_audit_events")

Status(r) ==
  [run    |-> r,
   mode   |-> IF execute[r] THEN "execute" ELSE "dry_run",
   result |-> IF overall_ok(r) THEN "success" ELSE "failed_or_partial",
   total  |-> total_deleted(r)]

OpenStatus(r) ==
  /\ pc[r] = "open"
  /\ tmp' = EmptyFile /\ handle' = [handle EXCEPT ![r] = "tmp"]
  /\ pc' = [pc EXCEPT ![r] = "write"]
  /\ UNCHANGED <<now, ledger, locals, table, eligible, doomed, results,
                 statusFile, alerted, removed, faults>>

WriteStatus(r) ==
  /\ pc[r] = "write"
  /\ tmp' = IF handle[r] = "tmp" THEN Status(r) ELSE tmp
  /\ statusFile' = IF handle[r] = "status" THEN Status(r) ELSE statusFile
  /\ handle' = [handle EXCEPT ![r] = "none"]
  /\ pc' = [pc EXCEPT ![r] = "replace"]
  /\ UNCHANGED <<now, ledger, locals, table, eligible, doomed, results,
                 alerted, removed, faults>>

(* What an open file is after the rename: it stays open.                   *)
Renamed(place) == CASE place = "tmp" -> "status" [] place = "status" -> "gone" [] OTHER -> place

(* The rename raises when another run has renamed the shared .tmp file     *)
(* away; nothing catches it.                                               *)
ReplaceStatus(r) ==
  /\ pc[r] = "replace"
  /\ IF tmp = NoFile
       THEN pc' = [pc EXCEPT ![r] = "raised"] /\ UNCHANGED files
       ELSE /\ statusFile' = tmp /\ tmp' = NoFile
            /\ handle' = [s \in Runs |-> Renamed(handle[s])]
            /\ pc' = [pc EXCEPT ![r] = "finish"]
  /\ UNCHANGED <<now, ledger, locals, table, eligible, doomed, results, alerted,
                 removed, faults>>

(* The status directory cannot be written.                                 *)
StatusFails(r) ==
  /\ pc[r] \in {"open", "write", "replace"} /\ Fault
  /\ pc' = [pc EXCEPT ![r] = "raised"]
  /\ handle' = [handle EXCEPT ![r] = "none"]
  /\ UNCHANGED <<now, ledger, locals, table, eligible, doomed, results, tmp,
                 statusFile, alerted, removed>>

(* The alert and the exit status.                                          *)
Finish(r) ==
  /\ pc[r] = "finish"
  /\ pc' = [pc EXCEPT ![r] = IF overall_ok(r) THEN "exit0" ELSE "exit1"]
  /\ alerted' = IF overall_ok(r) THEN alerted ELSE alerted \cup {r}
  /\ UNCHANGED <<now, ledger, locals, table, eligible, doomed, results, files,
                 removed, faults>>

Ended(r) == pc[r] \in {"exit0", "exit1", "raised", "killed"}

(* The run is killed; the server rolls its transaction back.               *)
Kill(r) ==
  /\ pc[r] # "idle" /\ ~Ended(r) /\ Fault
  /\ pc' = [pc EXCEPT ![r] = "killed"]
  /\ doomed' = [doomed EXCEPT ![r] = {}] /\ handle' = [handle EXCEPT ![r] = "none"]
  /\ UNCHANGED <<now, ledger, locals, table, eligible, results, tmp, statusFile,
                 alerted, removed>>

-----------------------------------------------------------------------------
RunStep(r) ==
  \/ Count(r) \/ CountFails(r) \/ Delete(r) \/ DeleteFails(r)
  \/ Commit(r) \/ CommitFails(r)
  \/ OpenStatus(r) \/ WriteStatus(r) \/ ReplaceStatus(r) \/ StatusFails(r) \/ Finish(r)

Next ==
  \/ \E t \in Tables, k \in Keys :
       \/ \E d \in 0..MaxTime : InsertRow(t, k, d)
       \/ PlaceHold(t, k) \/ ReleaseHold(t, k)
  \/ \E u \in Users, t \in Tables : \E x \in rows[t] : ManualDelete(u, t, x)
  \/ Tick
  \/ \E r \in Runs : Refuse(r) \/ Begin(r) \/ RunStep(r) \/ Kill(r)

Spec == Init /\ [][Next]_vars

-----------------------------------------------------------------------------
TypeOK ==
  /\ now \in 0..MaxTime
  /\ rows \in [Tables -> SUBSET Row]
  /\ holds \subseteq Tables \X Keys
  /\ pc \in [Runs -> {"idle", "count", "delete", "commit", "open", "write", "replace",
                      "finish", "exit0", "exit1", "raised", "killed"}]
  /\ user \in [Runs -> Users] /\ execute \in [Runs -> BOOLEAN]
  /\ cutoff \in [Runs -> Int] /\ table \in [Runs -> Tables]
  /\ eligible \in [Runs -> Nat]
  /\ doomed \in [Runs -> SUBSET Row]
  /\ results \in [Runs -> [Tables ->
       [status : {"none", "dry_run", "success", "partial", "failed"}, count : Nat]]]
  /\ tmp \in StatusFiles /\ statusFile \in StatusFiles
  /\ handle \in [Runs -> {"none", "tmp", "status", "gone"}]
  /\ alerted \subseteq Runs /\ removed \in [Runs -> Nat]
  /\ faults \in 0..MaxFaults

(* Legal hold: a row that is under hold is still there after any step,     *)
(* also when the hold was placed between a run's COUNT, its DELETE and its *)
(* commit.                                                                 *)
HeldRowsSurvive ==
  [][\A t \in Tables : \A x \in rows[t] : <<t, x.key>> \in holds => x \in rows'[t]]_vars

(* Retention: a run only ever removes rows older than RetentionDays on the *)
(* day of the removal, as the maintenance identity, and never in a dry     *)
(* run.                                                                    *)
RunsRemoveOnlyExpired ==
  [][\A r \in Runs : removed'[r] # removed[r] =>
       /\ execute[r] /\ user[r] = "audit_maintenance"
       /\ \A t \in Tables : \A x \in rows[t] \ rows'[t] : now - x.date > RetentionDays]_vars

(* No run is "silently upgraded to complete success": one that exits with  *)
(* 0 after --execute, or whose status file says so, has reported exactly   *)
(* the rows it removed, from both tables.                                  *)
SuccessIsTheWholeTruth ==
  /\ \A r \in Runs : (pc[r] = "exit0" /\ execute[r] /\ results[r] # [t \in Tables |-> NoResult])
       => overall_ok(r) /\ total_deleted(r) = removed[r]
  /\ statusFile.result = "success" /\ statusFile.mode = "execute"
       => statusFile.total = removed[statusFile.run]

UnderWay(r) == pc[r] # "idle" /\ ~Ended(r)

(* Overlapping runs never wait for each other in a circle, or for one that *)
(* has ended or was killed: while a run is under way, one that is under    *)
(* way waits for nobody.  They take the tables in the same order, one      *)
(* transaction per table.                                                  *)
NoStandstill ==
  (\E r \in Runs : UnderWay(r)) => \E r \in Runs : UnderWay(r) /\ ~Waits(r)
=============================================================================
