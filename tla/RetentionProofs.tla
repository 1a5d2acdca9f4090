-------------------------- MODULE RetentionProofs ---------------------------
(***************************************************************************)
(* Retention clean-up for any number of overlapping runs, any keys, any    *)
(* retention period and any number of faults.                              *)
(*                                                                         *)
(* The argument is about the rows a run's open transaction has deleted:    *)
(* they are locked, so no other run, hold or insert can get at them, and   *)
(* what the DELETE's WHERE clause and its trigger checked is still true    *)
(* when the run commits.                                                   *)
(***************************************************************************)
EXTENDS RetentionCleanup, FiniteSetTheorems, TLAPS

ResultSet == [status : {"none", "dry_run", "success", "partial", "failed"}, count : Nat]

InLoop(r) == pc[r] \in {"count", "delete", "commit"}

(* The ledger stays finite, so that what COUNT and DELETE report is a      *)
(* number.                                                                 *)
LedgerFinite == \A t \in Tables : IsFiniteSet(rows[t])

(* Every variable has its type, and the rows an open transaction has       *)
(* deleted are still there, as rows of the table its run is at.            *)
Typed == TypeOK /\ \A r \in Runs : doomed[r] \subseteq rows[table[r]]

(* Only a run that is about to commit has deleted rows, and two runs never *)
(* have deleted rows of the same table.                                    *)
LocksExclude ==
  /\ \A r \in Runs : doomed[r] # {} => pc[r] = "commit"
  /\ \A r, s \in Runs : r # s /\ doomed[r] # {} /\ doomed[s] # {} => table[r] # table[s]

(* What a DELETE checked stays true until the commit: no row it removes is *)
(* under hold, each is older than the cutoff, and the trigger let the      *)
(* maintenance identity through.                                           *)
DoomedMayGo ==
  \A r \in Runs : \A x \in doomed[r] :
    ~Held(table[r], x.key) /\ x.date < cutoff[r] /\ user[r] = "audit_maintenance"

(* The cutoff is RetentionDays before the day the run began, and only      *)
(* --execute gets past the count.                                          *)
Planned ==
  \A r \in Runs :
    /\ InLoop(r) => cutoff[r] <= now - RetentionDays
    /\ pc[r] \in {"delete", "commit"} => execute[r]

LedgerInv == Typed /\ LedgerFinite /\ LocksExclude /\ DoomedMayGo /\ Planned

-----------------------------------------------------------------------------
(* The locked rows of a table are those of the transactions open on it.    *)
LEMMA LockedRows ==
  ASSUME NEW t \in Tables, NEW x
  PROVE  x \in Locked(t) <=> \E r \in Runs : table[r] = t /\ x \in doomed[r]
BY DEF Locked

(* What the loop's continue does, seen from each run.                      *)
LEMMA AdvanceEffect ==
  ASSUME Typed, NEW r \in Runs, NEW result \in ResultSet, Advance(r, result)
  PROVE  /\ results' \in [Runs -> [Tables -> ResultSet]]
         /\ results'[r] = [results[r] EXCEPT ![table[r]] = result]
         /\ table' \in [Runs -> Tables]
         /\ pc' \in [Runs -> {"idle", "count", "delete", "commit", "open", "write", "replace",
                              "finish", "exit0", "exit1", "raised", "killed"}]
         /\ \A s \in Runs \ {r} : /\ results'[s] = results[s]
                                  /\ pc'[s] = pc[s] /\ table'[s] = table[s]
         /\ \/ /\ table[r] = "audit_events" /\ table'[r] = "quarantined_audit_events"
               /\ pc'[r] = "count"
            \/ /\ table[r] = "quarantined_audit_events" /\ table'[r] = table[r]
               /\ pc'[r] \in {"open", "finish"}
<1> USE DEF Advance, Typed, TypeOK
<1>1. results \in [Runs -> [Tables -> ResultSet]]
  BY DEF ResultSet
<1>2. table[r] \in Tables
  OBVIOUS
<1>3. /\ results' \in [Runs -> [Tables -> ResultSet]]
      /\ results'[r] = [results[r] EXCEPT ![table[r]] = result]
      /\ \A s \in Runs \ {r} : results'[s] = results[s]
  <2>1. results' = [results EXCEPT ![r] = [results[r] EXCEPT ![table[r]] = result]]
    OBVIOUS
  <2>2. [results[r] EXCEPT ![table[r]] = result] \in [Tables -> ResultSet]
    BY <1>1, <1>2
  <2> QED  BY <1>1, <2>1, <2>2
<1>4. CASE table[r] = "audit_events"
  <2>1. /\ pc' = [pc EXCEPT ![r] = "count"]
        /\ table' = [table EXCEPT ![r] = "quarantined_audit_events"]
    BY <1>4
  <2>2. "quarantined_audit_events" \in Tables
    BY DEF Tables
  <2>3. table' \in [Runs -> Tables] /\ table'[r] = "quarantined_audit_events"
    BY <2>1, <2>2
  <2>4. \A s \in Runs \ {r} : pc'[s] = pc[s] /\ table'[s] = table[s]
    BY <2>1
  <2>5. pc'[r] = "count" /\ pc' \in [Runs -> {"idle", "count", "delete", "commit",
          "open", "write", "replace", "finish", "exit0", "exit1", "raised", "killed"}]
    BY <2>1
  <2> HIDE DEF Advance, Typed, TypeOK
  <2> QED  BY <1>3, <1>4, <2>3, <2>4, <2>5
<1>5. CASE table[r] = "quarantined_audit_events"
  <2>1. /\ pc' = [pc EXCEPT ![r] = IF StatusDir THEN "open" ELSE "finish"]
        /\ table' = table
    BY <1>5
  <2>2. table' \in [Runs -> Tables]
    BY <2>1
  <2>3. \A s \in Runs \ {r} : pc'[s] = pc[s] /\ table'[s] = table[s]
    BY <2>1
  <2>4. pc'[r] \in {"open", "finish"} /\ pc' \in [Runs -> {"idle", "count", "delete",
          "commit", "open", "write", "replace", "finish", "exit0", "exit1", "raised", "killed"}]
    BY <2>1
  <2> HIDE DEF Advance, Typed, TypeOK
  <2> QED  BY <1>3, <1>5, <2>1, <2>2, <2>3, <2>4
<1> QED  BY <1>2, <1>4, <1>5 DEF Tables

(* The rows a run may delete are some of the table's, a finite number.     *)
LEMMA EligibleRows ==
  ASSUME Typed, LedgerFinite, NEW r \in Runs
  PROVE  /\ Eligible(r, table[r]) \subseteq rows[table[r]]
         /\ Cardinality(Eligible(r, table[r])) \in Nat
<1>1. Eligible(r, table[r]) \subseteq rows[table[r]]
  BY DEF Eligible
<1>2. IsFiniteSet(rows[table[r]])
  BY DEF LedgerFinite, Typed, TypeOK
<1> QED  BY <1>1, <1>2, FS_Subset, FS_CardinalityType

(* So are the rows it has deleted.                                         *)
LEMMA DoomedRows ==
  ASSUME Typed, LedgerFinite, NEW r \in Runs
  PROVE  IsFiniteSet(doomed[r]) /\ Cardinality(doomed[r]) \in Nat
<1>1. doomed[r] \subseteq rows[table[r]] /\ IsFiniteSet(rows[table[r]])
  BY DEF LedgerFinite, Typed, TypeOK
<1> QED  BY <1>1, FS_Subset, FS_CardinalityType

-----------------------------------------------------------------------------
(* The ledger's own actions keep the types: an insert adds a row, and a    *)
(* manual DELETE waits for the locks of open transactions.                 *)
LEMMA LedgerTypes ==
  ASSUME Typed,
         \/ \E t \in Tables, k \in Keys :
              \/ \E d \in 0..MaxTime : InsertRow(t, k, d)
              \/ PlaceHold(t, k) \/ ReleaseHold(t, k)
         \/ \E u \in Users, t \in Tables : \E x \in rows[t] : ManualDelete(u, t, x)
         \/ Tick
  PROVE  Typed'
<1> USE DEF Typed, TypeOK
<1>1. ASSUME NEW t \in Tables, NEW k \in Keys, NEW d \in 0..MaxTime, InsertRow(t, k, d)
      PROVE  Typed'
  <2>1. [key |-> k, date |-> d] \in Row
    BY DEF Row
  <2>2. rows' \in [Tables -> SUBSET Row] /\ \A w \in Tables : rows[w] \subseteq rows'[w]
    BY <1>1, <2>1 DEF InsertRow
  <2>3. \A r \in Runs : doomed[r] \subseteq rows'[table[r]]
    BY <2>2
  <2> QED  BY <1>1, <2>2, <2>3 DEF InsertRow, locals, files
<1>2. ASSUME NEW t \in Tables, NEW k \in Keys, PlaceHold(t, k) \/ ReleaseHold(t, k)
      PROVE  Typed'
  BY <1>2 DEF PlaceHold, ReleaseHold, locals, files
<1>3. ASSUME NEW u \in Users, NEW t \in Tables, NEW x \in rows[t], ManualDelete(u, t, x)
      PROVE  Typed'
  <2>1. rows' \in [Tables -> SUBSET Row]
    BY <1>3 DEF ManualDelete
  <2>2. ASSUME NEW r \in Runs
        PROVE  doomed[r] \subseteq rows'[table[r]]
    <3>1. table[r] = t => x \notin doomed[r]
      BY <1>3, LockedRows DEF ManualDelete
    <3> QED  BY <1>3, <3>1 DEF ManualDelete
  <2> QED  BY <1>3, <2>1, <2>2 DEF ManualDelete, locals, files
<1>4. CASE Tick
  <2>1. now' \in 0..MaxTime
    BY <1>4, ParametersAssumption DEF Tick
  <2> QED  BY <1>4, <2>1 DEF Tick, ledger, locals, files
<1> QED  BY <1>1, <1>2, <1>3, <1>4

(* What a run writes into the status file is a report.                     *)
LEMMA StatusType ==
  ASSUME Typed, NEW r \in Runs
  PROVE  Status(r) \in StatusSet /\ total_deleted(r) \in Nat
<1>1. total_deleted(r) \in Nat
  BY DEF total_deleted, Counted, Typed, TypeOK, Tables
<1> QED  BY <1>1 DEF Status, StatusSet

(* A run that fails, is killed, or goes on without touching the ledger,    *)
(* keeps the types.                                                        *)
LEMMA QuietTypes ==
  ASSUME Typed, LocksExclude, NEW r \in Runs,
         \/ Refuse(r) \/ Begin(r) \/ CountFails(r) \/ DeleteFails(r)
         \/ OpenStatus(r) \/ WriteStatus(r)
         \/ ReplaceStatus(r) \/ StatusFails(r) \/ Finish(r) \/ Kill(r)
  PROVE  Typed'
<1> USE DEF Typed, TypeOK
<1>0. ASSUME Fault \/ UNCHANGED faults
      PROVE  faults' \in 0..MaxFaults
  BY <1>0, ParametersAssumption DEF Fault
<1>1. CASE Begin(r)
  <2>1. cutoff' \in [Runs -> Int]
    BY <1>1, ParametersAssumption DEF Begin
  <2>2. user' \in [Runs -> Users] /\ execute' \in [Runs -> BOOLEAN]
    BY <1>1, ParametersAssumption DEF Begin
  <2> QED  BY <1>1, <2>1, <2>2 DEF Begin, ledger, files
<1>7. CASE Refuse(r)
  BY <1>7 DEF Refuse, ledger, locals, files
<1>2. CASE CountFails(r) \/ DeleteFails(r)
  <2>1. Advance(r, Result("failed", 0)) /\ doomed[r] = {} /\ faults' \in 0..MaxFaults
    BY <1>2, <1>0 DEF CountFails, DeleteFails, LocksExclude
  <2>2. Result("failed", 0) \in ResultSet
    BY DEF Result, ResultSet
  <2>3. UNCHANGED <<now, ledger, locals, eligible, doomed, files, alerted, removed>>
    BY <1>2 DEF CountFails, DeleteFails
  <2>4. /\ results' \in [Runs -> [Tables -> ResultSet]] /\ table' \in [Runs -> Tables]
        /\ pc' \in [Runs -> {"idle", "count", "delete", "commit", "open", "write", "replace",
                             "finish", "exit0", "exit1", "raised", "killed"}]
        /\ \A s \in Runs \ {r} : table'[s] = table[s]
    BY <2>1, <2>2, AdvanceEffect
  <2>5. \A s \in Runs : doomed'[s] \subseteq rows'[table'[s]]
    BY <2>1, <2>3, <2>4 DEF ledger
  <2> QED  BY <2>1, <2>3, <2>4, <2>5 DEF ledger, locals, files, ResultSet
<1>3. CASE OpenStatus(r)
  BY <1>3 DEF OpenStatus, StatusFiles, ledger, locals
<1>6. CASE WriteStatus(r)
  <2>1. tmp' \in StatusFiles /\ statusFile' \in StatusFiles
    BY <1>6, StatusType DEF WriteStatus, StatusFiles
  <2> QED  BY <1>6, <2>1 DEF WriteStatus, ledger, locals
<1>8. CASE ReplaceStatus(r)
  <2>1. handle' \in [Runs -> {"none", "tmp", "status", "gone"}]
    BY <1>8 DEF ReplaceStatus, Renamed, files
  <2>2. tmp' \in StatusFiles /\ statusFile' \in StatusFiles
    BY <1>8 DEF ReplaceStatus, StatusFiles, files
  <2> QED  BY <1>8, <2>1, <2>2 DEF ReplaceStatus, ledger, locals
<1>9. CASE StatusFails(r)
  <2>1. faults' \in 0..MaxFaults
    BY <1>0, <1>9 DEF StatusFails
  <2> QED  BY <1>9, <2>1 DEF StatusFails, ledger, locals
<1>4. CASE Finish(r)
  BY <1>4 DEF Finish, ledger, locals, files
<1>5. CASE Kill(r)
  <2>1. faults' \in 0..MaxFaults
    BY <1>0, <1>5 DEF Kill
  <2>2. \A s \in Runs : doomed'[s] \subseteq rows[table[s]]
    BY <1>5 DEF Kill, LocksExclude
  <2> QED  BY <1>5, <2>1, <2>2 DEF Kill, ledger, locals
<1> QED  BY <1>1, <1>2, <1>3, <1>4, <1>5, <1>6, <1>7, <1>8, <1>9

(* COUNT and DELETE keep the types: what they find are rows of the table.  *)
LEMMA CountDeleteTypes ==
  ASSUME Typed, LedgerFinite, LocksExclude, NEW r \in Runs, Count(r) \/ Delete(r)
  PROVE  Typed'
<1> USE DEF Typed, TypeOK
<1> DEFINE n == Cardinality(Eligible(r, table[r]))
<1>0. n \in Nat
  BY EligibleRows
<1> HIDE DEF n
<1>1. CASE Count(r)
  <2>0. /\ eligible' = [eligible EXCEPT ![r] = n] /\ doomed[r] = {}
        /\ UNCHANGED <<now, ledger, locals, doomed, files, alerted, removed, faults>>
    BY <1>1 DEF Count, n, LocksExclude
  <2>1. eligible' \in [Runs -> Nat]
    BY <1>0, <2>0
  <2>2. CASE pc' = [pc EXCEPT ![r] = "delete"] /\ UNCHANGED <<table, results>>
    BY <2>0, <2>1, <2>2 DEF ledger, locals, files
  <2>3. CASE Advance(r, Result(IF execute[r] THEN "success" ELSE "dry_run", n))
    <3>1. Result(IF execute[r] THEN "success" ELSE "dry_run", n) \in ResultSet
      BY <1>0 DEF Result, ResultSet
    <3>2. /\ results' \in [Runs -> [Tables -> ResultSet]] /\ table' \in [Runs -> Tables]
          /\ pc' \in [Runs -> {"idle", "count", "delete", "commit", "open", "write", "replace",
                               "finish", "exit0", "exit1", "raised", "killed"}]
          /\ \A s \in Runs \ {r} : table'[s] = table[s]
      BY <2>3, <3>1, AdvanceEffect
    <3>3. \A s \in Runs : doomed'[s] \subseteq rows'[table'[s]]
      BY <2>0, <3>2 DEF ledger
    <3> QED  BY <2>0, <2>1, <3>2, <3>3 DEF ledger, locals, files, ResultSet
  <2> QED  BY <1>1, <2>2, <2>3 DEF Count, n
<1>2. CASE Delete(r)
  <2>1. Eligible(r, table[r]) \subseteq rows[table[r]]
    BY EligibleRows
  <2>2. \A s \in Runs : doomed'[s] \subseteq rows[table[s]]
    BY <1>2, <2>1 DEF Delete, LocksExclude
  <2> QED  BY <1>2, <2>2 DEF Delete, ledger, locals, files
<1> QED  BY <1>1, <1>2

(* A commit, reported or not, keeps the types.  The rows it removes are of *)
(* a table no other run has deleted from.                                  *)
LEMMA CommitTypes ==
  ASSUME Typed, LedgerFinite, LocksExclude, NEW r \in Runs, Commit(r) \/ CommitFails(r)
  PROVE  Typed'
<1> USE DEF Typed, TypeOK
<1> DEFINE n == Cardinality(doomed[r])
<1>0. n \in Nat
  BY DoomedRows
<1> HIDE DEF n
<1>1. /\ rows' = [rows EXCEPT ![table[r]] = @ \ doomed[r]] \/ rows' = rows
      /\ removed' = [removed EXCEPT ![r] = @ + n] \/ removed' = removed
      /\ doomed' = [doomed EXCEPT ![r] = {}]
  BY DEF Commit, CommitFails, RemoveDoomed, EndTransaction, n
<1>2. rows' \in [Tables -> SUBSET Row] /\ removed' \in [Runs -> Nat]
  <2>1. rows' \in [Tables -> SUBSET Row]
    <3>1. /\ rows \in [Tables -> SUBSET Row] /\ table[r] \in Tables
          /\ rows[table[r]] \ doomed[r] \in SUBSET Row
      OBVIOUS
    <3>2. rows' = [rows EXCEPT ![table[r]] = @ \ doomed[r]] \/ rows' = rows
      BY <1>1
    <3> QED  BY ONLY <3>1, <3>2
  <2>2. removed' \in [Runs -> Nat]
    <3>1. removed \in [Runs -> Nat] /\ removed[r] + n \in Nat
      BY <1>0
    <3>2. removed' = [removed EXCEPT ![r] = @ + n] \/ removed' = removed
      BY <1>1
    <3> QED  BY ONLY <3>1, <3>2
  <2> QED  BY <2>1, <2>2
<1>3. PICK result \in ResultSet : Advance(r, result)
  <2>1. CASE Commit(r)
    <3>1. Verdict(eligible[r], n) \in ResultSet
      BY <1>0 DEF Verdict, Result, ResultSet
    <3> QED  BY <2>1, <3>1 DEF Commit, n
  <2>2. CASE CommitFails(r)
    <3>1. Result("failed", 0) \in ResultSet
      BY DEF Result, ResultSet
    <3> QED  BY <2>2, <3>1 DEF CommitFails
  <2> QED  BY <2>1, <2>2
<1>4. /\ results' \in [Runs -> [Tables -> ResultSet]] /\ table' \in [Runs -> Tables]
      /\ pc' \in [Runs -> {"idle", "count", "delete", "commit", "open", "write", "replace",
                           "finish", "exit0", "exit1", "raised", "killed"}]
      /\ \A s \in Runs \ {r} : table'[s] = table[s]
  BY <1>3, AdvanceEffect
<1>5. ASSUME NEW s \in Runs
      PROVE  doomed'[s] \subseteq rows'[table'[s]]
  <2>1. CASE s = r \/ doomed[s] = {}
    BY <1>1, <2>1 DEF LocksExclude
  <2>2. CASE s # r /\ doomed[s] # {}
    <3>1. table'[s] = table[s] /\ doomed'[s] = doomed[s]
      BY <1>1, <1>4, <2>2 DEF LocksExclude
    <3>2. table[s] = table[r] => doomed[r] = {}
      BY <2>2 DEF LocksExclude
    <3> QED  BY <1>1, <3>1, <3>2
  <2> QED  BY <2>1, <2>2
<1>6. faults' \in 0..MaxFaults
  BY ParametersAssumption DEF Commit, CommitFails, Fault
<1>7. UNCHANGED <<now, holds, locals, eligible, files, alerted>>
  BY DEF Commit, CommitFails
<1>8. doomed' \in [Runs -> SUBSET Row]
  BY <1>1
<1> QED  BY <1>2, <1>4, <1>5, <1>6, <1>7, <1>8 DEF locals, files, ResultSet

-----------------------------------------------------------------------------
(* No step makes the ledger infinite: one row is inserted at a time.       *)
LEMMA FiniteNext ==
  ASSUME Typed, LedgerFinite, [Next]_vars
  PROVE  LedgerFinite'
<1> USE DEF LedgerFinite, Typed, TypeOK
<1>1. CASE UNCHANGED rows
  BY <1>1
<1>2. ASSUME NEW t \in Tables, NEW k \in Keys, NEW d \in 0..MaxTime, InsertRow(t, k, d)
      PROVE  LedgerFinite'
  <2>1. IsFiniteSet(rows[t] \cup {[key |-> k, date |-> d]})
    BY FS_AddElement
  <2> QED  BY <1>2, <2>1 DEF InsertRow
<1>3. ASSUME \A t \in Tables : rows'[t] \subseteq rows[t]
      PROVE  LedgerFinite'
  BY <1>3, FS_Subset
<1>4. ASSUME NEW u \in Users, NEW t \in Tables, NEW x \in rows[t], ManualDelete(u, t, x)
      PROVE  LedgerFinite'
  BY <1>3, <1>4 DEF ManualDelete
<1>5. ASSUME NEW r \in Runs, Commit(r) \/ CommitFails(r)
      PROVE  LedgerFinite'
  <2>1. rows' = [rows EXCEPT ![table[r]] = @ \ doomed[r]] \/ rows' = rows
    BY <1>5 DEF Commit, CommitFails, RemoveDoomed
  <2>2. table[r] \in Tables
    OBVIOUS
  <2>3. \A t \in Tables : rows'[t] \subseteq rows[t]
    BY <2>1, <2>2
  <2> QED  BY <1>3, <2>3
<1> QED
  BY <1>1, <1>2, <1>4, <1>5
  DEF Next, RunStep, vars, ledger, PlaceHold, ReleaseHold, Tick, Refuse, Begin, Count,
      CountFails,
      Delete, DeleteFails, OpenStatus, WriteStatus, ReplaceStatus, StatusFails, Finish, Kill

-----------------------------------------------------------------------------
(* A step of a run leaves the other runs alone, and it ends with no open   *)
(* transaction unless it is the DELETE.                                    *)
LEMMA RunStepEffect ==
  ASSUME Typed, LedgerFinite, LocksExclude, NEW r \in Runs,
         Refuse(r) \/ Begin(r) \/ RunStep(r) \/ Kill(r)
  PROVE  /\ \A s \in Runs \ {r} :
              /\ pc'[s] = pc[s] /\ table'[s] = table[s] /\ doomed'[s] = doomed[s]
              /\ cutoff'[s] = cutoff[s] /\ user'[s] = user[s] /\ execute'[s] = execute[s]
         /\ doomed' \in [Runs -> SUBSET Row]
         /\ doomed'[r] = {} \/ Delete(r)
         /\ UNCHANGED <<now, holds>>
<1> USE DEF Typed, TypeOK, LocksExclude
<1>1. CASE Begin(r) \/ Refuse(r)
  BY <1>1 DEF Refuse, Begin, ledger, locals
<1>2. CASE Delete(r)
  <2>1. Eligible(r, table[r]) \in SUBSET Row
    BY EligibleRows
  <2> QED  BY <1>2, <2>1 DEF Delete, ledger, locals
<1>3. CASE Kill(r)
  BY <1>3 DEF Kill, ledger, locals
<1>4. CASE OpenStatus(r) \/ WriteStatus(r) \/ ReplaceStatus(r) \/ StatusFails(r) \/ Finish(r)
  BY <1>4 DEF OpenStatus, WriteStatus, ReplaceStatus, StatusFails, Finish, ledger, locals
<1>5. ASSUME NEW result \in ResultSet, Advance(r, result), UNCHANGED <<now, holds, locals>>,
             (doomed' = doomed /\ pc[r] # "commit") \/ EndTransaction(r)
      PROVE  /\ \A s \in Runs \ {r} :
                  /\ pc'[s] = pc[s] /\ table'[s] = table[s] /\ doomed'[s] = doomed[s]
                  /\ cutoff'[s] = cutoff[s] /\ user'[s] = user[s] /\ execute'[s] = execute[s]
             /\ doomed' \in [Runs -> SUBSET Row]
             /\ doomed'[r] = {}
             /\ UNCHANGED <<now, holds>>
  <2>1. \A s \in Runs \ {r} : pc'[s] = pc[s] /\ table'[s] = table[s]
    BY <1>5, AdvanceEffect
  <2> QED  BY <1>5, <2>1 DEF EndTransaction, locals
<1>6. CASE CountFails(r) \/ DeleteFails(r)
  <2>1. Result("failed", 0) \in ResultSet
    BY DEF Result, ResultSet
  <2> QED  BY <1>5, <1>6, <2>1 DEF CountFails, DeleteFails, ledger
<1>7. CASE CommitFails(r)
  <2>1. Result("failed", 0) \in ResultSet
    BY DEF Result, ResultSet
  <2> QED  BY <1>5, <1>7, <2>1 DEF CommitFails
<1>8. CASE Commit(r)
  <2>1. Verdict(eligible[r], Cardinality(doomed[r])) \in ResultSet
    BY DoomedRows DEF Verdict, Result, ResultSet
  <2> QED  BY <1>5, <1>8, <2>1 DEF Commit
<1>9. CASE Count(r)
  <2> DEFINE n == Cardinality(Eligible(r, table[r]))
  <2>1. n \in Nat
    BY EligibleRows
  <2> HIDE DEF n
  <2>2. Result(IF execute[r] THEN "success" ELSE "dry_run", n) \in ResultSet
    BY <2>1 DEF Result, ResultSet
  <2>3. CASE pc' = [pc EXCEPT ![r] = "delete"] /\ UNCHANGED <<table, results>>
    BY <1>9, <2>3 DEF Count, ledger, locals
  <2>4. CASE Advance(r, Result(IF execute[r] THEN "success" ELSE "dry_run", n))
    BY <1>5, <1>9, <2>2, <2>4 DEF Count, ledger
  <2> QED  BY <1>9, <2>3, <2>4 DEF Count, n
<1> QED  BY <1>1, <1>2, <1>3, <1>4, <1>6, <1>7, <1>8, <1>9 DEF RunStep

(* The ledger's actions leave every run alone.                             *)
LEMMA LedgerStepEffect ==
  ASSUME [Next]_vars
  PROVE  \/ \E r \in Runs : Refuse(r) \/ Begin(r) \/ RunStep(r) \/ Kill(r)
         \/ UNCHANGED <<pc, user, execute, cutoff, table, eligible, doomed, results, tmp,
                        statusFile, alerted, removed>>
BY DEF Next, vars, InsertRow, PlaceHold, ReleaseHold, ManualDelete, Tick, locals, files

(* A DELETE waits until nobody has deleted rows of its table, and a run    *)
(* that leaves the commit has no open transaction.                         *)
LEMMA LocksNext ==
  ASSUME Typed, LedgerFinite, LocksExclude, [Next]_vars
  PROVE  LocksExclude'
<1>1. CASE UNCHANGED <<pc, table, doomed>>
  BY <1>1 DEF LocksExclude
<1>2. ASSUME NEW r \in Runs, Refuse(r) \/ Begin(r) \/ RunStep(r) \/ Kill(r)
      PROVE  LocksExclude'
  <2>1. /\ \A s \in Runs \ {r} :
             pc'[s] = pc[s] /\ table'[s] = table[s] /\ doomed'[s] = doomed[s]
        /\ doomed' \in [Runs -> SUBSET Row]
        /\ doomed'[r] = {} \/ Delete(r)
    BY <1>2, RunStepEffect
  <2>2. CASE doomed'[r] = {}
    BY <2>1, <2>2 DEF LocksExclude
  <2>3. CASE Delete(r)
    <3>1. pc'[r] = "commit" /\ table'[r] = table[r]
      BY <2>3 DEF Delete, Typed, TypeOK
    <3>2. \A s \in Runs : table[s] = table[r] => doomed[s] = {}
      <4>1. \A x : x \notin Locked(table[r])
        BY <2>3 DEF Delete, Waits
      <4> QED  BY <4>1, LockedRows DEF Typed, TypeOK
    <3> QED  BY <2>1, <3>1, <3>2 DEF LocksExclude
  <2> QED  BY <2>1, <2>2, <2>3
<1> QED  BY <1>1, <1>2, LedgerStepEffect

(* The rows of an open transaction stay removable: a hold waits for their  *)
(* locks, and the run's identity and cutoff are fixed when it begins.      *)
LEMMA DoomedNext ==
  ASSUME Typed, LedgerFinite, LocksExclude, DoomedMayGo, [Next]_vars
  PROVE  DoomedMayGo'
<1>1. ASSUME UNCHANGED <<user, cutoff, table, doomed>>, holds' \subseteq holds
      PROVE  DoomedMayGo'
  BY <1>1 DEF DoomedMayGo, Held
<1>2. ASSUME NEW t \in Tables, NEW k \in Keys, PlaceHold(t, k)
      PROVE  DoomedMayGo'
  <2>1. UNCHANGED <<user, cutoff, table, doomed>> /\ holds' = holds \cup {<<t, k>>}
    BY <1>2 DEF PlaceHold, locals
  <2>2. ASSUME NEW r \in Runs, NEW x \in doomed[r]
        PROVE  <<table[r], x.key>> # <<t, k>>
    <3>1. table[r] = t => x \in Locked(t)
      BY LockedRows
    <3> QED  BY <1>2, <3>1 DEF PlaceHold, LockedKey
  <2> QED  BY <2>1, <2>2 DEF DoomedMayGo, Held
<1>3. ASSUME NEW r \in Runs, Refuse(r) \/ Begin(r) \/ RunStep(r) \/ Kill(r)
      PROVE  DoomedMayGo'
  <2>1. /\ \A s \in Runs \ {r} :
             /\ table'[s] = table[s] /\ doomed'[s] = doomed[s]
             /\ cutoff'[s] = cutoff[s] /\ user'[s] = user[s]
        /\ doomed'[r] = {} \/ Delete(r)
        /\ holds' = holds
    BY <1>3, RunStepEffect
  <2>2. CASE doomed'[r] = {}
    BY <2>1, <2>2 DEF DoomedMayGo, Held
  <2>3. CASE Delete(r)
    <3>1. UNCHANGED <<table, user, cutoff>> /\ doomed'[r] = Eligible(r, table[r])
      BY <2>3 DEF Delete, locals, Typed, TypeOK
    <3>2. \A x \in Eligible(r, table[r]) :
            /\ ~Held(table[r], x.key) /\ x.date < cutoff[r]
            /\ user[r] = "audit_maintenance"
      BY <2>3 DEF Delete, DeleteRejected, Trigger, Eligible
    <3> QED  BY <2>1, <3>1, <3>2 DEF DoomedMayGo, Held
  <2> QED  BY <2>1, <2>2, <2>3
<1> QED
  BY <1>1, <1>2, <1>3
  DEF Next, vars, InsertRow, ReleaseHold, ManualDelete, Tick, ledger, locals

(* Time only passes, and only Count leads on to a DELETE.                  *)
LEMMA PlannedNext ==
  ASSUME Typed, LedgerFinite, LocksExclude, Planned, [Next]_vars
  PROVE  Planned'
<1>0. now' \in Nat /\ now \in Nat /\ now <= now'
  BY DEF Typed, TypeOK, Next, vars, InsertRow, PlaceHold, ReleaseHold, ManualDelete, Tick,
         Refuse, Begin,
         RunStep, Count, CountFails, Delete, DeleteFails, Commit, CommitFails, OpenStatus,
         WriteStatus,
         ReplaceStatus, StatusFails, Finish, Kill
<1>1. ASSUME UNCHANGED <<pc, cutoff, execute>>
      PROVE  Planned'
  BY <1>0, <1>1, ParametersAssumption DEF Planned, InLoop, Typed, TypeOK
<1>2. ASSUME NEW r \in Runs, Refuse(r) \/ Begin(r) \/ RunStep(r) \/ Kill(r)
      PROVE  Planned'
  <2>1. /\ \A s \in Runs \ {r} :
             pc'[s] = pc[s] /\ cutoff'[s] = cutoff[s] /\ execute'[s] = execute[s]
        /\ now' = now
    BY <1>2, RunStepEffect
  <2>2. /\ InLoop(r)' => cutoff'[r] <= now - RetentionDays
        /\ pc'[r] \in {"delete", "commit"} => execute'[r]
    <3>1. CASE Begin(r)
      <4>1. cutoff'[r] = now - RetentionDays
        BY <3>1 DEF Begin, Typed, TypeOK
      <4>2. pc'[r] = "count"
        BY <3>1 DEF Begin, Typed, TypeOK
      <4> QED  BY <4>1, <4>2, <1>0, ParametersAssumption
    <3>3. CASE Refuse(r)
      BY <3>3 DEF Refuse, Typed, TypeOK, InLoop
    <3>2. CASE RunStep(r) \/ Kill(r)
      <4>1. UNCHANGED <<cutoff, execute>>
        BY <3>2
        DEF RunStep, Count, CountFails, Delete, DeleteFails, Commit, CommitFails,
            OpenStatus, WriteStatus, ReplaceStatus, StatusFails, Finish, Kill, locals
      <4>2. ASSUME NEW result, Advance(r, result)
            PROVE  pc'[r] \in {"count", "open", "finish"}
        BY <4>2 DEF Advance, Typed, TypeOK
      <4>3. pc'[r] \in {"delete", "commit"} => execute[r]
        <5>1. CASE Count(r)
          BY <4>2, <5>1 DEF Count, Typed, TypeOK
        <5>2. CASE Delete(r)
          BY <5>2 DEF Delete, Planned
        <5>3. CASE CountFails(r) \/ DeleteFails(r) \/ Commit(r) \/ CommitFails(r)
          BY <4>2, <5>3 DEF CountFails, DeleteFails, Commit, CommitFails
        <5>4. CASE \/ OpenStatus(r) \/ WriteStatus(r) \/ ReplaceStatus(r)
                   \/ StatusFails(r) \/ Finish(r) \/ Kill(r)
          BY <5>4 DEF OpenStatus, WriteStatus, ReplaceStatus, StatusFails, Finish, Kill,
                      Typed, TypeOK
        <5> QED  BY <3>2, <5>1, <5>2, <5>3, <5>4 DEF RunStep
      <4>4. ASSUME ~InLoop(r)
            PROVE  ~InLoop(r)'
        <5>1. \/ OpenStatus(r) \/ WriteStatus(r) \/ ReplaceStatus(r)
              \/ StatusFails(r) \/ Finish(r) \/ Kill(r)
          BY <3>2, <4>4
          DEF RunStep, Count, CountFails, Delete, DeleteFails, Commit, CommitFails, InLoop
        <5> QED
          BY <5>1 DEF OpenStatus, WriteStatus, ReplaceStatus, StatusFails, Finish, Kill,
                      Typed, TypeOK, InLoop
      <4> QED  BY <2>1, <4>1, <4>3, <4>4 DEF Planned
    <3> QED  BY <1>2, <3>1, <3>2, <3>3
  <2> QED  BY <2>1, <2>2 DEF Planned, InLoop
<1> QED  BY <1>1, <1>2, LedgerStepEffect

-----------------------------------------------------------------------------
(* The invariant of the ledger and the runs' transactions holds at first,  *)
LEMMA LedgerInit == Init => LedgerInv
<1> SUFFICES ASSUME Init
             PROVE  LedgerInv
  OBVIOUS
<1>1. Typed
  BY ParametersAssumption DEF Init, Typed, TypeOK, Tables, Users, NoResult, Result, StatusFiles
<1>2. LedgerFinite
  BY FS_EmptySet DEF Init, LedgerFinite
<1>3. LocksExclude /\ DoomedMayGo /\ Planned
  BY DEF Init, LocksExclude, DoomedMayGo, Planned, InLoop
<1> QED  BY <1>1, <1>2, <1>3 DEF LedgerInv

(* and every step preserves it.                                            *)
LEMMA LedgerNext ==
  ASSUME LedgerInv, [Next]_vars
  PROVE  LedgerInv'
<1> USE DEF LedgerInv
<1>1. Typed'
  <2>1. CASE UNCHANGED vars
    BY <2>1 DEF Typed, TypeOK, vars
  <2>2. CASE Next
    BY <2>2, LedgerTypes, QuietTypes, CountDeleteTypes, CommitTypes DEF Next, RunStep
  <2> QED  BY <2>1, <2>2
<1> QED  BY <1>1, FiniteNext, LocksNext, DoomedNext, PlannedNext

(* The ledger invariant holds in every reachable state.                    *)
LEMMA LedgerAlways == Spec => []LedgerInv
BY LedgerInit, LedgerNext, PTL DEF Spec

(* Every variable keeps its type, however many runs overlap.  That needs   *)
(* the ledger invariant: what COUNT and a commit report is a number only   *)
(* because the ledger is finite and doomed rows are rows of it.            *)
THEOREM RetentionTypes == Spec => []TypeOK
<1>1. LedgerInv => TypeOK
  BY DEF LedgerInv, Typed
<1> QED  BY <1>1, LedgerAlways, PTL

(* The steps that remove rows: a manual DELETE, and the commit of a run.   *)
LEMMA WhatRemovesRows ==
  ASSUME Typed, [Next]_vars, NEW t \in Tables, NEW x \in rows[t], x \notin rows'[t]
  PROVE  \/ ~Held(t, x.key) /\ removed' = removed
         \/ \E r \in Runs : /\ Commit(r) \/ CommitFails(r)
                            /\ t = table[r] /\ x \in doomed[r]
                            /\ removed' = [removed EXCEPT ![r] = @ + Cardinality(doomed[r])]
<1>1. rows' # rows
  OBVIOUS
<1>2. ASSUME NEW w \in Tables, NEW k \in Keys, NEW d \in 0..MaxTime, InsertRow(w, k, d)
      PROVE  FALSE
  BY <1>2 DEF InsertRow, Typed, TypeOK
<1>3. ASSUME NEW u \in Users, NEW w \in Tables, NEW y \in rows[w], ManualDelete(u, w, y)
      PROVE  ~Held(t, x.key) /\ removed' = removed
  BY <1>3 DEF ManualDelete, Trigger, Typed, TypeOK
<1>4. ASSUME NEW r \in Runs, Commit(r) \/ CommitFails(r)
      PROVE  /\ t = table[r] /\ x \in doomed[r]
             /\ removed' = [removed EXCEPT ![r] = @ + Cardinality(doomed[r])]
  <2>1. /\ rows' = [rows EXCEPT ![table[r]] = @ \ doomed[r]]
        /\ removed' = [removed EXCEPT ![r] = @ + Cardinality(doomed[r])]
    BY <1>1, <1>4 DEF Commit, CommitFails, RemoveDoomed
  <2> QED  BY <2>1 DEF Typed, TypeOK
<1> QED
  BY <1>1, <1>2, <1>3, <1>4
  DEF Next, RunStep, vars, ledger, PlaceHold, ReleaseHold, Tick, Refuse, Begin, Count,
      CountFails,
      Delete, DeleteFails, OpenStatus, WriteStatus, ReplaceStatus, StatusFails, Finish, Kill

(* Legal hold: no step of the worker, of any run of the clean-up script or *)
(* of a privileged user removes a row that is under hold, wherever between *)
(* COUNT, DELETE and commit the hold was placed.                           *)
THEOREM HoldsAreHonoured == Spec => HeldRowsSurvive
<1> DEFINE Kept == \A t \in Tables : \A x \in rows[t] :
                     <<t, x.key>> \in holds => x \in rows'[t]
<1>1. LedgerInv /\ [Next]_vars => [Kept]_vars
  <2> SUFFICES ASSUME LedgerInv, [Next]_vars, NEW t \in Tables, NEW x \in rows[t],
                      <<t, x.key>> \in holds, x \notin rows'[t]
               PROVE  FALSE
    OBVIOUS
  <2>1. Held(t, x.key)
    BY DEF Held
  <2>2. PICK r \in Runs : t = table[r] /\ x \in doomed[r]
    BY <2>1, WhatRemovesRows DEF LedgerInv
  <2> QED  BY <2>1, <2>2 DEF LedgerInv, DoomedMayGo
<1> HIDE DEF Kept
<1>2. Spec => [][Kept]_vars
  BY <1>1, LedgerAlways, PTL DEF Spec
<1> QED  BY <1>2 DEF HeldRowsSurvive, Kept

(* The removed counter of a run moves only at its own commit, and only     *)
(* when that removes something.                                            *)
LEMMA WhatCounts ==
  ASSUME LedgerInv, [Next]_vars, NEW r \in Runs, removed'[r] # removed[r]
  PROVE  /\ Commit(r) \/ CommitFails(r)
         /\ rows' = [rows EXCEPT ![table[r]] = @ \ doomed[r]]
         /\ doomed[r] # {}
<1>1. removed' # removed
  OBVIOUS
<1>2. PICK s \in Runs : Commit(s) \/ CommitFails(s)
  BY <1>1
  DEF Next, RunStep, vars, InsertRow, PlaceHold, ReleaseHold, ManualDelete, Tick, Refuse, Begin,
      Count, CountFails, Delete, DeleteFails, OpenStatus, WriteStatus, ReplaceStatus,
      StatusFails,
      Finish, Kill
<1>3. /\ rows' = [rows EXCEPT ![table[s]] = @ \ doomed[s]]
      /\ removed' = [removed EXCEPT ![s] = @ + Cardinality(doomed[s])]
  BY <1>1, <1>2 DEF Commit, CommitFails, RemoveDoomed
<1>4. s = r
  BY <1>3 DEF LedgerInv, Typed, TypeOK
<1>5. doomed[r] # {}
  <2>1. Cardinality({}) = 0
    BY FS_EmptySet
  <2>2. removed'[r] = removed[r] + Cardinality(doomed[r]) /\ removed[r] \in Nat
    BY <1>3, <1>4 DEF LedgerInv, Typed, TypeOK
  <2>3. Cardinality(doomed[r]) # 0
    BY <2>2
  <2> QED  BY <2>1, <2>3
<1> QED  BY <1>2, <1>3, <1>4, <1>5

(* Retention: what a run removes is older than RetentionDays on the day of *)
(* the removal, in --execute mode and as the maintenance identity, also    *)
(* when its commit is reported as failed or comes days after its COUNT.    *)
THEOREM OnlyTheExpiredGo == Spec => RunsRemoveOnlyExpired
<1> DEFINE Expired == \A r \in Runs : removed'[r] # removed[r] =>
             /\ execute[r] /\ user[r] = "audit_maintenance"
             /\ \A t \in Tables : \A x \in rows[t] \ rows'[t] : now - x.date > RetentionDays
<1>1. LedgerInv /\ [Next]_vars => [Expired]_vars
  <2> SUFFICES ASSUME LedgerInv, [Next]_vars, NEW r \in Runs, removed'[r] # removed[r]
               PROVE  /\ execute[r] /\ user[r] = "audit_maintenance"
                      /\ \A t \in Tables : \A x \in rows[t] \ rows'[t] :
                           now - x.date > RetentionDays
    OBVIOUS
  <2>1. /\ Commit(r) \/ CommitFails(r)
        /\ rows' = [rows EXCEPT ![table[r]] = @ \ doomed[r]] /\ doomed[r] # {}
    BY WhatCounts
  <2>2. pc[r] = "commit"
    BY <2>1 DEF Commit, CommitFails
  <2>3. execute[r] /\ cutoff[r] <= now - RetentionDays
    BY <2>2 DEF LedgerInv, Planned, InLoop
  <2>4. user[r] = "audit_maintenance"
    BY <2>1 DEF LedgerInv, DoomedMayGo
  <2>5. ASSUME NEW t \in Tables, NEW x \in rows[t] \ rows'[t]
        PROVE  now - x.date > RetentionDays
    <3>1. x \in doomed[r]
      BY <2>1 DEF LedgerInv, Typed, TypeOK
    <3>2. x.date < cutoff[r] /\ x.date \in Nat
      BY <3>1 DEF LedgerInv, DoomedMayGo, Typed, TypeOK, Row
    <3>3. cutoff[r] \in Int /\ now \in Nat
      BY DEF LedgerInv, Typed, TypeOK
    <3> QED  BY <2>3, <3>2, <3>3, ParametersAssumption
  <2> QED  BY <2>3, <2>4, <2>5
<1> HIDE DEF Expired
<1>2. Spec => [][Expired]_vars
  BY <1>1, LedgerAlways, PTL DEF Spec
<1> QED  BY <1>2 DEF RunsRemoveOnlyExpired, Expired

-----------------------------------------------------------------------------
(* A run's results, seen from the table its loop is at: that table and the *)
(* ones after it have none yet.                                            *)
Unreported(r) ==
  /\ pc[r] = "idle" => table[r] = "audit_events"
  /\ pc[r] = "idle" \/ InLoop(r) =>
       /\ results[r][table[r]] = NoResult
       /\ table[r] = "audit_events" => results[r]["quarantined_audit_events"] = NoResult

(* The books balance: unless a table failed or was partial, the run has    *)
(* counted exactly the rows its commits removed.                           *)
Balanced(r) ==
  /\ overall_ok(r) => total_deleted(r) = removed[r]
  /\ pc[r] = "exit0" => overall_ok(r)

(* A status file that was written stays true, because its run is past the  *)
(* last commit.                                                            *)
FileIsTrue(f) ==
  /\ f \in StatusFiles
  /\ f \in StatusSet =>
       /\ pc[f.run] \in {"replace", "finish", "exit0", "exit1", "raised", "killed"}
       /\ f.result = "success" => f.total = removed[f.run]

TruthInv ==
  /\ LedgerInv
  /\ \A r \in Runs : Unreported(r) /\ Balanced(r)
  /\ FileIsTrue(tmp) /\ FileIsTrue(statusFile)

(* What a run reports depends on its own results only.                     *)
LEMMA SameReport ==
  ASSUME NEW r \in Runs, results'[r] = results[r]
  PROVE  overall_ok(r)' = overall_ok(r) /\ total_deleted(r)' = total_deleted(r)
BY DEF overall_ok, total_deleted, Counted

(* A run that leaves its loop with a result for a table keeps its books:   *)
(* either the table did not succeed, or its count is what was removed.     *)
LEMMA AdvanceBalances ==
  ASSUME TruthInv, NEW r \in Runs, InLoop(r), NEW result \in ResultSet, Advance(r, result),
         NEW n \in Nat, removed'[r] = removed[r] + n \/ removed'[r] = removed[r],
         \/ result.status \in {"partial", "failed"}
         \/ result.status = "success" /\ result.count = n /\ removed'[r] = removed[r] + n
         \/ result.status = "dry_run" /\ removed'[r] = removed[r]
  PROVE  Unreported(r)' /\ Balanced(r)'
<1>1. Typed
  BY DEF TruthInv, LedgerInv
<1>2. /\ results'[r] = [results[r] EXCEPT ![table[r]] = result]
      /\ \/ /\ table[r] = "audit_events" /\ table'[r] = "quarantined_audit_events"
            /\ pc'[r] = "count"
         \/ /\ table[r] = "quarantined_audit_events" /\ table'[r] = table[r]
            /\ pc'[r] \in {"open", "finish"}
  BY <1>1, AdvanceEffect
<1>3. /\ results[r] \in [Tables -> ResultSet] /\ table[r] \in Tables /\ removed[r] \in Nat
      /\ results[r][table[r]] = NoResult
      /\ table[r] = "audit_events" => results[r]["quarantined_audit_events"] = NoResult
  BY <1>1 DEF TruthInv, Unreported, Typed, TypeOK, ResultSet
<1>4. Unreported(r)'
  <2>1. table[r] = "audit_events" =>
          results'[r]["quarantined_audit_events"] = results[r]["quarantined_audit_events"]
    BY <1>2, <1>3 DEF Tables
  <2> QED  BY <1>2, <1>3, <2>1 DEF Unreported, InLoop
<1>5. CASE result.status \in {"partial", "failed"}
  <2>1. results'[r][table[r]].status \in {"partial", "failed"}
    BY <1>2, <1>3, <1>5
  <2>2. ~overall_ok(r)'
    BY <1>3, <2>1 DEF overall_ok
  <2> QED  BY <1>2, <1>4, <2>2 DEF Balanced
<1>6. CASE result.status \in {"success", "dry_run"}
  <2> DEFINE d == IF result.status = "success" THEN n ELSE 0
  <2>0. d \in Nat /\ removed'[r] = removed[r] + d
    BY <1>3, <1>6
  <2>1. \A t \in Tables \ {table[r]} : results'[r][t] = results[r][t]
    BY <1>2, <1>3
  <2>2. results'[r][table[r]] = result
    BY <1>2, <1>3
  <2>3. results[r][table[r]].status = "none"
    BY <1>3 DEF NoResult, Result
  <2>4. overall_ok(r)' => overall_ok(r)
    BY <1>3, <2>1, <2>3 DEF overall_ok
  <2> HIDE DEF d
  <2>5. (IF result.status = "success" THEN result.count ELSE 0) = d
    BY <1>6 DEF d
  <2>6. /\ Counted(r, "audit_events") \in Nat
        /\ Counted(r, "quarantined_audit_events") \in Nat
    BY <1>3 DEF Counted, ResultSet, Tables
  <2>7. total_deleted(r)' = total_deleted(r) + d
    <3>1. CASE table[r] = "audit_events"
      <4>1. Counted(r, "audit_events") = 0 /\ Counted(r, "audit_events")' = d
        BY <2>2, <2>3, <2>5, <3>1 DEF Counted
      <4>2. Counted(r, "quarantined_audit_events")' = Counted(r, "quarantined_audit_events")
        BY <2>1, <3>1 DEF Counted, Tables
      <4> QED  BY <2>0, <2>6, <4>1, <4>2 DEF total_deleted
    <3>2. CASE table[r] = "quarantined_audit_events"
      <4>1. /\ Counted(r, "quarantined_audit_events") = 0
            /\ Counted(r, "quarantined_audit_events")' = d
        BY <2>2, <2>3, <2>5, <3>2 DEF Counted
      <4>2. Counted(r, "audit_events")' = Counted(r, "audit_events")
        BY <2>1, <3>2 DEF Counted, Tables
      <4> QED  BY <2>0, <2>6, <4>1, <4>2 DEF total_deleted
    <3> QED  BY <1>2, <3>1, <3>2
  <2>8. overall_ok(r) => total_deleted(r) = removed[r]
    BY DEF TruthInv, Balanced
  <2> QED  BY <1>2, <1>4, <2>0, <2>4, <2>7, <2>8 DEF Balanced
<1> QED  BY <1>5, <1>6

(* A step of one run changes no other run's results and removes nothing in *)
(* its name.                                                               *)
LEMMA OtherBooks ==
  ASSUME Typed, NEW r \in Runs, NEW s \in Runs \ {r},
         Refuse(r) \/ Begin(r) \/ RunStep(r) \/ Kill(r)
  PROVE  removed'[s] = removed[s] /\ results'[s] = results[s]
<1>1. removed \in [Runs -> Nat] /\ DOMAIN results = Runs
  BY DEF Typed, TypeOK
<1>2. /\ removed' = removed \/ removed' = [removed EXCEPT ![r] = @ + Cardinality(doomed[r])]
      /\ results' = results \/ \E result : Advance(r, result)
  BY DEF Refuse, Begin, RunStep, Count, CountFails, Delete, DeleteFails, Commit, CommitFails,
         RemoveDoomed, OpenStatus, WriteStatus, ReplaceStatus, StatusFails, Finish, Kill
<1>3. removed'[s] = removed[s]
  BY <1>1, <1>2
<1>4. ASSUME NEW result, Advance(r, result)
      PROVE  results'[s] = results[s]
  <2>1. results' = [results EXCEPT ![r] = [results[r] EXCEPT ![table[r]] = result]]
    BY <1>4 DEF Advance
  <2> QED  BY <1>1, <2>1
<1> QED  BY <1>2, <1>3, <1>4

(* Every step of a run keeps its books, and those of the other runs.       *)
LEMMA BooksNext ==
  ASSUME TruthInv, [Next]_vars
  PROVE  \A r \in Runs : Unreported(r)' /\ Balanced(r)'
<1>0. Typed /\ LedgerFinite /\ LocksExclude
  BY DEF TruthInv, LedgerInv
<1>1. ASSUME NEW r \in Runs, pc'[r] = pc[r], table'[r] = table[r], results'[r] = results[r],
             removed'[r] = removed[r]
      PROVE  Unreported(r)' /\ Balanced(r)'
  BY <1>1, SameReport DEF TruthInv, Unreported, Balanced, InLoop
<1>2. ASSUME NEW r \in Runs, Refuse(r) \/ Begin(r) \/ RunStep(r) \/ Kill(r)
      PROVE  \A s \in Runs \ {r} : removed'[s] = removed[s] /\ results'[s] = results[s]
  BY <1>0, <1>2, OtherBooks
<1>3. ASSUME NEW r \in Runs, Refuse(r) \/ Begin(r) \/ RunStep(r) \/ Kill(r)
      PROVE  Unreported(r)' /\ Balanced(r)'
  <2>1. CASE Refuse(r) \/ Begin(r)
    <3>1. /\ results' = results /\ table' = table /\ removed' = removed /\ pc[r] = "idle"
          /\ pc'[r] \in {"exit0", "exit1", "count"}
      BY <1>0, <2>1 DEF Refuse, Begin, Typed, TypeOK
    <3>2. \A t \in Tables : results[r][t] = NoResult
      BY <3>1 DEF TruthInv, Unreported, Tables
    <3>3. overall_ok(r)
      BY <3>2 DEF overall_ok, NoResult, Result
    <3> QED  BY <3>1, <3>3, SameReport DEF TruthInv, Unreported, Balanced, InLoop
  <2>2. CASE Count(r)
    <3> DEFINE n == Cardinality(Eligible(r, table[r]))
               result == Result(IF execute[r] THEN "success" ELSE "dry_run", n)
    <3>1. n \in Nat
      BY <1>0, EligibleRows
    <3>2. \/ /\ pc' = [pc EXCEPT ![r] = "delete"] /\ UNCHANGED <<table, results>>
          \/ (execute[r] => ~(n > 0)) /\ Advance(r, result)
      BY <2>2 DEF Count
    <3> HIDE DEF n
    <3>3. pc[r] = "count" /\ removed' = removed
      BY <2>2 DEF Count
    <3>4. CASE pc' = [pc EXCEPT ![r] = "delete"] /\ UNCHANGED <<table, results>>
      BY <1>0, <3>3, <3>4, SameReport DEF TruthInv, Unreported, Balanced, InLoop, Typed, TypeOK
    <3>5. CASE (execute[r] => ~(n > 0)) /\ Advance(r, result)
      <4>1. result \in ResultSet /\ InLoop(r)
        BY <3>1, <3>3 DEF Result, ResultSet, InLoop
      <4>2. \/ result.status = "success" /\ result.count = 0
            \/ result.status = "dry_run"
        BY <3>1, <3>5 DEF Result
      <4>3. removed'[r] = removed[r] + 0 /\ 0 \in Nat
        BY <1>0, <3>3 DEF Typed, TypeOK
      <4> HIDE DEF result
      <4> QED  BY <3>3, <3>5, <4>1, <4>2, <4>3, AdvanceBalances
    <3> QED  BY <3>2, <3>4, <3>5
  <2>3. CASE CountFails(r) \/ DeleteFails(r) \/ CommitFails(r)
    <3> DEFINE n == Cardinality(doomed[r])
               result == Result("failed", 0)
    <3>1. n \in Nat
      BY <1>0, DoomedRows
    <3>2. /\ Advance(r, result) /\ InLoop(r)
          /\ removed' = [removed EXCEPT ![r] = @ + n] \/ removed' = removed
      BY <2>3 DEF CountFails, DeleteFails, CommitFails, RemoveDoomed, InLoop
    <3> HIDE DEF n
    <3>3. removed'[r] = removed[r] + n \/ removed'[r] = removed[r]
      BY <1>0, <3>2 DEF Typed, TypeOK
    <3>4. result \in ResultSet /\ result.status = "failed"
      BY DEF Result, ResultSet
    <3> HIDE DEF result
    <3> QED  BY <3>1, <3>2, <3>3, <3>4, AdvanceBalances
  <2>4. CASE Commit(r)
    <3> DEFINE n == Cardinality(doomed[r])
               result == Verdict(eligible[r], n)
    <3>1. n \in Nat
      BY <1>0, DoomedRows
    <3>2. Advance(r, result) /\ InLoop(r) /\ removed' = [removed EXCEPT ![r] = @ + n]
      BY <2>4 DEF Commit, RemoveDoomed, InLoop
    <3> HIDE DEF n
    <3>3. removed'[r] = removed[r] + n
      BY <1>0, <3>2 DEF Typed, TypeOK
    <3>4. /\ result \in ResultSet /\ result.count = n
          /\ result.status \in {"success", "partial"}
      BY <3>1 DEF Verdict, Result, ResultSet
    <3> HIDE DEF result
    <3> QED  BY <3>1, <3>2, <3>3, <3>4, AdvanceBalances
  <2>5. CASE Delete(r)
    BY <1>0, <2>5, SameReport
    DEF Delete, TruthInv, Unreported, Balanced, InLoop, Typed, TypeOK
  <2>6. CASE OpenStatus(r) \/ WriteStatus(r) \/ ReplaceStatus(r) \/ StatusFails(r) \/ Kill(r)
    <3>1. /\ results' = results /\ removed' = removed
          /\ pc'[r] \in {"write", "replace", "raised", "finish", "killed"}
      BY <1>0, <2>6 DEF OpenStatus, WriteStatus, ReplaceStatus, StatusFails, Kill, Typed, TypeOK
    <3> QED  BY <3>1, SameReport DEF TruthInv, Unreported, Balanced, InLoop
  <2>7. CASE Finish(r)
    <3>1. /\ results' = results /\ removed' = removed
          /\ pc'[r] = IF overall_ok(r) THEN "exit0" ELSE "exit1"
      BY <1>0, <2>7 DEF Finish, Typed, TypeOK
    <3> QED  BY <3>1, SameReport DEF TruthInv, Unreported, Balanced, InLoop
  <2> QED  BY <1>3, <2>1, <2>2, <2>3, <2>4, <2>5, <2>6, <2>7 DEF RunStep
<1>4. ASSUME NEW r \in Runs, Refuse(r) \/ Begin(r) \/ RunStep(r) \/ Kill(r)
      PROVE  \A s \in Runs : Unreported(s)' /\ Balanced(s)'
  <2>1. \A s \in Runs \ {r} : pc'[s] = pc[s] /\ table'[s] = table[s]
    BY <1>0, <1>4, RunStepEffect
  <2> QED  BY <1>1, <1>2, <1>3, <1>4, <2>1
<1>5. CASE UNCHANGED <<pc, table, results, removed>>
  BY <1>1, <1>5
<1> QED  BY <1>4, <1>5, LedgerStepEffect

(* A missing file, and one that was only opened, report nothing.           *)
LEMMA NotReports == NoFile \notin StatusSet /\ EmptyFile \notin StatusSet
BY DEF NoFile, EmptyFile, StatusSet

(* A status file, written or renamed, is true when it is made and stays    *)
(* true: its run removes nothing any more.                                 *)
LEMMA FilesNext ==
  ASSUME TruthInv, [Next]_vars
  PROVE  FileIsTrue(tmp)' /\ FileIsTrue(statusFile)'
<1>0. Typed /\ LedgerFinite /\ LocksExclude
  BY DEF TruthInv, LedgerInv
<1> DEFINE After == {"replace", "finish", "exit0", "exit1", "raised", "killed"}
<1>1. ASSUME NEW r \in Runs, pc[r] \in After
      PROVE  pc'[r] \in After /\ removed'[r] = removed[r]
  <2>1. ASSUME NEW s \in Runs, s # r, Refuse(s) \/ Begin(s) \/ RunStep(s) \/ Kill(s)
        PROVE  pc'[r] = pc[r] /\ removed'[r] = removed[r]
    BY <1>0, <2>1, OtherBooks, RunStepEffect
  <2>2. CASE Refuse(r) \/ Begin(r) \/ RunStep(r) \/ Kill(r)
    BY <1>0, <1>1, <2>2
    DEF Refuse, Begin, RunStep, Count, CountFails, Delete, DeleteFails, Commit, CommitFails,
        OpenStatus, WriteStatus, ReplaceStatus, StatusFails, Finish, Kill, Typed, TypeOK
  <2> QED  BY <1>1, <2>1, <2>2, LedgerStepEffect
<1>2. ASSUME NEW f, FileIsTrue(f)
      PROVE  /\ f \in StatusFiles
             /\ f \in StatusSet => /\ pc'[f.run] \in After
                                   /\ f.result = "success" => f.total = removed'[f.run]
  BY <1>1, <1>2 DEF FileIsTrue, StatusSet
<1>3. CASE UNCHANGED <<tmp, statusFile>>
  BY <1>2, <1>3 DEF TruthInv, FileIsTrue
<1>4. ASSUME NEW r \in Runs, WriteStatus(r)
      PROVE  FileIsTrue(tmp)' /\ FileIsTrue(statusFile)'
  <2>1. /\ tmp' \in {Status(r), tmp} /\ statusFile' \in {Status(r), statusFile}
        /\ pc'[r] = "replace" /\ removed' = removed
    BY <1>0, <1>4 DEF OpenStatus, WriteStatus, Typed, TypeOK
  <2>2. /\ Status(r) \in StatusSet /\ Status(r).run = r
        /\ Status(r).result = "success" => Status(r).total = removed[r]
    <3>1. overall_ok(r) => total_deleted(r) = removed[r]
      BY DEF TruthInv, Balanced
    <3> QED  BY <1>0, <3>1, StatusType DEF Status
  <2> QED  BY <1>2, <2>1, <2>2 DEF TruthInv, FileIsTrue, StatusFiles
<1>5. ASSUME NEW r \in Runs, ReplaceStatus(r)
      PROVE  FileIsTrue(tmp)' /\ FileIsTrue(statusFile)'
  <2>1. /\ tmp' \in {tmp, NoFile} /\ statusFile' \in {tmp, statusFile}
    BY <1>5 DEF ReplaceStatus, files
  <2> QED  BY <1>2, <2>1, NotReports DEF TruthInv, FileIsTrue, StatusFiles
<1>6. ASSUME NEW r \in Runs, OpenStatus(r)
      PROVE  FileIsTrue(tmp)' /\ FileIsTrue(statusFile)'
  <2>1. tmp' = EmptyFile /\ statusFile' = statusFile
    BY <1>6 DEF OpenStatus
  <2> QED  BY <1>2, <2>1, NotReports DEF TruthInv, FileIsTrue, StatusFiles
<1> QED
  BY <1>3, <1>4, <1>5, <1>6
  DEF Next, RunStep, vars, files, InsertRow, PlaceHold, ReleaseHold, ManualDelete, Tick,
      Refuse, Begin, Count, CountFails, Delete, DeleteFails, Commit, CommitFails, StatusFails,
      Finish, Kill

(* No run is "silently upgraded to complete success": one that exits with  *)
(* 0 after --execute, or whose status file reports success, has reported   *)
(* exactly the rows it removed, whatever overlapped with it or failed.     *)
THEOREM SuccessIsTrue == Spec => []SuccessIsTheWholeTruth
<1>1. Init => TruthInv
  <2> SUFFICES ASSUME Init
               PROVE  TruthInv
    OBVIOUS
  <2>1. \A r \in Runs : \A t \in Tables : results[r][t].status = "none"
    BY DEF Init, NoResult, Result
  <2>2. ASSUME NEW r \in Runs
        PROVE  Unreported(r) /\ Balanced(r)
    <3>1. total_deleted(r) = 0
      BY <2>1 DEF total_deleted, Counted, Tables
    <3> QED  BY <3>1 DEF Init, Unreported, Balanced, Tables
  <2>3. FileIsTrue(tmp) /\ FileIsTrue(statusFile)
    BY NotReports DEF Init, FileIsTrue, StatusFiles
  <2> QED  BY <2>2, <2>3, LedgerInit DEF TruthInv
<1>2. TruthInv /\ [Next]_vars => TruthInv'
  BY LedgerNext, BooksNext, FilesNext DEF TruthInv
<1>3. TruthInv => SuccessIsTheWholeTruth
  BY DEF TruthInv, Balanced, FileIsTrue, StatusFiles, NoFile, EmptyFile, SuccessIsTheWholeTruth
<1> QED  BY <1>1, <1>2, <1>3, PTL DEF Spec

-----------------------------------------------------------------------------
(* Overlapping runs cannot block each other for good: whoever holds row    *)
(* locks is about to commit, and a commit waits for nobody.  So a run that *)
(* waits for the locks of a table waits for one that does not.             *)
THEOREM NobodyIsStuck == Spec => []NoStandstill
<1>1. LedgerInv => NoStandstill
  <2> SUFFICES ASSUME LedgerInv, NEW r \in Runs, UnderWay(r), Waits(r)
               PROVE  \E s \in Runs : UnderWay(s) /\ ~Waits(s)
    BY DEF NoStandstill
  <2>1. PICK s \in Runs : doomed[s] # {}
    BY DEF Waits, Locked
  <2>2. pc[s] = "commit"
    BY <2>1 DEF LedgerInv, LocksExclude
  <2> QED  BY <2>2 DEF UnderWay, Ended, Waits
<1> QED  BY <1>1, LedgerAlways, PTL

(* How much of a run is left: of its last four steps, the three of each    *)
(* table before them, and its beginning.                                   *)
Place(p) ==
  CASE p = "open"                  -> 4
    [] p \in {"count", "write"}    -> 3
    [] p \in {"delete", "replace"} -> 2
    [] p \in {"commit", "finish"}  -> 1
    [] OTHER                       -> 0
Remaining(r) ==
  CASE pc[r] = "idle" -> 11
    [] InLoop(r)      -> Place(pc[r]) + (IF table[r] = "audit_events" THEN 7 ELSE 4)
    [] OTHER          -> Place(pc[r])

(* A run never goes back: whatever happens, it is where it was, or it has  *)
(* less left to do than before.  With NobodyIsStuck this is why all runs   *)
(* end.                                                                    *)
THEOREM RunsOnlyAdvance ==
  Spec => [][\A r \in Runs : \/ pc'[r] = pc[r] /\ table'[r] = table[r]
                             \/ Remaining(r)' < Remaining(r)]_vars
<1>1. ASSUME TypeOK, Next, NEW r \in Runs
      PROVE  \/ pc'[r] = pc[r] /\ table'[r] = table[r]
             \/ Remaining(r)' < Remaining(r)
  <2>1. ASSUME NEW s \in Runs, Refuse(s) \/ Begin(s) \/ RunStep(s) \/ Kill(s), s # r
        PROVE  pc'[r] = pc[r] /\ table'[r] = table[r]
    BY <1>1, <2>1
    DEF Refuse, Begin, RunStep, Kill, Count, CountFails, Delete, DeleteFails, Commit,
        CommitFails,
        OpenStatus, WriteStatus, ReplaceStatus, StatusFails, Finish, Advance, TypeOK
  <2>2. CASE Refuse(r) \/ Begin(r)
    <3>1. pc[r] = "idle" /\ pc'[r] \in {"exit0", "exit1", "count"}
      BY <1>1, <2>2 DEF Refuse, Begin, TypeOK
    <3> QED  BY <3>1 DEF Remaining, Place, InLoop
  <2>3. ASSUME NEW result, Advance(r, result), InLoop(r)
        PROVE  Remaining(r)' < Remaining(r)
    <3>1. CASE table[r] = "audit_events"
      <4>1. pc'[r] = "count" /\ table'[r] = "quarantined_audit_events"
        BY <1>1, <2>3, <3>1 DEF Advance, TypeOK
      <4> QED  BY <2>3, <3>1, <4>1 DEF Remaining, Place, InLoop
    <3>2. CASE table[r] # "audit_events"
      <4>1. pc'[r] \in {"open", "finish"} /\ table'[r] = table[r]
        BY <1>1, <2>3, <3>2 DEF Advance, TypeOK
      <4> QED  BY <2>3, <3>2, <4>1 DEF Remaining, Place, InLoop
    <3> QED  BY <3>1, <3>2
  <2>4. CASE Count(r) \/ CountFails(r) \/ DeleteFails(r) \/ Commit(r) \/ CommitFails(r)
    <3>1. CASE \E result : Advance(r, result)
      BY <2>3, <2>4, <3>1 DEF Count, CountFails, DeleteFails, Commit, CommitFails, InLoop
    <3>2. CASE pc[r] = "count" /\ pc' = [pc EXCEPT ![r] = "delete"] /\ UNCHANGED table
      BY <1>1, <3>2 DEF Remaining, Place, InLoop, TypeOK
    <3> QED
      BY <2>4, <3>1, <3>2 DEF Count, CountFails, DeleteFails, Commit, CommitFails
  <2>5. CASE Delete(r)
    <3>1. pc[r] = "delete" /\ pc'[r] = "commit" /\ table'[r] = table[r]
      BY <1>1, <2>5 DEF Delete, TypeOK
    <3> QED  BY <3>1 DEF Remaining, Place, InLoop
  <2>6. CASE OpenStatus(r) \/ WriteStatus(r) \/ ReplaceStatus(r) \/ StatusFails(r) \/ Finish(r)
    <3>1. \/ pc[r] = "open" /\ pc'[r] \in {"write", "raised"}
          \/ pc[r] = "write" /\ pc'[r] = "replace"
          \/ pc[r] = "replace" /\ pc'[r] \in {"raised", "finish"}
          \/ pc[r] = "write" /\ pc'[r] = "raised"
          \/ pc[r] = "finish" /\ pc'[r] \in {"exit0", "exit1"}
      BY <1>1, <2>6 DEF OpenStatus, WriteStatus, ReplaceStatus, StatusFails, Finish, TypeOK
    <3> QED  BY <3>1 DEF Remaining, Place, InLoop
  <2>7. CASE Kill(r)
    <3>1. UnderWay(r) /\ pc'[r] = "killed"
      BY <1>1, <2>7 DEF Kill, UnderWay, TypeOK
    <3>2. pc[r] \in {"count", "delete", "commit", "open", "write", "replace", "finish"}
      BY <1>1, <3>1 DEF UnderWay, Ended, TypeOK
    <3> QED  BY <3>1, <3>2 DEF Remaining, Place, InLoop
  <2> QED
    BY <1>1, <2>1, <2>2, <2>4, <2>5, <2>6, <2>7
    DEF Next, RunStep, InsertRow, PlaceHold, ReleaseHold, ManualDelete, Tick
<1>2. ASSUME TypeOK, [Next]_vars
      PROVE  [\A r \in Runs : \/ pc'[r] = pc[r] /\ table'[r] = table[r]
                              \/ Remaining(r)' < Remaining(r)]_vars
  BY <1>1, <1>2
<1> QED  BY <1>2, RetentionTypes, PTL DEF Spec
=============================================================================
