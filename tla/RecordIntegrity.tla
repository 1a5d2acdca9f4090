--------------------------- MODULE RecordIntegrity --------------------------
(***************************************************************************)
(* Stored-record tamper detection: the HMAC that the worker stores with    *)
(* every row (audit/record_integrity.py, called by consumers/sink.py and   *)
(* consumers/quarantine.py), and scripts/verify_audit_integrity.py, which  *)
(* recomputes it from what MySQL returns, while the worker keeps writing,  *)
(* is upgraded, and its key is rotated.                                    *)
(*                                                                         *)
(* Time is in quarter seconds: enough to tell what rounds down from what   *)
(* rounds up.  A datetime is its wall clock and its UTC offset, or Naive.  *)
(* Three columns stand for the others, in the order of the field lists: a  *)
(* required text (action, failure_category), one that may be NULL (reason, *)
(* failure_detail), and the JSON of context, which quarantined records do  *)
(* not have.  A text is a sequence of lines and a line is a sequence of    *)
(* words, taken apart at its "=", so that a stored line can look like a    *)
(* field of the message; keys have no line breaks.  The HMAC is ideal:     *)
(* equal only for the same secret and the same canonical message.          *)
(***************************************************************************)
EXTENDS Integers, FiniteSets, Sequences

CONSTANTS
  Keys,            \* event_id and stream_message_id values
  Timestamps,      \* the datetimes producers send
  Contents,        \* the values of the other columns, column by column
  Words,           \* the words that lines are made of
  KeyIds,          \* the record integrity key IDs, each with its own secret
  Naive,           \* tzinfo is None
  None,            \* NULL; no key ID, no key, no hash
  MaxRuns,         \* bound: how often the verifier runs
  MaxAlterations,  \* bound: how many rows are altered behind the writer's back
  MaxFaults        \* bound: failing calls of the verifier

Tables  == {"audit_events", "quarantined_audit_events"}
Columns == {"required", "text", "json"}
Lines   == Seq(Words)
Texts   == Seq(Lines) \ {<<>>}

ASSUME ConstantsAssumption ==
  /\ None \notin KeyIds \cup {"legacy"} /\ Naive \notin Int
  /\ Timestamps \subseteq [wall : Int, offset : Int \cup {Naive}]
  /\ Columns \cup {"None", "{}"} \subseteq Words
  /\ Contents \subseteq [Columns -> Texts \cup {None}]
  /\ {MaxRuns, MaxAlterations, MaxFaults} \subseteq Nat

VARIABLES
  release,      \* which writer is deployed
  workerKey,    \* AUDIT_RECORD_INTEGRITY_KEY(_ID) of the worker
  rows,         \* table -> its rows
  origin,       \* history: table -> the rows as the writer stored them
  pc,           \* where the verifier is
  keyring,      \* what _resolve_keyring returned: its legacy and current keys
  scanned,      \* table -> the rows this run has read
  tmp,          \* the .tmp file of the status file: a result, or None
  statusFile,   \* LAST_VERIFICATION_RESULT of the status file, or None
  alerted,      \* this run emitted integrity_verification_failed
  runs, alterations, faults  \* how much of the bounds is spent

deployment == <<release, workerKey>>
files      == <<tmp, statusFile>>
vars == <<release, workerKey, rows, origin, pc, keyring, scanned, tmp, statusFile,
          alerted, runs, alterations, faults>>

Releases == {"unhashed", "utcForm", "current"}
NoRows == [t \in Tables |-> {}]

Init ==
  /\ release = "unhashed" /\ workerKey \in KeyIds
  /\ rows = NoRows /\ origin = NoRows
  /\ pc = "idle" /\ keyring = {} /\ scanned = NoRows
  /\ tmp = None /\ statusFile = None /\ alerted = FALSE
  /\ runs = 0 /\ alterations = 0 /\ faults = 0

-----------------------------------------------------------------------------
(* audit/record_integrity.py.                                              *)

to_naive_utc(ts) ==
  IF ts.offset = Naive THEN ts ELSE [wall |-> ts.wall - ts.offset, offset |-> Naive]

\* Mutant: the fraction of a second is cut off.
MutantFloor(ts) == to_naive_utc(ts).wall \div 4

(* The timestamp's part of the canonical message: naive UTC, rounded to    *)
(* the nearest second, a half up.                                          *)
canonical_timestamp(ts) == (to_naive_utc(ts).wall + 2) \div 4

(* What a DATETIME column, which has no fractions, makes of a naive value. *)
mysql_datetime(ts) == [wall |-> 4 * ((ts.wall + 2) \div 4), offset |-> Naive]

\* Mutant: a column is left out of the message.
MutantUncovered(t, row, legacy_utc_suffix, key_id) ==
  [table |-> t, key |-> row.key, second |-> canonical_timestamp(row.timestamp),
   suffix |-> legacy_utc_suffix, content |-> <<>>, key_id |-> key_id]

(* How _canonical_message reads a column: context is {} when it is NULL,   *)
(* and !s turns any other NULL into the word None.                         *)
shown(field, value) ==
  IF value # None THEN value ELSE << <<IF field = "json" THEN "{}" ELSE "None">> >>

(* f"{field}={value!s}": the first line carries the name.                  *)
part(field, value) ==
  LET lines == shown(field, value) IN << <<field>> \o Head(lines) >> \o Tail(lines)

(* The parts, joined with line breaks.                                     *)
joined(c) == part("required", c.required) \o part("text", c.text) \o part("json", c.json)

(* _canonical_message: the fields that are covered, their order fixed.     *)
(* Quarantined records have no timestamp among them.                       *)
canonical_message(t, row, legacy_utc_suffix, key_id) ==
  [table   |-> t,
   key     |-> row.key,
   second  |-> IF t = "audit_events" THEN canonical_timestamp(row.timestamp) ELSE 0,
   suffix  |-> legacy_utc_suffix,
   content |-> joined(row.content),
   key_id  |-> key_id]

compute_hash(t, row, secret, key_id) ==
  [secret |-> secret, message |-> canonical_message(t, row, FALSE, key_id)]

matches_legacy_utc_form(t, row, secret) ==
  row.hash = [secret |-> secret, message |-> canonical_message(t, row, TRUE, None)]

(* verify_audit_event_hash and verify_quarantine_record_hash, for a row    *)
(* that has a hash.                                                        *)
verify_hash(t, row, secret, key_id) ==
  \/ row.hash = compute_hash(t, row, secret, key_id)
  \/ t = "audit_events" /\ key_id = None /\ matches_legacy_utc_form(t, row, secret)

-----------------------------------------------------------------------------
(* The writer, as it was before hashes, before the "+00:00" fix and the    *)
(* dedicated key, and as it is.  The old writers are known from the rows   *)
(* they left: their producers sent UTC or naive timestamps.                *)
Hash(t, key, ts, c) ==
  LET row == [key |-> key, timestamp |-> ts, content |-> c]
  IN CASE release = "unhashed" -> None
       [] release = "utcForm" ->
            [secret |-> "legacy",
             message |-> canonical_message(t, row, t = "audit_events" /\ ts.offset # Naive, None)]
       [] release = "current" -> compute_hash(t, row, workerKey, workerKey)

(* The value Sink.write hands to the driver, as the column keeps it.       *)
stored_timestamp(ts) == mysql_datetime(to_naive_utc(ts))

(* Sink.write or QuarantineSink.write of a key that is not there yet; a    *)
(* duplicate is rolled back.  The hash is computed once, from the value    *)
(* before MySQL rounds it.                                                 *)
Write(t, key, ts, c) ==
  LET row == [key       |-> key,
              timestamp |-> stored_timestamp(ts),
              content   |-> c,
              hash      |-> Hash(t, key, ts, c),
              key_id    |-> IF release = "current" THEN workerKey ELSE None]
  IN /\ \A r \in rows[t] : r.key # key
     /\ release # "current" => ts.offset \in {Naive, 0}
     /\ rows' = [rows EXCEPT ![t] = @ \cup {row}]
     /\ origin' = [origin EXCEPT ![t] = @ \cup {row}]
     /\ UNCHANGED <<deployment, pc, keyring, scanned, files, alerted, runs, alterations, faults>>

(* A quarantined record carries no datetime but the server's own, which    *)
(* the hash does not cover.                                                *)
TimestampsOf(t) ==
  IF t = "audit_events" THEN Timestamps ELSE {[wall |-> 0, offset |-> Naive]}

(* A required column that is NULL or "".                                   *)
Blank(c) == c.required \in {None, << <<>> >>}

(* Quarantined records have no JSON column.                                *)
ColumnsOf(t) == IF t = "audit_events" THEN Contents ELSE {c \in Contents : c.json = None}

(* AuditEvent lets a producer leave action empty, not NULL; QuarantineSink *)
(* fills all the columns that quarantined records require.                 *)
ContentsOf(t) ==
  {c \in ColumnsOf(t) : c.required # None /\ (t = "audit_events" \/ ~Blank(c))}

Upgrade ==
  /\ release # "current"
  /\ release' = IF release = "unhashed" THEN "utcForm" ELSE "current"
  /\ UNCHANGED <<workerKey, rows, origin, pc, keyring, scanned, files,
                 alerted, runs, alterations, faults>>

(* The dedicated key is rotated; the verifier's environment follows, or    *)
(* does not.                                                               *)
RotateWorkerKey ==
  /\ release = "current"
  /\ \E k \in KeyIds \ {workerKey} : workerKey' = k
  /\ UNCHANGED <<release, rows, origin, pc, keyring, scanned, files, alerted, runs,
                 alterations, faults>>

(* A stored row changes behind the writer's back, a column at a time: a    *)
(* value, the timestamp by a second, the key ID, or a lost hash.           *)
Altered(t, row) ==
  {[row EXCEPT !.content = c] : c \in ColumnsOf(t)}
    \cup {[row EXCEPT !.key_id = k] : k \in KeyIds \cup {None}}
    \cup {[row EXCEPT !.hash = None]}
    \cup (IF t = "audit_events" THEN {[row EXCEPT !.timestamp.wall = @ + 4]} ELSE {})

Alter(t, row) ==
  /\ alterations < MaxAlterations /\ alterations' = alterations + 1
  /\ \E new \in Altered(t, row) \ {row} : rows' = [rows EXCEPT ![t] = (@ \ {row}) \cup {new}]
  /\ UNCHANGED <<deployment, origin, pc, keyring, scanned, files, alerted, runs, faults>>

-----------------------------------------------------------------------------
(* scripts/verify_audit_integrity.py.                                      *)

(* _resolve_keyring, in whatever environment the run is started: it may    *)
(* have the legacy key, known under a reserved ID, and one current key.    *)
(* The run ends here when no key is configured, as it does for keys that   *)
(* break the policy and without a database URL.                            *)
ResolveKeyring ==
  /\ pc \in {"idle", "exit0", "exit1", "raised"} /\ runs < MaxRuns
  /\ runs' = runs + 1 /\ scanned' = NoRows /\ alerted' = FALSE
  /\ \E legacy \in {{}, {"legacy"}}, current \in {{}} \cup {{k} : k \in KeyIds} :
       keyring' = legacy \cup current
  /\ pc' = IF keyring' = {} THEN "exit1" ELSE "events"
  /\ UNCHANGED <<deployment, rows, origin, files, alterations, faults>>

(* _selected_key: at most one key, by the row's key ID.                    *)
selected_key(row) == keyring \cap {IF row.key_id = None THEN "legacy" ELSE row.key_id}

no_baseline(t)  == {row \in scanned[t] : row.hash = None}
unverifiable(t) == {row \in scanned[t] \ no_baseline(t) : selected_key(row) = {}}
invalid(t) ==
  {row \in scanned[t] \ no_baseline(t) :
     \E secret \in selected_key(row) : ~verify_hash(t, row, secret, row.key_id)}
structural(t)   == {row \in scanned[t] : Blank(row.content)}

\* Mutant: rows whose key is missing are counted and tolerated.
MutantNoKeyPasses(t) == invalid(t) = {} /\ structural(t) = {} /\ no_baseline(t) = {}

(* _report, one table.                                                     *)
report_ok(t) ==
  invalid(t) = {} /\ structural(t) = {} /\ unverifiable(t) = {} /\ no_baseline(t) = {}

passed == \A t \in Tables : report_ok(t)

(* verify_audit_events and verify_quarantine_records: one consistent read  *)
(* of the table each.                                                      *)
Scan(t, from, to) ==
  /\ pc = from
  /\ scanned' = [scanned EXCEPT ![t] = rows[t]]
  /\ pc' = to
  /\ UNCHANGED <<deployment, rows, origin, keyring, files, alerted, runs, alterations, faults>>
ScanEvents == Scan("audit_events", "events", "quarantine")
ScanQuarantine == Scan("quarantined_audit_events", "quarantine", "write")

(* A query, or the status directory, fails: nothing catches it.            *)
Raise ==
  /\ pc \in {"events", "quarantine", "write", "replace"}
  /\ faults < MaxFaults /\ faults' = faults + 1
  /\ pc' = "raised"
  /\ UNCHANGED <<deployment, rows, origin, keyring, scanned, files, alerted, runs, alterations>>

(* _write_status_file.                                                     *)
WriteStatus ==
  /\ pc = "write"
  /\ tmp' = IF passed THEN "pass" ELSE "fail"
  /\ pc' = "replace"
  /\ UNCHANGED <<deployment, rows, origin, keyring, scanned, statusFile, alerted, runs,
                 alterations, faults>>
ReplaceStatus ==
  /\ pc = "replace"
  /\ statusFile' = tmp /\ tmp' = None
  /\ pc' = "finish"
  /\ UNCHANGED <<deployment, rows, origin, keyring, scanned, alerted, runs, alterations, faults>>

(* The end of main(): the alert and the exit status.                       *)
Finish ==
  /\ pc = "finish"
  /\ alerted' = ~passed
  /\ pc' = IF passed THEN "exit0" ELSE "exit1"
  /\ UNCHANGED <<deployment, rows, origin, keyring, scanned, files, runs, alterations, faults>>

-----------------------------------------------------------------------------
Next ==
  \/ \E t \in Tables, k \in Keys :
       \E ts \in TimestampsOf(t), c \in ContentsOf(t) : Write(t, k, ts, c)
  \/ Upgrade \/ RotateWorkerKey
  \/ \E t \in Tables : \E row \in rows[t] : Alter(t, row)
  \/ ResolveKeyring \/ ScanEvents \/ ScanQuarantine \/ Raise
  \/ WriteStatus \/ ReplaceStatus \/ Finish

Spec == Init /\ [][Next]_vars

-----------------------------------------------------------------------------
(* "A mismatch means the row's columns have changed since it was written": *)
(* a record reported as tampered or corrupted is not one that the writer   *)
(* stored, whatever its time zone, its fraction of a second, the release   *)
(* that wrote it, and the keys configured since.                           *)
NoFalseAlarm == \A t \in Tables : invalid(t) \cap origin[t] = {}

(* What the HMAC cannot tell apart, although record_integrity.py says that *)
(* "any changed field still breaks the HMAC": NULL from the text None, a   *)
(* NULL context from {}, and, where a column has line breaks, which column *)
(* a line belongs to.                                                      *)
SameReading(c, d) == \A f \in Columns : shown(f, c[f]) = shown(f, d[f])
HasLineBreak(c) == \E f \in Columns : c[f] # None /\ Len(c[f]) > 1

(* The row is the stored row o but for such a difference.                  *)
Alike(row, o) ==
  /\ row.key = o.key /\ row.timestamp = o.timestamp
  /\ row.hash = o.hash /\ row.key_id = o.key_id
  /\ \/ SameReading(row.content, o.content)
     \/ /\ HasLineBreak(row.content) /\ HasLineBreak(o.content)
        /\ joined(row.content) = joined(o.content)

(* The report names every row that is not as the writer stored it, up to   *)
(* what the HMAC cannot tell apart: as tampered, or, when its hash is lost *)
(* or the verifier lacks its key, as one that it cannot vouch for.         *)
(* Neither the legacy form nor the key that an altered key ID selects      *)
(* covers an alteration, and the fields of one row never read as another's.*)
AlteredRowsShow ==
  \A t \in Tables :
    \A row \in scanned[t] \ (invalid(t) \cup unverifiable(t) \cup no_baseline(t)) :
      \E o \in origin[t] : Alike(row, o)

(* The verifier "never silently reports clean when it couldn't actually    *)
(* check": a run that exits with 0, or publishes pass, has read nothing    *)
(* but rows that are, up to what the HMAC cannot tell apart, as the writer *)
(* stored them, with a hash, under a key it had.                           *)
PassMeansIntact ==
  pc = "exit0" \/ (pc = "finish" /\ statusFile = "pass") =>
    \A t \in Tables : \A row \in scanned[t] :
      row.hash # None /\ \E o \in origin[t] : Alike(row, o)
=============================================================================
