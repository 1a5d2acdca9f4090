--------------------------- MODULE AuditConsumers ---------------------------
(***************************************************************************)
(* The pure functions of the consumer: what consumers/processor.py,        *)
(* consumers/sink.py and consumers/quarantine.py compute from the fields   *)
(* of one Redis Streams entry.                                             *)
(*                                                                         *)
(* An entry's fields are abstracted to what the consumer's branches tell   *)
(* apart:                                                                  *)
(*   data      "event": json.loads and AuditEvent's validation succeed;    *)
(*             "otherObject": a JSON object that AuditEvent rejects (a     *)
(*             missing field, an inconsistent tenant_scope); "notObject":  *)
(*             JSON, but no object; "notJson": json.loads raises;          *)
(*             "absent": the entry has no data field;                      *)
(*   sig       the sig field: absent, or (in)valid for (service, data);    *)
(*   event_id  the event_id inside data, the primary key of audit_events,  *)
(*             or Omitted: AuditEvent then mints a new one at every parse; *)
(*   rowFits   the audit_events columns accept the decomposed row (a       *)
(*             String(255) service or action may overflow);                *)
(*   rawFits   the quarantined_audit_events columns accept the raw entry   *)
(*             (Text raw_data and String(255) service may overflow).       *)
(***************************************************************************)
CONSTANTS EventId,   \* the event_ids producers use
          Omitted    \* the payload has no event_id

ASSUME OmittedAssumption == Omitted \notin EventId

Data == {"event", "otherObject", "notObject", "notJson", "absent"}

Fields == [data     : Data,
           sig      : {"none", "good", "bad"},
           event_id : EventId \cup {Omitted},
           rowFits  : BOOLEAN,
           rawFits  : BOOLEAN]

(* What XRANGE leaves of an entry that is no longer in the stream: {}.     *)
NoFields == [data |-> "absent", sig |-> "none"]

IntegrityStatus == {"valid", "invalid", "unsigned"}
FailureCategory == {"malformed", "persistence_exhausted"}

-----------------------------------------------------------------------------
(* parse_audit_event: json.loads, then AuditEvent's validation; every      *)
(* other form of data raises.                                              *)
parse_audit_event(f) == f.data = "event"

(* The event_id of the parsed event; fresh is a UUID never used before.    *)
parsed_event_id(f, fresh) == IF f.event_id = Omitted THEN fresh ELSE f.event_id

(* verify_audit_event: the MAC covers the service and the exact            *)
(* transmitted data, and anything malformed is simply not valid.           *)
verify_audit_event(f) == f.sig = "good"

(* classify_event_integrity: an empty signature is "unsigned", never       *)
(* "invalid".                                                              *)
classify_event_integrity(f) ==
  CASE f.sig = "none"        -> "unsigned"
    [] verify_audit_event(f) -> "valid"
    [] OTHER                 -> "invalid"

\* Mutant: the category echoes the payload.
MutantEchoPayload(f) == f.data

(* classify_poison_reason: a diagnosis that re-parses the JSON and does    *)
(* not validate it as an AuditEvent.                                       *)
classify_poison_reason(f) ==
  IF f.data \in {"absent", "notJson", "notObject"}
    THEN "malformed" ELSE "persistence_exhausted"

(* The row Sink.write inserts for entry m at the server's time now.  The   *)
(* columns decomposed from data are a function of the entry, so the        *)
(* entry's ID stands for them; created_at tells two inserts of one entry   *)
(* apart.                                                                  *)
AuditEventRecord(m, f, fresh, now) ==
  [event_id         |-> parsed_event_id(f, fresh),
   columns          |-> m,
   integrity_status |-> classify_event_integrity(f),
   created_at       |-> now]

(* The row QuarantineSink.write inserts for entry m, given the fields that *)
(* claim_stale fetched, XPENDING's times_delivered and the server's time.  *)
QuarantinedAuditEvent(m, f, attempts, now) ==
  [stream_message_id |-> m,
   raw_data          |-> f.data,
   failure_category  |-> classify_poison_reason(f),
   delivery_attempts |-> attempts,
   quarantined_at    |-> now]
=============================================================================
