-------------------------- MODULE MCAuditPipeline ---------------------------
(***************************************************************************)
(* Small instances of AuditPipeline for TLC, and what the repository's     *)
(* comments and docs say of the pipeline that the code does not do.        *)
(***************************************************************************)
EXTENDS AuditPipeline, TLC

CONSTANTS w1, w2, e1, e2

Entry(data, sig, id, fits) ==
  [data |-> data, sig |-> sig, event_id |-> id, rowFits |-> fits, rawFits |-> fits]

Good      == Entry("event", "good", e1, TRUE)
Forged    == Entry("event", "bad", e1, TRUE)            \* reuses Good's event_id
Anonymous == Entry("event", "good", Omitted, TRUE)      \* no event_id
Oversized == Entry("event", "good", e2, FALSE)          \* an overlong service
Garbled   == Entry("notObject", "none", Omitted, TRUE)  \* no event at all

OnlyGood         == {Good}
GoodAndOversized == {Good, Oversized}
MixedKinds       == {Good, Forged, Anonymous, Garbled}

WorkerSymmetry == Permutations({w1, w2})

-----------------------------------------------------------------------------
(* worker/main.py, handle_message: once an entry has sat unacked for       *)
(* PEL_MIN_IDLE_MS, "ANY live worker [...] reclaims it and runs it back    *)
(* through this exact function": a pending event that MySQL would accept   *)
(* gets there.                                                             *)
PendingIsRetried ==
  \A m \in Id : (m \in Pending /\ Persistable(m)) ~> (m \in Published /\ Durable(m))

=============================================================================
