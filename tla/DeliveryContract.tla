-------------------------- MODULE DeliveryContract --------------------------
(***************************************************************************)
(* What the delivery path promises, without streams, groups, workers or    *)
(* retries.  An entry is published once; the transport may evict it; it    *)
(* may reach durable record, and then never leaves it; and it may be       *)
(* settled (taken off the transport's books as dealt with), only once it   *)
(* is on durable record.  AuditPipeline implements this contract.          *)
(***************************************************************************)
EXTENDS Naturals

CONSTANT Id        \* the entries

VARIABLES
  published,       \* added to the transport
  evicted,         \* no longer in the transport
  durable,         \* on durable record
  settled          \* acknowledged

contractVars == <<published, evicted, durable, settled>>

ContractInit ==
  published = {} /\ evicted = {} /\ durable = {} /\ settled = {}

(* A new entry is published, and the transport may make room for it.  A    *)
(* repetition of an event already on record is on record from the start.   *)
Publish ==
  \E n \in Id \ published :
    /\ published' = published \cup {n}
    /\ evicted \subseteq evicted' /\ evicted' \subseteq published'
    /\ durable' \in {durable, durable \cup {n}}
    /\ UNCHANGED settled

(* The transport loses entries.                                            *)
Evict ==
  /\ evicted \subseteq evicted' /\ evicted' \subseteq published
  /\ UNCHANGED <<published, durable, settled>>

(* Published entries reach durable record; several at once when they       *)
(* repeat one event.                                                       *)
Record ==
  /\ durable \subseteq durable' /\ durable' \subseteq published
  /\ UNCHANGED <<published, evicted, settled>>

Settle ==
  /\ \E m \in durable : settled' = settled \cup {m}
  /\ UNCHANGED <<published, evicted, durable>>

ContractNext == Publish \/ Evict \/ Record \/ Settle

ContractSpec == ContractInit /\ [][ContractNext]_contractVars
=============================================================================
