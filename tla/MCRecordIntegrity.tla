------------------------- MODULE MCRecordIntegrity --------------------------
(***************************************************************************)
(* Small instances of RecordIntegrity for TLC, and what the verifier says  *)
(* of its alert that the runs do not bear out.                             *)
(***************************************************************************)
EXTENDS RecordIntegrity, TLC

CONSTANTS kid1, kid2

KeySymmetry == Permutations({kid1, kid2})

Row(required, text, json) == [required |-> required, text |-> text, json |-> json]
Word(w) == << <<w>> >>

(* Rows the HMAC tells apart and rows it does not: NULL and the text None, *)
(* a NULL context and {}, and two columns whose line break is in the one   *)
(* or in the other; and a row whose required column is "".                 *)
EveryValue ==
  {Row(Word("a"), None, None), Row(Word("a"), Word("None"), None),
   Row(Word("a"), None, Word("{}")), Row(<< <<>> >>, None, None),
   Row(<< <<"a">>, <<"text", "b">> >>, Word("c"), None),
   Row(Word("a"), << <<"b">>, <<"text", "c">> >>, None)}

TwoValues == {Row(Word("a"), None, None), Row(Word("b"), None, None)}

(* In quarters of a second: a naive half second, which MySQL rounds up, a  *)
(* fraction in UTC that it rounds down, and a half second written one      *)
(* second east of UTC.                                                     *)
EveryForm ==
  {[wall |-> 2, offset |-> Naive], [wall |-> 1, offset |-> 0], [wall |-> 6, offset |-> 4]}

WholeSecond == {[wall |-> 0, offset |-> Naive]}

(* scripts/verify_audit_integrity.py: detected tampering "must not depend  *)
(* on someone reading this script's exit code".                            *)
DetectionAlerts ==
  pc \in {"exit1", "raised"} /\ (\E t \in Tables : invalid(t) # {}) => alerted
=============================================================================
