-------------------------- MODULE MCPipelineHealth --------------------------
(***************************************************************************)
(* A small instance of PipelineHealth for TLC.                             *)
(***************************************************************************)
EXTENDS PipelineHealth

CONSTANTS w1, e1, e2

Entry(data, id) ==
  [data |-> data, sig |-> "good", event_id |-> id, rowFits |-> TRUE, rawFits |-> TRUE]

GoodAndPoison == {Entry("event", e1), Entry("notJson", Omitted)}
=============================================================================
