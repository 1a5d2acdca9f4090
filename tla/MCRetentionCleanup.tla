------------------------- MODULE MCRetentionCleanup -------------------------
(***************************************************************************)
(* Two overlapping runs of RetentionCleanup for TLC.                       *)
(***************************************************************************)
EXTENDS RetentionCleanup, TLC

CONSTANTS r1, r2, k1

RunSymmetry == Permutations({r1, r2})

(* States that differ only in what nothing reads any more are the same     *)
(* state to TLC: the locals of a run that has ended without success, the   *)
(* identity, cutoff, table and count of one that has left its loop, the    *)
(* count of the table before.  No action and no property reads them there. *)
Live(r) ==
  CASE pc[r] \in {"exit1", "raised", "killed"}  -> <<>>
    [] pc[r] \in {"count", "delete", "commit"}  ->
         <<user[r], execute[r], cutoff[r], table[r], doomed[r], results[r],
           IF pc[r] = "count" THEN 0 ELSE eligible[r]>>
    [] OTHER -> <<execute[r], results[r], handle[r]>>

LiveState ==
  <<now, rows, holds, pc, [r \in Runs |-> Live(r)], tmp, statusFile, alerted, removed, faults>>
=============================================================================
