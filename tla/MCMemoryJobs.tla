---------------------------- MODULE MCMemoryJobs ----------------------------
(***************************************************************************)
(* MemoryJobs for TLC: concept pages share the group of their job type,    *)
(* a conversation is a group of its own and may be deleted.                *)
(***************************************************************************)
EXTENDS MemoryJobs, TLC

CONSTANTS w1, w2, page, conv, j1, j2, j3

OnePageKeys == [j \in Jobs |-> page]
OneConvKeys == [j \in Jobs |-> conv]

LaneOf == [k \in {page, conv} |-> IF k = page THEN "embed" ELSE "slow"]
GroupOf == [k \in {page, conv} |-> k]
Budgets == [embed |-> 2, slow |-> 2]
=============================================================================
