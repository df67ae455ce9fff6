---------------------------- MODULE MCWorktrees ----------------------------
(* Small instances of Worktrees for TLC.                                   *)
EXTENDS Worktrees

CONSTANTS w1, w2, s1, s2, a, b

Kinds == Request \cup Outside
None == [k \in Kinds |-> 0]

Wakes2 == [None EXCEPT !["wake"] = 2, !["bounce"] = 2, !["exit"] = 1]
Removal == [None EXCEPT !["wake"] = 1, !["remove"] = 1, !["todo"] = 1, !["sleep"] = 1]
Made == [None EXCEPT !["create"] = 1, !["remove"] = 1, !["wake"] = 1, !["fault"] = 1]
ByHand == [None EXCEPT !["wake"] = 1, !["poll"] = 1, !["hand"] = 2]
Closed == [None EXCEPT !["close"] = 1, !["open"] = 1, !["sleep"] = 1, !["todo"] = 1]
Scenarios == {Wakes2, Removal, Made, ByHand, Closed}
=============================================================================
