---------------------------- MODULE MCTaskGraph ----------------------------
(* Instances of TaskGraph for TLC: one coroutine slot for the worker, two  *)
(* for the API, where approve_patch may start a second call of run().      *)
EXTENDS TaskGraph, TLC

CONSTANTS r1, r2

OneSlot == {r1}
TwoSlots == {r1, r2}
Slots == Permutations({r1, r2})
LoopControls == {"pause", "resume", "step", "cancel"}
AllControls == LoopControls \cup {"rollback", "approve_patch"}
NoControls == {}
=============================================================================
