----------------------------- MODULE MCLedTasks -----------------------------
(* Three control blocks: two that live tasks can hold and one on its way   *)
(* back to the heap.                                                       *)
EXTENDS LedTasks
=============================================================================
