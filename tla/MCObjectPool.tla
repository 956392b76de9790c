---------------------------- MODULE MCObjectPool ----------------------------
(* Four slots: the free list has been reordered, emptied and refilled, and    *)
(* destructors run three deep with objects built in between.                *)
EXTENDS ObjectPool

=============================================================================
