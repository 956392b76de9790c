----------------------------- MODULE MCSentinel -----------------------------
(* A replay with an event whose sequence number is the sentinel's: the CSV    *)
(* loader accepts any 64-bit sequence number.                              *)
EXTENDS ThreadedPipeline

CONSTANTS e1, e2, last

MCEvents == <<e1, last, e2>>

=============================================================================
