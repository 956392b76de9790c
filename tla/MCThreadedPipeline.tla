------------------------- MODULE MCThreadedPipeline -------------------------
(* Four events through a queue of capacity 2: the producer meets a full     *)
(* queue, the consumer an empty one, and the indices wrap.                 *)
EXTENDS ThreadedPipeline

CONSTANTS e1, e2, e3, e4, last

MCEvents == <<e1, e2, e3, e4>>

=============================================================================
