---------------------------- MODULE FifoChannel ----------------------------
(***************************************************************************)
(* What SPSCQueue promises its two callers: a bounded, lossless,           *)
(* order-preserving channel.  A refused push or pop is not a step of the   *)
(* channel.  sent and received are histories, so the channel's content is  *)
(* the part of sent that received has not reached.                         *)
(***************************************************************************)
EXTENDS Naturals, Sequences

CONSTANTS Capacity,  \* how many items may be under way at once
          Values     \* the items

VARIABLES sent, received

chanVars == <<sent, received>>

ChanInit == sent = <<>> /\ received = <<>>

Send(v) ==
    /\ Len(sent) < Len(received) + Capacity
    /\ sent' = Append(sent, v)
    /\ UNCHANGED received

Receive ==
    /\ Len(received) < Len(sent)
    /\ received' = Append(received, sent[Len(received) + 1])
    /\ UNCHANGED sent

ChanNext == (\E v \in Values : Send(v)) \/ Receive

ChanSpec == ChanInit /\ [][ChanNext]_chanVars

=============================================================================
