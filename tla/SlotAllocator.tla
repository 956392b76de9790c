--------------------------- MODULE SlotAllocator ---------------------------
(***************************************************************************)
(* What an object pool promises: an object is put where none lives, a      *)
(* request is refused only when every slot holds an object, and giving one  *)
(* back ends that object alone.                                            *)
(***************************************************************************)
CONSTANTS Slots, NoSlot

VARIABLES live,    \* the slots that hold an object
          answer   \* what the latest request got

allocatorVars == <<live, answer>>

AllocatorInit == live = {} /\ answer = NoSlot

Take(slot) == slot \notin live /\ live' = live \cup {slot} /\ answer' = slot

Refuse == live = Slots /\ answer' = NoSlot /\ UNCHANGED live

Give(slot) == slot \in live /\ live' = live \ {slot} /\ UNCHANGED answer

AllocatorNext == Refuse \/ \E slot \in Slots : Take(slot) \/ Give(slot)

AllocatorSpec == AllocatorInit /\ [][AllocatorNext]_allocatorVars

=============================================================================
