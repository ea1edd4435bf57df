----------------------------- MODULE DropQueue -----------------------------
(***************************************************************************)
(* What src/audio/frame_ring.h promises of the queue between a device      *)
(* callback and the TX thread: it never blocks and never fails; when it is *)
(* full the OLDEST frame makes room, so what it holds is always the last   *)
(* frames pushed, without a gap. Frames are numbered in the order of the   *)
(* pushes, so the whole queue is the interval first .. next - 1.           *)
(***************************************************************************)
EXTENDS Naturals

CONSTANTS
  Capacity,  \* most frames the queue holds
  MaxFrames  \* bound: frames ever pushed

VARIABLES
  first,  \* the oldest frame held, or the next one pushed when empty
  next,   \* the number of the next frame pushed
  out     \* the last frame taken; none before the first

vars == <<first, next, out>>

None == MaxFrames   \* no frame has this number

Init == first = 0 /\ next = 0 /\ out = None

Push ==
  /\ next < MaxFrames
  /\ next' = next + 1
  /\ first' = IF next + 1 - first > Capacity THEN first + 1 ELSE first
  /\ UNCHANGED out

Pop ==
  /\ first < next
  /\ out' = first
  /\ first' = first + 1
  /\ UNCHANGED next

Next == Push \/ Pop

Spec == Init /\ [][Next]_vars
=============================================================================
