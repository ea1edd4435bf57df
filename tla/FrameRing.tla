----------------------------- MODULE FrameRing -----------------------------
(***************************************************************************)
(* src/audio/frame_ring.cpp: the circular buffer behind the promise of     *)
(* DropQueue. The capture callback pushes and the TX thread pops, each     *)
(* whole call under m_. A frame is its number (its seq); drops counts the  *)
(* frames pushed out.                                                      *)
(***************************************************************************)
EXTENDS Naturals

CONSTANTS
  Capacity,  \* buf_.size(): never 0, the constructor makes it 1
  MaxFrames  \* bound: frames ever pushed

ASSUME RingAssumption == Capacity \in Nat \ {0} /\ MaxFrames \in Nat

VARIABLES
  buf,     \* buf_
  head,    \* head_: where the oldest frame is
  count,   \* count_
  drops,   \* drops_
  pushed,  \* the number of the next frame the producer makes
  out      \* the frame the last successful Pop returned

vars == <<buf, head, count, drops, pushed, out>>

None == MaxFrames

Init ==
  /\ buf = [i \in 0 .. Capacity - 1 |-> None]
  /\ head = 0 /\ count = 0 /\ drops = 0
  /\ pushed = 0
  /\ out = None

Advance(i) == (i + 1) % Capacity

\* Where Push writes: past the frames that stay.
Tail_FromStart(h, n) == n % Capacity  \* mutant: head_ is left out
Tail(h, n) == (h + n) % Capacity

Full == count = Capacity

Push ==
  LET h == IF Full THEN Advance(head) ELSE head
      n == IF Full THEN count - 1 ELSE count
  IN
  /\ pushed < MaxFrames
  /\ buf' = [buf EXCEPT ![Tail(h, n)] = pushed]
  /\ head' = h
  /\ count' = n + 1
  /\ drops' = IF Full THEN drops + 1 ELSE drops
  /\ pushed' = pushed + 1
  /\ UNCHANGED out

\* Pop on an empty ring returns false and changes nothing.
Pop ==
  /\ count > 0
  /\ out' = buf[head]
  /\ head' = Advance(head)
  /\ count' = count - 1
  /\ UNCHANGED <<buf, drops, pushed>>

Next == Push \/ Pop

Spec == Init /\ [][Next]_vars

----------------------------------------------------------------------------
\* The shape of the ring: positions inside the buffer, at most Capacity held.
TypeOK ==
  /\ buf \in [0 .. Capacity - 1 -> 0 .. MaxFrames]
  /\ head \in 0 .. Capacity - 1
  /\ count \in 0 .. Capacity
  /\ drops \in Nat
  /\ pushed \in 0 .. MaxFrames
  /\ out \in 0 .. MaxFrames

\* The ring implements the promise: it always holds exactly the last count
\* frames pushed, in order, and hands out the oldest of them, however pushes
\* that overflow and pops interleave (FrameRing::Push and Pop).
DQ == INSTANCE DropQueue WITH first <- pushed - count, next <- pushed
ImplementsDropQueue == DQ!Spec

\* Whatever the consumer takes out of the ring is newer than all it took
\* before: no frame is handed over twice, nor an older one after it.
NeverReplays == [][count' < count => out = None \/ out' > out]_vars

\* What lies where: the i-th oldest frame held sits i places after head, and
\* only frames still held, or newer than the last one taken, are to come.
RingInv ==
  /\ count <= pushed
  /\ \A i \in 0 .. Capacity - 1 :
       i < count => buf[(head + i) % Capacity] = pushed - count + i
  /\ out # None => out < pushed - count
=============================================================================
