----------------------------- MODULE RingBuffer -----------------------------
(***************************************************************************)
(* The ring buffer under a channel (sync/channel/ring_buffer.hpp): one     *)
(* slot more than its capacity, so that start = end means empty.           *)
(***************************************************************************)
EXTENDS Integers

NewRing(size, blank) ==
  [start |-> 0, end |-> 0, slots |-> size + 1,
   data |-> [i \in 0 .. size |-> blank]]

IsEmpty(ring) == ring.start = ring.end

\* Mutant of IsFill: the spare slot is used as well.
IsFillNever(ring) == FALSE

IsFill(ring) == (ring.end + 1) % ring.slots = ring.start

\* safety_push and safety_pop; callers check IsFill and IsEmpty first.
SafetyPush(ring, value) ==
  [ring EXCEPT !.data[ring.end] = value,
               !.end = (@ + 1) % ring.slots]

Oldest(ring) == ring.data[ring.start]

SafetyPop(ring) == [ring EXCEPT !.start = (@ + 1) % ring.slots]

\* size()
Size(ring) == (ring.end - ring.start + ring.slots) % ring.slots

\* The values in it, the oldest first.
Buffered(ring) ==
  [i \in 1 .. Size(ring) |-> ring.data[(ring.start + i - 1) % ring.slots]]
=============================================================================
