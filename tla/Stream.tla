------------------------------- MODULE Stream -------------------------------
(***************************************************************************)
(* A TcpStream between a client and a server, as net/common/stream_read    *)
(* and stream_write use it.  A byte is a token <<message, part>>; the two  *)
(* buffers of the connection hold a few of them, so that a write may put   *)
(* less than it was asked to, and a read may find any part of what was     *)
(* written.                                                                *)
(***************************************************************************)
EXTENDS Naturals, SequencesExt

CONSTANTS UpSpace, DownSpace   \* the bytes a direction can hold

ASSUME StreamAssumption == UpSpace \in Nat \ {0} /\ DownSpace \in Nat \ {0}

VARIABLE wire   \* bytes: on their way, by direction; ended: directions whose
                \* writer has finished; deaf: whose reader is gone; reset

Directions == {"up", "down"}     \* to the server, to the client
Space(d) == IF d = "up" THEN UpSpace ELSE DownSpace

\* What a loop of write_all has left after n bytes.
Rest(bytes, n) == SubSeq(bytes, n + 1, Len(bytes))

NewWire == [bytes |-> [d \in Directions |-> <<>>], ended |-> {}, deaf |-> {},
            reset |-> FALSE]

\* read() completes with some of the bytes on their way, with zero at the end
\* of the stream, or with the error of a reset connection.
Readable(d) == 1..Len(wire.bytes[d])
Arrived(d, n) == SubSeq(wire.bytes[d], 1, n)
AtEnd(d) == wire.bytes[d] = <<>> /\ d \in wire.ended /\ ~wire.reset
ReadFails(d) == wire.reset
Taken(d, n) == [wire EXCEPT !.bytes[d] = Rest(@, n)]

\* send() takes as many of the bytes as there is room for; one that finds the
\* reader gone still succeeds, and the connection is reset.
Fitting(d, bytes) ==
  IF d \in wire.deaf THEN Len(bytes)
  ELSE Min({Len(bytes), Space(d) - Len(wire.bytes[d])})
CanSend(d, bytes) == ~wire.reset /\ Fitting(d, bytes) > 0
Sent(d, bytes) ==
  IF d \in wire.deaf THEN [wire EXCEPT !.reset = TRUE]
  ELSE [wire EXCEPT !.bytes[d] = @ \o SubSeq(bytes, 1, Fitting(d, bytes))]
SendFails == wire.reset

\* An end that closes hears no more and says no more; what it has not read is
\* lost, and the other end is told by a reset.
Closed(in, out) ==
  [wire EXCEPT !.ended = @ \cup {out}, !.deaf = @ \cup {in},
               !.bytes[in] = <<>>, !.reset = @ \/ wire.bytes[in] # <<>>]
=============================================================================
