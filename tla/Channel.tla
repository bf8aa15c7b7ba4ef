------------------------------ MODULE Channel -------------------------------
(***************************************************************************)
(* The bounded channel of faio (sync/channel/): a ring buffer and two      *)
(* lists of suspended coroutines under a coroutine mutex, and the counted  *)
(* Sender and Receiver handles whose last close destroys it.               *)
(*                                                                         *)
(* Every coroutine owns one handle and closes it when it is done.  destroy *)
(* runs without the mutex; while the last handle of a side closes, the     *)
(* other side can only append to its own list, so that the walk over the   *)
(* lists sees an appended Awaiter or does not: one step.                   *)
(***************************************************************************)
EXTENDS LockClients, RingBuffer

CONSTANTS
  Capacity,    \* of the channel
  MaxSends     \* bound: values a producer sends

ASSUME ChannelAssumption ==
  Capacity \in Nat /\ MaxSends \in Nat /\ Null \notin Users \X (1 .. MaxSends)

VARIABLES
  ring,        \* _buffer
  wsend,       \* _waiting_senders
  wrecv,       \* _waiting_receivers
  closed,      \* _is_closed
  handles,     \* _num_senders and _num_receivers
  count,       \* values each producer has begun to send
  res,         \* _result of each user's Awaiter; Null is ClosedChannel
  got,         \* values receivers were given
  refused      \* values whose send reported ClosedChannel

chVars == <<ring, wsend, wrecv, closed, handles, count, res, got, refused>>

\* channel::make: one handle of each kind.
ChInit ==
  /\ ring = NewRing(Capacity, Null)
  /\ wsend = << >>
  /\ wrecv = << >>
  /\ closed = FALSE
  /\ handles = [send |-> 1, recv |-> 1]
  /\ count = [u \in Users |-> 0]
  /\ res = [u \in Users |-> Null]
  /\ got = << >>
  /\ refused = {}

Value(u) == <<u, count[u]>>
Started == {v \in Users \X (1 .. MaxSends) : v[2] <= count[v[1]]}

-----------------------------------------------------------------------------
(* Sender and Receiver: copy constructors, and close.                      *)

CopySender(u, v) ==
  /\ act[u] = "producer" /\ act[v] = "new producer"
  /\ handles' = [handles EXCEPT !.send = @ + 1]
  /\ Become(v, "producer")
  /\ UNCHANGED <<vars, ticket, leaving>>
  /\ UNCHANGED <<ring, wsend, wrecv, closed, count, res, got, refused>>

CopyReceiver(u, v) ==
  /\ act[u] = "consumer" /\ act[v] = "new consumer"
  /\ handles' = [handles EXCEPT !.recv = @ + 1]
  /\ Become(v, "consumer")
  /\ UNCHANGED <<vars, ticket, leaving>>
  /\ UNCHANGED <<ring, wsend, wrecv, closed, count, res, got, refused>>

\* sub_sender and sub_receiver: the last one destroys the channel.
CloseSender(u) ==
  /\ act[u] \in {"producer", "send failed"}
  /\ handles' = [handles EXCEPT !.send = @ - 1]
  /\ Become(u, IF handles.send = 1 THEN "destroy" ELSE "gone")
  /\ UNCHANGED <<vars, ticket, leaving>>
  /\ UNCHANGED <<ring, wsend, wrecv, closed, count, res, got, refused>>

CloseReceiver(u) ==
  /\ act[u] \in {"consumer", "recv closed"}
  /\ handles' = [handles EXCEPT !.recv = @ - 1]
  /\ Become(u, IF handles.recv = 1 THEN "destroy" ELSE "gone")
  /\ UNCHANGED <<vars, ticket, leaving>>
  /\ UNCHANGED <<ring, wsend, wrecv, closed, count, res, got, refused>>

\* destroy: the exchange of _is_closed ...
Destroy(u) ==
  /\ act[u] = "destroy"
  /\ closed' = TRUE
  /\ Become(u, IF closed THEN "gone" ELSE "wake")
  /\ UNCHANGED <<vars, ticket, leaving>>
  /\ UNCHANGED <<ring, wsend, wrecv, handles, count, res, got, refused>>

\* ... and everybody who waits is resumed, with the ClosedChannel its
\* _result began with.  Only the senders' list is cleared.
DestroyWake(u) ==
  /\ act[u] = "wake"
  /\ act' = [w \in Users |->
               IF w = u THEN "gone"
               ELSE IF Contains(wsend, w) THEN "send resumed"
               ELSE IF Contains(wrecv, w) THEN "recv resumed" ELSE act[w]]
  /\ wsend' = << >>
  /\ UNCHANGED <<vars, ticket, leaving>>
  /\ UNCHANGED <<ring, wrecv, closed, handles, count, res, got, refused>>

-----------------------------------------------------------------------------
(* send: lock, then SendAwaiter::await_suspend under the mutex.            *)

SendBegin(u) ==
  /\ act[u] = "producer" /\ count[u] < MaxSends
  /\ BeginLock(u, "send")
  /\ count' = [count EXCEPT ![u] = @ + 1]
  /\ res' = [res EXCEPT ![u] = Null]
  /\ UNCHANGED <<ring, wsend, wrecv, closed, handles, got, refused>>

Sending(u) == act[u] = "send" /\ Inside(u)

\* A receiver waits: the value goes into its _result.
SendHand(u) ==
  /\ Sending(u) /\ wrecv # << >>
  /\ LET r == Head(wrecv) IN
       /\ res' = [res EXCEPT ![r] = Value(u)]
       /\ act' = [act EXCEPT ![r] = "recv resumed", ![u] = "producer"]
  /\ wrecv' = Tail(wrecv)
  /\ got' = Append(got, Value(u))
  /\ leaving' = leaving \cup {Mine(u)}
  /\ UNCHANGED <<vars, ticket>>
  /\ UNCHANGED <<ring, wsend, closed, handles, count, refused>>

\* Mutant of SendBuffer: waiting receivers are not asked for.
SendBufferFirst(u) ==
  /\ Sending(u) /\ ~IsFill(ring)
  /\ ring' = SafetyPush(ring, Value(u))
  /\ Leave(u, "producer")
  /\ UNCHANGED vars
  /\ UNCHANGED <<wsend, wrecv, closed, handles, count, res, got, refused>>

\* There is room, even in a closed channel.
SendBuffer(u) ==
  /\ Sending(u) /\ wrecv = << >> /\ ~IsFill(ring)
  /\ ring' = SafetyPush(ring, Value(u))
  /\ Leave(u, "producer")
  /\ UNCHANGED vars
  /\ UNCHANGED <<wsend, wrecv, closed, handles, count, res, got, refused>>

\* Full: refused when closed, else wait.  _is_closed may be set in between.
SendFull(u) ==
  /\ Sending(u) /\ wrecv = << >> /\ IsFill(ring)
  /\ IF closed
       THEN /\ Leave(u, "send failed")
            /\ refused' = refused \cup {Value(u)}
       ELSE Become(u, "send full") /\ UNCHANGED <<ticket, leaving, refused>>
  /\ UNCHANGED <<vars, ring, wsend, wrecv, closed, handles, count, res, got>>

SendWait(u) ==
  /\ act[u] = "send full"
  /\ wsend' = Append(wsend, u)
  /\ Leave(u, "send waits")
  /\ UNCHANGED vars
  /\ UNCHANGED <<ring, wrecv, closed, handles, count, res, got, refused>>

\* A suspended sender runs again: its value was taken, or the channel died.
SendResumed(u) ==
  /\ act[u] = "send resumed"
  /\ Become(u, IF res[u] = Null THEN "send failed" ELSE "producer")
  /\ refused' = IF res[u] = Null THEN refused \cup {Value(u)} ELSE refused
  /\ UNCHANGED <<vars, ticket, leaving>>
  /\ UNCHANGED <<ring, wsend, wrecv, closed, handles, count, res, got>>

-----------------------------------------------------------------------------
(* recv: lock, then RecvAwaiter::await_suspend under the mutex.            *)

RecvBegin(u) ==
  /\ act[u] = "consumer"
  /\ BeginLock(u, "recv")
  /\ res' = [res EXCEPT ![u] = Null]
  /\ UNCHANGED <<ring, wsend, wrecv, closed, handles, count, got, refused>>

Receiving(u) == act[u] = "recv" /\ Inside(u)

\* A sender waits: its value is taken, ahead of those in the buffer.
RecvFromSender(u) ==
  /\ Receiving(u) /\ wsend # << >>
  /\ LET s == Head(wsend) IN
       /\ res' = [res EXCEPT ![s] = Value(s)]
       /\ act' = [act EXCEPT ![s] = "send resumed", ![u] = "consumer"]
       /\ got' = Append(got, Value(s))
  /\ wsend' = Tail(wsend)
  /\ leaving' = leaving \cup {Mine(u)}
  /\ UNCHANGED <<vars, ticket>>
  /\ UNCHANGED <<ring, wrecv, closed, handles, count, refused>>

RecvBuffer(u) ==
  /\ Receiving(u) /\ wsend = << >> /\ ~IsEmpty(ring)
  /\ ring' = SafetyPop(ring)
  /\ got' = Append(got, Oldest(ring))
  /\ Leave(u, "consumer")
  /\ UNCHANGED vars
  /\ UNCHANGED <<wsend, wrecv, closed, handles, count, res, refused>>

\* Mutant of RecvEmpty: _is_closed is looked at before the buffer.
RecvClosedFirst(u) ==
  /\ Receiving(u) /\ wsend = << >> /\ (closed \/ IsEmpty(ring))
  /\ IF closed
       THEN Leave(u, "recv closed")
       ELSE Become(u, "recv empty") /\ UNCHANGED <<ticket, leaving>>
  /\ UNCHANGED vars
  /\ UNCHANGED chVars

\* Empty: ClosedChannel when closed, else wait.
RecvEmpty(u) ==
  /\ Receiving(u) /\ wsend = << >> /\ IsEmpty(ring)
  /\ IF closed
       THEN Leave(u, "recv closed")
       ELSE Become(u, "recv empty") /\ UNCHANGED <<ticket, leaving>>
  /\ UNCHANGED vars
  /\ UNCHANGED chVars

RecvWait(u) ==
  /\ act[u] = "recv empty"
  /\ wrecv' = Append(wrecv, u)
  /\ Leave(u, "recv waits")
  /\ UNCHANGED vars
  /\ UNCHANGED <<ring, wsend, closed, handles, count, res, got, refused>>

RecvResumed(u) ==
  /\ act[u] = "recv resumed"
  /\ Become(u, IF res[u] = Null THEN "recv closed" ELSE "consumer")
  /\ UNCHANGED <<vars, ticket, leaving>>
  /\ UNCHANGED chVars

-----------------------------------------------------------------------------
ChStep(u) ==
  \/ \E v \in Users : CopySender(u, v) \/ CopyReceiver(u, v)
  \/ CloseSender(u) \/ CloseReceiver(u) \/ Destroy(u) \/ DestroyWake(u)
  \/ SendBegin(u) \/ SendHand(u) \/ SendBuffer(u) \/ SendFull(u)
  \/ SendWait(u) \/ SendResumed(u)
  \/ RecvBegin(u) \/ RecvFromSender(u) \/ RecvBuffer(u) \/ RecvEmpty(u)
  \/ RecvWait(u) \/ RecvResumed(u)

-----------------------------------------------------------------------------
(* Properties.                                                             *)

\* channel.hpp: nobody waits for what is there.  A receiver waits only while
\* there is neither a buffered value nor a waiting sender, a sender only
\* while the buffer is full.
NobodyWaitsInVain ==
  /\ wrecv # << >> => IsEmpty(ring) /\ wsend = << >>
  /\ wsend # << >> => IsFill(ring)

\* Where a value is: with its suspended or not yet decided sender, in the
\* buffer, with a receiver, or refused.
WithSender(v) ==
  /\ v = Value(v[1])
  /\ \/ act[v[1]] \in {"send", "send full", "send waits"}
     \/ act[v[1]] = "send resumed" /\ res[v[1]] = Null

\* Every value sent is in exactly one place, once: none is lost or delivered
\* twice, whatever races between senders, receivers and destroy, and a send
\* that reports ClosedChannel has delivered nothing.
ExactlyOnce ==
  \A v \in Started :
    (IF WithSender(v) THEN 1 ELSE 0)
    + (IF v \in refused THEN 1 ELSE 0)
    + Cardinality({i \in DOMAIN got : got[i] = v})
    + Cardinality({i \in DOMAIN Buffered(ring) : Buffered(ring)[i] = v}) = 1

\* A receiver is told ClosedChannel only after every accepted value has been
\* received: closing the last Sender loses nothing.
DrainedBeforeClosed ==
  (\E u \in Users : act[u] = "recv closed")
    => IsEmpty(ring) /\ \A u \in Users : act[u] # "send waits"

\* docs: the last handle closes the channel and wakes all who wait; whoever
\* is in a list after that waits for ever.
ClosingWakesAll ==
  closed /\ (\A u \in Users : act[u] # "wake")
    => \A u \in Users : act[u] \notin {"send waits", "recv waits"}
=============================================================================
