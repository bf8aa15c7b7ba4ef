------------------------------- MODULE MCSync -------------------------------
(***************************************************************************)
(* The instances TLC checks: three coroutines that are plain users of the  *)
(* mutex, or wait and notify, or send and receive.                         *)
(***************************************************************************)
EXTENDS Sync, TLC

CONSTANTS U1, U2, U3, Uses

Plain == [u \in Users |-> "plain"]

\* The notifier first notifies without having changed anything, so that
\* waiters come while it is on its way.
WithCv == [u \in Users |-> IF u = U3 THEN "load" ELSE "wait"]

\* One notifier adds a token first, the other notifies at once.
TwoNotifiers ==
  [u \in Users |-> IF u = U2 THEN "notifier"
                   ELSE IF u = U3 THEN "load" ELSE "wait"]

TwoProducers ==
  [u \in Users |-> CASE u = U1 -> "producer" [] u = U2 -> "new producer"
                     [] u = U3 -> "consumer" [] OTHER -> "idle"]

TwoConsumers ==
  [u \in Users |-> CASE u = U1 -> "producer" [] u = U2 -> "new consumer"
                     [] u = U3 -> "consumer" [] OTHER -> "idle"]

RolesOfUses ==
  (IF "mutex" \in Uses THEN {Plain} ELSE {})
  \cup (IF "condition_variable" \in Uses THEN {WithCv} ELSE {})
  \cup (IF "notifiers" \in Uses THEN {TwoNotifiers} ELSE {})
  \cup (IF "channel" \in Uses THEN {TwoProducers, TwoConsumers} ELSE {})
=============================================================================
