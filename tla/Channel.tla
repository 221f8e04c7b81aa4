------------------------------- MODULE Channel -------------------------------
(***************************************************************************)
(* What the queue and its consumers promise together, without batches,      *)
(* visibility timeouts and crashes: a channel that handles every message at  *)
(* least once and keeps the order of each group.  A message is handled, as   *)
(* often as it may be, and put aside only when no earlier message of its     *)
(* group is pending; it leaves the channel only after one or the other.     *)
(* Delivery implements this when there is a dead-letter queue.              *)
(***************************************************************************)
EXTENDS Integers

CONSTANTS Messages, GroupOf

VARIABLES
    pending,   \* the messages that have not left the channel
    handled,   \* the messages whose effect has taken place, at least once
    aside      \* the messages kept in the dead-letter queue

vars == <<pending, handled, aside>>

Init ==
    /\ pending = Messages
    /\ handled = {}
    /\ aside = {}

\* No earlier message of the group of m is pending.
InTurn(m) == \A n \in pending : GroupOf[n] = GroupOf[m] => n >= m

\* The effect of a message takes place: for the first time, or again.
Handle(m) ==
    /\ InTurn(m)
    /\ handled' = handled \cup {m}
    /\ UNCHANGED <<pending, aside>>

\* A message is put aside, and may leave the channel with that.
PutAside(m) ==
    /\ InTurn(m)
    /\ aside' = aside \cup {m}
    /\ pending' \in {pending, pending \ {m}}
    /\ UNCHANGED handled

\* A message that was taken care of leaves the channel.
Leave(m) ==
    /\ InTurn(m)
    /\ m \in handled \cup aside
    /\ pending' = pending \ {m}
    /\ UNCHANGED <<handled, aside>>

Next == \E m \in Messages : Handle(m) \/ PutAside(m) \/ Leave(m)

Spec == Init /\ [][Next]_vars
=============================================================================
