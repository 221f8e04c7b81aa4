----------------------------- MODULE Projection -----------------------------
(***************************************************************************)
(* What a reader of opera_core may rely on, without workers, requests and    *)
(* transactions: each resource has one row, which names the event it was     *)
(* last written for and holds a state of the resource that is not older than *)
(* that event; the row of an event is written and the event reported as      *)
(* finished in one step; and an event never takes the row from a later one.  *)
(* Ledger implements this.                                                  *)
(***************************************************************************)
EXTENDS Integers

CONSTANTS Events, Resources, NoEvent, ResourceOf, OccurredAt, Destructive, Folios

VARIABLES
    rank,      \* the version of its resource an event announced, 0 before
    version,   \* the current version of each resource
    latest,    \* the event each row was last written for
    shown,     \* the version each row holds
    gone,      \* the resources whose row is marked as deleted
    finished   \* the events that are reported as COMPLETED or DELETED

world == <<rank, version>>
rows  == <<latest, shown, gone>>
vars  == <<world, rows, finished>>

Init ==
    /\ rank = [e \in Events |-> 0]
    /\ version = [r \in Resources |-> 0]
    /\ latest = [r \in Resources |-> NoEvent]
    /\ shown = [r \in Resources |-> 0]
    /\ gone = {}
    /\ finished = {}

\* A resource changes, and e announces it.
Announce(e) ==
    /\ rank[e] = 0
    /\ version' = [version EXCEPT ![ResourceOf[e]] = @ + 1]
    /\ rank' = [rank EXCEPT ![e] = version'[ResourceOf[e]]]
    /\ UNCHANGED <<rows, finished>>

\* The row of e was written for an event that occurred after e.
Superseded(e) ==
    LET writer == latest[ResourceOf[e]] IN
    writer # NoEvent /\ OccurredAt[writer] > OccurredAt[e]

\* An announced event is finished ...
Finish(e) ==
    /\ rank[e] > 0
    /\ finished' = finished \cup {e}
    /\ UNCHANGED world

\* ... and its row shows the resource as it was at or after the announcement,
Show(e) ==
    /\ Finish(e)
    /\ ~Superseded(e)
    /\ latest' = [latest EXCEPT ![ResourceOf[e]] = e]
    /\ \E v \in rank[e]..version[ResourceOf[e]] :
          shown' = [shown EXCEPT ![ResourceOf[e]] = v]
    /\ UNCHANGED gone

\* ... or is marked as deleted,
Bury(e) ==
    /\ Finish(e)
    /\ ~Superseded(e)
    /\ e \in Destructive /\ ResourceOf[e] \notin Folios
    /\ latest' = [latest EXCEPT ![ResourceOf[e]] = e]
    /\ gone' = gone \cup {ResourceOf[e]}
    /\ UNCHANGED shown

\* ... or stays as it is: a later event wrote it, or it is a folio's.
Pass(e) ==
    /\ Finish(e)
    /\ Superseded(e) \/ ResourceOf[e] \in Folios
    /\ UNCHANGED rows

\* A later delivery fails: the event is not reported as finished any more, and
\* the row stays.
Withdraw(e) ==
    /\ finished' = finished \ {e}
    /\ UNCHANGED <<world, rows>>

Next == \E e \in Events : Announce(e) \/ Show(e) \/ Bury(e) \/ Pass(e) \/ Withdraw(e)

Spec == Init /\ [][Next]_vars
=============================================================================
