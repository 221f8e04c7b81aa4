------------------------------- MODULE Consumer -------------------------------
(***************************************************************************)
(* The first consumer (consumer.py) beside the enrichers on one queue:       *)
(* terraform/ecs.tf runs both services and gives both the same queue URL.   *)
(* A consumer takes its batch in order, and of each message writes the raw   *)
(* event to S3 (raw_store.py), inserts a row into ohip_events (db.py) and    *)
(* deletes the message.  A message that fails stays in flight and does not   *)
(* stop the rest of the batch, of its own hotel either.                     *)
(***************************************************************************)
EXTENDS Delivery

CONSTANT Consumers   \* consumer processes

ASSUME ConsumerAssumption == Consumers \cap (Procs \cup {NoProc}) = {}

VARIABLES
    step,      \* what each consumer does next with each message of its batch
    objects,   \* S3: the messages whose raw event was written
    archived   \* database: the messages with a row in ohip_events

consumer == <<step, objects, archived>>
enricher == <<done, retries, phase, count>>
allVars  == <<vars, consumer>>

Steps == {"none", "write", "persist", "delete"}

ConsumerTypeOK ==
    /\ queued \subseteq Messages
    /\ dlq \subseteq Messages
    /\ holder \in [Messages -> Procs \cup Consumers \cup {NoProc}]
    /\ receives \in [Messages -> 0..MaxReceive]
    /\ done \subseteq Messages
    /\ retries \in [Messages -> Nat]
    /\ phase \in [Procs -> [Messages -> Phases]]
    /\ count \in [Procs -> [Messages -> 0..MaxReceive]]
    /\ step \in [Consumers -> [Messages -> Steps]]
    /\ objects \subseteq Messages
    /\ archived \subseteq Messages

ConsumerInit ==
    /\ Init
    /\ step = [c \in Consumers |-> [m \in Messages |-> "none"]]
    /\ objects = {}
    /\ archived = {}

Taken(c) == {m \in Messages : step[c][m] # "none"}

\* The message of its batch that consumer c is at.
Current(c, m) == m \in Taken(c) /\ \A n \in Taken(c) : m <= n

Proceeds(c, m, next) == step' = [step EXCEPT ![c][m] = next]

-----------------------------------------------------------------------------
\* receive: the whole batch is kept, and looked at one message after the other.
Poll(c, batch) ==
    /\ Taken(c) = {}
    /\ Receivable(batch)
    /\ Deliver(c, batch)
    /\ step' = [step EXCEPT ![c] = [m \in Messages |-> IF m \in batch THEN "write" ELSE "none"]]
    /\ UNCHANGED <<queued, dlq, enricher, objects, archived>>

\* raw_store.write: the key depends on the event alone, so that a repetition
\* writes the same object.
Write(c, m) ==
    /\ Current(c, m) /\ step[c][m] = "write"
    /\ objects' = objects \cup {m}
    /\ Proceeds(c, m, "persist")
    /\ UNCHANGED <<vars, archived>>

\* Variant: the row comes before the object it names.
PersistFirst(c, m) ==
    /\ Current(c, m) /\ step[c][m] \in {"write", "persist"}
    /\ archived' = archived \cup {m}
    /\ Proceeds(c, m, IF step[c][m] = "write" THEN "write" ELSE "delete")
    /\ UNCHANGED <<vars, objects>>

\* persist_event: INSERT ... ON CONFLICT DO NOTHING, and commit.
Persist(c, m) ==
    /\ Current(c, m) /\ step[c][m] = "persist"
    /\ archived' = archived \cup {m}
    /\ Proceeds(c, m, "delete")
    /\ UNCHANGED <<vars, objects>>

\* Variant: an error does not keep a message from being deleted.
GoOnToDelete(c, m) ==
    /\ Current(c, m)
    /\ Proceeds(c, m, IF step[c][m] = "delete" THEN "none" ELSE "delete")
    /\ UNCHANGED <<vars, objects, archived>>

\* A step raises, with or without the effect it was to have: the message does
\* not parse, a call fails, the receipt handle has expired.  The error is logged
\* and the loop goes on with the next message.
Skip(c, m) ==
    /\ Current(c, m)
    /\ Proceeds(c, m, "none")
    /\ UNCHANGED <<vars, objects, archived>>

\* delete with the receipt handle of this delivery.
Remove(c, m) ==
    /\ Current(c, m) /\ step[c][m] = "delete"
    /\ holder[m] = c
    /\ queued' = queued \ {m}
    /\ holder' = [holder EXCEPT ![m] = NoProc]
    /\ Proceeds(c, m, "none")
    /\ UNCHANGED <<receives, dlq, enricher, objects, archived>>

\* The process dies, or receive raises and ends it; ECS starts another one.
Die(c) ==
    /\ Taken(c) # {}
    /\ step' = [step EXCEPT ![c] = [m \in Messages |-> "none"]]
    /\ UNCHANGED <<vars, objects, archived>>

Handle(c, m) == Write(c, m) \/ Persist(c, m) \/ Remove(c, m) \/ Skip(c, m)

ConsumerNext ==
    \/ Next /\ UNCHANGED consumer
    \/ \E c \in Consumers, batch \in SUBSET Messages : Poll(c, batch)
    \/ \E c \in Consumers, m \in Messages : Handle(c, m)
    \/ \E c \in Consumers : Die(c)

ConsumerSpec == ConsumerInit /\ [][ConsumerNext]_allVars

\* The enrichers and the queue as in Delivery; a consumer polls, and no step of
\* its loop lasts for ever.
ConsumerFairness ==
    /\ Fairness
    /\ \A c \in Consumers : WF_allVars(\E batch \in SUBSET Messages : Poll(c, batch))
    /\ \A c \in Consumers, m \in Messages : WF_allVars(Handle(c, m))

ConsumerFairSpec == ConsumerSpec /\ ConsumerFairness

-----------------------------------------------------------------------------
(* Properties.                                                             *)

\* A row of ohip_events names an object that exists (raw_s3_key), in spite of
\* failures between the two stores and of repeated deliveries (run, the order of
\* raw_store.write and persist_event).
RowHasObject == archived \subseteq objects

\* "borra el mensaje solo si todo termina bien" (README.md, consumer): whoever
\* deleted it, a message that has left the queue was archived, or enriched, or is
\* in the dead-letter queue, although two services with different duties take
\* turns with its deliveries.
LeftForAReason == \A m \in Messages \ queued : m \in archived \cup done \cup dlq
=============================================================================
