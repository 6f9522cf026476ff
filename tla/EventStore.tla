----------------------------- MODULE EventStore -----------------------------
(***************************************************************************)
(* The append-only store of the audit log of every Task: EventStore of     *)
(* aios-runtime/src/event.rs and its persistent form,                      *)
(* aios-storage-sqlite/src/lib.rs.  A batch is appended in one             *)
(* transaction: all of it or none of it.                                   *)
(***************************************************************************)
EXTENDS TaskEvents, Maps

CONSTANT MaxEventsPerTask   \* max_events_per_task

ASSUME MaxEventsAssumption == MaxEventsPerTask \in Nat \ {0}

VARIABLE log                \* Task id -> sequence of events; durable

Events(t) == IF t \in DOMAIN log THEN log[t] ELSE <<>>

\* append_batch refuses a batch that would take the Task over its limit.
HasRoom(t, batch) == Len(Events(t)) + Len(batch) <= MaxEventsPerTask

\* Mutant: a batch that does not fit is dropped without an error.
AppendBatchLossy(t, batch) ==
  log' = IF HasRoom(t, batch) THEN Insert(log, t, Events(t) \o batch) ELSE log

\* append_batch that succeeds.  A failing one (a full log, an unavailable
\* store) leaves the log as it is.
AppendBatch(t, batch) ==
  /\ HasRoom(t, batch)
  /\ log' = Insert(log, t, Events(t) \o batch)

=============================================================================
