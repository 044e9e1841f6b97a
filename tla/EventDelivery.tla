---------------------------- MODULE EventDelivery ----------------------------
(***************************************************************************)
(* How Unit's events reach the event handlers of apps/api, seen from the   *)
(* handlers: Unit publishes events, the webhook endpoint records each one  *)
(* in the audit table, and the workers of worker.ts run the handler of a   *)
(* recorded event, then write its verdict back.                            *)
(*                                                                         *)
(* What the pipeline promises is weak, and that is the point: delivery is  *)
(* at least once, in any order, and nothing stops two workers from running *)
(* the same event at the same time (a redelivered event that is still      *)
(* Pending is queued again).  WebhookQueue.tla models the endpoint, the    *)
(* queue and its retries, and implements this specification.  Ledger.tla   *)
(* and the other handler modules extend it.                                *)
(*                                                                         *)
(* An event is named by its position in log, the order Unit published it.  *)
(***************************************************************************)
EXTENDS Naturals, Sequences

CONSTANTS Workers,      \* the job slots of the worker process (concurrency 5)
          MaxEvents     \* bound: how many events Unit publishes

ASSUME DeliveryAssumption == MaxEvents \in Nat

VARIABLES log,          \* the events Unit has published, oldest first
          audit,        \* audit[e]: the status of event e's row in webhook_events
          running       \* running[w]: the event whose handler w runs, or NoEvent

deliveryVars == <<log, audit, running>>

EventIds == 1..MaxEvents
Published == 1..Len(log)
NoEvent == 0

\* Rows in these states are handled when a job for them starts; the other two
\* make the processor return at once.
Retryable == {"Pending", "Failed"}
Terminal == {"Processed", "Skipped"}
Verdicts == Terminal \cup {"Failed"}

DeliveryTypeOK ==
  /\ Len(log) <= MaxEvents
  /\ audit \in [EventIds -> {"Absent"} \cup Retryable \cup Terminal]
  /\ running \in [Workers -> EventIds \cup {NoEvent}]

DeliveryInit ==
  /\ log = <<>>
  /\ audit = [e \in EventIds |-> "Absent"]
  /\ running = [w \in Workers |-> NoEvent]

\* Unit publishes the event ev.
Emit(ev) ==
  /\ Len(log) < MaxEvents
  /\ log' = Append(log, ev)
  /\ UNCHANGED <<audit, running>>

\* The endpoint stores the events of one request that it does not have yet;
\* of a redelivered one nothing changes: createMany skips duplicates.
IngestBatch(batch) ==
  /\ batch \subseteq Published
  /\ audit' = [e \in EventIds |->
       IF e \in batch /\ audit[e] = "Absent" THEN "Pending" ELSE audit[e]]
  /\ UNCHANGED <<log, running>>

\* One event of such a batch: no handler can tell whether others came with it.
Ingest(e) ==
  /\ e \in Published
  /\ audit[e] = "Absent"
  /\ audit' = [audit EXCEPT ![e] = "Pending"]
  /\ UNCHANGED <<log, running>>

\* A free worker picks up a job of event e.
Begin(w, e) ==
  /\ running[w] = NoEvent
  /\ audit[e] \in Retryable
  /\ running' = [running EXCEPT ![w] = e]
  /\ UNCHANGED <<log, audit>>

\* markEvent: the worker writes the verdict, whatever the row says by now.
Mark(w, verdict) ==
  /\ running[w] # NoEvent
  /\ audit' = [audit EXCEPT ![running[w]] = verdict]
  /\ running' = [running EXCEPT ![w] = NoEvent]
  /\ UNCHANGED log

\* The worker process dies, or the database refuses even the Failed mark: the
\* event keeps the status it had and stays eligible if that was not terminal.
Abandon(w) ==
  /\ running[w] # NoEvent
  /\ running' = [running EXCEPT ![w] = NoEvent]
  /\ UNCHANGED <<log, audit>>

-----------------------------------------------------------------------------
(* The pipeline alone, with handlers that may take any time and give any   *)
(* verdict: what WebhookQueue.tla implements.                              *)

Publish ==
  /\ Len(log) < MaxEvents
  /\ Len(log') = Len(log) + 1
  /\ \A i \in Published : log'[i] = log[i]
  /\ UNCHANGED <<audit, running>>

DeliveryNext ==
  \/ Publish
  \/ \E batch \in SUBSET EventIds : IngestBatch(batch)
  \/ \E w \in Workers, e \in EventIds : Begin(w, e)
  \/ \E w \in Workers, v \in Verdicts : Mark(w, v)
  \/ \E w \in Workers : Abandon(w)

DeliverySpec == DeliveryInit /\ [][DeliveryNext]_deliveryVars
=============================================================================
