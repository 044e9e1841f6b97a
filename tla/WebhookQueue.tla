---------------------------- MODULE WebhookQueue -----------------------------
(***************************************************************************)
(* The webhook pipeline in detail: Unit's deliveries, the endpoint that    *)
(* stores and queues (webhooks.service.ts), the BullMQ queue (queue.ts)    *)
(* and the frame of the processor (webhook-event.processor.ts), with the   *)
(* domain handlers reduced to their verdict.  It implements                *)
(* EventDelivery.tla, which the domain models build on.                    *)
(*                                                                         *)
(* BullMQ and Unit's delivery are external: a job is offered until it is   *)
(* completed, has failed MaxAttempts times or was found without a live     *)
(* owner more than MaxStalls times; Unit delivers an event until a request *)
(* carrying it is answered with 200, and now and then again.               *)
(***************************************************************************)
EXTENDS Naturals, Sequences

CONSTANTS Requests,       \* webhook requests being served at the same time
          Workers,        \* job slots of the worker process
          MaxEvents,      \* bound: events Unit publishes
          MaxAttempts,    \* attempts of a job (5)
          MaxStalls,      \* stalls of a job before it fails (BullMQ: 1)
          MaxDuplicates,  \* bound: deliveries Unit did not have to make
          MaxFaults,      \* bound: crashes, failures and missed lock renewals
          NoJob,          \* a worker without a job
          NoOwner         \* a job nobody has taken

VARIABLES published,      \* how many events Unit has published
          acked,          \* the events Unit got a 200 for
          request,        \* request[r]: [step, batch, found]
          audit,          \* audit[e]: the status of the row in webhook_events
          jobs,           \* jobs[e]: the jobs queued for event e, oldest first
          slot,           \* slot[w]: [job, step, ok] of a worker
          duplicates, faults

endpointVars == <<acked, request, duplicates>>
workerVars == <<jobs, slot>>
vars == <<published, endpointVars, audit, workerVars, faults>>

EventIds == 1..MaxEvents
Published == 1..published

Terminal == {"Processed", "Skipped"}
Retryable == {"Pending", "Failed"}
JobStates == {"waiting", "active", "completed", "failed"}
Job == [state : JobStates, owner : Workers \cup {NoOwner},
        attempts : 0..MaxAttempts, stalls : 0..MaxStalls]
\* Mutant: a job with a delay, which nothing here makes due.
NewJob_Delayed == [state |-> "delayed", owner |-> NoOwner, attempts |-> 0, stalls |-> 0]
NewJob == [state |-> "waiting", owner |-> NoOwner, attempts |-> 0, stalls |-> 0]

NoRequest == [step |-> "idle", batch |-> {}, found |-> {}]
IdleSlot == [job |-> NoJob, step |-> "idle", ok |-> TRUE]

ASSUME QueueAssumption ==
  /\ MaxEvents \in Nat /\ MaxAttempts \in Nat \ {0} /\ MaxStalls \in Nat
  /\ MaxDuplicates \in Nat /\ MaxFaults \in Nat
  /\ NoOwner \notin Workers

TypeOK ==
  /\ published \in 0..MaxEvents
  /\ acked \subseteq Published
  /\ request \in [Requests -> [step : {"idle", "store", "find", "queue", "answer"},
                               batch : SUBSET EventIds, found : SUBSET EventIds]]
  /\ audit \in [EventIds -> {"Absent"} \cup Retryable \cup Terminal]
  /\ jobs \in [EventIds -> Seq(Job)]
  /\ slot \in [Workers -> [job : (EventIds \X (Nat \ {0})) \cup {NoJob},
                           step : {"idle", "taken", "running", "finish"},
                           ok : BOOLEAN]]
  /\ duplicates \in 0..MaxDuplicates
  /\ faults \in 0..MaxFaults

Init ==
  /\ published = 0
  /\ acked = {}
  /\ request = [r \in Requests |-> NoRequest]
  /\ audit = [e \in EventIds |-> "Absent"]
  /\ jobs = [e \in EventIds |-> <<>>]
  /\ slot = [w \in Workers |-> IdleSlot]
  /\ duplicates = 0
  /\ faults = 0

Fault == faults < MaxFaults /\ faults' = faults + 1

-----------------------------------------------------------------------------
(* Unit and the endpoint.                                                  *)

UnitPublishes ==
  /\ published < MaxEvents
  /\ published' = published + 1
  /\ UNCHANGED <<endpointVars, audit, workerVars, faults>>

Carried == UNION {request[r].batch : r \in Requests}

Open(r, batch) ==
  /\ request[r] = NoRequest
  /\ request' = [request EXCEPT ![r] = [step |-> "store", batch |-> batch, found |-> {}]]
  /\ UNCHANGED <<published, acked, audit, workerVars, faults>>

\* Unit posts events it still owes us.
UnitDelivers(r, batch) ==
  /\ batch # {} /\ batch \subseteq Published \ (acked \cup Carried)
  /\ Open(r, batch)
  /\ UNCHANGED duplicates

\* Unit posts events it has posted already, or is posting right now.
UnitRedelivers(r, batch) ==
  /\ batch # {} /\ batch \subseteq Published \cap (acked \cup Carried)
  /\ duplicates < MaxDuplicates
  /\ duplicates' = duplicates + 1
  /\ Open(r, batch)

RequestAt(r, s) == request[r].step = s

\* createMany with skipDuplicates.
StoreEvents(r) ==
  /\ RequestAt(r, "store")
  /\ audit' = [e \in EventIds |->
       IF e \in request[r].batch /\ audit[e] = "Absent" THEN "Pending" ELSE audit[e]]
  /\ request' = [request EXCEPT ![r].step = "find"]
  /\ UNCHANGED <<published, acked, duplicates, workerVars, faults>>

\* Mutant: the filter keeps the wrong rows.
ToQueue_OnlyFailed(batch) == {e \in batch : audit[e] = "Failed"}
\* The rows a request queues: findMany, then the filter on Pending.
ToQueue(batch) == {e \in batch : audit[e] = "Pending"}

\* findMany: the statuses are read here and used after the await.
FindPending(r) ==
  /\ RequestAt(r, "find")
  /\ request' = [request EXCEPT ![r].step = "queue", ![r].found = ToQueue(request[r].batch)]
  /\ UNCHANGED <<published, acked, duplicates, audit, workerVars, faults>>

\* addBulk: one job for each row that was Pending, atomically.
QueueJobs(r) ==
  /\ RequestAt(r, "queue")
  /\ jobs' = [e \in EventIds |->
       IF e \in request[r].found THEN Append(jobs[e], NewJob) ELSE jobs[e]]
  /\ request' = [request EXCEPT ![r].step = "answer"]
  /\ UNCHANGED <<published, acked, duplicates, audit, slot, faults>>

\* 200: Unit will not send these again unless by mistake.
Answer(r) ==
  /\ RequestAt(r, "answer")
  /\ acked' = acked \cup request[r].batch
  /\ request' = [request EXCEPT ![r] = NoRequest]
  /\ UNCHANGED <<published, duplicates, audit, workerVars, faults>>

\* The API dies, a statement throws (500), or the answer is lost.
LoseRequest(r) ==
  /\ ~RequestAt(r, "idle")
  /\ Fault
  /\ request' = [request EXCEPT ![r] = NoRequest]
  /\ UNCHANGED <<published, acked, duplicates, audit, workerVars>>

-----------------------------------------------------------------------------
(* The queue and the worker.                                               *)

JobIds == {j \in EventIds \X (1..(MaxDuplicates + MaxFaults + 1)) : j[2] <= Len(jobs[j[1]])}
JobAt(j) == jobs[j[1]][j[2]]
EventOf(w) == slot[w].job[1]
Holds(w) == JobAt(slot[w].job).state = "active" /\ JobAt(slot[w].job).owner = w
SetJob(j, job) == jobs' = [jobs EXCEPT ![j[1]][j[2]] = job]

TakeJob(w, j) ==
  /\ slot[w] = IdleSlot
  /\ JobAt(j).state = "waiting"
  /\ SetJob(j, [JobAt(j) EXCEPT !.state = "active", !.owner = w])
  /\ slot' = [slot EXCEPT ![w] = [job |-> j, step |-> "taken", ok |-> TRUE]]
  /\ UNCHANGED <<published, endpointVars, audit, faults>>

\* Mutant: a redelivered event is handled again.
IsDone_Never(e) == FALSE
IsDone(e) == audit[e] \in Terminal

\* processWebhookEvent reads the row: a terminal one is done with.
CheckRow(w) ==
  /\ slot[w].step = "taken"
  /\ slot' = [slot EXCEPT ![w].step =
       IF IsDone(EventOf(w)) THEN "finish" ELSE "running"]
  /\ UNCHANGED <<published, endpointVars, audit, jobs, faults>>

\* The handler returns and markEvent writes its verdict.
Conclude(w, verdict) ==
  /\ slot[w].step = "running"
  /\ audit' = [audit EXCEPT ![EventOf(w)] = verdict]
  /\ slot' = [slot EXCEPT ![w].step = "finish"]
  /\ UNCHANGED <<published, endpointVars, jobs, faults>>

\* The handler or its markEvent throws; the catch block marks the event
\* Failed, unless the database refuses that too, and rethrows.
FailRun(w) ==
  /\ slot[w].step = "running"
  /\ Fault
  /\ \/ audit' = [audit EXCEPT ![EventOf(w)] = "Failed"]
     \/ audit' = audit
  /\ slot' = [slot EXCEPT ![w].step = "finish", ![w].ok = FALSE]
  /\ UNCHANGED <<published, endpointVars, jobs>>

\* Mutant: a failed job is not retried.
AfterFailure_NoRetry(job) == [job EXCEPT !.owner = NoOwner, !.state = "failed"]
\* What BullMQ makes of a job whose run threw.
AfterFailure(job) ==
  [job EXCEPT !.owner = NoOwner, !.attempts = @ + 1,
              !.state = IF job.attempts + 1 < MaxAttempts THEN "waiting" ELSE "failed"]

\* The job ends, if the worker still owns it: completed, retried or failed.
FinishJob(w) ==
  /\ slot[w].step = "finish"
  /\ IF Holds(w)
     THEN SetJob(slot[w].job,
            IF slot[w].ok
            THEN [JobAt(slot[w].job) EXCEPT !.owner = NoOwner, !.state = "completed"]
            ELSE AfterFailure(JobAt(slot[w].job)))
     ELSE UNCHANGED jobs
  /\ slot' = [slot EXCEPT ![w] = IdleSlot]
  /\ UNCHANGED <<published, endpointVars, audit, faults>>

\* A slot's process dies; its job stays active with nobody behind it.
CrashWorker(w) ==
  /\ slot[w] # IdleSlot
  /\ Fault
  /\ slot' = [slot EXCEPT ![w] = IdleSlot]
  /\ UNCHANGED <<published, endpointVars, audit, jobs>>

Stalled(j) ==
  [JobAt(j) EXCEPT !.owner = NoOwner,
     !.state = IF JobAt(j).stalls < MaxStalls THEN "waiting" ELSE "failed",
     !.stalls = IF JobAt(j).stalls < MaxStalls THEN @ + 1 ELSE @]

\* The stalled-job check finds an active job whose owner is gone ...
RecoverStalled(j) ==
  /\ JobAt(j).state = "active"
  /\ slot[JobAt(j).owner].job # j
  /\ SetJob(j, Stalled(j))
  /\ UNCHANGED <<published, endpointVars, audit, slot, faults>>

\* ... or one whose owner merely failed to renew its lock and still runs.
LoseLock(j) ==
  /\ JobAt(j).state = "active"
  /\ slot[JobAt(j).owner].job = j
  /\ Fault
  /\ SetJob(j, Stalled(j))
  /\ UNCHANGED <<published, endpointVars, audit, slot>>

-----------------------------------------------------------------------------
\* What must go on: owed deliveries, requests, jobs and the stalled check.
Progress ==
  \/ \E r \in Requests, batch \in SUBSET EventIds : UnitDelivers(r, batch)
  \/ \E r \in Requests : StoreEvents(r) \/ FindPending(r) \/ QueueJobs(r) \/ Answer(r)
  \/ \E w \in Workers :
       \/ \E j \in JobIds : TakeJob(w, j)
       \/ CheckRow(w)
       \/ \E verdict \in Terminal : Conclude(w, verdict)
       \/ FinishJob(w)
  \/ \E j \in JobIds : RecoverStalled(j)

Surprise ==
  \/ \E r \in Requests, batch \in SUBSET EventIds : UnitRedelivers(r, batch)
  \/ \E r \in Requests : LoseRequest(r)
  \/ \E w \in Workers : FailRun(w) \/ CrashWorker(w)
  \/ \E j \in JobIds : LoseLock(j)

Live(job) == job.state \in {"waiting", "active"}

Rest ==
  /\ acked = Published
  /\ \A r \in Requests : request[r] = NoRequest
  /\ \A j \in JobIds : ~Live(JobAt(j))
  /\ \A w \in Workers : slot[w] = IdleSlot
  /\ UNCHANGED vars

Next == UnitPublishes \/ Progress \/ Surprise \/ Rest

Spec == Init /\ [][Next]_vars

\* Unit retries what it was not answered for; queue and worker keep running.
FairSpec == Spec /\ WF_vars(Progress)

-----------------------------------------------------------------------------
(* Properties.                                                             *)

\* No event falls between the audit table and the queue: an event Unit will
\* not send again is stored, and until it has a last verdict a job for it is
\* live, unless the queue gave one up after its attempts, or took one from a
\* worker that still ran it, whose late failure may then overwrite the verdict.
NothingForgotten ==
  \A e \in acked :
    /\ audit[e] # "Absent"
    /\ audit[e] \in Terminal \/ \E n \in 1..Len(jobs[e]) :
         Live(jobs[e][n]) \/ jobs[e][n].state = "failed" \/ jobs[e][n].stalls > 0

\* Unless there are as many faults as a job has attempts, or stalls to survive,
\* every event Unit publishes gets a last verdict and keeps it, whatever was
\* redelivered, lost between createMany and addBulk, or run twice.
EventuallySettled ==
  \A e \in EventIds : <>[](\/ e \in Published => audit[e] \in Terminal
                          \/ faults >= MaxAttempts \/ faults > MaxStalls)

Delivery == INSTANCE EventDelivery WITH
  log <- [i \in Published |-> "event"],
  running <- [w \in Workers |-> IF slot[w].step = "running" THEN EventOf(w) ELSE 0]

\* To the handlers the queue, its retries and its stalls look like at-least-once,
\* unordered and possibly overlapping delivery (EventDelivery.tla).
ImplementsEventDelivery == Delivery!DeliverySpec
=============================================================================
