-------------------------- MODULE WebhookQueueProofs --------------------------
(***************************************************************************)
(* Theorems about WebhookQueue.tla, for any number of requests, job slots, *)
(* events, attempts, stalls, redeliveries and faults: no event is          *)
(* forgotten, and the handlers see no more than EventDelivery.tla.         *)
(* Both rest on what IInv says of an event on its way from the audit table *)
(* into the queue, and of the jobs that may still be run for it.           *)
(* A third theorem drops NothingForgotten's exceptions for executions with *)
(* a single fault.                                                         *)
(***************************************************************************)
EXTENDS WebhookQueue, SequenceTheorems, TLAPS

JobNumbers(e) == 1..Len(jobs[e])
IsQueued(e) == JobNumbers(e) # {}

\* Requests carry what Unit has published, and queue what they carry; what a
\* request has found needless to queue has been queued already.
RequestIsSound ==
  \A r \in Requests :
    /\ request[r].batch \subseteq Published
    /\ request[r].found \subseteq request[r].batch
    /\ request[r].step \in {"find", "queue", "answer"} =>
         \A e \in request[r].batch : audit[e] # "Absent"
    /\ request[r].step = "queue" =>
         \A e \in request[r].batch \ request[r].found : IsQueued(e)
    /\ request[r].step = "answer" =>
         \A e \in request[r].batch : IsQueued(e)

\* Events are stored before they are queued, and queued before they are run.
EventIsSound ==
  \A e \in EventIds :
    /\ audit[e] # "Absent" => e \in Published
    /\ audit[e] \notin {"Absent", "Pending"} => IsQueued(e)
    /\ IsQueued(e) => audit[e] # "Absent"
    /\ e \in acked => IsQueued(e)

\* A job that may run has attempts left, and one that runs has an owner.
JobIsSound ==
  \A e \in EventIds : \A n \in JobNumbers(e) :
    /\ Live(jobs[e][n]) => jobs[e][n].attempts < MaxAttempts
    /\ jobs[e][n].state = "active" => jobs[e][n].owner \in Workers

\* The job was given up, or taken from a worker that still ran it.
IsLost(job) == job.state = "failed" \/ job.stalls > 0

\* A busy slot has its job, or the queue has taken that job away.
SlotIsSound ==
  \A w \in Workers : slot[w].step # "idle" =>
    /\ slot[w].job[1] \in EventIds /\ slot[w].job[2] \in JobNumbers(slot[w].job[1])
    /\ slot[w].job = <<slot[w].job[1], slot[w].job[2]>>
    /\ Holds(w) \/ IsLost(JobAt(slot[w].job))

\* w is about to complete the n-th job of e.
Completes(w, e, n) ==
  slot[w].job = <<e, n>> /\ slot[w].step = "finish" /\ slot[w].ok

\* The n-th job of e will be run again or to a verdict, or was lost.
Counts(e, n) ==
  \/ jobs[e][n].state = "waiting"
  \/ jobs[e][n].state = "active" /\ ~Completes(jobs[e][n].owner, e, n)
  \/ IsLost(jobs[e][n])

\* A queued event without a last verdict has such a job.
NoneIsDropped ==
  \A e \in EventIds : IsQueued(e) =>
    audit[e] \in Terminal \/ \E n \in JobNumbers(e) : Counts(e, n)

IInv ==
  /\ TypeOK
  /\ RequestIsSound
  /\ EventIsSound
  /\ JobIsSound
  /\ SlotIsSound
  /\ NoneIsDropped

-----------------------------------------------------------------------------
(* Jobs and slots.                                                         *)

\* The queue of an event is a sequence of jobs.
LEMMA JobTypes ==
  ASSUME TypeOK, NEW e \in EventIds
  PROVE  /\ jobs[e] \in Seq(Job) /\ Len(jobs[e]) \in Nat
         /\ \A n \in JobNumbers(e) : jobs[e][n] \in Job
<1>1. jobs[e] \in Seq(Job)
  BY DEF TypeOK
<1> QED
  BY <1>1, ElementOfSeq, LenProperties DEF JobNumbers

\* Setting a job leaves the others alone.
LEMMA SetJobEffect ==
  ASSUME TypeOK, NEW e \in EventIds, NEW n \in JobNumbers(e), NEW job \in Job,
         SetJob(<<e, n>>, job)
  PROVE  /\ jobs' \in [EventIds -> Seq(Job)]
         /\ \A d \in EventIds : JobNumbers(d)' = JobNumbers(d)
         /\ \A d \in EventIds : \A m \in JobNumbers(d) :
              jobs'[d][m] = IF d = e /\ m = n THEN job ELSE jobs[d][m]
<1> DEFINE queue == [jobs[e] EXCEPT ![n] = job]
<1>1. jobs' = [jobs EXCEPT ![e] = queue]
  BY DEF SetJob
<1>2. /\ queue \in Seq(Job) /\ Len(queue) = Len(jobs[e])
      /\ \A m \in JobNumbers(e) : queue[m] = IF m = n THEN job ELSE jobs[e][m]
  BY JobTypes, ExceptSeq DEF JobNumbers
<1> HIDE DEF queue
<1>3. jobs \in [EventIds -> Seq(Job)]
  BY DEF TypeOK
<1>4. \A d \in EventIds : jobs'[d] = IF d = e THEN queue ELSE jobs[d]
  BY <1>1, <1>3
<1> QED
  BY <1>1, <1>2, <1>3, <1>4 DEF JobNumbers

\* The job of a busy slot is one of the queue.
LEMMA SlotJob ==
  ASSUME TypeOK, SlotIsSound, NEW w \in Workers, slot[w].step # "idle"
  PROVE  /\ EventOf(w) \in EventIds /\ slot[w].job[2] \in JobNumbers(EventOf(w))
         /\ slot[w].job = <<EventOf(w), slot[w].job[2]>>
         /\ JobAt(slot[w].job) = jobs[EventOf(w)][slot[w].job[2]]
         /\ JobAt(slot[w].job) \in Job
         /\ IsQueued(EventOf(w))
<1>1. EventOf(w) \in EventIds /\ slot[w].job[2] \in JobNumbers(EventOf(w))
  BY DEF SlotIsSound, EventOf
<1>2. jobs[EventOf(w)][slot[w].job[2]] \in Job
  BY <1>1, JobTypes
<1> QED
  BY <1>1, <1>2 DEF SlotIsSound, EventOf, JobAt, IsQueued

\* A worker runs an event whose job counts, unless it is about to complete it.
LEMMA RunCounts ==
  ASSUME TypeOK, SlotIsSound, NEW w \in Workers, slot[w].step # "idle"
  PROVE  \/ JobAt(slot[w].job).state = "active" /\ JobAt(slot[w].job).owner = w
         \/ IsLost(JobAt(slot[w].job))
BY DEF SlotIsSound, Holds

-----------------------------------------------------------------------------
(* What steps leave alone.                                                 *)

\* A step that changes no row, no request and no number of jobs.
LEMMA RecordsKept ==
  ASSUME RequestIsSound, EventIsSound,
         UNCHANGED <<request, audit, published, acked>>,
         \A d \in EventIds : JobNumbers(d)' = JobNumbers(d),
         TypeOK
  PROVE  RequestIsSound' /\ EventIsSound'
<1>1. \A d \in EventIds : IsQueued(d)' <=> IsQueued(d)
  BY DEF IsQueued
<1>2. Published' = Published
  BY DEF Published
<1>3. \A r \in Requests : request[r].batch \subseteq EventIds
  BY DEF TypeOK
<1>4. RequestIsSound'
  BY <1>1, <1>2, <1>3 DEF RequestIsSound
<1> QED
  BY <1>1, <1>2, <1>4 DEF EventIsSound

\* A step of the endpoint, before it queues.
LEMMA WorkKept ==
  ASSUME JobIsSound, SlotIsSound, NoneIsDropped, UNCHANGED <<jobs, slot>>,
         \A e \in EventIds : audit[e] \in Terminal => audit'[e] \in Terminal
  PROVE  JobIsSound' /\ SlotIsSound' /\ NoneIsDropped'
<1>1. JobIsSound'
  BY DEF JobIsSound, JobNumbers, Live
<1>2. SlotIsSound'
  BY DEF SlotIsSound, JobNumbers, Holds, JobAt, IsLost
<1>3. NoneIsDropped'
  BY DEF NoneIsDropped, IsQueued, JobNumbers, Counts, Completes, IsLost
<1> QED
  BY <1>1, <1>2, <1>3

-----------------------------------------------------------------------------
(* The invariant holds at the start ...                                    *)

LEMMA InitIInv == Init => IInv
<1> SUFFICES ASSUME Init PROVE IInv
  OBVIOUS
<1> USE QueueAssumption
<1>1. TypeOK
  <2>1. jobs \in [EventIds -> Seq(Job)]
    BY EmptySeq DEF Init
  <2> QED
    BY <2>1 DEF Init, TypeOK, EventIds, Published, NoRequest, IdleSlot
<1>2. \A e \in EventIds : JobNumbers(e) = {}
  BY EmptySeq DEF Init, JobNumbers
<1>3. RequestIsSound /\ EventIsSound
  BY <1>2 DEF Init, RequestIsSound, EventIsSound, IsQueued, NoRequest, Published
<1>4. JobIsSound /\ SlotIsSound /\ NoneIsDropped
  BY <1>2 DEF Init, JobIsSound, SlotIsSound, NoneIsDropped, IsQueued, IdleSlot
<1> QED
  BY <1>1, <1>3, <1>4 DEF IInv

-----------------------------------------------------------------------------
(* ... and is kept by Unit and the endpoint ...                            *)

LEMMA PublishKeepsIInv ==
  ASSUME IInv, UnitPublishes PROVE IInv'
<1> USE QueueAssumption DEF UnitPublishes, endpointVars, workerVars
<1>1. Published \subseteq Published'
  BY DEF Published, IInv, TypeOK
<1>2. TypeOK'
  BY <1>1 DEF IInv, TypeOK
<1>3. RequestIsSound'
  BY <1>1 DEF IInv, RequestIsSound, IsQueued, JobNumbers
<1>4. EventIsSound'
  BY <1>1 DEF IInv, EventIsSound, IsQueued, JobNumbers
<1>5. JobIsSound' /\ SlotIsSound' /\ NoneIsDropped'
  BY WorkKept DEF IInv
<1> QED
  BY <1>2, <1>3, <1>4, <1>5 DEF IInv

\* A request begins with published events.
LEMMA OpenKeepsIInv ==
  ASSUME IInv, NEW r \in Requests, NEW batch \in SUBSET EventIds,
         batch \subseteq Published, Open(r, batch), duplicates' \in 0..MaxDuplicates
  PROVE  IInv'
<1> USE DEF Open, workerVars
<1>1. \A q \in Requests : request'[q] = IF q = r
        THEN [step |-> "store", batch |-> batch, found |-> {}] ELSE request[q]
  BY DEF IInv, TypeOK
<1>2. TypeOK'
  <2>1. request' \in [Requests -> [step : {"idle", "store", "find", "queue", "answer"},
                                   batch : SUBSET EventIds, found : SUBSET EventIds]]
    BY DEF IInv, TypeOK
  <2> QED
    BY <2>1 DEF IInv, TypeOK, Published
<1>3. RequestIsSound'
  <2>1. Published' = Published /\ audit' = audit /\ \A e : IsQueued(e)' <=> IsQueued(e)
    BY DEF Published, IsQueued, JobNumbers
  <2>2. RequestIsSound
    BY DEF IInv
  <2> HIDE DEF Open
  <2> QED
    BY <1>1, <2>1, <2>2 DEF RequestIsSound
<1>4. EventIsSound'
  BY DEF IInv, EventIsSound, IsQueued, JobNumbers, Published
<1>5. JobIsSound' /\ SlotIsSound' /\ NoneIsDropped'
  BY WorkKept DEF IInv
<1> QED
  BY <1>2, <1>3, <1>4, <1>5 DEF IInv

\* A request goes on without touching the tables or the queue.
LEMMA RequestMoves ==
  ASSUME IInv, NEW r \in Requests,
         UNCHANGED <<published, duplicates, audit, jobs, slot>>,
         acked' \subseteq Published, faults' \in 0..MaxFaults,
         \A e \in EventIds : e \in acked' => e \in acked \/ IsQueued(e),
         \A q \in Requests \ {r} : request'[q] = request[q],
         request' \in [Requests -> [step : {"idle", "store", "find", "queue", "answer"},
                                    batch : SUBSET EventIds, found : SUBSET EventIds]],
         request'[r].batch \subseteq request[r].batch,
         request'[r].found \subseteq request'[r].batch,
         request'[r].step \in {"find", "queue", "answer"} =>
           \A e \in request[r].batch : audit[e] # "Absent",
         request'[r].step = "queue" =>
           \A e \in request'[r].batch \ request'[r].found : IsQueued(e),
         request'[r].step # "answer"
  PROVE  IInv'
<1>1. TypeOK'
  BY DEF IInv, TypeOK, Published
<1>2. RequestIsSound'
  BY DEF IInv, RequestIsSound, IsQueued, JobNumbers, Published
<1>3. EventIsSound'
  BY DEF IInv, EventIsSound, IsQueued, JobNumbers, Published
<1>4. JobIsSound' /\ SlotIsSound' /\ NoneIsDropped'
  BY WorkKept DEF IInv
<1> QED
  BY <1>1, <1>2, <1>3, <1>4 DEF IInv

LEMMA StoreKeepsIInv ==
  ASSUME IInv, NEW r \in Requests, StoreEvents(r) PROVE IInv'
<1> USE DEF StoreEvents, RequestAt, workerVars
<1>1. \A q \in Requests : /\ request'[q].batch = request[q].batch
                          /\ request'[q].found = request[q].found
                          /\ request'[q].step = IF q = r THEN "find" ELSE request[q].step
  BY DEF IInv, TypeOK
<1>2. \A e \in EventIds : audit'[e] = IF e \in request[r].batch /\ audit[e] = "Absent"
                                      THEN "Pending" ELSE audit[e]
  OBVIOUS
<1>3. /\ \A q \in Requests : request[q].batch \subseteq Published
      /\ \A q \in Requests : request[q].batch \subseteq EventIds
  BY DEF IInv, TypeOK, RequestIsSound
<1>4. TypeOK'
  BY DEF IInv, TypeOK, Published, Retryable
<1>5. RequestIsSound'
  BY <1>1, <1>2, <1>3 DEF IInv, RequestIsSound, IsQueued, JobNumbers, Published
<1>6. EventIsSound'
  BY <1>2, <1>3 DEF IInv, EventIsSound, IsQueued, JobNumbers, Published
<1>7. JobIsSound' /\ SlotIsSound' /\ NoneIsDropped'
  BY <1>2, WorkKept DEF IInv, Terminal
<1> QED
  BY <1>4, <1>5, <1>6, <1>7 DEF IInv

\* What is stored and not Pending has been run, and so been queued.
LEMMA FindKeepsIInv ==
  ASSUME IInv, NEW r \in Requests, FindPending(r) PROVE IInv'
<1> USE DEF FindPending, RequestAt, workerVars
<1>1. /\ request'[r].step = "queue" /\ request'[r].batch = request[r].batch
      /\ request'[r].found = ToQueue(request[r].batch)
  BY DEF IInv, TypeOK
<1>2. \A e \in request[r].batch : e \in EventIds /\ audit[e] # "Absent"
  BY DEF IInv, TypeOK, RequestIsSound
<1>3. \A e \in request[r].batch \ ToQueue(request[r].batch) : IsQueued(e)
  BY <1>2 DEF IInv, EventIsSound, ToQueue
<1>4. ToQueue(request[r].batch) \in SUBSET EventIds
  BY <1>2 DEF ToQueue
<1>5. request' \in [Requests -> [step : {"idle", "store", "find", "queue", "answer"},
                                 batch : SUBSET EventIds, found : SUBSET EventIds]]
  <2> DEFINE found == ToQueue(request[r].batch)
  <2>1. found \in SUBSET EventIds
    BY <1>4
  <2>2. request' = [request EXCEPT ![r].step = "queue", ![r].found = found]
    OBVIOUS
  <2> HIDE DEF found
  <2> QED
    BY <2>1, <2>2 DEF IInv, TypeOK
<1>6. acked' \subseteq Published /\ faults' \in 0..MaxFaults
  BY DEF IInv, TypeOK
<1>7. ToQueue(request[r].batch) \subseteq request[r].batch
  BY DEF ToQueue
<1>8. \A q \in Requests \ {r} : request'[q] = request[q]
  BY DEF IInv, TypeOK
<1> QED
  BY <1>1, <1>2, <1>3, <1>5, <1>6, <1>7, <1>8, RequestMoves

LEMMA AnswerKeepsIInv ==
  ASSUME IInv, NEW r \in Requests, Answer(r) PROVE IInv'
<1> USE DEF Answer, RequestAt, workerVars, NoRequest
<1>1. request'[r] = NoRequest /\ \A q \in Requests \ {r} : request'[q] = request[q]
  BY DEF IInv, TypeOK
<1>2. request[r].batch \subseteq Published
  BY DEF IInv, RequestIsSound
<1>3. \A e \in request[r].batch : IsQueued(e)
  BY DEF IInv, RequestIsSound
<1>4. acked' \subseteq Published /\ faults' \in 0..MaxFaults
  BY <1>2 DEF IInv, TypeOK
<1>5. request' \in [Requests -> [step : {"idle", "store", "find", "queue", "answer"},
                                 batch : SUBSET EventIds, found : SUBSET EventIds]]
  BY DEF IInv, TypeOK
<1> QED
  BY <1>1, <1>3, <1>4, <1>5, RequestMoves

LEMMA LoseKeepsIInv ==
  ASSUME IInv, NEW r \in Requests, LoseRequest(r) PROVE IInv'
<1> USE QueueAssumption DEF LoseRequest, RequestAt, workerVars, NoRequest, Fault
<1>1. request'[r] = NoRequest /\ \A q \in Requests \ {r} : request'[q] = request[q]
  BY DEF IInv, TypeOK
<1>2. acked' \subseteq Published /\ faults' \in 0..MaxFaults
  BY DEF IInv, TypeOK
<1>3. request' \in [Requests -> [step : {"idle", "store", "find", "queue", "answer"},
                                 batch : SUBSET EventIds, found : SUBSET EventIds]]
  BY DEF IInv, TypeOK
<1> QED
  BY <1>1, <1>2, <1>3, RequestMoves

\* The new jobs are at the ends of their queues, and wait.
LEMMA QueueKeepsIInv ==
  ASSUME IInv, NEW r \in Requests, QueueJobs(r) PROVE IInv'
<1> USE QueueAssumption DEF QueueJobs, RequestAt
<1>0. TypeOK /\ RequestIsSound /\ EventIsSound
  BY DEF IInv
<1>1. NewJob \in Job
  BY DEF NewJob, Job, JobStates
<1>2. ASSUME NEW e \in EventIds
      PROVE  /\ jobs'[e] \in Seq(Job)
             /\ \A n \in JobNumbers(e) : n \in JobNumbers(e)' /\ jobs'[e][n] = jobs[e][n]
             /\ \A n \in JobNumbers(e)' : n \in JobNumbers(e) \/ jobs'[e][n] = NewJob
             /\ e \in request[r].found => Len(jobs[e]) + 1 \in JobNumbers(e)'
             /\ e \notin request[r].found => JobNumbers(e)' = JobNumbers(e)
  <2>1. jobs[e] \in Seq(Job) /\ Len(jobs[e]) \in Nat
    BY <1>0, JobTypes
  <2>2. CASE e \in request[r].found
    <3>1. jobs'[e] = Append(jobs[e], NewJob)
      BY <2>2
    <3>2. /\ jobs'[e] \in Seq(Job) /\ Len(jobs'[e]) = Len(jobs[e]) + 1
          /\ \A n \in 1..Len(jobs[e]) : jobs'[e][n] = jobs[e][n]
          /\ jobs'[e][Len(jobs[e]) + 1] = NewJob
      BY <1>1, <2>1, <3>1, AppendProperties
    <3>3. /\ JobNumbers(e) = 1..Len(jobs[e]) /\ JobNumbers(e)' = 1..(Len(jobs[e]) + 1)
      BY <3>2 DEF JobNumbers
    <3> HIDE DEF QueueJobs
    <3> QED
      BY <2>1, <2>2, <3>2, <3>3
  <2>3. CASE e \notin request[r].found
    BY <2>1, <2>3 DEF JobNumbers
  <2> QED
    BY <2>2, <2>3
<1>3. \A q \in Requests : /\ request'[q].batch = request[q].batch
                          /\ request'[q].found = request[q].found
                          /\ request'[q].step = IF q = r THEN "answer" ELSE request[q].step
  BY <1>0 DEF TypeOK
<1>4. \A e \in EventIds : IsQueued(e)' <=> (IsQueued(e) \/ e \in request[r].found)
  BY <1>2 DEF IsQueued
<1>5. request[r].found \subseteq request[r].batch /\ request[r].batch \subseteq EventIds
  BY <1>0 DEF RequestIsSound, TypeOK
<1>6. jobs' \in [EventIds -> Seq(Job)]
  BY <1>2
<1>7. /\ UNCHANGED <<published, acked, duplicates, audit, slot, faults>>
      /\ Published' = Published
  BY DEF Published
<1>8. \A q \in Requests : request[q].batch \subseteq EventIds
  BY <1>0 DEF TypeOK
<1>9. request' \in [Requests -> [step : {"idle", "store", "find", "queue", "answer"},
                                 batch : SUBSET EventIds, found : SUBSET EventIds]]
  <2>1. request' = [request EXCEPT ![r].step = "answer"]
    OBVIOUS
  <2>2. request \in [Requests -> [step : {"idle", "store", "find", "queue", "answer"},
                                  batch : SUBSET EventIds, found : SUBSET EventIds]]
    BY <1>0 DEF TypeOK
  <2> HIDE DEF QueueJobs
  <2> QED
    BY <2>1, <2>2
<1>10. request[r].step = "queue"
  OBVIOUS
<1> HIDE DEF QueueJobs, RequestAt
<1>11. TypeOK'
  BY <1>0, <1>6, <1>7, <1>9 DEF TypeOK
<1>12. RequestIsSound'
  BY <1>0, <1>3, <1>4, <1>5, <1>7, <1>8, <1>10 DEF RequestIsSound
<1>13. EventIsSound'
  <2>1. \A e \in request[r].found : audit[e] # "Absent"
    BY <1>0, <1>5, <1>10 DEF RequestIsSound
  <2> QED
    BY <1>0, <1>4, <1>7, <2>1 DEF EventIsSound
<1>14. JobIsSound'
  BY <1>2 DEF IInv, JobIsSound, Live, NewJob
<1>15. SlotIsSound'
  BY <1>2, <1>7 DEF IInv, SlotIsSound, Holds, JobAt
<1>16. NoneIsDropped'
  <2> SUFFICES ASSUME NEW e \in EventIds, IsQueued(e)', audit[e] \notin Terminal
               PROVE  \E n \in JobNumbers(e)' : Counts(e, n)'
    BY <1>7 DEF NoneIsDropped
  <2>1. CASE e \in request[r].found
    <3>1. Len(jobs[e]) + 1 \notin JobNumbers(e)
      BY <1>0, JobTypes DEF JobNumbers
    <3>2. PICK n \in JobNumbers(e)' : n \notin JobNumbers(e)
      BY <1>2, <2>1, <3>1
    <3>3. jobs'[e][n] = NewJob
      BY <1>2, <3>2
    <3> QED
      BY <3>2, <3>3 DEF Counts, NewJob
  <2>2. CASE e \notin request[r].found
    <3>1. PICK n \in JobNumbers(e) : Counts(e, n)
      BY <1>4, <2>2 DEF IInv, NoneIsDropped
    <3>2. n \in JobNumbers(e)' /\ jobs'[e][n] = jobs[e][n]
      BY <1>2
    <3> QED
      BY <1>7, <3>1, <3>2 DEF Counts, Completes
  <2> QED
    BY <2>1, <2>2
<1> QED
  BY <1>11, <1>12, <1>13, <1>14, <1>15, <1>16 DEF IInv

-----------------------------------------------------------------------------
(* ... and by the workers and the queue.                                   *)

\* What the slots are.
Slots == [Workers -> [job : (EventIds \X (Nat \ {0})) \cup {NoJob},
                      step : {"idle", "taken", "running", "finish"}, ok : BOOLEAN]]

\* A step of worker w that leaves the queue alone.
LEMMA SlotMoves ==
  ASSUME IInv, NEW w \in Workers, slot' \in Slots,
         UNCHANGED <<published, acked, request, duplicates, jobs>>,
         faults' \in 0..MaxFaults,
         \A v \in Workers \ {w} : slot'[v] = slot[v],
         slot'[w].step # "idle" => slot[w].step # "idle" /\ slot'[w].job = slot[w].job,
         audit' \in [EventIds -> {"Absent"} \cup Retryable \cup Terminal],
         \A e \in EventIds : \/ audit'[e] = audit[e]
                             \/ IsQueued(e) /\ audit'[e] \notin {"Absent", "Pending"},
         \A e \in EventIds : IsQueued(e) =>
           audit'[e] \in Terminal \/ \E n \in JobNumbers(e) : Counts(e, n)'
  PROVE  IInv'
<1>1. TypeOK'
  BY DEF IInv, TypeOK, Published, Slots
<1>2. \A e \in EventIds : /\ JobNumbers(e)' = JobNumbers(e)
                          /\ IsQueued(e)' <=> IsQueued(e)
  BY DEF JobNumbers, IsQueued
<1>3. Published' = Published
  BY DEF Published
<1>4. \A r \in Requests : request[r].batch \subseteq EventIds
  BY DEF IInv, TypeOK
<1>5. \A e \in EventIds : audit[e] # "Absent" => audit'[e] # "Absent"
  OBVIOUS
<1>6. RequestIsSound'
  BY <1>2, <1>3, <1>4, <1>5 DEF IInv, RequestIsSound
<1>7. EventIsSound'
  BY <1>2, <1>3 DEF IInv, EventIsSound
<1>8. JobIsSound'
  BY DEF IInv, JobIsSound, JobNumbers, Live
<1>9. SlotIsSound'
  BY DEF IInv, SlotIsSound, JobNumbers, Holds, JobAt, IsLost
<1>10. NoneIsDropped'
  BY <1>2 DEF NoneIsDropped
<1> QED
  BY <1>1, <1>6, <1>7, <1>8, <1>9, <1>10 DEF IInv

\* A job of an event that w does not complete counts as before.
LEMMA CountsAsBefore ==
  ASSUME JobIsSound, NEW w \in Workers, NEW e \in EventIds, NEW n \in JobNumbers(e), Counts(e, n),
         jobs' = jobs, \A v \in Workers \ {w} : slot'[v] = slot[v],
         ~Completes(w, e, n)'
  PROVE  Counts(e, n)'
BY DEF Counts, Completes, JobIsSound

LEMMA CheckRowKeepsIInv ==
  ASSUME IInv, NEW w \in Workers, CheckRow(w) PROVE IInv'
<1> DEFINE next == IF IsDone(EventOf(w)) THEN "finish" ELSE "running"
<1>0. /\ slot[w].step = "taken" /\ slot' = [slot EXCEPT ![w].step = next]
      /\ UNCHANGED <<published, acked, request, duplicates, jobs, audit, faults>>
  BY DEF CheckRow, endpointVars
<1>1. slot \in Slots /\ next \in {"running", "finish"}
  BY DEF IInv, TypeOK, Slots
<1>2. next = "finish" => audit[EventOf(w)] \in Terminal
  BY DEF IsDone
<1> HIDE DEF next
<1>3. /\ slot' \in Slots /\ slot'[w].job = slot[w].job /\ slot'[w].step = next
      /\ \A v \in Workers \ {w} : slot'[v] = slot[v]
  BY <1>0, <1>1 DEF Slots
<1>4. ASSUME NEW e \in EventIds, IsQueued(e), audit'[e] \notin Terminal
      PROVE  \E n \in JobNumbers(e) : Counts(e, n)'
  <2>1. PICK n \in JobNumbers(e) : Counts(e, n)
    BY <1>0, <1>4 DEF IInv, NoneIsDropped
  <2>2. ~Completes(w, e, n)'
    BY <1>0, <1>1, <1>2, <1>3, <1>4 DEF Completes, EventOf
  <2> QED
    BY <1>0, <1>3, <2>1, <2>2, CountsAsBefore DEF IInv
<1>5. /\ audit' \in [EventIds -> {"Absent"} \cup Retryable \cup Terminal]
      /\ faults' \in 0..MaxFaults
  BY <1>0 DEF IInv, TypeOK
<1> QED
  BY <1>0, <1>3, <1>4, <1>5, SlotMoves

LEMMA ConcludeKeepsIInv ==
  ASSUME IInv, NEW w \in Workers, NEW verdict \in Terminal, Conclude(w, verdict)
  PROVE  IInv'
<1>0. /\ slot[w].step = "running" /\ slot' = [slot EXCEPT ![w].step = "finish"]
      /\ audit' = [audit EXCEPT ![EventOf(w)] = verdict]
      /\ UNCHANGED <<published, acked, request, duplicates, jobs, faults>>
  BY DEF Conclude, endpointVars
<1>1. slot \in Slots /\ audit \in [EventIds -> {"Absent"} \cup Retryable \cup Terminal]
  BY DEF IInv, TypeOK, Slots
<1>2. EventOf(w) \in EventIds /\ IsQueued(EventOf(w))
  BY <1>0, SlotJob DEF IInv
<1>3. /\ slot' \in Slots /\ slot'[w].job = slot[w].job
      /\ \A v \in Workers \ {w} : slot'[v] = slot[v]
  BY <1>0, <1>1 DEF Slots
<1>4. /\ audit' \in [EventIds -> {"Absent"} \cup Retryable \cup Terminal]
      /\ \A e \in EventIds : audit'[e] = IF e = EventOf(w) THEN verdict ELSE audit[e]
  BY <1>0, <1>1, <1>2
<1>5. ASSUME NEW e \in EventIds, IsQueued(e), audit'[e] \notin Terminal
      PROVE  \E n \in JobNumbers(e) : Counts(e, n)'
  <2>1. e # EventOf(w) /\ audit[e] \notin Terminal
    BY <1>4, <1>5
  <2>2. PICK n \in JobNumbers(e) : Counts(e, n)
    BY <1>5, <2>1 DEF IInv, NoneIsDropped
  <2>3. ~Completes(w, e, n)'
    BY <1>3, <2>1 DEF Completes, EventOf
  <2> QED
    BY <1>0, <1>3, <2>2, <2>3, CountsAsBefore DEF IInv
<1>6. faults' \in 0..MaxFaults
  BY <1>0 DEF IInv, TypeOK
<1> QED
  BY <1>0, <1>2, <1>3, <1>4, <1>5, <1>6, SlotMoves DEF Terminal

\* The job of a run that failed is repeated, or was lost before.
LEMMA FailRunKeepsIInv ==
  ASSUME IInv, NEW w \in Workers, FailRun(w) PROVE IInv'
<1>0. /\ slot[w].step = "running"
      /\ slot' = [slot EXCEPT ![w].step = "finish", ![w].ok = FALSE]
      /\ audit' = [audit EXCEPT ![EventOf(w)] = "Failed"] \/ audit' = audit
      /\ UNCHANGED <<published, acked, request, duplicates, jobs>>
      /\ faults < MaxFaults /\ faults' = faults + 1
  BY DEF FailRun, endpointVars, Fault
<1>1. slot \in Slots /\ audit \in [EventIds -> {"Absent"} \cup Retryable \cup Terminal]
  BY DEF IInv, TypeOK, Slots
<1>2. /\ EventOf(w) \in EventIds /\ IsQueued(EventOf(w))
      /\ slot[w].job = <<EventOf(w), slot[w].job[2]>>
      /\ slot[w].job[2] \in JobNumbers(EventOf(w))
      /\ JobAt(slot[w].job) = jobs[EventOf(w)][slot[w].job[2]]
  BY <1>0, SlotJob DEF IInv
<1>3. /\ slot' \in Slots /\ slot'[w].job = slot[w].job /\ ~slot'[w].ok
      /\ \A v \in Workers \ {w} : slot'[v] = slot[v]
  BY <1>0, <1>1 DEF Slots
<1>4. /\ audit' \in [EventIds -> {"Absent"} \cup Retryable \cup Terminal]
      /\ \A e \in EventIds : \/ audit'[e] = audit[e]
                             \/ e = EventOf(w) /\ audit'[e] = "Failed"
  BY <1>0, <1>1, <1>2 DEF Retryable
<1>5. ASSUME NEW e \in EventIds, IsQueued(e), audit'[e] \notin Terminal
      PROVE  \E n \in JobNumbers(e) : Counts(e, n)'
  <2>1. CASE e = EventOf(w)
    <3>0. PICK n \in JobNumbers(e) : n = slot[w].job[2]
      BY <1>2, <2>1
    <3>1. \/ jobs[e][n].state = "active" /\ jobs[e][n].owner = w
          \/ IsLost(jobs[e][n])
      BY <1>0, <1>2, <2>1, <3>0, RunCounts DEF IInv
    <3>2. Counts(e, n)'
      BY <1>0, <1>3, <3>1 DEF Counts, Completes, IsLost
    <3> QED
      BY <3>2
  <2>2. CASE e # EventOf(w)
    <3>1. PICK n \in JobNumbers(e) : Counts(e, n)
      BY <1>4, <1>5, <2>2 DEF IInv, NoneIsDropped
    <3>2. ~Completes(w, e, n)'
      BY <1>3 DEF Completes
    <3> QED
      BY <1>0, <1>3, <3>1, <3>2, CountsAsBefore DEF IInv
  <2> QED
    BY <2>1, <2>2
<1>6. faults' \in 0..MaxFaults
  BY <1>0, QueueAssumption DEF IInv, TypeOK
<1> QED
  BY <1>0, <1>2, <1>3, <1>4, <1>5, <1>6, SlotMoves

\* A slot that is emptied completes nothing.
LEMMA EmptiedSlot ==
  ASSUME IInv, NEW w \in Workers, slot' = [slot EXCEPT ![w] = IdleSlot],
         UNCHANGED <<published, acked, request, duplicates, audit, jobs>>,
         faults' \in 0..MaxFaults
  PROVE  IInv'
<1>1. slot \in Slots
  BY DEF IInv, TypeOK, Slots
<1>2. /\ slot' \in Slots /\ slot'[w].step = "idle"
      /\ \A v \in Workers \ {w} : slot'[v] = slot[v]
  BY <1>1 DEF Slots, IdleSlot
<1>3. ASSUME NEW e \in EventIds, IsQueued(e), audit'[e] \notin Terminal
      PROVE  \E n \in JobNumbers(e) : Counts(e, n)'
  <2>1. PICK n \in JobNumbers(e) : Counts(e, n)
    BY <1>3 DEF IInv, NoneIsDropped
  <2>2. ~Completes(w, e, n)'
    BY <1>2 DEF Completes
  <2> QED
    BY <1>2, <2>1, <2>2, CountsAsBefore DEF IInv
<1>4. audit' \in [EventIds -> {"Absent"} \cup Retryable \cup Terminal]
  BY DEF IInv, TypeOK
<1> QED
  BY <1>2, <1>3, <1>4, SlotMoves

LEMMA CrashKeepsIInv ==
  ASSUME IInv, NEW w \in Workers, CrashWorker(w) PROVE IInv'
<1>1. faults' \in 0..MaxFaults
  BY QueueAssumption DEF IInv, TypeOK, CrashWorker, Fault
<1> QED
  BY <1>1, EmptiedSlot DEF CrashWorker, endpointVars

\* A step in which the n-th job of e becomes this: a slot that has it still
\* does, or the job is lost, and what counted counts.
LEMMA JobMoves ==
  ASSUME IInv, NEW e \in EventIds, NEW n \in JobNumbers(e), NEW job \in Job,
         SetJob(<<e, n>>, job), slot' \in Slots, faults' \in 0..MaxFaults,
         UNCHANGED <<published, acked, request, duplicates, audit>>,
         Live(job) => job.attempts < MaxAttempts,
         job.state = "active" => job.owner \in Workers,
         IsLost(jobs[e][n]) => IsLost(job),
         \A v \in Workers : slot'[v].step # "idle" =>
           \/ slot'[v].job = <<e, n>> /\ job.state = "active" /\ job.owner = v
           \/ slot'[v] = slot[v] /\ (Holds(v) /\ slot[v].job = <<e, n>> => IsLost(job)),
         \A d \in EventIds : \A m \in JobNumbers(d) : Counts(d, m) => Counts(d, m)'
  PROVE  IInv'
<1>0. TypeOK
  BY DEF IInv
<1>1. /\ jobs' \in [EventIds -> Seq(Job)]
      /\ \A d \in EventIds : JobNumbers(d)' = JobNumbers(d)
      /\ \A d \in EventIds : \A m \in JobNumbers(d) :
           jobs'[d][m] = IF d = e /\ m = n THEN job ELSE jobs[d][m]
  BY <1>0, SetJobEffect
<1>2. TypeOK'
  BY <1>0, <1>1 DEF TypeOK, Published, Slots
<1>3. RequestIsSound' /\ EventIsSound'
  BY <1>1, RecordsKept DEF IInv
<1>4. JobIsSound'
  BY <1>1 DEF IInv, JobIsSound, Live
<1>5. SlotIsSound'
  <2> SUFFICES ASSUME NEW v \in Workers, slot'[v].step # "idle"
               PROVE  /\ slot'[v].job[1] \in EventIds
                      /\ slot'[v].job[2] \in JobNumbers(slot'[v].job[1])
                      /\ slot'[v].job = <<slot'[v].job[1], slot'[v].job[2]>>
                      /\ \/ /\ jobs'[slot'[v].job[1]][slot'[v].job[2]].state = "active"
                            /\ jobs'[slot'[v].job[1]][slot'[v].job[2]].owner = v
                         \/ IsLost(jobs'[slot'[v].job[1]][slot'[v].job[2]])
    BY <1>1 DEF SlotIsSound, Holds, JobAt, IsLost
  <2>1. CASE slot'[v].job = <<e, n>> /\ job.state = "active" /\ job.owner = v
    BY <1>1, <2>1
  <2>2. CASE slot'[v] = slot[v] /\ (Holds(v) /\ slot[v].job = <<e, n>> => IsLost(job))
    <3>1. PICK d \in EventIds : \E k \in JobNumbers(d) : slot[v].job = <<d, k>>
      BY <2>2 DEF IInv, SlotIsSound
    <3>m. PICK m \in JobNumbers(d) : slot[v].job = <<d, m>>
      BY <3>1
    <3>2. \/ jobs[d][m].state = "active" /\ jobs[d][m].owner = v /\ Holds(v)
          \/ IsLost(jobs[d][m])
      BY <2>2, <3>m DEF IInv, SlotIsSound, Holds, JobAt
    <3>3. \/ jobs'[d][m].state = "active" /\ jobs'[d][m].owner = v
          \/ IsLost(jobs'[d][m])
      BY <1>1, <2>2, <3>m, <3>2
    <3> QED
      BY <1>1, <2>2, <3>m, <3>3
  <2> QED
    BY <2>1, <2>2
<1>6. NoneIsDropped'
  <2> SUFFICES ASSUME NEW d \in EventIds, IsQueued(d)', audit[d] \notin Terminal
               PROVE  \E m \in JobNumbers(d)' : Counts(d, m)'
    BY DEF NoneIsDropped
  <2>1. PICK m \in JobNumbers(d) : Counts(d, m)
    BY <1>1 DEF IInv, NoneIsDropped, IsQueued
  <2> QED
    BY <1>1, <2>1
<1> QED
  BY <1>2, <1>3, <1>4, <1>5, <1>6 DEF IInv

\* The jobs that the actions are about.
LEMMA JobIdIsJob ==
  ASSUME TypeOK, NEW j \in JobIds
  PROVE  /\ j[1] \in EventIds /\ j[2] \in JobNumbers(j[1]) /\ j = <<j[1], j[2]>>
         /\ JobAt(j) = jobs[j[1]][j[2]] /\ JobAt(j) \in Job
         /\ j \in EventIds \X (Nat \ {0})
<1>1. j[1] \in EventIds /\ j[2] \in 1..(MaxDuplicates + MaxFaults + 1) /\ j = <<j[1], j[2]>>
      /\ j[2] <= Len(jobs[j[1]])
  BY DEF JobIds
<1>2. j[2] \in JobNumbers(j[1])
  BY <1>1, JobTypes, QueueAssumption DEF JobNumbers
<1> QED
  BY <1>1, <1>2, JobTypes, QueueAssumption DEF JobAt

LEMMA TakeKeepsIInv ==
  ASSUME IInv, NEW w \in Workers, NEW j \in JobIds, TakeJob(w, j) PROVE IInv'
<1>e. PICK e \in EventIds : e = j[1]
  BY JobIdIsJob DEF IInv
<1>1. PICK n \in JobNumbers(e) :
        j = <<e, n>> /\ JobAt(j) = jobs[e][n] /\ jobs[e][n] \in Job /\ j \in EventIds \X (Nat \ {0})
  BY <1>e, JobIdIsJob DEF IInv
<1> DEFINE job == [jobs[e][n] EXCEPT !.state = "active", !.owner = w]
<1>2. /\ jobs[e][n].state = "waiting" /\ SetJob(<<e, n>>, job) /\ slot[w].step = "idle"
      /\ slot' = [slot EXCEPT ![w] = [job |-> j, step |-> "taken", ok |-> TRUE]]
      /\ UNCHANGED <<published, acked, request, duplicates, audit, faults>>
  <2>1. SetJob(<<e, n>>, job)
    BY <1>1 DEF TakeJob
  <2>2. slot[w].step = "idle"
    BY DEF TakeJob, IdleSlot
  <2> HIDE DEF job
  <2> QED
    BY <1>1, <2>1, <2>2 DEF TakeJob, endpointVars
<1>3. /\ job \in Job /\ job.state = "active" /\ job.owner = w /\ job.stalls = jobs[e][n].stalls
      /\ job.attempts = jobs[e][n].attempts
  BY <1>1 DEF Job, JobStates
<1> HIDE DEF job
<1>4. slot \in Slots
  BY DEF IInv, TypeOK, Slots
<1>5. /\ slot' \in Slots /\ slot'[w].job = <<e, n>> /\ slot'[w].step = "taken"
      /\ \A v \in Workers \ {w} : slot'[v] = slot[v]
  BY <1>1, <1>2, <1>4 DEF Slots
<1>6. job.attempts < MaxAttempts
  BY <1>2, <1>3 DEF IInv, JobIsSound, Live
<1>7. IsLost(jobs[e][n]) => IsLost(job)
  BY <1>2, <1>3 DEF IsLost
<1>8. \A v \in Workers : ~(Holds(v) /\ slot[v].job = <<e, n>>)
  BY <1>1, <1>2 DEF Holds
<1>9. ASSUME NEW d \in EventIds, NEW m \in JobNumbers(d), Counts(d, m) PROVE Counts(d, m)'
  <2>1. jobs'[d][m] = IF d = e /\ m = n THEN job ELSE jobs[d][m]
    BY <1>2, <1>3, SetJobEffect DEF IInv
  <2>2. CASE d = e /\ m = n
    BY <1>3, <1>5, <2>1, <2>2 DEF Counts, Completes
  <2>3. CASE ~(d = e /\ m = n)
    BY <1>5, <2>1, <2>3, <1>9 DEF IInv, JobIsSound, Counts, Completes
  <2> QED
    BY <2>2, <2>3
<1>10. faults' \in 0..MaxFaults
  BY <1>2 DEF IInv, TypeOK
<1>11. \A v \in Workers : slot'[v].step # "idle" =>
         \/ slot'[v].job = <<e, n>> /\ job.state = "active" /\ job.owner = v
         \/ slot'[v] = slot[v] /\ (Holds(v) /\ slot[v].job = <<e, n>> => IsLost(job))
  BY <1>3, <1>5, <1>8
<1> QED
  BY <1>2, <1>3, <1>5, <1>6, <1>7, <1>9, <1>10, <1>11, JobMoves

\* What a lost lock or a dead owner makes of a job.
LEMMA StallKeepsIInv ==
  ASSUME IInv, NEW j \in JobIds, JobAt(j).state = "active", SetJob(j, Stalled(j)),
         UNCHANGED <<published, endpointVars, audit, slot>>, faults' \in 0..MaxFaults
  PROVE  IInv'
<1>e. PICK e \in EventIds : e = j[1]
  BY JobIdIsJob DEF IInv
<1>1. PICK n \in JobNumbers(e) :
        j = <<e, n>> /\ JobAt(j) = jobs[e][n] /\ jobs[e][n] \in Job
  BY <1>e, JobIdIsJob DEF IInv
<1> DEFINE job == Stalled(j)
<1>2. /\ job \in Job /\ job.attempts = jobs[e][n].attempts
      /\ job.state = "waiting" \/ job.state = "failed"
      /\ IsLost(job)
  <2> DEFINE old == jobs[e][n]
  <2>1. /\ old \in Job /\ old.stalls \in 0..MaxStalls /\ job \in Job
        /\ MaxStalls \in Nat
    <3>1. old \in Job /\ old.stalls \in 0..MaxStalls /\ MaxStalls \in Nat
      BY <1>1, QueueAssumption DEF Job
    <3>2. CASE old.stalls < MaxStalls
      <4>1. job = [old EXCEPT !.owner = NoOwner, !.state = "waiting", !.stalls = old.stalls + 1]
        BY <1>1, <3>1, <3>2 DEF Stalled, Job
      <4>2. old.stalls + 1 \in 0..MaxStalls
        BY <3>1, <3>2
      <4> HIDE DEF job, old
      <4> QED
        BY <3>1, <4>1, <4>2 DEF Job, JobStates
    <3>3. CASE ~(old.stalls < MaxStalls)
      <4>1. job = [old EXCEPT !.owner = NoOwner, !.state = "failed"]
        BY <1>1, <3>1, <3>3 DEF Stalled, Job
      <4> HIDE DEF job, old
      <4> QED
        BY <3>1, <4>1 DEF Job, JobStates
    <3> QED
      BY <3>1, <3>2, <3>3
  <2>2. /\ job.attempts = old.attempts
        /\ \/ job.state = "waiting" /\ job.stalls = old.stalls + 1
           \/ job.state = "failed"
    BY <1>1, <2>1 DEF Stalled, Job
  <2> HIDE DEF job
  <2> QED
    BY <2>1, <2>2 DEF IsLost
<1> HIDE DEF job
<1>3. slot' \in Slots
  BY DEF IInv, TypeOK, Slots
<1>4. jobs[e][n].attempts < MaxAttempts
  BY <1>1 DEF IInv, JobIsSound, Live
<1>5. ASSUME NEW d \in EventIds, NEW m \in JobNumbers(d), Counts(d, m) PROVE Counts(d, m)'
  <2>1. jobs'[d][m] = IF d = e /\ m = n THEN job ELSE jobs[d][m]
    BY <1>1, <1>2, SetJobEffect DEF IInv, job
  <2> QED
    BY <1>2, <1>5, <2>1 DEF Counts, Completes, IsLost
<1> QED
  BY <1>1, <1>2, <1>3, <1>4, <1>5, JobMoves DEF job, endpointVars

\* A job that its owner completes did not count.
LEMMA FinishKeepsIInv ==
  ASSUME IInv, NEW w \in Workers, FinishJob(w) PROVE IInv'
<1>0. slot[w].step = "finish" /\ slot' = [slot EXCEPT ![w] = IdleSlot]
      /\ UNCHANGED <<published, acked, request, duplicates, audit, faults>>
  BY DEF FinishJob, endpointVars
<1>1. faults' \in 0..MaxFaults
  BY <1>0 DEF IInv, TypeOK
<1>2. CASE ~Holds(w)
  BY <1>0, <1>1, <1>2, EmptiedSlot DEF FinishJob
<1>3. CASE Holds(w)
  <2>e. PICK e \in EventIds : e = EventOf(w)
    BY <1>0, SlotJob DEF IInv
  <2>1. PICK n \in JobNumbers(e) :
          slot[w].job = <<e, n>> /\ JobAt(slot[w].job) = jobs[e][n] /\ jobs[e][n] \in Job
    BY <1>0, <2>e, SlotJob DEF IInv
  <2>2. jobs[e][n].state = "active" /\ jobs[e][n].owner = w
    BY <1>3, <2>1 DEF Holds
  <2>3. jobs[e][n].attempts < MaxAttempts
    BY <2>2 DEF IInv, JobIsSound, Live
  <2>4. PICK job \in Job :
          /\ SetJob(<<e, n>>, job) /\ job.stalls = jobs[e][n].stalls
          /\ \/ slot[w].ok /\ job.state = "completed"
             \/ ~slot[w].ok /\ job.state = "waiting" /\ job.attempts < MaxAttempts
             \/ ~slot[w].ok /\ job.state = "failed"
    <3> DEFINE done == [jobs[e][n] EXCEPT !.owner = NoOwner, !.state = "completed"]
               again == AfterFailure(jobs[e][n])
    <3>1. done \in Job /\ done.stalls = jobs[e][n].stalls /\ done.state = "completed"
      BY <2>1 DEF Job, JobStates
    <3>2. /\ again \in Job /\ again.stalls = jobs[e][n].stalls
          /\ \/ again.state = "waiting" /\ again.attempts < MaxAttempts
             \/ again.state = "failed"
      <4> DEFINE old == jobs[e][n]
      <4>1. old \in Job /\ old.attempts \in Nat /\ MaxAttempts \in Nat
        BY <2>1, QueueAssumption DEF Job
      <4>2. CASE old.attempts + 1 < MaxAttempts
        <5>1. again = [old EXCEPT !.owner = NoOwner, !.attempts = old.attempts + 1,
                                  !.state = "waiting"]
          BY <4>1, <4>2 DEF AfterFailure, Job
        <5>2. again.stalls = old.stalls /\ again.attempts < MaxAttempts /\ again.state = "waiting"
          BY <4>1, <4>2, <5>1 DEF Job
        <5>3. again \in Job
          <6>1. old.attempts + 1 \in 0..MaxAttempts
            BY <4>1, <4>2
          <6> HIDE DEF again, old
          <6> QED
            BY <4>1, <5>1, <6>1 DEF Job, JobStates
        <5> QED
          BY <5>2, <5>3
      <4>3. CASE ~(old.attempts + 1 < MaxAttempts)
        <5>1. again = [old EXCEPT !.owner = NoOwner, !.attempts = old.attempts + 1,
                                  !.state = "failed"]
          BY <4>1, <4>3 DEF AfterFailure, Job
        <5>2. again.stalls = old.stalls /\ again.state = "failed"
          BY <4>1, <5>1 DEF Job
        <5>3. again \in Job
          <6>1. old.attempts + 1 \in 0..MaxAttempts
            BY <2>3, <4>1
          <6> HIDE DEF again, old
          <6> QED
            BY <4>1, <5>1, <6>1 DEF Job, JobStates
        <5> QED
          BY <5>2, <5>3
      <4> QED
        BY <4>2, <4>3
    <3>3. SetJob(<<e, n>>, IF slot[w].ok THEN done ELSE again)
      BY <1>3, <2>1 DEF FinishJob
    <3> QED
      BY <3>1, <3>2, <3>3
  <2>5. slot \in Slots
    BY DEF IInv, TypeOK, Slots
  <2>6. /\ slot' \in Slots /\ slot'[w].step = "idle"
        /\ \A v \in Workers \ {w} : slot'[v] = slot[v]
    BY <1>0, <2>5 DEF Slots, IdleSlot
  <2>7. /\ Live(job) => job.attempts < MaxAttempts
        /\ job.state # "active"
        /\ IsLost(jobs[e][n]) => IsLost(job)
    BY <2>2, <2>4 DEF Live, IsLost
  <2>8. \A v \in Workers \ {w} : ~(Holds(v) /\ slot[v].job = <<e, n>>)
    BY <2>1, <2>2 DEF Holds
  <2>9. ASSUME NEW d \in EventIds, NEW m \in JobNumbers(d), Counts(d, m) PROVE Counts(d, m)'
    <3>1. jobs'[d][m] = IF d = e /\ m = n THEN job ELSE jobs[d][m]
      BY <2>4, SetJobEffect DEF IInv
    <3>2. CASE d = e /\ m = n
      <4>1. slot[w].ok => IsLost(jobs[e][n])
        BY <1>0, <2>1, <2>2, <2>9, <3>2 DEF Counts, Completes
      <4> QED
        BY <2>4, <2>7, <3>1, <3>2, <4>1 DEF Counts, IsLost
    <3>3. CASE ~(d = e /\ m = n)
      BY <2>6, <2>9, <3>1, <3>3 DEF IInv, JobIsSound, Counts, Completes, IsLost
    <3> QED
      BY <3>2, <3>3
  <2> QED
    BY <1>0, <1>1, <2>4, <2>6, <2>7, <2>8, <2>9, JobMoves
<1> QED
  BY <1>2, <1>3

-----------------------------------------------------------------------------
LEMMA StutterKeepsIInv ==
  ASSUME IInv, UNCHANGED vars PROVE IInv'
BY WorkKept, RecordsKept
   DEF IInv, TypeOK, vars, endpointVars, workerVars, Published, JobNumbers

LEMMA ProgressKeepsIInv ==
  ASSUME IInv, Progress PROVE IInv'
<1>1. ASSUME NEW r \in Requests, NEW batch \in SUBSET EventIds, UnitDelivers(r, batch) PROVE IInv'
  <2>1. batch \subseteq Published /\ Open(r, batch)
    BY <1>1 DEF UnitDelivers
  <2>2. duplicates' \in 0..MaxDuplicates
    BY <1>1 DEF UnitDelivers, IInv, TypeOK
  <2> QED
    BY <2>1, <2>2, OpenKeepsIInv
<1>2. ASSUME NEW r \in Requests, StoreEvents(r) \/ FindPending(r) \/ QueueJobs(r) \/ Answer(r)
      PROVE  IInv'
  BY <1>2, StoreKeepsIInv, FindKeepsIInv, QueueKeepsIInv, AnswerKeepsIInv
<1>3. ASSUME NEW w \in Workers, NEW j \in JobIds, TakeJob(w, j) PROVE IInv'
  BY <1>3, TakeKeepsIInv
<1>4. ASSUME NEW w \in Workers, CheckRow(w) \/ FinishJob(w) PROVE IInv'
  BY <1>4, CheckRowKeepsIInv, FinishKeepsIInv
<1>5. ASSUME NEW w \in Workers, NEW verdict \in Terminal, Conclude(w, verdict) PROVE IInv'
  BY <1>5, ConcludeKeepsIInv
<1>6. ASSUME NEW j \in JobIds, RecoverStalled(j) PROVE IInv'
  <2>1. faults' \in 0..MaxFaults
    BY <1>6 DEF RecoverStalled, IInv, TypeOK
  <2> QED
    BY <1>6, <2>1, StallKeepsIInv DEF RecoverStalled
<1> QED
  BY <1>1, <1>2, <1>3, <1>4, <1>5, <1>6 DEF Progress

LEMMA SurpriseKeepsIInv ==
  ASSUME IInv, Surprise PROVE IInv'
<1>1. ASSUME NEW r \in Requests, NEW batch \in SUBSET EventIds, UnitRedelivers(r, batch) PROVE IInv'
  <2>1. batch \subseteq Published /\ Open(r, batch)
    BY <1>1 DEF UnitRedelivers
  <2>2. duplicates' \in 0..MaxDuplicates
    BY <1>1, QueueAssumption DEF UnitRedelivers, IInv, TypeOK
  <2> QED
    BY <2>1, <2>2, OpenKeepsIInv
<1>2. ASSUME NEW r \in Requests, LoseRequest(r) PROVE IInv'
  BY <1>2, LoseKeepsIInv
<1>3. ASSUME NEW w \in Workers, FailRun(w) \/ CrashWorker(w) PROVE IInv'
  BY <1>3, FailRunKeepsIInv, CrashKeepsIInv
<1>4. ASSUME NEW j \in JobIds, LoseLock(j) PROVE IInv'
  <2>1. faults' \in 0..MaxFaults
    BY <1>4, QueueAssumption DEF LoseLock, Fault, IInv, TypeOK
  <2> QED
    BY <1>4, <2>1, StallKeepsIInv DEF LoseLock
<1> QED
  BY <1>1, <1>2, <1>3, <1>4 DEF Surprise

LEMMA NextIInv == IInv /\ [Next]_vars => IInv'
<1> SUFFICES ASSUME IInv, [Next]_vars PROVE IInv'
  OBVIOUS
<1> QED
  BY PublishKeepsIInv, ProgressKeepsIInv, SurpriseKeepsIInv, StutterKeepsIInv DEF Next, Rest

\* The strengthened invariant holds in every state of every execution.
THEOREM Invariance == Spec => []IInv
<1> QED
  BY InitIInv, NextIInv, PTL DEF Spec

\* Every variable keeps its type, for any requests, workers, events and bounds.
THEOREM TypeCorrect == Spec => []TypeOK
<1>1. IInv => TypeOK
  BY DEF IInv
<1> QED
  BY <1>1, Invariance, PTL

\* No event falls between the audit table and the queue, however many requests
\* carry it at once, crash or are repeated, and however many workers run its
\* jobs, fail or lose their locks.
THEOREM NoneForgotten == Spec => []NothingForgotten
<1>1. IInv => NothingForgotten
  <2> SUFFICES ASSUME IInv, NEW e \in acked
               PROVE  /\ audit[e] # "Absent"
                      /\ audit[e] \in Terminal \/ \E n \in 1..Len(jobs[e]) :
                           \/ Live(jobs[e][n])
                           \/ jobs[e][n].state = "failed" \/ jobs[e][n].stalls > 0
    BY DEF NothingForgotten
  <2>1. e \in EventIds
    BY QueueAssumption DEF IInv, TypeOK, Published, EventIds
  <2>2. IsQueued(e) /\ audit[e] # "Absent"
    BY <2>1 DEF IInv, EventIsSound
  <2>3. CASE audit[e] \in Terminal
    BY <2>2, <2>3
  <2>4. CASE audit[e] \notin Terminal
    <3>1. PICK n \in JobNumbers(e) : Counts(e, n)
      BY <2>1, <2>2, <2>4 DEF IInv, NoneIsDropped
    <3> QED
      BY <2>2, <3>1 DEF Counts, IsLost, Live, JobNumbers
  <2> QED
    BY <2>3, <2>4
<1> QED
  BY <1>1, Invariance, PTL

-----------------------------------------------------------------------------
(* The pipeline is EventDelivery.tla to the handlers.                      *)

\* The event whose handler w runs.
Running(w) == IF slot[w].step = "running" THEN EventOf(w) ELSE 0

\* The mapped log is as long as what is published.
LEMMA MappedLog ==
  ASSUME NEW n \in Nat
  PROVE  Len([i \in 1..n |-> "event"]) = n
<1>1. [i \in 1..n |-> "event"] \in Seq({"event"})
  BY SeqDef
<1>2. DOMAIN [i \in 1..n |-> "event"] = 1..n
  OBVIOUS
<1>3. /\ Len([i \in 1..n |-> "event"]) \in Nat
      /\ DOMAIN [i \in 1..n |-> "event"] = 1..Len([i \in 1..n |-> "event"])
  BY <1>1, LenProperties
<1> QED
  BY <1>2, <1>3

LEMMA InitRefines == Init => Delivery!DeliveryInit
<1> SUFFICES ASSUME Init PROVE Delivery!DeliveryInit
  OBVIOUS
<1>1. [i \in Published |-> "event"] = <<>>
  BY DEF Init, Published
<1>2. \A w \in Workers : Running(w) = 0
  BY DEF Init, IdleSlot, Running
<1>3. audit = [e \in EventIds |-> "Absent"]
  BY DEF Init
<1> QED
  BY <1>1, <1>2, <1>3
  DEF Delivery!DeliveryInit, Delivery!EventIds, Delivery!NoEvent, EventIds, Running

\* A step that neither publishes nor writes a status nor starts or ends a run.
LEMMA QuietRefines ==
  ASSUME UNCHANGED <<published, audit>>, \A w \in Workers : Running(w)' = Running(w)
  PROVE  UNCHANGED Delivery!deliveryVars
BY DEF Delivery!deliveryVars, Running, Published

LEMMA PublishRefines ==
  ASSUME IInv, UnitPublishes PROVE Delivery!Publish
<1>1. published \in Nat /\ published' = published + 1 /\ published < MaxEvents
      /\ UNCHANGED <<audit, slot>>
  BY QueueAssumption DEF IInv, TypeOK, UnitPublishes, workerVars
<1>2. /\ Len([i \in Published |-> "event"]) = published
      /\ Len([i \in Published' |-> "event"]) = published + 1
      /\ Delivery!Published = Published
  BY <1>1, MappedLog DEF Published, Delivery!Published
<1>3. \A i \in Published : i \in Published'
  BY <1>1 DEF Published
<1> QED
  BY <1>1, <1>2, <1>3 DEF Delivery!Publish, Running, EventOf

\* Storing a request is ingesting its batch.
LEMMA StoreRefines ==
  ASSUME IInv, NEW r \in Requests, StoreEvents(r)
  PROVE  \E batch \in SUBSET EventIds : Delivery!IngestBatch(batch)
<1>1. request[r].batch \in SUBSET EventIds /\ request[r].batch \subseteq Published
      /\ published \in Nat
  BY QueueAssumption DEF IInv, TypeOK, RequestIsSound
<1>2. Delivery!Published = Published
  BY <1>1, MappedLog DEF Published, Delivery!Published
<1>3. audit' = [e \in EventIds |-> IF e \in request[r].batch /\ audit[e] = "Absent"
                                  THEN "Pending" ELSE audit[e]]
      /\ UNCHANGED <<published, slot>>
  BY DEF StoreEvents, workerVars
<1> QED
  BY <1>1, <1>2, <1>3
  DEF Delivery!IngestBatch, Delivery!EventIds, EventIds, Published, EventOf

\* What a step of w makes of the events that are run.
LEMMA RunningOfOne ==
  ASSUME NEW w \in Workers, slot \in Slots, NEW s \in [job : (EventIds \X (Nat \ {0})) \cup {NoJob},
           step : {"idle", "taken", "running", "finish"}, ok : BOOLEAN],
         slot' = [slot EXCEPT ![w] = s]
  PROVE  [v \in Workers |-> Running(v)]' =
           [[v \in Workers |-> Running(v)] EXCEPT
              ![w] = IF s.step = "running" THEN s.job[1] ELSE 0]
BY DEF Slots, Running, EventOf

\* A worker that does not find a last verdict begins a run.
LEMMA CheckRowRefines ==
  ASSUME IInv, NEW w \in Workers, CheckRow(w)
  PROVE  \/ \E e \in EventIds : Delivery!Begin(w, e)
         \/ UNCHANGED Delivery!deliveryVars
<1> DEFINE next == IF IsDone(EventOf(w)) THEN "finish" ELSE "running"
           s == [slot[w] EXCEPT !.step = next]
<1>1. slot \in Slots /\ audit \in [EventIds -> {"Absent"} \cup Retryable \cup Terminal]
  BY DEF IInv, TypeOK, Slots
<1>2. /\ slot[w].step = "taken" /\ slot' = [slot EXCEPT ![w] = s]
      /\ UNCHANGED <<published, audit>>
  BY <1>1 DEF CheckRow, Slots
<1>3. s.step = next /\ s.job = slot[w].job
      /\ s \in [job : (EventIds \X (Nat \ {0})) \cup {NoJob},
                step : {"idle", "taken", "running", "finish"}, ok : BOOLEAN]
  BY <1>1 DEF Slots
<1>4. EventOf(w) \in EventIds /\ audit[EventOf(w)] # "Absent"
  BY <1>2, SlotJob DEF IInv, EventIsSound
<1>5. Running(w) = 0
  BY <1>2 DEF Running
<1> HIDE DEF s
<1>6. [v \in Workers |-> Running(v)]' =
        [[v \in Workers |-> Running(v)] EXCEPT
           ![w] = IF next = "running" THEN EventOf(w) ELSE 0]
  BY <1>1, <1>2, <1>3, RunningOfOne DEF EventOf
<1>7. CASE IsDone(EventOf(w))
  <2>1. [v \in Workers |-> Running(v)]' = [v \in Workers |-> Running(v)]
    BY <1>5, <1>6, <1>7
  <2> QED
    BY <1>2, <2>1 DEF Delivery!deliveryVars, Running, Published
<1>8. CASE ~IsDone(EventOf(w))
  <2>1. audit[EventOf(w)] \in Retryable
    BY <1>1, <1>4, <1>8 DEF IsDone
  <2> QED
    BY <1>2, <1>4, <1>5, <1>6, <1>8, <2>1
    DEF Delivery!Begin, Delivery!Retryable, Delivery!NoEvent, Retryable, Running, Published
<1> QED
  BY <1>7, <1>8

\* A step that leaves w running nothing.
LEMMA StoppedRun ==
  ASSUME IInv, NEW w \in Workers, slot' \in Slots, slot'[w].step # "running",
         \A v \in Workers \ {w} : slot'[v] = slot[v]
  PROVE  /\ [v \in Workers |-> Running(v)]' = [[v \in Workers |-> Running(v)] EXCEPT ![w] = 0]
         /\ slot[w].step # "running" => \A v \in Workers : Running(v)' = Running(v)
BY DEF Running, EventOf

\* A run that has ended.
LEMMA RunEnds ==
  ASSUME IInv, NEW w \in Workers, slot[w].step = "running", slot' \in Slots,
         slot'[w].step # "running", \A v \in Workers \ {w} : slot'[v] = slot[v],
         UNCHANGED published
  PROVE  /\ audit' = audit => Delivery!Abandon(w)
         /\ \A verdict : audit' = [audit EXCEPT ![EventOf(w)] = verdict] =>
              Delivery!Mark(w, verdict)
<1>1. EventOf(w) \in EventIds
  BY SlotJob DEF IInv
<1>2. Running(w) = EventOf(w) /\ Running(w) # 0
  BY <1>1, QueueAssumption DEF Running, EventIds
<1>3. [v \in Workers |-> Running(v)]' = [[v \in Workers |-> Running(v)] EXCEPT ![w] = 0]
  BY StoppedRun
<1> QED
  BY <1>2, <1>3
  DEF Delivery!Abandon, Delivery!Mark, Delivery!NoEvent, Running, Published

LEMMA WorkerRefines ==
  ASSUME IInv, NEW w \in Workers,
         \/ \E verdict \in Terminal : Conclude(w, verdict)
         \/ FailRun(w) \/ CrashWorker(w) \/ FinishJob(w)
         \/ \E j \in JobIds : TakeJob(w, j)
  PROVE  \/ \E verdict \in Delivery!Verdicts : Delivery!Mark(w, verdict)
         \/ Delivery!Abandon(w)
         \/ UNCHANGED Delivery!deliveryVars
<1>0. slot \in Slots
  BY DEF IInv, TypeOK, Slots
<1>1. ASSUME NEW verdict \in Terminal, Conclude(w, verdict)
      PROVE  \E v \in Delivery!Verdicts : Delivery!Mark(w, v)
  <2>1. /\ slot[w].step = "running" /\ slot' = [slot EXCEPT ![w].step = "finish"]
        /\ UNCHANGED published /\ audit' = [audit EXCEPT ![EventOf(w)] = verdict]
    BY <1>1 DEF Conclude
  <2>2. slot' \in Slots /\ slot'[w].step = "finish" /\ \A v \in Workers \ {w} : slot'[v] = slot[v]
    BY <1>0, <2>1 DEF Slots
  <2>3. Delivery!Mark(w, verdict)
    BY <2>1, <2>2, RunEnds
  <2>4. verdict \in Delivery!Verdicts
    BY DEF Terminal, Delivery!Verdicts, Delivery!Terminal
  <2> QED
    BY <2>3, <2>4
<1>2. CASE FailRun(w)
  <2>1. /\ slot[w].step = "running"
        /\ slot' = [slot EXCEPT ![w].step = "finish", ![w].ok = FALSE]
        /\ UNCHANGED published
        /\ audit' = [audit EXCEPT ![EventOf(w)] = "Failed"] \/ audit' = audit
    BY <1>2 DEF FailRun
  <2>2. slot' \in Slots /\ slot'[w].step = "finish" /\ \A v \in Workers \ {w} : slot'[v] = slot[v]
    BY <1>0, <2>1 DEF Slots
  <2>3. Delivery!Mark(w, "Failed") \/ Delivery!Abandon(w)
    BY <2>1, <2>2, RunEnds
  <2>4. "Failed" \in Delivery!Verdicts
    BY DEF Delivery!Verdicts
  <2> QED
    BY <2>3, <2>4
<1>3. CASE CrashWorker(w) \/ FinishJob(w)
  <2>1. slot' = [slot EXCEPT ![w] = IdleSlot] /\ UNCHANGED <<published, audit>>
    BY <1>3 DEF CrashWorker, FinishJob
  <2>2. slot' \in Slots /\ slot'[w].step = "idle" /\ \A v \in Workers \ {w} : slot'[v] = slot[v]
    BY <1>0, <2>1 DEF Slots, IdleSlot
  <2>3. CASE slot[w].step = "running"
    BY <2>1, <2>2, <2>3, RunEnds
  <2>4. CASE slot[w].step # "running"
    BY <2>1, <2>2, <2>4, StoppedRun, QuietRefines
  <2> QED
    BY <2>3, <2>4
<1>4. ASSUME NEW j \in JobIds, TakeJob(w, j) PROVE UNCHANGED Delivery!deliveryVars
  <2>1. /\ slot[w].step = "idle" /\ UNCHANGED <<published, audit>>
        /\ slot' = [slot EXCEPT ![w] = [job |-> j, step |-> "taken", ok |-> TRUE]]
    <3>1. slot[w] = IdleSlot
      BY <1>4 DEF TakeJob
    <3>2. slot[w].step = "idle"
      BY <3>1 DEF IdleSlot
    <3> QED
      BY <1>4, <3>2 DEF TakeJob
  <2>2. j \in EventIds \X (Nat \ {0})
    BY JobIdIsJob DEF IInv
  <2>3. slot' \in Slots /\ slot'[w].step = "taken" /\ \A v \in Workers \ {w} : slot'[v] = slot[v]
    BY <1>0, <2>1, <2>2 DEF Slots
  <2> QED
    BY <2>1, <2>3, StoppedRun, QuietRefines
<1> QED
  BY <1>1, <1>2, <1>3, <1>4

\* The other steps are none of EventDelivery's.
LEMMA OthersAreQuiet ==
  ASSUME \/ \E r \in Requests, batch \in SUBSET EventIds :
              UnitDelivers(r, batch) \/ UnitRedelivers(r, batch)
         \/ \E r \in Requests : FindPending(r) \/ QueueJobs(r) \/ Answer(r) \/ LoseRequest(r)
         \/ \E j \in JobIds : RecoverStalled(j) \/ LoseLock(j)
         \/ UNCHANGED vars
  PROVE  UNCHANGED Delivery!deliveryVars
<1>1. UNCHANGED <<published, audit, slot>>
  BY DEF UnitDelivers, UnitRedelivers, Open, FindPending, QueueJobs, Answer, LoseRequest,
         RecoverStalled, LoseLock, vars, workerVars
<1> QED
  BY <1>1, QuietRefines DEF Running, EventOf

LEMMA NextRefines == IInv /\ [Next]_vars => [Delivery!DeliveryNext]_(Delivery!deliveryVars)
<1> SUFFICES ASSUME IInv, [Next]_vars
             PROVE  Delivery!DeliveryNext \/ UNCHANGED Delivery!deliveryVars
  OBVIOUS
<1>1. CASE UnitPublishes
  BY <1>1, PublishRefines DEF Delivery!DeliveryNext
<1>2. CASE Progress
  <2>1. ASSUME NEW r \in Requests, StoreEvents(r) PROVE Delivery!DeliveryNext
    BY <2>1, StoreRefines DEF Delivery!DeliveryNext, Delivery!EventIds, EventIds
  <2>2. ASSUME NEW w \in Workers, CheckRow(w)
        PROVE  Delivery!DeliveryNext \/ UNCHANGED Delivery!deliveryVars
    BY <2>2, CheckRowRefines DEF Delivery!DeliveryNext, Delivery!EventIds, EventIds
  <2>3. ASSUME NEW w \in Workers, \/ \E verdict \in Terminal : Conclude(w, verdict)
                                  \/ FinishJob(w) \/ \E j \in JobIds : TakeJob(w, j)
        PROVE  Delivery!DeliveryNext \/ UNCHANGED Delivery!deliveryVars
    BY <2>3, WorkerRefines DEF Delivery!DeliveryNext
  <2> QED
    BY <1>2, <2>1, <2>2, <2>3, OthersAreQuiet DEF Progress
<1>3. CASE Surprise
  <2>1. ASSUME NEW w \in Workers, FailRun(w) \/ CrashWorker(w)
        PROVE  Delivery!DeliveryNext \/ UNCHANGED Delivery!deliveryVars
    BY <2>1, WorkerRefines DEF Delivery!DeliveryNext
  <2> QED
    BY <1>3, <2>1, OthersAreQuiet DEF Surprise
<1>4. CASE Rest \/ UNCHANGED vars
  BY <1>4, OthersAreQuiet DEF Rest
<1> QED
  BY <1>1, <1>2, <1>3, <1>4 DEF Next

\* To the handlers, endpoint, queue and worker are EventDelivery.tla, whatever
\* is lost, repeated, retried, stalled or run twice: the models of the handlers
\* may rest on it.
THEOREM QueueDelivers == Spec => ImplementsEventDelivery
<1> QED
  BY InitRefines, NextRefines, Invariance, PTL
  DEF Spec, ImplementsEventDelivery, Delivery!DeliverySpec

-----------------------------------------------------------------------------
(* One fault.  NothingForgotten excepts the jobs that were given up or     *)
(* taken from their workers; with one fault of any kind, BullMQ's single   *)
(* stall and more than one attempt it needs no exception.  What QInv says  *)
(* is that the fault was either of a run or of a lock, never of both.      *)

\* No run has failed, neither one that is about to end nor one of the past.
NoFailure ==
  /\ \A w \in Workers : slot[w].ok
  /\ \A e \in EventIds : \A n \in JobNumbers(e) : jobs[e][n].attempts = 0

\* An active job that its owner does not run.
IsAbandoned(e, n) ==
  /\ jobs[e][n].state = "active"
  /\ ~(slot[jobs[e][n].owner].job = <<e, n>> /\ slot[jobs[e][n].owner].step # "idle")

\* No job has ever lost its worker.
NoStall ==
  \A e \in EventIds : \A n \in JobNumbers(e) : jobs[e][n].stalls = 0 /\ ~IsAbandoned(e, n)

\* What is completed, or is going to be, has its last verdict.
DoneIsConcluded ==
  /\ \A e \in EventIds : \A n \in JobNumbers(e) :
       jobs[e][n].state = "completed" => audit[e] \in Terminal
  /\ \A w \in Workers : slot[w].step = "finish" => audit[EventOf(w)] \in Terminal

\* A run that has failed is the only one.
OneFailure ==
  \A w \in Workers : ~slot[w].ok =>
    /\ slot[w].step = "finish"
    /\ \A v \in Workers \ {w} : slot[v].ok
    /\ \A e \in EventIds : \A n \in JobNumbers(e) : jobs[e][n].attempts = 0

\* So is a job that is abandoned.
OneStall ==
  \A e \in EventIds : \A n \in JobNumbers(e) : IsAbandoned(e, n) =>
    \A d \in EventIds : \A m \in JobNumbers(d) :
      jobs[d][m].stalls = 0 /\ (IsAbandoned(d, m) => <<d, m>> = <<e, n>>)

NoneFailed == \A e \in EventIds : \A n \in JobNumbers(e) : jobs[e][n].state # "failed"

QInv ==
  faults <= 1 =>
    /\ faults = 0 => NoFailure /\ NoStall
    /\ NoFailure \/ NoStall
    /\ NoFailure => DoneIsConcluded
    /\ OneFailure /\ OneStall
    /\ NoneFailed

\* While there has been one fault at most, an event that Unit will not send
\* again has its last verdict, or a job that goes on.
OneFaultIsSurvived ==
  faults <= 1 => \A e \in acked : audit[e] \in Terminal \/ \E n \in JobNumbers(e) : Live(jobs[e][n])

\* What QInv says once there is known to have been one fault at most.
LEMMA QInvParts ==
  ASSUME QInv, faults <= 1
  PROVE  /\ faults = 0 => NoFailure /\ NoStall
         /\ NoFailure \/ NoStall
         /\ NoFailure => DoneIsConcluded
         /\ OneFailure /\ OneStall /\ NoneFailed
BY DEF QInv

\* A step in which no run and no job fares worse than before.
LEMMA WorkGoesOn ==
  ASSUME IInv, QInv, faults' \in Nat, faults' >= faults,
         \A e \in EventIds : audit[e] \in Terminal => audit'[e] \in Terminal,
         \A e \in EventIds : \A n \in JobNumbers(e) :
           n \in JobNumbers(e)' /\ jobs'[e][n].attempts = jobs[e][n].attempts,
         \A e \in EventIds : \A n \in JobNumbers(e)' :
           \/ jobs'[e][n] = NewJob
           \/ /\ n \in JobNumbers(e)
              /\ jobs'[e][n].attempts = jobs[e][n].attempts
              /\ jobs'[e][n].stalls = jobs[e][n].stalls
              /\ jobs'[e][n].state = "failed" => jobs[e][n].state = "failed"
              /\ jobs'[e][n].state = "completed" /\ NoFailure =>
                   jobs[e][n].state = "completed" \/ audit'[e] \in Terminal
              /\ IsAbandoned(e, n)' => IsAbandoned(e, n),
         \A w \in Workers :
           /\ slot'[w].ok = slot[w].ok
           /\ ~slot[w].ok => slot'[w] = slot[w]
           /\ slot'[w].step = "finish" =>
                slot'[w] = slot[w] \/ audit'[EventOf(w)'] \in Terminal
  PROVE  QInv'
<1> SUFFICES ASSUME faults' <= 1
             PROVE  /\ faults' = 0 => NoFailure' /\ NoStall'
                    /\ NoFailure' \/ NoStall'
                    /\ NoFailure' => DoneIsConcluded'
                    /\ OneFailure' /\ OneStall' /\ NoneFailed'
  BY DEF QInv
<1>1. faults \in Nat /\ faults <= 1
  BY QueueAssumption DEF IInv, TypeOK
<1>2. /\ faults = 0 => NoFailure /\ NoStall
      /\ NoFailure \/ NoStall
      /\ NoFailure => DoneIsConcluded
      /\ OneFailure /\ OneStall /\ NoneFailed
  BY <1>1, QInvParts
<1>3. \A e \in EventIds : \A n \in JobNumbers(e)' : jobs'[e][n] = NewJob =>
        /\ jobs'[e][n].attempts = 0 /\ jobs'[e][n].stalls = 0
        /\ jobs'[e][n].state = "waiting" /\ ~IsAbandoned(e, n)'
  BY DEF NewJob, IsAbandoned
<1>4. NoFailure => NoFailure'
  BY <1>3 DEF NoFailure
<1>5. NoFailure' => NoFailure
  BY DEF NoFailure
<1>6. NoStall => NoStall'
  BY <1>3 DEF NoStall
<1>7. NoFailure /\ DoneIsConcluded => DoneIsConcluded'
  <2> SUFFICES ASSUME NoFailure, DoneIsConcluded PROVE DoneIsConcluded'
    OBVIOUS
  <2>1. ASSUME NEW e \in EventIds, NEW n \in JobNumbers(e)', jobs'[e][n].state = "completed"
        PROVE  audit'[e] \in Terminal
    BY <1>3, <2>1 DEF DoneIsConcluded
  <2>2. ASSUME NEW w \in Workers, slot'[w].step = "finish"
        PROVE  audit'[EventOf(w)'] \in Terminal
    <3>1. CASE slot'[w] = slot[w]
      <4>1. slot[w].step = "finish" /\ EventOf(w)' = EventOf(w)
        BY <2>2, <3>1 DEF EventOf
      <4>2. EventOf(w) \in EventIds /\ audit[EventOf(w)] \in Terminal
        BY <4>1, SlotJob DEF IInv, DoneIsConcluded
      <4> QED
        BY <4>1, <4>2
    <3> QED
      BY <2>2, <3>1
  <2> QED
    BY <2>1, <2>2 DEF DoneIsConcluded
<1>8. OneFailure'
  <2> SUFFICES ASSUME NEW w \in Workers, ~slot'[w].ok
               PROVE  /\ slot'[w].step = "finish"
                      /\ \A v \in Workers \ {w} : slot'[v].ok
                      /\ \A e \in EventIds : \A n \in JobNumbers(e)' : jobs'[e][n].attempts = 0
    BY DEF OneFailure
  <2>1. /\ slot[w].step = "finish" /\ slot'[w] = slot[w]
        /\ \A v \in Workers \ {w} : slot[v].ok
        /\ \A e \in EventIds : \A n \in JobNumbers(e) : jobs[e][n].attempts = 0
    BY <1>2 DEF OneFailure
  <2> QED
    BY <1>3, <2>1
<1>9. OneStall'
  <2> SUFFICES ASSUME NEW e \in EventIds, NEW n \in JobNumbers(e)', IsAbandoned(e, n)',
                      NEW d \in EventIds, NEW m \in JobNumbers(d)'
               PROVE  jobs'[d][m].stalls = 0 /\ (IsAbandoned(d, m)' => <<d, m>> = <<e, n>>)
    BY DEF OneStall
  <2>1. n \in JobNumbers(e) /\ IsAbandoned(e, n)
    BY <1>3
  <2>2. m \in JobNumbers(d) =>
          jobs[d][m].stalls = 0 /\ (IsAbandoned(d, m) => <<d, m>> = <<e, n>>)
    BY <1>2, <2>1 DEF OneStall
  <2> QED
    BY <1>3, <2>2
<1>10. NoneFailed'
  BY <1>2, <1>3 DEF NoneFailed
<1> QED
  BY <1>1, <1>2, <1>4, <1>5, <1>6, <1>7, <1>8, <1>9, <1>10

\* Unit and the endpoint, but for the jobs they queue.
LEMMA QuietKeepsQInv ==
  ASSUME IInv, QInv, faults' \in Nat, faults' >= faults, UNCHANGED <<jobs, slot>>,
         \A e \in EventIds : audit[e] \in Terminal => audit'[e] \in Terminal
  PROVE  QInv'
<1>1. /\ \A e \in EventIds : JobNumbers(e)' = JobNumbers(e)
      /\ \A e \in EventIds : \A n \in JobNumbers(e)' : IsAbandoned(e, n)' => IsAbandoned(e, n)
  BY DEF JobNumbers, IsAbandoned
<1> QED
  BY <1>1, WorkGoesOn

LEMMA QueueJobsKeepsQInv ==
  ASSUME IInv, QInv, NEW r \in Requests, QueueJobs(r) PROVE QInv'
<1>1. /\ faults' \in Nat /\ faults' >= faults /\ audit' = audit /\ slot' = slot
      /\ jobs' = [e \in EventIds |->
           IF e \in request[r].found THEN Append(jobs[e], NewJob) ELSE jobs[e]]
  BY QueueAssumption DEF IInv, TypeOK, QueueJobs
<1>2. NewJob \in Job
  BY QueueAssumption DEF NewJob, Job, JobStates
<1>3. ASSUME NEW e \in EventIds
      PROVE  /\ \A n \in JobNumbers(e) : n \in JobNumbers(e)' /\ jobs'[e][n] = jobs[e][n]
             /\ \A n \in JobNumbers(e)' : n \in JobNumbers(e) \/ jobs'[e][n] = NewJob
  <2>1. jobs[e] \in Seq(Job) /\ Len(jobs[e]) \in Nat
    BY JobTypes DEF IInv
  <2>2. CASE e \in request[r].found
    <3>1. jobs'[e] = Append(jobs[e], NewJob)
      BY <1>1, <2>2
    <3>2. /\ Len(jobs'[e]) = Len(jobs[e]) + 1
          /\ \A n \in 1..Len(jobs[e]) : jobs'[e][n] = jobs[e][n]
          /\ jobs'[e][Len(jobs[e]) + 1] = NewJob
      BY <1>2, <2>1, <3>1, AppendProperties
    <3>3. JobNumbers(e) = 1..Len(jobs[e]) /\ JobNumbers(e)' = 1..(Len(jobs[e]) + 1)
      BY <3>2 DEF JobNumbers
    <3> QED
      BY <2>1, <3>2, <3>3
  <2>3. CASE e \notin request[r].found
    <3>1. jobs'[e] = jobs[e]
      BY <1>1, <2>3
    <3> QED
      BY <3>1 DEF JobNumbers
  <2> QED
    BY <2>2, <2>3
<1>4. \A e \in EventIds : \A n \in JobNumbers(e) : IsAbandoned(e, n)' => IsAbandoned(e, n)
  BY <1>1, <1>3 DEF IsAbandoned
<1> QED
  BY <1>1, <1>3, <1>4, WorkGoesOn

\* A job is taken by an idle slot, which no held job has for its owner.
LEMMA TakeKeepsQInv ==
  ASSUME IInv, QInv, NEW w \in Workers, NEW j \in JobIds, TakeJob(w, j) PROVE QInv'
<1>e. PICK e \in EventIds : e = j[1]
  BY JobIdIsJob DEF IInv
<1>1. PICK n \in JobNumbers(e) :
        j = <<e, n>> /\ JobAt(j) = jobs[e][n] /\ jobs[e][n] \in Job
  BY <1>e, JobIdIsJob DEF IInv
<1> DEFINE job == [jobs[e][n] EXCEPT !.state = "active", !.owner = w]
<1>2. /\ SetJob(<<e, n>>, job) /\ slot[w] = IdleSlot
      /\ slot' = [slot EXCEPT ![w] = [job |-> j, step |-> "taken", ok |-> TRUE]]
      /\ UNCHANGED <<audit, faults>>
  BY <1>1 DEF TakeJob
<1>3. /\ job \in Job /\ job.state = "active" /\ job.owner = w
      /\ job.attempts = jobs[e][n].attempts /\ job.stalls = jobs[e][n].stalls
  BY <1>1 DEF Job, JobStates
<1> HIDE DEF job
<1>4. slot \in Slots /\ faults \in Nat
  BY QueueAssumption DEF IInv, TypeOK, Slots
<1>5. /\ slot[w].step = "idle" /\ slot[w].ok = TRUE
      /\ slot'[w].job = <<e, n>> /\ slot'[w].step = "taken" /\ slot'[w].ok = TRUE
      /\ \A v \in Workers \ {w} : slot'[v] = slot[v]
  BY <1>1, <1>2, <1>4 DEF Slots, IdleSlot
<1>6. /\ \A d \in EventIds : JobNumbers(d)' = JobNumbers(d)
      /\ \A d \in EventIds : \A m \in JobNumbers(d) :
           jobs'[d][m] = IF d = e /\ m = n THEN job ELSE jobs[d][m]
  BY <1>2, <1>3, SetJobEffect DEF IInv
<1>7. ASSUME NEW d \in EventIds, NEW m \in JobNumbers(d), IsAbandoned(d, m)'
      PROVE  IsAbandoned(d, m)
  <2>1. ~(d = e /\ m = n)
    BY <1>3, <1>5, <1>6, <1>7 DEF IsAbandoned
  <2>2. jobs'[d][m] = jobs[d][m]
    BY <1>6, <2>1
  <2>3. jobs[d][m].state = "active" /\ jobs[d][m].owner \in Workers
    BY <1>7, <2>2 DEF IsAbandoned, IInv, JobIsSound
  <2> QED
    BY <1>5, <1>7, <2>2, <2>3 DEF IsAbandoned
<1>8. ASSUME NEW d \in EventIds, NEW m \in JobNumbers(d)
      PROVE  /\ jobs'[d][m].attempts = jobs[d][m].attempts
             /\ jobs'[d][m].stalls = jobs[d][m].stalls
             /\ jobs'[d][m].state = "failed" => jobs[d][m].state = "failed"
             /\ jobs'[d][m].state = "completed" => jobs[d][m].state = "completed"
  BY <1>3, <1>6
<1>9. \A v \in Workers :
        /\ slot'[v].ok = slot[v].ok
        /\ ~slot[v].ok => slot'[v] = slot[v]
        /\ slot'[v].step = "finish" => slot'[v] = slot[v]
  BY <1>5
<1>10. /\ faults' \in Nat /\ faults' >= faults
       /\ \A d \in EventIds : audit[d] \in Terminal => audit'[d] \in Terminal
  BY <1>2, <1>4
<1> QED
  BY <1>6, <1>7, <1>8, <1>9, <1>10, WorkGoesOn

\* A busy slot goes on with its job; if it is to be completed, the event has
\* its last verdict.
LEMMA RunKeepsQInv ==
  ASSUME IInv, QInv, NEW w \in Workers, UNCHANGED <<jobs, faults>>,
         slot[w].step \in {"taken", "running"}, slot'[w].step # "idle",
         slot'[w].job = slot[w].job, slot'[w].ok = slot[w].ok,
         \A v \in Workers \ {w} : slot'[v] = slot[v],
         slot'[w].step = "finish" => audit'[EventOf(w)] \in Terminal,
         \A e \in EventIds : audit[e] \in Terminal => audit'[e] \in Terminal
  PROVE  QInv'
<1> SUFFICES ASSUME faults' <= 1 PROVE QInv'
  BY DEF QInv
<1>1. faults \in Nat
  BY QueueAssumption DEF IInv, TypeOK
<1>2. slot[w].ok
  BY <1>1, QInvParts DEF OneFailure
<1>3. /\ \A e \in EventIds : JobNumbers(e)' = JobNumbers(e)
      /\ EventOf(w)' = EventOf(w)
  BY DEF JobNumbers, EventOf
<1>4. ASSUME NEW e \in EventIds, NEW n \in JobNumbers(e), IsAbandoned(e, n)'
      PROVE  IsAbandoned(e, n)
  <2>1. jobs[e][n].state = "active" /\ jobs[e][n].owner \in Workers
    BY <1>4 DEF IsAbandoned, IInv, JobIsSound
  <2> QED
    BY <1>4, <2>1 DEF IsAbandoned
<1>5. \A v \in Workers : slot'[v].step = "finish" =>
        slot'[v] = slot[v] \/ audit'[EventOf(v)'] \in Terminal
  BY <1>3
<1>6. \A v \in Workers :
        /\ slot'[v].ok = slot[v].ok
        /\ ~slot[v].ok => slot'[v] = slot[v]
  BY <1>2
<1>7. faults' \in Nat /\ faults' >= faults
  BY <1>1
<1> QED
  BY <1>3, <1>4, <1>5, <1>6, <1>7, WorkGoesOn

LEMMA CheckRowKeepsQInv ==
  ASSUME IInv, QInv, NEW w \in Workers, CheckRow(w) PROVE QInv'
<1> DEFINE next == IF IsDone(EventOf(w)) THEN "finish" ELSE "running"
<1>1. /\ slot[w].step = "taken" /\ slot' = [slot EXCEPT ![w].step = next]
      /\ UNCHANGED <<audit, jobs, faults>>
  BY DEF CheckRow
<1>2. next # "idle" /\ (next = "finish" => audit[EventOf(w)] \in Terminal)
  BY DEF IsDone
<1> HIDE DEF next
<1>3. slot \in Slots
  BY DEF IInv, TypeOK, Slots
<1>4. /\ slot'[w].step = next /\ slot'[w].job = slot[w].job /\ slot'[w].ok = slot[w].ok
      /\ \A v \in Workers \ {w} : slot'[v] = slot[v]
  BY <1>1, <1>3 DEF Slots
<1> QED
  BY <1>1, <1>2, <1>4, RunKeepsQInv

LEMMA ConcludeKeepsQInv ==
  ASSUME IInv, QInv, NEW w \in Workers, NEW verdict \in Terminal, Conclude(w, verdict)
  PROVE  QInv'
<1>1. /\ slot[w].step = "running" /\ slot' = [slot EXCEPT ![w].step = "finish"]
      /\ audit' = [audit EXCEPT ![EventOf(w)] = verdict]
      /\ UNCHANGED <<jobs, faults>>
  BY DEF Conclude
<1>2. slot \in Slots /\ audit \in [EventIds -> {"Absent"} \cup Retryable \cup Terminal]
  BY DEF IInv, TypeOK, Slots
<1>3. EventOf(w) \in EventIds
  BY <1>1, SlotJob DEF IInv
<1>4. /\ slot'[w].step = "finish" /\ slot'[w].job = slot[w].job /\ slot'[w].ok = slot[w].ok
      /\ \A v \in Workers \ {w} : slot'[v] = slot[v]
  BY <1>1, <1>2 DEF Slots
<1>5. /\ audit'[EventOf(w)] \in Terminal
      /\ \A e \in EventIds : audit[e] \in Terminal => audit'[e] \in Terminal
  BY <1>1, <1>2, <1>3
<1> QED
  BY <1>1, <1>4, <1>5, RunKeepsQInv

\* The first fault is a failing run: nothing has been abandoned.
LEMMA FailRunKeepsQInv ==
  ASSUME IInv, QInv, NEW w \in Workers, FailRun(w) PROVE QInv'
<1> SUFFICES ASSUME faults' <= 1 PROVE QInv'
  BY DEF QInv
<1>1. faults = 0 /\ faults' = 1
  BY QueueAssumption DEF IInv, TypeOK, FailRun, Fault
<1>2. NoFailure /\ NoStall /\ NoneFailed
  BY <1>1, QInvParts
<1>3. /\ slot[w].step = "running" /\ jobs' = jobs
      /\ slot' = [slot EXCEPT ![w].step = "finish", ![w].ok = FALSE]
  BY DEF FailRun
<1>4. slot \in Slots
  BY DEF IInv, TypeOK, Slots
<1>5. /\ slot'[w].step = "finish" /\ slot'[w].job = slot[w].job /\ slot'[w].ok = FALSE
      /\ \A v \in Workers \ {w} : slot'[v] = slot[v]
  BY <1>3, <1>4 DEF Slots
<1>6. \A e \in EventIds : JobNumbers(e)' = JobNumbers(e)
  BY <1>3 DEF JobNumbers
<1>7. ASSUME NEW e \in EventIds, NEW n \in JobNumbers(e) PROVE ~IsAbandoned(e, n)'
  <2>1. ~IsAbandoned(e, n)
    BY <1>2 DEF NoStall
  <2>2. jobs[e][n].state = "active" => jobs[e][n].owner \in Workers
    BY DEF IInv, JobIsSound
  <2> QED
    BY <1>3, <1>5, <2>1, <2>2 DEF IsAbandoned
<1>8. NoStall' /\ OneStall'
  BY <1>2, <1>3, <1>6, <1>7 DEF NoStall, OneStall
<1>9. ~NoFailure'
  BY <1>5 DEF NoFailure
<1>10. OneFailure' /\ NoneFailed'
  BY <1>2, <1>3, <1>5, <1>6 DEF OneFailure, NoFailure, NoneFailed
<1> QED
  BY <1>1, <1>8, <1>9, <1>10 DEF QInv

\* The first fault is a crash: it abandons one job at most.
LEMMA CrashKeepsQInv ==
  ASSUME IInv, QInv, NEW w \in Workers, CrashWorker(w) PROVE QInv'
<1> SUFFICES ASSUME faults' <= 1 PROVE QInv'
  BY DEF QInv
<1>1. faults = 0 /\ faults' = 1
  BY QueueAssumption DEF IInv, TypeOK, CrashWorker, Fault
<1>2. NoFailure /\ NoStall /\ NoneFailed /\ DoneIsConcluded
  BY <1>1, QInvParts
<1>3. slot' = [slot EXCEPT ![w] = IdleSlot] /\ UNCHANGED <<jobs, audit>>
  BY DEF CrashWorker
<1>4. slot \in Slots
  BY DEF IInv, TypeOK, Slots
<1>5. slot'[w] = IdleSlot /\ \A v \in Workers \ {w} : slot'[v] = slot[v]
  BY <1>3, <1>4 DEF Slots
<1>6. \A e \in EventIds : JobNumbers(e)' = JobNumbers(e)
  BY <1>3 DEF JobNumbers
<1>7. ASSUME NEW e \in EventIds, NEW n \in JobNumbers(e), IsAbandoned(e, n)'
      PROVE  slot[w].job = <<e, n>>
  <2>1. jobs[e][n].state = "active" /\ jobs[e][n].owner \in Workers
    BY <1>3, <1>7 DEF IsAbandoned, IInv, JobIsSound
  <2>2. ~IsAbandoned(e, n)
    BY <1>2 DEF NoStall
  <2> QED
    BY <1>3, <1>5, <1>7, <2>1, <2>2 DEF IsAbandoned
<1>8. OneStall'
  <2> SUFFICES ASSUME NEW e \in EventIds, NEW n \in JobNumbers(e), IsAbandoned(e, n)',
                      NEW d \in EventIds, NEW m \in JobNumbers(d)
               PROVE  jobs'[d][m].stalls = 0 /\ (IsAbandoned(d, m)' => <<d, m>> = <<e, n>>)
    BY <1>6 DEF OneStall
  <2>1. jobs'[d][m].stalls = 0
    BY <1>2, <1>3 DEF NoStall
  <2> QED
    BY <1>7, <2>1
<1>9. NoFailure' /\ OneFailure'
  BY <1>2, <1>3, <1>5, <1>6 DEF NoFailure, OneFailure, IdleSlot
<1>10. DoneIsConcluded'
  BY <1>2, <1>3, <1>5, <1>6 DEF DoneIsConcluded, IdleSlot, EventOf
<1>11. NoneFailed'
  BY <1>2, <1>3, <1>6 DEF NoneFailed
<1> QED
  BY <1>1, <1>8, <1>9, <1>10, <1>11 DEF QInv

\* A job that stalls for the first time waits again.
LEMMA FirstStall ==
  ASSUME NEW j, NEW old \in Job, JobAt(j) = old, old.stalls = 0, MaxStalls > 0
  PROVE  Stalled(j) = [old EXCEPT !.owner = NoOwner, !.state = "waiting", !.stalls = 1]
<1>1. 0 < MaxStalls
  BY QueueAssumption
<1>2. Stalled(j) = [old EXCEPT !.owner = NoOwner, !.state = "waiting", !.stalls = old.stalls + 1]
  BY <1>1 DEF Stalled, Job
<1>3. old.stalls + 1 = 1
  OBVIOUS
<1> QED
  BY <1>2, <1>3

\* A job taken from its worker is run again, if it is the first.
LEMMA StallKeepsQInv ==
  ASSUME IInv, MaxStalls > 0, NEW j \in JobIds, JobAt(j).state = "active",
         SetJob(j, Stalled(j)), UNCHANGED <<audit, slot>>, faults' # 0,
         NoFailure, DoneIsConcluded, NoneFailed,
         \A d \in EventIds : \A m \in JobNumbers(d) :
           jobs[d][m].stalls = 0 /\ (IsAbandoned(d, m) => <<d, m>> = j)
  PROVE  QInv'
<1>e. PICK e \in EventIds : e = j[1]
  BY JobIdIsJob DEF IInv
<1>1. PICK n \in JobNumbers(e) :
        j = <<e, n>> /\ JobAt(j) = jobs[e][n] /\ jobs[e][n] \in Job
  BY <1>e, JobIdIsJob DEF IInv
<1> DEFINE job == [jobs[e][n] EXCEPT !.owner = NoOwner, !.state = "waiting", !.stalls = 1]
<1>2. Stalled(j) = job
  <2>1. jobs[e][n].stalls = 0
    OBVIOUS
  <2> QED
    BY <1>1, <2>1, FirstStall
<1>3. job \in Job /\ job.state = "waiting" /\ job.attempts = 0
  <2>1. jobs[e][n].attempts = 0
    BY DEF NoFailure
  <2>2. 1 \in 0..MaxStalls
    BY QueueAssumption
  <2> QED
    BY <1>1, <2>1, <2>2 DEF Job, JobStates
<1>4. SetJob(<<e, n>>, job)
  BY <1>1, <1>2
<1> HIDE DEF job
<1>5. /\ \A d \in EventIds : JobNumbers(d)' = JobNumbers(d)
      /\ \A d \in EventIds : \A m \in JobNumbers(d) :
           jobs'[d][m] = IF d = e /\ m = n THEN job ELSE jobs[d][m]
  BY <1>3, <1>4, SetJobEffect DEF IInv
<1>6. ASSUME NEW d \in EventIds, NEW m \in JobNumbers(d) PROVE ~IsAbandoned(d, m)'
  <2>1. CASE d = e /\ m = n
    BY <1>3, <1>5, <2>1 DEF IsAbandoned
  <2>2. CASE ~(d = e /\ m = n)
    <3>1. ~IsAbandoned(d, m)
      BY <1>1, <2>2
    <3>2. jobs'[d][m] = jobs[d][m]
      BY <1>5, <2>2
    <3> QED
      BY <3>1, <3>2 DEF IsAbandoned
  <2> QED
    BY <2>1, <2>2
<1>7. OneStall'
  BY <1>5, <1>6 DEF OneStall
<1>8. NoFailure' /\ OneFailure'
  BY <1>3, <1>5 DEF NoFailure, OneFailure
<1>9. DoneIsConcluded'
  BY <1>3, <1>5 DEF DoneIsConcluded, EventOf
<1>10. NoneFailed'
  BY <1>3, <1>5 DEF NoneFailed
<1> QED
  BY <1>7, <1>8, <1>9, <1>10 DEF QInv

LEMMA RecoverKeepsQInv ==
  ASSUME IInv, QInv, MaxStalls > 0, NEW j \in JobIds, RecoverStalled(j) PROVE QInv'
<1> SUFFICES ASSUME faults' <= 1 PROVE QInv'
  BY DEF QInv
<1>1. faults \in Nat /\ faults' = faults /\ faults <= 1
  BY QueueAssumption DEF IInv, TypeOK, RecoverStalled
<1>2. /\ JobAt(j).state = "active" /\ SetJob(j, Stalled(j)) /\ UNCHANGED <<audit, slot>>
      /\ slot[JobAt(j).owner].job # j
  BY DEF RecoverStalled
<1>3. j[1] \in EventIds /\ j[2] \in JobNumbers(j[1]) /\ j = <<j[1], j[2]>>
      /\ JobAt(j) = jobs[j[1]][j[2]]
  BY JobIdIsJob DEF IInv
<1>4. IsAbandoned(j[1], j[2])
  BY <1>2, <1>3 DEF IsAbandoned
<1>5. \A d \in EventIds : \A m \in JobNumbers(d) :
        jobs[d][m].stalls = 0 /\ (IsAbandoned(d, m) => <<d, m>> = j)
  BY <1>1, <1>3, <1>4, QInvParts DEF OneStall
<1>6. ~NoStall
  BY <1>3, <1>4 DEF NoStall
<1>7. faults # 0 /\ NoFailure /\ DoneIsConcluded /\ NoneFailed
  BY <1>1, <1>6, QInvParts
<1> QED
  BY <1>1, <1>2, <1>5, <1>7, StallKeepsQInv

LEMMA LoseLockKeepsQInv ==
  ASSUME IInv, QInv, MaxStalls > 0, NEW j \in JobIds, LoseLock(j) PROVE QInv'
<1> SUFFICES ASSUME faults' <= 1 PROVE QInv'
  BY DEF QInv
<1>1. faults = 0 /\ faults' = 1
  BY QueueAssumption DEF IInv, TypeOK, LoseLock, Fault
<1>2. JobAt(j).state = "active" /\ SetJob(j, Stalled(j)) /\ UNCHANGED <<audit, slot>>
  BY DEF LoseLock
<1>3. NoFailure /\ NoStall /\ DoneIsConcluded /\ NoneFailed
  BY <1>1, QInvParts
<1>4. \A d \in EventIds : \A m \in JobNumbers(d) : jobs[d][m].stalls = 0 /\ ~IsAbandoned(d, m)
  BY <1>3 DEF NoStall
<1> QED
  BY <1>1, <1>2, <1>3, <1>4, StallKeepsQInv

\* What a slot that gives its job back leaves of the jobs that are abandoned.
LEMMA NoneAbandonedByFinish ==
  ASSUME IInv, NEW w \in Workers, slot' = [slot EXCEPT ![w] = IdleSlot],
         NEW d \in EventIds, NEW m \in JobNumbers(d), jobs'[d][m] = jobs[d][m],
         ~Holds(w) \/ slot[w].job # <<d, m>>, IsAbandoned(d, m)'
  PROVE  IsAbandoned(d, m)
<1>1. jobs[d][m].state = "active" /\ jobs[d][m].owner \in Workers
  BY DEF IsAbandoned, IInv, JobIsSound
<1>2. \A v \in Workers \ {w} : slot'[v] = slot[v]
  BY DEF IInv, TypeOK
<1>3. CASE jobs[d][m].owner = w
  <2>1. slot[w].job # <<d, m>>
    BY <1>1, <1>3 DEF Holds, JobAt
  <2> QED
    BY <1>1, <1>3, <2>1 DEF IsAbandoned
<1>4. CASE jobs[d][m].owner # w
  BY <1>1, <1>2, <1>4 DEF IsAbandoned
<1> QED
  BY <1>3, <1>4

\* A job is completed with its event's last verdict; one that has failed for
\* the first time is tried again.
LEMMA FinishKeepsQInv ==
  ASSUME IInv, QInv, MaxAttempts > 1, NEW w \in Workers, FinishJob(w) PROVE QInv'
<1> SUFFICES ASSUME faults' <= 1 PROVE QInv'
  BY DEF QInv
<1>1. /\ slot[w].step = "finish" /\ slot' = [slot EXCEPT ![w] = IdleSlot]
      /\ UNCHANGED <<audit, faults>>
  BY DEF FinishJob
<1>2. slot \in Slots /\ faults \in Nat /\ faults <= 1
  BY <1>1, QueueAssumption DEF IInv, TypeOK, Slots
<1>3. slot'[w] = IdleSlot /\ \A v \in Workers \ {w} : slot'[v] = slot[v]
  BY <1>1, <1>2 DEF Slots
<1>e. PICK e \in EventIds : e = EventOf(w)
  BY <1>1, SlotJob DEF IInv
<1>4. PICK n \in JobNumbers(e) :
        slot[w].job = <<e, n>> /\ JobAt(slot[w].job) = jobs[e][n] /\ jobs[e][n] \in Job
  BY <1>1, <1>e, SlotJob DEF IInv
<1>5. slot[w].ok => \A v \in Workers :
        /\ slot'[v].ok = slot[v].ok
        /\ ~slot[v].ok => slot'[v] = slot[v]
        /\ slot'[v].step = "finish" => slot'[v] = slot[v]
  <2> SUFFICES ASSUME slot[w].ok = TRUE PROVE \A v \in Workers :
                 /\ slot'[v].ok = slot[v].ok
                 /\ ~slot[v].ok => slot'[v] = slot[v]
                 /\ slot'[v].step = "finish" => slot'[v] = slot[v]
    BY <1>2 DEF Slots
  <2>1. slot'[w].ok = TRUE /\ slot'[w].step = "idle"
    BY <1>3 DEF IdleSlot
  <2> QED
    BY <1>3, <2>1
<1>0. /\ faults' \in Nat /\ faults' >= faults
      /\ \A d \in EventIds : audit[d] \in Terminal => audit'[d] \in Terminal
  BY <1>1, <1>2
<1>6. CASE slot[w].ok
  <2>1. CASE Holds(w)
    <3> DEFINE job == [jobs[e][n] EXCEPT !.owner = NoOwner, !.state = "completed"]
    <3>1. SetJob(<<e, n>>, job)
      BY <1>4, <1>6, <2>1 DEF FinishJob
    <3>2. /\ job \in Job /\ job.state = "completed"
          /\ job.attempts = jobs[e][n].attempts /\ job.stalls = jobs[e][n].stalls
      BY <1>4 DEF Job, JobStates
    <3> HIDE DEF job
    <3>3. /\ \A d \in EventIds : JobNumbers(d)' = JobNumbers(d)
          /\ \A d \in EventIds : \A m \in JobNumbers(d) :
               jobs'[d][m] = IF d = e /\ m = n THEN job ELSE jobs[d][m]
      BY <3>1, <3>2, SetJobEffect DEF IInv
    <3>4. ASSUME NoFailure PROVE audit[e] \in Terminal
      <4>1. DoneIsConcluded
        BY <1>2, <3>4, QInvParts
      <4> QED
        BY <1>1, <1>e, <4>1 DEF DoneIsConcluded
    <3>5. ASSUME NEW d \in EventIds, NEW m \in JobNumbers(d)
          PROVE  /\ jobs'[d][m].attempts = jobs[d][m].attempts
                 /\ jobs'[d][m].stalls = jobs[d][m].stalls
                 /\ jobs'[d][m].state = "failed" => jobs[d][m].state = "failed"
                 /\ jobs'[d][m].state = "completed" /\ NoFailure =>
                      jobs[d][m].state = "completed" \/ audit[d] \in Terminal
      BY <3>2, <3>3, <3>4
    <3>6. ASSUME NEW d \in EventIds, NEW m \in JobNumbers(d), IsAbandoned(d, m)'
          PROVE  IsAbandoned(d, m)
      <4>1. ~(d = e /\ m = n)
        BY <3>2, <3>3, <3>6 DEF IsAbandoned
      <4>2. jobs'[d][m] = jobs[d][m] /\ slot[w].job # <<d, m>>
        BY <1>4, <3>3, <4>1
      <4> QED
        BY <1>1, <3>6, <4>2, NoneAbandonedByFinish
    <3> QED
      BY <1>0, <1>1, <1>5, <1>6, <3>3, <3>5, <3>6, WorkGoesOn
  <2>2. CASE ~Holds(w)
    <3>1. jobs' = jobs
      BY <2>2 DEF FinishJob
    <3>2. \A d \in EventIds : JobNumbers(d)' = JobNumbers(d)
      BY <3>1 DEF JobNumbers
    <3>3. ASSUME NEW d \in EventIds, NEW m \in JobNumbers(d), IsAbandoned(d, m)'
          PROVE  IsAbandoned(d, m)
      BY <1>1, <2>2, <3>1, <3>3, NoneAbandonedByFinish
    <3> QED
      BY <1>0, <1>1, <1>5, <1>6, <3>1, <3>2, <3>3, WorkGoesOn
  <2> QED
    BY <2>1, <2>2
<1>7. CASE ~slot[w].ok
  <2>1. /\ \A v \in Workers \ {w} : slot[v].ok
        /\ \A d \in EventIds : \A m \in JobNumbers(d) : jobs[d][m].attempts = 0
    BY <1>2, <1>7, QInvParts DEF OneFailure
  <2>2. ~NoFailure
    BY <1>7 DEF NoFailure
  <2>3. faults # 0 /\ NoStall /\ NoneFailed
    BY <1>2, <2>2, QInvParts
  <2>4. Holds(w)
    <3>1. ~IsLost(jobs[e][n])
      BY <2>3 DEF NoStall, NoneFailed, IsLost
    <3> QED
      BY <1>1, <1>4, <3>1 DEF IInv, SlotIsSound
  <2> DEFINE job == [jobs[e][n] EXCEPT !.owner = NoOwner, !.attempts = 1, !.state = "waiting"]
  <2>5. SetJob(<<e, n>>, job)
    <3>1. SetJob(<<e, n>>, AfterFailure(jobs[e][n]))
      BY <1>4, <1>7, <2>4 DEF FinishJob
    <3>2. jobs[e][n].attempts = 0 /\ 1 < MaxAttempts
      BY <2>1, QueueAssumption
    <3>3. AfterFailure(jobs[e][n]) = job
      BY <1>4, <3>2 DEF AfterFailure, Job
    <3> QED
      BY <3>1, <3>3
  <2>6. /\ job \in Job /\ job.state = "waiting" /\ job.attempts = 1
        /\ job.stalls = jobs[e][n].stalls
    <3>1. 1 \in 0..MaxAttempts
      BY QueueAssumption
    <3> QED
      BY <1>4, <3>1 DEF Job, JobStates
  <2> HIDE DEF job
  <2>7. /\ \A d \in EventIds : JobNumbers(d)' = JobNumbers(d)
        /\ \A d \in EventIds : \A m \in JobNumbers(d) :
             jobs'[d][m] = IF d = e /\ m = n THEN job ELSE jobs[d][m]
    BY <2>5, <2>6, SetJobEffect DEF IInv
  <2>8. ASSUME NEW d \in EventIds, NEW m \in JobNumbers(d)
        PROVE  jobs'[d][m].stalls = 0 /\ jobs'[d][m].state # "failed" /\ ~IsAbandoned(d, m)'
    <3>1. jobs[d][m].stalls = 0 /\ jobs[d][m].state # "failed" /\ ~IsAbandoned(d, m)
      BY <2>3 DEF NoStall, NoneFailed
    <3>2. CASE d = e /\ m = n
      BY <2>6, <2>7, <3>1, <3>2 DEF IsAbandoned
    <3>3. CASE ~(d = e /\ m = n)
      <4>1. jobs'[d][m] = jobs[d][m] /\ slot[w].job # <<d, m>>
        BY <1>4, <2>7, <3>3
      <4> QED
        BY <1>1, <3>1, <4>1, NoneAbandonedByFinish
    <3> QED
      BY <3>2, <3>3
  <2>9. NoStall' /\ OneStall' /\ NoneFailed'
    BY <2>7, <2>8 DEF NoStall, OneStall, NoneFailed
  <2>10. OneFailure'
    BY <1>3, <2>1 DEF OneFailure, IdleSlot
  <2>11. ~NoFailure'
    BY <2>6, <2>7 DEF NoFailure
  <2> QED
    BY <1>1, <2>3, <2>9, <2>10, <2>11 DEF QInv
<1> QED
  BY <1>6, <1>7

LEMMA InitQInv == Init => QInv
<1> SUFFICES ASSUME Init PROVE QInv
  OBVIOUS
<1>1. \A e \in EventIds : JobNumbers(e) = {}
  BY EmptySeq DEF Init, JobNumbers
<1>2. \A w \in Workers : slot[w].ok /\ slot[w].step = "idle"
  BY DEF Init, IdleSlot
<1> QED
  BY <1>1, <1>2
  DEF QInv, NoFailure, NoStall, DoneIsConcluded, OneFailure, OneStall, NoneFailed

LEMMA ProgressKeepsQInv ==
  ASSUME IInv, QInv, MaxAttempts > 1, MaxStalls > 0, Progress PROVE QInv'
<1>0. faults \in Nat /\ \A r \in Requests : request[r].batch \subseteq EventIds
  BY QueueAssumption DEF IInv, TypeOK
<1>1. ASSUME NEW r \in Requests, NEW batch \in SUBSET EventIds, UnitDelivers(r, batch)
      PROVE  QInv'
  BY <1>0, <1>1, QuietKeepsQInv DEF UnitDelivers, Open, workerVars
<1>2. ASSUME NEW r \in Requests, StoreEvents(r) PROVE QInv'
  <2>1. \A e \in EventIds : audit[e] \in Terminal => audit'[e] \in Terminal
    BY <1>2 DEF StoreEvents, Terminal
  <2> QED
    BY <1>0, <1>2, <2>1, QuietKeepsQInv DEF StoreEvents, workerVars
<1>3. ASSUME NEW r \in Requests, FindPending(r) \/ Answer(r) PROVE QInv'
  BY <1>0, <1>3, QuietKeepsQInv DEF FindPending, Answer, workerVars
<1>4. ASSUME NEW r \in Requests, QueueJobs(r) PROVE QInv'
  BY <1>4, QueueJobsKeepsQInv
<1>5. ASSUME NEW w \in Workers, NEW j \in JobIds, TakeJob(w, j) PROVE QInv'
  BY <1>5, TakeKeepsQInv
<1>6. ASSUME NEW w \in Workers, CheckRow(w) \/ FinishJob(w) PROVE QInv'
  BY <1>6, CheckRowKeepsQInv, FinishKeepsQInv
<1>7. ASSUME NEW w \in Workers, NEW verdict \in Terminal, Conclude(w, verdict) PROVE QInv'
  BY <1>7, ConcludeKeepsQInv
<1>8. ASSUME NEW j \in JobIds, RecoverStalled(j) PROVE QInv'
  BY <1>8, RecoverKeepsQInv
<1> QED
  BY <1>1, <1>2, <1>3, <1>4, <1>5, <1>6, <1>7, <1>8 DEF Progress

LEMMA SurpriseKeepsQInv ==
  ASSUME IInv, QInv, MaxAttempts > 1, MaxStalls > 0, Surprise PROVE QInv'
<1>0. faults \in Nat
  BY QueueAssumption DEF IInv, TypeOK
<1>1. ASSUME NEW r \in Requests, NEW batch \in SUBSET EventIds, UnitRedelivers(r, batch)
      PROVE  QInv'
  BY <1>0, <1>1, QuietKeepsQInv DEF UnitRedelivers, Open, workerVars
<1>2. ASSUME NEW r \in Requests, LoseRequest(r) PROVE QInv'
  <2>1. faults' \in Nat /\ faults' >= faults
    BY <1>0, <1>2 DEF LoseRequest, Fault
  <2> QED
    BY <1>2, <2>1, QuietKeepsQInv DEF LoseRequest, workerVars
<1>3. ASSUME NEW w \in Workers, FailRun(w) \/ CrashWorker(w) PROVE QInv'
  BY <1>3, FailRunKeepsQInv, CrashKeepsQInv
<1>4. ASSUME NEW j \in JobIds, LoseLock(j) PROVE QInv'
  BY <1>4, LoseLockKeepsQInv
<1> QED
  BY <1>1, <1>2, <1>3, <1>4 DEF Surprise

LEMMA NextQInv ==
  ASSUME MaxAttempts > 1, MaxStalls > 0
  PROVE  IInv /\ QInv /\ [Next]_vars => QInv'
<1> SUFFICES ASSUME IInv, QInv, [Next]_vars PROVE QInv'
  OBVIOUS
<1>1. ASSUME UnitPublishes \/ UNCHANGED vars PROVE QInv'
  <2>1. faults \in Nat /\ UNCHANGED <<jobs, slot, audit, faults>>
    BY <1>1, QueueAssumption DEF IInv, TypeOK, UnitPublishes, vars, workerVars
  <2> QED
    BY <2>1, QuietKeepsQInv
<1> QED
  BY <1>1, ProgressKeepsQInv, SurpriseKeepsQInv DEF Next, Rest

\* The argument of OneFaultIsSurvived: the job that NoneIsDropped names goes
\* on, or was the one to stall, and if that one is completed no run has failed
\* that could have taken its verdict back.
LEMMA OneFaultLosesNothing ==
  ASSUME IInv, QInv PROVE OneFaultIsSurvived
<1> SUFFICES ASSUME faults <= 1, NEW e \in acked, audit[e] \notin Terminal
             PROVE  \E n \in JobNumbers(e) : Live(jobs[e][n])
  BY DEF OneFaultIsSurvived
<1>1. e \in EventIds
  BY QueueAssumption DEF IInv, TypeOK, Published, EventIds
<1>2. IsQueued(e)
  BY <1>1 DEF IInv, EventIsSound
<1>3. PICK n \in JobNumbers(e) : Counts(e, n)
  BY <1>1, <1>2 DEF IInv, NoneIsDropped
<1>4. jobs[e][n].state \in JobStates
  BY <1>1, JobTypes DEF IInv, Job
<1>5. jobs[e][n].state # "failed"
  BY <1>1, QInvParts DEF NoneFailed
<1>6. jobs[e][n].state # "completed"
  <2> SUFFICES ASSUME jobs[e][n].state = "completed" PROVE FALSE
    OBVIOUS
  <2>1. jobs[e][n].stalls > 0
    BY <1>3 DEF Counts, IsLost
  <2>2. ~NoStall
    BY <1>1, <2>1 DEF NoStall
  <2>3. DoneIsConcluded
    BY <2>2, QInvParts
  <2> QED
    BY <1>1, <2>3 DEF DoneIsConcluded
<1> QED
  BY <1>4, <1>5, <1>6 DEF JobStates, Live

\* One fault of any kind -- a request that dies before its jobs are queued, a
\* handler that throws, a worker that crashes or a lock that is lost -- costs
\* no event its verdict: with a second attempt and one stall allowed (the
\* processor has five, BullMQ one) there is always a job left to give it.
THEOREM OneFaultSurvived ==
  ASSUME MaxAttempts > 1, MaxStalls > 0
  PROVE  Spec => []OneFaultIsSurvived
<1>1. Init => QInv
  BY InitQInv
<1>2. IInv /\ QInv /\ [Next]_vars => QInv'
  BY NextQInv
<1>3. IInv /\ QInv => OneFaultIsSurvived
  BY OneFaultLosesNothing
<1> QED
  BY <1>1, <1>2, <1>3, Invariance, PTL DEF Spec
=============================================================================
