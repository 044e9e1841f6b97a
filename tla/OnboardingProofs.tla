--------------------------- MODULE OnboardingProofs ---------------------------
(***************************************************************************)
(* Theorems about Onboarding.tla, for any applications, customers, workers, *)
(* events, gaps and faults.  As in PaymentsProofs.tla, IInv says what holds *)
(* of a worker between its statements; here an approval that has moved the *)
(* status has another statement to go, the upsert of the customer.  SInv   *)
(* follows the log and the events that were handled, for what a settled    *)
(* row of an application or of a customer shows.                           *)
(***************************************************************************)
EXTENDS Onboarding, SequenceTheorems, WellFoundedInduction, TLAPS

ApplicationEvent ==
  [type : Kinds, application : Applications, customer : Customers, at : Nat \ {Never}]

\* Events are well-formed; what is audited or run has been published.
PipelineIsSound ==
  /\ log \in Seq(ApplicationEvent)
  /\ \A e \in EventIds : audit[e] # "Absent" => e \in Published
  /\ \A w \in Workers : running[w] # NoEvent => running[w] \in Published

\* A handler is on a step of its event's type.
HandlerIsSound ==
  \A w \in Workers :
    /\ step[w] # "idle" => running[w] # NoEvent
    /\ step[w] = "update" => Event(w).type \in StatusEvents
    /\ step[w] = "upsert" => Event(w).type = "approved"
    /\ step[w] = "customer" => Event(w).type \in CustomerEvents

\* The row comes with the end of the request, which follows the application at
\* Unit.
RequestIsSound ==
  \A a \in Applications :
    /\ submission[a].step # "done" => application[a] = NoRow
    /\ decided[a] = "None" => submission[a].step = "none"

\* The row of e's application is as new as e.
Shows(e) ==
  /\ application[log[e].application] # NoRow
  /\ log[e].at <= application[log[e].application].lastEventAt

\* A worker has applied e and is to mark it Processed, at once or after the upsert.
WillMark(w, e) ==
  /\ running[w] = e
  /\ step[w] = "upsert" \/ (step[w] = "mark" /\ outcome[w] = "Processed")

\* Status events that are, or will be, marked Processed are in the row.
AppliedIsShown ==
  \A e \in Published : log[e].type \in StatusEvents =>
    /\ audit[e] = "Processed" => Shows(e)
    /\ \A w \in Workers : WillMark(w, e) => Shows(e)

\* A stamp is that of an event with the status of the row.
StampIsOfEvent ==
  \A a \in Applications : application[a] # NoRow /\ application[a].lastEventAt # Never =>
    \E e \in Published : /\ log[e].application = a /\ log[e].type \in StatusEvents
                        /\ log[e].at = application[a].lastEventAt
                        /\ APPLICATION_STATUS_EVENTS[log[e].type] = application[a].status

IInv ==
  /\ TypeOK
  /\ PipelineIsSound
  /\ HandlerIsSound
  /\ RequestIsSound
  /\ AppliedIsShown
  /\ StampIsOfEvent
  /\ CustomersAreApproved

-----------------------------------------------------------------------------
\* The events of the two tables.
LEMMA StatusTables ==
  /\ StatusEvents = {"awaitingDocuments", "pendingReview", "approved", "denied", "canceled"}
  /\ \A type \in StatusEvents : APPLICATION_STATUS_EVENTS[type] \in ApplicationStatus
  /\ CustomerEvents = {"customerCreated", "customerUpdated", "customerArchived"}
  /\ \A type \in CustomerEvents : CUSTOMER_STATUS_EVENTS[type] \in CustomerStatus
  /\ \A type \in CustomerEvents : type \notin StatusEvents
BY DEF StatusEvents, APPLICATION_STATUS_EVENTS, ApplicationStatus,
       CustomerEvents, CUSTOMER_STATUS_EVENTS, CustomerStatus

\* A fresh row has no stamp.
LEMMA NewRowType ==
  /\ \A status \in ApplicationStatus :
       NewRow(status) \in ApplicationRow /\ NewRow(status).lastEventAt = Never
  /\ NewRow("Active") \in CustomerRow
BY DEF NewRow, ApplicationRow, CustomerRow, CustomerStatus, Never

\* Every published event is a well-formed one.
LEMMA LoggedEvents ==
  ASSUME IInv, NEW e \in Published
  PROVE  /\ log[e] \in ApplicationEvent /\ log[e].application \in Applications
         /\ log[e].customer \in Customers
         /\ log[e].at \in Nat /\ log[e].at # Never
         /\ e \in EventIds
<1>1. log[e] \in ApplicationEvent
  BY DEF IInv, PipelineIsSound, Published
<1>2. Len(log) \in Nat /\ Len(log) <= MaxEvents
  BY DEF IInv, PipelineIsSound, TypeOK, HandlersTypeOK, DeliveryTypeOK
<1> QED
  BY <1>1, <1>2, DeliveryAssumption DEF ApplicationEvent, Published, EventIds

\* A worker that runs a handler runs a published event.
LEMMA RunningEvent ==
  ASSUME IInv, NEW w \in Workers, running[w] # NoEvent
  PROVE  /\ running[w] \in Published /\ running[w] \in EventIds
         /\ Event(w) = log[running[w]]
         /\ Event(w).application \in Applications /\ Event(w).customer \in Customers
         /\ Event(w).at \in Nat /\ Event(w).at # Never
<1>1. running[w] \in Published
  BY DEF IInv, PipelineIsSound
<1> QED
  BY <1>1, LoggedEvents DEF Event

\* Init establishes the invariant.
LEMMA InitIInv == Init => IInv
<1> SUFFICES ASSUME Init PROVE IInv
  OBVIOUS
<1> USE OnboardingAssumption, HandlersAssumption, DeliveryAssumption
<1>1. HandlersTypeOK({"update", "upsert", "customer"})
  BY DEF Init, HandlersInit, DeliveryInit, HandlersTypeOK, DeliveryTypeOK, EventIds, NoEvent,
         Verdicts, Terminal
<1>2. "PendingReview" \in ApplicationStatus /\ "Active" \in CustomerStatus
  BY DEF ApplicationStatus, CustomerStatus
<1>3. TypeOK
  <2>1. /\ decided \in [Applications -> ApplicationStatus \cup {"None"}]
        /\ standing \in [Customers -> CustomerStatus \cup {"None"}]
    BY <1>2 DEF Init
  <2>2. application \in [Applications -> ApplicationRow \cup {NoRow}]
    BY <1>2, NewRowType DEF Init
  <2>3. customer \in [Customers -> CustomerRow \cup {NoRow}]
    BY <1>2, NewRowType DEF Init
  <2>4. submission \in [Applications -> [step : {"none", "call", "insert", "done"},
                                         status : ApplicationStatus]]
    BY <1>2 DEF Init
  <2> QED
    BY <1>1, <2>1, <2>2, <2>3, <2>4 DEF TypeOK
<1>4. PipelineIsSound
  BY DEF Init, HandlersInit, DeliveryInit, PipelineIsSound
<1>5. HandlerIsSound
  BY DEF Init, HandlersInit, HandlerIsSound
<1>6. RequestIsSound
  BY DEF Init, RequestIsSound
<1>7. AppliedIsShown
  BY DEF Init, HandlersInit, DeliveryInit, AppliedIsShown, Published
<1>8. StampIsOfEvent
  BY <1>2, NewRowType DEF Init, StampIsOfEvent
<1>9. CustomersAreApproved
  BY DEF Init, CustomersAreApproved
<1> QED
  BY <1>3, <1>4, <1>5, <1>6, <1>7, <1>8, <1>9 DEF IInv

-----------------------------------------------------------------------------
(* Steps that publish an event.                                            *)

\* The next event has a time, which is not that of a row without events.
LEMMA LaterType ==
  ASSUME IInv, NEW gap \in Gaps
  PROVE  Later(gap) \in Nat \ {Never}
<1> DEFINE last == IF log = <<>> THEN Never ELSE log[Len(log)].at
<1>1. last \in Nat
  <2>1. CASE log = <<>>
    BY <2>1 DEF Never
  <2>2. CASE log # <<>>
    <3>1. log \in Seq(ApplicationEvent)
      BY DEF IInv, PipelineIsSound
    <3>2. Len(log) \in Published
      BY <2>2, <3>1, EmptySeq DEF Published
    <3> QED
      BY <2>2, <3>2, LoggedEvents
  <2> QED
    BY <2>1, <2>2
<1>2. gap \in Nat
  BY OnboardingAssumption
<1> QED
  BY <1>1, <1>2 DEF Later, Never

LEMMA EmitGrowsLog ==
  ASSUME IInv, NEW type, NEW a \in Applications, NEW c \in Customers, UnitEmits(type, a, c)
  PROVE  /\ log' \in Seq(ApplicationEvent)
         /\ Len(log') = Len(log) + 1 /\ Len(log') <= MaxEvents
         /\ \A e \in Published : log'[e] = log[e]
         /\ Published \subseteq Published'
         /\ \A e \in Published' : e \notin Published => audit[e] = "Absent"
         /\ UNCHANGED <<audit, running>>
<1>1. PICK gap \in Gaps :
        Emit([type |-> type, application |-> a, customer |-> c, at |-> Later(gap)])
  BY DEF UnitEmits
<1> DEFINE ev == [type |-> type, application |-> a, customer |-> c, at |-> Later(gap)]
<1>2. ev \in ApplicationEvent
  BY LaterType DEF UnitEmits, ApplicationEvent
<1>3. log \in Seq(ApplicationEvent) /\ Len(log) \in Nat
  BY DEF IInv, PipelineIsSound
<1>4. Len(log) < MaxEvents /\ log' = Append(log, ev) /\ UNCHANGED <<audit, running>>
  BY <1>1 DEF Emit
<1> HIDE DEF ev
<1>5. /\ log' \in Seq(ApplicationEvent) /\ Len(log') = Len(log) + 1
      /\ \A e \in 1..Len(log) : log'[e] = log[e]
  BY <1>2, <1>3, <1>4
<1>6. Published \subseteq Published' /\ Published' \subseteq EventIds
  BY <1>3, <1>4, <1>5, DeliveryAssumption DEF Published, EventIds
<1> QED
  BY <1>3, <1>4, <1>5, <1>6, DeliveryAssumption DEF Published, IInv, PipelineIsSound

\* An event more changes nothing for the rows and for the handlers.
LEMMA EmitKeepsIInv ==
  ASSUME IInv, NEW type, NEW a \in Applications, NEW c \in Customers, UnitEmits(type, a, c),
         decided' \in [Applications -> ApplicationStatus \cup {"None"}],
         standing' \in [Customers -> CustomerStatus \cup {"None"}],
         submission' \in [Applications -> [step : {"none", "call", "insert", "done"},
                                           status : ApplicationStatus]],
         RequestIsSound'
  PROVE  IInv'
<1>1. /\ log' \in Seq(ApplicationEvent)
      /\ Len(log') = Len(log) + 1 /\ Len(log') <= MaxEvents
      /\ \A e \in Published : log'[e] = log[e]
      /\ Published \subseteq Published'
      /\ \A e \in Published' : e \notin Published => audit[e] = "Absent"
      /\ UNCHANGED <<audit, running>>
  BY EmitGrowsLog
<1>2. UNCHANGED <<step, outcome, faults, application, customer>>
  BY DEF UnitEmits, rowVars
<1> USE DEF IInv
<1>3. TypeOK'
  BY <1>1, <1>2 DEF TypeOK, HandlersTypeOK, DeliveryTypeOK
<1>4. PipelineIsSound'
  BY <1>1 DEF PipelineIsSound
<1>5. \A w \in Workers : running[w] # NoEvent => Event(w)' = Event(w)
  BY <1>1 DEF PipelineIsSound, Event
<1>6. HandlerIsSound'
  BY <1>1, <1>2, <1>5 DEF HandlerIsSound
<1>7. \A e \in Published : Shows(e)' = Shows(e)
  BY <1>1, <1>2 DEF Shows
<1>8. \A e \in Published' : e \notin Published => \A w \in Workers : ~WillMark(w, e)'
  <2> SUFFICES ASSUME NEW e \in Published', e \notin Published, NEW w \in Workers,
                      running[w] = e
               PROVE  FALSE
    BY <1>1 DEF WillMark
  <2>1. e # NoEvent
    BY <1>1 DEF Published, NoEvent, PipelineIsSound
  <2> QED
    BY <2>1 DEF PipelineIsSound
<1>9. AppliedIsShown'
  BY <1>1, <1>2, <1>7, <1>8 DEF AppliedIsShown, WillMark
<1>10. StampIsOfEvent'
  BY <1>1, <1>2 DEF StampIsOfEvent
<1>11. CustomersAreApproved'
  BY <1>1, <1>2 DEF CustomersAreApproved
<1> QED
  BY <1>3, <1>4, <1>6, <1>9, <1>10, <1>11

LEMMA SubmitKeepsIInv ==
  ASSUME IInv, NEW a \in Applications, Submit(a)
  PROVE  IInv'
<1> USE DEF Submit
<1>1. /\ decided' \in [Applications -> ApplicationStatus \cup {"None"}]
      /\ standing' \in [Customers -> CustomerStatus \cup {"None"}]
  BY DEF IInv, TypeOK, ApplicationStatus
<1>2. submission' \in [Applications -> [step : {"none", "call", "insert", "done"},
                                        status : ApplicationStatus]]
  BY DEF IInv, TypeOK
<1>3. RequestIsSound'
  BY DEF IInv, TypeOK, RequestIsSound, UnitEmits, rowVars
<1>4. CustomerOf[a] \in Customers
  BY OnboardingAssumption
<1> QED
  BY <1>1, <1>2, <1>3, <1>4, EmitKeepsIInv

LEMMA UnitDecidesKeepsIInv ==
  ASSUME IInv, NEW a \in Applications, NEW type \in StatusEvents, UnitDecides(a, type)
  PROVE  IInv'
<1> USE DEF UnitDecides
<1>1. CustomerOf[a] \in Customers
  BY OnboardingAssumption
<1>2. decided' \in [Applications -> ApplicationStatus \cup {"None"}]
  BY StatusTables DEF IInv, TypeOK
<1>3. standing' \in [Customers -> CustomerStatus \cup {"None"}]
  BY <1>1 DEF IInv, TypeOK, CustomerStatus
<1>4. RequestIsSound'
  <2>1. decided[a] # "None"
    BY DEF Undecided
  <2>2. APPLICATION_STATUS_EVENTS[type] # "None"
    BY StatusTables DEF ApplicationStatus
  <2> QED
    BY <2>1, <2>2 DEF IInv, TypeOK, RequestIsSound, UnitEmits, rowVars
<1> QED
  BY <1>1, <1>2, <1>3, <1>4, EmitKeepsIInv DEF IInv, TypeOK

LEMMA UnitUpdatesCustomerKeepsIInv ==
  ASSUME IInv, NEW c \in Customers, NEW type \in CustomerEvents, UnitUpdatesCustomer(c, type)
  PROVE  IInv'
<1> USE DEF UnitUpdatesCustomer
<1>1. PICK a \in Applications : UnitEmits(type, a, c)
  OBVIOUS
<1>2. standing' \in [Customers -> CustomerStatus \cup {"None"}]
  BY StatusTables DEF IInv, TypeOK
<1>3. RequestIsSound'
  BY <1>1 DEF IInv, RequestIsSound, UnitEmits, rowVars
<1> QED
  BY <1>1, <1>2, <1>3, EmitKeepsIInv DEF IInv, TypeOK

-----------------------------------------------------------------------------
(* The rest of POST /applications.                                         *)

\* A fault counts up to its bound.
LEMMA FaultType ==
  ASSUME IInv, Fault PROVE faults' \in 0..MaxFaults
BY HandlersAssumption DEF IInv, TypeOK, HandlersTypeOK, Fault

\* A step of a request that writes no row.
LEMMA RequestStepKeepsIInv ==
  ASSUME IInv, UNCHANGED <<deliveryVars, step, outcome, unitVars, rowVars>>,
         faults' \in 0..MaxFaults,
         submission' \in [Applications -> [step : {"none", "call", "insert", "done"},
                                           status : ApplicationStatus]],
         RequestIsSound'
  PROVE  IInv'
<1> USE DEF IInv, deliveryVars, unitVars, rowVars
<1>1. TypeOK'
  BY DEF TypeOK, HandlersTypeOK, DeliveryTypeOK
<1>2. PipelineIsSound' /\ HandlerIsSound'
  BY DEF PipelineIsSound, HandlerIsSound, Event, Published
<1>3. AppliedIsShown' /\ StampIsOfEvent' /\ CustomersAreApproved'
  BY DEF AppliedIsShown, Shows, WillMark, StampIsOfEvent, CustomersAreApproved, Published
<1> QED
  BY <1>1, <1>2, <1>3

LEMMA UnitAnswersKeepsIInv ==
  ASSUME IInv, NEW a \in Applications, UnitAnswers(a)
  PROVE  IInv'
<1> USE DEF UnitAnswers
<1>1. decided[a] \in ApplicationStatus
  BY DEF IInv, TypeOK, RequestIsSound
<1>2. submission' \in [Applications -> [step : {"none", "call", "insert", "done"},
                                        status : ApplicationStatus]]
  BY <1>1 DEF IInv, TypeOK
<1>3. RequestIsSound'
  BY DEF IInv, TypeOK, RequestIsSound, unitVars, rowVars
<1>4. faults' \in 0..MaxFaults
  BY DEF IInv, TypeOK, HandlersTypeOK, handlerVars
<1> QED
  BY <1>2, <1>3, <1>4, RequestStepKeepsIInv DEF handlerVars

LEMMA LoseApplicationKeepsIInv ==
  ASSUME IInv, NEW a \in Applications, LoseApplication(a)
  PROVE  IInv'
<1> USE DEF LoseApplication
<1>1. submission' \in [Applications -> [step : {"none", "call", "insert", "done"},
                                        status : ApplicationStatus]]
  BY DEF IInv, TypeOK
<1>2. RequestIsSound'
  BY DEF IInv, TypeOK, RequestIsSound, unitVars, rowVars
<1> QED
  BY <1>1, <1>2, FaultType, RequestStepKeepsIInv

\* The row appears: nothing has been applied to it, and it has no stamp.
LEMMA InsertApplicationKeepsIInv ==
  ASSUME IInv, NEW a \in Applications, InsertApplication(a)
  PROVE  IInv'
<1> USE DEF IInv, InsertApplication, handlerVars, deliveryVars, unitVars
<1>1. application[a] = NoRow /\ submission[a].status \in ApplicationStatus
  BY DEF TypeOK, RequestIsSound
<1>2. /\ NewRow(submission[a].status) \in ApplicationRow
      /\ NewRow(submission[a].status).lastEventAt = Never
  BY <1>1, NewRowType
<1>3. /\ application' \in [Applications -> ApplicationRow \cup {NoRow}]
      /\ application'[a] # NoRow /\ application'[a].lastEventAt = Never
      /\ \A b \in Applications \ {a} : application'[b] = application[b]
  BY <1>2, OnboardingAssumption DEF TypeOK
<1>4. TypeOK'
  <2>1. submission' \in [Applications -> [step : {"none", "call", "insert", "done"},
                                          status : ApplicationStatus]]
    BY DEF TypeOK
  <2> QED
    BY <1>3, <2>1 DEF TypeOK, HandlersTypeOK, DeliveryTypeOK
<1>5. PipelineIsSound' /\ HandlerIsSound'
  BY DEF PipelineIsSound, HandlerIsSound, Event, Published
<1>6. RequestIsSound'
  BY <1>3 DEF RequestIsSound, TypeOK
<1>7. AppliedIsShown'
  <2>1. \A e \in Published : Shows(e) => log[e].application # a
    BY <1>1 DEF Shows
  <2>2. \A e \in Published : Shows(e) => Shows(e)'
    BY <1>3, <2>1, LoggedEvents DEF Shows
  <2> QED
    BY <2>2 DEF AppliedIsShown, WillMark, Published
<1>8. StampIsOfEvent'
  BY <1>3 DEF StampIsOfEvent, Published
<1>9. CustomersAreApproved'
  BY DEF CustomersAreApproved, Published
<1> QED
  BY <1>4, <1>5, <1>6, <1>7, <1>8, <1>9

-----------------------------------------------------------------------------
(* The frame of the handlers.                                              *)

LEMMA ReceiveKeepsIInv ==
  ASSUME IInv, NEW e \in EventIds, Receive(e),
         UNCHANGED <<unitVars, rowVars, submission>>
  PROVE  IInv'
<1> USE DEF IInv, Receive, Ingest, unitVars, rowVars
<1>1. /\ audit' \in [EventIds -> {"Absent"} \cup Retryable \cup Terminal]
      /\ \A i \in EventIds : audit'[i] = "Processed" => audit[i] = "Processed"
      /\ \A i \in EventIds \ {e} : audit'[i] = audit[i]
  BY DEF TypeOK, HandlersTypeOK, DeliveryTypeOK, Retryable
<1>2. TypeOK'
  BY <1>1 DEF TypeOK, HandlersTypeOK, DeliveryTypeOK
<1>3. PipelineIsSound' /\ HandlerIsSound' /\ RequestIsSound'
  BY <1>1 DEF PipelineIsSound, HandlerIsSound, RequestIsSound, Event, Published
<1>4. AppliedIsShown'
  BY <1>1, LoggedEvents DEF AppliedIsShown, Shows, WillMark, Published
<1>5. StampIsOfEvent' /\ CustomersAreApproved'
  BY DEF StampIsOfEvent, CustomersAreApproved, Published
<1> QED
  BY <1>2, <1>3, <1>4, <1>5

\* A step of worker w that leaves the applications alone.
QuietStep(w) ==
  /\ UNCHANGED <<log, decided, application, submission>>
  /\ \A v \in Workers \ {w} : /\ running'[v] = running[v] /\ step'[v] = step[v]
                              /\ outcome'[v] = outcome[v]

\* Such a step keeps the invariant if it does for the worker and its event.
LEMMA QuietStepKeepsIInv ==
  ASSUME IInv, NEW w \in Workers, QuietStep(w), TypeOK',
         customer' = customer \/ CustomersAreApproved',
         \A e \in EventIds : audit'[e] # "Absent" => e \in Published,
         running'[w] # NoEvent => running'[w] \in Published,
         step'[w] # "idle" => running'[w] # NoEvent,
         step'[w] = "update" => Event(w)'.type \in StatusEvents,
         step'[w] = "upsert" => Event(w)'.type = "approved",
         step'[w] = "customer" => Event(w)'.type \in CustomerEvents,
         \A e \in Published : log[e].type \in StatusEvents /\ audit'[e] = "Processed" =>
           Shows(e),
         \A e \in Published : log[e].type \in StatusEvents /\ WillMark(w, e)' => Shows(e)
  PROVE  IInv'
<1> USE DEF IInv, QuietStep
<1>1. Published' = Published
  BY DEF Published
<1>2. PipelineIsSound'
  BY <1>1 DEF PipelineIsSound
<1>3. HandlerIsSound'
  BY DEF HandlerIsSound, Event
<1>4. RequestIsSound'
  BY DEF RequestIsSound
<1>5. AppliedIsShown'
  <2>1. \A e \in Published, v \in Workers \ {w} : WillMark(v, e)' => WillMark(v, e)
    BY DEF WillMark
  <2>2. \A e \in Published : Shows(e)' = Shows(e)
    BY DEF Shows
  <2> QED
    BY <1>1, <2>1, <2>2 DEF AppliedIsShown
<1>6. StampIsOfEvent' /\ CustomersAreApproved'
  BY <1>1 DEF StampIsOfEvent, CustomersAreApproved
<1> QED
  BY <1>2, <1>3, <1>4, <1>5, <1>6

\* The types of what the frame of the handlers changes.
LEMMA FrameType ==
  ASSUME IInv
  PROVE  /\ audit \in [EventIds -> {"Absent"} \cup Retryable \cup Terminal]
         /\ running \in [Workers -> EventIds \cup {NoEvent}]
         /\ step \in [Workers -> {"update", "upsert", "customer"} \cup {"idle", "mark"}]
         /\ outcome \in [Workers -> Verdicts]
BY DEF IInv, TypeOK, HandlersTypeOK, DeliveryTypeOK

\* What was shown when the audit table has not changed.
LEMMA AuditKept ==
  ASSUME IInv, UNCHANGED audit
  PROVE  /\ \A i \in EventIds : audit'[i] # "Absent" => i \in Published
         /\ \A i \in Published :
              log[i].type \in StatusEvents /\ audit'[i] = "Processed" => Shows(i)
BY DEF IInv, PipelineIsSound, AppliedIsShown

LEMMA MarkEventKeepsIInv ==
  ASSUME IInv, NEW w \in Workers, MarkEvent(w),
         UNCHANGED <<unitVars, rowVars, submission>>
  PROVE  IInv'
<1> USE DEF MarkEvent, Mark, At, unitVars, rowVars
<1> DEFINE e == running[w]
<1>1. e \in Published /\ e \in EventIds
  BY RunningEvent
<1>2. /\ audit' \in [EventIds -> {"Absent"} \cup Retryable \cup Terminal]
      /\ audit'[e] = outcome[w]
      /\ \A i \in EventIds \ {e} : audit'[i] = audit[i]
  BY <1>1, FrameType DEF Verdicts, Retryable, Terminal
<1>3. /\ running' \in [Workers -> EventIds \cup {NoEvent}] /\ running'[w] = NoEvent
      /\ step' \in [Workers -> {"update", "upsert", "customer"} \cup {"idle", "mark"}]
      /\ step'[w] = "idle"
      /\ outcome' \in [Workers -> Verdicts]
  BY FrameType DEF Verdicts, Terminal
<1>4. QuietStep(w)
  BY FrameType DEF QuietStep
<1>5. TypeOK'
  BY <1>2, <1>3 DEF IInv, TypeOK, HandlersTypeOK, DeliveryTypeOK
<1>6. \A i \in EventIds : audit'[i] # "Absent" => i \in Published
  BY <1>1, <1>2 DEF IInv, PipelineIsSound
<1>7. \A i \in Published : log[i].type \in StatusEvents /\ audit'[i] = "Processed" => Shows(i)
  <2>1. outcome[w] = "Processed" => WillMark(w, e)
    BY DEF WillMark
  <2> QED
    BY <1>2, <2>1, LoggedEvents DEF IInv, AppliedIsShown
<1>8. \A i \in Published : ~WillMark(w, i)'
  BY <1>3 DEF WillMark
<1> QED
  BY <1>3, <1>4, <1>5, <1>6, <1>7, <1>8, QuietStepKeepsIInv

\* A handler starts; whose event goes unhandled is none of the status events.
LEMMA StartHandlerKeepsIInv ==
  ASSUME IInv, NEW w \in Workers, NEW e \in EventIds, StartHandler(w, e)
  PROVE  IInv'
<1> USE DEF StartHandler, Start, Begin, unitVars, rowVars
<1> DEFINE type == log[e].type
<1>1. e \in Published /\ e # NoEvent
  BY DEF IInv, PipelineIsSound, Retryable, EventIds, NoEvent
<1>2. /\ FirstStep(type) \in {"update", "customer", "mark"}
      /\ FirstStep(type) = "update" => type \in StatusEvents
      /\ FirstStep(type) = "customer" => type \in CustomerEvents
      /\ FirstStep(type) = "mark" => type \notin StatusEvents
  BY DEF FirstStep
<1> HIDE DEF type
<1>3. /\ running' \in [Workers -> EventIds \cup {NoEvent}] /\ running'[w] = e
      /\ step' \in [Workers -> {"update", "upsert", "customer"} \cup {"idle", "mark"}]
      /\ step'[w] = FirstStep(type)
      /\ outcome' \in [Workers -> Verdicts]
  BY <1>2, FrameType DEF Verdicts, Terminal, type
<1>4. QuietStep(w)
  BY FrameType DEF QuietStep
<1>5. TypeOK'
  BY <1>3 DEF IInv, TypeOK, HandlersTypeOK, DeliveryTypeOK
<1>6. Event(w)'.type = type
  BY <1>3 DEF Event, type
<1>7. \A i \in Published : log[i].type \in StatusEvents => ~WillMark(w, i)'
  BY <1>2, <1>3 DEF WillMark, type
<1> QED
  BY <1>1, <1>2, <1>3, <1>4, <1>5, <1>6, <1>7, AuditKept, QuietStepKeepsIInv

\* A worker that throws is to mark its event Failed; one that dies is idle.
LEMMA BreakKeepsIInv ==
  ASSUME IInv, NEW w \in Workers, Throw(w) \/ Die(w),
         UNCHANGED <<unitVars, rowVars, submission>>
  PROVE  IInv'
<1> USE DEF Throw, Die, Abandon, deliveryVars, unitVars, rowVars
<1>1. /\ UNCHANGED <<log, audit>>
      /\ running' \in [Workers -> EventIds \cup {NoEvent}]
      /\ running'[w] \in {running[w], NoEvent} /\ running[w] # NoEvent
      /\ step' \in [Workers -> {"update", "upsert", "customer"} \cup {"idle", "mark"}]
      /\ outcome' \in [Workers -> Verdicts]
      /\ \/ running'[w] # NoEvent /\ step'[w] = "mark" /\ outcome'[w] = "Failed"
         \/ running'[w] = NoEvent /\ step'[w] = "idle"
  BY FrameType DEF Verdicts, Terminal
<1>2. QuietStep(w)
  BY <1>1, FrameType DEF QuietStep
<1>3. TypeOK'
  BY <1>1, FaultType DEF IInv, TypeOK, HandlersTypeOK, DeliveryTypeOK
<1>4. running[w] \in Published
  BY <1>1 DEF IInv, PipelineIsSound
<1>5. \A i \in Published : ~WillMark(w, i)'
  BY <1>1 DEF WillMark
<1> QED
  BY <1>1, <1>2, <1>3, <1>4, <1>5, AuditKept, QuietStepKeepsIInv

-----------------------------------------------------------------------------
(* The handlers.                                                           *)

\* What the variables of the handlers become with a step of w that goes on, to
\* another statement or to its verdict.
LEMMA HandlingType ==
  ASSUME IInv, NEW w \in Workers, NEW s \in {"update", "upsert", "customer"}, At(w, s),
         NEW next \in {"upsert", "mark"}, NEW verdict \in Verdicts,
         GoOn(w, next) \/ (next = "mark" /\ Return(w, verdict))
  PROVE  /\ HandlersTypeOK({"update", "upsert", "customer"})'
         /\ UNCHANGED <<log, audit, running>>
         /\ step'[w] = next
         /\ Return(w, verdict) => outcome'[w] = verdict
         /\ \A v \in Workers \ {w} : step'[v] = step[v] /\ outcome'[v] = outcome[v]
<1> USE DEF GoOn, Return, deliveryVars
<1>1. HandlersTypeOK({"update", "upsert", "customer"})
  BY DEF IInv, TypeOK
<1> QED
  BY <1>1 DEF HandlersTypeOK, DeliveryTypeOK

\* The event is too old, or there is no row yet: nothing is written.
LEMMA SkipKeepsIInv ==
  ASSUME IInv, NEW w \in Workers, At(w, "update"), Return(w, "Skipped"),
         UNCHANGED <<unitVars, rowVars, submission>>
  PROVE  IInv'
<1> USE DEF unitVars, rowVars
<1>1. running[w] \in Published /\ running[w] # NoEvent
  BY RunningEvent DEF At
<1>2. /\ HandlersTypeOK({"update", "upsert", "customer"})' /\ UNCHANGED <<log, audit, running>>
      /\ step'[w] = "mark" /\ outcome'[w] = "Skipped"
      /\ \A v \in Workers \ {w} : step'[v] = step[v] /\ outcome'[v] = outcome[v]
  BY HandlingType DEF Verdicts, Terminal
<1>3. TypeOK'
  BY <1>2 DEF IInv, TypeOK
<1>4. QuietStep(w)
  BY <1>2 DEF QuietStep
<1>5. \A i \in Published : ~WillMark(w, i)'
  BY <1>2 DEF WillMark
<1> QED
  BY <1>1, <1>2, <1>3, <1>4, <1>5, AuditKept, QuietStepKeepsIInv

\* The event is newer than the row: the stamp grows, so that what was shown is
\* shown still.
LEMMA ApplyKeepsIInv ==
  ASSUME IInv, NEW w \in Workers, At(w, "update"),
         (MakesCustomer(Event(w).type) /\ GoOn(w, "upsert")) \/ Return(w, "Processed"),
         application[Event(w).application] # NoRow,
         IsNewer(application[Event(w).application], Event(w)),
         application' = [application EXCEPT ![Event(w).application] =
           [status |-> APPLICATION_STATUS_EVENTS[Event(w).type], lastEventAt |-> Event(w).at]],
         UNCHANGED <<unitVars, customer, submission>>
  PROVE  IInv'
<1> USE DEF unitVars
<1> DEFINE e == running[w]
           a == Event(w).application
           row == [status |-> APPLICATION_STATUS_EVENTS[Event(w).type],
                   lastEventAt |-> Event(w).at]
<1>1. /\ e \in Published /\ e # NoEvent /\ Event(w) = log[e] /\ a \in Applications
      /\ log[e].at \in Nat /\ log[e].at # Never
  BY RunningEvent DEF At
<1>2. log[e].type \in StatusEvents
  BY <1>1 DEF IInv, HandlerIsSound, At
<1>3. row \in ApplicationRow
  BY <1>1, <1>2, StatusTables DEF ApplicationRow
<1>4. /\ application \in [Applications -> ApplicationRow \cup {NoRow}]
      /\ application[a] \in ApplicationRow
  BY <1>1 DEF IInv, TypeOK
<1>5. /\ application' \in [Applications -> ApplicationRow \cup {NoRow}]
      /\ application'[a] = row /\ application'[a] # NoRow
      /\ application'[a].lastEventAt = log[e].at
      /\ application'[a].status = APPLICATION_STATUS_EVENTS[log[e].type]
      /\ \A b \in Applications \ {a} : application'[b] = application[b]
  BY <1>1, <1>3, <1>4, OnboardingAssumption
<1>6. application[a].lastEventAt \in Nat /\ application[a].lastEventAt <= log[e].at
  BY <1>1, <1>4 DEF IsNewer, ApplicationRow, Never
<1> HIDE DEF row
<1>7. /\ HandlersTypeOK({"update", "upsert", "customer"})' /\ UNCHANGED <<log, audit, running>>
      /\ step'[w] = "mark" \/ (step'[w] = "upsert" /\ MakesCustomer(Event(w).type))
      /\ \A v \in Workers \ {w} : step'[v] = step[v] /\ outcome'[v] = outcome[v]
  BY HandlingType DEF Verdicts, Terminal
<1>8. Published' = Published
  BY <1>7 DEF Published
<1>9. TypeOK'
  BY <1>5, <1>7 DEF IInv, TypeOK
<1>10. PipelineIsSound'
  BY <1>7, <1>8 DEF IInv, PipelineIsSound
<1>11. HandlerIsSound'
  BY <1>1, <1>7 DEF IInv, HandlerIsSound, Event, MakesCustomer
<1>12. RequestIsSound'
  BY <1>4, <1>5, OnboardingAssumption DEF IInv, RequestIsSound
<1>13. AppliedIsShown'
  <2>1. \A i \in Published : Shows(i) => Shows(i)'
    <3> SUFFICES ASSUME NEW i \in Published, Shows(i) PROVE Shows(i)'
      OBVIOUS
    <3>1. log[i].application \in Applications /\ log[i].at \in Nat /\ log'[i] = log[i]
      BY <1>7, LoggedEvents
    <3>2. CASE log[i].application = a
      <4>1. log[i].at <= application[a].lastEventAt
        BY <3>2 DEF Shows
      <4>2. log[i].at <= log[e].at
        BY <1>1, <1>6, <3>1, <4>1
      <4> QED
        BY <1>5, <3>1, <3>2, <4>2 DEF Shows
    <3>3. CASE log[i].application # a
      BY <1>5, <3>1, <3>3 DEF Shows
    <3> QED
      BY <3>2, <3>3
  <2>2. Shows(e)'
    BY <1>1, <1>5, <1>7 DEF Shows
  <2>3. \A i \in Published, v \in Workers : WillMark(v, i)' => WillMark(v, i) \/ i = e
    BY <1>7 DEF WillMark
  <2> QED
    BY <1>7, <1>8, <2>1, <2>2, <2>3 DEF IInv, AppliedIsShown
<1>14. StampIsOfEvent'
  BY <1>1, <1>2, <1>5, <1>7, <1>8 DEF IInv, StampIsOfEvent
<1>15. CustomersAreApproved'
  BY <1>7, <1>8 DEF IInv, CustomersAreApproved
<1> QED
  BY <1>9, <1>10, <1>11, <1>12, <1>13, <1>14, <1>15 DEF IInv

LEMMA UpdateApplicationKeepsIInv ==
  ASSUME IInv, NEW w \in Workers, UpdateApplication(w)
  PROVE  IInv'
<1> DEFINE row == application[Event(w).application]
<1>1. CASE row # NoRow /\ IsNewer(row, Event(w))
  BY <1>1, ApplyKeepsIInv DEF UpdateApplication
<1>2. CASE ~(row # NoRow /\ IsNewer(row, Event(w)))
  BY <1>2, SkipKeepsIInv DEF UpdateApplication, rowVars
<1> QED
  BY <1>1, <1>2

\* A step that writes a customer's row and is to mark its event Processed.
LEMMA CustomerStepKeepsIInv ==
  ASSUME IInv, NEW w \in Workers, At(w, "upsert") \/ At(w, "customer"),
         Return(w, "Processed"), UNCHANGED <<unitVars, application, submission>>,
         customer' \in [Customers -> CustomerRow \cup {NoRow}],
         CustomersAreApproved'
  PROVE  IInv'
<1> USE DEF unitVars
<1>1. running[w] \in Published /\ running[w] # NoEvent /\ Event(w) = log[running[w]]
  BY RunningEvent DEF At
<1>2. /\ HandlersTypeOK({"update", "upsert", "customer"})' /\ UNCHANGED <<log, audit, running>>
      /\ step'[w] = "mark" /\ outcome'[w] = "Processed"
      /\ \A v \in Workers \ {w} : step'[v] = step[v] /\ outcome'[v] = outcome[v]
  BY HandlingType DEF Verdicts, Terminal
<1>3. TypeOK'
  BY <1>2 DEF IInv, TypeOK
<1>4. QuietStep(w)
  BY <1>2 DEF QuietStep
<1>5. \A i \in Published : log[i].type \in StatusEvents /\ WillMark(w, i)' => WillMark(w, i)
  BY <1>1, <1>2, StatusTables DEF WillMark, At, IInv, HandlerIsSound
<1>6. \A i \in Published : log[i].type \in StatusEvents /\ WillMark(w, i)' => Shows(i)
  BY <1>5 DEF IInv, AppliedIsShown
<1> QED
  BY <1>1, <1>2, <1>3, <1>4, <1>6, AuditKept, QuietStepKeepsIInv

\* The row of a customer is written: its stamp is the event's.
LEMMA CustomerWritten ==
  ASSUME IInv, NEW c \in Customers, NEW status \in CustomerStatus, NEW at \in Nat,
         customer' = [customer EXCEPT ![c] = [status |-> status, lastEventAt |-> at]]
  PROVE  /\ customer' \in [Customers -> CustomerRow \cup {NoRow}]
         /\ \A d \in Customers \ {c} : customer'[d] = customer[d]
<1>1. [status |-> status, lastEventAt |-> at] \in CustomerRow
  BY DEF CustomerRow
<1> QED
  BY <1>1 DEF IInv, TypeOK

\* The customer was approved by the event that is being handled.
LEMMA UpsertCustomerKeepsIInv ==
  ASSUME IInv, NEW w \in Workers, UpsertCustomer(w)
  PROVE  IInv'
<1> USE DEF UpsertCustomer
<1> DEFINE c == Event(w).customer
           status == IF customer[c] = NoRow THEN "Active" ELSE customer[c].status
<1>1. /\ running[w] \in Published /\ Event(w) = log[running[w]]
      /\ c \in Customers /\ Event(w).at \in Nat
  BY RunningEvent DEF At
<1>2. status \in CustomerStatus
  BY <1>1 DEF IInv, TypeOK, CustomerRow, CustomerStatus
<1>3. /\ customer' \in [Customers -> CustomerRow \cup {NoRow}]
      /\ \A d \in Customers \ {c} : customer'[d] = customer[d]
  BY <1>1, <1>2, CustomerWritten
<1>4. log[running[w]].type = "approved" /\ log[running[w]].customer = c
  BY <1>1 DEF IInv, HandlerIsSound, At
<1>5. UNCHANGED log
  BY DEF Return, deliveryVars
<1>6. CustomersAreApproved'
  BY <1>1, <1>3, <1>4, <1>5 DEF IInv, CustomersAreApproved, Published
<1> QED
  BY <1>3, <1>6, CustomerStepKeepsIInv

\* Only a customer that has a row is written.
LEMMA UpdateCustomerKeepsIInv ==
  ASSUME IInv, NEW w \in Workers, UpdateCustomer(w)
  PROVE  IInv'
<1> USE DEF UpdateCustomer
<1> DEFINE c == Event(w).customer
<1>1. c \in Customers /\ Event(w).at \in Nat
  BY RunningEvent DEF At
<1>2. CUSTOMER_STATUS_EVENTS[Event(w).type] \in CustomerStatus
  BY StatusTables DEF IInv, HandlerIsSound, At
<1>3. /\ customer' \in [Customers -> CustomerRow \cup {NoRow}]
      /\ \A d \in Customers : customer'[d] # NoRow => customer[d] # NoRow
  BY <1>1, <1>2, CustomerWritten DEF IInv, TypeOK
<1>4. UNCHANGED log
  BY DEF Return, deliveryVars
<1>5. CustomersAreApproved'
  BY <1>3, <1>4 DEF IInv, CustomersAreApproved, Published
<1> QED
  BY <1>3, <1>5, CustomerStepKeepsIInv

-----------------------------------------------------------------------------
(* The theorems.                                                           *)

\* Nothing changes.
LEMMA StutterKeepsIInv == ASSUME IInv, UNCHANGED vars PROVE IInv'
<1>1. UNCHANGED <<deliveryVars, step, outcome, unitVars, rowVars, submission, faults>>
  BY DEF vars, handlerVars
<1>2. RequestIsSound'
  BY <1>1 DEF IInv, RequestIsSound, unitVars, rowVars
<1> QED
  BY <1>1, <1>2, RequestStepKeepsIInv DEF IInv, TypeOK, HandlersTypeOK

LEMMA NextIInv == IInv /\ [Next]_vars => IInv'
<1> SUFFICES ASSUME IInv, [Next]_vars PROVE IInv'
  OBVIOUS
<1>1. CASE UnitStep
  BY <1>1, UnitDecidesKeepsIInv, UnitUpdatesCustomerKeepsIInv DEF UnitStep
<1>2. CASE ApiStep
  BY <1>2, SubmitKeepsIInv, UnitAnswersKeepsIInv, InsertApplicationKeepsIInv,
     LoseApplicationKeepsIInv DEF ApiStep
<1>3. CASE Deliver
  <2>1. CASE Frame
    BY <2>1, ReceiveKeepsIInv, MarkEventKeepsIInv DEF Frame
  <2> QED
    BY <1>3, <2>1, StartHandlerKeepsIInv, UpdateApplicationKeepsIInv, UpsertCustomerKeepsIInv,
       UpdateCustomerKeepsIInv DEF Deliver
<1>4. CASE Break
  BY <1>4, BreakKeepsIInv DEF Break
<1>5. CASE UNCHANGED vars
  BY <1>5, StutterKeepsIInv
<1> QED
  BY <1>1, <1>2, <1>3, <1>4, <1>5 DEF Next, Rest

\* The strengthened invariant holds in every state of every execution.
THEOREM Invariance == Spec => []IInv
<1> QED
  BY InitIInv, NextIInv, PTL DEF Spec

\* Every variable keeps its type, for any applications, customers and events.
THEOREM TypeCorrect == Spec => []TypeOK
<1>1. IInv => TypeOK
  BY DEF IInv
<1> QED
  BY <1>1, Invariance, PTL

\* A row shows the newest decision that was applied to it, in whatever order they
\* are handled, and however many workers fail half way, with the customer of an
\* approval not yet made.
THEOREM NewestStands == Spec => []NewestDecisionStands
<1>1. IInv => NewestDecisionStands
  <2> SUFFICES ASSUME IInv, NEW a \in Applications, application[a] # NoRow
               PROVE  LET row == application[a]
                          events == {e \in EventsOf(a) : log[e].type \in StatusEvents}
                      IN /\ row.lastEventAt # Never => \E e \in events :
                              /\ log[e].at = row.lastEventAt
                              /\ APPLICATION_STATUS_EVENTS[log[e].type] = row.status
                         /\ \A e \in events : audit[e] = "Processed" =>
                              log[e].at <= row.lastEventAt
    BY DEF NewestDecisionStands
  <2>1. \A e \in EventsOf(a) : e \in Published /\ log[e].application = a
    BY DEF EventsOf
  <2>2. application[a].lastEventAt # Never =>
          \E e \in EventsOf(a) : /\ log[e].type \in StatusEvents
                                 /\ log[e].at = application[a].lastEventAt
                                 /\ APPLICATION_STATUS_EVENTS[log[e].type] = application[a].status
    BY DEF IInv, StampIsOfEvent, EventsOf
  <2>3. \A e \in EventsOf(a) : log[e].type \in StatusEvents /\ audit[e] = "Processed" =>
          log[e].at <= application[a].lastEventAt
    BY <2>1 DEF IInv, AppliedIsShown, Shows
  <2> QED
    BY <2>2, <2>3
<1> QED
  BY <1>1, Invariance, PTL

\* Nobody becomes a customer without an approval that Unit has published, not even
\* by a customer event that comes first.
THEOREM NobodyUnapproved == Spec => []CustomersAreApproved
<1>1. IInv => CustomersAreApproved
  BY DEF IInv
<1> QED
  BY <1>1, Invariance, PTL

-----------------------------------------------------------------------------
(* When a status is right.  SInv relates the rows to what Unit knows: the  *)
(* last status event of an application, or of a customer, has the status   *)
(* at Unit, and an event that came to nothing was older than the row, or   *)
(* had no row to go to, or found a stamp that an approval had moved.       *)

StatusEventsOf(a) == {e \in EventsOf(a) : log[e].type \in StatusEvents}
CustomerEventsOf(c) == {e \in Published : log[e].customer = c /\ log[e].type \in CustomerEvents}
ApprovalsOf(c) == {e \in Published : log[e].customer = c /\ log[e].type = "approved"}

\* Events are published in the order of their times.
LogIsOrdered ==
  \A i, j \in Published : i < j =>
    log[i].at <= log[j].at /\ (0 \notin Gaps => log[i].at < log[j].at)

\* Unit's status of an application is that of its last status event ...
DecidedFollowsLog ==
  \A a \in Applications :
    /\ StatusEventsOf(a) = {} => decided[a] \in {"None", "PendingReview"}
    /\ submission[a].step = "none" => decided[a] = "None"
    /\ decided[a] = "None" => StatusEventsOf(a) = {}
    /\ \A e \in StatusEventsOf(a) : (\A f \in StatusEventsOf(a) : f <= e) =>
         decided[a] = APPLICATION_STATUS_EVENTS[log[e].type]

\* ... and of a customer that of its last customer event.
StandingFollowsLog ==
  \A c \in Customers :
    /\ CustomerEventsOf(c) = {} => standing[c] \in {"None", "Active"}
    /\ standing[c] = "None" =>
         CustomerEventsOf(c) = {} /\ ApprovalsOf(c) = {} /\ c \notin Onboarded
    /\ \A e \in CustomerEventsOf(c) : (\A f \in CustomerEventsOf(c) : f <= e) =>
         standing[c] = CUSTOMER_STATUS_EVENTS[log[e].type]

\* Until there is an event that says otherwise, a row has the status of its start.
FreshIsPending ==
  \A a \in Applications : StatusEventsOf(a) = {} =>
    /\ submission[a].step = "insert" => submission[a].status = "PendingReview"
    /\ application[a] # NoRow => application[a].status = "PendingReview"
FreshIsActive ==
  \A c \in Customers : CustomerEventsOf(c) = {} /\ customer[c] # NoRow =>
    customer[c].status = "Active"

\* The rows of the start are never away.
SubmittedRowsStay == \A a \in Submitted : application[a] # NoRow
OnboardedRowsStay == \A c \in Onboarded : customer[c] # NoRow

\* A worker is about to mark e with this verdict.
WillSay(w, e, verdict) == running[w] = e /\ step[w] = "mark" /\ outcome[w] = verdict

\* Of an application with a row from the start, an event is only skipped if the
\* row is as new.
SkippedIsShown ==
  \A e \in Published : log[e].type \in StatusEvents /\ log[e].application \in Submitted =>
    /\ audit[e] = "Skipped" => Shows(e)
    /\ \A w \in Workers : WillSay(w, e, "Skipped") => Shows(e)

\* The row of e's customer is as new as e.
CustomerShows(e) ==
  /\ customer[log[e].customer] # NoRow
  /\ log[e].at <= customer[log[e].customer].lastEventAt

\* So it is once e is handled, for a customer that is here from the start and
\* whom Unit does not approve again.
HandledIsShown ==
  \A e \in Published :
    /\ log[e].type \in CustomerEvents /\ log[e].customer \in Onboarded
    /\ ApprovalsOf(log[e].customer) = {}
    => /\ audit[e] = "Processed" => CustomerShows(e)
       /\ \A w \in Workers : WillSay(w, e, "Processed") => CustomerShows(e)

\* No customer event is ever Skipped.
NoCustomerSkipped ==
  \A e \in Published : log[e].type \in CustomerEvents =>
    audit[e] # "Skipped" /\ \A w \in Workers : ~WillSay(w, e, "Skipped")

\* The stamp of a customer is that of an approval, or of an event of its status.
CustomerStampIsOfEvent ==
  \A c \in Customers : customer[c] # NoRow /\ customer[c].lastEventAt # Never =>
    \/ \E e \in ApprovalsOf(c) : log[e].at = customer[c].lastEventAt
    \/ \E e \in CustomerEventsOf(c) :
         /\ log[e].at = customer[c].lastEventAt
         /\ CUSTOMER_STATUS_EVENTS[log[e].type] = customer[c].status

DecisionInv ==
  /\ LogIsOrdered
  /\ DecidedFollowsLog
  /\ FreshIsPending
  /\ SubmittedRowsStay
  /\ SkippedIsShown

StandingInv ==
  /\ StandingFollowsLog
  /\ FreshIsActive
  /\ OnboardedRowsStay
  /\ HandledIsShown
  /\ NoCustomerSkipped
  /\ CustomerStampIsOfEvent

SInv == DecisionInv /\ StandingInv

\* Two events of a kind are of one millisecond, which is the stamp of the row.
Tied(events, row) ==
  \E e, f \in events : e # f /\ log[e].at = log[f].at /\ log[e].at = row.lastEventAt

\* A settled application has Unit's status, or the reason why it has not.
DecisionIsRight ==
  \A a \in Applications : Settled(a) /\ application[a] # NoRow =>
    \/ application[a].status = decided[a]
    \/ CameTooEarly(a)
    \/ Tied(StatusEventsOf(a), application[a])

\* So has a customer of whom all events are dealt with.
StandingIsRight ==
  \A c \in Customers : Concluded(CustomerEventsOf(c)) /\ customer[c] # NoRow =>
    \/ customer[c].status = standing[c]
    \/ Overlooked(c)
    \/ Tied(CustomerEventsOf(c), customer[c])

-----------------------------------------------------------------------------
(* Its proof: the log.                                                     *)

\* An event more: it is the last, and not older than the others.
LEMMA EmittedEvent ==
  ASSUME IInv, NEW type, NEW a \in Applications, NEW c \in Customers, UnitEmits(type, a, c)
  PROVE  /\ Len(log) \in Nat /\ Len(log) + 1 \notin Published
         /\ Published' = Published \cup {Len(log) + 1}
         /\ \A i \in Published : i <= Len(log) + 1 /\ i < Len(log) + 1 /\ log'[i] = log[i]
         /\ log'[Len(log) + 1].type = type /\ log'[Len(log) + 1].application = a
         /\ log'[Len(log) + 1].customer = c
         /\ \A i \in Published : \E gap \in Gaps :
              /\ log'[Len(log) + 1].at = Later(gap)
              /\ LogIsOrdered => log[i].at <= Later(gap) /\ (gap # 0 => log[i].at < Later(gap))
<1>1. PICK gap \in Gaps :
        Emit([type |-> type, application |-> a, customer |-> c, at |-> Later(gap)])
  BY DEF UnitEmits
<1> DEFINE ev == [type |-> type, application |-> a, customer |-> c, at |-> Later(gap)]
<1>2. /\ ev \in ApplicationEvent /\ ev.type = type /\ ev.application = a /\ ev.customer = c
      /\ ev.at = Later(gap)
  BY LaterType DEF UnitEmits, ApplicationEvent
<1>3. log \in Seq(ApplicationEvent) /\ Len(log) \in Nat /\ log' = Append(log, ev)
  BY <1>1 DEF IInv, PipelineIsSound, Emit
<1> HIDE DEF ev
<1>4. /\ Len(log') = Len(log) + 1 /\ log'[Len(log) + 1] = ev
      /\ \A i \in 1..Len(log) : log'[i] = log[i]
  BY <1>2, <1>3
<1>5. ASSUME NEW i \in Published, LogIsOrdered
      PROVE  log[i].at <= Later(gap) /\ (gap # 0 => log[i].at < Later(gap))
  <2>1. i \in 1..Len(log) /\ Len(log) \in Published /\ i <= Len(log)
    BY <1>3, <1>5 DEF Published
  <2>2. log[i].at \in Nat /\ log[Len(log)].at \in Nat /\ log[Len(log)].at # Never
    BY <2>1, LoggedEvents
  <2>3. log[i].at <= log[Len(log)].at
    <3>1. CASE i = Len(log)
      BY <2>2, <3>1
    <3>2. CASE i < Len(log)
      BY <2>1, <3>2, <1>5 DEF LogIsOrdered
    <3> QED
      BY <1>3, <2>1, <3>1, <3>2
  <2>4. gap \in Nat
    BY OnboardingAssumption
  <2>5. log # <<>>
    BY <1>3, <2>1
  <2>6. Later(gap) = log[Len(log)].at + gap
    BY <2>2, <2>4, <2>5 DEF Later, Never
  <2> QED
    BY <2>2, <2>3, <2>4, <2>6
<1> QED
  BY <1>2, <1>3, <1>4, <1>5 DEF Published

LEMMA EmitKeepsOrder ==
  ASSUME IInv, LogIsOrdered, NEW type, NEW a \in Applications, NEW c \in Customers,
         UnitEmits(type, a, c)
  PROVE  LogIsOrdered'
<1> DEFINE n == Len(log) + 1
<1>1. /\ Published' = Published \cup {n} /\ n \notin Published /\ Len(log) \in Nat
      /\ \A i \in Published : i < n /\ log'[i] = log[i]
  BY EmittedEvent
<1>2. ASSUME NEW i \in Published
      PROVE  log'[i].at <= log'[n].at /\ (0 \notin Gaps => log'[i].at < log'[n].at)
  BY <1>1, <1>2, EmittedEvent
<1>3. SUFFICES ASSUME NEW i \in Published', NEW j \in Published', i < j
      PROVE  log'[i].at <= log'[j].at /\ (0 \notin Gaps => log'[i].at < log'[j].at)
  BY DEF LogIsOrdered
<1>4. i \in Nat /\ j \in Nat
  BY DEF Published
<1>5. i \in Published
  <2>1. CASE i = n
    <3>1. j < n \/ j = n
      BY <1>1, <1>3
    <3> QED
      BY <1>1, <1>3, <1>4, <2>1, <3>1
  <2> QED
    BY <1>1, <1>3, <2>1
<1> HIDE DEF n
<1>6. CASE j = n
  BY <1>2, <1>5, <1>6
<1>7. CASE j # n
  BY <1>1, <1>3, <1>5, <1>7 DEF LogIsOrdered
<1> QED
  BY <1>6, <1>7

\* What the events of an application and of a customer become.
LEMMA EmittedDecisions ==
  ASSUME IInv, NEW type, NEW a \in Applications, NEW c \in Customers, UnitEmits(type, a, c),
         NEW b \in Applications
  PROVE  /\ StatusEventsOf(b) \subseteq StatusEventsOf(b)'
         /\ b # a \/ type \notin StatusEvents => StatusEventsOf(b)' = StatusEventsOf(b)
         /\ b = a /\ type \in StatusEvents =>
              StatusEventsOf(b)' = StatusEventsOf(b) \cup {Len(log) + 1}
<1>1. /\ Published' = Published \cup {Len(log) + 1} /\ Len(log) + 1 \notin Published
      /\ \A i \in Published : log'[i] = log[i]
      /\ log'[Len(log) + 1].type = type /\ log'[Len(log) + 1].application = a
  BY EmittedEvent
<1> QED
  BY <1>1 DEF EventsOf, StatusEventsOf

LEMMA EmittedStandings ==
  ASSUME IInv, NEW type, NEW a \in Applications, NEW c \in Customers, UnitEmits(type, a, c),
         NEW d \in Customers
  PROVE  /\ CustomerEventsOf(d) \subseteq CustomerEventsOf(d)'
         /\ ApprovalsOf(d) \subseteq ApprovalsOf(d)'
         /\ d # c \/ type \notin CustomerEvents => CustomerEventsOf(d)' = CustomerEventsOf(d)
         /\ d # c \/ type # "approved" => ApprovalsOf(d)' = ApprovalsOf(d)
         /\ d = c /\ type \in CustomerEvents =>
              CustomerEventsOf(d)' = CustomerEventsOf(d) \cup {Len(log) + 1}
<1>1. /\ Published' = Published \cup {Len(log) + 1} /\ Len(log) + 1 \notin Published
      /\ \A i \in Published : log'[i] = log[i]
      /\ log'[Len(log) + 1].type = type /\ log'[Len(log) + 1].customer = c
  BY EmittedEvent
<1> QED
  BY <1>1 DEF CustomerEventsOf, ApprovalsOf

\* Of the events before n, and n, n is the last.
LEMMA LastOfEvents ==
  ASSUME NEW n \in Nat, NEW S, \A i \in S : i \in Nat /\ i < n,
         NEW e \in S \cup {n}, \A f \in S \cup {n} : f <= e
  PROVE  e = n
<1>1. n <= e
  OBVIOUS
<1>2. CASE e \in S
  <2>1. e \in Nat /\ e < n
    BY <1>2
  <2> QED
    BY <1>1, <2>1
<1> QED
  BY <1>2

-----------------------------------------------------------------------------
(* The rows.                                                               *)

\* The stamps of the applications only grow.
RowsGrow ==
  \A a \in Applications : application[a] # NoRow =>
    application'[a] # NoRow /\ application[a].lastEventAt <= application'[a].lastEventAt

LEMMA RowStamp ==
  ASSUME IInv, NEW a \in Applications, application[a] # NoRow
  PROVE  application[a] \in ApplicationRow /\ application[a].lastEventAt \in Nat
BY DEF IInv, TypeOK, ApplicationRow

LEMMA CustomerStamp ==
  ASSUME IInv, NEW c \in Customers, customer[c] # NoRow
  PROVE  customer[c] \in CustomerRow /\ customer[c].lastEventAt \in Nat
BY DEF IInv, TypeOK, CustomerRow

LEMMA RowsAreKept == ASSUME IInv, UNCHANGED application PROVE RowsGrow
BY RowStamp DEF RowsGrow

\* What is shown stays shown.
LEMMA ShownStays ==
  ASSUME IInv, IInv', RowsGrow, NEW e \in Published, log'[e] = log[e], Shows(e)
  PROVE  Shows(e)'
<1>1. log[e].application \in Applications /\ log[e].at \in Nat
  BY LoggedEvents
<1>2. application[log[e].application].lastEventAt \in Nat
  BY <1>1, RowStamp DEF Shows
<1>3. /\ application'[log[e].application].lastEventAt \in Nat
      /\ application'[log[e].application] # NoRow
  BY <1>1, RowStamp DEF Shows, RowsGrow, IInv, TypeOK, ApplicationRow
<1> QED
  BY <1>1, <1>2, <1>3 DEF Shows, RowsGrow

\* A customer's row stays; its stamp only shrinks with an approval.
CustomersGrow ==
  \A c \in Customers : customer[c] # NoRow =>
    /\ customer'[c] # NoRow
    /\ ApprovalsOf(c) = {} => customer[c].lastEventAt <= customer'[c].lastEventAt

LEMMA CustomersAreKept == ASSUME IInv, UNCHANGED customer PROVE CustomersGrow
BY CustomerStamp DEF CustomersGrow

LEMMA CustomerShownStays ==
  ASSUME IInv, IInv', CustomersGrow, NEW e \in Published, log'[e] = log[e],
         ApprovalsOf(log[e].customer) = {}, CustomerShows(e)
  PROVE  CustomerShows(e)'
<1>1. log[e].customer \in Customers /\ log[e].at \in Nat
  BY LoggedEvents
<1>2. customer[log[e].customer].lastEventAt \in Nat
  BY <1>1, CustomerStamp DEF CustomerShows
<1>3. customer'[log[e].customer].lastEventAt \in Nat /\ customer'[log[e].customer] # NoRow
  BY <1>1, CustomerStamp DEF CustomerShows, CustomersGrow, IInv, TypeOK, CustomerRow
<1> QED
  BY <1>1, <1>2, <1>3 DEF CustomerShows, CustomersGrow

-----------------------------------------------------------------------------
(* Steps of Unit.                                                          *)

\* Unit publishes an event: none of the rows is touched, nobody handles it yet.
LEMMA EmitKeepsDecisionInv ==
  ASSUME IInv, IInv', DecisionInv, NEW type, NEW a \in Applications, NEW c \in Customers,
         UnitEmits(type, a, c), DecidedFollowsLog',
         \A b \in Applications :
           submission'[b].step = "insert" => submission'[b] = submission[b]
  PROVE  DecisionInv'
<1>1. /\ Published' = Published \cup {Len(log) + 1} /\ Len(log) + 1 \notin Published
      /\ \A i \in Published : log'[i] = log[i]
  BY EmittedEvent
<1>2. UNCHANGED <<step, outcome, application, audit, running>>
  BY EmitGrowsLog DEF UnitEmits, rowVars
<1>3. LogIsOrdered'
  BY EmitKeepsOrder DEF DecisionInv
<1>4. FreshIsPending'
  <2>1. \A b \in Applications : StatusEventsOf(b)' = {} => StatusEventsOf(b) = {}
    BY EmittedDecisions
  <2> QED
    BY <1>2, <2>1 DEF DecisionInv, FreshIsPending
<1>5. SubmittedRowsStay'
  BY <1>2 DEF DecisionInv, SubmittedRowsStay
<1>6. SkippedIsShown'
  <2>1. \A e \in Published : Shows(e) => Shows(e)'
    BY <1>1, <1>2, RowsAreKept, ShownStays
  <2>2. audit'[Len(log) + 1] # "Skipped"
    BY <1>1, EmitGrowsLog
  <2>3. \A w \in Workers : running'[w] # Len(log) + 1
    BY <1>1, <1>2, EmittedEvent DEF IInv, PipelineIsSound, NoEvent
  <2> QED
    BY <1>1, <1>2, <2>1, <2>2, <2>3 DEF DecisionInv, SkippedIsShown, WillSay
<1> QED
  BY <1>3, <1>4, <1>5, <1>6 DEF DecisionInv

LEMMA EmitKeepsStandingInv ==
  ASSUME IInv, IInv', StandingInv, NEW type, NEW a \in Applications, NEW c \in Customers,
         UnitEmits(type, a, c), StandingFollowsLog'
  PROVE  StandingInv'
<1>1. /\ Published' = Published \cup {Len(log) + 1} /\ Len(log) + 1 \notin Published
      /\ \A i \in Published : log'[i] = log[i]
  BY EmittedEvent
<1>2. UNCHANGED <<step, outcome, customer, audit, running>>
  BY EmitGrowsLog DEF UnitEmits, rowVars
<1>3. \A d \in Customers : /\ CustomerEventsOf(d) \subseteq CustomerEventsOf(d)'
                           /\ ApprovalsOf(d) \subseteq ApprovalsOf(d)'
  BY EmittedStandings
<1>4. FreshIsActive' /\ OnboardedRowsStay'
  BY <1>2, <1>3 DEF StandingInv, FreshIsActive, OnboardedRowsStay
<1>5. /\ audit'[Len(log) + 1] = "Absent"
      /\ \A w \in Workers : running'[w] # Len(log) + 1
  <2>1. audit'[Len(log) + 1] = "Absent" /\ Len(log) \in Nat
    BY <1>1, <1>2, EmittedEvent, EmitGrowsLog
  <2>2. \A w \in Workers : running[w] # Len(log) + 1
    BY <1>1, <2>1 DEF IInv, PipelineIsSound, NoEvent
  <2> QED
    BY <1>2, <2>1, <2>2
<1>6. HandledIsShown'
  <2>1. \A e \in Published : CustomerShows(e)' = CustomerShows(e)
    BY <1>1, <1>2 DEF CustomerShows
  <2>2. \A e \in Published : log[e].customer \in Customers
    BY LoggedEvents
  <2>3. \A e \in Published : ApprovalsOf(log[e].customer)' = {} => ApprovalsOf(log[e].customer) = {}
    BY <1>1, <1>3, <2>2 DEF ApprovalsOf
  <2> QED
    BY <1>1, <1>2, <1>5, <2>1, <2>3 DEF StandingInv, HandledIsShown, WillSay
<1>7. NoCustomerSkipped'
  BY <1>1, <1>2, <1>5 DEF StandingInv, NoCustomerSkipped, WillSay
<1>8. CustomerStampIsOfEvent'
  <2>1. \A d \in Customers : \A e \in CustomerEventsOf(d) \cup ApprovalsOf(d) : log'[e] = log[e]
    BY <1>1 DEF CustomerEventsOf, ApprovalsOf
  <2> QED
    BY <1>2, <1>3, <2>1 DEF StandingInv, CustomerStampIsOfEvent
<1> QED
  BY <1>4, <1>6, <1>7, <1>8 DEF StandingInv

LEMMA SubmitKeepsSInv ==
  ASSUME IInv, IInv', SInv, NEW a \in Applications, Submit(a)
  PROVE  SInv'
<1>1. /\ UnitEmits("created", a, CustomerOf[a]) /\ CustomerOf[a] \in Customers
      /\ "created" \notin StatusEvents /\ "created" \notin CustomerEvents
      /\ "created" # "approved" /\ UNCHANGED standing
  BY StatusTables, OnboardingAssumption DEF Submit
<1>2. /\ submission[a].step = "none" /\ submission'[a].step = "call"
      /\ \A b \in Applications \ {a} : submission'[b] = submission[b]
      /\ decided'[a] = "PendingReview"
      /\ \A b \in Applications \ {a} : decided'[b] = decided[b]
  BY DEF Submit, IInv, TypeOK
<1>3. \A b \in Applications : StatusEventsOf(b)' = StatusEventsOf(b)
  BY <1>1, EmittedDecisions
<1>4. \A b \in Applications : \A e \in StatusEventsOf(b) : log'[e] = log[e]
  BY <1>1, EmittedEvent DEF StatusEventsOf, EventsOf
<1>5. StatusEventsOf(a) = {}
  BY <1>2 DEF SInv, DecisionInv, DecidedFollowsLog
<1>6. DecidedFollowsLog'
  <2> SUFFICES ASSUME NEW b \in Applications
               PROVE  /\ StatusEventsOf(b)' = {} => decided'[b] \in {"None", "PendingReview"}
                      /\ submission'[b].step = "none" => decided'[b] = "None"
                      /\ decided'[b] = "None" => StatusEventsOf(b)' = {}
                      /\ \A e \in StatusEventsOf(b)' : (\A f \in StatusEventsOf(b)' : f <= e) =>
                           decided'[b] = APPLICATION_STATUS_EVENTS[log'[e].type]
    BY DEF DecidedFollowsLog
  <2>1. CASE b = a
    BY <1>2, <1>3, <1>5, <2>1
  <2>2. CASE b # a
    BY <1>2, <1>3, <1>4, <2>2 DEF SInv, DecisionInv, DecidedFollowsLog
  <2> QED
    BY <2>1, <2>2
<1>7. StandingFollowsLog'
  <2>1. \A d \in Customers : /\ CustomerEventsOf(d)' = CustomerEventsOf(d)
                             /\ ApprovalsOf(d)' = ApprovalsOf(d)
    BY <1>1, EmittedStandings
  <2>2. \A d \in Customers : \A e \in CustomerEventsOf(d) : log'[e] = log[e]
    BY <1>1, EmittedEvent DEF CustomerEventsOf
  <2> QED
    BY <1>1, <2>1, <2>2 DEF SInv, StandingInv, StandingFollowsLog
<1>8. \A b \in Applications : submission'[b].step = "insert" => submission'[b] = submission[b]
  BY <1>2
<1>9. DecisionInv'
  BY <1>1, <1>6, <1>8, EmitKeepsDecisionInv DEF SInv
<1> QED
  BY <1>1, <1>7, <1>9, EmitKeepsStandingInv DEF SInv

\* A decision is the last event of its application; an approval gives the
\* customer a standing.
LEMMA UnitDecidesKeepsSInv ==
  ASSUME IInv, IInv', SInv, NEW a \in Applications, NEW type \in StatusEvents,
         UnitDecides(a, type)
  PROVE  SInv'
<1> DEFINE n == Len(log) + 1
           c == CustomerOf[a]
<1>1. /\ UnitEmits(type, a, c) /\ c \in Customers /\ UNCHANGED submission
      /\ type \notin CustomerEvents
      /\ APPLICATION_STATUS_EVENTS[type] \in ApplicationStatus
      /\ decided'[a] = APPLICATION_STATUS_EVENTS[type] /\ decided[a] # "None"
      /\ \A b \in Applications \ {a} : decided'[b] = decided[b]
  BY StatusTables, OnboardingAssumption DEF UnitDecides, Undecided, IInv, TypeOK
<1>2. /\ \A b \in Applications \ {a} : StatusEventsOf(b)' = StatusEventsOf(b)
      /\ StatusEventsOf(a)' = StatusEventsOf(a) \cup {n}
  BY <1>1, EmittedDecisions
<1>3. /\ \A i \in Published : i < n /\ i \in Nat /\ log'[i] = log[i]
      /\ log'[n].type = type /\ n \in Nat
  <2>1. Len(log) \in Nat /\ \A i \in Published : i \in Nat
    BY <1>1, EmittedEvent DEF Published
  <2>2. (\A i \in Published : i < n /\ log'[i] = log[i]) /\ log'[n].type = type
    BY <1>1, EmittedEvent
  <2> QED
    BY <2>1, <2>2
<1>4. \A b \in Applications : StatusEventsOf(b) \subseteq Published
  BY DEF StatusEventsOf, EventsOf
<1> HIDE DEF n
<1>5. ASSUME NEW e \in StatusEventsOf(a)', \A f \in StatusEventsOf(a)' : f <= e PROVE e = n
  BY <1>2, <1>3, <1>4, <1>5, LastOfEvents
<1>6. DecidedFollowsLog'
  <2> SUFFICES ASSUME NEW b \in Applications
               PROVE  /\ StatusEventsOf(b)' = {} => decided'[b] \in {"None", "PendingReview"}
                      /\ submission'[b].step = "none" => decided'[b] = "None"
                      /\ decided'[b] = "None" => StatusEventsOf(b)' = {}
                      /\ \A e \in StatusEventsOf(b)' : (\A f \in StatusEventsOf(b)' : f <= e) =>
                           decided'[b] = APPLICATION_STATUS_EVENTS[log'[e].type]
    BY DEF DecidedFollowsLog
  <2>1. CASE b = a
    <3>1. decided'[a] # "None"
      BY <1>1 DEF ApplicationStatus
    <3>2. submission'[a].step # "none"
      BY <1>1 DEF SInv, DecisionInv, DecidedFollowsLog
    <3> QED
      BY <1>1, <1>2, <1>3, <1>5, <2>1, <3>1, <3>2
  <2>2. CASE b # a
    BY <1>1, <1>2, <1>3, <1>4, <2>2 DEF SInv, DecisionInv, DecidedFollowsLog
  <2> QED
    BY <2>1, <2>2
<1>7. DecisionInv'
  BY <1>1, <1>6, EmitKeepsDecisionInv DEF SInv
<1>8. /\ \A d \in Customers \ {c} : standing'[d] = standing[d]
      /\ standing'[c] = standing[c] \/ (standing[c] = "None" /\ standing'[c] = "Active")
      /\ type = "approved" => standing'[c] # "None"
  <2>1. standing \in [Customers -> CustomerStatus \cup {"None"}]
    BY DEF IInv, TypeOK
  <2>2. type = "approved" => APPLICATION_STATUS_EVENTS[type] = "Approved"
    BY DEF APPLICATION_STATUS_EVENTS
  <2> QED
    BY <1>1, <2>1, <2>2 DEF UnitDecides
<1>9. /\ \A d \in Customers : CustomerEventsOf(d)' = CustomerEventsOf(d)
      /\ \A d \in Customers : d # c \/ type # "approved" => ApprovalsOf(d)' = ApprovalsOf(d)
  BY <1>1, EmittedStandings
<1>10. \A d \in Customers : \A e \in CustomerEventsOf(d) : e \in Published /\ log'[e] = log[e]
  BY <1>3 DEF CustomerEventsOf
<1>11. StandingFollowsLog'
  <2> SUFFICES ASSUME NEW d \in Customers
               PROVE  /\ CustomerEventsOf(d)' = {} => standing'[d] \in {"None", "Active"}
                      /\ standing'[d] = "None" =>
                           CustomerEventsOf(d)' = {} /\ ApprovalsOf(d)' = {} /\ d \notin Onboarded
                      /\ \A e \in CustomerEventsOf(d)' :
                           (\A f \in CustomerEventsOf(d)' : f <= e) =>
                             standing'[d] = CUSTOMER_STATUS_EVENTS[log'[e].type]
    BY DEF StandingFollowsLog
  <2>1. CASE standing'[d] = standing[d]
    BY <1>8, <1>9, <1>10, <2>1 DEF SInv, StandingInv, StandingFollowsLog
  <2>2. CASE standing'[d] # standing[d]
    <3>1. d = c /\ standing[d] = "None" /\ standing'[d] = "Active"
      BY <1>8, <2>2
    <3>2. CustomerEventsOf(d)' = {}
      BY <1>9, <3>1 DEF SInv, StandingInv, StandingFollowsLog
    <3> QED
      BY <3>1, <3>2
  <2> QED
    BY <2>1, <2>2
<1> QED
  BY <1>1, <1>7, <1>11, EmitKeepsStandingInv DEF SInv

LEMMA UnitUpdatesCustomerKeepsSInv ==
  ASSUME IInv, IInv', SInv, NEW c \in Customers, NEW type \in CustomerEvents,
         UnitUpdatesCustomer(c, type)
  PROVE  SInv'
<1> DEFINE n == Len(log) + 1
<1>1. PICK a \in Applications : UnitEmits(type, a, c)
  BY DEF UnitUpdatesCustomer
<1>2. /\ type \notin StatusEvents /\ type # "approved"
      /\ CUSTOMER_STATUS_EVENTS[type] \in CustomerStatus
      /\ UNCHANGED <<decided, submission>>
      /\ standing[c] = "Active" /\ standing'[c] = CUSTOMER_STATUS_EVENTS[type]
      /\ \A d \in Customers \ {c} : standing'[d] = standing[d]
  BY StatusTables DEF UnitUpdatesCustomer, IInv, TypeOK
<1>3. /\ \A d \in Customers \ {c} : CustomerEventsOf(d)' = CustomerEventsOf(d)
      /\ \A d \in Customers : ApprovalsOf(d)' = ApprovalsOf(d)
      /\ CustomerEventsOf(c)' = CustomerEventsOf(c) \cup {n}
  BY <1>1, <1>2, EmittedStandings
<1>4. /\ \A i \in Published : i < n /\ i \in Nat /\ log'[i] = log[i]
      /\ log'[n].type = type /\ n \in Nat
  <2>1. Len(log) \in Nat /\ \A i \in Published : i \in Nat
    BY <1>1, EmittedEvent DEF Published
  <2>2. (\A i \in Published : i < n /\ log'[i] = log[i]) /\ log'[n].type = type
    BY <1>1, EmittedEvent
  <2> QED
    BY <2>1, <2>2
<1>5. \A d \in Customers : CustomerEventsOf(d) \subseteq Published
  BY DEF CustomerEventsOf
<1> HIDE DEF n
<1>6. ASSUME NEW e \in CustomerEventsOf(c)', \A f \in CustomerEventsOf(c)' : f <= e PROVE e = n
  BY <1>3, <1>4, <1>5, <1>6, LastOfEvents
<1>7. StandingFollowsLog'
  <2> SUFFICES ASSUME NEW d \in Customers
               PROVE  /\ CustomerEventsOf(d)' = {} => standing'[d] \in {"None", "Active"}
                      /\ standing'[d] = "None" =>
                           CustomerEventsOf(d)' = {} /\ ApprovalsOf(d)' = {} /\ d \notin Onboarded
                      /\ \A e \in CustomerEventsOf(d)' :
                           (\A f \in CustomerEventsOf(d)' : f <= e) =>
                             standing'[d] = CUSTOMER_STATUS_EVENTS[log'[e].type]
    BY DEF StandingFollowsLog
  <2>1. CASE d = c
    <3>1. standing'[c] # "None"
      BY <1>2 DEF CustomerStatus
    <3> QED
      BY <1>2, <1>3, <1>4, <1>6, <2>1, <3>1
  <2>2. CASE d # c
    BY <1>2, <1>3, <1>4, <1>5, <2>2 DEF SInv, StandingInv, StandingFollowsLog
  <2> QED
    BY <2>1, <2>2
<1>8. DecidedFollowsLog'
  <2>1. \A b \in Applications : StatusEventsOf(b)' = StatusEventsOf(b)
    BY <1>1, <1>2, EmittedDecisions
  <2>2. \A b \in Applications : \A e \in StatusEventsOf(b) : log'[e] = log[e]
    BY <1>4 DEF StatusEventsOf, EventsOf
  <2> QED
    BY <1>2, <2>1, <2>2 DEF SInv, DecisionInv, DecidedFollowsLog
<1>9. DecisionInv'
  BY <1>1, <1>2, <1>8, EmitKeepsDecisionInv DEF SInv
<1> QED
  BY <1>1, <1>7, <1>9, EmitKeepsStandingInv DEF SInv

-----------------------------------------------------------------------------
(* Steps without an event of Unit's.                                       *)

\* The log stays, and so do the events of everyone.
LEMMA SameEvents ==
  ASSUME UNCHANGED log
  PROVE  /\ Published' = Published
         /\ \A a : StatusEventsOf(a)' = StatusEventsOf(a)
         /\ \A c : CustomerEventsOf(c)' = CustomerEventsOf(c) /\ ApprovalsOf(c)' = ApprovalsOf(c)
BY DEF Published, EventsOf, StatusEventsOf, CustomerEventsOf, ApprovalsOf

\* What is audited had a worker to say it.
NothingUnsaid ==
  \A e \in Published, verdict \in Terminal :
    audit'[e] = verdict => audit[e] = verdict \/ \E w \in Workers : WillSay(w, e, verdict)

\* A step that gives no event of a row its verdict.
NothingSaid ==
  \A e \in Published, w \in Workers, verdict \in Terminal :
    WillSay(w, e, verdict)' => \/ WillSay(w, e, verdict)
                               \/ log[e].type \notin StatusEvents \cup CustomerEvents

LEMMA QuietKeepsDecisionInv ==
  ASSUME IInv, IInv', DecisionInv, UNCHANGED <<log, decided>>, RowsGrow, FreshIsPending',
         NothingUnsaid,
         \A a \in Applications : submission'[a].step = "none" => submission[a].step = "none",
         \A e \in Published, w \in Workers :
           log[e].type \in StatusEvents /\ log[e].application \in Submitted =>
             (WillSay(w, e, "Skipped")' => WillSay(w, e, "Skipped") \/ Shows(e))
  PROVE  DecisionInv'
<1>1. /\ Published' = Published
      /\ \A a \in Applications : StatusEventsOf(a)' = StatusEventsOf(a)
  BY SameEvents
<1>2. LogIsOrdered' /\ DecidedFollowsLog'
  BY <1>1 DEF DecisionInv, LogIsOrdered, DecidedFollowsLog
<1>3. SubmittedRowsStay'
  BY OnboardingAssumption DEF DecisionInv, SubmittedRowsStay, RowsGrow
<1>4. \A e \in Published : Shows(e) => Shows(e)'
  BY ShownStays
<1>5. \A e \in Published :
        audit'[e] = "Skipped" => audit[e] = "Skipped" \/ \E w \in Workers : WillSay(w, e, "Skipped")
  BY DEF NothingUnsaid, Terminal
<1>6. SkippedIsShown'
  BY <1>1, <1>4, <1>5 DEF DecisionInv, SkippedIsShown
<1> QED
  BY <1>2, <1>3, <1>6 DEF DecisionInv

LEMMA QuietKeepsStandingInv ==
  ASSUME IInv, IInv', StandingInv, UNCHANGED <<log, standing>>, CustomersGrow, FreshIsActive',
         CustomerStampIsOfEvent', NothingUnsaid,
         \A e \in Published, w \in Workers : log[e].type \in CustomerEvents =>
           /\ WillSay(w, e, "Skipped")' => WillSay(w, e, "Skipped")
           /\ WillSay(w, e, "Processed")' =>
                \/ WillSay(w, e, "Processed")
                \/ log[e].customer \in Onboarded /\ ApprovalsOf(log[e].customer) = {} =>
                     CustomerShows(e)'
  PROVE  StandingInv'
<1>1. /\ Published' = Published
      /\ \A c \in Customers : CustomerEventsOf(c)' = CustomerEventsOf(c)
      /\ \A c : ApprovalsOf(c)' = ApprovalsOf(c)
  BY SameEvents
<1>2. StandingFollowsLog'
  BY <1>1 DEF StandingInv, StandingFollowsLog
<1>3. OnboardedRowsStay'
  BY OnboardingAssumption DEF StandingInv, OnboardedRowsStay, CustomersGrow
<1>4. \A e \in Published : ApprovalsOf(log[e].customer) = {} /\ CustomerShows(e) => CustomerShows(e)'
  BY CustomerShownStays
<1>5. \A e \in Published : \A verdict \in {"Processed", "Skipped"} :
        audit'[e] = verdict => audit[e] = verdict \/ \E w \in Workers : WillSay(w, e, verdict)
  BY DEF NothingUnsaid, Terminal
<1>6. HandledIsShown'
  BY <1>1, <1>4, <1>5 DEF StandingInv, HandledIsShown
<1>7. NoCustomerSkipped'
  BY <1>1, <1>5 DEF StandingInv, NoCustomerSkipped
<1> QED
  BY <1>2, <1>3, <1>6, <1>7 DEF StandingInv

\* A step that leaves the customers alone and says nothing.
LEMMA OtherKeepsStandingInv ==
  ASSUME IInv, IInv', StandingInv, UNCHANGED <<log, standing, customer>>, NothingUnsaid,
         \A e \in Published, w \in Workers, verdict \in Terminal :
           log[e].type \in CustomerEvents =>
             (WillSay(w, e, verdict)' => WillSay(w, e, verdict))
  PROVE  StandingInv'
<1>1. /\ Published' = Published
      /\ \A c \in Customers : CustomerEventsOf(c)' = CustomerEventsOf(c)
      /\ \A c \in Customers : ApprovalsOf(c)' = ApprovalsOf(c)
  BY SameEvents
<1>2. FreshIsActive' /\ CustomerStampIsOfEvent'
  BY <1>1 DEF StandingInv, FreshIsActive, CustomerStampIsOfEvent
<1>3. \A e \in Published, w \in Workers : log[e].type \in CustomerEvents =>
        /\ WillSay(w, e, "Skipped")' => WillSay(w, e, "Skipped")
        /\ WillSay(w, e, "Processed")' => WillSay(w, e, "Processed")
  BY DEF Terminal
<1> QED
  BY <1>2, <1>3, CustomersAreKept, QuietKeepsStandingInv

\* A step that leaves the applications alone and skips nothing.
LEMMA OtherKeepsDecisionInv ==
  ASSUME IInv, IInv', DecisionInv, UNCHANGED <<log, decided, application, submission>>,
         NothingUnsaid,
         \A e \in Published, w \in Workers : log[e].type \in StatusEvents =>
           (WillSay(w, e, "Skipped")' => WillSay(w, e, "Skipped"))
  PROVE  DecisionInv'
<1>1. \A a \in Applications : StatusEventsOf(a)' = StatusEventsOf(a)
  BY SameEvents
<1>2. FreshIsPending'
  BY <1>1 DEF DecisionInv, FreshIsPending
<1> QED
  BY <1>2, RowsAreKept, QuietKeepsDecisionInv

\* A step that leaves the rows alone and says nothing.
LEMMA RowlessKeepsSInv ==
  ASSUME IInv, IInv', SInv, UNCHANGED <<log, unitVars, rowVars, submission>>,
         NothingUnsaid, NothingSaid
  PROVE  SInv'
<1>1. UNCHANGED <<decided, standing, application, customer>>
  BY DEF unitVars, rowVars
<1>2. \A e \in Published, w \in Workers, verdict \in Terminal :
        log[e].type \in CustomerEvents => (WillSay(w, e, verdict)' => WillSay(w, e, verdict))
  BY DEF NothingSaid
<1>3. \A e \in Published, w \in Workers : log[e].type \in StatusEvents =>
        (WillSay(w, e, "Skipped")' => WillSay(w, e, "Skipped"))
  BY DEF NothingSaid, Terminal
<1>4. DecisionInv'
  BY <1>1, <1>3, OtherKeepsDecisionInv DEF SInv
<1>5. StandingInv'
  BY <1>1, <1>2, OtherKeepsStandingInv DEF SInv
<1> QED
  BY <1>4, <1>5 DEF SInv

LEMMA FrameKeepsSInv ==
  ASSUME IInv, IInv', SInv, Frame
  PROVE  SInv'
<1>1. CASE \E e \in EventIds : Receive(e)
  <2>1. /\ UNCHANGED <<log, unitVars, rowVars, submission, running, step, outcome>>
        /\ \A e \in EventIds, verdict \in Terminal : audit'[e] = verdict => audit[e] = verdict
    BY <1>1, FrameType DEF Frame, Receive, Ingest, Terminal
  <2>2. NothingUnsaid /\ NothingSaid
    BY <2>1, LoggedEvents DEF NothingUnsaid, NothingSaid, WillSay
  <2> QED
    BY <2>1, <2>2, RowlessKeepsSInv
<1>2. CASE \E w \in Workers : MarkEvent(w)
  <2>1. PICK w \in Workers : MarkEvent(w)
    BY <1>2
  <2>2. /\ UNCHANGED <<log, unitVars, rowVars, submission>>
        /\ running[w] \in EventIds /\ step[w] = "mark" /\ step'[w] = "idle"
        /\ \A v \in Workers \ {w} : /\ running'[v] = running[v] /\ step'[v] = step[v]
                                    /\ outcome'[v] = outcome[v]
        /\ audit'[running[w]] = outcome[w]
        /\ \A e \in EventIds \ {running[w]} : audit'[e] = audit[e]
    BY <2>1, FrameType, RunningEvent DEF Frame, MarkEvent, Mark, At
  <2>3. NothingUnsaid
    BY <2>2, LoggedEvents DEF NothingUnsaid, WillSay
  <2>4. NothingSaid
    BY <2>2 DEF NothingSaid, WillSay
  <2> QED
    BY <2>2, <2>3, <2>4, RowlessKeepsSInv
<1> QED
  BY <1>1, <1>2 DEF Frame

\* An event that starts has its verdict at once if it is of none of the rows.
LEMMA StartHandlerKeepsSInv ==
  ASSUME IInv, IInv', SInv, NEW w \in Workers, NEW e \in EventIds, StartHandler(w, e)
  PROVE  SInv'
<1>1. /\ UNCHANGED <<log, audit, unitVars, rowVars, submission>>
      /\ running'[w] = e /\ step'[w] = FirstStep(log[e].type)
      /\ \A v \in Workers \ {w} : /\ running'[v] = running[v] /\ step'[v] = step[v]
                                  /\ outcome'[v] = outcome[v]
  BY FrameType DEF StartHandler, Start, Begin
<1>2. FirstStep(log[e].type) = "mark" => log[e].type \notin StatusEvents \cup CustomerEvents
  BY DEF FirstStep
<1>3. NothingSaid
  BY <1>1, <1>2 DEF NothingSaid, WillSay
<1>4. NothingUnsaid
  BY <1>1 DEF NothingUnsaid
<1> QED
  BY <1>1, <1>3, <1>4, RowlessKeepsSInv

LEMMA BreakKeepsSInv ==
  ASSUME IInv, IInv', SInv, Break
  PROVE  SInv'
<1>1. PICK w \in Workers : Throw(w) \/ Die(w)
  BY DEF Break
<1>2. /\ UNCHANGED <<log, audit, unitVars, rowVars, submission>>
      /\ outcome'[w] = "Failed" \/ step'[w] = "idle"
      /\ \A v \in Workers \ {w} : /\ running'[v] = running[v] /\ step'[v] = step[v]
                                  /\ outcome'[v] = outcome[v]
  BY <1>1, FrameType DEF Break, Throw, Die, Abandon, deliveryVars
<1>3. NothingSaid
  BY <1>2 DEF NothingSaid, WillSay, Terminal
<1>4. NothingUnsaid
  BY <1>2 DEF NothingUnsaid
<1> QED
  BY <1>2, <1>3, <1>4, RowlessKeepsSInv

\* A request writes no customer and says nothing.
LEMMA RequestKeepsSInv ==
  ASSUME IInv, IInv', SInv, UNCHANGED <<deliveryVars, step, outcome, unitVars, customer>>,
         RowsGrow, FreshIsPending',
         \A a \in Applications : submission'[a].step = "none" => submission[a].step = "none"
  PROVE  SInv'
<1>1. UNCHANGED <<log, audit, running, step, outcome, decided, standing, customer>>
  BY DEF deliveryVars, unitVars
<1>2. NothingUnsaid
  BY <1>1 DEF NothingUnsaid
<1>3. \A e, w, verdict : WillSay(w, e, verdict)' => WillSay(w, e, verdict)
  BY <1>1 DEF WillSay
<1>4. DecisionInv'
  BY <1>1, <1>2, <1>3, QuietKeepsDecisionInv DEF SInv
<1>5. StandingInv'
  BY <1>1, <1>2, <1>3, OtherKeepsStandingInv DEF SInv
<1> QED
  BY <1>4, <1>5 DEF SInv

LEMMA UnitAnswersKeepsSInv ==
  ASSUME IInv, IInv', SInv, NEW a \in Applications, UnitAnswers(a)
  PROVE  SInv'
<1>1. /\ UNCHANGED <<deliveryVars, step, outcome, unitVars, application, customer>>
      /\ submission'[a].status = decided[a] /\ submission'[a].step = "insert"
      /\ \A b \in Applications \ {a} : submission'[b] = submission[b]
      /\ decided[a] # "None"
  BY DEF UnitAnswers, handlerVars, rowVars, IInv, TypeOK, RequestIsSound
<1>2. \A b \in Applications : StatusEventsOf(b)' = StatusEventsOf(b)
  BY <1>1, SameEvents DEF deliveryVars
<1>3. FreshIsPending'
  BY <1>1, <1>2 DEF SInv, DecisionInv, FreshIsPending, DecidedFollowsLog
<1>4. \A b \in Applications : submission'[b].step = "none" => submission[b].step = "none"
  BY <1>1
<1> QED
  BY <1>1, <1>3, <1>4, RowsAreKept, RequestKeepsSInv

LEMMA InsertApplicationKeepsSInv ==
  ASSUME IInv, IInv', SInv, NEW a \in Applications, InsertApplication(a)
  PROVE  SInv'
<1>1. /\ UNCHANGED <<deliveryVars, step, outcome, unitVars, customer>>
      /\ application[a] = NoRow /\ submission[a].step = "insert"
      /\ submission'[a].step = "done" /\ submission'[a].status = submission[a].status
      /\ application'[a].status = submission[a].status
      /\ \A b \in Applications \ {a} : /\ submission'[b] = submission[b]
                                       /\ application'[b] = application[b]
  BY DEF InsertApplication, handlerVars, IInv, TypeOK, RequestIsSound, NewRow
<1>2. \A b \in Applications : StatusEventsOf(b)' = StatusEventsOf(b)
  BY <1>1, SameEvents DEF deliveryVars
<1>3. FreshIsPending'
  BY <1>1, <1>2 DEF SInv, DecisionInv, FreshIsPending
<1>4. RowsGrow
  BY <1>1, RowStamp DEF RowsGrow
<1>5. \A b \in Applications : submission'[b].step = "none" => submission[b].step = "none"
  BY <1>1
<1> QED
  BY <1>1, <1>3, <1>4, <1>5, RequestKeepsSInv

LEMMA LoseApplicationKeepsSInv ==
  ASSUME IInv, IInv', SInv, NEW a \in Applications, LoseApplication(a)
  PROVE  SInv'
<1>1. /\ UNCHANGED <<deliveryVars, step, outcome, unitVars, application, customer>>
      /\ submission'[a].step = "done"
      /\ \A b \in Applications \ {a} : submission'[b] = submission[b]
  BY DEF LoseApplication, rowVars, IInv, TypeOK
<1>2. \A b \in Applications : StatusEventsOf(b)' = StatusEventsOf(b)
  BY <1>1, SameEvents DEF deliveryVars
<1>3. FreshIsPending'
  BY <1>1, <1>2 DEF SInv, DecisionInv, FreshIsPending
<1>4. \A b \in Applications : submission'[b].step = "none" => submission[b].step = "none"
  BY <1>1
<1> QED
  BY <1>1, <1>3, <1>4, RowsAreKept, RequestKeepsSInv

-----------------------------------------------------------------------------
(* The handlers.                                                           *)

\* A step of w's handler: nothing is audited, and what is said, w says.
LEMMA HandlerSays ==
  ASSUME IInv, NEW w \in Workers, NEW verdict \in Verdicts,
         GoOn(w, "upsert") \/ Return(w, verdict)
  PROVE  /\ UNCHANGED <<log, audit, running>> /\ NothingUnsaid
         /\ \A e, v, said : WillSay(v, e, said)' /\ v \in Workers =>
              \/ WillSay(v, e, said)
              \/ e = running[w] /\ said = verdict /\ Return(w, verdict)
<1>1. /\ UNCHANGED <<log, audit, running>>
      /\ \A v \in Workers \ {w} : step'[v] = step[v] /\ outcome'[v] = outcome[v]
      /\ step'[w] = "upsert" \/ (Return(w, verdict) /\ outcome'[w] = verdict)
  BY FrameType DEF GoOn, Return, deliveryVars
<1>2. NothingUnsaid
  BY <1>1 DEF NothingUnsaid
<1> QED
  BY <1>1, <1>2 DEF WillSay

\* The row of the start is there: a decision that is skipped is not newer.
LEMMA SkipKeepsSInv ==
  ASSUME IInv, IInv', SInv, NEW w \in Workers, At(w, "update"), Return(w, "Skipped"),
         LET row == application[Event(w).application]
         IN ~(row # NoRow /\ IsNewer(row, Event(w))),
         UNCHANGED <<unitVars, rowVars, submission>>
  PROVE  SInv'
<1> DEFINE e == running[w]
<1>1. /\ e \in Published /\ Event(w) = log[e] /\ log[e].application \in Applications
      /\ log[e].at \in Nat
  BY RunningEvent DEF At
<1>2. log[e].type \in StatusEvents /\ log[e].type \notin CustomerEvents
  BY <1>1, StatusTables DEF At, IInv, HandlerIsSound
<1>3. /\ UNCHANGED <<log, decided, standing, application, customer, submission>>
      /\ NothingUnsaid
      /\ \A i \in Published, v \in Workers, said \in Terminal :
           WillSay(v, i, said)' => WillSay(v, i, said) \/ i = e
      /\ \A i \in Published, v \in Workers :
           WillSay(v, i, "Skipped")' => WillSay(v, i, "Skipped") \/ i = e
  BY HandlerSays DEF Verdicts, Terminal, unitVars, rowVars
<1>4. log[e].application \in Submitted => Shows(e)
  <2> SUFFICES ASSUME log[e].application \in Submitted PROVE Shows(e)
    OBVIOUS
  <2>1. application[log[e].application] # NoRow
    BY DEF SInv, DecisionInv, SubmittedRowsStay
  <2>2. application[log[e].application].lastEventAt \in Nat
    BY <1>1, <2>1, RowStamp
  <2>3. ~(application[log[e].application].lastEventAt < log[e].at)
    BY <1>1, <2>1 DEF IsNewer
  <2> QED
    BY <1>1, <2>1, <2>2, <2>3 DEF Shows
<1> HIDE DEF e
<1>5. FreshIsPending'
  BY <1>3, SameEvents DEF SInv, DecisionInv, FreshIsPending
<1>6. DecisionInv'
  BY <1>3, <1>4, <1>5, RowsAreKept, QuietKeepsDecisionInv DEF SInv
<1>7. StandingInv'
  BY <1>2, <1>3, OtherKeepsStandingInv DEF SInv
<1> QED
  BY <1>6, <1>7 DEF SInv

LEMMA ApplyKeepsSInv ==
  ASSUME IInv, IInv', SInv, NEW w \in Workers, At(w, "update"),
         GoOn(w, "upsert") \/ Return(w, "Processed"),
         application[Event(w).application] # NoRow,
         IsNewer(application[Event(w).application], Event(w)),
         application' = [application EXCEPT ![Event(w).application] =
           [status |-> APPLICATION_STATUS_EVENTS[Event(w).type], lastEventAt |-> Event(w).at]],
         UNCHANGED <<unitVars, customer, submission>>
  PROVE  SInv'
<1> DEFINE e == running[w]
           a == Event(w).application
<1>1. /\ e \in Published /\ Event(w) = log[e] /\ a \in Applications
      /\ log[e].at \in Nat /\ log[e].at # Never
  BY RunningEvent DEF At
<1>2. log[e].type \in StatusEvents /\ log[e].type \notin CustomerEvents
  BY <1>1, StatusTables DEF At, IInv, HandlerIsSound
<1>3. e \in StatusEventsOf(a)
  BY <1>1, <1>2 DEF StatusEventsOf, EventsOf
<1>4. application[a].lastEventAt \in Nat
  BY <1>1, RowStamp
<1>5. /\ UNCHANGED <<log, decided, standing, customer, submission>>
      /\ NothingUnsaid
      /\ \A i \in Published, v \in Workers, said \in Terminal :
           WillSay(v, i, said)' => WillSay(v, i, said) \/ i = e
      /\ \A i \in Published, v \in Workers :
           WillSay(v, i, "Skipped")' => WillSay(v, i, "Skipped")
  BY HandlerSays DEF Verdicts, Terminal, unitVars
<1>6. /\ application'[a].lastEventAt = log[e].at
      /\ \A b \in Applications \ {a} : application'[b] = application[b]
      /\ application[a].lastEventAt <= log[e].at
  BY <1>1, <1>4 DEF IInv, TypeOK, IsNewer, Never
<1>7. application'[a] # NoRow
  <2>1. APPLICATION_STATUS_EVENTS[log[e].type] \in ApplicationStatus
    BY <1>2, StatusTables
  <2>2. [status |-> APPLICATION_STATUS_EVENTS[log[e].type], lastEventAt |-> log[e].at]
          \in ApplicationRow
    BY <1>1, <2>1 DEF ApplicationRow
  <2> QED
    BY <1>1, <2>2, OnboardingAssumption DEF IInv, TypeOK
<1>8. RowsGrow
  BY <1>6, <1>7, RowStamp DEF RowsGrow
<1> HIDE DEF e, a
<1>9. FreshIsPending'
  BY <1>3, <1>5, <1>6, SameEvents DEF SInv, DecisionInv, FreshIsPending
<1>10. DecisionInv'
  BY <1>5, <1>8, <1>9, QuietKeepsDecisionInv DEF SInv
<1>11. StandingInv'
  BY <1>2, <1>5, OtherKeepsStandingInv DEF SInv
<1> QED
  BY <1>10, <1>11 DEF SInv

LEMMA UpdateApplicationKeepsSInv ==
  ASSUME IInv, IInv', SInv, NEW w \in Workers, UpdateApplication(w)
  PROVE  SInv'
<1> DEFINE row == application[Event(w).application]
<1>1. CASE row # NoRow /\ IsNewer(row, Event(w))
  BY <1>1, ApplyKeepsSInv DEF UpdateApplication
<1>2. CASE ~(row # NoRow /\ IsNewer(row, Event(w)))
  BY <1>2, SkipKeepsSInv DEF UpdateApplication, rowVars
<1> QED
  BY <1>1, <1>2

\* The row of a customer is written, or left, by a worker that will mark its
\* event Processed.
LEMMA CustomerStepKeepsSInv ==
  ASSUME IInv, IInv', SInv, NEW w \in Workers, At(w, "upsert") \/ At(w, "customer"),
         NEW e \in Published, e = running[w],
         Return(w, "Processed"), UNCHANGED <<unitVars, application, submission>>,
         CustomersGrow, FreshIsActive', CustomerStampIsOfEvent',
         /\ log[e].type \in CustomerEvents /\ log[e].customer \in Onboarded
         /\ ApprovalsOf(log[e].customer) = {}
         => CustomerShows(e)'
  PROVE  SInv'
<1>1. /\ UNCHANGED <<log, decided, standing, application, submission>>
      /\ NothingUnsaid
      /\ \A i \in Published, v \in Workers :
           WillSay(v, i, "Processed")' => WillSay(v, i, "Processed") \/ i = e
      /\ \A i \in Published, v \in Workers :
           WillSay(v, i, "Skipped")' => WillSay(v, i, "Skipped")
  BY HandlerSays DEF Verdicts, Terminal, unitVars
<1>2. DecisionInv'
  BY <1>1, OtherKeepsDecisionInv DEF SInv
<1>3. StandingInv'
  BY <1>1, QuietKeepsStandingInv DEF SInv
<1> QED
  BY <1>2, <1>3 DEF SInv

\* An approval keeps the status of a customer who is here, and sets the stamp.
LEMMA UpsertCustomerKeepsSInv ==
  ASSUME IInv, IInv', SInv, NEW w \in Workers, UpsertCustomer(w)
  PROVE  SInv'
<1>0. PICK e \in Published : e = running[w]
  BY RunningEvent DEF UpsertCustomer, At
<1> DEFINE c == log[e].customer
<1>1. /\ Event(w) = log[e] /\ c \in Customers /\ At(w, "upsert") /\ log[e].at \in Nat
  BY <1>0, RunningEvent DEF UpsertCustomer, At
<1>2. log[e].type = "approved" /\ log[e].type \notin CustomerEvents
  BY <1>0, <1>1, StatusTables DEF At, IInv, HandlerIsSound
<1>3. e \in ApprovalsOf(c)
  BY <1>1, <1>2 DEF ApprovalsOf
<1>4. /\ customer'[c].lastEventAt = log[e].at
      /\ customer[c] = NoRow => customer'[c].status = "Active"
      /\ customer[c] # NoRow => customer'[c].status = customer[c].status
      /\ \A d \in Customers \ {c} : customer'[d] = customer[d]
      /\ Return(w, "Processed") /\ UNCHANGED <<unitVars, application, submission>>
  BY <1>1 DEF UpsertCustomer, IInv, TypeOK
<1>5. customer'[c] # NoRow
  <2>1. (IF customer[c] = NoRow THEN "Active" ELSE customer[c].status) \in CustomerStatus
    BY <1>1 DEF IInv, TypeOK, CustomerRow, CustomerStatus
  <2>2. [status |-> IF customer[c] = NoRow THEN "Active" ELSE customer[c].status,
         lastEventAt |-> log[e].at] \in CustomerRow
    BY <1>1, <2>1 DEF CustomerRow
  <2> QED
    BY <1>1, <2>2, OnboardingAssumption DEF UpsertCustomer, IInv, TypeOK
<1>6. /\ UNCHANGED log
      /\ \A d \in Customers : /\ CustomerEventsOf(d)' = CustomerEventsOf(d)
                              /\ ApprovalsOf(d)' = ApprovalsOf(d)
  BY <1>4, SameEvents DEF Return, deliveryVars
<1> HIDE DEF c
<1>7. CustomersGrow
  BY <1>1, <1>3, <1>4, <1>5, CustomerStamp DEF CustomersGrow
<1>8. FreshIsActive'
  BY <1>4, <1>6 DEF SInv, StandingInv, FreshIsActive
<1>9. CustomerStampIsOfEvent'
  BY <1>3, <1>4, <1>6 DEF SInv, StandingInv, CustomerStampIsOfEvent
<1> QED
  BY <1>0, <1>1, <1>2, <1>4, <1>7, <1>8, <1>9, CustomerStepKeepsSInv

LEMMA UpdateCustomerKeepsSInv ==
  ASSUME IInv, IInv', SInv, NEW w \in Workers, UpdateCustomer(w)
  PROVE  SInv'
<1>0. PICK e \in Published : e = running[w]
  BY RunningEvent DEF UpdateCustomer, At
<1> DEFINE c == log[e].customer
<1>1. /\ Event(w) = log[e] /\ c \in Customers /\ At(w, "customer")
      /\ log[e].at \in Nat /\ log[e].at # Never
  BY <1>0, RunningEvent DEF UpdateCustomer, At
<1>2. log[e].type \in CustomerEvents
  BY <1>0, <1>1 DEF At, IInv, HandlerIsSound
<1>3. e \in CustomerEventsOf(c)
  BY <1>1, <1>2 DEF CustomerEventsOf
<1>4. /\ Return(w, "Processed") /\ UNCHANGED <<unitVars, application, submission, log>>
      /\ customer \in [Customers -> CustomerRow \cup {NoRow}]
  BY DEF UpdateCustomer, Return, deliveryVars, IInv, TypeOK
<1>5. \A d \in Customers : /\ CustomerEventsOf(d)' = CustomerEventsOf(d)
                           /\ ApprovalsOf(d)' = ApprovalsOf(d)
  BY <1>4, SameEvents
<1>6. CASE customer[c] # NoRow /\ IsNewer(customer[c], Event(w))
  <2>1. /\ customer' = [customer EXCEPT ![c] =
              [status |-> CUSTOMER_STATUS_EVENTS[log[e].type], lastEventAt |-> log[e].at]]
    BY <1>1, <1>6 DEF UpdateCustomer
  <2>2. /\ customer'[c].lastEventAt = log[e].at
        /\ customer'[c].status = CUSTOMER_STATUS_EVENTS[log[e].type]
        /\ \A d \in Customers \ {c} : customer'[d] = customer[d]
    BY <1>1, <1>4, <2>1
  <2>3. customer'[c] # NoRow
    <3>1. [status |-> CUSTOMER_STATUS_EVENTS[log[e].type], lastEventAt |-> log[e].at]
            \in CustomerRow
      BY <1>1, <1>2, StatusTables DEF CustomerRow
    <3> QED
      BY <1>1, <1>4, <2>1, <3>1, OnboardingAssumption
  <2>4. customer[c].lastEventAt \in Nat
    BY <1>1, <1>6, CustomerStamp
  <2>5. customer[c].lastEventAt <= log[e].at
    BY <1>1, <1>6, <2>4 DEF IsNewer, Never
  <2> HIDE DEF c
  <2>6. CustomersGrow
    BY <2>2, <2>3, <2>5, CustomerStamp DEF CustomersGrow
  <2>7. FreshIsActive'
    BY <1>3, <1>5, <2>2 DEF SInv, StandingInv, FreshIsActive
  <2>8. CustomerStampIsOfEvent'
    BY <1>3, <1>4, <1>5, <2>2 DEF SInv, StandingInv, CustomerStampIsOfEvent
  <2>9. CustomerShows(e)'
    <3>1. log'[e].customer = c /\ log'[e].at = log[e].at
      BY <1>1, <1>4 DEF c
    <3> QED
      BY <1>1, <2>2, <2>3, <3>1 DEF CustomerShows
  <2> QED
    BY <1>0, <1>1, <1>4, <2>6, <2>7, <2>8, <2>9, CustomerStepKeepsSInv DEF c
<1>7. CASE ~(customer[c] # NoRow /\ IsNewer(customer[c], Event(w)))
  <2>1. UNCHANGED customer
    BY <1>1, <1>7 DEF UpdateCustomer
  <2>2. CustomersGrow
    BY <2>1, CustomersAreKept
  <2>3. FreshIsActive' /\ CustomerStampIsOfEvent'
    BY <1>4, <1>5, <2>1 DEF SInv, StandingInv, FreshIsActive, CustomerStampIsOfEvent
  <2>4. c \in Onboarded => CustomerShows(e)'
    <3> SUFFICES ASSUME c \in Onboarded PROVE CustomerShows(e)'
      OBVIOUS
    <3>1. customer[c] # NoRow
      BY DEF SInv, StandingInv, OnboardedRowsStay
    <3>2. customer[c].lastEventAt \in Nat /\ ~(customer[c].lastEventAt < log[e].at)
      BY <1>1, <1>7, <3>1, CustomerStamp DEF IsNewer
    <3>3. log[e].at <= customer[c].lastEventAt
      BY <1>1, <3>2
    <3> QED
      BY <1>1, <1>4, <2>1, <3>1, <3>3 DEF CustomerShows
  <2> QED
    BY <1>0, <1>1, <1>4, <2>2, <2>3, <2>4, CustomerStepKeepsSInv
<1> QED
  BY <1>6, <1>7

LEMMA NextSInv == IInv /\ IInv' /\ SInv /\ [Next]_vars => SInv'
<1> SUFFICES ASSUME IInv, IInv', SInv, [Next]_vars PROVE SInv'
  OBVIOUS
<1>1. CASE UnitStep
  BY <1>1, UnitDecidesKeepsSInv, UnitUpdatesCustomerKeepsSInv DEF UnitStep
<1>2. CASE ApiStep
  BY <1>2, SubmitKeepsSInv, UnitAnswersKeepsSInv, InsertApplicationKeepsSInv,
     LoseApplicationKeepsSInv DEF ApiStep
<1>3. CASE Deliver
  BY <1>3, FrameKeepsSInv, StartHandlerKeepsSInv, UpdateApplicationKeepsSInv,
     UpsertCustomerKeepsSInv, UpdateCustomerKeepsSInv DEF Deliver
<1>4. CASE Break
  BY <1>4, BreakKeepsSInv
<1>5. CASE UNCHANGED vars
  <2>1. /\ UNCHANGED <<log, audit, running, step, outcome>>
        /\ UNCHANGED <<unitVars, rowVars, submission>>
    BY <1>5 DEF vars, handlerVars, deliveryVars
  <2>2. NothingUnsaid /\ NothingSaid
    BY <2>1 DEF NothingUnsaid, NothingSaid, WillSay
  <2> QED
    BY <2>1, <2>2, RowlessKeepsSInv
<1> QED
  BY <1>1, <1>2, <1>3, <1>4, <1>5 DEF Next, Rest

LEMMA InitSInv == Init => SInv
<1> SUFFICES ASSUME Init PROVE SInv
  OBVIOUS
<1>1. /\ Published = {}
      /\ \A a \in Applications : StatusEventsOf(a) = {}
      /\ \A c \in Customers : CustomerEventsOf(c) = {} /\ ApprovalsOf(c) = {}
  BY DEF Init, HandlersInit, DeliveryInit, Published, EventsOf, StatusEventsOf,
         CustomerEventsOf, ApprovalsOf
<1>2. LogIsOrdered /\ SkippedIsShown /\ HandledIsShown /\ NoCustomerSkipped
  BY <1>1 DEF LogIsOrdered, SkippedIsShown, HandledIsShown, NoCustomerSkipped
<1>3. DecidedFollowsLog /\ StandingFollowsLog
  BY <1>1 DEF Init, DecidedFollowsLog, StandingFollowsLog
<1>4. FreshIsPending /\ FreshIsActive /\ CustomerStampIsOfEvent
  BY DEF Init, FreshIsPending, FreshIsActive, CustomerStampIsOfEvent, NewRow
<1>5. SubmittedRowsStay /\ OnboardedRowsStay
  BY NewRowType, OnboardingAssumption
     DEF Init, SubmittedRowsStay, OnboardedRowsStay, ApplicationStatus
<1> QED
  BY <1>2, <1>3, <1>4, <1>5 DEF SInv, DecisionInv, StandingInv

\* What relates the rows to Unit holds in every state of every execution.
THEOREM StatusInvariance == Spec => []SInv
<1> QED
  BY InitSInv, NextSInv, Invariance, PTL DEF Spec

-----------------------------------------------------------------------------
\* A set of positions has a greatest one.
LEMMA GreatestPosition ==
  ASSUME NEW n \in Nat, NEW S \in SUBSET (1..n), S # {}
  PROVE  \E e \in S : \A f \in S : f <= e
<1> DEFINE T == {n - e : e \in S}
           R == OpToRel(<, Nat)
<1>1. \A e \in S : e \in 1..n /\ e \in Nat /\ n - e \in Nat
  <2>1. \A e \in 1..n : e \in Nat /\ n - e \in Nat
    OBVIOUS
  <2> QED
    BY <2>1
<1>2. T \subseteq Nat /\ T # {}
  BY <1>1
<1>3. IsWellFoundedOn(R, Nat)
  BY NatLessThanWellFounded
<1>4. \A x, y \in Nat : <<y, x>> \in R <=> y < x
  BY SMT DEF OpToRel
<1> HIDE DEF R, T
<1>5. PICK x \in T : \A y \in T : ~ (<<y, x>> \in R)
  BY <1>2, <1>3, WFMin
<1>6. PICK e \in S : x = n - e
  BY DEF T
<1>7. ASSUME NEW f \in S PROVE f <= e
  <2>1. n - f \in T /\ n - e \in Nat /\ n - f \in Nat /\ e \in Nat /\ f \in Nat
    BY <1>1 DEF T
  <2>2. ~(n - f < n - e)
    BY <1>4, <1>5, <1>6, <2>1
  <2> QED
    BY <2>1, <2>2
<1> QED
  BY <1>6, <1>7

\* The last of some events is as late as the stamp it does not exceed only if
\* the stamp is its own, or it is tied.
LEMMA LastIsStamped ==
  ASSUME IInv, LogIsOrdered, NEW S \in SUBSET Published, NEW e \in S, \A f \in S : f <= e,
         NEW row, log[e].at <= row.lastEventAt, NEW f \in S, log[f].at = row.lastEventAt
  PROVE  f = e \/ (Tied(S, row) /\ 0 \in Gaps)
<1>1. CASE f # e
  <2>1. /\ e \in Published /\ f \in Published /\ log[e].at \in Nat /\ log[f].at \in Nat
        /\ f < e
    BY <1>1, LoggedEvents DEF Published
  <2>2. log[f].at <= log[e].at /\ (0 \notin Gaps => log[f].at < log[e].at)
    BY <2>1 DEF LogIsOrdered
  <2>3. log[f].at = log[e].at /\ 0 \in Gaps
    BY <2>1, <2>2
  <2> QED
    BY <1>1, <2>3 DEF Tied
<1> QED
  BY <1>1

\* A decision that the row knows of, and no later one is there, is in the row.
LEMMA ShownIsRight ==
  ASSUME IInv, SInv, NEW a \in Applications, NEW e \in StatusEventsOf(a),
         \A f \in StatusEventsOf(a) : f <= e, Shows(e)
  PROVE  application[a].status = decided[a] \/ Tied(StatusEventsOf(a), application[a])
<1>1. /\ e \in Published /\ log[e].application = a /\ log[e].at \in Nat /\ log[e].at # Never
      /\ decided[a] = APPLICATION_STATUS_EVENTS[log[e].type]
      /\ StatusEventsOf(a) \in SUBSET Published
  BY LoggedEvents DEF StatusEventsOf, EventsOf, SInv, DecisionInv, DecidedFollowsLog
<1>2. /\ application[a] # NoRow /\ log[e].at <= application[a].lastEventAt
      /\ application[a].lastEventAt \in Nat
  BY <1>1, RowStamp DEF Shows
<1>3. PICK f \in StatusEventsOf(a) :
        /\ log[f].at = application[a].lastEventAt
        /\ APPLICATION_STATUS_EVENTS[log[f].type] = application[a].status
  BY <1>1, <1>2 DEF IInv, StampIsOfEvent, StatusEventsOf, EventsOf, Never
<1>4. f = e \/ Tied(StatusEventsOf(a), application[a])
  BY <1>1, <1>2, <1>3, LastIsStamped DEF SInv, DecisionInv
<1> QED
  BY <1>1, <1>3, <1>4

LEMMA SettledApplication ==
  ASSUME IInv, SInv, NEW a \in Applications, Settled(a), application[a] # NoRow
  PROVE  \/ application[a].status = decided[a]
         \/ CameTooEarly(a)
         \/ Tied(StatusEventsOf(a), application[a])
<1>1. CASE StatusEventsOf(a) = {}
  BY <1>1 DEF SInv, DecisionInv, FreshIsPending, DecidedFollowsLog, IInv, RequestIsSound
<1>2. CASE StatusEventsOf(a) # {}
  <2>1. Len(log) \in Nat /\ StatusEventsOf(a) \in SUBSET (1..Len(log))
    BY DEF IInv, PipelineIsSound, StatusEventsOf, EventsOf, Published
  <2>2. PICK e \in StatusEventsOf(a) : \A f \in StatusEventsOf(a) : f <= e
    BY <1>2, <2>1, GreatestPosition
  <2>3. /\ e \in Published /\ e \in EventsOf(a) /\ log[e].application = a
        /\ log[e].type \in StatusEvents /\ log[e].at \in Nat
        /\ audit[e] \in {"Processed", "Skipped"}
    BY <2>2, LoggedEvents DEF StatusEventsOf, EventsOf, Settled, Concluded, Terminal
  <2>4. CASE Shows(e)
    BY <2>2, <2>4, ShownIsRight
  <2>5. CASE ~Shows(e)
    <3>1. audit[e] = "Skipped" /\ a \notin Submitted
      BY <2>3, <2>5 DEF IInv, AppliedIsShown, SInv, DecisionInv, SkippedIsShown
    <3>2. log[e].at > application[a].lastEventAt
      BY <2>3, <2>5, RowStamp DEF Shows
    <3> QED
      BY <2>3, <3>1, <3>2 DEF CameTooEarly
  <2> QED
    BY <2>4, <2>5
<1> QED
  BY <1>1, <1>2

\* The safety core of StatusSettles: once the events of an application are dealt
\* with and no request is about it, its row has Unit's decision, unless the last
\* one came before the row (webhook-event.processor.ts:59) or shares its
\* millisecond with another.
THEOREM SettledDecision == Spec => []DecisionIsRight
<1>1. IInv /\ SInv => DecisionIsRight
  BY SettledApplication DEF DecisionIsRight
<1> QED
  BY <1>1, Invariance, StatusInvariance, PTL

\* The same of a customer.  Without an approval of theirs among the events their
\* row is one of the start, and nothing is overlooked.
LEMMA SettledCustomer ==
  ASSUME IInv, SInv, NEW c \in Customers, Concluded(CustomerEventsOf(c)), customer[c] # NoRow
  PROVE  \/ customer[c].status = standing[c]
         \/ Overlooked(c)
         \/ Tied(CustomerEventsOf(c), customer[c])
<1>1. c \in Onboarded \/ ApprovalsOf(c) # {}
  BY DEF IInv, CustomersAreApproved, ApprovalsOf
<1>2. CASE CustomerEventsOf(c) = {}
  BY <1>1, <1>2 DEF SInv, StandingInv, FreshIsActive, StandingFollowsLog
<1>3. CASE CustomerEventsOf(c) # {}
  <2>1. Len(log) \in Nat /\ CustomerEventsOf(c) \in SUBSET (1..Len(log))
    BY DEF IInv, PipelineIsSound, CustomerEventsOf, Published
  <2>2. PICK e \in CustomerEventsOf(c) : \A f \in CustomerEventsOf(c) : f <= e
    BY <1>3, <2>1, GreatestPosition
  <2>3. /\ e \in Published /\ log[e].customer = c /\ log[e].type \in CustomerEvents
        /\ log[e].at \in Nat /\ log[e].at # Never
        /\ standing[c] = CUSTOMER_STATUS_EVENTS[log[e].type]
        /\ audit[e] = "Processed"
    BY <2>2, LoggedEvents DEF CustomerEventsOf, Concluded, Terminal, SInv, StandingInv,
                              StandingFollowsLog, NoCustomerSkipped
  <2>4. customer[c].lastEventAt \in Nat
    BY CustomerStamp
  <2>5. CASE log[e].at > customer[c].lastEventAt
    <3>1. ApprovalsOf(c) # {}
      BY <1>1, <2>3, <2>4, <2>5 DEF SInv, StandingInv, HandledIsShown, CustomerShows
    <3> QED
      BY <2>3, <2>5, <3>1 DEF Overlooked, ApprovalsOf
  <2>6. CASE log[e].at <= customer[c].lastEventAt
    <3>1. customer[c].lastEventAt # Never
      BY <2>3, <2>4, <2>6 DEF Never
    <3>2. CASE \E f \in ApprovalsOf(c) : log[f].at = customer[c].lastEventAt
      BY <2>3, <3>2 DEF Overlooked, ApprovalsOf
    <3>3. CASE \E f \in CustomerEventsOf(c) :
                 /\ log[f].at = customer[c].lastEventAt
                 /\ CUSTOMER_STATUS_EVENTS[log[f].type] = customer[c].status
      <4>1. PICK f \in CustomerEventsOf(c) :
              /\ log[f].at = customer[c].lastEventAt
              /\ CUSTOMER_STATUS_EVENTS[log[f].type] = customer[c].status
        BY <3>3
      <4>2. CustomerEventsOf(c) \in SUBSET Published
        BY DEF CustomerEventsOf
      <4>3. f = e \/ Tied(CustomerEventsOf(c), customer[c])
        BY <2>2, <2>6, <4>1, <4>2, LastIsStamped DEF SInv, DecisionInv
      <4> QED
        BY <2>3, <4>1, <4>3
    <3> QED
      BY <3>1, <3>2, <3>3 DEF SInv, StandingInv, CustomerStampIsOfEvent
  <2> QED
    BY <2>3, <2>4, <2>5, <2>6
<1> QED
  BY <1>2, <1>3

\* The safety core of StandingSettles: once the events of a customer are dealt
\* with, the row has Unit's status, but for what an approval of theirs can come
\* between (webhook-event.processor.ts:105, :121) and for a tie.
THEOREM SettledStanding == Spec => []StandingIsRight
<1>1. IInv /\ SInv => StandingIsRight
  BY SettledCustomer DEF StandingIsRight
<1> QED
  BY <1>1, Invariance, StatusInvariance, PTL
=============================================================================
