---------------------------- MODULE PaymentsProofs ----------------------------
(***************************************************************************)
(* Theorems about Payments.tla, for any payments, workers, events, gaps    *)
(* and faults.  That the newest status stands has to survive a worker that *)
(* has applied its event and not marked it yet, another that applies a     *)
(* newer one meanwhile, and the insert of a row of which events have       *)
(* already been handled; IInv says what holds at these moments.  That no   *)
(* status is missing from a settled row rests on SInv, which follows the   *)
(* log and the events that were skipped.                                   *)
(***************************************************************************)
EXTENDS Payments, SequenceTheorems, WellFoundedInduction, TLAPS

PaymentEvent == [type : Kinds, payment : PaymentIds, at : Nat \ {Never}]

\* Events are well-formed; what is audited or run has been published.
PipelineIsSound ==
  /\ log \in Seq(PaymentEvent)
  /\ \A e \in EventIds : audit[e] # "Absent" => e \in Published
  /\ \A w \in Workers : running[w] # NoEvent => running[w] \in Published

\* What excuses a transaction without a link.
Excused(e) == e \in early \/ payment[log[e].payment] = NoRow

\* A handler is on a step of its event's type; a link it has found leads to a
\* row, and if it has found none there is an excuse.
HandlerIsSound ==
  \A w \in Workers :
    /\ step[w] # "idle" => running[w] # NoEvent
    /\ step[w] = "status" => Event(w).type \in StatusEvents
    /\ step[w] \in {"look", "record"} => Event(w).type = "transaction"
    /\ looked[w] \in PaymentIds => payment[looked[w]] # NoRow
    /\ step[w] = "record" /\ looked[w] = "unlinked" => Excused(running[w])

\* What is in the ledger has been published, and is linked or excused.
LinksAreSound ==
  \A e \in EventIds :
    /\ link[e] # "unrecorded" => e \in Published /\ log[e].type = "transaction"
    /\ link[e] = "unlinked" => Excused(e)

\* The row comes with the end of the request, which follows the payment at Unit.
RequestIsSound ==
  \A p \in PaymentIds :
    /\ paying[p].step # "done" => payment[p] = NoRow
    /\ unit[p] = "None" => paying[p].step = "none"

\* The row of e's payment is as new as e.
Shows(e) ==
  /\ payment[log[e].payment] # NoRow
  /\ log[e].at <= payment[log[e].payment].lastEventAt

\* A worker is about to mark e Processed.
WillMark(w, e) == running[w] = e /\ step[w] = "mark" /\ outcome[w] = "Processed"

\* Status events that are, or will be, marked Processed are in the row.
AppliedIsShown ==
  \A e \in Published : log[e].type \in StatusEvents =>
    /\ audit[e] = "Processed" => Shows(e)
    /\ \A w \in Workers : WillMark(w, e) => Shows(e)

\* A stamp is that of an event with the status of the row.
StampIsOfEvent ==
  \A p \in PaymentIds : payment[p] # NoRow /\ payment[p].lastEventAt # Never =>
    \E e \in Published : /\ log[e].payment = p /\ log[e].type \in StatusEvents
                        /\ log[e].at = payment[p].lastEventAt
                        /\ PAYMENT_STATUS_EVENTS[log[e].type] = payment[p].status

IInv ==
  /\ TypeOK
  /\ PipelineIsSound
  /\ HandlerIsSound
  /\ RequestIsSound
  /\ AppliedIsShown
  /\ StampIsOfEvent
  /\ LinksLead
  /\ LinksAreSound

-----------------------------------------------------------------------------
\* The status events are the five keys of the table.
LEMMA StatusTable ==
  /\ StatusEvents = {"pendingReview", "rejected", "clearing", "sent", "canceled"}
  /\ \A type \in StatusEvents : PAYMENT_STATUS_EVENTS[type] \in PaymentStatus
  /\ "transaction" \notin StatusEvents
BY DEF StatusEvents, PAYMENT_STATUS_EVENTS, PaymentStatus

\* A fresh row has no stamp.
LEMMA NewRowType ==
  ASSUME NEW status \in PaymentStatus
  PROVE  NewRow(status) \in PaymentRow /\ NewRow(status).lastEventAt = Never
BY DEF NewRow, PaymentRow, Never

\* Every published event is a well-formed one.
LEMMA LoggedEvents ==
  ASSUME IInv, NEW e \in Published
  PROVE  /\ log[e] \in PaymentEvent /\ log[e].payment \in PaymentIds
         /\ log[e].at \in Nat /\ log[e].at # Never
         /\ e \in EventIds
<1>1. log[e] \in PaymentEvent
  BY DEF IInv, PipelineIsSound, Published
<1>2. Len(log) \in Nat /\ Len(log) <= MaxEvents
  BY DEF IInv, PipelineIsSound, TypeOK, HandlersTypeOK, DeliveryTypeOK
<1> QED
  BY <1>1, <1>2, DeliveryAssumption DEF PaymentEvent, Published, EventIds

\* A worker that runs a handler runs a published event of some payment.
LEMMA RunningEvent ==
  ASSUME IInv, NEW w \in Workers, running[w] # NoEvent
  PROVE  /\ running[w] \in Published /\ running[w] \in EventIds
         /\ Event(w) = log[running[w]]
         /\ Event(w).payment \in PaymentIds
         /\ Event(w).at \in Nat /\ Event(w).at # Never
<1>1. running[w] \in Published
  BY DEF IInv, PipelineIsSound
<1> QED
  BY <1>1, LoggedEvents DEF Event

\* Init establishes the invariant.
LEMMA InitIInv == Init => IInv
<1> SUFFICES ASSUME Init PROVE IInv
  OBVIOUS
<1> USE PaymentsAssumption, HandlersAssumption, DeliveryAssumption
<1>1. HandlersTypeOK({"status", "look", "record"})
  BY DEF Init, HandlersInit, DeliveryInit, HandlersTypeOK, DeliveryTypeOK, EventIds, NoEvent,
         Verdicts, Terminal
<1>2. "Pending" \in PaymentStatus
  BY DEF PaymentStatus
<1>3. TypeOK
  <2>1. unit \in [PaymentIds -> PaymentStatus \cup {"None"}]
    BY <1>2 DEF Init
  <2>2. payment \in [PaymentIds -> PaymentRow \cup {NoRow}]
    BY <1>2, NewRowType DEF Init
  <2>3. link \in [EventIds -> Links] /\ looked \in [Workers -> Links]
    BY DEF Init, Links
  <2>4. paying \in [PaymentIds -> [step : {"none", "call", "insert", "done"},
                                   status : PaymentStatus]]
    BY <1>2 DEF Init
  <2>5. early \subseteq EventIds
    BY DEF Init
  <2> QED
    BY <1>1, <2>1, <2>2, <2>3, <2>4, <2>5 DEF TypeOK
<1>4. PipelineIsSound
  BY DEF Init, HandlersInit, DeliveryInit, PipelineIsSound
<1>5. HandlerIsSound
  BY DEF Init, HandlersInit, HandlerIsSound, Excused
<1>6. RequestIsSound
  BY DEF Init, RequestIsSound
<1>7. AppliedIsShown /\ LinksLead /\ LinksAreSound
  BY DEF Init, HandlersInit, DeliveryInit, AppliedIsShown, LinksLead, LinksAreSound, Published
<1>8. StampIsOfEvent
  BY <1>2, NewRowType DEF Init, StampIsOfEvent
<1> QED
  BY <1>3, <1>4, <1>5, <1>6, <1>7, <1>8 DEF IInv

-----------------------------------------------------------------------------
(* Steps that publish an event.                                            *)

\* The next event has a time, which is not that of a row without events.
LEMMA LaterType ==
  ASSUME IInv, NEW gap \in Gaps
  PROVE  Later(gap) \in Nat \ {Never}
<1> DEFINE last == IF log = <<>> THEN Never ELSE log[Len(log)].at
<1>1. last \in Nat
  <2>1. CASE log = <<>>
    BY <2>1 DEF Never
  <2>2. CASE log # <<>>
    <3>1. log \in Seq(PaymentEvent)
      BY DEF IInv, PipelineIsSound
    <3>2. Len(log) \in Published
      BY <2>2, <3>1, EmptySeq DEF Published
    <3> QED
      BY <2>2, <3>2, LoggedEvents
  <2> QED
    BY <2>1, <2>2
<1>2. gap \in Nat
  BY PaymentsAssumption
<1> QED
  BY <1>1, <1>2 DEF Later, Never

LEMMA EmitGrowsLog ==
  ASSUME IInv, NEW type, NEW p \in PaymentIds, UnitEmits(type, p)
  PROVE  /\ log' \in Seq(PaymentEvent)
         /\ Len(log') = Len(log) + 1 /\ Len(log') <= MaxEvents
         /\ \A e \in Published : log'[e] = log[e]
         /\ Published \subseteq Published'
         /\ \A e \in Published' : e \notin Published => audit[e] = "Absent"
         /\ UNCHANGED <<audit, running>>
<1>1. PICK gap \in Gaps : Emit([type |-> type, payment |-> p, at |-> Later(gap)])
  BY DEF UnitEmits
<1> DEFINE ev == [type |-> type, payment |-> p, at |-> Later(gap)]
<1>2. ev \in PaymentEvent
  BY LaterType DEF UnitEmits, PaymentEvent
<1>3. log \in Seq(PaymentEvent) /\ Len(log) \in Nat
  BY DEF IInv, PipelineIsSound
<1>4. Len(log) < MaxEvents /\ log' = Append(log, ev) /\ UNCHANGED <<audit, running>>
  BY <1>1 DEF Emit
<1> HIDE DEF ev
<1>5. /\ log' \in Seq(PaymentEvent) /\ Len(log') = Len(log) + 1
      /\ \A e \in 1..Len(log) : log'[e] = log[e]
  BY <1>2, <1>3, <1>4
<1>6. Published \subseteq Published' /\ Published' \subseteq EventIds
  BY <1>3, <1>4, <1>5, DeliveryAssumption DEF Published, EventIds
<1> QED
  BY <1>3, <1>4, <1>5, <1>6, DeliveryAssumption DEF Published, IInv, PipelineIsSound

\* An event more changes nothing for the rows and for the handlers.
LEMMA EmitKeepsIInv ==
  ASSUME IInv, NEW type, NEW p \in PaymentIds, UnitEmits(type, p),
         unit' \in [PaymentIds -> PaymentStatus \cup {"None"}],
         paying' \in [PaymentIds -> [step : {"none", "call", "insert", "done"},
                                     status : PaymentStatus]],
         RequestIsSound'
  PROVE  IInv'
<1>1. /\ log' \in Seq(PaymentEvent)
      /\ Len(log') = Len(log) + 1 /\ Len(log') <= MaxEvents
      /\ \A e \in Published : log'[e] = log[e]
      /\ Published \subseteq Published'
      /\ \A e \in Published' : e \notin Published => audit[e] = "Absent"
      /\ UNCHANGED <<audit, running>>
  BY EmitGrowsLog
<1>2. UNCHANGED <<step, outcome, faults, payment, link, looked, early>>
  BY DEF UnitEmits
<1> USE DEF IInv
<1>3. TypeOK'
  BY <1>1, <1>2 DEF TypeOK, HandlersTypeOK, DeliveryTypeOK
<1>4. PipelineIsSound'
  BY <1>1 DEF PipelineIsSound
<1>5. \A w \in Workers : running[w] # NoEvent => Event(w)' = Event(w)
  BY <1>1 DEF PipelineIsSound, Event
<1>6. HandlerIsSound'
  <2>1. \A w \in Workers : running[w] # NoEvent =>
          Excused(running[w])' = Excused(running[w])
    BY <1>1, <1>2 DEF PipelineIsSound, Excused
  <2>2. \A w \in Workers : step[w] # "idle" => running[w] # NoEvent
    BY DEF HandlerIsSound
  <2> QED
    BY <1>1, <1>2, <1>5, <2>1, <2>2 DEF HandlerIsSound
<1>7. \A e \in Published : Shows(e)' = Shows(e)
  BY <1>1, <1>2 DEF Shows
<1>8. \A e \in Published' : e \notin Published => \A w \in Workers : ~WillMark(w, e)'
  <2> SUFFICES ASSUME NEW e \in Published', e \notin Published, NEW w \in Workers,
                      running[w] = e
               PROVE  FALSE
    BY <1>1 DEF WillMark
  <2>1. e # NoEvent
    BY <1>1 DEF Published, NoEvent, PipelineIsSound
  <2> QED
    BY <2>1 DEF PipelineIsSound
<1>9. AppliedIsShown'
  BY <1>1, <1>2, <1>7, <1>8 DEF AppliedIsShown, WillMark
<1>10. StampIsOfEvent'
  BY <1>1, <1>2 DEF StampIsOfEvent
<1>11. LinksLead' /\ LinksAreSound'
  <2>1. \A e \in Published : Excused(e)' = Excused(e)
    BY <1>1, <1>2 DEF Excused
  <2> QED
    BY <1>1, <1>2, <2>1 DEF LinksLead, LinksAreSound
<1> QED
  BY <1>3, <1>4, <1>6, <1>9, <1>10, <1>11

LEMMA PayKeepsIInv ==
  ASSUME IInv, NEW p \in PaymentIds, Pay(p)
  PROVE  IInv'
<1> USE DEF Pay
<1>1. unit' \in [PaymentIds -> PaymentStatus \cup {"None"}]
  BY DEF IInv, TypeOK, PaymentStatus
<1>2. paying' \in [PaymentIds -> [step : {"none", "call", "insert", "done"},
                                  status : PaymentStatus]]
  BY DEF IInv, TypeOK
<1>3. RequestIsSound'
  BY DEF IInv, TypeOK, RequestIsSound, UnitEmits
<1> QED
  BY <1>1, <1>2, <1>3, EmitKeepsIInv

LEMMA UnitMovesKeepsIInv ==
  ASSUME IInv, NEW p \in PaymentIds, NEW type \in StatusEvents, UnitMoves(p, type)
  PROVE  IInv'
<1> USE DEF UnitMoves
<1>1. unit' \in [PaymentIds -> PaymentStatus \cup {"None"}]
  BY StatusTable DEF IInv, TypeOK
<1>2. paying' \in [PaymentIds -> [step : {"none", "call", "insert", "done"},
                                  status : PaymentStatus]]
  BY DEF IInv, TypeOK
<1>3. RequestIsSound'
  <2>1. unit[p] # "None"
    BY DEF CanBecome
  <2>2. PAYMENT_STATUS_EVENTS[type] # "None"
    BY StatusTable DEF PaymentStatus
  <2> QED
    BY <2>1, <2>2 DEF IInv, TypeOK, RequestIsSound, UnitEmits
<1> QED
  BY <1>1, <1>2, <1>3, EmitKeepsIInv

LEMMA UnitPostsKeepsIInv ==
  ASSUME IInv, NEW p \in PaymentIds, UnitPosts(p)
  PROVE  IInv'
<1>1. UNCHANGED <<unit, paying, payment>> /\ UnitEmits("transaction", p)
  BY DEF UnitPosts, UnitEmits
<1>2. RequestIsSound'
  BY <1>1 DEF IInv, RequestIsSound
<1> QED
  BY <1>1, <1>2, EmitKeepsIInv DEF IInv, TypeOK

-----------------------------------------------------------------------------
(* The rest of POST /payments.                                             *)

\* A fault counts up to its bound.
LEMMA FaultType ==
  ASSUME IInv, Fault PROVE faults' \in 0..MaxFaults
BY HandlersAssumption DEF IInv, TypeOK, HandlersTypeOK, Fault

\* A step of a request that writes no row.
LEMMA RequestStepKeepsIInv ==
  ASSUME IInv, UNCHANGED <<deliveryVars, step, outcome, unit, payment, link, looked, early>>,
         faults' \in 0..MaxFaults,
         paying' \in [PaymentIds -> [step : {"none", "call", "insert", "done"},
                                     status : PaymentStatus]],
         RequestIsSound'
  PROVE  IInv'
<1> USE DEF IInv, deliveryVars
<1>1. TypeOK'
  BY DEF TypeOK, HandlersTypeOK, DeliveryTypeOK
<1>2. PipelineIsSound' /\ HandlerIsSound'
  BY DEF PipelineIsSound, HandlerIsSound, Excused, Event, Published
<1>3. AppliedIsShown' /\ StampIsOfEvent' /\ LinksLead' /\ LinksAreSound'
  BY DEF AppliedIsShown, Shows, WillMark, StampIsOfEvent, LinksLead, LinksAreSound, Excused,
         Published
<1> QED
  BY <1>1, <1>2, <1>3

LEMMA UnitAnswersKeepsIInv ==
  ASSUME IInv, NEW p \in PaymentIds, UnitAnswers(p)
  PROVE  IInv'
<1> USE DEF UnitAnswers
<1>1. unit[p] \in PaymentStatus
  BY DEF IInv, TypeOK, RequestIsSound
<1>2. paying' \in [PaymentIds -> [step : {"none", "call", "insert", "done"},
                                  status : PaymentStatus]]
  BY <1>1 DEF IInv, TypeOK
<1>3. RequestIsSound'
  BY DEF IInv, TypeOK, RequestIsSound
<1>4. faults' \in 0..MaxFaults
  BY DEF IInv, TypeOK, HandlersTypeOK, handlerVars
<1> QED
  BY <1>2, <1>3, <1>4, RequestStepKeepsIInv DEF handlerVars

LEMMA LosePaymentKeepsIInv ==
  ASSUME IInv, NEW p \in PaymentIds, LosePayment(p)
  PROVE  IInv'
<1> USE DEF LosePayment
<1>1. paying' \in [PaymentIds -> [step : {"none", "call", "insert", "done"},
                                  status : PaymentStatus]]
  BY DEF IInv, TypeOK
<1>2. RequestIsSound'
  BY DEF IInv, TypeOK, RequestIsSound
<1> QED
  BY <1>1, <1>2, FaultType, RequestStepKeepsIInv

\* The row appears: nothing has been applied to it, and it has no stamp.
LEMMA InsertPaymentKeepsIInv ==
  ASSUME IInv, NEW p \in PaymentIds, InsertPayment(p)
  PROVE  IInv'
<1> USE DEF IInv, InsertPayment, handlerVars, deliveryVars
<1>1. payment[p] = NoRow /\ paying[p].status \in PaymentStatus
  BY DEF TypeOK, RequestIsSound
<1>2. NewRow(paying[p].status) \in PaymentRow /\ NewRow(paying[p].status).lastEventAt = Never
  BY <1>1, NewRowType
<1>3. /\ payment' \in [PaymentIds -> PaymentRow \cup {NoRow}]
      /\ payment'[p] # NoRow /\ payment'[p].lastEventAt = Never
      /\ \A q \in PaymentIds \ {p} : payment'[q] = payment[q]
  BY <1>2, PaymentsAssumption DEF TypeOK
<1>4. TypeOK'
  <2>1. paying' \in [PaymentIds -> [step : {"none", "call", "insert", "done"},
                                    status : PaymentStatus]]
    BY DEF TypeOK
  <2>2. early' \subseteq EventIds
    BY LoggedEvents DEF TypeOK, EventsOf
  <2> QED
    BY <1>3, <2>1, <2>2 DEF TypeOK, HandlersTypeOK, DeliveryTypeOK
<1>5. PipelineIsSound'
  BY DEF PipelineIsSound, Published
<1>5a. \A e \in Published : log[e].type = "transaction" /\ Excused(e) => Excused(e)'
  <2> SUFFICES ASSUME NEW e \in Published, log[e].type = "transaction", Excused(e)
               PROVE  Excused(e)'
    OBVIOUS
  <2>1. CASE log[e].payment = p
    BY <2>1 DEF Excused, EventsOf
  <2>2. CASE log[e].payment # p
    BY <1>3, <2>2, LoggedEvents DEF Excused
  <2> QED
    BY <2>1, <2>2
<1>6. HandlerIsSound'
  <2>1. \A w \in Workers : step[w] = "record" =>
          running[w] \in Published /\ log[running[w]].type = "transaction"
    BY DEF HandlerIsSound, PipelineIsSound, Event
  <2> QED
    BY <1>3, <1>5a, <2>1 DEF HandlerIsSound, Event, TypeOK
<1>7. RequestIsSound'
  BY <1>3 DEF RequestIsSound, TypeOK
<1>8. AppliedIsShown'
  <2>1. \A e \in Published : Shows(e) => log[e].payment # p
    BY <1>1 DEF Shows
  <2>2. \A e \in Published : Shows(e) => Shows(e)'
    BY <1>3, <2>1, LoggedEvents DEF Shows
  <2> QED
    BY <2>2 DEF AppliedIsShown, WillMark, Published
<1>9. StampIsOfEvent'
  BY <1>3 DEF StampIsOfEvent, Published
<1>10. LinksLead' /\ LinksAreSound'
  BY <1>3, <1>5a DEF LinksLead, LinksAreSound, Published
<1> QED
  BY <1>4, <1>5, <1>6, <1>7, <1>8, <1>9, <1>10

-----------------------------------------------------------------------------
(* The frame of the handlers.                                              *)

LEMMA ReceiveKeepsIInv ==
  ASSUME IInv, NEW e \in EventIds, Receive(e),
         UNCHANGED <<unit, payment, link, looked, paying, early>>
  PROVE  IInv'
<1> USE DEF IInv, Receive, Ingest
<1>1. /\ audit' \in [EventIds -> {"Absent"} \cup Retryable \cup Terminal]
      /\ \A i \in EventIds : audit'[i] = "Processed" => audit[i] = "Processed"
      /\ \A i \in EventIds \ {e} : audit'[i] = audit[i]
  BY DEF TypeOK, HandlersTypeOK, DeliveryTypeOK, Retryable
<1>2. TypeOK'
  BY <1>1 DEF TypeOK, HandlersTypeOK, DeliveryTypeOK
<1>3. PipelineIsSound' /\ HandlerIsSound' /\ RequestIsSound'
  BY <1>1 DEF PipelineIsSound, HandlerIsSound, RequestIsSound, Excused, Event, Published
<1>4. AppliedIsShown'
  BY <1>1, LoggedEvents DEF AppliedIsShown, Shows, WillMark, Published
<1>5. StampIsOfEvent' /\ LinksLead' /\ LinksAreSound'
  BY DEF StampIsOfEvent, LinksLead, LinksAreSound, Excused, Published
<1> QED
  BY <1>2, <1>3, <1>4, <1>5

\* A step of worker w that writes no rows.
QuietStep(w) ==
  /\ UNCHANGED <<log, unit, payment, paying, early>>
  /\ \A v \in Workers \ {w} : /\ running'[v] = running[v] /\ step'[v] = step[v]
                              /\ outcome'[v] = outcome[v] /\ looked'[v] = looked[v]

\* Such a step keeps the invariant if it does for the worker and its event.
LEMMA QuietStepKeepsIInv ==
  ASSUME IInv, NEW w \in Workers, QuietStep(w), TypeOK', link' = link \/ (LinksLead /\ LinksAreSound)',
         \A e \in EventIds : audit'[e] # "Absent" => e \in Published,
         running'[w] # NoEvent => running'[w] \in Published,
         step'[w] # "idle" => running'[w] # NoEvent,
         step'[w] = "status" => Event(w)'.type \in StatusEvents,
         step'[w] \in {"look", "record"} => Event(w)'.type = "transaction",
         looked'[w] \in PaymentIds => payment[looked'[w]] # NoRow,
         step'[w] = "record" /\ looked'[w] = "unlinked" => Excused(running'[w]),
         \A e \in Published : log[e].type \in StatusEvents /\ audit'[e] = "Processed" =>
           Shows(e),
         \A e \in Published : log[e].type \in StatusEvents /\ WillMark(w, e)' => Shows(e)
  PROVE  IInv'
<1> USE DEF IInv, QuietStep
<1>1. Published' = Published
  BY DEF Published
<1>2. PipelineIsSound'
  BY <1>1 DEF PipelineIsSound
<1>3. HandlerIsSound'
  BY DEF HandlerIsSound, Excused, Event
<1>4. RequestIsSound'
  BY DEF RequestIsSound
<1>5. AppliedIsShown'
  <2>1. \A e \in Published, v \in Workers \ {w} : WillMark(v, e)' => WillMark(v, e)
    BY DEF WillMark
  <2>2. \A e \in Published : Shows(e)' = Shows(e)
    BY DEF Shows
  <2> QED
    BY <1>1, <2>1, <2>2 DEF AppliedIsShown
<1>6. StampIsOfEvent' /\ LinksLead' /\ LinksAreSound'
  BY <1>1 DEF StampIsOfEvent, LinksLead, LinksAreSound, Excused
<1> QED
  BY <1>2, <1>3, <1>4, <1>5, <1>6

LEMMA MarkEventKeepsIInv ==
  ASSUME IInv, NEW w \in Workers, MarkEvent(w),
         UNCHANGED <<unit, payment, link, looked, paying, early>>
  PROVE  IInv'
<1> USE DEF MarkEvent, Mark, At
<1> DEFINE e == running[w]
<1>1. e \in Published /\ e \in EventIds
  BY RunningEvent
<1>2. /\ audit \in [EventIds -> {"Absent"} \cup Retryable \cup Terminal]
      /\ running \in [Workers -> EventIds \cup {NoEvent}]
      /\ step \in [Workers -> {"status", "look", "record"} \cup {"idle", "mark"}]
      /\ outcome \in [Workers -> Verdicts]
      /\ looked \in [Workers -> Links]
  BY DEF IInv, TypeOK, HandlersTypeOK, DeliveryTypeOK
<1>3. /\ audit' \in [EventIds -> {"Absent"} \cup Retryable \cup Terminal]
      /\ audit'[e] = outcome[w] /\ outcome[w] # "Absent"
      /\ \A i \in EventIds \ {e} : audit'[i] = audit[i]
  BY <1>1, <1>2 DEF Verdicts, Retryable, Terminal
<1>4. /\ running' \in [Workers -> EventIds \cup {NoEvent}] /\ running'[w] = NoEvent
      /\ step' \in [Workers -> {"status", "look", "record"} \cup {"idle", "mark"}]
      /\ step'[w] = "idle"
      /\ outcome' \in [Workers -> Verdicts]
  BY <1>2 DEF Verdicts, Terminal
<1>5. QuietStep(w)
  BY <1>2 DEF QuietStep
<1>6. TypeOK'
  BY <1>3, <1>4 DEF IInv, TypeOK, HandlersTypeOK, DeliveryTypeOK
<1>7. \A i \in EventIds : audit'[i] # "Absent" => i \in Published
  BY <1>1, <1>3 DEF IInv, PipelineIsSound
<1>8. \A i \in Published : log[i].type \in StatusEvents /\ audit'[i] = "Processed" => Shows(i)
  <2>1. outcome[w] = "Processed" => WillMark(w, e)
    BY DEF WillMark
  <2> QED
    BY <1>3, <2>1, LoggedEvents DEF IInv, AppliedIsShown
<1>9. looked'[w] \in PaymentIds => payment[looked'[w]] # NoRow
  BY DEF IInv, HandlerIsSound
<1>10. \A i \in Published : ~WillMark(w, i)'
  BY <1>4 DEF WillMark
<1> QED
  BY <1>4, <1>5, <1>6, <1>7, <1>8, <1>9, <1>10, QuietStepKeepsIInv

\* A handler starts; whose event goes unhandled is none of the status events.
LEMMA StartHandlerKeepsIInv ==
  ASSUME IInv, NEW w \in Workers, NEW e \in EventIds, StartHandler(w, e)
  PROVE  IInv'
<1> USE DEF StartHandler, Start, Begin
<1> DEFINE type == log[e].type
<1>1. e \in Published /\ e # NoEvent
  BY DEF IInv, PipelineIsSound, Retryable, EventIds, NoEvent
<1>2. /\ audit \in [EventIds -> {"Absent"} \cup Retryable \cup Terminal]
      /\ running \in [Workers -> EventIds \cup {NoEvent}]
      /\ step \in [Workers -> {"status", "look", "record"} \cup {"idle", "mark"}]
      /\ outcome \in [Workers -> Verdicts]
  BY DEF IInv, TypeOK, HandlersTypeOK, DeliveryTypeOK
<1>3. /\ FirstStep(type) \in {"status", "look", "mark"}
      /\ FirstStep(type) = "status" => type \in StatusEvents
      /\ FirstStep(type) = "look" => type = "transaction"
      /\ FirstStep(type) = "mark" => type \notin StatusEvents
  BY DEF FirstStep
<1> HIDE DEF type
<1>4. /\ running' \in [Workers -> EventIds \cup {NoEvent}] /\ running'[w] = e
      /\ step' \in [Workers -> {"status", "look", "record"} \cup {"idle", "mark"}]
      /\ step'[w] = FirstStep(type)
      /\ outcome' \in [Workers -> Verdicts]
  BY <1>2, <1>3 DEF Verdicts, Terminal, type
<1>5. QuietStep(w)
  BY <1>2 DEF QuietStep
<1>6. TypeOK'
  BY <1>4 DEF IInv, TypeOK, HandlersTypeOK, DeliveryTypeOK
<1>7. Event(w)'.type = type
  BY <1>4 DEF Event, type
<1>8. looked'[w] \in PaymentIds => payment[looked'[w]] # NoRow
  BY DEF IInv, HandlerIsSound
<1>9. \A i \in Published : log[i].type \in StatusEvents => ~WillMark(w, i)'
  BY <1>3, <1>4 DEF WillMark, type
<1>10. /\ \A i \in EventIds : audit'[i] # "Absent" => i \in Published
       /\ \A i \in Published : log[i].type \in StatusEvents /\ audit'[i] = "Processed" => Shows(i)
  BY DEF IInv, PipelineIsSound, AppliedIsShown
<1> QED
  BY <1>1, <1>3, <1>4, <1>5, <1>6, <1>7, <1>8, <1>9, <1>10, QuietStepKeepsIInv

\* Whether it throws or dies, the worker forgets the link it has found.
LEMMA BreakKeepsIInv ==
  ASSUME IInv, NEW w \in Workers, Throw(w) \/ Die(w),
         looked' = [looked EXCEPT ![w] = "unlinked"],
         UNCHANGED <<unit, payment, link, paying, early>>
  PROVE  IInv'
<1> USE DEF Throw, Die, Abandon, deliveryVars
<1>1. /\ running \in [Workers -> EventIds \cup {NoEvent}]
      /\ step \in [Workers -> {"status", "look", "record"} \cup {"idle", "mark"}]
      /\ outcome \in [Workers -> Verdicts]
      /\ looked \in [Workers -> Links]
  BY DEF IInv, TypeOK, HandlersTypeOK, DeliveryTypeOK
<1>2. /\ UNCHANGED <<log, audit>>
      /\ running' \in [Workers -> EventIds \cup {NoEvent}]
      /\ running'[w] \in {running[w], NoEvent} /\ running[w] # NoEvent
      /\ step' \in [Workers -> {"status", "look", "record"} \cup {"idle", "mark"}]
      /\ outcome' \in [Workers -> Verdicts]
      /\ \/ running'[w] # NoEvent /\ step'[w] = "mark" /\ outcome'[w] = "Failed"
         \/ running'[w] = NoEvent /\ step'[w] = "idle"
  BY <1>1 DEF Verdicts, Terminal
<1>3. looked' \in [Workers -> Links] /\ looked'[w] = "unlinked"
  BY <1>1 DEF Links
<1>4. QuietStep(w)
  BY <1>1, <1>2 DEF QuietStep
<1>5. TypeOK'
  BY <1>2, <1>3, FaultType DEF IInv, TypeOK, HandlersTypeOK, DeliveryTypeOK
<1>6. "unlinked" \notin PaymentIds
  BY PaymentsAssumption
<1>7. running[w] \in Published
  BY <1>2 DEF IInv, PipelineIsSound
<1>8. \A i \in Published : ~WillMark(w, i)'
  BY <1>2 DEF WillMark
<1>9. /\ \A i \in EventIds : audit'[i] # "Absent" => i \in Published
      /\ \A i \in Published : log[i].type \in StatusEvents /\ audit'[i] = "Processed" => Shows(i)
  BY <1>2 DEF IInv, PipelineIsSound, AppliedIsShown
<1> QED
  BY <1>2, <1>3, <1>4, <1>5, <1>6, <1>7, <1>8, <1>9, QuietStepKeepsIInv

-----------------------------------------------------------------------------
(* The handlers.                                                           *)

\* What the variables of the handlers become with a step of w that goes on, to
\* another statement or to its verdict.
LEMMA HandlingType ==
  ASSUME IInv, NEW w \in Workers, NEW s \in {"status", "look", "record"}, At(w, s),
         NEW next \in {"record", "mark"}, NEW verdict \in Verdicts,
         GoOn(w, next) \/ (next = "mark" /\ Return(w, verdict))
  PROVE  /\ HandlersTypeOK({"status", "look", "record"})'
         /\ UNCHANGED <<log, audit, running>>
         /\ step'[w] = next
         /\ Return(w, verdict) => outcome'[w] = verdict
         /\ \A v \in Workers \ {w} : step'[v] = step[v] /\ outcome'[v] = outcome[v]
<1> USE DEF GoOn, Return, deliveryVars
<1>1. HandlersTypeOK({"status", "look", "record"})
  BY DEF IInv, TypeOK
<1> QED
  BY <1>1 DEF HandlersTypeOK, DeliveryTypeOK

LEMMA LookForPaymentKeepsIInv ==
  ASSUME IInv, NEW w \in Workers, LookForPayment(w)
  PROVE  IInv'
<1> USE DEF LookForPayment
<1> DEFINE p == Event(w).payment
<1>1. p \in PaymentIds /\ running[w] \in Published /\ running[w] # NoEvent
  BY RunningEvent DEF At
<1>2. /\ HandlersTypeOK({"status", "look", "record"})' /\ UNCHANGED <<log, audit, running>>
      /\ step'[w] = "record"
      /\ \A v \in Workers \ {w} : step'[v] = step[v] /\ outcome'[v] = outcome[v]
  BY HandlingType DEF Verdicts, Terminal
<1>3. looked \in [Workers -> Links] /\ Found(p) \in Links
  BY <1>1 DEF IInv, TypeOK, Links, Found
<1> HIDE DEF p
<1>4. looked' \in [Workers -> Links] /\ looked'[w] = Found(p)
      /\ \A v \in Workers \ {w} : looked'[v] = looked[v]
  BY <1>3 DEF p
<1>5. Found(p) \in PaymentIds => payment[Found(p)] # NoRow
  BY PaymentsAssumption DEF Found
<1>5a. running'[w] = running[w] /\ (looked'[w] = "unlinked" => Excused(running[w]))
  BY <1>1, <1>2, <1>4, PaymentsAssumption DEF Found, Excused, Event, p
<1>6. TypeOK'
  BY <1>2, <1>4 DEF IInv, TypeOK
<1>7. QuietStep(w)
  BY <1>2, <1>4 DEF QuietStep
<1>8. Event(w)'.type = "transaction"
  BY <1>2 DEF IInv, HandlerIsSound, Event, At
<1>9. \A i \in Published : ~WillMark(w, i)'
  BY <1>2 DEF WillMark
<1>10. /\ \A i \in EventIds : audit'[i] # "Absent" => i \in Published
       /\ \A i \in Published : log[i].type \in StatusEvents /\ audit'[i] = "Processed" => Shows(i)
  BY <1>2 DEF IInv, PipelineIsSound, AppliedIsShown
<1> QED
  BY <1>1, <1>2, <1>4, <1>5, <1>5a, <1>6, <1>7, <1>8, <1>9, <1>10, QuietStepKeepsIInv

\* The row the link leads to was there when it was found, and is there still.
LEMMA RecordTransactionKeepsIInv ==
  ASSUME IInv, NEW w \in Workers, RecordTransaction(w)
  PROVE  IInv'
<1> USE DEF RecordTransaction
<1> DEFINE e == running[w]
<1>1. e \in Published /\ e \in EventIds /\ e # NoEvent
  BY RunningEvent DEF At
<1>2. PICK verdict \in {"Processed", "Skipped"} :
        /\ Return(w, verdict)
        /\ link' = link \/ link' = [link EXCEPT ![e] = looked[w]]
  OBVIOUS
<1>3. /\ HandlersTypeOK({"status", "look", "record"})' /\ UNCHANGED <<log, audit, running>>
      /\ step'[w] = "mark"
      /\ \A v \in Workers \ {w} : step'[v] = step[v] /\ outcome'[v] = outcome[v]
  BY <1>2, HandlingType DEF Verdicts, Terminal
<1>4. looked \in [Workers -> Links] /\ link \in [EventIds -> Links]
  BY DEF IInv, TypeOK
<1>5. looked' \in [Workers -> Links] /\ looked'[w] = "unlinked"
      /\ \A v \in Workers \ {w} : looked'[v] = looked[v]
  BY <1>4 DEF Links
<1>6. link' \in [EventIds -> Links]
      /\ \/ link' = link
         \/ link'[e] = looked[w] /\ \A i \in EventIds \ {e} : link'[i] = link[i]
  BY <1>1, <1>2, <1>4
<1>7. (LinksLead /\ LinksAreSound)'
  <2>1. Published' = Published
    BY <1>3 DEF Published
  <2>2. /\ log[e].type = "transaction"
        /\ looked[w] = "unlinked" => Excused(e)
        /\ looked[w] \in PaymentIds => payment[looked[w]] # NoRow
    BY <1>1 DEF IInv, HandlerIsSound, Event, At
  <2>3. LinksLead'
    BY <1>6, <2>2 DEF IInv, LinksLead
  <2>4. LinksAreSound'
    BY <1>1, <1>3, <1>6, <2>1, <2>2 DEF IInv, LinksAreSound, Excused
  <2> QED
    BY <2>3, <2>4
<1>8. TypeOK'
  BY <1>3, <1>5, <1>6 DEF IInv, TypeOK
<1>9. QuietStep(w)
  BY <1>3, <1>5 DEF QuietStep
<1>10. log[e].type = "transaction"
  BY DEF IInv, HandlerIsSound, Event, At
<1>11. \A i \in Published : log[i].type \in StatusEvents => ~WillMark(w, i)'
  BY <1>3, <1>10, StatusTable DEF WillMark
<1>12. "unlinked" \notin PaymentIds
  BY PaymentsAssumption
<1>13. /\ \A i \in EventIds : audit'[i] # "Absent" => i \in Published
       /\ \A i \in Published : log[i].type \in StatusEvents /\ audit'[i] = "Processed" => Shows(i)
  BY <1>3 DEF IInv, PipelineIsSound, AppliedIsShown
<1> QED
  BY <1>1, <1>3, <1>5, <1>7, <1>8, <1>9, <1>11, <1>12, <1>13, QuietStepKeepsIInv

\* The event is too old, or there is no row yet: nothing is written.
LEMMA SkipStatusKeepsIInv ==
  ASSUME IInv, NEW w \in Workers, At(w, "status"), Return(w, "Skipped"),
         UNCHANGED <<unit, payment, link, looked, paying, early>>
  PROVE  IInv'
<1>1. running[w] \in Published /\ running[w] # NoEvent
  BY RunningEvent DEF At
<1>2. /\ HandlersTypeOK({"status", "look", "record"})' /\ UNCHANGED <<log, audit, running>>
      /\ step'[w] = "mark" /\ outcome'[w] = "Skipped"
      /\ \A v \in Workers \ {w} : step'[v] = step[v] /\ outcome'[v] = outcome[v]
  BY HandlingType DEF Verdicts, Terminal
<1>3. TypeOK'
  BY <1>2 DEF IInv, TypeOK
<1>4. QuietStep(w)
  BY <1>2 DEF QuietStep
<1>5. looked'[w] \in PaymentIds => payment[looked'[w]] # NoRow
  BY DEF IInv, HandlerIsSound
<1>6. \A i \in Published : ~WillMark(w, i)'
  BY <1>2 DEF WillMark
<1>7. /\ \A i \in EventIds : audit'[i] # "Absent" => i \in Published
      /\ \A i \in Published : log[i].type \in StatusEvents /\ audit'[i] = "Processed" => Shows(i)
  BY <1>2 DEF IInv, PipelineIsSound, AppliedIsShown
<1> QED
  BY <1>1, <1>2, <1>3, <1>4, <1>5, <1>6, <1>7, QuietStepKeepsIInv

\* The event is newer than the row: the stamp grows, so that what was shown is
\* shown still.
LEMMA ApplyStatusKeepsIInv ==
  ASSUME IInv, NEW w \in Workers, At(w, "status"), Return(w, "Processed"),
         payment[Event(w).payment] # NoRow,
         IsNewer(payment[Event(w).payment], Event(w)),
         payment' = [payment EXCEPT ![Event(w).payment] =
           [status |-> PAYMENT_STATUS_EVENTS[Event(w).type], lastEventAt |-> Event(w).at]],
         UNCHANGED <<unit, link, looked, paying, early>>
  PROVE  IInv'
<1> DEFINE e == running[w]
           p == Event(w).payment
           row == [status |-> PAYMENT_STATUS_EVENTS[Event(w).type],
                   lastEventAt |-> Event(w).at]
<1>1. /\ e \in Published /\ e # NoEvent /\ Event(w) = log[e] /\ p \in PaymentIds
      /\ log[e].at \in Nat /\ log[e].at # Never
  BY RunningEvent DEF At
<1>2. log[e].type \in StatusEvents
  BY <1>1 DEF IInv, HandlerIsSound, At
<1>3. row \in PaymentRow
  BY <1>1, <1>2, StatusTable DEF PaymentRow
<1>4. payment \in [PaymentIds -> PaymentRow \cup {NoRow}] /\ payment[p] \in PaymentRow
  BY <1>1 DEF IInv, TypeOK
<1>5. /\ payment' \in [PaymentIds -> PaymentRow \cup {NoRow}]
      /\ payment'[p] = row /\ payment'[p] # NoRow
      /\ payment'[p].lastEventAt = log[e].at
      /\ payment'[p].status = PAYMENT_STATUS_EVENTS[log[e].type]
      /\ \A q \in PaymentIds \ {p} : payment'[q] = payment[q]
  BY <1>1, <1>3, <1>4, PaymentsAssumption
<1>6. payment[p].lastEventAt \in Nat /\ payment[p].lastEventAt <= log[e].at
  BY <1>1, <1>4 DEF IsNewer, PaymentRow, Never
<1> HIDE DEF row
<1>7. /\ HandlersTypeOK({"status", "look", "record"})' /\ UNCHANGED <<log, audit, running>>
      /\ step'[w] = "mark"
      /\ \A v \in Workers \ {w} : step'[v] = step[v] /\ outcome'[v] = outcome[v]
  BY HandlingType DEF Verdicts, Terminal
<1>8. Published' = Published
  BY <1>7 DEF Published
<1>9. TypeOK'
  BY <1>5, <1>7 DEF IInv, TypeOK
<1>10. PipelineIsSound'
  BY <1>7, <1>8 DEF IInv, PipelineIsSound
<1>10a. \A q \in PaymentIds : (payment[q] = NoRow) = (payment'[q] = NoRow)
  BY <1>4, <1>5, PaymentsAssumption
<1>10b. \A i \in Published : Excused(i) => Excused(i)'
  BY <1>7, <1>10a, LoggedEvents DEF Excused
<1>11. HandlerIsSound'
  BY <1>1, <1>5, <1>7, <1>10b DEF IInv, HandlerIsSound, PipelineIsSound, Event
<1>12. RequestIsSound'
  BY <1>4, <1>5, PaymentsAssumption DEF IInv, RequestIsSound
<1>13. AppliedIsShown'
  <2>1. \A i \in Published : Shows(i) => Shows(i)'
    <3> SUFFICES ASSUME NEW i \in Published, Shows(i) PROVE Shows(i)'
      OBVIOUS
    <3>1. log[i].payment \in PaymentIds /\ log[i].at \in Nat /\ log'[i] = log[i]
      BY <1>7, LoggedEvents
    <3>2. CASE log[i].payment = p
      <4>1. log[i].at <= payment[p].lastEventAt
        BY <3>2 DEF Shows
      <4>2. log[i].at <= log[e].at
        BY <1>1, <1>6, <3>1, <4>1
      <4> QED
        BY <1>5, <3>1, <3>2, <4>2 DEF Shows
    <3>3. CASE log[i].payment # p
      BY <1>5, <3>1, <3>3 DEF Shows
    <3> QED
      BY <3>2, <3>3
  <2>2. Shows(e)'
    BY <1>1, <1>5, <1>7 DEF Shows
  <2>3. \A i \in Published, v \in Workers : WillMark(v, i)' => WillMark(v, i) \/ i = e
    BY <1>7 DEF WillMark
  <2> QED
    BY <1>7, <1>8, <2>1, <2>2, <2>3 DEF IInv, AppliedIsShown
<1>14. StampIsOfEvent'
  BY <1>1, <1>2, <1>5, <1>7, <1>8 DEF IInv, StampIsOfEvent
<1>15. LinksLead' /\ LinksAreSound'
  BY <1>5, <1>7, <1>8, <1>10b DEF IInv, LinksLead, LinksAreSound
<1> QED
  BY <1>9, <1>10, <1>11, <1>12, <1>13, <1>14, <1>15 DEF IInv

LEMMA UpdateStatusKeepsIInv ==
  ASSUME IInv, NEW w \in Workers, UpdateStatus(w)
  PROVE  IInv'
<1> DEFINE row == payment[Event(w).payment]
<1>1. CASE row # NoRow /\ IsNewer(row, Event(w))
  BY <1>1, ApplyStatusKeepsIInv DEF UpdateStatus
<1>2. CASE ~(row # NoRow /\ IsNewer(row, Event(w)))
  BY <1>2, SkipStatusKeepsIInv DEF UpdateStatus
<1> QED
  BY <1>1, <1>2

-----------------------------------------------------------------------------
(* The theorems.                                                           *)

\* Nothing changes.
LEMMA StutterKeepsIInv == ASSUME IInv, UNCHANGED vars PROVE IInv'
<1>1. UNCHANGED <<deliveryVars, step, outcome, unit, payment, link, looked, paying, early,
                  faults>>
  BY DEF vars, handlerVars
<1>2. RequestIsSound'
  BY <1>1 DEF IInv, RequestIsSound
<1> QED
  BY <1>1, <1>2, RequestStepKeepsIInv DEF IInv, TypeOK, HandlersTypeOK

LEMMA NextIInv == IInv /\ [Next]_vars => IInv'
<1> SUFFICES ASSUME IInv, [Next]_vars PROVE IInv'
  OBVIOUS
<1>1. CASE UnitStep
  BY <1>1, UnitMovesKeepsIInv, UnitPostsKeepsIInv DEF UnitStep
<1>2. CASE ApiStep
  <2>1. PICK p \in PaymentIds :
          \/ Pay(p) \/ UnitAnswers(p) \/ InsertPayment(p) \/ LosePayment(p)
          \/ SimulateAchTransmit(p) \/ SimulateAchClear(p) \/ SimulateWireTransmit(p)
    BY <1>2 DEF ApiStep
  <2>2. CASE SimulateAchTransmit(p) \/ SimulateAchClear(p) \/ SimulateWireTransmit(p)
    BY <2>2, StatusTable, UnitMovesKeepsIInv
       DEF SimulateAchTransmit, SimulateAchClear, SimulateWireTransmit
  <2> QED
    BY <2>1, <2>2, PayKeepsIInv, UnitAnswersKeepsIInv, InsertPaymentKeepsIInv,
       LosePaymentKeepsIInv
<1>3. CASE Deliver
  <2>1. CASE Frame
    BY <2>1, ReceiveKeepsIInv, MarkEventKeepsIInv DEF Frame
  <2> QED
    BY <1>3, <2>1, StartHandlerKeepsIInv, UpdateStatusKeepsIInv, LookForPaymentKeepsIInv,
       RecordTransactionKeepsIInv DEF Deliver
<1>4. CASE Break
  BY <1>4, BreakKeepsIInv DEF Break
<1>5. CASE UNCHANGED vars
  BY <1>5, StutterKeepsIInv
<1> QED
  BY <1>1, <1>2, <1>3, <1>4, <1>5 DEF Next, Rest

\* The strengthened invariant holds in every state of every execution.
THEOREM Invariance == Spec => []IInv
<1> QED
  BY InitIInv, NextIInv, PTL DEF Spec

\* Every variable keeps its type, for any payments, workers and events.
THEOREM TypeCorrect == Spec => []TypeOK
<1>1. IInv => TypeOK
  BY DEF IInv
<1> QED
  BY <1>1, Invariance, PTL

\* A row shows the newest event that was applied to it, in whatever order events
\* are handled, by however many workers at once, and wherever these fail.
THEOREM NewestStands == Spec => []NewestStatusStands
<1>1. IInv => NewestStatusStands
  <2> SUFFICES ASSUME IInv, NEW p \in PaymentIds, payment[p] # NoRow
               PROVE  LET row == payment[p]
                          events == {e \in EventsOf(p) : log[e].type \in StatusEvents}
                      IN /\ row.lastEventAt # Never => \E e \in events :
                              /\ log[e].at = row.lastEventAt
                              /\ PAYMENT_STATUS_EVENTS[log[e].type] = row.status
                         /\ \A e \in events : audit[e] = "Processed" =>
                              log[e].at <= row.lastEventAt
    BY DEF NewestStatusStands
  <2>1. \A e \in EventsOf(p) : e \in Published /\ log[e].payment = p
    BY DEF EventsOf
  <2>2. payment[p].lastEventAt # Never =>
          \E e \in EventsOf(p) : /\ log[e].type \in StatusEvents
                                 /\ log[e].at = payment[p].lastEventAt
                                 /\ PAYMENT_STATUS_EVENTS[log[e].type] = payment[p].status
    BY DEF IInv, StampIsOfEvent, EventsOf
  <2>3. \A e \in EventsOf(p) : log[e].type \in StatusEvents /\ audit[e] = "Processed" =>
          log[e].at <= payment[p].lastEventAt
    BY <2>1 DEF IInv, AppliedIsShown, Shows
  <2> QED
    BY <2>2, <2>3
<1> QED
  BY <1>1, Invariance, PTL

\* The link of a transaction leads to a payment that has its row, though the row
\* is looked for before, and outside, the transaction that writes the link.
THEOREM LinksAreGood == Spec => []LinksLead
<1>1. IInv => LinksLead
  BY DEF IInv
<1> QED
  BY <1>1, Invariance, PTL

\* A transaction that posts when its payment has a row is recorded with the link,
\* if it is recorded, by whichever of the workers and after whichever failures.
THEOREM OnlyEarlyOnesUnlinked == Spec => []UnlinkedWasEarly
<1>1. IInv => UnlinkedWasEarly
  BY DEF IInv, LinksAreSound, UnlinkedWasEarly, Excused
<1> QED
  BY <1>1, Invariance, PTL

-----------------------------------------------------------------------------
(* When a status is right.  SInv relates the rows to what Unit knows: the  *)
(* last status event of a payment has Unit's status, and an event that was *)
(* skipped was older than the row, or had no row to go to.                 *)

StatusEventsOf(p) == {e \in EventsOf(p) : log[e].type \in StatusEvents}

\* Events are published in the order of their times.
LogIsOrdered ==
  \A i, j \in Published : i < j =>
    log[i].at <= log[j].at /\ (0 \notin Gaps => log[i].at < log[j].at)

\* Unit's status of a payment is that of its last status event.
UnitFollowsLog ==
  \A p \in PaymentIds :
    /\ StatusEventsOf(p) = {} => unit[p] \in {"None", "Pending"}
    /\ unit[p] = "None" => EventsOf(p) = {}
    /\ \A e \in StatusEventsOf(p) : (\A f \in StatusEventsOf(p) : f <= e) =>
         unit[p] = PAYMENT_STATUS_EVENTS[log[e].type]

\* Until a payment has a status event, its request and its row have Pending.
FreshIsPending ==
  \A p \in PaymentIds : StatusEventsOf(p) = {} =>
    /\ paying[p].step = "insert" => paying[p].status = "Pending"
    /\ payment[p] # NoRow => payment[p].status = "Pending"

\* The rows of the start are never away.
RecordedRowsStay == \A p \in Recorded : payment[p] # NoRow

\* A worker is about to mark e Skipped.
WillSkip(w, e) == running[w] = e /\ step[w] = "mark" /\ outcome[w] = "Skipped"

\* Of a payment with a row from the start, an event is only skipped if the row
\* is as new.
SkippedIsShown ==
  \A e \in Published : log[e].type \in StatusEvents /\ log[e].payment \in Recorded =>
    /\ audit[e] = "Skipped" => Shows(e)
    /\ \A w \in Workers : WillSkip(w, e) => Shows(e)

SInv ==
  /\ LogIsOrdered
  /\ UnitFollowsLog
  /\ FreshIsPending
  /\ RecordedRowsStay
  /\ SkippedIsShown

\* Two status events of payment p are of one millisecond, and the row has the
\* status of one of them.
Tied(p) ==
  \E e, f \in StatusEventsOf(p) :
    e # f /\ log[e].at = log[f].at /\ log[e].at = payment[p].lastEventAt

\* A settled row has Unit's status, or the reason why it has not.
SettledIsRight ==
  \A p \in PaymentIds : Settled(p) /\ payment[p] # NoRow =>
    \/ payment[p].status = unit[p]
    \/ CameTooEarly(p)
    \/ Tied(p)

-----------------------------------------------------------------------------
(* Its proof.                                                              *)

\* An event more: it is the last of its payment, and not older than the others.
LEMMA EmittedEvent ==
  ASSUME IInv, NEW type, NEW p \in PaymentIds, UnitEmits(type, p)
  PROVE  /\ Len(log) \in Nat /\ Len(log) + 1 \notin Published
         /\ Published' = Published \cup {Len(log) + 1}
         /\ \A i \in Published : i <= Len(log) + 1 /\ i < Len(log) + 1 /\ log'[i] = log[i]
         /\ log'[Len(log) + 1].type = type /\ log'[Len(log) + 1].payment = p
         /\ \A i \in Published : \E gap \in Gaps :
              /\ log'[Len(log) + 1].at = Later(gap)
              /\ LogIsOrdered => log[i].at <= Later(gap) /\ (gap # 0 => log[i].at < Later(gap))
<1>1. PICK gap \in Gaps : Emit([type |-> type, payment |-> p, at |-> Later(gap)])
  BY DEF UnitEmits
<1> DEFINE ev == [type |-> type, payment |-> p, at |-> Later(gap)]
<1>2. ev \in PaymentEvent /\ ev.type = type /\ ev.payment = p /\ ev.at = Later(gap)
  BY LaterType DEF UnitEmits, PaymentEvent
<1>3. log \in Seq(PaymentEvent) /\ Len(log) \in Nat /\ log' = Append(log, ev)
  BY <1>1 DEF IInv, PipelineIsSound, Emit
<1> HIDE DEF ev
<1>4. /\ Len(log') = Len(log) + 1 /\ log'[Len(log) + 1] = ev
      /\ \A i \in 1..Len(log) : log'[i] = log[i]
  BY <1>2, <1>3
<1>5. ASSUME NEW i \in Published, LogIsOrdered
      PROVE  log[i].at <= Later(gap) /\ (gap # 0 => log[i].at < Later(gap))
  <2>1. i \in 1..Len(log) /\ Len(log) \in Published /\ i <= Len(log)
    BY <1>3, <1>5 DEF Published
  <2>2. log[i].at \in Nat /\ log[Len(log)].at \in Nat /\ log[Len(log)].at # Never
    BY <2>1, LoggedEvents
  <2>3. log[i].at <= log[Len(log)].at
    <3>1. CASE i = Len(log)
      BY <2>2, <3>1
    <3>2. CASE i < Len(log)
      BY <2>1, <3>2, <1>5 DEF LogIsOrdered
    <3> QED
      BY <1>3, <2>1, <3>1, <3>2
  <2>4. gap \in Nat
    BY PaymentsAssumption
  <2>5. log # <<>>
    BY <1>3, <2>1
  <2>6. Later(gap) = log[Len(log)].at + gap
    BY <2>2, <2>4, <2>5 DEF Later, Never
  <2> QED
    BY <2>2, <2>3, <2>4, <2>6
<1> QED
  BY <1>2, <1>3, <1>4, <1>5 DEF Published

LEMMA EmitKeepsOrder ==
  ASSUME IInv, LogIsOrdered, NEW type, NEW p \in PaymentIds, UnitEmits(type, p)
  PROVE  LogIsOrdered'
<1> DEFINE n == Len(log) + 1
<1>1. /\ Published' = Published \cup {n} /\ n \notin Published /\ Len(log) \in Nat
      /\ \A i \in Published : i < n /\ log'[i] = log[i]
  BY EmittedEvent
<1>2. ASSUME NEW i \in Published
      PROVE  log'[i].at <= log'[n].at /\ (0 \notin Gaps => log'[i].at < log'[n].at)
  BY <1>1, <1>2, EmittedEvent
<1>3. SUFFICES ASSUME NEW i \in Published', NEW j \in Published', i < j
      PROVE  log'[i].at <= log'[j].at /\ (0 \notin Gaps => log'[i].at < log'[j].at)
  BY DEF LogIsOrdered
<1>4. i \in Nat /\ j \in Nat
  BY DEF Published
<1>5. i \in Published
  <2>1. CASE i = n
    <3>1. j < n \/ j = n
      BY <1>1, <1>3
    <3> QED
      BY <1>1, <1>3, <1>4, <2>1, <3>1
  <2> QED
    BY <1>1, <1>3, <2>1
<1> HIDE DEF n
<1>6. CASE j = n
  BY <1>2, <1>5, <1>6
<1>7. CASE j # n
  BY <1>1, <1>3, <1>5, <1>7 DEF LogIsOrdered
<1> QED
  BY <1>6, <1>7

\* What the events of each payment become.
LEMMA EmittedEvents ==
  ASSUME IInv, NEW type, NEW p \in PaymentIds, UnitEmits(type, p), NEW q \in PaymentIds
  PROVE  /\ EventsOf(q) \subseteq EventsOf(q)'
         /\ q # p => EventsOf(q)' = EventsOf(q)
         /\ q # p \/ type \notin StatusEvents => StatusEventsOf(q)' = StatusEventsOf(q)
         /\ q = p /\ type \in StatusEvents =>
              StatusEventsOf(q)' = StatusEventsOf(q) \cup {Len(log) + 1}
<1>1. /\ Published' = Published \cup {Len(log) + 1} /\ Len(log) + 1 \notin Published
      /\ \A i \in Published : log'[i] = log[i]
      /\ log'[Len(log) + 1].type = type /\ log'[Len(log) + 1].payment = p
  BY EmittedEvent
<1> QED
  BY <1>1 DEF EventsOf, StatusEventsOf

\* The rows' stamps only grow.
RowsGrow ==
  \A p \in PaymentIds : payment[p] # NoRow =>
    payment'[p] # NoRow /\ payment[p].lastEventAt <= payment'[p].lastEventAt

LEMMA RowStamp ==
  ASSUME IInv, NEW p \in PaymentIds, payment[p] # NoRow
  PROVE  payment[p] \in PaymentRow /\ payment[p].lastEventAt \in Nat
BY DEF IInv, TypeOK, PaymentRow

LEMMA RowsAreKept == ASSUME IInv, UNCHANGED payment PROVE RowsGrow
BY RowStamp DEF RowsGrow

\* What is shown stays shown.
LEMMA ShownStays ==
  ASSUME IInv, IInv', RowsGrow, NEW e \in Published, log'[e] = log[e], Shows(e)
  PROVE  Shows(e)'
<1>1. log[e].payment \in PaymentIds /\ log[e].at \in Nat
  BY LoggedEvents
<1>2. payment[log[e].payment].lastEventAt \in Nat
  BY <1>1, RowStamp DEF Shows
<1>3. payment'[log[e].payment].lastEventAt \in Nat /\ payment'[log[e].payment] # NoRow
  BY <1>1, RowStamp DEF Shows, RowsGrow, IInv, TypeOK, PaymentRow
<1> QED
  BY <1>1, <1>2, <1>3 DEF Shows, RowsGrow

\* Unit publishes an event: none of the rows is touched.
LEMMA EmitKeepsSInv ==
  ASSUME IInv, IInv', SInv, NEW type, NEW p \in PaymentIds, UnitEmits(type, p),
         UnitFollowsLog',
         \A q \in PaymentIds : paying'[q].step = "insert" => paying'[q] = paying[q]
  PROVE  SInv'
<1>1. /\ Published' = Published \cup {Len(log) + 1} /\ Len(log) + 1 \notin Published
      /\ \A i \in Published : log'[i] = log[i]
  BY EmittedEvent
<1>2. UNCHANGED <<step, outcome, payment, audit, running>>
  BY EmitGrowsLog DEF UnitEmits
<1>3. LogIsOrdered'
  BY EmitKeepsOrder DEF SInv
<1>4. FreshIsPending'
  <2>1. \A q \in PaymentIds : StatusEventsOf(q)' = {} => StatusEventsOf(q) = {}
    BY EmittedEvents
  <2> QED
    BY <1>2, <2>1 DEF SInv, FreshIsPending
<1>5. RecordedRowsStay'
  BY <1>2 DEF SInv, RecordedRowsStay
<1>6. SkippedIsShown'
  <2>1. \A e \in Published : Shows(e) => Shows(e)'
    BY <1>1, <1>2, RowsAreKept, ShownStays
  <2>2. audit'[Len(log) + 1] # "Skipped"
    BY <1>1, EmitGrowsLog
  <2>3. \A w \in Workers : running'[w] # Len(log) + 1
    BY <1>1, <1>2, EmittedEvent DEF IInv, PipelineIsSound, NoEvent
  <2> QED
    BY <1>1, <1>2, <2>1, <2>2, <2>3 DEF SInv, SkippedIsShown, WillSkip
<1> QED
  BY <1>3, <1>4, <1>5, <1>6 DEF SInv

LEMMA PayKeepsSInv ==
  ASSUME IInv, IInv', SInv, NEW p \in PaymentIds, Pay(p)
  PROVE  SInv'
<1>1. /\ UnitEmits("created", p) /\ unit[p] = "None" /\ "created" \notin StatusEvents
      /\ unit \in [PaymentIds -> PaymentStatus \cup {"None"}]
      /\ unit'[p] = "Pending" /\ \A q \in PaymentIds \ {p} : unit'[q] = unit[q]
  BY StatusTable DEF Pay, IInv, TypeOK
<1>2. \A q \in PaymentIds : StatusEventsOf(q)' = StatusEventsOf(q)
  BY <1>1, EmittedEvents
<1>3. \A q \in PaymentIds \ {p} : EventsOf(q)' = EventsOf(q)
  BY <1>1, EmittedEvents
<1>4. \A q \in PaymentIds : \A e \in StatusEventsOf(q) : log'[e] = log[e]
  BY <1>1, EmittedEvent DEF StatusEventsOf, EventsOf
<1>5. StatusEventsOf(p) = {}
  BY <1>1 DEF SInv, UnitFollowsLog, StatusEventsOf
<1>6. UnitFollowsLog'
  <2> SUFFICES ASSUME NEW q \in PaymentIds
               PROVE  /\ StatusEventsOf(q)' = {} => unit'[q] \in {"None", "Pending"}
                      /\ unit'[q] = "None" => EventsOf(q)' = {}
                      /\ \A e \in StatusEventsOf(q)' : (\A f \in StatusEventsOf(q)' : f <= e) =>
                           unit'[q] = PAYMENT_STATUS_EVENTS[log'[e].type]
    BY DEF UnitFollowsLog
  <2>1. CASE q = p
    BY <1>1, <1>2, <1>5, <2>1
  <2>2. CASE q # p
    BY <1>1, <1>2, <1>3, <1>4, <2>2 DEF SInv, UnitFollowsLog
  <2> QED
    BY <2>1, <2>2
<1>7. \A q \in PaymentIds : paying'[q].step = "insert" => paying'[q] = paying[q]
  BY DEF Pay, IInv, TypeOK
<1> QED
  BY <1>1, <1>6, <1>7, EmitKeepsSInv

LEMMA UnitMovesKeepsSInv ==
  ASSUME IInv, IInv', SInv, NEW p \in PaymentIds, NEW type \in StatusEvents,
         UnitMoves(p, type)
  PROVE  SInv'
<1> DEFINE n == Len(log) + 1
<1>1. /\ UnitEmits(type, p) /\ UNCHANGED paying
      /\ PAYMENT_STATUS_EVENTS[type] \in PaymentStatus
      /\ unit'[p] = PAYMENT_STATUS_EVENTS[type]
      /\ \A q \in PaymentIds \ {p} : unit'[q] = unit[q]
  BY StatusTable DEF UnitMoves, IInv, TypeOK
<1>2. /\ \A q \in PaymentIds \ {p} : /\ StatusEventsOf(q)' = StatusEventsOf(q)
                                     /\ EventsOf(q)' = EventsOf(q)
      /\ StatusEventsOf(p)' = StatusEventsOf(p) \cup {n}
  BY <1>1, EmittedEvents
<1>3. /\ \A i \in Published : i < n /\ log'[i] = log[i]
      /\ log'[n].type = type /\ Len(log) \in Nat
  BY <1>1, EmittedEvent
<1>4. \A q \in PaymentIds : StatusEventsOf(q) \subseteq Published
  BY DEF StatusEventsOf, EventsOf
<1>5. ASSUME NEW e \in StatusEventsOf(p)', \A f \in StatusEventsOf(p)' : f <= e PROVE e = n
  <2>1. n <= e
    BY <1>2, <1>5
  <2>2. CASE e \in Published
    <3>1. e < n /\ e \in Nat
      BY <1>3, <2>2 DEF Published
    <3> QED
      BY <1>3, <2>1, <3>1
  <2> QED
    BY <1>2, <1>4, <2>2
<1> HIDE DEF n
<1>6. UnitFollowsLog'
  <2> SUFFICES ASSUME NEW q \in PaymentIds
               PROVE  /\ StatusEventsOf(q)' = {} => unit'[q] \in {"None", "Pending"}
                      /\ unit'[q] = "None" => EventsOf(q)' = {}
                      /\ \A e \in StatusEventsOf(q)' : (\A f \in StatusEventsOf(q)' : f <= e) =>
                           unit'[q] = PAYMENT_STATUS_EVENTS[log'[e].type]
    BY DEF UnitFollowsLog
  <2>1. CASE q = p
    <3>1. unit'[p] # "None"
      BY <1>1 DEF PaymentStatus
    <3> QED
      BY <1>1, <1>2, <1>3, <1>5, <2>1, <3>1
  <2>2. CASE q # p
    BY <1>1, <1>2, <1>3, <1>4, <2>2 DEF SInv, UnitFollowsLog
  <2> QED
    BY <2>1, <2>2
<1> QED
  BY <1>1, <1>6, EmitKeepsSInv

LEMMA UnitPostsKeepsSInv ==
  ASSUME IInv, IInv', SInv, NEW p \in PaymentIds, UnitPosts(p)
  PROVE  SInv'
<1>1. /\ UnitEmits("transaction", p) /\ unit[p] # "None" /\ "transaction" \notin StatusEvents
      /\ UNCHANGED <<unit, paying>>
  BY StatusTable DEF UnitPosts
<1>2. \A q \in PaymentIds : StatusEventsOf(q)' = StatusEventsOf(q)
  BY <1>1, EmittedEvents
<1>3. \A q \in PaymentIds \ {p} : EventsOf(q)' = EventsOf(q)
  BY <1>1, EmittedEvents
<1>4. \A q \in PaymentIds : \A e \in StatusEventsOf(q) : log'[e] = log[e]
  BY <1>1, EmittedEvent DEF StatusEventsOf, EventsOf
<1>5. UnitFollowsLog'
  BY <1>1, <1>2, <1>3, <1>4 DEF SInv, UnitFollowsLog
<1> QED
  BY <1>1, <1>5, EmitKeepsSInv

\* A step without an event of Unit's keeps SInv if the rows grow, what it puts
\* into a row or a request is Pending until there is a status event, and what
\* it skips is shown.
LEMMA QuietKeepsSInv ==
  ASSUME IInv, IInv', SInv, UNCHANGED <<log, unit>>, RowsGrow, FreshIsPending',
         \A e \in Published : log[e].type \in StatusEvents /\ log[e].payment \in Recorded =>
           /\ audit'[e] = "Skipped" =>
                audit[e] = "Skipped" \/ Shows(e) \/ \E w \in Workers : WillSkip(w, e)
           /\ \A w \in Workers : WillSkip(w, e)' => WillSkip(w, e) \/ Shows(e)
  PROVE  SInv'
<1>1. Published' = Published /\ \A q \in PaymentIds : EventsOf(q)' = EventsOf(q)
  BY DEF Published, EventsOf
<1>2. \A q \in PaymentIds : StatusEventsOf(q)' = StatusEventsOf(q)
  BY <1>1 DEF StatusEventsOf
<1>3. LogIsOrdered' /\ UnitFollowsLog'
  BY <1>1, <1>2 DEF SInv, LogIsOrdered, UnitFollowsLog
<1>4. RecordedRowsStay'
  BY PaymentsAssumption DEF SInv, RecordedRowsStay, RowsGrow
<1>5. \A e \in Published : Shows(e) => Shows(e)'
  BY ShownStays
<1>6. SkippedIsShown'
  BY <1>1, <1>5 DEF SInv, SkippedIsShown
<1> QED
  BY <1>3, <1>4, <1>6 DEF SInv

\* Such a step, if it leaves the payments' rows and requests alone.
LEMMA RowlessKeepsSInv ==
  ASSUME IInv, IInv', SInv, UNCHANGED <<log, unit, payment, paying>>,
         \A e \in Published :
           /\ audit'[e] = "Skipped" =>
                audit[e] = "Skipped" \/ \E w \in Workers : WillSkip(w, e)
           /\ \A w \in Workers : WillSkip(w, e)' => \/ WillSkip(w, e)
                                                    \/ log[e].type \notin StatusEvents
                                                    \/ log[e].payment \notin Recorded
                                                    \/ Shows(e)
  PROVE  SInv'
<1>1. \A q \in PaymentIds : StatusEventsOf(q)' = StatusEventsOf(q)
  BY DEF StatusEventsOf, EventsOf, Published
<1>2. FreshIsPending'
  BY <1>1 DEF SInv, FreshIsPending
<1> QED
  BY <1>2, RowsAreKept, QuietKeepsSInv

LEMMA UnitAnswersKeepsSInv ==
  ASSUME IInv, IInv', SInv, NEW p \in PaymentIds, UnitAnswers(p)
  PROVE  SInv'
<1>1. /\ UNCHANGED <<log, audit, running, step, outcome, unit, payment>>
      /\ paying'[p].status = unit[p]
      /\ \A q \in PaymentIds \ {p} : paying'[q] = paying[q]
      /\ unit[p] # "None"
  BY DEF UnitAnswers, handlerVars, deliveryVars, IInv, TypeOK, RequestIsSound
<1>2. \A q \in PaymentIds : StatusEventsOf(q)' = StatusEventsOf(q)
  BY <1>1 DEF StatusEventsOf, EventsOf, Published
<1>3. FreshIsPending'
  BY <1>1, <1>2 DEF SInv, FreshIsPending, UnitFollowsLog
<1> QED
  BY <1>1, <1>3, RowsAreKept, QuietKeepsSInv DEF WillSkip

LEMMA InsertPaymentKeepsSInv ==
  ASSUME IInv, IInv', SInv, NEW p \in PaymentIds, InsertPayment(p)
  PROVE  SInv'
<1>1. /\ UNCHANGED <<log, audit, running, step, outcome, unit>>
      /\ payment[p] = NoRow /\ paying[p].step = "insert"
      /\ paying'[p].step = "done" /\ paying'[p].status = paying[p].status
      /\ payment'[p].status = paying[p].status
      /\ \A q \in PaymentIds \ {p} : paying'[q] = paying[q] /\ payment'[q] = payment[q]
  BY DEF InsertPayment, handlerVars, deliveryVars, IInv, TypeOK, RequestIsSound, NewRow
<1>2. \A q \in PaymentIds : StatusEventsOf(q)' = StatusEventsOf(q)
  BY <1>1 DEF StatusEventsOf, EventsOf, Published
<1>3. FreshIsPending'
  BY <1>1, <1>2 DEF SInv, FreshIsPending
<1>4. RowsGrow
  BY <1>1, RowStamp DEF RowsGrow
<1> QED
  BY <1>1, <1>3, <1>4, QuietKeepsSInv DEF WillSkip

LEMMA LosePaymentKeepsSInv ==
  ASSUME IInv, IInv', SInv, NEW p \in PaymentIds, LosePayment(p)
  PROVE  SInv'
<1>1. /\ UNCHANGED <<log, audit, running, step, outcome, unit, payment>>
      /\ paying'[p].step = "done"
      /\ \A q \in PaymentIds \ {p} : paying'[q] = paying[q]
  BY DEF LosePayment, deliveryVars, IInv, TypeOK
<1>2. \A q \in PaymentIds : StatusEventsOf(q)' = StatusEventsOf(q)
  BY <1>1 DEF StatusEventsOf, EventsOf, Published
<1>3. FreshIsPending'
  BY <1>1, <1>2 DEF SInv, FreshIsPending
<1> QED
  BY <1>1, <1>3, RowsAreKept, QuietKeepsSInv DEF WillSkip

LEMMA FrameKeepsSInv ==
  ASSUME IInv, IInv', SInv, Frame
  PROVE  SInv'
<1>1. CASE \E e \in EventIds : Receive(e)
  <2>1. /\ UNCHANGED <<log, unit, payment, paying, running, step, outcome>>
        /\ \A e \in EventIds : audit'[e] = "Skipped" => audit[e] = "Skipped"
    BY <1>1 DEF Frame, Receive, Ingest, IInv, TypeOK, HandlersTypeOK, DeliveryTypeOK
  <2> QED
    BY <2>1, LoggedEvents, RowlessKeepsSInv DEF WillSkip
<1>2. CASE \E w \in Workers : MarkEvent(w)
  <2>1. PICK w \in Workers : MarkEvent(w)
    BY <1>2
  <2>2. /\ audit \in [EventIds -> {"Absent"} \cup Retryable \cup Terminal]
        /\ running \in [Workers -> EventIds \cup {NoEvent}]
        /\ step \in [Workers -> {"status", "look", "record"} \cup {"idle", "mark"}]
        /\ outcome \in [Workers -> Verdicts]
    BY DEF IInv, TypeOK, HandlersTypeOK, DeliveryTypeOK
  <2>3. /\ UNCHANGED <<log, unit, payment, paying>>
        /\ running[w] \in EventIds /\ step[w] = "mark" /\ step'[w] = "idle"
        /\ \A v \in Workers \ {w} : /\ running'[v] = running[v] /\ step'[v] = step[v]
                                    /\ outcome'[v] = outcome[v]
        /\ audit'[running[w]] = outcome[w]
        /\ \A e \in EventIds \ {running[w]} : audit'[e] = audit[e]
    BY <2>1, <2>2, RunningEvent DEF Frame, MarkEvent, Mark, At
  <2>4. \A e \in Published : audit'[e] = "Skipped" => audit[e] = "Skipped" \/ WillSkip(w, e)
    BY <2>3, LoggedEvents DEF WillSkip
  <2>5. \A e \in Published, v \in Workers : WillSkip(v, e)' => WillSkip(v, e)
    BY <2>3 DEF WillSkip
  <2> QED
    BY <2>3, <2>4, <2>5, RowlessKeepsSInv
<1> QED
  BY <1>1, <1>2 DEF Frame

\* An event that starts is not skipped yet.
LEMMA StartHandlerKeepsSInv ==
  ASSUME IInv, IInv', SInv, NEW w \in Workers, NEW e \in EventIds, StartHandler(w, e)
  PROVE  SInv'
<1>1. /\ UNCHANGED <<log, audit, unit, payment, paying>>
      /\ outcome'[w] = "Processed"
      /\ \A v \in Workers \ {w} : /\ running'[v] = running[v] /\ step'[v] = step[v]
                                  /\ outcome'[v] = outcome[v]
  BY DEF StartHandler, Start, Begin, IInv, TypeOK, HandlersTypeOK, DeliveryTypeOK
<1>2. \A i \in Published, v \in Workers : WillSkip(v, i)' => WillSkip(v, i)
  BY <1>1 DEF WillSkip
<1> QED
  BY <1>1, <1>2, RowlessKeepsSInv

LEMMA BreakKeepsSInv ==
  ASSUME IInv, IInv', SInv, Break
  PROVE  SInv'
<1>1. PICK w \in Workers : Throw(w) \/ Die(w)
  BY DEF Break
<1>2. /\ UNCHANGED <<log, audit, unit, payment, paying>>
      /\ outcome'[w] = "Failed" \/ step'[w] = "idle"
      /\ \A v \in Workers \ {w} : /\ running'[v] = running[v] /\ step'[v] = step[v]
                                  /\ outcome'[v] = outcome[v]
  BY <1>1 DEF Break, Throw, Die, Abandon, deliveryVars, IInv, TypeOK, HandlersTypeOK,
              DeliveryTypeOK
<1>3. \A i \in Published, v \in Workers : WillSkip(v, i)' => WillSkip(v, i)
  BY <1>2 DEF WillSkip
<1> QED
  BY <1>2, <1>3, RowlessKeepsSInv

\* A transaction may be skipped without a word.
LEMMA LinkingKeepsSInv ==
  ASSUME IInv, IInv', SInv, NEW w \in Workers, LookForPayment(w) \/ RecordTransaction(w)
  PROVE  SInv'
<1>1. /\ UNCHANGED <<log, audit, running, unit, payment, paying>>
      /\ log[running[w]].type = "transaction"
      /\ \A v \in Workers \ {w} : step'[v] = step[v] /\ outcome'[v] = outcome[v]
  BY DEF LookForPayment, RecordTransaction, GoOn, Return, At, Event, deliveryVars,
         IInv, HandlerIsSound, TypeOK, HandlersTypeOK
<1>2. \A i \in Published, v \in Workers : WillSkip(v, i)' =>
        WillSkip(v, i) \/ log[i].type \notin StatusEvents
  BY <1>1, StatusTable DEF WillSkip
<1> QED
  BY <1>1, <1>2, RowlessKeepsSInv

\* The row of the start is there: an event that is skipped is not newer.
LEMMA SkipStatusKeepsSInv ==
  ASSUME IInv, IInv', SInv, NEW w \in Workers, At(w, "status"), Return(w, "Skipped"),
         ~(payment[Event(w).payment] # NoRow /\ IsNewer(payment[Event(w).payment], Event(w))),
         UNCHANGED <<unit, payment, link, looked, paying, early>>
  PROVE  SInv'
<1> DEFINE e == running[w]
<1>1. /\ e \in Published /\ Event(w) = log[e] /\ log[e].payment \in PaymentIds
      /\ log[e].at \in Nat
  BY RunningEvent DEF At
<1>2. /\ UNCHANGED <<log, audit, running>>
      /\ \A v \in Workers \ {w} : step'[v] = step[v] /\ outcome'[v] = outcome[v]
  BY DEF Return, deliveryVars, IInv, TypeOK, HandlersTypeOK
<1>3. log[e].payment \in Recorded => Shows(e)
  <2> SUFFICES ASSUME log[e].payment \in Recorded PROVE Shows(e)
    OBVIOUS
  <2>1. payment[log[e].payment] # NoRow
    BY DEF SInv, RecordedRowsStay
  <2>2. payment[log[e].payment].lastEventAt \in Nat
    BY <1>1, <2>1, RowStamp
  <2>3. ~(payment[log[e].payment].lastEventAt < log[e].at)
    BY <1>1, <2>1 DEF IsNewer
  <2> QED
    BY <1>1, <2>1, <2>2, <2>3 DEF Shows
<1>4. \A i \in Published, v \in Workers : WillSkip(v, i)' => WillSkip(v, i) \/ i = e
  BY <1>2 DEF WillSkip
<1> QED
  BY <1>2, <1>3, <1>4, RowlessKeepsSInv

LEMMA ApplyStatusKeepsSInv ==
  ASSUME IInv, IInv', SInv, NEW w \in Workers, At(w, "status"), Return(w, "Processed"),
         payment[Event(w).payment] # NoRow,
         IsNewer(payment[Event(w).payment], Event(w)),
         payment' = [payment EXCEPT ![Event(w).payment] =
           [status |-> PAYMENT_STATUS_EVENTS[Event(w).type], lastEventAt |-> Event(w).at]],
         UNCHANGED <<unit, link, looked, paying, early>>
  PROVE  SInv'
<1> DEFINE e == running[w]
           p == Event(w).payment
<1>1. /\ e \in Published /\ e # NoEvent /\ Event(w) = log[e] /\ p \in PaymentIds
      /\ log[e].at \in Nat /\ log[e].at # Never
  BY RunningEvent DEF At
<1>2. e \in StatusEventsOf(p)
  BY <1>1 DEF IInv, HandlerIsSound, At, StatusEventsOf, EventsOf
<1>3. payment[p].lastEventAt \in Nat
  BY <1>1, RowStamp
<1>4. /\ UNCHANGED <<log, audit, running>>
      /\ outcome'[w] = "Processed"
      /\ \A v \in Workers \ {w} : step'[v] = step[v] /\ outcome'[v] = outcome[v]
  BY DEF Return, deliveryVars, IInv, TypeOK, HandlersTypeOK
<1>5. /\ payment'[p].lastEventAt = log[e].at
      /\ \A q \in PaymentIds \ {p} : payment'[q] = payment[q]
      /\ payment[p].lastEventAt <= log[e].at
  BY <1>1, <1>3 DEF IInv, TypeOK, IsNewer, Never
<1>6. payment'[p] # NoRow
  <2>1. PAYMENT_STATUS_EVENTS[log[e].type] \in PaymentStatus
    BY <1>2, StatusTable DEF StatusEventsOf
  <2>2. [status |-> PAYMENT_STATUS_EVENTS[log[e].type], lastEventAt |-> log[e].at] \in PaymentRow
    BY <1>1, <2>1 DEF PaymentRow
  <2> QED
    BY <1>1, <2>2, PaymentsAssumption DEF IInv, TypeOK
<1>7. RowsGrow
  BY <1>5, <1>6, RowStamp DEF RowsGrow
<1>8. \A q \in PaymentIds : StatusEventsOf(q)' = StatusEventsOf(q)
  BY <1>4 DEF StatusEventsOf, EventsOf, Published
<1>9. FreshIsPending'
  BY <1>2, <1>5, <1>8 DEF SInv, FreshIsPending
<1>10. \A i \in Published, v \in Workers : WillSkip(v, i)' => WillSkip(v, i)
  BY <1>4 DEF WillSkip
<1> QED
  BY <1>4, <1>7, <1>9, <1>10, QuietKeepsSInv

LEMMA UpdateStatusKeepsSInv ==
  ASSUME IInv, IInv', SInv, NEW w \in Workers, UpdateStatus(w)
  PROVE  SInv'
<1> DEFINE row == payment[Event(w).payment]
<1>1. CASE row # NoRow /\ IsNewer(row, Event(w))
  BY <1>1, ApplyStatusKeepsSInv DEF UpdateStatus
<1>2. CASE ~(row # NoRow /\ IsNewer(row, Event(w)))
  BY <1>2, SkipStatusKeepsSInv DEF UpdateStatus
<1> QED
  BY <1>1, <1>2

LEMMA NextSInv == IInv /\ IInv' /\ SInv /\ [Next]_vars => SInv'
<1> SUFFICES ASSUME IInv, IInv', SInv, [Next]_vars PROVE SInv'
  OBVIOUS
<1>1. CASE UnitStep
  BY <1>1, UnitMovesKeepsSInv, UnitPostsKeepsSInv DEF UnitStep
<1>2. CASE ApiStep
  <2>1. PICK p \in PaymentIds :
          \/ Pay(p) \/ UnitAnswers(p) \/ InsertPayment(p) \/ LosePayment(p)
          \/ SimulateAchTransmit(p) \/ SimulateAchClear(p) \/ SimulateWireTransmit(p)
    BY <1>2 DEF ApiStep
  <2>2. CASE SimulateAchTransmit(p) \/ SimulateAchClear(p) \/ SimulateWireTransmit(p)
    BY <2>2, StatusTable, UnitMovesKeepsSInv
       DEF SimulateAchTransmit, SimulateAchClear, SimulateWireTransmit
  <2> QED
    BY <2>1, <2>2, PayKeepsSInv, UnitAnswersKeepsSInv, InsertPaymentKeepsSInv,
       LosePaymentKeepsSInv
<1>3. CASE Deliver
  BY <1>3, FrameKeepsSInv, StartHandlerKeepsSInv, UpdateStatusKeepsSInv, LinkingKeepsSInv
     DEF Deliver
<1>4. CASE Break
  BY <1>4, BreakKeepsSInv
<1>5. CASE UNCHANGED vars
  BY <1>5, RowlessKeepsSInv DEF vars, handlerVars, deliveryVars, WillSkip
<1> QED
  BY <1>1, <1>2, <1>3, <1>4, <1>5 DEF Next, Rest

LEMMA InitSInv == Init => SInv
<1> SUFFICES ASSUME Init PROVE SInv
  OBVIOUS
<1>1. /\ Published = {} /\ \A p \in PaymentIds : EventsOf(p) = {} /\ StatusEventsOf(p) = {}
  BY DEF Init, HandlersInit, DeliveryInit, Published, EventsOf, StatusEventsOf
<1>2. LogIsOrdered /\ SkippedIsShown
  BY <1>1 DEF LogIsOrdered, SkippedIsShown
<1>3. UnitFollowsLog
  BY <1>1 DEF Init, UnitFollowsLog
<1>4. FreshIsPending
  BY DEF Init, FreshIsPending, NewRow
<1>5. RecordedRowsStay
  BY NewRowType, PaymentsAssumption DEF Init, RecordedRowsStay, PaymentStatus
<1> QED
  BY <1>2, <1>3, <1>4, <1>5 DEF SInv

\* What relates the rows to Unit holds in every state of every execution.
THEOREM StatusInvariance == Spec => []SInv
<1> QED
  BY InitSInv, NextSInv, Invariance, PTL DEF Spec

-----------------------------------------------------------------------------
\* A set of positions has a greatest one.
LEMMA GreatestPosition ==
  ASSUME NEW n \in Nat, NEW S \in SUBSET (1..n), S # {}
  PROVE  \E e \in S : \A f \in S : f <= e
<1> DEFINE T == {n - e : e \in S}
           R == OpToRel(<, Nat)
<1>1. \A e \in S : e \in 1..n /\ e \in Nat /\ n - e \in Nat
  <2>1. \A e \in 1..n : e \in Nat /\ n - e \in Nat
    OBVIOUS
  <2> QED
    BY <2>1
<1>2. T \subseteq Nat /\ T # {}
  BY <1>1
<1>3. IsWellFoundedOn(R, Nat)
  BY NatLessThanWellFounded
<1>4. \A x, y \in Nat : <<y, x>> \in R <=> y < x
  BY SMT DEF OpToRel
<1> HIDE DEF R, T
<1>5. PICK x \in T : \A y \in T : ~ (<<y, x>> \in R)
  BY <1>2, <1>3, WFMin
<1>6. PICK e \in S : x = n - e
  BY DEF T
<1>7. ASSUME NEW f \in S PROVE f <= e
  <2>1. n - f \in T /\ n - e \in Nat /\ n - f \in Nat /\ e \in Nat /\ f \in Nat
    BY <1>1 DEF T
  <2>2. ~(n - f < n - e)
    BY <1>4, <1>5, <1>6, <2>1
  <2> QED
    BY <2>1, <2>2
<1> QED
  BY <1>6, <1>7

\* A row that knows of the last status event has Unit's status, but for a tie.
LEMMA ShownIsRight ==
  ASSUME IInv, SInv, NEW p \in PaymentIds, NEW e \in StatusEventsOf(p),
         \A f \in StatusEventsOf(p) : f <= e, Shows(e)
  PROVE  payment[p].status = unit[p] \/ (Tied(p) /\ 0 \in Gaps)
<1>1. /\ e \in Published /\ log[e].payment = p /\ log[e].at \in Nat /\ log[e].at # Never
      /\ unit[p] = PAYMENT_STATUS_EVENTS[log[e].type]
  BY LoggedEvents DEF StatusEventsOf, EventsOf, SInv, UnitFollowsLog
<1>2. /\ payment[p] # NoRow /\ log[e].at <= payment[p].lastEventAt
      /\ payment[p].lastEventAt \in Nat
  BY <1>1, RowStamp DEF Shows
<1>3. PICK f \in StatusEventsOf(p) : /\ log[f].at = payment[p].lastEventAt
                                     /\ PAYMENT_STATUS_EVENTS[log[f].type] = payment[p].status
  BY <1>1, <1>2 DEF IInv, StampIsOfEvent, StatusEventsOf, EventsOf, Never
<1>4. CASE f = e
  BY <1>1, <1>3, <1>4
<1>5. CASE f # e
  <2>1. f \in Published /\ log[f].at \in Nat /\ f < e
    BY <1>1, <1>5, LoggedEvents DEF StatusEventsOf, EventsOf, Published
  <2>2. log[f].at <= log[e].at /\ (0 \notin Gaps => log[f].at < log[e].at)
    BY <1>1, <2>1 DEF SInv, LogIsOrdered
  <2>3. log[f].at = log[e].at /\ 0 \in Gaps
    BY <1>1, <1>2, <1>3, <2>1, <2>2
  <2> QED
    BY <1>3, <1>5, <2>3 DEF Tied
<1> QED
  BY <1>4, <1>5

\* What the settled rows are.
LEMMA SettledRow ==
  ASSUME IInv, SInv, NEW p \in PaymentIds, Settled(p), payment[p] # NoRow
  PROVE  payment[p].status = unit[p] \/ CameTooEarly(p) \/ (Tied(p) /\ 0 \in Gaps)
<1>1. CASE StatusEventsOf(p) = {}
  BY <1>1 DEF SInv, FreshIsPending, UnitFollowsLog, IInv, RequestIsSound
<1>2. CASE StatusEventsOf(p) # {}
  <2>1. Len(log) \in Nat /\ StatusEventsOf(p) \in SUBSET (1..Len(log))
    BY DEF IInv, PipelineIsSound, StatusEventsOf, EventsOf, Published
  <2>2. PICK e \in StatusEventsOf(p) : \A f \in StatusEventsOf(p) : f <= e
    BY <1>2, <2>1, GreatestPosition
  <2>3. /\ e \in Published /\ e \in EventsOf(p) /\ log[e].payment = p
        /\ log[e].type \in StatusEvents /\ log[e].at \in Nat
        /\ audit[e] \in {"Processed", "Skipped"}
    BY <2>2, LoggedEvents DEF StatusEventsOf, EventsOf, Settled, Concluded, Terminal
  <2>4. CASE Shows(e)
    BY <2>2, <2>4, ShownIsRight
  <2>5. CASE ~Shows(e)
    <3>1. audit[e] = "Skipped" /\ p \notin Recorded
      BY <2>3, <2>5 DEF IInv, AppliedIsShown, SInv, SkippedIsShown
    <3>2. log[e].at > payment[p].lastEventAt
      BY <2>3, <2>5, RowStamp DEF Shows
    <3> QED
      BY <2>3, <3>1, <3>2 DEF CameTooEarly
  <2> QED
    BY <2>4, <2>5
<1> QED
  BY <1>1, <1>2

\* The safety core of StatusSettles: once the events of a payment are dealt with
\* and no request is about it, its row has Unit's status, however late, often
\* and disorderly they were handled; unless the last of them came before the row
\* (payments.repository.ts:63) or shares its millisecond with another.
THEOREM SettledStatus == Spec => []SettledIsRight
<1>1. IInv /\ SInv => SettledIsRight
  BY SettledRow DEF SettledIsRight
<1> QED
  BY <1>1, Invariance, StatusInvariance, PTL

\* Where no two events share a millisecond, no payment that has its row from the
\* start is ever left with a status that is not Unit's.
RecordedIsRight == \A p \in Recorded : Settled(p) => payment[p].status = unit[p]

THEOREM RecordedStatus == 0 \notin Gaps /\ Spec => []RecordedIsRight
<1>1. 0 \notin Gaps /\ IInv /\ SInv => RecordedIsRight
  BY SettledRow, PaymentsAssumption DEF RecordedIsRight, SInv, RecordedRowsStay, CameTooEarly
<1>2. 0 \notin Gaps => [](0 \notin Gaps)
  OBVIOUS
<1> QED
  BY <1>1, <1>2, Invariance, StatusInvariance, PTL
=============================================================================
