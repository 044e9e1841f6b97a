------------------------------- MODULE Payments -------------------------------
(***************************************************************************)
(* Payments: POST /payments (payments.service.ts), which makes the payment *)
(* at Unit and then inserts its row, the payment.* handlers, which keep    *)
(* its status (payment-event.handler.ts, payments.repository.ts), and the  *)
(* link that a payment's transaction gets to it when the transaction is    *)
(* recorded (transaction-event.handler.ts).  The money itself is the       *)
(* business of Ledger.tla.                                                 *)
(*                                                                         *)
(* One action per database statement or answer of Unit.                    *)
(***************************************************************************)
EXTENDS EventHandlers

CONSTANTS PaymentIds,     \* payments at Unit, present and future
          Recorded,       \* payments with a row when the model starts
          AchPayments,    \* payments of the rail ACH ...
          WirePayments,   \* ... and by wire; the others are book payments
          Kinds,          \* the event types Unit publishes
          Gaps,           \* how much later than the last event the next one is
          NoRow           \* no row with this key

VARIABLES unit,           \* unit[p]: the payment's status at Unit
          payment,        \* payment[p]: its row, or NoRow
          link,           \* link[e]: the payment of the transaction e recorded
          looked,         \* looked[w]: the link w has found for its transaction
          paying,         \* paying[p]: where its POST /payments is
          early           \* history: transactions posted before their payment's row

vars == <<handlerVars, unit, payment, link, looked, paying, early>>

PAYMENT_STATUS_EVENTS ==
  [pendingReview |-> "PendingReview", rejected |-> "Rejected", clearing |-> "Clearing",
   sent |-> "Sent", canceled |-> "Canceled"]
StatusEvents == DOMAIN PAYMENT_STATUS_EVENTS

PaymentStatus == {"Pending", "PendingReview", "Clearing", "Sent", "Rejected", "Canceled"}
PaymentRow == [status : PaymentStatus, lastEventAt : Nat]
\* A transaction without a row, and one recorded without a payment.
Links == PaymentIds \cup {"unrecorded", "unlinked"}

ASSUME PaymentsAssumption ==
  /\ Recorded \subseteq PaymentIds
  /\ AchPayments \subseteq PaymentIds /\ WirePayments \subseteq PaymentIds
  /\ AchPayments \cap WirePayments = {}
  /\ PaymentIds \cap {"unrecorded", "unlinked"} = {}
  /\ Gaps \subseteq Nat
  /\ NoRow \notin PaymentRow

TypeOK ==
  /\ HandlersTypeOK({"status", "look", "record"})
  /\ unit \in [PaymentIds -> PaymentStatus \cup {"None"}]
  /\ payment \in [PaymentIds -> PaymentRow \cup {NoRow}]
  /\ link \in [EventIds -> Links]
  /\ looked \in [Workers -> Links]
  /\ paying \in [PaymentIds -> [step : {"none", "call", "insert", "done"},
                                status : PaymentStatus]]
  /\ early \subseteq EventIds

\* Mutant: a status of Unit without a local name.
NewRow_Unmapped(status) == [status |-> "undefined", lastEventAt |-> Never]
\* A row made from Unit's response, before any event.
NewRow(status) == [status |-> status, lastEventAt |-> Never]

Init ==
  /\ HandlersInit
  /\ unit = [p \in PaymentIds |-> IF p \in Recorded THEN "Pending" ELSE "None"]
  /\ payment = [p \in PaymentIds |-> IF p \in Recorded THEN NewRow("Pending") ELSE NoRow]
  /\ link = [e \in EventIds |-> "unrecorded"]
  /\ looked = [w \in Workers |-> "unlinked"]
  /\ paying = [p \in PaymentIds |->
       [step |-> IF p \in Recorded THEN "done" ELSE "none", status |-> "Pending"]]
  /\ early = {}

-----------------------------------------------------------------------------
(* Unit, from how src/ uses it.                                            *)

UnitEmits(type, p) ==
  /\ type \in Kinds
  /\ \E gap \in Gaps : Emit([type |-> type, payment |-> p, at |-> Later(gap)])
  /\ UNCHANGED <<step, outcome, faults, payment, link, looked, early>>

\* How a payment moves on at Unit.
CanBecome(status) ==
  CASE status = "Pending" -> {"PendingReview", "Clearing", "Sent", "Rejected", "Canceled"}
    [] status = "PendingReview" -> {"Clearing", "Rejected", "Canceled"}
    [] status = "Clearing" -> {"Sent", "Rejected"}
    [] OTHER -> {}

UnitMoves(p, type) ==
  /\ PAYMENT_STATUS_EVENTS[type] \in CanBecome(unit[p])
  /\ UnitEmits(type, p)
  /\ unit' = [unit EXCEPT ![p] = PAYMENT_STATUS_EVENTS[type]]
  /\ UNCHANGED paying

\* The payment moves money: a transaction posts, which names it.
UnitPosts(p) ==
  /\ unit[p] # "None"
  /\ \A e \in Published : ~(log[e].type = "transaction" /\ log[e].payment = p)
  /\ UnitEmits("transaction", p)
  /\ UNCHANGED <<unit, paying>>

-----------------------------------------------------------------------------
(* The sandbox endpoints (sandbox.service.ts): they find the payment's row *)
(* and have Unit move the payment, which refuses what does not fit its     *)
(* rail and status.  They write nothing; the webhook does.                 *)

CanSimulate(p, rail) == p \in rail /\ payment[p] # NoRow

SimulateAchTransmit(p) ==
  CanSimulate(p, AchPayments) /\ unit[p] = "Pending" /\ UnitMoves(p, "clearing")

SimulateAchClear(p) ==
  CanSimulate(p, AchPayments) /\ unit[p] = "Clearing" /\ UnitMoves(p, "sent")

SimulateWireTransmit(p) ==
  CanSimulate(p, WirePayments) /\ unit[p] = "Pending" /\ UnitMoves(p, "sent")

-----------------------------------------------------------------------------
(* POST /payments: createPayment, for an eligible account.                 *)

\* createBookPayment, createAchPayment or createWirePayment.
Pay(p) ==
  /\ unit[p] = "None"
  /\ UnitEmits("created", p)
  /\ unit' = [unit EXCEPT ![p] = "Pending"]
  /\ paying' = [paying EXCEPT ![p].step = "call"]

\* Unit's response has the status of this moment: a book payment's is Sent.
UnitAnswers(p) ==
  /\ paying[p].step = "call"
  /\ paying' = [paying EXCEPT ![p] = [step |-> "insert", status |-> unit[p]]]
  /\ UNCHANGED <<handlerVars, unit, payment, link, looked, early>>

EventsOf(p) == {e \in Published : log[e].payment = p}

\* createPaymentRecord.
InsertPayment(p) ==
  /\ paying[p].step = "insert"
  /\ payment' = [payment EXCEPT ![p] = NewRow(paying[p].status)]
  /\ paying' = [paying EXCEPT ![p].step = "done"]
  /\ early' = early \cup {e \in EventsOf(p) : log[e].type = "transaction"}
  /\ UNCHANGED <<handlerVars, unit, link, looked>>

\* The API dies before the insert, or the insert fails: payment.created is
\* only acknowledged, so the payment stays unknown here.
LosePayment(p) ==
  /\ paying[p].step \in {"call", "insert"}
  /\ Fault
  /\ paying' = [paying EXCEPT ![p].step = "done"]
  /\ UNCHANGED <<deliveryVars, step, outcome, unit, payment, link, looked, early>>

-----------------------------------------------------------------------------
(* A worker's run of the handlers.                                         *)

\* payment.created and payment.updated are acknowledged.
FirstStep(type) ==
  CASE type \in StatusEvents -> "status"
    [] type = "transaction" -> "look"
    [] OTHER -> "mark"

StartHandler(w, e) ==
  /\ Start(w, e, FirstStep(log[e].type))
  /\ UNCHANGED <<unit, payment, link, looked, paying, early>>

\* applyPaymentStatusUpdate.
UpdateStatus(w) ==
  LET ev == Event(w)
      row == payment[ev.payment]
  IN /\ At(w, "status")
     /\ IF row # NoRow /\ IsNewer(row, ev)
        THEN /\ payment' = [payment EXCEPT ![ev.payment] =
                  [status |-> PAYMENT_STATUS_EVENTS[ev.type], lastEventAt |-> ev.at]]
             /\ Return(w, "Processed")
        ELSE payment' = payment /\ Return(w, "Skipped")
     /\ UNCHANGED <<unit, link, looked, paying, early>>

\* Mutants: a payment is found once it is through; the payment is taken from the
\* event without looking for its row.
Found_Sent(p) ==
  IF payment[p] = NoRow \/ payment[p].status # "Sent" THEN "unlinked" ELSE p
Found_Unchecked(p) == p
\* What a transaction of payment p will be linked to.
Found(p) == IF payment[p] = NoRow THEN "unlinked" ELSE p

\* findPaymentByUnitPaymentId, before the row lock of the account is taken.
LookForPayment(w) ==
  /\ At(w, "look")
  /\ looked' = [looked EXCEPT ![w] = Found(Event(w).payment)]
  /\ GoOn(w, "record")
  /\ UNCHANGED <<unit, payment, link, paying, early>>

\* applyTransactionCreated keeps the transaction it has (existing).
Relinks(e) == link[e] = "unrecorded"

\* applyTransactionCreated, as far as the link goes: it records the transaction
\* with its link, or skips it because it has it, because the account has had
\* a later event or because it has no row (see Ledger.tla).
RecordTransaction(w) ==
  LET e == running[w]
  IN /\ At(w, "record")
     /\ \/ /\ Relinks(e)
           /\ link' = [link EXCEPT ![e] = looked[w]]
           /\ Return(w, "Processed")
        \/ link' = link /\ Return(w, "Skipped")
     /\ looked' = [looked EXCEPT ![w] = "unlinked"]
     /\ UNCHANGED <<unit, payment, paying, early>>

-----------------------------------------------------------------------------
UnitStep ==
  \/ \E p \in PaymentIds, type \in StatusEvents : UnitMoves(p, type)
  \/ \E p \in PaymentIds : UnitPosts(p)

ApiStep == \E p \in PaymentIds :
  \/ Pay(p) \/ UnitAnswers(p) \/ InsertPayment(p) \/ LosePayment(p)
  \/ SimulateAchTransmit(p) \/ SimulateAchClear(p) \/ SimulateWireTransmit(p)

\* Steps of the pipeline and the processor's frame leave the rows alone.
Frame ==
  /\ \/ \E e \in EventIds : Receive(e)
     \/ \E w \in Workers : MarkEvent(w)
  /\ UNCHANGED <<unit, payment, link, looked, paying, early>>

Deliver ==
  \/ Frame
  \/ \E w \in Workers, e \in EventIds : StartHandler(w, e)
  \/ \E w \in Workers : UpdateStatus(w) \/ LookForPayment(w) \/ RecordTransaction(w)

Break ==
  /\ \E w \in Workers : /\ Throw(w) \/ Die(w)
                        /\ looked' = [looked EXCEPT ![w] = "unlinked"]
  /\ UNCHANGED <<unit, payment, link, paying, early>>

\* The payment's events are dealt with, and no request is about it.
Settled(p) == Concluded(EventsOf(p)) /\ paying[p].step \in {"none", "done"}

Rest == (\A p \in PaymentIds : Settled(p)) /\ UNCHANGED vars

Next == UnitStep \/ ApiStep \/ Deliver \/ Break \/ Rest

Spec == Init /\ [][Next]_vars

\* Recorded events are offered to free workers, whose handlers run on.
FairSpec == Spec /\ WF_vars(Deliver)

-----------------------------------------------------------------------------
(* Properties.                                                             *)

\* A payment's row shows the newest of the events that were applied to it,
\* though two workers may be at it at once: no event marked Processed is later
\* than its stamp, and the stamp is that of an event with its status.
NewestStatusStands ==
  \A p \in PaymentIds : payment[p] # NoRow =>
    LET row == payment[p]
        events == {e \in EventsOf(p) : log[e].type \in StatusEvents}
    IN /\ row.lastEventAt # Never => \E e \in events :
            /\ log[e].at = row.lastEventAt
            /\ PAYMENT_STATUS_EVENTS[log[e].type] = row.status
       /\ \A e \in events : audit[e] = "Processed" => log[e].at <= row.lastEventAt

\* A link in the ledger leads to a payment that has a row (the foreign key
\* would refuse another), though the row is looked for outside the transaction
\* that writes the link.
LinksLead ==
  \A e \in EventIds : link[e] \in PaymentIds => payment[link[e]] # NoRow

\* Of the transactions in the ledger whose payment has a row, only those that
\* posted before there was one can be without a link: one that posts later gets
\* it, whichever worker and attempt records it, and whatever has failed before.
UnlinkedWasEarly ==
  \A e \in EventIds : link[e] = "unlinked" =>
    e \in early \/ payment[log[e].payment] = NoRow

\* A status event of payment p was Skipped for want of a row, and the row does
\* not know of it (payments.repository.ts:63).
CameTooEarly(p) ==
  /\ p \notin Recorded
  /\ \E e \in EventsOf(p) :
       /\ log[e].type \in StatusEvents
       /\ audit[e] = "Skipped" /\ log[e].at > payment[p].lastEventAt

\* Under fair delivery the status of a row ends up and stays with Unit's,
\* however late, often and disorderly its events were handled, and nothing but
\* one that came before the row can be missing.
StatusSettles ==
  \A p \in PaymentIds : <>[](\/ payment[p] = NoRow
                             \/ payment[p].status = unit[p]
                             \/ CameTooEarly(p))
=============================================================================
