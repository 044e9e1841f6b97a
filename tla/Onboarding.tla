----------------------------- MODULE Onboarding -------------------------------
(***************************************************************************)
(* From an application to a customer who may open an account: POST         *)
(* /applications (applications.service.ts), the application.* handlers,    *)
(* which keep its status and make the customer once it is approved, and    *)
(* the customer.* handlers (webhook-event.processor.ts).                   *)
(*                                                                         *)
(* One action per database statement or answer of Unit.  The find before   *)
(* an updateMany is joined to it: rows are never deleted, and a row that   *)
(* appears between the two is as good as one that appears after both.      *)
(***************************************************************************)
EXTENDS EventHandlers

CONSTANTS Applications,
          Customers,      \* Unit's customers
          CustomerOf,     \* CustomerOf[a]: the customer Unit makes of a, or finds
          Submitted,      \* applications with a row when the model starts
          Onboarded,      \* customers with a row when the model starts
          Kinds,          \* the event types Unit publishes
          Gaps,           \* how much later than the last event the next one is
          NoRow           \* no row with this key

VARIABLES decided,        \* decided[a]: the application's status at Unit
          standing,       \* standing[c]: the customer's status at Unit
          application,    \* application[a]: its row, or NoRow
          customer,       \* customer[c]: its row, or NoRow
          submission      \* submission[a]: where its POST /applications is

unitVars == <<decided, standing>>
rowVars == <<application, customer>>
vars == <<handlerVars, unitVars, rowVars, submission>>

APPLICATION_STATUS_EVENTS ==
  [awaitingDocuments |-> "AwaitingDocuments", pendingReview |-> "PendingReview",
   approved |-> "Approved", denied |-> "Denied", canceled |-> "Canceled"]
\* The status customer.created, customer.updated and customer.archived set.
CUSTOMER_STATUS_EVENTS ==
  [customerCreated |-> "Active", customerUpdated |-> "Active",
   customerArchived |-> "Archived"]

StatusEvents == DOMAIN APPLICATION_STATUS_EVENTS
CustomerEvents == DOMAIN CUSTOMER_STATUS_EVENTS

ApplicationStatus ==
  {"AwaitingDocuments", "PendingReview", "Approved", "Denied", "Canceled"}
CustomerStatus == {"Active", "Archived"}
Undecided == {"AwaitingDocuments", "PendingReview"}

ApplicationRow == [status : ApplicationStatus, lastEventAt : Nat]
CustomerRow == [status : CustomerStatus, lastEventAt : Nat]

ASSUME OnboardingAssumption ==
  /\ CustomerOf \in [Applications -> Customers]
  /\ Submitted \subseteq Applications /\ Onboarded \subseteq Customers
  /\ Gaps \subseteq Nat
  /\ NoRow \notin ApplicationRow \cup CustomerRow

TypeOK ==
  /\ HandlersTypeOK({"update", "upsert", "customer"})
  /\ decided \in [Applications -> ApplicationStatus \cup {"None"}]
  /\ standing \in [Customers -> CustomerStatus \cup {"None"}]
  /\ application \in [Applications -> ApplicationRow \cup {NoRow}]
  /\ customer \in [Customers -> CustomerRow \cup {NoRow}]
  /\ submission \in [Applications -> [step : {"none", "call", "insert", "done"},
                                      status : ApplicationStatus]]

\* Mutant: a status of Unit without a local name.
NewRow_Unmapped(status) == [status |-> "undefined", lastEventAt |-> Never]
\* A row made from Unit's response, before any event.
NewRow(status) == [status |-> status, lastEventAt |-> Never]

Init ==
  /\ HandlersInit
  /\ decided = [a \in Applications |-> IF a \in Submitted THEN "PendingReview" ELSE "None"]
  /\ standing = [c \in Customers |-> IF c \in Onboarded THEN "Active" ELSE "None"]
  /\ application = [a \in Applications |->
       IF a \in Submitted THEN NewRow("PendingReview") ELSE NoRow]
  /\ customer = [c \in Customers |-> IF c \in Onboarded THEN NewRow("Active") ELSE NoRow]
  /\ submission = [a \in Applications |->
       [step |-> IF a \in Submitted THEN "done" ELSE "none", status |-> "PendingReview"]]

-----------------------------------------------------------------------------
(* Unit, from how src/ uses it.                                            *)

UnitEmits(type, a, c) ==
  /\ type \in Kinds
  /\ \E gap \in Gaps :
       Emit([type |-> type, application |-> a, customer |-> c, at |-> Later(gap)])
  /\ UNCHANGED <<step, outcome, faults, rowVars>>

\* The application moves on; an approval makes its applicant a customer.
UnitDecides(a, type) ==
  LET status == APPLICATION_STATUS_EVENTS[type]
      c == CustomerOf[a]
  IN /\ decided[a] \in Undecided \ {status}
     /\ UnitEmits(type, a, c)
     /\ decided' = [decided EXCEPT ![a] = status]
     /\ standing' = [standing EXCEPT ![c] =
          IF status = "Approved" /\ @ = "None" THEN "Active" ELSE @]
     /\ UNCHANGED submission

UnitUpdatesCustomer(c, type) ==
  /\ standing[c] = "Active"
  /\ \E a \in Applications : CustomerOf[a] = c /\ UnitEmits(type, a, c)
  /\ standing' = [standing EXCEPT ![c] = CUSTOMER_STATUS_EVENTS[type]]
  /\ UNCHANGED <<decided, submission>>

-----------------------------------------------------------------------------
(* POST /applications: createApplication.                                  *)

\* Unit has the application: it will publish application.created.
Submit(a) ==
  /\ submission[a].step = "none"
  /\ UnitEmits("created", a, CustomerOf[a])
  /\ decided' = [decided EXCEPT ![a] = "PendingReview"]
  /\ submission' = [submission EXCEPT ![a].step = "call"]
  /\ UNCHANGED standing

\* Unit's response has the status of this moment.
UnitAnswers(a) ==
  /\ submission[a].step = "call"
  /\ submission' = [submission EXCEPT ![a] = [step |-> "insert", status |-> decided[a]]]
  /\ UNCHANGED <<handlerVars, unitVars, rowVars>>

\* createApplicationRecord.
InsertApplication(a) ==
  /\ submission[a].step = "insert"
  /\ application' = [application EXCEPT ![a] = NewRow(submission[a].status)]
  /\ submission' = [submission EXCEPT ![a].step = "done"]
  /\ UNCHANGED <<handlerVars, unitVars, customer>>

\* The API dies before the insert, or the insert fails.  Nothing backfills it.
LoseApplication(a) ==
  /\ submission[a].step \in {"call", "insert"}
  /\ Fault
  /\ submission' = [submission EXCEPT ![a].step = "done"]
  /\ UNCHANGED <<deliveryVars, step, outcome, unitVars, rowVars>>

-----------------------------------------------------------------------------
(* A worker's run of processWebhookEvent.                                  *)

FirstStep(type) ==
  CASE type \in StatusEvents -> "update"
    [] type \in CustomerEvents -> "customer"
    [] OTHER -> "mark"

StartHandler(w, e) ==
  /\ Start(w, e, FirstStep(log[e].type))
  /\ UNCHANGED <<unitVars, rowVars, submission>>

\* Mutant: every decision makes a customer.
MakesCustomer_Always(type) == TRUE
MakesCustomer(type) == type = "approved"

\* applyApplicationStatusUpdate, and what follows from it: an event that was
\* not applied is skipped, an approval that was makes the customer next.
UpdateApplication(w) ==
  LET ev == Event(w)
      row == application[ev.application]
  IN /\ At(w, "update")
     /\ IF row # NoRow /\ IsNewer(row, ev)
        THEN /\ application' = [application EXCEPT ![ev.application] =
                  [status |-> APPLICATION_STATUS_EVENTS[ev.type], lastEventAt |-> ev.at]]
             /\ IF MakesCustomer(ev.type) THEN GoOn(w, "upsert") ELSE Return(w, "Processed")
        ELSE application' = application /\ Return(w, "Skipped")
     /\ UNCHANGED <<unitVars, customer, submission>>

\* upsertCustomerFromApprovedEvent: an existing customer is only stamped.
UpsertCustomer(w) ==
  LET ev == Event(w)
      row == customer[ev.customer]
  IN /\ At(w, "upsert")
     /\ customer' = [customer EXCEPT ![ev.customer] =
          [status |-> IF row = NoRow THEN "Active" ELSE row.status, lastEventAt |-> ev.at]]
     /\ Return(w, "Processed")
     /\ UNCHANGED <<unitVars, application, submission>>

\* applyCustomerStatusUpdate: Processed, whether it found a row or not.
UpdateCustomer(w) ==
  LET ev == Event(w)
      row == customer[ev.customer]
  IN /\ At(w, "customer")
     /\ customer' = IF row # NoRow /\ IsNewer(row, ev)
                    THEN [customer EXCEPT ![ev.customer] =
                           [status |-> CUSTOMER_STATUS_EVENTS[ev.type], lastEventAt |-> ev.at]]
                    ELSE customer
     /\ Return(w, "Processed")
     /\ UNCHANGED <<unitVars, application, submission>>

-----------------------------------------------------------------------------
UnitStep ==
  \/ \E a \in Applications, type \in StatusEvents : UnitDecides(a, type)
  \/ \E c \in Customers, type \in CustomerEvents : UnitUpdatesCustomer(c, type)

ApiStep == \E a \in Applications :
  Submit(a) \/ UnitAnswers(a) \/ InsertApplication(a) \/ LoseApplication(a)

\* Steps of the pipeline and the processor's frame leave the rows alone.
Frame ==
  /\ \/ \E e \in EventIds : Receive(e)
     \/ \E w \in Workers : MarkEvent(w)
  /\ UNCHANGED <<unitVars, rowVars, submission>>

Deliver ==
  \/ Frame
  \/ \E w \in Workers, e \in EventIds : StartHandler(w, e)
  \/ \E w \in Workers : UpdateApplication(w) \/ UpsertCustomer(w) \/ UpdateCustomer(w)

Break ==
  /\ \E w \in Workers : Throw(w) \/ Die(w)
  /\ UNCHANGED <<unitVars, rowVars, submission>>

EventsOf(a) == {e \in Published : log[e].application = a}

\* The application's events are dealt with, and no request is about it.
Settled(a) == Concluded(EventsOf(a)) /\ submission[a].step \in {"none", "done"}

Rest == (\A a \in Applications : Settled(a)) /\ UNCHANGED vars

Next == UnitStep \/ ApiStep \/ Deliver \/ Break \/ Rest

Spec == Init /\ [][Next]_vars

\* Recorded events are offered to free workers, whose handlers run on.
FairSpec == Spec /\ WF_vars(Deliver)

-----------------------------------------------------------------------------
(* Properties.                                                             *)

\* An application row shows the newest of the events that were applied to it,
\* though two workers may be at it at once: its stamp is that of an event with
\* its status, and no event marked Processed is later.
NewestDecisionStands ==
  \A a \in Applications : application[a] # NoRow =>
    LET row == application[a]
        events == {e \in EventsOf(a) : log[e].type \in StatusEvents}
    IN /\ row.lastEventAt # Never => \E e \in events :
            /\ log[e].at = row.lastEventAt
            /\ APPLICATION_STATUS_EVENTS[log[e].type] = row.status
       /\ \A e \in events : audit[e] = "Processed" => log[e].at <= row.lastEventAt

\* Nobody becomes a customer here whom Unit has not approved.
CustomersAreApproved ==
  \A c \in Customers \ Onboarded : customer[c] # NoRow =>
    \E e \in Published : log[e].type = "approved" /\ log[e].customer = c

\* README.md:28: a user whose application is approved can open an account,
\* for which createAccount wants a row in customers.
ApprovedHasCustomer ==
  \A a \in Applications :
    Settled(a) /\ application[a] # NoRow /\ application[a].status = "Approved" =>
      customer[CustomerOf[a]] # NoRow

\* A status event of application a was Skipped for want of a row, and the row
\* does not know of it (webhook-event.processor.ts:59).
CameTooEarly(a) ==
  /\ a \notin Submitted
  /\ \E e \in EventsOf(a) :
       /\ log[e].type \in StatusEvents
       /\ audit[e] = "Skipped" /\ log[e].at > application[a].lastEventAt

\* Under fair delivery the status of an application's row ends up and stays
\* with Unit's, and nothing but an event that came before the row can be missing.
StatusSettles ==
  \A a \in Applications : <>[](\/ application[a] = NoRow
                               \/ application[a].status = decided[a]
                               \/ CameTooEarly(a))

\* A customer event came to nothing, though it is marked Processed: it was
\* handled before an approval made the row (webhook-event.processor.ts:121), or
\* an approval has set the stamp back below it, or on past it (:105).
Overlooked(c) ==
  \E e, approval \in Published :
    /\ log[e].customer = c /\ log[e].type \in CustomerEvents
    /\ log[approval].customer = c /\ log[approval].type = "approved"
    /\ audit[e] = "Processed"
    /\ \/ log[e].at > customer[c].lastEventAt
       \/ log[approval].at = customer[c].lastEventAt

\* Likewise that of a customer's row, and nothing can come in the way but the
\* approval of an application of theirs, which sets the stamp whatever it was.
StandingSettles ==
  \A c \in Customers : <>[](\/ customer[c] = NoRow
                            \/ customer[c].status = standing[c]
                            \/ Overlooked(c))
=============================================================================
