-------------------------------- MODULE Cards ---------------------------------
(***************************************************************************)
(* Debit cards and their status: POST /cards and the five card actions     *)
(* (cards.service.ts), which change Unit first and then write the row,     *)
(* unconditionally, and the card.statusChanged handler, which writes the   *)
(* same row under its guard (card-event.handler.ts, cards.repository.ts).  *)
(*                                                                         *)
(* A session is a request being served: of one user in two tabs, of two    *)
(* API processes, or of a request that hangs while the user goes on.  One  *)
(* action per database statement or call to Unit.                          *)
(***************************************************************************)
EXTENDS EventHandlers

CONSTANTS CardIds,
          Issued,         \* cards with a row when the model starts
          Sessions,       \* card actions being served at the same time
          Actions,        \* the card actions clients ask for
          UnitActions,    \* what Unit does to a card by itself
          Gaps,           \* how much later than the last event the next one is
          MaxRequests,    \* bound: card actions asked for
          NoRow, NoCard

VARIABLES unit,           \* unit[c]: the card's status at Unit
          card,           \* card[c]: its row, or NoRow
          issuing,        \* issuing[c]: where the POST /cards for it is
          session,        \* session[s]: [card, action, step]
          asked           \* bound: card actions asked for so far

vars == <<handlerVars, unit, card, issuing, session, asked>>

\* The status the row gets from each action, and from what Unit does itself.
TARGET_STATUS ==
  [freeze |-> "Frozen", unfreeze |-> "Active", close |-> "ClosedByCustomer",
   reportStolen |-> "Stolen", reportLost |-> "Lost", suspect |-> "SuspectedFraud"]
CardStatus == {"Active", "Inactive", "Frozen", "ClosedByCustomer", "Stolen", "Lost",
               "SuspectedFraud"}

CardRow == [status : CardStatus, lastEventAt : Nat]
NoSession == [card |-> NoCard, action |-> "none", step |-> "idle"]

ASSUME CardsAssumption ==
  /\ Issued \subseteq CardIds /\ NoCard \notin CardIds
  /\ Actions \cup UnitActions \subseteq DOMAIN TARGET_STATUS
  /\ Gaps \subseteq Nat /\ MaxRequests \in Nat
  /\ NoRow \notin CardRow

TypeOK ==
  /\ HandlersTypeOK({"status"})
  /\ unit \in [CardIds -> CardStatus \cup {"None"}]
  /\ card \in [CardIds -> CardRow \cup {NoRow}]
  /\ issuing \in [CardIds -> {"none", "insert", "done"}]
  /\ session \in [Sessions -> [card : CardIds \cup {NoCard}, action : Actions \cup {"none"},
                               step : {"idle", "call", "write"}]]
  /\ asked \in 0..MaxRequests

\* Mutant: a status of Unit without a local name.
NewRow_Unmapped(status) == [status |-> "undefined", lastEventAt |-> Never]
\* A row made from Unit's response, before any event.
NewRow(status) == [status |-> status, lastEventAt |-> Never]

Init ==
  /\ HandlersInit
  /\ unit = [c \in CardIds |-> IF c \in Issued THEN "Active" ELSE "None"]
  /\ card = [c \in CardIds |-> IF c \in Issued THEN NewRow("Active") ELSE NoRow]
  /\ issuing = [c \in CardIds |-> IF c \in Issued THEN "done" ELSE "none"]
  /\ session = [s \in Sessions |-> NoSession]
  /\ asked = 0

-----------------------------------------------------------------------------
(* Unit, from how src/ uses it.                                            *)

UnitEmits(type, c, status) ==
  \E gap \in Gaps : Emit([type |-> type, card |-> c, newStatus |-> status, at |-> Later(gap)])

\* What Unit lets be done to a card.
Allowed(c, action) ==
  CASE action = "unfreeze" -> unit[c] = "Frozen"
    [] action \in {"freeze", "suspect"} -> unit[c] = "Active"
    [] OTHER -> unit[c] \in {"Active", "Frozen"}

\* The card's status changes at Unit, which publishes card.statusChanged.
UnitChanges(c, action) ==
  /\ Allowed(c, action)
  /\ unit' = [unit EXCEPT ![c] = TARGET_STATUS[action]]
  /\ UnitEmits("statusChanged", c, TARGET_STATUS[action])

\* Unit, or an operator in its dashboard, does so.
UnitActs(c, action) ==
  /\ UnitChanges(c, action)
  /\ UNCHANGED <<step, outcome, faults, card, issuing, session, asked>>

-----------------------------------------------------------------------------
(* POST /cards: issueCard, for an eligible account.                        *)

CreateCard(c) ==
  /\ unit[c] = "None"
  /\ unit' = [unit EXCEPT ![c] = "Active"]
  /\ UnitEmits("created", c, "Active")
  /\ issuing' = [issuing EXCEPT ![c] = "insert"]
  /\ UNCHANGED <<step, outcome, faults, card, session, asked>>

\* createCardRecord stores the status of Unit's response.
InsertCard(c) ==
  /\ issuing[c] = "insert"
  /\ card' = [card EXCEPT ![c] = NewRow("Active")]
  /\ issuing' = [issuing EXCEPT ![c] = "done"]
  /\ UNCHANGED <<handlerVars, unit, session, asked>>

\* The API dies in between, or the insert fails.
LoseCard(c) ==
  /\ issuing[c] = "insert"
  /\ Fault
  /\ issuing' = [issuing EXCEPT ![c] = "done"]
  /\ UNCHANGED <<deliveryVars, step, outcome, unit, card, session, asked>>

-----------------------------------------------------------------------------
(* POST /cards/:id/freeze and its kind: applyCardAction.                   *)

\* A tab asks with one of the buttons of CardActions, which are all disabled
\* while one is at work.  (findCardById: the card has a row.)
Ask(s, c, action) ==
  /\ session[s] = NoSession
  /\ card[c] # NoRow
  /\ asked < MaxRequests
  /\ asked' = asked + 1
  /\ session' = [session EXCEPT ![s] = [card |-> c, action |-> action, step |-> "call"]]
  /\ UNCHANGED <<handlerVars, unit, card, issuing>>

\* Unit does what it is asked; the response is on its way.
CallUnit(s) ==
  /\ session[s].step = "call"
  /\ UnitChanges(session[s].card, session[s].action)
  /\ session' = [session EXCEPT ![s].step = "write"]
  /\ UNCHANGED <<step, outcome, faults, card, issuing, asked>>

\* Mutant: the row is written whatever Unit answers.
AfterRefusal_Write(s) == [session[s] EXCEPT !.step = "write"]
\* The 422 of a UnitApiError: the row stays.
AfterRefusal(s) == NoSession

UnitRefuses(s) ==
  /\ session[s].step = "call"
  /\ ~Allowed(session[s].card, session[s].action)
  /\ session' = [session EXCEPT ![s] = AfterRefusal(s)]
  /\ UNCHANGED <<handlerVars, unit, card, issuing, asked>>

\* updateCardStatusById: no guard, and no stamp.
WriteStatus(s) ==
  /\ session[s].step = "write"
  /\ card' = [card EXCEPT ![session[s].card].status = TARGET_STATUS[session[s].action]]
  /\ session' = [session EXCEPT ![s] = NoSession]
  /\ UNCHANGED <<handlerVars, unit, issuing, asked>>

\* The API dies, the response is lost or the update fails.
LoseSession(s) ==
  /\ session[s] # NoSession
  /\ Fault
  /\ session' = [session EXCEPT ![s] = NoSession]
  /\ UNCHANGED <<deliveryVars, step, outcome, unit, card, issuing, asked>>

-----------------------------------------------------------------------------
(* A worker's run of handleCardEvent.                                      *)

\* card.created, like any type but card.statusChanged, is acknowledged.
FirstStep(type) == IF type = "statusChanged" THEN "status" ELSE "mark"

StartHandler(w, e) ==
  /\ Start(w, e, FirstStep(log[e].type))
  /\ UNCHANGED <<unit, card, issuing, session, asked>>

\* applyCardStatusUpdate.
UpdateStatus(w) ==
  LET ev == Event(w)
      row == card[ev.card]
  IN /\ At(w, "status")
     /\ IF row # NoRow /\ IsNewer(row, ev)
        THEN /\ card' = [card EXCEPT ![ev.card] =
                  [status |-> ev.newStatus, lastEventAt |-> ev.at]]
             /\ Return(w, "Processed")
        ELSE card' = card /\ Return(w, "Skipped")
     /\ UNCHANGED <<unit, issuing, session, asked>>

-----------------------------------------------------------------------------
UnitStep == \E c \in CardIds, action \in UnitActions : UnitActs(c, action)

ApiStep ==
  \/ \E c \in CardIds : CreateCard(c) \/ InsertCard(c) \/ LoseCard(c)
  \/ \E s \in Sessions :
       \/ \E c \in CardIds, action \in Actions : Ask(s, c, action)
       \/ LoseSession(s)

Serve == \E s \in Sessions : CallUnit(s) \/ UnitRefuses(s) \/ WriteStatus(s)

\* Steps of the pipeline and the processor's frame leave the rows alone.
Frame ==
  /\ \/ \E e \in EventIds : Receive(e)
     \/ \E w \in Workers : MarkEvent(w)
  /\ UNCHANGED <<unit, card, issuing, session, asked>>

Deliver ==
  \/ Frame
  \/ \E w \in Workers, e \in EventIds : StartHandler(w, e)
  \/ \E w \in Workers : UpdateStatus(w)

Break ==
  /\ \E w \in Workers : Throw(w) \/ Die(w)
  /\ UNCHANGED <<unit, card, issuing, session, asked>>

EventsOf(c) == {e \in Published : log[e].card = c}

\* The card's events are dealt with, and no request is about it.
Settled(c) ==
  /\ Concluded(EventsOf(c))
  /\ issuing[c] # "insert"
  /\ \A s \in Sessions : session[s].card # c

\* The log may be full when Unit would have to publish another change.
Rest ==
  /\ \A c \in CardIds : Settled(c) \/ Len(log) = MaxEvents
  /\ \A e \in Published : audit[e] \in Terminal
  /\ UNCHANGED vars

Next == UnitStep \/ ApiStep \/ Serve \/ Deliver \/ Break \/ Rest

Spec == Init /\ [][Next]_vars

\* Requests are served, recorded events are offered to free workers.
FairSpec == Spec /\ WF_vars(Deliver) /\ \A s \in Sessions : WF_vars(WriteStatus(s))

-----------------------------------------------------------------------------
(* Properties.                                                             *)

\* A card never shows a status that Unit did not give it: an action that Unit
\* refused, or was not reached for, leaves no trace.
NothingInvented ==
  \A c \in CardIds : card[c] # NoRow =>
    \/ card[c].status = "Active"
    \/ \E e \in EventsOf(c) :
         log[e].type = "statusChanged" /\ log[e].newStatus = card[c].status

\* Once a card's events and requests are dealt with, its row shows Unit's
\* status.  The comment at cards.repository.ts:46-53 sees no staleness to guard
\* the synchronous write against.
StatusIsUnits ==
  \A c \in CardIds : Settled(c) /\ card[c] # NoRow => card[c].status = unit[c]

\* An action of this card that Unit has carried out is still to be written, and
\* the card has changed again at Unit.
Overtaken(c) ==
  \E s \in Sessions : /\ session[s].card = c /\ session[s].step = "write"
                     /\ unit[c] # TARGET_STATUS[session[s].action]

\* Under fair delivery the row of a card ends up and stays with Unit's status,
\* whichever of the synchronous write and the webhook is last or lost: as long
\* as the card never changes again between Unit's answer and its write.
StatusSettles ==
  \A c \in Issued : []~Overtaken(c) => <>[](card[c].status = unit[c])
=============================================================================
