----------------------------- MODULE CardsProofs ------------------------------
(***************************************************************************)
(* Theorems about Cards.tla, for any cards, sessions, workers, events, gaps *)
(* and faults: no card shows a status that Unit did not give it, and when  *)
(* the row of a settled card is Unit's.  A session that is to write its    *)
(* status holds it since Unit has answered, whatever has become of the     *)
(* card; IInv says that Unit has published it by then, SInv what the       *)
(* stamps and the verdicts on events tell of the rows.                     *)
(***************************************************************************)
EXTENDS Cards, SequenceTheorems, WellFoundedInduction, TLAPS

CardEvent == [type : {"created", "statusChanged"}, card : CardIds, newStatus : CardStatus,
              at : Nat \ {Never}]

\* Events are well-formed; what is audited or run has been published.
PipelineIsSound ==
  /\ log \in Seq(CardEvent)
  /\ \A e \in EventIds : audit[e] # "Absent" => e \in Published
  /\ \A w \in Workers : running[w] # NoEvent => running[w] \in Published

\* A handler that writes has an event to write.
HandlerIsSound ==
  \A w \in Workers :
    /\ step[w] # "idle" => running[w] # NoEvent
    /\ step[w] = "status" => Event(w).type = "statusChanged"

\* Unit has changed the status of card c to this.
Given(c, status) ==
  \E e \in Published :
    /\ log[e].card = c /\ log[e].type = "statusChanged" /\ log[e].newStatus = status

\* A session is about a card with a row, and writes what Unit has done.
SessionsAreSound ==
  \A s \in Sessions : session[s].step # "idle" =>
    /\ session[s].card \in CardIds /\ card[session[s].card] # NoRow
    /\ session[s].action \in Actions
    /\ session[s].step = "write" =>
         Given(session[s].card, TARGET_STATUS[session[s].action])

IInv ==
  /\ TypeOK
  /\ PipelineIsSound
  /\ HandlerIsSound
  /\ SessionsAreSound
  /\ NothingInvented

-----------------------------------------------------------------------------
\* The statuses that actions give are statuses of cards.
LEMMA TargetType ==
  ASSUME NEW action \in Actions \cup UnitActions
  PROVE  TARGET_STATUS[action] \in CardStatus
<1>1. action \in DOMAIN TARGET_STATUS
  BY CardsAssumption
<1> QED
  BY <1>1 DEF TARGET_STATUS, CardStatus

\* What NothingInvented says of a card with a row.
LEMMA InventedNot ==
  NothingInvented <=>
    \A c \in CardIds : card[c] # NoRow => card[c].status = "Active" \/ Given(c, card[c].status)
BY DEF NothingInvented, EventsOf, Given

LEMMA InventedNotNext ==
  NothingInvented' <=>
    \A c \in CardIds :
      card'[c] # NoRow => card'[c].status = "Active" \/ Given(c, card[c].status)'
BY DEF NothingInvented, EventsOf, Given

\* A fresh row shows an active card.
LEMMA NewRowType == NewRow("Active") \in CardRow /\ NewRow("Active").status = "Active"
BY DEF NewRow, CardRow, CardStatus, Never

\* Every published event is a well-formed one.
LEMMA LoggedEvents ==
  ASSUME IInv, NEW e \in Published
  PROVE  /\ log[e] \in CardEvent /\ log[e].card \in CardIds
         /\ log[e].newStatus \in CardStatus
         /\ log[e].at \in Nat /\ log[e].at # Never
         /\ e \in EventIds
<1>1. log[e] \in CardEvent
  BY DEF IInv, PipelineIsSound, Published
<1>2. Len(log) \in Nat /\ Len(log) <= MaxEvents
  BY DEF IInv, PipelineIsSound, TypeOK, HandlersTypeOK, DeliveryTypeOK
<1> QED
  BY <1>1, <1>2, DeliveryAssumption DEF CardEvent, Published, EventIds

\* A worker that runs a handler runs a published event.
LEMMA RunningEvent ==
  ASSUME IInv, NEW w \in Workers, running[w] # NoEvent
  PROVE  /\ running[w] \in Published /\ running[w] \in EventIds
         /\ Event(w) = log[running[w]]
         /\ Event(w).card \in CardIds /\ Event(w).newStatus \in CardStatus
         /\ Event(w).at \in Nat
<1>1. running[w] \in Published
  BY DEF IInv, PipelineIsSound
<1> QED
  BY <1>1, LoggedEvents DEF Event

\* Init establishes the invariant.
LEMMA InitIInv == Init => IInv
<1> SUFFICES ASSUME Init PROVE IInv
  OBVIOUS
<1> USE CardsAssumption, HandlersAssumption, DeliveryAssumption
<1>1. HandlersTypeOK({"status"})
  BY DEF Init, HandlersInit, DeliveryInit, HandlersTypeOK, DeliveryTypeOK, EventIds, NoEvent,
         Verdicts, Terminal
<1>2. TypeOK
  <2>1. unit \in [CardIds -> CardStatus \cup {"None"}]
    BY DEF Init, CardStatus
  <2>2. card \in [CardIds -> CardRow \cup {NoRow}]
    BY NewRowType DEF Init
  <2>3. /\ issuing \in [CardIds -> {"none", "insert", "done"}]
        /\ asked \in 0..MaxRequests
    BY DEF Init
  <2>4. session \in [Sessions -> [card : CardIds \cup {NoCard}, action : Actions \cup {"none"},
                                  step : {"idle", "call", "write"}]]
    BY DEF Init, NoSession
  <2> QED
    BY <1>1, <2>1, <2>2, <2>3, <2>4 DEF TypeOK
<1>3. PipelineIsSound /\ HandlerIsSound
  BY DEF Init, HandlersInit, DeliveryInit, PipelineIsSound, HandlerIsSound
<1>4. SessionsAreSound
  BY DEF Init, SessionsAreSound, NoSession
<1>5. NothingInvented
  BY NewRowType, InventedNot DEF Init
<1> QED
  BY <1>2, <1>3, <1>4, <1>5 DEF IInv

-----------------------------------------------------------------------------
(* Steps that publish an event.                                            *)

\* The next event has a time, which is not that of a row without events.
LEMMA LaterType ==
  ASSUME IInv, NEW gap \in Gaps
  PROVE  Later(gap) \in Nat \ {Never}
<1> DEFINE last == IF log = <<>> THEN Never ELSE log[Len(log)].at
<1>1. last \in Nat
  <2>1. CASE log = <<>>
    BY <2>1 DEF Never
  <2>2. CASE log # <<>>
    <3>1. log \in Seq(CardEvent)
      BY DEF IInv, PipelineIsSound
    <3>2. Len(log) \in Published
      BY <2>2, <3>1, EmptySeq DEF Published
    <3> QED
      BY <2>2, <3>2, LoggedEvents
  <2> QED
    BY <2>1, <2>2
<1>2. gap \in Nat
  BY CardsAssumption
<1> QED
  BY <1>1, <1>2 DEF Later, Never

LEMMA EmitGrowsLog ==
  ASSUME IInv, NEW type \in {"created", "statusChanged"}, NEW c \in CardIds,
         NEW status \in CardStatus, UnitEmits(type, c, status)
  PROVE  /\ log' \in Seq(CardEvent)
         /\ Len(log') = Len(log) + 1 /\ Len(log') <= MaxEvents
         /\ \A e \in Published : log'[e] = log[e]
         /\ Published \subseteq Published' /\ Len(log') \in Published'
         /\ log'[Len(log')].type = type /\ log'[Len(log')].card = c
         /\ log'[Len(log')].newStatus = status
         /\ UNCHANGED <<audit, running>>
<1>1. PICK gap \in Gaps :
        Emit([type |-> type, card |-> c, newStatus |-> status, at |-> Later(gap)])
  BY DEF UnitEmits
<1> DEFINE ev == [type |-> type, card |-> c, newStatus |-> status, at |-> Later(gap)]
<1>2. ev \in CardEvent /\ ev.type = type /\ ev.card = c /\ ev.newStatus = status
  BY LaterType DEF CardEvent
<1>3. log \in Seq(CardEvent) /\ Len(log) \in Nat
  BY DEF IInv, PipelineIsSound
<1>4. Len(log) < MaxEvents /\ log' = Append(log, ev) /\ UNCHANGED <<audit, running>>
  BY <1>1 DEF Emit
<1> HIDE DEF ev
<1>5. /\ log' \in Seq(CardEvent) /\ Len(log') = Len(log) + 1
      /\ \A e \in 1..Len(log) : log'[e] = log[e]
      /\ log'[Len(log')] = ev
  BY <1>2, <1>3, <1>4
<1> QED
  BY <1>2, <1>3, <1>4, <1>5, DeliveryAssumption DEF Published

\* An event more changes nothing for the rows, the handlers and the sessions but
\* one that Unit has just served.
LEMMA EmitKeepsIInv ==
  ASSUME IInv, NEW type \in {"created", "statusChanged"}, NEW c \in CardIds,
         NEW status \in CardStatus, UnitEmits(type, c, status),
         UNCHANGED <<step, outcome, faults, card, asked>>,
         unit' \in [CardIds -> CardStatus \cup {"None"}],
         issuing' \in [CardIds -> {"none", "insert", "done"}],
         session' \in [Sessions -> [card : CardIds \cup {NoCard}, action : Actions \cup {"none"},
                                    step : {"idle", "call", "write"}]],
         \A s \in Sessions :
           \/ session'[s] = session[s]
           \/ /\ session[s].step = "call" /\ session'[s].step = "write"
              /\ session'[s].card = session[s].card /\ session'[s].action = session[s].action
              /\ type = "statusChanged"
              /\ c = session[s].card /\ status = TARGET_STATUS[session[s].action]
  PROVE  IInv'
<1>1. /\ log' \in Seq(CardEvent)
      /\ Len(log') = Len(log) + 1 /\ Len(log') <= MaxEvents
      /\ \A e \in Published : log'[e] = log[e]
      /\ Published \subseteq Published' /\ Len(log') \in Published'
      /\ log'[Len(log')].type = type /\ log'[Len(log')].card = c
      /\ log'[Len(log')].newStatus = status
      /\ UNCHANGED <<audit, running>>
  BY EmitGrowsLog
<1> USE DEF IInv
<1>2. TypeOK'
  BY <1>1 DEF TypeOK, HandlersTypeOK, DeliveryTypeOK
<1>3. PipelineIsSound'
  BY <1>1 DEF PipelineIsSound
<1>4. \A w \in Workers : running[w] # NoEvent => Event(w)' = Event(w)
  BY <1>1 DEF PipelineIsSound, Event
<1>5. HandlerIsSound'
  BY <1>1, <1>4 DEF HandlerIsSound
<1>6. \A d, t : Given(d, t) => Given(d, t)'
  BY <1>1 DEF Given
<1>7. type = "statusChanged" => Given(c, status)'
  BY <1>1 DEF Given
<1>8. SessionsAreSound'
  <2> SUFFICES ASSUME NEW s \in Sessions, session'[s].step # "idle"
               PROVE  /\ session'[s].card \in CardIds /\ card[session'[s].card] # NoRow
                      /\ session'[s].action \in Actions
                      /\ session'[s].step = "write" =>
                           Given(session[s].card, TARGET_STATUS[session[s].action])'
    BY DEF SessionsAreSound
  <2>1. CASE session'[s] = session[s]
    <3>1. session[s].step = "write" => Given(session[s].card, TARGET_STATUS[session[s].action])
      BY <2>1 DEF SessionsAreSound
    <3>2. session[s].step = "write" =>
            Given(session[s].card, TARGET_STATUS[session[s].action])'
      BY <1>1, <2>1, <3>1 DEF Given
    <3> QED
      BY <2>1, <3>2 DEF SessionsAreSound
  <2>2. CASE session'[s] # session[s]
    <3>1. Given(session[s].card, TARGET_STATUS[session[s].action])'
      BY <1>1, <2>2 DEF Given
    <3> QED
      BY <2>2, <3>1 DEF SessionsAreSound
  <2> QED
    BY <2>1, <2>2
<1>9. NothingInvented'
  <2>1. \A d \in CardIds : Given(d, card[d].status) => Given(d, card[d].status)'
    BY <1>1 DEF Given
  <2> QED
    BY <2>1, InventedNot, InventedNotNext
<1> QED
  BY <1>2, <1>3, <1>5, <1>8, <1>9

LEMMA UnitActsKeepsIInv ==
  ASSUME IInv, NEW c \in CardIds, NEW action \in UnitActions, UnitActs(c, action)
  PROVE  IInv'
<1> USE DEF UnitActs, UnitChanges
<1>1. TARGET_STATUS[action] \in CardStatus
  BY TargetType
<1>2. unit' \in [CardIds -> CardStatus \cup {"None"}]
  BY <1>1 DEF IInv, TypeOK
<1> QED
  BY <1>1, <1>2, EmitKeepsIInv DEF IInv, TypeOK

LEMMA CreateCardKeepsIInv ==
  ASSUME IInv, NEW c \in CardIds, CreateCard(c)
  PROVE  IInv'
<1> USE DEF CreateCard
<1>1. "Active" \in CardStatus
  BY DEF CardStatus
<1>2. /\ unit' \in [CardIds -> CardStatus \cup {"None"}]
      /\ issuing' \in [CardIds -> {"none", "insert", "done"}]
  BY <1>1 DEF IInv, TypeOK
<1> QED
  BY <1>1, <1>2, EmitKeepsIInv DEF IInv, TypeOK

LEMMA CallUnitKeepsIInv ==
  ASSUME IInv, NEW s \in Sessions, CallUnit(s)
  PROVE  IInv'
<1> USE DEF CallUnit, UnitChanges
<1>1. session[s].card \in CardIds /\ session[s].action \in Actions
  BY DEF IInv, SessionsAreSound
<1>2. TARGET_STATUS[session[s].action] \in CardStatus
  BY <1>1, TargetType
<1>3. unit' \in [CardIds -> CardStatus \cup {"None"}]
  BY <1>2 DEF IInv, TypeOK
<1>4. session \in [Sessions -> [card : CardIds \cup {NoCard}, action : Actions \cup {"none"},
                                step : {"idle", "call", "write"}]]
  BY DEF IInv, TypeOK
<1>5. session' \in [Sessions -> [card : CardIds \cup {NoCard}, action : Actions \cup {"none"},
                                 step : {"idle", "call", "write"}]]
  BY <1>4
<1>6. /\ session'[s].step = "write"
      /\ session'[s].card = session[s].card /\ session'[s].action = session[s].action
      /\ \A r \in Sessions \ {s} : session'[r] = session[r]
  BY <1>4
<1> QED
  BY <1>1, <1>2, <1>3, <1>5, <1>6, EmitKeepsIInv DEF IInv, TypeOK

-----------------------------------------------------------------------------
(* What steps leave as it was.                                             *)

\* Rows stay, so that sessions keep what they are about.
LEMMA SessionsKept ==
  ASSUME IInv, UNCHANGED <<log, session>>,
         \A c \in CardIds : card[c] # NoRow => card'[c] # NoRow
  PROVE  SessionsAreSound'
<1>1. \A s \in Sessions : Given(session[s].card, TARGET_STATUS[session[s].action]) =>
        Given(session[s].card, TARGET_STATUS[session[s].action])'
  BY DEF Given, Published
<1> QED
  BY <1>1 DEF IInv, SessionsAreSound

\* Nobody works on an event.
LEMMA WorkersKept ==
  ASSUME IInv, UNCHANGED <<deliveryVars, step>>
  PROVE  PipelineIsSound' /\ HandlerIsSound'
BY DEF IInv, PipelineIsSound, HandlerIsSound, deliveryVars, Event, Published

\* No card is written.
LEMMA CardsKept ==
  ASSUME IInv, UNCHANGED <<log, card>>
  PROVE  NothingInvented'
<1>1. \A c \in CardIds : Given(c, card[c].status) => Given(c, card[c].status)'
  BY DEF Given, Published
<1> QED
  BY <1>1, InventedNot, InventedNotNext DEF IInv

\* A card is written with a status that Unit has given it, or as a new one.
LEMMA CardWritten ==
  ASSUME IInv, UNCHANGED log, NEW c \in CardIds, NEW row \in CardRow,
         card' = [card EXCEPT ![c] = row],
         row.status = "Active" \/ Given(c, row.status)
  PROVE  /\ card' \in [CardIds -> CardRow \cup {NoRow}]
         /\ \A d \in CardIds : card[d] # NoRow => card'[d] # NoRow
         /\ NothingInvented'
<1>1. card \in [CardIds -> CardRow \cup {NoRow}]
  BY DEF IInv, TypeOK
<1>2. /\ card' \in [CardIds -> CardRow \cup {NoRow}]
      /\ card'[c] = row /\ row # NoRow
      /\ \A d \in CardIds \ {c} : card'[d] = card[d]
  BY <1>1, CardsAssumption
<1>3. ASSUME NEW d \in CardIds, card'[d] # NoRow
      PROVE  card'[d].status = "Active" \/ Given(d, card[d].status)'
  <2>1. card'[d].status = "Active" \/ Given(d, card'[d].status)
    BY <1>2, <1>3, InventedNot DEF IInv
  <2> QED
    BY <2>1 DEF Given, Published
<1> QED
  BY <1>2, <1>3, InventedNotNext

\* A fault counts up to its bound.
LEMMA FaultType ==
  ASSUME IInv, Fault PROVE faults' \in 0..MaxFaults
BY HandlersAssumption DEF IInv, TypeOK, HandlersTypeOK, Fault

-----------------------------------------------------------------------------
(* The requests.                                                           *)

LEMMA InsertCardKeepsIInv ==
  ASSUME IInv, NEW c \in CardIds, InsertCard(c)
  PROVE  IInv'
<1> USE DEF InsertCard, handlerVars
<1>1. /\ card' \in [CardIds -> CardRow \cup {NoRow}]
      /\ \A d \in CardIds : card[d] # NoRow => card'[d] # NoRow
      /\ NothingInvented'
  BY NewRowType, CardWritten DEF deliveryVars
<1>2. issuing' \in [CardIds -> {"none", "insert", "done"}]
  BY DEF IInv, TypeOK
<1>3. TypeOK'
  BY <1>1, <1>2 DEF IInv, TypeOK, HandlersTypeOK, DeliveryTypeOK, deliveryVars
<1>4. PipelineIsSound' /\ HandlerIsSound'
  BY WorkersKept
<1>5. SessionsAreSound'
  BY <1>1, SessionsKept DEF deliveryVars
<1> QED
  BY <1>1, <1>3, <1>4, <1>5 DEF IInv

LEMMA LoseCardKeepsIInv ==
  ASSUME IInv, NEW c \in CardIds, LoseCard(c)
  PROVE  IInv'
<1> USE DEF LoseCard
<1>1. issuing' \in [CardIds -> {"none", "insert", "done"}]
  BY DEF IInv, TypeOK
<1>2. TypeOK'
  BY <1>1, FaultType DEF IInv, TypeOK, HandlersTypeOK, DeliveryTypeOK, deliveryVars
<1>3. PipelineIsSound' /\ HandlerIsSound'
  BY WorkersKept
<1>4. SessionsAreSound' /\ NothingInvented'
  BY SessionsKept, CardsKept DEF deliveryVars
<1> QED
  BY <1>2, <1>3, <1>4 DEF IInv

\* A step of session s that writes no card, and leaves it at the call or idle.
LEMMA SessionStepKeepsIInv ==
  ASSUME IInv, NEW s \in Sessions, NEW now, session' = [session EXCEPT ![s] = now],
         now = NoSession \/ \E c \in CardIds, action \in Actions :
           card[c] # NoRow /\ now = [card |-> c, action |-> action, step |-> "call"],
         UNCHANGED <<deliveryVars, step, outcome, unit, card, issuing>>,
         faults' \in 0..MaxFaults, asked' \in 0..MaxRequests
  PROVE  IInv'
<1>1. now \in [card : CardIds \cup {NoCard}, action : Actions \cup {"none"},
               step : {"idle", "call", "write"}]
  BY DEF NoSession
<1>2. session \in [Sessions -> [card : CardIds \cup {NoCard}, action : Actions \cup {"none"},
                                step : {"idle", "call", "write"}]]
  BY DEF IInv, TypeOK
<1>3. /\ session' \in [Sessions -> [card : CardIds \cup {NoCard}, action : Actions \cup {"none"},
                                    step : {"idle", "call", "write"}]]
      /\ session'[s] = now /\ \A r \in Sessions \ {s} : session'[r] = session[r]
  BY <1>1, <1>2
<1>4. TypeOK'
  BY <1>3 DEF IInv, TypeOK, HandlersTypeOK, DeliveryTypeOK, deliveryVars
<1>5. PipelineIsSound' /\ HandlerIsSound'
  BY WorkersKept
<1>6. NothingInvented'
  BY CardsKept DEF deliveryVars
<1>7. SessionsAreSound'
  <2> SUFFICES ASSUME NEW r \in Sessions, session'[r].step # "idle"
               PROVE  /\ session'[r].card \in CardIds /\ card'[session'[r].card] # NoRow
                      /\ session'[r].action \in Actions
                      /\ session'[r].step = "write" =>
                           Given(session[r].card, TARGET_STATUS[session[r].action])'
    BY DEF SessionsAreSound
  <2>1. CASE r = s
    BY <1>3, <2>1 DEF NoSession
  <2>2. CASE r # s
    <3>1. session'[r] = session[r]
      BY <1>3, <2>2
    <3>2. Given(session[r].card, TARGET_STATUS[session[r].action]) =>
            Given(session[r].card, TARGET_STATUS[session[r].action])'
      BY <3>1 DEF Given, Published, deliveryVars
    <3> QED
      BY <3>1, <3>2 DEF IInv, SessionsAreSound
  <2> QED
    BY <2>1, <2>2
<1> QED
  BY <1>4, <1>5, <1>6, <1>7 DEF IInv

LEMMA AskKeepsIInv ==
  ASSUME IInv, NEW s \in Sessions, NEW c \in CardIds, NEW action \in Actions,
         Ask(s, c, action)
  PROVE  IInv'
<1>1. faults' \in 0..MaxFaults /\ asked' \in 0..MaxRequests
  BY CardsAssumption DEF Ask, IInv, TypeOK, HandlersTypeOK, handlerVars
<1> QED
  BY <1>1, SessionStepKeepsIInv DEF Ask, handlerVars

LEMMA UnitRefusesKeepsIInv ==
  ASSUME IInv, NEW s \in Sessions, UnitRefuses(s)
  PROVE  IInv'
<1>1. faults' \in 0..MaxFaults /\ asked' \in 0..MaxRequests
  BY DEF UnitRefuses, IInv, TypeOK, HandlersTypeOK, handlerVars
<1> QED
  BY <1>1, SessionStepKeepsIInv DEF UnitRefuses, AfterRefusal, handlerVars

LEMMA LoseSessionKeepsIInv ==
  ASSUME IInv, NEW s \in Sessions, LoseSession(s)
  PROVE  IInv'
<1>1. asked' \in 0..MaxRequests
  BY DEF LoseSession, IInv, TypeOK
<1> QED
  BY <1>1, FaultType, SessionStepKeepsIInv DEF LoseSession

\* Whatever else has been written since, Unit has given the card this status.
LEMMA WriteStatusKeepsIInv ==
  ASSUME IInv, NEW s \in Sessions, WriteStatus(s)
  PROVE  IInv'
<1> USE DEF WriteStatus, handlerVars
<1> DEFINE c == session[s].card
           status == TARGET_STATUS[session[s].action]
           row == [card[c] EXCEPT !.status = status]
<1>1. /\ c \in CardIds /\ card[c] # NoRow /\ session[s].action \in Actions
      /\ Given(c, status)
  BY DEF IInv, SessionsAreSound
<1>2. status \in CardStatus
  BY <1>1, TargetType
<1>3. card[c] \in CardRow
  BY <1>1 DEF IInv, TypeOK
<1>4. row \in CardRow /\ row.status = status
  BY <1>2, <1>3 DEF CardRow
<1>5. card' = [card EXCEPT ![c] = row]
  BY <1>1 DEF IInv, TypeOK
<1> HIDE DEF row, status
<1>6. /\ card' \in [CardIds -> CardRow \cup {NoRow}]
      /\ \A d \in CardIds : card[d] # NoRow => card'[d] # NoRow
      /\ NothingInvented'
  BY <1>1, <1>4, <1>5, CardWritten DEF deliveryVars
<1>7. session \in [Sessions -> [card : CardIds \cup {NoCard}, action : Actions \cup {"none"},
                                step : {"idle", "call", "write"}]]
  BY DEF IInv, TypeOK
<1>8. /\ session' \in [Sessions -> [card : CardIds \cup {NoCard}, action : Actions \cup {"none"},
                                    step : {"idle", "call", "write"}]]
      /\ session'[s].step = "idle" /\ \A r \in Sessions \ {s} : session'[r] = session[r]
  BY <1>7 DEF NoSession
<1>9. TypeOK'
  BY <1>6, <1>8 DEF IInv, TypeOK, HandlersTypeOK, DeliveryTypeOK, deliveryVars
<1>10. PipelineIsSound' /\ HandlerIsSound'
  BY WorkersKept
<1>11. SessionsAreSound'
  <2> SUFFICES ASSUME NEW r \in Sessions, session'[r].step # "idle"
               PROVE  /\ session'[r].card \in CardIds /\ card'[session'[r].card] # NoRow
                      /\ session'[r].action \in Actions
                      /\ session'[r].step = "write" =>
                           Given(session[r].card, TARGET_STATUS[session[r].action])'
    BY DEF SessionsAreSound
  <2>1. session'[r] = session[r]
    BY <1>8
  <2>2. Given(session[r].card, TARGET_STATUS[session[r].action]) =>
          Given(session[r].card, TARGET_STATUS[session[r].action])'
    BY <2>1 DEF Given, Published, deliveryVars
  <2> QED
    BY <1>6, <2>1, <2>2 DEF IInv, SessionsAreSound
<1> QED
  BY <1>6, <1>9, <1>10, <1>11 DEF IInv

-----------------------------------------------------------------------------
(* The workers.                                                            *)

\* The types of what the frame of the handlers changes.
LEMMA FrameType ==
  ASSUME IInv
  PROVE  /\ audit \in [EventIds -> {"Absent"} \cup Retryable \cup Terminal]
         /\ running \in [Workers -> EventIds \cup {NoEvent}]
         /\ step \in [Workers -> {"status"} \cup {"idle", "mark"}]
         /\ outcome \in [Workers -> Verdicts]
BY DEF IInv, TypeOK, HandlersTypeOK, DeliveryTypeOK

\* A step of worker w, or of the endpoint, that writes no card.
LEMMA FrameStepKeepsIInv ==
  ASSUME IInv, UNCHANGED <<log, unit, card, issuing, session, asked>>,
         HandlersTypeOK({"status"})',
         \A e \in EventIds : audit'[e] # "Absent" => e \in Published,
         \A w \in Workers :
           \/ running'[w] = running[w] /\ step'[w] = step[w]
           \/ /\ running'[w] # NoEvent => running'[w] \in Published
              /\ step'[w] # "idle" => running'[w] # NoEvent
              /\ step'[w] = "status" => log[running'[w]].type = "statusChanged"
  PROVE  IInv'
<1>1. TypeOK'
  BY DEF IInv, TypeOK
<1>2. PipelineIsSound' /\ HandlerIsSound'
  BY DEF IInv, PipelineIsSound, HandlerIsSound, Event, Published
<1>3. SessionsAreSound' /\ NothingInvented'
  BY SessionsKept, CardsKept
<1> QED
  BY <1>1, <1>2, <1>3 DEF IInv

LEMMA ReceiveKeepsIInv ==
  ASSUME IInv, NEW e \in EventIds, Receive(e),
         UNCHANGED <<unit, card, issuing, session, asked>>
  PROVE  IInv'
<1> USE DEF Receive, Ingest
<1>1. HandlersTypeOK({"status"})'
  BY FrameType DEF IInv, TypeOK, HandlersTypeOK, DeliveryTypeOK, Retryable
<1>2. \A i \in EventIds : audit'[i] # "Absent" => i \in Published
  BY FrameType DEF IInv, PipelineIsSound
<1> QED
  BY <1>1, <1>2, FrameStepKeepsIInv

LEMMA MarkEventKeepsIInv ==
  ASSUME IInv, NEW w \in Workers, MarkEvent(w),
         UNCHANGED <<unit, card, issuing, session, asked>>
  PROVE  IInv'
<1> USE DEF MarkEvent, Mark, At
<1>1. running[w] \in Published /\ running[w] \in EventIds
  BY RunningEvent
<1>2. audit' \in [EventIds -> {"Absent"} \cup Retryable \cup Terminal]
  BY <1>1, FrameType DEF Verdicts, Retryable, Terminal
<1>3. HandlersTypeOK({"status"})'
  BY <1>2, FrameType DEF IInv, TypeOK, HandlersTypeOK, DeliveryTypeOK, Verdicts, Terminal
<1>4. \A i \in EventIds : audit'[i] # "Absent" => i \in Published
  BY <1>1, FrameType DEF IInv, PipelineIsSound
<1>5. /\ running'[w] = NoEvent /\ step'[w] = "idle"
      /\ \A v \in Workers \ {w} : running'[v] = running[v] /\ step'[v] = step[v]
  BY FrameType
<1> QED
  BY <1>3, <1>4, <1>5, FrameStepKeepsIInv

LEMMA StartHandlerKeepsIInv ==
  ASSUME IInv, NEW w \in Workers, NEW e \in EventIds, StartHandler(w, e)
  PROVE  IInv'
<1> USE DEF StartHandler, Start, Begin
<1>1. e \in Published /\ e # NoEvent
  BY DEF IInv, PipelineIsSound, Retryable, EventIds, NoEvent
<1>2. /\ FirstStep(log[e].type) \in {"status", "mark"}
      /\ FirstStep(log[e].type) = "status" => log[e].type = "statusChanged"
  BY DEF FirstStep
<1>3. HandlersTypeOK({"status"})'
  BY <1>2, FrameType DEF IInv, TypeOK, HandlersTypeOK, DeliveryTypeOK, Verdicts, Terminal
<1>4. \A i \in EventIds : audit'[i] # "Absent" => i \in Published
  BY DEF IInv, PipelineIsSound
<1>5. /\ running'[w] = e /\ step'[w] = FirstStep(log[e].type)
      /\ \A v \in Workers \ {w} : running'[v] = running[v] /\ step'[v] = step[v]
  BY FrameType
<1> QED
  BY <1>1, <1>2, <1>3, <1>4, <1>5, FrameStepKeepsIInv

\* A worker that throws is to mark its event Failed; one that dies is idle.
LEMMA BreakKeepsIInv ==
  ASSUME IInv, NEW w \in Workers, Throw(w) \/ Die(w),
         UNCHANGED <<unit, card, issuing, session, asked>>
  PROVE  IInv'
<1> USE DEF Throw, Die, Abandon, deliveryVars
<1>1. HandlersTypeOK({"status"})'
  BY FaultType, FrameType
     DEF IInv, TypeOK, HandlersTypeOK, DeliveryTypeOK, Verdicts, Terminal
<1>2. \A i \in EventIds : audit'[i] # "Absent" => i \in Published
  BY DEF IInv, PipelineIsSound
<1>3. /\ running[w] \in Published /\ running[w] # NoEvent
      /\ \/ running'[w] = running[w] /\ step'[w] = "mark"
         \/ running'[w] = NoEvent /\ step'[w] = "idle"
      /\ \A v \in Workers \ {w} : running'[v] = running[v] /\ step'[v] = step[v]
  BY RunningEvent, FrameType
<1> QED
  BY <1>1, <1>2, <1>3, FrameStepKeepsIInv

\* The types of the handler's variables once it has returned.
LEMMA ReturnType ==
  ASSUME IInv, NEW w \in Workers, NEW verdict \in Verdicts, At(w, "status"),
         Return(w, verdict)
  PROVE  /\ HandlersTypeOK({"status"})' /\ UNCHANGED <<log, audit, running>>
         /\ step'[w] = "mark" /\ \A v \in Workers \ {w} : step'[v] = step[v]
BY FrameType DEF Return, deliveryVars, IInv, TypeOK, HandlersTypeOK, DeliveryTypeOK

\* The status of the event is written, which Unit has published.
LEMMA ApplyKeepsIInv ==
  ASSUME IInv, NEW w \in Workers, At(w, "status"), Return(w, "Processed"),
         card' = [card EXCEPT ![Event(w).card] =
           [status |-> Event(w).newStatus, lastEventAt |-> Event(w).at]],
         UNCHANGED <<unit, issuing, session, asked>>
  PROVE  IInv'
<1> DEFINE e == running[w]
           c == Event(w).card
           row == [status |-> Event(w).newStatus, lastEventAt |-> Event(w).at]
<1>1. /\ e \in Published /\ e # NoEvent /\ Event(w) = log[e] /\ c \in CardIds
      /\ Event(w).newStatus \in CardStatus /\ Event(w).at \in Nat
  BY RunningEvent DEF At
<1>2. row \in CardRow /\ row.status = log[e].newStatus
  BY <1>1 DEF CardRow
<1>3. Given(c, log[e].newStatus)
  BY <1>1 DEF Given, IInv, HandlerIsSound, At
<1>4. /\ HandlersTypeOK({"status"})' /\ UNCHANGED <<log, audit, running>>
      /\ step'[w] = "mark" /\ \A v \in Workers \ {w} : step'[v] = step[v]
  BY ReturnType DEF Verdicts, Terminal
<1> HIDE DEF row
<1>5. /\ card' \in [CardIds -> CardRow \cup {NoRow}]
      /\ \A d \in CardIds : card[d] # NoRow => card'[d] # NoRow
      /\ NothingInvented'
  BY <1>1, <1>2, <1>3, <1>4, CardWritten DEF row
<1>6. TypeOK'
  BY <1>4, <1>5 DEF IInv, TypeOK
<1>7. PipelineIsSound' /\ HandlerIsSound'
  BY <1>1, <1>4 DEF IInv, PipelineIsSound, HandlerIsSound, Event, Published
<1>8. SessionsAreSound'
  BY <1>4, <1>5, SessionsKept
<1> QED
  BY <1>5, <1>6, <1>7, <1>8 DEF IInv

LEMMA UpdateStatusKeepsIInv ==
  ASSUME IInv, NEW w \in Workers, UpdateStatus(w)
  PROVE  IInv'
<1> USE DEF UpdateStatus
<1> DEFINE row == card[Event(w).card]
<1>1. CASE row # NoRow /\ IsNewer(row, Event(w))
  BY <1>1, ApplyKeepsIInv
<1>2. CASE ~(row # NoRow /\ IsNewer(row, Event(w)))
  <2>1. running[w] \in Published /\ running[w] # NoEvent
    BY RunningEvent DEF At
  <2>2. /\ HandlersTypeOK({"status"})' /\ UNCHANGED <<log, audit, running>>
        /\ step'[w] = "mark" /\ \A v \in Workers \ {w} : step'[v] = step[v]
    BY <1>2, ReturnType DEF Verdicts, Terminal
  <2>3. \A i \in EventIds : audit'[i] # "Absent" => i \in Published
    BY <2>2 DEF IInv, PipelineIsSound
  <2> QED
    BY <1>2, <2>1, <2>2, <2>3, FrameStepKeepsIInv
<1> QED
  BY <1>1, <1>2

-----------------------------------------------------------------------------
(* The theorems.                                                           *)

\* Nothing changes.
LEMMA StutterKeepsIInv == ASSUME IInv, UNCHANGED vars PROVE IInv'
<1> USE DEF vars, handlerVars, deliveryVars
<1>1. HandlersTypeOK({"status"})'
  BY DEF IInv, TypeOK, HandlersTypeOK, DeliveryTypeOK
<1>2. \A i \in EventIds : audit'[i] # "Absent" => i \in Published
  BY DEF IInv, PipelineIsSound
<1> QED
  BY <1>1, <1>2, FrameStepKeepsIInv

LEMMA NextIInv == IInv /\ [Next]_vars => IInv'
<1> SUFFICES ASSUME IInv, [Next]_vars PROVE IInv'
  OBVIOUS
<1>1. CASE UnitStep
  BY <1>1, UnitActsKeepsIInv DEF UnitStep
<1>2. CASE ApiStep
  BY <1>2, CreateCardKeepsIInv, InsertCardKeepsIInv, LoseCardKeepsIInv, AskKeepsIInv,
     LoseSessionKeepsIInv DEF ApiStep
<1>3. CASE Serve
  BY <1>3, CallUnitKeepsIInv, UnitRefusesKeepsIInv, WriteStatusKeepsIInv DEF Serve
<1>4. CASE Deliver
  <2>1. CASE Frame
    BY <2>1, ReceiveKeepsIInv, MarkEventKeepsIInv DEF Frame
  <2> QED
    BY <1>4, <2>1, StartHandlerKeepsIInv, UpdateStatusKeepsIInv DEF Deliver
<1>5. CASE Break
  BY <1>5, BreakKeepsIInv DEF Break
<1>6. CASE UNCHANGED vars
  BY <1>6, StutterKeepsIInv
<1> QED
  BY <1>1, <1>2, <1>3, <1>4, <1>5, <1>6 DEF Next, Rest

\* The strengthened invariant holds in every state of every execution.
THEOREM Invariance == Spec => []IInv
<1> QED
  BY InitIInv, NextIInv, PTL DEF Spec

\* Every variable keeps its type, for any cards, sessions, workers and events.
THEOREM TypeCorrect == Spec => []TypeOK
<1>1. IInv => TypeOK
  BY DEF IInv
<1> QED
  BY <1>1, Invariance, PTL

\* A card never shows a status that Unit did not give it, with any number of card
\* actions at work, refused, unanswered or overtaken, beside any deliveries.
THEOREM NothingMadeUp == Spec => []NothingInvented
<1>1. IInv => NothingInvented
  BY DEF IInv
<1> QED
  BY <1>1, Invariance, PTL

-----------------------------------------------------------------------------
(* When a status is right.  SInv relates the rows to what Unit knows; what *)
(* an overtaken write does to a row is not among it, as that write has no  *)
(* stamp.                                                                  *)

StatusEventsOf(c) == {e \in EventsOf(c) : log[e].type = "statusChanged"}

\* Events are published in the order of their times.
LogIsOrdered ==
  \A i, j \in Published : i < j =>
    log[i].at <= log[j].at /\ (0 \notin Gaps => log[i].at < log[j].at)

\* Unit's status of a card is that of its last status event.
UnitFollowsLog ==
  \A c \in CardIds :
    /\ StatusEventsOf(c) = {} => unit[c] \in {"None", "Active"}
    /\ unit[c] = "None" => StatusEventsOf(c) = {}
    /\ \A e \in StatusEventsOf(c) : (\A f \in StatusEventsOf(c) : f <= e) =>
         unit[c] = log[e].newStatus

\* A card gets its row once, after Unit has it.
RowsAreIssued ==
  \A c \in CardIds :
    /\ issuing[c] # "done" => card[c] = NoRow
    /\ unit[c] = "None" => issuing[c] = "none"
    /\ c \in Issued => card[c] # NoRow

\* A stamp is the time of a status event of the card.
StampIsOfEvent ==
  \A c \in CardIds : card[c] # NoRow /\ card[c].lastEventAt # Never =>
    \E e \in StatusEventsOf(c) : log[e].at = card[c].lastEventAt

\* The row of e's card has taken in e or an event as new.
Shows(e) == card[log[e].card] # NoRow /\ log[e].at <= card[log[e].card].lastEventAt

\* A worker is about to mark e with this verdict.
WillMark(w, e, verdict) == running[w] = e /\ step[w] = "mark" /\ outcome[w] = verdict

\* What has been applied shows; of a card with a row from the start, an event
\* is only skipped if the row is as new.
HandledIsShown ==
  \A e \in Published, verdict \in {"Processed", "Skipped"} :
    log[e].type = "statusChanged" /\ (verdict = "Skipped" => log[e].card \in Issued) =>
      /\ audit[e] = verdict => Shows(e)
      /\ \A w \in Workers : WillMark(w, e, verdict) => Shows(e)

SInv ==
  /\ LogIsOrdered
  /\ UnitFollowsLog
  /\ RowsAreIssued
  /\ StampIsOfEvent
  /\ HandledIsShown

\* A status event of the card is newer than its row.
Behind(c) == \E e \in StatusEventsOf(c) : log[e].at > card[c].lastEventAt

\* Two status events of the card are of the millisecond of the row's stamp.
Tied(c) ==
  \E e, f \in StatusEventsOf(c) :
    e # f /\ log[e].at = log[f].at /\ log[e].at = card[c].lastEventAt

\* A row shows Unit's status, or is about to be told, or has been told twice at
\* once.
Follows(c) == card[c] # NoRow => card[c].status = unit[c] \/ Behind(c) \/ Tied(c)

\* An event came before the row of its card, found none and was skipped
\* (cards.repository.ts:65): nothing will bring it back.
CameTooEarly(c) ==
  /\ c \notin Issued
  /\ \E e \in StatusEventsOf(c) : audit[e] = "Skipped" /\ log[e].at > card[c].lastEventAt

\* A settled row has Unit's status, or the reason why it has not.
SettledIsRight(c) ==
  Settled(c) /\ card[c] # NoRow =>
    card[c].status = unit[c] \/ CameTooEarly(c) \/ Tied(c)

-----------------------------------------------------------------------------
(* Its proof.                                                              *)

\* An event more: it is the last of its card, and not older than the others.
LEMMA EmittedEvent ==
  ASSUME IInv, NEW type \in {"created", "statusChanged"}, NEW c \in CardIds,
         NEW status \in CardStatus, UnitEmits(type, c, status)
  PROVE  /\ Len(log) \in Nat /\ Len(log) + 1 \notin Published
         /\ Published' = Published \cup {Len(log) + 1}
         /\ \A i \in Published : i <= Len(log) + 1 /\ i < Len(log) + 1 /\ log'[i] = log[i]
         /\ log'[Len(log) + 1].type = type /\ log'[Len(log) + 1].card = c
         /\ log'[Len(log) + 1].newStatus = status
         /\ \A i \in Published : \E gap \in Gaps :
              /\ log'[Len(log) + 1].at = Later(gap)
              /\ LogIsOrdered => log[i].at <= Later(gap) /\ (gap # 0 => log[i].at < Later(gap))
         /\ UNCHANGED <<audit, running>>
<1>1. PICK gap \in Gaps :
        Emit([type |-> type, card |-> c, newStatus |-> status, at |-> Later(gap)])
  BY DEF UnitEmits
<1> DEFINE ev == [type |-> type, card |-> c, newStatus |-> status, at |-> Later(gap)]
<1>2. /\ ev \in CardEvent /\ ev.type = type /\ ev.card = c /\ ev.newStatus = status
      /\ ev.at = Later(gap)
  BY LaterType DEF CardEvent
<1>3. log \in Seq(CardEvent) /\ Len(log) \in Nat /\ log' = Append(log, ev)
  BY <1>1 DEF IInv, PipelineIsSound, Emit
<1> HIDE DEF ev
<1>4. /\ Len(log') = Len(log) + 1 /\ log'[Len(log) + 1] = ev
      /\ \A i \in 1..Len(log) : log'[i] = log[i]
  BY <1>2, <1>3
<1>5. ASSUME NEW i \in Published, LogIsOrdered
      PROVE  log[i].at <= Later(gap) /\ (gap # 0 => log[i].at < Later(gap))
  <2>1. i \in 1..Len(log) /\ Len(log) \in Published /\ i <= Len(log)
    BY <1>3, <1>5 DEF Published
  <2>2. log[i].at \in Nat /\ log[Len(log)].at \in Nat /\ log[Len(log)].at # Never
    BY <2>1, LoggedEvents
  <2>3. log[i].at <= log[Len(log)].at
    <3>1. CASE i = Len(log)
      BY <2>2, <3>1
    <3>2. CASE i < Len(log)
      BY <2>1, <3>2, <1>5 DEF LogIsOrdered
    <3> QED
      BY <1>3, <2>1, <3>1, <3>2
  <2>4. gap \in Nat
    BY CardsAssumption
  <2>5. log # <<>>
    BY <1>3, <2>1
  <2>6. Later(gap) = log[Len(log)].at + gap
    BY <2>2, <2>4, <2>5 DEF Later, Never
  <2> QED
    BY <2>2, <2>3, <2>4, <2>6
<1>6. UNCHANGED <<audit, running>>
  BY <1>1 DEF Emit
<1> QED
  BY <1>2, <1>3, <1>4, <1>5, <1>6 DEF Published

LEMMA EmitKeepsOrder ==
  ASSUME IInv, LogIsOrdered, NEW type \in {"created", "statusChanged"}, NEW c \in CardIds,
         NEW status \in CardStatus, UnitEmits(type, c, status)
  PROVE  LogIsOrdered'
<1> DEFINE n == Len(log) + 1
<1>1. /\ Published' = Published \cup {n} /\ n \notin Published /\ Len(log) \in Nat
      /\ \A i \in Published : i < n /\ log'[i] = log[i]
  BY EmittedEvent
<1>2. ASSUME NEW i \in Published
      PROVE  log'[i].at <= log'[n].at /\ (0 \notin Gaps => log'[i].at < log'[n].at)
  <2>1. PICK gap \in Gaps :
          /\ log'[n].at = Later(gap)
          /\ log[i].at <= Later(gap) /\ (gap # 0 => log[i].at < Later(gap))
    BY <1>2, EmittedEvent
  <2> QED
    BY <1>1, <1>2, <2>1
<1> SUFFICES ASSUME NEW i \in Published', NEW j \in Published', i < j
      PROVE  log'[i].at <= log'[j].at /\ (0 \notin Gaps => log'[i].at < log'[j].at)
  BY DEF LogIsOrdered
<1>4. i \in Nat /\ j \in Nat
  BY DEF Published
<1>5. i \in Published
  <2>1. CASE i = n
    <3>1. j < n \/ j = n
      BY <1>1
    <3> QED
      BY <1>1, <1>4, <2>1, <3>1
  <2> QED
    BY <1>1, <2>1
<1> HIDE DEF n
<1>6. CASE j = n
  BY <1>2, <1>5, <1>6
<1>7. CASE j # n
  BY <1>1, <1>5, <1>7 DEF LogIsOrdered
<1> QED
  BY <1>6, <1>7

\* What the status events of each card become.
LEMMA EmittedEvents ==
  ASSUME IInv, NEW type \in {"created", "statusChanged"}, NEW c \in CardIds,
         NEW status \in CardStatus, UnitEmits(type, c, status), NEW d \in CardIds
  PROVE  /\ StatusEventsOf(d) \subseteq Published
         /\ \A e \in StatusEventsOf(d) : log'[e] = log[e]
         /\ d # c \/ type = "created" => StatusEventsOf(d)' = StatusEventsOf(d)
         /\ d = c /\ type = "statusChanged" =>
              StatusEventsOf(d)' = StatusEventsOf(d) \cup {Len(log) + 1}
<1>1. /\ Published' = Published \cup {Len(log) + 1} /\ Len(log) + 1 \notin Published
      /\ \A i \in Published : log'[i] = log[i]
      /\ log'[Len(log) + 1].type = type /\ log'[Len(log) + 1].card = c
  BY EmittedEvent
<1> QED
  BY <1>1 DEF EventsOf, StatusEventsOf

\* The rows' stamps only grow.
RowsGrow ==
  \A c \in CardIds : card[c] # NoRow =>
    card'[c] # NoRow /\ card[c].lastEventAt <= card'[c].lastEventAt

LEMMA RowStamp ==
  ASSUME IInv, NEW c \in CardIds, card[c] # NoRow
  PROVE  card[c] \in CardRow /\ card[c].lastEventAt \in Nat
BY DEF IInv, TypeOK, CardRow

LEMMA RowsAreKept == ASSUME IInv, UNCHANGED card PROVE RowsGrow
BY RowStamp DEF RowsGrow

\* What is shown stays shown.
LEMMA ShownStays ==
  ASSUME IInv, IInv', RowsGrow, NEW e \in Published, log'[e] = log[e], Shows(e)
  PROVE  Shows(e)'
<1>1. log[e].card \in CardIds /\ log[e].at \in Nat
  BY LoggedEvents
<1>2. card[log[e].card].lastEventAt \in Nat
  BY <1>1, RowStamp DEF Shows
<1>3. card'[log[e].card].lastEventAt \in Nat /\ card'[log[e].card] # NoRow
  BY <1>1, RowStamp DEF Shows, RowsGrow, IInv, TypeOK, CardRow
<1> QED
  BY <1>1, <1>2, <1>3 DEF Shows, RowsGrow

\* Unit publishes an event: none of the rows is touched.
LEMMA EmitKeepsSInv ==
  ASSUME IInv, IInv', SInv, NEW type \in {"created", "statusChanged"}, NEW c \in CardIds,
         NEW status \in CardStatus, UnitEmits(type, c, status),
         UNCHANGED <<step, outcome, card>>, UnitFollowsLog', RowsAreIssued'
  PROVE  SInv'
<1>1. /\ Published' = Published \cup {Len(log) + 1} /\ Len(log) + 1 \notin Published
      /\ \A i \in Published : log'[i] = log[i]
      /\ UNCHANGED <<audit, running>>
  BY EmittedEvent
<1>2. LogIsOrdered'
  BY EmitKeepsOrder DEF SInv
<1>3. StampIsOfEvent'
  <2>1. \A d \in CardIds : /\ StatusEventsOf(d) \subseteq StatusEventsOf(d)'
                           /\ \A e \in StatusEventsOf(d) : log'[e] = log[e]
    BY EmittedEvents
  <2> QED
    BY <2>1 DEF SInv, StampIsOfEvent
<1>4. HandledIsShown'
  <2>1. \A e \in Published : Shows(e) => Shows(e)'
    BY <1>1, RowsAreKept, ShownStays
  <2>2. audit'[Len(log) + 1] \notin {"Processed", "Skipped"}
    <3>1. CASE Len(log) + 1 \in EventIds
      BY <1>1, <3>1 DEF IInv, PipelineIsSound
    <3>2. CASE Len(log) + 1 \notin EventIds
      <4>1. Len(log') <= MaxEvents /\ Len(log') = Len(log) + 1 /\ Len(log) \in Nat
        BY EmittedEvent, EmitGrowsLog
      <4> QED
        BY <3>2, <4>1, DeliveryAssumption DEF EventIds
    <3> QED
      BY <3>1, <3>2
  <2>3. \A w \in Workers : running'[w] # Len(log) + 1
    <3>1. Len(log) + 1 # NoEvent
      BY EmittedEvent DEF NoEvent
    <3> QED
      BY <1>1, <3>1 DEF IInv, PipelineIsSound
  <2>4. \A e \in Published, w \in Workers, verdict \in {"Processed", "Skipped"} :
          /\ WillMark(w, e, verdict)' <=> WillMark(w, e, verdict)
          /\ audit'[e] = audit[e]
    BY <1>1 DEF WillMark
  <2>5. SUFFICES ASSUME NEW e \in Published', NEW verdict \in {"Processed", "Skipped"},
                        log'[e].type = "statusChanged",
                        verdict = "Skipped" => log'[e].card \in Issued
                 PROVE  /\ audit'[e] = verdict => Shows(e)'
                        /\ \A w \in Workers : WillMark(w, e, verdict)' => Shows(e)'
    BY DEF HandledIsShown
  <2>6. CASE e \in Published
    BY <1>1, <2>1, <2>4, <2>5, <2>6 DEF SInv, HandledIsShown
  <2>7. CASE e = Len(log) + 1
    BY <2>2, <2>3, <2>5, <2>7 DEF WillMark
  <2> QED
    BY <1>1, <2>6, <2>7
<1> QED
  BY <1>2, <1>3, <1>4 DEF SInv

LEMMA CreateCardKeepsSInv ==
  ASSUME IInv, IInv', SInv, NEW c \in CardIds, CreateCard(c)
  PROVE  SInv'
<1>1. /\ UnitEmits("created", c, "Active") /\ unit[c] = "None"
      /\ unit' = [unit EXCEPT ![c] = "Active"]
      /\ issuing' = [issuing EXCEPT ![c] = "insert"]
      /\ UNCHANGED <<step, outcome, card>>
  BY DEF CreateCard
<1>2. "Active" \in CardStatus
  BY DEF CardStatus
<1>3. \A d \in CardIds : /\ StatusEventsOf(d)' = StatusEventsOf(d)
                         /\ \A e \in StatusEventsOf(d) : log'[e] = log[e]
  BY <1>1, <1>2, EmittedEvents
<1>4. /\ unit'[c] = "Active" /\ \A d \in CardIds \ {c} : unit'[d] = unit[d]
      /\ issuing'[c] = "insert" /\ \A d \in CardIds \ {c} : issuing'[d] = issuing[d]
  BY <1>1 DEF IInv, TypeOK
<1>5. StatusEventsOf(c) = {} /\ issuing[c] = "none" /\ card[c] = NoRow /\ c \notin Issued
  BY <1>1 DEF SInv, UnitFollowsLog, RowsAreIssued
<1>6. UnitFollowsLog'
  <2> SUFFICES ASSUME NEW d \in CardIds
               PROVE  /\ StatusEventsOf(d)' = {} => unit'[d] \in {"None", "Active"}
                      /\ unit'[d] = "None" => StatusEventsOf(d)' = {}
                      /\ \A e \in StatusEventsOf(d)' : (\A f \in StatusEventsOf(d)' : f <= e) =>
                           unit'[d] = log'[e].newStatus
    BY DEF UnitFollowsLog
  <2>1. CASE d = c
    BY <1>3, <1>4, <1>5, <2>1
  <2>2. CASE d # c
    BY <1>3, <1>4, <2>2 DEF SInv, UnitFollowsLog
  <2> QED
    BY <2>1, <2>2
<1>7. RowsAreIssued'
  BY <1>1, <1>4, <1>5 DEF SInv, RowsAreIssued
<1> QED
  BY <1>1, <1>2, <1>6, <1>7, EmitKeepsSInv

LEMMA UnitChangesKeepsSInv ==
  ASSUME IInv, IInv', SInv, NEW c \in CardIds, NEW action \in Actions \cup UnitActions,
         UnitChanges(c, action), UNCHANGED <<step, outcome, card, issuing>>
  PROVE  SInv'
<1> DEFINE n == Len(log) + 1
           status == TARGET_STATUS[action]
<1>1. status \in CardStatus
  BY TargetType
<1>2. /\ UnitEmits("statusChanged", c, status)
      /\ unit'[c] = status
      /\ \A d \in CardIds \ {c} : unit'[d] = unit[d]
      /\ unit[c] # "None"
  BY DEF UnitChanges, Allowed, IInv, TypeOK
<1>3. /\ \A d \in CardIds \ {c} : /\ StatusEventsOf(d)' = StatusEventsOf(d)
                                  /\ \A e \in StatusEventsOf(d) : log'[e] = log[e]
      /\ StatusEventsOf(c)' = StatusEventsOf(c) \cup {n} /\ StatusEventsOf(c) \subseteq Published
  BY <1>1, <1>2, EmittedEvents
<1>4. /\ \A i \in Published : i < n
      /\ log'[n].newStatus = status /\ Len(log) \in Nat
  BY <1>1, <1>2, EmittedEvent
<1>5. ASSUME NEW e \in StatusEventsOf(c)', \A f \in StatusEventsOf(c)' : f <= e PROVE e = n
  <2>1. n <= e
    BY <1>3, <1>5
  <2>2. CASE e \in Published
    <3>1. e < n /\ e \in Nat
      BY <1>4, <2>2 DEF Published
    <3> QED
      BY <1>4, <2>1, <3>1
  <2> QED
    BY <1>3, <2>2
<1>6. status # "None"
  BY <1>1 DEF CardStatus
<1> HIDE DEF n, status
<1>7. UnitFollowsLog'
  <2> SUFFICES ASSUME NEW d \in CardIds
               PROVE  /\ StatusEventsOf(d)' = {} => unit'[d] \in {"None", "Active"}
                      /\ unit'[d] = "None" => StatusEventsOf(d)' = {}
                      /\ \A e \in StatusEventsOf(d)' : (\A f \in StatusEventsOf(d)' : f <= e) =>
                           unit'[d] = log'[e].newStatus
    BY DEF UnitFollowsLog
  <2>1. CASE d = c
    BY <1>2, <1>3, <1>4, <1>5, <1>6, <2>1
  <2>2. CASE d # c
    BY <1>2, <1>3, <2>2 DEF SInv, UnitFollowsLog
  <2> QED
    BY <2>1, <2>2
<1>8. RowsAreIssued'
  BY <1>2, <1>6 DEF SInv, RowsAreIssued
<1> QED
  BY <1>1, <1>2, <1>7, <1>8, EmitKeepsSInv

\* A step without an event of Unit's keeps SInv if the rows grow, a new stamp is
\* that of an event, and what it applies or skips is shown.
LEMMA QuietKeepsSInv ==
  ASSUME IInv, IInv', SInv, UNCHANGED <<log, unit>>, RowsGrow, RowsAreIssued',
         \A c \in CardIds : card'[c] # NoRow =>
           \/ card[c] # NoRow /\ card'[c].lastEventAt = card[c].lastEventAt
           \/ card'[c].lastEventAt = Never
           \/ \E e \in StatusEventsOf(c) : log[e].at = card'[c].lastEventAt,
         \A e \in Published, verdict \in {"Processed", "Skipped"} :
           log[e].type = "statusChanged" /\ (verdict = "Skipped" => log[e].card \in Issued) =>
             /\ audit'[e] = verdict =>
                  audit[e] = verdict \/ \E w \in Workers : WillMark(w, e, verdict)
             /\ \A w \in Workers : WillMark(w, e, verdict)' =>
                  WillMark(w, e, verdict) \/ Shows(e) \/ Shows(e)'
  PROVE  SInv'
<1>1. Published' = Published /\ \A c \in CardIds : StatusEventsOf(c)' = StatusEventsOf(c)
  BY DEF Published, StatusEventsOf, EventsOf
<1>2. LogIsOrdered' /\ UnitFollowsLog'
  BY <1>1 DEF SInv, LogIsOrdered, UnitFollowsLog
<1>3. StampIsOfEvent'
  BY <1>1 DEF SInv, StampIsOfEvent
<1>4. \A e \in Published : Shows(e) => Shows(e)'
  BY ShownStays
<1>5. HandledIsShown'
  BY <1>1, <1>4 DEF SInv, HandledIsShown
<1> QED
  BY <1>2, <1>3, <1>5 DEF SInv

\* Such a step, if it leaves the cards alone.
LEMMA RowlessKeepsSInv ==
  ASSUME IInv, IInv', SInv, UNCHANGED <<log, unit, card>>,
         RowsAreIssued',
         \A e \in Published, verdict \in {"Processed", "Skipped"} :
           log[e].type = "statusChanged" /\ (verdict = "Skipped" => log[e].card \in Issued) =>
             /\ audit'[e] = verdict =>
                  audit[e] = verdict \/ \E w \in Workers : WillMark(w, e, verdict)
             /\ \A w \in Workers : WillMark(w, e, verdict)' =>
                  WillMark(w, e, verdict) \/ Shows(e)
  PROVE  SInv'
<1>1. RowsGrow
  BY RowsAreKept
<1> QED
  BY <1>1, QuietKeepsSInv

\* Such a step, if it leaves the workers alone as well.
LEMMA IdleKeepsSInv ==
  ASSUME IInv, IInv', SInv, UNCHANGED <<deliveryVars, step, outcome, unit, card>>,
         RowsAreIssued'
  PROVE  SInv'
<1>1. \A e, w, verdict : WillMark(w, e, verdict)' <=> WillMark(w, e, verdict)
  BY DEF WillMark, deliveryVars
<1> QED
  BY <1>1, RowlessKeepsSInv DEF deliveryVars

LEMMA InsertCardKeepsSInv ==
  ASSUME IInv, IInv', SInv, NEW c \in CardIds, InsertCard(c)
  PROVE  SInv'
<1>1. /\ card' = [card EXCEPT ![c] = NewRow("Active")]
      /\ issuing' = [issuing EXCEPT ![c] = "done"] /\ issuing[c] = "insert"
      /\ UNCHANGED <<deliveryVars, step, outcome, unit>>
  BY DEF InsertCard, handlerVars
<1>2. NewRow("Active") \in CardRow /\ NewRow("Active").lastEventAt = Never
  BY NewRowType DEF NewRow
<1>3. /\ card'[c] = NewRow("Active") /\ \A d \in CardIds \ {c} : card'[d] = card[d]
      /\ issuing'[c] = "done" /\ \A d \in CardIds \ {c} : issuing'[d] = issuing[d]
      /\ card'[c] # NoRow
  BY <1>1, <1>2, CardsAssumption DEF IInv, TypeOK
<1>4. card[c] = NoRow /\ unit[c] # "None"
  BY <1>1 DEF SInv, RowsAreIssued
<1>5. RowsGrow
  BY <1>3, <1>4, RowStamp DEF RowsGrow
<1>6. RowsAreIssued'
  BY <1>1, <1>3, <1>4 DEF SInv, RowsAreIssued
<1>7. \A d \in CardIds : card'[d] # NoRow =>
        \/ card[d] # NoRow /\ card'[d].lastEventAt = card[d].lastEventAt
        \/ card'[d].lastEventAt = Never
  BY <1>2, <1>3
<1>8. \A e, w, verdict : WillMark(w, e, verdict)' <=> WillMark(w, e, verdict)
  BY <1>1 DEF WillMark, deliveryVars
<1> QED
  BY <1>1, <1>5, <1>6, <1>7, <1>8, QuietKeepsSInv DEF deliveryVars

LEMMA LoseCardKeepsSInv ==
  ASSUME IInv, IInv', SInv, NEW c \in CardIds, LoseCard(c)
  PROVE  SInv'
<1>1. /\ issuing'[c] = "done" /\ \A d \in CardIds \ {c} : issuing'[d] = issuing[d]
      /\ issuing[c] = "insert"
  BY DEF LoseCard, IInv, TypeOK
<1>2. RowsAreIssued'
  BY <1>1 DEF SInv, RowsAreIssued, LoseCard
<1> QED
  BY <1>2, IdleKeepsSInv DEF LoseCard

\* The requests that write no row.
LEMMA SessionStepKeepsSInv ==
  ASSUME IInv, IInv', SInv, NEW s \in Sessions,
         \/ \E c \in CardIds, action \in Actions : Ask(s, c, action)
         \/ UnitRefuses(s)
         \/ LoseSession(s)
  PROVE  SInv'
<1>1. UNCHANGED <<deliveryVars, step, outcome, unit, card, issuing>>
  BY DEF Ask, UnitRefuses, LoseSession, handlerVars
<1>2. RowsAreIssued'
  BY <1>1 DEF SInv, RowsAreIssued
<1> QED
  BY <1>1, <1>2, IdleKeepsSInv

\* The write without a stamp.
LEMMA WriteStatusKeepsSInv ==
  ASSUME IInv, IInv', SInv, NEW s \in Sessions, WriteStatus(s)
  PROVE  SInv'
<1> DEFINE c == session[s].card
           status == TARGET_STATUS[session[s].action]
<1>1. /\ card' = [card EXCEPT ![c].status = status]
      /\ UNCHANGED <<deliveryVars, step, outcome, unit, issuing>>
  BY DEF WriteStatus, handlerVars
<1>2. c \in CardIds /\ card[c] # NoRow /\ card[c] \in CardRow /\ status \in CardStatus
  BY TargetType, RowStamp DEF WriteStatus, IInv, SessionsAreSound
<1> HIDE DEF c, status
<1>3. /\ card'[c] = [card[c] EXCEPT !.status = status]
      /\ \A d \in CardIds \ {c} : card'[d] = card[d]
  BY <1>1, <1>2 DEF IInv, TypeOK
<1>4. card'[c] \in CardRow /\ card'[c].lastEventAt = card[c].lastEventAt
  BY <1>2, <1>3 DEF CardRow
<1>5. card'[c] # NoRow
  BY <1>4, CardsAssumption
<1>6. \A d \in CardIds : /\ card'[d] # NoRow <=> card[d] # NoRow
                         /\ card[d] # NoRow => card'[d].lastEventAt = card[d].lastEventAt
  BY <1>2, <1>3, <1>4, <1>5
<1>7. RowsGrow
  BY <1>6, RowStamp DEF RowsGrow
<1>8. RowsAreIssued'
  BY <1>1, <1>6 DEF SInv, RowsAreIssued
<1>9. \A e, w, verdict : WillMark(w, e, verdict)' <=> WillMark(w, e, verdict)
  BY <1>1 DEF WillMark, deliveryVars
<1> QED
  BY <1>1, <1>6, <1>7, <1>8, <1>9, QuietKeepsSInv DEF deliveryVars

\* The steps that leave the cards and the requests alone.
LEMMA FrameKeepsSInv ==
  ASSUME IInv, IInv', SInv, Frame
  PROVE  SInv'
<1>1. UNCHANGED <<log, unit, card>> /\ RowsAreIssued'
  BY DEF Frame, Receive, Ingest, MarkEvent, Mark, SInv, RowsAreIssued
<1>2. CASE \E e \in EventIds : Receive(e)
  <2>1. PICK i \in EventIds : Receive(i)
    BY <1>2
  <2>2. /\ UNCHANGED <<running, step, outcome>>
        /\ audit'[i] \notin {"Processed", "Skipped"} \/ audit'[i] = audit[i]
        /\ \A e \in EventIds \ {i} : audit'[e] = audit[e]
    BY <2>1, FrameType DEF Receive, Ingest
  <2>3. \A e \in Published, verdict \in {"Processed", "Skipped"} :
          audit'[e] = verdict => audit[e] = verdict
    BY <2>2, LoggedEvents
  <2>4. \A e, v, verdict : WillMark(v, e, verdict)' <=> WillMark(v, e, verdict)
    BY <2>2 DEF WillMark
  <2> QED
    BY <1>1, <2>3, <2>4, RowlessKeepsSInv
<1>3. CASE \E w \in Workers : MarkEvent(w)
  <2>1. PICK w \in Workers : MarkEvent(w)
    BY <1>3
  <2>2. /\ step[w] = "mark" /\ running'[w] = NoEvent /\ running[w] \in Published
        /\ step'[w] = "idle"
        /\ \A v \in Workers \ {w} : /\ running'[v] = running[v] /\ step'[v] = step[v]
                                    /\ outcome'[v] = outcome[v]
        /\ audit'[running[w]] = outcome[w]
        /\ \A e \in EventIds \ {running[w]} : audit'[e] = audit[e]
    BY <2>1, FrameType, RunningEvent DEF MarkEvent, Mark, At
  <2>3. \A e \in Published, verdict \in {"Processed", "Skipped"} :
          audit'[e] = verdict => audit[e] = verdict \/ WillMark(w, e, verdict)
    BY <2>2, LoggedEvents DEF WillMark
  <2>4. \A e \in Published, v \in Workers, verdict \in {"Processed", "Skipped"} :
          WillMark(v, e, verdict)' => WillMark(v, e, verdict)
    BY <2>2 DEF WillMark
  <2> QED
    BY <1>1, <2>3, <2>4, RowlessKeepsSInv
<1> QED
  BY <1>2, <1>3 DEF Frame

\* An event that starts is not decided yet, unless its handler has nothing to do.
LEMMA StartHandlerKeepsSInv ==
  ASSUME IInv, IInv', SInv, NEW w \in Workers, NEW i \in EventIds, StartHandler(w, i)
  PROVE  SInv'
<1>1. /\ UNCHANGED <<log, audit, unit, card, issuing>>
      /\ running'[w] = i /\ step'[w] = FirstStep(log[i].type)
      /\ \A v \in Workers \ {w} : /\ running'[v] = running[v] /\ step'[v] = step[v]
                                  /\ outcome'[v] = outcome[v]
  BY FrameType DEF StartHandler, Start, Begin
<1>2. RowsAreIssued'
  BY <1>1 DEF SInv, RowsAreIssued
<1>3. \A e \in Published, v \in Workers, verdict \in {"Processed", "Skipped"} :
        log[e].type = "statusChanged" /\ WillMark(v, e, verdict)' => WillMark(v, e, verdict)
  BY <1>1 DEF WillMark, FirstStep
<1> QED
  BY <1>1, <1>2, <1>3, RowlessKeepsSInv

LEMMA BreakKeepsSInv ==
  ASSUME IInv, IInv', SInv, Break
  PROVE  SInv'
<1>1. PICK w \in Workers : Throw(w) \/ Die(w)
  BY DEF Break
<1>2. /\ UNCHANGED <<log, audit, unit, card, issuing>>
      /\ outcome'[w] = "Failed" \/ step'[w] = "idle"
      /\ \A v \in Workers \ {w} : /\ running'[v] = running[v] /\ step'[v] = step[v]
                                  /\ outcome'[v] = outcome[v]
  BY <1>1, FrameType DEF Break, Throw, Die, Abandon, deliveryVars
<1>3. RowsAreIssued'
  BY <1>2 DEF SInv, RowsAreIssued
<1>4. \A e \in Published, v \in Workers, verdict \in {"Processed", "Skipped"} :
        WillMark(v, e, verdict)' => WillMark(v, e, verdict)
  BY <1>2 DEF WillMark
<1> QED
  BY <1>2, <1>3, <1>4, RowlessKeepsSInv

\* The row of the start is there: an event that is skipped is not newer.
LEMMA SkipStatusKeepsSInv ==
  ASSUME IInv, IInv', SInv, NEW w \in Workers, At(w, "status"), Return(w, "Skipped"),
         ~(card[Event(w).card] # NoRow /\ IsNewer(card[Event(w).card], Event(w))),
         UNCHANGED <<unit, card, issuing>>
  PROVE  SInv'
<1> DEFINE e == running[w]
<1>1. /\ e \in Published /\ Event(w) = log[e] /\ log[e].card \in CardIds
      /\ log[e].at \in Nat
  BY RunningEvent DEF At
<1>2. /\ UNCHANGED <<log, audit, running>> /\ outcome'[w] = "Skipped"
      /\ \A v \in Workers \ {w} : step'[v] = step[v] /\ outcome'[v] = outcome[v]
  BY FrameType DEF Return, deliveryVars
<1>3. log[e].card \in Issued => Shows(e)
  <2> SUFFICES ASSUME log[e].card \in Issued PROVE Shows(e)
    OBVIOUS
  <2>1. card[log[e].card] # NoRow
    BY <1>1 DEF SInv, RowsAreIssued
  <2>2. card[log[e].card].lastEventAt \in Nat
    BY <1>1, <2>1, RowStamp
  <2>3. ~(card[log[e].card].lastEventAt < log[e].at)
    BY <1>1, <2>1 DEF IsNewer
  <2> QED
    BY <1>1, <2>1, <2>2, <2>3 DEF Shows
<1>4. RowsAreIssued'
  BY DEF SInv, RowsAreIssued
<1>5. \A i \in Published, v \in Workers, verdict \in {"Processed", "Skipped"} :
        WillMark(v, i, verdict)' => WillMark(v, i, verdict) \/ (i = e /\ verdict = "Skipped")
  BY <1>2 DEF WillMark
<1> HIDE DEF e
<1> QED
  BY <1>2, <1>3, <1>4, <1>5, RowlessKeepsSInv

\* What an applied event does to its card.
LEMMA AppliedStatus ==
  ASSUME IInv, NEW w \in Workers, At(w, "status"),
         card[Event(w).card] # NoRow, IsNewer(card[Event(w).card], Event(w)),
         card' = [card EXCEPT ![Event(w).card] =
           [status |-> Event(w).newStatus, lastEventAt |-> Event(w).at]]
  PROVE  \E c \in CardIds : \E e \in StatusEventsOf(c) :
           /\ e = running[w] /\ card[c] # NoRow /\ card'[c] # NoRow
           /\ card'[c].status = log[e].newStatus /\ card'[c].lastEventAt = log[e].at
           /\ card[c].lastEventAt < log[e].at
           /\ \A d \in CardIds \ {c} : card'[d] = card[d]
<1> DEFINE e == running[w]
           c == Event(w).card
           row == [status |-> Event(w).newStatus, lastEventAt |-> Event(w).at]
<1>1. /\ e \in Published /\ e # NoEvent /\ Event(w) = log[e] /\ c \in CardIds
      /\ log[e].at \in Nat /\ log[e].at # Never /\ log[e].newStatus \in CardStatus
  BY RunningEvent, LoggedEvents DEF At
<1>2. e \in StatusEventsOf(c)
  BY <1>1 DEF IInv, HandlerIsSound, At, StatusEventsOf, EventsOf
<1>3. card[c].lastEventAt \in Nat
  BY <1>1, RowStamp
<1>4. card[c].lastEventAt < log[e].at
  BY <1>1, <1>3 DEF IsNewer, Never
<1>5. row \in CardRow /\ row.status = log[e].newStatus /\ row.lastEventAt = log[e].at
  BY <1>1 DEF CardRow
<1> HIDE DEF row
<1>6. /\ card'[c] = row /\ row # NoRow
      /\ \A d \in CardIds \ {c} : card'[d] = card[d]
  BY <1>1, <1>5, CardsAssumption DEF IInv, TypeOK, row
<1> QED
  BY <1>1, <1>2, <1>4, <1>5, <1>6

LEMMA ApplyStatusKeepsSInv ==
  ASSUME IInv, IInv', SInv, NEW w \in Workers, At(w, "status"), Return(w, "Processed"),
         card[Event(w).card] # NoRow, IsNewer(card[Event(w).card], Event(w)),
         card' = [card EXCEPT ![Event(w).card] =
           [status |-> Event(w).newStatus, lastEventAt |-> Event(w).at]],
         UNCHANGED <<unit, issuing>>
  PROVE  SInv'
<1>1. PICK c \in CardIds : \E e \in StatusEventsOf(c) :
        /\ e = running[w] /\ card[c] # NoRow /\ card'[c] # NoRow
        /\ card'[c].status = log[e].newStatus /\ card'[c].lastEventAt = log[e].at
        /\ card[c].lastEventAt < log[e].at
        /\ \A d \in CardIds \ {c} : card'[d] = card[d]
  BY AppliedStatus
<1>2. PICK e \in StatusEventsOf(c) :
        /\ e = running[w] /\ card[c] # NoRow /\ card'[c] # NoRow
        /\ card'[c].status = log[e].newStatus /\ card'[c].lastEventAt = log[e].at
        /\ card[c].lastEventAt < log[e].at
        /\ \A d \in CardIds \ {c} : card'[d] = card[d]
  BY <1>1
<1>3. /\ UNCHANGED <<log, audit, running>> /\ outcome'[w] = "Processed"
      /\ \A v \in Workers \ {w} : step'[v] = step[v] /\ outcome'[v] = outcome[v]
  BY FrameType DEF Return, deliveryVars
<1>4. e \in Published /\ log[e].card = c /\ log[e].at \in Nat
  BY LoggedEvents DEF StatusEventsOf, EventsOf
<1>5. RowsGrow
  <2>1. card[c].lastEventAt \in Nat
    BY <1>2, RowStamp
  <2> QED
    BY <1>2, <1>4, <2>1, RowStamp DEF RowsGrow
<1>6. RowsAreIssued'
  BY <1>2 DEF SInv, RowsAreIssued
<1>7. Shows(e)'
  BY <1>2, <1>3, <1>4 DEF Shows
<1>8. \A i \in Published, v \in Workers, verdict \in {"Processed", "Skipped"} :
        WillMark(v, i, verdict)' => WillMark(v, i, verdict) \/ i = e
  BY <1>2, <1>3 DEF WillMark
<1>9. \A d \in CardIds : card'[d] # NoRow =>
        \/ card[d] # NoRow /\ card'[d].lastEventAt = card[d].lastEventAt
        \/ \E i \in StatusEventsOf(d) : log[i].at = card'[d].lastEventAt
  BY <1>2
<1> QED
  BY <1>3, <1>5, <1>6, <1>7, <1>8, <1>9, QuietKeepsSInv

LEMMA UpdateStatusKeepsSInv ==
  ASSUME IInv, IInv', SInv, NEW w \in Workers, UpdateStatus(w)
  PROVE  SInv'
<1> DEFINE row == card[Event(w).card]
<1>1. CASE row # NoRow /\ IsNewer(row, Event(w))
  BY <1>1, ApplyStatusKeepsSInv DEF UpdateStatus
<1>2. CASE ~(row # NoRow /\ IsNewer(row, Event(w)))
  BY <1>2, SkipStatusKeepsSInv DEF UpdateStatus
<1> QED
  BY <1>1, <1>2

\* Whose doing it is, the card changes at Unit.
LEMMA UnitStepKeepsSInv ==
  ASSUME IInv, IInv', SInv, UnitStep \/ \E s \in Sessions : CallUnit(s)
  PROVE  SInv'
<1>1. CASE UnitStep
  BY <1>1, UnitChangesKeepsSInv DEF UnitStep, UnitActs
<1>2. CASE \E s \in Sessions : CallUnit(s)
  <2>1. PICK s \in Sessions : CallUnit(s)
    BY <1>2
  <2>2. session[s].card \in CardIds /\ session[s].action \in Actions
    BY <2>1 DEF CallUnit, IInv, SessionsAreSound
  <2> QED
    BY <2>1, <2>2, UnitChangesKeepsSInv DEF CallUnit
<1> QED
  BY <1>1, <1>2

LEMMA StutterKeepsSInv ==
  ASSUME IInv, IInv', SInv, UNCHANGED vars PROVE SInv'
<1>1. RowsAreIssued'
  BY DEF vars, SInv, RowsAreIssued
<1> QED
  BY <1>1, IdleKeepsSInv DEF vars, handlerVars

LEMMA NextSInv == IInv /\ IInv' /\ SInv /\ [Next]_vars => SInv'
<1> SUFFICES ASSUME IInv, IInv', SInv, [Next]_vars PROVE SInv'
  OBVIOUS
<1>1. CASE UnitStep
  BY <1>1, UnitStepKeepsSInv
<1>2. CASE ApiStep
  BY <1>2, CreateCardKeepsSInv, InsertCardKeepsSInv, LoseCardKeepsSInv, SessionStepKeepsSInv
     DEF ApiStep
<1>3. CASE Serve
  BY <1>3, UnitStepKeepsSInv, SessionStepKeepsSInv, WriteStatusKeepsSInv DEF Serve
<1>4. CASE Deliver
  BY <1>4, FrameKeepsSInv, StartHandlerKeepsSInv, UpdateStatusKeepsSInv DEF Deliver
<1>5. CASE Break
  BY <1>5, BreakKeepsSInv
<1>6. CASE UNCHANGED vars
  BY <1>6, StutterKeepsSInv
<1> QED
  BY <1>1, <1>2, <1>3, <1>4, <1>5, <1>6 DEF Next, Rest

LEMMA InitSInv == Init => SInv
<1> SUFFICES ASSUME Init PROVE SInv
  OBVIOUS
<1>1. Published = {} /\ \A c \in CardIds : StatusEventsOf(c) = {}
  BY DEF Init, HandlersInit, DeliveryInit, Published, EventsOf, StatusEventsOf
<1>2. LogIsOrdered /\ HandledIsShown
  BY <1>1 DEF LogIsOrdered, HandledIsShown
<1>3. UnitFollowsLog
  BY <1>1 DEF Init, UnitFollowsLog
<1>4. \A c \in CardIds : /\ c \in Issued => card[c] = NewRow("Active")
                         /\ c \notin Issued => card[c] = NoRow
  BY DEF Init
<1>5. NewRow("Active") # NoRow /\ NewRow("Active").lastEventAt = Never
  BY NewRowType, CardsAssumption DEF NewRow
<1>6. RowsAreIssued
  BY <1>4, <1>5, CardsAssumption DEF Init, RowsAreIssued
<1>7. StampIsOfEvent
  BY <1>4, <1>5 DEF StampIsOfEvent
<1> QED
  BY <1>2, <1>3, <1>6, <1>7 DEF SInv

\* What relates the rows to Unit holds in every state of every execution.
THEOREM StatusInvariance == Spec => []SInv
<1> QED
  BY InitSInv, NextSInv, Invariance, PTL DEF Spec

-----------------------------------------------------------------------------
(* A row follows Unit as long as no write of it is overtaken.              *)

\* A set of positions has a greatest one.
LEMMA GreatestPosition ==
  ASSUME NEW n \in Nat, NEW S \in SUBSET (1..n), S # {}
  PROVE  \E e \in S : \A f \in S : f <= e
<1> DEFINE T == {n - e : e \in S}
           R == OpToRel(<, Nat)
<1>1. \A e \in S : e \in 1..n /\ e \in Nat /\ n - e \in Nat
  <2>1. \A e \in 1..n : e \in Nat /\ n - e \in Nat
    OBVIOUS
  <2> QED
    BY <2>1
<1>2. T \subseteq Nat /\ T # {}
  BY <1>1
<1>3. IsWellFoundedOn(R, Nat)
  BY NatLessThanWellFounded
<1>4. \A x, y \in Nat : <<y, x>> \in R <=> y < x
  BY SMT DEF OpToRel
<1> HIDE DEF R, T
<1>5. PICK x \in T : \A y \in T : ~ (<<y, x>> \in R)
  BY <1>2, <1>3, WFMin
<1>6. PICK e \in S : x = n - e
  BY DEF T
<1>7. ASSUME NEW f \in S PROVE f <= e
  <2>1. n - f \in T /\ n - e \in Nat /\ n - f \in Nat /\ e \in Nat /\ f \in Nat
    BY <1>1 DEF T
  <2>2. ~(n - f < n - e)
    BY <1>4, <1>5, <1>6, <2>1
  <2> QED
    BY <2>1, <2>2
<1> QED
  BY <1>6, <1>7

\* The last status event of a card, if there is one, has Unit's status and is of
\* the latest time.
LEMMA LastEvent ==
  ASSUME IInv, SInv, NEW c \in CardIds, StatusEventsOf(c) # {}
  PROVE  \E e \in StatusEventsOf(c) :
           /\ unit[c] = log[e].newStatus
           /\ \A f \in StatusEventsOf(c) : log[f].at <= log[e].at
<1>1. Len(log) \in Nat /\ StatusEventsOf(c) \in SUBSET (1..Len(log))
  BY DEF IInv, PipelineIsSound, StatusEventsOf, EventsOf, Published
<1>2. PICK e \in StatusEventsOf(c) : \A f \in StatusEventsOf(c) : f <= e
  BY <1>1, GreatestPosition
<1>3. unit[c] = log[e].newStatus
  BY <1>2 DEF SInv, UnitFollowsLog
<1>4. ASSUME NEW f \in StatusEventsOf(c) PROVE log[f].at <= log[e].at
  <2>1. /\ e \in Published /\ f \in Published /\ e \in Nat /\ f \in Nat /\ f <= e
        /\ log[e].at \in Nat
    BY <1>1, <1>2, LoggedEvents DEF StatusEventsOf, EventsOf
  <2>2. CASE f = e
    BY <2>1, <2>2
  <2>3. CASE f < e
    BY <2>1, <2>3 DEF SInv, LogIsOrdered
  <2> QED
    BY <2>1, <2>2, <2>3
<1> QED
  BY <1>3, <1>4

\* A card whose row, events and status at Unit stay as they were.
LEMMA SameCardFollows ==
  ASSUME NEW c \in CardIds, Follows(c), card'[c] = card[c], unit'[c] = unit[c],
         StatusEventsOf(c)' = StatusEventsOf(c),
         \A e \in StatusEventsOf(c) : log'[e].at = log[e].at
  PROVE  Follows(c)'
BY DEF Follows, Behind, Tied

\* The card changes at Unit: the row is behind, or what is new is of the
\* millisecond of its stamp.
LEMMA UnitChangesFollows ==
  ASSUME IInv, SInv, NEW c \in CardIds, Follows(c),
         NEW d \in CardIds, NEW action \in Actions \cup UnitActions,
         UnitChanges(d, action), UNCHANGED card
  PROVE  Follows(c)'
<1> DEFINE n == Len(log) + 1
           status == TARGET_STATUS[action]
<1>1. status \in CardStatus
  BY TargetType
<1>2. /\ UnitEmits("statusChanged", d, status)
      /\ \A i \in CardIds \ {d} : unit'[i] = unit[i]
  BY DEF UnitChanges, IInv, TypeOK
<1>3. CASE c # d
  <2>1. StatusEventsOf(c)' = StatusEventsOf(c) /\ \A e \in StatusEventsOf(c) : log'[e] = log[e]
    BY <1>1, <1>2, <1>3, EmittedEvents
  <2> QED
    BY <1>2, <1>3, <2>1, SameCardFollows
<1>4. CASE c = d /\ card[c] # NoRow
  <2>1. /\ StatusEventsOf(c)' = StatusEventsOf(c) \cup {n}
        /\ StatusEventsOf(c) \subseteq Published
        /\ \A e \in StatusEventsOf(c) : log'[e] = log[e]
    BY <1>1, <1>2, <1>4, EmittedEvents
  <2>2. n \notin Published
    BY <1>1, <1>2, EmittedEvent
  <2>3. ASSUME NEW e \in Published PROVE log[e].at <= log'[n].at
    <3>1. PICK gap \in Gaps : /\ log'[n].at = Later(gap)
                              /\ LogIsOrdered => log[e].at <= Later(gap)
      BY <1>1, <1>2, <2>3, EmittedEvent
    <3> QED
      BY <3>1 DEF SInv
  <2>4. card[c].lastEventAt \in Nat
    BY <1>4, RowStamp
  <2>5. log'[n].at \in Nat /\ log'[n].at # Never
    <3>1. /\ log' \in Seq(CardEvent) /\ Len(log') = n
      BY <1>1, <1>2, EmitGrowsLog
    <3>2. Len(log) \in Nat
      BY <1>1, <1>2, EmittedEvent
    <3>3. log'[n] \in CardEvent
      BY <3>1, <3>2
    <3> QED
      BY <3>3 DEF CardEvent
  <2> HIDE DEF n
  <2>6. CASE card[c].lastEventAt = Never
    <3>1. log'[n].at > card[c].lastEventAt
      BY <2>5, <2>6 DEF Never
    <3> QED
      BY <2>1, <3>1 DEF Follows, Behind
  <2>7. CASE card[c].lastEventAt # Never
    <3>1. PICK e \in StatusEventsOf(c) : log[e].at = card[c].lastEventAt
      BY <1>4, <2>7 DEF SInv, StampIsOfEvent
    <3>2. /\ log[e].at <= log'[n].at /\ e # n /\ log'[e].at = log[e].at
          /\ e \in StatusEventsOf(c)' /\ n \in StatusEventsOf(c)'
      BY <2>1, <2>2, <2>3, <3>1
    <3>3. CASE log'[n].at > card[c].lastEventAt
      BY <3>2, <3>3 DEF Follows, Behind
    <3>4. CASE log'[n].at = card[c].lastEventAt
      BY <3>1, <3>2, <3>4 DEF Follows, Tied
    <3> QED
      BY <2>4, <2>5, <3>1, <3>2, <3>3, <3>4
  <2> QED
    BY <2>6, <2>7
<1>5. CASE card[c] = NoRow
  BY <1>5 DEF Follows
<1> QED
  BY <1>3, <1>4, <1>5

\* A step without an event of Unit's about c, nor a write of c's row.
LEMMA CreateCardFollows ==
  ASSUME IInv, SInv, NEW c \in CardIds, Follows(c), NEW d \in CardIds, CreateCard(d)
  PROVE  Follows(c)'
<1>1. UnitEmits("created", d, "Active") /\ "Active" \in CardStatus /\ UNCHANGED card
  BY DEF CreateCard, CardStatus
<1>2. StatusEventsOf(c)' = StatusEventsOf(c) /\ \A e \in StatusEventsOf(c) : log'[e] = log[e]
  BY <1>1, EmittedEvents
<1>3. CASE c = d
  BY <1>1, <1>3 DEF CreateCard, SInv, RowsAreIssued, Follows
<1>4. CASE c # d
  BY <1>1, <1>2, <1>4, SameCardFollows DEF CreateCard, IInv, TypeOK
<1> QED
  BY <1>3, <1>4

\* A new row is of an active card, or behind.
LEMMA InsertCardFollows ==
  ASSUME IInv, SInv, NEW c \in CardIds, Follows(c), NEW d \in CardIds, InsertCard(d)
  PROVE  Follows(c)'
<1>1. /\ UNCHANGED <<log, unit>>
      /\ StatusEventsOf(c)' = StatusEventsOf(c)
  BY DEF InsertCard, handlerVars, deliveryVars, StatusEventsOf, EventsOf, Published
<1>2. CASE c # d
  <2>1. card'[c] = card[c]
    BY <1>2 DEF InsertCard, IInv, TypeOK
  <2> QED
    BY <1>1, <2>1, SameCardFollows
<1>3. CASE c = d
  <2>1. /\ card'[c].status = "Active" /\ card'[c].lastEventAt = Never
        /\ unit[c] # "None"
    BY <1>3 DEF InsertCard, NewRow, IInv, TypeOK, SInv, RowsAreIssued
  <2>2. CASE StatusEventsOf(c) = {}
    BY <1>1, <2>1, <2>2 DEF SInv, UnitFollowsLog, Follows
  <2>3. CASE StatusEventsOf(c) # {}
    <3>1. PICK e \in StatusEventsOf(c) : TRUE
      BY <2>3
    <3>2. log[e].at \in Nat /\ log[e].at # Never
      BY LoggedEvents DEF StatusEventsOf, EventsOf
    <3>3. log[e].at > card'[c].lastEventAt
      BY <2>1, <3>2 DEF Never
    <3> QED
      BY <1>1, <3>3 DEF Follows, Behind
  <2> QED
    BY <2>2, <2>3
<1> QED
  BY <1>2, <1>3

\* A write that is not overtaken writes Unit's status.
LEMMA WriteStatusFollows ==
  ASSUME IInv, NEW c \in CardIds, Follows(c), ~Overtaken(c),
         NEW s \in Sessions, WriteStatus(s)
  PROVE  Follows(c)'
<1>1. /\ UNCHANGED <<log, unit>>
      /\ StatusEventsOf(c)' = StatusEventsOf(c)
  BY DEF WriteStatus, handlerVars, deliveryVars, StatusEventsOf, EventsOf, Published
<1>2. session[s].card \in CardIds /\ card[session[s].card] # NoRow
  BY DEF WriteStatus, IInv, SessionsAreSound
<1>3. CASE session[s].card # c
  <2>1. card'[c] = card[c]
    BY <1>2, <1>3 DEF WriteStatus, IInv, TypeOK
  <2> QED
    BY <1>1, <2>1, SameCardFollows
<1>4. CASE session[s].card = c
  <2>1. unit[c] = TARGET_STATUS[session[s].action]
    BY <1>4 DEF Overtaken, WriteStatus
  <2>2. card[c] \in CardRow
    BY <1>2, <1>4, RowStamp
  <2>3. card'[c].status = TARGET_STATUS[session[s].action]
    BY <1>4, <2>2 DEF WriteStatus, IInv, TypeOK, CardRow
  <2> QED
    BY <1>1, <2>1, <2>3 DEF Follows
<1> QED
  BY <1>3, <1>4

LEMMA UpdateStatusFollows ==
  ASSUME IInv, IInv', SInv, SInv', NEW c \in CardIds, Follows(c),
         NEW w \in Workers, UpdateStatus(w)
  PROVE  Follows(c)'
<1> DEFINE row == card[Event(w).card]
<1>1. /\ UNCHANGED <<log, unit>>
      /\ StatusEventsOf(c)' = StatusEventsOf(c)
  BY DEF UpdateStatus, Return, deliveryVars, StatusEventsOf, EventsOf, Published
<1>2. CASE row # NoRow /\ IsNewer(row, Event(w))
  <2>1. PICK d \in CardIds : \E e \in StatusEventsOf(d) :
          /\ e = running[w] /\ card[d] # NoRow /\ card'[d] # NoRow
          /\ card'[d].status = log[e].newStatus /\ card'[d].lastEventAt = log[e].at
          /\ card[d].lastEventAt < log[e].at
          /\ \A i \in CardIds \ {d} : card'[i] = card[i]
    BY <1>2, AppliedStatus DEF UpdateStatus
  <2>2. CASE c = d
    <3>1. PICK e \in StatusEventsOf(c) :
            /\ card'[c] # NoRow
            /\ card'[c].status = log[e].newStatus /\ card'[c].lastEventAt = log[e].at
      BY <2>1, <2>2
    <3>2. PICK f \in StatusEventsOf(c) : /\ unit[c] = log[f].newStatus
                                         /\ log[e].at <= log[f].at
      BY LastEvent
    <3>3. log[e].at \in Nat /\ log[f].at \in Nat
      BY LoggedEvents DEF StatusEventsOf, EventsOf
    <3>4. CASE f = e
      BY <1>1, <3>1, <3>2, <3>4 DEF Follows
    <3>5. CASE f # e /\ log[f].at = log[e].at
      BY <1>1, <3>1, <3>5 DEF Follows, Tied
    <3>6. CASE log[f].at > log[e].at
      BY <1>1, <3>1, <3>6 DEF Follows, Behind
    <3> QED
      BY <3>2, <3>3, <3>4, <3>5, <3>6
  <2>3. CASE c # d
    BY <1>1, <2>1, <2>3, SameCardFollows
  <2> QED
    BY <2>2, <2>3
<1>3. CASE ~(row # NoRow /\ IsNewer(row, Event(w)))
  BY <1>1, <1>3, SameCardFollows DEF UpdateStatus
<1> QED
  BY <1>2, <1>3

\* The steps that are not about the cards' statuses.
LEMMA QuietFollows ==
  ASSUME NEW c \in CardIds, Follows(c), UNCHANGED <<log, unit, card>>
  PROVE  Follows(c)'
<1>1. StatusEventsOf(c)' = StatusEventsOf(c)
  BY DEF StatusEventsOf, EventsOf, Published
<1> QED
  BY <1>1, SameCardFollows

LEMMA NextFollows ==
  ASSUME NEW c \in CardIds
  PROVE  IInv /\ IInv' /\ SInv /\ SInv' /\ ~Overtaken(c) /\ Follows(c) /\ [Next]_vars
           => Follows(c)'
<1> SUFFICES ASSUME IInv, IInv', SInv, SInv', ~Overtaken(c), Follows(c), [Next]_vars
             PROVE  Follows(c)'
  OBVIOUS
<1>1. CASE UnitStep
  BY <1>1, UnitChangesFollows DEF UnitStep, UnitActs
<1>2. CASE ApiStep
  <2>1. CASE \E d \in CardIds : CreateCard(d) \/ InsertCard(d)
    BY <2>1, CreateCardFollows, InsertCardFollows
  <2>2. CASE \E d \in CardIds : LoseCard(d)
    BY <2>2, QuietFollows DEF LoseCard, deliveryVars
  <2>3. CASE \E s \in Sessions :
               \/ \E d \in CardIds, action \in Actions : Ask(s, d, action)
               \/ LoseSession(s)
    BY <2>3, QuietFollows DEF Ask, LoseSession, handlerVars, deliveryVars
  <2> QED
    BY <1>2, <2>1, <2>2, <2>3 DEF ApiStep
<1>3. CASE Serve
  <2>1. PICK s \in Sessions : CallUnit(s) \/ UnitRefuses(s) \/ WriteStatus(s)
    BY <1>3 DEF Serve
  <2>2. CASE CallUnit(s)
    <3>1. session[s].card \in CardIds /\ session[s].action \in Actions
      BY <2>2 DEF CallUnit, IInv, SessionsAreSound
    <3> QED
      BY <2>2, <3>1, UnitChangesFollows DEF CallUnit
  <2>3. CASE UnitRefuses(s)
    BY <2>3, QuietFollows DEF UnitRefuses, handlerVars, deliveryVars
  <2>4. CASE WriteStatus(s)
    BY <2>4, WriteStatusFollows
  <2> QED
    BY <2>1, <2>2, <2>3, <2>4
<1>4. CASE Deliver
  <2>1. CASE Frame
    BY <2>1, QuietFollows DEF Frame, Receive, Ingest, MarkEvent, Mark
  <2>2. CASE \E w \in Workers, e \in EventIds : StartHandler(w, e)
    BY <2>2, QuietFollows DEF StartHandler, Start, Begin
  <2> QED
    BY <1>4, <2>1, <2>2, UpdateStatusFollows DEF Deliver
<1>5. CASE Break
  BY <1>5, QuietFollows DEF Break, Throw, Die, Abandon, deliveryVars
<1>6. CASE UNCHANGED vars
  BY <1>6, QuietFollows DEF vars, handlerVars, deliveryVars
<1> QED
  BY <1>1, <1>2, <1>3, <1>4, <1>5, <1>6 DEF Next, Rest

LEMMA InitFollows == ASSUME NEW c \in CardIds PROVE Init => Follows(c)
BY NewRowType DEF Init, Follows

\* What the settled rows are.
LEMMA SettledRow ==
  ASSUME IInv, SInv, NEW c \in CardIds, Follows(c)
  PROVE  SettledIsRight(c)
<1> SUFFICES ASSUME Settled(c), card[c] # NoRow, Behind(c) PROVE CameTooEarly(c)
  BY DEF SettledIsRight, Follows
<1>1. PICK e \in StatusEventsOf(c) : log[e].at > card[c].lastEventAt
  BY DEF Behind
<1>2. /\ e \in Published /\ e \in EventsOf(c) /\ log[e].card = c
      /\ log[e].type = "statusChanged" /\ log[e].at \in Nat
      /\ audit[e] \in {"Processed", "Skipped"}
  BY LoggedEvents DEF StatusEventsOf, EventsOf, Settled, Concluded, Terminal
<1>3. ~Shows(e)
  BY <1>1, <1>2, RowStamp DEF Shows
<1>4. audit[e] = "Skipped" /\ c \notin Issued
  BY <1>2, <1>3 DEF SInv, HandledIsShown
<1> QED
  BY <1>1, <1>4 DEF CameTooEarly

\* The safety core of StatusSettles: once the events and the requests of a card
\* are dealt with, its row has Unit's status, whichever of the write without a
\* guard (cards.repository.ts:54) and the webhook came last, was repeated or was
\* lost; as long as no write was overtaken at Unit, and unless an event came
\* before the row or shares its millisecond with another.
THEOREM SettledStatus ==
  ASSUME NEW c \in CardIds
  PROVE  Spec /\ []~Overtaken(c) => []SettledIsRight(c)
<1>1. Init => Follows(c)
  BY InitFollows
<1>2. IInv /\ IInv' /\ SInv /\ SInv' /\ ~Overtaken(c) /\ Follows(c) /\ [Next]_vars
        => Follows(c)'
  BY NextFollows
<1>3. IInv /\ SInv /\ Follows(c) => SettledIsRight(c)
  BY SettledRow
<1> QED
  BY <1>1, <1>2, <1>3, Invariance, StatusInvariance, PTL DEF Spec

\* Where no two events share a millisecond, the row of a card that has one from
\* the start is right whenever the card is settled.
IssuedIsRight(c) == Settled(c) => card[c].status = unit[c]

THEOREM IssuedStatus ==
  ASSUME NEW c \in Issued, 0 \notin Gaps
  PROVE  Spec /\ []~Overtaken(c) => []IssuedIsRight(c)
<1>1. c \in CardIds
  BY CardsAssumption
<1>2. Spec /\ []~Overtaken(c) => []SettledIsRight(c)
  BY <1>1, SettledStatus
<1>3. IInv /\ SInv => ~Tied(c)
  <2> SUFFICES ASSUME IInv, SInv,
                      NEW e \in StatusEventsOf(c), NEW f \in StatusEventsOf(c), e # f
               PROVE  log[e].at # log[f].at
    BY DEF Tied
  <2>1. /\ e \in Published /\ f \in Published /\ e \in Nat /\ f \in Nat
        /\ log[e].at \in Nat /\ log[f].at \in Nat
    BY LoggedEvents DEF StatusEventsOf, EventsOf, Published
  <2>2. e < f => log[e].at < log[f].at
    BY <2>1 DEF SInv, LogIsOrdered
  <2>3. f < e => log[f].at < log[e].at
    BY <2>1 DEF SInv, LogIsOrdered
  <2> QED
    BY <2>1, <2>2, <2>3
<1>4. IInv /\ SInv /\ SettledIsRight(c) => IssuedIsRight(c)
  BY <1>1, <1>3 DEF SettledIsRight, IssuedIsRight, CameTooEarly, SInv, RowsAreIssued
<1> QED
  BY <1>2, <1>4, Invariance, StatusInvariance, PTL
=============================================================================
