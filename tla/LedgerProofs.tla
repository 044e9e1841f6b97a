---------------------------- MODULE LedgerProofs -----------------------------
(***************************************************************************)
(* Theorems about Ledger.tla, for any accounts, workers, events, amounts,  *)
(* gaps and faults.  The safety invariants are not inductive: a step taken *)
(* from a state they allow can break them when a worker holds a read that  *)
(* no execution could have given it.  IInv says which reads there are.     *)
(***************************************************************************)
EXTENDS Ledger, SequenceTheorems, TLAPS

\* What is audited or run has been published.
OnlyPublished ==
  /\ \A e \in EventIds : audit[e] # "Absent" => e \in Published
  /\ \A w \in Workers : running[w] # NoEvent =>
       running[w] \in Published /\ audit[running[w]] # "Absent"

\* A posted transaction is named by its event; an account with events is open.
LogIsSound ==
  \A e \in Published :
    /\ log[e].type = "transactionCreated" => log[e].transaction = e
    /\ unit[log[e].account].status # "None"

\* A handler is on a step of its event's type, a locked row exists, and a
\* fetched account is one that has seen no event.
WorkerIsSound(w) ==
  /\ step[w] # "idle" => running[w] # NoEvent
  /\ step[w] \in {"lock", "decide", "write"} => Event(w).type = "transactionCreated"
  /\ step[w] = "status" => Event(w).type \in DOMAIN ACCOUNT_STATUS_EVENTS
  /\ step[w] = "touch" => Event(w).type = "transactionUpdated"
  /\ step[w] \in {"decide", "write"} => read[w] \in AccountRow
  /\ step[w] = "insert" =>
       /\ read[w] \in AccountRow
       /\ read[w].lastEventAt = Never
       /\ read[w].available = read[w].balance - read[w].hold

HandlerIsSound == \A w \in Workers : WorkerIsSound(w)

\* A ledger row belongs to the event that created it and to a stored account.
LedgerIsSound ==
  \A e \in EventIds : ledger[e] # NoRow =>
    /\ e \in Published
    /\ ledger[e].account = log[e].account
    /\ ledger[e].balance = log[e].balance
    /\ row[log[e].account] # NoRow

IInv ==
  /\ TypeOK
  /\ OnlyPublished
  /\ LogIsSound
  /\ HandlerIsSound
  /\ CheckStillHolds
  /\ LedgerIsSound
  /\ BalanceFollowsNewest

-----------------------------------------------------------------------------
\* The status events are the four keys of the table.
LEMMA StatusEvents ==
  /\ DOMAIN ACCOUNT_STATUS_EVENTS = {"frozen", "unfrozen", "reopened", "closed"}
  /\ \A type \in DOMAIN ACCOUNT_STATUS_EVENTS : ACCOUNT_STATUS_EVENTS[type] \in AccountStatus
BY DEF ACCOUNT_STATUS_EVENTS, AccountStatus

\* A document of an account that is open at Unit is a row without a stamp.
LEMMA CreatedRowType ==
  ASSUME NEW u \in UnitAccount, u.status # "None"
  PROVE  /\ CreatedRow(u) \in AccountRow
         /\ CreatedRow(u).lastEventAt = Never
         /\ CreatedRow(u).available = CreatedRow(u).balance - CreatedRow(u).hold
BY DEF UnitAccount, AccountRow, CreatedRow, Never

LEMMA JustOpenedType == JustOpened \in UnitAccount /\ JustOpened.status # "None"
BY DEF JustOpened, UnitAccount, AccountStatus

\* Every published event is a well-formed one.
LEMMA LoggedEvents ==
  ASSUME TypeOK, NEW e \in Published
  PROVE  log[e] \in UnitEvent /\ log[e].account \in Accounts /\ log[e].at \in Nat
<1>1. log[e] \in UnitEvent
  BY DEF TypeOK, Published
<1> QED
  BY <1>1 DEF UnitEvent

\* Init establishes the invariant.
LEMMA InitIInv == Init => IInv
<1> SUFFICES ASSUME Init PROVE IInv
  OBVIOUS
<1> USE LedgerAssumption, DeliveryAssumption
<1>1. TypeOK
  <2>1. DeliveryTypeOK
    BY DEF Init, DeliveryInit, DeliveryTypeOK, EventIds, NoEvent
  <2>2. log \in Seq(UnitEvent)
    BY DEF Init, DeliveryInit
  <2>3. unit \in [Accounts -> UnitAccount]
    BY DEF Init, JustOpened, Unopened, UnitAccount, AccountStatus
  <2>4. row \in [Accounts -> AccountRow \cup {NoRow}]
    BY CreatedRowType, JustOpenedType DEF Init
  <2>5. /\ ledger \in [EventIds -> TransactionRow \cup {NoRow}]
        /\ lock \in [Accounts -> Workers \cup {NoWorker}]
        /\ step \in [Workers -> Steps]
        /\ read \in [Workers -> AccountRow \cup {NoRow}]
        /\ outcome \in [Workers -> Verdicts]
        /\ opening \in [Accounts -> {"none", "insert", "done"}]
        /\ faults \in 0..MaxFaults
    BY DEF Init, Steps, Verdicts, Terminal
  <2> QED
    BY <2>1, <2>2, <2>3, <2>4, <2>5 DEF TypeOK
<1>2. OnlyPublished /\ LogIsSound /\ HandlerIsSound /\ CheckStillHolds /\ LedgerIsSound
  BY DEF Init, DeliveryInit, OnlyPublished, LogIsSound, HandlerIsSound, WorkerIsSound,
         CheckStillHolds, ReadHolds, LedgerIsSound, Published, EventIds, NoEvent
<1>3. BalanceFollowsNewest
  <2> SUFFICES ASSUME NEW a \in Accounts, row[a] # NoRow
               PROVE  row[a].available = row[a].balance - row[a].hold
    BY DEF BalanceFollowsNewest, Recorded, Init
  <2> QED
    BY CreatedRowType, JustOpenedType DEF Init
<1> QED
  BY <1>1, <1>2, <1>3 DEF IInv

-----------------------------------------------------------------------------
(* Steps that publish an event.                                            *)

\* The time of the last event is a natural number.
LEMMA LastAtType == ASSUME TypeOK PROVE LastAt \in Nat
<1>1. CASE log = <<>>
  BY <1>1 DEF LastAt, Never
<1>2. CASE log # <<>>
  <2>1. log \in Seq(UnitEvent) /\ Len(log) \in 1..Len(log)
    BY <1>2, EmptySeq DEF TypeOK
  <2>2. log[Len(log)] \in UnitEvent
    BY <2>1
  <2> QED
    BY <1>2, <2>2 DEF LastAt, UnitEvent
<1> QED
  BY <1>1, <1>2

\* What UnitEmits does to the log: one well-formed event more.
LEMMA EmitGrowsLog ==
  ASSUME TypeOK, NEW type \in EventTypes, NEW a \in Accounts, NEW t,
         NEW u \in UnitAccount, t \in EventIds \/ t = Len(log) + 1,
         UnitEmits(type, a, t, u)
  PROVE  /\ log' \in Seq(UnitEvent)
         /\ Len(log') = Len(log) + 1 /\ Len(log') <= MaxEvents
         /\ \A i \in Published : log'[i] = log[i]
         /\ log'[Len(log')].type = type
         /\ log'[Len(log')].account = a
         /\ log'[Len(log')].transaction = t
         /\ UNCHANGED <<audit, running>>
<1> USE LedgerAssumption, DeliveryAssumption
<1>1. PICK gap \in Gaps :
        LET at == IF LastAt + gap = Never THEN 1 ELSE LastAt + gap
        IN Emit([type |-> type, account |-> a, transaction |-> t,
                 at |-> at, balance |-> u.balance])
  BY DEF UnitEmits
<1> DEFINE at == IF LastAt + gap = Never THEN 1 ELSE LastAt + gap
           ev == [type |-> type, account |-> a, transaction |-> t,
                  at |-> at, balance |-> u.balance]
<1>2. Emit(ev)
  BY <1>1
<1>3. at \in Nat \ {Never}
  BY LastAtType DEF Never
<1>4. log \in Seq(UnitEvent) /\ Len(log) \in Nat /\ Len(log) < MaxEvents
  BY <1>2 DEF Emit, TypeOK
<1>5. t \in EventIds
  BY <1>4 DEF EventIds
<1>6. ev \in UnitEvent
  BY <1>3, <1>5 DEF UnitEvent, UnitAccount
<1>7. log' = Append(log, ev) /\ UNCHANGED <<audit, running>>
  BY <1>2 DEF Emit
<1> HIDE DEF ev
<1>8. /\ log' \in Seq(UnitEvent)
      /\ Len(log') = Len(log) + 1 /\ Len(log') <= MaxEvents
      /\ \A i \in Published : log'[i] = log[i]
      /\ log'[Len(log')] = ev
  BY <1>4, <1>6, <1>7 DEF Published
<1>9. ev.type = type /\ ev.account = a /\ ev.transaction = t
  BY DEF ev
<1> QED
  BY <1>7, <1>8, <1>9

\* An event published for an open account keeps the invariant, whatever it is.
LEMMA EmitKeepsIInv ==
  ASSUME IInv, NEW type \in EventTypes, NEW a \in Accounts, NEW t,
         NEW u \in UnitAccount, u.status # "None",
         t \in EventIds \/ t = Len(log) + 1,
         type = "transactionCreated" => t = Len(log) + 1,
         UnitEmits(type, a, t, u),
         UNCHANGED <<tables, workerVars, faults>>,
         opening' \in [Accounts -> {"none", "insert", "done"}]
  PROVE  IInv'
<1> USE LedgerAssumption, DeliveryAssumption DEF IInv
<1>1. /\ log' \in Seq(UnitEvent)
      /\ Len(log') = Len(log) + 1 /\ Len(log') <= MaxEvents
      /\ \A i \in Published : log'[i] = log[i]
      /\ log'[Len(log')].type = type
      /\ log'[Len(log')].account = a
      /\ log'[Len(log')].transaction = t
      /\ UNCHANGED <<audit, running>>
  BY EmitGrowsLog
<1>2. unit' = [unit EXCEPT ![a] = u]
  BY DEF UnitEmits
<1>3. Len(log) \in Nat /\ Published \subseteq Published'
  BY <1>1 DEF TypeOK, Published
<1>4. UNCHANGED <<row, ledger, lock, step, read, outcome, faults>>
  BY DEF tables, workerVars
<1>5. TypeOK'
  BY <1>1, <1>2, <1>4 DEF TypeOK, DeliveryTypeOK
<1>6. OnlyPublished'
  BY <1>1, <1>3 DEF OnlyPublished
<1>7. LogIsSound'
  <2> SUFFICES ASSUME NEW e \in Published'
               PROVE  /\ log'[e].type = "transactionCreated" => log'[e].transaction = e
                      /\ unit'[log'[e].account].status # "None"
    BY DEF LogIsSound
  <2>1. CASE e \in Published
    <3>1. log[e] \in UnitEvent
      BY <2>1 DEF Published, TypeOK
    <3>2. log[e].account \in Accounts
      BY <3>1 DEF UnitEvent
    <3> QED
      BY <1>1, <1>2, <2>1, <3>2 DEF LogIsSound, TypeOK
  <2>2. CASE e = Len(log')
    BY <1>1, <1>2, <2>2 DEF TypeOK
  <2> QED
    BY <1>1, <1>3, <2>1, <2>2 DEF Published
<1>8. \A w \in Workers : running[w] # NoEvent => Event(w)' = Event(w) /\ AccountOf(w)' = AccountOf(w)
  BY <1>1 DEF OnlyPublished, Event, AccountOf
<1>9. HandlerIsSound'
  BY <1>1, <1>4, <1>8 DEF HandlerIsSound, WorkerIsSound
<1>10. CheckStillHolds'
  BY <1>4, <1>8 DEF CheckStillHolds, ReadHolds, HandlerIsSound, WorkerIsSound, IsStale
<1>11. LedgerIsSound'
  BY <1>1, <1>3, <1>4 DEF LedgerIsSound
<1>12. BalanceFollowsNewest'
  <2>1. \A x \in Accounts : Recorded(x)' = Recorded(x)
    BY <1>4 DEF Recorded
  <2>2. \A x \in Accounts : \A e \in Recorded(x) : log'[e] = log[e]
    BY <1>1 DEF Recorded, LedgerIsSound
  <2> QED
    BY <1>4, <2>1, <2>2 DEF BalanceFollowsNewest
<1> QED
  BY <1>5, <1>6, <1>7, <1>9, <1>10, <1>11, <1>12

-----------------------------------------------------------------------------
(* Steps of the workers.                                                   *)

\* A worker that runs a handler runs a published event of some account.
LEMMA RunningEvent ==
  ASSUME IInv, NEW w \in Workers, running[w] # NoEvent
  PROVE  /\ running[w] \in Published /\ running[w] \in EventIds
         /\ Event(w) = log[running[w]]
         /\ Event(w) \in UnitEvent
         /\ AccountOf(w) = Event(w).account
         /\ AccountOf(w) \in Accounts
         /\ Event(w).transaction \in EventIds
         /\ Event(w).at \in Nat /\ Event(w).balance \in Int
<1>1. running[w] \in Published /\ log \in Seq(UnitEvent)
  BY DEF IInv, TypeOK, OnlyPublished
<1>2. running[w] \in EventIds
  BY DEF IInv, TypeOK, DeliveryTypeOK
<1>3. log[running[w]] \in UnitEvent
  BY <1>1 DEF Published
<1> QED
  BY <1>1, <1>2, <1>3 DEF Event, AccountOf, UnitEvent

\* A step of one worker that leaves the log, the lock of another, what that
\* other has read and the row it has locked leaves the other worker sound.
LEMMA OtherWorkers ==
  ASSUME IInv, UNCHANGED log, NEW v \in Workers,
         step'[v] = step[v], read'[v] = read[v], running'[v] = running[v],
         step[v] \in {"decide", "write"} =>
           /\ lock'[AccountOf(v)] = lock[AccountOf(v)]
           /\ row'[AccountOf(v)] = row[AccountOf(v)],
         step[v] = "write" =>
           ledger'[Event(v).transaction] = NoRow
  PROVE  WorkerIsSound(v)' /\ ReadHolds(v)'
<1>1. Event(v)' = Event(v) /\ AccountOf(v)' = AccountOf(v)
  BY DEF Event, AccountOf
<1>2. WorkerIsSound(v) /\ ReadHolds(v)
  BY DEF IInv, HandlerIsSound, CheckStillHolds
<1> QED
  BY <1>1, <1>2 DEF WorkerIsSound, ReadHolds, IsStale

\* Inserting the first row of an account touches no ledger row of its own and
\* nobody's locked row.
LEMMA StoreRow ==
  ASSUME IInv, NEW a \in Accounts, NEW r \in AccountRow,
         row[a] = NoRow, row' = [row EXCEPT ![a] = r],
         r.lastEventAt = Never, r.available = r.balance - r.hold,
         UNCHANGED <<log, ledger>>
  PROVE  /\ row' \in [Accounts -> AccountRow \cup {NoRow}]
         /\ LedgerIsSound' /\ BalanceFollowsNewest'
         /\ \A v \in Workers : step[v] \in {"decide", "write"} =>
              row'[AccountOf(v)] = row[AccountOf(v)]
<1> USE LedgerAssumption DEF IInv
<1>1. row \in [Accounts -> AccountRow \cup {NoRow}]
  BY DEF TypeOK
<1>2. row' \in [Accounts -> AccountRow \cup {NoRow}]
  BY <1>1
<1>3. row'[a] = r /\ r # NoRow /\ \A x \in Accounts \ {a} : row'[x] = row[x]
  BY <1>1
<1>4. LedgerIsSound'
  BY <1>1, <1>3 DEF LedgerIsSound, Published
<1>5. Recorded(a) = {}
  BY DEF Recorded, LedgerIsSound
<1>6. BalanceFollowsNewest'
  <2>1. \A x \in Accounts : Recorded(x)' = Recorded(x)
    BY DEF Recorded
  <2> QED
    BY <1>3, <1>5, <2>1 DEF BalanceFollowsNewest
<1>7. ASSUME NEW v \in Workers, step[v] \in {"decide", "write"}
      PROVE  row'[AccountOf(v)] = row[AccountOf(v)]
  <2>1. row[AccountOf(v)] = read[v] /\ read[v] \in AccountRow /\ AccountOf(v) \in Accounts
    BY <1>7, RunningEvent DEF CheckStillHolds, ReadHolds, HandlerIsSound, WorkerIsSound
  <2> QED
    BY <1>3, <2>1
<1> QED
  BY <1>2, <1>4, <1>6, <1>7

\* The lock table after a release: only the releasing worker's locks go.
LEMMA ReleaseType ==
  ASSUME IInv, NEW w \in Workers, Release(w)
  PROVE  /\ lock' \in [Accounts -> Workers \cup {NoWorker}]
         /\ \A v \in Workers \ {w} : step[v] \in {"decide", "write"} =>
              lock'[AccountOf(v)] = lock[AccountOf(v)]
<1>1. lock' \in [Accounts -> Workers \cup {NoWorker}]
  BY DEF IInv, TypeOK, Release
<1>2. ASSUME NEW v \in Workers \ {w}, step[v] \in {"decide", "write"}
      PROVE  lock'[AccountOf(v)] = lock[AccountOf(v)]
  BY <1>2, RunningEvent
     DEF IInv, CheckStillHolds, ReadHolds, HandlerIsSound, WorkerIsSound, Release
<1> QED
  BY <1>1, <1>2

\* A worker that goes to the idle or the mark step, dropping its locks or not,
\* and leaves both tables alone keeps the invariant.
LEMMA QuietStep ==
  ASSUME IInv, NEW w \in Workers,
         UNCHANGED <<log, unit, tables>>,
         audit' \in [EventIds -> {"Absent"} \cup Retryable \cup Terminal],
         \A e \in EventIds : audit'[e] = "Absent" <=> audit[e] = "Absent",
         lock' = lock \/ Release(w),
         NEW s \in {"idle", "mark"}, step' = [step EXCEPT ![w] = s],
         NEW e \in {running[w], NoEvent}, running' = [running EXCEPT ![w] = e],
         s = "mark" => e # NoEvent,
         read' = [read EXCEPT ![w] = NoRow] \/ read' = read,
         outcome' \in [Workers -> Verdicts],
         opening' \in [Accounts -> {"none", "insert", "done"}],
         faults' \in 0..MaxFaults
  PROVE  IInv'
<1> USE DEF IInv
<1>1. /\ log' = log /\ unit' = unit /\ row' = row /\ ledger' = ledger
  BY DEF tables
<1>2. lock' \in [Accounts -> Workers \cup {NoWorker}]
  BY ReleaseType DEF TypeOK
<1>3. TypeOK'
  BY <1>1, <1>2 DEF TypeOK, DeliveryTypeOK, Steps
<1>4. OnlyPublished'
  <2>1. running \in [Workers -> EventIds \cup {NoEvent}] /\ Published' = Published
    BY <1>1 DEF TypeOK, DeliveryTypeOK, Published
  <2>2. \A v \in Workers : running'[v] # NoEvent => running'[v] = running[v]
    BY <2>1
  <2> QED
    BY <2>1, <2>2 DEF OnlyPublished, TypeOK, DeliveryTypeOK
<1>5. LogIsSound' /\ LedgerIsSound'
  BY <1>1 DEF LogIsSound, LedgerIsSound, Published
<1>6. BalanceFollowsNewest'
  BY <1>1 DEF BalanceFollowsNewest, Recorded
<1>7. WorkerIsSound(w)' /\ ReadHolds(w)'
  BY DEF WorkerIsSound, ReadHolds, TypeOK, DeliveryTypeOK
<1>8. ASSUME NEW v \in Workers \ {w}
      PROVE  WorkerIsSound(v)' /\ ReadHolds(v)'
  <2>1. step'[v] = step[v] /\ read'[v] = read[v] /\ running'[v] = running[v]
    BY DEF TypeOK, DeliveryTypeOK
  <2>2. step[v] \in {"decide", "write"} => lock'[AccountOf(v)] = lock[AccountOf(v)]
    BY ReleaseType
  <2>3. step[v] = "write" => ledger'[Event(v).transaction] = NoRow
    BY <1>1 DEF CheckStillHolds, ReadHolds
  <2> QED
    BY <1>1, <2>1, <2>2, <2>3, OtherWorkers
<1>9. HandlerIsSound' /\ CheckStillHolds'
  BY <1>7, <1>8 DEF HandlerIsSound, CheckStillHolds
<1> QED
  BY <1>3, <1>4, <1>5, <1>6, <1>9

LEMMA MarkEventIInv == ASSUME IInv, NEW w \in Workers, MarkEvent(w) PROVE IInv'
<1> USE DEF IInv
<1>1. /\ running[w] # NoEvent /\ outcome[w] \in Verdicts
      /\ running[w] \in EventIds /\ audit[running[w]] # "Absent"
  BY RunningEvent DEF MarkEvent, At, TypeOK, OnlyPublished
<1>2. /\ audit' = [audit EXCEPT ![running[w]] = outcome[w]]
      /\ running' = [running EXCEPT ![w] = NoEvent]
      /\ step' = [step EXCEPT ![w] = "idle"]
      /\ outcome' = [outcome EXCEPT ![w] = "Processed"]
      /\ UNCHANGED <<log, unit, tables, lock, read, opening, faults>>
  BY DEF MarkEvent, Mark, GoTo
<1>3. /\ audit' \in [EventIds -> {"Absent"} \cup Retryable \cup Terminal]
      /\ \A e \in EventIds : audit'[e] = "Absent" <=> audit[e] = "Absent"
      /\ outcome' \in [Workers -> Verdicts]
  BY <1>1, <1>2 DEF TypeOK, DeliveryTypeOK, Verdicts, Terminal, Retryable
<1> QED
  BY <1>2, <1>3, QuietStep DEF TypeOK

LEMMA CrashIInv == ASSUME IInv, NEW w \in Workers, Crash(w) PROVE IInv'
<1> USE LedgerAssumption DEF IInv
<1>1. /\ running' = [running EXCEPT ![w] = NoEvent]
      /\ step' = [step EXCEPT ![w] = "idle"]
      /\ outcome' = [outcome EXCEPT ![w] = "Processed"]
      /\ read' = [read EXCEPT ![w] = NoRow]
      /\ Release(w)
      /\ UNCHANGED <<log, audit, unit, tables, opening>>
  BY DEF Crash, Abandon, GoTo
<1>2. faults' \in 0..MaxFaults
  BY DEF Crash, TypeOK
<1>3. outcome' \in [Workers -> Verdicts]
  BY <1>1 DEF TypeOK, Verdicts, Terminal
<1> QED
  BY <1>1, <1>2, <1>3, QuietStep DEF TypeOK, DeliveryTypeOK

\* What the rest of a handler's step must do when the handler returns.
LEMMA FinishIInv ==
  ASSUME IInv, NEW w \in Workers, running[w] # NoEvent,
         NEW verdict \in Verdicts, Finish(w, verdict),
         lock' = lock \/ Release(w), faults' \in 0..MaxFaults,
         UNCHANGED <<deliveryVars, unit, tables, opening>>
  PROVE  IInv'
<1> USE DEF IInv
<1>1. /\ step' = [step EXCEPT ![w] = "mark"]
      /\ outcome' = [outcome EXCEPT ![w] = verdict]
      /\ read' = [read EXCEPT ![w] = NoRow]
      /\ UNCHANGED <<log, audit, running, unit, tables, opening>>
  BY DEF Finish, GoTo, deliveryVars
<1>2. running' = [running EXCEPT ![w] = running[w]]
  BY <1>1 DEF TypeOK, DeliveryTypeOK
<1>3. outcome' \in [Workers -> Verdicts]
  BY <1>1 DEF TypeOK
<1> QED
  BY <1>1, <1>2, <1>3, QuietStep DEF TypeOK, DeliveryTypeOK

LEMMA FailHandlerIInv == ASSUME IInv, NEW w \in Workers, FailHandler(w) PROVE IInv'
<1>1. faults' \in 0..MaxFaults /\ "Failed" \in Verdicts
  BY LedgerAssumption DEF FailHandler, IInv, TypeOK, Verdicts
<1> QED
  BY <1>1, FinishIInv DEF FailHandler

\* A step of one worker that publishes nothing: what has to be shown of the
\* worker itself and of the tables, once the others are left in peace.
LEMMA WorkerStep ==
  ASSUME IInv, TypeOK', NEW w \in Workers, UNCHANGED <<log, unit, audit>>,
         NEW e \in EventIds \cup {NoEvent}, running' = [running EXCEPT ![w] = e],
         e # NoEvent => e \in Published /\ audit[e] # "Absent",
         \A v \in Workers \ {w} : step'[v] = step[v] /\ read'[v] = read[v],
         \A v \in Workers \ {w} : step[v] \in {"decide", "write"} =>
           /\ lock'[AccountOf(v)] = lock[AccountOf(v)]
           /\ row'[AccountOf(v)] = row[AccountOf(v)],
         \A v \in Workers \ {w} : step[v] = "write" =>
           ledger'[Event(v).transaction] = NoRow,
         WorkerIsSound(w)', ReadHolds(w)', LedgerIsSound', BalanceFollowsNewest'
  PROVE  IInv'
<1> USE DEF IInv
<1>1. OnlyPublished'
  <2>1. Published' = Published /\ \A v \in Workers : running'[v] = IF v = w THEN e ELSE running[v]
    BY DEF Published, TypeOK, DeliveryTypeOK
  <2> QED
    BY <2>1 DEF OnlyPublished
<1>2. LogIsSound'
  BY DEF LogIsSound, Published
<1>3. ASSUME NEW v \in Workers \ {w}
      PROVE  WorkerIsSound(v)' /\ ReadHolds(v)'
  <2>1. running'[v] = running[v]
    BY DEF TypeOK, DeliveryTypeOK
  <2> QED
    BY <2>1, OtherWorkers
<1>4. HandlerIsSound' /\ CheckStillHolds'
  BY <1>3 DEF HandlerIsSound, CheckStillHolds
<1> QED
  BY <1>1, <1>2, <1>4

\* The same for a step that leaves both tables alone.
LEMMA WorkerStepNoTables ==
  ASSUME IInv, TypeOK', NEW w \in Workers, UNCHANGED <<log, unit, audit, tables>>,
         NEW e \in EventIds \cup {NoEvent}, running' = [running EXCEPT ![w] = e],
         e # NoEvent => e \in Published /\ audit[e] # "Absent",
         \A v \in Workers \ {w} : step'[v] = step[v] /\ read'[v] = read[v],
         \A v \in Workers \ {w} : step[v] \in {"decide", "write"} =>
           lock'[AccountOf(v)] = lock[AccountOf(v)],
         WorkerIsSound(w)', ReadHolds(w)'
  PROVE  IInv'
<1> USE DEF IInv
<1>1. row' = row /\ ledger' = ledger
  BY DEF tables
<1>2. LedgerIsSound' /\ BalanceFollowsNewest'
  BY <1>1 DEF LedgerIsSound, BalanceFollowsNewest, Recorded, Published
<1>3. \A v \in Workers \ {w} : step[v] = "write" => ledger'[Event(v).transaction] = NoRow
  BY <1>1 DEF CheckStillHolds, ReadHolds
<1> QED
  BY <1>1, <1>2, <1>3, WorkerStep

LEMMA StartHandlerIInv ==
  ASSUME IInv, NEW w \in Workers, NEW e \in EventIds, StartHandler(w, e) PROVE IInv'
<1> USE DEF IInv
<1> DEFINE s == FirstStep(log[e].type)
<1>1. /\ audit[e] # "Absent" /\ e \in Published
  BY DEF StartHandler, Begin, Retryable, OnlyPublished
<1>2. /\ running' = [running EXCEPT ![w] = e]
      /\ step' = [step EXCEPT ![w] = s]
      /\ outcome' = [outcome EXCEPT ![w] = "Processed"]
      /\ UNCHANGED <<log, audit, unit, tables, lock, read, opening, faults>>
  BY DEF StartHandler, Begin, GoTo
<1>3. log[e] \in UnitEvent /\ log[e].type \in EventTypes
  <2>1. log[e] \in UnitEvent
    BY <1>1 DEF TypeOK, Published
  <2> QED
    BY <2>1 DEF UnitEvent
<1>4. /\ s \in {"backfill", "status", "lock", "touch", "mark"}
      /\ s = "lock" => log[e].type = "transactionCreated"
      /\ s = "status" => log[e].type \in DOMAIN ACCOUNT_STATUS_EVENTS
      /\ s = "touch" => log[e].type = "transactionUpdated"
  BY <1>3, StatusEvents DEF FirstStep, EventTypes
<1> HIDE DEF s
<1>5. TypeOK'
  BY <1>1, <1>2, <1>4 DEF TypeOK, DeliveryTypeOK, tables, Steps, Verdicts, Terminal
<1>6. step'[w] = s /\ running'[w] = e /\ Event(w)' = log[e] /\ e # NoEvent
  BY <1>2 DEF TypeOK, DeliveryTypeOK, Event, EventIds, NoEvent
<1>7. WorkerIsSound(w)' /\ ReadHolds(w)'
  BY <1>4, <1>6 DEF WorkerIsSound, ReadHolds
<1>8. \A v \in Workers \ {w} : step'[v] = step[v] /\ read'[v] = read[v]
  BY <1>2 DEF TypeOK
<1> QED
  BY <1>1, <1>2, <1>5, <1>7, <1>8, WorkerStepNoTables

LEMMA FindAccountIInv == ASSUME IInv, NEW w \in Workers, FindAccount(w) PROVE IInv'
<1> USE LedgerAssumption DEF IInv
<1> DEFINE a == AccountOf(w)
<1>1. /\ running[w] # NoEvent /\ step[w] = "backfill"
      /\ UNCHANGED <<log, audit, running, unit, row, ledger, lock, opening, faults>>
  BY DEF FindAccount, At, HandlerOnly, deliveryVars, tables
<1>2. a \in Accounts /\ running[w] \in Published /\ unit[a].status # "None" /\ unit[a] \in UnitAccount
  BY <1>1, RunningEvent DEF LogIsSound, TypeOK
<1>3. CASE Finish(w, "Processed")
  BY <1>1, <1>3, FinishIInv DEF deliveryVars, tables, Verdicts, Terminal, TypeOK
<1>4. CASE /\ step' = [step EXCEPT ![w] = "insert"]
           /\ read' = [read EXCEPT ![w] = CreatedRow(unit[a])]
           /\ UNCHANGED outcome
  <2>1. /\ CreatedRow(unit[a]) \in AccountRow
        /\ CreatedRow(unit[a]).lastEventAt = Never
        /\ CreatedRow(unit[a]).available = CreatedRow(unit[a]).balance - CreatedRow(unit[a]).hold
    BY <1>2, CreatedRowType
  <2>2. TypeOK'
    BY <1>1, <1>4, <2>1 DEF TypeOK, DeliveryTypeOK, Steps
  <2>3. step'[w] = "insert" /\ read'[w] = CreatedRow(unit[a]) /\ running'[w] # NoEvent
    BY <1>1, <1>4 DEF TypeOK
  <2>4. WorkerIsSound(w)' /\ ReadHolds(w)'
    BY <2>1, <2>3 DEF WorkerIsSound, ReadHolds
  <2>5. \A v \in Workers \ {w} : step'[v] = step[v] /\ read'[v] = read[v]
    BY <1>4 DEF TypeOK
  <2>6. /\ running' = [running EXCEPT ![w] = running[w]]
        /\ running[w] \in EventIds \cup {NoEvent} /\ audit[running[w]] # "Absent"
    BY <1>1 DEF TypeOK, DeliveryTypeOK, OnlyPublished
  <2> QED
    BY <1>1, <1>2, <2>2, <2>4, <2>5, <2>6, WorkerStepNoTables DEF tables
<1> QED
  BY <1>3, <1>4 DEF FindAccount, GoTo

LEMMA LockRowIInv == ASSUME IInv, NEW w \in Workers, LockRow(w) PROVE IInv'
<1> USE LedgerAssumption DEF IInv
<1> DEFINE a == AccountOf(w)
<1>1. /\ running[w] # NoEvent /\ step[w] = "lock" /\ lock[a] = NoWorker
      /\ UNCHANGED <<log, audit, running, unit, row, ledger, opening, faults>>
  BY DEF LockRow, At, RowFree, HandlerOnly, deliveryVars, tables
<1>2. a \in Accounts /\ running[w] \in Published /\ Event(w).type = "transactionCreated"
  BY <1>1, RunningEvent DEF HandlerIsSound, WorkerIsSound
<1>3. CASE row[a] = NoRow
  <2>1. Finish(w, "Skipped") /\ lock' = lock
    BY <1>3 DEF LockRow
  <2> QED
    BY <1>1, <2>1, FinishIInv DEF deliveryVars, tables, Verdicts, Terminal, TypeOK
<1>4. CASE row[a] # NoRow
  <2>1. /\ lock' = [lock EXCEPT ![a] = w]
        /\ read' = [read EXCEPT ![w] = row[a]]
        /\ step' = [step EXCEPT ![w] = "decide"]
        /\ UNCHANGED outcome
    BY <1>4 DEF LockRow, GoTo
  <2>2. row[a] \in AccountRow
    BY <1>2, <1>4 DEF TypeOK
  <2>3. TypeOK'
    BY <1>1, <1>2, <2>1, <2>2 DEF TypeOK, DeliveryTypeOK, Steps
  <2>4. /\ step'[w] = "decide" /\ read'[w] = row[a] /\ lock'[a] = w
        /\ Event(w)' = Event(w) /\ AccountOf(w)' = a
    BY <1>1, <1>2, <2>1 DEF TypeOK, Event, AccountOf
  <2>5. WorkerIsSound(w)' /\ ReadHolds(w)'
    BY <1>1, <1>2, <2>2, <2>4 DEF WorkerIsSound, ReadHolds
  <2>6. \A v \in Workers \ {w} : step'[v] = step[v] /\ read'[v] = read[v]
    BY <2>1 DEF TypeOK
  <2>7. ASSUME NEW v \in Workers \ {w}, step[v] \in {"decide", "write"}
        PROVE  lock'[AccountOf(v)] = lock[AccountOf(v)]
    <3>1. lock[AccountOf(v)] = v
      BY <2>7 DEF CheckStillHolds, ReadHolds
    <3> QED
      BY <1>1, <2>1, <3>1
  <2>8. /\ running' = [running EXCEPT ![w] = running[w]]
        /\ running[w] \in EventIds \cup {NoEvent} /\ audit[running[w]] # "Absent"
    BY <1>1 DEF TypeOK, DeliveryTypeOK, OnlyPublished
  <2> QED
    BY <1>1, <1>2, <2>3, <2>5, <2>6, <2>7, <2>8, WorkerStepNoTables DEF tables
<1> QED
  BY <1>3, <1>4

LEMMA DecideIInv == ASSUME IInv, NEW w \in Workers, Decide(w) PROVE IInv'
<1> USE LedgerAssumption DEF IInv
<1>1. /\ running[w] # NoEvent /\ step[w] = "decide"
      /\ UNCHANGED <<log, audit, running, unit, row, ledger, opening, faults>>
  BY DEF Decide, At, HandlerOnly, deliveryVars, tables
<1>2. CASE Finish(w, "Skipped") /\ Release(w)
  BY <1>1, <1>2, FinishIInv DEF deliveryVars, tables, Verdicts, Terminal, TypeOK
<1>3. CASE /\ ~(IsStale(read[w], Event(w)) \/ ledger[Event(w).transaction] # NoRow)
           /\ step' = [step EXCEPT ![w] = "write"]
           /\ UNCHANGED <<lock, read, outcome>>
  <2>1. TypeOK'
    BY <1>1, <1>3 DEF TypeOK, DeliveryTypeOK, Steps
  <2>2. WorkerIsSound(w) /\ ReadHolds(w)
    BY DEF HandlerIsSound, CheckStillHolds
  <2>3. step'[w] = "write" /\ Event(w)' = Event(w) /\ AccountOf(w)' = AccountOf(w)
    BY <1>1, <1>3 DEF TypeOK, Event, AccountOf
  <2>4. WorkerIsSound(w)' /\ ReadHolds(w)'
    BY <1>1, <1>3, <2>2, <2>3 DEF WorkerIsSound, ReadHolds, IsStale
  <2>5. \A v \in Workers \ {w} : step'[v] = step[v] /\ read'[v] = read[v]
    BY <1>3 DEF TypeOK
  <2>6. /\ running' = [running EXCEPT ![w] = running[w]]
        /\ running[w] \in EventIds \cup {NoEvent}
        /\ running[w] \in Published /\ audit[running[w]] # "Absent"
    BY <1>1 DEF TypeOK, DeliveryTypeOK, OnlyPublished
  <2> QED
    BY <1>1, <1>3, <2>1, <2>4, <2>5, <2>6, WorkerStepNoTables DEF tables
<1> QED
  BY <1>2, <1>3 DEF Decide, GoTo

LEMMA BackfillAccountIInv == ASSUME IInv, NEW w \in Workers, BackfillAccount(w) PROVE IInv'
<1> USE LedgerAssumption DEF IInv
<1> DEFINE a == AccountOf(w)
<1>1. /\ running[w] # NoEvent /\ step[w] = "insert"
      /\ UNCHANGED <<log, audit, running, unit, ledger, lock, opening, faults>>
  BY DEF BackfillAccount, At, HandlerOnly, deliveryVars
<1>2. a \in Accounts
  BY <1>1, RunningEvent
<1>3. CASE row[a] # NoRow
  BY <1>1, <1>3, FinishIInv
     DEF BackfillAccount, deliveryVars, tables, Verdicts, Terminal, TypeOK
<1>4. CASE row[a] = NoRow
  <2>1. /\ row' = [row EXCEPT ![a] = read[w]]
        /\ step' = [step EXCEPT ![w] = "mark"]
        /\ outcome' = [outcome EXCEPT ![w] = "Processed"]
        /\ read' = [read EXCEPT ![w] = NoRow]
    BY <1>4 DEF BackfillAccount, Finish, GoTo
  <2>2. /\ read[w] \in AccountRow /\ read[w].lastEventAt = Never
        /\ read[w].available = read[w].balance - read[w].hold
    BY <1>1 DEF HandlerIsSound, WorkerIsSound
  <2>3. /\ row' \in [Accounts -> AccountRow \cup {NoRow}]
        /\ LedgerIsSound' /\ BalanceFollowsNewest'
        /\ \A v \in Workers : step[v] \in {"decide", "write"} =>
             row'[AccountOf(v)] = row[AccountOf(v)]
    BY <1>1, <1>2, <1>4, <2>1, <2>2, StoreRow
  <2>4. TypeOK'
    BY <1>1, <2>1, <2>3 DEF TypeOK, DeliveryTypeOK, Steps, Verdicts, Terminal
  <2>5. WorkerIsSound(w)' /\ ReadHolds(w)'
    BY <1>1, <2>1 DEF WorkerIsSound, ReadHolds, TypeOK
  <2>6. \A v \in Workers \ {w} : step'[v] = step[v] /\ read'[v] = read[v]
    BY <2>1 DEF TypeOK
  <2>7. /\ running' = [running EXCEPT ![w] = running[w]]
        /\ running[w] \in EventIds \cup {NoEvent}
        /\ running[w] \in Published /\ audit[running[w]] # "Absent"
    BY <1>1 DEF TypeOK, DeliveryTypeOK, OnlyPublished
  <2>8. \A v \in Workers \ {w} : step[v] = "write" => ledger'[Event(v).transaction] = NoRow
    BY <1>1 DEF CheckStillHolds, ReadHolds
  <2> QED
    BY <1>1, <2>3, <2>4, <2>5, <2>6, <2>7, <2>8, WorkerStep
<1> QED
  BY <1>3, <1>4

LEMMA UpdateStatusIInv == ASSUME IInv, NEW w \in Workers, UpdateStatus(w) PROVE IInv'
<1> USE LedgerAssumption DEF IInv
<1> DEFINE a == AccountOf(w)
           ev == Event(w)
<1>1. /\ running[w] # NoEvent /\ step[w] = "status" /\ lock[a] = NoWorker
      /\ UNCHANGED <<log, audit, running, unit, ledger, lock, opening, faults>>
  BY DEF UpdateStatus, At, RowFree, HandlerOnly, deliveryVars
<1>2. a \in Accounts /\ ev.at \in Nat /\ ACCOUNT_STATUS_EVENTS[ev.type] \in AccountStatus
  BY <1>1, RunningEvent, StatusEvents DEF HandlerIsSound, WorkerIsSound
<1>3. CASE row' = row /\ Finish(w, "Skipped")
  BY <1>1, <1>3, FinishIInv DEF deliveryVars, tables, Verdicts, Terminal, TypeOK
<1>4. CASE /\ row[a] # NoRow /\ IsNewer(row[a], ev)
           /\ row' = [row EXCEPT ![a] =
                [@ EXCEPT !.status = ACCOUNT_STATUS_EVENTS[ev.type], !.lastEventAt = ev.at]]
           /\ Finish(w, "Processed")
  <2> DEFINE r == [row[a] EXCEPT !.status = ACCOUNT_STATUS_EVENTS[ev.type],
                                 !.lastEventAt = ev.at]
  <2>1. /\ row' = [row EXCEPT ![a] = r]
        /\ step' = [step EXCEPT ![w] = "mark"]
        /\ outcome' = [outcome EXCEPT ![w] = "Processed"]
        /\ read' = [read EXCEPT ![w] = NoRow]
    BY <1>4 DEF Finish, GoTo
  <2>2. row[a] \in AccountRow
    BY <1>2, <1>4 DEF TypeOK
  <2>3. /\ r \in AccountRow /\ r # NoRow
        /\ r.balance = row[a].balance /\ r.available = row[a].available
        /\ r.hold = row[a].hold /\ r.lastEventAt = ev.at
        /\ row[a].lastEventAt <= r.lastEventAt
    <3> DEFINE st == ACCOUNT_STATUS_EVENTS[ev.type]
               at == ev.at
    <3>1. st \in AccountStatus /\ at \in Nat
      BY <1>2
    <3>2. row[a].lastEventAt = Never \/ row[a].lastEventAt < at
      BY <1>4 DEF IsNewer
    <3>3. r = [row[a] EXCEPT !.status = st, !.lastEventAt = at]
      OBVIOUS
    <3> HIDE DEF st, at, r
    <3>4. /\ r \in AccountRow
          /\ r.balance = row[a].balance /\ r.available = row[a].available
          /\ r.hold = row[a].hold /\ r.lastEventAt = at
      BY <2>2, <3>1, <3>3 DEF AccountRow
    <3>5. row[a].lastEventAt <= at
      BY <2>2, <3>1, <3>2 DEF AccountRow, Never
    <3> QED
      BY <3>4, <3>5 DEF at
  <2> HIDE DEF r
  <2>4. TypeOK'
    BY <1>1, <2>1, <2>3 DEF TypeOK, DeliveryTypeOK, Steps, Verdicts, Terminal
  <2>5. row'[a] = r /\ \A x \in Accounts \ {a} : row'[x] = row[x]
    BY <1>2, <2>1 DEF TypeOK
  <2>6. LedgerIsSound'
    <3>1. \A x \in Accounts : row[x] # NoRow => row'[x] # NoRow
      BY <2>3, <2>5
    <3>2. \A e \in Published : log[e].account \in Accounts
      BY LoggedEvents
    <3> QED
      BY <1>1, <3>1, <3>2 DEF LedgerIsSound, Published
  <2>7. BalanceFollowsNewest'
    <3>1. \A x \in Accounts : Recorded(x)' = Recorded(x)
      BY <1>1 DEF Recorded
    <3>2. \A x \in Accounts : \A e \in Recorded(x) : log[e].at \in Nat
      BY LoggedEvents DEF Recorded, LedgerIsSound
    <3>3. ASSUME NEW x \in Accounts, row'[x] # NoRow
          PROVE  /\ row'[x].available = row'[x].balance - row'[x].hold
                 /\ \A e \in Recorded(x) :
                      /\ log[e].at <= row'[x].lastEventAt
                      /\ (\A f \in Recorded(x) : log[f].at <= log[e].at) =>
                           row'[x].balance = log[e].balance
      <4>1. CASE x # a
        BY <2>5, <3>3, <4>1 DEF BalanceFollowsNewest
      <4>2. CASE x = a
        BY <1>2, <1>4, <2>2, <2>3, <2>5, <3>2, <4>2 DEF BalanceFollowsNewest, AccountRow
      <4> QED
        BY <4>1, <4>2
    <3> QED
      BY <1>1, <3>1, <3>3 DEF BalanceFollowsNewest
  <2>8. WorkerIsSound(w)' /\ ReadHolds(w)'
    BY <1>1, <2>1 DEF WorkerIsSound, ReadHolds, TypeOK
  <2>9. \A v \in Workers \ {w} : step'[v] = step[v] /\ read'[v] = read[v]
    BY <2>1 DEF TypeOK
  <2>10. ASSUME NEW v \in Workers \ {w}, step[v] \in {"decide", "write"}
         PROVE  row'[AccountOf(v)] = row[AccountOf(v)]
    <3>1. lock[AccountOf(v)] = v /\ AccountOf(v) \in Accounts
      BY <2>10, RunningEvent DEF CheckStillHolds, ReadHolds, HandlerIsSound, WorkerIsSound
    <3> QED
      BY <1>1, <2>5, <3>1
  <2>11. /\ running' = [running EXCEPT ![w] = running[w]]
         /\ running[w] \in EventIds \cup {NoEvent}
         /\ running[w] \in Published /\ audit[running[w]] # "Absent"
    BY <1>1 DEF TypeOK, DeliveryTypeOK, OnlyPublished
  <2>12. \A v \in Workers \ {w} : step[v] = "write" => ledger'[Event(v).transaction] = NoRow
    BY <1>1 DEF CheckStillHolds, ReadHolds
  <2> QED
    BY <1>1, <2>4, <2>6, <2>7, <2>8, <2>9, <2>10, <2>11, <2>12, WorkerStep
<1> QED
  BY <1>3, <1>4 DEF UpdateStatus

\* The heart of the ledger: the lock makes what was read still true, so the
\* event is newer than everything recorded and its balance is the newest.
LEMMA CommitIInv == ASSUME IInv, NEW w \in Workers, Commit(w) PROVE IInv'
<1> USE LedgerAssumption DEF IInv
<1>0. PICK a \in Accounts : a = AccountOf(w)
  BY RunningEvent DEF Commit, At
<1> DEFINE ev == Event(w)
           t == running[w]
           at == ev.at
           b == ev.balance
           tr == [account |-> a, balance |-> b, lastEventAt |-> at]
           r == [row[a] EXCEPT !.balance = b, !.available = b - read[w].hold,
                               !.lastEventAt = at]
<1>1. /\ t # NoEvent /\ step[w] = "write"
      /\ UNCHANGED <<log, audit, running, unit, opening, faults>>
  BY DEF Commit, At, HandlerOnly, deliveryVars
<1>2. /\ t \in Published /\ t \in EventIds /\ ev = log[t] /\ a = log[t].account
      /\ at \in Nat /\ b \in Int
  BY <1>0, <1>1, RunningEvent
<1>3. ev.transaction = t
  BY <1>1, <1>2 DEF HandlerIsSound, WorkerIsSound, LogIsSound
<1>4. /\ lock[a] = w /\ row[a] = read[w] /\ read[w] \in AccountRow
      /\ ~IsStale(row[a], ev) /\ ledger[t] = NoRow
  BY <1>0, <1>1, <1>3 DEF CheckStillHolds, ReadHolds, HandlerIsSound, WorkerIsSound
<1>5. /\ ledger' = [ledger EXCEPT ![t] = tr]
      /\ row' = [row EXCEPT ![a] = r]
      /\ Release(w)
      /\ step' = [step EXCEPT ![w] = "mark"]
      /\ outcome' = [outcome EXCEPT ![w] = "Processed"]
      /\ read' = [read EXCEPT ![w] = NoRow]
  BY <1>0, <1>3 DEF Commit, Finish, GoTo
<1>6. tr \in TransactionRow /\ tr # NoRow
  BY <1>2 DEF TransactionRow
<1>7. /\ r \in AccountRow /\ r # NoRow /\ r.balance = b /\ r.lastEventAt = at
      /\ r.available = r.balance - r.hold
  <2>1. r \in AccountRow /\ r.balance = b /\ r.lastEventAt = at
        /\ r.available = b - row[a].hold /\ r.hold = row[a].hold
    <3>1. row[a] \in AccountRow /\ read[w].hold = row[a].hold /\ row[a].hold \in Int
      BY <1>4 DEF AccountRow
    <3> DEFINE av == b - row[a].hold
    <3>2. av \in Int
      BY <1>2, <3>1
    <3>3. r = [row[a] EXCEPT !.balance = b, !.available = av, !.lastEventAt = at]
      BY <3>1
    <3> HIDE DEF at, b, r, av
    <3>4. /\ r \in AccountRow /\ r.balance = b /\ r.lastEventAt = at
          /\ r.available = av /\ r.hold = row[a].hold
      BY <1>2, <3>1, <3>2, <3>3 DEF AccountRow
    <3> QED
      BY <3>4 DEF av
  <2> QED
    BY <2>1
<1>8. \A e \in Recorded(a) : log[e].at \in Nat /\ log[e].at <= row[a].lastEventAt
  BY <1>4, LoggedEvents DEF BalanceFollowsNewest, Recorded, LedgerIsSound
<1>9. row[a].lastEventAt = Never \/ row[a].lastEventAt < at
  BY <1>2, <1>4 DEF IsStale, AccountRow
<1>10. at > 0
  BY <1>2, LoggedEvents DEF UnitEvent, Never
<1> HIDE DEF tr, r
<1>11. TypeOK'
  <2>1. lock' \in [Accounts -> Workers \cup {NoWorker}]
    BY <1>5, ReleaseType
  <2> QED
    BY <1>1, <1>2, <1>5, <1>6, <1>7, <2>1 DEF TypeOK, DeliveryTypeOK, Steps, Verdicts, Terminal
<1>12. /\ row'[a] = r /\ \A x \in Accounts \ {a} : row'[x] = row[x]
       /\ ledger'[t] = tr /\ \A e \in EventIds \ {t} : ledger'[e] = ledger[e]
  BY <1>2, <1>5 DEF TypeOK
<1>13. tr.account = a /\ tr.balance = b
  BY DEF tr
<1>14. LedgerIsSound'
  <2>1. \A x \in Accounts : row[x] # NoRow => row'[x] # NoRow
    BY <1>7, <1>12
  <2>2. \A e \in Published : log[e].account \in Accounts
    BY LoggedEvents
  <2> QED
    BY <1>1, <1>2, <1>7, <1>12, <1>13, <2>1, <2>2 DEF LedgerIsSound, Published
<1>15. BalanceFollowsNewest'
  <2>1. \A x \in Accounts \ {a} : Recorded(x)' = Recorded(x)
    BY <1>4, <1>12, <1>13 DEF Recorded
  <2>2. \A e \in Recorded(a)' : e = t \/ e \in Recorded(a)
    BY <1>12 DEF Recorded
  <2>3. t \in Recorded(a)'
    BY <1>2, <1>6, <1>12, <1>13 DEF Recorded
  <2>4. \A e \in Recorded(a)' : log[e].at \in Nat /\ log[e].at <= at /\ (e # t => log[e].at < at)
    BY <1>2, <1>4, <1>8, <1>9, <1>10, <2>2 DEF Never, AccountRow
  <2>5. ASSUME NEW x \in Accounts, row'[x] # NoRow
        PROVE  /\ row'[x].available = row'[x].balance - row'[x].hold
               /\ \A e \in Recorded(x)' :
                    /\ log[e].at <= row'[x].lastEventAt
                    /\ (\A f \in Recorded(x)' : log[f].at <= log[e].at) =>
                         row'[x].balance = log[e].balance
    <3>1. CASE x # a
      BY <1>12, <2>1, <2>5, <3>1 DEF BalanceFollowsNewest
    <3>2. CASE x = a
      <4>1. ASSUME NEW e \in Recorded(a)', \A f \in Recorded(a)' : log[f].at <= log[e].at
            PROVE  e = t
        BY <1>2, <2>3, <2>4, <4>1
      <4> QED
        BY <1>2, <1>7, <1>12, <2>4, <3>2, <4>1
    <3> QED
      BY <3>1, <3>2
  <2> QED
    BY <1>1, <2>5 DEF BalanceFollowsNewest
<1>16. WorkerIsSound(w)' /\ ReadHolds(w)'
  BY <1>1, <1>5 DEF WorkerIsSound, ReadHolds, TypeOK
<1>17. \A v \in Workers \ {w} : step'[v] = step[v] /\ read'[v] = read[v]
  BY <1>5 DEF TypeOK
<1>18. ASSUME NEW v \in Workers \ {w}, step[v] \in {"decide", "write"}
       PROVE  /\ lock'[AccountOf(v)] = lock[AccountOf(v)]
              /\ row'[AccountOf(v)] = row[AccountOf(v)]
              /\ step[v] = "write" => ledger'[Event(v).transaction] = NoRow
  <2>1. /\ running[v] # NoEvent /\ lock[AccountOf(v)] = v
        /\ Event(v).type = "transactionCreated"
        /\ step[v] = "write" => ledger[Event(v).transaction] = NoRow
    BY <1>18 DEF CheckStillHolds, ReadHolds, HandlerIsSound, WorkerIsSound
  <2>2. /\ AccountOf(v) \in Accounts /\ AccountOf(v) # a
        /\ running[v] \in Published /\ running[v] \in EventIds
        /\ Event(v) = log[running[v]] /\ AccountOf(v) = log[running[v]].account
    BY <1>0, <1>4, <2>1, RunningEvent
  <2>3. Event(v).transaction = running[v] /\ running[v] # t
    BY <1>2, <2>1, <2>2 DEF LogIsSound
  <2>4. lock'[AccountOf(v)] = lock[AccountOf(v)]
    BY <1>5, <1>18, ReleaseType
  <2> QED
    BY <1>12, <2>1, <2>2, <2>3, <2>4
<1>19. /\ running' = [running EXCEPT ![w] = t]
       /\ t \in EventIds \cup {NoEvent} /\ audit[t] # "Absent"
  BY <1>1, <1>2 DEF TypeOK, DeliveryTypeOK, OnlyPublished
<1> HIDE DEF t
<1> QED
  BY <1>1, <1>2, <1>11, <1>14, <1>15, <1>16, <1>17, <1>18, <1>19, WorkerStep

LEMMA TouchTransactionIInv ==
  ASSUME IInv, NEW w \in Workers, TouchTransaction(w) PROVE IInv'
<1> USE LedgerAssumption DEF IInv
<1> DEFINE t == Event(w).transaction
           at == Event(w).at
<1>1. /\ running[w] # NoEvent /\ Finish(w, "Processed")
      /\ UNCHANGED <<log, audit, running, unit, row, lock, opening, faults>>
  BY DEF TouchTransaction, At, HandlerOnly, deliveryVars
<1>2. t \in EventIds /\ at \in Nat
  BY <1>1, RunningEvent
<1>3. CASE ledger' = ledger
  BY <1>1, <1>3, FinishIInv DEF deliveryVars, tables, Verdicts, Terminal, TypeOK
<1>4. CASE ledger[t] # NoRow /\ ledger' = [ledger EXCEPT ![t].lastEventAt = at]
  <2>1. ledger[t] \in TransactionRow
    BY <1>2, <1>4 DEF TypeOK
  <2>2. /\ ledger'[t] \in TransactionRow /\ ledger'[t] # NoRow
        /\ ledger'[t].account = ledger[t].account /\ ledger'[t].balance = ledger[t].balance
        /\ \A e \in EventIds \ {t} : ledger'[e] = ledger[e]
        /\ ledger' \in [EventIds -> TransactionRow \cup {NoRow}]
    <3> HIDE DEF t, at
    <3> QED
      BY <1>2, <1>4, <2>1 DEF TypeOK, TransactionRow
  <2>3. /\ step' = [step EXCEPT ![w] = "mark"]
        /\ outcome' = [outcome EXCEPT ![w] = "Processed"]
        /\ read' = [read EXCEPT ![w] = NoRow]
    BY <1>1 DEF Finish, GoTo
  <2>4. TypeOK'
    BY <1>1, <2>2, <2>3 DEF TypeOK, DeliveryTypeOK, Steps, Verdicts, Terminal
  <2>5. \A x \in Accounts : Recorded(x)' = Recorded(x)
    BY <1>2, <1>4, <2>2 DEF Recorded
  <2>6. LedgerIsSound' /\ BalanceFollowsNewest'
    BY <1>1, <1>2, <1>4, <2>2, <2>5 DEF LedgerIsSound, BalanceFollowsNewest, Published
  <2>7. WorkerIsSound(w)' /\ ReadHolds(w)'
    BY <1>1, <2>3 DEF WorkerIsSound, ReadHolds, TypeOK
  <2>8. \A v \in Workers \ {w} : step'[v] = step[v] /\ read'[v] = read[v]
    BY <2>3 DEF TypeOK
  <2>9. ASSUME NEW v \in Workers \ {w}, step[v] = "write"
        PROVE  ledger'[Event(v).transaction] = NoRow
    <3>1. ledger[Event(v).transaction] = NoRow /\ Event(v).transaction \in EventIds
      BY <2>9, RunningEvent DEF CheckStillHolds, ReadHolds, HandlerIsSound, WorkerIsSound
    <3> QED
      BY <1>4, <2>2, <3>1
  <2>10. /\ running' = [running EXCEPT ![w] = running[w]]
         /\ running[w] \in EventIds \cup {NoEvent}
         /\ running[w] \in Published /\ audit[running[w]] # "Absent"
    BY <1>1 DEF TypeOK, DeliveryTypeOK, OnlyPublished
  <2> QED
    BY <1>1, <2>4, <2>6, <2>7, <2>8, <2>9, <2>10, WorkerStep
<1> QED
  BY <1>3, <1>4 DEF TouchTransaction

-----------------------------------------------------------------------------
(* The remaining steps, and the theorems.                                  *)

LEMMA InsertAccountIInv == ASSUME IInv, NEW a \in Accounts, InsertAccount(a) PROVE IInv'
<1> USE LedgerAssumption DEF IInv
<1>1. /\ UNCHANGED <<log, audit, running, unit, ledger, lock, step, read, outcome, faults>>
      /\ opening' = [opening EXCEPT ![a] = "done"]
  BY DEF InsertAccount, deliveryVars, workerVars
<1>2. /\ row' \in [Accounts -> AccountRow \cup {NoRow}]
      /\ LedgerIsSound' /\ BalanceFollowsNewest'
      /\ \A v \in Workers : step[v] \in {"decide", "write"} =>
           row'[AccountOf(v)] = row[AccountOf(v)]
  <2>1. CASE row[a] = NoRow
    <3>1. row' = [row EXCEPT ![a] = CreatedRow(JustOpened)]
      BY <2>1 DEF InsertAccount
    <3> QED
      BY <1>1, <2>1, <3>1, CreatedRowType, JustOpenedType, StoreRow
  <2>2. CASE row' = row
    BY <1>1, <2>2 DEF TypeOK, LedgerIsSound, BalanceFollowsNewest, Recorded, Published
  <2> QED
    BY <2>1, <2>2 DEF InsertAccount
<1>3. TypeOK'
  BY <1>1, <1>2 DEF TypeOK, DeliveryTypeOK
<1>4. OnlyPublished' /\ LogIsSound'
  BY <1>1 DEF OnlyPublished, LogIsSound, Published
<1>5. ASSUME NEW v \in Workers
      PROVE  WorkerIsSound(v)' /\ ReadHolds(v)'
  <2>1. step[v] = "write" => ledger'[Event(v).transaction] = NoRow
    BY <1>1 DEF CheckStillHolds, ReadHolds
  <2> QED
    BY <1>1, <1>2, <2>1, OtherWorkers
<1> QED
  BY <1>2, <1>3, <1>4, <1>5 DEF HandlerIsSound, CheckStillHolds

\* Nothing the workers, the tables or the log are about changes.
LEMMA ElsewhereIInv ==
  ASSUME IInv, TypeOK', UNCHANGED <<log, running, tables, workerVars>>,
         \A e \in EventIds : audit'[e] = "Absent" => audit[e] = "Absent",
         \A e \in EventIds : audit'[e] # "Absent" => audit[e] # "Absent" \/ e \in Published,
         \A a \in Accounts : unit'[a].status = unit[a].status
  PROVE  IInv'
<1> USE DEF IInv
<1>1. /\ log' = log /\ running' = running /\ row' = row /\ ledger' = ledger
      /\ lock' = lock /\ step' = step /\ read' = read
  BY DEF tables, workerVars
<1>2. OnlyPublished'
  BY <1>1 DEF OnlyPublished, Published, TypeOK, DeliveryTypeOK
<1>3. LogIsSound'
  BY <1>1, LoggedEvents DEF LogIsSound, Published
<1>4. LedgerIsSound' /\ BalanceFollowsNewest'
  BY <1>1 DEF LedgerIsSound, BalanceFollowsNewest, Recorded, Published
<1>5. HandlerIsSound' /\ CheckStillHolds'
  BY <1>1 DEF HandlerIsSound, WorkerIsSound, CheckStillHolds, ReadHolds, Event, AccountOf
<1> QED
  BY <1>2, <1>3, <1>4, <1>5

LEMMA UnitStepIInv == ASSUME IInv, UnitStep PROVE IInv'
<1> USE LedgerAssumption DEF IInv
<1>0. /\ unit \in [Accounts -> UnitAccount]
      /\ opening \in [Accounts -> {"none", "insert", "done"}]
  BY DEF TypeOK
<1>1. ASSUME NEW a \in Accounts, NEW amount \in Amounts, UnitPosts(a, amount) PROVE IInv'
  <2> DEFINE u == [unit[a] EXCEPT !.balance = @ + amount]
  <2>1. u \in UnitAccount /\ u.status # "None"
    <3> DEFINE b == unit[a].balance + amount
    <3>1. unit[a] \in UnitAccount /\ unit[a].status = "Open" /\ b \in Int
      BY <1>0, <1>1 DEF UnitPosts, UnitAccount
    <3>2. u = [unit[a] EXCEPT !.balance = b]
      OBVIOUS
    <3> HIDE DEF b, u
    <3> QED
      BY <3>1, <3>2 DEF UnitAccount
  <2> QED
    BY <1>0, <1>1, <2>1, EmitKeepsIInv DEF UnitPosts, EventTypes
<1>2. ASSUME NEW t \in EventIds, UnitAmends(t) PROVE IInv'
  <2> DEFINE a == log[t].account
  <2>1. a \in Accounts /\ unit[a].status # "None"
    BY <1>2, LoggedEvents DEF UnitAmends, LogIsSound
  <2> QED
    BY <1>0, <1>2, <2>1, EmitKeepsIInv DEF UnitAmends, EventTypes
<1>3. ASSUME NEW a \in Accounts, NEW type \in DOMAIN ACCOUNT_STATUS_EVENTS,
             UnitChangesStatus(a, type)
      PROVE  IInv'
  <2> DEFINE u == [unit[a] EXCEPT !.status = ACCOUNT_STATUS_EVENTS[type]]
  <2>1. u \in UnitAccount /\ u.status # "None"
    BY <1>0, StatusEvents DEF UnitAccount, AccountStatus
  <2>2. type \in EventTypes /\ type # "transactionCreated"
    BY StatusEvents DEF EventTypes
  <2> QED
    BY <1>0, <1>3, <2>1, <2>2, EmitKeepsIInv DEF UnitChangesStatus
<1>4. ASSUME NEW a \in Accounts, UnitUpdatesAccount(a) PROVE IInv'
  BY <1>0, <1>4, EmitKeepsIInv DEF UnitUpdatesAccount, EventTypes
<1>5. ASSUME NEW a \in Accounts, NEW amount \in Holds, UnitHolds(a, amount) PROVE IInv'
  <2>1. /\ unit' = [unit EXCEPT ![a].hold = amount]
        /\ UNCHANGED <<log, audit, running, row, ledger, lock, step, read, outcome, opening, faults>>
    BY <1>5 DEF UnitHolds, deliveryVars, tables, workerVars
  <2>2. unit' \in [Accounts -> UnitAccount] /\ \A x \in Accounts : unit'[x].status = unit[x].status
    BY <1>0, <2>1 DEF UnitAccount
  <2>3. TypeOK'
    BY <2>1, <2>2 DEF TypeOK, DeliveryTypeOK
  <2> QED
    BY <2>1, <2>2, <2>3, ElsewhereIInv DEF tables, workerVars
<1>6. ASSUME NEW a \in Accounts, UnitOpensElsewhere(a) PROVE IInv'
  <2>1. opening' \in [Accounts -> {"none", "insert", "done"}]
    BY <1>0, <1>6 DEF UnitOpensElsewhere
  <2> QED
    BY <1>6, <2>1, JustOpenedType, EmitKeepsIInv DEF UnitOpensElsewhere, EventTypes
<1>7. ASSUME NEW a \in Accounts, NEW amount \in Amounts, SimulateCardPurchase(a, amount)
      PROVE  UnitPosts(a, amount)
  BY <1>7 DEF SimulateCardPurchase
<1> QED
  BY <1>1, <1>2, <1>3, <1>4, <1>5, <1>6, <1>7 DEF UnitStep

LEMMA ApiStepIInv == ASSUME IInv, ApiStep PROVE IInv'
<1> USE LedgerAssumption DEF IInv
<1>1. ASSUME NEW a \in Accounts, CreateAccount(a) PROVE IInv'
  <2>1. opening' \in [Accounts -> {"none", "insert", "done"}]
    BY <1>1 DEF CreateAccount, TypeOK
  <2> QED
    BY <1>1, <2>1, JustOpenedType, EmitKeepsIInv DEF CreateAccount, EventTypes
<1>2. ASSUME NEW a \in Accounts, LoseAccount(a) PROVE IInv'
  <2>1. /\ opening' = [opening EXCEPT ![a] = "done"]
        /\ faults' \in 0..MaxFaults
        /\ UNCHANGED <<log, audit, running, unit, tables, workerVars>>
    BY <1>2 DEF LoseAccount, deliveryVars, TypeOK
  <2>2. TypeOK'
    BY <2>1 DEF TypeOK, DeliveryTypeOK, tables, workerVars
  <2> QED
    BY <2>1, <2>2, ElsewhereIInv
<1> QED
  BY <1>1, <1>2, InsertAccountIInv DEF ApiStep

LEMMA NextIInv == ASSUME IInv, [Next]_vars PROVE IInv'
<1>1. CASE UnitStep
  BY <1>1, UnitStepIInv
<1>2. CASE ApiStep
  BY <1>2, ApiStepIInv
<1>3. ASSUME NEW e \in EventIds, ReceiveWebhook(e) PROVE IInv'
  <2>1. /\ audit' = [audit EXCEPT ![e] = "Pending"] /\ e \in Published
        /\ UNCHANGED <<log, running, unit, tables, workerVars, opening, faults>>
    BY <1>3 DEF ReceiveWebhook, Ingest
  <2>2. TypeOK'
    BY <2>1 DEF IInv, TypeOK, DeliveryTypeOK, Retryable, tables, workerVars
  <2> QED
    BY <2>1, <2>2, ElsewhereIInv DEF IInv, TypeOK, DeliveryTypeOK
<1>4. ASSUME NEW w \in Workers, Handle(w) PROVE IInv'
  BY <1>4, FindAccountIInv, BackfillAccountIInv, UpdateStatusIInv, LockRowIInv, DecideIInv,
     CommitIInv, TouchTransactionIInv, MarkEventIInv DEF Handle
<1>5. CASE Deliver
  BY <1>3, <1>4, <1>5, StartHandlerIInv DEF Deliver
<1>6. CASE Break
  BY <1>6, FailHandlerIInv, CrashIInv DEF Break
<1>7. CASE UNCHANGED vars
  <2>1. UNCHANGED <<log, audit, running, unit, tables, workerVars, opening, faults>>
    BY <1>7 DEF vars, deliveryVars
  <2>2. TypeOK'
    BY <2>1 DEF IInv, TypeOK, DeliveryTypeOK, tables, workerVars
  <2> QED
    BY <2>1, <2>2, ElsewhereIInv
<1> QED
  BY <1>1, <1>2, <1>5, <1>6, <1>7 DEF Next, Rest

\* The strengthened invariant holds in every state of every execution.
THEOREM Invariance == Spec => []IInv
<1>1. Init => IInv
  BY InitIInv
<1>2. IInv /\ [Next]_vars => IInv'
  BY NextIInv
<1> QED
  BY <1>1, <1>2, PTL DEF Spec

\* Every variable keeps its type, whatever Unit, the API and the workers do.
THEOREM TypeCorrect == Spec => []TypeOK
<1>1. IInv => TypeOK
  BY DEF IInv
<1> QED
  BY <1>1, Invariance, PTL

\* What applyTransactionCreated checked under the row lock is still true when
\* it writes, for any number of workers (accounts.repository.ts:108-117).
THEOREM LockProtectsCheck == Spec => []CheckStillHolds
<1>1. IInv => CheckStillHolds
  BY DEF IInv
<1> QED
  BY <1>1, Invariance, PTL

\* An account's balance is at every moment the one its newest recorded
\* transaction left, and available is that less the hold.
THEOREM BalanceIsNewest == Spec => []BalanceFollowsNewest
<1>1. IInv => BalanceFollowsNewest
  BY DEF IInv
<1> QED
  BY <1>1, Invariance, PTL
=============================================================================
