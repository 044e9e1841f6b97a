--------------------------- MODULE LedgerRefinement --------------------------
(***************************************************************************)
(* Ledger.tla implements AtomicLedger.tla, for any accounts, workers,      *)
(* events and faults.  The refinement mapping is the identity on log, row  *)
(* and ledger: what has to be shown is that no step of a worker changes    *)
(* the tables but by applying its whole event to the state of that moment, *)
(* though it decided on what it had read before.                           *)
(*                                                                         *)
(* The second part is what follows for the audit table.  The tables of     *)
(* AtomicLedger.tla only grow, so what once bore out a verdict goes on to. *)
(*                                                                         *)
(* The third part says when a balance is Unit's, and what is to blame when *)
(* it is not.                                                              *)
(***************************************************************************)
EXTENDS LedgerProofs, WellFoundedInduction

\* The initial tables are those of the atomic ledger.
LEMMA InitRefines == Init => Atomic!AtomicInit
<1> SUFFICES ASSUME Init PROVE Atomic!AtomicInit
  OBVIOUS
<1>1. log = <<>> /\ \A e \in DOMAIN ledger : ledger[e] = NoRow
  BY DEF Init, DeliveryInit
<1>2. ASSUME NEW a \in DOMAIN row, row[a] # NoRow PROVE row[a].lastEventAt = 0
  BY <1>2 DEF Init, CreatedRow, Never
<1> QED
  BY <1>1, <1>2 DEF Atomic!AtomicInit

\* A published event is one more entry of the log.
LEMMA EmitRefines ==
  ASSUME TypeOK, NEW type, NEW a, NEW t, NEW u, UnitEmits(type, a, t, u), UNCHANGED tables
  PROVE  Atomic!UnitPublishes
<1>1. PICK gap \in Gaps :
        LET at == IF LastAt + gap = Never THEN 1 ELSE LastAt + gap
        IN Emit([type |-> type, account |-> a, transaction |-> t,
                 at |-> at, balance |-> u.balance])
  BY DEF UnitEmits
<1>2. PICK ev : log' = Append(log, ev)
  BY <1>1 DEF Emit
<1>3. log \in Seq(UnitEvent)
  BY DEF TypeOK
<1>4. Len(log') = Len(log) + 1 /\ \A i \in DOMAIN log : log'[i] = log[i]
  BY <1>2, <1>3
<1> QED
  BY <1>4 DEF Atomic!UnitPublishes, tables

\* What Unit does is published, or does not concern the tables.
LEMMA UnitStepRefines ==
  ASSUME IInv, UnitStep PROVE Atomic!UnitPublishes \/ UNCHANGED Atomic!atomicVars
<1>0. TypeOK
  BY DEF IInv
<1>1. ASSUME NEW a \in Accounts, NEW amount \in Amounts, UnitPosts(a, amount)
      PROVE  Atomic!UnitPublishes
  BY <1>0, <1>1, EmitRefines DEF UnitPosts
<1>2. ASSUME NEW t \in EventIds, UnitAmends(t) PROVE Atomic!UnitPublishes
  BY <1>0, <1>2, EmitRefines DEF UnitAmends
<1>3. ASSUME NEW a \in Accounts, NEW type \in DOMAIN ACCOUNT_STATUS_EVENTS,
             UnitChangesStatus(a, type)
      PROVE  Atomic!UnitPublishes
  BY <1>0, <1>3, EmitRefines DEF UnitChangesStatus
<1>4. ASSUME NEW a \in Accounts, UnitUpdatesAccount(a) PROVE Atomic!UnitPublishes
  BY <1>0, <1>4, EmitRefines DEF UnitUpdatesAccount
<1>5. ASSUME NEW a \in Accounts, NEW amount \in Holds, UnitHolds(a, amount)
      PROVE  UNCHANGED Atomic!atomicVars
  BY <1>5 DEF UnitHolds, deliveryVars, tables, Atomic!atomicVars
<1>6. ASSUME NEW a \in Accounts, UnitOpensElsewhere(a) PROVE Atomic!UnitPublishes
  BY <1>0, <1>6, EmitRefines DEF UnitOpensElsewhere
<1>7. ASSUME NEW a \in Accounts, NEW amount \in Amounts, SimulateCardPurchase(a, amount)
      PROVE  UnitPosts(a, amount)
  BY <1>7 DEF SimulateCardPurchase
<1> QED
  BY <1>1, <1>2, <1>3, <1>4, <1>5, <1>6, <1>7 DEF UnitStep

\* Storing a stampless row for an account without one is StoreAccount.
LEMMA StoreRefines ==
  ASSUME IInv, NEW a \in Accounts, NEW r \in AccountRow, row[a] = NoRow,
         r.lastEventAt = Never, row' = [row EXCEPT ![a] = r], UNCHANGED <<log, ledger>>
  PROVE  \E x \in DOMAIN row : Atomic!StoreAccount(x)
<1> USE LedgerAssumption
<1>1. row \in [Accounts -> AccountRow \cup {NoRow}]
  BY DEF IInv, TypeOK
<1>2. a \in DOMAIN row /\ row'[a] = r /\ r # NoRow
  BY <1>1
<1>3. Atomic!StoreAccount(a)
  BY <1>2 DEF Atomic!StoreAccount, Never
<1> QED
  BY <1>2, <1>3

\* POST /accounts publishes an event or stores a row.
LEMMA ApiStepRefines ==
  ASSUME IInv, ApiStep PROVE Atomic!AtomicNext \/ UNCHANGED Atomic!atomicVars
<1>0. TypeOK
  BY DEF IInv
<1>1. ASSUME NEW a \in Accounts, CreateAccount(a) PROVE Atomic!AtomicNext
  BY <1>0, <1>1, EmitRefines DEF CreateAccount, Atomic!AtomicNext
<1>2. ASSUME NEW a \in Accounts, InsertAccount(a)
      PROVE  Atomic!AtomicNext \/ UNCHANGED Atomic!atomicVars
  <2>1. UNCHANGED <<log, ledger>>
    BY <1>2 DEF InsertAccount, deliveryVars
  <2>2. CASE row[a] = NoRow
    <3>1. row' = [row EXCEPT ![a] = CreatedRow(JustOpened)]
      BY <1>2, <2>2 DEF InsertAccount
    <3> QED
      BY <2>1, <2>2, <3>1, JustOpenedType, CreatedRowType, StoreRefines DEF Atomic!AtomicNext
  <2>3. CASE row[a] # NoRow
    BY <1>2, <2>1, <2>3 DEF InsertAccount, Atomic!atomicVars
  <2> QED
    BY <2>2, <2>3
<1>3. ASSUME NEW a \in Accounts, LoseAccount(a) PROVE UNCHANGED Atomic!atomicVars
  BY <1>3 DEF LoseAccount, deliveryVars, tables, Atomic!atomicVars
<1> QED
  BY <1>1, <1>2, <1>3 DEF ApiStep

\* An event that passes the guard of an update is newer than the row.
LEMMA NewerRefines ==
  ASSUME NEW r, NEW ev, r.lastEventAt \in Nat, ev.at \in Nat \ {Never},
         IsNewer(r, ev) \/ ~IsStale(r, ev)
  PROVE  Atomic!NewerThan(r, ev)
BY DEF IsNewer, IsStale, Atomic!NewerThan, Never

\* The event a worker runs is an entry of the log.
LEMMA RunningIsLogged ==
  ASSUME IInv, NEW w \in Workers, running[w] # NoEvent
  PROVE  /\ running[w] \in DOMAIN log /\ Event(w) = log[running[w]]
         /\ Event(w).at \in Nat \ {Never} /\ AccountOf(w) = log[running[w]].account
<1>1. log \in Seq(UnitEvent) /\ running[w] \in Published /\ Event(w) \in UnitEvent
  BY RunningEvent DEF IInv, TypeOK
<1>2. running[w] \in DOMAIN log
  BY <1>1 DEF Published
<1> QED
  BY <1>1, <1>2, RunningEvent DEF UnitEvent

\* The backfill inserts a row that saw no event yet.
LEMMA BackfillAccountRefines ==
  ASSUME IInv, NEW w \in Workers, BackfillAccount(w)
  PROVE  Atomic!AtomicNext \/ UNCHANGED Atomic!atomicVars
<1> DEFINE a == AccountOf(w)
<1>1. /\ running[w] # NoEvent /\ step[w] = "insert"
      /\ UNCHANGED <<log, ledger>>
  BY DEF BackfillAccount, At, HandlerOnly, deliveryVars
<1>2. a \in Accounts
  BY <1>1, RunningEvent
<1>3. read[w] \in AccountRow /\ read[w].lastEventAt = Never
  BY <1>1 DEF IInv, HandlerIsSound, WorkerIsSound
<1>4. CASE row[a] = NoRow
  <2>1. row' = [row EXCEPT ![a] = read[w]]
    BY <1>4 DEF BackfillAccount
  <2> QED
    BY <1>1, <1>2, <1>3, <1>4, <2>1, StoreRefines DEF Atomic!AtomicNext
<1>5. CASE row[a] # NoRow
  BY <1>1, <1>5 DEF BackfillAccount, Atomic!atomicVars
<1> QED
  BY <1>4, <1>5

\* The guarded UPDATE of a status applies its event.
LEMMA UpdateStatusRefines ==
  ASSUME IInv, NEW w \in Workers, UpdateStatus(w)
  PROVE  Atomic!AtomicNext \/ UNCHANGED Atomic!atomicVars
<1> DEFINE a == AccountOf(w)
           e == running[w]
           ev == Event(w)
<1>1. /\ running[w] # NoEvent /\ step[w] = "status"
      /\ UNCHANGED <<log, ledger>>
  BY DEF UpdateStatus, At, HandlerOnly, deliveryVars
<1>2. /\ a \in Accounts /\ e \in DOMAIN log /\ ev = log[e] /\ a = log[e].account
      /\ ev.at \in Nat \ {Never}
  BY <1>1, RunningEvent, RunningIsLogged
<1>3. ev.type \in DOMAIN ACCOUNT_STATUS_EVENTS
  BY <1>1 DEF IInv, HandlerIsSound, WorkerIsSound
<1>4. CASE row[a] # NoRow /\ IsNewer(row[a], ev)
  <2>1. row[a] \in AccountRow
    BY <1>2, <1>4 DEF IInv, TypeOK
  <2>2. Atomic!NewerThan(row[a], ev)
    BY <1>2, <1>4, <2>1, NewerRefines DEF AccountRow
  <2>3. row' = [row EXCEPT ![a] = [@ EXCEPT !.status = ACCOUNT_STATUS_EVENTS[ev.type],
                                           !.lastEventAt = ev.at]]
    BY <1>4 DEF UpdateStatus
  <2>4. Atomic!StatusAfter = ACCOUNT_STATUS_EVENTS
    BY DEF Atomic!StatusAfter, ACCOUNT_STATUS_EVENTS
  <2>5. Atomic!ApplyStatus(e)
    <3> HIDE DEF a, e, ev
    <3> QED
      BY <1>1, <1>2, <1>3, <1>4, <2>2, <2>3, <2>4 DEF Atomic!ApplyStatus
  <2> QED
    BY <1>2, <2>5 DEF Atomic!AtomicNext
<1>5. CASE ~(row[a] # NoRow /\ IsNewer(row[a], ev))
  BY <1>1, <1>5 DEF UpdateStatus, Atomic!atomicVars
<1> QED
  BY <1>4, <1>5

\* The commit of a transaction applies its event to the tables as they are,
\* because the row is still the one that was read.
LEMMA CommitRefines ==
  ASSUME IInv, NEW w \in Workers, Commit(w) PROVE Atomic!AtomicNext
<1> DEFINE a == AccountOf(w)
           e == running[w]
           ev == Event(w)
<1>1. /\ running[w] # NoEvent /\ step[w] = "write" /\ UNCHANGED log
  BY DEF Commit, At, HandlerOnly, deliveryVars
<1>2. /\ a \in Accounts /\ e \in DOMAIN log /\ ev = log[e] /\ a = log[e].account
      /\ ev.at \in Nat \ {Never} /\ e \in Published
  BY <1>1, RunningEvent, RunningIsLogged
<1>3. ev.type = "transactionCreated" /\ ev.transaction = e
  BY <1>1, <1>2 DEF IInv, HandlerIsSound, WorkerIsSound, LogIsSound
<1>4. /\ row[a] = read[w] /\ row[a] \in AccountRow /\ ~IsStale(row[a], ev)
      /\ ledger[e] = NoRow
  BY <1>1, <1>3 DEF IInv, CheckStillHolds, ReadHolds, HandlerIsSound, WorkerIsSound
<1>5. Atomic!NewerThan(row[a], ev) /\ row[a] # NoRow
  BY <1>2, <1>4, NewerRefines, LedgerAssumption DEF AccountRow
<1>6. /\ ledger' = [ledger EXCEPT ![e] =
           [account |-> a, balance |-> ev.balance, lastEventAt |-> ev.at]]
      /\ row' = [row EXCEPT ![a] =
           [@ EXCEPT !.balance = ev.balance, !.available = ev.balance - row[a].hold,
                     !.lastEventAt = ev.at]]
  BY <1>3, <1>4 DEF Commit
<1>7. Atomic!ApplyTransaction(e)
  <2> HIDE DEF a, e, ev
  <2> QED
    BY <1>1, <1>2, <1>3, <1>4, <1>5, <1>6 DEF Atomic!ApplyTransaction
<1> QED
  BY <1>2, <1>7 DEF Atomic!AtomicNext

\* transaction.updated restamps the transaction it names.
LEMMA TouchTransactionRefines ==
  ASSUME IInv, NEW w \in Workers, TouchTransaction(w)
  PROVE  Atomic!AtomicNext \/ UNCHANGED Atomic!atomicVars
<1> DEFINE t == Event(w).transaction
           e == running[w]
           ev == Event(w)
<1>1. /\ running[w] # NoEvent /\ step[w] = "touch" /\ UNCHANGED <<log, row>>
  BY DEF TouchTransaction, At, HandlerOnly, deliveryVars
<1>2. /\ t \in EventIds /\ e \in DOMAIN log /\ ev = log[e]
      /\ ev.at \in Nat \ {Never} /\ ev.type = "transactionUpdated"
  BY <1>1, RunningEvent, RunningIsLogged DEF IInv, HandlerIsSound, WorkerIsSound
<1>3. CASE ledger[t] # NoRow /\ IsNewer(ledger[t], ev)
  <2>1. ledger[t] \in TransactionRow
    BY <1>2, <1>3 DEF IInv, TypeOK
  <2>2. Atomic!NewerThan(ledger[t], ev)
    BY <1>2, <1>3, <2>1, NewerRefines DEF TransactionRow
  <2>3. ledger' = [ledger EXCEPT ![t] = [@ EXCEPT !.lastEventAt = ev.at]]
    BY <1>3 DEF TouchTransaction
  <2>4. Atomic!RestampTransaction(e)
    <3> HIDE DEF e
    <3> QED
      BY <1>1, <1>2, <1>3, <2>2, <2>3 DEF Atomic!RestampTransaction
  <2> QED
    BY <1>2, <2>4 DEF Atomic!AtomicNext
<1>4. CASE ~(ledger[t] # NoRow /\ IsNewer(ledger[t], ev))
  BY <1>1, <1>4 DEF TouchTransaction, Atomic!atomicVars
<1> QED
  BY <1>3, <1>4

\* Every step is one of the atomic ledger, or does not change the tables.
LEMMA NextRefines ==
  ASSUME IInv, [Next]_vars PROVE [Atomic!AtomicNext]_(Atomic!atomicVars)
<1>1. CASE UnitStep
  BY <1>1, UnitStepRefines DEF Atomic!AtomicNext
<1>2. CASE ApiStep
  BY <1>2, ApiStepRefines
<1>3. ASSUME NEW e \in EventIds, ReceiveWebhook(e) PROVE UNCHANGED Atomic!atomicVars
  BY <1>3 DEF ReceiveWebhook, Ingest, tables, Atomic!atomicVars
<1>4. ASSUME NEW w \in Workers, NEW e \in EventIds, StartHandler(w, e)
      PROVE  UNCHANGED Atomic!atomicVars
  BY <1>4 DEF StartHandler, Begin, tables, Atomic!atomicVars
<1>5. ASSUME NEW w \in Workers, FindAccount(w) \/ LockRow(w) \/ Decide(w) \/ MarkEvent(w)
      PROVE  UNCHANGED Atomic!atomicVars
  BY <1>5 DEF FindAccount, LockRow, Decide, MarkEvent, Mark, HandlerOnly, deliveryVars,
              tables, Atomic!atomicVars
<1>6. CASE Deliver
  BY <1>3, <1>4, <1>5, <1>6, BackfillAccountRefines, UpdateStatusRefines, CommitRefines,
     TouchTransactionRefines DEF Deliver, Handle
<1>7. CASE Break
  BY <1>7 DEF Break, FailHandler, Crash, Abandon, deliveryVars, tables, Atomic!atomicVars
<1>8. CASE Rest \/ UNCHANGED vars
  BY <1>8 DEF Rest, vars, deliveryVars, tables, Atomic!atomicVars
<1> QED
  BY <1>1, <1>2, <1>6, <1>7, <1>8 DEF Next

\* The ledger of concurrent workers that read, decide, write, fail and crash is
\* the one of AtomicLedger, where every handler is one step: no delivery order
\* and no crash shows a half-applied or doubly applied event
\* (accounts.repository.ts:108-172).
THEOREM LedgerIsAtomic == Spec => ImplementsAtomicLedger
<1>1. Init => Atomic!AtomicInit
  BY InitRefines
<1>2. IInv /\ [Next]_vars => [Atomic!AtomicNext]_(Atomic!atomicVars)
  BY NextRefines
<1> QED
  BY <1>1, <1>2, Invariance, PTL DEF Spec, ImplementsAtomicLedger, Atomic!AtomicSpec

-----------------------------------------------------------------------------
(* What the audit table says of an event.  The verdict travels: a handler  *)
(* decides it, the worker carries it, markEvent writes it, and meanwhile   *)
(* others change both tables, or the worker dies and another decides       *)
(* again.  VInv says that a verdict, written or on its way, is justified   *)
(* by the tables as they are now.                                          *)

\* The audit row of e has this verdict, or a worker is about to write it.
Says(e, v) ==
  \/ audit[e] = v
  \/ \E w \in Workers : running[w] = e /\ step[w] = "mark" /\ outcome[w] = v

\* The account's row has recorded this event or a newer one.
Reached(ev) == row[ev.account] # NoRow /\ row[ev.account].lastEventAt >= ev.at

Justified(e, v) ==
  /\ v = "Processed" /\ log[e].type = "transactionCreated" => ledger[e] # NoRow
  /\ v = "Processed" /\ log[e].type \in DOMAIN ACCOUNT_STATUS_EVENTS => Reached(log[e])
  /\ v = "Skipped" /\ log[e].account \in Opened => Reached(log[e])
  /\ log[e].type = "accountCreated" /\ log[e].account \in Known => row[log[e].account] # NoRow

VerdictsAreJustified ==
  \A e \in Published : \A v \in Terminal : Says(e, v) => Justified(e, v)

\* An account that is open has its row, or the event that will bring it.
AccountsAreAnnounced ==
  \A a \in Accounts : unit[a] # Unopened =>
    \/ row[a] # NoRow
    \/ \E e \in Published : log[e].account = a /\ log[e].type = "accountCreated"

OpenedRowsStay == \A a \in Opened : row[a] # NoRow

\* Only account.created is handled by the backfill.
BackfillsAreAnnounced ==
  \A w \in Workers : step[w] \in {"backfill", "insert"} => Event(w).type = "accountCreated"

VInv ==
  /\ VerdictsAreJustified
  /\ AccountsAreAnnounced
  /\ OpenedRowsStay
  /\ BackfillsAreAnnounced

\* No step takes a row away or sets its stamp back, nor forgets a transaction.
TablesGrow ==
  /\ \A a \in Accounts : row[a] # NoRow =>
       row'[a] # NoRow /\ row'[a].lastEventAt >= row[a].lastEventAt
  /\ \A e \in EventIds : ledger[e] # NoRow => ledger'[e] # NoRow

LogGrows == \A e \in Published : e \in Published' /\ log'[e] = log[e]

LEMMA InitVInv == Init => VInv
<1> SUFFICES ASSUME Init PROVE VInv
  OBVIOUS
<1> USE LedgerAssumption, DeliveryAssumption
<1>1. VerdictsAreJustified
  BY DEF Init, DeliveryInit, Published, VerdictsAreJustified
<1>2. AccountsAreAnnounced /\ OpenedRowsStay
  <2>1. ASSUME NEW a \in Opened PROVE row[a] # NoRow
    BY CreatedRowType, JustOpenedType DEF Init
  <2> QED
    BY <2>1 DEF AccountsAreAnnounced, OpenedRowsStay, Init
<1>3. BackfillsAreAnnounced
  BY DEF Init, BackfillsAreAnnounced
<1> QED
  BY <1>1, <1>2, <1>3 DEF VInv

\* The tables of the atomic ledger only grow, and so do those of every step here.
LEMMA NextTablesGrow == ASSUME IInv, [Next]_vars PROVE TablesGrow
<1> USE LedgerAssumption
<1>0. /\ row \in [Accounts -> AccountRow \cup {NoRow}]
      /\ ledger \in [EventIds -> TransactionRow \cup {NoRow}]
      /\ log \in Seq(UnitEvent)
      /\ \A a \in Accounts : row[a] # NoRow => row[a].lastEventAt \in Nat
  BY DEF IInv, TypeOK, AccountRow
<1>a. \A e \in DOMAIN log : /\ log[e].account \in Accounts /\ log[e].transaction \in EventIds
                            /\ log[e].at \in Nat /\ log[e].balance \in Int
  <2>1. \A e \in DOMAIN log : log[e] \in UnitEvent
    BY <1>0
  <2> QED
    BY <2>1 DEF UnitEvent
<1>1. CASE row' = row /\ ledger' = ledger
  BY <1>0, <1>1 DEF TablesGrow
<1>2. ASSUME NEW e \in DOMAIN log, Atomic!ApplyTransaction(e) PROVE TablesGrow
  <2> DEFINE a == log[e].account
             at == log[e].at
             b == log[e].balance
             av == b - row[a].hold
  <2>1. a \in Accounts /\ at \in Nat /\ b \in Int
    BY <1>a
  <2>2. row[a] \in AccountRow /\ row[a].lastEventAt <= at
    BY <1>0, <1>2, <2>1 DEF Atomic!ApplyTransaction, Atomic!NewerThan, AccountRow
  <2>3. av \in Int
    BY <2>1, <2>2 DEF AccountRow
  <2>4. /\ row' = [row EXCEPT ![a] = [@ EXCEPT !.balance = b, !.available = av,
                                               !.lastEventAt = at]]
        /\ ledger[e] = NoRow
        /\ ledger' = [ledger EXCEPT ![e] = [account |-> a, balance |-> b, lastEventAt |-> at]]
    BY <1>2 DEF Atomic!ApplyTransaction
  <2> HIDE DEF a, at, b, av
  <2>5. /\ row'[a] = [row[a] EXCEPT !.balance = b, !.available = av, !.lastEventAt = at]
        /\ \A x \in Accounts \ {a} : row'[x] = row[x]
        /\ \A f \in EventIds \ {e} : ledger'[f] = ledger[f]
    BY <1>0, <2>1, <2>4
  <2>6. row'[a] \in AccountRow /\ row'[a].lastEventAt = at
    BY <2>1, <2>2, <2>3, <2>5 DEF AccountRow
  <2> QED
    BY <1>0, <2>1, <2>2, <2>4, <2>5, <2>6 DEF TablesGrow
<1>3. ASSUME NEW e \in DOMAIN log, Atomic!ApplyStatus(e) PROVE TablesGrow
  <2> DEFINE a == log[e].account
             at == log[e].at
             st == Atomic!StatusAfter[log[e].type]
  <2>1. a \in Accounts /\ at \in Nat /\ st \in AccountStatus
    BY <1>a, <1>3 DEF Atomic!ApplyStatus, Atomic!StatusAfter, AccountStatus
  <2>2. row[a] \in AccountRow /\ row[a].lastEventAt <= at
    BY <1>0, <1>3, <2>1 DEF Atomic!ApplyStatus, Atomic!NewerThan, AccountRow
  <2>3. row' = [row EXCEPT ![a] = [@ EXCEPT !.status = st, !.lastEventAt = at]]
        /\ ledger' = ledger
    BY <1>3 DEF Atomic!ApplyStatus
  <2> HIDE DEF a, at, st
  <2>4. /\ row'[a] = [row[a] EXCEPT !.status = st, !.lastEventAt = at]
        /\ \A x \in Accounts \ {a} : row'[x] = row[x]
    BY <1>0, <2>1, <2>3
  <2>5. row'[a] \in AccountRow /\ row'[a].lastEventAt = at
    BY <2>1, <2>2, <2>4 DEF AccountRow
  <2> QED
    BY <1>0, <2>1, <2>2, <2>3, <2>4, <2>5 DEF TablesGrow
<1>4. ASSUME NEW e \in DOMAIN log, Atomic!RestampTransaction(e) PROVE TablesGrow
  <2> DEFINE t == log[e].transaction
             at == log[e].at
  <2>1. t \in EventIds /\ at \in Nat
    BY <1>a
  <2>2. /\ ledger[t] \in TransactionRow /\ row' = row
        /\ ledger' = [ledger EXCEPT ![t] = [@ EXCEPT !.lastEventAt = at]]
    BY <1>0, <1>4, <2>1 DEF Atomic!RestampTransaction
  <2> HIDE DEF t, at
  <2>3. /\ ledger'[t] = [ledger[t] EXCEPT !.lastEventAt = at]
        /\ \A f \in EventIds \ {t} : ledger'[f] = ledger[f]
    BY <1>0, <2>1, <2>2
  <2>4. ledger'[t] \in TransactionRow
    BY <2>1, <2>2, <2>3 DEF TransactionRow
  <2> QED
    BY <1>0, <2>1, <2>2, <2>3, <2>4 DEF TablesGrow
<1>5. ASSUME NEW a \in DOMAIN row, Atomic!StoreAccount(a) PROVE TablesGrow
  <2>1. /\ row[a] = NoRow /\ ledger' = ledger /\ a \in Accounts
        /\ \A x \in Accounts \ {a} : row'[x] = row[x]
    BY <1>0, <1>5 DEF Atomic!StoreAccount
  <2> QED
    BY <1>0, <2>1 DEF TablesGrow
<1>6. [Atomic!AtomicNext]_(Atomic!atomicVars)
  BY NextRefines
<1> QED
  BY <1>1, <1>2, <1>3, <1>4, <1>5, <1>6
     DEF Atomic!AtomicNext, Atomic!UnitPublishes, Atomic!atomicVars

LEMMA NextLogGrows == ASSUME IInv, [Next]_vars PROVE LogGrows
<1>1. [Atomic!AtomicNext]_(Atomic!atomicVars)
  BY NextRefines
<1>2. log' = log \/ Atomic!UnitPublishes
  BY <1>1 DEF Atomic!AtomicNext, Atomic!atomicVars, Atomic!ApplyTransaction,
              Atomic!ApplyStatus, Atomic!RestampTransaction, Atomic!StoreAccount
<1>3. DOMAIN log = Published /\ Len(log) \in Nat
  BY DEF IInv, TypeOK, Published
<1> QED
  BY <1>2, <1>3 DEF LogGrows, Published, Atomic!UnitPublishes

\* What justifies a verdict stays true.
LEMMA JustifiedStays ==
  ASSUME IInv, TypeOK', TablesGrow, LogGrows, NEW e \in Published, NEW v, Justified(e, v)
  PROVE  Justified(e, v)'
<1>1. log'[e] = log[e] /\ log[e].account \in Accounts /\ log[e].at \in Nat
  BY LoggedEvents DEF LogGrows, IInv
<1>2. e \in EventIds
  BY DeliveryAssumption DEF IInv, TypeOK, DeliveryTypeOK, Published, EventIds
<1>3. Reached(log[e]) => Reached(log[e])'
  <2> DEFINE a == log[e].account
  <2>1. row[a] # NoRow => row[a].lastEventAt \in Nat
    BY <1>1 DEF IInv, TypeOK, AccountRow
  <2>2. row'[a] # NoRow => row'[a].lastEventAt \in Nat
    BY <1>1 DEF TypeOK, AccountRow
  <2> QED
    BY <1>1, <2>1, <2>2 DEF Reached, TablesGrow
<1> QED
  BY <1>1, <1>2, <1>3 DEF Justified, TablesGrow, Reached

-----------------------------------------------------------------------------
(* Where a new verdict can come from.                                      *)

\* A handler that returns says its verdict of its event, and nothing else.
LEMMA FinishSays ==
  ASSUME IInv, NEW w \in Workers, NEW verdict, Finish(w, verdict),
         UNCHANGED <<audit, running>>, NEW e, NEW v, Says(e, v)'
  PROVE  Says(e, v) \/ (e = running[w] /\ v = verdict)
<1>1. /\ outcome'[w] = verdict
      /\ \A u \in Workers \ {w} : step'[u] = step[u] /\ outcome'[u] = outcome[u]
  BY DEF Finish, GoTo, IInv, TypeOK
<1> QED
  BY <1>1 DEF Says

\* A handler that goes on says nothing.
LEMMA GoToSays ==
  ASSUME IInv, NEW w \in Workers, NEW s, s # "mark", GoTo(w, s),
         UNCHANGED <<audit, running, outcome>>, NEW e, NEW v, Says(e, v)'
  PROVE  Says(e, v)
<1>1. step'[w] = s /\ \A u \in Workers \ {w} : step'[u] = step[u]
  BY DEF GoTo, IInv, TypeOK
<1> QED
  BY <1>1 DEF Says

\* The handlers of account.created.
LEMMA FindAccountSays ==
  ASSUME IInv, VInv, NEW w \in Workers, FindAccount(w),
         NEW e \in EventIds, NEW v \in Terminal, Says(e, v)'
  PROVE  Says(e, v) \/ Justified(e, v)'
<1> DEFINE a == AccountOf(w)
<1>1. /\ running[w] # NoEvent /\ step[w] = "backfill"
      /\ UNCHANGED <<log, audit, running, row>>
  BY DEF FindAccount, At, HandlerOnly, deliveryVars, tables
<1>2. /\ Event(w) = log[running[w]] /\ a = log[running[w]].account
      /\ log[running[w]].type = "accountCreated"
  BY <1>1, RunningEvent DEF VInv, BackfillsAreAnnounced
<1>3. CASE (row[a] # NoRow \/ a \notin Known) /\ Finish(w, "Processed")
  <2>1. Says(e, v) \/ (e = running[w] /\ v = "Processed")
    BY <1>1, <1>3, FinishSays
  <2>2. CASE e = running[w] /\ v = "Processed"
    BY <1>1, <1>2, <1>3, <2>2, StatusEvents DEF Justified
  <2> QED
    BY <2>1, <2>2
<1>4. CASE GoTo(w, "insert") /\ UNCHANGED outcome
  BY <1>1, <1>4, GoToSays
<1> QED
  BY <1>3, <1>4 DEF FindAccount

LEMMA BackfillAccountSays ==
  ASSUME IInv, VInv, NEW w \in Workers, BackfillAccount(w),
         NEW e \in EventIds, NEW v \in Terminal, Says(e, v)'
  PROVE  Says(e, v) \/ Justified(e, v)'
<1> USE LedgerAssumption
<1> DEFINE a == AccountOf(w)
<1>1. /\ running[w] # NoEvent /\ step[w] = "insert"
      /\ UNCHANGED <<log, audit, running>>
  BY DEF BackfillAccount, At, HandlerOnly, deliveryVars
<1>2. /\ Event(w) = log[running[w]] /\ a = log[running[w]].account /\ a \in Accounts
      /\ log[running[w]].type = "accountCreated" /\ read[w] \in AccountRow
  BY <1>1, RunningEvent DEF VInv, BackfillsAreAnnounced, IInv, HandlerIsSound, WorkerIsSound
<1>3. CASE row' = [row EXCEPT ![a] = read[w]] /\ Finish(w, "Processed")
  <2>1. Says(e, v) \/ (e = running[w] /\ v = "Processed")
    BY <1>1, <1>3, FinishSays
  <2>2. row'[a] # NoRow
    BY <1>2, <1>3 DEF IInv, TypeOK
  <2>3. CASE e = running[w] /\ v = "Processed"
    BY <1>1, <1>2, <2>2, <2>3, StatusEvents DEF Justified
  <2> QED
    BY <2>1, <2>3
<1>4. CASE Finish(w, "Failed")
  BY <1>1, <1>4, FinishSays DEF Terminal
<1> QED
  BY <1>3, <1>4 DEF BackfillAccount

\* A status is written and its stamp with it, or the row is as new already.
LEMMA UpdateStatusSays ==
  ASSUME IInv, VInv, NEW w \in Workers, UpdateStatus(w),
         NEW e \in EventIds, NEW v \in Terminal, Says(e, v)'
  PROVE  Says(e, v) \/ Justified(e, v)'
<1> USE LedgerAssumption
<1> DEFINE a == AccountOf(w)
           ev == Event(w)
<1>1. /\ running[w] # NoEvent /\ step[w] = "status"
      /\ UNCHANGED <<log, audit, running>>
  BY DEF UpdateStatus, At, HandlerOnly, deliveryVars
<1>2. /\ ev = log[running[w]] /\ a = ev.account /\ a \in Accounts /\ ev.at \in Nat
      /\ ev.type \in DOMAIN ACCOUNT_STATUS_EVENTS
      /\ ev.type # "transactionCreated" /\ ev.type # "accountCreated"
  <2>1. ev.type \in DOMAIN ACCOUNT_STATUS_EVENTS
    BY <1>1 DEF IInv, HandlerIsSound, WorkerIsSound
  <2> QED
    BY <1>1, <2>1, RunningEvent, StatusEvents
<1>3. CASE /\ row[a] # NoRow
           /\ row' = [row EXCEPT ![a] =
                [@ EXCEPT !.status = ACCOUNT_STATUS_EVENTS[ev.type], !.lastEventAt = ev.at]]
           /\ Finish(w, "Processed")
  <2>1. Says(e, v) \/ (e = running[w] /\ v = "Processed")
    BY <1>1, <1>3, FinishSays
  <2>2. row'[a] # NoRow /\ row'[a].lastEventAt >= ev.at
    <3> DEFINE at == ev.at
               st == ACCOUNT_STATUS_EVENTS[ev.type]
    <3>1. row[a] \in AccountRow /\ st \in AccountStatus /\ at \in Nat
      BY <1>2, <1>3, StatusEvents DEF IInv, TypeOK
    <3>2. row'[a] = [row[a] EXCEPT !.status = st, !.lastEventAt = at]
      BY <1>2, <1>3 DEF IInv, TypeOK
    <3>3. row'[a] \in AccountRow /\ row'[a].lastEventAt = at
      <4> HIDE DEF a, at, st
      <4> QED
        BY <3>1, <3>2 DEF AccountRow
    <3> QED
      BY <3>1, <3>3
  <2>3. CASE e = running[w] /\ v = "Processed"
    <3>1. log'[e] = ev
      BY <1>1, <1>2, <2>3
    <3> HIDE DEF ev, a
    <3> QED
      BY <1>2, <2>2, <2>3, <3>1 DEF Justified, Reached
  <2> QED
    BY <2>1, <2>3
<1>4. CASE /\ ~(row[a] # NoRow /\ IsNewer(row[a], ev))
           /\ row' = row /\ Finish(w, "Skipped")
  <2>1. Says(e, v) \/ (e = running[w] /\ v = "Skipped")
    BY <1>1, <1>4, FinishSays
  <2>2. a \in Opened => row'[a] # NoRow /\ row'[a].lastEventAt >= ev.at
    <3>1. a \in Opened => row[a] # NoRow /\ row[a].lastEventAt \in Nat
      BY <1>2 DEF VInv, OpenedRowsStay, IInv, TypeOK, AccountRow
    <3> QED
      BY <1>2, <1>4, <3>1 DEF IsNewer
  <2>3. CASE e = running[w] /\ v = "Skipped"
    <3>1. log'[e] = ev
      BY <1>1, <1>2, <2>3
    <3> HIDE DEF ev, a
    <3> QED
      BY <1>2, <2>2, <2>3, <3>1 DEF Justified, Reached
  <2> QED
    BY <2>1, <2>3
<1> QED
  BY <1>3, <1>4 DEF UpdateStatus

\* A transaction of an account without a row is skipped, and no account that
\* was open from the start is without one.
LEMMA LockRowSays ==
  ASSUME IInv, VInv, NEW w \in Workers, LockRow(w),
         NEW e \in EventIds, NEW v \in Terminal, Says(e, v)'
  PROVE  Says(e, v) \/ Justified(e, v)'
<1> DEFINE a == AccountOf(w)
<1>1. /\ running[w] # NoEvent /\ step[w] = "lock"
      /\ UNCHANGED <<log, audit, running, row>>
  BY DEF LockRow, At, HandlerOnly, deliveryVars, tables
<1>2. /\ Event(w) = log[running[w]] /\ a = log[running[w]].account
      /\ log[running[w]].type = "transactionCreated"
  BY <1>1, RunningEvent DEF IInv, HandlerIsSound, WorkerIsSound
<1>3. CASE row[a] = NoRow /\ Finish(w, "Skipped")
  <2>1. Says(e, v) \/ (e = running[w] /\ v = "Skipped")
    BY <1>1, <1>3, FinishSays
  <2>2. a \notin Opened
    BY <1>3 DEF VInv, OpenedRowsStay
  <2>3. CASE e = running[w] /\ v = "Skipped"
    BY <1>1, <1>2, <2>2, <2>3 DEF Justified
  <2> QED
    BY <2>1, <2>3
<1>4. CASE GoTo(w, "decide") /\ UNCHANGED outcome
  BY <1>1, <1>4, GoToSays
<1> QED
  BY <1>3, <1>4 DEF LockRow

\* What is stale or recorded has been reached: the row that was read is the
\* row, and nothing in the ledger is newer than it.
LEMMA DecideSays ==
  ASSUME IInv, VInv, NEW w \in Workers, Decide(w),
         NEW e \in EventIds, NEW v \in Terminal, Says(e, v)'
  PROVE  Says(e, v) \/ Justified(e, v)'
<1> USE LedgerAssumption
<1> DEFINE a == AccountOf(w)
           ev == Event(w)
<1>1. /\ running[w] # NoEvent /\ step[w] = "decide"
      /\ UNCHANGED <<log, audit, running, row>>
  BY DEF Decide, At, HandlerOnly, deliveryVars, tables
<1>2. /\ ev = log[running[w]] /\ a = ev.account /\ a \in Accounts /\ ev.at \in Nat
      /\ running[w] \in Published /\ running[w] \in EventIds
      /\ ev.type = "transactionCreated" /\ ev.transaction = running[w]
  BY <1>1, RunningEvent DEF IInv, HandlerIsSound, WorkerIsSound, LogIsSound
<1>3. read[w] \in AccountRow /\ row[a] = read[w] /\ row[a] # NoRow
  BY <1>1 DEF IInv, HandlerIsSound, WorkerIsSound, CheckStillHolds, ReadHolds
<1>4. CASE (IsStale(read[w], ev) \/ ledger[ev.transaction] # NoRow) /\ Finish(w, "Skipped")
  <2>1. Says(e, v) \/ (e = running[w] /\ v = "Skipped")
    BY <1>1, <1>4, FinishSays
  <2>2. row'[a] # NoRow /\ row'[a].lastEventAt >= ev.at
    <3>1. CASE IsStale(read[w], ev)
      BY <1>1, <1>3, <3>1 DEF IsStale
    <3>2. CASE ledger[running[w]] # NoRow
      <4>1. running[w] \in Recorded(a)
        BY <1>2, <3>2 DEF Recorded, IInv, LedgerIsSound
      <4>2. log[running[w]].at <= row[a].lastEventAt /\ row[a].lastEventAt \in Nat
        BY <1>2, <1>3, <4>1 DEF IInv, BalanceFollowsNewest, AccountRow
      <4> QED
        BY <1>1, <1>2, <1>3, <4>2
    <3> QED
      BY <1>2, <1>4, <3>1, <3>2
  <2>3. CASE e = running[w] /\ v = "Skipped"
    <3>1. log'[e] = ev
      BY <1>1, <1>2, <2>3
    <3> HIDE DEF ev, a
    <3> QED
      BY <1>2, <2>2, <2>3, <3>1 DEF Justified, Reached
  <2> QED
    BY <2>1, <2>3
<1>5. CASE GoTo(w, "write") /\ UNCHANGED outcome
  BY <1>1, <1>5, GoToSays
<1> QED
  BY <1>4, <1>5 DEF Decide

\* A transaction that is committed is in the ledger.
LEMMA CommitSays ==
  ASSUME IInv, VInv, NEW w \in Workers, Commit(w),
         NEW e \in EventIds, NEW v \in Terminal, Says(e, v)'
  PROVE  Says(e, v) \/ Justified(e, v)'
<1> USE LedgerAssumption
<1>1. /\ running[w] # NoEvent /\ step[w] = "write" /\ Finish(w, "Processed")
      /\ UNCHANGED <<log, audit, running>>
  BY DEF Commit, At, HandlerOnly, deliveryVars
<1>2. /\ Event(w) = log[running[w]] /\ running[w] \in EventIds
      /\ Event(w).type = "transactionCreated" /\ Event(w).transaction = running[w]
      /\ Event(w).at \in Nat /\ Event(w).balance \in Int
      /\ AccountOf(w) \in Accounts
  BY <1>1, RunningEvent DEF IInv, HandlerIsSound, WorkerIsSound, LogIsSound
<1>3. ledger'[running[w]] # NoRow
  <2> DEFINE tr == [account |-> AccountOf(w), balance |-> Event(w).balance,
                    lastEventAt |-> Event(w).at]
  <2>1. ledger' = [ledger EXCEPT ![running[w]] = tr]
    BY <1>2 DEF Commit
  <2>2. tr \in TransactionRow
    BY <1>2 DEF TransactionRow
  <2> HIDE DEF tr
  <2> QED
    BY <1>2, <2>1, <2>2 DEF IInv, TypeOK
<1>4. Says(e, v) \/ (e = running[w] /\ v = "Processed")
  BY <1>1, FinishSays
<1>5. CASE e = running[w] /\ v = "Processed"
  BY <1>1, <1>2, <1>3, <1>5, StatusEvents DEF Justified
<1> QED
  BY <1>4, <1>5

\* transaction.updated and the events nobody handles promise nothing.
LEMMA TouchTransactionSays ==
  ASSUME IInv, VInv, NEW w \in Workers, TouchTransaction(w),
         NEW e \in EventIds, NEW v \in Terminal, Says(e, v)'
  PROVE  Says(e, v) \/ Justified(e, v)'
<1>1. /\ running[w] # NoEvent /\ step[w] = "touch" /\ Finish(w, "Processed")
      /\ UNCHANGED <<log, audit, running>>
  BY DEF TouchTransaction, At, HandlerOnly, deliveryVars
<1>2. log[running[w]].type = "transactionUpdated"
  BY <1>1, RunningEvent DEF IInv, HandlerIsSound, WorkerIsSound
<1>3. Says(e, v) \/ (e = running[w] /\ v = "Processed")
  BY <1>1, FinishSays
<1>4. CASE e = running[w] /\ v = "Processed"
  BY <1>1, <1>2, <1>4, StatusEvents DEF Justified
<1> QED
  BY <1>3, <1>4

LEMMA StartHandlerSays ==
  ASSUME IInv, VInv, NEW w \in Workers, NEW f \in EventIds, StartHandler(w, f),
         NEW e \in EventIds, NEW v \in Terminal, Says(e, v)'
  PROVE  Says(e, v) \/ Justified(e, v)'
<1> DEFINE type == log[f].type
<1>1. /\ UNCHANGED <<log, audit>>
      /\ running' = [running EXCEPT ![w] = f]
      /\ step' = [step EXCEPT ![w] = FirstStep(type)]
      /\ outcome' = [outcome EXCEPT ![w] = "Processed"]
  BY DEF StartHandler, Begin, GoTo
<1>2. \/ Says(e, v)
      \/ e = f /\ v = "Processed" /\ FirstStep(type) = "mark"
  <2>1. /\ running'[w] = f /\ step'[w] = FirstStep(type) /\ outcome'[w] = "Processed"
        /\ \A u \in Workers \ {w} : /\ running'[u] = running[u] /\ step'[u] = step[u]
                                    /\ outcome'[u] = outcome[u]
    BY <1>1 DEF IInv, TypeOK, DeliveryTypeOK
  <2> QED
    BY <1>1, <2>1 DEF Says
<1>3. CASE e = f /\ v = "Processed" /\ FirstStep(type) = "mark"
  <2>1. type \notin DOMAIN ACCOUNT_STATUS_EVENTS \cup {"accountCreated", "transactionCreated"}
    BY <1>3 DEF FirstStep
  <2> QED
    BY <1>1, <1>3, <2>1 DEF Justified
<1> QED
  BY <1>2, <1>3

LEMMA MarkEventSays ==
  ASSUME IInv, NEW w \in Workers, MarkEvent(w),
         NEW e \in EventIds, NEW v \in Terminal, Says(e, v)'
  PROVE  Says(e, v)
<1>1. /\ step[w] = "mark" /\ running[w] # NoEvent
      /\ audit' = [audit EXCEPT ![running[w]] = outcome[w]]
      /\ running' = [running EXCEPT ![w] = NoEvent]
      /\ step' = [step EXCEPT ![w] = "idle"]
      /\ outcome' = [outcome EXCEPT ![w] = "Processed"]
  BY DEF MarkEvent, At, Mark, GoTo
<1>2. /\ step'[w] = "idle"
      /\ \A u \in Workers \ {w} : /\ running'[u] = running[u] /\ step'[u] = step[u]
                                  /\ outcome'[u] = outcome[u]
      /\ audit'[e] = audit[e] \/ (e = running[w] /\ audit'[e] = outcome[w])
  BY <1>1 DEF IInv, TypeOK, DeliveryTypeOK
<1> QED
  BY <1>1, <1>2 DEF Says

\* A handler that fails or dies says nothing final.
LEMMA BreakSays ==
  ASSUME IInv, NEW w \in Workers, FailHandler(w) \/ Crash(w),
         NEW e \in EventIds, NEW v \in Terminal, Says(e, v)'
  PROVE  Says(e, v)
<1>1. CASE FailHandler(w)
  <2>1. Finish(w, "Failed") /\ UNCHANGED <<audit, running>>
    BY <1>1 DEF FailHandler, deliveryVars
  <2> QED
    BY <2>1, FinishSays DEF Terminal
<1>2. CASE Crash(w)
  <2>1. /\ audit' = audit
        /\ running' = [running EXCEPT ![w] = NoEvent]
        /\ step' = [step EXCEPT ![w] = "idle"]
        /\ outcome' = [outcome EXCEPT ![w] = "Processed"]
    BY <1>2 DEF Crash, Abandon, GoTo
  <2>2. /\ step'[w] = "idle"
        /\ \A u \in Workers \ {w} : /\ running'[u] = running[u] /\ step'[u] = step[u]
                                    /\ outcome'[u] = outcome[u]
    BY <2>1 DEF IInv, TypeOK, DeliveryTypeOK
  <2> QED
    BY <2>1, <2>2 DEF Says
<1> QED
  BY <1>1, <1>2

\* Unit, the API and the endpoint give no verdict.
LEMMA OutsideSays ==
  ASSUME IInv, UNCHANGED <<running, workerVars>>, NEW e \in EventIds, NEW v \in Terminal,
         audit'[e] = audit[e] \/ audit'[e] = "Pending", Says(e, v)'
  PROVE  Says(e, v)
BY DEF Says, workerVars, Terminal

LEMMA NextSays ==
  ASSUME IInv, VInv, [Next]_vars, NEW e \in EventIds, NEW v \in Terminal, Says(e, v)'
  PROVE  Says(e, v) \/ Justified(e, v)'
<1>1. CASE UnitStep
  <2>1. UNCHANGED <<audit, running, workerVars>>
    BY <1>1 DEF UnitStep, UnitPosts, SimulateCardPurchase, UnitAmends, UnitChangesStatus,
                UnitUpdatesAccount, UnitHolds, UnitOpensElsewhere, UnitEmits, Emit, deliveryVars
  <2> QED
    BY <2>1, OutsideSays
<1>2. CASE ApiStep
  <2>1. UNCHANGED <<audit, running, workerVars>>
    BY <1>2 DEF ApiStep, CreateAccount, InsertAccount, LoseAccount, UnitEmits, Emit, deliveryVars
  <2> QED
    BY <2>1, OutsideSays
<1>3. ASSUME NEW f \in EventIds, ReceiveWebhook(f) PROVE Says(e, v)
  <2>1. UNCHANGED <<running, workerVars>> /\ audit' = [audit EXCEPT ![f] = "Pending"]
    BY <1>3 DEF ReceiveWebhook, Ingest
  <2>2. audit'[e] = audit[e] \/ audit'[e] = "Pending"
    BY <2>1 DEF IInv, TypeOK, DeliveryTypeOK
  <2> QED
    BY <2>1, <2>2, OutsideSays
<1>4. CASE Deliver
  BY <1>3, <1>4, StartHandlerSays, FindAccountSays, BackfillAccountSays, UpdateStatusSays,
     LockRowSays, DecideSays, CommitSays, TouchTransactionSays, MarkEventSays
     DEF Deliver, Handle
<1>5. CASE Break
  BY <1>5, BreakSays DEF Break
<1>6. CASE UNCHANGED vars
  BY <1>6, OutsideSays DEF vars, deliveryVars
<1> QED
  BY <1>1, <1>2, <1>4, <1>5, <1>6 DEF Next, Rest

\* An account opens only with its event.
LEMMA OpensWithEvent ==
  ASSUME IInv, [Next]_vars, NEW a \in Accounts, unit[a] = Unopened, unit'[a] # Unopened
  PROVE  \E e \in Published' : log'[e].account = a /\ log'[e].type = "accountCreated"
<1>0. TypeOK /\ unit \in [Accounts -> UnitAccount]
  BY DEF IInv, TypeOK
<1>1. unit[a].status = "None"
  BY DEF Unopened
<1>2. ASSUME UnitEmits("accountCreated", a, Len(log) + 1, JustOpened)
      PROVE  \E e \in Published' : log'[e].account = a /\ log'[e].type = "accountCreated"
  <2>1. /\ Len(log') = Len(log) + 1
        /\ log'[Len(log')].type = "accountCreated" /\ log'[Len(log')].account = a
    BY <1>0, <1>2, EmitGrowsLog, JustOpenedType DEF EventTypes
  <2>2. Len(log') \in Published'
    BY <1>0, <2>1 DEF TypeOK, Published
  <2> QED
    BY <2>1, <2>2
<1>3. ASSUME NEW b \in Accounts, CreateAccount(b) \/ UnitOpensElsewhere(b)
      PROVE  UnitEmits("accountCreated", a, Len(log) + 1, JustOpened)
  <2>1. /\ UnitEmits("accountCreated", b, Len(log) + 1, JustOpened)
        /\ unit' = [unit EXCEPT ![b] = JustOpened]
    BY <1>3 DEF CreateAccount, UnitOpensElsewhere, UnitEmits
  <2>2. a = b
    BY <1>0, <2>1
  <2> QED
    BY <2>1, <2>2
<1>4. ASSUME NEW b \in Accounts, NEW u, unit' = [unit EXCEPT ![b] = u],
             unit[b].status # "None"
      PROVE  FALSE
  BY <1>0, <1>1, <1>4
<1>5. ASSUME NEW b \in Accounts, NEW amount \in Amounts,
             UnitPosts(b, amount) \/ SimulateCardPurchase(b, amount)
      PROVE  FALSE
  BY <1>4, <1>5 DEF SimulateCardPurchase, UnitPosts, UnitEmits
<1>6. ASSUME NEW t \in EventIds, UnitAmends(t) PROVE FALSE
  <2>1. log[t].account \in Accounts /\ unit[log[t].account].status # "None"
    BY <1>0, <1>6, LoggedEvents DEF UnitAmends, IInv, LogIsSound
  <2> QED
    BY <1>4, <1>6, <2>1 DEF UnitAmends, UnitEmits
<1>7. ASSUME NEW b \in Accounts, NEW type \in DOMAIN ACCOUNT_STATUS_EVENTS,
             UnitChangesStatus(b, type)
      PROVE  FALSE
  BY <1>4, <1>7 DEF UnitChangesStatus, UnitEmits
<1>8. ASSUME NEW b \in Accounts, UnitUpdatesAccount(b) PROVE FALSE
  BY <1>4, <1>8 DEF UnitUpdatesAccount, UnitEmits
<1>9. ASSUME NEW b \in Accounts, NEW amount \in Holds, UnitHolds(b, amount) PROVE FALSE
  <2>1. unit' = [unit EXCEPT ![b].hold = amount] /\ unit[b].status # "None"
    BY <1>9 DEF UnitHolds
  <2> QED
    BY <1>0, <1>1, <2>1
<1>10. CASE UnitStep
  BY <1>2, <1>3, <1>5, <1>6, <1>7, <1>8, <1>9, <1>10 DEF UnitStep
<1>11. CASE ApiStep
  BY <1>2, <1>3, <1>11 DEF ApiStep, InsertAccount, LoseAccount
<1>12. CASE Deliver \/ Break \/ Rest \/ UNCHANGED vars
  BY <1>12 DEF Deliver, ReceiveWebhook, StartHandler, Handle, FindAccount, BackfillAccount,
     UpdateStatus, LockRow, Decide, Commit, TouchTransaction, MarkEvent, HandlerOnly, Break,
     FailHandler, Crash, Rest, vars
<1> QED
  BY <1>10, <1>11, <1>12 DEF Next

\* The backfill starts with account.created, and goes on with it.
LEMMA BackfillsStayAnnounced ==
  ASSUME IInv, VInv, LogGrows, [Next]_vars PROVE BackfillsAreAnnounced'
<1>1. SUFFICES ASSUME NEW w \in Workers, step'[w] \in {"backfill", "insert"}
      PROVE  log'[running'[w]].type = "accountCreated"
  BY DEF BackfillsAreAnnounced, Event
<1>2. ASSUME step'[w] = step[w], running'[w] = running[w]
      PROVE  log'[running'[w]].type = "accountCreated"
  BY <1>1, <1>2 DEF LogGrows, VInv, BackfillsAreAnnounced, Event, IInv, OnlyPublished,
                    HandlerIsSound, WorkerIsSound
<1>3. CASE UnitStep \/ ApiStep
  BY <1>2, <1>3
     DEF UnitStep, UnitPosts, SimulateCardPurchase, UnitAmends, UnitChangesStatus,
         UnitUpdatesAccount, UnitHolds, UnitOpensElsewhere, UnitEmits, Emit, deliveryVars,
         ApiStep, CreateAccount, InsertAccount, LoseAccount, workerVars
<1>4. ASSUME NEW e \in EventIds, ReceiveWebhook(e)
      PROVE  log'[running'[w]].type = "accountCreated"
  BY <1>2, <1>4 DEF ReceiveWebhook, Ingest, workerVars
<1>5. ASSUME NEW u \in Workers, NEW s, GoTo(u, s), s \notin {"backfill", "insert"},
             \A x \in Workers \ {u} : running'[x] = running[x]
      PROVE  log'[running'[w]].type = "accountCreated"
  <2>1. w # u /\ step'[w] = step[w]
    BY <1>1, <1>5 DEF GoTo, IInv, TypeOK
  <2> QED
    BY <1>2, <1>5, <2>1
<1>6. ASSUME NEW u \in Workers, NEW e \in EventIds, StartHandler(u, e)
      PROVE  log'[running'[w]].type = "accountCreated"
  <2>1. /\ log' = log /\ running' = [running EXCEPT ![u] = e]
        /\ GoTo(u, FirstStep(log[e].type))
    BY <1>6 DEF StartHandler, Begin
  <2>2. /\ running'[u] = e /\ step'[u] = FirstStep(log[e].type)
        /\ \A x \in Workers \ {u} : running'[x] = running[x] /\ step'[x] = step[x]
    BY <2>1 DEF IInv, TypeOK, DeliveryTypeOK, GoTo
  <2>3. FirstStep(log[e].type) \in {"backfill", "insert"} => log[e].type = "accountCreated"
    BY DEF FirstStep
  <2> QED
    BY <1>1, <1>2, <2>1, <2>2, <2>3
<1>7. ASSUME NEW u \in Workers, FindAccount(u)
      PROVE  log'[running'[w]].type = "accountCreated"
  <2>1. UNCHANGED <<log, running>> /\ step[u] = "backfill"
    BY <1>7 DEF FindAccount, HandlerOnly, deliveryVars, At
  <2>2. \E s \in Steps : GoTo(u, s)
    BY <1>7 DEF FindAccount, Finish, Steps
  <2>3. CASE w = u
    BY <2>1, <2>3 DEF VInv, BackfillsAreAnnounced, Event
  <2>4. CASE w # u
    BY <1>2, <2>1, <2>2, <2>4 DEF GoTo, IInv, TypeOK
  <2> QED
    BY <2>3, <2>4
<1>8. ASSUME NEW u \in Workers,
             BackfillAccount(u) \/ UpdateStatus(u) \/ LockRow(u) \/ Decide(u) \/ Commit(u)
               \/ TouchTransaction(u) \/ MarkEvent(u) \/ FailHandler(u) \/ Crash(u)
      PROVE  log'[running'[w]].type = "accountCreated"
  <2>1. \E s \in {"mark", "idle", "decide", "write"} : GoTo(u, s)
    BY <1>8 DEF BackfillAccount, UpdateStatus, LockRow, Decide, Commit, TouchTransaction,
                MarkEvent, FailHandler, Crash, Finish
  <2>2. running' = running \/ running' = [running EXCEPT ![u] = NoEvent]
    BY <1>8 DEF BackfillAccount, UpdateStatus, LockRow, Decide, Commit, TouchTransaction,
                MarkEvent, FailHandler, Crash, HandlerOnly, deliveryVars, Mark, Abandon
  <2>3. \A x \in Workers \ {u} : running'[x] = running[x]
    BY <2>2 DEF IInv, TypeOK, DeliveryTypeOK
  <2> QED
    BY <1>5, <2>1, <2>3
<1>9. CASE Rest \/ UNCHANGED vars
  BY <1>2, <1>9 DEF Rest, vars, deliveryVars, workerVars
<1> QED
  BY <1>3, <1>4, <1>6, <1>7, <1>8, <1>9 DEF Next, Deliver, Handle, Break

LEMMA NextVInv == ASSUME IInv, VInv, [Next]_vars PROVE VInv'
<1> USE LedgerAssumption
<1>1. TablesGrow /\ LogGrows
  BY NextTablesGrow, NextLogGrows
<1>2. IInv' /\ TypeOK'
  BY NextIInv DEF IInv
<1>3. VerdictsAreJustified'
  <2>1. ASSUME NEW e \in Published', NEW v \in Terminal, Says(e, v)'
        PROVE  Justified(e, v)'
    <3>1. e \in EventIds
      BY <1>2, DeliveryAssumption DEF TypeOK, DeliveryTypeOK, Published, EventIds
    <3>2. CASE Says(e, v)
      <4>1. e \in Published
        <5>1. e # NoEvent
          BY <3>1, DeliveryAssumption DEF EventIds, NoEvent
        <5> QED
          BY <3>1, <3>2, <5>1 DEF Says, IInv, OnlyPublished, Terminal
      <4>2. Justified(e, v)
        BY <3>2, <4>1 DEF VInv, VerdictsAreJustified
      <4> QED
        BY <1>1, <1>2, <4>1, <4>2, JustifiedStays
    <3> QED
      BY <2>1, <3>1, <3>2, NextSays
  <2> QED
    BY <2>1 DEF VerdictsAreJustified
<1>4. AccountsAreAnnounced'
  <2>1. ASSUME NEW a \in Accounts, unit'[a] # Unopened
        PROVE  \/ row'[a] # NoRow
               \/ \E e \in Published' : log'[e].account = a /\ log'[e].type = "accountCreated"
    <3>1. CASE unit[a] = Unopened
      BY <2>1, <3>1, OpensWithEvent
    <3>2. CASE unit[a] # Unopened
      BY <1>1, <3>2 DEF VInv, AccountsAreAnnounced, TablesGrow, LogGrows
    <3> QED
      BY <3>1, <3>2
  <2> QED
    BY <2>1 DEF AccountsAreAnnounced
<1>5. OpenedRowsStay'
  BY <1>1 DEF VInv, OpenedRowsStay, TablesGrow
<1>6. BackfillsAreAnnounced'
  BY <1>1, BackfillsStayAnnounced
<1> QED
  BY <1>3, <1>4, <1>5, <1>6 DEF VInv

\* No execution writes a verdict, or is about to, that the tables deny.
THEOREM VerdictInvariance == Spec => []VInv
<1>1. Init => VInv
  BY InitVInv
<1>2. IInv /\ VInv /\ [Next]_vars => VInv'
  BY NextVInv
<1> QED
  BY <1>1, <1>2, Invariance, PTL DEF Spec

\* What the audit table says of an event was done, or was not needed.
THEOREM AuditIsTrue == Spec => []VerdictsAreTrue
<1>1. IInv /\ VInv => VerdictsAreTrue
  BY DEF VInv, VerdictsAreJustified, VerdictsAreTrue, Says, Justified, Reached, Terminal
<1> QED
  BY <1>1, Invariance, VerdictInvariance, PTL

\* However POST /accounts ends, an account whose events are dealt with has its
\* row: account.created brought it.
THEOREM BackfillIsSafetyNet == Spec => []NoAccountLost
<1>1. IInv /\ VInv => NoAccountLost
  <2> SUFFICES ASSUME IInv, VInv, NEW a \in Known, Settled(a), unit[a] # Unopened,
                      row[a] = NoRow
               PROVE  FALSE
    BY DEF NoAccountLost
  <2>1. a \in Accounts
    BY LedgerAssumption
  <2>2. PICK e \in Published : log[e].account = a /\ log[e].type = "accountCreated"
    BY <2>1 DEF VInv, AccountsAreAnnounced
  <2>3. audit[e] \in Terminal
    BY <2>2 DEF Settled
  <2>4. Justified(e, audit[e])
    BY <2>2, <2>3 DEF VInv, VerdictsAreJustified, Says
  <2> QED
    BY <2>2, <2>4 DEF Justified
<1> QED
  BY <1>1, Invariance, VerdictInvariance, PTL

\* A row never goes away and its stamp is never set back, and a recorded
\* transaction stays recorded.
THEOREM RecordsStay == Spec => [][TablesGrow /\ LogGrows]_vars
<1>1. IInv /\ [Next]_vars => TablesGrow /\ LogGrows
  BY NextTablesGrow, NextLogGrows
<1> QED
  BY <1>1, Invariance, PTL DEF Spec

-----------------------------------------------------------------------------
(* When a balance is right.  BalanceNotCorrupted does not hold in general  *)
(* (the run balance_lost_to_freeze); what does, for any constants, is that *)
(* a settled row differs from Unit for one of two reasons only.  MInv says *)
(* where Unit's balances and the stamps of the rows come from.             *)

\* The transactions Unit has posted to account a.
Postings(a) ==
  {e \in Published : log[e].account = a /\ log[e].type = "transactionCreated"}

IsNewestPosting(a, e) == e \in Postings(a) /\ \A f \in Postings(a) : f <= e

\* Unit stamps events in the order it publishes them.
LogIsOrdered ==
  \A i, j \in Published : i < j =>
    log[i].at <= log[j].at /\ (0 \notin Gaps => log[i].at < log[j].at)

LogIsOfKinds == \A e \in Published : log[e].type \in Kinds

\* An account's balance at Unit is what its last transaction left.
UnitFollowsLog ==
  \A a \in Accounts :
    /\ Postings(a) = {} => unit[a].balance = 0
    /\ \A e \in Published : IsNewestPosting(a, e) => unit[a].balance = log[e].balance

\* As long as there is none, nobody here knows another balance than 0.
BalancesStartAtZero ==
  \A a \in Accounts : Postings(a) = {} =>
    /\ row[a] # NoRow => row[a].balance = 0
    /\ \A w \in Workers : step[w] = "insert" /\ AccountOf(w) = a => read[w].balance = 0

RecordsArePostings ==
  \A e \in EventIds : ledger[e] # NoRow => log[e].type = "transactionCreated"

\* Event f has set the stamp of the row of a.
HasStamped(a, f) ==
  /\ f \in Published /\ log[f].account = a
  /\ row[a].lastEventAt = log[f].at
  /\ log[f].type \in DOMAIN ACCOUNT_STATUS_EVENTS \/ ledger[f] # NoRow

StampIsOfEvent ==
  \A a \in Accounts : row[a] # NoRow /\ row[a].lastEventAt # Never =>
    \E f \in Published : HasStamped(a, f)

MInv ==
  /\ LogIsOrdered /\ LogIsOfKinds /\ UnitFollowsLog
  /\ BalancesStartAtZero
  /\ RecordsArePostings /\ StampIsOfEvent

\* Transaction e of account a was dropped: when it was handled, the row had the
\* stamp of another event that is not older.
WasOvertaken(a, e) ==
  /\ audit[e] = "Skipped" /\ ledger[e] = NoRow
  /\ \E f \in Published \ {e} : HasStamped(a, f) /\ log[f].at >= log[e].at

\* Once the events of an account are dealt with, its row has Unit's balance,
\* but for one whose last transaction came before the row or was overtaken.
BalancesAreAccountedFor ==
  \A a \in Accounts : Settled(a) /\ row[a] # NoRow =>
    \/ row[a].balance = unit[a].balance
    \/ CameTooEarly(a)
    \/ \E e \in Published : IsNewestPosting(a, e) /\ WasOvertaken(a, e)

\* Where the stamp of a row can come from.
LEMMA RowMoves ==
  ASSUME IInv, [Next]_vars, NEW a \in Accounts, row'[a] # row[a]
  PROVE  \/ row[a] = NoRow /\ row'[a].lastEventAt = Never
         \/ /\ row[a] # NoRow
            /\ \E e \in Published :
                 /\ log[e].account = a /\ row'[a].lastEventAt = log[e].at
                 /\ \/ log[e].type \in DOMAIN ACCOUNT_STATUS_EVENTS
                       /\ row'[a].balance = row[a].balance
                    \/ log[e].type = "transactionCreated" /\ ledger'[e] # NoRow
<1> USE LedgerAssumption
<1>0. /\ row \in [Accounts -> AccountRow \cup {NoRow}]
      /\ ledger \in [EventIds -> TransactionRow \cup {NoRow}]
      /\ row' \in [Accounts -> AccountRow \cup {NoRow}]
      /\ ledger' \in [EventIds -> TransactionRow \cup {NoRow}]
      /\ log \in Seq(UnitEvent) /\ DOMAIN log = Published /\ Published \subseteq EventIds
      /\ DOMAIN row = Accounts
  BY NextIInv, DeliveryAssumption DEF IInv, TypeOK, DeliveryTypeOK, Published, EventIds
<1>1. \A e \in Published : log[e].account \in Accounts
  BY LoggedEvents DEF IInv
<1>2. ASSUME NEW e \in Published, Atomic!ApplyTransaction(e), log[e].account = a
      PROVE  /\ row[a] # NoRow /\ row'[a].lastEventAt = log[e].at
             /\ log[e].type = "transactionCreated" /\ ledger'[e] # NoRow
  <2> DEFINE at == log[e].at
             b == log[e].balance
             av == b - row[a].hold
             l == [account |-> a, balance |-> b, lastEventAt |-> at]
  <2>1. /\ row' = [row EXCEPT ![a] = [@ EXCEPT !.balance = b, !.available = av,
                                               !.lastEventAt = at]]
        /\ ledger' = [ledger EXCEPT ![e] = l]
        /\ row[a] # NoRow /\ log[e].type = "transactionCreated"
    BY <1>2 DEF Atomic!ApplyTransaction
  <2>2. row[a] \in AccountRow
    BY <1>0, <2>1
  <2>3. l.account = a
    OBVIOUS
  <2> HIDE DEF at, b, av, l
  <2>4. row'[a].lastEventAt = at
    BY <1>0, <2>1, <2>2 DEF AccountRow
  <2>5. ledger'[e] = l /\ ledger'[e] \in TransactionRow \cup {NoRow}
    BY <1>0, <2>1
  <2>6. l # NoRow
    <3>1. l \in TransactionRow
      <4>1. log[e] \in UnitEvent
        BY <1>0, <1>2
      <4>2. b \in Int /\ at \in Nat
        BY <4>1 DEF b, at, UnitEvent
      <4> QED
        BY <4>2 DEF l, TransactionRow
    <3> QED
      BY <3>1
  <2> QED
    BY <2>1, <2>4, <2>5, <2>6 DEF at
<1>3. ASSUME NEW e \in Published, Atomic!ApplyStatus(e), log[e].account = a
      PROVE  /\ row[a] # NoRow /\ row'[a].lastEventAt = log[e].at
             /\ log[e].type \in DOMAIN ACCOUNT_STATUS_EVENTS
             /\ row'[a].balance = row[a].balance
  <2> DEFINE at == log[e].at
             st == Atomic!StatusAfter[log[e].type]
  <2>1. /\ row' = [row EXCEPT ![a] = [@ EXCEPT !.status = st, !.lastEventAt = at]]
        /\ row[a] # NoRow /\ log[e].type \in DOMAIN ACCOUNT_STATUS_EVENTS
    BY <1>3 DEF Atomic!ApplyStatus, Atomic!StatusAfter, ACCOUNT_STATUS_EVENTS
  <2>2. row[a] \in AccountRow
    BY <1>0, <2>1
  <2> HIDE DEF at, st
  <2>3. row'[a].lastEventAt = at /\ row'[a].balance = row[a].balance
    BY <1>0, <2>1, <2>2 DEF AccountRow
  <2> QED
    BY <2>1, <2>3 DEF at
<1>4. ASSUME NEW b \in Accounts, Atomic!StoreAccount(b)
      PROVE  row[a] = NoRow /\ row'[a].lastEventAt = Never
  <2>1. a = b
    BY <1>0, <1>4 DEF Atomic!StoreAccount
  <2> QED
    BY <1>4, <2>1 DEF Atomic!StoreAccount, Never
<1>5. ASSUME NEW e \in Published, Atomic!ApplyTransaction(e) \/ Atomic!ApplyStatus(e)
      PROVE  log[e].account = a
  BY <1>0, <1>1, <1>5 DEF Atomic!ApplyTransaction, Atomic!ApplyStatus
<1>6. [Atomic!AtomicNext]_(Atomic!atomicVars)
  BY NextRefines
<1>7. \/ \E e \in Published : Atomic!ApplyTransaction(e) \/ Atomic!ApplyStatus(e)
      \/ \E b \in Accounts : Atomic!StoreAccount(b)
  BY <1>0, <1>6 DEF Atomic!AtomicNext, Atomic!atomicVars, Atomic!UnitPublishes,
                    Atomic!RestampTransaction
<1> QED
  BY <1>2, <1>3, <1>4, <1>5, <1>7

\* A row of the ledger comes from a posting.
LEMMA RecordsMove ==
  ASSUME IInv, [Next]_vars, NEW e \in EventIds, ledger[e] = NoRow, ledger'[e] # NoRow
  PROVE  e \in Published /\ log[e].type = "transactionCreated"
<1> USE LedgerAssumption
<1>0. /\ ledger \in [EventIds -> TransactionRow \cup {NoRow}]
      /\ DOMAIN log = Published
  BY DEF IInv, TypeOK, Published
<1>1. ASSUME NEW f \in Published, Atomic!ApplyTransaction(f)
      PROVE  e \in Published /\ log[e].type = "transactionCreated"
  <2>1. log[f].type = "transactionCreated" /\ \A g \in EventIds \ {f} : ledger'[g] = ledger[g]
    BY <1>0, <1>1 DEF Atomic!ApplyTransaction
  <2> QED
    BY <1>1, <2>1
<1>2. ASSUME NEW f \in Published, Atomic!RestampTransaction(f) PROVE FALSE
  BY <1>0, <1>2 DEF Atomic!RestampTransaction
<1>3. [Atomic!AtomicNext]_(Atomic!atomicVars)
  BY NextRefines
<1> QED
  BY <1>0, <1>1, <1>2, <1>3 DEF Atomic!AtomicNext, Atomic!atomicVars, Atomic!UnitPublishes,
                    Atomic!ApplyStatus, Atomic!StoreAccount

\* What Unit publishes next: no older than what it has published before.
LEMMA EmittedEvent ==
  ASSUME TypeOK, NEW type \in EventTypes, NEW a \in Accounts, NEW t,
         NEW u \in UnitAccount, t \in EventIds \/ t = Len(log) + 1,
         UnitEmits(type, a, t, u)
  PROVE  /\ log'[Len(log')].balance = u.balance
         /\ log'[Len(log')].at >= LastAt
         /\ 0 \notin Gaps => log'[Len(log')].at > LastAt
         /\ type \in Kinds /\ unit' = [unit EXCEPT ![a] = u]
<1> USE LedgerAssumption
<1>1. PICK gap \in Gaps :
        LET at == IF LastAt + gap = Never THEN 1 ELSE LastAt + gap
        IN Emit([type |-> type, account |-> a, transaction |-> t,
                 at |-> at, balance |-> u.balance])
  BY DEF UnitEmits
<1> DEFINE at == IF LastAt + gap = Never THEN 1 ELSE LastAt + gap
           ev == [type |-> type, account |-> a, transaction |-> t,
                  at |-> at, balance |-> u.balance]
<1>2. gap \in Nat /\ LastAt \in Nat
  BY LastAtType
<1>3. at >= LastAt /\ (gap # 0 => at > LastAt)
  BY <1>2 DEF Never
<1>4. log' = Append(log, ev) /\ ev.at = at /\ ev.balance = u.balance
  BY <1>1 DEF Emit
<1> HIDE DEF ev, at
<1>5. log'[Len(log')] = ev
  BY <1>4 DEF TypeOK
<1> QED
  BY <1>1, <1>3, <1>4, <1>5 DEF UnitEmits

\* A step publishes an event of an account, of a type and with a balance that
\* fit, or leaves the log and Unit's balances alone.
Publishes(type, a, t, u) ==
  /\ t \in EventIds \/ t = Len(log) + 1
  /\ type # "transactionCreated" => u.balance = unit[a].balance
  /\ UnitEmits(type, a, t, u)
  /\ UNCHANGED <<tables, workerVars>>

LEMMA NextPublishes ==
  ASSUME IInv, [Next]_vars
  PROVE  \/ log' = log /\ \A a \in Accounts : unit'[a].balance = unit[a].balance
         \/ \E type \in EventTypes, a \in Accounts, u \in UnitAccount :
              \E t : Publishes(type, a, t, u)
<1>0. unit \in [Accounts -> UnitAccount]
  BY DEF IInv, TypeOK
<1>1. ASSUME NEW a \in Accounts, NEW amount \in Amounts, UnitPosts(a, amount)
      PROVE  \E u \in UnitAccount : Publishes("transactionCreated", a, Len(log) + 1, u)
  <2> DEFINE b == unit[a].balance + amount
             u == [unit[a] EXCEPT !.balance = b]
  <2>1. unit[a] \in UnitAccount /\ b \in Int
    BY <1>0, LedgerAssumption DEF UnitAccount
  <2>2. UnitEmits("transactionCreated", a, Len(log) + 1, u) /\ UNCHANGED <<tables, workerVars>>
    BY <1>1 DEF UnitPosts
  <2> HIDE DEF b
  <2>3. u \in UnitAccount
    BY <2>1 DEF UnitAccount
  <2> HIDE DEF u
  <2> QED
    BY <2>2, <2>3 DEF Publishes
<1>2. ASSUME NEW t \in EventIds, UnitAmends(t)
      PROVE  \E a \in Accounts : Publishes("transactionUpdated", a, t, unit[a])
  <2>1. log[t].account \in Accounts
    BY <1>2, LoggedEvents DEF UnitAmends, IInv
  <2> QED
    BY <1>2, <2>1 DEF UnitAmends, Publishes
<1>3. ASSUME NEW a \in Accounts, NEW type \in DOMAIN ACCOUNT_STATUS_EVENTS,
             UnitChangesStatus(a, type)
      PROVE  \E u \in UnitAccount : Publishes(type, a, Len(log) + 1, u)
  <2> DEFINE st == ACCOUNT_STATUS_EVENTS[type]
             u == [unit[a] EXCEPT !.status = st]
  <2>1. unit[a] \in UnitAccount /\ st \in AccountStatus
    BY <1>0, StatusEvents
  <2>2. UnitEmits(type, a, Len(log) + 1, u) /\ UNCHANGED <<tables, workerVars>>
    BY <1>3 DEF UnitChangesStatus
  <2> HIDE DEF st
  <2>3. u \in UnitAccount /\ u.balance = unit[a].balance
    BY <2>1 DEF UnitAccount
  <2> HIDE DEF u
  <2> QED
    BY <2>2, <2>3 DEF Publishes
<1>4. ASSUME NEW a \in Accounts, UnitUpdatesAccount(a)
      PROVE  Publishes("accountUpdated", a, Len(log) + 1, unit[a])
  BY <1>4 DEF UnitUpdatesAccount, Publishes
<1>5. ASSUME NEW a \in Accounts, NEW amount \in Holds, UnitHolds(a, amount)
      PROVE  log' = log /\ \A x \in Accounts : unit'[x].balance = unit[x].balance
  <2>1. log' = log /\ unit' = [unit EXCEPT ![a].hold = amount]
    BY <1>5 DEF UnitHolds, deliveryVars
  <2> QED
    BY <1>0, <2>1 DEF UnitAccount
<1>6. ASSUME NEW a \in Accounts, UnitOpensElsewhere(a) \/ CreateAccount(a)
      PROVE  Publishes("accountCreated", a, Len(log) + 1, JustOpened)
  <2>1. unit[a].balance = 0 /\ JustOpened.balance = 0
    BY <1>6 DEF UnitOpensElsewhere, CreateAccount, Unopened, JustOpened
  <2> QED
    BY <1>6, <2>1 DEF UnitOpensElsewhere, CreateAccount, Publishes
<1>7. ASSUME NEW a \in Accounts, NEW amount \in Amounts, SimulateCardPurchase(a, amount)
      PROVE  UnitPosts(a, amount)
  BY <1>7 DEF SimulateCardPurchase
<1>8. \A type \in DOMAIN ACCOUNT_STATUS_EVENTS : type \in EventTypes
  BY DEF EventTypes
<1>9. CASE UnitStep
  <2>1. JustOpened \in UnitAccount
    BY JustOpenedType
  <2> QED
    BY <1>0, <1>1, <1>2, <1>3, <1>4, <1>5, <1>6, <1>7, <1>8, <1>9, <2>1
       DEF UnitStep, EventTypes
<1>10. CASE ApiStep
  <2>1. JustOpened \in UnitAccount
    BY JustOpenedType
  <2>2. ASSUME NEW a \in Accounts, InsertAccount(a) \/ LoseAccount(a)
        PROVE  log' = log /\ unit' = unit
    BY <2>2 DEF InsertAccount, LoseAccount, deliveryVars
  <2> QED
    BY <1>6, <1>10, <2>1, <2>2 DEF ApiStep, EventTypes
<1>11. CASE Deliver \/ Break \/ Rest \/ UNCHANGED vars
  <2>1. log' = log /\ unit' = unit
    BY <1>11 DEF Deliver, ReceiveWebhook, Ingest, StartHandler, Begin, Handle, FindAccount,
       BackfillAccount, UpdateStatus, LockRow, Decide, Commit, TouchTransaction, MarkEvent,
       Mark, HandlerOnly, deliveryVars, Break, FailHandler, Crash, Abandon, Rest, vars
  <2> QED
    BY <2>1
<1> QED
  BY <1>9, <1>10, <1>11 DEF Next

\* Unit's balances go with its log.
LEMMA LogMInv ==
  ASSUME IInv, MInv, [Next]_vars
  PROVE  (LogIsOrdered /\ LogIsOfKinds /\ UnitFollowsLog)'
<1>0. TypeOK /\ log \in Seq(UnitEvent) /\ Len(log) \in Nat /\ unit \in [Accounts -> UnitAccount]
  BY DEF IInv, TypeOK
<1>1. CASE log' = log /\ \A a \in Accounts : unit'[a].balance = unit[a].balance
  BY <1>1 DEF MInv, LogIsOrdered, LogIsOfKinds, UnitFollowsLog, IsNewestPosting, Postings,
              Published
<1>2. ASSUME NEW type \in EventTypes, NEW a \in Accounts, NEW u \in UnitAccount, NEW t,
             Publishes(type, a, t, u)
      PROVE  (LogIsOrdered /\ LogIsOfKinds /\ UnitFollowsLog)'
  <2> DEFINE n == Len(log) + 1
  <2>1. /\ Len(log') = n /\ \A i \in Published : log'[i] = log[i]
        /\ log'[n].type = type /\ log'[n].account = a
    BY <1>0, <1>2, EmitGrowsLog DEF Publishes
  <2>2. /\ log'[n].balance = u.balance /\ log'[n].at >= LastAt
        /\ 0 \notin Gaps => log'[n].at > LastAt
        /\ type \in Kinds /\ unit' = [unit EXCEPT ![a] = u]
    BY <1>0, <1>2, <2>1, EmittedEvent DEF Publishes
  <2>3. Published' = Published \cup {n} /\ n \notin Published /\ \A i \in Published : i < n
    BY <1>0, <2>1 DEF Published
  <2>4. LogIsOrdered'
    <3>1. ASSUME NEW i \in Published
          PROVE  log[i].at <= log'[n].at /\ (0 \notin Gaps => log[i].at < log'[n].at)
      <4>1. Len(log) \in Published /\ LastAt = log[Len(log)].at /\ i <= Len(log)
        BY <1>0, <3>1 DEF Published, LastAt
      <4>2. log[i].at \in Nat /\ LastAt \in Nat
        BY <1>0, <4>1, LoggedEvents
      <4>3. log[i].at <= LastAt
        <5>1. CASE i = Len(log)
          BY <4>1, <4>2, <5>1
        <5>2. CASE i < Len(log)
          BY <4>1, <5>2 DEF MInv, LogIsOrdered
        <5> QED
          BY <1>0, <4>1, <5>1, <5>2 DEF Published
      <4>4. log'[n].at \in Nat
        <5>1. log' \in Seq(UnitEvent) /\ n \in 1..Len(log')
          BY <2>3, NextIInv DEF IInv, TypeOK, Published
        <5>2. log'[n] \in UnitEvent
          BY <5>1
        <5> QED
          BY <5>2 DEF UnitEvent
      <4> QED
        BY <2>2, <4>2, <4>3, <4>4
    <3>2. \A i, j \in Published : log'[i] = log[i] /\ log'[j] = log[j]
      BY <2>1
    <3>3. SUFFICES ASSUME NEW i \in Published', NEW j \in Published', i < j
          PROVE  log'[i].at <= log'[j].at /\ (0 \notin Gaps => log'[i].at < log'[j].at)
      BY DEF LogIsOrdered
    <3>4. CASE j \in Published
      <4>1. i \in Published
        BY <1>0, <2>3, <3>3, <3>4 DEF Published
      <4> QED
        BY <3>2, <3>3, <3>4, <4>1 DEF MInv, LogIsOrdered
    <3>5. CASE j = n
      <4>1. i \in Published
        BY <1>0, <2>3, <3>3, <3>5
      <4> QED
        BY <3>1, <3>2, <3>5, <4>1
    <3> QED
      BY <2>3, <3>4, <3>5
  <2>5. LogIsOfKinds'
    BY <2>1, <2>2, <2>3 DEF MInv, LogIsOfKinds
  <2>6. ASSUME NEW x \in Accounts, type = "transactionCreated", x = a
        PROVE  /\ Postings(x)' # {}
               /\ \A e \in Published' : IsNewestPosting(x, e)' => unit'[x].balance = log'[e].balance
    <3>1. n \in Postings(x)'
      BY <2>1, <2>3, <2>6 DEF Postings
    <3>2. ASSUME NEW e \in Published', IsNewestPosting(x, e)' PROVE e = n
      <4>1. n <= e
        BY <3>1, <3>2 DEF IsNewestPosting
      <4> QED
        BY <1>0, <2>3, <4>1 DEF Published
    <3>3. unit'[x].balance = log'[n].balance
      BY <1>0, <2>2, <2>6
    <3> QED
      BY <3>1, <3>2, <3>3
  <2>7. ASSUME NEW x \in Accounts, type # "transactionCreated" \/ x # a
        PROVE  Postings(x)' = Postings(x) /\ unit'[x].balance = unit[x].balance
    <3>1. Postings(x)' = Postings(x)
      BY <2>1, <2>3, <2>7 DEF Postings
    <3> QED
      BY <1>0, <1>2, <2>2, <2>7, <3>1 DEF Publishes
  <2>8. UnitFollowsLog'
    <3>1. SUFFICES ASSUME NEW x \in Accounts
          PROVE  /\ Postings(x)' = {} => unit'[x].balance = 0
                 /\ \A e \in Published' : IsNewestPosting(x, e)' => unit'[x].balance = log'[e].balance
      BY DEF UnitFollowsLog
    <3>2. CASE type # "transactionCreated" \/ x # a
      <4>1. Postings(x)' = Postings(x) /\ unit'[x].balance = unit[x].balance
        BY <2>7, <3>2
      <4>2. ASSUME NEW e \in Published', IsNewestPosting(x, e)'
            PROVE  unit'[x].balance = log'[e].balance
        <5>1. IsNewestPosting(x, e) /\ e \in Published
          BY <4>1, <4>2 DEF IsNewestPosting, Postings
        <5> QED
          BY <2>1, <4>1, <5>1 DEF MInv, UnitFollowsLog
      <4> QED
        BY <4>1, <4>2 DEF MInv, UnitFollowsLog
    <3> QED
      BY <2>6, <3>2
  <2> QED
    BY <2>4, <2>5, <2>8
<1> QED
  BY <1>1, <1>2, NextPublishes

\* A new row has the balance that was fetched for it, or none.
LEMMA RowsStart ==
  ASSUME IInv, [Next]_vars, NEW a \in Accounts, row[a] = NoRow, row'[a] # NoRow
  PROVE  \/ row'[a].balance = 0
         \/ \E w \in Workers : step[w] = "insert" /\ AccountOf(w) = a /\ row'[a] = read[w]
<1>0. row \in [Accounts -> AccountRow \cup {NoRow}] /\ NoRow \notin AccountRow
  BY LedgerAssumption DEF IInv, TypeOK
<1>1. ASSUME NEW b \in Accounts, InsertAccount(b) PROVE row'[a].balance = 0
  <2>1. row' = [row EXCEPT ![b] = CreatedRow(JustOpened)] /\ a = b
    BY <1>0, <1>1 DEF InsertAccount
  <2> QED
    BY <1>0, <2>1 DEF CreatedRow, JustOpened
<1>2. ASSUME NEW w \in Workers, BackfillAccount(w)
      PROVE  step[w] = "insert" /\ AccountOf(w) = a /\ row'[a] = read[w]
  <2>1. step[w] = "insert" /\ row' = [row EXCEPT ![AccountOf(w)] = read[w]]
    BY <1>0, <1>2 DEF BackfillAccount, At
  <2> QED
    BY <1>0, <2>1
<1>3. ASSUME NEW w \in Workers, UpdateStatus(w) \/ Commit(w) PROVE FALSE
  <2> DEFINE b == AccountOf(w)
  <2>1. running[w] # NoEvent
    BY <1>3 DEF UpdateStatus, Commit, At
  <2>2. b \in Accounts
    BY <2>1, RunningEvent
  <2>3. row' = row \/ (row[b] # NoRow /\ \A x \in Accounts \ {b} : row'[x] = row[x])
    <3>1. CASE UpdateStatus(w)
      BY <1>0, <3>1 DEF UpdateStatus
    <3>2. CASE Commit(w)
      <4>1. read[w] \in AccountRow /\ row[b] = read[w]
        BY <3>2 DEF Commit, At, IInv, HandlerIsSound, WorkerIsSound, CheckStillHolds, ReadHolds
      <4> QED
        BY <1>0, <3>2, <4>1 DEF Commit
    <3> QED
      BY <1>3, <3>1, <3>2
  <2> QED
    BY <2>2, <2>3
<1>4. CASE \/ UnitStep \/ Break \/ Rest \/ UNCHANGED vars
           \/ \E b \in Accounts : CreateAccount(b) \/ LoseAccount(b)
           \/ \E e \in EventIds : ReceiveWebhook(e)
           \/ \E w \in Workers, e \in EventIds : StartHandler(w, e)
           \/ \E w \in Workers : FindAccount(w) \/ LockRow(w) \/ Decide(w)
                                   \/ TouchTransaction(w) \/ MarkEvent(w)
  <2>1. row' = row
    BY <1>4 DEF UnitStep, UnitPosts, SimulateCardPurchase, UnitAmends, UnitChangesStatus,
       UnitUpdatesAccount, UnitHolds, UnitOpensElsewhere, CreateAccount, LoseAccount,
       ReceiveWebhook, StartHandler, FindAccount, LockRow, Decide, TouchTransaction, MarkEvent,
       Break, FailHandler, Crash, Rest, vars, tables
  <2> QED
    BY <2>1
<1> QED
  BY <1>1, <1>2, <1>3, <1>4 DEF Next, ApiStep, Deliver, Handle

\* A worker that is about to insert an account has fetched it for its event.
LEMMA FetchesStart ==
  ASSUME IInv, [Next]_vars, NEW w \in Workers, step'[w] = "insert"
  PROVE  /\ running[w] # NoEvent /\ running'[w] = running[w]
         /\ \/ step[w] = "insert" /\ read'[w] = read[w]
            \/ read'[w] = CreatedRow(unit[AccountOf(w)])
<1>0. /\ step \in [Workers -> Steps] /\ read \in [Workers -> AccountRow \cup {NoRow}]
      /\ running \in [Workers -> EventIds \cup {NoEvent}]
      /\ step[w] = "insert" => running[w] # NoEvent
  BY DEF IInv, TypeOK, DeliveryTypeOK, HandlerIsSound, WorkerIsSound
<1>1. ASSUME NEW u \in Workers, NEW s \in Steps, GoTo(u, s), s # "insert",
             \A x \in Workers \ {u} : running'[x] = running[x] /\ read'[x] = read[x]
      PROVE  step[w] = "insert" /\ read'[w] = read[w] /\ running'[w] = running[w]
  <2>1. w # u
    BY <1>0, <1>1 DEF GoTo
  <2> QED
    BY <1>0, <1>1, <2>1 DEF GoTo
<1>2. CASE UnitStep \/ ApiStep \/ (\E e \in EventIds : ReceiveWebhook(e)) \/ Rest \/ UNCHANGED vars
  <2>1. UNCHANGED <<step, read, running>>
    BY <1>2
     DEF UnitStep, UnitPosts, SimulateCardPurchase, UnitAmends, UnitChangesStatus,
         UnitUpdatesAccount, UnitHolds, UnitOpensElsewhere, UnitEmits, Emit, deliveryVars,
         ApiStep, CreateAccount, InsertAccount, LoseAccount, workerVars, ReceiveWebhook, Ingest,
         Rest, vars
  <2> QED
    BY <1>0, <2>1
<1>3. ASSUME NEW u \in Workers, NEW e \in EventIds, StartHandler(u, e)
      PROVE  step[w] = "insert" /\ read'[w] = read[w] /\ running'[w] = running[w]
  <2>1. /\ GoTo(u, FirstStep(log[e].type)) /\ read' = read
        /\ running' = [running EXCEPT ![u] = e]
    BY <1>3 DEF StartHandler, Begin
  <2>2. FirstStep(log[e].type) \in Steps \ {"insert"}
    BY DEF FirstStep, Steps
  <2>3. \A x \in Workers \ {u} : running'[x] = running[x] /\ read'[x] = read[x]
    BY <1>0, <2>1
  <2> QED
    BY <1>1, <2>1, <2>2, <2>3
<1>4. ASSUME NEW u \in Workers, FindAccount(u)
      PROVE  /\ running[w] # NoEvent /\ running'[w] = running[w]
             /\ \/ step[w] = "insert" /\ read'[w] = read[w]
                \/ read'[w] = CreatedRow(unit[AccountOf(w)])
  <2>1. running' = running /\ running[u] # NoEvent
    BY <1>4 DEF FindAccount, HandlerOnly, deliveryVars, At
  <2>2. CASE Finish(u, "Processed")
    <3>1. GoTo(u, "mark") /\ \A x \in Workers \ {u} : running'[x] = running[x] /\ read'[x] = read[x]
      BY <1>0, <2>1, <2>2 DEF Finish
    <3> QED
      BY <1>0, <1>1, <2>1, <3>1 DEF Steps
  <2>3. CASE GoTo(u, "insert") /\ read' = [read EXCEPT ![u] = CreatedRow(unit[AccountOf(u)])]
    BY <1>0, <2>1, <2>3 DEF GoTo
  <2> QED
    BY <1>4, <2>2, <2>3 DEF FindAccount
<1>5. ASSUME NEW u \in Workers,
             BackfillAccount(u) \/ UpdateStatus(u) \/ LockRow(u) \/ Decide(u) \/ Commit(u)
               \/ TouchTransaction(u) \/ MarkEvent(u) \/ FailHandler(u) \/ Crash(u)
      PROVE  step[w] = "insert" /\ read'[w] = read[w] /\ running'[w] = running[w]
  <2>1. \E s \in {"mark", "idle", "decide", "write"} : GoTo(u, s)
    BY <1>5 DEF BackfillAccount, UpdateStatus, LockRow, Decide, Commit, TouchTransaction,
                MarkEvent, FailHandler, Crash, Finish
  <2>2. running' = running \/ running' = [running EXCEPT ![u] = NoEvent]
    BY <1>5 DEF BackfillAccount, UpdateStatus, LockRow, Decide, Commit, TouchTransaction,
                MarkEvent, FailHandler, Crash, HandlerOnly, deliveryVars, Mark, Abandon
  <2>3. read' = read \/ \E r : read' = [read EXCEPT ![u] = r]
    BY <1>5 DEF BackfillAccount, UpdateStatus, LockRow, Decide, Commit, TouchTransaction,
                MarkEvent, FailHandler, Crash, Finish
  <2>4. \A x \in Workers \ {u} : running'[x] = running[x] /\ read'[x] = read[x]
    BY <1>0, <2>2, <2>3
  <2>5. {"mark", "idle", "decide", "write"} \subseteq Steps \ {"insert"}
    BY DEF Steps
  <2> QED
    BY <1>1, <2>1, <2>4, <2>5
<1> QED
  BY <1>0, <1>2, <1>3, <1>4, <1>5 DEF Next, Deliver, Handle, Break

LEMMA ZeroMInv == ASSUME IInv, MInv, [Next]_vars PROVE BalancesStartAtZero'
<1>0. LogGrows /\ Published \subseteq EventIds
  BY NextLogGrows, DeliveryAssumption DEF IInv, TypeOK, DeliveryTypeOK, Published, EventIds
<1>1. SUFFICES ASSUME NEW a \in Accounts, Postings(a)' = {}
      PROVE  /\ row'[a] # NoRow => row'[a].balance = 0
             /\ \A w \in Workers : step'[w] = "insert" /\ AccountOf(w)' = a => read'[w].balance = 0
  BY DEF BalancesStartAtZero
<1>2. Postings(a) = {}
  BY <1>0, <1>1 DEF Postings, LogGrows
<1>3. /\ row[a] # NoRow => row[a].balance = 0
      /\ \A w \in Workers : step[w] = "insert" /\ AccountOf(w) = a => read[w].balance = 0
      /\ unit[a].balance = 0
  BY <1>2 DEF MInv, BalancesStartAtZero, UnitFollowsLog
<1>4. ASSUME row'[a] # NoRow PROVE row'[a].balance = 0
  <2>1. CASE row[a] = NoRow
    BY <1>3, <1>4, <2>1, RowsStart
  <2>2. CASE row[a] # NoRow /\ row'[a] # row[a]
    <3>1. PICK e \in Published :
            /\ log[e].account = a
            /\ row'[a].balance = row[a].balance \/ log[e].type = "transactionCreated"
      BY <2>2, RowMoves
    <3>2. log[e].type # "transactionCreated"
      BY <1>2, <3>1 DEF Postings
    <3> QED
      BY <1>3, <2>2, <3>1, <3>2
  <2> QED
    BY <1>3, <2>1, <2>2
<1>5. ASSUME NEW w \in Workers, step'[w] = "insert", AccountOf(w)' = a
      PROVE  read'[w].balance = 0
  <2>1. /\ running[w] # NoEvent /\ running'[w] = running[w]
        /\ \/ step[w] = "insert" /\ read'[w] = read[w]
           \/ read'[w] = CreatedRow(unit[AccountOf(w)])
    BY <1>5, FetchesStart
  <2>2. AccountOf(w) = a
    BY <1>0, <1>5, <2>1, RunningEvent DEF AccountOf, Event, LogGrows
  <2> QED
    BY <1>3, <2>1, <2>2 DEF CreatedRow
<1> QED
  BY <1>4, <1>5

LEMMA TablesMInv ==
  ASSUME IInv, MInv, [Next]_vars PROVE RecordsArePostings' /\ StampIsOfEvent'
<1>0. /\ LogGrows /\ TablesGrow /\ Published \subseteq EventIds
      /\ \A e \in EventIds : ledger[e] # NoRow => e \in Published
  BY NextLogGrows, NextTablesGrow, DeliveryAssumption
     DEF IInv, TypeOK, DeliveryTypeOK, Published, EventIds, LedgerIsSound
<1>1. RecordsArePostings'
  BY <1>0, RecordsMove DEF MInv, RecordsArePostings, LogGrows
<1>2. SUFFICES ASSUME NEW a \in Accounts, row'[a] # NoRow, row'[a].lastEventAt # Never
      PROVE  \E f \in Published' : HasStamped(a, f)'
  BY <1>1 DEF StampIsOfEvent
<1>3. CASE row'[a] = row[a]
  <2>1. PICK f \in Published : HasStamped(a, f)
    BY <1>2, <1>3 DEF MInv, StampIsOfEvent
  <2>2. HasStamped(a, f)'
    BY <1>0, <1>3, <2>1 DEF HasStamped, LogGrows, TablesGrow
  <2> QED
    BY <2>2 DEF HasStamped
<1>4. CASE row'[a] # row[a]
  <2>1. PICK e \in Published :
          /\ log[e].account = a /\ row'[a].lastEventAt = log[e].at
          /\ log[e].type \in DOMAIN ACCOUNT_STATUS_EVENTS \/ ledger'[e] # NoRow
    BY <1>2, <1>4, RowMoves
  <2>2. HasStamped(a, e)'
    BY <1>0, <2>1 DEF HasStamped, LogGrows
  <2> QED
    BY <2>2 DEF HasStamped
<1> QED
  BY <1>3, <1>4

LEMMA InitMInv == Init => MInv
<1> SUFFICES ASSUME Init PROVE MInv
  OBVIOUS
<1>1. log = <<>> /\ Published = {}
  BY DEF Init, DeliveryInit, Published
<1>2. \A a \in Accounts : row[a] # NoRow => row[a].balance = 0 /\ row[a].lastEventAt = Never
  BY DEF Init, CreatedRow, JustOpened
<1>3. \A a \in Accounts : unit[a].balance = 0
  BY DEF Init, JustOpened, Unopened
<1>4. /\ \A w \in Workers : step[w] # "insert"
      /\ \A e \in EventIds : ledger[e] = NoRow
  BY DEF Init
<1> QED
  BY <1>1, <1>2, <1>3, <1>4
     DEF MInv, LogIsOrdered, LogIsOfKinds, UnitFollowsLog, BalancesStartAtZero,
         RecordsArePostings, StampIsOfEvent

\* Where balances and stamps come from, in every reachable state.
THEOREM MoneyInvariance == Spec => []MInv
<1>1. Init => MInv
  BY InitMInv
<1>2. IInv /\ MInv /\ [Next]_vars => MInv'
  BY LogMInv, ZeroMInv, TablesMInv DEF MInv
<1> QED
  BY <1>1, <1>2, Invariance, PTL DEF Spec

\* A recorded newest posting has left its balance in the row.
LEMMA RecordedIsRight ==
  ASSUME IInv, MInv, NEW a \in Accounts, row[a] # NoRow,
         NEW e \in Published, IsNewestPosting(a, e), ledger[e] # NoRow
  PROVE  row[a].balance = unit[a].balance
<1>1. Published \subseteq EventIds /\ Published \subseteq Nat
  BY DeliveryAssumption DEF IInv, TypeOK, DeliveryTypeOK, Published, EventIds
<1>2. e \in Recorded(a) /\ unit[a].balance = log[e].balance
  BY <1>1 DEF IInv, LedgerIsSound, Recorded, IsNewestPosting, Postings, MInv, UnitFollowsLog
<1>3. ASSUME NEW f \in Recorded(a) PROVE log[f].at <= log[e].at
  <2>1. f \in Published /\ f \in Postings(a)
    BY <1>3 DEF Recorded, IInv, LedgerIsSound, MInv, RecordsArePostings, Postings
  <2>2. f <= e /\ log[e].at \in Nat /\ log[f].at \in Nat
    BY <2>1, LoggedEvents DEF IsNewestPosting, IInv
  <2> QED
    BY <1>1, <2>1, <2>2 DEF MInv, LogIsOrdered
<1> QED
  BY <1>2, <1>3 DEF IInv, BalanceFollowsNewest

\* A set of positions has a greatest one.
LEMMA GreatestPosition ==
  ASSUME NEW n \in Nat, NEW S \in SUBSET (1..n), S # {}
  PROVE  \E e \in S : \A f \in S : f <= e
<1> DEFINE T == {n - e : e \in S}
           R == OpToRel(<, Nat)
<1>0. \A e \in S : e \in 1..n /\ e \in Nat /\ n - e \in Nat
  <2>1. \A e \in 1..n : e \in Nat /\ n - e \in Nat
    OBVIOUS
  <2> QED
    BY <2>1
<1>1. T \subseteq Nat /\ T # {}
  BY <1>0
<1>2. IsWellFoundedOn(R, Nat)
  BY NatLessThanWellFounded
<1>3. \A x, y \in Nat : <<y, x>> \in R <=> y < x
  BY SMT DEF OpToRel
<1> HIDE DEF R, T
<1>4. PICK x \in T : \A y \in T : ~ (<<y, x>> \in R)
  BY <1>1, <1>2, WFMin
<1>5. PICK e \in S : x = n - e
  BY DEF T
<1>6. ASSUME NEW f \in S PROVE f <= e
  <2>1. n - f \in T /\ n - e \in Nat /\ n - f \in Nat /\ e \in Nat /\ f \in Nat
    BY <1>0 DEF T
  <2>2. ~(n - f < n - e)
    BY <1>3, <1>4, <1>5, <2>1
  <2> QED
    BY <2>1, <2>2
<1> QED
  BY <1>5, <1>6

\* The reasons of a settled account whose balance is not Unit's.
LEMMA SettledIsAccountedFor ==
  ASSUME IInv, VInv, MInv, NEW a \in Accounts, Settled(a), row[a] # NoRow
  PROVE  \/ row[a].balance = unit[a].balance
         \/ CameTooEarly(a)
         \/ \E e \in Published : IsNewestPosting(a, e) /\ WasOvertaken(a, e)
<1>0. Len(log) \in Nat /\ Published = 1..Len(log) /\ Postings(a) \in SUBSET Published
  BY DEF IInv, TypeOK, Published, Postings
<1>1. CASE Postings(a) = {}
  BY <1>1 DEF MInv, BalancesStartAtZero, UnitFollowsLog
<1>2. CASE Postings(a) # {}
  <2>1. PICK e \in Published : IsNewestPosting(a, e)
    BY <1>0, <1>2, GreatestPosition DEF IsNewestPosting
  <2>2. log[e].account = a /\ log[e].type = "transactionCreated" /\ audit[e] \in Terminal
    BY <2>1 DEF IsNewestPosting, Postings, Settled
  <2>3. CASE ledger[e] # NoRow
    BY <2>1, <2>3, RecordedIsRight
  <2>4. CASE ledger[e] = NoRow
    <3>1. audit[e] = "Skipped" /\ (a \in Opened => Reached(log[e]))
      BY <2>2, <2>4 DEF VInv, VerdictsAreJustified, Justified, Says, Terminal
    <3>2. /\ log[e].at \in Nat \ {Never} /\ row[a].lastEventAt \in Nat
      <4>1. log[e] \in UnitEvent /\ row[a] \in AccountRow
        BY LoggedEvents DEF IInv, TypeOK
      <4> QED
        BY <4>1 DEF UnitEvent, AccountRow
    <3>3. CASE log[e].at > row[a].lastEventAt
      <4>1. a \notin Opened
        BY <2>2, <3>1, <3>2, <3>3 DEF Reached
      <4> QED
        BY <2>2, <3>1, <3>3, <4>1 DEF CameTooEarly
    <3>4. CASE row[a].lastEventAt >= log[e].at
      <4>1. PICK f \in Published : HasStamped(a, f)
        BY <3>2, <3>4 DEF MInv, StampIsOfEvent, Never
      <4>2. f # e
        BY <2>2, <2>4, <4>1, StatusEvents DEF HasStamped
      <4> QED
        BY <2>1, <2>4, <3>1, <3>4, <4>1, <4>2 DEF WasOvertaken, HasStamped
    <3> QED
      BY <3>2, <3>3, <3>4
  <2> QED
    BY <2>3, <2>4
<1> QED
  BY <1>1, <1>2

\* The README's claim about balances, as far as it is true: of an account whose
\* events are all dealt with, a balance that is not Unit's is explained by the
\* last transaction, which was handled before the row was there
\* (transaction-event.handler.ts:66) or after another event that is not older
\* had set the stamp (accounts.repository.ts:133).
THEOREM SettledBalances == Spec => []BalancesAreAccountedFor
<1>1. IInv /\ VInv /\ MInv => BalancesAreAccountedFor
  BY SettledIsAccountedFor DEF BalancesAreAccountedFor
<1> QED
  BY <1>1, Invariance, VerdictInvariance, MoneyInvariance, PTL

\* The claim is true where no account changes its status and no two events
\* share a millisecond: then no delivery order and no crash corrupts a balance
\* of an account that has its row from the start (README.md:48).
NoOvertaking ==
  /\ Kinds \cap DOMAIN ACCOUNT_STATUS_EVENTS = {}
  /\ 0 \notin Gaps

THEOREM BalancesAreRight == NoOvertaking /\ Spec => []BalanceNotCorrupted
<1>1. NoOvertaking /\ IInv /\ VInv /\ MInv => BalanceNotCorrupted
  <2> SUFFICES ASSUME NoOvertaking, IInv, VInv, MInv, NEW a \in Opened, Settled(a)
      PROVE  row[a].balance = unit[a].balance
    BY DEF BalanceNotCorrupted
  <2>2. a \in Accounts /\ row[a] # NoRow
    BY LedgerAssumption DEF VInv, OpenedRowsStay
  <2>3. ~CameTooEarly(a)
    BY DEF CameTooEarly
  <2>4. ASSUME NEW e \in Published, IsNewestPosting(a, e), WasOvertaken(a, e) PROVE FALSE
    <3>1. PICK f \in Published \ {e} : HasStamped(a, f) /\ log[f].at >= log[e].at
      BY <2>4 DEF WasOvertaken
    <3>2. log[f].type \in Kinds /\ f \in EventIds
      BY DeliveryAssumption DEF MInv, LogIsOfKinds, IInv, TypeOK, DeliveryTypeOK, Published, EventIds
    <3>3. ledger[f] # NoRow
      BY <3>1, <3>2 DEF NoOvertaking, HasStamped
    <3>4. f \in Postings(a)
      BY <3>1, <3>2, <3>3 DEF MInv, RecordsArePostings, Postings, HasStamped
    <3>5. f < e
      BY <2>4, <3>1, <3>4 DEF IsNewestPosting, Published
    <3>6. log[f].at < log[e].at
      BY <3>5 DEF NoOvertaking, MInv, LogIsOrdered
    <3> QED
      BY <3>1, <3>6, LoggedEvents DEF IInv
  <2> QED
    BY <2>2, <2>3, <2>4, SettledIsAccountedFor
<1>2. NoOvertaking => []NoOvertaking
  OBVIOUS
<1> QED
  BY <1>1, <1>2, Invariance, VerdictInvariance, MoneyInvariance, PTL
=============================================================================
