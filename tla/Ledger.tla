------------------------------- MODULE Ledger --------------------------------
(***************************************************************************)
(* The local account rows and transaction ledger of apps/api, and all that *)
(* writes them: POST /accounts (accounts.service.ts) and the handlers of   *)
(* the account.* and transaction.* webhooks (account-event.handler.ts,     *)
(* transaction-event.handler.ts, accounts.repository.ts), run by several   *)
(* workers over the event pipeline of EventDelivery.tla.                   *)
(*                                                                         *)
(* Steps.  A worker's handler is cut where another worker, the API or a    *)
(* crash can come between: one action per database statement or call to    *)
(* Unit.  Two reads are joined to the step after them, which changes       *)
(* nothing: applyAccountStatusUpdate's find (rows are never deleted) and   *)
(* the backfill's find (a row that appears later fails the insert).  The   *)
(* writes inside the interactive transaction become visible at its commit. *)
(***************************************************************************)
EXTENDS EventDelivery, Integers

CONSTANTS Accounts,     \* deposit accounts at Unit, present and future
          Known,        \* those whose customer has a row in customers
          Opened,       \* those already open, with a row, when the model starts
          Kinds,        \* the event types Unit publishes
          Gaps,         \* how much later than the last event the next one can be
          Amounts,      \* what a transaction adds to the balance
          Holds,        \* what Unit can hold back of a balance
          MaxFaults,    \* bound: failed handlers and crashes
          NoRow,        \* no row with this key
          NoWorker      \* nobody holds the row lock

VARIABLES unit,         \* unit[a]: the account as Unit knows it
          row,          \* row[a]: account a's row in accounts, or NoRow
          ledger,       \* ledger[e]: the row event e created in transactions, or NoRow
          lock,         \* lock[a]: the worker whose transaction holds a's row lock
          step,         \* step[w]: where w is in its handler
          read,         \* read[w]: the row or Unit document w has read
          outcome,      \* outcome[w]: the verdict w will write
          opening,      \* opening[a]: where the POST /accounts that opened a is
          faults        \* failures and crashes so far

tables == <<row, ledger>>
workerVars == <<lock, step, read, outcome>>
vars == <<deliveryVars, unit, tables, workerVars, opening, faults>>

Never == 0              \* lastEventAt is null

ACCOUNT_STATUS_EVENTS ==
  [frozen |-> "Frozen", unfrozen |-> "Open", reopened |-> "Open", closed |-> "Closed"]

AccountStatus == {"Open", "Frozen", "Closed"}
EventTypes == DOMAIN ACCOUNT_STATUS_EVENTS \cup
  {"accountCreated", "accountUpdated", "transactionCreated", "transactionUpdated"}

UnitEvent == [type : EventTypes, account : Accounts, transaction : EventIds,
              at : Nat \ {Never}, balance : Int]
UnitAccount == [status : AccountStatus \cup {"None"}, balance : Int, hold : Int]
AccountRow == [status : AccountStatus, balance : Int, hold : Int,
               available : Int, lastEventAt : Nat]
TransactionRow == [account : Accounts, balance : Int, lastEventAt : Nat]
Steps == {"idle", "backfill", "insert", "status", "lock", "decide", "write",
          "touch", "mark"}

ASSUME LedgerAssumption ==
  /\ Known \subseteq Accounts /\ Opened \subseteq Known
  /\ Gaps \subseteq Nat /\ Amounts \subseteq Int /\ Holds \subseteq Int
  /\ MaxFaults \in Nat
  /\ NoRow \notin AccountRow \cup TransactionRow
  /\ NoWorker \notin Workers

TypeOK ==
  /\ DeliveryTypeOK
  /\ log \in Seq(UnitEvent)
  /\ unit \in [Accounts -> UnitAccount]
  /\ row \in [Accounts -> AccountRow \cup {NoRow}]
  /\ ledger \in [EventIds -> TransactionRow \cup {NoRow}]
  /\ lock \in [Accounts -> Workers \cup {NoWorker}]
  /\ step \in [Workers -> Steps]
  /\ read \in [Workers -> AccountRow \cup {NoRow}]
  /\ outcome \in [Workers -> Verdicts]
  /\ opening \in [Accounts -> {"none", "insert", "done"}]
  /\ faults \in 0..MaxFaults

\* Mutants: a status without a local name, a hold that is not subtracted.
CreatedRow_StatusUnmapped(u) ==
  [status |-> "undefined", balance |-> u.balance, hold |-> u.hold,
   available |-> u.balance - u.hold, lastEventAt |-> Never]
CreatedRow_HoldIgnored(u) ==
  [status |-> u.status, balance |-> u.balance, hold |-> u.hold,
   available |-> u.balance, lastEventAt |-> Never]

\* The document Unit returns for an account, as a row that saw no event yet.
CreatedRow(u) ==
  [status |-> u.status, balance |-> u.balance, hold |-> u.hold,
   available |-> u.balance - u.hold, lastEventAt |-> Never]

Unopened == [status |-> "None", balance |-> 0, hold |-> 0]
JustOpened == [status |-> "Open", balance |-> 0, hold |-> 0]

Init ==
  /\ DeliveryInit
  /\ unit = [a \in Accounts |-> IF a \in Opened THEN JustOpened ELSE Unopened]
  /\ row = [a \in Accounts |-> IF a \in Opened THEN CreatedRow(JustOpened) ELSE NoRow]
  /\ ledger = [e \in EventIds |-> NoRow]
  /\ lock = [a \in Accounts |-> NoWorker]
  /\ step = [w \in Workers |-> "idle"]
  /\ read = [w \in Workers |-> NoRow]
  /\ outcome = [w \in Workers |-> "Processed"]
  /\ opening = [a \in Accounts |-> IF a \in Opened THEN "done" ELSE "none"]
  /\ faults = 0

-----------------------------------------------------------------------------
(* Unit, from how src/ uses it.  Unit stamps an event with the time of the *)
(* change; two changes can fall into the same millisecond (gap 0).         *)

LastAt == IF log = <<>> THEN Never ELSE log[Len(log)].at

\* Unit publishes that account a, now as u, had an event of this type.
UnitEmits(type, a, transaction, u) ==
  /\ type \in Kinds
  /\ \E gap \in Gaps :
       LET at == IF LastAt + gap = Never THEN 1 ELSE LastAt + gap
       IN Emit([type |-> type, account |-> a, transaction |-> transaction,
                at |-> at, balance |-> u.balance])
  /\ unit' = [unit EXCEPT ![a] = u]

\* A transaction posts; its resource carries the balance it left.
UnitPosts(a, amount) ==
  /\ unit[a].status = "Open"
  /\ UnitEmits("transactionCreated", a, Len(log) + 1,
               [unit[a] EXCEPT !.balance = @ + amount])
  /\ UNCHANGED <<tables, workerVars, opening, faults>>

\* POST /sandbox/cards/:id/purchase, for a card of an account with a row: Unit
\* is asked for a purchase, and nothing is written here.
SimulateCardPurchase(a, amount) ==
  row[a] # NoRow /\ amount < 0 /\ UnitPosts(a, amount)

\* Unit amends a posted transaction: transaction.updated names it.
UnitAmends(t) ==
  /\ t \in Published
  /\ log[t].type = "transactionCreated"
  /\ UnitEmits("transactionUpdated", log[t].account, t, unit[log[t].account])
  /\ UNCHANGED <<tables, workerVars, opening, faults>>

\* Unit, or an operator in its dashboard, changes an account's status.
UnitChangesStatus(a, type) ==
  /\ \/ type = "frozen" /\ unit[a].status = "Open"
     \/ type = "unfrozen" /\ unit[a].status = "Frozen"
     \/ type = "closed" /\ unit[a].status \in {"Open", "Frozen"}
     \/ type = "reopened" /\ unit[a].status = "Closed"
  /\ UnitEmits(type, a, Len(log) + 1,
               [unit[a] EXCEPT !.status = ACCOUNT_STATUS_EVENTS[type]])
  /\ UNCHANGED <<tables, workerVars, opening, faults>>

\* A detail of the account changes that has no column here.
UnitUpdatesAccount(a) ==
  /\ unit[a].status # "None"
  /\ UnitEmits("accountUpdated", a, Len(log) + 1, unit[a])
  /\ UNCHANGED <<tables, workerVars, opening, faults>>

\* Unit holds back part of the balance.  No event that src/ handles says so,
\* and once the account has a row nobody reads the hold again: what is held
\* then would change nothing here.
UnitHolds(a, amount) ==
  /\ unit[a].status = "Open" /\ row[a] = NoRow
  /\ unit' = [unit EXCEPT ![a].hold = amount]
  /\ UNCHANGED <<deliveryVars, tables, workerVars, opening, faults>>

\* An account opens without this API: nobody is there to insert its row.
UnitOpensElsewhere(a) ==
  /\ unit[a] = Unopened
  /\ UnitEmits("accountCreated", a, Len(log) + 1, JustOpened)
  /\ opening' = [opening EXCEPT ![a] = "done"]
  /\ UNCHANGED <<tables, workerVars, faults>>

-----------------------------------------------------------------------------
(* POST /accounts: createAccount for a customer who is active.             *)

\* createDepositAccount: the account exists at Unit, the response is here.
CreateAccount(a) ==
  /\ a \in Known
  /\ unit[a] = Unopened
  /\ UnitEmits("accountCreated", a, Len(log) + 1, JustOpened)
  /\ opening' = [opening EXCEPT ![a] = "insert"]
  /\ UNCHANGED <<tables, workerVars, faults>>

\* createAccountRecord stores Unit's response, whatever happened at Unit
\* since.  A backfilled row makes it fail on the unique unitAccountId (500).
InsertAccount(a) ==
  /\ opening[a] = "insert"
  /\ row' = IF row[a] = NoRow THEN [row EXCEPT ![a] = CreatedRow(JustOpened)] ELSE row
  /\ opening' = [opening EXCEPT ![a] = "done"]
  /\ UNCHANGED <<deliveryVars, unit, ledger, workerVars, faults>>

\* The API process dies between the two, or the database refuses the row.
LoseAccount(a) ==
  /\ opening[a] = "insert"
  /\ faults < MaxFaults
  /\ faults' = faults + 1
  /\ opening' = [opening EXCEPT ![a] = "done"]
  /\ UNCHANGED <<deliveryVars, unit, tables, workerVars>>

-----------------------------------------------------------------------------
(* A worker's run of processWebhookEvent.                                  *)

Event(w) == log[running[w]]
AccountOf(w) == Event(w).account

\* Mutants: no staleness check; every stamped row counts as newer; an UPDATE
\* without its guard.
IsStale_Never(r, ev) == FALSE
IsStale_OnceStamped(r, ev) == r.lastEventAt # Never
IsNewer_Always(r, ev) == TRUE

IsNewer(r, ev) == r.lastEventAt = Never \/ r.lastEventAt < ev.at
IsStale(r, ev) == r.lastEventAt # Never /\ r.lastEventAt >= ev.at

At(w, s) == running[w] # NoEvent /\ step[w] = s
GoTo(w, s) == step' = [step EXCEPT ![w] = s]

\* The handler returns; what is left is to write the verdict.
Finish(w, verdict) ==
  /\ GoTo(w, "mark")
  /\ outcome' = [outcome EXCEPT ![w] = verdict]
  /\ read' = [read EXCEPT ![w] = NoRow]

HandlerOnly == UNCHANGED <<deliveryVars, unit, opening, faults>>

\* Mutant: a plain SELECT, which waits for nobody.
RowFree_Unlocked(a) == TRUE

\* Nobody has the row of a locked: an UPDATE or a second lock can go ahead.
RowFree(a) == lock[a] = NoWorker

\* Ends the database transaction of w, if it is in one: the lock goes.
Release(w) == lock' = [a \in Accounts |-> IF lock[a] = w THEN NoWorker ELSE lock[a]]

\* Mutant: account.created is only acknowledged.
FirstStep_NoBackfill(type) ==
  CASE type \in DOMAIN ACCOUNT_STATUS_EVENTS -> "status"
    [] type = "transactionCreated" -> "lock"
    [] type = "transactionUpdated" -> "touch"
    [] OTHER -> "mark"

FirstStep(type) ==
  CASE type = "accountCreated" -> "backfill"
    [] type \in DOMAIN ACCOUNT_STATUS_EVENTS -> "status"
    [] type = "transactionCreated" -> "lock"
    [] type = "transactionUpdated" -> "touch"
    [] OTHER -> "mark"

\* The job starts, unless the row is already terminal, and picks the handler.
StartHandler(w, e) ==
  /\ Begin(w, e)
  /\ GoTo(w, FirstStep(log[e].type))
  /\ outcome' = [outcome EXCEPT ![w] = "Processed"]
  /\ UNCHANGED <<unit, tables, lock, read, opening, faults>>

\* account.created: done if the row is there or the customer is unknown;
\* otherwise the account is fetched from Unit as it is now.
FindAccount(w) ==
  /\ At(w, "backfill")
  /\ IF row[AccountOf(w)] # NoRow \/ AccountOf(w) \notin Known
     THEN Finish(w, "Processed")
     ELSE /\ GoTo(w, "insert")
          /\ read' = [read EXCEPT ![w] = CreatedRow(unit[AccountOf(w)])]
          /\ UNCHANGED outcome
  /\ UNCHANGED <<tables, lock>> /\ HandlerOnly

\* The fetched account is inserted, unless somebody inserted it meanwhile:
\* the unique constraint fails the handler.
BackfillAccount(w) ==
  /\ At(w, "insert")
  /\ IF row[AccountOf(w)] = NoRow
     THEN /\ row' = [row EXCEPT ![AccountOf(w)] = read[w]]
          /\ Finish(w, "Processed")
     ELSE row' = row /\ Finish(w, "Failed")
  /\ UNCHANGED <<ledger, lock>> /\ HandlerOnly

\* applyAccountStatusUpdate: one guarded UPDATE, which waits for the row lock.
UpdateStatus(w) ==
  LET a  == AccountOf(w)
      ev == Event(w)
  IN /\ At(w, "status")
     /\ RowFree(a)
     /\ IF row[a] # NoRow /\ IsNewer(row[a], ev)
        THEN /\ row' = [row EXCEPT ![a] =
                  [@ EXCEPT !.status = ACCOUNT_STATUS_EVENTS[ev.type],
                            !.lastEventAt = ev.at]]
             /\ Finish(w, "Processed")
        ELSE row' = row /\ Finish(w, "Skipped")
     /\ UNCHANGED <<ledger, lock>> /\ HandlerOnly

\* SELECT ... FOR UPDATE: waits for the lock, or finds no row to lock.
LockRow(w) ==
  LET a == AccountOf(w)
  IN /\ At(w, "lock")
     /\ RowFree(a)
     /\ IF row[a] = NoRow
        THEN Finish(w, "Skipped") /\ lock' = lock
        ELSE /\ lock' = [lock EXCEPT ![a] = w]
             /\ read' = [read EXCEPT ![w] = row[a]]
             /\ GoTo(w, "decide")
             /\ UNCHANGED outcome
     /\ UNCHANGED tables /\ HandlerOnly

\* Stale against the row as it was read, or recorded already: the transaction
\* ends and the event is skipped.
Decide(w) ==
  /\ At(w, "decide")
  /\ IF IsStale(read[w], Event(w)) \/ ledger[Event(w).transaction] # NoRow
     THEN Finish(w, "Skipped") /\ Release(w)
     ELSE GoTo(w, "write") /\ UNCHANGED <<lock, read, outcome>>
  /\ UNCHANGED tables /\ HandlerOnly

\* The ledger row and the account's new balance commit together.
Commit(w) ==
  LET a  == AccountOf(w)
      ev == Event(w)
  IN /\ At(w, "write")
     /\ ledger' = [ledger EXCEPT ![ev.transaction] =
          [account |-> a, balance |-> ev.balance, lastEventAt |-> ev.at]]
     /\ row' = [row EXCEPT ![a] =
          [@ EXCEPT !.balance = ev.balance,
                    !.available = ev.balance - read[w].hold,
                    !.lastEventAt = ev.at]]
     /\ Release(w)
     /\ Finish(w, "Processed")
     /\ HandlerOnly

\* handleTransactionUpdated: one guarded UPDATE of the transaction's stamp.
TouchTransaction(w) ==
  LET t  == Event(w).transaction
      ev == Event(w)
  IN /\ At(w, "touch")
     /\ ledger' = IF ledger[t] # NoRow /\ IsNewer(ledger[t], ev)
                  THEN [ledger EXCEPT ![t].lastEventAt = ev.at]
                  ELSE ledger
     /\ Finish(w, "Processed")
     /\ UNCHANGED <<row, lock>> /\ HandlerOnly

\* Unit or the database throws in the handler or in markEvent: the open
\* transaction rolls back, and the catch block will mark the event Failed.
FailHandler(w) ==
  /\ running[w] # NoEvent
  /\ step[w] # "mark" \/ outcome[w] # "Failed"
  /\ faults < MaxFaults
  /\ faults' = faults + 1
  /\ Finish(w, "Failed")
  /\ Release(w)
  /\ UNCHANGED <<deliveryVars, unit, tables, opening>>

\* The worker process dies, at any step: the database rolls back and unlocks.
Crash(w) ==
  /\ faults < MaxFaults
  /\ faults' = faults + 1
  /\ Abandon(w)
  /\ GoTo(w, "idle")
  /\ read' = [read EXCEPT ![w] = NoRow]
  /\ outcome' = [outcome EXCEPT ![w] = "Processed"]
  /\ Release(w)
  /\ UNCHANGED <<unit, tables, opening>>

\* markEvent.
MarkEvent(w) ==
  /\ At(w, "mark")
  /\ Mark(w, outcome[w])
  /\ GoTo(w, "idle")
  /\ outcome' = [outcome EXCEPT ![w] = "Processed"]
  /\ UNCHANGED <<unit, tables, lock, read, opening, faults>>

\* The endpoint stores event e (EventDelivery).
ReceiveWebhook(e) ==
  /\ Ingest(e)
  /\ UNCHANGED <<unit, tables, workerVars, opening, faults>>

-----------------------------------------------------------------------------
UnitStep ==
  \/ \E a \in Accounts, amount \in Amounts :
       UnitPosts(a, amount) \/ SimulateCardPurchase(a, amount)
  \/ \E t \in EventIds : UnitAmends(t)
  \/ \E a \in Accounts, type \in DOMAIN ACCOUNT_STATUS_EVENTS : UnitChangesStatus(a, type)
  \/ \E a \in Accounts : UnitUpdatesAccount(a)
  \/ \E a \in Accounts, amount \in Holds : UnitHolds(a, amount)
  \/ \E a \in Accounts : UnitOpensElsewhere(a)

ApiStep == \E a \in Accounts : CreateAccount(a) \/ InsertAccount(a) \/ LoseAccount(a)

Handle(w) ==
  \/ FindAccount(w) \/ BackfillAccount(w)
  \/ UpdateStatus(w)
  \/ LockRow(w) \/ Decide(w) \/ Commit(w)
  \/ TouchTransaction(w)
  \/ MarkEvent(w)

Deliver ==
  \/ \E e \in EventIds : ReceiveWebhook(e)
  \/ \E w \in Workers, e \in EventIds : StartHandler(w, e)
  \/ \E w \in Workers : Handle(w)

Break == \E w \in Workers : FailHandler(w) \/ Crash(w)

\* Every published event of account a has its last verdict and nobody is
\* working on the account.
Settled(a) ==
  /\ opening[a] # "insert"
  /\ \A e \in Published : log[e].account = a =>
       audit[e] \in Terminal /\ \A w \in Workers : running[w] # e

\* Unit may stay silent once everything it published is dealt with; any other
\* state with no step left is a deadlock, such as a row lock nobody will drop.
Rest == (\A a \in Accounts : Settled(a)) /\ UNCHANGED vars

Next == UnitStep \/ ApiStep \/ Deliver \/ Break \/ Rest

Spec == Init /\ [][Next]_vars

\* The queue keeps offering a recorded event to a free worker and a started
\* handler runs on; Unit owes us nothing, and nothing has to fail.
FairSpec == Spec /\ WF_vars(Deliver)

-----------------------------------------------------------------------------
(* Properties.                                                             *)

ReadHolds(w) ==
  /\ step[w] \in {"decide", "write"} =>
       lock[AccountOf(w)] = w /\ row[AccountOf(w)] = read[w]
  /\ step[w] = "write" =>
       ~IsStale(row[AccountOf(w)], Event(w)) /\ ledger[Event(w).transaction] = NoRow

\* What the transaction of applyTransactionCreated read under the lock is
\* still true when it writes: the row is locked by this worker and as read,
\* and once the checks are passed the event is still newer and unrecorded
\* (the comment at accounts.repository.ts:108-117).
CheckStillHolds == \A w \in Workers : ReadHolds(w)

Recorded(a) == {e \in EventIds : ledger[e] # NoRow /\ ledger[e].account = a}

\* The money of an account row is that of the newest transaction in its
\* ledger, at every moment and however deliveries interleave: the balance is
\* the one it left, available is that less the hold, and nothing in the
\* ledger is newer than the row's stamp (applyTransactionCreated).
BalanceFollowsNewest ==
  \A a \in Accounts : row[a] # NoRow =>
    /\ row[a].available = row[a].balance - row[a].hold
    /\ \A e \in Recorded(a) :
         /\ log[e].at <= row[a].lastEventAt
         /\ (\A f \in Recorded(a) : log[f].at <= log[e].at) =>
              row[a].balance = log[e].balance

\* The audit table tells the truth about what was applied: a transaction
\* marked Processed is in the ledger, a status event marked Processed has
\* reached its row, and one that was Skipped although the account had its row
\* from the start met a row at least as new (processWebhookEvent's verdicts).
VerdictsAreTrue ==
  \A e \in Published :
    LET ev == log[e]
        reached == row[ev.account] # NoRow /\ row[ev.account].lastEventAt >= ev.at
    IN /\ audit[e] = "Processed" /\ ev.type = "transactionCreated" => ledger[e] # NoRow
       /\ audit[e] = "Processed" /\ ev.type \in DOMAIN ACCOUNT_STATUS_EVENTS => reached
       /\ audit[e] = "Skipped" /\ ev.account \in Opened => reached

\* An account that exists at Unit for a customer known here has a row once
\* its events are dealt with, whoever crashed: the backfill of account.created
\* is the safety net its comment promises (account-event.handler.ts:20-27).
NoAccountLost ==
  \A a \in Known : Settled(a) /\ unit[a] # Unopened => row[a] # NoRow

\* Once an account's events are dealt with, its row, which was there before
\* them, has Unit's balance: the README's claim that concurrent or out-of-order
\* webhook deliveries can never corrupt a balance.
BalanceNotCorrupted ==
  \A a \in Opened : Settled(a) => row[a].balance = unit[a].balance

\* A transaction of account a was Skipped for want of a row, and the row does
\* not know of it (transaction-event.handler.ts:66).
CameTooEarly(a) ==
  /\ a \notin Opened
  /\ \E e \in Published :
       /\ log[e].account = a /\ log[e].type = "transactionCreated"
       /\ audit[e] = "Skipped" /\ log[e].at > row[a].lastEventAt

\* Under fair delivery every account with a row ends up, and stays, with Unit's
\* balance: the last transaction wins in the end, whatever was retried, and
\* nothing but one that came before the row can be missing.
Converges ==
  \A a \in Accounts : <>[](\/ row[a] = NoRow
                           \/ row[a].balance = unit[a].balance
                           \/ CameTooEarly(a))

Atomic == INSTANCE AtomicLedger

\* The locked read-check-write of concurrent, failing workers is one atomic
\* application of an event to both tables (AtomicLedger.tla).
ImplementsAtomicLedger == Atomic!AtomicSpec
=============================================================================
