---------------------------- MODULE AtomicLedger -----------------------------
(***************************************************************************)
(* What the local ledger promises, with every handler run in one step: the *)
(* tables accounts and transactions change only by applying, at once, an   *)
(* event Unit published that is newer than everything its account has      *)
(* recorded, or by inserting the row of an account that has none.          *)
(*                                                                         *)
(* Ledger.tla, where a transaction event is applied under a row lock by    *)
(* concurrent workers that read, decide, write, fail and crash, implements *)
(* this specification.                                                     *)
(***************************************************************************)
EXTENDS Integers, Sequences

CONSTANTS NoRow         \* no row with this key in the table

VARIABLES log,          \* the events Unit has published
          row,          \* row[a]: account a's row in accounts, or NoRow
          ledger        \* ledger[e]: the row event e created in transactions

atomicVars == <<log, row, ledger>>

\* The status an account event leaves behind.
StatusAfter ==
  [frozen |-> "Frozen", unfrozen |-> "Open", reopened |-> "Open", closed |-> "Closed"]

NewerThan(r, ev) == ev.at > r.lastEventAt

AtomicInit ==
  /\ log = <<>>
  /\ \A a \in DOMAIN row : row[a] # NoRow => row[a].lastEventAt = 0
  /\ \A e \in DOMAIN ledger : ledger[e] = NoRow

UnitPublishes ==
  /\ Len(log') = Len(log) + 1
  /\ \A i \in DOMAIN log : log'[i] = log[i]
  /\ UNCHANGED <<row, ledger>>

\* The ledger row and the balance appear together, and never from an event
\* that is not newer than the account's row.
ApplyTransaction(e) ==
  LET ev == log[e]
      a  == ev.account
  IN /\ ev.type = "transactionCreated"
     /\ row[a] # NoRow
     /\ NewerThan(row[a], ev)
     /\ ledger[e] = NoRow
     /\ ledger' = [ledger EXCEPT ![e] =
          [account |-> a, balance |-> ev.balance, lastEventAt |-> ev.at]]
     /\ row' = [row EXCEPT ![a] =
          [@ EXCEPT !.balance = ev.balance,
                    !.available = ev.balance - row[a].hold,
                    !.lastEventAt = ev.at]]
     /\ UNCHANGED log

\* A status event moves the status and the stamp, and never the money.
ApplyStatus(e) ==
  LET ev == log[e]
      a  == ev.account
  IN /\ ev.type \in DOMAIN StatusAfter
     /\ row[a] # NoRow
     /\ NewerThan(row[a], ev)
     /\ row' = [row EXCEPT ![a] =
          [@ EXCEPT !.status = StatusAfter[ev.type], !.lastEventAt = ev.at]]
     /\ UNCHANGED <<log, ledger>>

\* transaction.updated moves the stamp of the row of the transaction it names.
RestampTransaction(e) ==
  LET ev == log[e]
  IN /\ ev.type = "transactionUpdated"
     /\ ledger[ev.transaction] # NoRow
     /\ NewerThan(ledger[ev.transaction], ev)
     /\ ledger' = [ledger EXCEPT ![ev.transaction] = [@ EXCEPT !.lastEventAt = ev.at]]
     /\ UNCHANGED <<log, row>>

\* A row is inserted once, without a stamp.
StoreAccount(a) ==
  /\ row[a] = NoRow
  /\ row'[a] # NoRow
  /\ row'[a].lastEventAt = 0
  /\ row' = [row EXCEPT ![a] = row'[a]]
  /\ UNCHANGED <<log, ledger>>

AtomicNext ==
  \/ UnitPublishes
  \/ \E e \in DOMAIN log :
       ApplyTransaction(e) \/ ApplyStatus(e) \/ RestampTransaction(e)
  \/ \E a \in DOMAIN row : StoreAccount(a)

AtomicSpec == AtomicInit /\ [][AtomicNext]_atomicVars
=============================================================================
