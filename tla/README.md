# Verification of chiklati-bank

TLA+ models of chiklati-bank, a business-banking front end for the BaaS provider
Unit: a Fastify API, a BullMQ worker and a Next.js web app over Postgres and Redis.
The money lives at Unit; this system keeps a *shadow* of it (accounts, ledger,
payments, cards, applications, customers) that is fed from two sides, by the
responses to its own calls and by Unit's webhooks. Everything hard about the
program is in that sentence: the two sides race, webhooks come late, twice and out
of order, either side can crash half way, and nothing but a timestamp column
(`lastEventAt`) tells new from old.

Paths below are relative to `src/`, and to `src/apps/api/src/modules/` where they
begin with a module's name.

## 1. The system

| Part | Code | State | Operations |
|---|---|---|---|
| Webhook endpoint | `webhooks/webhooks.{routes,controller,service,signature}.ts` | `webhook_events` rows | verify HMAC, store new events as Pending, queue those that are Pending, answer 200 |
| Queue and worker | `webhooks/queue.ts`, `apps/api/src/worker.ts` (BullMQ is external) | jobs in Redis: attempts, locks, stalls | add, run (5 at a time), retry with backoff up to 5 attempts, re-run a stalled job |
| Event processor | `webhooks/webhook-event.processor.ts` | `webhook_events.status` | skip terminal rows, dispatch on type, write the verdict |
| Account ledger | `accounts/accounts.{service,repository}.ts`, `webhooks/{account,transaction}-event.handler.ts` | `accounts`, `transactions`, row locks | open an account, backfill its row, apply a status, apply a transaction, restamp a transaction |
| Idempotency | `apps/api/src/lib/idempotency/idempotency.ts` | one Redis key per user, scope and key | claim, replay, refuse, store the answer, forget |
| Onboarding | `applications/*`, `customers/*`, the application and customer branches of the processor | `applications`, `customers` | submit, move the status, create the customer on approval, archive it |
| Payments | `payments/*`, `webhooks/payment-event.handler.ts` | `payments` | create (book, ACH, wire), move the status |
| Cards | `cards/*`, `webhooks/card-event.handler.ts` | `cards` | issue, freeze, unfreeze, close, report stolen or lost, move the status |
| Counterparties | `counterparties/*` | `counterparties` | create, list |
| Sandbox tools | `sandbox/*` | none | ask Unit's simulator to move a payment or make a purchase |
| Unit client | `apps/api/src/lib/unit/*` | none | HTTP calls without a timeout; every non-2xx becomes `UnitApiError` |
| Internal auth | `apps/api/src/lib/auth/internal-auth.ts`, `apps/web/src/lib/internal-api.ts` | none | 60 s JWT from web to API |
| Forms | `apps/web/src/app/(app)/{onboarding,payments/new,cards/new}`, `app/api/**/route.ts` | the React state of a form, a payment poller | submit through the BFF routes with a fresh idempotency key per click, poll, go to the page of what was made |
| Server-rendered pages | `apps/web/src/app/(app)/{dashboard,accounts/[id]}`, `components/*` | what a browser tab shows and waits for | render from several GETs, "Create account", refresh |
| Users and sign-in | `apps/web/src/{auth,proxy}.ts`, `app/login` | one session cookie for all tabs | sign in, sign out, redirect |

### How the parts interact

```
 browser -> Next.js BFF -> API: idempotency hooks -> handler -> Unit -> insert row
                                     | Redis                     |
                                     v                           v  webhooks, at least once
 rows <- event handlers <- worker (5 jobs) <- BullMQ <- POST /webhooks/unit
```

* A **creating endpoint** calls Unit, waits, and then inserts its row from the
  response. Between the two Unit has already published `*.created`, and later
  events may be handled before the row exists.
* An **event handler** finds its row by Unit's id and updates it where
  `lastEventAt` is null or older than the event. A handler that changed nothing
  returns `applied: false` and its event is marked `Skipped`, which is as final as
  `Processed`.
* The **transaction handler** alone needs a check and two writes to be one step,
  and takes the row lock (`SELECT ... FOR UPDATE`) of the account for it.
* **Account rows** have two writers of the insert (POST and the backfill of
  `account.created`) and two families of writers of the stamp (status events and
  transactions).
* **Card rows** are written by the action endpoints without a guard and by the
  webhook under one.
* A **page** is rendered on the server from several GETs, each of which reads the
  database when it gets there; `router.refresh()` and `router.push()` are awaited by
  nobody, and the session may change under a page that is open.
* The **idempotency hooks** and **Unit's own idempotency keys** are two nets: the
  first expires after 30 seconds, the second does not.

### What is hard about it, and what makes each part correct

| Part | Hard behaviour | Correct when |
|---|---|---|
| Endpoint, queue, worker | crash between storing and queueing; redelivery while Pending; two runs of one event; stalled jobs; attempts run out | no acknowledged event is forgotten; every event is concluded or given up by the queue |
| Ledger | five workers on one row; order; retry after a crash that came after the commit; two inserters | a checked read is still true at its write; the balance is that of the newest recorded transaction; verdicts are true; no account stays without its row; the README's promise that no delivery order corrupts a balance |
| Idempotency | claim expiring under a request; deletes that do not look whose key it is; crash with the claim; 5xx that hides a success | one resource per key; one executor; one final answer; keys get free |
| Onboarding | two statements that must both happen; row inserted late | newest decision stands; approved means a customer exists; nobody unapproved is a customer |
| Cards | unguarded synchronous write against webhook and other sessions | no invented status; the row ends at Unit's status |
| Payments | row inserted late or never; payment looked up outside the lock | newest status stands; links lead to rows, and only a transaction posted before its payment's row can lack one |
| Forms | polls answered after the next submit; a poll that fails; answers lost with a new key per click | the form shows what was submitted last; polling ends and for a reason; nothing is made twice unless an answer was lost or untrue |
| Pages | reads of one render with webhooks between them; a refresh nobody waits for; another user signed in under an open page | no second account is offered after the first was announced; accounts belong to the user of their customer; the list of an account is no older than its balance |

Every hazard, with its line, is in `PROJECT.json` under `hazards`.

## 2. The modules

| Module | Lines it stands for | Builds on |
|---|---|---|
| `EventDelivery` | what the pipeline promises to a handler: at least once, unordered, overlapping | |
| `WebhookQueue` | `webhooks.service.ts`, `queue.ts`, `worker.ts`, frame of the processor | implements `EventDelivery` |
| `Ledger` | `accounts/*`, `account-event.handler.ts`, `transaction-event.handler.ts` | extends `EventDelivery` |
| `AtomicLedger` | the same two tables with every handler in one step (abstract) | implemented by `Ledger` |
| `LedgerProofs` | theorems about `Ledger` | extends `Ledger` |
| `LedgerRefinement` | theorems: `Ledger` implements `AtomicLedger`, and what follows for the audit table and for balances | extends `LedgerProofs` |
| `EventHandlers` | the frame all other handlers share | extends `EventDelivery` |
| `Onboarding`, `Cards`, `Payments` | the module of that name and its event handler | extend `EventHandlers` |
| `Idempotency` | `idempotency.ts`, `unit-client.ts`, the creating endpoints around them | |
| `WebForms` | the forms and pollers of the web app, the BFF routes they go through | |
| `Dashboard` | the server-rendered pages, the session, the account button and `POST /accounts` as the pages see it | |
| `WebApp` | a tab: at a form or at the pages | extends `WebForms`, `Dashboard` |
| `WebhookQueueProofs`, `IdempotencyProofs`, `OnboardingProofs`, `CardsProofs`, `PaymentsProofs`, `WebAppProofs` | theorems about the module of that name | extend it |
| `MCLedger`, `MCOnboarding` | values a `.cfg` cannot write | extend the model |

A domain module does not repeat the queue. `WebhookQueue` is shown to implement
`EventDelivery`, and the domain modules extend `EventDelivery`; so what they show
holds over the real pipeline, with one difference on the safe side: `EventDelivery`
never gives an event up, the queue does after its attempts.

### State and actions against the code

*Common.* An event is named by its position in Unit's log. `audit[e]` is the
`status` column of its `webhook_events` row (`Absent` before there is one),
`running[w]` the event a job slot is at, `step[w]` the statement it comes to next,
`outcome[w]` the verdict it is going to write. Timestamps are numbers; `Gaps` says
how far apart two events of the log may be, and 0 is the same millisecond.

*Grain.* One action is one database statement or one call to Unit with its answer.
Where a `find` is followed by a conditional `updateMany` on the same row, the two
are one action: rows are never deleted, and a row that appears between them is as
good as one that appears after both. A transaction's writes appear at its commit.
A crash takes one job slot: when a process dies with several, that is several
crashes in a row. A batch of webhooks is ingested one event at a time in the
domain modules; `WebhookQueue` has the batch.

*`Ledger`.* `FindAccount`/`BackfillAccount` are `backfillAccountFromUnit`;
`UpdateStatus` is `applyAccountStatusUpdate`; `LockRow`, `Decide`, `Commit` are the
interactive transaction of `applyTransactionCreated`; `TouchTransaction` is
`handleTransactionUpdated`; `CreateAccount`/`InsertAccount`/`LoseAccount` are
`createAccount` around its call to Unit; `FailHandler`, `Crash`, `MarkEvent` are the
frame. `UnitHolds` can only happen before the row exists: the hold is read when the
row is made and never again, so later holds change nothing that is modelled.
`SimulateCardPurchase` is the sandbox purchase: a transaction that posts at Unit.

*`WebhookQueue`.* A request stores (`StoreEvents`), reads the statuses
(`FindPending`), queues (`QueueJobs`) and answers (`Answer`); a slot takes a job,
reads the row (`CheckRow`), and concludes or fails. `RecoverStalled` is BullMQ's
stalled check, `LoseLock` a lock that was not renewed while the job goes on.

*`Idempotency`.* `Claim` and `Peek` are the preHandler hook, `Check`, `CallUnit`,
`UnitRefuses`, `GatewayFails`, `LoseAnswer`, `Insert` the handler, `Reply` the onSend
hook, `OnError` and `ErrorReply` the pair of hooks a thrown error runs through.
Expiry is an action: of an orphaned claim at any time, of a held one as a mishap.

*`Onboarding`, `Cards`, `Payments`.* The POST is a call to Unit, its answer and the
insert (or its loss); `UpdateApplication`, `UpsertCustomer`, `UpdateCustomer`,
`UpdateStatus`, `LookForPayment`, `RecordTransaction` are the handlers' statements.
The three `Simulate` actions of `Payments` are the sandbox endpoints, which only ask
Unit to move a payment. `early` is a history variable: the transactions that had been
posted when their payment's row was inserted.
In `Cards` a session is a card action being served: `Ask`, `CallUnit` or
`UnitRefuses`, `WriteStatus`, and `LoseSession` wherever it dies.

*`WebForms`.* `form` is the React state of one form, `post[n]` the request of submit
`n`, which has the `n`th key, `polls` the GETs under way. A callback, the render it
causes and the effect after it are one action, since nothing else runs in between;
`Effect` is the `useEffect` of the two polling forms, which have the same one.
`Submit`, `ShowResult`, `ShowError`, `FetchThrows` are the pieces of `handleSubmit`
between its awaits; `Fire`, `ReadRow`, `ShowPoll`, `PollFails` are a poll. The card form
goes to the page of its card: `StartLeaving` is `router.push`, which it does not wait
for, `Arrive` the page being there. The user may submit again what was never shown
(`intention`). `overtaken` is a history variable that two exceptions need.

*`Dashboard`.* `session` is the cookie, which all tabs share; `tab` is one of them: the
page it shows, the `view` that page was rendered from, the `render` under way with the
reads it still has to do, the button (`busy`), the fetches whose callback is to run
(`waiting`) and which of them were answered 201 (`told`, a history). `SignIn`, `SignOut`
and `ElsewhereSigns` (the same in another tab) set the cookie; `Request` is a request
for a page with the redirect of `proxy.ts`. `ReadCustomers` and `ReadAccounts` are the
`Promise.all` of the dashboard, `ReadAccount`, `ReadTransactions` and `FindNoAccount` the
account page, `ReadFails` an answer other than 200 that the page takes for an empty
list, `ShowPage` the render in the browser. `Click` and the three `Hear` actions are
`handleClick` around its fetch, with `Refresh` for `router.refresh()`; `CheckCustomer`,
`Refuse`, `UnitOpens`, `InsertRow`, `LoseAccount` are `POST /accounts`. `BackfillRow`,
`RecordEntry` and `CustomerBecomes` are as much of the webhooks as the pages show;
`Ledger` and `Onboarding` have them in full. `ledger[n]` is the account's balance and its
rows in the table of transactions. As in the code the balance is Unit's absolute one,
here the number of the transaction it comes after, and not a sum over the rows: a
transaction that is stale is skipped, one posted before a backfilled row is in the
fetched balance from the start, and neither is ever listed. Status events, which advance the same
stamp, are left out: to the pages a transaction they make stale is one that never came.

*`WebApp`.* The two share no state: a behaviour is that of one of the four forms or of
the pages, by the value of `page` in `AppInit`.

### Unit, Redis and BullMQ

They are not in the repository and are modelled from how it uses them.

* Unit stamps every event with the time of the change, publishes in the order of
  its changes, delivers each until it is answered 200 and sometimes again.
* Unit makes one resource per idempotency key and answers a repetition with it: the
  mappers send the client's key on as an attribute for that purpose
  (`payments.mapper.ts:21` and its like, `accounts.service.ts:33`).
* Redis expires a claim after 30 s; a cached response, kept for 24 hours, does not
  expire within a behaviour.
* BullMQ offers a job until it completed, failed `attempts` times, or was found
  stalled more than `maxStalledCount` (1) times.

## 3. What is checked

All bounds are constants of the configuration. The runs take seconds to four
minutes with two TLC workers.

| Run | Instance | Shows |
|---|---|---|
| `ledger` | 2 workers, 2 accounts (one open, one to be opened), 3 events, 1 fault | `CheckStillHolds`, `BalanceFollowsNewest`, `VerdictsAreTrue`, `NoAccountLost`, and that `Ledger` implements `AtomicLedger` |
| `ledger_converges` | 2 accounts (one open, one to be opened), purchases of 1, their amendments, account updates, 3 events, 1 fault, fair delivery | with no status event and no equal stamps the balance of the open account is right whenever nothing is in flight (`BalanceNotCorrupted`), and both balances end at Unit's (`Converges`) |
| `queue` | 2 requests, 2 slots, 1 event, 2 attempts, 1 stall, 1 duplicate, 2 faults, fair | `NothingForgotten`, `EventuallySettled`, implements `EventDelivery` |
| `idem` | 3 requests in flight, 3 keys of the three kinds, any 2 of 4 mishaps, fair | `OneResourcePerKey`, `OneExecutor`, `OneAnswer`, `KeyIsFreed` |
| `onboarding` | 2 applications of 2 customers, 3 events, 1 fault, fair | `NewestDecisionStands`, `CustomersAreApproved`, `StatusSettles`, `StandingSettles` |
| `cards` | 2 cards (one to be issued), 2 sessions, 2 events, 1 fault, fair | `NothingInvented`, `StatusSettles` |
| `payments` | 2 payments (one to be made), 3 events, 1 fault, fair | `NewestStatusStands`, `LinksLead`, `UnlinkedWasEarly`, `StatusSettles` |
| `web` | 4 forms, each submitted 3 times, 2 polls per submit, 3 statuses, one each of 3 mishaps, fair polling; or the pages with 2 users (one gets approved), 2 clicks, 2 transactions of the first account opened (`InUse`), one of which a backfill may find in the balance (`Fetched`), one trouble of 4 kinds | `ShowsTheLast`, `StopsForAReason`, `MadeOnce`, `NothingSilent`, `NeverGoesBack`, `PollingEnds`; `NoSecondOffer`, `OwnersAgree`, `ListReachesBalance` |

The liveness properties are about *every* row, those that are inserted late
included. What may go wrong for good is named and nothing else is excepted:
`CameTooEarly` says that an event was Skipped for want of the row which the row does not
know of, `Overlooked` that a customer event was marked Processed without effect, before
the row or below the stamp of an approval. A row that is behind Unit without such an
event in the audit table would be a violation.

Four more runs each check one claim that the repository makes and that TLC finds
violated by what the code does (`findings` in `PROJECT.json`):

| Run | Claim | What happens |
|---|---|---|
| `balance_lost_to_freeze` | README.md:48, deliveries can never corrupt a balance | a freeze handled before an earlier transaction advances the shared `lastEventAt`; the transaction is then stale and dropped for good |
| `approved_no_customer` | README.md:28, once approved one can open an account | the worker fails between the status update and the customer; the retry meets its own stamp, skips, and never makes the customer |
| `cards_late_write` | cards.repository.ts:48-50, no staleness to guard the synchronous write against | of two overlapping actions the earlier is written last, and stays |
| `idem_slow_unit` | README.md:47, a completed key is replayed | Unit is slower than the claim; a second executor fails on the insert and its `onError` deletes the first one's 201 |

### Why these bounds are enough

* *Workers.* Two job slots make every pair of overlapping runs, of one event or of
  two; a third could only overlap with steps that touch the same row, where the
  row lock or the guarded update leaves one pair to interfere at a time. The
  theorems of section 4 are for any number.
* *Events.* Three events allow an old one, a new one and one in between or a
  creation before them, in all orders of handling. Status tables have no cycles
  that need a fourth. `cards` has two events, because sessions add their own
  interleavings; with three it is the same result on three of the five actions.
* *One event in `queue`.* An event's row, jobs and owed delivery depend on no other
  event's, and a batch is the same statement for each of its members; two
  requests, two slots and a duplicate still meet on it.
* *Faults.* One crash or failure reaches each point of the handlers, and the
  retry after it runs among everything else. The queue needs two, which is as many as
  its attempts and more than its stalls. Duplicates of a concluded event are the
  processor's early return.
* *Polls and submits.* Two polls before giving up instead of 20 are one that goes on and
  one that is the last; three submits are two that overlap with polls of an older one
  each, and an intention tried three times.
* *Statuses.* Three are a first, a terminal one and one that a poll can see in between.
* *Tabs.* One tab and a cookie that others may change: tabs share nothing but the
  cookie and the database, and what another tab does there the webhooks and
  `ElsewhereSigns` do as well. Two users are one and somebody else; the second is never
  approved, since two customers would only repeat each other. Two clicks are the
  account and a second one. Two transactions are one that falls between two reads, and an
  older one that is in the list by then, comes late and is stale, or was posted before
  the row; the second account has none, since the ledgers of two do not meet.
  One trouble of four kinds reaches each point.
* *Symmetry* (of workers) is used in `ledger` only, which checks no liveness.
* *Deadlock* is checked in all runs. `Rest` in each module says where the system may
  stop: everything published is concluded and no request is under way; a row lock
  nobody drops, or a key nobody frees, would be a deadlock.

### Fairness

Weak fairness is assumed of what a scheduler or a timer provides, and of nothing
that a user, Unit or a failure decides.

* `Deliver`, `Progress`: BullMQ keeps offering jobs to free slots, Node runs a
  started handler on, Unit repeats an unanswered delivery. Attempts bound the retries,
  which only `queue` models; its liveness property therefore excepts executions
  with as many faults as attempts, or more than the stalls a job survives. The
  domain modules let a failed event be retried without limit; read with the
  queue, their liveness holds for events that are not given up.
* `WriteStatus` of `Cards`: once Unit has answered, the update is a local
  statement; it may be lost (`LoseSession`), which is a fault.
* `Serve` of `Idempotency`: the client has no timeout of its own, but undici gives up
  on a silent peer after five minutes, so a request does end; `ExpireOrphan`: Redis
  removes what it was told to.
* `Poll` of `WebForms`: timers fire and a GET of one row is answered or fails. Nothing is
  assumed of the answer to a submit, and nothing of the pages.

## 4. What is proved

All theorems hold for any values of the constants: any sets of workers, accounts,
payments, requests and users, any number of events, attempts and faults, any gaps
(0 included). Assumed are only the named `ASSUME`s of the modules, which give the
constants their types and say that a marker such as `NoRow` is not a value. Five
theorems have a hypothesis of their own, because what they say is false without it,
and carry it in their statement: it is given in the table. Every proof
follows the same lines: an inductive `IInv` made of named parts, a lemma per action,
a few frame lemmas that say once what a kind of step leaves alone, and the property
from `IInv`.

| Module | Theorem | Statement |
|---|---|---|
| `LedgerProofs` | `TypeCorrect`, `LockProtectsCheck`, `BalanceIsNewest` | `Spec => []TypeOK`, `[]CheckStillHolds`, `[]BalanceFollowsNewest` |
| `LedgerRefinement` | `LedgerIsAtomic` | `Spec => ImplementsAtomicLedger` |
| | `AuditIsTrue`, `BackfillIsSafetyNet` | `[]VerdictsAreTrue`, `[]NoAccountLost` |
| | `RecordsStay` | no step takes back a row, a stamp, a recorded transaction or an event |
| | `SettledBalances` | `[]BalancesAreAccountedFor`: a settled balance is Unit's, or its last transaction came before the row or was overtaken |
| | `BalancesAreRight` | `NoOvertaking /\ Spec => []BalanceNotCorrupted` |
| `WebhookQueueProofs` | `TypeCorrect`, `NoneForgotten` | `[]TypeOK`, `[]NothingForgotten` |
| | `QueueDelivers` | `Spec => ImplementsEventDelivery` |
| | `OneFaultSurvived` | `[]OneFaultIsSurvived` for `MaxAttempts > 1`, `MaxStalls > 0`: after one fault of any kind an acknowledged event has its verdict or a live job |
| `IdempotencyProofs` | `TypeCorrect`, `OneResource`, `OneAtATime`, `OneFinalAnswer` | `[]TypeOK`, `[]OneResourcePerKey`, `[]OneExecutor`, `[]OneAnswer` |
| `OnboardingProofs` | `TypeCorrect`, `NewestStands`, `NobodyUnapproved` | `[]TypeOK`, `[]NewestDecisionStands`, `[]CustomersAreApproved` |
| | `SettledDecision`, `SettledStanding` | `[]DecisionIsRight`, `[]StandingIsRight`: the safety cores of `StatusSettles` and `StandingSettles` |
| `PaymentsProofs` | `TypeCorrect`, `NewestStands`, `LinksAreGood`, `OnlyEarlyOnesUnlinked` | `[]TypeOK`, `[]NewestStatusStands`, `[]LinksLead`, `[]UnlinkedWasEarly` |
| | `SettledStatus` | `[]SettledIsRight`: the safety core of `StatusSettles` |
| | `RecordedStatus` | `0 \notin Gaps /\ Spec => []RecordedIsRight` |
| `CardsProofs` | `TypeCorrect`, `NothingMadeUp` | `[]TypeOK`, `[]NothingInvented` |
| | `SettledStatus` | `Spec /\ []~Overtaken(c) => []SettledIsRight(c)` for each card |
| | `IssuedStatus` | `Spec /\ []~Overtaken(c) => []IssuedIsRight(c)` for each issued card, with `0 \notin Gaps` |
| `WebAppProofs` | `TypeCorrect` | `AppSpec => []AppTypeOK` |
| | `FormsShowTheLast`, `PollingStopsForAReason`, `FormsMakeOnce`, `FormsAreNotSilent`, `FormsNeverGoBack` | `AppSpec => []ShowsTheLast`, `[]StopsForAReason`, `[]MadeOnce`, `[]NothingSilent`, `NeverGoesBack` |
| | `DashboardOffersOnce`, `AccountsAreTheirOwners`, `ListIsNoOlderThanBalance` | `[]NoSecondOffer`, `[]OwnersAgree`, `[]ListReachesBalance` |

*Ledger.* The safety invariants are not inductive. `BalanceFollowsNewest` survives a
`Commit` only if what the worker read and checked is still true (`CheckStillHolds`), and
if a ledger row carries the balance and account of the event that made it
(`LedgerIsSound`); `CheckStillHolds` survives other workers' steps only because a
worker on a step of the transaction runs a transaction event (`HandlerIsSound`) and
everything run was published (`OnlyPublished`), with an event that names itself
(`LogIsSound`). A backfill inserts a fetched row that must be stampless and
consistent, which is also `HandlerIsSound`.

*Its refinement.* `LedgerIsAtomic` is a step simulation from `IInv`: every action is a
step of `AtomicLedger` on the two tables or leaves them alone. The one that takes work is
`Commit`: the abstract step reads the tables as they are now, the concrete one wrote
what was decided earlier, and `CheckStillHolds` is what makes the two the same. The
abstract tables only grow (`TablesGrow`), which is why a verdict that was justified
when a worker decided on it (`VInv`) still is when it is written, however late and
over whatever verdict.

*Its balances.* `BalanceNotCorrupted` is what the README of the repository promises, and
is false in general (`balance_lost_to_freeze`). What is true is that there are two ways
to lose a balance and no third. `MInv` says that the log is in Unit's order and that
Unit's balance is that of the newest posting in it (`UnitFollowsLog`), that a recorded
transaction is one of the log, and which event a row has its stamp of
(`StampIsOfEvent`). The newest posting of a settled account is then either recorded, and
the balance is Unit's, or its verdict is `Skipped`, which `VInv` knows the reason of: no
row (`CameTooEarly`) or a stamp that is not older, of another event (`WasOvertaken`).
`NoOvertaking` (no status events, no two events in one millisecond) leaves neither for
an account that is open from the start, so that there the promise is kept.

*Queue.* `NothingForgotten` must survive a job that was completed, given up, or taken
from a slot that still runs it. `NoneIsDropped` says of every queued event without a
terminal row that one of its jobs counts: it can still be run, is run and will not
just complete, or was lost to attempts or a stall. `QueueDelivers` maps a running slot
to a worker and shows every action to be a step of `EventDelivery` or a stutter; it is
what allows the handler modules to stand on `EventDelivery`.
`NothingForgotten` excepts jobs that were given up or stalled. `OneFaultSurvived` does
not, as long as there was one fault: `QInv` says that this one was of a run or of a
lock (`NoFailure \/ NoStall`), that in a world without failures what is completed keeps
its verdict (`DoneIsConcluded`), and that the failed run or the abandoned job is the
only one. With two faults it is false, and with more attempts and stalls as well (TLC,
with 3 and 2): a worker that lost its lock fails late, after another has completed the
job with a verdict, and overwrites it. `EventuallySettled` excepts two faults because
BullMQ allows one stall; with two it would not hold.

*Idempotency.* That Unit makes one resource needs nothing of the lock, only which
responses a request can carry (`Carries`). One executor and one answer hold of a key
that nothing has disturbed: it is `Orderly` (free and untouched, or claimed by one
request, or answered), or a webhook has inserted its row first and no 201 will be
given (`Spoiled`).

*Onboarding and Payments.* That the newest status stands must survive a worker that
has applied its event and not marked it yet (`WillMark`, `AppliedIsShown`), while
another applies a newer one. The stamp of a row is that of an event with the row's
status (`StampIsOfEvent`). For an application `WillMark` includes the upsert that comes
in between. A transaction without a link is excused by having been early; that takes
the same of a lookup that has not been recorded yet (`LinksAreSound`), which the insert of the row may
overtake.
That a settled row is Unit's needs the converse as well, that nothing is missing from
it. `SInv` says that the log is in Unit's order and Unit's status that of its last
event, and that an event with a verdict is shown: the row's stamp is not older than it,
or it was skipped because there was no row. If the stamp is as old as the last event,
it is that event's unless two are of one millisecond (`Tied`), where the first one
handled stays. A customer has one more writer, the approval, which stamps without a
guard; that is `Overlooked`.

*Cards.* A session that is about to write holds a status since Unit answered, whatever
became of the card; `SessionsAreSound` says that Unit has published it by then.
`SettledStatus` has to follow a row with two writers, one of which leaves no stamp. The
invariant is about one card (`Follows`): its row shows Unit's status, or Unit has
published an event newer than its stamp (`Behind`), or two of one millisecond (`Tied`).
An overtaken write breaks it, as in the run `cards_late_write`; the theorem is therefore
about executions without one, `[]~Overtaken(c)`, the hypothesis of `StatusSettles`.

*Web.* `FInv` says which answers a form can be waiting for (`PollsAreSound`), that all
of them are of the last submit unless one was overtaken (`AllOfTheLast`), that
what is displayed is no newer than an answer on its way, and that no newer than the
row (`SeenIsSound`), and that of the submits of one intention only the last can have
made something (`IntentionsAreSound`). `DInv` says whose the accounts are, from the
request on (`OwnersAreSound`), and what the page shown (`TabIsSound`) and the page on its
way (`RenderIsSound`), after each of its reads, know of what the tab was told. A view
stays sound while the server moves because a ledger only gets later (`Later`): what is
added to it is newer than its stamp, so nothing appears below a balance that was read.

That the pages' variables keep their types needs a count, of the troubles that have
happened (`TroublesOK`); the library's facts about `Cardinality` are enough for it.

Only model-checked is liveness (`Converges`, `StatusSettles`, `StandingSettles`,
`EventuallySettled`, `KeyIsFreed`, `PollingEnds`), which is beyond the prover, as is
`ENABLED`. Of the first four the safety core is proved: that a row which is settled is
right, and that an event keeps a job that can settle it (after one fault). What is left
to TLC is that things do settle. The four claims that the code does not keep (`expect: violation`)
have no theorem, except that `BalancesAreRight` says where one of them is kept.

## 5. What else was met

Not every departure has a run of its own. These belong to the same family and
the passing runs are stated so that they do not depend on them:

* A `transaction.created` handled before the account row exists is Skipped for
  good, and the row is then inserted with the balance of an earlier response
  (transaction-event.handler.ts:66). The same lag leaves an application or a payment
  at the older status when its event precedes its row, for good if it was the last:
  `CameTooEarly` in `Converges` and both `StatusSettles`. Without it TLC finds this.
* The page of an account does not add up: the balance is Unit's absolute one, and what was
  skipped as stale or posted before the row was made is in it and never listed
  (accounts.repository.ts:138). `ListReachesBalance` says only that the list is no older
  than the balance.
* A `customer.archived` handled before the customer row exists is marked Processed
  without effect (webhook-event.processor.ts:121): `Overlooked` in `StandingSettles`.
* Of two transactions with the same `createdAt` the second handled is dropped
  (accounts.repository.ts:133 compares with `>=`).
* `upsertCustomerFromApprovedEvent` stamps an existing customer without a guard, so
  a late approval sets the stamp back (webhook-event.processor.ts:105).
* A handler that throws deletes its idempotency key twice, in `onError` and in
  `onSend`; between the two somebody else may have claimed it (idempotency.ts:76).
  `OneExecutor` is therefore stated for executions without such errors.
* Two overlapping runs of one event both write their verdicts; the slower can
  overwrite `Processed` with `Skipped` or `Failed` (webhook-event.processor.ts:26).
* The synchronous card write leaves no stamp, so a webhook of an earlier change can
  show a stolen card as active for a while (cards.repository.ts:55).
* `unitRequest` makes a `UnitApiError` of a 5xx or 429 as of a refusal
  (unit-client.ts:22), and `onSend` caches the 422 that follows for a day: "Unit
  rejected the payment" may be said of one that was made. `Idempotency` has these
  failures (`GatewayFails`); nothing checks that a 422 is true.
* The onboarding form sets its application from any poll that is answered
  (onboarding-form.tsx:148). One that was under way at the next submit brings the old
  application back, which is then polled, or stays, instead of the new one. The
  exception in `ShowsTheLast` and `StopsForAReason` (`overtaken`) is needed: without it
  TLC finds this.
* A poll that fails ends polling without saying so, because no state changes
  (payment-status-poller.ts:27): the exception in `PollingEnds`.
* All forms but onboarding have a `finally` and no `catch`: after a network error the
  button comes back and nothing is said (`NothingSilent`), and the next click has a
  new key (`MadeOnce`).
* The card form and the account button do not wait for `router.push` and
  `router.refresh` (card-form.tsx:92, create-account-button.tsx:32), so that the button
  is enabled again while the page is still the old one: a second click makes a second
  card or account. The exception in `MadeOnce` and the wording of `NoSecondOffer` (a tab
  that is not about to show another page) say so.
* When the backfill inserts the account's row before `POST /accounts` does, the POST
  answers 500 though the account is open. The button shows an error, does not refresh,
  and goes on to offer; the next click has a new key and opens a second account.
  `NoSecondOffer` is about those that the tab was told of.
* A page rendered for one user stays when another tab signs in as somebody else. Its
  button then asks for the first user's customer in the name of the second, and
  `findActiveCustomerForUser` refuses: `OwnersAgree` would fail without that check.
* A list that could not be read is shown as empty, also that of the accounts, and an
  active customer with accounts is then offered to create one (the exception in
  `NoSecondOffer`).

## 6. What is not modelled

* Pages that show what one read returns (the lists of payments and cards, the page
  of one), markup, validation of bodies, mapping of documents, logging, health checks,
  configuration: no state that changes.
* The webhook signature and the password comparison: pure checks. Every modelled
  delivery passed the one; `SignIn` is a sign-in that passed the other. Of the 60 s
  token of the internal API there is only that a request may be refused for it.
* Making users, which only the seed does.
* Two tabs at the same time with a state of each: see the bounds.
* Columns and indexes that no statement of a handler depends on; migrations,
  infrastructure, CI.

## 7. Plan

Done, in this order: `EventDelivery`, `Ledger` and its proofs, `AtomicLedger`,
`WebhookQueue`, `Idempotency`, `EventHandlers`, `Onboarding`, `Cards`, `Payments`,
`WebForms`, `LedgerRefinement`; then `Dashboard` and `WebApp`, the liveness of rows
that are inserted late, the proofs about all modules, and the safety cores of the
liveness properties.

What could follow:

1. `POST /accounts` under the idempotency hooks in one model with the backfill:
   `Idempotency` has the hooks around a backfilled key, and `Dashboard` the account
   without the hooks, as each click has a key of its own. A client that repeats a key
   (none does today) would need both.
2. An abstract "status row" that `Onboarding` and `Payments` implement, as `Ledger`
   implements `AtomicLedger`; their proofs share the shape already.
3. `WebForms` over `Idempotency` instead of the black box it has for the API.
