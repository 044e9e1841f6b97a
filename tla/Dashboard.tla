------------------------------ MODULE Dashboard -------------------------------
(***************************************************************************)
(* A browser tab on the pages that the web app renders on the server, the  *)
(* dashboard and the page of an account; who is signed in; and the opening *)
(* of an account from the button that the dashboard offers.                *)
(*                                                                         *)
(* A page is rendered from several GETs, each of which reads the database  *)
(* when it gets there, so that what a tab shows is no snapshot, and may be *)
(* old.  All tabs share one session cookie: another tab may sign out, or   *)
(* sign in as somebody else, under the pages this one shows.  A render     *)
(* goes with the cookie of its request, to the end.                        *)
(*                                                                         *)
(* A user has one customer at most, which is named after its user; an      *)
(* account is named after the request that opens it.  The n-th click has a *)
(* key of its own, so that the hooks of idempotency.ts do nothing here.    *)
(***************************************************************************)
EXTENDS Naturals, FiniteSets

CONSTANTS Users,          \* users
          Approved,       \* those whose application gets approved
          Nobody,         \* there is no session, or no row
          MaxRequests,    \* bound: clicks on "Create account"
          MaxTransactions, \* bound: transactions of an account
          InUse,          \* bound: the accounts whose transactions are heard of
          Fetched,        \* bound: balances that a backfill may be told
          Troubles,       \* what may go wrong, each once: see TroubleKinds
          MaxTroubles     \* bound: how many of them

VARIABLES session,        \* the user of the session cookie
          tab,            \* what the tab shows and waits for: see Tab
          customer,       \* customer[u]: the status of u's customer row
          request,        \* request[n]: POST /accounts of the n-th click
          account,        \* account[n]: what it opened, and whose row it has
          ledger,         \* ledger[n]: the account's balance and transactions
          troubles        \* what has gone wrong so far

dashboardVars == <<session, tab, customer, request, account, ledger, troubles>>

TroubleKinds == {"session",   \* another tab signs out or in
                 "network",   \* the browser's fetch throws
                 "api",       \* the API fails after Unit has opened the account
                 "read"}      \* a GET of a render is not answered 200

Requests == 1..MaxRequests
None == 0

\* The transactions of an account, in the order in which Unit posts them.  A
\* balance is Unit's, after so many of them: a number again.
Transactions == 1..MaxTransactions
Balances == 0..MaxTransactions

ASSUME DashboardAssumption ==
  /\ Approved \subseteq Users /\ Nobody \notin Users
  /\ InUse \subseteq Requests /\ Fetched \subseteq Balances
  /\ MaxRequests \in Nat /\ MaxTransactions \in Nat /\ MaxTroubles \in Nat
  /\ Troubles \subseteq TroubleKinds

\* What a page was rendered from: for the dashboard the user's customer and
\* accounts, for the page of an account its balance and its transactions.
View == [user : Users \cup {Nobody},
         customer : {"none", "Active", "Archived"}, accounts : SUBSET Requests,
         balance : Balances, listed : SUBSET Transactions]

EmptyView(u) ==
  [user |-> u, customer |-> "none", accounts |-> {}, balance |-> 0, listed |-> {}]

\* The GETs of a page that are modelled.
Reads(p) == CASE p = "dashboard" -> {"customers", "accounts"}
              [] p = "account" -> {"account", "transactions"}
              [] OTHER -> {}

Render == [page : {"none", "dashboard", "account"}, about : Requests \cup {None},
           todo : SUBSET {"customers", "accounts", "account", "transactions"},
           view : View]

NoRender == [page |-> "none", about |-> None, todo |-> {}, view |-> EmptyView(Nobody)]

\* The part of an account's row that transactions are about, and its rows in
\* the table of transactions.  What the row was made with is kept for the
\* properties.
Ledger == [opened : Balances, balance : Balances,
           stamp : Balances,        \* lastEventAt: these transactions are stale
           recorded : SUBSET Transactions]

NewLedger(balance) ==
  [opened |-> balance, balance |-> balance, stamp |-> 0, recorded |-> {}]

Tab == [page : {"login", "dashboard", "account", "missing"},
        about : Requests \cup {None},    \* the account a page is of
        view : View,
        render : Render,                 \* what is to be shown next
        busy : Requests \cup {None},     \* isSubmitting, and of which request
        waiting : SUBSET Requests,       \* fetches whose callback is to run
        told : SUBSET Requests]          \* history: those answered with 201

AtLogin == [page |-> "login", about |-> None, view |-> EmptyView(Nobody),
            render |-> NoRender, busy |-> None, waiting |-> {}, told |-> {}]

DashboardTypeOK ==
  /\ session \in Users \cup {Nobody}
  /\ tab \in Tab
  /\ customer \in [Users -> {"none", "Active", "Archived"}]
  /\ request \in [Requests ->
       [step : {"none", "sent", "calling", "opened", "ok", "failed"},
        customer : Users \cup {Nobody}, user : Users \cup {Nobody}]]
  /\ account \in [Requests ->
       [atUnit : BOOLEAN, owner : Users \cup {Nobody}]]
  /\ ledger \in [Requests -> Ledger]
  /\ troubles \subseteq Troubles /\ Cardinality(troubles) <= MaxTroubles

DashboardInit ==
  /\ session = Nobody
  /\ tab = AtLogin
  /\ customer = [u \in Users |-> "none"]
  /\ request = [n \in Requests |-> [step |-> "none", customer |-> Nobody, user |-> Nobody]]
  /\ account = [n \in Requests |-> [atUnit |-> FALSE, owner |-> Nobody]]
  /\ ledger = [n \in Requests |-> NewLedger(0)]
  /\ troubles = {}

Trouble(kind) ==
  /\ kind \in Troubles \ troubles
  /\ Cardinality(troubles) < MaxTroubles
  /\ troubles' = troubles \cup {kind}

-----------------------------------------------------------------------------
(* Pages and the session.                                                  *)

\* A request for page p goes out, and the proxy lets it pass or sends the tab
\* to /login.  It takes the place of a render under way.
Request(t, p, n) ==
  IF session = Nobody
  THEN [AtLogin EXCEPT !.waiting = t.waiting, !.told = t.told]
  ELSE [t EXCEPT !.render = [page |-> p, about |-> n, todo |-> Reads(p),
                             view |-> EmptyView(session)]]

\* The login page goes on to the dashboard.
LogIn(t, u) == [t EXCEPT !.render = [page |-> "dashboard", about |-> None,
                                     todo |-> Reads("dashboard"), view |-> EmptyView(u)]]

\* The cookie is set.
SignIn(u) ==
  /\ tab.page = "login"
  /\ session' = u
  /\ tab' = LogIn(tab, u)
  /\ UNCHANGED <<customer, request, account, ledger, troubles>>

\* signOut ends with a load of /login, which ends the scripts of the page.
SignOut ==
  /\ tab.page # "login"
  /\ session' = Nobody
  /\ tab' = [AtLogin EXCEPT !.told = tab.told]
  /\ UNCHANGED <<customer, request, account, ledger, troubles>>

\* Another tab signs out or in.
ElsewhereSigns(u) ==
  /\ u # session
  /\ Trouble("session")
  /\ session' = u
  /\ UNCHANGED <<tab, customer, request, account, ledger>>

\* A link to the dashboard.
GoToDashboard ==
  /\ tab' = Request(tab, "dashboard", None)
  /\ UNCHANGED <<session, customer, request, account, ledger, troubles>>

\* The dashboard lists accounts below their customer.
Listed(v) == IF v.customer = "none" THEN {} ELSE v.accounts

\* A link to an account that the dashboard lists, or the refresh button of its
\* page.
GoToAccount(n) ==
  /\ n \in Listed(tab.view) \cup {tab.about}
  /\ tab' = Request(tab, "account", n)
  /\ UNCHANGED <<session, customer, request, account, ledger, troubles>>

-----------------------------------------------------------------------------
(* Rendering on the server.                                                *)

\* Mutant: the page of an account reads both at once.
CanRead_Both(what) == what \in tab.render.todo
\* The dashboard's reads are a Promise.all, those of an account one after the
\* other.
CanRead(what) ==
  /\ what \in tab.render.todo
  /\ what = "transactions" => "account" \notin tab.render.todo

\* A read is done, and the view to be shown is v.
HasRead(what, v) ==
  /\ tab' = [tab EXCEPT !.render.todo = @ \ {what}, !.render.view = v]
  /\ UNCHANGED <<session, customer, request, account, ledger>>

Reader == tab.render.view.user

ReadCustomers ==
  /\ CanRead("customers")
  /\ HasRead("customers", [tab.render.view EXCEPT !.customer = customer[Reader]])
  /\ UNCHANGED troubles

AccountsOf(u) == {n \in Requests : account[n].owner = u}

ReadAccounts ==
  /\ CanRead("accounts")
  /\ HasRead("accounts", [tab.render.view EXCEPT !.accounts = AccountsOf(Reader)])
  /\ UNCHANGED troubles

ReadAccount ==
  LET n == tab.render.about
  IN /\ CanRead("account")
     /\ n \in AccountsOf(Reader)
     /\ HasRead("account", [tab.render.view EXCEPT !.balance = ledger[n].balance])
     /\ UNCHANGED troubles

\* notFound(): the account is not the user's.  The page does not know what to
\* make of other answers, and there is none either.
FindNoAccount ==
  /\ CanRead("account")
  /\ \/ tab.render.about \notin AccountsOf(Reader) /\ UNCHANGED troubles
     \/ Trouble("read")
  /\ tab' = [tab EXCEPT !.page = "missing", !.about = None, !.view = EmptyView(Reader),
                        !.render = NoRender, !.busy = None]
  /\ UNCHANGED <<session, customer, request, account, ledger>>

ReadTransactions ==
  LET n == tab.render.about
  IN /\ CanRead("transactions")
     /\ HasRead("transactions",
          [tab.render.view EXCEPT !.listed = IF n \in AccountsOf(Reader)
                                             THEN ledger[n].recorded ELSE {}])
     /\ UNCHANGED troubles

\* Whatever is not a 200 counts as an empty list.
ReadFails(what) ==
  /\ what # "account"
  /\ CanRead(what)
  /\ Trouble("read")
  /\ HasRead(what, tab.render.view)

\* The dashboard has a button "Create account" for an active customer without
\* accounts.
Offers(v) == v.customer = "Active" /\ v.accounts = {}

\* The page is there.  A button that was there already keeps its state.
ShowPage ==
  LET r == tab.render
      staysMounted == /\ tab.page = "dashboard" /\ r.page = "dashboard"
                      /\ r.view.user = tab.view.user /\ Offers(r.view)
  IN /\ r.page # "none" /\ r.todo = {}
     /\ tab' = [tab EXCEPT !.page = r.page, !.about = r.about, !.view = r.view,
                           !.render = NoRender,
                           !.busy = IF staysMounted THEN @ ELSE None]
     /\ UNCHANGED <<session, customer, request, account, ledger, troubles>>

-----------------------------------------------------------------------------
(* The button.                                                             *)

\* handleClick, up to its fetch: the customer is the page's, the user the
\* cookie's.
Click(n) ==
  /\ tab.page = "dashboard" /\ Offers(tab.view)
  /\ tab.busy = None
  /\ request[n].step = "none"
  /\ \A m \in 1..(n - 1) : request[m].step # "none"
  /\ request' = [request EXCEPT ![n] =
                   [step |-> "sent", customer |-> tab.view.user, user |-> session]]
  /\ tab' = [tab EXCEPT !.busy = n, !.waiting = @ \cup {n}]
  /\ UNCHANGED <<session, customer, account, ledger, troubles>>

\* The callback of fetch n is done with it.
Heard(t, n) == [t EXCEPT !.waiting = @ \ {n}, !.busy = IF @ = n THEN None ELSE @]

\* Mutant: no router.refresh().
Refresh_Never(t) == t
\* router.refresh(): the page the tab is at, or on its way to, is requested
\* again.  Nobody waits for it.
Refresh(t) ==
  IF t.render.page # "none" THEN Request(t, t.render.page, t.render.about)
  ELSE IF t.page \in {"dashboard", "account"} THEN Request(t, t.page, t.about)
  ELSE t

HearCreated(n) ==
  /\ n \in tab.waiting
  /\ request[n].step = "ok"
  /\ tab' = Refresh([Heard(tab, n) EXCEPT !.told = @ \cup {n}])
  /\ UNCHANGED <<session, customer, request, account, ledger, troubles>>

\* An error is displayed below the button; the page is left as it is.
HearError(n) ==
  /\ n \in tab.waiting
  /\ request[n].step = "failed"
  /\ tab' = Heard(tab, n)
  /\ UNCHANGED <<session, customer, request, account, ledger, troubles>>

\* The fetch throws: nothing is displayed at all.
HearNothing(n) ==
  /\ n \in tab.waiting
  /\ Trouble("network")
  /\ tab' = Heard(tab, n)
  /\ UNCHANGED <<session, customer, request, account, ledger>>

-----------------------------------------------------------------------------
(* POST /accounts.                                                         *)

\* Mutant: the customer is looked up by its id alone.
IsEligible_Anyones(c, u) == u # Nobody /\ customer[c] = "Active"
\* internal-api.ts finds a session, and findActiveCustomerForUser the customer.
IsEligible(c, u) == u = c /\ customer[c] = "Active"

Goes(n, s) == request' = [request EXCEPT ![n].step = s]

CheckCustomer(n) ==
  /\ request[n].step = "sent"
  /\ Goes(n, IF IsEligible(request[n].customer, request[n].user) THEN "calling" ELSE "failed")
  /\ UNCHANGED <<session, tab, customer, account, ledger, troubles>>

\* Unit refuses, or internalAuthGuard finds that the token has expired.
Refuse(n) ==
  /\ request[n].step \in {"sent", "calling"}
  /\ Goes(n, "failed")
  /\ UNCHANGED <<session, tab, customer, account, ledger, troubles>>

UnitOpens(n) ==
  /\ request[n].step = "calling"
  /\ Goes(n, "opened")
  /\ account' = [account EXCEPT ![n].atUnit = TRUE]
  /\ UNCHANGED <<session, tab, customer, ledger, troubles>>

\* createAccountRecord, which throws on the row that a backfill has inserted.
\* Unit's answer was of a new account, without transactions.
InsertRow(n) ==
  /\ request[n].step = "opened"
  /\ IF account[n].owner = Nobody
     THEN /\ account' = [account EXCEPT ![n].owner = request[n].user]
          /\ ledger' = [ledger EXCEPT ![n] = NewLedger(0)]
          /\ Goes(n, "ok")
     ELSE Goes(n, "failed") /\ UNCHANGED <<account, ledger>>
  /\ UNCHANGED <<session, tab, customer, troubles>>

\* The API dies, or does not understand Unit's answer.
LoseAccount(n) ==
  /\ request[n].step = "opened"
  /\ Trouble("api")
  /\ Goes(n, "failed")
  /\ UNCHANGED <<session, tab, customer, account, ledger>>

-----------------------------------------------------------------------------
(* Webhooks, as far as the pages show what they do.                        *)

\* backfillAccountFromUnit: the owner is the customer's, and the balance what
\* getAccount says, whatever has been posted meanwhile.
BackfillRow(n) ==
  /\ account[n].atUnit /\ account[n].owner = Nobody
  /\ account' = [account EXCEPT ![n].owner = request[n].customer]
  /\ \E balance \in Fetched : ledger' = [ledger EXCEPT ![n] = NewLedger(balance)]
  /\ UNCHANGED <<session, tab, customer, request, troubles>>

\* isStale: the row has had this event or a later one.  (Status events stamp the
\* row as well; to the pages that is as if the transaction had not come yet.)
IsStale(n, t) == ledger[n].stamp >= t

\* The commit of applyTransactionCreated for Unit's t-th transaction: the entry,
\* and Unit's balance after it.  What is stale, or there already, is skipped for
\* good, and so is what comes before the row.
RecordEntry(n, t) ==
  /\ account[n].owner # Nobody /\ n \in InUse
  /\ ~IsStale(n, t) /\ t \notin ledger[n].recorded
  /\ ledger' = [ledger EXCEPT ![n] =
       [opened |-> @.opened, balance |-> t, stamp |-> t,
        recorded |-> @.recorded \cup {t}]]
  /\ UNCHANGED <<session, tab, customer, request, account, troubles>>

\* An application is approved; later its customer is archived.
CustomerBecomes(u, status) ==
  /\ u \in Approved
  /\ <<customer[u], status>> \in {<<"none", "Active">>, <<"Active", "Archived">>}
  /\ customer' = [customer EXCEPT ![u] = status]
  /\ UNCHANGED <<session, tab, request, account, ledger, troubles>>

DashboardNext ==
  \/ \E u \in Users : SignIn(u)
  \/ SignOut
  \/ \E u \in Users \cup {Nobody} : ElsewhereSigns(u)
  \/ GoToDashboard
  \/ \E n \in Requests : GoToAccount(n)
  \/ ReadCustomers \/ ReadAccounts \/ ReadAccount \/ FindNoAccount \/ ReadTransactions
  \/ \E what \in {"customers", "accounts", "transactions"} : ReadFails(what)
  \/ ShowPage
  \/ \E n \in Requests :
       \/ Click(n) \/ HearCreated(n) \/ HearError(n) \/ HearNothing(n)
       \/ CheckCustomer(n) \/ Refuse(n) \/ UnitOpens(n) \/ InsertRow(n) \/ LoseAccount(n)
       \/ BackfillRow(n)
       \/ \E t \in Transactions : RecordEntry(n, t)
  \/ \E u \in Users, status \in {"Active", "Archived"} : CustomerBecomes(u, status)

DashboardSpec == DashboardInit /\ [][DashboardNext]_dashboardVars

-----------------------------------------------------------------------------
(* Properties.                                                             *)

\* README.md:28, an approved customer opens a deposit account: once a tab has
\* been told of the account and is not about to show another page, it does not
\* offer to open one again, wherever it has been and whoever was signed in
\* meanwhile, unless a list could not be read.  (A click before that opens a
\* second account, and so does one after an answer that was lost or untrue.)
NoSecondOffer ==
  (tab.page = "dashboard" /\ Offers(tab.view) /\ tab.render = NoRender) =>
    \/ \A n \in tab.told : request[n].customer # tab.view.user
    \/ "read" \in troubles

\* Accounts belong to the user of the customer they were opened for, whichever
\* of POST /accounts and the backfill inserts the row and whoever has signed in
\* since the page was rendered; and a tab shows no accounts but those of the
\* user it was rendered for.
OwnersAgree ==
  /\ \A n \in Requests : account[n].owner \in {Nobody, request[n].customer}
  /\ \A n \in tab.view.accounts \cup {tab.about} :
       n # None => account[n].owner = tab.view.user

\* The page of an account lists what its balance comes from: unless it is still
\* the one the row was made with, its transaction is in the list, with all that
\* are in the ledger from before it, whatever webhooks commit between the two
\* reads (accounts/[id]/page.tsx:27,35), or a read has failed.  What has been
\* skipped, or had been posted before the row was made, is in the balance and in
\* no list.
ListReachesBalance ==
  tab.page = "account" =>
    LET row == ledger[tab.about]
        shown == tab.view.balance
    IN \/ shown = row.opened
       \/ {shown} \cup {t \in row.recorded : t < shown} \subseteq tab.view.listed
       \/ "read" \in troubles
=============================================================================
