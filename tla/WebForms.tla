------------------------------- MODULE WebForms -------------------------------
(***************************************************************************)
(* A form of the web app in a browser tab.  A submit disables its button,  *)
(* makes a new idempotency key and goes through the BFF route and          *)
(* internal-api.ts to the API; the form then shows the resource or an      *)
(* error.  Two forms go on to poll what they show: the onboarding form     *)
(* itself, and the payment form in a child component that a submit         *)
(* unmounts (payment-status-poller.ts).                                    *)
(*                                                                         *)
(* JavaScript runs to completion, so that a callback, the render after it  *)
(* and the effect of that render are one action; what may come in between  *)
(* are the awaits.                                                         *)
(*                                                                         *)
(* The API is a black box here (Idempotency.tla has it): a key is used     *)
(* once, so a request makes one resource or none, and says so or fails.    *)
(* A row moves on through statuses 1..LastStatus, of which the last is     *)
(* terminal; the webhooks that move it are in Payments.tla and             *)
(* Onboarding.tla.                                                         *)
(***************************************************************************)
EXTENDS Naturals

CONSTANTS MaxSubmits,     \* bound: submits of the form
          MaxPolls,       \* polls before the form gives up (20 in the code)
          LastStatus,     \* the terminal status of a row
          Mishaps         \* what may go wrong, each once: see MishapKinds

VARIABLES page,           \* which form it is; never changes
          form,           \* its React state: see Form
          submits,        \* submits so far; the nth has the nth key
          intention,      \* intention[n]: the first submit of what n is to make
          post,           \* post[n]: [step, status], the POST of submit n
          made,           \* the submits whose resource exists at Unit
          row,            \* row[n]: the status of the resource's row, or NoRow
          polls,          \* polls under way: [of, status]
          overtaken,      \* history: a submit found a poll, or the way to
                          \* another page, under way
          mishaps         \* what has gone wrong so far

serverVars == <<post, made, row>>
vars == <<page, form, submits, intention, serverVars, polls, overtaken, mishaps>>

Pages == {"application", "payment", "card", "counterparty"}
MishapKinds == {"network",   \* the browser's fetch throws
                "api",       \* the API made the resource but failed to say so
                "poll"}      \* a poll throws or is answered with an error

Submits == 1..MaxSubmits
NoRow == 0
Nothing == 0

Form == [busy : BOOLEAN,                      \* isSubmitting
         error : BOOLEAN,                     \* an error is displayed
         shown : Submits \cup {Nothing},      \* the resource displayed
         seen : [Submits -> 0..LastStatus],   \* the statuses last displayed
         leaving : Submits \cup {Nothing},    \* router.push to it is under way
         polling : BOOLEAN, pollCount : 0..MaxPolls,
         timers : SUBSET Submits]             \* whom a timer is to poll

ASSUME WebFormsAssumption ==
  /\ MaxSubmits \in Nat /\ MaxPolls \in Nat \ {0} /\ LastStatus \in Nat \ {0}
  /\ Mishaps \subseteq MishapKinds

TypeOK ==
  /\ page \in Pages
  /\ form \in Form
  /\ submits \in 0..MaxSubmits
  /\ intention \in [Submits -> Submits]
  /\ post \in [Submits -> [step : {"none", "sent", "ok", "failed"}, status : 0..LastStatus]]
  /\ made \subseteq Submits
  /\ row \in [Submits -> 0..LastStatus]
  /\ polls \subseteq [of : Submits, status : 0..LastStatus]
  /\ overtaken \in BOOLEAN
  /\ mishaps \subseteq Mishaps

FormInit ==
  /\ form = [busy |-> FALSE, error |-> FALSE, shown |-> Nothing,
             seen |-> [n \in Submits |-> NoRow], leaving |-> Nothing,
             polling |-> FALSE, pollCount |-> 0, timers |-> {}]
  /\ submits = 0
  /\ intention = [n \in Submits |-> n]
  /\ post = [n \in Submits |-> [step |-> "none", status |-> NoRow]]
  /\ made = {}
  /\ row = [n \in Submits |-> NoRow]
  /\ polls = {}
  /\ overtaken = FALSE
  /\ mishaps = {}

Init == page \in Pages /\ FormInit

Mishap(kind) == kind \in Mishaps \ mishaps /\ mishaps' = mishaps \cup {kind}

-----------------------------------------------------------------------------
(* The hooks of React.                                                     *)

\* Mutants: one poll too many, and one too few.
GivesUp_Late(f) == f.pollCount > MaxPolls
GivesUp_Early(f) == f.pollCount >= MaxPolls - 1
GivesUp(f) == f.pollCount >= MaxPolls

\* Mutant: the effect returns without setIsPolling(false).
Stopped_Silently(f) == [f EXCEPT !.timers = {}]
Stopped(f) == [f EXCEPT !.timers = {}, !.polling = FALSE]

\* The useEffect of the two polling forms, after a render that changed what it
\* depends on: the timer of the previous render is cleared; then polling ends,
\* or there is a timer for what is shown now.
Effect(f) ==
  IF f.shown = Nothing \/ ~f.polling
  THEN [f EXCEPT !.timers = {}]
  ELSE IF f.seen[f.shown] = LastStatus \/ GivesUp(f)
       THEN Stopped(f)
       ELSE [f EXCEPT !.timers = {f.shown}]

\* The form f shows resource n with the given status.
Show(f, n, status) == [f EXCEPT !.shown = n, !.seen[n] = status]

\* Mutant: the payment form keeps its poller mounted.
Unmounts_Never(p) == FALSE
\* setCreatedPayment(null) takes the poller of the payment form away with its
\* state; the onboarding form polls by itself and goes on with what it has.
Unmounts(p) == p = "payment"

Polls(p) == p \in {"application", "payment"}

\* The card form goes to the page of the card it has made.
Leaves(p) == p = "card"

-----------------------------------------------------------------------------
(* The form.                                                               *)

\* Mutant: a button that stays enabled.
CanSubmit_Busy(f) == TRUE
\* disabled={isSubmitting}.
CanSubmit(f) == ~f.busy

\* handleSubmit, up to its fetch.  A user who has not been shown a resource may
\* be at the same intention still.
Submit ==
  LET n == submits + 1
  IN /\ submits < MaxSubmits
     /\ CanSubmit(form)
     /\ submits' = n
     /\ \/ UNCHANGED intention
        \/ /\ n > 1 /\ form.shown = Nothing
           /\ intention' = [intention EXCEPT ![n] = intention[submits]]
     /\ form' = [form EXCEPT !.busy = TRUE, !.error = FALSE, !.shown = Nothing,
                             !.pollCount = 0, !.timers = {},
                             !.polling = @ /\ ~Unmounts(page)]
     /\ polls' = IF Unmounts(page) THEN {} ELSE polls
     /\ overtaken' = (overtaken \/ polls' # {} \/ form.leaving # Nothing)
     /\ post' = [post EXCEPT ![n].step = "sent"]
     /\ UNCHANGED <<page, made, row, mishaps>>

\* The response is a resource: it is shown, and polled if the form does that.
ShowResult ==
  /\ form.busy
  /\ post[submits].step = "ok"
  /\ ~Leaves(page)
  /\ form' = Effect(Show([form EXCEPT !.busy = FALSE, !.polling = @ \/ Polls(page)],
                         submits, post[submits].status))
  /\ UNCHANGED <<page, submits, intention, serverVars, polls, overtaken, mishaps>>

\* Or the browser is told to go to its page: nobody waits for router.push, and
\* the button is enabled as long as the old page is there.
StartLeaving ==
  /\ form.busy
  /\ post[submits].step = "ok"
  /\ Leaves(page)
  /\ form' = [form EXCEPT !.busy = FALSE, !.leaving = submits]
  /\ UNCHANGED <<page, submits, intention, serverVars, polls, overtaken, mishaps>>

\* The page of the resource is there.
Arrive ==
  /\ form.leaving # Nothing
  /\ form' = Show([form EXCEPT !.leaving = Nothing], form.leaving, row[form.leaving])
  /\ UNCHANGED <<page, submits, intention, serverVars, polls, overtaken, mishaps>>

\* It is an error, of the API or of the BFF.
ShowError ==
  /\ form.busy
  /\ post[submits].step = "failed"
  /\ form' = [form EXCEPT !.busy = FALSE, !.error = TRUE]
  /\ UNCHANGED <<page, submits, intention, serverVars, polls, overtaken, mishaps>>

\* Mutant: no form catches.
Catches_Never(p) == FALSE
\* Only the onboarding form has a catch; the others have just their finally.
Catches(p) == p = "application"

\* The browser's fetch throws, or response.json() on a body that is none,
\* whatever the server is at or goes on to do.
FetchThrows ==
  /\ form.busy
  /\ Mishap("network")
  /\ form' = [form EXCEPT !.busy = FALSE, !.error = Catches(page)]
  /\ UNCHANGED <<page, submits, intention, serverVars, polls, overtaken>>

-----------------------------------------------------------------------------
(* The BFF and the API.                                                    *)

ApiCreates(n) ==
  /\ post[n].step = "sent"
  /\ made' = made \cup {n}
  /\ \E status \in {1, LastStatus} :
       /\ row' = [row EXCEPT ![n] = status]
       /\ post' = [post EXCEPT ![n] = [step |-> "ok", status |-> status]]
  /\ UNCHANGED <<page, form, submits, intention, polls, overtaken, mishaps>>

\* A 4xx, or no session: the catch of the BFF route answers 401.
ApiRefuses(n) ==
  /\ post[n].step = "sent"
  /\ post' = [post EXCEPT ![n].step = "failed"]
  /\ UNCHANGED <<page, form, submits, intention, made, row, polls, overtaken, mishaps>>

\* Unit made the resource, but the API fails with a 5xx, or dies, of which the
\* BFF route makes a 401 as well.
ApiFails(n) ==
  /\ post[n].step = "sent"
  /\ Mishap("api")
  /\ made' = made \cup {n}
  /\ post' = [post EXCEPT ![n].step = "failed"]
  /\ UNCHANGED <<page, form, submits, intention, row, polls, overtaken>>

RowMoves(n) ==
  /\ row[n] # NoRow /\ row[n] < LastStatus
  /\ row' = [row EXCEPT ![n] = @ + 1]
  /\ UNCHANGED <<page, form, submits, intention, post, made, polls, overtaken, mishaps>>

-----------------------------------------------------------------------------
(* Polling.                                                                *)

\* Mutant: the next timer is started before the answer is awaited.
Fired_Rearmed(f, n) == Effect([f EXCEPT !.pollCount = @ + 1])
\* The timer of n has fired.
Fired(f, n) == [f EXCEPT !.timers = @ \ {n}, !.pollCount = @ + 1]

Fire(n) ==
  /\ n \in form.timers
  /\ form' = Fired(form, n)
  /\ polls' = polls \cup {[of |-> n, status |-> NoRow]}
  /\ UNCHANGED <<page, submits, intention, serverVars, overtaken, mishaps>>

\* GET /payments/:id or /applications/:id reads the row.
ReadRow(p) ==
  /\ p \in polls /\ p.status = NoRow
  /\ polls' = (polls \ {p}) \cup {[p EXCEPT !.status = row[p.of]]}
  /\ UNCHANGED <<page, form, submits, intention, serverVars, overtaken, mishaps>>

\* setPayment or setApplication with the answer, whatever is shown by now.
ShowPoll(p) ==
  /\ p \in polls /\ p.status # NoRow
  /\ polls' = polls \ {p}
  /\ form' = Effect(Show(form, p.of, p.status))
  /\ UNCHANGED <<page, submits, intention, serverVars, overtaken, mishaps>>

\* Not ok, or thrown: no state changes, hence no render and no effect.
PollFails(p) ==
  /\ p \in polls
  /\ Mishap("poll")
  /\ polls' = polls \ {p}
  /\ UNCHANGED <<page, form, submits, intention, serverVars, overtaken>>

Poll ==
  \/ \E n \in Submits : Fire(n)
  \/ \E p \in polls : ReadRow(p) \/ ShowPoll(p)

\* Whoever used the tab has gone, and nothing is under way.
Rest ==
  /\ ~form.busy /\ form.leaving = Nothing /\ form.timers = {} /\ polls = {}
  /\ UNCHANGED vars

Next ==
  \/ Submit \/ ShowResult \/ StartLeaving \/ Arrive \/ ShowError \/ FetchThrows
  \/ \E n \in Submits : ApiCreates(n) \/ ApiRefuses(n) \/ ApiFails(n) \/ RowMoves(n)
  \/ Poll
  \/ \E p \in polls : PollFails(p)
  \/ Rest

Spec == Init /\ [][Next]_vars

\* Timers fire, and a GET of one row is answered, or fails.
FairSpec == Spec /\ WF_vars(Poll)

-----------------------------------------------------------------------------
(* Properties.                                                             *)

\* What a form shows is what was submitted last, though the answers of polls
\* arrive whenever they do: the payment form drops those of an older payment,
\* the onboarding form only if none was under way at the submit
\* (onboarding-form.tsx:148 sets the application without looking which it is),
\* and the card form goes to the earlier card if it was on its way there.
ShowsTheLast ==
  form.shown \in {Nothing, submits} \/ (page \in {"application", "card"} /\ overtaken)

\* The status shown of a resource never goes back to an earlier one.
NeverGoesBack == [][\A n \in Submits : form'.seen[n] >= form.seen[n]]_vars

\* A form that shows a resource and polls no more has seen its last status or
\* used up its polls (onboarding-form.tsx:139, with the same exception).
StopsForAReason ==
  (Polls(page) /\ form.shown # Nothing /\ ~form.polling) =>
    \/ form.seen[form.shown] = LastStatus
    \/ form.pollCount = MaxPolls
    \/ overtaken

\* It does not say "checking for updates..." for ever, unless a poll has failed:
\* then no state changes and the effect does not run again.
PollingEnds ==
  form.polling ~> (~form.polling \/ form.shown = Nothing \/ "poll" \in mishaps)

\* Every key is new, so only the form keeps the user from making the same thing
\* twice: that needs a request whose answer was lost or did not tell the truth,
\* or a second click on the card form before the page of the card is there
\* (card-form.tsx:92).
MadeOnce ==
  (mishaps \cap {"network", "api"} = {} /\ ~(page = "card" /\ overtaken)) =>
    \A m, n \in made : intention[m] = intention[n] => m = n

\* A submit does not end without a word, except that a form without a catch
\* says nothing when the network fails.
NothingSilent ==
  (submits > 0 /\ ~form.busy) =>
    \/ form.shown # Nothing \/ form.error \/ form.leaving # Nothing
    \/ ("network" \in mishaps /\ page # "application")
=============================================================================
