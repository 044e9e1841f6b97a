---------------------------- MODULE WebAppProofs -----------------------------
(***************************************************************************)
(* Theorems about WebApp.tla, for any number of submits, polls, statuses   *)
(* and mishaps of a form, and any users, clicks, transactions and troubles *)
(* of the dashboard.                                                       *)
(*                                                                         *)
(* A form waits for several answers at a time; FInv says which there can   *)
(* be, how they relate to what the form has shown, and, as long as no      *)
(* submit has found something under way (overtaken), that all of them are  *)
(* of the last submit.  DInv says of the dashboard whose the accounts are, *)
(* and what the page that is shown and the one on its way know of them.    *)
(***************************************************************************)
EXTENDS WebApp, TLAPS, FiniteSetTheorems

FormTypeOK ==
  /\ page \in Pages \cup {"dashboard"}
  /\ form \in Form
  /\ submits \in 0..MaxSubmits
  /\ intention \in [Submits -> Submits]
  /\ post \in [Submits -> [step : {"none", "sent", "ok", "failed"}, status : 0..LastStatus]]
  /\ made \subseteq Submits
  /\ row \in [Submits -> 0..LastStatus]
  /\ polls \subseteq [of : Submits, status : 0..LastStatus]
  /\ overtaken \in BOOLEAN
  /\ mishaps \subseteq Mishaps

\* There is one timer at most, and one poll of each resource.
PollsAreSound ==
  /\ \A n \in form.timers : form.shown = n /\ form.polling /\ form.pollCount < MaxPolls
  /\ ~Polls(page) => ~form.polling /\ polls = {}
  /\ \A p, q \in polls : p.of = q.of => p = q
  /\ \A p \in polls : p.of \notin form.timers

\* Unless a submit has found something under way, all is about the last one.
AllOfTheLast ==
  /\ page \notin {"application", "card"} => ~overtaken
  /\ form.leaving # Nothing => page = "card"
  /\ ~overtaken =>
       /\ form.shown \in {Nothing, submits}
       /\ form.leaving \in {Nothing, submits}
       /\ \A p \in polls : p.of = submits /\ form.shown = submits /\ form.polling

\* A busy form has not shown what it waits for.
BusyIsSound ==
  /\ form.shown <= submits /\ form.leaving <= submits
  /\ \A p \in polls : p.of <= submits
  /\ form.busy =>
       /\ submits \in Submits
       /\ form.shown # submits /\ form.leaving # submits
       /\ form.seen[submits] = NoRow
       /\ \A p \in polls : p.of # submits

\* The status shown of a resource is no newer than an answer on its way, and
\* that no newer than the row.
SeenIsSound ==
  /\ \A n \in Submits :
       /\ n > submits => form.seen[n] = NoRow /\ post[n].step = "none"
       /\ form.seen[n] <= row[n]
       /\ post[n].step \in {"none", "sent"} => row[n] = NoRow
       /\ post[n].step = "ok" => post[n].status <= row[n]
  /\ \A p \in polls : p.status # NoRow =>
       form.seen[p.of] <= p.status /\ p.status <= row[p.of]

\* No answer was lost or untrue, and no card was submitted on leaving.
Quiet ==
  /\ "network" \notin mishaps /\ "api" \notin mishaps
  /\ ~(page = "card" /\ overtaken)

\* Of the submits with one intention only the last has made something.
IntentionsAreSound ==
  /\ \A n \in Submits : intention[n] <= n /\ (n > submits => intention[n] = n)
  /\ \A n \in made : post[n].step \in {"ok", "failed"}
  /\ Quiet =>
       /\ \A n \in Submits : post[n].step = "sent" => n = submits /\ form.busy
       /\ \A n \in made : post[n].step = "ok"
       /\ \A m, n \in Submits :
            m < n /\ n <= submits /\ intention[m] = intention[n] => m \notin made
       /\ (submits > 0 /\ ~form.busy /\ form.shown = Nothing /\ form.leaving = Nothing) =>
            post[submits].step = "failed"

FInv ==
  /\ FormTypeOK
  /\ PollsAreSound
  /\ AllOfTheLast
  /\ BusyIsSound
  /\ SeenIsSound
  /\ IntentionsAreSound
  /\ StopsForAReason
  /\ NothingSilent

-----------------------------------------------------------------------------
(* The state of a form.                                                    *)

LEMMA FormFields ==
  ASSUME NEW f \in Form
  PROVE  /\ f.busy \in BOOLEAN /\ f.error \in BOOLEAN /\ f.polling \in BOOLEAN
         /\ f.shown \in Submits \cup {Nothing} /\ f.leaving \in Submits \cup {Nothing}
         /\ f.seen \in [Submits -> 0..LastStatus]
         /\ f.pollCount \in 0..MaxPolls /\ f.timers \subseteq Submits
BY DEF Form

LEMMA PollsReset ==
  ASSUME NEW f \in Form, NEW c \in 0..MaxPolls, NEW s \in SUBSET Submits, NEW b \in BOOLEAN
  PROVE  [f EXCEPT !.pollCount = c, !.timers = s, !.polling = b] \in Form
BY DEF Form

\* What the effect does: it ends polling, sets the one timer, or has nothing
\* to do.
LEMMA EffectDoes ==
  ASSUME NEW f \in Form
  PROVE  /\ Effect(f) \in Form
         /\ Effect(f).busy = f.busy /\ Effect(f).error = f.error
         /\ Effect(f).shown = f.shown /\ Effect(f).leaving = f.leaving
         /\ Effect(f).seen = f.seen /\ Effect(f).pollCount = f.pollCount
         /\ \/ /\ f.shown = Nothing \/ ~f.polling
               /\ Effect(f).timers = {} /\ Effect(f).polling = f.polling
            \/ /\ f.shown # Nothing /\ f.polling
               /\ f.seen[f.shown] = LastStatus \/ f.pollCount = MaxPolls
               /\ Effect(f).timers = {} /\ ~Effect(f).polling
            \/ /\ f.shown # Nothing /\ f.polling
               /\ f.pollCount < MaxPolls
               /\ Effect(f).timers = {f.shown} /\ Effect(f).polling
<1> USE WebFormsAssumption
<1>0. /\ f.busy \in BOOLEAN /\ f.error \in BOOLEAN /\ f.polling \in BOOLEAN
      /\ f.shown \in Submits \cup {Nothing} /\ f.leaving \in Submits \cup {Nothing}
      /\ f.seen \in [Submits -> 0..LastStatus]
      /\ f.pollCount \in 0..MaxPolls /\ f.timers \subseteq Submits
  BY FormFields
<1>1. CASE f.shown = Nothing \/ ~f.polling
  <2>1. Effect(f) = [f EXCEPT !.timers = {}]
    BY <1>1 DEF Effect
  <2> QED
    BY <1>0, <1>1, <2>1 DEF Form
<1>2. CASE ~(f.shown = Nothing \/ ~f.polling) /\ (f.seen[f.shown] = LastStatus \/ GivesUp(f))
  <2>1. Effect(f) = [f EXCEPT !.timers = {}, !.polling = FALSE]
    BY <1>2 DEF Effect, Stopped
  <2>2. GivesUp(f) => f.pollCount = MaxPolls
    BY <1>0 DEF GivesUp
  <2> QED
    BY <1>0, <1>2, <2>1, <2>2 DEF Form
<1>3. CASE ~(f.shown = Nothing \/ ~f.polling) /\ ~(f.seen[f.shown] = LastStatus \/ GivesUp(f))
  <2>1. Effect(f) = [f EXCEPT !.timers = {f.shown}]
    BY <1>3 DEF Effect
  <2>2. f.pollCount < MaxPolls
    BY <1>0, <1>3 DEF GivesUp
  <2> QED
    BY <1>0, <1>3, <2>1, <2>2 DEF Form
<1> QED
  BY <1>1, <1>2, <1>3

LEMMA ShowDoes ==
  ASSUME NEW f \in Form, NEW n \in Submits, NEW status \in 0..LastStatus
  PROVE  /\ Show(f, n, status) \in Form
         /\ Show(f, n, status).busy = f.busy /\ Show(f, n, status).error = f.error
         /\ Show(f, n, status).shown = n /\ Show(f, n, status).leaving = f.leaving
         /\ Show(f, n, status).seen = [f.seen EXCEPT ![n] = status]
         /\ Show(f, n, status).polling = f.polling
         /\ Show(f, n, status).pollCount = f.pollCount
         /\ Show(f, n, status).timers = f.timers
BY DEF Form, Show

LEMMA InitFInv == FormInit /\ page \in Pages \cup {"dashboard"} => FInv
<1> SUFFICES ASSUME FormInit, page \in Pages \cup {"dashboard"} PROVE FInv
  OBVIOUS
<1> USE WebFormsAssumption
<1>1. /\ form.busy = FALSE /\ form.error = FALSE /\ form.shown = Nothing
      /\ form.seen = [n \in Submits |-> NoRow] /\ form.leaving = Nothing
      /\ form.polling = FALSE /\ form.pollCount = 0 /\ form.timers = {}
      /\ form \in Form
  BY DEF FormInit, Form, NoRow
<1>2. /\ submits = 0 /\ intention = [n \in Submits |-> n] /\ made = {}
      /\ post = [n \in Submits |-> [step |-> "none", status |-> NoRow]]
      /\ row = [n \in Submits |-> NoRow] /\ polls = {} /\ overtaken = FALSE /\ mishaps = {}
  BY DEF FormInit
<1>3. FormTypeOK
  <2>1. post \in [Submits -> [step : {"none", "sent", "ok", "failed"}, status : 0..LastStatus]]
    BY <1>2 DEF NoRow
  <2>2. row \in [Submits -> 0..LastStatus] /\ intention \in [Submits -> Submits]
    BY <1>2 DEF NoRow
  <2>3. submits \in 0..MaxSubmits
    BY <1>2
  <2> QED
    BY <1>1, <1>2, <2>1, <2>2, <2>3 DEF FormTypeOK
<1>4. PollsAreSound /\ AllOfTheLast /\ BusyIsSound /\ SeenIsSound
  BY <1>1, <1>2 DEF PollsAreSound, AllOfTheLast, BusyIsSound, SeenIsSound, NoRow, Nothing, Submits
<1>5. IntentionsAreSound
  <2>1. \A n \in Submits : intention[n] = n /\ post[n].step = "none" /\ n \in Nat /\ n > 0
    BY <1>2 DEF Submits
  <2> QED
    BY <1>2, <2>1 DEF IntentionsAreSound
<1>6. StopsForAReason /\ NothingSilent
  BY <1>1, <1>2 DEF StopsForAReason, NothingSilent
<1> QED
  BY <1>3, <1>4, <1>5, <1>6 DEF FInv

-----------------------------------------------------------------------------
(* The steps of a form.                                                    *)

\* The variables of the server and the polls stay, and so does what the form
\* shows and waits for.
LEMMA SubmitFInv == ASSUME FInv, Submit PROVE FInv'
<1> USE WebFormsAssumption DEF FInv
<1> DEFINE n == submits + 1
<1>0. /\ form.busy \in BOOLEAN /\ form.error \in BOOLEAN /\ form.polling \in BOOLEAN
      /\ form.shown \in Submits \cup {Nothing} /\ form.leaving \in Submits \cup {Nothing}
      /\ form.seen \in [Submits -> 0..LastStatus]
      /\ form.pollCount \in 0..MaxPolls /\ form.timers \subseteq Submits
      /\ submits \in Nat /\ n \in Submits /\ ~form.busy /\ n # Nothing
  BY FormFields DEF FormTypeOK, Submit, CanSubmit, Submits, Nothing
<1>1. /\ submits' = n
      /\ UNCHANGED <<page, made, row, mishaps>>
      /\ post' = [post EXCEPT ![n].step = "sent"]
      /\ polls' = IF Unmounts(page) THEN {} ELSE polls
      /\ overtaken' = (overtaken \/ polls' # {} \/ form.leaving # Nothing)
  BY DEF Submit
<1>2. /\ form' \in Form /\ form'.busy /\ ~form'.error /\ form'.shown = Nothing
      /\ form'.pollCount = 0 /\ form'.timers = {}
      /\ form'.polling = (form.polling /\ ~Unmounts(page))
      /\ form'.seen = form.seen /\ form'.leaving = form.leaving
  <2> DEFINE pol == form.polling /\ ~Unmounts(page)
  <2>1. form' = [form EXCEPT !.busy = TRUE, !.error = FALSE, !.shown = Nothing,
                             !.pollCount = 0, !.timers = {}, !.polling = pol]
    BY DEF Submit
  <2>2. pol \in BOOLEAN /\ form \in Form
    BY <1>0 DEF FormTypeOK, Unmounts
  <2> HIDE DEF pol
  <2>3. /\ form'.busy = TRUE /\ form'.error = FALSE /\ form'.shown = Nothing
        /\ form'.pollCount = 0 /\ form'.timers = {} /\ form'.polling = pol
        /\ form'.seen = form.seen /\ form'.leaving = form.leaving
    BY <2>1, <2>2 DEF Form
  <2>4. form' \in Form
    <3> DEFINE f == [form EXCEPT !.busy = TRUE, !.error = FALSE, !.shown = Nothing]
    <3>1. f \in Form
      BY <2>2 DEF Form
    <3>2. form' = [f EXCEPT !.pollCount = 0, !.timers = {}, !.polling = pol]
      BY <2>1
    <3> HIDE DEF f
    <3>3. 0 \in 0..MaxPolls /\ {} \in SUBSET Submits
      OBVIOUS
    <3> QED
      BY <2>2, <3>1, <3>2, <3>3, PollsReset
  <2> QED
    BY <2>3, <2>4 DEF pol
<1>3. \/ intention' = intention
      \/ /\ n > 1 /\ form.shown = Nothing
         /\ intention' = [intention EXCEPT ![n] = intention[submits]]
  BY DEF Submit
<1>4. /\ post' \in [Submits -> [step : {"none", "sent", "ok", "failed"}, status : 0..LastStatus]]
      /\ post'[n].step = "sent"
      /\ \A m \in Submits \ {n} : post'[m] = post[m]
  BY <1>0, <1>1 DEF FormTypeOK
<1>5. polls' \subseteq polls /\ (Unmounts(page) => polls' = {})
  BY <1>1
<1>6. FormTypeOK'
  <2>1. intention' \in [Submits -> Submits]
    <3>1. n > 1 => submits \in Submits
      BY <1>0 DEF Submits
    <3> QED
      BY <1>0, <1>3, <3>1 DEF FormTypeOK
  <2>2. submits' \in 0..MaxSubmits
    BY <1>0, <1>1 DEF Submits
  <2>3. overtaken' \in BOOLEAN
    BY <1>1 DEF FormTypeOK
  <2> QED
    BY <1>1, <1>2, <1>4, <1>5, <2>1, <2>2, <2>3 DEF FormTypeOK
<1>7. PollsAreSound'
  BY <1>1, <1>2, <1>5 DEF PollsAreSound, Polls
<1>8. AllOfTheLast'
  <2>1. page \notin {"application", "card"} => ~overtaken'
    BY <1>1, <1>5 DEF AllOfTheLast, PollsAreSound, Polls, Unmounts
  <2>2. ~overtaken' => polls' = {} /\ form.leaving = Nothing
    BY <1>1
  <2> QED
    BY <1>1, <1>2, <2>1, <2>2 DEF AllOfTheLast
<1>9. /\ form.leaving <= submits /\ form.leaving \in Nat
      /\ \A p \in polls' : p \in polls /\ p.of <= submits /\ p.of \in Submits
      /\ form.seen[n] = NoRow /\ post[n].step = "none" /\ row[n] = NoRow
  <2>1. n > submits
    BY <1>0
  <2>2. /\ form.leaving <= submits /\ form.leaving \in Nat
        /\ \A p \in polls : p.of <= submits /\ p.of \in Submits
    BY <1>0 DEF BusyIsSound, FormTypeOK, Nothing, Submits
  <2> HIDE DEF n
  <2> QED
    BY <1>0, <1>5, <2>1, <2>2 DEF SeenIsSound
<1>10. BusyIsSound'
  BY <1>0, <1>1, <1>2, <1>9 DEF BusyIsSound, Nothing, Submits
<1>11. SeenIsSound'
  <2>1. \A m \in Submits : m > n => m > submits /\ m # n
    BY <1>0 DEF Submits
  <2> HIDE DEF n
  <2>2. ASSUME NEW m \in Submits
        PROVE  /\ m > n => form.seen[m] = NoRow /\ post'[m].step = "none"
               /\ form.seen[m] <= row[m]
               /\ post'[m].step \in {"none", "sent"} => row[m] = NoRow
               /\ post'[m].step = "ok" => post'[m].status <= row[m]
    BY <1>4, <1>9, <2>1 DEF SeenIsSound
  <2> QED
    BY <1>1, <1>2, <1>9, <2>2 DEF SeenIsSound
<1>12. IntentionsAreSound'
  <2>1. /\ submits < n /\ n \in Nat
        /\ \A m \in Submits : m \in Nat /\ (m < n => m <= submits) /\ (m > n => m > submits)
                              /\ (m <= n => m = n \/ m <= submits)
    BY <1>0 DEF Submits
  <2>2. n > 1 => submits \in Submits /\ submits > 0
    BY <1>0 DEF Submits
  <2> HIDE DEF n
  <2>3. /\ \A m \in Submits : m # n => intention'[m] = intention[m]
        /\ \/ intention'[n] = n
           \/ n > 1 /\ form.shown = Nothing /\ intention'[n] = intention[submits]
    BY <1>0, <1>3, <2>1 DEF FormTypeOK, IntentionsAreSound
  <2>4. \A m \in Submits : intention[m] \in Nat /\ intention[m] <= m
    BY <2>1 DEF FormTypeOK, IntentionsAreSound
  <2>5. \A m \in Submits : intention'[m] <= m /\ (m > n => intention'[m] = m)
    <3>1. ASSUME NEW m \in Submits, m # n
          PROVE  intention'[m] <= m /\ (m > n => intention'[m] = m)
      BY <2>1, <2>3, <3>1 DEF IntentionsAreSound
    <3>2. intention'[n] <= n
      BY <1>0, <2>1, <2>2, <2>3, <2>4
    <3> QED
      BY <2>1, <3>1, <3>2
  <2>6. \A m \in made : m # n /\ m \in Submits
    BY <1>9 DEF IntentionsAreSound, FormTypeOK
  <2>7. Quiet' => /\ Quiet /\ form.leaving = Nothing
                  /\ \A m, k \in Submits :
                       m < k /\ k <= submits /\ intention[m] = intention[k] => m \notin made
                  /\ \A m \in made : post[m].step = "ok"
                  /\ submits > 0 /\ form.shown = Nothing => post[submits].step = "failed"
    <3>1. Quiet' => Quiet /\ form.leaving = Nothing
      BY <1>1 DEF Quiet, AllOfTheLast
    <3> QED
      BY <1>0, <3>1 DEF IntentionsAreSound
  <2>8. ASSUME Quiet', NEW m \in Submits, NEW k \in Submits,
               m < k, k <= n, intention'[m] = intention'[k]
        PROVE  m \notin made
    <3>1. m # n /\ m <= submits /\ (k = n \/ k <= submits)
      BY <2>1, <2>8
    <3>2. CASE k <= submits
      <4>1. k # n
        BY <1>0, <2>1, <3>2
      <4> QED
        BY <2>3, <2>7, <2>8, <3>1, <3>2, <4>1
    <3>3. CASE k = n /\ intention'[n] = n
      <4>1. intention'[m] = intention[m] /\ intention[m] <= m
        BY <2>3, <2>4, <3>1
      <4> QED
        BY <2>1, <2>4, <2>8, <3>1, <3>3, <4>1
    <3>4. CASE k = n /\ n > 1 /\ form.shown = Nothing /\ intention'[n] = intention[submits]
      <4>1. submits \in Submits /\ post[submits].step = "failed" /\ submits \notin made
        BY <2>2, <2>7, <2>8, <3>4
      <4>2. intention[m] = intention[submits]
        BY <2>3, <2>8, <3>1, <3>4
      <4>3. m = submits \/ m < submits
        BY <1>0, <2>1, <3>1
      <4> QED
        BY <1>0, <2>7, <2>8, <4>1, <4>2, <4>3
    <3> QED
      BY <2>3, <3>1, <3>2, <3>3, <3>4
  <2>9. Quiet' => /\ \A m \in Submits : post'[m].step = "sent" => m = n
                  /\ \A m \in made : post'[m].step = "ok"
    BY <1>0, <1>4, <2>6, <2>7 DEF IntentionsAreSound
  <2>10. \A m \in made : post'[m].step \in {"ok", "failed"}
    BY <1>4, <2>6 DEF IntentionsAreSound
  <2> QED
    BY <1>1, <1>2, <2>5, <2>8, <2>9, <2>10 DEF IntentionsAreSound
<1>13. StopsForAReason' /\ NothingSilent'
  BY <1>1, <1>2 DEF StopsForAReason, NothingSilent
<1> QED
  BY <1>6, <1>7, <1>8, <1>10, <1>11, <1>12, <1>13

\* A form shows resource n, which it does with every answer to a submit or a
\* poll, with a status no older than that it has shown, and no other poll of n
\* is under way.
LEMMA ShownFInv ==
  ASSUME FInv, NEW n \in Submits, NEW st \in 0..LastStatus,
         form' \in Form, form'.shown = n, form'.seen = [form.seen EXCEPT ![n] = st],
         form'.pollCount = form.pollCount, form'.leaving \in {Nothing, form.leaving},
         form.seen[n] <= st, st <= row[n], n <= submits,
         polls' \subseteq polls, \A p \in polls' : p.of # n,
         ~overtaken => n = submits /\ polls' = {},
         \A m \in form'.timers : m = n /\ form'.polling /\ form.pollCount < MaxPolls,
         form'.polling => Polls(page),
         Polls(page) /\ ~form'.polling =>
           st = LastStatus \/ form.pollCount = MaxPolls \/ overtaken,
         form'.busy => form.busy /\ n # submits,
         ~form'.busy => ~form.busy \/ post[submits].step # "sent",
         UNCHANGED <<page, submits, intention, serverVars, overtaken, mishaps>>
  PROVE  FInv'
<1> USE WebFormsAssumption DEF FInv
<1>1. /\ page' = page /\ submits' = submits /\ intention' = intention /\ post' = post
      /\ made' = made /\ row' = row /\ overtaken' = overtaken /\ mishaps' = mishaps
  BY DEF serverVars
<1>2. /\ form.seen \in [Submits -> 0..LastStatus] /\ form.leaving \in Submits \cup {Nothing}
      /\ n # Nothing /\ n \in Nat /\ submits \in Nat
      /\ polls \subseteq [of : Submits, status : 0..LastStatus]
  BY FormFields DEF FormTypeOK, Submits, Nothing
<1>3. form'.seen[n] = st /\ \A m \in Submits \ {n} : form'.seen[m] = form.seen[m]
  BY <1>2
<1>4. FormTypeOK'
  BY <1>1 DEF FormTypeOK
<1>5. PollsAreSound'
  BY <1>1 DEF PollsAreSound
<1>6. AllOfTheLast'
  BY <1>1 DEF AllOfTheLast
<1>7. BusyIsSound'
  <2>1. form'.leaving <= submits /\ (form'.busy => form'.leaving # submits)
    BY <1>2 DEF BusyIsSound, Nothing, Submits
  <2> QED
    BY <1>1, <1>2, <1>3, <2>1 DEF BusyIsSound
<1>8. SeenIsSound'
  <2>1. \A p \in polls' : p \in polls /\ p.of \in Submits /\ form'.seen[p.of] = form.seen[p.of]
    BY <1>2, <1>3
  <2> QED
    BY <1>1, <1>2, <1>3, <2>1 DEF SeenIsSound, Submits
<1>9. IntentionsAreSound'
  BY <1>1, <1>2 DEF IntentionsAreSound, Quiet
<1>10. StopsForAReason' /\ NothingSilent'
  BY <1>1, <1>2, <1>3 DEF StopsForAReason, NothingSilent
<1> QED
  BY <1>4, <1>5, <1>6, <1>7, <1>8, <1>9, <1>10

LEMMA ShowResultFInv == ASSUME FInv, ShowResult PROVE FInv'
<1> USE WebFormsAssumption DEF FInv
<1> DEFINE st == post[submits].status
           pol == form.polling \/ Polls(page)
           g == [form EXCEPT !.busy = FALSE, !.polling = pol]
           h == Show(g, submits, st)
<1>1. /\ form.busy /\ post[submits].step = "ok" /\ ~Leaves(page)
      /\ form' = Effect(h)
      /\ UNCHANGED <<page, submits, intention, serverVars, polls, overtaken, mishaps>>
  BY DEF ShowResult
<1>2. /\ submits \in Submits /\ st \in 0..LastStatus /\ st <= row[submits]
      /\ form \in Form /\ pol \in BOOLEAN /\ form.seen[submits] = NoRow
      /\ form.shown # submits /\ \A p \in polls : p.of # submits
  BY <1>1, FormFields DEF FormTypeOK, BusyIsSound, SeenIsSound, Polls
<1>3. /\ g \in Form /\ g.busy = FALSE /\ g.polling = pol
      /\ g.leaving = form.leaving /\ g.seen = form.seen
      /\ g.pollCount = form.pollCount
  <2> HIDE DEF pol
  <2> QED
    BY <1>2 DEF Form
<1> HIDE DEF g
<1>4. /\ h \in Form /\ h.busy = FALSE /\ h.shown = submits /\ h.leaving = form.leaving
      /\ h.seen = [form.seen EXCEPT ![submits] = st] /\ h.polling = pol
      /\ h.pollCount = form.pollCount
  BY <1>2, <1>3, ShowDoes
<1> HIDE DEF h
<1>5. /\ form' \in Form /\ form'.busy = FALSE /\ form'.shown = submits
      /\ form'.leaving = form.leaving /\ form'.pollCount = form.pollCount
      /\ form'.seen = [form.seen EXCEPT ![submits] = st]
      /\ form'.timers \subseteq {submits}
      /\ form'.polling => pol
      /\ form'.timers # {} => form'.polling /\ form.pollCount < MaxPolls
      /\ pol /\ ~form'.polling => h.seen[submits] = LastStatus \/ form.pollCount = MaxPolls
  BY <1>1, <1>2, <1>4, EffectDoes DEF Nothing, Submits
<1>6. h.seen[submits] = st /\ st \in Nat
  BY <1>2, <1>4, FormFields
<1>7. pol => Polls(page)
  BY DEF PollsAreSound
<1>8. ~overtaken => polls = {}
  BY <1>2 DEF AllOfTheLast
<1>9. /\ polls' = polls
      /\ UNCHANGED <<page, submits, intention, serverVars, overtaken, mishaps>>
      /\ form.seen[submits] <= st /\ submits <= submits
  <2>1. polls' = polls /\ UNCHANGED <<page, submits, intention, serverVars, overtaken, mishaps>>
    BY <1>1
  <2>2. submits \in Nat /\ form.seen[submits] = 0
    BY <1>2 DEF NoRow, Submits
  <2> HIDE DEF st
  <2> QED
    BY <1>6, <2>1, <2>2
<1>10. Polls(page) /\ ~form'.polling =>
         st = LastStatus \/ form.pollCount = MaxPolls \/ overtaken
  BY <1>5, <1>6
<1> HIDE DEF st, pol
<1> QED
  BY <1>1, <1>2, <1>5, <1>7, <1>8, <1>9, <1>10, ShownFInv

LEMMA ArriveFInv == ASSUME FInv, Arrive PROVE FInv'
<1> USE WebFormsAssumption DEF FInv
<1> DEFINE n == form.leaving
           st == row[n]
           g == [form EXCEPT !.leaving = Nothing]
<1>1. /\ n # Nothing /\ form' = Show(g, n, st)
      /\ UNCHANGED <<page, submits, intention, serverVars, polls, overtaken, mishaps>>
  BY DEF Arrive
<1>2. form \in Form /\ n \in Submits /\ form.timers \subseteq Submits
  BY <1>1, FormFields DEF FormTypeOK
<1>3. /\ page = "card" /\ polls = {} /\ ~form.polling /\ form.timers = {}
      /\ ~Polls(page)
  BY <1>1, <1>2 DEF AllOfTheLast, PollsAreSound, Polls
<1>4. /\ st \in 0..LastStatus /\ form.seen[n] <= st /\ n <= submits
      /\ form.busy => n # submits
      /\ ~overtaken => n = submits
  BY <1>1, <1>2 DEF FormTypeOK, SeenIsSound, BusyIsSound, AllOfTheLast
<1>5. /\ g \in Form /\ g.busy = form.busy /\ g.polling = form.polling /\ g.leaving = Nothing
      /\ g.seen = form.seen /\ g.pollCount = form.pollCount /\ g.timers = form.timers
  BY <1>2 DEF Form
<1> HIDE DEF g
<1>6. /\ form' \in Form /\ form'.busy = form.busy /\ form'.shown = n
      /\ form'.leaving = Nothing /\ form'.polling = form.polling /\ form'.timers = {}
      /\ form'.seen = [form.seen EXCEPT ![n] = st] /\ form'.pollCount = form.pollCount
  BY <1>1, <1>2, <1>3, <1>4, <1>5, ShowDoes
<1>7. st <= row[n] /\ polls' = {}
  BY <1>1, <1>2, <1>3, <1>4
<1> HIDE DEF n, st
<1> QED
  BY <1>1, <1>2, <1>3, <1>4, <1>6, <1>7, ShownFInv

LEMMA ShowPollFInv == ASSUME FInv, NEW p \in polls, ShowPoll(p) PROVE FInv'
<1> USE WebFormsAssumption DEF FInv
<1> DEFINE n == p.of
           st == p.status
           h == Show(form, n, st)
<1>1. /\ st # NoRow /\ polls' = polls \ {p} /\ form' = Effect(h)
      /\ UNCHANGED <<page, submits, intention, serverVars, overtaken, mishaps>>
  BY DEF ShowPoll
<1>2. /\ form \in Form /\ n \in Submits /\ st \in 0..LastStatus
      /\ form.seen[n] <= st /\ st <= row[n] /\ n <= submits
      /\ form.busy => n # submits
  BY <1>1 DEF FormTypeOK, SeenIsSound, BusyIsSound
<1>3. /\ Polls(page) /\ \A q \in polls \ {p} : q.of # n
      /\ ~overtaken => n = submits /\ polls \ {p} = {} /\ form.polling
  BY DEF PollsAreSound, AllOfTheLast
<1>4. /\ h \in Form /\ h.busy = form.busy /\ h.shown = n /\ h.leaving = form.leaving
      /\ h.seen = [form.seen EXCEPT ![n] = st] /\ h.polling = form.polling
      /\ h.pollCount = form.pollCount
  BY <1>2, ShowDoes
<1> HIDE DEF h
<1>5. /\ form' \in Form /\ form'.busy = form.busy /\ form'.shown = n
      /\ form'.leaving = form.leaving /\ form'.pollCount = form.pollCount
      /\ form'.seen = [form.seen EXCEPT ![n] = st]
      /\ form'.timers \subseteq {n}
      /\ form'.timers # {} => form'.polling /\ form.pollCount < MaxPolls
      /\ form.polling /\ ~form'.polling => h.seen[n] = LastStatus \/ form.pollCount = MaxPolls
  BY <1>1, <1>2, <1>4, EffectDoes DEF Nothing, Submits
<1>6. h.seen[n] = st
  BY <1>2, <1>4, FormFields
<1> HIDE DEF n, st
<1> QED
  BY <1>1, <1>2, <1>3, <1>5, <1>6, ShownFInv

LEMMA StartLeavingFInv == ASSUME FInv, StartLeaving PROVE FInv'
<1> USE WebFormsAssumption DEF FInv
<1>1. /\ form.busy /\ post[submits].step = "ok" /\ page = "card"
      /\ form' = [form EXCEPT !.busy = FALSE, !.leaving = submits]
      /\ page' = page /\ submits' = submits /\ intention' = intention /\ post' = post
      /\ made' = made /\ row' = row /\ polls' = polls /\ overtaken' = overtaken
      /\ mishaps' = mishaps
  BY DEF StartLeaving, Leaves, serverVars
<1>2. /\ form \in Form /\ submits \in Submits /\ submits # Nothing /\ submits \in Nat
      /\ form.shown \in Submits \cup {Nothing} /\ form.leaving \in Submits \cup {Nothing}
  BY <1>1, FormFields DEF FormTypeOK, BusyIsSound, Submits, Nothing
<1>3. /\ form' \in Form /\ ~form'.busy /\ form'.leaving = submits
      /\ form'.shown = form.shown /\ form'.seen = form.seen /\ form'.timers = form.timers
      /\ form'.polling = form.polling /\ form'.pollCount = form.pollCount
  BY <1>1, <1>2 DEF Form
<1>4. FormTypeOK'
  BY <1>1, <1>3 DEF FormTypeOK
<1>5. PollsAreSound' /\ AllOfTheLast'
  BY <1>1, <1>3 DEF PollsAreSound, AllOfTheLast
<1>6. BusyIsSound' /\ SeenIsSound'
  BY <1>1, <1>2, <1>3 DEF BusyIsSound, SeenIsSound
<1>7. IntentionsAreSound'
  BY <1>1, <1>2, <1>3 DEF IntentionsAreSound, Quiet
<1>8. StopsForAReason' /\ NothingSilent'
  BY <1>1, <1>2, <1>3 DEF StopsForAReason, NothingSilent
<1> QED
  BY <1>4, <1>5, <1>6, <1>7, <1>8

\* The form is no longer busy, with or without an error.
LEMMA EndsFInv ==
  ASSUME FInv, form.busy, form' \in Form, ~form'.busy,
         form'.shown = form.shown, form'.leaving = form.leaving, form'.seen = form.seen,
         form'.polling = form.polling, form'.pollCount = form.pollCount,
         form'.timers = form.timers,
         form'.error \/ ("network" \in mishaps' /\ page # "application"),
         mishaps' \subseteq Mishaps, mishaps \subseteq mishaps',
         "network" \notin mishaps' => post[submits].step = "failed",
         UNCHANGED <<page, submits, intention, serverVars, polls, overtaken>>
  PROVE  FInv'
<1> USE WebFormsAssumption DEF FInv
<1>1. /\ page' = page /\ submits' = submits /\ intention' = intention /\ post' = post
      /\ made' = made /\ row' = row /\ polls' = polls /\ overtaken' = overtaken
  BY DEF serverVars
<1>2. FormTypeOK'
  BY <1>1 DEF FormTypeOK
<1>3. PollsAreSound' /\ AllOfTheLast'
  BY <1>1 DEF PollsAreSound, AllOfTheLast
<1>4. BusyIsSound' /\ SeenIsSound'
  BY <1>1 DEF BusyIsSound, SeenIsSound
<1>5. IntentionsAreSound'
  <2>1. Quiet' => Quiet /\ post[submits].step = "failed"
    BY <1>1 DEF Quiet
  <2>2. submits \in Submits
    BY DEF BusyIsSound
  <2> QED
    BY <1>1, <2>1, <2>2 DEF IntentionsAreSound
<1>6. StopsForAReason' /\ NothingSilent'
  BY <1>1 DEF StopsForAReason, NothingSilent
<1> QED
  BY <1>2, <1>3, <1>4, <1>5, <1>6

LEMMA ShowErrorFInv == ASSUME FInv, ShowError PROVE FInv'
<1>1. /\ form.busy /\ post[submits].step = "failed"
      /\ form' = [form EXCEPT !.busy = FALSE, !.error = TRUE]
      /\ UNCHANGED <<page, submits, intention, serverVars, polls, overtaken>>
      /\ mishaps' = mishaps
  BY DEF ShowError
<1>2. form \in Form /\ mishaps \subseteq Mishaps
  BY DEF FInv, FormTypeOK
<1>3. /\ form' \in Form /\ ~form'.busy /\ form'.error /\ form'.leaving = form.leaving
      /\ form'.shown = form.shown /\ form'.seen = form.seen /\ form'.timers = form.timers
      /\ form'.polling = form.polling /\ form'.pollCount = form.pollCount
  BY <1>1, <1>2 DEF Form
<1> QED
  BY <1>1, <1>2, <1>3, EndsFInv

LEMMA FetchThrowsFInv == ASSUME FInv, FetchThrows PROVE FInv'
<1> DEFINE err == Catches(page)
<1>1. /\ form.busy
      /\ form' = [form EXCEPT !.busy = FALSE, !.error = err]
      /\ UNCHANGED <<page, submits, intention, serverVars, polls, overtaken>>
      /\ "network" \in Mishaps /\ mishaps' = mishaps \cup {"network"}
  BY DEF FetchThrows, Mishap
<1>2. form \in Form /\ mishaps \subseteq Mishaps /\ err \in BOOLEAN
  BY DEF FInv, FormTypeOK, Catches
<1>3. err \/ page # "application"
  BY DEF Catches
<1> HIDE DEF err
<1>4. /\ form' \in Form /\ ~form'.busy /\ form'.error = err /\ form'.leaving = form.leaving
      /\ form'.shown = form.shown /\ form'.seen = form.seen /\ form'.timers = form.timers
      /\ form'.polling = form.polling /\ form'.pollCount = form.pollCount
  BY <1>1, <1>2 DEF Form
<1> QED
  BY <1>1, <1>2, <1>3, <1>4, EndsFInv

\* Request n is answered, having made its resource or not.
LEMMA AnsweredFInv ==
  ASSUME FInv, NEW n \in Submits, post[n].step = "sent",
         NEW a \in [step : {"ok", "failed"}, status : 0..LastStatus],
         NEW st \in 0..LastStatus,
         post' = [post EXCEPT ![n] = a], row' = [row EXCEPT ![n] = st],
         made' \in {made, made \cup {n}}, made' = made \/ a.step = "ok" \/ "api" \in mishaps',
         a.step = "ok" => a.status = st,
         mishaps \subseteq mishaps', mishaps' \subseteq Mishaps,
         UNCHANGED <<page, form, submits, intention, polls, overtaken>>
  PROVE  FInv'
<1> USE WebFormsAssumption DEF FInv
<1>0. /\ page' = page /\ form' = form /\ submits' = submits /\ intention' = intention
      /\ polls' = polls /\ overtaken' = overtaken
  OBVIOUS
<1>1. /\ post'[n] = a /\ \A m \in Submits \ {n} : post'[m] = post[m]
      /\ row'[n] = st /\ \A m \in Submits \ {n} : row'[m] = row[m]
      /\ form.seen \in [Submits -> 0..LastStatus]
      /\ row[n] = NoRow /\ n <= submits /\ n \notin made
  <2>1. /\ post \in [Submits -> [step : {"none", "sent", "ok", "failed"}, status : 0..LastStatus]]
        /\ row \in [Submits -> 0..LastStatus]
        /\ form.seen \in [Submits -> 0..LastStatus]
    BY FormFields DEF FormTypeOK
  <2>2. n \in Nat /\ submits \in Nat
    BY DEF FormTypeOK, Submits
  <2>3. row[n] = NoRow /\ ~(n > submits) /\ n \notin made
    BY DEF SeenIsSound, IntentionsAreSound
  <2> QED
    BY <2>1, <2>2, <2>3
<1>2. FormTypeOK'
  <2>1. a \in [step : {"none", "sent", "ok", "failed"}, status : 0..LastStatus]
    OBVIOUS
  <2>2. post' \in [Submits -> [step : {"none", "sent", "ok", "failed"}, status : 0..LastStatus]]
    BY <2>1 DEF FormTypeOK
  <2>3. row' \in [Submits -> 0..LastStatus] /\ made' \subseteq Submits
    BY DEF FormTypeOK
  <2> QED
    BY <1>0, <2>2, <2>3 DEF FormTypeOK
<1>3. PollsAreSound' /\ AllOfTheLast' /\ BusyIsSound'
  BY <1>0 DEF PollsAreSound, AllOfTheLast, BusyIsSound
<1>4. SeenIsSound'
  <2>1. form.seen[n] = 0 /\ row[n] = 0 /\ st \in Nat /\ 0 <= st
    BY <1>1 DEF SeenIsSound, NoRow
  <2>2. \A m \in Submits : m > submits => form'.seen[m] = NoRow /\ post'[m].step = "none"
    BY <1>0, <1>1 DEF SeenIsSound, FormTypeOK, Submits
  <2>3. \A m \in Submits :
          /\ form'.seen[m] <= row'[m]
          /\ post'[m].step \in {"none", "sent"} => row'[m] = NoRow
          /\ post'[m].step = "ok" => post'[m].status <= row'[m]
    BY <1>0, <1>1, <2>1 DEF SeenIsSound
  <2>4. \A p \in polls : p.status # NoRow =>
          p.of \in Submits /\ p.status \in Nat /\ p.of # n
    <3>1. \A p \in polls : p.of \in Submits /\ p.status \in Nat
      BY DEF FormTypeOK
    <3> QED
      BY <2>1, <3>1 DEF SeenIsSound, NoRow
  <2>5. \A p \in polls' : p.status # NoRow =>
          form'.seen[p.of] <= p.status /\ p.status <= row'[p.of]
    BY <1>0, <1>1, <2>4 DEF SeenIsSound
  <2> QED
    BY <1>0, <2>2, <2>3, <2>5 DEF SeenIsSound
<1>5. IntentionsAreSound'
  <2>1. Quiet' => Quiet /\ n = submits /\ form.busy
    BY <1>0 DEF Quiet, IntentionsAreSound
  <2>2. Quiet' => \A m \in made' : m \in made \/ (m = n /\ a.step = "ok")
    BY DEF Quiet
  <2>3. Quiet' => \A m, k \in Submits :
          m < k /\ k <= submits /\ intention[m] = intention[k] => m \notin made'
    BY <2>1, <2>2 DEF IntentionsAreSound, Submits, FormTypeOK
  <2>4. Quiet' => /\ \A m \in Submits : post'[m].step = "sent" => m = submits /\ form.busy
                  /\ \A m \in made' : post'[m].step = "ok"
    BY <1>1, <2>1, <2>2 DEF IntentionsAreSound, FormTypeOK
  <2>5. \A m \in made' : post'[m].step \in {"ok", "failed"}
    BY <1>1 DEF IntentionsAreSound, FormTypeOK
  <2> QED
    BY <1>0, <2>1, <2>3, <2>4, <2>5 DEF IntentionsAreSound
<1>6. StopsForAReason' /\ NothingSilent'
  BY <1>0 DEF StopsForAReason, NothingSilent
<1> QED
  BY <1>2, <1>3, <1>4, <1>5, <1>6

LEMMA ApiFInv ==
  ASSUME FInv, NEW n \in Submits, ApiCreates(n) \/ ApiRefuses(n) \/ ApiFails(n)
  PROVE  FInv'
<1> USE WebFormsAssumption
<1>1. /\ post \in [Submits -> [step : {"none", "sent", "ok", "failed"}, status : 0..LastStatus]]
      /\ row \in [Submits -> 0..LastStatus] /\ mishaps \subseteq Mishaps
      /\ post[n].step = "sent"
  BY DEF FInv, FormTypeOK, ApiCreates, ApiRefuses, ApiFails
<1>2. row[n] = NoRow /\ row = [row EXCEPT ![n] = NoRow] /\ NoRow \in 0..LastStatus
  BY <1>1 DEF FInv, SeenIsSound, NoRow
<1>3. CASE ApiCreates(n)
  <2>1. PICK st \in {1, LastStatus} :
          /\ row' = [row EXCEPT ![n] = st]
          /\ post' = [post EXCEPT ![n] = [step |-> "ok", status |-> st]]
    BY <1>3 DEF ApiCreates
  <2>2. st \in 0..LastStatus
    OBVIOUS
  <2>3. [step |-> "ok", status |-> st] \in [step : {"ok", "failed"}, status : 0..LastStatus]
    BY <2>2
  <2> QED
    BY <1>1, <1>3, <2>1, <2>2, <2>3, AnsweredFInv DEF ApiCreates
<1>4. CASE ApiRefuses(n) \/ ApiFails(n)
  <2> DEFINE a == [post[n] EXCEPT !.step = "failed"]
  <2>1. /\ a \in [step : {"ok", "failed"}, status : 0..LastStatus] /\ a.step = "failed"
        /\ post' = [post EXCEPT ![n] = a]
    BY <1>1, <1>4 DEF ApiRefuses, ApiFails
  <2>2. row' = [row EXCEPT ![n] = NoRow]
    BY <1>2, <1>4 DEF ApiRefuses, ApiFails
  <2>3. /\ made' = made \/ (made' = made \cup {n} /\ "api" \in mishaps')
        /\ mishaps \subseteq mishaps' /\ mishaps' \subseteq Mishaps
        /\ UNCHANGED <<page, form, submits, intention, polls, overtaken>>
    BY <1>1, <1>4 DEF ApiRefuses, ApiFails, Mishap
  <2> HIDE DEF a
  <2> QED
    BY <1>1, <1>2, <2>1, <2>2, <2>3, AnsweredFInv
<1> QED
  BY <1>3, <1>4

LEMMA RowMovesFInv == ASSUME FInv, NEW n \in Submits, RowMoves(n) PROVE FInv'
<1> USE WebFormsAssumption DEF FInv
<1>0. /\ page' = page /\ form' = form /\ submits' = submits /\ intention' = intention
      /\ post' = post /\ made' = made /\ polls' = polls /\ overtaken' = overtaken
      /\ mishaps' = mishaps
  BY DEF RowMoves
<1>1. /\ row[n] # NoRow /\ row[n] < LastStatus /\ row[n] \in 0..LastStatus
      /\ row' = [row EXCEPT ![n] = row[n] + 1]
      /\ row \in [Submits -> 0..LastStatus]
  BY DEF RowMoves, FormTypeOK
<1>2. /\ row' \in [Submits -> 0..LastStatus]
      /\ row'[n] = row[n] + 1 /\ \A m \in Submits \ {n} : row'[m] = row[m]
  BY <1>1
<1>3. FormTypeOK'
  BY <1>0, <1>2 DEF FormTypeOK
<1>4. PollsAreSound' /\ AllOfTheLast' /\ BusyIsSound'
  BY <1>0 DEF PollsAreSound, AllOfTheLast, BusyIsSound
<1>5. SeenIsSound'
  <2>1. \A m \in Submits : row[m] \in Nat /\ row[m] <= row'[m]
    BY <1>1, <1>2
  <2>2. \A m \in Submits : form.seen[m] \in Nat /\ post[m].status \in Nat /\ row'[m] \in Nat
    BY <1>2, FormFields DEF FormTypeOK
  <2>3. \A p \in polls : p.of \in Submits /\ p.status \in Nat
    BY DEF FormTypeOK
  <2>4. \A m \in Submits : post[m].step \in {"none", "sent"} => m # n
    BY <1>1 DEF SeenIsSound
  <2> QED
    BY <1>0, <1>2, <2>1, <2>2, <2>3, <2>4 DEF SeenIsSound
<1>6. IntentionsAreSound'
  BY <1>0 DEF IntentionsAreSound, Quiet
<1>7. StopsForAReason' /\ NothingSilent'
  BY <1>0 DEF StopsForAReason, NothingSilent
<1> QED
  BY <1>3, <1>4, <1>5, <1>6, <1>7

LEMMA FireFInv == ASSUME FInv, NEW n \in Submits, Fire(n) PROVE FInv'
<1> USE WebFormsAssumption DEF FInv
<1>1. /\ n \in form.timers /\ form.shown = n /\ form.polling /\ form.pollCount < MaxPolls
      /\ form' = [form EXCEPT !.timers = form.timers \ {n}, !.pollCount = form.pollCount + 1]
      /\ polls' = polls \cup {[of |-> n, status |-> NoRow]}
      /\ page' = page /\ submits' = submits /\ intention' = intention /\ post' = post
      /\ made' = made /\ row' = row /\ overtaken' = overtaken /\ mishaps' = mishaps
  BY DEF Fire, Fired, serverVars, PollsAreSound
<1>2. /\ form \in Form /\ form.pollCount + 1 \in 0..MaxPolls /\ form.timers \ {n} = {}
      /\ n # Nothing /\ form.shown <= submits
  BY <1>1, FormFields DEF FormTypeOK, PollsAreSound, BusyIsSound, Submits, Nothing
<1>3. /\ form' \in Form /\ form'.busy = form.busy /\ form'.error = form.error
      /\ form'.shown = n /\ form'.leaving = form.leaving
      /\ form'.seen = form.seen /\ form'.polling /\ form'.timers = {}
  BY <1>1, <1>2 DEF Form
<1>4. /\ \A p \in polls' : p \in polls \/ p = [of |-> n, status |-> NoRow]
      /\ \A p \in polls : p.of # n
  BY <1>1 DEF PollsAreSound
<1>5. FormTypeOK'
  <2>1. polls' \subseteq [of : Submits, status : 0..LastStatus]
    BY <1>1 DEF FormTypeOK, NoRow
  <2> QED
    BY <1>1, <1>3, <2>1 DEF FormTypeOK
<1>6. PollsAreSound'
  BY <1>1, <1>3, <1>4 DEF PollsAreSound
<1>7. AllOfTheLast'
  BY <1>1, <1>2, <1>3, <1>4 DEF AllOfTheLast
<1>8. BusyIsSound' /\ SeenIsSound'
  BY <1>1, <1>2, <1>3, <1>4 DEF BusyIsSound, SeenIsSound
<1>9. IntentionsAreSound'
  BY <1>1, <1>3 DEF IntentionsAreSound, Quiet
<1>10. StopsForAReason' /\ NothingSilent'
  BY <1>1, <1>2, <1>3 DEF StopsForAReason, NothingSilent
<1> QED
  BY <1>5, <1>6, <1>7, <1>8, <1>9, <1>10

LEMMA ReadRowFInv == ASSUME FInv, NEW p \in polls, ReadRow(p) PROVE FInv'
<1> USE WebFormsAssumption DEF FInv
<1> DEFINE q == [of |-> p.of, status |-> row[p.of]]
<1>0. p \in [of : Submits, status : 0..LastStatus] /\ row[p.of] \in 0..LastStatus
  BY DEF FormTypeOK
<1>1. /\ polls' = (polls \ {p}) \cup {q}
      /\ page' = page /\ form' = form /\ submits' = submits /\ intention' = intention
      /\ post' = post /\ made' = made /\ row' = row /\ overtaken' = overtaken
      /\ mishaps' = mishaps
  BY <1>0 DEF ReadRow, serverVars
<1>2. q \in [of : Submits, status : 0..LastStatus] /\ q.of = p.of /\ q.status = row[p.of]
  BY <1>0
<1> HIDE DEF q
<1>3. \A r \in polls' : r \in polls \ {p} \/ r = q
  BY <1>1
<1>4. FormTypeOK'
  BY <1>1, <1>2 DEF FormTypeOK
<1>5. PollsAreSound'
  BY <1>1, <1>2, <1>3 DEF PollsAreSound
<1>6. AllOfTheLast' /\ BusyIsSound'
  BY <1>1, <1>2, <1>3 DEF AllOfTheLast, BusyIsSound
<1>7. SeenIsSound'
  BY <1>0, <1>1, <1>2, <1>3 DEF SeenIsSound
<1>8. IntentionsAreSound' /\ StopsForAReason' /\ NothingSilent'
  BY <1>1 DEF IntentionsAreSound, Quiet, StopsForAReason, NothingSilent
<1> QED
  BY <1>4, <1>5, <1>6, <1>7, <1>8

LEMMA PollFailsFInv == ASSUME FInv, NEW p \in polls, PollFails(p) PROVE FInv'
<1> USE DEF FInv
<1>1. /\ polls' = polls \ {p}
      /\ page' = page /\ form' = form /\ submits' = submits /\ intention' = intention
      /\ post' = post /\ made' = made /\ row' = row /\ overtaken' = overtaken
      /\ mishaps' = mishaps \cup {"poll"} /\ "poll" \in Mishaps
  BY DEF PollFails, serverVars, Mishap
<1>2. FormTypeOK' /\ PollsAreSound' /\ AllOfTheLast'
  BY <1>1 DEF FormTypeOK, PollsAreSound, AllOfTheLast
<1>3. BusyIsSound' /\ SeenIsSound'
  BY <1>1 DEF BusyIsSound, SeenIsSound
<1>4. IntentionsAreSound' /\ StopsForAReason' /\ NothingSilent'
  BY <1>1 DEF IntentionsAreSound, Quiet, StopsForAReason, NothingSilent
<1> QED
  BY <1>2, <1>3, <1>4

LEMMA StutterFInv == ASSUME FInv, UNCHANGED vars PROVE FInv'
BY DEF FInv, vars, serverVars, FormTypeOK, PollsAreSound, AllOfTheLast, BusyIsSound,
       SeenIsSound, IntentionsAreSound, Quiet, StopsForAReason, NothingSilent

LEMMA NextFInv == ASSUME FInv, [Next]_vars PROVE FInv'
<1> HIDE DEF FInv
<1>1. CASE \E n \in Submits : ApiCreates(n) \/ ApiRefuses(n) \/ ApiFails(n) \/ RowMoves(n)
  BY <1>1, ApiFInv, RowMovesFInv
<1>2. CASE Poll
  BY <1>2, FireFInv, ReadRowFInv, ShowPollFInv DEF Poll
<1>3. CASE \E p \in polls : PollFails(p)
  BY <1>3, PollFailsFInv
<1>4. CASE Rest \/ UNCHANGED vars
  BY <1>4, StutterFInv DEF Rest
<1> QED
  BY <1>1, <1>2, <1>3, <1>4, SubmitFInv, ShowResultFInv, StartLeavingFInv, ArriveFInv,
     ShowErrorFInv, FetchThrowsFInv DEF Next

\* What has been shown of a resource is only replaced by something newer.
LEMMA SeenGrows ==
  ASSUME FInv, [Next]_vars PROVE \A n \in Submits : form'.seen[n] >= form.seen[n]
<1> USE WebFormsAssumption
<1>0. /\ form \in Form /\ \A n \in Submits : form.seen[n] \in Nat
      /\ form.seen \in [Submits -> 0..LastStatus]
  BY FormFields DEF FInv, FormTypeOK
<1>1. SUFFICES \/ form'.seen = form.seen
               \/ \E m \in Submits, st \in 0..LastStatus :
                    form'.seen = [form.seen EXCEPT ![m] = st] /\ form.seen[m] <= st
  <2>1. ASSUME NEW m \in Submits, NEW st \in 0..LastStatus, form.seen[m] <= st,
               form'.seen = [form.seen EXCEPT ![m] = st]
        PROVE  \A n \in Submits : form'.seen[n] >= form.seen[n]
    <3>1. \A n \in Submits : form'.seen[n] = form.seen[n] \/ (n = m /\ form'.seen[n] = st)
      BY <1>0, <2>1
    <3>2. \A n \in Submits : form.seen[n] >= form.seen[n]
      BY <1>0
    <3>3. st >= form.seen[m]
      BY <1>0, <2>1
    <3> QED
      BY <3>1, <3>2, <3>3
  <2>2. form'.seen = form.seen => \A n \in Submits : form'.seen[n] >= form.seen[n]
    BY <1>0
  <2> QED
    BY <2>1, <2>2
<1>2. CASE ShowResult
  <2> DEFINE st == post[submits].status
             g == [form EXCEPT !.busy = FALSE, !.polling = form.polling \/ Polls(page)]
             h == Show(g, submits, st)
  <2>1. submits \in Submits /\ st \in 0..LastStatus /\ form.seen[submits] = 0
    BY <1>2 DEF ShowResult, FInv, FormTypeOK, BusyIsSound, NoRow
  <2>2. g \in Form /\ g.seen = form.seen
    BY <1>0, FormFields DEF Form, Polls
  <2>3. form' = Effect(h)
    BY <1>2 DEF ShowResult
  <2> HIDE DEF g
  <2>4. h \in Form /\ h.seen = [form.seen EXCEPT ![submits] = st]
    BY <2>1, <2>2, ShowDoes
  <2> HIDE DEF h
  <2>5. form'.seen = [form.seen EXCEPT ![submits] = st]
    BY <2>3, <2>4, EffectDoes
  <2>6. form.seen[submits] <= st
    BY <2>1
  <2> QED
    BY <2>1, <2>5, <2>6
<1>3. CASE Arrive
  <2> DEFINE n == form.leaving
             g == [form EXCEPT !.leaving = Nothing]
  <2>1. form' = Show(g, n, row[n]) /\ n \in Submits
    BY <1>0, <1>3, FormFields DEF Arrive
  <2>2. g \in Form /\ g.seen = form.seen
    BY <1>0, FormFields DEF Form
  <2> HIDE DEF g
  <2>3. row[n] \in 0..LastStatus /\ form.seen[n] <= row[n]
    BY <2>1 DEF FInv, FormTypeOK, SeenIsSound
  <2>4. form'.seen = [form.seen EXCEPT ![n] = row[n]]
    BY <2>1, <2>2, <2>3, ShowDoes
  <2> HIDE DEF n
  <2> QED
    BY <2>1, <2>3, <2>4
<1>4. ASSUME NEW q \in polls, ShowPoll(q)
      PROVE  \E m \in Submits, st \in 0..LastStatus :
               form'.seen = [form.seen EXCEPT ![m] = st] /\ form.seen[m] <= st
  <2>1. q.of \in Submits /\ q.status \in 0..LastStatus /\ form.seen[q.of] <= q.status
    BY <1>4 DEF ShowPoll, FInv, FormTypeOK, SeenIsSound
  <2>2. form' = Effect(Show(form, q.of, q.status))
    BY <1>4 DEF ShowPoll
  <2>3. form'.seen = [form.seen EXCEPT ![q.of] = q.status]
    BY <1>0, <2>1, <2>2, ShowDoes, EffectDoes
  <2> QED
    BY <2>1, <2>3
<1>5. CASE Submit
  BY <1>0, <1>5 DEF Submit, Form
<1>6. CASE StartLeaving \/ ShowError \/ FetchThrows
  BY <1>0, <1>6 DEF StartLeaving, ShowError, FetchThrows, Form
<1>7. CASE \E n \in Submits : ApiCreates(n) \/ ApiRefuses(n) \/ ApiFails(n) \/ RowMoves(n)
  BY <1>7 DEF ApiCreates, ApiRefuses, ApiFails, RowMoves
<1>8. CASE \E n \in Submits : Fire(n)
  BY <1>0, <1>8 DEF Fire, Fired, Form
<1>9. CASE \E q \in polls : ReadRow(q) \/ PollFails(q)
  BY <1>9 DEF ReadRow, PollFails
<1>10. CASE Rest \/ UNCHANGED vars
  BY <1>10 DEF Rest, vars
<1> QED
  BY <1>2, <1>3, <1>4, <1>5, <1>6, <1>7, <1>8, <1>9, <1>10 DEF Next, Poll

-----------------------------------------------------------------------------
(* The dashboard.  DInv says whose the accounts are, and what the view of  *)
(* the page and that of the page to come know of them.                     *)

PagesTypeOK ==
  /\ session \in Users \cup {Nobody}
  /\ tab \in Tab
  /\ customer \in [Users -> {"none", "Active", "Archived"}]
  /\ request \in [Requests ->
       [step : {"none", "sent", "calling", "opened", "ok", "failed"},
        customer : Users \cup {Nobody}, user : Users \cup {Nobody}]]
  /\ account \in [Requests ->
       [atUnit : BOOLEAN, owner : Users \cup {Nobody}]]
  /\ ledger \in [Requests -> Ledger]

\* A balance is the one of the row's making, or that of a transaction in the
\* ledger, which nothing older can join any more.
Reached(l, b) == b = l.opened \/ (b \in l.recorded /\ b <= l.stamp)

\* A view has all its balance comes from.
Covers(l, v) ==
  \/ v.balance = l.opened
  \/ /\ v.balance <= l.stamp
     /\ {v.balance} \cup {t \in l.recorded : t < v.balance} \subseteq v.listed

LedgersAreSound == \A n \in Requests : Reached(ledger[n], ledger[n].balance)

\* An account is opened for who asks for it.
OwnersAreSound ==
  \A n \in Requests :
    /\ account[n].owner \in {Nobody, request[n].customer}
    /\ request[n].step = "none" => account[n].owner = Nobody /\ ~account[n].atUnit
    /\ request[n].step \in {"calling", "opened"} => request[n].user = request[n].customer
    /\ request[n].step = "ok" => account[n].owner = request[n].customer

IsOf(n, u) == n \in Requests /\ u \in Users /\ account[n].owner = u

\* A view has the accounts that the tab has been told of.
Knows(v, told) ==
  "read" \in troubles \/ \A n \in told : request[n].customer = v.user => n \in v.accounts

TabIsSound(t) ==
  /\ \A n \in t.view.accounts : IsOf(n, t.view.user)
  /\ t.about # None => IsOf(t.about, t.view.user)
  /\ t.page = "dashboard" => t.about = None
  /\ \A n \in t.told : request[n].step = "ok"
  /\ t.page = "account" =>
       IsOf(t.about, t.view.user) /\ (Covers(ledger[t.about], t.view) \/ "read" \in troubles)
  /\ t.page = "dashboard" /\ t.render.page = "none" => Knows(t.view, t.told)

RenderIsSound(r, told) ==
  /\ \A n \in r.view.accounts : IsOf(n, r.view.user)
  /\ r.page = "none" => r.todo = {}
  /\ r.page # "none" => r.view.user \in Users
  /\ r.page = "dashboard" =>
       /\ r.about = None /\ r.todo \subseteq {"customers", "accounts"}
       /\ "accounts" \notin r.todo => Knows(r.view, told)
  /\ r.page = "account" =>
       /\ r.todo \subseteq {"account", "transactions"}
       /\ IF "account" \in r.todo THEN "transactions" \in r.todo
          ELSE IsOf(r.about, r.view.user) /\ Reached(ledger[r.about], r.view.balance)
       /\ "transactions" \notin r.todo =>
            Covers(ledger[r.about], r.view) \/ "read" \in troubles

DInv ==
  /\ PagesTypeOK
  /\ OwnersAreSound
  /\ LedgersAreSound
  /\ TabIsSound(tab)
  /\ RenderIsSound(tab.render, tab.told)

LEMMA ReadsOf ==
  /\ Reads("dashboard") = {"customers", "accounts"}
  /\ Reads("account") = {"account", "transactions"}
BY DEF Reads

LEMMA EmptyViews ==
  ASSUME NEW u \in Users \cup {Nobody}
  PROVE  /\ EmptyView(u) \in View
         /\ EmptyView(u).user = u /\ EmptyView(u).accounts = {}
BY DashboardAssumption DEF EmptyView, View, Balances, Transactions

\* l becomes m: entries are added that are newer than its stamp.
Later(l, m) ==
  /\ m.opened = l.opened /\ m.stamp >= l.stamp /\ l.recorded \subseteq m.recorded
  /\ \A t \in m.recorded \ l.recorded : t > l.stamp

LEMMA LaterLedger ==
  ASSUME NEW l \in Ledger, NEW m \in Ledger, Later(l, m)
  PROVE  /\ \A b \in Balances : Reached(l, b) => Reached(m, b)
         /\ \A v \in View : Covers(l, v) => Covers(m, v)
<1>1. /\ l.stamp \in Nat /\ m.stamp \in Nat /\ l.stamp <= m.stamp /\ m.opened = l.opened
      /\ \A t \in m.recorded : t \in Nat /\ (t \in l.recorded \/ t > l.stamp)
      /\ \A t \in l.recorded : t \in m.recorded
  BY DashboardAssumption DEF Later, Ledger, Balances, Transactions
<1>2. \A b \in Balances : b \in Nat /\ (Reached(l, b) => Reached(m, b))
  BY <1>1, DashboardAssumption DEF Reached, Balances
<1>3. ASSUME NEW v \in View, Covers(l, v) PROVE Covers(m, v)
  <2>1. v.balance \in Nat
    BY DashboardAssumption DEF View, Balances
  <2>2. CASE v.balance = l.opened
    BY <1>1, <2>2 DEF Covers
  <2>3. CASE v.balance # l.opened
    <3>1. /\ v.balance <= l.stamp /\ v.balance \in v.listed
          /\ \A t \in l.recorded : t < v.balance => t \in v.listed
      BY <1>3, <2>3 DEF Covers
    <3>2. \A t \in m.recorded : t < v.balance => t \in l.recorded
      BY <1>1, <2>1, <3>1
    <3>3. v.balance <= m.stamp
      BY <1>1, <2>1, <3>1
    <3> QED
      BY <3>1, <3>2, <3>3 DEF Covers
  <2> QED
    BY <2>2, <2>3
<1> QED
  BY <1>2, <1>3

LEMMA SameLedger == \A l \in Ledger : Later(l, l)
BY DashboardAssumption DEF Later, Ledger, Balances

LEMMA NewLedgers ==
  ASSUME NEW b \in Balances
  PROVE  NewLedger(b) \in Ledger /\ Reached(NewLedger(b), NewLedger(b).balance)
BY DashboardAssumption DEF NewLedger, Ledger, Reached, Balances, Transactions

LEMMA TabFields ==
  ASSUME NEW t \in Tab
  PROVE  /\ t.page \in {"login", "dashboard", "account", "missing"}
         /\ t.about \in Requests \cup {None} /\ t.busy \in Requests \cup {None}
         /\ t.view \in View /\ t.render \in Render
         /\ t.waiting \in SUBSET Requests /\ t.told \in SUBSET Requests
         /\ t.render.page \in {"none", "dashboard", "account"}
         /\ t.render.about \in Requests \cup {None} /\ t.render.view \in View
         /\ t.render.todo \in SUBSET {"customers", "accounts", "account", "transactions"}
BY DEF Tab, Render

LEMMA NoRenders ==
  /\ NoRender \in Render /\ NoRender.page = "none" /\ NoRender.todo = {}
  /\ NoRender.view.accounts = {}
<1>1. Nobody \in Users \cup {Nobody} /\ NoRender.view = EmptyView(Nobody)
      /\ NoRender.page = "none" /\ NoRender.todo = {} /\ NoRender.about = None
  BY DEF NoRender
<1>2. EmptyView(Nobody) \in View /\ EmptyView(Nobody).accounts = {}
  BY <1>1, EmptyViews
<1> HIDE DEF EmptyView
<1> QED
  BY <1>1, <1>2 DEF NoRender, Render

LEMMA InitDInv == ASSUME DashboardInit PROVE DInv
<1>1. /\ session = Nobody /\ customer = [u \in Users |-> "none"]
      /\ request = [n \in Requests |-> [step |-> "none", customer |-> Nobody, user |-> Nobody]]
      /\ account = [n \in Requests |-> [atUnit |-> FALSE, owner |-> Nobody]]
      /\ ledger = [n \in Requests |-> NewLedger(0)]
  BY DEF DashboardInit
<1>2. /\ tab.page = "login" /\ tab.about = None /\ tab.view = EmptyView(Nobody)
      /\ tab.render = NoRender /\ tab.busy = None /\ tab.waiting = {} /\ tab.told = {}
  BY DEF DashboardInit, AtLogin
<1>3. EmptyView(Nobody) \in View /\ EmptyView(Nobody).accounts = {}
  BY EmptyViews
<1>4. tab \in Tab
  BY <1>3, NoRenders DEF DashboardInit, AtLogin, Tab
<1>5. PagesTypeOK /\ OwnersAreSound /\ LedgersAreSound
  <2>1. 0 \in Balances
    BY DashboardAssumption DEF Balances
  <2>2. NewLedger(0) \in Ledger /\ Reached(NewLedger(0), NewLedger(0).balance)
    BY <2>1, NewLedgers
  <2> QED
    BY <1>1, <1>4, <2>2, DashboardAssumption DEF PagesTypeOK, OwnersAreSound, LedgersAreSound
<1>6. TabIsSound(tab) /\ RenderIsSound(tab.render, tab.told)
  BY <1>2, <1>3, NoRenders DEF TabIsSound, RenderIsSound
<1> QED
  BY <1>5, <1>6 DEF DInv

\* The server: rows stay, their ledgers grow, and what has been answered with 201
\* stays so.
ServerMoves ==
  /\ \A n \in Requests :
       /\ account[n].owner # Nobody =>
            account'[n].owner = account[n].owner /\ Later(ledger[n], ledger'[n])
       /\ request[n].step = "ok" =>
            request'[n].step = "ok" /\ request'[n].customer = request[n].customer
  /\ troubles \subseteq troubles'

LEMMA ServerFrame ==
  ASSUME DInv, ServerMoves, PagesTypeOK', OwnersAreSound', LedgersAreSound',
         tab'.page = tab.page, tab'.about = tab.about, tab'.view = tab.view,
         tab'.render = tab.render, tab'.told = tab.told
  PROVE  DInv'
<1> USE DEF DInv
<1>0. tab \in Tab /\ Nobody \notin Users
  BY DashboardAssumption DEF PagesTypeOK
<1>1. \A n, u : IsOf(n, u) => IsOf(n, u)'
  BY <1>0 DEF IsOf, ServerMoves
<1>2. \A n \in tab.told : n \in Requests /\ request[n].step = "ok"
  BY <1>0, TabFields DEF TabIsSound
<1>3. /\ Knows(tab.view, tab.told) => Knows(tab.view, tab.told)'
      /\ Knows(tab.render.view, tab.told) => Knows(tab.render.view, tab.told)'
  BY <1>2 DEF Knows, ServerMoves
<1>3a. ASSUME NEW n, NEW u, IsOf(n, u)
       PROVE  /\ \A b \in Balances : Reached(ledger[n], b) => Reached(ledger'[n], b)
              /\ \A v \in View : Covers(ledger[n], v) => Covers(ledger'[n], v)
  <2>1. n \in Requests /\ Later(ledger[n], ledger'[n])
    BY <1>0, <1>3a DEF IsOf, ServerMoves
  <2>2. ledger[n] \in Ledger /\ ledger'[n] \in Ledger
    BY <2>1 DEF PagesTypeOK
  <2> QED
    BY <2>1, <2>2, LaterLedger
<1>3b. tab.view \in View /\ tab.render.view \in View /\ tab.render.view.balance \in Balances
  BY <1>0, TabFields DEF View
<1>4. TabIsSound(tab)'
  BY <1>0, <1>1, <1>2, <1>3, <1>3a, <1>3b DEF TabIsSound, ServerMoves
<1>5. RenderIsSound(tab.render, tab.told)'
  BY <1>0, <1>1, <1>3, <1>3a, <1>3b DEF RenderIsSound, ServerMoves
<1> QED
  BY <1>4, <1>5

\* A request of the n-th click goes on to a step, and may insert the row.
LEMMA GoesFInv ==
  ASSUME DInv, NEW n \in Requests, request[n].step \notin {"none", "ok"},
         NEW s \in {"calling", "opened", "ok", "failed"}, Goes(n, s),
         NEW b \in BOOLEAN, NEW o \in Users \cup {Nobody},
         account' = [account EXCEPT ![n].atUnit = b, ![n].owner = o],
         \/ ledger' = ledger
         \/ account[n].owner = Nobody /\ ledger' = [ledger EXCEPT ![n] = NewLedger(0)],
         o = account[n].owner \/ (account[n].owner = Nobody /\ o = request[n].customer),
         s \in {"calling", "opened"} => request[n].user = request[n].customer,
         s = "ok" => o = request[n].customer,
         troubles \subseteq troubles', UNCHANGED <<session, tab, customer>>
  PROVE  DInv'
<1> USE DEF DInv
<1>0. /\ request \in [Requests ->
           [step : {"none", "sent", "calling", "opened", "ok", "failed"},
            customer : Users \cup {Nobody}, user : Users \cup {Nobody}]]
      /\ account \in [Requests -> [atUnit : BOOLEAN, owner : Users \cup {Nobody}]]
      /\ ledger \in [Requests -> Ledger]
      /\ \A m \in Requests : Reached(ledger[m], ledger[m].balance)
  BY DEF PagesTypeOK, LedgersAreSound
<1>1. /\ request'[n].step = s /\ request'[n].customer = request[n].customer
      /\ request'[n].user = request[n].user
      /\ \A m \in Requests \ {n} : request'[m] = request[m]
      /\ request' \in [Requests ->
           [step : {"none", "sent", "calling", "opened", "ok", "failed"},
            customer : Users \cup {Nobody}, user : Users \cup {Nobody}]]
  BY <1>0 DEF Goes
<1>2. /\ account'[n].owner = o /\ account'[n].atUnit = b
      /\ \A m \in Requests \ {n} : account'[m] = account[m]
      /\ account' \in [Requests -> [atUnit : BOOLEAN, owner : Users \cup {Nobody}]]
  <2>1. account' = [account EXCEPT ![n].atUnit = b, ![n].owner = o]
    OBVIOUS
  <2>2. account'[n] = [account[n] EXCEPT !.atUnit = b, !.owner = o]
    BY <1>0, <2>1
  <2>3. account[n] \in [atUnit : BOOLEAN, owner : Users \cup {Nobody}]
    BY <1>0
  <2>4. /\ account'[n] \in [atUnit : BOOLEAN, owner : Users \cup {Nobody}]
        /\ account'[n].owner = o /\ account'[n].atUnit = b
    BY <2>2, <2>3
  <2> QED
    BY <1>0, <2>1, <2>4
<1>2a. /\ ledger' \in [Requests -> Ledger]
       /\ \A m \in Requests : Reached(ledger'[m], ledger'[m].balance)
       /\ \A m \in Requests : account[m].owner # Nobody => ledger'[m] = ledger[m]
  <2>1. 0 \in Balances
    BY DashboardAssumption DEF Balances
  <2>2. NewLedger(0) \in Ledger /\ Reached(NewLedger(0), NewLedger(0).balance)
    BY <2>1, NewLedgers
  <2> QED
    BY <1>0, <2>2
<1>3. PagesTypeOK' /\ LedgersAreSound'
  BY <1>1, <1>2, <1>2a DEF PagesTypeOK, LedgersAreSound
<1>4. OwnersAreSound'
  BY <1>1, <1>2 DEF OwnersAreSound
<1>5. ServerMoves
  BY <1>0, <1>1, <1>2, <1>2a, SameLedger DEF ServerMoves
<1> QED
  BY <1>3, <1>4, <1>5, ServerFrame

LEMMA ServerDInv ==
  ASSUME DInv, NEW n \in Requests,
         CheckCustomer(n) \/ Refuse(n) \/ UnitOpens(n) \/ InsertRow(n) \/ LoseAccount(n)
  PROVE  DInv'
<1>0. /\ account \in [Requests ->
           [atUnit : BOOLEAN, owner : Users \cup {Nobody}]]
      /\ request[n].customer \in Users \cup {Nobody}
      /\ account[n].owner \in {Nobody, request[n].customer}
      /\ request[n].step \in {"calling", "opened"} => request[n].user = request[n].customer
  BY DEF DInv, PagesTypeOK, OwnersAreSound
<1> DEFINE b == account[n].atUnit
           o == account[n].owner
<1>1. /\ b \in BOOLEAN /\ o \in Users \cup {Nobody}
      /\ account = [account EXCEPT ![n].atUnit = b, ![n].owner = o]
  BY <1>0
<1>2. CASE CheckCustomer(n)
  <2>1. PICK s \in {"calling", "failed"} :
          Goes(n, s) /\ (s = "calling" => request[n].user = request[n].customer)
    BY <1>2 DEF CheckCustomer, IsEligible
  <2>2. /\ request[n].step = "sent" /\ account' = account /\ ledger' = ledger
        /\ UNCHANGED <<session, tab, customer, troubles>>
    BY <1>2 DEF CheckCustomer
  <2> HIDE DEF b, o
  <2> QED
    BY <1>1, <2>1, <2>2, GoesFInv DEF b, o
<1>3. CASE Refuse(n) \/ LoseAccount(n)
  <2>1. /\ request[n].step \in {"sent", "calling", "opened"} /\ Goes(n, "failed")
        /\ account' = account /\ ledger' = ledger
        /\ troubles \subseteq troubles' /\ UNCHANGED <<session, tab, customer>>
    BY <1>3 DEF Refuse, LoseAccount, Trouble
  <2> QED
    BY <1>1, <2>1, GoesFInv
<1>4. CASE UnitOpens(n)
  <2>1. /\ request[n].step = "calling" /\ Goes(n, "opened")
        /\ account' = [account EXCEPT ![n].atUnit = TRUE, ![n].owner = o]
        /\ UNCHANGED <<session, tab, customer, ledger, troubles>>
    BY <1>0, <1>4 DEF UnitOpens
  <2>2. request[n].user = request[n].customer
    BY <1>0, <2>1
  <2> QED
    BY <1>1, <2>1, <2>2, GoesFInv
<1>5. CASE InsertRow(n) /\ account[n].owner = Nobody
  <2> DEFINE c == request[n].customer
  <2>1. /\ request[n].step = "opened" /\ Goes(n, "ok")
        /\ account' = [account EXCEPT ![n].atUnit = b, ![n].owner = c]
        /\ ledger' = [ledger EXCEPT ![n] = NewLedger(0)]
        /\ UNCHANGED <<session, tab, customer, troubles>>
    BY <1>0, <1>5 DEF InsertRow
  <2> QED
    BY <1>0, <1>1, <1>5, <2>1, GoesFInv
<1>6. CASE InsertRow(n) /\ account[n].owner # Nobody
  <2>1. /\ request[n].step = "opened" /\ Goes(n, "failed") /\ account' = account /\ ledger' = ledger
        /\ UNCHANGED <<session, tab, customer, troubles>>
    BY <1>6 DEF InsertRow
  <2> QED
    BY <1>1, <2>1, GoesFInv
<1> QED
  BY <1>2, <1>3, <1>4, <1>5, <1>6

LEMMA WebhookDInv ==
  ASSUME DInv, NEW n \in Requests,
         BackfillRow(n) \/ \E t \in Transactions : RecordEntry(n, t)
  PROVE  DInv'
<1> USE DEF DInv
<1>0. /\ account \in [Requests -> [atUnit : BOOLEAN, owner : Users \cup {Nobody}]]
      /\ ledger \in [Requests -> Ledger] /\ ledger[n] \in Ledger
      /\ \A m \in Requests : Reached(ledger[m], ledger[m].balance)
      /\ request[n].customer \in Users \cup {Nobody}
      /\ account[n].atUnit => request[n].step # "none"
      /\ account[n].owner # Nobody => request[n].step # "none"
  BY DEF PagesTypeOK, OwnersAreSound, LedgersAreSound
<1>1. /\ request[n].step # "none"
      /\ session' = session /\ tab' = tab /\ customer' = customer /\ request' = request
      /\ troubles' = troubles
  BY <1>0 DEF BackfillRow, RecordEntry
<1>2. PICK o \in Users \cup {Nobody}, l \in Ledger :
        /\ account' = [account EXCEPT ![n].owner = o]
        /\ ledger' = [ledger EXCEPT ![n] = l]
        /\ Reached(l, l.balance)
        /\ \/ account[n].owner = Nobody /\ o = request[n].customer
           \/ account[n].owner = o /\ Later(ledger[n], l)
  <2>1. CASE BackfillRow(n)
    <3>1. PICK b \in Balances : ledger' = [ledger EXCEPT ![n] = NewLedger(b)]
      BY <2>1, DashboardAssumption DEF BackfillRow
    <3>2. NewLedger(b) \in Ledger /\ Reached(NewLedger(b), NewLedger(b).balance)
      BY NewLedgers
    <3>3. /\ account' = [account EXCEPT ![n].owner = request[n].customer]
          /\ account[n].owner = Nobody
      BY <2>1 DEF BackfillRow
    <3> QED
      BY <1>0, <3>1, <3>2, <3>3
  <2>2. ASSUME NEW t \in Transactions, RecordEntry(n, t)
        PROVE  \E o \in Users \cup {Nobody}, l \in Ledger :
                 /\ account' = [account EXCEPT ![n].owner = o]
                 /\ ledger' = [ledger EXCEPT ![n] = l]
                 /\ Reached(l, l.balance)
                 /\ \/ account[n].owner = Nobody /\ o = request[n].customer
                    \/ account[n].owner = o /\ Later(ledger[n], l)
    <3> DEFINE e == ledger[n].recorded \cup {t}
               l == [opened |-> ledger[n].opened, balance |-> t, stamp |-> t, recorded |-> e]
    <3>1. ledger' = [ledger EXCEPT ![n] = l] /\ account' = account
      BY <1>0, <2>2 DEF RecordEntry
    <3>1a. ~(ledger[n].stamp >= t)
      BY <2>2 DEF RecordEntry, IsStale
    <3>2. /\ t \in Nat /\ t \in Balances /\ ledger[n].stamp \in Nat
          /\ e \in SUBSET Transactions /\ t \in e
      BY <1>0, DashboardAssumption DEF Ledger, Balances, Transactions
    <3>3. ledger[n].recorded \subseteq e /\ \A i \in e \ ledger[n].recorded : i = t
      OBVIOUS
    <3> HIDE DEF e
    <3>4. /\ l \in Ledger /\ l.balance = t /\ l.stamp = t /\ l.recorded = e
          /\ l.opened = ledger[n].opened
      BY <1>0, <3>2 DEF Ledger
    <3> HIDE DEF l
    <3>5. Later(ledger[n], l) /\ Reached(l, l.balance)
      <4>1. t > ledger[n].stamp
        BY <3>1a, <3>2
      <4>2. \A i \in e \ ledger[n].recorded : i > ledger[n].stamp
        BY <3>3, <4>1
      <4>3. t >= ledger[n].stamp /\ t <= t
        BY <3>2, <4>1
      <4>4. Later(ledger[n], l)
        BY <3>3, <3>4, <4>2, <4>3 DEF Later
      <4>5. Reached(l, l.balance)
        BY <3>2, <3>4, <4>3 DEF Reached
      <4> QED
        BY <4>4, <4>5
    <3>6. account' = [account EXCEPT ![n].owner = account[n].owner]
      BY <1>0, <3>1
    <3> QED
      BY <1>0, <3>1, <3>4, <3>5, <3>6
  <2> QED
    BY <2>1, <2>2
<1>3. /\ account' \in [Requests -> [atUnit : BOOLEAN, owner : Users \cup {Nobody}]]
      /\ account'[n].owner = o /\ account'[n].atUnit = account[n].atUnit
      /\ \A m \in Requests \ {n} : account'[m] = account[m]
      /\ ledger' \in [Requests -> Ledger] /\ ledger'[n] = l
      /\ \A m \in Requests \ {n} : ledger'[m] = ledger[m]
  BY <1>0, <1>2
<1>4. PagesTypeOK' /\ LedgersAreSound'
  BY <1>0, <1>1, <1>2, <1>3 DEF PagesTypeOK, LedgersAreSound
<1>5. OwnersAreSound'
  BY <1>1, <1>2, <1>3 DEF OwnersAreSound
<1>6. ServerMoves
  BY <1>0, <1>1, <1>2, <1>3, SameLedger DEF ServerMoves
<1> QED
  BY <1>1, <1>4, <1>5, <1>6, ServerFrame

LEMMA OthersDInv ==
  ASSUME DInv,
         \/ \E u \in Users \cup {Nobody} : ElsewhereSigns(u)
         \/ \E u \in Users, status \in {"Active", "Archived"} : CustomerBecomes(u, status)
  PROVE  DInv'
<1> USE DEF DInv
<1>1. /\ request' = request /\ account' = account /\ ledger' = ledger /\ tab' = tab
      /\ troubles \subseteq troubles' /\ session' \in Users \cup {Nobody}
      /\ customer' \in [Users -> {"none", "Active", "Archived"}]
  BY DEF ElsewhereSigns, CustomerBecomes, Trouble, PagesTypeOK
<1>2. PagesTypeOK' /\ OwnersAreSound' /\ LedgersAreSound'
  BY <1>1 DEF PagesTypeOK, OwnersAreSound, LedgersAreSound
<1>3. ServerMoves
  BY <1>1, SameLedger DEF ServerMoves, PagesTypeOK
<1> QED
  BY <1>1, <1>2, <1>3, ServerFrame

LEMMA ClickDInv == ASSUME DInv, NEW n \in Requests, Click(n) PROVE DInv'
<1> USE DEF DInv
<1> DEFINE q == [step |-> "sent", customer |-> tab.view.user, user |-> session]
           w == tab.waiting \cup {n}
<1>1. /\ request[n].step = "none" /\ request' = [request EXCEPT ![n] = q]
      /\ tab' = [tab EXCEPT !.busy = n, !.waiting = w]
      /\ session' = session /\ customer' = customer /\ account' = account /\ ledger' = ledger
      /\ troubles' = troubles
  BY DEF Click
<1>2. /\ tab \in Tab /\ w \in SUBSET Requests
      /\ tab.view.user \in Users \cup {Nobody} /\ session \in Users \cup {Nobody}
  BY TabFields DEF PagesTypeOK, View
<1>3. /\ q \in [step : {"none", "sent", "calling", "opened", "ok", "failed"},
                customer : Users \cup {Nobody}, user : Users \cup {Nobody}]
      /\ q.step = "sent"
  BY <1>2
<1> HIDE DEF q, w
<1>4. /\ tab' \in Tab /\ tab'.page = tab.page /\ tab'.about = tab.about
      /\ tab'.view = tab.view /\ tab'.render = tab.render /\ tab'.told = tab.told
  BY <1>1, <1>2 DEF Tab
<1>5. /\ request'[n] = q /\ \A m \in Requests \ {n} : request'[m] = request[m]
      /\ request' \in [Requests ->
           [step : {"none", "sent", "calling", "opened", "ok", "failed"},
            customer : Users \cup {Nobody}, user : Users \cup {Nobody}]]
  BY <1>1, <1>3 DEF PagesTypeOK
<1>6. PagesTypeOK'
  BY <1>1, <1>4, <1>5 DEF PagesTypeOK
<1>7. OwnersAreSound' /\ LedgersAreSound'
  BY <1>1, <1>3, <1>5 DEF OwnersAreSound, LedgersAreSound
<1>8. ServerMoves
  BY <1>1, <1>3, <1>5, SameLedger DEF ServerMoves, PagesTypeOK
<1> QED
  BY <1>4, <1>6, <1>7, <1>8, ServerFrame

LEMMA HeardDoes ==
  ASSUME NEW t \in Tab, NEW n \in Requests
  PROVE  /\ Heard(t, n) \in Tab /\ Heard(t, n).page = t.page
         /\ Heard(t, n).about = t.about /\ Heard(t, n).view = t.view
         /\ Heard(t, n).render = t.render /\ Heard(t, n).told = t.told
<1> DEFINE w == t.waiting \ {n}
           b == IF t.busy = n THEN None ELSE t.busy
<1>1. w \in SUBSET Requests /\ b \in Requests \cup {None}
  BY TabFields
<1>2. Heard(t, n) = [t EXCEPT !.waiting = w, !.busy = b]
  BY DEF Heard
<1> HIDE DEF w, b
<1> QED
  BY <1>1, <1>2 DEF Tab

LEMMA HearErrorDInv ==
  ASSUME DInv, NEW n \in Requests, HearError(n) \/ HearNothing(n) PROVE DInv'
<1> USE DEF DInv
<1>1. /\ tab' = Heard(tab, n) /\ session' = session /\ customer' = customer
      /\ request' = request /\ account' = account /\ ledger' = ledger
      /\ troubles \subseteq troubles'
  BY DEF HearError, HearNothing, Trouble
<1>2. /\ tab' \in Tab /\ tab'.page = tab.page /\ tab'.about = tab.about
      /\ tab'.view = tab.view /\ tab'.render = tab.render /\ tab'.told = tab.told
  BY <1>1, HeardDoes DEF PagesTypeOK
<1>3. PagesTypeOK' /\ OwnersAreSound' /\ LedgersAreSound'
  BY <1>1, <1>2 DEF PagesTypeOK, OwnersAreSound, LedgersAreSound
<1>4. ServerMoves
  BY <1>1, SameLedger DEF ServerMoves, PagesTypeOK
<1> QED
  BY <1>2, <1>3, <1>4, ServerFrame

\* Only the tab moves, and perhaps the session.
TabMoves ==
  /\ tab' \in Tab /\ session' \in Users \cup {Nobody}
  /\ customer' = customer /\ request' = request /\ account' = account /\ ledger' = ledger
  /\ troubles \subseteq troubles'

LEMMA TabFrame ==
  ASSUME DInv, TabMoves, TabIsSound(tab)', RenderIsSound(tab.render, tab.told)'
  PROVE  DInv'
BY DEF DInv, TabMoves, PagesTypeOK, OwnersAreSound, LedgersAreSound

\* The tab is at /login.
LEMMA LoginDInv ==
  ASSUME DInv, TabMoves, tab'.page = "login", tab'.about = None,
         tab'.view = EmptyView(Nobody), tab'.render = NoRender,
         \A n \in tab'.told : request[n].step = "ok"
  PROVE  DInv'
<1>1. EmptyView(Nobody).accounts = {}
  BY EmptyViews
<1>2. TabIsSound(tab)' /\ RenderIsSound(tab.render, tab.told)'
  BY <1>1, NoRenders DEF TabIsSound, RenderIsSound, TabMoves
<1> QED
  BY <1>2, TabFrame

\* A page is on its way, of which nothing has been read.
LEMMA RenderDInv ==
  ASSUME DInv, TabMoves, NEW p \in {"dashboard", "account"},
         NEW n \in Requests \cup {None}, p = "dashboard" => n = None, NEW u \in Users,
         tab'.page = tab.page, tab'.about = tab.about, tab'.view = tab.view,
         tab'.render = [page |-> p, about |-> n, todo |-> Reads(p), view |-> EmptyView(u)],
         \A m \in tab'.told : request[m].step = "ok"
  PROVE  DInv'
<1>1. EmptyView(u).accounts = {} /\ EmptyView(u).user = u
  BY EmptyViews
<1>2. /\ tab'.render.page = p /\ tab'.render.about = n /\ tab'.render.todo = Reads(p)
      /\ tab'.render.view = EmptyView(u)
  OBVIOUS
<1>3. RenderIsSound(tab.render, tab.told)'
  BY <1>1, <1>2, ReadsOf DEF RenderIsSound
<1>4. TabIsSound(tab)'
  BY <1>2 DEF TabIsSound, DInv, TabMoves, IsOf
<1> QED
  BY <1>3, <1>4, TabFrame

LEMMA RequestDInv ==
  ASSUME DInv, NEW t \in Tab, t.page = tab.page, t.about = tab.about, t.view = tab.view,
         \A m \in t.told : request[m].step = "ok",
         NEW p \in {"dashboard", "account"},
         NEW n \in Requests \cup {None}, p = "dashboard" => n = None,
         tab' = Request(t, p, n),
         UNCHANGED <<session, customer, request, account, ledger, troubles>>
  PROVE  DInv'
<1>0. session \in Users \cup {Nobody} /\ session' = session
  BY DEF DInv, PagesTypeOK
<1>1. CASE session = Nobody
  <2> DEFINE w == t.waiting
             d == t.told
  <2>1. tab' = [AtLogin EXCEPT !.waiting = w, !.told = d]
    BY <1>1 DEF Request
  <2>2. w \in SUBSET Requests /\ d \in SUBSET Requests
    BY TabFields
  <2>3. EmptyView(Nobody) \in View
    BY EmptyViews
  <2> HIDE DEF w, d
  <2>4. /\ tab'.page = "login" /\ tab'.about = None /\ tab'.view = EmptyView(Nobody)
        /\ tab'.render = NoRender /\ tab'.told = d /\ tab' \in Tab
    BY <2>1, <2>2, <2>3, NoRenders DEF AtLogin, Tab
  <2> QED
    BY <1>0, <2>4, LoginDInv DEF TabMoves, d
<1>2. CASE session \in Users
  <2> DEFINE r == [page |-> p, about |-> n, todo |-> Reads(p), view |-> EmptyView(session)]
  <2>1. tab' = [t EXCEPT !.render = r]
    BY <1>2, DashboardAssumption DEF Request
  <2>2. EmptyView(session) \in View
    BY <1>0, EmptyViews
  <2>3. r \in Render
    BY <2>2, ReadsOf DEF Render
  <2> HIDE DEF r
  <2>4. /\ tab' \in Tab /\ tab'.page = t.page /\ tab'.about = t.about
        /\ tab'.view = t.view /\ tab'.render = r /\ tab'.told = t.told
    BY <2>1, <2>3 DEF Tab
  <2> QED
    BY <1>0, <1>2, <2>4, RenderDInv DEF TabMoves, r
<1> QED
  BY <1>0, <1>1, <1>2

LEMMA GoDInv ==
  ASSUME DInv, GoToDashboard \/ \E n \in Requests : GoToAccount(n) PROVE DInv'
<1>1. tab \in Tab /\ \A m \in tab.told : request[m].step = "ok"
  BY DEF DInv, PagesTypeOK, TabIsSound
<1>2. CASE GoToDashboard
  BY <1>1, <1>2, RequestDInv DEF GoToDashboard
<1>3. ASSUME NEW n \in Requests, GoToAccount(n) PROVE DInv'
  BY <1>1, <1>3, RequestDInv DEF GoToAccount
<1> QED
  BY <1>2, <1>3

LEMMA SignDInv ==
  ASSUME DInv, SignOut \/ \E u \in Users : SignIn(u) PROVE DInv'
<1>1. tab \in Tab /\ \A m \in tab.told : request[m].step = "ok"
  BY DEF DInv, PagesTypeOK, TabIsSound
<1>2. CASE SignOut
  <2> DEFINE d == tab.told
  <2>1. tab' = [AtLogin EXCEPT !.told = d] /\ session' = Nobody
        /\ UNCHANGED <<customer, request, account, ledger, troubles>>
    BY <1>2 DEF SignOut
  <2>2. d \in SUBSET Requests
    BY <1>1, TabFields
  <2>3. EmptyView(Nobody) \in View
    BY EmptyViews
  <2> HIDE DEF d
  <2>4. /\ tab'.page = "login" /\ tab'.about = None /\ tab'.view = EmptyView(Nobody)
        /\ tab'.render = NoRender /\ tab'.told = d /\ tab' \in Tab
    BY <2>1, <2>2, <2>3, NoRenders DEF AtLogin, Tab
  <2> QED
    BY <1>1, <2>1, <2>4, LoginDInv DEF TabMoves, d
<1>3. ASSUME NEW u \in Users, SignIn(u) PROVE DInv'
  <2> DEFINE r == [page |-> "dashboard", about |-> None, todo |-> Reads("dashboard"),
                   view |-> EmptyView(u)]
  <2>1. tab' = [tab EXCEPT !.render = r] /\ session' = u
        /\ UNCHANGED <<customer, request, account, ledger, troubles>>
    BY <1>3 DEF SignIn, LogIn
  <2>2. EmptyView(u) \in View
    BY EmptyViews
  <2>3. r \in Render
    BY <2>2, ReadsOf DEF Render
  <2> HIDE DEF r
  <2>4. /\ tab' \in Tab /\ tab'.page = tab.page /\ tab'.about = tab.about
        /\ tab'.view = tab.view /\ tab'.render = r /\ tab'.told = tab.told
    BY <1>1, <2>1, <2>3 DEF Tab
  <2> QED
    BY <1>1, <2>1, <2>4, RenderDInv DEF TabMoves, r
<1> QED
  BY <1>2, <1>3

LEMMA HearCreatedDInv == ASSUME DInv, NEW n \in Requests, HearCreated(n) PROVE DInv'
<1> DEFINE h == Heard(tab, n)
           d == tab.told \cup {n}
           t == [h EXCEPT !.told = d]
<1>1. /\ request[n].step = "ok" /\ tab \in Tab
      /\ UNCHANGED <<session, customer, request, account, ledger, troubles>>
      /\ tab' = Refresh([h EXCEPT !.told = h.told \cup {n}])
  BY DEF HearCreated, DInv, PagesTypeOK
<1>2. /\ h \in Tab /\ h.page = tab.page /\ h.about = tab.about /\ h.view = tab.view
      /\ h.render = tab.render /\ h.told = tab.told /\ d \in SUBSET Requests
  BY <1>1, HeardDoes, TabFields
<1> HIDE DEF h
<1>3. tab' = Refresh(t)
  BY <1>1, <1>2
<1>4. \A m \in d : request[m].step = "ok"
  BY <1>1 DEF DInv, TabIsSound
<1> HIDE DEF d
<1>5. /\ t \in Tab /\ t.page = tab.page /\ t.about = tab.about /\ t.view = tab.view
      /\ t.render = tab.render /\ t.told = d
  BY <1>2 DEF Tab
<1> HIDE DEF t
<1>6. /\ t.render.page \in {"none", "dashboard", "account"}
      /\ t.render.about \in Requests \cup {None} /\ t.about \in Requests \cup {None}
      /\ t.render.page = "dashboard" => t.render.about = None
      /\ t.page = "dashboard" => t.about = None
  BY <1>5, TabFields DEF DInv, TabIsSound, RenderIsSound
<1>7. CASE t.render.page # "none"
  <2>1. tab' = Request(t, t.render.page, t.render.about)
    BY <1>3, <1>7 DEF Refresh
  <2> QED
    BY <1>1, <1>4, <1>5, <1>6, <1>7, <2>1, RequestDInv
<1>8. CASE t.render.page = "none" /\ t.page \in {"dashboard", "account"}
  <2>1. tab' = Request(t, t.page, t.about)
    BY <1>3, <1>8 DEF Refresh
  <2> QED
    BY <1>1, <1>4, <1>5, <1>6, <1>8, <2>1, RequestDInv
<1>9. CASE t.render.page = "none" /\ t.page \notin {"dashboard", "account"}
  <2>1. tab' = t
    BY <1>3, <1>9 DEF Refresh
  <2>2. TabMoves
    BY <1>1, <1>5, <2>1 DEF TabMoves, DInv, PagesTypeOK
  <2>3. TabIsSound(tab)'
    BY <1>1, <1>4, <1>5, <1>9, <2>1 DEF TabIsSound, DInv, IsOf
  <2>4. RenderIsSound(tab.render, tab.told)'
    BY <1>1, <1>5, <1>9, <2>1 DEF RenderIsSound, DInv, IsOf
  <2> QED
    BY <2>2, <2>3, <2>4, TabFrame
<1> QED
  BY <1>7, <1>8, <1>9

LEMMA FindNoAccountDInv == ASSUME DInv, FindNoAccount PROVE DInv'
<1> DEFINE v == EmptyView(Reader)
<1>1. /\ tab \in Tab /\ \A m \in tab.told : request[m].step = "ok"
      /\ session \in Users \cup {Nobody}
      /\ session' = session /\ customer' = customer /\ request' = request
      /\ account' = account /\ ledger' = ledger /\ troubles \subseteq troubles'
  BY DEF FindNoAccount, Trouble, DInv, PagesTypeOK, TabIsSound
<1>2. v \in View /\ v.accounts = {}
  <2>1. Reader \in Users \cup {Nobody}
    BY <1>1, TabFields DEF Reader, View
  <2> QED
    BY <2>1, EmptyViews
<1> HIDE DEF v
<1> DEFINE t == [tab EXCEPT !.page = "missing", !.about = None, !.view = v]
<1>3. /\ t \in Tab /\ t.page = "missing" /\ t.about = None /\ t.view = v
      /\ t.told = tab.told
  BY <1>1, <1>2 DEF Tab
<1>4. tab' = [t EXCEPT !.render = NoRender, !.busy = None]
  BY DEF FindNoAccount, v
<1> HIDE DEF t
<1>5. /\ tab' \in Tab /\ tab'.page = "missing" /\ tab'.about = None /\ tab'.view = v
      /\ tab'.render = NoRender /\ tab'.told = tab.told
  BY <1>3, <1>4, NoRenders DEF Tab
<1>6. TabMoves
  BY <1>1, <1>5 DEF TabMoves
<1>7. TabIsSound(tab)' /\ RenderIsSound(tab.render, tab.told)'
  BY <1>1, <1>2, <1>5, NoRenders DEF TabIsSound, RenderIsSound
<1> QED
  BY <1>6, <1>7, TabFrame

\* Something has been read of the page that is on its way.
LEMMA ReadDoes ==
  ASSUME DInv, NEW what \in {"customers", "accounts", "account", "transactions"},
         CanRead(what), NEW v \in View, v.user = Reader, HasRead(what, v),
         troubles \subseteq troubles'
  PROVE  /\ tab'.render.page = tab.render.page /\ tab'.render.about = tab.render.about
         /\ tab'.render.todo = tab.render.todo \ {what} /\ tab'.render.view = v
         /\ tab'.told = tab.told /\ Reader \in Users
         /\ account' = account /\ ledger' = ledger /\ request' = request
         /\ what \in {"customers", "accounts"} => tab.render.page = "dashboard"
         /\ what \in {"account", "transactions"} => tab.render.page = "account"
         /\ RenderIsSound(tab.render, tab.told)' => DInv'
<1> DEFINE r == [tab.render EXCEPT !.todo = tab.render.todo \ {what}, !.view = v]
<1>1. /\ tab \in Tab /\ tab.render \in Render /\ session \in Users \cup {Nobody}
      /\ tab.render.todo \in SUBSET {"customers", "accounts", "account", "transactions"}
      /\ tab.render.page \in {"none", "dashboard", "account"}
      /\ what \in tab.render.todo
  BY TabFields DEF DInv, PagesTypeOK, CanRead
<1>2. tab' = [tab EXCEPT !.render = r]
  BY <1>1 DEF HasRead, Tab, Render
<1>3. /\ r \in Render /\ r.page = tab.render.page /\ r.about = tab.render.about
      /\ r.todo = tab.render.todo \ {what} /\ r.view = v
  BY <1>1 DEF Render
<1> HIDE DEF r
<1>4. /\ tab' \in Tab /\ tab'.render = r /\ tab'.told = tab.told
      /\ tab'.page = tab.page /\ tab'.about = tab.about /\ tab'.view = tab.view
  BY <1>1, <1>2, <1>3 DEF Tab
<1>5. TabMoves /\ account' = account /\ ledger' = ledger /\ request' = request
  BY <1>1, <1>4 DEF TabMoves, HasRead
<1>6. TabIsSound(tab)'
  BY <1>3, <1>4, <1>5 DEF TabIsSound, DInv, TabMoves, IsOf, Knows
<1>7. /\ Reader \in Users
      /\ what \in {"customers", "accounts"} => tab.render.page = "dashboard"
      /\ what \in {"account", "transactions"} => tab.render.page = "account"
  BY <1>1 DEF DInv, RenderIsSound, Reader
<1> QED
  BY <1>3, <1>4, <1>5, <1>6, <1>7, TabFrame

LEMMA ReadCustomersDInv == ASSUME DInv, ReadCustomers PROVE DInv'
<1> DEFINE c == customer[Reader]
           v == [tab.render.view EXCEPT !.customer = c]
<1>1. /\ CanRead("customers") /\ HasRead("customers", v) /\ troubles' = troubles
      /\ tab.render.view \in View /\ customer \in [Users -> {"none", "Active", "Archived"}]
      /\ Reader = tab.render.view.user /\ "customers" \in tab.render.todo
  BY TabFields DEF ReadCustomers, DInv, PagesTypeOK, CanRead, Reader
<1>2. Reader \in Users
  BY <1>1, TabFields DEF DInv, RenderIsSound, PagesTypeOK
<1>3. c \in {"none", "Active", "Archived"}
  BY <1>1, <1>2
<1> HIDE DEF c
<1>4. v \in View /\ v.user = Reader /\ v.accounts = tab.render.view.accounts
  BY <1>1, <1>3 DEF View
<1> HIDE DEF v
<1>5. /\ tab'.render.page = "dashboard" /\ tab.render.page = "dashboard"
      /\ tab'.render.about = tab.render.about
      /\ tab'.render.todo = tab.render.todo \ {"customers"} /\ tab'.render.view = v
      /\ tab'.told = tab.told /\ account' = account /\ ledger' = ledger /\ request' = request
      /\ RenderIsSound(tab.render, tab.told)' => DInv'
  BY <1>1, <1>4, ReadDoes
<1>6. RenderIsSound(tab.render, tab.told)'
  BY <1>1, <1>2, <1>4, <1>5 DEF RenderIsSound, DInv, IsOf, Knows
<1> QED
  BY <1>5, <1>6

LEMMA ReadAccountsDInv == ASSUME DInv, ReadAccounts PROVE DInv'
<1> DEFINE a == AccountsOf(Reader)
           v == [tab.render.view EXCEPT !.accounts = a]
<1>1. /\ CanRead("accounts") /\ HasRead("accounts", v) /\ troubles' = troubles
      /\ tab.render.view \in View /\ Reader = tab.render.view.user
      /\ \A m \in tab.told : request[m].step = "ok" /\ m \in Requests
  BY TabFields DEF ReadAccounts, DInv, PagesTypeOK, CanRead, Reader, TabIsSound
<1>2. a \in SUBSET Requests /\ \A m \in Requests : m \in a <=> account[m].owner = Reader
  BY DEF AccountsOf
<1>3. \A m \in tab.told : request[m].customer = Reader => m \in a
  BY <1>1, <1>2 DEF DInv, OwnersAreSound
<1> HIDE DEF a
<1>4. v \in View /\ v.user = Reader /\ v.accounts = a
  BY <1>1, <1>2 DEF View
<1> HIDE DEF v
<1>5. /\ tab'.render.page = "dashboard" /\ tab.render.page = "dashboard"
      /\ tab'.render.about = tab.render.about /\ Reader \in Users
      /\ tab'.render.todo = tab.render.todo \ {"accounts"} /\ tab'.render.view = v
      /\ tab'.told = tab.told /\ account' = account /\ ledger' = ledger /\ request' = request
      /\ RenderIsSound(tab.render, tab.told)' => DInv'
  BY <1>1, <1>4, ReadDoes
<1>6. Knows(tab.render.view, tab.told)'
  BY <1>3, <1>4, <1>5 DEF Knows
<1>7. RenderIsSound(tab.render, tab.told)'
  BY <1>2, <1>4, <1>5, <1>6 DEF RenderIsSound, DInv, IsOf
<1> QED
  BY <1>5, <1>7

LEMMA ReadAccountDInv == ASSUME DInv, ReadAccount PROVE DInv'
<1> DEFINE n == tab.render.about
           e == ledger[n].balance
           v == [tab.render.view EXCEPT !.balance = e]
<1>1. /\ CanRead("account") /\ HasRead("account", v) /\ troubles' = troubles
      /\ tab.render.view \in View /\ Reader = tab.render.view.user
      /\ n \in Requests /\ account[n].owner = Reader /\ e \in Balances
      /\ "account" \in tab.render.todo
  BY TabFields DEF ReadAccount, DInv, PagesTypeOK, CanRead, Reader, AccountsOf, Ledger
<1> HIDE DEF e
<1>2. v \in View /\ v.user = Reader /\ v.accounts = tab.render.view.accounts /\ v.balance = e
  BY <1>1 DEF View
<1> HIDE DEF v
<1>3. /\ tab'.render.page = "account" /\ tab.render.page = "account"
      /\ tab'.render.about = n /\ Reader \in Users
      /\ tab'.render.todo = tab.render.todo \ {"account"} /\ tab'.render.view = v
      /\ tab'.told = tab.told /\ account' = account /\ ledger' = ledger /\ request' = request
      /\ RenderIsSound(tab.render, tab.told)' => DInv'
  BY <1>1, <1>2, ReadDoes
<1>4. \A m \in v.accounts : account[m].owner = v.user /\ m \in Requests
  BY <1>1, <1>2 DEF DInv, RenderIsSound, IsOf
<1>5. /\ tab.render.todo \subseteq {"account", "transactions"}
      /\ "transactions" \in tab.render.todo
  BY <1>1, <1>3 DEF DInv, RenderIsSound
<1>6. Reached(ledger[n], e)
  BY <1>1 DEF e, DInv, LedgersAreSound
<1> HIDE DEF n
<1>7. /\ v.user \in Users /\ n \in Requests /\ account'[n].owner = v.user
      /\ Reached(ledger'[n], v.balance)
      /\ \A m \in v.accounts : account'[m].owner = v.user /\ m \in Requests
  BY <1>1, <1>2, <1>3, <1>4, <1>6
<1>8. RenderIsSound(tab.render, tab.told)'
  BY <1>2, <1>3, <1>5, <1>7 DEF RenderIsSound, IsOf
<1> QED
  BY <1>3, <1>8

LEMMA ReadTransactionsDInv == ASSUME DInv, ReadTransactions PROVE DInv'
<1> DEFINE n == tab.render.about
           e == IF n \in AccountsOf(Reader) THEN ledger[n].recorded ELSE {}
           v == [tab.render.view EXCEPT !.listed = e]
<1>1. /\ CanRead("transactions") /\ HasRead("transactions", v) /\ troubles' = troubles
      /\ tab.render.view \in View /\ Reader = tab.render.view.user
      /\ "account" \notin tab.render.todo
      /\ ledger \in [Requests -> Ledger]
  BY TabFields DEF ReadTransactions, DInv, PagesTypeOK, CanRead, Reader
<1>2. e \in SUBSET Transactions
  BY <1>1 DEF AccountsOf, Ledger
<1>3. IsOf(n, Reader) => e = ledger[n].recorded
  BY DEF IsOf, AccountsOf
<1> HIDE DEF e
<1>4. /\ v \in View /\ v.user = Reader /\ v.accounts = tab.render.view.accounts
      /\ v.balance = tab.render.view.balance /\ v.listed = e
  BY <1>1, <1>2 DEF View
<1> HIDE DEF v
<1>5. /\ tab'.render.page = "account" /\ tab.render.page = "account"
      /\ tab'.render.about = n
      /\ tab'.render.todo = tab.render.todo \ {"transactions"} /\ tab'.render.view = v
      /\ tab'.told = tab.told /\ account' = account /\ ledger' = ledger /\ request' = request
      /\ RenderIsSound(tab.render, tab.told)' => DInv'
  BY <1>1, <1>4, ReadDoes
<1>6. /\ IsOf(n, v.user) /\ Reached(ledger[n], v.balance)
      /\ tab.render.todo \subseteq {"account", "transactions"}
      /\ \A m \in v.accounts : IsOf(m, v.user)
  BY <1>1, <1>4, <1>5 DEF DInv, RenderIsSound
<1>7. Covers(ledger[n], v)
  BY <1>3, <1>4, <1>6 DEF Reached, Covers
<1> HIDE DEF n
<1>8. /\ v.user \in Users /\ n \in Requests /\ account'[n].owner = v.user
      /\ Reached(ledger'[n], v.balance)
      /\ \A m \in v.accounts : account'[m].owner = v.user /\ m \in Requests
  BY <1>5, <1>6 DEF IsOf
<1>9. RenderIsSound(tab.render, tab.told)'
  BY <1>1, <1>5, <1>6, <1>7, <1>8 DEF RenderIsSound, IsOf
<1> QED
  BY <1>5, <1>9

LEMMA ReadFailsDInv ==
  ASSUME DInv, NEW what \in {"customers", "accounts", "transactions"}, ReadFails(what)
  PROVE  DInv'
<1> DEFINE v == tab.render.view
<1>1. /\ CanRead(what) /\ HasRead(what, v) /\ troubles \subseteq troubles'
      /\ "read" \in troubles' /\ v \in View /\ v.user = Reader
      /\ what = "transactions" => "account" \notin tab.render.todo
  BY TabFields DEF ReadFails, Trouble, DInv, PagesTypeOK, CanRead, Reader
<1>2. /\ tab'.render.page = tab.render.page /\ tab'.render.about = tab.render.about
      /\ tab'.render.todo = tab.render.todo \ {what} /\ tab'.render.view = v
      /\ tab'.told = tab.told /\ account' = account /\ ledger' = ledger /\ request' = request
      /\ what \in {"customers", "accounts"} => tab.render.page = "dashboard"
      /\ what = "transactions" => tab.render.page = "account"
      /\ Reader \in Users
      /\ RenderIsSound(tab.render, tab.told)' => DInv'
  BY <1>1, ReadDoes
<1>3. Knows(v, tab.told)'
  BY <1>1 DEF Knows
<1>4. RenderIsSound(tab.render, tab.told)'
  BY <1>1, <1>2, <1>3 DEF RenderIsSound, DInv, IsOf
<1> QED
  BY <1>2, <1>4

LEMMA ShowPageDInv == ASSUME DInv, ShowPage PROVE DInv'
<1> DEFINE r == tab.render
<1>1. /\ tab \in Tab /\ session \in Users \cup {Nobody}
      /\ session' = session /\ customer' = customer /\ request' = request
      /\ account' = account /\ ledger' = ledger /\ troubles' = troubles
      /\ r.page # "none" /\ r.todo = {}
      /\ TabIsSound(tab) /\ RenderIsSound(r, tab.told)
  BY DEF ShowPage, DInv, PagesTypeOK
<1>2. PICK b \in Requests \cup {None} :
        tab' = [tab EXCEPT !.page = r.page, !.about = r.about, !.view = r.view,
                           !.render = NoRender, !.busy = b]
  BY <1>1, TabFields DEF ShowPage
<1>3. /\ r.page \in {"dashboard", "account"} /\ r.about \in Requests \cup {None}
      /\ r.view \in View
  BY <1>1, TabFields
<1> HIDE DEF r
<1> DEFINE t == [tab EXCEPT !.page = r.page, !.about = r.about, !.view = r.view]
<1>4. /\ t \in Tab /\ t.page = r.page /\ t.about = r.about /\ t.view = r.view
      /\ t.told = tab.told
  BY <1>1, <1>3 DEF Tab
<1>5. tab' = [t EXCEPT !.render = NoRender, !.busy = b]
  BY <1>2
<1> HIDE DEF t
<1>6. /\ tab' \in Tab /\ tab'.page = r.page /\ tab'.about = r.about
      /\ tab'.view = r.view /\ tab'.render = NoRender /\ tab'.told = tab.told
  BY <1>4, <1>5, NoRenders DEF Tab
<1>7. TabMoves
  BY <1>1, <1>6 DEF TabMoves
<1>8. TabIsSound(tab)'
  BY <1>1, <1>3, <1>6, NoRenders DEF TabIsSound, RenderIsSound, IsOf, Knows
<1>9. RenderIsSound(tab.render, tab.told)'
  BY <1>6, NoRenders DEF RenderIsSound
<1> QED
  BY <1>7, <1>8, <1>9, TabFrame

LEMMA StutterDInv == ASSUME DInv, UNCHANGED dashboardVars PROVE DInv'
BY DEF DInv, dashboardVars, PagesTypeOK, OwnersAreSound, LedgersAreSound, TabIsSound,
       RenderIsSound, IsOf, Knows

LEMMA NextDInv == ASSUME DInv, [DashboardNext]_dashboardVars PROVE DInv'
<1>1. CASE \/ ReadCustomers \/ ReadAccounts \/ ReadAccount \/ FindNoAccount \/ ReadTransactions
           \/ \E what \in {"customers", "accounts", "transactions"} : ReadFails(what)
           \/ ShowPage
  BY <1>1, ReadCustomersDInv, ReadAccountsDInv, ReadAccountDInv, FindNoAccountDInv,
     ReadTransactionsDInv, ReadFailsDInv, ShowPageDInv
<1>2. CASE \E n \in Requests :
             \/ Click(n) \/ HearCreated(n) \/ HearError(n) \/ HearNothing(n)
             \/ CheckCustomer(n) \/ Refuse(n) \/ UnitOpens(n) \/ InsertRow(n) \/ LoseAccount(n)
             \/ BackfillRow(n) \/ \E t \in Transactions : RecordEntry(n, t)
  BY <1>2, ClickDInv, HearCreatedDInv, HearErrorDInv, ServerDInv, WebhookDInv
<1>3. CASE \/ SignOut \/ \E u \in Users : SignIn(u)
           \/ GoToDashboard \/ \E n \in Requests : GoToAccount(n)
  BY <1>3, SignDInv, GoDInv
<1> QED
  BY <1>1, <1>2, <1>3, OthersDInv, StutterDInv DEF DashboardNext

\* What has gone wrong is counted.
TroublesOK ==
  /\ IsFiniteSet(troubles)
  /\ troubles \subseteq Troubles /\ Cardinality(troubles) <= MaxTroubles

LEMMA TroubleIsCounted == ASSUME TroublesOK, NEW kind, Trouble(kind) PROVE TroublesOK'
<1>1. /\ kind \in Troubles /\ kind \notin troubles /\ troubles' = troubles \cup {kind}
      /\ Cardinality(troubles) < MaxTroubles
  BY DEF Trouble
<1>2. /\ IsFiniteSet(troubles \cup {kind})
      /\ Cardinality(troubles \cup {kind}) = Cardinality(troubles) + 1
  BY <1>1, FS_AddElement DEF TroublesOK
<1>3. Cardinality(troubles) \in Nat
  BY FS_CardinalityType DEF TroublesOK
<1> QED
  BY <1>1, <1>2, <1>3, DashboardAssumption DEF TroublesOK

LEMMA NextTroublesOK == ASSUME TroublesOK, [DashboardNext]_dashboardVars PROVE TroublesOK'
<1>1. UNCHANGED troubles \/ \E kind \in TroubleKinds : Trouble(kind)
  <2> USE DEF TroubleKinds
  <2>1. CASE UNCHANGED dashboardVars
    BY <2>1 DEF dashboardVars
  <2>2. CASE \/ \E u \in Users : SignIn(u)
             \/ SignOut
             \/ \E u \in Users \cup {Nobody} : ElsewhereSigns(u)
             \/ GoToDashboard
             \/ \E n \in Requests : GoToAccount(n)
             \/ \E u \in Users, status \in {"Active", "Archived"} : CustomerBecomes(u, status)
    BY <2>2 DEF SignIn, SignOut, ElsewhereSigns, GoToDashboard, GoToAccount, CustomerBecomes
  <2>3. CASE \/ ReadCustomers \/ ReadAccounts \/ ReadAccount \/ FindNoAccount \/ ReadTransactions
             \/ \E what \in {"customers", "accounts", "transactions"} : ReadFails(what)
             \/ ShowPage
    BY <2>3 DEF ReadCustomers, ReadAccounts, ReadAccount, FindNoAccount, ReadTransactions,
       ReadFails, ShowPage
  <2>4. ASSUME NEW n \in Requests,
               \/ Click(n) \/ HearCreated(n) \/ HearError(n) \/ HearNothing(n)
               \/ CheckCustomer(n) \/ Refuse(n) \/ UnitOpens(n) \/ InsertRow(n)
               \/ LoseAccount(n) \/ BackfillRow(n) \/ \E t \in Transactions : RecordEntry(n, t)
        PROVE  UNCHANGED troubles \/ \E kind \in TroubleKinds : Trouble(kind)
    BY <2>4 DEF Click, HearCreated, HearError, HearNothing, CheckCustomer, Refuse,
       UnitOpens, InsertRow, LoseAccount, BackfillRow, RecordEntry
  <2> QED
    BY <2>1, <2>2, <2>3, <2>4 DEF DashboardNext
<1> QED
  BY <1>1, TroubleIsCounted DEF TroublesOK

-----------------------------------------------------------------------------
(* The web app.                                                            *)

AppInv == FInv /\ DInv /\ TroublesOK

\* In every reachable state a tab is as FInv and DInv say, and as much has gone
\* wrong as may.
THEOREM AppInvariance == AppSpec => []AppInv
<1>1. AppInit => AppInv
  <2>1. DashboardInit => TroublesOK
    BY FS_EmptySet, DashboardAssumption DEF DashboardInit, TroublesOK
  <2> QED
    BY <2>1, InitFInv, InitDInv DEF AppInit, AppInv
<1>2. AppInv /\ [AppNext]_appVars => AppInv'
  <2> SUFFICES ASSUME AppInv, [AppNext]_appVars PROVE AppInv'
    OBVIOUS
  <2>1. [Next]_vars /\ [DashboardNext]_dashboardVars
    BY DEF AppNext, appVars
  <2> QED
    BY <2>1, NextFInv, NextDInv, NextTroublesOK DEF AppInv
<1> QED
  BY <1>1, <1>2, PTL DEF AppSpec

\* Whatever happens, the variables of a tab, of its session and of the rows it
\* is rendered from have their types.
THEOREM TypeCorrect == AppSpec => []AppTypeOK
<1>1. AppInv => AppTypeOK
  BY DEF AppInv, FInv, FormTypeOK, DInv, PagesTypeOK, TroublesOK, AppTypeOK, TypeOK,
     DashboardTypeOK
<1> QED
  BY <1>1, AppInvariance, PTL

\* A form shows what was submitted last, whenever the answers of its polls
\* arrive, except for the two forms and the overlap that ShowsTheLast names.
THEOREM FormsShowTheLast == AppSpec => []ShowsTheLast
<1>1. AppInv => ShowsTheLast
  BY DEF AppInv, FInv, AllOfTheLast, FormTypeOK, ShowsTheLast
<1> QED
  BY <1>1, AppInvariance, PTL

\* A form that polls no more has seen the last status or used up its polls.
THEOREM PollingStopsForAReason == AppSpec => []StopsForAReason
<1>1. AppInv => StopsForAReason
  BY DEF AppInv, FInv
<1> QED
  BY <1>1, AppInvariance, PTL

\* Without a lost or untrue answer a user who goes on until something is shown
\* makes one thing, though each submit has a key of its own.
THEOREM FormsMakeOnce == AppSpec => []MadeOnce
<1>1. AppInv => MadeOnce
  <2> SUFFICES ASSUME AppInv, mishaps \cap {"network", "api"} = {},
                      ~(page = "card" /\ overtaken),
                      NEW m \in made, NEW n \in made, intention[m] = intention[n]
               PROVE  m = n
    BY DEF MadeOnce
  <2>1. Quiet
    BY DEF Quiet
  <2>2. m \in Nat /\ n \in Nat /\ m \in Submits /\ n \in Submits /\ submits \in Nat
    BY DEF AppInv, FInv, FormTypeOK, Submits
  <2>3. m <= submits /\ n <= submits
    <3>1. post[m].step # "none" /\ post[n].step # "none"
      BY <2>1 DEF AppInv, FInv, IntentionsAreSound
    <3>2. ~(m > submits) /\ ~(n > submits)
      BY <2>2, <3>1 DEF AppInv, FInv, SeenIsSound
    <3> QED
      BY <2>2, <3>2
  <2>4. ~(m < n) /\ ~(n < m)
    BY <2>1, <2>2, <2>3 DEF AppInv, FInv, IntentionsAreSound
  <2> QED
    BY <2>2, <2>4
<1> QED
  BY <1>1, AppInvariance, PTL

\* A submit ends with a resource, a page or an error, except where a form has
\* no catch.
THEOREM FormsAreNotSilent == AppSpec => []NothingSilent
<1>1. AppInv => NothingSilent
  BY DEF AppInv, FInv
<1> QED
  BY <1>1, AppInvariance, PTL

\* The status shown of a resource never goes back.
THEOREM FormsNeverGoBack == AppSpec => NeverGoesBack
<1>1. AppInv /\ [AppNext]_appVars =>
        [\A n \in Submits : form'.seen[n] >= form.seen[n]]_vars
  <2> SUFFICES ASSUME AppInv, [AppNext]_appVars
               PROVE  \A n \in Submits : form'.seen[n] >= form.seen[n]
    OBVIOUS
  <2>1. [Next]_vars
    BY DEF AppNext, appVars
  <2> QED
    BY <2>1, SeenGrows DEF AppInv
<1> QED
  BY <1>1, AppInvariance, PTL DEF AppSpec, NeverGoesBack

\* A tab that was told of the account and shows what it has asked for since
\* does not offer to open one again.
THEOREM DashboardOffersOnce == AppSpec => []NoSecondOffer
<1>1. AppInv => NoSecondOffer
  BY NoRenders DEF AppInv, DInv, TabIsSound, Knows, NoSecondOffer, Offers
<1> QED
  BY <1>1, AppInvariance, PTL

\* An account belongs to the user of the customer it was opened for, and a tab
\* shows it to nobody else.
THEOREM AccountsAreTheirOwners == AppSpec => []OwnersAgree
<1>1. AppInv => OwnersAgree
  BY DEF AppInv, DInv, OwnersAreSound, TabIsSound, IsOf, OwnersAgree
<1> QED
  BY <1>1, AppInvariance, PTL

\* The page of an account lists the transaction of its balance, and all that the
\* ledger has from before it, unless the balance is the one the row was made
\* with or a read has failed: whatever is committed between the reads, the list
\* is of a later moment.
THEOREM ListIsNoOlderThanBalance == AppSpec => []ListReachesBalance
<1>1. AppInv => ListReachesBalance
  BY DEF AppInv, DInv, TabIsSound, Covers, ListReachesBalance
<1> QED
  BY <1>1, AppInvariance, PTL
=============================================================================
