---------------------------- MODULE EventHandlers -----------------------------
(***************************************************************************)
(* What every event handler of webhook-event.processor.ts shares, whatever *)
(* row it is about: the run of a worker from the job's start to markEvent, *)
(* the ways it ends early, and the guard that decides whether an event is  *)
(* newer than what the row has recorded.  Onboarding.tla, Cards.tla and    *)
(* Payments.tla extend it with their rows.                                 *)
(***************************************************************************)
EXTENDS EventDelivery

CONSTANT MaxFaults      \* bound: failed handlers, crashes and lost API requests

VARIABLES step,         \* step[w]: where w is in its handler
          outcome,      \* outcome[w]: the verdict w will write
          faults        \* failures and crashes so far

handlerVars == <<deliveryVars, step, outcome, faults>>

Never == 0              \* lastEventAt is null

ASSUME HandlersAssumption == MaxFaults \in Nat

HandlersTypeOK(steps) ==
  /\ DeliveryTypeOK
  /\ step \in [Workers -> steps \cup {"idle", "mark"}]
  /\ outcome \in [Workers -> Verdicts]
  /\ faults \in 0..MaxFaults

HandlersInit ==
  /\ DeliveryInit
  /\ step = [w \in Workers |-> "idle"]
  /\ outcome = [w \in Workers |-> "Processed"]
  /\ faults = 0

Event(w) == log[running[w]]
At(w, s) == running[w] # NoEvent /\ step[w] = s
Fault == faults < MaxFaults /\ faults' = faults + 1

\* Mutants: an UPDATE without its guard; every stamped row counts as newer.
IsNewer_Always(row, ev) == TRUE
IsNewer_OnceStamped(row, ev) == row.lastEventAt = Never

\* The guard of the status updates: where lastEventAt is null or before the
\* event.
IsNewer(row, ev) == row.lastEventAt = Never \/ row.lastEventAt < ev.at

\* Unit publishes an event some time after the last one, or in the same
\* millisecond (gap 0): when that is.
Later(gap) ==
  LET last == IF log = <<>> THEN Never ELSE log[Len(log)].at
  IN IF last + gap = Never THEN 1 ELSE last + gap

\* The endpoint stores event e.
Receive(e) ==
  /\ Ingest(e)
  /\ UNCHANGED <<step, outcome, faults>>

\* The job of event e starts with the given step of its handler.
Start(w, e, first) ==
  /\ Begin(w, e)
  /\ step' = [step EXCEPT ![w] = first]
  /\ outcome' = [outcome EXCEPT ![w] = "Processed"]
  /\ UNCHANGED faults

\* The handler goes on with another statement ...
GoOn(w, s) ==
  /\ step' = [step EXCEPT ![w] = s]
  /\ UNCHANGED <<deliveryVars, outcome, faults>>

\* ... or returns, and its verdict is to be written.
Return(w, verdict) ==
  /\ step' = [step EXCEPT ![w] = "mark"]
  /\ outcome' = [outcome EXCEPT ![w] = verdict]
  /\ UNCHANGED <<deliveryVars, faults>>

\* markEvent.
MarkEvent(w) ==
  /\ At(w, "mark")
  /\ Mark(w, outcome[w])
  /\ step' = [step EXCEPT ![w] = "idle"]
  /\ outcome' = [outcome EXCEPT ![w] = "Processed"]
  /\ UNCHANGED faults

\* A statement throws, in the handler or in markEvent: the catch block will
\* mark the event Failed.
Throw(w) ==
  /\ running[w] # NoEvent
  /\ step[w] # "mark" \/ outcome[w] # "Failed"
  /\ Fault
  /\ step' = [step EXCEPT ![w] = "mark"]
  /\ outcome' = [outcome EXCEPT ![w] = "Failed"]
  /\ UNCHANGED deliveryVars

\* The worker process dies.
Die(w) ==
  /\ Fault
  /\ Abandon(w)
  /\ step' = [step EXCEPT ![w] = "idle"]
  /\ outcome' = [outcome EXCEPT ![w] = "Processed"]

\* Every published event of the set has its last verdict, and nobody runs it.
Concluded(events) ==
  \A e \in events \cap Published :
    audit[e] \in Terminal /\ \A w \in Workers : running[w] # e
=============================================================================
