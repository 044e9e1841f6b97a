----------------------------- MODULE Idempotency ------------------------------
(***************************************************************************)
(* The endpoints that create something at Unit (an application, account,   *)
(* payment, card or counterparty), behind the Redis hooks of               *)
(* idempotency.ts: preHandler claims the key or replays what it holds,     *)
(* the handler calls Unit and inserts the row, onSend caches the response  *)
(* or drops the key, and when the handler throws onError drops it first.   *)
(*                                                                         *)
(* A key stands for the scope, the user and the header of buildKey.  Each  *)
(* request may run in another API process, which is what the lock in Redis *)
(* is for.  One action per Redis command, Unit call or insert.             *)
(*                                                                         *)
(* External: Unit makes at most one resource per idempotency key and       *)
(* answers a repetition with the one it made.  Time is left out: a claim   *)
(* may expire whenever its request could have taken 30 seconds (the fetch  *)
(* of unit-client.ts has no timeout), a cached response, kept for a day,   *)
(* not within a behaviour.                                                 *)
(***************************************************************************)
EXTENDS Naturals, FiniteSets

CONSTANTS Requests,       \* requests being served at the same time
          Keys,           \* idempotency keys, each of one scope and user
          Ineligible,     \* keys whose request the handler refuses by itself
          Refusable,      \* keys whose request Unit may refuse
          Backfilled,     \* keys whose row a webhook may insert first (accounts)
          MaxRequests,    \* bound: requests the clients send
          Mishaps,        \* what may go wrong: see MishapKinds
          MaxMishaps,     \* bound: how many of them, each once
          NoKey           \* the key of a request slot that is not in use

VARIABLES redis,          \* redis[k]: Free, Processing or the cached response
          unit,           \* unit[k]: how many resources Unit made for key k
          rows,           \* rows[k]: the resources that have a row, of those
          request,        \* request[r]: [key, step, response]
          sent,           \* bound: requests sent so far
          replies,        \* replies[k]: the final responses clients got for k
          mishaps         \* what has gone wrong so far

vars == <<redis, unit, rows, request, sent, replies, mishaps>>

MishapKinds == {"slow",     \* the claim expires while its request runs
                "lost",     \* the fetch throws: network, or a body that is no JSON
                "gateway",  \* Unit, or what is before it, answers 429 or 5xx
                "crash"}    \* the API process dies

\* A response: its status, and the resource it shows (0 for none).
Created(n) == [status |-> 201, resource |-> n]
Status(s) == [status |-> s, resource |-> 0]
Response == [status : {0, 102, 201, 404, 409, 422, 500}, resource : Nat]

\* What a Redis key can hold besides: nothing, or the processing marker.
Free == Status(0)
Processing == Status(102)
IsCached(value) == value \notin {Free, Processing}

Steps == {"idle", "claim", "peek", "check", "call", "insert", "reply", "error", "errorReply"}
Idle == [key |-> NoKey, step |-> "idle", response |-> Status(500)]

ASSUME IdempotencyAssumption ==
  /\ Ineligible \subseteq Keys /\ Refusable \subseteq Keys
  /\ Backfilled \subseteq Keys
  /\ MaxRequests \in Nat /\ MaxMishaps \in Nat
  /\ Mishaps \subseteq MishapKinds
  /\ NoKey \notin Keys

TypeOK ==
  /\ redis \in [Keys -> Response]
  /\ unit \in [Keys -> Nat]
  /\ rows \in [Keys -> SUBSET (Nat \ {0})]
  /\ request \in [Requests -> [key : Keys \cup {NoKey}, step : Steps, response : Response]]
  /\ sent \in 0..MaxRequests
  /\ replies \in [Keys -> SUBSET Response]
  /\ mishaps \subseteq Mishaps /\ Cardinality(mishaps) <= MaxMishaps

Init ==
  /\ redis = [k \in Keys |-> Free]
  /\ unit = [k \in Keys |-> 0]
  /\ rows = [k \in Keys |-> {}]
  /\ request = [r \in Requests |-> Idle]
  /\ sent = 0
  /\ replies = [k \in Keys |-> {}]
  /\ mishaps = {}

KeyOf(r) == request[r].key
At(r, s) == request[r].step = s

Goto(r, s) == request' = [request EXCEPT ![r].step = s]
GotoWith(r, s, response) ==
  request' = [request EXCEPT ![r].step = s, ![r].response = response]

\* r's response goes out, and is remembered if it is a final one: 409 and 500
\* tell the client to try again.
End(r, response) ==
  /\ request' = [request EXCEPT ![r] = Idle]
  /\ replies' = [replies EXCEPT ![KeyOf(r)] =
       IF response.status \in {409, 500} THEN @ ELSE @ \cup {response}]

Mishap(kind) ==
  /\ kind \in Mishaps \ mishaps
  /\ Cardinality(mishaps) < MaxMishaps
  /\ mishaps' = mishaps \cup {kind}

-----------------------------------------------------------------------------
(* preHandler.                                                             *)

\* A client sends a request, or sends it again, with key k.
Send(r, k) ==
  /\ At(r, "idle")
  /\ sent < MaxRequests
  /\ sent' = sent + 1
  /\ request' = [request EXCEPT ![r] =
                   [key |-> k, step |-> "claim", response |-> Status(500)]]
  /\ UNCHANGED <<redis, unit, rows, replies, mishaps>>

\* Mutant: SET without NX, after a look for a cached response.
CanClaim_NoNX(k) == ~IsCached(redis[k])
CanClaim(k) == redis[k] = Free

\* SET key EX 30 NX.
Claim(r) ==
  /\ At(r, "claim")
  /\ IF CanClaim(KeyOf(r))
     THEN /\ redis' = [redis EXCEPT ![KeyOf(r)] = Processing]
          /\ Goto(r, "check")
     ELSE /\ Goto(r, "peek")
          /\ UNCHANGED redis
  /\ UNCHANGED <<unit, rows, sent, replies, mishaps>>

\* GET after a claim that failed: the cached response is sent again; a key
\* that is being processed, or was freed meanwhile, is a 409.
Peek(r) ==
  /\ At(r, "peek")
  /\ End(r, IF IsCached(redis[KeyOf(r)]) THEN redis[KeyOf(r)] ELSE Status(409))
  /\ UNCHANGED <<redis, unit, rows, sent, mishaps>>

-----------------------------------------------------------------------------
(* The handler.                                                            *)

\* The handler looks at the body (400) and for the customer, account or
\* counterparty it is about (404), then calls Unit.
Check(r) ==
  /\ At(r, "check")
  /\ IF KeyOf(r) \in Ineligible
     THEN GotoWith(r, "reply", Status(404))
     ELSE Goto(r, "call")
  /\ UNCHANGED <<redis, unit, rows, sent, replies, mishaps>>

\* Mutant: the attributes go out without the client's key.
Repeats_Never(k) == FALSE
\* Every mapper sends the client's key on, by which Unit knows a repetition ...
Repeats(k) == unit[k] # 0

\* ... so this is how many resources of k Unit has after a call it accepts.
AtUnit(k) == IF Repeats(k) THEN unit[k] ELSE unit[k] + 1

\* Unit accepts the call; its document names the resource.
CallUnit(r) ==
  /\ At(r, "call")
  /\ unit' = [unit EXCEPT ![KeyOf(r)] = AtUnit(KeyOf(r))]
  /\ GotoWith(r, "insert", Created(AtUnit(KeyOf(r))))
  /\ UNCHANGED <<redis, rows, sent, replies, mishaps>>

\* Unit refuses it with a 4xx: a UnitApiError, which the controller turns
\* into a 422.
UnitRefuses(r) ==
  /\ At(r, "call")
  /\ KeyOf(r) \in Refusable /\ unit[KeyOf(r)] = 0
  /\ GotoWith(r, "reply", Status(422))
  /\ UNCHANGED <<redis, unit, rows, sent, replies, mishaps>>

\* A 429 or 5xx is a UnitApiError as well, and does not say what became of
\* the call.
GatewayFails(r) ==
  /\ At(r, "call")
  /\ Mishap("gateway")
  /\ \/ unit' = unit
     \/ unit' = [unit EXCEPT ![KeyOf(r)] = AtUnit(KeyOf(r))]
  /\ GotoWith(r, "reply", Status(422))
  /\ UNCHANGED <<redis, rows, sent, replies>>

\* No answer at all: the fetch throws something else.
LoseAnswer(r) ==
  /\ At(r, "call")
  /\ Mishap("lost")
  /\ \/ unit' = unit
     \/ unit' = [unit EXCEPT ![KeyOf(r)] = AtUnit(KeyOf(r))]
  /\ Goto(r, "error")
  /\ UNCHANGED <<redis, rows, sent, replies>>

\* unitAccountId and its like are unique.
Conflicts(k, n) == n \in rows[k]

\* The insert, which fails on a resource that has a row already.
Insert(r) ==
  LET response == request[r].response
  IN /\ At(r, "insert")
     /\ IF Conflicts(KeyOf(r), response.resource)
        THEN Goto(r, "error") /\ UNCHANGED rows
        ELSE /\ rows' = [rows EXCEPT ![KeyOf(r)] = @ \cup {response.resource}]
             /\ Goto(r, "reply")
     /\ UNCHANGED <<redis, unit, sent, replies, mishaps>>

\* A webhook's handler inserts the row first (backfillAccountFromUnit).
Backfill(k) ==
  /\ k \in Backfilled
  /\ unit[k] \notin rows[k] \cup {0}
  /\ rows' = [rows EXCEPT ![k] = @ \cup {unit[k]}]
  /\ UNCHANGED <<redis, unit, request, sent, replies, mishaps>>

-----------------------------------------------------------------------------
(* onSend and onError.                                                     *)

\* Mutants: a response is sent but not kept; its status is kept, its body not.
Kept_Nothing(response) == Free
Kept_NoBody(response) == [status |-> response.status]
\* What onSend leaves under the key.
Kept(response) == IF response.status < 500 THEN response ELSE Free

Reply(r) ==
  /\ At(r, "reply")
  /\ redis' = [redis EXCEPT ![KeyOf(r)] = Kept(request[r].response)]
  /\ End(r, request[r].response)
  /\ UNCHANGED <<unit, rows, sent, mishaps>>

\* The handler threw: onError deletes the key ...
OnError(r) ==
  /\ At(r, "error")
  /\ redis' = [redis EXCEPT ![KeyOf(r)] = Free]
  /\ GotoWith(r, "errorReply", Status(500))
  /\ UNCHANGED <<unit, rows, sent, replies, mishaps>>

\* ... and onSend deletes it again with the 500, whoever has it by then.
ErrorReply(r) ==
  /\ At(r, "errorReply")
  /\ redis' = [redis EXCEPT ![KeyOf(r)] = Kept(Status(500))]
  /\ End(r, Status(500))
  /\ UNCHANGED <<unit, rows, sent, mishaps>>

-----------------------------------------------------------------------------
(* Time and crashes.                                                       *)

\* The requests that claimed k and have not replied, and those of them whose
\* handler is still at work.
Claimants(k) ==
  {r \in Requests : KeyOf(r) = k /\ request[r].step \notin {"idle", "claim", "peek"}}
Executing(k) == {r \in Claimants(k) : request[r].step \in {"check", "call", "insert"}}

\* Mutant: SET without EX.
Expires_Never(k) == FALSE
Expires(k) == redis[k] = Processing

\* The claim outlives its request: nobody else will free the key.
ExpireOrphan(k) ==
  /\ Expires(k) /\ Claimants(k) = {}
  /\ redis' = [redis EXCEPT ![k] = Free]
  /\ UNCHANGED <<unit, rows, request, sent, replies, mishaps>>

\* The request outlives its claim: it has waited for Unit longer than that.
ExpireHeld(k) ==
  /\ Expires(k)
  /\ \E r \in Claimants(k) : request[r].step \in {"call", "insert"}
  /\ Mishap("slow")
  /\ redis' = [redis EXCEPT ![k] = Free]
  /\ UNCHANGED <<unit, rows, request, sent, replies>>

Crash(r) ==
  /\ ~At(r, "idle")
  /\ Mishap("crash")
  /\ request' = [request EXCEPT ![r] = Idle]
  /\ UNCHANGED <<redis, unit, rows, sent, replies>>

Serve(r) ==
  \/ Claim(r) \/ Peek(r)
  \/ Check(r) \/ CallUnit(r) \/ UnitRefuses(r) \/ Insert(r)
  \/ Reply(r) \/ OnError(r) \/ ErrorReply(r)

\* Every client has its answer, and no key is claimed.
Rest ==
  /\ sent = MaxRequests
  /\ \A r \in Requests : request[r] = Idle
  /\ UNCHANGED vars

Next ==
  \/ \E r \in Requests :
       \/ \E k \in Keys : Send(r, k)
       \/ Serve(r) \/ GatewayFails(r) \/ LoseAnswer(r) \/ Crash(r)
  \/ \E k \in Keys : Backfill(k) \/ ExpireOrphan(k) \/ ExpireHeld(k)
  \/ Rest

Spec == Init /\ [][Next]_vars

\* A request runs on (undici gives up on a silent Unit after five minutes) and
\* Redis expires what it was told to.
FairSpec ==
  /\ Spec
  /\ \A r \in Requests : WF_vars(Serve(r))
  /\ \A k \in Keys : WF_vars(ExpireOrphan(k))

-----------------------------------------------------------------------------
(* Properties.                                                             *)

\* Whatever the lock does, however often requests time out, crash, repeat or
\* run twice, a key stands for one thing: Unit makes one resource for it, so
\* money moves once, and a client told 201 was shown one that has its row.
OneResourcePerKey ==
  \A k \in Keys :
    /\ unit[k] <= 1
    /\ \A response \in replies[k] : response.status = 201 => response.resource \in rows[k]

\* No claim has expired under its request, no request has died with its claim
\* and no handler has thrown because it got no answer.  (A handler throws, too,
\* on a row that a webhook, or a request that died since, has inserted.)
Undisturbed == mishaps \subseteq {"gateway"}

\* README.md:47: a new key executes once, a processing one is a 409: requests
\* of one key do not execute at the same time.
OneExecutor ==
  Undisturbed => \A k \in Keys \ Backfilled : \A r1, r2 \in Executing(k) : r1 = r2

\* README.md:47: a completed key is replayed, so clients of one key never get
\* two different final responses.
OneAnswer ==
  Undisturbed => \A k \in Keys : \A x, y \in replies[k] : x = y

\* README.md:47: what is replayed stays there (for its day), so nobody erases
\* or replaces the response of a request that created something.
CompletedIsKept ==
  [][\A k \in Keys : redis[k].status = 201 => redis'[k] = redis[k]]_vars

\* A key does not stay claimed: a client that was told 409 can try again.
KeyIsFreed == \A k \in Keys : redis[k] = Processing ~> redis[k] # Processing
=============================================================================
