-------------------------- MODULE IdempotencyProofs ---------------------------
(***************************************************************************)
(* Theorems about Idempotency.tla, for any requests, keys and mishaps.     *)
(* That Unit makes one resource of a key needs nothing of the lock, but    *)
(* knowing which responses a request can carry (Carries).  That a key has  *)
(* one executor and one answer needs to know, of an undisturbed key, what  *)
(* Redis holds for it and how far its one claimant is (Orderly), and what  *)
(* is left of that when a webhook inserts the row first (Spoiled).         *)
(***************************************************************************)
EXTENDS Idempotency, FiniteSetTheorems, TLAPS

\* The final responses that key k can get.
Final(k) ==
  IF k \in Ineligible THEN {Status(404)}
  ELSE {Status(422)} \cup {Created(n) : n \in rows[k]}

RequestIsSound(r) ==
  /\ request[r].step # "idle" => KeyOf(r) \in Keys
  /\ request[r].step \in {"call", "insert"} => KeyOf(r) \notin Ineligible
  /\ request[r].step = "insert" =>
       request[r].response = Created(1) /\ unit[KeyOf(r)] = 1
  /\ request[r].step = "reply" => request[r].response \in Final(KeyOf(r))

KeyIsSound(k) ==
  /\ unit[k] \in {0, 1}
  /\ rows[k] \in {{}, {1}}
  /\ rows[k] # {} => unit[k] = 1
  /\ k \in Ineligible => unit[k] = 0
  /\ redis[k] \in {Free, Processing} \cup Final(k)
  /\ replies[k] \subseteq Final(k)

Carries ==
  /\ \A r \in Requests : RequestIsSound(r)
  /\ \A k \in Keys : KeyIsSound(k)

\* r has claimed k and not yet replied.
Claims(r, k) == KeyOf(r) = k /\ request[r].step \notin {"idle", "claim", "peek"}

\* The key is free and nothing has been done for it, or one request has
\* claimed it and nothing has been said, or there is a response, the only one.
Orderly(k) ==
  /\ \A r \in Requests : Claims(r, k) =>
       /\ redis[k] = Processing
       /\ request[r].step \in {"check", "call", "insert", "reply"}
       /\ request[r].step \in {"check", "call"} => unit[k] = 0
       /\ request[r].step = "insert" => rows[k] = {}
  /\ \A r, q \in Requests : Claims(r, k) /\ Claims(q, k) => r = q
  /\ redis[k] = Processing => \E r \in Requests : Claims(r, k)
  /\ redis[k] = Free => unit[k] = 0
  /\ redis[k] \in {Free, Processing} => replies[k] = {}
  /\ replies[k] \subseteq {redis[k]}

\* The webhook has inserted the row, and no request will say 201.
Spoiled(k) ==
  /\ rows[k] = {1}
  /\ redis[k] # Created(1) /\ Created(1) \notin replies[k]
  /\ \A r \in Requests : KeyOf(r) = k /\ request[r].step = "reply" =>
       request[r].response # Created(1)

Tidy(k) == Orderly(k) \/ (k \in Backfilled /\ Spoiled(k))

IInv ==
  /\ TypeOK /\ IsFiniteSet(mishaps)
  /\ Carries
  /\ Undisturbed => \A k \in Keys : Tidy(k)

-----------------------------------------------------------------------------
\* What the record of request r becomes.
LEMMA RequestType ==
  ASSUME TypeOK, NEW r \in Requests
  PROVE  /\ request[r].key \in Keys \cup {NoKey} /\ request[r].step \in Steps
         /\ request[r].response \in Response
         /\ Idle \in [key : Keys \cup {NoKey}, step : Steps, response : Response]
BY DEF TypeOK, Idle, Steps, Status, Response

LEMMA ResponseType ==
  /\ \A n \in Nat : Created(n) \in Response /\ Created(n).status = 201
  /\ Created(1).resource = 1
  /\ \A s \in {0, 102, 404, 409, 422, 500} : Status(s) \in Response /\ Status(s).status = s
  /\ Free \in Response /\ Processing \in Response
  /\ Free # Processing
  /\ ~IsCached(Free) /\ ~IsCached(Processing)
BY DEF Created, Status, Response, Free, Processing, IsCached

\* Final responses are cached as they are.
LEMMA FinalResponses ==
  ASSUME TypeOK, NEW k \in Keys, KeyIsSound(k), NEW v \in Final(k)
  PROVE  /\ v \in Response /\ v.status \in {201, 404, 422}
         /\ Kept(v) = v /\ IsCached(v) /\ v \notin {Free, Processing}
         /\ v.status = 201 => v.resource \in rows[k]
         /\ v = Created(1) => rows[k] = {1}
BY DEF Final, KeyIsSound, Response, Status, Created, Kept, IsCached, Free, Processing

\* A mishap happens once; their number is bounded.
LEMMA MishapTypes ==
  ASSUME TypeOK, IsFiniteSet(mishaps), NEW kind, Mishap(kind)
  PROVE  /\ mishaps' \subseteq Mishaps /\ Cardinality(mishaps') <= MaxMishaps
         /\ IsFiniteSet(mishaps')
         /\ kind \in mishaps'
<1>1. kind \notin mishaps /\ mishaps' = mishaps \cup {kind} /\ kind \in Mishaps
  BY DEF Mishap
<1>2. IsFiniteSet(mishaps') /\ Cardinality(mishaps') = Cardinality(mishaps) + 1
  BY <1>1, FS_AddElement
<1>3. Cardinality(mishaps) \in Nat /\ MaxMishaps \in Nat
  BY FS_CardinalityType, IdempotencyAssumption
<1> QED
  BY <1>1, <1>2, <1>3 DEF Mishap, TypeOK

-----------------------------------------------------------------------------
(* What becomes of the request of a step.                                  *)

RequestRecord == [key : Keys \cup {NoKey}, step : Steps, response : Response]

\* Only request r changes, and becomes q.
Becomes(r, q) ==
  /\ request' \in [Requests -> RequestRecord]
  /\ request'[r] = q
  /\ \A other \in Requests \ {r} : request'[other] = request[other]

LEMMA GotoBecomes ==
  ASSUME TypeOK, NEW r \in Requests, NEW s \in Steps, Goto(r, s)
  PROVE  Becomes(r, [key |-> KeyOf(r), step |-> s, response |-> request[r].response])
BY DEF TypeOK, Goto, Becomes, RequestRecord, KeyOf

LEMMA GotoWithBecomes ==
  ASSUME TypeOK, NEW r \in Requests, NEW s \in Steps, NEW v \in Response, GotoWith(r, s, v)
  PROVE  Becomes(r, [key |-> KeyOf(r), step |-> s, response |-> v])
BY DEF TypeOK, GotoWith, Becomes, RequestRecord, KeyOf

LEMMA EndBecomes ==
  ASSUME TypeOK, NEW r \in Requests, NEW v \in Response, End(r, v), KeyOf(r) \in Keys
  PROVE  /\ Becomes(r, Idle)
         /\ replies' \in [Keys -> SUBSET Response]
         /\ replies'[KeyOf(r)] \in {replies[KeyOf(r)], replies[KeyOf(r)] \cup {v}}
         /\ v.status \in {409, 500} => replies'[KeyOf(r)] = replies[KeyOf(r)]
         /\ v.status \notin {409, 500} => replies'[KeyOf(r)] = replies[KeyOf(r)] \cup {v}
         /\ \A k \in Keys \ {KeyOf(r)} : replies'[k] = replies[k]
<1>1. Becomes(r, Idle)
  BY RequestType DEF TypeOK, End, Becomes, RequestRecord
<1> QED
  BY <1>1 DEF TypeOK, End

-----------------------------------------------------------------------------
(* Which responses a request can carry.                                    *)

Carried == TypeOK /\ IsFiniteSet(mishaps) /\ Carries

\* A step of request r for key k: other keys are as they were, and the resource
\* and the row of k stay once they are there.
LEMMA StepCarried ==
  ASSUME Carried, NEW r \in Requests, NEW k \in Keys,
         TypeOK', IsFiniteSet(mishaps'),
         \A q \in Requests \ {r} : request'[q] = request[q],
         \A j \in Keys \ {k} : /\ redis'[j] = redis[j] /\ unit'[j] = unit[j]
                               /\ rows'[j] = rows[j] /\ replies'[j] = replies[j],
         rows[k] \subseteq rows'[k], unit[k] = 1 => unit'[k] = 1,
         RequestIsSound(r)', KeyIsSound(k)'
  PROVE  Carried'
<1>1. \A j \in Keys : Final(j) \subseteq Final(j)'
  BY DEF Final
<1>2. ASSUME NEW q \in Requests PROVE RequestIsSound(q)'
  <2>1. CASE q # r
    <3>1. RequestIsSound(q) /\ request'[q] = request[q]
      BY <2>1 DEF Carried, Carries
    <3>2. \A j \in Keys : unit[j] = 1 => unit'[j] = 1
      OBVIOUS
    <3> QED
      BY <3>1, <3>2, <1>1 DEF RequestIsSound, KeyOf
  <2> QED
    BY <2>1
<1>3. ASSUME NEW j \in Keys PROVE KeyIsSound(j)'
  <2>1. KeyIsSound(j)
    BY DEF Carried, Carries
  <2>2. CASE j # k
    BY <2>1, <2>2, <1>1 DEF KeyIsSound, Free, Processing
  <2> QED
    BY <2>2
<1> QED
  BY <1>2, <1>3 DEF Carried, Carries

\* A request in use is one of a key.
LEMMA KeyInUse ==
  ASSUME Carried, NEW r \in Requests, request[r].step # "idle"
  PROVE  /\ KeyOf(r) \in Keys /\ RequestIsSound(r) /\ KeyIsSound(KeyOf(r))
         /\ request[r].response \in Response
BY RequestType DEF Carried, Carries, RequestIsSound

LEMMA CallUnitCarried ==
  ASSUME Carried, NEW r \in Requests, CallUnit(r)
  PROVE  Carried'
<1>1. KeyOf(r) \in Keys /\ RequestIsSound(r) /\ KeyIsSound(KeyOf(r))
  BY KeyInUse DEF CallUnit, At
<1>2. PICK k \in Keys : k = KeyOf(r)
  BY <1>1
<1>3. AtUnit(k) = 1
  BY <1>1, <1>2 DEF KeyIsSound, AtUnit, Repeats
<1>4. Becomes(r, [key |-> k, step |-> "insert", response |-> Created(1)])
  BY <1>2, <1>3, GotoWithBecomes, ResponseType DEF CallUnit, Carried, Steps
<1>5. unit' = [unit EXCEPT ![k] = 1] /\ UNCHANGED <<redis, rows, sent, replies, mishaps>>
  BY <1>2, <1>3 DEF CallUnit
<1>6. TypeOK' /\ IsFiniteSet(mishaps')
  BY <1>4, <1>5 DEF Carried, TypeOK, Becomes, RequestRecord
<1>7. RequestIsSound(r)' /\ KeyIsSound(k)'
  BY <1>1, <1>2, <1>4, <1>5 DEF Carried, TypeOK, RequestIsSound, KeyIsSound, Becomes, KeyOf, Final, CallUnit, At
<1> QED
  BY <1>4, <1>5, <1>6, <1>7, StepCarried DEF Carried, TypeOK, Becomes

LEMMA ClaimCarried ==
  ASSUME Carried, NEW r \in Requests, Claim(r)
  PROVE  Carried'
<1>1. KeyOf(r) \in Keys /\ RequestIsSound(r) /\ KeyIsSound(KeyOf(r)) /\ request[r].response \in Response
  BY KeyInUse DEF Claim, At
<1>2. PICK k \in Keys : k = KeyOf(r)
  BY <1>1
<1>3. \/ /\ Becomes(r, [key |-> k, step |-> "check", response |-> request[r].response])
         /\ redis' = [redis EXCEPT ![k] = Processing]
      \/ /\ Becomes(r, [key |-> k, step |-> "peek", response |-> request[r].response])
         /\ redis' = redis
  BY <1>2, GotoBecomes DEF Claim, Carried, Steps
<1>4. UNCHANGED <<unit, rows, sent, replies, mishaps>>
  BY DEF Claim
<1>5. TypeOK' /\ IsFiniteSet(mishaps')
  BY <1>3, <1>4, ResponseType DEF Carried, TypeOK, Becomes, RequestRecord
<1>6. RequestIsSound(r)' /\ KeyIsSound(k)'
  BY <1>1, <1>2, <1>3, <1>4 DEF Carried, TypeOK, RequestIsSound, KeyIsSound, Becomes, KeyOf, Final, Processing, Free
<1> QED
  BY <1>3, <1>4, <1>5, <1>6, StepCarried DEF Carried, TypeOK, Becomes

LEMMA PeekCarried ==
  ASSUME Carried, NEW r \in Requests, Peek(r)
  PROVE  Carried'
<1>1. KeyOf(r) \in Keys /\ RequestIsSound(r) /\ KeyIsSound(KeyOf(r)) /\ request[r].response \in Response
  BY KeyInUse DEF Peek, At
<1>2. PICK k \in Keys : k = KeyOf(r)
  BY <1>1
<1>3. PICK v \in Response :
        /\ End(r, v) /\ UNCHANGED <<redis, unit, rows, sent, mishaps>>
        /\ v.status \notin {409, 500} => v \in Final(k)
  <2>1. CASE IsCached(redis[k])
    BY <1>1, <1>2, <2>1, ResponseType DEF Peek, KeyIsSound, Carried, TypeOK
  <2>2. CASE ~IsCached(redis[k])
    BY <1>2, <2>2, ResponseType DEF Peek
  <2> QED
    BY <2>1, <2>2
<1>4. /\ Becomes(r, Idle) /\ replies' \in [Keys -> SUBSET Response]
      /\ replies'[k] \subseteq replies[k] \cup Final(k)
      /\ \A j \in Keys \ {k} : replies'[j] = replies[j]
  BY <1>1, <1>2, <1>3, EndBecomes DEF Carried
<1>5. TypeOK' /\ IsFiniteSet(mishaps')
  BY <1>3, <1>4 DEF Carried, TypeOK, Becomes, RequestRecord
<1>6. RequestIsSound(r)' /\ KeyIsSound(k)'
  BY <1>1, <1>2, <1>3, <1>4 DEF RequestIsSound, KeyIsSound, Becomes, KeyOf, Final, Idle
<1> QED
  BY <1>3, <1>4, <1>5, <1>6, StepCarried DEF Carried, TypeOK, Becomes

LEMMA CheckCarried ==
  ASSUME Carried, NEW r \in Requests, Check(r)
  PROVE  Carried'
<1>1. KeyOf(r) \in Keys /\ RequestIsSound(r) /\ KeyIsSound(KeyOf(r)) /\ request[r].response \in Response
  BY KeyInUse DEF Check, At
<1>2. PICK k \in Keys : k = KeyOf(r)
  BY <1>1
<1>3. \/ /\ Becomes(r, [key |-> k, step |-> "reply", response |-> Status(404)])
         /\ k \in Ineligible
      \/ /\ Becomes(r, [key |-> k, step |-> "call", response |-> request[r].response])
         /\ k \notin Ineligible
  <2>1. CASE k \in Ineligible
    BY <1>2, <2>1, GotoWithBecomes, ResponseType DEF Check, Carried, Steps
  <2>2. CASE k \notin Ineligible
    BY <1>2, <2>2, GotoBecomes DEF Check, Carried, Steps
  <2> QED
    BY <2>1, <2>2
<1>4. UNCHANGED <<redis, unit, rows, sent, replies, mishaps>>
  BY DEF Check
<1>5. TypeOK' /\ IsFiniteSet(mishaps')
  BY <1>3, <1>4 DEF Carried, TypeOK, Becomes, RequestRecord
<1>6. RequestIsSound(r)' /\ KeyIsSound(k)'
  BY <1>1, <1>2, <1>3, <1>4 DEF RequestIsSound, KeyIsSound, Becomes, KeyOf, Final
<1> QED
  BY <1>3, <1>4, <1>5, <1>6, StepCarried DEF Carried, TypeOK, Becomes

LEMMA UnitRefusesCarried ==
  ASSUME Carried, NEW r \in Requests, UnitRefuses(r)
  PROVE  Carried'
<1>1. KeyOf(r) \in Keys /\ RequestIsSound(r) /\ KeyIsSound(KeyOf(r)) /\ request[r].response \in Response
  BY KeyInUse DEF UnitRefuses, At
<1>2. PICK k \in Keys : k = KeyOf(r)
  BY <1>1
<1>3. Becomes(r, [key |-> k, step |-> "reply", response |-> Status(422)])
  BY <1>2, GotoWithBecomes, ResponseType DEF UnitRefuses, Carried, Steps
<1>4. UNCHANGED <<redis, unit, rows, sent, replies, mishaps>>
  BY DEF UnitRefuses
<1>5. TypeOK' /\ IsFiniteSet(mishaps')
  BY <1>3, <1>4 DEF Carried, TypeOK, Becomes, RequestRecord
<1>6. RequestIsSound(r)' /\ KeyIsSound(k)'
  BY <1>1, <1>2, <1>3, <1>4 DEF RequestIsSound, KeyIsSound, Becomes, KeyOf, Final, UnitRefuses, At
<1> QED
  BY <1>3, <1>4, <1>5, <1>6, StepCarried DEF Carried, TypeOK, Becomes

LEMMA GatewayFailsCarried ==
  ASSUME Carried, NEW r \in Requests, GatewayFails(r)
  PROVE  Carried'
<1>1. KeyOf(r) \in Keys /\ RequestIsSound(r) /\ KeyIsSound(KeyOf(r)) /\ request[r].response \in Response
  BY KeyInUse DEF GatewayFails, At
<1>2. PICK k \in Keys : k = KeyOf(r)
  BY <1>1
<1>3. AtUnit(k) = 1
  BY <1>1, <1>2 DEF KeyIsSound, AtUnit, Repeats
<1>4. Becomes(r, [key |-> k, step |-> "reply", response |-> Status(422)])
  BY <1>2, GotoWithBecomes, ResponseType DEF GatewayFails, Carried, Steps
<1>5. /\ unit' = unit \/ unit' = [unit EXCEPT ![k] = 1]
      /\ UNCHANGED <<redis, rows, sent, replies>>
  BY <1>2, <1>3 DEF GatewayFails
<1>6. mishaps' \subseteq Mishaps /\ Cardinality(mishaps') <= MaxMishaps /\ IsFiniteSet(mishaps')
  BY MishapTypes DEF GatewayFails, Carried
<1>7. TypeOK' /\ IsFiniteSet(mishaps')
  BY <1>4, <1>5, <1>6 DEF Carried, TypeOK, Becomes, RequestRecord
<1>8. RequestIsSound(r)' /\ KeyIsSound(k)'
  BY <1>1, <1>2, <1>4, <1>5 DEF Carried, TypeOK, RequestIsSound, KeyIsSound, Becomes, KeyOf, Final, GatewayFails, At
<1> QED
  BY <1>4, <1>5, <1>7, <1>8, StepCarried DEF Carried, TypeOK, Becomes

LEMMA LoseAnswerCarried ==
  ASSUME Carried, NEW r \in Requests, LoseAnswer(r)
  PROVE  Carried'
<1>1. KeyOf(r) \in Keys /\ RequestIsSound(r) /\ KeyIsSound(KeyOf(r)) /\ request[r].response \in Response
  BY KeyInUse DEF LoseAnswer, At
<1>2. PICK k \in Keys : k = KeyOf(r)
  BY <1>1
<1>3. AtUnit(k) = 1
  BY <1>1, <1>2 DEF KeyIsSound, AtUnit, Repeats
<1>4. Becomes(r, [key |-> k, step |-> "error", response |-> request[r].response])
  BY <1>2, GotoBecomes, ResponseType DEF LoseAnswer, Carried, Steps
<1>5. /\ unit' = unit \/ unit' = [unit EXCEPT ![k] = 1]
      /\ UNCHANGED <<redis, rows, sent, replies>>
  BY <1>2, <1>3 DEF LoseAnswer
<1>6. mishaps' \subseteq Mishaps /\ Cardinality(mishaps') <= MaxMishaps /\ IsFiniteSet(mishaps')
  BY MishapTypes DEF LoseAnswer, Carried
<1>7. TypeOK' /\ IsFiniteSet(mishaps')
  BY <1>4, <1>5, <1>6 DEF Carried, TypeOK, Becomes, RequestRecord
<1>8. RequestIsSound(r)' /\ KeyIsSound(k)'
  BY <1>1, <1>2, <1>4, <1>5 DEF Carried, TypeOK, RequestIsSound, KeyIsSound, Becomes, KeyOf, Final, LoseAnswer, At
<1> QED
  BY <1>4, <1>5, <1>7, <1>8, StepCarried DEF Carried, TypeOK, Becomes

LEMMA InsertCarried ==
  ASSUME Carried, NEW r \in Requests, Insert(r)
  PROVE  Carried'
<1>1. KeyOf(r) \in Keys /\ RequestIsSound(r) /\ KeyIsSound(KeyOf(r)) /\ request[r].response \in Response
  BY KeyInUse DEF Insert, At
<1>2. PICK k \in Keys : k = KeyOf(r)
  BY <1>1
<1>3. request[r].response = Created(1) /\ Created(1).resource = 1 /\ k \notin Ineligible /\ unit[k] = 1
  BY <1>1, <1>2, ResponseType DEF RequestIsSound, Insert, At
<1>4. \/ /\ Becomes(r, [key |-> k, step |-> "error", response |-> Created(1)])
         /\ rows' = rows
      \/ /\ Becomes(r, [key |-> k, step |-> "reply", response |-> Created(1)])
         /\ rows' = [rows EXCEPT ![k] = @ \cup {1}]
  BY <1>2, <1>3, GotoBecomes DEF Insert, Carried, Steps
<1>5. UNCHANGED <<redis, unit, sent, replies, mishaps>>
  BY DEF Insert
<1>6. TypeOK' /\ IsFiniteSet(mishaps')
  BY <1>4, <1>5 DEF Carried, TypeOK, Becomes, RequestRecord
<1>7. rows[k] \subseteq rows'[k] /\ rows'[k] \in {{}, {1}}
  BY <1>1, <1>2, <1>4 DEF Carried, TypeOK, KeyIsSound
<1>8. RequestIsSound(r)' /\ KeyIsSound(k)'
  BY <1>1, <1>2, <1>3, <1>4, <1>5, <1>7 DEF Carried, TypeOK, RequestIsSound, KeyIsSound, Becomes, KeyOf, Final
<1> QED
  BY <1>4, <1>5, <1>6, <1>7, <1>8, StepCarried DEF Carried, TypeOK, Becomes

LEMMA ReplyCarried ==
  ASSUME Carried, NEW r \in Requests, Reply(r)
  PROVE  Carried'
<1>1. KeyOf(r) \in Keys /\ RequestIsSound(r) /\ KeyIsSound(KeyOf(r)) /\ request[r].response \in Response
  BY KeyInUse DEF Reply, At
<1>2. PICK k \in Keys : k = KeyOf(r)
  BY <1>1
<1>3. PICK v \in Final(k) : v = request[r].response
  BY <1>1, <1>2 DEF RequestIsSound, Reply, At
<1>4. v \in Response /\ v.status \notin {409, 500} /\ Kept(v) = v
  BY <1>1, <1>2, <1>3, FinalResponses DEF Carried
<1>5. /\ Becomes(r, Idle) /\ replies' \in [Keys -> SUBSET Response]
      /\ replies'[k] = replies[k] \cup {v}
      /\ \A j \in Keys \ {k} : replies'[j] = replies[j]
  BY <1>1, <1>2, <1>3, <1>4, EndBecomes DEF Reply, Carried
<1>6. redis' = [redis EXCEPT ![k] = v] /\ UNCHANGED <<unit, rows, sent, mishaps>>
  BY <1>2, <1>3, <1>4 DEF Reply
<1>7. TypeOK' /\ IsFiniteSet(mishaps')
  BY <1>4, <1>5, <1>6 DEF Carried, TypeOK, Becomes, RequestRecord
<1>8. RequestIsSound(r)' /\ KeyIsSound(k)'
  BY <1>1, <1>2, <1>5, <1>6 DEF Carried, TypeOK, RequestIsSound, KeyIsSound, Becomes, KeyOf, Final, Idle
<1> QED
  BY <1>5, <1>6, <1>7, <1>8, StepCarried DEF Carried, TypeOK, Becomes

LEMMA OnErrorCarried ==
  ASSUME Carried, NEW r \in Requests, OnError(r)
  PROVE  Carried'
<1>1. KeyOf(r) \in Keys /\ RequestIsSound(r) /\ KeyIsSound(KeyOf(r)) /\ request[r].response \in Response
  BY KeyInUse DEF OnError, At
<1>2. PICK k \in Keys : k = KeyOf(r)
  BY <1>1
<1>3. Becomes(r, [key |-> k, step |-> "errorReply", response |-> Status(500)])
  BY <1>2, GotoWithBecomes, ResponseType DEF OnError, Carried, Steps
<1>4. redis' = [redis EXCEPT ![k] = Free] /\ UNCHANGED <<unit, rows, sent, replies, mishaps>>
  BY <1>2 DEF OnError
<1>5. TypeOK' /\ IsFiniteSet(mishaps')
  BY <1>3, <1>4, ResponseType DEF Carried, TypeOK, Becomes, RequestRecord
<1>6. RequestIsSound(r)' /\ KeyIsSound(k)'
  BY <1>1, <1>2, <1>3, <1>4 DEF Carried, TypeOK, RequestIsSound, KeyIsSound, Becomes, KeyOf, Final, Free
<1> QED
  BY <1>3, <1>4, <1>5, <1>6, StepCarried DEF Carried, TypeOK, Becomes

LEMMA ErrorReplyCarried ==
  ASSUME Carried, NEW r \in Requests, ErrorReply(r)
  PROVE  Carried'
<1>1. KeyOf(r) \in Keys /\ RequestIsSound(r) /\ KeyIsSound(KeyOf(r)) /\ request[r].response \in Response
  BY KeyInUse DEF ErrorReply, At
<1>2. PICK k \in Keys : k = KeyOf(r)
  BY <1>1
<1>3. Kept(Status(500)) = Free
  BY ResponseType DEF Kept
<1>4. /\ Becomes(r, Idle) /\ replies' \in [Keys -> SUBSET Response]
      /\ \A j \in Keys : replies'[j] = replies[j]
  BY <1>1, <1>2, ResponseType, EndBecomes DEF ErrorReply, Carried
<1>5. redis' = [redis EXCEPT ![k] = Free] /\ UNCHANGED <<unit, rows, sent, mishaps>>
  BY <1>2, <1>3 DEF ErrorReply
<1>6. TypeOK' /\ IsFiniteSet(mishaps')
  BY <1>4, <1>5, ResponseType DEF Carried, TypeOK, Becomes, RequestRecord
<1>7. RequestIsSound(r)' /\ KeyIsSound(k)'
  BY <1>1, <1>2, <1>4, <1>5 DEF Carried, TypeOK, RequestIsSound, KeyIsSound, Becomes, KeyOf, Final, Idle, Free
<1> QED
  BY <1>4, <1>5, <1>6, <1>7, StepCarried DEF Carried, TypeOK, Becomes

LEMMA CrashCarried ==
  ASSUME Carried, NEW r \in Requests, Crash(r)
  PROVE  Carried'
<1>1. KeyOf(r) \in Keys /\ RequestIsSound(r) /\ KeyIsSound(KeyOf(r)) /\ request[r].response \in Response
  BY KeyInUse DEF Crash, At
<1>2. PICK k \in Keys : k = KeyOf(r)
  BY <1>1
<1>3. Becomes(r, Idle)
  BY RequestType DEF Crash, Carried, TypeOK, Becomes, RequestRecord
<1>4. UNCHANGED <<redis, unit, rows, sent, replies>>
  BY DEF Crash
<1>5. mishaps' \subseteq Mishaps /\ Cardinality(mishaps') <= MaxMishaps /\ IsFiniteSet(mishaps')
  BY MishapTypes DEF Crash, Carried
<1>6. TypeOK' /\ IsFiniteSet(mishaps')
  BY <1>3, <1>4, <1>5 DEF Carried, TypeOK, Becomes, RequestRecord
<1>7. RequestIsSound(r)' /\ KeyIsSound(k)'
  BY <1>1, <1>2, <1>3, <1>4 DEF RequestIsSound, KeyIsSound, Becomes, KeyOf, Final, Idle
<1> QED
  BY <1>3, <1>4, <1>6, <1>7, StepCarried DEF Carried, TypeOK, Becomes

LEMMA SendCarried ==
  ASSUME Carried, NEW r \in Requests, NEW k \in Keys, Send(r, k)
  PROVE  Carried'
<1>1. Becomes(r, [key |-> k, step |-> "claim", response |-> Status(500)])
  <2>1. [key |-> k, step |-> "claim", response |-> Status(500)] \in RequestRecord
    BY ResponseType DEF RequestRecord, Steps
  <2> QED
    BY <2>1 DEF Send, Carried, TypeOK, Becomes, RequestRecord
<1>2. sent' \in 0..MaxRequests /\ UNCHANGED <<redis, unit, rows, replies, mishaps>>
  BY IdempotencyAssumption DEF Send, Carried, TypeOK
<1>3. TypeOK' /\ IsFiniteSet(mishaps')
  BY <1>1, <1>2 DEF Carried, TypeOK, Becomes, RequestRecord
<1>4. RequestIsSound(r)' /\ KeyIsSound(k)'
  BY <1>1, <1>2 DEF Carried, Carries, RequestIsSound, KeyIsSound, Becomes, KeyOf, Final
<1> QED
  BY <1>1, <1>2, <1>3, <1>4, StepCarried DEF Carried, TypeOK, Becomes

\* A key is freed, or the webhook inserts its row: no request is touched.
LEMMA KeyStepCarried ==
  ASSUME Carried, NEW k \in Keys, Backfill(k) \/ ExpireOrphan(k) \/ ExpireHeld(k)
  PROVE  Carried'
<1>1. KeyIsSound(k)
  BY DEF Carried, Carries
<1>2. UNCHANGED <<unit, request, sent, replies>>
  BY DEF Backfill, ExpireOrphan, ExpireHeld
<1>3. \/ rows' = [rows EXCEPT ![k] = {1}] /\ unit[k] = 1 /\ redis' = redis
      \/ rows' = rows /\ redis' = [redis EXCEPT ![k] = Free]
  BY <1>1 DEF Backfill, ExpireOrphan, ExpireHeld, KeyIsSound, Carried, TypeOK
<1>4. mishaps' \subseteq Mishaps /\ Cardinality(mishaps') <= MaxMishaps /\ IsFiniteSet(mishaps')
  BY MishapTypes DEF Carried, TypeOK, Backfill, ExpireOrphan, ExpireHeld
<1>5. TypeOK'
  BY <1>2, <1>3, <1>4, ResponseType DEF Carried, TypeOK
<1>6. \A j \in Keys \ {k} : rows'[j] = rows[j] /\ redis'[j] = redis[j]
  BY <1>3 DEF Carried, TypeOK
<1>7. rows[k] \subseteq rows'[k]
  BY <1>1, <1>3 DEF KeyIsSound, Carried, TypeOK
<1>8. \A j \in Keys : Final(j) \subseteq Final(j)'
  BY <1>6, <1>7 DEF Final
<1>9. \A r \in Requests : RequestIsSound(r)'
  BY <1>2, <1>8 DEF Carried, Carries, RequestIsSound, KeyOf
<1>10. ASSUME NEW j \in Keys PROVE KeyIsSound(j)'
  <2>1. CASE j = k
    BY <1>1, <1>2, <1>3, <1>8, <2>1 DEF KeyIsSound, Carried, TypeOK
  <2>2. CASE j # k
    BY <1>2, <1>6, <1>8, <2>2 DEF KeyIsSound, Carried, Carries
  <2> QED
    BY <2>1, <2>2
<1> QED
  BY <1>4, <1>5, <1>9, <1>10 DEF Carried, Carries

LEMMA InitCarried == Init => Carried
<1> SUFFICES ASSUME Init PROVE Carried
  OBVIOUS
<1>1. IsFiniteSet({}) /\ Cardinality({}) = 0
  BY FS_EmptySet
<1>2. TypeOK
  BY <1>1, ResponseType, IdempotencyAssumption DEF Init, TypeOK, Idle, Steps
<1>3. Carries
  BY IdempotencyAssumption DEF Init, Carries, RequestIsSound, KeyIsSound, Idle
<1> QED
  BY <1>1, <1>2, <1>3 DEF Carried, Init

LEMMA NextCarried == Carried /\ [Next]_vars => Carried'
<1> SUFFICES ASSUME Carried, [Next]_vars PROVE Carried'
  OBVIOUS
<1>1. CASE UNCHANGED vars
  BY <1>1 DEF vars, Carried, Carries, TypeOK, RequestIsSound, KeyIsSound, Final, KeyOf
<1>2. CASE \E r \in Requests, k \in Keys : Send(r, k)
  BY <1>2, SendCarried
<1>3. CASE \E r \in Requests : Serve(r)
  BY <1>3, ClaimCarried, PeekCarried, CheckCarried, CallUnitCarried, UnitRefusesCarried,
     InsertCarried, ReplyCarried, OnErrorCarried, ErrorReplyCarried DEF Serve
<1>4. CASE \E r \in Requests : GatewayFails(r) \/ LoseAnswer(r) \/ Crash(r)
  BY <1>4, GatewayFailsCarried, LoseAnswerCarried, CrashCarried
<1>5. CASE \E k \in Keys : Backfill(k) \/ ExpireOrphan(k) \/ ExpireHeld(k)
  BY <1>5, KeyStepCarried
<1> QED
  BY <1>1, <1>2, <1>3, <1>4, <1>5 DEF Next, Rest

-----------------------------------------------------------------------------
(* One claimant, one answer.                                               *)

\* The state of key k is as it was, and so is every request that claims it.
LEMMA TidyElsewhere ==
  ASSUME NEW k \in Keys, Tidy(k),
         redis'[k] = redis[k], unit'[k] = unit[k], rows'[k] = rows[k],
         replies'[k] = replies[k],
         \A r \in Requests : request'[r] = request[r] \/ (~Claims(r, k) /\ ~Claims(r, k)')
  PROVE  Tidy(k)'
<1>1. \A r \in Requests : Claims(r, k)' = Claims(r, k)
  BY DEF Claims, KeyOf
<1>2. \A r \in Requests : Claims(r, k) => request'[r] = request[r]
  OBVIOUS
<1>3. CASE Orderly(k)
  <2>1. Orderly(k)'
    BY <1>1, <1>2, <1>3 DEF Orderly, Free, Processing
  <2> QED
    BY <2>1 DEF Tidy
<1>4. CASE k \in Backfilled /\ Spoiled(k)
  <2>1. \A r \in Requests : KeyOf(r)' = k /\ request'[r].step = "reply" =>
          request'[r].response # Created(1)
    BY <1>1, <1>2, <1>4 DEF Spoiled, Claims, KeyOf
  <2>2. Spoiled(k)'
    BY <1>4, <2>1 DEF Spoiled, Created, Status
  <2> QED
    BY <1>4, <2>2 DEF Tidy
<1> QED
  BY <1>3, <1>4 DEF Tidy

\* A request that claims k is at a step of its handler or of its response.
LEMMA Claimant ==
  ASSUME TypeOK, NEW r \in Requests, NEW k \in Keys, Claims(r, k)
  PROVE  /\ k = KeyOf(r)
         /\ request[r].step \in {"check", "call", "insert", "reply", "error", "errorReply"}
BY DEF Claims, TypeOK, Steps

\* The claimant of an orderly key goes on with its handler.
LEMMA OrderlyHandling ==
  ASSUME NEW k \in Keys, NEW r \in Requests, Orderly(k), Claims(r, k),
         \A q \in Requests \ {r} : request'[q] = request[q],
         redis'[k] = redis[k], replies'[k] = replies[k],
         request'[r].key = k, request'[r].step \in {"check", "call", "insert", "reply"},
         request'[r].step \in {"check", "call"} => unit'[k] = 0,
         request'[r].step = "insert" => rows'[k] = {}
  PROVE  Orderly(k)'
<1>1. redis[k] = Processing /\ redis'[k] = Processing /\ replies'[k] = {} /\ Free # Processing
  BY ResponseType DEF Orderly
<1>2. \A q \in Requests : Claims(q, k)' => q = r
  <2>1. \A q \in Requests : q # r => Claims(q, k)' = Claims(q, k)
    BY DEF Claims, KeyOf
  <2> QED
    BY <2>1 DEF Orderly
<1>3. Claims(r, k)'
  BY DEF Claims, KeyOf
<1>4. Free' = Free /\ Processing' = Processing
  BY DEF Free, Processing
<1> QED
  BY <1>1, <1>2, <1>3, <1>4 DEF Orderly

LEMMA ClaimTidy ==
  ASSUME Carried, NEW r \in Requests, Claim(r), \A k \in Keys : Tidy(k)
  PROVE  \A k \in Keys : Tidy(k)'
<1>1. KeyOf(r) \in Keys /\ RequestIsSound(r) /\ KeyIsSound(KeyOf(r)) /\ request[r].response \in Response
  BY KeyInUse DEF Claim, At
<1>2. PICK k \in Keys : k = KeyOf(r)
  BY <1>1
<1>3. UNCHANGED <<unit, rows, replies>>
  BY DEF Claim
<1>4. ~Claims(r, k)
  BY DEF Claim, At, Claims
<1>5. CASE redis[k] = Free
  <2>1. /\ Becomes(r, [key |-> k, step |-> "check", response |-> request[r].response])
        /\ redis' = [redis EXCEPT ![k] = Processing]
    BY <1>2, <1>5, GotoBecomes DEF Claim, CanClaim, Carried, Steps
  <2>2. ASSUME Orderly(k) PROVE Orderly(k)'
    <3>1. \A q \in Requests : ~Claims(q, k)
      BY <1>5, <2>2, ResponseType DEF Orderly
    <3>2. \A q \in Requests : Claims(q, k)' <=> q = r
      BY <2>1, <3>1 DEF Claims, Becomes, KeyOf
    <3>3. /\ redis'[k] = Processing /\ unit'[k] = 0 /\ replies'[k] = {}
          /\ Free' = Free /\ Processing' = Processing /\ Free # Processing
      BY <1>3, <1>5, <2>1, <2>2, ResponseType DEF Orderly, Carried, TypeOK, Free, Processing
    <3> QED
      BY <2>1, <3>2, <3>3 DEF Orderly, Becomes
  <2>3. Spoiled(k) => Spoiled(k)'
    BY <1>1, <1>2, <1>3, <2>1, ResponseType DEF Spoiled, Becomes, KeyOf, Carried, TypeOK, Processing, Created, Status
  <2>4. ASSUME NEW j \in Keys \ {k} PROVE Tidy(j)'
    <3>1. \A q \in Requests : request'[q] = request[q] \/ (~Claims(q, j) /\ ~Claims(q, j)')
      BY <1>2, <2>1 DEF Claims, Becomes, KeyOf
    <3> QED
      BY <1>3, <2>1, <3>1, TidyElsewhere DEF Carried, TypeOK
  <2> QED
    BY <2>2, <2>3, <2>4 DEF Tidy
<1>6. CASE redis[k] # Free
  <2>1. /\ Becomes(r, [key |-> k, step |-> "peek", response |-> request[r].response])
        /\ redis' = redis
    BY <1>2, <1>6, GotoBecomes DEF Claim, CanClaim, Carried, Steps
  <2>2. ASSUME NEW j \in Keys PROVE Tidy(j)'
    <3>1. \A q \in Requests : request'[q] = request[q] \/ (~Claims(q, j) /\ ~Claims(q, j)')
      BY <1>2, <1>4, <2>1 DEF Claims, Becomes, KeyOf
    <3> QED
      BY <1>3, <2>1, <3>1, TidyElsewhere
  <2> QED
    BY <2>2
<1> QED
  BY <1>5, <1>6

LEMMA PeekTidy ==
  ASSUME Carried, NEW r \in Requests, Peek(r), \A k \in Keys : Tidy(k)
  PROVE  \A k \in Keys : Tidy(k)'
<1>1. KeyOf(r) \in Keys /\ RequestIsSound(r) /\ KeyIsSound(KeyOf(r)) /\ request[r].response \in Response
  BY KeyInUse DEF Peek, At
<1>2. PICK k \in Keys : k = KeyOf(r)
  BY <1>1
<1>3. UNCHANGED <<redis, unit, rows>> /\ ~Claims(r, k)
  BY DEF Peek, At, Claims
<1>4. /\ Becomes(r, Idle)
      /\ \A j \in Keys \ {k} : replies'[j] = replies[j]
      /\ replies'[k] = replies[k] \/ (IsCached(redis[k]) /\ replies'[k] = replies[k] \cup {redis[k]})
  <2>1. CASE IsCached(redis[k])
    <3>1. redis[k] \in Response /\ End(r, redis[k])
      BY <1>2, <2>1 DEF Peek, Carried, TypeOK
    <3> QED
      BY <1>1, <1>2, <2>1, <3>1, EndBecomes DEF Carried
  <2>2. CASE ~IsCached(redis[k])
    <3>1. End(r, Status(409))
      BY <1>2, <2>2 DEF Peek
    <3> QED
      BY <1>1, <1>2, <3>1, EndBecomes, ResponseType DEF Carried
  <2> QED
    BY <2>1, <2>2
<1>5. \A q \in Requests, j \in Keys : request'[q] = request[q] \/ (~Claims(q, j) /\ ~Claims(q, j)')
  BY <1>2, <1>3, <1>4 DEF Claims, Becomes, KeyOf, Idle
<1>6. Tidy(k)'
  <2>1. CASE replies'[k] = replies[k]
    BY <1>3, <1>5, <2>1, TidyElsewhere
  <2>2. CASE Orderly(k) /\ IsCached(redis[k]) /\ replies'[k] = replies[k] \cup {redis[k]}
    <3>1. \A q \in Requests : Claims(q, k)' = Claims(q, k)
      BY <1>5 DEF Claims, KeyOf
    <3> QED
      BY <1>3, <1>5, <2>2, <3>1, ResponseType DEF Orderly, Tidy, Free, Processing
  <2>3. CASE k \in Backfilled /\ Spoiled(k) /\ replies'[k] = replies[k] \cup {redis[k]}
    BY <1>3, <1>4, <2>3 DEF Spoiled, Tidy, Becomes, Idle, KeyOf, Created, Status
  <2> QED
    BY <1>4, <2>1, <2>2, <2>3 DEF Tidy
<1>7. ASSUME NEW j \in Keys \ {k} PROVE Tidy(j)'
  <2>1. \A q \in Requests : request'[q] = request[q] \/ (~Claims(q, j) /\ ~Claims(q, j)')
    BY <1>2, <1>3, <1>4, <1>5 DEF Claims, Becomes, KeyOf
  <2> QED
    BY <1>2, <1>3, <1>4, <1>5, <2>1, TidyElsewhere DEF Carried, TypeOK
<1> QED
  BY <1>6, <1>7

LEMMA CheckTidy ==
  ASSUME Carried, NEW r \in Requests, Check(r), \A k \in Keys : Tidy(k)
  PROVE  \A k \in Keys : Tidy(k)'
<1>1. KeyOf(r) \in Keys /\ RequestIsSound(r) /\ KeyIsSound(KeyOf(r)) /\ request[r].response \in Response
  BY KeyInUse DEF Check, At
<1>2. PICK k \in Keys : k = KeyOf(r)
  BY <1>1
<1>3. \/ Becomes(r, [key |-> k, step |-> "reply", response |-> Status(404)])
      \/ Becomes(r, [key |-> k, step |-> "call", response |-> request[r].response])
  <2>1. CASE k \in Ineligible
    BY <1>2, <2>1, GotoWithBecomes, ResponseType DEF Check, Carried, Steps
  <2>2. CASE k \notin Ineligible
    BY <1>2, <2>2, GotoBecomes DEF Check, Carried, Steps
  <2> QED
    BY <2>1, <2>2
<1>4. UNCHANGED <<redis, unit, rows, replies>> /\ Claims(r, k) /\ request[r].step = "check"
  BY <1>2 DEF Check, At, Claims
<1>5. Tidy(k)'
  <2>1. CASE Orderly(k)
    <3>1. request[r].step \in {"check", "call", "insert", "reply"}
      BY <1>2, <1>3, <1>4, <2>1 DEF Orderly
    <3>2. /\ request'[r].key = k /\ request'[r].step \in {"check", "call", "insert", "reply"}
          /\ request'[r].step \in {"check", "call"} => unit'[k] = 0
          /\ request'[r].step = "insert" => rows'[k] = {}
      BY <1>1, <1>2, <1>3, <1>4, <2>1, <3>1 DEF Orderly, Becomes
    <3> QED
      BY <1>2, <1>3, <1>4, <2>1, <3>2, OrderlyHandling DEF Becomes, Tidy
  <2>2. CASE k \in Backfilled /\ Spoiled(k)
    BY <1>2, <1>3, <1>4, <2>2, ResponseType DEF Spoiled, Tidy, Claims, Becomes, KeyOf, Carried, TypeOK, Created, Status
  <2> QED
    BY <2>1, <2>2 DEF Tidy
<1>6. ASSUME NEW j \in Keys \ {k} PROVE Tidy(j)'
  <2>1. \A q \in Requests : request'[q] = request[q] \/ (~Claims(q, j) /\ ~Claims(q, j)')
    BY <1>2, <1>3, <1>4 DEF Claims, Becomes, KeyOf
  <2> QED
    BY <1>2, <1>3, <1>4, <2>1, TidyElsewhere DEF Carried, TypeOK
<1> QED
  BY <1>5, <1>6

LEMMA CallUnitTidy ==
  ASSUME Carried, NEW r \in Requests, CallUnit(r), \A k \in Keys : Tidy(k)
  PROVE  \A k \in Keys : Tidy(k)'
<1>1. KeyOf(r) \in Keys /\ RequestIsSound(r) /\ KeyIsSound(KeyOf(r)) /\ request[r].response \in Response
  BY KeyInUse DEF CallUnit, At
<1>2. PICK k \in Keys : k = KeyOf(r)
  BY <1>1
<1>3. AtUnit(k) = 1
  BY <1>1, <1>2 DEF KeyIsSound, AtUnit, Repeats
<1>4. Becomes(r, [key |-> k, step |-> "insert", response |-> Created(1)])
  BY <1>2, <1>3, GotoWithBecomes, ResponseType DEF CallUnit, Carried, Steps
<1>5. /\ unit' = [unit EXCEPT ![k] = 1] /\ UNCHANGED <<redis, rows, replies>>
      /\ Claims(r, k) /\ request[r].step = "call"
  BY <1>2, <1>3 DEF CallUnit, At, Claims
<1>6. Tidy(k)'
  <2>1. CASE Orderly(k)
    <3>1. request[r].step \in {"check", "call", "insert", "reply"}
      BY <1>1, <1>2, <1>4, <1>5, <2>1 DEF Orderly
    <3>2. /\ request'[r].key = k /\ request'[r].step \in {"check", "call", "insert", "reply"}
          /\ request'[r].step \in {"check", "call"} => unit'[k] = 0
          /\ request'[r].step = "insert" => rows'[k] = {}
      BY <1>1, <1>1, <1>2, <1>4, <1>5, <2>1, <3>1 DEF Orderly, Becomes, KeyIsSound
    <3> QED
      BY <1>1, <1>2, <1>4, <1>5, <2>1, <3>2, OrderlyHandling DEF Becomes, Tidy
  <2>2. CASE k \in Backfilled /\ Spoiled(k)
    BY <1>1, <1>2, <1>4, <1>5, <2>2, ResponseType DEF Spoiled, Tidy, Claims, Becomes, KeyOf, Carried, TypeOK, Created, Status
  <2> QED
    BY <2>1, <2>2 DEF Tidy
<1>7. ASSUME NEW j \in Keys \ {k} PROVE Tidy(j)'
  <2>1. \A q \in Requests : request'[q] = request[q] \/ (~Claims(q, j) /\ ~Claims(q, j)')
    BY <1>2, <1>4, <1>5 DEF Claims, Becomes, KeyOf
  <2> QED
    BY <1>2, <1>4, <1>5, <2>1, TidyElsewhere DEF Carried, TypeOK
<1> QED
  BY <1>6, <1>7

LEMMA UnitRefusesTidy ==
  ASSUME Carried, NEW r \in Requests, UnitRefuses(r), \A k \in Keys : Tidy(k)
  PROVE  \A k \in Keys : Tidy(k)'
<1>1. KeyOf(r) \in Keys /\ RequestIsSound(r) /\ KeyIsSound(KeyOf(r)) /\ request[r].response \in Response
  BY KeyInUse DEF UnitRefuses, At
<1>2. PICK k \in Keys : k = KeyOf(r)
  BY <1>1
<1>3. Becomes(r, [key |-> k, step |-> "reply", response |-> Status(422)])
  BY <1>2, GotoWithBecomes, ResponseType DEF UnitRefuses, Carried, Steps
<1>4. UNCHANGED <<redis, unit, rows, replies>> /\ Claims(r, k) /\ request[r].step = "call"
  BY <1>2 DEF UnitRefuses, At, Claims
<1>5. Tidy(k)'
  <2>1. CASE Orderly(k)
    <3>1. request[r].step \in {"check", "call", "insert", "reply"}
      BY <1>2, <1>3, <1>4, <2>1 DEF Orderly
    <3>2. /\ request'[r].key = k /\ request'[r].step \in {"check", "call", "insert", "reply"}
          /\ request'[r].step \in {"check", "call"} => unit'[k] = 0
          /\ request'[r].step = "insert" => rows'[k] = {}
      BY <1>1, <1>2, <1>3, <1>4, <2>1, <3>1 DEF Orderly, Becomes
    <3> QED
      BY <1>2, <1>3, <1>4, <2>1, <3>2, OrderlyHandling DEF Becomes, Tidy
  <2>2. CASE k \in Backfilled /\ Spoiled(k)
    BY <1>2, <1>3, <1>4, <2>2, ResponseType DEF Spoiled, Tidy, Claims, Becomes, KeyOf, Carried, TypeOK, Created, Status
  <2> QED
    BY <2>1, <2>2 DEF Tidy
<1>6. ASSUME NEW j \in Keys \ {k} PROVE Tidy(j)'
  <2>1. \A q \in Requests : request'[q] = request[q] \/ (~Claims(q, j) /\ ~Claims(q, j)')
    BY <1>2, <1>3, <1>4 DEF Claims, Becomes, KeyOf
  <2> QED
    BY <1>2, <1>3, <1>4, <2>1, TidyElsewhere DEF Carried, TypeOK
<1> QED
  BY <1>5, <1>6

LEMMA GatewayFailsTidy ==
  ASSUME Carried, NEW r \in Requests, GatewayFails(r), \A k \in Keys : Tidy(k)
  PROVE  \A k \in Keys : Tidy(k)'
<1>1. KeyOf(r) \in Keys /\ RequestIsSound(r) /\ KeyIsSound(KeyOf(r)) /\ request[r].response \in Response
  BY KeyInUse DEF GatewayFails, At
<1>2. PICK k \in Keys : k = KeyOf(r)
  BY <1>1
<1>3. AtUnit(k) = 1
  BY <1>1, <1>2 DEF KeyIsSound, AtUnit, Repeats
<1>4. Becomes(r, [key |-> k, step |-> "reply", response |-> Status(422)])
  BY <1>2, GotoWithBecomes, ResponseType DEF GatewayFails, Carried, Steps
<1>5. /\ unit' = unit \/ unit' = [unit EXCEPT ![k] = 1]
      /\ UNCHANGED <<redis, rows, replies>> /\ Claims(r, k) /\ request[r].step = "call"
  BY <1>2, <1>3 DEF GatewayFails, At, Claims
<1>6. Tidy(k)'
  <2>1. CASE Orderly(k)
    <3>1. request[r].step \in {"check", "call", "insert", "reply"}
      BY <1>2, <1>4, <1>5, <2>1 DEF Orderly
    <3>2. /\ request'[r].key = k /\ request'[r].step \in {"check", "call", "insert", "reply"}
          /\ request'[r].step \in {"check", "call"} => unit'[k] = 0
          /\ request'[r].step = "insert" => rows'[k] = {}
      BY <1>1, <1>2, <1>4, <1>5, <2>1, <3>1 DEF Orderly, Becomes
    <3> QED
      BY <1>2, <1>4, <1>5, <2>1, <3>2, OrderlyHandling DEF Becomes, Tidy
  <2>2. CASE k \in Backfilled /\ Spoiled(k)
    BY <1>2, <1>4, <1>5, <2>2, ResponseType DEF Spoiled, Tidy, Claims, Becomes, KeyOf, Carried, TypeOK, Created, Status
  <2> QED
    BY <2>1, <2>2 DEF Tidy
<1>7. ASSUME NEW j \in Keys \ {k} PROVE Tidy(j)'
  <2>1. \A q \in Requests : request'[q] = request[q] \/ (~Claims(q, j) /\ ~Claims(q, j)')
    BY <1>2, <1>4, <1>5 DEF Claims, Becomes, KeyOf
  <2> QED
    BY <1>2, <1>4, <1>5, <2>1, TidyElsewhere DEF Carried, TypeOK
<1> QED
  BY <1>6, <1>7

LEMMA InsertTidy ==
  ASSUME Carried, NEW r \in Requests, Insert(r), \A k \in Keys : Tidy(k)
  PROVE  \A k \in Keys : Tidy(k)'
<1>1. KeyOf(r) \in Keys /\ RequestIsSound(r) /\ KeyIsSound(KeyOf(r)) /\ request[r].response \in Response
  BY KeyInUse DEF Insert, At
<1>2. PICK k \in Keys : k = KeyOf(r)
  BY <1>1
<1>3. request[r].response = Created(1) /\ Created(1).resource = 1
  BY <1>1, ResponseType DEF RequestIsSound, Insert, At
<1>4. IF 1 \in rows[k]
      THEN /\ Becomes(r, [key |-> k, step |-> "error", response |-> Created(1)])
           /\ rows' = rows
      ELSE /\ Becomes(r, [key |-> k, step |-> "reply", response |-> Created(1)])
           /\ rows' = [rows EXCEPT ![k] = @ \cup {1}]
  BY <1>2, <1>3, GotoBecomes DEF Insert, Conflicts, Carried, Steps
<1>5. UNCHANGED <<redis, unit, replies>> /\ Claims(r, k) /\ request[r].step = "insert"
  BY <1>2 DEF Insert, At, Claims
<1>6. Tidy(k)'
  <2>1. CASE Orderly(k)
    <3>1. request[r].step \in {"check", "call", "insert", "reply"}
      BY <1>2, <1>4, <1>5, <2>1 DEF Orderly
    <3>2. /\ request'[r].key = k /\ request'[r].step \in {"check", "call", "insert", "reply"}
          /\ request'[r].step \in {"check", "call"} => unit'[k] = 0
          /\ request'[r].step = "insert" => rows'[k] = {}
      BY <1>1, <1>2, <1>4, <1>5, <2>1, <3>1 DEF Orderly, Becomes
    <3> QED
      BY <1>2, <1>4, <1>5, <2>1, <3>2, OrderlyHandling DEF Becomes, Tidy
  <2>2. CASE k \in Backfilled /\ Spoiled(k)
    BY <1>2, <1>4, <1>5, <2>2, ResponseType DEF Spoiled, Tidy, Claims, Becomes, KeyOf, Carried, TypeOK, Created, Status
  <2> QED
    BY <2>1, <2>2 DEF Tidy
<1>7. ASSUME NEW j \in Keys \ {k} PROVE Tidy(j)'
  <2>1. \A q \in Requests : request'[q] = request[q] \/ (~Claims(q, j) /\ ~Claims(q, j)')
    BY <1>2, <1>4, <1>5 DEF Claims, Becomes, KeyOf
  <2> QED
    BY <1>2, <1>4, <1>5, <2>1, TidyElsewhere DEF Carried, TypeOK
<1> QED
  BY <1>6, <1>7

LEMMA ReplyTidy ==
  ASSUME Carried, NEW r \in Requests, Reply(r), \A k \in Keys : Tidy(k)
  PROVE  \A k \in Keys : Tidy(k)'
<1>1. KeyOf(r) \in Keys /\ RequestIsSound(r) /\ KeyIsSound(KeyOf(r)) /\ request[r].response \in Response
  BY KeyInUse DEF Reply, At
<1>2. PICK k \in Keys : k = KeyOf(r)
  BY <1>1
<1>3. PICK v \in Final(k) : v = request[r].response
  BY <1>1, <1>2 DEF RequestIsSound, Reply, At
<1>4. v \in Response /\ v.status \notin {409, 500} /\ Kept(v) = v /\ v \notin {Free, Processing}
  BY <1>1, <1>2, <1>3, FinalResponses DEF Carried
<1>5. /\ Becomes(r, Idle) /\ replies'[k] = replies[k] \cup {v}
      /\ \A j \in Keys \ {k} : replies'[j] = replies[j]
  BY <1>1, <1>2, <1>3, <1>4, EndBecomes DEF Reply, Carried
<1>6. /\ redis' = [redis EXCEPT ![k] = v] /\ UNCHANGED <<unit, rows>>
      /\ Claims(r, k) /\ request[r].step = "reply"
  BY <1>2, <1>3, <1>4 DEF Reply, At, Claims
<1>7. Tidy(k)'
  <2>1. CASE Orderly(k)
    <3>1. \A q \in Requests : q # r => ~Claims(q, k) /\ request'[q] = request[q]
      BY <1>5, <1>6, <2>1 DEF Orderly, Becomes
    <3>2. \A q \in Requests : ~Claims(q, k)'
      BY <1>2, <1>5, <3>1 DEF Claims, Becomes, KeyOf, Idle
    <3>3. replies[k] = {} /\ redis'[k] = v /\ replies'[k] = {v}
      BY <1>5, <1>6, <2>1 DEF Orderly, Carried, TypeOK
    <3>4. Free' = Free /\ Processing' = Processing
      BY DEF Free, Processing
    <3> QED
      BY <1>4, <3>2, <3>3, <3>4 DEF Orderly, Tidy
  <2>2. CASE k \in Backfilled /\ Spoiled(k)
    <3>1. v # Created(1)
      BY <1>2, <1>3, <1>6, <2>2 DEF Spoiled
    <3>2. redis'[k] # Created(1) /\ Created(1) \notin replies'[k] /\ rows'[k] = {1}
      BY <1>5, <1>6, <2>2, <3>1 DEF Spoiled, Carried, TypeOK
    <3>3. \A q \in Requests : KeyOf(q)' = k /\ request'[q].step = "reply" =>
            request'[q].response # Created(1)
      BY <1>5, <2>2 DEF Spoiled, Becomes, KeyOf, Idle
    <3> QED
      BY <2>2, <3>2, <3>3 DEF Spoiled, Tidy, Created
  <2> QED
    BY <2>1, <2>2 DEF Tidy
<1>8. ASSUME NEW j \in Keys \ {k} PROVE Tidy(j)'
  <2>1. \A q \in Requests : request'[q] = request[q] \/ (~Claims(q, j) /\ ~Claims(q, j)')
    BY <1>2, <1>5, <1>6 DEF Claims, Becomes, KeyOf, Idle
  <2> QED
    BY <1>2, <1>5, <1>6, <2>1, TidyElsewhere DEF Carried, TypeOK
<1> QED
  BY <1>7, <1>8

LEMMA OnErrorTidy ==
  ASSUME Carried, NEW r \in Requests, OnError(r), \A k \in Keys : Tidy(k)
  PROVE  \A k \in Keys : Tidy(k)'
<1>1. KeyOf(r) \in Keys /\ RequestIsSound(r) /\ KeyIsSound(KeyOf(r)) /\ request[r].response \in Response
  BY KeyInUse DEF OnError, At
<1>2. PICK k \in Keys : k = KeyOf(r)
  BY <1>1
<1>3. Becomes(r, [key |-> k, step |-> "errorReply", response |-> Status(500)])
  BY <1>2, GotoWithBecomes, ResponseType DEF OnError, Carried, Steps
<1>4. /\ redis' = [redis EXCEPT ![k] = Free] /\ UNCHANGED <<unit, rows, replies>>
      /\ Claims(r, k) /\ request[r].step = "error"
  BY <1>2 DEF OnError, At, Claims
<1>5. Tidy(k)'
  <2>1. CASE Orderly(k)
    BY <1>4, <2>1 DEF Orderly
  <2>2. CASE k \in Backfilled /\ Spoiled(k)
    BY <1>2, <1>3, <1>4, <2>2, ResponseType DEF Spoiled, Tidy, Claims, Becomes, KeyOf, Carried, TypeOK, Created, Status, Free
  <2> QED
    BY <2>1, <2>2 DEF Tidy
<1>6. ASSUME NEW j \in Keys \ {k} PROVE Tidy(j)'
  <2>1. \A q \in Requests : request'[q] = request[q] \/ (~Claims(q, j) /\ ~Claims(q, j)')
    BY <1>2, <1>3, <1>4 DEF Claims, Becomes, KeyOf
  <2> QED
    BY <1>2, <1>3, <1>4, <2>1, TidyElsewhere DEF Carried, TypeOK
<1> QED
  BY <1>5, <1>6

LEMMA ErrorReplyTidy ==
  ASSUME Carried, NEW r \in Requests, ErrorReply(r), \A k \in Keys : Tidy(k)
  PROVE  \A k \in Keys : Tidy(k)'
<1>1. KeyOf(r) \in Keys /\ RequestIsSound(r) /\ KeyIsSound(KeyOf(r)) /\ request[r].response \in Response
  BY KeyInUse DEF ErrorReply, At
<1>2. PICK k \in Keys : k = KeyOf(r)
  BY <1>1
<1>3. Kept(Status(500)) = Free
  BY ResponseType DEF Kept
<1>4. Becomes(r, Idle) /\ \A j \in Keys : replies'[j] = replies[j]
  BY <1>1, <1>2, ResponseType, EndBecomes DEF ErrorReply, Carried
<1>5. /\ redis' = [redis EXCEPT ![k] = Free] /\ UNCHANGED <<unit, rows>>
      /\ Claims(r, k) /\ request[r].step = "errorReply"
  BY <1>2, <1>3 DEF ErrorReply, At, Claims
<1>6. Tidy(k)'
  <2>1. CASE Orderly(k)
    BY <1>5, <2>1 DEF Orderly
  <2>2. CASE k \in Backfilled /\ Spoiled(k)
    BY <1>2, <1>4, <1>5, <2>2, ResponseType DEF Spoiled, Tidy, Claims, Becomes, KeyOf, Carried, TypeOK, Created, Status, Free, Idle
  <2> QED
    BY <2>1, <2>2 DEF Tidy
<1>7. ASSUME NEW j \in Keys \ {k} PROVE Tidy(j)'
  <2>1. \A q \in Requests : request'[q] = request[q] \/ (~Claims(q, j) /\ ~Claims(q, j)')
    BY <1>2, <1>4, <1>5 DEF Claims, Becomes, KeyOf, Idle
  <2> QED
    BY <1>2, <1>4, <1>5, <2>1, TidyElsewhere DEF Carried, TypeOK
<1> QED
  BY <1>6, <1>7

LEMMA SendTidy ==
  ASSUME Carried, NEW r \in Requests, NEW i \in Keys, Send(r, i), \A k \in Keys : Tidy(k)
  PROVE  \A k \in Keys : Tidy(k)'
<1>1. UNCHANGED <<redis, unit, rows, replies>>
  BY DEF Send
<1>2. \A q \in Requests, k \in Keys : request'[q] = request[q] \/ (~Claims(q, k) /\ ~Claims(q, k)')
  BY DEF Send, Carried, TypeOK, At, Claims
<1> QED
  BY <1>1, <1>2, TidyElsewhere

LEMMA BackfillTidy ==
  ASSUME Carried, NEW i \in Keys, Backfill(i), \A k \in Keys : Tidy(k)
  PROVE  \A k \in Keys : Tidy(k)'
<1>1. KeyIsSound(i)
  BY DEF Carried, Carries
<1>2. /\ UNCHANGED <<redis, unit, request, replies>> /\ i \in Backfilled
      /\ rows[i] = {} /\ rows' = [rows EXCEPT ![i] = {1}]
  BY <1>1 DEF Backfill, KeyIsSound
<1>3. Created(1) \notin Final(i) /\ Created(1) \notin {Free, Processing}
  BY <1>2 DEF Final, Created, Status, Free, Processing
<1>4. Spoiled(i)'
  BY <1>1, <1>2, <1>3 DEF Spoiled, KeyIsSound, Carried, Carries, RequestIsSound, TypeOK, KeyOf, Created
<1>5. \A q \in Requests : request'[q] = request[q]
  BY <1>2
<1>6. ASSUME NEW k \in Keys \ {i} PROVE Tidy(k)'
  BY <1>2, <1>5, TidyElsewhere DEF Carried, TypeOK
<1> QED
  BY <1>2, <1>4, <1>6 DEF Tidy

LEMMA ExpireOrphanTidy ==
  ASSUME Carried, NEW i \in Keys, ExpireOrphan(i), \A k \in Keys : Tidy(k)
  PROVE  \A k \in Keys : Tidy(k)'
<1>1. /\ UNCHANGED <<unit, rows, request, replies>>
      /\ redis[i] = Processing /\ redis' = [redis EXCEPT ![i] = Free]
  BY DEF ExpireOrphan, Expires
<1>2. \A r \in Requests : ~Claims(r, i)
  BY DEF ExpireOrphan, Claimants, Claims
<1>3. i \in Backfilled /\ Spoiled(i)
  BY <1>1, <1>2 DEF Tidy, Orderly
<1>4. Spoiled(i)'
  BY <1>1, <1>3 DEF Spoiled, Carried, TypeOK, KeyOf, Created, Status, Free
<1>5. \A q \in Requests : request'[q] = request[q]
  BY <1>1
<1>6. ASSUME NEW k \in Keys \ {i} PROVE Tidy(k)'
  BY <1>1, <1>5, TidyElsewhere DEF Carried, TypeOK
<1> QED
  BY <1>3, <1>4, <1>6 DEF Tidy

-----------------------------------------------------------------------------
LEMMA InitIInv == Init => IInv
<1> SUFFICES ASSUME Init PROVE IInv
  OBVIOUS
<1>1. Carried
  BY InitCarried
<1>2. \A k \in Keys : Orderly(k)
  BY ResponseType DEF Init, Orderly, Claims, Idle
<1> QED
  BY <1>1, <1>2 DEF Carried, IInv, Tidy

LEMMA NextIInv == IInv /\ [Next]_vars => IInv'
<1> SUFFICES ASSUME IInv, [Next]_vars PROVE IInv'
  OBVIOUS
<1>1. Carried /\ Carried'
  BY NextCarried DEF IInv, Carried
<1>2. SUFFICES ASSUME Undisturbed' PROVE \A k \in Keys : Tidy(k)'
  BY <1>1 DEF IInv, Carried
<1>3. /\ mishaps \subseteq mishaps' /\ "lost" \notin mishaps'
      /\ "slow" \notin mishaps' /\ "crash" \notin mishaps'
  <2>1. mishaps \subseteq mishaps'
    BY DEF Next, vars, Rest, Send, Serve, Claim, Peek, Check, CallUnit, UnitRefuses, Insert, Reply,
       OnError, ErrorReply, GatewayFails, LoseAnswer, Crash, Backfill, ExpireOrphan, ExpireHeld, Mishap
  <2> QED
    BY <1>2, <2>1 DEF Undisturbed
<1>4. \A k \in Keys : Tidy(k)
  BY <1>2, <1>3 DEF IInv, Undisturbed
<1>5. CASE UNCHANGED vars
  BY <1>4, <1>5, TidyElsewhere DEF vars
<1>6. CASE \E r \in Requests, k \in Keys : Send(r, k)
  BY <1>1, <1>4, <1>6, SendTidy
<1>7. CASE \E r \in Requests : Serve(r)
  BY <1>1, <1>4, <1>7, ClaimTidy, PeekTidy, CheckTidy, CallUnitTidy, UnitRefusesTidy,
     InsertTidy, ReplyTidy, OnErrorTidy, ErrorReplyTidy DEF Serve
<1>8. CASE \E r \in Requests : GatewayFails(r)
  BY <1>1, <1>4, <1>8, GatewayFailsTidy
<1>9. CASE \E k \in Keys : Backfill(k) \/ ExpireOrphan(k)
  BY <1>1, <1>4, <1>9, BackfillTidy, ExpireOrphanTidy
<1>10. ~ \E r \in Requests : LoseAnswer(r) \/ Crash(r)
  BY <1>3 DEF LoseAnswer, Crash, Mishap
<1>11. ~ \E k \in Keys : ExpireHeld(k)
  BY <1>3 DEF ExpireHeld, Mishap
<1> QED
  BY <1>5, <1>6, <1>7, <1>8, <1>9, <1>10, <1>11 DEF Next, Rest

\* The strengthened invariant holds in every state of every execution.
THEOREM Invariance == Spec => []IInv
<1> QED
  BY InitIInv, NextIInv, PTL DEF Spec

\* Every variable keeps its type, however requests, keys and mishaps mix.
THEOREM TypeCorrect == Spec => []TypeOK
<1>1. IInv => TypeOK
  BY DEF IInv
<1> QED
  BY <1>1, Invariance, PTL

\* However often a key is sent, by however many processes at once, and whatever
\* expires, dies or goes unanswered, Unit makes one resource for it, and a 201
\* shows a resource that has its row.
THEOREM OneResource == Spec => []OneResourcePerKey
<1>1. IInv => OneResourcePerKey
  <2> SUFFICES ASSUME IInv, NEW k \in Keys
               PROVE  /\ unit[k] <= 1
                      /\ \A response \in replies[k] :
                           response.status = 201 => response.resource \in rows[k]
    BY DEF OneResourcePerKey
  <2>1. TypeOK /\ KeyIsSound(k)
    BY DEF IInv, Carries
  <2> QED
    BY <2>1, FinalResponses DEF KeyIsSound
<1> QED
  BY <1>1, Invariance, PTL

\* Requests of one key do not execute at the same time, unless a claim expired
\* under its request, a request died with its claim, or one got no answer.
THEOREM OneAtATime == Spec => []OneExecutor
<1>1. IInv => OneExecutor
  BY DEF IInv, Tidy, Orderly, OneExecutor, Executing, Claimants, Claims
<1> QED
  BY <1>1, Invariance, PTL

\* Nor do clients of one key get two different final responses, though a webhook
\* may insert the row first and requests then fail one after the other.
THEOREM OneFinalAnswer == Spec => []OneAnswer
<1>1. IInv => OneAnswer
  <2> SUFFICES ASSUME IInv, Undisturbed, NEW k \in Keys, NEW x \in replies[k], NEW y \in replies[k]
               PROVE  x = y
    BY DEF OneAnswer
  <2>1. CASE Orderly(k)
    BY <2>1 DEF Orderly
  <2>2. CASE Spoiled(k)
    <3>1. KeyIsSound(k) /\ rows[k] = {1}
      BY <2>2 DEF IInv, Carries, Spoiled
    <3>2. k \notin Ineligible
      BY <3>1 DEF KeyIsSound
    <3> QED
      BY <2>2, <3>1, <3>2 DEF KeyIsSound, Final, Spoiled
  <2> QED
    BY <2>1, <2>2 DEF IInv, Tidy
<1> QED
  BY <1>1, Invariance, PTL
=============================================================================
