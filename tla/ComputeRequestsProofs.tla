----------------------- MODULE ComputeRequestsProofs -----------------------
(***************************************************************************)
(* What the exchange of requests and results keeps, for any number of      *)
(* requests and whatever is asked: lemmas for the proofs about Figures and *)
(* Statements.                                                             *)
(***************************************************************************)
EXTENDS ComputeRequests, TLAPS

USE DEF tableVars, laneVars, requestVars

\* A committed lane holds no record it did not hold.
LEMMA CommittedShrinks ==
  ASSUME NEW lane, NEW record, NEW left \in Committed(lane, record)
  PROVE  left \subseteq lane
BY DEF Committed

\* Only an id that was claimed is queued, under way, answered or handled, and
\* it names what was asked.
Claimed(Asks) ==
  \A r \in Requests :
    /\ state[r] # "none" => ask[r] \in Asks
    /\ \/ row[r] # "none" \/ r \in requested \cup handling
       \/ \E a \in Answers : <<r, a>> \in results
       => state[r] # "none"

\* A result that is being stored has not been recorded.
Unrecorded == handling \cap seen = {}

RequestsInv(Asks) == RequestsTypeOK(Asks) /\ Claimed(Asks) /\ Unrecorded

\* No request exists at the start.
LEMMA RequestsStart ==
  ASSUME NEW CONSTANT Asks, RequestsInit
  PROVE  RequestsInv(Asks)
BY RequestsAssumption DEF RequestsInit, RequestsInv, RequestsTypeOK, Claimed, Unrecorded, Ends, Answers

\* Claiming an id, or finding the question pending, keeps the invariant.
LEMMA RequestKeeps ==
  ASSUME NEW CONSTANT Asks, RequestsInv(Asks), NEW scope, NEW v, NEW inputs,
         [scope |-> scope, version |-> v, inputs |-> inputs] \in Asks,
         Request(scope, v, inputs)
  PROVE  /\ RequestsInv(Asks)'
         /\ handling' = handling
         /\ \A r \in Requests : r \notin seen' /\ r \in seen =>
              state'[r] = "pending" /\ state[r] # "pending"
<1>1. CASE UNCHANGED requestVars
  BY <1>1 DEF RequestsInv, RequestsTypeOK, Claimed, Unrecorded
<1>2. CASE \E r \in Requests : Claim(r, scope, v, inputs)
  <2>1. PICK r \in Requests : Claim(r, scope, v, inputs)
    BY <1>2
  <2>2. RequestsTypeOK(Asks)'
    BY <2>1 DEF RequestsInv, RequestsTypeOK, Claim
  <2>3. Claimed(Asks)'
    BY <2>1 DEF RequestsInv, RequestsTypeOK, Claimed, Claim
  <2>4. Unrecorded'
    BY <2>1 DEF RequestsInv, Unrecorded, Claim
  <2>5. state[r] # "pending" /\ state'[r] = "pending" /\ seen' = seen \ {r}
    BY <2>1 DEF RequestsInv, RequestsTypeOK, Claim, Unused, Ends
  <2> QED
    BY <2>1, <2>2, <2>3, <2>4, <2>5 DEF RequestsInv, Claim
<1> QED
  BY <1>1, <1>2 DEF Request

\* What every step that records a result does to the table.
LEMMA EndKeeps ==
  ASSUME NEW CONSTANT Asks, RequestsInv(Asks), NEW ids \in SUBSET Requests, NEW how \in Ends,
         End(ids, how)
  PROVE  /\ state' \in [Requests -> {"none", "pending"} \cup Ends]
         /\ waited' \in [Requests -> 0..(ExpireAfter + 1)]
         /\ resent' \subseteq Requests
         /\ \A r \in Requests : state'[r] = "none" => state[r] = "none" /\ r \notin ids
         /\ \A r \in Requests : state'[r] # "none" => state[r] # "none" \/ r \in ids
<1>1. 0 \in 0..(ExpireAfter + 1)
  BY RequestsAssumption
<1> QED
  BY <1>1 DEF RequestsInv, RequestsTypeOK, End, Ends

\* The steps that touch nothing but the exchange.
LEMMA ExchangeKeeps ==
  ASSUME NEW CONSTANT Asks, RequestsInv(Asks), Exchange
  PROVE  RequestsInv(Asks)' /\ seen' = seen
<1> USE DEF RequestsInv
<1>1. ASSUME NEW r \in Requests, Publish(r) PROVE RequestsInv(Asks)' /\ seen' = seen
  BY <1>1 DEF Publish, RequestsTypeOK, Claimed, Unrecorded
<1>2. ASSUME NEW r \in Requests, AnswerLost(r) PROVE RequestsInv(Asks)' /\ seen' = seen
  BY <1>2 DEF AnswerLost, RequestsTypeOK, Claimed, Unrecorded
<1>3. ASSUME NEW r \in Requests, NEW a \in Answers, Answer(r, a)
      PROVE  RequestsInv(Asks)' /\ seen' = seen
  <2>1. requested' \subseteq requested
    BY <1>3, CommittedShrinks DEF Answer
  <2> QED
    BY <1>3, <2>1 DEF Answer, RequestsTypeOK, Claimed, Unrecorded
<1>4. CASE KafkaLosesData
  BY <1>4, RequestsAssumption DEF KafkaLosesData, RequestsTypeOK, Claimed, Unrecorded
<1>5. CASE Expire
  <2> DEFINE late == {r \in Requests : Overdue(r)}
  <2>1. End(late, "expired") /\ UNCHANGED <<ask, seen, row, laneVars, handling>>
    BY <1>5 DEF Expire
  <2>2. \A r \in late : state[r] # "none"
    BY DEF Overdue
  <2>3. late \in SUBSET Requests /\ "expired" \in Ends
    BY DEF Ends
  <2> HIDE DEF late
  <2>4. /\ state' \in [Requests -> {"none", "pending"} \cup Ends]
        /\ waited' \in [Requests -> 0..(ExpireAfter + 1)]
        /\ resent' \subseteq Requests
        /\ \A r \in Requests : state'[r] = "none" <=> state[r] = "none"
    BY <2>1, <2>2, <2>3, EndKeeps
  <2> QED
    BY <2>1, <2>4 DEF RequestsTypeOK, Claimed, Unrecorded
<1>6. CASE ResendCompute
  BY <1>6 DEF ResendCompute, Resendable, RequestsTypeOK, Claimed, Unrecorded
<1>7. CASE Wait
  <2>1. waited' \in [Requests -> 0..(ExpireAfter + 1)]
    BY <1>7, RequestsAssumption DEF Wait, RequestsTypeOK
  <2> QED
    BY <1>7, <2>1 DEF Wait, RequestsTypeOK, Claimed, Unrecorded
<1> QED
  BY <1>1, <1>2, <1>3, <1>4, <1>5, <1>6, <1>7 DEF Exchange

\* A recorded result ends its request.
LEMMA RecordedKeeps ==
  ASSUME NEW CONSTANT Asks, RequestsInv(Asks), NEW r \in Requests, NEW a \in Answers,
         Recorded(r, a), state[r] # "none", r \notin handling'
  PROVE  /\ UNCHANGED <<ask, row, requested, losses>> /\ results' \subseteq results
              /\ handling' \subseteq handling
            => RequestsInv(Asks)'
         /\ seen' = seen \cup {r}
<1>1. End({r}, a) /\ seen' = seen \cup {r}
  BY DEF Recorded
<1>2. {r} \in SUBSET Requests /\ a \in Ends
  BY DEF Answers, Ends
<1>3. /\ state' \in [Requests -> {"none", "pending"} \cup Ends]
      /\ waited' \in [Requests -> 0..(ExpireAfter + 1)]
      /\ resent' \subseteq Requests
      /\ \A x \in Requests : state'[x] = "none" <=> state[x] = "none"
  BY <1>1, <1>2, EndKeeps
<1> QED
  BY <1>1, <1>3 DEF RequestsInv, RequestsTypeOK, Claimed, Unrecorded

\* Results that store nothing.
LEMMA ConsumingKeeps ==
  ASSUME NEW CONSTANT Asks, RequestsInv(Asks), Consuming
  PROVE  RequestsInv(Asks)' /\ seen \subseteq seen'
<1>1. ASSUME NEW r \in Requests, HandlerStops(r)
      PROVE  RequestsInv(Asks)' /\ seen \subseteq seen'
  BY <1>1 DEF HandlerStops, RequestsInv, RequestsTypeOK, Claimed, Unrecorded
<1>2. ASSUME NEW r \in Requests, NEW a \in Answers, OnUselessResult(r, a)
      PROVE  RequestsInv(Asks)' /\ seen \subseteq seen'
  <2>1. results' \subseteq results /\ UNCHANGED <<ask, row, requested, losses, handling>>
    BY <1>2, CommittedShrinks DEF OnUselessResult
  <2>2. CASE First(r)
    <3>1. Recorded(r, a) /\ state[r] # "none" /\ r \notin handling'
      BY <1>2, <2>2 DEF OnUselessResult, RequestsInv, Claimed
    <3> QED
      BY <2>1, <3>1, RecordedKeeps
  <2>3. CASE ~ First(r)
    BY <1>2, <2>1, <2>3 DEF OnUselessResult, RequestsInv, RequestsTypeOK, Claimed, Unrecorded
  <2> QED
    BY <2>2, <2>3
<1>3. ASSUME NEW r \in Requests, NEW a \in Answers, OnComputeResultsFailed(r, a)
      PROVE  RequestsInv(Asks)' /\ seen \subseteq seen'
  <2>1. results' \subseteq results /\ UNCHANGED <<ask, seen, row, requested, losses, handling>>
    BY <1>3 DEF OnComputeResultsFailed
  <2>2. CASE state[r] = "pending" /\ End({r}, "failed")
    <3>1. {r} \in SUBSET Requests /\ "failed" \in Ends
      BY DEF Ends
    <3>2. /\ state' \in [Requests -> {"none", "pending"} \cup Ends]
          /\ waited' \in [Requests -> 0..(ExpireAfter + 1)]
          /\ resent' \subseteq Requests
          /\ \A x \in Requests : state'[x] = "none" <=> state[x] = "none"
      BY <2>2, <3>1, EndKeeps
    <3> QED
      BY <2>1, <3>2 DEF RequestsInv, RequestsTypeOK, Claimed, Unrecorded
  <2>3. CASE UNCHANGED <<state, resent, waited>>
    BY <2>1, <2>3 DEF RequestsInv, RequestsTypeOK, Claimed, Unrecorded
  <2> QED
    BY <1>3, <2>2, <2>3 DEF OnComputeResultsFailed
<1> QED
  BY <1>1, <1>2, <1>3 DEF Consuming

\* The first result, in one step ...
LEMMA TakeKeeps ==
  ASSUME NEW CONSTANT Asks, RequestsInv(Asks), NEW r \in Requests, TakeResult(r)
  PROVE  RequestsInv(Asks)' /\ seen \subseteq seen' /\ ask[r] \in Asks
<1>1. Recorded(r, "ok") /\ "ok" \in Answers /\ UNCHANGED <<ask, row, requested, losses, handling>>
  BY DEF TakeResult, Answers
<1>2. state[r] # "none" /\ r \notin handling' /\ ask[r] \in Asks
  BY <1>1 DEF TakeResult, RequestsInv, Claimed
<1>3. results' \subseteq results
  BY CommittedShrinks DEF TakeResult
<1> QED
  BY <1>1, <1>2, <1>3, RecordedKeeps

\* ... or in two.
LEMMA BeginKeeps ==
  ASSUME NEW CONSTANT Asks, RequestsInv(Asks), NEW r \in Requests, BeginResult(r)
  PROVE  RequestsInv(Asks)' /\ seen' = seen
BY DEF BeginResult, First, RequestsInv, RequestsTypeOK, Claimed, Unrecorded, Answers

LEMMA EndResultKeeps ==
  ASSUME NEW CONSTANT Asks, RequestsInv(Asks), NEW r \in Requests, EndResult(r)
  PROVE  /\ RequestsInv(Asks)' /\ seen' = seen \cup {r}
         /\ r \notin seen /\ ask[r] \in Asks /\ ask' = ask
<1>1. /\ Recorded(r, "ok") /\ "ok" \in Answers /\ UNCHANGED <<ask, row, requested, losses>>
      /\ r \in handling /\ handling' = handling \ {r}
  BY DEF EndResult, Answers
<1>2. state[r] # "none" /\ ask[r] \in Asks /\ r \notin seen
  BY <1>1 DEF RequestsInv, Claimed, Unrecorded
<1>3. results' \subseteq results
  BY CommittedShrinks DEF EndResult
<1> QED
  BY <1>1, <1>2, <1>3, RecordedKeeps

\* What an id asks changes only when it is claimed.
LEMMA RequestClaims ==
  ASSUME NEW scope, NEW v, NEW inputs, Request(scope, v, inputs),
         NEW CONSTANT Asks, RequestsTypeOK(Asks), NEW r \in Requests, state'[r] # "none"
  PROVE  \/ state[r] # "none" /\ ask'[r] = ask[r]
         \/ ask'[r] = [scope |-> scope, version |-> v, inputs |-> inputs]
BY DEF Request, Claim, RequestsTypeOK

LEMMA OnlyRequestsClaim ==
  ASSUME NEW CONSTANT Asks, RequestsInv(Asks),
         Exchange \/ Consuming \/ \E r \in Requests : TakeResult(r)
  PROVE  ask' = ask /\ \A x \in Requests : state'[x] # "none" => state[x] # "none"
<1>1. ask' = ask
  BY DEF Exchange, Publish, AnswerLost, Answer, KafkaLosesData, Expire, ResendCompute, Wait,
         Consuming, HandlerStops, OnUselessResult, OnComputeResultsFailed, TakeResult
<1>2. ASSUME NEW r \in Requests, NEW a \in Answers,
             <<r, a>> \in results, Recorded(r, a) \/ End({r}, "failed"), NEW x \in Requests
      PROVE  state'[x] # "none" => state[x] # "none"
  BY <1>2 DEF Recorded, End, RequestsInv, Claimed
<1>3. CASE Expire
  BY <1>3 DEF Expire, End, Overdue
<1>4. CASE \E r \in Requests : TakeResult(r)
  <2>1. "ok" \in Answers
    BY DEF Answers
  <2> QED
    BY <1>1, <1>2, <1>4, <2>1 DEF TakeResult
<1>5. CASE Consuming
  BY <1>1, <1>2, <1>5 DEF Consuming, HandlerStops, OnUselessResult, OnComputeResultsFailed
<1>6. CASE Exchange
  BY <1>1, <1>3, <1>6
     DEF Exchange, Publish, AnswerLost, Answer, KafkaLosesData, ResendCompute, Wait
<1> QED
  BY <1>1, <1>4, <1>5, <1>6
=============================================================================
