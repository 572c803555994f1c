--------------------------- MODULE ComputeRequests -------------------------
(***************************************************************************)
(* The request/result exchange between api/common and the compute pool of  *)
(* api/analytics: the compute_request table, the outbox rows and lanes of  *)
(* compute.requested and compute.results, and the reaper's part in it.     *)
(*                                                                         *)
(* A request names what is asked (its scope), the data_version of the      *)
(* organization it was asked at, and the inputs analytics computes from.   *)
(* What a result does to the rows of its scope is left to the modules that *)
(* extend this one (Figures, Statements).                                  *)
(***************************************************************************)
EXTENDS Naturals, Delivery

CONSTANTS
  Requests,     \* request ids
  NoAsk,
  ResendAfter,  \* pending for longer: send again, once (4 minutes)
  ExpireAfter,  \* pending for longer: give up (10 minutes)
  MaxLosses     \* bound on the times Kafka loses its data

ASSUME RequestsAssumption ==
  /\ {ResendAfter, ExpireAfter, MaxLosses} \subseteq Nat
  /\ ResendAfter < ExpireAfter

VARIABLES
  \* compute_request
  state,      \* none, pending, or the status it ended with
  ask,        \* what was asked
  seen,       \* ids whose result was recorded (result_at)
  resent,     \* ids sent a second time (resent_at)
  waited,     \* age of a pending request
  row,        \* the outbox row its outbox_id points at: none, queued, published
  \* the lanes
  requested, results,
  handling,   \* ids whose result a consumer holds in an open transaction
  losses

tableVars   == <<state, ask, seen, resent, waited, row>>
laneVars    == <<requested, results, losses>>
requestVars == <<tableVars, laneVars, handling>>

Ends == {"ok", "failed", "expired"}
Answers == {"ok", "failed"}

RequestsTypeOK(Asks) ==
  /\ state \in [Requests -> {"none", "pending"} \cup Ends]
  /\ ask \in [Requests -> Asks \cup {NoAsk}]
  /\ seen \subseteq Requests
  /\ resent \subseteq Requests
  /\ waited \in [Requests -> 0..(ExpireAfter + 1)]
  /\ row \in [Requests -> {"none", "queued", "published"}]
  /\ requested \subseteq Requests
  /\ results \subseteq Requests \X Answers
  /\ handling \subseteq Requests
  /\ losses \in 0..MaxLosses

RequestsInit ==
  /\ state = [r \in Requests |-> "none"]
  /\ ask = [r \in Requests |-> NoAsk]
  /\ seen = {} /\ resent = {}
  /\ waited = [r \in Requests |-> 0]
  /\ row = [r \in Requests |-> "none"]
  /\ requested = {} /\ results = {} /\ handling = {}
  /\ losses = 0

\* An id stands for a fresh UUID once no row in use and no message bears it.
Unused(r) ==
  \/ state[r] = "none"
  \/ /\ state[r] \in Ends
     /\ row[r] = "published"
     /\ r \notin requested \cup handling
     /\ \A a \in Answers : <<r, a>> \notin results

\* The unique index on pending requests.
Pending(scope, version) ==
  \E r \in Requests : /\ state[r] = "pending"
                      /\ ask[r].scope = scope /\ ask[r].version = version

\* request: claim an id and queue compute.requested, or reuse the pending one.
Claim(r, scope, version, inputs) ==
  /\ Unused(r)
  /\ state' = [state EXCEPT ![r] = "pending"]
  /\ UNCHANGED <<resent, waited>>
  /\ ask' = [ask EXCEPT ![r] = [scope |-> scope, version |-> version, inputs |-> inputs]]
  /\ seen' = seen \ {r}
  /\ row' = [row EXCEPT ![r] = "queued"]
  /\ UNCHANGED <<laneVars, handling>>

Request(scope, version, inputs) ==
  IF Pending(scope, version)
  THEN UNCHANGED requestVars
  ELSE \E r \in Requests : Claim(r, scope, version, inputs)

\* The requests end; how old they are and whether they were sent again matters
\* only while they are pending.
End(ids, how) ==
  /\ state' = [r \in Requests |-> IF r \in ids THEN how ELSE state[r]]
  /\ waited' = [r \in Requests |-> IF r \in ids THEN 0 ELSE waited[r]]
  /\ resent' = resent \ ids

-----------------------------------------------------------------------------
(* Steps that touch nothing but the exchange.                              *)

Publish(r) ==
  /\ row[r] = "queued"
  /\ requested' = requested \cup {r}
  /\ \/ row' = [row EXCEPT ![r] = "published"]
     \/ "redelivery" \in Faults /\ UNCHANGED row
  /\ UNCHANGED <<state, ask, seen, resent, waited, results, losses, handling>>

\* The compute pool answers from what the message carries, and from nothing
\* else; three failures in a row make a failed result.
Answer(r, a) ==
  /\ r \in requested
  /\ a = "ok" \/ "failure" \in Faults
  /\ results' = results \cup {<<r, a>>}
  /\ requested' \in Committed(requested, r)
  /\ UNCHANGED <<tableVars, losses, handling>>

\* The failed result could not be sent: the message is committed anyway.
AnswerLost(r) ==
  /\ "outage" \in Faults
  /\ r \in requested
  /\ requested' = requested \ {r}
  /\ UNCHANGED <<tableVars, results, losses, handling>>

KafkaLosesData ==
  /\ "loss" \in Faults
  /\ requested # {} \/ results # {}
  /\ losses < MaxLosses
  /\ losses' = losses + 1
  /\ requested' = {} /\ results' = {}
  /\ UNCHANGED <<tableVars, handling>>

\* Slip: what was sent again never expires.
OverdueUnlessResent(r) ==
  state[r] = "pending" /\ waited[r] > ExpireAfter /\ r \notin handling \cup resent

\* ExpireComputeRequests, in reap's transaction: for a row a consumer has
\* locked it waits, and then finds the request ended.
Overdue(r) == state[r] = "pending" /\ waited[r] > ExpireAfter /\ r \notin handling

Expire ==
  /\ \E r \in Requests : Overdue(r)
  /\ End({r \in Requests : Overdue(r)}, "expired")
  /\ UNCHANGED <<ask, seen, row, laneVars, handling>>

\* ResendCompute, one transaction: locked rows are skipped, and so is a
\* request whose first message is still in the outbox.
Resendable(r) ==
  /\ state[r] = "pending" /\ waited[r] > ResendAfter
  /\ r \notin resent
  /\ row[r] = "published"
  /\ r \notin handling

ResendCompute ==
  /\ \E r \in Requests : Resendable(r)
  /\ resent' = resent \cup {r \in Requests : Resendable(r)}
  /\ row' = [r \in Requests |-> IF Resendable(r) THEN "queued" ELSE row[r]]
  /\ UNCHANGED <<state, ask, seen, waited, laneVars, handling>>

Wait ==
  /\ \E r \in Requests : state[r] = "pending" /\ waited[r] <= ExpireAfter
  /\ waited' = [r \in Requests |-> IF state[r] = "pending" /\ waited[r] <= ExpireAfter
                                   THEN waited[r] + 1 ELSE waited[r]]
  /\ UNCHANGED <<state, ask, seen, resent, row, laneVars, handling>>

Exchange ==
  \/ \E r \in Requests : \/ Publish(r) \/ AnswerLost(r)
                         \/ \E a \in Answers : Answer(r, a)
  \/ KafkaLosesData \/ Expire \/ ResendCompute \/ Wait

-----------------------------------------------------------------------------
(* Consuming compute.results.  The row of the request stays locked from    *)
(* FirstComputeResult to the commit, so a second result for it waits.      *)

\* Slip: a second result counts too.
FirstOrNot(r) == state[r] # "none"

\* FirstComputeResult: a late result of an expired or failed request is still
\* the first.
First(r) == r \notin seen

Recorded(r, a) ==
  /\ seen' = seen \cup {r}
  /\ End({r}, a)

\* A result that is not the first, or is a failure, stores nothing.
OnUselessResult(r, a) ==
  /\ <<r, a>> \in results
  /\ r \notin handling
  /\ ~First(r) \/ a = "failed"
  /\ IF First(r) THEN Recorded(r, a) ELSE UNCHANGED <<seen, state, resent, waited>>
  /\ results' \in Committed(results, <<r, a>>)
  /\ UNCHANGED <<ask, row, requested, losses, handling>>

\* The first result; what storing it does, the module that extends this one
\* says.  Either the whole transaction is one step ...
TakeResult(r) ==
  /\ <<r, "ok">> \in results
  /\ r \notin handling
  /\ First(r)
  /\ Recorded(r, "ok")
  /\ results' \in Committed(results, <<r, "ok">>)
  /\ UNCHANGED <<ask, row, requested, losses, handling>>

\* ... or other transactions may commit in between.
BeginResult(r) ==
  /\ <<r, "ok">> \in results
  /\ r \notin handling
  /\ First(r)
  /\ handling' = handling \cup {r}
  /\ UNCHANGED <<tableVars, laneVars>>

\* The transaction commits, and then the offset.
EndResult(r) ==
  /\ r \in handling
  /\ handling' = handling \ {r}
  /\ Recorded(r, "ok")
  /\ results' \in Committed(results, <<r, "ok">>)
  /\ UNCHANGED <<ask, row, requested, losses>>

\* The process stops before the commit: nothing happened, the result is
\* delivered again.
HandlerStops(r) ==
  /\ "redelivery" \in Faults
  /\ r \in handling
  /\ handling' = handling \ {r}
  /\ UNCHANGED <<tableVars, laneVars>>

\* OnComputeResultsFailed: the result kept failing to store.  It ends the
\* pending request, or fails at that as well; the message is committed.
OnComputeResultsFailed(r, a) ==
  /\ "outage" \in Faults
  /\ <<r, a>> \in results
  /\ r \notin handling
  /\ \/ state[r] = "pending" /\ End({r}, "failed")
     \/ UNCHANGED <<state, resent, waited>>
  /\ results' = results \ {<<r, a>>}
  /\ UNCHANGED <<ask, seen, row, requested, losses, handling>>

Consuming ==
  \E r \in Requests : \/ HandlerStops(r)
                      \/ \E a \in Answers : OnUselessResult(r, a) \/ OnComputeResultsFailed(r, a)
=============================================================================
