------------------------------ MODULE Delivery -----------------------------
(***************************************************************************)
(* How the services hand work to each other, as every module here models   *)
(* it: a lane (the outbox table, or one event type on a Kafka topic) is    *)
(* the set of the records a process may still be given.  A consumer        *)
(* commits the offset of a record after it handled it, and the outbox      *)
(* publisher marks a row after it sent it, so a process that stops between *)
(* the two leaves the record for another delivery.  A set keeps no order:  *)
(* records of different keys, retries and re-sends overtake each other.    *)
(***************************************************************************)
CONSTANT Faults    \* which of FaultKinds may happen

(***************************************************************************)
(* redelivery: a handled record is delivered again, or published twice,    *)
(*             because the process stopped before the commit.              *)
(* repost:     a client sends a file again with a ticket already used.     *)
(* outage:     storage or Postgres refuses for longer than the retries.    *)
(* loss:       the managed Kafka powers off and drops its topic data.      *)
(* refusal:    the rate limiter or the byte quota refuses a new job.       *)
(* late:       the scheduler runs the reaper later than its period.        *)
(* failure:    analytics answers a computation with a failed result.       *)
(* release:    a deployment brings other rule sets.                        *)
(***************************************************************************)
FaultKinds ==
  {"redelivery", "repost", "outage", "loss", "refusal", "late", "failure", "release"}

ASSUME FaultsAssumption == Faults \subseteq FaultKinds

\* What is left of a lane once a record was handled.
Committed(lane, record) ==
  {lane \ {record}} \cup (IF "redelivery" \in Faults THEN {lane} ELSE {})
=============================================================================
