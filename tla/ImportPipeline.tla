-------------------------- MODULE ImportPipeline --------------------------
(***************************************************************************)
(* The import pipeline of Expendit, from the upload ticket to the ledger.  *)
(*                                                                         *)
(* Three services take part.  api/common owns the import_job and           *)
(* upload_ticket rows, the staging rows, the ledger and the outbox;        *)
(* api/statements (the gateway) stores the bytes of an upload in tmp/ and  *)
(* sends upload.received; api/analytics (the extract pool) turns           *)
(* import.ready into import.processed.  Kafka carries the three messages   *)
(* at least once.  A scheduled reaper fails or deletes what got stuck and  *)
(* queues import.ready a second time.                                      *)
(*                                                                         *)
(* One action is one database transaction of api/common together with the  *)
(* storage call that follows it, or one message handled elsewhere.  The    *)
(* lanes are those of Delivery.  Time is the age of each row in ticks; an  *)
(* age stops growing one past the largest threshold it is compared with.   *)
(***************************************************************************)
EXTENDS Naturals, Sequences, Delivery

CONSTANTS
  Jobs,         \* ids of import_job rows
  Tickets,      \* jtis of upload tickets; a ticket also names its object in tmp/
  Keys,         \* Idempotency-Key values of POST /import
  Contents,     \* what analytics may read out of a file (the rows it returns)
  Sweeps,       \* runs of the reaper job that may overlap
  NoJob, NoTicket,
  TicketTTL,    \* life of a ticket (5 minutes)
  Skew,         \* clock skew a verifier allows (30 seconds)
  ResendAfter,  \* processing for longer: queue import.ready again (4 minutes)
  ReapAfter,    \* processing or awaiting for longer: give up (10 minutes)
  ReaperEvery,  \* period of the reaper (5 minutes)
  TmpMaxAge     \* objects older than this leave tmp/ (1 hour)

ASSUME NamesAssumption ==
  /\ NoJob \notin Jobs
  /\ NoTicket \notin Tickets
  /\ "failed" \notin Contents

ASSUME TimesAssumption ==
  /\ {TicketTTL, ReapAfter, ReaperEvery, TmpMaxAge} \subseteq Nat \ {0}
  /\ {Skew, ResendAfter} \subseteq Nat
  /\ ResendAfter < ReapAfter
  /\ TicketTTL <= ReapAfter
  /\ TicketTTL + Skew + ReapAfter + ReaperEvery < TmpMaxAge

VARIABLES
  \* import_job: one row per job
  status, key, age, object, resent, confirmed,
  sends,        \* how many import.ready rows were ever queued for the job
  \* staged_txn and ledger_txn
  staged,       \* staged[j]: the results whose rows are staged
  ledger,       \* ledger[j]: what each confirm wrote, in order
  \* upload_ticket
  ticketJob, ticketAge, used,
  \* the gateway: tickets whose upload.received was sent, and the tmp/ prefix
  posted, objects, objAge,
  \* POST /import requests between their transactions
  creating,     \* the request that inserted the job still has no ticket for it
  retrying,     \* a retry with the same key was given the job, and no ticket yet
  \* the outbox and the lanes of Kafka
  outbox, uploads, ready, results,
  \* the reaper
  listing, stuck, sinceReap

rowVars     == <<status, key, age, object, resent, confirmed, sends>>
reviewVars  == <<staged, ledger>>
ticketVars  == <<ticketJob, ticketAge, used>>
gatewayVars == <<posted, objects, objAge>>
requestVars == <<creating, retrying>>
laneVars    == <<outbox, uploads, ready, results>>
sweepVars   == <<listing, stuck, sinceReap>>

vars == <<rowVars, reviewVars, ticketVars, gatewayVars, requestVars, laneVars, sweepVars>>

-----------------------------------------------------------------------------
Statuses == {"none", "awaiting_upload", "processing", "completed", "failed", "deleted"}

\* The unique index on (org, idempotency_key) covers these rows.
Live == {"awaiting_upload", "processing", "completed"}

Verdicts == Contents \cup {"failed"}

\* The ages a row, a ticket, an object and the last sweep can be seen at.
JobAges    == 0..(ReapAfter + 1)
TicketAges == 0..(TicketTTL + Skew)
ObjectAges == 0..(TmpMaxAge + 1)
SweepAges  == 0..ReaperEvery

RowsTyped ==
  /\ status \in [Jobs -> Statuses]
  /\ key \in [Jobs -> Keys]
  /\ age \in [Jobs -> JobAges]
  /\ object \in [Jobs -> Tickets \cup {NoTicket}]
  /\ resent \in [Jobs -> BOOLEAN]
  /\ confirmed \in [Jobs -> BOOLEAN]
  /\ sends \in [Jobs -> Nat]

ReviewTyped ==
  /\ staged \in [Jobs -> SUBSET Contents]
  /\ ledger \in [Jobs -> Seq(SUBSET Contents)]

TicketsTyped ==
  /\ ticketJob \in [Tickets -> Jobs \cup {NoJob}]
  /\ ticketAge \in [Tickets -> TicketAges]
  /\ used \subseteq Tickets

GatewayTyped ==
  /\ posted \subseteq Tickets
  /\ objects \subseteq Tickets
  /\ objAge \in [Tickets -> ObjectAges]

RequestsTyped == creating \subseteq Jobs /\ retrying \subseteq Jobs

LanesTyped ==
  /\ outbox \subseteq Jobs
  /\ uploads \subseteq Tickets
  /\ ready \subseteq Jobs
  /\ results \subseteq Jobs \X Verdicts

SweepsTyped ==
  /\ listing \subseteq Sweeps
  /\ stuck \in [Sweeps -> SUBSET Jobs]
  /\ sinceReap \in SweepAges

TypeOK ==
  /\ RowsTyped /\ ReviewTyped /\ TicketsTyped /\ GatewayTyped
  /\ RequestsTyped /\ LanesTyped /\ SweepsTyped

Init ==
  /\ status = [j \in Jobs |-> "none"]
  /\ key \in [Jobs -> Keys]              \* the key its client will send
  /\ age = [j \in Jobs |-> 0]
  /\ object = [j \in Jobs |-> NoTicket]
  /\ resent = [j \in Jobs |-> FALSE]
  /\ confirmed = [j \in Jobs |-> FALSE]
  /\ sends = [j \in Jobs |-> 0]
  /\ staged = [j \in Jobs |-> {}]
  /\ ledger = [j \in Jobs |-> <<>>]
  /\ ticketJob = [t \in Tickets |-> NoJob]
  /\ ticketAge = [t \in Tickets |-> 0]
  /\ used = {} /\ posted = {} /\ objects = {}
  /\ objAge = [t \in Tickets |-> 0]
  /\ creating = {} /\ retrying = {}
  /\ outbox = {} /\ uploads = {} /\ ready = {} /\ results = {}
  /\ listing = {} /\ stuck = [s \in Sweeps |-> {}]
  /\ sinceReap = 0

\* What is left of tmp/ after a delete, whose error is only logged.
AfterDelete(object_key) ==
  {objects \ {object_key}} \cup (IF "outage" \in Faults THEN {objects} ELSE {})

\* The creation time of an object goes with it.
ForgetAges == objAge' = [t \in Tickets |-> IF t \in objects' THEN objAge[t] ELSE 0]

-----------------------------------------------------------------------------
(* POST /import, POST /import/:id/confirm, DELETE /import/:id.             *)

\* First transaction of Create, no live job with the key: insert the job.
CreateJob(j) ==
  /\ status[j] = "none"
  /\ \A i \in Jobs : key[i] = key[j] => status[i] \notin Live
  /\ status' = [status EXCEPT ![j] = "awaiting_upload"]
  /\ creating' = creating \cup {j}
  /\ UNCHANGED <<key, age, object, resent, confirmed, sends, retrying,
                 reviewVars, ticketVars, gatewayVars, laneVars, sweepVars>>

\* First transaction of Create, the key has a live job: the retry is given
\* the job, and goes on to a ticket if the job still awaits its upload.
ReuseJob(j) ==
  /\ status[j] = "awaiting_upload"
  /\ retrying' = retrying \cup {j}
  /\ UNCHANGED <<rowVars, reviewVars, ticketVars, gatewayVars, creating, laneVars, sweepVars>>

\* Last transaction of Create: the ticket.  The job is not read again.
IssueTicket(j, t) ==
  /\ ticketJob[t] = NoJob
  /\ \/ j \in creating /\ creating' = creating \ {j} /\ UNCHANGED retrying
     \/ j \in retrying /\ retrying' = retrying \ {j} /\ UNCHANGED creating
  /\ ticketJob' = [ticketJob EXCEPT ![t] = j]
  /\ ticketAge' = [ticketAge EXCEPT ![t] = 0]
  /\ UNCHANGED <<rowVars, reviewVars, used, gatewayVars, laneVars, sweepVars>>

\* Between them the limiter refused: the job is deleted, whatever became of
\* it since it was inserted.
RefuseCreate(j) ==
  /\ "refusal" \in Faults
  /\ j \in creating
  /\ creating' = creating \ {j}
  /\ status' = [status EXCEPT ![j] = "deleted"]
  /\ staged' = [staged EXCEPT ![j] = {}]
  /\ age' = [age EXCEPT ![j] = 0]
  /\ UNCHANGED <<key, object, resent, confirmed, sends, retrying, ledger,
                 ticketVars, gatewayVars, laneVars, sweepVars>>

\* The request ends before its ticket is stored.
CreateDies(j) ==
  /\ "outage" \in Faults
  /\ j \in creating \cup retrying
  /\ creating' = creating \ {j}
  /\ retrying' = retrying \ {j}
  /\ UNCHANGED <<rowVars, reviewVars, ticketVars, gatewayVars, laneVars, sweepVars>>

\* Slip: a confirmed job may be confirmed again.
ConfirmableAgain(j) == status[j] = "completed"

\* A second confirm, and one of a job that is not completed, change nothing.
Confirmable(j) == status[j] = "completed" /\ ~confirmed[j]

Confirm(j) ==
  /\ Confirmable(j)
  /\ confirmed' = [confirmed EXCEPT ![j] = TRUE]
  /\ ledger' = [ledger EXCEPT ![j] = Append(@, staged[j])]
  /\ UNCHANGED <<status, key, age, object, resent, sends, staged, ticketVars,
                 gatewayVars, requestVars, laneVars, sweepVars>>

Discard(j) ==
  /\ status[j] \in Live \cup {"failed"}
  /\ ~confirmed[j]
  /\ status' = [status EXCEPT ![j] = "deleted"]
  /\ staged' = [staged EXCEPT ![j] = {}]
  /\ age' = [age EXCEPT ![j] = 0]
  /\ objects' \in AfterDelete(object[j]) /\ ForgetAges
  /\ UNCHANGED <<key, object, resent, confirmed, sends, ledger, ticketVars,
                 posted, requestVars, laneVars, sweepVars>>

-----------------------------------------------------------------------------
(* The gateway: POST /uploads.                                             *)

\* The ticket is checked by signature and expiry only.  The object is written
\* first; the send may fail and leave it behind.
AcceptUpload(t) ==
  /\ ticketJob[t] # NoJob
  /\ ticketAge[t] < TicketTTL + Skew
  /\ t \in posted => "repost" \in Faults
  /\ objects' = objects \cup {t}
  /\ objAge' = [objAge EXCEPT ![t] = 0]
  /\ \/ uploads' = uploads \cup {t} /\ posted' = posted \cup {t}
     \/ "outage" \in Faults /\ UNCHANGED <<uploads, posted>>
  /\ UNCHANGED <<rowVars, reviewVars, ticketVars, requestVars, outbox, ready, results, sweepVars>>

-----------------------------------------------------------------------------
(* Consumers of api/common.                                                *)

\* UseTicket finds the row: not used, and not expired beyond the skew.
Usable(t) == t \notin used /\ ticketAge[t] < TicketTTL + Skew

\* enqueueReady: one outbox row for import.ready.
EnqueueReady(j) ==
  /\ outbox' = outbox \cup {j}
  /\ sends' = [sends EXCEPT ![j] = @ + 1]

StartProcessing(t) ==
  LET j == ticketJob[t] IN
  /\ Usable(t) /\ status[j] = "awaiting_upload"
  /\ used' = used \cup {t}
  /\ status' = [status EXCEPT ![j] = "processing"]
  /\ age' = [age EXCEPT ![j] = 0]
  /\ object' = [object EXCEPT ![j] = t]
  /\ EnqueueReady(j)
  /\ UNCHANGED <<key, resent, confirmed, reviewVars, ticketJob, ticketAge,
                 gatewayVars, requestVars, ready, results, sweepVars>>

\* Replayed, expired, or its job is gone or has moved on: the bytes go too.
DiscardUpload(t) ==
  /\ ~(Usable(t) /\ status[ticketJob[t]] = "awaiting_upload")
  /\ used' = IF Usable(t) THEN used \cup {t} ELSE used
  /\ objects' \in AfterDelete(t) /\ ForgetAges
  /\ UNCHANGED <<rowVars, reviewVars, ticketJob, ticketAge, posted,
                 requestVars, outbox, ready, results, sweepVars>>

OnUploadReceived(t) ==
  /\ t \in uploads
  /\ StartProcessing(t) \/ DiscardUpload(t)
  /\ uploads' \in Committed(uploads, t)

\* failImportJob, when a message kept failing; it may fail as well.
FailUnfinished(j) ==
  IF status[j] \in {"awaiting_upload", "processing"}
  THEN \/ /\ status' = [status EXCEPT ![j] = "failed"]
          /\ age' = [age EXCEPT ![j] = 0]
       \/ UNCHANGED <<status, age>>
  ELSE UNCHANGED <<status, age>>

\* Three attempts failed: the failure is recorded and the message committed.
OnUploadReceivedFailed(t) ==
  /\ "outage" \in Faults
  /\ t \in uploads
  /\ uploads' = uploads \ {t}
  /\ FailUnfinished(ticketJob[t])
  /\ UNCHANGED <<key, object, resent, confirmed, sends, reviewVars, ticketVars,
                 gatewayVars, requestVars, outbox, ready, results, sweepVars>>

\* Slip: a result is taken after the job has failed.
AcceptsLateResult(j) == status[j] # "deleted"

AcceptsResult(j) == status[j] = "processing"

\* Slip: a failed result brings a row.
RowsUnchecked(v) == {v}

\* The rows a result brings: a failed one brings none.
Rows(v) == {v} \ {"failed"}

\* The decisions of analytics are stored if the job is still processing; the
\* raw file goes either way, unless the job itself is gone.
OnImportProcessed(j, v) ==
  /\ <<j, v>> \in results
  /\ results' \in Committed(results, <<j, v>>)
  /\ IF AcceptsResult(j)
     THEN /\ status' = [status EXCEPT ![j] = IF v = "failed" THEN "failed" ELSE "completed"]
          /\ age' = [age EXCEPT ![j] = 0]
          /\ staged' = [staged EXCEPT ![j] = @ \cup Rows(v)]
     ELSE UNCHANGED <<status, age, staged>>
  /\ IF status[j] = "deleted" THEN UNCHANGED objects ELSE objects' \in AfterDelete(object[j])
  /\ ForgetAges
  /\ UNCHANGED <<key, object, resent, confirmed, sends, ledger, ticketVars,
                 posted, requestVars, outbox, uploads, ready, sweepVars>>

OnImportProcessedFailed(j, v) ==
  /\ "outage" \in Faults
  /\ <<j, v>> \in results
  /\ results' = results \ {<<j, v>>}
  /\ FailUnfinished(j)
  /\ UNCHANGED <<key, object, resent, confirmed, sends, reviewVars, ticketVars,
                 gatewayVars, requestVars, outbox, uploads, ready, sweepVars>>

-----------------------------------------------------------------------------
(* The outbox publisher, Kafka, and the extract pool of api/analytics.     *)

\* The row is marked published in the transaction that sent it.
Publish(j) ==
  /\ j \in outbox
  /\ ready' = ready \cup {j}
  /\ outbox' \in Committed(outbox, j)
  /\ UNCHANGED <<rowVars, reviewVars, ticketVars, gatewayVars, requestVars, uploads, results, sweepVars>>

\* A file that is gone is a failed import; one that is there parses or not.
Extract(j, v) ==
  /\ j \in ready
  /\ object[j] \notin objects => v = "failed"
  /\ results' = results \cup {<<j, v>>}
  /\ ready' \in Committed(ready, j)
  /\ UNCHANGED <<rowVars, reviewVars, ticketVars, gatewayVars, requestVars, outbox, uploads, sweepVars>>

\* The payload stayed unreadable, or the failed result could not be sent: the
\* message is committed and nothing comes back.
ExtractGivesUp(j) ==
  /\ "outage" \in Faults
  /\ j \in ready
  /\ ready' = ready \ {j}
  /\ UNCHANGED <<rowVars, reviewVars, ticketVars, gatewayVars, requestVars, outbox, uploads, results, sweepVars>>

KafkaLosesData ==
  /\ "loss" \in Faults
  /\ uploads # {} \/ ready # {} \/ results # {}
  /\ uploads' = {} /\ ready' = {} /\ results' = {}
  /\ UNCHANGED <<rowVars, reviewVars, ticketVars, gatewayVars, requestVars, outbox, sweepVars>>

-----------------------------------------------------------------------------
(* The scheduled jobs of api/common.                                       *)

Idle(s) == s \notin listing /\ stuck[s] = {}

\* Slip: only what was sent again can be overdue.
OverdueIfResent(j) == status[j] = "processing" /\ resent[j] /\ age[j] > ReapAfter

Overdue(j) == status[j] = "processing" /\ age[j] > ReapAfter

\* Slip: a job with a ticket never counts as abandoned.
AbandonedWithoutTicket(j) ==
  /\ status[j] = "awaiting_upload"
  /\ age[j] > ReapAfter
  /\ \A t \in Tickets : ticketJob[t] # j

\* Awaiting for too long, and no ticket could still bring its upload.
Abandoned(j) ==
  /\ status[j] = "awaiting_upload"
  /\ age[j] > ReapAfter
  /\ \A t \in Tickets : ticketJob[t] = j => ticketAge[t] >= TicketTTL

\* reap: one transaction over every job.  The re-send comes after it.
Reap(s) ==
  /\ Idle(s)
  /\ status' = [j \in Jobs |-> IF Overdue(j) THEN "failed"
                               ELSE IF Abandoned(j) THEN "deleted" ELSE status[j]]
  /\ age' = [j \in Jobs |-> IF Overdue(j) \/ Abandoned(j) THEN 0 ELSE age[j]]
  /\ sinceReap' = 0
  /\ listing' = listing \cup {s}
  /\ UNCHANGED <<key, object, resent, confirmed, sends, reviewVars, ticketVars,
                 gatewayVars, requestVars, laneVars, stuck>>

\* Slip: the mark of the re-send is not looked at.
StuckAgain(j) == status[j] = "processing" /\ age[j] > ResendAfter

Stuck(j) == status[j] = "processing" /\ ~resent[j] /\ age[j] > ResendAfter

\* ListStuck, in a transaction of its own.
ListStuck(s) ==
  /\ s \in listing
  /\ listing' = listing \ {s}
  /\ stuck' = [stuck EXCEPT ![s] = {j \in Jobs : Stuck(j)}]
  /\ UNCHANGED <<rowVars, reviewVars, ticketVars, gatewayVars, requestVars, laneVars, sinceReap>>

\* One transaction per listed job: only its status is looked at again.
ResendStuck(s, j) ==
  /\ j \in stuck[s]
  /\ stuck' = [stuck EXCEPT ![s] = @ \ {j}]
  /\ IF status[j] = "processing"
     THEN EnqueueReady(j) /\ resent' = [resent EXCEPT ![j] = TRUE]
     ELSE UNCHANGED <<outbox, sends, resent>>
  /\ UNCHANGED <<status, key, age, object, confirmed, reviewVars, ticketVars,
                 gatewayVars, requestVars, uploads, ready, results, listing, sinceReap>>

\* The job stops at its deadline, or its transaction fails: the rest of the
\* list waits for the next run.
SweepStops(s) ==
  /\ "outage" \in Faults
  /\ ~Idle(s)
  /\ listing' = listing \ {s}
  /\ stuck' = [stuck EXCEPT ![s] = {}]
  /\ UNCHANGED <<rowVars, reviewVars, ticketVars, gatewayVars, requestVars, laneVars, sinceReap>>

\* Slip: objects live as long as tickets.
TmpExpiredWithTicket(t) == t \in objects /\ objAge[t] > TicketTTL

\* Slip: objects of used tickets are left to their jobs.
TmpExpiredUnused(t) == t \in objects \ used /\ objAge[t] > TmpMaxAge

TmpExpired(t) == t \in objects /\ objAge[t] > TmpMaxAge

\* Objects past their age leave tmp/; the first error ends the run.
TmpCleanup ==
  /\ \E old \in SUBSET {t \in Tickets : TmpExpired(t)} :
       old # {} /\ objects' = objects \ old
  /\ ForgetAges
  /\ UNCHANGED <<rowVars, reviewVars, ticketVars, posted, requestVars, laneVars, sweepVars>>

-----------------------------------------------------------------------------
Older(n, bound) == IF n < bound THEN n + 1 ELSE n

\* Time passes; the scheduler does not let the reaper's turn slip.
Tick ==
  /\ sinceReap < ReaperEvery \/ "late" \in Faults
  /\ sinceReap' = Older(sinceReap, ReaperEvery)
  /\ age' = [j \in Jobs |-> IF status[j] \in {"awaiting_upload", "processing"}
                            THEN Older(age[j], ReapAfter + 1) ELSE age[j]]
  /\ ticketAge' = [t \in Tickets |-> IF ticketJob[t] # NoJob
                                     THEN Older(ticketAge[t], TicketTTL + Skew) ELSE ticketAge[t]]
  /\ objAge' = [t \in Tickets |-> IF t \in objects
                                  THEN Older(objAge[t], TmpMaxAge + 1) ELSE objAge[t]]
  /\ UNCHANGED <<status, key, object, resent, confirmed, sends, reviewVars, ticketJob, used,
                 posted, objects, requestVars, laneVars, listing, stuck>>

Requests ==
  \E j \in Jobs : \/ CreateJob(j) \/ ReuseJob(j) \/ RefuseCreate(j) \/ CreateDies(j)
                  \/ Confirm(j) \/ Discard(j)
                  \/ \E t \in Tickets : IssueTicket(j, t)

Uploading ==
  \E t \in Tickets : AcceptUpload(t) \/ OnUploadReceived(t) \/ OnUploadReceivedFailed(t)

Analysing ==
  \E j \in Jobs : \/ Publish(j) \/ ExtractGivesUp(j)
                  \/ \E v \in Verdicts : \/ Extract(j, v) \/ OnImportProcessed(j, v)
                                         \/ OnImportProcessedFailed(j, v)

Sweeping ==
  \/ \E s \in Sweeps : \/ Reap(s) \/ ListStuck(s) \/ SweepStops(s)
                       \/ \E j \in Jobs : ResendStuck(s, j)
  \/ TmpCleanup

Next == Requests \/ Uploading \/ Analysing \/ KafkaLosesData \/ Sweeping \/ Tick

Spec == Init /\ [][Next]_vars

(***************************************************************************)
(* Time passes, Cloud Scheduler keeps calling the reaper and the cleanup,  *)
(* and a sweep that started goes on.  Nothing is assumed of the users, of  *)
(* the consumers or of Kafka: those may stop for good.                     *)
(***************************************************************************)
SchedulerFairness ==
  /\ WF_vars(Tick)
  /\ WF_vars(TmpCleanup)
  /\ \A s \in Sweeps : /\ WF_vars(Reap(s))
                       /\ WF_vars(ListStuck(s))
                       /\ WF_vars(\E j \in Jobs : ResendStuck(s, j))

FairSpec == Spec /\ SchedulerFairness

-----------------------------------------------------------------------------
(* What must hold.                                                         *)

\* Every step of the pipeline is one step of the lifecycle an import promises
\* (or none of it): flows/import.md sections 2 and 3.
phase == [j \in Jobs |-> IF confirmed[j] THEN "imported" ELSE status[j]]

Lifecycle == INSTANCE ImportLifecycle WITH rows <- staged, imported <- ledger

ImplementsLifecycle == Lifecycle!Spec

\* The ledger holds the rows of at most one job per Idempotency-Key: a client
\* that retries after a failure never imports its file twice, even when the
\* result of the failed job arrives after the retry (the status check of
\* OnImportProcessed against the unique index on live keys).
OneImportPerKey ==
  \A i, j \in Jobs : i # j /\ key[i] = key[j] => ledger[i] = <<>> \/ ledger[j] = <<>>

\* A job imports once, and what it imports is one result of analytics, not a
\* mix of the first one and the one the re-send brought back.
ImportIsOneResult ==
  \A j \in Jobs : ledger[j] \in {<<>>} \cup {<<{c}>> : c \in Contents}

\* "Something went wrong - nothing was imported" (flows/import.md section 3):
\* a job that failed or was deleted has no staged rows left, so no later
\* message or click brings rows of it to a review or to the ledger.
OnlyCompletedHasRows ==
  \A j \in Jobs : status[j] # "completed" => staged[j] = {} /\ ~confirmed[j]

\* import.ready is queued at most twice for a job: when the upload arrives,
\* and once more by the reaper (resend.go: "again, once").
ResentOnce == \A j \in Jobs : sends[j] <= 2

\* While a job is processing, the bytes it needs are in tmp/: neither the
\* cleanup nor anything else removes them before the job ends.
BytesHeldWhileProcessing ==
  \A j \in Jobs : status[j] = "processing" => object[j] \in objects

\* "At-least-once delivery; every consumer is idempotent by key"
\* (system-design.md:488): handling upload.received once more leaves the file
\* of the job it started where analytics will read it.
RedeliveryKeepsFile ==
  [][\A j \in Jobs : status[j] = "processing" /\ object[j] \in objects
                       => status'[j] # "processing" \/ object[j] \in objects']_vars

\* The promise of the lifecycle: no job stays in processing, whatever is lost
\* and whoever stops (flows/import.md section 3; Sweeper.reap).
ProcessingEnds ==
  \A j \in Jobs : status[j] = "processing" ~> status[j] # "processing"

\* No job waits for its upload for ever: it starts, fails, or is deleted.
AwaitingEnds ==
  \A j \in Jobs : status[j] = "awaiting_upload" ~> status[j] # "awaiting_upload"

\* S-4: whatever happens to the job, the raw file does not stay in tmp/.
RawFileGoes == \A t \in Tickets : t \in objects ~> t \notin objects
=============================================================================
