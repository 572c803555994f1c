------------------------ MODULE ImportPipelineProofs -----------------------
(***************************************************************************)
(* Theorems about ImportPipeline, for every number of jobs, tickets, keys, *)
(* sweeps and results, and every duration the assumptions allow.           *)
(***************************************************************************)
EXTENDS ImportPipeline, TLAPS

USE DEF rowVars, reviewVars, ticketVars, gatewayVars, requestVars, laneVars, sweepVars

\* A committed lane holds no record it did not hold.
LEMMA CommittedShrinks ==
  ASSUME NEW lane, NEW record, NEW left \in Committed(lane, record)
  PROVE  left \subseteq lane
BY DEF Committed

LEMMA AfterDeleteShrinks ==
  ASSUME NEW o, NEW left \in AfterDelete(o)
  PROVE  left \subseteq objects
BY DEF AfterDelete

\* A new row has age 0, and one tick makes nothing older than its bound.
LEMMA AgesBounded ==
  /\ 0 \in JobAges /\ 0 \in TicketAges /\ 0 \in ObjectAges /\ 0 \in SweepAges
  /\ \A n \in JobAges : Older(n, ReapAfter + 1) \in JobAges
  /\ \A n \in TicketAges : Older(n, TicketTTL + Skew) \in TicketAges
  /\ \A n \in ObjectAges : Older(n, TmpMaxAge + 1) \in ObjectAges
  /\ \A n \in SweepAges : Older(n, ReaperEvery) \in SweepAges
BY TimesAssumption DEF JobAges, TicketAges, ObjectAges, SweepAges, Older

\* A component whose variables a step leaves alone stays well typed.
LEMMA TypesFramed ==
  ASSUME TypeOK
  PROVE  /\ UNCHANGED rowVars => RowsTyped'
         /\ UNCHANGED reviewVars => ReviewTyped'
         /\ UNCHANGED ticketVars => TicketsTyped'
         /\ UNCHANGED gatewayVars => GatewayTyped'
         /\ UNCHANGED requestVars => RequestsTyped'
         /\ UNCHANGED laneVars => LanesTyped'
         /\ UNCHANGED sweepVars => SweepsTyped'
BY DEF TypeOK, RowsTyped, ReviewTyped, TicketsTyped, GatewayTyped, RequestsTyped,
       LanesTyped, SweepsTyped

\* The pipeline starts well typed.
LEMMA TypeInit == Init => TypeOK
<1> SUFFICES ASSUME Init PROVE TypeOK
  OBVIOUS
<1> QED
  BY AgesBounded DEF Init, TypeOK, RowsTyped, ReviewTyped, TicketsTyped, GatewayTyped,
     RequestsTyped, LanesTyped, SweepsTyped, Statuses

\* TypeOK is not inductive by itself: it also takes that upload.received is
\* only ever sent for a ticket that was issued for a job.
IssuedUploads == \A t \in uploads : ticketJob[t] # NoJob

TypeInv == TypeOK /\ IssuedUploads

\* Every step, one by one, leaves the pipeline well typed.
LEMMA TypeNext == TypeInv /\ [Next]_vars => TypeOK'
<1> SUFFICES ASSUME TypeOK, IssuedUploads, [Next]_vars PROVE TypeOK'
  BY DEF TypeInv
<1> USE DEF TypeOK
<1>1. ASSUME NEW j \in Jobs, CreateJob(j) PROVE TypeOK'
  <2>1. RowsTyped'
    BY <1>1 DEF CreateJob, RowsTyped, Statuses
  <2>2. RequestsTyped'
    BY <1>1 DEF CreateJob, RequestsTyped
  <2> QED
    BY <1>1, <2>1, <2>2, TypesFramed DEF CreateJob
<1>2. ASSUME NEW j \in Jobs, ReuseJob(j) PROVE TypeOK'
  <2>1. RequestsTyped'
    BY <1>2 DEF ReuseJob, RequestsTyped
  <2> QED
    BY <1>2, <2>1, TypesFramed DEF ReuseJob
<1>3. ASSUME NEW j \in Jobs, NEW t \in Tickets, IssueTicket(j, t) PROVE TypeOK'
  <2>1. RequestsTyped'
    BY <1>3 DEF IssueTicket, RequestsTyped
  <2>2. TicketsTyped'
    BY <1>3, AgesBounded DEF IssueTicket, TicketsTyped
  <2> QED
    BY <1>3, <2>1, <2>2, TypesFramed DEF IssueTicket
<1>4. ASSUME NEW j \in Jobs, RefuseCreate(j) PROVE TypeOK'
  <2>1. RowsTyped'
    BY <1>4, AgesBounded DEF RefuseCreate, RowsTyped, Statuses
  <2>2. ReviewTyped'
    BY <1>4 DEF RefuseCreate, ReviewTyped
  <2>3. RequestsTyped'
    BY <1>4 DEF RefuseCreate, RequestsTyped
  <2> QED
    BY <1>4, <2>1, <2>2, <2>3, TypesFramed DEF RefuseCreate
<1>5. ASSUME NEW j \in Jobs, CreateDies(j) PROVE TypeOK'
  <2>1. RequestsTyped'
    BY <1>5 DEF CreateDies, RequestsTyped
  <2> QED
    BY <1>5, <2>1, TypesFramed DEF CreateDies
<1>6. ASSUME NEW j \in Jobs, Confirm(j) PROVE TypeOK'
  <2>1. RowsTyped'
    BY <1>6 DEF Confirm, RowsTyped
  <2>2. ReviewTyped'
    BY <1>6 DEF Confirm, ReviewTyped
  <2> QED
    BY <1>6, <2>1, <2>2, TypesFramed DEF Confirm
<1>7. ASSUME NEW j \in Jobs, Discard(j) PROVE TypeOK'
  <2>1. RowsTyped'
    BY <1>7, AgesBounded DEF Discard, RowsTyped, Statuses
  <2>2. ReviewTyped'
    BY <1>7 DEF Discard, ReviewTyped
  <2>3. GatewayTyped'
    BY <1>7, AgesBounded, AfterDeleteShrinks DEF Discard, GatewayTyped, ForgetAges
  <2> QED
    BY <1>7, <2>1, <2>2, <2>3, TypesFramed DEF Discard
<1>8. ASSUME NEW t \in Tickets, AcceptUpload(t) PROVE TypeOK'
  <2>1. GatewayTyped'
    BY <1>8, AgesBounded DEF AcceptUpload, GatewayTyped
  <2>2. LanesTyped'
    BY <1>8 DEF AcceptUpload, LanesTyped
  <2> QED
    BY <1>8, <2>1, <2>2, TypesFramed DEF AcceptUpload
<1>9. ASSUME NEW t \in Tickets, OnUploadReceived(t), StartProcessing(t) PROVE TypeOK'
  <2> DEFINE j == ticketJob[t]
  <2>1. j \in Jobs
    BY <1>9 DEF OnUploadReceived, IssuedUploads, TicketsTyped
  <2>2. RowsTyped'
    BY <1>9, <2>1, AgesBounded DEF StartProcessing, EnqueueReady, RowsTyped, Statuses
  <2>3. TicketsTyped'
    BY <1>9 DEF StartProcessing, TicketsTyped
  <2>4. LanesTyped'
    BY <1>9, <2>1, CommittedShrinks DEF OnUploadReceived, StartProcessing, EnqueueReady, LanesTyped
  <2> QED
    BY <1>9, <2>2, <2>3, <2>4, TypesFramed DEF StartProcessing
<1>10. ASSUME NEW t \in Tickets, OnUploadReceived(t), DiscardUpload(t) PROVE TypeOK'
  <2>1. TicketsTyped'
    BY <1>10 DEF OnUploadReceived, DiscardUpload, TicketsTyped
  <2>2. GatewayTyped'
    BY <1>10, AgesBounded, AfterDeleteShrinks DEF OnUploadReceived, DiscardUpload, GatewayTyped, ForgetAges
  <2>3. LanesTyped'
    BY <1>10, CommittedShrinks DEF OnUploadReceived, DiscardUpload, LanesTyped
  <2> QED
    BY <1>10, <2>1, <2>2, <2>3, TypesFramed DEF OnUploadReceived, DiscardUpload
<1>11. ASSUME NEW t \in Tickets, OnUploadReceivedFailed(t) PROVE TypeOK'
  <2>1. RowsTyped'
    BY <1>11, AgesBounded DEF OnUploadReceivedFailed, FailUnfinished, RowsTyped, Statuses
  <2>2. LanesTyped'
    BY <1>11 DEF OnUploadReceivedFailed, FailUnfinished, LanesTyped
  <2> QED
    BY <1>11, <2>1, <2>2, TypesFramed DEF OnUploadReceivedFailed, FailUnfinished
<1>12. ASSUME NEW j \in Jobs, NEW v \in Verdicts, OnImportProcessed(j, v) PROVE TypeOK'
  <2>1. RowsTyped'
    BY <1>12, AgesBounded DEF OnImportProcessed, RowsTyped, Statuses
  <2>2. ReviewTyped'
    <3>1. Rows(v) \subseteq Contents
      BY DEF Rows, Verdicts
    <3>2. CASE AcceptsResult(j)
      BY <1>12, <3>1, <3>2 DEF OnImportProcessed, ReviewTyped
    <3>3. CASE ~AcceptsResult(j)
      BY <1>12, <3>3 DEF OnImportProcessed, ReviewTyped
    <3> QED
      BY <3>2, <3>3
  <2>3. GatewayTyped'
    BY <1>12, AgesBounded, AfterDeleteShrinks DEF OnImportProcessed, GatewayTyped, ForgetAges
  <2>4. LanesTyped'
    BY <1>12, CommittedShrinks DEF OnImportProcessed, LanesTyped
  <2> QED
    BY <1>12, <2>1, <2>2, <2>3, <2>4, TypesFramed DEF OnImportProcessed
<1>13. ASSUME NEW j \in Jobs, NEW v \in Verdicts, OnImportProcessedFailed(j, v) PROVE TypeOK'
  <2>1. RowsTyped'
    BY <1>13, AgesBounded DEF OnImportProcessedFailed, FailUnfinished, RowsTyped, Statuses
  <2>2. LanesTyped'
    BY <1>13 DEF OnImportProcessedFailed, FailUnfinished, LanesTyped
  <2> QED
    BY <1>13, <2>1, <2>2, TypesFramed DEF OnImportProcessedFailed, FailUnfinished
<1>14. ASSUME NEW j \in Jobs, Publish(j) PROVE TypeOK'
  <2>1. LanesTyped'
    BY <1>14, CommittedShrinks DEF Publish, LanesTyped
  <2> QED
    BY <1>14, <2>1, TypesFramed DEF Publish
<1>15. ASSUME NEW j \in Jobs, NEW v \in Verdicts, Extract(j, v) PROVE TypeOK'
  <2>1. LanesTyped'
    BY <1>15, CommittedShrinks DEF Extract, LanesTyped
  <2> QED
    BY <1>15, <2>1, TypesFramed DEF Extract
<1>16. ASSUME NEW j \in Jobs, ExtractGivesUp(j) PROVE TypeOK'
  <2>1. LanesTyped'
    BY <1>16 DEF ExtractGivesUp, LanesTyped
  <2> QED
    BY <1>16, <2>1, TypesFramed DEF ExtractGivesUp
<1>17. CASE KafkaLosesData
  <2>1. LanesTyped'
    BY <1>17 DEF KafkaLosesData, LanesTyped
  <2> QED
    BY <1>17, <2>1, TypesFramed DEF KafkaLosesData
<1>18. ASSUME NEW s \in Sweeps, Reap(s) PROVE TypeOK'
  <2>1. RowsTyped'
    BY <1>18, AgesBounded DEF Reap, RowsTyped, Statuses
  <2>2. SweepsTyped'
    BY <1>18, AgesBounded DEF Reap, SweepsTyped
  <2> QED
    BY <1>18, <2>1, <2>2, TypesFramed DEF Reap
<1>19. ASSUME NEW s \in Sweeps, ListStuck(s) PROVE TypeOK'
  <2>1. SweepsTyped'
    BY <1>19 DEF ListStuck, SweepsTyped
  <2> QED
    BY <1>19, <2>1, TypesFramed DEF ListStuck
<1>20. ASSUME NEW s \in Sweeps, NEW j \in Jobs, ResendStuck(s, j) PROVE TypeOK'
  <2>1. RowsTyped'
    <3>1. CASE status[j] = "processing"
      <4>1. sends' \in [Jobs -> Nat]
        BY <1>20, <3>1 DEF ResendStuck, EnqueueReady, RowsTyped
      <4>2. resent' \in [Jobs -> BOOLEAN]
        BY <1>20, <3>1 DEF ResendStuck, RowsTyped
      <4> QED
        BY <1>20, <4>1, <4>2 DEF ResendStuck, RowsTyped
    <3>2. CASE status[j] # "processing"
      BY <1>20, <3>2 DEF ResendStuck, RowsTyped
    <3> QED
      BY <3>1, <3>2
  <2>2. LanesTyped'
    BY <1>20 DEF ResendStuck, EnqueueReady, LanesTyped
  <2>3. SweepsTyped'
    BY <1>20 DEF ResendStuck, EnqueueReady, SweepsTyped
  <2> QED
    BY <1>20, <2>1, <2>2, <2>3, TypesFramed DEF ResendStuck, EnqueueReady
<1>21. ASSUME NEW s \in Sweeps, SweepStops(s) PROVE TypeOK'
  <2>1. SweepsTyped'
    BY <1>21 DEF SweepStops, SweepsTyped
  <2> QED
    BY <1>21, <2>1, TypesFramed DEF SweepStops
<1>22. CASE TmpCleanup
  <2>1. GatewayTyped'
    BY <1>22, AgesBounded DEF TmpCleanup, GatewayTyped, ForgetAges
  <2> QED
    BY <1>22, <2>1, TypesFramed DEF TmpCleanup
<1>23. CASE Tick
  <2>1. RowsTyped'
    BY <1>23, AgesBounded DEF Tick, RowsTyped
  <2>2. TicketsTyped'
    BY <1>23, AgesBounded DEF Tick, TicketsTyped
  <2>3. GatewayTyped'
    BY <1>23, AgesBounded DEF Tick, GatewayTyped
  <2>4. SweepsTyped'
    BY <1>23, AgesBounded DEF Tick, SweepsTyped
  <2> QED
    BY <1>23, <2>1, <2>2, <2>3, <2>4, TypesFramed DEF Tick
<1>24. CASE UNCHANGED vars
  BY <1>24, TypesFramed DEF vars
<1>25. CASE Requests
  BY <1>25, <1>1, <1>2, <1>3, <1>4, <1>5, <1>6, <1>7 DEF Requests
<1>26. CASE Uploading
  BY <1>26, <1>8, <1>9, <1>10, <1>11 DEF Uploading, OnUploadReceived
<1>27. CASE Analysing
  BY <1>27, <1>12, <1>13, <1>14, <1>15, <1>16 DEF Analysing
<1>28. CASE Sweeping
  BY <1>28, <1>18, <1>19, <1>20, <1>21, <1>22 DEF Sweeping
<1> QED
  BY <1>17, <1>23, <1>24, <1>25, <1>26, <1>27, <1>28 DEF Next

\* Only AcceptUpload sends upload.received, for a ticket with a job, and a
\* ticket never loses its job.
LEMMA IssuedNext == TypeInv /\ [Next]_vars => IssuedUploads'
<1> SUFFICES ASSUME TypeOK, IssuedUploads, [Next]_vars PROVE IssuedUploads'
  BY DEF TypeInv
<1> USE DEF IssuedUploads
<1>1. ASSUME NEW j \in Jobs, NEW t \in Tickets, IssueTicket(j, t) PROVE IssuedUploads'
  BY <1>1, NamesAssumption DEF IssueTicket, TypeOK, TicketsTyped
<1>2. ASSUME NEW t \in Tickets, AcceptUpload(t) PROVE IssuedUploads'
  BY <1>2 DEF AcceptUpload
<1>3. ASSUME uploads' \subseteq uploads, UNCHANGED ticketJob PROVE IssuedUploads'
  BY <1>3
<1>4. CASE Requests
  BY <1>4, <1>1, <1>3
     DEF Requests, CreateJob, ReuseJob, RefuseCreate, CreateDies, Confirm, Discard
<1>5. CASE Uploading
  BY <1>5, <1>2, <1>3, CommittedShrinks
     DEF Uploading, OnUploadReceived, StartProcessing, DiscardUpload, OnUploadReceivedFailed
<1>6. CASE Analysing
  BY <1>6, <1>3 DEF Analysing, Publish, ExtractGivesUp, Extract, OnImportProcessed,
     OnImportProcessedFailed
<1>7. CASE KafkaLosesData
  BY <1>7, <1>3 DEF KafkaLosesData
<1>8. CASE Sweeping
  BY <1>8, <1>3 DEF Sweeping, Reap, ListStuck, SweepStops, ResendStuck, TmpCleanup
<1>9. CASE Tick
  BY <1>9, <1>3 DEF Tick
<1>10. CASE UNCHANGED vars
  BY <1>10, <1>3 DEF vars
<1> QED
  BY <1>4, <1>5, <1>6, <1>7, <1>8, <1>9, <1>10 DEF Next

LEMMA TypeInvariant == Spec => []TypeInv
<1>1. Init => TypeInv
  BY TypeInit DEF TypeInv, Init, IssuedUploads
<1>2. TypeInv /\ [Next]_vars => TypeInv'
  BY TypeNext, IssuedNext DEF TypeInv
<1> QED
  BY <1>1, <1>2, PTL DEF Spec

\* Every state of the pipeline is well typed: among other things no age
\* passes the bound the reaper and the cleanup compare it with, and every
\* message in a lane names a job or a ticket that exists.
THEOREM TypeSafe == Spec => []TypeOK
<1>1. TypeInv => TypeOK
  BY DEF TypeInv
<1> QED
  BY TypeInvariant, <1>1, PTL
-----------------------------------------------------------------------------
(* What a user reviews, and what reaches the ledger.                       *)

\* The rows of a job are staged while it is completed, and are then those of
\* one result; its ledger was written at most once, and from such rows.
\* ImportIsOneResult alone is not inductive: a confirm copies what is staged.
JobReviewed(j) ==
  /\ status[j] = "completed" => \E c \in Contents : staged[j] = {c}
  /\ status[j] # "completed" => staged[j] = {}
  /\ confirmed[j] => \E c \in Contents : ledger[j] = <<{c}>>
  /\ ~confirmed[j] => ledger[j] = <<>>

Reviewed == \A j \in Jobs : JobReviewed(j)

ReviewInv == TypeInv /\ Reviewed

\* A step that leaves a job's rows, its ledger and whether it is completed
\* and confirmed alone, leaves it reviewed.
LEMMA ReviewFramed ==
  ASSUME NEW j \in Jobs, JobReviewed(j),
         (status'[j] = "completed") <=> (status[j] = "completed"),
         staged'[j] = staged[j], confirmed'[j] = confirmed[j], ledger'[j] = ledger[j]
  PROVE  JobReviewed(j)'
BY DEF JobReviewed

LEMMA ReviewNext == ReviewInv /\ [Next]_vars => Reviewed'
<1> SUFFICES ASSUME TypeOK, IssuedUploads, Reviewed, [Next]_vars, NEW i \in Jobs
             PROVE  JobReviewed(i)'
  BY DEF ReviewInv, TypeInv, Reviewed
<1>0. JobReviewed(i)
  BY DEF Reviewed
<1> USE DEF TypeOK, RowsTyped, ReviewTyped
<1>1. ASSUME NEW j \in Jobs, CreateJob(j) PROVE JobReviewed(i)'
  BY <1>0, <1>1, ReviewFramed DEF CreateJob
<1>2. ASSUME NEW j \in Jobs, RefuseCreate(j) PROVE JobReviewed(i)'
  BY <1>0, <1>2 DEF RefuseCreate, JobReviewed
<1>3. ASSUME NEW j \in Jobs, Confirm(j) PROVE JobReviewed(i)'
  <2>1. CASE i = j
    <3>1. ledger'[i] = Append(<<>>, staged[i]) /\ confirmed'[i]
      BY <1>0, <1>3, <2>1 DEF Confirm, Confirmable, JobReviewed
    <3>2. PICK c \in Contents : staged[i] = {c}
      BY <1>0, <1>3, <2>1 DEF Confirm, Confirmable, JobReviewed
    <3>3. ledger'[i] = <<{c}>>
      BY <3>1, <3>2
    <3> QED
      BY <1>0, <1>3, <3>1, <3>3 DEF Confirm, JobReviewed
  <2>2. CASE i # j
    BY <1>0, <1>3, <2>2, ReviewFramed DEF Confirm
  <2> QED
    BY <2>1, <2>2
<1>4. ASSUME NEW j \in Jobs, Discard(j) PROVE JobReviewed(i)'
  BY <1>0, <1>4 DEF Discard, JobReviewed
<1>5. ASSUME NEW t \in Tickets, OnUploadReceived(t) PROVE JobReviewed(i)'
  <2>1. CASE StartProcessing(t)
    BY <1>0, <2>1, ReviewFramed DEF StartProcessing
  <2>2. CASE DiscardUpload(t)
    BY <1>0, <2>2, ReviewFramed DEF DiscardUpload
  <2> QED
    BY <1>5, <2>1, <2>2 DEF OnUploadReceived
<1>6. ASSUME NEW j, FailUnfinished(j), UNCHANGED <<staged, ledger, confirmed>>
      PROVE  JobReviewed(i)'
  BY <1>0, <1>6, ReviewFramed DEF FailUnfinished
<1>7. ASSUME NEW j \in Jobs, NEW v \in Verdicts, OnImportProcessed(j, v)
      PROVE  JobReviewed(i)'
  <2>1. CASE i = j /\ AcceptsResult(j) /\ v = "failed"
    <3>1. Rows(v) = {} /\ staged[i] = {}
      BY <1>0, <2>1 DEF Rows, AcceptsResult, JobReviewed
    <3>2. status'[i] = "failed" /\ staged'[i] = {}
      BY <1>7, <2>1, <3>1 DEF OnImportProcessed
    <3> QED
      BY <1>0, <1>7, <3>2 DEF OnImportProcessed, JobReviewed
  <2>2. CASE i = j /\ AcceptsResult(j) /\ v # "failed"
    <3>1. v \in Contents /\ Rows(v) = {v}
      BY <2>2 DEF Rows, Verdicts
    <3>2. status'[i] = "completed" /\ staged'[i] = {v}
      BY <1>0, <1>7, <2>2, <3>1 DEF OnImportProcessed, AcceptsResult, JobReviewed
    <3> QED
      BY <1>0, <1>7, <3>1, <3>2 DEF OnImportProcessed, JobReviewed
  <2>3. CASE i # j \/ ~AcceptsResult(j)
    BY <1>0, <1>7, <2>3, ReviewFramed DEF OnImportProcessed
  <2> QED
    BY <2>1, <2>2, <2>3
<1>8. ASSUME NEW s \in Sweeps, Reap(s) PROVE JobReviewed(i)'
  BY <1>0, <1>8, ReviewFramed DEF Reap, Overdue, Abandoned
<1>9. ASSUME UNCHANGED <<status, staged, ledger, confirmed>> PROVE JobReviewed(i)'
  BY <1>0, <1>9, ReviewFramed
<1>10. CASE Requests
  BY <1>10, <1>1, <1>2, <1>3, <1>4, <1>9 DEF Requests, ReuseJob, CreateDies, IssueTicket
<1>11. CASE Uploading
  BY <1>11, <1>5, <1>6, <1>9 DEF Uploading, AcceptUpload, OnUploadReceivedFailed
<1>12. CASE Analysing
  BY <1>12, <1>6, <1>7, <1>9
     DEF Analysing, Publish, ExtractGivesUp, Extract, OnImportProcessedFailed
<1>13. CASE Sweeping
  BY <1>13, <1>8, <1>9 DEF Sweeping, ListStuck, SweepStops, ResendStuck, TmpCleanup
<1>14. CASE KafkaLosesData
  BY <1>14, <1>9 DEF KafkaLosesData
<1>15. CASE Tick
  BY <1>15, <1>9 DEF Tick
<1>16. CASE UNCHANGED vars
  BY <1>16, <1>9 DEF vars
<1> QED
  BY <1>10, <1>11, <1>12, <1>13, <1>14, <1>15, <1>16 DEF Next

LEMMA ReviewInvariant == Spec => [](ReviewInv)
<1>1. Init => Reviewed
  BY DEF Init, Reviewed, JobReviewed
<1> QED
  BY TypeInvariant, ReviewNext, <1>1, PTL DEF Spec, ReviewInv

\* A job imports once and whole: whatever is redelivered, re-sent, lost or
\* reaped, the ledger got nothing from it, or one result of analytics once.
THEOREM ImportsOneResult == Spec => []ImportIsOneResult
<1>1. ReviewInv => ImportIsOneResult
  BY DEF ReviewInv, Reviewed, JobReviewed, ImportIsOneResult
<1> QED
  BY ReviewInvariant, <1>1, PTL
-----------------------------------------------------------------------------
(* Where no request is refused after it inserted its job: RefuseCreate      *)
(* deletes the job whatever became of it, a confirmed one included.         *)

\* What is confirmed stays completed, and two jobs with one key are never
\* both live.
KeysInv ==
  /\ \A j \in Jobs : confirmed[j] => status[j] = "completed"
  /\ \A i, j \in Jobs : i # j /\ key[i] = key[j] => status[i] \notin Live \/ status[j] \notin Live

\* A step that makes no job live, and confirms only what is completed and
\* unconfirms or moves nothing that is confirmed, keeps KeysInv.
LEMMA KeysFramed ==
  ASSUME KeysInv, UNCHANGED key,
         \A j \in Jobs : status'[j] \in Live => status[j] \in Live,
         \A j \in Jobs : confirmed'[j] => status'[j] = "completed"
  PROVE  KeysInv'
BY DEF KeysInv

LEMMA KeysNext ==
  ASSUME "refusal" \notin Faults
  PROVE  TypeInv /\ KeysInv /\ [Next]_vars => KeysInv'
<1> SUFFICES ASSUME TypeOK, IssuedUploads, KeysInv, [Next]_vars PROVE KeysInv'
  BY DEF TypeInv
<1> USE DEF TypeOK, RowsTyped
<1>1. ASSUME NEW j \in Jobs, CreateJob(j) PROVE KeysInv'
  BY <1>1 DEF CreateJob, KeysInv, Live
<1>2. ASSUME NEW j \in Jobs, Confirm(j) PROVE KeysInv'
  BY <1>2, KeysFramed DEF Confirm, Confirmable, KeysInv
<1>3. ASSUME NEW j \in Jobs, Discard(j) PROVE KeysInv'
  BY <1>3, KeysFramed DEF Discard, KeysInv, Live
<1>4. ASSUME NEW t \in Tickets, OnUploadReceived(t) PROVE KeysInv'
  <2>1. CASE StartProcessing(t)
    BY <2>1, KeysFramed DEF StartProcessing, KeysInv, Live
  <2>2. CASE DiscardUpload(t)
    BY <2>2, KeysFramed DEF DiscardUpload, KeysInv
  <2> QED
    BY <1>4, <2>1, <2>2 DEF OnUploadReceived
<1>5. ASSUME NEW j, FailUnfinished(j), UNCHANGED <<key, confirmed>> PROVE KeysInv'
  BY <1>5, KeysFramed DEF FailUnfinished, KeysInv, Live
<1>6. ASSUME NEW j \in Jobs, NEW v \in Verdicts, OnImportProcessed(j, v) PROVE KeysInv'
  BY <1>6, KeysFramed DEF OnImportProcessed, AcceptsResult, KeysInv, Live
<1>7. ASSUME NEW s \in Sweeps, Reap(s) PROVE KeysInv'
  BY <1>7, KeysFramed DEF Reap, Overdue, Abandoned, KeysInv, Live
<1>8. ASSUME UNCHANGED <<status, key, confirmed>> PROVE KeysInv'
  BY <1>8 DEF KeysInv
<1>9. CASE Requests
  BY <1>9, <1>1, <1>2, <1>3, <1>8
     DEF Requests, ReuseJob, RefuseCreate, CreateDies, IssueTicket
<1>10. CASE Uploading
  BY <1>10, <1>4, <1>5, <1>8 DEF Uploading, AcceptUpload, OnUploadReceivedFailed
<1>11. CASE Analysing
  BY <1>11, <1>5, <1>6, <1>8
     DEF Analysing, Publish, ExtractGivesUp, Extract, OnImportProcessedFailed
<1>12. CASE Sweeping
  BY <1>12, <1>7, <1>8 DEF Sweeping, ListStuck, SweepStops, ResendStuck, TmpCleanup
<1>13. CASE KafkaLosesData
  BY <1>13, <1>8 DEF KafkaLosesData
<1>14. CASE Tick
  BY <1>14, <1>8 DEF Tick
<1>15. CASE UNCHANGED vars
  BY <1>15, <1>8 DEF vars
<1> QED
  BY <1>9, <1>10, <1>11, <1>12, <1>13, <1>14, <1>15 DEF Next

LEMMA KeysInvariant ==
  ASSUME "refusal" \notin Faults
  PROVE  Spec => []KeysInv
<1>1. Init => KeysInv
  BY DEF Init, KeysInv, Live
<1> QED
  BY TypeInvariant, KeysNext, <1>1, PTL DEF Spec

\* A job that failed or was deleted has nothing staged and nothing imported:
\* a result that arrives late, or a second time, changes nothing of it.
THEOREM FailedImportsNothing ==
  ASSUME "refusal" \notin Faults
  PROVE  Spec => []OnlyCompletedHasRows
<1>1. ReviewInv /\ KeysInv => OnlyCompletedHasRows
  BY DEF ReviewInv, Reviewed, JobReviewed, KeysInv, OnlyCompletedHasRows
<1> QED
  BY ReviewInvariant, KeysInvariant, <1>1, PTL

\* A client that retries with the same Idempotency-Key imports at most one of
\* its jobs, however many failed and were tried again.
THEOREM KeyImportsOnce ==
  ASSUME "refusal" \notin Faults
  PROVE  Spec => []OneImportPerKey
<1>1. ReviewInv /\ KeysInv => OneImportPerKey
  BY DEF ReviewInv, Reviewed, JobReviewed, KeysInv, OneImportPerKey, Live
<1> QED
  BY ReviewInvariant, KeysInvariant, <1>1, PTL

-----------------------------------------------------------------------------
(* The re-send.                                                            *)

\* Before its upload nothing was queued for a job; without a re-send at most
\* once, with it at most twice; and a job listed for it was not re-sent.
ResendInv ==
  \A j \in Jobs :
    /\ status[j] \in {"none", "awaiting_upload"} => sends[j] = 0 /\ ~resent[j]
    /\ sends[j] <= IF resent[j] THEN 2 ELSE 1
    /\ \A s \in Sweeps : j \in stuck[s] => ~resent[j]

LEMMA ResendNext ==
  ASSUME \A s1, s2 \in Sweeps : s1 = s2
  PROVE  TypeInv /\ ResendInv /\ [Next]_vars => ResendInv'
<1> SUFFICES ASSUME TypeOK, IssuedUploads, ResendInv, [Next]_vars PROVE ResendInv'
  BY DEF TypeInv
<1> USE DEF TypeOK, RowsTyped, SweepsTyped
<1>1. ASSUME \A j \in Jobs : status'[j] \in {"none", "awaiting_upload"}
                              => status[j] \in {"none", "awaiting_upload"},
             UNCHANGED <<sends, resent, stuck>>
      PROVE  ResendInv'
  BY <1>1 DEF ResendInv
<1>2. ASSUME NEW t \in Tickets, OnUploadReceived(t) PROVE ResendInv'
  <2>1. CASE StartProcessing(t)
    <3>1. \A j \in Jobs : j = ticketJob[t] => sends[j] = 0 /\ sends'[j] = 1
      BY <2>1 DEF StartProcessing, EnqueueReady, ResendInv
    <3>2. \A j \in Jobs : j # ticketJob[t] => sends'[j] = sends[j] /\ status'[j] = status[j]
      BY <2>1 DEF StartProcessing, EnqueueReady
    <3>3. \A j \in Jobs : j = ticketJob[t] => status'[j] = "processing" /\ ~resent[j]
      BY <2>1 DEF StartProcessing, ResendInv
    <3>4. UNCHANGED <<resent, stuck>>
      BY <2>1 DEF StartProcessing
    <3> QED
      BY <3>1, <3>2, <3>3, <3>4 DEF ResendInv
  <2>2. CASE DiscardUpload(t)
    BY <1>1, <2>2 DEF DiscardUpload
  <2> QED
    BY <1>2, <2>1, <2>2 DEF OnUploadReceived
<1>3. ASSUME NEW s \in Sweeps, ListStuck(s) PROVE ResendInv'
  BY <1>3 DEF ListStuck, Stuck, ResendInv
<1>4. ASSUME NEW s \in Sweeps, SweepStops(s) PROVE ResendInv'
  BY <1>4 DEF SweepStops, ResendInv
<1>5. ASSUME NEW s \in Sweeps, NEW j \in Jobs, ResendStuck(s, j) PROVE ResendInv'
  <2>1. CASE status[j] = "processing"
    <3>1. ~resent[j] /\ sends[j] <= 1
      BY <1>5 DEF ResendStuck, ResendInv
    <3>2. sends'[j] = sends[j] + 1 /\ sends'[j] <= 2
      BY <1>5, <2>1, <3>1 DEF ResendStuck, EnqueueReady
    <3>3. resent'[j] /\ \A r \in Sweeps : j \notin stuck'[r]
      BY <1>5, <2>1 DEF ResendStuck
    <3>4. \A i \in Jobs : i # j => sends'[i] = sends[i] /\ resent'[i] = resent[i]
      BY <1>5, <2>1 DEF ResendStuck, EnqueueReady
    <3>5. UNCHANGED status /\ \A r \in Sweeps : stuck'[r] \subseteq stuck[r]
      BY <1>5 DEF ResendStuck
    <3> QED
      BY <2>1, <3>2, <3>3, <3>4, <3>5 DEF ResendInv
  <2>2. CASE status[j] # "processing"
    BY <1>5, <2>2 DEF ResendStuck, ResendInv
  <2> QED
    BY <2>1, <2>2
<1>6. CASE Requests
  BY <1>6, <1>1 DEF Requests, CreateJob, ReuseJob, RefuseCreate, CreateDies, IssueTicket,
     Confirm, Discard
<1>7. CASE Uploading
  BY <1>7, <1>1, <1>2 DEF Uploading, AcceptUpload, OnUploadReceivedFailed, FailUnfinished
<1>8. CASE Analysing
  BY ZenonT(30), <1>8, <1>1 DEF Analysing, Publish, ExtractGivesUp, Extract, OnImportProcessed,
     OnImportProcessedFailed, FailUnfinished
<1>9. CASE Sweeping
  BY <1>9, <1>1, <1>3, <1>4, <1>5 DEF Sweeping, Reap, TmpCleanup
<1>10. CASE KafkaLosesData
  BY <1>10, <1>1 DEF KafkaLosesData
<1>11. CASE Tick
  BY <1>11, <1>1 DEF Tick
<1>12. CASE UNCHANGED vars
  BY <1>12, <1>1 DEF vars
<1> QED
  BY <1>6, <1>7, <1>8, <1>9, <1>10, <1>11, <1>12 DEF Next

\* While only one run of the reaper is at work, import.ready is queued at
\* most twice for a job, however long it stays stuck.
THEOREM ResendsOnce ==
  ASSUME \A s1, s2 \in Sweeps : s1 = s2
  PROVE  Spec => []ResentOnce
<1>1. Init => ResendInv
  BY DEF Init, ResendInv
<1>2. TypeInv /\ ResendInv => ResentOnce
  BY DEF TypeInv, TypeOK, RowsTyped, ResendInv, ResentOnce
<1> QED
  BY TypeInvariant, ResendNext, <1>1, <1>2, PTL DEF Spec
-----------------------------------------------------------------------------
(* The bytes of a job.  Where upload.received comes once for a ticket, and   *)
(* the reaper's turn does not slip.                                         *)

\* A file is as old as its ticket at most, until the ticket expires; what
\* waits for its job is still there.
StoredInv ==
  /\ \A t \in objects : /\ ticketJob[t] # NoJob
                        /\ objAge[t] <= ticketAge[t] \/ ticketAge[t] = TicketTTL + Skew
  /\ uploads \subseteq posted
  /\ \A t \in uploads : Usable(t) => t \in objects
  /\ \A j \in Jobs : object[j] # NoTicket => ticketJob[object[j]] = j /\ object[j] \in used

\* The file of a job that is processing is there, no message is left that
\* would delete it, and it has not outlived ticket, threshold and sweep.
HeldFor(j) ==
  /\ object[j] \in objects /\ object[j] \in posted /\ object[j] \notin uploads
  /\ age[j] <= ReapAfter => objAge[object[j]] < TicketTTL + Skew + age[j]
  /\ objAge[object[j]] < TicketTTL + Skew + ReapAfter + sinceReap

Held == \A j \in Jobs : status[j] = "processing" => HeldFor(j)

BytesInv == TypeInv /\ StoredInv /\ Held

CalmFaults == {"redelivery", "repost", "late"} \cap Faults = {}

LEMMA CommittedIsGone ==
  ASSUME CalmFaults, NEW lane, NEW record
  PROVE  Committed(lane, record) = {lane \ {record}}
BY DEF CalmFaults, Committed

\* An object that stays keeps its age.
LEMMA AgesStay ==
  ASSUME TypeOK, ForgetAges, objects' \subseteq objects, UNCHANGED <<ticketJob, ticketAge>>,
         StoredInv
  PROVE  /\ \A t \in objects' : objAge'[t] = objAge[t]
         /\ \A t \in objects' : /\ ticketJob'[t] # NoJob
                                /\ objAge'[t] <= ticketAge'[t] \/ ticketAge'[t] = TicketTTL + Skew
<1>1. \A t \in objects' : t \in Tickets /\ objAge'[t] = objAge[t]
  BY DEF TypeOK, GatewayTyped, ForgetAges
<1> QED
  BY <1>1 DEF StoredInv

LEMMA StoredNext ==
  ASSUME CalmFaults
  PROVE  BytesInv /\ [Next]_vars => StoredInv'
<1> SUFFICES ASSUME TypeOK, IssuedUploads, StoredInv, Held, [Next]_vars PROVE StoredInv'
  BY DEF BytesInv, TypeInv
<1>0. /\ objects \subseteq Tickets /\ uploads \subseteq Tickets /\ used \subseteq Tickets
      /\ ticketJob \in [Tickets -> Jobs \cup {NoJob}] /\ object \in [Jobs -> Tickets \cup {NoTicket}]
      /\ ticketAge \in [Tickets -> TicketAges] /\ objAge \in [Tickets -> ObjectAges]
  BY DEF TypeOK, GatewayTyped, LanesTyped, TicketsTyped, RowsTyped
<1>1. ASSUME NEW j \in Jobs, NEW t \in Tickets, IssueTicket(j, t) PROVE StoredInv'
  <2>1. t \notin objects /\ t \notin uploads /\ \A i \in Jobs : object[i] # t
    BY <1>1, NamesAssumption DEF IssueTicket, StoredInv, IssuedUploads
  <2>2. /\ UNCHANGED <<objects, objAge, uploads, posted, used, object>>
        /\ \A u \in Tickets \ {t} : ticketJob'[u] = ticketJob[u] /\ ticketAge'[u] = ticketAge[u]
    BY <1>0, <1>1 DEF IssueTicket
  <2> QED
    BY <1>0, <2>1, <2>2 DEF StoredInv, Usable
<1>2. ASSUME NEW j \in Jobs, Discard(j) PROVE StoredInv'
  <2>1. /\ UNCHANGED <<ticketJob, ticketAge, uploads, posted, used, object>>
        /\ objects' \in AfterDelete(object[j]) /\ ForgetAges
    BY <1>2 DEF Discard
  <2>2. objects' \subseteq objects /\ \A t \in objects \ objects' : t = object[j]
    BY <2>1 DEF AfterDelete
  <2>3. \A t \in uploads : Usable(t) => t # object[j]
    BY <1>0, NamesAssumption DEF StoredInv, Usable
  <2> QED
    BY <2>1, <2>2, <2>3, AgesStay DEF StoredInv, Usable
<1>3. ASSUME NEW t \in Tickets, AcceptUpload(t) PROVE StoredInv'
  <2>1. /\ UNCHANGED <<ticketJob, ticketAge, used, object>> /\ objects' = objects \cup {t}
        /\ objAge' = [objAge EXCEPT ![t] = 0] /\ ticketJob[t] # NoJob
        /\ uploads' \subseteq uploads \cup {t} /\ uploads' \subseteq posted'
    BY <1>3 DEF AcceptUpload, StoredInv
  <2>2. objAge'[t] = 0 /\ ticketAge'[t] \in Nat
    BY <1>0, <2>1, TimesAssumption DEF TicketAges
  <2>3. objAge'[t] <= ticketAge'[t] /\ \A u \in objects : u # t => objAge'[u] = objAge[u]
    BY <1>0, <2>1, <2>2
  <2> QED
    BY <1>0, <2>1, <2>3 DEF StoredInv, Usable
<1>4. ASSUME NEW t \in Tickets, t \in uploads, uploads' = uploads \ {t}, StartProcessing(t)
      PROVE  StoredInv'
  <2>1. /\ UNCHANGED <<ticketJob, ticketAge, objects, objAge, posted>> /\ used' = used \cup {t}
        /\ object' = [object EXCEPT ![ticketJob[t]] = t]
    BY <1>4 DEF StartProcessing
  <2>2. \A i \in Jobs : object'[i] # NoTicket => ticketJob[object'[i]] = i /\ object'[i] \in used'
    BY <1>0, <2>1 DEF StoredInv
  <2> QED
    BY <1>4, <2>1, <2>2 DEF StoredInv, Usable
<1>5. ASSUME NEW t \in Tickets, t \in uploads, uploads' = uploads \ {t}, DiscardUpload(t)
      PROVE  StoredInv'
  <2>1. /\ UNCHANGED <<ticketJob, ticketAge, posted, object>> /\ used \subseteq used'
        /\ objects' \in AfterDelete(t) /\ ForgetAges
    BY <1>5 DEF DiscardUpload
  <2>2. objects' \subseteq objects /\ \A u \in objects \ objects' : u = t
    BY <2>1 DEF AfterDelete
  <2> QED
    BY <1>5, <2>1, <2>2, AgesStay DEF StoredInv, Usable
<1>6. ASSUME NEW j \in Jobs, NEW v \in Verdicts, OnImportProcessed(j, v) PROVE StoredInv'
  <2>1. /\ UNCHANGED <<ticketJob, ticketAge, uploads, posted, used, object>>
        /\ objects' \in AfterDelete(object[j]) \cup {objects} /\ ForgetAges
    BY <1>6 DEF OnImportProcessed
  <2>2. objects' \subseteq objects /\ \A t \in objects \ objects' : t = object[j]
    BY <2>1 DEF AfterDelete
  <2>3. \A t \in uploads : Usable(t) => t # object[j]
    BY <1>0, NamesAssumption DEF StoredInv, Usable
  <2> QED
    BY <2>1, <2>2, <2>3, AgesStay DEF StoredInv, Usable
<1>7. CASE TmpCleanup
  <2>1. /\ UNCHANGED <<ticketJob, ticketAge, uploads, posted, used, object>> /\ ForgetAges
        /\ objects' \subseteq objects /\ \A t \in objects \ objects' : objAge[t] > TmpMaxAge
    BY <1>7 DEF TmpCleanup, TmpExpired
  <2>2. ASSUME NEW t \in uploads, Usable(t) PROVE t \in objects'
    <3>1. t \in objects /\ ticketAge[t] < TicketTTL + Skew /\ objAge[t] <= ticketAge[t]
          /\ ticketAge[t] \in Nat /\ objAge[t] \in Nat
      BY <1>0, <2>2, TimesAssumption DEF StoredInv, Usable, TicketAges, ObjectAges
    <3> QED
      BY <2>1, <3>1, TimesAssumption
  <2> QED
    BY <2>1, <2>2, AgesStay DEF StoredInv, Usable
<1>8. CASE Tick
  <2>1. /\ UNCHANGED <<ticketJob, uploads, posted, used, object, objects>>
        /\ ticketAge' = [t \in Tickets |-> IF ticketJob[t] # NoJob
                                     THEN Older(ticketAge[t], TicketTTL + Skew) ELSE ticketAge[t]]
        /\ objAge' = [t \in Tickets |-> IF t \in objects
                                  THEN Older(objAge[t], TmpMaxAge + 1) ELSE objAge[t]]
    BY <1>8 DEF Tick
  <2>2. ASSUME NEW t \in objects
        PROVE  objAge'[t] <= ticketAge'[t] \/ ticketAge'[t] = TicketTTL + Skew
    <3>1. ticketAge[t] \in 0..(TicketTTL + Skew) /\ objAge[t] \in 0..(TmpMaxAge + 1) /\ t \in Tickets
      BY <1>0, <2>2 DEF TicketAges, ObjectAges
    <3>2. /\ ticketAge'[t] = Older(ticketAge[t], TicketTTL + Skew)
          /\ objAge'[t] = Older(objAge[t], TmpMaxAge + 1)
          /\ objAge[t] <= ticketAge[t] \/ ticketAge[t] = TicketTTL + Skew
      BY <2>1, <2>2, <3>1 DEF StoredInv
    <3> QED
      BY <3>1, <3>2, TimesAssumption DEF Older
  <2>3. ASSUME NEW t \in uploads, Usable(t)' PROVE Usable(t)
    <3>1. ticketAge[t] \in 0..(TicketTTL + Skew) /\ t \in Tickets
      BY <1>0, <2>3 DEF TicketAges
    <3> QED
      BY <2>1, <2>3, <3>1, TimesAssumption DEF Usable, Older
  <2> QED
    BY <2>1, <2>2, <2>3 DEF StoredInv
<1>9. ASSUME UNCHANGED <<ticketJob, ticketAge, objects, objAge, posted, used, object>>,
             uploads' \subseteq uploads
      PROVE  StoredInv'
  BY <1>9 DEF StoredInv, Usable
<1>10. CASE Requests
  BY <1>10, <1>1, <1>2, <1>9 DEF Requests, CreateJob, ReuseJob, RefuseCreate, CreateDies, Confirm
<1>11. CASE Uploading
  <2>1. ASSUME NEW t \in Tickets, OnUploadReceived(t) PROVE StoredInv'
    BY <2>1, <1>4, <1>5, CommittedIsGone DEF OnUploadReceived
  <2> QED
    BY <1>11, <2>1, <1>3, <1>9 DEF Uploading, OnUploadReceivedFailed
<1>12. CASE Analysing
  BY <1>12, <1>6, <1>9 DEF Analysing, Publish, ExtractGivesUp, Extract, OnImportProcessedFailed
<1>13. CASE Sweeping
  BY <1>13, <1>7, <1>9 DEF Sweeping, Reap, ListStuck, SweepStops, ResendStuck
<1>14. CASE KafkaLosesData
  BY <1>14, <1>9 DEF KafkaLosesData
<1>15. CASE UNCHANGED vars
  BY <1>15, <1>9 DEF vars
<1> QED
  BY <1>8, <1>10, <1>11, <1>12, <1>13, <1>14, <1>15 DEF Next

LEMMA HeldNext ==
  ASSUME CalmFaults
  PROVE  BytesInv /\ [Next]_vars => Held'
<1> SUFFICES ASSUME TypeOK, IssuedUploads, StoredInv, Held, [Next]_vars,
                    NEW i \in Jobs, status'[i] = "processing"
             PROVE  HeldFor(i)'
  BY DEF BytesInv, TypeInv, Held
<1>0. /\ objects \subseteq Tickets /\ uploads \subseteq Tickets /\ object[i] \in Tickets \cup {NoTicket}
      /\ status \in [Jobs -> Statuses] /\ age \in [Jobs -> JobAges] /\ age[i] \in 0..(ReapAfter + 1)
      /\ object \in [Jobs -> Tickets \cup {NoTicket}] /\ sinceReap \in 0..ReaperEvery
      /\ ticketJob \in [Tickets -> Jobs \cup {NoJob}] /\ objAge \in [Tickets -> ObjectAges]
      /\ ticketAge \in [Tickets -> TicketAges]
  BY DEF TypeOK, GatewayTyped, LanesTyped, TicketsTyped, RowsTyped, SweepsTyped, JobAges, SweepAges
<1>1. status[i] = "processing" => HeldFor(i) /\ object[i] \in Tickets
  BY <1>0 DEF Held, HeldFor
<1>2. ASSUME UNCHANGED <<ticketAge, objects, objAge, sinceReap, object>>, posted \subseteq posted',
             uploads' \subseteq uploads, status[i] = "processing", age'[i] = age[i]
      PROVE  HeldFor(i)'
  BY <1>1, <1>2 DEF HeldFor
<1>3. ASSUME NEW j \in Jobs, Discard(j) PROVE HeldFor(i)'
  <2>1. status[i] = "processing" /\ i # j /\ age'[i] = age[i]
    BY <1>0, <1>3 DEF Discard
  <2>2. object[i] # object[j] \/ object[j] = NoTicket
    BY <2>1 DEF StoredInv
  <2>3. UNCHANGED <<ticketAge, sinceReap, object, posted, uploads>>
        /\ objects' \in AfterDelete(object[j]) /\ ForgetAges
    BY <1>3 DEF Discard
  <2>4. object[i] \in objects'
    BY <1>1, <2>1, <2>2, <2>3, NamesAssumption DEF AfterDelete, HeldFor
  <2>5. objAge'[object[i]] = objAge[object[i]]
    BY <1>1, <2>1, <2>3, <2>4 DEF ForgetAges
  <2> QED
    BY <1>1, <2>1, <2>3, <2>4, <2>5 DEF HeldFor
<1>4. ASSUME NEW t \in Tickets, AcceptUpload(t) PROVE HeldFor(i)'
  <2>1. status[i] = "processing" /\ object[i] \in posted /\ UNCHANGED <<age, object, ticketAge, sinceReap>>
    BY <1>1, <1>4 DEF AcceptUpload, HeldFor
  <2>2. t \notin posted
    BY <1>4 DEF AcceptUpload, CalmFaults
  <2>3. /\ object[i] # t /\ object[i] \in objects' /\ object[i] \notin uploads'
        /\ object[i] \in posted' /\ objAge'[object[i]] = objAge[object[i]]
    BY <1>0, <1>1, <1>4, <2>1, <2>2 DEF AcceptUpload, HeldFor
  <2> QED
    BY <1>1, <2>1, <2>3 DEF HeldFor
<1>5. ASSUME NEW t \in Tickets, t \in uploads, uploads' = uploads \ {t}, StartProcessing(t)
      PROVE  HeldFor(i)'
  <2>1. CASE i = ticketJob[t]
    <3>1. /\ object'[i] = t /\ age'[i] = 0 /\ UNCHANGED <<objects, objAge, ticketAge, posted, sinceReap>>
      BY <1>0, <1>5, <2>1 DEF StartProcessing
    <3>2. /\ t \in objects /\ t \in posted /\ t \notin uploads'
          /\ ticketAge[t] < TicketTTL + Skew /\ objAge[t] <= ticketAge[t]
      BY <1>0, <1>5, TimesAssumption DEF StartProcessing, StoredInv, Usable, TicketAges
    <3>3. objAge[t] \in Nat /\ ticketAge[t] \in Nat
      BY <1>0, TimesAssumption DEF ObjectAges, TicketAges
    <3>4. objAge[t] < TicketTTL + Skew + 0 /\ objAge[t] < TicketTTL + Skew + ReapAfter + sinceReap
      BY <1>0, <3>2, <3>3, TimesAssumption
    <3> QED
      BY <3>1, <3>2, <3>4 DEF HeldFor
  <2>2. CASE i # ticketJob[t]
    <3>1. /\ status[i] = "processing" /\ object'[i] = object[i] /\ age'[i] = age[i]
          /\ UNCHANGED <<objects, objAge, ticketAge, posted, sinceReap>>
      BY <1>0, <1>5, <2>2 DEF StartProcessing
    <3> QED
      BY <1>1, <1>5, <3>1 DEF HeldFor
  <2> QED
    BY <2>1, <2>2
<1>6. ASSUME NEW t \in Tickets, t \in uploads, uploads' = uploads \ {t}, DiscardUpload(t)
      PROVE  HeldFor(i)'
  <2>1. /\ status[i] = "processing" /\ UNCHANGED <<age, object, ticketAge, sinceReap, posted>>
        /\ objects' \in AfterDelete(t) /\ ForgetAges
    BY <1>6 DEF DiscardUpload
  <2>2. object[i] # t
    BY <1>1, <1>6, <2>1 DEF HeldFor
  <2>3. object[i] \in objects'
    BY <1>1, <2>1, <2>2 DEF AfterDelete, HeldFor
  <2>4. objAge'[object[i]] = objAge[object[i]]
    BY <1>1, <2>1, <2>3 DEF ForgetAges
  <2> QED
    BY <1>1, <1>6, <2>1, <2>3, <2>4 DEF HeldFor
<1>7. ASSUME NEW j \in Jobs, NEW v \in Verdicts, OnImportProcessed(j, v) PROVE HeldFor(i)'
  <2>1. status[i] = "processing" /\ i # j /\ age'[i] = age[i]
    BY <1>0, <1>7 DEF OnImportProcessed, AcceptsResult
  <2>2. object[i] # object[j] \/ object[j] = NoTicket
    BY <2>1 DEF StoredInv
  <2>3. UNCHANGED <<ticketAge, sinceReap, object, posted, uploads>>
        /\ objects' \in AfterDelete(object[j]) \cup {objects} /\ ForgetAges
    BY <1>7 DEF OnImportProcessed
  <2>4. object[i] \in objects'
    BY <1>1, <2>1, <2>2, <2>3, NamesAssumption DEF AfterDelete, HeldFor
  <2>5. objAge'[object[i]] = objAge[object[i]]
    BY <1>1, <2>1, <2>3, <2>4 DEF ForgetAges
  <2> QED
    BY <1>1, <2>1, <2>3, <2>4, <2>5 DEF HeldFor
<1>8. ASSUME NEW s \in Sweeps, Reap(s) PROVE HeldFor(i)'
  <2>1. /\ status[i] = "processing" /\ ~ Overdue(i) /\ ~ Abandoned(i)
    BY <1>8 DEF Reap, Abandoned
  <2>2. /\ age'[i] = age[i] /\ sinceReap' = 0
        /\ UNCHANGED <<object, objects, objAge, posted, uploads, ticketAge>>
    BY <1>8, <2>1 DEF Reap
  <2>3. age[i] <= ReapAfter
    BY <1>0, <2>1, TimesAssumption DEF Overdue
  <2>4. objAge[object[i]] < TicketTTL + Skew + age[i] /\ objAge[object[i]] \in Nat
    BY <1>0, <1>1, <2>1, <2>3 DEF HeldFor, ObjectAges
  <2>5. objAge[object[i]] < TicketTTL + Skew + ReapAfter + 0
    BY <1>0, <2>3, <2>4, TimesAssumption
  <2> QED
    BY <1>1, <2>1, <2>2, <2>4, <2>5 DEF HeldFor
<1>9. CASE TmpCleanup
  <2>1. /\ status[i] = "processing" /\ UNCHANGED <<age, object, posted, uploads, ticketAge, sinceReap>>
        /\ ForgetAges /\ \A t \in objects \ objects' : objAge[t] > TmpMaxAge
    BY <1>9 DEF TmpCleanup, TmpExpired
  <2>2. objAge[object[i]] < TicketTTL + Skew + ReapAfter + sinceReap /\ objAge[object[i]] \in Nat
    BY <1>0, <1>1, <2>1 DEF HeldFor, ObjectAges
  <2>3. object[i] \in objects'
    BY <1>0, <1>1, <2>1, <2>2, TimesAssumption DEF HeldFor
  <2>4. objAge'[object[i]] = objAge[object[i]]
    BY <1>1, <2>1, <2>3 DEF ForgetAges
  <2> QED
    BY <1>1, <2>1, <2>3, <2>4 DEF HeldFor
<1>10. CASE Tick
  <2>1. /\ status[i] = "processing" /\ UNCHANGED <<object, posted, uploads, objects>>
    BY <1>10 DEF Tick
  <2>2. sinceReap' = sinceReap + 1
    BY <1>0, <1>10 DEF Tick, Older, CalmFaults
  <2>3. age'[i] = Older(age[i], ReapAfter + 1)
    BY <1>0, <1>10, <2>1 DEF Tick
  <2>4. objAge'[object[i]] = Older(objAge[object[i]], TmpMaxAge + 1)
        /\ objAge[object[i]] \in 0..(TmpMaxAge + 1)
    BY <1>0, <1>1, <1>10, <2>1 DEF Tick, HeldFor, ObjectAges
  <2> DEFINE o == objAge[object[i]]
             p == objAge'[object[i]]
  <2>5. /\ age[i] <= ReapAfter => o < TicketTTL + Skew + age[i]
        /\ o < TicketTTL + Skew + ReapAfter + sinceReap
    BY <1>1, <2>1 DEF HeldFor
  <2>6. p \in Nat /\ p <= o + 1 /\ o \in Nat
    BY <2>4, TimesAssumption DEF Older
  <2>7. age'[i] <= ReapAfter => age'[i] = age[i] + 1 /\ age[i] <= ReapAfter
    BY <1>0, <2>3, TimesAssumption DEF Older
  <2> HIDE DEF o, p
  <2>8. /\ age'[i] <= ReapAfter => p < TicketTTL + Skew + age'[i]
        /\ p < TicketTTL + Skew + ReapAfter + sinceReap'
    BY <1>0, <2>2, <2>5, <2>6, <2>7, TimesAssumption
  <2> QED
    BY <1>1, <2>1, <2>8 DEF HeldFor, o, p
<1>11. ASSUME NEW j, FailUnfinished(j),
              UNCHANGED <<ticketAge, objects, objAge, sinceReap, object, posted>>,
              uploads' \subseteq uploads
       PROVE  HeldFor(i)'
  <2>1. status[i] = "processing" /\ age'[i] = age[i]
    BY <1>0, <1>11 DEF FailUnfinished
  <2> QED
    BY <1>2, <1>11, <2>1
<1>12. CASE Requests
  <2>1. ASSUME NEW j \in Jobs, CreateJob(j) \/ RefuseCreate(j) PROVE HeldFor(i)'
    <3>1. status[i] = "processing" /\ age'[i] = age[i]
      BY <1>0, <2>1 DEF CreateJob, RefuseCreate
    <3> QED
      BY <1>2, <2>1, <3>1 DEF CreateJob, RefuseCreate
  <2>2. ASSUME NEW j \in Jobs, NEW t \in Tickets, IssueTicket(j, t) PROVE HeldFor(i)'
    BY <1>1, <2>2 DEF IssueTicket, HeldFor
  <2> QED
    BY <1>12, <1>2, <1>3, <2>1, <2>2 DEF Requests, ReuseJob, CreateDies, Confirm
<1>13. CASE Uploading
  <2>1. ASSUME NEW t \in Tickets, OnUploadReceived(t) PROVE HeldFor(i)'
    BY <2>1, <1>5, <1>6, CommittedIsGone DEF OnUploadReceived
  <2> QED
    BY <1>13, <2>1, <1>4, <1>11 DEF Uploading, OnUploadReceivedFailed
<1>14. CASE Analysing
  BY <1>14, <1>2, <1>7, <1>11 DEF Analysing, Publish, ExtractGivesUp, Extract, OnImportProcessedFailed
<1>15. CASE Sweeping
  BY <1>15, <1>2, <1>8, <1>9 DEF Sweeping, ListStuck, SweepStops, ResendStuck
<1>16. CASE KafkaLosesData
  BY <1>16, <1>2 DEF KafkaLosesData
<1>17. CASE UNCHANGED vars
  BY <1>17, <1>2 DEF vars
<1> QED
  BY <1>10, <1>12, <1>13, <1>14, <1>15, <1>16, <1>17 DEF Next

\* While a job is processing, its file is in tmp/: the cleanup's hour is
\* longer than the ticket, the reaper's threshold and its period together,
\* for any of those durations and whatever is lost, fails or is refused, as
\* long as a ticket is posted once, its message comes once, and the reaper's
\* turn does not slip.
THEOREM BytesAreHeld ==
  ASSUME CalmFaults
  PROVE  Spec => []BytesHeldWhileProcessing
<1>1. Init => BytesInv
  BY TypeInit DEF BytesInv, TypeInv, Init, IssuedUploads, StoredInv, Held
<1>2. BytesInv /\ [Next]_vars => BytesInv'
  BY TypeNext, IssuedNext, StoredNext, HeldNext DEF BytesInv, TypeInv
<1>3. BytesInv => BytesHeldWhileProcessing
  BY DEF BytesInv, Held, HeldFor, BytesHeldWhileProcessing
<1> QED
  BY <1>1, <1>2, <1>3, PTL DEF Spec

-----------------------------------------------------------------------------
(* The pipeline implements the lifecycle an import promises.               *)

\* A step that moves no job between phases and touches neither its rows nor
\* its ledger is a stutter of the lifecycle.
LEMMA Stutters ==
  ASSUME UNCHANGED <<status, confirmed, staged, ledger>>
  PROVE  UNCHANGED Lifecycle!vars
BY DEF Lifecycle!vars, phase

\* A step that moves one unconfirmed job to another status, and confirms
\* nothing, moves one job of the lifecycle.
LEMMA Moves ==
  ASSUME TypeOK, NEW j \in Jobs, NEW from, NEW to, ~confirmed[j], status[j] \in from,
         status' = [status EXCEPT ![j] = to], UNCHANGED confirmed
  PROVE  Lifecycle!Move(j, from, to)
<1>1. phase[j] \in from
  BY DEF phase
<1>2. phase' = [phase EXCEPT ![j] = to]
  BY DEF phase, TypeOK, RowsTyped
<1> QED
  BY <1>1, <1>2 DEF Lifecycle!Move

LEMMA LifecycleStep ==
  ASSUME "refusal" \notin Faults
  PROVE  ReviewInv /\ KeysInv /\ [Next]_vars => [Lifecycle!Next]_(Lifecycle!vars)
<1> SUFFICES ASSUME TypeOK, IssuedUploads, Reviewed, KeysInv, [Next]_vars
             PROVE  Lifecycle!Next \/ UNCHANGED Lifecycle!vars
  BY DEF ReviewInv, TypeInv
<1> DEFINE Step == Lifecycle!Next \/ UNCHANGED Lifecycle!vars
<1>0. TypeOK /\ \A j \in Jobs : confirmed[j] => status[j] = "completed"
  BY DEF KeysInv
<1>1. ASSUME NEW j \in Jobs, CreateJob(j) PROVE Step
  <2>1. Lifecycle!Move(j, {"none"}, "awaiting_upload")
    BY <1>0, <1>1, Moves DEF CreateJob
  <2> QED
    BY <1>1, <2>1 DEF CreateJob, Lifecycle!Create, Lifecycle!Next
<1>2. ASSUME NEW j \in Jobs, Confirm(j) PROVE Step
  <2>1. ledger[j] = <<>> /\ status[j] = "completed" /\ ~confirmed[j]
    BY <1>2 DEF Confirm, Confirmable, Reviewed, JobReviewed
  <2>2. Append(ledger[j], staged[j]) = <<staged[j]>>
    BY <2>1
  <2>3. ledger' = [ledger EXCEPT ![j] = <<staged[j]>>]
    BY <1>2, <2>2 DEF Confirm
  <2>4. phase' = [phase EXCEPT ![j] = "imported"]
    BY <1>0, <1>2 DEF Confirm, phase, TypeOK, RowsTyped
  <2>5. Lifecycle!Move(j, {"completed"}, "imported")
    BY <2>1, <2>4 DEF phase, Lifecycle!Move
  <2> QED
    BY <1>2, <2>3, <2>5 DEF Confirm, Lifecycle!Import, Lifecycle!Next
<1>3. ASSUME NEW j \in Jobs, Discard(j) PROVE Step
  <2>1. Lifecycle!Move(j, {"awaiting_upload", "processing", "completed", "failed"}, "deleted")
    BY <1>0, <1>3, Moves DEF Discard, Live
  <2> QED
    BY <1>3, <2>1 DEF Discard, Lifecycle!Delete, Lifecycle!Next
<1>4. ASSUME NEW t \in Tickets, OnUploadReceived(t) PROVE Step
  <2>1. CASE StartProcessing(t)
    <3> DEFINE j == ticketJob[t]
    <3>1. j \in Jobs
      BY <1>4 DEF OnUploadReceived, IssuedUploads, TypeOK, TicketsTyped
    <3>2. ~confirmed[j] /\ status[j] \in {"awaiting_upload"} /\ UNCHANGED confirmed
      BY <1>0, <2>1, <3>1 DEF StartProcessing
    <3>3. status' = [status EXCEPT ![j] = "processing"]
      BY <2>1 DEF StartProcessing
    <3>4. Lifecycle!Move(j, {"awaiting_upload"}, "processing")
      BY <1>0, <3>1, <3>2, <3>3, Moves
    <3>5. UNCHANGED <<staged, ledger>>
      BY <2>1 DEF StartProcessing
    <3> QED
      BY <3>1, <3>4, <3>5 DEF Lifecycle!Start, Lifecycle!Next
  <2>2. CASE DiscardUpload(t)
    BY <2>2, Stutters DEF DiscardUpload
  <2> QED
    BY <1>4, <2>1, <2>2 DEF OnUploadReceived
<1>5. ASSUME NEW j \in Jobs, FailUnfinished(j), UNCHANGED <<staged, ledger, confirmed>>
      PROVE  Step
  <2>1. CASE UNCHANGED status
    BY <1>5, <2>1, Stutters
  <2>2. CASE ~UNCHANGED status
    <3>1. Lifecycle!Move(j, {"awaiting_upload", "processing"}, "failed")
      BY <1>0, <1>5, <2>2, Moves DEF FailUnfinished
    <3> QED
      BY <1>5, <3>1 DEF Lifecycle!Fail, Lifecycle!Next
  <2> QED
    BY <2>1, <2>2
<1>6. ASSUME NEW t \in Tickets, OnUploadReceivedFailed(t) PROVE Step
  <2>1. ticketJob[t] \in Jobs
    BY <1>6 DEF OnUploadReceivedFailed, IssuedUploads, TypeOK, TicketsTyped
  <2> QED
    BY <1>5, <1>6, <2>1 DEF OnUploadReceivedFailed
<1>7. ASSUME NEW j \in Jobs, NEW v \in Verdicts, OnImportProcessed(j, v) PROVE Step
  <2>1. CASE AcceptsResult(j) /\ v = "failed"
    <3>1. Rows(v) = {}
      BY <2>1 DEF Rows
    <3>2. UNCHANGED <<staged, ledger>>
      BY ZenonT(30), <1>7, <2>1, <3>1 DEF OnImportProcessed, TypeOK, ReviewTyped
    <3>3. Lifecycle!Move(j, {"awaiting_upload", "processing"}, "failed")
      BY <1>0, <1>7, <2>1, Moves DEF OnImportProcessed, AcceptsResult
    <3> QED
      BY <3>2, <3>3 DEF Lifecycle!Fail, Lifecycle!Next
  <2>2. CASE AcceptsResult(j) /\ v # "failed"
    <3>1. v \in Contents /\ Rows(v) = {v} /\ staged[j] = {}
      BY <2>2 DEF Rows, Verdicts, AcceptsResult, Reviewed, JobReviewed
    <3>2. staged' = [staged EXCEPT ![j] = {v}] /\ UNCHANGED ledger
      BY <1>7, <2>2, <3>1 DEF OnImportProcessed
    <3>3. Lifecycle!Move(j, {"processing"}, "completed")
      BY <1>0, <1>7, <2>2, Moves DEF OnImportProcessed, AcceptsResult
    <3> QED
      BY <3>1, <3>2, <3>3 DEF Lifecycle!Complete, Lifecycle!Next
  <2>3. CASE ~AcceptsResult(j)
    BY <1>7, <2>3, Stutters DEF OnImportProcessed
  <2> QED
    BY <2>1, <2>2, <2>3
<1>8. ASSUME NEW s \in Sweeps, Reap(s) PROVE Step
  <2> DEFINE late == {j \in Jobs : Overdue(j)}
             absent == {j \in Jobs : Abandoned(j)}
  <2>1. phase' = [j \in Jobs |-> IF j \in late THEN "failed"
                                 ELSE IF j \in absent THEN "deleted" ELSE phase[j]]
    BY <1>0, <1>8 DEF Reap, phase, Overdue, Abandoned
  <2>2. /\ \A j \in late : phase[j] = "processing"
        /\ \A j \in absent : phase[j] = "awaiting_upload"
    BY <1>0 DEF phase, Overdue, Abandoned
  <2>3. Lifecycle!GiveUp(late, absent)
    BY <1>8, <2>1, <2>2 DEF Reap, Lifecycle!GiveUp
  <2>4. late \in SUBSET Jobs /\ absent \in SUBSET Jobs
    OBVIOUS
  <2> QED
    BY <2>3, <2>4 DEF Lifecycle!Next
<1>9. CASE Requests
  BY <1>9, <1>1, <1>2, <1>3, Stutters
     DEF Requests, ReuseJob, RefuseCreate, CreateDies, IssueTicket
<1>10. CASE Uploading
  BY <1>10, <1>4, <1>6, Stutters DEF Uploading, AcceptUpload
<1>11. CASE Analysing
  BY <1>11, <1>5, <1>7, Stutters
     DEF Analysing, Publish, ExtractGivesUp, Extract, OnImportProcessedFailed
<1>12. CASE Sweeping
  BY <1>12, <1>8, Stutters DEF Sweeping, ListStuck, SweepStops, ResendStuck, TmpCleanup
<1>13. CASE KafkaLosesData
  BY <1>13, Stutters DEF KafkaLosesData
<1>14. CASE Tick
  BY <1>14, Stutters DEF Tick
<1>15. CASE UNCHANGED vars
  BY <1>15, Stutters DEF vars
<1> QED
  BY <1>9, <1>10, <1>11, <1>12, <1>13, <1>14, <1>15 DEF Next

\* Every behaviour of the three services, over lanes that lose, repeat and
\* reorder, is one of the lifecycle: a job goes one way to one end, and its
\* rows reach the ledger once and all together.
THEOREM FollowsLifecycle ==
  ASSUME "refusal" \notin Faults
  PROVE  Spec => ImplementsLifecycle
<1>1. Init => Lifecycle!Init
  BY DEF Init, Lifecycle!Init, phase
<1> QED
  BY ReviewInvariant, KeysInvariant, LifecycleStep, <1>1, PTL
     DEF Spec, ImplementsLifecycle, Lifecycle!Spec
=============================================================================
