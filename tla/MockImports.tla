----------------------------- MODULE MockImports -----------------------------
(***************************************************************************)
(* The in-app mock server's imports and bank links (app/api/mock/v1): the  *)
(* two-step upload with its tickets and Idempotency-Keys, jobs that finish *)
(* when somebody polls them, the staged review, manual and automatic       *)
(* commits to the ledger, the life of a bank link, and the purge grace     *)
(* that makes the ledger read-only.  Handlers run to completion one at a   *)
(* time; the state below is the process's memory.                          *)
(***************************************************************************)
EXTENDS Naturals, FiniteSets

CONSTANTS Jobs,        \* bound: jobs created, in this order; a set 1..n
          Links, Keys,
          CleanSyncs   \* manual confirms that open auto-confirm: 3 in the code

ASSUME MockImportsAssumption ==
  /\ IsFiniteSet(Jobs) /\ Jobs = 1..Cardinality(Jobs)
  /\ CleanSyncs \in Nat /\ "none" \notin Links /\ "none" \notin Keys

VARIABLES job,       \* db.importJobs, db.jobLinks, and the ticket of a draft
          staged,    \* db.stagedTxns
          included,  \* rows with include_duplicate
          ledger,    \* db.transactions, the rows that came from a job
          link,      \* db.bankLinks
          limited,   \* links inside the window of db.lastManualSync
          purge,     \* db.purgeRequest
          manual,    \* history: manual confirms of clean syncs per link
          purged     \* history: links removed with their transactions

mockImportsVars ==
  <<job, staged, included, ledger, link, limited, purge, manual, purged>>

\* A ticket is live before, at the edge exactly on, and expired after its
\* expiresAt.  A file's outcome is what its name makes the mock answer.
TicketAges == {"live", "edge", "expired"}
Outcomes == {"rows", "empty", "failed"}
Unborn == [status |-> "none", ticket |-> "none", key |-> "none", link |-> "none",
           outcome |-> "rows", confirmed |-> FALSE]

\* Two rows stand for the eighteen: bank feeds are clean, of an upload the
\* second row is a flagged duplicate.
RowsOf(j) == {<<j, 1>>, <<j, 2>>}
Duplicate(r) == job[r[1]].link = "none" /\ r[2] = 2

Unlinked(s) == [status |-> s, auto |-> FALSE]
KnownLink(l) == link[l].status \notin {"none", "gone"}

\* The seed's links; one that auto-confirms has earned it in the seed's past.
Seeds == {Unlinked(s) : s \in {"none", "active", "reauth_required"}}
         \cup {[status |-> "active", auto |-> TRUE]}

MockImportsInit ==
  /\ job = [j \in Jobs |-> Unborn]
  /\ staged = {} /\ included = {} /\ ledger = {}
  /\ link \in [Links -> Seeds]
  /\ limited = {} /\ purge = "none"
  /\ manual = [l \in Links |-> IF link[l].auto THEN CleanSyncs ELSE 0]
  /\ purged = {}

\* writeBlocked
Writable == purge # "pending"
IsNext(j) == job[j].status = "none" /\ \A i \in Jobs : i < j => job[i].status # "none"
Exists(j) == job[j].status \in {"processing", "completed", "failed"}

-----------------------------------------------------------------------------
(* Imports                                                                 *)

\* The key finds a live ticket or a job that has not failed.
Replayed(k) == \E j \in Jobs :
  /\ job[j].key = k
  /\ job[j].ticket = "live" \/ job[j].status \in {"processing", "completed"}

CreateImport(j, k, o) ==
  /\ Writable /\ IsNext(j) /\ ~ Replayed(k)
  /\ job' = [i \in Jobs |->
       IF i = j THEN [Unborn EXCEPT !.status = "draft", !.ticket = "live",
                                    !.key = k, !.outcome = o]
       ELSE IF job[i].key = k /\ job[i].status = "failed"
            THEN [job[i] EXCEPT !.key = "none"] ELSE job[i]]
  /\ UNCHANGED <<staged, included, ledger, link, limited, purge, manual, purged>>

\* POST /uploads: takeTicket spends the ticket whatever follows; a bad file
\* leaves no job.  db.idempotency keeps the last upload of a key.  No purge
\* check here: nothing of the ledger is written.
Accepted(j) ==
  [i \in Jobs |->
     IF i = j THEN [job[j] EXCEPT !.ticket = "none", !.status = "processing"]
     ELSE IF job[i].key = job[j].key /\ Exists(i)
          THEN [job[i] EXCEPT !.key = "none"] ELSE job[i]]

Upload(j, good) ==
  /\ job[j].status = "draft" /\ job[j].ticket \in TicketAges
  /\ job' = IF good /\ job[j].ticket # "expired" THEN Accepted(j)
            ELSE [job EXCEPT ![j].ticket = "none", ![j].status = "gone"]
  /\ UNCHANGED <<staged, included, ledger, link, limited, purge, manual, purged>>

TicketAgesOn(j) ==
  /\ job[j].ticket \in {"live", "edge"}
  /\ job' = [job EXCEPT ![j].ticket = IF @ = "live" THEN "edge" ELSE "expired"]
  /\ UNCHANGED <<staged, included, ledger, link, limited, purge, manual, purged>>

\* Slip: a pending purge is not looked at.
AutoCommitsAlways(j) ==
  LET l == job[j].link IN l # "none" /\ link[l].auto

\* The first poll after PROCESSING_MS finishes the job.  A bank feed goes to
\* the ledger when its link auto-confirms and no purge is pending.
AutoCommits(j) ==
  LET l == job[j].link IN l # "none" /\ link[l].auto /\ Writable

PollMockJob(j) ==
  LET o == IF job[j].link # "none" THEN "rows" ELSE job[j].outcome IN
  /\ job[j].status = "processing"
  /\ job' = [job EXCEPT ![j].status = IF o = "failed" THEN "failed" ELSE "completed",
                        ![j].confirmed = AutoCommits(j)]
  /\ ledger' = IF AutoCommits(j) THEN ledger \cup RowsOf(j) ELSE ledger
  /\ staged' = IF o = "rows" /\ ~ AutoCommits(j) THEN staged \cup RowsOf(j) ELSE staged
  /\ UNCHANGED <<included, link, limited, purge, manual, purged>>

SetInclude(r) ==
  /\ Writable /\ r \in staged
  /\ included' = IF r \in included THEN included \ {r} ELSE included \cup {r}
  /\ UNCHANGED <<job, staged, ledger, link, limited, purge, manual, purged>>

Imported(j) == {r \in staged \cap RowsOf(j) : ~ Duplicate(r) \/ r \in included}

ConfirmJob(j) ==
  /\ Writable /\ job[j].status = "completed" /\ ~ job[j].confirmed
  /\ job' = [job EXCEPT ![j].confirmed = TRUE]
  /\ ledger' = ledger \cup Imported(j)
  /\ staged' = staged \ RowsOf(j)
  /\ manual' = IF job[j].link = "none" THEN manual
               ELSE [manual EXCEPT ![job[j].link] = @ + 1]
  /\ UNCHANGED <<included, link, limited, purge, purged>>

\* DELETE /import/{id}: staging and summary go, a confirmed job's rows stay.
DiscardJob(j) ==
  /\ Writable /\ Exists(j)
  /\ job' = [job EXCEPT ![j].status = "gone"]
  /\ staged' = staged \ RowsOf(j)
  /\ UNCHANGED <<included, ledger, link, limited, purge, manual, purged>>

-----------------------------------------------------------------------------
(* Bank links                                                              *)

CreateLink(l) ==
  /\ Writable /\ link[l].status = "none"
  /\ link' = [link EXCEPT ![l] = Unlinked("pending")]
  /\ UNCHANGED <<job, staged, included, ledger, limited, purge, manual, purged>>

\* The mock gives every exchanged link the same account, so a second one is
\* already_linked.
ExchangeLink(l) ==
  /\ Writable /\ KnownLink(l)
  /\ \A k \in Links \ {l} : link[k].status \in {"none", "gone", "pending"}
  /\ link' = [link EXCEPT ![l].status = "active"]
  /\ UNCHANGED <<job, staged, included, ledger, limited, purge, manual, purged>>

PauseOrResume(l) ==
  /\ Writable /\ link[l].status \in {"active", "paused"}
  /\ link' = [link EXCEPT ![l].status = IF @ = "active" THEN "paused" ELSE "active"]
  /\ UNCHANGED <<job, staged, included, ledger, limited, purge, manual, purged>>

\* Confirmed bank syncs of the link that are still on record; the mock's bank
\* syncs have neither duplicates nor anomalies.
OnRecord(l) == {j \in Jobs : Exists(j) /\ job[j].link = l /\ job[j].confirmed}

SetAutoConfirm(l, on) ==
  /\ Writable /\ KnownLink(l)
  /\ on /\ ~ link[l].auto => Cardinality(OnRecord(l)) >= CleanSyncs
  /\ link' = [link EXCEPT ![l].auto = on]
  /\ UNCHANGED <<job, staged, included, ledger, limited, purge, manual, purged>>

Sync(l, j) ==
  /\ Writable /\ IsNext(j)
  /\ link[l].status \in {"active", "pending"} /\ l \notin limited
  /\ limited' = limited \cup {l}
  /\ job' = [job EXCEPT ![j] = [Unborn EXCEPT !.status = "processing", !.link = l]]
  /\ UNCHANGED <<staged, included, ledger, link, purge, manual, purged>>

WindowEnds(l) ==
  /\ l \in limited
  /\ limited' = limited \ {l}
  /\ UNCHANGED <<job, staged, included, ledger, link, purge, manual, purged>>

\* Slip: only the confirmed jobs of the link.
ConfirmedOf(l) == {j \in Jobs : job[j].link = l /\ job[j].confirmed}

FromLink(l) == {j \in Jobs : job[j].link = l}

\* DELETE with ?purge=true takes the link's transactions, its unconfirmed
\* jobs and their staging, and the jobs' tie to the link.
Unlink(l, withRows) ==
  /\ Writable /\ KnownLink(l)
  /\ link' = [link EXCEPT ![l] = Unlinked("gone")]
  /\ IF withRows
     THEN /\ ledger' = {r \in ledger : r[1] \notin FromLink(l)}
          /\ staged' = {r \in staged : r[1] \notin FromLink(l)}
          /\ job' = [j \in Jobs |->
               IF j \notin FromLink(l) \/ ~ Exists(j) \/ job[j].confirmed THEN job[j]
               ELSE [job[j] EXCEPT !.status = "gone"]]
          /\ purged' = purged \cup {l}
     ELSE UNCHANGED <<ledger, staged, job, purged>>
  /\ UNCHANGED <<included, limited, purge, manual>>

-----------------------------------------------------------------------------
(* account/purge                                                           *)

RequestPurge ==
  /\ purge # "pending"
  /\ purge' = "pending"
  /\ UNCHANGED <<job, staged, included, ledger, link, limited, manual, purged>>

CancelPendingPurge ==
  /\ purge = "pending"
  /\ purge' = "cancelled"
  /\ UNCHANGED <<job, staged, included, ledger, link, limited, manual, purged>>

MockImportsNext ==
  \/ \E j \in Jobs :
       \/ \E k \in Keys, o \in Outcomes : CreateImport(j, k, o)
       \/ \E good \in BOOLEAN : Upload(j, good)
       \/ TicketAgesOn(j) \/ PollMockJob(j) \/ ConfirmJob(j) \/ DiscardJob(j)
       \/ \E r \in RowsOf(j) : SetInclude(r)
  \/ \E l \in Links :
       \/ CreateLink(l) \/ ExchangeLink(l) \/ PauseOrResume(l) \/ WindowEnds(l)
       \/ \E on \in BOOLEAN : SetAutoConfirm(l, on)
       \/ \E j \in Jobs : Sync(l, j)
       \/ \E withRows \in BOOLEAN : Unlink(l, withRows)
  \/ RequestPurge \/ CancelPendingPurge

MockImportsSpec == MockImportsInit /\ [][MockImportsNext]_mockImportsVars

-----------------------------------------------------------------------------

MockImportsTypeOK ==
  /\ \A j \in Jobs : job[j].link \in Links \cup {"none"}
                     /\ job[j].ticket \in TicketAges \cup {"none"}
  /\ staged \subseteq UNION {RowsOf(j) : j \in Jobs}
  /\ ledger \subseteq UNION {RowsOf(j) : j \in Jobs}
  /\ purge \in {"none", "pending", "cancelled"}

\* While a purge is pending nothing changes the ledger, not even a poll that
\* finishes an auto-confirmed sync (flows/rights.md; the completer of
\* import/[jobId]/route.ts).
LedgerFrozenDuringPurge ==
  [][purge = "pending" => ledger' = ledger]_mockImportsVars

\* The rows of a job enter the ledger together, in the step that confirms the
\* job, whether by the review or by auto-confirm (confirm/route.ts).
JobCommitsOnce ==
  [][\A j \in Jobs : (ledger' \ ledger) \cap RowsOf(j) # {}
       => ~ job[j].confirmed /\ job'[j].confirmed]_mockImportsVars

\* After an unlink with purge nothing of the link is in the ledger or can
\* still be confirmed into it (bank-links/[id]/route.ts, DELETE).
PurgedLinkLeavesNothing ==
  \A r \in ledger \cup staged : job[r[1]].link \notin purged

\* A link commits without review only after that many manual confirms
\* (flows/import.md section 5; bank-links/[id]/route.ts, PATCH).
AutoConfirmEarned == \A l \in Links : link[l].auto => manual[l] >= CleanSyncs
=============================================================================
