---------------------------- MODULE StagedReview ----------------------------
(***************************************************************************)
(* The staged review of one completed job in the web client                *)
(* (JobDetailView, useImportsController): the table with the rows of the   *)
(* server's answers, the corrections sent per row, and the commit.  One    *)
(* clean row and one flagged duplicate stand for the job.  A correction    *)
(* answers with the whole row, so each answer replaces all of it.          *)
(***************************************************************************)
EXTENDS Naturals, Sequences, FiniteSets, SequencesExt

CONSTANTS ReviewFaults, \* of "lost" (a request fails) and "overtaken"
          MaxEdits      \* bound: corrections the user makes

ASSUME StagedReviewAssumption ==
  ReviewFaults \subseteq {"lost", "overtaken"} /\ MaxEdits \in Nat

VARIABLES
  screen,    \* what JobDetailView renders
  committing,
  reincluded,     \* staged: is the duplicate shown as re-included
  kept,      \* does the server hold it as re-included
  puts, acks,\* corrections and their answers on their way, in order
  dropping,  \* discardDuplicates waits for its correction
  stagedJob, \* the server's job: "staged", "committed", "gone"
  imported,  \* rows the commit wrote to the ledger
  promise,   \* history: the rows "Import N" counted, if nothing was on its way
  asked,     \* history: the user ticked the duplicate at some time
  edits

stagedReviewVars == <<screen, committing, reincluded, kept, puts, acks, dropping,
                      stagedJob, imported, promise, asked, edits>>

StagedReviewInit ==
  /\ screen = "loading" /\ committing = FALSE
  /\ reincluded = FALSE /\ kept = FALSE
  /\ puts = <<>> /\ acks = <<>> /\ dropping = FALSE
  /\ stagedJob = "staged" /\ imported = {} /\ promise = {} /\ asked = FALSE
  /\ edits = 0

\* Slip: duplicates are taken along.
AllRows(withDuplicate) == {"clean", "duplicate"}

\* The rows that are not excluded duplicates.
RowsFor(withDuplicate) == {"clean"} \cup (IF withDuplicate THEN {"duplicate"} ELSE {})

Arriving(answers) ==
  {n \in DOMAIN answers : n = 1 \/ "overtaken" \in ReviewFaults}

-----------------------------------------------------------------------------

\* openJob on mount, and its failure, which no later answer repairs.
OpenJob ==
  /\ screen = "loading"
  /\ screen' = "table" /\ reincluded' = kept
  /\ UNCHANGED <<committing, kept, puts, acks, dropping, stagedJob, imported, promise,
                 asked, edits>>

OpenFails ==
  /\ "lost" \in ReviewFaults /\ screen = "loading"
  /\ screen' = "error"
  /\ UNCHANGED <<committing, reincluded, kept, puts, acks, dropping, stagedJob,
                 imported, promise, asked, edits>>

\* The table stays editable while a commit is on its way; whoever edits then
\* is no longer promised the count of the button.
SendPut(put) ==
  /\ screen = "table" /\ edits < MaxEdits
  /\ edits' = edits + 1 /\ puts' = Append(puts, put) /\ promise' = {}
  /\ asked' = (asked \/ put = "include")
  /\ UNCHANGED <<screen, committing, reincluded, kept, acks, stagedJob, imported>>

\* The checkbox of a duplicate asks for the opposite of what it shows.
SetIncludeDuplicate ==
  SendPut(IF reincluded THEN "exclude" ELSE "include") /\ UNCHANGED dropping

CorrectCategory == SendPut("category") /\ UNCHANGED dropping

\* One awaited request per row that the table shows as re-included; the
\* button is there only while some duplicate is flagged for discard, which
\* the second duplicate of a job may be.
DiscardDuplicates ==
  /\ reincluded /\ ~ dropping /\ SendPut("exclude") /\ dropping' = TRUE

\* The server's PUT handlers, on a row that is still staged.
ServerCorrects(n) ==
  /\ n \in Arriving(puts)
  /\ puts' = RemoveAt(puts, n)
  /\ IF stagedJob = "staged"
     THEN /\ kept' = CASE puts[n] = "include" -> TRUE
                       [] puts[n] = "exclude" -> FALSE
                       [] OTHER -> kept
          /\ acks' = Append(acks, kept')
          /\ UNCHANGED dropping
     ELSE dropping' = FALSE /\ UNCHANGED <<kept, acks>>
  /\ UNCHANGED <<screen, committing, reincluded, stagedJob, imported, promise, asked,
                 edits>>

CorrectionFails ==
  /\ "lost" \in ReviewFaults /\ puts # <<>>
  /\ puts' = Tail(puts) /\ dropping' = FALSE
  /\ UNCHANGED <<screen, committing, reincluded, kept, acks, stagedJob, imported,
                 promise, asked, edits>>

\* Slip: the answer changes no row.
RowIgnored(n) ==
  /\ n \in Arriving(acks)
  /\ acks' = RemoveAt(acks, n) /\ dropping' = FALSE
  /\ UNCHANGED <<screen, committing, reincluded, kept, puts, stagedJob, imported,
                 promise, asked, edits>>

\* setStaged replaces the row by the answer's.
RowArrives(n) ==
  /\ n \in Arriving(acks)
  /\ acks' = RemoveAt(acks, n)
  /\ reincluded' = (screen = "table" /\ acks[n])
  /\ dropping' = FALSE
  /\ UNCHANGED <<screen, committing, kept, puts, stagedJob, imported, promise, asked,
                 edits>>

\* "Import N" does not wait for corrections on their way; the button is
\* disabled while it is committing.
ConfirmReview ==
  /\ screen = "table" /\ ~ committing
  /\ committing' = TRUE
  /\ promise' = IF puts \o acks = <<>> THEN RowsFor(reincluded) ELSE {}
  /\ UNCHANGED <<screen, reincluded, kept, puts, acks, dropping, stagedJob, imported,
                 asked, edits>>

\* POST confirm: atomic, and a repeat changes nothing.  The answer, or the
\* loss of it, ends the wait.
ServerConfirms ==
  /\ committing
  /\ IF stagedJob = "staged"
     THEN stagedJob' = "committed" /\ imported' = RowsFor(kept)
     ELSE UNCHANGED <<stagedJob, imported>>
  /\ committing' = FALSE
  /\ screen' \in IF screen = "left" THEN {"left"}
                 ELSE {IF stagedJob = "gone" THEN "table" ELSE "left"}
                      \cup (IF "lost" \in ReviewFaults THEN {"table"} ELSE {})
  /\ UNCHANGED <<reincluded, kept, puts, acks, dropping, promise, asked, edits>>

ConfirmFails ==
  /\ "lost" \in ReviewFaults /\ committing
  /\ committing' = FALSE
  /\ UNCHANGED <<screen, reincluded, kept, puts, acks, dropping, stagedJob, imported,
                 promise, asked, edits>>

\* "Discard import", also while a commit is on its way.
DiscardReview ==
  /\ screen = "table" /\ stagedJob # "gone"
  /\ stagedJob' = "gone"
  /\ screen' \in ({"left"} \cup IF "lost" \in ReviewFaults THEN {"table"} ELSE {})
  /\ UNCHANGED <<committing, reincluded, kept, puts, acks, dropping, imported, promise,
                 asked, edits>>

StagedReviewNext ==
  \/ OpenJob \/ OpenFails
  \/ SetIncludeDuplicate \/ CorrectCategory \/ DiscardDuplicates
  \/ \E n \in DOMAIN puts : ServerCorrects(n)
  \/ CorrectionFails
  \/ \E n \in DOMAIN acks : RowArrives(n)
  \/ ConfirmReview \/ ServerConfirms \/ ConfirmFails \/ DiscardReview

StagedReviewSpec == StagedReviewInit /\ [][StagedReviewNext]_stagedReviewVars

-----------------------------------------------------------------------------

StagedReviewTypeOK ==
  /\ screen \in {"loading", "error", "table", "left"}
  /\ imported \subseteq RowsFor(TRUE) /\ promise \subseteq RowsFor(TRUE)
  /\ stagedJob \in {"staged", "committed", "gone"}
  /\ {committing, reincluded, kept, dropping, asked} \subseteq BOOLEAN

\* A flagged duplicate joins the ledger only if the user ticked it, whatever
\* is lost, repeated or still on its way; the clean row always joins
\* (flows/import.md section 2, setIncludeDuplicate, confirm).
DuplicatesOnlyByHand ==
  imported # {} => "clean" \in imported /\ ("duplicate" \in imported => asked)

\* The rows the footer says "will join your ledger" are the rows that do,
\* when the user pressed Import with nothing on its way and edited nothing
\* since (JobDetailView).
ImportsWhatItShows ==
  [][imported = {} /\ imported' # {} /\ promise # {} => imported' = promise]_stagedReviewVars
=============================================================================
