----------------------------- MODULE PrivacyPage -----------------------------
(***************************************************************************)
(* Data & privacy (PrivacySection): the AI consent, the export with its    *)
(* polls, and the deletion of the account with its danger dialog, over the *)
(* mock's account endpoints.  A request takes effect when it is sent; its  *)
(* answer comes later and in any order.  A reload forgets the page and     *)
(* what was under way.                                                     *)
(***************************************************************************)
EXTENDS Naturals, FiniteSets

CONSTANTS MaxExports,    \* bound: exports
          MaxDeletions,  \* bound: requests about the deletion
          PrivacyFaults, \* of "refused": a request may fail
          Elsewhere      \* another device may schedule or cancel a deletion

ASSUME PrivacyPageAssumption ==
  /\ MaxExports \in Nat /\ MaxDeletions \in Nat /\ Elsewhere \in BOOLEAN
  /\ PrivacyFaults \subseteq {"refused"}

VARIABLES deletion,      \* the server's purge request: "none", "pending", "cancelled"
          exports,       \* the server's export jobs: progress, by id
          aiRecord,     \* the server has an ai_processing record
          bannerOf,      \* the page's purge request: "none" or "pending"
          dialog,        \* [open, typed, armed]
          phraseTyped,   \* history: typed since the dialog opened
          exportShown,   \* [job, status], job 0 for none
          exportTimers,  \* jobs whose next poll is due
          pollFailed,    \* history: a poll failed since the page was loaded
          consentShown,
          privacyCalls,  \* answers on their way
          deletions      \* requests about the deletion so far

privacyVars == <<deletion, exports, aiRecord, bannerOf, dialog, phraseTyped, exportShown,
                 exportTimers, pollFailed, consentShown, privacyCalls, deletions>>

NoExport == [job |-> 0, status |-> "none"]
ClosedDialog == [open |-> FALSE, typed |-> FALSE, armed |-> FALSE]

\* The read of every mount; its answer is the request on file, if any.
StatusRead == [op |-> "status", seen |-> deletion]

PrivacyPageInit ==
  /\ deletion \in {"none", "pending"} /\ exports = <<>> /\ aiRecord \in BOOLEAN
  /\ bannerOf = "none" /\ dialog = ClosedDialog /\ phraseTyped = FALSE
  /\ exportShown = NoExport /\ exportTimers = {} /\ consentShown = aiRecord
  /\ pollFailed = FALSE
  /\ privacyCalls = {StatusRead} /\ deletions = 0

ReloadPrivacy ==
  /\ deletions < MaxDeletions /\ deletions' = deletions + 1
  /\ bannerOf' = "none" /\ dialog' = ClosedDialog /\ phraseTyped' = FALSE
  /\ exportShown' = NoExport /\ exportTimers' = {} /\ consentShown' = aiRecord
  /\ pollFailed' = FALSE
  /\ privacyCalls' = {StatusRead}
  /\ UNCHANGED <<deletion, exports, aiRecord>>

Outcome == IF "refused" \in PrivacyFaults THEN BOOLEAN ELSE {TRUE}
Landed(c) == privacyCalls' = privacyCalls \ {c}

-----------------------------------------------------------------------------
(* The deletion                                                            *)

OpenDialog ==
  /\ ~ dialog.open /\ bannerOf = "none"
  /\ dialog' = [dialog EXCEPT !.open = TRUE, !.armed = FALSE] /\ phraseTyped' = FALSE
  /\ UNCHANGED <<pollFailed, deletion, exports, aiRecord, bannerOf, exportShown,
                 exportTimers, consentShown, privacyCalls, deletions>>

TypePhrase ==
  /\ dialog.open /\ ~ dialog.typed
  /\ dialog' = [dialog EXCEPT !.typed = TRUE] /\ phraseTyped' = TRUE
  /\ UNCHANGED <<pollFailed, deletion, exports, aiRecord, bannerOf, exportShown,
                 exportTimers, consentShown, privacyCalls, deletions>>

CountDown ==
  /\ dialog.open /\ ~ dialog.armed /\ dialog' = [dialog EXCEPT !.armed = TRUE]
  /\ UNCHANGED <<pollFailed, deletion, exports, aiRecord, bannerOf, phraseTyped,
                 exportShown, exportTimers, consentShown, privacyCalls, deletions>>

\* The dialog forgets the phrase when the person closes it, not when the page does.
CancelDialog ==
  /\ dialog.open /\ dialog' = ClosedDialog
  /\ UNCHANGED <<pollFailed, deletion, exports, aiRecord, bannerOf, phraseTyped,
                 exportShown, exportTimers, consentShown, privacyCalls, deletions>>

PageCloses == [dialog EXCEPT !.open = FALSE]

StartPurge ==
  /\ dialog.open /\ dialog.typed /\ dialog.armed
  /\ deletions < MaxDeletions /\ deletions' = deletions + 1
  /\ \E ok \in Outcome :
       /\ deletion' = IF ok THEN "pending" ELSE deletion
       /\ privacyCalls' = privacyCalls \cup
            {[op |-> "purge", answer |-> IF ~ ok THEN "failed"
                                         ELSE IF deletion = "pending" THEN "purge_pending" ELSE "ok"]}
  /\ UNCHANGED <<pollFailed, exports, aiRecord, bannerOf, dialog, phraseTyped,
                 exportShown, exportTimers, consentShown>>

PurgeAnswered ==
  \E c \in {c \in privacyCalls : c.op = "purge"} :
    /\ bannerOf' = IF c.answer = "ok" THEN "pending" ELSE bannerOf
    /\ dialog' = IF c.answer = "failed" THEN dialog ELSE PageCloses
    /\ IF c.answer = "purge_pending"
       THEN privacyCalls' = (privacyCalls \ {c}) \cup {StatusRead}
       ELSE Landed(c)
    /\ UNCHANGED <<pollFailed, deletion, exports, aiRecord, phraseTyped, exportShown,
                   exportTimers, consentShown, deletions>>

StatusLands ==
  \E c \in {c \in privacyCalls : c.op = "status"} :
    /\ Landed(c)
    /\ bannerOf' = IF c.seen = "pending" THEN "pending" ELSE bannerOf
    /\ UNCHANGED <<pollFailed, deletion, exports, aiRecord, dialog, phraseTyped,
                   exportShown, exportTimers, consentShown, deletions>>

CancelPurge ==
  /\ bannerOf = "pending" /\ ~ dialog.open
  /\ deletions < MaxDeletions /\ deletions' = deletions + 1
  /\ \E ok \in Outcome :
       /\ deletion' = IF ok THEN "cancelled" ELSE deletion
       /\ privacyCalls' = privacyCalls \cup {[op |-> "cancel", ok |-> ok]}
  /\ UNCHANGED <<pollFailed, exports, aiRecord, bannerOf, dialog, phraseTyped,
                 exportShown, exportTimers, consentShown>>

CancelAnswered ==
  \E c \in {c \in privacyCalls : c.op = "cancel"} :
    /\ Landed(c) /\ bannerOf' = IF c.ok THEN "none" ELSE bannerOf
    /\ UNCHANGED <<pollFailed, deletion, exports, aiRecord, dialog, phraseTyped,
                   exportShown, exportTimers, consentShown, deletions>>

OnAnotherDevice ==
  /\ Elsewhere /\ deletions < MaxDeletions /\ deletions' = deletions + 1
  /\ deletion' = IF deletion = "pending" THEN "cancelled" ELSE "pending"
  /\ UNCHANGED <<pollFailed, exports, aiRecord, bannerOf, dialog, phraseTyped,
                 exportShown, exportTimers, consentShown, privacyCalls>>

-----------------------------------------------------------------------------
(* The export                                                              *)

\* Until the request is answered the button stays.
Ask ==
  /\ Cardinality(DOMAIN exports) < MaxExports
  /\ LET id == Cardinality(DOMAIN exports) + 1
     IN /\ exports' = [j \in 1..id |-> IF j = id THEN 0 ELSE exports[j]]
        /\ privacyCalls' = privacyCalls \cup {[op |-> "export", job |-> id]}

StartExport ==
  /\ exportShown = NoExport /\ ~ dialog.open /\ Ask
  /\ UNCHANGED <<pollFailed, deletion, aiRecord, bannerOf, dialog, phraseTyped,
                 exportShown, exportTimers, consentShown, deletions>>

\* The way out of the dialog that keeps the data.
ExportFirst ==
  /\ dialog.open /\ Ask /\ dialog' = PageCloses
  /\ UNCHANGED <<pollFailed, deletion, aiRecord, bannerOf, phraseTyped, exportShown,
                 exportTimers, consentShown, deletions>>

ExportAccepted ==
  \E c \in {c \in privacyCalls : c.op = "export"} :
    /\ Landed(c)
    /\ exportShown' = [job |-> c.job, status |-> "running"]
    /\ exportTimers' = exportTimers \cup {c.job}
    /\ UNCHANGED <<pollFailed, deletion, exports, aiRecord, bannerOf, dialog,
                   phraseTyped, consentShown, deletions>>

\* Slip: the archive is never complete.
BuiltUncapped(progress) == progress + 48

\* A poll builds 48 percent more of the archive, which 96 complete.
Built(progress) == IF progress + 48 >= 96 THEN 100 ELSE progress + 48

PollExport ==
  \E j \in exportTimers :
    /\ exportTimers' = exportTimers \ {j}
    /\ exports' = [exports EXCEPT ![j] = Built(@)]
    /\ privacyCalls' = privacyCalls \cup
         {[op |-> "poll", job |-> j,
           status |-> IF Built(exports[j]) = 100 THEN "completed" ELSE "running"]}
    /\ UNCHANGED <<pollFailed, deletion, aiRecord, bannerOf, dialog, phraseTyped,
                   exportShown, consentShown, deletions>>

\* Slip: the next poll is not armed.
PollAnsweredOnce ==
  \E c \in {c \in privacyCalls : c.op = "poll"} :
    /\ Landed(c) /\ exportShown' = [job |-> c.job, status |-> c.status]
    /\ UNCHANGED <<pollFailed, deletion, exports, aiRecord, bannerOf, dialog,
                   phraseTyped, exportTimers, consentShown, deletions>>

PollAnswered ==
  \E c \in {c \in privacyCalls : c.op = "poll"} :
    /\ Landed(c)
    /\ exportShown' = [job |-> c.job, status |-> c.status]
    /\ exportTimers' = IF c.status = "running" THEN exportTimers \cup {c.job} ELSE exportTimers
    /\ UNCHANGED <<pollFailed, deletion, exports, aiRecord, bannerOf, dialog,
                   phraseTyped, consentShown, deletions>>

\* A poll that fails is neither told nor repeated.
PollFails ==
  /\ "refused" \in PrivacyFaults /\ pollFailed' = TRUE
  /\ \E c \in {c \in privacyCalls : c.op = "poll"} : Landed(c)
  /\ UNCHANGED <<deletion, exports, aiRecord, bannerOf, dialog, phraseTyped,
                 exportShown, exportTimers, consentShown, deletions>>

-----------------------------------------------------------------------------
(* The consent: off only tells                                             *)

Consent ==
  /\ ~ consentShown /\ aiRecord' = TRUE
  /\ privacyCalls' = privacyCalls \cup {[op |-> "consent"]}
  /\ UNCHANGED <<pollFailed, deletion, exports, bannerOf, dialog, phraseTyped,
                 exportShown, exportTimers, consentShown, deletions>>

ConsentLands ==
  \E c \in {c \in privacyCalls : c.op = "consent"} :
    /\ Landed(c) /\ consentShown' = TRUE
    /\ UNCHANGED <<pollFailed, deletion, exports, aiRecord, bannerOf, dialog,
                   phraseTyped, exportShown, exportTimers, deletions>>

PrivacyPageNext ==
  \/ ReloadPrivacy \/ OpenDialog \/ TypePhrase \/ CountDown \/ CancelDialog \/ StartPurge
  \/ PurgeAnswered \/ StatusLands \/ CancelPurge \/ CancelAnswered \/ OnAnotherDevice
  \/ StartExport \/ ExportFirst \/ ExportAccepted \/ PollExport \/ PollAnswered \/ PollFails
  \/ Consent \/ ConsentLands

\* Timers go off and requests are answered.
PrivacyPageFairness ==
  WF_privacyVars(ExportAccepted) /\ WF_privacyVars(PollExport) /\ WF_privacyVars(PollAnswered)

PrivacyPageSpec ==
  PrivacyPageInit /\ [][PrivacyPageNext]_privacyVars /\ PrivacyPageFairness

-----------------------------------------------------------------------------
(* Properties                                                              *)

PrivacyPageTypeOK ==
  /\ deletion \in {"none", "pending", "cancelled"} /\ bannerOf \in {"none", "pending"}
  /\ \A j \in DOMAIN exports : exports[j] \in {0, 48, 100}
  /\ exportShown.job \in 0..MaxExports /\ exportTimers \subseteq DOMAIN exports
  /\ aiRecord \in BOOLEAN /\ consentShown \in BOOLEAN /\ phraseTyped \in BOOLEAN
  /\ pollFailed \in BOOLEAN
  /\ deletions \in 0..MaxDeletions

\* An export that is shown as under way is some day offered for download, also
\* when two were asked for and their polls alternate; only a poll that fails
\* leaves it running for ever (sections.tsx:438-445).
ExportSettles ==
  (exportShown.status = "running" /\ ~ pollFailed)
    ~> (exportShown.status # "running" \/ pollFailed)

\* A deletion is scheduled by who typed the name since the dialog opened
\* (sections.tsx:607: "type the ORG NAME to confirm"; Modal.tsx:68).
\* Not kept by the code (README, "By hand").
TypedForThisDeletion == [][StartPurge => phraseTyped]_privacyVars

\* The banner with its way back is there exactly while a deletion is pending,
\* once nothing is under way (sections.tsx:406: "the banner + cancel must
\* survive reloads").
\* Not kept by the code (README, "By hand").
BannerIsTrue ==
  privacyCalls = {} => (bannerOf = "pending") = (deletion = "pending")
=============================================================================
