---------------------------- MODULE AccountsPage -----------------------------
(***************************************************************************)
(* The accounts page (AccountsView and its controller) over the bank-link  *)
(* endpoints: the connect - consent - syncing - done journey, whose poll   *)
(* timer outlives the modal, and the cards with their actions, drawn from  *)
(* the links as last loaded.  A call takes effect at the server when it is *)
(* sent; the handler goes on with the answer.  The counter, the masked     *)
(* account and all wording are left out; auto-confirm is in MockImports.   *)
(***************************************************************************)
EXTENDS Naturals, FiniteSets

CONSTANTS Accounts,   \* bank links, old and new
          Syncs,      \* bound: sync jobs, a set 1..n
          PageFaults  \* "failed": a call of the journey, or a poll, may fail

ASSUME AccountsPageAssumption ==
  /\ Syncs \subseteq Nat \ {0} /\ IsFiniteSet(Syncs)
  /\ PageFaults \subseteq {"failed"} /\ "none" \notin Accounts

VARIABLES account,    \* the server's links
          consented,  \* history: links whose exchange succeeded
          syncJob,    \* the server's sync jobs: link and status
          cards,      \* links as the page last loaded them
          journey,    \* modal: open, step, link, job, and the job whose count it shows
          journeyError,
          running,    \* the call startConnect or approveConsent awaits; busy
          ticking,    \* jobs with a poll timer
          unlinking   \* unlinkTarget

accountsPageVars == <<account, consented, syncJob, cards, journey, journeyError,
                      running, ticking, unlinking>>

Steps == {"connect", "consent", "syncing", "done"}
Reset == [open |-> FALSE, step |-> "connect", link |-> "none", job |-> 0, final |-> 0]
NotRunning == [call |-> "none", link |-> "none", job |-> 0]
NoSync == [link |-> "none", status |-> "none"]

AccountsPageInit ==
  /\ account \in [Accounts -> {"absent", "active", "paused", "reauth_required"}]
  /\ consented = {a \in Accounts : account[a] # "absent"}
  /\ syncJob = [j \in Syncs |-> NoSync]
  /\ cards = [a \in Accounts |-> "absent"]
  /\ \E open \in BOOLEAN : journey = [Reset EXCEPT !.open = open]   \* ?link=1
  /\ journeyError = FALSE /\ running = NotRunning
  /\ ticking = {} /\ unlinking = "none"

-----------------------------------------------------------------------------
(* The endpoints                                                           *)

\* A sync is accepted of an active or a pending link, the window permitting.
CanSync(a, j) ==
  /\ account[a] \in {"active", "pending"}
  /\ syncJob[j] = NoSync /\ \A i \in Syncs : i < j => syncJob[i] # NoSync
  /\ \A i \in Syncs : syncJob[i] # [link |-> a, status |-> "processing"]

StartedSync(a, j) == [syncJob EXCEPT ![j] = [link |-> a, status |-> "processing"]]

FinishSync(j) ==
  /\ syncJob[j].status = "processing"
  /\ syncJob' = [syncJob EXCEPT ![j].status = "completed"]
  /\ UNCHANGED <<account, consented, cards, journey, journeyError, running, ticking, unlinking>>

RefreshCards ==
  /\ cards' = account /\ cards' # cards
  /\ UNCHANGED <<account, consented, syncJob, journey, journeyError, running, ticking, unlinking>>

-----------------------------------------------------------------------------
(* The journey                                                             *)

NoDialog == ~ journey.open /\ unlinking = "none"

OpenJourney ==
  /\ NoDialog
  /\ journey' = [Reset EXCEPT !.open = TRUE] /\ journeyError' = FALSE
  /\ UNCHANGED <<account, consented, syncJob, cards, running, ticking, unlinking>>

\* Every way out of the modal resets it, but for the button that goes to the
\* review; none stops the poll timer.
CloseJourney ==
  /\ journey.open
  /\ journey' = Reset /\ journeyError' = FALSE
  /\ UNCHANGED <<account, consented, syncJob, cards, running, ticking, unlinking>>

ReviewSynced ==
  /\ journey.open /\ journey.step = "done"
  /\ journey' = [journey EXCEPT !.open = FALSE]
  /\ UNCHANGED <<account, consented, syncJob, cards, journeyError, running, ticking, unlinking>>

StartConnect(a) ==
  /\ journey.open /\ journey.step = "connect" /\ running = NotRunning
  /\ account[a] = "absent" /\ account' = [account EXCEPT ![a] = "pending"]
  /\ running' = [NotRunning EXCEPT !.call = "connect", !.link = a]
  /\ journeyError' = FALSE
  /\ UNCHANGED <<consented, syncJob, cards, journey, ticking, unlinking>>

Connected ==
  /\ running.call = "connect"
  /\ journey' = [journey EXCEPT !.step = "consent", !.link = running.link]
  /\ running' = NotRunning
  /\ UNCHANGED <<account, consented, syncJob, cards, journeyError, ticking, unlinking>>

\* The exchange activates the link.
ApproveConsent ==
  /\ journey.open /\ journey.step = "consent" /\ running = NotRunning
  /\ account[journey.link] # "absent"
  /\ account' = [account EXCEPT ![journey.link] = "active"]
  /\ consented' = consented \cup {journey.link}
  /\ running' = [NotRunning EXCEPT !.call = "exchange", !.link = journey.link]
  /\ journeyError' = FALSE
  /\ UNCHANGED <<syncJob, cards, journey, ticking, unlinking>>

\* exchange refreshes the cards; then the first sync is asked for.
Exchanged(j) ==
  /\ running.call = "exchange" /\ CanSync(running.link, j)
  /\ cards' = account
  /\ journey' = [journey EXCEPT !.step = "syncing"]
  /\ syncJob' = StartedSync(running.link, j)
  /\ running' = [running EXCEPT !.call = "sync", !.job = j]
  /\ UNCHANGED <<account, consented, journeyError, ticking, unlinking>>

SyncStarted ==
  /\ running.call = "sync"
  /\ journey' = [journey EXCEPT !.job = running.job]
  /\ ticking' = ticking \cup {running.job}
  /\ running' = NotRunning
  /\ UNCHANGED <<account, consented, syncJob, cards, journeyError, unlinking>>

\* The catch of either handler: a failed call leaves the step where it is,
\* which is "syncing" when it is the sync that fails.
JourneyCallFails ==
  /\ "failed" \in PageFaults /\ running # NotRunning
  /\ journeyError' = TRUE /\ running' = NotRunning
  /\ UNCHANGED <<account, consented, syncJob, cards, journey, ticking, unlinking>>

SyncRefused ==
  /\ running.call = "exchange" /\ \A j \in Syncs : ~ CanSync(running.link, j)
  /\ journey' = [journey EXCEPT !.step = "syncing"]
  /\ journeyError' = TRUE /\ running' = NotRunning
  /\ UNCHANGED <<account, consented, syncJob, cards, ticking, unlinking>>

\* A tick of watchSync: poll on, or show the result and refresh the cards, or
\* give up.
Tick(j) ==
  /\ j \in ticking /\ syncJob[j].status = "completed"
  /\ ticking' = ticking \ {j}
  /\ journey' = [journey EXCEPT !.step = "done", !.final = j]
  /\ cards' = account
  /\ UNCHANGED <<account, consented, syncJob, journeyError, running, unlinking>>

\* Slip: the failure is told to nobody.
TickFailsUntold(j) ==
  /\ "failed" \in PageFaults /\ j \in ticking /\ ticking' = ticking \ {j}
  /\ UNCHANGED <<account, consented, syncJob, cards, journey, journeyError, running, unlinking>>

TickFails(j) ==
  /\ "failed" \in PageFaults /\ j \in ticking
  /\ ticking' = ticking \ {j} /\ journeyError' = TRUE
  /\ UNCHANGED <<account, consented, syncJob, cards, journey, running, unlinking>>

-----------------------------------------------------------------------------
(* The cards                                                               *)

\* Slip: a pending link counts as linked.
SyncEnabledPending(a) == cards[a] \notin {"absent", "reauth_required", "paused"}

SyncEnabled(a) == cards[a] \notin {"absent", "reauth_required", "paused", "pending"}

ManualSync(a, j) ==
  /\ NoDialog /\ SyncEnabled(a)
  /\ CanSync(a, j)
  /\ syncJob' = StartedSync(a, j) /\ cards' = account
  /\ UNCHANGED <<account, consented, journey, journeyError, running, ticking, unlinking>>

\* The card toggles what it shows: paused resumes, active pauses.
TogglePaused(a) ==
  LET want == IF cards[a] = "paused" THEN "active" ELSE "paused" IN
  /\ NoDialog
  /\ cards[a] \in {"active", "paused"} /\ account[a] \in {"active", "paused"}
  /\ account' = [account EXCEPT ![a] = want] /\ cards' = account'
  /\ UNCHANGED <<consented, syncJob, journey, journeyError, running, ticking, unlinking>>

AskUnlink(a) ==
  /\ NoDialog /\ cards[a] # "absent"
  /\ unlinking' = a
  /\ UNCHANGED <<account, consented, syncJob, cards, journey, journeyError, running, ticking>>

CancelUnlink ==
  /\ unlinking # "none" /\ unlinking' = "none"
  /\ UNCHANGED <<account, consented, syncJob, cards, journey, journeyError, running, ticking>>

ConfirmUnlink ==
  /\ unlinking # "none" /\ account[unlinking] # "absent"
  /\ account' = [account EXCEPT ![unlinking] = "absent"] /\ cards' = account'
  /\ consented' = consented \ {unlinking}
  /\ unlinking' = "none"
  /\ UNCHANGED <<syncJob, journey, journeyError, running, ticking>>

AccountsPageNext ==
  \/ RefreshCards \/ OpenJourney \/ CloseJourney \/ ReviewSynced
  \/ Connected \/ ApproveConsent \/ SyncStarted \/ JourneyCallFails \/ SyncRefused
  \/ CancelUnlink \/ ConfirmUnlink
  \/ \E a \in Accounts : \/ StartConnect(a) \/ TogglePaused(a) \/ AskUnlink(a)
                         \/ \E j \in Syncs : ManualSync(a, j)
  \/ \E j \in Syncs : FinishSync(j) \/ Exchanged(j) \/ Tick(j) \/ TickFails(j)

\* The server finishes its jobs, timers fire and answers come.
AccountsPageFairness ==
  /\ \A j \in Syncs : /\ WF_accountsPageVars(FinishSync(j))
                      /\ WF_accountsPageVars(Tick(j) \/ TickFails(j))
                      /\ WF_accountsPageVars(Exchanged(j))
  /\ WF_accountsPageVars(Connected) /\ WF_accountsPageVars(SyncStarted)
  /\ WF_accountsPageVars(SyncRefused)

AccountsPageSpec ==
  AccountsPageInit /\ [][AccountsPageNext]_accountsPageVars /\ AccountsPageFairness

-----------------------------------------------------------------------------

AccountsPageTypeOK ==
  /\ journey.step \in Steps /\ ticking \subseteq Syncs
  /\ journey.link \in Accounts \cup {"none"} /\ unlinking \in Accounts \cup {"none"}

\* A sync job is only ever created for a link the user gave consent for: the
\* endpoint also accepts a pending link, the page must never ask for one
\* (the disabled rule of the card, the order in approveConsent).
OnlyConsentedLinksSync ==
  [][\A j \in Syncs : syncJob[j] = NoSync /\ syncJob'[j] # NoSync
       => syncJob'[j].link \in consented]_accountsPageVars

\* The syncing step ends: done, an error, or the user leaves (watchSync and
\* the catch blocks).
JourneySettles ==
  journey.step = "syncing" ~> (journey.step # "syncing" \/ journeyError)

\* A finished journey reports its own sync.
\* Not kept by the code (README, "By hand").
DoneShowsItsSync == journey.step = "done" /\ journey.open => journey.final = journey.job
=============================================================================
