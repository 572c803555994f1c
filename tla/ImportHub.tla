----------------------------- MODULE ImportHub -----------------------------
(***************************************************************************)
(* The import hub of the web client, which uploads several files at once   *)
(* and polls a job for each; the chips of the dropzone and the rows of the *)
(* history follow the answers (ImportsView, useImportsController).  The    *)
(* server is seen through its answers: an answer carries what the server   *)
(* held when it was produced, and may arrive late, be lost, or be          *)
(* overtaken by another.                                                   *)
(***************************************************************************)
EXTENDS Naturals, Sequences, SequencesExt

CONSTANTS HubFiles,    \* files the user drops; a file names the job it becomes
          HubFaults \* of "lost" (a request fails) and "overtaken"

ASSUME ImportHubAssumption ==
  HubFaults \subseteq {"lost", "overtaken"} /\ "none" \notin HubFiles

VARIABLES
  remote,   \* the server's job of each file
  hub,      \* is the page mounted
  chip,     \* phase of each file in the dropzone
  linked,   \* uploadJobs: files whose job id the page knows
  history,  \* imports.jobs
  active,   \* imports.activeJob
  armed,    \* files with a poll timer running
  timer,    \* pollTimer.current: the file of the timer last set
  polling,  \* answers to a poll on their way
  lists,    \* answers to a refresh on their way, in the order of the requests
  missed    \* history: files an answer about which was lost

importHubVars == <<remote, hub, chip, linked, history, active, armed, timer,
                   polling, lists, missed>>

NoActive == [file |-> "none", status |-> "none"]

\* The mount refreshes once.
ImportHubInit ==
  /\ remote = [f \in HubFiles |-> "none"]
  /\ hub = TRUE /\ chip = [f \in HubFiles |-> "none"] /\ linked = {}
  /\ history = [f \in HubFiles |-> "none"] /\ active = NoActive
  /\ armed = {} /\ timer = "none" /\ polling = {} /\ lists = <<remote>>
  /\ missed = {}

-----------------------------------------------------------------------------
\* The effect that follows every change of jobs, activeJob or uploadJobs.
KnownStatus(f, h, a) ==
  IF h[f] # "none" THEN h[f]
  ELSE IF a.file = f THEN a.status ELSE "none"

PhaseOf(status, phase) ==
  CASE status = "none" -> phase
    [] status = "processing" -> "sweep"
    [] status = "failed" -> "error"
    [] OTHER -> "complete"

Advanced(c, l, h, a) ==
  [f \in HubFiles |-> IF f \in l THEN PhaseOf(KnownStatus(f, h, a), c[f]) ELSE c[f]]

\* onFiles: a fresh key and a chip per file, the uploads run side by side.
DropFile(f) ==
  /\ hub /\ chip[f] = "none"
  /\ chip' = [chip EXCEPT ![f] = "progress"]
  /\ UNCHANGED <<remote, hub, linked, history, active, armed, timer, polling, lists,
                 missed>>

\* POST /import and POST /uploads reach the server.
ServerAccepts(f) ==
  /\ chip[f] = "progress" /\ remote[f] = "none"
  /\ remote' = [remote EXCEPT ![f] = "processing"]
  /\ UNCHANGED <<hub, chip, linked, history, active, armed, timer, polling, lists,
                 missed>>

ServerFinishes(f) ==
  /\ remote[f] = "processing"
  /\ \E s \in {"completed", "failed"} : remote' = [remote EXCEPT ![f] = s]
  /\ UNCHANGED <<hub, chip, linked, history, active, armed, timer, polling, lists,
                 missed>>

\* Slip: a new timer cancels the one before it.
ArmOnePoll(f) == armed' = {f} /\ timer' = f

\* pollJob: a new timer replaces the reference, never the timer before it.
ArmPoll(f) == armed' = armed \cup {f} /\ timer' = f

UploadResolves(f) ==
  /\ hub /\ chip[f] = "progress" /\ remote[f] # "none"
  /\ linked' = linked \cup {f}
  /\ ArmPoll(f)
  /\ chip' = Advanced([chip EXCEPT ![f] = "sweep"], linked', history, active)
  /\ UNCHANGED <<remote, hub, history, active, polling, lists, missed>>

\* Refused, or lost on either way: the server may hold the job all the same.
UploadRejects(f) ==
  /\ hub /\ chip[f] = "progress"
  /\ chip' = [chip EXCEPT ![f] = "error"]
  /\ UNCHANGED <<remote, hub, linked, history, active, armed, timer, polling, lists,
                 missed>>

\* tick: openJob reads the job.  An unmounted page still ticks.
HubTick(f) ==
  /\ f \in armed
  /\ armed' = armed \ {f}
  /\ polling' = polling \cup {[file |-> f, status |-> remote[f]]}
  /\ UNCHANGED <<remote, hub, chip, linked, history, active, timer, lists, missed>>

PollAnswers(p) ==
  /\ p \in polling
  /\ polling' = polling \ {p}
  /\ active' = IF hub THEN p ELSE active
  /\ chip' = Advanced(chip, linked, history, active')
  /\ IF p.status = "processing" THEN ArmPoll(p.file) /\ UNCHANGED lists
     ELSE lists' = Append(lists, remote) /\ UNCHANGED <<armed, timer>>
  /\ UNCHANGED <<remote, hub, linked, history, missed>>

\* A failed poll rejects the tick: nobody arms another.
HubPollFails(p) ==
  /\ "lost" \in HubFaults /\ p \in polling
  /\ polling' = polling \ {p}
  /\ missed' = missed \cup {p.file}
  /\ UNCHANGED <<remote, hub, chip, linked, history, active, armed, timer, lists>>

ListArrives(n) ==
  /\ n \in DOMAIN lists /\ (n = 1 \/ "overtaken" \in HubFaults)
  /\ lists' = RemoveAt(lists, n)
  /\ history' = IF hub THEN lists[n] ELSE history
  /\ chip' = Advanced(chip, linked, history', active)
  /\ UNCHANGED <<remote, hub, linked, active, armed, timer, polling, missed>>

\* refresh keeps the list it had.
ListFails ==
  /\ "lost" \in HubFaults /\ lists # <<>>
  /\ lists' = Tail(lists) /\ missed' = HubFiles
  /\ UNCHANGED <<remote, hub, chip, linked, history, active, armed, timer, polling>>

\* Unmount clears the one timer the reference names, and the page's state.
LeaveHub ==
  /\ hub
  /\ hub' = FALSE /\ armed' = armed \ {timer} /\ timer' = "none"
  /\ chip' = [f \in HubFiles |-> IF chip[f] = "none" THEN "none" ELSE "unmounted"]
  /\ linked' = {} /\ history' = [f \in HubFiles |-> "none"] /\ active' = NoActive
  /\ UNCHANGED <<remote, polling, lists, missed>>

ImportHubNext ==
  \/ \E f \in HubFiles : \/ DropFile(f) \/ ServerAccepts(f) \/ ServerFinishes(f)
                      \/ UploadResolves(f) \/ UploadRejects(f) \/ HubTick(f)
  \/ \E p \in polling : PollAnswers(p) \/ HubPollFails(p)
  \/ \E n \in DOMAIN lists : ListArrives(n)
  \/ ListFails \/ LeaveHub

ImportHubSpec == ImportHubInit /\ [][ImportHubNext]_importHubVars

-----------------------------------------------------------------------------

ImportHubTypeOK ==
  /\ chip \in [HubFiles -> {"none", "progress", "sweep", "complete", "error", "unmounted"}]
  /\ remote \in [HubFiles -> {"none", "processing", "completed", "failed"}]
  /\ linked \subseteq HubFiles /\ armed \subseteq HubFiles

\* A chip in its AI sweep is waiting for something: a timer, a poll or a list
\* on its way, unless one was lost.  A second upload, whose timer takes over the one reference the
\* page keeps, must not end the polling of the first (pollJob).
SweepIsWatched ==
  \A f \in HubFiles : chip[f] = "sweep" /\ f \notin missed
    => f \in armed \/ lists # <<>> \/ \E p \in polling : p.file = f

\* Chips advance progress, sweep, complete or error (the comment above the
\* effect of ImportsView): a finished chip stays finished while the page does.
\* Not kept by the code (README, "By hand").
ChipsAdvance ==
  [][\A f \in HubFiles : chip[f] \in {"complete", "error"}
       => chip'[f] \in {chip[f], "unmounted"}]_importHubVars
=============================================================================
