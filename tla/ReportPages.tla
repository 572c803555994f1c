----------------------------- MODULE ReportPages -----------------------------
(***************************************************************************)
(* Reports (ReportsView and its controller) over the mock's report         *)
(* endpoints: a form that generates artifacts for the active organization  *)
(* and a history that is read once per organization.  A request takes      *)
(* effect when it is sent; answers come later and in any order.            *)
(***************************************************************************)
EXTENDS Naturals, Sequences, FiniteSets, Lists

CONSTANTS ReportOrgs,     \* the user's organizations; each has one category
          MaxReports,     \* bound: artifacts ever
          MaxReportCalls, \* bound: requests of the page
          ReportFaults,   \* of "refused" and "lost" (an answer)
          ReportOverlap   \* the page is used while requests are under way

ASSUME ReportPagesAssumption ==
  /\ MaxReports \in Nat /\ MaxReportCalls \in Nat /\ ReportOrgs # {}
  /\ ReportFaults \subseteq {"refused", "lost"} /\ ReportOverlap \in BOOLEAN

VARIABLES artifacts,    \* the server's, newest first: [id, org, kind, of, age]
          workspace,    \* the active organization
          history,      \* artifacts shown
          ask,          \* the form: [kind, category, statement]
          generating,
          reportCalls, reportsSent

reportVars == <<artifacts, workspace, history, ask, generating, reportCalls, reportsSent>>

ReportKinds == {"monthly_summary", "category_deep_dive", "financial_statement"}
StatementKinds == {"balance_sheet", "income_statement"}

-----------------------------------------------------------------------------
(* The endpoints                                                           *)

\* An artifact is new for a day and expired after thirty.
Older(age) == IF age = "new" THEN "ready" ELSE "expired"

\* A row that has not expired has a button that opens its link.
Offers(a) == a.age # "expired"

Artifacts(o) == AtPlaces(artifacts, {i \in DOMAIN artifacts : artifacts[i].org = o})

\* The handler's own checks; what a category names is not looked at.
RefusesReport(a) == a.kind = "category_deep_dive" /\ a.of = {}

NewArtifact(o, a) ==
  [id |-> Len(artifacts) + 1, org |-> o, kind |-> a.kind, of |-> a.of, age |-> "new"]

ReportsAge ==
  /\ \E i \in DOMAIN artifacts : artifacts[i].age # "expired"
  /\ artifacts' = [i \in DOMAIN artifacts |-> [artifacts[i] EXCEPT !.age = Older(@)]]
  /\ UNCHANGED <<workspace, history, ask, generating, reportCalls, reportsSent>>

-----------------------------------------------------------------------------
(* The page                                                                *)

SendReport(c) == /\ reportsSent < MaxReportCalls /\ reportsSent' = reportsSent + 1
                 /\ reportCalls' = reportCalls \cup {c}
ReportLands(c) == reportCalls' = reportCalls \ {c}

ReportList(o) == [op |-> "list", org |-> o, items |-> Artifacts(o), n |-> reportsSent]

ReportPagesInit ==
  /\ artifacts = <<>> /\ history = <<>> /\ generating = FALSE
  /\ workspace \in ReportOrgs
  /\ ask = [kind |-> "monthly_summary", category |-> {}, statement |-> "balance_sheet"]
  /\ reportsSent = 0 /\ reportCalls = {ReportList(workspace)}

\* The form, the history and a pending read of the other organization stay.
SwitchWorkspace ==
  /\ ReportOverlap \/ reportCalls = {}
  /\ \E o \in ReportOrgs \ {workspace} : workspace' = o /\ SendReport(ReportList(o))
  /\ UNCHANGED <<artifacts, history, ask, generating>>

HistoryLands ==
  \E c \in {c \in reportCalls : c.op = "list"} :
    /\ ReportLands(c)
    /\ history' = c.items \/ ("lost" \in ReportFaults /\ UNCHANGED history)
    /\ UNCHANGED <<artifacts, workspace, ask, generating, reportsSent>>

PickKind ==
  /\ \E k \in ReportKinds : ask' = [ask EXCEPT !.kind = k] /\ ask' # ask
  /\ UNCHANGED <<artifacts, workspace, history, generating, reportCalls, reportsSent>>

PickCategory ==
  /\ ask.kind = "category_deep_dive"
  /\ ask' = [ask EXCEPT !.category = {workspace}] /\ ask' # ask
  /\ UNCHANGED <<artifacts, workspace, history, generating, reportCalls, reportsSent>>

PickStatement ==
  /\ ask.kind = "financial_statement"
  /\ \E s \in StatementKinds : ask' = [ask EXCEPT !.statement = s] /\ ask' # ask
  /\ UNCHANGED <<artifacts, workspace, history, generating, reportCalls, reportsSent>>

\* Only the choice the kind has is sent.
Asked == [kind |-> ask.kind,
          of |-> CASE ask.kind = "category_deep_dive" -> ask.category
                   [] ask.kind = "financial_statement" -> {ask.statement}
                   [] OTHER -> {}]

CanGenerate == ~ generating /\ (ask.kind = "category_deep_dive" => ask.category # {})

\* Every click has an idempotency key of its own, which the endpoint ignores.
GenerateReport ==
  /\ CanGenerate /\ Len(artifacts) < MaxReports
  /\ ReportOverlap \/ reportCalls = {}
  /\ \/ /\ "refused" \in ReportFaults \/ RefusesReport(Asked)
        /\ SendReport([op |-> "generate", ok |-> FALSE, n |-> reportsSent])
        /\ UNCHANGED artifacts
     \/ /\ ~ RefusesReport(Asked)
        /\ artifacts' = <<NewArtifact(workspace, Asked)>> \o artifacts
        /\ \E ok \in {TRUE} \cup {"lost" \notin ReportFaults} :
             SendReport([op |-> "generate", ok |-> ok, n |-> reportsSent,
                         item |-> NewArtifact(workspace, Asked)])
  /\ generating' = TRUE
  /\ UNCHANGED <<workspace, history, ask>>

ReportAnswered ==
  \E c \in {c \in reportCalls : c.op = "generate"} :
    /\ ReportLands(c) /\ generating' = FALSE
    /\ history' = IF c.ok THEN <<c.item>> \o history ELSE history
    /\ UNCHANGED <<artifacts, workspace, ask, reportsSent>>

ReportPagesNext ==
  \/ ReportsAge \/ SwitchWorkspace \/ HistoryLands \/ PickKind \/ PickCategory
  \/ PickStatement \/ GenerateReport \/ ReportAnswered

ReportPagesSpec == ReportPagesInit /\ [][ReportPagesNext]_reportVars

-----------------------------------------------------------------------------
(* Properties                                                              *)

ReportPagesTypeOK ==
  /\ workspace \in ReportOrgs /\ Len(artifacts) <= MaxReports
  /\ \A i \in DOMAIN artifacts : artifacts[i].id \in 1..MaxReports
  /\ ask.kind \in ReportKinds /\ ask.statement \in StatementKinds
  /\ ask.category \subseteq ReportOrgs /\ generating \in BOOLEAN
  /\ reportsSent \in 0..MaxReportCalls

Ids(list) == [i \in DOMAIN list |-> list[i].id]

\* Once everything is answered the history is the active organization's, newest
\* first, each artifact once, wherever generating and switching left it
\* (use-reports.ts:17-45).
HistoryIsWhole == reportCalls = {} => Ids(history) = Ids(Artifacts(workspace))

\* A report is about its own organization (the picked category survives the
\* switch of the organization, ReportsView.tsx:55 and :79).
\* Not kept by the code (README, "By hand").
DeepDiveIsOwn ==
  \A i \in DOMAIN artifacts :
    artifacts[i].kind = "category_deep_dive" => artifacts[i].of \subseteq {artifacts[i].org}

\* A row that offers a download has not expired (ReportsView.tsx:92 keeps the
\* link that was listed).
\* Not kept by the code (README, "By hand").
LinksAreAlive ==
  \A i \in DOMAIN history : Offers(history[i]) =>
    \E j \in DOMAIN artifacts : artifacts[j].id = history[i].id /\ Offers(artifacts[j])
=============================================================================
