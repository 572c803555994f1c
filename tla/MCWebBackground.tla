------------------------- MODULE MCWebBackground -------------------------
(***************************************************************************)
(* Small instances, for TLC, of what the web client follows while it goes  *)
(* on elsewhere: bank syncs, exports, uploads, imports and filings, with   *)
(* the mock's jobs.  The parts share no variable: a behaviour is one       *)
(* part's, chosen at the start, while the others stand still.              *)
(***************************************************************************)
EXTENDS AccountsPage, PrivacyPage, UploadGateway, ImportHub, StagedReview,
        MockImports, TaxPages

CONSTANT Parts  \* of the names below
VARIABLE part   \* which part this behaviour is of

-----------------------------------------------------------------------------
(* Values of the constants                                                 *)

Plain ==
  [magic |-> "none", bytes |-> <<>>, large |-> FALSE, broken |-> FALSE, size |-> "within"]

\* Every text of at most five bytes, whole; one that is cut; and one file of
\* each other kind.
Texts == UNION {[1..n -> {"ascii", "lead2", "lead3", "lead4", "more"}] : n \in 1..5}
MCTexts == {[Plain EXCEPT !.bytes = b] :
              b \in {b \in Texts : Decodes(b)} \cup {<<"ascii", "lead2">>}}
MCOthers ==
  {[Plain EXCEPT !.magic = "pdf"], [Plain EXCEPT !.magic = "zip"],
   [Plain EXCEPT !.magic = "workbook"], [Plain EXCEPT !.bytes = <<"zero">>],
   [Plain EXCEPT !.size = "empty"], [Plain EXCEPT !.size = "over"],
   [Plain EXCEPT !.magic = "png", !.large = TRUE],
   [Plain EXCEPT !.magic = "png", !.broken = TRUE]}
MCFiles == MCTexts \cup MCOthers
MCTicketType == [t \in GatewayTickets |-> "csv"]

MCCategories == [sales |-> [tax |-> "taxable_income", vat |-> "vatable", basis |-> "inclusive"]]
MCSales == <<[dir |-> "income", cat |-> "sales", amount |-> 2150000, year |-> 2025, month |-> 12]>>
MCStatements ==
  <<[period |-> Year(2025), status |-> "staged",
     lines |-> [revenue |-> 120000000, net_income |-> 30000000]]>>
MCFilingPeriods ==
  [vat |-> <<Month(2025, 12), Month(2026, 7)>>, cit |-> <<Year(2025)>>, pit |-> <<Year(2025)>>]
MCToday == [year |-> 2026, month |-> 7, last |-> FALSE]

-----------------------------------------------------------------------------
(* Composition                                                            *)

\* The parts that are not looked at stay as they start.
Still ==
  /\ IF part = "accounts" THEN TRUE ELSE UNCHANGED accountsPageVars
  /\ IF part = "privacy" THEN TRUE ELSE UNCHANGED privacyVars
  /\ IF part = "uploads" THEN TRUE ELSE UNCHANGED gatewayVars
  /\ IF part = "imports" THEN TRUE ELSE UNCHANGED importHubVars
  /\ IF part = "mock imports" THEN TRUE ELSE UNCHANGED mockImportsVars
  /\ IF part = "review" THEN TRUE ELSE UNCHANGED stagedReviewVars
  /\ IF part = "taxes" THEN TRUE ELSE UNCHANGED taxPagesVars

\* ... from one of their initial states.
PagesInit ==
  /\ part \in Parts
  /\ AccountsPageInit
  /\ part # "accounts" =>
       account = [a \in Accounts |-> "absent"] /\ ~ journey.open
  /\ PrivacyPageInit /\ (part # "privacy" => deletion = "none" /\ ~ aiRecord)
  /\ UploadGatewayInit
  /\ part # "uploads" =>
       ~ kafkaUp /\ fileOf = [t \in GatewayTickets |-> [Plain EXCEPT !.bytes = <<"ascii">>]]
  /\ ImportHubInit
  /\ MockImportsInit
  /\ part # "mock imports" =>
       link = [l \in Links |-> Unlinked("none")]
  /\ StagedReviewInit
  /\ TaxPagesInit
  /\ part # "taxes" =>
       taxScreen = "taxes" /\ ~ revenue.address /\ revenue.profile = EmptyTaxProfile("company")

PagesNext ==
  \/ part = "accounts" /\ AccountsPageNext /\ Still /\ UNCHANGED part
  \/ part = "privacy" /\ PrivacyPageNext /\ Still /\ UNCHANGED part
  \/ part = "uploads" /\ UploadGatewayNext /\ Still /\ UNCHANGED part
  \/ part = "imports" /\ ImportHubNext /\ Still /\ UNCHANGED part
  \/ part = "mock imports" /\ MockImportsNext /\ Still /\ UNCHANGED part
  \/ part = "review" /\ StagedReviewNext /\ Still /\ UNCHANGED part
  \/ part = "taxes" /\ TaxPagesNext /\ Still /\ UNCHANGED part

pagesVars ==
  <<part, accountsPageVars, privacyVars, gatewayVars, importHubVars,
    mockImportsVars, stagedReviewVars, taxPagesVars>>

\* Where a part starts, nothing is under way that fairness would push.
PagesSpec ==
  PagesInit /\ [][PagesNext]_pagesVars /\ AccountsPageFairness /\ PrivacyPageFairness

-----------------------------------------------------------------------------
(* Properties                                                              *)

BackgroundTypeOK ==
  /\ AccountsPageTypeOK /\ PrivacyPageTypeOK /\ UploadGatewayTypeOK
  /\ ImportHubTypeOK /\ StagedReviewTypeOK /\ MockImportsTypeOK
  /\ TaxPagesTypeOK
=============================================================================
