---------------------------- MODULE MCWebPages ----------------------------
(***************************************************************************)
(* Small instances of the pages of the web client and of sign-in, for TLC. *)
(* The parts share no variable: a behaviour is one part's, chosen at the   *)
(* start, while the others stand still.                                    *)
(***************************************************************************)
EXTENDS SignIn, LedgerPage, CategoryPages, MembersPage,
        ReportPages, StatementPage, RatioPages, OrgWorkspace, Overview,
        PeriodPicker, ShellChrome, Charts, FloatingLayers, Theme, TableTools,
        SavedViews

CONSTANTS t1, t2

CONSTANT Parts  \* of the names below
VARIABLE part   \* which part this behaviour is of

-----------------------------------------------------------------------------
(* Values of the constants                                                 *)

MCViews == {[dir |-> "income", anomalyOnly |-> FALSE]}

\* Statements of two years, of which one has liabilities and equity below zero.
Balance(year, equity) ==
  [kind |-> "balance_sheet", period |-> FY(year),
   lines |-> [current_assets |-> 30, current_liabilities |-> 20, inventory |-> 0,
              cash_and_equivalents |-> 10, short_term_debt |-> 5, long_term_debt |-> -5,
              equity |-> equity, receivables |-> year - 2020]]
Income(year, revenueLine) ==
  [kind |-> "income_statement", period |-> FY(year),
   lines |-> [revenue |-> revenueLine, net_income |-> 4, cogs |-> 3]]
MCBooks == <<Balance(2025, -2), Income(2024, 10), Income(2025, 10), Balance(2024, 3)>>
MCNets == <<<<-3>>, <<-3, -4, 2>>>>
MCGridPeriods == {FY(2024), FY(2025)}

\* The chrome: paths it leads to, and what typed queries match.
MCVisited == {Imports, Company, Ratios, Onboarding, StatementPath("s1")}
MCQueries == {{[group |-> "action", path |-> Company]}}

\* Lines of one sign, of both, of one value and of none but zero; months of
\* more and of fewer categories than a legend names; ranges that are open.
MCPointLists ==
  {<<12, 34, 9>>, <<-130, 46000>>, <<-500, -20>>, <<0, 0>>, <<7000>>, <<-45>>, <<25, 26, -3, -3>>}
MCSliceLists == {<<5, 3>>, <<1, 2, 3, 4, 5, 6, 7>>, <<0>>}
MCMagnitudes == {1, 10, 100, 1000, 10000}
Healthy(min, max) == [min |-> min, max |-> max]
MCBands == {Healthy(<<1500>>, <<3000>>), Healthy(<<1000>>, <<>>), Healthy(<<>>, <<1000>>)}
MCRatioValues == {<<>>, <<-700>>, <<1500>>, <<9000>>}

\* An anchor with room below, above and nowhere; at the right edge beside a
\* scroll bar; and a window narrower than the panel.
Anchored(width, height, bar, left, right, top, bottom, panelW, panelH) ==
  [width |-> width, height |-> height, bar |-> bar, left |-> left, right |-> right,
   top |-> top, bottom |-> bottom, panelW |-> panelW, panelH |-> panelH]
MCGeometries ==
  {Anchored(10000, 8000, 0, 3000, 4000, 1000, 1400, 2400, 3003),
   Anchored(10000, 8000, 0, 3000, 4000, 6000, 6400, 2400, 3003),
   Anchored(10000, 8000, 0, 3000, 4000, -300, -25, 2400, 9003),
   Anchored(10000, 8000, 150, 8503, 9903, 4000, 4400, 2400, 6000),
   Anchored(3600, 1200, 0, -20, 900, 500, 900, 4000, 2405)}
MCSelectOptions ==
  <<[value |-> "a", disabled |-> FALSE], [value |-> "b", disabled |-> TRUE],
    [value |-> "c", disabled |-> FALSE]>>
MCTyped == {{}, {"c"}, {"b", "c"}}

MCSortKey == [column \in {"amount"} |-> [t \in {1, 2} |-> -t]]
MCChipQueries == {{}}

-----------------------------------------------------------------------------
(* Composition                                                            *)

\* The parts that are not looked at stay as they start.
Rest ==
  /\ IF part = "sign-in" THEN TRUE ELSE UNCHANGED signInVars
  /\ IF part = "transactions" THEN TRUE ELSE UNCHANGED ledgerPageVars
  /\ IF part = "categories" THEN TRUE ELSE UNCHANGED categoryPagesVars
  /\ IF part = "members" THEN TRUE ELSE UNCHANGED membersVars
  /\ IF part = "reports" THEN TRUE ELSE UNCHANGED reportVars
  /\ IF part = "statements" THEN TRUE ELSE UNCHANGED statementPageVars
  /\ IF part = "ratios" THEN TRUE ELSE UNCHANGED ratioVars
  /\ IF part = "shell" THEN TRUE ELSE UNCHANGED orgVars
  /\ IF part = "overview" THEN TRUE ELSE UNCHANGED overviewVars
  /\ IF part = "picker" THEN TRUE ELSE UNCHANGED pickerVars
  /\ IF part = "chrome" THEN TRUE ELSE UNCHANGED chromeVars
  /\ IF part = "charts" THEN TRUE ELSE UNCHANGED chartVars
  /\ IF part = "layers" THEN TRUE ELSE UNCHANGED layerVars
  /\ IF part = "theme" THEN TRUE ELSE UNCHANGED themeVars
  /\ IF part = "table" THEN TRUE ELSE UNCHANGED toolVars
  /\ IF part = "views" THEN TRUE ELSE UNCHANGED viewVars

\* ... from one of their initial states.
PagesInit ==
  /\ part \in Parts
  /\ SignInInit
  /\ LedgerPageInit /\ (part # "transactions" => ~ filters.anomalyOnly)
  /\ CategoryPagesInit /\ (part # "categories" => editor = NoDraft)
  /\ MembersPageInit
  /\ ReportPagesInit /\ (part # "reports" => workspace = "o1")
  /\ StatementPageInit /\ (part # "statements" => stmts = <<>>)
  /\ RatioPagesInit
  /\ OrgWorkspaceInit /\ (part # "shell" => person = "p1")
  /\ OverviewInit /\ (part # "overview" => current = "o1")
  /\ PickerInit /\ (part # "picker" => mode = "day" /\ chosen = <<>>)
  /\ ShellChromeInit /\ (part # "chrome" => orgKind = "personal")
  /\ ChartsInit /\ (part # "charts" => gauge.band = Healthy(<<1000>>, <<>>))
  /\ FloatingLayersInit
  /\ part # "layers" =>
       geometry = Anchored(10000, 8000, 0, 3000, 4000, 1000, 1400, 2400, 3003)
  /\ ThemeInit /\ (part # "theme" => themeStored = "dark" /\ osDark)
  /\ TableToolsInit
  /\ SavedViewsInit /\ (part # "views" => owner = "o1")

PagesNext ==
  \/ part = "sign-in" /\ SignInNext /\ Rest /\ UNCHANGED part
  \/ part = "transactions" /\ LedgerPageNext /\ Rest /\ UNCHANGED part
  \/ part = "categories" /\ CategoryPagesNext /\ Rest /\ UNCHANGED part
  \/ part = "members" /\ MembersPageNext /\ Rest /\ UNCHANGED part
  \/ part = "reports" /\ ReportPagesNext /\ Rest /\ UNCHANGED part
  \/ part = "statements" /\ StatementPageNext /\ Rest /\ UNCHANGED part
  \/ part = "ratios" /\ RatioPagesNext /\ Rest /\ UNCHANGED part
  \/ part = "shell" /\ OrgWorkspaceNext /\ Rest /\ UNCHANGED part
  \/ part = "overview" /\ OverviewNext /\ Rest /\ UNCHANGED part
  \/ part = "picker" /\ PickerNext /\ Rest /\ UNCHANGED part
  \/ part = "chrome" /\ ShellChromeNext /\ Rest /\ UNCHANGED part
  \/ part = "charts" /\ ChartsNext /\ Rest /\ UNCHANGED part
  \/ part = "layers" /\ FloatingLayersNext /\ Rest /\ UNCHANGED part
  \/ part = "theme" /\ ThemeNext /\ Rest /\ UNCHANGED part
  \/ part = "table" /\ TableToolsNext /\ Rest /\ UNCHANGED part
  \/ part = "views" /\ SavedViewsNext /\ Rest /\ UNCHANGED part

pagesVars ==
  <<part, signInVars, ledgerPageVars, categoryPagesVars, membersVars, reportVars,
    statementPageVars, ratioVars, orgVars, overviewVars, pickerVars, chromeVars, chartVars,
    layerVars, themeVars, toolVars, viewVars>>

PagesSpec == PagesInit /\ [][PagesNext]_pagesVars

\* What tells two states apart: the part that is looked at, since the others are
\* as they start.
PartView ==
  <<part,
    CASE part = "sign-in" -> signInVars
      [] part = "transactions" -> ledgerPageVars
      [] part = "categories" -> categoryPagesVars
      [] part = "members" -> membersVars
      [] part = "reports" -> reportVars
      [] part = "statements" -> statementPageVars
      [] part = "ratios" -> ratioVars
      [] part = "shell" -> orgVars
      [] part = "overview" -> overviewVars
      [] part = "picker" -> pickerVars
      [] part = "chrome" -> chromeVars
      [] part = "charts" -> chartVars
      [] part = "layers" -> layerVars
      [] part = "theme" -> themeVars
      [] part = "table" -> toolVars
      [] part = "views" -> viewVars>>

-----------------------------------------------------------------------------
(* Properties                                                              *)

PagesTypeOK ==
  /\ SignInTypeOK /\ LedgerPageTypeOK /\ CategoryPagesTypeOK
  /\ MembersPageTypeOK /\ ReportPagesTypeOK
  /\ StatementPageTypeOK /\ RatioPagesTypeOK /\ OrgWorkspaceTypeOK
  /\ OverviewTypeOK /\ PickerTypeOK
  /\ ShellChromeTypeOK /\ ChartsTypeOK /\ FloatingLayersTypeOK /\ ThemeTypeOK
  /\ TableToolsTypeOK /\ SavedViewsTypeOK

\* What a page keeps of the server's records is what the server has, once no
\* answer is on its way: transactions, categories, members and reports
\* (use-transactions.ts, use-categories.ts, use-settings.ts, use-reports.ts).
PagesShowTheRecords ==
  ShownRowsAreTrue /\ TabShowsItsRegistry /\ RosterIsTrue /\ HistoryIsWhole

\* The client's furniture keeps its word: the drawer is a phone's, a closed
\* palette forgets, the rail is remembered and nobody is left on the pages of
\* another kind (DashboardShell.tsx, CommandPalette.tsx), a picture shows
\* its figures (chart-scale.ts, RatioGauge.tsx), a layer is in the window
\* beside its anchor (use-viewport-clamp.ts), the page carries the theme that
\* the control shows (ThemeProvider.tsx), and the table's tools are of what it
\* lists (TransactionsView.tsx, use-saved-views.ts).
FurnitureIsTrue ==
  /\ DrawerIsAPhones /\ ClosedIsFresh /\ RailIsRemembered /\ PersonalLeavesCompany
  /\ PicturesAreTrue
  /\ ClosedForgets /\ FixedFollows /\ LayersFit
  /\ ThemeIsApplied
  /\ MenuFocusIsAnItem /\ ComparablesAreItsOwn /\ ViewsAreStored

\* Figures are accounted for: a total of a company's that is off is warned of,
\* a stored report has every statement of its period (statement-engine.ts,
\* ratio-engine.ts), and a month's donut has all of its expenses
\* (OverviewSidePanels.tsx).
FiguresAreAccountedFor == DivergenceIsWarned /\ StoredHasItsPeriod /\ DonutIsWhole
=============================================================================
