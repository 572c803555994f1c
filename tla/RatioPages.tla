----------------------------- MODULE RatioPages -----------------------------
(***************************************************************************)
(* The ratio grid of a company (RatiosView), its controllers (use-ratios,  *)
(* use-trends) and the mock API's ratio routes with their cache of         *)
(* reports.  Other pages confirm statements and record transactions.  A    *)
(* report is a function of its period and of what the server held when it  *)
(* was computed, so the model keeps that version in its place.  A call     *)
(* takes effect when it is sent; answers arrive in any order.              *)
(***************************************************************************)
EXTENDS RatioEngine, Functions

CONSTANTS Books,        \* statements in the order they will be confirmed
          LedgerNets,   \* what the trailing months' net flows become, in order
          GridPeriods,  \* periods the picker offers
          MaxGridCalls, \* bound: calls
          RatioFaults   \* of "refused": a call may fail

ASSUME RatioPagesAssumption ==
  /\ LedgerNets \in Seq(Seq(Int)) /\ LedgerNets # <<>>
  /\ MaxGridCalls \in Nat /\ RatioFaults \subseteq {"refused"}
  /\ Books \in Seq(Range(Books))
  /\ \A i \in DOMAIN Books : Books[i].kind \in {"balance_sheet", "income_statement", "cash_flow"}

VARIABLES ledgerOf,   \* the server: [confirmed, nets], counts of the sequences
          ratioCache, \* stored reports: [period -> version]
          listSeen,   \* the page's list of statements: confirmed ones, or -1
          gridPeriod, \* the page's period, none or one
          grid,       \* the report shown: [period, version], none or one
          gridBusy,   \* loading
          gridError,
          traced,     \* the inspector: [key, period, version], none or one
          trend,      \* confirmed income statements in the trend chart, or -1
          gridCalls,  \* answers on their way
          gridSent

ratioVars == <<ledgerOf, ratioCache, listSeen, gridPeriod, grid, gridBusy, gridError,
               traced, trend, gridCalls, gridSent>>

ReportAt(p, v) ==
  ComputeRatioReport(SubSeq(Books, 1, v.confirmed), LedgerNets[v.nets], p)

RatioPagesInit ==
  /\ ledgerOf = [confirmed |-> 0, nets |-> 1] /\ ratioCache = <<>>
  /\ listSeen = -1 /\ gridPeriod = <<>> /\ grid = <<>> /\ gridBusy = FALSE
  /\ gridError = FALSE /\ traced = <<>> /\ trend = -1 /\ gridCalls = {} /\ gridSent = 0

-----------------------------------------------------------------------------
(* The server                                                              *)

\* Slip: a stored report is never replaced.
StoredOnce(cache, p, v) ==
  [q \in DOMAIN cache \cup {p} |-> IF q \in DOMAIN cache THEN cache[q] ELSE v]

Stored(cache, p, v) == [q \in DOMAIN cache \cup {p} |-> IF q = p THEN v ELSE cache[q]]

\* Another page confirms the next statement: the report of its period, and no
\* other, is computed anew.
ConfirmNext ==
  /\ ledgerOf.confirmed < Len(Books)
  /\ ledgerOf' = [ledgerOf EXCEPT !.confirmed = @ + 1]
  /\ ratioCache' = Stored(ratioCache, Books[ledgerOf'.confirmed].period, ledgerOf')
  /\ UNCHANGED <<listSeen, gridPeriod, grid, gridBusy, gridError, traced, trend, gridCalls, gridSent>>

RecordTransactions ==
  /\ ledgerOf.nets < Len(LedgerNets)
  /\ ledgerOf' = [ledgerOf EXCEPT !.nets = @ + 1]
  /\ UNCHANGED <<ratioCache, listSeen, gridPeriod, grid, gridBusy, gridError, traced, trend,
                 gridCalls, gridSent>>

\* GET computes a report only when none is stored.
AfterGet(p) == IF p \in DOMAIN ratioCache THEN ratioCache ELSE Stored(ratioCache, p, ledgerOf)
AfterCompute(p) == Stored(ratioCache, p, ledgerOf)

-----------------------------------------------------------------------------
(* The page                                                                *)

\* The list of statements arrives; the trend effect reads their mappings.
ListLoads ==
  /\ listSeen # ledgerOf.confirmed
  /\ listSeen' = ledgerOf.confirmed
  /\ gridCalls' = {c \in gridCalls : c.op # "trend"} \cup {[op |-> "trend", seen |-> listSeen']}
  /\ UNCHANGED <<ledgerOf, ratioCache, gridPeriod, grid, gridBusy, gridError, traced, trend, gridSent>>

IncomeStatements(n) == Cardinality({i \in 1..n : Books[i].kind = "income_statement"})

\* An effect of a later list cancels the earlier one's reads.
TrendLoads ==
  \E c \in {c \in gridCalls : c.op = "trend"} :
    /\ gridCalls' = gridCalls \ {c}
    /\ trend' = IF IncomeStatements(c.seen) = 0 THEN -1 ELSE IncomeStatements(c.seen)
    /\ UNCHANGED <<ledgerOf, ratioCache, listSeen, gridPeriod, grid, gridBusy, gridError, traced, gridSent>>

\* Most recently confirmed first.
DefaultPeriods == {Books[listSeen].period : n \in {n \in {listSeen} : n > 0}}

SendGrid(op, p, cache) ==
  /\ gridSent < MaxGridCalls /\ gridSent' = gridSent + 1
  /\ ratioCache' = cache
  /\ gridCalls' = gridCalls \cup {[op |-> op, period |-> p, version |-> cache[p]]}
  /\ gridBusy' = TRUE /\ gridError' = FALSE

DefaultPeriod ==
  /\ gridPeriod = <<>>
  /\ \E p \in DefaultPeriods : gridPeriod' = <<p>> /\ SendGrid("load", p, AfterGet(p))
  /\ UNCHANGED <<ledgerOf, listSeen, grid, traced, trend>>

PickPeriod ==
  /\ \E p \in GridPeriods : gridPeriod' = <<p>> /\ SendGrid("load", p, AfterGet(p))
  /\ UNCHANGED <<ledgerOf, listSeen, grid, traced, trend>>

\* The button shows the controller's loading, any call's.
Recompute ==
  /\ gridPeriod # <<>> /\ ~ gridBusy
  /\ SendGrid("compute", gridPeriod[1], AfterCompute(gridPeriod[1]))
  /\ UNCHANGED <<ledgerOf, listSeen, gridPeriod, grid, traced, trend>>

\* No answer is dropped: the last one to arrive stays.
AnswerGrid ==
  \E c \in {c \in gridCalls : c.op \in {"load", "compute"}} :
    /\ gridCalls' = gridCalls \ {c} /\ gridBusy' = FALSE
    /\ \/ grid' = <<[period |-> c.period, version |-> c.version]>> /\ gridError' = gridError
       \/ /\ "refused" \in RatioFaults /\ gridError' = TRUE
          /\ grid' = IF c.op = "load" THEN <<>> ELSE grid
    /\ UNCHANGED <<ledgerOf, ratioCache, listSeen, gridPeriod, traced, trend, gridSent>>

\* What the page shows in place of the grid.
NoInputs == listSeen <= 0
GridShown == ~ NoInputs /\ grid # <<>>
GridSkeleton == ~ NoInputs /\ gridBusy /\ grid = <<>>

\* The trace is asked for by key and by the page's period.
OpenTrace ==
  /\ GridShown /\ gridPeriod # <<>> /\ traced = <<>> /\ gridSent < MaxGridCalls
  /\ gridSent' = gridSent + 1
  /\ ratioCache' = AfterGet(gridPeriod[1])
  /\ gridCalls' = gridCalls \cup
       {[op |-> "trace", period |-> gridPeriod[1], version |-> ratioCache'[gridPeriod[1]],
         shown |-> grid[1]]}
  /\ UNCHANGED <<ledgerOf, listSeen, gridPeriod, grid, gridBusy, gridError, traced, trend>>

\* A refused trace shows the card's own result.
AnswerTrace ==
  \E c \in {c \in gridCalls : c.op = "trace"} :
    /\ gridCalls' = gridCalls \ {c}
    /\ \/ traced' = <<[period |-> c.period, version |-> c.version]>>
       \/ "refused" \in RatioFaults /\ traced' = <<c.shown>>
    /\ UNCHANGED <<ledgerOf, ratioCache, listSeen, gridPeriod, grid, gridBusy, gridError, trend, gridSent>>

CloseTrace ==
  /\ traced # <<>> /\ traced' = <<>>
  /\ UNCHANGED <<ledgerOf, ratioCache, listSeen, gridPeriod, grid, gridBusy, gridError, trend,
                 gridCalls, gridSent>>

RatioPagesNext ==
  \/ ConfirmNext \/ RecordTransactions \/ ListLoads \/ TrendLoads \/ DefaultPeriod \/ PickPeriod
  \/ Recompute \/ AnswerGrid \/ OpenTrace \/ AnswerTrace \/ CloseTrace

RatioPagesSpec == RatioPagesInit /\ [][RatioPagesNext]_ratioVars

-----------------------------------------------------------------------------
(* A card of the grid                                                      *)

\* The sign of the change decides the color, for every metric.
DeltaColor(r) == IF r.delta[1][1] * r.delta[1][2] >= 0 THEN "income" ELSE "expense"
Worse(r) ==
  \/ r.direction = "higher" /\ r.delta[1][1] * r.delta[1][2] < 0
  \/ r.direction = "lower" /\ r.delta[1][1] * r.delta[1][2] > 0

-----------------------------------------------------------------------------
(* Properties                                                              *)

RatioPagesTypeOK ==
  /\ ledgerOf.confirmed \in 0..Len(Books) /\ ledgerOf.nets \in DOMAIN LedgerNets
  /\ listSeen \in -1..Len(Books) /\ trend \in -1..Len(Books)
  /\ gridBusy \in BOOLEAN /\ gridError \in BOOLEAN /\ gridSent \in 0..MaxGridCalls
  /\ Len(gridPeriod) <= 1 /\ Len(grid) <= 1 /\ Len(traced) <= 1

StatementsOf(p, n) == {i \in 1..n : Books[i].period = p}

\* A stored report has every confirmed statement of its period, whichever of
\* the page, the trace and the confirmation computed it (ratio-engine.ts:608
\* returns a stored one as it is; confirm/route.ts:64 replaces it).
StoredHasItsPeriod ==
  \A p \in DOMAIN ratioCache :
    StatementsOf(p, ratioCache[p].confirmed) = StatementsOf(p, ledgerOf.confirmed)

\* A stored report is what would be computed now.  Confirming the year before,
\* or a new transaction, leaves the deltas, growth and runway of the past.
\* Not kept by the code (README, "By hand").
StoredIsCurrent ==
  \A p \in DOMAIN ratioCache : ReportAt(p, ratioCache[p]) = ReportAt(p, ledgerOf)

\* With no call under way the grid shows the period of the picker
\* (RatiosView.tsx:202; use-ratios.ts:17 drops no late answer).
\* Not kept by the code (README, "By hand").
GridIsOfItsPeriod == gridBusy \/ grid = <<>> \/ gridPeriod = <<grid[1].period>>

\* No value of a report is of a degenerate denominator, none has a verdict
\* without a value (ratio-engine.ts:199, :297, :502).
NoDegenerateValue ==
  GridShown => \A r \in Range(ReportAt(grid[1].period, grid[1].version)) :
    /\ (r.value = <<>>) = (r.status = "na")
    /\ r.value # <<>> => r.value[1][2] > 0
    /\ r.delta # <<>> => r.value # <<>> /\ r.delta[1][2] > 0

\* A change for the worse is not shown in the color of income (ratios.ts:5:
\* "direction for gauge/delta coloring"; RatioGauge.tsx:199).
\* Not kept by the code (README, "By hand").
DeltaColorFollowsDirection ==
  GridShown => \A r \in Range(ReportAt(grid[1].period, grid[1].version)) :
    r.delta # <<>> /\ Worse(r) => DeltaColor(r) = "expense"
=============================================================================
