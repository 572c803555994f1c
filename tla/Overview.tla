------------------------------- MODULE Overview ------------------------------
(***************************************************************************)
(* The overview page (useOverviewController, OverviewView), the anomaly    *)
(* count of the navigation (useAnomalyBadgeController) and the two report  *)
(* endpoints they read.  The organization may be switched at any time; the *)
(* page's reads are not cancelled then, the count's is.                    *)
(***************************************************************************)
EXTENDS Integers, Sequences, FiniteSets, FiniteSetsExt

CONSTANTS Companies, Persons,  \* the user's organizations, by kind
          WindowMonths,        \* bound: months of the series (12 in the code), the last is this one
          MaxEntries,          \* bound: ledger entries ever
          MaxReads,            \* bound: reads of the page
          OverviewFaults       \* of "failed"

ASSUME OverviewAssumption ==
  /\ WindowMonths \in Nat /\ WindowMonths > 3 /\ MaxEntries \in Nat /\ MaxReads \in Nat
  /\ Companies \cap Persons = {} /\ OverviewFaults \subseteq {"failed"}

Workspaces == Companies \cup Persons
Months == 1..WindowMonths

VARIABLES ledgerEntries,    \* [n, org, month, income, flagged, excluded]: amounts of one unit
          cash,       \* companies with a confirmed balance sheet, of three units of cash
          current,    \* the active organization
          figures,    \* none or one load: [org, points, runway, latest, anomalies]
          donut,      \* none or one: [org, month, totals]
          badge,      \* the count of the navigation: [org, n]
          overviewLoading, pageError,
          reads, readsSent

overviewVars == <<ledgerEntries, cash, current, figures, donut, badge, overviewLoading, pageError,
                  reads, readsSent>>

-----------------------------------------------------------------------------
(* The endpoints                                                           *)

Own(o) == {t \in ledgerEntries : t.org = o}
Counted(o) == {t \in Own(o) : ~ t.excluded}

Totals(o, m) == Cardinality({t \in Counted(o) : t.month = m /\ ~ t.income})

MonthFlow(o, m) == [month |-> m, income |-> Cardinality({t \in Counted(o) : t.month = m /\ t.income}),
               expense |-> Totals(o, m)]

\* The months since the first counted entry.
Series(o) ==
  IF Counted(o) = {} THEN <<>>
  ELSE LET onset == Min({t.month : t \in Counted(o)})
       IN [i \in 1..(WindowMonths - onset + 1) |-> MonthFlow(o, onset + i - 1)]

\* The three full months before this one, each of which has a sum.
Trailing == (WindowMonths - 3)..(WindowMonths - 1)
Nets(o) == [m \in Trailing |-> MonthFlow(o, m).income - MonthFlow(o, m).expense]

\* Months of cash, in tenths, rounded; none for a person, without a balance
\* sheet, or when the three months earned more than they spent.
RunwaySnapshot(o) ==
  LET net == MapThenSumSet(LAMBDA m : Nets(o)[m], Trailing)
  IN IF o \in Persons \/ o \notin cash \/ net >= 0 THEN <<>>
     ELSE <<(180 - net) \div (-2 * net)>>

Monthly(o) == [org |-> o, points |-> Series(o), runway |-> RunwaySnapshot(o)]

\* The newest five, and the newest six flagged.
AtMost(n, k) == IF n < k THEN n ELSE k
LoadedFor(o) ==
  [flows |-> Monthly(o), latest |-> AtMost(Cardinality(Own(o)), 5),
   total |-> Totals(o, WindowMonths),
   anomalies |-> AtMost(Cardinality({t \in Own(o) : t.flagged}), 6)]

AddEntry ==
  /\ Cardinality(ledgerEntries) < MaxEntries
  /\ \E o \in Workspaces, m \in Months, income, flagged, excluded \in BOOLEAN :
       ledgerEntries' = ledgerEntries \cup {[n |-> Cardinality(ledgerEntries), org |-> o, month |-> m,
                                 income |-> income, flagged |-> flagged, excluded |-> excluded]}
  /\ UNCHANGED <<cash, current, figures, donut, badge, overviewLoading, pageError,
                 reads, readsSent>>

ConfirmBalanceSheet ==
  /\ \E o \in Companies \ cash : cash' = cash \cup {o}
  /\ UNCHANGED <<ledgerEntries, current, figures, donut, badge, overviewLoading,
                 pageError, reads, readsSent>>

-----------------------------------------------------------------------------
(* The page                                                                *)

PageRead(o) == [op |-> "page", org |-> o, got |-> LoadedFor(o), n |-> readsSent]
BadgeRead(o) == [op |-> "badge", org |-> o,
                 count |-> Cardinality({t \in Own(o) : t.flagged}), n |-> readsSent]
TotalsRead(o, m) == [op |-> "totals", org |-> o, month |-> m, total |-> Totals(o, m), n |-> readsSent]

OverviewInit ==
  /\ ledgerEntries = {} /\ cash = {} /\ current \in Workspaces
  /\ figures = <<>> /\ donut = <<>> /\ badge = [org |-> current, n |-> 0]
  /\ overviewLoading = TRUE /\ pageError = FALSE
  /\ readsSent = 0 /\ reads = {PageRead(current), BadgeRead(current)}

MoreReads == readsSent < MaxReads /\ readsSent' = readsSent + 1

\* Slip: the count of the organization that is left is still read.
SwitchKeepsReads ==
  /\ MoreReads
  /\ \E o \in Workspaces \ {current} :
       current' = o /\ reads' = reads \cup {PageRead(o), BadgeRead(o)}
  /\ overviewLoading' = TRUE /\ pageError' = FALSE
  /\ UNCHANGED <<ledgerEntries, cash, figures, donut, badge>>

\* The count's read of the organization that is left is cancelled.
SwitchCurrent ==
  /\ MoreReads
  /\ \E o \in Workspaces \ {current} :
       /\ current' = o
       /\ reads' = {r \in reads : r.op # "badge"} \cup {PageRead(o), BadgeRead(o)}
  /\ overviewLoading' = TRUE /\ pageError' = FALSE
  /\ UNCHANGED <<ledgerEntries, cash, figures, donut, badge>>

\* The five reads of a load, taken together: one that fails, but for the tax
\* estimates, loses them all.
PageLands ==
  \E r \in {r \in reads : r.op = "page"} :
    /\ reads' = reads \ {r} /\ overviewLoading' = FALSE
    /\ \/ /\ figures' = <<r.got>> /\ UNCHANGED pageError
          /\ donut' = <<[org |-> r.org, month |-> WindowMonths, total |-> r.got.total]>>
       \/ "failed" \in OverviewFaults /\ pageError' = TRUE /\ UNCHANGED <<figures,
                                                                          donut>>
    /\ UNCHANGED <<ledgerEntries, cash, current, badge, readsSent>>

BadgeLands ==
  \E r \in {r \in reads : r.op = "badge"} :
    /\ reads' = reads \ {r}
    /\ \/ badge' = [org |-> r.org, n |-> AtMost(r.count, 100)]
       \/ "failed" \in OverviewFaults /\ badge' = [org |-> r.org, n |-> 0]
    /\ UNCHANGED <<ledgerEntries, cash, current, figures, donut, overviewLoading,
                   pageError, readsSent>>

\* Nothing in the ledger: the page is an invitation to upload.
IsEmpty ==
  /\ ~ overviewLoading
  /\ \/ figures = <<>>
     \/ /\ figures[1].latest = 0
        /\ LET points == figures[1].flows.points
           IN points = <<>> \/ points[Len(points)].income = 0

PickDonutMonth ==
  /\ ~ overviewLoading /\ ~ IsEmpty /\ MoreReads
  /\ \E m \in Months : reads' = reads \cup {TotalsRead(current, m)}
  /\ UNCHANGED <<ledgerEntries, cash, current, figures, donut, badge, overviewLoading,
                 pageError>>

\* A refusal is caught by nobody.
MonthLands ==
  \E r \in {r \in reads : r.op = "totals"} :
    /\ reads' = reads \ {r}
    /\ \/ donut' = <<[org |-> r.org, month |-> r.month, total |-> r.total]>>
       \/ "failed" \in OverviewFaults /\ UNCHANGED donut
    /\ UNCHANGED <<ledgerEntries, cash, current, figures, badge, overviewLoading,
                   pageError, readsSent>>

OverviewNext ==
  \/ AddEntry \/ ConfirmBalanceSheet \/ SwitchCurrent \/ PageLands \/ BadgeLands
  \/ PickDonutMonth \/ MonthLands

OverviewSpec == OverviewInit /\ [][OverviewNext]_overviewVars

-----------------------------------------------------------------------------
(* Properties                                                              *)

OverviewTypeOK ==
  /\ current \in Workspaces /\ cash \subseteq Companies /\ badge.org \in Workspaces
  /\ Len(figures) <= 1 /\ Len(donut) <= 1 /\ readsSent \in 0..MaxReads
  /\ overviewLoading \in BOOLEAN /\ pageError \in BOOLEAN

\* The navigation counts the anomalies of the organization one works in, however
\* quickly it was switched and whichever answer came first
\* (use-anomaly-badge.ts:17-30).
BadgeIsOfWorkspace == (\A r \in reads : r.op # "badge") => badge.org = current

\* The figures are the active organization's once they are loaded (a read of the
\* organization that was left may land last, use-overview.ts:33-61).
\* Not kept by the code (README, "By hand").
FiguresAreOfWorkspace ==
  reads = {} /\ figures # <<>> => figures[1].flows.org = current

\* A runway is the average of three full months, and an organization with less
\* history has none: "n/a - insufficient ledger history"
\* (report/monthly/route.ts:34-35 and 70-72).
\* Not kept by the code (README, "By hand").
RunwayNeedsHistory ==
  figures # <<>> /\ figures[1].flows.runway # <<>> =>
    LET o == figures[1].flows.org
    IN \A m \in Trailing : \E t \in Own(o) : t.month <= m

\* Whoever is invited to upload has nothing in the ledger (a load that failed
\* hides its error and invites too, OverviewView.tsx:46-78).
\* Not kept by the code (README, "By hand").
InvitedIsEmpty == IsEmpty /\ reads = {} => ~ pageError
=============================================================================
