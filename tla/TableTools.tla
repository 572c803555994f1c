------------------------------ MODULE TableTools ------------------------------
(***************************************************************************)
(* The tools of the transactions table: its sorting and its keys           *)
(* (TableHeader.tsx, TransactionsView.tsx), the menu of a row and the chip *)
(* of its category (TxnTableRow.tsx, CategoryChip.tsx), and the            *)
(* transactions an anomaly is compared with                                *)
(* (TransactionAnomalyInspector.tsx).  A transaction is its place in the   *)
(* list as it was loaded; a query is the set of categories it matches.     *)
(***************************************************************************)
EXTENDS Integers, Sequences, FiniteSets

CONSTANTS Txns,       \* places of transactions
          Columns,    \* sortable columns
          SortKey,    \* [Columns -> [Txns -> Int]]
          Flagged,    \* the transactions with an anomaly
          ChipQueries, Categories,
          ToolFaults  \* of "failed"

ASSUME TableToolsAssumption ==
  /\ Txns \subseteq Nat /\ SortKey \in [Columns -> [Txns -> Int]] /\ Flagged \subseteq Txns
  /\ ChipQueries \subseteq SUBSET Categories /\ ToolFaults \subseteq {"failed"}

VARIABLES tableRows,  \* the transactions shown
          order,      \* [column, direction], none or one
          focused,    \* the row that has the focus, none or one
          rowMenu,    \* [row, item], none or one
          chip,       \* [row, open, query], none or one
          inspected,  \* [row, explain], none or one
          explained,  \* whose comparables are shown, none or one
          comparing   \* ... are being fetched, none or one

toolVars == <<tableRows, order, focused, rowMenu, chip, inspected, explained, comparing>>

rowVars == <<focused, rowMenu, chip>>
explainVars == <<inspected, explained, comparing>>

-----------------------------------------------------------------------------
(* The order of the rows                                                   *)

\* Ties stay in the order of the list.
Before(a, b, by) ==
  IF by = <<>> THEN a < b
  ELSE LET x == SortKey[by[1].column][a]
           y == SortKey[by[1].column][b]
       IN IF x = y THEN a < b
          ELSE IF by[1].direction = "asc" THEN x < y ELSE y < x

\* The row below, none or one, and the row above.
RowBelow(r) ==
  {s \in tableRows : /\ Before(r, s, order)
                     /\ ~ \E u \in tableRows : Before(r, u, order) /\ Before(u, s, order)}
RowAbove(r) == {s \in tableRows : r \in RowBelow(s)}

\* Ascending, descending, not at all.
SortedBy(column) ==
  IF order = <<>> \/ order[1].column # column THEN <<[column |-> column, direction |-> "asc"]>>
  ELSE IF order[1].direction = "asc" THEN <<[column |-> column, direction |-> "desc"]>>
  ELSE <<>>

OnSortChange ==
  /\ \E column \in Columns : order' = SortedBy(column)
  /\ UNCHANGED <<tableRows, rowVars, explainVars>>

\* Twice the median of sorted amounts.
TwiceMedian(amounts) ==
  LET mid == Len(amounts) \div 2
  IN IF Len(amounts) % 2 = 0 THEN amounts[mid] + amounts[mid + 1] ELSE 2 * amounts[mid + 1]

-----------------------------------------------------------------------------
(* What an anomaly is compared with                                        *)

\* The flagged row that is explained; it must be in the list.
Explaining(open, rows) ==
  IF open # <<>> /\ open[1].explain /\ open[1].row \in rows THEN <<open[1].row>> ELSE <<>>

\* The effect runs when that changes: the fetch under way no longer counts,
\* and what is shown stays until the next answer.
Explain(open, rows) ==
  /\ inspected' = open
  /\ IF Explaining(open, rows) = Explaining(inspected, tableRows)
     THEN UNCHANGED <<explained, comparing>>
     ELSE /\ comparing' = Explaining(open, rows)
          /\ explained' = IF comparing' = <<>> THEN <<>> ELSE explained

ComparablesArrive ==
  /\ comparing # <<>> /\ comparing' = <<>>
  /\ \/ explained' = comparing
     \/ "failed" \in ToolFaults /\ explained' = <<>>
  /\ UNCHANGED <<tableRows, order, rowVars, inspected>>

Inspect(row, explain) == Explain(<<[row |-> row, explain |-> explain]>>, tableRows)

StopInspecting ==
  /\ Explain(<<>>, tableRows) /\ UNCHANGED <<tableRows, order, rowVars>>

-----------------------------------------------------------------------------
(* The rows                                                                *)

\* A row that leaves the list takes its focus, menu and chip along.
ListChanges ==
  /\ tableRows' \in SUBSET Txns /\ Explain(inspected, tableRows')
  /\ focused' = IF focused # <<>> /\ focused[1] \in tableRows' THEN focused ELSE <<>>
  /\ rowMenu' = IF rowMenu # <<>> /\ rowMenu[1].row \in tableRows' THEN rowMenu ELSE <<>>
  /\ chip' = IF chip # <<>> /\ chip[1].row \in tableRows' THEN chip ELSE <<>>
  /\ UNCHANGED <<order>>

FocusRow ==
  /\ \E r \in tableRows : focused' = <<r>>
  /\ UNCHANGED <<tableRows, order, rowMenu, chip, explainVars>>

OnTableKeyDown ==
  /\ focused # <<>> /\ \E s \in RowBelow(focused[1]) \cup RowAbove(focused[1]) : focused' = <<s>>
  /\ UNCHANGED <<tableRows, order, rowMenu, chip, explainVars>>

\* Enter, e, or a double click.
OpenRow ==
  /\ \E r \in tableRows : Inspect(r, FALSE)
  /\ UNCHANGED <<tableRows, order, rowVars>>

MenuItems(r) == <<"edit", "split", "exclude">> \o IF r \in Flagged THEN <<"explain">> ELSE <<>>

\* It opens with the focus on its first item.
ToggleRowMenu ==
  /\ \E r \in tableRows :
       rowMenu' = IF rowMenu # <<>> /\ rowMenu[1].row = r THEN <<>>
                  ELSE <<[row |-> r, item |-> 0]>>
  /\ UNCHANGED <<tableRows, order, focused, chip, explainVars>>

OnMenuKeyDown ==
  /\ rowMenu # <<>>
  /\ LET n == Len(MenuItems(rowMenu[1].row))
     IN \E i \in {(rowMenu[1].item + 1) % n, (rowMenu[1].item - 1 + n) % n, 0, n - 1} :
          rowMenu' = <<[rowMenu[1] EXCEPT !.item = i]>>
  /\ UNCHANGED <<tableRows, order, focused, chip, explainVars>>

\* Escape, Tab, or a press outside.
CloseRowMenu ==
  /\ rowMenu # <<>> /\ rowMenu' = <<>>
  /\ UNCHANGED <<tableRows, order, focused, chip, explainVars>>

PickMenuItem ==
  /\ rowMenu # <<>> /\ rowMenu' = <<>>
  /\ LET row == rowMenu[1].row
     IN CASE MenuItems(row)[rowMenu[1].item + 1] \in {"edit", "split"} -> Inspect(row, FALSE)
          [] MenuItems(row)[rowMenu[1].item + 1] = "explain" -> Inspect(row, TRUE)
          [] OTHER -> UNCHANGED explainVars
  /\ UNCHANGED <<tableRows, order, focused, chip>>

\* The chip forgets its query when a category is picked, not when it closes.
OpenChip ==
  /\ \E r \in tableRows :
       chip' = <<[row |-> r, open |-> TRUE,
                  query |-> IF chip # <<>> /\ chip[1].row = r THEN chip[1].query ELSE Categories]>>
  /\ UNCHANGED <<tableRows, order, focused, rowMenu, explainVars>>

UseChip ==
  /\ chip # <<>> /\ chip[1].open
  /\ \/ \E q \in ChipQueries : chip' = <<[chip[1] EXCEPT !.query = q]>>
     \/ chip' = <<[chip[1] EXCEPT !.open = FALSE]>>
     \/ chip[1].query # {} /\ chip' = <<>>
  /\ UNCHANGED <<tableRows, order, focused, rowMenu, explainVars>>

\* Another organization is active: the comparables are asked for again.
SwitchOrg ==
  /\ comparing' = Explaining(inspected, tableRows)
  /\ UNCHANGED <<tableRows, order, rowVars, inspected, explained>>

TableToolsInit ==
  /\ tableRows = Txns /\ order = <<>> /\ focused = <<>> /\ rowMenu = <<>> /\ chip = <<>>
  /\ inspected = <<>> /\ explained = <<>> /\ comparing = <<>>

TableToolsNext ==
  \/ OnSortChange \/ ComparablesArrive \/ StopInspecting \/ ListChanges \/ FocusRow
  \/ OnTableKeyDown \/ OpenRow \/ ToggleRowMenu \/ OnMenuKeyDown \/ CloseRowMenu
  \/ PickMenuItem \/ OpenChip \/ UseChip \/ SwitchOrg

TableToolsSpec == TableToolsInit /\ [][TableToolsNext]_toolVars

-----------------------------------------------------------------------------
(* Properties                                                              *)

AtMostOne(S) == {<<>>} \cup {<<x>> : x \in S}

TableToolsTypeOK ==
  /\ tableRows \subseteq Txns /\ focused \in AtMostOne(tableRows)
  /\ order \in AtMostOne([column : Columns, direction : {"asc", "desc"}])
  /\ rowMenu \in AtMostOne([row : tableRows, item : 0..3])
  /\ chip \in AtMostOne([row : tableRows, open : BOOLEAN, query : SUBSET Categories])
  /\ inspected \in AtMostOne([row : Txns, explain : BOOLEAN])
  /\ explained \in AtMostOne(Txns) /\ comparing \in AtMostOne(Txns)

\* The focus in a row's menu is on one of its items (TxnTableRow.tsx:91-117).
MenuFocusIsAnItem == rowMenu # <<>> => rowMenu[1].item < Len(MenuItems(rowMenu[1].row))

\* When no fetch is under way, an explanation shows its own comparables or
\* none, whatever was opened in between; no explanation shows none
\* (TransactionsView.tsx:380-400).
ComparablesAreItsOwn ==
  /\ comparing # <<>> => comparing = Explaining(inspected, tableRows)
  /\ comparing = <<>> => explained \in {<<>>, Explaining(inspected, tableRows)}

=============================================================================
