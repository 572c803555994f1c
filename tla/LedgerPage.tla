----------------------------- MODULE LedgerPage ------------------------------
(***************************************************************************)
(* The ledger page (TransactionsView, its components and its controller)   *)
(* over the transactions endpoints: filters, pages, the selection and its  *)
(* bulk actions, and the inspector with its draft.  The page keeps copies  *)
(* of rows; a call takes effect at the server when it is sent and its      *)
(* answer comes later; answers come in the order of the calls.  A row is   *)
(* its direction, its category (a category is typed, so one per direction  *)
(* stands for all), its anomaly flag and its amount; its id is its place   *)
(* in the list, newest date first.  Wording, density, sort order, dates    *)
(* and the report exclusion are left out.                                  *)
(***************************************************************************)
EXTENDS Naturals, Sequences, FiniteSets

CONSTANTS Rows,          \* bound: ids of rows, a set 1..n, newest date first
          OldRows,       \* the rows of the ledger at the start
          PageLimit,     \* rows per page: 50 in the code
          Views,         \* saved views: sets of filters
          LedgerFaults,  \* of "refused", "lost"
          Overlap,       \* may the user act while calls are in flight?
          MaxCalls       \* bound: calls sent

ASSUME LedgerPageAssumption ==
  /\ OldRows \subseteq Rows /\ Rows \subseteq Nat \ {0} /\ IsFiniteSet(Rows)
  /\ PageLimit \in Nat \ {0} /\ MaxCalls \in Nat /\ Overlap \in BOOLEAN
  /\ LedgerFaults \subseteq {"refused", "lost"}
  /\ Views \subseteq [dir : {"income", "expense", "all"}, anomalyOnly : BOOLEAN]

VARIABLES entries,    \* the server's rows, a function on the ids that exist
          shown,      \* the page's copies: records with their id
          filters, nextCursor, pageLoading,
          selected,
          inspector,  \* which record it shows, or a new one
          rowDraft,      \* direction and category of the form
          saving,
          bulk,       \* the modal that is open, or the ids still unanswered
          bulkPick,   \* bulkCategory
          calls,      \* sent, not answered yet
          callsSent

ledgerPageVars == <<entries, shown, filters, nextCursor, pageLoading, selected,
                    inspector, rowDraft, saving, bulk, bulkPick, calls, callsSent>>

Directions == {"income", "expense"}
TxnFilters == [dir : Directions \cup {"all"}, anomalyOnly : BOOLEAN]
NoFilter == [dir |-> "all", anomalyOnly |-> FALSE]
ClosedInspector == [kind |-> "closed", id |-> 0]
NoBulk == [kind |-> "none", waiting |-> {}]
EmptyDraft == [dir |-> "expense", cat |-> "none"]

SeedRow(id) == [dir |-> IF id % 2 = 0 THEN "income" ELSE "expense",
                cat |-> IF id % 2 = 0 THEN "income" ELSE "expense",
                flagged |-> id % 2 = 1, amount |-> 2]

-----------------------------------------------------------------------------
(* The endpoints                                                           *)

RowCopy(id, e) == [id |-> id, dir |-> e.dir, cat |-> e.cat,
                flagged |-> e.flagged, amount |-> e.amount]

Matching(f) == {id \in DOMAIN entries :
  /\ f.dir \in {"all", entries[id].dir}
  /\ f.anomalyOnly => entries[id].flagged}

\* paginate: the first PageLimit rows behind the cursor; a cursor that is not
\* among the matching rows is refused.
TxnPage(f, cursor) ==
  LET rest == {id \in Matching(f) : id > cursor}
      page == {id \in rest : Cardinality({i \in rest : i < id}) < PageLimit}
  IN [ok |-> cursor = 0 \/ cursor \in Matching(f),
      rows |-> {RowCopy(id, entries[id]) : id \in page},
      next |-> IF page = rest THEN 0 ELSE CHOOSE id \in page : \A i \in page : i <= id]

-----------------------------------------------------------------------------
(* Sending and answering                                                   *)

LedgerFates == {"ok"} \cup LedgerFaults

\* Append one call, or a bulk's calls, to those in flight.
SendCalls(new) ==
  /\ callsSent + Len(new) <= MaxCalls
  /\ calls' = calls \o new
  /\ callsSent' = callsSent + Len(new)

LedgerCall(op, outcome, then, id, answer) ==
  [op |-> op, ok |-> outcome = "ok", then |-> then, id |-> id, answer |-> answer]

SendList(f, cursor) ==
  \E outcome \in LedgerFates :
    LET page == TxnPage(f, cursor) IN
    SendCalls(<<LedgerCall(IF cursor = 0 THEN "list" ELSE "more",
                     IF page.ok THEN outcome ELSE "refused", "none", 0, page)>>)

\* A create or an update takes effect unless it is refused.
Written(id, e, outcome) ==
  IF outcome = "refused" THEN entries
  ELSE [i \in DOMAIN entries \cup {id} |-> IF i = id THEN e ELSE entries[i]]

SendWrite(op, id, e, then) ==
  \E outcome \in LedgerFates :
    LET done == IF op = "update" /\ id \notin DOMAIN entries THEN "refused" ELSE outcome IN
    /\ entries' = Written(id, e, done)
    /\ SendCalls(<<LedgerCall(op, done, then, id, RowCopy(id, e))>>)

\* The row an update is merged into; of a missing row nothing is written.
CurrentRow(id) == IF id \in DOMAIN entries THEN entries[id] ELSE SeedRow(id)

EntriesWithout(ids) == [i \in DOMAIN entries \ ids |-> entries[i]]

SendRemove(id, then) ==
  \E outcome \in LedgerFates :
    LET done == IF id \notin DOMAIN entries THEN "refused" ELSE outcome IN
    /\ entries' = IF done = "refused" THEN entries ELSE EntriesWithout({id})
    /\ SendCalls(<<LedgerCall("remove", done, then, id, [ok |-> TRUE])>>)

LedgerPageInit ==
  /\ entries = [id \in OldRows |-> SeedRow(id)]
  /\ shown = {} /\ nextCursor = 0 /\ selected = {}
  /\ inspector = ClosedInspector /\ rowDraft = EmptyDraft /\ saving = FALSE
  /\ bulk = NoBulk /\ bulkPick = "none" /\ callsSent = 0
  /\ pageLoading = TRUE
  /\ \* the first load, followed by the ?anomalies=1 hand-off if it is there
     \E handoff \in BOOLEAN :
       LET f == [NoFilter EXCEPT !.anomalyOnly = handoff]
           list(g) == LedgerCall("list", "ok", "none", 0, TxnPage(g, 0)) IN
       /\ filters = f
       /\ calls = IF handoff THEN <<list(NoFilter), list(f)>> ELSE <<list(f)>>

UserMay == Overlap \/ calls = <<>>
\* The inspector's and the modals' overlays cover the rest of the page.
Uncovered == UserMay /\ inspector = ClosedInspector /\ bulk.kind = "none"

-----------------------------------------------------------------------------
(* Filters and pages                                                       *)

\* applyFilterPatch also clears the selection; a saved view goes to
\* applyFilters directly and keeps it.
ApplyFilters(f) ==
  /\ filters' = f /\ pageLoading' = TRUE
  /\ SendList(f, 0)
  /\ UNCHANGED <<entries, shown, nextCursor, inspector, rowDraft, saving, bulk,
                 bulkPick>>

\* What the controls patch: the direction, anomalies only, or all at once.
FilterPatches ==
  {[filters EXCEPT !.dir = d] : d \in Directions \cup {"all"}}
  \cup {[filters EXCEPT !.anomalyOnly = b] : b \in BOOLEAN} \cup {NoFilter}

ApplyFilterPatch(f) == Uncovered /\ f # filters /\ selected' = {} /\ ApplyFilters(f)

ApplySavedView(v) == Uncovered /\ UNCHANGED selected /\ ApplyFilters(v)

LoadMore ==
  /\ Uncovered /\ nextCursor # 0 /\ ~ pageLoading
  /\ pageLoading' = TRUE
  /\ SendList(filters, nextCursor)
  /\ UNCHANGED <<entries, shown, filters, nextCursor, selected, inspector, rowDraft,
                 saving, bulk, bulkPick>>

-----------------------------------------------------------------------------
(* Rows and the inspector                                                  *)

PageUnchanged == UNCHANGED <<shown, filters, nextCursor, pageLoading>>

\* The chip offers the categories of the row's direction, as shown.
RecategorizeRow(r) ==
  /\ Uncovered /\ r \in shown /\ r.cat # r.dir
  /\ SendWrite("update", r.id, [CurrentRow(r.id) EXCEPT !.cat = r.dir], "none")
  /\ PageUnchanged /\ UNCHANGED <<selected, inspector, rowDraft, saving, bulk,
                                  bulkPick>>

OpenRecord(kind, r) ==
  /\ Uncovered
  /\ inspector' = [kind |-> kind, id |-> r.id]
  /\ rowDraft' = [dir |-> r.dir, cat |-> r.cat]
  /\ PageUnchanged
  /\ UNCHANGED <<entries, selected, saving, bulk, bulkPick, calls, callsSent>>

OpenNew ==
  /\ Uncovered
  /\ inspector' = [kind |-> "new", id |-> 0] /\ rowDraft' = EmptyDraft
  /\ PageUnchanged
  /\ UNCHANGED <<entries, selected, saving, bulk, bulkPick, calls, callsSent>>

\* Every opening sets the draft, so a closed inspector has none.
CloseInspector ==
  /\ UserMay /\ inspector # ClosedInspector
  /\ inspector' = ClosedInspector /\ rowDraft' = EmptyDraft
  /\ PageUnchanged
  /\ UNCHANGED <<entries, selected, saving, bulk, bulkPick, calls, callsSent>>

\* A switch of the direction drops a category that no longer fits; the picker
\* and a category created on the spot set one that does.
EditDraft(d) ==
  /\ UserMay /\ inspector.kind \in {"record", "new"}
  /\ \/ rowDraft' = [dir |-> d, cat |-> IF rowDraft.cat = d THEN d ELSE "none"]
     \/ rowDraft' = [dir |-> d, cat |-> d] /\ (rowDraft.dir = d \/ inspector.kind = "new")
  /\ rowDraft' # rowDraft
  /\ PageUnchanged
  /\ UNCHANGED <<entries, selected, inspector, saving, bulk, bulkPick, calls,
                 callsSent>>

ActiveTxn(r) == r \in shown /\ r.id = inspector.id

SaveDraft ==
  /\ UserMay /\ ~ saving /\ rowDraft.cat # "none" /\ saving' = TRUE
  /\ \/ /\ inspector.kind = "new"
        /\ \E id \in Rows \ DOMAIN entries :
             SendWrite("create", id, [dir |-> rowDraft.dir, cat |-> rowDraft.cat,
                                      flagged |-> FALSE, amount |-> 2], "save")
     \/ /\ inspector.kind = "record"
        /\ \E r \in shown :
             /\ ActiveTxn(r)
             /\ SendWrite("update", r.id, [dir |-> rowDraft.dir, cat |-> rowDraft.cat, amount |-> r.amount,
                                           flagged |-> CurrentRow(r.id).flagged], "save")
  /\ PageUnchanged /\ UNCHANGED <<selected, inspector, rowDraft, bulk, bulkPick>>

MarkExpected ==
  /\ UserMay /\ ~ saving /\ inspector.kind = "anomaly" /\ saving' = TRUE
  /\ \E r \in shown :
       /\ ActiveTxn(r) /\ r.flagged
       /\ SendWrite("update", r.id, [CurrentRow(r.id) EXCEPT !.flagged = FALSE], "save")
  /\ PageUnchanged /\ UNCHANGED <<selected, inspector, rowDraft, bulk, bulkPick>>

\* The first of a split's two calls; the answer sends the second.
SplitTxn ==
  /\ UserMay /\ ~ saving /\ inspector.kind = "record" /\ saving' = TRUE
  /\ \E r \in shown :
       /\ ActiveTxn(r) /\ r.amount = 2
       /\ SendWrite("update", r.id, [CurrentRow(r.id) EXCEPT !.amount = 1], "split")
  /\ PageUnchanged /\ UNCHANGED <<selected, inspector, rowDraft, bulk, bulkPick>>

DeleteTxn ==
  /\ UserMay /\ inspector.kind = "record"
  /\ \E r \in shown : ActiveTxn(r) /\ SendRemove(r.id, "delete")
  /\ PageUnchanged /\ UNCHANGED <<selected, inspector, rowDraft, saving, bulk,
                                  bulkPick>>

-----------------------------------------------------------------------------
(* The selection and its bulk actions                                      *)

ShownIds == {r.id : r \in shown}

SelectRows(ids) ==
  /\ Uncovered /\ ids # selected
  /\ ids \in {selected \cup {i} : i \in ShownIds} \cup {selected \ {i} : i \in ShownIds}
             \cup {{}, ShownIds}
  /\ selected' = ids
  /\ PageUnchanged
  /\ UNCHANGED <<entries, inspector, rowDraft, saving, bulk, bulkPick, calls,
                 callsSent>>

\* Directions of the selected rows, as far as the page shows them.
SelectedDirections == {r.dir : r \in {s \in shown : s.id \in selected}}
BulkCategoryApplies == SelectedDirections = {bulkPick}

OpenBulk(kind) ==
  /\ Uncovered /\ selected # {}
  /\ bulk' = [bulk EXCEPT !.kind = kind]
  /\ bulkPick' = IF kind = "pick" /\ ~ BulkCategoryApplies THEN "none" ELSE bulkPick
  /\ PageUnchanged
  /\ UNCHANGED <<entries, selected, inspector, rowDraft, saving, calls, callsSent>>

PickBulk(d) ==
  /\ UserMay /\ bulk.kind = "pick" /\ Cardinality(SelectedDirections) # 2
  /\ SelectedDirections \in {{}, {d}} /\ bulkPick' = d /\ bulkPick # d
  /\ PageUnchanged
  /\ UNCHANGED <<entries, selected, inspector, rowDraft, saving, bulk, calls,
                 callsSent>>

CloseBulk ==
  /\ UserMay /\ bulk.kind # "none"
  /\ bulk' = [bulk EXCEPT !.kind = "none"]
  /\ PageUnchanged
  /\ UNCHANGED <<entries, selected, inspector, rowDraft, saving, bulkPick, calls,
                 callsSent>>

\* One call per selected id, shown or not, all at once.  Bound: one bulk at a
\* time.
ApplyBulk(failing) ==
  LET gone(id) == id \in failing \/ id \notin DOMAIN entries
      done == {id \in selected : ~ gone(id)}
      one(id) == IF bulk.kind = "delete"
                 THEN LedgerCall("remove", IF gone(id) THEN "refused" ELSE "ok", "bulk", id, [ok |-> TRUE])
                 ELSE LedgerCall("update", IF gone(id) THEN "refused" ELSE "ok", "bulk", id,
                           IF gone(id) THEN [ok |-> FALSE]
                           ELSE RowCopy(id, [entries[id] EXCEPT !.cat = bulkPick]))
      order == CHOOSE s \in [1..Cardinality(selected) -> selected] :
                 \A i, j \in DOMAIN s : i < j => s[i] < s[j]
  IN
  /\ UserMay /\ bulk.kind # "none" /\ selected # {}
  /\ \A i \in DOMAIN calls : calls[i].then # "bulk"
  /\ bulk.kind = "pick" => BulkCategoryApplies
  /\ bulk' = [kind |-> IF bulk.kind = "pick" THEN "pick" ELSE "none", waiting |-> selected]
  /\ entries' = IF bulk.kind = "delete" THEN EntriesWithout(done)
                ELSE [i \in DOMAIN entries |->
                        IF i \in done THEN [entries[i] EXCEPT !.cat = bulkPick] ELSE entries[i]]
  /\ SendCalls([i \in DOMAIN order |-> one(order[i])])
  /\ PageUnchanged /\ UNCHANGED <<selected, inspector, rowDraft, saving, bulkPick>>

-----------------------------------------------------------------------------
(* Answers                                                                 *)

\* Slip: a removed row stays on the page.
KeepsRemoved(copies, c) ==
  IF ~ c.ok THEN copies
  ELSE CASE c.op = "list"   -> c.answer.rows
         [] c.op = "more"   -> copies \cup c.answer.rows
         [] c.op = "create" -> {c.answer} \cup copies
         [] c.op = "update" -> {IF r.id = c.id THEN c.answer ELSE r : r \in copies}
         [] c.op = "remove" -> copies

\* setItems of the four operations.
ShownAfter(copies, c) ==
  IF ~ c.ok THEN copies
  ELSE CASE c.op = "list"   -> c.answer.rows
         [] c.op = "more"   -> copies \cup c.answer.rows
         [] c.op = "create" -> {c.answer} \cup copies
         [] c.op = "update" -> {IF r.id = c.id THEN c.answer ELSE r : r \in copies}
         [] c.op = "remove" -> {r \in copies : r.id # c.id}

\* Promise.all: the last answer ends the bulk and clears the selection, the
\* first failure ends it and keeps selection and modal.
BulkAfter(c) ==
  IF bulk.waiting = {} THEN UNCHANGED <<bulk, bulkPick, selected>>
  ELSE IF ~ c.ok \/ bulk.waiting # {c.id}
  THEN /\ bulk' = [bulk EXCEPT !.waiting = IF c.ok THEN @ \ {c.id} ELSE {}]
       /\ UNCHANGED <<bulkPick, selected>>
  ELSE /\ selected' = {}
       /\ bulk' = IF c.op = "update" THEN NoBulk ELSE [bulk EXCEPT !.waiting = {}]
       /\ bulkPick' = IF c.op = "update" THEN "none" ELSE bulkPick

OtherCalls(i) == SubSeq(calls, 1, i - 1) \o SubSeq(calls, i + 1, Len(calls))

\* A split's first answer sends the create; its closure holds the row as it
\* was when Split was pressed.
SecondHalf(i) ==
  LET part == [dir |-> calls[i].answer.dir, cat |-> calls[i].answer.cat,
               flagged |-> FALSE, amount |-> 1] IN
  \E id \in Rows \ DOMAIN entries, outcome \in LedgerFates :
    /\ entries' = Written(id, part, outcome)
    /\ calls' = Append(OtherCalls(i), LedgerCall("create", outcome, "save", id, RowCopy(id, part)))
    /\ callsSent' = callsSent + 1
    /\ UNCHANGED <<inspector, saving>>

AnswerLedger(i) ==
  LET c == calls[i] IN
  /\ shown' = ShownAfter(shown, c)
  /\ IF c.op \in {"list", "more"}
     THEN /\ pageLoading' = FALSE
          /\ nextCursor' = IF c.ok THEN c.answer.next ELSE nextCursor
     ELSE UNCHANGED <<pageLoading, nextCursor>>
  /\ IF c.then = "bulk" THEN BulkAfter(c) ELSE UNCHANGED <<bulk, bulkPick, selected>>
  /\ \/ /\ ~ (c.then = "split" /\ c.ok)
        /\ calls' = OtherCalls(i)
        /\ saving' = IF c.then \in {"save", "split"} THEN FALSE ELSE saving
        /\ inspector' = IF c.then \in {"save", "delete"} /\ c.ok THEN ClosedInspector ELSE inspector
        /\ UNCHANGED <<entries, callsSent>>
     \/ c.then = "split" /\ c.ok /\ SecondHalf(i)
  /\ rowDraft' = IF inspector' = ClosedInspector THEN EmptyDraft ELSE rowDraft
  /\ UNCHANGED filters

AnswerInOrder == calls # <<>> /\ AnswerLedger(1)

LedgerPageNext ==
  \/ \E f \in FilterPatches : ApplyFilterPatch(f)
  \/ \E v \in Views : ApplySavedView(v)
  \/ LoadMore
  \/ \E r \in shown : \/ RecategorizeRow(r)
                      \/ OpenRecord("record", r)
                      \/ r.flagged /\ OpenRecord("anomaly", r)
  \/ OpenNew \/ CloseInspector
  \/ \E d \in Directions : EditDraft(d)
  \/ SaveDraft \/ MarkExpected \/ SplitTxn \/ DeleteTxn
  \/ \E ids \in SUBSET Rows : SelectRows(ids)
  \/ \E kind \in {"pick", "delete"} : OpenBulk(kind)
  \/ \E d \in Directions : PickBulk(d)
  \/ CloseBulk
  \/ \E failing \in SUBSET (IF "refused" \in LedgerFaults THEN selected ELSE {}) :
       ApplyBulk(failing)
  \/ AnswerInOrder

LedgerPageSpec == LedgerPageInit /\ [][LedgerPageNext]_ledgerPageVars

-----------------------------------------------------------------------------

LedgerPageTypeOK ==
  /\ filters \in TxnFilters /\ selected \subseteq Rows
  /\ bulk.waiting \subseteq Rows /\ saving \in BOOLEAN
  /\ shown \subseteq [id : Rows, dir : Directions, cat : Directions,
                      flagged : BOOLEAN, amount : 1..2]

\* "recategorize can only land on a same-direction category" (the comment at
\* TransactionsView.tsx:115): no row of the ledger sits in a category of the
\* other type.
\* Not kept by the code (README, "By hand").
CategoryFitsDirection == \A id \in DOMAIN entries : entries[id].cat = entries[id].dir

\* When every call has been answered the page shows the ledger's rows as the
\* ledger has them, whatever was edited while a list was on its way (the
\* setItems of use-transactions.ts).
ShownRowsAreTrue ==
  calls = <<>> =>
    \A r \in shown : r.id \in DOMAIN entries /\ r = RowCopy(r.id, entries[r.id])

\* The selection names rows the page shows, so the bulk bar's count, the
\* delete confirmation and the export speak of the same rows.
\* Not kept by the code (README, "By hand").
SelectionIsShown == calls = <<>> => selected \subseteq ShownIds
=============================================================================
