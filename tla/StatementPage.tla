---------------------------- MODULE StatementPage ----------------------------
(***************************************************************************)
(* A company's statements in the web client: the list page with its upload *)
(* and manual entry, the review of a mapping, the controller behind both   *)
(* (use-statements), and the routes of the mock API with their statement   *)
(* engine.  A call takes effect at the server when it is sent; its answer  *)
(* comes later, in the order of the calls.  Amounts are in naira.  Wording *)
(* and currencies are left out; a period is one model value.               *)
(***************************************************************************)
EXTENDS Integers, Sequences, FiniteSets, SequencesExt, Lists

CONSTANTS Stmts,          \* bound: ids of statements, a set 1..n
          Kinds,          \* kinds the user uploads or enters
          UploadedKinds,  \* kinds whose file may have been uploaded twice before
          StatementPeriods,
          EntryKeys,      \* keys the user maps or enters, of any kind
          EntryAmounts,   \* amounts entered by hand; 0 is an empty field
          MaxRowEdits,    \* bound: edits of rows in a review, and statements, together
          MaxRows,        \* bound: rows of a manual entry
          InFlight,       \* bound: calls a page has in flight
          StatementFaults \* of "lost": an answer may not arrive

ASSUME StatementPageAssumption ==
  /\ Stmts \subseteq Nat \ {0} /\ EntryAmounts \subseteq Int \ {0} /\ MaxRowEdits \in Nat /\ InFlight \in Nat
  /\ MaxRows \in Nat \ {0}
  /\ Kinds \cup UploadedKinds \subseteq {"balance_sheet", "income_statement", "cash_flow"}
  /\ StatementFaults \subseteq {"lost"}

VARIABLES stmts,     \* the server's statements with their line items
          at,        \* the statement the detail page shows, 0: the list page
          listed,    \* the list page's copy: which statements there are
          active,    \* the detail page's copy
          pollFor,   \* the statement the poll timer waits for, 0: none
          form,      \* the list page's form: kind, manualOpen, manualRows
          addRow,    \* the review's added row, or closed
          confirmBusy,
          loadError,
          replies,   \* answers on their way
          rowEdits

statementPageVars == <<stmts, at, listed, active, pollFor, form, addRow,
                       confirmBusy, loadError, replies, rowEdits>>

-----------------------------------------------------------------------------
(* The vocabulary and the statement engine                                 *)

Terms(keys, sign) == [i \in DOMAIN keys |-> [key |-> keys[i], sign |-> sign]]
Plus(keys) == Terms(keys, 1)
Signed(plus, minus) == Terms(plus, 1) \o Terms(minus, -1)
Derive(kind, key, terms) == [kind |-> kind, key |-> key, terms |-> terms]

DERIVATIONS == <<
  Derive("balance_sheet", "current_assets", Plus(<<"cash_and_equivalents",
    "receivables", "inventory", "current_assets_other">>)),
  Derive("balance_sheet", "total_assets", Plus(<<"current_assets", "ppe",
    "intangibles", "noncurrent_assets_other">>)),
  Derive("balance_sheet", "current_liabilities", Plus(<<"payables",
    "short_term_debt", "current_liabilities_other">>)),
  Derive("balance_sheet", "total_liabilities", Plus(<<"current_liabilities",
    "long_term_debt", "noncurrent_liabilities_other">>)),
  Derive("balance_sheet", "equity", Plus(<<"share_capital", "retained_earnings">>)),
  Derive("income_statement", "gross_profit", Signed(<<"revenue">>, <<"cogs">>)),
  Derive("income_statement", "operating_profit",
    Signed(<<"gross_profit">>, <<"opex", "depreciation_amortization">>)),
  Derive("income_statement", "net_income",
    Signed(<<"operating_profit", "interest_income">>, <<"interest_expense", "tax_expense">>)),
  Derive("cash_flow", "net_change_in_cash", Plus(<<"cfo", "cfi", "cff">>)) >>

DerivationsOf(kind) ==
  AtPlaces(DERIVATIONS, {i \in DOMAIN DERIVATIONS : DERIVATIONS[i].kind = kind})

TermKeys(d) == {t.key : t \in ToSet(d.terms)}
KeysOf(kind) ==
  UNION {TermKeys(d) \cup {d.key} : d \in ToSet(DerivationsOf(kind))}
  \cup (IF kind = "cash_flow" THEN {"capex"} ELSE {})

\* A line item; the key "none" is an unmapped row.
Item(key, amount, ai, derived) ==
  [key |-> key, amount |-> amount, ai |-> ai, derived |-> derived]

AbsValue(n) == IF n < 0 THEN -n ELSE n
Basis(n) == IF AbsValue(n) > 1 THEN AbsValue(n) ELSE 1

\* find: the first row of a key counts.
RowOf(rows, key) == {i \in DOMAIN rows : rows[i].key = key}
Has(rows, key) == RowOf(rows, key) # {}
Amount(rows, key) ==
  IF Has(rows, key) THEN rows[Min(RowOf(rows, key))].amount ELSE 0

Computes(rows, d) == \E k \in TermKeys(d) : Has(rows, k)
Computed(rows, d) ==
  LET amounts == [i \in DOMAIN d.terms |-> d.terms[i].sign * Amount(rows, d.terms[i].key)]
  IN SumUpTo(amounts, Len(amounts))

\* More than 1 % off; for whole amounts the division loses nothing.
Diverges(rows, d) ==
  /\ Computes(rows, d) /\ Has(rows, d.key)
  /\ AbsValue(Amount(rows, d.key) - Computed(rows, d))
       > Basis(Amount(rows, d.key)) \div 100

\* Slip: a derived total is not checked again.
TrustsDerived(acc, d) ==
  IF ~ Computes(acc.rows, d) THEN acc
  ELSE IF Has(acc.rows, d.key)
  THEN [acc EXCEPT !.warned =
          IF Diverges(acc.rows, d) /\ ~ acc.rows[Min(RowOf(acc.rows, d.key))].derived
          THEN @ \cup {d.key} ELSE @]
  ELSE [acc EXCEPT !.rows = Append(@, Item(d.key, Computed(acc.rows, d), FALSE, TRUE))]

DerivationStep(acc, d) ==
  IF ~ Computes(acc.rows, d) THEN acc
  ELSE IF Has(acc.rows, d.key)
  THEN [acc EXCEPT !.warned = IF Diverges(acc.rows, d) THEN @ \cup {d.key} ELSE @]
  ELSE [acc EXCEPT !.rows = Append(@, Item(d.key, Computed(acc.rows, d), FALSE, TRUE))]

RunDerivations(kind, rows) ==
  LET run[n \in 0..Len(DerivationsOf(kind))] ==
        IF n = 0 THEN [rows |-> rows, warned |-> {}]
        ELSE DerivationStep(run[n - 1], DerivationsOf(kind)[n])
  IN run[Len(DerivationsOf(kind))]

Magnitude(rows, mapped) ==
  MapThenSumSet(LAMBDA i : AbsValue(rows[i].amount),
                {i \in DOMAIN rows : (rows[i].key # "none") = mapped})

TooMuchUnmapped(rows) ==
  LET unmapped == Magnitude(rows, FALSE)
  IN unmapped > (unmapped + Magnitude(rows, TRUE)) \div 5

IdentityBroken(rows) ==
  LET assets == Amount(rows, "total_assets")
      others == Amount(rows, "total_liabilities") + Amount(rows, "equity")
  IN /\ \E k \in {"total_assets", "total_liabilities", "equity"} : Has(rows, k)
     /\ AbsValue(assets - others) >
          (IF Basis(assets) > Basis(others) THEN Basis(assets) ELSE Basis(others)) \div 100

ValidConfirm(kind, rows) ==
  /\ ~ TooMuchUnmapped(rows)
  /\ kind = "balance_sheet" => ~ IdentityBroken(rows)

\* The parse of an uploaded file; rows under the confidence floor are unmapped.
SuggestRows(kind) ==
  LET row(key, amount) == Item(key, amount, TRUE, FALSE) IN
  IF kind = "income_statement"
  THEN <<row("revenue", 74000000), row("cogs", 36100000),
         row("opex", 24500000), row("none", 1200000)>>
  ELSE IF kind = "cash_flow"
  THEN <<row("cfo", 9400000), row("cfi", -3100000),
         row("cff", -1500000), row("capex", -2800000)>>
  ELSE <<row("cash_and_equivalents", 16800000), row("receivables", 7100000),
         row("payables", 5900000), row("none", 700000)>>

-----------------------------------------------------------------------------
(* The routes                                                              *)

Existing == DOMAIN stmts
SamePeriod(kind, period) ==
  {i \in Existing : stmts[i].kind = kind /\ stmts[i].period = period}
ConfirmedOf(kind, period) ==
  {i \in SamePeriod(kind, period) : stmts[i].status = "confirmed"}

\* POST /statements: 409 when a confirmed statement of the period exists.
Creatable(kind, period) == ConfirmedOf(kind, period) = {}

WithStatement(id, kind, period, status, rows) ==
  [i \in Existing \cup {id} |->
     IF i = id THEN [kind |-> kind, period |-> period, status |-> status,
                     rows |-> rows, by |-> 0, warned |-> {}]
     ELSE stmts[i]]

\* GET mapping: once the parse has had its time, a read stages its rows.
Parsed(id) ==
  IF stmts[id].status # "processing" THEN stmts
  ELSE [stmts EXCEPT ![id].status = "staged",
                     ![id].rows = SuggestRows(stmts[id].kind)]

\* Slip: the older statement stays confirmed.
ConfirmedBeside(id) ==
  LET s == stmts[id]
      run == RunDerivations(s.kind, s.rows)
      derived == [stmts EXCEPT ![id].rows = run.rows]
  IN IF s.status = "confirmed" THEN [ok |-> TRUE, stmts |-> stmts]
     ELSE IF s.status # "staged" THEN [ok |-> FALSE, stmts |-> stmts]
     ELSE IF ~ ValidConfirm(s.kind, run.rows) THEN [ok |-> FALSE, stmts |-> derived]
     ELSE [ok |-> TRUE, stmts |->
            [derived EXCEPT ![id].status = "confirmed", ![id].warned = run.warned]]

\* POST confirm: derivations stay even when the check fails.
AfterConfirm(id) ==
  LET s == stmts[id]
      run == RunDerivations(s.kind, s.rows)
      derived == [stmts EXCEPT ![id].rows = run.rows]
      old == ConfirmedOf(s.kind, s.period) \ {id}
  IN IF s.status = "confirmed" THEN [ok |-> TRUE, stmts |-> stmts]
     ELSE IF s.status # "staged" THEN [ok |-> FALSE, stmts |-> stmts]
     ELSE IF ~ ValidConfirm(s.kind, run.rows) THEN [ok |-> FALSE, stmts |-> derived]
     ELSE [ok |-> TRUE, stmts |->
       [i \in Existing |->
          IF i = id THEN [derived[i] EXCEPT !.status = "confirmed", !.warned = run.warned]
          ELSE IF old # {} /\ i = Min(old)
          THEN [derived[i] EXCEPT !.status = "superseded", !.by = id]
          ELSE derived[i]]]

-----------------------------------------------------------------------------
(* Calls, answers and pages                                                *)

NoCopy == [id |-> 0]
CopyOf(s, id) == [id |-> id, status |-> s[id].status, rows |-> s[id].rows]

Reply(op, ok, id, copy) == [op |-> op, ok |-> ok, id |-> id, copy |-> copy]
StatementAnswered == {TRUE} \cup {FALSE : f \in StatementFaults}

SendCall(op, ok, id, copy) ==
  \E arrives \in StatementAnswered :
    /\ Len(replies) < InFlight
    /\ replies' = Append(replies, Reply(op, ok /\ arrives, id, copy))

NoRow == [key |-> "closed", amount |-> 0]
BlankRow == [key |-> "none", amount |-> 0]
FreshForm == [kind |-> "balance_sheet", open |-> FALSE, rows |-> <<BlankRow>>]

\* An upload's and a manual entry's answers navigate even after the page that
\* sent them is gone; the other answers are dropped with their page.
Navigating(answers) ==
  AtPlaces(answers, {i \in DOMAIN answers : answers[i].op \in {"upload", "manual"}})

ShowList ==
  /\ at' = 0 /\ form' = FreshForm /\ pollFor' = 0 /\ active' = NoCopy
  /\ addRow' = NoRow /\ confirmBusy' = FALSE /\ loadError' = FALSE
  /\ listed' = {}

\* The mount of a detail page reads the mapping.
ShowStatement(id, rest) ==
  /\ at' = id /\ form' = FreshForm /\ pollFor' = 0 /\ active' = NoCopy
  /\ addRow' = NoRow /\ confirmBusy' = FALSE /\ loadError' = FALSE
  /\ listed' = {}
  /\ \E parsed \in {stmts, Parsed(id)}, arrives \in StatementAnswered :
       /\ stmts' = parsed
       /\ replies' = Append(rest, Reply("open", arrives, id, CopyOf(parsed, id)))

\* Two uploads of one file before, both parsed.
UploadedTwice(kind, period) ==
  [i \in Stmts |-> [kind |-> kind, period |-> period, status |-> "staged",
                    rows |-> SuggestRows(kind), by |-> 0, warned |-> {}]]

StatementPageInit ==
  /\ stmts \in {<<>>} \cup {UploadedTwice(k, p) : k \in UploadedKinds, p \in StatementPeriods}
  /\ at = 0 /\ listed = {} /\ active = NoCopy /\ pollFor = 0
  /\ form = FreshForm /\ addRow = NoRow /\ confirmBusy = FALSE
  /\ loadError = FALSE /\ rowEdits = 0
  /\ replies = <<Reply("list", TRUE, 0, Existing)>>

OnList == at = 0 /\ ~ form.open
\* Bound: fields are edited between calls; navigation and calls may overlap.
Quiet == replies = <<>>
OnReview == at # 0 /\ active.id = at /\ ~ loadError /\ active.status = "staged"
PageStill == UNCHANGED <<at, listed, active, pollFor>>

OpenList ==
  /\ at # 0 /\ ShowList
  /\ replies' = Append(Navigating(replies), Reply("list", TRUE, 0, Existing))
  /\ UNCHANGED <<stmts, rowEdits>>

OpenStatement(id) ==
  /\ OnList /\ id \in listed
  /\ ShowStatement(id, Navigating(replies))
  /\ UNCHANGED rowEdits

-----------------------------------------------------------------------------
(* The list page                                                           *)

ChooseKind(kind) ==
  /\ OnList /\ Quiet /\ form' = [form EXCEPT !.kind = kind]
  /\ PageStill /\ UNCHANGED <<stmts, addRow, confirmBusy, loadError, replies, rowEdits>>

\* Create, then send the file; the statement appears with the file.
UploadFile(id, period) ==
  /\ OnList /\ id \notin Existing /\ form.kind \in Kinds
  /\ LET created == Creatable(form.kind, period) IN
     /\ stmts' = IF created
                 THEN WithStatement(id, form.kind, period, "processing", <<>>) ELSE stmts
     /\ SendCall("upload", created, id, <<>>)
  /\ PageStill /\ UNCHANGED <<form, addRow, confirmBusy, loadError, rowEdits>>

SetManual(open) ==
  /\ at = 0 /\ Quiet /\ form.open # open /\ form' = [form EXCEPT !.open = open]
  /\ PageStill /\ UNCHANGED <<stmts, addRow, confirmBusy, loadError, replies, rowEdits>>

\* What a row can hold, the keys being those of the kind chosen now; a row
\* without key or amount counts as blank.
RowEntries(kind) ==
  {BlankRow} \cup [key : EntryKeys \cap KeysOf(kind), amount : EntryAmounts]

ManualEdits(rows) ==
  {[rows EXCEPT ![i] = r] : i \in DOMAIN rows, r \in RowEntries(form.kind)}
  \cup (IF Len(rows) < MaxRows THEN {Append(rows, BlankRow)} ELSE {})
  \cup (IF Len(rows) > 1 THEN {RemoveAt(rows, i) : i \in DOMAIN rows} ELSE {})

EditManual ==
  /\ at = 0 /\ Quiet /\ form.open
  /\ \E rows \in ManualEdits(form.rows) : form' = [form EXCEPT !.rows = rows]
  /\ PageStill /\ UNCHANGED <<stmts, addRow, confirmBusy, loadError, replies, rowEdits>>

FilledRows == AtPlaces(form.rows, {i \in DOMAIN form.rows : form.rows[i] # BlankRow})

SubmitManual(id, period) ==
  /\ at = 0 /\ form.open /\ ~ confirmBusy /\ id \notin Existing /\ FilledRows # <<>>
  /\ LET created == Creatable(form.kind, period)
         rows == [i \in DOMAIN FilledRows |->
                    Item(FilledRows[i].key, FilledRows[i].amount, FALSE, FALSE)]
     IN /\ stmts' = IF created
                    THEN WithStatement(id, form.kind, period, "staged", rows) ELSE stmts
        /\ SendCall("manual", created, id, <<>>)
  /\ confirmBusy' = TRUE
  /\ PageStill /\ UNCHANGED <<form, addRow, loadError, rowEdits>>

-----------------------------------------------------------------------------
(* The review                                                              *)

\* The poll's tick reads the mapping again.
PollTick ==
  /\ pollFor # 0 /\ pollFor' = 0
  /\ \E parsed \in {stmts, Parsed(pollFor)} :
       stmts' = parsed /\ SendCall("tick", TRUE, pollFor, CopyOf(parsed, pollFor))
  /\ UNCHANGED <<at, listed, active, form, addRow, confirmBusy, loadError, rowEdits>>

\* PATCH mapping: only while staged; the answer carries the new rows.
Patch(id, op, rows) ==
  LET staged == stmts[id].status = "staged" IN
  /\ rowEdits + Len(stmts) < MaxRowEdits /\ rowEdits' = rowEdits + 1
  /\ stmts' = IF staged THEN [stmts EXCEPT ![id].rows = rows] ELSE stmts
  /\ SendCall(op, staged, id,
          [id |-> id, status |-> stmts[id].status,
           rows |-> IF staged THEN rows ELSE stmts[id].rows])

\* "suggested" is an AI row nobody has confirmed; only it offers Confirm.
RowState(r) ==
  IF r.key = "none" THEN "unmapped" ELSE IF r.ai THEN "suggested" ELSE "confirmed"
KeysOffered(r) ==
  (EntryKeys \cap KeysOf(stmts[at].kind))
  \cup (IF RowState(r) = "suggested" THEN {r.key} ELSE {})

ReviewRows == IF OnReview THEN DOMAIN active.rows ELSE {}

\* The rows of the page are the server's, in order: derived rows are appended
\* behind them and not listed.
MapRow(i, key) ==
  /\ ~ active.rows[i].derived
  /\ Patch(at, "patch", [stmts[at].rows EXCEPT ![i].key = key, ![i].ai = FALSE])
  /\ PageStill /\ UNCHANGED <<form, addRow, confirmBusy, loadError>>

EditAddRow ==
  /\ OnReview /\ Quiet /\ rowEdits + Len(stmts) < MaxRowEdits
  /\ \/ addRow = NoRow /\ addRow' = BlankRow
     \/ addRow # NoRow /\ addRow' \in {NoRow} \cup RowEntries(stmts[at].kind)
  /\ PageStill /\ UNCHANGED <<stmts, form, confirmBusy, loadError, replies, rowEdits>>

\* Nothing disables the button while the addition is on its way.
StageAddedRow ==
  /\ OnReview /\ addRow \notin {NoRow, BlankRow}
  /\ Patch(at, "add", Append(stmts[at].rows,
                             Item(addRow.key, addRow.amount, FALSE, FALSE)))
  /\ PageStill /\ UNCHANGED <<form, addRow, confirmBusy, loadError>>

ConfirmMapping ==
  /\ OnReview /\ ~ confirmBusy
  /\ confirmBusy' = TRUE
  /\ stmts' = AfterConfirm(at).stmts
  /\ SendCall("confirm", AfterConfirm(at).ok, at, <<>>)
  /\ PageStill /\ UNCHANGED <<form, addRow, loadError, rowEdits>>

-----------------------------------------------------------------------------
(* Answers                                                                 *)

\* openMapping by the mount or by a tick; a failed tick is caught by nobody
\* and ends the poll.
AnswerRead(r) ==
  /\ active' = IF r.ok THEN r.copy ELSE active
  /\ pollFor' = IF r.ok /\ r.copy.status = "processing" THEN r.id ELSE pollFor
  /\ loadError' = (loadError \/ (~ r.ok /\ r.op = "open"))
  /\ UNCHANGED <<at, listed, form, addRow, confirmBusy, stmts>>

AnswerList(r) ==
  /\ listed' = IF at = 0 THEN r.copy ELSE listed
  /\ UNCHANGED <<at, active, pollFor, form, addRow, confirmBusy, loadError, stmts>>

AnswerPatch(r) ==
  /\ active' = IF r.ok THEN r.copy ELSE active
  /\ addRow' = IF r.ok /\ r.op = "add" THEN NoRow ELSE addRow
  /\ UNCHANGED <<at, listed, pollFor, form, confirmBusy, loadError, stmts>>

\* A confirm that succeeded reads the mapping again before it is done.
AnswerConfirm(r) ==
  /\ IF r.ok THEN UNCHANGED confirmBusy ELSE confirmBusy' = FALSE
  /\ UNCHANGED <<at, listed, active, pollFor, form, addRow, loadError, stmts>>

AnswerReread(r) ==
  /\ active' = IF r.ok THEN r.copy ELSE active
  /\ confirmBusy' = FALSE
  /\ UNCHANGED <<at, listed, pollFor, form, addRow, loadError, stmts>>

FailedCreate ==
  /\ confirmBusy' = FALSE
  /\ UNCHANGED <<at, listed, active, pollFor, form, addRow, loadError, stmts>>

Answer ==
  /\ replies # <<>>
  /\ LET r == Head(replies) IN
     \/ /\ r.op \in {"upload", "manual"} /\ r.ok
        /\ ShowStatement(r.id, Navigating(Tail(replies)))
     \/ /\ r.op = "confirm" /\ r.ok /\ AnswerConfirm(r)
        /\ \E arrives \in StatementAnswered :
             replies' = Append(Tail(replies), Reply("reread", arrives, r.id, CopyOf(stmts, r.id)))
     \/ /\ replies' = Tail(replies)
        /\ \/ r.op \in {"open", "tick"} /\ AnswerRead(r)
           \/ r.op = "list" /\ AnswerList(r)
           \/ r.op \in {"patch", "add"} /\ AnswerPatch(r)
           \/ r.op = "confirm" /\ ~ r.ok /\ AnswerConfirm(r)
           \/ r.op = "reread" /\ AnswerReread(r)
           \/ r.op \in {"upload", "manual"} /\ ~ r.ok /\ FailedCreate
  /\ UNCHANGED rowEdits

StatementPageNext ==
  \/ OpenList
  \/ \E id \in Stmts : OpenStatement(id)
  \/ \E kind \in Kinds : ChooseKind(kind)
  \/ \E id \in Stmts, period \in StatementPeriods :
       /\ \A i \in Stmts : i < id => i \in Existing
       /\ UploadFile(id, period) \/ SubmitManual(id, period)
  \/ \E open \in BOOLEAN : SetManual(open)
  \/ EditManual
  \/ PollTick
  \/ \E i \in ReviewRows : \E key \in KeysOffered(active.rows[i]) : MapRow(i, key)
  \/ EditAddRow \/ StageAddedRow \/ ConfirmMapping
  \/ Answer

StatementPageSpec == StatementPageInit /\ [][StatementPageNext]_statementPageVars

-----------------------------------------------------------------------------

StatementPageTypeOK ==
  /\ Existing \subseteq Stmts /\ at \in {0} \cup Existing
  /\ pollFor \in {0} \cup Existing /\ confirmBusy \in BOOLEAN
  /\ \A i \in Existing :
       stmts[i].status \in {"processing", "staged", "confirmed", "superseded"}

\* A total of a confirmed statement that is more than 1 % off the sum of its
\* components is named in the statement's warnings, whether the total was in
\* the file, was entered, or was derived at an earlier, refused confirm and
\* has become stale since (runDerivations).
DivergenceIsWarned ==
  \A i \in Existing : stmts[i].status \in {"confirmed", "superseded"} =>
    \A d \in ToSet(DerivationsOf(stmts[i].kind)) :
      Diverges(stmts[i].rows, d) => d.key \in stmts[i].warned

\* A period that has a confirmed statement keeps exactly one, and the
\* statement that leaves names the one that replaced it (confirm route).
OneStatementPerPeriod ==
  [][\A kind \in Kinds \cup UploadedKinds, period \in StatementPeriods :
       LET now == ConfirmedOf(kind, period)
           after == {i \in DOMAIN stmts' : /\ stmts'[i].kind = kind
                                           /\ stmts'[i].period = period
                                           /\ stmts'[i].status = "confirmed"}
       IN now # {} => /\ Cardinality(after) = 1
                      /\ \A i \in now \ after :
                           stmts'[i].status = "superseded" /\ {stmts'[i].by} = after
    ]_statementPageVars

\* Every row of a statement carries a key of the statement's kind (the "closed
\* vocabulary" of ManualStatementRow's key options).
\* Not kept by the code (README, "By hand").
RowsFitTheKind ==
  \A i \in Existing : \A j \in DOMAIN stmts[i].rows :
    stmts[i].rows[j].key \in KeysOf(stmts[i].kind) \cup {"none"}

\* "derived keys compute when absent": a derived row of a confirmed statement
\* is the sum of its components.
\* Not kept by the code (README, "By hand").
DerivedRowsAreCurrent ==
  \A i \in Existing : stmts[i].status = "confirmed" =>
    \A d \in ToSet(DerivationsOf(stmts[i].kind)) : \A j \in DOMAIN stmts[i].rows :
      stmts[i].rows[j].derived /\ stmts[i].rows[j].key = d.key
        => stmts[i].rows[j].amount = Computed(stmts[i].rows, d)
=============================================================================
