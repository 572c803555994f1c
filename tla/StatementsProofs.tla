-------------------------- MODULE StatementsProofs -------------------------
(***************************************************************************)
(* Theorems about Statements, for every number of statements, edits and    *)
(* requests, and all faults together.                                      *)
(***************************************************************************)
EXTENDS Statements, ComputeRequestsProofs

USE DEF statementVars

\* A statement has rows from the mapping or the manual entry on.
HasRows(s) == status[s] \in {"staged", "confirmed", "superseded"}

RowsOnceMapped ==
  \A s \in Statements : IF HasRows(s) THEN rows[s] \in Rows ELSE rows[s] = NoRows

\* The validation of the latest edit judged the rows of that edit, and derived
\* from them.
ChecksAreCurrent ==
  \A s \in Statements : Checked(s) => validation[s].rows = rows[s] /\ derived[s] = rows[s]

\* What is asked is an edit that was made, with the rows of that edit.
AsksAreEdits ==
  \A r \in Requests :
    state[r] # "none" =>
      LET s == ask[r].scope.statement IN
      /\ HasRows(s)
      /\ ask[r].scope.mapping <= mapping[s]
      /\ ForThisMapping(r) => ask[r].inputs = rows[s]

\* While a confirm is open, nothing it checked changes.
ConfirmsPassed ==
  \A s \in confirming : status[s] = "staged" /\ rows[s] \in Sound /\ derived[s] = rows[s]

StatementsInv ==
  /\ RequestsInv(Asks) /\ TypeOK
  /\ RowsOnceMapped /\ ChecksAreCurrent /\ AsksAreEdits
  /\ ConfirmsPassed /\ ConfirmedPassedChecks

LEMMA StatementsStart == Init => StatementsInv
<1> SUFFICES ASSUME Init PROVE StatementsInv
  OBVIOUS
<1>1. RequestsInv(Asks)
  BY RequestsStart DEF Init
<1>2. TypeOK
  BY <1>1, StatementsAssumption DEF Init, TypeOK, RequestsInv, Statuses, MappingVersions
<1> QED
  BY <1>1, <1>2
     DEF Init, RequestsInit, StatementsInv, RowsOnceMapped, HasRows, ChecksAreCurrent, Checked,
         NoValidation, AsksAreEdits, ConfirmsPassed, ConfirmedPassedChecks

\* A step of the statements alone.
LEMMA RequestsFramed ==
  ASSUME RequestsInv(Asks), UNCHANGED requestVars
  PROVE  RequestsInv(Asks)'
BY DEF RequestsInv, RequestsTypeOK, Claimed, Unrecorded, requestVars, tableVars, laneVars

\* A step of the exchange alone.
LEMMA StatementsFramed ==
  ASSUME StatementsInv, UNCHANGED statementVars, RequestsInv(Asks)', ask' = ask,
         \A r \in Requests : state'[r] # "none" => state[r] # "none"
  PROVE  StatementsInv'
<1>1. TypeOK'
  BY DEF StatementsInv, TypeOK, RequestsInv
<1>2. RowsOnceMapped' /\ ChecksAreCurrent' /\ ConfirmsPassed' /\ ConfirmedPassedChecks'
  BY DEF StatementsInv, RowsOnceMapped, HasRows, ChecksAreCurrent, Checked, ConfirmsPassed,
         ConfirmedPassedChecks
<1>3. AsksAreEdits'
  BY DEF StatementsInv, AsksAreEdits, HasRows, ForThisMapping
<1> QED
  BY <1>1, <1>2, <1>3 DEF StatementsInv

\* An unchecked statement without rows: mapping versions start at 1.
LEMMA UncheckedWithoutRows ==
  ASSUME StatementsInv, NEW s \in Statements, ~HasRows(s)
  PROVE  ~Checked(s)
BY StatementsAssumption
   DEF StatementsInv, TypeOK, RowsOnceMapped, ChecksAreCurrent, Checked, MappingVersions,
       NoValidation

\* What is asked is asked of a statement.
LEMMA AsksName ==
  ASSUME RequestsInv(Asks)
  PROVE  \A r \in Requests :
           state[r] # "none" =>
             ask[r].scope.statement \in Statements /\ ask[r].inputs \in Rows
BY DEF RequestsInv, Claimed, Asks, Scopes

\* The steps of the users.
LEMMA ReviewingKeeps ==
  ASSUME StatementsInv, Reviewing
  PROVE  StatementsInv'
<1> USE StatementsAssumption
<1>0. /\ RequestsInv(Asks) /\ TypeOK /\ RowsOnceMapped /\ ChecksAreCurrent /\ AsksAreEdits
      /\ ConfirmsPassed /\ ConfirmedPassedChecks
  BY DEF StatementsInv
<1>1. ASSUME NEW s \in Statements, CreateForUpload(s) PROVE StatementsInv'
  <2>1. RequestsInv(Asks)'
    BY <1>0, <1>1, RequestsFramed DEF CreateForUpload
  <2>2. TypeOK'
    BY <1>0, <1>1, <2>1 DEF CreateForUpload, TypeOK, RequestsInv, Statuses
  <2>3. AsksAreEdits'
    BY <1>0, <1>1, AsksName
       DEF CreateForUpload, AsksAreEdits, HasRows, ForThisMapping, TypeOK, requestVars, tableVars
  <2> QED
    BY <1>0, <1>1, <2>1, <2>2, <2>3
       DEF CreateForUpload, StatementsInv, TypeOK, RowsOnceMapped, HasRows, ChecksAreCurrent,
           Checked, ConfirmsPassed, ConfirmedPassedChecks
<1>2. ASSUME NEW s \in Statements, NEW r \in Rows, CreateManual(s, r) PROVE StatementsInv'
  <2>1. Request(ValidationScope(s, mapping[s]), 0, r)
    BY <1>0, <1>2 DEF CreateManual, AskValidation, TypeOK
  <2>2. [scope |-> ValidationScope(s, mapping[s]), version |-> 0, inputs |-> r] \in Asks
    BY <1>0 DEF Asks, Scopes, ValidationScope, TypeOK
  <2>3. RequestsInv(Asks)'
    BY <1>0, <2>1, <2>2, RequestKeeps
  <2>4. TypeOK'
    BY <1>0, <1>2, <2>3 DEF CreateManual, TypeOK, RequestsInv, Statuses
  <2>5. AsksAreEdits'
    <3> SUFFICES ASSUME NEW q \in Requests, state'[q] # "none"
                 PROVE  /\ HasRows(ask[q].scope.statement)'
                        /\ ask'[q].scope.mapping <= mapping'[ask'[q].scope.statement]
                        /\ ForThisMapping(q)' => ask'[q].inputs = rows'[ask'[q].scope.statement]
      BY DEF AsksAreEdits
    <3>1. \/ state[q] # "none" /\ ask'[q] = ask[q]
          \/ ask'[q] = [scope |-> ValidationScope(s, mapping[s]), version |-> 0, inputs |-> r]
      BY <1>0, <2>1, RequestClaims DEF RequestsInv
    <3>2. CASE state[q] # "none" /\ ask'[q] = ask[q]
      <4>1. ask[q].scope.statement # s
        BY <1>0, <1>2, <3>2 DEF AsksAreEdits, HasRows, CreateManual
      <4> QED
        BY <1>0, <1>2, <3>2, <4>1 DEF AsksAreEdits, HasRows, ForThisMapping, CreateManual, TypeOK
    <3>3. CASE ask'[q] = [scope |-> ValidationScope(s, mapping[s]), version |-> 0, inputs |-> r]
      BY <1>0, <1>2, <3>3
         DEF CreateManual, HasRows, ForThisMapping, TypeOK, ValidationScope, MappingVersions
    <3> QED
      BY <3>1, <3>2, <3>3
  <2>6. ~Checked(s)
    BY <1>2, UncheckedWithoutRows DEF CreateManual, HasRows
  <2> QED
    BY <1>0, <1>2, <2>3, <2>4, <2>5, <2>6
       DEF CreateManual, StatementsInv, TypeOK, RowsOnceMapped, HasRows, ChecksAreCurrent,
           Checked, ConfirmsPassed, ConfirmedPassedChecks
<1>3. ASSUME NEW s \in Statements, NEW r \in Rows, PatchMapping(s, r) PROVE StatementsInv'
  <2>0. mapping[s] \in Nat /\ mapping'[s] = mapping[s] + 1 /\ mapping'[s] \in MappingVersions
        /\ rows'[s] = r
    BY <1>0, <1>3 DEF PatchMapping, TypeOK, MappingVersions
  <2>1. Request(ValidationScope(s, mapping[s] + 1), 0, r)
    BY <1>3, <2>0 DEF PatchMapping, AskValidation
  <2>2. [scope |-> ValidationScope(s, mapping[s] + 1), version |-> 0, inputs |-> r] \in Asks
    BY <2>0 DEF Asks, Scopes, ValidationScope
  <2>3. RequestsInv(Asks)'
    BY <1>0, <2>1, <2>2, RequestKeeps
  <2>4. TypeOK'
    BY <1>0, <1>3, <2>0, <2>3 DEF PatchMapping, TypeOK, RequestsInv
  <2>5. AsksAreEdits'
    <3> SUFFICES ASSUME NEW q \in Requests, state'[q] # "none"
                 PROVE  /\ HasRows(ask[q].scope.statement)'
                        /\ ask'[q].scope.mapping <= mapping'[ask'[q].scope.statement]
                        /\ ForThisMapping(q)' => ask'[q].inputs = rows'[ask'[q].scope.statement]
      BY DEF AsksAreEdits
    <3>1. \/ state[q] # "none" /\ ask'[q] = ask[q]
          \/ ask'[q] = [scope |-> ValidationScope(s, mapping[s] + 1), version |-> 0, inputs |-> r]
      BY <1>0, <2>1, RequestClaims DEF RequestsInv
    <3>2. CASE state[q] # "none" /\ ask'[q] = ask[q]
      <4>1. ask[q] \in Asks
        BY <1>0, <3>2 DEF RequestsInv, Claimed
      <4>2. ask[q].scope.mapping \in Nat /\ ask[q].scope.statement \in Statements
        BY <4>1 DEF Asks, Scopes, MappingVersions
      <4>3. CASE ask[q].scope.statement = s
        BY <1>0, <1>3, <2>0, <3>2, <4>2, <4>3
           DEF AsksAreEdits, HasRows, ForThisMapping, PatchMapping
      <4>4. CASE ask[q].scope.statement # s
        BY <1>0, <1>3, <3>2, <4>2, <4>4
           DEF AsksAreEdits, HasRows, ForThisMapping, PatchMapping, TypeOK
      <4> QED
        BY <4>3, <4>4
    <3>3. CASE ask'[q] = [scope |-> ValidationScope(s, mapping[s] + 1), version |-> 0, inputs |-> r]
      BY <1>0, <1>3, <2>0, <3>3
         DEF PatchMapping, HasRows, ForThisMapping, ValidationScope, MappingVersions
    <3> QED
      BY <3>1, <3>2, <3>3
  <2>6. validation'[s].mapping = 0
    BY <1>0, <1>3 DEF PatchMapping, TypeOK, NoValidation
  <2> QED
    BY <1>0, <1>3, <2>0, <2>3, <2>4, <2>5, <2>6
       DEF PatchMapping, Locked, StatementsInv, TypeOK, RowsOnceMapped, HasRows,
           ChecksAreCurrent, Checked, ConfirmsPassed, ConfirmedPassedChecks, MappingVersions
<1>4. ASSUME NEW s \in Statements, BeginConfirm(s) PROVE StatementsInv'
  <2>1. RequestsInv(Asks)'
    BY <1>0, <1>4, RequestsFramed DEF BeginConfirm
  <2>2. TypeOK'
    BY <1>0, <1>4, <2>1 DEF BeginConfirm, TypeOK, RequestsInv
  <2>3. AsksAreEdits'
    BY <1>0, <1>4 DEF BeginConfirm, AsksAreEdits, HasRows, ForThisMapping, requestVars, tableVars
  <2> QED
    BY <1>0, <1>4, <2>1, <2>2, <2>3
       DEF BeginConfirm, StatementsInv, RowsOnceMapped, HasRows, ChecksAreCurrent,
           Checked, ConfirmsPassed, ConfirmedPassedChecks
<1>5. ASSUME NEW s \in Statements, EndConfirm(s) PROVE StatementsInv'
  <2>1. RequestsInv(Asks)'
    BY <1>0, <1>5, RequestsFramed DEF EndConfirm
  <2>2. TypeOK'
    BY <1>0, <1>5, <2>1 DEF EndConfirm, TypeOK, RequestsInv, Statuses
  <2>3. \A o \in Statements : HasRows(o)' <=> HasRows(o)
    BY <1>0, <1>5 DEF EndConfirm, HasRows, ConfirmsPassed
  <2>4. AsksAreEdits'
    <3> SUFFICES ASSUME NEW q \in Requests, state[q] # "none"
                 PROVE  HasRows(ask[q].scope.statement)'
      BY <1>0, <1>5 DEF EndConfirm, AsksAreEdits, ForThisMapping, requestVars, tableVars, HasRows
    <3>1. ask[q].scope.statement \in Statements
      BY <1>0 DEF RequestsInv, Claimed, Asks, Scopes
    <3> QED
      BY <1>0, <1>5, <2>3, <3>1 DEF AsksAreEdits, EndConfirm, HasRows, requestVars, tableVars
  <2>5. RowsOnceMapped' /\ ChecksAreCurrent'
    BY <1>0, <1>5, <2>3 DEF EndConfirm, RowsOnceMapped, ChecksAreCurrent, Checked
  <2>6. ConfirmsPassed'
    BY <1>0, <1>5 DEF EndConfirm, ConfirmsPassed, TypeOK
  <2>7. ConfirmedPassedChecks'
    BY <1>0, <1>5 DEF EndConfirm, ConfirmsPassed, ConfirmedPassedChecks
  <2> QED
    BY <2>1, <2>2, <2>4, <2>5, <2>6, <2>7 DEF StatementsInv
<1>6. ASSUME NEW s \in Statements, ConfirmStops(s) PROVE StatementsInv'
  <2>1. RequestsInv(Asks)'
    BY <1>0, <1>6, RequestsFramed DEF ConfirmStops
  <2>2. TypeOK'
    BY <1>0, <1>6, <2>1 DEF ConfirmStops, TypeOK, RequestsInv
  <2>3. AsksAreEdits'
    BY <1>0, <1>6 DEF ConfirmStops, AsksAreEdits, HasRows, ForThisMapping, requestVars, tableVars
  <2> QED
    BY <1>0, <1>6, <2>1, <2>2, <2>3
       DEF ConfirmStops, StatementsInv, RowsOnceMapped, HasRows, ChecksAreCurrent,
           Checked, ConfirmsPassed, ConfirmedPassedChecks
<1> QED
  BY <1>1, <1>2, <1>3, <1>4, <1>5, <1>6 DEF Reviewing

\* A step of the upload, the extract pool or the reaper that gives no rows.
LEMMA StatusMoves ==
  ASSUME StatementsInv, UNCHANGED <<requestVars, mapping, rows, derived, validation,
                                    confirming, superseding>>,
         sentAgain' \subseteq Statements, ready' \subseteq Statements,
         mapped' \subseteq Statements \X (Rows \cup {"failed"}),
         status' \in [Statements -> Statuses],
         \A s \in Statements : \/ status'[s] = status[s]
                               \/ ~HasRows(s) /\ status'[s] \in {"processing", "failed"}
  PROVE  StatementsInv'
<1>0. /\ RequestsInv(Asks) /\ TypeOK /\ RowsOnceMapped /\ ChecksAreCurrent /\ AsksAreEdits
      /\ ConfirmsPassed /\ ConfirmedPassedChecks
  BY DEF StatementsInv
<1>1. RequestsInv(Asks)'
  BY <1>0, RequestsFramed
<1>2. TypeOK'
  BY <1>0, <1>1 DEF TypeOK, RequestsInv
<1>3. \A s \in Statements : HasRows(s)' <=> HasRows(s)
  BY DEF HasRows
<1>4. AsksAreEdits'
  BY <1>0, <1>3, AsksName DEF AsksAreEdits, ForThisMapping, requestVars, tableVars
<1>5. RowsOnceMapped' /\ ChecksAreCurrent'
  BY <1>0, <1>3 DEF RowsOnceMapped, ChecksAreCurrent, Checked
<1>6. ConfirmsPassed' /\ ConfirmedPassedChecks'
  BY <1>0 DEF ConfirmsPassed, ConfirmedPassedChecks, HasRows, TypeOK
<1> QED
  BY <1>1, <1>2, <1>4, <1>5, <1>6 DEF StatementsInv

\* The mapping arrives.
LEMMA MappedKeeps ==
  ASSUME StatementsInv, NEW s \in Statements, NEW r \in Rows, OnStatementMapped(s, r),
         AwaitsMapping(s)
  PROVE  StatementsInv'
<1> USE StatementsAssumption
<1>0. /\ RequestsInv(Asks) /\ TypeOK /\ RowsOnceMapped /\ ChecksAreCurrent /\ AsksAreEdits
      /\ ConfirmsPassed /\ ConfirmedPassedChecks
  BY DEF StatementsInv
<1>1. /\ status[s] = "processing"
      /\ status' = [status EXCEPT ![s] = "staged"]
      /\ rows' = [rows EXCEPT ![s] = r]
      /\ derived' = [derived EXCEPT ![s] = r]
      /\ validation' = [validation EXCEPT ![s] = [mapping |-> mapping[s], rows |-> r]]
      /\ UNCHANGED <<requestVars, mapping, sentAgain, ready, confirming, superseding>>
  BY DEF OnStatementMapped, AwaitsMapping, MappingFailed
<1>2. RequestsInv(Asks)'
  BY <1>0, <1>1, RequestsFramed
<1>3. mapped' \subseteq mapped
  BY CommittedShrinks DEF OnStatementMapped
<1>4. TypeOK'
  BY <1>0, <1>1, <1>2, <1>3 DEF TypeOK, RequestsInv, Statuses
<1>5. \A q \in Requests : state[q] # "none" => ask[q].scope.statement # s
  BY <1>0, <1>1 DEF AsksAreEdits, HasRows
<1>6. AsksAreEdits'
  BY <1>0, <1>1, <1>5, AsksName
     DEF AsksAreEdits, ForThisMapping, HasRows, requestVars, tableVars, TypeOK
<1>7. RowsOnceMapped' /\ ChecksAreCurrent' /\ ConfirmsPassed' /\ ConfirmedPassedChecks'
  BY <1>0, <1>1
     DEF RowsOnceMapped, HasRows, ChecksAreCurrent, Checked, ConfirmsPassed,
         ConfirmedPassedChecks, TypeOK
<1> QED
  BY <1>2, <1>4, <1>6, <1>7 DEF StatementsInv

LEMMA MappingKeeps ==
  ASSUME StatementsInv, Mapping
  PROVE  StatementsInv'
<1> USE StatementsAssumption
<1>0. RequestsInv(Asks) /\ TypeOK
  BY DEF StatementsInv
<1>1. ASSUME NEW s \in Statements, StartProcessing(s) PROVE StatementsInv'
  BY <1>0, <1>1, StatusMoves DEF StartProcessing, TypeOK, HasRows, Statuses
<1>2. ASSUME NEW s \in Statements, OnUploadReceivedFailed(s) \/ ReapStatement(s)
      PROVE  StatementsInv'
  BY <1>0, <1>2, StatusMoves DEF OnUploadReceivedFailed, ReapStatement, TypeOK, HasRows, Statuses
<1>3. ASSUME NEW s \in Statements, ResendStatement(s) PROVE StatementsInv'
  BY <1>0, <1>3, StatusMoves DEF ResendStatement, TypeOK
<1>4. ASSUME NEW s \in Statements, NEW r \in Rows \cup {"failed"}, MapStatement(s, r)
      PROVE  StatementsInv'
  <2>1. ready' \subseteq ready
    BY <1>4, CommittedShrinks DEF MapStatement
  <2> QED
    BY <1>0, <1>4, <2>1, StatusMoves DEF MapStatement, TypeOK
<1>5. ASSUME NEW s \in Statements, NEW r \in Rows \cup {"failed"}, OnStatementMapped(s, r)
      PROVE  StatementsInv'
  <2>1. mapped' \subseteq mapped
    BY <1>5, CommittedShrinks DEF OnStatementMapped
  <2>2. CASE ~AwaitsMapping(s)
    BY <1>0, <1>5, <2>1, <2>2, StatusMoves DEF OnStatementMapped, TypeOK
  <2>3. CASE AwaitsMapping(s) /\ r = "failed"
    BY <1>0, <1>5, <2>1, <2>3, StatusMoves
       DEF OnStatementMapped, AwaitsMapping, MappingFailed, TypeOK, HasRows, Statuses
  <2>4. CASE AwaitsMapping(s) /\ r \in Rows
    BY <1>5, <2>4, MappedKeeps
  <2> QED
    BY <2>2, <2>3, <2>4
<1>6. ASSUME NEW s \in Statements, NEW r \in Rows \cup {"failed"}, OnStatementMappedFailed(s, r)
      PROVE  StatementsInv'
  BY <1>0, <1>6, StatusMoves DEF OnStatementMappedFailed, TypeOK, HasRows, Statuses
<1> QED
  BY <1>1, <1>2, <1>3, <1>4, <1>5, <1>6 DEF Mapping

\* A validation counts only for the edit it was asked for.
LEMMA ValidationKeeps ==
  ASSUME StatementsInv, NEW r \in Requests, StoreValidation(r)
  PROVE  StatementsInv'
<1>0. /\ RequestsInv(Asks) /\ TypeOK /\ RowsOnceMapped /\ ChecksAreCurrent /\ AsksAreEdits
      /\ ConfirmsPassed /\ ConfirmedPassedChecks
  BY DEF StatementsInv
<1> DEFINE s == ask[r].scope.statement
<1>1. TakeResult(r) /\ s \notin confirming
      /\ UNCHANGED <<status, mapping, rows, sentAgain, ready, mapped, confirming, superseding>>
  BY DEF StoreValidation, Locked
<1>2. RequestsInv(Asks)' /\ ask[r] \in Asks
  BY <1>0, <1>1, TakeKeeps
<1>3. ask' = ask /\ \A x \in Requests : state'[x] # "none" => state[x] # "none"
  BY <1>0, <1>1, OnlyRequestsClaim
<1>4. state[r] # "none"
  BY <1>0, <1>1 DEF TakeResult, RequestsInv, Claimed, Answers
<1>5. s \in Statements /\ ask[r].scope.mapping \in MappingVersions /\ ask[r].inputs \in Rows
  BY <1>2 DEF Asks, Scopes
<1>6. CASE ~ForThisMapping(r)
  BY <1>1, <1>2, <1>3, <1>6, StatementsFramed DEF StoreValidation
<1>7. CASE ForThisMapping(r)
  <2>1. /\ derived' = [derived EXCEPT ![s] = rows[s]]
        /\ validation' = [validation EXCEPT ![s] = [mapping |-> mapping[s], rows |-> rows[s]]]
        /\ HasRows(s) /\ rows[s] \in Rows /\ mapping[s] \in MappingVersions
    BY <1>0, <1>4, <1>5, <1>7
       DEF StoreValidation, AsksAreEdits, ForThisMapping
  <2>2. TypeOK'
    BY <1>0, <1>1, <1>2, <1>5, <2>1 DEF TypeOK, RequestsInv
  <2>3. RowsOnceMapped' /\ ChecksAreCurrent' /\ ConfirmsPassed' /\ ConfirmedPassedChecks'
    BY <1>0, <1>1, <1>5, <2>1
       DEF RowsOnceMapped, HasRows, ChecksAreCurrent, Checked, ConfirmsPassed,
           ConfirmedPassedChecks, TypeOK
  <2>4. AsksAreEdits'
    BY <1>0, <1>1, <1>3 DEF AsksAreEdits, HasRows, ForThisMapping
  <2> QED
    BY <1>2, <2>2, <2>3, <2>4 DEF StatementsInv
<1> QED
  BY <1>6, <1>7

\* Every step keeps the invariant.
LEMMA StatementsNext == StatementsInv /\ [Next]_vars => StatementsInv'
<1> SUFFICES ASSUME StatementsInv, [Next]_vars PROVE StatementsInv'
  OBVIOUS
<1>0. RequestsInv(Asks)
  BY DEF StatementsInv
<1>1. CASE Exchange /\ UNCHANGED statementVars
  BY <1>0, <1>1, ExchangeKeeps, OnlyRequestsClaim, StatementsFramed
<1>2. CASE Consuming /\ UNCHANGED statementVars
  BY <1>0, <1>2, ConsumingKeeps, OnlyRequestsClaim, StatementsFramed
<1>3. CASE UNCHANGED vars
  <2>1. RequestsInv(Asks)' /\ ask' = ask /\ state' = state
    BY <1>0, <1>3, RequestsFramed DEF vars, requestVars, tableVars
  <2> QED
    BY <1>3, <2>1, StatementsFramed DEF vars
<1> QED
  BY <1>1, <1>2, <1>3, ReviewingKeeps, MappingKeeps, ValidationKeeps DEF Next

\* The inductive invariant of the statements and their reviews holds in every state.
THEOREM StatementsInvariant == Spec => []StatementsInv
BY StatementsStart, StatementsNext, PTL DEF Spec

\* Statements.TypeOK: every variable has its type.
THEOREM StatementsTyped == Spec => []TypeOK
BY StatementsInvariant, PTL DEF StatementsInv

\* Statements.ConfirmedPassedChecks: what is confirmed passed the checks, in
\* whatever order edits, results and confirms interleave.
THEOREM PassedChecks == Spec => []ConfirmedPassedChecks
BY StatementsInvariant, PTL DEF StatementsInv

\* Statements.OnlyEditsChangeRows: a statement that waits for its mapping has
\* no rows yet, so a mapping replaces none.
THEOREM OnlyEdits == Spec => OnlyEditsChangeRows
<1>1. ASSUME StatementsInv, Next, NEW s \in Statements, rows[s] # NoRows, rows'[s] # rows[s]
      PROVE  status[s] = "staged" /\ mapping'[s] = mapping[s] + 1
  <2>1. TypeOK /\ RowsOnceMapped
    BY <1>1 DEF StatementsInv
  <2>2. status[s] \notin {"none", "processing"}
    BY <1>1, <2>1 DEF RowsOnceMapped, HasRows
  <2>3. CASE Reviewing
    BY <1>1, <2>1, <2>2, <2>3
       DEF Reviewing, CreateForUpload, BeginConfirm, EndConfirm, ConfirmStops, CreateManual,
           PatchMapping, TypeOK
  <2>4. CASE Mapping
    BY <1>1, <2>1, <2>2, <2>4
       DEF Mapping, StartProcessing, OnUploadReceivedFailed, ReapStatement, ResendStatement,
           MapStatement, OnStatementMapped, OnStatementMappedFailed, AwaitsMapping, TypeOK
  <2>5. CASE UNCHANGED rows
    BY <1>1, <2>5
  <2> QED
    BY <1>1, <2>3, <2>4, <2>5 DEF Next, StoreValidation
<1>2. StatementsInv /\ [Next]_vars =>
        [\A s \in Statements :
           rows[s] # NoRows /\ rows'[s] # rows[s] =>
             status[s] = "staged" /\ mapping'[s] = mapping[s] + 1]_vars
  BY <1>1
<1> QED
  BY <1>2, StatementsInvariant, PTL DEF Spec, OnlyEditsChangeRows
=============================================================================
