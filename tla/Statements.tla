------------------------------ MODULE Statements ---------------------------
(***************************************************************************)
(* Financial statements: from the upload or the manual entry, through the  *)
(* mapping review, to the confirmed statement.  The compute pool checks    *)
(* every edit (kind statement_validation of ComputeRequests) and confirm   *)
(* relies on the stored validation alone.                                  *)
(*                                                                         *)
(* All statements are of one organization, kind and period.  A set of line *)
(* items is one of Rows; Sound are those that pass the identity and the    *)
(* unmapped-value checks.  The derived rows are named by the rows they     *)
(* were derived from.                                                      *)
(***************************************************************************)
EXTENDS ComputeRequests

CONSTANTS
  Statements, Rows, Sound,
  NoRows,
  MaxEdits   \* bound on the edits of a statement

ASSUME StatementsAssumption ==
  /\ Sound \subseteq Rows
  /\ NoRows \notin Rows \cup {"failed"}
  /\ "failed" \notin Rows
  /\ MaxEdits \in Nat

VARIABLES
  status,      \* mapping_status, or none before the statement exists
  mapping,     \* mapping_version
  rows,        \* line items that are not derived
  derived,     \* what the derived line items were computed from
  validation,  \* the stored validation: the mapping version and rows it judged
  sentAgain,   \* statements re-sent by the reaper (resent_at)
  ready,       \* statement.ready, from its outbox row to its consumer
  mapped,      \* statement.mapped
  confirming,  \* confirms whose transaction is open
  superseding  \* the confirmed statements each of them found

statementVars == <<status, mapping, rows, derived, validation, sentAgain, ready, mapped,
                   confirming, superseding>>

vars == <<requestVars, statementVars>>

Statuses == {"none", "awaiting_upload", "processing", "staged", "confirmed", "failed", "superseded"}
MappingVersions == 1..(MaxEdits + 1)

ValidationScope(s, m) == [statement |-> s, mapping |-> m]
Scopes == [statement : Statements, mapping : MappingVersions]
Asks == [scope : Scopes, version : {0}, inputs : Rows]

NoValidation == [mapping |-> 0, rows |-> NoRows]

TypeOK ==
  /\ RequestsTypeOK(Asks)
  /\ status \in [Statements -> Statuses]
  /\ mapping \in [Statements -> MappingVersions]
  /\ rows \in [Statements -> Rows \cup {NoRows}]
  /\ derived \in [Statements -> Rows \cup {NoRows}]
  /\ validation \in [Statements -> [mapping : MappingVersions, rows : Rows] \cup {NoValidation}]
  /\ sentAgain \subseteq Statements
  /\ ready \subseteq Statements
  /\ mapped \subseteq Statements \X (Rows \cup {"failed"})
  /\ confirming \subseteq Statements
  /\ superseding \in [Statements -> SUBSET Statements]

Init ==
  /\ RequestsInit
  /\ status = [s \in Statements |-> "none"]
  /\ mapping = [s \in Statements |-> 1]
  /\ rows = [s \in Statements |-> NoRows]
  /\ derived = [s \in Statements |-> NoRows]
  /\ validation = [s \in Statements |-> NoValidation]
  /\ sentAgain = {} /\ ready = {} /\ mapped = {} /\ confirming = {}
  /\ superseding = [s \in Statements |-> {}]

\* The row of a statement is locked until its confirm commits.
Locked(s) == s \in confirming

\* requestValidation, in the transaction that wrote the rows.
AskValidation(s) == Request(ValidationScope(s, mapping'[s]), 0, rows'[s])

-----------------------------------------------------------------------------
(* Requests of the users.                                                  *)

CreateForUpload(s) ==
  /\ status[s] = "none"
  /\ status' = [status EXCEPT ![s] = "awaiting_upload"]
  /\ UNCHANGED <<requestVars, mapping, rows, derived, validation, sentAgain, ready, mapped,
                 confirming, superseding>>

CreateManual(s, r) ==
  /\ status[s] = "none"
  /\ status' = [status EXCEPT ![s] = "staged"]
  /\ rows' = [rows EXCEPT ![s] = r]
  /\ UNCHANGED mapping
  /\ AskValidation(s)
  /\ UNCHANGED <<derived, validation, sentAgain, ready, mapped, confirming, superseding>>

\* The derived rows stay what they were until the edit is checked.
PatchMapping(s, r) ==
  /\ status[s] = "staged" /\ ~Locked(s)
  /\ mapping[s] <= MaxEdits
  /\ rows' = [rows EXCEPT ![s] = r]
  /\ mapping' = [mapping EXCEPT ![s] = @ + 1]
  /\ validation' = [validation EXCEPT ![s] = NoValidation]
  /\ AskValidation(s)
  /\ UNCHANGED <<status, derived, sentAgain, ready, mapped, confirming, superseding>>

\* Confirm answers validation_pending until the stored validation is for the
\* latest edit, and the stored code if it failed.
Checked(s) == validation[s].mapping = mapping[s]

\* Confirm reads which statements are confirmed; those being confirmed at the
\* moment are not yet.
BeginConfirm(s) ==
  /\ status[s] = "staged" /\ ~Locked(s)
  /\ Checked(s)
  /\ validation[s].rows \in Sound
  /\ confirming' = confirming \cup {s}
  /\ superseding' = [superseding EXCEPT ![s] = {o \in Statements : status[o] = "confirmed"}]
  /\ UNCHANGED <<requestVars, status, mapping, rows, derived, validation, sentAgain, ready, mapped>>

EndConfirm(s) ==
  /\ s \in confirming
  /\ status' = [o \in Statements |->
                  IF o = s THEN "confirmed"
                  ELSE IF o \in superseding[s] /\ status[o] = "confirmed" THEN "superseded"
                  ELSE status[o]]
  /\ confirming' = confirming \ {s}
  /\ superseding' = [superseding EXCEPT ![s] = {}]
  /\ UNCHANGED <<requestVars, mapping, rows, derived, validation, sentAgain, ready, mapped>>

ConfirmStops(s) ==
  /\ "outage" \in Faults
  /\ s \in confirming
  /\ confirming' = confirming \ {s}
  /\ superseding' = [superseding EXCEPT ![s] = {}]
  /\ UNCHANGED <<requestVars, status, mapping, rows, derived, validation, sentAgain, ready, mapped>>

-----------------------------------------------------------------------------
(* The upload, the extract pool, and the reaper.                           *)

\* onUpload, once the ticket was taken (ImportPipeline).
StartProcessing(s) ==
  /\ status[s] = "awaiting_upload"
  /\ status' = [status EXCEPT ![s] = "processing"]
  /\ ready' = ready \cup {s}
  /\ UNCHANGED <<requestVars, mapping, rows, derived, validation, sentAgain, mapped,
                 confirming, superseding>>

\* analytics maps the rows it parsed, derives and checks them at once.
MapStatement(s, r) ==
  /\ s \in ready
  /\ mapped' = mapped \cup {<<s, r>>}
  /\ ready' \in Committed(ready, s)
  /\ UNCHANGED <<requestVars, status, mapping, rows, derived, validation, sentAgain,
                 confirming, superseding>>

\* Slip: a mapping is taken until the statement is confirmed.
LateMapping(s) == status[s] # "confirmed"

AwaitsMapping(s) == status[s] = "processing"

\* Slip: a failed mapping is not told from rows.
MappingFailedUnseen(r) == r \notin Rows \cup {"failed"}

\* The result carries no rows: the mapping failed.
MappingFailed(r) == r = "failed"

OnStatementMapped(s, r) ==
  /\ <<s, r>> \in mapped
  /\ ~Locked(s)
  /\ mapped' \in Committed(mapped, <<s, r>>)
  /\ IF ~AwaitsMapping(s) THEN UNCHANGED <<status, rows, derived, validation>>
     ELSE IF MappingFailed(r)
     THEN /\ status' = [status EXCEPT ![s] = "failed"]
          /\ UNCHANGED <<rows, derived, validation>>
     ELSE /\ status' = [status EXCEPT ![s] = "staged"]
          /\ rows' = [rows EXCEPT ![s] = r]
          /\ derived' = [derived EXCEPT ![s] = r]
          /\ validation' = [validation EXCEPT ![s] = [mapping |-> mapping[s], rows |-> r]]
  /\ UNCHANGED <<requestVars, mapping, sentAgain, ready, confirming, superseding>>

\* The result, or the upload, kept failing to store; recording that may fail
\* as well.
OnStatementMappedFailed(s, r) ==
  /\ "outage" \in Faults
  /\ <<s, r>> \in mapped
  /\ ~Locked(s)
  /\ mapped' = mapped \ {<<s, r>>}
  /\ \/ status[s] = "processing" /\ status' = [status EXCEPT ![s] = "failed"]
     \/ UNCHANGED status
  /\ UNCHANGED <<requestVars, mapping, rows, derived, validation, sentAgain, ready,
                 confirming, superseding>>

OnUploadReceivedFailed(s) ==
  /\ "outage" \in Faults
  /\ status[s] = "awaiting_upload"
  /\ status' = [status EXCEPT ![s] = "failed"]
  /\ UNCHANGED <<requestVars, mapping, rows, derived, validation, sentAgain, ready, mapped,
                 confirming, superseding>>

\* reap counts the 15 minutes from the creation of the statement, so a
\* statement may be failed as soon as its upload arrives.
ReapStatement(s) ==
  /\ status[s] = "processing"
  /\ status' = [status EXCEPT ![s] = "failed"]
  /\ UNCHANGED <<requestVars, mapping, rows, derived, validation, sentAgain, ready, mapped,
                 confirming, superseding>>

ResendStatement(s) ==
  /\ status[s] = "processing" /\ s \notin sentAgain
  /\ sentAgain' = sentAgain \cup {s}
  /\ ready' = ready \cup {s}
  /\ UNCHANGED <<requestVars, status, mapping, rows, derived, validation, mapped,
                 confirming, superseding>>

-----------------------------------------------------------------------------
\* Slip: a validation of any edit counts.
AnyMapping(r) == status[ask[r].scope.statement] # "none"

\* storeValidation: a result for an older mapping version is dropped.
ForThisMapping(r) == ask[r].scope.mapping = mapping[ask[r].scope.statement]

StoreValidation(r) ==
  LET s == ask[r].scope.statement IN
  /\ TakeResult(r)
  /\ ~Locked(s)
  /\ IF ForThisMapping(r)
     THEN /\ derived' = [derived EXCEPT ![s] = ask[r].inputs]
          /\ validation' = [validation EXCEPT ![s] =
                              [mapping |-> ask[r].scope.mapping, rows |-> ask[r].inputs]]
     ELSE UNCHANGED <<derived, validation>>
  /\ UNCHANGED <<status, mapping, rows, sentAgain, ready, mapped, confirming, superseding>>

-----------------------------------------------------------------------------
Reviewing ==
  \E s \in Statements : \/ CreateForUpload(s) \/ BeginConfirm(s) \/ EndConfirm(s) \/ ConfirmStops(s)
                        \/ \E r \in Rows : CreateManual(s, r) \/ PatchMapping(s, r)

Mapping ==
  \E s \in Statements :
    \/ StartProcessing(s) \/ OnUploadReceivedFailed(s) \/ ReapStatement(s) \/ ResendStatement(s)
    \/ \E r \in Rows \cup {"failed"} : \/ MapStatement(s, r) \/ OnStatementMapped(s, r)
                                       \/ OnStatementMappedFailed(s, r)

Next ==
  \/ Reviewing
  \/ Mapping
  \/ \E r \in Requests : StoreValidation(r)
  \/ Exchange /\ UNCHANGED statementVars
  \/ Consuming /\ UNCHANGED statementVars

Spec == Init /\ [][Next]_vars

-----------------------------------------------------------------------------
(* What must hold.                                                         *)

\* A statement is confirmed with the rows that passed the checks, and with
\* the rows derived from them, although Confirm computes nothing: it trusts
\* a validation that another service made of an earlier reading of the rows
\* (system-design.md 6.4).
ConfirmedPassedChecks ==
  \A s \in Statements :
    status[s] \in {"confirmed", "superseded"} => rows[s] \in Sound /\ derived[s] = rows[s]

\* Once a statement has rows, only an edit of the user while it is staged
\* changes them: no late, repeated or re-sent result of analytics does, and
\* a confirmed statement is immutable (flows/statement-mapping.md section 2).
OnlyEditsChangeRows ==
  [][\A s \in Statements :
       rows[s] # NoRows /\ rows'[s] # rows[s] =>
         status[s] = "staged" /\ mapping'[s] = mapping[s] + 1]_vars

\* "A newer confirmed statement for the same org, kind and period supersedes
\* the old one" (repository/statements.go:123): one is confirmed at a time.
OneConfirmed ==
  \A s, o \in Statements : status[s] = "confirmed" /\ status[o] = "confirmed" => s = o

\* "409 validation_pending while a recomputation is in flight"
\* (system-design.md 6.4): a staged statement whose latest edit is not checked
\* has a request for it that is pending, or on its way.
InFlight(s) ==
  \E r \in Requests :
    /\ ask[r] # NoAsk
    /\ ask[r].scope = ValidationScope(s, mapping[s])
    /\ \/ state[r] = "pending"
       \/ row[r] = "queued" \/ r \in requested
       \/ <<r, "ok">> \in results /\ First(r)

PendingIsInFlight ==
  \A s \in Statements : status[s] = "staged" /\ ~Checked(s) => InFlight(s)
=============================================================================
