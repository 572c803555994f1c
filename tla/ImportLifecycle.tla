-------------------------- MODULE ImportLifecycle -------------------------
(***************************************************************************)
(* What an import promises its user, whatever happens between the          *)
(* services: a job goes one way from its creation to one of three ends     *)
(* (failed, imported, deleted), the rows the user reviews are those of one *)
(* result, and they reach the ledger once and all together.                *)
(***************************************************************************)
EXTENDS Sequences

CONSTANTS Jobs, Contents

VARIABLES phase, rows, imported

vars == <<phase, rows, imported>>

Phases == {"none", "awaiting_upload", "processing", "completed", "failed", "imported", "deleted"}

Init ==
  /\ phase = [j \in Jobs |-> "none"]
  /\ rows = [j \in Jobs |-> {}]
  /\ imported = [j \in Jobs |-> <<>>]

Move(j, from, to) ==
  /\ phase[j] \in from
  /\ phase' = [phase EXCEPT ![j] = to]

Create(j) ==
  Move(j, {"none"}, "awaiting_upload") /\ UNCHANGED <<rows, imported>>

Start(j) ==
  Move(j, {"awaiting_upload"}, "processing") /\ UNCHANGED <<rows, imported>>

Complete(j, c) ==
  /\ Move(j, {"processing"}, "completed")
  /\ rows' = [rows EXCEPT ![j] = {c}]
  /\ UNCHANGED imported

Fail(j) ==
  Move(j, {"awaiting_upload", "processing"}, "failed") /\ UNCHANGED <<rows, imported>>

Import(j) ==
  /\ Move(j, {"completed"}, "imported")
  /\ imported' = [imported EXCEPT ![j] = <<rows[j]>>]
  /\ UNCHANGED rows

Delete(j) ==
  /\ Move(j, {"awaiting_upload", "processing", "completed", "failed"}, "deleted")
  /\ rows' = [rows EXCEPT ![j] = {}]
  /\ UNCHANGED imported

\* One pass over every job: those stuck in processing fail, those whose
\* upload never came are deleted.
GiveUp(late, absent) ==
  /\ \A j \in late : phase[j] = "processing"
  /\ \A j \in absent : phase[j] = "awaiting_upload"
  /\ phase' = [j \in Jobs |-> IF j \in late THEN "failed"
                              ELSE IF j \in absent THEN "deleted" ELSE phase[j]]
  /\ UNCHANGED <<rows, imported>>

Next ==
  \/ \E j \in Jobs : \/ Create(j) \/ Start(j) \/ Fail(j) \/ Import(j) \/ Delete(j)
                     \/ \E c \in Contents : Complete(j, c)
  \/ \E late, absent \in SUBSET Jobs : GiveUp(late, absent)

Spec == Init /\ [][Next]_vars
=============================================================================
