----------------------------- MODULE SavedViews -----------------------------
(***************************************************************************)
(* The filter views that the browser keeps for an organization's           *)
(* transactions (use-saved-views.ts, SaveTransactionViewModal.tsx): what   *)
(* the page has read, what the store holds, a store that is full and       *)
(* another tab.  A saved view is a number.                                 *)
(***************************************************************************)
EXTENDS Integers, Sequences

CONSTANTS ViewOwners, \* organizations
          MaxViews,   \* bound: saved views
          ViewFaults  \* of "quota", "other tab"

ASSUME SavedViewsAssumption ==
  MaxViews \in Nat /\ ViewFaults \subseteq {"quota", "other tab"}

VARIABLES viewStore,  \* the browser's: [ViewOwners -> sequences]
          views,      \* the page's
          owner,      \* the active organization
          viewsMade,  \* history: how many views were saved
          adrift      \* history: the page's views are not those of the store

viewVars == <<viewStore, views, owner, viewsMade, adrift>>

\* The page appends to the views it read; a store that is full throws.
SaveView ==
  /\ viewsMade < MaxViews /\ viewsMade' = viewsMade + 1
  /\ views' = Append(views, viewsMade + 1)
  /\ \/ viewStore' = [viewStore EXCEPT ![owner] = views'] /\ adrift' = FALSE
     \/ "quota" \in ViewFaults /\ adrift' = TRUE /\ UNCHANGED viewStore
  /\ UNCHANGED owner

SavedElsewhere ==
  /\ "other tab" \in ViewFaults /\ viewsMade < MaxViews /\ viewsMade' = viewsMade + 1
  /\ \E o \in ViewOwners :
       /\ viewStore' = [viewStore EXCEPT ![o] = Append(@, viewsMade + 1)]
       /\ adrift' = (adrift \/ o = owner)
  /\ UNCHANGED <<views, owner>>

\* The views of the organization that becomes active are read; the page that
\* is loaded again reads its own.
ReadViews ==
  /\ \E o \in ViewOwners : owner' = o /\ views' = viewStore[o]
  /\ adrift' = FALSE /\ UNCHANGED <<viewStore, viewsMade>>

SavedViewsInit ==
  /\ owner \in ViewOwners /\ viewStore = [o \in ViewOwners |-> <<>>] /\ views = <<>>
  /\ viewsMade = 0 /\ adrift = FALSE

SavedViewsNext == SaveView \/ SavedElsewhere \/ ReadViews

SavedViewsSpec == SavedViewsInit /\ [][SavedViewsNext]_viewVars

-----------------------------------------------------------------------------
(* Properties                                                              *)

SavedViewsTypeOK ==
  /\ owner \in ViewOwners /\ viewStore \in [ViewOwners -> Seq(1..MaxViews)]
  /\ views \in Seq(1..MaxViews) /\ viewsMade \in 0..MaxViews /\ adrift \in BOOLEAN

\* The views offered are the organization's that the browser keeps
\* (use-saved-views.ts:33-46), unless the last one could not be stored or
\* another tab has saved one since they were read.
ViewsAreStored == adrift \/ views = viewStore[owner]

\* No saved view is lost, except that the page writes back what it had read
\* over what another tab has saved since (README, "By hand").
ViewsOnlyGrow ==
  [][~ adrift => \A o \in ViewOwners : \A i \in DOMAIN viewStore[o] :
       \E j \in DOMAIN viewStore'[o] : viewStore'[o][j] = viewStore[o][i]]_viewVars
=============================================================================
