---------------------------- MODULE CategoryPages ----------------------------
(***************************************************************************)
(* The category registry in the web client: the Active and Archive tabs,   *)
(* the editor, the delete confirmation and the merge tool, their           *)
(* controller (use-categories), and the category routes of the mock API.   *)
(* A call takes effect when it is sent and its answer comes later, in      *)
(* order.  Ledger and staged rows are counted per category.  Colors, tax   *)
(* attributes and wording are left out.                                    *)
(***************************************************************************)
EXTENDS Naturals, Sequences, FiniteSets

CONSTANTS Cats,         \* bound: ids of categories, a set 1..n
          SeedCats,     \* the categories at the start
          CatNames,     \* names the user types
          CatFaults,    \* of "refused": a call may fail
          MaxCatCalls   \* bound: calls sent

ASSUME CategoryPagesAssumption ==
  /\ Cats \subseteq Nat \ {0} /\ SeedCats \subseteq Cats
  /\ CatFaults \subseteq {"refused"} /\ MaxCatCalls \in Nat

VARIABLES registry,   \* the server's categories
          catUse,     \* ledger and staged rows per category
          categoryTab,        \* "active" or "archive"
          catList,    \* the tab's copies, or not loaded yet
          editor,     \* CategoryEditor's draft
          editorBusy,
          deleting,   \* confirmDelete
          mergeSource, mergeTarget, mergeBusy,
          catCalls, catCallsSent

categoryPagesVars == <<registry, catUse, categoryTab, catList, editor, editorBusy,
                       deleting, mergeSource, mergeTarget, mergeBusy,
                       catCalls, catCallsSent>>

CatTypes == {"expense", "income"}
NoDraft == [id |-> 0, name |-> "closed", type |-> "expense"]

-----------------------------------------------------------------------------
(* The routes                                                              *)

Registered == DOMAIN registry
CategoryList(t) == {[id |-> i, cat |-> registry[i]] :
                i \in {j \in Registered : registry[j].archived = (t = "archive")}}

\* POST: a name is taken by any category of its type, archived ones included.
NameTaken(name, type) ==
  \E i \in Registered : registry[i].name = name /\ registry[i].type = type

InUse(i) == catUse[i].ledger > 0

\* What an update is merged into; of a missing category nothing is written.
Current(i) == IF i \in Registered THEN registry[i]
              ELSE [name |-> "", type |-> "expense", archived |-> FALSE, ai |-> FALSE]

RegistryWithout(i) == [j \in Registered \ {i} |-> registry[j]]

\* POST merge: the target's type and its archive state are checked here.
Mergeable(i, into) ==
  /\ {i, into} \subseteq Registered /\ i # into
  /\ registry[i].type = registry[into].type /\ ~ registry[into].archived

UseAfterMerge(i, into) ==
  [catUse EXCEPT ![into] = [ledger |-> @.ledger + catUse[i].ledger,
                            staged |-> @.staged + catUse[i].staged],
                 ![i] = [ledger |-> 0, staged |-> 0]]

-----------------------------------------------------------------------------
(* Calls                                                                   *)

\* A call that passes its checks may still be refused (a read-only demo, an
\* expired session).
CatCall(op, ok, id, answer) == [op |-> op, ok |-> ok, id |-> id, answer |-> answer]
CatFates(valid) == IF valid THEN {TRUE} \cup {FALSE : f \in CatFaults} ELSE {FALSE}

SendCat(op, ok, id, answer) ==
  /\ catCallsSent < MaxCatCalls /\ catCallsSent' = catCallsSent + 1
  /\ catCalls' = Append(catCalls, CatCall(op, ok, id, answer))

SeedCat(i) == [name |-> "seed", type |-> IF i = 2 THEN "income" ELSE "expense",
               archived |-> FALSE, ai |-> i = 1]

CategoryPagesInit ==
  /\ registry = [i \in SeedCats |-> SeedCat(i)]
  /\ catUse = [i \in Cats |-> [ledger |-> IF i \in SeedCats /\ i # 1 THEN 1 ELSE 0,
                               staged |-> IF i = 1 THEN 1 ELSE 0]]
  /\ categoryTab = "active" /\ catList = {}
  /\ editor \in {NoDraft, [NoDraft EXCEPT !.name = ""]}   \* ?new=1 opens it
  /\ editorBusy = FALSE /\ deleting = 0
  /\ mergeSource = 0 /\ mergeTarget = 0 /\ mergeBusy = FALSE
  /\ catCalls = <<CatCall("list", TRUE, 0, CategoryList("active"))>> /\ catCallsSent = 0

DialogsStill == UNCHANGED <<editor, editorBusy, deleting, mergeSource, mergeTarget,
                            mergeBusy>>
NoDialog == editor = NoDraft /\ deleting = 0 /\ mergeSource = 0
Row(i) == CHOOSE r \in catList : r.id = i
ShownCats == {r.id : r \in catList}

\* Each tab is a route of its own: a switch mounts it anew and drops the other
\* tab's answers and dialogs.
SwitchTab(t) ==
  /\ NoDialog /\ t # categoryTab /\ categoryTab' = t /\ catList' = {}
  /\ catCallsSent < MaxCatCalls /\ catCallsSent' = catCallsSent + 1
  /\ catCalls' = <<CatCall("list", TRUE, 0, CategoryList(t))>>
  /\ DialogsStill /\ UNCHANGED <<registry, catUse>>

-----------------------------------------------------------------------------
(* The editor                                                              *)

OpenEditor ==
  /\ NoDialog /\ categoryTab = "active"
  /\ editor' \in {[NoDraft EXCEPT !.name = ""]} \cup
       {[id |-> r.id, name |-> r.cat.name, type |-> r.cat.type] : r \in catList}
  /\ UNCHANGED <<registry, catUse, categoryTab, catList, editorBusy, deleting,
                 mergeSource, mergeTarget, mergeBusy, catCalls, catCallsSent>>

\* The type is fixed once the category exists; Cancel waits for an answer.
EditEditor ==
  /\ editor # NoDraft
  /\ editor' \in {[editor EXCEPT !.name = n] : n \in CatNames}
       \cup (IF editor.id = 0 THEN {[editor EXCEPT !.type = t] : t \in CatTypes} ELSE {})
       \cup (IF editorBusy THEN {} ELSE {NoDraft})
  /\ UNCHANGED <<registry, catUse, categoryTab, catList, editorBusy, deleting,
                 mergeSource, mergeTarget, mergeBusy, catCalls, catCallsSent>>

SaveCategory ==
  /\ editor # NoDraft /\ ~ editorBusy /\ editor.name # "" /\ editorBusy' = TRUE
  /\ LET new == editor.id = 0
         valid == IF new THEN ~ NameTaken(editor.name, editor.type) ELSE editor.id \in Registered
     IN \E ok \in CatFates(valid) :
          \E id \in IF new THEN Cats \ Registered ELSE {editor.id} :
            LET saved == IF new THEN [name |-> editor.name, type |-> editor.type,
                                      archived |-> FALSE, ai |-> FALSE]
                         ELSE [Current(id) EXCEPT !.name = editor.name, !.ai = FALSE]
            IN /\ registry' = IF ok THEN [i \in Registered \cup {id} |->
                                            IF i = id THEN saved ELSE registry[i]]
                              ELSE registry
               /\ SendCat(IF new THEN "create" ELSE "update", ok, id, [id |-> id, cat |-> saved])
  /\ UNCHANGED <<catUse, categoryTab, catList, editor, deleting, mergeSource,
                 mergeTarget, mergeBusy>>

-----------------------------------------------------------------------------
(* Archive, delete and merge                                               *)

SetArchived(i) ==
  /\ NoDialog /\ i \in ShownCats
  /\ \E ok \in CatFates(i \in Registered) :
       /\ registry' = IF ok THEN [registry EXCEPT ![i].archived = (categoryTab = "active")]
                      ELSE registry
       /\ SendCat("leave", ok, i, {})
  /\ DialogsStill /\ UNCHANGED <<catUse, categoryTab, catList>>

AskDelete(i) ==
  /\ NoDialog /\ categoryTab = "active" /\ i \in ShownCats \cup {0} /\ deleting' = i
  /\ UNCHANGED <<registry, catUse, categoryTab, catList, editor, editorBusy,
                 mergeSource, mergeTarget, mergeBusy, catCalls, catCallsSent>>

DeleteCategory ==
  /\ deleting # 0 /\ deleting' = 0
  /\ \E ok \in CatFates(deleting \in Registered /\ ~ InUse(deleting)) :
       /\ registry' = IF ok THEN RegistryWithout(deleting) ELSE registry
       /\ SendCat("remove", ok, deleting,
                  IF deleting \in Registered /\ InUse(deleting) THEN {"category_in_use"} ELSE {})
  /\ UNCHANGED <<catUse, categoryTab, catList, editor, editorBusy, mergeSource,
                 mergeTarget, mergeBusy>>

CancelDelete ==
  /\ deleting # 0 /\ deleting' = 0
  /\ UNCHANGED <<registry, catUse, categoryTab, catList, editor, editorBusy,
                 mergeSource, mergeTarget, mergeBusy, catCalls, catCallsSent>>

OpenMerge(i) ==
  /\ NoDialog /\ categoryTab = "active" /\ i \in ShownCats /\ mergeSource' = i
  /\ UNCHANGED <<registry, catUse, categoryTab, catList, editor, editorBusy, deleting,
                 mergeTarget, mergeBusy, catCalls, catCallsSent>>

\* The other categories of the source's type, as the page lists them.
MergeOptions ==
  {r.id : r \in {s \in catList : s.id # mergeSource
                   /\ mergeSource \in ShownCats /\ s.cat.type = Row(mergeSource).cat.type}}

PickTarget(i) ==
  /\ mergeSource # 0 /\ i \in MergeOptions /\ mergeTarget' = i
  /\ UNCHANGED <<registry, catUse, categoryTab, catList, editor, editorBusy, deleting,
                 mergeSource, mergeBusy, catCalls, catCallsSent>>

CloseMerge ==
  /\ mergeSource # 0 /\ mergeSource' = 0 /\ mergeTarget' = 0
  /\ UNCHANGED <<registry, catUse, categoryTab, catList, editor, editorBusy, deleting,
                 mergeBusy, catCalls, catCallsSent>>

RunMerge ==
  /\ mergeSource # 0 /\ mergeTarget # 0 /\ ~ mergeBusy /\ mergeBusy' = TRUE
  /\ \E ok \in CatFates(Mergeable(mergeSource, mergeTarget)) :
       /\ registry' = IF ok THEN RegistryWithout(mergeSource) ELSE registry
       /\ catUse' = IF ok THEN UseAfterMerge(mergeSource, mergeTarget) ELSE catUse
       /\ SendCat("merge", ok, mergeSource, {})
  /\ UNCHANGED <<categoryTab, catList, editor, editorBusy, deleting, mergeSource,
                 mergeTarget>>

-----------------------------------------------------------------------------
(* Answers                                                                 *)

\* setItems of the controller's operations; a failed call changes no list.
ListAfter(list, c) ==
  IF ~ c.ok THEN list
  ELSE CASE c.op = "list"   -> c.answer
         [] c.op = "create" -> list \cup {c.answer}
         [] c.op = "update" -> {IF r.id = c.id THEN c.answer ELSE r : r \in list}
         [] c.op \in {"remove", "merge", "leave"} -> {r \in list : r.id # c.id}

\* A delete refused because the category is in use opens the merge tool for
\* it, whatever is open by then.
AnswerCat ==
  /\ catCalls # <<>> /\ catCalls' = Tail(catCalls)
  /\ LET c == Head(catCalls)
         saved == c.op \in {"create", "update"}
         merged == c.op = "merge"
     IN /\ catList' = ListAfter(catList, c)
        /\ editor' = IF saved /\ c.ok THEN NoDraft ELSE editor
        /\ editorBusy' = (editorBusy /\ ~ saved)
        /\ mergeSource' = IF c.op = "remove" /\ c.answer # {} THEN c.id
                          ELSE IF merged /\ c.ok THEN 0 ELSE mergeSource
        /\ mergeTarget' = IF merged /\ c.ok THEN 0 ELSE mergeTarget
        /\ mergeBusy' = (mergeBusy /\ ~ merged)
  /\ UNCHANGED <<registry, catUse, categoryTab, deleting, catCallsSent>>

CategoryPagesNext ==
  \/ \E t \in {"active", "archive"} : SwitchTab(t)
  \/ OpenEditor \/ EditEditor \/ SaveCategory
  \/ \E i \in Cats : \/ SetArchived(i) \/ AskDelete(i)
                     \/ OpenMerge(i) \/ PickTarget(i)
  \/ DeleteCategory \/ CancelDelete \/ CloseMerge \/ RunMerge
  \/ AnswerCat

CategoryPagesSpec == CategoryPagesInit /\ [][CategoryPagesNext]_categoryPagesVars

-----------------------------------------------------------------------------

CategoryPagesTypeOK ==
  /\ Registered \subseteq Cats /\ ShownCats \subseteq Cats
  /\ {mergeSource, mergeTarget, deleting} \subseteq Cats \cup {0}
  /\ categoryTab \in {"active", "archive"} /\ {editorBusy, mergeBusy} \subseteq BOOLEAN

\* When every call has been answered a tab lists exactly the registry's
\* categories of that tab as they are, through edits, archiving, deletes that
\* turned into merges, and refused calls (use-categories.ts).
TabShowsItsRegistry == catCalls = <<>> => catList = CategoryList(categoryTab)

\* "history is never orphaned" (CategoriesView.tsx:289): rows, of the ledger or
\* staged, name a category that exists.
\* Not kept by the code (README, "By hand").
HistoryIsNeverOrphaned ==
  \A i \in Cats : catUse[i].ledger + catUse[i].staged > 0 => i \in Registered

\* The target was picked for the source the merge tool shows: another category
\* of its type.
\* Not kept by the code (README, "By hand").
TargetFitsSource ==
  mergeSource # 0 /\ mergeTarget # 0 /\ ~ mergeBusy => mergeTarget \in MergeOptions
=============================================================================
