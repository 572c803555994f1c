---------------------------- MODULE OrgWorkspace -----------------------------
(***************************************************************************)
(* Whose organization the client works in: the org controller of the       *)
(* shell with its first-run guard and switcher, the onboarding page, and   *)
(* the organization profile of the settings, over the org endpoints.  The  *)
(* browser's stored org outlives the session of the one who chose it.  A   *)
(* call takes effect when it is sent; its answer comes later, or never     *)
(* when the page is left.  A name and an address are counters: a later     *)
(* value was typed later; an address has two parts, the rest of it and the *)
(* state, and an emptied state is 0.                                       *)
(***************************************************************************)
EXTENDS Naturals, Sequences, FiniteSets

CONSTANTS People,     \* who signs in to this browser
          MaxOrgs,    \* bound: organizations
          MaxTyped,   \* bound: values typed
          OrgFaults   \* of "refused", "lost": a call fails, its answer does

ASSUME OrgWorkspaceAssumption ==
  /\ MaxOrgs \in Nat /\ MaxTyped \in Nat /\ OrgFaults \subseteq {"refused", "lost"}
  /\ IsFiniteSet(People)

VARIABLES orgs,       \* the server's organizations, by id
          aiConsent,  \* who consented to AI processing
          person,     \* who is signed in
          place,      \* "dashboard" or "onboarding"
          storedOrg,  \* expendit.active-org
          shell,      \* [listed, active, loading]: the org controller
          orgDraft,      \* the profile form: [name, street, state], each none or one
          orgSaving,     \* savingOrg
          onboarding, \* [step, submitting]
          orgCalls,   \* answers on their way
          valuesUsed       \* history: values used so far

orgVars == <<orgs, aiConsent, person, place, storedOrg, shell, orgDraft, orgSaving, onboarding,
             orgCalls, valuesUsed>>

NothingTyped == [name |-> <<>>, street |-> <<>>, state |-> <<>>]
Fresh == [listed |-> {}, active |-> 0, loading |-> TRUE]
FirstStep == [step |-> "org", submitting |-> FALSE]

\* A list of organizations is in the order of their ids: a set will do.
OrgsOf(p) == {o \in {orgs[i] : i \in DOMAIN orgs} : o.owner = p}
FirstOf(items) == CHOOSE o \in items : \A q \in items : o.id <= q.id
IsListed(id) == \E o \in shell.listed : o.id = id
ListedOrg(id) == CHOOSE o \in shell.listed : o.id = id

OrgWorkspaceInit ==
  /\ orgs = <<>> /\ aiConsent = {} /\ person \in People
  /\ place = "dashboard" /\ storedOrg = 0 /\ shell = Fresh
  /\ orgDraft = NothingTyped /\ orgSaving = FALSE /\ onboarding = FirstStep
  /\ orgCalls = {[op |-> "load", items |-> {}]} /\ valuesUsed = 0

OrgAnswered(c) == orgCalls' = orgCalls \ {c}

\* The dashboard mounts a new shell, which reads the list of its user's orgs.
ToDashboard(p) ==
  /\ place' = "dashboard" /\ shell' = Fresh /\ orgDraft' = NothingTyped /\ orgSaving' = FALSE
  /\ onboarding' = FirstStep
  /\ orgCalls' = {[op |-> "load", items |-> OrgsOf(p)]}

-----------------------------------------------------------------------------
(* The shell                                                               *)

\* Slip: the stored org is not looked up in the list.
StoredOrFirst(items) == IF storedOrg # 0 THEN storedOrg ELSE FirstOf(items).id

\* The stored org, when it is one of them, else the personal one, else the first.
Chosen(items) ==
  LET Personal == {o \in items : o.kind = "personal"}
  IN IF \E o \in items : o.id = storedOrg THEN storedOrg
     ELSE FirstOf(IF Personal # {} THEN Personal ELSE items).id

OrgsLoad ==
  \E c \in {c \in orgCalls : c.op = "load"} :
    /\ OrgAnswered(c)
    /\ shell' = [listed  |-> c.items,
                 active  |-> IF c.items = {} THEN shell.active ELSE Chosen(c.items),
                 loading |-> FALSE]
    /\ UNCHANGED <<orgs, aiConsent, person, place, storedOrg, orgDraft, orgSaving,
                   onboarding, valuesUsed>>

OrgsFail ==
  /\ "refused" \in OrgFaults
  /\ \E c \in {c \in orgCalls : c.op = "load"} : OrgAnswered(c)
  /\ shell' = [shell EXCEPT !.loading = FALSE]
  /\ UNCHANGED <<orgs, aiConsent, person, place, storedOrg, orgDraft, orgSaving,
                 onboarding, valuesUsed>>

NoOrgShown == place = "dashboard" /\ ~ shell.loading /\ shell.listed = {}

FirstRunGuard ==
  /\ NoOrgShown
  /\ place' = "onboarding" /\ shell' = Fresh /\ orgDraft' = NothingTyped /\ orgSaving' = FALSE
  /\ onboarding' = FirstStep /\ orgCalls' = {}
  /\ UNCHANGED <<orgs, aiConsent, person, storedOrg, valuesUsed>>

\* The switcher lists what was loaded; the settings page stays mounted.
OnOrgSelect ==
  /\ place = "dashboard" /\ shell.active # 0
  /\ \E o \in shell.listed :
       /\ o.id # shell.active
       /\ shell' = [shell EXCEPT !.active = o.id]
       /\ storedOrg' = o.id
  /\ UNCHANGED <<orgs, aiConsent, person, place, orgDraft, orgSaving, onboarding,
                 orgCalls, valuesUsed>>

CreateAnother ==
  /\ place = "dashboard" /\ shell.active # 0
  /\ place' = "onboarding" /\ shell' = Fresh /\ orgDraft' = NothingTyped /\ orgSaving' = FALSE
  /\ onboarding' = FirstStep /\ orgCalls' = {}
  /\ UNCHANGED <<orgs, aiConsent, person, storedOrg, valuesUsed>>

Reload ==
  /\ place = "dashboard" /\ ~ shell.loading /\ ToDashboard(person)
  /\ UNCHANGED <<orgs, aiConsent, person, storedOrg, valuesUsed>>

\* Signing out leaves the stored org in the browser.
SignInAs(p) ==
  /\ place = "dashboard" /\ p # person /\ person' = p /\ ToDashboard(p)
  /\ UNCHANGED <<orgs, aiConsent, storedOrg, valuesUsed>>

-----------------------------------------------------------------------------
(* Onboarding                                                              *)

OrgOutcomes(fault) == IF fault \in OrgFaults THEN BOOLEAN ELSE {TRUE}

NewOrg(kind) ==
  [id |-> Len(orgs) + 1, owner |-> person, kind |-> kind, name |-> 0, street |-> 0, state |-> 1]

SubmitOrg ==
  /\ place = "onboarding" /\ onboarding = FirstStep /\ Len(orgs) < MaxOrgs
  /\ \E kind \in {"personal", "company"} :
       \/ /\ orgs' = Append(orgs, NewOrg(kind))
          /\ \E ok \in OrgOutcomes("lost") :
               orgCalls' = orgCalls \cup {[op |-> "create", ok |-> ok, id |-> Len(orgs')]}
       \/ /\ "refused" \in OrgFaults
          /\ orgCalls' = orgCalls \cup {[op |-> "create", ok |-> FALSE, id |-> 0]}
          /\ UNCHANGED orgs
  /\ onboarding' = [onboarding EXCEPT !.submitting = TRUE]
  /\ UNCHANGED <<aiConsent, person, place, storedOrg, shell, orgDraft, orgSaving,
                 valuesUsed>>

OrgCreated ==
  \E c \in {c \in orgCalls : c.op = "create"} :
    /\ OrgAnswered(c)
    /\ storedOrg' = IF c.ok THEN c.id ELSE storedOrg
    /\ onboarding' = [step |-> IF c.ok THEN "consent" ELSE "org", submitting |-> FALSE]
    /\ UNCHANGED <<orgs, aiConsent, person, place, shell, orgDraft, orgSaving,
                   valuesUsed>>

AllowAi ==
  /\ place = "onboarding" /\ onboarding = [step |-> "consent", submitting |-> FALSE]
  /\ onboarding' = [onboarding EXCEPT !.submitting = TRUE]
  /\ \E ok \in OrgOutcomes("refused") :
       /\ aiConsent' = IF ok THEN aiConsent \cup {person} ELSE aiConsent
       /\ orgCalls' = orgCalls \cup {[op |-> "consent", ok |-> ok]}
  /\ UNCHANGED <<orgs, person, place, storedOrg, shell, orgDraft, orgSaving,
                 valuesUsed>>

ConsentAnswered ==
  \E c \in {c \in orgCalls : c.op = "consent"} :
    IF c.ok
    THEN ToDashboard(person) /\ UNCHANGED <<orgs, aiConsent, person, storedOrg,
                                            valuesUsed>>
    ELSE /\ OrgAnswered(c) /\ onboarding' = [onboarding EXCEPT !.submitting = FALSE]
         /\ UNCHANGED <<orgs, aiConsent, person, place, storedOrg, shell, orgDraft,
                        orgSaving, valuesUsed>>

\* "Not now" stays enabled while a consent is being recorded.
NotNow ==
  /\ place = "onboarding" /\ onboarding.step = "consent" /\ ToDashboard(person)
  /\ UNCHANGED <<orgs, aiConsent, person, storedOrg, valuesUsed>>

-----------------------------------------------------------------------------
(* The organization profile                                                *)

ActiveOrg == IF IsListed(shell.active) THEN {ListedOrg(shell.active)} ELSE {}

Type(fields) ==
  /\ place = "dashboard" /\ ActiveOrg # {} /\ valuesUsed < MaxTyped /\ valuesUsed' = valuesUsed + 1
  /\ orgDraft' = fields
  /\ UNCHANGED <<orgs, aiConsent, person, place, storedOrg, shell, orgSaving,
                 onboarding, orgCalls>>

TypeName == Type([orgDraft EXCEPT !.name = <<valuesUsed + 1>>])

\* Typing one part of the address takes the others from the draft, else from
\* the organization as it was loaded.
Kept(part, old) == IF part # <<>> THEN part ELSE <<old>>

TypeStreet ==
  \E o \in {o \in ActiveOrg : o.kind = "company"} :
    Type([orgDraft EXCEPT !.street = <<valuesUsed + 1>>, !.state = Kept(@, o.state)])

TypeState ==
  \E o \in {o \in ActiveOrg : o.kind = "company"} : \E v \in {0, valuesUsed + 1} :
    Type([orgDraft EXCEPT !.street = Kept(@, o.street), !.state = <<v>>])

\* An address goes along when the organization as loaded has one.
SendsAddress == orgDraft.street # <<>> /\ \E o \in ActiveOrg : o.kind = "company"

\* PATCH sets the name before it refuses an address without a state.
PatchedOrg(o, name, street, state) ==
  [o EXCEPT !.name = IF name = <<>> THEN @ ELSE name[1],
            !.street = IF street = <<>> \/ state = <<0>> THEN @ ELSE street[1],
            !.state = IF state \in {<<>>, <<0>>} THEN @ ELSE state[1]]

SaveOrg ==
  /\ place = "dashboard" /\ ~ orgSaving /\ ActiveOrg # {} /\ orgDraft # NothingTyped
  /\ LET street == IF SendsAddress THEN orgDraft.street ELSE <<>>
         state  == IF SendsAddress THEN orgDraft.state ELSE <<>>
     IN /\ orgs' = [orgs EXCEPT ![shell.active] = PatchedOrg(@, orgDraft.name, street, state)]
        /\ orgCalls' = orgCalls \cup {[op |-> "save", ok |-> state # <<0>>]}
  /\ orgSaving' = TRUE
  /\ UNCHANGED <<aiConsent, person, place, storedOrg, shell, orgDraft, onboarding,
                 valuesUsed>>

\* The organization that was loaded is not brought up to date.
OrgSaved ==
  \E c \in {c \in orgCalls : c.op = "save"} :
    /\ OrgAnswered(c) /\ orgSaving' = FALSE
    /\ orgDraft' = IF c.ok THEN NothingTyped ELSE orgDraft
    /\ UNCHANGED <<orgs, aiConsent, person, place, storedOrg, shell, onboarding,
                   valuesUsed>>

\* An admin of the organization elsewhere renames it.
RenamedElsewhere ==
  /\ valuesUsed < MaxTyped /\ valuesUsed' = valuesUsed + 1
  /\ \E i \in DOMAIN orgs : orgs' = [orgs EXCEPT ![i].name = valuesUsed + 1]
  /\ UNCHANGED <<aiConsent, person, place, storedOrg, shell, orgDraft, orgSaving,
                 onboarding, orgCalls>>

OrgWorkspaceNext ==
  \/ OrgsLoad \/ OrgsFail \/ FirstRunGuard \/ OnOrgSelect \/ CreateAnother \/ Reload
  \/ \E p \in People : SignInAs(p)
  \/ SubmitOrg \/ OrgCreated \/ AllowAi \/ ConsentAnswered \/ NotNow
  \/ TypeName \/ TypeStreet \/ TypeState \/ SaveOrg \/ OrgSaved \/ RenamedElsewhere

OrgWorkspaceSpec == OrgWorkspaceInit /\ [][OrgWorkspaceNext]_orgVars

-----------------------------------------------------------------------------
(* Properties                                                              *)

OrgWorkspaceTypeOK ==
  /\ Len(orgs) <= MaxOrgs /\ \A i \in DOMAIN orgs : orgs[i].id = i /\ orgs[i].owner \in People
  /\ aiConsent \subseteq People /\ person \in People
  /\ place \in {"dashboard", "onboarding"}
  /\ storedOrg \in 0..MaxOrgs /\ shell.active \in 0..MaxOrgs
  /\ shell.loading \in BOOLEAN /\ orgSaving \in BOOLEAN /\ valuesUsed \in 0..MaxTyped

\* The organization in use, whose id every call carries, is one of the person
\* who is signed in, whatever org the browser remembers (use-org.ts:31).
ActiveIsOwn == shell.active # 0 => orgs[shell.active].owner = person

\* Saving one's own fields does not undo what someone else saved: a name goes
\* back to an earlier one only when it was typed again (sections.tsx:112-123).
NamesOnlyAdvance == [][\A i \in DOMAIN orgs : orgs'[i].name < orgs[i].name =>
                         orgDraft.name # <<>>]_orgVars

\* The guard sends to onboarding only who has no organization
\* (DashboardShell.tsx:169: "a signed-in user with no org lands on B0").
\* Not kept by the code (README, "By hand").
OnlyTheOrglessOnboard ==
  [][FirstRunGuard => OrgsOf(person) = {}]_orgVars

\* A save does not bring back a part of the address that was replaced by an
\* earlier save (sections.tsx:180-190 completes an address from the loaded one).
\* Not kept by the code (README, "By hand").
AddressesOnlyAdvance == [][\A i \in DOMAIN orgs : orgs'[i].street >= orgs[i].street]_orgVars

\* A refused update changes nothing (orgs/[id]/route.ts:25-35).
\* Not kept by the code (README, "By hand").
RefusedUpdatesNothing ==
  [][(orgCalls' # orgCalls /\ [op |-> "save", ok |-> FALSE] \in orgCalls' \ orgCalls)
       => orgs' = orgs]_orgVars

\* What was typed for one organization is not saved to another.
\* Not kept by the code (README, "By hand").
DraftStaysWithItsOrg == [][shell'.active # shell.active => orgDraft' = NothingTyped]_orgVars
=============================================================================
