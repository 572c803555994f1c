------------------------------ MODULE TaxPages ------------------------------
(***************************************************************************)
(* Taxes in the web client: the tax center, the filing wizard, their       *)
(* controller (use-tax) and the mock API's tax routes.  One page is shown  *)
(* at a time; navigating remounts the other one, so that answers to the    *)
(* page that was left change nothing.  Another session records income and  *)
(* stages or confirms statements.  A call takes effect at the server when  *)
(* it is sent; its answer comes later, in any order.                       *)
(***************************************************************************)
EXTENDS TaxEngine

CONSTANTS Taxpayers,     \* kinds of organization: of "individual", "company"
          TaxCategories, \* the registry: [category -> [tax, vat, basis]]
          TaxSales,      \* income another session may record, a sequence
          TaxStatements, \* statements another session may upload, a sequence
          FilingPeriods, \* [kind -> periods the wizard offers, in order]
          TaxToday,      \* [year, month, last]
          TaxStates,     \* states of residence the profile form offers
          MaxFilings,    \* bound: drafts
          MaxVisits,     \* bound: navigations
          MaxTaxTyping   \* bound: edits of the profile form

ASSUME TaxPagesAssumption ==
  /\ Taxpayers \subseteq {"individual", "company"} /\ Taxpayers # {}
  /\ MaxFilings \in Nat /\ MaxVisits \in Nat /\ MaxTaxTyping \in Nat
  /\ DOMAIN FilingPeriods = {"vat", "cit", "pit"}
  /\ TaxSales \in Seq([dir : {"income"}, cat : DOMAIN TaxCategories, amount : Nat,
                       year : Nat, month : 1..12])

VARIABLES revenue,  \* the server: profile, address, ledger, statements, filings
          taxScreen, \* "taxes" or "file"
          taxData,  \* the controller: profile, estimates, filings, loading
          taxForm,  \* the tax center: the draft of the profile, saving
          wizard,   \* the filing wizard
          taxCalls, \* answers on their way to the page shown
          visits, typings

taxPagesVars == <<revenue, taxScreen, taxData, taxForm, wizard, taxCalls, visits, typings>>

-----------------------------------------------------------------------------
(* The server                                                              *)

DraftOf(r, kind, p) ==
  DraftEstimate(r.ledger, TaxCategories, r.statements, r.profile, kind, p)
EstimatesOf(r) == ComputeEstimates(r.ledger, TaxCategories, r.statements, r.profile)

CreateFiling(r, kind, p) ==
  IF PeriodComplete(p, TaxToday)
  THEN [code |-> "ok", filing |-> [est |-> DraftOf(r, kind, p), status |-> "draft",
                                   id |-> Len(r.filings) + 1, sheet |-> FALSE]]
  ELSE [code |-> "period_incomplete"]

\* The gates of the generate route, in their order.
GenerateCode(r, id) ==
  LET f == r.filings[id]
  IN IF f.status # "draft" THEN "filing_not_draft"
     ELSE IF ~ RulesetSigned(RulesetId(f.est.kind, f.est.period)) THEN "ruleset_unsigned"
     ELSE IF f.est.kind = "cit" /\ \E i \in DOMAIN r.statements : r.statements[i].status = "staged"
     THEN "mapping_unconfirmed"
     ELSE IF MissingTaxIdentifiers(r.profile, r.address) # {} THEN "tax_identity_incomplete"
     ELSE "ok"
\* Slip: the figures are computed once more.
GeneratedAnew(f) == [f EXCEPT !.status = "generated", !.sheet = TRUE,
                              !.est = DraftOf(revenue, f.est.kind, f.est.period)]

Generated(f) == [f EXCEPT !.status = "generated", !.sheet = TRUE]

-----------------------------------------------------------------------------
(* The pages' local state                                                  *)

NoTaxData == [profile |-> <<>>, estimates |-> <<>>, filings |-> <<>>, loading |-> FALSE]
NoTaxForm == [draft |-> <<>>, saving |-> FALSE]
FirstPeriod(kind) == FilingPeriods[kind][1]
NewWizard == [step |-> 1, kind |-> "vat", period |-> FirstPeriod("vat"), touched |-> FALSE,
              filing |-> <<>>, blocked |-> FALSE, busy |-> FALSE, confirm |-> <<>>,
              done |-> FALSE, error |-> "none"]

EmptyTaxProfile(taxpayer) ==
  [taxpayer |-> taxpayer, tin |-> FALSE, rc |-> FALSE, state |-> "none", treatments |-> <<>>]

TaxPagesInit ==
  /\ \E taxpayer \in Taxpayers, address \in BOOLEAN :
       revenue = [profile |-> EmptyTaxProfile(taxpayer), address |-> address,
                  ledger |-> <<>>, statements |-> <<>>, filings |-> <<>>]
  /\ taxScreen \in {"taxes", "file"}
  /\ taxData = NoTaxData /\ taxForm = NoTaxForm /\ wizard = NewWizard
  /\ taxCalls = {[op |-> "mount"]} /\ visits = 0 /\ typings = 0

\* router.push: the other page mounts and loads.
GoTaxScreen(screen) ==
  /\ visits < MaxVisits /\ taxScreen # screen
  /\ taxScreen' = screen /\ visits' = visits + 1
  /\ taxData' = NoTaxData /\ taxForm' = NoTaxForm /\ wizard' = NewWizard
  /\ taxCalls' = {[op |-> "mount"]}
  /\ UNCHANGED <<revenue, typings>>

-----------------------------------------------------------------------------
(* Loading                                                                 *)

\* The effect's microtask starts the refresh, which reads three routes.
StartTaxRefresh ==
  /\ [op |-> "mount"] \in taxCalls
  /\ taxCalls' = (taxCalls \ {[op |-> "mount"]}) \cup {[op |-> "refresh", then |-> <<>>]}
  /\ taxData' = [taxData EXCEPT !.loading = TRUE]
  /\ UNCHANGED <<revenue, taxScreen, taxForm, wizard, visits, typings>>

\* What the wizard does with the filing once the refresh after it is done.
WizardAfter(w, then) ==
  IF then = <<>> THEN w
  ELSE IF then[1].status = "draft"
  THEN [w EXCEPT !.filing = then, !.step = 2, !.busy = FALSE]
  ELSE [w EXCEPT !.filing = then, !.done = TRUE, !.busy = FALSE]

LandTaxRefresh ==
  \E c \in {c \in taxCalls : c.op = "refresh"} :
    /\ taxCalls' = taxCalls \ {c}
    /\ taxData' = [profile |-> <<revenue.profile>>, estimates |-> EstimatesOf(revenue),
                   filings |-> revenue.filings, loading |-> FALSE]
    /\ wizard' = WizardAfter(wizard, c.then)
    /\ UNCHANGED <<revenue, taxScreen, taxForm, visits, typings>>

-----------------------------------------------------------------------------
(* The tax center                                                          *)

Loaded == taxData.profile # <<>>
Profile == taxData.profile[1]
OnTaxCenter == taxScreen = "taxes" /\ Loaded

\* The banner of the tax center, which knows nothing of the address.
IdentityMissing == Loaded /\ MissingTaxIdentifiers(Profile, TRUE) # {}

EditTaxProfile ==
  /\ OnTaxCenter /\ taxForm.draft = <<>>
  /\ taxForm' = [taxForm EXCEPT !.draft = <<[set |-> {}, state |-> "none"]>>]
  /\ UNCHANGED <<revenue, taxScreen, taxData, wizard, taxCalls, visits, typings>>

CancelTaxProfile ==
  /\ OnTaxCenter /\ taxForm.draft # <<>>
  /\ taxForm' = [taxForm EXCEPT !.draft = <<>>]
  /\ UNCHANGED <<revenue, taxScreen, taxData, wizard, taxCalls, visits, typings>>

TypeTaxProfile ==
  /\ OnTaxCenter /\ taxForm.draft # <<>> /\ typings < MaxTaxTyping
  /\ typings' = typings + 1
  /\ IF Profile.taxpayer = "company"
     THEN \E id \in {"tin", "rc"} \ taxForm.draft[1].set :
            taxForm' = [taxForm EXCEPT !.draft[1].set = @ \cup {id}]
     ELSE \E s \in TaxStates :
            taxForm' = [taxForm EXCEPT !.draft[1].set = @ \cup {"tin"}, !.draft[1].state = s]
  /\ UNCHANGED <<revenue, taxScreen, taxData, wizard, taxCalls, visits>>

Patched(profile, draft) ==
  [profile EXCEPT !.tin = @ \/ "tin" \in draft.set, !.rc = @ \/ "rc" \in draft.set,
                  !.state = IF draft.state = "none" THEN @ ELSE draft.state]

SaveTaxProfile ==
  /\ OnTaxCenter /\ taxForm.draft # <<>> /\ ~ taxForm.saving
  /\ revenue' = [revenue EXCEPT !.profile = Patched(@, taxForm.draft[1])]
  /\ taxForm' = [taxForm EXCEPT !.saving = TRUE]
  /\ taxCalls' = taxCalls \cup {[op |-> "profile", profile |-> revenue'.profile]}
  /\ UNCHANGED <<taxScreen, taxData, wizard, visits, typings>>

\* updateProfile keeps the estimates of the former profile.
LandTaxProfile ==
  \E c \in {c \in taxCalls : c.op = "profile"} :
    /\ taxCalls' = taxCalls \ {c}
    /\ taxData' = [taxData EXCEPT !.profile = <<c.profile>>]
    /\ taxForm' = NoTaxForm
    /\ UNCHANGED <<revenue, taxScreen, wizard, visits, typings>>

-----------------------------------------------------------------------------
(* The filing wizard                                                       *)

Filing == wizard.filing[1]
AtStep(n) == taxScreen = "file" /\ wizard.step = n /\ (n > 1 => wizard.filing # <<>>)

\* A personal organization opens on PIT; the effect waits for a microtask.
DefaultToPit ==
  /\ AtStep(1) /\ ~ wizard.touched /\ wizard.filing = <<>>
  /\ revenue.profile.taxpayer = "individual" /\ wizard.kind # "pit"
  /\ wizard' = [wizard EXCEPT !.kind = "pit", !.period = FirstPeriod("pit")]
  /\ UNCHANGED <<revenue, taxScreen, taxData, taxForm, taxCalls, visits, typings>>

PickFiling ==
  /\ AtStep(1)
  /\ \E kind \in DOMAIN FilingPeriods : \E i \in DOMAIN FilingPeriods[kind] :
       wizard' = [wizard EXCEPT !.kind = kind, !.period = FilingPeriods[kind][i],
                                !.touched = TRUE]
  /\ wizard' # wizard
  /\ UNCHANGED <<revenue, taxScreen, taxData, taxForm, taxCalls, visits, typings>>

Start ==
  /\ AtStep(1) /\ ~ wizard.busy /\ Len(revenue.filings) < MaxFilings
  /\ LET r == CreateFiling(revenue, wizard.kind, wizard.period)
     IN /\ revenue' = IF r.code = "ok" THEN [revenue EXCEPT !.filings = Append(@, r.filing)]
                      ELSE revenue
        /\ taxCalls' = taxCalls \cup {[op |-> "draft", answer |-> r]}
  /\ wizard' = [wizard EXCEPT !.busy = TRUE, !.error = "none"]
  /\ UNCHANGED <<taxScreen, taxData, taxForm, visits, typings>>

WizardFails(w, code) ==
  IF code = "tax_identity_incomplete"
  THEN [w EXCEPT !.busy = FALSE, !.blocked = TRUE, !.step = 2]
  ELSE [w EXCEPT !.busy = FALSE, !.error = code]

\* The controller refreshes before the wizard gets the filing.
LandFiling ==
  \E c \in {c \in taxCalls : c.op \in {"draft", "generate"}} :
    /\ IF c.answer.code = "ok"
       THEN /\ taxCalls' = (taxCalls \ {c}) \cup {[op |-> "refresh", then |-> <<c.answer.filing>>]}
            /\ taxData' = [taxData EXCEPT !.loading = TRUE]
            /\ wizard' = wizard
       ELSE /\ taxCalls' = taxCalls \ {c} /\ taxData' = taxData
            /\ wizard' = WizardFails(wizard, c.answer.code)
    /\ UNCHANGED <<revenue, taxScreen, taxForm, visits, typings>>

\* Banners of the review step: the profile's gaps, and a filing of nothing.
ReviewWarns ==
  /\ AtStep(2)
  /\ wizard.blocked \/ (Loaded /\ MissingTaxIdentifiers(Profile, revenue.address) # {})
ZeroActivity ==
  wizard.filing # <<>>
    /\ \A i \in DOMAIN Filing.est.fields : Filing.est.fields[i] = 0

\* Back and Continue; no step asks for the banners to be gone, none for ~busy.
MoveStep ==
  /\ \E from \in 2..4, to \in 1..4 :
       /\ AtStep(from) /\ to \in {from - 1, from + 1} /\ (from = 4 => ~ wizard.done)
       /\ wizard' = [wizard EXCEPT !.step = to]
  /\ UNCHANGED <<revenue, taxScreen, taxData, taxForm, taxCalls, visits, typings>>

TypeFilingPeriod ==
  /\ AtStep(4) /\ ~ wizard.done /\ wizard.confirm # <<Filing.est.period>>
  /\ wizard' = [wizard EXCEPT !.confirm = <<Filing.est.period>>]
  /\ UNCHANGED <<revenue, taxScreen, taxData, taxForm, taxCalls, visits, typings>>

Generate ==
  /\ AtStep(4) /\ ~ wizard.done /\ ~ wizard.busy
  /\ wizard.confirm = <<Filing.est.period>>
  /\ LET id == Filing.id
         code == GenerateCode(revenue, id)
     IN /\ revenue' = IF code = "ok" THEN [revenue EXCEPT !.filings[id] = Generated(@)]
                      ELSE revenue
        /\ taxCalls' = taxCalls \cup
             {[op |-> "generate", answer |-> IF code = "ok"
                THEN [code |-> code, filing |-> revenue'.filings[id]] ELSE [code |-> code]]}
  /\ wizard' = [wizard EXCEPT !.busy = TRUE, !.error = "none", !.blocked = FALSE]
  /\ UNCHANGED <<taxScreen, taxData, taxForm, visits, typings>>

-----------------------------------------------------------------------------
(* Another session                                                         *)

RecordSale ==
  /\ Len(revenue.ledger) < Len(TaxSales)
  /\ revenue' = [revenue EXCEPT !.ledger = Append(@, TaxSales[Len(@) + 1])]
  /\ UNCHANGED <<taxScreen, taxData, taxForm, wizard, taxCalls, visits, typings>>

StageStatement ==
  /\ Len(revenue.statements) < Len(TaxStatements)
  /\ revenue' = [revenue EXCEPT !.statements =
                   Append(@, TaxStatements[Len(@) + 1])]
  /\ UNCHANGED <<taxScreen, taxData, taxForm, wizard, taxCalls, visits, typings>>

ConfirmStatement ==
  /\ \E i \in DOMAIN revenue.statements :
       /\ revenue.statements[i].status = "staged"
       /\ revenue' = [revenue EXCEPT !.statements[i].status = "confirmed"]
  /\ UNCHANGED <<taxScreen, taxData, taxForm, wizard, taxCalls, visits, typings>>

TaxPagesNext ==
  \/ GoTaxScreen("taxes") \/ GoTaxScreen("file")
  \/ StartTaxRefresh \/ LandTaxRefresh
  \/ EditTaxProfile \/ CancelTaxProfile \/ TypeTaxProfile \/ SaveTaxProfile \/ LandTaxProfile
  \/ DefaultToPit \/ PickFiling \/ Start \/ LandFiling \/ MoveStep \/ TypeFilingPeriod \/ Generate
  \/ RecordSale \/ StageStatement \/ ConfirmStatement

TaxPagesSpec == TaxPagesInit /\ [][TaxPagesNext]_taxPagesVars

-----------------------------------------------------------------------------
(* Properties                                                              *)

TaxPagesTypeOK ==
  /\ taxScreen \in {"taxes", "file"} /\ visits \in 0..MaxVisits /\ typings \in 0..MaxTaxTyping
  /\ wizard.step \in 1..4 /\ wizard.done \in BOOLEAN /\ wizard.busy \in BOOLEAN
  /\ wizard.kind \in DOMAIN FilingPeriods
  /\ \A c \in taxCalls : c.op \in {"mount", "refresh", "profile", "draft", "generate"}
  /\ \A i \in DOMAIN revenue.filings : revenue.filings[i].status \in {"draft", "generated"}

\* What is generated is what the user reviewed: at the step in which a filing
\* is generated the wizard shows this very filing with the amount that is
\* locked, and the user typed its period (FilingWizardView.tsx:126, :447 with
\* filings/[id]/generate/route.ts:71, which never computes anew).
GeneratesWhatIsShown ==
  [][\A i \in DOMAIN revenue.filings :
       revenue'.filings[i] # revenue.filings[i] =>
         /\ revenue.filings[i].status = "draft"
         /\ Filing.id = i /\ Filing.est = revenue'.filings[i].est
         /\ wizard.confirm = <<revenue'.filings[i].est.period>>]_taxPagesVars

\* A company filing is generated from confirmed statements only, those of now
\* (filings/[id]/generate/route.ts:46 asks that no statement is staged, while
\* the figures are of the time of the draft).
\* Not kept by the code (README, "By hand").
CitIsOfConfirmedStatements ==
  [][\A i \in DOMAIN revenue.filings :
       revenue'.filings[i] # revenue.filings[i] /\ revenue.filings[i].est.kind = "cit" =>
         revenue'.filings[i].est.amount =
           DraftOf(revenue, "cit", revenue.filings[i].est.period).amount]_taxPagesVars

\* The page of the stamp shows a generated filing (FilingWizardView.tsx:457).
DoneShowsGenerated ==
  wizard.done /\ wizard.filing # <<>> => Filing.status = "generated"

\* Once every answer is in, the remittance authority of the estimates shown is
\* the one of the state of residence shown (FormRow helper, TaxesView.tsx:257:
\* "Determines your State IRS for PIT.").
\* Not kept by the code (README, "By hand").
AuthorityFollowsState ==
  taxCalls = {} /\ Loaded =>
    \A i \in DOMAIN taxData.estimates :
      taxData.estimates[i].authority =
        ResolveAuthority(taxData.estimates[i].kind, Profile.taxpayer,
                         Profile.state)
=============================================================================
