------------------------------ MODULE TaxEngine ------------------------------
(***************************************************************************)
(* The mock tax engine of the web client: rule sets, bands, periods,       *)
(* estimates and the remittance authority.  Amounts are whole naira; a     *)
(* ledger is a sequence of transactions [dir, cat, amount, year, month],   *)
(* a statement is [period, status, lines], lines a function from keys to   *)
(* amounts.  A period is [unit, year, n], n the month, quarter or half.    *)
(***************************************************************************)
EXTENDS Integers, Sequences, FiniteSets, SequencesExt

-----------------------------------------------------------------------------
(* Rule sets and authorities                                               *)

\* Only the PIT rule sets wait for a professional's sign-off.
RulesetId(kind, period) ==
  IF kind = "vat" THEN "ng-vat-2026"
  ELSE IF period.year >= 2026 THEN "ng-" \o kind \o "-2026" ELSE "ng-" \o kind \o "-legacy"
RulesetSigned(id) == id \in {"ng-cit-2026", "ng-cit-legacy", "ng-vat-2026"}

StateAuthority(state) == IF state = "NG-LA" THEN "LIRS" ELSE "FIRS"
ResolveAuthority(kind, taxpayer, state) ==
  IF kind = "pit" /\ taxpayer = "individual" THEN StateAuthority(state) ELSE "FIRS"

MissingTaxIdentifiers(profile, address) ==
  {id \in {"tin"} : ~ profile.tin}
  \cup IF profile.taxpayer = "company"
       THEN {id \in {"rc_number"} : ~ profile.rc} \cup {id \in {"registered_address"} : ~ address}
       ELSE {id \in {"state_of_residence"} : profile.state = "none"}

-----------------------------------------------------------------------------
(* Periods                                                                 *)

LastMonth(p) ==
  CASE p.unit = "month"   -> p.n
    [] p.unit = "quarter" -> 3 * p.n
    [] p.unit = "half"    -> 6 * p.n
    [] p.unit = "year"    -> 12

\* A month ends at the last second of its last day, a longer period at the
\* first second of that day.  today is [year, month, last], last: its last day.
PeriodComplete(p, today) ==
  LET here == 12 * today.year + today.month
      end  == 12 * p.year + LastMonth(p)
  IN end < here \/ (end = here /\ today.last /\ p.unit # "month")

\* The date starts with the period's text; no date starts with a quarter's.
InPeriod(txn, p) ==
  txn.year = p.year /\ (p.unit = "year" \/ (p.unit = "month" /\ txn.month = p.n))

DueDate(kind, p, fyEnd) ==
  LET after == IF kind = "vat" THEN p.n + 1 ELSE fyEnd + 6
      last  == IF kind = "vat" THEN 21 ELSE 30
  IN IF kind = "pit" THEN <<p.year + 1, 3, 31>>
     ELSE IF after > 12 THEN <<p.year + 1, after - 12, last>> ELSE <<p.year, after, last>>

-----------------------------------------------------------------------------
(* Personal income tax                                                     *)

Band(from, to, rate) == [from |-> from, to |-> to, rate |-> rate]

PIT_2026_BANDS == <<
  Band(0, 800000, 0), Band(800000, 3000000, 15), Band(3000000, 12000000, 18),
  Band(12000000, 25000000, 21), Band(25000000, 50000000, 23), Band(50000000, -1, 25) >>

\* The part of the income a band taxes; a cap of -1 is none.
Slice(chargeable, band) ==
  LET upper == IF band.to = -1 \/ chargeable < band.to THEN chargeable ELSE band.to
  IN IF upper > band.from THEN upper - band.from ELSE 0

\* Math.round: halves go up.
RoundDiv(n, d) == (2 * n + d) \div (2 * d)

PitFromBands(chargeable) ==
  RoundDiv(FoldLeft(LAMBDA tax, band : tax + Slice(chargeable, band) * band.rate,
                    0, PIT_2026_BANDS), 100)

\* The organization's own treatment of a category goes before the category's.
TreatmentOf(profile, categories, cat) ==
  IF cat \in DOMAIN profile.treatments THEN profile.treatments[cat]
  ELSE IF cat \in DOMAIN categories THEN categories[cat].tax ELSE "taxable_income"

SumOf(ledger, Test(_), Value(_)) ==
  FoldLeft(LAMBDA sum, txn : IF Test(txn) THEN sum + Value(txn) ELSE sum, 0, ledger)

PitEstimate(ledger, categories, profile, p) ==
  LET gross == SumOf(ledger, LAMBDA txn : /\ txn.dir = "income" /\ InPeriod(txn, p)
                                          /\ TreatmentOf(profile, categories, txn.cat) = "taxable_income",
                     LAMBDA txn : txn.amount)
      tax == PitFromBands(IF gross > 0 THEN gross ELSE 0)
  IN [kind |-> "pit", period |-> p, amount |-> tax, fields |-> <<gross, 0, 0, tax>>,
      authority |-> ResolveAuthority("pit", profile.taxpayer, profile.state)]

-----------------------------------------------------------------------------
(* Value added tax                                                         *)

\* 7.5 % inside or on top of the amount, in parts of 1/1720 naira.
VatParts(amount, basis) == IF basis = "inclusive" THEN 120 * amount ELSE 129 * amount

VatSide(ledger, categories, p, dir) ==
  RoundDiv(SumOf(ledger,
                 LAMBDA txn : /\ InPeriod(txn, p) /\ (txn.dir = "income") = (dir = "output")
                              /\ txn.cat \in DOMAIN categories
                              /\ categories[txn.cat].vat = "vatable",
                 LAMBDA txn : VatParts(txn.amount, categories[txn.cat].basis)), 1720)

VatEstimate(ledger, categories, profile, p) ==
  LET output == VatSide(ledger, categories, p, "output")
      input  == VatSide(ledger, categories, p, "input")
  IN [kind |-> "vat", period |-> p, amount |-> output - input,
      fields |-> <<output, input, output - input>>,
      authority |-> ResolveAuthority("vat", profile.taxpayer, "none")]

-----------------------------------------------------------------------------
(* Company income tax                                                      *)

\* find: the first confirmed statement of the basis period that has the key.
LineValue(statements, basis, key) ==
  LET with == {i \in DOMAIN statements : /\ statements[i].period = basis
                                         /\ statements[i].status = "confirmed"
                                         /\ key \in DOMAIN statements[i].lines}
  IN IF with = {} THEN 0 ELSE statements[Min(with)].lines[key]

SmallCompany(turnover, fixedAssets) == turnover <= 100000000 /\ fixedAssets <= 250000000

CitEstimate(statements, profile, p, basis) ==
  LET Value(key) == LineValue(statements, basis, key)
      assessable == Value("net_income") + Value("depreciation_amortization")
      small == SmallCompany(Value("revenue"), Value("ppe") + Value("intangibles"))
      cit   == IF small THEN 0 ELSE RoundDiv(assessable * 30, 100)
      levy  == IF small THEN 0 ELSE RoundDiv(assessable * 4, 100)
  IN [kind |-> "cit", period |-> p, amount |-> cit + levy,
      fields |-> <<assessable, IF small THEN 0 ELSE 1, cit, levy>>,
      authority |-> ResolveAuthority("cit", profile.taxpayer, "none")]

-----------------------------------------------------------------------------
Month(y, n) == [unit |-> "month", year |-> y, n |-> n]
Year(y) == [unit |-> "year", year |-> y, n |-> 0]

\* GET /tax/estimates
ComputeEstimates(ledger, categories, statements, profile) ==
  IF profile.taxpayer = "company"
  THEN << VatEstimate(ledger, categories, profile, Month(2026, 6)),
          VatEstimate(ledger, categories, profile, Month(2026, 7)),
          CitEstimate(statements, profile, Year(2026), Year(2025)) >>
  ELSE << PitEstimate(ledger, categories, profile, Year(2026)) >>

\* The figures of a drafted filing.
DraftEstimate(ledger, categories, statements, profile, kind, p) ==
  CASE kind = "vat" -> VatEstimate(ledger, categories, profile, p)
    [] kind = "cit" -> CitEstimate(statements, profile, p, p)
    [] kind = "pit" -> PitEstimate(ledger, categories, profile, p)
=============================================================================
