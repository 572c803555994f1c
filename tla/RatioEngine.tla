----------------------------- MODULE RatioEngine -----------------------------
(***************************************************************************)
(* The mock ratio engine and the ratio registry of the web client.  A      *)
(* value is a fraction <<n, d>>; amounts are whole, so that nothing is     *)
(* lost.  Statements are a sequence of confirmed ones, [kind, period,      *)
(* lines], lines a function from keys to amounts; nets are the ledger's    *)
(* net flows of the trailing complete months that have transactions.       *)
(* Periods are [unit, year, n] with unit "quarter", "half" or "year".      *)
(***************************************************************************)
EXTENDS Integers, Sequences, FiniteSets, SequencesExt

-----------------------------------------------------------------------------
(* The period grammar                                                      *)

Quarter(y, n) == [unit |-> "quarter", year |-> y, n |-> n]
Half(y, n) == [unit |-> "half", year |-> y, n |-> n]
FY(y) == [unit |-> "year", year |-> y, n |-> 1]

PartsOf(unit) == CASE unit = "quarter" -> 4 [] unit = "half" -> 2 [] unit = "year" -> 1

PreviousPeriod(p) ==
  IF p.n = 1 THEN [p EXCEPT !.year = @ - 1, !.n = PartsOf(p.unit)] ELSE [p EXCEPT !.n = @ - 1]

AnnualizationFactor(p) == PartsOf(p.unit)

IsLeap(y) == (y % 4 = 0 /\ y % 100 # 0) \/ y % 400 = 0
QuarterDays(y, n) == IF n = 1 THEN (IF IsLeap(y) THEN 91 ELSE 90) ELSE <<0, 91, 92, 92>>[n]
PeriodDayCount(p) ==
  CASE p.unit = "quarter" -> QuarterDays(p.year, p.n)
    [] p.unit = "half"    -> QuarterDays(p.year, 2 * p.n - 1) + QuarterDays(p.year, 2 * p.n)
    [] p.unit = "year"    -> IF IsLeap(p.year) THEN 366 ELSE 365

-----------------------------------------------------------------------------
(* The registry                                                            *)

INCOME_KEYS == {"revenue", "cogs", "gross_profit", "operating_profit",
                "depreciation_amortization", "interest_expense", "net_income"}

\* Bounds in tenths, inclusive; healthy goes before warning.
NoBand == [healthy |-> {}, warning |-> {}]
InRange(v, r) == v[1] * 10 >= r[1] * v[2] /\ (r[2] = -1 \/ v[1] * 10 <= r[2] * v[2])
Down(low, high) == [healthy |-> {<<high, -1>>}, warning |-> {<<low, high>>}]
Up(high, low) == [healthy |-> {<<-1000000, low>>}, warning |-> {<<low, high>>}]

Metric(key, nums, dens) ==
  [key |-> key, nums |-> nums, minus |-> {}, dens |-> dens, annual |-> FALSE, days |-> FALSE,
   band |-> NoBand, direction |-> "higher", group |-> "ratio", needs |-> "nonzero"]
Banded(m, band) == [m EXCEPT !.band = band]
Annual(m) == [m EXCEPT !.annual = TRUE]
OverEquity(m) == [m EXCEPT !.needs = "positive"]
Lower(m) == [m EXCEPT !.direction = "lower"]
Absolute(m) == [m EXCEPT !.needs = "none", !.group = "currency"]

DEBT == {"short_term_debt", "long_term_debt"}

RATIO_REGISTRY == <<
  Banded([Metric("current_ratio", {"current_assets"}, {"current_liabilities"})
            EXCEPT !.direction = "band"],
         [healthy |-> {<<15, 30>>}, warning |-> {<<10, 15>>, <<30, -1>>}]),
  Banded([Metric("quick_ratio", {"current_assets"}, {"current_liabilities"})
            EXCEPT !.minus = {"inventory"}], Down(5, 10)),
  Banded(Metric("cash_ratio", {"cash_and_equivalents"}, {"current_liabilities"}), Down(1, 2)),
  Absolute([Metric("working_capital", {"current_assets"}, {})
              EXCEPT !.minus = {"current_liabilities"}]),
  Lower(Banded(OverEquity(Metric("debt_to_equity", DEBT, {"equity"})), Up(20, 10))),
  Lower(Banded(Metric("debt_ratio", {"total_liabilities"}, {"total_assets"}), Up(7, 5))),
  Banded(Metric("interest_coverage", {"operating_profit"}, {"interest_expense"}), Down(15, 30)),
  Banded(Metric("interest_coverage_ebitda", {"operating_profit", "depreciation_amortization"},
                {"interest_expense"}), Down(15, 30)),
  Metric("gross_margin", {"gross_profit"}, {"revenue"}),
  Metric("operating_margin", {"operating_profit"}, {"revenue"}),
  Metric("net_margin", {"net_income"}, {"revenue"}),
  Annual(Metric("roa", {"net_income"}, {"total_assets"})),
  Annual(OverEquity(Metric("roe", {"net_income"}, {"equity"}))),
  Annual(Metric("asset_turnover", {"revenue"}, {"total_assets"})),
  Annual(Metric("inventory_turnover", {"cogs"}, {"inventory"})),
  Lower([Metric("receivables_days", {"receivables"}, {"revenue"}) EXCEPT !.days = TRUE]),
  Metric("operating_cash_flow_ratio", {"cfo"}, {"current_liabilities"}),
  Absolute(Metric("free_cash_flow", {"cfo", "capex"}, {})),
  Metric("cfo_to_total_debt", {"cfo"}, DEBT) >>

Classify(v, band) ==
  IF \E r \in band.healthy : InRange(v, r) THEN "healthy"
  ELSE IF \E r \in band.warning : InRange(v, r) THEN "warning" ELSE "critical"

-----------------------------------------------------------------------------
(* One period's results                                                    *)

OfPeriod(statements, p) == SelectSeq(statements, LAMBDA s : s.period = p)

\* A later statement's key replaces an earlier one's.
CollectValues(statements, p) ==
  FoldLeft(LAMBDA vals, s : [k \in DOMAIN vals \cup DOMAIN s.lines |->
                               IF k \in DOMAIN s.lines THEN s.lines[k] ELSE vals[k]],
           <<>>, OfPeriod(statements, p))

Fraction(n, d) == IF d < 0 THEN <<-n, -d>> ELSE <<n, d>>
Result(m, value, status) ==
  [key |-> m.key, value |-> value, status |-> status, delta |-> <<>>, group |-> m.group,
   direction |-> m.direction]
Na(m) == Result(m, <<>>, "na")

SumKeys(vals, keys) == FoldSet(LAMBDA k, sum : sum + vals[k], 0, keys)
Flow(m, vals, factor, keys) ==
  FoldSet(LAMBDA k, sum : sum + vals[k] * (IF m.annual /\ k \in INCOME_KEYS THEN factor ELSE 1),
          0, keys)

Evaluate(m, vals, p) ==
  LET num == (Flow(m, vals, AnnualizationFactor(p), m.nums)
                - Flow(m, vals, AnnualizationFactor(p), m.minus))
               * (IF m.days THEN PeriodDayCount(p) ELSE 1)
      den == IF m.needs = "none" THEN 1 ELSE SumKeys(vals, m.dens)
      v   == Fraction(num, den)
  IN IF ~ (m.nums \cup m.minus \cup m.dens \subseteq DOMAIN vals)
          \/ den = 0 \/ (m.needs = "positive" /\ den < 0)
     THEN Na(m)
     ELSE Result(m, <<v>>, IF m.band = NoBand THEN "healthy" ELSE Classify(v, m.band))

\* The EBITDA variant is left out, not n/a, without its key.
Listed(vals) ==
  SelectSeq(RATIO_REGISTRY, LAMBDA m : m.key = "interest_coverage_ebitda" =>
                                         "depreciation_amortization" \in DOMAIN vals)

Growth(key, base, vals, prev) ==
  LET m == [Metric(key, {base}, {base}) EXCEPT !.group = "growth"]
  IN IF base \notin DOMAIN vals \cap DOMAIN prev THEN Na(m)
     ELSE IF prev[base] <= 0 THEN Na(m)
     ELSE Result(m, << <<vals[base] - prev[base], prev[base]>> >>, "healthy")

\* What three trailing months lose together; none when one is missing or
\* they lose nothing.
LedgerBurn(nets) ==
  LET lost == -FoldLeft(LAMBDA sum, net : sum + net, 0, nets)
  IN IF Len(nets) < 3 \/ lost <= 0 THEN <<>> ELSE <<lost>>

\* Cash over the average monthly burn, in tenths of a month; with three
\* confirmed cash flow statements the mock has no figure at all.
Runway(vals, statements, nets) ==
  LET m == [Metric("runway_months", {"cash_and_equivalents"}, {}) EXCEPT !.group = "months"]
  IN IF \/ "cash_and_equivalents" \notin DOMAIN vals
        \/ Len(SelectSeq(statements, LAMBDA s : s.kind = "cash_flow")) >= 3
        \/ LedgerBurn(nets) = <<>>
     THEN Na(m)
     ELSE LET lost == LedgerBurn(nets)[1]
          IN Result(m, << <<(60 * vals["cash_and_equivalents"] + lost) \div (2 * lost), 10>> >>,
                    "healthy")

ComputeResults(statements, nets, p) ==
  LET vals == CollectValues(statements, p)
      prev == CollectValues(statements, PreviousPeriod(p))
      metrics == Listed(vals)
  IN [i \in DOMAIN metrics |-> Evaluate(metrics[i], vals, p)]
       \o << Growth("revenue_growth", "revenue", vals, prev),
             Growth("net_income_growth", "net_income", vals, prev),
             Runway(vals, statements, nets) >>

Difference(a, b) == <<a[1] * b[2] - b[1] * a[2], a[2] * b[2]>>

\* Deltas are to the period before, where both have a value; growth has none.
ComputeRatioReport(statements, nets, p) ==
  LET results == ComputeResults(statements, nets, p)
      before  == ComputeResults(statements, nets, PreviousPeriod(p))
      Prior(r) == {i \in DOMAIN before : before[i].key = r.key /\ before[i].value # <<>>}
  IN [i \in DOMAIN results |->
        LET r == results[i]
        IN IF r.value = <<>> \/ r.group = "growth" \/ Prior(r) = {} THEN r
           ELSE [r EXCEPT !.delta = <<Difference(r.value[1],
                                                 before[CHOOSE j \in Prior(r) : TRUE].value[1])>>]]
=============================================================================
