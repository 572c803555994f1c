------------------------------- MODULE Charts -------------------------------
(***************************************************************************)
(* The pictures the client draws of its figures: the line chart with its   *)
(* axis (niceScale, ChartLine), the donut of a month's expenses with its   *)
(* legend (OverviewSidePanels, ChartDonut) and the gauge of a ratio        *)
(* (gaugeDomain, RatioGauge).  Amounts are integers, of a unit so small    *)
(* that the steps of an axis are whole; an axis counts them twice, for its *)
(* steps of two and a half.  A length is a numerator over the denominator  *)
(* its operator names.                                                     *)
(***************************************************************************)
EXTENDS Integers, Sequences, FiniteSetsExt, Lists

CONSTANTS PointLists,  \* points a line may have
          Magnitudes,  \* bound: the powers of ten an axis may step by
          SliceLists,  \* a month's expenses by category
          Bands,       \* healthy ranges [min, max] of metrics, each none or one
          RatioValues  \* a ratio's values, none or one

Optional(S) == {s \in Seq(S) : Len(s) <= 1}

ASSUME ChartsAssumption ==
  /\ PointLists \subseteq Seq(Int) /\ SliceLists \subseteq Seq(Nat)
  /\ Magnitudes \subseteq Nat \ {0}
  /\ Bands \subseteq [min : Optional(Nat), max : Optional(Nat)]
  /\ \A b \in Bands : b.min # <<>> /\ b.max # <<>> => b.min[1] <= b.max[1]
  /\ RatioValues \subseteq Optional(Int)

VARIABLES line,   \* the points of the line chart
          asTable, \* ... shown as a table
          slices, \* the donut's values
          gauge   \* [band, value, target, arc, frame]: fractions as <<numerator, denominator>>

chartVars == <<line, asTable, slices, gauge>>

Least(a, b) == IF a < b THEN a ELSE b
Greatest(a, b) == IF a < b THEN b ELSE a

-----------------------------------------------------------------------------
(* The axis                                                                *)

\* The power of ten at or below a third of the spread.
MagnitudeOf(spread) == CHOOSE m \in Magnitudes : 3 * m <= spread /\ spread < 30 * m
HasMagnitude(spread) == \E m \in Magnitudes : 3 * m <= spread /\ spread < 30 * m

\* Twice the step: 1, 2, 2.5, 5 or 10 of the power, from a third of the spread.
StepFor(spread, m) ==
  IF spread <= 3 * m THEN 2 * m
  ELSE IF spread <= 6 * m THEN 4 * m
  ELSE IF 2 * spread <= 15 * m THEN 5 * m
  ELSE IF spread <= 15 * m THEN 10 * m
  ELSE 20 * m

FloorTo(x, step) == (x \div step) * step
CeilTo(x, step) == - FloorTo(-x, step)

\* A bound moves out to a step when that adds half a step or less.
ScaleOf(lo, hi, step) ==
  [step |-> step,
   min  |-> IF 2 * (lo - FloorTo(lo, step)) <= step THEN FloorTo(lo, step) ELSE lo,
   max  |-> IF 2 * (CeilTo(hi, step) - hi) <= step THEN CeilTo(hi, step) ELSE hi]

\* An axis of one value reaches to zero.
AxisLower(lo, hi) == IF lo = hi THEN Least(lo, 0) ELSE lo
AxisUpper(lo, hi) == IF lo = hi THEN Greatest(hi, 0) ELSE hi

NiceScale(lo, hi) ==
  LET l == AxisLower(lo, hi)
      h == AxisUpper(lo, hi)
  IN IF l = h THEN [step |-> 2, min |-> 0, max |-> 2]
     ELSE ScaleOf(2 * l, 2 * h, StepFor(h - l, MagnitudeOf(h - l)))

Ticks(scale) ==
  {k * scale.step : k \in (- ((-scale.min) \div scale.step))..(scale.max \div scale.step)}

Smallest(points) == Min({0} \cup {points[i] : i \in DOMAIN points})
Largest(points) == Max({points[i] : i \in DOMAIN points})
AxisOf(points) == NiceScale(Smallest(points), Largest(points))

\* The unit of the amounts is small enough for every axis.
ASSUME ChartsUnit ==
  \A points \in PointLists \ {<<>>} :
    LET l == AxisLower(Smallest(points), Largest(points))
        h == AxisUpper(Smallest(points), Largest(points))
    IN l = h \/ HasMagnitude(h - l)

\* A plot of 136 by 480, with 4 above and below the line: the height of a
\* value from the top, over the axis' span.
PlotHeight == 136
PlotWidth == 480
YAt(value, scale) ==
  (PlotHeight - 4) * (scale.max - scale.min) - (value - scale.min) * (PlotHeight - 8)

\* Where the i-th of n points is, over twice the number of gaps; markers
\* keep 3.5 from the edges.
Gaps(n) == Greatest(1, n - 1)
XAt(i, n, markers) ==
  LET inset == IF markers THEN 7 ELSE 0
  IN inset * Gaps(n) + i * (2 * PlotWidth - 2 * inset)

\* Every other month has a label.
LabelIndices(n) == {i \in 0..(n - 1) : i % 2 = 0}

-----------------------------------------------------------------------------
(* The donut                                                               *)

Total(values) == SumUpTo(values, Len(values))

\* Each slice starts where the ones before it end, over the total.
SliceOffset(values, i) == SumUpTo(values, i - 1)

\* Five categories by name, and what is left of them.
Legend(values) ==
  IF Len(values) <= 5 THEN values
  ELSE Append(SubSeq(values, 1, 5), Total(SubSeq(values, 6, Len(values))))

-----------------------------------------------------------------------------
(* The gauge                                                               *)

HighEnd(band, value) ==
  IF band.max # <<>> THEN band.max[1]
  ELSE IF band.min # <<>> THEN band.min[1]
  ELSE LET v == IF value = <<>> THEN 1000 ELSE value[1]
       IN IF v = 0 THEN 1000 ELSE IF v < 0 THEN - v ELSE v

\* In ten-thousandths: up to 1.6 of the high end, the value, or a tenth.
GaugeMax(band, value) ==
  Greatest(Greatest(16 * HighEnd(band, value), IF value = <<>> THEN 0 ELSE 10 * value[1]), 1000)

\* The healthy range as it is drawn; there is none without a band.
BandFrom(band) == IF band.min = <<>> THEN 0 ELSE 10 * band.min[1]
BandTo(band, value) ==
  IF band.max = <<>> THEN GaugeMax(band, value)
  ELSE Least(10 * band.max[1], GaugeMax(band, value))

IsHealthy(band, v) == (band.min # <<>> => band.min[1] <= v) /\ (band.max # <<>> => v <= band.max[1])

Clamped(n, d) == <<Greatest(0, Least(n, d)), d>>

\* The end of the arc; none for a ratio that is n/a.
Target(band, value) ==
  IF value = <<>> THEN <<0, 1>> ELSE Clamped(10 * value[1], GaugeMax(band, value))

-----------------------------------------------------------------------------
(* What happens to a picture                                               *)

Mounted(band, value) ==
  [band |-> band, value |-> value, target |-> Target(band, value), arc |-> <<0, 1>>,
   frame |-> <<Target(band, value)>>]

PointsArrive(points) == line' = points /\ UNCHANGED <<asTable, slices, gauge>>
ToggleTable == asTable' = ~ asTable /\ UNCHANGED <<line, slices, gauge>>
SlicesArrive(values) == slices' = values /\ UNCHANGED <<line, asTable, gauge>>

\* A target that changes asks for a frame and cancels the one it had asked for.
RatioArrives(band, value) ==
  /\ gauge' = [gauge EXCEPT !.band = band, !.value = value, !.target = Target(band, value),
                            !.frame = IF Target(band, value) = gauge.target THEN @
                                      ELSE <<Target(band, value)>>]
  /\ UNCHANGED <<line, asTable, slices>>

Frame ==
  /\ gauge.frame # <<>> /\ gauge' = [gauge EXCEPT !.arc = gauge.frame[1], !.frame = <<>>]
  /\ UNCHANGED <<line, asTable, slices>>

ChartsInit ==
  /\ line = <<>> /\ asTable = FALSE /\ slices = <<>>
  /\ \E band \in Bands : gauge = Mounted(band, <<>>)

ChartsNext ==
  \/ \E points \in PointLists : PointsArrive(points)
  \/ ToggleTable
  \/ \E values \in SliceLists : SlicesArrive(values)
  \/ \E band \in Bands, value \in RatioValues : RatioArrives(band, value)
  \/ Frame

ChartsSpec == ChartsInit /\ [][ChartsNext]_chartVars

-----------------------------------------------------------------------------
(* Properties                                                              *)

Fractions == {f \in Nat \X Nat : f[1] <= f[2] /\ f[2] > 0}

ChartsTypeOK ==
  /\ line \in Seq(Int) /\ asTable \in BOOLEAN /\ slices \in Seq(Nat)
  /\ gauge.band \in Bands /\ gauge.value \in Optional(Int)
  /\ gauge.target \in Fractions /\ gauge.arc \in Fractions
  /\ gauge.frame \in Optional(Fractions)

\* Every point lies inside the plot, and so does every gridline, of which
\* there are two or more (chart-scale.ts:44-56, ChartLine.tsx:136-141).
LineFits ==
  line # <<>> =>
    LET scale == AxisOf(line)
        span  == scale.max - scale.min
    IN /\ \A v \in {2 * line[i] : i \in DOMAIN line} \cup Ticks(scale) :
            4 * span <= YAt(v, scale) /\ YAt(v, scale) <= (PlotHeight - 4) * span
       /\ \E t, u \in Ticks(scale) : t # u

\* A month's slices fill the circle, and what the legend lists is all of them
\* (ChartDonut.tsx:62-66, OverviewSidePanels.tsx:41-53).
DonutIsWhole ==
  /\ \A i \in DOMAIN slices : SliceOffset(slices, i) + slices[i] <= Total(slices)
  /\ Total(Legend(slices)) = Total(slices)

\* The arc of a gauge that has come to rest ends at its value, and a healthy
\* value's within the band that is drawn (RatiosView.tsx:95-111,
\* RatioGauge.tsx:102-112).
GaugeIsTrue ==
  /\ gauge.frame = <<>> => gauge.arc = gauge.target
  /\ gauge.value # <<>> /\ IsHealthy(gauge.band, gauge.value[1]) =>
       /\ BandFrom(gauge.band) <= gauge.target[1]
       /\ gauge.target[1] <= BandTo(gauge.band, gauge.value)

PicturesAreTrue == LineFits /\ GaugeIsTrue
=============================================================================
