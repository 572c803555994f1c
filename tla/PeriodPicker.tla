----------------------------- MODULE PeriodPicker ----------------------------
(***************************************************************************)
(* The period picker: a panel with a calendar to click, a text to type and *)
(* presets, in five modes (PeriodPicker.tsx), over the day, month, quarter *)
(* and year grids (DatePicker.tsx).  Days and months are numbers; a text   *)
(* may fit the grammar and name no day or month of the calendar.           *)
(***************************************************************************)
EXTENDS Integers, Sequences

CONSTANTS PickerModes,     \* of "day", "range", "month", "quarter" and "year"
          MonthLength, WeekLength, MonthsShown,   \* bounds of the calendar
          UnrealTyped,     \* 2026-02-31 and 2026-13 may be typed
          MaxOpenings      \* bound: times the panel opens

ASSUME PickerAssumption ==
  /\ PickerModes \subseteq {"day", "range", "month", "quarter", "year"}
  /\ MonthLength \in Nat \ {0} /\ WeekLength \in Nat \ {0} /\ MonthsShown \in Nat \ {0}
  /\ UnrealTyped \in BOOLEAN /\ MaxOpenings \in Nat

VARIABLES mode,
          chosen,      \* the value: a period, or none
          opened,      \* the panel is open
          typed,       \* the draft
          typedWrong,  \* the draft's error
          rangeStart,  \* none or one day
          shownGrid,        \* the month, or year, the panel shows
          focusDay,    \* none or one day, moved by the arrow keys
          openings,
          clicked      \* history: days clicked in this opening

pickerVars == <<mode, chosen, opened, typed, typedWrong, rangeStart, shownGrid, focusDay,
                openings, clicked>>

Calendar == 0..(MonthLength * MonthsShown - 1)
Unreal == -1
MonthOf(d) == d \div MonthLength

\* Two months and two quarters a year.
Cells == 0..(2 * MonthsShown - 1)

\* A period is one number, and a range is two; a range with one is half typed,
\* and what is empty or fits no grammar is <<>>.
PeriodsOfMode == CASE mode = "day" -> {<<d>> : d \in Calendar}
             [] mode = "range" -> {<<a, b>> : a \in Calendar, b \in Calendar}
             [] mode \in {"month", "quarter"} -> {<<c>> : c \in Cells}
             [] mode = "year" -> {<<y>> : y \in 0..MonthsShown}

\* What a page passes in as the value or as a preset.
Forward == {p \in PeriodsOfMode : Len(p) = 2 => p[1] <= p[2]}

IsValidPeriod(p) == Len(p) = IF mode = "range" THEN 2 ELSE 1

Typable == PeriodsOfMode \cup {<<>>} \cup
           (IF UnrealTyped /\ mode \in {"day", "month"} THEN {<<Unreal>>} ELSE {})

\* What the grid selects.  A day that is not in the calendar is none; a month
\* that is not is handed on.
SelectedBy(text) ==
  IF text = <<>> \/ (mode \in {"day", "range"} /\ text[1] = Unreal) THEN <<>>
  ELSE IF mode = "range" THEN <<text[1]>> ELSE text

GridOf(c) == CASE mode \in {"day", "range"} -> MonthOf(c)
               [] mode = "year" -> 0
               [] OTHER -> c \div 2

\* The value of the grid: the clicked end of a range, or what is typed.
GridValue == IF rangeStart # <<>> THEN rangeStart ELSE SelectedBy(typed)

\* A value that changes turns the grid to it.
Follow(before, after) ==
  IF after # before /\ after # <<>> /\ after # <<Unreal>> THEN GridOf(after[1]) ELSE shownGrid

\* The month grid renders until its value equals itself, which an invalid date
\* never does.
RenderLoops == opened /\ mode = "month" /\ typed = <<Unreal>>

-----------------------------------------------------------------------------

PickerInit ==
  /\ mode \in PickerModes
  /\ chosen \in {<<>>} \cup Forward
  /\ opened = FALSE /\ typed = chosen /\ typedWrong = FALSE
  /\ rangeStart = <<>> /\ shownGrid = 0 /\ focusDay = <<>> /\ openings = 0 /\ clicked = {}

\* The panel is mounted anew: its grid starts at what is selected.
Open ==
  /\ ~ opened /\ openings < MaxOpenings
  /\ opened' = TRUE /\ openings' = openings + 1
  /\ rangeStart' = <<>> /\ focusDay' = <<>> /\ clicked' = {}
  /\ shownGrid' = IF SelectedBy(typed) \in {<<>>, <<Unreal>>} THEN 0 ELSE GridOf(SelectedBy(typed)[1])
  /\ UNCHANGED <<mode, chosen, typed, typedWrong>>

\* The trigger again, Cancel, Escape or a click outside: the draft stays.
Close ==
  /\ opened /\ ~ RenderLoops
  /\ opened' = FALSE /\ rangeStart' = <<>>
  /\ UNCHANGED <<mode, chosen, typed, typedWrong, shownGrid, focusDay, openings,
                 clicked>>

\* The grid follows what is typed and can be selected.
TypePeriod ==
  /\ opened /\ ~ RenderLoops
  /\ \E text \in Typable \ {typed} :
       /\ typed' = text
       /\ shownGrid' = IF rangeStart # <<>> THEN shownGrid ELSE Follow(GridValue, SelectedBy(text))
  /\ UNCHANGED <<mode, chosen, opened, typedWrong, rangeStart, focusDay, openings,
                 clicked>>

\* Slip: any draft is committed.
CommitUnchecked(p) ==
  /\ typedWrong' = FALSE /\ typed' = p /\ chosen' = p
  /\ opened' = FALSE /\ rangeStart' = <<>>

Commit(p) ==
  IF IsValidPeriod(p)
  THEN /\ typedWrong' = FALSE /\ typed' = p /\ chosen' = p
       /\ opened' = FALSE /\ rangeStart' = <<>>
  ELSE typedWrong' = TRUE /\ UNCHANGED <<typed, chosen, opened, rangeStart>>

\* Apply or Enter.
Apply ==
  /\ opened /\ ~ RenderLoops /\ Commit(typed)
  /\ UNCHANGED <<mode, shownGrid, focusDay, openings, clicked>>

PickPreset ==
  /\ opened /\ ~ RenderLoops /\ \E p \in Forward : Commit(p)
  /\ UNCHANGED <<mode, shownGrid, focusDay, openings, clicked>>

\* Whole weeks around the month.
Visible == LET first == shownGrid * MonthLength
               last == first + MonthLength - 1
           IN ((first \div WeekLength) * WeekLength)..((last \div WeekLength + 1) * WeekLength - 1)

\* A day, or the first and then the second end of a range, in either order.
PickDay ==
  /\ opened /\ mode \in {"day", "range"}
  /\ \E d \in Visible \cap Calendar :
       /\ clicked' = clicked \cup {d}
       /\ CASE mode = "day" -> Commit(<<d>>)
            [] mode = "range" /\ rangeStart = <<>> ->
                 /\ rangeStart' = <<d>> /\ typed' = <<d>> /\ typedWrong' = FALSE
                 /\ UNCHANGED <<chosen, opened>>
            [] OTHER -> Commit(IF d < rangeStart[1] THEN <<d, rangeStart[1]>>
                               ELSE <<rangeStart[1], d>>)
       /\ shownGrid' = IF mode = "range" /\ rangeStart = <<>> THEN Follow(GridValue, <<d>>) ELSE shownGrid
  /\ UNCHANGED <<mode, focusDay, openings>>

PickMonth ==
  /\ opened /\ mode = "month" /\ ~ RenderLoops
  /\ \E c \in {2 * shownGrid, 2 * shownGrid + 1} : Commit(<<c>>)
  /\ UNCHANGED <<mode, shownGrid, focusDay, openings, clicked>>

PickQuarter ==
  /\ opened /\ mode = "quarter" /\ \E c \in {2 * shownGrid, 2 * shownGrid + 1} : Commit(<<c>>)
  /\ UNCHANGED <<mode, shownGrid, focusDay, openings, clicked>>

PickYear ==
  /\ opened /\ mode = "year" /\ \E y \in 0..MonthsShown : Commit(<<y>>)
  /\ UNCHANGED <<mode, shownGrid, focusDay, openings, clicked>>

Turn ==
  /\ opened /\ ~ RenderLoops /\ mode # "year"
  /\ shownGrid' \in {shownGrid - 1, shownGrid + 1} \cap (0..(MonthsShown - 1))
  /\ UNCHANGED <<mode, chosen, opened, typed, typedWrong, rangeStart, focusDay,
                 openings, clicked>>

\* The day the Tab key stops at: the focused one, the selected one if it is of
\* the month shown, or the first (today is taken to be another month's).
TabStop ==
  CASE focusDay # <<>> -> focusDay[1]
    [] focusDay = <<>> /\ GridValue # <<>> /\ MonthOf(GridValue[1]) = shownGrid -> GridValue[1]
    [] OTHER -> shownGrid * MonthLength

\* The cells the Tab key reaches.
TabStops == {d \in Visible : d = TabStop}

\* From the day that has the focus; leaving the month turns the grid.
ArrowKey ==
  /\ opened /\ mode \in {"day", "range"}
  /\ \E d \in Visible \cap Calendar, delta \in {-1, 1, - WeekLength, WeekLength} :
       /\ d + delta \in Calendar
       /\ focusDay' = <<d + delta>> /\ shownGrid' = MonthOf(d + delta)
  /\ UNCHANGED <<mode, chosen, opened, typed, typedWrong, rangeStart, openings,
                 clicked>>

PickerNext ==
  \/ Open \/ Close \/ TypePeriod \/ Apply \/ PickPreset \/ PickDay \/ PickMonth
  \/ PickQuarter \/ PickYear \/ Turn \/ ArrowKey

PickerSpec == PickerInit /\ [][PickerNext]_pickerVars

-----------------------------------------------------------------------------
(* Properties                                                              *)

PickerTypeOK ==
  /\ mode \in PickerModes /\ opened \in BOOLEAN /\ typedWrong \in BOOLEAN
  /\ Len(rangeStart) <= 1 /\ Len(focusDay) <= 1 /\ shownGrid \in 0..MonthsShown
  /\ clicked \subseteq Calendar /\ openings \in 0..MaxOpenings
  /\ chosen = <<>> \/ IsValidPeriod(chosen)

\* The first end of a range is forgotten with the panel it was clicked in:
\* "Abandoned half-picked ranges reset when the panel opens or closes"
\* (PeriodPicker.tsx:197).
HalfPickedIsOfThisOpening ==
  rangeStart # <<>> => opened /\ rangeStart[1] \in clicked

\* A range runs forward (one that is typed backwards is taken,
\* PeriodPicker.tsx:270; one that is clicked is put in order, :299).
\* Not kept by the code (README, "By hand").
RangeRunsForward == mode = "range" /\ chosen # <<>> => chosen[1] <= chosen[2]

\* "a valid typed value moves the calendar" (PeriodPicker.tsx:282); a month that
\* does not exist must not bring the page down.
TypingKeepsThePage == ~ RenderLoops

\* "One tab stop: the focused/selected day (today, else the 1st)"
\* (DatePicker.tsx:163).
\* Not kept by the code (README, "By hand").
OneTabStop == opened /\ mode \in {"day", "range"} => TabStops # {}
=============================================================================
