SPECIFICATION PickerSpec
CONSTANTS
  PickerModes = {"day", "range", "month", "quarter", "year"}
  MonthLength = 2
  WeekLength = 2
  MonthsShown = 2
  UnrealTyped = TRUE
  MaxOpenings = 2
INVARIANTS
  TypingKeepsThePage
CHECK_DEADLOCK FALSE
