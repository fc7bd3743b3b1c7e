CONSTANTS
  DUTY_CYCLE_WINDOW_MS = 12
  Percents <- MCPercents
  Airtimes <- MCAirtimes
  MaxBudgetTime = 16
SPECIFICATION BudgetSpec
INVARIANT BudgetSuffices
INVARIANT DutyCycleBounded
CHECK_DEADLOCK FALSE
