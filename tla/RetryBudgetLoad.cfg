CONSTANTS
  Slots = 4
  SlotTime = 2
  Permille = 600
  Baseline = 0
  MaxLog = 6
SPECIFICATION BudgetSpec
PROPERTY ExtraLoad
