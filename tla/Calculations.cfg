SPECIFICATION CalculationsSpec
CONSTANTS
  None = None
  Text = Text
  Blanks = Blanks
  CURRENCY = "USD"
  FY_START_MONTH = 4
  NRW_TARGET_PCT = 27
  NRW_WARN = 35
  COLL_GOOD = 90
  COLL_WARN = 70
  CURRENT_FY = 2026
  MaxRows = 3
  Row <- RowDef
  Window <- WindowDef
  Sheet <- SheetDef
  Budget <- BudgetDef
  THRESHOLDS <- ThresholdsDef
INVARIANTS
  FiguresAddUp
  WindowIsRespected
  UnknownIsNotZero
  ParsedRowsAreSound
