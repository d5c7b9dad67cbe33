\* A cancellation at the end of the period.
SPECIFICATION FairSubSpec
CONSTANTS
  NoValue = NoValue
  Products = {basic}
  CycleLength <- MonthAndYear
  Grace = 1
  Uncalled = {}
  Horizon = 3
  MaxInvoices = 1
  MaxOpen = 1
  MaxResends = 0
CHECK_DEADLOCK FALSE
PROPERTY CancelingEnds
