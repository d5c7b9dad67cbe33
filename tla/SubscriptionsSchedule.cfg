\* A change of product scheduled for the end of the period.
SPECIFICATION SubSpec
CONSTANTS
  NoValue = NoValue
  Products = {basic, pro}
  CycleLength <- MonthAndYear
  Grace = 1
  Uncalled = {}
  Horizon = 2
  MaxInvoices = 1
  MaxOpen = 1
  MaxResends = 0
CHECK_DEADLOCK FALSE
PROPERTY ScheduledPlanWaits
