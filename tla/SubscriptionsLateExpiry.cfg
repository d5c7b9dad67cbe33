\* A renewal is paid between the cron's list and its transition.
SPECIFICATION SubSpec
CONSTANTS
  NoValue = NoValue
  Products = {basic}
  CycleLength <- MonthAndYear
  Grace = 1
  Uncalled = {}
  Horizon = 3
  MaxInvoices = 2
  MaxOpen = 2
  MaxResends = 0
CHECK_DEADLOCK FALSE
PROPERTY OnlyEndedPeriodsLapse
