\* Handlers race for an invoice while none of them dies; a subscription goes through every
\* operation of its service.
SPECIFICATION LiveSpec
CONSTANTS
  None = None
  Invoices = {i1}
  SubscriptionInvoices = {i1}
  Payments = {p1, p2}
  Keys = {k1}
  References = {r1}
  Methods = {"c2p", "web_button"}
  Handlers = {h1, h2}
  Pollers = {q1}
  PollSlots = 2
  MaxFaults = 0
  MaxCharges = 4
  NoValue = NoValue
  Products = {basic}
  CycleLength <- MonthAndYear
  Grace = 1
  Uncalled = {"pause", "resume", "extendTrial", "triggerTrialEnded"}
  Horizon = 3
  MaxInvoices = 1
  MaxOpen = 1
  MaxResends = 0
CHECK_DEADLOCK FALSE
PROPERTIES SettledIsCredited PollingEnds LapseIsActedOn
