\* Subscriptions: every operation of the service, the uncalled ones included.  Calendar: a year of
\* periods from every day of 2023 and 2024.  Reminders: two
\* replicas whose cron may fire.  Invoices: three requests to issue two of them, one dies.
\* Checkout: an invoice issued twice while its rate changes.  Outbox: one replica, an endpoint
\* switched on and off, faults and a replay.
\* Payments: two invoices, references typed by the clients.
SPECIFICATION LedgerSpec
CONSTANTS
  NoValue = NoValue
  Products = {basic, pro}
  CycleLength <- MonthAndYear
  Grace = 1
  Uncalled = {"pause", "resume", "extendTrial", "triggerTrialEnded"}
  Horizon = 3
  MaxInvoices = 2
  MaxOpen = 2
  MaxResends = 1
  FirstYears = {2023, 2024}
  MaxPeriods = 13
  NoPeriod = NoPeriod
  Replicas = {r1, r2}
  PeriodDays = 4
  FinalDay = 6
  MaxRenewals = 1
  MaxRedelivered = 1
  Idling = Idling
  Nobody = Nobody
  InvoiceIds = {i1, i2}
  Requests = {r1, r2, r3}
  MaxNumber = 9
  MaxDeaths = 1
  Carts <- SmallCarts
  RateValues = {365512, 400001}
  Issuers = {r1, r2}
  Payers = {q1, q2}
  TokenLife = 1
  LastDay = 2
  MaxRates = 2
  NotSet = NotSet
  Nowhere = Nowhere
  DeliveryKeys = {k1}
  Endpoints = {e1}
  Internal = {}
  InternalKeys = {}
  Dispatchers = {w1}
  Retries = 1
  MaxJobs = 2
  MaxOutboxFaults = 2
  MaxReplays = 1
  MaxToggles = 1
  None = None
  Invoices = {i1, i2}
  SubscriptionInvoices = {i1}
  Payments = {p1, p2}
  Keys = {k1}
  References = {r1}
  Methods = {"transfer", "zelle"}
  Handlers = {h1, h2}
  Pollers = {}
  PollSlots = 1
  MaxFaults = 1
  MaxCharges = 3
SYMMETRY Symmetry
CHECK_DEADLOCK FALSE
INVARIANTS BillingTypeOK GoodStanding NothingDeduplicated RemindersAreExact NumbersAreUnique BillsAreRight
  PeriodsKeepTheCalendar TriesAreCounted ReferenceCreditsOneInvoice
PROPERTIES PeriodsAreContiguous BilledIsGranted CanceledIsFinal ImplementsAtLeastOnce TerminalIsFinal
