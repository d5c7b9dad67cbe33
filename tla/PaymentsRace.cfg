\* Handlers of every kind racing for one subscription invoice.
SPECIFICATION Spec
CONSTANTS
  None = None
  Invoices = {i1}
  SubscriptionInvoices = {i1}
  Payments = {p1, p2}
  Keys = {k1, k2}
  References = {r1}
  Methods = {"c2p", "web_button", "transfer"}
  Handlers = {h1, h2}
  Pollers = {q1}
  PollSlots = 1
  MaxFaults = 1
  MaxCharges = 3
SYMMETRY Symmetry
CHECK_DEADLOCK FALSE
INVARIANTS TypeOK AnnouncedAfterPaid ChargesHaveReasons
PROPERTY ImplementsSettlement
