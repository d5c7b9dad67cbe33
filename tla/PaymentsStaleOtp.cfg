\* Two OTP submissions of one payment, then its reference typed for another invoice.
SPECIFICATION Spec
CONSTANTS
  None = None
  Invoices = {i1, i2}
  SubscriptionInvoices = {i1}
  Payments = {p1, p2}
  Keys = {k1}
  References = {r1}
  Methods = {"c2p", "transfer"}
  Handlers = {h1, h2}
  Pollers = {}
  PollSlots = 1
  MaxFaults = 0
  MaxCharges = 3
CHECK_DEADLOCK FALSE
INVARIANT ReferenceCreditsOneInvoice
