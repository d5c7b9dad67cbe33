\* Two requests issue an invoice and one dies; two replicas deliver to an internal handler,
\* which may be slow, and one of them may crash.
SPECIFICATION WorkSpec
CONSTANTS
  Nobody = Nobody
  InvoiceIds = {i1}
  Requests = {r1, r2}
  MaxNumber = 4
  MaxDeaths = 1
  Nowhere = Nowhere
  Dispatchers = {w1, w2}
  DeliveryKeys = {k1}
  Endpoints = {}
  Internal = {mail}
  InternalKeys = {k1}
  Retries = 1
  MaxJobs = 1
  MaxOutboxFaults = 1
  MaxReplays = 0
  MaxToggles = 0
CHECK_DEADLOCK FALSE
INVARIANT DeliveredWasAccepted
PROPERTIES IssueEnds Settles
