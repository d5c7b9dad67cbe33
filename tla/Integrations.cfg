\* Two terminals and a payment; two cron ticks and an administrator refreshing rates; two
\* payments against the bank; every way of typing a few fields.
SPECIFICATION Spec
CONSTANTS
  Nothing = Nothing
  uA = uA
  uB = uB
  sA = sA
  sB = sB
  Applications = {a1, a2}
  Methods = {m1, m2}
  Usernames <- TwoUsers
  Secrets <- TwoSecrets
  OwnerOf <- OneSecretEach
  MaxTerminals = 2
  MaxChanges = 3
  Admins = {d1, d2}
  Payments = {p1}
  Cached = TRUE
  Unset = Unset
  Ticks = {d1, d2}
  Connections = {m1, m2}
  MaxDrops = 1
  Sources <- SourceOrder
  Adapters = {"DOLARAPI", "YADIO"}
  Official = "DOLARAPI"
  Manual = {j1}
  MaxDay = 2
  MaxFetch = 3
  MaxFaults = 1
  Exchanges = {d1, d2}
  Bills = {m1, m2}
  Movements = {a1, a2}
  MaxPolls = 2
  MaxOtps = 2
  Nil = Nil
  Subscribers <- Phones
  Transfers <- References
  Citizens <- Documents
  Cards <- CardNumbers
  Expiries <- CardExpiries
  BillNumbers <- InvoiceNumbers
  Rejected = Rejected
SYMMETRY Symmetry
CHECK_DEADLOCK FALSE
INVARIANTS IntegrationsTypeOK RoutingIsDeterministic CallsKeepTheirTerminal
  OneLeaderAtATime FallbackMeansNoAnswer
  CreditsAreBacked NoChargeIsMissed AnswersAreForeseen MeantIsSent
PROPERTY RatesMoveForward
