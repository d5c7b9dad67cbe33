\* One payment on the page of the web button, whose query the bank answers with error 330.
SPECIFICATION SitefSpec
CONSTANTS
  Exchanges = {x1}
  Bills = {b1}
  Movements = {m1}
  MaxPolls = 1
  MaxOtps = 1
  Nil = Nil
CHECK_DEADLOCK FALSE
INVARIANT NotFoundMayAppear
