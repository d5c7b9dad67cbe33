\* Two requests issue one draft; the payer is faster than the second.
SPECIFICATION InvoicesSpec
CONSTANTS
  Nobody = Nobody
  InvoiceIds = {i1}
  Requests = {r1, r2}
  MaxNumber = 3
  MaxDeaths = 0
SYMMETRY Symmetry
CHECK_DEADLOCK FALSE
PROPERTY PaidStaysPaid
