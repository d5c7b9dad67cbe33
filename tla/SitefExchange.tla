---------------------------- MODULE SitefExchange ----------------------------
(***************************************************************************)
(* SitefAdapter and SitefClient against the bank: what each body makes of a    *)
(* payment, and whether the money moved.                                        *)
(*                                                                            *)
(* A call sends a request; the bank acts on it and answers with a body in one    *)
(* of its dialects; the answer is mapped, or never arrives.  A body is the block  *)
(* it carries, what that block says, and the notice that may come along.           *)
(* One call at a time: racing calls on one payment are in Payments.                *)
(***************************************************************************)
EXTENDS Integers, FiniteSets, SitefAnswers

CONSTANTS
  Exchanges,  \* payments made through Sitef
  Bills,      \* invoice numbers
  Movements,  \* movements of money at the bank
  MaxPolls, MaxOtps,  \* bounds: status queries, codes submitted per payment
  Nil

ASSUME SitefAssumption == {MaxPolls, MaxOtps} \subseteq Nat /\ Nil \notin Bills \cup Movements \cup Exchanges

VARIABLES
  exchange,   \* exchange[x]: the payment row, and the call it is in
  movement    \* movement[m]: what the bank knows of the movement

sitefVars == <<exchange, movement>>

-----------------------------------------------------------------------------
TypedMethods == {"transfer", "pago_movil"}
SitefMethods == TypedMethods \cup {"c2p", "card", "card_ccr", "web_button"}
CodeMethods == {"c2p", "card", "card_ccr"}

(* A reference names a movement, in all its digits, in the last eight, or in the fewer *)
(* it has; or it is an order's id.                                                      *)
MovementReference == [of : Movements, form : {"full", "last8", "short"}]
Reference == MovementReference \cup [of : Exchanges, form : {"order"}]

ASSUME ReferenceAssumption == Nil \notin Reference

OrderOf(x) == [of |-> x, form |-> "order"]

(* Mutation: the digits are kept as they were typed. *)
KeepDigits(r) == r

NormalizeReference(r) == IF r.form = "short" THEN r ELSE [r EXCEPT !.form = "last8"]

(* `short`: its reference has fewer than eight digits. *)
Movement == [kind : {"none", "transfer", "pago_movil", "debit"}, bill : Bills \cup {Nil},
             payer : Exchanges \cup {Nil}, short : BOOLEAN]
NoMovement == [kind |-> "none", bill |-> Nil, payer |-> Nil, short |-> FALSE]

(* `blank` is the error_list with an empty entry that successful answers carry; `error` *)
(* an entry of it, of messages or a nested error, of which `not_found` is the entry 330   *)
(* and `duplicate` the message that tells of one.                                           *)
Body == [notice : {"none", "blank", "error", "not_found", "duplicate"},
         block : {"none", "c2p", "keyInfo", "debit", "list", "auth", "tx", "order", "receipt", "url"},
         says : {"nothing", "approved", "otp", "rejected", "ready"},
         ref : Reference \cup {Nil}, bill : Bills \cup {Nil}, http : {200, 400}]

Bare == [notice |-> "none", block |-> "none", says |-> "nothing", ref |-> Nil, bill |-> Nil, http |-> 200]
Saying(block, says) == [Bare EXCEPT !.block = block, !.says = says]
Refusing == {[Bare EXCEPT !.notice = n, !.http = h] : n \in {"error", "not_found"}, h \in {200, 400}}

-----------------------------------------------------------------------------
(* The mapping of bodies *)

ExtractSitefError(body) == body.notice \notin {"none", "blank"}

SitefRejection(body) ==
  CASE body.notice = "duplicate" -> "REFERENCE_ALREADY_USED"
    [] body.notice = "not_found" -> "SITEF_330"
    [] OTHER                     -> "SITEF"

Outcome(status, ref, code) == [status |-> status, ref |-> ref, code |-> code]
Refused(ref, code) == Outcome("failed", ref, code)

(* Mercantil's answer to a request for a code; to the code itself, it confirms nothing. *)
MapMercantilKeyInfo(body, step) ==
  IF step = "create" /\ body.says = "approved" THEN Outcome("requires_otp", body.ref, "none")
  ELSE Refused(body.ref, "NO_CONFIRMATION")

MapImmediateDebit(body) ==
  IF body.ref # Nil THEN Outcome("succeeded", body.ref, "none") ELSE Refused(Nil, "DEBIT_NO_REFERENCE")

MapC2pBlock(body) ==
  CASE body.says = "approved" -> Outcome("succeeded", body.ref, "none")
    [] body.says = "otp"      -> Outcome("requires_otp", body.ref, "none")
    [] OTHER                  -> Refused(body.ref, "BANK")

MapC2pResult(body, step) ==
  IF ExtractSitefError(body) THEN Refused(body.ref, SitefRejection(body))
  ELSE CASE body.block = "keyInfo" -> MapMercantilKeyInfo(body, step)
         [] body.block = "debit"   -> MapImmediateDebit(body)
         [] body.block = "c2p"     -> MapC2pBlock(body)
         [] OTHER                  -> Refused(Nil, "NO_RESPONSE")

(* Mutation: a transaction that is not found may still appear. *)
MapTransactionListWaits(body, expected) ==
  IF ExtractSitefError(body) THEN Refused(Nil, SitefRejection(body))
  ELSE IF body.block # "list" THEN Outcome("pending", Nil, "none")
  ELSE IF expected # Nil /\ body.bill \notin {Nil, expected} THEN Refused(Nil, "REFERENCE_ALREADY_USED")
  ELSE Outcome("succeeded", body.ref, "none")

MapTransactionListResult(body, expected) ==
  IF ExtractSitefError(body) THEN Refused(Nil, SitefRejection(body))
  ELSE IF body.block # "list" THEN Refused(Nil, "NOT_FOUND")
  ELSE IF expected # Nil /\ body.bill \notin {Nil, expected} THEN Refused(Nil, "REFERENCE_ALREADY_USED")
  ELSE Outcome("succeeded", body.ref, "none")

MapMercantilAuthResult(body) ==
  IF ExtractSitefError(body) THEN Refused(Nil, SitefRejection(body))
  ELSE IF body.block = "auth" /\ body.says = "approved" THEN Outcome("requires_otp", Nil, "none")
  ELSE Refused(Nil, "AUTH_FAILED")

MapMercantilPayResult(body) ==
  IF ExtractSitefError(body) THEN Refused(Nil, SitefRejection(body))
  ELSE IF body.block = "tx" /\ body.says = "approved" THEN Outcome("succeeded", body.ref, "none")
  ELSE Refused(body.ref, "BANK")

(* Credicard's bodies are not searched for a rejection: without an order there is one. *)
MapCcrOrder(body, order) ==
  IF body.block # "order" THEN Refused(Nil, "CCR_NO_ORDER")
  ELSE Outcome(IF body.says = "ready" THEN "requires_action" ELSE "requires_otp", order, "none")

(* A receipt without a reference is known by its order. *)
MapCcrReceipt(body, order) ==
  IF body.block = "receipt" /\ body.says = "approved"
  THEN Outcome("succeeded", IF body.ref = Nil THEN order ELSE body.ref, "none")
  ELSE Refused(order, "CCR_REJECTED")

MapWebButton(body) ==
  IF ExtractSitefError(body) THEN Refused(Nil, SitefRejection(body))
  ELSE IF body.block = "url" THEN Outcome("requires_action", Nil, "none")
  ELSE Refused(Nil, "NO_RESPONSE")

(* Mutation: what the query does not find has failed. *)
MapPollNotFound(body, expected) == MapTransactionListResult(body, expected)

MapPollResult(body, expected) ==
  IF ExtractSitefError(body) THEN Refused(Nil, SitefRejection(body))
  ELSE IF body.block # "list" THEN Outcome("pending", Nil, "none")
  ELSE IF body.bill \notin {Nil, expected} THEN Refused(Nil, "REFERENCE_ALREADY_USED")
  ELSE Outcome("succeeded", body.ref, "none")

(* A transfer is asked for without its invoice, and its answer not compared with one. *)
CreatePayment(method, body, bill, debit, order) ==
  CASE method = "c2p"           -> MapC2pResult(body, "create")
    [] method = "transfer"      -> MapTransactionListResult(body, Nil)
    [] method = "pago_movil"    -> MapTransactionListResult(body, bill)
    [] method = "card_ccr"      -> MapCcrOrder(body, order)
    [] method = "card" /\ debit -> MapMercantilAuthResult(body)
    [] method = "card" /\ ~debit -> MapMercantilPayResult(body)
    [] method = "web_button"    -> MapWebButton(body)

SubmitOtp(method, body, order) ==
  CASE method = "card_ccr" -> MapCcrReceipt(body, order)
    [] method = "card"     -> MapMercantilPayResult(body)
    [] OTHER               -> MapC2pResult(body, "otp")

Mapped(e, order) ==
  CASE e.step = "create" -> CreatePayment(e.method, e.body, e.bill, e.debit, order)
    [] e.step = "otp"    -> SubmitOtp(e.method, e.body, order)
    [] OTHER             -> MapPollResult(e.body, e.bill)

-----------------------------------------------------------------------------
(* What is kept of the data the customer gives *)

Fields == {"reference", "holder", "cardNumber", "cvv", "last4"}

DataOf(method) ==
  CASE method \in TypedMethods        -> {"reference", "holder"}
    [] method \in {"card", "card_ccr"} -> {"holder", "cardNumber", "cvv"}
    [] OTHER                          -> {"holder"}

(* Mutation: method_data is stored as it came. *)
StoreAll(method, fields) == fields

SanitizeMethodDataForStorage(method, fields) ==
  IF method \in {"card", "card_ccr"} THEN (fields \cap {"holder"}) \cup {"last4"} ELSE fields

(* The request, as payment_attempts keeps it. *)
MaskRequest(fields) ==
  (fields \ {"cardNumber", "cvv"}) \cup (IF "cardNumber" \in fields THEN {"last4"} ELSE {})

(* The second step needs the card again, which only the browser has. *)
RequireFields(method, fields) == method \in {"card", "card_ccr"} => {"cardNumber", "cvv", "holder"} \subseteq fields

-----------------------------------------------------------------------------
Exchange == [pc : {"new", "sent", "answered", "rest"}, method : SitefMethods, debit : BOOLEAN,
             bill : Bills \cup {Nil}, key : Reference \cup {Nil}, step : {"create", "otp", "poll"},
             status : {"pending", "requires_otp", "requires_action", "succeeded", "failed"},
             code : {"none", "REFERENCE_ALREADY_USED", "SITEF", "SITEF_330", "BANK", "NOT_FOUND", "NO_RESPONSE", "NO_CONFIRMATION",
                     "DEBIT_NO_REFERENCE", "AUTH_FAILED", "CCR_NO_ORDER", "CCR_REJECTED"},
             body : Body, polls : 0..MaxPolls, otps : 0..MaxOtps,
             row : SUBSET Fields, attempts : SUBSET Fields, lost : BOOLEAN, shown : BOOLEAN]

NewExchange == [pc |-> "new", method |-> "c2p", debit |-> FALSE, bill |-> Nil, key |-> Nil, step |-> "create",
                status |-> "pending", code |-> "none", body |-> Bare, polls |-> 0, otps |-> 0,
                row |-> {}, attempts |-> {}, lost |-> FALSE, shown |-> FALSE]

Charged(x) == \E m \in Movements : movement[m].payer = x
KeyTaken(x, key) == key # Nil /\ \E y \in Exchanges \ {x} : exchange[y].status = "succeeded" /\ exchange[y].key = key

Ask(x, e, fields) ==
  /\ exchange' = [exchange EXCEPT ![x] = [e EXCEPT !.pc = "sent", !.attempts = @ \cup MaskRequest(fields)]]
  /\ UNCHANGED movement

(* The row is stored, unless its reference has paid another invoice, and the bank asked. *)
BeginExchange(x, method, debit, bill, typed) ==
  /\ exchange[x].pc = "new"
  /\ debit => method = "card"
  /\ (typed # Nil) <=> (method \in TypedMethods)
  /\ LET key == IF typed = Nil THEN Nil ELSE NormalizeReference(typed)
     IN  /\ \A y \in Exchanges : KeyTaken(x, key) /\ exchange[y].key = key => exchange[y].bill = bill
         /\ Ask(x, [NewExchange EXCEPT !.method = method, !.debit = debit, !.bill = bill, !.key = key,
                                        !.row = SanitizeMethodDataForStorage(method, DataOf(method))], DataOf(method))

(* The code, and whatever data the browser sends along with it. *)
EnterOtp(x, extra) ==
  LET e == exchange[x]
  IN  /\ e.pc = "rest" /\ e.status = "requires_otp" /\ e.otps < MaxOtps
      /\ e.method \in CodeMethods /\ RequireFields(e.method, e.row \cup extra)
      /\ Ask(x, [e EXCEPT !.step = "otp", !.otps = @ + 1], e.row \cup extra)

(* There is no query for Credicard: the answer is `pending`. *)
PollStatus(x) ==
  LET e == exchange[x]
  IN  /\ e.pc = "rest" /\ e.status = "requires_action" /\ e.polls > 0
      /\ IF e.method = "card_ccr"
         THEN exchange' = [exchange EXCEPT ![x].polls = @ - 1] /\ UNCHANGED movement
         ELSE Ask(x, [e EXCEPT !.step = "poll", !.polls = @ - 1], {})

-----------------------------------------------------------------------------
(* The bank *)

AnswerWith(x, body) == exchange' = [exchange EXCEPT ![x].pc = "answered", ![x].body = body]

(* A transfer or a pago movil, to nobody's invoice; nobody can tell when it was made, but *)
(* the bank when it is asked for a reference, so it is made once somebody typed its own.    *)
CustomerPays(m, kind, short) ==
  /\ movement[m] = NoMovement /\ kind \in TypedMethods
  /\ \E x \in Exchanges : exchange[x].method \in TypedMethods /\ exchange[x].key.of = m
  /\ movement' = [movement EXCEPT ![m].kind = kind, ![m].short = short]
  /\ UNCHANGED exchange

DebitBy(x, m) ==
  /\ movement[m] = NoMovement
  /\ movement' = [movement EXCEPT ![m].kind = "debit", ![m].bill = exchange[x].bill, ![m].payer = x]

(* The bank answers with a reference in all its digits. *)
AllDigits(m) == [of |-> m, form |-> IF movement[m].short THEN "short" ELSE "full"]

Confirmations(e, m) ==
  LET blocks == CASE e.method = "c2p"      -> {Saying("c2p", "approved"), Saying("debit", "nothing")}
                  [] e.method = "card"     -> {Saying("tx", "approved")}
                  [] e.method = "card_ccr" -> {Saying("receipt", "approved")}
  IN  {[b EXCEPT !.notice = n, !.ref = r] : b \in blocks, n \in {"none", "blank"},
                                          r \in {Nil, AllDigits(m)}}

BankCharges(x, m) ==
  LET e == exchange[x]
  IN  /\ e.pc = "sent"
      /\ e.step = "otp" \/ (e.step = "create" /\ (e.method = "c2p" \/ (e.method = "card" /\ ~e.debit)))
      /\ DebitBy(x, m)
      /\ \E body \in Confirmations(e, m) : AnswerWith(x, body)

(* A code for the customer, or a page of the bank's. *)
BankInvites(x) ==
  LET e == exchange[x]
  IN  /\ e.pc = "sent" /\ e.step = "create"
      /\ \E body \in CASE e.method = "c2p" -> {Saying("c2p", "otp"), Saying("keyInfo", "approved")}
                       [] e.method = "card" /\ e.debit -> {Saying("auth", "approved")}
                       [] e.method = "card_ccr" -> {Saying("order", "otp"), Saying("order", "ready")}
                       [] e.method = "web_button" -> {Saying("url", "nothing")}
                       [] OTHER -> {} : AnswerWith(x, body)
      /\ UNCHANGED movement

(* A refusal moves nothing; what was charged before may be called a duplicate, or not *)
(* be found.                                                                            *)
BankRefuses(x) ==
  LET e == exchange[x]
  IN  /\ e.pc = "sent"
      /\ \E body \in Refusing \cup {Bare, [Bare EXCEPT !.http = 400]}
            \cup (IF e.method = "c2p" THEN {Saying("c2p", "rejected"), Saying("keyInfo", "rejected")} ELSE {})
            \cup (IF e.step = "otp" /\ e.method = "c2p" THEN {Saying("keyInfo", "approved")} ELSE {})
            \cup (IF e.method = "card" THEN {Saying("tx", "rejected")} ELSE {})
            \cup (IF Charged(x) THEN {[b EXCEPT !.notice = "duplicate"] : b \in {Saying("c2p", "approved")}} ELSE {}) :
            AnswerWith(x, body)
      /\ UNCHANGED movement

ListOf(m) == [Saying("list", "nothing") EXCEPT !.ref = AllDigits(m)]

(* The movement whose digits these are is shown; a pago movil is bound to the first *)
(* invoice that asks for it.                                                          *)
BankVerifies(x) ==
  LET e == exchange[x]
      m == e.key.of
  IN  /\ e.pc = "sent" /\ e.method \in TypedMethods /\ movement[m].kind = e.method
      /\ (e.key.form = "short") <=> movement[m].short
      /\ IF e.method = "transfer"
         THEN /\ \E n \in {"none", "blank", "duplicate"} : AnswerWith(x, [ListOf(m) EXCEPT !.notice = n])
              /\ UNCHANGED movement
         ELSE IF movement[m].bill \in {Nil, e.bill}
         THEN /\ \E b \in {Nil, e.bill} : AnswerWith(x, [ListOf(m) EXCEPT !.bill = b])
              /\ movement' = [movement EXCEPT ![m].bill = e.bill]
         ELSE /\ \E says \in {<<"none", movement[m].bill>>, <<"duplicate", movement[m].bill>>, <<"duplicate", Nil>>} :
                   AnswerWith(x, [ListOf(m) EXCEPT !.notice = says[1], !.bill = says[2]])
              /\ UNCHANGED movement

BankShowsPage(x) ==
  /\ exchange[x].pc = "sent" /\ exchange[x].step = "poll"
  /\ \E m \in Movements : /\ movement[m].payer = x
                          /\ \E b \in {Nil, exchange[x].bill} : AnswerWith(x, [ListOf(m) EXCEPT !.bill = b])
  /\ UNCHANGED movement

(* The customer pays on the bank's page, which stays open whatever a query was answered. *)
PayOnPage(x, m) ==
  /\ exchange[x].status = "requires_action" \/ (exchange[x].status = "failed" /\ exchange[x].step = "poll")
  /\ ~Charged(x) /\ DebitBy(x, m)
  /\ UNCHANGED exchange

-----------------------------------------------------------------------------
(* A 4xx that carries a reason is an answer like any other. *)
HasSitefReason(body) == body.notice # "none"

(* applyGatewayResult, or the poll's own; the index refuses a reference that has paid. *)
Deliver(x) ==
  LET e == exchange[x]
      o == Mapped(e, OrderOf(x))
      key == IF e.key = Nil THEN o.ref ELSE e.key
      refused == o.status = "succeeded" /\ KeyTaken(x, key)
  IN  /\ e.pc = "answered"
      /\ e.body.http = 200 \/ HasSitefReason(e.body)
      /\ exchange' = [exchange EXCEPT ![x] =
            [e EXCEPT !.pc = "rest", !.body = Bare,
                      !.status = IF refused THEN "failed" ELSE IF o.status = "pending" THEN @ ELSE o.status,
                      !.code = IF refused THEN "REFERENCE_ALREADY_USED" ELSE o.code,
                      !.key = IF o.status = "succeeded" THEN key ELSE @,
                      !.polls = IF e.step = "create" /\ o.status = "requires_action" THEN MaxPolls ELSE @,
                      !.shown = @ \/ (e.step = "poll" /\ e.body.block = "list")]]
      /\ UNCHANGED movement

(* A timeout, a 5xx, a 4xx that says nothing: the row stays as it was. *)
LoseAnswer(x) ==
  /\ exchange[x].pc \in {"sent", "answered"}
  /\ exchange' = [exchange EXCEPT ![x].pc = "rest", ![x].body = Bare,
                                        ![x].lost = @ \/ exchange[x].step # "poll"]
  /\ UNCHANGED movement

SitefInit ==
  /\ exchange = [x \in Exchanges |-> NewExchange]
  /\ movement = [m \in Movements |-> NoMovement]

Calls(x) ==
  \/ \E method \in SitefMethods, debit \in BOOLEAN, bill \in Bills, typed \in MovementReference \cup {Nil} :
       BeginExchange(x, method, debit, bill, typed)
  \/ \E extra \in {{}, {"cardNumber", "cvv"}} : EnterOtp(x, extra)
  \/ PollStatus(x) \/ Deliver(x) \/ LoseAnswer(x)

Bank(x) ==
  \/ \E m \in Movements : BankCharges(x, m) \/ PayOnPage(x, m)
  \/ BankInvites(x) \/ BankRefuses(x) \/ BankVerifies(x) \/ BankShowsPage(x)

SitefNext ==
  \/ \E x \in Exchanges : Calls(x) \/ Bank(x)
  \/ \E m \in Movements, kind \in TypedMethods, short \in BOOLEAN : CustomerPays(m, kind, short)

SitefSpec == SitefInit /\ [][SitefNext]_sitefVars

-----------------------------------------------------------------------------
(* Properties *)

SitefTypeOK == exchange \in [Exchanges -> Exchange] /\ movement \in [Movements -> Movement]

(* A payment is credited only for money the bank moved for it: debited for the     *)
(* payment itself, or shown under its reference, and for a pago movil not bound    *)
(* to another invoice, whatever blocks and notices the body puts side by side.      *)
CreditedWasMoved ==
  \A x \in Exchanges : exchange[x].status = "succeeded" =>
    \/ Charged(x)
    \/ /\ exchange[x].method \in TypedMethods
       /\ LET m == movement[exchange[x].key.of]
          IN  m.kind = exchange[x].method /\ (m.kind = "pago_movil" => m.bill = exchange[x].bill)

(* A movement credits one invoice, however many of its digits are typed or answered. *)
OneMovementOneBill ==
  \A x, y \in Exchanges :
    /\ exchange[x].status = "succeeded" /\ exchange[y].status = "succeeded"
    /\ exchange[x].bill # exchange[y].bill /\ {exchange[x].key, exchange[y].key} \subseteq MovementReference
    => exchange[x].key.of # exchange[y].key.of

(* Every credit is backed by money, and by money of its own. *)
CreditsAreBacked == CreditedWasMoved /\ OneMovementOneBill

(* Money debited for a payment is credited once its calls have answered.  It escapes in  *)
(* four ways and no other: the answer to the request that debited it was lost; Mercantil's  *)
(* debit has no reference; no query has shown a page that was paid (of Credicard's nothing  *)
(* can be asked); a query of the page was answered with an error.  A query that is lost, or  *)
(* finds nothing, takes no credit away.                                                        *)
NoChargeIsMissed ==
  \A x \in Exchanges : LET e == exchange[x] IN
    Charged(x) /\ e.pc = "rest" =>
      \/ e.status = "succeeded"
      \/ e.lost
      \/ e.code = "DEBIT_NO_REFERENCE"
      \/ e.status = "requires_action" /\ ~e.shown
      \/ e.status = "failed" /\ e.step = "poll" /\ ~e.shown /\ e.code \in {"SITEF", "SITEF_330", "REFERENCE_ALREADY_USED"}

(* What a query does not find may still appear (mapPollResult, sitef.adapter.ts:939): no  *)
(* payment has its money debited and is failed as not found.                                *)
NotFoundMayAppear ==
  \A x \in Exchanges : LET e == exchange[x] IN
    Charged(x) /\ e.step = "poll" /\ e.status = "failed" => e.code # "SITEF_330"

(* Whatever body arrives, the status is one PaymentsService knows for that method. *)
AnswersAreForeseen ==
  \A x \in Exchanges : LET e == exchange[x] IN
    e.pc = "answered" => Mapped(e, OrderOf(x)).status \in CASE e.step = "create" -> CreateAnswers(e.method)
                                              [] e.step = "otp"    -> OtpAnswers(e.method)
                                              [] OTHER             -> StatusAnswers(e.method)

(* The number of a card and its code are in no row, neither of payments nor of attempts. *)
CardIsNotKept == \A x \in Exchanges : {"cardNumber", "cvv"} \cap (exchange[x].row \cup exchange[x].attempts) = {}
=============================================================================
