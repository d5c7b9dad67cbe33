# A TLA+ model of cli-payments-backend

The repository is a NestJS service on Postgres and Redis (BullMQ): it issues invoices for the
applications of a company, collects them through the Sitef gateway or by hand, keeps the
subscriptions those invoices renew, and tells the applications what happened through an outbox
of signed webhooks. It runs on several replicas. What is hard in it is not any one function but the
awaits between them: a handler reads a row, awaits the bank, Redis or another transaction, and
writes back what it read.

This directory models that code in TLA+, checks it with TLC on small instances, and proves the
properties that matter most with TLAPS for every value of the constants.

| module | what it is |
|---|---|
| `Payments` | `PaymentsService`, its polling worker, `markPaid` of invoices and the statuses the gateway may answer |
| `InvoiceSettlement` | abstract: what settling an invoice promises the invoice's owner |
| `SitefAnswers` | the statuses each method of the adapter may answer, shared by `Payments` and `SitefExchange` |
| `SitefExchange` | the adapter's mapping of the bank's answers, beside an honest bank |
| `SitefFields` | what the adapter makes of the fields a payer types |
| `Routing` | merchant terminals, and the credentials and tokens of the calls to Sitef |
| `Invoices` | drafting and issuing invoices, and the counter their numbers come from |
| `Checkout` | the amounts, exchange rate and link of an invoice, to the amount the bank is asked for |
| `Subscriptions` | the lifecycle, the service's transactions and the expiry and downgrade crons |
| `BillingCalendar` | the dates of the periods, on the Gregorian calendar |
| `Reminders` | the reminder cron, its delivery keys and the handler that mails |
| `OutboxDelivery` | the outbox: append, fanout, queue, processor, sweeper, replay |
| `AtLeastOnce` | abstract: what the outbox promises a receiver |
| `CronLeader` | the advisory lock under the crons |
| `FxRates` | refreshing the rates over the sources, by that cron and by administrators |
| `Accounts` | users, sessions and mailed links |
| `Registry` | customers, products, applications, API keys, webhook endpoints, receiving accounts |
| `Sums` | sums of a column, for `Checkout` and `BillingCalendar` |
| `SumsProofs` | induction on the naturals, and what sums do |
| `PaymentsProofs`, `OutboxProofs`, `FxRatesProofs` | the theorems about `Payments`, `OutboxDelivery`, `FxRates` with `CronLeader` |
| `InvoicesProofs` | the theorems about `Invoices` and `Checkout` |
| `BillingProofs` | the theorems about `Subscriptions`, `Reminders`, `BillingCalendar`, and the run that composes them with the two above |
| `IntegrationsProofs` | the theorems about `Routing`, `SitefExchange`, `SitefFields`, and the run that composes them with `FxRates` |
| `BackOfficeProofs` | the theorems about `Accounts` and `Registry`, and the run that composes them |
| `MC*` | small instances: symmetry sets, lengths of billing cycles, and the composed runs of section 3 (`MCLedger` is `MCBilling` with payments) |

## 1. Inventory

State, operations, what is hard, what makes it correct. `PROJECT.json` lists the same components
with their files, and the hazards with their lines.

**payments**. State: rows of `payment` (invoice, idempotency key, method, status, bank reference,
failure), one unique index on the key and a partial one on the reference of succeeded rows;
delayed jobs of the polling queue. Operations: `createForInvoice` and `verifyForInvoice`, `submitOtp`,
`pollOnce` (job), `grantManually`, `schedulePolling`. Calls the gateway, `InvoicesService.markPaid`,
`SubscriptionsService.onRenewalPaid` and `OutboxService.append`, each in a transaction of its own, so any
two handlers of one payment or invoice interleave, and a process may die between any two. Correct when
an invoice is paid by one payment, its subscription advances once, a reference pays one invoice, no
charge is repeated without a reason, and what is announced has happened.

**gateways/sitef** and **merchant-terminals**. State: terminals with their credentials and methods, a
cache of tokens. Operations: create, update, activate a terminal; resolve it for a method; create a
payment, submit an OTP, query. Hard: the bank speaks several dialects, refuses with status 200, may
time out after it has charged; routing is checked before the write. Correct when nothing but a movement of
money becomes `succeeded`, money moved is not missed, and calls keep to their terminal.

**invoices**, **counters**, **checkout tokens**, **money**. State: invoice rows (draft, open, paid), a counter row
by year. Operations: draft, `issue` (check, rate, number, token, update), payment links, `markPaid`.
Hard: `issue` checks the status long before it writes; the year's first number has no row to lock; three
roundings between a price and the bank. Correct when numbers are unique, a paid invoice stays
paid, and the amounts shown, stored and charged agree.

**subscriptions** and their crons. State: the subscription row, and the delivery keys in the outbox.
Operations: create, renew, `onRenewalPaid`, change or schedule a plan, cancel, pause, resume, extend or
end a trial, resend a webhook; daily crons that list rows and then move each. The transition is a
pure function applied under a row lock. Hard: the status a transition meets is rarely the one its
caller saw. Correct when nobody has access unpaid, periods follow each other and keep the billing day, a lapse
ends, what is billed is granted, and no event is lost to a reused key.

**outbox**. State: events and deliveries, the dispatch queue. Operations: `append` (in the caller's
transaction), fanout, `dispatchMany`, processor, sweeper, replay. Hard: at least once, over two stores
that share no transaction, with several workers and no claim on the row. Correct when nothing owed is
stranded, `delivered` means accepted, and the schedule is honoured.

**cron leader** and **fx-rates**. State: an advisory lock per cron; a rate per currency, source and day.
Hard: the lock lives as long as a connection the task does not look at; the upsert finds and then saves.
Correct when a cron has one leader, a fallback is used when the sources before it failed, and the rate in
force does not go back.

**auth**, **session**, **users**. State: users, sessions, mailed links. Hard: handlers save the whole user they
read, its password hash included. Correct when a rotated token is spent, an old password opens nothing, and the stored
password is the one chosen.

**customers, products, applications, API keys, webhook endpoints, receiving accounts**. State: rows under unique keys.
Hard: find, then insert; load, then save whole. Correct when keys are unique, no edit is lost, and what was
revoked or deleted stays so.

**crypto, mail, webhook signature**: pure functions and output. **files, banks, roles, statuses, i18n, config,
auth-google, auth-apple**: registration data and external parties. Not modelled, see section 6.

## 2. How the models correspond to the code

Grain: a step is what the database, Redis or the third party makes atomic: one statement, one
transaction, one request. Everything a handler read and uses later is kept in its own variable.

**Payments.** `call[w]` is the handler that worker `w` runs, `pc` the await it is at, and `row` the entity in its
memory. `SavePayment` writes that entity whole: TypeORM's `save` makes the row equal to the entity the
handler read, however the row has moved since. The unique indexes are `KeyTaken` and `ReferenceTaken`; the
violation of the second is the `reject` step, where the code records `REFERENCE_ALREADY_USED`. `Credit` is the
conditional update of `markPaid` with `invoice.paid` in one transaction; the winner goes on to
`AdvanceSubscription`, which may fail and is then only logged, and the loser only announces. A request
that throws ends the handler (`GatewayFails`). One application is modelled: the partial index is by
application, and nothing joins two. `credits`, `creditRef`, `advances`, `charges` and `reasons` are history variables.
`charges` counts every request that may move money for a key: the one of `createPayment` and each of `submitOtp`, which checks the status and
never claims the row. `reasons` counts what may explain one more of them: the gateway asked for an OTP, an answer was lost with its request or its process, a
submission was already asking.
Attempts (an audit log) and the canceled status, which no code assigns, are left out.

**SitefExchange.** `exchange[x]` is a payment and the call it is in, `movement[m]` what the bank knows of a movement of money.
A body is the block it carries (list, key info, order, receipt, page), what that block says, and the notice that may come along; the `Map*`
operators are the adapter's functions of the same names. The bank is external and honest: it says what it did, its lists
show movements of the kind asked for, found by the digits sent, and a 4xx is a refusal; its answer may be lost, and a movement it does not find may
appear later, whether it said so in an empty list or with error 330. A reference is a movement and how much of it is kept: all of it, its last eight digits, or fewer than
eight as they were typed; a debit keeps what its receipt says, or the number of the order. The operators also
say what is stored of a card (`SanitizeMethodDataForStorage`, `MaskRequest`).
`SitefFields` takes a value as a sequence of characters: what was meant, one of the forms it may be typed in, and what is sent.

**Routing.** `change[x]` is an administrator's call between its check and its write, `payment[p]` the gateway calls of a payment:
resolve the terminal, read its row, its password, a cached or a new token, send. `contended` and `reactivated` record
applications whose changes overlapped, or a terminal of which was activated again, which nothing checks.

**Invoices, Checkout.** A request holds the counter's row lock from its read to its commit, or inserts the year's first
row and may collide on its key. `OpenInvoice` overwrites the invoice by its id, as the code does, whatever its
status is by then. `Checkout` follows the money instead: prices as typed in thousandths, amounts in cents, rates in ten-thousandths, `HalfUp`
where the code rounds; the token with its expiry; the row a payment copies and the amount it asks for.

**Subscriptions, BillingCalendar, Reminders.** One subscription, its clock in ticks. The `Apply*` operators are the pure lifecycle, which answers an error or the next row and its
keys; `RunLifecycleTransition` is the transaction around it. A key already in the outbox is silently dropped, which
`dropped` records. `listed` is the list a cron made before it works through it, so that its
transition meets whatever the row has become; `bills` are the unpaid invoices and what they were billed for.
`Uncalled` names the operations no controller or cron reaches today. `BillingCalendar` gives periods their dates
by JavaScript's rule for months that overflow; `Reminders` has two replicas whose cron may run on
one day, and an outbox that may deliver again.

**OutboxDelivery.** `delivery[d]` is the row, `ready[d]` its jobs in the queue (at most `MaxJobs`, further ones being the
same to a worker), `delayed` the retries handed over with a delay, `unsent` what a committed transaction still has
to hand over, `swept` what the sweeper read. Time is abstracted to whether a row's `nextAttemptAt` is past and a delayed
job's delay is over. A worker that was found slow is set back to pending while it goes on (`SlowWorker`). The
sweep takes every due row, the code the first hundred.

**CronLeader, FxRates.** A tick tries the lock on a connection of the pool, works, unlocks; a connection may drop
or a replica crash at any point, and Postgres then frees the lock while the task goes on. `FxRates` is one
cron over it, and administrators' refreshes that take no lock. A refresh asks the sources in turn,
and any exception, the database's included, moves it on to the next, as in `fetchWithFallback`.

**Accounts, Registry.** Handlers advance from await to await. `MergeRow` and `SaveUser` are the load and the save of the
user repository, which writes the columns that are defined. bcrypt is an injective function; a hash taken for a password and hashed
again is `Garbled`. A refresh token is a session and a hash. `Registry` has one table of rows for the five kinds,
with two plain columns and the `mode` of applications; a call finds, inserts, loads, saves whole or updates single columns as its repository does.
A request names some columns, null included: what a handler makes of a null, and the `live` that `UpdateApplicationDto` inherits for a mode it was not given
(`create-application.dto.ts:22`), are in `UpdateApplication`; `said` keeps what was asked, so that the two can be compared. An administrator's PATCH cannot null an address: `lowerCaseTransformer` makes
it undefined before the service sees it.
`contended` and `clashed` record users and rows two requests worked on at once.

## 3. Runs

| run | modules | properties | states |
|---|---|---|---|
| `PaymentsRace` | `Payments` | typed; announced only when paid; no charge repeated without a reason; refines `InvoiceSettlement` | 6.7 M |
| `Liveness` | `Payments`, `Subscriptions` | a settled payment is credited and announced; poll chains end; lapses are acted on (fair) | 0.1 M |
| `WorkEnds` | `Invoices`, `OutboxDelivery` | requests to issue end though one dies; two replicas, one crashing, strand no delivery (fair); delivered means accepted | 0.5 M |
| `Billing` | `Subscriptions`, `BillingCalendar`, `Reminders`, `Invoices`, `Checkout`, `OutboxDelivery`, `Payments` (typed references) | see below | 2.0 M |
| `BackOffice` | `Accounts`, `Registry` | see below | 1.6 M |
| `Integrations` | `Routing`, `FxRates`, `SitefExchange`, `SitefFields` | see below | 2.8 M |
| `PaymentsStaleOtp` | `Payments` | **violated**, see findings | |
| `SubscriptionsLateExpiry` | `Subscriptions` | **violated**, see findings | |
| `SubscriptionsCanceling` | `Subscriptions` | **violated**, see findings | |
| `SubscriptionsSchedule` | `Subscriptions` | **violated**, see findings | |
| `InvoicesReissue` | `Invoices` | **violated**, see findings | |
| `SitefNotFound` | `SitefExchange` | **violated**, see findings | |

`Billing`, `BackOffice`, `Integrations`, `Liveness` and `WorkEnds` put several modules in one run: in each behaviour one of them moves while the
others rest in their initial states. These modules share no variables, so nothing is lost and their states add up
instead of multiplying. Where components do interact they are one module: `Payments` has the invoice, the subscription's advance
and the outbox in it, `FxRates` the leader, `Routing` the token cache and the gateway's calls.

What the composed runs show:

- `Billing`: good standing was paid for and is clean; no delivery key is used twice; periods are contiguous, a paid invoice grants what it
  bills, canceled is final (`GoodStanding`, `NothingDeduplicated`, `PeriodsAreContiguous`, `BilledIsGranted`, `CanceledIsFinal`). Each period is one cycle long and
  the billing day is kept while months allow (`PeriodsKeepTheCalendar`). One reminder a day and none swallowed
  (`RemindersAreExact`). No two invoices share a number. Totals are within rounding of the lines, and the bank is asked
  for the rate's amount (`BillsAreRight`). The outbox gives up only after the schedule, its duplicates are paid for by faults or
  replays (`TriesAreCounted`), and it refines `AtLeastOnce`. Where payers type the reference
  of money already sent, one reference credits one invoice and a terminal payment never changes (`ReferenceCreditsOneInvoice`, `TerminalIsFinal`).
- `BackOffice`: spent refresh tokens stay spent, the stored password is the one chosen, an old one opens nothing, no two
  accounts share an address and no two rows a key, edits stay, and what is deleted or revoked stays so. The passwords
  and the edits are claimed of users and rows no two requests worked on at once: the code protects no others. Two things given do not stay even then, and
  `Holds` names them: a null on a customer or an application, and the mode of an application, which an update that does not repeat it turns live.
- `Integrations`: routing is deterministic where administrators did not overlap and reactivated nothing; a payment's calls keep their terminal and a
  token of its user; one leader at a time; a fallback's rate means the sources before it did not answer; rates move forward. A credit is
  backed by a movement of its own (`CreditsAreBacked`), money debited is credited unless it escapes in one of four ways that `NoChargeIsMissed` lists, the adapter
  answers nothing `Payments` does not foresee (`AnswersAreForeseen`), and a field is sent as meant or refused (`MeantIsSent`).

Every property of a passing run has in `PROJECT.json` a mutant of the code that breaks it; the mutated
operators stand in the modules before the definition they replace, marked `Mutation`.
Deadlock is not checked: clients stop asking, bounds are reached and clocks have a horizon.

### Bounds

*Payments.* Every race the code can lose is between two handlers of one payment, key, reference or invoice, plus a
job: two handlers, one poller and two payments cover the pairs, two invoices where a property is about two
(`Billing`). `MaxCharges` is how many charges of a key a submission may still add to: a first, a second with a reason and one more. Methods are chosen by the shape of their protocol: `c2p` (OTP), `web_button`
(polled), `transfer` and `zelle` (typed reference). One poll slot in the race, two in the liveness run, so that a chain is
continued and ended. *Sitef.* Two payments, two movements, two invoices: a movement claimed twice; two queries, the first of which may be lost or find nothing; two codes.
*Routing.* Two administrators, two terminals, two methods, three changes. *Rates.* Two ticks and an
administrator, two sources, two days, one dropped connection, one database failure. *Accounts.* Two users, addresses, passwords,
sessions and requests, five calls: sign-up, login and a race after them. *Registry.* Two rows, two calls at a time, three writes; a value, a null or nothing for each column.
*Outbox.* One retry: first attempt, retry and give-up all happen; one worker with two jobs of a delivery for a double
dispatch (`Billing`), two workers for an overlap (`WorkEnds`, where a job waits while another runs). *Subscriptions.* A month of one tick and a year of two make a change of cycle visible; three ticks
fit two periods, a lapse and a grace; two open invoices, two products. *Calendar.* Thirteen periods from every day of a common and a leap year.
*Reminders.* Periods of four days over a week, two replicas, a renewal, a repeated delivery. *Invoices.* Three requests
over two drafts: two race on one while a third queues. *Checkout.* Carts with prices finer than a cent, two rates, an invoice issued
twice, a token that expires.

### Fairness

*Payments*: a handler that started runs on (node does not stop a promise), the gateway answers or its
timeout fires, and the queue hands out its delayed jobs. Nobody is obliged to pay or to submit an OTP. `MaxFaults` is 0 in `Liveness`: a
process that dies after the settled row committed leaves the invoice unpaid and no job repeats the rest, so with faults
the property is false of the code. *Invoices*: weak fairness of a request's steps, and strong fairness of taking the
row lock, Postgres queueing waiters in order. *Subscriptions*: the crons and the clock; payments and requests are free. In `Liveness`
the clock is fair as long as payments rest (`WF_LiveVars(SubAlone /\ Tick)`). *Outbox*: workers, queue,
clock and sweeper; appending and replaying are free. Liveness runs use no symmetry.

## 4. Findings

Each quotes, in `PROJECT.json`, the line of the repository it disagrees with.

- `PaymentsStaleOtp`: of two submissions of one OTP, the one answered *failed* last overwrites the
  settled row, whose reference leaves the partial index and can pay another invoice.
- `SubscriptionsLateExpiry`: a subscription renewed between the cron's list and its transition is
  moved to past_due in the period just paid: the transition does not look at the period's end.
- `SubscriptionsCanceling`: the cron lists active subscriptions only, so a cancellation at the
  period's end never takes effect.
- `SubscriptionsSchedule`: a product scheduled for the period's end is in force at once.
- `InvoicesReissue`: of two requests that issue one draft, the second reopens an invoice paid meanwhile.
- `SitefNotFound`: a page's query that answers *not found* as error 330 fails the payment, though a movement not found may still
  appear; the payer then pays a payment that nothing asks about any more.

Reading the code for the models showed other places where it does less than it seems to. No run is kept for
them; the models behave as the code does.

- *Payments.* Two submissions of an OTP at once are two charges, and so is one after a lost answer: `submitOtp` does not claim the row (`payments.service.ts:192`). A payment whose `onRenewalPaid` failed cannot be granted again (`payments.service.ts:519`), and a process that dies
  between `save` and `markPaid` is not resumed. A transfer whose gateway request throws stays pending, with no poll (318). A second
  payment of the same invoice with the same reference is refused as used for *another* invoice (456).
- *Sitef.* `getStatus` is asked only for payments that require an action, so the queries of C2P and of Mercantil's debit are never
  reached (`sitef.adapter.ts:869`); a CCR order that is ready to pay has no further step (80). An OTP answer that
  is lost, or Mercantil's debit without a reference, may leave money moved and no credit. A phone typed with a digit missing is completed to another number's form (1033), and a
  four-digit month is accepted (1111).
- *Checkout.* Without a rate of the day the euro figure is sent as bolivars (`payments.service.ts:597`). A dollar invoice adds up unit prices in euros. A
  price finer than a cent may round to 0.00, and such an invoice can never be paid. An invoice whose token expired can
  neither be paid by its link nor issued again, and the rate called immutable is overwritten by a second issue.
- *Subscriptions.* An immediate change of product within one cycle compares the product with itself and is refused. Two renewals
  of one period are two invoices, and paying both advances two periods. The second resend of a period appends nothing
  (`subscriptions.service.ts:371`). A billing day after the 28th moves once to the first days of a month and stays there.
- *Reminders.* A subscription renewed or canceled after the list is reminded all the same; a day without a run loses its reminders.
- *Outbox.* Two workers may send one delivery at once, and a second job ignores `nextAttemptAt`; a replay that read its row too
  early resets a delivered one (`outbox.controller.ts:102`).
- *Crons, rates.* A run that lost its connection goes on beside the next leader, and a late replica runs a finished cron again. The loser of
  a double insert asks the fallback. A fallback dated today hides the primary's rate dated earlier.
- *Terminals.* `setActive` checks no conflict; a cached token survives a change of password.
- *Accounts.* Two requests that save one user at once may hash the hash or bring back the old password; `save` brings back a deleted row. A login between
  the two halves of `resetPassword` keeps a session of the old password; a password set by an administrator revokes nothing; inactive users may log in.
- *Registry.* The first upserts of one customer, at once, end in a unique violation; two updates of a row saved whole lose one's edit. A PATCH that only
  renames a test application turns it live (`create-application.dto.ts:22`, `applications.service.ts:35`), and a null never clears its `websiteUrl` or `contactEmail` (36).

## 5. Proofs

Every invariant and every safety property of an action that a passing run checks, and both refinements, are theorems. They are
proved from the named assumptions on the constants alone; no set is assumed finite but where
an operator counts it. Some state a further hypothesis, which their statements carry, on the behaviour: that at no time two workers
hold one delivery's row (`[]Apart`), two calls one payment's (`[]OneOwner`), two requests to issue one invoice (`[]OnePerInvoice`), between
the read of the row and its write. Nothing in the code sees to it, and without it each is false: the findings `PaymentsStaleOtp` and `InvoicesReissue`
are of two writers of one row, and two replicas may send one delivery. The theorems say that this is all that can
go wrong there: a lock or a claim on the row would restore the property for any number of replicas, calls and requests. Where the
hypothesis holds of the code it is a theorem too: one dispatch worker (`OneWorker`) is apart, and the methods that settle by a typed
reference (`TypedMethodsOnly`) have one owner. The passing runs that check these properties are of such instances.

**PaymentsProofs**: `TypeCorrect`, `Invariance`, `OnePaymentPays`, `OneAdvance`, `AnnouncesPaidInvoices`, `RepeatedChargesHaveReasons`,
`SettlementImplemented`. That one payment pays relates the invoice to the payments that were credited and to the
outbox, and is not inductive: the step that would break it belongs to a handler that saved the payment long
ago. `IInv` says what every await may rely on: rows that exist stay and keep their invoice and key (`RowsExist`, `JobsHoldRows`,
`CallsHoldRows`, `CallsKeepIdentity`); at most one call is about to advance an invoice's subscription (`OneAdvancer`); a call about
to announce success has a paid invoice (`AnnouncersPaid`). `ChargeInv` is about the charges: a key is held by one row (`OneRowPerKey`), a charged key by some row (`ChargedKeysTaken`), which is why the
unique index suffices whatever the lookup saw, and the charges of a row, with the one a payment that waits for its OTP may still make (`OtpDue`), are within the reasons counted (`ChargesAccounted`). `CallStep` covers the steps that only move one call, `PaymentStep` those
that write the table. The refinement maps a step that credits to the abstract `Pay`, one that advances to `Renew`, one
that announces to `Announce`, and every other one to a stutter.
`OwnedReferencesCreditOnce` and `OwnedTerminalIsFinal` are about every method: as long as a row has one owner, a call about to save holds a
row that has not settled (`CallsOwned`), so nobody writes a settled row again, it stays in the partial index, and the
reference that paid an invoice is still on the row that paid it (`CreditsKeepReference`). `TypedReferencesCreditOnce` and
`TypedTerminalIsFinal` follow for transfers, pago movil and Zelle, whose pending payment belongs to the one call
that inserted it (`CallsTyped`). Two submissions of one OTP have no such owner: that is the finding `PaymentsStaleOtp`.

**InvoicesProofs**: `TypeCorrect`, `NumbersGivenOnce`, `NumbersNeverShared`. The invariant adds what a request carries past its
transaction (`Carried`: the lock while it increments, then a number below the counter that is nobody else's) and
that every invoice's number came from the counter (`Issued`). `PaidStaysPaidApart`: where no two requests issue one invoice at once, what a
request read as a draft is still one when it opens it (`StillDraft`).
`CheckoutTypes`, `BillsAreRightAlways`, for carts of any length: the total is within half a cent a line of the exact price (`SumIsNear`, an
induction over the lines), and what a request of `issue` or of a payment carries between its awaits was computed from the bill, whose
total no step changes once it is drafted (`IssuerFits`, `PayerFits`).

**BillingProofs**: `SubTypeCorrect`, `GoodStandingHolds`, `KeysAreNew`, `PeriodsFollow`, `CanceledForGood`, `GrantsWhatIsBilled`. Every operation commits
an outcome of a lifecycle function; an outcome is `Sound` when its row is well formed, its period continues the last one and
its keys are new. One lemma says so of each lifecycle function, one that sound outcomes preserve `SubInv`. The heart of it is `Tells`: what a key in the
outbox says of the row (a `renewed` key's date is not after the row's start, a `past_due` key's not after its end, and so on), which is
why the next transition's keys are not among them.
`RemindersTypes`, `RemindedExactly`: a run appends on the day it listed (`RunsAreOfToday`), so that an event and its delivery key name the same
reminder (`ToldByKey`), and each mail is one event's or a repeated delivery's (`MailsAreCounted`).
`PeriodsAreKept`: from any day of 1970 or later, not from two years of days only. A day's number is a sum over years and months; a month overflows by
at most three days, and only from the 29th on. `BillingTypes` is the type invariant of the composed run, whose
specification implies those of its six parts (`BillingIsSix`).

**OutboxProofs**: `OutboxInvariance`, `OutboxTypeCorrect`, `DeliveredMeansAccepted`, for any number of workers, faults and replays: a worker that is not idle holds
a delivery it has counted an attempt of, and is about to mark delivered only what its receiver took (`WorkersHold`).
`ApartKeepsThePromise`: workers that never hold one row at once implement `AtLeastOnce`, for any number of them, of deliveries, faults and replays;
`OneWorkerKeepsThePromise` is the case of one.
The invariant adds that whatever is queued or to be handed over is a row that exists, and that a busy worker's row has not ended
(`RowsReach`); the last part is where a second replica breaks the refinement, by ending the row under the first.
`ApartCountsEveryTry`, and `EveryTryIsCounted` for one worker: of each delivery `Counted` keeps an account of the calls its receiver took (one, the faults and the replays, one less while
the row does not say so yet) and of the attempts on the row (no more than the calls and the faults, plus the one under way).

**FxRatesProofs**: `OneLeader`, `CronImplementsLeader` (the rates' specification implements `CronLeader`'s), `OneRefreshingCron`,
`FxTypeCorrect`, `FallbacksAreFallbacks`, `RatesGoForward`. The lock follows the connections: each run has a connection of its own, and
as long as that is not lost it is the lock's owner, which nobody else is (`LeaderInv`). A refresh knows which sources it has
asked and which of them gave no answer; only an overlapping refresh can make the database refuse a rate.

**IntegrationsProofs**: `RouteInvariance`, `RouteTypeCorrect`, `RoutingDetermined`, `CallsStayOnTheirTerminal`. What was checked before an await still holds after it
where nobody else works on the application (`StillChecked`, `OneAdmin`); a payment past its resolution holds a terminal that each resolution would still give
(`PaymentFits`); the cache holds a user's own token (`CacheFits`).
`SitefTypes`, `CreditsHaveTheirMoney`, `ChargesAreCredited`, `EveryAnswerIsForeseen`, `NoCardIsKept`, for any number of payments, movements and invoices. Neither
property about money is inductive: between the bank's answer and the row lies the mapping of the body. The invariant says of a body on its way
what the adapter will make of it: a success it will be mapped to is backed, and by the payer's own money (`AnswerFits`), a charge is about to be
credited, may yet be shown by a query, or is in one of the ways it may escape (`ChargeFits`), and no two credits have one key (`KeysDiffer`). One lemma
for each of the bank's replies says what each `Map*` operator makes of it.
`MeantIsAsked`, for values of any digits in every form: what is kept of two values one after the other is what is kept of each (`KeptOfBoth`, by induction), so a separator
anywhere is as if it were not there; the length of what is left tells the forms apart.
`IntegrationsTypes` is the type invariant of the composed run (`IntegrationsAreFour`).

**BackOfficeProofs**: of the registry `RegInvariance`, `RegTypeCorrect`, `KeysStayUnique`, `NoEditIsLost`, `RevokedForGood`, `RemovedForGood`. What a call is about to write holds what
it was given (`UpsertHolds`, `ApplicationHolds`), on a row nobody else is at (`EntriesFit`, `OneCaller`), or its row is recorded as clashed; a removed row is blank
and finds no update.
Of the accounts `AccInvariance`, `AccTypeCorrect`, `AddressesStayUnique`, `RotatedIsSpent`, `ChosenIsStored`, `OldPasswordsAreClosed`, `DeletedForGood`.
Whatever overlaps, a call holds a user that exists and a session of that user (`CallFits`). Where nothing overlaps (`OneCall`) the hash it
read is still the stored one, the user it is about to save or to open a session for is not deleted, and whoever is about to
change a password has left no session but its own (`QuietFits`); that last part spans five awaits, from the revocation to the save.
A hash is spent only after a larger one was drawn (`SessionsFit`).
`OfficeTypes` and `GoneForGood` are about both (`OfficeIsBoth`).

**SumsProofs**: the induction that sums, calendars and fields rest on. The library states induction for a predicate given as an operator, which the
provers cannot instantiate; `FromZeroUp` states it for a *set* of numbers, and follows from the well-foundedness of `<` (`WFMin`, `NatLessThanWellFounded`). A recursive function
is then shown to exist and to be unique before anything is said of its values. `SumUpTo` and `Kept` are recursive functions, not folds of the
community modules, for that reason.

Only model-checked: the liveness properties of `Liveness` and `WorkEnds` (liveness under fairness is out of the prover's reach), and the
findings, which are counterexamples.

## 6. Not modelled

The PDF of an invoice, mails, crypto, signatures and file uploads are output or pure functions of libraries. Migrations, seeds, modules and
configuration are wiring; the unique indexes they create are in the models of their tables. Identity providers answer with an identity,
which is an input of `SocialLogin`. Lists and details read state and change none. The audit logs (`payment_attempt`, subscription events) are written
and read only to be shown. Photo, role and names of users, and columns of the registry without a rule, are left out. In the outbox, the batch of a hundred rows.
In Sitef, bank codes, dates and the wording of errors; `toBankCode` takes a number with trailing text.

What could be added: what several replicas still promise a receiver beyond `DeliveredWasAccepted` and `Settles`; in `TriesAreCounted` the
bound for several workers would have to count the sweeps as well.
