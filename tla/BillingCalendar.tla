--------------------------- MODULE BillingCalendar ---------------------------
(***************************************************************************)
(* The dates of a subscription's periods: computePeriodEnd on the Gregorian  *)
(* calendar, with what setUTCMonth and setUTCFullYear do at a month's end.     *)
(* (Module Subscriptions counts periods in ticks.)                               *)
(*                                                                                *)
(* One subscription, created on any day of some years and paid period after         *)
(* period, in a cycle chosen each time.                                              *)
(***************************************************************************)
EXTENDS Sums

CONSTANTS
  FirstYears,  \* years a subscription may be created in
  MaxPeriods,  \* bound: periods
  NoPeriod

ASSUME CalendarAssumption == FirstYears \subseteq 1970..9999 /\ MaxPeriods \in Nat

VARIABLES
  period,   \* the current period: [from, to, cycle]
  created,  \* history: the day of the month the subscription was created on
  periods   \* history: periods so far

calendarVars == <<period, created, periods>>

-----------------------------------------------------------------------------
IsLeap(y) == y % 4 = 0 /\ (y % 100 # 0 \/ y % 400 = 0)

DaysIn(y, mo) ==
  CASE mo = 2             -> IF IsLeap(y) THEN 29 ELSE 28
    [] mo \in {4, 6, 9, 11} -> 30
    [] OTHER              -> 31

DaysOfYear(y) == IF IsLeap(y) THEN 366 ELSE 365

(* The date d days into a month that may be past December, d too many included. *)
Normalise(y, mo, d) ==
  LET year  == IF mo > 12 THEN y + 1 ELSE y
      month == IF mo > 12 THEN mo - 12 ELSE mo
      over  == d - DaysIn(year, month)
  IN  CASE over <= 0 -> [y |-> year, mo |-> month, d |-> d]
        [] over > 0 /\ month < 12 -> [y |-> year, mo |-> month + 1, d |-> over]
        [] over > 0 /\ month = 12 -> [y |-> year + 1, mo |-> 1, d |-> over]

(* Mutation: a month is thirty days. *)
AddThirtyDays(date, cycle) ==
  IF cycle = "annual" THEN Normalise(date.y + 1, date.mo, date.d)
  ELSE Normalise(date.y, date.mo, date.d + 30)

AddCycle(date, cycle) ==
  IF cycle = "annual" THEN Normalise(date.y + 1, date.mo, date.d)
  ELSE Normalise(date.y, date.mo + 1, date.d)

-----------------------------------------------------------------------------
BillingCycles == {"monthly", "annual"}

(* create: a period from the day of the request. *)
StartPeriod(date, cycle) ==
  /\ period = NoPeriod
  /\ period' = [from |-> date, to |-> AddCycle(date, cycle), cycle |-> cycle]
  /\ created' = date.d /\ periods' = 1

(* applyPaid, after the first payment: from the end of the last one. *)
NextPeriod(cycle) ==
  /\ period # NoPeriod /\ periods < MaxPeriods
  /\ period' = [from |-> period.to, to |-> AddCycle(period.to, cycle), cycle |-> cycle]
  /\ periods' = periods + 1
  /\ UNCHANGED created

CalendarInit == period = NoPeriod /\ created = 0 /\ periods = 0

CalendarNext ==
  \E cycle \in BillingCycles :
    \/ NextPeriod(cycle)
    \/ \E y \in FirstYears, mo \in 1..12 : \E d \in 1..DaysIn(y, mo) :
         StartPeriod([y |-> y, mo |-> mo, d |-> d], cycle)

CalendarSpec == CalendarInit /\ [][CalendarNext]_calendarVars

-----------------------------------------------------------------------------
(* Properties *)

(* A day's number, from the first of January of 1970: the reference the months *)
(* and years above are measured with.                                           *)
DayNumber(date) ==
  SumUpTo([k \in Nat |-> DaysOfYear(1969 + k)], date.y - 1970)
    + SumUpTo([mo \in 1..12 |-> DaysIn(date.y, mo)], date.mo - 1) + date.d

IsDate(date) == date.mo \in 1..12 /\ date.d \in 1..DaysIn(date.y, date.mo)

(* A period paid is a whole one: 28 to 31 days for a month, as many as the month  *)
(* it starts in has, 365 or 366 for a year, across Februaries and Decembers.       *)
PeriodsAreWhole ==
  period # NoPeriod =>
    /\ IsDate(period.from) /\ IsDate(period.to)
    /\ LET length == DayNumber(period.to) - DayNumber(period.from)
       IN  IF period.cycle = "monthly" THEN length = DaysIn(period.from.y, period.from.mo)
           ELSE length \in {365, 366}

(* "Mantiene dia-del-mes cuando aplica" (subscription-lifecycle.ts:525): a          *)
(* subscription bills on the day it was created, whatever months and years it is      *)
(* paid for; one created after the 28th may move, once, to the first days of a month.  *)
BillingDayIsKept ==
  period # NoPeriod =>
    \A date \in {period.from, period.to} : date.d = created \/ (created > 28 /\ date.d <= 3)

(* Both, of every period. *)
PeriodsKeepTheCalendar == PeriodsAreWhole /\ BillingDayIsKept
=============================================================================
