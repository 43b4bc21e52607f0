------------------------------ MODULE UsagePeriod ------------------------------
(***************************************************************************)
(* The billing period a use of the platform is counted in                  *)
(* (getBillingPeriodStart of packages/db/src/usage.ts), day by day.        *)
(* Day 1 is the first of January; every year is a common one.  JavaScript's *)
(* Date carries a day past the end of its month into the next one.         *)
(***************************************************************************)
EXTENDS Integers

CONSTANTS
    Anchors,  \* days of the month a billing cycle is anchored to
    LastDay   \* bound: the day the walk ends

ASSUME PeriodConstantsOK == Anchors \subseteq 1 .. 31 /\ LastDay \in Nat

VARIABLES anchorDay, today

periodVars == <<anchorDay, today>>

YearDays == 365

\* Days of a year before its month m; the 13th is the next January.
DaysBefore == <<0, 31, 59, 90, 120, 151, 181, 212, 243, 273, 304, 334, YearDays>>

\* new Date(year, month, day), months counted on through the years.
DateOf(n, d) == ((n - 1) \div 12) * YearDays + DaysBefore[((n - 1) % 12) + 1] + d

\* getMonth, getDate
MonthOf(t) ==
    LET day == (t - 1) % YearDays
    IN  12 * ((t - 1) \div YearDays)
            + CHOOSE m \in 1 .. 12 : DaysBefore[m] <= day /\ day < DaysBefore[m + 1]
DayOf(t) == t - DateOf(MonthOf(t), 1) + 1

PeriodInit == anchorDay \in Anchors /\ today = 1

\* Mutant: the period always starts in this month.
MutPeriodStart(anchor, now) == DateOf(MonthOf(now), anchor)

\* setMonth keeps the day of the month of the date it is called on.
getBillingPeriodStart(anchor, now) ==
    LET start == DateOf(MonthOf(now), anchor)
    IN  IF now < start THEN DateOf(MonthOf(start) - 1, DayOf(start)) ELSE start

NextDay == today < LastDay /\ today' = today + 1 /\ UNCHANGED anchorDay

PeriodSpec == PeriodInit /\ [][NextDay]_periodVars

-----------------------------------------------------------------------------
(* A use is counted in the cycle it falls in: the period starts on an      *)
(* anchor day that has come, and the next one has not.  Months that are    *)
(* shorter than the anchor (29 to 31) have no such day.                    *)
CountedInItsCycle ==
    anchorDay <= 28 =>
        \E n \in MonthOf(today) - 1 .. MonthOf(today) :
            /\ getBillingPeriodStart(anchorDay, today) = DateOf(n, anchorDay)
            /\ DateOf(n, anchorDay) <= today /\ today < DateOf(n + 1, anchorDay)
================================================================================
