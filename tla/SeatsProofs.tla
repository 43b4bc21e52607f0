------------------------------ MODULE SeatsProofs ------------------------------
(***************************************************************************)
(* Proofs about Seats, for every number of apps and of calls under way and *)
(* for every set of plans: what bounds the active apps is that a call      *)
(* which passed the gate is one of the calls under way until it writes, so *)
(* active apps and such calls are counted together.  And about UsagePeriod, *)
(* for every anchor day and every day: arithmetic of months.               *)
(***************************************************************************)
EXTENDS Seats, UsagePeriod, FiniteSetTheorems, TLAPS

\* A call that has read the plan holds a limit the tenant had, and only one
\* that activates does; a call under way is about an app.
PatchOK ==
    \A p \in Patches :
        /\ patch[p].limit <= granted
        /\ patch[p].at \in {"tenant", "count"} => patch[p].to = "active"
        /\ patch[p].at # "idle" => patch[p].app \in Apps

\* The calls that passed the gate and have not written yet.
Cleared == {p \in Patches : patch[p].at = "write" /\ patch[p].to = "active"}

SeatsInv ==
    /\ SeatsTypeOK /\ PatchOK
    /\ Cardinality(Active) + Cardinality(Cleared) <= granted + Cardinality(Patches) - 1

-----------------------------------------------------------------------------
\* Apps, plan and calls keep their types; the plan is at most the highest one
\* the tenant had (updateAppHandler of tenants.ts).
THEOREM SeatsTypeCorrect == SeatsSpec => []SeatsTypeOK
<1>1. SeatsInit => SeatsTypeOK
  BY SeatsAssumption DEF SeatsConstantsOK, SeatsInit, SeatsTypeOK, NoPatch
<1>2. SeatsTypeOK /\ [SeatsNext]_seatsVars => SeatsTypeOK'
  <2> SUFFICES ASSUME SeatsTypeOK, [SeatsNext]_seatsVars PROVE SeatsTypeOK'
    OBVIOUS
  <2> USE DEF SeatsTypeOK
  <2>1. CASE \E a \in Apps : createApp(a) \/ hardDeleteApp(a)
    BY <2>1 DEF createApp, hardDeleteApp
  <2>2. CASE \E n \in Limits : ChangePlan(n)
    BY SeatsAssumption, <2>2 DEF ChangePlan, SeatsConstantsOK
  <2>3. ASSUME NEW p \in Patches, PatchStep(p) PROVE SeatsTypeOK'
    <3>1. CASE \E a \in Apps, to \in {"active", "inactive", "deleted"} : BeginPatch(p, a, to)
      BY <3>1 DEF BeginPatch, NoPatch
    <3>2. CASE ReadPlan(p)
      BY <3>2 DEF ReadPlan
    <3>3. CASE canActivateApp(p)
      BY <3>3 DEF canActivateApp, NoPatch
    <3>4. CASE updateAppStatus(p) \/ PatchFails(p)
      <4>1. \A a \in Apps : appStatus'[a] \in {"none", "draft", "active", "inactive", "deleted"}
        BY <3>4 DEF updateAppStatus, PatchFails
      <4>2. appStatus' \in [Apps -> {"none", "draft", "active", "inactive", "deleted"}]
        BY <3>4, <4>1 DEF updateAppStatus, PatchFails
      <4>3. patch' = [patch EXCEPT ![p] = NoPatch] /\ UNCHANGED <<maxApps, granted>>
        BY <3>4 DEF updateAppStatus, PatchFails
      <4>4. QED
        BY <4>2, <4>3 DEF NoPatch
    <3>5. QED
      BY <2>3, <3>1, <3>2, <3>3, <3>4 DEF PatchStep
  <2>4. CASE UNCHANGED seatsVars
    BY <2>4 DEF seatsVars
  <2>5. QED
    BY <2>1, <2>2, <2>3, <2>4 DEF SeatsNext
<1>3. QED
  BY <1>1, <1>2, PTL DEF SeatsSpec

-----------------------------------------------------------------------------
(* The two sets that are counted, and how a step changes them.             *)

LEMMA Counted ==
    /\ IsFiniteSet(Active) /\ Cardinality(Active) \in Nat
    /\ IsFiniteSet(Cleared) /\ Cardinality(Cleared) \in Nat
    /\ Cardinality(Cleared) <= Cardinality(Patches)
    /\ Cardinality(Patches) \in Nat /\ Cardinality(Patches) >= 1
<1>1. Active \in SUBSET Apps /\ Cleared \in SUBSET Patches
  BY DEF Active, Cleared
<1>2. IsFiniteSet(Apps) /\ IsFiniteSet(Patches) /\ Patches # {}
  BY SeatsAssumption DEF SeatsConstantsOK
<1>3. Cardinality(Patches) \in Nat /\ Cardinality(Patches) # 0
  BY <1>2, FS_EmptySet, FS_CardinalityType
<1>4. QED
  BY <1>1, <1>2, <1>3, FS_Subset, FS_CardinalityType

LEMMA LimitsRead ==
    ASSUME SeatsTypeOK
    PROVE  granted \in Nat /\ \A p \in Patches : patch[p].limit \in Nat
<1>1. Limits \subseteq Nat /\ Limits \cup {0} \subseteq Nat
  BY SeatsAssumption DEF SeatsConstantsOK
<1>2. granted \in Limits /\ \A p \in Patches : patch[p].limit \in Limits \cup {0}
  BY DEF SeatsTypeOK
<1>3. QED
  BY <1>1, <1>2

\* Neither set grows: the invariant stays.
LEMMA NothingAdded ==
    ASSUME SeatsInv, Active' \subseteq Active, Cleared' \subseteq Cleared,
           granted' \in Nat, granted <= granted'
    PROVE  Cardinality(Active') + Cardinality(Cleared') <= granted' + Cardinality(Patches) - 1
<1>1. /\ Cardinality(Active') \in Nat /\ Cardinality(Active') <= Cardinality(Active)
      /\ Cardinality(Cleared') \in Nat /\ Cardinality(Cleared') <= Cardinality(Cleared)
  BY Counted, FS_Subset, FS_CardinalityType
<1>2. granted \in Nat
  BY SeatsAssumption DEF SeatsInv, SeatsTypeOK, SeatsConstantsOK
<1>3. QED
  BY <1>1, <1>2, Counted DEF SeatsInv

LEMMA PatchOKStep ==
    ASSUME SeatsTypeOK, PatchOK, [SeatsNext]_seatsVars
    PROVE  PatchOK' /\ granted' \in Nat /\ granted <= granted'
<1> USE SeatsAssumption DEF SeatsTypeOK, SeatsConstantsOK, PatchOK
<1>1. CASE \E a \in Apps : createApp(a) \/ hardDeleteApp(a)
  BY <1>1 DEF createApp, hardDeleteApp
<1>2. CASE \E n \in Limits : ChangePlan(n)
  <2>1. PICK n \in Limits : granted' = (IF n > granted THEN n ELSE granted) /\ patch' = patch
    BY <1>2 DEF ChangePlan
  <2>2. n \in Nat /\ granted \in Nat /\ \A p \in Patches : patch[p].limit \in Nat
    BY LimitsRead
  <2>3. granted' \in Nat /\ granted <= granted'
    BY <2>1, <2>2
  <2>4. \A p \in Patches : patch[p].limit <= granted'
    BY <2>2, <2>3
  <2>5. QED
    BY <2>1, <2>3, <2>4
<1>3. ASSUME NEW p \in Patches, PatchStep(p)
      PROVE  PatchOK' /\ granted' \in Nat /\ granted <= granted'
  <2>1. CASE \E a \in Apps, to \in {"active", "inactive", "deleted"} : BeginPatch(p, a, to)
    BY <2>1 DEF BeginPatch
  <2>2. CASE ReadPlan(p)
    BY <2>2 DEF ReadPlan
  <2>3. CASE canActivateApp(p)
    BY <2>3 DEF canActivateApp, NoPatch
  <2>4. CASE updateAppStatus(p) \/ PatchFails(p)
    BY <2>4 DEF updateAppStatus, PatchFails, NoPatch
  <2>5. QED
    BY <1>3, <2>1, <2>2, <2>3, <2>4 DEF PatchStep
<1>4. CASE UNCHANGED seatsVars
  BY <1>4 DEF seatsVars
<1>5. QED
  BY <1>1, <1>2, <1>3, <1>4 DEF SeatsNext

\* A call passes the gate: a seat was free, and this call is not among those
\* that passed before.
LEMMA GateStep ==
    ASSUME SeatsInv, NEW p \in Patches, canActivateApp(p)
    PROVE  Cardinality(Active') + Cardinality(Cleared') <= granted' + Cardinality(Patches) - 1
<1>1. Active' = Active /\ granted' = granted /\ granted \in Nat
  BY SeatsAssumption DEF canActivateApp, Active, SeatsInv, SeatsTypeOK, SeatsConstantsOK
<1>2. CASE HasSeat(patch[p].limit)
  <2>1. Cleared' = Cleared \cup {p} /\ p \notin Cleared
    BY <1>2 DEF canActivateApp, Cleared, SeatsInv, SeatsTypeOK, PatchOK
  <2>2. Cleared \cup {p} \in SUBSET Patches
    BY DEF Cleared
  <2>3. Cardinality(Cleared') \in Nat /\ Cardinality(Cleared') <= Cardinality(Patches)
    BY SeatsAssumption, <2>1, <2>2, FS_Subset, FS_CardinalityType DEF SeatsConstantsOK
  <2>4. patch[p].limit \in Nat /\ patch[p].limit <= granted
    BY LimitsRead DEF SeatsInv, PatchOK
  <2>5. Cardinality(Active) < granted
    BY <1>1, <1>2, <2>4, Counted DEF HasSeat
  <2>6. QED
    BY <1>1, <2>3, <2>5, Counted
<1>3. CASE ~HasSeat(patch[p].limit)
  <2>1. Cleared' \subseteq Cleared
    BY <1>3 DEF canActivateApp, Cleared, SeatsInv, SeatsTypeOK, NoPatch
  <2>2. QED
    BY <1>1, <2>1, NothingAdded
<1>4. QED
  BY <1>2, <1>3

\* A call writes: it activates at most one app and is no longer counted.
LEMMA WriteStep ==
    ASSUME SeatsInv, NEW p \in Patches, updateAppStatus(p)
    PROVE  Cardinality(Active') + Cardinality(Cleared') <= granted' + Cardinality(Patches) - 1
<1>1. granted' = granted /\ granted \in Nat
  BY SeatsAssumption DEF updateAppStatus, SeatsInv, SeatsTypeOK, SeatsConstantsOK
<1>2. Cleared' = Cleared \ {p}
  BY DEF updateAppStatus, Cleared, SeatsInv, SeatsTypeOK, NoPatch
<1>3. CASE patch[p].to = "active"
  <2>1. p \in Cleared
    BY <1>3 DEF updateAppStatus, Cleared
  <2>2. Cardinality(Cleared') = Cardinality(Cleared) - 1
    BY <1>2, <2>1, Counted, FS_RemoveElement
  <2>3. Active' \subseteq Active \cup {patch[p].app}
    BY DEF updateAppStatus, Active, SeatsInv, SeatsTypeOK
  <2>4. /\ IsFiniteSet(Active \cup {patch[p].app})
        /\ Cardinality(Active \cup {patch[p].app}) \in Nat
        /\ Cardinality(Active \cup {patch[p].app}) <= Cardinality(Active) + 1
    <3>1. IsFiniteSet(Active)
      BY Counted
    <3>2. /\ IsFiniteSet(Active \cup {patch[p].app})
          /\ \/ Cardinality(Active \cup {patch[p].app}) = Cardinality(Active)
             \/ Cardinality(Active \cup {patch[p].app}) = Cardinality(Active) + 1
      BY <3>1, FS_AddElement, Zenon
    <3>3. QED
      BY <3>2, Counted
  <2>5. Cardinality(Active') \in Nat /\ Cardinality(Active') <= Cardinality(Active) + 1
    BY <2>3, <2>4, Counted, FS_Subset, FS_CardinalityType
  <2>6. QED
    BY <1>1, <2>2, <2>5, Counted DEF SeatsInv
<1>4. CASE patch[p].to # "active"
  <2>1. Active' \subseteq Active
    BY <1>4 DEF updateAppStatus, Active, SeatsInv, SeatsTypeOK
  <2>2. QED
    BY <1>1, <1>2, <2>1, NothingAdded
<1>5. QED
  BY <1>3, <1>4

LEMMA SeatsInvStep ==
    ASSUME SeatsInv, SeatsTypeOK', [SeatsNext]_seatsVars
    PROVE  SeatsInv'
<1>1. PatchOK' /\ granted' \in Nat /\ granted <= granted'
  BY PatchOKStep DEF SeatsInv
<1>2. SUFFICES
        Cardinality(Active') + Cardinality(Cleared') <= granted' + Cardinality(Patches) - 1
  BY <1>1 DEF SeatsInv, Active, Cleared
<1> USE DEF SeatsInv, SeatsTypeOK, Active, Cleared
<1>3. CASE \E a \in Apps : createApp(a) \/ hardDeleteApp(a)
  <2>1. Active' \subseteq Active /\ Cleared' \subseteq Cleared
    BY <1>3 DEF createApp, hardDeleteApp
  <2>2. QED
    BY <1>1, <2>1, NothingAdded
<1>4. CASE \E n \in Limits : ChangePlan(n)
  <2>1. Active' \subseteq Active /\ Cleared' \subseteq Cleared
    BY <1>4 DEF ChangePlan
  <2>2. QED
    BY <1>1, <2>1, NothingAdded
<1>5. ASSUME NEW p \in Patches, PatchStep(p), ~canActivateApp(p), ~updateAppStatus(p)
      PROVE  Cardinality(Active') + Cardinality(Cleared') <= granted' + Cardinality(Patches) - 1
  <2>1. Active' = Active
    BY <1>5 DEF PatchStep, BeginPatch, ReadPlan, PatchFails
  <2>2. Cleared' \subseteq Cleared
    BY <1>5 DEF PatchStep, BeginPatch, ReadPlan, PatchFails, NoPatch
  <2>3. QED
    BY <1>1, <2>1, <2>2, NothingAdded
<1>6. CASE UNCHANGED seatsVars
  <2>1. Active' = Active /\ Cleared' = Cleared
    BY <1>6 DEF seatsVars
  <2>2. QED
    BY <1>1, <2>1, NothingAdded
<1>7. QED
  BY <1>3, <1>4, <1>5, <1>6, GateStep, WriteStep DEF SeatsNext

\* The active apps exceed the seats ever granted by at most the calls under
\* way minus one, for any number of apps, calls and plans (tenants.ts).
THEOREM SeatsOvershootBounded == SeatsSpec => []SeatsOvershoot
<1>1. SeatsInit => SeatsInv
  <2> SUFFICES ASSUME SeatsInit PROVE SeatsInv
    OBVIOUS
  <2>1. SeatsTypeOK /\ PatchOK
    BY SeatsAssumption DEF SeatsConstantsOK, SeatsInit, SeatsTypeOK, PatchOK, NoPatch
  <2>2. Active = {} /\ Cleared = {}
    BY DEF SeatsInit, Active, Cleared, NoPatch
  <2>3. Cardinality(Active) = 0 /\ Cardinality(Cleared) = 0
    BY <2>2, FS_EmptySet
  <2>4. granted \in Nat
    BY SeatsAssumption, <2>1 DEF SeatsTypeOK, SeatsConstantsOK
  <2>5. QED
    BY <2>1, <2>3, <2>4, Counted DEF SeatsInv
<1>2. SeatsInv /\ SeatsTypeOK' /\ [SeatsNext]_seatsVars => SeatsInv'
  BY SeatsInvStep
<1>3. SeatsInv => SeatsOvershoot
  <2> SUFFICES ASSUME SeatsInv PROVE SeatsOvershoot
    OBVIOUS
  <2>1. granted \in Nat
    BY SeatsAssumption DEF SeatsInv, SeatsTypeOK, SeatsConstantsOK
  <2>2. QED
    BY <2>1, Counted DEF SeatsInv, SeatsOvershoot
<1>4. SeatsSpec => []SeatsTypeOK
  BY SeatsTypeCorrect
<1>5. QED
  BY <1>1, <1>2, <1>3, <1>4, PTL DEF SeatsSpec

-----------------------------------------------------------------------------
(* UsagePeriod: days and months.                                           *)

USE DEF YearDays

\* Where the months of a year begin.
LEMMA Calendar ==
    ASSUME NEW m \in 1 .. 12
    PROVE  /\ DaysBefore[m] \in Int /\ DaysBefore[m + 1] \in Int
           /\ 0 <= DaysBefore[m] /\ DaysBefore[m] + 28 <= DaysBefore[m + 1]
           /\ DaysBefore[m + 1] <= YearDays
BY DEF DaysBefore

LEMMA YearEnds == DaysBefore[1] = 0 /\ DaysBefore[13] = YearDays
BY DEF DaysBefore

\* A month counted on through the years is a month of a year.
LEMMA MonthInYear ==
    ASSUME NEW y \in Int, NEW m \in 1 .. 12, NEW d \in Int
    PROVE  /\ DateOf(12 * y + m, d) = y * YearDays + DaysBefore[m] + d
           /\ DateOf(12 * y + m + 1, d) = y * YearDays + DaysBefore[m + 1] + d
<1>1. (12 * y + m - 1) \div 12 = y /\ (12 * y + m - 1) % 12 = m - 1
  OBVIOUS
<1>2. DateOf(12 * y + m, d) = y * YearDays + DaysBefore[m] + d
  BY <1>1 DEF DateOf
<1>3. CASE m < 12
  <2>1. (12 * y + m + 1 - 1) \div 12 = y /\ (12 * y + m + 1 - 1) % 12 = m
    BY <1>3
  <2>2. QED
    BY <1>2, <2>1 DEF DateOf
<1>4. CASE m = 12
  <2>1. (12 * y + m + 1 - 1) \div 12 = y + 1 /\ (12 * y + m + 1 - 1) % 12 = 0
    BY <1>4
  <2>2. DateOf(12 * y + m + 1, d) = (y + 1) * YearDays + DaysBefore[0 + 1] + d
    BY <2>1 DEF DateOf
  <2>3. DaysBefore[0 + 1] = 0 /\ DaysBefore[m + 1] = YearDays
    BY <1>4, YearEnds
  <2>4. QED
    BY <1>2, <2>2, <2>3
<1>5. QED
  BY <1>3, <1>4

\* Every month n is month m of some year y.
LEMMA MonthSplit ==
    ASSUME NEW n \in Int
    PROVE  \E y \in Int : \E m \in 1 .. 12 : n = 12 * y + m
<1>1. (n - 1) \div 12 \in Int /\ (n - 1) % 12 \in 0 .. 11
  OBVIOUS
<1>2. n = 12 * ((n - 1) \div 12) + (((n - 1) % 12) + 1)
  OBVIOUS
<1>3. ((n - 1) % 12) + 1 \in 1 .. 12
  BY <1>1
<1>4. QED
  BY <1>1, <1>2, <1>3

\* Months follow each other, none shorter than 28 days.
LEMMA MonthLength ==
    ASSUME NEW n \in Int, NEW d \in Int
    PROVE  /\ DateOf(n, d) \in Int /\ DateOf(n, d) = DateOf(n, 1) + d - 1
           /\ DateOf(n, d) + 28 <= DateOf(n + 1, d)
<1>1. PICK y \in Int, m \in 1 .. 12 : n = 12 * y + m
  BY MonthSplit
<1>2. y * YearDays \in Int
  BY Calendar
<1>3. DaysBefore[m] \in Int /\ DaysBefore[m + 1] \in Int /\ DaysBefore[m] + 28 <= DaysBefore[m + 1]
  BY Calendar
<1>4. /\ DateOf(n, d) = y * YearDays + DaysBefore[m] + d
      /\ DateOf(n, 1) = y * YearDays + DaysBefore[m] + 1
      /\ DateOf(n + 1, d) = y * YearDays + DaysBefore[m + 1] + d
  BY <1>1, MonthInYear
<1>5. QED
  BY <1>2, <1>3, <1>4

\* getMonth finds the month a day is in, and it is the only one.
LEMMA MonthOfDay ==
    ASSUME NEW t \in Int
    PROVE  /\ MonthOf(t) \in Int
           /\ DateOf(MonthOf(t), 1) <= t /\ t < DateOf(MonthOf(t) + 1, 1)
           /\ \A n \in Int : DateOf(n, 1) <= t /\ t < DateOf(n + 1, 1) => n = MonthOf(t)
<1> DEFINE y == (t - 1) \div YearDays
           day == (t - 1) % YearDays
           IsMonth(m) == DaysBefore[m] <= day /\ day < DaysBefore[m + 1]
           found == CHOOSE m \in 1 .. 12 : IsMonth(m)
<1>1. y \in Int /\ day \in 0 .. 364 /\ t - 1 = YearDays * y + day
  OBVIOUS
<1>2. \E m \in 1 .. 12 : IsMonth(m)
  BY <1>1 DEF DaysBefore
<1>3. found \in 1 .. 12 /\ IsMonth(found)
  BY <1>2
<1>4. MonthOf(t) = 12 * y + found
  BY DEF MonthOf
<1>5. \A m, k \in 1 .. 12 : IsMonth(m) /\ IsMonth(k) => m = k
  BY <1>1 DEF DaysBefore
<1> HIDE DEF y, day, found
<1>6. /\ DateOf(MonthOf(t), 1) = YearDays * y + DaysBefore[found] + 1
      /\ DateOf(MonthOf(t) + 1, 1) = YearDays * y + DaysBefore[found + 1] + 1
  BY <1>1, <1>3, <1>4, MonthInYear
<1>7. MonthOf(t) \in Int
  BY <1>1, <1>3, <1>4
<1>8. DateOf(MonthOf(t), 1) <= t /\ t < DateOf(MonthOf(t) + 1, 1)
  <2>1. DaysBefore[found] \in Int /\ DaysBefore[found + 1] \in Int
    BY <1>3, Calendar
  <2>2. QED
    BY <1>1, <1>3, <1>6, <2>1
<1>9. ASSUME NEW n \in Int, DateOf(n, 1) <= t, t < DateOf(n + 1, 1) PROVE n = MonthOf(t)
  <2>1. PICK z \in Int, m \in 1 .. 12 : n = 12 * z + m
    BY MonthSplit
  <2>2. DateOf(n, 1) = YearDays * z + DaysBefore[m] + 1 /\ DateOf(n + 1, 1) = YearDays * z + DaysBefore[m + 1] + 1
    BY <2>1, MonthInYear
  <2>3. /\ DaysBefore[m] \in Int /\ DaysBefore[m + 1] \in Int
        /\ 0 <= DaysBefore[m] /\ DaysBefore[m + 1] <= YearDays
    BY Calendar
  <2>4. z = y
    BY <1>1, <1>9, <2>2, <2>3
  <2>5. IsMonth(m)
    <3>1. DaysBefore[m] <= day
      BY <1>1, <1>9, <2>2, <2>3, <2>4
    <3>2. day < DaysBefore[m + 1]
      BY <1>1, <1>9, <2>2, <2>3, <2>4
    <3>3. QED
      BY <3>1, <3>2
  <2>6. QED
    BY <1>3, <1>4, <1>5, <2>1, <2>4, <2>5
<1>10. QED
  BY <1>7, <1>8, <1>9

\* The walk through the days stays in numbers.
PeriodTypeOK == anchorDay \in Anchors /\ today \in Int

\* Every use is counted in the billing cycle it falls in, for every anchor day that
\* every month has and every day: going back a month from this month's anchor
\* day (setMonth) lands on the anchor day of the month before.
THEOREM PeriodCounted == PeriodSpec => []CountedInItsCycle
<1>1. PeriodInit => PeriodTypeOK
  BY DEF PeriodInit, PeriodTypeOK
<1>2. PeriodTypeOK /\ [NextDay]_periodVars => PeriodTypeOK'
  BY DEF PeriodTypeOK, NextDay, periodVars
<1>3. PeriodTypeOK => CountedInItsCycle
  <2> SUFFICES ASSUME PeriodTypeOK, anchorDay <= 28
               PROVE  \E n \in MonthOf(today) - 1 .. MonthOf(today) :
                        /\ getBillingPeriodStart(anchorDay, today) = DateOf(n, anchorDay)
                        /\ DateOf(n, anchorDay) <= today /\ today < DateOf(n + 1, anchorDay)
    BY DEF CountedInItsCycle
  <2> DEFINE month == MonthOf(today)
             start == DateOf(month, anchorDay)
  <2>1. anchorDay \in 1 .. 28 /\ anchorDay \in Int /\ today \in Int
    BY PeriodConstantsOK DEF PeriodTypeOK
  <2>2. month \in Int /\ DateOf(month, 1) <= today /\ today < DateOf(month + 1, 1)
    BY <2>1, MonthOfDay
  <2>3. /\ DateOf(month, 1) \in Int /\ DateOf(month + 1, 1) \in Int
        /\ start = DateOf(month, 1) + anchorDay - 1
        /\ DateOf(month + 1, anchorDay) = DateOf(month + 1, 1) + anchorDay - 1
        /\ DateOf(month, 1) + 28 <= DateOf(month + 1, 1)
    <3>1. month + 1 \in Int
      BY <2>2
    <3>2. DateOf(month, 1) \in Int /\ DateOf(month, 1) + 28 <= DateOf(month + 1, 1)
      BY <2>2, MonthLength
    <3>3. start = DateOf(month, 1) + anchorDay - 1
      BY <2>1, <2>2, MonthLength
    <3>4. DateOf(month + 1, 1) \in Int /\ DateOf(month + 1, anchorDay) = DateOf(month + 1, 1) + anchorDay - 1
      BY <2>1, <3>1, MonthLength
    <3>5. QED
      BY <3>2, <3>3, <3>4
  <2>4. /\ DateOf(month - 1, 1) \in Int
        /\ DateOf(month - 1, anchorDay) = DateOf(month - 1, 1) + anchorDay - 1
        /\ DateOf(month - 1, 1) + 28 <= DateOf(month, 1)
    <3>1. month - 1 \in Int /\ month - 1 + 1 = month
      BY <2>2
    <3>2. DateOf(month - 1, 1) \in Int /\ DateOf(month - 1, 1) + 28 <= DateOf(month - 1 + 1, 1)
      BY <3>1, MonthLength
    <3>3. DateOf(month - 1, anchorDay) = DateOf(month - 1, 1) + anchorDay - 1
      BY <2>1, <3>1, MonthLength
    <3>4. QED
      BY <3>1, <3>2, <3>3
  <2>5. month - 1 + 1 = month
    BY <2>2
  <2>6. CASE today < start
    <3>1. start \in Int /\ DateOf(month, 1) <= start /\ start < DateOf(month + 1, 1)
      BY <2>1, <2>3
    <3>2. MonthOf(start) = month
      BY <2>2, <3>1, MonthOfDay
    <3>3. DayOf(start) = anchorDay
      BY <2>1, <2>3, <3>2 DEF DayOf
    <3>4. getBillingPeriodStart(anchorDay, today) = DateOf(month - 1, anchorDay)
      BY <2>6, <3>2, <3>3 DEF getBillingPeriodStart
    <3>5. DateOf(month - 1, anchorDay) <= today /\ today < DateOf(month - 1 + 1, anchorDay)
      BY <2>1, <2>2, <2>3, <2>4, <2>5, <2>6
    <3>6. month - 1 \in month - 1 .. month
      BY <2>2
    <3>7. QED
      BY <3>4, <3>5, <3>6
  <2>7. CASE ~(today < start)
    <3>1. getBillingPeriodStart(anchorDay, today) = start
      BY <2>7 DEF getBillingPeriodStart
    <3>2. start <= today /\ today < DateOf(month + 1, anchorDay)
      BY <2>1, <2>2, <2>3, <2>7
    <3>3. month \in month - 1 .. month
      BY <2>2
    <3>4. QED
      BY <3>1, <3>2, <3>3
  <2>8. QED
    BY <2>6, <2>7
<1>4. QED
  BY <1>1, <1>2, <1>3, PTL DEF PeriodSpec
================================================================================
