------------------------------ MODULE AppProofs ------------------------------
(***************************************************************************)
(* Proofs about an app's test theme (ThemeInjection) and about the         *)
(* operations on its infrastructure (AppLifecycle), for every value of     *)
(* their constants.                                                        *)
(***************************************************************************)
EXTENDS AppLifecycle, ThemeInjection, TLAPS

-----------------------------------------------------------------------------
(* The test theme                                                          *)

\* An injection works on a target it was asked for, and is through with all
\* of them once it notes its copy in the row.
TargetInRange ==
    \A i \in Injections :
        /\ injection[i].target <= Len(Targets[i]) + 1
        /\ injection[i].at \in {"reading", "comparing", "writing", "checking", "verifying"} =>
               injection[i].target <= Len(Targets[i])
        /\ injection[i].at \in {"noting", "done"} => injection[i].target = Len(Targets[i]) + 1

\* What it will write back holds every block the template has: nobody else
\* adds one to its copy.
ReadHoldsBlocks ==
    \A i \in Injections :
        injection[i].at \in {"comparing", "writing"} => BlocksIn(i, Page(i)) \subseteq injection[i].read

\* A block it verified is there, or the copy job wrote over it since.
VerifiedThere == \A i \in Injections : Verified(i) \subseteq blocks[i] \cup late[i]

RecordedIsDone == recorded # NoTheme => injection[recorded].at = "done"

ThemeInv == ThemeTypeOK /\ TargetInRange /\ ReadHoldsBlocks /\ VerifiedThere /\ RecordedIsDone

\* The records an injection goes through.
LEMMA InjectionRecords ==
    ASSUME ThemeTypeOK, NEW i \in Injections
    PROVE  /\ injection[i] \in InjectionTypes /\ NoInjection \in InjectionTypes
           /\ blocks[i] \subseteq Sections
           /\ \A t : BlocksIn(i, t) \subseteq Sections
           /\ \A rec \in InjectionTypes :
                 InjectTo(i, rec) => injection' \in [Injections -> InjectionTypes]
           /\ Fail(i) => injection' \in [Injections -> InjectionTypes]
<1>1. injection[i] \in InjectionTypes /\ blocks[i] \subseteq Sections
  BY DEF ThemeTypeOK
<1>2. NoInjection \in InjectionTypes
  BY DEF NoInjection, InjectionTypes
<1>3. \A t : BlocksIn(i, t) \subseteq Sections
  BY <1>1 DEF BlocksIn
<1>4. \A rec \in InjectionTypes : InjectTo(i, rec) => injection' \in [Injections -> InjectionTypes]
  BY DEF ThemeTypeOK, InjectTo
<1>5. [injection[i] EXCEPT !.at = "failed", !.read = {}] \in InjectionTypes
  BY <1>1 DEF InjectionTypes
<1>6. QED
  BY <1>1, <1>2, <1>3, <1>4, <1>5 DEF Fail

LEMMA TargetIsSection ==
    ASSUME ThemeTypeOK, TargetInRange, NEW i \in Injections,
           injection[i].at \in {"reading", "comparing", "writing", "checking", "verifying"}
    PROVE  /\ Target(i) \in Sections /\ Len(Targets[i]) \in Nat
           /\ injection[i].target \in 1 .. Len(Targets[i])
<1>1. Targets[i] \in Seq(Sections)
  BY ThemeAssumption
<1>2. injection[i].target \in Nat \ {0}
  BY InjectionRecords DEF InjectionTypes
<1>3. injection[i].target \in 1 .. Len(Targets[i]) /\ Len(Targets[i]) \in Nat
  BY <1>1, <1>2 DEF TargetInRange
<1>4. QED
  BY <1>1, <1>3 DEF Target

LEMMA ThemeTypeStep ==
    ASSUME ThemeTypeOK, TargetInRange, [ThemeNext]_themeVars
    PROVE  ThemeTypeOK'
<1>1. ASSUME NEW i \in Injections, InjectionStep(i) PROVE ThemeTypeOK'
  <2>1. CASE injection' \in [Injections -> InjectionTypes]
    <3>1. blocks' \in [Injections -> SUBSET Sections]
      <4>1. CASE Write(i)
        <5>1. Target(i) \in Sections
          BY <4>1, TargetIsSection DEF Write
        <5>2. injection[i].read \subseteq Sections /\ blocks[i] \subseteq Sections
          BY InjectionRecords DEF InjectionTypes
        <5>3. QED
          BY <4>1, <5>1, <5>2 DEF Write, ThemeTypeOK
      <4>2. QED
        BY <1>1, <4>1
           DEF ThemeTypeOK, InjectionStep, duplicateTheme, AwaitCopy, FirstRead,
               SecondRead, ReadBack, Verify, setThemeInjection, Shopifys
    <3>2. QED
      BY <1>1, <2>1, <3>1
         DEF ThemeTypeOK, InjectionStep, duplicateTheme, AwaitCopy, FirstRead,
             SecondRead, Write, ReadBack, Verify, setThemeInjection, Shopifys, Rest
  <2>2. injection' \in [Injections -> InjectionTypes]
    <3> DEFINE q == injection[i]
    <3>1. q \in InjectionTypes /\ NoInjection \in InjectionTypes /\ BlocksIn(i, Page(i)) \subseteq Sections
      BY InjectionRecords
    <3>2. ASSUME NEW rec \in InjectionTypes, InjectTo(i, rec) \/ Fail(i)
          PROVE  injection' \in [Injections -> InjectionTypes]
      BY <3>2, InjectionRecords
    <3>3. CASE duplicateTheme(i)
      <4>1. [NoInjection EXCEPT !.at = "copying"] \in InjectionTypes
        BY DEF NoInjection, InjectionTypes
      <4>2. QED
        BY <3>2, <3>3, <4>1 DEF duplicateTheme
    <3>4. CASE AwaitCopy(i)
      <4>1. [NoInjection EXCEPT !.at = "reading"] \in InjectionTypes
        BY DEF NoInjection, InjectionTypes
      <4>2. QED
        BY <3>2, <3>4, <4>1 DEF AwaitCopy
    <3>5. CASE FirstRead(i)
      <4>1. [q EXCEPT !.at = "comparing", !.read = BlocksIn(i, Page(i))] \in InjectionTypes
        BY <3>1 DEF InjectionTypes
      <4>2. QED
        BY <3>2, <3>5, <4>1 DEF FirstRead
    <3>6. CASE SecondRead(i)
      <4>1. [q EXCEPT !.at = "writing"] \in InjectionTypes
        BY <3>1 DEF InjectionTypes
      <4>2. [q EXCEPT !.at = "reading", !.tries = @ + 1, !.read = {}] \in InjectionTypes
        <5>1. q.tries + 1 \in Nat
          BY <3>1 DEF InjectionTypes
        <5> HIDE DEF q
        <5>2. [q EXCEPT !.at = "reading", !.tries = q.tries + 1, !.read = {}] \in InjectionTypes
          BY <3>1, <5>1 DEF InjectionTypes
        <5>3. QED
          BY <5>2
      <4>3. QED
        BY <3>2, <3>6, <4>1, <4>2 DEF SecondRead
    <3>7. CASE Write(i)
      <4>1. [q EXCEPT !.at = "checking", !.tries = 0, !.read = {}] \in InjectionTypes
        BY <3>1 DEF InjectionTypes
      <4>2. QED
        BY <3>2, <3>7, <4>1 DEF Write
    <3>8. CASE ReadBack(i)
      <4>1. [q EXCEPT !.at = "verifying"] \in InjectionTypes
        BY <3>1 DEF InjectionTypes
      <4>2. QED
        BY <3>2, <3>8, <4>1 DEF ReadBack
    <3>9. CASE Verify(i)
      <4>1. [q EXCEPT !.tries = @ + 1] \in InjectionTypes
        BY <3>1 DEF InjectionTypes
      <4>2. [NoInjection EXCEPT !.target = q.target + 1,
                                !.at = IF q.target = Len(Targets[i]) THEN "noting" ELSE "reading"]
              \in InjectionTypes
        <5>1. q.target + 1 \in Nat \ {0}
          BY <3>1 DEF InjectionTypes
        <5> HIDE DEF q
        <5>2. \A n \in Nat \ {0} :
                 /\ [NoInjection EXCEPT !.target = n, !.at = "noting"] \in InjectionTypes
                 /\ [NoInjection EXCEPT !.target = n, !.at = "reading"] \in InjectionTypes
          BY DEF InjectionTypes, NoInjection
        <5>3. QED
          BY <5>1, <5>2
      <4>3. QED
        BY <3>2, <3>9, <4>1, <4>2 DEF Verify
    <3>10. CASE setThemeInjection(i)
      <4>1. [q EXCEPT !.at = "done"] \in InjectionTypes
        BY <3>1 DEF InjectionTypes
      <4>2. QED
        BY <3>2, <3>10, <4>1 DEF setThemeInjection
    <3>11. QED
      BY <1>1, <3>3, <3>4, <3>5, <3>6, <3>7, <3>8, <3>9, <3>10 DEF InjectionStep
  <2>3. QED
    BY <2>1, <2>2
<1>2. ASSUME NEW i \in Injections, NEW t \in Templates, SyncWrites(i, t) PROVE ThemeTypeOK'
  <2>1. writes' \in [Injections -> [Templates -> 0 .. MaxSyncWrites]]
    BY <1>2, ThemeAssumption DEF SyncWrites, ThemeTypeOK
  <2>2. blocks' \in [Injections -> SUBSET Sections] /\ late' \in [Injections -> SUBSET Sections]
    BY <1>2, InjectionRecords DEF SyncWrites, ThemeTypeOK
  <2>3. QED
    BY <1>2, <2>1, <2>2 DEF SyncWrites, ThemeTypeOK
<1>3. ASSUME NEW r \in Removals, RemovalStep(r) PROVE ThemeTypeOK'
  <2>1. CASE BeginRemoval(r)
    BY <2>1 DEF ThemeTypeOK, BeginRemoval, RemoveTo, Shopifys
  <2>2. CASE DeleteTheme(r)
    <3>1. copies' \in [Injections -> {"none", "live", "deleted"}]
      BY <2>2 DEF ThemeTypeOK, DeleteTheme
    <3>2. removal[r].theme \in Injections
      BY <2>2 DEF ThemeTypeOK, DeleteTheme
    <3>3. removal' \in [Removals -> [at : {"idle", "deleting", "clearing", "over"},
                                    theme : Injections \cup {NoTheme}]]
      BY <2>2, <3>2 DEF ThemeTypeOK, DeleteTheme, RemoveTo
    <3>4. \A x \in Removals :
             removal'[x].at \in {"deleting", "clearing"} => removal'[x].theme \in Injections
      BY <2>2, <3>2 DEF ThemeTypeOK, DeleteTheme, RemoveTo
    <3>5. QED
      BY <2>2, <3>1, <3>3, <3>4 DEF ThemeTypeOK, DeleteTheme
  <2>3. CASE clearThemeInjection(r)
    BY <2>3 DEF ThemeTypeOK, clearThemeInjection, RemoveTo, Shopifys
  <2>4. QED
    BY <1>3, <2>1, <2>2, <2>3 DEF RemovalStep
<1>4. CASE UNCHANGED themeVars
  BY <1>4 DEF themeVars, ThemeTypeOK
<1>5. QED
  BY <1>1, <1>2, <1>3, <1>4 DEF ThemeNext

\* Where a step takes injection i.
Moved(i) ==
    LET old == injection[i]
        new == injection'[i]
        AtTarget == {"reading", "comparing", "writing", "checking", "verifying"}
    IN  \/ new.at = "failed" /\ new.target = old.target
        \/ new.at \in {"copying", "reading"} /\ new.target = 1
        \/ old.at \in AtTarget /\ new.at \in AtTarget /\ new.target = old.target
        \/ /\ old.at = "verifying" /\ Target(i) \in blocks[i] /\ new.target = old.target + 1
           /\ new.at = IF old.target = Len(Targets[i]) THEN "noting" ELSE "reading"
        \/ old.at = "noting" /\ new.at = "done" /\ new.target = old.target

\* A step of injection i leaves the other injections' facts alone.
LEMMA ThemeProgressStep ==
    ASSUME ThemeInv, [ThemeNext]_themeVars
    PROVE  TargetInRange' /\ ReadHoldsBlocks' /\ VerifiedThere' /\ RecordedIsDone'
<1> DEFINE Range(i) == /\ injection[i].target <= Len(Targets[i]) + 1
                       /\ injection[i].at \in {"reading", "comparing", "writing", "checking",
                                               "verifying"} =>
                              injection[i].target <= Len(Targets[i])
                       /\ injection[i].at \in {"noting", "done"} =>
                              injection[i].target = Len(Targets[i]) + 1
           Holds(i) == injection[i].at \in {"comparing", "writing"} =>
                           BlocksIn(i, Page(i)) \subseteq injection[i].read
           There(i) == Verified(i) \subseteq blocks[i] \cup late[i]
           Goal == TargetInRange /\ ReadHoldsBlocks /\ VerifiedThere /\ RecordedIsDone
<1>1. \A i \in Injections :
         /\ injection[i] \in InjectionTypes /\ Range(i) /\ Holds(i) /\ There(i)
         /\ Targets[i] \in Seq(Sections) /\ Len(Targets[i]) \in Nat \ {0}
  <2>1. \A i \in Injections : Targets[i] \in Seq(Sections) /\ Targets[i] # <<>>
    BY ThemeAssumption
  <2>2. \A i \in Injections : Len(Targets[i]) \in Nat \ {0}
    BY <2>1
  <2>3. QED
    BY <2>1, <2>2 DEF ThemeInv, ThemeTypeOK, TargetInRange, ReadHoldsBlocks, VerifiedThere
<1>2. ASSUME NEW i \in Injections, InjectionStep(i) PROVE Goal'
  <2>1. /\ \A j \in Injections \ {i} : injection'[j] = injection[j] /\ blocks'[j] = blocks[j]
        /\ late' = late
    BY <1>2 DEF InjectionStep, duplicateTheme, AwaitCopy, FirstRead, SecondRead, Write, ReadBack,
                Verify, setThemeInjection, InjectTo, Fail, Shopifys, ThemeInv, ThemeTypeOK
  <2>2. \A j \in Injections \ {i} : Range(j)' /\ Holds(j)' /\ There(j)'
    BY <1>1, <2>1 DEF BlocksIn, Page, Target, Verified
  <2>3. /\ injection[i] \in InjectionTypes /\ injection[i].target \in Nat \ {0}
        /\ injection \in [Injections -> InjectionTypes] /\ blocks \in [Injections -> SUBSET Sections]
    BY DEF ThemeInv, ThemeTypeOK, InjectionTypes
  <2>4. Moved(i)
    <3> DEFINE q == injection[i]
               After(n) == [NoInjection EXCEPT !.target = n + 1,
                                              !.at = IF n = Len(Targets[i]) THEN "noting"
                                                     ELSE "reading"]
    <3>1. CASE injection'[i] = [q EXCEPT !.at = "failed", !.read = {}]
      BY <2>3, <3>1 DEF Moved, InjectionTypes
    <3>2. CASE duplicateTheme(i)
      <4>1. \/ injection'[i] = [q EXCEPT !.at = "failed", !.read = {}]
            \/ injection'[i] = [NoInjection EXCEPT !.at = "copying"]
        BY <2>3, <3>2 DEF duplicateTheme, InjectTo, Fail
      <4>2. CASE injection'[i] = [NoInjection EXCEPT !.at = "copying"]
        BY <4>2 DEF Moved, NoInjection
      <4>3. QED
        BY <3>1, <4>1, <4>2
    <3>3. CASE AwaitCopy(i)
      <4>1. \/ injection'[i] = [q EXCEPT !.at = "failed", !.read = {}]
            \/ injection'[i] = [NoInjection EXCEPT !.at = "reading"]
        BY <2>3, <3>3 DEF AwaitCopy, InjectTo, Fail
      <4>2. CASE injection'[i] = [NoInjection EXCEPT !.at = "reading"]
        BY <4>2 DEF Moved, NoInjection
      <4>3. QED
        BY <3>1, <4>1, <4>2
    <3>4. CASE FirstRead(i)
      <4>1. \/ injection'[i] = [q EXCEPT !.at = "failed", !.read = {}]
            \/ injection'[i] = [q EXCEPT !.at = "comparing", !.read = BlocksIn(i, Page(i))]
        BY <2>3, <3>4 DEF FirstRead, InjectTo, Fail
      <4>2. CASE injection'[i] = [q EXCEPT !.at = "comparing", !.read = BlocksIn(i, Page(i))]
        BY <2>3, <3>4, <4>2 DEF FirstRead, Moved, InjectionTypes
      <4>3. QED
        BY <3>1, <4>1, <4>2
    <3>5. CASE SecondRead(i)
      <4>1. \/ injection'[i] = [q EXCEPT !.at = "failed", !.read = {}]
            \/ injection'[i] = [q EXCEPT !.at = "writing"]
            \/ injection'[i] = [q EXCEPT !.at = "reading", !.tries = q.tries + 1, !.read = {}]
        BY <2>3, <3>5 DEF SecondRead, InjectTo, Fail
      <4>2. CASE injection'[i] = [q EXCEPT !.at = "writing"]
        BY <2>3, <3>5, <4>2 DEF SecondRead, Moved, InjectionTypes
      <4>3. CASE injection'[i] = [q EXCEPT !.at = "reading", !.tries = q.tries + 1, !.read = {}]
        BY <2>3, <3>5, <4>3 DEF SecondRead, Moved, InjectionTypes
      <4>4. QED
        BY <3>1, <4>1, <4>2, <4>3
    <3>6. CASE Write(i)
      <4>1. \/ injection'[i] = [q EXCEPT !.at = "failed", !.read = {}]
            \/ injection'[i] = [q EXCEPT !.at = "checking", !.tries = 0, !.read = {}]
        BY <2>3, <3>6 DEF Write, InjectTo, Fail
      <4>2. CASE injection'[i] = [q EXCEPT !.at = "checking", !.tries = 0, !.read = {}]
        BY <2>3, <3>6, <4>2 DEF Write, Moved, InjectionTypes
      <4>3. QED
        BY <3>1, <4>1, <4>2
    <3>7. CASE ReadBack(i)
      <4>1. \/ injection'[i] = [q EXCEPT !.at = "failed", !.read = {}]
            \/ injection'[i] = [q EXCEPT !.at = "verifying"]
        BY <2>3, <3>7 DEF ReadBack, InjectTo, Fail
      <4>2. CASE injection'[i] = [q EXCEPT !.at = "verifying"]
        BY <2>3, <3>7, <4>2 DEF ReadBack, Moved, InjectionTypes
      <4>3. QED
        BY <3>1, <4>1, <4>2
    <3>8. CASE Verify(i)
      <4>1. \/ injection'[i] = [q EXCEPT !.at = "failed", !.read = {}]
            \/ injection'[i] = [q EXCEPT !.tries = q.tries + 1]
            \/ Target(i) \in blocks[i] /\ injection'[i] = After(q.target)
        BY <2>3, <3>8 DEF Verify, Appears, InjectTo, Fail
      <4>2. CASE injection'[i] = [q EXCEPT !.tries = q.tries + 1]
        BY <2>3, <3>8, <4>2 DEF Verify, Moved, InjectionTypes
      <4>3. CASE Target(i) \in blocks[i] /\ injection'[i] = After(q.target)
        <5>1. \A n : /\ After(n).target = n + 1
                     /\ After(n).at = IF n = Len(Targets[i]) THEN "noting" ELSE "reading"
          BY DEF NoInjection
        <5>2. QED
          BY <3>8, <4>3, <5>1 DEF Verify, Moved
      <4>4. QED
        BY <3>1, <4>1, <4>2, <4>3
    <3>9. CASE setThemeInjection(i)
      <4>1. \/ injection'[i] = [q EXCEPT !.at = "failed", !.read = {}]
            \/ injection'[i] = [q EXCEPT !.at = "done"]
        BY <2>3, <3>9 DEF setThemeInjection, InjectTo, Fail
      <4>2. CASE injection'[i] = [q EXCEPT !.at = "done"]
        BY <2>3, <3>9, <4>2 DEF setThemeInjection, Moved, InjectionTypes
      <4>3. QED
        BY <3>1, <4>1, <4>2
    <3>10. QED
      BY <1>2, <3>2, <3>3, <3>4, <3>5, <3>6, <3>7, <3>8, <3>9 DEF InjectionStep
  \* A write replaces the template by what was read, which holds its blocks.
  <2>5. blocks[i] \subseteq blocks'[i]
    <3>1. CASE Write(i)
      BY <1>1, <2>3, <3>1 DEF Write
    <3>2. QED
      BY <1>2, <3>1 DEF InjectionStep, duplicateTheme, AwaitCopy, FirstRead, SecondRead, ReadBack,
                        Verify, setThemeInjection, Shopifys
  <2>6. Range(i)'
    BY <1>1, <2>3, <2>4 DEF Moved
  <2>7. There(i)'
    <3>1. Verified(i)' \subseteq Verified(i) \cup
             (IF injection'[i].target = injection[i].target + 1 THEN {Target(i)} ELSE {})
      BY <2>3, <2>4 DEF Moved, Verified, Target
    <3>2. injection'[i].target = injection[i].target + 1 => Target(i) \in blocks[i] \/ Verified(i)' = {}
      BY <2>3, <2>4 DEF Moved, Verified
    <3>3. QED
      BY <1>1, <2>1, <2>5, <3>1, <3>2
  <2>8. Holds(i)'
    <3> DEFINE q == injection[i]
    <3>1. q.at # "failed" /\ [q EXCEPT !.at = "failed", !.read = {}].at = "failed"
      BY <1>2, <2>3 DEF InjectionStep, duplicateTheme, AwaitCopy, FirstRead, SecondRead, Write,
                        ReadBack, Verify, setThemeInjection, InjectionTypes
    <3>2. CASE FirstRead(i)
      <4>1. \/ injection'[i] = [q EXCEPT !.at = "failed", !.read = {}]
            \/ injection'[i] = [q EXCEPT !.at = "comparing", !.read = BlocksIn(i, Page(i))]
        BY <2>3, <3>2 DEF FirstRead, InjectTo, Fail
      <4>2. blocks' = blocks
        BY <3>2 DEF FirstRead, Shopifys
      <4>3. CASE injection'[i] = [q EXCEPT !.at = "comparing", !.read = BlocksIn(i, Page(i))]
        <5>1. injection'[i].target = q.target /\ injection'[i].read = BlocksIn(i, Page(i))
          BY <2>3, <4>3 DEF InjectionTypes
        <5>2. QED
          BY <4>2, <5>1 DEF BlocksIn, Page, Target
      <4>4. QED
        BY <3>1, <4>1, <4>3
    <3>3. CASE SecondRead(i)
      <4>1. \/ injection'[i] = [q EXCEPT !.at = "failed", !.read = {}]
            \/ injection'[i] = [q EXCEPT !.at = "writing"]
            \/ injection'[i] = [q EXCEPT !.at = "reading", !.tries = q.tries + 1, !.read = {}]
        BY <2>3, <3>3 DEF SecondRead, InjectTo, Fail
      <4>2. blocks' = blocks /\ q.at = "comparing"
        BY <3>3 DEF SecondRead, Shopifys
      <4>3. CASE injection'[i] = [q EXCEPT !.at = "writing"]
        <5>1. injection'[i].target = q.target /\ injection'[i].read = q.read
          BY <2>3, <4>3 DEF InjectionTypes
        <5>2. QED
          BY <1>1, <4>2, <5>1 DEF BlocksIn, Page, Target
      <4>4. CASE injection'[i] = [q EXCEPT !.at = "reading", !.tries = q.tries + 1, !.read = {}]
        BY <2>3, <4>4 DEF InjectionTypes
      <4>5. QED
        BY <3>1, <4>1, <4>3, <4>4
    <3>4. CASE ~FirstRead(i) /\ ~SecondRead(i)
      <4>1. q.at \notin {"reading", "comparing"}
        BY <1>2, <3>4 DEF InjectionStep, duplicateTheme, AwaitCopy, Write, ReadBack, Verify,
                          setThemeInjection
      <4>2. injection'[i].at \notin {"comparing", "writing"}
        <5> DEFINE failed == [q EXCEPT !.at = "failed", !.read = {}]
        <5>1. CASE duplicateTheme(i)
          <6>1. injection'[i] \in {failed, [NoInjection EXCEPT !.at = "copying"]}
            BY <2>3, <5>1 DEF duplicateTheme, InjectTo, Fail
          <6>2. QED
            BY <3>1, <6>1 DEF NoInjection
        <5>2. CASE AwaitCopy(i)
          <6>1. injection'[i] \in {failed, [NoInjection EXCEPT !.at = "reading"]}
            BY <2>3, <5>2 DEF AwaitCopy, InjectTo, Fail
          <6>2. QED
            BY <3>1, <6>1 DEF NoInjection
        <5>3. CASE Write(i)
          <6>1. injection'[i] \in {failed, [q EXCEPT !.at = "checking", !.tries = 0, !.read = {}]}
            BY <2>3, <5>3 DEF Write, InjectTo, Fail
          <6>2. QED
            BY <2>3, <3>1, <6>1 DEF InjectionTypes
        <5>4. CASE ReadBack(i)
          <6>1. injection'[i] \in {failed, [q EXCEPT !.at = "verifying"]}
            BY <2>3, <5>4 DEF ReadBack, InjectTo, Fail
          <6>2. QED
            BY <2>3, <3>1, <6>1 DEF InjectionTypes
        <5>5. CASE Verify(i)
          <6>1. \/ injection'[i] \in {failed, [q EXCEPT !.tries = q.tries + 1]}
                \/ \E at \in {"noting", "reading"} :
                      injection'[i] = [NoInjection EXCEPT !.target = q.target + 1, !.at = at]
            BY <2>3, <5>5 DEF Verify, InjectTo, Fail
          <6>2. [q EXCEPT !.tries = q.tries + 1].at = "verifying"
            BY <2>3, <5>5 DEF Verify, InjectionTypes
          <6>3. ASSUME NEW at \in {"noting", "reading"},
                       injection'[i] = [NoInjection EXCEPT !.target = q.target + 1, !.at = at]
                PROVE  injection'[i].at = at
            BY <6>3 DEF NoInjection
          <6>4. QED
            BY <3>1, <6>1, <6>2, <6>3
        <5>6. CASE setThemeInjection(i)
          <6>1. injection'[i] \in {failed, [q EXCEPT !.at = "done"]}
            BY <2>3, <5>6 DEF setThemeInjection, InjectTo, Fail
          <6>2. QED
            BY <2>3, <3>1, <6>1 DEF InjectionTypes
        <5>7. QED
          BY <1>2, <3>4, <5>1, <5>2, <5>3, <5>4, <5>5, <5>6 DEF InjectionStep
      <4>3. QED
        BY <4>2
    <3>5. QED
      BY <3>2, <3>3, <3>4
  <2>9. RecordedIsDone'
    <3>1. CASE setThemeInjection(i)
      <4>1. \/ recorded' = i /\ injection'[i] = [injection[i] EXCEPT !.at = "done"]
            \/ recorded' = recorded /\ injection[i].at # "done"
        BY <2>3, <3>1 DEF setThemeInjection, InjectTo
      <4>2. CASE recorded' = i /\ injection'[i] = [injection[i] EXCEPT !.at = "done"]
        BY <2>3, <4>2 DEF RecordedIsDone, InjectionTypes
      <4>3. CASE recorded' = recorded /\ injection[i].at # "done"
        BY <2>1, <4>3 DEF RecordedIsDone, ThemeInv, ThemeTypeOK
      <4>4. QED
        BY <4>1, <4>2, <4>3
    <3>2. CASE ~setThemeInjection(i)
      <4>1. recorded' = recorded /\ injection[i].at # "done"
        BY <1>2, <3>2 DEF InjectionStep, duplicateTheme, AwaitCopy, FirstRead, SecondRead, Write,
                          ReadBack, Verify, Rest
      <4>2. recorded # NoTheme => recorded \in Injections \ {i}
        BY <4>1 DEF ThemeInv, ThemeTypeOK, RecordedIsDone
      <4>3. QED
        BY <2>1, <4>1, <4>2 DEF RecordedIsDone, ThemeInv
    <3>3. QED
      BY <3>1, <3>2
  <2>10. QED
    BY <2>2, <2>6, <2>7, <2>8, <2>9 DEF TargetInRange, ReadHoldsBlocks, VerifiedThere
\* What the copy job takes away of the verified blocks is remembered.
<1>3. ASSUME NEW i \in Injections, NEW t \in Templates, SyncWrites(i, t) PROVE Goal'
  <2>1. injection' = injection /\ recorded' = recorded
    BY <1>3 DEF SyncWrites
  <2>2. \A j \in Injections : blocks'[j] \subseteq blocks[j]
    BY <1>3 DEF SyncWrites, ThemeInv, ThemeTypeOK
  <2>3. \A j \in Injections : Verified(j) \subseteq blocks'[j] \cup late'[j]
    BY <1>1, <1>3 DEF SyncWrites, ThemeInv, ThemeTypeOK
  <2>4. \A j \in Injections : Range(j)' /\ Holds(j)' /\ There(j)'
    BY <1>1, <2>1, <2>2, <2>3 DEF BlocksIn, Page, Target, Verified
  <2>5. QED
    BY <2>1, <2>4 DEF TargetInRange, ReadHoldsBlocks, VerifiedThere, RecordedIsDone, ThemeInv
<1>4. ASSUME NEW r \in Removals, RemovalStep(r) PROVE Goal'
  <2>1. /\ injection' = injection /\ blocks' = blocks /\ late' = late
        /\ recorded' \in {NoTheme, recorded}
    BY <1>4 DEF RemovalStep, BeginRemoval, DeleteTheme, clearThemeInjection, Shopifys
  <2>2. QED
    BY <2>1 DEF TargetInRange, ReadHoldsBlocks, VerifiedThere, RecordedIsDone, ThemeInv,
                BlocksIn, Page, Target, Verified
<1>5. CASE UNCHANGED themeVars
  BY <1>5 DEF themeVars, TargetInRange, ReadHoldsBlocks, VerifiedThere, RecordedIsDone, ThemeInv,
              BlocksIn, Page, Target, Verified
<1>6. QED
  BY <1>2, <1>3, <1>4, <1>5 DEF ThemeNext

LEMMA ThemeInvariant == ThemeSpec => []ThemeInv
<1>1. ThemeInit => ThemeInv
  <2> SUFFICES ASSUME ThemeInit PROVE ThemeInv
    OBVIOUS
  <2>1. ThemeTypeOK
    <3>1. NoInjection \in InjectionTypes
      BY DEF NoInjection, InjectionTypes
    <3>2. 0 \in 0 .. MaxSyncWrites
      BY ThemeAssumption
    <3>3. QED
      BY <3>1, <3>2 DEF ThemeInit, ThemeTypeOK
  <2>2. \A i \in Injections : Len(Targets[i]) \in Nat
    <3>1. \A i \in Injections : Targets[i] \in Seq(Sections)
      BY ThemeAssumption
    <3>2. QED
      BY <3>1
  <2>3. TargetInRange /\ ReadHoldsBlocks /\ VerifiedThere /\ RecordedIsDone
    BY <2>2 DEF ThemeInit, TargetInRange, ReadHoldsBlocks, VerifiedThere, RecordedIsDone,
                Verified, NoInjection
  <2>4. QED
    BY <2>1, <2>3 DEF ThemeInv
<1>2. ThemeInv /\ [ThemeNext]_themeVars => ThemeInv'
  BY ThemeTypeStep, ThemeProgressStep DEF ThemeInv
<1>3. QED
  BY <1>1, <1>2, PTL DEF ThemeSpec

\* The injections' and removals' state keeps its type, for any shop's theme
\* and any number of injections and removals.
THEOREM ThemeTypeCorrect == ThemeSpec => []ThemeTypeOK
BY ThemeInvariant, PTL DEF ThemeInv

\* The theme the app's row names holds a block for every target of its
\* injection (injectThemeHandler, injectAppBlock), except where Shopify's
\* copy job wrote after the last look.
THEOREM RecordedThemeShowsBlocks == ThemeSpec => []RecordedShowsBlocks
<1>1. ThemeInv => RecordedShowsBlocks
  <2> SUFFICES ASSUME ThemeInv, recorded # NoTheme, NEW k \in 1 .. Len(Targets[recorded])
               PROVE  Targets[recorded][k] \in blocks[recorded] \cup late[recorded]
    BY DEF RecordedShowsBlocks
  <2>1. recorded \in Injections /\ Targets[recorded] \in Seq(Sections)
    BY ThemeAssumption DEF ThemeInv, ThemeTypeOK
  <2>2. injection[recorded].target = Len(Targets[recorded]) + 1
    BY <2>1 DEF ThemeInv, RecordedIsDone, TargetInRange
  <2>3. Targets[recorded][k] \in Verified(recorded)
    BY <2>1, <2>2 DEF Verified
  <2>4. QED
    BY <2>1, <2>3 DEF ThemeInv, VerifiedThere
<1>2. QED
  BY <1>1, ThemeInvariant, PTL

-----------------------------------------------------------------------------
(* The operations on an app                                                *)

\* The steps of each kind of operation; an ended one is over.
Course == [
    deploy     |-> {"provision", "build", "migrate", "run", "update", "insert", "list", "create",
                    "reconcile", "schedule", "over"},
    teardown   |-> {"read", "unregister", "unschedule", "stop", "deactivate", "over"},
    reactivate |-> {"latest", "run", "list", "create", "reconcile", "schedule", "over"},
    delete     |-> {"read", "unregister", "unschedule", "stop", "account", "drop", "hardDelete",
                    "over"},
    reinstall  |-> {"read", "unregister", "list", "create", "reconcile", "over"} ]

OnCourse ==
    \A o \in Ops : \/ op[o] \in {NoOperation, Spent}
                   \/ op[o].kind \in DOMAIN Course /\ op[o].at \in Course[op[o].kind]

\* While an operation is alone nothing else is under way: only its own steps
\* change the app's infrastructure.
Solo == \A o \in Ops : op[o].alone =>
            \A p \in Ops \ {o} : ~UnderWay(p) /\ ~op[p].alone

GoneIsEmpty == appStatus = "gone" => funcs = <<>> /\ \A t \in Topics : subs[t].func = 0

\* A cloud process neither builds an image nor adds a row to those it found;
\* a local one has no service account, so no reactivation there finds one.
InPlace ==
    IF local THEN account = 0
    ELSE /\ funcs # <<>> => Len(funcs) = 1 /\ funcs[1].active
         /\ \A o \in Ops : op[o].kind = "deploy" =>
                op[o].at \in {"provision", "build", "over"} /\ (~UnderWay(o) => op[o].failed)

ActiveRows == {i \in DOMAIN funcs : funcs[i].active}
HooksMatch(topics) == \A t \in topics : subs[t].hook = hooks[t] /\ hooks[t] # 0

DeployAlone(o) ==
    LET r == op[o] IN
    /\ r.func = 0 => Routed = r.before
    /\ r.at \in {"list", "create", "reconcile", "schedule"} => r.func # 0
    /\ ~r.failed /\ ~r.faulty =>
       /\ r.at = "insert" => r.prior = ActiveRows
       /\ r.at \in {"list", "create", "reconcile", "schedule", "over"} =>
             ActiveRows = {r.func} /\ r.func # 0
       /\ r.at \in {"update", "insert", "list", "create", "reconcile", "schedule", "over"} =>
             service.version = r.version
       /\ r.at \in {"create", "reconcile"} => r.found = hooks
       /\ r.at = "reconcile" => \A t \in r.topics : hooks[t] # 0
       /\ r.at \in {"schedule", "over"} => Routed = r.topics \X {r.func} /\ HooksMatch(r.topics)
       /\ r.at = "over" => ticks = r.cron

ReactivateAlone(o) ==
    LET r == op[o] IN
    /\ appStatus = "active"
    /\ ~r.failed /\ ~r.faulty =>
       /\ r.at \in {"latest", "run", "list", "create", "reconcile"} => Routed = r.before
       /\ r.at # "latest" =>
             /\ ~local /\ funcs # <<>> /\ r.func = Len(funcs)
             /\ r.version = funcs[Len(funcs)].version /\ r.cron = funcs[Len(funcs)].cron
             /\ {t \in Topics : subs[t].func # 0} = r.topics
       /\ r.at \in {"list", "create", "reconcile", "schedule", "over"} => service.version = r.version
       /\ r.at \in {"create", "reconcile"} => r.found = hooks
       /\ r.at = "reconcile" => \A t \in r.topics : hooks[t] # 0
       /\ r.at \in {"schedule", "over"} =>
             r.before \subseteq Routed /\ HooksMatch({t \in Topics : Subscribed(t)})
       /\ r.at = "over" => (r.cron => ticks)

DeleteAlone(o) ==
    LET r == op[o] IN
    /\ UnderWay(o) => appStatus # "gone"
    /\ ~r.failed /\ ~r.faulty =>
       /\ r.at \in {"stop", "account", "drop", "hardDelete", "over"} => ~ticks
       /\ r.at \in {"account", "drop", "hardDelete", "over"} => (~local => service = Down)
       /\ r.at \in {"hardDelete", "over"} => ~schema

\* What an operation that is alone has done so far.
SoFar(o) ==
    /\ op[o].kind = "deploy" => DeployAlone(o)
    /\ op[o].kind = "reactivate" => ReactivateAlone(o)
    /\ op[o].kind = "delete" => DeleteAlone(o)

LifecycleInv ==
    /\ LifecycleTypeOK /\ OnCourse /\ Solo /\ GoneIsEmpty /\ InPlace
    /\ \A o \in Ops : op[o].alone => SoFar(o)

LEMMA StepNames ==
    /\ OpSteps = {"provision", "build", "migrate", "run", "update", "insert", "list", "create",
                  "reconcile", "schedule", "over", "latest", "read", "unregister", "unschedule",
                  "stop", "deactivate", "account", "drop", "hardDelete"}
    /\ OpKinds = {"deploy", "teardown", "reactivate", "delete", "reinstall", "none", "spent"}
    /\ DOMAIN Course = {"deploy", "teardown", "reactivate", "delete", "reinstall"}
    /\ \A k \in DOMAIN Course : Course[k] \subseteq OpSteps /\ FirstStep[k] \in Course[k] \ {"over"}
    /\ \A k \in DOMAIN Course : k # "none" /\ k # "spent"
<1>1. OpSteps = {"provision", "build", "migrate", "run", "update", "insert", "list", "create",
                  "reconcile", "schedule", "over", "latest", "read", "unregister", "unschedule",
                  "stop", "deactivate", "account", "drop", "hardDelete"}
  BY DEF OpSteps, Then
<1>2. OpKinds = {"deploy", "teardown", "reactivate", "delete", "reinstall", "none", "spent"}
  BY DEF OpKinds, FirstStep, None
<1>3. DOMAIN Course = {"deploy", "teardown", "reactivate", "delete", "reinstall"}
  BY DEF Course
<1>4. \A k \in DOMAIN Course : Course[k] \subseteq OpSteps
  BY <1>1, <1>3 DEF Course
<1>5. \A k \in DOMAIN Course : FirstStep[k] \in Course[k] \ {"over"}
  BY <1>3 DEF Course, FirstStep
<1>6. QED
  BY <1>1, <1>2, <1>3, <1>4, <1>5

\* What follows a step of an operation is a step of it.
LEMMA ThenOnCourse ==
    ASSUME NEW k \in DOMAIN Course, NEW s \in Course[k] \ {"over"}
    PROVE  Then(k)[s] \in Course[k]
<1>1. CASE k = "deploy"
  BY <1>1 DEF Course, Then
<1>2. CASE k = "teardown"
  BY <1>2 DEF Course, Then
<1>3. CASE k = "reactivate"
  BY <1>3 DEF Course, Then
<1>4. CASE k = "delete"
  BY <1>4 DEF Course, Then
<1>5. CASE k = "reinstall"
  BY <1>5 DEF Course, Then
<1>6. QED
  BY <1>1, <1>2, <1>3, <1>4, <1>5, StepNames

\* The records operations go through.
LEMMA OperationRecords ==
    /\ NoOperation \in OperationTypes /\ Spent \in OperationTypes
    /\ NoOperation.kind = "none" /\ NoOperation.at = "over" /\ ~NoOperation.alone
    /\ Spent.kind = "spent" /\ Spent.at = "over" /\ ~Spent.alone
    /\ NoOperation.found \in [Topics -> Nat]
    /\ NoOperation \in [kind : {"none"}, at : {"over"}, version : {None}, cron : {FALSE},
                        topics : {{}}, func : {0}, sa : {0}, prior : {{}}, found : [Topics -> Nat],
                        failed : {FALSE}, alone : {FALSE}, faulty : {FALSE}, before : {{}}]
<1>1. NoOperation \in OperationTypes
  BY DEF NoOperation, OperationTypes, OpKinds, OpSteps, Then, FirstStep, None
<1>2. Spent \in OperationTypes
  BY DEF Spent, NoOperation, OperationTypes, OpKinds, OpSteps, Then, FirstStep, None
<1>3. QED
  BY <1>1, <1>2 DEF NoOperation, Spent, None

\* c is r but for what a step may change of it.
Same(r, c) ==
    /\ c \in OperationTypes
    /\ c.kind = r.kind /\ c.alone = r.alone /\ c.before = r.before
    /\ r.kind = "deploy" => c.version = r.version

LEMMA OperationChanges ==
    ASSUME NEW r \in OperationTypes
    PROVE  /\ Same(r, r)
           /\ \A b \in BOOLEAN : Same(r, [r EXCEPT !.failed = b])
           /\ \A b \in BOOLEAN : Same(r, [r EXCEPT !.faulty = b])
           /\ \A b \in BOOLEAN, n \in Nat : Same(r, [r EXCEPT !.faulty = b, !.sa = n])
           /\ \A s \in OpSteps : [r EXCEPT !.at = s] \in OperationTypes
           /\ \A n \in SUBSET Nat : Same(r, [r EXCEPT !.prior = n])
           /\ \A n \in Nat : Same(r, [r EXCEPT !.func = n, !.prior = {}])
           /\ \A f \in [Topics -> Nat] : Same(r, [r EXCEPT !.found = f])
           /\ r.kind # "deploy" =>
                 \A v \in Versions, c \in BOOLEAN, n \in Nat, ts \in SUBSET Topics :
                    Same(r, [r EXCEPT !.version = v, !.cron = c, !.func = n, !.topics = ts])
           /\ \A f \in [Topics -> Nat], ts \in SUBSET Topics, a \in Nat, n \in Nat :
                 Same(r, [r EXCEPT !.found = f, !.topics = ts, !.sa = a, !.func = n])
           /\ Over(r) \in OperationTypes /\ Joined(r) \in OperationTypes
<1>1. \A b \in BOOLEAN : Same(r, [r EXCEPT !.failed = b])
  BY DEF OperationTypes, Same
<1>2. /\ \A b \in BOOLEAN : Same(r, [r EXCEPT !.faulty = b])
      /\ \A b \in BOOLEAN, n \in Nat : Same(r, [r EXCEPT !.faulty = b, !.sa = n])
  BY DEF OperationTypes, Same
<1>3. \A s \in OpSteps : [r EXCEPT !.at = s] \in OperationTypes
  BY DEF OperationTypes
<1>4. \A n \in SUBSET Nat : Same(r, [r EXCEPT !.prior = n])
  BY DEF OperationTypes, Same
<1>5. \A n \in Nat : Same(r, [r EXCEPT !.func = n, !.prior = {}])
  BY DEF OperationTypes, Same
<1>6. \A f \in [Topics -> Nat] : Same(r, [r EXCEPT !.found = f])
  BY DEF OperationTypes, Same
<1>7. ASSUME r.kind # "deploy", NEW v \in Versions, NEW c \in BOOLEAN, NEW n \in Nat,
             NEW ts \in SUBSET Topics
      PROVE  Same(r, [r EXCEPT !.version = v, !.cron = c, !.func = n, !.topics = ts])
  BY <1>7 DEF OperationTypes, Same
<1>8. ASSUME NEW f \in [Topics -> Nat], NEW ts \in SUBSET Topics, NEW a \in Nat, NEW n \in Nat
      PROVE  Same(r, [r EXCEPT !.found = f, !.topics = ts, !.sa = a, !.func = n])
  BY <1>8 DEF OperationTypes, Same
<1>9. Over(r) \in OperationTypes
  <2>1. "over" \in OpSteps
    BY StepNames
  <2>2. \A f \in [Topics -> Nat] :
           [r EXCEPT !.at = "over", !.found = f, !.prior = {}] \in OperationTypes
    BY <2>1 DEF OperationTypes
  <2>3. QED
    BY <2>2, OperationRecords DEF Over
<1>10. Joined(r) \in OperationTypes
  BY DEF Joined, OperationTypes
<1>11. QED
  BY <1>1, <1>2, <1>3, <1>4, <1>5, <1>6, <1>7, <1>8, <1>9, <1>10 DEF Same

\* What a step of o leaves of its record.
LEMMA Moves ==
    ASSUME LifecycleTypeOK, NEW o \in Ops, NEW changed \in OperationTypes, NEW step \in OpSteps,
           MoveTo(o, changed, step)
    PROVE  /\ op' \in [Ops -> OperationTypes]
           /\ \A p \in Ops \ {o} : op'[p] = op[p]
           /\ step # "over" => op'[o] = [changed EXCEPT !.at = step]
           /\ step = "over" => op'[o] = Over(changed)
<1>1. op \in [Ops -> OperationTypes]
  BY DEF LifecycleTypeOK
<1>2. Over(changed) \in OperationTypes /\ [changed EXCEPT !.at = step] \in OperationTypes
  BY OperationChanges
<1>3. QED
  BY <1>1, <1>2 DEF MoveTo

LEMMA AloneFields ==
    ASSUME NEW changed \in OperationTypes, changed.alone, NEW step \in OpSteps, NEW r,
           step # "over" => r = [changed EXCEPT !.at = step],
           step = "over" => r = Over(changed)
    PROVE  /\ r.at = step
           /\ r.kind = changed.kind /\ r.version = changed.version /\ r.cron = changed.cron
           /\ r.topics = changed.topics /\ r.func = changed.func /\ r.failed = changed.failed
           /\ r.alone /\ r.faulty = changed.faulty /\ r.before = changed.before
           /\ step # "over" => r.found = changed.found /\ r.prior = changed.prior
<1>1. CASE step # "over"
  BY <1>1 DEF OperationTypes
<1>2. CASE step = "over"
  <2>1. r = [changed EXCEPT !.at = "over", !.found = NoOperation.found, !.prior = {}]
    BY <1>2 DEF Over
  <2>2. QED
    BY <1>2, <2>1 DEF OperationTypes
<1>3. QED
  BY <1>1, <1>2

LEMMA StepUnderWay ==
    ASSUME NEW o \in Ops, OpStep(o)
    PROVE  UnderWay(o)
BY DEF OpStep, StepFails, provisionHandlerSa, buildAndPushImage, runMigrations, runHandler,
       deactivatePrior, insertActive, noTopics, listShopifyWebhooks, createShopifyWebhooks,
       createRefused, reconcile, scheduleAppCron, getLatestDeployedVersion, readSubscriptions,
       unregisterShopifyWebhooks, unscheduleAppCron, deleteCloudRunService,
       deactivateAppInfrastructure, deleteServiceAccount, dropAppSchema, hardDeleteApp,
       At, UnderWay

\* Every step of an operation moves it along its course, whatever else it does.
LEMMA StepMoves ==
    ASSUME LifecycleTypeOK, OnCourse, NEW o \in Ops, OpStep(o)
    PROVE  \E changed \in OperationTypes, step \in OpSteps :
               /\ MoveTo(o, changed, step) /\ Same(op[o], changed)
               /\ op[o].kind \in DOMAIN Course /\ step \in Course[op[o].kind]
<1> DEFINE r == op[o]
           Along(changed, step) == /\ MoveTo(o, changed, step) /\ Same(r, changed)
                                   /\ step \in Course[r.kind]
<1>1. r \in OperationTypes /\ r.alone \in BOOLEAN /\ r.faulty \in BOOLEAN
  BY DEF LifecycleTypeOK, OperationTypes
<1>2. UnderWay(o)
  BY StepUnderWay
<1>3. r.kind \in DOMAIN Course /\ r.at \in Course[r.kind] \ {"over"}
  BY <1>2, OperationRecords DEF OnCourse, UnderWay
<1>4. /\ Then(r.kind)[r.at] \in Course[r.kind] /\ "over" \in Course[r.kind]
      /\ Course[r.kind] \subseteq OpSteps
  <2>1. "over" \in Course[r.kind]
    BY <1>3, StepNames DEF Course
  <2>2. QED
    BY <1>3, <2>1, ThenOnCourse, StepNames
<1>5. ASSUME NEW changed, Same(r, changed), Done(o, changed)
      PROVE  \E c \in OperationTypes, step \in OpSteps : Along(c, step)
  BY <1>4, <1>5 DEF Done, Same
<1>6. ASSUME Abort(o) PROVE \E c \in OperationTypes, step \in OpSteps : Along(c, step)
  <2>1. MoveTo(o, [r EXCEPT !.failed = TRUE], "over")
    BY <1>6 DEF Abort, MoveTo
  <2>2. Same(r, [r EXCEPT !.failed = TRUE])
    BY <1>1, OperationChanges
  <2>3. QED
    BY <1>4, <2>1, <2>2 DEF Same
<1>7. ASSUME NEW step \in Course[r.kind], SkipTo(o, step)
      PROVE  \E c \in OperationTypes, s \in OpSteps : Along(c, s)
  <2>1. Same(r, [r EXCEPT !.faulty = r.alone])
    BY <1>1, OperationChanges
  <2>2. QED
    BY <1>4, <1>7, <2>1 DEF SkipTo, Same
<1>8. CASE StepFails(o)
  <2>1. CASE Swallowed(o)
    <3>1. Same(r, [r EXCEPT !.faulty = r.faulty \/ r.alone])
      BY <1>1, OperationChanges
    <3>2. Done(o, [r EXCEPT !.faulty = r.faulty \/ r.alone])
      BY <1>8, <2>1 DEF StepFails
    <3>3. QED
      BY <1>3, <1>5, <3>1, <3>2
  <2>2. CASE r.kind \in {"teardown", "delete"} /\ subscriptionsUnread(o)
    <3>1. Same(r, [r EXCEPT !.faulty = r.alone, !.sa = account])
      BY <1>1, OperationChanges DEF LifecycleTypeOK
    <3>2. "unschedule" \in Course[r.kind]
      BY <1>3, <2>2 DEF Course
    <3>3. QED
      BY <1>3, <1>4, <2>2, <3>1, <3>2 DEF subscriptionsUnread, Same
  <2>3. CASE r.kind = "reactivate" /\ SkipTo(o, "schedule")
    BY <1>3, <1>7, <2>3 DEF Course
  <2>4. QED
    BY <1>3, <1>6, <1>8, <2>1, <2>2, <2>3 DEF StepFails
<1>9. CASE \/ provisionHandlerSa(o) \/ buildAndPushImage(o) \/ runMigrations(o) \/ runHandler(o)
           \/ scheduleAppCron(o) \/ unscheduleAppCron(o) \/ deleteCloudRunService(o)
           \/ deactivateAppInfrastructure(o) \/ deleteServiceAccount(o) \/ dropAppSchema(o)
           \/ hardDeleteApp(o)
  <2>1. Same(r, r)
    BY <1>1, OperationChanges
  <2>2. Done(o, r) \/ Abort(o)
    BY <1>9 DEF provisionHandlerSa, buildAndPushImage, runMigrations, runHandler, scheduleAppCron,
                unscheduleAppCron, deleteCloudRunService, deactivateAppInfrastructure,
                deleteServiceAccount, dropAppSchema, hardDeleteApp
  <2>3. QED
    BY <1>3, <1>5, <1>6, <2>1, <2>2
<1>10. CASE deactivatePrior(o)
  <2>1. {i \in DOMAIN funcs : funcs[i].active} \subseteq Nat
    BY DEF LifecycleTypeOK
  <2>2. Same(r, [r EXCEPT !.prior = {i \in DOMAIN funcs : funcs[i].active}])
    BY <1>1, <2>1, OperationChanges
  <2>3. QED
    BY <1>3, <1>5, <1>10, <2>2 DEF deactivatePrior
<1>11. CASE insertActive(o)
  <2>1. Len(funcs) + 1 \in Nat
    BY DEF LifecycleTypeOK
  <2>2. Same(r, [r EXCEPT !.func = Len(funcs) + 1, !.prior = {}])
    BY <1>1, <2>1, OperationChanges
  <2>3. QED
    BY <1>3, <1>5, <1>6, <1>11, <2>2 DEF insertActive
<1>12. CASE noTopics(o)
  <2>1. r.kind \in {"deploy", "reactivate", "reinstall"}
    BY <1>3, <1>12, StepNames DEF noTopics, At, Course
  <2>2. Then(r.kind).reconcile \in Course[r.kind]
    BY <2>1 DEF Then, Course
  <2>3. MoveTo(o, r, Then(r.kind).reconcile)
    BY <1>12 DEF noTopics
  <2>4. Same(r, r)
    BY <1>1, OperationChanges
  <2>5. QED
    BY <1>1, <1>3, <1>4, <2>2, <2>3, <2>4
<1>13. CASE listShopifyWebhooks(o)
  <2>1. hooks \in [Topics -> Nat]
    BY DEF LifecycleTypeOK
  <2>2. Same(r, [r EXCEPT !.found = hooks])
    BY <1>1, <2>1, OperationChanges
  <2>3. QED
    BY <1>3, <1>5, <1>13, <2>2 DEF listShopifyWebhooks
<1>14. CASE createShopifyWebhooks(o)
  <2>1. PICK f \in [Topics -> Nat] : Done(o, [r EXCEPT !.found = f])
    <3>1. minted' \in Nat /\ r.found \in [Topics -> Nat]
      BY <1>1, <1>14 DEF createShopifyWebhooks, LifecycleTypeOK, OperationTypes
    <3>2. Done(o, [r EXCEPT !.found = [t \in Topics |->
                      IF t \in Missing(o) THEN minted' ELSE r.found[t]]])
      BY <1>14 DEF createShopifyWebhooks
    <3>3. QED
      BY <3>1, <3>2
  <2>2. Same(r, [r EXCEPT !.found = f])
    BY <1>1, OperationChanges
  <2>3. QED
    BY <1>3, <1>5, <2>1, <2>2
<1>15. CASE createRefused(o)
  <2>1. r.kind = "reactivate" => "schedule" \in Course[r.kind]
    BY DEF Course
  <2>2. QED
    BY <1>3, <1>6, <1>7, <1>15, <2>1 DEF createRefused
<1>16. CASE reconcile(o)
  <2>1. Same(r, [r EXCEPT !.found = NoOperation.found])
    BY <1>1, OperationChanges, OperationRecords
  <2>2. r.kind = "reactivate" => "schedule" \in Course[r.kind]
    BY DEF Course
  <2>3. Done(o, [r EXCEPT !.found = NoOperation.found]) \/ Abort(o)
          \/ (r.kind = "reactivate" /\ SkipTo(o, "schedule"))
    BY <1>16 DEF reconcile
  <2>4. QED
    BY <1>3, <1>5, <1>6, <1>7, <2>1, <2>2, <2>3
<1>17. CASE getLatestDeployedVersion(o)
  <2>1. r.kind # "deploy"
    BY <1>3, <1>17 DEF getLatestDeployedVersion, At, Course
  <2>2. CASE appStatus # "gone" /\ funcs # <<>> /\ account # 0
    <3> DEFINE latest == funcs[Len(funcs)]
    <3>1. latest.version \in Versions /\ latest.cron \in BOOLEAN /\ Len(funcs) \in Nat
      <4>1. latest \in FuncTypes /\ Len(funcs) \in Nat
        BY <2>2 DEF LifecycleTypeOK
      <4>2. QED
        BY <4>1, LifecycleAssumption DEF FuncTypes
    <3>2. Same(r, [r EXCEPT !.version = latest.version, !.cron = latest.cron, !.func = Len(funcs),
                            !.topics = {t \in Topics : subs[t].func # 0}])
      BY <1>1, <2>1, <3>1, OperationChanges
    <3>3. Done(o, [r EXCEPT !.version = latest.version, !.cron = latest.cron, !.func = Len(funcs),
                            !.topics = {t \in Topics : subs[t].func # 0}])
      BY <1>17, <2>2 DEF getLatestDeployedVersion
    <3>4. QED
      BY <1>3, <1>5, <3>2, <3>3
  <2>3. QED
    BY <1>3, <1>6, <1>17, <2>2 DEF getLatestDeployedVersion
<1>18. CASE readSubscriptions(o)
  <2>1. CASE op' = [op EXCEPT ![o] = Over(op[o])]
    <3>1. MoveTo(o, r, "over") /\ Same(r, r)
      BY <1>1, <2>1, OperationChanges DEF MoveTo
    <3>2. QED
      BY <1>1, <1>3, <1>4, <3>1
  <2>2. CASE op' # [op EXCEPT ![o] = Over(op[o])]
    <3> DEFINE f == [t \in Topics |-> IF Subscribed(t) THEN subs[t].hook ELSE 0]
               n == IF \E t \in Topics : Subscribed(t)
                    THEN subs[CHOOSE t \in Topics : Subscribed(t)].func ELSE 0
               ts == {t \in Topics : Subscribed(t)}
    <3>1. \A t \in Topics : subs[t].func \in Nat /\ subs[t].hook \in Nat
      BY DEF LifecycleTypeOK, SubTypes
    <3>2. f \in [Topics -> Nat]
      BY <3>1
    <3>3. n \in Nat
      BY <3>1
    <3>4. Done(o, [r EXCEPT !.found = f, !.topics = ts, !.sa = account, !.func = n])
      BY <1>18, <2>2 DEF readSubscriptions
    <3>5. Same(r, [r EXCEPT !.found = f, !.topics = ts, !.sa = account, !.func = n])
      <4>1. account \in Nat
        BY DEF LifecycleTypeOK
      <4> HIDE DEF f, n
      <4>2. QED
        BY <1>1, <3>2, <3>3, <4>1, OperationChanges
    <3>6. QED
      BY <1>3, <1>5, <3>4, <3>5
  <2>3. QED
    BY <2>1, <2>2
<1>19. CASE unregisterShopifyWebhooks(o)
  <2>1. Same(r, [r EXCEPT !.found = NoOperation.found])
    BY <1>1, OperationChanges, OperationRecords
  <2>2. QED
    BY <1>3, <1>5, <1>19, <2>1 DEF unregisterShopifyWebhooks
<1>20. QED
  BY <1>8, <1>9, <1>10, <1>11, <1>12, <1>13, <1>14, <1>15, <1>16, <1>17, <1>18, <1>19, <1>3 DEF OpStep

LEMMA RoutedType == LifecycleTypeOK => Routed \subseteq Topics \X Nat
BY DEF LifecycleTypeOK, SubTypes, Routed

\* The operations after one began.
LEMMA Launched ==
    ASSUME LifecycleTypeOK, OnCourse, NEW o \in Ops, NEW new \in OperationTypes, Launch(o, new),
           new.kind \in DOMAIN Course, new.kind = "deploy" => new.version \in Versions,
           ~new.failed /\ ~new.faulty, NEW first, first = FirstStep[new.kind]
    PROVE  /\ op' \in [Ops -> OperationTypes]
           /\ op'[o].kind = new.kind /\ op'[o].at = first
           /\ op'[o].kind = "deploy" => op'[o].version \in Versions
           /\ op'[o].alone => \A p \in Ops \ {o} : ~UnderWay(p)
           /\ op'[o].alone => /\ op'[o].before = Routed /\ op'[o].func = new.func
                             /\ ~op'[o].failed /\ ~op'[o].faulty
           /\ \A p \in Ops \ {o} : \/ UnderWay(p) /\ op'[p] = Joined(op[p])
                                   \/ ~UnderWay(p) /\ op'[p] \in {op[p], Spent}
           /\ \A p \in Ops \ {o} : op'[p].alone => ~UnderWay(p) /\ op[p].kind = "none" /\ op'[p] = op[p]
           /\ opFaults' = opFaults
<1> DEFINE r == [new EXCEPT !.alone = TRUE, !.before = Routed, !.at = first]
<1>1. first \in OpSteps
  BY StepNames
<1>2. Routed \in SUBSET (Topics \X Nat)
  BY RoutedType
<1>3. r \in OperationTypes
  BY <1>1, <1>2 DEF OperationTypes
<1>4. Joined(r) \in OperationTypes /\ \A p \in Ops : Joined(op[p]) \in OperationTypes /\ op[p] \in OperationTypes
  BY <1>3, OperationChanges DEF LifecycleTypeOK
<1>5. op'[o] = r \/ op'[o] = Joined(r)
  BY DEF Launch
<1>6. \A p \in Ops \ {o} : op'[p] = IF UnderWay(p) THEN Joined(op[p])
                               ELSE IF op[p].kind = None THEN op[p] ELSE Spent
  BY DEF Launch
<1>7. DOMAIN op' = Ops /\ op' = [p \in Ops |-> op'[p]]
  BY DEF Launch
<1>8. op' \in [Ops -> OperationTypes]
  BY <1>3, <1>4, <1>5, <1>6, <1>7, OperationRecords
<1>9. /\ r.kind = new.kind /\ r.at = first /\ r.version = new.version /\ r.before = Routed
      /\ r.func = new.func /\ r.failed = new.failed /\ r.faulty = new.faulty
  BY DEF OperationTypes
<1>10. /\ Joined(r).kind = r.kind /\ Joined(r).at = r.at /\ Joined(r).version = r.version
       /\ ~Joined(r).alone
  BY <1>3 DEF Joined, OperationTypes
<1>11. op'[o].alone => op'[o] = r /\ \A p \in Ops : ~UnderWay(p)
  <2>1. \/ op'[o] = Joined(r)
        \/ op'[o] = r /\ \A p \in Ops : ~UnderWay(p)
    BY DEF Launch
  <2>2. QED
    BY <1>10, <2>1
<1>12. \A p \in Ops : ~Joined(op[p]).alone
  BY <1>4 DEF Joined, OperationTypes
<1>13. opFaults' = opFaults
  BY DEF Launch, NoOpFault
<1> HIDE DEF r
<1>14. \A p \in Ops \ {o} : op'[p].alone => ~UnderWay(p) /\ op[p].kind = "none" /\ op'[p] = op[p]
  BY <1>6, <1>12, OperationRecords DEF None
<1>15. \A p \in Ops \ {o} : \/ UnderWay(p) /\ op'[p] = Joined(op[p])
                            \/ ~UnderWay(p) /\ op'[p] \in {op[p], Spent}
  BY <1>6
<1>16. QED
  BY <1>5, <1>8, <1>9, <1>10, <1>11, <1>13, <1>14, <1>15

\* What each way to begin passes to Launch.
LEMMA StartsLaunch ==
    ASSUME NEW o \in Ops, OpStarts(o)
    PROVE  /\ \E new \in OperationTypes :
                 /\ Launch(o, new)
                 /\ new.kind \in DOMAIN Course /\ (new.kind = "deploy" => new.version \in Versions)
                 /\ ~new.failed /\ ~new.faulty /\ new.func = 0
                 /\ new.kind = "reactivate" => appStatus' = "active"
                 /\ new.kind = "delete" => appStatus' # "gone"
           /\ \/ appStatus' = appStatus
              \/ appStatus # "gone" /\ appStatus' \in {"active", "inactive", "deleted"}
           /\ local' = local /\ account' = account /\ tables' = tables /\ outside' = outside
<1>1. ASSUME NEW v \in Versions, NEW cron \in BOOLEAN, startDeploy(o, v, cron)
      PROVE  \E new \in OperationTypes :
                 /\ Launch(o, new)
                 /\ new.kind = "deploy" /\ new.version \in Versions
                 /\ ~new.failed /\ ~new.faulty /\ new.func = 0
  <2> DEFINE new == [NoOperation EXCEPT !.kind = "deploy", !.version = v, !.cron = cron,
                                        !.topics = Bundle[v].topics]
  <2>1. Bundle[v].topics \subseteq Topics
    BY LifecycleAssumption
  <2>2. new \in OperationTypes /\ new.kind = "deploy" /\ new.version = v /\ ~new.failed /\ ~new.faulty
        /\ new.func = 0
    <3>1. "deploy" \in OpKinds /\ NoOperation \in OperationTypes
      BY StepNames, OperationRecords
    <3>2. QED
      BY <2>1, <3>1 DEF OperationTypes, NoOperation
  <2>3. Launch(o, new)
    BY <1>1 DEF startDeploy
  <2>4. QED
    BY <2>2, <2>3
<1>2. \A k \in {"teardown", "reactivate", "delete", "reinstall"} :
         LET new == [NoOperation EXCEPT !.kind = k]
         IN  /\ new \in OperationTypes /\ new.kind = k /\ k # "deploy"
             /\ ~new.failed /\ ~new.faulty /\ new.func = 0
  <2>1. {"teardown", "reactivate", "delete", "reinstall"} \subseteq OpKinds /\ NoOperation \in OperationTypes
    BY StepNames, OperationRecords
  <2>2. QED
    BY <2>1 DEF OperationTypes, NoOperation
<1>3. {"teardown", "reactivate", "delete", "reinstall", "deploy"} \subseteq DOMAIN Course
  BY StepNames
<1>4. CASE \E v \in Versions, cron \in BOOLEAN : startDeploy(o, v, cron)
  <2>1. appRow' = appRow /\ local' = local /\ tables' = tables /\ outside' = outside
    BY <1>4 DEF startDeploy
  <2>2. appStatus' = appStatus /\ account' = account
    BY <2>1 DEF appRow
  <2>3. QED
    BY <1>1, <1>3, <1>4, <2>1, <2>2
<1>5. ASSUME NEW s \in {"active", "inactive", "deleted"}, updateAppStatus(o, s)
      PROVE  \E k \in {"reactivate", "teardown"} :
                 Launch(o, [NoOperation EXCEPT !.kind = k]) /\ (k = "reactivate" => appStatus' = "active")
  BY <1>5 DEF updateAppStatus
<1>6. CASE \E s \in {"active", "inactive", "deleted"} : updateAppStatus(o, s)
  <2>1. PICK k \in {"reactivate", "teardown"} :
                 Launch(o, [NoOperation EXCEPT !.kind = k]) /\ (k = "reactivate" => appStatus' = "active")
    BY <1>5, <1>6
  <2>2. QED
    BY <1>2, <1>3, <1>6, <2>1 DEF updateAppStatus
<1>7. CASE permanentDeleteApp(o)
  <2>1. Launch(o, [NoOperation EXCEPT !.kind = "delete"])
    BY <1>7 DEF permanentDeleteApp
  <2>2. appRow' = appRow /\ local' = local /\ tables' = tables /\ outside' = outside
    BY <1>7 DEF permanentDeleteApp
  <2>3. appStatus' = appStatus /\ account' = account
    BY <2>2 DEF appRow
  <2>4. QED
    BY <1>2, <1>3, <1>7, <2>1, <2>2, <2>3 DEF permanentDeleteApp
<1>8. CASE reregisterTenantWebhooks(o)
  <2>1. Launch(o, [NoOperation EXCEPT !.kind = "reinstall"])
    BY <1>8 DEF reregisterTenantWebhooks
  <2>2. appRow' = appRow /\ local' = local /\ tables' = tables /\ outside' = outside
    BY <1>8 DEF reregisterTenantWebhooks
  <2>3. appStatus' = appStatus /\ account' = account
    BY <2>2 DEF appRow
  <2>4. QED
    BY <1>2, <1>3, <1>8, <2>1, <2>2, <2>3 DEF reregisterTenantWebhooks
<1>9. QED
  BY <1>4, <1>6, <1>7, <1>8 DEF OpStarts

\* A step of an operation that is alone: it stays so or ends, and no other is.
LEMMA OperationsStep ==
    ASSUME LifecycleTypeOK, OnCourse, Solo, [LifecycleNext]_lifecycleVars
    PROVE  /\ op' \in [Ops -> OperationTypes]
           /\ \A o \in Ops : op'[o].kind = "deploy" => op'[o].version \in Versions
           /\ OnCourse' /\ Solo'
<1>1. ASSUME NEW o \in Ops, OpStarts(o)
      PROVE  /\ op' \in [Ops -> OperationTypes]
             /\ \A p \in Ops : op'[p].kind = "deploy" => op'[p].version \in Versions
             /\ OnCourse' /\ Solo'
  <2>1. PICK new \in OperationTypes :
            /\ Launch(o, new) /\ new.kind \in DOMAIN Course
            /\ new.kind = "deploy" => new.version \in Versions
            /\ ~new.failed /\ ~new.faulty
    BY <1>1, StartsLaunch
  <2>2. /\ op' \in [Ops -> OperationTypes]
        /\ op'[o].kind = new.kind /\ op'[o].at = FirstStep[new.kind]
        /\ op'[o].kind = "deploy" => op'[o].version \in Versions
        /\ op'[o].alone => \A p \in Ops \ {o} : ~UnderWay(p)
        /\ \A p \in Ops \ {o} : \/ UnderWay(p) /\ op'[p] = Joined(op[p])
                                \/ ~UnderWay(p) /\ op'[p] \in {op[p], Spent}
        /\ \A p \in Ops \ {o} : op'[p].alone => op[p].kind = "none" /\ op'[p] = op[p]
    BY <2>1, Launched
  <2>3. \A p \in Ops : /\ Joined(op[p]).kind = op[p].kind /\ Joined(op[p]).at = op[p].at
                       /\ Joined(op[p]).version = op[p].version
    BY DEF LifecycleTypeOK, OperationTypes, Joined
  <2>4. \A p \in Ops : op'[p].kind = "deploy" => op'[p].version \in Versions
    <3>1. ASSUME NEW p \in Ops \ {o}, op'[p].kind = "deploy" PROVE op'[p].version \in Versions
      <4>1. op'[p] = op[p] \/ op'[p] = Joined(op[p])
        BY <2>2, <3>1, OperationRecords
      <4>2. op[p].kind = "deploy" /\ op'[p].version = op[p].version
        BY <2>3, <3>1, <4>1
      <4>3. QED
        BY <4>2 DEF LifecycleTypeOK
    <3>2. QED
      BY <2>2, <3>1
  <2>5. \A p \in Ops \ {o} : \/ op'[p] \in {NoOperation, Spent}
                             \/ op'[p].kind \in DOMAIN Course /\ op'[p].at \in Course[op'[p].kind]
    <3> SUFFICES ASSUME NEW p \in Ops \ {o}
                 PROVE  \/ op'[p] \in {NoOperation, Spent}
                        \/ op'[p].kind \in DOMAIN Course /\ op'[p].at \in Course[op'[p].kind]
      OBVIOUS
    <3>1. CASE UnderWay(p) /\ op'[p] = Joined(op[p])
      <4>1. op[p].kind \in DOMAIN Course /\ op[p].at \in Course[op[p].kind]
        BY <3>1, OperationRecords DEF OnCourse, UnderWay
      <4>2. op'[p].kind = op[p].kind /\ op'[p].at = op[p].at
        BY <2>3, <3>1
      <4>3. QED
        BY <4>1, <4>2
    <3>2. CASE op'[p] \in {op[p], Spent}
      BY <3>2 DEF OnCourse
    <3>3. QED
      BY <2>2, <3>1, <3>2
  <2>6. op'[o].kind \in DOMAIN Course /\ op'[o].at \in Course[op'[o].kind]
    BY <2>1, <2>2, StepNames
  <2>7. OnCourse'
    BY <2>5, <2>6 DEF OnCourse
  <2>8. \A p \in Ops \ {o} : ~op'[p].alone
    BY <2>2, OperationRecords, StepNames DEF OnCourse
  <2>9. op'[o].alone => \A p \in Ops \ {o} : op'[p].at = "over"
    BY <2>2, OperationRecords DEF UnderWay
  <2>10. Solo'
    BY <2>8, <2>9 DEF Solo, UnderWay
  <2>11. QED
    BY <2>2, <2>4, <2>7, <2>10
<1>2. ASSUME NEW o \in Ops, OpStep(o)
      PROVE  /\ op' \in [Ops -> OperationTypes]
             /\ \A p \in Ops : op'[p].kind = "deploy" => op'[p].version \in Versions
             /\ OnCourse' /\ Solo'
  <2>1. PICK changed \in OperationTypes, step \in OpSteps :
            /\ MoveTo(o, changed, step) /\ Same(op[o], changed)
            /\ op[o].kind \in DOMAIN Course /\ step \in Course[op[o].kind]
    BY <1>2, StepMoves
  <2>2. /\ op' \in [Ops -> OperationTypes]
        /\ \A p \in Ops \ {o} : op'[p] = op[p]
        /\ step # "over" => op'[o] = [changed EXCEPT !.at = step]
        /\ step = "over" => op'[o] = Over(changed)
    BY <2>1, Moves
  <2>3. CASE ~changed.alone /\ step = "over"
    <3>1. op'[o] = Spent
      BY <2>2, <2>3 DEF Over
    <3>2. \A p \in Ops : op'[p].kind = "deploy" => op'[p].version \in Versions
      BY <2>2, <3>1, OperationRecords DEF LifecycleTypeOK
    <3>3. OnCourse'
      BY <2>2, <3>1 DEF OnCourse
    <3>4. Solo'
      BY <2>2, <3>1, OperationRecords DEF Solo, UnderWay
    <3>5. QED
      BY <2>2, <3>2, <3>3, <3>4
  <2>4. CASE changed.alone \/ step # "over"
    <3>1. /\ op'[o].at = step /\ op'[o].kind = changed.kind /\ op'[o].version = changed.version
          /\ op'[o].alone = changed.alone
      <4>1. CASE step # "over"
        BY <2>2, <4>1 DEF OperationTypes
      <4>2. CASE step = "over"
        <5>1. op'[o] = [changed EXCEPT !.at = "over", !.found = NoOperation.found, !.prior = {}]
          BY <2>2, <2>4, <4>2 DEF Over
        <5>2. QED
          BY <4>2, <5>1 DEF OperationTypes
      <4>3. QED
        BY <4>1, <4>2
    <3>2. /\ op'[o].kind = op[o].kind /\ op'[o].alone = op[o].alone
          /\ op'[o].kind = "deploy" => op'[o].version = op[o].version
      BY <2>1, <3>1 DEF Same
    <3>3. \A p \in Ops : op'[p].kind = "deploy" => op'[p].version \in Versions
      BY <2>2, <3>2 DEF LifecycleTypeOK
    <3>4. OnCourse'
      BY <2>1, <2>2, <3>1, <3>2 DEF OnCourse
    <3>5. Solo'
      BY <2>2, <3>2, StepUnderWay, <1>2 DEF Solo, UnderWay
    <3>6. QED
      BY <2>2, <3>3, <3>4, <3>5
  <2>5. QED
    BY <2>3, <2>4
<1>3. CASE UNCHANGED lifecycleVars
  BY <1>3 DEF lifecycleVars, LifecycleTypeOK, OnCourse, Solo, UnderWay
<1>4. QED
  BY <1>1, <1>2, <1>3 DEF LifecycleNext

LEMMA LifecycleTypeStep ==
    ASSUME LifecycleTypeOK, OnCourse, Solo, [LifecycleNext]_lifecycleVars
    PROVE  LifecycleTypeOK'
<1>1. ASSUME NEW o \in Ops, OpStarts(o) PROVE LifecycleTypeOK'
  <2>1. opFaults' = opFaults
    BY <1>1, StartsLaunch DEF Launch, NoOpFault
  <2>2. appStatus' \in {"draft", "active", "inactive", "deleted", "gone"}
    BY <1>1, StartsLaunch DEF LifecycleTypeOK
  <2>3. UNCHANGED <<local, account, funcs, subs, accounts, hooks, minted, ticks, schema, service>>
    BY <1>1, StartsLaunch DEF tables, outside
  <2>4. /\ op' \in [Ops -> OperationTypes]
        /\ \A p \in Ops : op'[p].kind = "deploy" => op'[p].version \in Versions
    BY <1>1, OperationsStep DEF LifecycleNext
  <2>5. subs' \in [Topics -> SubTypes'] /\ hooks' \in [Topics -> 0 .. minted']
    BY <2>3 DEF LifecycleTypeOK, SubTypes
  <2>6. QED
    BY <2>1, <2>2, <2>3, <2>4, <2>5 DEF LifecycleTypeOK
<1>2. ASSUME NEW o \in Ops, OpStep(o) PROVE LifecycleTypeOK'
  <2>1. op[o] \in OperationTypes
    BY DEF LifecycleTypeOK
  <2>2. local' = local /\ ticks' \in BOOLEAN /\ schema' \in BOOLEAN
    BY <1>2, <2>1 DEF LifecycleTypeOK, OperationTypes, appRow, tables, outside, OpStep,
         StepFails, provisionHandlerSa, buildAndPushImage, runMigrations, runHandler,
         deactivatePrior, insertActive, noTopics, listShopifyWebhooks, createShopifyWebhooks,
         createRefused, reconcile, scheduleAppCron, getLatestDeployedVersion, readSubscriptions,
         unregisterShopifyWebhooks, unscheduleAppCron, deleteCloudRunService,
         deactivateAppInfrastructure, deleteServiceAccount, dropAppSchema, hardDeleteApp
  <2>3. /\ appStatus' \in {"draft", "active", "inactive", "deleted", "gone"}
        /\ account' \in Nat /\ accounts' \subseteq Nat
    BY <1>2 DEF LifecycleTypeOK, appRow, outside, OpStep,
         StepFails, provisionHandlerSa, buildAndPushImage, runMigrations, runHandler,
         deactivatePrior, insertActive, noTopics, listShopifyWebhooks, createShopifyWebhooks,
         createRefused, reconcile, scheduleAppCron, getLatestDeployedVersion, readSubscriptions,
         unregisterShopifyWebhooks, unscheduleAppCron, deleteCloudRunService,
         deactivateAppInfrastructure, deleteServiceAccount, dropAppSchema, hardDeleteApp
  <2>4. opFaults' \in 0 .. MaxOpFaults
    <3>1. MaxOpFaults \in Nat
      BY LifecycleAssumption
    <3>2. QED
      BY <1>2, <3>1 DEF LifecycleTypeOK, NoOpFault, OpFault, OpStep,
         StepFails, provisionHandlerSa, buildAndPushImage, runMigrations, runHandler,
         deactivatePrior, insertActive, noTopics, listShopifyWebhooks, createShopifyWebhooks,
         createRefused, reconcile, scheduleAppCron, getLatestDeployedVersion, readSubscriptions,
         unregisterShopifyWebhooks, unscheduleAppCron, deleteCloudRunService,
         deactivateAppInfrastructure, deleteServiceAccount, dropAppSchema, hardDeleteApp
  <2>5. minted' \in Nat /\ hooks' \in [Topics -> 0 .. minted']
    <3>1. CASE createShopifyWebhooks(o)
      BY <3>1 DEF createShopifyWebhooks, LifecycleTypeOK
    <3>2. CASE reconcile(o)
      BY <3>2 DEF reconcile, LifecycleTypeOK
    <3>3. CASE unregisterShopifyWebhooks(o)
      BY <3>3 DEF unregisterShopifyWebhooks, LifecycleTypeOK
    <3>4. CASE minted' = minted /\ hooks' = hooks
      BY <3>4 DEF LifecycleTypeOK
    <3>5. QED
      BY <1>2, <3>1, <3>2, <3>3, <3>4 DEF outside, OpStep,
         StepFails, provisionHandlerSa, buildAndPushImage, runMigrations, runHandler,
         deactivatePrior, insertActive, noTopics, listShopifyWebhooks, createShopifyWebhooks,
         createRefused, reconcile, scheduleAppCron, getLatestDeployedVersion, readSubscriptions,
         unregisterShopifyWebhooks, unscheduleAppCron, deleteCloudRunService,
         deactivateAppInfrastructure, deleteServiceAccount, dropAppSchema, hardDeleteApp
  <2>6. service' \in [version : Versions \cup {None}, runner : BOOLEAN]
    <3>1. Down \in [version : Versions \cup {None}, runner : BOOLEAN]
      BY DEF Down
    <3>2. CASE runHandler(o)
      <4>1. op[o].kind = "deploy" => Bundle[op[o].version].cron \in BOOLEAN
        BY LifecycleAssumption DEF LifecycleTypeOK
      <4>2. QED
        BY <2>1, <3>2, <4>1 DEF runHandler, OperationTypes
    <3>3. CASE service' = service \/ service' = Down
      BY <3>1, <3>3 DEF LifecycleTypeOK
    <3>4. QED
      BY <1>2, <3>2, <3>3 DEF outside, OpStep,
         StepFails, provisionHandlerSa, buildAndPushImage, runMigrations, runHandler,
         deactivatePrior, insertActive, noTopics, listShopifyWebhooks, createShopifyWebhooks,
         createRefused, reconcile, scheduleAppCron, getLatestDeployedVersion, readSubscriptions,
         unregisterShopifyWebhooks, unscheduleAppCron, deleteCloudRunService,
         deactivateAppInfrastructure, deleteServiceAccount, dropAppSchema, hardDeleteApp
  <2>7. funcs' \in Seq(FuncTypes) /\ subs' \in [Topics -> SubTypes']
    <3>1. CASE insertActive(o)
      <4> DEFINE rest == [i \in DOMAIN funcs |-> IF i \in op[o].prior THEN [funcs[i] EXCEPT !.active = FALSE]
                                               ELSE funcs[i]]
                 new == [version |-> op[o].version, cron |-> op[o].cron, active |-> TRUE]
      <4>1. CASE funcs' = Append(rest, new) /\ op[o].version \in Recorded
        <5>1. rest \in Seq(FuncTypes) /\ Len(rest) = Len(funcs)
          <6>1. DOMAIN funcs = 1 .. Len(funcs) /\ Len(funcs) \in Nat
            BY DEF LifecycleTypeOK
          <6>2. \A i \in 1 .. Len(funcs) : rest[i] \in FuncTypes
            <7>1. \A i \in 1 .. Len(funcs) : funcs[i] \in FuncTypes
              BY DEF LifecycleTypeOK
            <7>2. \A r \in FuncTypes : [r EXCEPT !.active = FALSE] \in FuncTypes
              BY DEF FuncTypes
            <7>3. QED
              BY <6>1, <7>1, <7>2
          <6>3. rest \in [1 .. Len(funcs) -> FuncTypes]
            BY <6>1, <6>2
          <6>4. QED
            BY <6>1, <6>3
        <5>2. new \in FuncTypes
          BY <2>1, <4>1 DEF FuncTypes, OperationTypes
        <5>3. funcs' \in Seq(FuncTypes) /\ Len(funcs') = Len(funcs) + 1
          <6> HIDE DEF rest, new
          <6>1. QED
            BY <4>1, <5>1, <5>2
        <5>4. subs' = subs
          BY <3>1 DEF insertActive
        <5>5. \A t \in Topics : subs[t] \in [func : 0 .. Len(funcs) + 1, hook : Nat, active : BOOLEAN]
          <6>1. Len(funcs) \in Nat
            BY DEF LifecycleTypeOK
          <6>2. QED
            BY <6>1 DEF LifecycleTypeOK, SubTypes
        <5>6. QED
          BY <5>3, <5>4, <5>5 DEF SubTypes, LifecycleTypeOK
      <4>2. CASE funcs' = funcs
        BY <3>1, <4>2 DEF insertActive, LifecycleTypeOK, SubTypes
      <4>3. QED
        BY <3>1, <4>1, <4>2 DEF insertActive
    <3>2. CASE noTopics(o) \/ reconcile(o)
      <4>1. funcs' = funcs
        BY <3>2 DEF noTopics, reconcile
      <4>2. subs' \in [Topics -> SubTypes]
        <5>1. \A t \in Topics : subs[t] \in SubTypes /\ [subs[t] EXCEPT !.active = FALSE] \in SubTypes
          BY DEF LifecycleTypeOK, SubTypes
        <5>2. CASE noTopics(o)
          BY <5>1, <5>2 DEF noTopics, Deactivate, LifecycleTypeOK
        <5>3. CASE reconcile(o)
          <6>1. op[o].func \in DOMAIN funcs =>
                   \A t \in Topics : [func |-> op[o].func, hook |-> op[o].found[t], active |-> TRUE] \in SubTypes
            BY <2>1 DEF OperationTypes, SubTypes, LifecycleTypeOK
          <6>2. QED
            BY <5>1, <5>3, <6>1 DEF reconcile, LifecycleTypeOK
        <5>4. QED
          BY <3>2, <5>2, <5>3
      <4>3. QED
        BY <4>1, <4>2 DEF LifecycleTypeOK, SubTypes
    <3>3. CASE hardDeleteApp(o)
      BY <3>3 DEF hardDeleteApp, NoSub, SubTypes
    <3>4. CASE funcs' = funcs /\ subs' = subs
      BY <3>4 DEF LifecycleTypeOK, SubTypes
    <3>5. QED
      BY <1>2, <3>1, <3>2, <3>3, <3>4 DEF tables, OpStep,
         StepFails, provisionHandlerSa, buildAndPushImage, runMigrations, runHandler,
         deactivatePrior, insertActive, noTopics, listShopifyWebhooks, createShopifyWebhooks,
         createRefused, reconcile, scheduleAppCron, getLatestDeployedVersion, readSubscriptions,
         unregisterShopifyWebhooks, unscheduleAppCron, deleteCloudRunService,
         deactivateAppInfrastructure, deleteServiceAccount, dropAppSchema, hardDeleteApp
  <2>8. QED
    BY <1>2, <2>2, <2>3, <2>4, <2>5, <2>6, <2>7, OperationsStep DEF LifecycleTypeOK, LifecycleNext
<1>3. CASE UNCHANGED lifecycleVars
  BY <1>3 DEF lifecycleVars, appRow, tables, outside, LifecycleTypeOK, SubTypes
<1>4. QED
  BY <1>1, <1>2, <1>3 DEF LifecycleNext

LEMMA GoneIsEmptyStep ==
    ASSUME LifecycleInv, [LifecycleNext]_lifecycleVars
    PROVE  GoneIsEmpty'
<1> USE DEF LifecycleInv, GoneIsEmpty
<1>1. ASSUME NEW o \in Ops, OpStarts(o) PROVE GoneIsEmpty'
  BY <1>1, StartsLaunch DEF tables
<1>2. ASSUME NEW o \in Ops, OpStep(o) PROVE GoneIsEmpty'
  <2>1. CASE insertActive(o)
    BY <2>1 DEF insertActive, appRow
  <2>2. CASE noTopics(o)
    <3>1. \A t \in Topics : [subs[t] EXCEPT !.active = FALSE].func = subs[t].func
      BY DEF LifecycleTypeOK, SubTypes
    <3>2. appStatus' = appStatus /\ funcs' = funcs
      BY <2>2 DEF noTopics, appRow
    <3>3. \A t \in Topics : subs'[t].func = subs[t].func
      BY <2>2, <3>1 DEF noTopics, Deactivate
    <3>4. QED
      BY <3>2, <3>3
  <2>3. CASE reconcile(o)
    BY <2>3 DEF reconcile, appRow
  <2>4. CASE hardDeleteApp(o)
    BY <2>4 DEF hardDeleteApp, NoSub
  <2>5. CASE appStatus' = appStatus /\ funcs' = funcs /\ subs' = subs
    BY <2>5
  <2>6. QED
    BY <1>2, <2>1, <2>2, <2>3, <2>4, <2>5 DEF appRow, tables, OpStep,
         StepFails, provisionHandlerSa, buildAndPushImage, runMigrations, runHandler,
         deactivatePrior, insertActive, noTopics, listShopifyWebhooks, createShopifyWebhooks,
         createRefused, reconcile, scheduleAppCron, getLatestDeployedVersion, readSubscriptions,
         unregisterShopifyWebhooks, unscheduleAppCron, deleteCloudRunService,
         deactivateAppInfrastructure, deleteServiceAccount, dropAppSchema, hardDeleteApp
<1>3. CASE UNCHANGED lifecycleVars
  BY <1>3 DEF lifecycleVars, appRow, tables
<1>4. QED
  BY <1>1, <1>2, <1>3 DEF LifecycleNext

\* What the ways an operation moves on leave of its record when it is alone.
LEMMA DoneAlone ==
    ASSUME LifecycleTypeOK, OnCourse, NEW o \in Ops, OpStep(o), op'[o].alone,
           NEW changed, Same(op[o], changed), NEW next, next \in OpSteps, MoveTo(o, changed, next)
    PROVE  /\ op'[o].at = next /\ op'[o].kind = changed.kind /\ op'[o].version = changed.version
           /\ op'[o].cron = changed.cron /\ op'[o].topics = changed.topics
           /\ op'[o].func = changed.func /\ op'[o].failed = changed.failed
           /\ op'[o].faulty = changed.faulty /\ op'[o].before = changed.before
           /\ next # "over" => op'[o].found = changed.found /\ op'[o].prior = changed.prior
<1>1. changed \in OperationTypes
  BY DEF Same
<1>2. /\ next # "over" => op'[o] = [changed EXCEPT !.at = next]
      /\ next = "over" => op'[o] = Over(changed)
  BY <1>1, Moves
<1>3. changed.alone
  <2>1. CASE next # "over"
    BY <1>1, <1>2, <2>1 DEF OperationTypes
  <2>2. CASE next = "over"
    BY <1>2, <2>2, OperationRecords DEF Over
  <2>3. QED
    BY <2>1, <2>2
<1>4. QED
  BY <1>1, <1>2, <1>3, AloneFields

\* The step a kind of operation takes after s.
LEMMA NextStep ==
    ASSUME LifecycleTypeOK, OnCourse, NEW o \in Ops, OpStep(o)
    PROVE  /\ op[o].kind \in DOMAIN Course /\ op[o].at \in Course[op[o].kind] \ {"over"}
           /\ Then(op[o].kind)[op[o].at] \in OpSteps
           /\ op[o] \in OperationTypes
           /\ op'[o].alone => op[o].alone /\ op'[o].kind = op[o].kind
<1>1. op[o].kind \in DOMAIN Course /\ op[o].at \in Course[op[o].kind] \ {"over"}
  BY StepUnderWay, OperationRecords DEF OnCourse, UnderWay
<1>2. Then(op[o].kind)[op[o].at] \in OpSteps
  BY <1>1, ThenOnCourse, StepNames
<1>3. op[o] \in OperationTypes
  BY DEF LifecycleTypeOK
<1>4. ASSUME op'[o].alone PROVE op[o].alone /\ op'[o].kind = op[o].kind
  <2>1. PICK changed \in OperationTypes, step \in OpSteps :
            MoveTo(o, changed, step) /\ Same(op[o], changed)
    BY StepMoves
  <2>2. /\ step # "over" => op'[o] = [changed EXCEPT !.at = step]
        /\ step = "over" => op'[o] = Over(changed)
    BY <2>1, Moves
  <2>3. CASE step # "over"
    BY <1>4, <2>1, <2>2, <2>3 DEF OperationTypes, Same
  <2>4. CASE step = "over"
    <3>1. changed.alone /\ op'[o] = [changed EXCEPT !.at = "over", !.found = NoOperation.found, !.prior = {}]
      BY <1>4, <2>2, <2>4, OperationRecords DEF Over
    <3>2. QED
      BY <2>1, <3>1 DEF OperationTypes, Same
  <2>5. QED
    BY <2>3, <2>4
<1>5. QED
  BY <1>1, <1>2, <1>3, <1>4

LEMMA AbortAlone ==
    ASSUME LifecycleTypeOK, OnCourse, NEW o \in Ops, OpStep(o), op'[o].alone, Abort(o)
    PROVE  /\ op'[o].failed /\ op'[o].at = "over" /\ op'[o].kind = op[o].kind
           /\ op'[o].func = op[o].func /\ op'[o].before = op[o].before
<1> DEFINE changed == [op[o] EXCEPT !.failed = TRUE]
<1>1. op[o] \in OperationTypes
  BY DEF LifecycleTypeOK
<1>2. Same(op[o], changed)
  BY <1>1, OperationChanges
<1>3. MoveTo(o, changed, "over") /\ "over" \in OpSteps
  BY StepNames DEF Abort, MoveTo
<1>4. changed.failed /\ changed.kind = op[o].kind /\ changed.func = op[o].func /\ changed.before = op[o].before
  BY <1>1 DEF OperationTypes
<1> HIDE DEF changed
<1>5. /\ op'[o].at = "over" /\ op'[o].kind = changed.kind /\ op'[o].func = changed.func
      /\ op'[o].failed = changed.failed /\ op'[o].before = changed.before
  BY <1>2, <1>3, DoneAlone
<1>6. QED
  BY <1>4, <1>5

LEMMA SkipAlone ==
    ASSUME LifecycleTypeOK, OnCourse, NEW o \in Ops, OpStep(o), op'[o].alone,
           NEW step \in OpSteps, SkipTo(o, step)
    PROVE  /\ op'[o].faulty /\ op'[o].at = step /\ op'[o].kind = op[o].kind
<1> DEFINE changed == [op[o] EXCEPT !.faulty = op[o].alone]
<1>1. op[o] \in OperationTypes /\ op[o].alone
  BY NextStep
<1>2. Same(op[o], changed)
  BY <1>1, OperationChanges
<1>3. MoveTo(o, changed, step)
  BY DEF SkipTo
<1>4. changed.faulty /\ changed.kind = op[o].kind
  BY <1>1 DEF OperationTypes
<1> HIDE DEF changed
<1>5. op'[o].at = step /\ op'[o].kind = changed.kind /\ op'[o].faulty = changed.faulty
  BY <1>2, <1>3, DoneAlone
<1>6. QED
  BY <1>4, <1>5

LEMMA InPlaceStep ==
    ASSUME LifecycleInv, [LifecycleNext]_lifecycleVars
    PROVE  InPlace'
<1> DEFINE Placed(p) == /\ op[p].kind = "deploy" => op[p].at \in {"provision", "build", "over"}
                        /\ op[p].kind = "deploy" /\ op[p].at = "over" => op[p].failed
<1>1. LifecycleTypeOK /\ OnCourse /\ Solo /\ InPlace
  BY DEF LifecycleInv
<1>2. ~local => \A p \in Ops : Placed(p)
  BY <1>1 DEF InPlace, UnderWay
<1>3. ASSUME NEW o \in Ops, OpStarts(o) PROVE InPlace'
  <2>1. local' = local /\ account' = account /\ funcs' = funcs
    BY <1>3, StartsLaunch DEF tables
  <2>2. PICK new \in OperationTypes :
            /\ Launch(o, new) /\ new.kind \in DOMAIN Course
            /\ new.kind = "deploy" => new.version \in Versions
            /\ ~new.failed /\ ~new.faulty
    BY <1>3, StartsLaunch
  <2>3. /\ op'[o].kind = new.kind /\ op'[o].at = FirstStep[new.kind]
        /\ \A p \in Ops \ {o} : \/ UnderWay(p) /\ op'[p] = Joined(op[p])
                                \/ ~UnderWay(p) /\ op'[p] \in {op[p], Spent}
    BY <1>1, <2>2, Launched
  <2>4. \A p \in Ops : /\ Joined(op[p]).kind = op[p].kind /\ Joined(op[p]).at = op[p].at
                       /\ Joined(op[p]).failed = op[p].failed
    BY <1>1 DEF LifecycleTypeOK, OperationTypes, Joined
  <2>5. Placed(o)'
    BY <2>3 DEF FirstStep
  <2>6. ASSUME ~local, NEW p \in Ops \ {o} PROVE Placed(p)'
    <3>1. op'[p] = Joined(op[p]) \/ op'[p] = op[p] \/ op'[p] = Spent
      BY <2>3
    <3>2. QED
      BY <1>2, <2>4, <2>6, <3>1, OperationRecords
  <2>7. QED
    BY <1>1, <2>1, <2>5, <2>6 DEF InPlace, UnderWay
<1>4. ASSUME NEW o \in Ops, OpStep(o) PROVE InPlace'
  <2>1. local' = local
    BY <1>4 DEF OpStep,
         StepFails, provisionHandlerSa, buildAndPushImage, runMigrations, runHandler,
         deactivatePrior, insertActive, noTopics, listShopifyWebhooks, createShopifyWebhooks,
         createRefused, reconcile, scheduleAppCron, getLatestDeployedVersion, readSubscriptions,
         unregisterShopifyWebhooks, unscheduleAppCron, deleteCloudRunService,
         deactivateAppInfrastructure, deleteServiceAccount, dropAppSchema, hardDeleteApp
  <2>2. ASSUME local PROVE account' = 0
    BY <1>1, <1>4, <2>2 DEF InPlace, appRow, OpStep,
         StepFails, provisionHandlerSa, buildAndPushImage, runMigrations, runHandler,
         deactivatePrior, insertActive, noTopics, listShopifyWebhooks, createShopifyWebhooks,
         createRefused, reconcile, scheduleAppCron, getLatestDeployedVersion, readSubscriptions,
         unregisterShopifyWebhooks, unscheduleAppCron, deleteCloudRunService,
         deactivateAppInfrastructure, deleteServiceAccount, dropAppSchema, hardDeleteApp
  <2>3. ASSUME ~local PROVE Placed(o)'
    <3>1. CASE op'[o].kind # "deploy"
      BY <3>1
    <3>2. CASE op'[o].kind = "deploy"
      <4>1. PICK changed \in OperationTypes, step \in OpSteps :
                /\ MoveTo(o, changed, step) /\ Same(op[o], changed)
        BY <1>1, <1>4, StepMoves
      <4>2. /\ step # "over" => op'[o] = [changed EXCEPT !.at = step]
            /\ step = "over" => op'[o] = Over(changed)
        BY <1>1, <4>1, Moves
      <4>3. op[o].kind = "deploy"
        <5>1. op'[o] # Spent
          BY <3>2, OperationRecords
        <5>2. step = "over" => op'[o] = [changed EXCEPT !.at = "over", !.found = NoOperation.found, !.prior = {}]
          BY <4>2, <5>1 DEF Over
        <5>3. op'[o].kind = changed.kind
          BY <4>2, <5>2 DEF OperationTypes
        <5>4. QED
          BY <3>2, <4>1, <5>3 DEF Same
      <4>4. op[o].at \in {"provision", "build"}
        BY <1>2, <1>4, <2>3, <4>3, StepUnderWay DEF UnderWay
      <4>5. CASE Abort(o)
        <5>1. op'[o] = Over([op[o] EXCEPT !.failed = TRUE]) /\ op[o] \in OperationTypes
          BY <1>1, <4>5 DEF Abort, LifecycleTypeOK
        <5>2. op'[o] # Spent
          BY <3>2, OperationRecords
        <5>3. op'[o] = [[op[o] EXCEPT !.failed = TRUE] EXCEPT !.at = "over", !.found = NoOperation.found,
                                                             !.prior = {}]
          BY <5>1, <5>2 DEF Over
        <5>4. QED
          BY <5>1, <5>3 DEF OperationTypes
      <4>6. CASE provisionHandlerSa(o)
        <5>1. MoveTo(o, op[o], "build")
          BY <4>3, <4>6 DEF provisionHandlerSa, Done, At, Then
        <5>2. op'[o] = [op[o] EXCEPT !.at = "build"] /\ op[o] \in OperationTypes
          BY <1>1, <5>1 DEF MoveTo, LifecycleTypeOK
        <5>3. QED
          BY <5>2 DEF OperationTypes
      <4>7. QED
        BY <1>4, <2>3, <4>3, <4>4, <4>5, <4>6 DEF At, Swallowed, OpStep,
         StepFails, provisionHandlerSa, buildAndPushImage, runMigrations, runHandler,
         deactivatePrior, insertActive, noTopics, listShopifyWebhooks, createShopifyWebhooks,
         createRefused, reconcile, scheduleAppCron, getLatestDeployedVersion, readSubscriptions,
         unregisterShopifyWebhooks, unscheduleAppCron, deleteCloudRunService,
         deactivateAppInfrastructure, deleteServiceAccount, dropAppSchema, hardDeleteApp
    <3>3. QED
      BY <3>1, <3>2
  <2>4. \A p \in Ops \ {o} : op'[p] = op[p]
    BY <1>1, <1>4, StepMoves, Moves
  <2>5. ASSUME ~local PROVE funcs' # <<>> => Len(funcs') = 1 /\ funcs'[1].active
    <3>1. ~insertActive(o)
      <4>1. op[o].kind = "deploy" => op[o].at \in {"provision", "build", "over"}
        BY <1>2, <2>5
      <4>2. op[o].at = "insert" => op[o].kind = "deploy"
        BY <1>1, <1>4, NextStep, StepNames DEF Course
      <4>3. QED
        BY <4>1, <4>2 DEF insertActive, At
    <3>2. funcs' = funcs \/ funcs' = <<>>
      BY <1>4, <3>1 DEF tables, OpStep,
         StepFails, provisionHandlerSa, buildAndPushImage, runMigrations, runHandler,
         deactivatePrior, insertActive, noTopics, listShopifyWebhooks, createShopifyWebhooks,
         createRefused, reconcile, scheduleAppCron, getLatestDeployedVersion, readSubscriptions,
         unregisterShopifyWebhooks, unscheduleAppCron, deleteCloudRunService,
         deactivateAppInfrastructure, deleteServiceAccount, dropAppSchema, hardDeleteApp
    <3>3. QED
      BY <1>1, <2>5, <3>2 DEF InPlace
  <2>6. QED
    BY <1>2, <2>1, <2>2, <2>3, <2>4, <2>5 DEF InPlace, UnderWay
<1>5. CASE UNCHANGED lifecycleVars
  BY <1>1, <1>5 DEF lifecycleVars, appRow, tables, InPlace, UnderWay
<1>6. QED
  BY <1>3, <1>4, <1>5 DEF LifecycleNext

LEMMA TablesFrame ==
    ASSUME funcs' = funcs, subs' = subs
    PROVE  Routed' = Routed /\ ActiveRows' = ActiveRows
BY DEF Routed, ActiveRows

\* A deploy that is alone takes one more step.
LEMMA DeployAloneStep ==
    ASSUME LifecycleInv, NEW o \in Ops, OpStep(o), op'[o].alone, op[o].kind = "deploy"
    PROVE  DeployAlone(o)'
<1> DEFINE r == op[o]
           y == op'[o]
           Passed(at) == /\ y.at = at /\ y.version = r.version /\ y.cron = r.cron
                         /\ y.topics = r.topics /\ y.failed = r.failed
                         /\ y.faulty = r.faulty /\ y.before = r.before
<1>1. LifecycleTypeOK /\ OnCourse
  BY DEF LifecycleInv
<1>2. /\ r \in OperationTypes /\ r.alone /\ y.kind = "deploy"
      /\ r.at \in {"provision", "build", "migrate", "run", "update", "insert", "list", "create",
                   "reconcile", "schedule"}
  BY <1>1, NextStep DEF Course
<1>3. DeployAlone(o)
  BY <1>2 DEF LifecycleInv, SoFar
<1>4. ASSUME Abort(o), Routed' = Routed PROVE DeployAlone(o)'
  <2>1. y.failed /\ y.at = "over" /\ y.func = r.func /\ y.before = r.before
    BY <1>1, <1>4, AbortAlone
  <2>2. QED
    BY <1>3, <1>4, <2>1 DEF DeployAlone
<1>5. ASSUME NEW changed, Same(r, changed), NEW at \in OpSteps, MoveTo(o, changed, at),
             changed.cron = r.cron, changed.topics = r.topics, changed.failed = r.failed,
             changed.faulty = r.faulty
      PROVE  /\ Passed(at) /\ y.func = changed.func
             /\ at # "over" => y.found = changed.found /\ y.prior = changed.prior
  <2>1. /\ y.at = at /\ y.kind = changed.kind /\ y.version = changed.version
        /\ y.cron = changed.cron /\ y.topics = changed.topics
        /\ y.func = changed.func /\ y.failed = changed.failed
        /\ y.faulty = changed.faulty /\ y.before = changed.before
        /\ at # "over" => y.found = changed.found /\ y.prior = changed.prior
    BY <1>1, <1>5, DoneAlone
  <2>2. changed.version = r.version /\ changed.before = r.before
    BY <1>5 DEF Same
  <2>3. QED
    BY <1>5, <2>1, <2>2
<1>6. ASSUME NEW at \in OpSteps, MoveTo(o, r, at)
      PROVE  /\ Passed(at) /\ y.func = r.func
             /\ at # "over" => y.found = r.found /\ y.prior = r.prior
  BY <1>2, <1>5, <1>6, OperationChanges
<1> HIDE DEF y
<1>7. CASE StepFails(o)
  <2>1. Abort(o)
    BY <1>2, <1>7 DEF StepFails, Swallowed, At
  <2>2. Routed' = Routed
    BY <1>7, TablesFrame DEF StepFails, tables
  <2>3. QED
    BY <1>4, <2>1, <2>2
<1>8. CASE provisionHandlerSa(o) \/ buildAndPushImage(o) \/ runMigrations(o)
  <2>1. Routed' = Routed
    BY <1>8, TablesFrame DEF provisionHandlerSa, buildAndPushImage, runMigrations, tables
  <2>2. CASE Abort(o)
    BY <1>4, <2>1, <2>2
  <2>3. CASE ~Abort(o)
    <3>1. PICK at \in {"build", "migrate", "run"} : MoveTo(o, r, at)
      BY <1>8, <2>3 DEF provisionHandlerSa, buildAndPushImage, runMigrations, Done, At, Then
    <3>2. Passed(at) /\ y.func = r.func
      BY <1>6, <3>1, StepNames
    <3>3. QED
      BY <1>3, <2>1, <3>1, <3>2 DEF DeployAlone, y
  <2>4. QED
    BY <2>2, <2>3
<1>9. CASE runHandler(o)
  <2>1. Routed' = Routed
    BY <1>9, TablesFrame DEF runHandler, tables
  <2>2. MoveTo(o, r, "update") /\ service'.version = r.version
    BY <1>9 DEF runHandler, Done, At, Then
  <2>3. Passed("update") /\ y.func = r.func
    BY <1>6, <2>2, StepNames
  <2>4. QED
    BY <1>3, <2>1, <2>2, <2>3 DEF DeployAlone, y
<1>10. CASE deactivatePrior(o)
  <2> DEFINE changed == [r EXCEPT !.prior = ActiveRows]
  <2>1. Routed' = Routed /\ ActiveRows' = ActiveRows /\ service' = service
    BY <1>10, TablesFrame DEF deactivatePrior, tables, outside
  <2>2. MoveTo(o, changed, "insert")
    BY <1>2, <1>10 DEF deactivatePrior, Done, At, Then, ActiveRows
  <2>3. ActiveRows \subseteq Nat
    BY <1>1 DEF ActiveRows, LifecycleTypeOK
  <2>4. Same(r, changed)
    BY <1>2, <2>3, OperationChanges
  <2>5. /\ changed.cron = r.cron /\ changed.topics = r.topics /\ changed.failed = r.failed
        /\ changed.faulty = r.faulty /\ changed.func = r.func /\ changed.prior = ActiveRows
    BY <1>2 DEF OperationTypes
  <2> HIDE DEF changed
  <2>6. Passed("insert") /\ y.func = changed.func /\ y.prior = changed.prior
    BY <1>5, <2>2, <2>4, <2>5, StepNames
  <2>7. r.at = "update"
    BY <1>10 DEF deactivatePrior, At
  <2>8. QED
    BY <1>3, <2>1, <2>5, <2>6, <2>7 DEF DeployAlone, y
<1>11. CASE insertActive(o)
  <2> DEFINE changed == [r EXCEPT !.func = Len(funcs) + 1, !.prior = {}]
             rest == [i \in DOMAIN funcs |-> IF i \in r.prior THEN [funcs[i] EXCEPT !.active = FALSE]
                                           ELSE funcs[i]]
             new == [version |-> r.version, cron |-> r.cron, active |-> TRUE]
  <2>1. CASE Abort(o) /\ UNCHANGED funcs
    <3>1. Routed' = Routed
      BY <1>11, <2>1, TablesFrame DEF insertActive
    <3>2. QED
      BY <1>4, <2>1, <3>1
  <2>2. CASE funcs' = Append(rest, new) /\ Done(o, changed)
    <3>1. MoveTo(o, changed, "list") /\ service' = service
      BY <1>2, <1>11, <2>2 DEF insertActive, Done, At, Then, outside
    <3>2. Len(funcs) \in Nat /\ DOMAIN funcs = 1 .. Len(funcs)
      BY <1>1 DEF LifecycleTypeOK
    <3>3. Same(r, changed)
      <4>1. Len(funcs) + 1 \in Nat
        BY <3>2
      <4>2. QED
        BY <1>2, <4>1, OperationChanges
    <3>4. /\ changed.cron = r.cron /\ changed.topics = r.topics /\ changed.failed = r.failed
          /\ changed.faulty = r.faulty /\ changed.func = Len(funcs) + 1
      BY <1>2 DEF OperationTypes
    <3>5. ASSUME r.prior = ActiveRows PROVE ActiveRows' = {Len(funcs) + 1}
      <4>1. rest \in Seq(FuncTypes) /\ Len(rest) = Len(funcs)
        <5>1. \A i \in 1 .. Len(funcs) : funcs[i] \in FuncTypes
          BY <1>1 DEF LifecycleTypeOK
        <5>2. \A q \in FuncTypes : [q EXCEPT !.active = FALSE] \in FuncTypes
          BY DEF FuncTypes
        <5>3. rest \in [1 .. Len(funcs) -> FuncTypes]
          BY <3>2, <5>1, <5>2
        <5>4. QED
          BY <3>2, <5>3
      <4>2. \A i \in 1 .. Len(funcs) : ~rest[i].active
        <5>1. \A i \in 1 .. Len(funcs) : funcs[i] \in FuncTypes
          BY <1>1 DEF LifecycleTypeOK
        <5>2. \A q \in FuncTypes : ~[q EXCEPT !.active = FALSE].active
          BY DEF FuncTypes
        <5>3. QED
          BY <3>2, <3>5, <5>1, <5>2 DEF ActiveRows
      <4>3. new.active
        OBVIOUS
      <4> HIDE DEF rest, new
      <4>4. /\ DOMAIN funcs' = 1 .. Len(funcs) + 1
            /\ \A i \in 1 .. Len(funcs) : funcs'[i] = rest[i]
            /\ funcs'[Len(funcs) + 1] = new
        BY <2>2, <3>2, <4>1
      <4>5. QED
        BY <3>2, <4>2, <4>3, <4>4 DEF ActiveRows
    <3> HIDE DEF changed, rest, new
    <3>6. Passed("list") /\ y.func = changed.func
      BY <1>5, <3>1, <3>3, <3>4, StepNames
    <3>7. r.at = "insert" /\ Len(funcs) + 1 # 0
      BY <1>11, <3>2 DEF insertActive, At
    <3>8. QED
      BY <1>3, <3>1, <3>4, <3>5, <3>6, <3>7 DEF DeployAlone, y
  <2>3. QED
    BY <1>11, <2>1, <2>2 DEF insertActive
<1>12. CASE noTopics(o)
  <2>1. MoveTo(o, r, "schedule") /\ r.at = "list" /\ r.topics = {}
    BY <1>2, <1>12 DEF noTopics, At, Then
  <2>2. Passed("schedule") /\ y.func = r.func
    BY <1>6, <2>1, StepNames
  <2>3. funcs' = funcs /\ service' = service
    BY <1>12 DEF noTopics, outside
  <2>4. \A t \in Topics : ~subs'[t].active
    <3>1. \A t \in Topics : ~[subs[t] EXCEPT !.active = FALSE].active
      BY <1>1 DEF LifecycleTypeOK, SubTypes
    <3>2. QED
      BY <1>2, <1>12, <3>1 DEF noTopics, Deactivate
  <2>5. Routed' = {} /\ ActiveRows' = ActiveRows
    BY <2>3, <2>4 DEF Routed, ActiveRows
  <2>6. QED
    BY <1>3, <2>1, <2>2, <2>3, <2>5 DEF DeployAlone, HooksMatch, y
<1>13. CASE listShopifyWebhooks(o)
  <2> DEFINE changed == [r EXCEPT !.found = hooks]
  <2>1. /\ Routed' = Routed /\ ActiveRows' = ActiveRows /\ service' = service /\ hooks' = hooks
    BY <1>13, TablesFrame DEF listShopifyWebhooks, tables, outside
  <2>2. MoveTo(o, changed, "create") /\ r.at = "list"
    BY <1>2, <1>13 DEF listShopifyWebhooks, Done, At, Then
  <2>3. hooks \in [Topics -> Nat]
    BY <1>1 DEF LifecycleTypeOK
  <2>4. Same(r, changed)
    BY <1>2, <2>3, OperationChanges
  <2>5. /\ changed.cron = r.cron /\ changed.topics = r.topics /\ changed.failed = r.failed
        /\ changed.faulty = r.faulty /\ changed.func = r.func /\ changed.found = hooks
    BY <1>2 DEF OperationTypes
  <2> HIDE DEF changed
  <2>6. Passed("create") /\ y.func = changed.func /\ y.found = changed.found
    BY <1>5, <2>2, <2>4, <2>5, StepNames
  <2>7. QED
    BY <1>3, <2>1, <2>2, <2>5, <2>6 DEF DeployAlone, y
<1>14. CASE createShopifyWebhooks(o)
  <2> DEFINE found == [t \in Topics |-> IF t \in Missing(o) THEN minted' ELSE r.found[t]]
             changed == [r EXCEPT !.found = found]
  <2>1. /\ Routed' = Routed /\ ActiveRows' = ActiveRows /\ service' = service
    BY <1>14, TablesFrame DEF createShopifyWebhooks, tables
  <2>2. MoveTo(o, changed, "reconcile") /\ r.at = "create"
    BY <1>2, <1>14 DEF createShopifyWebhooks, Done, At, Then
  <2>3. minted' \in Nat /\ (Missing(o) # {} => minted' # 0) /\ r.found \in [Topics -> Nat]
    BY <1>1, <1>2, <1>14 DEF createShopifyWebhooks, LifecycleTypeOK, OperationTypes
  <2>4. found \in [Topics -> Nat]
    BY <2>3
  <2>5. Same(r, changed)
    <3> HIDE DEF found
    <3>1. QED
      BY <1>2, <2>4, OperationChanges
  <2>6. /\ changed.cron = r.cron /\ changed.topics = r.topics /\ changed.failed = r.failed
        /\ changed.faulty = r.faulty /\ changed.func = r.func /\ changed.found = found
    <3> HIDE DEF found
    <3>1. QED
      BY <1>2 DEF OperationTypes
  <2>7. r.found = hooks => found = hooks' /\ \A t \in r.topics : hooks'[t] # 0
    <3>1. r.topics \subseteq Topics
      BY <1>2 DEF OperationTypes
    <3>2. QED
      BY <1>14, <2>3, <3>1 DEF createShopifyWebhooks, Missing
  <2> HIDE DEF changed, found
  <2>8. Passed("reconcile") /\ y.func = changed.func /\ y.found = changed.found
    BY <1>5, <2>2, <2>5, <2>6, StepNames
  <2>9. QED
    BY <1>3, <2>1, <2>2, <2>6, <2>7, <2>8 DEF DeployAlone, y
<1>15. CASE createRefused(o)
  <2>1. Abort(o)
    BY <1>2, <1>15 DEF createRefused
  <2>2. Routed' = Routed
    BY <1>15, TablesFrame DEF createRefused, tables
  <2>3. QED
    BY <1>4, <2>1, <2>2
<1>16. CASE reconcile(o)
  <2> DEFINE changed == [r EXCEPT !.found = NoOperation.found]
  <2>1. CASE Abort(o) /\ UNCHANGED subs
    <3>1. Routed' = Routed
      BY <1>16, <2>1, TablesFrame DEF reconcile
    <3>2. QED
      BY <1>4, <2>1, <3>1
  <2>2. CASE ~(Abort(o) /\ UNCHANGED subs)
    <3>1. /\ Done(o, changed)
          /\ subs' = [t \in Topics |-> IF t \in r.topics
                          THEN [func |-> r.func, hook |-> r.found[t], active |-> TRUE]
                          ELSE [subs[t] EXCEPT !.active = FALSE]]
      BY <1>2, <1>16, <2>2 DEF reconcile
    <3>2. MoveTo(o, changed, "schedule") /\ r.at = "reconcile"
      BY <1>2, <1>16, <3>1 DEF reconcile, Done, At, Then
    <3>3. Same(r, changed)
      BY <1>2, OperationChanges, OperationRecords
    <3>4. /\ changed.cron = r.cron /\ changed.topics = r.topics /\ changed.failed = r.failed
          /\ changed.faulty = r.faulty /\ changed.func = r.func
      BY <1>2 DEF OperationTypes
    <3>5. funcs' = funcs /\ service' = service /\ ActiveRows' = ActiveRows
      BY <1>16 DEF reconcile, ActiveRows
    <3>6. r.topics \subseteq Topics
      BY <1>2 DEF OperationTypes
    <3>7. \A t \in Topics : IF t \in r.topics
                            THEN subs'[t].func = r.func /\ subs'[t].hook = r.found[t] /\ subs'[t].active
                            ELSE ~subs'[t].active
      <4>1. \A t \in Topics : ~[subs[t] EXCEPT !.active = FALSE].active
        BY <1>1 DEF LifecycleTypeOK, SubTypes
      <4>2. QED
        BY <3>1, <4>1
    <3>8. ASSUME ActiveRows = {r.func}, r.func # 0 PROVE Routed' = r.topics \X {r.func}
      <4>1. r.func \in DOMAIN funcs /\ funcs[r.func].active
        BY <3>8 DEF ActiveRows
      <4>2. QED
        BY <3>5, <3>6, <3>7, <3>8, <4>1 DEF Routed
    <3>9. ASSUME r.found = hooks, \A t \in r.topics : hooks[t] # 0 
           PROVE  \A t \in r.topics : subs'[t].hook = hooks'[t] /\ hooks'[t] # 0
      <4>1. \A t \in r.topics : hooks'[t] = hooks[t]
        BY <1>16, <3>6 DEF reconcile
      <4>2. QED
        BY <3>6, <3>7, <3>9, <4>1
    <3> HIDE DEF changed
    <3>10. Passed("schedule") /\ y.func = changed.func
      BY <1>5, <3>2, <3>3, <3>4, StepNames
    <3>11. ASSUME ~y.failed, ~y.faulty
           PROVE  /\ ActiveRows' = {y.func} /\ y.func # 0 /\ service'.version = y.version
                  /\ Routed' = y.topics \X {y.func}
                  /\ \A t \in y.topics : subs'[t].hook = hooks'[t] /\ hooks'[t] # 0
      <4>1. ActiveRows = {r.func} /\ r.func # 0 /\ service.version = r.version
            /\ r.found = hooks /\ \A t \in r.topics : hooks[t] # 0
        BY <1>3, <3>2, <3>10, <3>11 DEF DeployAlone
      <4>2. QED
        BY <3>4, <3>5, <3>8, <3>9, <3>10, <4>1
    <3>12. r.func # 0
      BY <1>3, <3>2 DEF DeployAlone
    <3>13. QED
      BY <3>4, <3>10, <3>11, <3>12 DEF DeployAlone, HooksMatch, y
  <2>3. QED
    BY <2>1, <2>2
<1>17. CASE scheduleAppCron(o)
  <2>1. MoveTo(o, r, "over") /\ r.at = "schedule"
    BY <1>2, <1>17 DEF scheduleAppCron, Done, At, Then
  <2>2. Passed("over") /\ y.func = r.func
    BY <1>6, <2>1, StepNames
  <2>3. /\ Routed' = Routed /\ ActiveRows' = ActiveRows /\ service' = service
        /\ subs' = subs /\ hooks' = hooks /\ ticks' = r.cron
    BY <1>2, <1>17, TablesFrame DEF scheduleAppCron, tables, OperationTypes, LifecycleInv, LifecycleTypeOK
  <2>4. QED
    BY <1>3, <2>1, <2>2, <2>3 DEF DeployAlone, HooksMatch, y
<1>18. QED
  BY <1>2, <1>7, <1>8, <1>9, <1>10, <1>11, <1>12, <1>13, <1>14, <1>15, <1>16, <1>17
     DEF OpStep, At, getLatestDeployedVersion, readSubscriptions, unregisterShopifyWebhooks,
         unscheduleAppCron, deleteCloudRunService, deactivateAppInfrastructure,
         deleteServiceAccount, dropAppSchema, hardDeleteApp

\* A call that fails within an operation that is alone is marked on it.
LEMMA FailsAlone ==
    ASSUME LifecycleInv, NEW o \in Ops, StepFails(o), op'[o].alone
    PROVE  op'[o].failed \/ op'[o].faulty
<1>1. LifecycleTypeOK /\ OnCourse /\ OpStep(o)
  BY DEF LifecycleInv, OpStep
<1>2. op[o] \in OperationTypes /\ op[o].alone /\ Then(op[o].kind)[op[o].at] \in OpSteps
  BY <1>1, NextStep
<1>3. CASE Swallowed(o)
  <2> DEFINE changed == [op[o] EXCEPT !.faulty = op[o].faulty \/ op[o].alone]
  <2>1. Done(o, changed)
    BY <1>3 DEF StepFails
  <2>2. Same(op[o], changed) /\ changed.faulty
    <3>1. op[o].faulty \in BOOLEAN /\ (op[o].faulty \/ op[o].alone) \in BOOLEAN
      BY <1>2 DEF OperationTypes
    <3>2. Same(op[o], changed)
      BY <1>2, <3>1, OperationChanges
    <3>3. QED
      BY <1>2, <3>2 DEF OperationTypes
  <2> HIDE DEF changed
  <2>3. MoveTo(o, changed, Then(op[o].kind)[op[o].at])
    BY <2>1 DEF Done
  <2>4. op'[o].faulty = changed.faulty
    BY <1>1, <1>2, <2>2, <2>3, DoneAlone
  <2>5. QED
    BY <2>2, <2>4
<1>4. CASE ~Swallowed(o)
  <2>1. Abort(o) \/ subscriptionsUnread(o) \/ SkipTo(o, "schedule")
    BY <1>4 DEF StepFails
  <2>2. "schedule" \in OpSteps /\ "unschedule" \in OpSteps
    BY StepNames
  <2>3. CASE subscriptionsUnread(o)
    <3> DEFINE changed == [op[o] EXCEPT !.faulty = op[o].alone, !.sa = account]
    <3>1. Same(op[o], changed) /\ changed.faulty
      <4>1. account \in Nat /\ op[o].alone \in BOOLEAN
        BY <1>1, <1>2 DEF LifecycleTypeOK
      <4>2. Same(op[o], changed)
        BY <1>2, <4>1, OperationChanges
      <4>3. QED
        BY <1>2, <4>2 DEF OperationTypes
    <3>2. MoveTo(o, changed, "unschedule")
      BY <2>3 DEF subscriptionsUnread
    <3> HIDE DEF changed
    <3>3. op'[o].faulty = changed.faulty
      BY <1>1, <1>2, <2>2, <3>1, <3>2, DoneAlone
    <3>4. QED
      BY <3>1, <3>3
  <2>4. QED
    BY <1>1, <2>1, <2>2, <2>3, AbortAlone, SkipAlone
<1>5. QED
  BY <1>3, <1>4

\* A deletion that is alone takes one more step.
LEMMA DeleteAloneStep ==
    ASSUME LifecycleInv, NEW o \in Ops, OpStep(o), op'[o].alone, op[o].kind = "delete"
    PROVE  DeleteAlone(o)'
<1> DEFINE r == op[o]
           y == op'[o]
           Passed(at) == y.at = at /\ y.failed = r.failed /\ y.faulty = r.faulty
<1>1. LifecycleTypeOK /\ OnCourse
  BY DEF LifecycleInv
<1>2. /\ r \in OperationTypes /\ r.alone /\ y.kind = "delete"
      /\ r.at \in {"read", "unregister", "unschedule", "stop", "account", "drop", "hardDelete"}
  BY <1>1, NextStep DEF Course
<1>3. DeleteAlone(o) /\ appStatus # "gone"
  <2>1. DeleteAlone(o)
    BY <1>2 DEF LifecycleInv, SoFar
  <2>2. QED
    BY <2>1, StepUnderWay DEF DeleteAlone
<1>4. ASSUME NEW changed, Same(r, changed), NEW at \in OpSteps, MoveTo(o, changed, at),
             changed.failed = r.failed, changed.faulty = r.faulty
      PROVE  Passed(at)
  <2>1. y.at = at /\ y.failed = changed.failed /\ y.faulty = changed.faulty
    BY <1>1, <1>4, DoneAlone
  <2>2. QED
    BY <1>4, <2>1
<1>5. ASSUME NEW at \in OpSteps, MoveTo(o, r, at) PROVE Passed(at)
  BY <1>2, <1>4, <1>5, OperationChanges
<1>6. UnderWay(o)' => y.at # "over"
  BY DEF UnderWay
<1> HIDE DEF y
<1>7. CASE StepFails(o)
  <2>1. y.failed \/ y.faulty
    BY <1>7, FailsAlone DEF y
  <2>2. appStatus' = appStatus
    BY <1>7 DEF StepFails, appRow
  <2>3. QED
    BY <1>3, <2>1, <2>2 DEF DeleteAlone, y
<1>8. CASE readSubscriptions(o)
  <2> DEFINE f == [t \in Topics |-> IF Subscribed(t) THEN subs[t].hook ELSE 0]
             n == IF \E t \in Topics : Subscribed(t)
                  THEN subs[CHOOSE t \in Topics : Subscribed(t)].func ELSE 0
             ts == {t \in Topics : Subscribed(t)}
             changed == [r EXCEPT !.found = f, !.topics = ts, !.sa = account, !.func = n]
  <2>1. MoveTo(o, changed, "unregister") /\ appStatus' = appStatus
    BY <1>2, <1>3, <1>8 DEF readSubscriptions, Done, At, Then, appRow
  <2>2. Same(r, changed) /\ changed.failed = r.failed /\ changed.faulty = r.faulty
    <3>1. \A t \in Topics : subs[t].func \in Nat /\ subs[t].hook \in Nat
      BY <1>1 DEF LifecycleTypeOK, SubTypes
    <3>2. f \in [Topics -> Nat] /\ n \in Nat /\ account \in Nat
      BY <1>1, <3>1 DEF LifecycleTypeOK
    <3> HIDE DEF f, n
    <3>3. Same(r, changed)
      BY <1>2, <3>2, OperationChanges
    <3>4. QED
      BY <1>2, <3>3 DEF OperationTypes
  <2> HIDE DEF changed
  <2>3. Passed("unregister")
    BY <1>4, <2>1, <2>2, StepNames
  <2>4. QED
    BY <1>3, <2>1, <2>3 DEF DeleteAlone, y
<1>9. CASE unregisterShopifyWebhooks(o)
  <2> DEFINE changed == [r EXCEPT !.found = NoOperation.found]
  <2>1. MoveTo(o, changed, "unschedule") /\ appStatus' = appStatus
    BY <1>2, <1>9 DEF unregisterShopifyWebhooks, Done, At, Then, appRow
  <2>2. Same(r, changed)
    BY <1>2, OperationChanges, OperationRecords
  <2>3. changed.failed = r.failed /\ changed.faulty = r.faulty
    BY <1>2 DEF OperationTypes
  <2> HIDE DEF changed
  <2>4. Passed("unschedule")
    BY <1>4, <2>1, <2>2, <2>3, StepNames
  <2>5. QED
    BY <1>3, <2>1, <2>4 DEF DeleteAlone, y
<1>10. CASE unscheduleAppCron(o)
  <2>1. MoveTo(o, r, "stop") /\ appStatus' = appStatus /\ ~ticks'
    BY <1>2, <1>10 DEF unscheduleAppCron, Done, At, Then, appRow
  <2>2. Passed("stop")
    BY <1>5, <2>1, StepNames
  <2>3. QED
    BY <1>3, <2>1, <2>2 DEF DeleteAlone, y
<1>11. CASE deleteCloudRunService(o)
  <2>1. MoveTo(o, r, "account") /\ r.at = "stop"
    BY <1>2, <1>11 DEF deleteCloudRunService, Done, At, Then
  <2>2. appStatus' = appStatus /\ ticks' = ticks /\ (~local' => service' = Down)
    BY <1>11 DEF deleteCloudRunService, appRow
  <2>3. Passed("account")
    BY <1>5, <2>1, StepNames
  <2>4. QED
    BY <1>3, <2>1, <2>2, <2>3 DEF DeleteAlone, y
<1>12. CASE deleteServiceAccount(o)
  <2>1. MoveTo(o, r, "drop") /\ r.at = "account"
    BY <1>2, <1>12 DEF deleteServiceAccount, Done, At, Then
  <2>2. appStatus' = appStatus /\ ticks' = ticks /\ local' = local /\ service' = service
    BY <1>12 DEF deleteServiceAccount, appRow
  <2>3. Passed("drop")
    BY <1>5, <2>1, StepNames
  <2>4. QED
    BY <1>3, <2>1, <2>2, <2>3 DEF DeleteAlone, y
<1>13. CASE dropAppSchema(o)
  <2>1. MoveTo(o, r, "hardDelete") /\ r.at = "drop"
    BY <1>2, <1>13 DEF dropAppSchema, Done, At, Then
  <2>2. appStatus' = appStatus /\ ticks' = ticks /\ local' = local /\ service' = service /\ ~schema'
    BY <1>13 DEF dropAppSchema, appRow
  <2>3. Passed("hardDelete")
    BY <1>5, <2>1, StepNames
  <2>4. QED
    BY <1>3, <2>1, <2>2, <2>3 DEF DeleteAlone, y
<1>14. CASE hardDeleteApp(o)
  <2>1. MoveTo(o, r, "over") /\ r.at = "hardDelete"
    BY <1>2, <1>14 DEF hardDeleteApp, Done, At, Then
  <2>2. ticks' = ticks /\ local' = local /\ service' = service /\ schema' = schema
    BY <1>14 DEF hardDeleteApp, outside
  <2>3. Passed("over")
    BY <1>5, <2>1, StepNames
  <2>4. QED
    BY <1>3, <1>6, <2>1, <2>2, <2>3 DEF DeleteAlone, y
<1>15. QED
  BY <1>2, <1>7, <1>8, <1>9, <1>10, <1>11, <1>12, <1>13, <1>14
     DEF OpStep, At, provisionHandlerSa, buildAndPushImage, runMigrations, runHandler,
         deactivatePrior, insertActive, noTopics, listShopifyWebhooks, createShopifyWebhooks,
         createRefused, reconcile, scheduleAppCron, getLatestDeployedVersion,
         deactivateAppInfrastructure

\* A reactivation that is alone takes one more step.
LEMMA ReactivateAloneStep ==
    ASSUME LifecycleInv, NEW o \in Ops, OpStep(o), op'[o].alone, op[o].kind = "reactivate"
    PROVE  ReactivateAlone(o)'
<1> DEFINE r == op[o]
           y == op'[o]
           Last == funcs[Len(funcs)]
           Rows == {t \in Topics : subs[t].func # 0}
           Passed(at) == /\ y.at = at /\ y.version = r.version /\ y.cron = r.cron
                         /\ y.topics = r.topics /\ y.func = r.func /\ y.failed = r.failed
                         /\ y.faulty = r.faulty /\ y.before = r.before
           Clean1 == ~y.failed /\ ~y.faulty
           Noted(q) == /\ ~local /\ funcs # <<>> /\ q.func = Len(funcs)
                       /\ q.version = Last.version /\ q.cron = Last.cron /\ Rows = q.topics
<1>1. LifecycleTypeOK /\ OnCourse /\ InPlace
  BY DEF LifecycleInv
<1>2. /\ r \in OperationTypes /\ r.alone /\ y.kind = "reactivate"
      /\ r.at \in {"latest", "run", "list", "create", "reconcile", "schedule"}
  BY <1>1, NextStep DEF Course
<1>3. ReactivateAlone(o)
  BY <1>2 DEF LifecycleInv, SoFar
<1>4. appStatus' = "active" /\ local' = local /\ funcs' = funcs
  <2>1. appStatus' = appStatus /\ local' = local /\ funcs' = funcs
    BY <1>2 DEF OpStep, At, appRow, tables,
         StepFails, provisionHandlerSa, buildAndPushImage, runMigrations, runHandler,
         deactivatePrior, insertActive, noTopics, listShopifyWebhooks, createShopifyWebhooks,
         createRefused, reconcile, scheduleAppCron, getLatestDeployedVersion, readSubscriptions,
         unregisterShopifyWebhooks, unscheduleAppCron, deleteCloudRunService,
         deactivateAppInfrastructure, deleteServiceAccount, dropAppSchema, hardDeleteApp
  <2>2. QED
    BY <1>3, <2>1 DEF ReactivateAlone
<1>5. ASSUME y.failed \/ y.faulty PROVE ReactivateAlone(o)'
  BY <1>4, <1>5 DEF ReactivateAlone
<1>6. ASSUME NEW changed, Same(r, changed), NEW at \in OpSteps, MoveTo(o, changed, at),
             changed.cron = r.cron, changed.topics = r.topics, changed.failed = r.failed,
             changed.faulty = r.faulty, changed.version = r.version, changed.func = r.func
      PROVE  Passed(at) /\ (at # "over" => y.found = changed.found)
  <2>1. /\ y.at = at /\ y.kind = changed.kind /\ y.version = changed.version
        /\ y.cron = changed.cron /\ y.topics = changed.topics
        /\ y.func = changed.func /\ y.failed = changed.failed
        /\ y.faulty = changed.faulty /\ y.before = changed.before
        /\ at # "over" => y.found = changed.found /\ y.prior = changed.prior
    BY <1>1, <1>6, DoneAlone
  <2>2. changed.before = r.before
    BY <1>6 DEF Same
  <2>3. QED
    BY <1>6, <2>1, <2>2
<1>7. ASSUME NEW at \in OpSteps, MoveTo(o, r, at)
      PROVE  Passed(at) /\ (at # "over" => y.found = r.found)
  BY <1>2, <1>6, <1>7, OperationChanges
<1> HIDE DEF y
<1>8. CASE StepFails(o)
  BY <1>5, <1>8, FailsAlone DEF y
<1>9. CASE getLatestDeployedVersion(o)
  <2>1. CASE Abort(o)
    BY <1>1, <1>5, <2>1, AbortAlone DEF y
  <2>2. CASE ~Abort(o)
    <3> DEFINE changed == [r EXCEPT !.version = Last.version, !.cron = Last.cron, !.func = Len(funcs),
                                    !.topics = Rows]
    <3>1. account # 0 /\ funcs # <<>> /\ r.at = "latest" /\ MoveTo(o, changed, "run")
      BY <1>2, <1>9, <2>2 DEF getLatestDeployedVersion, Done, At, Then
    <3>2. ~local
      BY <1>1, <3>1 DEF InPlace
    <3>3. Last.version \in Versions /\ Last.cron \in BOOLEAN /\ Len(funcs) \in Nat
      <4>1. Last \in FuncTypes /\ Len(funcs) \in Nat
        BY <1>1, <3>1 DEF LifecycleTypeOK
      <4>2. QED
        BY <4>1, LifecycleAssumption DEF FuncTypes
    <3>4. Same(r, changed)
      <4> HIDE DEF Last, Rows
      <4>1. Rows \in SUBSET Topics /\ r.kind # "deploy"
        BY DEF Rows
      <4>2. QED
        BY <1>2, <3>3, <4>1, OperationChanges
    <3>5. /\ changed.version = Last.version /\ changed.cron = Last.cron /\ changed.func = Len(funcs)
          /\ changed.topics = Rows /\ changed.before = r.before
      <4> HIDE DEF Last, Rows
      <4>1. QED
        BY <1>2 DEF OperationTypes
    <3> HIDE DEF changed, Last, Rows
    <3>6. /\ y.at = "run" /\ y.version = changed.version /\ y.cron = changed.cron
          /\ y.topics = changed.topics /\ y.func = changed.func /\ y.before = changed.before
          /\ y.failed = changed.failed /\ y.faulty = changed.faulty
      BY <1>1, <3>1, <3>4, StepNames, DoneAlone DEF y
    <3>7. Routed' = Routed /\ Rows' = Rows /\ Last' = Last
      BY <1>9, TablesFrame DEF getLatestDeployedVersion, tables, Rows, Last
    <3>8. changed.failed = r.failed /\ changed.faulty = r.faulty
      BY <1>2 DEF OperationTypes, changed
    <3>9. Clean1 => Routed' = y.before
      BY <1>3, <3>1, <3>5, <3>6, <3>7, <3>8 DEF ReactivateAlone
    <3>10. /\ ~local' /\ funcs' # <<>> /\ y.func = Len(funcs')
           /\ y.version = funcs'[Len(funcs')].version /\ y.cron = funcs'[Len(funcs')].cron
           /\ {t \in Topics : subs'[t].func # 0} = y.topics
      BY <1>4, <3>1, <3>2, <3>5, <3>6, <3>7 DEF Last, Rows
    <3>11. QED
      BY <1>4, <3>6, <3>9, <3>10 DEF ReactivateAlone, y
  <2>3. QED
    BY <2>1, <2>2
<1>10. CASE runHandler(o)
  <2>1. Routed' = Routed /\ subs' = subs
    BY <1>10, TablesFrame DEF runHandler, tables
  <2>2. MoveTo(o, r, "list") /\ r.at = "run" /\ service'.version = r.version
    BY <1>2, <1>10 DEF runHandler, Done, At, Then
  <2>3. Passed("list")
    BY <1>7, <2>2, StepNames
  <2>4. QED
    BY <1>3, <1>4, <2>1, <2>2, <2>3 DEF ReactivateAlone, y
<1>11. CASE noTopics(o)
  <2>1. MoveTo(o, r, "schedule") /\ r.at = "list" /\ r.topics = {}
    BY <1>2, <1>11 DEF noTopics, At, Then
  <2>2. Passed("schedule")
    BY <1>7, <2>1, StepNames
  <2>3. subs' = subs /\ service' = service /\ hooks' = hooks /\ Routed' = Routed
    BY <1>2, <1>4, <1>11, TablesFrame DEF noTopics, outside
  <2>4. Clean1 => {t \in Topics : Subscribed(t)} = {}
    BY <1>3, <2>1, <2>2 DEF ReactivateAlone, Subscribed
  <2>5. {t \in Topics : Subscribed(t)}' = {t \in Topics : Subscribed(t)}
    BY <2>3 DEF Subscribed
  <2>6. Clean1 => HooksMatch({t \in Topics : Subscribed(t)})'
    BY <2>4, <2>5 DEF HooksMatch
  <2>7. QED
    BY <1>3, <1>4, <2>1, <2>2, <2>3, <2>6 DEF ReactivateAlone, y
<1>12. CASE listShopifyWebhooks(o)
  <2> DEFINE changed == [r EXCEPT !.found = hooks]
  <2>1. Routed' = Routed /\ subs' = subs /\ service' = service /\ hooks' = hooks
    BY <1>12, TablesFrame DEF listShopifyWebhooks, tables, outside
  <2>2. MoveTo(o, changed, "create") /\ r.at = "list"
    BY <1>2, <1>12 DEF listShopifyWebhooks, Done, At, Then
  <2>3. hooks \in [Topics -> Nat]
    BY <1>1 DEF LifecycleTypeOK
  <2>4. Same(r, changed)
    BY <1>2, <2>3, OperationChanges
  <2>5. /\ changed.cron = r.cron /\ changed.topics = r.topics /\ changed.failed = r.failed
        /\ changed.faulty = r.faulty /\ changed.func = r.func /\ changed.found = hooks
        /\ changed.version = r.version
    BY <1>2 DEF OperationTypes
  <2> HIDE DEF changed
  <2>6. Passed("create") /\ y.found = changed.found
    BY <1>6, <2>2, <2>4, <2>5, StepNames
  <2>7. QED
    BY <1>3, <1>4, <2>1, <2>2, <2>5, <2>6 DEF ReactivateAlone, y
<1>13. CASE createShopifyWebhooks(o)
  <2> DEFINE found == [t \in Topics |-> IF t \in Missing(o) THEN minted' ELSE r.found[t]]
             changed == [r EXCEPT !.found = found]
  <2>1. Routed' = Routed /\ subs' = subs /\ service' = service
    BY <1>13, TablesFrame DEF createShopifyWebhooks, tables
  <2>2. MoveTo(o, changed, "reconcile") /\ r.at = "create"
    BY <1>2, <1>13 DEF createShopifyWebhooks, Done, At, Then
  <2>3. minted' \in Nat /\ (Missing(o) # {} => minted' # 0) /\ r.found \in [Topics -> Nat]
    BY <1>1, <1>2, <1>13 DEF createShopifyWebhooks, LifecycleTypeOK, OperationTypes
  <2>4. found \in [Topics -> Nat]
    BY <2>3
  <2>5. Same(r, changed)
    <3> HIDE DEF found
    <3>1. QED
      BY <1>2, <2>4, OperationChanges
  <2>6. /\ changed.cron = r.cron /\ changed.topics = r.topics /\ changed.failed = r.failed
        /\ changed.faulty = r.faulty /\ changed.func = r.func /\ changed.found = found
        /\ changed.version = r.version
    <3> HIDE DEF found
    <3>1. QED
      BY <1>2 DEF OperationTypes
  <2>7. r.found = hooks => found = hooks' /\ \A t \in r.topics : hooks'[t] # 0
    <3>1. r.topics \subseteq Topics
      BY <1>2 DEF OperationTypes
    <3>2. QED
      BY <1>13, <2>3, <3>1 DEF createShopifyWebhooks, Missing
  <2> HIDE DEF changed, found
  <2>8. Passed("reconcile") /\ y.found = changed.found
    BY <1>6, <2>2, <2>5, <2>6, StepNames
  <2>9. QED
    BY <1>3, <1>4, <2>1, <2>2, <2>6, <2>7, <2>8 DEF ReactivateAlone, y
<1>14. CASE createRefused(o)
  <2>1. SkipTo(o, "schedule")
    BY <1>14 DEF createRefused
  <2>2. QED
    BY <1>1, <1>5, <2>1, SkipAlone, StepNames DEF y
<1>15. CASE reconcile(o)
  <2> DEFINE changed == [r EXCEPT !.found = NoOperation.found]
  <2>1. CASE SkipTo(o, "schedule")
    BY <1>1, <1>5, <2>1, SkipAlone, StepNames DEF y
  <2>2. CASE ~SkipTo(o, "schedule")
    <3>1. /\ Done(o, changed)
          /\ subs' = [t \in Topics |-> IF t \in r.topics
                          THEN [func |-> r.func, hook |-> r.found[t], active |-> TRUE]
                          ELSE [subs[t] EXCEPT !.active = FALSE]]
      BY <1>15, <2>2 DEF reconcile
    <3>2. MoveTo(o, changed, "schedule") /\ r.at = "reconcile"
      BY <1>2, <1>15, <3>1 DEF reconcile, Done, At, Then
    <3>3. Same(r, changed)
      BY <1>2, OperationChanges, OperationRecords
    <3>4. /\ changed.cron = r.cron /\ changed.topics = r.topics /\ changed.failed = r.failed
          /\ changed.faulty = r.faulty /\ changed.func = r.func /\ changed.version = r.version
      BY <1>2 DEF OperationTypes
    <3>5. service' = service
      BY <1>15 DEF reconcile
    <3>6. r.topics \subseteq Topics
      BY <1>2 DEF OperationTypes
    <3>7. \A t \in Topics : IF t \in r.topics
                            THEN subs'[t].func = r.func /\ subs'[t].hook = r.found[t] /\ subs'[t].active
                            ELSE ~subs'[t].active /\ subs'[t].func = subs[t].func
      <4>1. \A t \in Topics : /\ ~[subs[t] EXCEPT !.active = FALSE].active
                              /\ [subs[t] EXCEPT !.active = FALSE].func = subs[t].func
        BY <1>1 DEF LifecycleTypeOK, SubTypes
      <4>2. QED
        BY <3>1, <4>1
    <3> HIDE DEF changed
    <3>8. Passed("schedule")
      BY <1>6, <3>2, <3>3, <3>4, StepNames
    <3>9. ASSUME Clean1
          PROVE  /\ Noted(r) /\ Routed = r.before /\ service.version = r.version
                 /\ r.found = hooks /\ \A t \in r.topics : hooks[t] # 0
      BY <1>3, <3>2, <3>8, <3>9 DEF ReactivateAlone
    <3>10. ASSUME Clean1 PROVE r.func = 1 /\ funcs[1].active /\ 1 \in DOMAIN funcs
      <4>1. Len(funcs) = 1 /\ funcs[1].active
        BY <1>1, <3>9, <3>10 DEF InPlace
      <4>2. DOMAIN funcs = 1 .. Len(funcs)
        BY <1>1 DEF LifecycleTypeOK
      <4>3. QED
        BY <3>9, <3>10, <4>1, <4>2
    <3>11. ASSUME Clean1 PROVE y.before \subseteq Routed'
      <4>1. \A t \in Topics : subs[t].func \in 0 .. 1
        BY <1>1, <3>9, <3>10, <3>11 DEF LifecycleTypeOK, SubTypes
      <4>2. r.before \subseteq {<<t, 1>> : t \in r.topics}
        BY <3>9, <3>11, <4>1 DEF Routed
      <4>3. \A t \in r.topics : <<t, 1>> \in Routed'
        BY <1>4, <3>6, <3>7, <3>10, <3>11 DEF Routed
      <4>4. QED
        BY <3>8, <4>2, <4>3
    <3>12. ASSUME Clean1 PROVE {t \in Topics : subs'[t].func # 0} = y.topics
      BY <3>6, <3>7, <3>8, <3>9, <3>10, <3>12
    <3>13. ASSUME Clean1
           PROVE  \A t \in Topics : Subscribed(t)' => subs'[t].hook = hooks'[t] /\ hooks'[t] # 0
      <4>1. \A t \in r.topics : hooks'[t] = hooks[t]
        BY <1>15, <3>6 DEF reconcile
      <4>2. QED
        BY <3>6, <3>7, <3>9, <3>13, <4>1 DEF Subscribed
    <3>14. QED
      BY <1>4, <3>5, <3>8, <3>9, <3>11, <3>12, <3>13 DEF ReactivateAlone, HooksMatch, y
  <2>3. QED
    BY <2>1, <2>2
<1>16. CASE scheduleAppCron(o)
  <2>1. MoveTo(o, r, "over") /\ r.at = "schedule"
    BY <1>2, <1>16 DEF scheduleAppCron, Done, At, Then
  <2>2. Passed("over")
    BY <1>7, <2>1, StepNames
  <2>3. /\ Routed' = Routed /\ service' = service /\ subs' = subs /\ hooks' = hooks
        /\ r.cron => ticks'
    BY <1>16, TablesFrame DEF scheduleAppCron, tables
  <2>4. {t \in Topics : Subscribed(t)}' = {t \in Topics : Subscribed(t)}
    BY <2>3 DEF Subscribed
  <2>5. QED
    BY <1>3, <1>4, <2>1, <2>2, <2>3, <2>4 DEF ReactivateAlone, HooksMatch, y
<1>17. QED
  BY <1>2, <1>8, <1>9, <1>10, <1>11, <1>12, <1>13, <1>14, <1>15, <1>16
     DEF OpStep, At, provisionHandlerSa, buildAndPushImage, runMigrations,
         deactivatePrior, insertActive, readSubscriptions, unregisterShopifyWebhooks,
         unscheduleAppCron, deleteCloudRunService, deactivateAppInfrastructure,
         deleteServiceAccount, dropAppSchema, hardDeleteApp

LEMMA SoFarStep ==
    ASSUME LifecycleInv, [LifecycleNext]_lifecycleVars
    PROVE  \A o \in Ops : op'[o].alone => SoFar(o)'
<1>1. LifecycleTypeOK /\ OnCourse /\ Solo /\ \A o \in Ops : op[o].alone => SoFar(o)
  BY DEF LifecycleInv
<1>2. ASSUME NEW o \in Ops, OpStarts(o), NEW p \in Ops, op'[p].alone PROVE SoFar(p)'
  <2>1. PICK new \in OperationTypes :
            /\ Launch(o, new) /\ new.kind \in DOMAIN Course
            /\ new.kind = "deploy" => new.version \in Versions
            /\ ~new.failed /\ ~new.faulty /\ new.func = 0
            /\ new.kind = "reactivate" => appStatus' = "active"
            /\ new.kind = "delete" => appStatus' # "gone"
    BY <1>2, StartsLaunch
  <2>2. /\ op'[o].kind = new.kind /\ op'[o].at = FirstStep[new.kind]
        /\ op'[o].alone => op'[o].before = Routed /\ op'[o].func = new.func
        /\ \A q \in Ops \ {o} : op'[q].alone => op[q].kind = "none" /\ op'[q] = op[q]
    BY <1>1, <2>1, Launched
  <2>3. p = o
    BY <1>1, <1>2, <2>2, OperationRecords, StepNames DEF OnCourse
  <2>4. Routed' = Routed
    BY <1>2, StartsLaunch, TablesFrame DEF tables
  <2>5. CASE new.kind = "deploy"
    BY <1>2, <2>1, <2>2, <2>3, <2>4, <2>5 DEF SoFar, DeployAlone, FirstStep
  <2>6. CASE new.kind = "reactivate"
    BY <1>2, <2>1, <2>2, <2>3, <2>4, <2>6 DEF SoFar, ReactivateAlone, FirstStep
  <2>7. CASE new.kind = "delete"
    BY <1>2, <2>1, <2>2, <2>3, <2>7 DEF SoFar, DeleteAlone, FirstStep
  <2>8. CASE new.kind \notin {"deploy", "reactivate", "delete"}
    BY <2>2, <2>3, <2>8 DEF SoFar
  <2>9. QED
    BY <2>5, <2>6, <2>7, <2>8
<1>3. ASSUME NEW o \in Ops, OpStep(o), NEW p \in Ops, op'[p].alone PROVE SoFar(p)'
  <2>1. CASE p # o
    <3>1. op'[p] = op[p]
      BY <1>1, <1>3, <2>1, StepMoves, Moves
    <3>2. QED
      BY <1>1, <1>3, <2>1, <3>1, StepUnderWay DEF Solo
  <2>2. CASE p = o
    <3>1. op'[o].kind = op[o].kind
      BY <1>1, <1>3, <2>2, NextStep
    <3>2. QED
      BY <1>3, <2>2, <3>1, DeployAloneStep, ReactivateAloneStep, DeleteAloneStep DEF SoFar
  <2>3. QED
    BY <2>1, <2>2
<1>4. CASE UNCHANGED lifecycleVars
  <2>1. /\ op' = op /\ appStatus' = appStatus /\ local' = local /\ funcs' = funcs /\ subs' = subs
        /\ hooks' = hooks /\ ticks' = ticks /\ schema' = schema /\ service' = service
    BY <1>4 DEF lifecycleVars, appRow, tables, outside
  <2>2. \A o \in Ops : op'[o].alone => SoFar(o)
    BY <1>1, <2>1
  <2>3. QED
    BY <2>1, <2>2 DEF SoFar, DeployAlone, ReactivateAlone, DeleteAlone, Routed, ActiveRows,
                      HooksMatch, Subscribed, UnderWay
<1>5. QED
  BY <1>2, <1>3, <1>4 DEF LifecycleNext

LEMMA LifecycleInitially == LifecycleInit => LifecycleInv
<1> SUFFICES ASSUME LifecycleInit PROVE LifecycleInv
  OBVIOUS
<1>1. op = [o \in Ops |-> NoOperation] /\ opFaults = 0 /\ local \in BOOLEAN
  BY DEF LifecycleInit
<1>2. \A o \in Ops : op[o] = NoOperation /\ ~op[o].alone /\ ~UnderWay(o) /\ op[o].kind = "none"
  BY <1>1, OperationRecords DEF UnderWay
<1>3. OnCourse /\ Solo /\ \A o \in Ops : op[o].alone => SoFar(o)
  BY <1>2 DEF OnCourse, Solo
<1>4. op \in [Ops -> OperationTypes]
  BY <1>1, OperationRecords
<1>5. 0 \in 0 .. MaxOpFaults
  BY LifecycleAssumption
<1>6. CASE local
  <2>1. Draft
    BY <1>6 DEF LifecycleInit
  <2>2. subs \in [Topics -> SubTypes] /\ funcs \in Seq(FuncTypes)
    BY <2>1 DEF Draft, NoSub, SubTypes
  <2>3. service \in [version : Versions \cup {None}, runner : BOOLEAN]
    BY <2>1 DEF Draft, Down
  <2>4. LifecycleTypeOK
    <3>1. hooks \in [Topics -> 0 .. minted] /\ minted \in Nat
      BY <2>1 DEF Draft
    <3>2. /\ appStatus \in {"draft", "active", "inactive", "deleted", "gone"} /\ account \in Nat
          /\ accounts \subseteq Nat /\ ticks \in BOOLEAN /\ schema \in BOOLEAN
      BY <2>1 DEF Draft
    <3>3. \A o \in Ops : op[o].kind = "deploy" => op[o].version \in Versions
      BY <1>2
    <3>4. QED
      BY <1>1, <1>4, <1>5, <2>2, <2>3, <3>1, <3>2, <3>3 DEF LifecycleTypeOK
  <2>5. GoneIsEmpty /\ InPlace
    BY <1>6, <2>1 DEF Draft, GoneIsEmpty, InPlace
  <2>6. QED
    BY <1>3, <2>4, <2>5 DEF LifecycleInv
<1>7. CASE ~local
  <2>1. PICK v \in Recorded : Deployed(v)
    BY <1>7 DEF LifecycleInit
  <2>2. Bundle[v].cron \in BOOLEAN /\ v \in Versions
    BY LifecycleAssumption
  <2> DEFINE row == [version |-> v, cron |-> Bundle[v].cron, active |-> TRUE]
  <2>3. row \in FuncTypes /\ row.active
    BY <2>2 DEF FuncTypes
  <2>4. funcs = <<row>>
    BY <2>1 DEF Deployed
  <2> HIDE DEF row
  <2>5. funcs \in Seq(FuncTypes) /\ Len(funcs) = 1 /\ funcs[1].active
    BY <2>3, <2>4
  <2>6. subs \in [Topics -> SubTypes]
    BY <2>1, <2>5 DEF Deployed, NoSub, SubTypes
  <2>7. service \in [version : Versions \cup {None}, runner : BOOLEAN]
    BY <2>1, <2>2 DEF Deployed
  <2>8. LifecycleTypeOK
    BY <1>1, <1>2, <1>4, <1>5, <2>1, <2>2, <2>5, <2>6, <2>7 DEF LifecycleTypeOK, Deployed
  <2>9. GoneIsEmpty /\ InPlace
    BY <1>2, <1>7, <2>1, <2>5 DEF Deployed, GoneIsEmpty, InPlace
  <2>10. QED
    BY <1>3, <2>8, <2>9 DEF LifecycleInv
<1>8. QED
  BY <1>1, <1>6, <1>7

LEMMA LifecycleInvariant == LifecycleSpec => []LifecycleInv
<1>1. LifecycleInv /\ [LifecycleNext]_lifecycleVars => LifecycleInv'
  BY LifecycleTypeStep, OperationsStep, GoneIsEmptyStep, InPlaceStep, SoFarStep DEF LifecycleInv
<1>2. QED
  BY LifecycleInitially, <1>1, PTL DEF LifecycleSpec

\* The app's rows and resources keep their types, and a subscription names a
\* row that exists, for any number of operations, topics, versions and faults.
THEOREM LifecycleTypeCorrect == LifecycleSpec => []LifecycleTypeOK
BY LifecycleInvariant, PTL DEF LifecycleInv

\* What a successful deploy that ran alone leaves (runDeploy,
\* upsertDeployedFunction, registerWebhooks) is what it was asked for.
THEOREM DeploysAsAsked == LifecycleSpec => []DeployedAsAsked
<1>1. LifecycleInv => DeployedAsAsked
  <2> SUFFICES ASSUME LifecycleInv, NEW o \in Ops, Clean(o, "deploy")
               PROVE  /\ ActiveRows = {op[o].func} /\ Routed = op[o].topics \X {op[o].func}
                      /\ HooksMatch(op[o].topics) /\ ticks = op[o].cron
                      /\ service.version = op[o].version
    BY DEF DeployedAsAsked, ActiveRows, HooksMatch
  <2>1. DeployAlone(o) /\ op[o].at = "over"
    BY DEF Clean, Ended, UnderWay, LifecycleInv, SoFar
  <2>2. QED
    BY <2>1 DEF DeployAlone, Clean
<1>2. QED
  BY <1>1, LifecycleInvariant, PTL

\* A deploy that ran alone and failed before its row was committed
\* (runDeploy's catch) leaves the routing as it was.
THEOREM FailuresKeepRouting == LifecycleSpec => []FailureKeepsRouting
<1>1. LifecycleInv => FailureKeepsRouting
  <2> SUFFICES ASSUME LifecycleInv, NEW o \in Ops, op[o].kind = "deploy", op[o].alone, op[o].func = 0
               PROVE  Routed = op[o].before
    BY DEF FailureKeepsRouting, Ended
  <2>1. DeployAlone(o)
    BY DEF LifecycleInv, SoFar
  <2>2. QED
    BY <2>1 DEF DeployAlone
<1>2. QED
  BY <1>1, LifecycleInvariant, PTL

\* A clean reactivation that ran alone (reactivateApp) brings back the last
\* deployment, its routes, its subscriptions and its ticks.
THEOREM ReactivationsRestore == LifecycleSpec => []ReactivationRestores
<1>1. LifecycleInv => ReactivationRestores
  <2> SUFFICES ASSUME LifecycleInv, NEW o \in Ops, Clean(o, "reactivate")
               PROVE  /\ appStatus = "active" /\ service.version = funcs[Len(funcs)].version
                      /\ op[o].before \subseteq Routed
                      /\ HooksMatch({t \in Topics : Subscribed(t)})
                      /\ funcs[Len(funcs)].cron => ticks
    BY DEF ReactivationRestores, HooksMatch
  <2>1. ReactivateAlone(o) /\ op[o].at = "over"
    BY DEF Clean, Ended, UnderWay, LifecycleInv, SoFar
  <2>2. QED
    BY <2>1 DEF ReactivateAlone, Clean
<1>2. QED
  BY <1>1, LifecycleInvariant, PTL

\* Deleted rows never come back whatever was in flight, and a clean deletion
\* that ran alone (permanentDeleteApp) leaves nothing running or ticking.
THEOREM DeletionsLeaveNothing == LifecycleSpec => []DeletionLeavesNothing
<1>1. LifecycleInv => DeletionLeavesNothing
  <2> SUFFICES ASSUME LifecycleInv
               PROVE  DeletionLeavesNothing
    OBVIOUS
  <2>1. \A o \in Ops : Clean(o, "delete") => DeleteAlone(o) /\ op[o].at = "over"
    BY DEF Clean, Ended, UnderWay, LifecycleInv, SoFar
  <2>2. GoneIsEmpty
    BY DEF LifecycleInv
  <2>3. QED
    BY <2>1, <2>2 DEF DeletionLeavesNothing, GoneIsEmpty, DeleteAlone, Clean
<1>2. QED
  BY <1>1, LifecycleInvariant, PTL
=============================================================================
