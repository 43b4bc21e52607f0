---------------------------- MODULE ThemeInjection ----------------------------
(***************************************************************************)
(* The test theme of a widget app: copy the shop's active theme, write the *)
(* app's block into sections of the copy, note the copy in the app's row,  *)
(* and delete it again (routes/tenants.ts, lib/theme-injector.ts).         *)
(*                                                                         *)
(* Shopify copies the templates of a theme in the background, also after   *)
(* the copy is no longer "processing", and each write of that job replaces *)
(* a template with the original.  A copy belongs to the request that asked *)
(* for it and is named by it here.                                         *)
(***************************************************************************)
EXTENDS Naturals, Sequences

CONSTANTS
    Injections,      \* calls of injectThemeHandler, each used once
    Removals,        \* calls of deleteInjectedThemeHandler
    Sections,        \* sections of the active theme that take blocks
    TemplateOf,      \* the template a section is in
    Targets,         \* the sections each injection asks for, in order
    StableTries,     \* pairs of reads before injectAppBlock gives up
    VerifyReads,     \* reads after the immediate one
    MaxSyncWrites    \* bound: writes of Shopify's copy job to one template

Templates == {TemplateOf[s] : s \in Sections}

ASSUME ThemeAssumption ==
    /\ Targets \in [Injections -> Seq(Sections) \ {<<>>}]     \* z.array(...).min(1)
    /\ StableTries \in Nat \ {0} /\ VerifyReads \in Nat \ {0}
    /\ MaxSyncWrites \in Nat \ {0}

NoTheme == "no theme"
NoInjection    == [at |-> "idle", target |-> 1, tries |-> 0, read |-> {}]

VARIABLES
    copies,     \* each copy at Shopify: "none", "live" or "deleted"
    blocks,     \* sections of each copy that hold the app's block
    writes,     \* writes of the copy job to each template of a copy so far
    recorded,   \* the app's theme_injection_theme_id
    injection,  \* each injection: [at, target, tries, read]
    removal,    \* each removal: [at, theme]
    late        \* history: verified blocks the copy job wrote over

themeVars == <<copies, blocks, writes, recorded, injection, removal, late>>

ThemeInit ==
    /\ copies = [i \in Injections |-> "none"]
    /\ blocks = [i \in Injections |-> {}]
    /\ writes = [i \in Injections |-> [t \in Templates |-> 0]]
    /\ recorded = NoTheme
    /\ injection = [i \in Injections |-> NoInjection]
    /\ removal = [r \in Removals |-> [at |-> "idle", theme |-> NoTheme]]
    /\ late = [i \in Injections |-> {}]

-----------------------------------------------------------------------------
(* Shopify *)

Live(i)    == copies[i] = "live"
BlocksIn(i,t) == {s \in blocks[i] : TemplateOf[s] = t}
Verified(i) == {Targets[i][k] : k \in 1 .. injection[i].target - 1}

\* The copy job writes a template: its first write creates it.
SyncWrites(i, t) ==
    /\ Live(i) /\ writes[i][t] < MaxSyncWrites
    /\ writes' = [writes EXCEPT ![i][t] = @ + 1]
    /\ blocks' = [blocks EXCEPT ![i] = @ \ BlocksIn(i, t)]
    /\ late' = [late EXCEPT ![i] = @ \cup (BlocksIn(i, t) \cap Verified(i))]
    /\ UNCHANGED <<copies, recorded, injection, removal>>

-----------------------------------------------------------------------------
(* injectThemeHandler: an error of any call ends the request with a 500,   *)
(* and what it made so far stays.                                          *)

Target(i)  == Targets[i][injection[i].target]
Page(i)    == TemplateOf[Target(i)]
Present(i) == Live(i) /\ writes[i][Page(i)] > 0    \* else the read is a 404
InjectTo(i, rec) == injection' = [injection EXCEPT ![i] = rec]
Fail(i)    == InjectTo(i, [injection[i] EXCEPT !.at = "failed", !.read = {}])
Shopifys   == <<copies, blocks, writes, late>>
Rest       == <<recorded, removal>>

\* themeDuplicate; its answer may be lost.
duplicateTheme(i) ==
    /\ injection[i].at = "idle"
    /\ \/ /\ copies' = [copies EXCEPT ![i] = "live"]
          /\ InjectTo(i, [NoInjection EXCEPT !.at = "copying"]) \/ Fail(i)
       \/ Fail(i) /\ UNCHANGED copies
    /\ UNCHANGED <<blocks, writes, late, Rest>>

\* Polls until the copy is no longer processing, or 30 times whatever the
\* answers were; then renames it.
AwaitCopy(i) ==
    /\ injection[i].at = "copying"
    /\ \/ Live(i) /\ InjectTo(i, [NoInjection EXCEPT !.at = "reading"])
       \/ Fail(i)
    /\ UNCHANGED <<Shopifys, Rest>>

\* The first read of a pair.
FirstRead(i) ==
    /\ injection[i].at = "reading"
    /\ \/ /\ Present(i)
          /\ InjectTo(i, [injection[i] EXCEPT !.at = "comparing",
                                             !.read = BlocksIn(i, Page(i))])
       \/ Fail(i)
    /\ UNCHANGED <<Shopifys, Rest>>

\* The second read: equal is taken for settled, the twelfth difference throws.
SecondRead(i) ==
    LET q == injection[i] IN
    /\ q.at = "comparing"
    /\ \/ /\ Present(i)
          /\ IF q.read = BlocksIn(i, Page(i)) THEN InjectTo(i, [q EXCEPT !.at = "writing"])
             ELSE IF q.tries + 1 < StableTries
             THEN InjectTo(i, [q EXCEPT !.at = "reading", !.tries = @ + 1, !.read = {}])
             ELSE Fail(i)
       \/ Fail(i)
    /\ UNCHANGED <<Shopifys, Rest>>

\* PUT of the whole template as it was read, with the block added; Shopify
\* strips a block whose extension it does not know.  Its answer may be lost.
Write(i) ==
    LET q == injection[i] IN
    /\ q.at = "writing"
    /\ \/ /\ Live(i)
          /\ \E added \in {{}, {Target(i)}} :
                blocks' = [blocks EXCEPT ![i] = (@ \ BlocksIn(i, Page(i))) \cup q.read \cup added]
          /\ InjectTo(i, [q EXCEPT !.at = "checking", !.tries = 0, !.read = {}]) \/ Fail(i)
       \/ Fail(i) /\ UNCHANGED blocks
    /\ UNCHANGED <<copies, writes, late, Rest>>

\* Mutant: the answer of the PUT is believed.
MutAppears(i) == Live(i)

Appears(i) == Present(i) /\ Target(i) \in blocks[i]

\* The read right after the write: a missing block was stripped.
ReadBack(i) ==
    /\ injection[i].at = "checking"
    /\ \/ Appears(i) /\ InjectTo(i, [injection[i] EXCEPT !.at = "verifying"])
       \/ Fail(i)
    /\ UNCHANGED <<Shopifys, Rest>>

\* Up to three more reads: the first that shows the block ends the target.
Verify(i) ==
    LET q == injection[i] IN
    /\ q.at = "verifying"
    /\ \/ /\ Appears(i)
          /\ InjectTo(i, [NoInjection EXCEPT !.target = q.target + 1,
                                      !.at = IF q.target = Len(Targets[i]) THEN "noting"
                                             ELSE "reading"])
       \/ /\ Present(i) /\ ~Appears(i) /\ q.tries + 1 < VerifyReads
          /\ InjectTo(i, [q EXCEPT !.tries = @ + 1])
       \/ Fail(i)
    /\ UNCHANGED <<Shopifys, Rest>>

\* The row is updated and the request answered; the copy it named before, if
\* any, stays at Shopify.
setThemeInjection(i) ==
    /\ injection[i].at = "noting"
    /\ \/ recorded' = i /\ InjectTo(i, [injection[i] EXCEPT !.at = "done"])
       \/ Fail(i) /\ UNCHANGED recorded
    /\ UNCHANGED <<Shopifys, removal>>

InjectionStep(i) ==
    \/ duplicateTheme(i) \/ AwaitCopy(i) \/ FirstRead(i) \/ SecondRead(i) \/ Write(i)
    \/ ReadBack(i) \/ Verify(i) \/ setThemeInjection(i)

-----------------------------------------------------------------------------
(* deleteInjectedThemeHandler: the status of the DELETE is not looked at.   *)

RemoveTo(r, at, theme) == removal' = [removal EXCEPT ![r] = [at |-> at, theme |-> theme]]

BeginRemoval(r) ==
    /\ removal[r].at = "idle" /\ recorded # NoTheme
    /\ RemoveTo(r, "deleting", recorded)
    /\ UNCHANGED <<Shopifys, recorded, injection>>

DeleteTheme(r) ==
    /\ removal[r].at = "deleting"
    /\ \E deleted \in BOOLEAN :
          copies' = IF deleted THEN [copies EXCEPT ![removal[r].theme] = "deleted"] ELSE copies
    /\ \/ RemoveTo(r, "clearing", removal[r].theme)
       \/ RemoveTo(r, "over", NoTheme)              \* fetch throws
    /\ UNCHANGED <<blocks, writes, late, recorded, injection>>

clearThemeInjection(r) ==
    /\ removal[r].at = "clearing"
    /\ recorded' \in {NoTheme, recorded}            \* the update may fail
    /\ RemoveTo(r, "over", NoTheme)
    /\ UNCHANGED <<Shopifys, injection>>

RemovalStep(r) == BeginRemoval(r) \/ DeleteTheme(r) \/ clearThemeInjection(r)

ThemeNext ==
    \/ \E i \in Injections : InjectionStep(i)
    \/ \E i \in Injections, t \in Templates : SyncWrites(i, t)
    \/ \E r \in Removals : RemovalStep(r)

ThemeSpec == ThemeInit /\ [][ThemeNext]_themeVars

-----------------------------------------------------------------------------
InjectionTypes ==
    [at : {"idle", "copying", "reading", "comparing", "writing", "checking", "verifying",
           "noting", "done", "failed"},
     target : Nat \ {0}, tries : Nat, read : SUBSET Sections]

ThemeTypeOK ==
    /\ copies \in [Injections -> {"none", "live", "deleted"}]
    /\ blocks \in [Injections -> SUBSET Sections]
    /\ writes \in [Injections -> [Templates -> 0 .. MaxSyncWrites]]
    /\ recorded \in Injections \cup {NoTheme}
    /\ injection \in [Injections -> InjectionTypes]
    /\ removal \in [Removals -> [at : {"idle", "deleting", "clearing", "over"},
                                theme : Injections \cup {NoTheme}]]
    /\ \A r \in Removals :
          removal[r].at \in {"deleting", "clearing"} => removal[r].theme \in Injections
    /\ late \in [Injections -> SUBSET Sections]

(* The theme an app's row names shows the widget: every section that was    *)
(* asked for holds the block, in all the templates and after all the       *)
(* writes, unless Shopify's copy job wrote over it after the last look.    *)
RecordedShowsBlocks ==
    recorded # NoTheme /\ Live(recorded) =>
        \A k \in 1 .. Len(Targets[recorded]) :
            Targets[recorded][k] \in blocks[recorded] \cup late[recorded]

(* injectAppBlock's comment takes two equal reads for the end of the copy   *)
(* job ("if both are identical the sync has settled"): then no block it    *)
(* verified is ever written over.                                          *)
EqualReadsAreSettled == \A i \in Injections : late[i] = {}
=============================================================================
