---------------------------- MODULE PlatformProofs ----------------------------
(***************************************************************************)
(* Proofs about what the platform serves.                                  *)
(*                                                                         *)
(* FileStorage, for any set of uploads, calls and sweeps and any sizes.    *)
(* ServiceIdentity, for any apps, calls and processes, any number of       *)
(* accounts and any TTL.  HandlerEdge, for any apps, shops and requests.   *)
(* AdminShell, for any apps of a shop.                                     *)
(***************************************************************************)
EXTENDS FileStorage, ServiceIdentity, HandlerEdge, AdminShell, FiniteSetTheorems, TLAPS

-----------------------------------------------------------------------------
(* FileStorage                                                             *)

\* Files somebody read as pending in order to delete them.
Condemned == cancelled \cup claimed

\* What is true of a file while its request runs; everyone else comes later.
Creation(f) ==
    /\ at[f] \in {"store", "lock", "insert", "full", "undo", "sign"} => f \in Inline
    /\ at[f] \in {"reserve", "mint", "rollback"} => f \notin Inline
    /\ at[f] \in {"lock", "insert", "full", "sign"} => object[f] # NoObject
    /\ at[f] = "sign" => row[f] = "active"
    /\ at[f] = "mint" => row[f] = "pending"
    /\ row[f] = "pending" \/ url[f] \/ old[f] \/ f \in Condemned \cup deletes => f \notin Inline
    /\ Known(f) \/ old[f] \/ f \in Condemned \cup deletes => at[f] = "done"

\* An inline upload that met no fault.
Clean(f) ==
    /\ at[f] \in {"new", "store"} => row[f] = "none" /\ object[f] = NoObject
    /\ at[f] \in {"lock", "insert", "full", "undo"} => row[f] = "none"
    /\ at[f] = "done" => (row[f] = "active" <=> object[f] # NoObject)

\* What call c may rely on after its read.
Call(c) == LET f == callFile[c] IN
    callAt[c] # "idle" =>
        /\ f \in Files /\ Known(f)
        /\ callAt[c] = "flip" => seen[c] <= Want[f]
        /\ callAt[c] \in {"erase", "remove", "answer"} => f \in cancelled
        /\ callAt[c] \in {"flip", "sign"} /\ f \notin Condemned => object[f] # NoObject
        /\ callAt[c] = "sign" /\ f \notin Condemned => row[f] = "active"

\* The object of a file whose URL has expired is gone for good.
Emptied(f) == old[f] /\ object[f] = NoObject

\* What sweep s may rely on after its claim, its locks lost or not.
Sweep(s) ==
    /\ \A f \in batch[s] : f \in claimed /\ old[f]
    /\ sweepAt[s] \in {"remove", "answer"} =>
           doing[s] \in claimed /\ Emptied(doing[s])

\* A DELETE at the server was sent by someone who condemned the file, or is the
\* rollback of a request whose URL nobody has.
Statement(f) == f \in deletes =>
    /\ f \in Condemned \/ ~Known(f)
    /\ url[f] /\ f \notin cancelled => Emptied(f)

Kept(f) == f \in acked /\ f \notin Condemned => row[f] = "active" /\ object[f] # NoObject

Gone(f) == url[f] /\ row[f] = "none" /\ f \notin cancelled => Emptied(f)

FileInv ==
    \A f \in Files :
        /\ object[f] # NoObject => object[f] <= Want[f]
        /\ Creation(f) /\ Statement(f) /\ Kept(f) /\ Gone(f)

CleanInv == faults = 0 => \A f \in Inline : Clean(f)

ActorInv == (\A c \in Calls : Call(c)) /\ (\A s \in Sweeps : Sweep(s))

IInv == TypeOK /\ FileInv /\ CleanInv /\ ActorInv

\* The abbreviations that only name an assignment.
USE DEF rows, create, calls, sweeps, history, Fault, Goto, Delete, PutRow, Unlock, Enter, Step,
        Return, Release, Resume, DoneWith, Emptied, Condemned, Known, Resumable

-----------------------------------------------------------------------------
(* Types.                                                                  *)

\* Writing a size within the reservation keeps the rows well typed.
LEMMA PutRowType ==
    ASSUME TypeOK, NEW f \in Files, NEW status \in {"none", "pending", "active"},
           NEW n \in 0..Want[f], PutRow(f, status, n)
    PROVE  /\ row' \in [Files -> {"none", "pending", "active"}]
           /\ size' \in [Files -> Nat] /\ \A g \in Files : size'[g] <= Want[g]
<1>1. row' \in [Files -> {"none", "pending", "active"}]
  BY DEF TypeOK
<1>2. Want[f] \in Nat /\ n \in Nat /\ n <= Want[f]
  BY ConstantsOK
<1>3. size' \in [Files -> Nat] /\ \A g \in Files : size'[g] <= Want[g]
  BY <1>2 DEF TypeOK
<1>4. QED
  BY <1>1, <1>3

\* A request only moves between the places of its handler.
LEMMA GotoType ==
    ASSUME TypeOK, NEW f, NEW place \in Places, Goto(f, place)
    PROVE  at' \in [Files -> Places]
BY DEF TypeOK

\* One action at a time: the types.
LEMMA TypeStep == IInv /\ [Next]_vars => TypeOK'
<1> SUFFICES ASSUME TypeOK, FileInv, ActorInv, [Next]_vars PROVE TypeOK'
  BY DEF IInv
<1>1. ASSUME NEW f \in Files, Begin(f) PROVE TypeOK'
  BY <1>1 DEF Begin, TypeOK, Places
<1>2. ASSUME NEW f \in Files, Store(f) PROVE TypeOK'
  <2>1. object' \in [Files -> Nat \cup {NoObject}]
    BY <1>2, ConstantsOK DEF Store, TypeOK
  <2>2. at' \in [Files -> Places]
    BY <1>2, GotoType DEF Store, Places
  <2>3. QED
    BY <1>2, <2>1, <2>2 DEF Store, TypeOK
<1>3. ASSUME NEW f \in Files, LockTenant(f) PROVE TypeOK'
  BY <1>3 DEF LockTenant, TypeOK, Places, Creation, FileInv
<1>4. ASSUME NEW f \in Files, Commit(f) PROVE TypeOK'
  <2>1. CASE at[f] = "insert"
    <3>1. PutRow(f, "active", Want[f]) /\ Goto(f, "sign")
      BY <1>4, <2>1 DEF Commit
    <3>2. Want[f] \in 0..Want[f]
      BY ConstantsOK
    <3>3. /\ row' \in [Files -> {"none", "pending", "active"}]
          /\ size' \in [Files -> Nat] /\ \A g \in Files : size'[g] <= Want[g]
      BY <3>1, <3>2, PutRowType
    <3>4. at' \in [Files -> Places]
      BY <3>1, GotoType DEF Places
    <3>5. QED
      BY <1>4, <3>3, <3>4 DEF Commit, TypeOK
  <2>2. CASE at[f] # "insert"
    BY <1>4, <2>2 DEF Commit, TypeOK, Places
  <2>3. QED
    BY <2>1, <2>2
<1>5. ASSUME NEW f \in Files, CommitFails(f) PROVE TypeOK'
  <2>1. at' \in [Files -> Places] /\ faults' \in 0..MaxFaults
    BY <1>5, GotoType, ConstantsOK DEF CommitFails, Places, TypeOK
  <2>2. Want[f] \in 0..Want[f]
    BY ConstantsOK
  <2>3. /\ row' \in [Files -> {"none", "pending", "active"}]
        /\ size' \in [Files -> Nat] /\ \A g \in Files : size'[g] <= Want[g]
    <3>1. CASE UNCHANGED rows
      BY <3>1 DEF TypeOK
    <3>2. CASE PutRow(f, "active", Want[f])
      BY <3>2, <2>2, PutRowType
    <3>3. QED
      BY <1>5, <3>1, <3>2 DEF CommitFails
  <2>4. QED
    BY <1>5, <2>1, <2>3 DEF CommitFails, TypeOK
<1>6. ASSUME NEW f \in Files, Undo(f) PROVE TypeOK'
  BY <1>6, ConstantsOK DEF Undo, TypeOK, Places
<1>7. ASSUME NEW f \in Files, Sign(f) PROVE TypeOK'
  BY <1>7 DEF Sign, TypeOK, Places
<1>8. ASSUME NEW f \in Files, Reserve(f) PROVE TypeOK'
  <2>1. at' \in [Files -> Places]
    BY <1>8, GotoType DEF Reserve, Places
  <2>2. Want[f] \in 0..Want[f]
    BY ConstantsOK
  <2>3. /\ row' \in [Files -> {"none", "pending", "active"}]
        /\ size' \in [Files -> Nat] /\ \A g \in Files : size'[g] <= Want[g]
    BY <1>8, <2>2, PutRowType DEF Reserve
  <2>4. QED
    BY <1>8, <2>1, <2>3 DEF Reserve, TypeOK
<1>9. ASSUME NEW f \in Files, Mint(f) PROVE TypeOK'
  <2>1. at' \in [Files -> Places]
    BY <1>9, GotoType DEF Mint, Places
  <2>2. faults' \in 0..MaxFaults
    BY <1>9, ConstantsOK DEF Mint, TypeOK
  <2>3. url' \in [Files -> BOOLEAN]
    <3>1. url' = url \/ url' = [url EXCEPT ![f] = TRUE]
      BY <1>9 DEF Mint
    <3>2. QED
      BY <3>1 DEF TypeOK
  <2>4. QED
    BY <1>9, <2>1, <2>2, <2>3 DEF Mint, TypeOK
<1>10. ASSUME NEW f \in Files, Rollback(f) PROVE TypeOK'
  BY <1>10 DEF Rollback, TypeOK, Places
<1>11. ASSUME NEW f \in Files, CreateFails(f) PROVE TypeOK'
  BY <1>11, ConstantsOK DEF CreateFails, TypeOK, Places
<1>12. ASSUME NEW f \in Files, Put(f) PROVE TypeOK'
  BY <1>12 DEF Put, TypeOK
<1>13. ASSUME NEW f \in Files, Age(f) PROVE TypeOK'
  BY <1>13 DEF Age, TypeOK
<1>14. ASSUME NEW f \in Files, RunDelete(f) PROVE TypeOK'
  <2>1. 0 \in 0..Want[f]
    BY ConstantsOK
  <2>2. /\ row' \in [Files -> {"none", "pending", "active"}]
        /\ size' \in [Files -> Nat] /\ \A g \in Files : size'[g] <= Want[g]
    BY <1>14, <2>1, PutRowType DEF RunDelete
  <2>3. QED
    BY <1>14, <2>2 DEF RunDelete, TypeOK
<1>15. ASSUME NEW c \in Calls, NEW f \in Files, ReadForFinalize(c, f) PROVE TypeOK'
  BY <1>15 DEF ReadForFinalize, TypeOK
<1>16. ASSUME NEW c \in Calls, NEW f \in Files, ReadForCancel(c, f) PROVE TypeOK'
  BY <1>16 DEF ReadForCancel, Pending, TypeOK
<1>17. ASSUME NEW c \in Calls, Head(c) PROVE TypeOK'
  <2>1. callFile[c] \in Files
    BY <1>17 DEF Head, ActorInv, Call
  <2>2. seen' \in [Calls -> Nat]
    BY <1>17, <2>1 DEF Head, TypeOK
  <2>3. callAt' \in [Calls -> {"idle", "head", "flip", "sign", "erase", "remove", "answer"}]
    BY <1>17 DEF Head, TypeOK
  <2>4. QED
    BY <1>17, <2>2, <2>3 DEF Head, TypeOK
<1>18. ASSUME NEW c \in Calls, Flip(c) PROVE TypeOK'
  <2>1. callFile[c] \in Files /\ seen[c] \in 0..Want[callFile[c]]
    BY <1>18, ConstantsOK DEF Flip, ActorInv, Call, TypeOK
  <2>2. /\ row' \in [Files -> {"none", "pending", "active"}]
        /\ size' \in [Files -> Nat] /\ \A g \in Files : size'[g] <= Want[g]
    <3>1. CASE UNCHANGED rows
      BY <3>1 DEF TypeOK
    <3>2. CASE PutRow(callFile[c], "active", seen[c])
      BY <3>2, <2>1, PutRowType
    <3>3. QED
      BY <1>18, <3>1, <3>2 DEF Flip
  <2>3. callAt' \in [Calls -> {"idle", "head", "flip", "sign", "erase", "remove", "answer"}]
    BY <1>18 DEF Flip, TypeOK
  <2>4. QED
    BY <1>18, <2>2, <2>3 DEF Flip, TypeOK
<1>19. ASSUME NEW c \in Calls, Finalized(c) PROVE TypeOK'
  BY <1>19 DEF Finalized, TypeOK, Call, ActorInv
<1>20. ASSUME NEW c \in Calls, Erase(c) PROVE TypeOK'
  BY <1>20, ConstantsOK DEF Erase, TypeOK
<1>21. ASSUME NEW c \in Calls, Remove(c) PROVE TypeOK'
  BY <1>21 DEF Remove, TypeOK, Call, ActorInv
<1>22. ASSUME NEW c \in Calls, Answer(c) PROVE TypeOK'
  BY <1>22 DEF Answer, TypeOK
<1>23. ASSUME NEW c \in Calls, CallFails(c) PROVE TypeOK'
  BY <1>23, ConstantsOK DEF CallFails, Unfinished, TypeOK
<1>24. ASSUME NEW s \in Sweeps, Claim(s) PROVE TypeOK'
  BY <1>24 DEF Claim, Stale, Pending, TypeOK
<1>25. ASSUME NEW s \in Sweeps, NEW f \in Files, EraseRow(s, f) PROVE TypeOK'
  <2>1. object' \in [Files -> Nat \cup {NoObject}] /\ faults' \in 0..MaxFaults
    BY <1>25, ConstantsOK DEF EraseRow, TypeOK
  <2>2. /\ batch' \in [Sweeps -> SUBSET Files] /\ doing' \in [Sweeps -> Files \cup {NoFile}]
        /\ sweepAt' \in [Sweeps -> {"idle", "erase", "remove", "answer"}]
    BY <1>25 DEF EraseRow, TypeOK
  <2>3. QED
    BY <1>25, <2>1, <2>2 DEF EraseRow, TypeOK
<1>26. ASSUME NEW s \in Sweeps, RemoveRow(s) PROVE TypeOK'
  BY <1>26 DEF RemoveRow, TypeOK, Sweep, ActorInv
<1>27. ASSUME NEW s \in Sweeps, RowRemoved(s) PROVE TypeOK'
  BY <1>27 DEF RowRemoved, TypeOK
<1>28. ASSUME NEW s \in Sweeps, RemoveFails(s) PROVE TypeOK'
  BY <1>28, ConstantsOK DEF RemoveFails, TypeOK
<1>29. ASSUME NEW s \in Sweeps, Finish(s) PROVE TypeOK'
  BY <1>29 DEF Finish, TypeOK
<1>30. ASSUME NEW s \in Sweeps, LocksLost(s) PROVE TypeOK'
  BY <1>30, ConstantsOK DEF LocksLost, TypeOK
<1>31. ASSUME NEW s \in Sweeps, SweepCrashes(s) PROVE TypeOK'
  BY <1>31, ConstantsOK DEF SweepCrashes, TypeOK
<1>32. CASE UNCHANGED vars
  BY <1>32 DEF vars, TypeOK
<1>33. QED
  BY <1>1, <1>2, <1>3, <1>4, <1>5, <1>6, <1>7, <1>8, <1>9, <1>10, <1>11, <1>12, <1>13, <1>14, <1>15,
     <1>16, <1>17, <1>18, <1>19, <1>20, <1>21, <1>22, <1>23, <1>24, <1>25, <1>26, <1>27, <1>28,
     <1>29, <1>30, <1>31, <1>32 DEF Next, CreateStep, CallStep, SweepStep

-----------------------------------------------------------------------------
\* The facts about files: only requests, the PUT, the clock, the DELETEs and those
\* who condemn a file disturb them.
LEMMA FilesStep == IInv /\ [Next]_vars => FileInv'
<1> SUFFICES ASSUME TypeOK, FileInv, ActorInv, [Next]_vars PROVE FileInv'
  BY DEF IInv
<1>1. CASE UNCHANGED <<row, object, at, url, old, deletes, history>>
  BY <1>1 DEF FileInv, Creation, Statement, Kept, Gone
<1>2. ASSUME \/ \E c \in Calls : \E f \in Files : ReadForFinalize(c, f)
             \/ \E c \in Calls : Head(c) \/ Answer(c) \/ CallFails(c)
             \/ \E s \in Sweeps : RowRemoved(s) \/ RemoveFails(s) \/ Finish(s) \/ LocksLost(s) \/ SweepCrashes(s)
      PROVE  FileInv'
  BY <1>1, <1>2 DEF ReadForFinalize, Head, Answer, CallFails, RowRemoved, RemoveFails, Finish,
     LocksLost, SweepCrashes, Unfinished
<1>3. ASSUME NEW f \in Files, Begin(f) PROVE FileInv'
  BY <1>3 DEF Begin, FileInv, Kept, Gone, Statement, Creation, TypeOK
<1>4. ASSUME NEW f \in Files, Store(f) PROVE FileInv'
  <2>1. at[f] = "store" /\ f \in Inline /\ f \notin acked /\ ~url[f] /\ f \notin deletes
    BY <1>4 DEF Store, FileInv, Creation
  <2>2. object' = [object EXCEPT ![f] = Want[f]] /\ at' = [at EXCEPT ![f] = "lock"]
        /\ UNCHANGED <<row, url, old, deletes, acked, cancelled, claimed>>
    BY <1>4 DEF Store
  <2>3. Want[f] <= Want[f] /\ Want[f] # NoObject
    BY ConstantsOK
  <2>4. ASSUME NEW g \in Files
        PROVE  /\ object'[g] # NoObject => object'[g] <= Want[g]
               /\ Creation(g)' /\ Statement(g)' /\ Kept(g)' /\ Gone(g)'
    <3>1. CASE g = f
      BY <2>1, <2>2, <2>3, <3>1 DEF FileInv, Creation, Statement, Kept, Gone, TypeOK
    <3>2. CASE g # f
      BY <2>2, <3>2 DEF FileInv, Creation, Statement, Kept, Gone, TypeOK
    <3>3. QED
      BY <3>1, <3>2
  <2>5. QED
    BY <2>4 DEF FileInv
<1>5. ASSUME NEW f \in Files, LockTenant(f) PROVE FileInv'
  BY <1>5 DEF LockTenant, FileInv, Kept, Gone, Statement, Creation
<1>6. ASSUME NEW f \in Files, Commit(f) PROVE FileInv'
  BY <1>6 DEF Commit, FileInv, Kept, Gone, Statement, Creation, TypeOK
<1>7. ASSUME NEW f \in Files, CommitFails(f) PROVE FileInv'
  BY <1>7 DEF CommitFails, FileInv, Kept, Gone, Statement, Creation, TypeOK
<1>8. ASSUME NEW f \in Files, Undo(f) PROVE FileInv'
  BY <1>8 DEF Undo, FileInv, Kept, Gone, Statement, Creation, TypeOK
<1>9. ASSUME NEW f \in Files, Sign(f) PROVE FileInv'
  BY <1>9 DEF Sign, FileInv, Kept, Gone, Statement, Creation, TypeOK
<1>10. ASSUME NEW f \in Files, Reserve(f) PROVE FileInv'
  BY <1>10 DEF Reserve, FileInv, Kept, Gone, Statement, Creation, TypeOK
<1>11. ASSUME NEW f \in Files, Mint(f) PROVE FileInv'
  BY <1>11 DEF Mint, FileInv, Kept, Gone, Statement, Creation, TypeOK
<1>12. ASSUME NEW f \in Files, Rollback(f) PROVE FileInv'
  BY <1>12 DEF Rollback, FileInv, Kept, Gone, Statement, Creation, TypeOK
<1>13. ASSUME NEW f \in Files, CreateFails(f) PROVE FileInv'
  BY <1>13 DEF CreateFails, FileInv, Kept, Gone, Statement, Creation
<1>14. ASSUME NEW f \in Files, Put(f) PROVE FileInv'
  <2>1. PICK n \in 0..Want[f] : object' = [object EXCEPT ![f] = n]
    BY <1>14 DEF Put
  <2>2. url[f] /\ ~old[f] /\ UNCHANGED <<row, at, url, old, deletes, acked, cancelled, claimed>>
    BY <1>14 DEF Put
  <2>3. n <= Want[f] /\ n # NoObject
    BY <2>1, ConstantsOK
  <2>4. ASSUME NEW g \in Files
        PROVE  /\ object'[g] # NoObject => object'[g] <= Want[g]
               /\ Creation(g)' /\ Statement(g)' /\ Kept(g)' /\ Gone(g)'
    <3>1. CASE g = f
      BY <2>1, <2>2, <2>3, <3>1 DEF FileInv, Creation, Statement, Kept, Gone, TypeOK
    <3>2. CASE g # f
      BY <2>1, <2>2, <3>2 DEF FileInv, Creation, Statement, Kept, Gone, TypeOK
    <3>3. QED
      BY <3>1, <3>2
  <2>5. QED
    BY <2>4 DEF FileInv
<1>15. ASSUME NEW f \in Files, Age(f) PROVE FileInv'
  BY <1>15 DEF Age, FileInv, Kept, Gone, Statement, Creation
<1>16. ASSUME NEW f \in Files, RunDelete(f) PROVE FileInv'
  BY <1>16 DEF RunDelete, FileInv, Kept, Gone, Statement, Creation
<1>17. ASSUME NEW c \in Calls, NEW f \in Files, ReadForCancel(c, f) PROVE FileInv'
  BY <1>17 DEF ReadForCancel, Pending, FileInv, Kept, Gone, Statement, Creation
<1>18. ASSUME NEW c \in Calls, Flip(c) PROVE FileInv'
  BY <1>18 DEF Flip, FileInv, Kept, Gone, Statement, Call, Creation, TypeOK, ActorInv
<1>19. ASSUME NEW c \in Calls, Finalized(c) PROVE FileInv'
  BY <1>19 DEF Finalized, FileInv, Kept, Gone, Statement, Call, Creation, ActorInv
<1>20. ASSUME NEW c \in Calls, Erase(c) PROVE FileInv'
  BY <1>20 DEF Erase, FileInv, Kept, Gone, Statement, Call, Creation, TypeOK, ActorInv
<1>21. ASSUME NEW c \in Calls, Remove(c) PROVE FileInv'
  BY <1>21 DEF Remove, FileInv, Kept, Gone, Statement, Call, Creation, ActorInv
<1>22. ASSUME NEW s \in Sweeps, Claim(s) PROVE FileInv'
  BY <1>22 DEF Claim, Stale, Pending, FileInv, Kept, Gone, Statement, Creation
<1>23. ASSUME NEW s \in Sweeps, NEW f \in Files, EraseRow(s, f) PROVE FileInv'
  BY <1>23 DEF EraseRow, FileInv, Kept, Gone, Statement, Sweep, Creation, TypeOK, ActorInv
<1>24. ASSUME NEW s \in Sweeps, RemoveRow(s) PROVE FileInv'
  BY <1>24 DEF RemoveRow, FileInv, Kept, Gone, Statement, Sweep, Creation, ActorInv
<1>25. CASE UNCHANGED vars
  BY <1>1, <1>25 DEF vars
<1>26. QED
  BY <1>1, <1>2, <1>3, <1>4, <1>5, <1>6, <1>7, <1>8, <1>9, <1>10, <1>11, <1>12, <1>13, <1>14, <1>15,
     <1>16, <1>17, <1>18, <1>19, <1>20, <1>21, <1>22, <1>23, <1>24, <1>25 DEF Next, CreateStep,
     CallStep, SweepStep

\* Inline uploads: a fault ends the claim, and what happens to resumable uploads
\* never touches an inline one.
LEMMA CleanStep == IInv /\ [Next]_vars => CleanInv'
<1> SUFFICES ASSUME TypeOK, FileInv, CleanInv, ActorInv, [Next]_vars PROVE CleanInv'
  BY DEF IInv
<1>1. CASE /\ UNCHANGED faults
            /\ \A g \in Inline : row'[g] = row[g] /\ object'[g] = object[g] /\ at'[g] = at[g]
  BY <1>1 DEF CleanInv, Clean
<1>2. CASE Fault
  BY <1>2 DEF CleanInv, TypeOK
<1>3. ASSUME \/ \E f \in Files : CommitFails(f) \/ CreateFails(f)
             \/ \E c \in Calls : CallFails(c)
             \/ \E s \in Sweeps : RemoveFails(s) \/ LocksLost(s) \/ SweepCrashes(s)
      PROVE  CleanInv'
  BY <1>2, <1>3 DEF CommitFails, CreateFails, CallFails, RemoveFails, LocksLost, SweepCrashes
<1>4. ASSUME \/ \E f \in Files : Age(f)
             \/ \E c \in Calls : \E f \in Files : ReadForFinalize(c, f) \/ ReadForCancel(c, f)
             \/ \E c \in Calls : Head(c) \/ Finalized(c) \/ Remove(c) \/ Answer(c)
             \/ \E s \in Sweeps : Claim(s) \/ RemoveRow(s) \/ RowRemoved(s) \/ Finish(s)
      PROVE  CleanInv'
  BY <1>1, <1>4 DEF Age, ReadForFinalize, ReadForCancel, Head, Finalized, Remove, Answer, Claim,
     RemoveRow, RowRemoved, Finish, Pending, Stale
<1>5. ASSUME NEW f \in Files, Begin(f) PROVE CleanInv'
  <2>1. CASE f \in Inline
    <3>1. \E place \in {"done", "store"} : at' = [at EXCEPT ![f] = place]
      BY <1>5, <2>1 DEF Begin
    <3>2. at[f] = "new" /\ UNCHANGED <<row, object, faults>>
      BY <1>5 DEF Begin
    <3>3. QED
      BY <3>1, <3>2 DEF CleanInv, Clean, TypeOK
  <2>2. CASE f \notin Inline
    BY <1>1, <1>5, <2>2, ConstantsOK DEF Begin, TypeOK
  <2>3. QED
    BY <2>1, <2>2
<1>6. ASSUME NEW f \in Files, Store(f) PROVE CleanInv'
  BY <1>6 DEF Store, CleanInv, Clean, TypeOK
<1>7. ASSUME NEW f \in Files, LockTenant(f) PROVE CleanInv'
  BY <1>7 DEF LockTenant, CleanInv, Clean
<1>8. ASSUME NEW f \in Files, Commit(f) PROVE CleanInv'
  <2>1. CASE at[f] = "insert"
    <3>1. /\ row' = [row EXCEPT ![f] = "active"] /\ at' = [at EXCEPT ![f] = "sign"]
          /\ UNCHANGED <<object, faults>>
      BY <1>8, <2>1 DEF Commit
    <3>2. QED
      BY <3>1, ConstantsOK DEF CleanInv, Clean, TypeOK
  <2>2. CASE at[f] = "full"
    <3>1. at' = [at EXCEPT ![f] = "undo"] /\ UNCHANGED <<row, object, faults>>
      BY <1>8, <2>2 DEF Commit
    <3>2. QED
      BY <2>2, <3>1, ConstantsOK DEF CleanInv, Clean, TypeOK
  <2>3. QED
    BY <1>8, <2>1, <2>2 DEF Commit
<1>9. ASSUME NEW f \in Files, Undo(f) PROVE CleanInv'
  <2>1. CASE Fault
    BY <1>2, <2>1
  <2>2. CASE Delete(f) /\ UNCHANGED faults
    BY <1>9, <2>2 DEF Undo, CleanInv, Clean, TypeOK
  <2>3. QED
    BY <1>9, <2>1, <2>2 DEF Undo
<1>10. ASSUME NEW f \in Files, Sign(f) PROVE CleanInv'
  BY <1>10 DEF Sign, CleanInv, Clean, Creation, FileInv
<1>11. ASSUME NEW f \in Files, Reserve(f) PROVE CleanInv'
  <2>1. f \notin Inline
    BY <1>11 DEF Reserve, FileInv, Creation
  <2>2. QED
    BY <1>1, <1>11, <2>1 DEF Reserve, TypeOK
<1>12. ASSUME NEW f \in Files, Mint(f) PROVE CleanInv'
  <2>1. f \notin Inline /\ UNCHANGED <<row, object>> /\ \A g \in Files : g # f => at'[g] = at[g]
    BY <1>12 DEF Mint, FileInv, Creation, TypeOK
  <2>2. CASE Fault
    BY <1>2, <2>2
  <2>3. CASE UNCHANGED faults
    BY <1>1, <2>1, <2>3, ConstantsOK
  <2>4. QED
    BY <1>12, <2>2, <2>3 DEF Mint
<1>13. ASSUME NEW f \in Files, Rollback(f) PROVE CleanInv'
  <2>1. f \notin Inline
    BY <1>13 DEF Rollback, FileInv, Creation
  <2>2. QED
    BY <1>1, <1>13, <2>1 DEF Rollback, TypeOK
<1>14. ASSUME NEW f \in Files, Put(f) PROVE CleanInv'
  BY <1>14 DEF Put, CleanInv, Clean, Creation, FileInv
<1>15. ASSUME NEW f \in Files, RunDelete(f) PROVE CleanInv'
  BY <1>15 DEF RunDelete, CleanInv, Clean, Creation, FileInv
<1>16. ASSUME NEW c \in Calls, Flip(c) PROVE CleanInv'
  <2>1. callFile[c] \in Inline /\ row[callFile[c]] # "none" => row[callFile[c]] = "active"
    BY <1>16, ConstantsOK DEF Flip, FileInv, Creation, TypeOK
  <2>2. \A g \in Inline : row'[g] = row[g]
    BY <1>16, <2>1, ConstantsOK DEF Flip, TypeOK
  <2>3. QED
    BY <1>1, <1>16, <2>2 DEF Flip
<1>17. ASSUME NEW c \in Calls, Erase(c) PROVE CleanInv'
  <2>1. callFile[c] \notin Inline
    BY <1>17 DEF Erase, ActorInv, Call, FileInv, Creation
  <2>2. UNCHANGED <<row, at>> /\ \A g \in Inline : object'[g] = object[g]
    BY <1>17, <2>1, ConstantsOK DEF Erase, TypeOK
  <2>3. CASE Fault
    BY <1>2, <2>3
  <2>4. CASE UNCHANGED faults
    BY <1>1, <2>2, <2>4
  <2>5. QED
    BY <1>17, <2>3, <2>4 DEF Erase
<1>18. ASSUME NEW s \in Sweeps, NEW f \in Files, EraseRow(s, f) PROVE CleanInv'
  <2>1. f \notin Inline
    BY <1>18 DEF EraseRow, ActorInv, Sweep, FileInv, Creation
  <2>2. UNCHANGED <<row, at>> /\ \A g \in Inline : object'[g] = object[g]
    BY <1>18, <2>1, ConstantsOK DEF EraseRow, TypeOK
  <2>3. CASE Fault
    BY <1>2, <2>3
  <2>4. CASE UNCHANGED faults
    BY <1>1, <2>2, <2>4
  <2>5. QED
    BY <1>18, <2>3, <2>4 DEF EraseRow
<1>19. CASE UNCHANGED vars
  BY <1>1, <1>19 DEF vars
<1>20. QED
  BY <1>1, <1>2, <1>3, <1>4, <1>5, <1>6, <1>7, <1>8, <1>9, <1>10, <1>11, <1>12, <1>13, <1>14, <1>15, <1>16, <1>17,
     <1>18, <1>19 DEF Next, CreateStep, CallStep, SweepStep

\* What calls and sweeps rely on between two awaits.
LEMMA ActorStep == IInv /\ [Next]_vars => ActorInv'
<1> SUFFICES ASSUME TypeOK, FileInv, ActorInv, [Next]_vars PROVE ActorInv'
  BY DEF IInv
<1>1. CASE UNCHANGED <<row, object, old, url, calls, sweeps, history>>
  BY <1>1 DEF ActorInv, Call, Sweep
<1>2. ASSUME \/ \E f \in Files : Begin(f) \/ LockTenant(f) \/ Rollback(f) \/ CreateFails(f)
      PROVE  ActorInv'
  BY <1>1, <1>2 DEF Begin, LockTenant, Rollback, CreateFails
<1>3. ASSUME NEW f \in Files, Store(f) PROVE ActorInv'
  BY <1>3 DEF Store, ActorInv, Sweep, Call, Creation, FileInv
<1>4. ASSUME NEW f \in Files, Commit(f) PROVE ActorInv'
  BY <1>4 DEF Commit, ActorInv, Sweep, Call, TypeOK
<1>5. ASSUME NEW f \in Files, CommitFails(f) PROVE ActorInv'
  BY <1>5 DEF CommitFails, ActorInv, Sweep, Call, TypeOK
<1>6. ASSUME NEW f \in Files, Undo(f) PROVE ActorInv'
  BY <1>6 DEF Undo, ActorInv, Sweep, Call, Creation, TypeOK, FileInv
<1>7. ASSUME NEW f \in Files, Sign(f) PROVE ActorInv'
  BY <1>7 DEF Sign, ActorInv, Sweep, Call
<1>8. ASSUME NEW f \in Files, Reserve(f) PROVE ActorInv'
  BY <1>8 DEF Reserve, ActorInv, Sweep, Call, Creation, FileInv
<1>9. ASSUME NEW f \in Files, Mint(f) PROVE ActorInv'
  BY <1>9 DEF Mint, ActorInv, Sweep, Call, TypeOK
<1>10. ASSUME NEW f \in Files, Put(f) PROVE ActorInv'
  <2>1. PICK n \in 0..Want[f] : object' = [object EXCEPT ![f] = n]
    BY <1>10 DEF Put
  <2>2. ~old[f] /\ UNCHANGED <<row, url, old, calls, sweeps, history>> /\ n # NoObject
    BY <1>10, <2>1, ConstantsOK DEF Put
  <2>3. ASSUME NEW c \in Calls PROVE Call(c)'
    BY <2>1, <2>2 DEF ActorInv, Call, TypeOK
  <2>4. ASSUME NEW s \in Sweeps PROVE Sweep(s)'
    BY <2>1, <2>2 DEF ActorInv, Sweep, TypeOK
  <2>5. QED
    BY <2>3, <2>4 DEF ActorInv
<1>11. ASSUME NEW f \in Files, Age(f) PROVE ActorInv'
  BY <1>11 DEF Age, ActorInv, Sweep, Call
<1>12. ASSUME NEW f \in Files, RunDelete(f) PROVE ActorInv'
  BY <1>12 DEF RunDelete, ActorInv, Statement, Sweep, Call, FileInv
<1>13. ASSUME NEW c \in Calls, NEW f \in Files, ReadForFinalize(c, f) PROVE ActorInv'
  BY <1>13 DEF ReadForFinalize, ActorInv, Sweep, Call, TypeOK
<1>14. ASSUME NEW c \in Calls, NEW f \in Files, ReadForCancel(c, f) PROVE ActorInv'
  BY <1>14 DEF ReadForCancel, Pending, ActorInv, Sweep, Call, TypeOK
<1>15. ASSUME NEW c \in Calls, Head(c) PROVE ActorInv'
  BY <1>15 DEF Head, ActorInv, Sweep, Call, TypeOK, FileInv
<1>16. ASSUME NEW c \in Calls, Flip(c) PROVE ActorInv'
  BY <1>16 DEF Flip, ActorInv, Sweep, Call, TypeOK
<1>17. ASSUME NEW c \in Calls, Finalized(c) PROVE ActorInv'
  BY <1>17 DEF Finalized, ActorInv, Sweep, Call, TypeOK
<1>18. ASSUME NEW c \in Calls, Erase(c) PROVE ActorInv'
  BY <1>18 DEF Erase, ActorInv, Sweep, Call, TypeOK
<1>19. ASSUME NEW c \in Calls, Remove(c) PROVE ActorInv'
  BY <1>19 DEF Remove, ActorInv, Sweep, Call
<1>20. ASSUME NEW c \in Calls, Answer(c) PROVE ActorInv'
  BY <1>20 DEF Answer, ActorInv, Sweep, Call, TypeOK
<1>21. ASSUME NEW c \in Calls, CallFails(c) PROVE ActorInv'
  BY <1>21 DEF CallFails, Unfinished, ActorInv, Sweep, Call, TypeOK
<1>22. ASSUME NEW s \in Sweeps, Claim(s) PROVE ActorInv'
  BY <1>22 DEF Claim, Stale, Pending, ActorInv, Sweep, Call
<1>23. ASSUME NEW s \in Sweeps, NEW f \in Files, EraseRow(s, f) PROVE ActorInv'
  BY <1>23 DEF EraseRow, ActorInv, Sweep, Call, TypeOK
<1>24. ASSUME NEW s \in Sweeps, RemoveRow(s) PROVE ActorInv'
  BY <1>24 DEF RemoveRow, ActorInv, Sweep, Call
<1>25. ASSUME NEW s \in Sweeps, RowRemoved(s) PROVE ActorInv'
  BY <1>25 DEF RowRemoved, ActorInv, Sweep, Call, TypeOK
<1>26. ASSUME NEW s \in Sweeps, RemoveFails(s) PROVE ActorInv'
  BY <1>26 DEF RemoveFails, ActorInv, Sweep, Call, TypeOK
<1>27. ASSUME NEW s \in Sweeps, Finish(s) PROVE ActorInv'
  BY <1>27 DEF Finish, ActorInv, Sweep, Call
<1>28. ASSUME NEW s \in Sweeps, LocksLost(s) PROVE ActorInv'
  BY <1>28 DEF LocksLost, ActorInv, Sweep, Call
<1>29. ASSUME NEW s \in Sweeps, SweepCrashes(s) PROVE ActorInv'
  BY <1>29 DEF SweepCrashes, ActorInv, Sweep, Call, TypeOK
<1>30. CASE UNCHANGED vars
  BY <1>1, <1>30 DEF vars
<1>31. QED
  BY <1>1, <1>2, <1>3, <1>4, <1>5, <1>6, <1>7, <1>8, <1>9, <1>10, <1>11, <1>12, <1>13, <1>14, <1>15,
     <1>16, <1>17, <1>18, <1>19, <1>20, <1>21, <1>22, <1>23, <1>24, <1>25, <1>26, <1>27, <1>28,
     <1>29, <1>30 DEF Next, CreateStep, CallStep, SweepStep

-----------------------------------------------------------------------------
\* The inductive invariant.
LEMMA Invariant == Spec => []IInv
<1>1. Init => IInv
  <2>1. Init => TypeOK
    BY ConstantsOK DEF Init, TypeOK, Places
  <2>2. Init => FileInv
    BY DEF Init, FileInv, Creation, Statement, Kept, Gone
  <2>3. Init => CleanInv
    BY ConstantsOK DEF Init, CleanInv, Clean
  <2>4. Init => ActorInv
    BY DEF Init, ActorInv, Call, Sweep
  <2>5. QED
    BY <2>1, <2>2, <2>3, <2>4 DEF IInv
<1>2. IInv /\ [Next]_vars => IInv'
  BY TypeStep, FilesStep, CleanStep, ActorStep DEF IInv
<1>3. QED
  BY <1>1, <1>2, PTL DEF Spec

\* Every variable keeps its type, and no row is larger than its reservation.
THEOREM TypeCorrect == Spec => []TypeOK
<1>1. IInv => TypeOK
  BY DEF IInv
<1>2. QED
  BY <1>1, Invariant, PTL

\* Without faults, an inline upload that is over left a row and its object, or
\* neither: uploadHandler undoes a lost race for the quota, for any number of
\* concurrent uploads.
THEOREM UploadsCompensated == Spec => []InlineCompensated
<1>1. IInv => InlineCompensated
  BY DEF IInv, CleanInv, Clean, InlineCompensated
<1>2. QED
  BY <1>1, Invariant, PTL

\* A file the service answered 200 for keeps its row and its object, for any number
\* of retries, cancels, sweeps and faults, unless cancel or the orphan GC had read
\* the row as pending.
THEOREM AckedStored == Spec => []AckedIsStored
<1>1. IInv => AckedIsStored
  BY DEF IInv, TypeOK, FileInv, Kept, AckedIsStored
<1>2. QED
  BY <1>1, Invariant, PTL

\* A row that only the orphan GC removed leaves no bytes in the bucket: the GC erases
\* the object first and leaves the row alone when that fails.
THEOREM SweptClean == Spec => []SweptLeavesNothing
<1>1. IInv => SweptLeavesNothing
  BY DEF IInv, FileInv, Gone, SweptLeavesNothing
<1>2. QED
  BY <1>1, Invariant, PTL

-----------------------------------------------------------------------------
(* The bytes of a set of rows, for sizes s.                                *)

\* The bytes of one row are as many as its size says.
LEMMA RowBytes ==
    ASSUME NEW f, NEW n \in Nat
    PROVE  IsFiniteSet({f} \X (1..n)) /\ Cardinality({f} \X (1..n)) = n
<1> DEFINE nth == [i \in 1..n |-> <<f, i>>]
<1>1. IsFiniteSet(1..n) /\ Cardinality(1..n) = n
  BY FS_Interval
<1>2. nth \in Bijection(1..n, {f} \X (1..n))
  <2>1. nth \in [1..n -> {f} \X (1..n)]
    OBVIOUS
  <2>2. \A i, j \in 1..n : nth[i] = nth[j] => i = j
    OBVIOUS
  <2>3. \A p \in {f} \X (1..n) : \E i \in 1..n : nth[i] = p
    <3>1. TAKE p \in {f} \X (1..n)
    <3>2. p[2] \in 1..n /\ p = <<f, p[2]>>
      OBVIOUS
    <3>3. QED
      BY <3>2
  <2>4. QED
    BY <2>1, <2>2, <2>3 DEF Bijection, Injection, Surjection, IsInjective
<1>3. ExistsBijection(1..n, {f} \X (1..n))
  BY <1>2 DEF ExistsBijection
<1>4. QED
  BY <1>1, <1>3, FS_Bijection

\* The rows of finitely many files have finitely many bytes.
LEMMA BytesFinite ==
    ASSUME NEW S \in SUBSET Files, NEW s \in [Files -> Nat]
    PROVE  /\ IsFiniteSet(UNION {{f} \X (1..s[f]) : f \in S})
           /\ Cardinality(UNION {{f} \X (1..s[f]) : f \in S}) \in Nat
<1> DEFINE rowOf == [f \in S |-> {f} \X (1..s[f])]
           parts == {{f} \X (1..s[f]) : f \in S}
<1>1. IsFiniteSet(S)
  BY ConstantsOK, FS_Subset
<1>2. rowOf \in Surjection(S, parts)
  BY DEF Surjection
<1>3. IsFiniteSet(parts)
  BY <1>1, <1>2, FS_Surjection
<1>4. ASSUME NEW T \in parts PROVE IsFiniteSet(T)
  <2>1. PICK f \in S : T = {f} \X (1..s[f])
    OBVIOUS
  <2>2. s[f] \in Nat
    OBVIOUS
  <2>3. QED
    BY <2>1, <2>2, RowBytes
<1>5. IsFiniteSet(UNION parts)
  BY <1>3, <1>4, FS_UNION
<1>6. QED
  BY <1>5, FS_CardinalityType

\* More rows, more bytes.
LEMMA BytesMonotone ==
    ASSUME NEW T \in SUBSET Files, NEW S \in SUBSET T, NEW s \in [Files -> Nat]
    PROVE  Cardinality(UNION {{f} \X (1..s[f]) : f \in S})
               <= Cardinality(UNION {{f} \X (1..s[f]) : f \in T})
<1> DEFINE few == UNION {{f} \X (1..s[f]) : f \in S}
           many == UNION {{f} \X (1..s[f]) : f \in T}
<1>1. IsFiniteSet(many)
  BY BytesFinite
<1>2. few \in SUBSET many
  OBVIOUS
<1>3. QED
  BY <1>1, <1>2, FS_Subset

\* A row that is not there yet adds its size.
LEMMA BytesAdded ==
    ASSUME NEW S \in SUBSET Files, NEW f \in Files \ S, NEW s \in [Files -> Nat]
    PROVE  Cardinality(UNION {{g} \X (1..s[g]) : g \in S \cup {f}})
               = Cardinality(UNION {{g} \X (1..s[g]) : g \in S}) + s[f]
<1> DEFINE before == UNION {{g} \X (1..s[g]) : g \in S}
           added == {f} \X (1..s[f])
<1>1. IsFiniteSet(before) /\ Cardinality(before) \in Nat
  BY BytesFinite
<1>2. s[f] \in Nat /\ IsFiniteSet(added) /\ Cardinality(added) = s[f]
  BY RowBytes
<1>3. Cardinality(before \cap added) = 0
  <2>1. before \cap added = {}
    OBVIOUS
  <2>2. QED
    BY <2>1, FS_EmptySet
<1>4. UNION {{g} \X (1..s[g]) : g \in S \cup {f}} = before \cup added
  OBVIOUS
<1> HIDE DEF before, added
<1>5. /\ IsFiniteSet(before \cup added)
      /\ Cardinality(before \cup added)
             = Cardinality(before) + Cardinality(added) - Cardinality(before \cap added)
  BY <1>1, <1>2, FS_Union
<1>6. Cardinality(before \cup added) = Cardinality(before) + s[f]
  BY <1>1, <1>2, <1>3, <1>5
<1>7. QED
  BY <1>4, <1>6 DEF before

\* The rows that InlineWithinQuota counts, and the bytes they asked for.
InlineRows == Stored({"active"}) \cap Inline

Asked(S) == Cardinality(UNION {{f} \X (1..Want[f]) : f \in S})

\* Nobody but its request writes the object of an inline upload: it is as large as
\* the buffer, and so is what a finalize reads of it and writes to the row.
ExactInv ==
    /\ \A f \in Inline :
        /\ row[f] = "active" => size[f] = Want[f]
        /\ object[f] # NoObject => object[f] = Want[f]
    /\ \A c \in Calls :
        callAt[c] = "flip" /\ callFile[c] \in Inline => seen[c] = Want[callFile[c]]
    /\ \A f \in Files : at[f] \in {"new", "store", "lock", "insert"} => row[f] = "none"

\* Whoever is about to insert holds the advisory lock, and the room it found is
\* still there.
RoomInv ==
    /\ Asked(InlineRows) <= Limit
    /\ \A f \in Files :
        at[f] = "insert" => tenantLock = f /\ Asked(InlineRows) + Want[f] <= Limit

QuotaInv == IInv /\ ExactInv /\ RoomInv

\* Sizes asked for, as numbers.
LEMMA WantNat == Want \in [Files -> Nat] /\ Asked(InlineRows) \in Nat
<1>1. Want \in [Files -> Nat]
  BY ConstantsOK
<1>2. InlineRows \in SUBSET Files
  BY DEF InlineRows, Stored
<1>3. QED
  BY <1>1, <1>2, BytesFinite DEF Asked

\* What the rows take up is what their uploads asked for, and no more than what
\* the conditional INSERT of a new one sums up.
LEMMA InlineBytes ==
    ASSUME TypeOK, ExactInv
    PROVE  /\ Bytes(InlineRows) = Asked(InlineRows)
           /\ Bytes(Stored({"pending", "active"})) \in Nat
           /\ Asked(InlineRows) <= Bytes(Stored({"pending", "active"}))
<1>1. size \in [Files -> Nat]
  BY DEF TypeOK
<1>2. InlineRows \in SUBSET Stored({"pending", "active"}) /\ Stored({"pending", "active"}) \in SUBSET Files
  BY DEF InlineRows, Stored
<1>3. \A f \in InlineRows : size[f] = Want[f]
  BY DEF InlineRows, Stored, ExactInv
<1>4. UNION {{f} \X (1..size[f]) : f \in InlineRows} = UNION {{f} \X (1..Want[f]) : f \in InlineRows}
  BY <1>3
<1>5. Bytes(InlineRows) = Asked(InlineRows)
  BY <1>4 DEF Bytes, Asked
<1>6. Bytes(InlineRows) <= Bytes(Stored({"pending", "active"}))
  BY <1>1, <1>2, BytesMonotone DEF Bytes
<1>7. Bytes(Stored({"pending", "active"})) \in Nat
  BY <1>1, <1>2, BytesFinite DEF Bytes
<1>8. QED
  BY <1>5, <1>6, <1>7

\* Sizes of inline uploads: the store, the PUT (of resumable ones), the INSERT and
\* finalize write sizes; the DELETEs write none.
LEMMA ExactStep == IInv /\ ExactInv /\ [Next]_vars => ExactInv'
<1> SUFFICES ASSUME TypeOK, FileInv, ActorInv, ExactInv, [Next]_vars PROVE ExactInv'
  BY DEF IInv
<1>1. CASE UNCHANGED <<row, size, object, at, callAt, callFile, seen>>
  BY <1>1 DEF ExactInv
<1>2. ASSUME \/ \E f \in Files : Age(f)
             \/ \E s \in Sweeps : \/ Claim(s) \/ RemoveRow(s) \/ RowRemoved(s) \/ RemoveFails(s) \/ Finish(s)
                                  \/ LocksLost(s) \/ SweepCrashes(s)
      PROVE  ExactInv'
  BY <1>1, <1>2 DEF Age, Claim, RemoveRow, RowRemoved, RemoveFails, Finish, LocksLost, SweepCrashes
<1>3. ASSUME NEW f \in Files, \/ Begin(f) \/ LockTenant(f) \/ Undo(f) \/ Sign(f) \/ Mint(f)
                              \/ Rollback(f) \/ CreateFails(f)
      PROVE  ExactInv'
  <2>1. UNCHANGED <<row, size, callAt, callFile, seen>>
    BY <1>3 DEF Begin, LockTenant, Undo, Sign, Mint, Rollback, CreateFails
  <2>2. \A g \in Files : object'[g] = object[g] \/ object'[g] = NoObject
    BY <1>3 DEF Begin, LockTenant, Undo, Sign, Mint, Rollback, CreateFails, TypeOK
  <2>3. \A g \in Files : at'[g] = at[g] \/ g = f
    BY <1>3 DEF Begin, LockTenant, Undo, Sign, Mint, Rollback, CreateFails, TypeOK
  <2>4. at'[f] \in {"new", "store", "lock", "insert"} => at[f] \in {"new", "store", "lock", "insert"}
    BY <1>3 DEF Begin, LockTenant, Undo, Sign, Mint, Rollback, CreateFails, TypeOK
  <2>5. QED
    BY <2>1, <2>2, <2>3, <2>4, ConstantsOK DEF ExactInv
<1>4. ASSUME NEW f \in Files, Store(f) PROVE ExactInv'
  BY <1>4, ConstantsOK DEF Store, ExactInv, TypeOK
<1>5. ASSUME NEW f \in Files, PutRow(f, "active", Want[f]), at' \in [Files -> Places],
             at'[f] \notin {"new", "store", "lock", "insert"},
             \A g \in Files \ {f} : at'[g] = at[g], UNCHANGED <<object, callAt, callFile, seen>>
      PROVE  ExactInv'
  BY <1>5, ConstantsOK DEF ExactInv, TypeOK
<1>6. ASSUME NEW f \in Files, UNCHANGED <<rows, object, callAt, callFile, seen>>,
             at' = [at EXCEPT ![f] = "undo"]
      PROVE  ExactInv'
  BY <1>6 DEF ExactInv, TypeOK
<1>7. ASSUME NEW f \in Files, Commit(f) PROVE ExactInv'
  <2>1. CASE at[f] = "insert"
    BY <1>5, <1>7, <2>1 DEF Commit, TypeOK, Places
  <2>2. CASE at[f] = "full"
    BY <1>6, <1>7, <2>2 DEF Commit
  <2>3. QED
    BY <1>7, <2>1, <2>2 DEF Commit
<1>8. ASSUME NEW f \in Files, CommitFails(f) PROVE ExactInv'
  <2>1. CASE PutRow(f, "active", Want[f])
    BY <1>5, <1>8, <2>1 DEF CommitFails, TypeOK, Places
  <2>2. CASE UNCHANGED rows
    BY <1>6, <1>8, <2>2 DEF CommitFails
  <2>3. QED
    BY <1>8, <2>1, <2>2 DEF CommitFails
<1>9. ASSUME NEW f \in Files, Reserve(f) PROVE ExactInv'
  <2>1. f \notin Inline
    BY <1>9 DEF Reserve, FileInv, Creation
  <2>2. QED
    BY <1>9, <2>1, ConstantsOK DEF Reserve, ExactInv, TypeOK
<1>10. ASSUME NEW f \in Files, Put(f) PROVE ExactInv'
  <2>1. f \notin Inline
    BY <1>10 DEF Put, FileInv, Creation
  <2>2. QED
    BY <1>10, <2>1, ConstantsOK DEF Put, ExactInv, TypeOK
<1>11. ASSUME NEW f \in Files, RunDelete(f) PROVE ExactInv'
  BY <1>11, ConstantsOK DEF RunDelete, ExactInv, TypeOK
<1>12. ASSUME NEW c \in Calls, NEW f \in Files, ReadForFinalize(c, f) \/ ReadForCancel(c, f) PROVE ExactInv'
  BY <1>12 DEF ReadForFinalize, ReadForCancel, ExactInv, TypeOK
<1>13. ASSUME NEW c \in Calls, Head(c) PROVE ExactInv'
  BY <1>13, ConstantsOK DEF Head, ExactInv, TypeOK
<1>14. ASSUME NEW c \in Calls, Flip(c) PROVE ExactInv'
  <2>1. callFile[c] \in Files /\ at[callFile[c]] = "done"
    BY <1>14 DEF Flip, ActorInv, Call, FileInv, Creation
  <2>2. CASE row[callFile[c]] = "none"
    BY <1>14, <2>2 DEF Flip, ExactInv, TypeOK
  <2>3. CASE row[callFile[c]] # "none"
    <3>1. PutRow(callFile[c], "active", seen[c]) /\ UNCHANGED <<object, at, callFile, seen>>
      BY <1>14, <2>3 DEF Flip
    <3>2. \A d \in Calls : callAt'[d] = "flip" => callAt[d] = "flip"
      BY <1>14 DEF Flip, TypeOK
    <3>3. callFile[c] \in Inline => seen[c] = Want[callFile[c]]
      BY <1>14 DEF Flip, ExactInv
    <3>4. QED
      BY <2>1, <3>1, <3>2, <3>3, ConstantsOK DEF ExactInv, TypeOK
  <2>4. QED
    BY <2>2, <2>3
<1>15. ASSUME NEW c \in Calls, Finalized(c) \/ Erase(c) \/ Remove(c) \/ Answer(c) \/ CallFails(c) PROVE ExactInv'
  <2>1. UNCHANGED <<row, size, at>> /\ \A g \in Files : object'[g] = object[g] \/ object'[g] = NoObject
    BY <1>15 DEF Finalized, Erase, Remove, Answer, CallFails, TypeOK
  <2>2. \A d \in Calls : callAt'[d] = "flip" => d # c /\ callAt[d] = "flip" /\ callFile'[d] = callFile[d] /\ seen'[d] = seen[d]
    BY <1>15 DEF Finalized, Erase, Remove, Answer, CallFails, TypeOK
  <2>3. QED
    BY <2>1, <2>2, ConstantsOK DEF ExactInv
<1>16. ASSUME NEW s \in Sweeps, NEW f \in Files, EraseRow(s, f) PROVE ExactInv'
  <2>1. /\ UNCHANGED <<row, size, at, callAt, callFile, seen>>
        /\ \A g \in Files : object'[g] = object[g] \/ object'[g] = NoObject
    BY <1>16 DEF EraseRow, TypeOK
  <2>2. QED
    BY <2>1, ConstantsOK DEF ExactInv
<1>17. CASE UNCHANGED vars
  BY <1>1, <1>17 DEF vars
<1>18. QED
  BY <1>2, <1>3, <1>4, <1>7, <1>8, <1>9, <1>10, <1>11, <1>12, <1>13, <1>14, <1>15, <1>16, <1>17
     DEF Next, CreateStep, CallStep, SweepStep

\* Only the holder of the advisory lock adds a row, and only into the room it found.
LEMMA RoomStep == QuotaInv /\ [Next]_vars => RoomInv'
<1> SUFFICES ASSUME TypeOK, FileInv, ActorInv, ExactInv, RoomInv, [Next]_vars PROVE RoomInv'
  BY DEF QuotaInv, IInv
<1>1. CASE /\ \A g \in Inline : row'[g] = "active" => row[g] = "active"
           /\ \A g \in Files : at'[g] = "insert" => at[g] = "insert" /\ tenantLock' = tenantLock
  <2>1. Want \in [Files -> Nat] /\ InlineRows \in SUBSET Files /\ InlineRows' \in SUBSET InlineRows
    BY <1>1, ConstantsOK DEF InlineRows, Stored
  <2>2. Asked(InlineRows) \in Nat /\ Asked(InlineRows)' \in Nat /\ Asked(InlineRows)' <= Asked(InlineRows)
    BY <2>1, BytesFinite, BytesMonotone DEF Asked
  <2>3. QED
    BY <1>1, <2>1, <2>2, ConstantsOK DEF RoomInv
<1>2. ASSUME NEW f \in Files, at[f] = "insert", PutRow(f, "active", Want[f]),
             \A g \in Files : at'[g] = "insert" => g # f /\ at[g] = "insert"
      PROVE  RoomInv'
  <2>1. f \in Inline /\ row[f] = "none" /\ tenantLock = f
    BY <1>2 DEF FileInv, Creation, ExactInv, RoomInv
  <2>2. InlineRows' = InlineRows \cup {f} /\ f \notin InlineRows
    BY <1>2, <2>1, ConstantsOK DEF InlineRows, Stored, TypeOK
  <2>3. Want \in [Files -> Nat] /\ InlineRows \in SUBSET Files
    BY ConstantsOK DEF InlineRows, Stored
  <2>4. Asked(InlineRows)' = Asked(InlineRows) + Want[f]
    BY <2>2, <2>3, BytesAdded DEF Asked
  <2>5. Asked(InlineRows)' <= Limit
    BY <1>2, <2>4 DEF RoomInv
  <2>6. \A g \in Files : at'[g] # "insert"
    BY <1>2, <2>1 DEF RoomInv
  <2>7. QED
    BY <2>5, <2>6 DEF RoomInv
<1>3. ASSUME NEW f \in Files, \/ Begin(f) \/ Store(f) \/ Undo(f) \/ Sign(f) \/ Mint(f) \/ Reserve(f)
                              \/ Rollback(f) \/ Put(f) \/ Age(f)
      PROVE  RoomInv'
  <2>1. tenantLock' = tenantLock /\ \A g \in Files : at'[g] = "insert" => at[g] = "insert"
    BY <1>3 DEF Begin, Store, Undo, Sign, Mint, Reserve, Rollback, Put, Age, TypeOK
  <2>2. \A g \in Inline : row'[g] = "active" => row[g] = "active"
    BY <1>3, ConstantsOK DEF Begin, Store, Undo, Sign, Mint, Reserve, Rollback, Put, Age, TypeOK
  <2>3. QED
    BY <1>1, <2>1, <2>2
<1>4. ASSUME NEW f \in Files, LockTenant(f) PROVE RoomInv'
  <2>1. UNCHANGED row /\ tenantLock' = f /\ \A g \in Files : at'[g] = "insert" => g = f \/ at[g] = "insert"
    BY <1>4 DEF LockTenant, TypeOK
  <2>2. \A g \in Files : at[g] # "insert"
    BY <1>4, ConstantsOK DEF LockTenant, RoomInv
  <2>3. InlineRows' = InlineRows
    BY <2>1 DEF InlineRows, Stored
  <2>4. at'[f] = "insert" => Fits(f)
    BY <1>4 DEF LockTenant, TypeOK
  <2>5. Asked(InlineRows) \in Nat /\ Want[f] \in Nat
    BY WantNat
  <2>6. Fits(f) => Asked(InlineRows) + Want[f] <= Limit
    BY <2>5, InlineBytes, ConstantsOK DEF Fits
  <2>7. QED
    BY <2>1, <2>2, <2>3, <2>4, <2>6 DEF RoomInv
<1>5. ASSUME NEW f \in Files, Commit(f) \/ CommitFails(f) \/ CreateFails(f) PROVE RoomInv'
  <2>1. CASE at[f] = "insert" /\ PutRow(f, "active", Want[f])
    BY <1>2, <1>5, <2>1 DEF Commit, CommitFails, CreateFails, TypeOK
  <2>2. CASE UNCHANGED rows
    <3>1. \A g \in Files : at'[g] = "insert" => g # f /\ at[g] = "insert"
      BY <1>5 DEF Commit, CommitFails, CreateFails, TypeOK
    <3>2. \A g \in Files : at[g] = "insert" => tenantLock = g
      BY DEF RoomInv
    <3>3. tenantLock # f => tenantLock' = tenantLock
      BY <1>5 DEF Commit, CommitFails, CreateFails
    <3>4. QED
      BY <1>1, <2>2, <3>1, <3>2, <3>3
  <2>3. QED
    BY <1>5, <2>1, <2>2 DEF Commit, CommitFails, CreateFails
<1>6. ASSUME NEW f \in Files, RunDelete(f) PROVE RoomInv'
  <2>1. /\ UNCHANGED <<at, tenantLock>>
        /\ \A g \in Inline : row'[g] = "active" => row[g] = "active"
    BY <1>6, ConstantsOK DEF RunDelete, TypeOK
  <2>2. QED
    BY <1>1, <2>1
<1>7. ASSUME NEW c \in Calls, Flip(c) PROVE RoomInv'
  <2>1. callFile[c] \in Inline /\ row[callFile[c]] # "none" => row[callFile[c]] = "active"
    BY <1>7, ConstantsOK DEF Flip, FileInv, Creation, TypeOK
  <2>2. /\ UNCHANGED <<at, tenantLock>>
        /\ \A g \in Inline : row'[g] = row[g]
    BY <1>7, <2>1, ConstantsOK DEF Flip, TypeOK
  <2>3. QED
    BY <1>1, <2>2
<1>8. CASE UNCHANGED <<row, at, tenantLock>>
  BY <1>1, <1>8
<1>9. ASSUME \/ \E c \in Calls, f \in Files : ReadForFinalize(c, f) \/ ReadForCancel(c, f)
             \/ \E c \in Calls : Head(c) \/ Finalized(c) \/ Erase(c) \/ Remove(c) \/ Answer(c) \/ CallFails(c)
             \/ \E s \in Sweeps, f \in Files : EraseRow(s, f)
             \/ \E s \in Sweeps : \/ Claim(s) \/ RemoveRow(s) \/ RowRemoved(s) \/ RemoveFails(s) \/ Finish(s)
                                  \/ LocksLost(s) \/ SweepCrashes(s)
      PROVE  RoomInv'
  BY <1>8, <1>9 DEF ReadForFinalize, ReadForCancel, Head, Finalized, Erase, Remove, Answer, CallFails, EraseRow,
     Claim, RemoveRow, RowRemoved, RemoveFails, Finish, LocksLost, SweepCrashes
<1>10. QED
  BY <1>3, <1>4, <1>5, <1>6, <1>7, <1>8, <1>9 DEF Next, CreateStep, CallStep, SweepStep, vars

\* Inline uploads alone never take the tenant over its storage cap, for any number of
\* concurrent uploads of any sizes, whatever finalizes, deletes, sweeps and faults do
\* meanwhile: the conditional INSERT runs under the tenant's advisory lock.
THEOREM InlineQuotaKept == Spec => []InlineWithinQuota
<1>1. Init => ExactInv /\ RoomInv
  <2>1. Init => ExactInv
    BY ConstantsOK DEF Init, ExactInv
  <2>2. Init => InlineRows = {}
    BY ConstantsOK DEF Init, InlineRows, Stored
  <2>3. Asked({}) = 0
    <3>1. UNION {{f} \X (1..Want[f]) : f \in {}} = {}
      OBVIOUS
    <3>2. QED
      BY <3>1, FS_EmptySet DEF Asked
  <2>4. Init => RoomInv
    <3>1. Init => Asked(InlineRows) = 0 /\ Limit >= 0
      BY <2>2, <2>3, ConstantsOK
    <3>2. Init => \A f \in Files : at[f] # "insert"
      BY DEF Init
    <3>3. QED
      BY <3>1, <3>2, ConstantsOK DEF RoomInv
  <2>5. QED
    BY <2>1, <2>4
<1>2. IInv /\ ExactInv /\ RoomInv /\ [Next]_vars => ExactInv' /\ RoomInv'
  BY ExactStep, RoomStep DEF QuotaInv
<1>3. IInv /\ ExactInv /\ RoomInv => InlineWithinQuota
  BY InlineBytes DEF IInv, RoomInv, InlineRows, InlineWithinQuota
<1>4. QED
  BY <1>1, <1>2, <1>3, Invariant, PTL DEF Spec

-----------------------------------------------------------------------------
(* ServiceIdentity                                                         *)

CallPlaces == {"none", "verify", "query", "answer", "served"}

CallTypes(top) ==
    [at : CallPlaces, replica : Replicas, sa : {0} \cup Accounts, now : 0 .. top,
     row : HandlerApps \cup {NoCaller}, app : HandlerApps \cup {NoCaller}]

EntryTypes == [app : HandlerApps \cup {NoCaller}, expiresAt : 0 .. MaxInstant + CacheTTL]

\* An entry expires at most the TTL after its account was last its app's.
EntryAge(p, n) ==
    saCache[p][n].app # NoCaller =>
        saCache[p][n].expiresAt <= bound[saCache[p][n].app][n] + CacheTTL

EntriesAge == \A p \in Replicas : \A n \in Accounts : EntryAge(p, n)

\* What is known of a request at each of its places: a row that was read was
\* bound since the look into the cache.
CallKnows(c) ==
    /\ call[c].now <= instant
    /\ call[c].at # "none" => call[c].sa \in Accounts
    /\ call[c].at # "answer" => call[c].row = NoCaller
    /\ call[c].row # NoCaller => call[c].now <= bound[call[c].row][call[c].sa]
    /\ call[c].at = "served" =>
          /\ call[c].app # NoCaller
          /\ call[c].now < bound[call[c].app][call[c].sa] + CacheTTL

CallsKnow == \A c \in ServiceCalls : CallKnows(c)

BoundPast ==
    \A a \in HandlerApps : \A n \in Accounts : bound[a][n] <= instant

IdentityInv == IdentityTypeOK /\ BoundPast /\ EntriesAge /\ CallsKnow

LEMMA IdentityBounds ==
    /\ CacheTTL \in Nat /\ CacheTTL >= 1
    /\ MaxInstant \in Nat /\ MaxAccounts \in Nat /\ MaxChanges \in Nat
    /\ NoCaller \notin HandlerApps
BY IdentityAssumption

LEMMA NoCallType ==
    ASSUME NEW p \in Replicas, NEW top \in Nat
    PROVE  NoCall(p) \in CallTypes(top)
BY DEF NoCall, CallTypes, CallPlaces

\* Whatever else a step does: bound keeps its type and nothing in it sinks.
LEMMA BoundGrows ==
    ASSUME IdentityTypeOK, BoundPast, Remember, instant' \in instant .. MaxInstant
    PROVE  /\ bound' \in [HandlerApps -> [Accounts -> -1 .. MaxInstant]]
           /\ BoundPast'
           /\ \A a \in HandlerApps : \A n \in Accounts : bound[a][n] <= bound'[a][n]
           /\ \A a \in HandlerApps : \A n \in Accounts :
                 Bound(a, n)' => bound'[a][n] = instant'
<1> USE IdentityBounds DEF IdentityTypeOK, BoundPast
<1>1. ASSUME NEW a \in HandlerApps, NEW n \in Accounts
      PROVE  /\ bound[a][n] \in -1 .. MaxInstant /\ bound[a][n] <= instant
             /\ bound'[a][n] = IF Bound(a, n)' THEN instant' ELSE bound[a][n]
  BY <1>1 DEF Remember
<1>2. instant \in Nat /\ instant' \in Nat /\ instant <= instant' /\ instant' <= MaxInstant
  OBVIOUS
<1>3. ASSUME NEW a \in HandlerApps, NEW n \in Accounts
      PROVE  /\ bound'[a][n] \in -1 .. MaxInstant /\ bound'[a][n] <= instant'
             /\ bound[a][n] <= bound'[a][n]
             /\ Bound(a, n)' => bound'[a][n] = instant'
  BY <1>1, <1>2, <1>3
<1>4. bound' = [a \in HandlerApps |-> [n \in Accounts |-> bound'[a][n]]]
  BY DEF Remember
<1>5. bound' \in [HandlerApps -> [Accounts -> -1 .. MaxInstant]]
  BY <1>3, <1>4
<1>6. QED
  BY <1>3, <1>5

\* A request that does not move keeps what it knows.
LEMMA CallStaysKnown ==
    ASSUME IdentityTypeOK, NEW c \in ServiceCalls, CallKnows(c), call'[c] = call[c],
           bound' \in [HandlerApps -> [Accounts -> -1 .. MaxInstant]],
           \A a \in HandlerApps : \A n \in Accounts : bound[a][n] <= bound'[a][n],
           instant' \in instant .. MaxInstant
    PROVE  CallKnows(c)'
<1>1. call[c] \in CallTypes(MaxInstant)
  BY DEF IdentityTypeOK, CallTypes, CallPlaces
<1>2. ASSUME NEW a \in HandlerApps, NEW n \in Accounts
      PROVE  bound[a][n] \in Int /\ bound'[a][n] \in Int
  BY <1>2, IdentityBounds DEF IdentityTypeOK
<1>3. /\ call[c].now \in Int /\ instant \in Int /\ instant' \in Int
      /\ call[c].row \in HandlerApps \cup {NoCaller} /\ call[c].app \in HandlerApps \cup {NoCaller}
  BY <1>1, IdentityBounds DEF CallTypes, IdentityTypeOK
<1>4. call[c].row # NoCaller => call[c].sa \in Accounts
  BY DEF CallKnows
<1>5. call[c].row # NoCaller =>
        bound[call[c].row][call[c].sa] <= bound'[call[c].row][call[c].sa]
  BY <1>3, <1>4
<1>6. call[c].at = "served" =>
        bound[call[c].app][call[c].sa] <= bound'[call[c].app][call[c].sa]
  BY <1>3 DEF CallKnows
<1>7. call[c].row # NoCaller => call[c].now <= bound'[call[c].row][call[c].sa]
  BY <1>2, <1>3, <1>4, <1>5 DEF CallKnows
<1>8. call[c].at = "served" => call[c].now < bound'[call[c].app][call[c].sa] + CacheTTL
  BY <1>2, <1>3, <1>6, IdentityBounds DEF CallKnows
<1>9. call[c].now <= instant'
  BY <1>3 DEF CallKnows
<1>10. QED
  BY <1>7, <1>8, <1>9 DEF CallKnows

\* What a step has to show: the types, and what it moves.
LEMMA IdentityKept ==
    ASSUME IdentityInv, Remember, instant' \in instant .. MaxInstant,
           standing' \in [HandlerApps -> {"active", "idle", "gone"}],
           saOf' \in [HandlerApps -> {0} \cup Accounts],
           created' \in {0} \cup Accounts,
           provision' \in [HandlerApps -> {0} \cup Accounts],
           changes' \in 0 .. MaxChanges,
           saCache' \in [Replicas -> [Accounts -> EntryTypes]],
           call' \in [ServiceCalls -> CallTypes(MaxInstant)],
           \A p \in Replicas : \A n \in Accounts :
               saCache'[p][n] = saCache[p][n] \/ EntryAge(p, n)',
           \A c \in ServiceCalls : call'[c] = call[c] \/ CallKnows(c)'
    PROVE  IdentityInv'
<1>1. IdentityTypeOK /\ BoundPast /\ EntriesAge /\ CallsKnow
  BY DEF IdentityInv
<1>2. /\ bound' \in [HandlerApps -> [Accounts -> -1 .. MaxInstant]] /\ BoundPast'
      /\ \A a \in HandlerApps : \A n \in Accounts : bound[a][n] <= bound'[a][n]
  BY <1>1, BoundGrows
<1>3. instant' \in 0 .. MaxInstant
  BY <1>1, IdentityBounds DEF IdentityTypeOK
<1>4. IdentityTypeOK'
  BY <1>2, <1>3 DEF IdentityTypeOK, EntryTypes, CallTypes, CallPlaces
<1>5. bound \in [HandlerApps -> [Accounts -> -1 .. MaxInstant]]
  BY <1>1 DEF IdentityTypeOK
<1>6. ASSUME NEW p \in Replicas, NEW n \in Accounts, saCache'[p][n] = saCache[p][n]
      PROVE  EntryAge(p, n)'
  <2> SUFFICES ASSUME saCache[p][n].app # NoCaller
               PROVE  saCache[p][n].expiresAt <= bound'[saCache[p][n].app][n] + CacheTTL
    BY <1>6 DEF EntryAge
  <2>1. saCache[p][n] \in EntryTypes
    BY <1>1 DEF IdentityTypeOK, EntryTypes
  <2>2. saCache[p][n].app \in HandlerApps /\ saCache[p][n].expiresAt \in Nat
    BY <2>1, IdentityBounds DEF EntryTypes
  <2>3. saCache[p][n].expiresAt <= bound[saCache[p][n].app][n] + CacheTTL
    BY <1>1 DEF EntriesAge, EntryAge
  <2>4. bound[saCache[p][n].app][n] <= bound'[saCache[p][n].app][n]
    BY <1>2, <2>2
  <2>5. bound[saCache[p][n].app][n] \in Int /\ bound'[saCache[p][n].app][n] \in Int
    BY <1>2, <1>5, <2>2, IdentityBounds
  <2>6. QED
    BY <2>2, <2>3, <2>4, <2>5, IdentityBounds
<1>7. EntriesAge'
  BY <1>6 DEF EntriesAge
<1>8. ASSUME NEW c \in ServiceCalls, call'[c] = call[c] PROVE CallKnows(c)'
  BY <1>1, <1>2, <1>8, CallStaysKnown DEF CallsKnow
<1>9. CallsKnow'
  BY <1>8 DEF CallsKnow
<1>10. QED
  BY <1>2, <1>4, <1>7, <1>9 DEF IdentityInv

LEMMA AppStepKeeps ==
    ASSUME IdentityInv, Remember, NEW a \in HandlerApps, AppStep(a)
    PROVE  IdentityInv'
<1>1. IdentityTypeOK /\ changes \in Nat /\ instant \in instant .. MaxInstant
  BY IdentityBounds DEF IdentityInv, IdentityTypeOK
<1>2. /\ saCache \in [Replicas -> [Accounts -> EntryTypes]]
      /\ call \in [ServiceCalls -> CallTypes(MaxInstant)]
  BY <1>1 DEF IdentityTypeOK, EntryTypes, CallTypes, CallPlaces
<1>3. UNCHANGED <<instant, saCache, call>>
  BY DEF AppStep, provisionHandlerSa, writeHandlerSaEmail, ProvisioningFails, DeleteRow,
         SetStanding
<1>4. changes' \in 0 .. MaxChanges
  BY <1>1, IdentityBounds
  DEF AppStep, provisionHandlerSa, writeHandlerSaEmail, ProvisioningFails, DeleteRow,
      SetStanding, Change, IdentityTypeOK
<1>5. /\ standing' \in [HandlerApps -> {"active", "idle", "gone"}]
      /\ saOf' \in [HandlerApps -> {0} \cup Accounts]
      /\ created' \in {0} \cup Accounts
      /\ provision' \in [HandlerApps -> {0} \cup Accounts]
  <2> USE <1>1 DEF IdentityTypeOK
  <2>1. CASE provisionHandlerSa(a)
    BY <2>1 DEF provisionHandlerSa
  <2>2. CASE writeHandlerSaEmail(a)
    BY <2>2 DEF writeHandlerSaEmail
  <2>3. CASE ProvisioningFails(a)
    BY <2>3 DEF ProvisioningFails
  <2>4. CASE DeleteRow(a)
    BY <2>4 DEF DeleteRow
  <2>5. CASE \E s \in {"active", "idle"} : SetStanding(a, s)
    BY <2>5 DEF SetStanding
  <2>6. QED
    BY <2>1, <2>2, <2>3, <2>4, <2>5 DEF AppStep
<1>6. QED
  BY <1>1, <1>2, <1>3, <1>4, <1>5, IdentityKept

LEMMA CallerStepKeeps ==
    ASSUME IdentityInv, Remember, NEW c \in ServiceCalls, CallerStep(c)
    PROVE  IdentityInv'
<1> USE IdentityBounds
<1>1. IdentityTypeOK /\ BoundPast /\ EntriesAge /\ CallsKnow
  BY DEF IdentityInv
<1>2. /\ saCache \in [Replicas -> [Accounts -> EntryTypes]]
      /\ call \in [ServiceCalls -> CallTypes(MaxInstant)]
      /\ instant \in 0 .. MaxInstant
  BY <1>1 DEF IdentityTypeOK, EntryTypes, CallTypes, CallPlaces
<1>3. UNCHANGED <<instant, standing, saOf, created, provision, changes>>
  BY DEF CallerStep, callPlatformService, RejectToken, Hit, Miss, ReadBinding, Resolve, Forbid
<1>4. /\ bound' \in [HandlerApps -> [Accounts -> -1 .. MaxInstant]]
      /\ \A a \in HandlerApps : \A n \in Accounts : bound[a][n] <= bound'[a][n]
      /\ \A a \in HandlerApps : \A n \in Accounts : Bound(a, n)' => bound'[a][n] = instant'
  BY <1>1, <1>2, <1>3, BoundGrows
\* What is left of a step: the request's new state, and the caches.
<1>5. ASSUME NEW x \in CallTypes(MaxInstant), call' = [call EXCEPT ![c] = x],
             saCache' \in [Replicas -> [Accounts -> EntryTypes]],
             \A p \in Replicas : \A n \in Accounts :
                 saCache'[p][n] = saCache[p][n] \/ EntryAge(p, n)',
             CallKnows(c)'
      PROVE  IdentityInv'
  <2>1. /\ call' \in [ServiceCalls -> CallTypes(MaxInstant)]
        /\ \A d \in ServiceCalls : call'[d] = call[d] \/ CallKnows(d)'
    BY <1>2, <1>5
  <2>2. /\ instant' \in instant .. MaxInstant
        /\ standing' \in [HandlerApps -> {"active", "idle", "gone"}]
        /\ saOf' \in [HandlerApps -> {0} \cup Accounts] /\ created' \in {0} \cup Accounts
        /\ provision' \in [HandlerApps -> {0} \cup Accounts] /\ changes' \in 0 .. MaxChanges
    BY <1>1, <1>2, <1>3 DEF IdentityTypeOK
  <2>3. QED
    BY <1>5, <2>1, <2>2, IdentityKept
<1>6. /\ call[c] \in CallTypes(MaxInstant) /\ CallKnows(c)
      /\ call[c].replica \in Replicas /\ call[c].now \in Nat
      /\ call[c].row \in HandlerApps \cup {NoCaller}
  BY <1>1, <1>2 DEF CallsKnow, CallTypes
<1>7. ASSUME UNCHANGED saCache
      PROVE  /\ saCache' \in [Replicas -> [Accounts -> EntryTypes]]
             /\ \A p \in Replicas : \A n \in Accounts : saCache'[p][n] = saCache[p][n]
  BY <1>2, <1>7
<1>8. ASSUME NEW p \in Replicas, call' = [call EXCEPT ![c] = NoCall(p)], UNCHANGED saCache
      PROVE  IdentityInv'
  <2>1. NoCall(p) \in CallTypes(MaxInstant)
    BY NoCallType
  <2>2. CallKnows(c)'
    BY <1>2, <1>3, <1>8 DEF CallKnows, NoCall
  <2>3. QED
    BY <1>5, <1>7, <1>8, <2>1, <2>2
<1>9. CASE callPlatformService(c)
  <2>1. PICK n \in 1 .. created, p \in Replicas :
          call' = [call EXCEPT ![c] = [NoCall(p) EXCEPT !.at = "verify", !.sa = n]]
    BY <1>9 DEF callPlatformService
  <2> DEFINE x == [NoCall(p) EXCEPT !.at = "verify", !.sa = n]
  <2>2. n \in Accounts
    BY <1>1, <2>1 DEF IdentityTypeOK, Accounts
  <2>3. NoCall(p) \in CallTypes(MaxInstant) /\ NoCall(p).now = 0 /\ NoCall(p).row = NoCaller
    BY NoCallType DEF NoCall
  <2>4. /\ x \in CallTypes(MaxInstant) /\ x.at = "verify" /\ x.sa = n /\ x.now = 0
        /\ x.row = NoCaller
    BY <2>2, <2>3 DEF CallTypes, CallPlaces
  <2>5. call'[c] = x /\ UNCHANGED saCache
    BY <1>2, <1>9, <2>1 DEF callPlatformService
  <2> HIDE DEF x
  <2>6. CallKnows(c)'
    BY <1>2, <1>3, <2>2, <2>4, <2>5 DEF CallKnows
  <2>7. QED
    BY <1>5, <1>7, <2>1, <2>4, <2>5, <2>6 DEF x
<1>10. CASE RejectToken(c)
  BY <1>6, <1>8, <1>10 DEF RejectToken
\* A fresh entry expires after now, and at most the TTL after bound.
<1>11. CASE Hit(c)
  <2> DEFINE e == Entry(c)
             x == [call[c] EXCEPT !.at = "served", !.now = instant, !.app = e.app]
  <2>1. call[c].at = "verify" /\ Fresh(e) /\ UNCHANGED saCache
    BY <1>11 DEF Hit
  <2>2. call' = [call EXCEPT ![c] = x]
    BY <1>2, <1>11 DEF Hit
  <2>3. call[c].sa \in Accounts /\ call[c].row = NoCaller
    BY <1>6, <2>1 DEF CallKnows
  <2>4. e = saCache[call[c].replica][call[c].sa] /\ e \in EntryTypes
    BY <1>2, <1>6, <2>3 DEF Entry
  <2>5. e.app \in HandlerApps /\ e.expiresAt \in Nat /\ instant < e.expiresAt
    BY <1>2, <2>1, <2>4 DEF Fresh, EntryTypes
  <2>6. e.expiresAt <= bound[e.app][call[c].sa] + CacheTTL
    BY <1>1, <1>6, <2>3, <2>4, <2>5 DEF EntriesAge, EntryAge
  <2>7. /\ bound[e.app][call[c].sa] <= bound'[e.app][call[c].sa]
        /\ bound[e.app][call[c].sa] \in Int /\ bound'[e.app][call[c].sa] \in Int
    BY <1>1, <1>4, <2>3, <2>5 DEF IdentityTypeOK
  <2>8. instant < bound'[e.app][call[c].sa] + CacheTTL
    BY <1>2, <2>5, <2>6, <2>7
  <2>9. /\ x \in CallTypes(MaxInstant) /\ x.at = "served" /\ x.now = instant
        /\ x.app = e.app /\ x.sa = call[c].sa /\ x.row = NoCaller
    BY <1>2, <1>6, <2>3, <2>5 DEF CallTypes, CallPlaces
  <2>10. call'[c] = x
    BY <1>2, <2>2
  <2> HIDE DEF x, e
  <2>11. CallKnows(c)'
    BY <1>2, <1>3, <2>3, <2>5, <2>8, <2>9, <2>10 DEF CallKnows
  <2>12. QED
    BY <1>5, <1>7, <2>1, <2>2, <2>9, <2>11
<1>12. CASE Miss(c)
  <2> DEFINE x == [call[c] EXCEPT !.at = "query", !.now = instant]
  <2>1. call[c].at = "verify" /\ call' = [call EXCEPT ![c] = x]
    BY <1>2, <1>12 DEF Miss
  <2>2. call[c].sa \in Accounts /\ call[c].row = NoCaller
    BY <1>6, <2>1 DEF CallKnows
  <2>3. /\ x \in CallTypes(MaxInstant) /\ x.at = "query" /\ x.now = instant
        /\ x.sa = call[c].sa /\ x.row = NoCaller /\ call'[c] = x
    BY <1>2, <1>6, <2>1, <2>2 DEF CallTypes, CallPlaces
  <2>4. NoEntry \in EntryTypes /\ NoEntry.app = NoCaller
    BY DEF NoEntry, EntryTypes
  <2>5. saCache' = [saCache EXCEPT ![call[c].replica][call[c].sa] = NoEntry]
    BY <1>12 DEF Miss
  <2>6. /\ saCache' \in [Replicas -> [Accounts -> EntryTypes]]
        /\ \A p \in Replicas : \A n \in Accounts :
              saCache'[p][n] = saCache[p][n] \/ saCache'[p][n] = NoEntry
    BY <1>2, <1>6, <2>2, <2>4, <2>5
  <2>7. \A p \in Replicas : \A n \in Accounts :
            saCache'[p][n] = saCache[p][n] \/ EntryAge(p, n)'
    BY <2>4, <2>6 DEF EntryAge
  <2> HIDE DEF x
  <2>8. CallKnows(c)'
    BY <1>2, <1>3, <2>2, <2>3 DEF CallKnows
  <2>9. QED
    BY <1>5, <2>1, <2>3, <2>6, <2>7, <2>8
\* The account is the app's at this instant, which is not before now.
<1>13. CASE ReadBinding(c)
  <2>1. PICK a \in HandlerApps \cup {NoCaller} :
          /\ a # NoCaller => Bound(a, call[c].sa)
          /\ call' = [call EXCEPT ![c].at = "answer", ![c].row = a]
    BY <1>13 DEF ReadBinding
  <2> DEFINE x == [call[c] EXCEPT !.at = "answer", !.row = a]
  <2>2. call' = [call EXCEPT ![c] = x] /\ UNCHANGED saCache /\ call[c].at = "query"
    BY <1>2, <1>13, <2>1 DEF ReadBinding
  <2>3. call[c].sa \in Accounts
    BY <1>6, <2>2 DEF CallKnows
  <2>4. /\ x \in CallTypes(MaxInstant) /\ x.at = "answer" /\ x.now = call[c].now
        /\ x.sa = call[c].sa /\ x.row = a /\ call'[c] = x
    BY <1>2, <1>6, <2>1, <2>2 DEF CallTypes, CallPlaces
  <2>5. a # NoCaller => bound'[a][call[c].sa] = instant'
    <3>1. PICK n \in Accounts : n = call[c].sa
      BY <2>3
    <3>2. ASSUME a # NoCaller PROVE a \in HandlerApps /\ Bound(a, n)'
      BY <1>3, <2>1, <3>1, <3>2 DEF Bound
    <3>3. QED
      BY <1>4, <3>1, <3>2
  <2>6. call[c].now <= instant
    BY <1>6 DEF CallKnows
  <2> HIDE DEF x
  <2>7. CallKnows(c)'
    BY <1>2, <1>3, <1>6, <2>3, <2>4, <2>5, <2>6 DEF CallKnows
  <2>8. QED
    BY <1>5, <1>7, <2>2, <2>4, <2>7
<1>14. CASE Resolve(c)
  <2> DEFINE a == call[c].row
             n == call[c].sa
             x == [call[c] EXCEPT !.at = "served", !.row = NoCaller, !.app = a]
             e == [app |-> a, expiresAt |-> ExpiresAt(c)]
  <2>1. call[c].at = "answer" /\ a \in HandlerApps /\ n \in Accounts /\ call[c].now <= instant
    BY <1>6, <1>14 DEF Resolve, CallKnows
  <2>2. call[c].now <= bound[a][n] /\ bound[a][n] <= bound'[a][n]
    BY <1>4, <1>6, <2>1 DEF CallKnows
  <2>3. bound[a][n] \in Int /\ bound'[a][n] \in Int
    BY <1>1, <1>4, <2>1 DEF IdentityTypeOK
  <2>4. call' = [call EXCEPT ![c] = x]
    BY <1>2, <1>14 DEF Resolve
  <2>5. /\ x \in CallTypes(MaxInstant) /\ x.at = "served" /\ x.now = call[c].now
        /\ x.sa = n /\ x.row = NoCaller /\ x.app = a /\ call'[c] = x
    BY <1>2, <1>6, <2>1, <2>4 DEF CallTypes, CallPlaces
  <2>6. e \in EntryTypes /\ e.app = a /\ e.expiresAt = call[c].now + CacheTTL
    BY <1>2, <1>6, <2>1 DEF EntryTypes, ExpiresAt
  <2>7. saCache' = [saCache EXCEPT ![call[c].replica][n] = e]
    BY <1>14 DEF Resolve
  <2> HIDE DEF x, e
  <2> HIDE DEF n
  <2>8. /\ saCache' \in [Replicas -> [Accounts -> EntryTypes]]
        /\ \A p \in Replicas : \A m \in Accounts :
              saCache'[p][m] = saCache[p][m] \/ (saCache'[p][m] = e /\ m = n)
    BY <1>2, <1>6, <2>1, <2>6, <2>7
  <2>9. e.expiresAt <= bound'[a][n] + CacheTTL
    BY <1>6, <2>2, <2>3, <2>6
  <2>10. \A p \in Replicas : \A m \in Accounts :
             saCache'[p][m] = saCache[p][m] \/ EntryAge(p, m)'
    BY <2>6, <2>8, <2>9 DEF EntryAge
  <2>11. CallKnows(c)'
    BY <1>2, <1>3, <1>6, <2>1, <2>2, <2>3, <2>5 DEF CallKnows
  <2>12. QED
    BY <1>5, <2>4, <2>5, <2>8, <2>10, <2>11
<1>15. CASE Forbid(c)
  BY <1>6, <1>8, <1>15 DEF Forbid
<1>16. QED
  BY <1>9, <1>10, <1>11, <1>12, <1>13, <1>14, <1>15 DEF CallerStep

LEMMA RestartKeeps ==
    ASSUME IdentityInv, Remember, NEW p \in Replicas, Restart(p)
    PROVE  IdentityInv'
<1> USE IdentityBounds
<1>1. IdentityTypeOK /\ CallsKnow
  BY DEF IdentityInv
<1>2. /\ saCache \in [Replicas -> [Accounts -> EntryTypes]]
      /\ call \in [ServiceCalls -> CallTypes(MaxInstant)]
      /\ instant \in 0 .. MaxInstant
  BY <1>1 DEF IdentityTypeOK, EntryTypes, CallTypes, CallPlaces
<1>3. UNCHANGED <<instant, standing, saOf, created, provision, changes>>
  BY DEF Restart
<1>4. NoEntry \in EntryTypes /\ NoEntry.app = NoCaller /\ NoCall(p) \in CallTypes(MaxInstant)
  BY NoCallType DEF NoEntry, EntryTypes
<1>5. /\ saCache' \in [Replicas -> [Accounts -> EntryTypes]]
      /\ \A q \in Replicas : \A n \in Accounts :
            saCache'[q][n] = saCache[q][n] \/ saCache'[q][n] = NoEntry
  BY <1>2, <1>4 DEF Restart
<1>6. \A q \in Replicas : \A n \in Accounts : saCache'[q][n] = saCache[q][n] \/ EntryAge(q, n)'
  BY <1>4, <1>5 DEF EntryAge
<1>7. /\ call' \in [ServiceCalls -> CallTypes(MaxInstant)]
      /\ \A c \in ServiceCalls : call'[c] = call[c] \/ call'[c] = NoCall(p)
  BY <1>2, <1>4 DEF Restart
<1>8. ASSUME NEW c \in ServiceCalls, call'[c] = NoCall(p) PROVE CallKnows(c)'
  BY <1>2, <1>3, <1>8 DEF CallKnows, NoCall
<1>9. /\ instant' \in instant .. MaxInstant
      /\ standing' \in [HandlerApps -> {"active", "idle", "gone"}]
      /\ saOf' \in [HandlerApps -> {0} \cup Accounts] /\ created' \in {0} \cup Accounts
      /\ provision' \in [HandlerApps -> {0} \cup Accounts] /\ changes' \in 0 .. MaxChanges
  BY <1>1, <1>2, <1>3 DEF IdentityTypeOK
<1>10. QED
  BY <1>5, <1>6, <1>7, <1>8, <1>9, IdentityKept

LEMMA TickKeeps ==
    ASSUME IdentityInv, Remember, Tick
    PROVE  IdentityInv'
<1>1. IdentityTypeOK
  BY DEF IdentityInv
<1>2. instant' \in instant .. MaxInstant
  BY <1>1, IdentityBounds DEF Tick, IdentityTypeOK
<1>3. UNCHANGED <<standing, saOf, created, provision, saCache, call, changes>>
  BY DEF Tick
<1>4. /\ saCache' \in [Replicas -> [Accounts -> EntryTypes]]
      /\ call' \in [ServiceCalls -> CallTypes(MaxInstant)]
  BY <1>1, <1>3 DEF IdentityTypeOK, EntryTypes, CallTypes, CallPlaces
<1>5. /\ standing' \in [HandlerApps -> {"active", "idle", "gone"}]
      /\ saOf' \in [HandlerApps -> {0} \cup Accounts] /\ created' \in {0} \cup Accounts
      /\ provision' \in [HandlerApps -> {0} \cup Accounts] /\ changes' \in 0 .. MaxChanges
  BY <1>1, <1>3 DEF IdentityTypeOK
<1>6. QED
  BY <1>2, <1>3, <1>4, <1>5, IdentityKept

LEMMA IdentityInvariant == IdentitySpec => []IdentityInv
<1> USE IdentityBounds
<1>1. ASSUME IdentityInit PROVE IdentityInv
  <2> USE <1>1 DEF IdentityInit
  <2>1. PICK p \in Replicas : call = [c \in ServiceCalls |-> NoCall(p)]
    OBVIOUS
  <2>2. \A c \in ServiceCalls : call[c] = NoCall(p)
    BY <2>1
  <2>3. NoCall(p) \in CallTypes(MaxInstant)
    BY NoCallType
  <2>4. call \in [ServiceCalls -> CallTypes(MaxInstant)]
    BY <2>1, <2>3
  <2>5. \A q \in Replicas : \A n \in Accounts : saCache[q][n] = NoEntry
    OBVIOUS
  <2>6. NoEntry \in EntryTypes /\ NoEntry.app = NoCaller
    BY DEF NoEntry, EntryTypes
  <2>7. saCache \in [Replicas -> [Accounts -> EntryTypes]]
    BY <2>6
  <2>8. ASSUME NEW a \in HandlerApps, NEW n \in Accounts
        PROVE  bound[a][n] \in {-1, 0}
    BY <2>8
  <2>9. bound \in [HandlerApps -> [Accounts -> -1 .. MaxInstant]]
    BY <2>8
  <2>10. IdentityTypeOK
    BY <2>4, <2>7, <2>9 DEF IdentityTypeOK, EntryTypes, CallTypes, CallPlaces
  <2>11. BoundPast /\ EntriesAge
    <3>1. BoundPast
      BY <2>8 DEF BoundPast
    <3>2. EntriesAge
      BY <2>5, <2>6 DEF EntriesAge, EntryAge
    <3>3. QED
      BY <3>1, <3>2
  <2>12. CallsKnow
    BY <2>2 DEF CallsKnow, CallKnows, NoCall
  <2>13. QED
    BY <2>10, <2>11, <2>12 DEF IdentityInv
<1>2. IdentityInv /\ [IdentityNext]_identityVars => IdentityInv'
  <2>1. ASSUME IdentityInv, IdentityNext PROVE IdentityInv'
    BY <2>1, AppStepKeeps, CallerStepKeeps, RestartKeeps, TickKeeps DEF IdentityNext
  <2>2. ASSUME IdentityInv, UNCHANGED identityVars PROVE IdentityInv'
    BY <2>2 DEF identityVars, IdentityInv, IdentityTypeOK, BoundPast, EntriesAge, EntryAge,
                CallsKnow, CallKnows
  <2>3. QED
    BY <2>1, <2>2
<1>3. QED
  BY <1>1, <1>2, PTL DEF IdentitySpec

\* The accounts, the caches and the requests at /services keep their types
\* (sa-provisioner.ts, sa-to-app.ts).
THEOREM IdentityTypeCorrect == IdentitySpec => []IdentityTypeOK
<1>1. IdentityInv => IdentityTypeOK
  BY DEF IdentityInv
<1>2. QED
  BY <1>1, IdentityInvariant, PTL

\* A request is served as an app only if its account was that app's less than
\* the TTL before the lookup (resolveAppFromSaEmail).
THEOREM ServedWithinTTL == IdentitySpec => []ServedAsBound
<1>1. IdentityInv => ServedAsBound
  BY DEF IdentityInv, CallsKnow, CallKnows, ServedAsBound
<1>2. QED
  BY <1>1, IdentityInvariant, PTL

-----------------------------------------------------------------------------
(* HandlerEdge                                                             *)

EdgeStatuses == {0, 200, 401, 404, 500, 502, 503, 504}

RequestTypes ==
    [at : RequestPlaces, shop : ShopDomains \cup {NoApp}, app : EdgeApps \cup {NoApp},
     timer : {"off", "on"}, status : EdgeStatuses]

\* Behind its verification a request has an app.
Behind == {"lookup", "mint", "wait", "fetch", "body"}
HasApp == \A r \in EdgeRequests : request[r].at \in Behind => request[r].app \in EdgeApps

EdgeInv == EdgeTypeOK /\ HasApp /\ EveryWaitEnds

LEMMA AnsweredType ==
    ASSUME NEW status \in EdgeStatuses
    PROVE  /\ Answered(status) \in RequestTypes /\ NoRequest \in RequestTypes
           /\ Answered(status).at = "answered"
<1>1. NoRequest \in RequestTypes
  BY DEF NoRequest, RequestTypes, RequestPlaces, EdgeStatuses
<1>2. QED
  BY <1>1 DEF Answered, RequestTypes, RequestPlaces

\* A request moves: the others go on waiting for what they waited for.
LEMMA RequestMoves ==
    ASSUME EdgeInv, NEW r \in EdgeRequests, NEW x \in RequestTypes, Proceed(r, x),
           UNCHANGED <<development, Apps>>,
           idClient' \in [EdgeApps -> {"none", "pending", "ready"}],
           \A a \in EdgeApps : idClient[a] # "none" => idClient'[a] # "none",
           x.at \in Behind => x.app \in EdgeApps,
           x.at = "wait" => idClient'[x.app] # "none",
           x.at = "fetch" => x.timer = "on"
    PROVE  EdgeInv'
<1>1. request \in [EdgeRequests -> RequestTypes]
  BY DEF EdgeInv, EdgeTypeOK, RequestTypes, EdgeStatuses
<1>2. request' = [request EXCEPT ![r] = x]
  BY DEF Proceed
<1>3. request' \in [EdgeRequests -> RequestTypes]
  BY <1>1, <1>2
<1>4. EdgeTypeOK'
  BY <1>3 DEF EdgeInv, EdgeTypeOK, RequestTypes, EdgeStatuses, Apps
<1>5. \A q \in EdgeRequests : request'[q] = IF q = r THEN x ELSE request[q]
  BY <1>1, <1>2
<1>6. HasApp'
  BY <1>5 DEF EdgeInv, HasApp
<1>7. EveryWaitEnds'
  BY <1>5 DEF EdgeInv, EveryWaitEnds, HasApp, Behind
<1>8. QED
  BY <1>4, <1>6, <1>7 DEF EdgeInv

LEMMA EdgeAppStepKeeps ==
    ASSUME EdgeInv, NEW a \in EdgeApps, EdgeAppStep(a)
    PROVE  EdgeInv'
<1> USE DEF EdgeInv, EdgeTypeOK, HasApp, EveryWaitEnds
<1>1. CASE \/ SwitchStatus(a) \/ StartService(a) \/ recordDeploy(a) \/ StopService(a)
           \/ deactivateInfrastructure(a)
  BY <1>1 DEF SwitchStatus, StartService, recordDeploy, StopService, deactivateInfrastructure
<1>2. CASE ClientResolves(a)
  BY <1>2 DEF ClientResolves, Apps, Behind
\* Who waited for the promise that failed is answered; the others wait for another.
<1>3. CASE ClientRejects(a)
  <2>1. request \in [EdgeRequests -> RequestTypes]
    BY DEF RequestTypes, EdgeStatuses
  <2>2. /\ Answered(502) \in RequestTypes /\ Answered(502).at = "answered"
    BY AnsweredType DEF EdgeStatuses
  <2>3. \A r \in EdgeRequests :
          request'[r] = IF request[r].at = "wait" /\ request[r].app = a
                          THEN Answered(502) ELSE request[r]
    BY <1>3 DEF ClientRejects
  <2>4. request' \in [EdgeRequests -> RequestTypes]
    BY <1>3, <2>1, <2>2 DEF ClientRejects
  <2>5. EdgeTypeOK'
    BY <1>3, <2>4 DEF ClientRejects, Apps, RequestTypes, EdgeStatuses
  <2>6. HasApp'
    BY <2>2, <2>3 DEF Behind
  <2>7. \A b \in EdgeApps : b # a => idClient'[b] = idClient[b]
    BY <1>3 DEF ClientRejects
  <2>8. EveryWaitEnds'
    BY <2>2, <2>3, <2>7 DEF Behind
  <2>9. QED
    BY <2>5, <2>6, <2>8
<1>4. QED
  BY <1>1, <1>2, <1>3 DEF EdgeAppStep

LEMMA RequestStepKeeps ==
    ASSUME EdgeInv, NEW r \in EdgeRequests, RequestStep(r)
    PROVE  EdgeInv'
<1>1. /\ request[r] \in RequestTypes
      /\ idClient \in [EdgeApps -> {"none", "pending", "ready"}]
      /\ request[r].at \in Behind => request[r].app \in EdgeApps
  BY DEF EdgeInv, EdgeTypeOK, HasApp, RequestTypes, EdgeStatuses
<1>2. ASSUME NEW status \in EdgeStatuses, Reply(r, status),
             UNCHANGED <<development, Apps, idClient>>
      PROVE  EdgeInv'
  <2>1. Answered(status) \in RequestTypes /\ Answered(status).at = "answered"
    BY AnsweredType
  <2>2. QED
    BY <1>1, <1>2, <2>1, RequestMoves DEF Reply, Behind
<1>3. CASE Arrive(r)
  <2>1. CASE Reply(r, 401)
    BY <1>2, <1>3, <2>1 DEF Arrive, EdgeStatuses
  <2>2. ASSUME NEW shop \in ShopDomains, NEW a \in EdgeApps,
               Proceed(r, [NoRequest EXCEPT !.at = "lookup", !.shop = shop, !.app = a])
        PROVE  EdgeInv'
    <3> DEFINE x == [NoRequest EXCEPT !.at = "lookup", !.shop = shop, !.app = a]
    <3>1. x \in RequestTypes /\ x.at = "lookup" /\ x.app = a
      BY DEF NoRequest, RequestTypes, RequestPlaces, EdgeStatuses
    <3>2. Proceed(r, x)
      BY <2>2
    <3> HIDE DEF x
    <3>3. QED
      BY <1>1, <1>3, <3>1, <3>2, RequestMoves DEF Arrive
  <2>3. QED
    BY <1>3, <2>1, <2>2 DEF Arrive
<1>4. CASE Lookup(r)
  <2>1. CASE Reply(r, 503) \/ Reply(r, 500)
    BY <1>2, <1>4, <2>1 DEF Lookup, EdgeStatuses
  <2>2. CASE Proceed(r, [request[r] EXCEPT !.at = "mint"])
    <3> DEFINE x == [request[r] EXCEPT !.at = "mint"]
    <3>1. x \in RequestTypes /\ x.at = "mint" /\ x.app = request[r].app
      BY <1>1 DEF RequestTypes, RequestPlaces
    <3>2. Proceed(r, x) /\ request[r].at \in Behind
      BY <1>4, <2>2 DEF Lookup, Behind
    <3> HIDE DEF x
    <3>3. QED
      BY <1>1, <1>4, <3>1, <3>2, RequestMoves DEF Lookup
  <2>3. QED
    BY <1>4, <2>1, <2>2 DEF Lookup
\* Whoever comes finds a promise, or makes one.
<1>5. CASE getClient(r)
  <2> DEFINE x == [request[r] EXCEPT !.at = "wait"]
             was == idClient[request[r].app]
             new == IF was = "none" THEN "pending" ELSE was
  <2>1. x \in RequestTypes /\ x.at = "wait" /\ x.app = request[r].app
    BY <1>1 DEF RequestTypes, RequestPlaces
  <2>2. request[r].at = "mint" /\ request[r].app \in EdgeApps
    BY <1>1, <1>5 DEF getClient, Behind
  <2>3. new \in {"none", "pending", "ready"} /\ new # "none" /\ (was # "none" => new = was)
    BY <1>1, <2>2
  <2>4. idClient' = [idClient EXCEPT ![request[r].app] = new] /\ Proceed(r, x)
    BY <1>1, <1>5, <2>2 DEF getClient
  <2> HIDE DEF x, new
  <2>5. /\ idClient' \in [EdgeApps -> {"none", "pending", "ready"}]
        /\ idClient'[request[r].app] # "none"
        /\ \A a \in EdgeApps : idClient[a] # "none" => idClient'[a] # "none"
    BY <1>1, <2>2, <2>3, <2>4
  <2>6. UNCHANGED <<development, Apps>>
    BY <1>5 DEF getClient
  <2>7. QED
    BY <2>1, <2>2, <2>4, <2>5, <2>6, RequestMoves
\* The timer runs from the moment the request is sent.
<1>6. CASE forwardToHandler(r)
  <2> DEFINE x == [request[r] EXCEPT !.at = "fetch", !.timer = "on"]
  <2>1. x \in RequestTypes /\ x.at = "fetch" /\ x.app = request[r].app /\ x.timer = "on"
    BY <1>1 DEF RequestTypes, RequestPlaces
  <2>2. Proceed(r, x) /\ request[r].at \in Behind
    BY <1>6 DEF forwardToHandler, HasHeader, Behind
  <2> HIDE DEF x
  <2>3. QED
    BY <1>1, <1>6, <2>1, <2>2, RequestMoves DEF forwardToHandler
<1>7. CASE HandlerAnswers(r)
  <2> DEFINE s == IF request[r].app \notin serving THEN 404
                  ELSE IF verifyPlatform(request[r].app) THEN 200 ELSE 401
             x == [request[r] EXCEPT !.at = "body", !.timer = "off", !.status = s]
  <2>1. s \in EdgeStatuses
    BY DEF EdgeStatuses
  <2>2. Proceed(r, x) /\ request[r].at \in Behind
    BY <1>7 DEF HandlerAnswers, Behind
  <2> HIDE DEF s
  <2>3. x \in RequestTypes /\ x.at = "body" /\ x.app = request[r].app
    BY <1>1, <2>1 DEF RequestTypes, RequestPlaces
  <2> HIDE DEF x
  <2>4. QED
    BY <1>1, <1>7, <2>2, <2>3, RequestMoves DEF HandlerAnswers
<1>8. CASE MintFails(r) \/ FetchFails(r) \/ TimesOut(r)
  BY <1>2, <1>8 DEF MintFails, FetchFails, TimesOut, EdgeStatuses
<1>9. CASE BodyArrives(r)
  <2>1. request[r].status \in EdgeStatuses
    BY <1>1 DEF RequestTypes
  <2>2. QED
    BY <1>2, <1>9, <2>1 DEF BodyArrives, EdgeStatuses
<1>10. QED
  BY <1>3, <1>4, <1>5, <1>6, <1>7, <1>8, <1>9 DEF RequestStep

LEMMA EdgeInvariant == EdgeSpec => []EdgeInv
<1>1. EdgeInit => EdgeInv
  <2> SUFFICES ASSUME EdgeInit PROVE EdgeInv
    OBVIOUS
  <2>1. request \in [EdgeRequests -> RequestTypes]
    BY AnsweredType DEF EdgeInit, EdgeStatuses
  <2>2. EdgeTypeOK
    BY <2>1 DEF EdgeInit, EdgeTypeOK, RequestTypes, EdgeStatuses
  <2>3. QED
    BY <2>2 DEF EdgeInit, EdgeInv, HasApp, EveryWaitEnds, NoRequest, Behind
<1>2. EdgeInv /\ [EdgeNext]_edgeVars => EdgeInv'
  <2>1. ASSUME EdgeInv, UNCHANGED edgeVars PROVE EdgeInv'
    BY <2>1 DEF edgeVars, EdgeInv, EdgeTypeOK, HasApp, EveryWaitEnds
  <2>2. QED
    BY <2>1, EdgeAppStepKeeps, RequestStepKeeps DEF EdgeNext
<1>3. QED
  BY <1>1, <1>2, PTL DEF EdgeSpec

\* The apps, the ID-token clients and the requests keep their types.
THEOREM EdgeTypeCorrect == EdgeSpec => []EdgeTypeOK
<1>1. EdgeInv => EdgeTypeOK
  BY DEF EdgeInv
<1>2. QED
  BY <1>1, EdgeInvariant, PTL

\* However the mints that requests share fail and whatever becomes of the app after
\* the lookup, a request that waits for an ID token waits for a client that exists,
\* and one that is sent has its timer running (getClient, forwardToHandler).
THEOREM RequestsAreNotStranded == EdgeSpec => []EveryWaitEnds
<1>1. EdgeInv => EveryWaitEnds
  BY DEF EdgeInv
<1>2. QED
  BY <1>1, EdgeInvariant, PTL

-----------------------------------------------------------------------------
(* AdminShell                                                              *)

\* Only the last load is not cancelled, and it has the metadata of now; there
\* is at most one more run of the effect to come.
LastLoadIsLive ==
    /\ \A i \in Loads : i > latest => loads[i].at = "none"
    /\ \A i \in Loads : i < latest => loads[i].cancelled
    /\ latest # 0 => ~loads[latest].cancelled /\ loads[latest].meta = shopMeta
    /\ shellView = "app" <=> latest # 0
    /\ "apps" \in asking => latest = 0
    /\ "shop" \in asking => latest < 3

\* The refs, the container and the URL follow the last load.
RefsFollow ==
    /\ moduleRef \in {0, latest}
    /\ moduleRef # 0 <=> latest # 0 /\ loads[latest].at = "mounted"
    /\ frame = "mounted" => moduleRef # 0
    /\ \A i \in container : i = moduleRef \/ loads[i].at = "threw"
    /\ latest # 0 /\ loads[latest].at \in {"import", "mounted"} => latest \in blobUrls

ShellInv == ShellTypeOK /\ LastLoadIsLive /\ RefsFollow

LoadTypes == [at : {"none", "fetch", "import", "ended", "mounted", "threw"},
              cancelled : BOOLEAN, meta : {"default", "own"}]

LEMMA LoadStepKeeps ==
    ASSUME ShellInv, NEW i \in Loads, LoadStep(i)
    PROVE  ShellInv'
<1>1. /\ ShellTypeOK /\ loads \in [Loads -> LoadTypes] /\ latest \in 0 .. 3
  BY DEF ShellInv, ShellTypeOK, LoadTypes, Loads
<1>2. UNCHANGED <<strict, shellView, activeAppId, shopMeta, asking, latest>>
  BY DEF LoadStep, FetchPanelFails, FetchPanel, ImportFails, ImportedLate, DropUrl, Mount,
         MountThrows, Shell
<1>3. PICK place \in {"import", "ended", "mounted", "threw"} :
        loads' = [loads EXCEPT ![i].at = place]
  BY DEF LoadStep, FetchPanelFails, FetchPanel, ImportFails, ImportedLate, DropUrl, Mount,
         MountThrows
<1>4. /\ loads' \in [Loads -> LoadTypes]
      /\ \A j \in Loads : /\ loads'[j].cancelled = loads[j].cancelled
                          /\ loads'[j].meta = loads[j].meta
                          /\ j # i => loads'[j].at = loads[j].at
      /\ loads'[i].at = place
  BY <1>1, <1>3 DEF LoadTypes
<1>5. ShellTypeOK'
  BY <1>1, <1>2, <1>4
  DEF ShellTypeOK, LoadTypes, LoadStep, FetchPanelFails, FetchPanel, ImportFails,
      ImportedLate, DropUrl, Fails, Mount, MountThrows
<1>6. loads[i].at \in {"fetch", "import"}
  BY DEF LoadStep, FetchPanelFails, FetchPanel, ImportFails, ImportedLate, DropUrl, Mount,
         MountThrows
<1>7. LastLoadIsLive /\ RefsFollow
  BY DEF ShellInv
<1>8. i <= latest /\ latest # 0 /\ latest \in Loads
  BY <1>1, <1>6, <1>7 DEF LastLoadIsLive, Loads
<1>9. LastLoadIsLive'
  BY <1>1, <1>2, <1>4, <1>7, <1>8 DEF LastLoadIsLive, Loads
<1>10. i = latest \/ Cancelled(i)
  BY <1>7, <1>8 DEF LastLoadIsLive, Cancelled, Loads
<1>11. ~loads[latest].cancelled
  BY <1>7, <1>8 DEF LastLoadIsLive
<1>12. RefsFollow'
  <2> USE <1>1, <1>2, <1>4, <1>6, <1>7, <1>8 DEF RefsFollow, Cancelled
  \* A load that was cancelled touches no ref that matters.
  <2>1. CASE FetchPanelFails(i)
    BY <1>10, <2>1 DEF FetchPanelFails, Fails
  <2>2. CASE FetchPanel(i)
    <3>1. CASE Cancelled(i)
      <4>1. /\ i # latest /\ loads[i].at = "fetch"
            /\ UNCHANGED <<frame, moduleRef, container, blobUrls>>
        BY <1>11, <2>2, <3>1 DEF FetchPanel
      <4>2. \A j \in container : j # i
        BY <4>1 DEF Loads
      <4>3. QED
        BY <4>1, <4>2 DEF ShellTypeOK
    <3>2. CASE ~Cancelled(i)
      <4>1. /\ i = latest /\ blobUrls' = blobUrls \cup {i} /\ loads'[i].at = "import"
            /\ UNCHANGED <<frame, moduleRef, container>> /\ loads[i].at = "fetch"
        BY <1>10, <2>2, <3>2 DEF FetchPanel, LoadTypes
      <4>2. moduleRef = 0
        BY <4>1
      <4>3. \A j \in container : j # i
        BY <4>1, <4>2
      <4>4. QED
        BY <4>1, <4>2, <4>3 DEF ShellTypeOK
    <3>3. QED
      BY <3>1, <3>2
  <2>3. CASE ImportFails(i)
    BY <1>10, <1>11, <2>3 DEF ImportFails, DropUrl, Fails
  <2>4. CASE ImportedLate(i)
    BY <1>10, <1>11, <2>4 DEF ImportedLate, DropUrl
  \* The last load mounts once: moduleRef is null before.
  <2>5. CASE Mount(i)
    <3>1. /\ i = latest /\ loads[i].at = "import" /\ loads'[i].at = "mounted"
          /\ container' = container \cup {i} /\ moduleRef' = i /\ UNCHANGED blobUrls
      BY <1>10, <2>5 DEF Mount, LoadTypes
    <3>2. moduleRef = 0
      BY <3>1
    <3>3. \A j \in container : loads'[j].at = "threw" /\ j # i
      BY <3>1, <3>2 DEF ShellTypeOK, Loads
    <3>4. QED
      BY <3>1, <3>3
  <2>6. CASE MountThrows(i)
    BY <1>10, <1>11, <2>6 DEF MountThrows
  <2>7. QED
    BY <2>1, <2>2, <2>3, <2>4, <2>5, <2>6 DEF LoadStep
<1>13. QED
  BY <1>5, <1>9, <1>12 DEF ShellInv

LEMMA EffectKeeps ==
    ASSUME ShellInv, shellView' = "app", strict' \in BOOLEAN, asking' \subseteq asking,
           activeAppId' \in PanelApps \cup {NoPanel}, shopMeta' \in {"default", "own"},
           "apps" \notin asking', "shop" \notin asking' \/ FirstEffect,
           \/ FirstEffect /\ latest = 0 /\ shopMeta' = shopMeta
           \/ EffectAgain(shopMeta') /\ latest \in {1, 2}
    PROVE  ShellInv'
<1>1. /\ ShellTypeOK /\ loads \in [Loads -> LoadTypes] /\ LastLoadIsLive /\ RefsFollow
      /\ asking' \subseteq {"apps", "shop"}
  BY DEF ShellInv, ShellTypeOK, LoadTypes
<1>2. ASSUME NEW m \in {"default", "own"}
      PROVE  /\ Load(m) \in LoadTypes /\ Load(m).at = "fetch" /\ Load(m).meta = m
             /\ Load(m).cancelled = FALSE
  BY <1>2 DEF Load, NoLoad, LoadTypes
<1>3. CASE FirstEffect /\ latest = 0 /\ shopMeta' = shopMeta
  <2> DEFINE x == Load(shopMeta)
             y == [Load(shopMeta) EXCEPT !.cancelled = strict]
  <2>1. /\ x \in LoadTypes /\ x.at = "fetch" /\ x.meta = shopMeta /\ x.cancelled = FALSE
        /\ strict \in BOOLEAN
    BY <1>1, <1>2 DEF ShellTypeOK
  <2>2. y \in LoadTypes /\ y.at = "fetch" /\ y.meta = shopMeta /\ y.cancelled = strict
    BY <2>1 DEF LoadTypes
  <2>3. /\ latest' = IF strict THEN 2 ELSE 1
        /\ loads' = [loads EXCEPT ![latest'] = x, ![1] = y]
        /\ frame' = "loading"
        /\ UNCHANGED <<moduleRef, blobUrlRef, blobUrls, container>>
    BY <1>3 DEF FirstEffect
  <2> HIDE DEF x, y
  <2>4. /\ loads' \in [Loads -> LoadTypes] /\ loads'[1] = y /\ loads'[3] = loads[3]
        /\ loads'[2] = IF strict THEN x ELSE loads[2]
    BY <1>1, <2>1, <2>2, <2>3 DEF Loads
  <2>5. ShellTypeOK'
    BY <1>1, <2>1, <2>3, <2>4 DEF ShellTypeOK, LoadTypes, Loads
  <2>6. LastLoadIsLive'
    BY <1>1, <1>3, <2>1, <2>2, <2>3, <2>4 DEF LastLoadIsLive, Loads
  <2>7. moduleRef = 0 /\ container = {}
    BY <1>1, <1>3 DEF RefsFollow, LastLoadIsLive, ShellTypeOK, Loads
  <2>8. RefsFollow'
    BY <2>1, <2>2, <2>3, <2>4, <2>7 DEF RefsFollow
  <2>9. QED
    BY <2>5, <2>6, <2>8 DEF ShellInv
<1>4. CASE EffectAgain(shopMeta') /\ latest \in {1, 2}
  <2> DEFINE x == Load(shopMeta')
             y == [loads[latest] EXCEPT !.cancelled = TRUE]
  <2>1. x \in LoadTypes /\ x.at = "fetch" /\ x.meta = shopMeta' /\ x.cancelled = FALSE
    BY <1>2
  <2>2. y \in LoadTypes /\ y.at = loads[latest].at /\ y.cancelled = TRUE
    <3>1. loads[latest] \in LoadTypes
      BY <1>1, <1>4 DEF Loads
    <3>2. QED
      BY <3>1 DEF LoadTypes
  <2>3. /\ latest' = latest + 1
        /\ loads' = [loads EXCEPT ![latest] = y, ![latest + 1] = x]
        /\ container' = container \ {moduleRef} /\ moduleRef' = 0
        /\ blobUrls' = blobUrls \ {blobUrlRef} /\ blobUrlRef' = 0
        /\ frame' = "loading"
    BY <1>1, <1>4 DEF EffectAgain
  <2> HIDE DEF x, y
  <2>4. /\ loads' \in [Loads -> LoadTypes]
        /\ loads'[latest] = y /\ loads'[latest'] = x /\ latest' \in {2, 3}
        /\ \A i \in Loads \ {latest, latest'} : loads'[i] = loads[i]
    BY <1>1, <1>4, <2>1, <2>2, <2>3 DEF Loads
  <2>5. ShellTypeOK'
    BY <1>1, <2>3, <2>4 DEF ShellTypeOK, LoadTypes, Loads
  <2>6. LastLoadIsLive'
    BY <1>1, <1>4, <2>1, <2>2, <2>3, <2>4 DEF LastLoadIsLive, Loads, FirstEffect
  <2>7. \A i \in container \ {moduleRef} : loads[i].at = "threw" /\ i \in Loads
    BY <1>1 DEF RefsFollow, ShellTypeOK
  <2>8. \A i \in container' : loads'[i].at = "threw"
    BY <1>1, <1>4, <2>2, <2>3, <2>4, <2>7 DEF LastLoadIsLive, Loads
  <2>9. RefsFollow'
    BY <2>1, <2>3, <2>4, <2>8 DEF RefsFollow
  <2>10. QED
    BY <2>5, <2>6, <2>9 DEF ShellInv
<1>5. QED
  BY <1>3, <1>4

LEMMA ShellStepKeeps ==
    ASSUME ShellInv, AppsFail \/ AppsArrive \/ ShopFails \/ ShopArrives
    PROVE  ShellInv'
<1>1. ShellTypeOK /\ LastLoadIsLive /\ RefsFollow
  BY DEF ShellInv
\* No load is touched.
<1>2. ASSUME UNCHANGED <<loads, latest, frame, moduleRef, blobUrlRef, blobUrls, container>>,
             asking' \subseteq asking, shellView' = "app" <=> shellView = "app",
             shellView' \in {"missing", "loading", "error", "empty", "app"},
             latest # 0 => shopMeta' = shopMeta, shopMeta' \in {"default", "own"},
             activeAppId' \in PanelApps \cup {NoPanel}, strict' = strict
      PROVE  ShellInv'
  <2>1. ShellTypeOK'
    BY <1>1, <1>2 DEF ShellTypeOK
  <2>2. LastLoadIsLive' /\ RefsFollow'
    BY <1>1, <1>2 DEF LastLoadIsLive, RefsFollow
  <2>3. QED
    BY <2>1, <2>2 DEF ShellInv
<1>3. CASE AppsFail
  <2>1. latest = 0 /\ shellView # "app"
    BY <1>1, <1>3 DEF AppsFail, LastLoadIsLive
  <2>2. QED
    BY <1>1, <1>2, <1>3, <2>1 DEF AppsFail, Frame, ShellTypeOK
<1>4. CASE AppsArrive
  <2>1. latest = 0 /\ shellView # "app"
    BY <1>1, <1>4 DEF AppsArrive, LastLoadIsLive
  <2>2. /\ UNCHANGED <<strict, shopMeta>> /\ asking' = asking \ {"apps"}
        /\ \/ activeAppId' = NoPanel /\ shellView' = "empty" /\ UNCHANGED Frame
           \/ activeAppId' \in PanelApps /\ shellView' = "app" /\ FirstEffect
    BY <1>4 DEF AppsArrive
  <2>3. CASE activeAppId' \in PanelApps /\ shellView' = "app" /\ FirstEffect
    BY <1>1, <2>1, <2>2, <2>3, EffectKeeps DEF ShellTypeOK
  <2>4. CASE activeAppId' = NoPanel /\ shellView' = "empty" /\ UNCHANGED Frame
    BY <1>1, <1>2, <2>1, <2>2, <2>4 DEF Frame, ShellTypeOK
  <2>5. QED
    BY <2>2, <2>3, <2>4
<1>5. CASE ShopFails
  BY <1>1, <1>2, <1>5 DEF ShopFails, Frame, ShellTypeOK
<1>6. CASE ShopArrives
  <2>1. /\ "shop" \in asking /\ asking' = asking \ {"shop"} /\ shopMeta' \in {"default", "own"}
        /\ UNCHANGED <<strict, shellView, activeAppId>>
    BY <1>6 DEF ShopArrives
  <2>2. CASE shellView = "app"
    <3>1. latest \in {1, 2} /\ "apps" \notin asking
      BY <1>1, <2>1, <2>2 DEF LastLoadIsLive, ShellTypeOK, Loads
    <3>2. EffectAgain(shopMeta')
      BY <1>6, <2>2 DEF ShopArrives
    <3>3. QED
      BY <1>1, <2>1, <2>2, <3>1, <3>2, EffectKeeps DEF ShellTypeOK
  <2>3. CASE shellView # "app"
    <3>1. latest = 0 /\ UNCHANGED Frame
      BY <1>1, <1>6, <2>3 DEF LastLoadIsLive, ShopArrives
    <3>2. QED
      BY <1>1, <1>2, <2>1, <2>3, <3>1 DEF Frame, ShellTypeOK
  <2>4. QED
    BY <2>2, <2>3
<1>7. QED
  BY <1>3, <1>4, <1>5, <1>6

LEMMA ShellInvariant == ShellSpec => []ShellInv
<1>1. ASSUME ShellInit PROVE ShellInv
  <2>1. NoLoad \in LoadTypes /\ NoLoad.at = "none"
    BY DEF NoLoad, LoadTypes
  <2>2. ShellTypeOK
    BY <1>1, <2>1 DEF ShellInit, ShellTypeOK, LoadTypes
  <2>3. LastLoadIsLive /\ RefsFollow
    BY <1>1, <2>1 DEF ShellInit, LastLoadIsLive, RefsFollow, Loads
  <2>4. QED
    BY <2>2, <2>3 DEF ShellInv
<1>2. ShellInv /\ [ShellNext]_shellVars => ShellInv'
  <2>1. ASSUME ShellInv, ShellNext PROVE ShellInv'
    BY <2>1, LoadStepKeeps, ShellStepKeeps DEF ShellNext
  <2>2. ASSUME ShellInv, UNCHANGED shellVars PROVE ShellInv'
    BY <2>2 DEF shellVars, ShellInv, ShellTypeOK, LastLoadIsLive, RefsFollow
  <2>3. QED
    BY <2>1, <2>2
<1>3. QED
  BY <1>1, <1>2, PTL DEF ShellSpec

\* The page's requests, loads and refs keep their types (AdminShell.tsx,
\* ModuleFrame.tsx).
THEOREM ShellTypeCorrect == ShellSpec => []ShellTypeOK
<1>1. ShellInv => ShellTypeOK
  BY DEF ShellInv
<1>2. QED
  BY <1>1, ShellInvariant, PTL

\* The module the page shows is the last load's, alone in the container and
\* with the bridge of now (ModuleFrame's effect and its cleanup).
THEOREM FrameShowsLatest == ShellSpec => []ShowsLatest
<1>1. ShellInv => ShowsLatest
  BY DEF ShellInv, ShellTypeOK, LastLoadIsLive, RefsFollow, ShowsLatest
<1>2. QED
  BY <1>1, ShellInvariant, PTL
==============================================================================
