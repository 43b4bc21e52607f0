----------------------------- MODULE FileStorage -----------------------------
(***************************************************************************)
(* The files service of one tenant: rows of "files" in the platform's      *)
(* Postgres, objects in a GCS bucket, and nothing that commits both.       *)
(*                                                                         *)
(*   upload             inline: store the object, then insert the row      *)
(*                      under the tenant's advisory lock, or undo          *)
(*   create-upload-url  resumable: insert a pending row, mint a PUT URL    *)
(*   finalize-upload    look at the object, flip the row to active         *)
(*   cancel-upload      delete the object, delete the row                  *)
(*   orphan GC          the same for pending rows two hours old, holding   *)
(*                      FOR UPDATE locks in one transaction while the      *)
(*                      DELETEs go out on other connections                *)
(*                                                                         *)
(* A file is one upload (a fresh UUID per request).  The handlers of the   *)
(* tenant's apps may send finalize and cancel for a file they know of at   *)
(* any time and in parallel, as a retry after a lost answer does.          *)
(***************************************************************************)
EXTENDS Integers, FiniteSets

CONSTANTS
    Files,     \* uploads, by file id
    Inline,    \* those that come in through POST /upload
    NoFile,
    Calls,     \* finalize and cancel requests the API can have in progress
    Sweeps,    \* runSweep executions the API replicas can have in progress
    NoSweep,
    Want,      \* Want[f]: buffer.length, or expectedSizeBytes
    Limit,     \* maxStorageBytes of the tenant's plan
    NoObject,
    MaxFaults  \* bound: crashes, failed statements and store calls

ASSUME ConstantsOK ==
    /\ IsFiniteSet(Files) /\ Inline \subseteq Files
    /\ NoFile \notin Files /\ NoSweep \notin Sweeps
    /\ Want \in [Files -> Nat \ {0}]
    /\ Limit \in Nat
    /\ NoObject \notin Nat
    /\ MaxFaults \in Nat

VARIABLES
    row,        \* files.status; "none": no row
    size,       \* files.size_bytes
    old,        \* two hours have passed: the row is stale, the URL expired
    object,     \* size of the GCS object
    at,         \* where the request that creates f is
    tenantLock, \* the upload whose transaction holds the advisory lock
    url,        \* a handler has the signed PUT URL of f
    rowLock,    \* the sweep whose transaction holds FOR UPDATE on the row
    deletes,    \* files with a DELETE at the server; it outlives its client
    callAt,     \* where finalize or cancel call c is
    callFile,
    seen,       \* the size finalize read from GCS
    sweepAt,    \* where sweep s is
    batch,      \* rows the sweep has not dealt with yet
    doing,      \* the row whose callback runs
    acked,      \* history: files answered 200 to the handler
    cancelled,  \* history: files a cancel read while they were pending
    claimed,    \* history: files a sweep read while they were pending
    faults

rows    == <<row, size>>
create  == <<at, tenantLock, url>>
calls   == <<callAt, callFile, seen>>
sweeps  == <<sweepAt, batch, doing>>
history == <<acked, cancelled, claimed>>
vars    == <<rows, old, object, create, rowLock, deletes, calls, sweeps,
             history, faults>>

Fault == faults < MaxFaults /\ faults' = faults + 1

Resumable == Files \ Inline

Init ==
    /\ row = [f \in Files |-> "none"]
    /\ size = [f \in Files |-> 0]
    /\ old = [f \in Files |-> FALSE]
    /\ object = [f \in Files |-> NoObject]
    /\ at = [f \in Files |-> "new"]
    /\ tenantLock = NoFile
    /\ url = [f \in Files |-> FALSE]
    /\ rowLock = [f \in Files |-> NoSweep]
    /\ deletes = {}
    /\ callAt = [c \in Calls |-> "idle"]
    /\ callFile = [c \in Calls |-> NoFile]
    /\ seen = [c \in Calls |-> 0]
    /\ sweepAt = [s \in Sweeps |-> "idle"]
    /\ batch = [s \in Sweeps |-> {}]
    /\ doing = [s \in Sweeps |-> NoFile]
    /\ acked = {}
    /\ cancelled = {}
    /\ claimed = {}
    /\ faults = 0

-----------------------------------------------------------------------------
(* The quota and the object store.                                         *)

Stored(status) == {f \in Files : row[f] \in status}

\* SUM(size_bytes): the number of bytes the rows of S stand for.
Bytes(S) == Cardinality(UNION {{f} \X (1..size[f]) : f \in S})

\* getTenantStorageUsage, and the sub-select of insertActiveFileAtomic.
Fits(f) == Bytes(Stored({"pending", "active"})) + Want[f] <= Limit

Goto(f, place) == at' = [at EXCEPT ![f] = place]

Delete(f) == object' = [object EXCEPT ![f] = NoObject]

PutRow(f, status, n) ==
    /\ row' = [row EXCEPT ![f] = status]
    /\ size' = [size EXCEPT ![f] = n]

Unlock(f) == tenantLock' = IF tenantLock = f THEN NoFile ELSE tenantLock

-----------------------------------------------------------------------------
(* POST /upload: pre-check, object, then the row in a transaction.         *)

\* The pre-check reads the usage; the request is refused or goes on.
Begin(f) ==
    /\ at[f] = "new"
    /\ \/ ~Fits(f) /\ Goto(f, "done")
       \/ Fits(f) /\ f \in Inline /\ Goto(f, "store")
       \/ Fits(f) /\ f \in Resumable /\ Goto(f, "reserve")
    /\ UNCHANGED <<rows, old, object, tenantLock, url, rowLock, deletes, calls,
                   sweeps, history, faults>>

Store(f) ==
    /\ at[f] = "store"
    /\ object' = [object EXCEPT ![f] = Want[f]]
    /\ Goto(f, "lock")
    /\ UNCHANGED <<rows, old, tenantLock, url, rowLock, deletes, calls, sweeps,
                   history, faults>>

\* Mutant of LockTenant: no advisory lock.
MutLockTenant(f) ==
    /\ at[f] = "lock"
    /\ tenantLock' = f
    /\ Goto(f, IF Fits(f) THEN "insert" ELSE "full")
    /\ UNCHANGED <<rows, old, object, url, rowLock, deletes, calls, sweeps,
                   history, faults>>

\* pg_advisory_xact_lock, then the snapshot of the conditional INSERT.  What
\* other requests commit before this transaction does is not in the sum.
LockTenant(f) ==
    /\ at[f] = "lock" /\ tenantLock = NoFile
    /\ tenantLock' = f
    /\ Goto(f, IF Fits(f) THEN "insert" ELSE "full")
    /\ UNCHANGED <<rows, old, object, url, rowLock, deletes, calls, sweeps,
                   history, faults>>

\* COMMIT: the lock goes with it.  No row returned: the object is undone.
Commit(f) ==
    /\ \/ at[f] = "insert" /\ PutRow(f, "active", Want[f]) /\ Goto(f, "sign")
       \/ at[f] = "full" /\ Goto(f, "undo") /\ UNCHANGED rows
    /\ Unlock(f)
    /\ UNCHANGED <<old, object, url, rowLock, deletes, calls, sweeps, history,
                   faults>>

\* The transaction fails on the client's side; the row may be there all the same.
CommitFails(f) ==
    /\ Fault
    /\ at[f] \in {"lock", "insert", "full"}
    /\ \/ UNCHANGED rows
       \/ at[f] = "insert" /\ PutRow(f, "active", Want[f])
    /\ Unlock(f)
    /\ Goto(f, "undo")
    /\ UNCHANGED <<old, object, url, rowLock, deletes, calls, sweeps, history>>

\* Mutant of Undo: no compensating delete.
MutUndo(f) ==
    /\ at[f] = "undo"
    /\ Goto(f, "done")
    /\ UNCHANGED <<rows, old, object, tenantLock, url, rowLock, deletes, calls,
                   sweeps, history, faults>>

\* The compensating delete; its failure is logged and swallowed.
Undo(f) ==
    /\ at[f] = "undo"
    /\ \/ Delete(f) /\ UNCHANGED faults
       \/ Fault /\ UNCHANGED object
    /\ Goto(f, "done")
    /\ UNCHANGED <<rows, old, tenantLock, url, rowLock, deletes, calls, sweeps,
                   history>>

\* The read URL is signed and the upload answered 200.
Sign(f) ==
    /\ at[f] = "sign"
    /\ acked' = acked \cup {f}
    /\ Goto(f, "done")
    /\ UNCHANGED <<rows, old, object, tenantLock, url, rowLock, deletes, calls,
                   sweeps, cancelled, claimed, faults>>

-----------------------------------------------------------------------------
(* POST /create-upload-url: the row first, then the URL.                   *)

Reserve(f) ==
    /\ at[f] = "reserve"
    /\ PutRow(f, "pending", Want[f])
    /\ Goto(f, "mint")
    /\ UNCHANGED <<old, object, tenantLock, url, rowLock, deletes, calls, sweeps,
                   history, faults>>

\* createResumableUploadUrl, or its failure.
Mint(f) ==
    /\ at[f] = "mint"
    /\ \/ url' = [url EXCEPT ![f] = TRUE] /\ Goto(f, "done") /\ UNCHANGED faults
       \/ Fault /\ Goto(f, "rollback") /\ UNCHANGED url
    /\ UNCHANGED <<rows, old, object, tenantLock, rowLock, deletes, calls, sweeps,
                   history>>

Rollback(f) ==
    /\ at[f] = "rollback"
    /\ deletes' = deletes \cup {f}
    /\ Goto(f, "done")
    /\ UNCHANGED <<rows, old, object, tenantLock, url, rowLock, calls, sweeps,
                   history, faults>>

\* The request ends early: a crash, a lost answer, or a rejected call after
\* which the handler changes nothing more.
CreateFails(f) ==
    /\ Fault
    /\ at[f] \notin {"new", "done"}
    /\ Goto(f, "done")
    /\ Unlock(f)
    /\ UNCHANGED <<rows, old, object, url, rowLock, deletes, calls, sweeps, history>>

\* A handler PUTs to the signed URL, once or again; GCS holds it to the range
\* 0..expectedSizeBytes of the URL and to its expiry.
Put(f) ==
    /\ url[f] /\ ~old[f]
    /\ \E n \in 0..Want[f] : object' = [object EXCEPT ![f] = n]
    /\ UNCHANGED <<rows, old, create, rowLock, deletes, calls, sweeps, history, faults>>

\* Two hours pass: long after the request, and after the URL's one hour.
Age(f) ==
    /\ f \in Resumable /\ at[f] = "done" /\ ~old[f]
    /\ old' = [old EXCEPT ![f] = TRUE]
    /\ UNCHANGED <<rows, object, create, rowLock, deletes, calls, sweeps, history, faults>>

-----------------------------------------------------------------------------
(* POST /finalize-upload and /cancel-upload.  Refusals (404, 409) change   *)
(* nothing and leave the call idle.                                        *)

Known(f) == url[f] \/ f \in acked

Unfinished(c) == callAt[c] # "idle"

Enter(c, f, place) ==
    /\ callAt' = [callAt EXCEPT ![c] = place]
    /\ callFile' = [callFile EXCEPT ![c] = f]

Step(c, place) == callAt' = [callAt EXCEPT ![c] = place]

\* The handler returns, its locals with it.
Return(c) ==
    /\ Step(c, "idle")
    /\ callFile' = [callFile EXCEPT ![c] = NoFile]
    /\ seen' = [seen EXCEPT ![c] = 0]

\* getFinalizableFileForApp in finalizeUploadHandler.
ReadForFinalize(c, f) ==
    /\ callAt[c] = "idle" /\ Known(f)
    /\ row[f] \in {"pending", "active"}
    /\ Enter(c, f, "head")
    /\ UNCHANGED <<rows, old, object, create, rowLock, deletes, seen, sweeps,
                   history, faults>>

\* getObjectSize: null is a 409.
Head(c) ==
    /\ callAt[c] = "head"
    /\ \/ /\ object[callFile[c]] # NoObject
          /\ seen' = [seen EXCEPT ![c] = object[callFile[c]]]
          /\ Step(c, "flip")
          /\ UNCHANGED callFile
       \/ object[callFile[c]] = NoObject /\ Return(c)
    /\ UNCHANGED <<rows, old, object, create, rowLock, deletes, sweeps, history, faults>>

\* finalizeFile: the UPDATE waits for a sweep's lock on the row.  No row: 500.
Flip(c) == LET f == callFile[c] IN
    /\ callAt[c] = "flip" /\ rowLock[f] = NoSweep
    /\ \/ /\ row[f] # "none"
          /\ PutRow(f, "active", seen[c])
          /\ Step(c, "sign")
          /\ UNCHANGED <<callFile, seen>>
       \/ row[f] = "none" /\ Return(c) /\ UNCHANGED rows
    /\ UNCHANGED <<old, object, create, rowLock, deletes, sweeps, history, faults>>

Finalized(c) ==
    /\ callAt[c] = "sign"
    /\ acked' = acked \cup {callFile[c]}
    /\ Return(c)
    /\ UNCHANGED <<rows, old, object, create, rowLock, deletes, sweeps, cancelled,
                   claimed, faults>>

\* Those of the files read that were pending.
Pending(S) == {f \in S : row[f] = "pending"}

\* Mutant of ReadForCancel: the status is not looked at.
MutReadForCancel(c, f) ==
    /\ callAt[c] = "idle" /\ Known(f)
    /\ row[f] \in {"pending", "active"}
    /\ Enter(c, f, "erase")
    /\ cancelled' = cancelled \cup Pending({f})
    /\ UNCHANGED <<rows, old, object, create, rowLock, deletes, seen, sweeps,
                   acked, claimed, faults>>

\* getFinalizableFileForApp in cancelUploadHandler; active is a 409.
ReadForCancel(c, f) ==
    /\ callAt[c] = "idle" /\ Known(f)
    /\ row[f] = "pending"
    /\ Enter(c, f, "erase")
    /\ cancelled' = cancelled \cup Pending({f})
    /\ UNCHANGED <<rows, old, object, create, rowLock, deletes, seen, sweeps,
                   acked, claimed, faults>>

\* deleteObject; its failure is logged and swallowed.
Erase(c) ==
    /\ callAt[c] = "erase"
    /\ \/ Delete(callFile[c]) /\ UNCHANGED faults
       \/ Fault /\ UNCHANGED object
    /\ Step(c, "remove")
    /\ UNCHANGED <<rows, old, create, rowLock, deletes, callFile, seen, sweeps, history>>

\* deleteFileRow goes out ...
Remove(c) ==
    /\ callAt[c] = "remove"
    /\ deletes' = deletes \cup {callFile[c]}
    /\ Step(c, "answer")
    /\ UNCHANGED <<rows, old, object, create, rowLock, callFile, seen, sweeps,
                   history, faults>>

\* ... and has returned.
Answer(c) ==
    /\ callAt[c] = "answer" /\ callFile[c] \notin deletes
    /\ Return(c)
    /\ UNCHANGED <<rows, old, object, create, rowLock, deletes, sweeps, history, faults>>

\* The call ends early, at any await.  A DELETE it sent stays at the server.
CallFails(c) ==
    /\ Fault
    /\ Unfinished(c)
    /\ Return(c)
    /\ UNCHANGED <<rows, old, object, create, rowLock, deletes, sweeps, history>>

\* The server runs the DELETE of f: an autocommit statement by id alone.  It
\* waits for the lock of a sweep, also of the sweep that sent it.
RunDelete(f) ==
    /\ f \in deletes /\ rowLock[f] = NoSweep
    /\ deletes' = deletes \ {f}
    /\ PutRow(f, "none", 0)
    /\ UNCHANGED <<old, object, create, rowLock, calls, sweeps, history, faults>>

-----------------------------------------------------------------------------
(* The orphan GC: runSweep, sweepStalePendingFiles.                        *)

\* WHERE status = 'pending' AND created_at < ... FOR UPDATE SKIP LOCKED.
Stale == {f \in Files : row[f] = "pending" /\ old[f] /\ rowLock[f] = NoSweep}

Release(s) == rowLock' = [f \in Files |-> IF rowLock[f] = s THEN NoSweep ELSE rowLock[f]]

Resume(s, place) == sweepAt' = [sweepAt EXCEPT ![s] = place]

DoneWith(s, f) ==
    /\ batch' = [batch EXCEPT ![s] = @ \ {f}]
    /\ doing' = [doing EXCEPT ![s] = NoFile]

\* The timer fires.  A sweep that finds nothing changes nothing.
Claim(s) ==
    /\ sweepAt[s] = "idle" /\ Stale # {}
    /\ rowLock' = [f \in Files |-> IF f \in Stale THEN s ELSE rowLock[f]]
    /\ batch' = [batch EXCEPT ![s] = Stale]
    /\ claimed' = claimed \cup Pending(Stale)
    /\ Resume(s, "erase")
    /\ UNCHANGED <<rows, old, object, create, deletes, calls, doing, acked,
                   cancelled, faults>>

\* Mutant of EraseRow: the row goes whether or not the object did.
MutEraseRow(s, f) ==
    /\ sweepAt[s] = "erase" /\ f \in batch[s]
    /\ \/ Delete(f) /\ UNCHANGED faults
       \/ Fault /\ UNCHANGED object
    /\ doing' = [doing EXCEPT ![s] = f]
    /\ Resume(s, "remove")
    /\ UNCHANGED <<rows, old, create, rowLock, deletes, calls, batch, history>>

\* deleteObject for a row of the batch; when it fails the row is left alone.
EraseRow(s, f) ==
    /\ sweepAt[s] = "erase" /\ f \in batch[s]
    /\ \/ /\ Delete(f)
          /\ doing' = [doing EXCEPT ![s] = f]
          /\ Resume(s, "remove")
          /\ UNCHANGED <<batch, faults>>
       \/ /\ Fault
          /\ DoneWith(s, f)
          /\ UNCHANGED <<object, sweepAt>>
    /\ UNCHANGED <<rows, old, create, rowLock, deletes, calls, history>>

\* deleteFileRow on a connection of its own ...
RemoveRow(s) ==
    /\ sweepAt[s] = "remove"
    /\ deletes' = deletes \cup {doing[s]}
    /\ Resume(s, "answer")
    /\ UNCHANGED <<rows, old, object, create, rowLock, calls, batch, doing,
                   history, faults>>

\* ... awaited inside the transaction.
RowRemoved(s) ==
    /\ sweepAt[s] = "answer" /\ doing[s] \notin deletes
    /\ DoneWith(s, doing[s])
    /\ Resume(s, "erase")
    /\ UNCHANGED <<rows, old, object, create, rowLock, deletes, calls, history, faults>>

\* deleteFileRow rejects: logged, and on to the next row.
RemoveFails(s) ==
    /\ Fault
    /\ sweepAt[s] \in {"remove", "answer"}
    /\ DoneWith(s, doing[s])
    /\ Resume(s, "erase")
    /\ UNCHANGED <<rows, old, object, create, rowLock, deletes, calls, history>>

\* COMMIT.
Finish(s) ==
    /\ sweepAt[s] = "erase" /\ batch[s] = {}
    /\ Release(s)
    /\ Resume(s, "idle")
    /\ UNCHANGED <<rows, old, object, create, deletes, calls, batch, doing,
                   history, faults>>

\* The connection of the transaction breaks: the server rolls back and drops
\* the locks; the loop over the rows it returned goes on.
LocksLost(s) ==
    /\ Fault
    /\ sweepAt[s] # "idle" /\ \E f \in Files : rowLock[f] = s
    /\ Release(s)
    /\ UNCHANGED <<rows, old, object, create, deletes, calls, sweeps, history>>

\* The replica is gone.
SweepCrashes(s) ==
    /\ Fault
    /\ sweepAt[s] # "idle"
    /\ Release(s)
    /\ Resume(s, "idle")
    /\ batch' = [batch EXCEPT ![s] = {}]
    /\ doing' = [doing EXCEPT ![s] = NoFile]
    /\ UNCHANGED <<rows, old, object, create, deletes, calls, history>>

-----------------------------------------------------------------------------
CreateStep(f) ==
    \/ Store(f) \/ LockTenant(f) \/ Commit(f) \/ Undo(f) \/ Sign(f)
    \/ Reserve(f) \/ Mint(f) \/ Rollback(f)

CallStep(c) == Head(c) \/ Flip(c) \/ Finalized(c) \/ Erase(c) \/ Remove(c) \/ Answer(c)

SweepStep(s) ==
    \/ Claim(s) \/ RemoveRow(s) \/ RowRemoved(s) \/ Finish(s)
    \/ \E f \in Files : EraseRow(s, f)

Next ==
    \/ \E f \in Files :
          \/ Begin(f) \/ CreateStep(f) \/ CommitFails(f) \/ CreateFails(f)
          \/ Put(f) \/ Age(f) \/ RunDelete(f)
          \/ \E c \in Calls : ReadForFinalize(c, f) \/ ReadForCancel(c, f)
    \/ \E c \in Calls : CallStep(c) \/ CallFails(c)
    \/ \E s \in Sweeps : SweepStep(s) \/ RemoveFails(s) \/ LocksLost(s) \/ SweepCrashes(s)

Spec == Init /\ [][Next]_vars

\* Requests and sweeps that have started go on, the sweeper's timer fires, and
\* Postgres runs a statement that is not blocked.  Handlers owe nothing.
Fairness ==
    /\ \A f \in Files : WF_vars(CreateStep(f)) /\ WF_vars(RunDelete(f))
    /\ \A c \in Calls : WF_vars(CallStep(c))
    /\ \A s \in Sweeps : WF_vars(SweepStep(s))

FairSpec == Spec /\ Fairness

-----------------------------------------------------------------------------
(* Properties.                                                             *)

Places == {"new", "store", "lock", "insert", "full", "undo", "sign", "reserve",
           "mint", "rollback", "done"}

\* Every variable holds a value of its type; sizes fit the reservation: a PUT
\* cannot exceed it (x-goog-content-length-range) and finalize writes what GCS has.
TypeOK ==
    /\ row \in [Files -> {"none", "pending", "active"}]
    /\ size \in [Files -> Nat] /\ \A f \in Files : size[f] <= Want[f]
    /\ old \in [Files -> BOOLEAN]
    /\ object \in [Files -> Nat \cup {NoObject}]
    /\ at \in [Files -> Places]
    /\ tenantLock \in Inline \cup {NoFile}
    /\ url \in [Files -> BOOLEAN]
    /\ rowLock \in [Files -> Sweeps \cup {NoSweep}]
    /\ deletes \in SUBSET Files
    /\ callAt \in [Calls -> {"idle", "head", "flip", "sign", "erase", "remove", "answer"}]
    /\ callFile \in [Calls -> Files \cup {NoFile}]
    /\ seen \in [Calls -> Nat]
    /\ sweepAt \in [Sweeps -> {"idle", "erase", "remove", "answer"}]
    /\ batch \in [Sweeps -> SUBSET Files]
    /\ doing \in [Sweeps -> Files \cup {NoFile}]
    /\ acked \in SUBSET Files
    /\ cancelled \in SUBSET Files
    /\ claimed \in SUBSET Files
    /\ faults \in 0..MaxFaults

\* Inline uploads alone never take the tenant over its storage cap, however
\* many run at once (insertActiveFileAtomic's advisory lock).
InlineWithinQuota == Bytes(Stored({"active"}) \cap Inline) <= Limit

\* Without faults an inline upload that is over left a row and its object, or
\* neither: a lost race for the quota is undone.
InlineCompensated ==
    \A f \in Inline :
        (faults = 0 /\ at[f] = "done") => (row[f] = "active" <=> object[f] # NoObject)

\* A file answered 200 has its active row and its object for good, whatever
\* retries, late cancels, sweeps and crashes do, unless a cancel or a sweep had
\* read the row as pending.
AckedIsStored ==
    \A f \in acked \ (cancelled \cup claimed) :
        row[f] = "active" /\ object[f] # NoObject

\* When the row of an upload whose URL was handed out is gone and no cancel
\* touched it, its bytes are gone too: the sweeper leaves no orphan in GCS.
SweptLeavesNothing ==
    \A f \in Files \ cancelled :
        (url[f] /\ old[f] /\ row[f] = "none") => object[f] = NoObject

\* files-orphan-gc.ts, "this sweeper is the safety net": a pending row two hours
\* old is finalized, cancelled or swept in the end.
StaleReservationsFreed ==
    \A f \in Files : (row[f] = "pending" /\ old[f]) ~> (row[f] # "pending")
=============================================================================
