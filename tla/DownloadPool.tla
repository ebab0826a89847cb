---------------------------- MODULE DownloadPool ----------------------------
(***************************************************************************)
(* downloadDriveInputs: one feeder hands the indices of a Drive job's      *)
(* files to a pool of workers over an unbuffered channel; each worker      *)
(* restores its file from the source cache or downloads it from Drive with *)
(* retries, stores a copy in the source cache, and prepares the merge      *)
(* input.  The first error goes to a channel of capacity one and cancels   *)
(* the context all the workers share.                                      *)
(*                                                                         *)
(* A worker's steps are cut where another goroutine can observe it: at     *)
(* every remote call and at every access to shared memory or to a file of  *)
(* the work directory.  The sleep between two attempts and the progress    *)
(* reports (updateDownloadState) are left out.                             *)
(***************************************************************************)
EXTENDS Naturals

CONSTANTS
    N,              \* number of files of the job; file i is files[i-1]
    Workers,        \* the goroutines started: min(3, N) of them
    MaxAttempts,    \* maxAttempts
    Paths,          \* names in the work directory
    LocalPath,      \* where the bytes of a file are saved
    MergePath       \* what the merge reads: another path for an image

Files == 1..N

ASSUME NAssumption        == N \in Nat
ASSUME AttemptsAssumption == MaxAttempts \in Nat \ {0}
ASSUME PathsAssumption    == /\ LocalPath \in [Files -> Paths]
                             /\ MergePath \in [Files -> Paths]

VARIABLES
    feeder,     \* "feeding" workCh, "waiting" for the workers, "returned"
    next,       \* the index the feeder sends next
    pc,         \* where each worker is
    file,       \* the file it works on (its last one when it has none)
    attempt,    \* its attempt: 0 is the restore from the source cache
    err,        \* the error downloadSingleDriveFile is about to return
    errCh,      \* the error channel, of capacity one
    cancelled,  \* the shared context
    result,     \* what downloadDriveInputs returned
    filled,     \* the entries of inputs that are set
    disk,       \* whose bytes a file of the work directory holds
    keyed,      \* files whose row named a source-cache object at the start
    stored,     \* files with an object in the source cache
    linked      \* files whose row names a source-cache object

vars == <<feeder, next, pc, file, attempt, err, errCh, cancelled, result,
          filled, disk, keyed, stored, linked>>
cacheVars == <<keyed, stored, linked>>
feedVars  == <<feeder, next, result>>

Kinds == {"io", "canceled"}     \* what an error says happened
Spots == {"idle", "check", "open", "save", "store", "link", "prepare",
          "report", "cancel", "done"}

-----------------------------------------------------------------------------
(* A retry job starts with the keys of the job it repeats, whose objects   *)
(* may be gone; any other job starts with none.                            *)
Init ==
    /\ feeder = "feeding"
    /\ next = 1
    /\ pc = [w \in Workers |-> "idle"]
    /\ file = [w \in Workers |-> 0]
    /\ attempt = [w \in Workers |-> 0]
    /\ err = [w \in Workers |-> "none"]
    /\ errCh = "none"
    /\ cancelled = FALSE
    /\ result = "none"
    /\ filled = {}
    /\ disk = [p \in Paths |-> {}]
    /\ keyed \in SUBSET Files
    /\ stored \in SUBSET keyed
    /\ linked = keyed

-----------------------------------------------------------------------------
(* The feeder and the channel.                                             *)

\* Mutant: the index is not advanced.
HandTwice(w) ==
    /\ feeder = "feeding"
    /\ next \in Files
    /\ pc[w] = "idle"
    /\ file' = [file EXCEPT ![w] = next]
    /\ attempt' = [attempt EXCEPT ![w] = IF next \in keyed THEN 0 ELSE 1]
    /\ pc' = [pc EXCEPT ![w] = IF next \in keyed THEN "open" ELSE "check"]
    /\ UNCHANGED <<feeder, next, err, errCh, cancelled, result, filled, disk, cacheVars>>

\* case workCh <- index: a rendezvous with a worker at its range statement.
Hand(w) ==
    /\ feeder = "feeding"
    /\ next \in Files
    /\ pc[w] = "idle"
    /\ next' = next + 1
    /\ file' = [file EXCEPT ![w] = next]
    /\ attempt' = [attempt EXCEPT ![w] = IF next \in keyed THEN 0 ELSE 1]
    /\ pc' = [pc EXCEPT ![w] = IF next \in keyed THEN "open" ELSE "check"]
    /\ UNCHANGED <<feeder, err, errCh, cancelled, result, filled, disk, cacheVars>>

\* case <-ctx.Done(), or the end of the range; then close(workCh).
FeederBreak ==
    /\ feeder = "feeding"
    /\ cancelled
    /\ feeder' = "waiting"
    /\ UNCHANGED <<next, pc, file, attempt, err, errCh, cancelled, result, filled, disk, cacheVars>>

\* Mutant: the range ends one index early.
FeederDropsLast ==
    /\ feeder = "feeding"
    /\ next >= N
    /\ feeder' = "waiting"
    /\ UNCHANGED <<next, pc, file, attempt, err, errCh, cancelled, result, filled, disk, cacheVars>>

FeederDone ==
    /\ feeder = "feeding"
    /\ next \notin Files
    /\ feeder' = "waiting"
    /\ UNCHANGED <<next, pc, file, attempt, err, errCh, cancelled, result, filled, disk, cacheVars>>

\* Mutant: no wg.Wait().
ReturnEarly ==
    /\ feeder = "waiting"
    /\ feeder' = "returned"
    /\ result' = IF errCh = "none" THEN "nil" ELSE errCh
    /\ errCh' = "none"
    /\ cancelled' = TRUE
    /\ UNCHANGED <<next, pc, file, attempt, err, filled, disk, cacheVars>>

\* wg.Wait() and the verdict; the deferred cancel runs as the call returns.
Return ==
    /\ feeder = "waiting"
    /\ \A w \in Workers : pc[w] = "done"
    /\ feeder' = "returned"
    /\ result' = IF errCh = "none" THEN "nil" ELSE errCh
    /\ errCh' = "none"
    /\ cancelled' = TRUE
    /\ UNCHANGED <<next, pc, file, attempt, err, filled, disk, cacheVars>>

\* The channel is closed and the worker leaves its range loop.
RecvClosed(w) ==
    /\ feeder = "waiting"
    /\ pc[w] = "idle"
    /\ pc' = [pc EXCEPT ![w] = "done"]
    /\ UNCHANGED <<feedVars, file, attempt, err, errCh, cancelled, filled, disk, cacheVars>>

-----------------------------------------------------------------------------
(* One file: downloadSingleDriveFile and restoreDriveFileFromCache.        *)

\* A remote call under the context fails with ctx's error only once it is
\* cancelled; it may fail for a reason of its own at any time.
Possible(kind) == kind = "canceled" => cancelled

GiveUp(w, kind) ==
    /\ pc' = [pc EXCEPT ![w] = "report"]
    /\ err' = [err EXCEPT ![w] = kind]
    /\ UNCHANGED attempt

\* Mutant: attempt <= maxAttempts allows one attempt too many.
TryAgainTooOften(w, kind) ==
    \/ /\ attempt[w] > MaxAttempts
       /\ GiveUp(w, kind)
    \/ /\ attempt[w] <= MaxAttempts
       /\ attempt' = [attempt EXCEPT ![w] = @ + 1]
       /\ pc' = [pc EXCEPT ![w] = "check"]
       /\ UNCHANGED err

\* The attempt failed: the last one returns its error, any other (the
\* restore included) goes to the next.
TryAgain(w, kind) ==
    \/ /\ attempt[w] = MaxAttempts
       /\ GiveUp(w, kind)
    \/ /\ attempt[w] < MaxAttempts
       /\ attempt' = [attempt EXCEPT ![w] = @ + 1]
       /\ pc' = [pc EXCEPT ![w] = "check"]
       /\ UNCHANGED err

Advance(w, spot) ==
    /\ pc' = [pc EXCEPT ![w] = spot]
    /\ UNCHANGED <<attempt, err>>

\* ctx.Err() at the head of every Drive attempt.
CheckCtx(w) ==
    /\ pc[w] = "check"
    /\ IF cancelled THEN GiveUp(w, "canceled") ELSE Advance(w, "open")
    /\ UNCHANGED <<feedVars, file, errCh, cancelled, filled, disk, cacheVars>>

\* drive.DownloadFile or storage.Download, then os.Create of the local path.
Open(w) ==
    /\ pc[w] = "open"
    /\ \/ /\ Advance(w, "save")
          /\ disk' = [disk EXCEPT ![LocalPath[file[w]]] = {}]
       \/ /\ \E kind \in Kinds : Possible(kind) /\ TryAgain(w, kind)
          /\ UNCHANGED disk
    /\ UNCHANGED <<feedVars, file, errCh, cancelled, filled, cacheVars>>

\* Mutant: the error of the copy is ignored.
SaveUnchecked(w) ==
    LET f == file[w]
    IN  /\ pc[w] = "save"
        /\ disk' \in {disk, [disk EXCEPT ![LocalPath[f]] = @ \union {f}]}
        /\ Advance(w, IF f \in keyed THEN "prepare" ELSE "store")
        /\ UNCHANGED <<feedVars, file, errCh, cancelled, filled, cacheVars>>

\* Copying the body to the local path.  GetObject is lazy, so a source-cache
\* object that is gone shows up here; a failed copy may leave part of it.
Save(w) ==
    LET f == file[w]
        landed == [disk EXCEPT ![LocalPath[f]] = @ \union {f}]
    IN  /\ pc[w] = "save"
        /\ \/ /\ attempt[w] = 0 => f \in stored
              /\ disk' = landed
              /\ Advance(w, IF f \in keyed THEN "prepare" ELSE "store")
           \/ /\ disk' \in {disk, landed}
              /\ \E kind \in Kinds : Possible(kind) /\ TryAgain(w, kind)
        /\ UNCHANGED <<feedVars, file, errCh, cancelled, filled, cacheVars>>

\* Mutant: the row is written whether or not the upload worked.
StoreUnchecked(w) ==
    /\ pc[w] = "store"
    /\ stored' \in {stored, stored \union {file[w]}}
    /\ Advance(w, "link")
    /\ UNCHANGED <<feedVars, file, errCh, cancelled, filled, disk, keyed, linked>>

\* uploadDriveSourceCache, best effort: the object first, then the row.  A
\* call that reports an error may have taken effect.
Store(w) ==
    /\ pc[w] = "store"
    /\ \/ /\ stored' = stored \union {file[w]}
          /\ Advance(w, "link")
       \/ /\ stored' \in {stored, stored \union {file[w]}}
          /\ Advance(w, "prepare")
    /\ UNCHANGED <<feedVars, file, errCh, cancelled, filled, disk, keyed, linked>>

Link(w) ==
    /\ pc[w] = "link"
    /\ linked' \in {linked, linked \union {file[w]}}
    /\ Advance(w, "prepare")
    /\ UNCHANGED <<feedVars, file, errCh, cancelled, filled, disk, keyed, stored>>

\* Mutant: a restore that cannot be prepared is restored again.
PrepareFromCacheAgain(w) ==
    LET f == file[w]
    IN  /\ pc[w] = "prepare"
        /\ \/ /\ disk' = [disk EXCEPT ![MergePath[f]] = @ \union disk[LocalPath[f]]]
              /\ filled' = filled \union {f}
              /\ Advance(w, "idle")
           \/ /\ IF attempt[w] = 0 THEN Advance(w, "open") ELSE GiveUp(w, "io")
              /\ UNCHANGED <<disk, filled>>
        /\ UNCHANGED <<feedVars, file, errCh, cancelled, cacheVars>>

\* merge.NormalizeUploadInput, and inputs[index] = input on success.  The
\* conversion of an image appends to the PDF at its path if there is one.
\* Of the restore a failure falls through to the Drive attempts; of a
\* download it is final whatever the attempt.
Prepare(w) ==
    LET f == file[w]
    IN  /\ pc[w] = "prepare"
        /\ \/ /\ disk' = [disk EXCEPT ![MergePath[f]] = @ \union disk[LocalPath[f]]]
              /\ filled' = filled \union {f}
              /\ Advance(w, "idle")
           \/ /\ IF attempt[w] = 0 THEN TryAgain(w, "io") ELSE GiveUp(w, "io")
              /\ UNCHANGED <<disk, filled>>
        /\ UNCHANGED <<feedVars, file, errCh, cancelled, cacheVars>>

-----------------------------------------------------------------------------
(* The worker's error path: offer the error, cancel the context, leave.    *)

\* Mutant: the last error wins.
ReportLast(w) ==
    /\ pc[w] = "report"
    /\ errCh' = err[w]
    /\ Advance(w, "cancel")
    /\ UNCHANGED <<feedVars, file, cancelled, filled, disk, cacheVars>>

Report(w) ==
    /\ pc[w] = "report"
    /\ errCh' = IF errCh = "none" THEN err[w] ELSE errCh
    /\ Advance(w, "cancel")
    /\ UNCHANGED <<feedVars, file, cancelled, filled, disk, cacheVars>>

Cancel(w) ==
    /\ pc[w] = "cancel"
    /\ cancelled' = TRUE
    /\ Advance(w, "done")
    /\ UNCHANGED <<feedVars, file, errCh, filled, disk, cacheVars>>

-----------------------------------------------------------------------------
LocalStep(w)  == RecvClosed(w) \/ CheckCtx(w) \/ Prepare(w) \/ Report(w) \/ Cancel(w)
RemoteStep(w) == Open(w) \/ Save(w) \/ Store(w) \/ Link(w)
FeederStep    == FeederBreak \/ FeederDone \/ Return \/ \E w \in Workers : Hand(w)

\* The call is over: the only stop the system may come to.
Terminated == feeder = "returned" /\ UNCHANGED vars

Next == FeederStep \/ Terminated \/ \E w \in Workers : LocalStep(w) \/ RemoteStep(w)

Spec == Init /\ [][Next]_vars

(* The scheduler runs every goroutine that can go on.  A remote call has   *)
(* no deadline (http.DefaultClient), so it need not end, unless the        *)
(* context it runs under is cancelled.                                     *)
Fairness ==
    /\ WF_vars(FeederStep)
    /\ \A w \in Workers : WF_vars(LocalStep(w)) /\ WF_vars(cancelled /\ RemoteStep(w))

FairSpec == Spec /\ Fairness

-----------------------------------------------------------------------------
TypeOK ==
    /\ feeder \in {"feeding", "waiting", "returned"}
    /\ next \in 1..(N + 1)
    /\ pc \in [Workers -> Spots]
    /\ file \in [Workers -> 0..N]
    /\ attempt \in [Workers -> 0..MaxAttempts]
    /\ err \in [Workers -> Kinds \union {"none"}]
    /\ errCh \in Kinds \union {"none"}
    /\ cancelled \in BOOLEAN
    /\ result \in Kinds \union {"none", "nil"}
    /\ filled \in SUBSET Files
    /\ disk \in [Paths -> SUBSET Files]
    /\ keyed \in SUBSET Files
    /\ stored \in SUBSET Files
    /\ linked \in SUBSET Files

Busy(w) == pc[w] \notin {"idle", "done"}

(* The merge starts only when downloadDriveInputs returned nil, and then   *)
(* every input is set: no index was dropped between the feeder, a worker   *)
(* that left and the closing of the channel.                               *)
NilMeansComplete == result = "nil" => filled = Files

(* The message stored with a failed job is the first failure, never the    *)
(* "context canceled" that failure caused in the other workers: a worker   *)
(* offers its error before it cancels.                                     *)
RootCauseReported == errCh # "canceled" /\ result # "canceled"

(* inputs is written without a lock: no two workers ever hold the same     *)
(* index, nor one whose entry is already set.                              *)
SlotHasOneWriter ==
    \A w \in Workers : Busy(w) =>
        /\ file[w] \notin filled
        /\ \A v \in Workers \ {w} : Busy(v) => file[v] # file[w]

(* A row that names a source-cache object this job put there names one     *)
(* that exists: the object is uploaded before its key is saved.            *)
LinkBacked == linked \ keyed \subseteq stored

(* When the merge starts, the path of every input holds that input's bytes *)
(* and no other's.                                                         *)
OwnContent == result = "nil" => \A f \in Files : disk[MergePath[f]] = {f}

(* drive.go says of DownloadFile that it streams a shared file into the    *)
(* merge workspace "without persisting source files".                      *)
SourcesNotPersisted == stored \subseteq keyed

(* A failure drains the pool: once the context is cancelled, the call      *)
(* returns, whatever the remote services do.                               *)
CancelDrains == cancelled ~> feeder = "returned"

(* The call returns unless some worker hangs for ever in a remote call:    *)
(* nothing else (the rendezvous, the full error channel, the workers that  *)
(* left) can block it.                                                     *)
ReturnsUnlessHung ==
    \/ <>(feeder = "returned")
    \/ \E w \in Workers : <>[](pc[w] \in {"open", "save", "store", "link"})

-----------------------------------------------------------------------------
(* The pool implements the contract processDriveMerge relies on.           *)
verdict == CASE result = "none" -> "running"
             [] result = "nil"  -> "ok"
             [] OTHER           -> "failed"

Contract == INSTANCE FetchContract WITH got <- filled

ImplementsContract == Contract!Spec
=============================================================================
