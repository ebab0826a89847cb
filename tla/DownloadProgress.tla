-------------------------- MODULE DownloadProgress --------------------------
(***************************************************************************)
(* What a Drive job reports while it downloads.  The workers of the pool   *)
(* count bytes in memory, under a mutex, and then write the figure to the  *)
(* row of the job, outside it.  GET /api/jobs/{id} reads the row first and *)
(* then the counters.                                                      *)
(*                                                                         *)
(* The pool is DownloadPool with the cancellation reduced to what changes  *)
(* a counter.  A write to the row may fail: its error is ignored.          *)
(***************************************************************************)
EXTENDS Integers, Functions

CONSTANTS
    N,              \* number of files
    Workers,        \* workers of the pool
    MaxAttempts,    \* Drive attempts per file
    Length,         \* bytes a file really has
    Sizes,          \* what Drive may have said of that: 0 when it said nothing
    NoWrite,        \* no figure waits to be written
    Faults          \* {"lost"}: a write to the row may fail; {}: none does

Files == 1..N

ASSUME CountAssumption == N \in Nat \ {0} /\ MaxAttempts \in Nat \ {0} /\ Workers # {}
ASSUME SizeAssumption  == Length \in [Files -> Nat \ {0}] /\ Sizes \subseteq [Files -> Nat]
ASSUME WriteAssumption == NoWrite \notin Nat

VARIABLES
    pc,         \* where processDriveMerge is
    row,        \* the row of the job
    size,       \* the sizes of the preview
    restorable, \* files whose bytes the source cache may have
    todo,       \* next file to hand out
    failed,     \* a worker failed: the context is cancelled
    at,         \* where a worker is with its file
    file,       \* its file
    attempt,    \* 0: restore from the source cache
    got,        \* bytes copied in this attempt
    write,      \* the figure it has computed and not yet written
    kept,       \* downloadState has an entry for the job
    bytes,      \* fileBytes
    status,     \* fileStatus
    last,       \* lastReportedPercent
    view,       \* a handler of GET /api/jobs/{id}
    arrived     \* history: files of which every byte has arrived

vars == <<pc, row, size, restorable, todo, failed, at, file, attempt, got, write, kept, bytes,
          status, last, view, arrived>>
counters == <<kept, bytes, status, last>>
given    == <<size, restorable>>
work     == <<todo, failed, at, file, attempt, got>>

Unseen == [at |-> "idle", shown |-> {}]

Init ==
    /\ pc = "queued"
    /\ row = [stage |-> "queued", percent |-> 5]
    /\ size \in Sizes
    /\ restorable \in SUBSET Files
    /\ todo = 1
    /\ failed = FALSE
    /\ at = [w \in Workers |-> "idle"]
    /\ file = [w \in Workers |-> 0]
    /\ attempt = [w \in Workers |-> 0]
    /\ got = [w \in Workers |-> 0]
    /\ write = [w \in Workers |-> NoWrite]
    /\ kept = FALSE
    /\ bytes = [f \in Files |-> 0]
    /\ status = [f \in Files |-> "pending"]
    /\ last = -1
    /\ view = Unseen
    /\ arrived = {}

-----------------------------------------------------------------------------
(* The counters.                                                           *)

\* Mutant: more bytes than were announced take the figure beyond its share.
PercentUnbounded(b) ==
    IF SumFunction(size) = 0 THEN 10 ELSE 10 + (SumFunction(b) * 60) \div SumFunction(size)

Percent(b) ==
    LET percent == IF SumFunction(size) = 0 THEN 10
                   ELSE 10 + (SumFunction(b) * 60) \div SumFunction(size)
    IN  IF percent > 70 THEN 70 ELSE percent

\* updateDownloadState under the mutex: a figure that has not changed is
\* reported only if the last report is half a second old.
Update(w, b, s) ==
    LET now == [bytes EXCEPT ![file[w]] = b]
    IN  IF kept
        THEN /\ bytes' = now
             /\ status' = [status EXCEPT ![file[w]] = s]
             /\ \/ /\ last' = Percent(now)
                   /\ write' = [write EXCEPT ![w] = Percent(now)]
                \/ /\ last = Percent(now)
                   /\ last # 70
                   /\ UNCHANGED <<last, write>>
             /\ UNCHANGED kept
        ELSE UNCHANGED <<counters, write>>

\* UpdateJobState, CompleteJob, FailJob.
SetRow(stage, percent) ==
    \/ row' = [stage |-> stage, percent |-> percent]
    \/ "lost" \in Faults /\ UNCHANGED row

\* ... and then UpdateJobState outside it, before the worker goes on.
Write(w) ==
    /\ write[w] # NoWrite
    /\ SetRow("downloading", write[w])
    /\ write' = [write EXCEPT ![w] = NoWrite]
    /\ UNCHANGED <<pc, given, work, counters, view, arrived>>

-----------------------------------------------------------------------------
(* A worker: downloadSingleDriveFile and restoreDriveFileFromCache.        *)

At(w, spot) == at[w] = spot /\ write[w] = NoWrite

Move(w, spot) == at' = [at EXCEPT ![w] = spot]

Take(w) ==
    /\ pc = "pool"
    /\ At(w, "idle")
    /\ todo \in Files
    /\ todo' = todo + 1
    /\ file' = [file EXCEPT ![w] = todo]
    /\ attempt' = [attempt EXCEPT ![w] = IF todo \in restorable THEN 0 ELSE 1]
    /\ Move(w, IF todo \in restorable THEN "open" ELSE "start")
    /\ UNCHANGED <<pc, row, given, failed, got, write, counters, view, arrived>>

\* The channel is closed, which a failure may bring forward.
Leave(w) ==
    /\ pc = "pool"
    /\ At(w, "idle")
    /\ todo \notin Files \/ failed
    /\ Move(w, "done")
    /\ UNCHANGED <<pc, row, given, todo, failed, file, attempt, got, write, counters, view, arrived>>

GiveUp(w) ==
    /\ failed' = TRUE
    /\ Move(w, "done")
    /\ UNCHANGED attempt

TryAgain(w) ==
    IF attempt[w] = MaxAttempts
    THEN GiveUp(w)
    ELSE /\ attempt' = [attempt EXCEPT ![w] = @ + 1]
         /\ Move(w, "start")
         /\ UNCHANGED failed

\* The head of a Drive attempt: ctx.Err(), then the file counts from zero.
Start(w) ==
    /\ At(w, "start")
    /\ \/ /\ failed
          /\ GiveUp(w)
          /\ UNCHANGED <<counters, write>>
       \/ /\ ~failed
          /\ Update(w, 0, "downloading")
          /\ Move(w, "open")
          /\ UNCHANGED <<failed, attempt>>
    /\ UNCHANGED <<pc, row, given, todo, file, got, view, arrived>>

Open(w) ==
    /\ At(w, "open")
    /\ got' = [got EXCEPT ![w] = 0]
    /\ \/ Move(w, "copy") /\ UNCHANGED <<failed, attempt>>
       \/ TryAgain(w)
    /\ UNCHANGED <<pc, row, given, todo, file, write, counters, view, arrived>>

\* progressReader reports after every read.
Copy(w) ==
    /\ At(w, "copy")
    /\ got[w] < Length[file[w]]
    /\ got' = [got EXCEPT ![w] = @ + 1]
    /\ Update(w, got[w] + 1, "downloading")
    /\ arrived' = IF got[w] + 1 = Length[file[w]] THEN arrived \union {file[w]} ELSE arrived
    /\ UNCHANGED <<pc, row, given, todo, failed, at, file, attempt, view>>

\* A failed restore leaves its counter to the attempt that follows.
CopyFails(w) ==
    /\ At(w, "copy")
    /\ IF attempt[w] = 0 THEN UNCHANGED <<counters, write>> ELSE Update(w, 0, "pending")
    /\ Move(w, "again")
    /\ UNCHANGED <<pc, row, given, todo, failed, file, attempt, got, view, arrived>>

Again(w) ==
    /\ At(w, "again")
    /\ TryAgain(w)
    /\ UNCHANGED <<pc, row, given, todo, file, got, write, counters, view, arrived>>

\* Mutant: only a download reports its end, a restore does not.
SavedFromDrive(w) ==
    /\ At(w, "copy")
    /\ got[w] = Length[file[w]]
    /\ IF attempt[w] = 0 THEN UNCHANGED <<counters, write>> ELSE Update(w, got[w], "downloaded")
    /\ Move(w, "prepare")
    /\ UNCHANGED <<pc, row, given, todo, failed, file, attempt, got, view, arrived>>

Saved(w) ==
    /\ At(w, "copy")
    /\ got[w] = Length[file[w]]
    /\ Update(w, got[w], "downloaded")
    /\ Move(w, "prepare")
    /\ UNCHANGED <<pc, row, given, todo, failed, file, attempt, got, view, arrived>>

\* NormalizeUploadInput: its failure ends a restore, or the job.
Prepare(w) ==
    /\ At(w, "prepare")
    /\ \/ Move(w, "idle") /\ UNCHANGED <<failed, attempt>>
       \/ IF attempt[w] = 0 THEN TryAgain(w) ELSE GiveUp(w)
    /\ UNCHANGED <<pc, row, given, todo, file, got, write, counters, view, arrived>>

Work(w) ==
    \/ Take(w) \/ Leave(w) \/ Start(w) \/ Open(w) \/ Copy(w) \/ CopyFails(w) \/ Again(w)
    \/ Saved(w) \/ Prepare(w) \/ Write(w)

-----------------------------------------------------------------------------
(* The goroutine: processDriveMerge and finishMergeJob.                    *)

GoTo(next) == pc' \in next /\ UNCHANGED <<given, work, write, view, arrived>>

\* initDownloadState, unless there is no work directory.
Begin ==
    /\ pc = "queued"
    /\ \/ GoTo({"failing"}) /\ UNCHANGED counters
       \/ /\ GoTo({"announce"})
          /\ kept' = TRUE
          /\ UNCHANGED <<bytes, status, last>>
    /\ UNCHANGED row

\* A write to the row: the error of UpdateJobState is ignored.  FailJob
\* writes one of several figures.
Tell(spot, stage, percent, next) ==
    /\ pc = spot
    /\ SetRow(stage, percent)
    /\ GoTo(next)
    /\ UNCHANGED counters

Return ==
    /\ pc = "pool"
    /\ \A w \in Workers : at[w] = "done"
    /\ GoTo(IF failed THEN {"failing"} ELSE {"merging"})
    /\ UNCHANGED <<row, counters>>

\* The deferred clearDownloadState.
Clear ==
    /\ pc = "clear"
    /\ kept' = FALSE
    /\ GoTo({"over"})
    /\ UNCHANGED <<row, bytes, status, last>>

Process ==
    \/ Begin
    \/ Tell("announce", "downloading", 10, {"pool"})
    \/ Return
    \/ Tell("merging", "merging", 75, {"uploading", "failing"})
    \/ Tell("uploading", "uploading", 90, {"completing", "failing"})
    \/ Tell("completing", "completed", 100, {"clear", "failing"})
    \/ Tell("failing", "failed", 10, {"clear"})
    \/ Clear

-----------------------------------------------------------------------------
(* GET /api/jobs/{id}: the row, then what downloadState has.               *)

See(spot, shown) ==
    /\ view' = [at |-> spot, shown |-> shown]
    /\ UNCHANGED <<pc, row, given, work, write, counters, arrived>>

\* Mutant: a job that failed shows its files like one that completed.
ReadRowEnded ==
    /\ view.at = "idle"
    /\ IF row.stage \in {"completed", "failed", "merging", "uploading"}
       THEN See("answered", Files)
       ELSE See("peek", {})

ReadRow ==
    /\ view.at = "idle"
    /\ IF row.stage \in {"completed", "merging", "uploading"}
       THEN See("answered", Files)
       ELSE See("peek", {})

\* The entry is looked up under one lock and read under another: it may be
\* out of the map by then.
Peek == view.at = "peek" /\ See(IF kept THEN "look" ELSE "answered", {})
Look == view.at = "look" /\ See("answered", {f \in Files : status[f] = "downloaded"})
Done == view.at = "answered" /\ See("idle", {})

View == ReadRow \/ Peek \/ Look \/ Done

-----------------------------------------------------------------------------
Next == Process \/ View \/ \E w \in Workers : Work(w)

Spec == Init /\ [][Next]_vars

-----------------------------------------------------------------------------
TypeOK ==
    /\ pc \in {"queued", "announce", "pool", "merging", "uploading", "completing", "failing", "clear", "over"}
    /\ row \in [stage : {"queued", "downloading", "merging", "uploading", "completed", "failed"},
                percent : 0..100]
    /\ size \in Sizes
    /\ restorable \subseteq Files
    /\ todo \in 1..N + 1
    /\ failed \in BOOLEAN
    /\ at \in [Workers -> {"idle", "start", "open", "copy", "again", "prepare", "done"}]
    /\ file \in [Workers -> 0..N]
    /\ attempt \in [Workers -> 0..MaxAttempts]
    /\ got \in [Workers -> Nat]
    /\ write \in [Workers -> 10..70 \union {NoWrite}]
    /\ kept \in BOOLEAN
    /\ bytes \in [Files -> Nat]
    /\ status \in [Files -> {"pending", "downloading", "downloaded"}]
    /\ last \in {-1} \union 10..70
    /\ view \in [at : {"idle", "peek", "look", "answered"}, shown : SUBSET Files]
    /\ arrived \subseteq Files

(* An answer shows a file as downloaded only if all of it has arrived,     *)
(* though the row and the counters are read one after the other while the  *)
(* job goes on, fails, or ends and clears its counters.                    *)
ShownDownloadedIsTrue == view.at = "answered" => view.shown \subseteq arrived

(* A download takes the bar from 10 to 70 and no further, whatever Drive   *)
(* said of the sizes; if that was true, 70 means that every byte is there, *)
(* restores and retries of a file being counted once.                      *)
PercentFits ==
    row.stage = "downloading" =>
        /\ row.percent \in 10..70
        /\ size = Length /\ row.percent = 70 => arrived = Files

(* When the pool returns without an error, every file is shown as          *)
(* downloaded, by whichever of its attempts that was.                      *)
NilShowsAll ==
    pc \in {"merging", "uploading", "completing"} => \A f \in Files : status[f] = "downloaded"

(* While no figure waits to be written, the row has the last one.          *)
RowCatchesUp ==
    pc = "pool" /\ last # -1 /\ (\A w \in Workers : write[w] = NoWrite) => row.percent = last
=============================================================================
