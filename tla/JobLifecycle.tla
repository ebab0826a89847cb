---------------------------- MODULE JobLifecycle ----------------------------
(***************************************************************************)
(* Merge jobs from submission to deletion: the handlers that create,       *)
(* retry, download and delete jobs, the goroutine that runs each job       *)
(* (processDriveMerge or processUploadMerge, then finishMergeJob), the     *)
(* jobs table and the merged object of each job in MinIO.                  *)
(*                                                                         *)
(* A handler and a pipeline are cut at their database and object-store     *)
(* calls.  Any such call can fail without effect, or take effect and have  *)
(* its answer lost.  The process can die and restart: goroutines vanish,   *)
(* the database and the object store stay, nothing is resumed.             *)
(***************************************************************************)
EXTENDS Naturals

CONSTANTS
    MaxJobs,        \* bound: number of jobs ever created
    Requests,       \* bound: handlers of existing jobs running at a time
    MaxRestarts,    \* bound: number of process restarts
    Faults          \* which of AllFaults the environment may show

AllFaults == {"lost", "hang"}   \* a call that fails; a call that never ends
Jobs  == 1..MaxJobs
Kinds == {"drive", "upload"}    \* source_type

ASSUME BoundsAssumption == MaxJobs \in Nat /\ MaxRestarts \in Nat
ASSUME FaultsAssumption == Faults \subseteq AllFaults

VARIABLES
    row,        \* the jobs table: current_stage, and whether output_object_key
                \* is set (in a deleted row: as its deleter had read it)
    kind,       \* source_type of a job
    object,     \* the merged object of a job is in the object store
    pipe,       \* where the job's goroutine is
    req,        \* the handler in each slot: its next call and its job
    created,    \* number of jobs created
    restarts,   \* number of restarts so far
    scrubbed,   \* history: a delete handler has removed the merged object
    excused     \* history: a fault kept the outcome from being recorded

vars == <<row, kind, object, pipe, req, created, restarts, scrubbed, excused>>

Stages == {"absent", "queued", "downloading", "merging", "uploading",
           "completed", "failed", "deleted"}
Live   == {"start", "pool", "merging", "subprocess", "reload", "uploading",
           "upload", "complete", "fail"}
Spots  == Live \union {"none", "hung", "done"}
Calls  == {"idle", "scrub", "unlink", "serve", "retry"}
Idle   == [call |-> "idle", job |-> 0, key |-> FALSE]

(* A stage determines the status: queued is pending, the next three are    *)
(* running.                                                                *)
Active == {"queued", "downloading", "merging", "uploading"}

Exists(j) == row[j].stage \notin {"absent", "deleted"}

Init ==
    /\ row = [j \in Jobs |-> [stage |-> "absent", key |-> FALSE]]
    /\ kind = [j \in Jobs |-> "drive"]
    /\ object = [j \in Jobs |-> FALSE]
    /\ pipe = [j \in Jobs |-> "none"]
    /\ req = [r \in Requests |-> Idle]
    /\ created = 0
    /\ restarts = 0
    /\ scrubbed = [j \in Jobs |-> FALSE]
    /\ excused = [j \in Jobs |-> FALSE]

-----------------------------------------------------------------------------
(* Calls.  An UPDATE of a missing row succeeds and changes nothing.        *)

Put(j, stage, key) ==
    row' = IF Exists(j) THEN [row EXCEPT ![j] = [stage |-> stage, key |-> key]]
                        ELSE row

Lost == "lost" \in Faults

\* UpdateJobState, whose error the pipeline ignores.
UpdateJobState(j, stage) ==
    \/ Put(j, stage, row[j].key)
    \/ Lost /\ UNCHANGED row

Goto(j, spot) == pipe' = [pipe EXCEPT ![j] = spot]

\* CreateJob in a transaction, then go process...: the commit may go through
\* and still be reported as an error, and then nobody runs the job.
CreateJob(k) ==
    LET j == created + 1
    IN  /\ j \in Jobs
        /\ created' = j
        /\ row' = [row EXCEPT ![j] = [stage |-> "queued", key |-> FALSE]]
        /\ kind' = [kind EXCEPT ![j] = k]
        /\ \/ Goto(j, "start") /\ UNCHANGED excused
           \/ Lost /\ excused' = [excused EXCEPT ![j] = TRUE] /\ UNCHANGED pipe

-----------------------------------------------------------------------------
(* The pipeline of a job.                                                  *)
others == <<kind, req, created, restarts, scrubbed>>

\* processDriveMerge up to downloadDriveInputs, or processUploadMerge.
Start(j) ==
    /\ pipe[j] = "start"
    /\ \/ /\ kind[j] = "drive"
          /\ UpdateJobState(j, "downloading")
          /\ Goto(j, "pool")
       \/ /\ kind[j] = "upload"
          /\ UpdateJobState(j, "merging")
          /\ Goto(j, "merging")
       \/ /\ kind[j] = "drive" /\ Goto(j, "fail") /\ UNCHANGED row
    /\ UNCHANGED <<object, excused, others>>

\* Mutant: a worker outlives downloadDriveInputs.
ReportProgressLate(j) ==
    /\ pipe[j] \in {"pool", "merging", "subprocess"}
    /\ UpdateJobState(j, "downloading")
    /\ UNCHANGED <<object, pipe, excused, others>>

\* updateDownloadState, by any worker while downloadDriveInputs runs.
ReportProgress(j) ==
    /\ pipe[j] = "pool"
    /\ UpdateJobState(j, "downloading")
    /\ UNCHANGED <<object, pipe, excused, others>>

\* Mutant: the error of the downloads is not recorded.
PoolReturnsSilently(j) ==
    /\ pipe[j] = "pool"
    /\ \E spot \in {"merging", "done"} : Goto(j, spot)
    /\ UNCHANGED <<row, object, excused, others>>

PoolReturns(j) ==
    /\ pipe[j] = "pool"
    /\ \E spot \in {"merging", "fail"} : Goto(j, spot)
    /\ UNCHANGED <<row, object, excused, others>>

\* finishMergeJob.
AnnounceMerge(j) ==
    /\ pipe[j] = "merging"
    /\ UpdateJobState(j, "merging")
    /\ Goto(j, "subprocess")
    /\ UNCHANGED <<object, excused, others>>

RunMergeSubprocess(j) ==
    /\ pipe[j] = "subprocess"
    /\ \E spot \in {"reload", "fail"} : Goto(j, spot)
    /\ UNCHANGED <<row, object, excused, others>>

\* Opening the output, and GetJob for the user id of the object key.
Reload(j) ==
    /\ pipe[j] = "reload"
    /\ \/ Exists(j) /\ Goto(j, "uploading")
       \/ Goto(j, "fail")
    /\ UNCHANGED <<row, object, excused, others>>

AnnounceUpload(j) ==
    /\ pipe[j] = "uploading"
    /\ UpdateJobState(j, "uploading")
    /\ Goto(j, "upload")
    /\ UNCHANGED <<object, excused, others>>

\* Mutant: the error of the upload is ignored.
UploadUnchecked(j) ==
    /\ pipe[j] = "upload"
    /\ object' \in {object, [object EXCEPT ![j] = TRUE]}
    /\ Goto(j, "complete")
    /\ UNCHANGED <<row, excused, others>>

Upload(j) ==
    /\ pipe[j] = "upload"
    /\ \/ /\ object' = [object EXCEPT ![j] = TRUE]
          /\ Goto(j, "complete")
       \/ /\ Lost
          /\ object' \in {object, [object EXCEPT ![j] = TRUE]}
          /\ Goto(j, "fail")
    /\ UNCHANGED <<row, excused, others>>

CompleteJob(j) ==
    /\ pipe[j] = "complete"
    /\ \/ Put(j, "completed", TRUE) /\ Goto(j, "done")
       \/ Lost /\ Put(j, "completed", TRUE) /\ Goto(j, "fail")
       \/ Lost /\ UNCHANGED row /\ Goto(j, "fail")
    /\ UNCHANGED <<object, excused, others>>

\* Mutant: FailJob writes a stage the schema does not know.
FailJobMisspelt(j) ==
    /\ pipe[j] = "fail"
    /\ Goto(j, "done")
    /\ Put(j, "error", row[j].key)
    /\ UNCHANGED <<object, excused, others>>

\* failJob only logs the error of FailJob, which leaves the key alone.
FailJob(j) ==
    /\ pipe[j] = "fail"
    /\ Goto(j, "done")
    /\ \/ Put(j, "failed", row[j].key) /\ UNCHANGED excused
       \/ Lost /\ UNCHANGED row /\ excused' = [excused EXCEPT ![j] = TRUE]
    /\ UNCHANGED <<object, others>>

\* A remote call or the subprocess never returns: none has a deadline.
Hang(j) ==
    /\ "hang" \in Faults
    /\ pipe[j] \in Live
    /\ Goto(j, "hung")
    /\ excused' = [excused EXCEPT ![j] = TRUE]
    /\ UNCHANGED <<row, object, others>>

Step(j) ==
    \/ Start(j) \/ PoolReturns(j) \/ AnnounceMerge(j) \/ RunMergeSubprocess(j)
    \/ Reload(j) \/ AnnounceUpload(j) \/ Upload(j) \/ CompleteJob(j) \/ FailJob(j)

-----------------------------------------------------------------------------
(* The handlers.                                                           *)
data == <<row, kind, object, pipe, created, scrubbed, excused>>

\* handleDriveMerge and handleUploadMerge, at their CreateJob.
Submit(k) ==
    /\ CreateJob(k)
    /\ UNCHANGED <<object, req, restarts, scrubbed>>

Call(r, call, j) == req' = [req EXCEPT ![r] = [call |-> call, job |-> j, key |-> row[j].key]]
Answer(r)        == req' = [req EXCEPT ![r] = Idle]

\* The GetJob every handler of a job starts with.
ReadForDelete(r, j) ==
    /\ req[r].call = "idle"
    /\ Exists(j)
    /\ Call(r, IF row[j].key THEN "scrub" ELSE "unlink", j)
    /\ UNCHANGED <<data, restarts>>

ReadForDownload(r, j) ==
    /\ req[r].call = "idle"
    /\ row[j].stage = "completed" /\ row[j].key
    /\ Call(r, "serve", j)
    /\ UNCHANGED <<data, restarts>>

\* Only the source type is looked at: a job may be retried in any status.
ReadForRetry(r, j) ==
    /\ req[r].call = "idle"
    /\ Exists(j) /\ kind[j] = "drive"
    /\ Call(r, "retry", j)
    /\ UNCHANGED <<data, restarts>>

\* storage.Delete; its failure ends the request, done or not.
Scrub(r) ==
    LET j == req[r].job
    IN  /\ req[r].call = "scrub"
        /\ object' = [object EXCEPT ![j] = FALSE]
        /\ scrubbed' = [scrubbed EXCEPT ![j] = TRUE]
        /\ \/ req' = [req EXCEPT ![r].call = "unlink"]
           \/ Lost /\ Answer(r)
        /\ UNCHANGED <<row, kind, pipe, created, restarts, excused>>

\* Mutant: the error of storage.Delete is only logged.
ScrubFailsQuietly(r) ==
    /\ req[r].call = "scrub"
    /\ Lost
    /\ req' = [req EXCEPT ![r].call = "unlink"]
    /\ UNCHANGED <<data, restarts>>

ScrubFails(r) ==
    /\ req[r].call = "scrub"
    /\ Lost
    /\ Answer(r)
    /\ UNCHANGED <<data, restarts>>

\* repo.DeleteJob: the row and its files in one transaction.
Unlink(r) ==
    /\ req[r].call = "unlink"
    /\ \/ Put(req[r].job, "deleted", req[r].key)
       \/ Lost /\ UNCHANGED row
    /\ Answer(r)
    /\ UNCHANGED <<kind, object, pipe, created, restarts, scrubbed, excused>>

Serve(r) ==
    /\ req[r].call = "serve"
    /\ Answer(r)
    /\ UNCHANGED <<data, restarts>>

Retry(r) ==
    /\ req[r].call = "retry"
    /\ \/ CreateJob("drive")
       \/ Lost /\ UNCHANGED <<row, kind, pipe, created, excused>>
    /\ Answer(r)
    /\ UNCHANGED <<object, restarts, scrubbed>>

Handle(r) ==
    \/ Scrub(r) \/ ScrubFails(r) \/ Unlink(r) \/ Serve(r) \/ Retry(r)
    \/ \E j \in Jobs : ReadForDelete(r, j) \/ ReadForDownload(r, j) \/ ReadForRetry(r, j)

-----------------------------------------------------------------------------
\* The process dies and is started again: main recovers no job.
Restart ==
    /\ restarts < MaxRestarts
    /\ restarts' = restarts + 1
    /\ pipe' = [j \in Jobs |-> IF pipe[j] \in {"none", "done"} THEN pipe[j] ELSE "done"]
    /\ excused' = [j \in Jobs |-> excused[j] \/ pipe[j] \in Live]
    /\ req' = [r \in Requests |-> Idle]
    /\ UNCHANGED <<row, kind, object, created, scrubbed>>

Next ==
    \/ \E j \in Jobs : Step(j) \/ ReportProgress(j) \/ Hang(j)
    \/ \E k \in Kinds : Submit(k)
    \/ \E r \in Requests : Handle(r)
    \/ Restart

Spec == Init /\ [][Next]_vars

(* A goroutine that can go on does; the progress reports are finitely many *)
(* and hold nothing up.                                                    *)
FairSpec == Spec /\ \A j \in Jobs : WF_vars(Step(j))

-----------------------------------------------------------------------------
TypeOK ==
    /\ row \in [Jobs -> [stage : Stages, key : BOOLEAN]]
    /\ kind \in [Jobs -> Kinds]
    /\ object \in [Jobs -> BOOLEAN]
    /\ pipe \in [Jobs -> Spots]
    /\ req \in [Requests -> [call : Calls, job : Jobs \union {0}, key : BOOLEAN]]
    /\ created \in 0..MaxJobs
    /\ restarts \in 0..MaxRestarts
    /\ scrubbed \in [Jobs -> BOOLEAN]
    /\ excused \in [Jobs -> BOOLEAN]

(* A job is shown completed only with its merged object stored and its key *)
(* in the row, unless a delete has already removed the object: the upload  *)
(* comes before CompleteJob, and nothing writes the row over afterwards.   *)
CompletedHasOutput ==
    \A j \in Jobs : row[j].stage = "completed" =>
        row[j].key /\ (object[j] \/ scrubbed[j])

(* A download that found its job ready misses the object only because a    *)
(* delete got in between.                                                  *)
DownloadMissesOnlyDeleted ==
    \A r \in Requests : req[r].call = "serve" =>
        object[req[r].job] \/ scrubbed[req[r].job]

(* A delete that knows the object's key removes the object before the row, *)
(* so no failure in between loses the only record of the key.              *)
ScrubBeforeUnlink ==
    \A j \in Jobs : row[j].stage = "deleted" /\ row[j].key => ~object[j]

Rank(stage) == CASE stage = "absent"      -> 0
                 [] stage = "queued"      -> 1
                 [] stage = "downloading" -> 2
                 [] stage = "merging"     -> 3
                 [] stage = "uploading"   -> 4
                 [] stage = "completed"   -> 5
                 [] stage = "failed"      -> 6
                 [] stage = "deleted"     -> 7

(* What a client polls never goes back: no late progress report, no second *)
(* writer, no retry and no restart moves a job to an earlier stage.        *)
StageNeverGoesBack ==
    [][\A j \in Jobs : Rank(row[j].stage) <= Rank(row'[j].stage)]_vars

(* Every accepted job comes to an end, unless a call of it hung, the       *)
(* process died under it, or a failed call kept its creation or its last   *)
(* write from being noticed.                                               *)
Settles ==
    \A j \in Jobs : row[j].stage \in Active ~>
        row[j].stage \notin Active \/ excused[j]

(* storage.Delete "supports per-user history cleanup by removing the       *)
(* persisted merged object": once a job is deleted and its goroutine is    *)
(* over, its merged object is gone.                                        *)
DeleteRemovesOutput ==
    \A j \in Jobs : row[j].stage = "deleted" /\ pipe[j] = "done" => ~object[j]

(* FailJob is there "so waiting users can see why background processing    *)
(* stopped": no job is shown as active for ever.                           *)
NobodyWaitsForEver ==
    \A j \in Jobs : row[j].stage \in Active ~> row[j].stage \notin Active

-----------------------------------------------------------------------------
(* The jobs implement what a client of the API relies on.                  *)
statusOf(j) == CASE row[j].stage = "queued" -> "pending"
                 [] row[j].stage \in Active \ {"queued"} -> "running"
                 [] OTHER -> row[j].stage

served(j) == row[j].stage = "completed" /\ row[j].key /\ object[j]

Client == INSTANCE JobContract WITH
              status <- [j \in Jobs |-> statusOf(j)],
              ready <- {j \in Jobs : served(j)}

ImplementsContract == Client!Spec
=============================================================================
