------------------------- MODULE JobLifecycleProofs -------------------------
(***************************************************************************)
(* Proofs about JobLifecycle for any number of jobs, handlers and restarts *)
(* and any set of faults.                                                  *)
(***************************************************************************)
EXTENDS JobLifecycle, TLAPS

(* Jobs are created in order; nothing refers to one not yet created.       *)
Numbered ==
    /\ \A j \in Jobs : j > created => row[j].stage = "absent" /\ pipe[j] = "none"
    /\ \A r \in Requests : req[r].call # "idle" => req[r].job \in 1..created
    /\ \A r \in Requests : req[r].call = "idle" => ~req[r].key

(* The key is out, in the row or in a handler's copy of it, only once the  *)
(* pipeline is past CompleteJob.                                           *)
KeyOut(j) == row[j].key \/ \E r \in Requests : req[r].job = j /\ req[r].key

KeyLast == \A j \in Jobs : KeyOut(j) => pipe[j] \in {"fail", "hung", "done"}

(* What a row, a pipeline and a handler that know the object know of it.   *)
RowKnows(j) ==
    /\ pipe[j] = "complete" => object[j]
    /\ row[j].stage = "completed" => row[j].key
    /\ row[j].key /\ Exists(j) => object[j] \/ scrubbed[j]
    /\ row[j].key /\ ~Exists(j) => ~object[j]

CallKnows(r) ==
    /\ req[r].call = "scrub" => req[r].key
    /\ req[r].call = "unlink" /\ req[r].key => ~object[req[r].job]
    /\ req[r].call = "serve" => object[req[r].job] \/ scrubbed[req[r].job]

Outputs == (\A j \in Jobs : RowKnows(j)) /\ (\A r \in Requests : CallKnows(r))

(* How far a row can be when its pipeline is at a given spot.              *)
Reached(spot) ==
    CASE spot = "start" -> {"queued"}
      [] spot = "pool"  -> {"queued", "downloading"}
      [] spot \in {"merging", "subprocess", "reload", "uploading"} ->
            {"queued", "downloading", "merging"}
      [] spot \in {"upload", "complete"} -> Active
      [] spot = "fail"  -> Active \union {"completed"}
      [] OTHER -> Stages

InStep == \A j \in Jobs : Exists(j) => row[j].stage \in Reached(pipe[j])

IInv == TypeOK /\ Numbered /\ KeyLast /\ Outputs /\ InStep

-----------------------------------------------------------------------------

(* An UPDATE touches the row it names and nothing else.                    *)
LEMMA PutEffect ==
    ASSUME TypeOK, NEW i \in Jobs, NEW stage \in Stages, NEW key \in BOOLEAN,
           Put(i, stage, key)
    PROVE  /\ row' \in [Jobs -> [stage : Stages, key : BOOLEAN]]
           /\ \A j \in Jobs \ {i} : row'[j] = row[j]
           /\ ~Exists(i) => row'[i] = row[i]
           /\ Exists(i) => row'[i] = [stage |-> stage, key |-> key]
BY DEF TypeOK, Put, Exists

(* UpdateJobState moves the stage of one row, or nothing.                  *)
LEMMA UpdateEffect ==
    ASSUME TypeOK, NEW i \in Jobs, NEW stage \in Stages, UpdateJobState(i, stage)
    PROVE  /\ row' \in [Jobs -> [stage : Stages, key : BOOLEAN]]
           /\ \A j \in Jobs \ {i} : row'[j] = row[j]
           /\ row'[i].key = row[i].key
           /\ row'[i] = row[i] \/ (Exists(i) /\ row'[i].stage = stage)
<1>1. row[i].key \in BOOLEAN
  BY DEF TypeOK
<1>2. CASE Put(i, stage, row[i].key)
  <2>1. /\ row' \in [Jobs -> [stage : Stages, key : BOOLEAN]]
        /\ \A j \in Jobs \ {i} : row'[j] = row[j]
        /\ ~Exists(i) => row'[i] = row[i]
        /\ Exists(i) => row'[i] = [stage |-> stage, key |-> row[i].key]
    BY <1>1, <1>2, PutEffect
  <2> QED
    BY <2>1
<1>3. CASE UNCHANGED row
  <2>1. row' = row
    BY <1>3
  <2> QED
    BY <2>1 DEF TypeOK
<1> QED
  BY <1>2, <1>3 DEF UpdateJobState

(* CreateJob adds one queued row.                                          *)
LEMMA CreateEffect ==
    ASSUME TypeOK, NEW k \in Kinds, CreateJob(k)
    PROVE  /\ created' = created + 1 /\ created' \in Jobs
           /\ row' = [row EXCEPT ![created'] = [stage |-> "queued", key |-> FALSE]]
           /\ row' \in [Jobs -> [stage : Stages, key : BOOLEAN]]
           /\ kind' \in [Jobs -> Kinds]
           /\ \/ pipe' = [pipe EXCEPT ![created'] = "start"] /\ UNCHANGED excused
              \/ /\ excused' = [excused EXCEPT ![created'] = TRUE]
                 /\ UNCHANGED pipe
           /\ pipe' \in [Jobs -> Spots] /\ excused' \in [Jobs -> BOOLEAN]
<1> DEFINE c == created + 1
<1>1. c \in Jobs /\ created' = c
  BY DEF CreateJob
<1>2. row' = [row EXCEPT ![c] = [stage |-> "queued", key |-> FALSE]]
  BY DEF CreateJob
<1>3. row' \in [Jobs -> [stage : Stages, key : BOOLEAN]]
  BY <1>1, <1>2 DEF TypeOK, Stages
<1>4. kind' \in [Jobs -> Kinds]
  BY <1>1 DEF TypeOK, CreateJob
<1>5. \/ pipe' = [pipe EXCEPT ![c] = "start"] /\ UNCHANGED excused
      \/ excused' = [excused EXCEPT ![c] = TRUE] /\ UNCHANGED pipe
  BY DEF CreateJob, Goto
<1>6. pipe' \in [Jobs -> Spots] /\ excused' \in [Jobs -> BOOLEAN]
  BY <1>1, <1>5 DEF TypeOK, Spots, Live
<1> QED
  BY <1>1, <1>2, <1>3, <1>4, <1>5, <1>6

(* A handler's slot moves alone.                                           *)
LEMMA ScrubEffect ==
    ASSUME TypeOK, NEW r \in Requests, Scrub(r)
    PROVE  /\ req' \in [Requests -> [call : Calls, job : Jobs \union {0}, key : BOOLEAN]]
           /\ \A q \in Requests \ {r} : req'[q] = req[q]
           /\ \/ /\ req'[r].call = "unlink"
                 /\ req'[r].job = req[r].job
                 /\ req'[r].key = req[r].key
              \/ /\ req'[r].call = "idle"
                 /\ req'[r].job = 0
                 /\ req'[r].key = FALSE
<1> DEFINE unlink == [req EXCEPT ![r].call = "unlink"]
           T == [call : Calls, job : Jobs \union {0}, key : BOOLEAN]
<1>1. req \in [Requests -> T] /\ req[r] \in T
  BY DEF TypeOK
<1>2. [req[r] EXCEPT !.call = "unlink"]
        = [call |-> "unlink", job |-> req[r].job, key |-> req[r].key]
  BY <1>1
<1>3. unlink = [req EXCEPT ![r] = [call |-> "unlink", job |-> req[r].job, key |-> req[r].key]]
  BY <1>1, <1>2
<1>4. CASE req' = unlink
  BY <1>1, <1>3, <1>4 DEF Calls
<1>5. CASE req' = [req EXCEPT ![r] = Idle]
  BY <1>1, <1>5 DEF Calls, Idle
<1> QED
  BY <1>4, <1>5 DEF Scrub, Answer

(* Every step keeps the types. *)
LEMMA TypeStep == TypeOK /\ Numbered /\ [Next]_vars => TypeOK'
<1> SUFFICES ASSUME TypeOK, Numbered, [Next]_vars PROVE TypeOK'
  OBVIOUS
<1> USE BoundsAssumption DEF TypeOK, Numbered, Jobs, Kinds, Stages, Spots, Live, Calls, Idle, Goto, Exists, others, data
<1>1. ASSUME NEW i \in Jobs, Start(i) PROVE TypeOK'
  <2>1. row' \in [Jobs -> [stage : Stages, key : BOOLEAN]]
    BY <1>1, UpdateEffect DEF Start
  <2> QED
    BY <1>1, <2>1 DEF Start
<1>2. ASSUME NEW i \in Jobs, ReportProgress(i) PROVE TypeOK'
  <2>1. row' \in [Jobs -> [stage : Stages, key : BOOLEAN]]
    BY <1>2, UpdateEffect DEF ReportProgress
  <2> QED
    BY <1>2, <2>1 DEF ReportProgress
<1>3. ASSUME NEW i \in Jobs, PoolReturns(i) PROVE TypeOK'
  BY <1>3 DEF PoolReturns
<1>4. ASSUME NEW i \in Jobs, AnnounceMerge(i) PROVE TypeOK'
  <2>1. row' \in [Jobs -> [stage : Stages, key : BOOLEAN]]
    BY <1>4, UpdateEffect DEF AnnounceMerge
  <2> QED
    BY <1>4, <2>1 DEF AnnounceMerge
<1>5. ASSUME NEW i \in Jobs, RunMergeSubprocess(i) PROVE TypeOK'
  BY <1>5 DEF RunMergeSubprocess
<1>6. ASSUME NEW i \in Jobs, Reload(i) PROVE TypeOK'
  BY <1>6 DEF Reload
<1>7. ASSUME NEW i \in Jobs, AnnounceUpload(i) PROVE TypeOK'
  <2>1. row' \in [Jobs -> [stage : Stages, key : BOOLEAN]]
    BY <1>7, UpdateEffect DEF AnnounceUpload
  <2> QED
    BY <1>7, <2>1 DEF AnnounceUpload
<1>8. ASSUME NEW i \in Jobs, Upload(i) PROVE TypeOK'
  BY <1>8 DEF Upload
<1>9. ASSUME NEW i \in Jobs, CompleteJob(i) PROVE TypeOK'
  <2>1. row[i].key \in BOOLEAN
    OBVIOUS
  <2>2. row' \in [Jobs -> [stage : Stages, key : BOOLEAN]]
    BY <1>9, <2>1, PutEffect DEF CompleteJob
  <2> QED
    BY <1>9, <2>2 DEF CompleteJob
<1>10. ASSUME NEW i \in Jobs, FailJob(i) PROVE TypeOK'
  <2>1. row[i].key \in BOOLEAN
    OBVIOUS
  <2>2. row' \in [Jobs -> [stage : Stages, key : BOOLEAN]]
    BY <1>10, <2>1, PutEffect DEF FailJob
  <2> QED
    BY <1>10, <2>2 DEF FailJob
<1>11. ASSUME NEW i \in Jobs, Hang(i) PROVE TypeOK'
  BY <1>11 DEF Hang
<1>12. ASSUME NEW k \in Kinds, Submit(k) PROVE TypeOK'
  <2>1. CreateJob(k)
    BY <1>12 DEF Submit
  <2>2. /\ created' \in Jobs /\ kind' \in [Jobs -> Kinds]
        /\ row' \in [Jobs -> [stage : Stages, key : BOOLEAN]]
        /\ pipe' \in [Jobs -> Spots] /\ excused' \in [Jobs -> BOOLEAN]
    BY <2>1, CreateEffect
  <2> QED
    BY <1>12, <2>2 DEF Submit
<1>13. ASSUME NEW r \in Requests, Scrub(r) PROVE TypeOK'
  <2>1. req[r].job \in Jobs
    BY <1>13 DEF Scrub
  <2> QED
    BY <1>13, <2>1, ScrubEffect DEF Scrub
<1>14. ASSUME NEW r \in Requests, ScrubFails(r) PROVE TypeOK'
  BY <1>14 DEF ScrubFails, Answer
<1>15. ASSUME NEW r \in Requests, Unlink(r) PROVE TypeOK'
  <2>1. req[r].job \in Jobs /\ req[r].key \in BOOLEAN
    BY <1>15 DEF Unlink
  <2>2. row' \in [Jobs -> [stage : Stages, key : BOOLEAN]]
    BY <1>15, <2>1, PutEffect, ZenonT(30) DEF Unlink
  <2>3. req' \in [Requests -> [call : Calls, job : Jobs \union {0}, key : BOOLEAN]]
    BY <1>15 DEF Unlink, Answer
  <2> QED
    BY <1>15, <2>2, <2>3 DEF Unlink
<1>16. ASSUME NEW r \in Requests, Serve(r) PROVE TypeOK'
  BY <1>16 DEF Serve, Answer
<1>17. ASSUME NEW r \in Requests, Retry(r) PROVE TypeOK'
  <2>1. req' \in [Requests -> [call : Calls, job : Jobs \union {0}, key : BOOLEAN]]
    BY <1>17 DEF Retry, Answer
  <2>2. CASE CreateJob("drive")
    <3>1. /\ created' \in Jobs /\ kind' \in [Jobs -> Kinds]
          /\ row' \in [Jobs -> [stage : Stages, key : BOOLEAN]]
          /\ pipe' \in [Jobs -> Spots] /\ excused' \in [Jobs -> BOOLEAN]
      BY <2>2, CreateEffect
    <3> QED
      BY <1>17, <2>1, <3>1 DEF Retry
  <2>3. CASE UNCHANGED <<row, kind, pipe, created, excused>>
    BY <1>17, <2>1, <2>3 DEF Retry
  <2> QED
    BY <1>17, <2>2, <2>3 DEF Retry
<1>18. ASSUME NEW r \in Requests, NEW i \in Jobs, ReadForDelete(r, i) PROVE TypeOK'
  BY <1>18 DEF ReadForDelete, Call
<1>19. ASSUME NEW r \in Requests, NEW i \in Jobs, ReadForDownload(r, i) PROVE TypeOK'
  BY <1>19 DEF ReadForDownload, Call
<1>20. ASSUME NEW r \in Requests, NEW i \in Jobs, ReadForRetry(r, i) PROVE TypeOK'
  BY <1>20 DEF ReadForRetry, Call
<1>21. CASE Restart
  BY <1>21 DEF Restart
<1>22. CASE UNCHANGED vars
  BY <1>22 DEF vars
<1> QED
  BY <1>1, <1>2, <1>3, <1>4, <1>5, <1>6, <1>7, <1>8, <1>9, <1>10, <1>11, <1>12,
     <1>13, <1>14, <1>15, <1>16, <1>17, <1>18, <1>19, <1>20, <1>21, <1>22
  DEF Next, Step, Handle

(* Every step keeps the numbering. *)
LEMMA NumberedStep == TypeOK /\ Numbered /\ [Next]_vars => Numbered'
<1> SUFFICES ASSUME TypeOK, Numbered, [Next]_vars PROVE Numbered'
  OBVIOUS
<1> USE BoundsAssumption DEF TypeOK, Numbered, Jobs, Spots, Live, Idle, Put, Goto, Exists, others, data
<1>1. ASSUME NEW i \in Jobs, Start(i) PROVE Numbered'
  BY <1>1 DEF Start, UpdateJobState
<1>2. ASSUME NEW i \in Jobs, ReportProgress(i) PROVE Numbered'
  BY <1>2 DEF ReportProgress, UpdateJobState
<1>3. ASSUME NEW i \in Jobs, PoolReturns(i) PROVE Numbered'
  BY <1>3 DEF PoolReturns
<1>4. ASSUME NEW i \in Jobs, AnnounceMerge(i) PROVE Numbered'
  BY <1>4 DEF AnnounceMerge, UpdateJobState
<1>5. ASSUME NEW i \in Jobs, RunMergeSubprocess(i) PROVE Numbered'
  BY <1>5 DEF RunMergeSubprocess
<1>6. ASSUME NEW i \in Jobs, Reload(i) PROVE Numbered'
  BY <1>6 DEF Reload
<1>7. ASSUME NEW i \in Jobs, AnnounceUpload(i) PROVE Numbered'
  BY <1>7 DEF AnnounceUpload, UpdateJobState
<1>8. ASSUME NEW i \in Jobs, Upload(i) PROVE Numbered'
  BY <1>8 DEF Upload
<1>9. ASSUME NEW i \in Jobs, CompleteJob(i) PROVE Numbered'
  BY <1>9 DEF CompleteJob
<1>10. ASSUME NEW i \in Jobs, FailJob(i) PROVE Numbered'
  BY <1>10 DEF FailJob
<1>11. ASSUME NEW i \in Jobs, Hang(i) PROVE Numbered'
  BY <1>11 DEF Hang
<1>12. ASSUME NEW k \in Kinds, Submit(k) PROVE Numbered'
  BY <1>12 DEF Submit, CreateJob
<1>13. ASSUME NEW r \in Requests, Scrub(r) PROVE Numbered'
  <2>1. UNCHANGED <<row, pipe, created>> /\ req[r].call # "idle"
    BY <1>13 DEF Scrub
  <2> QED
    BY <1>13, <2>1, ScrubEffect, ZenonT(30)
<1>14. ASSUME NEW r \in Requests, ScrubFails(r) PROVE Numbered'
  BY <1>14 DEF ScrubFails, Answer
<1>15. ASSUME NEW r \in Requests, Unlink(r) PROVE Numbered'
  BY <1>15 DEF Unlink, Answer
<1>16. ASSUME NEW r \in Requests, Serve(r) PROVE Numbered'
  BY <1>16 DEF Serve, Answer
<1>17. ASSUME NEW r \in Requests, Retry(r) PROVE Numbered'
  BY <1>17 DEF Retry, CreateJob, Answer
<1>18. ASSUME NEW r \in Requests, NEW i \in Jobs, ReadForDelete(r, i) PROVE Numbered'
  BY <1>18 DEF ReadForDelete, Call
<1>19. ASSUME NEW r \in Requests, NEW i \in Jobs, ReadForDownload(r, i) PROVE Numbered'
  BY <1>19 DEF ReadForDownload, Call
<1>20. ASSUME NEW r \in Requests, NEW i \in Jobs, ReadForRetry(r, i) PROVE Numbered'
  BY <1>20 DEF ReadForRetry, Call
<1>21. CASE Restart
  BY <1>21 DEF Restart
<1>22. CASE UNCHANGED vars
  BY <1>22 DEF vars
<1> QED
  BY <1>1, <1>2, <1>3, <1>4, <1>5, <1>6, <1>7, <1>8, <1>9, <1>10, <1>11, <1>12,
     <1>13, <1>14, <1>15, <1>16, <1>17, <1>18, <1>19, <1>20, <1>21, <1>22
  DEF Next, Step, Handle

(* Every step keeps the key inside the last spots. *)
LEMMA KeyLastStep == TypeOK /\ Numbered /\ KeyLast /\ Outputs /\ [Next]_vars => KeyLast'
<1> SUFFICES ASSUME TypeOK, Numbered, KeyLast, Outputs, [Next]_vars PROVE KeyLast'
  OBVIOUS
<1> USE BoundsAssumption DEF TypeOK, Numbered, KeyLast, KeyOut, Outputs, RowKnows, CallKnows, Jobs, Live, Idle, Put, Goto, Exists, others, data
<1>1. ASSUME NEW i \in Jobs, Start(i) PROVE KeyLast'
  BY <1>1 DEF Start, UpdateJobState
<1>2. ASSUME NEW i \in Jobs, ReportProgress(i) PROVE KeyLast'
  BY <1>2 DEF ReportProgress, UpdateJobState
<1>3. ASSUME NEW i \in Jobs, PoolReturns(i) PROVE KeyLast'
  BY <1>3 DEF PoolReturns
<1>4. ASSUME NEW i \in Jobs, AnnounceMerge(i) PROVE KeyLast'
  BY <1>4 DEF AnnounceMerge, UpdateJobState
<1>5. ASSUME NEW i \in Jobs, RunMergeSubprocess(i) PROVE KeyLast'
  BY <1>5 DEF RunMergeSubprocess
<1>6. ASSUME NEW i \in Jobs, Reload(i) PROVE KeyLast'
  BY <1>6 DEF Reload
<1>7. ASSUME NEW i \in Jobs, AnnounceUpload(i) PROVE KeyLast'
  BY <1>7 DEF AnnounceUpload, UpdateJobState
<1>8. ASSUME NEW i \in Jobs, Upload(i) PROVE KeyLast'
  BY <1>8 DEF Upload
<1>9. ASSUME NEW i \in Jobs, CompleteJob(i) PROVE KeyLast'
  BY <1>9 DEF CompleteJob
<1>10. ASSUME NEW i \in Jobs, FailJob(i) PROVE KeyLast'
  BY <1>10 DEF FailJob
<1>11. ASSUME NEW i \in Jobs, Hang(i) PROVE KeyLast'
  BY <1>11 DEF Hang
<1>12. ASSUME NEW k \in Kinds, Submit(k) PROVE KeyLast'
  BY <1>12 DEF Submit, CreateJob
<1>13. ASSUME NEW r \in Requests, Scrub(r) PROVE KeyLast'
  <2>1. UNCHANGED <<row, pipe>>
    BY <1>13 DEF Scrub
  <2>2. ASSUME NEW q \in Requests, req'[q].key
        PROVE  req[q].key /\ req'[q].job = req[q].job
    <3>1. CASE q = r
      BY <1>13, <2>2, <3>1, ScrubEffect
    <3>2. CASE q # r
      BY <1>13, <2>2, <3>2, ScrubEffect
    <3> QED
      BY <3>1, <3>2
  <2> QED
    BY <2>1, <2>2, ZenonT(30)
<1>14. ASSUME NEW r \in Requests, ScrubFails(r) PROVE KeyLast'
  BY <1>14 DEF ScrubFails, Answer
<1>15. ASSUME NEW r \in Requests, Unlink(r) PROVE KeyLast'
  <2>1. req[r].job \in Jobs /\ req[r].key \in BOOLEAN /\ UNCHANGED pipe
    BY <1>15 DEF Unlink
  <2>2. \A q \in Requests : req'[q].key => req[q].key /\ req'[q].job = req[q].job
    BY <1>15 DEF Unlink, Answer
  <2>3. \A j \in Jobs : row'[j].key => row[j].key \/ (j = req[r].job /\ req[r].key)
    BY <1>15, <2>1 DEF Unlink
  <2> QED
    BY <2>1, <2>2, <2>3
<1>16. ASSUME NEW r \in Requests, Serve(r) PROVE KeyLast'
  BY <1>16 DEF Serve, Answer
<1>17. ASSUME NEW r \in Requests, Retry(r) PROVE KeyLast'
  BY <1>17 DEF Retry, CreateJob, Answer
<1>18. ASSUME NEW r \in Requests, NEW i \in Jobs, ReadForDelete(r, i) PROVE KeyLast'
  BY <1>18 DEF ReadForDelete, Call
<1>19. ASSUME NEW r \in Requests, NEW i \in Jobs, ReadForDownload(r, i) PROVE KeyLast'
  BY <1>19 DEF ReadForDownload, Call
<1>20. ASSUME NEW r \in Requests, NEW i \in Jobs, ReadForRetry(r, i) PROVE KeyLast'
  BY <1>20 DEF ReadForRetry, Call
<1>21. CASE Restart
  BY <1>21 DEF Restart
<1>22. CASE UNCHANGED vars
  BY <1>22 DEF vars
<1> QED
  BY <1>1, <1>2, <1>3, <1>4, <1>5, <1>6, <1>7, <1>8, <1>9, <1>10, <1>11, <1>12,
     <1>13, <1>14, <1>15, <1>16, <1>17, <1>18, <1>19, <1>20, <1>21, <1>22
  DEF Next, Step, Handle

(* Every step keeps what is known of the object true. *)
LEMMA OutputsStep == TypeOK /\ Numbered /\ KeyLast /\ Outputs /\ [Next]_vars => Outputs'
<1> SUFFICES ASSUME TypeOK, Numbered, KeyLast, Outputs, [Next]_vars PROVE Outputs'
  OBVIOUS
<1>0. ASSUME NEW r \in Requests, Scrub(r)
      PROVE  /\ \A q \in Requests \ {r} : req'[q] = req[q]
             /\ req'[r].job = req[r].job \/ req'[r].call = "idle"
             /\ req'[r].call \in {"unlink", "idle"}
  BY <1>0, ScrubEffect
<1> USE BoundsAssumption DEF TypeOK, Numbered, KeyLast, KeyOut, Outputs, RowKnows, CallKnows, Jobs, Idle, Put, Goto, Exists, others, data
<1>1. ASSUME NEW i \in Jobs, Start(i) PROVE Outputs'
  BY <1>1 DEF Start, UpdateJobState
<1>2. ASSUME NEW i \in Jobs, ReportProgress(i) PROVE Outputs'
  <2>1. pipe[i] = "pool" /\ UNCHANGED <<object, pipe, req, scrubbed>>
    BY <1>2 DEF ReportProgress
  <2>2. /\ \A j \in Jobs \ {i} : row'[j] = row[j]
        /\ row'[i].key = row[i].key
        /\ row'[i] = row[i] \/ (Exists(i) /\ row'[i].stage = "downloading")
    BY <1>2, UpdateEffect DEF ReportProgress, Stages
  <2>3. \A j \in Jobs \ {i} : RowKnows(j)'
    BY <2>1, <2>2
  <2>4. RowKnows(i)'
    BY <2>1, <2>2
  <2>5. \A r \in Requests : CallKnows(r)'
    BY <2>1
  <2> QED
    BY <2>3, <2>4, <2>5
<1>3. ASSUME NEW i \in Jobs, PoolReturns(i) PROVE Outputs'
  BY <1>3 DEF PoolReturns
<1>4. ASSUME NEW i \in Jobs, AnnounceMerge(i) PROVE Outputs'
  BY <1>4 DEF AnnounceMerge, UpdateJobState
<1>5. ASSUME NEW i \in Jobs, RunMergeSubprocess(i) PROVE Outputs'
  BY <1>5 DEF RunMergeSubprocess
<1>6. ASSUME NEW i \in Jobs, Reload(i) PROVE Outputs'
  BY <1>6 DEF Reload
<1>7. ASSUME NEW i \in Jobs, AnnounceUpload(i) PROVE Outputs'
  BY <1>7 DEF AnnounceUpload, UpdateJobState
<1>8. ASSUME NEW i \in Jobs, Upload(i) PROVE Outputs'
  <2>1. pipe[i] = "upload" /\ UNCHANGED <<row, req, scrubbed>>
    BY <1>8 DEF Upload
  <2>2. ~KeyOut(i)
    BY <2>1
  <2>3. /\ \A j \in Jobs \ {i} : object'[j] = object[j] /\ pipe'[j] = pipe[j]
        /\ pipe'[i] = "complete" => object'[i]
    BY <1>8 DEF Upload
  <2>4. object[i] => object'[i]
    BY <1>8 DEF Upload
  <2>5. \A j \in Jobs \ {i} : RowKnows(j)'
    BY <2>1, <2>3
  <2>6. RowKnows(i)'
    BY <2>1, <2>2, <2>3
  <2>7. \A r \in Requests : CallKnows(r)'
    BY <2>1, <2>2, <2>3, <2>4
  <2> QED
    BY <2>5, <2>6, <2>7
<1>9. ASSUME NEW i \in Jobs, CompleteJob(i) PROVE Outputs'
  BY <1>9 DEF CompleteJob
<1>10. ASSUME NEW i \in Jobs, FailJob(i) PROVE Outputs'
  BY <1>10 DEF FailJob
<1>11. ASSUME NEW i \in Jobs, Hang(i) PROVE Outputs'
  BY <1>11 DEF Hang
<1>12. ASSUME NEW k \in Kinds, Submit(k) PROVE Outputs'
  BY <1>12 DEF Submit, CreateJob
<1>13. ASSUME NEW r \in Requests, Scrub(r) PROVE Outputs'
  <2>1. PICK j \in Jobs : j = req[r].job
    BY <1>13 DEF Scrub
  <2>2. req[r].key /\ pipe[j] \in {"fail", "hung", "done"}
    BY <1>13, <2>1 DEF Scrub
  <2>3. UNCHANGED <<row, pipe>>
    BY <1>13 DEF Scrub
  <2>4. /\ \A i \in Jobs \ {j} : object'[i] = object[i] /\ scrubbed'[i] = scrubbed[i]
        /\ ~object'[j] /\ scrubbed'[j]
    BY <1>13, <2>1 DEF Scrub
  <2>5. \A i \in Jobs \ {j} : RowKnows(i)'
    BY <2>3, <2>4
  <2>6. RowKnows(j)'
    BY <2>2, <2>3, <2>4
  <2>7. ASSUME NEW q \in Requests PROVE CallKnows(q)'
    <3>1. CASE q = r
      BY <1>0, <1>13, <2>1, <2>4, <3>1
    <3>2. CASE q # r
      <4>1. req'[q] = req[q]
        BY <1>0, <1>13, <3>2
      <4> QED
        BY <2>4, <4>1, SMTT(30)
    <3> QED
      BY <3>1, <3>2
  <2> QED
    BY <2>5, <2>6, <2>7
<1>14. ASSUME NEW r \in Requests, ScrubFails(r) PROVE Outputs'
  BY <1>14 DEF ScrubFails, Answer
<1>15. ASSUME NEW r \in Requests, Unlink(r) PROVE Outputs'
  <2>1. PICK j \in Jobs : j = req[r].job
    BY <1>15 DEF Unlink
  <2>2. req[r].key \in BOOLEAN /\ UNCHANGED <<object, pipe, scrubbed>>
    BY <1>15 DEF Unlink
  <2>3. req[r].key => ~object[j]
    BY <1>15, <2>1 DEF Unlink
  <2>4. /\ \A i \in Jobs \ {j} : row'[i] = row[i]
        /\ \/ row'[j] = row[j]
           \/ /\ row'[j].stage = "deleted"
              /\ row'[j].key = req[r].key
    BY <1>15, <2>1, <2>2 DEF Unlink
  <2>5. \A q \in Requests : req'[q] = req[q] \/ req'[q].call = "idle"
    BY <1>15 DEF Unlink, Answer
  <2>6. \A i \in Jobs \ {j} : RowKnows(i)'
    BY <2>2, <2>4
  <2>7. RowKnows(j)'
    <3>1. CASE row'[j] = row[j]
      BY <2>2, <3>1
    <3>2. CASE row'[j].stage = "deleted" /\ row'[j].key = req[r].key
      <4>1. pipe[j] = "complete" => object[j]
        OBVIOUS
      <4> QED
        BY <2>2, <2>3, <3>2, <4>1
    <3> QED
      BY <2>4, <3>1, <3>2
  <2>8. \A q \in Requests : CallKnows(q)'
    BY <2>2, <2>5
  <2> QED
    BY <2>6, <2>7, <2>8
<1>16. ASSUME NEW r \in Requests, Serve(r) PROVE Outputs'
  BY <1>16 DEF Serve, Answer
<1>17. ASSUME NEW r \in Requests, Retry(r) PROVE Outputs'
  BY <1>17 DEF Retry, CreateJob, Answer
<1>18. ASSUME NEW r \in Requests, NEW i \in Jobs, ReadForDelete(r, i) PROVE Outputs'
  BY <1>18 DEF ReadForDelete, Call
<1>19. ASSUME NEW r \in Requests, NEW i \in Jobs, ReadForDownload(r, i) PROVE Outputs'
  BY <1>19 DEF ReadForDownload, Call
<1>20. ASSUME NEW r \in Requests, NEW i \in Jobs, ReadForRetry(r, i) PROVE Outputs'
  BY <1>20 DEF ReadForRetry, Call
<1>21. CASE Restart
  BY <1>21 DEF Restart
<1>22. CASE UNCHANGED vars
  BY <1>22 DEF vars
<1> QED
  BY <1>1, <1>2, <1>3, <1>4, <1>5, <1>6, <1>7, <1>8, <1>9, <1>10, <1>11, <1>12,
     <1>13, <1>14, <1>15, <1>16, <1>17, <1>18, <1>19, <1>20, <1>21, <1>22
  DEF Next, Step, Handle

(* Every step keeps the row behind its pipeline. *)
LEMMA InStepStep == TypeOK /\ Numbered /\ InStep /\ [Next]_vars => InStep'
<1> SUFFICES ASSUME TypeOK, Numbered, InStep, [Next]_vars PROVE InStep'
  OBVIOUS
<1> USE BoundsAssumption DEF TypeOK, Numbered, InStep, Reached, Active, Stages, Jobs, Live, Put, Goto, Exists, others, data
<1>1. ASSUME NEW i \in Jobs, Start(i) PROVE InStep'
  BY <1>1 DEF Start, UpdateJobState
<1>2. ASSUME NEW i \in Jobs, ReportProgress(i) PROVE InStep'
  <2>1. pipe[i] = "pool" /\ UNCHANGED pipe
    BY <1>2 DEF ReportProgress
  <2>2. /\ \A j \in Jobs \ {i} : row'[j] = row[j]
        /\ row'[i] = row[i] \/ (Exists(i) /\ row'[i].stage = "downloading")
    BY <1>2, UpdateEffect DEF ReportProgress
  <2> QED
    BY <2>1, <2>2
<1>3. ASSUME NEW i \in Jobs, PoolReturns(i) PROVE InStep'
  BY <1>3 DEF PoolReturns
<1>4. ASSUME NEW i \in Jobs, AnnounceMerge(i) PROVE InStep'
  BY <1>4 DEF AnnounceMerge, UpdateJobState
<1>5. ASSUME NEW i \in Jobs, RunMergeSubprocess(i) PROVE InStep'
  BY <1>5 DEF RunMergeSubprocess
<1>6. ASSUME NEW i \in Jobs, Reload(i) PROVE InStep'
  BY <1>6, ZenonT(30) DEF Reload
<1>7. ASSUME NEW i \in Jobs, AnnounceUpload(i) PROVE InStep'
  BY <1>7 DEF AnnounceUpload, UpdateJobState
<1>8. ASSUME NEW i \in Jobs, Upload(i) PROVE InStep'
  <2>1. pipe[i] = "upload" /\ UNCHANGED row
    BY <1>8 DEF Upload
  <2>2. pipe' = [pipe EXCEPT ![i] = "complete"] \/ pipe' = [pipe EXCEPT ![i] = "fail"]
    BY <1>8 DEF Upload
  <2> QED
    BY <2>1, <2>2, SMTT(30)
<1>9. ASSUME NEW i \in Jobs, CompleteJob(i) PROVE InStep'
  BY <1>9 DEF CompleteJob
<1>10. ASSUME NEW i \in Jobs, FailJob(i) PROVE InStep'
  <2>1. \A j \in Jobs \ {i} : row'[j] = row[j] /\ pipe'[j] = pipe[j]
    BY <1>10 DEF FailJob
  <2>2. pipe'[i] = "done"
    BY <1>10 DEF FailJob
  <2>3. row'[i].stage \in Stages
    BY <1>10 DEF FailJob
  <2> QED
    BY <2>1, <2>2, <2>3
<1>11. ASSUME NEW i \in Jobs, Hang(i) PROVE InStep'
  BY <1>11 DEF Hang
<1>12. ASSUME NEW k \in Kinds, Submit(k) PROVE InStep'
  BY <1>12 DEF Submit, CreateJob
<1>13. ASSUME NEW r \in Requests, Scrub(r) PROVE InStep'
  BY <1>13 DEF Scrub, Answer
<1>14. ASSUME NEW r \in Requests, ScrubFails(r) PROVE InStep'
  BY <1>14 DEF ScrubFails, Answer
<1>15. ASSUME NEW r \in Requests, Unlink(r) PROVE InStep'
  <2> DEFINE j == req[r].job
  <2>1. j \in Jobs /\ UNCHANGED pipe
    BY <1>15 DEF Unlink
  <2>2. /\ \A i \in Jobs \ {j} : row'[i] = row[i]
        /\ row'[j] = row[j] \/ row'[j].stage = "deleted"
    BY <1>15, <2>1 DEF Unlink
  <2> QED
    BY <2>1, <2>2
<1>16. ASSUME NEW r \in Requests, Serve(r) PROVE InStep'
  BY <1>16 DEF Serve, Answer
<1>17. ASSUME NEW r \in Requests, Retry(r) PROVE InStep'
  BY <1>17 DEF Retry, CreateJob, Answer
<1>18. ASSUME NEW r \in Requests, NEW i \in Jobs, ReadForDelete(r, i) PROVE InStep'
  BY <1>18 DEF ReadForDelete, Call
<1>19. ASSUME NEW r \in Requests, NEW i \in Jobs, ReadForDownload(r, i) PROVE InStep'
  BY <1>19 DEF ReadForDownload, Call
<1>20. ASSUME NEW r \in Requests, NEW i \in Jobs, ReadForRetry(r, i) PROVE InStep'
  BY <1>20 DEF ReadForRetry, Call
<1>21. CASE Restart
  BY <1>21 DEF Restart
<1>22. CASE UNCHANGED vars
  BY <1>22 DEF vars
<1> QED
  BY <1>1, <1>2, <1>3, <1>4, <1>5, <1>6, <1>7, <1>8, <1>9, <1>10, <1>11, <1>12,
     <1>13, <1>14, <1>15, <1>16, <1>17, <1>18, <1>19, <1>20, <1>21, <1>22
  DEF Next, Step, Handle

(* The invariant holds initially and at every step. *)
LEMMA Invariance == Spec => []IInv
<1>1. Init => IInv
  <2> SUFFICES ASSUME Init PROVE IInv
    OBVIOUS
  <2> USE BoundsAssumption DEF Init, Idle
  <2>1. TypeOK
    BY DEF TypeOK, Stages, Kinds, Spots, Live, Calls
  <2>2. Numbered /\ KeyLast
    BY DEF Numbered, KeyLast, KeyOut
  <2>3. Outputs /\ InStep
    BY DEF Outputs, RowKnows, CallKnows, InStep, Exists
  <2> QED
    BY <2>1, <2>2, <2>3 DEF IInv
<1>2. IInv /\ [Next]_vars => IInv'
  BY TypeStep, NumberedStep, KeyLastStep, OutputsStep, InStepStep DEF IInv
<1> QED
  BY <1>1, <1>2, PTL DEF Spec

-----------------------------------------------------------------------------
(* Type correctness of the lifecycle. *)
THEOREM TypeCorrect == Spec => []TypeOK
<1>1. IInv => TypeOK
  BY DEF IInv
<1> QED
  BY <1>1, Invariance, PTL

(* A job shown completed has its key and, unless a delete removed it, its  *)
(* merged object, whatever calls fail or hang and whenever the process     *)
(* dies.                                                                   *)
THEOREM CompletedMeansStored == Spec => []CompletedHasOutput
<1>1. IInv => CompletedHasOutput
  BY DEF IInv, Outputs, RowKnows, CompletedHasOutput, Exists
<1> QED
  BY <1>1, Invariance, PTL

(* Only a delete can take the object away from a download in progress.     *)
THEOREM DownloadsFindTheirObject == Spec => []DownloadMissesOnlyDeleted
<1>1. IInv => DownloadMissesOnlyDeleted
  BY DEF IInv, Outputs, CallKnows, DownloadMissesOnlyDeleted
<1> QED
  BY <1>1, Invariance, PTL

(* A delete that read the key never leaves the object behind.              *)
THEOREM KnownObjectsAreRemoved == Spec => []ScrubBeforeUnlink
<1>1. IInv => ScrubBeforeUnlink
  BY DEF IInv, Outputs, RowKnows, ScrubBeforeUnlink, Exists
<1> QED
  BY <1>1, Invariance, PTL

-----------------------------------------------------------------------------
(* A row that changes moves forward, or keeps its stage.                   *)
Forward == \A j \in Jobs : Rank(row[j].stage) <= Rank(row'[j].stage)

LEMMA RankType == ASSUME TypeOK, NEW j \in Jobs PROVE Rank(row[j].stage) \in 0..7
<1>1. row[j].stage \in Stages
  BY DEF TypeOK
<1> QED
  BY <1>1 DEF Stages, Rank

LEMMA SameRow == TypeOK /\ row' = row => Forward
BY RankType DEF Forward

LEMMA OneRow ==
    ASSUME TypeOK, NEW i \in Jobs, \A j \in Jobs \ {i} : row'[j] = row[j],
           Rank(row[i].stage) <= Rank(row'[i].stage)
    PROVE  Forward
<1> SUFFICES ASSUME NEW j \in Jobs PROVE Rank(row[j].stage) <= Rank(row'[j].stage)
  BY DEF Forward
<1>1. CASE j = i
  BY <1>1
<1>2. CASE j # i
  <2>1. row'[j] = row[j]
    BY <1>2
  <2> QED
    BY <2>1, RankType
<1> QED
  BY <1>1, <1>2

(* No step of any process moves the stage of a job backwards: each write   *)
(* of a pipeline is past every stage the row can have reached.             *)
THEOREM StagesMoveForward == Spec => StageNeverGoesBack
<1>1. IInv /\ [Next]_vars => [Forward]_vars
  <2> SUFFICES ASSUME IInv, [Next]_vars PROVE Forward
    OBVIOUS
  <2>a. TypeOK /\ Numbered /\ InStep
    BY DEF IInv
  <2>b. ASSUME NEW i \in Jobs,
               NEW stage \in {"downloading", "merging", "uploading"},
               UpdateJobState(i, stage),
               Exists(i) => Rank(row[i].stage) <= Rank(stage)
        PROVE  Forward
    <3>1. /\ \A j \in Jobs \ {i} : row'[j] = row[j]
          /\ row'[i] = row[i] \/ (Exists(i) /\ row'[i].stage = stage)
      BY <2>a, <2>b, UpdateEffect DEF Stages
    <3>2. CASE row'[i] = row[i]
      BY <2>a, <3>1, <3>2, OneRow DEF TypeOK, Stages, Rank
    <3>3. CASE Exists(i) /\ row'[i].stage = stage
      BY <2>a, <2>b, <3>1, <3>3, OneRow
    <3> QED
      BY <3>1, <3>2, <3>3
  <2>c. ASSUME NEW i \in Jobs, NEW stage \in {"completed", "failed", "deleted"},
               NEW key \in BOOLEAN, Put(i, stage, key),
               Exists(i) => Rank(row[i].stage) <= Rank(stage)
        PROVE  Forward
    <3>0. stage \in Stages
      BY DEF Stages
    <3>1. /\ \A j \in Jobs \ {i} : row'[j] = row[j]
          /\ ~Exists(i) => row'[i] = row[i]
          /\ Exists(i) => row'[i] = [stage |-> stage, key |-> key]
      BY <2>a, <2>c, <3>0, PutEffect
    <3>2. CASE ~Exists(i)
      BY <2>a, <3>1, <3>2, OneRow DEF TypeOK, Stages, Rank
    <3>3. CASE Exists(i)
      <4>1. row'[i].stage = stage
        BY <3>1, <3>3
      <4> QED
        BY <2>a, <2>c, <3>1, <3>3, <4>1, OneRow
    <3> QED
      BY <3>2, <3>3
  <2>d. ASSUME NEW k \in Kinds, CreateJob(k) PROVE Forward
    <3>1. PICK i \in Jobs : i = created' /\ created' = created + 1
      BY <2>a, <2>d, CreateEffect
    <3>2. row' = [row EXCEPT ![i] = [stage |-> "queued", key |-> FALSE]]
      BY <2>a, <2>d, <3>1, CreateEffect
    <3>3. row[i].stage = "absent"
      BY <2>a, <3>1 DEF Numbered, TypeOK, Jobs
    <3>4. \A j \in Jobs \ {i} : row'[j] = row[j]
      BY <2>a, <3>2 DEF TypeOK
    <3>5. row'[i].stage = "queued"
      BY <2>a, <3>2 DEF TypeOK
    <3> QED
      BY <2>a, <3>3, <3>4, <3>5, OneRow DEF Rank
  <2>1. CASE UNCHANGED row
    BY <2>a, <2>1, SameRow
  <2>2. ASSUME NEW i \in Jobs, Start(i) \/ ReportProgress(i) PROVE Forward
    <3>1. Exists(i) => row[i].stage \in {"queued", "downloading"}
      BY <2>a, <2>2 DEF Start, ReportProgress, InStep, Reached
    <3>2. Exists(i) => /\ Rank(row[i].stage) <= Rank("downloading")
                       /\ Rank(row[i].stage) <= Rank("merging")
      BY <3>1 DEF Rank
    <3>3. CASE UpdateJobState(i, "downloading")
      BY <2>b, <3>2, <3>3
    <3>4. CASE UpdateJobState(i, "merging")
      BY <2>b, <3>2, <3>4
    <3> QED
      BY <2>1, <2>2, <3>3, <3>4 DEF Start, ReportProgress
  <2>3. ASSUME NEW i \in Jobs, AnnounceMerge(i) \/ AnnounceUpload(i) PROVE Forward
    <3>1. Exists(i) => row[i].stage \in {"queued", "downloading", "merging"}
      BY <2>a, <2>3 DEF AnnounceMerge, AnnounceUpload, InStep, Reached
    <3>2. Exists(i) => /\ Rank(row[i].stage) <= Rank("merging")
                       /\ Rank(row[i].stage) <= Rank("uploading")
      BY <3>1 DEF Rank
    <3> QED
      BY <2>b, <2>3, <3>2 DEF AnnounceMerge, AnnounceUpload
  <2>4. ASSUME NEW i \in Jobs, CompleteJob(i) PROVE Forward
    <3>1. Exists(i) => row[i].stage \in Active
      BY <2>a, <2>4 DEF CompleteJob, InStep, Reached
    <3>2. Exists(i) => Rank(row[i].stage) <= Rank("completed")
      BY <3>1 DEF Active, Rank
    <3> QED
      BY <2>c, <2>1, <2>4, <3>2 DEF CompleteJob
  <2>5. ASSUME NEW i \in Jobs, FailJob(i) PROVE Forward
    <3>1. Exists(i) => row[i].stage \in Active \union {"completed"}
      BY <2>a, <2>5 DEF FailJob, InStep, Reached
    <3>2. Exists(i) => Rank(row[i].stage) <= Rank("failed")
      BY <3>1 DEF Active, Rank
    <3>3. row[i].key \in BOOLEAN
      BY <2>a DEF TypeOK
    <3> QED
      BY <2>c, <2>1, <2>5, <3>2, <3>3 DEF FailJob
  <2>6. ASSUME NEW r \in Requests, Unlink(r) PROVE Forward
    <3>1. PICK i \in Jobs : i = req[r].job
      BY <2>a, <2>6 DEF Unlink, Numbered, TypeOK, Jobs
    <3>2. Rank(row[i].stage) <= Rank("deleted")
      BY <2>a DEF TypeOK, Stages, Rank
    <3>3. req[r].key \in BOOLEAN
      BY <2>a DEF TypeOK
    <3> QED
      BY <2>c, <2>1, <2>6, <3>1, <3>2, <3>3 DEF Unlink
  <2>7. ASSUME NEW k \in Kinds, Submit(k) PROVE Forward
    BY <2>d, <2>7 DEF Submit
  <2>8. ASSUME NEW r \in Requests, Retry(r) PROVE Forward
    BY <2>d, <2>1, <2>8 DEF Retry, Kinds
  <2> QED
    BY <2>1, <2>2, <2>3, <2>4, <2>5, <2>6, <2>7, <2>8
    DEF Next, Step, Handle, vars, data, others, PoolReturns, RunMergeSubprocess,
        Reload, Upload, Hang, Scrub, ScrubFails, Serve, ReadForDelete,
        ReadForDownload, ReadForRetry, Restart
<1> QED
  BY <1>1, Invariance, PTL DEF Spec, StageNeverGoesBack, Forward

-----------------------------------------------------------------------------
(* What a client sees of the jobs: the two functions of the refinement.    *)
shown    == [j \in Jobs |-> statusOf(j)]
fetchable == {j \in Jobs : served(j)}

(* A step that touches one job changes what is seen of that job alone.     *)
LEMMA OneJob ==
    ASSUME NEW i \in Jobs,
           \A j \in Jobs \ {i} : row'[j] = row[j] /\ object'[j] = object[j]
    PROVE  /\ shown' = [shown EXCEPT ![i] = statusOf(i)']
           /\ served(i)' => fetchable' = fetchable \union {i}
           /\ ~served(i)' => fetchable' = fetchable \ {i}
<1>1. \A j \in Jobs \ {i} : statusOf(j)' = statusOf(j) /\ (served(j)' <=> served(j))
  BY DEF statusOf, served
<1>2. shown' = [shown EXCEPT ![i] = statusOf(i)']
  BY <1>1 DEF shown
<1>3. served(i)' => fetchable' = fetchable \union {i}
  BY <1>1 DEF fetchable
<1>4. ~served(i)' => fetchable' = fetchable \ {i}
  BY <1>1 DEF fetchable
<1> QED
  BY <1>2, <1>3, <1>4

(* The jobs do what the clients of the API rely on: whatever fails, hangs  *)
(* or dies, a job shows pending, running and completed in this order, its  *)
(* file appears in the step that shows it completed, and never again once  *)
(* it is gone.                                                             *)
THEOREM JobsImplementContract == Spec => ImplementsContract
<1> USE DEF Client!Next, Client!Create, Client!Run, Client!Publish, Client!Break,
            Client!Withdraw, Client!Remove, Client!Show, Client!Shown, Client!vars
<1>1. Init => Client!Init
  <2> SUFFICES ASSUME Init PROVE Client!Init
    OBVIOUS
  <2>1. \A j \in Jobs : statusOf(j) = "absent" /\ ~served(j)
    BY DEF Init, statusOf, served, Active
  <2> QED
    BY <2>1 DEF Client!Init
<1>2. IInv /\ [Next]_vars => [Client!Next]_(Client!vars)
  <2> SUFFICES ASSUME IInv, [Next]_vars
               PROVE [Client!Next]_(Client!vars)
    OBVIOUS
  <2>a. TypeOK /\ Numbered /\ Outputs /\ InStep
    BY DEF IInv
  <2>b. shown = [j \in Jobs |-> statusOf(j)] /\ fetchable = {j \in Jobs : served(j)}
    BY DEF shown, fetchable
  <2>c. \A i \in Jobs : shown[i] = statusOf(i) /\ (i \in fetchable <=> served(i))
    BY DEF shown, fetchable
  <2>d. ASSUME UNCHANGED shown, UNCHANGED fetchable
        PROVE  [Client!Next]_(Client!vars)
    BY <2>b, <2>d DEF shown, fetchable
  <2>e. ASSUME UNCHANGED <<row, object>>
        PROVE  [Client!Next]_(Client!vars)
    BY <2>d, <2>e DEF shown, fetchable, statusOf, served
  <2>f. ASSUME NEW i \in Jobs, NEW stage \in {"downloading", "merging", "uploading"},
               UpdateJobState(i, stage), UNCHANGED object,
               Exists(i) => row[i].stage \in Active
        PROVE  [Client!Next]_(Client!vars)
    <3>1. /\ \A j \in Jobs \ {i} : row'[j] = row[j] /\ object'[j] = object[j]
          /\ row'[i] = row[i] \/ (Exists(i) /\ row'[i].stage = stage)
      BY <2>a, <2>f, UpdateEffect DEF Stages
    <3>2. CASE row'[i] = row[i]
      <4>1. row' = row
        BY <2>a, <2>f, <3>1, <3>2, UpdateEffect DEF TypeOK, Stages
      <4> QED
        BY <2>e, <2>f, <4>1
    <3>3. CASE Exists(i) /\ row'[i].stage = stage
      <4>1. row[i].stage \in Active
        BY <2>f, <3>3
      <4>2. ~served(i) /\ statusOf(i) \in {"pending", "running"}
        BY <4>1 DEF Active, served, statusOf
      <4>3. ~served(i)' /\ statusOf(i)' = "running"
        BY <2>f, <3>3 DEF Active, served, statusOf
      <4>4. shown' = [shown EXCEPT ![i] = "running"] /\ fetchable' = fetchable \ {i}
        BY <3>1, <4>3, OneJob
      <4>5. fetchable' = fetchable
        BY <2>c, <4>2, <4>4
      <4>6. CASE statusOf(i) = "pending"
        <5>1. shown[i] = "pending"
          BY <2>c, <4>6
        <5>2. Client!Run(i)
          BY <4>4, <4>5, <5>1 DEF shown, fetchable
        <5> QED
          BY <5>2
      <4>7. CASE statusOf(i) = "running"
        <5>1. shown[i] = "running"
          BY <2>c, <4>7
        <5>2. shown' = shown
          BY <4>4, <5>1 DEF shown
        <5> QED
          BY <2>d, <4>5, <5>2
      <4> QED
        BY <4>2, <4>6, <4>7
    <3> QED
      BY <3>1, <3>2, <3>3
  <2>g. ASSUME NEW k \in Kinds, CreateJob(k), UNCHANGED object
        PROVE  [Client!Next]_(Client!vars)
    <3>1. PICK i \in Jobs : i = created' /\ created' = created + 1
      BY <2>a, <2>g, CreateEffect
    <3>2. row' = [row EXCEPT ![i] = [stage |-> "queued", key |-> FALSE]]
      BY <2>a, <2>g, <3>1, CreateEffect
    <3>3. row[i].stage = "absent"
      BY <2>a, <3>1 DEF Numbered, TypeOK, Jobs
    <3>4. \A j \in Jobs \ {i} : row'[j] = row[j] /\ object'[j] = object[j]
      BY <2>a, <2>g, <3>2 DEF TypeOK
    <3>5. row'[i].stage = "queued"
      BY <2>a, <3>2 DEF TypeOK
    <3>6. ~served(i) /\ statusOf(i) = "absent"
      BY <3>3 DEF served, statusOf, Active
    <3>7. ~served(i)' /\ statusOf(i)' = "pending"
      BY <3>5 DEF served, statusOf, Active
    <3>8. shown' = [shown EXCEPT ![i] = "pending"] /\ fetchable' = fetchable \ {i}
      BY <3>4, <3>7, OneJob
    <3>9. shown[i] = "absent" /\ fetchable' = fetchable
      BY <2>c, <3>6, <3>8
    <3>10. Client!Create(i)
      BY <3>8, <3>9 DEF shown, fetchable
    <3> QED
      BY <3>10
  <2>1. ASSUME NEW i \in Jobs, Start(i) \/ ReportProgress(i) PROVE [Client!Next]_(Client!vars)
    <3>1. Exists(i) => row[i].stage \in Active
      BY <2>a, <2>1 DEF Start, ReportProgress, InStep, Reached, Active
    <3> QED
      BY <2>e, <2>f, <2>1, <3>1 DEF Start, ReportProgress
  <2>2. ASSUME NEW i \in Jobs, AnnounceMerge(i) \/ AnnounceUpload(i)
        PROVE  [Client!Next]_(Client!vars)
    <3>1. Exists(i) => row[i].stage \in Active
      BY <2>a, <2>2 DEF AnnounceMerge, AnnounceUpload, InStep, Reached, Active
    <3> QED
      BY <2>f, <2>2, <3>1 DEF AnnounceMerge, AnnounceUpload
  <2>3. ASSUME NEW i \in Jobs, Upload(i) PROVE [Client!Next]_(Client!vars)
    <3>1. pipe[i] = "upload" /\ row' = row
      BY <2>3 DEF Upload
    <3>2. \A j \in Jobs \ {i} : row'[j] = row[j] /\ object'[j] = object[j]
      BY <2>a, <2>3, <3>1 DEF Upload, TypeOK
    <3>3. row[i].stage # "completed"
      BY <2>a, <3>1 DEF InStep, Reached, Active, Exists
    <3>4. ~served(i) /\ ~served(i)' /\ statusOf(i)' = statusOf(i)
      BY <3>1, <3>3 DEF served, statusOf
    <3>5. shown' = [shown EXCEPT ![i] = shown[i]] /\ fetchable' = fetchable \ {i}
      BY <2>c, <3>2, <3>4, OneJob
    <3>6. shown' = shown /\ fetchable' = fetchable
      BY <2>c, <3>4, <3>5 DEF shown
    <3> QED
      BY <2>d, <3>6
  <2>4. ASSUME NEW i \in Jobs, CompleteJob(i) PROVE [Client!Next]_(Client!vars)
    <3>1. pipe[i] = "complete" /\ object' = object
      BY <2>4 DEF CompleteJob
    <3>2. CASE UNCHANGED row
      BY <2>e, <3>1, <3>2
    <3>3. CASE Put(i, "completed", TRUE)
      <4>1. /\ \A j \in Jobs \ {i} : row'[j] = row[j]
            /\ ~Exists(i) => row'[i] = row[i]
            /\ Exists(i) => row'[i] = [stage |-> "completed", key |-> TRUE]
            /\ row' \in [Jobs -> [stage : Stages, key : BOOLEAN]]
        BY <2>a, <3>3, PutEffect DEF Stages
      <4>2. CASE ~Exists(i)
        <5>1. row' = row
          BY <2>a, <4>1, <4>2 DEF TypeOK
        <5> QED
          BY <2>e, <3>1, <5>1
      <4>3. CASE Exists(i)
        <5>1. row[i].stage \in Active /\ object[i]
          BY <2>a, <3>1, <4>3 DEF InStep, Reached, Outputs, RowKnows
        <5>2. ~served(i) /\ statusOf(i) \in {"pending", "running"}
          BY <5>1 DEF Active, served, statusOf
        <5>3. served(i)' /\ statusOf(i)' = "completed"
          BY <3>1, <4>1, <4>3, <5>1 DEF Active, served, statusOf
        <5>4. shown' = [shown EXCEPT ![i] = "completed"] /\ fetchable' = fetchable \union {i}
          BY <3>1, <4>1, <5>3, OneJob
        <5>5. shown[i] \in {"pending", "running"}
          BY <2>c, <5>2
        <5>6. Client!Publish(i)
          BY <5>4, <5>5 DEF shown, fetchable
        <5> QED
          BY <5>6
      <4> QED
        BY <4>2, <4>3
    <3> QED
      BY <2>4, <3>2, <3>3 DEF CompleteJob
  <2>5. ASSUME NEW i \in Jobs, FailJob(i) PROVE [Client!Next]_(Client!vars)
    <3>1. pipe[i] = "fail" /\ object' = object /\ row[i].key \in BOOLEAN
      BY <2>a, <2>5 DEF FailJob, TypeOK
    <3>2. CASE UNCHANGED row
      BY <2>e, <3>1, <3>2
    <3>3. CASE Put(i, "failed", row[i].key)
      <4>1. /\ \A j \in Jobs \ {i} : row'[j] = row[j]
            /\ ~Exists(i) => row'[i] = row[i]
            /\ Exists(i) => row'[i] = [stage |-> "failed", key |-> row[i].key]
            /\ row' \in [Jobs -> [stage : Stages, key : BOOLEAN]]
        BY <2>a, <3>1, <3>3, PutEffect DEF Stages
      <4>2. CASE ~Exists(i)
        <5>1. row' = row
          BY <2>a, <4>1, <4>2 DEF TypeOK
        <5> QED
          BY <2>e, <3>1, <5>1
      <4>3. CASE Exists(i)
        <5>1. row[i].stage \in Active \union {"completed"}
          BY <2>a, <3>1, <4>3 DEF InStep, Reached
        <5>2. statusOf(i) \in {"pending", "running", "completed"}
          BY <5>1 DEF Active, statusOf
        <5>3. ~served(i)' /\ statusOf(i)' = "failed"
          BY <4>1, <4>3 DEF Active, served, statusOf
        <5>4. shown' = [shown EXCEPT ![i] = "failed"] /\ fetchable' = fetchable \ {i}
          BY <3>1, <4>1, <5>3, OneJob
        <5>5. shown[i] \in {"pending", "running", "completed"}
          BY <2>c, <5>2
        <5>6. Client!Break(i)
          BY <5>4, <5>5 DEF shown, fetchable
        <5> QED
          BY <5>6
      <4> QED
        BY <4>2, <4>3
    <3> QED
      BY <2>5, <3>2, <3>3 DEF FailJob
  <2>6. ASSUME NEW r \in Requests, Scrub(r) PROVE [Client!Next]_(Client!vars)
    <3>1. PICK i \in Jobs : i = req[r].job
      BY <2>a, <2>6 DEF Scrub, Numbered, TypeOK, Jobs
    <3>2. row' = row /\ object' = [object EXCEPT ![i] = FALSE]
      BY <2>6, <3>1 DEF Scrub
    <3>3. \A j \in Jobs \ {i} : row'[j] = row[j] /\ object'[j] = object[j]
      BY <2>a, <3>2 DEF TypeOK
    <3>4. ~served(i)' /\ statusOf(i)' = statusOf(i)
      BY <2>a, <3>2 DEF served, statusOf, TypeOK
    <3>5. shown' = [shown EXCEPT ![i] = shown[i]] /\ fetchable' = fetchable \ {i}
      BY <2>c, <3>3, <3>4, OneJob
    <3>6. shown' = shown
      BY <3>5 DEF shown
    <3>7. CASE served(i)
      <4>1. statusOf(i) = "completed"
        BY <3>7 DEF served, statusOf, Active
      <4>2. Client!Withdraw(i)
        BY <2>c, <3>5, <3>6, <4>1 DEF shown, fetchable
      <4> QED
        BY <4>2
    <3>8. CASE ~served(i)
      <4>1. fetchable' = fetchable
        BY <2>c, <3>5, <3>8
      <4> QED
        BY <2>d, <3>6, <4>1
    <3> QED
      BY <3>7, <3>8
  <2>7. ASSUME NEW r \in Requests, Unlink(r) PROVE [Client!Next]_(Client!vars)
    <3>1. PICK i \in Jobs : i = req[r].job
      BY <2>a, <2>7 DEF Unlink, Numbered, TypeOK, Jobs
    <3>2. object' = object /\ req[r].key \in BOOLEAN
      BY <2>a, <2>7 DEF Unlink, TypeOK
    <3>3. CASE UNCHANGED row
      BY <2>e, <3>2, <3>3
    <3>4. CASE Put(i, "deleted", req[r].key)
      <4>1. /\ \A j \in Jobs \ {i} : row'[j] = row[j]
            /\ ~Exists(i) => row'[i] = row[i]
            /\ Exists(i) => row'[i] = [stage |-> "deleted", key |-> req[r].key]
            /\ row' \in [Jobs -> [stage : Stages, key : BOOLEAN]]
        BY <2>a, <3>2, <3>4, PutEffect DEF Stages
      <4>2. CASE ~Exists(i)
        <5>1. row' = row
          BY <2>a, <4>1, <4>2 DEF TypeOK
        <5> QED
          BY <2>e, <3>2, <5>1
      <4>3. CASE Exists(i)
        <5>1. row[i].stage \in Stages \ {"absent", "deleted"}
          BY <2>a, <4>3 DEF TypeOK, Exists
        <5>2. statusOf(i) \in Client!Shown
          BY <5>1 DEF Stages, Active, statusOf
        <5>3. ~served(i)' /\ statusOf(i)' = "deleted"
          BY <4>1, <4>3 DEF Active, served, statusOf
        <5>4. shown' = [shown EXCEPT ![i] = "deleted"] /\ fetchable' = fetchable \ {i}
          BY <3>2, <4>1, <5>3, OneJob
        <5>5. shown[i] \in Client!Shown
          BY <2>c, <5>2
        <5>6. Client!Remove(i)
          BY <5>4, <5>5 DEF shown, fetchable
        <5> QED
          BY <5>6
      <4> QED
        BY <4>2, <4>3
    <3> QED
      BY <2>7, <3>1, <3>3, <3>4 DEF Unlink
  <2>8. ASSUME NEW k \in Kinds, Submit(k) PROVE [Client!Next]_(Client!vars)
    BY <2>g, <2>8 DEF Submit
  <2>9. ASSUME NEW r \in Requests, Retry(r) PROVE [Client!Next]_(Client!vars)
    <3>1. object' = object
      BY <2>9 DEF Retry
    <3> QED
      BY <2>e, <2>g, <2>9, <3>1 DEF Retry, Kinds
  <2> QED
    BY <2>e, <2>1, <2>2, <2>3, <2>4, <2>5, <2>6, <2>7, <2>8, <2>9
    DEF Next, Step, Handle, vars, data, others, PoolReturns, RunMergeSubprocess,
        Reload, Hang, ScrubFails, Serve, ReadForDelete, ReadForDownload,
        ReadForRetry, Restart
<1> QED
  BY <1>1, <1>2, Invariance, PTL DEF Spec, ImplementsContract, Client!Spec
=============================================================================
