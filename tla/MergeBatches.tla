---------------------------- MODULE MergeBatches ----------------------------
(***************************************************************************)
(* From the files of an upload to the merged output.  handleUploadMerge    *)
(* saves each file in the work directory of the job and converts images.   *)
(* merge.MergeFiles, in the merge-worker subprocess, sorts the inputs and  *)
(* merges them in rounds of batches, every batch into a part file of the   *)
(* same directory, until one batch is left, which becomes the output.      *)
(* Saving, converting and pdfcpu may fail on any file.                     *)
(*                                                                         *)
(* The pages of a file are abstracted to the inputs they come from.        *)
(***************************************************************************)
EXTENDS Naturals, FiniteSets, SequencesExt

CONSTANTS
    BatchSize,      \* mergeBatchSize
    Converted,      \* where an image with this name is converted to
    Named,          \* the path of a file that is named like one of the server
    Jobs            \* lists of inputs: sequences of records [order, name]

\* Names are ranks in the order Go compares strings in.
ASSUME BatchAssumption == BatchSize \in Nat \ {0, 1}
ASSUME NamesAssumption == DOMAIN Converted \subseteq Nat /\ DOMAIN Named \subseteq Nat
ASSUME JobsAssumption  == \A job \in Jobs : job \in Seq([order : Nat, name : Nat])

VARIABLES
    job,        \* the inputs as the form lists them
    pc,         \* "save", "sort", "rounds", "done" or "failed"
    sorted,     \* the inputs as SortInputs left them: indices of job
    current,    \* the paths of the inputs, then those to merge in this round
    next,       \* parts written in this round
    start,      \* where the next batch of current begins (from 0)
    round,
    disk        \* what the files of the work directory hold: indices of job

vars == <<job, pc, sorted, current, next, start, round, disk>>

\* Uploads, converted images, parts and the output are files of one directory:
\* any of them may have the name of another.
SourcePath(n)  == IF n \in DOMAIN Named THEN Named[n] ELSE <<"upload", n>>
LocalPath(n)   == IF n \in DOMAIN Converted THEN Converted[n] ELSE SourcePath(n)
PartPath(r, b) == <<"part", r, b>>
OutputPath     == <<"output">>

Init ==
    /\ job \in Jobs
    /\ pc = "save"
    /\ sorted = <<>>
    /\ current = <<>>
    /\ next = <<>>
    /\ start = 0
    /\ round = 0
    /\ disk = << >>

-----------------------------------------------------------------------------
\* saveMultipartFile, and for an image NormalizeUploadInput: the conversion
\* appends to the PDF at its path if there is one.
Save ==
    LET i == Len(current) + 1
    IN  /\ pc = "save"
        /\ i \in DOMAIN job
        /\ LET source == SourcePath(job[i].name)
               path   == LocalPath(job[i].name)
               old    == IF path \in DOMAIN disk /\ path # source THEN disk[path] ELSE <<>>
           IN  /\ disk' = [p \in DOMAIN disk \union {source, path} |->
                              CASE p = path -> Append(old, i) [] p = source -> <<i>> [] OTHER -> disk[p]]
               /\ current' = Append(current, path)
        /\ UNCHANGED <<job, pc, sorted, next, start, round>>

\* The job is created and its goroutine starts the subprocess.
Submit ==
    /\ pc = "save"
    /\ Len(current) = Len(job)
    /\ pc' = "sort"
    /\ UNCHANGED <<job, sorted, current, next, start, round, disk>>

-----------------------------------------------------------------------------
\* By order, then by name.
Before(a, b) == a.order < b.order \/ (a.order = b.order /\ a.name < b.name)

\* SortInputs, which places one input after the other: sort.Slice is not
\* stable, so any input may come first that no other must precede.
SortInputs ==
    LET rest == DOMAIN job \ Range(sorted)
    IN  /\ pc = "sort"
        /\ \E i \in rest :
              /\ \A k \in rest : ~Before(job[k], job[i])
              /\ sorted' = Append(sorted, i)
        /\ UNCHANGED <<job, pc, current, next, start, round, disk>>

Plan ==
    /\ pc = "sort"
    /\ Len(sorted) = Len(job)
    /\ pc' = IF job = <<>> THEN "failed" ELSE "rounds"
    /\ current' = [i \in DOMAIN sorted |-> current[sorted[i]]]
    /\ round' = 1
    /\ UNCHANGED <<job, sorted, next, start, disk>>

\* pdfapi.MergeCreateFile empties the file it writes before it reads the others,
\* and so fails if it is one of them.
MergeCreateFile(paths, path) ==
    /\ path \notin Range(paths)
    /\ disk' = [p \in DOMAIN disk \union {path} |->
                   IF p = path THEN FlattenSeq([i \in DOMAIN paths |-> disk[paths[i]]])
                               ELSE disk[p]]

Fail ==
    /\ pc \in {"save", "rounds"}
    /\ pc' = "failed"
    /\ UNCHANGED <<job, sorted, current, next, start, round, disk>>

\* Mutant: a short last batch is left out.
BatchIfFull ==
    /\ pc = "rounds"
    /\ Len(current) > BatchSize
    /\ start < Len(current)
    /\ LET part == PartPath(round, Len(next))
       IN  IF start + BatchSize > Len(current)
           THEN UNCHANGED <<disk, next>>
           ELSE /\ MergeCreateFile(SubSeq(current, start + 1, start + BatchSize), part)
                /\ next' = Append(next, part)
    /\ start' = start + BatchSize
    /\ UNCHANGED <<job, pc, sorted, current, round>>

\* Mutant: a part is named after the first of its files, not after its batch.
BatchByStart ==
    /\ pc = "rounds"
    /\ Len(current) > BatchSize
    /\ start < Len(current)
    /\ LET end == IF start + BatchSize > Len(current) THEN Len(current) ELSE start + BatchSize
           part == PartPath(round, start)
       IN  /\ MergeCreateFile(SubSeq(current, start + 1, end), part)
           /\ next' = Append(next, part)
    /\ start' = start + BatchSize
    /\ UNCHANGED <<job, pc, sorted, current, round>>

Batch ==
    /\ pc = "rounds"
    /\ Len(current) > BatchSize
    /\ start < Len(current)
    /\ LET end == IF start + BatchSize > Len(current) THEN Len(current) ELSE start + BatchSize
           part == PartPath(round, Len(next))
       IN  /\ MergeCreateFile(SubSeq(current, start + 1, end), part)
           /\ next' = Append(next, part)
    /\ start' = start + BatchSize
    /\ UNCHANGED <<job, pc, sorted, current, round>>

\* Mutant: the parts are added to the files they were made from.
NextRoundKeeps ==
    /\ pc = "rounds"
    /\ Len(current) > BatchSize
    /\ start >= Len(current)
    /\ current' = current
    /\ next' = <<>>
    /\ start' = 0
    /\ UNCHANGED <<job, pc, sorted, disk, round>>

NextRound ==
    /\ pc = "rounds"
    /\ Len(current) > BatchSize
    /\ start >= Len(current)
    /\ current' = next
    /\ next' = <<>>
    /\ start' = 0
    /\ round' = round + 1
    /\ UNCHANGED <<job, pc, sorted, disk>>

Finish ==
    /\ pc = "rounds"
    /\ Len(current) <= BatchSize
    /\ MergeCreateFile(current, OutputPath)
    /\ pc' = "done"
    /\ UNCHANGED <<job, sorted, current, next, start, round>>

\* The subprocess has exited.
Over == pc \in {"done", "failed"} /\ UNCHANGED vars

Next ==
    \/ Save \/ Submit \/ SortInputs \/ Plan \/ Batch \/ NextRound \/ Finish
    \/ Fail \/ Over

Spec     == Init /\ [][Next]_vars
(* The handler, the goroutine and the subprocess go on until they end.     *)
FairSpec == Spec /\ WF_vars(Next)

-----------------------------------------------------------------------------
Indices == DOMAIN job

TypeOK ==
    /\ job \in Seq([order : Nat, name : Nat])
    /\ pc \in {"page", "fetch", "save", "sort", "rounds", "done", "failed"}
    /\ sorted \in Seq(Indices)
    /\ current \in Seq(DOMAIN disk)
    /\ next \in Seq(DOMAIN disk)
    /\ start \in 0..(Len(current) + BatchSize - 1)
    /\ round \in 0..Len(job) + 1
    /\ \A p \in DOMAIN disk : disk[p] \in Seq(Indices)

(* The output holds every file of the form once, by order and then by      *)
(* name, however many rounds it took, whatever remainders the batches left *)
(* and wherever the files were saved.                                      *)
MergedInOrder ==
    pc = "done" =>
        /\ Len(disk[OutputPath]) = Len(job)
        /\ Range(disk[OutputPath]) = Indices
        /\ \A i, k \in Indices : i < k =>
              ~Before(job[disk[OutputPath][k]], job[disk[OutputPath][i]])

(* The files that were saved are the ones that are merged: neither a part  *)
(* nor the output is written over one of them, though all are files of one *)
(* directory.  (For files that do not have the name of a part that these   *)
(* rounds write, or of the output.)                                        *)
SourcesKept ==
    round > 0 => \A i \in Indices : disk[LocalPath(job[i].name)] = <<i>>

(* The rounds come to an end: every round leaves fewer files.  A Drive     *)
(* merge begins with its downloads.                                        *)
Ends == pc \in {"save", "fetch", "sort", "rounds"} ~> pc \in {"done", "failed"}
=============================================================================
