----------------------------- MODULE DriveMerge -----------------------------
(***************************************************************************)
(* A merge of a Drive folder, from the preview to the merged output.  The  *)
(* page lists the folder, the user reorders the files, and the page sends  *)
(* the link of the folder with the orders.  handleDriveMerge lists the     *)
(* folder again, because the files are not part of the request, and people *)
(* who share the folder may have changed it since.  The job downloads what *)
(* the second listing had and merges it like an upload.                    *)
(*                                                                         *)
(* A file is its name: MCDownloadPoolSameName.cfg has the case of two      *)
(* files of one name.  What a page does while a call of its own is on the  *)
(* wire is left out, as its buttons are disabled.                          *)
(***************************************************************************)
EXTENDS MergeBatches

CONSTANTS
    Files,          \* what the folder may hold; a file is the rank of its name
    Extracted,      \* the order in the name of a file
    Unsupported,    \* files that are neither PDF nor PNG nor JPEG
    Unnumbered,     \* files without a number in the name
    Folded,         \* ranks of the names without regard to case
    Limit,          \* files in the answer of files.list, which is not paged
    MaxOrder        \* bound: orders the user types

ASSUME FilesAssumption     == Files \subseteq Nat /\ IsFiniteSet(Files)
ASSUME ExtractedAssumption == Extracted \in [Files \ Unnumbered -> Nat]
ASSUME FoldedAssumption    == Folded \in Injection(Files, Nat)
ASSUME LimitAssumption     == Limit \in Nat \ {0} /\ MaxOrder \in Nat

VARIABLES
    folder,     \* Drive: the files of the folder
    shown       \* the page: the orders of the files it lists

front   == <<folder, shown>>
allVars == <<vars, front>>

\* The page and an upload begin with no merge; an upload needs no folder.
StartFolder ==
    /\ job = <<>> /\ pc = "page"
    /\ sorted = <<>> /\ current = <<>> /\ next = <<>> /\ start = 0 /\ round = 0
    /\ disk = << >>
    /\ folder \in SUBSET Files
    /\ shown = << >>

StartUpload == Init /\ folder = {} /\ shown = << >>

-----------------------------------------------------------------------------
\* Someone adds or removes a file, or the user changes the link.
Change ==
    /\ pc = "page"
    /\ \E f \in Files : folder' = IF f \in folder THEN folder \ {f} ELSE folder \union {f}
    /\ UNCHANGED <<vars, shown>>

\* Drive answers with one page of the folder: any part of a larger one.
Answers == {part \in SUBSET folder :
                Cardinality(part) = IF Cardinality(folder) < Limit THEN Cardinality(folder) ELSE Limit}

\* PreviewFolder: other types are skipped, one name without a number fails
\* the call, and so does a folder with nothing to merge.
Listings == {part \ Unsupported : part \in Answers}
Listed   == {files \in Listings : files # {} /\ files \intersect Unnumbered = {}}

Preview ==
    /\ pc = "page"
    /\ \E files \in Listed : shown' = [f \in files |-> Extracted[f]]
    /\ UNCHANGED <<vars, folder>>

ShownBefore(f, g) == shown[f] < shown[g] \/ (shown[f] = shown[g] /\ Folded[f] < Folded[g])
Place(f) == Cardinality({g \in DOMAIN shown : ShownBefore(g, f)}) + 1

\* moveDriveFile: f down is g up, and every file is numbered by its place.
Move ==
    /\ pc = "page"
    /\ \E f, g \in DOMAIN shown :
          /\ Place(g) = Place(f) + 1
          /\ shown' = [h \in DOMAIN shown |->
                          CASE h = f -> Place(g) [] h = g -> Place(f) [] OTHER -> Place(h)]
    /\ UNCHANGED <<vars, folder>>

\* updateDriveOrder: two files may get the same order.
Type ==
    /\ pc = "page"
    /\ \E f \in DOMAIN shown, order \in 1..MaxOrder : shown' = [shown EXCEPT ![f] = order]
    /\ UNCHANGED <<vars, folder>>

-----------------------------------------------------------------------------
\* By order, then by name without regard to case.
Sorted(files, order) ==
    LET Precedes(f, g) == order[f] < order[g] \/ (order[f] = order[g] /\ Folded[f] < Folded[g])
        Nth(i)         == CHOOSE f \in files : Cardinality({g \in files : Precedes(g, f)}) = i - 1
    IN  [i \in 1..Cardinality(files) |-> [order |-> order[Nth(i)], name |-> Nth(i)]]

\* Mutant: a file without an order keeps the one of its name.
ApplyOrdersLeniently(files) ==
    job' = Sorted(files, [f \in files |-> IF f \in DOMAIN shown THEN shown[f] ELSE Extracted[f]])

\* applyDriveOrders: every file that is listed now has to have an order.
ApplyOrders(files) ==
    /\ files \subseteq DOMAIN shown
    /\ job' = Sorted(files, shown)

\* The button needs files on the page.  A refused merge changes nothing.
Merge ==
    /\ pc = "page"
    /\ shown # << >>
    /\ \E files \in Listed : ApplyOrders(files)
    /\ pc' = "fetch"
    /\ UNCHANGED <<sorted, current, next, start, round, disk, front>>

\* downloadDriveInputs, as FetchContract promises: every file is at a path
\* of its own, converted like an upload, or the job fails.
Fetch ==
    /\ pc = "fetch"
    /\ \/ /\ current' = [i \in DOMAIN job |-> LocalPath(job[i].name)]
          /\ disk' = [p \in Range(current') |-> <<CHOOSE i \in DOMAIN job : current'[i] = p>>]
          /\ pc' = "sort"
       \/ pc' = "failed" /\ UNCHANGED <<current, disk>>
    /\ UNCHANGED <<job, sorted, next, start, round, front>>

Work == Next /\ UNCHANGED front

MergeNext ==
    \/ Change \/ Preview \/ Move \/ Type \/ Merge
    \/ Fetch
    \/ Work

(* The server goes on with what it has accepted; the user does not have to. *)
MergeSpec ==
    /\ StartFolder \/ StartUpload
    /\ [][MergeNext]_allVars
    /\ WF_allVars(Fetch) /\ WF_allVars(Work)

-----------------------------------------------------------------------------
Output == [i \in DOMAIN disk[OutputPath] |-> job[disk[OutputPath][i]].name]

(* The output of a Drive merge is what the page showed, in the order it     *)
(* showed, less files that have left the folder since: a file that came     *)
(* after the preview is not merged unseen, though the server lists again.   *)
(* (For folders files.list answers in full.)                                *)
MergedAsShown ==
    pc = "done" /\ shown # << >> =>
        /\ Range(Output) \subseteq DOMAIN shown
        /\ DOMAIN shown \intersect folder \subseteq Range(Output)
        /\ \A i, k \in DOMAIN Output : i < k => ShownBefore(Output[i], Output[k])

(* A preview lists the supported files of the folder ("lists direct         *)
(* supported children for a shared Drive folder"), at least as long as      *)
(* nobody changes it.                                                       *)
PreviewComplete ==
    [][shown' # shown /\ DOMAIN shown' # DOMAIN shown => folder \ Unsupported \subseteq DOMAIN shown']_allVars
=============================================================================
