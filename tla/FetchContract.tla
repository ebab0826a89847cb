--------------------------- MODULE FetchContract ---------------------------
(***************************************************************************)
(* What downloadDriveInputs promises to processDriveMerge: inputs are      *)
(* filled one at a time, in any order, and the call gives one verdict.  It *)
(* may give up at any moment, but it says "ok" only when every input is    *)
(* filled, and no input changes once the verdict is out.                   *)
(***************************************************************************)
CONSTANT Files              \* the inputs the merge needs

VARIABLES got,              \* the inputs that have been filled
          verdict           \* "running", "ok" or "failed"

vars == <<got, verdict>>

Init ==
    /\ got = {}
    /\ verdict = "running"

Fill(f) ==
    /\ verdict = "running"
    /\ f \notin got
    /\ got' = got \union {f}
    /\ UNCHANGED verdict

Succeed ==
    /\ verdict = "running"
    /\ got = Files
    /\ verdict' = "ok"
    /\ UNCHANGED got

GiveUp ==
    /\ verdict = "running"
    /\ verdict' = "failed"
    /\ UNCHANGED got

Next == Succeed \/ GiveUp \/ \E f \in Files : Fill(f)

Spec == Init /\ [][Next]_vars
=============================================================================
