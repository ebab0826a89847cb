---------------------------- MODULE JobContract -----------------------------
(***************************************************************************)
(* Merge jobs as a client of the API sees them: the status it polls, and   *)
(* whether the merged file can be downloaded.  The file is there in the    *)
(* very step that shows "completed", and once it is gone it never comes    *)
(* back.  A status only moves forward; "completed" may still turn into     *)
(* "failed", when the answer to the write of "completed" is lost.          *)
(***************************************************************************)
CONSTANT Jobs

VARIABLES status,           \* what GET /api/jobs/{id} shows
          ready             \* jobs whose download would find the file

vars == <<status, ready>>

Shown == {"pending", "running", "completed", "failed"}

Init ==
    /\ status = [j \in Jobs |-> "absent"]
    /\ ready = {}

Show(j, s) == status' = [status EXCEPT ![j] = s]

Create(j) ==
    /\ status[j] = "absent"
    /\ Show(j, "pending")
    /\ UNCHANGED ready

Run(j) ==
    /\ status[j] = "pending"
    /\ Show(j, "running")
    /\ UNCHANGED ready

Publish(j) ==
    /\ status[j] \in {"pending", "running"}
    /\ Show(j, "completed")
    /\ ready' = ready \union {j}

Break(j) ==
    /\ status[j] \in {"pending", "running", "completed"}
    /\ Show(j, "failed")
    /\ ready' = ready \ {j}

\* A delete removes the file first; the row may survive it.
Withdraw(j) ==
    /\ status[j] = "completed"
    /\ ready' = ready \ {j}
    /\ UNCHANGED status

Remove(j) ==
    /\ status[j] \in Shown
    /\ Show(j, "deleted")
    /\ ready' = ready \ {j}

Next == \E j \in Jobs : Create(j) \/ Run(j) \/ Publish(j) \/ Break(j) \/ Withdraw(j) \/ Remove(j)

Spec == Init /\ [][Next]_vars
=============================================================================
