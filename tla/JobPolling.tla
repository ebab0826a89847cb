----------------------------- MODULE JobPolling -----------------------------
(***************************************************************************)
(* The progress banner of App.tsx: while its job is pending or running an  *)
(* interval polls it, also when the poll before is not answered yet.       *)
(* Clicks start, retry, view and delete jobs, users log in and out.        *)
(* A call is sent, answered by the server and delivered to the page, in    *)
(* any order with the others; React renders between two deliveries.        *)
(*                                                                         *)
(* The server is any implementation of JobContract.  The list of jobs and  *)
(* the detail pane, which the banner does not depend on, are left out.     *)
(***************************************************************************)
CONSTANTS
    Jobs,
    Clicks,     \* bound: calls of the user's clicks on the wire at a time
    Polls,      \* bound: polls on the wire at a time
    NoJob,      \* no job
    Users,
    Admins,     \* users who may see every job
    Owner,      \* whose job a job is, or will be
    Nobody,     \* no user
    Faults      \* {"lost"}: a call may fail; {}: none does

Calls == Clicks \union Polls

ASSUME CallsAssumption == Clicks \intersect Polls = {}
ASSUME NoJobAssumption == NoJob \notin Jobs
ASSUME UsersAssumption == Owner \in [Jobs -> Users] /\ Admins \subseteq Users /\ Nobody \notin Users

VARIABLES
    status,     \* the server: the status of a job
    ready,      \* the server: jobs whose file can be downloaded
    user,       \* the user whose token the page holds
    activeJob,  \* the job of the banner as last received
    call        \* the calls on the wire

vars == <<status, ready, user, activeJob, call>>

Server == INSTANCE JobContract
server == <<status, ready>>

Waiting == {"pending", "running"}
Over    == {"completed", "failed", "deleted"}
Copies  == [job : Jobs \union {NoJob}, status : Waiting \union Over \union {"none"}]
Nothing == [job |-> NoJob, status |-> "none"]
Kinds   == {"none", "start", "retry", "poll", "view", "delete", "bootstrap", "click"}
Free    == [kind |-> "none", job |-> NoJob, as |-> Nobody, at |-> "free", reply |-> Nothing]
New(kind, j, u) == [kind |-> kind, job |-> j, as |-> u, at |-> "sent", reply |-> Nothing]

\* CanAccessJob.
Sees(u, j) == u \in Admins \/ u = Owner[j]

Init ==
    /\ Server!Init
    /\ user \in Users
    /\ activeJob = Nothing
    /\ call = [c \in Calls |-> Free]

-----------------------------------------------------------------------------
(* The page sends.                                                         *)

Send(c, kind, j) ==
    /\ user # Nobody
    /\ call[c] = Free
    /\ call' = [call EXCEPT ![c] = New(kind, j, user)]
    /\ UNCHANGED <<server, user, activeJob>>

\* Mutant: a job that waits for its turn is not polled.
TickRunning(c) == activeJob.status = "running" /\ Send(c, "poll", activeJob.job)

\* The interval of the effect on activeJob.
Tick(c) == activeJob.status \in Waiting /\ Send(c, "poll", activeJob.job)

Submit(c) == Send(c, "start", NoJob)
\* The list of jobs may be stale, and outlives a logout like the banner.
Offered   == {j \in Jobs : status[j] # "absent"}
View(c)   == \E j \in Offered : Send(c, "view", j)
Delete(c) == \E j \in Offered : Send(c, "delete", j)

\* The button is disabled while the job is shown as pending or running.
Retry(c) == \E j \in Offered : status[j] \in Over /\ Send(c, "retry", j)

Click(c) == Submit(c) \/ View(c) \/ Delete(c) \/ Retry(c)

\* The page keeps the banner when its user logs out, and comes back through
\* bootstrap when one logs in, maybe another.
Logout ==
    /\ user # Nobody
    /\ user' = Nobody
    /\ UNCHANGED <<server, activeJob, call>>

Login(c) ==
    /\ user = Nobody
    /\ call[c] = Free
    /\ \E u \in Users :
          /\ user' = u
          /\ call' = [call EXCEPT ![c] = New("bootstrap", NoJob, u)]
    /\ UNCHANGED <<server, activeJob>>

-----------------------------------------------------------------------------
(* The server answers with what it has at that moment.                     *)

\* The page does the same with all answers but those of a poll and of a
\* bootstrap that fails, whoever asked for them.
End(c, at, reply) ==
    LET told == call[c].kind = "poll" \/ (call[c].kind = "bootstrap" /\ at = "error")
    IN  call' = [call EXCEPT ![c] = [Free EXCEPT !.kind = IF told THEN call[c].kind ELSE "click",
                                                 !.at = at, !.reply = reply]]

Reply(c, j, s) == End(c, "ok", [job |-> j, status |-> s])

\* The job is there, and CanAccessJob lets the user at it.
Granted(c) ==
    call[c].job # NoJob /\ status[call[c].job] \in Server!Shown /\ Sees(call[c].as, call[c].job)

\* A retry belongs to the owner of the job, whoever asks for it.
Accept(c) ==
    /\ call[c].kind = "start" \/ (call[c].kind = "retry" /\ Granted(c))
    /\ \E j \in Jobs :
          /\ Owner[j] = IF call[c].kind = "start" THEN call[c].as ELSE Owner[call[c].job]
          /\ Server!Create(j)
          /\ Reply(c, j, "pending")

\* Mutant: the job is shown to whoever asks.
ShowToAll(c) ==
    /\ call[c].kind \in {"poll", "view"}
    /\ status[call[c].job] \in Server!Shown
    /\ Reply(c, call[c].job, status[call[c].job])
    /\ UNCHANGED server

Show(c) ==
    /\ call[c].kind \in {"poll", "view"}
    /\ Granted(c)
    /\ Reply(c, call[c].job, status[call[c].job])
    /\ UNCHANGED server

Remove(c) ==
    /\ call[c].kind = "delete"
    /\ Granted(c)
    /\ Server!Remove(call[c].job)
    /\ Reply(c, NoJob, "none")

\* bootstrap takes the first job of the list that is not over: the newest,
\* which may be any of them.
List(c) ==
    LET running == {j \in Jobs : status[j] \in Waiting /\ Sees(call[c].as, j)}
    IN  /\ call[c].kind = "bootstrap"
        /\ \/ \E j \in running : Reply(c, j, status[j])
           \/ running = {} /\ Reply(c, NoJob, "none")
        /\ UNCHANGED server

\* No job of that id is left for this user, there is nothing to merge, or
\* the call fails.
Refuse(c) ==
    /\ \/ call[c].job # NoJob /\ ~Granted(c)
       \/ call[c].kind \in {"start", "retry"}
       \/ "lost" \in Faults
    /\ End(c, "error", Nothing)
    /\ UNCHANGED server

Answer(c) ==
    /\ call[c].at = "sent"
    /\ Accept(c) \/ Show(c) \/ Remove(c) \/ List(c) \/ Refuse(c)
    /\ UNCHANGED <<user, activeJob>>

Progress ==
    /\ \E j \in Jobs : Server!Run(j) \/ Server!Publish(j) \/ Server!Break(j) \/ Server!Withdraw(j)
    /\ UNCHANGED <<user, activeJob, call>>

-----------------------------------------------------------------------------
(* The page receives.                                                      *)

\* pollJob: the end of a job clears the banner, and so does an error.
Polled(c) ==
    activeJob' = IF call[c].reply.status \in Waiting THEN call[c].reply ELSE Nothing

\* Mutant: to view a job that is over clears the banner.
ClickedClears(c) ==
    activeJob' = IF call[c].reply.status \in Waiting THEN call[c].reply ELSE
                 IF call[c].reply = Nothing THEN activeJob ELSE Nothing

\* The other calls put a job that is not over into the banner.
Clicked(c) ==
    activeJob' = IF call[c].reply.status \in Waiting THEN call[c].reply ELSE activeJob

Deliver(c) ==
    /\ call[c].at \in {"ok", "error"}
    /\ IF call[c].kind = "poll" THEN Polled(c) ELSE Clicked(c)
    /\ user' = IF call[c].kind = "bootstrap" /\ call[c].at = "error" THEN Nobody ELSE user
    /\ call' = [call EXCEPT ![c] = Free]
    /\ UNCHANGED server

-----------------------------------------------------------------------------
Next ==
    \/ \E c \in Polls : Tick(c)
    \/ \E c \in Clicks : Click(c) \/ Login(c)
    \/ \E c \in Calls : Answer(c) \/ Deliver(c)
    \/ Logout
    \/ Progress

Spec == Init /\ [][Next]_vars

(* A call ends, if only because its connection breaks, and the interval of *)
(* the browser fires.  Neither the user nor the server has to do anything. *)
FairSpec ==
    /\ Spec
    /\ \A c \in Calls : WF_vars(Answer(c)) /\ WF_vars(Deliver(c))
    /\ WF_vars(\E c \in Polls : Tick(c))

-----------------------------------------------------------------------------
TypeOK ==
    /\ status \in [Jobs -> Waiting \union Over \union {"absent"}]
    /\ ready \subseteq {j \in Jobs : status[j] = "completed"}
    /\ user \in Users \union {Nobody}
    /\ activeJob \in [job : Jobs, status : Waiting] \union {Nothing}
    /\ call \in [Calls -> [kind : Kinds, job : Jobs \union {NoJob},
                           as : Users \union {Nobody}, at : {"free", "sent", "ok", "error"}, reply : Copies]]

PollFails == \E c \in Polls : call[c].at = "error" /\ call'[c] = Free

\* A late poll ends: its job is over, and no longer the one of the banner.
StrayPoll ==
    \E c \in Polls :
        /\ call[c].at = "ok" /\ call'[c] = Free
        /\ call[c].reply.job # activeJob.job /\ status[call[c].reply.job] \in Over

Dropped == activeJob # Nothing /\ activeJob' = Nothing

(* The banner stays as long as its job is not over ("Show progress percent *)
(* ... while a merge job is still running"), however calls overlap and     *)
(* answers overtake each other, unless a poll fails or a poll of another   *)
(* job, asked before the banner changed hands, is answered with its end.   *)
BannerDropsOnlyEnded ==
    [][Dropped => status[activeJob.job] \in Over \/ PollFails \/ StrayPoll]_vars

(* The same without the last exception, as the page means it: false once   *)
(* the user starts or views a second job (pollJob does not look at whose   *)
(* answer it has).                                                         *)
BannerKeptForItsJob ==
    [][Dropped => status[activeJob.job] \in Over \/ PollFails]_vars

Foreign == user # Nobody /\ activeJob # Nothing /\ ~Sees(user, activeJob.job)

(* Logging out leaves the banner as it is, and late answers to the user who *)
(* left fill it: whoever logs in next may see another user's job, but only *)
(* until the server has refused to show it.                                *)
ForeignBannerLeaves == Foreign ~> ~Foreign

(* A job that is over leaves the banner for good, though late answers can  *)
(* put it back: as long as somebody is logged in, polling sees to it.      *)
EndedLeavesBanner ==
    \A j \in Jobs :
        <>[](status[j] \in Over => activeJob.job # j) \/ []<>(user = Nobody)
=============================================================================
