-------------------------- MODULE JobPollingProofs --------------------------
(***************************************************************************)
(* The banner of the page, for any number of users, jobs and calls on the  *)
(* wire.  Once over, a job stays over, so the copy of it that an answer    *)
(* carries may be out of date but never says too early that it has ended;  *)
(* and of all the calls only a poll takes a job out of the banner.         *)
(***************************************************************************)
EXTENDS JobPolling, TLAPS

\* A poll asks for a job, and its answer is about a job.  It says that the job
\* is over only if it is.
Polling(c) ==
    call[c].kind = "poll" =>
        /\ c \in Polls
        /\ call[c].at = "sent" => call[c].job \in Jobs
        /\ call[c].at = "ok" =>
              /\ call[c].reply.job \in Jobs
              /\ call[c].reply.status \in Over => status[call[c].reply.job] \in Over

\* A copy of a job that is not over names it; nothing has come of a call that
\* is still on its way or that failed.
Copied(c) ==
    /\ call[c].reply.status # "none" => call[c].reply.job \in Jobs
    /\ call[c].kind = "poll" /\ call[c].at = "ok" => call[c].reply.status # "none"
    /\ call[c].at \in {"sent", "error"} => call[c].reply = Nothing

IInv ==
    /\ TypeOK
    /\ \A c \in Calls : Polling(c) /\ Copied(c)

States == Waiting \union Over \union {"absent"}
Call   == [kind : Kinds, job : Jobs \union {NoJob}, as : Users \union {Nobody},
           at : {"free", "sent", "ok", "error"}, reply : Copies]

LEMMA FreeIsCall == Free \in Call /\ Nothing \in Copies
BY DEF Free, Call, Kinds, Copies, Nothing

-----------------------------------------------------------------------------
(* The server.                                                             *)

\* Every step of the server keeps the types, and jobs that are over.
LEMMA ServerKeeps ==
  ASSUME TypeOK, NEW j \in Jobs,
         \/ Server!Create(j) \/ Server!Run(j) \/ Server!Publish(j)
         \/ Server!Break(j) \/ Server!Withdraw(j) \/ Server!Remove(j)
  PROVE  /\ status' \in [Jobs -> States]
         /\ ready' \subseteq {i \in Jobs : status'[i] = "completed"}
         /\ \A i \in Jobs : status[i] \in Over => status'[i] \in Over
<1> USE DEF TypeOK, States, Over, Waiting, Server!Show
<1>1. CASE Server!Create(j)
  BY <1>1 DEF Server!Create
<1>2. CASE Server!Run(j)
  BY <1>2 DEF Server!Run
<1>3. CASE Server!Publish(j)
  BY <1>3 DEF Server!Publish
<1>4. CASE Server!Break(j)
  BY <1>4 DEF Server!Break
<1>5. CASE Server!Withdraw(j)
  BY <1>5 DEF Server!Withdraw
<1>6. CASE Server!Remove(j)
  BY <1>6 DEF Server!Remove, Server!Shown
<1>7. QED
  BY <1>1, <1>2, <1>3, <1>4, <1>5, <1>6

-----------------------------------------------------------------------------
(* A call changes.                                                         *)

\* What is left to show of a step: the call it is about, and that the server
\* keeps its types.
LEMMA OneCall ==
  ASSUME IInv, NEW c \in Calls, NEW n \in Call, call' = [call EXCEPT ![c] = n],
         status' \in [Jobs -> States], ready' \subseteq {i \in Jobs : status'[i] = "completed"},
         \A i \in Jobs : status[i] \in Over => status'[i] \in Over,
         user' \in Users \union {Nobody}, activeJob' \in [job : Jobs, status : Waiting] \union {Nothing},
         n.kind = "poll" =>
            /\ c \in Polls
            /\ n.at = "sent" => n.job \in Jobs
            /\ n.at = "ok" =>
                  n.reply.job \in Jobs /\ (n.reply.status \in Over => status'[n.reply.job] \in Over),
         n.reply.status # "none" => n.reply.job \in Jobs,
         n.kind = "poll" /\ n.at = "ok" => n.reply.status # "none",
         n.at \in {"sent", "error"} => n.reply = Nothing
  PROVE  IInv'
<1>1. call \in [Calls -> Call]
  BY DEF IInv, TypeOK, Call
<1>2. TypeOK'
  BY <1>1 DEF TypeOK, States, Call
<1>3. ASSUME NEW d \in Calls
      PROVE  Polling(d)' /\ Copied(d)'
  <2>1. CASE d = c
    <3>1. call'[d] = n
      BY <1>1, <2>1
    <3>2. QED
      BY <2>1, <3>1 DEF Polling, Copied
  <2>2. CASE d # c
    <3>1. call'[d] = call[d]
      BY <1>1, <2>2
    <3>2. QED
      BY <3>1 DEF IInv, Polling, Copied
  <2>3. QED
    BY <2>1, <2>2
<1>4. QED
  BY <1>2, <1>3 DEF IInv

\* The page sends a call.
LEMMA SendKeeps ==
  ASSUME IInv, NEW c \in Calls, NEW kind \in Kinds, NEW j \in Jobs \union {NoJob}, NEW u \in Users,
         kind = "poll" => c \in Polls /\ j \in Jobs,
         call' = [call EXCEPT ![c] = New(kind, j, u)], user' \in Users \union {Nobody},
         UNCHANGED <<server, activeJob>>
  PROVE  IInv'
<1> DEFINE n == New(kind, j, u)
<1>1. n \in Call
  BY FreeIsCall DEF New, Call
<1>2. n.kind = kind /\ n.job = j /\ n.at = "sent" /\ n.reply = Nothing
  BY DEF New
<1>3. n.reply.status = "none"
  BY <1>2 DEF Nothing
<1>4. status' = status /\ ready' = ready /\ activeJob' = activeJob
  BY DEF server
<1>5. call' = [call EXCEPT ![c] = n]
  OBVIOUS
<1> HIDE DEF n
<1>6. /\ status' \in [Jobs -> States] /\ ready' \subseteq {i \in Jobs : status'[i] = "completed"}
      /\ activeJob' \in [job : Jobs, status : Waiting] \union {Nothing}
      /\ \A i \in Jobs : status[i] \in Over => status'[i] \in Over
  BY <1>4 DEF IInv, TypeOK, States
<1>7. /\ n.kind = "poll" => c \in Polls /\ n.job \in Jobs
      /\ n.at # "ok"
  BY <1>2
<1>8. QED
  BY <1>1, <1>2, <1>3, <1>5, <1>6, <1>7, OneCall

LEMMA PageSends ==
  ASSUME IInv, (\E c \in Polls : Tick(c)) \/ (\E c \in Clicks : Click(c) \/ Login(c))
  PROVE  IInv'
<1>1. CASE \E c \in Polls : Tick(c)
  <2>1. PICK c \in Polls : activeJob.status \in Waiting /\ Send(c, "poll", activeJob.job)
    BY <1>1 DEF Tick
  <2>2. activeJob.job \in Jobs
    BY <2>1 DEF IInv, TypeOK, Nothing, Waiting
  <2>3. user \in Users /\ c \in Calls /\ "poll" \in Kinds
    BY <2>1 DEF Send, IInv, TypeOK, Calls, Kinds
  <2>4. QED
    BY <2>1, <2>2, <2>3, SendKeeps DEF Send
<1>2. CASE \E c \in Clicks : Click(c)
  <2>1. PICK c \in Clicks, kind \in {"start", "view", "delete", "retry"}, j \in Jobs \union {NoJob} :
           Send(c, kind, j)
    BY <1>2 DEF Click, Submit, View, Delete, Retry, Offered
  <2>2. user \in Users /\ c \in Calls /\ kind \in Kinds
    BY <2>1 DEF Send, IInv, TypeOK, Calls, Kinds
  <2>3. QED
    BY <2>1, <2>2, SendKeeps DEF Send
<1>3. CASE \E c \in Clicks : Login(c)
  <2>1. PICK c \in Clicks, u \in Users :
           user' = u /\ call' = [call EXCEPT ![c] = New("bootstrap", NoJob, u)]
    BY <1>3 DEF Login
  <2>2. c \in Calls /\ "bootstrap" \in Kinds /\ UNCHANGED <<server, activeJob>>
    BY <1>3 DEF Login, Calls, Kinds
  <2>3. QED
    BY <2>1, <2>2, SendKeeps
<1>4. QED
  BY <1>1, <1>2, <1>3

\* What is left of a call that was answered.
LEMMA EndIsCall ==
  ASSUME NEW c \in Calls, call[c] \in Call, NEW at \in {"ok", "error"}, NEW reply \in Copies,
         End(c, at, reply)
  PROVE  \E n \in Call : /\ call' = [call EXCEPT ![c] = n] /\ n.at = at /\ n.reply = reply
                         /\ (n.kind = "poll" => call[c].kind = "poll")
<1> DEFINE told == call[c].kind = "poll" \/ (call[c].kind = "bootstrap" /\ at = "error")
           kind == IF told THEN call[c].kind ELSE "click"
           n    == [Free EXCEPT !.kind = kind, !.at = at, !.reply = reply]
<1>1. kind \in Kinds /\ (kind = "poll" => call[c].kind = "poll")
  BY DEF Call, Kinds
<1>2. call' = [call EXCEPT ![c] = n]
  BY DEF End
<1> HIDE DEF kind
<1>3. n \in Call /\ n.at = at /\ n.reply = reply /\ n.kind = kind
  BY <1>1 DEF Free, Call
<1> HIDE DEF n
<1>4. QED
  BY <1>1, <1>2, <1>3

\* The server answers.
LEMMA AnswerKeeps ==
  ASSUME IInv, NEW c \in Calls, Answer(c)
  PROVE  IInv'
<1>1. call[c].at = "sent" /\ UNCHANGED <<user, activeJob>> /\ call[c] \in Call /\ call \in [Calls -> Call]
  BY DEF Answer, IInv, TypeOK, Call
<1>2. /\ call[c].kind = "poll" => c \in Polls /\ call[c].job \in Jobs
      /\ call[c].reply = Nothing
  BY <1>1 DEF IInv, Polling, Copied
<1>3. ASSUME NEW j \in Jobs \union {NoJob}, NEW s \in Waiting \union Over \union {"none"}, Reply(c, j, s),
             s # "none" => j \in Jobs,
             call[c].kind = "poll" => j = call[c].job /\ s # "none" /\ (s \in Over => status'[j] \in Over),
             status' \in [Jobs -> States], ready' \subseteq {i \in Jobs : status'[i] = "completed"},
             \A i \in Jobs : status[i] \in Over => status'[i] \in Over
      PROVE  IInv'
  <2> DEFINE r == [job |-> j, status |-> s]
  <2>1. r \in Copies /\ r.job = j /\ r.status = s
    BY DEF Copies
  <2>2. PICK n \in Call : /\ call' = [call EXCEPT ![c] = n] /\ n.at = "ok" /\ n.reply = r
                          /\ (n.kind = "poll" => call[c].kind = "poll")
    <3>1. End(c, "ok", r)
      BY <1>3 DEF Reply
    <3> HIDE DEF r
    <3>2. QED
      BY <1>1, <2>1, <3>1, EndIsCall
  <2> HIDE DEF r
  <2>3. QED
    BY <1>1, <1>2, <1>3, <2>1, <2>2, OneCall DEF IInv, TypeOK
<1>4. UNCHANGED server => /\ status' \in [Jobs -> States]
                          /\ ready' \subseteq {i \in Jobs : status'[i] = "completed"}
                          /\ status' = status
  BY DEF server, IInv, TypeOK, States
<1>5. CASE Accept(c)
  <2>1. PICK j \in Jobs : Server!Create(j) /\ Reply(c, j, "pending")
    BY <1>5 DEF Accept
  <2>2. call[c].kind # "poll"
    BY <1>5 DEF Accept
  <2>3. QED
    BY <1>3, <2>1, <2>2, ServerKeeps DEF Waiting, IInv
<1>6. CASE Show(c)
  <2>1. /\ call[c].job \in Jobs /\ status[call[c].job] \in Waiting \union Over
        /\ Reply(c, call[c].job, status[call[c].job]) /\ UNCHANGED server
    BY <1>1, <1>6 DEF Show, Granted, Server!Shown, Waiting, Over, Call
  <2>2. status[call[c].job] # "none"
    BY <2>1 DEF Waiting, Over
  <2>3. QED
    BY <1>3, <1>4, <2>1, <2>2
<1>7. CASE Remove(c)
  <2>1. call[c].job \in Jobs /\ Server!Remove(call[c].job) /\ Reply(c, NoJob, "none")
    BY <1>1, <1>7 DEF Remove, Granted, Call
  <2>2. call[c].kind # "poll"
    BY <1>7 DEF Remove
  <2>3. QED
    BY <1>3, <2>1, <2>2, ServerKeeps DEF IInv
<1>8. CASE List(c)
  <2>1. call[c].kind # "poll" /\ UNCHANGED server
    BY <1>8 DEF List
  <2>2. \/ \E j \in Jobs : status[j] \in Waiting /\ Reply(c, j, status[j])
        \/ Reply(c, NoJob, "none")
    BY <1>8 DEF List
  <2>3. QED
    BY <1>3, <1>4, <2>1, <2>2
<1>9. CASE Refuse(c)
  <2>1. End(c, "error", Nothing) /\ UNCHANGED server
    BY <1>9 DEF Refuse
  <2>2. PICK n \in Call : /\ call' = [call EXCEPT ![c] = n] /\ n.at = "error" /\ n.reply = Nothing
                          /\ (n.kind = "poll" => call[c].kind = "poll")
    BY <1>1, <2>1, FreeIsCall, EndIsCall
  <2>3. n.reply.status = "none"
    BY <2>2 DEF Nothing
  <2>4. QED
    BY <1>1, <1>2, <1>4, <2>1, <2>2, <2>3, OneCall DEF IInv, TypeOK
<1>10. QED
  BY <1>5, <1>6, <1>7, <1>8, <1>9 DEF Answer

\* The page receives.
LEMMA DeliverKeeps ==
  ASSUME IInv, NEW c \in Calls, Deliver(c)
  PROVE  IInv'
<1>1. call' = [call EXCEPT ![c] = Free] /\ user' \in Users \union {Nobody} /\ UNCHANGED server
  BY DEF Deliver, IInv, TypeOK
<1>2. status' = status /\ ready' = ready
  BY <1>1 DEF server
<1>3. activeJob' \in [job : Jobs, status : Waiting] \union {Nothing}
  <2>1. call[c].reply.status \in Waiting => call[c].reply \in [job : Jobs, status : Waiting]
    <3>1. call[c].reply \in Copies
      BY DEF IInv, TypeOK
    <3>2. call[c].reply.status # "none" => call[c].reply.job \in Jobs
      BY DEF IInv, Copied
    <3>3. QED
      BY <3>1, <3>2 DEF Copies, Waiting
  <2>2. activeJob' \in {call[c].reply, Nothing, activeJob}
        /\ (activeJob' = call[c].reply => activeJob' \in {Nothing, activeJob} \/ call[c].reply.status \in Waiting)
    BY DEF Deliver, Polled, Clicked
  <2>3. QED
    BY <2>1, <2>2 DEF IInv, TypeOK
<1>4. Free.kind = "none" /\ Free.at = "free" /\ Free.reply.status = "none"
  BY DEF Free, Nothing
<1>5. QED
  BY <1>1, <1>2, <1>3, <1>4, FreeIsCall, OneCall DEF IInv, TypeOK, States

\* Jobs go on, and the user leaves.
LEMMA RestKeeps ==
  ASSUME IInv, Progress \/ Logout \/ UNCHANGED vars
  PROVE  IInv'
<1>1. UNCHANGED <<call, activeJob>>
  BY DEF Progress, Logout, vars
<1>2. /\ status' \in [Jobs -> States] /\ ready' \subseteq {i \in Jobs : status'[i] = "completed"}
      /\ \A i \in Jobs : status[i] \in Over => status'[i] \in Over
  <2>1. CASE Progress
    BY <2>1, ServerKeeps DEF Progress, IInv
  <2>2. CASE Logout \/ UNCHANGED vars
    BY <2>2 DEF Logout, vars, server, IInv, TypeOK, States
  <2>3. QED
    BY <2>1, <2>2
<1>3. user' \in Users \union {Nobody}
  BY DEF Progress, Logout, vars, IInv, TypeOK
<1>4. TypeOK'
  BY <1>1, <1>2, <1>3 DEF IInv, TypeOK, States
<1>5. \A c \in Calls : Polling(c)' /\ Copied(c)'
  BY <1>1, <1>2 DEF IInv, Polling, Copied
<1>6. QED
  BY <1>4, <1>5 DEF IInv

LEMMA Starting == Init => IInv
<1> SUFFICES ASSUME Init PROVE IInv
  OBVIOUS
<1>1. TypeOK
  BY FreeIsCall DEF Init, Server!Init, TypeOK, Call
<1>2. ASSUME NEW c \in Calls
      PROVE  Polling(c) /\ Copied(c)
  BY DEF Init, Free, Nothing, Polling, Copied
<1>3. QED
  BY <1>1, <1>2 DEF IInv

LEMMA StepKeeps == IInv /\ [Next]_vars => IInv'
BY PageSends, AnswerKeeps, DeliverKeeps, RestKeeps DEF Next

LEMMA Invariance == Spec => []IInv
BY Starting, StepKeeps, PTL DEF Spec

-----------------------------------------------------------------------------
(* The variables have their types; in particular the banner never holds a  *)
(* job that was over when the page last heard of it.                       *)
THEOREM TypeCorrect == Spec => []TypeOK
<1>1. IInv => TypeOK
  BY DEF IInv
<1>2. QED
  BY <1>1, Invariance, PTL

(* The banner stays until its job is over, a poll fails or another job's   *)
(* poll is answered with the end of that job, for any number of jobs,      *)
(* users, clicks and polls on the wire: no click, no login or logout and   *)
(* no copy that is out of date drops it for another reason (pollJob).      *)
THEOREM BannerStays == Spec => BannerDropsOnlyEnded
<1>1. IInv /\ [Next]_vars => [Dropped => status[activeJob.job] \in Over \/ PollFails \/ StrayPoll]_vars
  <2>1. SUFFICES ASSUME IInv, [Next]_vars, activeJob # Nothing, activeJob' = Nothing
                 PROVE  status[activeJob.job] \in Over \/ PollFails \/ StrayPoll
    BY DEF Dropped
  <2>2. PICK c \in Calls : Deliver(c)
    BY <2>1 DEF Next, vars, Tick, Click, Submit, View, Delete, Retry, Send, Login, Answer, Logout, Progress
  <2>3. /\ call'[c] = Free /\ call[c].at \in {"ok", "error"}
        /\ IF call[c].kind = "poll" THEN Polled(c) ELSE Clicked(c)
        /\ call[c].reply \in Copies
    BY <2>1, <2>2 DEF Deliver, IInv, TypeOK
  <2>4. call[c].kind = "poll"
    BY <2>1, <2>3 DEF Clicked, Nothing, Waiting
  <2>5. c \in Polls
    BY <2>1, <2>4 DEF IInv, Polling
  <2>6. CASE call[c].at = "error"
    BY <2>3, <2>5, <2>6 DEF PollFails
  <2>7. CASE call[c].at = "ok"
    <3>1. call[c].reply.status \notin Waiting
      BY <2>1, <2>3, <2>4 DEF Polled, Nothing, Waiting
    <3>2. call[c].reply.status \in Over
      BY <2>1, <2>3, <2>4, <2>7, <3>1 DEF IInv, Copied, Copies
    <3>3. status[call[c].reply.job] \in Over
      BY <2>1, <2>4, <2>7, <3>2 DEF IInv, Polling
    <3>4. QED
      BY <2>3, <2>5, <2>7, <3>3 DEF StrayPoll
  <2>8. QED
    BY <2>3, <2>6, <2>7
<1>2. QED
  BY <1>1, Invariance, PTL DEF Spec, BannerDropsOnlyEnded
=============================================================================
