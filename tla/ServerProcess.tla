--------------------------- MODULE ServerProcess ---------------------------
(***************************************************************************)
(* How the server process ends: main blocks in ListenAndServe, a second    *)
(* goroutine waits for SIGINT or SIGTERM and calls Shutdown with ten       *)
(* seconds to go, request handlers and the goroutines of merge jobs run    *)
(* beside them and query the database.                                     *)
(*                                                                         *)
(* net/http: Shutdown closes the listener, which makes ListenAndServe      *)
(* return ErrServerClosed at once, and then waits for the handlers.        *)
(* pgxpool: Close lets no query start and waits for those that run.        *)
(***************************************************************************)
CONSTANTS Handlers, Merges      \* request handlers and job goroutines

Tasks == Handlers \union Merges

ASSUME TasksAssumption == Handlers \intersect Merges = {}

VARIABLES
    main,       \* "serving", "closing" the pool, or "exited"
    closer,     \* "waiting" for a signal, "draining", or "over"
    task,       \* what each task does: "none", "running", "query", "over"
    window      \* the ten seconds: "unset", "open" or "expired"

vars == <<main, closer, task, window>>

Init ==
    /\ main = "serving"
    /\ closer = "waiting"
    /\ task = [t \in Tasks |-> "none"]
    /\ window = "unset"

Alive == main # "exited"
Becomes(t, what) == task' = [task EXCEPT ![t] = what]

-----------------------------------------------------------------------------
\* A connection is accepted as long as the listener is open.
Accept(h) ==
    /\ main = "serving" /\ closer = "waiting"
    /\ task[h] = "none"
    /\ Becomes(h, "running")
    /\ UNCHANGED <<main, closer, window>>

\* go s.processDriveMerge, from a handler.
Spawn(m) ==
    /\ Alive
    /\ \E h \in Handlers : task[h] = "running"
    /\ task[m] = "none"
    /\ Becomes(m, "running")
    /\ UNCHANGED <<main, closer, window>>

\* A query acquires a connection, unless the pool is closing.
Query(t) ==
    /\ main = "serving"
    /\ task[t] = "running"
    /\ Becomes(t, "query")
    /\ UNCHANGED <<main, closer, window>>

Answered(t) ==
    /\ Alive
    /\ task[t] = "query"
    /\ Becomes(t, "running")
    /\ UNCHANGED <<main, closer, window>>

Finish(t) ==
    /\ Alive
    /\ task[t] = "running"
    /\ Becomes(t, "over")
    /\ UNCHANGED <<main, closer, window>>

-----------------------------------------------------------------------------
\* <-shutdownCtx.Done(), the context with its timeout, and Shutdown closes
\* the listener.
Signal ==
    /\ Alive
    /\ closer = "waiting"
    /\ closer' = "draining"
    /\ window' = "open"
    /\ UNCHANGED <<main, task>>

Timeout ==
    /\ Alive
    /\ window = "open"
    /\ window' = "expired"
    /\ UNCHANGED <<main, closer, task>>

Drained == \A h \in Handlers : task[h] \in {"none", "over"}

\* Shutdown returns, and the goroutine with it.
StopDraining ==
    /\ Alive
    /\ closer = "draining"
    /\ Drained \/ window = "expired"
    /\ closer' = "over"
    /\ UNCHANGED <<main, task, window>>

\* The listener fails by itself: log.Fatalf exits and runs no deferred call,
\* so the pool is not closed and a running query is cut off.
Fatal ==
    /\ main = "serving" /\ closer = "waiting"
    /\ main' = "exited"
    /\ UNCHANGED <<closer, task, window>>

\* ListenAndServe returns ErrServerClosed, and main runs its deferred calls.
Return ==
    /\ main = "serving"
    /\ closer # "waiting"
    /\ main' = "closing"
    /\ UNCHANGED <<closer, task, window>>

\* Mutant: main waits for every goroutine, with no deadline.
ExitWhenIdle ==
    /\ main = "closing"
    /\ \A t \in Tasks : task[t] \in {"none", "over"}
    /\ main' = "exited"
    /\ UNCHANGED <<closer, task, window>>

\* db.Close returns, main returns, the process is gone with every goroutine.
Exit ==
    /\ main = "closing"
    /\ \A t \in Tasks : task[t] # "query"
    /\ main' = "exited"
    /\ UNCHANGED <<closer, task, window>>

Leave == Return \/ Exit

Next ==
    \/ Fatal \/ Leave \/ Signal \/ Timeout \/ StopDraining
    \/ \E h \in Handlers : Accept(h)
    \/ \E m \in Merges : Spawn(m)
    \/ \E t \in Tasks : Query(t) \/ Answered(t) \/ Finish(t)

Spec == Init /\ [][Next]_vars

(* main goes on when it can, and a query that has started ends.            *)
FairSpec == Spec /\ WF_vars(Leave) /\ \A t \in Tasks : WF_vars(Answered(t))

-----------------------------------------------------------------------------
TypeOK ==
    /\ main \in {"serving", "closing", "exited"}
    /\ closer \in {"waiting", "draining", "over"}
    /\ task \in [Tasks -> {"none", "running", "query", "over"}]
    /\ window \in {"unset", "open", "expired"}
    /\ closer = "waiting" <=> window = "unset"

(* A signal ends the process, whatever the handlers are doing.             *)
SignalEnds == closer # "waiting" ~> main = "exited"

(* Shutdown "gives in-flight merge requests a brief drain window during    *)
(* process termination": after a signal the process outlives the handlers  *)
(* or the window.                                                          *)
DrainWindow ==
    main = "exited" /\ closer # "waiting" => Drained \/ window = "expired"
=============================================================================
