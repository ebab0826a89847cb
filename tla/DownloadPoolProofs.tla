------------------------- MODULE DownloadPoolProofs -------------------------
(***************************************************************************)
(* Proofs about DownloadPool for any number of files, workers and          *)
(* attempts, and any assignment of paths.                                  *)
(***************************************************************************)
EXTENDS DownloadPool, TLAPS

(* Every index already sent is filled, held by a worker that has not yet   *)
(* offered an error, or lost to an error that is in the channel.           *)
Accounted(f) ==
    \/ f \in filled
    \/ \E w \in Workers : Busy(w) /\ pc[w] # "cancel" /\ file[w] = f
    \/ errCh # "none"

Books ==
    /\ result = "none" <=> feeder # "returned"
    /\ feeder = "returned" => \A w \in Workers : pc[w] = "done"
    /\ result = "none" => \A f \in Files : f < next => Accounted(f)
    /\ feeder = "waiting" /\ next \in Files => errCh # "none"
    /\ result = "nil" => filled = Files

(* The context is cancelled, and a cancellation reported, only after the   *)
(* first error is in the channel.                                          *)
ErrorFirst ==
    /\ cancelled /\ feeder # "returned" => errCh # "none"
    /\ \A w \in Workers : pc[w] = "cancel" => errCh # "none"
    /\ \A w \in Workers : pc[w] = "report" =>
          /\ err[w] # "none"
          /\ err[w] = "canceled" => errCh # "none"
    /\ errCh # "canceled"
    /\ result # "canceled"

(* Workers hold different indices, all sent and none filled.               *)
Slots ==
    /\ \A f \in filled : f < next
    /\ \A w \in Workers : Busy(w) =>
          /\ file[w] \in Files
          /\ file[w] < next
          /\ file[w] \notin filled
    /\ \A v, w \in Workers : v # w /\ Busy(v) /\ Busy(w) => file[v] # file[w]

Backed ==
    /\ linked \ keyed \subseteq stored
    /\ \A w \in Workers : pc[w] = "link" => file[w] \in stored

IInv == TypeOK /\ Books /\ ErrorFirst /\ Slots /\ Backed

(* The ways a worker moves on keep the types of its pc, attempt and error. *)
WorkerTypes ==
    /\ pc \in [Workers -> Spots]
    /\ attempt \in [Workers -> 0..MaxAttempts]
    /\ err \in [Workers -> Kinds \union {"none"}]

LEMMA AdvanceType ==
    ASSUME TypeOK, NEW w \in Workers, NEW spot \in Spots, Advance(w, spot)
    PROVE  WorkerTypes'
BY DEF TypeOK, WorkerTypes, Advance

LEMMA TryAgainType ==
    ASSUME TypeOK, NEW w \in Workers, NEW kind \in Kinds,
           GiveUp(w, kind) \/ TryAgain(w, kind)
    PROVE  WorkerTypes'
<1> USE DEF TypeOK, WorkerTypes
<1>1. CASE GiveUp(w, kind)
  BY <1>1 DEF GiveUp, Spots
<1>2. CASE attempt[w] < MaxAttempts /\ TryAgain(w, kind)
  <2>1. attempt[w] + 1 \in 0..MaxAttempts
    BY <1>2, AttemptsAssumption
  <2>2. pc' = [pc EXCEPT ![w] = "check"] /\ err' = err
    BY <1>2, AttemptsAssumption DEF TryAgain
  <2>3. attempt' = [attempt EXCEPT ![w] = attempt[w] + 1]
    BY <1>2, AttemptsAssumption DEF TryAgain
  <2> QED
    BY <2>1, <2>2, <2>3 DEF Spots
<1> QED
  BY <1>1, <1>2 DEF TryAgain

LEMMA DiskType ==
    ASSUME TypeOK, NEW p \in Paths, NEW S \in SUBSET Files
    PROVE  [disk EXCEPT ![p] = S] \in [Paths -> SUBSET Files]
BY DEF TypeOK

(* Every step keeps the types. *)
LEMMA TypeStep == TypeOK /\ Slots /\ [Next]_vars => TypeOK'
<1> SUFFICES ASSUME TypeOK, Slots, [Next]_vars PROVE TypeOK'
  OBVIOUS
<1> USE NAssumption, AttemptsAssumption, PathsAssumption DEF TypeOK, Slots, Busy, Files, Kinds, Spots, cacheVars, feedVars
<1>1. CASE FeederBreak
  BY <1>1 DEF FeederBreak
<1>2. CASE FeederDone
  BY <1>2 DEF FeederDone
<1>3. CASE Return
  BY <1>3 DEF Return
<1>4. ASSUME NEW w \in Workers, Hand(w) PROVE TypeOK'
  BY <1>4 DEF Hand
<1>5. ASSUME NEW w \in Workers, RecvClosed(w) PROVE TypeOK'
  BY <1>5 DEF RecvClosed
<1>6. ASSUME NEW w \in Workers, CheckCtx(w) PROVE TypeOK'
  BY <1>6 DEF CheckCtx, GiveUp, Advance
<1>7. ASSUME NEW w \in Workers, Open(w) PROVE TypeOK'
  <2>1. file[w] \in Files
    BY <1>7 DEF Open
  <2>2. disk' \in [Paths -> SUBSET Files]
    <3>1. LocalPath[file[w]] \in Paths
      BY <2>1
    <3>2. [disk EXCEPT ![LocalPath[file[w]]] = {}] \in [Paths -> SUBSET Files]
      BY <3>1, DiskType
    <3> QED
      BY <1>7, <3>2 DEF Open
  <2>3. WorkerTypes'
    BY <1>7, AdvanceType, TryAgainType DEF Open
  <2> QED
    BY <1>7, <2>1, <2>2, <2>3 DEF Open, WorkerTypes
<1>8. ASSUME NEW w \in Workers, Save(w) PROVE TypeOK'
  <2>1. file[w] \in Files
    BY <1>8 DEF Save
  <2>2. disk' \in [Paths -> SUBSET Files]
    <3> DEFINE p == LocalPath[file[w]]
    <3>1. p \in Paths /\ disk[p] \union {file[w]} \in SUBSET Files
      BY <2>1
    <3>2. [disk EXCEPT ![p] = disk[p] \union {file[w]}] \in [Paths -> SUBSET Files]
      BY <3>1, DiskType
    <3> QED
      BY <1>8, <3>2 DEF Save
  <2>3. WorkerTypes'
    BY <1>8, AdvanceType, TryAgainType DEF Save
  <2> QED
    BY <1>8, <2>1, <2>2, <2>3 DEF Save, WorkerTypes
<1>9. ASSUME NEW w \in Workers, Store(w) PROVE TypeOK'
  BY <1>9 DEF Store, Advance
<1>10. ASSUME NEW w \in Workers, Link(w) PROVE TypeOK'
  BY <1>10 DEF Link, Advance
<1>11. ASSUME NEW w \in Workers, Prepare(w) PROVE TypeOK'
  <2>1. file[w] \in Files
    BY <1>11 DEF Prepare
  <2>2. disk' \in [Paths -> SUBSET Files]
    <3> DEFINE p == LocalPath[file[w]]
               q == MergePath[file[w]]
    <3>1. q \in Paths /\ disk[q] \union disk[p] \in SUBSET Files
      BY <2>1
    <3>2. [disk EXCEPT ![q] = disk[q] \union disk[p]] \in [Paths -> SUBSET Files]
      BY <3>1, DiskType
    <3> QED
      BY <1>11, <3>2 DEF Prepare
  <2>3. WorkerTypes'
    BY <1>11, AdvanceType, TryAgainType DEF Prepare
  <2> QED
    BY <1>11, <2>1, <2>2, <2>3 DEF Prepare, WorkerTypes
<1>12. ASSUME NEW w \in Workers, Report(w) PROVE TypeOK'
  BY <1>12 DEF Report, Advance
<1>13. ASSUME NEW w \in Workers, Cancel(w) PROVE TypeOK'
  BY <1>13 DEF Cancel, Advance
<1>14. CASE UNCHANGED vars
  BY <1>14 DEF vars, cacheVars
<1> QED
  BY <1>1, <1>2, <1>3, <1>4, <1>5, <1>6, <1>7, <1>8, <1>9, <1>10, <1>11, <1>12, <1>13, <1>14
  DEF Next, FeederStep, LocalStep, RemoteStep, Terminated

(* Every step keeps the indices in one hand each. *)
LEMMA SlotsStep == TypeOK /\ Slots /\ [Next]_vars => Slots'
<1> SUFFICES ASSUME TypeOK, Slots, [Next]_vars PROVE Slots'
  OBVIOUS
<1> USE NAssumption, AttemptsAssumption, PathsAssumption DEF TypeOK, Slots, Busy, Files, Spots, cacheVars, feedVars
<1>1. CASE FeederBreak
  BY <1>1 DEF FeederBreak
<1>2. CASE FeederDone
  BY <1>2 DEF FeederDone
<1>3. CASE Return
  BY <1>3 DEF Return
<1>4. ASSUME NEW w \in Workers, Hand(w) PROVE Slots'
  BY <1>4 DEF Hand
<1>5. ASSUME NEW w \in Workers, RecvClosed(w) PROVE Slots'
  BY <1>5 DEF RecvClosed
<1>6. ASSUME NEW w \in Workers, CheckCtx(w) PROVE Slots'
  BY <1>6 DEF CheckCtx, GiveUp, Advance
<1>7. ASSUME NEW w \in Workers, Open(w) PROVE Slots'
  BY <1>7 DEF Open, TryAgain, GiveUp, Advance, Possible
<1>8. ASSUME NEW w \in Workers, Save(w) PROVE Slots'
  BY <1>8 DEF Save, TryAgain, GiveUp, Advance, Possible
<1>9. ASSUME NEW w \in Workers, Store(w) PROVE Slots'
  BY <1>9 DEF Store, Advance
<1>10. ASSUME NEW w \in Workers, Link(w) PROVE Slots'
  BY <1>10 DEF Link, Advance
<1>11. ASSUME NEW w \in Workers, Prepare(w) PROVE Slots'
  BY <1>11, ZenonT(30) DEF Prepare, TryAgain, GiveUp, Advance
<1>12. ASSUME NEW w \in Workers, Report(w) PROVE Slots'
  BY <1>12 DEF Report, Advance
<1>13. ASSUME NEW w \in Workers, Cancel(w) PROVE Slots'
  BY <1>13 DEF Cancel, Advance
<1>14. CASE UNCHANGED vars
  BY <1>14 DEF vars, cacheVars
<1> QED
  BY <1>1, <1>2, <1>3, <1>4, <1>5, <1>6, <1>7, <1>8, <1>9, <1>10, <1>11, <1>12, <1>13, <1>14
  DEF Next, FeederStep, LocalStep, RemoteStep, Terminated

(* Every step keeps the links backed by objects. *)
LEMMA BackedStep == TypeOK /\ Backed /\ [Next]_vars => Backed'
<1> SUFFICES ASSUME TypeOK, Backed, [Next]_vars PROVE Backed'
  OBVIOUS
<1> USE NAssumption, AttemptsAssumption, PathsAssumption DEF TypeOK, Backed, Files, Spots, cacheVars, feedVars
<1>1. CASE FeederBreak
  BY <1>1 DEF FeederBreak
<1>2. CASE FeederDone
  BY <1>2 DEF FeederDone
<1>3. CASE Return
  BY <1>3 DEF Return
<1>4. ASSUME NEW w \in Workers, Hand(w) PROVE Backed'
  BY <1>4 DEF Hand
<1>5. ASSUME NEW w \in Workers, RecvClosed(w) PROVE Backed'
  BY <1>5 DEF RecvClosed
<1>6. ASSUME NEW w \in Workers, CheckCtx(w) PROVE Backed'
  BY <1>6 DEF CheckCtx, GiveUp, Advance
<1>7. ASSUME NEW w \in Workers, Open(w) PROVE Backed'
  BY <1>7 DEF Open, TryAgain, GiveUp, Advance, Possible
<1>8. ASSUME NEW w \in Workers, Save(w) PROVE Backed'
  BY <1>8 DEF Save, TryAgain, GiveUp, Advance, Possible
<1>9. ASSUME NEW w \in Workers, Store(w) PROVE Backed'
  BY <1>9 DEF Store, Advance
<1>10. ASSUME NEW w \in Workers, Link(w) PROVE Backed'
  BY <1>10 DEF Link, Advance
<1>11. ASSUME NEW w \in Workers, Prepare(w) PROVE Backed'
  BY <1>11 DEF Prepare, TryAgain, GiveUp, Advance
<1>12. ASSUME NEW w \in Workers, Report(w) PROVE Backed'
  BY <1>12 DEF Report, Advance
<1>13. ASSUME NEW w \in Workers, Cancel(w) PROVE Backed'
  BY <1>13 DEF Cancel, Advance
<1>14. CASE UNCHANGED vars
  BY <1>14 DEF vars, cacheVars
<1> QED
  BY <1>1, <1>2, <1>3, <1>4, <1>5, <1>6, <1>7, <1>8, <1>9, <1>10, <1>11, <1>12, <1>13, <1>14
  DEF Next, FeederStep, LocalStep, RemoteStep, Terminated

(* Every step keeps the first error ahead of the cancellation. *)
LEMMA ErrorFirstStep == TypeOK /\ Books /\ ErrorFirst /\ [Next]_vars => ErrorFirst'
<1> SUFFICES ASSUME TypeOK, Books, ErrorFirst, [Next]_vars PROVE ErrorFirst'
  OBVIOUS
<1> USE NAssumption, AttemptsAssumption, PathsAssumption DEF TypeOK, Books, ErrorFirst, Kinds, Spots, cacheVars, feedVars
<1>1. CASE FeederBreak
  BY <1>1 DEF FeederBreak
<1>2. CASE FeederDone
  BY <1>2 DEF FeederDone
<1>3. CASE Return
  BY <1>3 DEF Return
<1>4. ASSUME NEW w \in Workers, Hand(w) PROVE ErrorFirst'
  BY <1>4 DEF Hand
<1>5. ASSUME NEW w \in Workers, RecvClosed(w) PROVE ErrorFirst'
  BY <1>5 DEF RecvClosed
<1>6. ASSUME NEW w \in Workers, CheckCtx(w) PROVE ErrorFirst'
  BY <1>6 DEF CheckCtx, GiveUp, Advance
<1>7. ASSUME NEW w \in Workers, Open(w) PROVE ErrorFirst'
  BY <1>7 DEF Open, TryAgain, GiveUp, Advance, Possible
<1>8. ASSUME NEW w \in Workers, Save(w) PROVE ErrorFirst'
  BY <1>8 DEF Save, TryAgain, GiveUp, Advance, Possible
<1>9. ASSUME NEW w \in Workers, Store(w) PROVE ErrorFirst'
  BY <1>9 DEF Store, Advance
<1>10. ASSUME NEW w \in Workers, Link(w) PROVE ErrorFirst'
  BY <1>10 DEF Link, Advance
<1>11. ASSUME NEW w \in Workers, Prepare(w) PROVE ErrorFirst'
  BY <1>11 DEF Prepare, TryAgain, GiveUp, Advance
<1>12. ASSUME NEW w \in Workers, Report(w) PROVE ErrorFirst'
  BY <1>12 DEF Report, Advance
<1>13. ASSUME NEW w \in Workers, Cancel(w) PROVE ErrorFirst'
  BY <1>13 DEF Cancel, Advance
<1>14. CASE UNCHANGED vars
  BY <1>14 DEF vars, cacheVars
<1> QED
  BY <1>1, <1>2, <1>3, <1>4, <1>5, <1>6, <1>7, <1>8, <1>9, <1>10, <1>11, <1>12, <1>13, <1>14
  DEF Next, FeederStep, LocalStep, RemoteStep, Terminated

(* A worker that goes on with its file, or fills it, keeps the account. *)
LEMMA BooksCarried ==
    ASSUME TypeOK, Books, NEW w \in Workers, Busy(w), file[w] \in Files,
           NEW spot \in Spots, pc' = [pc EXCEPT ![w] = spot],
           spot \notin {"idle", "done", "cancel"} \/ file[w] \in filled',
           filled \subseteq filled', UNCHANGED <<feedVars, file, errCh>>
    PROVE  Books'
<1>1. UNCHANGED <<feeder, next, result, file, errCh>>
  BY DEF feedVars
<1>2. pc[w] \notin {"idle", "done"}
  BY DEF Busy
<1>3. feeder # "returned" /\ result = "none"
  BY <1>2 DEF Books
<1>4. ASSUME NEW f \in Files, f < next, Accounted(f)
      PROVE  Accounted(f)'
  <2>1. CASE f \in filled
    BY <2>1 DEF Accounted
  <2>2. CASE errCh # "none"
    BY <1>1, <2>2 DEF Accounted
  <2>3. ASSUME NEW v \in Workers, Busy(v), pc[v] # "cancel", file[v] = f
        PROVE  Accounted(f)'
    <3>1. CASE v # w
      <4>1. pc'[v] = pc[v]
        BY <3>1 DEF TypeOK
      <4> QED
        BY <1>1, <2>3, <4>1 DEF Accounted, Busy
    <3>2. CASE v = w
      <4>1. pc'[w] = spot
        BY DEF TypeOK
      <4> QED
        BY <1>1, <2>3, <3>2, <4>1 DEF Accounted, Busy
    <3> QED
      BY <3>1, <3>2
  <2> QED
    BY <1>4, <2>1, <2>2, <2>3 DEF Accounted
<1> QED
  BY <1>1, <1>3, <1>4 DEF Books

(* Every step keeps the account of the indices sent. *)
LEMMA BooksStep == TypeOK /\ Slots /\ ErrorFirst /\ Books /\ [Next]_vars => Books'
<1> SUFFICES ASSUME TypeOK, Slots, ErrorFirst, Books, [Next]_vars PROVE Books'
  OBVIOUS
<1> USE NAssumption, AttemptsAssumption, PathsAssumption DEF TypeOK, Slots, ErrorFirst, Books, Accounted, Busy, Files, Kinds, Spots, cacheVars, feedVars
<1>1. CASE FeederBreak
  BY <1>1 DEF FeederBreak
<1>2. CASE FeederDone
  BY <1>2 DEF FeederDone
<1>3. CASE Return
  <2>1. errCh = "none" => next = N + 1
    BY <1>3 DEF Return
  <2>2. errCh = "none" => \A f \in Files : Accounted(f)
    BY <1>3, <2>1 DEF Return
  <2>3. errCh = "none" => filled = Files
    BY <1>3, <2>2 DEF Return
  <2> QED
    BY <1>3, <2>3 DEF Return
<1>4. ASSUME NEW w \in Workers, Hand(w) PROVE Books'
  BY <1>4 DEF Hand
<1>5. ASSUME NEW w \in Workers, RecvClosed(w) PROVE Books'
  BY <1>5 DEF RecvClosed
<1>6. ASSUME NEW w \in Workers, CheckCtx(w) PROVE Books'
  <2>1. Busy(w) /\ UNCHANGED <<feedVars, file, errCh>>
    BY <1>6 DEF CheckCtx, Busy
  <2>2. \E spot \in Spots \ {"idle", "done", "cancel"} : pc' = [pc EXCEPT ![w] = spot]
    BY <1>6 DEF CheckCtx, GiveUp, Advance, Spots
  <2>3. filled \subseteq filled'
    BY <1>6 DEF CheckCtx
  <2> QED
    BY <2>1, <2>2, <2>3, BooksCarried DEF Slots
<1>7. ASSUME NEW w \in Workers, Open(w) PROVE Books'
  <2>1. Busy(w) /\ UNCHANGED <<feedVars, file, errCh>>
    BY <1>7 DEF Open, Busy
  <2>2. \E spot \in Spots \ {"idle", "done", "cancel"} : pc' = [pc EXCEPT ![w] = spot]
    BY <1>7 DEF Open, TryAgain, GiveUp, Advance, Spots
  <2>3. filled \subseteq filled'
    BY <1>7 DEF Open
  <2> QED
    BY <2>1, <2>2, <2>3, BooksCarried DEF Slots
<1>8. ASSUME NEW w \in Workers, Save(w) PROVE Books'
  <2>1. Busy(w) /\ UNCHANGED <<feedVars, file, errCh>>
    BY <1>8 DEF Save, Busy
  <2>2. \E spot \in Spots \ {"idle", "done", "cancel"} : pc' = [pc EXCEPT ![w] = spot]
    BY <1>8 DEF Save, TryAgain, GiveUp, Advance, Spots
  <2>3. filled \subseteq filled'
    BY <1>8 DEF Save
  <2> QED
    BY <2>1, <2>2, <2>3, BooksCarried DEF Slots
<1>9. ASSUME NEW w \in Workers, Store(w) PROVE Books'
  <2>1. Busy(w) /\ UNCHANGED <<feedVars, file, errCh>>
    BY <1>9 DEF Store, Busy
  <2>2. \E spot \in Spots \ {"idle", "done", "cancel"} : pc' = [pc EXCEPT ![w] = spot]
    BY <1>9 DEF Store, Advance, Spots
  <2>3. filled \subseteq filled'
    BY <1>9 DEF Store
  <2> QED
    BY <2>1, <2>2, <2>3, BooksCarried DEF Slots
<1>10. ASSUME NEW w \in Workers, Link(w) PROVE Books'
  <2>1. Busy(w) /\ UNCHANGED <<feedVars, file, errCh>>
    BY <1>10 DEF Link, Busy
  <2>2. \E spot \in Spots \ {"idle", "done", "cancel"} : pc' = [pc EXCEPT ![w] = spot]
    BY <1>10 DEF Link, Advance, Spots
  <2>3. filled \subseteq filled'
    BY <1>10 DEF Link
  <2> QED
    BY <2>1, <2>2, <2>3, BooksCarried DEF Slots
<1>11. ASSUME NEW w \in Workers, Prepare(w) PROVE Books'
  <2>1. Busy(w) /\ UNCHANGED <<feedVars, file, errCh>>
    BY <1>11 DEF Prepare, Busy
  <2>2. \E spot \in Spots : /\ pc' = [pc EXCEPT ![w] = spot]
                            /\ \/ spot \in {"check", "report"}
                               \/ file[w] \in filled'
    BY <1>11 DEF Prepare, TryAgain, GiveUp, Advance, Spots
  <2>3. filled \subseteq filled'
    BY <1>11 DEF Prepare
  <2> QED
    BY <2>1, <2>2, <2>3, BooksCarried DEF Slots
<1>12. ASSUME NEW w \in Workers, Report(w) PROVE Books'
  BY <1>12 DEF Report, Advance
<1>13. ASSUME NEW w \in Workers, Cancel(w) PROVE Books'
  BY <1>13 DEF Cancel, Advance
<1>14. CASE UNCHANGED vars
  BY <1>14 DEF vars, cacheVars
<1> QED
  BY <1>1, <1>2, <1>3, <1>4, <1>5, <1>6, <1>7, <1>8, <1>9, <1>10, <1>11, <1>12, <1>13, <1>14
  DEF Next, FeederStep, LocalStep, RemoteStep, Terminated

(* The invariant holds initially and at every step. *)
LEMMA Invariance == Spec => []IInv
<1>1. Init => IInv
  <2> SUFFICES ASSUME Init PROVE IInv
    OBVIOUS
  <2> USE NAssumption, AttemptsAssumption DEF Init
  <2>1. TypeOK
    <3>1. disk \in [Paths -> SUBSET Files]
      OBVIOUS
    <3>2. next \in 1..(N + 1) /\ file \in [Workers -> 0..N]
      OBVIOUS
    <3>3. stored \in SUBSET Files /\ linked \in SUBSET Files
      OBVIOUS
    <3>4. WorkerTypes
      BY 0 \in 0..MaxAttempts DEF WorkerTypes, Spots
    <3> QED
      BY <3>1, <3>2, <3>3, <3>4 DEF TypeOK, WorkerTypes
  <2>2. Books /\ ErrorFirst
    BY DEF Books, ErrorFirst, Files
  <2>3. Slots /\ Backed
    BY DEF Slots, Backed, Busy
  <2> QED
    BY <2>1, <2>2, <2>3 DEF IInv
<1>2. IInv /\ [Next]_vars => IInv'
  BY TypeStep, SlotsStep, BackedStep, ErrorFirstStep, BooksStep DEF IInv
<1> QED
  BY <1>1, <1>2, PTL DEF Spec

-----------------------------------------------------------------------------
(* Type correctness of the pool. *)
THEOREM TypeCorrect == Spec => []TypeOK
<1>1. IInv => TypeOK
  BY DEF IInv
<1> QED
  BY <1>1, Invariance, PTL

(* downloadDriveInputs returns nil only with every entry of inputs set,    *)
(* however many files, workers, retries and failures there are.            *)
THEOREM NilIsComplete == Spec => []NilMeansComplete
<1>1. IInv => NilMeansComplete
  BY DEF IInv, Books, NilMeansComplete
<1> QED
  BY <1>1, Invariance, PTL

(* The error the job is failed with is never the cancellation the first    *)
(* failure caused.                                                         *)
THEOREM ReportsRootCause == Spec => []RootCauseReported
<1>1. IInv => RootCauseReported
  BY DEF IInv, ErrorFirst, RootCauseReported
<1> QED
  BY <1>1, Invariance, PTL

(* No two workers share an entry of inputs, which they write unlocked.     *)
THEOREM OneWriterPerSlot == Spec => []SlotHasOneWriter
<1>1. IInv => SlotHasOneWriter
  BY DEF IInv, Slots, SlotHasOneWriter
<1> QED
  BY <1>1, Invariance, PTL

(* A row names only source-cache objects that were stored. *)
THEOREM LinksAreBacked == Spec => []LinkBacked
<1>1. IInv => LinkBacked
  BY DEF IInv, Backed, LinkBacked
<1> QED
  BY <1>1, Invariance, PTL

-----------------------------------------------------------------------------
(* What the files hold.  No two files of the job share a path: neither the *)
(* one their bytes are saved at nor the one the merge reads.  (Two files   *)
(* of one Drive folder may have the same name, and then they do share it.) *)
Separate ==
    \A f, g \in Files : f # g =>
        /\ LocalPath[f] \notin {LocalPath[g], MergePath[g]}
        /\ MergePath[f] # MergePath[g]

Loaded(w) == pc[w] \in {"store", "link", "prepare"}

(* A path of a file holds its bytes or none.  All of them are at the local *)
(* path once the copy is done, and at the other path once the entry is set. *)
Content ==
    /\ \A f \in Files :
          /\ disk[LocalPath[f]] \subseteq {f}
          /\ disk[MergePath[f]] \subseteq {f}
          /\ f \in filled => disk[MergePath[f]] = {f}
    /\ \A w \in Workers : Loaded(w) => disk[LocalPath[file[w]]] = {file[w]}

(* A worker writes what belongs at a path of its file. *)
LEMMA Overwrite ==
    ASSUME Separate, TypeOK, Slots, Content, NEW w \in Workers, Busy(w),
           NEW p \in {LocalPath[file[w]], MergePath[file[w]]},
           NEW S \in SUBSET {file[w]}, disk' = [disk EXCEPT ![p] = S],
           UNCHANGED file, \A v \in Workers \ {w} : pc'[v] = pc[v]
    PROVE  /\ \A f \in Files :
                 /\ disk'[LocalPath[f]] \subseteq {f}
                 /\ disk'[MergePath[f]] \subseteq {f}
                 /\ f \in filled => disk'[MergePath[f]] = {f}
           /\ \A v \in Workers \ {w} : Loaded(v)' => disk'[LocalPath[file'[v]]] = {file'[v]}
<1>1. file[w] \in Files /\ file[w] \notin filled
  BY DEF Slots
<1>2. \A f \in Files : LocalPath[f] \in Paths /\ MergePath[f] \in Paths
  BY PathsAssumption
<1>3. \A q \in Paths : disk'[q] = IF q = p THEN S ELSE disk[q]
  BY DEF TypeOK
<1>4. ASSUME NEW f \in Files, f # file[w]
      PROVE  LocalPath[f] # p /\ MergePath[f] # p
  BY <1>1, <1>4 DEF Separate
<1>5. ASSUME NEW f \in Files
      PROVE  /\ disk'[LocalPath[f]] \subseteq {f}
             /\ disk'[MergePath[f]] \subseteq {f}
             /\ f \in filled => disk'[MergePath[f]] = {f}
  <2>1. CASE f = file[w]
    BY <1>1, <1>2, <1>3, <2>1 DEF Content
  <2>2. CASE f # file[w]
    BY <1>2, <1>3, <1>4, <2>2 DEF Content
  <2> QED
    BY <2>1, <2>2
<1>6. ASSUME NEW v \in Workers \ {w}, Loaded(v)'
      PROVE  disk'[LocalPath[file'[v]]] = {file'[v]}
  <2>1. Loaded(v) /\ Busy(v)
    BY <1>6 DEF Loaded, Busy
  <2>2. file[v] \in Files /\ file[v] # file[w]
    BY <2>1 DEF Slots
  <2> QED
    BY <1>2, <1>3, <1>4, <2>1, <2>2 DEF Content
<1> QED
  BY <1>5, <1>6

(* A step that writes no file, and after which no more copies are done. *)
LEMMA NoWrite ==
    ASSUME Content, UNCHANGED <<disk, filled>>,
           \A w \in Workers : Loaded(w)' => Loaded(w) /\ file'[w] = file[w]
    PROVE  Content'
BY DEF Content

(* Every step keeps the content of the files. *)
LEMMA ContentStep ==
    ASSUME Separate, TypeOK, Slots, Content, [Next]_vars
    PROVE  Content'
<1> USE DEF TypeOK, Loaded, cacheVars, feedVars
<1>1. CASE FeederBreak \/ FeederDone \/ Return
  BY <1>1, NoWrite DEF FeederBreak, FeederDone, Return
<1>2. ASSUME NEW w \in Workers, Hand(w) PROVE Content'
  BY <1>2, NoWrite DEF Hand
<1>3. ASSUME NEW w \in Workers, RecvClosed(w) \/ CheckCtx(w) \/ Report(w) \/ Cancel(w) PROVE Content'
  BY <1>3, NoWrite DEF RecvClosed, CheckCtx, Report, Cancel, GiveUp, Advance
<1>4. ASSUME NEW w \in Workers, Store(w) \/ Link(w) PROVE Content'
  BY <1>4, NoWrite DEF Store, Link, Advance
<1>5. ASSUME NEW w \in Workers, Open(w) PROVE Content'
  <2>1. CASE Advance(w, "save") /\ disk' = [disk EXCEPT ![LocalPath[file[w]]] = {}]
    <3>1. /\ Busy(w) /\ UNCHANGED <<file, filled>> /\ ~Loaded(w)'
          /\ \A v \in Workers \ {w} : pc'[v] = pc[v]
      BY <1>5, <2>1 DEF Open, Advance, Busy
    <3>2. /\ \A g \in Files :
                /\ disk'[LocalPath[g]] \subseteq {g}
                /\ disk'[MergePath[g]] \subseteq {g}
                /\ g \in filled => disk'[MergePath[g]] = {g}
          /\ \A v \in Workers \ {w} : Loaded(v)' => disk'[LocalPath[file'[v]]] = {file'[v]}
      <4> DEFINE p == LocalPath[file[w]]
                 S == {}
      <4>1. p \in {LocalPath[file[w]], MergePath[file[w]]} /\ S \in SUBSET {file[w]}
        OBVIOUS
      <4>2. disk' = [disk EXCEPT ![p] = S]
        BY <2>1
      <4> HIDE DEF p, S
      <4> QED
        BY <3>1, <4>1, <4>2, Overwrite
    <3> QED
      BY <3>1, <3>2 DEF Content
  <2>2. CASE UNCHANGED disk /\ \E kind \in Kinds : Possible(kind) /\ TryAgain(w, kind)
    BY <1>5, <2>2, NoWrite DEF Open, TryAgain, GiveUp
  <2> QED
    BY <1>5, <2>1, <2>2 DEF Open
<1>6. ASSUME NEW w \in Workers, Save(w) PROVE Content'
  <2> DEFINE f == file[w]
             landed == [disk EXCEPT ![LocalPath[f]] = @ \union {f}]
  <2>1. Busy(w) /\ UNCHANGED <<file, filled>>
    BY <1>6 DEF Save, Busy
  <2>2. f \in Files /\ LocalPath[f] \in Paths
    BY <2>1, PathsAssumption DEF Slots
  <2>3. disk[LocalPath[f]] \union {f} = {f}
    BY <2>2 DEF Content
  <2>4. landed = [disk EXCEPT ![LocalPath[f]] = {f}]
    BY <2>3
  <2>5. CASE disk' = landed /\ Advance(w, IF f \in keyed THEN "prepare" ELSE "store")
    <3>1. \A v \in Workers \ {w} : pc'[v] = pc[v]
      BY <2>5 DEF Advance
    <3>2. disk'[LocalPath[file'[w]]] = {file'[w]}
      BY <2>1, <2>2, <2>4, <2>5
    <3>3. /\ \A g \in Files :
                /\ disk'[LocalPath[g]] \subseteq {g}
                /\ disk'[MergePath[g]] \subseteq {g}
                /\ g \in filled => disk'[MergePath[g]] = {g}
          /\ \A v \in Workers \ {w} : Loaded(v)' => disk'[LocalPath[file'[v]]] = {file'[v]}
      BY <2>1, <2>4, <2>5, <3>1, Overwrite
    <3> QED
      BY <2>1, <3>2, <3>3 DEF Content
  <2>6. CASE disk' \in {disk, landed} /\ \E kind \in Kinds : Possible(kind) /\ TryAgain(w, kind)
    <3>1. ~Loaded(w)' /\ \A v \in Workers \ {w} : pc'[v] = pc[v]
      BY <2>6 DEF TryAgain, GiveUp
    <3>2. CASE disk' = disk
      BY <2>1, <3>1, <3>2, NoWrite
    <3>3. CASE disk' = landed
      <4>1. /\ \A g \in Files :
                  /\ disk'[LocalPath[g]] \subseteq {g}
                  /\ disk'[MergePath[g]] \subseteq {g}
                  /\ g \in filled => disk'[MergePath[g]] = {g}
            /\ \A v \in Workers \ {w} : Loaded(v)' => disk'[LocalPath[file'[v]]] = {file'[v]}
        BY <2>1, <2>4, <3>1, <3>3, Overwrite
      <4> QED
        BY <2>1, <3>1, <4>1 DEF Content
    <3> QED
      BY <2>6, <3>2, <3>3
  <2> QED
    BY <1>6, <2>5, <2>6 DEF Save
<1>7. ASSUME NEW w \in Workers, Prepare(w) PROVE Content'
  <2> DEFINE f == file[w]
  <2>1. Busy(w) /\ Loaded(w) /\ UNCHANGED file
    BY <1>7 DEF Prepare, Busy
  <2>2. f \in Files /\ LocalPath[f] \in Paths /\ MergePath[f] \in Paths
    BY <2>1, PathsAssumption DEF Slots
  <2>3. CASE /\ disk' = [disk EXCEPT ![MergePath[f]] = @ \union disk[LocalPath[f]]]
             /\ filled' = filled \union {f}
             /\ Advance(w, "idle")
    <3>1. disk[MergePath[f]] \union disk[LocalPath[f]] = {f}
      BY <2>1, <2>2 DEF Content
    <3>2. disk' = [disk EXCEPT ![MergePath[f]] = {f}]
      BY <2>3, <3>1
    <3>3. ~Loaded(w)' /\ \A v \in Workers \ {w} : pc'[v] = pc[v]
      BY <2>3 DEF Advance
    <3>4. /\ \A g \in Files :
                /\ disk'[LocalPath[g]] \subseteq {g}
                /\ disk'[MergePath[g]] \subseteq {g}
                /\ g \in filled => disk'[MergePath[g]] = {g}
          /\ \A v \in Workers \ {w} : Loaded(v)' => disk'[LocalPath[file'[v]]] = {file'[v]}
      BY <2>1, <3>2, <3>3, Overwrite
    <3>5. disk'[MergePath[f]] = {f}
      BY <2>2, <3>2
    <3> QED
      BY <2>3, <3>3, <3>4, <3>5 DEF Content
  <2>4. CASE UNCHANGED <<disk, filled>> /\ (IF attempt[w] = 0 THEN TryAgain(w, "io") ELSE GiveUp(w, "io"))
    BY <2>1, <2>4, NoWrite DEF TryAgain, GiveUp
  <2> QED
    BY <1>7, <2>3, <2>4 DEF Prepare
<1>8. CASE UNCHANGED vars
  BY <1>8, NoWrite DEF vars
<1> QED
  BY <1>1, <1>2, <1>3, <1>4, <1>5, <1>6, <1>7, <1>8
  DEF Next, FeederStep, LocalStep, RemoteStep, Terminated

(* When downloadDriveInputs has returned nil, the path of every input holds *)
(* that input's bytes and no other's: workers do not mix up their files,   *)
(* and what an attempt left behind is gone.                                *)
THEOREM InputsHoldTheirFiles ==
    ASSUME Separate
    PROVE  Spec => []OwnContent
<1>1. Init => Content
  BY PathsAssumption DEF Init, Content, Loaded
<1>2. IInv /\ Content /\ [Next]_vars => Content'
  BY ContentStep DEF IInv
<1>3. IInv /\ Content => OwnContent
  BY DEF IInv, Books, Content, OwnContent
<1> QED
  BY <1>1, <1>2, <1>3, Invariance, PTL DEF Spec

-----------------------------------------------------------------------------
(* The pool implements the contract: the mapping reads filled as what has  *)
(* been got and the returned error as the verdict.                         *)
THEOREM PoolImplementsContract == Spec => ImplementsContract
<1> USE DEF Contract!Init, Contract!Next, Contract!vars, Contract!Fill,
            Contract!Succeed, Contract!GiveUp, verdict
<1>1. Init => Contract!Init
  BY DEF Init
<1>2. IInv /\ [Next]_vars => [Contract!Next]_(Contract!vars)
  <2> SUFFICES ASSUME IInv, [Next]_vars
               PROVE [Contract!Next]_(Contract!vars)
    OBVIOUS
  <2> USE DEF cacheVars, feedVars
  <2>1. CASE Return
    <3>1. IInv'
      BY TypeStep, SlotsStep, BackedStep, ErrorFirstStep, BooksStep DEF IInv
    <3>2. result = "none" /\ UNCHANGED filled
      BY <2>1 DEF Return, IInv, Books
    <3>3. CASE errCh = "none"
      <4>1. result' = "nil" /\ filled = Files
        BY <2>1, <3>1, <3>2, <3>3 DEF Return, IInv, Books
      <4>2. Contract!Succeed
        BY <3>2, <4>1
      <4> QED
        BY <4>2
    <3>4. CASE errCh # "none"
      <4>1. result' = errCh /\ errCh \in {"io", "canceled"}
        BY <2>1, <3>4 DEF Return, IInv, TypeOK, Kinds
      <4>2. Contract!GiveUp
        BY <3>2, <4>1
      <4> QED
        BY <4>2
    <3> QED
      BY <3>3, <3>4
  <2>2. ASSUME NEW w \in Workers, Prepare(w)
        PROVE [Contract!Next]_(Contract!vars)
    <3>1. result = "none" /\ UNCHANGED result
      BY <2>2 DEF Prepare, IInv, Books, TypeOK
    <3>2. file[w] \in Files /\ file[w] \notin filled
      BY <2>2 DEF Prepare, IInv, Slots, Busy
    <3>3. filled' = filled \union {file[w]} \/ UNCHANGED filled
      BY <2>2 DEF Prepare
    <3> QED
      BY <3>1, <3>2, <3>3
  <2>3. CASE UNCHANGED <<filled, result>>
    BY <2>3
  <2> QED
    BY <2>1, <2>2, <2>3
    DEF Next, FeederStep, LocalStep, RemoteStep, Terminated, vars, FeederBreak,
        FeederDone, Hand, RecvClosed, CheckCtx, Open, Save, Store, Link,
        Report, Cancel
<1> QED
  BY <1>1, <1>2, Invariance, PTL DEF Spec, ImplementsContract, Contract!Spec
=============================================================================
