----------------------- MODULE DownloadProgressProofs -----------------------
(***************************************************************************)
(* What the answers to a poll show as downloaded has arrived, and the bar  *)
(* is true, for any number of files, workers and attempts and whatever     *)
(* sizes Drive tells.                                                      *)
(*                                                                         *)
(* No property here is inductive.  A row that says "merging" shows every   *)
(* file as downloaded, which is true because the pool returned without an  *)
(* error; so the invariant follows each file through the pool: of those    *)
(* handed out (Books), one is shown as downloaded, or a worker has it, and *)
(* no other worker has (Hands), or the context is cancelled.               *)
(***************************************************************************)
EXTENDS DownloadProgress, FiniteSetTheorems, WellFoundedInduction, TLAPS

USE CountAssumption, SizeAssumption DEF Files

Spots == {"idle", "start", "open", "copy", "again", "prepare", "done"}
Busy(w) == at[w] \notin {"idle", "done"}

Types ==
    /\ todo \in 1..N + 1
    /\ failed \in BOOLEAN
    /\ at \in [Workers -> Spots]
    /\ file \in [Workers -> 0..N]
    /\ got \in [Workers -> Nat]
    /\ status \in [Files -> {"pending", "downloading", "downloaded"}]
    /\ arrived \subseteq Files

\* A worker has a file of its own while the pool runs, and only then.
Hands ==
    \A w \in Workers : Busy(w) =>
        /\ pc = "pool"
        /\ file[w] \in 1..todo - 1
        /\ \A v \in Workers \ {w} : Busy(v) => file[v] # file[w]

Counting == pc \in {"announce", "pool"} => kept

Full ==
    \A w \in Workers :
        /\ at[w] = "copy" /\ got[w] = Length[file[w]] => file[w] \in arrived
        /\ at[w] = "prepare" => status[file[w]] = "downloaded"

Honest == \A f \in Files : status[f] = "downloaded" => f \in arrived

Books ==
    \A f \in 1..todo - 1 :
        failed \/ status[f] = "downloaded" \/ \E w \in Workers : Busy(w) /\ file[w] = f

\* A worker leaves the pool when the files are out or one has failed.
Leaving == \A w \in Workers : at[w] = "done" => failed \/ todo = N + 1

RowHonest == row.stage \in {"completed", "merging", "uploading"} => arrived = Files

IInv ==
    /\ Types /\ Hands /\ Counting /\ Full /\ Honest /\ Books /\ Leaving
    /\ NilShowsAll /\ RowHonest /\ ShownDownloadedIsTrue

LEMMA Initially == Init => IInv
<1>1. SUFFICES ASSUME Init
               PROVE  IInv
  OBVIOUS
<1>2. Types
  <2>1. todo \in 1..N + 1
    <3>1. todo = 1
      BY <1>1 DEF Init
    <3>2. QED
      BY <3>1
  <2>4. failed \in BOOLEAN /\ arrived \subseteq Files
    BY <1>1 DEF Init
  <2>2. at \in [Workers -> Spots] /\ file \in [Workers -> 0..N] /\ got \in [Workers -> Nat]
    BY <1>1 DEF Init, Spots
  <2>3. status \in [Files -> {"pending", "downloading", "downloaded"}]
    BY <1>1 DEF Init
  <2>5. QED
    BY <2>1, <2>2, <2>3, <2>4 DEF Types
<1>3. Hands /\ Counting /\ Full /\ Honest /\ Books /\ Leaving
  BY <1>1 DEF Init, Hands, Counting, Full, Honest, Books, Leaving, Busy
<1>4. NilShowsAll /\ RowHonest /\ ShownDownloadedIsTrue
  BY <1>1 DEF Init, NilShowsAll, RowHonest, ShownDownloadedIsTrue, Unseen
<1>5. QED
  BY <1>2, <1>3, <1>4 DEF IInv

-----------------------------------------------------------------------------
(* Sums.  SumFunction takes the files one by one in an order that CHOOSE   *)
(* fixes: a recursion over sets of files, about which facts are shown of a *)
(* smallest counterexample.                                                *)

LEMMA Size ==
  ASSUME NEW s \in SUBSET Files
  PROVE  /\ Cardinality(s) \in Nat
         /\ Cardinality(s) <= Cardinality(Files)
         /\ s # {} => Cardinality(s) # 0
         /\ \A f \in s : s \ {f} \in SUBSET Files /\ Cardinality(s \ {f}) = Cardinality(s) - 1
<1>1. IsFiniteSet(Files)
  BY FS_Interval DEF Files
<1>2. IsFiniteSet(s) /\ Cardinality(s) <= Cardinality(Files)
  BY <1>1, FS_Subset
<1>3. Cardinality(s) \in Nat /\ (s # {} => Cardinality(s) # 0)
  BY <1>2, FS_CardinalityType, FS_EmptySet
<1>4. ASSUME NEW f \in s
      PROVE  s \ {f} \in SUBSET Files /\ Cardinality(s \ {f}) = Cardinality(s) - 1
  BY <1>2, FS_RemoveElement
<1>5. QED
  BY <1>2, <1>3, <1>4

LEMMA SmallestSet ==
  ASSUME NEW T \in SUBSET SUBSET Files, T # {}
  PROVE  \E s \in T : \A t \in T : Cardinality(s) <= Cardinality(t)
<1> DEFINE R == OpToRel(<, Nat)
           C == {Cardinality(s) : s \in T}
<1>1. C \subseteq Nat /\ C # {}
  BY Size
<1>2. IsWellFoundedOn(R, Nat)
  BY NatLessThanWellFounded
<1>3. \A m, n \in Nat : <<m, n>> \in R <=> m < n
  BY DEF OpToRel
<1> HIDE DEF R
<1>4. \E n \in C : \A m \in C : ~(<<m, n>> \in R)
  <2> HIDE DEF C
  <2>1. QED
    BY <1>1, <1>2, WFMin
<1>5. PICK n \in C : \A m \in C : ~(<<m, n>> \in R)
  BY <1>4
<1>6. ASSUME NEW m \in C
      PROVE  n <= m
  <2>1. m \in Nat /\ n \in Nat /\ ~(m < n)
    BY <1>1, <1>3, <1>5
  <2>2. QED
    BY <2>1
<1>7. QED
  BY <1>6

First(s) == CHOOSE f \in s : TRUE

\* it has the sum over s, if it has the sum over the rest.
Adds(it, b, s) == it[s] = IF s = {} THEN 0 ELSE b[First(s)] + it[s \ {First(s)}]

Total(b) ==
  CHOOSE it : it = [s \in SUBSET Files |-> IF s = {} THEN 0 ELSE b[First(s)] + it[s \ {First(s)}]]

LEMMA SumIs ==
  ASSUME NEW b, DOMAIN b = Files
  PROVE  SumFunction(b) = Total(b)[Files]
BY DEF SumFunction, SumFunctionOnSet, FoldFunctionOnSet, MapThenFoldSet, Total, First

LEMMA FirstIn ==
  ASSUME NEW s \in SUBSET Files, s # {}
  PROVE  /\ First(s) \in s /\ First(s) \in Files
         /\ s \ {First(s)} \in SUBSET Files
         /\ Cardinality(s \ {First(s)}) = Cardinality(s) - 1
<1>1. First(s) \in s
  BY DEF First
<1>2. QED
  BY <1>1, Size

LEMMA TotalAdds ==
  ASSUME NEW b \in [Files -> Nat]
  PROVE  /\ Total(b) \in [SUBSET Files -> Nat]
         /\ \A s \in SUBSET Files : Adds(Total(b), b, s)
<1> DEFINE UpTo(s) == {t \in SUBSET Files : Cardinality(t) <= Cardinality(s)}
           Good(s) == \E it \in [UpTo(s) -> Nat] : \A t \in UpTo(s) : Adds(it, b, t)
           T == {s \in SUBSET Files : ~Good(s)}
<1>1. T = {}
  <2>1. SUFFICES ASSUME T # {}
                 PROVE  FALSE
    OBVIOUS
  <2>2. PICK s \in T : \A t \in T : Cardinality(s) <= Cardinality(t)
    <3> HIDE DEF Good
    <3>1. T \in SUBSET SUBSET Files
      OBVIOUS
    <3>2. QED
      BY <2>1, <3>1, SmallestSet
  <2>3. s \in SUBSET Files /\ ~Good(s)
    OBVIOUS
  <2>4. CASE s = {}
    <3> DEFINE it == [t \in UpTo(s) |-> 0]
    <3>1. \A t \in UpTo(s) : t = {}
      <4>1. Cardinality(s) = 0
        BY <2>4, FS_EmptySet
      <4>2. QED
        BY <4>1, Size
    <3>2. it \in [UpTo(s) -> Nat] /\ \A t \in UpTo(s) : Adds(it, b, t)
      BY <3>1 DEF Adds
    <3>3. QED
      BY <2>3, <3>2
  <2>5. CASE s # {}
    <3> DEFINE r == s \ {First(s)}
    <3>1. r \in SUBSET Files /\ Cardinality(r) = Cardinality(s) - 1 /\ Cardinality(s) \in Nat
      BY <2>3, <2>5, FirstIn, Size
    <3>2. Good(r)
      <4> HIDE DEF Good, r
      <4>1. r \notin T
        BY <2>2, <3>1
      <4>2. QED
        BY <3>1, <4>1
    <3>3. PICK it \in [UpTo(r) -> Nat] : \A t \in UpTo(r) : Adds(it, b, t)
      BY <3>2
    <3> DEFINE more == [t \in UpTo(s) |-> IF t \in UpTo(r) THEN it[t]
                                          ELSE b[First(t)] + it[t \ {First(t)}]]
    <3> HIDE DEF r
    <3>4. ASSUME NEW t \in UpTo(s), t # {}
          PROVE  First(t) \in Files /\ t \ {First(t)} \in UpTo(r) /\ t \ {First(t)} \in UpTo(s)
      <4>1. t \in SUBSET Files /\ Cardinality(t) <= Cardinality(s)
        OBVIOUS
      <4>2. First(t) \in Files /\ t \ {First(t)} \in SUBSET Files
        BY <3>4, <4>1, FirstIn
      <4>3. Cardinality(t \ {First(t)}) = Cardinality(t) - 1 /\ Cardinality(t) \in Nat
        BY <3>4, <4>1, FirstIn, Size
      <4>4. QED
        BY <3>1, <4>1, <4>2, <4>3
    <3>5. ASSUME NEW t \in UpTo(s), t \notin UpTo(r)
          PROVE  t # {}
      <4>1. {} \in UpTo(r)
        <5>1. Cardinality({}) = 0
          BY FS_EmptySet
        <5>2. QED
          BY <3>1, <5>1, Size
      <4>2. QED
        BY <3>5, <4>1
    <3>6. ASSUME NEW t \in UpTo(s)
          PROVE  more[t] \in Nat
      <4>1. CASE t \in UpTo(r)
        BY <4>1
      <4>2. CASE t \notin UpTo(r)
        <5>1. b[First(t)] \in Nat /\ it[t \ {First(t)}] \in Nat
          BY <3>4, <3>5, <4>2
        <5>2. QED
          BY <4>2, <5>1
      <4>3. QED
        BY <4>1, <4>2
    <3>7. more \in [UpTo(s) -> Nat]
      BY <3>6
    <3>8. ASSUME NEW t \in UpTo(s)
          PROVE  Adds(more, b, t)
      <4>1. t # {} => more[t \ {First(t)}] = it[t \ {First(t)}]
        BY <3>4
      <4>2. CASE t \in UpTo(r)
        BY <3>3, <4>1, <4>2 DEF Adds
      <4>3. CASE t \notin UpTo(r)
        BY <3>5, <4>1, <4>3 DEF Adds
      <4>4. QED
        BY <4>2, <4>3
    <3>9. QED
      BY <2>3, <3>7, <3>8
  <2>6. QED
    BY <2>4, <2>5
<1>2. Good(Files)
  <2> HIDE DEF Good
  <2>1. QED
    BY <1>1
<1>3. UpTo(Files) = SUBSET Files
  BY Size
<1>4. PICK it \in [SUBSET Files -> Nat] : \A s \in SUBSET Files : Adds(it, b, s)
  BY <1>2, <1>3
<1>5. it = [s \in SUBSET Files |-> IF s = {} THEN 0 ELSE b[First(s)] + it[s \ {First(s)}]]
  BY <1>4 DEF Adds
<1> DEFINE Rec(g) == g = [s \in SUBSET Files |-> IF s = {} THEN 0 ELSE b[First(s)] + g[s \ {First(s)}]]
<1>6. Rec(Total(b))
  <2>1. Rec(it)
    BY <1>5
  <2>2. Total(b) = CHOOSE g : Rec(g)
    BY DEF Total
  <2> HIDE DEF Rec
  <2>3. QED
    BY <2>1, <2>2
<1>7. ASSUME NEW s \in SUBSET Files
      PROVE  Adds(Total(b), b, s)
  BY <1>6 DEF Adds
<1> DEFINE U == {s \in SUBSET Files : Total(b)[s] \notin Nat}
<1>8. U = {}
  <2>1. SUFFICES ASSUME U # {}
                 PROVE  FALSE
    OBVIOUS
  <2>2. PICK s \in U : \A t \in U : Cardinality(s) <= Cardinality(t)
    BY <2>1, SmallestSet
  <2>3. s \in SUBSET Files /\ Total(b)[s] \notin Nat
    OBVIOUS
  <2>4. Total(b)[s] = IF s = {} THEN 0 ELSE b[First(s)] + Total(b)[s \ {First(s)}]
    BY <1>7, <2>3 DEF Adds
  <2>5. s # {}
    BY <2>3, <2>4
  <2>6. First(s) \in Files /\ s \ {First(s)} \in SUBSET Files
    BY <2>3, <2>5, FirstIn
  <2>7. Cardinality(s \ {First(s)}) = Cardinality(s) - 1 /\ Cardinality(s) \in Nat
    BY <2>3, <2>5, FirstIn, Size
  <2>8. s \ {First(s)} \notin U
    BY <2>2, <2>7, SMTT(30)
  <2>9. Total(b)[s \ {First(s)}] \in Nat /\ b[First(s)] \in Nat
    BY <2>6, <2>8
  <2>10. QED
    BY <2>3, <2>4, <2>5, <2>9
<1>9. Total(b) \in [SUBSET Files -> Nat]
  BY <1>6, <1>8
<1>10. QED
  BY <1>7, <1>9

LEMMA TotalGrows ==
  ASSUME NEW b \in [Files -> Nat], NEW c \in [Files -> Nat], \A f \in Files : b[f] <= c[f],
         NEW s \in SUBSET Files
  PROVE  /\ Total(b)[s] <= Total(c)[s]
         /\ Total(b)[s] = Total(c)[s] => \A f \in s : b[f] = c[f]
<1> DEFINE Fine(t) == /\ Total(b)[t] <= Total(c)[t]
                      /\ Total(b)[t] = Total(c)[t] => \A f \in t : b[f] = c[f]
           T == {t \in SUBSET Files : ~Fine(t)}
<1>1. SUFFICES ASSUME T # {}
               PROVE  FALSE
  OBVIOUS
<1>2. PICK t \in T : \A u \in T : Cardinality(t) <= Cardinality(u)
  <2> HIDE DEF Fine
  <2>1. T \in SUBSET SUBSET Files
    OBVIOUS
  <2>2. QED
    BY <1>1, <2>1, SmallestSet
<1>3. t \in SUBSET Files /\ ~Fine(t)
  OBVIOUS
<1>4. /\ Total(b)[t] = IF t = {} THEN 0 ELSE b[First(t)] + Total(b)[t \ {First(t)}]
      /\ Total(c)[t] = IF t = {} THEN 0 ELSE c[First(t)] + Total(c)[t \ {First(t)}]
  BY <1>3, TotalAdds DEF Adds
<1>5. t # {}
  BY <1>3, <1>4
<1> DEFINE r == t \ {First(t)}
<1>6. /\ First(t) \in Files /\ First(t) \in t /\ r \in SUBSET Files
      /\ Cardinality(r) = Cardinality(t) - 1 /\ Cardinality(t) \in Nat
  BY <1>3, <1>5, FirstIn, Size
<1>7. Fine(r)
  <2> HIDE DEF Fine, r
  <2>1. r \notin T
    BY <1>2, <1>6
  <2>2. QED
    BY <1>6, <2>1
<1>8. /\ Total(b)[r] \in Nat /\ Total(c)[r] \in Nat /\ Total(b)[r] <= Total(c)[r]
      /\ b[First(t)] \in Nat /\ c[First(t)] \in Nat /\ b[First(t)] <= c[First(t)]
  BY <1>6, <1>7, TotalAdds
<1>a. Total(b)[t] = b[First(t)] + Total(b)[r] /\ Total(c)[t] = c[First(t)] + Total(c)[r]
  BY <1>4, <1>5
<1> DEFINE bf == b[First(t)]  br == Total(b)[r]  cf == c[First(t)]  cr == Total(c)[r]
<1>b. /\ bf \in Nat /\ br \in Nat /\ cf \in Nat /\ cr \in Nat /\ bf <= cf /\ br <= cr
      /\ Total(b)[t] = bf + br /\ Total(c)[t] = cf + cr
  BY <1>8, <1>a
<1>c. bf + br <= cf + cr /\ (bf + br = cf + cr => bf = cf /\ br = cr)
  <2> HIDE DEF bf, br, cf, cr
  <2>1. QED
    BY <1>b
<1>9. Total(b)[t] <= Total(c)[t]
  BY <1>b, <1>c
<1>10. ASSUME Total(b)[t] = Total(c)[t]
       PROVE  \A f \in t : b[f] = c[f]
  <2>1. b[First(t)] = c[First(t)] /\ Total(b)[r] = Total(c)[r]
    BY <1>b, <1>c, <1>10
  <2>2. \A f \in r : b[f] = c[f]
    BY <1>7, <2>1
  <2>3. QED
    BY <2>1, <2>2
<1>11. QED
  BY <1>3, <1>9, <1>10

\* Sums of bytes.
LEMMA SumFacts ==
  ASSUME NEW b \in [Files -> Nat]
  PROVE  /\ SumFunction(b) \in Nat
         /\ \A c \in [Files -> Nat] : (\A f \in Files : b[f] <= c[f]) =>
              /\ SumFunction(b) <= SumFunction(c)
              /\ SumFunction(b) = SumFunction(c) => b = c
<1> HIDE DEF Files
<1>0. Files \in SUBSET Files
  OBVIOUS
<1>1. \A c \in [Files -> Nat] : SumFunction(c) = Total(c)[Files]
  BY SumIs
<1>2. SumFunction(b) = Total(b)[Files] /\ SumFunction(b) \in Nat
  <2>1. Total(b) \in [SUBSET Files -> Nat]
    BY TotalAdds
  <2>2. Total(b)[Files] \in Nat
    BY <1>0, <2>1
  <2>3. QED
    BY <1>1, <2>2
<1>3. ASSUME NEW c \in [Files -> Nat], \A f \in Files : b[f] <= c[f]
      PROVE  /\ SumFunction(b) <= SumFunction(c)
             /\ SumFunction(b) = SumFunction(c) => b = c
  <2>1. SumFunction(c) = Total(c)[Files]
    BY <1>1
  <2>2. /\ Total(b)[Files] <= Total(c)[Files]
        /\ Total(b)[Files] = Total(c)[Files] => \A f \in Files : b[f] = c[f]
    BY <1>0, <1>3, TotalGrows
  <2>3. QED
    BY <1>2, <2>1, <2>2
<1>4. QED
  BY <1>2, <1>3

LEMMA SumPositive ==
  ASSUME NEW b \in [Files -> Nat \ {0}]
  PROVE  SumFunction(b) # 0
<1>1. Files # {} /\ Files \in SUBSET Files /\ b \in [Files -> Nat]
  BY SMTT(30) DEF Files
<1>2. Total(b)[Files] = b[First(Files)] + Total(b)[Files \ {First(Files)}]
  BY <1>1, TotalAdds DEF Adds
<1>3. First(Files) \in Files /\ Files \ {First(Files)} \in SUBSET Files
  BY <1>1, FirstIn
<1>4. b[First(Files)] \in Nat \ {0} /\ Total(b)[Files \ {First(Files)}] \in Nat
  BY <1>1, <1>3, TotalAdds
<1>5. QED
  BY <1>1, <1>2, <1>4, SumIs

-----------------------------------------------------------------------------
(* The figure.                                                             *)

\* Sixtieths of the total, rounded down.
LEMMA Share ==
  ASSUME NEW part \in Nat, NEW whole \in Nat \ {0}
  PROVE  /\ (part * 60) \div whole \in Nat
         /\ (part * 60) \div whole >= 60 => part >= whole
BY SMTT(60)

LEMMA PercentFacts ==
  ASSUME size \in Sizes, NEW b \in [Files -> Nat]
  PROVE  /\ Percent(b) \in 10..70
         /\ size = Length /\ (\A f \in Files : b[f] <= Length[f]) /\ Percent(b) = 70 => b = Length
<1>1. size \in [Files -> Nat] /\ SumFunction(size) \in Nat /\ SumFunction(b) \in Nat
  BY SumFacts
<1>2. SumFunction(size) # 0 =>
        /\ (SumFunction(b) * 60) \div SumFunction(size) \in Nat
        /\ (SumFunction(b) * 60) \div SumFunction(size) >= 60 => SumFunction(b) >= SumFunction(size)
  BY <1>1, Share
<1> DEFINE q == (SumFunction(b) * 60) \div SumFunction(size)
<1>3. Percent(b) = IF SumFunction(size) = 0 THEN 10 ELSE IF 10 + q > 70 THEN 70 ELSE 10 + q
  BY DEF Percent
<1>4. Percent(b) \in 10..70
  <2>1. CASE SumFunction(size) = 0
    BY <1>3, <2>1
  <2>2. CASE SumFunction(size) # 0
    <3>1. q \in Nat /\ Percent(b) = IF 10 + q > 70 THEN 70 ELSE 10 + q
      BY <1>2, <1>3, <2>2
    <3> HIDE DEF q
    <3>2. 10 + q > 70 => Percent(b) = 70
      BY <3>1
    <3>3. ~(10 + q > 70) => Percent(b) = 10 + q /\ 10 + q \in 10..70
      BY <3>1
    <3>4. QED
      BY <3>2, <3>3
  <2>3. QED
    BY <2>1, <2>2
<1>5. ASSUME size = Length, \A f \in Files : b[f] <= Length[f], Percent(b) = 70
      PROVE  b = Length
  <2>1. SumFunction(size) # 0
    BY <1>5, SumPositive
  <2>2. SumFunction(b) >= SumFunction(size)
    <3> HIDE DEF q
    <3>1. q \in Nat /\ (q >= 60 => SumFunction(b) >= SumFunction(size))
      BY <1>2, <2>1 DEF q
    <3>2. QED
      BY <1>3, <1>5, <2>1, <3>1
  <2>3. /\ SumFunction(b) <= SumFunction(Length)
        /\ SumFunction(b) = SumFunction(Length) => b = Length
    BY <1>5, SumFacts
  <2>4. QED
    BY <1>1, <1>5, <2>2, <2>3
<1>6. QED
  BY <1>4, <1>5

-----------------------------------------------------------------------------
(* The workers.                                                            *)

\* The parts that speak of the row, the answers and the end of the pool keep,
\* since a busy worker runs inside the pool and what has arrived stays.
LEMMA OutsideKeeps ==
  ASSUME IInv, pc = "pool", UNCHANGED <<pc, row, kept, view>>, arrived \subseteq arrived', arrived' \subseteq Files
  PROVE  Counting' /\ NilShowsAll' /\ RowHonest' /\ ShownDownloadedIsTrue'
BY DEF IInv, Counting, NilShowsAll, RowHonest, ShownDownloadedIsTrue

\* A worker in the pool that goes on with its file.
LEMMA WorkerKeeps ==
  ASSUME IInv, NEW w \in Workers, Busy(w),
         UNCHANGED <<pc, row, kept, view, todo, file>>,
         NEW spot \in Spots, at' = [at EXCEPT ![w] = spot], spot # "idle",
         failed' \in BOOLEAN, failed => failed', spot = "done" => failed',
         got' \in [Workers -> Nat], \A v \in Workers \ {w} : got'[v] = got[v],
         NEW s \in {"pending", "downloading", "downloaded"},
         status' = status \/ status' = [status EXCEPT ![file[w]] = s],
         arrived \subseteq arrived', arrived' \subseteq Files,
         spot = "copy" /\ got'[w] = Length[file[w]] => file[w] \in arrived',
         spot = "prepare" => status'[file[w]] = "downloaded",
         status'[file[w]] = "downloaded" => file[w] \in arrived'
  PROVE  IInv'
<1>1. file[w] \in Files /\ pc = "pool"
  BY DEF IInv, Hands, Types
<1>2. Types'
  BY <1>1 DEF IInv, Types
<1>3. \A v \in Workers \ {w} : at'[v] = at[v] /\ (Busy(v) => file[v] # file[w])
  BY DEF IInv, Types, Hands
<1>4. at'[w] = spot
  BY DEF IInv, Types
<1>5. \A f \in Files \ {file[w]} : status'[f] = status[f]
  BY DEF IInv, Types
<1>6. Hands'
  BY <1>1, <1>3, <1>4 DEF IInv, Hands, Busy
<1>7. Full'
  <2>1. SUFFICES ASSUME NEW v \in Workers \ {w}
                 PROVE  /\ at[v] = "copy" /\ got[v] = Length[file[v]] => file[v] \in arrived'
                        /\ at[v] = "prepare" => status'[file[v]] = "downloaded"
    BY <1>3, <1>4 DEF Full
  <2>2. ASSUME at[v] = "prepare"
        PROVE  file[v] \in Files \ {file[w]}
    <3>1. Busy(v)
      BY <2>2 DEF Busy
    <3>2. file[v] \in 1..todo - 1 /\ todo \in 1..N + 1
      BY <3>1 DEF IInv, Hands, Types
    <3>3. QED
      BY <1>3, <3>1, <3>2
  <2>3. QED
    BY <1>5, <2>2 DEF IInv, Full
<1>8. Honest'
  BY <1>1, <1>5 DEF IInv, Honest
<1>9. Books'
  <2>1. SUFFICES ASSUME NEW f \in 1..todo - 1, ~failed'
                 PROVE  status'[f] = "downloaded" \/ \E v \in Workers : (Busy(v))' /\ file[v] = f
    BY DEF Books
  <2>2. CASE f = file[w]
    BY <2>1, <2>2, <1>4 DEF Busy
  <2>3. CASE f # file[w]
    <3>1. f \in Files \ {file[w]}
      BY <2>3 DEF IInv, Types
    <3>2. status[f] = "downloaded" \/ \E v \in Workers : Busy(v) /\ file[v] = f
      BY <2>1 DEF IInv, Books
    <3>3. QED
      BY <3>1, <3>2, <1>3, <1>5, <2>3 DEF Busy
  <2>4. QED
    BY <2>2, <2>3
<1>10. Leaving'
  BY <1>3, <1>4 DEF IInv, Leaving, Types
<1>11. QED
  BY <1>1, <1>2, <1>6, <1>7, <1>8, <1>9, <1>10, OutsideKeeps DEF IInv

LEMMA TakeKeeps ==
  ASSUME IInv, NEW w \in Workers, Take(w)
  PROVE  IInv'
<1> USE DEF Take
<1>1. /\ at[w] = "idle" /\ pc = "pool" /\ UNCHANGED <<pc, row, kept, status, failed, got, view, arrived>>
      /\ todo \in Files /\ todo' = todo + 1
  BY DEF At, counters
<1>2. PICK spot \in {"open", "start"} : at' = [at EXCEPT ![w] = spot]
  BY DEF Move
<1>3. Types'
  BY <1>1, <1>2 DEF IInv, Types, Spots
<1>4. \A v \in Workers \ {w} : at'[v] = at[v] /\ file'[v] = file[v]
  BY <1>2 DEF IInv, Types
<1>5. at'[w] = spot /\ file'[w] = todo
  BY <1>2 DEF IInv, Types
<1>6. Hands'
  <2>1. \A v \in Workers \ {w} : Busy(v) => file[v] \in 1..todo - 1
    BY DEF IInv, Hands
  <2>2. QED
    BY <2>1, <1>1, <1>4, <1>5 DEF IInv, Hands, Busy
<1>7. Full'
  BY <1>1, <1>4, <1>5 DEF IInv, Full
<1>8. Honest'
  BY <1>1 DEF IInv, Honest
<1>9. Books'
  <2>1. SUFFICES ASSUME NEW f \in 1..todo, ~failed
                 PROVE  status[f] = "downloaded" \/ \E v \in Workers : (Busy(v))' /\ file'[v] = f
    BY <1>1 DEF Books
  <2>2. CASE f = todo
    BY <2>2, <1>5 DEF Busy
  <2>3. CASE f # todo
    <3>1. f \in 1..todo - 1
      BY <2>3, <1>1
    <3>2. QED
      BY <2>1, <3>1, <1>1, <1>4 DEF IInv, Books, Busy
  <2>4. QED
    BY <2>2, <2>3
<1>10. Leaving'
  BY <1>1, <1>4, <1>5 DEF IInv, Leaving
<1>11. QED
  BY <1>1, <1>3, <1>6, <1>7, <1>8, <1>9, <1>10, OutsideKeeps DEF IInv, Types

LEMMA LeaveKeeps ==
  ASSUME IInv, NEW w \in Workers, Leave(w)
  PROVE  IInv'
<1>1. /\ at[w] = "idle" /\ pc = "pool" /\ at' = [at EXCEPT ![w] = "done"]
      /\ UNCHANGED <<pc, row, kept, status, failed, got, view, arrived, todo, file>>
      /\ todo \notin Files \/ failed
  BY DEF Leave, At, Move, counters
<1>2. Types'
  BY <1>1 DEF IInv, Types, Spots
<1>3. \A v \in Workers : (Busy(v))' <=> Busy(v)
  BY <1>1 DEF IInv, Types, Busy
<1>4. \A v \in Workers : at'[v] # at[v] => at'[v] = "done"
  BY <1>1 DEF IInv, Types
<1>5. Hands' /\ Honest' /\ Books'
  BY <1>1, <1>3 DEF IInv, Hands, Honest, Books
<1>6. Full'
  BY <1>1, <1>4 DEF IInv, Full
<1>7. Leaving'
  BY <1>1, <1>4 DEF IInv, Leaving, Types
<1>8. QED
  BY <1>1, <1>2, <1>5, <1>6, <1>7, OutsideKeeps DEF IInv, Types

\* What updateDownloadState does to the shown status of the worker's file.
LEMMA Updated ==
  ASSUME IInv, NEW w \in Workers, Busy(w), NEW b, NEW s, Update(w, b, s)
  PROVE  kept' = kept /\ status' = [status EXCEPT ![file[w]] = s]
BY DEF Update, IInv, Hands, Counting, counters

\* Where a failed call leaves its worker.
LEMMA Retried ==
  ASSUME NEW w \in Workers, TryAgain(w) \/ GiveUp(w)
  PROVE  \/ at' = [at EXCEPT ![w] = "start"] /\ failed' = failed
         \/ at' = [at EXCEPT ![w] = "done"] /\ failed' = TRUE
BY DEF TryAgain, GiveUp, Move

LEMMA GoingOnKeeps ==
  ASSUME IInv, NEW w \in Workers,
         Start(w) \/ Open(w) \/ Copy(w) \/ CopyFails(w) \/ Again(w) \/ Saved(w) \/ Prepare(w)
  PROVE  IInv'
<1>0. Busy(w) /\ file[w] \in Files
  BY DEF Start, Open, Copy, CopyFails, Again, Saved, Prepare, At, Busy, IInv, Hands, Types
<1>a. Types
  BY DEF IInv
<1>b. status[file[w]] = "downloaded" => file[w] \in arrived
  BY <1>0 DEF IInv, Honest
<1>c. {"start", "open", "copy", "again", "prepare", "done"} \subseteq Spots
  BY DEF Spots
<1>1. CASE Start(w)
  <2>1. CASE failed /\ GiveUp(w) /\ UNCHANGED <<counters, write>>
    <3>1. PICK spot \in {"start", "done"} :
             /\ at' = [at EXCEPT ![w] = spot]
             /\ failed' \in BOOLEAN /\ (failed => failed') /\ (spot = "done" => failed')
      BY <2>1, <1>a, Retried DEF Types
    <3>2. UNCHANGED <<pc, row, kept, view, todo, file, status, got, arrived>>
      BY <1>1, <2>1 DEF Start, counters
    <3>3. QED
      BY <1>0, <1>a, <1>b, <1>c, <3>1, <3>2, WorkerKeeps DEF Types
  <2>2. CASE ~failed /\ Update(w, 0, "downloading") /\ Move(w, "open") /\ UNCHANGED failed
    <3>1. at' = [at EXCEPT ![w] = "open"]
      BY <2>2 DEF Move
    <3>2. UNCHANGED <<pc, row, view, todo, file, got, arrived>>
      BY <1>1 DEF Start
    <3>3. kept' = kept /\ status' = [status EXCEPT ![file[w]] = "downloading"]
      BY <2>2, <1>0, Updated
    <3>4. status'[file[w]] = "downloading"
      BY <1>0, <1>a, <3>3 DEF Types
    <3>5. QED
      BY <1>0, <1>a, <1>c, <2>2, <3>1, <3>2, <3>3, <3>4, WorkerKeeps DEF Types
  <2>3. QED
    BY <1>1, <2>1, <2>2 DEF Start
<1>2. CASE Open(w)
  <2>1. got' = [got EXCEPT ![w] = 0] /\ UNCHANGED <<pc, row, kept, view, todo, file, status, arrived>>
    BY <1>2 DEF Open, counters
  <2>2. got'[w] # Length[file[w]] /\ got' \in [Workers -> Nat]
    BY <1>0, <1>a, <2>1 DEF Types
  <2>3. PICK spot \in {"copy", "start", "done"} :
           /\ at' = [at EXCEPT ![w] = spot]
           /\ failed' \in BOOLEAN /\ (failed => failed') /\ (spot = "done" => failed')
    BY <1>2, <1>a, Retried DEF Open, Move, Types
  <2>4. QED
    BY <1>0, <1>a, <1>b, <1>c, <2>1, <2>2, <2>3, WorkerKeeps, ZenonT(30) DEF Types
<1>3. CASE Copy(w)
  <2>1. /\ at[w] = "copy" /\ UNCHANGED <<pc, row, view, todo, failed, at, file>>
        /\ got' = [got EXCEPT ![w] = @ + 1]
        /\ arrived' = IF got[w] + 1 = Length[file[w]] THEN arrived \union {file[w]} ELSE arrived
    BY <1>3 DEF Copy, At
  <2>2. kept' = kept /\ status' = [status EXCEPT ![file[w]] = "downloading"]
    BY <1>3, <1>0, Updated DEF Copy
  <2>3. status'[file[w]] = "downloading"
    BY <1>0, <1>a, <2>2 DEF Types
  <2>4. at' = [at EXCEPT ![w] = "copy"]
    BY <1>a, <2>1 DEF Types
  <2>5. got' \in [Workers -> Nat] /\ got'[w] = got[w] + 1
    BY <1>a, <2>1 DEF Types
  <2>6. arrived \subseteq arrived' /\ arrived' \subseteq Files
    BY <1>0, <1>a, <2>1 DEF Types
  <2>7. QED
    BY <1>0, <1>a, <1>c, <2>1, <2>2, <2>3, <2>4, <2>5, <2>6, WorkerKeeps DEF Types
<1>4. CASE CopyFails(w)
  <2>1. at' = [at EXCEPT ![w] = "again"] /\ UNCHANGED <<pc, row, view, todo, failed, file, got, arrived>>
    BY <1>4 DEF CopyFails, Move
  <2>2. kept' = kept /\ (status' = status \/ status' = [status EXCEPT ![file[w]] = "pending"])
    BY <1>4, <1>0, Updated DEF CopyFails, counters
  <2>3. status'[file[w]] = "downloaded" => file[w] \in arrived
    BY <1>0, <1>a, <1>b, <2>2 DEF Types
  <2>4. QED
    BY <1>0, <1>a, <1>c, <2>1, <2>2, <2>3, WorkerKeeps, ZenonT(30) DEF Types
<1>5. CASE Again(w) \/ Prepare(w)
  <2>1. UNCHANGED <<pc, row, kept, view, todo, file, got, status, arrived>>
    BY <1>5 DEF Again, Prepare, counters
  <2>2. CASE at' = [at EXCEPT ![w] = "idle"] /\ at[w] = "prepare" /\ UNCHANGED failed
    <3>1. \A v \in Workers \ {w} : at'[v] = at[v]
      BY <1>a, <2>2 DEF Types
    <3>2. at'[w] = "idle" /\ status[file[w]] = "downloaded" /\ pc = "pool"
      BY <1>0, <1>a, <2>2 DEF Types, IInv, Full, Hands
    <3>3. Types'
      BY <1>a, <2>1, <2>2 DEF Types, Spots
    <3>4. Hands' /\ Full' /\ Honest' /\ Leaving'
      BY <2>1, <2>2, <3>1, <3>2 DEF IInv, Hands, Full, Honest, Leaving, Busy
    <3>5. Books'
      BY <2>1, <2>2, <3>1, <3>2 DEF IInv, Books, Busy
    <3>6. QED
      BY <1>a, <2>1, <3>2, <3>3, <3>4, <3>5, OutsideKeeps DEF IInv, Types
  <2>3. CASE TryAgain(w) \/ GiveUp(w)
    <3>1. PICK spot \in {"start", "done"} :
             /\ at' = [at EXCEPT ![w] = spot]
             /\ failed' \in BOOLEAN /\ (failed => failed') /\ (spot = "done" => failed')
      BY <2>3, <1>a, Retried DEF Types
    <3>2. QED
      BY <1>0, <1>a, <1>b, <1>c, <2>1, <3>1, WorkerKeeps DEF Types
  <2>4. QED
    BY <1>5, <2>2, <2>3 DEF Again, Prepare, Move, At
<1>6. CASE Saved(w)
  <2>1. /\ at[w] = "copy" /\ got[w] = Length[file[w]]
        /\ at' = [at EXCEPT ![w] = "prepare"]
        /\ UNCHANGED <<pc, row, view, todo, failed, file, got, arrived>>
    BY <1>6 DEF Saved, At, Move
  <2>2. kept' = kept /\ status' = [status EXCEPT ![file[w]] = "downloaded"]
    BY <1>6, <1>0, Updated DEF Saved
  <2>3. status'[file[w]] = "downloaded" /\ file[w] \in arrived
    BY <1>0, <1>a, <2>1, <2>2 DEF Types, IInv, Full
  <2>4. QED
    BY <1>0, <1>a, <1>c, <2>1, <2>2, <2>3, WorkerKeeps DEF Types
<1>7. QED
  BY <1>1, <1>2, <1>3, <1>4, <1>5, <1>6

LEMMA WriteKeeps ==
  ASSUME IInv, NEW w \in Workers, Write(w)
  PROVE  IInv'
<1>1. UNCHANGED <<pc, todo, failed, at, file, got, kept, status, view, arrived>>
  BY DEF Write, work, counters
<1>2. row'.stage = "downloading" \/ row' = row
  BY DEF Write, SetRow
<1>3. Types' /\ Hands' /\ Counting' /\ Full' /\ Honest' /\ Books' /\ Leaving'
  BY <1>1 DEF IInv, Types, Hands, Counting, Full, Honest, Books, Leaving, Busy
<1>4. NilShowsAll' /\ RowHonest' /\ ShownDownloadedIsTrue'
  BY <1>1, <1>2 DEF IInv, NilShowsAll, RowHonest, ShownDownloadedIsTrue
<1>5. QED
  BY <1>3, <1>4 DEF IInv

-----------------------------------------------------------------------------
(* The goroutine and the handler.                                          *)

\* The goroutine leaves the workers alone, and enters the pool from
\* "announce" only.
LEMMA ProcessKeeps ==
  ASSUME IInv, Process
  PROVE  IInv'
<1>1. UNCHANGED <<todo, failed, at, file, got, status, view, arrived>>
  BY DEF Process, Begin, Tell, Return, Clear, GoTo, work, counters
<1>2. Types' /\ Full' /\ Honest' /\ Books' /\ Leaving' /\ ShownDownloadedIsTrue'
  BY <1>1 DEF IInv, Types, Full, Honest, Books, Leaving, ShownDownloadedIsTrue, Busy
<1>3. CASE Return
  <2>1. \A w \in Workers : at[w] = "done"
    BY <1>3 DEF Return
  <2>2. ~failed => \A f \in Files : status[f] = "downloaded"
    <3>1. SUFFICES ASSUME ~failed, NEW f \in Files
                   PROVE  status[f] = "downloaded"
      OBVIOUS
    <3>2. todo = N + 1
      BY <2>1, <3>1 DEF IInv, Leaving
    <3>3. f \in 1..todo - 1
      BY <3>2
    <3>4. QED
      BY <2>1, <3>1, <3>3 DEF IInv, Books, Busy
  <2>3. pc' = (IF failed THEN "failing" ELSE "merging") /\ UNCHANGED <<row, kept>>
    BY <1>3 DEF Return, GoTo, counters
  <2>4. Hands' /\ Counting'
    BY <1>1, <2>1, <2>3 DEF Hands, Counting, Busy
  <2>5. NilShowsAll' /\ RowHonest'
    BY <1>1, <2>2, <2>3 DEF IInv, NilShowsAll, RowHonest
  <2>6. QED
    BY <1>2, <2>4, <2>5 DEF IInv
<1>4. CASE Begin
  BY <1>1, <1>2, <1>4 DEF IInv, Begin, GoTo, counters, Hands, Counting, NilShowsAll, RowHonest, Busy
<1>5. CASE Tell("announce", "downloading", 10, {"pool"})
  <2>1. pc = "announce" /\ pc' = "pool" /\ kept' = kept /\ (row'.stage = "downloading" \/ row' = row)
    BY <1>5 DEF Tell, GoTo, SetRow, counters
  <2>2. QED
    BY <1>1, <1>2, <2>1 DEF IInv, Hands, Counting, NilShowsAll, RowHonest, Busy
<1>6. CASE \/ Tell("merging", "merging", 75, {"uploading", "failing"})
           \/ Tell("uploading", "uploading", 90, {"completing", "failing"})
           \/ Tell("completing", "completed", 100, {"clear", "failing"})
  <2>1. /\ pc \in {"merging", "uploading", "completing"}
        /\ pc' \in {"uploading", "completing", "clear", "failing"}
    BY <1>6 DEF Tell, GoTo
  <2>2. \A f \in Files : status[f] = "downloaded"
    BY <2>1 DEF IInv, NilShowsAll
  <2>3. arrived = Files
    BY <2>2 DEF IInv, Honest, Types
  <2>4. QED
    BY <1>1, <1>2, <2>1, <2>2, <2>3 DEF IInv, Hands, Counting, NilShowsAll, RowHonest, Busy
<1>7. CASE Tell("failing", "failed", 10, {"clear"})
  <2>1. pc = "failing" /\ pc' = "clear" /\ (row'.stage = "failed" \/ row' = row)
    BY <1>7 DEF Tell, GoTo, SetRow
  <2>2. QED
    BY <1>1, <1>2, <2>1 DEF IInv, Hands, Counting, NilShowsAll, RowHonest, Busy
<1>8. CASE Clear
  BY <1>1, <1>2, <1>8 DEF IInv, Clear, GoTo, Hands, Counting, NilShowsAll, RowHonest, Busy
<1>9. QED
  BY <1>3, <1>4, <1>5, <1>6, <1>7, <1>8 DEF Process

LEMMA ViewKeeps ==
  ASSUME IInv, View
  PROVE  IInv'
<1>1. UNCHANGED <<pc, row, todo, failed, at, file, got, kept, status, arrived>>
  BY DEF View, ReadRow, Peek, Look, Done, See, work, counters
<1>2. Types' /\ Hands' /\ Counting' /\ Full' /\ Honest' /\ Books' /\ Leaving'
  BY <1>1 DEF IInv, Types, Hands, Counting, Full, Honest, Books, Leaving, Busy
<1>3. NilShowsAll' /\ RowHonest'
  BY <1>1 DEF IInv, NilShowsAll, RowHonest
<1>4. view'.at = "answered" => view'.shown \subseteq arrived
  BY DEF View, ReadRow, Peek, Look, Done, See, IInv, Honest, RowHonest
<1>5. QED
  BY <1>1, <1>2, <1>3, <1>4 DEF IInv, ShownDownloadedIsTrue

LEMMA StepKeeps == IInv /\ [Next]_vars => IInv'
<1>1. SUFFICES ASSUME IInv, [Next]_vars
               PROVE  IInv'
  OBVIOUS
<1>2. CASE Process
  BY <1>1, <1>2, ProcessKeeps
<1>3. CASE View
  BY <1>1, <1>3, ViewKeeps
<1>4. ASSUME NEW w \in Workers, Work(w)
      PROVE  IInv'
  BY <1>1, <1>4, TakeKeeps, LeaveKeeps, GoingOnKeeps, WriteKeeps DEF Work
<1>5. CASE UNCHANGED vars
  BY <1>1, <1>5 DEF vars, IInv, Types, Hands, Counting, Full, Honest, Books, Leaving, Busy,
                    NilShowsAll, RowHonest, ShownDownloadedIsTrue
<1>6. QED
  BY <1>1, <1>2, <1>3, <1>4, <1>5 DEF Next

-----------------------------------------------------------------------------
(* The bar.  PercentFits is not inductive either: a worker may hold a      *)
(* figure it computed long ago, and the counters go down when an attempt   *)
(* starts again.  What keeps is that a counter never exceeds the file, and *)
(* that a figure of 70, wherever it is, was computed when every file had   *)
(* been counted to its end.                                                *)

Bytes ==
    /\ bytes \in [Files -> Nat]
    /\ \A f \in Files : bytes[f] <= Length[f] /\ (bytes[f] = Length[f] => f \in arrived)

Figures ==
    /\ write \in [Workers -> 10..70 \union {NoWrite}]
    /\ \A w \in Workers : size = Length /\ write[w] = 70 => arrived = Files

Bar == size \in Sizes /\ Bytes /\ Figures /\ PercentFits

\* What a worker counts and reports under the mutex.
LEMMA UpdateKeepsBar ==
  ASSUME Bar, NEW w \in Workers, file[w] \in Files, NEW b \in Nat, NEW s,
         Update(w, b, s) \/ UNCHANGED <<counters, write>>,
         b <= Length[file[w]], b = Length[file[w]] => file[w] \in arrived',
         arrived \subseteq arrived', arrived' \subseteq Files, UNCHANGED <<row, size>>
  PROVE  Bar'
<1> DEFINE now == [bytes EXCEPT ![file[w]] = b]
<1>1. /\ now \in [Files -> Nat]
      /\ \A f \in Files : now[f] <= Length[f] /\ (now[f] = Length[f] => f \in arrived')
  BY DEF Bar, Bytes
<1>2. Percent(now) \in 10..70 /\ (size = Length /\ Percent(now) = 70 => now = Length)
  <2> HIDE DEF now
  <2>1. QED
    BY <1>1, PercentFacts, ZenonT(30) DEF Bar
<1>3. size = Length /\ Percent(now) = 70 => arrived' = Files
  BY <1>1, <1>2, ZenonT(30)
<1>4. bytes' = bytes \/ bytes' = now
  BY DEF Update, counters
<1>5. write' = write \/ write' = [write EXCEPT ![w] = Percent(now)]
  BY DEF Update
<1>6. Bytes'
  BY <1>1, <1>4 DEF Bar, Bytes
<1>7. Figures'
  <2> DEFINE p == Percent(now)
  <2>1. p \in 10..70 /\ (size = Length /\ p = 70 => arrived' = Files)
    BY <1>2, <1>3
  <2>2. write' = write \/ write' = [write EXCEPT ![w] = p]
    BY <1>5
  <2> HIDE DEF now, p
  <2>3. write' \in [Workers -> 10..70 \union {NoWrite}]
    BY <2>1, <2>2 DEF Bar, Figures
  <2>4. ASSUME NEW v \in Workers, size' = Length, write'[v] = 70
        PROVE  arrived' = Files
    <3>1. write'[v] = write[v] \/ write'[v] = p
      BY <2>2 DEF Bar, Figures
    <3>2. write[v] = 70 => arrived = Files
      BY <2>4 DEF Bar, Figures
    <3>3. QED
      BY <2>1, <2>4, <3>1, <3>2
  <2>5. QED
    BY <2>3, <2>4 DEF Figures
<1>8. PercentFits'
  BY DEF Bar, PercentFits
<1>9. QED
  BY <1>6, <1>7, <1>8 DEF Bar

\* A step that leaves the counters and the waiting figures alone.
LEMMA RowKeepsBar ==
  ASSUME Bar, UNCHANGED <<size, bytes, write, arrived>>,
         \/ row' = row
         \/ row'.stage # "downloading"
         \/ row'.percent = 10
  PROVE  Bar'
<1>1. size' \in Sizes /\ Bytes' /\ Figures'
  BY DEF Bar, Bytes, Figures
<1>2. row' = row => PercentFits'
  BY DEF Bar, PercentFits
<1>3. row'.stage # "downloading" => PercentFits'
  BY DEF PercentFits
<1>4. row'.percent = 10 => PercentFits'
  BY DEF PercentFits
<1>5. PercentFits'
  BY <1>2, <1>3, <1>4
<1>6. QED
  BY <1>1, <1>5 DEF Bar

LEMMA BarStep == IInv /\ Bar /\ [Next]_vars => Bar'
<1>1. SUFFICES ASSUME IInv, Bar, [Next]_vars
               PROVE  Bar'
  OBVIOUS
<1>2. CASE Process
  <2>1. UNCHANGED <<size, bytes, write, arrived>>
    BY <1>2 DEF Process, Begin, Tell, Return, Clear, GoTo, given, counters
  <2>2. row' = row \/ row'.stage # "downloading" \/ row'.percent = 10
    BY <1>2 DEF Process, Begin, Tell, Return, Clear, SetRow
  <2>3. QED
    BY <1>1, <2>1, <2>2, RowKeepsBar
<1>3. CASE View \/ UNCHANGED vars
  <2>1. UNCHANGED <<size, bytes, write, arrived, row>>
    BY <1>3 DEF View, ReadRow, Peek, Look, Done, See, given, counters, vars
  <2>2. QED
    BY <1>1, <2>1, RowKeepsBar
<1>4. ASSUME NEW w \in Workers, Take(w) \/ Leave(w) \/ Open(w) \/ Again(w) \/ Prepare(w)
      PROVE  Bar'
  <2>1. UNCHANGED <<size, bytes, write, arrived, row>>
    BY <1>4 DEF Take, Leave, Open, Again, Prepare, given, counters
  <2>2. QED
    BY <1>1, <2>1, RowKeepsBar
<1>5. ASSUME NEW w \in Workers, Write(w)
      PROVE  Bar'
  <2>1. UNCHANGED <<size, bytes, arrived>> /\ write' = [write EXCEPT ![w] = NoWrite]
    BY <1>5 DEF Write, given, counters
  <2>2. write[w] \in 10..70 /\ (size = Length /\ write[w] = 70 => arrived = Files)
    BY <1>1, <1>5 DEF Write, Bar, Figures
  <2>3. row' = row \/ row' = [stage |-> "downloading", percent |-> write[w]]
    BY <1>5 DEF Write, SetRow
  <2>a. row' = row => PercentFits'
    BY <1>1, <2>1 DEF Bar, PercentFits
  <2>b. ASSUME row' = [stage |-> "downloading", percent |-> write[w]]
        PROVE  PercentFits'
    <3>1. row'.percent = write[w]
      BY <2>b
    <3>2. QED
      BY <2>1, <2>2, <3>1 DEF PercentFits
  <2>4. PercentFits'
    BY <2>3, <2>a, <2>b
  <2>5. Bytes' /\ Figures'
    BY <1>1, <2>1, WriteAssumption DEF Bar, Bytes, Figures
  <2>6. QED
    BY <1>1, <2>1, <2>4, <2>5 DEF Bar
<1>6. ASSUME NEW w \in Workers, Start(w) \/ Copy(w) \/ CopyFails(w) \/ Saved(w)
      PROVE  Bar'
  <2>1. Busy(w) /\ file[w] \in Files /\ Length[file[w]] \in Nat \ {0}
    BY <1>1, <1>6 DEF Start, Copy, CopyFails, Saved, At, Busy, IInv, Hands, Types
  <2>2. UNCHANGED <<row, size>> /\ arrived \subseteq Files
    BY <1>1, <1>6 DEF Start, Copy, CopyFails, Saved, given, IInv, Types
  <2>3. CASE Start(w) \/ CopyFails(w)
    <3>1. PICK s \in {"downloading", "pending"} : Update(w, 0, s) \/ UNCHANGED <<counters, write>>
      BY <2>3 DEF Start, CopyFails
    <3>2. arrived' = arrived
      BY <2>3 DEF Start, CopyFails
    <3>3. 0 \in Nat /\ 0 <= Length[file[w]] /\ 0 # Length[file[w]]
      BY <2>1
    <3>4. QED
      BY <1>1, <2>1, <2>2, <3>1, <3>2, <3>3, UpdateKeepsBar
  <2>4. CASE Copy(w)
    <3>1. /\ got[w] \in Nat /\ got[w] < Length[file[w]] /\ Update(w, got[w] + 1, "downloading")
          /\ arrived' = IF got[w] + 1 = Length[file[w]] THEN arrived \union {file[w]} ELSE arrived
      BY <1>1, <2>4 DEF Copy, IInv, Types
    <3>2. got[w] + 1 \in Nat /\ got[w] + 1 <= Length[file[w]]
      BY <2>1, <3>1
    <3>3. arrived \subseteq arrived' /\ arrived' \subseteq Files
      BY <2>1, <2>2, <3>1
    <3>4. got[w] + 1 = Length[file[w]] => file[w] \in arrived'
      BY <3>1
    <3>5. QED
      BY <1>1, <2>1, <2>2, <3>1, <3>2, <3>3, <3>4, UpdateKeepsBar
  <2>5. CASE Saved(w)
    <3>1. /\ got[w] \in Nat /\ got[w] = Length[file[w]] /\ Update(w, got[w], "downloaded")
          /\ arrived' = arrived /\ file[w] \in arrived
      BY <1>1, <2>5 DEF Saved, At, IInv, Types, Full
    <3>2. QED
      BY <1>1, <2>1, <2>2, <3>1, UpdateKeepsBar, SMTT(30)
  <2>6. QED
    BY <1>6, <2>3, <2>4, <2>5
<1>7. QED
  BY <1>1, <1>2, <1>3, <1>4, <1>5, <1>6 DEF Next, Work

-----------------------------------------------------------------------------
\* An answer to a poll shows a file as downloaded only if all of it has
\* arrived, though hydrateJobRuntimeState reads the counters after the row.
THEOREM ShownFilesArrived == Spec => []ShownDownloadedIsTrue
<1>1. IInv => ShownDownloadedIsTrue
  BY DEF IInv
<1>2. QED
  BY Initially, StepKeeps, <1>1, PTL DEF Spec

\* When downloadDriveInputs has returned nil, fileStatus is "downloaded" for
\* every file.
THEOREM NilShowsEveryFile == Spec => []NilShowsAll
<1>1. IInv => NilShowsAll
  BY DEF IInv
<1>2. QED
  BY Initially, StepKeeps, <1>1, PTL DEF Spec

\* The bar of a job that downloads stays between 10 and 70, whatever sizes
\* Drive told and however often a file starts again; and if the sizes were
\* true, 70 is shown only when every byte is there.
THEOREM BarIsTrue == Spec => []PercentFits
<1>1. Init => Bar
  <2>1. SUFFICES ASSUME Init
                 PROVE  Bar
    OBVIOUS
  <2>2. Bytes /\ Figures
    BY <2>1, WriteAssumption DEF Init, Bytes, Figures
  <2>3. PercentFits /\ size \in Sizes
    BY <2>1 DEF Init, PercentFits
  <2>4. QED
    BY <2>2, <2>3 DEF Bar
<1>2. Bar => PercentFits
  BY DEF Bar
<1>3. QED
  BY Initially, StepKeeps, BarStep, <1>1, <1>2, PTL DEF Spec
=============================================================================
