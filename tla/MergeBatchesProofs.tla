-------------------------- MODULE MergeBatchesProofs --------------------------
(***************************************************************************)
(* Proofs about merges, from the files of an upload or from the folder the *)
(* page shows: the files that were saved stay as they are while rounds of  *)
(* batches are written beside them, and the output holds every input once, *)
(* in the order of SortInputs.  The heart is a flow: what the parts of     *)
(* this round hold, followed by what is left of the files of the last one, *)
(* is always the whole sorted list.  A Drive merge adds that its inputs    *)
(* are files the page showed, in the order it showed.                      *)
(*                                                                         *)
(* FlattenSeq is a recursive function; that it exists and what it does on  *)
(* a concatenation is shown by least counterexamples.                      *)
(***************************************************************************)
EXTENDS DriveMerge, FiniteSetTheorems, SequenceTheorems, WellFoundedInduction, TLAPS

LEMMA LeastNat ==
    ASSUME NEW T \in SUBSET Nat, T # {}
    PROVE  \E n \in T : \A m \in T : n <= m
<1>. DEFINE R == OpToRel(<, Nat)
<1>1. IsWellFoundedOn(R, Nat)
  BY NatLessThanWellFounded
<1>2. \A m, n \in Nat : <<m, n>> \in R <=> m < n
  BY DEF OpToRel
<1>. HIDE DEF R
<1>3. PICK n \in T : \A m \in T : ~(<<m, n>> \in R)
  BY <1>1, WFMin
<1>4. ASSUME NEW m \in T PROVE n <= m
  <2>1. m \in Nat /\ n \in Nat /\ ~(m < n)
    BY <1>2, <1>3
  <2>. QED  BY <2>1
<1>. QED  BY <1>4

-----------------------------------------------------------------------------
(* FlattenSeq.                                                             *)

\* f[i] is the concatenation of the first i sequences of s.
Flattens(f, s, n) == \A i \in 1..n : f[i] = IF i = 1 THEN s[i] ELSE f[i - 1] \o s[i]

\* Its value, as a choice among the functions that satisfy its recursion.
Flat(s) == CHOOSE f : f = [i \in 1..Len(s) |-> IF i = 1 THEN s[i] ELSE f[i - 1] \o s[i]]

LEMMA FlatIs ==
    ASSUME NEW s
    PROVE  FlattenSeq(s) = IF Len(s) = 0 THEN s ELSE Flat(s)[Len(s)]
BY DEF FlattenSeq, Flat

LEMMA FlatExists ==
    ASSUME NEW D, NEW s \in Seq(Seq(D))
    PROVE  \E f \in [1..Len(s) -> Seq(D)] : Flattens(f, s, Len(s))
<1>. DEFINE Good(n) == \E f \in [1..n -> Seq(D)] : Flattens(f, s, n)
            T == {n \in 0..Len(s) : ~Good(n)}
<1>. SUFFICES ASSUME T # {} PROVE FALSE
  OBVIOUS
<1>1. T \in SUBSET Nat
  OBVIOUS
<1>2. PICK n \in T : \A m \in T : n <= m
  BY <1>1, LeastNat
<1>3. Good(0)
  <2>1. 1..0 = {}
    OBVIOUS
  <2>. DEFINE e == [i \in 1..0 |-> <<>>]
  <2>2. e \in [1..0 -> Seq(D)]
    BY <2>1
  <2>3. Flattens(e, s, 0)
    BY <2>1 DEF Flattens
  <2>. QED  BY <2>2, <2>3
<1>4. n \in 1..Len(s) /\ Good(n - 1)
  <2>. HIDE DEF Good
  <2>1. n \in 0..Len(s) /\ n # 0 /\ Len(s) \in Nat
    BY <1>2, <1>3
  <2>2. n - 1 \in 0..Len(s) /\ ~(n <= n - 1)
    BY <2>1
  <2>3. n - 1 \notin T
    BY <1>2, <2>2
  <2>. QED  BY <2>1, <2>2, <2>3
<1>5. PICK f \in [1..(n - 1) -> Seq(D)] : Flattens(f, s, n - 1)
  BY <1>4
<1>. DEFINE g == [i \in 1..n |-> IF i < n THEN f[i] ELSE IF n = 1 THEN s[n] ELSE f[n - 1] \o s[n]]
<1>6. s[n] \in Seq(D)
  BY <1>4
<1>7. g \in [1..n -> Seq(D)]
  BY <1>4, <1>6
<1>8. Flattens(g, s, n)
  <2>. SUFFICES ASSUME NEW i \in 1..n PROVE g[i] = IF i = 1 THEN s[i] ELSE g[i - 1] \o s[i]
    BY DEF Flattens
  <2>1. g[i] = IF i < n THEN f[i] ELSE IF n = 1 THEN s[n] ELSE f[n - 1] \o s[n]
    OBVIOUS
  <2>2. i # 1 => g[i - 1] = f[i - 1]
    BY <1>4
  <2>3. i < n => f[i] = IF i = 1 THEN s[i] ELSE f[i - 1] \o s[i]
    <3>1. i < n => i \in 1..(n - 1)
      BY <1>4
    <3>. QED  BY <3>1, <1>5 DEF Flattens
  <2>4. ~(i < n) => i = n
    BY <1>4
  <2>. QED  BY <2>1, <2>2, <2>3, <2>4
<1>. QED  BY <1>2, <1>7, <1>8

LEMMA FlatUnique ==
    ASSUME NEW s, NEW n \in Nat, NEW f, NEW g, Flattens(f, s, n), Flattens(g, s, n)
    PROVE  \A i \in 1..n : f[i] = g[i]
<1>. DEFINE T == {i \in 1..n : f[i] # g[i]}
<1>. SUFFICES ASSUME T # {} PROVE FALSE
  OBVIOUS
<1>1. T \in SUBSET Nat
  OBVIOUS
<1>2. PICK i \in T : \A k \in T : i <= k
  BY <1>1, LeastNat
<1>3. i = 1 \/ f[i - 1] = g[i - 1]
  BY <1>2
<1>. QED  BY <1>2, <1>3 DEF Flattens

LEMMA FlatValue ==
    ASSUME NEW D, NEW s \in Seq(Seq(D)), Len(s) # 0,
           NEW f, Flattens(f, s, Len(s))
    PROVE  FlattenSeq(s) = f[Len(s)]
<1>1. PICK g \in [1..Len(s) -> Seq(D)] : Flattens(g, s, Len(s))
  BY FlatExists
<1>2. g = [i \in 1..Len(s) |-> IF i = 1 THEN s[i] ELSE g[i - 1] \o s[i]]
  BY <1>1 DEF Flattens
<1>3. Flat(s) = [i \in 1..Len(s) |-> IF i = 1 THEN s[i] ELSE Flat(s)[i - 1] \o s[i]]
  BY <1>2 DEF Flat
<1>4. Flattens(Flat(s), s, Len(s))
  BY <1>3 DEF Flattens
<1>5. Flat(s)[Len(s)] = f[Len(s)]
  BY <1>4, FlatUnique
<1>. QED  BY <1>5, FlatIs

LEMMA FlatEmpty == FlattenSeq(<<>>) = <<>>
BY FlatIs

LEMMA FlatType ==
    ASSUME NEW D, NEW s \in Seq(Seq(D))
    PROVE  FlattenSeq(s) \in Seq(D)
<1>1. CASE Len(s) = 0
  <2>1. s = <<>> /\ <<>> \in Seq(D)
    BY <1>1
  <2>. QED  BY <2>1, FlatEmpty, Zenon
<1>2. CASE Len(s) # 0
  <2>1. PICK f \in [1..Len(s) -> Seq(D)] : Flattens(f, s, Len(s))
    BY FlatExists
  <2>2. FlattenSeq(s) = f[Len(s)]
    BY <1>2, <2>1, FlatValue
  <2>3. Len(s) \in 1..Len(s)
    BY <1>2
  <2>. QED  BY <2>1, <2>2, <2>3
<1>. QED  BY <1>1, <1>2

LEMMA FlatAppend ==
    ASSUME NEW D, NEW s \in Seq(Seq(D)), NEW x \in Seq(D)
    PROVE  FlattenSeq(Append(s, x)) = FlattenSeq(s) \o x
<1>. DEFINE t == Append(s, x)
<1>0. t \in Seq(Seq(D)) /\ Len(t) = Len(s) + 1 /\ Len(t) # 0 /\ Len(s) \in Nat
  OBVIOUS
<1>1. PICK f \in [1..Len(t) -> Seq(D)] : Flattens(f, t, Len(t))
  BY <1>0, FlatExists
<1>2. FlattenSeq(t) = f[Len(t)]
  BY <1>0, <1>1, FlatValue
<1>3. CASE Len(s) = 0
  <2>1. s = <<>> /\ f[Len(t)] = x
    BY <1>0, <1>1, <1>3 DEF Flattens
  <2>. QED  BY <1>2, <2>1, FlatEmpty, ConcatEmptySeq
<1>4. CASE Len(s) # 0
  <2>0. \A i \in 1..Len(s) : t[i] = s[i] /\ i \in 1..Len(t)
    BY <1>0
  <2>1. Flattens(f, s, Len(s))
    <3>. HIDE DEF t
    <3>. QED  BY <1>1, <2>0 DEF Flattens
  <2>2. FlattenSeq(s) = f[Len(s)]
    BY <1>4, <2>1, FlatValue
  <2>3. f[Len(t)] = f[Len(s)] \o x
    <3>1. Len(t) \in 1..Len(t) /\ Len(t) # 1 /\ Len(t) - 1 = Len(s) /\ t[Len(t)] = x
      BY <1>0, <1>4
    <3>2. f[Len(t)] = f[Len(t) - 1] \o t[Len(t)]
      BY <1>1, <3>1 DEF Flattens
    <3>. QED  BY <3>1, <3>2
  <2>. QED  BY <1>2, <2>2, <2>3
<1>. QED  BY <1>3, <1>4

LEMMA FlatConcat ==
    ASSUME NEW D, NEW s \in Seq(Seq(D)), NEW t \in Seq(Seq(D))
    PROVE  FlattenSeq(s \o t) = FlattenSeq(s) \o FlattenSeq(t)
<1>. DEFINE u(n) == SubSeq(t, 1, n)
            Good(n) == FlattenSeq(s \o u(n)) = FlattenSeq(s) \o FlattenSeq(u(n))
            T == {n \in 0..Len(t) : ~Good(n)}
<1>0. FlattenSeq(s) \in Seq(D)
  BY FlatType
<1>1. Good(0)
  <2>1. u(0) = <<>>
    OBVIOUS
  <2>2. s \o <<>> = s
    BY ConcatEmptySeq
  <2>3. FlattenSeq(s) \o <<>> = FlattenSeq(s)
    BY <1>0, ConcatEmptySeq
  <2>. QED  BY <2>1, <2>2, <2>3, FlatEmpty
<1>2. ASSUME NEW n \in 1..Len(t), Good(n - 1) PROVE Good(n)
  <2>1. u(n - 1) \in Seq(Seq(D)) /\ t[n] \in Seq(D) /\ u(n) = Append(u(n - 1), t[n])
    OBVIOUS
  <2>. DEFINE v == u(n - 1)
              x == t[n]
  <2>2. v \in Seq(Seq(D)) /\ x \in Seq(D) /\ u(n) = Append(v, x)
        /\ FlattenSeq(s \o v) = FlattenSeq(s) \o FlattenSeq(v)
    BY <2>1, <1>2
  <2>. HIDE DEF u, v, x
  <2>3. s \o v \in Seq(Seq(D)) /\ s \o Append(v, x) = Append(s \o v, x)
    BY <2>2, SMTT(30)
  <2>4. FlattenSeq(Append(s \o v, x)) = FlattenSeq(s \o v) \o x
    BY <2>2, <2>3, FlatAppend
  <2>5. FlattenSeq(Append(v, x)) = FlattenSeq(v) \o x
    BY <2>2, FlatAppend
  <2>6. FlattenSeq(v) \in Seq(D)
    BY <2>2, FlatType
  <2>7. (FlattenSeq(s) \o FlattenSeq(v)) \o x = FlattenSeq(s) \o (FlattenSeq(v) \o x)
    <3>1. \A a, b, c \in Seq(D) : (a \o b) \o c = a \o (b \o c)
      BY ConcatAssociative, SMTT(30)
    <3>. QED  BY <3>1, <1>0, <2>2, <2>6
  <2>. QED  BY <2>2, <2>3, <2>4, <2>5, <2>7
<1>3. T = {}
  <2>. HIDE DEF Good
  <2>. SUFFICES ASSUME T # {} PROVE FALSE
    OBVIOUS
  <2>1. T \in SUBSET Nat
    OBVIOUS
  <2>2. PICK n \in T : \A m \in T : n <= m
    BY <2>1, LeastNat
  <2>3. n \in 1..Len(t)
    BY <1>1, <2>2
  <2>4. n - 1 \in 0..Len(t) /\ ~(n <= n - 1)
    BY <2>3
  <2>5. Good(n - 1)
    BY <2>2, <2>4
  <2>6. Good(n)
    BY <1>2, <2>3, <2>5
  <2>. QED  BY <2>2, <2>6
<1>4. Good(Len(t))
  <2>. HIDE DEF Good
  <2>. QED  BY <1>3
<1>5. u(Len(t)) = t
  OBVIOUS
<1>. QED  BY <1>4, <1>5

LEMMA FlatSingles ==
    ASSUME NEW D, NEW s \in Seq(D)
    PROVE  FlattenSeq([i \in 1..Len(s) |-> <<s[i]>>]) = s
<1>. DEFINE singles == [i \in 1..Len(s) |-> <<s[i]>>]
            f == [n \in 1..Len(s) |-> SubSeq(s, 1, n)]
<1>1. singles \in Seq(Seq(D)) /\ Len(singles) = Len(s)
  OBVIOUS
<1>2. CASE Len(s) = 0
  <2>1. s = <<>> /\ singles = <<>>
    BY <1>2
  <2>. QED  BY <2>1, FlatEmpty
<1>3. CASE Len(s) # 0
  <2>1. Flattens(f, singles, Len(singles))
    <3>. SUFFICES ASSUME NEW i \in 1..Len(s)
                  PROVE  f[i] = IF i = 1 THEN singles[i] ELSE f[i - 1] \o singles[i]
      BY <1>1 DEF Flattens
    <3>1. singles[i] = <<s[i]>> /\ f[i] = SubSeq(s, 1, i) /\ s[i] \in D
      OBVIOUS
    <3>2. CASE i = 1
      <4>1. SubSeq(s, 1, 1) = <<s[1]>>
        <5>1. 1 \in 1..Len(s)
          BY <1>3
        <5>2. SubSeq(s, 1, 1) \in Seq(D) /\ Len(SubSeq(s, 1, 1)) = 1 /\ SubSeq(s, 1, 1)[1] = s[1]
          BY <5>1
        <5>3. <<s[1]>> \in Seq(D) /\ Len(<<s[1]>>) = 1 /\ <<s[1]>>[1] = s[1]
          BY <5>1
        <5>4. \A a, b \in Seq(D) : Len(a) = 1 /\ Len(b) = 1 /\ a[1] = b[1] => a = b
          <6>. SUFFICES ASSUME NEW a \in Seq(D), NEW b \in Seq(D), Len(a) = 1, Len(b) = 1, a[1] = b[1]
                        PROVE  a = b
            OBVIOUS
          <6>1. \A k \in 1..Len(a) : a[k] = b[k]
            OBVIOUS
          <6>. QED  BY <6>1, SeqEqual
        <5>. QED  BY <5>2, <5>3, <5>4
      <4>. QED  BY <3>1, <3>2, <4>1
    <3>3. CASE i # 1
      <4>1. f[i - 1] = SubSeq(s, 1, i - 1) /\ SubSeq(s, 1, i - 1) \in Seq(D)
        BY <3>3
      <4>2. SubSeq(s, 1, i) = Append(SubSeq(s, 1, i - 1), s[i])
        BY <3>3
      <4>3. Append(SubSeq(s, 1, i - 1), s[i]) = SubSeq(s, 1, i - 1) \o <<s[i]>>
        BY <3>1, <4>1, AppendIsConcat
      <4>. QED  BY <3>1, <3>3, <4>1, <4>2, <4>3
    <3>. QED  BY <3>2, <3>3
  <2>2. f[Len(s)] = s
    BY <1>3
  <2>. HIDE DEF f, singles
  <2>. QED  BY <1>1, <1>3, <2>1, <2>2, FlatValue DEF singles
<1>. QED  BY <1>2, <1>3

-----------------------------------------------------------------------------
(* The invariant.                                                          *)

Own(i)  == LocalPath(job[i].name)
Sent(i) == SourcePath(job[i].name)

\* What a merge of this many files may write: a round takes at least one away
\* and makes fewer parts than it has files.  None, if they fit in one batch.
PartsOf(count) == {PartPath(r, b) : r \in 1..(count - BatchSize), b \in 0..(count - 1)}

\* A name whose file is saved, or converted, to no path such a merge writes to,
\* and two names that share no path.
Clear(n, count) == LocalPath(n) \notin PartsOf(count) \union {OutputPath}
Apart(m, n)     == LocalPath(m) \notin {LocalPath(n), SourcePath(n)}

PathsApart(form) ==
    \A i \in DOMAIN form :
        /\ Clear(form[i].name, Len(form))
        /\ \A k \in DOMAIN form : k # i => Apart(form[i].name, form[k].name)

\* The hypothesis of the theorems: no file has the name of a part, of the output
\* or of another.  (The page sends one file of a name; images whose names differ
\* in the extension alone break it, and so does an upload that is named like a
\* part: nothing in the code rules them out.)
OwnPaths ==
    /\ \A form \in Jobs : PathsApart(form)
    /\ \A f \in Files : /\ \A count \in Nat : Clear(f, count)
                        /\ \A g \in Files : g # f => Apart(f, g)

\* What the files of a list of paths hold, and a list less its first s paths.
Holds(files, paths) == [i \in DOMAIN paths |-> files[paths[i]]]
From(paths, s)      == SubSeq(paths, s + 1, Len(paths))

\* While files are saved the directory has nothing else.
Saved ==
    pc \in {"page", "fetch", "save", "sort"} =>
        /\ next = <<>> /\ start = 0 /\ round = 0
        /\ Len(current) <= Len(job)
        /\ pc \in {"page", "fetch"} => current = <<>>
        /\ pc = "sort" => Len(current) = Len(job)
        /\ pc # "sort" => sorted = <<>>
        /\ \A i \in 1..Len(current) : current[i] = Own(i) /\ disk[Own(i)] = <<i>>
        /\ \A p \in DOMAIN disk : \E i \in 1..Len(current) : p \in {Own(i), Sent(i)}

\* The saved files are there, and hold what was saved.
Kept == round > 0 => \A i \in Indices : Own(i) \in DOMAIN disk /\ disk[Own(i)] = <<i>>

\* No input is placed twice, or after one it has to precede.
Ordered ==
    /\ \A i, k \in DOMAIN sorted : i < k => sorted[i] # sorted[k] /\ ~Before(job[sorted[k]], job[sorted[i]])
    /\ \A i \in DOMAIN sorted : \A k \in Indices \ Range(sorted) : ~Before(job[k], job[sorted[i]])
    /\ pc \in {"rounds", "done"} => Len(sorted) = Len(job)

\* A round reads the saved files or the parts of an earlier round.
Source(form, r, p) == \/ \E i \in DOMAIN form : p = LocalPath(form[i].name)
                      \/ \E q, b \in Nat : q < r /\ p = PartPath(q, b)

Parts ==
    pc = "rounds" =>
        /\ round > 0
        /\ \A i \in DOMAIN current : Source(job, round, current[i])
        /\ \A i \in DOMAIN next : next[i] = PartPath(round, i - 1)

\* Parts written, and files not yet read, together hold the sorted list.
Flow ==
    pc = "rounds" =>
        FlattenSeq(Holds(disk, next)) \o FlattenSeq(Holds(disk, From(current, start))) = sorted

\* A round leaves fewer files than it began with.
Pace ==
    /\ round <= Len(job) + 1
    /\ pc = "rounds" =>
          /\ (next = <<>>) <=> (start = 0)
          /\ start > 0 => Len(current) > BatchSize
          /\ start < Len(current) + BatchSize
          /\ next # <<>> => 2 * Len(next) + BatchSize - 2 <= start
          /\ round + Len(current) <= Len(job) + 1
          /\ Len(current) > 0

Written == pc = "done" => OutputPath \in DOMAIN disk /\ disk[OutputPath] = sorted

\* The inductive invariant.
IInv ==
    /\ PathsApart(job)
    /\ TypeOK
    /\ Saved
    /\ Kept
    /\ Ordered
    /\ Parts
    /\ Flow
    /\ Pace
    /\ Written

-----------------------------------------------------------------------------
(* Paths and files.                                                        *)

LEMMA OwnApart ==
    ASSUME PathsApart(job), NEW i \in Indices
    PROVE  /\ Own(i) # OutputPath
           /\ Own(i) \notin PartsOf(Len(job))
           /\ \A k \in Indices : k # i => Own(i) # Own(k) /\ Own(i) # Sent(k) /\ Own(k) # Sent(i)
BY DEF PathsApart, Apart, Clear, Own, Sent, Indices

LEMMA PartsApart ==
    ASSUME NEW r \in Nat, NEW b \in Nat, NEW q \in Nat, NEW c \in Nat, PartPath(r, b) = PartPath(q, c)
    PROVE  r = q /\ b = c
BY DEF PartPath

\* The list is a sequence of inputs.
LEMMA JobType ==
    ASSUME job \in Seq([order : Nat, name : Nat])
    PROVE  /\ Indices = 1..Len(job) /\ Len(job) \in Nat
           /\ \A i \in Indices : job[i].order \in Nat /\ job[i].name \in Nat
<1>1. job \in Seq([order : Nat, name : Nat])
  OBVIOUS
<1>2. Len(job) \in Nat /\ DOMAIN job = 1..Len(job)
  BY <1>1
<1>3. ASSUME NEW i \in 1..Len(job) PROVE job[i].order \in Nat /\ job[i].name \in Nat
  <2>. DEFINE R == [order : Nat, name : Nat]
  <2>1. job \in Seq(R)
    BY <1>1
  <2>2. job[i] \in R
    <3>. HIDE DEF R
    <3>. QED  BY <2>1
  <2>. QED  BY <2>2
<1>. QED  BY <1>1, <1>2, <1>3 DEF Indices

LEMMA HoldsType ==
    ASSUME TypeOK, NEW paths \in Seq(DOMAIN disk)
    PROVE  /\ Holds(disk, paths) \in Seq(Seq(Indices))
           /\ FlattenSeq(Holds(disk, paths)) \in Seq(Indices)
<1>1. \A i \in 1..Len(paths) : disk[paths[i]] \in Seq(Indices)
  BY DEF TypeOK
<1>2. Holds(disk, paths) \in Seq(Seq(Indices))
  BY <1>1 DEF Holds
<1>. QED  BY <1>2, FlatType

\* pdfapi.MergeCreateFile writes one file and leaves the others.
LEMMA Creates ==
    ASSUME TypeOK, UNCHANGED job, NEW paths \in Seq(DOMAIN disk), NEW path, MergeCreateFile(paths, path)
    PROVE  /\ DOMAIN disk' = DOMAIN disk \union {path}
           /\ disk'[path] = FlattenSeq(Holds(disk, paths))
           /\ \A p \in DOMAIN disk : p # path => disk'[p] = disk[p]
           /\ \A p \in DOMAIN disk' : disk'[p] \in Seq(Indices)
<1>1. FlattenSeq(Holds(disk, paths)) \in Seq(Indices)
  BY HoldsType
<1>2. disk' = [p \in DOMAIN disk \union {path} |-> IF p = path THEN FlattenSeq(Holds(disk, paths)) ELSE disk[p]]
  BY DEF MergeCreateFile, Holds
<1>3. \A p \in DOMAIN disk : disk[p] \in Seq(Indices)
  BY DEF TypeOK
<1>. QED  BY <1>1, <1>2, <1>3

\* A list of other files holds what it held.
LEMMA HoldsSame ==
    ASSUME NEW old, NEW new, NEW paths, \A i \in DOMAIN paths : new[paths[i]] = old[paths[i]]
    PROVE  Holds(new, paths) = Holds(old, paths)
BY DEF Holds

LEMMA HoldsAppend ==
    ASSUME NEW files, NEW S, NEW paths \in Seq(S), NEW path \in S
    PROVE  Holds(files, Append(paths, path)) = Append(Holds(files, paths), files[path])
BY DEF Holds

LEMMA HoldsConcat ==
    ASSUME NEW files, NEW S, NEW a \in Seq(S), NEW b \in Seq(S)
    PROVE  Holds(files, a \o b) = Holds(files, a) \o Holds(files, b)
<1>. DEFINE V == {files[p] : p \in S}
            x == Holds(files, a \o b)
            y == Holds(files, a)
            z == Holds(files, b)
<1>1. /\ a \o b \in Seq(S) /\ Len(a \o b) = Len(a) + Len(b) /\ Len(a) \in Nat /\ Len(b) \in Nat
      /\ \A i \in 1..Len(a) + Len(b) : (a \o b)[i] = IF i <= Len(a) THEN a[i] ELSE b[i - Len(a)]
  BY ConcatProperties
<1>2. \A c \in Seq(S) : /\ Holds(files, c) \in Seq(V) /\ Len(Holds(files, c)) = Len(c)
                        /\ \A i \in 1..Len(c) : Holds(files, c)[i] = files[c[i]]
  BY DEF Holds
<1>3. x \in Seq(V) /\ y \in Seq(V) /\ z \in Seq(V)
      /\ Len(x) = Len(a) + Len(b) /\ Len(y) = Len(a) /\ Len(z) = Len(b)
  BY <1>1, <1>2
<1>. HIDE DEF V
<1>4. /\ y \o z \in Seq(V) /\ Len(y \o z) = Len(a) + Len(b)
      /\ \A i \in 1..Len(a) + Len(b) : (y \o z)[i] = IF i <= Len(a) THEN y[i] ELSE z[i - Len(a)]
  <2>. HIDE DEF x, y, z
  <2>1. y \in Seq(V) /\ z \in Seq(V) /\ Len(y) = Len(a) /\ Len(z) = Len(b)
    BY <1>3
  <2>2. /\ y \o z \in Seq(V) /\ Len(y \o z) = Len(y) + Len(z)
        /\ \A i \in 1..Len(y) + Len(z) : (y \o z)[i] = IF i <= Len(y) THEN y[i] ELSE z[i - Len(y)]
    BY <2>1, ConcatProperties, Zenon
  <2>. QED  BY <2>1, <2>2, Zenon
<1>5. ASSUME NEW i \in 1..Len(a) + Len(b) PROVE x[i] = (y \o z)[i]
  <2>1. x[i] = files[(a \o b)[i]]
    BY <1>1, <1>2
  <2>2. CASE i <= Len(a)
    <3>1. i \in 1..Len(a)
      BY <2>2, <1>1
    <3>2. y[i] = files[a[i]]
      BY <3>1, <1>2
    <3>. QED  BY <2>1, <2>2, <3>2, <1>1, <1>4
  <2>3. CASE ~(i <= Len(a))
    <3>1. i - Len(a) \in 1..Len(b)
      BY <2>3, <1>1
    <3>2. z[i - Len(a)] = files[b[i - Len(a)]]
      BY <3>1, <1>2
    <3>. QED  BY <2>1, <2>3, <3>2, <1>1, <1>4
  <2>. QED  BY <2>2, <2>3
<1>. HIDE DEF x, y, z, V
<1>6. x = y \o z
  BY <1>3, <1>4, <1>5, SeqEqual
<1>. QED  BY <1>6 DEF x, y, z

\* The paths not yet read are the batch and what is left after it.
LEMMA FromSplit ==
    ASSUME NEW S, NEW paths \in Seq(S), NEW files, NEW s \in Nat, NEW e \in Nat, s <= e, e <= Len(paths)
    PROVE  /\ SubSeq(paths, s + 1, e) \in Seq(S) /\ From(paths, e) \in Seq(S)
           /\ Holds(files, From(paths, s)) = Holds(files, SubSeq(paths, s + 1, e)) \o Holds(files, From(paths, e))
<1>1. SubSeq(paths, s + 1, e) \in Seq(S) /\ From(paths, e) \in Seq(S) /\ From(paths, s) \in Seq(S)
  BY DEF From
<1>2. From(paths, s) = SubSeq(paths, s + 1, e) \o From(paths, e)
  <2>1. s + 1 \in 1..Len(paths) + 1 /\ e \in (s + 1) - 1..Len(paths) /\ Len(paths) \in e..Len(paths)
    OBVIOUS
  <2>. QED  BY <2>1, ConcatAdjacentSubSeq DEF From
<1>3. \A a, b \in Seq(S) : Holds(files, a \o b) = Holds(files, a) \o Holds(files, b)
  BY HoldsConcat
<1>. QED  BY <1>1, <1>2, <1>3

LEMMA FromAll ==
    ASSUME NEW S, NEW paths \in Seq(S)
    PROVE  From(paths, 0) = paths
BY DEF From

LEMMA FromNone ==
    ASSUME NEW S, NEW paths \in Seq(S), NEW s \in Nat, s >= Len(paths)
    PROVE  From(paths, s) = <<>>
BY DEF From

LEMMA HoldsEmpty == ASSUME NEW files PROVE Holds(files, <<>>) = <<>>
BY DEF Holds

-----------------------------------------------------------------------------
(* Every step keeps the invariant.                                         *)

LEMMA Starting ==
    ASSUME Init, PathsApart(job)
    PROVE  IInv
<1>. USE DEF Init
<1>1. job \in Seq([order : Nat, name : Nat]) /\ Len(job) \in Nat
  BY JobsAssumption
<1>2. TypeOK
  <2>1. DOMAIN disk = {}
    OBVIOUS
  <2>2. sorted \in Seq(Indices) /\ current \in Seq(DOMAIN disk) /\ next \in Seq(DOMAIN disk)
    OBVIOUS
  <2>3. start \in 0..(Len(current) + BatchSize - 1) /\ round \in 0..Len(job) + 1
    BY <1>1, BatchAssumption
  <2>. QED  BY <1>1, <2>1, <2>2, <2>3 DEF TypeOK
<1>3. Saved /\ Kept /\ Ordered /\ Pace
  BY <1>1 DEF Saved, Kept, Ordered, Pace
<1>4. Parts /\ Flow /\ Written
  BY DEF Parts, Flow, Written
<1>. QED  BY <1>1, <1>2, <1>3, <1>4 DEF IInv

\* The conversion finds no file at its path, so the input is all it holds.
LEMMA SaveKeeps ==
    ASSUME IInv, Save
    PROVE  IInv'
<1>. DEFINE i == Len(current) + 1
            old == IF Own(i) \in DOMAIN disk /\ Own(i) # Sent(i) THEN disk[Own(i)] ELSE <<>>
<1>0. /\ job' = job /\ pc' = pc /\ sorted' = sorted /\ next' = next /\ start' = start /\ round' = round
      /\ pc = "save" /\ i \in Indices
      /\ current' = Append(current, Own(i))
      /\ disk' = [p \in DOMAIN disk \union {Sent(i), Own(i)} |->
                     CASE p = Own(i) -> Append(old, i) [] p = Sent(i) -> <<i>> [] OTHER -> disk[p]]
  BY DEF Save, Own, Sent, Indices
<1>1. Indices = 1..Len(job) /\ Len(job) \in Nat /\ Len(current) \in Nat /\ current \in Seq(DOMAIN disk)
  BY JobType DEF IInv, TypeOK
<1>2. /\ next = <<>> /\ start = 0 /\ round = 0 /\ sorted = <<>>
      /\ \A k \in 1..Len(current) : current[k] = Own(k) /\ disk[Own(k)] = <<k>>
      /\ \A p \in DOMAIN disk : \E k \in 1..Len(current) : p \in {Own(k), Sent(k)}
  BY <1>0 DEF IInv, Saved
<1>3. \A k \in 1..Len(current) : k \in Indices /\ k # i
  BY <1>0, <1>1
<1>4. \A k \in 1..Len(current) : Own(k) # Own(i) /\ Own(k) # Sent(i) /\ Own(i) # Sent(k)
  BY <1>0, <1>3, OwnApart DEF IInv
<1>5. old = <<>>
  BY <1>2, <1>4
<1>6. /\ DOMAIN disk' = DOMAIN disk \union {Sent(i), Own(i)}
      /\ disk'[Own(i)] = <<i>>
      /\ disk'[Sent(i)] = <<i>>
      /\ \A p \in DOMAIN disk : p # Own(i) /\ p # Sent(i) => disk'[p] = disk[p]
  <2>. HIDE DEF old, i
  <2>1. Append(old, i) = <<i>>
    <3>1. Append(<<>>, i) = <<i>>
      OBVIOUS
    <3>. QED  BY <1>5, <3>1
  <2>. QED  BY <1>0, <2>1
<1>. HIDE DEF old
<1>7. \A k \in 1..Len(current) : Own(k) \in DOMAIN disk /\ disk'[Own(k)] = <<k>>
  <2>1. \A k \in 1..Len(current) : current[k] \in DOMAIN disk
    BY <1>1
  <2>. QED  BY <1>2, <1>4, <1>6, <2>1
<1>8. Len(current') = i /\ current' \in Seq(DOMAIN disk')
      /\ \A k \in 1..i : current'[k] = IF k = i THEN Own(i) ELSE current[k]
  <2>1. current \in Seq(DOMAIN disk') /\ Own(i) \in DOMAIN disk'
    BY <1>1, <1>6, SeqMonotonic
  <2>. QED  BY <1>0, <1>1, <2>1
<1>9. \A p \in DOMAIN disk' : disk'[p] \in Seq(Indices)
  <2>1. <<i>> \in Seq(Indices)
    BY <1>0
  <2>2. \A p \in DOMAIN disk : disk[p] \in Seq(Indices)
    BY DEF IInv, TypeOK
  <2>. QED  BY <1>6, <2>1, <2>2
<1>10. TypeOK'
  <2>1. next' \in Seq(DOMAIN disk') /\ start' \in 0..(Len(current') + BatchSize - 1) /\ Len(job) + 1 \in Nat
    BY <1>0, <1>1, <1>2, <1>8, BatchAssumption
  <2>2. job' \in Seq([order : Nat, name : Nat]) /\ sorted' \in Seq(Indices') /\ round' \in 0..Len(job') + 1
        /\ pc' \in {"page", "fetch", "save", "sort", "rounds", "done", "failed"}
    BY <1>0 DEF IInv, TypeOK, Indices
  <2>. QED  BY <1>0, <1>8, <1>9, <2>1, <2>2 DEF TypeOK, Indices
<1>11. Saved'
  <2>1. \A k \in 1..Len(current') : current'[k] = Own(k) /\ disk'[Own(k)] = <<k>>
    <3>. SUFFICES ASSUME NEW k \in 1..i PROVE current'[k] = Own(k) /\ disk'[Own(k)] = <<k>>
      BY <1>8
    <3>1. CASE k = i
      BY <1>6, <1>8, <3>1
    <3>2. CASE k # i
      <4>1. k \in 1..Len(current)
        BY <1>1, <3>2
      <4>. QED  BY <1>2, <1>7, <1>8, <3>2, <4>1
    <3>. QED  BY <3>1, <3>2
  <2>2. \A p \in DOMAIN disk' : \E k \in 1..Len(current') : p \in {Own(k), Sent(k)}
    <3>. SUFFICES ASSUME NEW p \in DOMAIN disk' PROVE \E k \in 1..i : p \in {Own(k), Sent(k)}
      BY <1>8
    <3>1. CASE p \in {Own(i), Sent(i)}
      <4>1. i \in 1..i
        BY <1>1
      <4>. QED  BY <3>1, <4>1
    <3>2. CASE p \in DOMAIN disk
      <4>1. PICK k \in 1..Len(current) : p \in {Own(k), Sent(k)}
        BY <1>2, <3>2
      <4>2. k \in 1..i
        BY <1>1
      <4>. QED  BY <4>1, <4>2
    <3>. QED  BY <1>6, <3>1, <3>2
  <2>3. Len(current') <= Len(job)
    BY <1>0, <1>1, <1>8
  <2>. QED  BY <1>0, <1>2, <2>1, <2>2, <2>3 DEF Saved, Own, Sent
<1>12. Kept' /\ Ordered' /\ Parts' /\ Flow' /\ Written'
  BY <1>0, <1>2 DEF Kept, Ordered, Parts, Flow, Written, IInv
<1>13. Pace'
  BY <1>0, <1>1, <1>2 DEF Pace
<1>. QED  BY <1>0, <1>10, <1>11, <1>12, <1>13 DEF IInv

LEMMA SubmitKeeps ==
    ASSUME IInv, Submit
    PROVE  IInv'
<1>0. /\ UNCHANGED <<job, sorted, current, next, start, round, disk>>
      /\ pc = "save" /\ pc' = "sort" /\ Len(current) = Len(job)
  BY DEF Submit
<1>1. TypeOK'
  BY <1>0 DEF IInv, TypeOK, Indices
<1>2. Saved'
  BY <1>0 DEF IInv, Saved, Own, Sent
<1>3. Kept' /\ Ordered' /\ Parts' /\ Flow' /\ Written' /\ Pace'
  BY <1>0 DEF IInv, Kept, Ordered, Parts, Flow, Written, Pace, Own, Indices
<1>. QED  BY <1>0, <1>1, <1>2, <1>3 DEF IInv

LEMMA FailKeeps ==
    ASSUME IInv, Fail
    PROVE  IInv'
<1>0. UNCHANGED <<job, sorted, current, next, start, round, disk>> /\ pc' = "failed"
  BY DEF Fail
<1>1. TypeOK'
  BY <1>0 DEF IInv, TypeOK, Indices
<1>2. Saved' /\ Parts' /\ Flow' /\ Written'
  BY <1>0 DEF Saved, Parts, Flow, Written
<1>3. Kept' /\ Ordered' /\ Pace'
  BY <1>0 DEF IInv, Kept, Ordered, Pace, Own, Indices
<1>. QED  BY <1>0, <1>1, <1>2, <1>3 DEF IInv

LEMMA OverKeeps ==
    ASSUME IInv, UNCHANGED vars
    PROVE  IInv'
<1>0. UNCHANGED <<job, sorted, current, next, start, round, disk, pc>>
  BY DEF vars
<1>1. TypeOK' /\ Saved'
  BY <1>0 DEF IInv, TypeOK, Saved, Own, Sent, Indices
<1>2. Kept' /\ Ordered' /\ Pace' /\ Written'
  BY <1>0 DEF IInv, Kept, Ordered, Pace, Written, Own, Indices
<1>3. Parts' /\ Flow'
  BY <1>0 DEF IInv, Parts, Flow, Source, Own, Indices
<1>. QED  BY <1>0, <1>1, <1>2, <1>3 DEF IInv

LEMMA SortKeeps ==
    ASSUME IInv, SortInputs
    PROVE  IInv'
<1>0. /\ UNCHANGED <<job, pc, current, next, start, round, disk>> /\ pc = "sort"
  BY DEF SortInputs
<1>1. PICK i \in Indices \ Range(sorted) :
         /\ \A k \in Indices \ Range(sorted) : ~Before(job[k], job[i])
         /\ sorted' = Append(sorted, i)
  BY DEF SortInputs, Indices
<1>2. sorted \in Seq(Indices) /\ sorted' \in Seq(Indices) /\ Len(sorted') = Len(sorted) + 1 /\ Len(sorted) \in Nat
      /\ \A k \in 1..Len(sorted) + 1 : sorted'[k] = IF k = Len(sorted) + 1 THEN i ELSE sorted[k]
  BY <1>1 DEF IInv, TypeOK
<1>3. DOMAIN sorted = 1..Len(sorted) /\ DOMAIN sorted' = 1..Len(sorted) + 1
  BY <1>2
<1>4. Range(sorted') = Range(sorted) \union {i}
  BY <1>2, <1>3 DEF Range
<1>5. TypeOK'
  BY <1>0, <1>2 DEF IInv, TypeOK, Indices
<1>6. Saved'
  BY <1>0 DEF IInv, Saved, Own, Sent
<1>7. Ordered'
  <2>1. ASSUME NEW h \in DOMAIN sorted', NEW k \in DOMAIN sorted', h < k
        PROVE  sorted'[h] # sorted'[k] /\ ~Before(job[sorted'[k]], job[sorted'[h]])
    <3>1. h \in DOMAIN sorted /\ sorted'[h] = sorted[h]
      BY <1>2, <1>3, <2>1
    <3>2. CASE k = Len(sorted) + 1
      <4>1. sorted'[k] = i
        BY <1>2, <3>2
      <4>2. sorted[h] \in Range(sorted)
        BY <3>1 DEF Range
      <4>3. ~Before(job[i], job[sorted[h]])
        BY <1>1, <3>1 DEF IInv, Ordered
      <4>. QED  BY <1>1, <3>1, <4>1, <4>2, <4>3
    <3>3. CASE k # Len(sorted) + 1
      <4>1. k \in DOMAIN sorted /\ sorted'[k] = sorted[k]
        BY <1>2, <1>3, <3>3
      <4>. QED  BY <2>1, <3>1, <4>1 DEF IInv, Ordered
    <3>. QED  BY <3>2, <3>3
  <2>2. ASSUME NEW h \in DOMAIN sorted', NEW k \in Indices \ Range(sorted')
        PROVE  ~Before(job[k], job[sorted'[h]])
    <3>1. k \in Indices \ Range(sorted)
      BY <1>4
    <3>2. CASE h = Len(sorted) + 1
      BY <1>1, <1>2, <3>1, <3>2
    <3>3. CASE h # Len(sorted) + 1
      <4>1. h \in DOMAIN sorted /\ sorted'[h] = sorted[h]
        BY <1>2, <1>3, <3>3
      <4>. QED  BY <3>1, <4>1 DEF IInv, Ordered
    <3>. QED  BY <3>2, <3>3
  <2>3. \A k \in DOMAIN sorted' : \A h \in Indices' : Before(job'[h], job'[sorted'[k]]) <=> Before(job[h], job[sorted'[k]])
    BY <1>0
  <2>. QED  BY <1>0, <2>1, <2>2 DEF Ordered, Indices
<1>8. Kept' /\ Pace' /\ Written'
  BY <1>0 DEF IInv, Kept, Pace, Written, Own, Indices
<1>9. Parts' /\ Flow'
  BY <1>0 DEF Parts, Flow
<1>. QED  BY <1>0, <1>5, <1>6, <1>7, <1>8, <1>9 DEF IInv

\* The saved files, in the order of the sort, hold the sorted list.
LEMMA PlanKeeps ==
    ASSUME IInv, Plan
    PROVE  IInv'
<1>0. /\ UNCHANGED <<job, sorted, next, start, disk>> /\ pc = "sort" /\ Len(sorted) = Len(job)
      /\ pc' = IF job = <<>> THEN "failed" ELSE "rounds"
      /\ current' = [i \in DOMAIN sorted |-> current[sorted[i]]] /\ round' = 1
  BY DEF Plan
<1>1. /\ Indices = 1..Len(job) /\ Len(job) \in Nat /\ job \in Seq([order : Nat, name : Nat])
      /\ sorted \in Seq(Indices) /\ DOMAIN sorted = 1..Len(job)
      /\ current \in Seq(DOMAIN disk)
  BY <1>0, JobType DEF IInv, TypeOK
<1>2. /\ next = <<>> /\ start = 0 /\ round = 0 /\ Len(current) = Len(job)
      /\ \A i \in 1..Len(current) : current[i] = Own(i) /\ disk[Own(i)] = <<i>>
  BY <1>0 DEF IInv, Saved
<1>3. \A i \in 1..Len(job) : sorted[i] \in Indices
  BY <1>1
<1>4. current' \in Seq(DOMAIN disk) /\ Len(current') = Len(job) /\ DOMAIN current' = 1..Len(job)
      /\ \A i \in 1..Len(job) : current'[i] = Own(sorted[i]) /\ disk[current'[i]] = <<sorted[i]>>
  <2>1. \A i \in 1..Len(job) : current[sorted[i]] \in DOMAIN disk
    BY <1>1, <1>2, <1>3
  <2>2. current' = [i \in 1..Len(job) |-> current[sorted[i]]]
    BY <1>0, <1>1
  <2>3. current' \in Seq(DOMAIN disk) /\ Len(current') = Len(job) /\ DOMAIN current' = 1..Len(job)
    BY <1>1, <2>1, <2>2
  <2>4. \A i \in 1..Len(job) : current'[i] = Own(sorted[i]) /\ disk[current'[i]] = <<sorted[i]>>
    BY <1>1, <1>2, <1>3, <2>2
  <2>. QED  BY <2>3, <2>4
<1>5. TypeOK'
  <2>1. next' \in Seq(DOMAIN disk') /\ start' \in 0..(Len(current') + BatchSize - 1)
        /\ round' \in 0..Len(job') + 1
    BY <1>0, <1>1, <1>2, <1>4, BatchAssumption
  <2>2. pc' \in {"page", "fetch", "save", "sort", "rounds", "done", "failed"}
    BY <1>0
  <2>. QED  BY <1>0, <1>1, <1>4, <2>1, <2>2 DEF IInv, TypeOK, Indices
<1>6. Saved' /\ Written'
  BY <1>0 DEF Saved, Written
<1>7. Kept'
  <2>1. \A i \in 1..Len(current) : current[i] \in DOMAIN disk
    BY <1>1
  <2>2. \A i \in Indices : Own(i) \in DOMAIN disk /\ disk[Own(i)] = <<i>>
    BY <1>1, <1>2, <2>1
  <2>. QED  BY <1>0, <2>2 DEF Kept, Indices, Own
<1>8. Ordered'
  BY <1>0 DEF IInv, Ordered, Indices
<1>9. Parts'
  <2>1. \A i \in DOMAIN current' : Source(job, round', current'[i])
    BY <1>3, <1>4 DEF Source, Indices, Own
  <2>. QED  BY <1>0, <1>2, <2>1 DEF Parts
<1>10. Flow'
  <2>1. From(current', 0) = current'
    BY <1>4, FromAll
  <2>2. Holds(disk, current') = [i \in 1..Len(sorted) |-> <<sorted[i]>>]
    BY <1>0, <1>4 DEF Holds
  <2>3. FlattenSeq(Holds(disk, current')) = sorted
    BY <1>1, <2>2, FlatSingles
  <2>4. <<>> \o sorted = sorted
    BY <1>1, ConcatEmptySeq
  <2>. QED  BY <1>0, <1>2, <2>1, <2>3, <2>4, HoldsEmpty, FlatEmpty DEF Flow
<1>11. Pace'
  <2>1. pc' = "rounds" => Len(job) > 0
    BY <1>0, <1>1, EmptySeq
  <2>. QED  BY <1>0, <1>1, <1>2, <1>4, <2>1, BatchAssumption DEF Pace
<1>. QED  BY <1>0, <1>5, <1>6, <1>7, <1>8, <1>9, <1>10, <1>11 DEF IInv

\* The part of a batch is no file that was saved or that is still to be read.
LEMMA BatchKeeps ==
    ASSUME IInv, Batch
    PROVE  IInv'
<1>. DEFINE end   == IF start + BatchSize > Len(current) THEN Len(current) ELSE start + BatchSize
            part  == PartPath(round, Len(next))
            batch == SubSeq(current, start + 1, end)
<1>0. /\ UNCHANGED <<job, pc, sorted, current, round>>
      /\ pc = "rounds" /\ Len(current) > BatchSize /\ start < Len(current)
      /\ MergeCreateFile(batch, part) /\ next' = Append(next, part)
      /\ start' = start + BatchSize
  BY DEF Batch
<1>1. /\ current \in Seq(DOMAIN disk) /\ next \in Seq(DOMAIN disk) /\ start \in Nat /\ round \in Nat
      /\ Len(current) \in Nat /\ Len(next) \in Nat /\ BatchSize \in Nat /\ BatchSize > 1
  BY BatchAssumption DEF IInv, TypeOK
<1>2. end \in Nat /\ start < end /\ end <= Len(current)
  BY <1>0, <1>1
<1>3. batch \in Seq(DOMAIN disk) /\ From(current, end) \in Seq(DOMAIN disk)
      /\ Holds(disk, From(current, start)) = Holds(disk, batch) \o Holds(disk, From(current, end))
  <2>. HIDE DEF end
  <2>1. start <= end
    BY <1>1, <1>2
  <2>. QED  BY <1>1, <1>2, <2>1, FromSplit
<1>4. From(current, start') = From(current, end)
  <2>1. CASE start + BatchSize > Len(current)
    <3>1. From(current, start + BatchSize) = <<>>
      BY <1>1, <2>1, FromNone
    <3>2. From(current, Len(current)) = <<>>
      BY <1>1, FromNone
    <3>. QED  BY <1>0, <2>1, <3>1, <3>2
  <2>2. CASE ~(start + BatchSize > Len(current))
    BY <1>0, <2>2
  <2>. QED  BY <2>1, <2>2
<1>. HIDE DEF end, batch, part
<1>5. /\ DOMAIN disk' = DOMAIN disk \union {part}
      /\ disk'[part] = FlattenSeq(Holds(disk, batch))
      /\ \A p \in DOMAIN disk : p # part => disk'[p] = disk[p]
      /\ \A p \in DOMAIN disk' : disk'[p] \in Seq(Indices)
  BY <1>0, <1>3, Creates DEF IInv
<1>6. \A i \in Indices : Own(i) # part
  <2>1. /\ round > 0 /\ round + Len(current) <= Len(job) + 1
        /\ next # <<>> => 2 * Len(next) + BatchSize - 2 <= start
    BY <1>0 DEF IInv, Parts, Pace
  <2>2. Len(job) \in Nat
    BY JobType DEF IInv, TypeOK
  <2>3. next = <<>> => Len(next) = 0
    OBVIOUS
  <2>4. round \in 1..(Len(job) - BatchSize) /\ Len(next) \in 0..(Len(job) - 1)
    BY <1>0, <1>1, <2>1, <2>2, <2>3
  <2>5. part \in PartsOf(Len(job))
    BY <2>4 DEF part, PartsOf
  <2>. QED  BY <2>5, OwnApart DEF IInv
<1>7. \A i \in DOMAIN current : current[i] # part
  <2>. SUFFICES ASSUME NEW i \in DOMAIN current, current[i] = part PROVE FALSE
    OBVIOUS
  <2>1. Source(job, round, current[i])
    BY <1>0 DEF IInv, Parts
  <2>2. PICK r \in Nat, b \in Nat : r < round /\ part = PartPath(r, b)
    BY <1>6, <2>1 DEF Source, Indices, Own
  <2>3. r = round
    BY <1>1, <2>2, PartsApart DEF part
  <2>. QED  BY <1>1, <2>2, <2>3
<1>8. \A i \in DOMAIN next : next[i] # part
  <2>. SUFFICES ASSUME NEW i \in DOMAIN next, next[i] = part PROVE FALSE
    OBVIOUS
  <2>1. next[i] = PartPath(round, i - 1)
    BY <1>0 DEF IInv, Parts
  <2>2. i \in 1..Len(next) /\ i - 1 \in Nat
    BY <1>1
  <2>3. PartPath(round, i - 1) = PartPath(round, Len(next))
    BY <2>1 DEF part
  <2>4. i - 1 = Len(next)
    BY <1>1, <2>2, <2>3, PartsApart
  <2>. QED  BY <1>1, <2>2, <2>4
<1>9. next' \in Seq(DOMAIN disk') /\ current' \in Seq(DOMAIN disk')
  <2>1. next \in Seq(DOMAIN disk') /\ current \in Seq(DOMAIN disk') /\ part \in DOMAIN disk'
    BY <1>1, <1>5, SeqMonotonic
  <2>. QED  BY <1>0, <2>1
<1>10. Len(next') = Len(next) + 1 /\ DOMAIN next' = 1..Len(next) + 1 /\ next' # <<>>
       /\ \A i \in 1..Len(next) + 1 : next'[i] = IF i = Len(next) + 1 THEN part ELSE next[i]
  <2>1. next \in Seq(DOMAIN disk') /\ part \in DOMAIN disk'
    BY <1>1, <1>5, SeqMonotonic
  <2>. QED  BY <1>0, <2>1
<1>11. Pace'
  <2>1. /\ (next = <<>>) <=> (start = 0)
        /\ next # <<>> => 2 * Len(next) + BatchSize - 2 <= start
        /\ round + Len(current) <= Len(job) + 1 /\ round <= Len(job) + 1
    BY <1>0 DEF IInv, Pace
  <2>2. next = <<>> => Len(next) = 0
    OBVIOUS
  <2>3. 2 * Len(next') + BatchSize - 2 <= start'
    BY <1>0, <1>1, <1>10, <2>1, <2>2
  <2>4. start' # 0 /\ start' < Len(current) + BatchSize
    BY <1>0, <1>1
  <2>. QED  BY <1>0, <1>1, <1>10, <2>1, <2>3, <2>4 DEF Pace
<1>12. TypeOK'
  <2>1. start' \in 0..(Len(current') + BatchSize - 1)
    BY <1>0, <1>1
  <2>. QED  BY <1>0, <1>5, <1>9, <2>1 DEF IInv, TypeOK, Indices
<1>13. Saved' /\ Written'
  BY <1>0 DEF Saved, Written
<1>14. Kept'
  BY <1>0, <1>5, <1>6 DEF IInv, Kept, Indices, Own
<1>15. Ordered'
  BY <1>0 DEF IInv, Ordered, Indices
<1>16. Parts'
  <2>1. \A i \in DOMAIN current' : Source(job, round', current'[i])
    BY <1>0 DEF IInv, Parts
  <2>2. \A i \in DOMAIN next' : next'[i] = PartPath(round, i - 1)
    <3>. SUFFICES ASSUME NEW i \in 1..Len(next) + 1 PROVE next'[i] = PartPath(round, i - 1)
      BY <1>10
    <3>1. CASE i = Len(next) + 1
      BY <1>1, <1>10, <3>1 DEF part
    <3>2. CASE i # Len(next) + 1
      <4>1. i \in DOMAIN next
        BY <1>1, <3>2
      <4>. QED  BY <1>0, <1>10, <3>2, <4>1 DEF IInv, Parts
    <3>. QED  BY <3>1, <3>2
  <2>3. round > 0
    BY <1>0 DEF IInv, Parts
  <2>. QED  BY <1>0, <2>1, <2>2, <2>3 DEF Parts
<1>17. Flow'
  <2>. DEFINE A == FlattenSeq(Holds(disk, next))
              B == FlattenSeq(Holds(disk, batch))
              C == FlattenSeq(Holds(disk, From(current, end)))
  <2>1. Holds(disk', next') = Append(Holds(disk, next), B)
    <3>1. \A i \in DOMAIN next : disk'[next[i]] = disk[next[i]]
      <4>1. \A i \in DOMAIN next : next[i] \in DOMAIN disk
        BY <1>1
      <4>. QED  BY <1>5, <1>8, <4>1
    <3>2. Holds(disk', next) = Holds(disk, next)
      BY <3>1, HoldsSame
    <3>3. next \in Seq(DOMAIN disk') /\ part \in DOMAIN disk'
      BY <1>1, <1>5, SeqMonotonic
    <3>4. Holds(disk', Append(next, part)) = Append(Holds(disk', next), disk'[part])
      BY <3>3, HoldsAppend
    <3>. QED  BY <1>0, <1>5, <3>2, <3>4
  <2>2. Holds(disk', From(current', start')) = Holds(disk, From(current, end))
    <3>. DEFINE rest == From(current, end)
    <3>1. \A i \in DOMAIN rest : \E k \in DOMAIN current : rest[i] = current[k]
      BY <1>1, <1>2 DEF From
    <3>2. \A i \in DOMAIN rest : disk'[rest[i]] = disk[rest[i]]
      <4>1. \A k \in DOMAIN current : current[k] \in DOMAIN disk
        BY <1>1
      <4>. QED  BY <1>5, <1>7, <3>1, <4>1
    <3>3. Holds(disk', rest) = Holds(disk, rest)
      BY <3>2, HoldsSame
    <3>. QED  BY <1>0, <1>4, <3>3
  <2>3. /\ Holds(disk, next) \in Seq(Seq(Indices)) /\ A \in Seq(Indices)
        /\ Holds(disk, batch) \in Seq(Seq(Indices)) /\ B \in Seq(Indices)
        /\ Holds(disk, From(current, end)) \in Seq(Seq(Indices)) /\ C \in Seq(Indices)
    BY <1>1, <1>3, HoldsType DEF IInv
  <2>4. FlattenSeq(Holds(disk', next')) = A \o B
    BY <2>1, <2>3, FlatAppend
  <2>5. FlattenSeq(Holds(disk, From(current, start))) = B \o C
    BY <1>3, <2>3, FlatConcat
  <2>6. A \o (B \o C) = sorted
    BY <1>0, <2>5 DEF IInv, Flow
  <2>. HIDE DEF A, B, C
  <2>7. \A a, b, c \in Seq(Indices) : (a \o b) \o c = a \o (b \o c)
    BY ConcatAssociative
  <2>8. (A \o B) \o C = sorted
    BY <2>3, <2>6, <2>7
  <2>. QED  BY <1>0, <2>2, <2>4, <2>8 DEF Flow, C
<1>. QED  BY <1>0, <1>11, <1>12, <1>13, <1>14, <1>15, <1>16, <1>17 DEF IInv

\* All of the round is in its parts, and they are fewer.
LEMMA RoundKeeps ==
    ASSUME IInv, NextRound
    PROVE  IInv'
<1>0. /\ UNCHANGED <<job, pc, sorted, disk>>
      /\ pc = "rounds" /\ Len(current) > BatchSize /\ start >= Len(current)
      /\ current' = next /\ next' = <<>> /\ start' = 0 /\ round' = round + 1
  BY DEF NextRound
<1>1. /\ current \in Seq(DOMAIN disk) /\ next \in Seq(DOMAIN disk) /\ start \in Nat /\ round \in Nat
      /\ Len(current) \in Nat /\ Len(next) \in Nat /\ BatchSize \in Nat /\ BatchSize > 1 /\ Len(job) \in Nat
  BY BatchAssumption, JobType DEF IInv, TypeOK
<1>2. Len(next) > 0 /\ Len(next) < Len(current) /\ round + Len(current) <= Len(job) + 1
  <2>1. start # 0
    BY <1>0, <1>1
  <2>2. next # <<>> /\ 2 * Len(next) + BatchSize - 2 <= start /\ start < Len(current) + BatchSize
        /\ round + Len(current) <= Len(job) + 1
    BY <1>0, <2>1 DEF IInv, Pace
  <2>3. Len(next) # 0
    BY <1>1, <2>2, EmptySeq
  <2>. QED  BY <1>0, <1>1, <2>2, <2>3
<1>3. Pace'
  BY <1>0, <1>1, <1>2 DEF Pace
<1>4. TypeOK'
  <2>1. next' \in Seq(DOMAIN disk') /\ start' \in 0..(Len(current') + BatchSize - 1) /\ round' \in 0..Len(job') + 1
    BY <1>0, <1>1, <1>2
  <2>. QED  BY <1>0, <1>1, <2>1 DEF IInv, TypeOK, Indices
<1>5. Saved' /\ Written' /\ Ordered'
  BY <1>0 DEF IInv, Saved, Written, Ordered, Indices
<1>6. Kept'
  <2>1. round > 0
    BY <1>0 DEF IInv, Parts
  <2>. QED  BY <1>0, <2>1 DEF IInv, Kept, Indices, Own
<1>7. Parts'
  <2>1. ASSUME NEW i \in DOMAIN next PROVE Source(job, round', next[i])
    <3>1. next[i] = PartPath(round, i - 1) /\ i - 1 \in Nat
      BY <1>0, <1>1 DEF IInv, Parts
    <3>. QED  BY <1>0, <1>1, <3>1 DEF Source
  <2>2. \A i \in DOMAIN current' : Source(job, round', current'[i])
    BY <1>0, <2>1
  <2>. QED  BY <1>0, <1>1, <2>2 DEF Parts
<1>8. Flow'
  <2>1. From(current, start) = <<>> /\ From(current', start') = next
    BY <1>0, <1>1, FromNone, FromAll
  <2>2. FlattenSeq(Holds(disk, next)) \in Seq(Indices)
    BY <1>1, HoldsType DEF IInv
  <2>3. FlattenSeq(Holds(disk, next)) \o <<>> = sorted
    BY <1>0, <2>1, HoldsEmpty, FlatEmpty DEF IInv, Flow
  <2>. DEFINE A == FlattenSeq(Holds(disk, next))
  <2>4. A \o <<>> = A /\ <<>> \o A = A
    <3>. HIDE DEF A
    <3>. QED  BY <2>2, ConcatEmptySeq DEF A
  <2>5. <<>> \o FlattenSeq(Holds(disk', From(current', start'))) = sorted
    BY <1>0, <2>1, <2>3, <2>4
  <2>6. FlattenSeq(Holds(disk', next')) = <<>>
    BY <1>0, HoldsEmpty, FlatEmpty
  <2>. QED  BY <1>0, <2>5, <2>6 DEF Flow
<1>. QED  BY <1>0, <1>3, <1>4, <1>5, <1>6, <1>7, <1>8 DEF IInv

LEMMA FinishKeeps ==
    ASSUME IInv, Finish
    PROVE  IInv'
<1>0. /\ UNCHANGED <<job, sorted, current, next, start, round>>
      /\ pc = "rounds" /\ pc' = "done" /\ Len(current) <= BatchSize
      /\ MergeCreateFile(current, OutputPath)
  BY DEF Finish
<1>1. /\ current \in Seq(DOMAIN disk) /\ next \in Seq(DOMAIN disk) /\ start \in Nat /\ Len(current) \in Nat
      /\ BatchSize \in Nat
  BY BatchAssumption DEF IInv, TypeOK
<1>2. /\ DOMAIN disk' = DOMAIN disk \union {OutputPath}
      /\ disk'[OutputPath] = FlattenSeq(Holds(disk, current))
      /\ \A p \in DOMAIN disk : p # OutputPath => disk'[p] = disk[p]
      /\ \A p \in DOMAIN disk' : disk'[p] \in Seq(Indices)
  BY <1>0, <1>1, Creates DEF IInv
<1>3. start = 0 /\ next = <<>>
  BY <1>0, <1>1 DEF IInv, Pace
<1>4. Written'
  <2>1. From(current, start) = current
    BY <1>1, <1>3, FromAll
  <2>2. <<>> \o FlattenSeq(Holds(disk, current)) = sorted
    BY <1>0, <1>3, <2>1, HoldsEmpty, FlatEmpty DEF IInv, Flow
  <2>. DEFINE A == FlattenSeq(Holds(disk, current))
  <2>3. A \in Seq(Indices)
    BY <1>1, HoldsType DEF IInv
  <2>4. <<>> \o A = A
    <3>. HIDE DEF A
    <3>. QED  BY <2>3, ConcatEmptySeq
  <2>. QED  BY <1>0, <1>2, <2>2, <2>4 DEF Written
<1>5. TypeOK'
  <2>1. current' \in Seq(DOMAIN disk') /\ next' \in Seq(DOMAIN disk')
    BY <1>0, <1>1, <1>2, SeqMonotonic
  <2>. QED  BY <1>0, <1>2, <2>1 DEF IInv, TypeOK, Indices
<1>6. Saved' /\ Parts' /\ Flow'
  BY <1>0 DEF Saved, Parts, Flow
<1>7. Kept'
  <2>1. \A i \in Indices : Own(i) # OutputPath
    BY OwnApart DEF IInv
  <2>. QED  BY <1>0, <1>2, <2>1 DEF IInv, Kept, Indices, Own
<1>8. Ordered' /\ Pace'
  BY <1>0 DEF IInv, Ordered, Pace, Indices
<1>. QED  BY <1>0, <1>4, <1>5, <1>6, <1>7, <1>8 DEF IInv

LEMMA Inductive == IInv /\ [Next]_vars => IInv'
BY SaveKeeps, SubmitKeeps, SortKeeps, PlanKeeps, BatchKeeps, RoundKeeps, FinishKeeps, FailKeeps,
   OverKeeps DEF Next, Over

-----------------------------------------------------------------------------
(* A Drive merge up to its downloads.                                      *)

\* The page lists supported files, each with an order.
Shown ==
    /\ folder \subseteq Files
    /\ DOMAIN shown \subseteq Files \ Unsupported
    /\ \A f \in DOMAIN shown : shown[f] \in Nat

\* The inputs of a Drive merge are files the page showed, each once and with
\* the order shown, and if listings are whole all of them that are left.
Carried ==
    pc # "page" /\ shown # << >> =>
        /\ \A i \in Indices : job[i].name \in DOMAIN shown /\ job[i].order = shown[job[i].name]
        /\ \A i, k \in Indices : i # k => job[i].name # job[k].name
        /\ Cardinality(Files) <= Limit =>
              \A f \in DOMAIN shown \intersect folder : \E i \in Indices : job[i].name = f

MInv == IInv /\ Shown /\ Carried

LEMMA Counts ==
    ASSUME NEW files \in SUBSET Files
    PROVE  /\ IsFiniteSet(files) /\ Cardinality(files) \in Nat
           /\ \A some \in SUBSET files :
                 /\ IsFiniteSet(some) /\ Cardinality(some) \in Nat
                 /\ Cardinality(some) <= Cardinality(files)
                 /\ Cardinality(some) = Cardinality(files) => some = files
<1>1. IsFiniteSet(files)
  BY FilesAssumption, FS_Subset
<1>2. ASSUME NEW some \in SUBSET files
      PROVE  /\ IsFiniteSet(some) /\ Cardinality(some) \in Nat
             /\ Cardinality(some) <= Cardinality(files)
             /\ Cardinality(some) = Cardinality(files) => some = files
  BY <1>1, <1>2, FS_Subset, FS_CardinalityType
<1>. QED  BY <1>1, <1>2, FS_CardinalityType

\* Sorted lists every file once: no two have the same number of files before
\* them, so there is one for every place.
LEMMA SortedLists ==
    ASSUME NEW files \in SUBSET Files, NEW order, \A f \in files : order[f] \in Nat
    PROVE  LET list == Sorted(files, order)
           IN  /\ list \in Seq([order : Nat, name : Nat])
               /\ \A i \in DOMAIN list : list[i].name \in files /\ list[i].order = order[list[i].name]
               /\ \A i, k \in DOMAIN list : i # k => list[i].name # list[k].name
               /\ \A f \in files : \E i \in DOMAIN list : list[i].name = f
<1>. DEFINE Precedes(f, g) == order[f] < order[g] \/ (order[f] = order[g] /\ Folded[f] < Folded[g])
            Ahead(f)       == {g \in files : Precedes(g, f)}
            n              == Cardinality(files)
            place          == [f \in files |-> Cardinality(Ahead(f)) + 1]
            Nth(i)         == CHOOSE f \in files : Cardinality(Ahead(f)) = i - 1
            list           == Sorted(files, order)
<1>1. list = [i \in 1..n |-> [order |-> order[Nth(i)], name |-> Nth(i)]]
  BY DEF Sorted
<1>2. \A f \in files : Folded[f] \in Nat /\ order[f] \in Nat /\ f \in Nat
  BY FilesAssumption, FoldedAssumption DEF Injection
<1>3. \A f, g \in files : f # g => Folded[f] # Folded[g]
  BY FoldedAssumption DEF Injection, IsInjective
<1>4. /\ IsFiniteSet(files) /\ n \in Nat
      /\ \A f \in files : Cardinality(Ahead(f)) \in Nat /\ Cardinality(Ahead(f)) < n
  <2>1. IsFiniteSet(files) /\ n \in Nat
    BY Counts
  <2>2. ASSUME NEW f \in files PROVE Cardinality(Ahead(f)) \in Nat /\ Cardinality(Ahead(f)) < n
    <3>1. Ahead(f) \in SUBSET files /\ Ahead(f) # files
      BY <1>2
    <3>2. /\ Cardinality(Ahead(f)) \in Nat /\ Cardinality(Ahead(f)) <= n
          /\ Cardinality(Ahead(f)) # n
      BY <3>1, Counts
    <3>. HIDE DEF Ahead, n
    <3>. QED  BY <2>1, <3>2
  <2>. QED  BY <2>1, <2>2
<1>5. \A f, g \in files : Precedes(f, g) => Cardinality(Ahead(f)) < Cardinality(Ahead(g))
  <2>. SUFFICES ASSUME NEW f \in files, NEW g \in files, Precedes(f, g)
                PROVE  Cardinality(Ahead(f)) < Cardinality(Ahead(g))
    OBVIOUS
  <2>1. Ahead(f) \in SUBSET Ahead(g)
    BY <1>2
  <2>2. f \in Ahead(g) /\ f \notin Ahead(f)
    BY <1>2
  <2>3. Ahead(g) \in SUBSET Files
    OBVIOUS
  <2>4. /\ Cardinality(Ahead(f)) <= Cardinality(Ahead(g))
        /\ Cardinality(Ahead(f)) # Cardinality(Ahead(g))
    <3>. HIDE DEF Ahead
    <3>. QED  BY <2>1, <2>2, <2>3, Counts
  <2>. HIDE DEF Ahead
  <2>. QED  BY <1>4, <2>4
<1>6. \A f, g \in files : f # g => Precedes(f, g) \/ Precedes(g, f)
  BY <1>2, <1>3
<1>. HIDE DEF Precedes, Ahead
<1>7. place \in Injection(files, 1..n)
  <2>1. place \in [files -> 1..n]
    BY <1>4
  <2>2. \A f, g \in files : f # g => Cardinality(Ahead(f)) # Cardinality(Ahead(g))
    BY <1>4, <1>5, <1>6
  <2>3. \A f, g \in files : place[f] = place[g] => f = g
    BY <1>4, <2>2
  <2>. QED  BY <2>1, <2>3 DEF Injection, IsInjective
<1>8. \A i \in 1..n : \E f \in files : Cardinality(Ahead(f)) = i - 1
  <2>1. IsFiniteSet(1..n) /\ Cardinality(1..n) = n
    BY <1>4, FS_Interval
  <2>2. place \in Surjection(files, 1..n)
    <3>. HIDE DEF place
    <3>. QED  BY <1>7, <2>1, FS_Injection
  <2>3. \A i \in 1..n : \E f \in files : place[f] = i
    BY <2>2 DEF Surjection
  <2>. QED  BY <1>4, <2>3
<1>9. \A i \in 1..n : Nth(i) \in files /\ Cardinality(Ahead(Nth(i))) = i - 1
  BY <1>8
<1>10. \A f \in files : Nth(place[f]) = f /\ place[f] \in 1..n
  <2>. SUFFICES ASSUME NEW f \in files PROVE Nth(place[f]) = f /\ place[f] \in 1..n
    OBVIOUS
  <2>1. place[f] \in 1..n /\ place[f] - 1 = Cardinality(Ahead(f))
    BY <1>4
  <2>2. Nth(place[f]) \in files /\ Cardinality(Ahead(Nth(place[f]))) = Cardinality(Ahead(f))
    BY <1>9, <2>1
  <2>3. place[Nth(place[f])] = place[f]
    BY <2>2
  <2>. HIDE DEF place, Nth
  <2>. QED  BY <1>7, <2>1, <2>2, <2>3 DEF Injection, IsInjective
<1>. HIDE DEF place, Nth, n
<1>11. DOMAIN list = 1..n /\ \A i \in 1..n : list[i].name = Nth(i) /\ list[i].order = order[Nth(i)]
  BY <1>1
<1>12. list \in Seq([order : Nat, name : Nat])
  <2>. \A i \in 1..n : order[Nth(i)] \in Nat /\ Nth(i) \in Nat
    BY <1>2, <1>9
  <2>. QED  BY <1>1, <1>4
<1>13. ASSUME NEW i \in 1..n, NEW k \in 1..n, i # k PROVE Nth(i) # Nth(k)
  BY <1>4, <1>9, <1>13
<1>. HIDE DEF list
<1>. QED  BY <1>9, <1>10, <1>11, <1>12, <1>13 DEF list

LEMMA ListingTypes ==
    ASSUME Shown, NEW files \in Listed
    PROVE  /\ files \in SUBSET Files /\ files \subseteq folder \ Unsupported
           /\ \A f \in files : Extracted[f] \in Nat
           /\ Cardinality(Files) <= Limit => files = folder \ Unsupported
<1>1. PICK part \in Answers : files = part \ Unsupported
  BY DEF Listed, Listings
<1>2. part \in SUBSET folder /\ files \intersect Unnumbered = {}
  BY <1>1 DEF Answers, Listed
<1>3. files \in SUBSET Files /\ folder \in SUBSET Files
  BY <1>1, <1>2 DEF Shown
<1>4. ASSUME Cardinality(Files) <= Limit PROVE part = folder
  <2>1. Cardinality(folder) \in Nat /\ Cardinality(folder) <= Cardinality(Files) /\ Cardinality(Files) \in Nat
    BY <1>3, Counts
  <2>2. Cardinality(part) = Cardinality(folder)
    BY <1>4, <2>1, LimitAssumption DEF Answers
  <2>. QED  BY <1>2, <1>3, <2>2, Counts
<1>5. \A f \in files : Extracted[f] \in Nat
  BY <1>2, <1>3, ExtractedAssumption
<1>. QED  BY <1>1, <1>2, <1>3, <1>4, <1>5

\* The page before the click.
LEMMA PageKeeps ==
    ASSUME MInv, Change \/ Preview \/ Move \/ Type
    PROVE  MInv'
<1>1. UNCHANGED vars /\ pc = "page"
  BY DEF Change, Preview, Move, Type
<1>2. IInv'
  BY <1>1, OverKeeps DEF MInv
<1>3. Carried'
  BY <1>1 DEF vars, Carried
<1>4. CASE Change
  <2>1. PICK f \in Files : folder' = IF f \in folder THEN folder \ {f} ELSE folder \union {f}
    BY <1>4 DEF Change
  <2>2. folder' \subseteq Files /\ UNCHANGED shown
    BY <1>4, <2>1 DEF Change, MInv, Shown
  <2>. QED  BY <1>2, <1>3, <2>2 DEF MInv, Shown
<1>5. CASE Preview
  <2>1. PICK files \in Listed : shown' = [f \in files |-> Extracted[f]]
    BY <1>5 DEF Preview
  <2>2. UNCHANGED folder
    BY <1>5 DEF Preview
  <2>3. files \in SUBSET Files /\ files \subseteq folder \ Unsupported /\ \A f \in files : Extracted[f] \in Nat
    BY ListingTypes DEF MInv
  <2>. QED  BY <1>2, <1>3, <2>1, <2>2, <2>3 DEF MInv, Shown
<1>6. CASE Move
  <2>1. \A f : Place(f) \in Nat
    <3>1. DOMAIN shown \in SUBSET Files
      BY DEF MInv, Shown
    <3>2. \A f : {g \in DOMAIN shown : ShownBefore(g, f)} \in SUBSET DOMAIN shown
      OBVIOUS
    <3>. QED  BY <3>1, <3>2, Counts DEF Place
  <2>2. UNCHANGED folder /\ DOMAIN shown' = DOMAIN shown /\ \A f \in DOMAIN shown : shown'[f] \in Nat
    BY <1>6, <2>1 DEF Move
  <2>. QED  BY <1>2, <1>3, <2>2 DEF MInv, Shown
<1>7. CASE Type
  <2>1. PICK f \in DOMAIN shown, order \in 1..MaxOrder : shown' = [shown EXCEPT ![f] = order]
    BY <1>7 DEF Type
  <2>2. UNCHANGED folder /\ order \in Nat
    BY <1>7, LimitAssumption DEF Type
  <2>. QED  BY <1>2, <1>3, <2>1, <2>2 DEF MInv, Shown
<1>. QED  BY <1>2, <1>3, <1>4, <1>5, <1>6, <1>7 DEF MInv, Shown

\* Nothing is on disk yet, so only the paths of the new inputs matter.
LEMMA ClickKeeps ==
    ASSUME OwnPaths, MInv, Merge
    PROVE  MInv'
<1>1. PICK files \in Listed : ApplyOrders(files)
  BY DEF Merge
<1>2. /\ UNCHANGED <<sorted, current, next, start, round, disk, folder, shown>>
      /\ pc = "page" /\ pc' = "fetch" /\ shown # << >>
      /\ files \subseteq DOMAIN shown /\ job' = Sorted(files, shown)
  BY <1>1 DEF Merge, ApplyOrders, front
<1>3. /\ files \in SUBSET Files /\ files \subseteq folder \ Unsupported
      /\ Cardinality(Files) <= Limit => files = folder \ Unsupported
  BY ListingTypes DEF MInv
<1>4. /\ job' \in Seq([order : Nat, name : Nat])
      /\ \A i \in DOMAIN job' : job'[i].name \in files /\ job'[i].order = shown[job'[i].name]
      /\ \A i, k \in DOMAIN job' : i # k => job'[i].name # job'[k].name
      /\ \A f \in files : \E i \in DOMAIN job' : job'[i].name = f
  <2>1. \A f \in files : shown[f] \in Nat
    BY <1>2 DEF MInv, Shown
  <2>. DEFINE list == Sorted(files, shown)
  <2>2. /\ list \in Seq([order : Nat, name : Nat])
        /\ \A i \in DOMAIN list : list[i].name \in files /\ list[i].order = shown[list[i].name]
        /\ \A i, k \in DOMAIN list : i # k => list[i].name # list[k].name
        /\ \A f \in files : \E i \in DOMAIN list : list[i].name = f
    BY <1>3, <2>1, SortedLists
  <2>3. job' = list
    BY <1>2
  <2>. HIDE DEF list
  <2>. QED  BY <2>2, <2>3
<1>5. Len(job') \in Nat /\ DOMAIN job' = 1..Len(job')
  BY <1>4
<1>6. PathsApart(job)'
  <2>1. \A i \in DOMAIN job' : Clear(job'[i].name, Len(job')) /\ \A k \in DOMAIN job' : k # i => Apart(job'[i].name, job'[k].name)
    BY <1>3, <1>4 DEF OwnPaths
  <2>. QED  BY <2>1 DEF PathsApart, Apart, Clear, PartsOf, LocalPath, SourcePath, OutputPath, PartPath
<1>7. /\ sorted = <<>> /\ current = <<>> /\ next = <<>> /\ start = 0 /\ round = 0
      /\ DOMAIN disk = {}
  <2>1. /\ sorted = <<>> /\ current = <<>> /\ next = <<>> /\ start = 0 /\ round = 0
        /\ \A p \in DOMAIN disk : \E i \in 1..Len(current) : p \in {Own(i), Sent(i)}
    BY <1>2 DEF MInv, IInv, Saved
  <2>2. Len(current) = 0
    BY <2>1
  <2>. QED  BY <2>1, <2>2
<1>8. TypeOK'
  <2>1. sorted' \in Seq(Indices') /\ current' \in Seq(DOMAIN disk') /\ next' \in Seq(DOMAIN disk')
    BY <1>2, <1>7
  <2>2. start' \in 0..(Len(current') + BatchSize - 1) /\ round' \in 0..Len(job') + 1
    BY <1>2, <1>5, <1>7, BatchAssumption
  <2>. QED  BY <1>2, <1>4, <1>7, <2>1, <2>2 DEF TypeOK
<1>9. Saved'
  <2>1. Len(current') = 0 /\ DOMAIN disk' = {}
    BY <1>2, <1>7
  <2>. QED  BY <1>2, <1>5, <1>7, <2>1 DEF Saved
<1>10. Kept' /\ Ordered' /\ Parts' /\ Flow' /\ Written'
  BY <1>2, <1>7 DEF Kept, Ordered, Parts, Flow, Written
<1>11. Pace'
  BY <1>2, <1>5, <1>7 DEF Pace
<1>12. Shown'
  BY <1>2 DEF MInv, Shown
<1>13. Carried'
  <2>1. \A i \in DOMAIN job' : job'[i].name \in DOMAIN shown
    BY <1>2, <1>4
  <2>2. ASSUME Cardinality(Files) <= Limit, NEW f \in DOMAIN shown \intersect folder
        PROVE  \E i \in DOMAIN job' : job'[i].name = f
    <3>1. f \in files
      BY <1>3, <2>2 DEF MInv, Shown
    <3>. QED  BY <1>4, <3>1
  <2>. QED  BY <1>2, <1>4, <2>1, <2>2 DEF Carried, Indices
<1>. QED  BY <1>6, <1>8, <1>9, <1>10, <1>11, <1>12, <1>13 DEF MInv, IInv

\* The downloads are saved like an upload.
LEMMA FetchKeeps ==
    ASSUME MInv, Fetch
    PROVE  MInv'
<1>0. UNCHANGED <<job, sorted, next, start, round, folder, shown>> /\ pc = "fetch"
  BY DEF Fetch, front
<1>1. Shown' /\ Carried'
  BY <1>0 DEF MInv, Shown, Carried, Indices
<1>2. /\ sorted = <<>> /\ next = <<>> /\ start = 0 /\ round = 0
      /\ job \in Seq([order : Nat, name : Nat]) /\ Indices = 1..Len(job) /\ Len(job) \in Nat
  BY <1>0, JobType DEF MInv, IInv, TypeOK, Saved
<1>3. PathsApart(job)'
  BY <1>0 DEF MInv, IInv, PathsApart
<1>4. CASE pc' = "failed" /\ UNCHANGED <<current, disk>>
  <2>1. TypeOK'
    BY <1>0, <1>4 DEF MInv, IInv, TypeOK, Indices
  <2>2. Saved' /\ Parts' /\ Flow' /\ Written'
    BY <1>4 DEF Saved, Parts, Flow, Written
  <2>3. Kept' /\ Ordered' /\ Pace'
    BY <1>0, <1>2, <1>4 DEF Kept, Ordered, Pace
  <2>. QED  BY <1>1, <1>3, <2>1, <2>2, <2>3 DEF MInv, IInv
<1>5. ASSUME current' = [i \in DOMAIN job |-> LocalPath(job[i].name)],
             disk' = [p \in Range(current') |-> <<CHOOSE i \in DOMAIN job : current'[i] = p>>],
             pc' = "sort"
      PROVE  MInv'
  <2>1. current' = [i \in 1..Len(job) |-> Own(i)]
    BY <1>2, <1>5 DEF Own, Indices
  <2>2. \A i, k \in 1..Len(job) : i # k => Own(i) # Own(k)
    BY <1>2, OwnApart DEF MInv, IInv
  <2>3. DOMAIN disk' = {Own(i) : i \in 1..Len(job)}
    BY <1>5, <2>1 DEF Range
  <2>4. \A i \in 1..Len(job) : disk'[Own(i)] = <<i>>
    <3>. SUFFICES ASSUME NEW i \in 1..Len(job) PROVE disk'[Own(i)] = <<i>>
      OBVIOUS
    <3>1. disk'[Own(i)] = <<CHOOSE k \in DOMAIN job : current'[k] = Own(i)>>
      BY <1>5, <2>1 DEF Range
    <3>2. \A k \in DOMAIN job : current'[k] = Own(i) <=> k = i
      BY <1>2, <2>1, <2>2 DEF Indices
    <3>3. (CHOOSE k \in DOMAIN job : current'[k] = Own(i)) = i
      BY <1>2, <3>2 DEF Indices
    <3>. QED  BY <3>1, <3>3
  <2>5. current' \in Seq(DOMAIN disk') /\ Len(current') = Len(job)
    BY <1>2, <2>1, <2>3
  <2>6. \A p \in DOMAIN disk' : disk'[p] \in Seq(Indices)
    <3>1. \A i \in 1..Len(job) : <<i>> \in Seq(Indices)
      BY <1>2
    <3>. QED  BY <2>3, <2>4, <3>1
  <2>7. TypeOK'
    <3>1. next' \in Seq(DOMAIN disk') /\ sorted' \in Seq(Indices')
      BY <1>0, <1>2
    <3>2. start' \in 0..(Len(current') + BatchSize - 1) /\ round' \in 0..Len(job') + 1
      BY <1>0, <1>2, <2>5, BatchAssumption
    <3>. QED  BY <1>0, <1>2, <1>5, <2>5, <2>6, <3>1, <3>2 DEF TypeOK, Indices
  <2>8. Saved'
    <3>1. \A i \in 1..Len(current') : current'[i] = Own(i) /\ disk'[Own(i)] = <<i>>
      BY <2>1, <2>4, <2>5
    <3>2. \A p \in DOMAIN disk' : \E i \in 1..Len(current') : p \in {Own(i), Sent(i)}
      BY <2>3, <2>5
    <3>3. \A i \in 1..Len(current') : current'[i] = Own(i)' /\ disk'[Own(i)'] = <<i>>
      BY <1>0, <3>1 DEF Own
    <3>4. \A p \in DOMAIN disk' : \E i \in 1..Len(current') : p \in {Own(i)', Sent(i)'}
      BY <1>0, <3>2 DEF Own, Sent
    <3>5. /\ next' = <<>> /\ start' = 0 /\ round' = 0 /\ pc' = "sort"
          /\ Len(current') = Len(job') /\ Len(job') \in Nat
      BY <1>0, <1>2, <1>5, <2>5
    <3>. QED  BY <3>3, <3>4, <3>5 DEF Saved
  <2>9. Kept' /\ Ordered' /\ Pace'
    BY <1>0, <1>2, <1>5 DEF Kept, Ordered, Pace
  <2>10. Parts' /\ Flow' /\ Written'
    BY <1>5 DEF Parts, Flow, Written
  <2>. QED  BY <1>1, <1>3, <2>7, <2>8, <2>9, <2>10 DEF MInv, IInv
<1>. QED  BY <1>4, <1>5 DEF Fetch

\* The subprocess changes neither the inputs nor the page.
LEMMA WorkKeeps ==
    ASSUME MInv, Work
    PROVE  MInv'
<1>1. IInv'
  BY Inductive DEF MInv, Work
<1>2. UNCHANGED <<job, folder, shown>> /\ (pc = "page" => pc' = "page")
  BY DEF Work, front, Next, Save, Submit, SortInputs, Plan, Batch, NextRound, Finish, Fail, Over, vars
<1>. QED  BY <1>1, <1>2 DEF MInv, Shown, Carried, Indices

LEMMA MergeStarts ==
    ASSUME OwnPaths, StartFolder \/ StartUpload
    PROVE  MInv
<1>1. CASE StartUpload
  <2>1. Init /\ PathsApart(job)
    BY <1>1 DEF StartUpload, Init, OwnPaths
  <2>2. folder = {} /\ shown = << >>
    BY <1>1 DEF StartUpload
  <2>. QED  BY <2>1, <2>2, Starting DEF MInv, Shown, Carried
<1>2. CASE StartFolder
  <2>. USE <1>2 DEF StartFolder
  <2>1. Len(job) = 0 /\ DOMAIN job = {} /\ Len(current) = 0 /\ DOMAIN disk = {}
    OBVIOUS
  <2>2. TypeOK
    <3>1. sorted \in Seq(Indices) /\ current \in Seq(DOMAIN disk) /\ next \in Seq(DOMAIN disk)
          /\ job \in Seq([order : Nat, name : Nat])
      OBVIOUS
    <3>2. start \in 0..(Len(current) + BatchSize - 1) /\ round \in 0..Len(job) + 1
      BY <2>1, BatchAssumption
    <3>. QED  BY <2>1, <3>1, <3>2 DEF TypeOK
  <2>3. PathsApart(job) /\ Saved /\ Kept /\ Ordered
    BY <2>1 DEF PathsApart, Saved, Kept, Ordered
  <2>4. Parts /\ Flow /\ Pace /\ Written
    BY <2>1 DEF Parts, Flow, Pace, Written
  <2>5. Shown /\ Carried
    BY DEF Shown, Carried
  <2>. QED  BY <2>2, <2>3, <2>4, <2>5 DEF MInv, IInv
<1>. QED  BY <1>1, <1>2

LEMMA MergeInductive == OwnPaths /\ MInv /\ [MergeNext]_allVars => MInv'
<1>. SUFFICES ASSUME OwnPaths, MInv, [MergeNext]_allVars PROVE MInv'
  OBVIOUS
<1>1. CASE UNCHANGED allVars
  <2>1. IInv'
    BY <1>1, OverKeeps DEF MInv, allVars
  <2>. QED  BY <1>1, <2>1 DEF MInv, allVars, vars, front, Shown, Carried, Indices
<1>2. CASE MergeNext
  BY <1>2, PageKeeps, ClickKeeps, FetchKeeps, WorkKeeps DEF MergeNext
<1>. QED  BY <1>1, <1>2

LEMMA Always == ASSUME OwnPaths PROVE MergeSpec => []MInv
<1>1. StartFolder \/ StartUpload => MInv
  BY MergeStarts
<1>2. MInv /\ [MergeNext]_allVars => MInv'
  BY MergeInductive
<1>. QED  BY <1>1, <1>2, PTL DEF MergeSpec

-----------------------------------------------------------------------------
(* Theorems.                                                               *)

\* A sort that has placed every input has placed each of them once.
LEMMA SortedIsPermutation ==
    ASSUME IInv, Len(sorted) = Len(job)
    PROVE  Range(sorted) = Indices
<1>1. /\ Indices = 1..Len(job) /\ Len(job) \in Nat /\ sorted \in [Indices -> Indices]
  BY JobType, SMTT(30) DEF IInv, TypeOK
<1>2. ASSUME NEW i \in Indices, NEW k \in Indices, sorted[i] = sorted[k] PROVE i = k
  <2>1. i \in DOMAIN sorted /\ k \in DOMAIN sorted /\ i \in Int /\ k \in Int
    BY <1>1
  <2>2. ~(i < k) /\ ~(k < i)
    BY <1>2, <2>1 DEF IInv, Ordered
  <2>. QED  BY <2>1, <2>2
<1>3. sorted \in Injection(Indices, Indices)
  BY <1>1, <1>2 DEF Injection, IsInjective
<1>4. IsFiniteSet(Indices)
  BY <1>1, FS_Interval
<1>5. sorted \in Surjection(Indices, Indices)
  BY <1>3, <1>4, FS_Injection
<1>6. \A k \in Indices : \E i \in Indices : sorted[i] = k
  BY <1>5 DEF Surjection
<1>. QED  BY <1>1, <1>6 DEF Range

\* The values of the variables have their types; in particular every round
\* leaves fewer files: n files never take more than n + 1 rounds to merge.
THEOREM TypeCorrect ==
    ASSUME OwnPaths
    PROVE  MergeSpec => []TypeOK
<1>1. MInv => TypeOK
  BY DEF MInv, IInv
<1>2. MergeSpec => []MInv
  BY Always
<1>. QED  BY <1>1, <1>2, PTL

\* MergeFiles reads every file as it was saved, if no file has the name of a
\* part that a merge of so many files may write, of the output, or of another:
\* the names of the parts, over all rounds and batches, stay within those.
THEOREM FilesAreKept ==
    ASSUME OwnPaths
    PROVE  MergeSpec => []SourcesKept
<1>1. MInv => SourcesKept
  BY DEF MInv, IInv, Kept, SourcesKept, Own
<1>2. MergeSpec => []MInv
  BY Always
<1>. QED  BY <1>1, <1>2, PTL

\* Under the same hypothesis the output has every file of the form once, by
\* order and then by name, for every number of files, every size of a batch
\* and so every number of rounds.
THEOREM OutputIsInOrder ==
    ASSUME OwnPaths
    PROVE  MergeSpec => []MergedInOrder
<1>1. MInv => MergedInOrder
  <2>. SUFFICES ASSUME MInv, pc = "done"
                PROVE  /\ Len(disk[OutputPath]) = Len(job)
                       /\ Range(disk[OutputPath]) = Indices
                       /\ \A i, k \in Indices : i < k =>
                             ~Before(job[disk[OutputPath][k]], job[disk[OutputPath][i]])
    BY DEF MergedInOrder
  <2>1. IInv /\ disk[OutputPath] = sorted /\ Len(sorted) = Len(job)
    BY DEF MInv, IInv, Written, Ordered
  <2>2. DOMAIN sorted = Indices
    BY <2>1, JobType DEF IInv, TypeOK
  <2>. QED  BY <2>1, <2>2, SortedIsPermutation DEF IInv, Ordered
<1>2. MergeSpec => []MInv
  BY Always
<1>. QED  BY <1>1, <1>2, PTL

\* Names whose order by bytes is the order without regard to case.
Collate == \A f, g \in Files : f < g => Folded[f] < Folded[g]

\* What handleDriveMerge merges is what the page showed, in the order shown and
\* whatever happened to the folder in between, where the collations agree
\* (Collate) and files.list answers in full.
THEOREM MergesWhatWasShown ==
    ASSUME OwnPaths, Collate, Cardinality(Files) <= Limit
    PROVE  MergeSpec => []MergedAsShown
<1>1. MInv => MergedAsShown
  <2>. SUFFICES ASSUME MInv, pc = "done", shown # << >>
                PROVE  /\ Range(Output) \subseteq DOMAIN shown
                       /\ DOMAIN shown \intersect folder \subseteq Range(Output)
                       /\ \A i, k \in DOMAIN Output : i < k => ShownBefore(Output[i], Output[k])
    BY DEF MergedAsShown
  <2>1. IInv /\ disk[OutputPath] = sorted /\ Len(sorted) = Len(job)
    BY DEF MInv, IInv, Written, Ordered
  <2>2. DOMAIN sorted = Indices /\ Range(sorted) = Indices
    BY <2>1, JobType, SortedIsPermutation DEF IInv, TypeOK
  <2>3. /\ \A i \in Indices : job[i].name \in DOMAIN shown /\ job[i].order = shown[job[i].name]
        /\ \A i, k \in Indices : i # k => job[i].name # job[k].name
        /\ \A f \in DOMAIN shown \intersect folder : \E i \in Indices : job[i].name = f
    BY DEF MInv, Carried
  <2>4. DOMAIN Output = Indices /\ \A i \in Indices : sorted[i] \in Indices /\ Output[i] = job[sorted[i]].name
    BY <2>1, <2>2 DEF Output, Range
  <2>5. \A f : (\E i \in Indices : Output[i] = f) <=> (\E i \in Indices : job[i].name = f)
    BY <2>2, <2>4 DEF Range
  <2>6. Range(Output) \subseteq DOMAIN shown /\ DOMAIN shown \intersect folder \subseteq Range(Output)
    <3>1. \A f : f \in Range(Output) <=> \E i \in Indices : job[i].name = f
      BY <2>4, <2>5 DEF Range
    <3>. QED  BY <2>3, <3>1
  <2>7. ASSUME NEW i \in Indices, NEW k \in Indices, i < k PROVE ShownBefore(Output[i], Output[k])
    <3>. DEFINE a == job[sorted[i]]
                b == job[sorted[k]]
    <3>1. sorted[i] # sorted[k] /\ ~Before(b, a)
      BY <2>1, <2>2, <2>7 DEF IInv, Ordered
    <3>2. /\ a.name \in DOMAIN shown /\ a.order = shown[a.name]
          /\ b.name \in DOMAIN shown /\ b.order = shown[b.name] /\ a.name # b.name
      BY <2>3, <2>4, <3>1
    <3>3. a.name \in Files /\ b.name \in Files /\ a.order \in Nat /\ b.order \in Nat
      BY <3>2 DEF MInv, Shown
    <3>4. Output[i] = a.name /\ Output[k] = b.name
      BY <2>4
    <3>. HIDE DEF a, b
    <3>5. a.name \in Nat /\ b.name \in Nat
      BY <3>3, FilesAssumption
    <3>6. a.order < b.order \/ (a.order = b.order /\ a.name < b.name)
      BY <3>1, <3>2, <3>3, <3>5 DEF Before
    <3>. QED  BY <3>2, <3>3, <3>4, <3>6 DEF ShownBefore, Collate
  <2>. QED  BY <2>4, <2>6, <2>7
<1>2. MergeSpec => []MInv
  BY Always
<1>. QED  BY <1>1, <1>2, PTL
===============================================================================
