------------------------- MODULE CatalogReaderProofs -------------------------
(***************************************************************************)
(* Proofs about the book view.  A load is "mine" if it was started for the *)
(* book on the screen, and the same holds of the function the last effect  *)
(* started.  The loads that are mine have chunks of their own, whose pages *)
(* are noted; what an earlier book does to these notes is "crossed".       *)
(***************************************************************************)
EXTENDS CatalogReader, FiniteSetTheorems, TLAPS

\* The books the screen can show, and the forms of the other records.
Book  == [id : Books \union {NoBook}, pages : Seq(Pages), loaded : SUBSET Pages]
Runs  == [at : {"rest", "now"} \union Loads, book : Book, start : Nat, last : BOOLEAN, mine : BOOLEAN]
Calls == [book : Books \union {NoBook}, start : Nat, pages : SUBSET (Nat \X Pages), mine : BOOLEAN]
Clicks == [kind : {"none", "drive", "create", "upload", "delete"}, book : Books \union {NoBook}, shown : BOOLEAN]

Forms ==
    /\ book \in Book
    /\ run \in Runs
    /\ load \in [Loads -> Calls]
    /\ click \in Clicks
    /\ click = NoClick \/ click.book \in Books
    /\ marked \subseteq Nat
    /\ busy \subseteq Nat

\* The first page of a chunk.
Aligned(s) == \E q \in Nat : s = q * ChunkSize
Straight   == Aligned(run.start) /\ \A l \in Loads : Aligned(load[l].start)

\* The function that runs for this book has an earlier state of it.
OwnRun ==
    run.mine =>
        /\ run.book.id = book.id
        /\ run.book.pages = book.pages
        /\ run.book.loaded \subseteq book.loaded

\* The chunks on the wire for this book are chunks of it.
OwnLoads ==
    \A l \in Loads : load[l].mine =>
        /\ load[l].book = book.id
        /\ PagesOf(load[l].pages) \subseteq Chunk(book, load[l].start)

\* They are noted, have chunks and pages of their own, and bring what the
\* chunk lacks.
Noted ==
    /\ \A l \in Loads : load[l].mine =>
          /\ load[l].start \in busy \union marked
          /\ PagesOf(load[l].pages) \subseteq fetching
          /\ Chunk(book, load[l].start) \ Doubled \subseteq book.loaded \union PagesOf(load[l].pages)
    /\ \A k, l \in Loads : k # l /\ load[k].mine /\ load[l].mine =>
          /\ load[k].start # load[l].start
          /\ PagesOf(load[k].pages) \intersect PagesOf(load[l].pages) = {}

\* What is noted as on the wire is on the wire.
Fetched == \A p \in fetching : \E l \in Loads : load[l].mine /\ p \in PagesOf(load[l].pages)

Honest == \A start \in marked : Chunk(book, start) \ Doubled \subseteq book.loaded

\* The inductive invariant.
IInv ==
    /\ TypeOK
    /\ Forms
    /\ Straight
    /\ OwnRun
    /\ OwnLoads
    /\ crossed \/ (Noted /\ Fetched /\ Honest)

-----------------------------------------------------------------------------
(* Lists, books and chunks.                                                *)

LEMMA LastIsNat ==
    ASSUME NEW b \in Books
    PROVE  Last(b) \in Nat /\ Last(b) > 2
BY ListsAssumption DEF Last

\* Whatever the server answers is a list of pages.
LEMMA ServedIsList ==
    ASSUME NEW b \in Books, NEW v \in 1..Last(b), NEW list \in Served(b, v)
    PROVE  list \in Seq(Pages)
<1>. DEFINE newest == Lists[b][Newest(b, v)]
            added  == Range(newest) \ Range(Lists[b][2])
<1>1. Newest(b, v) \in 1..Last(b)
  BY LastIsNat DEF Newest
<1>2. \A w \in 1..Last(b) : Lists[b][w] \in Seq(Pages)
  BY ListsAssumption DEF Last
<1>3. Range(newest) \subseteq Pages /\ IsFiniteSet(Range(newest))
  <2>1. newest \in Seq(Pages)
    BY <1>1, <1>2
  <2>2. PICK m \in Nat : newest \in [1..m -> Pages]
    BY <2>1
  <2>3. IsFiniteSet(1..m)
    BY FS_Interval
  <2>4. newest \in Surjection(1..m, Range(newest))
    BY <2>2 DEF Range, Surjection
  <2>. QED  BY <2>2, <2>3, <2>4, FS_Surjection DEF Range
<1>4. added \subseteq Pages /\ Cardinality(added) \in Nat
  BY <1>3, FS_Subset, FS_CardinalityType
<1>5. Tails(b, v) \subseteq Seq(Pages)
  <2>1. SUFFICES ASSUME NEW n \in 0..Cardinality(added), NEW t \in Injection(1..n, added)
                 PROVE  t \in Seq(Pages)
    BY DEF Tails
  <2>2. n \in Nat /\ t \in [1..n -> Pages]
    BY <1>4 DEF Injection
  <2>. QED  BY <2>2
<1>6. PICK w \in 2..Newest(b, v), tail \in Tails(b, v) : list = Lists[b][w] \o tail
  BY DEF Served
<1>7. w \in 1..Last(b)
  BY <1>1, LastIsNat
<1>8. Lists[b][w] \in Seq(Pages) /\ tail \in Seq(Pages)
  BY <1>2, <1>5, <1>7
<1>. QED  BY <1>6, <1>8

LEMMA EmptyBook == Nothing \in Book /\ Nothing.loaded = {}
BY DEF Nothing, Book

\* The pages of a chunk are pages of the book.
LEMMA ChunkInBook ==
    ASSUME NEW b, NEW s
    PROVE  Chunk(b, s) \subseteq Range(b.pages)
BY DEF Chunk, Slice, Range

\* A chunk depends on the pages of the book only.
LEMMA SamePages ==
    ASSUME NEW b, NEW c, b.pages = c.pages, NEW s
    PROVE  Chunk(b, s) = Chunk(c, s)
BY DEF Chunk, Slice

\* The pages a call is for are those the chunk lacks that are not on the wire.
LEMMA PendingPages ==
    PagesOf(Pending) = Chunk(run.book, run.start) \ (run.book.loaded \union fetching)
<1>. DEFINE rest == {k \in Slice(run.book, run.start, ChunkSize) :
                        run.book.pages[k] \notin run.book.loaded \union fetching}
<1>1. Pending = {<<i, run.book.pages[i]>> : i \in rest}
  BY DEF Pending
<1>2. ASSUME NEW p \in PagesOf(Pending) PROVE \E i \in rest : p = run.book.pages[i]
  <2>1. PICK e \in Pending : p = e[2]
    BY <1>2 DEF PagesOf
  <2>2. PICK i \in rest : e = <<i, run.book.pages[i]>>
    BY <1>1, <2>1
  <2>. QED  BY <2>1, <2>2
<1>3. ASSUME NEW i \in rest PROVE run.book.pages[i] \in PagesOf(Pending)
  <2>1. <<i, run.book.pages[i]>> \in Pending
    BY <1>1, <1>3
  <2>2. <<i, run.book.pages[i]>>[2] = run.book.pages[i]
    OBVIOUS
  <2>. QED  BY <2>1, <2>2 DEF PagesOf
<1>. QED  BY <1>2, <1>3 DEF Chunk

LEMMA RangeOfPages ==
    ASSUME NEW b \in Book
    PROVE  Range(b.pages) \subseteq Pages
BY DEF Book, Range

LEMMA StartZero == 0 \in Nat /\ Aligned(0)
BY SizeAssumption DEF Aligned

LEMMA StartOfIndex ==
    ASSUME NEW i \in Nat
    PROVE  StartOf(i) \in Nat /\ Aligned(StartOf(i))
<1>1. i \div ChunkSize \in Nat
  BY SizeAssumption, Z3
<1>2. (i \div ChunkSize) * ChunkSize \in Nat
  BY <1>1, SizeAssumption
<1>. QED  BY <1>1, <1>2 DEF StartOf, Aligned

LEMMA StartOfNext ==
    ASSUME NEW s \in Nat, Aligned(s)
    PROVE  s + ChunkSize \in Nat /\ Aligned(s + ChunkSize)
<1>1. PICK q \in Nat : s = q * ChunkSize
  BY DEF Aligned
<1>2. s + ChunkSize = (q + 1) * ChunkSize
  BY <1>1, SizeAssumption
<1>. QED  BY <1>2, SizeAssumption DEF Aligned

\* Two chunks do not overlap.
LEMMA StartsApart ==
    ASSUME NEW s \in Nat, NEW t \in Nat, Aligned(s), Aligned(t), s < t
    PROVE  s + ChunkSize <= t
<1>1. PICK q \in Nat : s = q * ChunkSize
  BY DEF Aligned
<1>2. PICK r \in Nat : t = r * ChunkSize
  BY DEF Aligned
<1>3. q < r
  <2>1. SUFFICES ASSUME r <= q PROVE FALSE
    OBVIOUS
  <2>2. PICK d \in Nat : q = r + d
    BY <2>1
  <2>3. q * ChunkSize = r * ChunkSize + d * ChunkSize
    BY <2>2, SizeAssumption
  <2>4. d * ChunkSize \in Nat /\ r * ChunkSize \in Nat
    BY SizeAssumption
  <2>. QED  BY <1>1, <1>2, <2>3, <2>4
<1>4. PICK d \in Nat : r = q + 1 + d
  <2>1. r - q - 1 \in Nat /\ r = q + 1 + (r - q - 1)
    BY <1>3
  <2>. QED  BY <2>1
<1>5. r * ChunkSize = q * ChunkSize + ChunkSize + d * ChunkSize
  BY <1>4, SizeAssumption
<1>6. d * ChunkSize \in Nat /\ q * ChunkSize \in Nat
  BY SizeAssumption
<1>. QED  BY <1>1, <1>2, <1>5, <1>6, SizeAssumption

\* A page that is in two chunks is in the book twice.
LEMMA ChunksApart ==
    ASSUME book \in Book, NEW s \in Nat, NEW t \in Nat, Aligned(s), Aligned(t), s # t
    PROVE  Chunk(book, s) \intersect Chunk(book, t) \subseteq Doubled
<1>1. SUFFICES ASSUME NEW p \in Chunk(book, s), p \in Chunk(book, t) PROVE p \in Doubled
  OBVIOUS
<1>2. PICK i \in DOMAIN book.pages : p = book.pages[i] /\ s < i /\ i <= s + ChunkSize
  BY <1>1 DEF Chunk, Slice
<1>3. PICK k \in DOMAIN book.pages : p = book.pages[k] /\ t < k /\ k <= t + ChunkSize
  BY <1>1 DEF Chunk, Slice
<1>4. i \in Nat
  BY DEF Book
<1>5. s + ChunkSize <= t \/ t + ChunkSize <= s
  BY StartsApart
<1>6. i # k
  BY <1>2, <1>3, <1>4, <1>5, SizeAssumption
<1>. QED  BY <1>2, <1>3, <1>6 DEF Doubled

-----------------------------------------------------------------------------
(* Types.                                                                  *)

\* What a step does to the records of the wire.
Same == UNCHANGED <<book, index, refs, due, run, load, past>>

\* A new book: nothing on the wire is its own.
LEMMA ReplaceTypes ==
    ASSUME TypeOK, Forms, NEW new \in Book, new.loaded = {}, Replace(new)
    PROVE  /\ book' \in Book /\ book'.loaded \subseteq Range(book'.pages)
           /\ index' = 0 /\ marked' = {} /\ busy' = {} /\ fetching' = {}
           /\ due' \in BOOLEAN /\ crossed' = FALSE /\ refused' \in BOOLEAN
           /\ run' \in Runs /\ run'.at = run.at /\ run'.start = run.start /\ run'.mine = FALSE
           /\ load' \in [Loads -> Calls]
           /\ \A l \in Loads :
                 /\ load'[l].mine = FALSE /\ load'[l].start = load[l].start
                 /\ load'[l].pages = load[l].pages
                 /\ load'[l] = NoLoad <=> load[l] = NoLoad
<1>1. run' \in Runs /\ run'.at = run.at /\ run'.start = run.start /\ run'.mine = FALSE
  BY DEF Replace, Forms, Runs
<1>2. load' \in [Loads -> Calls]
  BY DEF Replace, Forms, Calls
<1>3. ASSUME NEW l \in Loads
      PROVE  /\ load'[l].mine = FALSE /\ load'[l].start = load[l].start
             /\ load'[l].pages = load[l].pages
             /\ load'[l] = NoLoad <=> load[l] = NoLoad
  <2>1. load'[l] = [load[l] EXCEPT !.mine = FALSE] /\ load[l] \in Calls
    BY DEF Replace, Forms
  <2>2. load'[l].mine = FALSE /\ load'[l].start = load[l].start /\ load'[l].pages = load[l].pages
    BY <2>1 DEF Calls
  <2>3. ASSUME load[l] = NoLoad PROVE load'[l] = NoLoad
    <3>1. load'[l] = [NoLoad EXCEPT !.mine = FALSE]
      BY <2>1, <2>3
    <3>2. NoLoad \in Calls /\ NoLoad.mine = FALSE
      BY DEF NoLoad, Calls
    <3>3. load'[l].book = NoLoad.book
      BY <3>1, <3>2 DEF Calls
    <3>. QED  BY <3>1, <3>2, <3>3, <2>2, <2>3, <1>2 DEF Calls
  <2>4. ASSUME load'[l] = NoLoad PROVE load[l] = NoLoad
    <3>1. load[l].pages = {}
      BY <2>2, <2>4 DEF NoLoad
    <3>2. load[l].pages = {} => load[l] = NoLoad
      BY DEF TypeOK
    <3>. QED  BY <3>1, <3>2
  <2>. QED  BY <2>2, <2>3, <2>4
<1>. QED  BY <1>1, <1>2, <1>3 DEF Replace

LEMMA GoOnTypes ==
    ASSUME Forms, GoOn
    PROVE  /\ run' \in Runs
           /\ run'.mine => run.mine /\ run'.book = run.book
           /\ Aligned(run.start) => Aligned(run'.start)
<1>1. CASE More
  <2>1. run' = [run EXCEPT !.at = "now", !.start = run.start + ChunkSize, !.last = TRUE]
    BY <1>1 DEF GoOn
  <2>2. run.start + ChunkSize \in Nat
    BY SizeAssumption DEF Forms, Runs
  <2>3. Aligned(run.start) => Aligned(run.start + ChunkSize)
    BY StartOfNext DEF Forms, Runs
  <2>4. run' \in Runs /\ run'.mine = run.mine /\ run'.book = run.book /\ run'.start = run.start + ChunkSize
    BY <2>1, <2>2 DEF Forms, Runs
  <2>. QED  BY <2>3, <2>4
<1>2. CASE ~More
  BY <1>2, EmptyBook, StartZero DEF GoOn, Resting, Runs
<1>. QED  BY <1>1, <1>2

LEMMA EffectTypes ==
    ASSUME Forms, index \in Nat, Effect
    PROVE  /\ run' \in Runs
           /\ run'.mine => run'.book = book
           /\ Aligned(run'.start)
<1>1. StartOf(index) \in Nat /\ Aligned(StartOf(index))
  BY StartOfIndex
<1>2. CASE book = Nothing
  BY <1>2, EmptyBook, StartZero DEF Effect, Resting, Runs
<1>3. CASE book # Nothing
  BY <1>3, <1>1 DEF Effect, Runs, Forms
<1>. QED  BY <1>2, <1>3

\* The function waits for its first call, or has made its last.
LEMMA FetchTypes ==
    ASSUME TypeOK, Forms, NEW l \in Loads, Fetch(l)
    PROVE  /\ run' \in Runs
           /\ run'.mine => run.mine /\ run'.book = run.book
           /\ Aligned(run.start) => Aligned(run'.start)
           /\ load' \in [Loads -> Calls]
           /\ load'[l].book = run.book.id /\ load'[l].start = run.start
           /\ load'[l].pages = Pending /\ load'[l].mine = run.mine
           /\ \A k \in Loads : k # l => load'[k] = load[k]
           /\ load'[l] # NoLoad
           /\ Pending \subseteq Nat \X Pages
<1>1. run' \in Runs /\ (run'.mine => run.mine /\ run'.book = run.book)
      /\ (Aligned(run.start) => Aligned(run'.start))
  BY EmptyBook, StartZero DEF Fetch, Resting, Runs, Forms
<1>2. Pending \subseteq Nat \X Pages
  BY DEF Pending, Slice, Forms, Runs, Book
<1>3. [book |-> run.book.id, start |-> run.start, pages |-> Pending, mine |-> run.mine] \in Calls
  BY <1>2 DEF Forms, Runs, Book, Calls
<1>4. load' \in [Loads -> Calls]
  BY <1>3 DEF Fetch, Forms
<1>5. /\ load'[l].book = run.book.id /\ load'[l].start = run.start
      /\ load'[l].pages = Pending /\ load'[l].mine = run.mine
      /\ \A k \in Loads : k # l => load'[k] = load[k]
  BY DEF Fetch, Forms
<1>6. load'[l] # NoLoad
  BY <1>5 DEF Fetch, NoLoad
<1>. QED  BY <1>1, <1>2, <1>4, <1>5, <1>6

LEMMA FillTypes ==
    ASSUME TypeOK, Forms, NEW l \in Loads, Fill(l) \/ Refuse(l)
    PROVE  /\ book' \in Book /\ book'.id = book.id /\ book'.pages = book.pages
           /\ book.loaded \subseteq book'.loaded
           /\ book'.loaded \subseteq Range(book.pages)
           /\ Fill(l) /\ load[l].book = book.id =>
                 PagesOf(load[l].pages) \intersect Range(book.pages) \subseteq book'.loaded
           /\ marked' \subseteq marked \union {load[l].start}
           /\ marked \subseteq marked'
           /\ due' \in BOOLEAN /\ crossed' \in BOOLEAN /\ refused' \in BOOLEAN
           /\ crossed => crossed'
<1>0. Range(book.pages) \subseteq Pages /\ book \in Book
  BY RangeOfPages DEF Forms
<1>1. CASE Fill(l)
  <2>1. CASE book.id = load[l].book
    <3>1. book' = [book EXCEPT !.loaded = @ \union (PagesOf(load[l].pages) \intersect Range(book.pages))]
      BY <1>1, <2>1 DEF Fill
    <3>2. /\ book'.id = book.id /\ book'.pages = book.pages
          /\ book'.loaded = book.loaded \union (PagesOf(load[l].pages) \intersect Range(book.pages))
          /\ book' \in Book
      BY <3>1, <1>0 DEF Book
    <3>. QED  BY <3>2, <1>1 DEF Fill, TypeOK
  <2>2. CASE book.id # load[l].book
    BY <1>0, <1>1, <2>2 DEF Fill, TypeOK
  <2>. QED  BY <2>1, <2>2
<1>2. CASE Refuse(l)
  <2>1. book' = book /\ marked' = marked /\ due' = due
    BY <1>2 DEF Refuse
  <2>2. crossed' \in BOOLEAN /\ refused' \in BOOLEAN /\ (crossed => crossed')
    BY <1>2 DEF Refuse, TypeOK
  <2>3. Fill(l) /\ load[l].book = book.id => PagesOf(load[l].pages) \intersect Range(book.pages) \subseteq book'.loaded
    <3>1. SUFFICES ASSUME Fill(l), load[l].book = book.id
                   PROVE  PagesOf(load[l].pages) \intersect Range(book.pages) \subseteq book'.loaded
      OBVIOUS
    <3>2. book' = [book EXCEPT !.loaded = @ \union (PagesOf(load[l].pages) \intersect Range(book.pages))]
      BY <3>1 DEF Fill
    <3>. QED  BY <3>2, <1>0 DEF Book
  <2>. QED  BY <2>1, <2>2, <2>3, <1>0 DEF TypeOK
<1>. QED  BY <1>1, <1>2

\* The book of a list of pages.
LEMMA NewBook ==
    ASSUME NEW b \in Books, NEW v \in 1..Last(b), NEW list \in Served(b, v)
    PROVE  LET new == [id |-> b, pages |-> list, loaded |-> {}]
           IN  new \in Book /\ new.loaded = {}
BY ServedIsList DEF Book

\* A step of the user or the server leaves the notes alone, turns the page
\* or puts a new book on the screen.
Renewed == \E new \in Book : new.loaded = {} /\ Replace(new)

LEMMA StepKinds ==
    ASSUME TypeOK, Forms, [Next]_vars
    PROVE  \/ Same \/ Turn \/ Renewed
           \/ Effect \/ Skip \/ Mark \/ \E l \in Loads : Fetch(l) \/ Land(l)
<1>1. CASE Browse
  BY <1>1 DEF Browse, Same
<1>2. CASE Click
  BY <1>2 DEF Click, Same
<1>3. ASSUME NEW o \in Opens, DeliverOpen(o) PROVE Same \/ Renewed
  <2>1. open[o] \in Books
    BY <1>3 DEF DeliverOpen, TypeOK
  <2>2. ASSUME NEW list \in Served(open[o], version[open[o]]),
               Replace([id |-> open[o], pages |-> list, loaded |-> {}])
        PROVE  Renewed
    BY <2>1, <2>2, NewBook DEF Renewed, TypeOK
  <2>3. CASE UNCHANGED <<book, index, refs, due, run, load, past>>
    BY <2>3 DEF Same
  <2>. QED  BY <1>3, <2>2, <2>3 DEF DeliverOpen
<1>4. CASE DeliverClick
  <2>1. CASE Stored
    <3>1. click.book \in Books
      BY <2>1 DEF Stored, Forms, NoClick
    <3>2. CASE click.kind = "drive"
      BY <2>1, <3>2 DEF Stored, Same
    <3>3. CASE click.kind # "drive"
      <4>1. PICK v \in 2..(Last(click.book) - 1) : \E list \in Served(click.book, v) :
                Replace([id |-> click.book, pages |-> list, loaded |-> {}])
        BY <2>1, <3>3 DEF Stored
      <4>2. v \in 1..Last(click.book)
        BY <3>1, LastIsNat
      <4>. QED  BY <3>1, <4>1, <4>2, NewBook DEF Renewed
    <3>. QED  BY <3>2, <3>3
  <2>2. CASE Deleted
    BY <2>2, EmptyBook DEF Deleted, Renewed, Same
  <2>3. CASE Failed
    BY <2>3 DEF Failed, Same
  <2>. QED  BY <1>4, <2>1, <2>2, <2>3 DEF DeliverClick
<1>5. CASE UNCHANGED vars
  BY <1>5 DEF vars, Same, refs, wire, past
<1>. QED  BY <1>1, <1>2, <1>3, <1>4, <1>5 DEF Next, Load

LEMMA VisitTypes ==
    ASSUME TypeOK, NEW b \in Books \union {NoBook}, Visit(b)
    PROVE  route' \in Books \union {NoBook} /\ open' \in [Opens -> Books \union {NoBook}]
BY DEF Visit, TypeOK

\* The server, the route and the calls that are not of chunks.
LEMMA OutsideTypes ==
    ASSUME TypeOK, Forms, [Next]_vars
    PROVE  /\ version' \in [Books -> Nat] /\ \A b \in Books : version'[b] \in 1..Last(b)
           /\ route' \in Books \union {NoBook}
           /\ open' \in [Opens -> Books \union {NoBook}]
           /\ click' \in Clicks /\ (click' = NoClick \/ click'.book \in Books)
<1>. DEFINE Versions == version' \in [Books -> Nat] /\ \A b \in Books : version'[b] \in 1..Last(b)
            Ways     == route' \in Books \union {NoBook} /\ open' \in [Opens -> Books \union {NoBook}]
            Buttons  == click' \in Clicks /\ (click' = NoClick \/ click'.book \in Books)
<1>1. version' = version => Versions
  BY DEF TypeOK
<1>2. route' = route /\ open' = open => Ways
  BY DEF TypeOK
<1>3. click' = click => Buttons
  BY DEF Forms
<1>4. ASSUME NEW b \in Books, NEW v \in 1..Last(b), version' = [version EXCEPT ![b] = v] PROVE Versions
  BY <1>4, LastIsNat DEF TypeOK
<1>5. CASE Browse
  <2>1. Ways
    BY <1>5, VisitTypes DEF Browse
  <2>. QED  BY <1>5, <2>1, <1>1, <1>3 DEF Browse
<1>6. CASE Click
  <2>1. Buttons
    BY <1>6 DEF Click, Clicks
  <2>. QED  BY <1>6, <2>1, <1>1, <1>2 DEF Click
<1>7. ASSUME NEW o \in Opens, DeliverOpen(o) PROVE Versions /\ Ways /\ Buttons
  <2>1. version' = version /\ route' = route /\ click' = click /\ open' = [open EXCEPT ![o] = NoBook]
    BY <1>7 DEF DeliverOpen
  <2>. QED  BY <2>1, <1>1, <1>3 DEF TypeOK
<1>8. CASE DeliverClick
  <2>0. click.book \in Books
    BY <1>8 DEF DeliverClick, Forms
  <2>1. Buttons
    BY <1>8 DEF DeliverClick, NoClick, Clicks
  <2>2. CASE Stored
    <3>1. PICK v \in 2..(Last(click.book) - 1) : version' = [version EXCEPT ![click.book] = v]
      BY <2>2 DEF Stored
    <3>2. v \in 1..Last(click.book)
      BY <2>0, LastIsNat
    <3>3. Ways
      BY <2>0, <2>2, <1>2, VisitTypes DEF Stored
    <3>. QED  BY <3>1, <3>2, <3>3, <2>0, <2>1, <1>4
  <2>3. CASE Deleted
    <3>1. Last(click.book) \in 1..Last(click.book)
      BY <2>0, LastIsNat
    <3>2. version' = [version EXCEPT ![click.book] = Last(click.book)] /\ route' = route /\ open' = open
      BY <2>3 DEF Deleted
    <3>. QED  BY <3>1, <3>2, <2>0, <2>1, <1>2, <1>4
  <2>4. CASE Failed
    <3>1. version' = version \/ \E v \in 1..Last(click.book) : version' = [version EXCEPT ![click.book] = v]
      <4>1. version[click.book] \in 1..Last(click.book)
        BY <2>0 DEF TypeOK
      <4>. QED  BY <4>1, <2>0, <2>4, LastIsNat DEF Failed
    <3>2. route' = route /\ open' = open
      BY <2>4 DEF Failed
    <3>. QED  BY <3>1, <3>2, <2>0, <2>1, <1>1, <1>2, <1>4
  <2>. QED  BY <1>8, <2>2, <2>3, <2>4 DEF DeliverClick
<1>9. CASE UNCHANGED vars \/ Turn \/ Load \/ \E l \in Loads : Land(l)
  <2>1. version' = version /\ route' = route /\ open' = open /\ click' = click
    BY <1>9 DEF vars, Turn, Load, Effect, Skip, Mark, Fetch, Land, wire
  <2>. QED  BY <2>1, <1>1, <1>2, <1>3
<1>. QED  BY <1>5, <1>6, <1>7, <1>8, <1>9 DEF Next

\* The book, the notes and the chunks.
Inside ==
    /\ book \in Book /\ book.loaded \subseteq Range(book.pages)
    /\ index \in Nat /\ (index = 0 \/ index < Len(book.pages))
    /\ marked \subseteq Nat /\ busy \subseteq Nat /\ fetching \subseteq Pages
    /\ due \in BOOLEAN /\ crossed \in BOOLEAN /\ refused \in BOOLEAN
    /\ run \in Runs
    /\ load \in [Loads -> Calls]
    /\ \A l \in Loads : load[l] = NoLoad <=> load[l].pages = {}

LEMMA InsideHolds == TypeOK /\ Forms => Inside
BY DEF TypeOK, Forms, Inside

LEMMA TurnTypes ==
    ASSUME Inside, Turn
    PROVE  index' \in Nat /\ (index' = 0 \/ index' < Len(book.pages))
<1>1. Len(book.pages) \in Nat
  BY DEF Inside, Book
<1>2. ASSUME NEW delta \in {-1, 1}, index' = Clamp(index + delta * Columns, Len(book.pages) - 1)
      PROVE  index' \in Nat /\ (index' = 0 \/ index' < Len(book.pages))
  <2>1. delta * Columns \in Int
    BY SizeAssumption
  <2>. DEFINE i == index + delta * Columns
  <2>2. i \in Int
    BY <2>1 DEF Inside
  <2>. HIDE DEF i
  <2>3. Clamp(i, Len(book.pages) - 1) \in Nat
        /\ (Clamp(i, Len(book.pages) - 1) = 0 \/ Clamp(i, Len(book.pages) - 1) < Len(book.pages))
    BY <1>1, <2>2 DEF Clamp
  <2>. QED  BY <1>2, <2>3 DEF i
<1>3. CASE index' \in 0..(Len(book.pages) - 1)
  BY <1>1, <1>3
<1>. QED  BY <1>2, <1>3 DEF Turn

LEMMA InsideKept ==
    ASSUME TypeOK, Forms, [Next]_vars
    PROVE  Inside'
<1>0. Inside
  BY InsideHolds
<1>1. CASE Same
  BY <1>0, <1>1 DEF Inside, Same, refs, past
<1>2. CASE Turn
  <2>1. UNCHANGED <<book, marked, busy, fetching, run, load, crossed, refused>> /\ due' = TRUE
    BY <1>2 DEF Turn, refs, past, wire
  <2>. QED  BY <1>0, <1>2, <2>1, TurnTypes DEF Inside
<1>3. CASE Renewed
  <2>1. PICK new \in Book : new.loaded = {} /\ Replace(new)
    BY <1>3 DEF Renewed
  <2>2. \A l \in Loads : load'[l] = NoLoad <=> load'[l].pages = {}
    BY <1>0, <2>1, ReplaceTypes DEF Inside
  <2>3. /\ book' \in Book /\ book'.loaded \subseteq Range(book'.pages)
        /\ index' = 0 /\ marked' = {} /\ busy' = {} /\ fetching' = {}
        /\ due' \in BOOLEAN /\ crossed' = FALSE /\ refused' \in BOOLEAN
        /\ run' \in Runs /\ load' \in [Loads -> Calls]
    BY <2>1, ReplaceTypes
  <2>. QED  BY <2>2, <2>3 DEF Inside
<1>4. CASE Effect
  <2>1. UNCHANGED <<book, index, marked, busy, fetching, load, crossed>> /\ due' = FALSE /\ refused' = FALSE
    BY <1>4 DEF Effect, refs, wire
  <2>2. run' \in Runs
    BY <1>0, <1>4, EffectTypes DEF Inside
  <2>. QED  BY <1>0, <2>1, <2>2 DEF Inside
<1>5. CASE Skip
  <2>1. UNCHANGED <<book, index, marked, busy, fetching, load, crossed, due, refused>>
    BY <1>5 DEF Skip, refs, wire, past
  <2>2. run' \in Runs
    BY <1>5, GoOnTypes DEF Skip
  <2>. QED  BY <1>0, <2>1, <2>2 DEF Inside
<1>6. CASE Mark
  <2>1. UNCHANGED <<book, index, busy, fetching, load, due, refused>>
        /\ marked' = marked \union {run.start} /\ crossed' \in BOOLEAN
    BY <1>6 DEF Mark, wire
  <2>2. run' \in Runs
    BY <1>6, GoOnTypes DEF Mark
  <2>3. run.start \in Nat
    BY DEF Forms, Runs
  <2>. QED  BY <1>0, <2>1, <2>2, <2>3 DEF Inside
<1>7. ASSUME NEW l \in Loads, Fetch(l) PROVE Inside'
  <2>1. UNCHANGED <<book, index, marked, due, refused>>
        /\ busy' = busy \union {run.start} /\ fetching' = fetching \union PagesOf(Pending) /\ crossed' \in BOOLEAN
    BY <1>7 DEF Fetch
  <2>2. run' \in Runs /\ load' \in [Loads -> Calls] /\ PagesOf(Pending) \subseteq Pages
    BY <1>7, FetchTypes DEF PagesOf
  <2>3. run.start \in Nat
    BY DEF Forms, Runs
  <2>4. \A k \in Loads : load'[k] = NoLoad <=> load'[k].pages = {}
    <3>1. load'[l] # NoLoad /\ load'[l].pages # {}
      BY <1>7, FetchTypes DEF Fetch
    <3>2. \A k \in Loads : k # l => load'[k] = load[k]
      BY <1>7, FetchTypes
    <3>. QED  BY <1>0, <3>1, <3>2 DEF Inside
  <2>. QED  BY <1>0, <2>1, <2>2, <2>3, <2>4 DEF Inside
<1>8. ASSUME NEW l \in Loads, Land(l) PROVE Inside'
  <2>1. UNCHANGED index /\ busy' = busy \ {load[l].start} /\ fetching' = fetching \ PagesOf(load[l].pages)
        /\ load' = [load EXCEPT ![l] = NoLoad] /\ (Fill(l) \/ Refuse(l))
    BY <1>8 DEF Land
  <2>2. run' \in Runs
    BY <1>0, <1>8, GoOnTypes DEF Land, Inside
  <2>3. /\ book' \in Book /\ book'.pages = book.pages /\ book'.loaded \subseteq Range(book.pages)
        /\ marked' \subseteq marked \union {load[l].start}
        /\ due' \in BOOLEAN /\ crossed' \in BOOLEAN /\ refused' \in BOOLEAN
    BY <2>1, FillTypes
  <2>4. load[l].start \in Nat
    BY <1>0 DEF Inside, Calls
  <2>5. load' \in [Loads -> Calls]
    <3>1. NoLoad \in Calls
      BY DEF NoLoad, Calls
    <3>. QED  BY <1>0, <2>1, <3>1 DEF Inside
  <2>6. \A k \in Loads : load'[k] = NoLoad <=> load'[k].pages = {}
    BY <1>0, <2>1 DEF Inside, NoLoad
  <2>. QED  BY <1>0, <2>1, <2>2, <2>3, <2>4, <2>5, <2>6 DEF Inside
<1>. QED  BY <1>1, <1>2, <1>3, <1>4, <1>5, <1>6, <1>7, <1>8, StepKinds

LEMMA Typing ==
    ASSUME TypeOK, Forms, [Next]_vars
    PROVE  TypeOK' /\ Forms'
<1>1. Inside'
  BY InsideKept
<1>2. /\ version' \in [Books -> Nat] /\ \A b \in Books : version'[b] \in 1..Last(b)
      /\ route' \in Books \union {NoBook}
      /\ open' \in [Opens -> Books \union {NoBook}]
      /\ click' \in Clicks /\ (click' = NoClick \/ click'.book \in Books)
  BY OutsideTypes
<1>3. run'.at \in {"rest", "now"} \union Loads /\ book'.id \in Books \union {NoBook}
      /\ \A l \in Loads : load'[l].pages \subseteq Nat \X Pages
  BY <1>1 DEF Inside, Runs, Book, Calls
<1>4. TypeOK'
  BY <1>1, <1>2, <1>3 DEF TypeOK, Inside
<1>. QED  BY <1>1, <1>2, <1>4 DEF Inside, Forms

-----------------------------------------------------------------------------
(* Starts and owners.                                                      *)

LEMMA StraightKept ==
    ASSUME TypeOK, Forms, Straight, [Next]_vars
    PROVE  Straight'
<1>1. CASE Same \/ Turn
  BY <1>1 DEF Same, Turn, wire, Straight, Aligned
<1>2. CASE Renewed
  <2>1. run'.start = run.start /\ \A l \in Loads : load'[l].start = load[l].start
    BY <1>2, ReplaceTypes DEF Renewed
  <2>. QED  BY <2>1 DEF Straight, Aligned
<1>3. CASE Effect
  <2>1. Aligned(run'.start) /\ load' = load
    BY <1>3, EffectTypes DEF Effect, wire, TypeOK
  <2>. QED  BY <2>1 DEF Straight, Aligned
<1>4. CASE Skip \/ Mark
  <2>1. Aligned(run'.start) /\ load' = load
    BY <1>4, GoOnTypes DEF Skip, Mark, wire, Straight
  <2>. QED  BY <2>1 DEF Straight, Aligned
<1>5. ASSUME NEW l \in Loads, Fetch(l) PROVE Straight'
  <2>1. Aligned(run'.start) /\ load'[l].start = run.start /\ \A k \in Loads : k # l => load'[k] = load[k]
    BY <1>5, FetchTypes DEF Straight
  <2>. QED  BY <2>1 DEF Straight, Aligned
<1>6. ASSUME NEW l \in Loads, Land(l) PROVE Straight'
  <2>1. Aligned(run'.start)
    BY <1>6, GoOnTypes DEF Land, Straight
  <2>2. \A k \in Loads : load'[k] = IF k = l THEN NoLoad ELSE load[k]
    BY <1>6 DEF Land, Forms
  <2>3. \A k \in Loads : Aligned(load'[k].start)
    BY <2>2, StartZero DEF NoLoad, Straight
  <2>. QED  BY <2>1, <2>3 DEF Straight, Aligned
<1>. QED  BY <1>1, <1>2, <1>3, <1>4, <1>5, <1>6, StepKinds

\* The book stays the one that the function, or the load, is for.
LEMMA OwnersKept ==
    ASSUME TypeOK, Forms, OwnRun, OwnLoads, [Next]_vars
    PROVE  OwnRun' /\ OwnLoads'
<1>1. CASE Same \/ Turn
  <2>1. UNCHANGED <<book, run, load>>
    BY <1>1 DEF Same, Turn, wire
  <2>. QED  BY <2>1 DEF OwnRun, OwnLoads, Chunk, Slice
<1>2. CASE Renewed
  <2>1. run'.mine = FALSE /\ \A l \in Loads : load'[l].mine = FALSE
    BY <1>2, ReplaceTypes DEF Renewed
  <2>. QED  BY <2>1 DEF OwnRun, OwnLoads
<1>3. CASE Effect
  <2>1. book' = book /\ load' = load /\ (run'.mine => run'.book = book)
    BY <1>3, EffectTypes DEF Effect, wire, TypeOK
  <2>. QED  BY <2>1 DEF OwnRun, OwnLoads, Chunk, Slice
<1>4. CASE Skip \/ Mark
  <2>1. book' = book /\ load' = load /\ (run'.mine => run.mine /\ run'.book = run.book)
    BY <1>4, GoOnTypes DEF Skip, Mark, wire
  <2>. QED  BY <2>1 DEF OwnRun, OwnLoads, Chunk, Slice
<1>5. ASSUME NEW l \in Loads, Fetch(l) PROVE OwnRun' /\ OwnLoads'
  <2>1. book' = book /\ (run'.mine => run.mine /\ run'.book = run.book)
    BY <1>5, FetchTypes DEF Fetch
  <2>2. load'[l].mine => load'[l].book = book.id /\ PagesOf(load'[l].pages) \subseteq Chunk(book, load'[l].start)
    <3>1. load'[l].book = run.book.id /\ load'[l].start = run.start /\ load'[l].pages = Pending
          /\ load'[l].mine = run.mine
      BY <1>5, FetchTypes
    <3>2. run.mine => PagesOf(Pending) \subseteq Chunk(book, run.start)
      BY PendingPages, SamePages DEF OwnRun
    <3>. QED  BY <3>1, <3>2 DEF OwnRun
  <2>3. \A k \in Loads : k # l => load'[k] = load[k]
    BY <1>5, FetchTypes
  <2>. QED  BY <2>1, <2>2, <2>3 DEF OwnRun, OwnLoads, Chunk, Slice
<1>6. ASSUME NEW l \in Loads, Land(l) PROVE OwnRun' /\ OwnLoads'
  <2>1. book'.id = book.id /\ book'.pages = book.pages /\ book.loaded \subseteq book'.loaded
    BY <1>6, FillTypes DEF Land
  <2>2. run'.mine => run.mine /\ run'.book = run.book
    BY <1>6, GoOnTypes DEF Land
  <2>3. \A k \in Loads : load'[k].mine => load'[k] = load[k]
    BY <1>6 DEF Land, Forms, NoLoad
  <2>. QED  BY <2>1, <2>2, <2>3 DEF OwnRun, OwnLoads, Chunk, Slice
<1>. QED  BY <1>1, <1>2, <1>3, <1>4, <1>5, <1>6, StepKinds

-----------------------------------------------------------------------------
(* Notes.                                                                  *)

Notes == Noted /\ Fetched /\ Honest

\* What is on the wire is in no chunk that is not noted, but for pages the
\* book has twice.
LEMMA NothingPending ==
    ASSUME IInv, Notes, run.mine, ~Known
    PROVE  Chunk(book, run.start) \intersect fetching \subseteq Doubled
<1>1. SUFFICES ASSUME NEW p \in Chunk(book, run.start), p \in fetching PROVE p \in Doubled
  OBVIOUS
<1>2. PICK l \in Loads : load[l].mine /\ p \in PagesOf(load[l].pages)
  BY <1>1 DEF Notes, Fetched
<1>3. p \in Chunk(book, load[l].start)
  BY <1>2 DEF IInv, OwnLoads
<1>4. load[l].start # run.start
  BY <1>2 DEF Notes, Noted, Known
<1>5. load[l].start \in Nat /\ run.start \in Nat /\ Aligned(load[l].start) /\ Aligned(run.start)
  BY DEF IInv, Forms, Straight, Calls, Runs
<1>. QED  BY <1>1, <1>3, <1>4, <1>5, ChunksApart DEF IInv, Forms

\* What the call is for is what the chunk lacks and is not on the wire.
LEMMA PendingIsRest ==
    ASSUME IInv, Notes, run.mine, ~Known
    PROVE  /\ Chunk(book, run.start) \ Doubled \subseteq book.loaded \union PagesOf(Pending)
           /\ PagesOf(Pending) \intersect fetching = {}
<1>1. run.book.pages = book.pages /\ run.book.loaded \subseteq book.loaded
  BY DEF IInv, OwnRun
<1>2. PagesOf(Pending) = Chunk(book, run.start) \ (run.book.loaded \union fetching)
  BY <1>1, PendingPages, SamePages
<1>. QED  BY <1>1, <1>2, NothingPending

\* The answer to a load of its own completes the chunk.
LEMMA OwnFill ==
    ASSUME IInv, Notes, NEW l \in Loads, load[l].mine, Fill(l)
    PROVE  Chunk(book, load[l].start) \ Doubled \subseteq book'.loaded
<1>1. load[l].book = book.id /\ PagesOf(load[l].pages) \subseteq Chunk(book, load[l].start)
  BY DEF IInv, OwnLoads
<1>2. PagesOf(load[l].pages) \intersect Range(book.pages) \subseteq book'.loaded /\ book.loaded \subseteq book'.loaded
  BY <1>1, FillTypes DEF IInv
<1>3. Chunk(book, load[l].start) \ Doubled \subseteq book.loaded \union PagesOf(load[l].pages)
  BY DEF Notes, Noted
<1>. QED  BY <1>1, <1>2, <1>3, ChunkInBook

LEMMA NotesKept ==
    ASSUME IInv, [Next]_vars, ~crossed'
    PROVE  Notes'
<1>1. CASE Same \/ Turn
  <2>1. UNCHANGED <<book, marked, busy, fetching, load, crossed>>
    BY <1>1 DEF Same, Turn, refs, wire, past
  <2>2. Notes
    BY <2>1 DEF IInv, Notes
  <2>. QED  BY <2>1, <2>2 DEF Notes, Noted, Fetched, Honest, Chunk, Slice, Doubled
<1>2. CASE Renewed
  <2>1. marked' = {} /\ fetching' = {} /\ \A l \in Loads : load'[l].mine = FALSE
    BY <1>2, ReplaceTypes DEF Renewed, IInv
  <2>. QED  BY <2>1 DEF Notes, Noted, Fetched, Honest
<1>3. CASE Effect \/ Skip
  <2>1. UNCHANGED <<book, marked, busy, fetching, load, crossed>>
    BY <1>3 DEF Effect, Skip, refs, wire, past
  <2>2. Notes
    BY <2>1 DEF IInv, Notes
  <2>. QED  BY <2>1, <2>2 DEF Notes, Noted, Fetched, Honest, Chunk, Slice, Doubled
<1>4. CASE Mark
  <2>1. UNCHANGED <<book, busy, fetching, load>> /\ marked' = marked \union {run.start}
        /\ ~crossed /\ run.mine /\ ~Known /\ Pending = {}
    BY <1>4 DEF Mark, wire
  <2>2. Notes
    BY <2>1 DEF IInv, Notes
  <2>3. Chunk(book, run.start) \ Doubled \subseteq book.loaded
    BY <2>1, <2>2, PendingIsRest DEF PagesOf
  <2>. QED  BY <2>1, <2>2, <2>3 DEF Notes, Noted, Fetched, Honest, Chunk, Slice, Doubled
<1>5. ASSUME NEW l \in Loads, Fetch(l) PROVE Notes'
  <2>1. UNCHANGED <<book, marked>> /\ busy' = busy \union {run.start} /\ fetching' = fetching \union PagesOf(Pending)
        /\ ~crossed /\ run.mine /\ ~Known /\ ~load[l].mine
    <3>1. ~load[l].mine
      BY <1>5 DEF Fetch, NoLoad
    <3>2. crossed' = (crossed \/ ~run.mine)
      BY <1>5 DEF Fetch
    <3>. QED  BY <3>1, <3>2, <1>5 DEF Fetch
  <2>2. Notes
    BY <2>1 DEF IInv, Notes
  <2>3. load'[l].start = run.start /\ load'[l].pages = Pending /\ load'[l].mine
        /\ \A k \in Loads : k # l => load'[k] = load[k]
    BY <1>5, <2>1, FetchTypes DEF IInv
  <2>4. Chunk(book, run.start) \ Doubled \subseteq book.loaded \union PagesOf(Pending)
        /\ PagesOf(Pending) \intersect fetching = {}
    BY <2>1, <2>2, PendingIsRest
  <2>5. \A k \in Loads : k # l /\ load[k].mine => load[k].start # run.start
    BY <2>1, <2>2 DEF Notes, Noted, Known
  <2>6. Noted'
    <3>1. \A k \in Loads : load'[k].mine =>
              /\ load'[k].start \in busy' \union marked'
              /\ PagesOf(load'[k].pages) \subseteq fetching'
              /\ Chunk(book, load'[k].start) \ Doubled \subseteq book.loaded \union PagesOf(load'[k].pages)
      BY <2>1, <2>2, <2>3, <2>4 DEF Notes, Noted
    <3>2. \A j, k \in Loads : j # k /\ load'[j].mine /\ load'[k].mine => load'[j].start # load'[k].start
      BY <2>2, <2>3, <2>5 DEF Notes, Noted
    <3>3. ASSUME NEW j \in Loads, NEW k \in Loads, j # k, load'[j].mine, load'[k].mine
          PROVE  PagesOf(load'[j].pages) \intersect PagesOf(load'[k].pages) = {}
      <4>1. \A i \in Loads : i # l /\ load'[i].mine => PagesOf(load'[i].pages) \subseteq fetching
        BY <2>2, <2>3 DEF Notes, Noted
      <4>2. CASE j = l
        BY <2>3, <2>4, <3>3, <4>1, <4>2
      <4>3. CASE k = l
        BY <2>3, <2>4, <3>3, <4>1, <4>3
      <4>4. CASE j # l /\ k # l
        BY <2>2, <2>3, <3>3, <4>4 DEF Notes, Noted
      <4>. QED  BY <4>2, <4>3, <4>4
    <3>4. Doubled' = Doubled /\ \A t : Chunk(book', t) = Chunk(book, t)
      BY <2>1 DEF Doubled
    <3>. QED  BY <3>1, <3>2, <3>3, <3>4, <2>1 DEF Noted
  <2>7. Fetched'
    BY <2>1, <2>2, <2>3 DEF Notes, Fetched
  <2>8. Honest'
    BY <2>1, <2>2 DEF Notes, Honest, Chunk, Slice, Doubled
  <2>. QED  BY <2>6, <2>7, <2>8 DEF Notes
<1>6. ASSUME NEW l \in Loads, Land(l) PROVE Notes'
  <2>1. /\ busy' = busy \ {load[l].start} /\ fetching' = fetching \ PagesOf(load[l].pages)
        /\ Fill(l) \/ Refuse(l)
        /\ \A k \in Loads : load'[k] = IF k = l THEN NoLoad ELSE load[k]
    BY <1>6 DEF Land, IInv, Forms
  <2>2. /\ book'.pages = book.pages /\ book.loaded \subseteq book'.loaded /\ ~crossed
        /\ marked \subseteq marked' /\ marked' \subseteq marked \union {load[l].start}
    BY <2>1, FillTypes DEF IInv
  <2>3. Notes
    BY <2>2 DEF IInv, Notes
  <2>4. ASSUME Fill(l)
        PROVE  Chunk(book, load[l].start) \ Doubled \subseteq book'.loaded /\ load[l].start \in marked'
    BY <2>2, <2>3, <2>4, OwnFill DEF Fill
  <2>5. Refuse(l) => load[l].mine /\ marked' = marked
    BY DEF Refuse
  <2>6. Doubled' = Doubled /\ \A s : Chunk(book', s) = Chunk(book, s)
    BY <2>2, SamePages DEF Doubled
  <2>7. \A k \in Loads : load'[k].mine => k # l /\ load[k].mine /\ load'[k] = load[k]
    BY <2>1 DEF NoLoad
  <2>8. Noted'
    <3>1. ASSUME NEW k \in Loads, load'[k].mine
          PROVE  load'[k].start \in busy' \union marked'
      <4>1. k # l /\ load[k].mine /\ load'[k] = load[k]
        BY <2>7, <3>1
      <4>2. load[k].start \in busy \union marked
        BY <4>1, <2>3 DEF Notes, Noted
      <4>3. Refuse(l) => load[k].start # load[l].start
        BY <4>1, <2>3, <2>5 DEF Notes, Noted
      <4>. QED  BY <4>1, <4>2, <4>3, <2>1, <2>2, <2>4
    <3>2. \A k \in Loads : load'[k].mine =>
              Chunk(book, load'[k].start) \ Doubled \subseteq book'.loaded \union PagesOf(load'[k].pages)
      BY <2>2, <2>3, <2>7 DEF Notes, Noted
    <3>3. ASSUME NEW k \in Loads, load'[k].mine
          PROVE  PagesOf(load'[k].pages) \subseteq fetching'
      <4>1. k # l /\ load[k].mine /\ load'[k] = load[k]
        BY <2>7, <3>3
      <4>2. PagesOf(load[k].pages) \subseteq fetching
        BY <4>1, <2>3 DEF Notes, Noted
      <4>3. PagesOf(load[k].pages) \intersect PagesOf(load[l].pages) = {}
        <5>1. CASE load[l].mine
          BY <4>1, <5>1, <2>3 DEF Notes, Noted
        <5>2. CASE ~load[l].mine
          BY <4>1, <5>2, <2>1, <2>2, <2>5 DEF Fill, Apart
        <5>. QED  BY <5>1, <5>2
      <4>. QED  BY <4>1, <4>2, <4>3, <2>1
    <3>4. \A j, k \in Loads : j # k /\ load'[j].mine /\ load'[k].mine =>
              /\ load'[j].start # load'[k].start
              /\ PagesOf(load'[j].pages) \intersect PagesOf(load'[k].pages) = {}
      BY <2>3, <2>7 DEF Notes, Noted
    <3>. QED  BY <3>1, <3>2, <3>3, <3>4, <2>6 DEF Noted
  <2>9. Fetched'
    <3>1. ASSUME NEW p \in fetching' PROVE \E k \in Loads : load'[k].mine /\ p \in PagesOf(load'[k].pages)
      <4>1. PICK k \in Loads : load[k].mine /\ p \in PagesOf(load[k].pages)
        BY <2>1, <2>3, <3>1 DEF Notes, Fetched
      <4>2. k # l
        BY <2>1, <3>1, <4>1
      <4>. QED  BY <2>1, <4>1, <4>2
    <3>. QED  BY <3>1 DEF Fetched
  <2>10. Honest'
    <3>1. \A s \in marked' : Chunk(book, s) \ Doubled \subseteq book'.loaded
      BY <2>1, <2>2, <2>3, <2>4, <2>5 DEF Notes, Honest
    <3>2. \A s \in marked' : Chunk(book', s) \ Doubled' \subseteq book'.loaded
      BY <3>1, <2>6
    <3>. QED  BY <3>2 DEF Honest
  <2>. QED  BY <2>8, <2>9, <2>10 DEF Notes
<1>. QED  BY <1>1, <1>2, <1>3, <1>4, <1>5, <1>6, StepKinds DEF IInv

-----------------------------------------------------------------------------
LEMMA Starting == Init => IInv
<1>. SUFFICES ASSUME Init PROVE IInv
  OBVIOUS
<1>. USE DEF Init
<1>1. Forms
  <2>1. Nothing \in Book /\ NoLoad \in Calls
    BY EmptyBook DEF NoLoad, Calls
  <2>2. Resting \in Runs /\ NoClick \in Clicks
    BY <2>1 DEF Resting, Runs, NoClick, Clicks
  <2>. QED  BY <2>1, <2>2 DEF Forms
<1>2. TypeOK
  <2>1. version \in [Books -> Nat] /\ \A b \in Books : version[b] \in 1..Last(b)
    BY LastIsNat
  <2>2. book.id \in Books \union {NoBook} /\ book.loaded \subseteq Range(book.pages)
    BY DEF Nothing
  <2>3. run.at \in {"rest", "now"} \union Loads
    BY DEF Resting
  <2>4. \A l \in Loads : load[l].pages \subseteq Nat \X Pages /\ (load[l] = NoLoad <=> load[l].pages = {})
    BY DEF NoLoad
  <2>. QED  BY <2>1, <2>2, <2>3, <2>4 DEF TypeOK
<1>3. Straight
  BY StartZero DEF Straight, Resting, NoLoad
<1>4. OwnRun /\ OwnLoads
  BY DEF OwnRun, OwnLoads, Resting, NoLoad
<1>5. Noted /\ Fetched /\ Honest
  BY DEF Noted, Fetched, Honest, NoLoad
<1>. QED  BY <1>1, <1>2, <1>3, <1>4, <1>5 DEF IInv

LEMMA Inductive == IInv /\ [Next]_vars => IInv'
<1>. SUFFICES ASSUME IInv, [Next]_vars PROVE IInv'
  OBVIOUS
<1>1. TypeOK' /\ Forms'
  BY Typing DEF IInv
<1>2. Straight' /\ OwnRun' /\ OwnLoads'
  BY StraightKept, OwnersKept DEF IInv
<1>3. crossed' \/ (Noted' /\ Fetched' /\ Honest')
  BY NotesKept DEF Notes
<1>. QED  BY <1>1, <1>2, <1>3 DEF IInv

LEMMA Always == Spec => []IInv
BY Starting, Inductive, PTL DEF Spec

-----------------------------------------------------------------------------
\* Every value of the variables has its type; in particular the page shown
\* is one of the book's, and a load that ended left nothing behind.
THEOREM TypeCorrect == Spec => []TypeOK
<1>1. IInv => TypeOK
  BY DEF IInv
<1>. QED  BY <1>1, Always, PTL

\* loadedCatalogChunkStartsRef names only chunks whose pages are in the book,
\* but for pages the book has twice, unless an earlier book has spoilt it:
\* the effect, which skips these chunks, leaves no page out.  Whatever lists
\* the server answers with.
THEOREM MarksAreHonest == Spec => []MarksHonest
<1>1. IInv => MarksHonest
  BY DEF IInv, Honest, MarksHonest
<1>. QED  BY <1>1, Always, PTL

\* No two calls of loadCatalogChunk for the book have a page in common,
\* however turns, cancelled effects and answers overlap, and however often
\* the book has the page.
THEOREM PagesFetchedOnce == Spec => []OneFetchPerPage
<1>1. IInv => OneFetchPerPage
  BY DEF IInv, Noted, OneFetchPerPage
<1>. QED  BY <1>1, Always, PTL
=============================================================================
