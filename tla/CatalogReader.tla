---------------------------- MODULE CatalogReader ----------------------------
(***************************************************************************)
(* The book view of App.tsx.  The route names a catalog; its detail is     *)
(* fetched and becomes the book; an effect loads the chunk of the page     *)
(* shown, and then the chunk after it.  Details, chunks and the answers to *)
(* clicks arrive in any order, also for a book the user has left.          *)
(*                                                                         *)
(* The detail may be one that Redis holds: it may lag behind the catalog,  *)
(* and hold a page twice that was added beside it.                         *)
(*                                                                         *)
(* JavaScript runs to completion: between two awaits nothing else happens. *)
(* The effect runs some time after the state it depends on has changed.    *)
(* The session, and the list of catalogs beside the book, are left out.    *)
(***************************************************************************)
EXTENDS Integers, Sequences, FiniteSets, Functions

CONSTANTS
    Books,          \* catalogs
    NoBook,         \* no catalog
    Kept,           \* catalogs created before the page was loaded
    Lists,          \* the pages of a catalog, from one change to the next
    ChunkSize,      \* catalogChunkSize
    Columns,        \* pages shown at a time: 2, on a narrow screen 1
    Opens,          \* bound: details on the wire at a time
    Loads,          \* bound: chunks on the wire at a time
    Faults          \* {"lost"}: a call may fail; {}: none does

\* The first list stands for a catalog that is not created yet, the last one
\* for one that is deleted.
Last(b) == Len(Lists[b])

Pages == UNION {UNION {Range(Lists[b][v]) : v \in 1..Last(b)} : b \in Books}

ASSUME BookAssumption  == NoBook \notin Books /\ Kept \subseteq Books
ASSUME SizeAssumption  == ChunkSize \in Nat \ {0} /\ Columns \in {1, 2}
ASSUME ListsAssumption == \A b \in Books : Lists[b] \in Seq(Seq(Pages)) /\ Last(b) > 2

VARIABLES
    version,    \* the server: which of its lists a catalog has
    route,      \* catalogRouteID
    book,       \* catalogBook; "loaded" are the pages with a source
    index,      \* catalogPageIndex
    marked,     \* loadedCatalogChunkStartsRef
    busy,       \* loadingCatalogChunkStartsRef
    fetching,   \* loadingCatalogPageIDsRef
    due,        \* the effect has to run again
    run,        \* the function the last effect started
    open,       \* calls of loadCatalog on the wire
    click,      \* the call of a button: "loading" disables them all
    load,       \* calls of loadCatalogChunk on the wire
    crossed,    \* history: an earlier book has spoilt the marks of this one
    refused     \* history: a chunk failed since the effect last ran

vars == <<version, route, book, index, marked, busy, fetching, due, run, open, click, load,
          crossed, refused>>
refs == <<marked, busy, fetching>>
wire == <<open, click, load>>
past == <<crossed, refused>>

Nothing == [id |-> NoBook, pages |-> <<>>, loaded |-> {}]
Resting == [at |-> "rest", book |-> Nothing, start |-> 0, last |-> TRUE, mine |-> FALSE]
NoClick == [kind |-> "none", book |-> NoBook, shown |-> FALSE]
NoLoad  == [book |-> NoBook, start |-> 0, pages |-> {}, mine |-> FALSE]

Init ==
    /\ version = [b \in Books |-> IF b \in Kept THEN 2 ELSE 1]
    /\ route = NoBook
    /\ book = Nothing
    /\ index = 0
    /\ marked = {}
    /\ busy = {}
    /\ fetching = {}
    /\ due = FALSE
    /\ run = Resting
    /\ open = [o \in Opens |-> NoBook]
    /\ click = NoClick
    /\ load = [l \in Loads |-> NoLoad]
    /\ crossed = FALSE
    /\ refused = FALSE

Gone(b) == version[b] \in {1, Last(b)}

\* The last list a catalog had.
Newest(b, v) == IF v = Last(b) THEN Last(b) - 1 ELSE v

\* Pages that were appended to the cached detail, in any order.
Tails(b, v) ==
    LET added == Range(Lists[b][Newest(b, v)]) \ Range(Lists[b][2])
    IN  UNION {Injection(1..n, added) : n \in 0..Cardinality(added)}

\* What GET may answer when the catalog has list v: what the database had at
\* some time, from there or from the cache, and what was appended to it.  The
\* content of the cache outlives the catalog.
Served(b, v) == {Lists[b][w] \o tail : w \in 2..Newest(b, v), tail \in Tails(b, v)}

\* No function is between two awaits.
Quiet == run.at # "now"

Slice(b, start, size) == {i \in DOMAIN b.pages : start < i /\ i <= start + size}
Chunk(b, start) == {b.pages[i] : i \in Slice(b, start, ChunkSize)}

\* The pages of some entries of a list, each with its place there.
PagesOf(entries) == {e[2] : e \in entries}

-----------------------------------------------------------------------------
(* The user.                                                               *)

\* The route changes, and its effect calls loadCatalog.
Visit(b) ==
    /\ route' = b
    /\ IF b \in {NoBook, route}
       THEN UNCHANGED open
       ELSE \E o \in Opens : open[o] = NoBook /\ open' = [open EXCEPT ![o] = b]

\* A tab, or the buttons of the browser: also to a catalog that is deleted.
Browse ==
    /\ Quiet
    /\ \E b \in {x \in Books : version[x] > 1} \union {NoBook} : b # route /\ Visit(b)
    /\ UNCHANGED <<version, book, index, refs, due, run, click, load, past>>

Clamp(i, high) == IF i > high THEN (IF high < 0 THEN 0 ELSE high) ELSE IF i < 0 THEN 0 ELSE i

\* moveCatalog, by a button or a swipe; in the tab, a step or a jump to any
\* page.
Turn ==
    /\ Quiet
    /\ book # Nothing
    /\ \/ /\ route # NoBook
          /\ \E delta \in {-1, 1} : index' = Clamp(index + delta * Columns, Len(book.pages) - 1)
       \/ /\ route = NoBook
          /\ index' \in 0..(Len(book.pages) - 1)
    /\ index' # index
    /\ due' = TRUE
    /\ UNCHANGED <<version, route, book, refs, run, wire, past>>

\* The buttons of the other tabs.
Click ==
    /\ Quiet
    /\ route = NoBook
    /\ click = NoClick
    /\ \E b \in Books, kind \in {"drive", "create", "upload", "delete"} :
          /\ kind \in {"drive", "create"} <=> version[b] = 1
          /\ click' = [kind |-> kind, book |-> b, shown |-> kind = "delete" /\ book.id = b]
    /\ UNCHANGED <<version, route, book, index, refs, due, run, open, load, past>>

-----------------------------------------------------------------------------
(* Details arrive.                                                         *)

\* replaceCatalog(createCatalogBook(...)): the chunks on the wire go on.
Replace(new) ==
    /\ book' = new
    /\ index' = 0
    /\ marked' = {}
    /\ busy' = {}
    /\ fetching' = {}
    /\ due' = TRUE
    /\ run' = [run EXCEPT !.mine = FALSE]
    /\ load' = [l \in Loads |-> [load[l] EXCEPT !.mine = FALSE]]
    /\ crossed' = FALSE
    /\ refused' = FALSE

DeliverOpen(o) ==
    /\ Quiet
    /\ open[o] # NoBook
    /\ open' = [open EXCEPT ![o] = NoBook]
    /\ \/ \E list \in Served(open[o], version[open[o]]) :
             Replace([id |-> open[o], pages |-> list, loaded |-> {}])
       \/ /\ "lost" \in Faults \/ Gone(open[o])
          /\ UNCHANGED <<book, index, refs, due, run, load, past>>
    /\ UNCHANGED <<version, route, click>>

\* The files of a click are uploaded one by one; they may all be there.  A
\* new catalog is visited, and one made from a Drive folder only that.
Stored ==
    LET b == click.book
    IN  /\ click.kind \in {"drive", "create", "upload"}
        /\ \E v \in 2..(Last(b) - 1) :
              /\ v >= version[b]
              /\ version' = [version EXCEPT ![b] = v]
              /\ IF click.kind = "drive"
                 THEN UNCHANGED <<book, index, refs, due, run, load, past>>
                 ELSE \E list \in Served(b, v) : Replace([id |-> b, pages |-> list, loaded |-> {}])
        /\ IF click.kind = "upload" THEN UNCHANGED <<route, open>> ELSE Visit(b)

\* A deleted catalog is closed if it was the book when its button was clicked.
Deleted ==
    /\ click.kind = "delete"
    /\ ~Gone(click.book)
    /\ version' = [version EXCEPT ![click.book] = Last(click.book)]
    /\ IF click.shown
       THEN Replace(Nothing)
       ELSE UNCHANGED <<book, index, refs, due, run, load, past>>
    /\ UNCHANGED <<route, open>>

\* A call fails; the server may have done its part, or some of it.
Failed ==
    LET b == click.book
    IN  /\ "lost" \in Faults \/ version[b] = Last(b)
        /\ \/ UNCHANGED version
           \/ \E v \in (version[b] + 1)..Last(b) :
                 /\ click.kind = "delete" <=> v = Last(b)
                 /\ version' = [version EXCEPT ![b] = v]
        /\ UNCHANGED <<route, open, book, index, refs, due, run, load, past>>

DeliverClick ==
    /\ Quiet
    /\ click # NoClick
    /\ Stored \/ Deleted \/ Failed
    /\ click' = NoClick

-----------------------------------------------------------------------------
(* The effect and the function it starts.                                  *)

StartOf(i) == (i \div ChunkSize) * ChunkSize

\* An effect that runs again cancels the function it started before.
Effect ==
    /\ Quiet
    /\ due
    /\ \E l \in Loads : load[l] = NoLoad
    /\ due' = FALSE
    /\ run' = IF book = Nothing THEN Resting
              ELSE [at |-> "now", book |-> book, start |-> StartOf(index), last |-> FALSE, mine |-> TRUE]
    /\ refused' = FALSE
    /\ UNCHANGED <<version, route, book, index, refs, wire, crossed>>

\* Mutant: only a full chunk is loaded ahead.
MoreFull == ~run.last /\ run.start + 2 * ChunkSize <= Len(run.book.pages)

\* The chunk after the one of the page shown is loaded too.
More == ~run.last /\ run.start + ChunkSize < Len(run.book.pages)
GoOn ==
    run' = IF More THEN [run EXCEPT !.at = "now", !.start = run.start + ChunkSize, !.last = TRUE]
                   ELSE Resting

Known == run.start \in marked \union busy

\* Mutant: a page on the wire is pending for another chunk.
PendingWired ==
    {<<i, run.book.pages[i]>> : i \in
        {k \in Slice(run.book, run.start, ChunkSize) : run.book.pages[k] \notin run.book.loaded}}

\* A page that is in the chunk twice is pending twice.
Pending ==
    {<<i, run.book.pages[i]>> : i \in
        {k \in Slice(run.book, run.start, ChunkSize) : run.book.pages[k] \notin run.book.loaded \union fetching}}

Skip ==
    /\ run.at = "now"
    /\ Known
    /\ GoOn
    /\ UNCHANGED <<version, route, book, index, refs, due, wire, past>>

Mark ==
    /\ run.at = "now"
    /\ ~Known
    /\ Pending = {}
    /\ marked' = marked \union {run.start}
    /\ crossed' = (crossed \/ ~run.mine)
    /\ GoOn
    /\ UNCHANGED <<version, route, book, index, busy, fetching, due, wire, refused>>

Fetch(l) ==
    /\ run.at = "now"
    /\ ~Known
    /\ Pending # {}
    /\ load[l] = NoLoad
    /\ load' = [load EXCEPT ![l] =
          [book |-> run.book.id, start |-> run.start, pages |-> Pending, mine |-> run.mine]]
    /\ busy' = busy \union {run.start}
    /\ fetching' = fetching \union PagesOf(Pending)
    /\ run' = IF More THEN [run EXCEPT !.at = l] ELSE Resting
    /\ crossed' = (crossed \/ ~run.mine)
    /\ UNCHANGED <<version, route, book, index, marked, due, open, click, refused>>

\* The end of a call for an earlier book takes no note of this one away.
Apart(l) ==
    \A k \in Loads \ {l} : load[k].mine => PagesOf(load[k].pages) \intersect PagesOf(load[l].pages) = {}

\* The pages go into the book if it is still theirs; the chunk is marked in
\* any case.
Fill(l) ==
    LET b == book.id = load[l].book
    IN  /\ book' = IF b THEN [book EXCEPT !.loaded =
                                  @ \union (PagesOf(load[l].pages) \intersect Range(book.pages))]
                        ELSE book
        /\ due' = (due \/ b)
        /\ marked' = marked \union {load[l].start}
        /\ crossed' = (crossed \/ (/\ ~load[l].mine
                                  /\ ~(b /\ Chunk(book, load[l].start) \subseteq book'.loaded /\ Apart(l))))
        /\ UNCHANGED refused

\* Mutant: a chunk is marked whether its pages came or not.
RefuseMarked(l) ==
    /\ "lost" \in Faults \/ Gone(load[l].book)
    /\ refused' = (refused \/ load[l].mine)
    /\ crossed' = (crossed \/ ~load[l].mine)
    /\ marked' = marked \union {load[l].start}
    /\ UNCHANGED <<book, due>>

\* One page that fails fails its chunk.
Refuse(l) ==
    /\ "lost" \in Faults \/ Gone(load[l].book)
    /\ refused' = (refused \/ load[l].mine)
    /\ crossed' = (crossed \/ ~load[l].mine)
    /\ UNCHANGED <<book, due, marked>>

\* Mutant: a chunk that failed stays noted as on the wire.
LandNoted(l) ==
    /\ Quiet
    /\ load[l] # NoLoad
    /\ \/ Fill(l) /\ busy' = busy \ {load[l].start}
       \/ Refuse(l) /\ UNCHANGED busy
    /\ fetching' = fetching \ PagesOf(load[l].pages)
    /\ load' = [load EXCEPT ![l] = NoLoad]
    /\ IF run.at = l THEN GoOn ELSE UNCHANGED run
    /\ UNCHANGED <<version, route, index, open, click>>

Land(l) ==
    /\ Quiet
    /\ load[l] # NoLoad
    /\ Fill(l) \/ Refuse(l)
    /\ busy' = busy \ {load[l].start}
    /\ fetching' = fetching \ PagesOf(load[l].pages)
    /\ load' = [load EXCEPT ![l] = NoLoad]
    /\ IF run.at = l THEN GoOn ELSE UNCHANGED run
    /\ UNCHANGED <<version, route, index, open, click>>

-----------------------------------------------------------------------------
Load == Effect \/ Skip \/ Mark \/ \E l \in Loads : Fetch(l)

Next ==
    \/ Browse \/ Turn \/ Click
    \/ \E o \in Opens : DeliverOpen(o)
    \/ DeliverClick
    \/ Load
    \/ \E l \in Loads : Land(l)

Spec == Init /\ [][Next]_vars

(* The browser renders, and a call ends, if only because its connection    *)
(* breaks.  The user need not do anything.                                 *)
FairSpec ==
    /\ Spec
    /\ WF_vars(Load)
    /\ \A l \in Loads : WF_vars(Land(l))

-----------------------------------------------------------------------------
TypeOK ==
    /\ version \in [Books -> Nat] /\ \A b \in Books : version[b] \in 1..Last(b)
    /\ route \in Books \union {NoBook}
    /\ book.id \in Books \union {NoBook} /\ book.loaded \subseteq Range(book.pages)
    /\ index \in Nat /\ (index = 0 \/ index < Len(book.pages))
    /\ fetching \subseteq Pages
    /\ run.at \in {"rest", "now"} \union Loads
    /\ due \in BOOLEAN /\ crossed \in BOOLEAN /\ refused \in BOOLEAN
    /\ open \in [Opens -> Books \union {NoBook}]
    /\ \A l \in Loads : load[l].pages \subseteq Nat \X Pages /\ (load[l] = NoLoad <=> load[l].pages = {})

\* The pages that the book has twice.
Doubled == {book.pages[i] : i \in {k \in DOMAIN book.pages :
               \E m \in DOMAIN book.pages \ {k} : book.pages[m] = book.pages[k]}}

(* A chunk that will not be loaded again is in the book, but for pages the *)
(* book has twice: its mark is not set before its pages are there, nor     *)
(* when they fail.                                                         *)
MarksHonest ==
    crossed \/ \A start \in marked : Chunk(book, start) \ Doubled \subseteq book.loaded

(* The same of all pages.                                                  *)
MarksComplete ==
    crossed \/ \A start \in marked : Chunk(book, start) \subseteq book.loaded

(* No two calls fetch the same page of the book at a time, whatever turns  *)
(* and cancelled effects overlap and however often the book has the page.  *)
OneFetchPerPage ==
    crossed \/ \A k, l \in Loads :
        k # l /\ load[k].mine /\ load[l].mine =>
            PagesOf(load[k].pages) \intersect PagesOf(load[l].pages) = {}

(* Nor does one call fetch a page twice.                                   *)
NoCallDoubles ==
    crossed \/ \A l \in Loads : load[l].mine =>
        \A d, e \in load[l].pages : d[2] = e[2] => d = e

Spread == {book.pages[i] : i \in Slice(book, index, Columns)}

(* The pages in front of the reader are loaded in the end, but for pages   *)
(* the book has twice, unless the user goes on, a load is refused, or an   *)
(* earlier book spoils the marks.                                          *)
Acts == route' # route \/ index' # index \/ click' # click

SpreadLoads ==
    []<>(Spread \ Doubled \subseteq book.loaded \/ refused \/ crossed) \/ []<><<Acts>>_vars

(* The same without the last exception.                                    *)
SpreadAlwaysLoads ==
    []<>(Spread \ Doubled \subseteq book.loaded \/ refused) \/ []<><<Acts>>_vars

(* The same of all pages.                                                  *)
SpreadFullyLoads ==
    []<>(Spread \subseteq book.loaded \/ refused \/ crossed) \/ []<><<Acts>>_vars

(* Once nothing is on the wire, the book is the one the route names, if no *)
(* call failed.                                                            *)
BookFollowsRoute ==
    \/ Faults # {} \/ click # NoClick \/ \E o \in Opens : open[o] # NoBook
    \/ route = NoBook \/ book.id = route \/ Gone(route)
=============================================================================
