---------------------------- MODULE CatalogStore ----------------------------
(***************************************************************************)
(* Catalogs: the handlers that create them (empty, from a Drive folder or  *)
(* from a batch of uploads), append a page, show and delete them, over the *)
(* database, the object store and two caches in Redis: the detail of a     *)
(* catalog and the marks that say a file was already uploaded to it.       *)
(*                                                                         *)
(* A handler is cut at its database, object-store and Redis calls.  A call *)
(* can fail without effect, or take effect and have its answer lost.  The  *)
(* catalogs of one user are modelled: its keys and rows meet no other's.   *)
(* Access checks, which change nothing, are left out.                      *)
(***************************************************************************)
EXTENDS Naturals, Sequences, FiniteSets, Functions

CONSTANTS
    MaxCatalogs,    \* bound: number of catalogs ever created
    MaxKeys,        \* bound: number of uploads to the object store
    Requests,       \* bound: handlers running at a time
    Uploads,        \* local files
    Unfit,          \* those a form has no order for, or of another type
    Orders,         \* positions a user gives a page
    Sources,        \* files of Drive folders
    Name,           \* the rank of a file's name in the collation
    Batches,        \* forms: sequences of items, each an upload catalog
    Folders,        \* previews: sequences of items, each a Drive catalog
    Faults          \* {"lost"}: a call may fail; {}: none does

Catalogs == 1..MaxCatalogs
Minted   == 1..MaxKeys          \* keys made unique by UnixNano
Keys     == Minted \union Sources
Files    == Uploads \union Sources
Item     == [file : Files, order : Orders]
Page     == [file : Files, order : Orders, key : Keys]

ASSUME BoundsAssumption  == MaxCatalogs \in Nat /\ MaxKeys \in Nat
ASSUME SourcesAssumption == Sources \intersect (Nat \union Uploads) = {}
ASSUME UnfitAssumption   == Unfit \subseteq Uploads
ASSUME NameAssumption    == Orders \subseteq Nat /\ Name \in [Files -> Nat]
ASSUME FormsAssumption   ==
    /\ \A form \in Batches : form \in Seq([file : Uploads, order : Orders])
    /\ \A form \in Folders : form \in Seq([file : Sources, order : Orders])

VARIABLES
    stage,      \* catalogs: absent, live or deleted
    source,     \* source_type of a catalog
    pages,      \* catalog_pages: the pages of a catalog
    object,     \* keys present in the object store
    minted,     \* number of upload keys used
    cached,     \* catalogs whose detail is in Redis
    detail,     \* the list of pages in that detail
    marks,      \* upload marks in Redis: catalog and file
    req,        \* the handler in each slot
    scrubbed    \* history: a delete has begun to remove a catalog's objects

vars == <<stage, source, pages, object, minted, cached, detail, marks, req, scrubbed>>
db     == <<stage, source, pages>>
redis  == <<cached, detail, marks>>
bucket == <<object, minted>>

Calls == {"none", "drive", "upload", "append", "delete", "detail"}
Spots == {"idle", "peek", "row", "pages", "lookup", "skip", "store", "mark",
          "add", "fresh", "cache", "scrub", "forget", "unlink", "create"}

Idle == [at |-> "idle", call |-> "none", cat |-> 0, left |-> <<>>, seen |-> <<>>]

Init ==
    /\ stage = [c \in Catalogs |-> "absent"]
    /\ source = [c \in Catalogs |-> "upload"]
    /\ pages = [c \in Catalogs |-> {}]
    /\ object = {}
    /\ minted = 0
    /\ cached = {}
    /\ detail = [c \in Catalogs |-> <<>>]
    /\ marks = {}
    /\ req = [r \in Requests |-> Idle]
    /\ scrubbed = {}

Lost == "lost" \in Faults

Live(c) == stage[c] = "live"
At(r, spot) == req[r].at = spot

Goto(r, spot) == req' = [req EXCEPT ![r].at = spot]
Move(r, spot, left, seen) ==
    req' = [req EXCEPT ![r].at = spot, ![r].left = left, ![r].seen = seen]
Answer(r) == req' = [req EXCEPT ![r] = Idle]

-----------------------------------------------------------------------------
(* The requests.  The server does not look for duplicates in a batch.      *)

Begin(r, spot, call, c, left) ==
    /\ At(r, "idle")
    /\ req' = [req EXCEPT ![r] =
          [at |-> spot, call |-> call, cat |-> c, left |-> left, seen |-> <<>>]]
    /\ UNCHANGED <<db, bucket, redis, scrubbed>>

AskDrive(r)  == \E form \in Folders : Begin(r, "store", "drive", 0, form)
AskUpload(r) == \E form \in Batches : Begin(r, "store", "upload", 0, form)

\* A catalog id no row has ever had is refused like one of a deleted row, and
\* an unfit file before anything is done with it.
AskAppend(r) ==
    \E c \in Catalogs, f \in Uploads \ Unfit, o \in Orders :
        /\ stage[c] # "absent"
        /\ Begin(r, "row", "append", c, <<[file |-> f, order |-> o]>>)

AskDelete(r) == \E c \in Catalogs : stage[c] # "absent" /\ Begin(r, "row", "delete", c, <<>>)
AskDetail(r) == \E c \in Catalogs : stage[c] # "absent" /\ Begin(r, "peek", "detail", c, <<>>)

Ask(r) == AskDrive(r) \/ AskUpload(r) \/ AskAppend(r) \/ AskDelete(r) \/ AskDetail(r)

-----------------------------------------------------------------------------
(* Reading a catalog.                                                      *)

\* Mutant: a hit is cached again, to renew it.
PeekRenews(r) ==
    /\ At(r, "peek")
    /\ \/ req[r].cat \in cached /\ Move(r, "cache", <<>>, detail[req[r].cat])
       \/ (req[r].cat \notin cached \/ Lost) /\ Goto(r, "row")
    /\ UNCHANGED <<db, bucket, redis, scrubbed>>

\* getCachedCatalogDetail of handleCatalogDetail.
Peek(r) ==
    /\ At(r, "peek")
    /\ \/ req[r].cat \in cached /\ Answer(r)
       \/ (req[r].cat \notin cached \/ Lost) /\ Goto(r, "row")
    /\ UNCHANGED <<db, bucket, redis, scrubbed>>

\* GetCatalog, first query.  Only an upload catalog accepts uploads.
ReadRow(r) ==
    LET q == req[r]
    IN  /\ At(r, "row")
        /\ \/ /\ Live(q.cat)
              /\ q.call = "append" => source[q.cat] = "upload"
              /\ Goto(r, "pages")
           \/ /\ \/ ~Live(q.cat)
                 \/ q.call = "append" /\ source[q.cat] # "upload"
                 \/ Lost
              /\ Answer(r)
        /\ UNCHANGED <<db, bucket, redis, scrubbed>>

\* The order or the name of the upload is already in the catalog.
Taken(item, seen) ==
    \E p \in seen : p.order = item.order \/ Name[p.file] = Name[item.file]

\* ORDER BY source_order ASC, source_name ASC: ties come in any order.
Before(p, q) == p.order < q.order \/ (p.order = q.order /\ Name[p.file] <= Name[q.file])

Listings(some) ==
    {list \in Injection(1..Cardinality(some), some) :
        \A i, k \in DOMAIN list : i < k => Before(list[i], list[k])}

\* GetCatalog, second query: no transaction joins it to the first.
ReadPages(r) ==
    LET q == req[r]
    IN  /\ At(r, "pages")
        /\ \/ /\ q.call = "append"
              /\ IF Taken(q.left[1], pages[q.cat]) THEN Goto(r, "skip") ELSE Goto(r, "lookup")
           \/ /\ q.call # "append"
              /\ \E list \in Listings(pages[q.cat]) :
                    IF q.call = "detail" THEN Move(r, "cache", <<>>, list)
                                         ELSE Move(r, "scrub", list, list)
        /\ UNCHANGED <<db, bucket, redis, scrubbed>>

ReadPagesFails(r) ==
    /\ At(r, "pages")
    /\ Lost
    /\ Answer(r)
    /\ UNCHANGED <<db, bucket, redis, scrubbed>>

-----------------------------------------------------------------------------
(* Appending a page, and ingesting the pages of a new catalog.             *)

\* s.cache.GetBytes of the mark; an error counts as a miss.
Lookup(r) ==
    LET q    == req[r]
        mark == <<q.cat, q.left[1].file>>
    IN  /\ At(r, "lookup")
        /\ \/ mark \in marks /\ Goto(r, "skip")
           \/ (mark \notin marks \/ Lost) /\ Goto(r, "store")
        /\ UNCHANGED <<db, bucket, redis, scrubbed>>

\* The response that says the upload was skipped.
Skip(r) ==
    /\ At(r, "skip")
    /\ Answer(r)
    /\ UNCHANGED <<db, bucket, redis, scrubbed>>

\* buildCatalogDriveObjectKey names the user and the Drive file, not the
\* catalog; buildCatalogUploadObjectKey is new every time.
KeyOf(item) == IF item.file \in Sources THEN item.file ELSE minted + 1

PageOf(item) == [file |-> item.file, order |-> item.order, key |-> KeyOf(item)]

Took(r, page) ==
    LET q == req[r]
    IN  Move(r, IF q.call = "append" THEN "mark" ELSE "store", Tail(q.left), Append(q.seen, page))

\* What the handler stores next, if there is more and the form is in order.
Storing(r) == At(r, "store") /\ req[r].left # <<>> /\ req[r].left[1].file \notin Unfit

\* Mutant: the error of UploadObject is only logged.
StoreUnchecked(r) ==
    /\ Storing(r)
    /\ LET page == PageOf(req[r].left[1])
       IN  /\ page.key \in Keys
           /\ minted' = IF page.key \in Minted THEN page.key ELSE minted
           /\ object' \in {object, object \union {page.key}}
           /\ Took(r, page)
    /\ UNCHANGED <<db, redis, scrubbed>>

\* storage.UploadObject of one item; for a new catalog, of each in turn.
Store(r) ==
    /\ Storing(r)
    /\ LET page == PageOf(req[r].left[1])
       IN  /\ page.key \in Keys
           /\ minted' = IF page.key \in Minted THEN page.key ELSE minted
           /\ \/ object' = object \union {page.key} /\ Took(r, page)
              \/ Lost /\ object' \in {object, object \union {page.key}} /\ Answer(r)
    /\ UNCHANGED <<db, redis, scrubbed>>

\* The loop of handleUploadCatalog checks each file when its turn comes: the
\* objects of those before it stay behind.
Refuse(r) ==
    /\ At(r, "store") /\ req[r].left # <<>> /\ req[r].left[1].file \in Unfit
    /\ Answer(r)
    /\ UNCHANGED <<db, bucket, redis, scrubbed>>

\* Mutant: the key of a mark leaves the catalog out.
MarkEverywhere(r) ==
    LET q == req[r]
    IN  /\ At(r, "mark")
        /\ marks' = marks \union (Catalogs \X {p.file : p \in Range(q.seen)})
        /\ Goto(r, "add")
        /\ UNCHANGED <<db, bucket, cached, detail, scrubbed>>

\* The mark is set before the page is inserted, best effort.
Mark(r) ==
    LET q == req[r]
    IN  /\ At(r, "mark")
        /\ \/ marks' = marks \union {<<q.cat, p.file>> : p \in Range(q.seen)}
           \/ Lost /\ UNCHANGED marks
        /\ Goto(r, "add")
        /\ UNCHANGED <<db, bucket, cached, detail, scrubbed>>

\* Mutant: the error of AddCatalogPage is only logged.
AddUnchecked(r) ==
    LET q == req[r]
    IN  /\ At(r, "add")
        /\ pages' \in {pages, [pages EXCEPT ![q.cat] = @ \union Range(q.seen)]}
        /\ Live(q.cat)
        /\ Goto(r, "fresh")
        /\ UNCHANGED <<stage, source, bucket, redis, scrubbed>>

\* Mutant: catalog_pages without its foreign key.
AddUnreferenced(r) ==
    LET q == req[r]
    IN  /\ At(r, "add")
        /\ pages' = [pages EXCEPT ![q.cat] = @ \union Range(q.seen)]
        /\ Goto(r, "fresh")
        /\ UNCHANGED <<stage, source, bucket, redis, scrubbed>>

\* AddCatalogPage: the foreign key refuses the page of a deleted catalog.
Add(r) ==
    LET q     == req[r]
        added == [pages EXCEPT ![q.cat] = @ \union Range(q.seen)]
    IN  /\ At(r, "add")
        /\ \/ Live(q.cat) /\ pages' = added /\ Goto(r, "fresh")
           \/ Live(q.cat) /\ Lost /\ pages' \in {pages, added} /\ Answer(r)
           \/ ~Live(q.cat) /\ UNCHANGED pages /\ Answer(r)
        /\ UNCHANGED <<stage, source, bucket, redis, scrubbed>>

\* Mutant: the page is put into the handler's own copy of the catalog.
FreshForgets(r) ==
    LET q == req[r]
    IN  /\ At(r, "fresh")
        /\ \/ q.cat \in cached /\ Move(r, "cache", <<>>, q.seen)
           \/ (q.cat \notin cached \/ Lost) /\ Answer(r)
        /\ UNCHANGED <<db, bucket, redis, scrubbed>>

\* The cached detail, if there is one, is read to be extended.
Fresh(r) ==
    LET q == req[r]
    IN  /\ At(r, "fresh")
        /\ \/ q.cat \in cached /\ Move(r, "cache", <<>>, detail[q.cat] \o q.seen)
           \/ (q.cat \notin cached \/ Lost) /\ Answer(r)
        /\ UNCHANGED <<db, bucket, redis, scrubbed>>

\* cacheCatalogDetail: also the last step of a detail and of a creation.
Cache(r) ==
    LET q == req[r]
    IN  /\ At(r, "cache")
        /\ \/ /\ cached' = cached \union {q.cat}
              /\ detail' = [detail EXCEPT ![q.cat] = q.seen]
           \/ Lost /\ UNCHANGED <<cached, detail>>
        /\ Answer(r)
        /\ UNCHANGED <<db, bucket, marks, scrubbed>>

\* CreateCatalog: the row and its pages in one transaction.
Create(r) ==
    LET q == req[r]
        c == Cardinality({d \in Catalogs : stage[d] # "absent"}) + 1
    IN  /\ At(r, "store") /\ q.left = <<>>
        /\ q.call \in {"drive", "upload"}
        /\ \/ /\ c \in Catalogs
              /\ stage' = [stage EXCEPT ![c] = "live"]
              /\ source' = [source EXCEPT ![c] = q.call]
              /\ pages' = [pages EXCEPT ![c] = Range(q.seen)]
              /\ \/ req' = [req EXCEPT ![r].at = "cache", ![r].cat = c]
                 \/ Lost /\ Answer(r)
           \/ Lost /\ Answer(r) /\ UNCHANGED db
        /\ UNCHANGED <<bucket, redis, scrubbed>>

-----------------------------------------------------------------------------
(* handleCatalogDelete.                                                    *)

\* Mutant: only the first object is removed.
ScrubFirst(r) ==
    /\ At(r, "scrub") /\ req[r].left # <<>>
    /\ object' = object \ {req[r].left[1].key}
    /\ Move(r, "scrub", <<>>, req[r].seen)
    /\ scrubbed' = scrubbed \union {req[r].cat}
    /\ UNCHANGED <<db, minted, redis>>

\* Mutant: the error of storage.Delete is only logged.
ScrubQuietly(r) ==
    /\ At(r, "scrub") /\ req[r].left # <<>>
    /\ object' \in {object, object \ {req[r].left[1].key}}
    /\ Move(r, "scrub", Tail(req[r].left), req[r].seen)
    /\ scrubbed' = scrubbed \union {req[r].cat}
    /\ UNCHANGED <<db, minted, redis>>

\* storage.Delete of one object; the first failure ends the request.
Scrub(r) ==
    LET q    == req[r]
        gone == object \ {q.left[1].key}
    IN  /\ At(r, "scrub") /\ q.left # <<>>
        /\ \/ object' = gone /\ Move(r, "scrub", Tail(q.left), q.seen)
           \/ Lost /\ object' \in {object, gone} /\ Answer(r)
        /\ scrubbed' = scrubbed \union {q.cat}
        /\ UNCHANGED <<db, minted, redis>>

\* cache.Delete, best effort.
Forget(r) ==
    LET c == req[r].cat
    IN  /\ At(r, "scrub") /\ req[r].left = <<>>
        /\ \/ /\ cached' = cached \ {c}
              /\ detail' = [detail EXCEPT ![c] = <<>>]
           \/ Lost /\ UNCHANGED <<cached, detail>>
        /\ Goto(r, "unlink")
        /\ UNCHANGED <<db, bucket, marks, scrubbed>>

\* DeleteCatalog: the pages and the row in one transaction.
Unlink(r) ==
    LET c == req[r].cat
    IN  /\ At(r, "unlink")
        /\ \/ /\ stage' = [stage EXCEPT ![c] = "deleted"]
              /\ pages' = [pages EXCEPT ![c] = {}]
           \/ Lost /\ UNCHANGED <<stage, pages>>
        /\ Answer(r)
        /\ UNCHANGED <<source, bucket, redis, scrubbed>>

-----------------------------------------------------------------------------
(* The entries expire in Redis: a detail after 15 minutes, a mark after 24 *)
(* hours.                                                                  *)
ExpireDetail(c) ==
    /\ c \in cached
    /\ cached' = cached \ {c}
    /\ detail' = [detail EXCEPT ![c] = <<>>]
    /\ UNCHANGED <<db, bucket, marks, req, scrubbed>>

ExpireMark ==
    /\ \E m \in marks : marks' = marks \ {m}
    /\ UNCHANGED <<db, bucket, cached, detail, req, scrubbed>>

Handle(r) ==
    \/ Peek(r) \/ ReadRow(r) \/ ReadPages(r) \/ ReadPagesFails(r)
    \/ Lookup(r) \/ Skip(r) \/ Store(r) \/ Refuse(r) \/ Mark(r) \/ Add(r) \/ Fresh(r)
    \/ Cache(r) \/ Create(r) \/ Scrub(r) \/ Forget(r) \/ Unlink(r)

Next ==
    \/ \E r \in Requests : Ask(r) \/ Handle(r)
    \/ \E c \in Catalogs : ExpireDetail(c)
    \/ ExpireMark

Spec == Init /\ [][Next]_vars

(* Redis drops an entry whose time is over.  Nothing is assumed of the     *)
(* handlers: each of them may hang for as long as it likes.                *)
FairSpec == Spec /\ \A c \in Catalogs : WF_vars(ExpireDetail(c))

-----------------------------------------------------------------------------
TypeOK ==
    /\ stage \in [Catalogs -> {"absent", "live", "deleted"}]
    /\ source \in [Catalogs -> {"drive", "upload"}]
    /\ pages \in [Catalogs -> SUBSET Page]
    /\ object \in SUBSET Keys
    /\ minted \in 0..MaxKeys
    /\ cached \in SUBSET Catalogs
    /\ detail \in [Catalogs -> Seq(Page)]
    /\ marks \in SUBSET (Catalogs \X Uploads)
    /\ req \in [Requests -> [at : Spots, call : Calls, cat : Catalogs \union {0},
                             left : Seq(Item \union Page), seen : Seq(Page)]]
    /\ scrubbed \in SUBSET Catalogs

(* A cached detail of a catalog shows no page the catalog does not have:   *)
(* it may lag behind the database, it never runs ahead of it.              *)
DetailOnlyLags == \A c \in cached : Live(c) => Range(detail[c]) \subseteq pages[c]

(* No page is left in, or comes back to, a catalog that is deleted, though *)
(* an append checks the catalog long before it inserts.                    *)
NoPageOutlivesCatalog == \A c \in Catalogs : ~Live(c) => pages[c] = {}

(* An uploaded page can be opened until a delete of its own catalog begins *)
(* to remove objects.                                                      *)
UploadedPagesBacked ==
    \A c \in Catalogs \ scrubbed : \A p \in pages[c] :
        p.key \in Minted => p.key \in object

(* The same of a page ingested from Drive.                                 *)
DrivePagesBacked ==
    \A c \in Catalogs \ scrubbed : \A p \in pages[c] :
        p.key \in Sources => p.key \in object

(* DeleteCatalog is reached only when every uploaded object the handler    *)
(* saw is gone: a failure in between loses no key.                         *)
ScrubBeforeUnlink ==
    \A r \in Requests : At(r, "unlink") =>
        \A p \in Range(req[r].seen) : p.key \in Minted => p.key \notin object

(* "skipped" means the catalog has a page of that order or name.           *)
SkipIsHonest ==
    \A r \in Requests : At(r, "skip") /\ Live(req[r].cat) =>
        Taken(req[r].left[1], pages[req[r].cat])

(* "Catalog orders must be unique": no two pages that were appended to a   *)
(* catalog have one order.                                                 *)
OrdersUnique ==
    \A c \in Catalogs : source[c] = "upload" =>
        \A p, q \in pages[c] : p # q => p.order # q.order

Quiet == \A r \in Requests : At(r, "idle")

\* The objects of the pages a handler is about to insert.
InHand(r) ==
    IF req[r].at \in {"store", "mark", "add"} THEN {p.key : p \in Range(req[r].seen)} ELSE {}

\* The uploaded objects that no page names and no handler is about to name.
Unowned ==
    (object \intersect Minted)
        \ UNION ({{p.key : p \in pages[c]} : c \in Catalogs} \union {InHand(r) : r \in Requests})

(* Nothing but a form refused half way leaves objects behind, and those    *)
(* only of the files before the refused one: neither a creation, nor an    *)
(* append, nor a delete that succeeds does.                                *)
OnlyRefusalsOrphan ==
    [][\A k \in Unowned' \ Unowned : \E r \in Requests : Refuse(r) /\ k \in InHand(r)]_vars

(* Between requests, every uploaded object belongs to a page.              *)
NoOrphans == Quiet => Unowned = {}

(* A detail lists its pages by order, as the query of GetCatalog does; the *)
(* reader numbers them by their place in the list ("Page 1", ...).         *)
ShownInOrder ==
    \A c \in cached : \A i, k \in DOMAIN detail[c] :
        i < k => Before(detail[c][i], detail[c][k])

(* However appends, details and deletes interleave, the cached detail of a *)
(* catalog is in the end the catalog, or nothing: no stale detail renews   *)
(* itself.                                                                 *)
EventuallyCoherent ==
    <>[](\A c \in cached : Live(c) /\ detail[c] \in Listings(pages[c]))

-----------------------------------------------------------------------------
(* What GET shows: the cached detail if there is one, else the database.   *)
shown == [c \in Catalogs |-> IF c \in cached THEN detail[c]
                                 ELSE CHOOSE list \in Listings(pages[c]) : TRUE]

(* While requests come one at a time and no call fails, the catalogs are   *)
(* what their client expects.                                              *)
Client == INSTANCE CatalogContract WITH Pages <- Page

ImplementsContract == Client!Spec
=============================================================================
