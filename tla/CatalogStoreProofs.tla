-------------------------- MODULE CatalogStoreProofs --------------------------
(***************************************************************************)
(* What the caches and the object store of the catalogs can be trusted     *)
(* with, for any number of catalogs, handlers and forms, and any failures. *)
(*                                                                         *)
(* The properties say what pages, details and objects have to do with each *)
(* other; between two calls the link is in the hands of a handler.  So the *)
(* invariant follows each handler: a detail it is about to cache shows no  *)
(* more than the catalog has (Ahead); a key it has minted is in the object *)
(* store and nobody else's until the page is inserted (Backed, Apart); a   *)
(* key it is about to remove belongs to no other catalog (Apart).          *)
(*                                                                         *)
(* The second half is about a client alone, for whom the catalogs are what *)
(* CatalogContract says.                                                   *)
(***************************************************************************)
EXTENDS CatalogStore, FiniteSetTheorems, SequenceTheorems, TLAPS

UploadItem == [file : Uploads, order : Orders]
DriveItem  == [file : Sources, order : Orders]
Handler    == [at : Spots, call : Calls, cat : Catalogs \union {0},
               left : Seq(Item \union Page), seen : Seq(Page)]

Visits(call) ==
    CASE call = "none"   -> {"idle"}
      [] call = "detail" -> {"peek", "row", "pages", "cache"}
      [] call = "delete" -> {"row", "pages", "scrub", "unlink"}
      [] call = "append" -> {"row", "pages", "lookup", "skip", "store", "mark", "add", "fresh", "cache"}
      [] OTHER           -> {"store", "cache"}

\* What a handler works on, by its call and its place.
Formed(q) ==
    /\ q \in Handler
    /\ q.at \in Visits(q.call)
    /\ q.call \in {"append", "upload"} => q.left \in Seq(UploadItem)
    /\ q.call = "drive" => q.left \in Seq(DriveItem)
    /\ q.call = "delete" => q.left \in Seq(Page)
    /\ q.call \in {"append", "delete", "detail"} \/ q.at = "cache" => q.cat \in Catalogs
    /\ q.call = "append" /\ q.at \in {"row", "pages", "lookup", "skip", "store"} =>
          q.left # <<>> /\ q.seen = <<>>
    /\ q.at = "scrub" => Range(q.left) \subseteq Range(q.seen)
    /\ q.at = "mark" => \A p \in Range(q.seen) : p.file \in Uploads

Forms == \A r \in Requests : Formed(req[r])

\* Catalogs are created in the order of their ids, and no handler and no
\* cached detail has one that is still to come.
Numbered == \E n \in 0..MaxCatalogs : \A c \in Catalogs : stage[c] # "absent" <=> c <= n
Met(q)   == q.cat # 0 => stage[q.cat] # "absent"
Known    == (\A c \in cached : stage[c] # "absent") /\ \A r \in Requests : Met(req[r])

\* A detail that is about to be cached.
AheadOf(q) == q.at \in {"fresh", "cache"} /\ Live(q.cat) => Range(q.seen) \subseteq pages[q.cat]
Ahead      == \A r \in Requests : AheadOf(req[r])

\* The uploaded objects of some pages, of the pages a handler is about to
\* insert, and of those it is about to delete.
KeysIn(some) == {p.key : p \in some} \intersect Minted
Held(q)   == IF q.at \in {"store", "mark", "add"} THEN KeysIn(Range(q.seen)) ELSE {}
Doomed(q) == IF q.at \in {"scrub", "unlink"} THEN KeysIn(Range(q.seen)) ELSE {}

Apart ==
    /\ \A c, d \in Catalogs : c # d => KeysIn(pages[c]) \intersect KeysIn(pages[d]) = {}
    /\ \A r \in Requests, c \in Catalogs : Held(req[r]) \intersect KeysIn(pages[c]) = {}
    /\ \A r, s \in Requests : r # s => Held(req[r]) \intersect Held(req[s]) = {}
    /\ \A r, s \in Requests : Doomed(req[r]) \intersect Held(req[s]) = {}
    /\ \A r \in Requests, c \in Catalogs :
          c # req[r].cat => Doomed(req[r]) \intersect KeysIn(pages[c]) = {}

Used ==
    /\ \A c \in Catalogs : KeysIn(pages[c]) \subseteq 1..minted
    /\ \A r \in Requests : Held(req[r]) \union Doomed(req[r]) \subseteq 1..minted

Backed ==
    /\ \A c \in Catalogs \ scrubbed : KeysIn(pages[c]) \subseteq object
    /\ \A r \in Requests : Held(req[r]) \subseteq object

\* What a delete has passed is gone, and stays so.
Passed(q) ==
    IF q.at = "scrub" THEN KeysIn(Range(q.seen) \ Range(q.left))
    ELSE IF q.at = "unlink" THEN KeysIn(Range(q.seen)) ELSE {}
GoneIn(q) == Passed(q) \intersect object = {}
Gone == \A r \in Requests : GoneIn(req[r])

Finite == \A c \in Catalogs : IsFiniteSet(pages[c])

IInv ==
    /\ TypeOK /\ Forms /\ Finite /\ Numbered /\ Known /\ Ahead /\ Apart /\ Used /\ Backed /\ Gone
    /\ NoPageOutlivesCatalog /\ DetailOnlyLags

-----------------------------------------------------------------------------
(* Sequences and their elements.                                           *)

LEMMA RangeEmpty == Range(<<>>) = {}
BY DEF Range

LEMMA RangeType ==
  ASSUME NEW S, NEW s \in Seq(S)
  PROVE  Range(s) \subseteq S
BY DEF Range

LEMMA RangeFinite ==
  ASSUME NEW S, NEW s \in Seq(S)
  PROVE  IsFiniteSet(Range(s))
<1>1. s \in Surjection(DOMAIN s, Range(s))
  BY DEF Surjection, Range
<1>2. IsFiniteSet(1..Len(s))
  BY FS_Interval
<1>3. QED
  BY <1>1, <1>2, FS_Surjection

LEMMA RangeAppend ==
  ASSUME NEW S, NEW s \in Seq(S), NEW e \in S
  PROVE  Append(s, e) \in Seq(S) /\ Range(Append(s, e)) = Range(s) \union {e}
<1>1. /\ DOMAIN Append(s, e) = 1..Len(s) + 1
      /\ \A i \in 1..Len(s) : Append(s, e)[i] = s[i]
      /\ Append(s, e)[Len(s) + 1] = e
  OBVIOUS
<1>2. DOMAIN s = 1..Len(s) /\ Len(s) \in Nat
  OBVIOUS
<1>3. QED
  BY <1>1, <1>2 DEF Range

LEMMA RangeConcat ==
  ASSUME NEW S, NEW s \in Seq(S), NEW t \in Seq(S)
  PROVE  s \o t \in Seq(S) /\ Range(s \o t) \subseteq Range(s) \union Range(t)
<1>1. /\ s \o t \in Seq(S)
      /\ Len(s \o t) = Len(s) + Len(t)
      /\ \A i \in 1..Len(s) + Len(t) :
            (s \o t)[i] = IF i <= Len(s) THEN s[i] ELSE t[i - Len(s)]
  BY ConcatProperties
<1>2. /\ DOMAIN s = 1..Len(s) /\ Len(s) \in Nat
      /\ DOMAIN t = 1..Len(t) /\ Len(t) \in Nat
      /\ DOMAIN (s \o t) = 1..Len(s) + Len(t)
  BY <1>1
<1>3. QED
  BY <1>1, <1>2 DEF Range

LEMMA RangeTail ==
  ASSUME NEW S, NEW s \in Seq(S), s # <<>>
  PROVE  /\ Tail(s) \in Seq(S) /\ s[1] \in S
         /\ Range(s) = Range(Tail(s)) \union {s[1]}
<1>1. /\ Tail(s) \in Seq(S) /\ Len(Tail(s)) = Len(s) - 1
      /\ \A i \in 1..Len(Tail(s)) : Tail(s)[i] = s[i + 1]
      /\ Len(s) \in Nat \ {0}
  BY HeadTailProperties, EmptySeq
<1>2. DOMAIN s = 1..Len(s) /\ DOMAIN Tail(s) = 1..Len(s) - 1
  BY <1>1
<1>4. Range(s) \subseteq Range(Tail(s)) \union {s[1]}
  <2>1. SUFFICES ASSUME NEW i \in 2..Len(s)
                 PROVE  s[i] \in Range(Tail(s))
    BY <1>1, <1>2 DEF Range
  <2>2. i - 1 \in 1..Len(s) - 1 /\ (i - 1) + 1 = i
    BY <1>1
  <2>3. Tail(s)[i - 1] = s[i]
    BY <1>1, <2>2
  <2>4. QED
    BY <1>2, <2>2, <2>3 DEF Range
<1>5. Range(Tail(s)) \subseteq Range(s) /\ s[1] \in Range(s)
  BY <1>1, <1>2 DEF Range
<1>6. QED
  BY <1>1, <1>4, <1>5, RangeType

\* A listing shows what it lists, once.
LEMMA ListingShows ==
  ASSUME NEW S, NEW some \in SUBSET S, IsFiniteSet(some), NEW list \in Listings(some)
  PROVE  list \in Seq(S) /\ Range(list) = some /\ IsInjective(list)
<1> DEFINE n == Cardinality(some)
<1>1. n \in Nat
  BY FS_CardinalityType
<1>2. list \in Injection(1..n, some)
  BY DEF Listings
<1>3. list \in [1..n -> some] /\ IsInjective(list)
  BY <1>2 DEF Injection
<1>4. IsFiniteSet(1..n) /\ Cardinality(1..n) = n
  BY <1>1, FS_Interval
<1>5. list \in Surjection(1..n, some)
  BY <1>2, <1>4, FS_Injection
<1>6. QED
  BY <1>1, <1>3, <1>5, SeqDef DEF Range, Surjection

-----------------------------------------------------------------------------
(* A handler goes on.                                                      *)

Record(at, call, cat, left, seen) ==
    [at |-> at, call |-> call, cat |-> cat, left |-> left, seen |-> seen]

LEMMA IsRecord ==
  ASSUME NEW q \in Handler
  PROVE  q = Record(q.at, q.call, q.cat, q.left, q.seen)
BY DEF Handler, Record

LEMMA Placed ==
  ASSUME req \in [Requests -> Handler], NEW r \in Requests, NEW spot \in Spots, Goto(r, spot)
  PROVE  LET q == req[r]
         IN  req' = [req EXCEPT ![r] = Record(spot, q.call, q.cat, q.left, q.seen)]
<1>1. /\ req'[r] \in Handler /\ req' \in [Requests -> Handler]
      /\ req'[r].at = spot /\ req'[r].call = req[r].call /\ req'[r].cat = req[r].cat
      /\ req'[r].left = req[r].left /\ req'[r].seen = req[r].seen
      /\ \A s \in Requests \ {r} : req'[s] = req[s]
  BY DEF Goto, Handler
<1>2. req'[r] = Record(spot, req[r].call, req[r].cat, req[r].left, req[r].seen)
  BY <1>1, IsRecord
<1>3. QED
  BY <1>1, <1>2

LEMMA Moved ==
  ASSUME req \in [Requests -> Handler], NEW r \in Requests, NEW spot \in Spots,
         NEW left \in Seq(Item \union Page), NEW seen \in Seq(Page), Move(r, spot, left, seen)
  PROVE  LET q == req[r]
         IN  req' = [req EXCEPT ![r] = Record(spot, q.call, q.cat, left, seen)]
<1>1. /\ req'[r] \in Handler /\ req' \in [Requests -> Handler]
      /\ req'[r].at = spot /\ req'[r].call = req[r].call /\ req'[r].cat = req[r].cat
      /\ req'[r].left = left /\ req'[r].seen = seen
      /\ \A s \in Requests \ {r} : req'[s] = req[s]
  BY DEF Move, Handler
<1>2. req'[r] = Record(spot, req[r].call, req[r].cat, left, seen)
  BY <1>1, IsRecord
<1>3. QED
  BY <1>1, <1>2

\* It changes nothing that others see but the marks and the cached details,
\* takes on no key that is not its own or its catalog's, and shows no page
\* its catalog does not have.
LEMMA CallKeeps ==
  ASSUME IInv, NEW r \in Requests, NEW q, req' = [req EXCEPT ![r] = q],
         UNCHANGED <<stage, source, pages, object, minted, scrubbed>>,
         marks' \in SUBSET (Catalogs \X Uploads),
         cached' \in SUBSET Catalogs, detail' \in [Catalogs -> Seq(Page)],
         \A c \in cached' : stage[c] # "absent", DetailOnlyLags',
         Formed(q), Met(q), AheadOf(q), GoneIn(q),
         Held(q) \subseteq Held(req[r]),
         \/ Doomed(q) = {}
         \/ Doomed(q) \subseteq KeysIn(pages[q.cat])
         \/ Doomed(q) \subseteq Doomed(req[r]) /\ q.cat = req[r].cat
  PROVE  IInv'
<1>1. /\ req'[r] = q
      /\ \A s \in Requests \ {r} : req'[s] = req[s]
  BY DEF IInv, TypeOK
<1>2. TypeOK' /\ Forms' /\ Finite' /\ Numbered'
  <2>1. q \in Handler
    BY DEF Formed
  <2>2. TypeOK'
    BY <2>1 DEF IInv, TypeOK, Handler
  <2>3. Forms'
    BY <1>1 DEF IInv, Forms
  <2>4. Finite' /\ Numbered'
    BY DEF IInv, Finite, Numbered
  <2>5. QED
    BY <2>2, <2>3, <2>4
<1>3. Known' /\ Ahead' /\ Gone'
  <2>1. Known'
    BY <1>1 DEF IInv, Known, Met
  <2>2. Ahead'
    BY <1>1 DEF IInv, Ahead, AheadOf, Live
  <2>3. Gone'
    BY <1>1 DEF IInv, Gone, GoneIn, Passed
  <2>4. QED
    BY <2>1, <2>2, <2>3
<1>4. \A s \in Requests : Held(req'[s]) \subseteq Held(req[s])
  BY <1>1
<1>5. \/ Doomed(q) = {}
      \/ Doomed(q) \subseteq KeysIn(pages[q.cat]) /\ q.cat \in Catalogs
      \/ Doomed(q) \subseteq Doomed(req[r]) /\ q.cat = req[r].cat
  BY DEF Formed, Doomed, Visits
<1>6. Apart'
  <2>1. \A c, d \in Catalogs : c # d => KeysIn(pages[c]) \intersect KeysIn(pages[d]) = {}
    BY DEF IInv, Apart
  <2>2. \A t \in Requests, c \in Catalogs : Held(req'[t]) \intersect KeysIn(pages[c]) = {}
    BY <1>4 DEF IInv, Apart
  <2>3. \A s, t \in Requests : s # t => Held(req'[s]) \intersect Held(req'[t]) = {}
    BY <1>4 DEF IInv, Apart
  <2>4. \A s, t \in Requests : Doomed(req'[s]) \intersect Held(req'[t]) = {}
    <3>1. SUFFICES ASSUME NEW s \in Requests, NEW t \in Requests
                   PROVE  Doomed(req'[s]) \intersect Held(req[t]) = {}
      BY <1>4
    <3>2. CASE s = r
      BY <1>1, <1>5, <3>2 DEF IInv, Apart
    <3>3. CASE s # r
      BY <1>1, <3>3 DEF IInv, Apart
    <3>4. QED
      BY <3>2, <3>3
  <2>5. ASSUME NEW t \in Requests, NEW c \in Catalogs, c # req'[t].cat
        PROVE  Doomed(req'[t]) \intersect KeysIn(pages[c]) = {}
    <3>1. CASE t = r
      BY <1>1, <1>5, <2>1, <2>5, <3>1 DEF IInv, Apart
    <3>2. CASE t # r
      BY <1>1, <2>5, <3>2 DEF IInv, Apart
    <3>3. QED
      BY <3>1, <3>2
  <2>6. QED
    BY <2>1, <2>2, <2>3, <2>4, <2>5 DEF Apart, KeysIn
<1>7. Used'
  <2>1. \A s \in Requests : Held(req'[s]) \union Doomed(req'[s]) \subseteq 1..minted
    BY <1>1, <1>4, <1>5 DEF IInv, Used
  <2>2. QED
    BY <2>1 DEF IInv, Used, KeysIn
<1>8. Backed'
  BY <1>4 DEF IInv, Backed, KeysIn
<1>9. NoPageOutlivesCatalog'
  BY DEF IInv, NoPageOutlivesCatalog, Live
<1>10. QED
  BY <1>2, <1>3, <1>6, <1>7, <1>8, <1>9 DEF IInv

LEMMA HandlerKeeps ==
  ASSUME IInv, NEW r \in Requests, NEW q, req' = [req EXCEPT ![r] = q],
         UNCHANGED <<stage, source, pages, object, minted, cached, detail, scrubbed>>,
         marks' \in SUBSET (Catalogs \X Uploads),
         Formed(q), Met(q), AheadOf(q), GoneIn(q),
         Held(q) \subseteq Held(req[r]),
         Doomed(q) \subseteq KeysIn(pages[q.cat]) \/ Doomed(q) = {}
  PROVE  IInv'
<1>1. /\ cached' \in SUBSET Catalogs /\ detail' \in [Catalogs -> Seq(Page)]
      /\ \A c \in cached' : stage[c] # "absent"
      /\ DetailOnlyLags'
  BY DEF IInv, TypeOK, Known, DetailOnlyLags, Live
<1>2. QED
  BY <1>1, CallKeeps

LEMMA Lists ==
  /\ \A left \in Seq(UploadItem) : left \in Seq(Item \union Page)
  /\ \A left \in Seq(DriveItem) : left \in Seq(Item \union Page)
  /\ \A left \in Seq(Page) : left \in Seq(Item \union Page)
  /\ \A S : <<>> \in Seq(S)
<1>1. UploadItem \subseteq Item \union Page /\ DriveItem \subseteq Item \union Page
  BY DEF UploadItem, DriveItem, Item, Files
<1>2. QED
  BY <1>1, SeqMonotonic, EmptySeq

LEMMA BeginKeeps ==
  ASSUME IInv, NEW r \in Requests, NEW spot \in {"peek", "row", "store"}, NEW call,
         NEW c, NEW left, Begin(r, spot, call, c, left),
         Formed(Record(spot, call, c, left, <<>>)), c # 0 => stage[c] # "absent"
  PROVE  IInv'
<1> DEFINE q == Record(spot, call, c, left, <<>>)
<1>1. req' = [req EXCEPT ![r] = q]
  BY DEF Begin, Record
<1>2. q.at = spot /\ q.cat = c /\ q.seen = <<>>
  BY DEF Record
<1>3. Met(q) /\ AheadOf(q) /\ GoneIn(q)
  BY <1>2 DEF Met, AheadOf, GoneIn, Passed
<1>4. Held(q) = {} /\ Doomed(q) = {}
  BY <1>2, RangeEmpty DEF Held, Doomed, KeysIn
<1>5. UNCHANGED <<stage, source, pages, object, minted, cached, detail, scrubbed, marks>>
  BY DEF Begin, db, bucket, redis
<1>6. marks' \in SUBSET (Catalogs \X Uploads) /\ Formed(q)
  BY <1>5 DEF IInv, TypeOK
<1> HIDE DEF q
<1>7. QED
  BY <1>1, <1>3, <1>4, <1>5, <1>6, HandlerKeeps

LEMMA AskKeeps ==
  ASSUME IInv, NEW r \in Requests, Ask(r)
  PROVE  IInv'
<1>1. CASE AskDrive(r)
  <2>1. PICK form \in Folders : Begin(r, "store", "drive", 0, form)
    BY <1>1 DEF AskDrive
  <2>2. form \in Seq(DriveItem)
    BY FormsAssumption DEF DriveItem
  <2>3. Formed(Record("store", "drive", 0, form, <<>>))
    BY <2>2, Lists DEF Formed, Record, Handler, Visits, Spots, Calls
  <2>4. QED
    BY <2>1, <2>3, BeginKeeps
<1>2. CASE AskUpload(r)
  <2>1. PICK form \in Batches : Begin(r, "store", "upload", 0, form)
    BY <1>2 DEF AskUpload
  <2>2. form \in Seq(UploadItem)
    BY FormsAssumption DEF UploadItem
  <2>3. Formed(Record("store", "upload", 0, form, <<>>))
    BY <2>2, Lists DEF Formed, Record, Handler, Visits, Spots, Calls
  <2>4. QED
    BY <2>1, <2>3, BeginKeeps
<1>3. CASE AskAppend(r)
  <2>1. PICK c \in Catalogs, f \in Uploads, o \in Orders :
           /\ stage[c] # "absent"
           /\ Begin(r, "row", "append", c, <<[file |-> f, order |-> o]>>)
    BY <1>3 DEF AskAppend
  <2>2. PICK form : form = <<[file |-> f, order |-> o]>>
    OBVIOUS
  <2>3. form \in Seq(UploadItem) /\ form # <<>>
    BY <2>2 DEF UploadItem
  <2>4. Formed(Record("row", "append", c, form, <<>>))
    BY <2>3, Lists, RangeEmpty DEF Formed, Record, Handler, Visits, Spots, Calls
  <2>5. QED
    BY <2>1, <2>2, <2>4, BeginKeeps
<1>4. ASSUME NEW c \in Catalogs, stage[c] # "absent", NEW spot \in {"row", "peek"}, NEW call,
             <<spot, call>> \in {<<"row", "delete">>, <<"peek", "detail">>},
             Begin(r, spot, call, c, <<>>)
      PROVE  IInv'
  <2>1. Formed(Record(spot, call, c, <<>>, <<>>))
    BY <1>4, Lists DEF Formed, Record, Handler, Visits, Spots, Calls
  <2>2. QED
    BY <1>4, <2>1, BeginKeeps
<1>5. CASE AskDelete(r) \/ AskDetail(r)
  BY <1>4, <1>5 DEF AskDelete, AskDetail
<1>6. QED
  BY <1>1, <1>2, <1>3, <1>5 DEF Ask

Private == UNCHANGED <<stage, source, pages, object, minted, cached, detail, scrubbed>>

LEMMA Places ==
  ASSUME NEW q, Formed(q)
  PROVE  /\ q.at \in {"lookup", "skip", "mark", "add", "fresh"} => q.call = "append"
         /\ q.at \in {"scrub", "unlink"} => q.call = "delete"
         /\ q.at = "peek" => q.call = "detail"
         /\ q.at \in {"row", "pages"} => q.call \in {"append", "delete", "detail"}
         /\ q.at = "store" => q.call \in {"append", "drive", "upload"}
BY DEF Formed, Visits, Handler, Calls

LEMMA AnswerKeeps ==
  ASSUME IInv, NEW r \in Requests, Answer(r), Private, marks' \in SUBSET (Catalogs \X Uploads)
  PROVE  IInv'
<1>1. req' = [req EXCEPT ![r] = Idle]
  BY DEF Answer
<1>2. Formed(Idle)
  BY Lists, RangeEmpty DEF Formed, Idle, Handler, Visits, Spots, Calls
<1>3. Met(Idle) /\ AheadOf(Idle) /\ GoneIn(Idle) /\ Held(Idle) = {} /\ Doomed(Idle) = {}
  BY DEF Idle, Met, AheadOf, GoneIn, Passed, Held, Doomed
<1>4. QED
  BY <1>1, <1>2, <1>3, HandlerKeeps DEF Private

LEMMA GotoKeeps ==
  ASSUME IInv, NEW r \in Requests, NEW spot \in Spots, Goto(r, spot), Private,
         marks' \in SUBSET (Catalogs \X Uploads),
         spot \in Visits(req[r].call),
         \/ /\ req[r].at \in {"peek", "row", "pages", "lookup"}
            /\ spot \in {"row", "pages", "lookup", "skip", "store"}
         \/ req[r].at = "mark" /\ spot = "add"
  PROVE  IInv'
<1> DEFINE q == Record(spot, req[r].call, req[r].cat, req[r].left, req[r].seen)
<1>1. req \in [Requests -> Handler] /\ Formed(req[r]) /\ Met(req[r])
  BY DEF IInv, TypeOK, Handler, Forms, Known
<1>2. req' = [req EXCEPT ![r] = q]
  BY <1>1, Placed
<1>3. /\ q.at = spot /\ q.call = req[r].call /\ q.cat = req[r].cat
      /\ q.left = req[r].left /\ q.seen = req[r].seen
  BY DEF Record
<1>4. q \in Handler
  BY <1>1 DEF Record, Handler
<1>5. req[r].call = "append" =>
         \/ req[r].left # <<>> /\ req[r].seen = <<>>
         \/ spot = "add" /\ req[r].at = "mark"
  BY <1>1 DEF Formed, Visits
<1>6. Formed(q)
  BY <1>1, <1>3, <1>4, <1>5 DEF Formed
<1>7. Met(q) /\ AheadOf(q) /\ GoneIn(q) /\ Doomed(q) = {}
  BY <1>1, <1>3 DEF Met, AheadOf, GoneIn, Passed, Doomed
<1>8. Held(q) \subseteq Held(req[r])
  <2>1. CASE spot = "store"
    <3>1. req[r].call = "append"
      BY <1>1, <2>1, Places DEF Visits
    <3>2. QED
      BY <1>3, <1>5, <2>1, <3>1, RangeEmpty DEF Held, KeysIn
  <2>2. CASE spot # "store"
    BY <1>3, <2>2 DEF Held
  <2>3. QED
    BY <2>1, <2>2
<1> HIDE DEF q
<1>9. QED
  BY <1>2, <1>6, <1>7, <1>8, HandlerKeeps DEF Private

LEMMA PeekKeeps ==
  ASSUME IInv, NEW r \in Requests, Peek(r)
  PROVE  IInv'
<1>1. Private /\ marks' \in SUBSET (Catalogs \X Uploads)
  BY DEF Peek, Private, db, bucket, redis, IInv, TypeOK
<1>2. req[r].at = "peek" /\ req[r].call = "detail"
  BY Places DEF Peek, At, IInv, Forms
<1>3. "row" \in Spots /\ "row" \in Visits(req[r].call)
  BY <1>2 DEF Spots, Visits
<1>4. QED
  BY <1>1, <1>2, <1>3, AnswerKeeps, GotoKeeps DEF Peek

LEMMA ReadRowKeeps ==
  ASSUME IInv, NEW r \in Requests, ReadRow(r)
  PROVE  IInv'
<1>1. Private /\ marks' \in SUBSET (Catalogs \X Uploads)
  BY DEF ReadRow, Private, db, bucket, redis, IInv, TypeOK
<1>2. req[r].at = "row" /\ req[r].call \in {"append", "delete", "detail"}
  BY Places DEF ReadRow, At, IInv, Forms
<1>3. "pages" \in Spots /\ "pages" \in Visits(req[r].call)
  BY <1>2 DEF Spots, Visits
<1>4. QED
  BY <1>1, <1>2, <1>3, AnswerKeeps, GotoKeeps DEF ReadRow

LEMMA LookupKeeps ==
  ASSUME IInv, NEW r \in Requests, Lookup(r)
  PROVE  IInv'
<1>1. Private /\ marks' \in SUBSET (Catalogs \X Uploads)
  BY DEF Lookup, Private, db, bucket, redis, IInv, TypeOK
<1>2. req[r].at = "lookup" /\ req[r].call = "append"
  BY Places DEF Lookup, At, IInv, Forms
<1>3. {"skip", "store"} \subseteq Spots \intersect Visits(req[r].call)
  BY <1>2 DEF Spots, Visits
<1>4. QED
  BY <1>1, <1>2, <1>3, GotoKeeps DEF Lookup

LEMMA LeaveKeeps ==
  ASSUME IInv, NEW r \in Requests, ReadPagesFails(r) \/ Skip(r)
  PROVE  IInv'
<1>1. Private /\ marks' \in SUBSET (Catalogs \X Uploads)
  BY DEF ReadPagesFails, Skip, Private, db, bucket, redis, IInv, TypeOK
<1>2. QED
  BY <1>1, AnswerKeeps DEF ReadPagesFails, Skip

LEMMA MarkKeeps ==
  ASSUME IInv, NEW r \in Requests, Mark(r)
  PROVE  IInv'
<1>1. req[r].at = "mark" /\ req[r].call = "append" /\ Formed(req[r])
  BY Places DEF Mark, At, IInv, Forms
<1>2. req[r].cat \in Catalogs /\ \A p \in Range(req[r].seen) : p.file \in Uploads
  BY <1>1 DEF Formed
<1>3. marks' \in SUBSET (Catalogs \X Uploads)
  BY <1>2 DEF Mark, IInv, TypeOK
<1>4. Private
  BY DEF Mark, Private, db, bucket
<1>5. "add" \in Spots /\ "add" \in Visits(req[r].call)
  BY <1>1 DEF Spots, Visits
<1>6. QED
  BY <1>1, <1>3, <1>4, <1>5, GotoKeeps DEF Mark

LEMMA ReadPagesKeeps ==
  ASSUME IInv, NEW r \in Requests, ReadPages(r)
  PROVE  IInv'
<1> DEFINE q == req[r]
<1>1. Private /\ marks' \in SUBSET (Catalogs \X Uploads)
  BY DEF ReadPages, Private, db, bucket, redis, IInv, TypeOK
<1>2. /\ req \in [Requests -> Handler] /\ Formed(q) /\ Met(q)
      /\ q.at = "pages" /\ q.call \in {"append", "delete", "detail"} /\ q.cat \in Catalogs
  BY Places DEF ReadPages, At, IInv, Forms, Known, TypeOK, Handler, Formed
<1>3. CASE q.call = "append"
  <2>1. {"skip", "lookup"} \subseteq Spots \intersect Visits(q.call)
    BY <1>3 DEF Spots, Visits
  <2>2. QED
    BY <1>1, <1>2, <1>3, <2>1, GotoKeeps DEF ReadPages
<1>4. CASE q.call # "append"
  <2>1. PICK list \in Listings(pages[q.cat]) :
           IF q.call = "detail" THEN Move(r, "cache", <<>>, list) ELSE Move(r, "scrub", list, list)
    BY <1>4 DEF ReadPages
  <2>2. list \in Seq(Page) /\ Range(list) \subseteq pages[q.cat]
    <3>1. pages[q.cat] \in SUBSET Page /\ IsFiniteSet(pages[q.cat])
      BY <1>2 DEF IInv, TypeOK, Finite
    <3>2. QED
      BY <3>1, ListingShows
  <2>3. CASE q.call = "detail"
    <3> DEFINE h == Record("cache", q.call, q.cat, <<>>, list)
    <3>0. "cache" \in Spots /\ <<>> \in Seq(Item \union Page)
      BY Lists DEF Spots
    <3>1. req' = [req EXCEPT ![r] = h]
      BY <1>2, <2>1, <2>2, <2>3, <3>0, Moved
    <3>2. h.at = "cache" /\ h.call = "detail" /\ h.cat = q.cat /\ h.left = <<>> /\ h.seen = list
      BY <2>3 DEF Record
    <3>3. Formed(h)
      <4>1. h \in Handler
        BY <1>2, <2>2, <2>3, Lists DEF Record, Handler, Spots, Calls
      <4>2. QED
        BY <1>2, <3>2, <4>1, Lists DEF Formed, Visits
    <3>4. Met(h) /\ AheadOf(h) /\ GoneIn(h) /\ Held(h) = {} /\ Doomed(h) = {}
      BY <1>2, <2>2, <3>2 DEF Met, AheadOf, GoneIn, Passed, Held, Doomed
    <3> HIDE DEF h
    <3>5. QED
      BY <1>1, <3>1, <3>3, <3>4, HandlerKeeps DEF Private
  <2>4. CASE q.call = "delete"
    <3> DEFINE h == Record("scrub", q.call, q.cat, list, list)
    <3>0. "scrub" \in Spots /\ list \in Seq(Item \union Page)
      BY <2>2, Lists DEF Spots
    <3>1. req' = [req EXCEPT ![r] = h]
      BY <1>2, <2>1, <2>2, <2>4, <3>0, Moved
    <3>2. h.at = "scrub" /\ h.call = "delete" /\ h.cat = q.cat /\ h.left = list /\ h.seen = list
      BY <2>4 DEF Record
    <3>3. Formed(h)
      <4>1. h \in Handler
        BY <1>2, <2>2, <2>4, Lists DEF Record, Handler, Spots, Calls
      <4>2. QED
        BY <1>2, <2>2, <3>2, <4>1 DEF Formed, Visits
    <3>4. Met(h) /\ AheadOf(h) /\ GoneIn(h) /\ Held(h) = {}
      BY <1>2, <3>2 DEF Met, AheadOf, GoneIn, Passed, Held, KeysIn
    <3>5. Doomed(h) \subseteq KeysIn(pages[h.cat])
      BY <2>2, <3>2 DEF Doomed, KeysIn
    <3> HIDE DEF h
    <3>6. QED
      BY <1>1, <3>1, <3>3, <3>4, <3>5, HandlerKeeps DEF Private
  <2>5. QED
    BY <1>2, <1>4, <2>3, <2>4
<1>5. QED
  BY <1>3, <1>4

\* The handler extends the detail that is cached with a page its catalog has.
LEMMA FreshKeeps ==
  ASSUME IInv, NEW r \in Requests, Fresh(r)
  PROVE  IInv'
<1> DEFINE q    == req[r]
           list == detail[q.cat] \o q.seen
           h    == Record("cache", q.call, q.cat, <<>>, list)
<1>1. Private /\ marks' \in SUBSET (Catalogs \X Uploads)
  BY DEF Fresh, Private, db, bucket, redis, IInv, TypeOK
<1>2. /\ req \in [Requests -> Handler] /\ Formed(q) /\ Met(q) /\ AheadOf(q)
      /\ q.at = "fresh" /\ q.call = "append" /\ q.cat \in Catalogs /\ q.seen \in Seq(Page)
  BY Places DEF Fresh, At, IInv, Forms, Known, Ahead, TypeOK, Handler, Formed
<1>3. list \in Seq(Page) /\ Range(list) \subseteq Range(detail[q.cat]) \union Range(q.seen)
  BY <1>2, RangeConcat DEF IInv, TypeOK
<1>4. CASE q.cat \in cached /\ Move(r, "cache", <<>>, list)
  <2>0. "cache" \in Spots /\ <<>> \in Seq(Item \union Page)
    BY Lists DEF Spots
  <2>1. req' = [req EXCEPT ![r] = h]
    BY <1>2, <1>3, <1>4, <2>0, Moved
  <2>2. h.at = "cache" /\ h.call = "append" /\ h.cat = q.cat /\ h.left = <<>> /\ h.seen = list
    BY <1>2 DEF Record
  <2>3. Formed(h)
    <3>1. h \in Handler
      BY <1>2, <1>3, Lists DEF Record, Handler, Spots, Calls
    <3>2. QED
      BY <1>2, <2>2, <3>1, Lists DEF Formed, Visits
  <2>4. AheadOf(h)
    BY <1>2, <1>3, <1>4, <2>2 DEF AheadOf, IInv, DetailOnlyLags
  <2>5. Met(h) /\ GoneIn(h) /\ Held(h) = {} /\ Doomed(h) = {}
    BY <1>2, <2>2 DEF Met, GoneIn, Passed, Held, Doomed
  <2> HIDE DEF h
  <2>6. QED
    BY <1>1, <2>1, <2>3, <2>4, <2>5, HandlerKeeps DEF Private
<1>5. QED
  BY <1>1, <1>4, AnswerKeeps DEF Fresh

LEMMA CacheKeeps ==
  ASSUME IInv, NEW r \in Requests, Cache(r)
  PROVE  IInv'
<1> DEFINE q == req[r]
<1>1. /\ Formed(q) /\ Met(q) /\ AheadOf(q)
      /\ q.at = "cache" /\ q.cat \in Catalogs /\ q.seen \in Seq(Page)
  BY DEF Cache, At, IInv, Forms, Known, Ahead, Formed, Handler
<1>2. UNCHANGED <<stage, source, pages, object, minted, scrubbed, marks>>
  BY DEF Cache, db, bucket
<1>3. \/ cached' = cached \union {q.cat} /\ detail' = [detail EXCEPT ![q.cat] = q.seen]
      \/ UNCHANGED <<cached, detail>>
  BY DEF Cache
<1>4. /\ cached' \in SUBSET Catalogs /\ detail' \in [Catalogs -> Seq(Page)]
      /\ \A c \in cached' : stage[c] # "absent"
  <2>1. stage[q.cat] # "absent"
    BY <1>1 DEF Met, Catalogs
  <2>2. QED
    BY <1>1, <1>3, <2>1 DEF IInv, TypeOK, Known
<1>5. DetailOnlyLags'
  BY <1>1, <1>2, <1>3 DEF IInv, TypeOK, DetailOnlyLags, AheadOf, Live
<1>6. req' = [req EXCEPT ![r] = Idle]
  BY DEF Cache, Answer
<1>7. Formed(Idle)
  BY Lists, RangeEmpty DEF Formed, Idle, Handler, Visits, Spots, Calls
<1>8. Met(Idle) /\ AheadOf(Idle) /\ GoneIn(Idle) /\ Held(Idle) = {} /\ Doomed(Idle) = {}
  BY DEF Idle, Met, AheadOf, GoneIn, Passed, Held, Doomed
<1>9. marks' \in SUBSET (Catalogs \X Uploads)
  BY <1>2 DEF IInv, TypeOK
<1>10. QED
  BY <1>2, <1>4, <1>5, <1>6, <1>7, <1>8, <1>9, CallKeeps

LEMMA ForgetKeeps ==
  ASSUME IInv, NEW r \in Requests, Forget(r)
  PROVE  IInv'
<1> DEFINE q == req[r]
           h == Record("unlink", q.call, q.cat, q.left, q.seen)
<1>1. /\ req \in [Requests -> Handler] /\ Formed(q) /\ Met(q) /\ GoneIn(q)
      /\ q.at = "scrub" /\ q.call = "delete" /\ q.left = <<>> /\ q.cat \in Catalogs
  BY Places DEF Forget, At, IInv, Forms, Known, Gone, TypeOK, Handler, Formed
<1>2. UNCHANGED <<stage, source, pages, object, minted, scrubbed, marks>>
  BY DEF Forget, db, bucket
<1>3. \/ cached' = cached \ {q.cat} /\ detail' = [detail EXCEPT ![q.cat] = <<>>]
      \/ UNCHANGED <<cached, detail>>
  BY DEF Forget
<1>4. /\ cached' \in SUBSET Catalogs /\ detail' \in [Catalogs -> Seq(Page)]
      /\ \A c \in cached' : stage[c] # "absent"
  <2>1. <<>> \in Seq(Page)
    BY Lists
  <2>2. QED
    BY <1>1, <1>3, <2>1 DEF IInv, TypeOK, Known
<1>5. DetailOnlyLags'
  BY <1>1, <1>2, <1>3 DEF IInv, TypeOK, DetailOnlyLags, Live
<1>6. req' = [req EXCEPT ![r] = h]
  <2>1. "unlink" \in Spots /\ Goto(r, "unlink")
    BY DEF Spots, Forget
  <2>2. QED
    BY <1>1, <2>1, Placed
<1>7. h.at = "unlink" /\ h.call = q.call /\ h.cat = q.cat /\ h.left = q.left /\ h.seen = q.seen
  BY DEF Record
<1>8. Formed(h)
  <2>1. h \in Handler
    BY <1>1 DEF Record, Handler, Spots
  <2>2. QED
    BY <1>1, <1>7, <2>1 DEF Formed, Visits
<1>9. Met(h) /\ AheadOf(h) /\ Held(h) = {} /\ Doomed(h) \subseteq Doomed(q) /\ h.cat = q.cat
  BY <1>1, <1>7 DEF Met, AheadOf, Held, Doomed
<1>10. GoneIn(h)
  BY <1>1, <1>7, RangeEmpty DEF GoneIn, Passed, KeysIn
<1>11. marks' \in SUBSET (Catalogs \X Uploads)
  BY <1>2 DEF IInv, TypeOK
<1> HIDE DEF h
<1>12. QED
  BY <1>2, <1>4, <1>5, <1>6, <1>8, <1>9, <1>10, <1>11, CallKeeps

-----------------------------------------------------------------------------
(* The object store gains an object under a key that is new, if it is one  *)
(* of an upload.                                                           *)

LEMMA MintKeeps ==
  ASSUME IInv, NEW r \in Requests, NEW h, req' = [req EXCEPT ![r] = h],
         UNCHANGED <<stage, source, pages, cached, detail, marks, scrubbed>>,
         object \subseteq object', object' \in SUBSET Keys, object' \intersect 1..minted \subseteq object,
         minted' \in 0..MaxKeys, minted <= minted',
         Formed(h), Met(h), h.at \in {"idle", "store", "mark"},
         Held(h) \subseteq Held(req[r]) \union (minted + 1)..minted', Held(h) \subseteq object'
  PROVE  IInv'
<1>1. /\ req'[r] = h
      /\ \A s \in Requests \ {r} : req'[s] = req[s]
      /\ minted \in Nat /\ minted' \in Nat /\ 1..minted \subseteq 1..minted'
  BY DEF IInv, TypeOK
<1>2. TypeOK' /\ Forms' /\ Finite' /\ Numbered'
  <2>1. h \in Handler
    BY DEF Formed
  <2>2. TypeOK'
    BY <2>1 DEF IInv, TypeOK, Handler
  <2>3. Forms'
    BY <1>1 DEF IInv, Forms
  <2>4. Finite' /\ Numbered'
    BY DEF IInv, Finite, Numbered
  <2>5. QED
    BY <2>2, <2>3, <2>4
<1>3. Known' /\ Ahead' /\ NoPageOutlivesCatalog' /\ DetailOnlyLags'
  <2>1. Known'
    BY <1>1 DEF IInv, Known, Met
  <2>2. Ahead'
    BY <1>1 DEF IInv, Ahead, AheadOf, Live
  <2>3. NoPageOutlivesCatalog' /\ DetailOnlyLags'
    BY DEF IInv, NoPageOutlivesCatalog, DetailOnlyLags, Live
  <2>4. QED
    BY <2>1, <2>2, <2>3
<1>4. Doomed(h) = {}
  BY DEF Doomed
<1>5. /\ \A s \in Requests : Held(req[s]) \subseteq 1..minted /\ Doomed(req[s]) \subseteq 1..minted
      /\ \A c \in Catalogs : KeysIn(pages[c]) \subseteq 1..minted
  BY DEF IInv, Used
<1>6. 1..minted \intersect (minted + 1)..minted' = {}
  BY <1>1
<1>7. Apart'
  <2>1. \A s \in Requests : Doomed(req'[s]) \subseteq Doomed(req[s])
    BY <1>1, <1>4
  <2>2. \A c, d \in Catalogs : c # d => KeysIn(pages[c]) \intersect KeysIn(pages[d]) = {}
    BY DEF IInv, Apart
  <2>3. ASSUME NEW t \in Requests, NEW c \in Catalogs
        PROVE  Held(req'[t]) \intersect KeysIn(pages[c]) = {}
    <3>1. Held(req[t]) \intersect KeysIn(pages[c]) = {} /\ KeysIn(pages[c]) \subseteq 1..minted
      BY <1>5 DEF IInv, Apart
    <3>2. Held(req'[t]) \subseteq Held(req[t]) \union (minted + 1)..minted'
      BY <1>1
    <3>3. QED
      BY <3>1, <3>2, <1>6
  <2>4. ASSUME NEW s \in Requests, NEW t \in Requests, s # t
        PROVE  Held(req'[s]) \intersect Held(req'[t]) = {}
    <3>1. Held(req[s]) \intersect Held(req[t]) = {}
      BY <2>4 DEF IInv, Apart
    <3>2. CASE s = r
      BY <1>1, <1>5, <1>6, <2>4, <3>1, <3>2
    <3>3. CASE t = r
      BY <1>1, <1>5, <1>6, <2>4, <3>1, <3>3
    <3>4. CASE s # r /\ t # r
      BY <1>1, <3>1, <3>4
    <3>5. QED
      BY <3>2, <3>3, <3>4
  <2>5. ASSUME NEW s \in Requests, NEW t \in Requests
        PROVE  Doomed(req'[s]) \intersect Held(req'[t]) = {}
    <3>1. Doomed(req[s]) \intersect Held(req[t]) = {} /\ Doomed(req'[s]) \subseteq Doomed(req[s])
      BY <2>1 DEF IInv, Apart
    <3>2. CASE t = r
      BY <1>1, <1>5, <1>6, <3>1, <3>2
    <3>3. CASE t # r
      BY <1>1, <3>1, <3>3
    <3>4. QED
      BY <3>2, <3>3
  <2>6. ASSUME NEW t \in Requests, NEW c \in Catalogs, c # req'[t].cat
        PROVE  Doomed(req'[t]) \intersect KeysIn(pages[c]) = {}
    <3>1. CASE t = r
      BY <1>1, <1>4, <3>1
    <3>2. CASE t # r
      BY <1>1, <2>6, <3>2 DEF IInv, Apart
    <3>3. QED
      BY <3>1, <3>2
  <2>7. QED
    BY <2>2, <2>3, <2>4, <2>5, <2>6 DEF Apart, KeysIn
<1>8. Used'
  <2>1. \A c \in Catalogs : KeysIn(pages'[c]) \subseteq 1..minted'
    BY <1>1, <1>5 DEF KeysIn
  <2>2. \A s \in Requests \ {r} : Held(req'[s]) \union Doomed(req'[s]) \subseteq 1..minted'
    BY <1>1, <1>5
  <2>3. Held(h) \union Doomed(h) \subseteq 1..minted'
    <3>1. (minted + 1)..minted' \subseteq 1..minted'
      BY <1>1
    <3>2. QED
      BY <1>1, <1>4, <1>5, <3>1
  <2>4. QED
    BY <1>1, <2>1, <2>2, <2>3 DEF Used
<1>9. Backed'
  BY <1>1 DEF IInv, Backed, KeysIn
<1>10. Gone'
  <2>1. ASSUME NEW s \in Requests
        PROVE  Passed(req'[s]) \intersect object' = {}
    <3>1. CASE s = r
      BY <1>1, <3>1 DEF Passed
    <3>2. CASE s # r
      <4>1. req'[s] = req[s] /\ Passed(req[s]) \intersect object = {}
        BY <1>1, <3>2 DEF IInv, Gone, GoneIn
      <4>2. Passed(req[s]) \subseteq Doomed(req[s])
        BY DEF Passed, Doomed, KeysIn
      <4>3. QED
        BY <1>5, <4>1, <4>2
    <3>3. QED
      BY <3>1, <3>2
  <2>2. QED
    BY <2>1 DEF Gone, GoneIn, Passed, KeysIn
<1>11. QED
  BY <1>2, <1>3, <1>7, <1>8, <1>9, <1>10 DEF IInv

LEMMA StoreKeeps ==
  ASSUME IInv, NEW r \in Requests, Store(r)
  PROVE  IInv'
<1> DEFINE q    == req[r]
           item == q.left[1]
           page == PageOf(item)
<1>1. /\ req \in [Requests -> Handler] /\ Formed(q) /\ Met(q) /\ Held(q) \subseteq object
      /\ q.at = "store" /\ q.left # <<>> /\ q.seen \in Seq(Page)
      /\ q.call \in Calls /\ q.cat \in Catalogs \union {0}
  BY DEF Store, Storing, At, IInv, Forms, Known, Backed, TypeOK, Handler, Formed
<1>2. q.call \in {"append", "upload", "drive"}
  BY <1>1 DEF Formed, Visits, Calls
<1>3. /\ item \in Item /\ Tail(q.left) \in Seq(Item \union Page)
      /\ q.call \in {"append", "upload"} => item.file \in Uploads /\ Tail(q.left) \in Seq(UploadItem)
      /\ q.call = "drive" => Tail(q.left) \in Seq(DriveItem)
  <2>1. CASE q.call = "drive"
    <3>1. q.left \in Seq(DriveItem)
      BY <1>1, <2>1 DEF Formed
    <3>2. item \in DriveItem /\ Tail(q.left) \in Seq(DriveItem)
      BY <1>1, <3>1, RangeTail
    <3>3. QED
      BY <2>1, <3>2, Lists DEF DriveItem, Item, Files
  <2>2. CASE q.call # "drive"
    <3>1. q.left \in Seq(UploadItem)
      BY <1>1, <1>2, <2>2 DEF Formed
    <3>2. item \in UploadItem /\ Tail(q.left) \in Seq(UploadItem)
      BY <1>1, <3>1, RangeTail
    <3>3. QED
      BY <2>2, <3>2, Lists DEF UploadItem, Item, Files
  <2>3. QED
    BY <2>1, <2>2
<1>4. /\ page.key \in Keys /\ page.file = item.file /\ page.order = item.order
      /\ page = [file |-> item.file, order |-> item.order, key |-> page.key]
      /\ page.key \in Minted => page.key = minted + 1
      /\ minted' = IF page.key \in Minted THEN page.key ELSE minted
  BY SourcesAssumption DEF Store, PageOf, KeyOf, Minted
<1>5. page \in Page
  BY <1>3, <1>4 DEF Item, Page
<1>6. /\ minted \in Nat /\ minted' \in 0..MaxKeys /\ minted <= minted'
      /\ page.key \in Minted => page.key \in (minted + 1)..minted'
  BY <1>4, BoundsAssumption DEF IInv, TypeOK, Minted
<1>7. page.key \notin 1..minted
  BY <1>4, <1>6, BoundsAssumption DEF IInv, TypeOK, Minted
<1> HIDE DEF page
<1>8. UNCHANGED <<stage, source, pages, cached, detail, marks, scrubbed>>
  BY DEF Store, db, redis
<1>9. object' \in {object, object \union {page.key}}
  BY DEF Store, page
<1>10. /\ object \subseteq object' /\ object' \in SUBSET Keys
       /\ object' \intersect 1..minted \subseteq object
  BY <1>4, <1>7, <1>9 DEF IInv, TypeOK
<1>11. CASE Answer(r)
  <2>1. req' = [req EXCEPT ![r] = Idle]
    BY <1>11 DEF Answer
  <2>2. Formed(Idle)
    BY Lists, RangeEmpty DEF Formed, Idle, Handler, Visits, Spots, Calls
  <2>3. Met(Idle) /\ Idle.at = "idle" /\ Held(Idle) = {}
    BY DEF Idle, Met, Held
  <2>4. QED
    BY <1>6, <1>8, <1>10, <2>1, <2>2, <2>3, MintKeeps
<1>12. CASE object' = object \union {page.key} /\ Took(r, page)
  <2> DEFINE spot == IF q.call = "append" THEN "mark" ELSE "store"
             seen == Append(q.seen, page)
             h    == Record(spot, q.call, q.cat, Tail(q.left), seen)
  <2>1. seen \in Seq(Page) /\ Range(seen) = Range(q.seen) \union {page}
    BY <1>1, <1>5, RangeAppend
  <2>2. req' = [req EXCEPT ![r] = h]
    <3>1. Move(r, spot, Tail(q.left), seen) /\ spot \in Spots
      BY <1>12 DEF Took, Spots
    <3> HIDE DEF spot, seen
    <3>2. QED
      BY <1>1, <1>3, <2>1, <3>1, Moved
  <2>3. h.at = spot /\ h.call = q.call /\ h.cat = q.cat /\ h.left = Tail(q.left) /\ h.seen = seen
    BY DEF Record
  <2>4. Formed(h)
    <3>1. h \in Handler
      BY <1>1, <1>3, <2>1 DEF Record, Handler, Spots
    <3>2. spot = "mark" => \A p \in Range(seen) : p.file \in Uploads
      <4>1. SUFFICES ASSUME q.call = "append"
                     PROVE  \A p \in Range(seen) : p.file \in Uploads
        OBVIOUS
      <4>2. Range(q.seen) = {} /\ page.file \in Uploads
        BY <1>1, <1>3, <1>4, <4>1, RangeEmpty DEF Formed
      <4>3. QED
        BY <2>1, <4>2
    <3>3. h.at \in Visits(h.call)
      BY <1>2, <2>3 DEF Visits
    <3> HIDE DEF h, seen
    <3>4. QED
      BY <1>1, <1>2, <1>3, <2>3, <3>1, <3>2, <3>3 DEF Formed
  <2>5. Met(h) /\ h.at \in {"idle", "store", "mark"}
    BY <1>1, <2>3 DEF Met
  <2>6. Held(h) = KeysIn(Range(q.seen) \union {page}) /\ Held(q) = KeysIn(Range(q.seen))
    BY <1>1, <2>1, <2>3 DEF Held
  <2>7. Held(h) \subseteq Held(q) \union (minted + 1)..minted' /\ Held(h) \subseteq object'
    BY <1>1, <1>6, <1>12, <2>6 DEF KeysIn
  <2> HIDE DEF h
  <2>8. QED
    BY <1>6, <1>8, <1>10, <2>2, <2>4, <2>5, <2>7, MintKeeps
<1>13. QED
  BY <1>11, <1>12 DEF Store, page

-----------------------------------------------------------------------------
(* A catalog is created, or gains a page: its new objects are the ones the *)
(* handler holds.                                                          *)

LEMMA PutKeeps ==
  ASSUME IInv, NEW r \in Requests, NEW h, req' = [req EXCEPT ![r] = h],
         NEW c \in Catalogs, NEW new \in SUBSET Page, pages' = [pages EXCEPT ![c] = new],
         pages[c] \subseteq new, IsFiniteSet(new),
         KeysIn(new) \subseteq KeysIn(pages[c]) \union Held(req[r]),
         stage[c] # "deleted", stage' = [stage EXCEPT ![c] = "live"], Numbered',
         source' \in [Catalogs -> {"drive", "upload"}],
         UNCHANGED <<object, minted, cached, detail, marks, scrubbed>>,
         Formed(h), Held(h) = {}, Doomed(h) = {}, Passed(h) = {},
         \/ h = Idle
         \/ h.cat = c /\ Range(h.seen) \subseteq new
  PROVE  IInv'
<1>1. /\ req'[r] = h
      /\ \A s \in Requests \ {r} : req'[s] = req[s]
      /\ pages'[c] = new
      /\ \A d \in Catalogs \ {c} : pages'[d] = pages[d]
      /\ stage'[c] = "live" /\ stage[c] \in {"absent", "live"}
      /\ \A d \in Catalogs \ {c} : stage'[d] = stage[d]
  BY DEF IInv, TypeOK
<1>2. TypeOK' /\ Forms' /\ Finite'
  <2>1. h \in Handler
    BY DEF Formed
  <2>2. TypeOK'
    BY <2>1 DEF IInv, TypeOK, Handler
  <2>3. Forms' /\ Finite'
    BY <1>1 DEF IInv, Forms, Finite
  <2>4. QED
    BY <2>2, <2>3
<1>3. Known'
  <2>1. \A d \in Catalogs : stage[d] # "absent" => stage'[d] # "absent"
    BY <1>1
  <2>2. Met(h)'
    BY <1>1 DEF Met, Idle
  <2>3. \A s \in Requests : req[s].cat \in Catalogs \union {0}
    BY DEF IInv, Forms, Formed, Handler
  <2>4. QED
    BY <1>1, <2>1, <2>2, <2>3 DEF IInv, TypeOK, Known, Met
<1>4. Ahead'
  <2>1. AheadOf(h)'
    BY <1>1 DEF AheadOf, Idle
  <2>2. ASSUME NEW s \in Requests \ {r}, req[s].at \in {"fresh", "cache"}, stage'[req[s].cat] = "live"
        PROVE  Range(req[s].seen) \subseteq pages'[req[s].cat]
    <3>1. req[s].cat \in Catalogs /\ stage[req[s].cat] # "absent"
      <4>1. Formed(req[s]) /\ Met(req[s])
        BY DEF IInv, Forms, Known
      <4>2. req[s].cat \in Catalogs
        BY <2>2, <4>1 DEF Formed, Visits, Handler, Calls
      <4>3. QED
        BY <4>1, <4>2 DEF Met, Catalogs
    <3>2. Range(req[s].seen) \subseteq pages[req[s].cat]
      BY <1>1, <2>2, <3>1 DEF IInv, Ahead, AheadOf, Live
    <3>3. QED
      BY <1>1, <3>1, <3>2
  <2>3. QED
    BY <1>1, <2>1, <2>2 DEF Ahead, AheadOf, Live
<1>5. DetailOnlyLags' /\ NoPageOutlivesCatalog'
  BY <1>1 DEF IInv, TypeOK, Known, DetailOnlyLags, NoPageOutlivesCatalog, Live
<1>6. \A s \in Requests : Held(req'[s]) \subseteq Held(req[s]) /\ Doomed(req'[s]) \subseteq Doomed(req[s])
  BY <1>1
<1>7. /\ \A d \in Catalogs \ {c} : KeysIn(pages[c]) \intersect KeysIn(pages[d]) = {}
      /\ \A d \in Catalogs, s \in Requests : Held(req[s]) \intersect KeysIn(pages[d]) = {}
      /\ \A s \in Requests \ {r} : Held(req[r]) \intersect Held(req[s]) = {}
  BY DEF IInv, Apart
<1>8. Apart'
  <2>1. ASSUME NEW d \in Catalogs, NEW e \in Catalogs, d # e
        PROVE  KeysIn(pages'[d]) \intersect KeysIn(pages'[e]) = {}
    <3>1. KeysIn(pages[d]) \intersect KeysIn(pages[e]) = {}
      BY <2>1 DEF IInv, Apart
    <3>2. CASE d = c
      BY <1>1, <1>7, <2>1, <3>2
    <3>3. CASE e = c
      BY <1>1, <1>7, <2>1, <3>3
    <3>4. CASE d # c /\ e # c
      BY <1>1, <3>1, <3>4
    <3>5. QED
      BY <3>2, <3>3, <3>4
  <2>2. ASSUME NEW s \in Requests, NEW d \in Catalogs
        PROVE  Held(req'[s]) \intersect KeysIn(pages'[d]) = {}
    <3>1. CASE s = r
      BY <1>1, <3>1
    <3>2. CASE s # r /\ d = c
      BY <1>1, <1>7, <3>2
    <3>3. CASE s # r /\ d # c
      BY <1>1, <1>7, <3>3
    <3>4. QED
      BY <3>1, <3>2, <3>3
  <2>3. \A s, t \in Requests : s # t => Held(req'[s]) \intersect Held(req'[t]) = {}
    BY <1>6 DEF IInv, Apart
  <2>4. \A s, t \in Requests : Doomed(req'[s]) \intersect Held(req'[t]) = {}
    BY <1>6 DEF IInv, Apart
  <2>5. ASSUME NEW s \in Requests, NEW d \in Catalogs, d # req'[s].cat
        PROVE  Doomed(req'[s]) \intersect KeysIn(pages'[d]) = {}
    <3>1. CASE s = r
      BY <1>1, <3>1
    <3>2. CASE s # r
      <4>1. /\ Doomed(req[s]) \intersect KeysIn(pages[d]) = {}
            /\ Doomed(req[s]) \intersect Held(req[r]) = {}
        BY <1>1, <2>5, <3>2 DEF IInv, Apart
      <4>2. QED
        BY <1>1, <3>2, <4>1
    <3>3. QED
      BY <3>1, <3>2
  <2>6. QED
    BY <2>1, <2>2, <2>3, <2>4, <2>5 DEF Apart, KeysIn
<1>9. Used'
  <2>1. \A d \in Catalogs : KeysIn(pages'[d]) \subseteq 1..minted
    BY <1>1 DEF IInv, Used
  <2>2. \A s \in Requests : Held(req'[s]) \union Doomed(req'[s]) \subseteq 1..minted
    BY <1>6 DEF IInv, Used
  <2>3. QED
    BY <2>1, <2>2 DEF Used, KeysIn
<1>10. Backed'
  <2>1. \A d \in Catalogs \ scrubbed : KeysIn(pages'[d]) \subseteq object
    BY <1>1 DEF IInv, Backed
  <2>2. \A s \in Requests : Held(req'[s]) \subseteq object
    BY <1>6 DEF IInv, Backed
  <2>3. QED
    BY <2>1, <2>2 DEF Backed, KeysIn
<1>11. Gone'
  BY <1>1 DEF IInv, Gone, GoneIn, Passed
<1>12. QED
  BY <1>2, <1>3, <1>4, <1>5, <1>8, <1>9, <1>10, <1>11 DEF IInv

\* It gains none: the call is refused or fails.
LEMMA RefusalKeeps ==
  ASSUME IInv, NEW r \in Requests, Answer(r),
         UNCHANGED <<stage, source, pages, object, minted, cached, detail, marks, scrubbed>>
  PROVE  IInv'
<1>1. marks' \in SUBSET (Catalogs \X Uploads)
  BY DEF IInv, TypeOK
<1>2. QED
  BY <1>1, AnswerKeeps DEF Private

LEMMA RefuseKeeps ==
  ASSUME IInv, NEW r \in Requests, Refuse(r)
  PROVE  IInv'
BY RefusalKeeps DEF Refuse, db, bucket, redis

LEMMA AddKeeps ==
  ASSUME IInv, NEW r \in Requests, Add(r)
  PROVE  IInv'
<1> DEFINE q   == req[r]
           new == pages[q.cat] \union Range(q.seen)
           h   == Record("fresh", q.call, q.cat, q.left, q.seen)
<1>1. /\ req \in [Requests -> Handler] /\ Formed(q) /\ Met(q)
      /\ q.at = "add" /\ q.call = "append" /\ q.cat \in Catalogs /\ q.seen \in Seq(Page)
  BY Places DEF Add, At, IInv, Forms, Known, TypeOK, Handler, Formed
<1>2. UNCHANGED <<stage, source, object, minted, cached, detail, marks, scrubbed>>
  BY DEF Add, bucket, redis
<1>3. CASE UNCHANGED pages /\ Answer(r)
  BY <1>2, <1>3, RefusalKeeps
<1>4. CASE Live(q.cat) /\ pages' = [pages EXCEPT ![q.cat] = new] /\ (Goto(r, "fresh") \/ Answer(r))
  <2>1. new \in SUBSET Page /\ IsFiniteSet(new) /\ pages[q.cat] \subseteq new
    <3>1. Range(q.seen) \subseteq Page /\ IsFiniteSet(Range(q.seen))
      BY <1>1, RangeType, RangeFinite
    <3>2. pages[q.cat] \subseteq Page /\ IsFiniteSet(pages[q.cat])
      BY <1>1 DEF IInv, TypeOK, Finite
    <3>3. QED
      BY <3>1, <3>2, FS_Union
  <2>2. KeysIn(new) \subseteq KeysIn(pages[q.cat]) \union Held(q)
    BY <1>1 DEF Held, KeysIn
  <2>3. stage[q.cat] # "deleted" /\ stage' = [stage EXCEPT ![q.cat] = "live"] /\ Numbered'
    BY <1>1, <1>2, <1>4 DEF IInv, TypeOK, Numbered, Live
  <2>4. source' \in [Catalogs -> {"drive", "upload"}]
    BY <1>2 DEF IInv, TypeOK
  <2>5. CASE Goto(r, "fresh")
    <3>1. req' = [req EXCEPT ![r] = h]
      BY <1>1, <2>5, Placed DEF Spots
    <3>2. h.at = "fresh" /\ h.call = q.call /\ h.cat = q.cat /\ h.left = q.left /\ h.seen = q.seen
      BY DEF Record
    <3>3. Formed(h)
      <4>1. h \in Handler
        BY <1>1 DEF Record, Handler, Spots
      <4>2. QED
        BY <1>1, <3>2, <4>1 DEF Formed, Visits
    <3>4. Held(h) = {} /\ Doomed(h) = {} /\ Passed(h) = {} /\ h.cat = q.cat /\ Range(h.seen) \subseteq new
      BY <3>2 DEF Held, Doomed, Passed
    <3> HIDE DEF h, new
    <3>5. QED
      BY <1>1, <1>2, <1>4, <2>1, <2>2, <2>3, <2>4, <3>1, <3>3, <3>4, PutKeeps
  <2>6. CASE Answer(r)
    <3>1. req' = [req EXCEPT ![r] = Idle]
      BY <2>6 DEF Answer
    <3>2. Formed(Idle)
      BY Lists, RangeEmpty DEF Formed, Idle, Handler, Visits, Spots, Calls
    <3>3. Held(Idle) = {} /\ Doomed(Idle) = {} /\ Passed(Idle) = {}
      BY DEF Idle, Held, Doomed, Passed
    <3> HIDE DEF new
    <3>4. QED
      BY <1>1, <1>2, <1>4, <2>1, <2>2, <2>3, <2>4, <3>1, <3>2, <3>3, PutKeeps
  <2>7. QED
    BY <1>4, <2>5, <2>6
<1>5. QED
  BY <1>3, <1>4 DEF Add

\* The ids of the catalogs are 1, 2, ... in the order of their creation.
LEMMA NextId ==
  ASSUME IInv, NEW c \in Catalogs, c = Cardinality({d \in Catalogs : stage[d] # "absent"}) + 1
  PROVE  /\ stage[c] = "absent"
         /\ stage' = [stage EXCEPT ![c] = "live"] => Numbered'
<1>1. PICK n \in 0..MaxCatalogs : \A d \in Catalogs : stage[d] # "absent" <=> d <= n
  BY DEF IInv, Numbered
<1>2. {d \in Catalogs : stage[d] # "absent"} = 1..n
  BY <1>1, BoundsAssumption DEF Catalogs
<1>3. c = n + 1
  <2>1. n \in Nat
    BY BoundsAssumption
  <2>2. Cardinality(1..n) = n
    BY <2>1, FS_Interval
  <2>3. QED
    BY <1>2, <2>2
<1>4. stage[c] = "absent"
  BY <1>1, <1>3
<1>5. ASSUME stage' = [stage EXCEPT ![c] = "live"]
      PROVE  Numbered'
  <2>1. c \in 0..MaxCatalogs
    BY BoundsAssumption DEF Catalogs
  <2>2. \A d \in Catalogs : stage'[d] # "absent" <=> d <= c
    BY <1>1, <1>3, <1>5 DEF IInv, TypeOK, Catalogs
  <2>3. QED
    BY <2>1, <2>2 DEF Numbered
<1>6. QED
  BY <1>4, <1>5

LEMMA CreateKeeps ==
  ASSUME IInv, NEW r \in Requests, Create(r)
  PROVE  IInv'
<1> DEFINE q == req[r]
           c == Cardinality({d \in Catalogs : stage[d] # "absent"}) + 1
<1>1. /\ req \in [Requests -> Handler] /\ Formed(q)
      /\ q.at = "store" /\ q.left = <<>> /\ q.call \in {"drive", "upload"} /\ q.seen \in Seq(Page)
  BY DEF Create, At, IInv, Forms, TypeOK, Handler, Formed
<1>2. UNCHANGED <<object, minted, cached, detail, marks, scrubbed>>
  BY DEF Create, bucket, redis
<1>3. CASE Answer(r) /\ UNCHANGED db
  BY <1>2, <1>3, RefusalKeeps DEF db
<1>4. CASE /\ c \in Catalogs
           /\ stage' = [stage EXCEPT ![c] = "live"]
           /\ source' = [source EXCEPT ![c] = q.call]
           /\ pages' = [pages EXCEPT ![c] = Range(q.seen)]
           /\ req' = [req EXCEPT ![r].at = "cache", ![r].cat = c] \/ Answer(r)
  <2>1. stage[c] = "absent" /\ Numbered'
    BY <1>4, NextId
  <2> DEFINE new == Range(q.seen)
  <2>2. pages[c] = {} /\ new \in SUBSET Page /\ IsFiniteSet(new)
    BY <1>1, <1>4, <2>1, RangeType, RangeFinite DEF IInv, NoPageOutlivesCatalog, Live
  <2>3. KeysIn(new) \subseteq KeysIn(pages[c]) \union Held(q)
    BY <1>1 DEF Held
  <2>4. source' \in [Catalogs -> {"drive", "upload"}]
    BY <1>1, <1>4 DEF IInv, TypeOK
  <2>5. CASE Answer(r)
    <3>1. req' = [req EXCEPT ![r] = Idle]
      BY <2>5 DEF Answer
    <3>2. Formed(Idle)
      BY Lists, RangeEmpty DEF Formed, Idle, Handler, Visits, Spots, Calls
    <3>3. Held(Idle) = {} /\ Doomed(Idle) = {} /\ Passed(Idle) = {}
      BY DEF Idle, Held, Doomed, Passed
    <3> HIDE DEF c, new
    <3>4. QED
      BY <1>2, <1>4, <2>1, <2>2, <2>3, <2>4, <3>1, <3>2, <3>3, PutKeeps DEF new
  <2>6. CASE req' = [req EXCEPT ![r].at = "cache", ![r].cat = c]
    <3> DEFINE h == Record("cache", q.call, c, q.left, q.seen)
    <3> HIDE DEF c
    <3>1. /\ req'[r] \in Handler /\ req' \in [Requests -> Handler]
          /\ req'[r].at = "cache" /\ req'[r].call = q.call /\ req'[r].cat = c
          /\ req'[r].left = q.left /\ req'[r].seen = q.seen
          /\ \A s \in Requests \ {r} : req'[s] = req[s]
      BY <1>1, <1>4, <2>6 DEF Handler, Spots
    <3>2. req'[r] = h
      BY <3>1, IsRecord
    <3>3. req' = [req EXCEPT ![r] = h]
      BY <1>1, <3>1, <3>2
    <3>4. h.at = "cache" /\ h.call = q.call /\ h.cat = c /\ h.left = q.left /\ h.seen = q.seen
      BY DEF Record
    <3>5. Formed(h)
      BY <1>1, <1>4, <3>1, <3>2, <3>4 DEF Formed, Visits
    <3>6. Held(h) = {} /\ Doomed(h) = {} /\ Passed(h) = {} /\ Range(h.seen) \subseteq new
      BY <3>4 DEF Held, Doomed, Passed
    <3> HIDE DEF h, new
    <3>7. QED
      BY <1>2, <1>4, <2>1, <2>2, <2>3, <2>4, <3>3, <3>4, <3>5, <3>6, PutKeeps DEF new
  <2>7. QED
    BY <1>4, <2>5, <2>6
<1>5. QED
  BY <1>3, <1>4 DEF Create

-----------------------------------------------------------------------------
(* A delete.                                                               *)

\* The object it removes is of a page it has seen, so no other catalog, and
\* no handler about to insert a page, has the key.
LEMMA ScrubKeeps ==
  ASSUME IInv, NEW r \in Requests, Scrub(r)
  PROVE  IInv'
<1> DEFINE q   == req[r]
           key == q.left[1].key
<1>1. /\ req \in [Requests -> Handler] /\ Formed(q) /\ Met(q)
      /\ q.at = "scrub" /\ q.call = "delete" /\ q.left # <<>> /\ q.cat \in Catalogs
      /\ q.seen \in Seq(Page) /\ q.left \in Seq(Page) /\ Range(q.left) \subseteq Range(q.seen)
  BY Places DEF Scrub, At, IInv, Forms, Known, TypeOK, Handler, Formed
<1>2. UNCHANGED <<stage, source, pages, minted, cached, detail, marks>>
  BY DEF Scrub, db, redis
<1>3. Tail(q.left) \in Seq(Page) /\ Range(q.left) = Range(Tail(q.left)) \union {q.left[1]}
  BY <1>1, RangeTail
<1>4. key \in Minted => key \in Doomed(q)
  BY <1>1, <1>3 DEF Doomed, KeysIn
<1>5. object \ {key} \subseteq object' /\ object' \subseteq object /\ scrubbed' = scrubbed \union {q.cat}
  BY DEF Scrub
<1>6. PICK h : /\ req' = [req EXCEPT ![r] = h] /\ Formed(h) /\ Met(h)
               /\ AheadOf(h) /\ Held(h) = {}
               /\ Doomed(h) = {} \/ (Doomed(h) = Doomed(q) /\ h.cat = q.cat)
               /\ Passed(h) \intersect object' = {}
  <2>1. CASE Answer(r)
    <3>1. req' = [req EXCEPT ![r] = Idle]
      BY <2>1 DEF Answer
    <3>2. Formed(Idle)
      BY Lists, RangeEmpty DEF Formed, Idle, Handler, Visits, Spots, Calls
    <3>3. Met(Idle) /\ AheadOf(Idle) /\ Held(Idle) = {} /\ Doomed(Idle) = {} /\ Passed(Idle) = {}
      BY DEF Idle, Met, AheadOf, Held, Doomed, Passed
    <3>4. QED
      BY <3>1, <3>2, <3>3
  <2>2. CASE object' = object \ {key} /\ Move(r, "scrub", Tail(q.left), q.seen)
    <3> DEFINE g == Record("scrub", q.call, q.cat, Tail(q.left), q.seen)
    <3>1. "scrub" \in Spots /\ Tail(q.left) \in Seq(Item \union Page)
      BY <1>3, Lists DEF Spots
    <3>2. req' = [req EXCEPT ![r] = g]
      BY <1>1, <2>2, <3>1, Moved
    <3>3. g.at = "scrub" /\ g.call = q.call /\ g.cat = q.cat /\ g.left = Tail(q.left) /\ g.seen = q.seen
      BY DEF Record
    <3>4. Formed(g)
      <4>1. g \in Handler
        BY <1>1, <3>1 DEF Record, Handler, Calls
      <4>2. QED
        BY <1>1, <1>3, <3>3, <4>1 DEF Formed
    <3>5. Met(g) /\ AheadOf(g) /\ Held(g) = {} /\ Doomed(g) = Doomed(q)
      BY <1>1, <3>3 DEF Met, AheadOf, Held, Doomed
    <3>6. Passed(g) \intersect object' = {}
      <4>1. Passed(q) \intersect object = {}
        BY DEF IInv, Gone, GoneIn
      <4>2. Passed(g) \subseteq Passed(q) \union {key}
        BY <1>1, <1>3, <3>3 DEF Passed, KeysIn
      <4>3. QED
        BY <2>2, <4>1, <4>2
    <3> HIDE DEF g
    <3>7. QED
      BY <3>2, <3>3, <3>4, <3>5, <3>6
  <2>3. QED
    BY <2>1, <2>2 DEF Scrub
<1>7. /\ req'[r] = h
      /\ \A s \in Requests \ {r} : req'[s] = req[s]
  BY <1>1, <1>6
<1>8. TypeOK' /\ Forms' /\ Finite' /\ Numbered'
  <2>1. h \in Handler
    BY <1>6 DEF Formed
  <2>2. TypeOK'
    BY <1>1, <1>2, <1>5, <1>6, <2>1 DEF IInv, TypeOK, Handler
  <2>3. Forms' /\ Finite' /\ Numbered'
    BY <1>2, <1>6, <1>7 DEF IInv, Forms, Finite, Numbered
  <2>4. QED
    BY <2>2, <2>3
<1>9. Known' /\ Ahead' /\ NoPageOutlivesCatalog' /\ DetailOnlyLags'
  <2>1. Known' /\ Ahead'
    BY <1>2, <1>6, <1>7 DEF IInv, Known, Met, Ahead, AheadOf, Live
  <2>2. NoPageOutlivesCatalog' /\ DetailOnlyLags'
    BY <1>2 DEF IInv, NoPageOutlivesCatalog, DetailOnlyLags, Live
  <2>3. QED
    BY <2>1, <2>2
<1>10. \A s \in Requests :
          /\ Held(req'[s]) \subseteq Held(req[s])
          /\ Doomed(req'[s]) = {} \/ (Doomed(req'[s]) = Doomed(req[s]) /\ req'[s].cat = req[s].cat)
  BY <1>6, <1>7
<1>11. Apart'
  <2>1. /\ \A c, d \in Catalogs : c # d => KeysIn(pages[c]) \intersect KeysIn(pages[d]) = {}
        /\ \A s \in Requests, c \in Catalogs : Held(req'[s]) \intersect KeysIn(pages[c]) = {}
        /\ \A s, t \in Requests : s # t => Held(req'[s]) \intersect Held(req'[t]) = {}
    BY <1>10 DEF IInv, Apart
  <2>2. \A s, t \in Requests : Doomed(req'[s]) \intersect Held(req'[t]) = {}
    BY <1>10 DEF IInv, Apart
  <2>3. \A s \in Requests, c \in Catalogs :
           c # req'[s].cat => Doomed(req'[s]) \intersect KeysIn(pages[c]) = {}
    BY <1>10 DEF IInv, Apart
  <2>4. QED
    BY <1>2, <2>1, <2>2, <2>3 DEF Apart, KeysIn
<1>12. Used'
  BY <1>2, <1>10 DEF IInv, Used, KeysIn
<1>13. Backed'
  <2>1. \A c \in Catalogs \ scrubbed' : KeysIn(pages[c]) \subseteq object'
    <3>1. SUFFICES ASSUME NEW c \in Catalogs \ scrubbed'
                   PROVE  KeysIn(pages[c]) \subseteq object'
      OBVIOUS
    <3>2. KeysIn(pages[c]) \subseteq object /\ Doomed(q) \intersect KeysIn(pages[c]) = {}
      BY <1>5 DEF IInv, Backed, Apart
    <3>3. KeysIn(pages[c]) \subseteq Minted
      BY DEF KeysIn
    <3>4. QED
      BY <1>4, <1>5, <3>2, <3>3
  <2>2. \A s \in Requests : Held(req'[s]) \subseteq object'
    <3>1. SUFFICES ASSUME NEW s \in Requests
                   PROVE  Held(req[s]) \subseteq object'
      BY <1>10
    <3>2. Held(req[s]) \subseteq object /\ Doomed(q) \intersect Held(req[s]) = {}
      BY DEF IInv, Backed, Apart
    <3>3. Held(req[s]) \subseteq Minted
      BY DEF Held, KeysIn
    <3>4. QED
      BY <1>4, <1>5, <3>2, <3>3
  <2>3. QED
    BY <1>2, <2>1, <2>2 DEF Backed, KeysIn
<1>14. Gone'
  <2>1. \A s \in Requests : Passed(req'[s]) \intersect object' = {}
    BY <1>5, <1>6, <1>7 DEF IInv, Gone, GoneIn
  <2>2. QED
    BY <2>1 DEF Gone, GoneIn, Passed, KeysIn
<1>15. QED
  BY <1>8, <1>9, <1>11, <1>12, <1>13, <1>14 DEF IInv

LEMMA UnlinkKeeps ==
  ASSUME IInv, NEW r \in Requests, Unlink(r)
  PROVE  IInv'
<1> DEFINE q == req[r]
           c == q.cat
<1>1. /\ req \in [Requests -> Handler] /\ Formed(q) /\ Met(q)
      /\ q.at = "unlink" /\ q.call = "delete" /\ c \in Catalogs
  BY Places DEF Unlink, At, IInv, Forms, Known, TypeOK, Handler, Formed
<1>2. UNCHANGED <<source, object, minted, cached, detail, marks, scrubbed>> /\ Answer(r)
  BY DEF Unlink, bucket, redis
<1>3. CASE UNCHANGED <<stage, pages>>
  BY <1>2, <1>3, RefusalKeeps
<1>4. CASE stage' = [stage EXCEPT ![c] = "deleted"] /\ pages' = [pages EXCEPT ![c] = {}]
  <2>1. /\ req'[r] = Idle
        /\ \A s \in Requests \ {r} : req'[s] = req[s]
        /\ stage'[c] = "deleted" /\ stage[c] # "absent" /\ pages'[c] = {}
        /\ \A d \in Catalogs \ {c} : stage'[d] = stage[d] /\ pages'[d] = pages[d]
    BY <1>1, <1>2, <1>4 DEF Answer, IInv, TypeOK, Met, Catalogs
  <2>2. \A d \in Catalogs : pages'[d] \subseteq pages[d] /\ KeysIn(pages'[d]) \subseteq KeysIn(pages[d])
    BY <2>1 DEF KeysIn
  <2>3. \A s \in Requests :
           \/ req'[s] = req[s]
           \/ req'[s] = Idle
    BY <2>1
  <2>4. /\ Formed(Idle) /\ Idle.at = "idle" /\ Idle.cat = 0
        /\ Held(Idle) = {} /\ Doomed(Idle) = {} /\ Passed(Idle) = {}
    BY Lists, RangeEmpty DEF Formed, Idle, Handler, Visits, Spots, Calls, Held, Doomed, Passed
  <2>5. TypeOK'
    <3>1. Idle \in Handler
      BY <2>4 DEF Formed
    <3>2. QED
      BY <1>2, <1>4, <3>1 DEF IInv, TypeOK, Handler, Answer
  <2>6. Forms' /\ Finite' /\ Numbered'
    <3>1. Forms'
      BY <2>3, <2>4 DEF IInv, Forms
    <3>2. Finite'
      BY <2>1, FS_EmptySet DEF IInv, Finite
    <3>3. \A d \in Catalogs : stage'[d] = "absent" <=> stage[d] = "absent"
      BY <2>1
    <3>4. QED
      BY <3>1, <3>2, <3>3 DEF IInv, Numbered
  <2>7. Known'
    <3>1. \A d \in Catalogs : stage[d] # "absent" => stage'[d] # "absent"
      BY <2>1
    <3>2. \A s \in Requests : req[s].cat \in Catalogs \union {0}
      BY DEF IInv, Forms, Formed, Handler
    <3>3. QED
      BY <1>2, <2>3, <2>4, <3>1, <3>2 DEF IInv, TypeOK, Known, Met
  <2>8. Ahead'
    <3>1. ASSUME NEW s \in Requests \ {r}, req[s].at \in {"fresh", "cache"}, stage'[req[s].cat] = "live"
          PROVE  Range(req[s].seen) \subseteq pages'[req[s].cat]
      <4>1. req[s].cat \in Catalogs \ {c}
        <5>1. Formed(req[s])
          BY DEF IInv, Forms
        <5>2. QED
          BY <2>1, <3>1, <5>1 DEF Formed, Visits, Handler, Calls
      <4>2. QED
        BY <2>1, <3>1, <4>1 DEF IInv, Ahead, AheadOf, Live
    <3>2. QED
      BY <2>1, <2>4, <3>1 DEF Ahead, AheadOf, Live
  <2>9. NoPageOutlivesCatalog' /\ DetailOnlyLags'
    BY <1>2, <2>1 DEF IInv, TypeOK, NoPageOutlivesCatalog, DetailOnlyLags, Live
  <2>10. \A s \in Requests :
            \/ req'[s] = req[s]
            \/ Held(req'[s]) = {} /\ Doomed(req'[s]) = {}
    BY <2>3, <2>4
  <2>11. Apart'
    <3>1. /\ \A d, e \in Catalogs : d # e => KeysIn(pages'[d]) \intersect KeysIn(pages'[e]) = {}
          /\ \A s \in Requests, d \in Catalogs : Held(req'[s]) \intersect KeysIn(pages'[d]) = {}
      BY <2>2, <2>10 DEF IInv, Apart
    <3>2. /\ \A s, t \in Requests : s # t => Held(req'[s]) \intersect Held(req'[t]) = {}
          /\ \A s, t \in Requests : Doomed(req'[s]) \intersect Held(req'[t]) = {}
      BY <2>10 DEF IInv, Apart
    <3>3. \A s \in Requests, d \in Catalogs :
             d # req'[s].cat => Doomed(req'[s]) \intersect KeysIn(pages'[d]) = {}
      BY <2>2, <2>10 DEF IInv, Apart
    <3>4. QED
      BY <3>1, <3>2, <3>3 DEF Apart, KeysIn
  <2>12. Used'
    <3>1. /\ \A d \in Catalogs : KeysIn(pages'[d]) \subseteq 1..minted
          /\ \A s \in Requests : Held(req'[s]) \union Doomed(req'[s]) \subseteq 1..minted
      BY <2>2, <2>10 DEF IInv, Used
    <3>2. QED
      BY <1>2, <3>1 DEF Used, KeysIn
  <2>13. Backed'
    <3>1. /\ \A d \in Catalogs \ scrubbed : KeysIn(pages'[d]) \subseteq object
          /\ \A s \in Requests : Held(req'[s]) \subseteq object
      BY <2>2, <2>10 DEF IInv, Backed
    <3>2. QED
      BY <1>2, <3>1 DEF Backed, KeysIn
  <2>14. Gone'
    BY <1>2, <2>3, <2>4 DEF IInv, Gone, GoneIn
  <2>15. QED
    BY <2>5, <2>6, <2>7, <2>8, <2>9, <2>11, <2>12, <2>13, <2>14 DEF IInv
<1>5. QED
  BY <1>3, <1>4 DEF Unlink

-----------------------------------------------------------------------------
(* No handler moves: an entry of Redis expires, or nothing happens.        *)

LEMMA LapseKeeps ==
  ASSUME IInv, UNCHANGED <<stage, source, pages, object, minted, req, scrubbed>>,
         marks' \subseteq marks, cached' \subseteq cached,
         detail' \in [Catalogs -> Seq(Page)], \A c \in cached' : detail'[c] = detail[c]
  PROVE  IInv'
<1>1. TypeOK'
  BY DEF IInv, TypeOK
<1>2. Forms' /\ Finite' /\ Numbered' /\ Known' /\ Ahead'
  BY DEF IInv, Forms, Finite, Numbered, Known, Met, Ahead, AheadOf, Live
<1>3. Apart' /\ Used' /\ Backed' /\ Gone'
  BY DEF IInv, Apart, Used, Backed, KeysIn, Gone, GoneIn
<1>4. NoPageOutlivesCatalog' /\ DetailOnlyLags'
  BY DEF IInv, NoPageOutlivesCatalog, DetailOnlyLags, Live
<1>5. QED
  BY <1>1, <1>2, <1>3, <1>4 DEF IInv

LEMMA Initially == Init => IInv
<1> SUFFICES ASSUME Init PROVE IInv
  OBVIOUS
<1>1. Formed(Idle) /\ Idle.at = "idle" /\ Idle.cat = 0 /\ Held(Idle) = {} /\ Doomed(Idle) = {}
  BY Lists, RangeEmpty DEF Formed, Idle, Handler, Visits, Spots, Calls, Held, Doomed
<1>2. \A r \in Requests : req[r] = Idle
  BY DEF Init
<1>3. TypeOK
  <2>1. Idle \in Handler /\ <<>> \in Seq(Page)
    BY <1>1, Lists DEF Formed
  <2>2. req \in [Requests -> Handler]
    BY <2>1 DEF Init
  <2>3. QED
    BY <2>1, <2>2, BoundsAssumption DEF Init, TypeOK, Handler
<1>4. Forms /\ Known /\ Ahead /\ Gone
  BY <1>1, <1>2 DEF Init, Forms, Known, Met, Ahead, AheadOf, Gone, GoneIn, Passed
<1>5. Finite /\ NoPageOutlivesCatalog /\ DetailOnlyLags
  BY FS_EmptySet DEF Init, Finite, NoPageOutlivesCatalog, DetailOnlyLags, Live
<1>6. Numbered
  <2>1. 0 \in 0..MaxCatalogs /\ \A c \in Catalogs : stage[c] # "absent" <=> c <= 0
    BY BoundsAssumption DEF Init, Catalogs
  <2>2. QED
    BY <2>1 DEF Numbered
<1>7. Apart /\ Used /\ Backed
  BY <1>1, <1>2 DEF Init, Apart, Used, Backed, KeysIn
<1>8. QED
  BY <1>3, <1>4, <1>5, <1>6, <1>7 DEF IInv

LEMMA StepKeeps == IInv /\ [Next]_vars => IInv'
<1> SUFFICES ASSUME IInv, [Next]_vars PROVE IInv'
  OBVIOUS
<1>1. CASE UNCHANGED vars
  <2>1. UNCHANGED <<stage, source, pages, object, minted, req, scrubbed, marks, cached, detail>>
    BY <1>1 DEF vars
  <2>2. detail' \in [Catalogs -> Seq(Page)]
    BY <2>1 DEF IInv, TypeOK
  <2>3. QED
    BY <2>1, <2>2, LapseKeeps
<1>2. ASSUME NEW r \in Requests, Ask(r)
      PROVE  IInv'
  BY <1>2, AskKeeps
<1>3. ASSUME NEW r \in Requests, Handle(r)
      PROVE  IInv'
  BY <1>3, PeekKeeps, ReadRowKeeps, ReadPagesKeeps, LeaveKeeps, LookupKeeps, StoreKeeps, RefuseKeeps,
     MarkKeeps, AddKeeps, FreshKeeps, CacheKeeps, CreateKeeps, ScrubKeeps, ForgetKeeps, UnlinkKeeps DEF Handle
<1>4. ASSUME NEW c \in Catalogs, ExpireDetail(c)
      PROVE  IInv'
  <2>1. /\ UNCHANGED <<stage, source, pages, object, minted, req, scrubbed, marks>>
        /\ cached' = cached \ {c} /\ detail' = [detail EXCEPT ![c] = <<>>]
    BY <1>4 DEF ExpireDetail, db, bucket
  <2>2. <<>> \in Seq(Page)
    BY Lists
  <2>3. detail' \in [Catalogs -> Seq(Page)] /\ \A d \in cached' : detail'[d] = detail[d]
    BY <2>1, <2>2 DEF IInv, TypeOK
  <2>4. QED
    BY <2>1, <2>3, LapseKeeps
<1>5. CASE ExpireMark
  <2>1. UNCHANGED <<stage, source, pages, object, minted, req, scrubbed, cached, detail>> /\ marks' \subseteq marks
    BY <1>5 DEF ExpireMark, db, bucket
  <2>2. detail' \in [Catalogs -> Seq(Page)]
    BY <2>1 DEF IInv, TypeOK
  <2>3. QED
    BY <2>1, <2>2, LapseKeeps
<1>6. QED
  BY <1>1, <1>2, <1>3, <1>4, <1>5 DEF Next

LEMMA Invariance == Spec => []IInv
BY Initially, StepKeeps, PTL DEF Spec

-----------------------------------------------------------------------------
(* A cached detail shows no page its live catalog does not have, whatever  *)
(* appends, details and deletes overlap (handleCatalogDetail,              *)
(* handleUploadCatalogPage, cacheCatalogDetail).                           *)
THEOREM DetailsOnlyLag == Spec => []DetailOnlyLags
<1>1. IInv => DetailOnlyLags
  BY DEF IInv
<1>2. QED
  BY <1>1, Invariance, PTL

(* A catalog that is not live has no page: an append that checked the      *)
(* catalog before its delete inserts nothing after it (AddCatalogPage,     *)
(* DeleteCatalog).                                                         *)
THEOREM PagesGoWithCatalog == Spec => []NoPageOutlivesCatalog
<1>1. IInv => NoPageOutlivesCatalog
  BY DEF IInv
<1>2. QED
  BY <1>1, Invariance, PTL

(* An uploaded page has its object until a delete of its own catalog       *)
(* begins to remove objects: no other handler removes or lacks it          *)
(* (buildCatalogUploadObjectKey, handleCatalogDelete).                     *)
THEOREM UploadsBacked == Spec => []UploadedPagesBacked
<1>1. IInv => UploadedPagesBacked
  BY DEF IInv, Backed, KeysIn, UploadedPagesBacked
<1>2. QED
  BY <1>1, Invariance, PTL

(* A handler that deletes the rows of a catalog has removed the objects of *)
(* all uploaded pages it saw, and none is back (handleCatalogDelete).      *)
THEOREM ScrubsBeforeUnlink == Spec => []ScrubBeforeUnlink
<1>1. IInv => ScrubBeforeUnlink
  BY DEF IInv, Gone, GoneIn, Passed, KeysIn, ScrubBeforeUnlink, At
<1>2. QED
  BY <1>1, Invariance, PTL

(* The variables have their types: in particular a mark always names an    *)
(* upload and a handler keeps to the steps of its call.                    *)
THEOREM TypeCorrect == Spec => []TypeOK
<1>1. IInv => TypeOK
  BY DEF IInv
<1>2. QED
  BY <1>1, Invariance, PTL

-----------------------------------------------------------------------------
(* A client alone: one request at a time, while no call to the database,   *)
(* the object store or Redis fails.  To the objects that exist is joined   *)
(* what only a handler without a rival can rely on: what it has read of    *)
(* its catalog is still so when it acts on it (Steady), and every mark     *)
(* belongs to a page, or to the page the handler is about to insert        *)
(* (Marked).  No step but a refusal leaves an object behind (NoneLeft).    *)

Alone == Faults = {} /\ \A r, s \in Requests : r = s

Committed(q) ==
    \/ q.at \in {"pages", "lookup", "skip", "mark", "add", "fresh", "cache", "scrub", "unlink"}
    \/ q.at = "store" /\ q.call = "append"

Steady ==
    \A r \in Requests :
        LET q == req[r]
        IN  /\ Committed(q) => Live(q.cat)
            /\ q.at \in {"scrub", "unlink"} => Range(q.seen) = pages[q.cat]

\* A page names the object, or a handler is about to insert one that does.
Owned(k) ==
    \/ \E c \in Catalogs : k \in KeysIn(pages[c])
    \/ \E r \in Requests : k \in Held(req[r])

NoneLeft == \A k \in object' \intersect Minted : (k \in object => Owned(k)) => Owned(k)'

Marked ==
    \A m \in marks :
        /\ stage[m[1]] # "absent"
        /\ Live(m[1]) =>
              \/ \E p \in pages[m[1]] : p.file = m[2]
              \/ \E r \in Requests : /\ At(r, "add") /\ req[r].cat = m[1]
                                     /\ \E p \in Range(req[r].seen) : p.file = m[2]

SInv == Steady /\ SkipIsHonest /\ Marked

-----------------------------------------------------------------------------
(* A handler goes on.                                                      *)

LEMMA GotoFields ==
  ASSUME IInv, NEW r \in Requests, NEW spot \in Spots, Goto(r, spot)
  PROVE  /\ req' = [req EXCEPT ![r] = req'[r]]
         /\ req'[r].at = spot /\ req'[r].call = req[r].call /\ req'[r].cat = req[r].cat
         /\ req'[r].left = req[r].left /\ req'[r].seen = req[r].seen
<1> DEFINE h == Record(spot, req[r].call, req[r].cat, req[r].left, req[r].seen)
<1>1. req' = [req EXCEPT ![r] = h]
  BY Placed DEF IInv, TypeOK, Handler
<1>2. /\ h.at = spot /\ h.call = req[r].call /\ h.cat = req[r].cat
      /\ h.left = req[r].left /\ h.seen = req[r].seen
  BY DEF Record
<1>3. req'[r] = h
  BY <1>1 DEF IInv, TypeOK
<1> HIDE DEF h
<1>4. QED
  BY <1>1, <1>2, <1>3

LEMMA MoveFields ==
  ASSUME IInv, NEW r \in Requests, NEW spot \in Spots,
         NEW left \in Seq(Item \union Page), NEW seen \in Seq(Page), Move(r, spot, left, seen)
  PROVE  /\ req' = [req EXCEPT ![r] = req'[r]]
         /\ req'[r].at = spot /\ req'[r].call = req[r].call /\ req'[r].cat = req[r].cat
         /\ req'[r].left = left /\ req'[r].seen = seen
<1> DEFINE h == Record(spot, req[r].call, req[r].cat, left, seen)
<1>1. req' = [req EXCEPT ![r] = h]
  BY Moved DEF IInv, TypeOK, Handler
<1>2. h.at = spot /\ h.call = req[r].call /\ h.cat = req[r].cat /\ h.left = left /\ h.seen = seen
  BY DEF Record
<1>3. req'[r] = h
  BY <1>1 DEF IInv, TypeOK
<1> HIDE DEF h
<1>4. QED
  BY <1>1, <1>2, <1>3

\* It neither adds nor removes a page, an object or a mark.
LEMMA Onward ==
  ASSUME IInv, SInv, NEW r, Requests = {r}, NEW h, req' = [req EXCEPT ![r] = h],
         UNCHANGED <<stage, pages, object>>, marks' \subseteq marks,
         ~At(r, "add"), Committed(h) => Live(h.cat),
         h.at \in {"scrub", "unlink"} => Range(h.seen) = pages[h.cat],
         h.at = "skip" => Taken(h.left[1], pages[h.cat])
  PROVE  SInv' /\ (Held(req[r]) \subseteq Held(h) => NoneLeft)
<1>1. req'[r] = h
  BY DEF IInv, TypeOK
<1>2. Steady'
  BY <1>1 DEF Steady, Live
<1>3. SkipIsHonest'
  BY <1>1 DEF SkipIsHonest, At, Live, Taken
<1>4. Held(req[r]) \subseteq Held(h) => NoneLeft
  BY <1>1 DEF NoneLeft, Owned, KeysIn
<1>5. Marked'
  BY <1>1 DEF SInv, Marked, At, Live
<1>6. QED
  BY <1>2, <1>3, <1>4, <1>5 DEF SInv

LEMMA Answered ==
  ASSUME IInv, SInv, NEW r, Requests = {r}, Answer(r),
         UNCHANGED <<stage, pages, object>>, marks' \subseteq marks,
         ~At(r, "add")
  PROVE  SInv' /\ (Held(req[r]) = {} => NoneLeft)
<1>1. req' = [req EXCEPT ![r] = Idle]
  BY DEF Answer
<1>2. Idle.at = "idle"
  BY DEF Idle
<1>3. QED
  BY <1>1, <1>2, Onward DEF Committed

LEMMA RefuseSteady ==
  ASSUME IInv, SInv, NEW r, Requests = {r}, Refuse(r)
  PROVE  SInv'
BY Answered DEF Refuse, At, db, bucket, redis

LEMMA AskSteady ==
  ASSUME IInv, SInv, NEW r, Requests = {r}, Ask(r)
  PROVE  SInv' /\ NoneLeft
<1>1. \E spot, call, c, left :
         /\ Begin(r, spot, call, c, left)
         /\ spot \in {"peek", "row"} \/ (spot = "store" /\ call # "append")
  <2>1. CASE AskDrive(r) \/ AskUpload(r)
    BY <2>1 DEF AskDrive, AskUpload
  <2>2. CASE AskAppend(r)
    BY <2>2 DEF AskAppend
  <2>3. CASE AskDelete(r) \/ AskDetail(r)
    BY <2>3 DEF AskDelete, AskDetail
  <2>4. QED
    BY <2>1, <2>2, <2>3 DEF Ask
<1>2. PICK spot, call, c, left :
         /\ Begin(r, spot, call, c, left)
         /\ spot \in {"peek", "row"} \/ (spot = "store" /\ call # "append")
  BY <1>1
<1> DEFINE h == [at |-> spot, call |-> call, cat |-> c, left |-> left, seen |-> <<>>]
<1>3. req' = [req EXCEPT ![r] = h] /\ At(r, "idle")
  BY <1>2 DEF Begin
<1>4. h.at = spot /\ h.call = call
  OBVIOUS
<1>5. UNCHANGED <<stage, pages, object, marks>>
  BY <1>2 DEF Begin, db, bucket, redis
<1> HIDE DEF h
<1>6. Held(req[r]) = {} /\ ~At(r, "add")
  BY <1>3 DEF At, Held
<1>7. ~Committed(h) /\ h.at \notin {"scrub", "unlink", "skip"}
  BY <1>2, <1>4 DEF Committed
<1>8. QED
  BY <1>3, <1>5, <1>6, <1>7, Onward

\* The steps that read, or touch only the cached details.
LEMMA ReadSteady ==
  ASSUME IInv, SInv, Faults = {}, NEW r, Requests = {r},
         Peek(r) \/ ReadRow(r) \/ ReadPages(r) \/ ReadPagesFails(r) \/ Lookup(r) \/ Skip(r)
  PROVE  SInv' /\ NoneLeft
<1> DEFINE q == req[r]
<1>1. UNCHANGED <<stage, pages, object, marks>> /\ ~Lost
  BY DEF Peek, ReadRow, ReadPages, ReadPagesFails, Lookup, Skip, db, bucket, redis, Lost
<1>2. q.at \in {"peek", "row", "pages", "lookup", "skip"} /\ ~At(r, "add") /\ Held(q) = {}
  BY DEF Peek, ReadRow, ReadPages, ReadPagesFails, Lookup, Skip, At, Held
<1>3. Formed(q) /\ (Committed(q) => Live(q.cat))
  BY DEF IInv, Forms, SInv, Steady
<1>4. CASE Answer(r)
  BY <1>1, <1>2, <1>4, Answered
<1>5. CASE Goto(r, "row") \/ (Goto(r, "pages") /\ Live(q.cat))
  <2>0. {"row", "pages"} \subseteq Spots /\ r \in Requests
    BY DEF Spots
  <2>1. PICK h : /\ req' = [req EXCEPT ![r] = h] /\ h.cat = q.cat
                 /\ h.at = "row" \/ (h.at = "pages" /\ Live(q.cat))
    BY <1>5, <2>0, GotoFields
  <2>2. QED
    BY <1>1, <1>2, <2>1, Onward DEF Committed
<1>6. CASE /\ Committed(q)
           /\ Goto(r, "lookup") \/ Goto(r, "store") \/ (Goto(r, "skip") /\ Taken(q.left[1], pages[q.cat]))
  <2>0. {"lookup", "store", "skip"} \subseteq Spots /\ r \in Requests
    BY DEF Spots
  <2>1. PICK h : /\ req' = [req EXCEPT ![r] = h] /\ h.cat = q.cat /\ h.left = q.left
                 /\ h.at \in {"lookup", "store"} \/ (h.at = "skip" /\ Taken(q.left[1], pages[q.cat]))
    BY <1>6, <2>0, GotoFields
  <2>2. QED
    BY <1>1, <1>2, <1>3, <1>6, <2>1, Onward
<1>7. CASE Committed(q) /\ \E list \in Listings(pages[q.cat]) :
              Move(r, "cache", <<>>, list) \/ Move(r, "scrub", list, list)
  <2>1. PICK list \in Listings(pages[q.cat]) :
           Move(r, "cache", <<>>, list) \/ Move(r, "scrub", list, list)
    BY <1>7
  <2>2. list \in Seq(Page) /\ Range(list) = pages[q.cat]
    <3>1. q.cat \in Catalogs
      BY <1>2, <1>3, <1>7, Places DEF Formed, Committed
    <3>2. pages[q.cat] \in SUBSET Page /\ IsFiniteSet(pages[q.cat])
      BY <3>1 DEF IInv, TypeOK, Finite
    <3>3. QED
      BY <3>2, ListingShows
  <2>3. list \in Seq(Item \union Page) /\ <<>> \in Seq(Item \union Page)
    BY <2>2, Lists
  <2>4. {"cache", "scrub"} \subseteq Spots /\ r \in Requests
    BY DEF Spots
  <2>5. PICK h : /\ req' = [req EXCEPT ![r] = h] /\ h.cat = q.cat /\ h.seen = list
                 /\ h.at \in {"cache", "scrub"}
    BY <2>1, <2>2, <2>3, <2>4, MoveFields, ZenonT(30)
  <2>6. QED
    BY <1>1, <1>2, <1>3, <1>7, <2>2, <2>5, Onward
<1>8. CASE Peek(r) \/ ReadRow(r) \/ ReadPagesFails(r) \/ Skip(r)
  BY <1>1, <1>4, <1>5, <1>8 DEF Peek, ReadRow, ReadPagesFails, Skip
<1>9. CASE ReadPages(r)
  <2>1. Committed(q)
    BY <1>9 DEF ReadPages, At, Committed
  <2>2. QED
    BY <1>6, <1>7, <1>9, <2>1 DEF ReadPages
<1>10. CASE Lookup(r)
  <2>1. Committed(q) /\ q.cat \in Catalogs /\ ~At(r, "add")
    BY <1>2, <1>3, <1>10, Places DEF Lookup, At, Committed, Formed
  <2>2. CASE <<q.cat, q.left[1].file>> \in marks
    <3>1. \E p \in pages[q.cat] : p.file = q.left[1].file
      BY <1>3, <2>1, <2>2 DEF SInv, Marked
    <3>2. Taken(q.left[1], pages[q.cat])
      BY <3>1 DEF Taken
    <3>3. QED
      BY <1>1, <1>6, <1>10, <2>1, <3>2 DEF Lookup
  <2>3. CASE <<q.cat, q.left[1].file>> \notin marks
    BY <1>6, <1>10, <2>1, <2>3 DEF Lookup
  <2>4. QED
    BY <2>2, <2>3
<1>11. QED
  BY <1>8, <1>9, <1>10

\* Of a new page, the handler holds the object until the page is there.
LEMMA StoreSteady ==
  ASSUME IInv, SInv, Faults = {}, NEW r, Requests = {r}, Store(r)
  PROVE  SInv' /\ NoneLeft
<1> DEFINE q    == req[r]
           page == PageOf(q.left[1])
           spot == IF q.call = "append" THEN "mark" ELSE "store"
           seen == Append(q.seen, page)
<1>1. /\ Formed(q) /\ q.at = "store" /\ q.left # <<>> /\ q.seen \in Seq(Page)
      /\ q.call = "append" => Live(q.cat)
  BY DEF Store, Storing, At, IInv, Forms, SInv, Steady, Committed, Formed, Handler
<1>2. q.left \in Seq(Item) /\ Tail(q.left) \in Seq(Item \union Page) /\ page \in Page
  <2>1. q.left \in Seq(Item)
    <3>1. q.left \in Seq(UploadItem) \/ q.left \in Seq(DriveItem)
      BY <1>1, Places DEF Formed
    <3>2. UploadItem \subseteq Item /\ DriveItem \subseteq Item
      BY DEF UploadItem, DriveItem, Item, Files
    <3>3. QED
      BY <3>1, <3>2, SeqMonotonic
  <2>2. q.left[1] \in Item /\ Tail(q.left) \in Seq(Item)
    BY <1>1, <2>1, RangeTail
  <2>3. Tail(q.left) \in Seq(Item \union Page)
    BY <2>2, SeqMonotonic
  <2>4. page.key \in Keys
    BY DEF Store
  <2>5. QED
    BY <2>1, <2>2, <2>3, <2>4 DEF PageOf, Item, Page
<1>3. seen \in Seq(Page) /\ Range(seen) = Range(q.seen) \union {page}
  BY <1>1, <1>2, RangeAppend
<1>4. /\ UNCHANGED <<stage, pages, marks>> /\ object' = object \union {page.key}
      /\ Move(r, spot, Tail(q.left), seen) /\ spot \in Spots /\ r \in Requests
  BY DEF Store, db, redis, Lost, Took, Spots
<1> HIDE DEF seen, page, spot
<1>5. /\ req' = [req EXCEPT ![r] = req'[r]]
      /\ req'[r].at = spot /\ req'[r].call = q.call /\ req'[r].cat = q.cat /\ req'[r].seen = seen
  BY <1>2, <1>3, <1>4, MoveFields
<1>6. Held(req'[r]) = KeysIn(Range(q.seen) \union {page}) /\ Held(q) = KeysIn(Range(q.seen))
  BY <1>1, <1>3, <1>5 DEF Held, spot
<1>7. Steady'
  BY <1>1, <1>4, <1>5 DEF Steady, Committed, Live, spot
<1>8. SkipIsHonest'
  BY <1>5 DEF SkipIsHonest, At, spot
<1>9. NoneLeft
  <2>1. SUFFICES ASSUME NEW k \in object' \intersect Minted, k \in object => Owned(k)
                 PROVE  \/ \E c \in Catalogs : k \in KeysIn(pages[c])
                        \/ k \in Held(req'[r])
    BY <1>4 DEF NoneLeft, Owned, KeysIn
  <2>2. CASE k = page.key
    BY <1>6, <2>2 DEF KeysIn
  <2>3. CASE k \in object
    BY <1>6, <2>1, <2>3 DEF Owned, KeysIn
  <2>4. QED
    BY <1>4, <2>2, <2>3
<1>10. Marked'
  BY <1>1, <1>4 DEF SInv, Marked, At, Live
<1>11. QED
  BY <1>7, <1>8, <1>9, <1>10 DEF SInv

\* A mark is set for the page that is inserted next.
LEMMA MarkSteady ==
  ASSUME IInv, SInv, Faults = {}, NEW r, Requests = {r}, Mark(r)
  PROVE  SInv' /\ NoneLeft
<1> DEFINE q == req[r]
<1>1. /\ q.at = "mark" /\ Live(q.cat) /\ r \in Requests /\ "add" \in Spots
      /\ UNCHANGED <<stage, pages, object>> /\ Goto(r, "add")
      /\ marks' = marks \union {<<q.cat, p.file>> : p \in Range(q.seen)}
  BY DEF Mark, At, SInv, Steady, Committed, Spots, db, bucket, Lost
<1>2. /\ req' = [req EXCEPT ![r] = req'[r]]
      /\ req'[r].at = "add" /\ req'[r].cat = q.cat /\ req'[r].seen = q.seen
  BY <1>1, GotoFields
<1>3. Steady' /\ SkipIsHonest'
  BY <1>1, <1>2 DEF Steady, Committed, Live, SkipIsHonest, At
<1>4. NoneLeft
  BY <1>1, <1>2 DEF NoneLeft, Owned, Held, KeysIn
<1>5. Marked'
  BY <1>1, <1>2 DEF SInv, Marked, At, Live
<1>6. QED
  BY <1>3, <1>4, <1>5 DEF SInv

LEMMA AddSteady ==
  ASSUME IInv, SInv, Faults = {}, NEW r, Requests = {r}, Add(r)
  PROVE  SInv' /\ NoneLeft
<1> DEFINE q == req[r]
<1>1. /\ q.at = "add" /\ Live(q.cat) /\ r \in Requests /\ "fresh" \in Spots /\ q.cat \in Catalogs
      /\ UNCHANGED <<stage, object, marks>> /\ Goto(r, "fresh")
      /\ pages' = [pages EXCEPT ![q.cat] = @ \union Range(q.seen)]
  BY Places DEF Add, At, SInv, Steady, Committed, Spots, bucket, redis, Lost, IInv, Forms, Formed
<1>2. /\ req' = [req EXCEPT ![r] = req'[r]]
      /\ req'[r].at = "fresh" /\ req'[r].cat = q.cat /\ req'[r].seen = q.seen
  BY <1>1, GotoFields
<1>3. Steady' /\ SkipIsHonest'
  BY <1>1, <1>2 DEF Steady, Committed, Live, SkipIsHonest, At
<1>4. /\ \A c \in Catalogs : pages[c] \subseteq pages'[c]
      /\ Range(q.seen) \subseteq pages'[q.cat]
  BY <1>1 DEF IInv, TypeOK
<1>5. NoneLeft
  <2>1. Held(q) \subseteq KeysIn(pages'[q.cat])
    BY <1>1, <1>4 DEF Held, KeysIn
  <2>2. \A c \in Catalogs : KeysIn(pages[c]) \subseteq KeysIn(pages'[c])
    BY <1>4 DEF KeysIn
  <2>3. \A k \in object : Owned(k) => \E c \in Catalogs : k \in KeysIn(pages'[c])
    BY <1>1, <2>1, <2>2 DEF Owned
  <2>4. QED
    BY <1>1, <2>3 DEF NoneLeft, Owned, KeysIn
<1>6. Marked'
  <2>1. \A m \in marks : m[1] \in Catalogs
    BY DEF IInv, TypeOK
  <2>2. QED
    BY <1>1, <1>4, <2>1 DEF SInv, Marked, At, Live
<1>7. QED
  BY <1>3, <1>5, <1>6 DEF SInv

LEMMA CacheSteady ==
  ASSUME IInv, SInv, Faults = {}, NEW r, Requests = {r}, Cache(r) \/ Forget(r)
  PROVE  SInv' /\ NoneLeft
<1> DEFINE q == req[r]
<1>1. UNCHANGED <<stage, pages, object, marks>> /\ r \in Requests /\ q.at \in {"cache", "scrub"}
  BY DEF Cache, Forget, At, db, bucket
<1>2. Held(q) = {} /\ ~At(r, "add")
  BY <1>1 DEF Held, At
<1>3. CASE Cache(r)
  BY <1>1, <1>2, <1>3, Answered DEF Cache
<1>4. CASE Forget(r)
  <2>1. /\ Goto(r, "unlink") /\ "unlink" \in Spots
        /\ Live(q.cat) /\ Range(q.seen) = pages[q.cat]
    BY <1>4 DEF Forget, At, Spots, SInv, Steady, Committed
  <2>2. PICK h : /\ req' = [req EXCEPT ![r] = h]
                 /\ h.at = "unlink" /\ h.cat = q.cat /\ h.seen = q.seen
    BY <1>1, <2>1, GotoFields
  <2>3. QED
    BY <1>1, <1>2, <2>1, <2>2, Onward
<1>5. QED
  BY <1>3, <1>4

LEMMA FreshSteady ==
  ASSUME IInv, SInv, Faults = {}, NEW r, Requests = {r}, Fresh(r)
  PROVE  SInv' /\ NoneLeft
<1> DEFINE q    == req[r]
           list == detail[q.cat] \o q.seen
<1>1. /\ UNCHANGED <<stage, pages, object, marks>> /\ r \in Requests
      /\ q.at = "fresh" /\ Live(q.cat) /\ Held(q) = {} /\ ~At(r, "add")
  BY DEF Fresh, At, db, bucket, redis, Held, SInv, Steady, Committed
<1>2. CASE Answer(r)
  BY <1>1, <1>2, Answered
<1>3. CASE Move(r, "cache", <<>>, list)
  <2>1. list \in Seq(Page) /\ <<>> \in Seq(Item \union Page) /\ "cache" \in Spots
    <3>1. q.cat \in Catalogs /\ q.seen \in Seq(Page)
      BY <1>1, Places DEF IInv, Forms, Formed, Handler
    <3>2. QED
      BY <3>1, RangeConcat, Lists DEF IInv, TypeOK, Spots
  <2> HIDE DEF list
  <2>2. PICK h : /\ req' = [req EXCEPT ![r] = h] /\ h.at = "cache" /\ h.cat = q.cat
    BY <1>1, <1>3, <2>1, MoveFields
  <2>3. QED
    BY <1>1, <2>2, Onward
<1>4. QED
  BY <1>2, <1>3 DEF Fresh, Lost

LEMMA CreateSteady ==
  ASSUME IInv, SInv, Faults = {}, NEW r, Requests = {r}, Create(r)
  PROVE  SInv' /\ NoneLeft
<1> DEFINE q == req[r]
           c == Cardinality({d \in Catalogs : stage[d] # "absent"}) + 1
<1>1. /\ q.at = "store" /\ q.seen \in Seq(Page) /\ c \in Catalogs
      /\ stage' = [stage EXCEPT ![c] = "live"]
      /\ pages' = [pages EXCEPT ![c] = Range(q.seen)]
      /\ req' = [req EXCEPT ![r].at = "cache", ![r].cat = c]
      /\ UNCHANGED <<object, marks>> /\ r \in Requests
  BY DEF Create, At, Lost, bucket, redis, IInv, TypeOK
<1>2. stage[c] = "absent"
  BY <1>1, NextId
<1> HIDE DEF c
<1>3. /\ req'[r].at = "cache" /\ req'[r].cat = c
      /\ stage'[c] = "live" /\ pages'[c] = Range(q.seen) /\ pages[c] = {}
      /\ \A d \in Catalogs \ {c} : stage'[d] = stage[d] /\ pages'[d] = pages[d]
  BY <1>1, <1>2 DEF IInv, TypeOK, NoPageOutlivesCatalog, Live
<1>4. Steady' /\ SkipIsHonest'
  BY <1>3 DEF Steady, Committed, Live, SkipIsHonest, At
<1>5. NoneLeft
  <2>1. Held(q) = KeysIn(pages'[c]) /\ KeysIn(pages[c]) = {}
    BY <1>1, <1>3 DEF Held, KeysIn
  <2>2. \A d \in Catalogs : KeysIn(pages[d]) \subseteq KeysIn(pages'[d])
    BY <1>3, <2>1
  <2>3. \A k \in object : Owned(k) => \E d \in Catalogs : k \in KeysIn(pages'[d])
    BY <1>1, <2>1, <2>2 DEF Owned
  <2>4. QED
    BY <1>1, <2>3 DEF NoneLeft, Owned, KeysIn
<1>6. Marked'
  <2>1. \A m \in marks : m[1] \in Catalogs \ {c} /\ stage[m[1]] # "absent"
    BY <1>2 DEF SInv, Marked, IInv, TypeOK
  <2>2. ~At(r, "add")
    BY <1>1 DEF At
  <2>3. QED
    BY <1>1, <1>3, <2>1, <2>2 DEF SInv, Marked, At, Live
<1>7. QED
  BY <1>4, <1>5, <1>6 DEF SInv

\* A delete removes the objects of all its pages before the pages.
LEMMA DeleteSteady ==
  ASSUME IInv, SInv, Faults = {}, NEW r, Requests = {r}, Scrub(r) \/ Unlink(r)
  PROVE  SInv' /\ NoneLeft
<1> DEFINE q == req[r]
<1>1. /\ UNCHANGED marks /\ r \in Requests /\ q.at \in {"scrub", "unlink"}
      /\ Live(q.cat) /\ Range(q.seen) = pages[q.cat] /\ q.cat \in Catalogs
      /\ Held(q) = {} /\ ~At(r, "add") /\ Formed(q)
  BY Places DEF Scrub, Unlink, At, redis, SInv, Steady, Committed, Held, IInv, Forms, Formed
<1>2. CASE Scrub(r)
  <2> DEFINE left == Tail(q.left)
  <2>1. /\ Move(r, "scrub", left, q.seen) /\ object' \subseteq object
        /\ UNCHANGED <<stage, pages>> /\ "scrub" \in Spots /\ q.left # <<>>
    BY <1>2 DEF Scrub, db, Lost, Spots
  <2>2. left \in Seq(Item \union Page) /\ q.seen \in Seq(Page)
    BY <1>1, <1>2, <2>1, Places, RangeTail, Lists DEF Formed, Handler
  <2> HIDE DEF left
  <2>3. /\ req' = [req EXCEPT ![r] = req'[r]]
        /\ req'[r].at = "scrub" /\ req'[r].cat = q.cat /\ req'[r].seen = q.seen
    <3>1. PICK seen \in Seq(Page) : seen = q.seen
      BY <2>2
    <3>2. Move(r, "scrub", left, seen)
      BY <2>1, <3>1
    <3>3. /\ req' = [req EXCEPT ![r] = req'[r]]
          /\ req'[r].at = "scrub" /\ req'[r].cat = req[r].cat /\ req'[r].seen = seen
      <4>1. r \in Requests /\ "scrub" \in Spots /\ left \in Seq(Item \union Page)
        BY <1>1, <2>1, <2>2
      <4>2. QED
        BY <3>1, <3>2, <4>1, MoveFields, ZenonT(30)
    <3>4. QED
      BY <3>1, <3>3
  <2>4. Steady' /\ SkipIsHonest'
    BY <1>1, <2>1, <2>3 DEF Steady, Committed, Live, SkipIsHonest, At
  <2>5. NoneLeft
    BY <1>1, <2>1, <2>3 DEF NoneLeft, Owned, Held, KeysIn
  <2>6. Marked'
    BY <1>1, <2>1 DEF SInv, Marked, At, Live
  <2>7. QED
    BY <2>4, <2>5, <2>6 DEF SInv
<1>3. CASE Unlink(r)
  <2>1. /\ stage' = [stage EXCEPT ![q.cat] = "deleted"]
        /\ pages' = [pages EXCEPT ![q.cat] = {}]
        /\ req' = [req EXCEPT ![r] = Idle] /\ UNCHANGED object /\ q.at = "unlink"
    BY <1>3 DEF Unlink, Answer, Lost, bucket, At
  <2>2. /\ req'[r] = Idle /\ Idle.at = "idle"
        /\ stage'[q.cat] = "deleted"
        /\ \A d \in Catalogs \ {q.cat} : stage'[d] = stage[d] /\ pages'[d] = pages[d]
    BY <1>1, <2>1 DEF Idle, IInv, TypeOK
  <2>3. Steady' /\ SkipIsHonest'
    BY <2>2 DEF Steady, Committed, SkipIsHonest, At
  <2>4. KeysIn(pages[q.cat]) \intersect object = {}
    BY <1>1, <2>1 DEF IInv, Gone, GoneIn, Passed
  <2>5. \A k \in object : Owned(k) => \E d \in Catalogs : k \in KeysIn(pages'[d])
    BY <1>1, <2>1, <2>2, <2>4 DEF Owned
  <2>6. NoneLeft
    BY <2>1, <2>5 DEF NoneLeft, Owned, KeysIn
  <2>7. Marked'
    <3>1. \A m \in marks : m[1] \in Catalogs
      BY DEF IInv, TypeOK
    <3>2. QED
      BY <1>1, <2>2, <3>1 DEF SInv, Marked, At, Live
  <2>8. QED
    BY <2>3, <2>6, <2>7 DEF SInv
<1>4. QED
  BY <1>2, <1>3

LEMMA StepSteady ==
  ASSUME Alone, IInv, SInv, [Next]_vars
  PROVE  SInv' /\ (NoneLeft \/ \E r \in Requests : Requests = {r} /\ Refuse(r))
<1>1. ASSUME UNCHANGED <<stage, pages, object, req>>, marks' \subseteq marks
      PROVE  SInv' /\ NoneLeft
  BY <1>1 DEF SInv, Steady, Live, SkipIsHonest, At, Taken, NoneLeft, Owned, KeysIn, Marked
<1>2. CASE UNCHANGED vars \/ ExpireMark \/ \E c \in Catalogs : ExpireDetail(c)
  BY <1>1, <1>2 DEF vars, ExpireMark, ExpireDetail, db, bucket
<1>3. ASSUME NEW r \in Requests, Ask(r) \/ Handle(r)
      PROVE  SInv' /\ (NoneLeft \/ (Requests = {r} /\ Refuse(r)))
  <2>1. Requests = {r} /\ Faults = {}
    BY DEF Alone
  <2>2. QED
    BY <1>3, <2>1, AskSteady, ReadSteady, StoreSteady, RefuseSteady, MarkSteady, AddSteady, FreshSteady,
       CacheSteady, CreateSteady, DeleteSteady DEF Handle
<1>4. QED
  BY <1>2, <1>3 DEF Next

LEMMA SteadyInvariance ==
  ASSUME Alone
  PROVE  Spec => [](IInv /\ SInv)
<1>1. Init => IInv /\ SInv
  <2>1. Init => SInv
    BY DEF Init, Idle, SInv, Steady, Committed, SkipIsHonest, At, Marked
  <2>2. QED
    BY <2>1, Initially
<1>2. (IInv /\ SInv) /\ [Next]_vars => (IInv /\ SInv)'
  BY StepKeeps, StepSteady
<1>3. QED
  BY <1>1, <1>2, PTL DEF Spec

-----------------------------------------------------------------------------
(* Without failures and rivals no step leaves an uploaded object without a *)
(* page, but the refusal of a form half way, and that only those of the    *)
(* files before the refused one (handleCatalogUpload, handleUploadCatalog, *)
(* handleCatalogDelete).                                                   *)
THEOREM OnlyRefusalsLeaveObjects ==
  ASSUME Alone
  PROVE  Spec => OnlyRefusalsOrphan
<1> DEFINE Blamed == \A k \in Unowned' \ Unowned : \E r \in Requests : Refuse(r) /\ k \in InHand(r)
<1>1. \A k \in Minted : k \in Unowned <=> k \in object /\ ~Owned(k)
  BY DEF Unowned, InHand, Owned, Held, KeysIn
<1>2. \A k \in Minted : k \in Unowned' <=> k \in object' /\ ~Owned(k)'
  BY DEF Unowned, InHand, Owned, Held, KeysIn
<1>3. Unowned \subseteq Minted /\ Unowned' \subseteq Minted
  BY DEF Unowned, Minted
<1>4. NoneLeft => Blamed
  BY <1>1, <1>2, <1>3 DEF NoneLeft
<1>5. ASSUME NEW r \in Requests, Requests = {r}, Refuse(r)
      PROVE  Blamed
  <2>1. UNCHANGED <<pages, object>>
    BY <1>5 DEF Refuse, db, bucket
  <2>2. ASSUME NEW k \in Unowned' \ Unowned
        PROVE  k \in InHand(r)
    <3>1. k \in Minted /\ Owned(k) /\ ~Owned(k)'
      BY <1>1, <1>2, <1>3, <2>1, <2>2
    <3>2. k \in Held(req[r])
      BY <1>5, <2>1, <3>1 DEF Owned, KeysIn
    <3>3. QED
      BY <3>2 DEF Held, InHand, KeysIn
  <2>3. QED
    BY <1>5, <2>2
<1>6. IInv /\ SInv /\ [Next]_vars => [Blamed]_vars
  BY <1>4, <1>5, StepSteady
<1>7. QED
  BY <1>6, SteadyInvariance, PTL DEF Spec, OnlyRefusalsOrphan

(* An upload that is skipped is in the catalog: a mark outlives the page   *)
(* only in the hands of a rival or of a failure (handleUploadCatalogPage). *)
THEOREM SkipsAreHonest ==
  ASSUME Alone
  PROVE  Spec => []SkipIsHonest
<1>1. IInv /\ SInv => SkipIsHonest
  BY DEF SInv
<1>2. QED
  BY <1>1, SteadyInvariance, PTL

-----------------------------------------------------------------------------
(* Every catalog has a listing, so GET always has one to show.             *)

LEMMA Least ==
  ASSUME NEW T \in SUBSET Nat, T # {}
  PROVE  \E n \in T : \A m \in T : n <= m
<1> DEFINE R == OpToRel(<, Nat)
<1>1. IsWellFoundedOn(R, Nat)
  BY NatLessThanWellFounded
<1>2. \A m, n \in Nat : <<m, n>> \in R <=> m < n
  BY DEF OpToRel
<1> HIDE DEF R
<1>3. PICK n \in T : \A m \in T : ~(<<m, n>> \in R)
  BY <1>1, WFMin
<1>4. ASSUME NEW m \in T
      PROVE  n <= m
  <2>1. m \in Nat /\ n \in Nat
    OBVIOUS
  <2>2. ~(m < n)
    BY <1>2, <1>3, <2>1
  <2>3. QED
    BY <2>1, <2>2
<1>5. QED
  BY <1>4

LEMMA Ranks == \A p \in Page : p.order \in Nat /\ Name[p.file] \in Nat
BY NameAssumption DEF Page

LEMMA FirstPage ==
  ASSUME NEW some \in SUBSET Page, some # {}
  PROVE  \E m \in some : \A p \in some : Before(m, p)
<1> DEFINE O == {p.order : p \in some}
<1>1. O \in SUBSET Nat /\ O # {}
  BY Ranks
<1>2. PICK o \in O : \A k \in O : o <= k
  BY <1>1, Least
<1> DEFINE N == {Name[p.file] : p \in {x \in some : x.order = o}}
<1>3. N \in SUBSET Nat /\ N # {}
  BY <1>2, Ranks
<1>4. PICK n \in N : \A k \in N : n <= k
  BY <1>3, Least
<1>5. PICK m \in some : m.order = o /\ Name[m.file] = n
  BY <1>4
<1>6. ASSUME NEW p \in some
      PROVE  Before(m, p)
  <2>1. o <= p.order /\ o \in Nat /\ p.order \in Nat
    BY <1>1, <1>2
  <2>2. CASE p.order = o
    BY <1>4, <1>5, <2>2 DEF Before
  <2>3. CASE p.order # o
    BY <1>5, <2>1, <2>3 DEF Before
  <2>4. QED
    BY <2>2, <2>3
<1>7. QED
  BY <1>6

LEMMA ListingGrows ==
  ASSUME NEW some \in SUBSET Page, IsFiniteSet(some), NEW m \in some,
         \A p \in some : Before(m, p), NEW rest \in Listings(some \ {m})
  PROVE  Listings(some) # {}
<1> DEFINE n    == Cardinality(some \ {m})
           list == [i \in 1..n + 1 |-> IF i = 1 THEN m ELSE rest[i - 1]]
<1>1. n \in Nat /\ Cardinality(some) = n + 1
  <2>1. IsFiniteSet(some \ {m}) /\ n = Cardinality(some) - 1
    BY FS_RemoveElement
  <2>2. n \in Nat /\ Cardinality(some) \in Nat
    BY <2>1, FS_CardinalityType
  <2>3. QED
    BY <2>1, <2>2
<1>2. /\ rest \in [1..n -> some \ {m}]
      /\ \A i, k \in 1..n : rest[i] = rest[k] => i = k
      /\ \A i, k \in 1..n : i < k => Before(rest[i], rest[k])
  BY DEF Listings, Injection, IsInjective
<1> HIDE DEF n
<1>3. \A i \in 1..n + 1 : i = 1 \/ (i # 1 /\ i - 1 \in 1..n)
  BY <1>1
<1>4. list \in [1..n + 1 -> some]
  BY <1>2, <1>3
<1>5. ASSUME NEW i \in 1..n + 1, NEW k \in 1..n + 1, list[i] = list[k]
      PROVE  i = k
  BY <1>1, <1>2, <1>3, <1>5
<1>6. ASSUME NEW i \in 1..n + 1, NEW k \in 1..n + 1, i < k
      PROVE  Before(list[i], list[k])
  <2>1. k # 1 /\ list[k] = rest[k - 1] /\ k - 1 \in 1..n
    BY <1>1, <1>3, <1>6
  <2>2. CASE i = 1
    BY <1>2, <2>1, <2>2
  <2>3. CASE i # 1
    <3>1. list[i] = rest[i - 1] /\ i - 1 \in 1..n /\ i - 1 < k - 1
      BY <1>1, <1>3, <1>6, <2>3
    <3>2. QED
      BY <1>2, <2>1, <3>1
  <2>4. QED
    BY <2>2, <2>3
<1>7. DOMAIN list = 1..n + 1
  OBVIOUS
<1> HIDE DEF list
<1>8. list \in Listings(some)
  BY <1>1, <1>4, <1>5, <1>6, <1>7 DEF Listings, Injection, IsInjective
<1>9. QED
  BY <1>8

LEMMA ListingExists ==
  ASSUME NEW some \in SUBSET Page, IsFiniteSet(some)
  PROVE  Listings(some) # {}
<1> DEFINE Bad == {s \in SUBSET Page : IsFiniteSet(s) /\ Listings(s) = {}}
           T   == {Cardinality(s) : s \in Bad}
<1>1. SUFFICES ASSUME Bad # {} PROVE FALSE
  OBVIOUS
<1>2. T \in SUBSET Nat /\ T # {}
  BY <1>1, FS_CardinalityType
<1>3. PICK n \in T : \A k \in T : n <= k
  BY <1>2, Least
<1>4. PICK s \in Bad : Cardinality(s) = n
  BY <1>3
<1>5. CASE s = {}
  <2>1. Cardinality(s) = 0
    BY <1>5, FS_EmptySet
  <2> DEFINE none == [i \in 1..0 |-> 0]
  <2>2. none \in Injection(1..0, s)
    BY <1>5 DEF Injection, IsInjective
  <2>3. \A i, k \in DOMAIN none : i < k => Before(none[i], none[k])
    OBVIOUS
  <2> HIDE DEF none
  <2>4. none \in Listings(s)
    BY <2>1, <2>2, <2>3 DEF Listings
  <2>5. QED
    BY <2>4
<1>6. CASE s # {}
  <2>1. PICK m \in s : \A p \in s : Before(m, p)
    BY <1>6, FirstPage
  <2>2. /\ IsFiniteSet(s) /\ IsFiniteSet(s \ {m}) /\ s \ {m} \in SUBSET Page
        /\ Cardinality(s \ {m}) = n - 1 /\ n \in Nat
    BY <1>2, <1>4, FS_RemoveElement
  <2>3. Cardinality(s \ {m}) \notin T
    BY <1>3, <2>2
  <2>4. PICK rest : rest \in Listings(s \ {m})
    BY <2>2, <2>3
  <2>5. Listings(s) # {}
    BY <2>1, <2>2, <2>4, ListingGrows
  <2>6. QED
    BY <2>5
<1>7. QED
  BY <1>5, <1>6

-----------------------------------------------------------------------------
(* The catalogs their client expects.  A folder lists a file of Drive once *)
(* (Once).  A cached detail is the catalog, except that it may lack the    *)
(* page that has just been appended (Mirror); what the handler has checked *)
(* or collected still fits its catalog (Trim).                             *)

Once == \A form \in Folders : IsInjective(form)

Clear(p, some) == \A x \in some : x.order # p.order /\ Name[x.file] # Name[p.file]

\* The pages collected for a new catalog are distinct.
Singular(q) ==
    /\ IsInjective(q.seen)
    /\ q.call = "upload" => \A p \in Range(q.seen) : p.key \in Minted
    /\ q.call = "drive" =>
          /\ IsInjective(q.left)
          /\ \A p \in Range(q.seen), x \in Range(q.left) : <<p.file, p.order>> # <<x.file, x.order>>

Checked(q) == q.at = "lookup" \/ (q.at = "store" /\ q.call = "append")

Trimmed(q) ==
    /\ Checked(q) => ~Taken(q.left[1], pages[q.cat])
    /\ q.at \in {"mark", "add"} => \E p \in Page : q.seen = <<p>> /\ Clear(p, pages[q.cat])
    /\ q.at = "fresh" => \E p \in pages[q.cat] :
          /\ q.seen = <<p>> /\ Clear(p, pages[q.cat] \ {p})
          /\ q.cat \in cached => Range(detail[q.cat]) = pages[q.cat] \ {p}
    /\ q.at = "cache" => IsInjective(q.seen) /\ Range(q.seen) = pages[q.cat]
    /\ q.at = "unlink" => q.cat \notin cached
    /\ q.at = "store" /\ q.call # "append" => Singular(q)

Trim == \A r \in Requests : Trimmed(req[r])

\* The handler has inserted a page, and is about to cache the detail.
Lags(q, c) == q.call = "append" /\ q.at \in {"fresh", "cache"} /\ q.cat = c

Mirror ==
    \A c \in cached :
        /\ Live(c) /\ IsInjective(detail[c])
        /\ \/ Range(detail[c]) = pages[c]
           \/ /\ \E r \in Requests : Lags(req[r], c)
              /\ \E p \in Page : /\ Clear(p, Range(detail[c]))
                                /\ pages[c] = Range(detail[c]) \union {p}

CInv == Trim /\ Mirror

LEMMA AppendDistinct ==
  ASSUME NEW S, NEW s \in Seq(S), NEW e \in S, IsInjective(s), e \notin Range(s)
  PROVE  IsInjective(Append(s, e))
<1>1. /\ DOMAIN Append(s, e) = 1..Len(s) + 1
      /\ \A i \in 1..Len(s) : Append(s, e)[i] = s[i]
      /\ Append(s, e)[Len(s) + 1] = e
  OBVIOUS
<1>2. DOMAIN s = 1..Len(s) /\ Len(s) \in Nat
  OBVIOUS
<1>3. \A i \in 1..Len(s) + 1 : i = Len(s) + 1 \/ i \in 1..Len(s)
  BY <1>2
<1>4. \A i \in 1..Len(s) : s[i] # e
  BY <1>2 DEF Range
<1>5. \A i, k \in 1..Len(s) : s[i] = s[k] => i = k
  BY <1>2 DEF IsInjective
<1>6. ASSUME NEW i \in 1..Len(s) + 1, NEW k \in 1..Len(s) + 1, Append(s, e)[i] = Append(s, e)[k]
      PROVE  i = k
  BY <1>1, <1>3, <1>4, <1>5, <1>6
<1>7. QED
  BY <1>1, <1>6 DEF IsInjective

LEMMA TailDistinct ==
  ASSUME NEW S, NEW s \in Seq(S), s # <<>>, IsInjective(s)
  PROVE  IsInjective(Tail(s)) /\ s[1] \notin Range(Tail(s))
<1>1. /\ Tail(s) \in Seq(S) /\ Len(Tail(s)) = Len(s) - 1
      /\ \A i \in 1..Len(Tail(s)) : Tail(s)[i] = s[i + 1]
      /\ Len(s) \in Nat \ {0}
  BY HeadTailProperties, EmptySeq
<1>2. DOMAIN s = 1..Len(s) /\ DOMAIN Tail(s) = 1..Len(s) - 1
  BY <1>1
<1>3. \A i \in 1..Len(s) - 1 : i + 1 \in 1..Len(s) /\ i + 1 # 1 /\ Tail(s)[i] = s[i + 1]
  BY <1>1
<1>4. \A i, k \in 1..Len(s) : s[i] = s[k] => i = k
  BY <1>2 DEF IsInjective
<1>5. ASSUME NEW i \in 1..Len(s) - 1, NEW k \in 1..Len(s) - 1, Tail(s)[i] = Tail(s)[k]
      PROVE  i = k
  <2>1. i + 1 = k + 1
    BY <1>3, <1>4, <1>5
  <2>2. QED
    BY <2>1, <1>1
<1>6. ASSUME NEW i \in 1..Len(s) - 1
      PROVE  Tail(s)[i] # s[1]
  <2>1. 1 \in 1..Len(s)
    BY <1>1
  <2>2. QED
    BY <1>3, <1>4, <2>1
<1>7. QED
  BY <1>2, <1>5, <1>6 DEF IsInjective, Range

\* A step that leaves the catalogs and the cached details alone.
LEMMA Passing ==
  ASSUME IInv, CInv, NEW r, Requests = {r}, NEW h, req' = [req EXCEPT ![r] = h],
         UNCHANGED <<stage, pages, cached, detail>>, Trimmed(h),
         req[r].at \in {"fresh", "cache"} =>
            \/ req[r].cat \notin cached
            \/ h.at = "cache" /\ h.call = req[r].call /\ h.cat = req[r].cat
  PROVE  CInv'
<1>1. req'[r] = h
  BY DEF IInv, TypeOK
<1>2. Trim'
  <2>1. Trimmed(h)'
    BY DEF Trimmed, Taken
  <2>2. QED
    BY <1>1, <2>1 DEF Trim, Trimmed
<1>3. ASSUME NEW c \in cached
      PROVE  /\ Live(c) /\ IsInjective(detail[c])
             /\ \/ Range(detail[c]) = pages[c]
                \/ /\ Lags(h, c)
                   /\ \E p \in Page : /\ Clear(p, Range(detail[c]))
                                     /\ pages[c] = Range(detail[c]) \union {p}
  <2>1. Lags(req[r], c) => Lags(h, c)
    BY <1>3 DEF Lags
  <2>2. QED
    BY <2>1 DEF CInv, Mirror
<1>4. Mirror'
  BY <1>1, <1>3 DEF Mirror, Live, Lags, Clear
<1>5. QED
  BY <1>2, <1>4 DEF CInv

LEMMA AskTrim ==
  ASSUME Once, IInv, CInv, NEW r, Requests = {r}, Ask(r)
  PROVE  CInv'
<1>1. \E spot, call, c, left :
         /\ Begin(r, spot, call, c, left)
         /\ \/ spot \in {"peek", "row"}
            \/ spot = "store" /\ call = "upload"
            \/ spot = "store" /\ call = "drive" /\ IsInjective(left)
  <2>1. CASE AskDrive(r) \/ AskUpload(r)
    BY <2>1 DEF AskDrive, AskUpload, Once
  <2>2. CASE AskAppend(r)
    BY <2>2 DEF AskAppend
  <2>3. CASE AskDelete(r) \/ AskDetail(r)
    BY <2>3 DEF AskDelete, AskDetail
  <2>4. QED
    BY <2>1, <2>2, <2>3 DEF Ask
<1>2. PICK spot, call, c, left :
         /\ Begin(r, spot, call, c, left)
         /\ \/ spot \in {"peek", "row"}
            \/ spot = "store" /\ call = "upload"
            \/ spot = "store" /\ call = "drive" /\ IsInjective(left)
  BY <1>1
<1> DEFINE h == [at |-> spot, call |-> call, cat |-> c, left |-> left, seen |-> <<>>]
<1>3. req' = [req EXCEPT ![r] = h] /\ req[r].at = "idle"
  BY <1>2 DEF Begin, At
<1>4. h.at = spot /\ h.call = call /\ h.left = left /\ h.seen = <<>>
  OBVIOUS
<1>5. UNCHANGED <<stage, pages, cached, detail>>
  BY <1>2 DEF Begin, db, redis
<1> HIDE DEF h
<1>6. Range(h.seen) = {} /\ IsInjective(h.seen)
  BY <1>4, RangeEmpty DEF IsInjective
<1>7. Trimmed(h)
  BY <1>2, <1>4, <1>6 DEF Trimmed, Checked, Singular
<1>8. QED
  BY <1>3, <1>5, <1>7, Passing

LEMMA AnswerTrims ==
  ASSUME IInv, CInv, NEW r, Requests = {r}, Answer(r), UNCHANGED <<stage, pages, cached, detail>>,
         req[r].at \in {"fresh", "cache"} => req[r].cat \notin cached
  PROVE  CInv'
<1>1. req' = [req EXCEPT ![r] = Idle]
  BY DEF Answer
<1>2. Trimmed(Idle)
  BY DEF Idle, Trimmed, Checked
<1>3. QED
  BY <1>1, <1>2, Passing

LEMMA RefuseTrims ==
  ASSUME IInv, CInv, NEW r, Requests = {r}, Refuse(r)
  PROVE  CInv'
BY AnswerTrims DEF Refuse, At, db, redis

LEMMA ReadTrims ==
  ASSUME IInv, CInv, Faults = {}, NEW r, Requests = {r},
         Peek(r) \/ ReadRow(r) \/ ReadPages(r) \/ ReadPagesFails(r) \/ Lookup(r) \/ Skip(r)
  PROVE  CInv'
<1> DEFINE q == req[r]
<1>1. UNCHANGED <<stage, pages, cached, detail>> /\ ~Lost
  BY DEF Peek, ReadRow, ReadPages, ReadPagesFails, Lookup, Skip, db, bucket, redis, Lost
<1>2. q.at \in {"peek", "row", "pages", "lookup", "skip"} /\ Formed(q) /\ Trimmed(q)
  BY DEF Peek, ReadRow, ReadPages, ReadPagesFails, Lookup, Skip, At, IInv, Forms, CInv, Trim
<1>3. CASE Answer(r)
  BY <1>1, <1>2, <1>3, AnswerTrims
<1>4. CASE \E spot \in {"row", "pages", "skip"} : Goto(r, spot)
  <2>1. {"row", "pages", "skip"} \subseteq Spots /\ r \in Requests
    BY DEF Spots
  <2>2. PICK h : req' = [req EXCEPT ![r] = h] /\ h.at \in {"row", "pages", "skip"}
    BY <1>4, <2>1, GotoFields
  <2>3. Trimmed(h)
    BY <2>2 DEF Trimmed, Checked
  <2>4. QED
    BY <1>1, <1>2, <2>2, <2>3, Passing
<1>5. CASE /\ Goto(r, "lookup") \/ (Goto(r, "store") /\ q.call = "append")
           /\ ~Taken(q.left[1], pages[q.cat])
  <2>1. {"lookup", "store"} \subseteq Spots /\ r \in Requests
    BY DEF Spots
  <2>2. PICK h : /\ req' = [req EXCEPT ![r] = h] /\ h.cat = q.cat /\ h.left = q.left
                 /\ h.at = "lookup" \/ (h.at = "store" /\ h.call = "append")
    BY <1>5, <2>1, GotoFields
  <2>3. Trimmed(h)
    BY <1>5, <2>2 DEF Trimmed, Checked
  <2>4. QED
    BY <1>1, <1>2, <2>2, <2>3, Passing
<1>6. CASE q.at = "pages" /\ \E list \in Listings(pages[q.cat]) :
              Move(r, "cache", <<>>, list) \/ Move(r, "scrub", list, list)
  <2>1. PICK list \in Listings(pages[q.cat]) :
           Move(r, "cache", <<>>, list) \/ Move(r, "scrub", list, list)
    BY <1>6
  <2>2. list \in Seq(Page) /\ Range(list) = pages[q.cat] /\ IsInjective(list)
    <3>1. q.cat \in Catalogs
      BY <1>2, <1>6, Places DEF Formed
    <3>2. pages[q.cat] \in SUBSET Page /\ IsFiniteSet(pages[q.cat])
      BY <3>1 DEF IInv, TypeOK, Finite
    <3>3. QED
      BY <3>2, ListingShows
  <2>3. list \in Seq(Item \union Page) /\ <<>> \in Seq(Item \union Page)
    BY <2>2, Lists
  <2>4. {"cache", "scrub"} \subseteq Spots /\ r \in Requests
    BY DEF Spots
  <2>5. PICK h : /\ req' = [req EXCEPT ![r] = h] /\ h.cat = q.cat /\ h.seen = list
                 /\ h.at \in {"cache", "scrub"}
    BY <2>1, <2>2, <2>3, <2>4, MoveFields, ZenonT(30)
  <2>6. Trimmed(h)
    BY <2>2, <2>5 DEF Trimmed, Checked
  <2>7. QED
    BY <1>1, <1>2, <2>5, <2>6, Passing
<1>7. CASE Peek(r) \/ ReadRow(r) \/ ReadPagesFails(r) \/ Skip(r)
  BY <1>1, <1>3, <1>4, <1>7 DEF Peek, ReadRow, ReadPagesFails, Skip
<1>8. CASE ReadPages(r)
  BY <1>1, <1>4, <1>5, <1>6, <1>8 DEF ReadPages, At
<1>9. CASE Lookup(r)
  <2>1. q.call = "append" /\ ~Taken(q.left[1], pages[q.cat])
    BY <1>2, <1>9, Places DEF Lookup, At, Trimmed, Checked
  <2>2. QED
    BY <1>1, <1>4, <1>5, <1>9, <2>1 DEF Lookup
<1>10. QED
  BY <1>7, <1>8, <1>9

\* The page takes the order and the name that were found free, or a key or
\* a place in the folder that no page before it has.
LEMMA StoreTrims ==
  ASSUME IInv, CInv, Faults = {}, NEW r, Requests = {r}, Store(r)
  PROVE  CInv'
<1> DEFINE q    == req[r]
           item == q.left[1]
           page == PageOf(item)
           left == Tail(q.left)
           spot == IF q.call = "append" THEN "mark" ELSE "store"
           seen == Append(q.seen, page)
<1>1. /\ Formed(q) /\ q.at = "store" /\ q.left # <<>> /\ q.seen \in Seq(Page) /\ r \in Requests
      /\ Trimmed(q) /\ q.call \in {"append", "drive", "upload"}
      /\ Held(q) \subseteq 1..minted /\ minted \in Nat
  <2>1. Formed(q) /\ q.at = "store" /\ q.left # <<>> /\ r \in Requests /\ Trimmed(q)
    BY DEF Store, Storing, At, IInv, Forms, CInv, Trim
  <2>2. q.seen \in Seq(Page) /\ q.call \in {"append", "drive", "upload"}
    BY <2>1, Places DEF Formed, Handler
  <2>3. Held(q) \subseteq 1..minted /\ minted \in Nat
    BY DEF IInv, Used, TypeOK
  <2>4. QED
    BY <2>1, <2>2, <2>3
<1>2. /\ item \in Item /\ left \in Seq(Item \union Page)
      /\ q.call \in {"append", "upload"} => item.file \in Uploads
  <2>1. CASE q.call = "drive"
    <3>1. q.left \in Seq(DriveItem)
      BY <1>1, <2>1 DEF Formed
    <3>2. item \in DriveItem /\ left \in Seq(DriveItem)
      BY <1>1, <3>1, RangeTail
    <3>3. QED
      BY <2>1, <3>2, Lists DEF DriveItem, Item, Files
  <2>2. CASE q.call # "drive"
    <3>1. q.left \in Seq(UploadItem)
      BY <1>1, <2>2 DEF Formed
    <3>2. item \in UploadItem /\ left \in Seq(UploadItem)
      BY <1>1, <3>1, RangeTail
    <3>3. QED
      BY <2>2, <3>2, Lists DEF UploadItem, Item, Files
  <2>3. QED
    BY <2>1, <2>2
<1>3. page.file = item.file /\ page.order = item.order /\ page \in Page
  BY <1>2 DEF Store, PageOf, Item, Page
<1>4. q.call = "upload" => page.key = minted + 1 /\ page.key \in Minted
  <2>1. ASSUME q.call = "upload"
        PROVE  page.key = minted + 1 /\ page.key \in Minted
    <3>1. item.file \notin Sources
      BY <1>2, <2>1, SourcesAssumption
    <3>2. page.key = minted + 1 /\ page.key \in Keys
      BY <3>1 DEF Store, PageOf, KeyOf
    <3>3. page.key \notin Sources
      BY <1>1, <3>2, SourcesAssumption
    <3>4. QED
      BY <3>2, <3>3 DEF Keys
  <2>2. QED
    BY <2>1
<1>5. seen \in Seq(Page) /\ Range(seen) = Range(q.seen) \union {page}
  BY <1>1, <1>3, RangeAppend
<1>6. /\ UNCHANGED <<stage, pages, cached, detail>>
      /\ Move(r, spot, left, seen) /\ spot \in Spots
  BY DEF Store, db, redis, Lost, Took, Spots
<1>7. IsInjective(q.seen) /\ page \notin Range(q.seen) => IsInjective(seen)
  BY <1>1, <1>3, AppendDistinct
<1>8. q.call = "append" => seen = <<page>>
  <2>1. q.call = "append" => q.seen = <<>>
    BY <1>1 DEF Formed
  <2>2. Append(<<>>, page) = <<page>>
    OBVIOUS
  <2>3. QED
    BY <2>1, <2>2
<1>9. IsInjective(q.left) => IsInjective(left) /\ item \notin Range(left)
  <2>1. q.left \in Seq(Item \union Page)
    BY <1>1 DEF Formed, Handler
  <2>2. QED
    BY <1>1, <2>1, TailDistinct
<1>10. Range(q.left) = Range(left) \union {item}
  <2>1. q.left \in Seq(Item \union Page)
    BY <1>1 DEF Formed, Handler
  <2>2. QED
    BY <1>1, <2>1, RangeTail
<1>11. q.call = "drive" => \A x \in Range(left) : x \in DriveItem
  <2>1. ASSUME q.call = "drive"
        PROVE  Range(left) \subseteq DriveItem
    <3>1. q.left \in Seq(DriveItem)
      BY <1>1, <2>1 DEF Formed
    <3>2. left \in Seq(DriveItem)
      BY <1>1, <3>1, RangeTail
    <3>3. QED
      BY <3>2, RangeType
  <2>2. QED
    BY <2>1
<1> HIDE DEF left, seen, page
<1>12. PICK h : /\ req' = [req EXCEPT ![r] = h] /\ h.at = spot /\ h.call = q.call /\ h.cat = q.cat
                /\ h.left = left /\ h.seen = seen
  <2> HIDE DEF spot
  <2>1. /\ req' = [req EXCEPT ![r] = req'[r]]
        /\ req'[r].at = spot /\ req'[r].call = q.call /\ req'[r].cat = q.cat
        /\ req'[r].left = left /\ req'[r].seen = seen
    BY <1>1, <1>2, <1>5, <1>6, MoveFields
  <2>2. QED
    BY <2>1
<1>13. CASE q.call = "append"
  <2>1. Clear(page, pages[q.cat])
    BY <1>1, <1>3, <1>13 DEF Trimmed, Checked, Taken, Clear
  <2>2. Trimmed(h)
    BY <1>3, <1>8, <1>12, <1>13, <2>1 DEF Trimmed, Checked
  <2>3. QED
    BY <1>1, <1>6, <1>12, <2>2, Passing
<1>14. CASE q.call \in {"upload", "drive"}
  <2>1. Singular(q)
    BY <1>1, <1>14 DEF Trimmed
  <2>2. page \notin Range(q.seen)
    <3>1. CASE q.call = "upload"
      <4>1. \A p \in Range(q.seen) : p.key \in 1..minted
        BY <1>1, <2>1, <3>1 DEF Singular, Held, KeysIn
      <4>2. QED
        BY <1>1, <1>4, <3>1, <4>1
    <3>2. CASE q.call = "drive"
      BY <1>3, <1>10, <2>1, <3>2 DEF Singular
    <3>3. QED
      BY <1>14, <3>1, <3>2
  <2>3. Singular(h)
    <3>1. IsInjective(h.seen)
      BY <1>7, <1>12, <2>1, <2>2 DEF Singular
    <3>2. CASE q.call = "upload"
      BY <1>4, <1>5, <1>12, <2>1, <3>1, <3>2 DEF Singular
    <3>3. CASE q.call = "drive"
      <4>1. IsInjective(left) /\ item \notin Range(left)
        BY <1>9, <2>1, <3>3 DEF Singular
      <4>2. ASSUME NEW x \in Range(left)
            PROVE  <<page.file, page.order>> # <<x.file, x.order>>
        <5>1. x \in DriveItem /\ item \in DriveItem
          <6>1. q.left \in Seq(DriveItem)
            BY <1>1, <3>3 DEF Formed
          <6>2. QED
            BY <1>1, <1>11, <3>3, <4>2, <6>1, RangeTail
        <5>2. x # item
          BY <4>1, <4>2
        <5>3. QED
          BY <1>3, <5>1, <5>2 DEF DriveItem
      <4>3. \A p \in Range(q.seen), x \in Range(left) : <<p.file, p.order>> # <<x.file, x.order>>
        BY <1>10, <2>1, <3>3 DEF Singular
      <4>4. QED
        BY <1>5, <1>12, <3>1, <3>3, <4>1, <4>2, <4>3 DEF Singular
    <3>4. QED
      BY <1>14, <3>2, <3>3
  <2>4. Trimmed(h)
    BY <1>12, <1>14, <2>3 DEF Trimmed, Checked
  <2>5. QED
    BY <1>1, <1>6, <1>12, <2>4, Passing
<1>15. QED
  BY <1>1, <1>13, <1>14

LEMMA MarkTrims ==
  ASSUME IInv, CInv, NEW r, Requests = {r}, Mark(r)
  PROVE  CInv'
<1> DEFINE q == req[r]
<1>1. /\ q.at = "mark" /\ r \in Requests /\ "add" \in Spots /\ Trimmed(q)
      /\ UNCHANGED <<stage, pages, cached, detail>> /\ Goto(r, "add")
  BY DEF Mark, At, CInv, Trim, Spots, db
<1>2. PICK h : /\ req' = [req EXCEPT ![r] = h]
               /\ h.at = "add" /\ h.cat = q.cat /\ h.seen = q.seen
  BY <1>1, GotoFields
<1>3. Trimmed(h)
  BY <1>1, <1>2 DEF Trimmed, Checked
<1>4. QED
  BY <1>1, <1>2, <1>3, Passing

LEMMA RangeOne == \A p : Range(<<p>>) = {p}
BY DEF Range

\* What Add does when nothing fails: the page is new, and the cached detail
\* now lags behind by it.
LEMMA Added ==
  ASSUME IInv, SInv, CInv, Faults = {}, NEW r, Requests = {r}, Add(r)
  PROVE  LET c == req[r].cat
         IN  \E p \in Page :
                /\ req[r].at = "add" /\ req[r].call = "append" /\ req[r].seen = <<p>>
                /\ c \in Catalogs /\ Live(c) /\ Clear(p, pages[c]) /\ p \notin pages[c]
                /\ UNCHANGED <<stage, cached, detail>>
                /\ pages' = [pages EXCEPT ![c] = @ \union {p}]
                /\ req'[r].at = "fresh" /\ req'[r].call = "append"
                /\ req'[r].cat = c /\ req'[r].seen = <<p>>
<1> DEFINE q == req[r]
<1>1. /\ q.at = "add" /\ Live(q.cat) /\ r \in Requests /\ "fresh" \in Spots /\ Trimmed(q) /\ Formed(q)
      /\ UNCHANGED <<stage, cached, detail>> /\ Goto(r, "fresh")
      /\ pages' = [pages EXCEPT ![q.cat] = @ \union Range(q.seen)]
  BY DEF Add, At, SInv, Steady, Committed, CInv, Trim, Spots, redis, Lost, IInv, Forms
<1>2. q.call = "append" /\ q.cat \in Catalogs
  BY <1>1, Places DEF Formed
<1>3. PICK p \in Page : q.seen = <<p>> /\ Clear(p, pages[q.cat])
  BY <1>1 DEF Trimmed
<1>4. p \notin pages[q.cat] /\ Range(q.seen) = {p}
  BY <1>3, RangeOne DEF Clear
<1>5. req'[r].at = "fresh" /\ req'[r].call = q.call /\ req'[r].cat = q.cat /\ req'[r].seen = q.seen
  BY <1>1, GotoFields
<1>6. QED
  BY <1>1, <1>2, <1>3, <1>4, <1>5

LEMMA AddTrims ==
  ASSUME IInv, SInv, CInv, Faults = {}, NEW r, Requests = {r}, Add(r)
  PROVE  CInv'
<1> DEFINE c == req[r].cat
<1>1. PICK p \in Page :
         /\ req[r].at = "add" /\ req[r].call = "append" /\ req[r].seen = <<p>>
         /\ c \in Catalogs /\ Live(c) /\ Clear(p, pages[c]) /\ p \notin pages[c]
         /\ UNCHANGED <<stage, cached, detail>>
         /\ pages' = [pages EXCEPT ![c] = @ \union {p}]
         /\ req'[r].at = "fresh" /\ req'[r].call = "append" /\ req'[r].cat = c /\ req'[r].seen = <<p>>
  BY Added
<1>2. /\ pages'[c] = pages[c] \union {p} /\ pages'[c] \ {p} = pages[c]
      /\ \A d \in Catalogs \ {c} : pages'[d] = pages[d]
  BY <1>1 DEF IInv, TypeOK
<1>3. \A d \in cached : d \in Catalogs /\ Live(d) /\ IsInjective(detail[d]) /\ Range(detail[d]) = pages[d]
  BY <1>1 DEF CInv, Mirror, Lags, IInv, TypeOK
<1>4. Trim'
  <2>1. /\ p \in pages'[c] /\ Clear(p, pages'[c] \ {p})
        /\ c \in cached => Range(detail[c]) = pages'[c] \ {p}
    BY <1>1, <1>2, <1>3 DEF Clear
  <2>2. QED
    BY <1>1, <2>1 DEF Trim, Trimmed, Checked, Clear
<1>5. Mirror'
  <2>1. ASSUME NEW d \in cached
        PROVE  /\ Live(d) /\ IsInjective(detail[d])
               /\ \/ Range(detail[d]) = pages'[d]
                  \/ /\ Lags(req'[r], d)
                     /\ Clear(p, Range(detail[d])) /\ pages'[d] = Range(detail[d]) \union {p}
    <3>1. CASE d = c
      BY <1>1, <1>2, <1>3, <3>1 DEF Lags
    <3>2. CASE d # c
      BY <1>2, <1>3, <2>1, <3>2
    <3>3. QED
      BY <3>1, <3>2
  <2>2. QED
    BY <1>1, <2>1 DEF Mirror, Live, Lags, Clear
<1>6. QED
  BY <1>4, <1>5 DEF CInv

LEMMA FreshTrims ==
  ASSUME IInv, CInv, Faults = {}, NEW r, Requests = {r}, Fresh(r)
  PROVE  CInv'
<1> DEFINE q    == req[r]
           list == detail[q.cat] \o q.seen
<1>1. /\ UNCHANGED <<stage, pages, cached, detail>> /\ r \in Requests
      /\ q.at = "fresh" /\ Trimmed(q) /\ Formed(q)
  BY DEF Fresh, At, db, redis, CInv, Trim, IInv, Forms
<1>2. CASE q.cat \notin cached /\ Answer(r)
  BY <1>1, <1>2, AnswerTrims
<1>3. CASE q.cat \in cached /\ Move(r, "cache", <<>>, list)
  <2>1. PICK p \in pages[q.cat] : q.seen = <<p>> /\ Range(detail[q.cat]) = pages[q.cat] \ {p}
    BY <1>1, <1>3 DEF Trimmed
  <2>2. detail[q.cat] \in Seq(Page) /\ p \in Page /\ p \notin Range(detail[q.cat])
    BY <1>3, <2>1 DEF IInv, TypeOK
  <2>3. IsInjective(detail[q.cat])
    BY <1>3 DEF CInv, Mirror
  <2>4. list = Append(detail[q.cat], p)
    BY <2>1, <2>2, AppendIsConcat
  <2>5. list \in Seq(Page) /\ Range(list) = pages[q.cat] /\ IsInjective(list)
    <3>1. Append(detail[q.cat], p) \in Seq(Page) /\ IsInjective(Append(detail[q.cat], p))
      BY <2>2, <2>3, RangeAppend, AppendDistinct
    <3>2. Range(Append(detail[q.cat], p)) = Range(detail[q.cat]) \union {p}
      BY <2>2, RangeAppend
    <3>3. QED
      BY <2>1, <2>4, <3>1, <3>2
  <2>6. <<>> \in Seq(Item \union Page) /\ "cache" \in Spots
    BY Lists DEF Spots
  <2> HIDE DEF list
  <2>7. PICK h : /\ req' = [req EXCEPT ![r] = h]
                 /\ h.at = "cache" /\ h.call = q.call /\ h.cat = q.cat /\ h.seen = list
    BY <1>1, <1>3, <2>5, <2>6, MoveFields, ZenonT(30)
  <2>8. Trimmed(h)
    BY <2>5, <2>7 DEF Trimmed, Checked
  <2>9. QED
    BY <1>1, <2>7, <2>8, Passing
<1>4. QED
  BY <1>2, <1>3 DEF Fresh, Lost

LEMMA CacheTrims ==
  ASSUME IInv, SInv, CInv, Faults = {}, NEW r, Requests = {r}, Cache(r)
  PROVE  CInv'
<1> DEFINE q == req[r]
<1>1. /\ q.at = "cache" /\ Live(q.cat) /\ IsInjective(q.seen) /\ Range(q.seen) = pages[q.cat]
      /\ q.cat \in Catalogs
      /\ cached' = cached \union {q.cat} /\ detail' = [detail EXCEPT ![q.cat] = q.seen]
      /\ UNCHANGED <<stage, pages>> /\ req' = [req EXCEPT ![r] = Idle]
  BY DEF Cache, At, SInv, Steady, Committed, CInv, Trim, Trimmed, Lost, db, Answer, IInv, Forms, Formed
<1>2. req'[r].at = "idle"
  BY <1>1 DEF IInv, TypeOK, Idle
<1>3. ASSUME NEW d \in cached'
      PROVE  Live(d) /\ IsInjective(detail'[d]) /\ Range(detail'[d]) = pages[d]
  <2>1. CASE d = q.cat
    BY <1>1, <2>1 DEF IInv, TypeOK
  <2>2. CASE d # q.cat
    BY <1>1, <1>3, <2>2 DEF IInv, TypeOK, CInv, Mirror, Lags
  <2>3. QED
    BY <2>1, <2>2
<1>4. Trim'
  BY <1>2 DEF Trim, Trimmed, Checked
<1>5. Mirror'
  BY <1>1, <1>3 DEF Mirror, Live
<1>6. QED
  BY <1>4, <1>5 DEF CInv

\* What Create does when nothing fails.
LEMMA Created ==
  ASSUME IInv, CInv, Faults = {}, NEW r, Requests = {r}, Create(r)
  PROVE  \E c \in Catalogs :
            /\ stage[c] = "absent" /\ c \notin cached
            /\ stage' = [stage EXCEPT ![c] = "live"]
            /\ pages' = [pages EXCEPT ![c] = Range(req[r].seen)]
            /\ UNCHANGED <<cached, detail>>
            /\ req[r].at = "store" /\ IsInjective(req[r].seen) /\ req[r].seen \in Seq(Page)
            /\ req'[r].at = "cache" /\ req'[r].cat = c /\ req'[r].seen = req[r].seen
<1> DEFINE q == req[r]
           c == Cardinality({d \in Catalogs : stage[d] # "absent"}) + 1
<1>1. /\ q.at = "store" /\ q.call \in {"drive", "upload"} /\ c \in Catalogs
      /\ stage' = [stage EXCEPT ![c] = "live"]
      /\ pages' = [pages EXCEPT ![c] = Range(q.seen)]
      /\ req' = [req EXCEPT ![r].at = "cache", ![r].cat = c]
      /\ UNCHANGED <<cached, detail>> /\ q.seen \in Seq(Page)
  BY DEF Create, At, Lost, redis, IInv, TypeOK
<1>2. stage[c] = "absent"
  BY <1>1, NextId
<1> HIDE DEF c
<1>3. c \notin cached
  BY <1>2 DEF IInv, Known
<1>4. IsInjective(q.seen)
  BY <1>1 DEF CInv, Trim, Trimmed, Singular
<1>5. req'[r].at = "cache" /\ req'[r].cat = c /\ req'[r].seen = q.seen
  BY <1>1 DEF IInv, TypeOK
<1>6. QED
  BY <1>1, <1>2, <1>3, <1>4, <1>5

LEMMA CreateTrims ==
  ASSUME IInv, CInv, Faults = {}, NEW r, Requests = {r}, Create(r)
  PROVE  CInv'
<1>1. PICK c \in Catalogs :
         /\ stage[c] = "absent" /\ c \notin cached
         /\ stage' = [stage EXCEPT ![c] = "live"]
         /\ pages' = [pages EXCEPT ![c] = Range(req[r].seen)]
         /\ UNCHANGED <<cached, detail>>
         /\ req[r].at = "store" /\ IsInjective(req[r].seen) /\ req[r].seen \in Seq(Page)
         /\ req'[r].at = "cache" /\ req'[r].cat = c /\ req'[r].seen = req[r].seen
  BY Created
<1>2. pages'[c] = Range(req[r].seen) /\ \A d \in Catalogs \ {c} : pages'[d] = pages[d] /\ stage'[d] = stage[d]
  BY <1>1 DEF IInv, TypeOK
<1>3. Trim'
  BY <1>1, <1>2 DEF Trim, Trimmed, Checked
<1>4. \A d \in cached :
         d \in Catalogs \ {c} /\ Live(d) /\ IsInjective(detail[d]) /\ Range(detail[d]) = pages[d]
  BY <1>1 DEF CInv, Mirror, Lags, IInv, TypeOK
<1>5. Mirror'
  BY <1>1, <1>2, <1>4 DEF Mirror, Live
<1>6. QED
  BY <1>3, <1>5 DEF CInv

LEMMA DeleteTrims ==
  ASSUME IInv, CInv, Faults = {}, NEW r, Requests = {r}, Scrub(r) \/ Forget(r) \/ Unlink(r)
  PROVE  CInv'
<1> DEFINE q == req[r]
<1>1. q.at \in {"scrub", "unlink"} /\ Formed(q) /\ r \in Requests /\ q.cat \in Catalogs
  BY Places DEF Scrub, Forget, Unlink, At, IInv, Forms, Formed
<1>2. \A d \in cached : d \in Catalogs /\ Live(d) /\ IsInjective(detail[d]) /\ Range(detail[d]) = pages[d]
  BY <1>1 DEF CInv, Mirror, Lags, IInv, TypeOK
<1>3. CASE Scrub(r)
  <2> DEFINE left == Tail(q.left)
  <2>1. /\ Move(r, "scrub", left, q.seen) /\ q.at = "scrub" /\ q.left # <<>>
        /\ UNCHANGED <<stage, pages, cached, detail>> /\ "scrub" \in Spots
    BY <1>3 DEF Scrub, db, redis, Lost, Spots, At
  <2>2. left \in Seq(Item \union Page) /\ q.seen \in Seq(Page)
    BY <1>1, <2>1, Places, RangeTail, Lists DEF Formed, Handler
  <2> HIDE DEF left
  <2>3. PICK seen \in Seq(Page) : seen = q.seen
    BY <2>2
  <2>4. Move(r, "scrub", left, seen)
    BY <2>1, <2>3
  <2>5. PICK h : req' = [req EXCEPT ![r] = h] /\ h.at = "scrub"
    <3>1. r \in Requests /\ "scrub" \in Spots /\ left \in Seq(Item \union Page)
      BY <1>1, <2>1, <2>2
    <3>2. QED
      BY <2>3, <2>4, <3>1, MoveFields
  <2>6. Trimmed(h)
    BY <2>5 DEF Trimmed, Checked
  <2>7. QED
    BY <1>1, <2>1, <2>5, <2>6, Passing
<1>4. CASE Forget(r)
  <2>1. /\ Goto(r, "unlink") /\ "unlink" \in Spots /\ UNCHANGED <<stage, pages>>
        /\ cached' = cached \ {q.cat} /\ detail' = [detail EXCEPT ![q.cat] = <<>>]
    BY <1>4 DEF Forget, Lost, db, Spots
  <2>2. req'[r].at = "unlink" /\ req'[r].cat = q.cat
    BY <1>1, <2>1, GotoFields
  <2>3. Trim'
    BY <2>1, <2>2 DEF Trim, Trimmed, Checked
  <2>4. Mirror'
    BY <1>1, <1>2, <2>1 DEF Mirror, Live, IInv, TypeOK
  <2>5. QED
    BY <2>3, <2>4 DEF CInv
<1>5. CASE Unlink(r)
  <2>1. /\ stage' = [stage EXCEPT ![q.cat] = "deleted"]
        /\ pages' = [pages EXCEPT ![q.cat] = {}]
        /\ req' = [req EXCEPT ![r] = Idle] /\ UNCHANGED <<cached, detail>> /\ q.at = "unlink"
    BY <1>5 DEF Unlink, Answer, Lost, redis, At
  <2>2. /\ req'[r] = Idle /\ Idle.at = "idle" /\ q.cat \notin cached
        /\ \A d \in Catalogs \ {q.cat} : stage'[d] = stage[d] /\ pages'[d] = pages[d]
    BY <1>1, <2>1 DEF Idle, IInv, TypeOK, CInv, Trim, Trimmed
  <2>3. Trim'
    BY <2>2 DEF Trim, Trimmed, Checked
  <2>4. Mirror'
    BY <1>2, <2>1, <2>2 DEF Mirror, Live
  <2>5. QED
    BY <2>3, <2>4 DEF CInv
<1>6. QED
  BY <1>3, <1>4, <1>5

LEMMA ExpireTrims ==
  ASSUME IInv, CInv, NEW c \in Catalogs, ExpireDetail(c)
  PROVE  CInv'
<1>1. /\ cached' = cached \ {c} /\ detail' = [detail EXCEPT ![c] = <<>>]
      /\ UNCHANGED <<stage, pages, req>>
  BY DEF ExpireDetail, db
<1>2. \A d \in cached' : d \in cached /\ detail'[d] = detail[d]
  BY <1>1 DEF IInv, TypeOK
<1>3. Trim'
  BY <1>1, <1>2 DEF CInv, Trim, Trimmed, Checked, Taken, Clear
<1>4. Mirror'
  BY <1>1, <1>2 DEF CInv, Mirror, Live, Clear
<1>5. QED
  BY <1>3, <1>4 DEF CInv

LEMMA StepTrims ==
  ASSUME Alone, Once, IInv, SInv, CInv, [Next]_vars
  PROVE  CInv'
<1>1. CASE UNCHANGED vars \/ ExpireMark
  BY <1>1 DEF vars, ExpireMark, db, CInv, Trim, Trimmed, Taken, Mirror, Live
<1>2. CASE \E c \in Catalogs : ExpireDetail(c)
  BY <1>2, ExpireTrims
<1>3. ASSUME NEW r \in Requests, Ask(r) \/ Handle(r)
      PROVE  CInv'
  <2>1. Requests = {r} /\ Faults = {}
    BY DEF Alone
  <2>2. QED
    BY <1>3, <2>1, AskTrim, ReadTrims, StoreTrims, RefuseTrims, MarkTrims, AddTrims, FreshTrims,
       CacheTrims, CreateTrims, DeleteTrims DEF Handle
<1>4. QED
  BY <1>1, <1>2, <1>3 DEF Next

-----------------------------------------------------------------------------
(* What GET shows, and how it changes.                                     *)

Entry(c) == IF c \in cached THEN Range(detail[c]) ELSE pages[c]

Displays ==
    \A c \in Catalogs :
        shown[c] \in Seq(Page) /\ IsInjective(shown[c]) /\ Range(shown[c]) = Entry(c)

LEMMA Shows == IInv /\ CInv => Displays
<1> SUFFICES ASSUME IInv, CInv, NEW c \in Catalogs
             PROVE  shown[c] \in Seq(Page) /\ IsInjective(shown[c]) /\ Range(shown[c]) = Entry(c)
  BY DEF Displays
<1>1. CASE c \in cached
  BY <1>1 DEF shown, Entry, IInv, TypeOK, CInv, Mirror
<1>2. CASE c \notin cached
  <2>1. pages[c] \in SUBSET Page /\ IsFiniteSet(pages[c])
    BY DEF IInv, TypeOK, Finite
  <2>2. Listings(pages[c]) # {}
    BY <2>1, ListingExists
  <2>3. shown[c] \in Listings(pages[c])
    BY <1>2, <2>2 DEF shown
  <2>4. QED
    BY <1>2, <2>1, <2>3, ListingShows DEF Entry
<1>3. QED
  BY <1>1, <1>2

LEMMA ShowsNext == IInv' /\ CInv' => Displays'
BY Shows, PTL

\* A catalog whose rows and cached detail do not change is shown as before.
Picked(some) == CHOOSE list \in Listings(some) : TRUE

LEMMA Unmoved ==
  ASSUME NEW d \in Catalogs, pages'[d] = pages[d], detail'[d] = detail[d], d \in cached' <=> d \in cached
  PROVE  shown'[d] = shown[d]
<1>1. shown[d] = IF d \in cached THEN detail[d] ELSE Picked(pages[d])
  BY DEF shown, Picked
<1>2. shown'[d] = IF d \in cached' THEN detail'[d] ELSE Picked(pages'[d])
  BY DEF shown, Picked
<1>3. QED
  BY <1>1, <1>2

LEMMA Only ==
  ASSUME NEW c \in Catalogs, \A d \in Catalogs \ {c} : shown'[d] = shown[d]
  PROVE  Client!ShowOnly(c)
<1>1. shown = [d \in Catalogs |-> shown[d]] /\ shown' = [d \in Catalogs |-> shown'[d]]
  BY DEF shown
<1>2. QED
  BY <1>1 DEF Client!ShowOnly

LEMMA NothingShown ==
  ASSUME NEW s \in Seq(Page), Range(s) = {}
  PROVE  s = <<>>
<1>1. DOMAIN s = {}
  BY DEF Range
<1>2. Len(s) \in Nat /\ DOMAIN s = 1..Len(s)
  OBVIOUS
<1>3. Len(s) = 0
  BY <1>1, <1>2
<1>4. QED
  BY <1>3, EmptySeq

LEMMA Same == \A f : Client!Range(f) = Range(f) /\ (Client!IsInjective(f) <=> IsInjective(f))
BY DEF Client!Range, Range, Client!IsInjective, IsInjective

\* The list of one catalog catches up with its pages.
LEMMA CatchUp ==
  ASSUME IInv, CInv, Displays, Displays', NEW c \in Catalogs, Live(c), UNCHANGED <<stage, pages>>,
         \A d \in Catalogs \ {c} : detail'[d] = detail[d] /\ (d \in cached' <=> d \in cached),
         Entry(c)' = pages[c]
  PROVE  Client!Next
<1>1. Client!ShowOnly(c)
  BY Unmoved, Only
<1>2. Client!Listed(shown'[c]) /\ Range(shown'[c]) = pages[c]
  BY Same DEF Displays, Client!Listed
<1>3. Range(shown[c]) = Entry(c)
  BY DEF Displays
<1>4. CASE Entry(c) = pages[c]
  <2>1. Client!Rearrange(c)
    BY <1>1, <1>2, <1>3, <1>4, Same DEF Client!Rearrange
  <2>2. QED
    BY <2>1 DEF Client!Next
<1>5. CASE Entry(c) # pages[c]
  <2>1. PICK p \in Page : Clear(p, Entry(c)) /\ pages[c] = Entry(c) \union {p}
    BY <1>5 DEF Entry, CInv, Mirror
  <2>2. p \in Range(shown'[c]) \ Range(shown[c])
    BY <1>2, <1>3, <2>1 DEF Clear
  <2>3. Client!Add(c)
    BY <1>1, <1>2, <1>3, <2>1, <2>2, Same DEF Client!Add, Live, Clear
  <2>4. QED
    BY <2>3 DEF Client!Next
<1>6. QED
  BY <1>4, <1>5

LEMMA AddMaps ==
  ASSUME IInv, SInv, CInv, Displays, Displays', Faults = {}, NEW r, Requests = {r}, Add(r)
  PROVE  [Client!Next]_<<stage, shown>>
<1> DEFINE c == req[r].cat
<1>1. PICK p \in Page :
         /\ c \in Catalogs /\ Live(c) /\ Clear(p, pages[c]) /\ p \notin pages[c]
         /\ UNCHANGED <<stage, cached, detail>>
         /\ pages' = [pages EXCEPT ![c] = @ \union {p}]
  BY Added
<1>2. pages'[c] = pages[c] \union {p} /\ \A d \in Catalogs \ {c} : pages'[d] = pages[d]
  BY <1>1 DEF IInv, TypeOK
<1>3. \A d \in Catalogs \ {c} : shown'[d] = shown[d]
  BY <1>1, <1>2, Unmoved
<1>4. CASE c \in cached
  <2>1. shown' = shown
    BY <1>1, <1>3, <1>4 DEF shown
  <2>2. QED
    BY <1>1, <2>1
<1>5. CASE c \notin cached
  <2>1. Range(shown[c]) = pages[c] /\ Range(shown'[c]) = pages[c] \union {p}
    BY <1>1, <1>2, <1>5 DEF Displays, Entry
  <2>2. Client!Listed(shown'[c]) /\ Client!ShowOnly(c)
    BY <1>1, <1>3, Only, Same DEF Displays, Client!Listed
  <2>3. Client!Add(c)
    BY <1>1, <2>1, <2>2, Same DEF Client!Add, Live, Clear
  <2>4. QED
    BY <1>1, <2>3 DEF Client!Next
<1>6. QED
  BY <1>4, <1>5

LEMMA CreateMaps ==
  ASSUME IInv, CInv, Displays', Faults = {}, NEW r, Requests = {r}, Create(r)
  PROVE  Client!Next
<1>1. PICK c \in Catalogs :
         /\ stage[c] = "absent"
         /\ stage' = [stage EXCEPT ![c] = "live"]
         /\ pages' = [pages EXCEPT ![c] = Range(req[r].seen)]
         /\ UNCHANGED <<cached, detail>>
  BY Created
<1>2. \A d \in Catalogs \ {c} : shown'[d] = shown[d]
  BY <1>1, Unmoved DEF IInv, TypeOK
<1>3. Client!Listed(shown'[c]) /\ Client!ShowOnly(c)
  BY <1>2, Only, Same DEF Displays, Client!Listed
<1>4. Client!Publish(c)
  BY <1>1, <1>3 DEF Client!Publish, Client!Turn
<1>5. QED
  BY <1>4 DEF Client!Next

LEMMA UnlinkMaps ==
  ASSUME IInv, SInv, CInv, Displays', Faults = {}, NEW r, Requests = {r}, Unlink(r)
  PROVE  Client!Next
<1> DEFINE c == req[r].cat
<1>1. /\ stage' = [stage EXCEPT ![c] = "deleted"] /\ pages' = [pages EXCEPT ![c] = {}]
      /\ UNCHANGED <<cached, detail>> /\ c \notin cached /\ c \in Catalogs /\ Live(c)
  BY Places DEF Unlink, Lost, redis, At, SInv, Steady, Committed, CInv, Trim, Trimmed, IInv, Forms, Formed
<1>2. \A d \in Catalogs \ {c} : shown'[d] = shown[d]
  BY <1>1, Unmoved DEF IInv, TypeOK
<1>3. shown'[c] \in Seq(Page) /\ Range(shown'[c]) = {}
  BY <1>1 DEF Displays, Entry, IInv, TypeOK
<1>4. shown'[c] = <<>>
  BY <1>3, NothingShown
<1>5. shown' = [shown EXCEPT ![c] = <<>>]
  BY <1>1, <1>2, <1>4 DEF shown
<1>6. Client!Remove(c)
  BY <1>1, <1>5 DEF Client!Remove, Client!Turn, Live
<1>7. QED
  BY <1>1, <1>6 DEF Client!Next

\* The steps that change the cached detail of one catalog.
LEMMA DetailMaps ==
  ASSUME IInv, SInv, CInv, Displays, Displays', Faults = {}, NEW c \in Catalogs,
         \/ ExpireDetail(c)
         \/ \E r \in Requests : Requests = {r} /\ req[r].cat = c /\ (Cache(r) \/ Forget(r))
  PROVE  Client!Next
<1>1. CASE ExpireDetail(c)
  <2>1. /\ c \in cached /\ cached' = cached \ {c} /\ detail' = [detail EXCEPT ![c] = <<>>]
        /\ UNCHANGED <<stage, pages>>
    BY <1>1 DEF ExpireDetail, db
  <2>2. Live(c) /\ Entry(c)' = pages[c]
    BY <2>1 DEF CInv, Mirror, Entry
  <2>3. \A d \in Catalogs \ {c} : detail'[d] = detail[d] /\ (d \in cached' <=> d \in cached)
    BY <2>1 DEF IInv, TypeOK
  <2>4. QED
    BY <2>1, <2>2, <2>3, CatchUp
<1>2. ASSUME NEW r \in Requests, Requests = {r}, req[r].cat = c, Cache(r) \/ Forget(r)
      PROVE  Client!Next
  <2>1. /\ UNCHANGED <<stage, pages>> /\ Live(c)
        /\ \/ Cache(r) /\ cached' = cached \union {c} /\ detail' = [detail EXCEPT ![c] = req[r].seen]
           \/ Forget(r) /\ cached' = cached \ {c} /\ detail' = [detail EXCEPT ![c] = <<>>]
    BY <1>2 DEF Cache, Forget, Lost, db, At, SInv, Steady, Committed
  <2>2. Entry(c)' = pages[c]
    <3>1. CASE Cache(r)
      <4>1. Range(req[r].seen) = pages[c] /\ detail'[c] = req[r].seen /\ c \in cached'
        BY <1>2, <2>1, <3>1 DEF Cache, Forget, At, CInv, Trim, Trimmed, IInv, TypeOK
      <4>2. QED
        BY <2>1, <4>1 DEF Entry
    <3>2. CASE Forget(r)
      BY <2>1, <3>2 DEF Cache, Forget, At, Entry
    <3>3. QED
      BY <1>2, <3>1, <3>2
  <2>3. \A d \in Catalogs \ {c} : detail'[d] = detail[d] /\ (d \in cached' <=> d \in cached)
    BY <2>1 DEF IInv, TypeOK
  <2>4. QED
    BY <2>1, <2>2, <2>3, CatchUp
<1>3. QED
  BY <1>1, <1>2

LEMMA StepMaps ==
  ASSUME Alone, IInv, SInv, CInv, Displays, Displays', [Next]_vars
  PROVE  [Client!Next]_<<stage, shown>>
<1>1. ASSUME UNCHANGED <<stage, pages, cached, detail>>
      PROVE  UNCHANGED <<stage, shown>>
  BY <1>1 DEF shown
<1>2. CASE UNCHANGED vars \/ ExpireMark
  BY <1>1, <1>2 DEF vars, ExpireMark, db
<1>3. CASE \E c \in Catalogs : ExpireDetail(c)
  BY <1>3, DetailMaps DEF Alone
<1>4. ASSUME NEW r \in Requests, Ask(r) \/ Handle(r)
      PROVE  [Client!Next]_<<stage, shown>>
  <2>1. Requests = {r} /\ Faults = {}
    BY DEF Alone
  <2>2. CASE Ask(r)
    BY <1>1, <2>2 DEF Ask, AskDrive, AskUpload, AskAppend, AskDelete, AskDetail, Begin, db, redis
  <2>3. CASE Peek(r) \/ ReadRow(r) \/ ReadPages(r) \/ ReadPagesFails(r) \/ Lookup(r) \/ Skip(r)
    BY <1>1, <2>3 DEF Peek, ReadRow, ReadPages, ReadPagesFails, Lookup, Skip, db, redis
  <2>4. CASE Store(r) \/ Refuse(r) \/ Mark(r) \/ Fresh(r) \/ Scrub(r)
    BY <1>1, <2>4 DEF Store, Refuse, Mark, Fresh, Scrub, db, redis
  <2>5. CASE Cache(r) \/ Forget(r)
    <3>1. req[r].cat \in Catalogs
      BY <2>5, Places DEF Cache, Forget, At, IInv, Forms, Formed
    <3>2. QED
      BY <2>1, <2>5, <3>1, DetailMaps
  <2>6. CASE Add(r)
    BY <2>1, <2>6, AddMaps
  <2>7. CASE Create(r)
    BY <2>1, <2>7, CreateMaps
  <2>8. CASE Unlink(r)
    BY <2>1, <2>8, UnlinkMaps
  <2>9. QED
    BY <1>4, <2>2, <2>3, <2>4, <2>5, <2>6, <2>7, <2>8 DEF Handle
<1>5. QED
  BY <1>2, <1>3, <1>4 DEF Next

(* For a client without a rival, while no call fails, the catalogs are     *)
(* what CatalogContract says: GET lists every page once, from its addition *)
(* to the removal of the catalog, whether it is answered from Redis or     *)
(* from the database, and an append adds one page under an order and a     *)
(* name that are free (handleUploadCatalogPage, handleCatalogDetail,       *)
(* handleCatalogDelete, cacheCatalogDetail).                               *)
THEOREM Implements ==
  ASSUME Alone, Once
  PROVE  Spec => ImplementsContract
<1>1. Init => IInv /\ SInv /\ CInv
  <2>1. Init => SInv
    BY DEF Init, Idle, SInv, Steady, Committed, SkipIsHonest, At, Owned, Marked
  <2>2. Init => CInv
    BY DEF Init, Idle, CInv, Trim, Trimmed, Checked, Mirror
  <2>3. QED
    BY <2>1, <2>2, Initially
<1>2. (IInv /\ SInv /\ CInv) /\ [Next]_vars => (IInv /\ SInv /\ CInv)'
  BY StepKeeps, StepSteady, StepTrims
<1>3. Init => Client!Init
  <2>1. SUFFICES ASSUME Init, NEW c \in Catalogs
                 PROVE  shown[c] = <<>>
    BY DEF Init, Client!Init, shown
  <2>2. Range(shown[c]) = {} /\ shown[c] \in Seq(Page)
    BY <1>1, <2>1, Shows DEF Displays, Entry, Init
  <2>3. QED
    BY <2>2, NothingShown
<1>4. (IInv /\ SInv /\ CInv) /\ (IInv /\ SInv /\ CInv)' /\ [Next]_vars => [Client!Next]_(Client!vars)
  BY Shows, ShowsNext, StepMaps DEF Client!vars
<1>5. QED
  BY <1>1, <1>2, <1>3, <1>4, PTL DEF Spec, ImplementsContract, Client!Spec
=============================================================================
