# merge-file: models, checks and proofs

TLA+ models of merge-file, a web application that merges PDFs and images from a
Google Drive folder or a local upload into one PDF, and shows such folders as
catalogs. The models follow the source (paths below are under `src/`); each
definition's lines are listed in `PROJECT.json`.

    tlc -workers 2 -config MCDownloadPool.cfg MCDownloadPool      a run
    tlapm DownloadPoolProofs.tla                                  the proofs of a module

## 1. Inventory

The backend is one Go process beside PostgreSQL, MinIO and an optional Redis. Its
handlers and the goroutines of merge jobs share no memory but the counters of the
downloads in progress: they meet in the database, the object store and the cache.

| Part | State | Operations | What is hard |
|---|---|---|---|
| Download pool (`server.go` `downloadDriveInputs` ff.) | a channel of indices, the slice `inputs`, an error channel of capacity one, a context, files of the work directory, the `source-cache/` objects and their keys in `job_files` | feed, receive, restore, download, retry, save, store, convert, report an error, cancel, return | who closes what after an error; which error is kept; two workers and one file; calls that hang |
| Job lifecycle (`server.go`, `repository.go`, `minio.go`) | the `jobs` table, one merged object per job, one goroutine per running job | submit, retry, download, delete; the stages of the pipeline; restart | a delete beside a running job; writes whose answer is lost; a process that dies |
| Upload and merge (`handleUploadMerge`, `merge/merge.go`, the `merge-worker` subprocess) | the work directory, the list of files of a round | save, convert, sort, merge a batch, next round | remainders of batches; uploads, parts and output in one directory |
| Catalog store (`server.go`, `repository.go`, `redis.go`) | `catalogs`, `catalog_pages`, one object per page, two kinds of Redis entries | create (empty, Drive, upload), append, show, delete, expiry | check-then-act over several calls; cache and database apart; failures and refusals in the middle |
| Server process (`main.go`) | the listener, the pool of database connections, the ten seconds of `Shutdown` | serve, signal, drain, exit | main and the goroutine that shuts down race |
| Progress banner (`App.tsx`) | `activeJob`, the user's token, calls on the wire | submit, retry, view, poll, delete, log in and out | answers out of order and about another job |
| Download progress (`initDownloadState` ff.) | counters under a mutex | update, hydrate, clear | the database write is outside the mutex |
| Catalog reader (`App.tsx` `loadCatalog`, `loadCatalogChunk`) | the book, the spread, marks of chunks and pages loaded and loading | open, turn, upload, delete, load a chunk | answers for a book already left; effects that restart while chunks are on the wire; details that have a page twice |
| Drive client and Drive merge (`drive.go`, `handleDrivePreview`, `handleDriveMerge`) | the files the page lists, their orders | list, reorder, list again, merge | the folder changes between the two listings; three collations; one page of `files.list` |
| Page content (`handleCatalogPageContent`) | a cache of items of up to 10 MiB | read, cache | — |
| Redis and MinIO clients, auth, config, models, deployment | none of their own | thin calls and checks | — |

A drive job flows through all of the first three: the handler creates the row and
starts a goroutine, the goroutine calls the pool, gives its inputs to the merge
subprocess, uploads the output and completes the row; the page polls the row.

What makes each part correct: the pool returns nil only with every input in place,
always tells the real error, and leaves nobody behind; its progress says nothing
that is not so; a completed job has its file,
a job's stage only moves forward, a deleted job leaves nothing; a merge holds every
file once and in order, a Drive merge what the user was shown; a catalog shows its pages, each with its object; an exit
drains; the banner stays with its job until that is over, and with its user; the book
loads the pages in front of its reader. The hazards of the code
that these answer are listed, line by line, in `PROJECT.json`.

## 2. Modules and plan

| Module | Models | Needs |
|---|---|---|
| `FetchContract` | what `downloadDriveInputs` promises its caller | |
| `DownloadPool` | the pool in full; implements `FetchContract` | `FetchContract` |
| `JobContract` | what a client of the jobs API sees | |
| `JobLifecycle` | handlers, pipelines, table and objects; implements `JobContract` | `JobContract` |
| `JobPolling` | the banner of the page, over any server that implements `JobContract` | `JobContract` |
| `DownloadProgress` | the counters of a download, their writes to the row, the handler that shows both | |
| `MergeBatches` | an upload from its form to the merged output | |
| `DriveMerge` | a Drive merge from the preview on the page to the merged output | `MergeBatches` |
| `CatalogContract` | catalogs as a client without rivals sees them | |
| `CatalogStore` | the catalog handlers; implements `CatalogContract` without rivals and failures | `CatalogContract` |
| `CatalogReader` | the book view of the page and its loading of chunks | |
| `ServerProcess` | how the process ends | |
| `MC...` | constants for TLC | |
| `DownloadPoolProofs`, `JobLifecycleProofs`, `JobPollingProofs`, `DownloadProgressProofs`, `CatalogStoreProofs`, `CatalogReaderProofs` | proofs | the module named |
| `MergeBatchesProofs` | proofs about uploads and Drive merges | `DriveMerge` |

The contracts are how the parts are composed: `JobLifecycle` treats the pool as a step
that ends with inputs or an error, which is all `FetchContract` says, and
`JobPolling` sees only what `JobContract` says of the server. `DriveMerge` puts the page and
`handleDriveMerge` in front of `MergeBatches`, and takes the downloads for what `FetchContract`
promises. `CatalogReader` takes of `CatalogStore` that a catalog is created, grows and is deleted, and
that a detail served from the cache may lag behind it or hold a page twice.

Every safety property of a passing run is proved (section 5). Left to do: theorems for what remains
true where several catalogs share the object of a Drive page; so far there is only a counterexample.

## 3. How the modules correspond to the code

**DownloadPool.** `feeder`/`next` are the goroutine that fills `workCh`; `Hand` is the
rendezvous of the unbuffered channel, `FeederBreak` its `ctx.Done` case, `RecvClosed` the
end of a worker's range. `pc[w]` is where a worker is in `downloadSingleDriveFile` and
`restoreDriveFileFromCache`; attempt 0 is the restore, later ones download from Drive. A
worker is cut at each remote call and each access to something another goroutine sees.
`disk` says whose bytes a file of the work directory holds, so two inputs of one path show.
`keyed` are the rows that already named a source-cache object (a retry); whether that
object still exists is left open. The wait between attempts and the progress are left out.

**JobLifecycle.** `row` is the jobs table (stage and whether the key is set; the stage
determines the status), `object` the merged object, `pipe[j]` the next call of the job's
goroutine, `req[r]` the next call of a handler. Every call may fail without effect, or take
effect and lose its answer ("lost"), or never end ("hang"). `Restart` kills all goroutines
and handlers; the code resumes nothing.

**MergeBatches.** `Save` is the loop of `handleUploadMerge` (write the file; convert an
image, which appends to a PDF that exists), `Plan` and `SortInputs` the head of `MergeFiles`,
`Batch` and `NextRound` the loops of `mergeInBatches`. A file's content is the list of form
entries its pages come from. Uploads, parts and output share a directory: `Named` says which names are those of
parts, or of the output, and `disk` loses what is written over. pdfcpu empties its output first, and so
fails if that is one of its inputs. `sort.Slice` is not stable, so equal elements come in any order.

**DownloadProgress.** `bytes`, `status` and `last` are the `jobDownloadState` of one job, `kept` whether
the map has it. `Update` is what `updateDownloadState` does under the mutex; the figure it wants in
the row waits in `write[w]` until `Write`, during which other workers go on. The clock of
the half second is a choice: a figure that has not changed may be reported or not. `Copy` is
one read of `progressReader`, a byte standing for what one read returns. `ReadRow`, `Peek` and
`Look` are the three reads of a `GET /api/jobs/{id}`. `arrived` is history.

**DriveMerge.** `folder` is what Drive has, `shown` the `driveFiles` of the page with their orders; a file
stands for its name, of which the module knows the place among the names (by bytes), the place
without regard to case (`Folded`) and the number in it (`Extracted`). `Preview` and `Merge` both
go through `Listed`, as both handlers call `PreviewFolder`; `Merge` is the click and the
handler, `ApplyOrders` its check that every listed file has an order. After
`Fetch` the job goes on with the actions of `MergeBatches`. A refused call changes nothing.

**CatalogReader.** `run` is the function the loading effect started last, with the book it closed
over and the chunk it is at; an effect that runs again cancels it, but not the chunk it waits for.
`load[l]` is a call of `loadCatalogChunk` on the wire; `marked`, `busy` and `fetching` are the three
`useRef` sets of chunks loaded, chunks loading and pages loading, which `Replace` empties while chunks
are on the wire. `Served` is what `handleCatalogDetail` may answer: a list the catalog has or had, and pages that
`handleCatalogUploadPage` appended to it in Redis. A detail read between `AddCatalogPage` and that append has the
page already, and the append puts it there again, so a book may have a page twice (`Doubled`), in one chunk or in two.
`Pending` holds places of pages for that reason. `mine` says that a call belongs to the book as it is now, and `crossed`
(history) that one of an earlier book has spoilt the marks since: there the properties end, and
`MCCatalogReaderStale.cfg` begins. `Turn` has the steps of `moveCatalog` and, in the catalog tab, single pages and jumps.
JavaScript runs a function to its next `await`: no answer is delivered while `Quiet` is false.

**CatalogStore.** A handler is a record: where it is (`at`), what for (`call`), its
catalog, the items `left` to work on and the pages `seen`. `GetCatalog` is two queries
(`ReadRow`, `ReadPages`). `Taken` is the check by order and name, `Lookup` the check of the
upload mark; `Store`, `Mark`, `Add`, `Fresh`, `Cache` are the calls of an append in their order,
`Store`, `Create`, `Cache` those of a creation, `Scrub`, `Forget`, `Unlink` those of a delete. The
empty catalog of `handleCatalogCreate` is a creation with no items. `Refuse` is the 400 that the loop of
`handleUploadCatalog` gives a file without an order or of another type (`Unfit`), when those before it are stored. The foreign key makes `Add`
fail once the catalog is gone. The object key is not part of the JSON that is cached
(`json:"-"`); `detail` shows it only to tell pages apart. A `SET` that reaches Redis late is a
handler that is slow before `Cache`; a handler that dies is one whose call failed.

**ServerProcess.** `main` and `closer` are the two goroutines of `main.go`; tasks are handlers
and job goroutines, which may be inside a query. `Return` and `Exit` are the way out through the deferred
`Close`, `Fatal` the one of `log.Fatalf`, which runs no deferred call and cuts queries off.

**JobPolling.** A slot of `call` is a `fetch`, sent, answered, delivered. `Tick` is the interval of
the effect on `activeJob`; every call carries the user
whose token it was sent with, and `Granted` is `CanAccessJob` of the handlers; `Polled` is what `pollJob` does with an answer, `Clicked` what `viewJob`,
`retryJob`, `bootstrap` and the submits do. `End` forgets of an answered call what the page no longer looks at.

## 4. Runs

| Run | Bounds | Shows |
|---|---|---|
| `pool` | 3 files (one an image), 2 workers, 2 attempts | `TypeOK`, `NilMeansComplete`, `RootCauseReported`, `SlotHasOneWriter`, `LinkBacked`, `OwnContent`, `CancelDrains`, `ReturnsUnlessHung`; implements `FetchContract` |
| `jobs` | 2 jobs, 2 handlers at a time, 1 restart, failures, hangs | `TypeOK`, `CompletedHasOutput`, `DownloadMissesOnlyDeleted`, `ScrubBeforeUnlink`, `StageNeverGoesBack`, `Settles`; implements `JobContract` |
| `catalog_rivals` | 1 catalog, 2 handlers at a time, 2 uploaded objects, one order, failures | `DetailOnlyLags`, `NoPageOutlivesCatalog`, `UploadedPagesBacked`, `ScrubBeforeUnlink`, `EventuallyCoherent` |
| `catalog_alone` | 2 catalogs, 1 handler, 3 objects, forms with a file that is refused, no failure | `SkipIsHonest`, `OnlyRefusalsOrphan`; implements `CatalogContract` |
| `progress` | 2 files of 2 reads, 2 workers, 2 attempts, sizes true, unknown and too small, lost writes | `ShownDownloadedIsTrue`, `PercentFits`, `NilShowsAll` |
| `merge_batches` | 0 to 28 files; all forms of up to 4 files and 2 orders; files named like parts of other merges, or like the output; all folders of 6 files, orders 1 to 3 | `MergedInOrder`, `SourcesKept`, `MergedAsShown`, `Ends` |
| `reader` | 2 catalogs, one there from the start, one created later that grows, both may be deleted, details that lag or have a page twice in one chunk; chunks and spreads of 2; 1 detail and 2 chunks on the wire, failures | `MarksHonest`, `SpreadLoads` |
| `reader_doubled` | 1 catalog that grows, details that have a page in two chunks; chunks of 1, spreads of 2; failures | `MarksHonest`, `OneFetchPerPage`, `SpreadLoads` |
| `process_exit` | 2 handlers, 2 jobs | `SignalEnds` |
| `polling` | 2 jobs, their owner, another user, 2 polls and 1 click on the wire, failures | `BannerDropsOnlyEnded`, `EndedLeavesBanner`, `ForeignBannerLeaves` |

Every module has one type invariant, part of the inductive invariant if it has proofs. The runs of
`DownloadPool` and `JobLifecycle` check it; the other modules' hold too (add `TypeOK` to their configuration),
but say nothing the properties do not.

*Why the bounds are enough.* Three files and two workers are the least at which a worker
takes a second file while another still has its first, and the feeder blocks with one file
left; two attempts are a first and a last one. Two handlers and a pipeline give every
pair of the races listed as hazards; two jobs, a retry beside its original. Twenty-eight
files need three rounds of batches of three with remainders of one in the first and the last. One
catalog is all two handlers can race on; two are needed where a mark or an object is shared
between catalogs, which no rival is needed for. Two polls
overlap each other and a click; two jobs are what the banner needs to change hands between a poll
and its answer. Two files and two workers are enough for a figure of one to wait while the other reports. Six files of a folder give ties, a file of another type and
one without a number, and a folder that gains, loses and swaps files between the listings; four
of them can be merged, which takes a batch and a round. A book of two chunks has a next chunk to
load after the first, and two chunks on the wire meet each other and a change of the book; one page appended to a cached
detail is enough to have it twice there, in one chunk of two (`reader`) or in two of one (`reader_doubled`). Two calls that fetch
one page are both for the book on the screen, so one catalog is enough for `OneFetchPerPage`; the second is there for calls left by another book.

*Bounds in the guards*: the number of jobs, restarts, catalogs and uploaded objects, and the
requests and calls at a time. Where they stop the system, or the process may exit,
the configuration says `CHECK_DEADLOCK FALSE`; `DownloadPool`, `DownloadProgress`,
`DriveMerge` and `JobPolling` are checked for deadlock.

### Disagreements

Each of these runs checks one property that a comment, a log message or a test of the repository
states, and ends in a counterexample.

| Run | Property | What happens |
|---|---|---|
| `jobs_orphan` | `DeleteRemovesOutput` | a job deleted while it runs uploads an object nothing names |
| `process_drain` | `DrainWindow` | the process exits while handlers run, well before ten seconds |

More configurations are kept beside the runs; TLC ends each with a counterexample of the
property it names. Where that is a property of a run too, the run has the case without the
circumstance named here.

| Configuration | Property | What happens |
|---|---|---|
| `MCDownloadPoolSameName.cfg` | `OwnContent` | two Drive files of one name are saved to one path; the job completes with one of them twice or mixed |
| `MCDownloadPoolSources.cfg` | `SourcesNotPersisted` | a Drive source is stored in MinIO, where comments say that only merged outputs are; nothing removes it |
| `MCJobLifecycleRestart.cfg` | `NobodyWaitsForEver` | after a restart, jobs that ran are shown as running for ever |
| `MCCatalogStoreDrive.cfg` | `DrivePagesBacked` | two catalogs of one folder share objects; deleting one empties the other |
| `MCCatalogStoreOrders.cfg` | `OrdersUnique` | two uploads at a time take one order |
| `MCCatalogStoreList.cfg` | `ShownInOrder` | an appended page of a low order is shown last |
| `MCCatalogStoreSkip.cfg` | `SkipIsHonest` | an upload whose insert failed is skipped when it is tried again |
| `MCCatalogStoreRefused.cfg` | `NoOrphans` | a form whose second file is refused leaves the object of the first, though nothing fails |
| `MCMergeBatchesNames.cfg` | `MergedInOrder` | an upload named merge-part-r1-b0.pdf is overwritten by the first part, whose files are merged twice, and the upload not at all |
| `MCMergeBatchesImages.cfg` | `MergedInOrder` | scan.png and scan.jpg become one PDF, merged twice |
| `MCMergeBatchesCase.cfg` | `MergedAsShown` | files of one order are placed by three collations: a.pdf and B.pdf are merged the other way than shown |
| `MCMergeBatchesFolder.cfg` | `PreviewComplete` | a folder larger than one answer of `files.list` is previewed in part |
| `MCDownloadProgressLate.cfg` | `RowCatchesUp` | an older figure is written over a newer one, and no write is left to mend it |
| `MCCatalogReaderStale.cfg` | `SpreadAlwaysLoads` | a late chunk of the book before marks a chunk of the new one, whose pages never load |
| `MCCatalogReaderRoute.cfg` | `BookFollowsRoute` | two catalogs opened at once are answered in the other order: the book is not the one of the route |
| `MCCatalogReaderTwice.cfg` | `NoCallDoubles` | a page that a chunk has twice is fetched twice at once |
| `MCCatalogReaderAhead.cfg` | `MarksComplete` | of two chunks with a page in common, the second is marked while the page is on the wire for the first |
| `MCCatalogReaderNever.cfg` | `SpreadFullyLoads` | that call fails, and the page of the marked chunk never loads |
| `MCJobPollingLate.cfg` | `BannerKeptForItsJob` | with two jobs, a late answer about an ended job clears the banner of the next one |

### Fairness

- `DownloadPool`: a goroutine that can go on does. A remote call is fair only once its context
  is cancelled, since `http.DefaultClient` has no deadline; `ReturnsUnlessHung` names the hang as its only
  exception.
- `JobLifecycle`: weak fairness of each job's next step, hanging being a step of its own;
  nothing of the handlers.
- `CatalogStore`: the cached detail expires in the end. Nothing of the handlers.
- `MergeBatches`, `DriveMerge`: handler, goroutine and subprocess go on; the user need not, and
  the folder may stay as it is.
- `CatalogReader`: the loading effect and its function go on when they can, and a chunk on the wire is
  answered or fails. The details and the user need not.
- `DownloadProgress`: none; its properties are about safety.
- `ServerProcess`: main goes on when it can and a query that has started ends. Handlers and
  jobs need not.
- `JobPolling`: a call ends, if only because its connection breaks; the interval fires.

## 5. Proofs

The theorems hold for every value of the constants that meets the assumptions their modules name:
any number of files, workers, jobs, handlers, users and calls, and any faults, unless a hypothesis
is stated here. A safety property is proved from an inductive invariant that TLC checked first;
the parts named below are the reason why the property is not inductive by itself.

The assumptions say what kind of value a constant is, and little else: a download is
attempted at least once; a batch has two files or more; a number in a name is a number; calls of different kinds are
different. Three say more. `CatalogStore`
assumes that an object key of a Drive page is neither a key minted for an upload nor an upload,
as the keys of uploads carry the name of their catalog and the time; without it a
delete of a Drive page might take the object of an upload. `DriveMerge` assumes that a folder is
finite, and `FoldedAssumption` that its names differ without regard to case.
`CatalogReader` assumes nothing of what a catalog lists.

**`DownloadPoolProofs`**: `TypeCorrect`, `NilIsComplete`, `ReportsRootCause`,
`OneWriterPerSlot`, `LinksAreBacked`, `InputsHoldTheirFiles`, `PoolImplementsContract`.
`NilMeansComplete` is not inductive: that every input is set when the call returns nil
depends on what became of each index on the way. The invariant `Books` accounts for them: an
index already sent is filled, held by a worker that has not yet offered an error, or lost
to an error that is in the channel. `ErrorFirst` says the context is cancelled only
after the first error is in the channel, which is also why no "context canceled" ever gets there
first. `Slots` says that workers hold different indices, all sent and none filled; it is needed for the
refinement too, where an input may be filled only once. `Backed` follows a stored object to the key.
`InputsHoldTheirFiles` has the hypothesis `Separate` (no two files share a path), which
`MCDownloadPoolSameName.cfg` shows to be needed; `Content` then says of every path whose bytes it may hold.

**`JobLifecycleProofs`**: `TypeCorrect`, `CompletedMeansStored`, `DownloadsFindTheirObject`, `KnownObjectsAreRemoved`,
`StagesMoveForward`, `JobsImplementContract`. `Outputs` ties the key that a row or a handler knows to the object or to
a delete that removed it, `KeyLast` says that a key is written only when the goroutine is past
the upload, so that no later upload can bring an object back, `Numbered` keeps jobs that do not exist yet out
of every call, and `InStep` ties the place of a goroutine to the stages its row may show; from it
every write moves forward. The refinement maps each call to one step of `JobContract` or to none: a stage is `Run` once,
the write of the key is `Publish`, the removal of the object is `Withdraw`, and a write that
finds no row is nothing.

**`JobPollingProofs`**: `TypeCorrect`, `BannerStays`, for any number of jobs. An answer may be out of date, but what it says
is over stays over (`Polling`), so a poll never ends the banner of its own job too early. The banner may show another job by
then, which is the exception `StrayPoll` of `BannerDropsOnlyEnded`; without it the claim is false (`MCJobPollingLate.cfg`).

**`DownloadProgressProofs`**: `ShownFilesArrived`, `NilShowsEveryFile`, `BarIsTrue`. A row that says "merging"
shows every file as downloaded, so the invariant follows each file through the pool: one that was handed
out is downloaded, or a worker has it and no other has (`Books`, `Hands`), or the context is
cancelled; a worker leaves with the files out or the context cancelled (`Leaving`). The bar is a
quotient of sums over the files. Lemmas about sums (`SumFacts`: a sum grows with its terms, and if it has
not grown, none of them has) give `PercentFacts`; the invariant `Bar` carries them to the figures that wait
to be written and to those a poll has read.

**`CatalogStoreProofs`**: `DetailsOnlyLag`, `PagesGoWithCatalog`, `UploadsBacked`, `ScrubsBeforeUnlink`, `TypeCorrect` for
any rivals and failures. The links between pages, details, keys and objects pass through the hands of handlers: a
detail that is about to be cached shows no more than its catalog has (`Ahead`), a key in hand is no
other handler's and no other catalog's (`Apart`) and has its object until it is inserted (`Backed`), an
object a delete has removed is not back (`Gone`), and no key is minted twice (`Used`).
For a client alone (`Alone`: one handler, no failure): `OnlyRefusalsLeaveObjects`, `SkipsAreHonest`, `Implements`. What a handler
has read is still so when it acts (`Steady`), an object or a mark belongs to a page or to the page in hand
(`Owned`, `Marked`), and a cached detail is the catalog, or the catalog less the page in hand (`Mirror`). `Implements` also
needs that no folder lists a page twice (`Once`), which holds as the ids of Drive are unique.

**`CatalogReaderProofs`**: `MarksAreHonest`, `PagesFetchedOnce`, `TypeCorrect`, whatever lists the server answers with. The calls of the
book on the screen have chunks of their own, all noted as loading or loaded, and each brings what its chunk
lacks, but for pages the book has twice (`Noted`). Two chunks of one book begin at multiples of
the size of a chunk (`Straight`), so a page in both is in the book twice. That no page is fetched by two calls needs
no such exception: pages on the wire are noted one by one (`Fetched`). The properties hold until `crossed` is set, which
`Fill`, `Refuse`, `Mark` and `Fetch` do only for a call or a function left by an earlier book.

**`MergeBatchesProofs`**: `FilesAreKept`, `OutputIsInOrder`, `MergesWhatWasShown`, `TypeCorrect`, about `MergeSpec`, so for
uploads and Drive merges. `Flow` is the heart: the contents of the parts written in this round,
followed by those of the files not yet read, are the sorted list. It needs that the files are
where they were and that parts and output overwrite nothing (`Saved`, `Kept`, `Parts`), and lemmas about `FlattenSeq` of a
concatenation. `Pace` bounds the rounds. All have the hypothesis `OwnPaths`: no two names of a form or a
folder share a path (`MCMergeBatchesImages.cfg` shows that it is needed), and none is that of the output or of a part that a merge of so many
files may write (`MCMergeBatchesNames.cfg`). What is to prove is that the parts, whose paths grow with the rounds and
batches, stay within those. `MergesWhatWasShown` adds `Shown` and
`Carried`, that the inputs are files of the page in the page's order, for which `SortedLists` shows that sorting by order and
name neither loses nor repeats a file; its hypotheses are that the collations agree (`Collate`; `MCMergeBatchesCase.cfg` has the
other case) and that `files.list` answers in full.

*Only model-checked*, and why: the liveness properties (`CancelDrains`, `ReturnsUnlessHung`, `Settles`,
`EventuallyCoherent`, `Ends`, `SignalEnds`, `EndedLeavesBanner`, `ForeignBannerLeaves`, `SpreadLoads`), since
the prover has neither ENABLED nor fairness. `TypeCorrect` of `MergeBatchesProofs` has the measure that `Ends`
rests on: n files take at most n + 1 rounds. The induction schemes of the library cannot be used, as
their parameter is an operator; where a proof goes by induction (sums, `FlattenSeq`, listings), it takes a least
counterexample instead.

## 6. Not modelled

- Page content: `handleCatalogPageContent` changes no state but its own cache, and looks for the row
  of the page first; ids are not used twice, so an entry that outlives its page is never served.
- The parsing of Drive links and of the numbers in names: pure, and unit-tested.
- Users, but for the rights to jobs in `JobPolling`: checks that keep no state.
- The Redis protocol, the MinIO SDK, token signing, configuration, routing and deployment: I/O and
  decisions without state. Their calls appear in the modules as steps that may fail.
- The rest of the page: forms, layout, the job list, the detail pane, object URLs and
  the download speed.
- pdfcpu, `net/http`, `pgxpool`: external. Only what the code relies on is modelled: merging
  concatenates, importing an image appends, `Shutdown` makes `ListenAndServe` return at once,
  `Close` waits for connections in use.
