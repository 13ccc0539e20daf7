# StrongLink in TLA+

StrongLink is a searchable, content-addressed notification system: a repository
stores *files*, names each by the hashes of its content ("hash URIs"), indexes
*meta-files* (files that describe another file, their *target*), answers queries
over them, pushes new results to clients that keep a query open (*long polls*),
and pulls from other repositories. This directory models its core in TLA+,
model-checks it with TLC and proves with TLAPS the safety of the write path, the pull,
queries and long polls, the sessions, the previews and the JSON parsers.

Paths below are relative to the repository (`src/src/...` is the C and
Objective-C code). `PROJECT.json` maps each definition to the lines it models.

1. [Inventory](#1-inventory)
2. [Modules](#2-modules)
3. [Runs](#3-runs)
4. [Disagreements found](#4-disagreements-found)
5. [Proofs](#5-proofs)
6. [Assumptions, bounds and fairness](#6-assumptions-bounds-and-fairness)
7. [Not modelled, and the plan](#7-not-modelled-and-the-plan)

## 1. Inventory

The program is one process. Its code runs in *fibers* (coroutines of libasync)
that switch where they wait: for the network, for a semaphore, or when they enter
and leave the thread pool, which every database access and file-system call does
(`async_pool_enter`, `SLNRepoDBOpen`). The database is a transactional key-value
store: many readers on snapshots, one writer at a time, a commit is durable.

| Component | Code | State | Operations |
|---|---|---|---|
| Index tables | `SLNDB.h` | `FileByID`, `FileIDByInfo`, `URIAndFileID`, `MetaFileByID`, `TargetURIAndMetaFileID`, `FirstUniqueMetaFileID`, metadata and full-text rows | keys, ranges, `SLNURIGetFileID`, `SLNNextID` |
| Write path | `SLNSubmission.c`, `SLNSubmissionMeta.c` | submissions in memory, temporary files, the linked files, a write transaction | create, write, end (verify, link, fsync), store a batch, parse a meta-file |
| Repository | `SLNRepo.c` | the database handle, `sub_latest` with its condition variable, the list of pulls | start, announce (`SLNRepoSubmissionEmit`), wait (`SLNRepoSubmissionWait`) |
| Pull | `SLNPull.c`, `SLNSync.c` | 2 readers, 32 workers, two hand-over queues with semaphores, hints, the set of files with synced hints, the last URI of each feed | ingest a line, queue it, fetch it, store it, drain hints, resume |
| Query feed | `SLNFilterExt.c` | a position per connection (sort ID, file ID or start URI) | seek, next, batch, wait, resume |
| Filters | `filter/*.m` | cursors of each filter, the sort order of collections | seek, step, current, full age, fast age |
| Filter parsers | `SLNUserFilterParser.c`, `SLNJSONFilterParser.c` | parser stacks | text or JSON to filters |
| Sessions | `SLNSession.c`, `SLNSessionCache.c` | reference-counted sessions, the slots of the cache, rows of users and sessions | look up a cookie, load, create, retain, release |
| HTTP interface | `SLNServer.c` | none of its own | GET, PUT, POST of files, queries, lists |
| Hasher | `SLNHasher.c` | digests under way | the URIs of a content |
| Blog, RSS | `blog/*.c` | four pending previews and who waits for them | pages, previews, forms, feeds |
| Process, utilities | `blog/main.c`, `util/*` | | start-up, tokeniser, password hashes |

How they interact: an HTTP handler looks its cookie up in the session cache, then
either runs a submission (and announces the largest file ID it stored) or opens a
query (scans in batches, one read transaction each, then sleeps until something
larger than its position is announced). A pull is another source of submissions:
its readers follow two feeds of the remote, its workers fetch what is missing, and
it keeps its bookkeeping in the same transactions as what it stores. A restart
keeps the database and the linked files and loses everything else.

What is hard about it, and what each component has to keep:

- **Write path.** Concurrent uploads of the same content, links that outlive failed
  requests, crashes between link, commit and announcement, batches that fail half
  way, several files under one URI. It must give one file ID per content and type,
  list only what is on disk, keep what a URI resolves to, index each meta-file once
  under an existing target, and announce whatever it commits.
- **Pull.** Two readers and many workers over two semaphored queues, one of which
  the file reader borrows from the meta-file reader; hints noted while they are
  drained; progress recorded in other transactions than what it is about; a crash
  between any two. Nothing may be skipped, hints must all be drained, the
  meta-files of a target keep their order, and the fibers must not wait on each other.
- **Query feed.** Commits announced in another order than committed, commits
  between an empty scan and the wait, wake-ups without results, breaks and resumes.
  Each result is delivered once, in order, without a gap.
- **Filters.** A query is evaluated as a merge of cursors and a test of ages, never
  as a set. Each result must come out once, at its age, in both directions, and a
  client that comes back with its last URI must go on right behind it.
- **Parsers.** The search box's parser goes on where a failed alternative left the text,
  and the two JSON parsers keep a depth beside yajl's; they assert what they expect of
  each other. No word of a query may be lost, and what is built must be what is written.
- **Previews.** Four slots for any number of requests, one generation per file, waiters
  that must be woken and must not generate again, meta-files that are extracted once and
  stored by whoever extracted them, or by nobody after an error.
- **Sessions.** A slot is replaced while requests use what it held, rows are committed
  before objects are cached. Counts must be exact and answers those of the database.

`PROJECT.json` lists 40 hazards at the lines where they bite, with the properties
that cover them and a note where none does.

## 2. Modules

| Module | Models | State and actions |
|---|---|---|
| `FileIndex` | the tables as a value, and storing one document | a record `file`, `uri`, `meta`, `first`; `Stores`, `Refuses`; `IndexOK`, the invariant of the tables |
| `SubmissionStore` | the write path with concurrent requests | `Create`, `Link`, `SyncDir`, `IOError`, `Begin`, `StoreDoc`, `RefuseDoc`, `DBError`, `Commit`, `Emit`, `Crash`, `PowerLoss` |
| `RepositoryLog` | the abstract promise of the write path | an append-only log of batches, and announcements |
| `Sync` | a pull | `Start`, `ReadFile`, `ReadMeta`, `Enqueue`, `Dequeue`, `StoreMeta`, `StoreFile`, `Emit`, `WorkAwait`, `WorkDone`, failures, `Local` and `EmitLocal` (other clients), `Crash` |
| `Subscription` | a long-polling query | `Commit`, `Emit`, `Connect`, `Scan`, `Wake`, `Drain`, `Disconnect`, `Crash` |
| `ResultFeed` | the abstract promise of the query | `Publish`, `Deliver` |
| `Filters` | evaluating a query on the tables | `Store`, `Ask`, `FromURI`, `FromPosition`, `Skip`, `Take`, `Finish` |
| `SessionCache` | sessions and their cache | `Lookup`, `Load`, `Insert`, `Finish`, `LogIn`, `CreateSession`, `HandOut`, `Fails`, `Crash` |
| `Previews` | the blog's previews and posting with a preview | `View`, `Lock`, `Convert`, `Generic`, `Release`, `Answer`, `Post`, `PostConvert`, `PostLink`, `PostEnd`, `PostStore`, failures of each, `Upload`, `Restart` |
| `UserQuery` | the search box's language and the text of a filter | operators named as the parser's functions; `Parse`, `printUser` |
| `JSONParsers` | yajl's callbacks of a posted filter and of a meta-file's body | one action per JSON event, `Complete`, `Free` |
| `FileIndexProofs`, `SubmissionStoreProofs`, `SyncProofs`, `FilterProofs`, `SubscriptionProofs`, `SessionCacheProofs`, `PreviewsProofs`, `JSONProofs` | the theorems | each extends the module it is named after (`FilterProofs` extends `Filters`, `JSONProofs` extends `JSONParsers`); those of `SubmissionStore`, `Sync` and `Filters` use `FileIndexProofs` |
| `MC*` | instances for TLC | |

`SubmissionStore`, `Sync` and `Filters` extend `FileIndex`, so all three work on the
same tables with the same `Stores`. `SubmissionStore` implements `RepositoryLog`
with `log <- db.file, announced <- latest`; `Subscription` implements `ResultFeed`
with the committed results and those received, and takes of the write path what
`RepositoryLog` promises: files are appended, and announced later in any order.

### FileIndex

Contents are abstract: what matters of one is which URIs name it (`URIsOf`, from
`SLNHasherEnd`; a short URI may name several contents), which URI its first line
names (`TargetOf`) and whether its body parses. `Stores(d, doc, id, e)` is
`SLNSubmissionStore` with `SLNSubmissionParseMetaFile` on tables `d`: the file ID
that `FileIDByInfo` has or the next one, the URI rows, and for a meta-file the
checks (a target that resolves to a file that is no meta-file, the target the
submission was fetched for, a body that parses) and the meta-file rows, with the
"seen already" early return as the code tests it (the ID against the next meta-file
ID). Rows are never deleted, so `file` is a sequence. Mirror tables, which the same
code fills, are one relation.

### SubmissionStore

One record per request: phase, batch, index into it, largest ID stored. `Link` is
the end of the upload: verify, then `link(2)`, which keeps what is there
(`UV_EEXIST`, and then no fsync of the directory). A link that was made stays
whatever happens later. The transaction works on `txn`, a copy of the tables;
`Commit` publishes it; `Emit` is a step of its own, under its own mutex, so
announcements may come in another order. `Create` contains the look-up that PUT and
the pull do beforehand, whose answer may be stale by the time of the store.
`Crash` loses requests, transaction and `sub_latest`. `PowerLoss` (only in
`PowerSpec`) may lose directory entries that nobody has synced.

### Sync

A step is what a fiber does between two waits; a database transaction is one step.
`queue[q]` is one `struct queue` with its counting semaphores (`ingest`, `work`,
`done`), `shared` the semaphore that promises workers work. `StoreFile` is
`SLNSyncStoreSubmission` for files: it stores the file, looks for a missing
meta-file among the hints on *any* URI of it (`SLNSyncNextHintID`), commits, and
either queues the hint through the meta-files' queue (`NextHint`) or marks the hints
as synced and records the line (`LastHint`). The announcement is a step of its own
(`Emit`): between the commit and `SLNRepoSubmissionEmit` the fiber closes the database
and takes `sub_mutex`, and others run. The same holds of the uploads of other clients,
whose IDs are in `local` from commit (`Local`) to announcement (`EmitLocal`). `Crash`
keeps the tables and restarts the readers at `Resume`.

### Subscription

A result is a pair (sort ID, file ID): the file matches since the file of the sort
ID was stored. Which these are is the constant `Matches`. `Scan` and `Drain` are the
two loops of `SLNFilterWriteURIs`, `From` is `SLNFilterSeekToPosition` with its step
behind the position, `Reached` the "how far we scanned" assignment. The module
assumes that new results have new sort IDs, and none before its file's ID. Where no two
files share a URI and the query has no negation that is so: `OwnAge` and the theorem
`ResultsAppendedAlways` of `FilterProofs`.

### Filters

A simple filter is its type and its argument; full-text terms and field-value pairs
are one kind (`"term"`), as the classes differ only in the table they read. `Listed`
is what a filter's cursors run over, `Sought` and `Stepped` are `-seek:::` and
`-step:`, with the step that begins another meta-file at its lowest file in both
directions. A query is a tree of intersections, unions and negations. `Nodes` are the
filters of all the queries and `Depth` how deep each nests others; what the code
computes by calling its sub-filters (`-fullAge:`, `-fastAge::`) is a function
over the filters of a query, defined at each by its values at the filters below. Nested
collections step all filters that stand at the current position and a negation stands
nowhere, so the positions of the simple filters are all the state there is.
`FastAge`, `FullAge` and what they make of each kind of filter are the age algebra:
union's 0 for "matched before", intersection's fullAge that skips sub-filters
without a valid age, negation's "now" for whatever does not match just now.
`ResultsExact` compares all this with `Results`, the definition of a result by
quantifiers over the tables.
All batches of a query run on one snapshot here; `Subscription` has files arrive
between batches.

### SessionCache

Objects have counts and contents; `heap` frees at zero. `Cached` is `session_cache`
as the code is written, including that an ID that is cached already leaves both slot
and object alone. `Insert` follows `Load` after a switch of fibers, so another
handler may have filled the slot in between, and `HandOut` follows the commit of a
new session's row in the same way. The cookie of a session nobody has is `NoKey`.

### Previews

A request is a page that needs the preview of a file, or a posting of a file. A posting
converts the file before it links the preview (`PostConvert`, `PostLink`): if there is a
preview by then, from a page or another posting, the meta-file just extracted is thrown
away (`UV_EEXIST`), else it is ended (`PostEnd`) and stored with the file (`PostStore`).
`linked` remembers the contents whose preview a posting linked: it is set where a
meta-file is won, not where one is lost. `gen_pending` and `gen_available` look for the file among
the slots and for a free one; `Lock` is once round the loop of `gen_preview`. Waiting and
waking go through the one condition variable, so `Broadcast` wakes all waiters. Generating is the conversion, the link of the result and
the release of the slot, each of which may fail or be beaten by another link. A bounded
number of faults (`MaxFaults`) and restarts is shared by all requests.

### UserQuery and JSONParsers

A query is a sequence of tokens: single letters, the separators, quotes, a dash, and
the keywords. The parsers are operators that return what they built and where they left
the text, because the code's recovery is all in the latter: `parse_exp` tries each
alternative where the one before stopped, and `parse_parens` steps over a parenthesis
it cannot use. The two kinds of quotes are one, and case is folded.

`JSONParsers` has an action for each event of a text. `open` is what yajl keeps
(`src/deps/yajl/src/yajl_parser.c`), so that
only events it would report happen; `filters` and `body` are what the callbacks keep.
Texts may end anywhere. An assertion that fails ends the process and is a status of its
own. `Free` is one of these: `SLNJSONFilterParserFree` asserts that the parser is all
zero, and its depth is -1, so in the build as it is (`NDEBUG` is commented out in the
Makefile) every posted query ends there, after the filter was built. The filter that
`SLNJSONFilterParserEnd` returned is checked before that. What a text says is defined
beside the parsers, from the positions of its events alone: the level of an event
(`ArrayLevel`, `ObjectLevel`), what an array has as its elements (`InArray`), the rows
(`Rows`) and the filter of each array (`Filter`, a recursive function).

## 3. Runs

| Run | Question | Size (distinct states) |
|---|---|---|
| `store` | Do index, disk and announcements agree with two concurrent requests, batches of up to two documents, URI collisions, errors and crashes? Does every submission end, and does the write path implement the log? | 152,528 |
| `store_awkward` | Do refused and nearly refused uploads (a meta-file before its target, a wrong target, one content under two types) leave exact tables? | 260,105 |
| `store_power` | expected violation | |
| `sync` | Do queues, hints, bookkeeping and announcements stay consistent with two readers, two workers, other clients, failures and restarts? | 330,684 |
| `sync_quiet` | Does a pull that no error stops get everything, without a wait for ever, and does it announce what it stores, errors or not? | 1,912 |
| `sync_crash`, `sync_assert` | expected violations | |
| `feed` | Is every result delivered once, in order, without a gap and without a lost wake-up? | 6,732 |
| `filters` | Does the merged scan find exactly the results by definition, from any start? | 66,609 |
| `sessions` | Are references exact and cookies answered as the database would? | 119,031 |
| `previews` | Is each preview generated by one request at a time, does everyone who waits get an answer, and what becomes of the extracted meta-files? | 424,137 |
| `parsers` | Do the parsers build what is written, and hold their assertions? | 684,626 |

### What the properties say

- `store`: `FirstsUnique` (one `FirstUniqueMetaFileID` row per target, its oldest
  meta-file), `DataOnDisk` (what the index lists is linked), `NothingUnannounced`
  (what was committed since start-up is announced, or a request that will announce
  as much is on its way), `Finishes` (no path through `SLNSubmissionStoreBatch` leaves
  the write transaction open), `ImplementsLog` (refinement: batches are listed whole or not at
  all, nothing twice, announcements grow).
- `store_awkward`: `FilesIndexed`, `MetasIndexed` (the early return for a meta-file
  that was "seen" never skips one that is not indexed), `MetasAfterTargets`,
  `OldestKept` (an action property: what a URI resolves to never changes).
- `sync`: `QueuesHandOver` (the queues' assertions; the submission a worker fetched
  is still the queue's, so `done_sem` wakes the reader that waits for it),
  `HintsComplete` (a file marked as synced has every meta-file ever noted for a URI that
  is the file's here, so no hint slips in between the last look and the mark; a short URI
  that two contents share is the older file's, and so are the hints under it), `NothingSkipped` (what the
  remote will not list again is stored or noted), `Announced` (what is committed is
  announced, or the fiber that committed it is about to, or the file reader has it on its
  account until the hints of its line are in; a file reader that fails on a hint leaves
  what it stored for that line and nothing else), `MetaOrder` (the meta-files of a
  target are stored in the remote's order).
- `sync_quiet`: `RecordedSynced`, `AllPulled` and `AllAnnounced` (whoever has an
  announcement to make does come to make it, also when it has to wait for a hint first and
  when the pull is stopped by an error elsewhere; but for a line with a hint that failed,
  `Stranded`). The two readers contend for the
  meta-files' queue in this instance: the first meta-file belongs to the second file.
- `feed`: `PositionExact` (the position stands exactly behind what the client has),
  `NoLostWakeup`, `Delivered`, `ImplementsFeed`.
- `filters`: `ResultsExact` (what the scan has found is a run of its results in
  order, none twice and none left out but what an indirect filter passes over
  backwards), `StartExact` (a query starts with the first result, or right behind the
  result whose URI it was given; not for an intersection as one of several
  alternatives, see section 4), `NegationBounds` (a negation loses no file that its
  filter never matches and adds none that the rest of the query does not; fullAge's
  assertion holds), `OwnAge` (a file is listed under no ID before that of the oldest file
  which shares a URI with it: its own, if it was the first), `Ends`.
- `previews`: `SlotsExact` (each slot is one generating request's and no file is
  generated twice at a time), `WaitersWoken` (whoever waits waits for a request that
  will release), `EmptyMeansFailed` (a page without its preview has seen a generation
  fail), `PostedOnce` (`MetaOnce`: the meta-file extracted from a content is held by one
  posting at a time and stored once; `PostedIndexed`: of a content that comes by postings
  alone, no text is listed without its meta-file, whichever posting won the preview; the
  one that lost may be stored first, but then the winner still has it), `MetaKept` (an action
  property: once a posting has linked the preview, its meta-file is held until it is
  stored, whatever other requests do; only an error or a restart loses it), `Answered`.
- `parsers`: `QueryKept` (the words of a query are those of its filter, in order),
  `QueryShown` (the text a filter is shown as means the same filter, but for the cases
  that `Ambiguous` lists: a leaf that only quotes can say and that is shown without, or an
  attribute named as a keyword), `BuiltAsWritten`, `RowsAsWritten` (filters and rows against a
  reading of the whole text at once), `AssertsHold`.
- `sessions`: `RefsExact`, `SlotsTrue` (a slot holds the session its ID says, as the
  database has it), `AnswersExact`.

Each of these has a mutant in the module (an operator whose comment begins
"Mutant:"), a plausible mistake in the code that makes it fail on the same instance.

## 4. Disagreements found

- **`store_power`** (`SLNSubmission.c:213`). `SUBSTANCE.md:249` counts fsync of
  directories among the measures against data loss. The second of two concurrent
  uploaders of one content finds the link there and skips the fsync, so it may
  commit before the first has synced; a loss of power then leaves a listed file
  without data. (Without loss of power `DataOnDisk` holds, and is proved.)
- **`sync_crash`** (`SLNSync.c:183`). The comment at 409 says that recording the
  line after `set_hints_synced` makes a crash restart the hints. After a restart the
  file is found locally and the line is passed over, so its hints are never drained,
  and the next file is recorded.
- **`sync_assert`** (`SLNSync.c:363`). The drain asserts that a hint names the file by
  the URI the drain was called with, but hints hold the target as the remote wrote
  it, and `SLNSyncNextHintID` looks under all URIs: a target written as a short URI
  fails the assertion.

Observed and modelled as they are, with no run of their own:

- A file is committed before its hints are fetched (`SLNSync.c:376`), and announced after
  them: when the fetch of one fails, its worker ends without waking the reader
  (`SLNPull.c:246`), and the file is in the index with no waiting client told
  (`src/client/README.md:62`: "to notify of new submissions") until something later is
  announced. `Announced` and `AllAnnounced` say that nothing else is left behind.
- The check of a meta-file's target is to ensure "that files are always at least their own
  age" (`SLNSubmissionMeta.c:239`), and it is for *some* file of the URI: a file that is
  stored later and shares the URI - one content under a second type, or a short URI -
  has the older meta-file's ID as its age, and a long poll that has passed that ID is not
  told of it. `OwnAge` says how far back this goes.
- Where a content is listed by another way (PUT, a pull) and then posted, a page may
  generate the preview before the posting links its own: the posting's meta-file is
  thrown away for good. The code accepts it ("Even if no preview and no meta-file can be
  generated, that's fine", `Blog.c:431`), as it does an error or an exit between the
  link and the batch. A generic preview, of a
  content listed under a type without converter, has the same effect.
- `SLNJSONFilterParserFree` asserts that depth is 0 when it is -1: no posted query is
  answered by a build with assertions.
- With an intersection as one of several alternatives (`(a b) or c`), fullAge has an age
  for a file that matches a part of the intersection, and fastAge does not: a client that
  goes on from such a file's URI is given it again.
- Backwards, only the lowest file of a URI that names several is listed by an indirect
  filter (`SLNIndirectFilter.m:107`).
- A file that matched a negated filter before may be listed all the same, and more than
  once (`SLNNegationFilter.m:67`). A query of nothing but negations finds nothing, since a
  negation lists no candidates; one that negates a negation may leave out files too.
- A start URI that is no result of the query may make the scan pass over its first result
  ("almost assuredly wrong", `SLNFilterExt.c:127`), so `StartExact` speaks of results.
- A pull worker that fails leaves its reader waiting (`SLNPull.c:246`).
- A body that ends inside an object fails the assertion at `SLNSubmissionMeta.c:153`
  (yajl was told to allow that), and a posted filter that ends inside an array, is
  refused inside one, names an unknown type or nests five deep fails one in its parser.

## 5. Proofs

Each theorem is for every value of the constants (requests, workers, handlers, contents,
URIs, collisions, lists of the remote, matches, sizes) that meets the assumptions below.
Every invariant and action property that a run checks of these modules is proved; what
is only model-checked is listed in section 7:

| Module | Theorems |
|---|---|
| `FileIndexProofs` | `StoresOK`: storing any one document keeps `IndexOK`, the six-part invariant of the tables |
| `SubmissionStoreProofs` | `TypeOK`, `FilesIndexed`, `MetasIndexed`, `MetasAfterTargets`, `FirstsUnique`, `DataOnDisk`, `NothingUnannounced`; the action property `OldestKept`; `Refinement`, `Spec => ImplementsLog` |
| `SyncProofs` | `QueuesHandOver`, `Announced`, `NothingSkipped`, `HintsComplete`, `MetaOrder` and, of `PullSpec`, `RecordedSynced` |
| `FilterProofs` | `ScanInv`, `ResultsExact`, `StartExact`, `NegationBounds`, `OwnAge`; the action property `ResultsAppended` |
| `SubscriptionProofs` | `PositionExact`, `NoLostWakeup`; `Refinement`, `Spec => ImplementsFeed` |
| `SessionCacheProofs` | `RefsExact`, `SlotsTrue`, `AnswersExact` |
| `PreviewsProofs` | `TypeOK`, `SlotsExact`, `WaitersWoken`, `EmptyMeansFailed`, `PostedOnce`; the action property `MetaKept` |
| `JSONProofs` | of `JSONSpec`: `RowsAsWritten`, `AssertsHold`, `BuiltAsWritten` |

Each inductive invariant was checked with TLC on the run of its module before it was proved.

### The write path

*Why the invariant is stronger than the properties.* `DataOnDisk` is about the
committed tables, but a step copies the transaction's tables over them, so `IInv`
says it of `txn` too, and of every document that a request has linked on the way
there (`DataFirst`, `Linked`). `NothingUnannounced` needs that the request that
commits remembers the largest ID it stored (`TxnOK`) and that the transaction it
commits extends the committed tables, which is true because at most one request is
in phase `"txn"` and it is the writer (`WriterOK`). `OldestKept` needs the same
`Extends`. `BatchOK` says where a request is in its batch.

*Layout.* One lemma per action (`CreateIInv`, `LinkIInv`, ..., `CrashIInv`), joined by
`NextIInv`. Actions that touch only a request and the disk share `OutsideTxn`; errors
share `DropIInv` and `RollbackIInv`. The index part is separate: one lemma per part of
`IndexOK`, joined in `StoresOK`, so that `StoreDocIInv` never opens the tables. The
refinement maps `Commit` to `Extend` of the batch's entries, `Emit` to `Announce` or a
stutter, `Crash` to `Restart` or a stutter, everything else to a stutter.

### The pull

There are four layers, each a conjunct that the next one uses.

- `TypeOK` is more than types: the tables keep `IndexOK` (by `StoresOK` of the write
  path, so the pull is proved on top of the same lemma), a busy reader's submission is
  that of the line it is at (`ReaderOK`), and the recorded URIs are URIs of lines.
- `QueueInv` says of each of the two queues that it is in one of a few states: free; held
  by one reader, whose submission is in it and either waits for a worker, is with one
  worker, was fetched, or was lost with a worker that failed. `QueuesHandOver` alone is
  not inductive: that a worker finds *its* queue by the submission needs that at most one
  worker fetches for a queue and that no queue is used again before `done_sem` was had.
  That the two queues never hold the same submission comes from the known target, which
  files lack and meta-files have. `shared` is the sum of the two `work` semaphores.
- `PullInv` is `HintsComplete` with what the file reader knows half way through a drain.
  `HintsFetched`: at a hint, the file is stored and every *earlier* hint under any of its
  URIs is resolved, so that when the look-up finds no other missing hint all are there.
  `LinesPassed` is `NothingSkipped` for the readers' own positions as well as for where
  they would resume, `HintsNoted` that a hint is a line of the remote.
- `OrderInv` is `MetaOrder` with `HintsOrdered` (a hint was noted
  after the lines before it were stored or noted, and so sorts behind their hints) and
  `FetchedInOrder` (whatever is being fetched for a line or a hint, those before it of
  the same target are stored already). It is needed because order is decided when a line
  is read or a hint is picked, several waits before anything is stored.

`Announced` is inductive together with the types. Its proof is about what is still owed
(`Owed`): a step keeps each ID that somebody owes with the same or another fiber, or
announces it, and a commit makes its fiber owe the new one (`AnnouncedKept`).
`RecordedSynced` is proved of
`PullSpec`, where the process does not die and nobody else posts: `SyncedInv` says that
a file that is there has synced its hints, but for the one at which the reader is. The
run `sync_crash` shows that `Spec` does not have it.

### The queries

`FilterProofs` is about any query: any tree of filters, on any tables the write path can
leave, in both directions, with batches of any size, from any start URI. Its argument has
four parts.

- *Trees.* Induction over data is out of the prover's reach, but not over numbers: `ByParts`
  says that a set of filters that has each filter whose parts it has is all of them, since
  otherwise there were one of least `Depth` outside it. `Recursion` shows in the same way
  that the recursive functions of `Filters` exist, so that each has the value its
  definition gives it.
- *Ages.* The full age of a file is a pair of its first sort ID and the end, or never
  valid (`FullAges`); `Seeks` and `Steps` move the simple filters of a query to the
  least candidate behind a position, past nothing but what an indirect filter passes over
  (`Passed`). Without negations fastAge and the meaning of a filter (`Matches`) agree: a
  candidate is at its age (`Hits`) exactly if the file begins to match there, so hits
  are results. With negations a hit still matches the rest of the query, and a result
  whose negated filters never match is a hit.
- *The scan.* `ResultsExact` says nothing of where the filters stand and is not
  inductive. `ScanInv` adds that they stand on what they list, with nothing left behind
  the current position (`FiltersOK`), that a scan resumes at its last result
  (`PositionOK`), that what was found are hits in order behind `Base`, the candidate the
  query began at (`OutOK`), and that no hit which the scan has come past is missing
  (`NoneLost`). It does not mention negations or results; `ResultsExact` and
  `NegationBounds` follow from it and the ages, and `StartExact` from it and
  `FlatBegins`: for a flat query, the full age of a file that has a result is that
  result's sort ID, so the scan begins at it.
- *Growth.* That a file matches nothing before the oldest file of its URIs (`Eldest`)
  rests on `TargetsOlder` of `IndexOK`, a meta-file is younger than some file of its target
  URI: where no two files share a URI, that is the file itself. A stored document adds rows of its own only, so
  for the files there were, up to an old sort ID, a filter means what it meant
  (`GrownMatches`). Together that is `ResultsAppended`, what `Subscription` takes
  for granted of `Matches`: the proofs of the two modules meet there.

### The long poll

`QInv` is the types, `Gapless` (what the client has is a beginning of what there is),
`Behind` and `NoLostWakeup`. `PositionExact` is about the scan from a position and is
not inductive as it stands, because a position means two things: after a result it *is*
that result, the last that was sent; after a wake-up without one (or at the start) it
has no file ID and stands before all results of later files. `Behind` is those two
cases, and each action keeps one or turns one into the other. New files only add
results that sort behind every position there can be, which is why a commit between
scan and wait is harmless to the position, and `NoLostWakeup` says it is harmless to
the wait. A batch is a run of what is left, taken from its least elements (`Least`, `Greatest`). The
refinement maps `Commit` to `Publish`, `Scan` and `Drain` to `Deliver` of the batch, or a
stutter when it is empty, and the rest to stutters.

### The sessions

`RefsExact` counts with `Cardinality`, so the proof is about how the number of arguments
that a function maps to a value changes when one value of it does (`Count` and its
lemmas). `SInv` is the types, the counts, the slots, and what each handler knows where
it waits (`HandlerRight`): the row it read is still the row, since rows never change.
A handler that goes on after another one took its slot finds either the same session
there or one that it releases; both cases of `Cached` keep count and slots.

### The previews

`PreviewsProofs` proves the properties of the `previews` run for any number of
requests, postings, files, slots and faults, from `PInv` (`Inductive`). It adds to them that a
request that has begun is at one of the files (`AtFile`), that one which was beaten and
finds no preview has either seen the generation fail or the generation still goes on
(`BeatenKnows`, without which `EmptyMeansFailed` is not inductive: the failure happens a
step before the waiter looks), and three facts of the postings. `Extracting`: a preview
that a posting linked is there, and meta-files are held or stored of such contents only,
which is why nobody wins a second one (`MetaOnce`). `FirstLinked`: the preview of a
content that is not listed was linked by a posting, since pages show only what is listed.
`Faultless`: without a fault so far, what was linked is kept, and a text is about to be
stored without a meta-file only if its preview was there. The last two give
`PostedIndexed`; `MetaKept` is `KeptStays`, of any step of `PInv` that is no fault. Requests with
their slots and postings with their meta-files hardly touch each other and
have a lemma each (`ViewsKept`, `PostsKept`) with one step per action.

### The JSON parsers

`RowsAsWritten`, `AssertsHold` and `BuiltAsWritten` compare what the callbacks have kept
with a reading of the whole text, and say so only at its end, so none is inductive.
Texts have any length: the induction is over their events, one step of the
specification each.

- `BodyInv` is the body's parser in the middle of a text (`Reading`): the depth is the
  number of open containers and is the level of the next event, the field is the last
  key of the outer object when one is known, and the rows are `Rows` of the text so far.
  `RowsAppended` says how `Rows` grows with an event; that its older rows stay needs
  that the last key before an event is still the last key before it. One lemma per
  event follows (`BodyString`, `BodyMapKey`, `BodyStartMap`, `BodyEndMap`, ...).
- `FilterInv` is the filters' parser (`Building`): its stack stands for the open arrays,
  each with the type its array starts with and as many arguments as were written. Once
  it has refused, the text is not `WellFormed` and never will be, because the type of an
  array stays what it was (`StartsStill`, `TypeStill`) and its elements only get more;
  once it has aborted, there is an array of no known type, one too deep, or a second
  outermost one.
- `WrittenInv` adds to `FilterInv`, for `BuiltAsWritten`, that there is a function from
  the arrays of the text so far to filters (`Written`): an array that has ended has the
  filter of its elements in their order (`Read`), an open one on the stack has those
  before the array that is open inside it (`ReadTo`, with `Rank` for how many elements
  precede one and `FirstOf` for the first ones), every argument is in its place
  (`InPlace`) and there is one outermost array (`OneFilter`). The function gets a value only when an array ends
  and keeps it, so that it exists is carried by the steps of the specification, and no
  induction over the text is needed. It is `Filter`, because what is inside an array
  comes after its start (`OneFilterOnly`). `ArrayFits` gives `WellFormed` at the end:
  there is a filter for exactly the texts that are one.

### Assumptions

`IndexAssumption`, `StoreAssumption`, `PreviewsAssumption` and the assumption of
`Subscription` are types of the constants. The others say something of the world:

- `NoFixedPoint`: no content names its own hash as its target, which would be a
  fixed point of the hash function; without it a meta-file's target could resolve to
  the meta-file itself, whose URIs are put before its target is looked up.
- `SyncAssumption`: the primary URI of a content is a URI of no other. It is built from
  the whole SHA-256 (`internalHash`, `HASHLEN_LONG`), not from the shortened one.
- `RemoteAssumption`: a remote lists its files and meta-files by their primary URIs, as
  `SLNFilterCopyNextURIs` prints them. It says nothing of the targets, which are listed
  as they were written.
- `FilterAssumption`: queries are finite trees (`Depth`), collections are of something
  (the code asserts it of each that it seeks or steps, `SLNCollectionFilter.m:69-84`), and
  the meta-file filter is in no other: the server asks for it alone (`SLNServer.c:343`)
  and no type of the JSON parser's is one (`SLNJSONFilterParser.c:57-66`).
- `SessionAssumption`: there are finitely many handlers (fibers), so that they can be counted.
- `JSONAssumption`: the limits are positive, and `NoField` (NULL) is no string that a text can hold.
- `ListsApart` and `OthersApart` are hypotheses of `MetaFilesInOrder` and `RecordedAreSynced`
  and not assumptions of the model: the remote's meta-files feed has no file twice and
  none that is in the other feed (`/sln/metafiles` runs through `MetaFileByID`; a query for
  visible files or for words lists targets, and a meta-file's target is never a meta-file),
  and other clients of this repository do not themselves post a meta-file that the remote
  lists behind another one of its target. Without the latter, an upload may be stored
  before its predecessors whatever the pull does. `MCSync` has TLC evaluate both on the instance of the runs.

## 6. Assumptions, bounds and fairness

**Bounds.** `store*`: two requests (pairs are what races, and the write transaction
serialises the rest), two plain contents that share a short URI, three meta-files,
of which two have one target and one targets a meta-file (to be refused), batches of up to two
documents. `sync*`: two files, three meta-files, two workers, so that both queues
can be full and a hint waits while the other reader is at work. `feed`: `MaxFiles = 6`,
`MaxCommit = 2`, batches of 2, `Count = 3`: a wake-up can stand for more than one
batch, a full batch can end within one sort ID, and the count can run out.
`filters`: `MaxFiles = 4` of six documents in every order, with batches of 2, nine
queries (what the server asks for itself, overlapping unions, intersections, an
intersection in parentheses, a negated word, a double and a nested negation), every
URI as start. `sessions`: `MaxSessions = 3` sessions in `Size = 2` slots, two handlers,
four objects (what two slots and two handlers can hold at once). `previews`: three page requests over two slots (so that one
waits for a slot and one for another request), two postings, that may be of one content,
a content that only postings bring, one that is listed under another type before it is
posted, one that is uploaded, and at most `MaxFaults` errors and restarts. `parsers`: search texts of up to four tokens of all kinds, five with
attributes, six with parentheses, dashes and "or" (a parenthesis inside a negated one, with
words on both sides); texts of up to `MaxEvents = 9` JSON events, with `DEPTH_MAX = 3` and
`IGNORE_MAX = 3`, so that each limit is reached and passed (the code has 5 and 1023).
Symmetry is used
over requests, workers and the interchangeable sets of `sessions`, and never in a run
with a liveness property.

**Fairness.** `SubmissionStore`: a request that can go on does (fibers are resumed when
what they wait for is there), and a waiting `Begin` gets its turn (strong fairness:
the database hands its write lock over). `Sync`: weak fairness of each fiber's steps,
strong fairness of `Enqueue` (libasync's semaphores wake in order), and a worker's
fetch ends, well or not; `Emit` has only a mutex to wait for. `Subscription`: announcements follow commits, the open
connection is served; nothing makes a client reconnect. `Filters`: the scan goes on.
`Previews`: a page request that can go on does; postings and faults need not happen.
Crashes, failures, new requests and clients are never fair.

**CHECK_DEADLOCK FALSE** is set where a system may really stop: a pull that is over or
dead (`sync_quiet`), a query that is answered (`filters`), a
text that is read (`parsers`).

**External.** The key-value store (snapshots, one writer, atomic durable commits),
the hash functions (by `URIsOf`), the file system's `link(2)` and fsync, the semaphores
and condition variables of libasync.

## 7. Not modelled, and the plan

What is left, in order of importance:

1. **A composition** of `Filters` with `Subscription` in place of `Matches`: a scan over
   tables that grow between its batches. `ResultsAppended` says that the tables grow in
   the way `Subscription` assumes, but not as one specification.
2. **Within one process**: stopping and starting pulls, and the reconnect delays.
3. **Users**: creating them (no request does it: the registration mode is 0).

Only model-checked: the liveness properties (`Finishes`, `AllPulled`, `AllAnnounced`, `Delivered`, `Ends`,
`Answered`), which are out of the prover's reach; `QueryKept` and `QueryShown` of
`UserQuery`, which are about RECURSIVE operators over texts, in a module where the prover
has no SMT backend.

Left out on purpose, in `src/src`: HTTP framing, headers and body transfer, templates,
markdown and plain-text conversion, RSS and HTML (formatting and I/O without state), the
start of the process (`blog/main.c`), password hashing and tokenising (wrappers of
libraries), the digests themselves, the links-to filter (no parser makes one).

Outside `src/src` there is no part of the running program to model: `src/res/experiments`
and `src/res/async_sqlite.c` are prototypes from before the code they became, which no
build file names; `src/deps` is vendored. The prototypes alone are longer than the
program, which is why the modelled lines are a small share of all C in the repository
though they are nearly half of the program's own.
