-------------------------------- MODULE Sync --------------------------------
(***************************************************************************)
(* Pulling a remote repository: SLNSync.c, driven by the reader and worker *)
(* fibers of SLNPull.c.                                                    *)
(*                                                                         *)
(* One reader follows the remote's files, another its meta-files.  A       *)
(* reader hands what is missing to the workers through its queue, waits    *)
(* until it is fetched and stores it.  A meta-file whose target has not    *)
(* synced its hints is only noted (a hint); the file reader drains the     *)
(* hints of a file, through the meta-files' queue, after storing the file. *)
(* Fibers switch where they wait; a database transaction is one step.      *)
(***************************************************************************)
EXTENDS FileIndex

CONSTANTS
    Workers,    \* the fibers that fetch (WORKER_COUNT of them)
    FileLines,  \* the remote's list of files: their primary URIs
    MetaLines,  \* its list of meta-files: <<primary URI, target URI>>
    Served,     \* [URIs -> Hashes], the content the remote serves for a URI
    TypeOf,     \* [Hashes -> Types], the content type it serves it with
    PrimaryOf,  \* [Hashes -> URIs], SLNSubmissionGetPrimaryURI
    LocalDocs,  \* what other clients of this repository may submit meanwhile
    NoSub       \* no submission

ASSUME SyncAssumption ==
    /\ FileLines \in Seq(URIs)
    /\ MetaLines \in Seq(URIs \X URIs)
    /\ Served \in [URIs -> Hashes]
    /\ TypeOf \in [Hashes -> Types]
    /\ PrimaryOf \in [Hashes -> URIs]
    /\ \A h, g \in Hashes : PrimaryOf[h] \in URIsOf[g] <=> g = h
    /\ LocalDocs \subseteq Documents
    /\ NoSub \notin Documents

\* A remote lists its files and meta-files by the primary URIs of what it serves.
ASSUME RemoteAssumption ==
    /\ \A i \in DOMAIN FileLines : PrimaryOf[Served[FileLines[i]]] = FileLines[i]
    /\ \A i \in DOMAIN MetaLines : PrimaryOf[Served[MetaLines[i][1]]] = MetaLines[i][1]

VARIABLES
    db,         \* the tables of files
    hints,      \* SLNSessionIDAndHintIDToMetaURIAndTargetURI, by hint ID
    synced,     \* SLNSessionIDAndHintsSyncedFileID
    last,       \* SLNLastFileURIBySyncID and SLNLastMetaURIBySyncID
    run,        \* pull->run
    rd,         \* the readers
    queue,      \* sync->fileq and sync->metaq
    shared,     \* sync->shared_sem
    worker,     \* the workers
    latest,     \* repo->sub_latest
    local,      \* IDs that other clients have committed and not announced yet
    bootLen     \* history: number of files when the process started

tables == <<db, hints, synced, last>>
fibers == <<run, rd, queue, shared, worker>>
vars == <<db, hints, synced, last, run, rd, queue, shared, worker, latest, local, bootLen>>

Readers == {"file", "meta"}

Submission(u, t) ==
    [hash |-> Served[u], type |-> TypeOf[Served[u]], knownURI |-> u, knownTarget |-> t]

Lines(p) == IF p = "file" THEN FileLines ELSE MetaLines

LineURI(p, i) == IF p = "file" THEN FileLines[i] ELSE MetaLines[i][1]

Starting == [pc |-> "start", next |-> 1, sub |-> NoSub, dep |-> NoSub, hint |-> 0, max |-> 0]

Empty == [sub |-> NoSub, ingest |-> 1, work |-> 0, done |-> 0]

\* The fibers of a pull that SLNPullStart has just spawned.
NewReaders == [p \in Readers |-> Starting]
NewQueues == [q \in Readers |-> Empty]
NewWorkers == [w \in Workers |-> [pc |-> "wait", sub |-> NoSub]]

Init ==
    /\ db = EmptyDB
    /\ hints = <<>>
    /\ synced = {}
    /\ last = [p \in Readers |-> NoURI]
    /\ run = TRUE
    /\ rd = NewReaders
    /\ queue = NewQueues
    /\ shared = 0
    /\ worker = NewWorkers
    /\ latest = 0
    /\ local = {}
    /\ bootLen = 0

-----------------------------------------------------------------------------
(***************************************************************************)
(* A reader between two lines.                                             *)
(***************************************************************************)

\* Where the remote resumes: behind the line that was recorded last.  A URI that
\* it lists again (a content with two types) is the older file's for it.
Resume(p) ==
    IF last[p] = NoURI THEN 1
    ELSE 1 + (CHOOSE i \in DOMAIN Lines(p) :
                 LineURI(p, i) = last[p] /\ \A j \in 1..(i - 1) : LineURI(p, j) # last[p])

\* SLNSyncCopyLastSubmissionURIs, and the request to the remote.
Start(p) ==
    /\ rd[p].pc = "start"
    /\ rd' = [rd EXCEPT ![p].pc = "read", ![p].next = Resume(p)]
    /\ UNCHANGED <<tables, run, queue, shared, worker, latest, local, bootLen>>

\* Done with a line: pull->run is looked at before the next one is awaited.
Continue(p) ==
    rd' = [rd EXCEPT ![p] = [Starting EXCEPT !.pc = IF run THEN "read" ELSE "dead",
                                             !.next = rd[p].next + 1]]

\* Any error ends the reader, and the pull with it.  (What it has stored for its
\* line is remembered, for Announced.)
Die(p) ==
    /\ rd' = [rd EXCEPT ![p] = [Starting EXCEPT !.pc = "dead", !.max = rd[p].max]]
    /\ run' = FALSE

\* queue_ingest: a submission is created.
Ingest(p, s) == rd' = [rd EXCEPT ![p].pc = "enqueue", ![p].sub = s]

\* SLNSyncIngestFileURI: a read transaction tells whether the file is there.
ReadFile ==
    /\ rd["file"].pc = "read"
    /\ rd["file"].next <= Len(FileLines)
    /\ LET u == FileLines[rd["file"].next] IN
          \/ Resolvable(db, u) /\ Continue("file")
          \/ ~Resolvable(db, u) /\ Ingest("file", Submission(u, NoURI))
    /\ UNCHANGED <<tables, run, queue, shared, worker, latest, local, bootLen>>

\* Mutant: get_hints_synced only asks whether the target is there.
HintsSynced_Stored(t) == Resolvable(db, t)

\* get_hints_synced
HintsSynced(t) == \E id \in synced : Resolves(db, t, id)

\* Mutant: the meta-file is recorded as passed before it is stored.
PassMeta_Records(u, t) ==
    /\ \/ Resolvable(db, u) /\ Continue("meta")
       \/ ~Resolvable(db, u) /\ HintsSynced(t) /\ Ingest("meta", Submission(u, t))
    /\ last' = [last EXCEPT !["meta"] = u]
    /\ UNCHANGED <<hints, run>>

\* The meta-file is there, or its target has synced its hints.
PassMeta(u, t) ==
    /\ \/ Resolvable(db, u) /\ Continue("meta")
       \/ ~Resolvable(db, u) /\ HintsSynced(t) /\ Ingest("meta", Submission(u, t))
    /\ UNCHANGED <<hints, last, run>>

\* add_hint, in the transaction of the check: "Needs to be atomic".  A second
\* hint for the same meta-file is an error (KVS_NOOVERWRITE).
AddHint(u, t) ==
    /\ ~Resolvable(db, u)
    /\ ~HintsSynced(t)
    /\ IF \E j \in DOMAIN hints : hints[j][1] = u
       THEN Die("meta") /\ UNCHANGED <<hints, last>>
       ELSE /\ hints' = Append(hints, <<u, t>>)
            /\ last' = [last EXCEPT !["meta"] = u]
            /\ Continue("meta")
            /\ UNCHANGED run

\* SLNSyncIngestMetaURI
ReadMeta ==
    /\ rd["meta"].pc = "read"
    /\ rd["meta"].next <= Len(MetaLines)
    /\ LET line == MetaLines[rd["meta"].next] IN
          PassMeta(line[1], line[2]) \/ AddHint(line[1], line[2])
    /\ UNCHANGED <<db, synced, queue, shared, worker, latest, local, bootLen>>

-----------------------------------------------------------------------------
(***************************************************************************)
(* queue_submission, for a reader's own line and for a hint.               *)
(***************************************************************************)
OnHint(p) == rd[p].pc \in {"depenqueue", "depawait", "depstore"}

QueueOf(p) == IF OnHint(p) THEN "meta" ELSE p

Posted(p) == IF OnHint(p) THEN rd[p].dep ELSE rd[p].sub

\* Mutant: the queue is taken without waiting for ingest_sem.
Enqueue_NoWait(p) ==
    /\ rd[p].pc \in {"enqueue", "depenqueue"}
    /\ queue' = [queue EXCEPT ![QueueOf(p)] =
                    [sub |-> Posted(p), ingest |-> 0, work |-> @.work + 1, done |-> @.done]]
    /\ shared' = shared + 1
    /\ rd' = [rd EXCEPT ![p].pc = IF @ = "enqueue" THEN "await" ELSE "depawait"]
    /\ UNCHANGED <<tables, run, worker, latest, local, bootLen>>

Enqueue(p) ==
    /\ rd[p].pc \in {"enqueue", "depenqueue"}
    /\ queue[QueueOf(p)].ingest > 0
    /\ queue' = [queue EXCEPT ![QueueOf(p)] =
                    [sub |-> Posted(p), ingest |-> @.ingest - 1, work |-> @.work + 1,
                     done |-> @.done]]
    /\ shared' = shared + 1
    /\ rd' = [rd EXCEPT ![p].pc = IF @ = "enqueue" THEN "await" ELSE "depawait"]
    /\ UNCHANGED <<tables, run, worker, latest, local, bootLen>>

\* Mutant: ingest_sem is not posted after a hint was fetched.
Dequeue_KeepsQueue(p) ==
    /\ rd[p].pc \in {"await", "depawait"}
    /\ queue[QueueOf(p)].done > 0
    /\ queue' = [queue EXCEPT ![QueueOf(p)] =
                    [sub |-> NoSub, ingest |-> IF OnHint(p) THEN @.ingest ELSE @.ingest + 1,
                     work |-> @.work, done |-> @.done - 1]]
    /\ rd' = [rd EXCEPT ![p].pc = IF @ = "await" THEN "store" ELSE "depstore"]
    /\ UNCHANGED <<tables, run, shared, worker, latest, local, bootLen>>

Dequeue(p) ==
    /\ rd[p].pc \in {"await", "depawait"}
    /\ queue[QueueOf(p)].done > 0
    /\ queue' = [queue EXCEPT ![QueueOf(p)] =
                    [sub |-> NoSub, ingest |-> @.ingest + 1, work |-> @.work,
                     done |-> @.done - 1]]
    /\ rd' = [rd EXCEPT ![p].pc = IF @ = "await" THEN "store" ELSE "depstore"]
    /\ UNCHANGED <<tables, run, shared, worker, latest, local, bootLen>>

-----------------------------------------------------------------------------
(***************************************************************************)
(* A worker.                                                               *)
(***************************************************************************)
\* SLNSyncWorkAwait: a file before a meta-file.
WorkAwait(w) ==
    /\ worker[w].pc = "wait"
    /\ shared > 0
    /\ shared' = shared - 1
    /\ \E q \in Readers :
          /\ queue[q].work > 0
          /\ q = "meta" => queue["file"].work = 0
          /\ queue' = [queue EXCEPT ![q].work = @ - 1]
          /\ worker' = [worker EXCEPT ![w] = [pc |-> "fetch", sub |-> queue[q].sub]]
    /\ UNCHANGED <<tables, run, rd, latest, local, bootLen>>

\* The content is fetched and ended: SLNSyncWorkDone finds its queue again.
WorkDone(w) ==
    /\ worker[w].pc = "fetch"
    /\ \E q \in Readers :
          /\ queue[q].sub = worker[w].sub
          /\ q = "meta" => queue["file"].sub # worker[w].sub
          /\ queue' = [queue EXCEPT ![q].done = @ + 1]
    /\ worker' = [worker EXCEPT ![w] = [pc |-> IF run THEN "wait" ELSE "dead", sub |-> NoSub]]
    /\ UNCHANGED <<tables, run, rd, shared, latest, local, bootLen>>

\* The remote does not answer, answers with an error or another content, or the
\* pull was stopped: the worker leaves, and nobody posts done_sem.
WorkerFails(w) ==
    /\ worker[w].pc = "fetch"
    /\ worker' = [worker EXCEPT ![w] = [pc |-> "dead", sub |-> NoSub]]
    /\ run' = FALSE
    /\ UNCHANGED <<tables, rd, queue, shared, latest, local, bootLen>>

-----------------------------------------------------------------------------
(***************************************************************************)
(* SLNSyncStoreSubmission.                                                 *)
(***************************************************************************)
\* The transaction is committed; other fibers run while the database is closed
\* and sub_mutex is waited for.
Commit(p, max) ==
    rd' = [rd EXCEPT ![p] = [Starting EXCEPT !.pc = "emit", !.next = rd[p].next + 1,
                                             !.max = max]]

\* Mutant: only a file with its hints is announced.
StoreMeta_Silent ==
    /\ rd["meta"].pc = "store"
    /\ \E id \in 1..(Len(db.file) + 1) : Stores(db, rd["meta"].sub, id, db')
    /\ last' = [last EXCEPT !["meta"] = PrimaryOf[rd["meta"].sub.hash]]
    /\ Continue("meta")
    /\ UNCHANGED <<hints, synced, run, queue, shared, worker, latest, local, bootLen>>

StoreMeta ==
    /\ rd["meta"].pc = "store"
    /\ \E id \in 1..(Len(db.file) + 1) :
          Stores(db, rd["meta"].sub, id, db') /\ Commit("meta", id)
    /\ last' = [last EXCEPT !["meta"] = PrimaryOf[rd["meta"].sub.hash]]
    /\ UNCHANGED <<hints, synced, run, queue, shared, worker, latest, local, bootLen>>

\* The hints on any URI of file f.
HintsOf(d, f) == {j \in DOMAIN hints : <<hints[j][2], f>> \in d.uri}

\* Those after h whose meta-file is missing; the others are passed over.
Missing(d, f, h) == {j \in HintsOf(d, f) : j > h /\ ~Resolvable(d, hints[j][1])}

\* assert(0 == strcmp(URI, t)) on every hint that is looked at.  Where it fails
\* the process dies (Crash).
HintsNamed(d, f, h) ==
    \A j \in HintsOf(d, f) :
        (j > h /\ \A k \in Missing(d, f, h) : j <= k) => hints[j][2] = PrimaryOf[d.file[f].hash]

\* Mutant: the file counts as synced as soon as it is stored.
NextHint_MarksSynced(f, u, max) ==
    /\ \E j \in Missing(db', f, rd["file"].hint) :
          /\ \A k \in Missing(db', f, rd["file"].hint) : j <= k
          /\ rd' = [rd EXCEPT !["file"].pc = "depenqueue", !["file"].hint = j,
                              !["file"].dep = Submission(hints[j][1], u),
                              !["file"].max = max]
    /\ synced' = synced \cup {f}
    /\ UNCHANGED last

\* Mutant: the file is recorded as passed in the transaction that stores it.
NextHint_Records(f, u, max) ==
    /\ \E j \in Missing(db', f, rd["file"].hint) :
          /\ \A k \in Missing(db', f, rd["file"].hint) : j <= k
          /\ rd' = [rd EXCEPT !["file"].pc = "depenqueue", !["file"].hint = j,
                              !["file"].dep = Submission(hints[j][1], u),
                              !["file"].max = max]
    /\ last' = [last EXCEPT !["file"] = u]
    /\ UNCHANGED synced

\* The next hint: what was stored so far is committed, the hint is queued.
NextHint(f, u, max) ==
    /\ \E j \in Missing(db', f, rd["file"].hint) :
          /\ \A k \in Missing(db', f, rd["file"].hint) : j <= k
          /\ rd' = [rd EXCEPT !["file"].pc = "depenqueue", !["file"].hint = j,
                              !["file"].dep = Submission(hints[j][1], u),
                              !["file"].max = max]
    /\ UNCHANGED <<synced, last>>

\* Mutant: the file with its hints is not announced when the last one is in.
LastHint_Silent(f, u, max) ==
    /\ Missing(db', f, rd["file"].hint) = {}
    /\ synced' = synced \cup {f}
    /\ last' = [last EXCEPT !["file"] = u]
    /\ Continue("file")

\* No hint is left, in the transaction that marks the file as synced: "critical".
LastHint(f, u, max) ==
    /\ Missing(db', f, rd["file"].hint) = {}
    /\ synced' = synced \cup {f}
    /\ last' = [last EXCEPT !["file"] = u]
    /\ Commit("file", max)

\* The file, and then each of its hints.
StoreFile ==
    /\ rd["file"].pc \in {"store", "depstore"}
    /\ \E id \in 1..(Len(db.file) + 1) :
          /\ Stores(db, Posted("file"), id, db')
          /\ LET u == PrimaryOf[rd["file"].sub.hash]
                 max == IF id > rd["file"].max THEN id ELSE rd["file"].max
             IN \E f \in DOMAIN db'.file :
                   /\ Resolves(db', u, f)
                   /\ HintsNamed(db', f, rd["file"].hint)
                   /\ NextHint(f, u, max) \/ LastHint(f, u, max)
    /\ UNCHANGED <<hints, run, queue, shared, worker, latest, local, bootLen>>

Announce(id) == latest' = IF id > latest THEN id ELSE latest

\* SLNRepoSubmissionEmit, and the reader goes on.
Emit(p) ==
    /\ rd[p].pc = "emit"
    /\ Announce(rd[p].max)
    /\ rd' = [rd EXCEPT ![p].pc = IF run THEN "read" ELSE "dead", ![p].max = 0]
    /\ UNCHANGED <<tables, run, queue, shared, worker, local, bootLen>>

\* A lost connection, a line that does not parse, a transaction that fails: what
\* was committed before stays, and it is not announced.
ReaderFails(p) ==
    /\ rd[p].pc \in {"start", "read", "store", "depstore"}
    /\ Die(p)
    /\ UNCHANGED <<tables, queue, shared, worker, latest, local, bootLen>>

-----------------------------------------------------------------------------
\* Another client of this repository submits a document (SLNSubmissionStoreBatch):
\* it is committed, and announced later.
Local(doc) ==
    /\ \E id \in 1..(Len(db.file) + 1) :
          Stores(db, doc, id, db') /\ local' = local \cup {id}
    /\ UNCHANGED <<hints, synced, last, fibers, latest, bootLen>>

EmitLocal(id) ==
    /\ id \in local
    /\ Announce(id)
    /\ local' = local \ {id}
    /\ UNCHANGED <<tables, fibers, bootLen>>

\* The process dies and starts again, with what was committed.
Crash ==
    /\ run' = TRUE
    /\ rd' = NewReaders
    /\ queue' = NewQueues
    /\ shared' = 0
    /\ worker' = NewWorkers
    /\ latest' = 0
    /\ local' = {}
    /\ bootLen' = Len(db.file)
    /\ UNCHANGED tables

Step ==
    \/ \E p \in Readers : Start(p) \/ Enqueue(p) \/ Dequeue(p) \/ Emit(p)
    \/ ReadFile \/ ReadMeta \/ StoreMeta \/ StoreFile
    \/ \E w \in Workers : WorkAwait(w) \/ WorkDone(w)

Fail ==
    \/ \E p \in Readers : ReaderFails(p)
    \/ \E w \in Workers : WorkerFails(w)

Next ==
    \/ Step \/ Fail \/ Crash
    \/ \E doc \in LocalDocs : Local(doc)
    \/ \E id \in local : EmitLocal(id)

Spec == Init /\ [][Next]_vars

\* Fibers that can go on do, semaphores hand over in turn, and the remote answers
\* what a worker asks it or the worker fails.
Fairness ==
    /\ \A p \in Readers : WF_vars(Start(p)) /\ SF_vars(Enqueue(p)) /\ WF_vars(Dequeue(p))
                         /\ WF_vars(Emit(p))
    /\ WF_vars(ReadFile) /\ WF_vars(ReadMeta) /\ WF_vars(StoreMeta) /\ WF_vars(StoreFile)
    /\ WF_vars(\E w \in Workers : WorkAwait(w))
    /\ \A w \in Workers : WF_vars(WorkDone(w) \/ WorkerFails(w))

\* One life of the process, with this repository's own clients at rest.
PullSpec == Init /\ [][Step \/ Fail]_vars /\ Fairness

-----------------------------------------------------------------------------
(***************************************************************************)
(* Properties.                                                             *)
(***************************************************************************)
\* The assertions of the queues hold: a queue is free when ingest_sem is had
\* (assert(!queue->sub)), shared_sem promises work ("sync scheduling"), and the
\* submission a worker fetched is still the queue's, so that done_sem wakes the
\* reader that waits for it and no other.
QueuesHandOver ==
    /\ \A p \in Readers :
          /\ rd[p].pc \in {"enqueue", "depenqueue"} /\ queue[QueueOf(p)].ingest > 0
                => queue[QueueOf(p)].sub = NoSub
          /\ rd[p].pc \in {"await", "depawait"} => queue[QueueOf(p)].sub = Posted(p)
    /\ shared > 0 => \E q \in Readers : queue[q].work > 0
    /\ \A w \in Workers : worker[w].pc = "fetch" =>
          \E q \in Readers : queue[q].sub = worker[w].sub

\* A file marked as synced has every meta-file that was ever noted for a URI that
\* is the file's here: no hint slips in between the last look and the mark.
HintsComplete ==
    \A f \in synced : \A j \in DOMAIN hints :
        Resolves(db, hints[j][2], f) => Resolvable(db, hints[j][1])

\* What the remote will not list again after a restart is stored, or noted.
NothingSkipped ==
    /\ \A i \in 1..(Resume("file") - 1) : Resolvable(db, FileLines[i])
    /\ \A i \in 1..(Resume("meta") - 1) :
          \/ Resolvable(db, MetaLines[i][1])
          \/ \E j \in DOMAIN hints : hints[j] = MetaLines[i]

\* What the next two properties need of the remote: it lists a meta-file once, and
\* none as a file too.
ListsApart ==
    /\ \A i, j \in DOMAIN MetaLines : MetaLines[i][1] = MetaLines[j][1] => i = j
    /\ \A i \in DOMAIN MetaLines, j \in DOMAIN FileLines : MetaLines[i][1] # FileLines[j]

\* And of this repository's clients: they post no meta-file that the remote lists
\* behind another one of its target.
OthersApart ==
    \A i, j \in DOMAIN MetaLines : i < j /\ MetaLines[i][2] = MetaLines[j][2] =>
        \A doc \in LocalDocs : doc.hash # Served[MetaLines[j][1]]

\* The meta-files of a target are stored in the order of the remote, and none
\* before an earlier one: "We don't have the previous hints, meaning we should
\* queue ours".
MetaOrder ==
    \A i, j \in DOMAIN MetaLines : i < j /\ MetaLines[i][2] = MetaLines[j][2] =>
        \A b \in DOMAIN db.file : Resolves(db, MetaLines[j][1], b) =>
            \E a \in DOMAIN db.file : Resolves(db, MetaLines[i][1], a) /\ a < b

\* Every file that was recorded as passed has synced its hints ("It's critical
\* that this happens after set_hints_synced, so we restart the hints e.g. in the
\* event of a crash").
RecordedSynced ==
    \A i \in 1..(Resume("file") - 1) : HintsSynced(FileLines[i])

\* A file that is committed and not announced is still to be: by the fiber that
\* committed it, or by the file reader, which announces what it stored for its line
\* when all hints of the file are in.  Only a file reader that failed on a hint
\* leaves files behind, those that it had stored for that line and no others.
Announced ==
    \A id \in (bootLen + 1)..Len(db.file) :
        \/ id <= latest
        \/ id \in local
        \/ \E p \in Readers : rd[p].pc = "emit" /\ id <= rd[p].max
        \/ (OnHint("file") \/ rd["file"].pc = "dead") /\ id <= rd["file"].max

\* The first hint SLNSyncStoreSubmission looks at for a file names the file by
\* its primary URI: assert(0 == strcmp(URI, t)).
HintTargetsPrimary ==
    rd["file"].pc = "store" =>
        LET h == rd["file"].sub.hash IN
        \A j \in DOMAIN hints :
            hints[j][2] \in URIsOf[h] /\ (\A k \in 1..(j - 1) : hints[k][2] \notin URIsOf[h])
                => hints[j][2] = PrimaryOf[h]

Pulled ==
    /\ \A i \in DOMAIN FileLines : Resolvable(db, FileLines[i])
    /\ \A i \in DOMAIN MetaLines : Resolvable(db, MetaLines[i][1])

\* A pull that no error stops gets everything the remote lists.
AllPulled == <>[](Pulled \/ ~run)

\* What the remote can bring, by number.
Counts == 1..(Len(FileLines) + Len(MetaLines))

\* The file reader does not come to announce what it stored for its line: a hint
\* of the line failed, and ended it, or the pull, whose worker may then have left
\* without waking it.
Stranded(id) ==
    id <= rd["file"].max /\ (rd["file"].pc = "dead" \/ (OnHint("file") /\ ~run))

\* Everything the pull stores is announced in the end, whatever fails, but for the
\* files of a line with a hint that failed.
AllAnnounced == \A id \in Counts : Len(db.file) >= id ~> (latest >= id \/ Stranded(id))

=============================================================================
