--------------------------- MODULE SubmissionStore ---------------------------
(***************************************************************************)
(* The write path of a StrongLink repository: SLNSubmission.c and the      *)
(* announcement of SLNRepo.c.                                              *)
(*                                                                         *)
(* A request writes each document of its batch to a temporary file and     *)
(* links that to the content-addressed path, then stores all documents in  *)
(* one write transaction and announces the largest file ID.  Requests run  *)
(* concurrently; the database admits one write transaction at a time.      *)
(* The process may crash between any two steps.                            *)
(***************************************************************************)
EXTENDS FileIndex

CONSTANTS
    Requests,   \* concurrent submitters: HTTP handlers, blog posts, pulls
    Batches,    \* the batches requests may submit
    NoRequest   \* nobody holds the write transaction

ASSUME StoreAssumption ==
    /\ NoRequest \notin Requests
    /\ Batches \subseteq Seq(Documents) \ {<<>>}

VARIABLES
    db,         \* the committed tables
    txn,        \* the tables as the open write transaction sees them
    writer,     \* the request whose write transaction is open
    disk,       \* the contents linked under their internal path
    unsynced,   \* those whose directory entry is not yet known durable
    req,        \* progress of each request
    latest,     \* repo->sub_latest
    bootLen     \* history: number of files when the process started

vars == <<db, txn, writer, disk, unsynced, req, latest, bootLen>>

Phases == {"idle", "write", "sync", "store", "txn", "emit"}

Idle == [pc |-> "idle", batch |-> <<>>, i |-> 1, sortID |-> 0]

Doc(r) == req[r].batch[req[r].i]

Drop(r) == req' = [req EXCEPT ![r] = Idle]

Init ==
    /\ db = EmptyDB
    /\ txn = EmptyDB
    /\ writer = NoRequest
    /\ disk = {}
    /\ unsynced = {}
    /\ req = [r \in Requests |-> Idle]
    /\ latest = 0
    /\ bootLen = 0

-----------------------------------------------------------------------------
(***************************************************************************)
(* From temporary file to internal path (SLNSubmissionCreate, Write, End). *)
(***************************************************************************)

\* A request that knows the URI looks it up first (PUT_file, the pull) and
\* submits only what is missing; the answer may be stale when it stores.
Create(r, b) ==
    /\ req[r].pc = "idle"
    /\ b[1].knownURI # NoURI => ~Resolvable(db, b[1].knownURI)
    /\ req' = [req EXCEPT ![r] = [pc |-> "write", batch |-> b, i |-> 1, sortID |-> 0]]
    /\ UNCHANGED <<db, txn, writer, disk, unsynced, latest, bootLen>>

Verified(doc) == doc.knownURI = NoURI \/ doc.knownURI \in URIsOf[doc.hash]

\* The document is under its internal path: on to the next, or to the store.
Ended(r) ==
    req' = [req EXCEPT ![r] =
               IF req[r].i < Len(req[r].batch)
               THEN [pc |-> "write", batch |-> req[r].batch, i |-> req[r].i + 1, sortID |-> 0]
               ELSE [pc |-> "store", batch |-> req[r].batch, i |-> 1, sortID |-> 0]]

\* verify, then link(2): a content that is there already is kept (UV_EEXIST).
Link(r) ==
    /\ req[r].pc = "write"
    /\ \/ /\ ~Verified(Doc(r))
          /\ Drop(r)
          /\ UNCHANGED <<disk, unsynced>>
       \/ /\ Verified(Doc(r)) /\ Doc(r).hash \in disk
          /\ Ended(r)
          /\ UNCHANGED <<disk, unsynced>>
       \/ /\ Verified(Doc(r)) /\ Doc(r).hash \notin disk
          /\ disk' = disk \cup {Doc(r).hash}
          /\ unsynced' = unsynced \cup {Doc(r).hash}
          /\ req' = [req EXCEPT ![r].pc = "sync"]
    /\ UNCHANGED <<db, txn, writer, latest, bootLen>>

\* async_fs_sync_dirname: the new directory entry becomes durable.
SyncDir(r) ==
    /\ req[r].pc = "sync"
    /\ unsynced' = unsynced \ {Doc(r).hash}
    /\ Ended(r)
    /\ UNCHANGED <<db, txn, writer, disk, latest, bootLen>>

\* Mutant: the result of link(2) is not looked at.
IOError_Ignored(r) ==
    /\ req[r].pc \in {"write", "sync"}
    /\ Ended(r)
    /\ UNCHANGED <<db, txn, writer, disk, unsynced, latest, bootLen>>

\* An empty body, or an error of write, fdatasync, link or fsync.  A link that
\* was made stays.
IOError(r) ==
    /\ req[r].pc \in {"write", "sync"}
    /\ Drop(r)
    /\ UNCHANGED <<db, txn, writer, disk, unsynced, latest, bootLen>>

-----------------------------------------------------------------------------
(***************************************************************************)
(* The transaction (SLNSubmissionStoreBatch, SLNSubmissionStore).          *)
(***************************************************************************)
Begin(r) ==
    /\ req[r].pc = "store"
    /\ writer = NoRequest
    /\ writer' = r
    /\ txn' = db
    /\ req' = [req EXCEPT ![r].pc = "txn"]
    /\ UNCHANGED <<db, disk, unsynced, latest, bootLen>>

StoreDoc(r) ==
    /\ req[r].pc = "txn"
    /\ req[r].i <= Len(req[r].batch)
    /\ \E id \in 1..(Len(txn.file) + 1) :
          /\ Stores(txn, Doc(r), id, txn')
          /\ req' = [req EXCEPT ![r].i = @ + 1,
                                ![r].sortID = IF id > @ THEN id ELSE @]
    /\ UNCHANGED <<db, writer, disk, unsynced, latest, bootLen>>

\* Mutant: the error path returns without kvs_txn_abort.
Rollback_KeepsTxn(r) ==
    /\ Drop(r)
    /\ UNCHANGED <<db, txn, writer, disk, unsynced, latest, bootLen>>

\* kvs_txn_abort: nothing of the batch is kept.
Rollback(r) ==
    /\ txn' = db
    /\ writer' = NoRequest
    /\ Drop(r)
    /\ UNCHANGED <<db, disk, unsynced, latest, bootLen>>

RefuseDoc(r) ==
    /\ req[r].pc = "txn"
    /\ req[r].i <= Len(req[r].batch)
    /\ \E id \in 1..(Len(txn.file) + 1) : Refuses(txn, Doc(r), id)
    /\ Rollback(r)

\* Mutant: the batch is committed up to where it failed.
DBError_Commits(r) ==
    /\ req[r].pc = "txn"
    /\ db' = txn
    /\ writer' = NoRequest
    /\ Drop(r)
    /\ UNCHANGED <<txn, disk, unsynced, latest, bootLen>>

\* kvs_put or kvs_txn_commit fails: the map is full, the disk is.
DBError(r) ==
    /\ req[r].pc = "txn"
    /\ Rollback(r)

Commit(r) ==
    /\ req[r].pc = "txn"
    /\ req[r].i > Len(req[r].batch)
    /\ db' = txn
    /\ writer' = NoRequest
    /\ req' = [req EXCEPT ![r].pc = "emit"]
    /\ UNCHANGED <<txn, disk, unsynced, latest, bootLen>>

\* Mutant: the announcement does not compare with sub_latest.
Emit_Overwrites(r) ==
    /\ req[r].pc = "emit"
    /\ latest' = req[r].sortID
    /\ Drop(r)
    /\ UNCHANGED <<db, txn, writer, disk, unsynced, bootLen>>

\* SLNRepoSubmissionEmit, under its own mutex and after the commit: two
\* requests may announce in the other order.
Emit(r) ==
    /\ req[r].pc = "emit"
    /\ latest' = IF req[r].sortID > latest THEN req[r].sortID ELSE latest
    /\ Drop(r)
    /\ UNCHANGED <<db, txn, writer, disk, unsynced, bootLen>>

-----------------------------------------------------------------------------
\* The process dies and starts again: requests, the open transaction and
\* sub_latest are lost; the file system and the database are not.
Restart ==
    /\ txn' = db
    /\ writer' = NoRequest
    /\ req' = [r \in Requests |-> Idle]
    /\ latest' = 0
    /\ bootLen' = Len(db.file)
    /\ UNCHANGED db

Crash == Restart /\ UNCHANGED <<disk, unsynced>>

\* The machine loses power: directory entries nobody synced may be gone too.
PowerLoss ==
    /\ Restart
    /\ \E lost \in SUBSET unsynced : disk' = disk \ lost
    /\ unsynced' = {}

Step(r) ==
    \/ Link(r) \/ SyncDir(r) \/ Begin(r) \/ StoreDoc(r) \/ RefuseDoc(r)
    \/ Commit(r) \/ Emit(r)

Next ==
    \/ \E r \in Requests, b \in Batches : Create(r, b)
    \/ \E r \in Requests : Step(r) \/ IOError(r) \/ DBError(r)
    \/ Crash

Spec == Init /\ [][Next]_vars

\* A request that can go on does, and a waiting write transaction gets its turn.
Fairness == \A r \in Requests : WF_vars(Step(r)) /\ SF_vars(Begin(r))

FairSpec == Spec /\ Fairness

PowerSpec == Init /\ [][Next \/ PowerLoss]_vars

-----------------------------------------------------------------------------
(***************************************************************************)
(* Properties.                                                             *)
(***************************************************************************)

\* Every variable has its type; requests in a phase hold a batch.
TypeOK ==
    /\ IndexType(db)
    /\ IndexType(txn)
    /\ writer \in Requests \cup {NoRequest}
    /\ disk \in SUBSET Hashes
    /\ unsynced \in SUBSET Hashes
    /\ req \in [Requests -> [pc : Phases, batch : Batches \cup {<<>>},
                             i : Nat \ {0}, sortID : Nat]]
    /\ latest \in Nat
    /\ bootLen \in Nat

\* However requests interleave, fail and crash, no (hash, type) gets two file
\* IDs, and a file is found under exactly the URIs of its content.
FilesIndexed == DistinctFiles(db) /\ URIsExact(db)

\* The committed meta-file tables list exactly the stored meta-files, each with
\* the target its content names: the "duplicate" early return of
\* SLNSubmissionParseMetaFile never skips a meta-file that is not indexed yet.
MetasIndexed == MetasExact(db)

\* What add_metafile's checks are for: a meta-file is younger than the file its
\* target resolves to, and never targets a meta-file, even where URIs collide
\* and files that share them arrive later.  (The later ones are older by their
\* meta-file than by their ID: see OwnAge in Filters.)
MetasAfterTargets == TargetsOlder(db)

\* Each target URI has one FirstUniqueMetaFileID row: its oldest meta-file.
FirstsUnique == FirstsExact(db)

\* No committed file lacks its data: what the index lists is linked under its
\* internal path, whatever crashed, failed or raced (GET_file's 410 for a
\* listed file cannot happen).
DataOnDisk == \A i \in DOMAIN db.file : db.file[i].hash \in disk

\* Whatever was committed since start-up is announced, or a request that will
\* announce as much is on its way: no order of commits and announcements
\* leaves a long poll asleep over a file.  And nothing is announced early.
NothingUnannounced ==
    /\ latest <= Len(db.file)
    /\ \A id \in (bootLen + 1)..Len(db.file) :
          id <= latest \/ \E r \in Requests : req[r].pc = "emit" /\ id <= req[r].sortID

\* A URI keeps naming the oldest file it ever named ("the server is
\* guaranteed to return the oldest matching file"), also where URIs collide.
OldestKept ==
    [][ \A u \in URIs, i \in DOMAIN db.file :
            Resolves(db, u, i) => Resolves(db', u, i) ]_db

\* A submission under way ends (stored, refused or failed): the write
\* transaction is handed on by every path through SLNSubmissionStoreBatch.
Finishes == \A r \in Requests : (req[r].pc # "idle") ~> (req[r].pc = "idle")

\* The write path implements an append-only log of batches.
Log == INSTANCE RepositoryLog WITH
          Entries <- {Info(doc) : doc \in Documents},
          Groups <- {{Info(b[i]) : i \in DOMAIN b} : b \in Batches},
          log <- db.file, announced <- latest

ImplementsLog == Log!Spec

-----------------------------------------------------------------------------
(***************************************************************************)
(* The inductive invariant, in named parts.                                *)
(***************************************************************************)

\* The write transaction is open exactly while its request is in phase "txn".
WriterOK ==
    /\ \A r \in Requests : req[r].pc = "txn" <=> writer = r
    /\ writer = NoRequest => txn = db

\* Where a request is in its batch.
BatchOK ==
    \A r \in Requests :
        /\ req[r].pc # "idle" => req[r].batch \in Batches
        /\ req[r].pc \in {"write", "sync"} => req[r].i \in DOMAIN req[r].batch
        /\ req[r].pc = "store" => req[r].i = 1 /\ req[r].sortID = 0
        /\ req[r].pc = "txn" => req[r].i <= Len(req[r].batch) + 1
        /\ req[r].pc \in {"idle", "write", "sync"} => req[r].sortID = 0

\* What a request has linked so far: everything, once it may store.
Linked(r) ==
    IF req[r].pc \in {"write", "sync"} THEN 1..(req[r].i - 1)
    ELSE IF req[r].pc \in {"store", "txn"} THEN DOMAIN req[r].batch ELSE {}

DataFirst ==
    /\ \A r \in Requests : \A j \in Linked(r) : req[r].batch[j].hash \in disk
    /\ \A r \in Requests : req[r].pc = "sync" => Doc(r).hash \in disk
    /\ \A i \in DOMAIN txn.file : txn.file[i].hash \in disk

\* What e adds to d: files at the end, and nothing that changes what a URI names.
Extends(d, e) ==
    /\ Len(d.file) <= Len(e.file)
    /\ \A i \in DOMAIN d.file : e.file[i] = d.file[i]
    /\ \A u \in URIs, i \in DOMAIN d.file : Resolves(d, u, i) => Resolves(e, u, i)

\* The open transaction extends the committed tables by the documents stored
\* so far, and its request remembers the largest ID among them.
TxnOK ==
    /\ Extends(db, txn)
    /\ \A r \in Requests : req[r].pc = "txn" =>
          /\ req[r].sortID <= Len(txn.file)
          /\ \A id \in (Len(db.file) + 1)..Len(txn.file) : id <= req[r].sortID
          /\ Log!Listed(txn.file) =
                Log!Listed(db.file) \cup {Info(req[r].batch[j]) : j \in 1..(req[r].i - 1)}

\* Nobody announces what is not committed.
EmitOK ==
    /\ bootLen <= Len(db.file)
    /\ \A r \in Requests : req[r].pc = "emit" => req[r].sortID <= Len(db.file)

IInv ==
    /\ TypeOK
    /\ IndexOK(db)
    /\ IndexOK(txn)
    /\ WriterOK
    /\ BatchOK
    /\ DataFirst
    /\ TxnOK
    /\ EmitOK
    /\ DataOnDisk
    /\ NothingUnannounced

=============================================================================
