------------------------ MODULE SubmissionStoreProofs ------------------------
(***************************************************************************)
(* The write path keeps the index well-formed, every listed file's data on *)
(* disk and every commit announced, for any number of requests, contents,  *)
(* URIs and batches; and it implements RepositoryLog.                      *)
(***************************************************************************)
EXTENDS SubmissionStore, FileIndexProofs

\* A well-formed index lists its files in a sequence.
LEMMA IndexSeq ==
  ASSUME NEW d, IndexOK(d)
  PROVE  /\ d.file \in Seq([hash : Hashes, type : Types])
         /\ Len(d.file) \in Nat
         /\ DOMAIN d.file = 1..Len(d.file)
  BY DEF IndexOK, IndexType

\* A batch is a sequence of documents, and not an empty one.
LEMMA BatchSeq ==
  ASSUME NEW b \in Batches
  PROVE  /\ b \in Seq(Documents) /\ b # <<>>
         /\ Len(b) \in Nat \ {0}
         /\ DOMAIN b = 1..Len(b)
<1>1. b \in Seq(Documents) /\ b # <<>>
  BY StoreAssumption
<1>2. QED
  BY <1>1, EmptySeq

\* The invariant holds at the start: nothing is stored and nobody is at work.
LEMMA InitIInv == Init => IInv
<1> SUFFICES ASSUME Init PROVE IInv
  OBVIOUS
<1> USE DEF Init
<1>1. IndexOK(db) /\ IndexOK(txn)
  BY EmptyIndexOK
<1>2. TypeOK
  BY <1>1 DEF TypeOK, Idle, Phases, IndexOK
<1>3. WriterOK /\ BatchOK
  BY StoreAssumption DEF WriterOK, BatchOK, Idle
<1>4. DataFirst /\ DataOnDisk
  BY DEF DataFirst, DataOnDisk, Linked, Idle, EmptyDB
<1>5. TxnOK
  BY DEF TxnOK, Extends, Idle, EmptyDB
<1>6. EmitOK /\ NothingUnannounced
  BY DEF EmitOK, NothingUnannounced, Idle, EmptyDB
<1>7. QED
  BY <1>1, <1>2, <1>3, <1>4, <1>5, <1>6 DEF IInv

\* The record of a request, and what a step outside the transaction may make of it.
At(pc, b, i) == [pc |-> pc, batch |-> b, i |-> i, sortID |-> 0]

OutsideOK(pc, b, i) ==
    /\ pc \in {"idle", "write", "sync", "store"}
    /\ i \in Nat \ {0}
    /\ IF pc = "idle" THEN b = <<>> ELSE b \in Batches
    /\ pc \in {"write", "sync"} => i \in DOMAIN b
    /\ pc = "store" => i = 1
    /\ disk \subseteq disk' /\ disk' \subseteq Hashes /\ unsynced' \subseteq Hashes
    /\ pc \in {"write", "sync"} => \A j \in 1..(i - 1) : b[j].hash \in disk'
    /\ pc = "sync" => b[i].hash \in disk'
    /\ pc = "store" => \A j \in DOMAIN b : b[j].hash \in disk'
    /\ UNCHANGED <<db, txn, writer, latest, bootLen>>

\* A step of a request outside the transaction: it writes, links or gives up.
\* What it may change is its own record, outside the phases that store and
\* announce, and the disk, which keeps what it has.
LEMMA OutsideTxn ==
  ASSUME IInv, NEW r \in Requests, req[r].pc \in {"idle", "write", "sync"},
         NEW pc, NEW b, NEW i,
         req' = [req EXCEPT ![r] = At(pc, b, i)],
         OutsideOK(pc, b, i)
  PROVE  IInv'
<1> USE DEF At, OutsideOK
<1> DEFINE v == [pc |-> pc, batch |-> b, i |-> i, sortID |-> 0]
<1>1. req'[r] = v /\ \A q \in Requests \ {r} : req'[q] = req[q]
  BY DEF IInv, TypeOK
<1>2. TypeOK'
  BY <1>1 DEF IInv, TypeOK, Phases
<1>3. IndexOK(db)' /\ IndexOK(txn)'
  BY DEF IInv
<1>4. WriterOK'
  BY <1>1 DEF IInv, WriterOK
<1>5. BatchOK'
  BY <1>1 DEF IInv, BatchOK
<1>6. DataFirst'
  <2>1. ASSUME NEW q \in Requests, NEW j \in Linked(q)'
        PROVE  (req[q].batch[j].hash \in disk)'
    BY <1>1, <2>1 DEF IInv, DataFirst, Linked
  <2>2. ASSUME NEW q \in Requests, (req[q].pc = "sync")'
        PROVE  (Doc(q).hash \in disk)'
    BY <1>1, <2>2 DEF IInv, DataFirst, Doc
  <2>3. QED
    BY <2>1, <2>2 DEF IInv, DataFirst
<1>7. TxnOK'
  BY <1>1 DEF IInv, TxnOK
<1>8. EmitOK'
  BY <1>1 DEF IInv, EmitOK
<1>9. DataOnDisk'
  BY DEF IInv, DataOnDisk
<1>10. NothingUnannounced'
  <2>1. \A q \in Requests : req[q].pc = "emit" => req'[q] = req[q]
    BY <1>1
  <2>2. QED
    BY <2>1 DEF IInv, NothingUnannounced
<1>11. QED
  BY <1>2, <1>3, <1>4, <1>5, <1>6, <1>7, <1>8, <1>9, <1>10 DEF IInv

\* The document a request is at has the type of one.
LEMMA DocOK ==
  ASSUME IInv, NEW r \in Requests,
         req[r].pc \in {"write", "sync"} \/ (req[r].pc = "txn" /\ req[r].i <= Len(req[r].batch))
  PROVE  /\ req[r].batch \in Batches
         /\ req[r].i \in DOMAIN req[r].batch
         /\ Doc(r) \in Documents
<1>1. req[r].batch \in Batches /\ req[r].i \in Nat \ {0}
  BY DEF IInv, BatchOK, TypeOK
<1>2. req[r].i \in DOMAIN req[r].batch
  BY <1>1, BatchSeq DEF IInv, BatchOK
<1>3. QED
  BY <1>1, <1>2, BatchSeq DEF Doc

\* A request takes a batch.
LEMMA CreateIInv ==
  ASSUME IInv, NEW r \in Requests, NEW b \in Batches, Create(r, b)
  PROVE  IInv'
<1>1. 1 \in DOMAIN b
  BY BatchSeq
<1>2. disk \subseteq Hashes /\ unsynced \subseteq Hashes
  BY DEF IInv, TypeOK
<1>3. \A j \in 1..(1 - 1) : b[j].hash \in disk'
  OBVIOUS
<1>4. /\ req[r].pc = "idle"
      /\ req' = [req EXCEPT ![r] = [pc |-> "write", batch |-> b, i |-> 1, sortID |-> 0]]
      /\ disk' = disk /\ unsynced' = unsynced
      /\ UNCHANGED <<db, txn, writer, latest, bootLen>>
  BY DEF Create
<1>5. OutsideOK("write", b, 1)
  BY <1>1, <1>2, <1>3, <1>4 DEF OutsideOK
<1>6. QED
  BY <1>4, <1>5, OutsideTxn DEF At

\* The next phase once a document is under its path.
LEMMA EndedIInv ==
  ASSUME IInv, NEW r \in Requests, req[r].pc \in {"write", "sync"},
         Doc(r).hash \in disk', Ended(r),
         disk \subseteq disk', disk' \subseteq Hashes, unsynced' \subseteq Hashes,
         UNCHANGED <<db, txn, writer, latest, bootLen>>
  PROVE  IInv'
<1>1. req[r] \in [pc : Phases, batch : Batches \cup {<<>>}, i : Nat \ {0}, sortID : Nat]
  BY DEF IInv, TypeOK
<1> DEFINE b == req[r].batch
           i == req[r].i
<1>2. b \in Batches /\ i \in DOMAIN b /\ i \in Nat \ {0} /\ req[r].sortID = 0
  BY <1>1, DocOK DEF IInv, BatchOK
<1>3. DOMAIN b = 1..Len(b) /\ Len(b) \in Nat
  BY <1>2, BatchSeq
<1>4. \A j \in 1..i : b[j].hash \in disk'
  BY <1>1, <1>2, <1>3 DEF IInv, DataFirst, Linked, Doc
<1>5. CASE i < Len(b)
  <2>1. req' = [req EXCEPT ![r] = [pc |-> "write", batch |-> b, i |-> i + 1, sortID |-> 0]]
    BY <1>5 DEF Ended
  <2>2. i + 1 \in DOMAIN b /\ i + 1 \in Nat \ {0} /\ \A j \in 1..((i + 1) - 1) : b[j].hash \in disk'
    BY <1>2, <1>3, <1>4, <1>5
  <2> HIDE DEF b, i
  <2>3. OutsideOK("write", b, i + 1)
    BY <1>2, <2>2 DEF OutsideOK
  <2>4. QED
    BY <2>1, <2>3, OutsideTxn DEF At
<1>6. CASE ~(i < Len(b))
  <2>1. req' = [req EXCEPT ![r] = [pc |-> "store", batch |-> b, i |-> 1, sortID |-> 0]]
    BY <1>6 DEF Ended
  <2>2. \A j \in DOMAIN b : b[j].hash \in disk'
    BY <1>2, <1>3, <1>4, <1>6
  <2> HIDE DEF b, i
  <2>3. OutsideOK("store", b, 1)
    BY <1>2, <2>2 DEF OutsideOK
  <2>4. QED
    BY <2>1, <2>3, OutsideTxn DEF At
<1>7. QED
  BY <1>5, <1>6

\* A request outside the transaction gives up.
LEMMA DropIInv ==
  ASSUME IInv, NEW r \in Requests, req[r].pc \in {"write", "sync"}, Drop(r),
         UNCHANGED <<db, txn, writer, disk, unsynced, latest, bootLen>>
  PROVE  IInv'
<1>1. disk \subseteq Hashes /\ unsynced \subseteq Hashes
  BY DEF IInv, TypeOK
<1>2. req' = [req EXCEPT ![r] = [pc |-> "idle", batch |-> <<>>, i |-> 1, sortID |-> 0]]
  BY DEF Drop, Idle
<1>3. OutsideOK("idle", <<>>, 1)
  BY <1>1 DEF OutsideOK
<1>4. QED
  BY <1>2, <1>3, OutsideTxn DEF At

\* Linking a document.
LEMMA LinkIInv ==
  ASSUME IInv, NEW r \in Requests, Link(r)
  PROVE  IInv'
<1>1. disk \subseteq Hashes /\ unsynced \subseteq Hashes /\ Doc(r).hash \in Hashes
  BY DocOK DEF IInv, TypeOK, Link, Documents
<1>2. CASE ~Verified(Doc(r))
  BY <1>2, DropIInv DEF Link
<1>3. CASE Verified(Doc(r)) /\ Doc(r).hash \in disk
  BY <1>1, <1>3, EndedIInv DEF Link
<1>4. CASE Verified(Doc(r)) /\ Doc(r).hash \notin disk
  <2> DEFINE b == req[r].batch
             i == req[r].i
  <2>1. req[r] \in [pc : Phases, batch : Batches \cup {<<>>}, i : Nat \ {0}, sortID : Nat]
    BY DEF IInv, TypeOK
  <2>2. /\ b \in Batches /\ i \in DOMAIN b /\ i \in Nat \ {0}
        /\ req[r].pc = "write" /\ req[r].sortID = 0
        /\ \A j \in 1..(i - 1) : b[j].hash \in disk
    BY <2>1, DocOK DEF IInv, BatchOK, DataFirst, Linked, Link
  <2>3. req' = [req EXCEPT ![r] = [pc |-> "sync", batch |-> b, i |-> i, sortID |-> 0]]
    BY <1>4, <2>1, <2>2 DEF Link
  <2>4. /\ disk' = disk \cup {b[i].hash} /\ unsynced' = unsynced \cup {b[i].hash}
        /\ b[i].hash \in Hashes
        /\ UNCHANGED <<db, txn, writer, latest, bootLen>>
    BY <1>1, <1>4 DEF Link, Doc
  <2> HIDE DEF b, i
  <2>5. /\ disk \subseteq disk' /\ disk' \subseteq Hashes /\ unsynced' \subseteq Hashes
        /\ b[i].hash \in disk'
    BY <1>1, <2>4
  <2>6. OutsideOK("sync", b, i)
    BY <2>2, <2>4, <2>5 DEF OutsideOK
  <2>7. QED
    BY <2>2, <2>3, <2>6, OutsideTxn DEF At
<1>5. QED
  BY <1>2, <1>3, <1>4

\* Making the directory entry durable.
LEMMA SyncDirIInv ==
  ASSUME IInv, NEW r \in Requests, SyncDir(r)
  PROVE  IInv'
<1>1. disk \subseteq Hashes /\ unsynced' \subseteq Hashes /\ Doc(r).hash \in disk
  BY DEF IInv, TypeOK, SyncDir, DataFirst
<1>2. QED
  BY <1>1, EndedIInv DEF SyncDir

\* An error on the way there.
LEMMA IOErrorIInv ==
  ASSUME IInv, NEW r \in Requests, IOError(r)
  PROVE  IInv'
  BY DropIInv DEF IOError

\* Opening the write transaction.
LEMMA BeginIInv ==
  ASSUME IInv, NEW r \in Requests, Begin(r)
  PROVE  IInv'
<1>1. req[r] \in [pc : Phases, batch : Batches \cup {<<>>}, i : Nat \ {0}, sortID : Nat]
  BY DEF IInv, TypeOK
<1>2. /\ req[r].pc = "store" /\ req[r].i = 1 /\ req[r].sortID = 0
      /\ req[r].batch \in Batches
  BY DEF Begin, IInv, BatchOK
<1>3. /\ req'[r] = [pc |-> "txn", batch |-> req[r].batch, i |-> 1, sortID |-> 0]
      /\ \A q \in Requests \ {r} : req'[q] = req[q]
      /\ req' \in [Requests -> [pc : Phases, batch : Batches \cup {<<>>}, i : Nat \ {0}, sortID : Nat]]
  BY <1>1, <1>2 DEF Begin, IInv, TypeOK, Phases
<1>4. /\ txn' = db /\ db' = db /\ disk' = disk /\ unsynced' = unsynced
      /\ writer = NoRequest /\ writer' = r /\ latest' = latest /\ bootLen' = bootLen
      /\ txn = db
  BY DEF Begin, IInv, WriterOK
<1>5. TypeOK'
  BY <1>3, <1>4 DEF IInv, TypeOK
<1>6. IndexOK(db)' /\ IndexOK(txn)'
  BY <1>4 DEF IInv
<1>7. WriterOK'
  BY <1>3, <1>4, StoreAssumption DEF IInv, WriterOK
<1>8. BatchOK'
  BY <1>2, <1>3, BatchSeq DEF IInv, BatchOK
<1>9. DataFirst'
  <2>1. ASSUME NEW q \in Requests, NEW j \in Linked(q)'
        PROVE  (req[q].batch[j].hash \in disk)'
    BY <1>2, <1>3, <1>4 DEF IInv, DataFirst, Linked
  <2>2. ASSUME NEW q \in Requests, (req[q].pc = "sync")'
        PROVE  (Doc(q).hash \in disk)'
    BY <1>3, <1>4, <2>2 DEF IInv, DataFirst, Doc
  <2>3. QED
    BY <1>4, <2>1, <2>2 DEF IInv, DataFirst
<1>10. TxnOK'
  <2>1. \A q \in Requests : req'[q].pc = "txn" => q = r
    BY <1>3, <1>4, <1>7 DEF WriterOK
  <2>2. {Info(req[r].batch[j]) : j \in 1..(1 - 1)} = {}
    OBVIOUS
  <2>3. Extends(db', txn')
    BY <1>4, IndexSeq DEF Extends, IInv
  <2>4. Len(db.file) \in Nat
    BY IndexSeq DEF IInv
  <2>5. QED
    BY <1>3, <1>4, <2>1, <2>2, <2>3, <2>4 DEF TxnOK
<1>11. EmitOK'
  BY <1>3, <1>4 DEF IInv, EmitOK
<1>12. DataOnDisk'
  BY <1>4 DEF IInv, DataOnDisk
<1>13. NothingUnannounced'
  BY <1>2, <1>3, <1>4 DEF IInv, NothingUnannounced
<1>14. QED
  BY <1>5, <1>6, <1>7, <1>8, <1>9, <1>10, <1>11, <1>12, <1>13 DEF IInv

\* The transaction is given up: the tables it saw are gone.
LEMMA RollbackIInv ==
  ASSUME IInv, NEW r \in Requests, req[r].pc = "txn", Rollback(r)
  PROVE  IInv'
<1>1. /\ req'[r] = Idle
      /\ \A q \in Requests \ {r} : req'[q] = req[q]
      /\ req' \in [Requests -> [pc : Phases, batch : Batches \cup {<<>>}, i : Nat \ {0}, sortID : Nat]]
  BY DEF Rollback, Drop, IInv, TypeOK, Idle, Phases
<1>2. /\ txn' = db /\ db' = db /\ disk' = disk /\ unsynced' = unsynced
      /\ writer' = NoRequest /\ latest' = latest /\ bootLen' = bootLen
      /\ writer = r
  BY DEF Rollback, IInv, WriterOK
<1>3. TypeOK'
  BY <1>1, <1>2 DEF IInv, TypeOK
<1>4. IndexOK(db)' /\ IndexOK(txn)'
  BY <1>2 DEF IInv
<1>5. WriterOK'
  BY <1>1, <1>2, StoreAssumption DEF IInv, WriterOK, Idle
<1>6. BatchOK'
  BY <1>1 DEF IInv, BatchOK, Idle
<1>7. DataFirst'
  <2>1. ASSUME NEW q \in Requests, NEW j \in Linked(q)'
        PROVE  (req[q].batch[j].hash \in disk)'
    BY <1>1, <1>2 DEF IInv, DataFirst, Linked, Idle
  <2>2. ASSUME NEW q \in Requests, (req[q].pc = "sync")'
        PROVE  (Doc(q).hash \in disk)'
    BY <1>1, <1>2, <2>2 DEF IInv, DataFirst, Doc, Idle
  <2>3. ASSUME NEW j \in DOMAIN db.file
        PROVE  db.file[j].hash \in disk
    BY DEF IInv, DataOnDisk
  <2>4. QED
    BY <1>2, <2>1, <2>2, <2>3 DEF DataFirst
<1>8. TxnOK'
  <2>1. \A q \in Requests : req'[q].pc # "txn"
    BY <1>2, <1>5, StoreAssumption DEF WriterOK
  <2>2. Extends(db', txn')
    BY <1>2, IndexSeq DEF Extends, IInv
  <2>3. QED
    BY <2>1, <2>2 DEF TxnOK
<1>9. EmitOK'
  BY <1>1, <1>2 DEF IInv, EmitOK, Idle
<1>10. DataOnDisk'
  BY <1>2 DEF IInv, DataOnDisk
<1>11. NothingUnannounced'
  BY <1>1, <1>2 DEF IInv, NothingUnannounced, Idle
<1>12. QED
  BY <1>3, <1>4, <1>5, <1>6, <1>7, <1>8, <1>9, <1>10, <1>11 DEF IInv

\* Announcing what was committed.
LEMMA EmitIInv ==
  ASSUME IInv, NEW r \in Requests, Emit(r)
  PROVE  IInv'
<1>1. /\ req[r].pc = "emit" /\ req'[r] = Idle
      /\ \A q \in Requests \ {r} : req'[q] = req[q]
      /\ req' \in [Requests -> [pc : Phases, batch : Batches \cup {<<>>}, i : Nat \ {0}, sortID : Nat]]
  BY DEF Emit, Drop, IInv, TypeOK, Idle, Phases
<1>2. /\ txn' = txn /\ db' = db /\ disk' = disk /\ unsynced' = unsynced
      /\ writer' = writer /\ bootLen' = bootLen
      /\ latest' = IF req[r].sortID > latest THEN req[r].sortID ELSE latest
  BY DEF Emit
<1>3. /\ req[r].sortID \in Nat /\ latest \in Nat /\ bootLen \in Nat
      /\ req[r].sortID <= Len(db.file) /\ Len(db.file) \in Nat
      /\ \A q \in Requests : req[q].sortID \in Nat
  BY <1>1, IndexSeq DEF IInv, TypeOK, EmitOK
<1>4. /\ latest' \in Nat /\ latest <= latest' /\ req[r].sortID <= latest'
      /\ latest' <= Len(db.file)
  BY <1>2, <1>3 DEF IInv, NothingUnannounced
<1>5. TypeOK'
  BY <1>1, <1>2, <1>4 DEF IInv, TypeOK
<1>6. IndexOK(db)' /\ IndexOK(txn)'
  BY <1>2 DEF IInv
<1>7. WriterOK'
  BY <1>1, <1>2 DEF IInv, WriterOK, Idle
<1>8. BatchOK'
  BY <1>1 DEF IInv, BatchOK, Idle
<1>9. DataFirst'
  <2>1. ASSUME NEW q \in Requests, NEW j \in Linked(q)'
        PROVE  (req[q].batch[j].hash \in disk)'
    BY <1>1, <1>2 DEF IInv, DataFirst, Linked, Idle
  <2>2. ASSUME NEW q \in Requests, (req[q].pc = "sync")'
        PROVE  (Doc(q).hash \in disk)'
    BY <1>1, <1>2, <2>2 DEF IInv, DataFirst, Doc, Idle
  <2>3. QED
    BY <1>2, <2>1, <2>2 DEF IInv, DataFirst
<1>10. TxnOK'
  BY <1>1, <1>2 DEF IInv, TxnOK, Idle
<1>11. EmitOK'
  BY <1>1, <1>2 DEF IInv, EmitOK, Idle
<1>12. DataOnDisk'
  BY <1>2 DEF IInv, DataOnDisk
<1>13. NothingUnannounced'
  <2>1. ASSUME NEW id \in (bootLen + 1)..Len(db.file)
        PROVE  id <= latest' \/ \E q \in Requests : req'[q].pc = "emit" /\ id <= req'[q].sortID
    <3>1. CASE id <= latest
      BY <1>3, <1>4, <3>1
    <3>2. CASE \E q \in Requests : req[q].pc = "emit" /\ id <= req[q].sortID
      BY <1>1, <1>3, <1>4, <3>2
    <3>3. QED
      BY <3>1, <3>2 DEF IInv, NothingUnannounced
  <2>2. QED
    BY <1>2, <1>4, <2>1 DEF NothingUnannounced
<1>14. QED
  BY <1>5, <1>6, <1>7, <1>8, <1>9, <1>10, <1>11, <1>12, <1>13 DEF IInv

\* Extension of the tables is reflexive and transitive.
LEMMA ExtendsSelf ==
  ASSUME NEW d, IndexOK(d)
  PROVE  Extends(d, d)
  BY IndexSeq DEF Extends

LEMMA ExtendsTrans ==
  ASSUME NEW d, NEW e, NEW f, IndexOK(d), IndexOK(e), IndexOK(f), Extends(d, e), Extends(e, f)
  PROVE  Extends(d, f)
<1>1. /\ Len(d.file) \in Nat /\ Len(e.file) \in Nat /\ Len(f.file) \in Nat
      /\ DOMAIN d.file = 1..Len(d.file) /\ DOMAIN e.file = 1..Len(e.file)
  BY IndexSeq
<1>2. DOMAIN d.file \subseteq DOMAIN e.file
  BY <1>1 DEF Extends
<1>3. QED
  BY <1>1, <1>2 DEF Extends

\* Committing: what the transaction saw becomes the tables.
LEMMA CommitIInv ==
  ASSUME IInv, NEW r \in Requests, Commit(r)
  PROVE  IInv'
<1>1. /\ req[r].pc = "txn"
      /\ req'[r] = [req[r] EXCEPT !.pc = "emit"]
      /\ req[r] \in [pc : Phases, batch : Batches \cup {<<>>}, i : Nat \ {0}, sortID : Nat]
      /\ \A q \in Requests \ {r} : req'[q] = req[q]
      /\ req' \in [Requests -> [pc : Phases, batch : Batches \cup {<<>>}, i : Nat \ {0}, sortID : Nat]]
  BY DEF Commit, IInv, TypeOK, Phases
<1>2. /\ req'[r].pc = "emit" /\ req'[r].sortID = req[r].sortID
      /\ req'[r].batch = req[r].batch /\ req'[r].i = req[r].i
  BY <1>1
<1>3. /\ txn' = txn /\ db' = txn /\ disk' = disk /\ unsynced' = unsynced
      /\ writer' = NoRequest /\ latest' = latest /\ bootLen' = bootLen
      /\ writer = r
  BY <1>1 DEF Commit, IInv, WriterOK
<1>4. /\ Len(db.file) \in Nat /\ Len(txn.file) \in Nat /\ Len(db.file) <= Len(txn.file)
      /\ req[r].sortID <= Len(txn.file)
      /\ \A id \in (Len(db.file) + 1)..Len(txn.file) : id <= req[r].sortID
  BY <1>1, IndexSeq DEF IInv, TxnOK, Extends
<1>5. TypeOK'
  BY <1>1, <1>3 DEF IInv, TypeOK
<1>6. IndexOK(db)' /\ IndexOK(txn)'
  BY <1>3 DEF IInv
<1>7. WriterOK'
  BY <1>1, <1>2, <1>3, StoreAssumption DEF IInv, WriterOK
<1>8. BatchOK'
  BY <1>1, <1>2 DEF IInv, BatchOK
<1>9. DataFirst'
  <2>1. ASSUME NEW q \in Requests, NEW j \in Linked(q)'
        PROVE  (req[q].batch[j].hash \in disk)'
    BY <1>1, <1>2, <1>3 DEF IInv, DataFirst, Linked
  <2>2. ASSUME NEW q \in Requests, (req[q].pc = "sync")'
        PROVE  (Doc(q).hash \in disk)'
    BY <1>1, <1>2, <1>3, <2>2 DEF IInv, DataFirst, Doc
  <2>3. QED
    BY <1>3, <2>1, <2>2 DEF IInv, DataFirst
<1>10. TxnOK'
  <2>1. \A q \in Requests : req'[q].pc # "txn"
    BY <1>3, <1>7, StoreAssumption DEF WriterOK
  <2>2. Extends(db', txn')
    BY <1>3, ExtendsSelf DEF IInv
  <2>3. QED
    BY <2>1, <2>2 DEF TxnOK
<1>11. EmitOK'
  <2>1. ASSUME NEW q \in Requests, req'[q].pc = "emit"
        PROVE  req'[q].sortID <= Len(txn.file)
    <3>1. CASE q = r
      BY <1>2, <1>4, <3>1
    <3>2. CASE q # r
      <4>1. req'[q] = req[q] /\ req[q].sortID \in Nat
        BY <1>1, <3>2 DEF IInv, TypeOK
      <4>2. req[q].sortID <= Len(db.file)
        BY <2>1, <4>1 DEF IInv, EmitOK
      <4>3. QED
        BY <1>4, <4>1, <4>2
    <3>3. QED
      BY <3>1, <3>2
  <2>2. bootLen <= Len(txn.file)
    BY <1>4 DEF IInv, EmitOK, TypeOK
  <2>3. QED
    BY <1>3, <2>1, <2>2 DEF EmitOK
<1>12. DataOnDisk'
  BY <1>3 DEF IInv, DataOnDisk, DataFirst
<1>13. NothingUnannounced'
  <2>1. latest <= Len(txn.file)
    BY <1>4 DEF IInv, NothingUnannounced, TypeOK
  <2>2. ASSUME NEW id \in (bootLen + 1)..Len(txn.file)
        PROVE  id <= latest \/ \E q \in Requests : req'[q].pc = "emit" /\ id <= req'[q].sortID
    <3>1. CASE id \in (bootLen + 1)..Len(db.file)
      <4>1. id <= latest \/ \E q \in Requests : req[q].pc = "emit" /\ id <= req[q].sortID
        BY <3>1 DEF IInv, NothingUnannounced
      <4>2. \A q \in Requests : req[q].pc = "emit" => req'[q] = req[q]
        BY <1>1
      <4>3. QED
        BY <4>1, <4>2
    <3>2. CASE id \in (Len(db.file) + 1)..Len(txn.file)
      BY <1>2, <1>4, <3>2
    <3>3. QED
      BY <3>1, <3>2, <1>4 DEF IInv, TypeOK
  <2>3. QED
    BY <1>3, <2>1, <2>2 DEF NothingUnannounced
<1>14. QED
  BY <1>5, <1>6, <1>7, <1>8, <1>9, <1>10, <1>11, <1>12, <1>13 DEF IInv

\* Storing the next document of the batch.
LEMMA StoreDocIInv ==
  ASSUME IInv, NEW r \in Requests, StoreDoc(r)
  PROVE  IInv'
<1> DEFINE b == req[r].batch
           n == req[r].i
<1>1. /\ req[r].pc = "txn" /\ n <= Len(b) /\ writer = r
      /\ req[r] \in [pc : Phases, batch : Batches \cup {<<>>}, i : Nat \ {0}, sortID : Nat]
      /\ db' = db /\ writer' = writer /\ disk' = disk /\ unsynced' = unsynced
      /\ latest' = latest /\ bootLen' = bootLen
  BY DEF StoreDoc, IInv, TypeOK, WriterOK
<1>2. b \in Batches /\ n \in DOMAIN b /\ Doc(r) \in Documents
  BY <1>1, DocOK
<1>3. PICK id \in 1..(Len(txn.file) + 1) :
         /\ Stores(txn, Doc(r), id, txn')
         /\ req' = [req EXCEPT ![r].i = @ + 1,
                               ![r].sortID = IF id > @ THEN id ELSE @]
  BY DEF StoreDoc
<1>4. /\ IndexOK(txn')
      /\ Len(txn.file) <= Len(txn'.file)
      /\ id \in DOMAIN txn'.file /\ txn'.file[id] = Info(Doc(r))
      /\ DOMAIN txn'.file = DOMAIN txn.file \cup {id}
      /\ \A i \in DOMAIN txn.file : txn'.file[i] = txn.file[i]
      /\ \A u \in URIs, i \in DOMAIN txn.file : Resolves(txn, u, i) => Resolves(txn', u, i)
  BY <1>2, <1>3, StoresOK DEF IInv
<1>5. /\ req'[r].pc = "txn" /\ req'[r].batch = b /\ req'[r].i = n + 1
      /\ req'[r].sortID = IF id > req[r].sortID THEN id ELSE req[r].sortID
      /\ \A q \in Requests \ {r} : req'[q] = req[q]
      /\ req' \in [Requests -> [pc : Phases, batch : Batches \cup {<<>>}, i : Nat \ {0}, sortID : Nat]]
  <2>1. id \in Nat /\ req[r].sortID \in Nat /\ n \in Nat \ {0}
    BY <1>1
  <2>2. req'[r] = [req[r] EXCEPT !.i = n + 1,
                                 !.sortID = IF id > req[r].sortID THEN id ELSE req[r].sortID]
    BY <1>3 DEF IInv, TypeOK
  <2>3. req'[r] = [pc |-> "txn", batch |-> b, i |-> n + 1,
                   sortID |-> IF id > req[r].sortID THEN id ELSE req[r].sortID]
    BY <1>1, <2>2
  <2>4. \A q \in Requests \ {r} : req'[q] = req[q]
    BY <1>3 DEF IInv, TypeOK
  <2>5. req'[r] \in [pc : Phases, batch : Batches \cup {<<>>}, i : Nat \ {0}, sortID : Nat]
    BY <1>2, <2>1, <2>3 DEF Phases
  <2>6. QED
    BY <1>3, <2>3, <2>4, <2>5 DEF IInv, TypeOK
<1>6. /\ Len(db.file) \in Nat /\ Len(txn.file) \in Nat /\ Len(txn'.file) \in Nat
      /\ DOMAIN txn.file = 1..Len(txn.file) /\ DOMAIN txn'.file = 1..Len(txn'.file)
      /\ Len(db.file) <= Len(txn.file)
      /\ DOMAIN b = 1..Len(b) /\ Len(b) \in Nat /\ n \in Nat \ {0}
  BY <1>1, <1>2, <1>4, IndexSeq, BatchSeq DEF IInv, TxnOK, Extends
<1>7. TypeOK'
  BY <1>1, <1>4, <1>5 DEF IInv, TypeOK, IndexOK
<1>8. IndexOK(db)' /\ IndexOK(txn)'
  BY <1>1, <1>4 DEF IInv
<1>9. WriterOK'
  BY <1>1, <1>5, StoreAssumption DEF IInv, WriterOK
<1>10. BatchOK'
  <2>1. n + 1 <= Len(b) + 1
    BY <1>1, <1>6
  <2>2. /\ req'[r].pc = "txn" /\ req'[r].batch \in Batches
        /\ req'[r].i <= Len(req'[r].batch) + 1
    BY <1>2, <1>5, <2>1
  <2>3. \A q \in Requests : req'[q] = req[q] \/ q = r
    BY <1>5
  <2>4. QED
    BY <2>2, <2>3 DEF IInv, BatchOK
<1>11. DataFirst'
  <2>1. ASSUME NEW q \in Requests, NEW j \in Linked(q)'
        PROVE  (req[q].batch[j].hash \in disk)'
    BY <1>1, <1>5 DEF IInv, DataFirst, Linked
  <2>2. ASSUME NEW q \in Requests, (req[q].pc = "sync")'
        PROVE  (Doc(q).hash \in disk)'
    BY <1>1, <1>5, <2>2 DEF IInv, DataFirst, Doc
  <2>3. Doc(r).hash \in disk
    BY <1>1, <1>2 DEF IInv, DataFirst, Linked, Doc
  <2>4. \A i \in DOMAIN txn'.file : txn'.file[i].hash \in disk
    BY <1>4, <2>3 DEF IInv, DataFirst, Info
  <2>5. QED
    BY <1>1, <2>1, <2>2, <2>4 DEF DataFirst
<1>12. TxnOK'
  <2>1. \A q \in Requests : req'[q].pc = "txn" => q = r
    BY <1>1, <1>9 DEF WriterOK
  <2>2. Extends(db', txn')
    <3>1. Extends(txn, txn')
      BY <1>4 DEF Extends
    <3>2. Extends(db, txn')
      BY <3>1, <1>4, ExtendsTrans DEF IInv, TxnOK
    <3>3. QED
      BY <1>1, <3>2
  <2>3. /\ req'[r].sortID <= Len(txn'.file)
        /\ \A i \in (Len(db.file) + 1)..Len(txn'.file) : i <= req'[r].sortID
    <3>1. /\ req[r].sortID \in Nat /\ req[r].sortID <= Len(txn.file)
          /\ \A i \in (Len(db.file) + 1)..Len(txn.file) : i <= req[r].sortID
      BY <1>1 DEF IInv, TxnOK
    <3>2. \A i \in 1..Len(txn'.file) : i <= Len(txn.file) \/ i = id
      BY <1>4, <1>6
    <3>3. id \in 1..Len(txn'.file)
      BY <1>4, <1>6
    <3>4. req'[r].sortID <= Len(txn'.file)
      BY <1>4, <1>5, <1>6, <3>1, <3>3
    <3>5. ASSUME NEW i \in (Len(db.file) + 1)..Len(txn'.file)
          PROVE  i <= req'[r].sortID
      <4>1. i \in 1..Len(txn'.file)
        BY <1>6
      <4>2. CASE i <= Len(txn.file)
        BY <1>5, <1>6, <3>1, <3>3, <4>1, <4>2
      <4>3. CASE i = id
        BY <1>5, <3>1, <3>3, <4>3
      <4>4. QED
        BY <3>2, <4>1, <4>2, <4>3
    <3>6. QED
      BY <3>4, <3>5
  <2>4. Log!Listed(txn'.file) = Log!Listed(db.file) \cup {Info(b[j]) : j \in 1..((n + 1) - 1)}
    <3>1. Log!Listed(txn'.file) = Log!Listed(txn.file) \cup {Info(b[n])}
      BY <1>4 DEF Log!Listed, Doc
    <3>2. Log!Listed(txn.file) = Log!Listed(db.file) \cup {Info(b[j]) : j \in 1..(n - 1)}
      BY <1>1 DEF IInv, TxnOK
    <3>3. 1..((n + 1) - 1) = 1..(n - 1) \cup {n}
      BY <1>6
    <3>4. QED
      BY <3>1, <3>2, <3>3
  <2>5. QED
    BY <1>1, <1>5, <2>1, <2>2, <2>3, <2>4 DEF TxnOK
<1>13. EmitOK'
  BY <1>1, <1>5 DEF IInv, EmitOK
<1>14. DataOnDisk'
  BY <1>1 DEF IInv, DataOnDisk
<1>15. NothingUnannounced'
  <2>1. \A q \in Requests : req[q].pc = "emit" => req'[q] = req[q]
    BY <1>1, <1>5
  <2>2. QED
    BY <1>1, <2>1 DEF IInv, NothingUnannounced
<1>16. QED
  BY <1>7, <1>8, <1>9, <1>10, <1>11, <1>12, <1>13, <1>14, <1>15 DEF IInv

\* The process dies and starts again.
LEMMA CrashIInv ==
  ASSUME IInv, Crash
  PROVE  IInv'
<1>1. /\ txn' = db /\ db' = db /\ disk' = disk /\ unsynced' = unsynced
      /\ writer' = NoRequest /\ latest' = 0 /\ bootLen' = Len(db.file)
      /\ req' = [r \in Requests |-> Idle]
  BY DEF Crash, Restart
<1>2. Len(db.file) \in Nat
  BY IndexSeq DEF IInv
<1>3. TypeOK'
  BY <1>1, <1>2 DEF IInv, TypeOK, Idle, Phases
<1>4. IndexOK(db)' /\ IndexOK(txn)'
  BY <1>1 DEF IInv
<1>5. WriterOK' /\ BatchOK'
  BY <1>1, StoreAssumption DEF WriterOK, BatchOK, Idle
<1>6. DataFirst' /\ DataOnDisk'
  BY <1>1 DEF IInv, DataFirst, DataOnDisk, Linked, Idle
<1>7. TxnOK'
  BY <1>1, ExtendsSelf DEF IInv, TxnOK, Idle
<1>8. EmitOK' /\ NothingUnannounced'
  BY <1>1, <1>2 DEF EmitOK, NothingUnannounced, Idle
<1>9. QED
  BY <1>3, <1>4, <1>5, <1>6, <1>7, <1>8 DEF IInv

\* No step breaks the invariant.
LEMMA NextIInv ==
  ASSUME IInv, [Next]_vars
  PROVE  IInv'
<1>1. CASE UNCHANGED vars
  <2>1. /\ db' = db /\ txn' = txn /\ writer' = writer /\ disk' = disk
        /\ unsynced' = unsynced /\ req' = req /\ latest' = latest /\ bootLen' = bootLen
    BY <1>1 DEF vars
  <2>2. QED
    BY <2>1 DEF IInv, TypeOK, WriterOK, BatchOK, DataFirst, Linked, Doc, TxnOK,
                EmitOK, DataOnDisk, NothingUnannounced
<1>2. ASSUME NEW r \in Requests, NEW b \in Batches, Create(r, b)
      PROVE  IInv'
  BY <1>2, CreateIInv
<1>3. ASSUME NEW r \in Requests, Step(r)
      PROVE  IInv'
  <2>1. CASE Link(r)
    BY <2>1, LinkIInv
  <2>2. CASE SyncDir(r)
    BY <2>2, SyncDirIInv
  <2>3. CASE Begin(r)
    BY <2>3, BeginIInv
  <2>4. CASE StoreDoc(r)
    BY <2>4, StoreDocIInv
  <2>5. CASE RefuseDoc(r)
    BY <2>5, RollbackIInv DEF RefuseDoc
  <2>6. CASE Commit(r)
    BY <2>6, CommitIInv
  <2>7. CASE Emit(r)
    BY <2>7, EmitIInv
  <2>8. QED
    BY <1>3, <2>1, <2>2, <2>3, <2>4, <2>5, <2>6, <2>7 DEF Step
<1>4. ASSUME NEW r \in Requests, IOError(r)
      PROVE  IInv'
  BY <1>4, IOErrorIInv
<1>5. ASSUME NEW r \in Requests, DBError(r)
      PROVE  IInv'
  BY <1>5, RollbackIInv DEF DBError
<1>6. CASE Crash
  BY <1>6, CrashIInv
<1>7. QED
  BY <1>1, <1>2, <1>3, <1>4, <1>5, <1>6 DEF Next

-----------------------------------------------------------------------------
\* The inductive invariant holds in every reachable state.
THEOREM Invariance == Spec => []IInv
<1>1. Init => IInv
  BY InitIInv
<1>2. IInv /\ [Next]_vars => IInv'
  BY NextIInv
<1>3. QED
  BY <1>1, <1>2, PTL DEF Spec

\* Every variable keeps its type.
THEOREM TypeCorrect == Spec => []TypeOK
<1>1. IInv => TypeOK
  BY DEF IInv
<1>2. QED
  BY <1>1, Invariance, PTL

\* One file ID per hash and type, and each file under exactly its own URIs.
THEOREM FilesIndexedAlways == Spec => []FilesIndexed
<1>1. IInv => FilesIndexed
  BY DEF IInv, IndexOK, FilesIndexed
<1>2. QED
  BY <1>1, Invariance, PTL

\* Every stored meta-file is indexed under the target its content names.
THEOREM MetasIndexedAlways == Spec => []MetasIndexed
<1>1. IInv => MetasIndexed
  BY DEF IInv, IndexOK, MetasIndexed
<1>2. QED
  BY <1>1, Invariance, PTL

\* A meta-file is younger than the file its target resolves to, even where URIs collide.
THEOREM MetasAfterTargetsAlways == Spec => []MetasAfterTargets
<1>1. IInv => MetasAfterTargets
  BY DEF IInv, IndexOK, MetasAfterTargets
<1>2. QED
  BY <1>1, Invariance, PTL

\* FirstUniqueMetaFileID marks the oldest meta-file of each target.
THEOREM FirstsUniqueAlways == Spec => []FirstsUnique
<1>1. IInv => FirstsUnique
  BY DEF IInv, IndexOK, FirstsUnique
<1>2. QED
  BY <1>1, Invariance, PTL

\* No listed file lacks its data.
THEOREM DataOnDiskAlways == Spec => []DataOnDisk
<1>1. IInv => DataOnDisk
  BY DEF IInv
<1>2. QED
  BY <1>1, Invariance, PTL

\* Every commit is announced, or about to be.
THEOREM NothingUnannouncedAlways == Spec => []NothingUnannounced
<1>1. IInv => NothingUnannounced
  BY DEF IInv
<1>2. QED
  BY <1>1, Invariance, PTL

\* A URI keeps the file it resolved to: only a commit changes the tables, and
\* the open transaction only adds to them.
THEOREM OldestKeptAlways == Spec => OldestKept
<1>1. IInv /\ [Next]_vars => [\A u \in URIs, i \in DOMAIN db.file :
                                Resolves(db, u, i) => Resolves(db', u, i)]_db
  <2> SUFFICES ASSUME IInv, Next
               PROVE  \/ db' = db
                      \/ \A u \in URIs, i \in DOMAIN db.file :
                            Resolves(db, u, i) => Resolves(db', u, i)
    BY DEF vars
  <2>1. ASSUME NEW r \in Requests, Commit(r)
        PROVE  \A u \in URIs, i \in DOMAIN db.file : Resolves(db, u, i) => Resolves(db', u, i)
    BY <2>1 DEF Commit, IInv, TxnOK, Extends
  <2>2. QED
    BY <2>1 DEF Next, Step, Create, Link, SyncDir, IOError, Begin, StoreDoc,
                RefuseDoc, DBError, Rollback, Emit, Crash, Restart
<1>2. QED
  BY <1>1, Invariance, PTL DEF Spec, OldestKept

-----------------------------------------------------------------------------
\* A commit lists the batch of its request, whole, after what was listed.
LEMMA CommitExtends ==
  ASSUME IInv, NEW r \in Requests, Commit(r)
  PROVE  \E g \in {{Info(b[i]) : i \in DOMAIN b} : b \in Batches} : Log!Extend(g)
<1> DEFINE b == req[r].batch
           g == {Info(b[i]) : i \in DOMAIN b}
<1>1. /\ req[r].pc = "txn" /\ req[r].i > Len(b) /\ db' = txn /\ latest' = latest
  BY DEF Commit
<1>2. /\ b \in Batches /\ req[r].i \in Nat \ {0} /\ req[r].i <= Len(b) + 1
  BY <1>1 DEF IInv, BatchOK, TypeOK
<1>3. req[r].i - 1 = Len(b) /\ DOMAIN b = 1..Len(b)
  BY <1>1, <1>2, BatchSeq, SMTT(30)
<1>4. Log!Listed(txn.file) = Log!Listed(db.file) \cup g
  BY <1>1, <1>3 DEF IInv, TxnOK
<1>5. txn.file \in Seq({Info(doc) : doc \in Documents})
  <2>1. \A h \in Hashes, t \in Types : [hash |-> h, type |-> t] \in {Info(doc) : doc \in Documents}
    <3>1. ASSUME NEW h \in Hashes, NEW t \in Types
          PROVE  [hash |-> h, type |-> t] \in {Info(doc) : doc \in Documents}
      <4> DEFINE doc == [hash |-> h, type |-> t, knownURI |-> NoURI, knownTarget |-> NoURI]
      <4>1. doc \in Documents /\ Info(doc) = [hash |-> h, type |-> t]
        BY DEF Documents, Info
      <4>2. QED
        BY <4>1
    <3>2. QED
      BY <3>1
  <2>2. [hash : Hashes, type : Types] \subseteq {Info(doc) : doc \in Documents}
    BY <2>1
  <2> DEFINE E == {Info(doc) : doc \in Documents}
             R == [hash : Hashes, type : Types]
  <2>3. txn.file \in Seq(R) /\ R \subseteq E
    BY <2>2, IndexSeq DEF IInv
  <2> HIDE DEF E, R
  <2>4. txn.file \in Seq(E)
    BY <2>3
  <2>5. QED
    BY <2>4 DEF E
<1>6. /\ Len(db.file) <= Len(txn.file)
      /\ \A i \in DOMAIN db.file : txn.file[i] = db.file[i]
  BY DEF IInv, TxnOK, Extends
<1>7. \A i, j \in DOMAIN txn.file : txn.file[i] = txn.file[j] => i = j
  BY DEF IInv, IndexOK, DistinctFiles
<1>8. Log!Extend(g)
  BY <1>1, <1>4, <1>5, <1>6, <1>7 DEF Log!Extend
<1>9. QED
  BY <1>2, <1>8

\* The write path implements the append-only log: a commit lists a whole batch,
\* an announcement is of something listed, a restart begins announcing again,
\* and every other step changes neither.
THEOREM Refinement == Spec => ImplementsLog
<1>1. Init => Log!Init
  BY DEF Init, Log!Init, EmptyDB
<1>2. IInv /\ [Next]_vars => [Log!Next]_(Log!vars)
  <2> SUFFICES ASSUME IInv, [Next]_vars
               PROVE  Log!Next \/ (db.file' = db.file /\ latest' = latest)
    BY DEF Log!vars
  <2>1. ASSUME NEW r \in Requests, Commit(r)
        PROVE  Log!Next
    BY <2>1, CommitExtends DEF Log!Next
  <2>2. ASSUME NEW r \in Requests, Emit(r)
        PROVE  Log!Next \/ (db.file' = db.file /\ latest' = latest)
    <3>1. /\ req[r].sortID \in Nat /\ latest \in Nat /\ Len(db.file) \in Nat
          /\ req[r].sortID <= Len(db.file)
      BY <2>2, IndexSeq DEF Emit, IInv, TypeOK, EmitOK
    <3>2. CASE req[r].sortID > latest
      BY <2>2, <3>1, <3>2 DEF Emit, Log!Next, Log!Announce
    <3>3. CASE ~(req[r].sortID > latest)
      BY <2>2, <3>3 DEF Emit
    <3>4. QED
      BY <3>2, <3>3
  <2>3. CASE Crash
    BY <2>3 DEF Crash, Restart, Log!Next, Log!Restart
  <2>4. QED
    BY <2>1, <2>2, <2>3 DEF vars, Next, Step, Create, Link, SyncDir, IOError, Begin,
                StoreDoc, RefuseDoc, DBError, Rollback
<1>3. QED
  BY <1>1, <1>2, Invariance, PTL DEF Spec, ImplementsLog, Log!Spec

=============================================================================
