----------------------------- MODULE SyncProofs -----------------------------
(***************************************************************************)
(* A pull hands over what it fetches, passes nothing over, loses no hint   *)
(* and announces what it stores, for any remote, any other clients and any *)
(* number of workers, whatever fails and however often the process dies;   *)
(* and it keeps the order of each target's meta-files.                     *)
(***************************************************************************)
EXTENDS Sync, FileIndexProofs, WellFoundedInduction, TLAPS

\* A set of numbers has a least one.
LEMMA Least ==
  ASSUME NEW T, T \subseteq Nat, T # {}
  PROVE  \E x \in T : \A y \in T : x <= y
<1>1. PICK x \in T : \A y \in T : <<y, x>> \notin OpToRel(<, Nat)
  BY NatLessThanWellFounded, WFMin
<1>2. ASSUME NEW y \in T PROVE x <= y
  <2>1. x \in Nat /\ y \in Nat
    OBVIOUS
  <2>2. <<y, x>> \in OpToRel(<, Nat) <=> y < x
    BY <2>1, Zenon DEF OpToRel
  <2>3. ~(y < x)
    BY <1>1, <2>2, Zenon
  <2> QED
    BY <2>1, <2>3
<1> QED
  BY <1>2

\* The submissions of a queue: those with a target are the meta-files'.
Subs(q) == {s \in Documents : s.knownTarget = NoURI <=> q = "file"}

OnDep == {"depenqueue", "depawait", "depstore"}

Busy == {"enqueue", "await", "store"} \cup OnDep

Fibers == [pc : {"start", "read", "emit", "dead"} \cup Busy, next : Nat \ {0},
           sub : Documents \cup {NoSub}, dep : Documents \cup {NoSub},
           hint : Nat, max : Nat]

\* What is fetched for a line.
LineSub(p, i) ==
    IF p = "file" THEN Submission(FileLines[i], NoURI) ELSE Submission(MetaLines[i][1], MetaLines[i][2])

\* What a reader works on; only the file reader works on hints.
ReaderOK(p, r) ==
    /\ r.pc \in Busy => r.next \in DOMAIN Lines(p) /\ r.sub = LineSub(p, r.next)
    /\ r.pc \in OnDep => p = "file" /\ r.dep \in Subs("meta")

TablesOK ==
    /\ IndexOK(db)
    /\ hints \in Seq(URIs \X URIs)
    /\ synced \subseteq DOMAIN db.file
    /\ last \in [Readers -> URIs \cup {NoURI}]
    /\ \A p \in Readers : last[p] = NoURI \/ \E i \in DOMAIN Lines(p) : LineURI(p, i) = last[p]
    /\ latest \in Nat
    /\ local \subseteq Nat
    /\ bootLen \in 0..Len(db.file)

ReadersOK ==
    /\ rd \in [Readers -> Fibers]
    /\ \A p \in Readers : ReaderOK(p, rd[p])

TypeOK == TablesOK /\ ReadersOK /\ run \in BOOLEAN

-----------------------------------------------------------------------------
(***************************************************************************)
(* What storing a document makes of the tables.                            *)
(***************************************************************************)
\* The files and their URIs stay what they are, whatever is added.
Grows(d, e) ==
    /\ IndexOK(e)
    /\ Len(d.file) <= Len(e.file)
    /\ DOMAIN d.file \subseteq DOMAIN e.file
    /\ d.uri \subseteq e.uri
    /\ \A u \in URIs, i \in DOMAIN d.file :
          /\ <<u, i>> \in e.uri => <<u, i>> \in d.uri
          /\ Resolves(e, u, i) <=> Resolves(d, u, i)

\* What IndexOK says of the types and the domains.
LEMMA IndexTyped ==
  ASSUME NEW d, IndexOK(d)
  PROVE  /\ d.file \in Seq([hash : Hashes, type : Types])
         /\ Len(d.file) \in Nat /\ DOMAIN d.file = 1..Len(d.file)
         /\ d.uri = {row \in URIs \X DOMAIN d.file : row[1] \in URIsOf[d.file[row[2]].hash]}
<1>1. d.file \in Seq([hash : Hashes, type : Types])
  BY DEF IndexOK, IndexType
<1> QED
  BY <1>1 DEF IndexOK, URIsExact

\* A URI resolves to one file at most.
LEMMA ResolvesOnce ==
  ASSUME NEW d, IndexOK(d), NEW u, NEW i, NEW j, Resolves(d, u, i), Resolves(d, u, j)
  PROVE  i = j
<1>1. i \in Nat /\ j \in Nat
  BY IndexTyped DEF Resolves
<1>2. i <= j /\ j <= i
  BY DEF Resolves
<1> QED
  BY <1>1, <1>2

\* A document that is stored is there under each of its URIs, and the rest grows.
LEMMA StoresGrow ==
  ASSUME NEW d, IndexOK(d), NEW doc \in Documents, NEW id \in 1..(Len(d.file) + 1),
         NEW e, Stores(d, doc, id, e)
  PROVE  /\ Grows(d, e)
         /\ id \in 1..Len(e.file)
         /\ Len(e.file) \in {Len(d.file), id}
         /\ \A u \in URIsOf[doc.hash] : Resolvable(e, u)
         /\ \A u : Resolvable(e, u) => Resolvable(d, u) \/ u \in URIsOf[doc.hash]
<1>1. /\ IndexOK(e)
      /\ Len(d.file) <= Len(e.file)
      /\ id \in DOMAIN e.file /\ e.file[id] = Info(doc)
      /\ DOMAIN e.file = DOMAIN d.file \cup {id}
      /\ \A i \in DOMAIN d.file : e.file[i] = d.file[i]
      /\ \A u \in URIs, i \in DOMAIN d.file : Resolves(d, u, i) => Resolves(e, u, i)
  BY StoresOK
<1>2. /\ Len(d.file) \in Nat /\ DOMAIN d.file = 1..Len(d.file)
      /\ Len(e.file) \in Nat /\ DOMAIN e.file = 1..Len(e.file)
      /\ d.uri = {row \in URIs \X DOMAIN d.file : row[1] \in URIsOf[d.file[row[2]].hash]}
      /\ e.uri = {row \in URIs \X DOMAIN e.file : row[1] \in URIsOf[e.file[row[2]].hash]}
  BY <1>1, IndexTyped
<1>3. d.uri \subseteq e.uri
  BY <1>1, <1>2
<1>4. ASSUME NEW u \in URIs, NEW i \in DOMAIN d.file, <<u, i>> \in e.uri PROVE <<u, i>> \in d.uri
  BY <1>1, <1>2, <1>4
<1>5. ASSUME NEW u \in URIs, NEW i \in DOMAIN d.file, Resolves(e, u, i) PROVE Resolves(d, u, i)
  BY <1>3, <1>4, <1>5 DEF Resolves
<1>6. Len(e.file) \in {Len(d.file), id}
  <2>1. Len(e.file) \in 1..Len(e.file)
    BY <1>1, <1>2
  <2> QED
    BY <1>1, <1>2, <2>1
<1>7. ASSUME NEW u \in URIsOf[doc.hash] PROVE Resolvable(e, u)
  <2>1. u \in URIs /\ Info(doc).hash = doc.hash
    BY IndexAssumption DEF Documents, Info
  <2>2. <<u, id>> \in e.uri
    BY <1>1, <1>2, <2>1
  <2> QED
    BY <2>2 DEF Resolvable
<1>8. ASSUME NEW u, Resolvable(e, u), ~Resolvable(d, u) PROVE u \in URIsOf[doc.hash]
  <2>1. PICK row \in e.uri : row[1] = u
    BY <1>8 DEF Resolvable
  <2>2. /\ row \in URIs \X DOMAIN e.file /\ u \in URIsOf[e.file[row[2]].hash]
        /\ row = <<u, row[2]>>
    BY <1>2, <2>1
  <2>3. row[2] \notin DOMAIN d.file
    <3>1. row \notin d.uri
      BY <1>8, <2>1 DEF Resolvable
    <3> QED
      BY <1>4, <2>1, <2>2, <3>1
  <2>4. row[2] = id /\ Info(doc).hash = doc.hash
    BY <1>1, <2>2, <2>3 DEF Info
  <2> QED
    BY <1>1, <2>2, <2>4
<1> QED
  BY <1>1, <1>2, <1>3, <1>4, <1>5, <1>6, <1>7, <1>8 DEF Grows

-----------------------------------------------------------------------------
(***************************************************************************)
(* The lines of the remote.                                                *)
(***************************************************************************)
\* What is read from a line is a URI, and its submission one for the queue.
LEMMA SubmissionTyped ==
  ASSUME NEW u \in URIs
  PROVE  /\ Submission(u, NoURI) \in Subs("file")
         /\ \A t \in URIs : Submission(u, t) \in Subs("meta")
         /\ \A t : Submission(u, t).hash = Served[u]
<1>1. Served[u] \in Hashes /\ TypeOf[Served[u]] \in Types
  BY SyncAssumption
<1> QED
  BY <1>1, IndexAssumption DEF Submission, Subs, Documents

\* The lines are URIs.
LEMMA LinesTyped ==
  /\ Len(FileLines) \in Nat /\ DOMAIN FileLines = 1..Len(FileLines)
  /\ Len(MetaLines) \in Nat /\ DOMAIN MetaLines = 1..Len(MetaLines)
  /\ \A i \in DOMAIN FileLines : FileLines[i] \in URIs
  /\ \A i \in DOMAIN MetaLines : MetaLines[i] \in URIs \X URIs
  /\ \A p \in Readers : Len(Lines(p)) \in Nat /\ DOMAIN Lines(p) = 1..Len(Lines(p))
<1>1. FileLines \in Seq(URIs) /\ MetaLines \in Seq(URIs \X URIs)
  BY SyncAssumption
<1>2. \A p \in Readers : Lines(p) \in {FileLines, MetaLines}
  BY DEF Lines
<1> QED
  BY <1>1, <1>2

\* A line is of a queue, and listed by the primary URI of what it names.
LEMMA LineTyped ==
  ASSUME NEW p \in Readers, NEW i \in DOMAIN Lines(p)
  PROVE  LET s == LineSub(p, i) IN
         /\ s \in Subs(p) /\ s \in Documents
         /\ PrimaryOf[s.hash] = LineURI(p, i)
         /\ LineURI(p, i) \in URIs /\ LineURI(p, i) \in URIsOf[s.hash]
<1>1. p \in {"file", "meta"}
  BY DEF Readers
<1>2. CASE p = "file"
  <2>1. i \in DOMAIN FileLines /\ LineURI(p, i) = FileLines[i] /\ LineSub(p, i) = Submission(FileLines[i], NoURI)
    BY <1>2 DEF Lines, LineURI, LineSub
  <2>2. FileLines[i] \in URIs
    BY <2>1, LinesTyped
  <2>3. LineSub(p, i) \in Subs("file") /\ LineSub(p, i).hash = Served[FileLines[i]]
    BY <2>1, <2>2, SubmissionTyped
  <2> QED
    BY <1>2, <2>1, <2>2, <2>3, RemoteAssumption, SyncAssumption DEF Subs, Documents
<1>3. CASE p = "meta"
  <2>1. /\ i \in DOMAIN MetaLines /\ LineURI(p, i) = MetaLines[i][1]
        /\ LineSub(p, i) = Submission(MetaLines[i][1], MetaLines[i][2])
    BY <1>3 DEF Lines, LineURI, LineSub
  <2>2. MetaLines[i][1] \in URIs /\ MetaLines[i][2] \in URIs
    BY <2>1, LinesTyped
  <2>3. LineSub(p, i) \in Subs("meta") /\ LineSub(p, i).hash = Served[MetaLines[i][1]]
    BY <2>1, <2>2, SubmissionTyped
  <2> QED
    BY <1>3, <2>1, <2>2, <2>3, RemoteAssumption, SyncAssumption DEF Subs, Documents
<1> QED
  BY <1>1, <1>2, <1>3

\* Where the remote resumes: behind the first line of the URI recorded last.
LEMMA ResumeRight ==
  ASSUME TablesOK, NEW p \in Readers
  PROVE  /\ Resume(p) \in 1..(Len(Lines(p)) + 1)
         /\ last[p] = NoURI => Resume(p) = 1
         /\ \A i \in DOMAIN Lines(p) : LineURI(p, i) = last[p] => Resume(p) <= i + 1
<1>1. Len(Lines(p)) \in Nat /\ DOMAIN Lines(p) = 1..Len(Lines(p))
  BY LinesTyped
<1>2. CASE last[p] = NoURI
  BY <1>1, <1>2 DEF Resume
<1>3. CASE last[p] # NoURI
  <2> DEFINE I == {i \in DOMAIN Lines(p) : LineURI(p, i) = last[p]}
             Is(i) == LineURI(p, i) = last[p] /\ \A j \in 1..(i - 1) : LineURI(p, j) # last[p]
             c == CHOOSE i \in DOMAIN Lines(p) : Is(i)
  <2>1. I \subseteq Nat /\ I # {}
    <3>1. \E i \in DOMAIN Lines(p) : LineURI(p, i) = last[p]
      BY <1>3, Zenon DEF TablesOK
    <3> QED
      BY <1>1, <3>1
  <2>2. PICK m \in I : \A i \in I : m <= i
    <3> HIDE DEF I
    <3> QED
      BY <2>1, Least
  <2>3. m \in DOMAIN Lines(p) /\ Is(m)
    BY <1>1, <2>2
  <2>4. c \in DOMAIN Lines(p) /\ Is(c)
    <3> HIDE DEF Is
    <3> QED
      BY <2>3
  <2>5. Resume(p) = 1 + c
    BY <1>3 DEF Resume
  <2> HIDE DEF c, I
  <2>6. ASSUME NEW i \in DOMAIN Lines(p), LineURI(p, i) = last[p] PROVE c <= i
    BY <1>1, <2>4, <2>6
  <2>7. c \in 1..Len(Lines(p))
    BY <1>1, <2>4
  <2>8. Resume(p) \in 1..(Len(Lines(p)) + 1)
    BY <1>1, <2>5, <2>7
  <2>9. ASSUME NEW i \in DOMAIN Lines(p), LineURI(p, i) = last[p] PROVE Resume(p) <= i + 1
    BY <1>1, <2>5, <2>6, <2>7, <2>9
  <2> QED
    BY <1>3, <2>8, <2>9
<1> QED
  BY <1>2, <1>3

-----------------------------------------------------------------------------
(***************************************************************************)
(* What the readers' moves make of rd.                                     *)
(***************************************************************************)
\* Only p moves, to r.
Moves(p, r) == rd'[p] = r /\ \A o \in Readers \ {p} : rd'[o] = rd[o]

\* A move to where the reader may be.
LEMMA MoveOK ==
  ASSUME ReadersOK, NEW p \in Readers, NEW r \in Fibers, ReaderOK(p, r),
         rd' = [rd EXCEPT ![p] = r]
  PROVE  ReadersOK' /\ Moves(p, r)
<1>1. rd' \in [Readers -> Fibers] /\ Moves(p, r)
  BY DEF ReadersOK, Moves
<1>2. ASSUME NEW o \in Readers PROVE ReaderOK(o, rd'[o])
  BY <1>1 DEF ReadersOK, Moves
<1> QED
  BY <1>1, <1>2 DEF ReadersOK

\* A line was followed by what it names: the reader is at the next one, or gone.
LEMMA Continued ==
  ASSUME ReadersOK, NEW p \in Readers, Continue(p)
  PROVE  /\ ReadersOK' /\ Moves(p, rd'[p])
         /\ rd'[p].pc \in {"read", "dead"} /\ rd'[p].next = rd[p].next + 1
         /\ rd'[p].hint = 0 /\ rd'[p].max = 0
<1> DEFINE c == IF run THEN "read" ELSE "dead"
           r == [Starting EXCEPT !.pc = c, !.next = rd[p].next + 1]
<1>1. r \in Fibers /\ r.pc \in {"read", "dead"} /\ r.next = rd[p].next + 1 /\ r.hint = 0 /\ r.max = 0
  <2>1. rd[p].next + 1 \in Nat \ {0}
    BY DEF ReadersOK, Fibers
  <2>2. c \in {"read", "dead"}
    OBVIOUS
  <2> HIDE DEF c
  <2>3. Starting \in Fibers /\ Starting.hint = 0 /\ Starting.max = 0
    BY DEF Starting, Fibers
  <2> QED
    BY <2>1, <2>2, <2>3 DEF Fibers
<1>2. ReaderOK(p, r)
  BY <1>1 DEF ReaderOK, Busy, OnDep
<1>3. rd' = [rd EXCEPT ![p] = r]
  BY DEF Continue
<1> HIDE DEF r, c
<1> QED
  BY <1>1, <1>2, <1>3, MoveOK DEF Moves

\* What a line names was stored: the reader will announce it, and is at the next.
LEMMA Committed ==
  ASSUME ReadersOK, NEW p \in Readers, NEW max \in Nat, Commit(p, max)
  PROVE  /\ ReadersOK' /\ Moves(p, rd'[p])
         /\ rd'[p].pc = "emit" /\ rd'[p].next = rd[p].next + 1
         /\ rd'[p].hint = 0 /\ rd'[p].max = max
<1> DEFINE r == [Starting EXCEPT !.pc = "emit", !.next = rd[p].next + 1, !.max = max]
<1>1. r \in Fibers /\ r.pc = "emit" /\ r.next = rd[p].next + 1 /\ r.hint = 0 /\ r.max = max
  <2>1. rd[p].next + 1 \in Nat \ {0}
    BY DEF ReadersOK, Fibers
  <2> QED
    BY <2>1 DEF Starting, Fibers
<1>2. ReaderOK(p, r)
  BY <1>1 DEF ReaderOK, Busy, OnDep
<1>3. rd' = [rd EXCEPT ![p] = r]
  BY DEF Commit
<1> HIDE DEF r
<1> QED
  BY <1>1, <1>2, <1>3, MoveOK DEF Moves

\* It has announced it, and stays where it is.
LEMMA Emitted ==
  ASSUME ReadersOK, NEW p \in Readers, Emit(p)
  PROVE  /\ ReadersOK' /\ Moves(p, rd'[p])
         /\ rd'[p].pc \in {"read", "dead"} /\ rd'[p].next = rd[p].next
         /\ rd'[p].hint = rd[p].hint
<1> DEFINE c == IF run THEN "read" ELSE "dead"
           r == [rd[p] EXCEPT !.pc = c, !.max = 0]
<1>1. /\ r \in Fibers /\ r.pc \in {"read", "dead"} /\ r.next = rd[p].next
      /\ r.hint = rd[p].hint
  <2>1. c \in {"read", "dead"}
    OBVIOUS
  <2> HIDE DEF c
  <2> QED
    BY <2>1 DEF ReadersOK, Fibers
<1>2. ReaderOK(p, r)
  BY <1>1 DEF ReaderOK, Busy, OnDep
<1>3. rd' = [rd EXCEPT ![p] = r]
  BY DEF Emit, ReadersOK
<1> HIDE DEF r, c
<1> QED
  BY <1>1, <1>2, <1>3, MoveOK DEF Moves

\* A reader that dies.
LEMMA Died ==
  ASSUME ReadersOK, NEW p \in Readers, Die(p)
  PROVE  /\ ReadersOK' /\ Moves(p, rd'[p])
         /\ rd'[p].pc = "dead" /\ rd'[p].hint = 0 /\ rd'[p].max = rd[p].max
<1> DEFINE m == rd[p].max
           r == [Starting EXCEPT !.pc = "dead", !.max = m]
<1>1. r \in Fibers /\ r.pc = "dead" /\ r.hint = 0 /\ r.max = m
  <2>1. m \in Nat
    BY DEF ReadersOK, Fibers
  <2>2. Starting \in Fibers /\ Starting.hint = 0
    BY DEF Starting, Fibers
  <2> HIDE DEF m
  <2> QED
    BY <2>1, <2>2 DEF Fibers
<1>2. ReaderOK(p, r)
  BY <1>1 DEF ReaderOK, Busy, OnDep
<1>3. rd' = [rd EXCEPT ![p] = r]
  BY DEF Die
<1> HIDE DEF r
<1> QED
  BY <1>1, <1>2, <1>3, MoveOK DEF Moves

\* A submission was created.
LEMMA Ingested ==
  ASSUME ReadersOK, NEW p \in Readers, rd[p].next \in DOMAIN Lines(p),
         NEW s, s = LineSub(p, rd[p].next), Ingest(p, s)
  PROVE  /\ ReadersOK' /\ Moves(p, rd'[p])
         /\ rd'[p].pc = "enqueue" /\ rd'[p].next = rd[p].next /\ rd'[p].sub = s
         /\ rd'[p].hint = rd[p].hint /\ rd'[p].max = rd[p].max
<1> DEFINE r == [rd[p] EXCEPT !.pc = "enqueue", !.sub = s]
<1>1. /\ r \in Fibers /\ r.pc = "enqueue" /\ r.next = rd[p].next /\ r.sub = s
      /\ r.hint = rd[p].hint /\ r.max = rd[p].max
  BY LineTyped DEF ReadersOK, Fibers, Busy
<1>2. ReaderOK(p, r)
  BY <1>1 DEF ReaderOK, OnDep
<1>3. rd' = [rd EXCEPT ![p] = r]
  BY DEF Ingest, ReadersOK
<1> HIDE DEF r
<1> QED
  BY <1>1, <1>2, <1>3, MoveOK DEF Moves

\* The reader went on with what it works on.
LEMMA WentOn ==
  ASSUME ReadersOK, NEW p \in Readers, NEW pc \in {"read"} \cup Busy,
         NEW next \in Nat \ {0},
         pc \in Busy => rd[p].pc \in Busy /\ next = rd[p].next,
         pc \in OnDep <=> rd[p].pc \in OnDep,
         rd' = [rd EXCEPT ![p].pc = pc, ![p].next = next]
  PROVE  ReadersOK' /\ Moves(p, [rd[p] EXCEPT !.pc = pc, !.next = next])
<1> DEFINE r == [rd[p] EXCEPT !.pc = pc, !.next = next]
<1>1. /\ r \in Fibers /\ r.pc = pc /\ r.next = next /\ r.sub = rd[p].sub /\ r.dep = rd[p].dep
  BY DEF ReadersOK, Fibers
<1>2. ReaderOK(p, r)
  BY <1>1 DEF ReadersOK, ReaderOK
<1>3. rd' = [rd EXCEPT ![p] = r]
  BY DEF ReadersOK
<1> HIDE DEF r
<1>4. ReadersOK' /\ Moves(p, r)
  BY <1>1, <1>2, <1>3, MoveOK
<1> QED
  BY <1>4 DEF r

\* The next hint is to be fetched.
LEMMA Hinted ==
  ASSUME ReadersOK, NEW j \in Nat, NEW s \in Subs("meta"), NEW max \in Nat,
         rd["file"].pc \in Busy,
         rd' = [rd EXCEPT !["file"].pc = "depenqueue", !["file"].hint = j,
                          !["file"].dep = s, !["file"].max = max]
  PROVE  /\ ReadersOK' /\ Moves("file", rd'["file"])
         /\ rd'["file"].pc = "depenqueue" /\ rd'["file"].next = rd["file"].next
         /\ rd'["file"].sub = rd["file"].sub /\ rd'["file"].dep = s
         /\ rd'["file"].hint = j /\ rd'["file"].max = max
<1> DEFINE r == [rd["file"] EXCEPT !.pc = "depenqueue", !.hint = j, !.dep = s, !.max = max]
<1>1. "file" \in Readers
  BY DEF Readers
<1>2. /\ r \in Fibers /\ r.pc = "depenqueue" /\ r.next = rd["file"].next
      /\ r.sub = rd["file"].sub /\ r.dep = s /\ r.hint = j /\ r.max = max
  BY <1>1 DEF ReadersOK, Fibers, Busy, OnDep, Subs
<1>3. ReaderOK("file", r)
  BY <1>1, <1>2 DEF ReadersOK, ReaderOK
<1>4. rd' = [rd EXCEPT !["file"] = r]
  BY <1>1 DEF ReadersOK
<1> HIDE DEF r
<1> QED
  BY <1>1, <1>2, <1>3, <1>4, MoveOK DEF Moves

\* The readers of a pull that starts.
LEMMA StartingOK == rd' = NewReaders => ReadersOK' /\ \A p \in Readers : rd'[p] = Starting
<1>1. Starting \in Fibers /\ Starting.pc = "start"
  BY DEF Starting, Fibers
<1>2. \A p \in Readers : ReaderOK(p, Starting)
  BY <1>1 DEF ReaderOK, Busy, OnDep
<1> QED
  BY <1>1, <1>2 DEF NewReaders, ReadersOK

-----------------------------------------------------------------------------
(***************************************************************************)
(* Types.                                                                  *)
(***************************************************************************)
\* What a file reader that stores makes of the database, and of what it does next.
LEMMA StoredFile ==
  ASSUME TypeOK, StoreFile
  PROVE  LET u == PrimaryOf[rd["file"].sub.hash]
             s == Posted("file")
         IN  /\ u = FileLines[rd["file"].next] /\ u \in URIs /\ u \in URIsOf[rd["file"].sub.hash]
             /\ rd["file"].next \in DOMAIN FileLines
             /\ Grows(db, db') /\ IndexOK(db')
             /\ \A v \in URIsOf[s.hash] : Resolvable(db', v)
             /\ \A v : Resolvable(db', v) => Resolvable(db, v) \/ v \in URIsOf[s.hash]
             /\ \E id \in 1..Len(db'.file), f \in DOMAIN db'.file, max \in Nat :
                   /\ id <= Len(db.file) + 1 /\ Len(db'.file) \in {Len(db.file), id}
                   /\ id <= max /\ rd["file"].max <= max
                   /\ Resolves(db', u, f)
                   /\ NextHint(f, u, max) \/ LastHint(f, u, max)
<1>1. PICK id \in 1..(Len(db.file) + 1) :
        /\ Stores(db, Posted("file"), id, db')
        /\ LET u == PrimaryOf[rd["file"].sub.hash]
               max == IF id > rd["file"].max THEN id ELSE rd["file"].max
           IN \E f \in DOMAIN db'.file :
                 /\ Resolves(db', u, f)
                 /\ NextHint(f, u, max) \/ LastHint(f, u, max)
  BY DEF StoreFile
<1> DEFINE max == IF id > rd["file"].max THEN id ELSE rd["file"].max
<1>2. /\ rd["file"].next \in DOMAIN FileLines /\ rd["file"].max \in Nat
      /\ rd["file"].sub = LineSub("file", rd["file"].next)
      /\ OnHint("file") => rd["file"].dep \in Documents
  BY DEF StoreFile, TypeOK, ReadersOK, ReaderOK, Readers, Busy, OnDep, OnHint, Fibers, Subs, Lines
<1>8. LET s == rd["file"].sub
          u == FileLines[rd["file"].next]
      IN  s \in Documents /\ PrimaryOf[s.hash] = u /\ u \in URIs /\ u \in URIsOf[s.hash]
  BY <1>2, LineTyped DEF Readers, Lines, LineURI
<1>9. Posted("file") \in Documents
  BY <1>2, <1>8 DEF Posted
<1>3. IndexOK(db) /\ Len(db.file) \in Nat
  BY IndexTyped DEF TypeOK, TablesOK
<1>4. /\ Grows(db, db') /\ id \in 1..Len(db'.file) /\ Len(db'.file) \in {Len(db.file), id}
      /\ \A v \in URIsOf[Posted("file").hash] : Resolvable(db', v)
      /\ \A v : Resolvable(db', v) => Resolvable(db, v) \/ v \in URIsOf[Posted("file").hash]
  BY <1>1, <1>3, <1>9, StoresGrow
<1>5. max \in Nat /\ id <= max /\ rd["file"].max <= max
  BY <1>2, <1>3
<1>6. \E f \in DOMAIN db'.file :
         /\ Resolves(db', PrimaryOf[rd["file"].sub.hash], f)
         /\ \/ NextHint(f, PrimaryOf[rd["file"].sub.hash], max)
            \/ LastHint(f, PrimaryOf[rd["file"].sub.hash], max)
  BY <1>1
<1> HIDE DEF max
<1> QED
  BY <1>2, <1>4, <1>5, <1>6, <1>8 DEF Grows

\* Where a reader has another hint, it is a hint of the file that is missing,
\* and the first of those.
LEMMA NextHintIs ==
  ASSUME TypeOK, NEW f, NEW u \in URIs, NEW max \in Nat, NextHint(f, u, max),
         rd["file"].pc \in Busy
  PROVE  \E j \in DOMAIN hints :
            /\ j \in Missing(db', f, rd["file"].hint)
            /\ \A k \in Missing(db', f, rd["file"].hint) : j <= k
            /\ ReadersOK' /\ Moves("file", rd'["file"])
            /\ rd'["file"].pc = "depenqueue" /\ rd'["file"].next = rd["file"].next
            /\ rd'["file"].sub = rd["file"].sub
            /\ rd'["file"].dep = Submission(hints[j][1], u)
            /\ rd'["file"].hint = j /\ rd'["file"].max = max
<1>1. PICK j \in Missing(db', f, rd["file"].hint) :
        /\ \A k \in Missing(db', f, rd["file"].hint) : j <= k
        /\ rd' = [rd EXCEPT !["file"].pc = "depenqueue", !["file"].hint = j,
                            !["file"].dep = Submission(hints[j][1], u),
                            !["file"].max = max]
  BY DEF NextHint
<1>2. j \in DOMAIN hints /\ j \in Nat /\ hints[j] \in URIs \X URIs
  BY DEF Missing, HintsOf, TypeOK, TablesOK
<1>3. Submission(hints[j][1], u) \in Subs("meta")
  BY <1>2, SubmissionTyped
<1> QED
  BY <1>1, <1>2, <1>3, Hinted DEF TypeOK

\* The meta-files' reader stores what it has.
LEMMA StoredMeta ==
  ASSUME TypeOK, StoreMeta
  PROVE  LET s == rd["meta"].sub IN
         /\ rd["meta"].next \in DOMAIN MetaLines
         /\ PrimaryOf[s.hash] = MetaLines[rd["meta"].next][1]
         /\ PrimaryOf[s.hash] \in URIsOf[s.hash] /\ PrimaryOf[s.hash] \in URIs
         /\ Grows(db, db') /\ IndexOK(db')
         /\ \A v \in URIsOf[s.hash] : Resolvable(db', v)
         /\ \A v : Resolvable(db', v) => Resolvable(db, v) \/ v \in URIsOf[s.hash]
         /\ \E id \in 1..Len(db'.file) :
               /\ id <= Len(db.file) + 1 /\ Len(db'.file) \in {Len(db.file), id}
               /\ Commit("meta", id)
<1>1. PICK id \in 1..(Len(db.file) + 1) : Stores(db, rd["meta"].sub, id, db') /\ Commit("meta", id)
  BY DEF StoreMeta
<1>2. rd["meta"].next \in DOMAIN MetaLines /\ rd["meta"].sub = LineSub("meta", rd["meta"].next)
  BY DEF StoreMeta, TypeOK, ReadersOK, ReaderOK, Readers, Busy, Lines
<1>3. LET s == rd["meta"].sub
          u == MetaLines[rd["meta"].next][1]
      IN  s \in Documents /\ PrimaryOf[s.hash] = u /\ u \in URIs /\ u \in URIsOf[s.hash]
  BY <1>2, LineTyped DEF Readers, Lines, LineURI
<1>4. IndexOK(db)
  BY DEF TypeOK, TablesOK
<1> QED
  BY <1>1, <1>2, <1>3, <1>4, StoresGrow DEF Grows

\* It is to announce it.
LEMMA StoredMetaMoves ==
  ASSUME TypeOK, StoreMeta
  PROVE  /\ ReadersOK' /\ Moves("meta", rd'["meta"])
         /\ rd'["meta"].pc = "emit" /\ rd'["meta"].next = rd["meta"].next + 1
<1>1. PICK id \in 1..Len(db'.file) : IndexOK(db') /\ Commit("meta", id)
  BY StoredMeta
<1>2. id \in Nat
  BY <1>1, IndexTyped
<1> QED
  BY <1>1, <1>2, Committed DEF TypeOK, Readers

\* Another client stores a document.
LEMMA StoredLocal ==
  ASSUME TypeOK, NEW doc \in LocalDocs, Local(doc)
  PROVE  /\ Grows(db, db') /\ IndexOK(db')
         /\ \A v : Resolvable(db', v) => Resolvable(db, v) \/ v \in URIsOf[doc.hash]
         /\ \E id \in 1..Len(db'.file) :
               /\ id <= Len(db.file) + 1 /\ Len(db'.file) \in {Len(db.file), id}
               /\ local' = local \cup {id}
<1>1. PICK id \in 1..(Len(db.file) + 1) : Stores(db, doc, id, db') /\ local' = local \cup {id}
  BY DEF Local
<1>2. doc \in Documents /\ IndexOK(db)
  BY SyncAssumption DEF TypeOK, TablesOK
<1> QED
  BY <1>1, <1>2, StoresGrow DEF Grows

\* The tables stay what they should be where files are added.
LEMMA TablesGrow ==
  ASSUME TablesOK, Grows(db, db'), hints' = hints, bootLen' = bootLen,
         synced' \subseteq DOMAIN db'.file, latest' \in Nat, local' \subseteq Nat,
         \/ last' = last
         \/ \E p \in Readers : \E i \in DOMAIN Lines(p) : last' = [last EXCEPT ![p] = LineURI(p, i)]
  PROVE  TablesOK'
<1>1. IndexOK(db) /\ IndexOK(db') /\ Len(db.file) <= Len(db'.file)
  BY DEF TablesOK, Grows
<1>2. Len(db.file) \in Nat /\ Len(db'.file) \in Nat
  BY <1>1, IndexTyped
<1>3. /\ last' \in [Readers -> URIs \cup {NoURI}]
      /\ \A p \in Readers : last'[p] = NoURI \/ \E i \in DOMAIN Lines(p) : LineURI(p, i) = last'[p]
  <2>1. CASE last' = last
    BY <2>1 DEF TablesOK
  <2>2. ASSUME NEW p \in Readers, NEW i \in DOMAIN Lines(p), last' = [last EXCEPT ![p] = LineURI(p, i)]
        PROVE  /\ last' \in [Readers -> URIs \cup {NoURI}]
               /\ \A o \in Readers : last'[o] = NoURI \/ \E k \in DOMAIN Lines(o) : LineURI(o, k) = last'[o]
    <3>1. LineURI(p, i) \in URIs
      BY LineTyped
    <3> QED
      BY <2>2, <3>1 DEF TablesOK
  <2> QED
    BY <2>1, <2>2
<1> QED
  BY <1>1, <1>2, <1>3 DEF TablesOK

\* A file reader that stores keeps the types.
LEMMA StoreFileTypeOK == ASSUME TypeOK, StoreFile PROVE TypeOK'
<1> DEFINE u == PrimaryOf[rd["file"].sub.hash]
<1>1. /\ u \in URIs /\ Grows(db, db') /\ IndexOK(db')
      /\ rd["file"].next \in DOMAIN Lines("file") /\ u = LineURI("file", rd["file"].next)
  BY StoredFile DEF Lines, LineURI
<1>2. PICK id \in 1..Len(db'.file), f \in DOMAIN db'.file, max \in Nat :
        NextHint(f, u, max) \/ LastHint(f, u, max)
  BY StoredFile
<1>3. /\ hints' = hints /\ run' = run /\ bootLen' = bootLen /\ rd["file"].pc \in Busy
      /\ latest' = latest /\ local' = local
  BY DEF StoreFile, Busy, OnDep
<1>4. TablesOK /\ ReadersOK /\ run \in BOOLEAN /\ latest \in Nat /\ local \subseteq Nat
  BY DEF TypeOK, TablesOK
<1>5. synced \subseteq DOMAIN db'.file
  BY <1>1, <1>4 DEF TablesOK, Grows
<1> HIDE DEF u
<1>6. CASE NextHint(f, u, max)
  <2>1. synced' = synced /\ last' = last
    BY <1>6 DEF NextHint
  <2>2. TablesOK'
    BY <1>1, <1>3, <1>4, <1>5, <2>1, TablesGrow DEF TablesOK
  <2>3. ReadersOK'
    BY <1>1, <1>3, <1>6, NextHintIs
  <2> QED
    BY <1>3, <1>4, <2>2, <2>3 DEF TypeOK
<1>7. CASE LastHint(f, u, max)
  <2>1. synced' = synced \cup {f} /\ last' = [last EXCEPT !["file"] = u]
        /\ Commit("file", max)
    BY <1>7 DEF LastHint
  <2>2. synced' \subseteq DOMAIN db'.file
    BY <1>2, <1>5, <2>1
  <2>3. TablesOK'
    BY <1>1, <1>3, <1>4, <2>1, <2>2, TablesGrow DEF Readers
  <2>4. ReadersOK'
    BY <1>2, <1>4, <2>1, Committed DEF Readers
  <2> QED
    BY <1>3, <1>4, <2>3, <2>4 DEF TypeOK
<1> QED
  BY <1>2, <1>6, <1>7

\* So do the meta-files' reader and other clients.
LEMMA StoreTypeOK ==
  ASSUME TypeOK, StoreMeta \/ \E doc \in LocalDocs : Local(doc)
  PROVE  TypeOK'
<1>1. TablesOK /\ ReadersOK /\ run \in BOOLEAN /\ latest \in Nat /\ local \subseteq Nat
  BY DEF TypeOK, TablesOK
<1>2. ASSUME Grows(db, db'), local' \subseteq Nat, latest' = latest,
             synced' = synced, hints' = hints, bootLen' = bootLen,
             \/ last' = last
             \/ \E p \in Readers : \E i \in DOMAIN Lines(p) : last' = [last EXCEPT ![p] = LineURI(p, i)]
      PROVE  TablesOK'
  <2>1. synced' \subseteq DOMAIN db'.file
    BY <1>1, <1>2 DEF TablesOK, Grows
  <2> QED
    BY <1>1, <1>2, <2>1, TablesGrow
<1>3. CASE StoreMeta
  <2>1. /\ Grows(db, db') /\ IndexOK(db')
        /\ rd["meta"].next \in DOMAIN Lines("meta")
        /\ PrimaryOf[rd["meta"].sub.hash] = LineURI("meta", rd["meta"].next)
    BY <1>3, StoredMeta DEF Lines, LineURI
  <2>2. /\ last' = [last EXCEPT !["meta"] = PrimaryOf[rd["meta"].sub.hash]]
        /\ synced' = synced /\ hints' = hints /\ run' = run /\ bootLen' = bootLen
        /\ latest' = latest /\ local' = local
    BY <1>3 DEF StoreMeta
  <2>4. TablesOK'
    BY <1>1, <1>2, <2>1, <2>2 DEF Readers
  <2>5. ReadersOK'
    BY <1>3, StoredMetaMoves
  <2> QED
    BY <1>1, <2>2, <2>4, <2>5 DEF TypeOK
<1>4. ASSUME NEW doc \in LocalDocs, Local(doc) PROVE TypeOK'
  <2>1. Grows(db, db') /\ IndexOK(db') /\ \E id \in 1..Len(db'.file) : local' = local \cup {id}
    BY <1>4, StoredLocal
  <2>2. /\ synced' = synced /\ hints' = hints /\ last' = last /\ bootLen' = bootLen
        /\ rd' = rd /\ run' = run /\ latest' = latest
    BY <1>4 DEF Local, fibers
  <2>3. local' \subseteq Nat
    BY <1>1, <2>1, IndexTyped
  <2>4. TablesOK'
    BY <1>1, <1>2, <2>1, <2>2, <2>3
  <2> QED
    BY <1>1, <2>2, <2>4 DEF TypeOK, ReadersOK
<1> QED
  BY <1>3, <1>4

\* So does an announcement.
LEMMA AnnounceTypeOK ==
  ASSUME TypeOK, (\E p \in Readers : Emit(p)) \/ (\E id \in local : EmitLocal(id))
  PROVE  TypeOK' /\ UNCHANGED <<tables, bootLen>>
<1>1. TablesOK /\ ReadersOK /\ run \in BOOLEAN /\ latest \in Nat /\ local \subseteq Nat
  BY DEF TypeOK, TablesOK
<1>2. ASSUME UNCHANGED <<tables, bootLen>>, latest' \in Nat, local' \subseteq Nat PROVE TablesOK'
  BY <1>1, <1>2 DEF TablesOK, tables
<1>3. ASSUME NEW p \in Readers, Emit(p) PROVE TypeOK' /\ UNCHANGED <<tables, bootLen>>
  <2>1. UNCHANGED <<tables, run, local, bootLen>> /\ latest' \in {latest, rd[p].max}
    BY <1>3 DEF Emit, Announce
  <2>2. rd[p].max \in Nat
    BY <1>1 DEF ReadersOK, Fibers
  <2> QED
    BY <1>1, <1>2, <1>3, <2>1, <2>2, Emitted DEF TypeOK
<1>4. ASSUME NEW id \in local, EmitLocal(id) PROVE TypeOK' /\ UNCHANGED <<tables, bootLen>>
  <2>1. UNCHANGED <<tables, rd, run, bootLen>> /\ latest' \in {latest, id} /\ local' = local \ {id}
    BY <1>4 DEF EmitLocal, Announce, fibers
  <2> QED
    BY <1>1, <1>2, <2>1 DEF TypeOK, ReadersOK
<1> QED
  BY <1>3, <1>4

\* A step that stores nothing keeps the types of the tables.
LEMMA TablesSame == ASSUME TablesOK, UNCHANGED <<tables, latest, local, bootLen>> PROVE TablesOK'
  BY DEF TablesOK, tables

\* What the meta-files' reader finds at a line.
LEMMA LineRead ==
  ASSUME TypeOK, ReadMeta
  PROVE  LET i == rd["meta"].next IN
         /\ i \in DOMAIN MetaLines /\ i \in Nat
         /\ MetaLines[i] = <<MetaLines[i][1], MetaLines[i][2]>> /\ MetaLines[i] \in URIs \X URIs
         /\ PassMeta(MetaLines[i][1], MetaLines[i][2]) \/ AddHint(MetaLines[i][1], MetaLines[i][2])
<1>1. rd["meta"].next \in Nat \ {0} /\ rd["meta"].next <= Len(MetaLines)
  BY DEF ReadMeta, TypeOK, ReadersOK, Fibers, Readers
<1>2. rd["meta"].next \in DOMAIN MetaLines
  BY <1>1, LinesTyped
<1> QED
  BY <1>1, <1>2, LinesTyped DEF ReadMeta

\* The meta-files' reader at a line keeps the types.
LEMMA ReadMetaTypeOK == ASSUME TypeOK, ReadMeta PROVE TypeOK'
<1> DEFINE i == rd["meta"].next
           u == MetaLines[i][1]
           t == MetaLines[i][2]
<1>1. TablesOK /\ ReadersOK /\ run \in BOOLEAN /\ "meta" \in Readers
  BY DEF TypeOK, Readers
<1>2. i \in DOMAIN MetaLines /\ <<u, t>> \in URIs \X URIs /\ (PassMeta(u, t) \/ AddHint(u, t))
  BY LineRead
<1>3. UNCHANGED <<db, synced, latest, local, bootLen>>
  BY DEF ReadMeta
<1>4. i \in DOMAIN Lines("meta") /\ Submission(u, t) = LineSub("meta", i) /\ u = LineURI("meta", i)
  BY <1>2 DEF Lines, LineSub, LineURI
<1> HIDE DEF u, t
<1>5. CASE PassMeta(u, t)
  <2>1. TablesOK'
    BY <1>1, <1>3, <1>5, TablesSame DEF PassMeta, tables
  <2>2. ReadersOK'
    BY <1>1, <1>4, <1>5, Continued, Ingested DEF PassMeta
  <2> QED
    BY <1>1, <1>5, <2>1, <2>2 DEF PassMeta, TypeOK
<1>6. CASE AddHint(u, t)
  <2>1. CASE Die("meta") /\ UNCHANGED <<hints, last>>
    <3>1. TablesOK'
      BY <1>1, <1>3, <2>1, TablesSame DEF tables
    <3>2. ReadersOK' /\ run' = FALSE
      BY <1>1, <2>1, Died DEF Die
    <3> QED
      BY <3>1, <3>2 DEF TypeOK
  <2>2. CASE /\ hints' = Append(hints, <<u, t>>) /\ last' = [last EXCEPT !["meta"] = u]
             /\ Continue("meta") /\ run' = run
    <3>2. hints' \in Seq(URIs \X URIs)
      BY <1>1, <1>2, <2>2 DEF TablesOK
    <3>3. TablesOK'
      <4>1. \A p \in Readers : last'[p] = NoURI \/ \E k \in DOMAIN Lines(p) : LineURI(p, k) = last'[p]
        BY <1>1, <1>4, <2>2 DEF TablesOK
      <4>2. last' \in [Readers -> URIs \cup {NoURI}]
        BY <1>1, <1>2, <2>2 DEF TablesOK
      <4> QED
        BY <1>1, <1>3, <3>2, <4>1, <4>2 DEF TablesOK
    <3>4. ReadersOK'
      BY <1>1, <2>2, Continued
    <3> QED
      BY <1>1, <2>2, <3>3, <3>4 DEF TypeOK
  <2> QED
    BY <1>6, <2>1, <2>2 DEF AddHint
<1> QED
  BY <1>2, <1>5, <1>6

\* The steps of a reader, and what they make of its place and its line.
LEMMA ReaderSteps ==
  ASSUME TypeOK, NEW p \in Readers
  PROVE  /\ Start(p) => /\ ReadersOK' /\ Moves(p, rd'[p])
                        /\ rd'[p].pc = "read" /\ rd'[p].next = Resume(p)
                        /\ rd'[p].hint = rd[p].hint /\ rd'[p].max = rd[p].max
         /\ Enqueue(p) => /\ ReadersOK'
                          /\ Moves(p, [rd[p] EXCEPT !.pc = IF rd[p].pc = "enqueue" THEN "await" ELSE "depawait"])
         /\ Dequeue(p) => /\ ReadersOK'
                          /\ Moves(p, [rd[p] EXCEPT !.pc = IF rd[p].pc = "await" THEN "store" ELSE "depstore"])
<1>1. ReadersOK /\ TablesOK /\ rd \in [Readers -> Fibers]
  BY DEF TypeOK, ReadersOK
<1>2. Resume(p) \in Nat \ {0}
  BY <1>1, ResumeRight, LinesTyped
<1>3. ASSUME Start(p)
      PROVE  /\ ReadersOK' /\ Moves(p, rd'[p])
             /\ rd'[p].pc = "read" /\ rd'[p].next = Resume(p)
             /\ rd'[p].hint = rd[p].hint /\ rd'[p].max = rd[p].max
  <2> DEFINE r == [rd[p] EXCEPT !.pc = "read", !.next = Resume(p)]
  <2>1. ReadersOK' /\ Moves(p, r)
    BY <1>1, <1>2, <1>3, WentOn DEF Start, Busy, OnDep
  <2>2. r.pc = "read" /\ r.next = Resume(p) /\ r.hint = rd[p].hint /\ r.max = rd[p].max
    BY <1>1 DEF Fibers
  <2> HIDE DEF r
  <2> QED
    BY <2>1, <2>2 DEF Moves
<1>4. ASSUME NEW pc \in Busy, rd[p].pc \in Busy, pc \in OnDep <=> rd[p].pc \in OnDep,
             rd' = [rd EXCEPT ![p].pc = pc]
      PROVE  ReadersOK' /\ Moves(p, [rd[p] EXCEPT !.pc = pc])
  <2> DEFINE r == [rd[p] EXCEPT !.pc = pc]
  <2>1. r \in Fibers /\ r.pc = pc /\ r.next = rd[p].next /\ r.sub = rd[p].sub /\ r.dep = rd[p].dep
    BY <1>1 DEF Fibers
  <2>2. ReaderOK(p, r)
    BY <1>1, <1>4, <2>1 DEF ReadersOK, ReaderOK
  <2>3. rd' = [rd EXCEPT ![p] = r]
    BY <1>1, <1>4
  <2> HIDE DEF r
  <2>4. ReadersOK' /\ Moves(p, r)
    BY <1>1, <2>1, <2>2, <2>3, MoveOK
  <2> QED
    BY <2>4 DEF r
<1>5. ASSUME Enqueue(p)
      PROVE  /\ ReadersOK'
             /\ Moves(p, [rd[p] EXCEPT !.pc = IF rd[p].pc = "enqueue" THEN "await" ELSE "depawait"])
  <2> DEFINE pc == IF rd[p].pc = "enqueue" THEN "await" ELSE "depawait"
  <2>1. rd[p].pc \in {"enqueue", "depenqueue"} /\ rd' = [rd EXCEPT ![p].pc = pc]
    BY <1>5 DEF Enqueue
  <2>2. pc \in Busy /\ rd[p].pc \in Busy /\ (pc \in OnDep <=> rd[p].pc \in OnDep)
    BY <2>1 DEF Busy, OnDep
  <2> HIDE DEF pc
  <2> QED
    BY <1>4, <2>1, <2>2 DEF pc
<1>6. ASSUME Dequeue(p)
      PROVE  /\ ReadersOK'
             /\ Moves(p, [rd[p] EXCEPT !.pc = IF rd[p].pc = "await" THEN "store" ELSE "depstore"])
  <2> DEFINE pc == IF rd[p].pc = "await" THEN "store" ELSE "depstore"
  <2>1. rd[p].pc \in {"await", "depawait"} /\ rd' = [rd EXCEPT ![p].pc = pc]
    BY <1>6 DEF Dequeue
  <2>2. pc \in Busy /\ rd[p].pc \in Busy /\ (pc \in OnDep <=> rd[p].pc \in OnDep)
    BY <2>1 DEF Busy, OnDep
  <2> HIDE DEF pc
  <2> QED
    BY <1>4, <2>1, <2>2 DEF pc
<1> QED
  BY <1>3, <1>5, <1>6

\* What the file reader finds at a line.
LEMMA FileRead ==
  ASSUME TypeOK, ReadFile
  PROVE  LET i == rd["file"].next IN
         /\ i \in DOMAIN FileLines
         /\ \/ Resolvable(db, FileLines[i]) /\ Continue("file")
            \/ Ingest("file", LineSub("file", i))
<1>1. rd["file"].next \in Nat \ {0} /\ rd["file"].next <= Len(FileLines)
  BY DEF ReadFile, TypeOK, ReadersOK, Fibers, Readers
<1>2. rd["file"].next \in DOMAIN FileLines
  BY <1>1, LinesTyped
<1> QED
  BY <1>1, <1>2 DEF ReadFile, LineSub

\* Every step keeps the types.
LEMMA NextTypeOK == TypeOK /\ [Next]_vars => TypeOK'
<1> SUFFICES ASSUME TypeOK, [Next]_vars PROVE TypeOK'
  OBVIOUS
<1>1. TablesOK /\ ReadersOK /\ run \in BOOLEAN
  BY DEF TypeOK
<1>2. ASSUME NEW p \in Readers, Start(p) \/ Enqueue(p) \/ Dequeue(p) PROVE TypeOK'
  <2>1. ReadersOK'
    BY <1>2, ReaderSteps
  <2>2. UNCHANGED <<tables, run, latest, local, bootLen>>
    BY <1>2 DEF Start, Enqueue, Dequeue
  <2> QED
    BY <1>1, <2>1, <2>2, TablesSame DEF TypeOK
<1>3. CASE ReadFile
  <2>1. ReadersOK'
    <3>1. "file" \in Readers /\ DOMAIN Lines("file") = DOMAIN FileLines
      BY DEF Readers, Lines
    <3> QED
      BY <1>1, <1>3, <3>1, FileRead, Continued, Ingested
  <2>2. UNCHANGED <<tables, run, latest, local, bootLen>>
    BY <1>3 DEF ReadFile
  <2> QED
    BY <1>1, <2>1, <2>2, TablesSame DEF TypeOK
<1>4. ASSUME NEW w \in Workers, WorkAwait(w) \/ WorkDone(w) \/ WorkerFails(w) PROVE TypeOK'
  <2>1. UNCHANGED <<tables, rd, latest, local, bootLen>> /\ run' \in BOOLEAN
    BY <1>1, <1>4 DEF WorkAwait, WorkDone, WorkerFails
  <2> QED
    BY <1>1, <2>1, TablesSame DEF TypeOK, ReadersOK
<1>5. ASSUME NEW p \in Readers, ReaderFails(p) PROVE TypeOK'
  <2>1. ReadersOK' /\ run' = FALSE /\ UNCHANGED <<tables, latest, local, bootLen>>
    BY <1>1, <1>5, Died DEF ReaderFails, Die
  <2> QED
    BY <1>1, <2>1, TablesSame DEF TypeOK
<1>6. CASE Crash
  <2>1. ReadersOK'
    BY <1>6, StartingOK DEF Crash
  <2>2. Len(db.file) \in Nat
    BY <1>1, IndexTyped DEF TablesOK
  <2>3. TablesOK'
    BY <1>1, <1>6, <2>2 DEF Crash, tables, TablesOK
  <2> QED
    BY <1>6, <2>1, <2>3 DEF Crash, TypeOK
<1>7. CASE UNCHANGED vars
  <2>1. UNCHANGED <<tables, latest, local, bootLen>> /\ rd' = rd /\ run' = run
    BY <1>7 DEF vars, tables
  <2> QED
    BY <1>1, <2>1, TablesSame DEF TypeOK, ReadersOK
<1> QED
  BY <1>2, <1>3, <1>4, <1>5, <1>6, <1>7, ReadMetaTypeOK, StoreFileTypeOK, StoreTypeOK,
     AnnounceTypeOK DEF Next, Step, Fail

\* An empty repository and a pull that starts.
LEMMA InitTypeOK == Init => TypeOK
<1> SUFFICES ASSUME Init PROVE TypeOK
  OBVIOUS
<1>1. TablesOK
  <2>1. IndexOK(db) /\ Len(db.file) = 0
    BY EmptyIndexOK DEF Init, EmptyDB
  <2> QED
    BY <2>1 DEF Init, TablesOK
<1>2. ReadersOK
  <2>1. Starting \in Fibers /\ Starting.pc = "start"
    BY DEF Starting, Fibers
  <2> QED
    BY <2>1 DEF Init, NewReaders, ReadersOK, ReaderOK, Busy, OnDep
<1> QED
  BY <1>1, <1>2 DEF Init, TypeOK

-----------------------------------------------------------------------------
(***************************************************************************)
(* The queues.                                                             *)
(***************************************************************************)
\* A reader has a queue from ingest_sem to done_sem.
Holds(p, q) == rd[p].pc \in {"await", "depawait"} /\ QueueOf(p) = q

Fetches(w, q) == worker[w].pc = "fetch" /\ worker[w].sub = queue[q].sub

\* A queue is free, or one reader has it and its submission is to be taken, or
\* at one worker, or fetched, or lost with the worker.
QueueOK(q) ==
    /\ queue[q].ingest = 1 =>
          /\ queue[q].sub = NoSub /\ queue[q].work = 0 /\ queue[q].done = 0
          /\ \A p \in Readers : ~Holds(p, q)
    /\ queue[q].ingest = 0 => queue[q].sub \in Subs(q)
    /\ \A p \in Readers : Holds(p, q) => queue[q].sub = Posted(p)
    /\ \A p, o \in Readers : Holds(p, q) /\ Holds(o, q) => p = o
    /\ \A w, v \in Workers : Fetches(w, q) /\ Fetches(v, q) => w = v
    /\ queue[q].work = 1 => queue[q].done = 0

QueueInv ==
    /\ queue \in [Readers -> [sub : Documents \cup {NoSub}, ingest : {0, 1},
                              work : {0, 1}, done : {0, 1}]]
    /\ worker \in [Workers -> [pc : {"wait", "fetch", "dead"}, sub : Documents \cup {NoSub}]]
    /\ shared = queue["file"].work + queue["meta"].work
    /\ \A q \in Readers : QueueOK(q)
    /\ \A w \in Workers : worker[w].pc = "fetch" =>
          \E q \in Readers :
             /\ queue[q].sub = worker[w].sub
             /\ queue[q].ingest = 0 /\ queue[q].work = 0 /\ queue[q].done = 0

\* Each submission is of one queue.
LEMMA SubsApart ==
  /\ \A q \in Readers : Subs(q) \subseteq Documents /\ NoSub \notin Subs(q)
  /\ \A q, o \in Readers, s \in Documents : s \in Subs(q) /\ s \in Subs(o) => q = o
  BY SyncAssumption DEF Subs, Readers

\* What a busy reader posts is a submission of the queue it posts to.
LEMMA PostedTyped ==
  ASSUME ReadersOK, NEW p \in Readers, rd[p].pc \in Busy
  PROVE  QueueOf(p) \in Readers /\ Posted(p) \in Subs(QueueOf(p))
<1>1. rd[p].next \in DOMAIN Lines(p) /\ rd[p].sub = LineSub(p, rd[p].next)
  BY DEF ReadersOK, ReaderOK
<1>2. rd[p].sub \in Subs(p)
  BY <1>1, LineTyped
<1>3. rd[p].pc \in OnDep => p = "file" /\ rd[p].dep \in Subs("meta")
  BY DEF ReadersOK, ReaderOK
<1> QED
  BY <1>2, <1>3 DEF QueueOf, Posted, OnHint, OnDep, Readers

\* Where a reader does not move, it has what it had.
LEMMA HoldsSame ==
  ASSUME NEW p \in Readers, rd'[p] = rd[p]
  PROVE  Posted(p)' = Posted(p) /\ QueueOf(p)' = QueueOf(p) /\ \A q : Holds(p, q)' <=> Holds(p, q)
  BY DEF Posted, QueueOf, OnHint, Holds

\* A move of a reader that neither takes nor leaves a queue.
LEMMA ApartQueueInv ==
  ASSUME QueueInv, UNCHANGED <<queue, shared, worker>>,
         \A p \in Readers : \/ rd'[p] = rd[p]
                            \/ /\ rd[p].pc \notin {"await", "depawait"}
                               /\ rd'[p].pc \notin {"await", "depawait"}
  PROVE  QueueInv'
<1>1. ASSUME NEW p \in Readers, NEW q
      PROVE  (Holds(p, q)' <=> Holds(p, q)) /\ (Holds(p, q) => Posted(p)' = Posted(p))
  BY HoldsSame DEF Holds
<1>2. ASSUME NEW q \in Readers PROVE QueueOK(q)'
  <2>1. QueueOK(q)
    BY DEF QueueInv
  <2>2. \A w : Fetches(w, q)' <=> Fetches(w, q)
    BY DEF Fetches
  <2> QED
    BY <1>1, <2>1, <2>2 DEF QueueOK
<1> QED
  BY <1>2 DEF QueueInv

\* A queue that is free is taken: nobody else has it, and no worker.
LEMMA EnqueueQueueInv ==
  ASSUME TypeOK, QueueInv, NEW p \in Readers, Enqueue(p),
         NEW q, q = QueueOf(p), NEW s, s = Posted(p)
  PROVE  QueueInv'
<1> DEFINE r == [rd[p] EXCEPT !.pc = IF rd[p].pc = "enqueue" THEN "await" ELSE "depawait"]
<1>1. ReadersOK /\ rd[p] \in Fibers /\ rd[p].pc \in {"enqueue", "depenqueue"} /\ rd[p].pc \in Busy
  BY DEF Enqueue, TypeOK, ReadersOK, Busy, OnDep
<1>2. q \in Readers /\ s \in Subs(q) /\ s \in Documents /\ s # NoSub
  BY <1>1, PostedTyped, SubsApart
<1>3. Moves(p, r)
  BY ReaderSteps
<1>4. Posted(p)' = s /\ QueueOf(p)' = q /\ \A x : Holds(p, x)' <=> x = q
  <2>1. /\ rd'[p].pc = IF rd[p].pc = "enqueue" THEN "await" ELSE "depawait"
        /\ rd'[p].sub = rd[p].sub /\ rd'[p].dep = rd[p].dep
    BY <1>1, <1>3 DEF Moves, Fibers
  <2> HIDE DEF r
  <2>2. OnHint(p)' <=> OnHint(p)
    BY <1>1, <2>1 DEF OnHint
  <2> QED
    BY <1>1, <2>1, <2>2 DEF Posted, QueueOf, Holds
<1>5. \A o \in Readers \ {p} : rd'[o] = rd[o]
  BY <1>3 DEF Moves
<1>6. ASSUME NEW o \in Readers \ {p} PROVE Posted(o)' = Posted(o) /\ \A x : Holds(o, x)' <=> Holds(o, x)
  BY <1>5, HoldsSame
<1>7. /\ queue[q].ingest = 1 /\ queue[q].work = 0 /\ queue[q].done = 0
      /\ \A o \in Readers : ~Holds(o, q)
  BY <1>2 DEF Enqueue, QueueInv, QueueOK
<1> HIDE DEF r
<1>8. /\ queue' = [queue EXCEPT ![q] = [sub |-> s, ingest |-> 0, work |-> 1, done |-> 0]]
      /\ shared' = shared + 1 /\ worker' = worker
  BY <1>2, <1>7 DEF Enqueue, QueueInv
<1>9. /\ queue' \in [Readers -> [sub : Documents \cup {NoSub}, ingest : {0, 1}, work : {0, 1}, done : {0, 1}]]
      /\ queue'[q] = [sub |-> s, ingest |-> 0, work |-> 1, done |-> 0]
      /\ \A x \in Readers \ {q} : queue'[x] = queue[x]
  BY <1>2, <1>8 DEF QueueInv
<1>10. shared' = queue'["file"].work + queue'["meta"].work
  <2>1. shared = queue["file"].work + queue["meta"].work /\ queue["file"].work \in {0, 1} /\ queue["meta"].work \in {0, 1}
    BY DEF QueueInv, Readers
  <2>2. q = "file" \/ q = "meta"
    BY <1>2 DEF Readers
  <2> QED
    BY <1>7, <1>8, <1>9, <2>1, <2>2 DEF Readers
<1>11. ASSUME NEW w \in Workers, worker[w].pc = "fetch"
       PROVE  \E x \in Readers \ {q} :
                 /\ queue[x].sub = worker[w].sub /\ worker[w].sub \in Subs(x)
                 /\ queue[x].ingest = 0 /\ queue[x].work = 0 /\ queue[x].done = 0
  BY <1>7, <1>11 DEF QueueInv, QueueOK
<1>12. ASSUME NEW w \in Workers PROVE ~Fetches(w, q)'
  <2>1. worker[w].pc = "fetch" => worker[w].sub # s
    BY <1>2, <1>11, SubsApart
  <2> QED
    BY <1>8, <1>9, <2>1 DEF Fetches
<1>13. ASSUME NEW x \in Readers PROVE QueueOK(x)'
  <2>1. CASE x = q
    BY <1>2, <1>4, <1>6, <1>7, <1>9, <1>12, <2>1 DEF QueueOK
  <2>2. CASE x # q
    <3>1. QueueOK(x) /\ queue'[x] = queue[x] /\ ~Holds(p, x)'
      BY <1>4, <1>9, <2>2 DEF QueueInv
    <3>2. \A w : Fetches(w, x)' <=> Fetches(w, x)
      BY <1>8, <3>1 DEF Fetches
    <3> QED
      BY <1>6, <3>1, <3>2 DEF QueueOK
  <2> QED
    BY <2>1, <2>2
<1> QED
  BY <1>8, <1>9, <1>10, <1>11, <1>13 DEF QueueInv

\* What was fetched is handed to the reader that waits, and the queue is free.
LEMMA DequeueQueueInv ==
  ASSUME TypeOK, QueueInv, NEW p \in Readers, Dequeue(p), NEW q, q = QueueOf(p)
  PROVE  QueueInv'
<1> DEFINE r == [rd[p] EXCEPT !.pc = IF rd[p].pc = "await" THEN "store" ELSE "depstore"]
<1>1. ReadersOK /\ rd[p] \in Fibers /\ rd[p].pc \in {"await", "depawait"} /\ rd[p].pc \in Busy
  BY DEF Dequeue, TypeOK, ReadersOK, Busy, OnDep
<1>2. q \in Readers /\ Posted(p) \in Subs(q) /\ Posted(p) # NoSub
  BY <1>1, PostedTyped, SubsApart
<1>3. Moves(p, r)
  BY ReaderSteps
<1>4. \A x : ~Holds(p, x)'
  <2>1. rd'[p].pc = IF rd[p].pc = "await" THEN "store" ELSE "depstore"
    BY <1>1, <1>3 DEF Moves, Fibers
  <2> QED
    BY <2>1 DEF Holds
<1>5. ASSUME NEW o \in Readers \ {p} PROVE Posted(o)' = Posted(o) /\ \A x : Holds(o, x)' <=> Holds(o, x)
  BY <1>3, HoldsSame DEF Moves
<1>6. Holds(p, q)
  BY <1>1 DEF Holds
<1>7. /\ queue[q].ingest = 0 /\ queue[q].work = 0 /\ queue[q].done = 1
      /\ \A o \in Readers \ {p} : ~Holds(o, q)
  <2>1. QueueOK(q) /\ queue[q] \in [sub : Documents \cup {NoSub}, ingest : {0, 1}, work : {0, 1}, done : {0, 1}]
    BY <1>2 DEF QueueInv
  <2>2. queue[q].done > 0
    BY DEF Dequeue
  <2> QED
    BY <1>6, <2>1, <2>2 DEF QueueOK
<1> HIDE DEF r
<1>8. /\ queue' = [queue EXCEPT ![q] = [sub |-> NoSub, ingest |-> 1, work |-> 0, done |-> 0]]
      /\ shared' = shared /\ worker' = worker
  BY <1>2, <1>7 DEF Dequeue, QueueInv
<1>9. /\ queue' \in [Readers -> [sub : Documents \cup {NoSub}, ingest : {0, 1}, work : {0, 1}, done : {0, 1}]]
      /\ queue'[q] = [sub |-> NoSub, ingest |-> 1, work |-> 0, done |-> 0]
      /\ \A x \in Readers \ {q} : queue'[x] = queue[x]
  BY <1>2, <1>8 DEF QueueInv
<1>10. queue'["file"].work = queue["file"].work /\ queue'["meta"].work = queue["meta"].work
  BY <1>7, <1>9 DEF Readers
<1>11. ASSUME NEW w \in Workers, worker[w].pc = "fetch"
       PROVE  \E x \in Readers \ {q} :
                 /\ queue[x].sub = worker[w].sub /\ worker[w].sub \in Subs(x)
                 /\ queue[x].ingest = 0 /\ queue[x].work = 0 /\ queue[x].done = 0
  BY <1>7, <1>11 DEF QueueInv, QueueOK
<1>12. ASSUME NEW w \in Workers PROVE ~Fetches(w, q)'
  <2>1. worker[w].pc = "fetch" => worker[w].sub # NoSub
    BY <1>11, SubsApart
  <2> QED
    BY <1>8, <1>9, <2>1 DEF Fetches
<1>13. ASSUME NEW x \in Readers PROVE QueueOK(x)'
  <2>1. CASE x = q
    BY <1>4, <1>5, <1>7, <1>9, <1>12, <2>1 DEF QueueOK
  <2>2. CASE x # q
    <3>1. QueueOK(x) /\ queue'[x] = queue[x]
      BY <1>9, <2>2 DEF QueueInv
    <3>2. \A w : Fetches(w, x)' <=> Fetches(w, x)
      BY <1>8, <3>1 DEF Fetches
    <3>3. \A o \in Readers : Holds(o, x)' => Holds(o, x) /\ Posted(o)' = Posted(o)
      BY <1>4, <1>5
    <3> QED
      BY <3>1, <3>2, <3>3 DEF QueueOK
  <2> QED
    BY <2>1, <2>2
<1> QED
  BY <1>8, <1>9, <1>10, <1>11, <1>13 DEF QueueInv

\* Where the readers stay where they are, they have what they had.
LEMMA HoldsUnmoved ==
  ASSUME rd' = rd
  PROVE  \A p \in Readers : Posted(p)' = Posted(p) /\ \A q : Holds(p, q)' <=> Holds(p, q)
  BY HoldsSame

\* A worker takes what is posted; nobody else had.
LEMMA WorkAwaitQueueInv == ASSUME QueueInv, NEW w \in Workers, WorkAwait(w) PROVE QueueInv'
<1>1. PICK q \in Readers :
        /\ queue[q].work > 0
        /\ queue' = [queue EXCEPT ![q].work = @ - 1]
        /\ worker' = [worker EXCEPT ![w] = [pc |-> "fetch", sub |-> queue[q].sub]]
  BY DEF WorkAwait
<1>2. worker[w].pc = "wait" /\ shared > 0 /\ shared' = shared - 1 /\ rd' = rd
  BY DEF WorkAwait
<1>3. queue[q] \in [sub : Documents \cup {NoSub}, ingest : {0, 1}, work : {0, 1}, done : {0, 1}] /\ QueueOK(q)
  BY DEF QueueInv
<1>4. queue[q].work = 1 /\ queue[q].ingest = 0 /\ queue[q].done = 0 /\ queue[q].sub \in Subs(q)
  BY <1>1, <1>3 DEF QueueOK
<1>5. /\ queue' \in [Readers -> [sub : Documents \cup {NoSub}, ingest : {0, 1}, work : {0, 1}, done : {0, 1}]]
      /\ queue'[q].sub = queue[q].sub /\ queue'[q].ingest = 0 /\ queue'[q].work = 0 /\ queue'[q].done = 0
      /\ \A x \in Readers \ {q} : queue'[x] = queue[x]
  BY <1>1, <1>3, <1>4 DEF QueueInv
<1>6. /\ worker' \in [Workers -> [pc : {"wait", "fetch", "dead"}, sub : Documents \cup {NoSub}]]
      /\ worker'[w].pc = "fetch" /\ worker'[w].sub = queue[q].sub
      /\ \A v \in Workers \ {w} : worker'[v] = worker[v]
  BY <1>1, <1>3 DEF QueueInv
<1>7. shared' = queue'["file"].work + queue'["meta"].work
  <2>1. shared = queue["file"].work + queue["meta"].work /\ queue["file"].work \in {0, 1} /\ queue["meta"].work \in {0, 1}
    BY DEF QueueInv, Readers
  <2>2. CASE q = "file"
    <3>1. queue'["file"].work = 0 /\ queue["file"].work = 1
      BY <1>4, <1>5, <2>2
    <3>2. queue'["meta"] = queue["meta"]
      BY <1>5, <2>2 DEF Readers
    <3> QED
      BY <1>2, <2>1, <3>1, <3>2
  <2>3. CASE q = "meta"
    <3>1. queue'["meta"].work = 0 /\ queue["meta"].work = 1
      BY <1>4, <1>5, <2>3
    <3>2. queue'["file"] = queue["file"]
      BY <1>5, <2>3 DEF Readers
    <3> QED
      BY <1>2, <2>1, <3>1, <3>2
  <2> QED
    BY <2>2, <2>3 DEF Readers
<1>8. ASSUME NEW v \in Workers, worker[v].pc = "fetch"
      PROVE  \E x \in Readers \ {q} :
                /\ queue[x].sub = worker[v].sub /\ worker[v].sub \in Subs(x)
                /\ queue[x].ingest = 0 /\ queue[x].work = 0 /\ queue[x].done = 0
  BY <1>4, <1>8 DEF QueueInv, QueueOK
<1>9. \A v \in Workers : worker[v].pc = "fetch" => worker[v].sub # queue[q].sub
  BY <1>4, <1>8, SubsApart
<1>10. ASSUME NEW v \in Workers, worker'[v].pc = "fetch"
       PROVE  \E x \in Readers :
                 /\ queue'[x].sub = worker'[v].sub
                 /\ queue'[x].ingest = 0 /\ queue'[x].work = 0 /\ queue'[x].done = 0
  BY <1>5, <1>6, <1>8, <1>10
<1>11. ASSUME NEW x \in Readers PROVE QueueOK(x)'
  <2>1. QueueOK(x)
    BY DEF QueueInv
  <2>2. CASE x = q
    <3>1. \A v \in Workers : Fetches(v, x)' => v = w
      BY <1>5, <1>6, <1>9, <2>2 DEF Fetches
    <3> QED
      BY <1>2, <1>4, <1>5, <2>1, <2>2, <3>1, HoldsUnmoved DEF QueueOK
  <2>3. CASE x # q
    <3>1. queue[q].sub = queue[x].sub => queue[x].ingest # 0
      BY <1>4, <2>1, <2>3, SubsApart DEF QueueOK
    <3>2. queue[x].ingest = 1 => queue[x].sub = NoSub
      BY <2>1 DEF QueueOK
    <3>3. queue[q].sub # queue[x].sub
      <4>1. queue[x].ingest \in {0, 1} /\ queue[q].sub # NoSub
        BY <1>4, SubsApart DEF QueueInv
      <4> QED
        BY <3>1, <3>2, <4>1
    <3>4. \A v \in Workers : Fetches(v, x)' => Fetches(v, x)
      BY <1>5, <1>6, <2>3, <3>3 DEF Fetches
    <3> QED
      BY <1>2, <1>5, <2>1, <2>3, <3>4, HoldsUnmoved DEF QueueOK
  <2> QED
    BY <2>2, <2>3
<1> QED
  BY <1>5, <1>6, <1>7, <1>10, <1>11 DEF QueueInv

\* A worker is done with the queue it has, and only with that.
LEMMA WorkDoneQueueInv == ASSUME QueueInv, NEW w \in Workers, WorkDone(w) PROVE QueueInv'
<1>1. PICK q \in Readers :
        queue[q].sub = worker[w].sub /\ queue' = [queue EXCEPT ![q].done = @ + 1]
  BY DEF WorkDone
<1>2. /\ worker[w].pc = "fetch" /\ rd' = rd /\ shared' = shared
      /\ worker' = [worker EXCEPT ![w] = [pc |-> IF run THEN "wait" ELSE "dead", sub |-> NoSub]]
  BY DEF WorkDone
<1>3. queue[q] \in [sub : Documents \cup {NoSub}, ingest : {0, 1}, work : {0, 1}, done : {0, 1}] /\ QueueOK(q)
  BY DEF QueueInv
<1>4. queue[q].ingest = 0 /\ queue[q].work = 0 /\ queue[q].done = 0
  <2>1. PICK x \in Readers :
          /\ queue[x].sub = worker[w].sub
          /\ queue[x].ingest = 0 /\ queue[x].work = 0 /\ queue[x].done = 0
    BY <1>2 DEF QueueInv
  <2>2. queue[x].sub \in Subs(x)
    BY <2>1 DEF QueueInv, QueueOK
  <2>3. queue[q].ingest = 0
    BY <1>1, <1>3, <2>1, <2>2, SubsApart DEF QueueOK
  <2>4. x = q
    BY <1>1, <1>3, <2>1, <2>2, <2>3, SubsApart DEF QueueOK
  <2> QED
    BY <2>1, <2>4
<1>5. /\ queue' \in [Readers -> [sub : Documents \cup {NoSub}, ingest : {0, 1}, work : {0, 1}, done : {0, 1}]]
      /\ queue'[q].sub = queue[q].sub /\ queue'[q].ingest = 0 /\ queue'[q].work = 0 /\ queue'[q].done = 1
      /\ \A x \in Readers \ {q} : queue'[x] = queue[x]
  BY <1>1, <1>3, <1>4 DEF QueueInv
<1>6. /\ worker' \in [Workers -> [pc : {"wait", "fetch", "dead"}, sub : Documents \cup {NoSub}]]
      /\ worker'[w].pc # "fetch"
      /\ \A v \in Workers \ {w} : worker'[v] = worker[v]
  BY <1>2 DEF QueueInv
<1>7. queue'["file"].work = queue["file"].work /\ queue'["meta"].work = queue["meta"].work
  BY <1>4, <1>5 DEF Readers
<1>8. ASSUME NEW v \in Workers, worker'[v].pc = "fetch"
      PROVE  \E x \in Readers :
                /\ queue'[x].sub = worker'[v].sub
                /\ queue'[x].ingest = 0 /\ queue'[x].work = 0 /\ queue'[x].done = 0
  <2>1. v # w /\ worker'[v] = worker[v]
    BY <1>6, <1>8
  <2>2. PICK x \in Readers :
          /\ queue[x].sub = worker[v].sub
          /\ queue[x].ingest = 0 /\ queue[x].work = 0 /\ queue[x].done = 0
    BY <1>8, <2>1 DEF QueueInv
  <2>3. x # q
    <3>1. Fetches(w, q) /\ ~Fetches(v, q)
      BY <1>1, <1>2, <1>3, <2>1 DEF Fetches, QueueOK
    <3> QED
      BY <1>8, <2>1, <2>2, <3>1 DEF Fetches
  <2> QED
    BY <1>5, <2>1, <2>2, <2>3
<1>9. ASSUME NEW x \in Readers PROVE QueueOK(x)'
  <2>1. QueueOK(x)
    BY DEF QueueInv
  <2>2. \A v \in Workers : Fetches(v, x)' => Fetches(v, x)
    BY <1>5, <1>6 DEF Fetches
  <2>3. /\ queue'[x].sub = queue[x].sub /\ queue'[x].ingest = queue[x].ingest
        /\ queue'[x].work = queue[x].work /\ (x # q => queue'[x].done = queue[x].done)
    BY <1>4, <1>5
  <2> QED
    BY <1>2, <1>4, <2>1, <2>2, <2>3, HoldsUnmoved DEF QueueOK
<1> QED
  BY <1>2, <1>5, <1>6, <1>7, <1>8, <1>9 DEF QueueInv

\* A worker that fails leaves its queue to the reader that waits.
LEMMA WorkerFailsQueueInv == ASSUME QueueInv, NEW w \in Workers, WorkerFails(w) PROVE QueueInv'
<1>1. /\ worker' = [worker EXCEPT ![w] = [pc |-> "dead", sub |-> NoSub]]
      /\ queue' = queue /\ shared' = shared /\ rd' = rd
  BY DEF WorkerFails
<1>2. /\ worker' \in [Workers -> [pc : {"wait", "fetch", "dead"}, sub : Documents \cup {NoSub}]]
      /\ worker'[w].pc # "fetch"
      /\ \A v \in Workers \ {w} : worker'[v] = worker[v]
  BY <1>1 DEF QueueInv
<1>3. \A v \in Workers : worker'[v].pc = "fetch" => worker'[v] = worker[v]
  BY <1>2
<1>4. ASSUME NEW x \in Readers PROVE QueueOK(x)'
  <2>1. QueueOK(x) /\ \A v \in Workers : Fetches(v, x)' => Fetches(v, x)
    BY <1>1, <1>3 DEF QueueInv, Fetches
  <2> QED
    BY <1>1, <2>1, HoldsUnmoved DEF QueueOK
<1> QED
  BY <1>1, <1>2, <1>3, <1>4 DEF QueueInv

\* When a pull starts, its queues are free.
LEMMA FreshQueueInv ==
  ASSUME NewReaders = rd, NewQueues = queue, shared = 0, NewWorkers = worker
  PROVE  QueueInv
<1>1. \A p \in Readers : rd[p].pc = "start" /\ queue[p] = Empty
  BY DEF NewReaders, NewQueues, Starting
<1>2. /\ Empty \in [sub : Documents \cup {NoSub}, ingest : {0, 1}, work : {0, 1}, done : {0, 1}]
      /\ Empty.ingest = 1 /\ Empty.work = 0 /\ Empty.done = 0 /\ Empty.sub = NoSub
  BY DEF Empty
<1>3. queue \in [Readers -> [sub : Documents \cup {NoSub}, ingest : {0, 1}, work : {0, 1}, done : {0, 1}]]
  BY <1>2 DEF NewQueues
<1>4. /\ worker \in [Workers -> [pc : {"wait", "fetch", "dead"}, sub : Documents \cup {NoSub}]]
      /\ \A w \in Workers : worker[w].pc = "wait"
  BY DEF NewWorkers
<1>5. ASSUME NEW q \in Readers PROVE QueueOK(q)
  <2>1. \A p \in Readers : ~Holds(p, q)
    BY <1>1 DEF Holds
  <2>2. \A w \in Workers : ~Fetches(w, q)
    BY <1>4 DEF Fetches
  <2> QED
    BY <1>1, <1>2, <2>1, <2>2 DEF QueueOK
<1>6. queue["file"].work = 0 /\ queue["meta"].work = 0
  BY <1>1, <1>2 DEF Readers
<1> QED
  BY <1>3, <1>4, <1>5, <1>6 DEF QueueInv

\* Every step keeps the queues.
LEMMA NextQueueInv == TypeOK /\ QueueInv /\ [Next]_vars => QueueInv'
<1> SUFFICES ASSUME TypeOK, QueueInv, [Next]_vars PROVE QueueInv'
  OBVIOUS
<1>1. ReadersOK /\ "file" \in Readers /\ "meta" \in Readers
  BY DEF TypeOK, Readers
<1>2. ASSUME NEW p \in Readers, Moves(p, rd'[p]), UNCHANGED <<queue, shared, worker>>,
             rd[p].pc \notin {"await", "depawait"}, rd'[p].pc \notin {"await", "depawait"}
      PROVE  QueueInv'
  BY <1>2, ApartQueueInv DEF Moves
<1>3. ASSUME NEW p \in Readers, Start(p) PROVE QueueInv'
  <2>1. Moves(p, rd'[p]) /\ rd'[p].pc = "read"
    BY <1>3, ReaderSteps
  <2> QED
    BY <1>2, <1>3, <2>1 DEF Start
<1>4. CASE ReadFile
  <2>1. Moves("file", rd'["file"]) /\ rd'["file"].pc \in {"read", "dead", "enqueue"}
    <3>1. DOMAIN Lines("file") = DOMAIN FileLines
      BY DEF Lines
    <3> QED
      BY <1>1, <1>4, <3>1, FileRead, Continued, Ingested
  <2> QED
    BY <1>1, <1>2, <1>4, <2>1 DEF ReadFile
<1>5. CASE ReadMeta
  <2> DEFINE i == rd["meta"].next
             u == MetaLines[i][1]
             t == MetaLines[i][2]
  <2>1. i \in DOMAIN MetaLines /\ (PassMeta(u, t) \/ AddHint(u, t))
    BY <1>5, LineRead
  <2>2. i \in DOMAIN Lines("meta") /\ Submission(u, t) = LineSub("meta", i)
    BY <2>1 DEF Lines, LineSub
  <2> HIDE DEF u, t
  <2>3. Continue("meta") \/ Ingest("meta", Submission(u, t)) \/ Die("meta")
    BY <2>1 DEF PassMeta, AddHint
  <2>4. Moves("meta", rd'["meta"]) /\ rd'["meta"].pc \in {"read", "dead", "enqueue"}
    BY <1>1, <2>2, <2>3, Continued, Ingested, Died
  <2> QED
    BY <1>1, <1>2, <1>5, <2>4 DEF ReadMeta
<1>6. CASE StoreMeta
  <2>1. Moves("meta", rd'["meta"]) /\ rd'["meta"].pc = "emit"
    BY <1>6, StoredMetaMoves
  <2> QED
    BY <1>1, <1>2, <1>6, <2>1 DEF StoreMeta
<1>7. CASE StoreFile
  <2> DEFINE u == PrimaryOf[rd["file"].sub.hash]
  <2>1. PICK f \in DOMAIN db'.file, max \in Nat : u \in URIs /\ (NextHint(f, u, max) \/ LastHint(f, u, max))
    BY <1>7, StoredFile
  <2>2. rd["file"].pc \in {"store", "depstore"} /\ rd["file"].pc \in Busy
    BY <1>7 DEF StoreFile, Busy, OnDep
  <2> HIDE DEF u
  <2>3. NextHint(f, u, max) => Moves("file", rd'["file"]) /\ rd'["file"].pc = "depenqueue"
    BY <2>1, <2>2, NextHintIs
  <2>4. LastHint(f, u, max) => Moves("file", rd'["file"]) /\ rd'["file"].pc = "emit"
    BY <1>1, Committed DEF LastHint
  <2> QED
    BY <1>1, <1>2, <1>7, <2>1, <2>2, <2>3, <2>4 DEF StoreFile
<1>8. ASSUME NEW p \in Readers, ReaderFails(p) PROVE QueueInv'
  <2>1. Moves(p, rd'[p]) /\ rd'[p].pc = "dead"
    BY <1>1, <1>8, Died DEF ReaderFails
  <2> QED
    BY <1>2, <1>8, <2>1 DEF ReaderFails
<1>9. ASSUME NEW doc, NEW id, Local(doc) \/ EmitLocal(id) PROVE QueueInv'
  BY <1>9, ApartQueueInv DEF Local, EmitLocal, fibers
<1>10. CASE Crash
  <2>1. (NewReaders = rd /\ NewQueues = queue /\ shared = 0 /\ NewWorkers = worker)'
    BY <1>10 DEF Crash, NewReaders, NewQueues, NewWorkers, Starting, Empty
  <2> QED
    BY <2>1, FreshQueueInv, PTL
<1>11. CASE UNCHANGED vars
  BY <1>11, ApartQueueInv DEF vars
<1>12. ASSUME NEW p \in Readers, Emit(p) PROVE QueueInv'
  <2>1. Moves(p, rd'[p]) /\ rd'[p].pc \in {"read", "dead"}
    BY <1>1, <1>12, Emitted
  <2> QED
    BY <1>2, <1>12, <2>1 DEF Emit
<1> QED
  BY <1>3, <1>4, <1>5, <1>6, <1>7, <1>8, <1>9, <1>10, <1>11, <1>12, EnqueueQueueInv, DequeueQueueInv,
     WorkAwaitQueueInv, WorkDoneQueueInv, WorkerFailsQueueInv
     DEF Next, Step, Fail

\* A queue is free when it is had, work is there when it is promised, and what a
\* worker fetched is still its queue's, for any number of workers (the assertions
\* of queue_ingest and SLNSyncWorkAwait, and SLNSyncWorkDone).
THEOREM QueuesHold == Spec => []QueuesHandOver
<1>1. Init => QueueInv
  BY FreshQueueInv DEF Init
<1>2. TypeOK /\ QueueInv => QueuesHandOver
  <2> SUFFICES ASSUME TypeOK, QueueInv PROVE QueuesHandOver
    OBVIOUS
  <2>1. ASSUME NEW p \in Readers
        PROVE  /\ rd[p].pc \in {"enqueue", "depenqueue"} /\ queue[QueueOf(p)].ingest > 0
                     => queue[QueueOf(p)].sub = NoSub
               /\ rd[p].pc \in {"await", "depawait"} => queue[QueueOf(p)].sub = Posted(p)
    <3>1. QueueOf(p) \in Readers
      BY DEF QueueOf, Readers
    <3>2. QueueOK(QueueOf(p)) /\ queue[QueueOf(p)].ingest \in {0, 1}
      BY <3>1 DEF QueueInv
    <3> QED
      BY <3>2 DEF QueueOK, Holds
  <2>2. shared > 0 => \E q \in Readers : queue[q].work > 0
    <3>1. shared = queue["file"].work + queue["meta"].work /\ queue["file"].work \in {0, 1} /\ queue["meta"].work \in {0, 1}
      BY DEF QueueInv, Readers
    <3> QED
      BY <3>1 DEF Readers
  <2>3. \A w \in Workers : worker[w].pc = "fetch" => \E q \in Readers : queue[q].sub = worker[w].sub
    BY DEF QueueInv
  <2> QED
    BY <2>1, <2>2, <2>3 DEF QueuesHandOver
<1> QED
  BY <1>1, <1>2, InitTypeOK, NextTypeOK, NextQueueInv, PTL DEF Spec

-----------------------------------------------------------------------------
(***************************************************************************)
(* Announcements.                                                          *)
(***************************************************************************)
\* Who will announce id: the fiber that committed it, or the file reader after
\* its last hint, unless it failed on one.
Owed(id) ==
    \/ id \in local
    \/ \E p \in Readers : rd[p].pc = "emit" /\ id <= rd[p].max
    \/ (OnHint("file") \/ rd["file"].pc = "dead") /\ id <= rd["file"].max

\* What was announced or owed is, and so is what is added, itself or by its number.
LEMMA AnnouncedKept ==
  ASSUME TypeOK, TypeOK', Announced, bootLen' = bootLen, latest <= latest',
         \A id \in Nat : Owed(id) => id <= latest' \/ Owed(id)',
         \/ Len(db'.file) = Len(db.file)
         \/ \E id \in Nat : /\ id <= Len(db.file) + 1 /\ Len(db'.file) \in {Len(db.file), id}
                          /\ Owed(id)'
  PROVE  Announced'
<1>1. /\ bootLen \in Nat /\ Len(db.file) \in Nat /\ Len(db'.file) \in Nat
      /\ latest \in Nat /\ latest' \in Nat
  BY IndexTyped DEF TypeOK, TablesOK
<1>2. ASSUME NEW id \in (bootLen + 1)..Len(db.file) PROVE id <= latest' \/ Owed(id)'
  <2>1. id <= latest \/ Owed(id)
    BY DEF Announced, Owed
  <2>2. id \in Nat
    BY <1>1
  <2> QED
    BY <1>1, <2>1, <2>2
<1>3. \/ Len(db'.file) = Len(db.file)
      \/ \E new \in Nat : new <= Len(db.file) + 1 /\ Len(db'.file) = new /\ Owed(new)'
  OBVIOUS
<1>4. ASSUME NEW id \in (bootLen + 1)..Len(db'.file) PROVE id <= latest' \/ Owed(id)'
  <2>1. CASE id <= Len(db.file)
    BY <1>1, <1>2, <2>1
  <2>2. CASE id > Len(db.file)
    BY <1>1, <1>3, <2>2
  <2> QED
    BY <1>1, <2>1, <2>2
<1> QED
  BY <1>4 DEF Announced, Owed

\* Every step keeps what is owed, or announces it.
LEMMA NextAnnounced == TypeOK /\ TypeOK' /\ Announced /\ [Next]_vars => Announced'
<1> SUFFICES ASSUME TypeOK, TypeOK', Announced, [Next]_vars PROVE Announced'
  OBVIOUS
<1>1. /\ ReadersOK /\ Readers = {"file", "meta"} /\ latest \in Nat /\ latest' \in Nat
      /\ local \subseteq Nat /\ \A p \in Readers : rd[p].max \in Nat
  BY DEF TypeOK, TablesOK, Readers, ReadersOK, Fibers
\* A reader that moves keeps what it owes; the others owe what they did.
<1>2. ASSUME NEW p \in Readers, Moves(p, rd'[p]), local' = local,
             rd[p].pc = "emit" => rd'[p].pc = "emit" /\ rd'[p].max = rd[p].max,
             (p = "file" /\ (OnHint(p) \/ rd[p].pc = "dead"))
                 => \A id \in Nat : id <= rd[p].max => Owed(id)'
      PROVE  \A id \in Nat : Owed(id) => Owed(id)'
  <2> SUFFICES ASSUME NEW id \in Nat, Owed(id) PROVE Owed(id)'
    OBVIOUS
  <2>1. CASE id \in local
    BY <1>2, <2>1 DEF Owed
  <2>2. ASSUME NEW o \in Readers, rd[o].pc = "emit", id <= rd[o].max PROVE Owed(id)'
    <3>1. rd'[o].pc = "emit" /\ rd'[o].max = rd[o].max
      BY <1>2, <2>2 DEF Moves
    <3> QED
      BY <2>2, <3>1 DEF Owed
  <2>3. CASE (OnHint("file") \/ rd["file"].pc = "dead") /\ id <= rd["file"].max
    <3>1. CASE p = "file"
      BY <1>2, <2>3, <3>1
    <3>2. CASE p = "meta"
      <4>1. rd'["file"] = rd["file"]
        BY <1>1, <1>2, <3>2 DEF Moves
      <4> QED
        BY <2>3, <4>1 DEF Owed, OnHint
    <3> QED
      BY <1>1, <3>1, <3>2
  <2> QED
    BY <2>1, <2>2, <2>3 DEF Owed
<1>3. ASSUME rd' = rd, local \subseteq local' PROVE \A id \in Nat : Owed(id) => Owed(id)'
  BY <1>3 DEF Owed, OnHint
<1>4. ASSUME db' = db, latest' = latest, bootLen' = bootLen, \A id \in Nat : Owed(id) => Owed(id)'
      PROVE  Announced'
  BY <1>1, <1>4, AnnouncedKept
<1>5. ASSUME NEW p \in Readers, Start(p) PROVE Announced'
  <2>1. Moves(p, rd'[p]) /\ rd[p].pc = "start"
    BY <1>5, ReaderSteps DEF Start
  <2>2. \A id \in Nat : Owed(id) => Owed(id)'
    BY <1>2, <1>5, <2>1 DEF Start, OnHint
  <2> QED
    BY <1>4, <1>5, <2>2 DEF Start, tables
<1>6. ASSUME NEW p \in Readers, Enqueue(p) \/ Dequeue(p) PROVE Announced'
  <2>1. PICK pc \in Busy : /\ Moves(p, [rd[p] EXCEPT !.pc = pc]) /\ rd[p].pc \in Busy
                           /\ rd[p].pc \in OnDep => pc \in OnDep
    BY <1>6, ReaderSteps DEF Enqueue, Dequeue, Busy, OnDep
  <2>2. rd'[p].max = rd[p].max /\ rd'[p].pc = pc /\ Moves(p, rd'[p])
    BY <2>1 DEF Moves, TypeOK, ReadersOK, Fibers
  <2>3. rd[p].pc \notin {"emit", "dead"} /\ (OnHint(p) => OnHint(p)')
    BY <2>1, <2>2 DEF Busy, OnDep, OnHint
  <2>4. p = "file" /\ OnHint(p) => \A id \in Nat : id <= rd[p].max => Owed(id)'
    BY <2>2, <2>3 DEF Owed, OnHint
  <2>5. UNCHANGED <<tables, latest, local, bootLen>>
    BY <1>6 DEF Enqueue, Dequeue
  <2>6. \A id \in Nat : Owed(id) => Owed(id)'
    BY <1>2, <2>2, <2>3, <2>4, <2>5
  <2> QED
    BY <1>4, <2>5, <2>6 DEF tables
<1>7. CASE ReadFile
  <2>1. Moves("file", rd'["file"])
    <3>1. DOMAIN Lines("file") = DOMAIN FileLines
      BY DEF Lines
    <3> QED
      BY <1>1, <1>7, <3>1, FileRead, Continued, Ingested
  <2>2. \A id \in Nat : Owed(id) => Owed(id)'
    BY <1>1, <1>2, <1>7, <2>1 DEF ReadFile, OnHint
  <2> QED
    BY <1>4, <1>7, <2>2 DEF ReadFile, tables
<1>8. CASE ReadMeta
  <2> DEFINE i == rd["meta"].next
             u == MetaLines[i][1]
             t == MetaLines[i][2]
  <2>1. i \in DOMAIN MetaLines /\ (PassMeta(u, t) \/ AddHint(u, t))
    BY <1>8, LineRead
  <2>2. i \in DOMAIN Lines("meta") /\ Submission(u, t) = LineSub("meta", i)
    BY <2>1 DEF Lines, LineSub
  <2> HIDE DEF u, t
  <2>3. Continue("meta") \/ Ingest("meta", Submission(u, t)) \/ Die("meta")
    BY <2>1 DEF PassMeta, AddHint
  <2>4. Moves("meta", rd'["meta"])
    BY <1>1, <2>2, <2>3, Continued, Ingested, Died
  <2>5. \A id \in Nat : Owed(id) => Owed(id)'
    BY <1>1, <1>2, <1>8, <2>4 DEF ReadMeta
  <2> QED
    BY <1>4, <1>8, <2>5 DEF ReadMeta
<1>9. CASE StoreMeta
  <2>1. PICK id \in 1..Len(db'.file) :
          /\ id <= Len(db.file) + 1 /\ Len(db'.file) \in {Len(db.file), id} /\ Commit("meta", id)
    BY <1>9, StoredMeta
  <2>2. id \in Nat
    BY IndexTyped DEF TypeOK, TablesOK
  <2>3. Moves("meta", rd'["meta"]) /\ rd'["meta"].pc = "emit" /\ rd'["meta"].max = id
    BY <1>1, <2>1, <2>2, Committed
  <2>4. rd["meta"].pc = "store" /\ local' = local /\ latest' = latest /\ bootLen' = bootLen
    BY <1>9 DEF StoreMeta
  <2>5. \A o \in Nat : Owed(o) => Owed(o)'
    BY <1>1, <1>2, <2>3, <2>4
  <2>6. Owed(id)'
    BY <1>1, <2>2, <2>3 DEF Owed
  <2> QED
    BY <1>1, <2>1, <2>2, <2>4, <2>5, <2>6, AnnouncedKept
<1>10. ASSUME NEW doc \in LocalDocs, Local(doc) PROVE Announced'
  <2>1. PICK id \in 1..Len(db'.file) :
          /\ id <= Len(db.file) + 1 /\ Len(db'.file) \in {Len(db.file), id}
          /\ local' = local \cup {id}
    BY <1>10, StoredLocal
  <2>2. id \in Nat
    BY IndexTyped DEF TypeOK, TablesOK
  <2>3. rd' = rd /\ latest' = latest /\ bootLen' = bootLen
    BY <1>10 DEF Local, fibers
  <2>4. Owed(id)' /\ \A o \in Nat : Owed(o) => Owed(o)'
    BY <1>3, <2>1, <2>3 DEF Owed
  <2> QED
    BY <1>1, <2>1, <2>2, <2>3, <2>4, AnnouncedKept
<1>11. CASE StoreFile
  <2> DEFINE u == PrimaryOf[rd["file"].sub.hash]
  <2>1. u \in URIs
    BY <1>11, StoredFile
  <2>2. PICK id \in 1..Len(db'.file), f \in DOMAIN db'.file, max \in Nat :
          /\ id <= Len(db.file) + 1 /\ Len(db'.file) \in {Len(db.file), id}
          /\ id <= max /\ rd["file"].max <= max
          /\ NextHint(f, u, max) \/ LastHint(f, u, max)
    BY <1>11, StoredFile
  <2>3. id \in Nat
    BY IndexTyped DEF TypeOK, TablesOK
  <2>4. /\ rd["file"].pc \in {"store", "depstore"} /\ rd["file"].pc \in Busy
        /\ bootLen' = bootLen /\ latest' = latest /\ local' = local
    BY <1>11 DEF StoreFile, Busy, OnDep
  <2> HIDE DEF u
  <2>5. Moves("file", rd'["file"]) /\ rd'["file"].pc \in {"depenqueue", "emit"} /\ rd'["file"].max = max
    <3>1. NextHint(f, u, max) => Moves("file", rd'["file"]) /\ rd'["file"].pc = "depenqueue" /\ rd'["file"].max = max
      BY <2>1, <2>4, NextHintIs
    <3>2. LastHint(f, u, max) => Moves("file", rd'["file"]) /\ rd'["file"].pc = "emit" /\ rd'["file"].max = max
      BY <1>1, Committed DEF LastHint
    <3> QED
      BY <2>2, <3>1, <3>2
  <2>6. \A o \in Nat : o <= max => Owed(o)'
    BY <1>1, <2>5 DEF Owed, OnHint
  <2>7. \A o \in Nat : o <= rd["file"].max => Owed(o)'
    BY <1>1, <2>2, <2>6
  <2>8. \A o \in Nat : Owed(o) => Owed(o)'
    BY <1>1, <1>2, <2>4, <2>5, <2>7
  <2> QED
    BY <1>1, <2>2, <2>3, <2>4, <2>6, <2>8, AnnouncedKept
<1>12. ASSUME NEW p \in Readers, Emit(p) PROVE Announced'
  <2>1. /\ rd[p].pc = "emit" /\ local' = local /\ bootLen' = bootLen /\ db' = db
        /\ latest' = IF rd[p].max > latest THEN rd[p].max ELSE latest
    BY <1>12 DEF Emit, Announce, tables
  <2>2. latest <= latest' /\ rd[p].max <= latest'
    BY <1>1, <2>1
  <2>3. Moves(p, rd'[p])
    BY <1>1, <1>12, Emitted
  <2>4. ASSUME NEW id \in Nat, Owed(id), ~(id <= latest') PROVE Owed(id)'
    <3>1. \A o \in Readers : rd[o].pc = "emit" /\ id <= rd[o].max => rd'[o] = rd[o]
      <4>1. ~(id <= rd[p].max)
        BY <1>1, <2>2, <2>4
      <4> QED
        BY <2>3, <4>1 DEF Moves
    <3>2. (OnHint("file") \/ rd["file"].pc = "dead") => rd'["file"] = rd["file"]
      BY <1>1, <2>1, <2>3 DEF Moves, OnHint
    <3>3. CASE id \in local
      BY <2>1, <3>3 DEF Owed
    <3>4. ASSUME NEW o \in Readers, rd[o].pc = "emit", id <= rd[o].max PROVE Owed(id)'
      BY <3>1, <3>4 DEF Owed
    <3>5. CASE (OnHint("file") \/ rd["file"].pc = "dead") /\ id <= rd["file"].max
      BY <3>2, <3>5 DEF Owed, OnHint
    <3> QED
      BY <2>4, <3>3, <3>4, <3>5 DEF Owed
  <2> QED
    BY <2>1, <2>2, <2>4, AnnouncedKept
<1>13. ASSUME NEW new \in local, EmitLocal(new) PROVE Announced'
  <2>1. /\ rd' = rd /\ local' = local \ {new} /\ bootLen' = bootLen /\ db' = db
        /\ latest' = IF new > latest THEN new ELSE latest
    BY <1>13 DEF EmitLocal, Announce, fibers, tables
  <2>2. latest <= latest' /\ new <= latest'
    BY <1>1, <2>1
  <2>3. \A id \in Nat : Owed(id) => id <= latest' \/ Owed(id)'
    BY <2>1, <2>2 DEF Owed, OnHint
  <2> QED
    BY <2>1, <2>2, <2>3, AnnouncedKept
<1>14. ASSUME NEW p \in Readers, ReaderFails(p) PROVE Announced'
  <2>1. Moves(p, rd'[p]) /\ rd'[p].pc = "dead" /\ rd'[p].max = rd[p].max /\ rd[p].pc # "emit"
    BY <1>1, <1>14, Died DEF ReaderFails
  <2>2. UNCHANGED <<tables, latest, local, bootLen>>
    BY <1>14 DEF ReaderFails
  <2>3. p = "file" => \A id \in Nat : id <= rd[p].max => Owed(id)'
    BY <2>1 DEF Owed
  <2>4. \A id \in Nat : Owed(id) => Owed(id)'
    BY <1>2, <2>1, <2>2, <2>3
  <2> QED
    BY <1>4, <2>2, <2>4 DEF tables
<1>15. ASSUME NEW w \in Workers, WorkAwait(w) \/ WorkDone(w) \/ WorkerFails(w) PROVE Announced'
  <2>1. UNCHANGED <<db, latest, local, bootLen, rd>>
    BY <1>15 DEF WorkAwait, WorkDone, WorkerFails, tables
  <2> QED
    BY <1>3, <1>4, <2>1
<1>16. CASE Crash
  <2>1. bootLen' = Len(db'.file) /\ bootLen' \in Nat
    BY <1>16, IndexTyped DEF Crash, tables, TypeOK, TablesOK
  <2> QED
    BY <2>1 DEF Announced
<1>17. CASE UNCHANGED vars
  BY <1>3, <1>4, <1>17 DEF vars
<1> QED
  BY <1>5, <1>6, <1>7, <1>8, <1>9, <1>10, <1>11, <1>12, <1>13, <1>14, <1>15, <1>16, <1>17
     DEF Next, Step, Fail

\* A file that is committed and not announced is still to be announced, by the
\* fiber that committed it or by the file reader after its last hint; only what
\* that reader stored for the line it failed on is left behind
\* (SLNRepoSubmissionEmit, in SLNSyncStoreSubmission and SLNSubmissionStoreBatch).
THEOREM AnnouncementsKept == Spec => []Announced
<1>1. Init => Announced
  BY DEF Init, EmptyDB, Announced
<1> QED
  BY <1>1, InitTypeOK, NextTypeOK, NextAnnounced, PTL DEF Spec

-----------------------------------------------------------------------------
(***************************************************************************)
(* The lines and the hints.                                                *)
(***************************************************************************)
\* What line i of a list names is stored, or noted as a hint.
Passed(p, i) ==
    IF p = "file" THEN Resolvable(db, FileLines[i])
    ELSE Resolvable(db, MetaLines[i][1]) \/ \E j \in DOMAIN hints : hints[j] = MetaLines[i]

\* Every line behind a reader, or behind where it would resume, is passed.
LinesPassed ==
    \A p \in Readers :
        /\ \A i \in 1..(Resume(p) - 1) : Passed(p, i)
        /\ rd[p].pc \notin {"start", "dead"} => \A i \in 1..(rd[p].next - 1) : Passed(p, i)

\* A hint is a line of the meta-files.
HintsNoted == \A j \in DOMAIN hints : \E i \in DOMAIN MetaLines : hints[j] = MetaLines[i]

\* The file reader at a hint of its file has stored the file, and its earlier hints.
HintsFetched ==
    LET r == rd["file"]
        u == FileLines[r.next]
    IN  /\ r.pc \notin OnDep => r.hint = 0
        /\ r.pc \in OnDep =>
              /\ r.hint \in DOMAIN hints
              /\ r.dep = Submission(hints[r.hint][1], u)
              /\ Resolvable(db, u)
              /\ \A f \in DOMAIN db.file, j \in DOMAIN hints :
                    Resolves(db, u, f) /\ <<hints[j][2], f>> \in db.uri /\ j < r.hint
                        => Resolvable(db, hints[j][1])

PullInv == LinesPassed /\ HintsNoted /\ HintsFetched /\ HintsComplete

\* A URI that is there resolves to a file, the oldest of those that bear it.
LEMMA ResolvesOne ==
  ASSUME NEW d, IndexOK(d), NEW u, Resolvable(d, u)
  PROVE  \E f \in DOMAIN d.file : Resolves(d, u, f)
<1>1. /\ DOMAIN d.file \subseteq Nat /\ \A row \in d.uri : row = <<row[1], row[2]>> /\ row[2] \in DOMAIN d.file
  BY IndexTyped
<1> DEFINE F == {f \in DOMAIN d.file : <<u, f>> \in d.uri}
<1>2. F \subseteq Nat /\ F # {}
  BY <1>1 DEF Resolvable
<1>3. PICK f \in F : \A o \in F : f <= o
  <2> HIDE DEF F
  <2> QED
    BY <1>2, Least
<1>4. Resolves(d, u, f)
  BY <1>1, <1>3 DEF Resolves
<1> QED
  BY <1>3, <1>4

\* Tables that stay as they are.
LEMMA GrowsSame == ASSUME NEW d, IndexOK(d) PROVE Grows(d, d)
  BY IndexTyped DEF Grows

\* A URI that is there stays there, and names what it named.
LEMMA ResolvableKept ==
  ASSUME NEW d, NEW e, Grows(d, e), NEW u
  PROVE  /\ Resolvable(d, u) => Resolvable(e, u)
         /\ IndexOK(d) /\ u \in URIs /\ Resolvable(d, u)
               => \A f : Resolves(e, u, f) => Resolves(d, u, f)
<1>1. Resolvable(d, u) => Resolvable(e, u)
  BY DEF Grows, Resolvable
<1>2. ASSUME IndexOK(d), u \in URIs, Resolvable(d, u), NEW f, Resolves(e, u, f)
      PROVE  Resolves(d, u, f)
  <2>1. PICK o \in DOMAIN d.file : Resolves(d, u, o)
    BY <1>2, ResolvesOne
  <2>2. Resolves(e, u, o) /\ IndexOK(e)
    BY <1>2, <2>1 DEF Grows
  <2>3. f = o
    BY <1>2, <2>2, ResolvesOnce
  <2> QED
    BY <2>1, <2>3
<1> QED
  BY <1>1, <1>2

\* The hints stay, and one may be added.
HintsGrow ==
    \/ hints' = hints
    \/ \E i \in DOMAIN MetaLines : hints' = Append(hints, MetaLines[i]) /\ ~HintsSynced(MetaLines[i][2])

\* A hint keeps its ID.
LEMMA HintsKept ==
  ASSUME TablesOK, HintsGrow
  PROVE  /\ \A j \in DOMAIN hints : j \in DOMAIN hints' /\ hints'[j] = hints[j] /\ j \in Nat
         /\ \A j \in DOMAIN hints' \ DOMAIN hints :
               /\ j \in Nat /\ \A k \in DOMAIN hints : k < j
               /\ \E i \in DOMAIN MetaLines : hints'[j] = MetaLines[i] /\ ~HintsSynced(MetaLines[i][2])
<1>1. hints \in Seq(URIs \X URIs) /\ Len(hints) \in Nat /\ DOMAIN hints = 1..Len(hints)
  BY DEF TablesOK
<1>2. CASE hints' = hints
  BY <1>1, <1>2
<1>3. ASSUME NEW i \in DOMAIN MetaLines, hints' = Append(hints, MetaLines[i]), ~HintsSynced(MetaLines[i][2])
      PROVE  /\ \A j \in DOMAIN hints : j \in DOMAIN hints' /\ hints'[j] = hints[j] /\ j \in Nat
             /\ \A j \in DOMAIN hints' \ DOMAIN hints :
                   /\ j \in Nat /\ \A k \in DOMAIN hints : k < j
                   /\ \E o \in DOMAIN MetaLines : hints'[j] = MetaLines[o] /\ ~HintsSynced(MetaLines[o][2])
  <2>1. MetaLines[i] \in URIs \X URIs
    BY LinesTyped
  <2>2. DOMAIN hints' = 1..(Len(hints) + 1)
    BY <1>1, <1>3, <2>1
  <2>3. \A j \in 1..Len(hints) : hints'[j] = hints[j]
    BY <1>1, <1>3, <2>1
  <2>4. hints'[Len(hints) + 1] = MetaLines[i]
    BY <1>1, <1>3, <2>1
  <2>5. \A j \in DOMAIN hints' \ DOMAIN hints : j = Len(hints) + 1
    BY <1>1, <2>2
  <2> QED
    BY <1>1, <1>3, <2>2, <2>3, <2>4, <2>5
<1> QED
  BY <1>2, <1>3 DEF HintsGrow

\* What is passed stays passed.
LEMMA PassedKept ==
  ASSUME TablesOK, HintsGrow, Grows(db, db'), NEW p, NEW i, Passed(p, i)
  PROVE  Passed(p, i)'
<1>1. \A u : Resolvable(db, u) => Resolvable(db', u)
  BY ResolvableKept
<1>2. \A j \in DOMAIN hints : j \in DOMAIN hints' /\ hints'[j] = hints[j]
  BY HintsKept
<1> QED
  BY <1>1, <1>2 DEF Passed

\* Where both readers would resume.
ResumesBehind ==
    \A p \in Readers :
        /\ Resume(p) \in Nat
        /\ \A i \in DOMAIN Lines(p) : LineURI(p, i) = last[p] => Resume(p) <= i + 1

LEMMA ResumesRight == TablesOK => ResumesBehind
  BY ResumeRight, LinesTyped DEF ResumesBehind

\* A reader, or what is recorded, moves past a line that is passed.
LEMMA LinesPassedKept ==
  ASSUME TablesOK, TablesOK', LinesPassed, HintsGrow, Grows(db, db'),
         \A p \in Readers :
            \/ last'[p] = last[p]
            \/ \E i \in DOMAIN Lines(p) : last'[p] = LineURI(p, i) /\ \A k \in 1..i : Passed(p, k)',
         \A p \in Readers : rd'[p].pc \notin {"start", "dead"} =>
            \A i \in 1..(rd'[p].next - 1) : Passed(p, i) \/ Passed(p, i)'
  PROVE  LinesPassed'
<1>1. ASSUME NEW p \in Readers, NEW i \in 1..(Resume(p)' - 1) PROVE Passed(p, i)'
  <2>1. CASE last'[p] = last[p]
    <3>1. Resume(p)' = Resume(p)
      BY <2>1 DEF Resume
    <3> QED
      BY <1>1, <3>1, PassedKept DEF LinesPassed
  <2>2. ASSUME NEW n \in DOMAIN Lines(p), last'[p] = LineURI(p, n), \A k \in 1..n : Passed(p, k)'
        PROVE  Passed(p, i)'
    <3>1. ResumesBehind'
      BY ResumesRight, PTL
    <3>2. Resume(p)' \in Nat /\ Resume(p)' <= n + 1 /\ n \in Nat
      BY <2>2, <3>1, LinesTyped DEF ResumesBehind
    <3>3. i \in 1..n
      BY <1>1, <3>2
    <3> QED
      BY <2>2, <3>3
  <2> QED
    BY <2>1, <2>2
<1>2. ASSUME NEW p \in Readers, rd'[p].pc \notin {"start", "dead"}, NEW i \in 1..(rd'[p].next - 1)
      PROVE  Passed(p, i)'
  BY <1>2, PassedKept
<1> QED
  BY <1>1, <1>2 DEF LinesPassed

\* A hint that is added is a line.
LEMMA HintsNotedKept == ASSUME TablesOK, HintsNoted, HintsGrow PROVE HintsNoted'
<1>1. ASSUME NEW j \in DOMAIN hints' PROVE \E i \in DOMAIN MetaLines : hints'[j] = MetaLines[i]
  BY HintsKept DEF HintsNoted
<1> QED
  BY <1>1 DEF HintsNoted

\* The meta-files' reader, the workers and other clients leave the file reader
\* at its hint; the hints that are added are later ones.
LEMMA HintsFetchedKept ==
  ASSUME TypeOK, TypeOK', HintsFetched, HintsGrow, Grows(db, db'),
         \/ rd'["file"].pc \notin OnDep /\ rd'["file"].hint = 0
         \/ /\ rd["file"].pc \in OnDep /\ rd'["file"].pc \in OnDep
            /\ rd'["file"].next = rd["file"].next /\ rd'["file"].dep = rd["file"].dep
            /\ rd'["file"].hint = rd["file"].hint
  PROVE  HintsFetched'
<1> DEFINE i == rd["file"].next
           h == rd["file"].hint
           u == FileLines[i]
<1>1. CASE rd'["file"].pc \notin OnDep /\ rd'["file"].hint = 0
  BY <1>1 DEF HintsFetched
<1>2. CASE /\ rd["file"].pc \in OnDep /\ rd'["file"].pc \in OnDep
           /\ rd'["file"].next = rd["file"].next /\ rd'["file"].dep = rd["file"].dep
           /\ rd'["file"].hint = rd["file"].hint
  <2>1. u \in URIs
    BY <1>2, LinesTyped DEF TypeOK, ReadersOK, ReaderOK, Readers, Busy, Lines
  <2>2. /\ h \in DOMAIN hints /\ rd["file"].dep = Submission(hints[h][1], u) /\ Resolvable(db, u)
        /\ \A f \in DOMAIN db.file, j \in DOMAIN hints :
              Resolves(db, u, f) /\ <<hints[j][2], f>> \in db.uri /\ j < h => Resolvable(db, hints[j][1])
    BY <1>2 DEF HintsFetched
  <2>3. TablesOK /\ IndexOK(db) /\ hints \in Seq(URIs \X URIs)
    BY DEF TypeOK, TablesOK
  <2> HIDE DEF u, h, i
  <2>4. h \in DOMAIN hints' /\ hints'[h] = hints[h] /\ Resolvable(db', u)
    BY <2>2, <2>3, HintsKept, ResolvableKept
  <2>5. ASSUME NEW f \in DOMAIN db'.file, NEW j \in DOMAIN hints',
               Resolves(db', u, f), <<hints'[j][2], f>> \in db'.uri, j < h
        PROVE  Resolvable(db', hints'[j][1])
    <3>1. Resolves(db, u, f) /\ f \in DOMAIN db.file
      <4>1. Resolves(db, u, f)
        BY <2>1, <2>2, <2>3, <2>5, ResolvableKept
      <4> QED
        BY <2>3, <4>1, IndexTyped DEF Resolves
    <3>2. j \in DOMAIN hints /\ hints'[j] = hints[j]
      <4>1. j \in DOMAIN hints
        BY <2>2, <2>3, <2>5, HintsKept
      <4> QED
        BY <2>3, <4>1, HintsKept
    <3>3. hints[j][2] \in URIs
      BY <2>3, <3>2
    <3>4. <<hints[j][2], f>> \in db.uri
      BY <2>5, <3>1, <3>2, <3>3 DEF Grows
    <3> QED
      BY <2>2, <2>5, <3>1, <3>2, <3>4, ResolvableKept
  <2> QED
    BY <1>2, <2>2, <2>4, <2>5 DEF HintsFetched, h, u, i
<1> QED
  BY <1>1, <1>2

\* The files that have synced have all their hints still.
LEMMA HintsCompleteKept ==
  ASSUME TypeOK, HintsComplete, HintsGrow, Grows(db, db'),
         NEW f \in synced, NEW j \in DOMAIN hints', Resolves(db', hints'[j][2], f)
  PROVE  Resolvable(db', hints'[j][1])
<1>1. /\ TablesOK /\ IndexOK(db) /\ hints \in Seq(URIs \X URIs) /\ f \in DOMAIN db.file
  BY DEF TypeOK, TablesOK
<1>2. CASE j \in DOMAIN hints
  <2>1. hints'[j] = hints[j] /\ hints[j][2] \in URIs
    BY <1>1, <1>2, HintsKept
  <2>2. Resolves(db, hints[j][2], f)
    BY <1>1, <2>1 DEF Grows
  <2>3. Resolvable(db, hints[j][1])
    BY <1>2, <2>2 DEF HintsComplete
  <2> QED
    BY <2>1, <2>3, ResolvableKept
<1>3. CASE j \notin DOMAIN hints
  <2>1. PICK i \in DOMAIN MetaLines : hints'[j] = MetaLines[i] /\ ~HintsSynced(MetaLines[i][2])
    BY <1>1, <1>3, HintsKept
  <2>2. hints'[j][2] \in URIs
    BY <2>1, LinesTyped
  <2>3. Resolves(db, hints'[j][2], f)
    BY <1>1, <2>2 DEF Grows
  <2> QED
    BY <2>1, <2>3 DEF HintsSynced
<1> QED
  BY <1>2, <1>3

\* A step that neither stores a file for its reader nor gives it another hint.
LEMMA PullInvKept ==
  ASSUME TypeOK, TypeOK', PullInv, HintsGrow, Grows(db, db'), synced' = synced,
         \A p \in Readers :
            \/ last'[p] = last[p]
            \/ \E i \in DOMAIN Lines(p) : last'[p] = LineURI(p, i) /\ \A k \in 1..i : Passed(p, k)',
         \A p \in Readers : rd'[p].pc \notin {"start", "dead"} =>
            \A i \in 1..(rd'[p].next - 1) : Passed(p, i) \/ Passed(p, i)',
         \/ rd'["file"].pc \notin OnDep /\ rd'["file"].hint = 0
         \/ /\ rd["file"].pc \in OnDep /\ rd'["file"].pc \in OnDep
            /\ rd'["file"].next = rd["file"].next /\ rd'["file"].dep = rd["file"].dep
            /\ rd'["file"].hint = rd["file"].hint
  PROVE  PullInv'
<1>1. TablesOK /\ TablesOK' /\ LinesPassed /\ HintsNoted /\ HintsFetched /\ HintsComplete
  BY DEF TypeOK, PullInv
<1>2. LinesPassed'
  BY <1>1, LinesPassedKept
<1>3. HintsNoted'
  BY <1>1, HintsNotedKept
<1>4. HintsFetched'
  BY <1>1, HintsFetchedKept
<1>5. HintsComplete'
  <2>1. \A f \in synced, j \in DOMAIN hints' : Resolves(db', hints'[j][2], f) => Resolvable(db', hints'[j][1])
    BY <1>1, HintsCompleteKept
  <2> QED
    BY <2>1 DEF HintsComplete
<1> QED
  BY <1>2, <1>3, <1>4, <1>5 DEF PullInv

\* What the file reader just stored is there: its line, and the hint it was at.
\* So are the earlier hints of its file, and those it passes over now.
LEMMA FileStored ==
  ASSUME TypeOK, PullInv, StoreFile
  PROVE  LET r == rd["file"]
             u == FileLines[r.next]
         IN  /\ Resolvable(db', u)
             /\ r.pc \in OnDep => r.hint \in Nat \ {0}
             /\ \A f : \A j \in DOMAIN hints :
                   Resolves(db', u, f) /\ <<hints[j][2], f>> \in db'.uri /\ j <= r.hint
                      => Resolvable(db', hints[j][1])
<1> DEFINE r == rd["file"]
           u == FileLines[r.next]
           h == rd["file"].hint
<1>1. /\ u = PrimaryOf[r.sub.hash] /\ u \in URIs /\ u \in URIsOf[r.sub.hash] /\ r.next \in DOMAIN FileLines
      /\ Grows(db, db') /\ IndexOK(db')
      /\ \A v \in URIsOf[Posted("file").hash] : Resolvable(db', v)
  BY StoredFile
<1>2. r.pc = "store" \/ r.pc = "depstore"
  BY DEF StoreFile
<1>3. /\ TablesOK /\ IndexOK(db) /\ hints \in Seq(URIs \X URIs) /\ HintsFetched
      /\ DOMAIN hints \subseteq Nat \ {0}
  BY DEF TypeOK, TablesOK, PullInv
<1>4. CASE r.pc = "store"
  <2>1. Posted("file") = r.sub /\ r.pc \notin OnDep
    BY <1>4 DEF Posted, OnHint, OnDep
  <2>2. h = 0
    BY <1>3, <2>1 DEF HintsFetched
  <2>3. \A j \in DOMAIN hints : ~(j <= h)
    BY <1>3, <2>2
  <2> QED
    BY <1>1, <2>1, <2>3
<1>5. CASE r.pc = "depstore"
  <2>1. Posted("file") = r.dep /\ r.pc \in OnDep
    BY <1>5 DEF Posted, OnHint, OnDep
  <2>2. /\ h \in DOMAIN hints /\ r.dep = Submission(hints[h][1], u) /\ Resolvable(db, u)
        /\ \A f \in DOMAIN db.file, j \in DOMAIN hints :
              Resolves(db, u, f) /\ <<hints[j][2], f>> \in db.uri /\ j < h => Resolvable(db, hints[j][1])
    BY <1>3, <2>1 DEF HintsFetched
  <2> HIDE DEF u, h
  <2>3. Resolvable(db', hints[h][1])
    <3>1. PICK i \in DOMAIN MetaLines : hints[h] = MetaLines[i]
      BY <2>2 DEF PullInv, HintsNoted
    <3>2. hints[h][1] \in URIs /\ Served[hints[h][1]] \in Hashes /\ PrimaryOf[Served[hints[h][1]]] = hints[h][1]
      BY <3>1, LinesTyped, RemoteAssumption, SyncAssumption
    <3>3. r.dep.hash = Served[hints[h][1]]
      BY <2>2 DEF Submission
    <3>4. hints[h][1] \in URIsOf[Posted("file").hash]
      BY <2>1, <3>2, <3>3, SyncAssumption
    <3> QED
      BY <1>1, <3>4
  <2>4. ASSUME NEW f, NEW j \in DOMAIN hints, Resolves(db', u, f), <<hints[j][2], f>> \in db'.uri, j <= h
        PROVE  Resolvable(db', hints[j][1])
    <3>1. CASE j = h
      BY <2>3, <3>1
    <3>2. CASE j < h
      <4>1. Resolves(db, u, f)
        BY <1>1, <1>3, <2>2, <2>4, ResolvableKept
      <4>2. f \in DOMAIN db.file
        BY <1>3, <4>1, IndexTyped DEF Resolves
      <4>3. hints[j][2] \in URIs
        BY <1>3
      <4>4. <<hints[j][2], f>> \in db.uri
        BY <1>1, <2>4, <4>2, <4>3 DEF Grows
      <4> QED
        BY <1>1, <2>2, <3>2, <4>1, <4>2, <4>4, ResolvableKept
    <3> QED
      BY <1>3, <2>2, <2>4, <3>1, <3>2
  <2>5. Resolvable(db', u)
    BY <1>1, <2>2, ResolvableKept
  <2> QED
    BY <1>3, <2>2, <2>4, <2>5 DEF u, h
<1> QED
  BY <1>2, <1>4, <1>5

\* The file reader stores: another hint is next, or the file has synced them all.
LEMMA StoreFilePullInv == ASSUME TypeOK, TypeOK', PullInv, StoreFile PROVE PullInv'
<1> PICK i : i = rd["file"].next
  OBVIOUS
<1> DEFINE u == FileLines[i]
           h == rd["file"].hint
<1>1. /\ PrimaryOf[rd["file"].sub.hash] = u /\ u \in URIs /\ i \in DOMAIN FileLines
      /\ Grows(db, db') /\ IndexOK(db')
  BY StoredFile
<1>2. PICK f \in DOMAIN db'.file, max \in Nat : Resolves(db', u, f) /\ (NextHint(f, u, max) \/ LastHint(f, u, max))
  BY <1>1, StoredFile
<1>3. /\ TablesOK /\ TablesOK' /\ ReadersOK /\ IndexOK(db) /\ hints \in Seq(URIs \X URIs)
      /\ LinesPassed /\ HintsNoted /\ HintsFetched /\ HintsComplete /\ h \in Nat
      /\ "file" \in Readers /\ "meta" \in Readers
  BY DEF TypeOK, TablesOK, PullInv, ReadersOK, Fibers, Readers
<1>4. hints' = hints /\ HintsGrow /\ rd["file"].pc \in {"store", "depstore"} /\ rd["file"].pc \in Busy
  BY DEF StoreFile, HintsGrow, Busy, OnDep
<1>5. /\ Resolvable(db', u)
      /\ \A j \in DOMAIN hints : <<hints[j][2], f>> \in db'.uri /\ j <= h => Resolvable(db', hints[j][1])
  <2>1. /\ Resolvable(db', u)
        /\ \A o : \A j \in DOMAIN hints :
              Resolves(db', u, o) /\ <<hints[j][2], o>> \in db'.uri /\ j <= h => Resolvable(db', hints[j][1])
    BY FileStored
  <2> HIDE DEF u, h
  <2> QED
    BY <1>2, <2>1
<1>6. HintsNoted'
  BY <1>3, <1>4, HintsNotedKept
<1>7. i \in Nat /\ DOMAIN Lines("file") = DOMAIN FileLines /\ LineURI("file", i) = u
  BY <1>1, LinesTyped DEF Lines, LineURI
<1>8. \A k \in 1..i : Passed("file", k) \/ Passed("file", k)'
  <2>1. \A k \in 1..(i - 1) : Passed("file", k)
    BY <1>3, <1>4 DEF LinesPassed
  <2>2. Passed("file", i)'
    BY <1>5 DEF Passed
  <2> QED
    BY <1>7, <2>1, <2>2
<1>9. \A j \in HintsOf(db', f) : j \notin Missing(db', f, h) => Resolvable(db', hints[j][1])
  BY <1>3, <1>5 DEF HintsOf, Missing
<1> HIDE DEF u, h
<1>10. ASSUME Moves("file", rd'["file"]), rd'["file"].pc \in {"start", "dead"} \/ rd'["file"].next \in {i, i + 1},
              \/ last' = last
              \/ last' = [last EXCEPT !["file"] = u]
       PROVE  LinesPassed'
  <2>1. ASSUME NEW p \in Readers, rd'[p].pc \notin {"start", "dead"}, NEW k \in 1..(rd'[p].next - 1)
        PROVE  Passed(p, k) \/ Passed(p, k)'
    <3>1. CASE p = "file"
      BY <1>7, <1>8, <1>10, <2>1, <3>1
    <3>2. CASE p = "meta"
      BY <1>3, <1>10, <2>1, <3>2 DEF Moves, LinesPassed
    <3> QED
      BY <3>1, <3>2 DEF Readers
  <2>2. \A k \in 1..i : Passed("file", k)'
    BY <1>1, <1>3, <1>4, <1>8, PassedKept
  <2>3. ASSUME NEW p \in Readers
        PROVE  \/ last'[p] = last[p]
               \/ \E n \in DOMAIN Lines(p) : last'[p] = LineURI(p, n) /\ \A k \in 1..n : Passed(p, k)'
    <3>1. last \in [Readers -> URIs \cup {NoURI}]
      BY <1>3 DEF TablesOK
    <3> QED
      BY <1>1, <1>7, <1>10, <2>2, <3>1
  <2> QED
    BY <1>1, <1>3, <1>4, <2>1, <2>3, LinesPassedKept
<1>11. CASE NextHint(f, u, max)
  <2>1. PICK j \in DOMAIN hints :
          /\ j \in Missing(db', f, h)
          /\ \A k \in Missing(db', f, h) : j <= k
          /\ Moves("file", rd'["file"])
          /\ rd'["file"].pc = "depenqueue" /\ rd'["file"].next = i
          /\ rd'["file"].dep = Submission(hints[j][1], u)
          /\ rd'["file"].hint = j
    <3>1. u \in URIs /\ rd["file"].pc \in Busy
      BY <1>1, <1>4
    <3>2. PICK j \in DOMAIN hints :
            /\ j \in Missing(db', f, rd["file"].hint)
            /\ \A k \in Missing(db', f, rd["file"].hint) : j <= k
            /\ ReadersOK' /\ Moves("file", rd'["file"])
            /\ rd'["file"].pc = "depenqueue" /\ rd'["file"].next = rd["file"].next
            /\ rd'["file"].sub = rd["file"].sub
            /\ rd'["file"].dep = Submission(hints[j][1], u)
            /\ rd'["file"].hint = j /\ rd'["file"].max = max
      BY <1>11, <3>1, NextHintIs, Zenon
    <3>3. rd'["file"].next = i
      BY <3>2
    <3> WITNESS j \in DOMAIN hints
    <3> QED
      BY <3>2, <3>3 DEF h
  <2>2. last' = last /\ synced' = synced
    BY <1>11 DEF NextHint
  <2>3. LinesPassed'
    BY <1>10, <2>1, <2>2
  <2>4. HintsComplete'
    <3>1. \A o \in synced, k \in DOMAIN hints' : Resolves(db', hints'[k][2], o) => Resolvable(db', hints'[k][1])
      BY <1>1, <1>3, <1>4, HintsCompleteKept
    <3> QED
      BY <2>2, <3>1 DEF HintsComplete
  <2>5. ASSUME NEW o \in DOMAIN db'.file, NEW k \in DOMAIN hints,
               Resolves(db', u, o), <<hints[k][2], o>> \in db'.uri, k < j
        PROVE  Resolvable(db', hints[k][1])
    <3>1. o = f
      BY <1>1, <1>2, <2>5, ResolvesOnce
    <3>2. k \in HintsOf(db', f) /\ k \in Nat /\ j \in Nat
      BY <1>3, <2>5, <3>1 DEF HintsOf
    <3>3. k \notin Missing(db', f, h)
      BY <2>1, <2>5, <3>2
    <3> QED
      BY <1>9, <3>2, <3>3
  <2>6. HintsFetched'
    <3>1. FileLines[rd'["file"].next] = u
      BY <2>1 DEF u
    <3> QED
      BY <1>4, <1>5, <2>1, <2>5, <3>1 DEF HintsFetched, OnDep
  <2> QED
    BY <1>6, <2>3, <2>4, <2>6 DEF PullInv
<1>12. CASE LastHint(f, u, max)
  <2>1. /\ Missing(db', f, h) = {} /\ synced' = synced \cup {f}
        /\ last' = [last EXCEPT !["file"] = u] /\ Commit("file", max)
    BY <1>12 DEF LastHint, h
  <2>2. /\ Moves("file", rd'["file"]) /\ rd'["file"].pc = "emit"
        /\ rd'["file"].next = i + 1 /\ rd'["file"].hint = 0
    BY <1>2, <1>3, <2>1, Committed
  <2>3. LinesPassed'
    BY <1>10, <2>1, <2>2
  <2>4. ASSUME NEW o \in synced', NEW k \in DOMAIN hints', Resolves(db', hints'[k][2], o)
        PROVE  Resolvable(db', hints'[k][1])
    <3>1. CASE o = f
      <4>1. k \in HintsOf(db', f)
        BY <1>4, <2>4, <3>1 DEF HintsOf, Resolves
      <4> QED
        BY <1>4, <1>9, <2>1, <4>1
    <3>2. CASE o \in synced
      BY <1>1, <1>3, <1>4, <2>4, <3>2, HintsCompleteKept
    <3> QED
      BY <2>1, <2>4, <3>1, <3>2
  <2>5. HintsComplete'
    BY <2>4 DEF HintsComplete
  <2>6. HintsFetched'
    BY <2>2 DEF HintsFetched, OnDep
  <2> QED
    BY <1>6, <2>3, <2>5, <2>6 DEF PullInv
<1> QED
  BY <1>2, <1>11, <1>12

\* Every step keeps the lines and the hints.
LEMMA NextPullInv == TypeOK /\ TypeOK' /\ PullInv /\ [Next]_vars => PullInv'
<1> SUFFICES ASSUME TypeOK, TypeOK', PullInv, [Next]_vars PROVE PullInv'
  OBVIOUS
<1>1. /\ TablesOK /\ ReadersOK /\ "file" \in Readers /\ "meta" \in Readers /\ Grows(db, db)
      /\ LinesPassed /\ last \in [Readers -> URIs \cup {NoURI}]
  BY GrowsSame DEF TypeOK, TablesOK, PullInv, Readers
<1>2. /\ rd["file"].pc \notin OnDep => rd["file"].hint = 0
      /\ rd["meta"].pc \notin OnDep
  BY <1>1 DEF PullInv, HintsFetched, ReadersOK, ReaderOK
<1>3. /\ \A p \in Readers : rd[p].pc \notin {"start", "dead"} =>
            \A i \in 1..(rd[p].next - 1) : Passed(p, i)
      /\ \A p \in Readers : \A i \in 1..(Resume(p) - 1) : Passed(p, i)
  BY <1>1 DEF LinesPassed
\* A step of one reader that stores nothing, to a place behind which all is passed.
<1>4. ASSUME NEW p \in Readers, Moves(p, rd'[p]), UNCHANGED <<tables>>,
             rd'[p].pc \notin {"start", "dead"} => \A i \in 1..(rd'[p].next - 1) : Passed(p, i),
             p = "file" =>
                \/ rd'["file"].pc \notin OnDep /\ rd'["file"].hint = 0
                \/ /\ rd["file"].pc \in OnDep /\ rd'["file"].pc \in OnDep
                   /\ rd'["file"].next = rd["file"].next /\ rd'["file"].dep = rd["file"].dep
                   /\ rd'["file"].hint = rd["file"].hint
      PROVE  PullInv'
  <2>1. db' = db /\ hints' = hints /\ synced' = synced /\ last' = last
    BY <1>4 DEF tables
  <2>2. ASSUME NEW o \in Readers, rd'[o].pc \notin {"start", "dead"}, NEW i \in 1..(rd'[o].next - 1)
        PROVE  Passed(o, i)
    BY <1>3, <1>4, <2>2 DEF Moves
  <2>3. \/ rd'["file"].pc \notin OnDep /\ rd'["file"].hint = 0
        \/ /\ rd["file"].pc \in OnDep /\ rd'["file"].pc \in OnDep
           /\ rd'["file"].next = rd["file"].next /\ rd'["file"].dep = rd["file"].dep
           /\ rd'["file"].hint = rd["file"].hint
    BY <1>1, <1>2, <1>4 DEF Moves
  <2>4. HintsGrow /\ Grows(db, db')
    BY <1>1, <2>1 DEF HintsGrow
  <2> QED
    BY <2>1, <2>2, <2>3, <2>4, PullInvKept
\* The readers stay, and the rest grows.
<1>5. ASSUME rd' = rd, Grows(db, db'), hints' = hints, synced' = synced, last' = last PROVE PullInv'
  <2>1. \/ rd'["file"].pc \notin OnDep /\ rd'["file"].hint = 0
        \/ rd["file"].pc \in OnDep /\ rd'["file"].pc \in OnDep
    BY <1>2, <1>5
  <2>2. HintsGrow
    BY <1>5 DEF HintsGrow
  <2> QED
    BY <1>3, <1>5, <2>1, <2>2, PullInvKept
<1>6. ASSUME NEW p \in Readers, Start(p) PROVE PullInv'
  <2>1. /\ Moves(p, rd'[p]) /\ rd'[p].pc = "read" /\ rd'[p].next = Resume(p) /\ rd'[p].hint = rd[p].hint
        /\ rd[p].pc = "start" /\ UNCHANGED <<tables>>
    BY <1>6, ReaderSteps DEF Start
  <2>2. rd'[p].pc \notin OnDep /\ rd[p].pc \notin OnDep
    BY <2>1 DEF OnDep
  <2>3. p = "file" => rd'["file"].hint = 0
    BY <1>2, <2>1, <2>2
  <2> QED
    BY <1>3, <1>4, <2>1, <2>2, <2>3
<1>7. ASSUME NEW p \in Readers, Enqueue(p) \/ Dequeue(p) PROVE PullInv'
  <2>1. PICK pc \in Busy : /\ Moves(p, [rd[p] EXCEPT !.pc = pc]) /\ rd[p].pc \in Busy
                           /\ pc \in OnDep <=> rd[p].pc \in OnDep
    BY <1>7, ReaderSteps DEF Enqueue, Dequeue, Busy, OnDep
  <2>2. /\ rd'[p].pc = pc /\ rd'[p].next = rd[p].next /\ rd'[p].dep = rd[p].dep
        /\ rd'[p].hint = rd[p].hint /\ Moves(p, rd'[p])
    BY <1>1, <2>1 DEF Moves, ReadersOK, Fibers
  <2>3. UNCHANGED <<tables>>
    BY <1>7 DEF Enqueue, Dequeue
  <2>4. rd[p].pc \notin {"start", "dead"}
    BY <2>1 DEF Busy, OnDep
  <2> QED
    BY <1>2, <1>3, <1>4, <2>1, <2>2, <2>3, <2>4
<1>8. CASE ReadFile
  <2> DEFINE i == rd["file"].next
  <2>1. /\ i \in DOMAIN FileLines /\ i \in Nat /\ rd["file"].pc = "read" /\ UNCHANGED <<tables>>
        /\ DOMAIN Lines("file") = DOMAIN FileLines
    BY <1>8, FileRead, LinesTyped DEF ReadFile, Lines
  <2>2. \A k \in 1..(i - 1) : Passed("file", k)
    BY <1>1, <1>3, <2>1
  <2>3. CASE Resolvable(db, FileLines[i]) /\ Continue("file")
    <3>1. /\ Moves("file", rd'["file"]) /\ rd'["file"].pc \in {"read", "dead"}
          /\ rd'["file"].next = i + 1 /\ rd'["file"].hint = 0
      BY <1>1, <2>3, Continued
    <3>2. Passed("file", i)
      BY <2>3 DEF Passed
    <3>3. \A k \in 1..((i + 1) - 1) : Passed("file", k)
      BY <2>1, <2>2, <3>2
    <3> HIDE DEF i
    <3> QED
      BY <1>1, <1>4, <2>1, <3>1, <3>3 DEF OnDep
  <2>4. CASE Ingest("file", LineSub("file", i))
    <3>1. /\ Moves("file", rd'["file"]) /\ rd'["file"].pc = "enqueue"
          /\ rd'["file"].next = i /\ rd'["file"].hint = rd["file"].hint
      BY <1>1, <2>1, <2>4, Ingested
    <3>2. rd'["file"].hint = 0 /\ rd'["file"].pc \notin OnDep
      BY <1>2, <2>1, <3>1 DEF OnDep
    <3> HIDE DEF i
    <3> QED
      BY <1>1, <1>4, <2>1, <2>2, <3>1, <3>2
  <2> QED
    BY <1>8, <2>3, <2>4, FileRead
<1>9. CASE ReadMeta
  <2> PICK i : i = rd["meta"].next
    OBVIOUS
  <2> DEFINE u == MetaLines[i][1]
             t == MetaLines[i][2]
  <2>1. /\ i \in DOMAIN MetaLines /\ i \in Nat /\ (PassMeta(u, t) \/ AddHint(u, t))
        /\ MetaLines[i] = <<u, t>> /\ rd["meta"].pc = "read" /\ UNCHANGED <<db, synced>>
    BY <1>9, LineRead DEF ReadMeta
  <2>2. i \in DOMAIN Lines("meta") /\ Submission(u, t) = LineSub("meta", i) /\ u = LineURI("meta", i)
    BY <2>1 DEF Lines, LineSub, LineURI
  <2>3. \A k \in 1..(i - 1) : Passed("meta", k)
    BY <1>1, <1>3, <2>1
  <2>4. Resolvable(db, u) => Passed("meta", i)
    BY DEF Passed
  <2> HIDE DEF u, t
  <2>5. CASE Continue("meta") /\ Resolvable(db, u) /\ hints' = hints /\ last' = last
    <3>1. /\ Moves("meta", rd'["meta"]) /\ rd'["meta"].next = i + 1
      BY <1>1, <2>5, Continued
    <3>2. \A k \in 1..((i + 1) - 1) : Passed("meta", k)
      BY <2>1, <2>3, <2>4, <2>5
    <3> QED
      BY <1>1, <1>4, <2>1, <2>5, <3>1, <3>2 DEF tables
  <2>6. CASE Ingest("meta", Submission(u, t)) /\ hints' = hints /\ last' = last
    <3>1. Moves("meta", rd'["meta"]) /\ rd'["meta"].next = i
      BY <1>1, <2>2, <2>6, Ingested
    <3> QED
      BY <1>1, <1>4, <2>1, <2>3, <2>6, <3>1 DEF tables
  <2>7. CASE Die("meta") /\ hints' = hints /\ last' = last
    <3>1. Moves("meta", rd'["meta"]) /\ rd'["meta"].pc = "dead"
      BY <1>1, <2>7, Died
    <3> QED
      BY <1>1, <1>4, <2>1, <2>7, <3>1 DEF tables
  <2>8. CASE AddHint(u, t) /\ Continue("meta") /\ hints' = Append(hints, <<u, t>>)
             /\ last' = [last EXCEPT !["meta"] = u]
    <3>1. HintsGrow
      <4>1. ~HintsSynced(MetaLines[i][2])
        BY <2>8 DEF AddHint, t
      <4> QED
        BY <2>1, <2>8, <4>1 DEF HintsGrow
    <3>2. Moves("meta", rd'["meta"]) /\ rd'["meta"].next = i + 1
      BY <1>1, <2>8, Continued
    <3>3. Passed("meta", i)'
      <4>1. /\ Len(hints) + 1 \in DOMAIN Append(hints, MetaLines[i])
            /\ Append(hints, MetaLines[i])[Len(hints) + 1] = MetaLines[i]
        BY <1>1 DEF TablesOK
      <4>2. hints' = Append(hints, MetaLines[i])
        BY <2>1, <2>8
      <4>3. Len(hints) + 1 \in DOMAIN hints' /\ hints'[Len(hints) + 1] = MetaLines[i]
        BY <4>1, <4>2
      <4> QED
        BY <4>3 DEF Passed
    <3>4. Grows(db, db')
      BY <1>1, <2>1
    <3>5. \A k \in 1..i : Passed("meta", k)'
      BY <1>1, <2>1, <2>3, <3>1, <3>3, <3>4, PassedKept
    <3>6. \A k \in 1..((i + 1) - 1) : Passed("meta", k)'
      BY <2>1, <3>5
    <3>7. ASSUME NEW p \in Readers
          PROVE  \/ last'[p] = last[p]
                 \/ \E n \in DOMAIN Lines(p) : last'[p] = LineURI(p, n) /\ \A k \in 1..n : Passed(p, k)'
      BY <1>1, <2>2, <2>8, <3>5
    <3>8. ASSUME NEW p \in Readers, rd'[p].pc \notin {"start", "dead"}, NEW k \in 1..(rd'[p].next - 1)
          PROVE  Passed(p, k) \/ Passed(p, k)'
      <4>1. CASE p = "meta"
        BY <3>2, <3>6, <3>8, <4>1
      <4>2. CASE p = "file"
        BY <1>1, <1>3, <3>2, <3>8, <4>2 DEF Moves
      <4> QED
        BY <4>1, <4>2 DEF Readers
    <3>9. rd'["file"] = rd["file"]
      BY <1>1, <3>2 DEF Moves
    <3> QED
      BY <1>2, <2>1, <3>1, <3>4, <3>7, <3>8, <3>9, PullInvKept
  <2>9. PassMeta(u, t) =>
           /\ hints' = hints /\ last' = last
           /\ \/ Continue("meta") /\ Resolvable(db, u)
              \/ Ingest("meta", Submission(u, t))
    BY DEF PassMeta
  <2>10. AddHint(u, t) =>
            \/ Die("meta") /\ hints' = hints /\ last' = last
            \/ /\ Continue("meta") /\ hints' = Append(hints, <<u, t>>)
               /\ last' = [last EXCEPT !["meta"] = u]
    BY DEF AddHint
  <2> QED
    BY <2>1, <2>5, <2>6, <2>7, <2>8, <2>9, <2>10
<1>10. CASE StoreMeta
  <2> PICK i : i = rd["meta"].next
    OBVIOUS
  <2>1. /\ i \in DOMAIN MetaLines /\ i \in Nat /\ Grows(db, db') /\ Resolvable(db', MetaLines[i][1])
        /\ last' = [last EXCEPT !["meta"] = MetaLines[i][1]]
    <3> PICK s : s = rd["meta"].sub
      OBVIOUS
    <3>1. /\ i \in DOMAIN MetaLines /\ PrimaryOf[s.hash] = MetaLines[i][1]
          /\ PrimaryOf[s.hash] \in URIsOf[s.hash] /\ Grows(db, db')
          /\ \A v \in URIsOf[s.hash] : Resolvable(db', v)
      BY <1>10, StoredMeta
    <3> QED
      BY <1>10, <3>1, LinesTyped DEF StoreMeta
  <2>2. /\ rd["meta"].pc = "store" /\ hints' = hints /\ synced' = synced
        /\ i \in DOMAIN Lines("meta") /\ LineURI("meta", i) = MetaLines[i][1]
    BY <1>10, <2>1 DEF StoreMeta, Lines, LineURI
  <2>3. Moves("meta", rd'["meta"]) /\ rd'["meta"].next = i + 1
    BY <1>10, StoredMetaMoves
  <2>4. HintsGrow
    BY <2>2 DEF HintsGrow
  <2>5. \A k \in 1..i : Passed("meta", k)'
    <3>1. \A k \in 1..(i - 1) : Passed("meta", k)
      BY <1>1, <1>3, <2>2
    <3>2. \A k \in 1..(i - 1) : Passed("meta", k)'
      BY <1>1, <2>1, <2>4, <3>1, PassedKept
    <3>3. Passed("meta", i)'
      BY <2>1 DEF Passed
    <3> QED
      BY <2>1, <3>2, <3>3
  <2>6. \A k \in 1..((i + 1) - 1) : Passed("meta", k)'
    BY <2>1, <2>5
  <2>7. ASSUME NEW p \in Readers
        PROVE  \/ last'[p] = last[p]
               \/ \E n \in DOMAIN Lines(p) : last'[p] = LineURI(p, n) /\ \A k \in 1..n : Passed(p, k)'
    BY <1>1, <2>1, <2>2, <2>5
  <2>8. ASSUME NEW p \in Readers, rd'[p].pc \notin {"start", "dead"}, NEW k \in 1..(rd'[p].next - 1)
        PROVE  Passed(p, k) \/ Passed(p, k)'
    <3>1. CASE p = "meta"
      BY <2>3, <2>6, <2>8, <3>1
    <3>2. CASE p = "file"
      BY <1>1, <1>3, <2>3, <2>8, <3>2 DEF Moves
    <3> QED
      BY <3>1, <3>2 DEF Readers
  <2>9. rd'["file"] = rd["file"]
    BY <1>1, <2>3 DEF Moves
  <2> QED
    BY <1>2, <2>1, <2>2, <2>4, <2>7, <2>8, <2>9, PullInvKept
<1>11. ASSUME NEW doc \in LocalDocs, Local(doc) PROVE PullInv'
  <2>1. Grows(db, db')
    BY <1>11, StoredLocal
  <2> QED
    BY <1>5, <1>11, <2>1 DEF Local, fibers
<1>12. ASSUME NEW w \in Workers, WorkAwait(w) \/ WorkDone(w) \/ WorkerFails(w) PROVE PullInv'
  <2>1. UNCHANGED <<db, hints, synced, last, rd>>
    BY <1>12 DEF WorkAwait, WorkDone, WorkerFails, tables
  <2>2. Grows(db, db')
    BY <1>1, <2>1
  <2> QED
    BY <1>5, <2>1, <2>2
<1>13. ASSUME NEW p \in Readers, ReaderFails(p) PROVE PullInv'
  <2>1. /\ Moves(p, rd'[p]) /\ rd'[p].pc = "dead" /\ rd'[p].hint = 0 /\ UNCHANGED <<tables>>
    BY <1>1, <1>13, Died DEF ReaderFails
  <2> QED
    BY <1>4, <2>1 DEF OnDep
<1>14. CASE Crash
  <2>1. /\ \A p \in Readers : rd'[p] = Starting
        /\ db' = db /\ hints' = hints /\ synced' = synced /\ last' = last
    BY <1>14, StartingOK DEF Crash, tables
  <2>2. Starting.pc = "start" /\ Starting.hint = 0
    BY DEF Starting
  <2>3. /\ rd'["file"].pc \notin OnDep /\ rd'["file"].hint = 0
        /\ \A p \in Readers : rd'[p].pc = "start"
    BY <1>1, <2>1, <2>2 DEF OnDep
  <2>4. HintsGrow /\ Grows(db, db')
    BY <1>1, <2>1 DEF HintsGrow
  <2> QED
    BY <2>1, <2>3, <2>4, PullInvKept
<1>15. ASSUME NEW p \in Readers, Emit(p) PROVE PullInv'
  <2>1. /\ Moves(p, rd'[p]) /\ rd'[p].pc \in {"read", "dead"} /\ rd'[p].next = rd[p].next
        /\ rd'[p].hint = rd[p].hint /\ rd[p].pc = "emit" /\ UNCHANGED <<tables>>
    BY <1>1, <1>15, Emitted DEF Emit
  <2>2. rd'[p].pc \notin OnDep /\ rd[p].pc \notin OnDep
    BY <2>1 DEF OnDep
  <2> QED
    BY <1>2, <1>3, <1>4, <2>1, <2>2
<1>16. ASSUME UNCHANGED <<tables, rd>> PROVE PullInv'
  BY <1>1, <1>5, <1>16 DEF tables
<1>17. ASSUME NEW id, EmitLocal(id) PROVE PullInv'
  BY <1>16, <1>17 DEF EmitLocal, fibers
<1>18. CASE UNCHANGED vars
  BY <1>16, <1>18 DEF vars, tables
<1> QED
  BY <1>6, <1>7, <1>8, <1>9, <1>10, <1>11, <1>12, <1>13, <1>14, <1>15, <1>17, <1>18,
     StoreFilePullInv DEF Next, Step, Fail

\* Nothing is behind an empty repository.
LEMMA InitPullInv == Init => PullInv
<1> SUFFICES ASSUME Init PROVE PullInv
  OBVIOUS
<1>1. \A p \in Readers : rd[p].pc = "start" /\ rd[p].hint = 0 /\ Resume(p) = 1
  BY DEF Init, NewReaders, Starting, Resume
<1>2. LinesPassed
  BY <1>1 DEF LinesPassed
<1>3. HintsFetched
  BY <1>1 DEF HintsFetched, OnDep, Readers
<1>4. HintsNoted /\ HintsComplete
  BY DEF Init, HintsNoted, HintsComplete
<1> QED
  BY <1>2, <1>3, <1>4 DEF PullInv

\* After a restart the remote is asked for nothing less than what is missing: what
\* it will not list again is stored or noted (SLNSyncCopyLastSubmissionURIs).
THEOREM NothingIsSkipped == Spec => []NothingSkipped
<1>1. PullInv => NothingSkipped
  BY DEF PullInv, LinesPassed, Passed, NothingSkipped, Readers
<1> QED
  BY <1>1, InitTypeOK, NextTypeOK, InitPullInv, NextPullInv, PTL DEF Spec

\* A file marked as synced has all its hints, whatever other clients store while
\* they are fetched and whatever the meta-files' reader notes (set_hints_synced).
THEOREM NoHintLost == Spec => []HintsComplete
<1>1. PullInv => HintsComplete
  BY DEF PullInv
<1> QED
  BY <1>1, InitTypeOK, NextTypeOK, InitPullInv, NextPullInv, PTL DEF Spec

-----------------------------------------------------------------------------
(***************************************************************************)
(* The order a pull keeps, for a remote that lists nothing twice: the      *)
(* meta-files of a target are stored as they are listed, whatever other    *)
(* clients do and however often the process dies; and in one life of the   *)
(* process a file that is recorded as passed has synced its hints.         *)
(***************************************************************************)
\* The meta-files that the remote lists for the same target before line n are stored.
Before(n) ==
    \A i \in 1..(n - 1) : MetaLines[i][2] = MetaLines[n][2] => Resolvable(db, MetaLines[i][1])

\* A hint was noted after the lines before it were stored or noted.
HintsOrdered ==
    \A j \in DOMAIN hints : \E n \in DOMAIN MetaLines :
        /\ hints[j] = MetaLines[n]
        /\ \A i \in 1..(n - 1) :
              \/ Resolvable(db, MetaLines[i][1])
              \/ \E k \in 1..(j - 1) : hints[k] = MetaLines[i]

\* What is fetched for a meta-file's line, or for a hint, is the next of its target.
FetchedInOrder ==
    /\ rd["meta"].pc \in Busy => Before(rd["meta"].next)
    /\ rd["file"].pc \in OnDep =>
          \A n \in DOMAIN MetaLines : hints[rd["file"].hint] = MetaLines[n] => Before(n)

OrderInv == HintsOrdered /\ FetchedInOrder /\ MetaOrder

\* In one life of the process a file that is there has synced its hints, but for
\* the one whose hints are being fetched.
SyncedInv ==
    LET r == rd["file"] IN
    /\ \A i \in 1..(Resume("file") - 1) : HintsSynced(FileLines[i])
    /\ r.pc \notin {"start", "dead"} => \A i \in 1..(r.next - 1) : HintsSynced(FileLines[i])
    /\ r.pc # "dead" => \A i \in DOMAIN FileLines : Resolvable(db, FileLines[i]) =>
          \/ HintsSynced(FileLines[i])
          \/ r.pc \in OnDep /\ FileLines[i] = FileLines[r.next]

-----------------------------------------------------------------------------
(***************************************************************************)
(* The contents that the remote lists.                                     *)
(***************************************************************************)
\* A listed URI is a URI of one listed content only.
LEMMA ServedApart ==
  ASSUME ListsApart
  PROVE  /\ \A i, j \in DOMAIN MetaLines : MetaLines[j][1] \in URIsOf[Served[MetaLines[i][1]]] => i = j
         /\ \A i \in DOMAIN FileLines, j \in DOMAIN MetaLines :
               /\ MetaLines[j][1] \notin URIsOf[Served[FileLines[i]]]
               /\ FileLines[i] \notin URIsOf[Served[MetaLines[j][1]]]
         /\ \A i, j \in DOMAIN FileLines :
               FileLines[j] \in URIsOf[Served[FileLines[i]]] => FileLines[j] = FileLines[i]
<1>1. ASSUME NEW u \in URIs, NEW v \in URIs, PrimaryOf[Served[u]] = u, PrimaryOf[Served[v]] = v,
             u \in URIsOf[Served[v]]
      PROVE  u = v
  <2>1. Served[u] \in Hashes /\ Served[v] \in Hashes
    BY SyncAssumption
  <2>2. Served[v] = Served[u]
    BY <1>1, <2>1, SyncAssumption
  <2> QED
    BY <1>1, <2>2
<1>2. \A i \in DOMAIN MetaLines : MetaLines[i][1] \in URIs /\ PrimaryOf[Served[MetaLines[i][1]]] = MetaLines[i][1]
  BY LinesTyped, RemoteAssumption
<1>3. \A i \in DOMAIN FileLines : FileLines[i] \in URIs /\ PrimaryOf[Served[FileLines[i]]] = FileLines[i]
  BY LinesTyped, RemoteAssumption
<1>4. \A i, j \in DOMAIN MetaLines : MetaLines[j][1] \in URIsOf[Served[MetaLines[i][1]]] => i = j
  BY <1>1, <1>2 DEF ListsApart
<1>5. \A i \in DOMAIN FileLines, j \in DOMAIN MetaLines :
         /\ MetaLines[j][1] \notin URIsOf[Served[FileLines[i]]]
         /\ FileLines[i] \notin URIsOf[Served[MetaLines[j][1]]]
  BY <1>1, <1>2, <1>3 DEF ListsApart
<1>6. \A i, j \in DOMAIN FileLines : FileLines[j] \in URIsOf[Served[FileLines[i]]] => FileLines[j] = FileLines[i]
  BY <1>1, <1>3
<1> QED
  BY <1>4, <1>5, <1>6

\* What the file reader stores: its line, or the meta-file of the hint it is at.
LEMMA FilePosted ==
  ASSUME TypeOK, PullInv, StoreFile
  PROVE  \/ rd["file"].pc = "store" /\ Posted("file").hash = Served[FileLines[rd["file"].next]]
         \/ /\ rd["file"].pc = "depstore"
            /\ \E n \in DOMAIN MetaLines :
                  /\ hints[rd["file"].hint] = MetaLines[n]
                  /\ Posted("file").hash = Served[MetaLines[n][1]]
<1>1. rd["file"].pc = "store" \/ rd["file"].pc = "depstore"
  BY DEF StoreFile
<1>2. CASE rd["file"].pc = "store"
  <2>1. Posted("file") = rd["file"].sub
    BY <1>2 DEF Posted, OnHint
  <2>2. rd["file"].sub = LineSub("file", rd["file"].next)
    BY <1>2 DEF TypeOK, ReadersOK, ReaderOK, Readers, Busy
  <2> QED
    BY <1>2, <2>1, <2>2 DEF LineSub, Submission
<1>3. CASE rd["file"].pc = "depstore"
  <2> DEFINE h == rd["file"].hint
  <2>1. Posted("file") = rd["file"].dep
    BY <1>3 DEF Posted, OnHint
  <2>2. h \in DOMAIN hints /\ rd["file"].dep.hash = Served[hints[h][1]]
    BY <1>3 DEF PullInv, HintsFetched, OnDep, Submission
  <2>3. PICK n \in DOMAIN MetaLines : hints[h] = MetaLines[n]
    BY <2>2 DEF PullInv, HintsNoted
  <2> QED
    BY <1>3, <2>1, <2>2, <2>3
<1> QED
  BY <1>1, <1>2, <1>3

\* What the meta-files' reader stores is its line's.
LEMMA MetaPosted ==
  ASSUME TypeOK, StoreMeta
  PROVE  rd["meta"].sub.hash = Served[MetaLines[rd["meta"].next][1]]
<1>1. rd["meta"].sub = LineSub("meta", rd["meta"].next)
  BY DEF StoreMeta, TypeOK, ReadersOK, ReaderOK, Readers, Busy
<1> QED
  BY <1>1 DEF LineSub, Submission

-----------------------------------------------------------------------------
(***************************************************************************)
(* The meta-files of a target.                                             *)
(***************************************************************************)
\* What is stored stays so.
LEMMA BeforeKept == ASSUME Grows(db, db'), NEW n, Before(n) PROVE Before(n)'
  BY ResolvableKept DEF Before

\* A meta-file that becomes resolvable was the next of its target.
LEMMA NewInOrder ==
  ASSUME TypeOK, PullInv, FetchedInOrder, ListsApart, OthersApart,
         StoreMeta \/ StoreFile \/ \E doc \in LocalDocs : Local(doc),
         NEW j \in DOMAIN MetaLines, Resolvable(db', MetaLines[j][1]), ~Resolvable(db, MetaLines[j][1])
  PROVE  Before(j)
<1>1. CASE StoreMeta
  <2>1. /\ rd["meta"].next \in DOMAIN MetaLines
        /\ MetaLines[j][1] \in URIsOf[rd["meta"].sub.hash]
    BY <1>1, StoredMeta
  <2>2. j = rd["meta"].next
    BY <1>1, <2>1, MetaPosted, ServedApart
  <2>3. rd["meta"].pc \in Busy
    BY <1>1 DEF StoreMeta, Busy
  <2> QED
    BY <2>2, <2>3 DEF FetchedInOrder
<1>2. CASE StoreFile
  <2>1. MetaLines[j][1] \in URIsOf[Posted("file").hash] /\ rd["file"].next \in DOMAIN FileLines
    BY <1>2, StoredFile
  <2>2. rd["file"].pc # "store"
    BY <1>2, <2>1, FilePosted, ServedApart
  <2>3. PICK n \in DOMAIN MetaLines :
          /\ hints[rd["file"].hint] = MetaLines[n]
          /\ Posted("file").hash = Served[MetaLines[n][1]]
          /\ rd["file"].pc = "depstore"
    BY <1>2, <2>2, FilePosted
  <2>4. n = j
    BY <2>1, <2>3, ServedApart
  <2> QED
    BY <2>3, <2>4 DEF FetchedInOrder, OnDep
<1>3. ASSUME NEW doc \in LocalDocs, Local(doc) PROVE Before(j)
  <2>1. MetaLines[j][1] \in URIsOf[doc.hash] /\ doc.hash \in Hashes
    BY <1>3, StoredLocal, SyncAssumption DEF Documents
  <2>2. MetaLines[j][1] \in URIs /\ PrimaryOf[Served[MetaLines[j][1]]] = MetaLines[j][1]
    BY LinesTyped, RemoteAssumption
  <2>3. Served[MetaLines[j][1]] \in Hashes
    BY <2>2, SyncAssumption
  <2>4. doc.hash = Served[MetaLines[j][1]]
    BY <2>1, <2>2, <2>3, SyncAssumption
  <2>5. \A i \in DOMAIN MetaLines : i < j => MetaLines[i][2] # MetaLines[j][2]
    BY <2>4 DEF OthersApart
  <2>6. \A i \in 1..(j - 1) : i \in DOMAIN MetaLines /\ i < j
    BY LinesTyped
  <2> QED
    BY <2>5, <2>6 DEF Before
<1> QED
  BY <1>1, <1>2, <1>3

\* Where what becomes resolvable is next of its target, the order is kept.
LEMMA MetaOrderKept ==
  ASSUME TablesOK, TablesOK', MetaOrder, Grows(db, db'),
         \A j \in DOMAIN MetaLines :
            Resolvable(db', MetaLines[j][1]) => Resolvable(db, MetaLines[j][1]) \/ Before(j)
  PROVE  MetaOrder'
<1>1. /\ IndexOK(db) /\ IndexOK(db') /\ DOMAIN db.file \subseteq DOMAIN db'.file
      /\ \A i \in DOMAIN MetaLines : MetaLines[i][1] \in URIs /\ i \in Nat
      /\ DOMAIN MetaLines = 1..Len(MetaLines) /\ Len(MetaLines) \in Nat
  BY LinesTyped DEF TablesOK, Grows
<1> SUFFICES ASSUME NEW i \in DOMAIN MetaLines, NEW j \in DOMAIN MetaLines,
                    i < j, MetaLines[i][2] = MetaLines[j][2],
                    NEW b \in DOMAIN db'.file, Resolves(db', MetaLines[j][1], b)
             PROVE  \E a \in DOMAIN db'.file : Resolves(db', MetaLines[i][1], a) /\ a < b
  BY DEF MetaOrder
<1>2. ASSUME NEW a \in DOMAIN db.file, Resolves(db, MetaLines[i][1], a), a < b
      PROVE  \E o \in DOMAIN db'.file : Resolves(db', MetaLines[i][1], o) /\ o < b
  BY <1>1, <1>2 DEF Grows
<1>3. CASE Resolvable(db, MetaLines[j][1])
  <2>1. Resolves(db, MetaLines[j][1], b)
    BY <1>1, <1>3, ResolvableKept
  <2>2. b \in DOMAIN db.file
    BY <1>1, <2>1, IndexTyped DEF Resolves
  <2>3. PICK a \in DOMAIN db.file : Resolves(db, MetaLines[i][1], a) /\ a < b
    BY <2>1, <2>2 DEF MetaOrder
  <2> QED
    BY <1>2, <2>3
<1>4. CASE ~Resolvable(db, MetaLines[j][1])
  <2>1. Before(j)
    <3>1. Resolvable(db', MetaLines[j][1])
      BY DEF Resolvable, Resolves
    <3> QED
      BY <1>4, <3>1
  <2>2. Resolvable(db, MetaLines[i][1])
    <3>1. i \in 1..(j - 1)
      BY <1>1
    <3> QED
      BY <2>1, <3>1 DEF Before
  <2>3. PICK a \in DOMAIN db.file : Resolves(db, MetaLines[i][1], a)
    BY <1>1, <2>2, ResolvesOne
  <2>4. b \notin DOMAIN db.file
    <3>1. <<MetaLines[j][1], b>> \in db'.uri /\ <<MetaLines[j][1], b>> \notin db.uri
      BY <1>4 DEF Resolves, Resolvable
    <3> QED
      BY <1>1, <3>1 DEF Grows
  <2>5. a < b
    <3>1. /\ DOMAIN db.file = 1..Len(db.file) /\ Len(db.file) \in Nat
          /\ DOMAIN db'.file = 1..Len(db'.file) /\ Len(db'.file) \in Nat
      BY <1>1, IndexTyped
    <3> QED
      BY <2>3, <2>4, <3>1
  <2> QED
    BY <1>2, <2>3, <2>5
<1> QED
  BY <1>3, <1>4

\* A sequence with one more.
LEMMA Appended ==
  ASSUME NEW S, NEW q \in Seq(S), NEW x \in S
  PROVE  /\ DOMAIN Append(q, x) = 1..(Len(q) + 1) /\ Append(q, x)[Len(q) + 1] = x
         /\ \A j \in DOMAIN q : Append(q, x)[j] = q[j]
  OBVIOUS

\* A hint is noted behind the lines that were passed.
LEMMA HintsOrderedKept ==
  ASSUME TablesOK, HintsOrdered, Grows(db, db'),
         \/ hints' = hints
         \/ \E n \in DOMAIN MetaLines : /\ hints' = Append(hints, MetaLines[n])
                                        /\ \A i \in 1..(n - 1) : Passed("meta", i)
  PROVE  HintsOrdered'
<1>1. hints \in Seq(URIs \X URIs) /\ Len(hints) \in Nat /\ DOMAIN hints = 1..Len(hints)
  BY DEF TablesOK
<1>2. \A u : Resolvable(db, u) => Resolvable(db', u)
  BY ResolvableKept
\* The hints that were there.
<1>3. ASSUME \A j \in DOMAIN hints : hints'[j] = hints[j], NEW j \in DOMAIN hints
      PROVE  \E n \in DOMAIN MetaLines :
                /\ hints'[j] = MetaLines[n]
                /\ \A i \in 1..(n - 1) :
                      \/ Resolvable(db', MetaLines[i][1])
                      \/ \E k \in 1..(j - 1) : hints'[k] = MetaLines[i]
  <2>1. PICK n \in DOMAIN MetaLines :
          /\ hints[j] = MetaLines[n]
          /\ \A i \in 1..(n - 1) :
                \/ Resolvable(db, MetaLines[i][1])
                \/ \E k \in 1..(j - 1) : hints[k] = MetaLines[i]
    BY DEF HintsOrdered
  <2>2. \A k \in 1..(j - 1) : k \in DOMAIN hints
    BY <1>1
  <2>3. ASSUME NEW i \in 1..(n - 1), ~Resolvable(db', MetaLines[i][1])
        PROVE  \E k \in 1..(j - 1) : hints'[k] = MetaLines[i]
    BY <1>2, <1>3, <2>1, <2>2, <2>3
  <2> QED
    BY <1>3, <2>1, <2>3
<1>4. CASE hints' = hints
  BY <1>3, <1>4 DEF HintsOrdered
<1>5. ASSUME NEW n \in DOMAIN MetaLines, hints' = Append(hints, MetaLines[n]),
             \A i \in 1..(n - 1) : Passed("meta", i)
      PROVE  HintsOrdered'
  <2>1. MetaLines[n] \in URIs \X URIs /\ hints' = Append(hints, MetaLines[n])
    BY <1>5, LinesTyped
  <2>2. /\ DOMAIN hints' = 1..(Len(hints) + 1) /\ hints'[Len(hints) + 1] = MetaLines[n]
        /\ \A j \in DOMAIN hints : hints'[j] = hints[j]
    <3> PICK S, e : S = URIs \X URIs /\ e = Append(hints, MetaLines[n])
      OBVIOUS
    <3>1. hints \in Seq(S) /\ MetaLines[n] \in S
      BY <1>1, <2>1
    <3>2. DOMAIN e = 1..(Len(hints) + 1) /\ e[Len(hints) + 1] = MetaLines[n]
          /\ \A j \in DOMAIN hints : e[j] = hints[j]
      BY <3>1, Appended
    <3> QED
      BY <2>1, <3>2
  <2>3. ASSUME NEW j \in DOMAIN hints', j \notin DOMAIN hints
        PROVE  /\ hints'[j] = MetaLines[n]
               /\ \A i \in 1..(n - 1) :
                     \/ Resolvable(db', MetaLines[i][1])
                     \/ \E k \in 1..(j - 1) : hints'[k] = MetaLines[i]
    <3>1. j = Len(hints) + 1
      BY <1>1, <2>2, <2>3
    <3>2. DOMAIN hints = 1..(j - 1)
      BY <1>1, <3>1
    <3>3. ASSUME NEW i \in 1..(n - 1), ~Resolvable(db', MetaLines[i][1])
          PROVE  \E k \in 1..(j - 1) : hints'[k] = MetaLines[i]
      <4>1. PICK k \in DOMAIN hints : hints[k] = MetaLines[i]
        BY <1>2, <1>5, <3>3 DEF Passed
      <4> QED
        BY <2>2, <3>2, <4>1
    <3> QED
      BY <2>2, <3>1, <3>3
  <2>4. ASSUME NEW j \in DOMAIN hints'
        PROVE  \E o \in DOMAIN MetaLines :
                  /\ hints'[j] = MetaLines[o]
                  /\ \A i \in 1..(o - 1) :
                        \/ Resolvable(db', MetaLines[i][1])
                        \/ \E k \in 1..(j - 1) : hints'[k] = MetaLines[i]
    BY <1>3, <2>2, <2>3
  <2> QED
    BY <2>4 DEF HintsOrdered
<1> QED
  BY <1>4, <1>5

\* The readers fetch on what they fetched, or start with what is next of its target.
LEMMA FetchedKept ==
  ASSUME FetchedInOrder, Grows(db, db'),
         rd'["meta"].pc \in Busy =>
            \/ rd["meta"].pc \in Busy /\ rd'["meta"].next = rd["meta"].next
            \/ \E n : n = rd'["meta"].next /\ Before(n),
         rd'["file"].pc \in OnDep =>
            /\ rd["file"].pc \in OnDep /\ rd'["file"].hint = rd["file"].hint
            /\ hints'[rd["file"].hint] = hints[rd["file"].hint]
  PROVE  FetchedInOrder'
<1>1. ASSUME rd'["meta"].pc \in Busy PROVE Before(rd["meta"].next)'
  <2>1. PICK n : n = rd'["meta"].next
    OBVIOUS
  <2>2. Before(n)
    BY <1>1, <2>1 DEF FetchedInOrder
  <2>3. Before(n)'
    BY <2>2, BeforeKept
  <2> QED
    BY <2>1, <2>3 DEF Before
<1>2. ASSUME rd'["file"].pc \in OnDep, NEW n \in DOMAIN MetaLines, hints'[rd'["file"].hint] = MetaLines[n]
      PROVE  Before(n)'
  <2>1. Before(n)
    BY <1>2 DEF FetchedInOrder
  <2> QED
    BY <2>1, BeforeKept
<1> QED
  BY <1>1, <1>2 DEF FetchedInOrder

\* The step of the file reader to its next hint, the earliest that is missing.
LEMMA HintInOrder ==
  ASSUME TypeOK, TypeOK', PullInv, PullInv', OrderInv, ListsApart, HintsOrdered',
         StoreFile, rd'["file"].pc \in OnDep, NEW n \in DOMAIN MetaLines,
         hints'[rd'["file"].hint] = MetaLines[n]
  PROVE  Before(n)'
<1>1. PICK h, u : h = rd'["file"].hint /\ u = FileLines[rd'["file"].next]
  OBVIOUS
<1>2. /\ h \in DOMAIN hints' /\ Resolvable(db', u)
      /\ \A f \in DOMAIN db'.file, j \in DOMAIN hints' :
            Resolves(db', u, f) /\ <<hints'[j][2], f>> \in db'.uri /\ j < h => Resolvable(db', hints'[j][1])
  BY <1>1 DEF PullInv, HintsFetched
<1>3. PICK f \in DOMAIN db'.file : Resolves(db', u, f) /\ <<hints'[h][2], f>> \in db'.uri
  <2>1. PICK f \in DOMAIN db'.file, max \in Nat :
          LET v == PrimaryOf[rd["file"].sub.hash] IN
          /\ v = FileLines[rd["file"].next] /\ v \in URIs /\ Resolves(db', v, f)
          /\ NextHint(f, v, max) \/ LastHint(f, v, max)
    BY StoredFile
  <2>2. rd["file"].pc \in Busy /\ hints' = hints /\ "file" \in Readers /\ ReadersOK
    BY DEF StoreFile, Busy, OnDep, Readers, TypeOK
  <2> PICK v : v = PrimaryOf[rd["file"].sub.hash]
    OBVIOUS
  <2>3. ~LastHint(f, v, max)
    BY <2>2, Committed DEF LastHint, OnDep
  <2>4. PICK j \in DOMAIN hints :
          /\ j \in Missing(db', f, rd["file"].hint)
          /\ rd'["file"].next = rd["file"].next /\ rd'["file"].hint = j
    BY <2>1, <2>2, <2>3, NextHintIs
  <2>5. <<hints[j][2], f>> \in db'.uri
    BY <2>4 DEF Missing, HintsOf
  <2> QED
    BY <1>1, <2>1, <2>2, <2>4, <2>5
<1>4. PICK m \in DOMAIN MetaLines :
        /\ hints'[h] = MetaLines[m]
        /\ \A i \in 1..(m - 1) :
              \/ Resolvable(db', MetaLines[i][1])
              \/ \E k \in 1..(h - 1) : hints'[k] = MetaLines[i]
  BY <1>2 DEF HintsOrdered
<1>5. m = n
  BY <1>1, <1>4 DEF ListsApart
<1>6. /\ h \in Nat /\ \A k \in 1..(h - 1) : k \in DOMAIN hints' /\ k < h
  BY <1>2 DEF TypeOK, TablesOK
<1>7. ASSUME NEW i \in 1..(n - 1), MetaLines[i][2] = MetaLines[n][2] PROVE Resolvable(db', MetaLines[i][1])
  <2>1. CASE \E k \in 1..(h - 1) : hints'[k] = MetaLines[i]
    <3>1. PICK k \in 1..(h - 1) : hints'[k] = MetaLines[i]
      BY <2>1
    <3>2. <<hints'[k][2], f>> \in db'.uri
      BY <1>3, <1>4, <1>5, <1>7, <3>1
    <3> QED
      BY <1>2, <1>3, <1>6, <3>1, <3>2
  <2> QED
    BY <1>4, <1>5, <1>7, <2>1
<1> QED
  BY <1>7 DEF Before

\* The meta-files' reader, at a line it has to fetch: the target has synced its
\* hints, so what was noted before for it is stored.
LEMMA LineInOrder ==
  ASSUME TypeOK, PullInv, NEW i \in DOMAIN MetaLines, i = rd["meta"].next, rd["meta"].pc = "read",
         HintsSynced(MetaLines[i][2])
  PROVE  Before(i)
<1>1. PICK f \in synced : Resolves(db, MetaLines[i][2], f)
  BY DEF HintsSynced
<1>2. \A k \in 1..(i - 1) : Passed("meta", k)
  BY DEF PullInv, LinesPassed, Readers
<1>3. ASSUME NEW k \in 1..(i - 1), MetaLines[k][2] = MetaLines[i][2] PROVE Resolvable(db, MetaLines[k][1])
  <2>1. CASE \E j \in DOMAIN hints : hints[j] = MetaLines[k]
    BY <1>1, <1>3, <2>1 DEF PullInv, HintsComplete
  <2> QED
    BY <1>2, <1>3, <2>1 DEF Passed
<1> QED
  BY <1>3 DEF Before

\* Every step keeps the order.
LEMMA NextOrderInv ==
  ASSUME TypeOK, TypeOK', PullInv, PullInv', OrderInv, ListsApart, OthersApart, [Next]_vars
  PROVE  OrderInv'
<1>1. /\ TablesOK /\ TablesOK' /\ ReadersOK /\ "file" \in Readers /\ "meta" \in Readers /\ Grows(db, db)
      /\ HintsOrdered /\ FetchedInOrder /\ MetaOrder
  BY GrowsSame DEF TypeOK, TablesOK, OrderInv, Readers
\* A step that stores nothing and notes nothing.
<1>2. ASSUME db' = db, hints' = hints, FetchedInOrder' PROVE OrderInv'
  <2>1. HintsOrdered'
    BY <1>1, <1>2, HintsOrderedKept
  <2>2. MetaOrder'
    BY <1>1, <1>2, MetaOrderKept
  <2> QED
    BY <1>2, <2>1, <2>2 DEF OrderInv
<1>3. ASSUME db' = db, hints' = hints,
             rd'["meta"].pc \in Busy =>
                rd["meta"].pc \in Busy /\ rd'["meta"].next = rd["meta"].next,
             rd'["file"].pc \in OnDep =>
                rd["file"].pc \in OnDep /\ rd'["file"].hint = rd["file"].hint
      PROVE  OrderInv'
  <2>1. Grows(db, db')
    BY <1>1, <1>3
  <2>2. FetchedInOrder'
    BY <1>1, <1>3, <2>1, FetchedKept
  <2> QED
    BY <1>2, <1>3, <2>2
\* One reader moves, and not to what it has to fetch.
<1>4. ASSUME NEW p \in Readers, Moves(p, rd'[p]), rd'[p].pc \in {"start", "read", "emit", "dead"},
             db' = db, hints' = hints
      PROVE  OrderInv'
  <2>1. rd'[p].pc \notin Busy /\ rd'[p].pc \notin OnDep
    BY <1>4 DEF Busy, OnDep
  <2>2. rd'["meta"].pc \in Busy => rd'["meta"] = rd["meta"]
    BY <1>1, <1>4, <2>1 DEF Moves
  <2>3. rd'["file"].pc \in OnDep => rd'["file"] = rd["file"]
    BY <1>1, <1>4, <2>1 DEF Moves
  <2> QED
    BY <1>3, <1>4, <2>2, <2>3
<1>5. ASSUME NEW p \in Readers, Start(p) PROVE OrderInv'
  <2>1. Moves(p, rd'[p]) /\ rd'[p].pc = "read" /\ db' = db /\ hints' = hints
    BY <1>5, ReaderSteps DEF Start, tables
  <2> QED
    BY <1>4, <2>1
<1>6. ASSUME NEW p \in Readers, Enqueue(p) \/ Dequeue(p) PROVE OrderInv'
  <2>1. PICK pc \in Busy : /\ Moves(p, [rd[p] EXCEPT !.pc = pc]) /\ rd[p].pc \in Busy
                           /\ pc \in OnDep <=> rd[p].pc \in OnDep
    BY <1>6, ReaderSteps DEF Enqueue, Dequeue, Busy, OnDep
  <2>2. /\ rd'[p].pc = pc /\ rd'[p].next = rd[p].next /\ rd'[p].hint = rd[p].hint
        /\ \A o \in Readers \ {p} : rd'[o] = rd[o]
    BY <1>1, <2>1 DEF Moves, ReadersOK, Fibers
  <2>3. db' = db /\ hints' = hints
    BY <1>6 DEF Enqueue, Dequeue, tables
  <2>4. /\ rd'["meta"].pc \in Busy => rd["meta"].pc \in Busy /\ rd'["meta"].next = rd["meta"].next
        /\ rd'["file"].pc \in OnDep => rd["file"].pc \in OnDep /\ rd'["file"].hint = rd["file"].hint
    BY <1>1, <2>1, <2>2
  <2> QED
    BY <1>3, <2>3, <2>4
<1>7. CASE ReadFile
  <2>1. Moves("file", rd'["file"]) /\ rd'["file"].pc \in {"read", "dead", "enqueue"}
    <3>1. DOMAIN Lines("file") = DOMAIN FileLines
      BY DEF Lines
    <3> QED
      BY <1>1, <1>7, <3>1, FileRead, Continued, Ingested
  <2>2. rd'["file"].pc \notin OnDep /\ rd'["meta"] = rd["meta"] /\ db' = db /\ hints' = hints
    BY <1>1, <1>7, <2>1 DEF OnDep, Moves, ReadFile, tables
  <2> QED
    BY <1>3, <2>2
<1>8. CASE ReadMeta
  <2> PICK i : i = rd["meta"].next
    OBVIOUS
  <2> DEFINE u == MetaLines[i][1]
             t == MetaLines[i][2]
  <2>1. /\ i \in DOMAIN MetaLines /\ (PassMeta(u, t) \/ AddHint(u, t))
        /\ MetaLines[i] = <<u, t>> /\ rd["meta"].pc = "read" /\ db' = db
    BY <1>8, LineRead DEF ReadMeta
  <2>2. i \in DOMAIN Lines("meta") /\ Submission(u, t) = LineSub("meta", i) /\ Grows(db, db')
    BY <1>1, <2>1 DEF Lines, LineSub
  <2>3. HintsSynced(t) => Before(i)
    BY <2>1, LineInOrder
  <2> HIDE DEF u, t
  <2>4. CASE (Continue("meta") \/ Die("meta")) /\ hints' = hints
    <3>1. Moves("meta", rd'["meta"]) /\ rd'["meta"].pc \in {"read", "dead"}
      BY <1>1, <2>4, Continued, Died
    <3> QED
      BY <1>1, <1>4, <2>1, <2>4, <3>1
  <2>5. CASE Ingest("meta", Submission(u, t)) /\ hints' = hints /\ HintsSynced(t)
    <3>1. Moves("meta", rd'["meta"]) /\ rd'["meta"].next = i
      BY <1>1, <2>2, <2>5, Ingested
    <3>2. rd'["file"] = rd["file"]
      BY <1>1, <3>1 DEF Moves
    <3>3. FetchedInOrder'
      BY <1>1, <2>2, <2>3, <2>5, <3>1, <3>2, FetchedKept
    <3> QED
      BY <1>2, <2>1, <2>5, <3>3
  <2>6. CASE Continue("meta") /\ hints' = Append(hints, <<u, t>>) /\ ~HintsSynced(t)
    <3>1. Moves("meta", rd'["meta"]) /\ rd'["meta"].pc \in {"read", "dead"}
      BY <1>1, <2>6, Continued
    <3>2. rd'["file"] = rd["file"] /\ rd'["meta"].pc \notin Busy
      BY <1>1, <3>1 DEF Moves, Busy, OnDep
    <3>3. HintsGrow
      BY <2>1, <2>6 DEF HintsGrow, t
    <3>4. rd["file"].pc \in OnDep => hints'[rd["file"].hint] = hints[rd["file"].hint]
      BY <1>1, <3>3, HintsKept DEF PullInv, HintsFetched
    <3>5. FetchedInOrder'
      BY <1>1, <2>2, <3>2, <3>4, FetchedKept
    <3>6. HintsOrdered'
      <4>1. \A k \in 1..(i - 1) : Passed("meta", k)
        BY <1>1, <2>1 DEF PullInv, LinesPassed
      <4> QED
        BY <1>1, <2>1, <2>2, <2>6, <4>1, HintsOrderedKept
    <3>7. MetaOrder'
      BY <1>1, <2>1, <2>2, MetaOrderKept
    <3> QED
      BY <3>5, <3>6, <3>7 DEF OrderInv
  <2>7. PassMeta(u, t) =>
           /\ hints' = hints
           /\ Continue("meta") \/ (Ingest("meta", Submission(u, t)) /\ HintsSynced(t))
    BY DEF PassMeta
  <2>8. AddHint(u, t) =>
           \/ Die("meta") /\ hints' = hints
           \/ Continue("meta") /\ hints' = Append(hints, <<u, t>>) /\ ~HintsSynced(t)
    BY DEF AddHint
  <2> QED
    BY <2>1, <2>4, <2>5, <2>6, <2>7, <2>8
\* A step that stores what is next of its target.
<1>9. ASSUME StoreMeta \/ StoreFile \/ \E doc \in LocalDocs : Local(doc),
             Grows(db, db'), hints' = hints, HintsOrdered' => FetchedInOrder'
      PROVE  OrderInv'
  <2>1. HintsOrdered'
    BY <1>1, <1>9, HintsOrderedKept
  <2>2. \A j \in DOMAIN MetaLines :
           Resolvable(db', MetaLines[j][1]) => Resolvable(db, MetaLines[j][1]) \/ Before(j)
    BY <1>1, <1>9, NewInOrder
  <2>3. MetaOrder'
    BY <1>1, <1>9, <2>2, MetaOrderKept
  <2> QED
    BY <1>9, <2>1, <2>3 DEF OrderInv
<1>10. CASE StoreMeta
  <2>1. /\ Grows(db, db') /\ hints' = hints
    BY <1>10, StoredMeta DEF StoreMeta
  <2>2. Moves("meta", rd'["meta"]) /\ rd'["meta"].pc = "emit"
    BY <1>10, StoredMetaMoves
  <2>3. rd'["file"] = rd["file"] /\ rd'["meta"].pc \notin Busy
    BY <1>1, <2>2 DEF Moves, Busy, OnDep
  <2>4. FetchedInOrder'
    BY <1>1, <2>1, <2>3, FetchedKept
  <2> QED
    BY <1>9, <1>10, <2>1, <2>4
<1>11. CASE StoreFile
  <2> PICK u : u = PrimaryOf[rd["file"].sub.hash]
    OBVIOUS
  <2>1. Grows(db, db') /\ hints' = hints /\ rd["file"].pc \in Busy /\ u \in URIs
    BY <1>11, StoredFile DEF StoreFile, Busy, OnDep
  <2>2. rd'["meta"] = rd["meta"]
    <3>1. PICK f, max \in Nat : NextHint(f, u, max) \/ LastHint(f, u, max)
      BY <1>11, StoredFile
    <3>2. Moves("file", rd'["file"])
      BY <1>1, <2>1, <3>1, NextHintIs, Committed DEF LastHint
    <3> QED
      BY <1>1, <3>2 DEF Moves
  <2>3. ASSUME HintsOrdered' PROVE FetchedInOrder'
    <3>1. ASSUME rd'["meta"].pc \in Busy PROVE Before(rd["meta"].next)'
      <4>1. PICK n : n = rd["meta"].next
        OBVIOUS
      <4>2. Before(n)
        BY <1>1, <2>2, <3>1, <4>1 DEF FetchedInOrder
      <4>3. Before(n)' /\ n = rd'["meta"].next
        BY <2>1, <2>2, <4>1, <4>2, BeforeKept
      <4> QED
        BY <4>3 DEF Before
    <3>2. ASSUME rd'["file"].pc \in OnDep, NEW n \in DOMAIN MetaLines, hints'[rd'["file"].hint] = MetaLines[n]
          PROVE  Before(n)'
      BY <1>11, <2>3, <3>2, HintInOrder
    <3> QED
      BY <3>1, <3>2 DEF FetchedInOrder
  <2> QED
    BY <1>9, <1>11, <2>1, <2>3
<1>12. ASSUME NEW doc \in LocalDocs, Local(doc) PROVE OrderInv'
  <2>1. Grows(db, db') /\ hints' = hints /\ rd' = rd
    BY <1>12, StoredLocal DEF Local, fibers
  <2>2. FetchedInOrder'
    BY <1>1, <2>1, FetchedKept
  <2> QED
    BY <1>9, <1>12, <2>1, <2>2
<1>13. ASSUME NEW w \in Workers, WorkAwait(w) \/ WorkDone(w) \/ WorkerFails(w) PROVE OrderInv'
  <2>1. db' = db /\ hints' = hints /\ rd' = rd
    BY <1>13 DEF WorkAwait, WorkDone, WorkerFails, tables
  <2> QED
    BY <1>3, <2>1
<1>14. ASSUME NEW p \in Readers, ReaderFails(p) PROVE OrderInv'
  <2>1. Moves(p, rd'[p]) /\ rd'[p].pc = "dead" /\ db' = db /\ hints' = hints
    BY <1>1, <1>14, Died DEF ReaderFails, tables
  <2> QED
    BY <1>4, <2>1
<1>15. CASE Crash
  <2>1. /\ rd'["file"] = Starting /\ rd'["meta"] = Starting /\ db' = db /\ hints' = hints
    BY <1>1, <1>15, StartingOK DEF Crash, tables
  <2>2. Starting.pc \notin Busy /\ Starting.pc \notin OnDep
    BY DEF Starting, Busy, OnDep
  <2> QED
    BY <1>3, <2>1, <2>2
<1>16. ASSUME NEW p \in Readers, Emit(p) PROVE OrderInv'
  <2>1. Moves(p, rd'[p]) /\ rd'[p].pc \in {"read", "dead"} /\ db' = db /\ hints' = hints
    BY <1>1, <1>16, Emitted DEF Emit, tables
  <2> QED
    BY <1>4, <2>1
<1>17. ASSUME NEW id, EmitLocal(id) \/ UNCHANGED vars PROVE OrderInv'
  <2>1. db' = db /\ hints' = hints /\ rd' = rd
    BY <1>17 DEF EmitLocal, tables, fibers, vars
  <2> QED
    BY <1>3, <2>1
<1> QED
  BY <1>5, <1>6, <1>7, <1>8, <1>10, <1>11, <1>12, <1>13, <1>14, <1>15, <1>16, <1>17
     DEF Next, Step, Fail

LEMMA InitOrderInv == Init => OrderInv
<1> SUFFICES ASSUME Init PROVE OrderInv
  OBVIOUS
<1>1. HintsOrdered
  BY DEF Init, HintsOrdered
<1>2. FetchedInOrder
  BY DEF Init, NewReaders, Starting, Readers, Busy, OnDep, FetchedInOrder
<1>3. MetaOrder
  BY DEF Init, EmptyDB, MetaOrder
<1> QED
  BY <1>1, <1>2, <1>3 DEF OrderInv

\* The meta-files of a target are stored in the order in which the remote lists
\* them, by whichever reader and across restarts (SLNSyncIngestMetaURI: "We don't
\* have the previous hints, meaning we should queue ours").
THEOREM MetaFilesInOrder ==
  ASSUME ListsApart, OthersApart
  PROVE  Spec => []MetaOrder
<1>1. TypeOK /\ TypeOK' /\ PullInv /\ PullInv' /\ OrderInv /\ [Next]_vars => OrderInv'
  BY NextOrderInv
<1>2. OrderInv => MetaOrder
  BY DEF OrderInv
<1> QED
  BY <1>1, <1>2, InitTypeOK, NextTypeOK, InitPullInv, NextPullInv, InitOrderInv, PTL DEF Spec

-----------------------------------------------------------------------------
(***************************************************************************)
(* One life of the process.                                                *)
(***************************************************************************)
\* A file that has synced its hints, has.
LEMMA SyncedKept ==
  ASSUME TablesOK, Grows(db, db'), synced \subseteq synced', NEW t \in URIs, HintsSynced(t)
  PROVE  HintsSynced(t)'
<1>1. PICK f \in synced : Resolves(db, t, f)
  BY DEF HintsSynced
<1>2. f \in DOMAIN db.file
  BY DEF TablesOK
<1>3. Resolves(db', t, f)
  BY <1>1, <1>2 DEF Grows
<1> QED
  BY <1>1, <1>3 DEF HintsSynced

\* A step on which no listed file becomes resolvable, and after which the file
\* reader is where it was, at the start or gone, or behind what has synced.
LEMMA SyncedInvKept ==
  ASSUME TypeOK, TypeOK', SyncedInv, Grows(db, db'), synced' = synced, last'["file"] = last["file"],
         \A i \in DOMAIN FileLines : Resolvable(db', FileLines[i]) => Resolvable(db, FileLines[i]),
         rd'["file"].pc \notin {"start", "dead"} =>
            \A i \in 1..(rd'["file"].next - 1) : HintsSynced(FileLines[i]),
         rd'["file"].pc # "dead" =>
            /\ rd["file"].pc # "dead"
            /\ rd["file"].pc \in OnDep => rd'["file"].pc \in OnDep /\ rd'["file"].next = rd["file"].next
  PROVE  SyncedInv'
<1>1. TablesOK /\ TablesOK' /\ DOMAIN FileLines = 1..Len(FileLines) /\ Len(FileLines) \in Nat
  BY LinesTyped DEF TypeOK
<1>2. ASSUME NEW i \in DOMAIN FileLines, HintsSynced(FileLines[i]) PROVE HintsSynced(FileLines[i])'
  <2>1. PICK t : t = FileLines[i]
    OBVIOUS
  <2>2. t \in URIs /\ HintsSynced(t)
    BY <1>2, <2>1, LinesTyped
  <2>3. HintsSynced(t)'
    BY <1>1, <2>2, SyncedKept
  <2> QED
    BY <2>1, <2>3 DEF HintsSynced
<1>3. Resume("file")' = Resume("file") /\ Resume("file") \in 1..(Len(FileLines) + 1)
  <2>1. Resume("file")' = Resume("file")
    BY DEF Resume
  <2>2. Resume("file") \in 1..(Len(Lines("file")) + 1)
    BY <1>1, ResumeRight DEF Readers
  <2> QED
    BY <2>1, <2>2 DEF Lines
<1>4. \A i \in 1..(Resume("file")' - 1) : HintsSynced(FileLines[i])'
  BY <1>1, <1>2, <1>3 DEF SyncedInv
<1>5. ASSUME rd'["file"].pc \notin {"start", "dead"}, NEW i \in 1..(rd'["file"].next - 1)
      PROVE  HintsSynced(FileLines[i])'
  <2>1. PICK t : t = FileLines[i]
    OBVIOUS
  <2>2. HintsSynced(t)
    BY <1>5, <2>1
  <2>3. PICK f \in synced : Resolves(db, t, f)
    BY <2>2 DEF HintsSynced
  <2>4. t \in URIs
    BY <1>1, <2>3, IndexTyped DEF TablesOK, Resolves
  <2>5. HintsSynced(t)'
    BY <1>1, <2>2, <2>4, SyncedKept
  <2> QED
    BY <2>1, <2>5 DEF HintsSynced
<1>6. ASSUME rd'["file"].pc # "dead", NEW i \in DOMAIN FileLines, Resolvable(db', FileLines[i])
      PROVE  \/ HintsSynced(FileLines[i])'
             \/ rd'["file"].pc \in OnDep /\ FileLines[i] = FileLines[rd'["file"].next]
  BY <1>2, <1>6 DEF SyncedInv
<1> QED
  BY <1>4, <1>5, <1>6 DEF SyncedInv

\* The file reader stores: what is there now has synced, but for its own file.
LEMMA StoreFileSyncedInv ==
  ASSUME TypeOK, TypeOK', PullInv, SyncedInv, ListsApart, StoreFile
  PROVE  SyncedInv'
<1>1. PICK i, u : i = rd["file"].next /\ u = FileLines[i]
  OBVIOUS
<1>2. /\ u = PrimaryOf[rd["file"].sub.hash] /\ u \in URIs /\ i \in DOMAIN FileLines
      /\ Grows(db, db') /\ IndexOK(db')
      /\ \A v : Resolvable(db', v) => Resolvable(db, v) \/ v \in URIsOf[Posted("file").hash]
  BY <1>1, StoredFile
<1>3. PICK f \in DOMAIN db'.file, max \in Nat : Resolves(db', u, f) /\ (NextHint(f, u, max) \/ LastHint(f, u, max))
  BY <1>2, StoredFile
<1>4. /\ TablesOK /\ TablesOK' /\ ReadersOK /\ "file" \in Readers /\ i \in Nat
      /\ DOMAIN FileLines = 1..Len(FileLines) /\ Len(FileLines) \in Nat
      /\ rd["file"].pc \in {"store", "depstore"} /\ rd["file"].pc \in Busy
  BY <1>2, LinesTyped DEF TypeOK, Readers, StoreFile, Busy, OnDep
<1>5. ASSUME NEW k \in DOMAIN FileLines, Resolvable(db', FileLines[k])
      PROVE  HintsSynced(FileLines[k]) \/ FileLines[k] = u
  <2>1. CASE Resolvable(db, FileLines[k])
    BY <1>1, <1>4, <1>5, <2>1 DEF SyncedInv
  <2>2. CASE FileLines[k] \in URIsOf[Posted("file").hash]
    <3>1. CASE rd["file"].pc = "store"
      <4>1. Posted("file").hash = Served[u]
        BY <1>1, <3>1, FilePosted
      <4>2. i \in DOMAIN FileLines /\ u = FileLines[i]
        BY <1>1, <1>2
      <4>3. FileLines[k] \in URIsOf[Served[FileLines[i]]]
        BY <2>2, <4>1, <4>2
      <4>4. FileLines[k] = FileLines[i]
        BY <4>2, <4>3, ServedApart
      <4> QED
        BY <4>2, <4>4
    <3>2. CASE rd["file"].pc = "depstore"
      <4>1. PICK n \in DOMAIN MetaLines : Posted("file").hash = Served[MetaLines[n][1]]
        BY <3>2, FilePosted
      <4> QED
        BY <2>2, <4>1, ServedApart
    <3> QED
      BY <1>4, <3>1, <3>2
  <2> QED
    BY <1>2, <1>5, <2>1, <2>2
<1>6. /\ \A k \in 1..(Resume("file") - 1) : HintsSynced(FileLines[k])
      /\ \A k \in 1..(i - 1) : HintsSynced(FileLines[k])
  BY <1>1, <1>4 DEF SyncedInv
<1>7. synced \subseteq synced'
  BY <1>3 DEF NextHint, LastHint
<1>8. \A t \in URIs : HintsSynced(t) => HintsSynced(t)'
  BY <1>2, <1>4, <1>7, SyncedKept
<1>9. \A k \in DOMAIN FileLines : FileLines[k] \in URIs
  BY LinesTyped
<1>10. CASE NextHint(f, u, max)
  <2>1. rd'["file"].pc = "depenqueue" /\ rd'["file"].next = i
    BY <1>1, <1>2, <1>4, <1>10, NextHintIs
  <2>2. Resume("file")' = Resume("file") /\ Resume("file") \in 1..(Len(FileLines) + 1)
    <3>1. last' = last
      BY <1>10 DEF NextHint
    <3>2. Resume("file") \in 1..(Len(Lines("file")) + 1)
      BY <1>4, ResumeRight
    <3> QED
      BY <3>1, <3>2 DEF Resume, Lines
  <2>3. \A k \in 1..(Resume("file")' - 1) : HintsSynced(FileLines[k])'
    BY <1>4, <1>6, <1>8, <1>9, <2>2
  <2>4. \A k \in 1..(rd'["file"].next - 1) : HintsSynced(FileLines[k])'
    BY <1>2, <1>4, <1>6, <1>8, <1>9, <2>1
  <2>5. \A k \in DOMAIN FileLines : Resolvable(db', FileLines[k]) =>
           HintsSynced(FileLines[k])' \/ FileLines[k] = FileLines[rd'["file"].next]
    BY <1>1, <1>5, <1>8, <1>9, <2>1
  <2> QED
    BY <2>1, <2>3, <2>4, <2>5 DEF SyncedInv, OnDep
<1>11. CASE LastHint(f, u, max)
  <2>1. f \in synced' /\ last' = [last EXCEPT !["file"] = u] /\ Commit("file", max)
    BY <1>11 DEF LastHint
  <2>2. rd'["file"].pc = "emit" /\ rd'["file"].next = i + 1
    BY <1>1, <1>3, <1>4, <2>1, Committed
  <2>3. HintsSynced(u)'
    BY <1>3, <2>1 DEF HintsSynced
  <2>4. ASSUME NEW k \in 1..i PROVE HintsSynced(FileLines[k])'
    <3>1. k \in DOMAIN FileLines
      BY <1>2, <1>4
    <3>2. CASE k = i
      BY <1>1, <2>3, <3>2
    <3>3. CASE k # i
      BY <1>4, <1>6, <1>8, <1>9, <3>1, <3>3
    <3> QED
      BY <3>2, <3>3
  <2>5. Resume("file")' \in Nat /\ Resume("file")' <= i + 1
    <3>1. ResumesBehind'
      BY <1>4, ResumesRight, PTL
    <3>2. i \in DOMAIN Lines("file") /\ LineURI("file", i) = u
      BY <1>1, <1>2 DEF Lines, LineURI
    <3>3. last'["file"] = u
      BY <1>4, <2>1 DEF TablesOK
    <3> QED
      BY <1>4, <3>1, <3>2, <3>3 DEF ResumesBehind
  <2>6. \A k \in 1..(Resume("file")' - 1) : HintsSynced(FileLines[k])'
    BY <1>4, <2>4, <2>5
  <2>7. \A k \in 1..(rd'["file"].next - 1) : HintsSynced(FileLines[k])'
    BY <1>4, <2>2, <2>4
  <2>8. \A k \in DOMAIN FileLines : Resolvable(db', FileLines[k]) => HintsSynced(FileLines[k])'
    BY <1>5, <1>8, <1>9, <2>3
  <2> QED
    BY <2>6, <2>7, <2>8 DEF SyncedInv
<1> QED
  BY <1>3, <1>10, <1>11

\* Every step of one life keeps what has synced.
LEMMA NextSyncedInv ==
  ASSUME TypeOK, TypeOK', PullInv, SyncedInv, ListsApart, [Step \/ Fail]_vars
  PROVE  SyncedInv'
<1>1. /\ TablesOK /\ ReadersOK /\ "file" \in Readers /\ "meta" \in Readers /\ Grows(db, db)
      /\ last \in [Readers -> URIs \cup {NoURI}]
      /\ rd["file"].pc \notin {"start", "dead"} =>
            \A i \in 1..(rd["file"].next - 1) : HintsSynced(FileLines[i])
  BY GrowsSame DEF TypeOK, TablesOK, SyncedInv, Readers
\* A step that stores nothing and leaves the file reader alone.
<1>2. ASSUME rd'["file"] = rd["file"], db' = db, synced' = synced, last'["file"] = last["file"]
      PROVE  SyncedInv'
  BY <1>1, <1>2, SyncedInvKept
\* A step of the file reader that stores nothing.
<1>3. ASSUME UNCHANGED <<tables>>,
             rd'["file"].pc \notin {"start", "dead"} =>
                \A i \in 1..(rd'["file"].next - 1) : HintsSynced(FileLines[i]),
             rd'["file"].pc # "dead" =>
                /\ rd["file"].pc # "dead"
                /\ rd["file"].pc \in OnDep => rd'["file"].pc \in OnDep /\ rd'["file"].next = rd["file"].next
      PROVE  SyncedInv'
  <2>1. db' = db /\ synced' = synced /\ last' = last
    BY <1>3 DEF tables
  <2> QED
    BY <1>1, <1>3, <2>1, SyncedInvKept
<1>4. ASSUME NEW p \in Readers, Start(p) PROVE SyncedInv'
  <2>1. /\ Moves(p, rd'[p]) /\ rd'[p].pc = "read" /\ rd'[p].next = Resume(p) /\ rd[p].pc = "start"
        /\ UNCHANGED <<tables>>
    BY <1>4, ReaderSteps DEF Start
  <2>2. CASE p = "file"
    <3>1. \A i \in 1..(Resume("file") - 1) : HintsSynced(FileLines[i])
      BY DEF SyncedInv
    <3> QED
      BY <1>3, <2>1, <2>2, <3>1 DEF OnDep
  <2>3. CASE p = "meta"
    BY <1>1, <1>2, <2>1, <2>3 DEF Moves, tables
  <2> QED
    BY <2>2, <2>3 DEF Readers
<1>5. ASSUME NEW p \in Readers, Enqueue(p) \/ Dequeue(p) PROVE SyncedInv'
  <2>1. PICK pc \in Busy : /\ Moves(p, [rd[p] EXCEPT !.pc = pc]) /\ rd[p].pc \in Busy
                           /\ pc \in OnDep <=> rd[p].pc \in OnDep
    BY <1>5, ReaderSteps DEF Enqueue, Dequeue, Busy, OnDep
  <2>2. /\ rd'[p].pc = pc /\ rd'[p].next = rd[p].next
        /\ \A o \in Readers \ {p} : rd'[o] = rd[o]
    BY <1>1, <2>1 DEF Moves, ReadersOK, Fibers
  <2>3. UNCHANGED <<tables>> /\ rd[p].pc \notin {"start", "dead"}
    BY <1>5, <2>1 DEF Enqueue, Dequeue, Busy, OnDep
  <2>4. CASE p = "file"
    BY <1>1, <1>3, <2>1, <2>2, <2>3, <2>4
  <2>5. CASE p = "meta"
    BY <1>1, <1>2, <2>2, <2>3, <2>5 DEF tables
  <2> QED
    BY <2>4, <2>5 DEF Readers
<1>6. CASE ReadFile
  <2> PICK i : i = rd["file"].next
    OBVIOUS
  <2>1. /\ i \in DOMAIN FileLines /\ i \in Nat /\ rd["file"].pc = "read" /\ UNCHANGED <<tables>>
        /\ DOMAIN Lines("file") = DOMAIN FileLines
    BY <1>6, FileRead, LinesTyped DEF ReadFile, Lines
  <2>2. \A k \in 1..(i - 1) : HintsSynced(FileLines[k])
    BY <1>1, <2>1
  <2>3. CASE Resolvable(db, FileLines[i]) /\ Continue("file")
    <3>1. rd'["file"].next = i + 1
      BY <1>1, <2>3, Continued
    <3>2. HintsSynced(FileLines[i])
      BY <2>1, <2>3 DEF SyncedInv, OnDep
    <3>3. \A k \in 1..((i + 1) - 1) : HintsSynced(FileLines[k])
      BY <2>1, <2>2, <3>2
    <3> QED
      BY <1>3, <2>1, <3>1, <3>3 DEF OnDep
  <2>4. CASE Ingest("file", LineSub("file", i))
    <3>1. rd'["file"].pc = "enqueue" /\ rd'["file"].next = i
      BY <1>1, <2>1, <2>4, Ingested
    <3> QED
      BY <1>3, <2>1, <2>2, <3>1 DEF OnDep
  <2> QED
    BY <1>6, <2>3, <2>4, FileRead
<1>7. CASE ReadMeta
  <2> PICK i : i = rd["meta"].next
    OBVIOUS
  <2> DEFINE u == MetaLines[i][1]
             t == MetaLines[i][2]
  <2>1. /\ i \in DOMAIN MetaLines /\ (PassMeta(u, t) \/ AddHint(u, t))
        /\ db' = db /\ synced' = synced
    BY <1>7, LineRead DEF ReadMeta
  <2>2. i \in DOMAIN Lines("meta") /\ Submission(u, t) = LineSub("meta", i)
    BY <2>1 DEF Lines, LineSub
  <2> HIDE DEF u, t
  <2>3. Continue("meta") \/ Ingest("meta", Submission(u, t)) \/ Die("meta")
    BY <2>1 DEF PassMeta, AddHint
  <2>4. rd'["file"] = rd["file"]
    BY <1>1, <2>2, <2>3, Continued, Ingested, Died DEF Moves
  <2>5. last'["file"] = last["file"]
    BY <1>1, <2>1 DEF PassMeta, AddHint
  <2> QED
    BY <1>2, <2>1, <2>4, <2>5
<1>8. CASE StoreMeta
  <2>1. /\ rd["meta"].next \in DOMAIN MetaLines /\ Grows(db, db') /\ synced' = synced
        /\ last'["file"] = last["file"]
    BY <1>1, <1>8, StoredMeta DEF StoreMeta
  <2>2. rd'["file"] = rd["file"]
    BY <1>1, <1>8, StoredMetaMoves DEF Moves
  <2>3. ASSUME NEW k \in DOMAIN FileLines, Resolvable(db', FileLines[k]) PROVE Resolvable(db, FileLines[k])
    <3>1. FileLines[k] \notin URIsOf[rd["meta"].sub.hash]
      BY <1>8, <2>1, MetaPosted, ServedApart
    <3>2. Resolvable(db, FileLines[k]) \/ FileLines[k] \in URIsOf[rd["meta"].sub.hash]
      BY <1>8, <2>3, StoredMeta
    <3> QED
      BY <3>1, <3>2
  <2> QED
    BY <1>1, <2>1, <2>2, <2>3, SyncedInvKept
<1>9. ASSUME NEW w \in Workers, WorkAwait(w) \/ WorkDone(w) \/ WorkerFails(w) PROVE SyncedInv'
  <2>1. db' = db /\ synced' = synced /\ last' = last /\ rd' = rd
    BY <1>9 DEF WorkAwait, WorkDone, WorkerFails, tables
  <2> QED
    BY <1>2, <2>1
<1>10. ASSUME NEW p \in Readers, ReaderFails(p) PROVE SyncedInv'
  <2>1. Moves(p, rd'[p]) /\ rd'[p].pc = "dead" /\ UNCHANGED <<tables>>
    BY <1>1, <1>10, Died DEF ReaderFails
  <2>2. CASE p = "file"
    BY <1>3, <2>1, <2>2
  <2>3. CASE p = "meta"
    BY <1>1, <1>2, <2>1, <2>3 DEF Moves, tables
  <2> QED
    BY <2>2, <2>3 DEF Readers
<1>11. CASE UNCHANGED vars
  <2>1. db' = db /\ synced' = synced /\ last' = last /\ rd' = rd
    BY <1>11 DEF vars
  <2> QED
    BY <1>2, <2>1
<1>12. ASSUME NEW p \in Readers, Emit(p) PROVE SyncedInv'
  <2>1. /\ Moves(p, rd'[p]) /\ rd'[p].pc \in {"read", "dead"} /\ rd'[p].next = rd[p].next
        /\ rd[p].pc = "emit" /\ UNCHANGED <<tables>>
    BY <1>1, <1>12, Emitted DEF Emit
  <2>2. CASE p = "file"
    BY <1>1, <1>3, <2>1, <2>2 DEF OnDep
  <2>3. CASE p = "meta"
    BY <1>1, <1>2, <2>1, <2>3 DEF Moves, tables
  <2> QED
    BY <2>2, <2>3 DEF Readers
<1> QED
  BY <1>4, <1>5, <1>6, <1>7, <1>8, <1>9, <1>10, <1>11, <1>12, StoreFileSyncedInv DEF Step, Fail

LEMMA InitSyncedInv == Init => SyncedInv
<1> SUFFICES ASSUME Init PROVE SyncedInv
  OBVIOUS
<1>1. rd["file"].pc = "start" /\ Resume("file") = 1
  BY DEF Init, NewReaders, Starting, Readers, Resume
<1>2. \A u : ~Resolvable(db, u)
  BY DEF Init, EmptyDB, Resolvable
<1> QED
  BY <1>1, <1>2 DEF SyncedInv

\* While the process lives and its other clients rest, every file recorded as
\* passed has synced its hints, whatever fails (SLNSyncStoreSubmission: "It's
\* critical that this happens after set_hints_synced").
THEOREM RecordedAreSynced ==
  ASSUME ListsApart
  PROVE  PullSpec => []RecordedSynced
<1>1. TypeOK /\ TypeOK' /\ PullInv /\ SyncedInv /\ [Step \/ Fail]_vars => SyncedInv'
  BY NextSyncedInv
<1>2. SyncedInv => RecordedSynced
  BY DEF SyncedInv, RecordedSynced
<1>3. [Step \/ Fail]_vars => [Next]_vars
  BY DEF Next
<1> QED
  BY <1>1, <1>2, <1>3, InitTypeOK, NextTypeOK, InitPullInv, NextPullInv, InitSyncedInv, PTL DEF PullSpec

=============================================================================
