--------------------------- MODULE FileIndexProofs ---------------------------
(***************************************************************************)
(* Storing one document keeps the index well-formed, whatever the document *)
(* and the state of the tables.                                            *)
(***************************************************************************)
EXTENDS FileIndex, SequenceTheorems, TLAPS

\* The empty tables are well-formed.
LEMMA EmptyIndexOK == IndexOK(EmptyDB)
  BY DEF EmptyDB, IndexOK, IndexType, DistinctFiles, URIsExact, MetasExact,
         TargetsOlder, FirstsExact, Metas

\* Rows d has and f lacks none of, whose file IDs are not new, resolve as they did.
LEMMA ResolvesKept ==
  ASSUME NEW d, NEW f, NEW u, NEW i,
         d.uri \subseteq f.uri,
         \A row \in f.uri : row \in d.uri \/ i <= row[2],
         Resolves(d, u, i)
  PROVE  Resolves(f, u, i)
  BY DEF Resolves

\* The file and its URIs: what SLNSubmissionStore does before it looks at
\* meta-files keeps every part of the index but leaves a new meta-file unlisted.
LEMMA WithFileOK ==
  ASSUME NEW d, IndexOK(d),
         NEW doc \in Documents,
         NEW id \in 1..(Len(d.file) + 1),
         HasID(d, doc, id)
  PROVE  LET f == WithFile(d, doc, id) IN
         /\ IndexType(f) /\ DistinctFiles(f) /\ URIsExact(f)
         /\ TargetsOlder(f) /\ FirstsExact(f)
         /\ f.meta = d.meta /\ f.first = d.first
         /\ Len(d.file) <= Len(f.file)
         /\ id \in DOMAIN f.file /\ f.file[id] = Info(doc)
         /\ DOMAIN f.file = DOMAIN d.file \cup {id}
         /\ \A i \in DOMAIN d.file : f.file[i] = d.file[i]
         /\ d.uri \subseteq f.uri
         /\ \A row \in f.uri : row \in d.uri \/ (row[2] = id /\ id = Len(d.file) + 1)
<1> DEFINE f == WithFile(d, doc, id)
<1>1. /\ d.file \in Seq([hash : Hashes, type : Types])
      /\ d.uri \in SUBSET (URIs \X (Nat \ {0}))
      /\ d.meta \in SUBSET ((Nat \ {0}) \X URIs)
      /\ d.first \in SUBSET (Nat \ {0})
      /\ d = [file |-> d.file, uri |-> d.uri, meta |-> d.meta, first |-> d.first]
  BY DEF IndexOK, IndexType
<1>2. /\ f.file = IF id > Len(d.file) THEN Append(d.file, Info(doc)) ELSE d.file
      /\ f.uri = d.uri \cup (URIsOf[doc.hash] \X {id})
      /\ f.meta = d.meta
      /\ f.first = d.first
      /\ f = [file |-> f.file, uri |-> f.uri, meta |-> f.meta, first |-> f.first]
  BY <1>1 DEF WithFile
<1>3. Info(doc) \in [hash : Hashes, type : Types]
  BY DEF Info, Documents
<1>4. URIsOf[doc.hash] \subseteq URIs
  BY IndexAssumption DEF Documents
<1>5. CASE id \in DOMAIN d.file /\ d.file[id] = Info(doc)
  <2>1. f.file = d.file
    BY <1>1, <1>2, <1>5
  <2>2. f.uri = d.uri
    BY <1>1, <1>2, <1>4, <1>5 DEF IndexOK, URIsExact, Info
  <2>3. f = d
    BY <1>1, <1>2, <2>1, <2>2
  <2>4. QED
    BY <1>5, <1>1, <2>3, <1>2 DEF IndexOK
<1>6. CASE id = Len(d.file) + 1 /\ \A i \in DOMAIN d.file : d.file[i] # Info(doc)
  <2>1. f.file = Append(d.file, Info(doc))
    BY <1>1, <1>2, <1>6
  <2>2. /\ Len(f.file) = Len(d.file) + 1
        /\ f.file \in Seq([hash : Hashes, type : Types])
        /\ f.file[id] = Info(doc)
        /\ \A i \in DOMAIN d.file : f.file[i] = d.file[i]
        /\ DOMAIN f.file = DOMAIN d.file \cup {id}
        /\ DOMAIN d.file = 1..Len(d.file)
    <3> DEFINE R == [hash : Hashes, type : Types]
    <3>1. d.file \in Seq(R) /\ Info(doc) \in R
      BY <1>1, <1>3
    <3> HIDE DEF R
    <3>2. /\ f.file \in Seq(R)
          /\ Len(f.file) = Len(d.file) + 1
          /\ \A i \in 1..Len(d.file) : f.file[i] = d.file[i]
          /\ f.file[Len(d.file) + 1] = Info(doc)
      BY <2>1, <3>1, AppendProperties
    <3>3. Len(d.file) \in Nat /\ DOMAIN d.file = 1..Len(d.file) /\ DOMAIN f.file = 1..Len(f.file)
      BY <3>1, <3>2
    <3> QED
      BY <1>6, <3>2, <3>3 DEF R
  <2>3. IndexType(f)
    <3>1. f.uri \in SUBSET (URIs \X (Nat \ {0}))
      BY <1>1, <1>2, <1>4, <1>6
    <3>2. QED
      BY <1>1, <1>2, <2>2, <3>1 DEF IndexType
  <2>4. DistinctFiles(f)
    BY <1>6, <2>2 DEF IndexOK, DistinctFiles
  <2>5. URIsExact(f)
    <3>1. d.uri = {row \in URIs \X DOMAIN d.file : row[1] \in URIsOf[d.file[row[2]].hash]}
      BY DEF IndexOK, URIsExact
    <3>2. f.file[id].hash = doc.hash
      BY <2>2 DEF Info
    <3>3. id \notin DOMAIN d.file
      BY <1>1, <1>6, <2>2
    <3>4. ASSUME NEW u \in URIs, NEW i \in DOMAIN f.file
          PROVE  <<u, i>> \in f.uri <=> u \in URIsOf[f.file[i].hash]
      BY <1>2, <2>2, <3>1, <3>2, <3>3
    <3>5. f.uri \subseteq URIs \X DOMAIN f.file
      BY <1>2, <1>4, <2>2, <3>1
    <3>6. QED
      BY <3>4, <3>5 DEF URIsExact
  <2>6. \A row \in f.uri : row \in d.uri \/ (row[2] = id /\ id = Len(d.file) + 1)
    BY <1>2, <1>6
  <2>7. TargetsOlder(f)
    <3>1. SUFFICES ASSUME NEW row \in d.meta
                   PROVE  \E i \in DOMAIN f.file :
                             Resolves(f, row[2], i) /\ i < row[1] /\ i \notin Metas(f)
      BY <1>2 DEF TargetsOlder
    <3>2. PICK i \in DOMAIN d.file : Resolves(d, row[2], i) /\ i < row[1] /\ i \notin Metas(d)
      BY DEF IndexOK, TargetsOlder
    <3>3. \A r \in f.uri : r \in d.uri \/ i <= r[2]
      BY <1>1, <1>6, <2>2, <2>6
    <3>4. Resolves(f, row[2], i)
      BY <1>2, <3>2, <3>3, ResolvesKept
    <3>5. QED
      BY <1>2, <2>2, <3>2, <3>4 DEF Metas
  <2>8. FirstsExact(f)
    BY <1>2 DEF IndexOK, FirstsExact, Metas
  <2>9. QED
    BY <1>1, <1>2, <2>2, <2>3, <2>4, <2>5, <2>6, <2>7, <2>8
<1>7. QED
  BY <1>5, <1>6 DEF HasID

\* Listing a meta-file whose checks passed: f is the index with the file in,
\* id a meta-file that no listed meta-file is as young as.
LEMMA WithMetaOK ==
  ASSUME NEW f, IndexType(f), DistinctFiles(f), URIsExact(f),
         TargetsOlder(f), FirstsExact(f),
         NEW doc \in Documents, NEW id \in DOMAIN f.file,
         f.file[id] = Info(doc), id = Len(f.file),
         IsMeta(doc), ~SeenMeta(f, id), TargetOK(f, doc),
         \A i \in DOMAIN f.file \ {id} :
            f.file[i].type \in MetaTypes => <<i, TargetOf[f.file[i].hash]>> \in f.meta,
         \A row \in f.meta :
            /\ row[1] \in DOMAIN f.file
            /\ f.file[row[1]].type \in MetaTypes
            /\ row[2] = TargetOf[f.file[row[1]].hash]
  PROVE  IndexOK(WithMeta(f, doc, id))
<1> DEFINE t == TargetOf[doc.hash]
           e == WithMeta(f, doc, id)
<1>1. /\ f.file \in Seq([hash : Hashes, type : Types])
      /\ f.uri \in SUBSET (URIs \X (Nat \ {0}))
      /\ f.meta \in SUBSET ((Nat \ {0}) \X URIs)
      /\ f.first \in SUBSET (Nat \ {0})
      /\ DOMAIN f.file = 1..Len(f.file)
      /\ Len(f.file) \in Nat
  BY DEF IndexType
<1>2. t \in URIs
  BY IndexAssumption DEF TargetOK, Documents
<1>3. /\ e.file = f.file
      /\ e.uri = f.uri
      /\ e.meta = f.meta \cup {<<id, t>>}
      /\ e.first = IF \E row \in f.meta : row[2] = t THEN f.first ELSE f.first \cup {id}
      /\ e = [file |-> e.file, uri |-> e.uri, meta |-> e.meta, first |-> e.first]
  BY DEF WithMeta
<1>4. Metas(e) = Metas(f) \cup {id}
  <2>1. \A g, m : m \in Metas(g) <=> \E row \in g.meta : row[1] = m
    BY DEF Metas
  <2>2. ASSUME NEW m
        PROVE  (\E row \in e.meta : row[1] = m) <=> (\E row \in f.meta : row[1] = m) \/ m = id
    <3>1. \A row : row \in e.meta <=> row \in f.meta \/ row = <<id, t>>
      BY <1>3
    <3> HIDE DEF e, t
    <3>2. <<id, t>>[1] = id
      OBVIOUS
    <3>3. QED
      BY <3>1, <3>2
  <2>3. QED
    BY <2>1, <2>2
<1>5. \A m \in Metas(f) : m \in Nat /\ m < id
  BY <1>1 DEF SeenMeta, Metas
<1>6. IndexType(e)
  BY <1>1, <1>2, <1>3 DEF IndexType
<1>7. DistinctFiles(e) /\ URIsExact(e)
  BY <1>3 DEF DistinctFiles, URIsExact
<1>8. MetasExact(e)
  BY <1>3 DEF MetasExact, Info, IsMeta
<1>9. TargetsOlder(e)
  <2>1. SUFFICES ASSUME NEW row \in e.meta
                 PROVE  \E i \in DOMAIN e.file :
                           Resolves(e, row[2], i) /\ i < row[1] /\ i \notin Metas(e)
    BY DEF TargetsOlder
  <2>2. CASE row \in f.meta
    <3>1. PICK i \in DOMAIN f.file : Resolves(f, row[2], i) /\ i < row[1] /\ i \notin Metas(f)
      BY <2>2 DEF TargetsOlder
    <3>2. row[1] \in Metas(f)
      BY <2>2 DEF Metas
    <3>3. i # id
      BY <1>1, <1>5, <3>1, <3>2
    <3>4. QED
      BY <1>3, <1>4, <3>1, <3>3 DEF Resolves
  <2>3. CASE row = <<id, t>>
    <3>1. PICK i \in 1..Len(f.file) : Resolves(f, t, i) /\ i \notin Metas(f)
      BY DEF TargetOK
    <3>2. i # id
      <4>1. t \notin URIsOf[doc.hash]
        BY NoFixedPoint DEF Documents
      <4>2. <<t, i>> \in f.uri
        BY <3>1 DEF Resolves
      <4>3. t \in URIsOf[f.file[i].hash]
        BY <4>2 DEF URIsExact
      <4>4. QED
        BY <4>1, <4>3 DEF Info
    <3>3. i < id
      BY <1>1, <3>2
    <3>4. QED
      BY <1>1, <1>3, <1>4, <2>3, <3>1, <3>2, <3>3 DEF Resolves
  <2>4. QED
    BY <1>3, <2>2, <2>3
<1>10. FirstsExact(e)
  <2>1. \A r \in f.meta : r[1] \in Nat /\ r[1] < id /\ r[1] \in Metas(f)
    BY <1>5 DEF Metas
  <2>2. ASSUME NEW m
        PROVE  m \in f.first <=> \E row \in f.meta :
                  row[1] = m /\ \A r \in f.meta : r[2] = row[2] => m <= r[1]
    BY DEF FirstsExact, Metas
  <2>3. ASSUME NEW m
        PROVE  (\E row \in e.meta : row[1] = m /\ \A r \in e.meta : r[2] = row[2] => m <= r[1])
                 <=> m \in e.first
    <3>1. CASE m # id
      <4>1. ASSUME NEW row \in f.meta, row[1] = m
            PROVE  (\A r \in e.meta : r[2] = row[2] => m <= r[1])
                     <=> (\A r \in f.meta : r[2] = row[2] => m <= r[1])
        BY <1>1, <1>3, <2>1, <4>1
      <4>2. m \in e.first <=> m \in f.first
        BY <1>3, <3>1
      <4>3. \A row \in e.meta : row[1] = m => row \in f.meta
        BY <1>3, <3>1
      <4>4. f.meta \subseteq e.meta
        BY <1>3
      <4>5. QED
        BY <2>2, <4>1, <4>2, <4>3, <4>4
    <3>2. CASE m = id
      <4>1. \A row \in e.meta : row[1] = id => row = <<id, t>>
        BY <1>1, <1>3, <2>1
      <4>2. (\A r \in e.meta : r[2] = t => id <= r[1]) <=> ~(\E row \in f.meta : row[2] = t)
        BY <1>1, <1>3, <2>1
      <4>3. id \notin f.first
        BY <1>1, <2>1, <2>2
      <4>4. id \in e.first <=> ~(\E row \in f.meta : row[2] = t)
        BY <1>3, <4>3
      <4>5. <<id, t>> \in e.meta
        BY <1>3
      <4>6. QED
        BY <3>2, <4>1, <4>2, <4>4, <4>5
    <3>3. QED
      BY <3>1, <3>2
  <2>4. \A m : m \in Metas(e) <=> \E row \in e.meta : row[1] = m
    BY DEF Metas
  <2>5. QED
    <3>1. ASSUME NEW m
          PROVE  m \in e.first <=>
                   /\ m \in Metas(e)
                   /\ \E row \in e.meta : row[1] = m /\ \A r \in e.meta : r[2] = row[2] => m <= r[1]
      BY <2>3, <2>4
    <3>2. QED
      BY <3>1 DEF FirstsExact
<1>11. QED
  BY <1>6, <1>7, <1>8, <1>9, <1>10 DEF IndexOK

\* Storing one document keeps the index well-formed, adds at most the file the
\* document is, and leaves every URI resolving as it did.
THEOREM StoresOK ==
  ASSUME NEW d, IndexOK(d),
         NEW doc \in Documents,
         NEW id \in 1..(Len(d.file) + 1),
         NEW e, Stores(d, doc, id, e)
  PROVE  /\ IndexOK(e)
         /\ Len(d.file) <= Len(e.file)
         /\ id \in DOMAIN e.file /\ e.file[id] = Info(doc)
         /\ DOMAIN e.file = DOMAIN d.file \cup {id}
         /\ \A i \in DOMAIN d.file : e.file[i] = d.file[i]
         /\ \A u \in URIs, i \in DOMAIN d.file : Resolves(d, u, i) => Resolves(e, u, i)
<1> DEFINE f == WithFile(d, doc, id)
<1>1. HasID(d, doc, id)
  BY DEF Stores
<1>2. /\ IndexType(f) /\ DistinctFiles(f) /\ URIsExact(f)
      /\ TargetsOlder(f) /\ FirstsExact(f)
      /\ f.meta = d.meta /\ f.first = d.first
      /\ Len(d.file) <= Len(f.file)
      /\ id \in DOMAIN f.file /\ f.file[id] = Info(doc)
      /\ DOMAIN f.file = DOMAIN d.file \cup {id}
      /\ \A i \in DOMAIN d.file : f.file[i] = d.file[i]
      /\ d.uri \subseteq f.uri
      /\ \A row \in f.uri : row \in d.uri \/ (row[2] = id /\ id = Len(d.file) + 1)
  BY <1>1, WithFileOK
<1>3. /\ \A i \in DOMAIN d.file :
            d.file[i].type \in MetaTypes => <<i, TargetOf[d.file[i].hash]>> \in d.meta
      /\ \A row \in d.meta :
            /\ row[1] \in DOMAIN d.file
            /\ d.file[row[1]].type \in MetaTypes
            /\ row[2] = TargetOf[d.file[row[1]].hash]
  BY DEF IndexOK, MetasExact
<1>4. /\ d.file \in Seq([hash : Hashes, type : Types])
      /\ Len(d.file) \in Nat /\ DOMAIN d.file = 1..Len(d.file)
      /\ d.meta \in SUBSET ((Nat \ {0}) \X URIs)
  BY DEF IndexOK, IndexType
<1> HIDE DEF f
<1>5. /\ e.file = f.file /\ e.uri = f.uri
      /\ IndexOK(e)
  <2>1. CASE e = f /\ (~IsMeta(doc) \/ SeenMeta(f, id))
    <3>1. ASSUME NEW i \in DOMAIN f.file, f.file[i].type \in MetaTypes
          PROVE  <<i, TargetOf[f.file[i].hash]>> \in f.meta
      <4>1. CASE i \in DOMAIN d.file
        BY <1>2, <1>3, <3>1, <4>1
      <4>2. CASE i = id /\ i \notin DOMAIN d.file
        <5>1. IsMeta(doc)
          BY <1>2, <3>1, <4>2 DEF Info, IsMeta
        <5>2. PICK m \in Metas(d) : id <= m
          BY <1>2, <2>1, <5>1 DEF SeenMeta, Metas
        <5>3. m \in DOMAIN d.file
          BY <1>3, <5>2 DEF Metas
        <5>4. QED
          BY <1>4, <4>2, <5>2, <5>3
      <4>3. QED
        BY <1>2, <4>1, <4>2
    <3>2. MetasExact(f)
      BY <1>2, <1>3, <3>1 DEF MetasExact
    <3>3. QED
      BY <1>2, <2>1, <3>2 DEF IndexOK
  <2>2. CASE /\ e = WithMeta(f, doc, id) /\ IsMeta(doc)
             /\ ~SeenMeta(f, id) /\ TargetOK(f, doc)
    <3>1. id \notin DOMAIN d.file
      <4>1. SUFFICES ASSUME id \in DOMAIN d.file PROVE FALSE
        OBVIOUS
      <4>2. <<id, TargetOf[d.file[id].hash]>> \in d.meta
        BY <1>2, <1>3, <2>2, <4>1 DEF IsMeta, Info
      <4>3. id \in Metas(f)
        BY <1>2, <4>2 DEF Metas
      <4>4. QED
        BY <1>4, <2>2, <4>1, <4>3 DEF SeenMeta
    <3>2. id = Len(f.file)
      <4>1. f.file \in Seq([hash : Hashes, type : Types])
        BY <1>2 DEF IndexType
      <4>2. Len(f.file) \in Nat /\ DOMAIN f.file = 1..Len(f.file)
        BY <4>1
      <4>3. id = Len(d.file) + 1
        BY <1>4, <3>1
      <4>4. id <= Len(f.file) /\ Len(f.file) \in DOMAIN f.file
        BY <1>2, <4>2
      <4>5. Len(f.file) <= id
        BY <1>2, <1>4, <4>3, <4>4
      <4>6. QED
        BY <4>2, <4>3, <4>4, <4>5, <1>4
    <3>3. IndexOK(e)
      BY <1>2, <1>3, <2>2, <3>1, <3>2, WithMetaOK, SMTT(30)
    <3>4. QED
      BY <2>2, <3>3 DEF WithMeta
  <2>3. QED
    BY <2>1, <2>2 DEF Stores, f
<1>6. ASSUME NEW u \in URIs, NEW i \in DOMAIN d.file, Resolves(d, u, i)
      PROVE  Resolves(e, u, i)
  <2>1. \A row \in e.uri : row \in d.uri \/ i <= row[2]
    BY <1>2, <1>4, <1>5
  <2>2. d.uri \subseteq e.uri
    BY <1>2, <1>5
  <2>3. QED
    BY <1>6, <2>1, <2>2, ResolvesKept
<1>7. QED
  BY <1>2, <1>5, <1>6

=============================================================================
