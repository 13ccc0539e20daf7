------------------------------ MODULE FileIndex ------------------------------
(***************************************************************************)
(* The index of a repository as a value: the tables of SLNDB.h that        *)
(* SLNSubmissionStore (SLNSubmission.c) and SLNSubmissionParseMetaFile     *)
(* (SLNSubmissionMeta.c) fill, and what storing one document makes of      *)
(* them.  Contents are named by their internal hash; what matters of a     *)
(* content is which URIs name it and, for a meta-file, its first line.     *)
(***************************************************************************)
EXTENDS Naturals, Sequences, FiniteSets

CONSTANTS
    Hashes,     \* contents, named by their internal (full SHA-256) hash
    URIs,       \* hash URIs; a short URI may belong to several contents
    NoURI,      \* "no URI": an argument left NULL, an unusable first line
    Types,      \* content types
    MetaTypes,  \* the types SLNSubmissionParseMetaFile treats as meta-files
    URIsOf,     \* [Hashes -> SUBSET URIs], SLNHasherEnd: every name of a content
    TargetOf,   \* [Hashes -> URIs \cup {NoURI}], the first line of a content
    Parses      \* the contents whose body is well-formed JSON

Documents == [hash : Hashes, type : Types,
              knownURI : URIs \cup {NoURI}, knownTarget : URIs \cup {NoURI}]

ASSUME IndexAssumption ==
    /\ NoURI \notin URIs
    /\ MetaTypes \subseteq Types
    /\ URIsOf \in [Hashes -> SUBSET URIs]
    /\ TargetOf \in [Hashes -> URIs \cup {NoURI}]

\* A content cannot name its own hash: that would be a fixed point of the hash.
ASSUME NoFixedPoint == \A h \in Hashes : TargetOf[h] \notin URIsOf[h]

-----------------------------------------------------------------------------
(***************************************************************************)
(* The database.  A value of the tables is a record:                       *)
(*   file  FileByID: file ID -> hash and type.  kvs_next_id is the last    *)
(*         key plus one and rows are never deleted, so it is a sequence.   *)
(*         FileIDByInfo is its inverse.                                    *)
(*   uri   URIAndFileID (and its mirror FileIDAndURI).                     *)
(*   meta  MetaFileByID: meta-file ID and target URI (and its mirror       *)
(*         TargetURIAndMetaFileID).                                        *)
(*   first FirstUniqueMetaFileID.                                          *)
(***************************************************************************)
Info(doc) == [hash |-> doc.hash, type |-> doc.type]

EmptyDB == [file |-> <<>>, uri |-> {}, meta |-> {}, first |-> {}]

Metas(d) == {row[1] : row \in d.meta}

\* SLNURIGetFileID: the first, that is the oldest, file a URI names.
Resolves(d, u, id) ==
    /\ <<u, id>> \in d.uri
    /\ \A row \in d.uri : row[1] = u => id <= row[2]

Resolvable(d, u) == \E row \in d.uri : row[1] = u

\* Mutant: the put of FileIDByInfo overwrites, so every submission is new.
HasID_Overwrite(d, doc, id) == id = Len(d.file) + 1

\* The ID FileIDByInfo already holds for the document, or else the next free one.
HasID(d, doc, id) ==
    \/ id \in DOMAIN d.file /\ d.file[id] = Info(doc)
    \/ /\ id = Len(d.file) + 1
       /\ \A i \in DOMAIN d.file : d.file[i] # Info(doc)

\* Mutant: URIAndFileID keyed by URI alone, so the newest file takes it over.
WithFile_Overwrite(d, doc, id) ==
    [d EXCEPT !.file = IF id > Len(d.file) THEN Append(@, Info(doc)) ELSE @,
              !.uri = {row \in @ : row[1] \notin URIsOf[doc.hash]}
                        \cup (URIsOf[doc.hash] \X {id})]

\* SLNSubmissionStore up to the call of SLNSubmissionParseMetaFile.
WithFile(d, doc, id) ==
    [file  |-> IF id > Len(d.file) THEN Append(d.file, Info(doc)) ELSE d.file,
     uri   |-> d.uri \cup (URIsOf[doc.hash] \X {id}),
     meta  |-> d.meta,
     first |-> d.first]

IsMeta(doc) == doc.type \in MetaTypes

\* Mutant: the duplicate check asks the next ID of FileByID instead.
SeenMeta_FileByID(d, id) == id < Len(d.file) + 1

\* metaFileID < kvs_next_id(SLNMetaFileByID): some meta-file ID is as large.
SeenMeta(d, id) == \E m \in Metas(d) : id <= m

\* Mutant: add_metafile does not look whether the target is a meta-file.
TargetOK_AnyTarget(d, doc) ==
    LET t == TargetOf[doc.hash] IN
    /\ doc.knownTarget \in {NoURI, t}
    /\ Resolvable(d, t)
    /\ doc.hash \in Parses

\* Mutant: a meta-file may come before its target.
TargetOK_NoTarget(d, doc) ==
    LET t == TargetOf[doc.hash] IN
    /\ t # NoURI
    /\ doc.knownTarget \in {NoURI, t}
    /\ doc.hash \in Parses

\* The checks of SLNSubmissionParseMetaFile and add_metafile, on the tables as
\* they are once the document's own file and URIs are in.
TargetOK(d, doc) ==
    LET t == TargetOf[doc.hash] IN
    /\ t # NoURI
    /\ doc.knownTarget \in {NoURI, t}
    /\ \E i \in 1..Len(d.file) : Resolves(d, t, i) /\ i \notin Metas(d)
    /\ doc.hash \in Parses

\* Mutant: the search for an earlier meta-file of the target is dropped.
WithMeta_AlwaysFirst(d, doc, id) ==
    [d EXCEPT !.meta = @ \cup {<<id, TargetOf[doc.hash]>>},
              !.first = @ \cup {id}]

WithMeta(d, doc, id) ==
    LET t == TargetOf[doc.hash] IN
    [file  |-> d.file,
     uri   |-> d.uri,
     meta  |-> d.meta \cup {<<id, t>>},
     first |-> IF \E row \in d.meta : row[2] = t THEN d.first ELSE d.first \cup {id}]

\* SLNSubmissionStore succeeds and leaves the tables as e.
Stores(d, doc, id, e) ==
    LET f == WithFile(d, doc, id) IN
    /\ HasID(d, doc, id)
    /\ \/ ~IsMeta(doc) /\ doc.knownTarget = NoURI /\ e = f
       \/ IsMeta(doc) /\ SeenMeta(f, id) /\ e = f
       \/ /\ IsMeta(doc) /\ ~SeenMeta(f, id)
          /\ TargetOK(f, doc)
          /\ e = WithMeta(f, doc, id)

Refuses(d, doc, id) ==
    LET f == WithFile(d, doc, id) IN
    /\ HasID(d, doc, id)
    /\ \/ ~IsMeta(doc) /\ doc.knownTarget # NoURI
       \/ IsMeta(doc) /\ ~SeenMeta(f, id) /\ ~TargetOK(f, doc)

-----------------------------------------------------------------------------
(***************************************************************************)
(* What every committed state of the tables satisfies.                     *)
(***************************************************************************)
IndexType(d) ==
    /\ d \in [file : Seq([hash : Hashes, type : Types]),
              uri : SUBSET (URIs \X (Nat \ {0})),
              meta : SUBSET ((Nat \ {0}) \X URIs),
              first : SUBSET (Nat \ {0})]

\* One ID per hash and type: FileIDByInfo is a function.
DistinctFiles(d) ==
    \A i, j \in DOMAIN d.file : d.file[i] = d.file[j] => i = j

\* A file is found under each of its URIs, and under no other.
URIsExact(d) ==
    d.uri = {row \in URIs \X DOMAIN d.file : row[1] \in URIsOf[d.file[row[2]].hash]}

\* Exactly the files of a meta-file type are indexed as meta-files, each
\* under the target its content names.
MetasExact(d) ==
    /\ \A i \in DOMAIN d.file :
          d.file[i].type \in MetaTypes => <<i, TargetOf[d.file[i].hash]>> \in d.meta
    /\ \A row \in d.meta :
          /\ row[1] \in DOMAIN d.file
          /\ d.file[row[1]].type \in MetaTypes
          /\ row[2] = TargetOf[d.file[row[1]].hash]

\* A meta-file is younger than the file its target resolves to, and that
\* file is not a meta-file.
TargetsOlder(d) ==
    \A row \in d.meta : \E i \in DOMAIN d.file :
        Resolves(d, row[2], i) /\ i < row[1] /\ i \notin Metas(d)

\* FirstUniqueMetaFileID marks the oldest meta-file of each target URI.
FirstsExact(d) ==
    d.first = {m \in Metas(d) : \E row \in d.meta :
                  row[1] = m /\ \A r \in d.meta : r[2] = row[2] => m <= r[1]}

IndexOK(d) ==
    /\ IndexType(d)
    /\ DistinctFiles(d)
    /\ URIsExact(d)
    /\ MetasExact(d)
    /\ TargetsOlder(d)
    /\ FirstsExact(d)

=============================================================================
