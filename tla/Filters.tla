------------------------------- MODULE Filters -------------------------------
(***************************************************************************)
(* Queries: the filters (SLNIndirectFilter.m, SLNDirectFilter.m,           *)
(* SLNMetaFileFilter.m, SLNCollectionFilter.m, SLNNegationFilter.m) and    *)
(* the scan over them (SLNFilterExt.c), on the tables of FileIndex.        *)
(*                                                                         *)
(* A filter lists candidates <<sort ID, file ID>> in order and tells from  *)
(* which sort ID, its "age", a file matches.  A query is a tree: an        *)
(* intersection or a union <<type, set>>, a negation <<"negation", f>> or  *)
(* a simple filter <<type, argument>>.  It is evaluated without building   *)
(* sets: a collection merges what its filters list, and the scan keeps the *)
(* candidates whose age is their sort ID.                                  *)
(***************************************************************************)
EXTENDS FileIndex, Integers, FiniteSetsExt

CONSTANTS
    Terms,      \* words, and field-value pairs: what a meta-file is indexed by
    TermsOf,    \* [Hashes -> SUBSET Terms], the terms of a content
    Docs,       \* the documents that may be stored
    Queries,    \* the queries, trees of filters
    Nodes,      \* the filters of these trees
    Depth,      \* [Nodes -> Nat], how deep a filter nests others
    MaxFiles,   \* bound: how many files are stored
    BATCH_SIZE  \* results fetched in one transaction

\* A simple filter is its type and its argument, NoURI if it has none.
Simple == ({"all", "visible", "meta"} \X {NoURI}) \cup ({"uri", "target"} \X URIs)
              \cup ({"term"} \X Terms)

\* The filters that a filter is of, and the simple ones below it.
Subfilters(f) ==
    CASE f[1] \in {"intersection", "union"} -> f[2]
      [] f[1] = "negation" -> {f[2]}
      [] OTHER -> {}

\* Trees are finite, and a collection is of something.  Nothing contains a
\* meta-file filter: no parser makes one, the server's is a query of its own.
ASSUME FilterAssumption ==
    /\ TermsOf \in [Hashes -> SUBSET Terms]
    /\ Docs \subseteq Documents
    /\ Queries \subseteq Nodes
    /\ Depth \in [Nodes -> Nat]
    /\ \A f \in Nodes :
          /\ f \in Simple \/ f[1] = "negation" \/ (f[1] \in {"intersection", "union"} /\ f[2] # {})
          /\ \A g \in Subfilters(f) : g \in Nodes /\ Depth[g] < Depth[f]
          /\ <<"meta", NoURI>> \notin Subfilters(f)
    /\ MaxFiles \in Nat
    /\ BATCH_SIZE \in Nat \ {0}

VARIABLES
    db,         \* the tables, then the snapshot the query runs on
    pc,
    query,
    dir,        \* pos->dir: 1 or -1
    start,      \* pos->URI, or NoURI
    asked,      \* history: the start URI that was asked for
    pos,        \* pos->sortID and pos->fileID
    at,         \* the position of each simple filter
    n,          \* results in this batch
    out         \* results so far

vars == <<db, pc, query, dir, start, asked, pos, at, n, out>>

Init ==
    /\ db = EmptyDB
    /\ pc = "build"
    /\ query = <<>> /\ dir = 1 /\ start = NoURI /\ asked = NoURI /\ pos = <<0, 0>>
    /\ at = <<>> /\ n = 0 /\ out = <<>>

-----------------------------------------------------------------------------
(***************************************************************************)
(* Positions.                                                              *)
(***************************************************************************)
Infinity == Len(db.file) + 1    \* UINT64_MAX

Valid(x) == x # 0 /\ x # Infinity

\* Where a filter stands that has nothing more in direction r.
Invalid(r) == IF r > 0 THEN <<Infinity, Infinity>> ELSE <<0, 0>>

Before(p, e) == p[1] < e[1] \/ (p[1] = e[1] /\ p[2] < e[2])

\* e lies ahead of p in direction r.
Ahead(r, p, e) == IF r > 0 THEN Before(p, e) ELSE Before(e, p)

\* The first of some positions in direction r.
First(r, positions) ==
    CHOOSE e \in positions : \A f \in positions : ~Ahead(r, f, e)

-----------------------------------------------------------------------------
(***************************************************************************)
(* Simple filters.                                                         *)
(***************************************************************************)
FilesOf(u) == {row[2] : row \in {r \in db.uri : r[1] = u}}

\* -match: on the indirect filters, those that select files by meta-files.
Selects(f, m) == f[1] = "visible" \/ f[2] \in TermsOf[db.file[m].hash]

\* The meta-files an indirect filter walks (-seekMeta:, -stepMeta:).
Walks(f) == IF f[1] = "visible" THEN db.first ELSE {m \in Metas(db) : Selects(f, m)}

Indirect(f) == f[1] \in {"visible", "term"}

\* The files or meta-files that a direct filter names.
Named(f) ==
    CASE f[1] = "all" -> DOMAIN db.file
      [] f[1] = "meta" -> Metas(db)
      [] f[1] = "uri" -> FilesOf(f[2])
      [] f[1] = "target" -> {row[1] : row \in {r \in db.meta : r[2] = f[2]}}

\* What a filter lists: these, or the files of the target of each meta-file that
\* an indirect filter walks.
Listed(f) ==
    IF Indirect(f)
    THEN UNION {{row[1]} \X FilesOf(row[2]) : row \in {r \in db.meta : r[1] \in Walks(f)}}
    ELSE {<<i, i>> : i \in Named(f)}

\* -seek:::, to the first entry from p on.
Sought(f, p) == First(dir, {e \in Listed(f) : ~Ahead(dir, e, p)} \cup {Invalid(dir)})

\* -step:, from p to the next.  Going back to another meta-file an indirect
\* filter begins with the first of its files, whatever the direction.
Stepped(f, p) ==
    LET ahead == {e \in Listed(f) : Ahead(dir, p, e)}
        same == {e \in ahead : e[1] = p[1]}
        next == First(dir, ahead)[1]
    IN IF ahead = {} THEN Invalid(dir)
       ELSE IF same # {} THEN First(dir, same)
       ELSE First(1, {e \in ahead : e[1] = next})

\* -fastAge::, the age of a file if that is at most sort.  For an indirect filter
\* the earliest meta-file that selects it, under any of the file's URIs.
SimpleAge(f, id, sort) ==
    LET ages == {row[1] : row \in {r \in db.meta : <<r[2], id>> \in db.uri
                                                     /\ r[1] <= sort /\ Selects(f, r[1])}}
    IN IF Indirect(f)
       THEN Min(ages \cup {Infinity})
       ELSE IF f[1] \in {"all", "meta"} \/ id \in Named(f) THEN id ELSE Infinity

-----------------------------------------------------------------------------
(***************************************************************************)
(* Collections and negations, from the ages of their filters.              *)
(***************************************************************************)
UnionFastAge(ages, sort) ==
    IF \E a \in ages : a < sort THEN 0
    ELSE IF sort \in ages THEN sort
    ELSE Infinity

IntersectionFastAge(ages, sort) ==
    IF \E a \in ages : a > sort THEN Infinity
    ELSE IF sort \in ages THEN sort
    ELSE 0

\* Mutant: only what the filter has just come to match is left.
NegationFastAge_Only(age, sort) == IF age = sort THEN sort ELSE Infinity

\* What the filter has matched before is not told from what it does not match.
NegationFastAge(age, sort) == IF age = sort THEN Infinity ELSE sort

\* The element of a set of one.  TLC evaluates e once in Only({Op(x) : x \in {e}}),
\* which is Op(e).
Only(S) == CHOOSE x \in S : TRUE

\* The age of each filter of a query, from those of its filters.
FastAge(id, sort) ==
    LET age[f \in Nodes] ==
            LET ages == {age[g] : g \in Subfilters(f)} IN
            CASE f[1] = "intersection" -> Only({IntersectionFastAge(S, sort) : S \in {ages}})
              [] f[1] = "union"        -> Only({UnionFastAge(S, sort) : S \in {ages}})
              [] f[1] = "negation"     -> NegationFastAge(age[f[2]], sort)
              [] OTHER                 -> SimpleAge(f, id, sort)
    IN  age

\* -fullAge:, the sort IDs <<min, max>> between which a file matches.
ValidAge(age) == Valid(age[1]) /\ age[1] <= age[2]

Mins(ages) == {age[1] : age \in {a \in ages : ValidAge(a)}}
Maxs(ages) == {age[2] : age \in {a \in ages : ValidAge(a)}}

UnionFullAge(ages) == <<Min(Mins(ages) \cup {Infinity}), Max(Maxs(ages) \cup {0})>>

\* Mutant: an intersection's age is the least of its filters' ages.
IntersectionFullAge_Least(ages) ==
    <<IF Mins(ages) = {} THEN 0 ELSE Min(Mins(ages)), Min(Maxs(ages) \cup {Infinity})>>

\* Filters without a valid age are skipped.
IntersectionFullAge(ages) == <<Max(Mins(ages) \cup {0}), Min(Maxs(ages) \cup {Infinity})>>

\* An age between two sort IDs is asserted not to be.
NegationFullAge(age) ==
    CASE ~Valid(age[1]) /\ ~Valid(age[2]) -> <<age[2], age[1]>>
      []  Valid(age[1]) /\ ~Valid(age[2]) -> <<0, age[1] - 1>>
      [] ~Valid(age[1]) /\  Valid(age[2]) -> <<age[2] + 1, Infinity>>

FullAge(id) ==
    LET age[f \in Nodes] ==
            LET ages == {age[g] : g \in Subfilters(f)} IN
            CASE f[1] = "intersection" -> Only({IntersectionFullAge(S) : S \in {ages}})
              [] f[1] = "union"        -> Only({UnionFullAge(S) : S \in {ages}})
              [] f[1] = "negation"     -> Only({NegationFullAge(a) : a \in ages})
              [] OTHER                 -> <<SimpleAge(f, id, Infinity), Infinity>>
    IN  age

\* The simple filters of each filter that list something: a negation never stands
\* anywhere.
Lists[f \in Nodes] ==
    IF f \in Simple THEN {f}
    ELSE IF f[1] = "negation" THEN {}
    ELSE UNION {Lists[g] : g \in Subfilters(f)}

\* Collections keep their filters sorted: the first has the current position.
Current(from) == First(dir, {from[f] : f \in DOMAIN from} \cup {Invalid(dir)})

\* Mutant: of several filters at the current position one is stepped.
Steps_One(from) ==
    LET f == CHOOSE f \in DOMAIN from : from[f] = Current(from) IN
    [from EXCEPT ![f] = Stepped(f, @)]

\* -step: on a collection: every filter at the current position goes on.
Steps(from) ==
    [f \in DOMAIN from |->
        IF from[f] = Current(from) THEN Stepped(f, from[f]) ELSE from[f]]

Seeks(p) == [f \in Lists[query] |-> Sought(f, p)]

-----------------------------------------------------------------------------
(***************************************************************************)
(* The scan.                                                               *)
(***************************************************************************)
Store(doc) ==
    /\ pc = "build"
    /\ Len(db.file) < MaxFiles
    /\ \E id \in 1..(Len(db.file) + 1) : Stores(db, doc, id, db')
    /\ UNCHANGED <<pc, query, dir, start, asked, pos, at, n, out>>

\* A query with its "start" and "dir".
Ask(q, r, u) ==
    /\ pc = "build"
    /\ pc' = "prepare"
    /\ query' = q /\ dir' = r /\ start' = u /\ asked' = u
    /\ pos' = Invalid(-r)
    /\ UNCHANGED <<db, at, n, out>>

\* SLNFilterSeekToPosition for a start URI: behind its file.  A URI that names
\* no file, or several, or a file without an age is refused.
FromURI ==
    /\ pc = "prepare"
    /\ start # NoURI
    /\ \/ \E id \in FilesOf(start) :
             /\ FilesOf(start) = {id}
             /\ ValidAge(FullAge(id)[query])
             /\ \E from \in {Seeks(<<FullAge(id)[query][1], id>>)} : at' = Steps(from)
             /\ pc' = "scan"
       \/ /\ \A id \in FilesOf(start) : FilesOf(start) # {id} \/ ~ValidAge(FullAge(id)[query])
          /\ pc' = "refused"
          /\ UNCHANGED at
    /\ n' = 0
    /\ UNCHANGED <<db, query, dir, start, asked, pos, out>>

\* And for a position.
FromPosition ==
    /\ pc = "prepare"
    /\ start = NoURI
    /\ \E from \in {Seeks(pos)} : at' = IF Valid(pos[2]) THEN Steps(from) ELSE from
    /\ pc' = "scan"
    /\ n' = 0
    /\ UNCHANGED <<db, query, dir, start, asked, pos, out>>

\* SLNFilterGetPosition: is the candidate at its age?
Hit(c) == Valid(c[2]) /\ FastAge(c[2], c[1])[query] = c[1]

Miss(c) == Valid(c[2]) /\ FastAge(c[2], c[1])[query] # c[1]

\* Mutant: a candidate that is not at its age is looked at again and again.
Skip_NoStep ==
    /\ pc = "scan"
    /\ Miss(Current(at))
    /\ UNCHANGED vars

Skip ==
    /\ pc = "scan"
    /\ Miss(Current(at))
    /\ at' = Steps(at)
    /\ UNCHANGED <<db, pc, query, dir, start, asked, pos, n, out>>

\* A result: the position is its own from now on.
Take ==
    /\ pc = "scan"
    /\ Hit(Current(at))
    /\ pos' = Current(at)
    /\ out' = Append(out, pos')
    /\ start' = NoURI
    /\ at' = Steps(at)
    /\ n' = n + 1
    /\ pc' = IF n' = BATCH_SIZE THEN "prepare" ELSE "scan"
    /\ UNCHANGED <<db, query, dir, asked>>

\* Nothing more: the last batch is empty.
Finish ==
    /\ pc = "scan"
    /\ ~Valid(Current(at)[2])
    /\ pc' = IF n = 0 THEN "done" ELSE "prepare"
    /\ UNCHANGED <<db, query, dir, start, asked, pos, at, n, out>>

Scan == FromURI \/ FromPosition \/ Skip \/ Take \/ Finish

Next ==
    \/ \E doc \in Docs : Store(doc)
    \/ \E q \in Queries, r \in {1, -1}, u \in URIs \cup {NoURI} : Ask(q, r, u)
    \/ Scan

Spec == Init /\ [][Next]_vars

FairSpec == Spec /\ WF_vars(Scan)

-----------------------------------------------------------------------------
(***************************************************************************)
(* Properties.                                                             *)
(***************************************************************************)

\* What a simple filter means: it has the file among the tables' rows up to sort.
Holds(f, id, sort) ==
    IF Indirect(f)
    THEN \E row \in db.meta : row[1] <= sort /\ <<row[2], id>> \in db.uri /\ Selects(f, row[1])
    ELSE id <= sort /\ id \in Named(f)

\* What each filter of a query means.  Where all of an intersection has to match,
\* negations are left out, and collections of nothing else; where one of a union
\* has to, they do or do not.
Matches(id, sort, negations) ==
    LET holds[f \in Nodes] ==
            CASE f[1] = "intersection" -> \A g \in f[2] : Lists[g] = {} \/ holds[g]
              [] f[1] = "union" -> \E g \in f[2] : IF Lists[g] = {} THEN negations ELSE holds[g]
              [] f[1] = "negation" -> negations
              [] OTHER -> Holds(f, id, sort)
    IN  holds

\* The results of the query: each file that it matches, under the first sort ID at
\* which it does.
Results ==
    UNION {LET ages == {s \in DOMAIN db.file : Matches(id, s, FALSE)[query]} IN
           {<<a, id>> : a \in {a \in ages : \A b \in ages : a <= b}} : id \in DOMAIN db.file}

Negations[f \in Nodes] ==
    (IF f[1] = "negation" THEN {f} ELSE {}) \cup UNION {Negations[g] : g \in Subfilters(f)}

\* Two files of one URI: one content under two types, or a short URI.
Shared == \E r, s \in db.uri : r[1] = s[1] /\ r[2] # s[2]

\* Passed over: backwards an indirect filter lists only the lowest of several files
\* of the URI that a meta-file names (see Stepped).
PassedOver(r) ==
    /\ dir < 0
    /\ \A f \in Lists[query] : r \in Listed(f) =>
          Indirect(f) /\ \E e \in Listed(f) : e[1] = r[1] /\ e[2] < r[2]

\* However the filters of a query overlap, and wherever its batches end, what the
\* scan has found is a run of its results in their order, none twice and none left
\* out but what is passed over; and it ends with the last.
ResultsExact ==
    (pc # "build" /\ Negations[query] = {}) =>
        LET found == {out[i] : i \in DOMAIN out} IN
        /\ found \subseteq Results
        /\ \A i, j \in DOMAIN out : i < j => Ahead(dir, out[i], out[j])
        /\ \A i \in DOMAIN out, r \in Results \ found :
              \/ Ahead(dir, r, out[1])
              \/ Ahead(dir, out[i], r) /\ pc # "done"
              \/ PassedOver(r)

\* The age of a negation's filter has an end only if it has no beginning, which
\* fullAge asserts.
OneEnd ==
    \A f \in Negations[query], id \in DOMAIN db.file :
        ~Valid(FullAge(id)[f[2]][1]) \/ ~Valid(FullAge(id)[f[2]][2])

\* A negation leaves out no file that its filter never comes to match, and lets
\* nothing in that the rest of the query does not match (a file that the filter
\* matched before may be listed, and more than once; a negation in a negation leaves
\* out more, and a query of nothing else finds nothing).
NegationBounds ==
    (pc # "build" /\ Negations[query] # {}) =>
        LET found == {out[i] : i \in DOMAIN out}
            never(id) == \A f \in Negations[query] :
                            Negations[f[2]] = {} /\ ~Matches(id, Infinity, FALSE)[f[2]]
        IN
        /\ \A e \in found : Matches(e[2], e[1], TRUE)[query]
                             /\ \E f \in Lists[query] : Holds(f, e[2], e[1])
        /\ (asked = NoURI /\ pc = "done" /\ Lists[query] # {}) =>
              \A r \in Results : never(r[2]) => r \in found \/ PassedOver(r)
        /\ OneEnd

\* A query without parentheses and dashes, or a lone filter.
Flat ==
    \/ query \in Simple
    \/ query[1] = "intersection" /\ \A u \in query[2] : u[1] = "union" /\ u[2] \subseteq Simple

\* A query starts where it was asked to: without a start URI with the first of its
\* results, and with the URI of a result, as a client gives that goes on from the
\* last line it has, with the one behind that result.  (Not if an intersection in
\* parentheses is one of several alternatives: IntersectionFullAge has an age for a
\* file that matches a part of it, and the result may come again.)
StartExact ==
    (pc # "build" /\ Flat /\ (dir > 0 \/ ~Shared)) =>
        LET origin == {r \in Results : asked # NoURI /\ FilesOf(asked) = {r[2]}} IN
        /\ origin # {} => pc # "refused"
        /\ \A o \in origin, i \in DOMAIN out : Ahead(dir, o, out[i])
        /\ ((asked = NoURI \/ origin # {}) /\ (out # <<>> \/ pc = "done")) =>
              \A r \in Results :
                 (\A o \in origin : Ahead(dir, o, r)) =>
                     \E i \in DOMAIN out : ~Ahead(dir, r, out[i])

\* "Files are always at least their own age" (add_metafile), in whatever order
\* files and meta-files came: no filter has a file before the oldest file that it
\* shares a URI with, whose older meta-files select it too.  That is its own ID
\* unless a short URI or another type of its content was there before it.
Eldest(id) ==
    Min({id} \cup {i \in DOMAIN db.file :
                      \E r, s \in db.uri : r[1] = s[1] /\ r[2] = i /\ s[2] = id})

OwnAge ==
    pc # "build" => \A id \in DOMAIN db.file :
        Valid(FullAge(id)[query][1]) => Eldest(id) <= FullAge(id)[query][1]

\* Every query comes to an end.
Ends == (pc = "prepare") ~> (pc \in {"done", "refused"})

=============================================================================
