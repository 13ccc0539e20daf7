---------------------------- MODULE FilterProofs ----------------------------
(***************************************************************************)
(* A query finds its results, whatever it is a tree of, in both directions *)
(* and across batches; and ages are what they are said to be.              *)
(***************************************************************************)
EXTENDS Filters, FileIndexProofs, WellFoundedInduction, TLAPS

-----------------------------------------------------------------------------
(***************************************************************************)
(* Trees of filters.                                                       *)
(***************************************************************************)
\* A set of numbers has a least one: what Min in the ages of Filters returns.
LEMMA Least ==
  ASSUME NEW T, T \subseteq Nat, T # {}
  PROVE  \E x \in T : \A y \in T : x <= y
<1>1. PICK x \in T : \A y \in T : <<y, x>> \notin OpToRel(<, Nat)
  BY NatLessThanWellFounded, WFMin
<1>2. ASSUME NEW y \in T PROVE x <= y
  <2>1. x \in Nat /\ y \in Nat
    OBVIOUS
  <2>2. <<y, x>> \in OpToRel(<, Nat) <=> y < x
    BY <2>1, Zenon DEF OpToRel
  <2>3. ~(y < x)
    BY <1>1, <2>2, Zenon
  <2> QED
    BY <2>1, <2>3
<1> QED
  BY <1>2

\* What is part of a filter is a filter that nests less (FilterAssumption).
LEMMA Parts ==
  ASSUME NEW f \in Nodes, NEW g \in Subfilters(f)
  PROVE  g \in Nodes /\ Depth[g] \in Nat /\ Depth[f] \in Nat /\ Depth[g] < Depth[f]
  BY FilterAssumption

\* What holds of a filter whenever it holds of its parts holds of all: induction over
\* the trees that a query is made of.
LEMMA ByParts ==
  ASSUME NEW P, P \subseteq Nodes,
         \A f \in Nodes : Subfilters(f) \subseteq P => f \in P
  PROVE  P = Nodes
<1> DEFINE T == {Depth[f] : f \in Nodes \ P}
<1>1. SUFFICES ASSUME T # {} PROVE FALSE
  OBVIOUS
<1>2. T \subseteq Nat
  BY FilterAssumption
<1>3. PICK d \in T : \A m \in T : d <= m
  <2> HIDE DEF T
  <2> QED
    BY <1>1, <1>2, Least
<1>4. PICK f \in Nodes \ P : d = Depth[f]
  OBVIOUS
<1>5. ASSUME NEW g \in Subfilters(f) PROVE g \in P
  <2>1. g \in Nodes /\ Depth[g] \in Nat /\ Depth[f] \in Nat /\ Depth[g] < Depth[f]
    BY Parts
  <2>2. g \notin P => Depth[g] \in T
    BY <2>1
  <2> QED
    BY <1>3, <1>4, <2>1, <2>2
<1> QED
  BY <1>4, <1>5

\* A rule that makes a value of a filter from those of its parts,
ByPartsOnly(V, R) ==
    \A f \in Nodes, a, b \in [Nodes -> V] :
        /\ R[<<f, a>>] \in V
        /\ (\A g \in Subfilters(f) : a[g] = b[g]) => R[<<f, a>>] = R[<<f, b>>]

\* gives each its value.
LEMMA Recursion ==
  ASSUME NEW V, NEW v \in V, NEW R, ByPartsOnly(V, R)
  PROVE  \E a \in [Nodes -> V] : \A f \in Nodes : a[f] = R[<<f, a>>]
<1>0. \A f \in Nodes, a, b \in [Nodes -> V] :
        /\ R[<<f, a>>] \in V
        /\ (\A g \in Subfilters(f) : a[g] = b[g]) => R[<<f, a>>] = R[<<f, b>>]
  BY DEF ByPartsOnly
<1> DEFINE To(d, a) == a \in [Nodes -> V] /\ \A f \in Nodes : Depth[f] < d => a[f] = R[<<f, a>>]
\* Up to any depth there are such values,
<1>1. \A d \in Nat : \E a \in [Nodes -> V] : To(d, a)
  <2> DEFINE T == {d \in Nat : ~ \E a \in [Nodes -> V] : To(d, a)}
  <2>1. SUFFICES ASSUME T # {} PROVE FALSE
    OBVIOUS
  <2>2. PICK d \in T : \A m \in T : d <= m
    <3>1. T \subseteq Nat
      OBVIOUS
    <3> HIDE DEF T
    <3> QED
      BY <2>1, <3>1, Least
  <2>3. d # 0
    <3>1. [f \in Nodes |-> v] \in [Nodes -> V]
      OBVIOUS
    <3>2. \A f \in Nodes : ~(Depth[f] < 0)
      BY FilterAssumption
    <3>3. To(0, [f \in Nodes |-> v])
      BY <3>1, <3>2
    <3> QED
      BY <3>1, <3>3
  <2>4. d - 1 \in Nat /\ d - 1 \notin T
    BY <2>2, <2>3
  <2>5. PICK a \in [Nodes -> V] : To(d - 1, a)
    BY <2>4
  <2> DEFINE b == [f \in Nodes |-> IF Depth[f] < d - 1 THEN a[f] ELSE R[<<f, a>>]]
  <2>6. b \in [Nodes -> V]
    BY <1>0, <2>5
  <2>7. ASSUME NEW f \in Nodes, Depth[f] < d PROVE b[f] = R[<<f, b>>]
    <3>1. \A g \in Subfilters(f) : a[g] = b[g]
      <4>1. SUFFICES ASSUME NEW g \in Subfilters(f) PROVE a[g] = b[g]
        OBVIOUS
      <4>2. g \in Nodes /\ Depth[g] < d - 1
        BY Parts, <2>7, <2>2
      <4> QED
        BY <4>2
    <3>2. R[<<f, a>>] = R[<<f, b>>]
      <4> HIDE DEF b
      <4> QED
        BY <1>0, <2>5, <2>6, <3>1
    <3>3. a[f] = R[<<f, a>>] \/ ~(Depth[f] < d - 1)
      BY <2>5
    <3>4. b[f] = IF Depth[f] < d - 1 THEN a[f] ELSE R[<<f, a>>]
      OBVIOUS
    <3> HIDE DEF b
    <3> QED
      BY <3>2, <3>3, <3>4
  <2>8. To(d, b)
    BY <2>6, <2>7
  <2> QED
    BY <2>2, <2>6, <2>8
\* which agree,
<1>2. ASSUME NEW d \in Nat, NEW m \in Nat, NEW a, NEW b, To(d, a), To(m, b)
      PROVE  \A f \in Nodes : Depth[f] < d /\ Depth[f] < m => a[f] = b[f]
  <2> DEFINE P == {f \in Nodes : Depth[f] < d /\ Depth[f] < m => a[f] = b[f]}
  <2>1. ASSUME NEW f \in Nodes, Subfilters(f) \subseteq P, Depth[f] < d, Depth[f] < m PROVE a[f] = b[f]
    <3>1. ASSUME NEW g \in Subfilters(f) PROVE a[g] = b[g]
      <4>1. g \in Nodes /\ Depth[g] \in Nat /\ Depth[f] \in Nat /\ Depth[g] < Depth[f]
        BY Parts
      <4>2. Depth[g] < d /\ Depth[g] < m
        BY <2>1, <4>1
      <4> QED
        BY <2>1, <4>2
    <3>2. R[<<f, a>>] = R[<<f, b>>]
      BY <1>0, <1>2, <3>1
    <3> QED
      BY <1>2, <2>1, <3>2
  <2>2. \A f \in Nodes : Subfilters(f) \subseteq P => f \in P
    BY <2>1
  <2>3. P \subseteq Nodes
    OBVIOUS
  <2>4. P = Nodes
    <3> HIDE DEF P
    <3> QED
      BY <2>2, <2>3, ByParts
  <2> QED
    BY <2>4
\* so that they are values for all.
<1> DEFINE A(d) == CHOOSE a \in [Nodes -> V] : To(d, a)
           c == [f \in Nodes |-> A(Depth[f] + 1)[f]]
<1>3. \A d \in Nat : To(d, A(d))
  <2>1. SUFFICES ASSUME NEW d \in Nat PROVE To(d, A(d))
    OBVIOUS
  <2>2. \E a \in [Nodes -> V] : To(d, a)
    BY <1>1
  <2> HIDE DEF To
  <2> QED
    BY <2>2
<1> HIDE DEF A
<1>4. c \in [Nodes -> V]
  BY <1>3, FilterAssumption
<1>5. ASSUME NEW f \in Nodes PROVE c[f] = R[<<f, c>>]
  <2> DEFINE d == Depth[f] + 1
  <2>1. d \in Nat /\ Depth[f] \in Nat /\ Depth[f] < d
    BY FilterAssumption
  <2>2. To(d, A(d))
    BY <1>3, <2>1
  <2>3. ASSUME NEW g \in Subfilters(f) PROVE c[g] = A(d)[g]
    <3>1. g \in Nodes /\ Depth[g] \in Nat /\ Depth[g] < Depth[g] + 1 /\ Depth[g] + 1 \in Nat
          /\ Depth[g] < d
      BY Parts
    <3>2. To(Depth[g] + 1, A(Depth[g] + 1))
      BY <1>3, <3>1
    <3>3. A(Depth[g] + 1)[g] = A(d)[g]
      <4> HIDE DEF To, d
      <4> QED
        BY <1>2, <2>1, <2>2, <3>1, <3>2
    <3> QED
      BY <3>1, <3>3
  <2>4. R[<<f, c>>] = R[<<f, A(d)>>]
    <3> HIDE DEF c
    <3>1. A(d) \in [Nodes -> V]
      BY <2>2
    <3> HIDE DEF d
    <3> QED
      BY <1>0, <1>4, <2>3, <3>1
  <2>5. c[f] = A(d)[f]
    OBVIOUS
  <2>6. A(d)[f] = R[<<f, A(d)>>]
    BY <2>1, <2>2
  <2> HIDE DEF c, d
  <2> QED
    BY <2>4, <2>5, <2>6
<1> HIDE DEF c
<1> QED
  BY <1>4, <1>5

\* The kinds of filters, which exclude each other.
LEMMA Kinds ==
  ASSUME NEW f \in Nodes
  PROVE  \/ /\ f \in Simple /\ Subfilters(f) = {}
            /\ f[1] \notin {"intersection", "union", "negation"}
         \/ f[1] = "negation" /\ f \notin Simple /\ Subfilters(f) = {f[2]} /\ f[2] \in Nodes
         \/ f[1] = "intersection" /\ f \notin Simple /\ Subfilters(f) = f[2] /\ f[2] # {} /\ f[2] \subseteq Nodes
         \/ f[1] = "union" /\ f \notin Simple /\ Subfilters(f) = f[2] /\ f[2] # {} /\ f[2] \subseteq Nodes
<1>1. f \in Simple => f[1] \in {"all", "visible", "meta", "uri", "target", "term"}
  BY DEF Simple
<1>2. \A g \in Subfilters(f) : g \in Nodes
  BY Parts
<1>3. f \in Simple \/ f[1] = "negation" \/ (f[1] \in {"intersection", "union"} /\ f[2] # {})
  BY FilterAssumption
<1>4. CASE f \in Simple
  BY <1>1, <1>4 DEF Subfilters
<1>5. CASE f[1] = "negation"
  <2>1. f \notin Simple
    BY <1>1, <1>5
  <2>2. Subfilters(f) = {f[2]}
    BY <1>5 DEF Subfilters
  <2> QED
    BY <1>2, <1>5, <2>1, <2>2
<1>6. CASE f[1] \in {"intersection", "union"} /\ f[2] # {}
  <2>1. f \notin Simple
    BY <1>1, <1>6
  <2>2. Subfilters(f) = f[2]
    BY <1>6 DEF Subfilters
  <2> QED
    BY <1>2, <1>6, <2>1, <2>2
<1> QED
  BY <1>3, <1>4, <1>5, <1>6

\* The simple filters of a filter that list something.
LEMMA ListsAre ==
  /\ Lists \in [Nodes -> SUBSET (Simple \cap Nodes)]
  /\ \A f \in Nodes :
        Lists[f] = IF f \in Simple THEN {f}
                   ELSE IF f[1] = "negation" THEN {}
                   ELSE UNION {Lists[g] : g \in Subfilters(f)}
<1> DEFINE V == SUBSET (Simple \cap Nodes)
           Rule(f, a) == IF f \in Simple THEN {f}
                         ELSE IF f[1] = "negation" THEN {}
                         ELSE UNION {a[g] : g \in Subfilters(f)}
           R == [p \in Nodes \X [Nodes -> V] |-> Rule(p[1], p[2])]
<1>1. {} \in V
  OBVIOUS
<1>2. \A f \in Nodes, a \in [Nodes -> V] : R[<<f, a>>] = Rule(f, a)
  OBVIOUS
<1>3. \A f \in Nodes, a \in [Nodes -> V] : Rule(f, a) \in V
  <2>1. SUFFICES ASSUME NEW f \in Nodes, NEW a \in [Nodes -> V] PROVE Rule(f, a) \in V
    OBVIOUS
  <2>2. \A g \in Subfilters(f) : a[g] \in V
    BY Parts
  <2> QED
    BY <2>2
<1>4. ASSUME NEW f \in Nodes, NEW a \in [Nodes -> V], NEW b \in [Nodes -> V],
             \A g \in Subfilters(f) : a[g] = b[g]
      PROVE  Rule(f, a) = Rule(f, b)
  <2>1. {a[g] : g \in Subfilters(f)} = {b[g] : g \in Subfilters(f)}
    BY <1>4, Zenon
  <2> QED
    BY <2>1
<1>5. ByPartsOnly(V, R)
  <2> HIDE DEF V, R, Rule
  <2> QED
    BY <1>2, <1>3, <1>4 DEF ByPartsOnly
<1>6. PICK a \in [Nodes -> V] : \A f \in Nodes : a[f] = R[<<f, a>>]
  <2> HIDE DEF V, R
  <2> QED
    BY <1>1, <1>5, Recursion
<1>7. \E b : b = [f \in Nodes |-> IF f \in Simple THEN {f}
                           ELSE IF f[1] = "negation" THEN {}
                           ELSE UNION {b[g] : g \in Subfilters(f)}]
  <2>1. a = [f \in Nodes |-> Rule(f, a)]
    <3> HIDE DEF R, Rule, V
    <3> QED
      BY <1>2, <1>6
  <2> QED
    BY <2>1
<1>8. Lists = [f \in Nodes |-> IF f \in Simple THEN {f}
                               ELSE IF f[1] = "negation" THEN {}
                               ELSE UNION {Lists[g] : g \in Subfilters(f)}]
  <2> HIDE DEF R, V, Rule
  <2> QED
    BY <1>7, Zenon DEF Lists
<1>9. \A f \in Nodes : Lists[f] = Rule(f, Lists)
  BY <1>8
<1>10. Lists \in [Nodes -> V]
  <2> DEFINE P == {f \in Nodes : Lists[f] \in V}
  <2>1. ASSUME NEW f \in Nodes, Subfilters(f) \subseteq P PROVE f \in P
    <3>1. \A g \in Subfilters(f) : Lists[g] \in V
      BY <2>1
    <3>2. Rule(f, Lists) \in V
      BY <3>1
    <3> HIDE DEF V, Rule
    <3> QED
      BY <1>9, <3>2
  <2>2. P = Nodes
    <3> P \subseteq Nodes
      OBVIOUS
    <3> HIDE DEF P
    <3> QED
      BY <2>1, ByParts
  <2> HIDE DEF V
  <2> QED
    BY <1>8, <2>2
<1> QED
  BY <1>9, <1>10

\* The least of some numbers is one of them,
LEMMA MinIs ==
  ASSUME NEW S, S \subseteq Nat, S # {}
  PROVE  Min(S) \in S /\ \A x \in S : Min(S) <= x
<1>1. \E x \in S : \A y \in S : x <= y
  BY Least
<1> QED
  BY <1>1, Zenon DEF Min

\* and the greatest, of numbers up to some bound.
LEMMA MaxIs ==
  ASSUME NEW k \in Nat, NEW S, S \subseteq 0..k, S # {}
  PROVE  Max(S) \in S /\ \A x \in S : x <= Max(S)
<1> DEFINE T == {k - x : x \in S}
<1>1. T \subseteq Nat /\ T # {}
  <2>1. \A x \in S : k - x \in Nat
    OBVIOUS
  <2> QED
    BY <2>1
<1>2. PICK y \in T : \A z \in T : y <= z
  <2> HIDE DEF T
  <2> QED
    BY <1>1, Least
<1>3. PICK x \in S : y = k - x
  OBVIOUS
<1>4. \A z \in S : x >= z
  BY <1>2, <1>3
<1>5. \E w \in S : \A z \in S : w >= z
  BY <1>4
<1>6. Max(S) \in S /\ \A z \in S : Max(S) >= z
  BY <1>5, Zenon DEF Max
<1> QED
  BY <1>6

\* The element of a set of one.
LEMMA OnlyIs == ASSUME NEW e PROVE Only({e}) = e
  BY DEF Only

\* The tables: files are numbered from 1, and rows are about files.
LEMMA Tables ==
  ASSUME IndexOK(db)
  PROVE  /\ Len(db.file) \in Nat /\ DOMAIN db.file = 1..Len(db.file)
         /\ Infinity = Len(db.file) + 1
         /\ \A r \in db.uri : r[1] \in URIs /\ r[2] \in DOMAIN db.file
         /\ \A r \in db.meta : r[1] \in DOMAIN db.file /\ r[2] \in URIs
         /\ db.first \subseteq Metas(db)
         /\ \A r, s \in db.meta : r[1] = s[1] => r = s
<1>1. db.file \in Seq([hash : Hashes, type : Types]) /\ db.uri \in SUBSET (URIs \X (Nat \ {0}))
      /\ db.meta \in SUBSET ((Nat \ {0}) \X URIs)
  BY DEF IndexOK, IndexType
<1>2. Len(db.file) \in Nat /\ DOMAIN db.file = 1..Len(db.file)
  BY <1>1
<1>3. \A r \in db.uri : r[1] \in URIs /\ r[2] \in DOMAIN db.file
  BY DEF IndexOK, URIsExact
<1>4. \A r \in db.meta : r[1] \in DOMAIN db.file /\ r[2] = TargetOf[db.file[r[1]].hash] /\ r[2] \in URIs
  BY <1>1 DEF IndexOK, MetasExact
<1>5. db.first \subseteq Metas(db)
  BY DEF IndexOK, FirstsExact
<1>6. ASSUME NEW r \in db.meta, NEW s \in db.meta, r[1] = s[1] PROVE r = s
  <2>1. r[2] = s[2]
    BY <1>4, <1>6
  <2>2. r = <<r[1], r[2]>> /\ s = <<s[1], s[2]>>
    BY <1>1
  <2> QED
    BY <2>1, <2>2, <1>6
<1> QED
  BY <1>2, <1>3, <1>4, <1>5, <1>6 DEF Infinity

\* A direct filter names files of the repository.
LEMMA NamedAre ==
  ASSUME IndexOK(db), NEW f \in Simple, ~Indirect(f)
  PROVE  Named(f) \subseteq DOMAIN db.file
<1>1. f[1] \in {"all", "visible", "meta", "uri", "target", "term"}
  BY DEF Simple
<1>2. f[1] \in {"all", "meta", "uri", "target"}
  BY <1>1 DEF Indirect
<1>3. CASE f[1] = "all"
  BY <1>3 DEF Named
<1>4. CASE f[1] = "meta"
  BY <1>4, Tables DEF Named, Metas
<1>5. CASE f[1] = "uri"
  BY <1>5, Tables DEF Named, FilesOf
<1>6. CASE f[1] = "target"
  BY <1>6, Tables DEF Named
<1> QED
  BY <1>2, <1>3, <1>4, <1>5, <1>6

\* The age of a file under a simple filter is the ID of a file, or infinite.
LEMMA SimpleAgeIs ==
  ASSUME IndexOK(db), NEW f \in Simple, NEW id \in DOMAIN db.file, NEW sort \in Nat
  PROVE  SimpleAge(f, id, sort) \in 1..Infinity
<1> DEFINE ages == {row[1] : row \in {r \in db.meta : <<r[2], id>> \in db.uri
                                         /\ r[1] <= sort /\ Selects(f, r[1])}}
<1>1. Len(db.file) \in Nat /\ DOMAIN db.file = 1..Len(db.file) /\ Infinity = Len(db.file) + 1
  BY Tables
<1>2. ages \subseteq DOMAIN db.file
  BY Tables
<1> HIDE DEF ages
<1>3. Min(ages \cup {Infinity}) \in ages \cup {Infinity}
  <2>1. ages \cup {Infinity} \subseteq Nat /\ ages \cup {Infinity} # {}
    BY <1>1, <1>2
  <2> QED
    BY <2>1, MinIs
<1>4. SimpleAge(f, id, sort) \in {Min(ages \cup {Infinity}), id, Infinity}
  BY DEF SimpleAge, ages
<1> QED
  BY <1>1, <1>2, <1>3, <1>4

-----------------------------------------------------------------------------
(***************************************************************************)
(* Full ages.                                                              *)
(***************************************************************************)
\* What a full age may be: it has an end only if it has no beginning.
FullAges == {a \in (0..Infinity) \X (0..Infinity) : Valid(a[1]) => a[2] = Infinity}

FullAgeOf(id, f, age) ==
    LET ages == {age[g] : g \in Subfilters(f)} IN
    CASE f[1] = "intersection" -> IntersectionFullAge(ages)
      [] f[1] = "union"        -> UnionFullAge(ages)
      [] f[1] = "negation"     -> NegationFullAge(age[f[2]])
      [] OTHER                 -> <<SimpleAge(f, id, Infinity), Infinity>>

\* The beginnings and the ends of valid ages, which last.
LEMMA MinsMaxs ==
  ASSUME IndexOK(db), NEW ages, ages \subseteq FullAges
  PROVE  /\ \A x \in Mins(ages) : x \in 1..Len(db.file) /\ \E a \in ages : x = a[1] /\ ValidAge(a)
         /\ Maxs(ages) \subseteq {Infinity}
         /\ Mins(ages) # {} <=> Maxs(ages) # {}
         /\ Mins(ages) # {} <=> \E a \in ages : ValidAge(a)
<1>1. Len(db.file) \in Nat /\ Infinity = Len(db.file) + 1
  BY Tables
<1>2. \A a \in FullAges : ValidAge(a) => a[1] \in 1..Len(db.file) /\ a[2] = Infinity
  BY <1>1 DEF FullAges, ValidAge, Valid
<1> QED
  BY <1>2 DEF Mins, Maxs

\* The full age of a union begins with the first of its filters' valid ages, and is
\* valid if one of these is.
LEMMA UnionFullAgeIs ==
  ASSUME IndexOK(db), NEW ages, ages \subseteq FullAges
  PROVE  LET a == UnionFullAge(ages) IN
         /\ a \in FullAges
         /\ Valid(a[1]) => a[1] \in Mins(ages)
         /\ \A x \in Mins(ages) : a[1] <= x
         /\ ~Valid(a[2])
         /\ Mins(ages) # {} => ValidAge(a)
<1>1. Len(db.file) \in Nat /\ Infinity = Len(db.file) + 1
  BY Tables
<1>2. Mins(ages) \subseteq 1..Len(db.file) /\ Maxs(ages) \subseteq {Infinity} /\ (Mins(ages) # {} <=> Maxs(ages) # {})
  BY MinsMaxs
<1> DEFINE x == Min(Mins(ages) \cup {Infinity})
           y == Max(Maxs(ages) \cup {0})
<1>3. x \in Mins(ages) \cup {Infinity} /\ \A z \in Mins(ages) \cup {Infinity} : x <= z
  <2>1. Mins(ages) \cup {Infinity} \subseteq Nat
    BY <1>1, <1>2
  <2> QED
    BY <2>1, MinIs
<1>4. y \in Maxs(ages) \cup {0} /\ \A z \in Maxs(ages) \cup {0} : z <= y
  <2>1. Maxs(ages) \cup {0} \subseteq 0..Infinity /\ Infinity \in Nat
    BY <1>1, <1>2
  <2> QED
    BY <2>1, MaxIs
<1>5. UnionFullAge(ages) = <<x, y>>
  BY DEF UnionFullAge
<1> HIDE DEF x, y
<1>6. Mins(ages) # {} => x \in 1..Len(db.file) /\ y = Infinity
  BY <1>1, <1>2, <1>3, <1>4
<1>7. Mins(ages) = {} => x = Infinity /\ y = 0
  BY <1>2, <1>3, <1>4
<1>8. <<x, y>> \in FullAges
  BY <1>1, <1>6, <1>7 DEF FullAges, Valid
<1> QED
  BY <1>1, <1>3, <1>5, <1>6, <1>7, <1>8 DEF Valid, ValidAge

\* That of an intersection begins with the last of its filters' valid ages: those that
\* are not valid are skipped.
LEMMA IntersectionFullAgeIs ==
  ASSUME IndexOK(db), NEW ages, ages \subseteq FullAges
  PROVE  LET a == IntersectionFullAge(ages) IN
         /\ a \in FullAges
         /\ Valid(a[1]) => a[1] \in Mins(ages)
         /\ \A x \in Mins(ages) : x <= a[1]
         /\ ~Valid(a[2])
         /\ Mins(ages) # {} => ValidAge(a)
<1>1. Len(db.file) \in Nat /\ Infinity = Len(db.file) + 1
  BY Tables
<1>2. Mins(ages) \subseteq 1..Len(db.file) /\ Maxs(ages) \subseteq {Infinity} /\ (Mins(ages) # {} <=> Maxs(ages) # {})
  BY MinsMaxs
<1> DEFINE x == Max(Mins(ages) \cup {0})
           y == Min(Maxs(ages) \cup {Infinity})
<1>3. x \in Mins(ages) \cup {0} /\ \A z \in Mins(ages) \cup {0} : z <= x
  <2>1. Mins(ages) \cup {0} \subseteq 0..Infinity /\ Infinity \in Nat
    BY <1>1, <1>2
  <2> QED
    BY <2>1, MaxIs
<1>4. y = Infinity
  <2>1. Maxs(ages) \cup {Infinity} \subseteq Nat
    BY <1>1, <1>2
  <2> QED
    BY <1>2, <2>1, MinIs
<1>5. IntersectionFullAge(ages) = <<x, y>>
  BY DEF IntersectionFullAge
<1> HIDE DEF x, y
<1>6. Mins(ages) # {} => x \in 1..Len(db.file)
  BY <1>1, <1>2, <1>3
<1>7. Mins(ages) = {} => x = 0
  BY <1>2, <1>3
<1>8. <<x, y>> \in FullAges
  BY <1>1, <1>4, <1>6, <1>7 DEF FullAges, Valid
<1> QED
  BY <1>1, <1>3, <1>4, <1>5, <1>6, <1>7, <1>8 DEF Valid, ValidAge

\* That of a negation has an end where its filter's has a beginning, never both.
LEMMA NegationFullAgeIs ==
  ASSUME IndexOK(db), NEW a \in FullAges
  PROVE  /\ NegationFullAge(a) \in FullAges
         /\ Valid(NegationFullAge(a)[1]) => Valid(a[2]) /\ NegationFullAge(a)[1] = a[2] + 1
         /\ Valid(NegationFullAge(a)[2]) => Valid(a[1]) /\ NegationFullAge(a)[2] = a[1] - 1
<1>1. Len(db.file) \in Nat /\ Infinity = Len(db.file) + 1
  BY Tables
<1>2. a[1] \in 0..Infinity /\ a[2] \in 0..Infinity /\ (Valid(a[1]) => ~Valid(a[2]))
  BY <1>1 DEF FullAges, Valid
<1>3. CASE ~Valid(a[1]) /\ ~Valid(a[2])
  <2>1. NegationFullAge(a) = <<a[2], a[1]>>
    BY <1>3 DEF NegationFullAge
  <2> QED
    BY <1>1, <1>2, <1>3, <2>1 DEF FullAges
<1>4. CASE Valid(a[1]) /\ ~Valid(a[2])
  <2>1. NegationFullAge(a) = <<0, a[1] - 1>>
    BY <1>4 DEF NegationFullAge
  <2> QED
    BY <1>1, <1>2, <1>4, <2>1 DEF FullAges, Valid
<1>5. CASE ~Valid(a[1]) /\ Valid(a[2])
  <2>1. NegationFullAge(a) = <<a[2] + 1, Infinity>>
    BY <1>5 DEF NegationFullAge
  <2> QED
    BY <1>1, <1>2, <1>5, <2>1 DEF FullAges, Valid
<1> QED
  BY <1>2, <1>3, <1>4, <1>5

\* One round of the recursion.
FullAgeRound(id, age) ==
    [f \in Nodes |->
        LET ages == {age[g] : g \in Subfilters(f)} IN
        CASE f[1] = "intersection" -> Only({IntersectionFullAge(S) : S \in {ages}})
          [] f[1] = "union"        -> Only({UnionFullAge(S) : S \in {ages}})
          [] f[1] = "negation"     -> Only({NegationFullAge(a) : a \in ages})
          [] OTHER                 -> <<SimpleAge(f, id, Infinity), Infinity>>]

\* The full ages of the filters of a query are those that -fullAge: of each filter makes
\* of its filters' ones.
LEMMA FullAgeIs ==
  ASSUME IndexOK(db), NEW id \in DOMAIN db.file
  PROVE  /\ FullAge(id) \in [Nodes -> FullAges]
         /\ \A f \in Nodes : FullAge(id)[f] = FullAgeOf(id, f, FullAge(id))
<1> DEFINE V == FullAges
           R == [p \in Nodes \X [Nodes -> V] |-> FullAgeOf(id, p[1], p[2])]
<1>1. Len(db.file) \in Nat /\ Infinity = Len(db.file) + 1
  BY Tables
<1>2. <<0, 0>> \in V
  BY <1>1 DEF FullAges, Valid
<1>3. \A f \in Nodes, a \in [Nodes -> V] : R[<<f, a>>] = FullAgeOf(id, f, a)
  OBVIOUS
<1>4. ASSUME NEW f \in Nodes, NEW a, \A g \in Subfilters(f) : a[g] \in V
      PROVE  FullAgeOf(id, f, a) \in V
  <2> DEFINE ages == {a[g] : g \in Subfilters(f)}
  <2>1. ages \subseteq FullAges
    BY <1>4, Parts
  <2>2. CASE f \in Simple
    <3>1. FullAgeOf(id, f, a) = <<SimpleAge(f, id, Infinity), Infinity>>
      BY <2>2, Kinds DEF FullAgeOf
    <3>2. SimpleAge(f, id, Infinity) \in 1..Infinity
      <4>1. Infinity \in Nat
        BY <1>1
      <4> QED
        BY <2>2, <4>1, SimpleAgeIs
    <3> QED
      BY <1>1, <3>1, <3>2 DEF FullAges
  <2>3. CASE f[1] = "negation"
    <3>1. FullAgeOf(id, f, a) = NegationFullAge(a[f[2]])
      BY <2>3 DEF FullAgeOf
    <3>2. f[2] \in Subfilters(f)
      BY <2>3, Kinds
    <3>3. a[f[2]] \in FullAges
      BY <1>4, <3>2
    <3> QED
      BY <3>1, <3>3, NegationFullAgeIs
  <2>4. CASE f[1] = "intersection"
    <3>1. FullAgeOf(id, f, a) = IntersectionFullAge(ages)
      BY <2>4 DEF FullAgeOf
    <3> HIDE DEF ages
    <3> QED
      BY <2>1, <3>1, IntersectionFullAgeIs
  <2>5. CASE f[1] = "union"
    <3>1. FullAgeOf(id, f, a) = UnionFullAge(ages)
      BY <2>5 DEF FullAgeOf
    <3> HIDE DEF ages
    <3> QED
      BY <2>1, <3>1, UnionFullAgeIs
  <2> QED
    BY <2>2, <2>3, <2>4, <2>5, Kinds
<1>5. ASSUME NEW f \in Nodes, NEW a \in [Nodes -> V], NEW b \in [Nodes -> V],
             \A g \in Subfilters(f) : a[g] = b[g]
      PROVE  FullAgeOf(id, f, a) = FullAgeOf(id, f, b)
  <2>1. {a[g] : g \in Subfilters(f)} = {b[g] : g \in Subfilters(f)}
    BY <1>5, Zenon
  <2>2. f[1] = "negation" => a[f[2]] = b[f[2]]
    BY <1>5, Kinds
  <2> QED
    BY <2>1, <2>2 DEF FullAgeOf
<1>6. ByPartsOnly(V, R)
  <2>1. ASSUME NEW f \in Nodes, NEW a \in [Nodes -> V] PROVE FullAgeOf(id, f, a) \in V
    <3>1. \A g \in Subfilters(f) : a[g] \in V
      BY Parts
    <3> QED
      BY <1>4, <3>1
  <2> HIDE DEF V, R
  <2> QED
    BY <1>3, <1>5, <2>1 DEF ByPartsOnly
<1>7. PICK a \in [Nodes -> V] : \A f \in Nodes : a[f] = R[<<f, a>>]
  <2> HIDE DEF V, R
  <2> QED
    BY <1>2, <1>6, Recursion
<1>8. ASSUME NEW b PROVE FullAgeRound(id, b) = [f \in Nodes |-> FullAgeOf(id, f, b)]
  <2>1. ASSUME NEW f \in Nodes
        PROVE  FullAgeRound(id, b)[f] = FullAgeOf(id, f, b)
    <3> DEFINE ages == {b[g] : g \in Subfilters(f)}
    <3>1. {IntersectionFullAge(S) : S \in {ages}} = {IntersectionFullAge(ages)}
          /\ {UnionFullAge(S) : S \in {ages}} = {UnionFullAge(ages)}
      <4> HIDE DEF ages
      <4> QED
        OBVIOUS
    <3>2. f[1] = "negation" => {NegationFullAge(e) : e \in ages} = {NegationFullAge(b[f[2]])}
      <4>1. f[1] = "negation" => ages = {b[f[2]]}
        BY Kinds
      <4> QED
        BY <4>1
    <3>3. Only({IntersectionFullAge(ages)}) = IntersectionFullAge(ages)
          /\ Only({UnionFullAge(ages)}) = UnionFullAge(ages)
          /\ Only({NegationFullAge(b[f[2]])}) = NegationFullAge(b[f[2]])
      BY OnlyIs
    <3> QED
      BY <3>1, <3>2, <3>3 DEF FullAgeOf, FullAgeRound
  <2>2. FullAgeRound(id, b) = [f \in Nodes |-> FullAgeRound(id, b)[f]]
    BY DEF FullAgeRound
  <2> QED
    BY <2>1, <2>2
<1>9. a = FullAgeRound(id, a)
  <2>1. \A f \in Nodes : a[f] = FullAgeOf(id, f, a)
    <3> HIDE DEF V
    <3> QED
      BY <1>3, <1>7
  <2>2. FullAgeRound(id, a) = [f \in Nodes |-> FullAgeOf(id, f, a)]
    <3> HIDE DEF V, R
    <3> QED
      BY <1>8
  <2>3. a = [f \in Nodes |-> a[f]]
    <3> HIDE DEF V, R
    <3> QED
      BY <1>7
  <2> HIDE DEF V, R
  <2> QED
    BY <2>1, <2>2, <2>3
<1>10. FullAge(id) = CHOOSE age : age = FullAgeRound(id, age)
  BY DEF FullAge, FullAgeRound
<1>11. FullAge(id) = FullAgeRound(id, FullAge(id))
  BY <1>9, <1>10, Zenon
<1>12. \A f \in Nodes : FullAge(id)[f] = FullAgeOf(id, f, FullAge(id))
  BY <1>8, <1>11
<1>13. FullAge(id) \in [Nodes -> V]
  <2> DEFINE P == {f \in Nodes : FullAge(id)[f] \in V}
  <2>1. ASSUME NEW f \in Nodes, Subfilters(f) \subseteq P PROVE f \in P
    <3>1. \A g \in Subfilters(f) : FullAge(id)[g] \in V
      BY <2>1
    <3> HIDE DEF V
    <3> QED
      BY <1>4, <1>12, <3>1
  <2>2. P \subseteq Nodes
    OBVIOUS
  <2>3. P = Nodes
    <3> HIDE DEF P
    <3> QED
      BY <2>1, <2>2, ByParts
  <2>4. FullAge(id) = [f \in Nodes |-> FullAge(id)[f]]
    BY <1>8, <1>11
  <2> HIDE DEF V
  <2> QED
    BY <2>3, <2>4
<1> QED
  BY <1>12, <1>13

\* No filter has a file before an ID that neither it nor a meta-file of it precedes.
LEMMA FullAgeOwn ==
  ASSUME IndexOK(db), NEW id \in DOMAIN db.file, NEW e \in Nat, e <= id, NEW f \in Nodes,
         \A r \in db.meta : <<r[2], id>> \in db.uri => e <= r[1]
  PROVE  Valid(FullAge(id)[f][1]) => e <= FullAge(id)[f][1]
<1>1. Len(db.file) \in Nat /\ DOMAIN db.file = 1..Len(db.file) /\ Infinity = Len(db.file) + 1
  BY Tables
<1> DEFINE Own(a) == /\ Valid(a[1]) => e <= a[1]
                     /\ Valid(a[2]) => e <= a[2] + 1
           P == {g \in Nodes : Own(FullAge(id)[g])}
<1>2. ASSUME NEW g \in Nodes, Subfilters(g) \subseteq P PROVE Own(FullAge(id)[g])
  <2> DEFINE ages == {FullAge(id)[h] : h \in Subfilters(g)}
  <2>1. ages \subseteq FullAges /\ \A a \in ages : Own(a)
    BY <1>2, FullAgeIs
  <2>2. FullAge(id)[g] = FullAgeOf(id, g, FullAge(id))
    BY FullAgeIs
  <2>3. \A x \in Mins(ages) : e <= x
    <3> HIDE DEF ages
    <3>1. \A x \in Mins(ages) : \E a \in ages : x = a[1] /\ ValidAge(a)
      BY <2>1, MinsMaxs
    <3> QED
      BY <2>1, <3>1 DEF ValidAge
  <2>4. CASE g \in Simple
    <3>1. FullAge(id)[g] = <<SimpleAge(g, id, Infinity), Infinity>>
      BY <2>2, <2>4, Kinds DEF FullAgeOf
    <3>2. Valid(SimpleAge(g, id, Infinity)) => e <= SimpleAge(g, id, Infinity)
      <4> DEFINE rows == {row[1] : row \in {r \in db.meta : <<r[2], id>> \in db.uri
                                         /\ r[1] <= Infinity /\ Selects(g, r[1])}}
      <4>1. CASE ~Indirect(g)
        <5>1. SimpleAge(g, id, Infinity) \in {id, Infinity}
          BY <4>1 DEF SimpleAge
        <5> QED
          BY <1>1, <5>1 DEF Valid
      <4>2. CASE Indirect(g)
        <5>1. SimpleAge(g, id, Infinity) = Min(rows \cup {Infinity})
          BY <4>2 DEF SimpleAge
        <5>3. rows \cup {Infinity} \subseteq Nat /\ \A x \in rows : e <= x
          <6>1. \A r \in db.meta : r[1] \in DOMAIN db.file
            BY Tables
          <6>2. \A x \in rows : \E r \in db.meta : x = r[1] /\ <<r[2], id>> \in db.uri
            OBVIOUS
          <6> HIDE DEF rows
          <6>3. ASSUME NEW x \in rows PROVE x \in Nat /\ e <= x
            <7>1. PICK r \in db.meta : x = r[1] /\ <<r[2], id>> \in db.uri
              BY <6>2
            <7> QED
              BY <1>1, <6>1, <7>1
          <6> QED
            BY <1>1, <6>3
        <5> HIDE DEF rows
        <5>4. Min(rows \cup {Infinity}) \in rows \cup {Infinity}
          BY <5>3, MinIs
        <5> QED
          BY <5>1, <5>3, <5>4 DEF Valid
      <4> QED
        BY <4>1, <4>2
    <3> QED
      BY <3>1, <3>2 DEF Valid
  <2>5. CASE g[1] = "negation"
    <3>1. FullAge(id)[g] = NegationFullAge(FullAge(id)[g[2]])
      BY <2>2, <2>5 DEF FullAgeOf
    <3>2. g[2] \in Subfilters(g) /\ g[2] \in Nodes
      BY <2>5, Kinds
    <3>3. FullAge(id)[g[2]] \in FullAges /\ Own(FullAge(id)[g[2]])
      BY <1>2, <3>2, FullAgeIs
    <3>4. FullAge(id)[g[2]][1] \in Nat /\ FullAge(id)[g[2]][2] \in Nat
      BY <1>1, <3>3 DEF FullAges
    <3> QED
      BY <1>1, <3>1, <3>3, <3>4, NegationFullAgeIs
  <2>6. CASE g[1] = "intersection"
    <3>1. FullAge(id)[g] = IntersectionFullAge(ages)
      BY <2>2, <2>6 DEF FullAgeOf
    <3> HIDE DEF ages
    <3> QED
      BY <2>1, <2>3, <3>1, IntersectionFullAgeIs
  <2>7. CASE g[1] = "union"
    <3>1. FullAge(id)[g] = UnionFullAge(ages)
      BY <2>2, <2>7 DEF FullAgeOf
    <3> HIDE DEF ages
    <3> QED
      BY <2>1, <2>3, <3>1, UnionFullAgeIs
  <2> HIDE DEF Own
  <2> QED
    BY <2>4, <2>5, <2>6, <2>7, Kinds
<1>3. P = Nodes
  <2>1. P \subseteq Nodes /\ \A g \in Nodes : Subfilters(g) \subseteq P => g \in P
    BY <1>2
  <2> HIDE DEF P
  <2> QED
    BY <2>1, ByParts
<1> QED
  BY <1>3

\* The negations of a filter: itself if it is one, and those of its filters.
LEMMA NegationsAre ==
  /\ Negations \in [Nodes -> SUBSET Nodes]
  /\ \A f \in Nodes :
        Negations[f] = (IF f[1] = "negation" THEN {f} ELSE {})
                        \cup UNION {Negations[g] : g \in Subfilters(f)}
<1> DEFINE V == SUBSET Nodes
           Rule(f, a) == (IF f[1] = "negation" THEN {f} ELSE {}) \cup UNION {a[g] : g \in Subfilters(f)}
           R == [p \in Nodes \X [Nodes -> V] |-> Rule(p[1], p[2])]
<1>1. {} \in V
  OBVIOUS
<1>2. \A f \in Nodes, a \in [Nodes -> V] : R[<<f, a>>] = Rule(f, a)
  OBVIOUS
<1>3. ASSUME NEW f \in Nodes, NEW a, \A g \in Subfilters(f) : a[g] \in V
      PROVE  Rule(f, a) \in V
  BY <1>3
<1>4. ASSUME NEW f \in Nodes, NEW a \in [Nodes -> V], NEW b \in [Nodes -> V],
             \A g \in Subfilters(f) : a[g] = b[g]
      PROVE  Rule(f, a) = Rule(f, b)
  <2>1. {a[g] : g \in Subfilters(f)} = {b[g] : g \in Subfilters(f)}
    BY <1>4, Zenon
  <2> QED
    BY <2>1
<1>5. ByPartsOnly(V, R)
  <2>1. ASSUME NEW f \in Nodes, NEW a \in [Nodes -> V] PROVE Rule(f, a) \in V
    <3>1. \A g \in Subfilters(f) : a[g] \in V
      BY Parts
    <3> HIDE DEF V, Rule
    <3> QED
      BY <1>3, <3>1
  <2> HIDE DEF V, R, Rule
  <2> QED
    BY <1>2, <1>4, <2>1 DEF ByPartsOnly
<1>6. PICK a \in [Nodes -> V] : \A f \in Nodes : a[f] = R[<<f, a>>]
  <2> HIDE DEF V, R
  <2> QED
    BY <1>1, <1>5, Recursion
<1>7. \E b : b = [f \in Nodes |-> (IF f[1] = "negation" THEN {f} ELSE {})
                  \cup UNION {b[g] : g \in Subfilters(f)}]
  <2>1. a = [f \in Nodes |-> Rule(f, a)]
    <3> HIDE DEF R, Rule, V
    <3> QED
      BY <1>2, <1>6
  <2> QED
    BY <2>1
<1>8. Negations = [f \in Nodes |-> (IF f[1] = "negation" THEN {f} ELSE {})
                   \cup UNION {Negations[g] : g \in Subfilters(f)}]
  <2> HIDE DEF R, V, Rule
  <2> QED
    BY <1>7, Zenon DEF Negations
<1>9. \A f \in Nodes : Negations[f] = Rule(f, Negations)
  BY <1>8
<1>10. Negations \in [Nodes -> V]
  <2> DEFINE P == {f \in Nodes : Negations[f] \in V}
  <2>1. ASSUME NEW f \in Nodes, Subfilters(f) \subseteq P PROVE f \in P
    <3>1. \A g \in Subfilters(f) : Negations[g] \in V
      BY <2>1
    <3> HIDE DEF V, Rule
    <3> QED
      BY <1>3, <1>9, <3>1
  <2>2. P = Nodes
    <3> P \subseteq Nodes
      OBVIOUS
    <3> HIDE DEF P
    <3> QED
      BY <2>1, ByParts
  <2> HIDE DEF V
  <2> QED
    BY <1>8, <2>2
<1> QED
  BY <1>9, <1>10

\* The age of a filter as the scan asks for it.
FastAgeOf(id, sort, f, age) ==
    LET ages == {age[g] : g \in Subfilters(f)} IN
    CASE f[1] = "intersection" -> IntersectionFastAge(ages, sort)
      [] f[1] = "union"        -> UnionFastAge(ages, sort)
      [] f[1] = "negation"     -> NegationFastAge(age[f[2]], sort)
      [] OTHER                 -> SimpleAge(f, id, sort)

FastAgeRound(id, sort, age) ==
    [f \in Nodes |->
        LET ages == {age[g] : g \in Subfilters(f)} IN
        CASE f[1] = "intersection" -> Only({IntersectionFastAge(S, sort) : S \in {ages}})
          [] f[1] = "union"        -> Only({UnionFastAge(S, sort) : S \in {ages}})
          [] f[1] = "negation"     -> NegationFastAge(age[f[2]], sort)
          [] OTHER                 -> SimpleAge(f, id, sort)]

\* The ages (-fastAge::) of the filters of a query, likewise.
LEMMA FastAgeIs ==
  ASSUME IndexOK(db), NEW id \in DOMAIN db.file, NEW sort \in 0..Infinity
  PROVE  /\ FastAge(id, sort) \in [Nodes -> 0..Infinity]
         /\ \A f \in Nodes : FastAge(id, sort)[f] = FastAgeOf(id, sort, f, FastAge(id, sort))
<1> DEFINE V == 0..Infinity
           R == [p \in Nodes \X [Nodes -> V] |-> FastAgeOf(id, sort, p[1], p[2])]
<1>1. Len(db.file) \in Nat /\ Infinity = Len(db.file) + 1
  BY Tables
<1>2. 0 \in V
  BY <1>1
<1>3. \A f \in Nodes, a \in [Nodes -> V] : R[<<f, a>>] = FastAgeOf(id, sort, f, a)
  OBVIOUS
<1>4. ASSUME NEW f \in Nodes, NEW a, \A g \in Subfilters(f) : a[g] \in V
      PROVE  FastAgeOf(id, sort, f, a) \in V
  <2> DEFINE ages == {a[g] : g \in Subfilters(f)}
  <2>1. 0 \in V /\ Infinity \in V /\ sort \in V
    BY <1>1
  <2>2. CASE f \in Simple
    <3>1. FastAgeOf(id, sort, f, a) = SimpleAge(f, id, sort)
      BY <2>2, Kinds DEF FastAgeOf
    <3>2. SimpleAge(f, id, sort) \in 1..Infinity
      BY <2>2, <1>1, SimpleAgeIs
    <3> QED
      BY <1>1, <3>1, <3>2
  <2>3. CASE f[1] = "negation"
    <3>1. FastAgeOf(id, sort, f, a) = NegationFastAge(a[f[2]], sort)
      BY <2>3 DEF FastAgeOf
    <3> QED
      BY <2>1, <3>1 DEF NegationFastAge
  <2>4. CASE f[1] = "intersection"
    <3>1. FastAgeOf(id, sort, f, a) = IntersectionFastAge(ages, sort)
      BY <2>4 DEF FastAgeOf
    <3> HIDE DEF ages
    <3> QED
      BY <2>1, <3>1 DEF IntersectionFastAge
  <2>5. CASE f[1] = "union"
    <3>1. FastAgeOf(id, sort, f, a) = UnionFastAge(ages, sort)
      BY <2>5 DEF FastAgeOf
    <3> HIDE DEF ages
    <3> QED
      BY <2>1, <3>1 DEF UnionFastAge
  <2> QED
    BY <2>2, <2>3, <2>4, <2>5, Kinds
<1>5. ASSUME NEW f \in Nodes, NEW a \in [Nodes -> V], NEW b \in [Nodes -> V],
             \A g \in Subfilters(f) : a[g] = b[g]
      PROVE  FastAgeOf(id, sort, f, a) = FastAgeOf(id, sort, f, b)
  <2>1. {a[g] : g \in Subfilters(f)} = {b[g] : g \in Subfilters(f)}
    BY <1>5, Zenon
  <2>2. f[1] = "negation" => a[f[2]] = b[f[2]]
    BY <1>5, Kinds
  <2> QED
    BY <2>1, <2>2 DEF FastAgeOf
<1>6. ByPartsOnly(V, R)
  <2>1. ASSUME NEW f \in Nodes, NEW a \in [Nodes -> V] PROVE FastAgeOf(id, sort, f, a) \in V
    <3>1. \A g \in Subfilters(f) : a[g] \in V
      BY Parts
    <3> QED
      BY <1>4, <3>1
  <2> HIDE DEF V, R
  <2> QED
    BY <1>3, <1>5, <2>1 DEF ByPartsOnly
<1>7. PICK a \in [Nodes -> V] : \A f \in Nodes : a[f] = R[<<f, a>>]
  <2> HIDE DEF V, R
  <2> QED
    BY <1>2, <1>6, Recursion
<1>8. ASSUME NEW b PROVE FastAgeRound(id, sort, b) = [f \in Nodes |-> FastAgeOf(id, sort, f, b)]
  <2>1. ASSUME NEW f \in Nodes
        PROVE  FastAgeRound(id, sort, b)[f] = FastAgeOf(id, sort, f, b)
    <3> DEFINE ages == {b[g] : g \in Subfilters(f)}
    <3>1. {IntersectionFastAge(S, sort) : S \in {ages}} = {IntersectionFastAge(ages, sort)}
          /\ {UnionFastAge(S, sort) : S \in {ages}} = {UnionFastAge(ages, sort)}
      <4> HIDE DEF ages
      <4> QED
        OBVIOUS
    <3>2. Only({IntersectionFastAge(ages, sort)}) = IntersectionFastAge(ages, sort)
          /\ Only({UnionFastAge(ages, sort)}) = UnionFastAge(ages, sort)
      BY OnlyIs
    <3> QED
      BY <3>1, <3>2 DEF FastAgeOf, FastAgeRound
  <2>2. FastAgeRound(id, sort, b) = [f \in Nodes |-> FastAgeRound(id, sort, b)[f]]
    BY DEF FastAgeRound
  <2> QED
    BY <2>1, <2>2
<1>9. a = FastAgeRound(id, sort, a)
  <2>1. \A f \in Nodes : a[f] = FastAgeOf(id, sort, f, a)
    <3> HIDE DEF V
    <3> QED
      BY <1>3, <1>7
  <2>2. FastAgeRound(id, sort, a) = [f \in Nodes |-> FastAgeOf(id, sort, f, a)]
    <3> HIDE DEF V, R
    <3> QED
      BY <1>8
  <2>3. a = [f \in Nodes |-> a[f]]
    <3> HIDE DEF V, R
    <3> QED
      BY <1>7
  <2> HIDE DEF V, R
  <2> QED
    BY <2>1, <2>2, <2>3
<1>10. FastAge(id, sort) = CHOOSE age : age = FastAgeRound(id, sort, age)
  BY DEF FastAge, FastAgeRound
<1>11. FastAge(id, sort) = FastAgeRound(id, sort, FastAge(id, sort))
  BY <1>9, <1>10, Zenon
<1>12. \A f \in Nodes : FastAge(id, sort)[f] = FastAgeOf(id, sort, f, FastAge(id, sort))
  BY <1>8, <1>11
<1>13. FastAge(id, sort) \in [Nodes -> V]
  <2> DEFINE P == {f \in Nodes : FastAge(id, sort)[f] \in V}
  <2>1. ASSUME NEW f \in Nodes, Subfilters(f) \subseteq P PROVE f \in P
    <3>1. \A g \in Subfilters(f) : FastAge(id, sort)[g] \in V
      BY <2>1
    <3> HIDE DEF V
    <3> QED
      BY <1>4, <1>12, <3>1
  <2>2. P \subseteq Nodes
    OBVIOUS
  <2>3. P = Nodes
    <3> HIDE DEF P
    <3> QED
      BY <2>1, <2>2, ByParts
  <2>4. FastAge(id, sort) = [f \in Nodes |-> FastAge(id, sort)[f]]
    BY <1>8, <1>11
  <2> HIDE DEF V
  <2> QED
    BY <2>3, <2>4
<1> QED
  BY <1>12, <1>13

\* What a filter means.
MatchesOf(id, sort, negations, f, holds) ==
    CASE f[1] = "intersection" -> \A g \in f[2] : Lists[g] = {} \/ holds[g]
      [] f[1] = "union" -> \E g \in f[2] : IF Lists[g] = {} THEN negations ELSE holds[g]
      [] f[1] = "negation" -> negations
      [] OTHER -> Holds(f, id, sort)

\* And what each filter of a query means.
LEMMA MatchesAre ==
  ASSUME NEW id, NEW sort, NEW negations \in BOOLEAN
  PROVE  \A f \in Nodes :
            Matches(id, sort, negations)[f] = MatchesOf(id, sort, negations, f, Matches(id, sort, negations))
<1> DEFINE V == BOOLEAN
           R == [p \in Nodes \X [Nodes -> V] |-> MatchesOf(id, sort, negations, p[1], p[2])]
           Round(h) == [f \in Nodes |-> MatchesOf(id, sort, negations, f, h)]
<1>1. PICK v \in V : TRUE
  OBVIOUS
<1>2. \A f \in Nodes, a \in [Nodes -> V] : R[<<f, a>>] = MatchesOf(id, sort, negations, f, a)
  OBVIOUS
<1>3. ASSUME NEW f \in Nodes, NEW a
      PROVE  MatchesOf(id, sort, negations, f, a) \in V
  BY Kinds, Zenon DEF MatchesOf, Holds
<1>4. ASSUME NEW f \in Nodes, NEW a \in [Nodes -> V], NEW b \in [Nodes -> V],
             \A g \in Subfilters(f) : a[g] = b[g]
      PROVE  MatchesOf(id, sort, negations, f, a) = MatchesOf(id, sort, negations, f, b)
  <2>1. CASE f[1] = "intersection"
    BY <1>4, <2>1, Kinds DEF MatchesOf
  <2>2. CASE f[1] = "union"
    BY <1>4, <2>2, Kinds DEF MatchesOf
  <2>3. CASE f[1] \notin {"intersection", "union"}
    BY <2>3 DEF MatchesOf
  <2> QED
    BY <2>1, <2>2, <2>3
<1>5. ByPartsOnly(V, R)
  <2> HIDE DEF V, R
  <2> QED
    BY <1>2, <1>3, <1>4 DEF ByPartsOnly
<1>6. PICK a \in [Nodes -> V] : \A f \in Nodes : a[f] = R[<<f, a>>]
  <2> HIDE DEF V, R
  <2> QED
    BY <1>1, <1>5, Recursion
<1>7. a = Round(a)
  <2> HIDE DEF V, R
  <2> QED
    BY <1>2, <1>6
<1>8. Matches(id, sort, negations) = CHOOSE holds : holds = Round(holds)
  BY DEF Matches, MatchesOf
<1>9. Matches(id, sort, negations) = Round(Matches(id, sort, negations))
  <2> HIDE DEF Round
  <2> QED
    BY <1>7, <1>8, Zenon
<1> QED
  BY <1>9

-----------------------------------------------------------------------------
(***************************************************************************)
(* Positions and what simple filters list.                                 *)
(***************************************************************************)
Positions == (0..Infinity) \X (0..Infinity)

\* In one direction the positions are in a strict and total order.
LEMMA AheadIs ==
  ASSUME NEW r \in {1, -1}, NEW a \in Nat \X Nat, NEW b \in Nat \X Nat, NEW c \in Nat \X Nat
  PROVE  /\ ~Ahead(r, a, a)
         /\ Ahead(r, a, b) => ~Ahead(r, b, a)
         /\ Ahead(r, a, b) \/ Ahead(r, b, a) \/ a = b
         /\ Ahead(r, a, b) /\ Ahead(r, b, c) => Ahead(r, a, c)
         /\ Ahead(r, a, b) /\ ~Ahead(r, c, b) => Ahead(r, a, c)
         /\ ~Ahead(r, b, a) /\ Ahead(r, b, c) => Ahead(r, a, c)
         /\ ~Ahead(r, b, a) /\ ~Ahead(r, c, b) => ~Ahead(r, c, a)
<1>1. a[1] \in Nat /\ a[2] \in Nat /\ b[1] \in Nat /\ b[2] \in Nat /\ c[1] \in Nat /\ c[2] \in Nat
  OBVIOUS
<1>2. a = <<a[1], a[2]>> /\ b = <<b[1], b[2]>> /\ c = <<c[1], c[2]>>
  OBVIOUS
<1>3. ~Ahead(r, a, a)
  BY <1>1 DEF Ahead, Before
<1>4. Ahead(r, a, b) => ~Ahead(r, b, a)
  BY <1>1 DEF Ahead, Before
<1>5. Ahead(r, a, b) \/ Ahead(r, b, a) \/ a = b
  <2>1. Before(a, b) \/ Before(b, a) \/ (a[1] = b[1] /\ a[2] = b[2])
    BY <1>1 DEF Before
  <2> QED
    BY <1>2, <2>1 DEF Ahead
<1>6. Ahead(r, a, b) /\ Ahead(r, b, c) => Ahead(r, a, c)
  BY <1>1 DEF Ahead, Before
<1>7. Ahead(r, a, b) /\ ~Ahead(r, c, b) => Ahead(r, a, c)
  BY <1>1 DEF Ahead, Before
<1>8. ~Ahead(r, b, a) /\ Ahead(r, b, c) => Ahead(r, a, c)
  BY <1>1 DEF Ahead, Before
<1>9. ~Ahead(r, b, a) /\ ~Ahead(r, c, b) => ~Ahead(r, c, a)
  BY <1>1 DEF Ahead, Before
<1> QED
  BY <1>3, <1>4, <1>5, <1>6, <1>7, <1>8, <1>9

\* A set of positions has a first one in each direction.
LEMMA FirstIs ==
  ASSUME NEW r \in {1, -1}, NEW k \in Nat, NEW S, S \subseteq (0..k) \X (0..k), S # {}
  PROVE  First(r, S) \in S /\ \A e \in S : ~Ahead(r, e, First(r, S))
<1>1. \E e \in S : \A f \in S : ~Ahead(r, f, e)
  <2> DEFINE ones == {e[1] : e \in S}
             twos(m) == {e[2] : e \in {e \in S : e[1] = m}}
  <2>1. ones \subseteq 0..k /\ ones # {}
    OBVIOUS
  <2>2. \A m : twos(m) \subseteq 0..k
    OBVIOUS
  <2>3. \A m \in ones : twos(m) # {}
    OBVIOUS
  <2>4. \A m, x : x \in twos(m) => <<m, x>> \in S
    OBVIOUS
  <2>5. \A e \in S : e[1] \in ones /\ e[2] \in twos(e[1]) /\ e[1] \in Nat /\ e[2] \in Nat
    OBVIOUS
  <2> HIDE DEF ones, twos
  <2>6. \A T : T \subseteq 0..k => T \subseteq Nat
    OBVIOUS
  <2>7. CASE r = 1
    <3>1. PICK m \in ones : \A x \in ones : m <= x
      BY <2>1, <2>6, Least
    <3>2. PICK y \in twos(m) : \A x \in twos(m) : y <= x
      BY <2>2, <2>3, <2>6, Least
    <3>3. \A f \in S : ~Ahead(r, f, <<m, y>>)
      <4>1. SUFFICES ASSUME NEW f \in S PROVE ~Ahead(r, f, <<m, y>>)
        OBVIOUS
      <4>2. m <= f[1] /\ (f[1] = m => y <= f[2]) /\ f[1] \in Nat /\ f[2] \in Nat /\ m \in Nat /\ y \in Nat
        BY <2>1, <2>2, <2>5, <2>6, <3>1, <3>2
      <4> QED
        BY <2>7, <4>2 DEF Ahead, Before
    <3> QED
      BY <2>4, <3>3
  <2>8. CASE r = -1
    <3>1. Max(ones) \in ones /\ \A x \in ones : x <= Max(ones)
      BY <2>1, MaxIs
    <3> DEFINE m == Max(ones)
    <3>2. Max(twos(m)) \in twos(m) /\ \A x \in twos(m) : x <= Max(twos(m))
      BY <2>2, <2>3, <3>1, MaxIs
    <3> DEFINE y == Max(twos(m))
    <3>3. \A f \in S : ~Ahead(r, f, <<m, y>>)
      <4>1. SUFFICES ASSUME NEW f \in S PROVE ~Ahead(r, f, <<m, y>>)
        OBVIOUS
      <4>2. f[1] <= m /\ (f[1] = m => f[2] <= y) /\ f[1] \in Nat /\ f[2] \in Nat /\ m \in Nat /\ y \in Nat
        BY <2>1, <2>2, <2>5, <2>6, <3>1, <3>2
      <4> HIDE DEF m, y
      <4> QED
        BY <2>8, <4>2 DEF Ahead, Before
    <3> QED
      BY <2>4, <3>2, <3>3
  <2> QED
    BY <2>7, <2>8
<1> QED
  BY <1>1, Zenon DEF First

\* Where a filter stands that has nothing more is behind every entry, and in front of
\* every entry in the other direction.
LEMMA InvalidIs ==
  ASSUME IndexOK(db), NEW r \in {1, -1}
  PROVE  /\ Invalid(r) \in Positions /\ ~Valid(Invalid(r)[1]) /\ ~Valid(Invalid(r)[2])
         /\ Positions \subseteq Nat \X Nat
         /\ \A e \in Positions : ~Ahead(r, Invalid(r), e)
         /\ \A e \in (1..Len(db.file)) \X (1..Len(db.file)) :
               /\ e \in Positions /\ Valid(e[1]) /\ Valid(e[2])
               /\ Ahead(r, e, Invalid(r)) /\ Ahead(r, Invalid(-r), e)
<1>1. Len(db.file) \in Nat /\ Infinity = Len(db.file) + 1
  BY Tables
<1>2. Invalid(r) \in Positions /\ ~Valid(Invalid(r)[1]) /\ ~Valid(Invalid(r)[2])
  BY <1>1 DEF Invalid, Positions, Valid
<1>3. Positions \subseteq Nat \X Nat
  BY <1>1 DEF Positions
<1>4. ASSUME NEW e \in Positions PROVE ~Ahead(r, Invalid(r), e)
  <2>1. e[1] \in 0..Infinity /\ e[2] \in 0..Infinity
    BY DEF Positions
  <2> QED
    BY <1>1, <2>1 DEF Invalid, Ahead, Before
<1>5. ASSUME NEW e \in (1..Len(db.file)) \X (1..Len(db.file))
      PROVE  /\ e \in Positions /\ Valid(e[1]) /\ Valid(e[2])
             /\ Ahead(r, e, Invalid(r)) /\ Ahead(r, Invalid(-r), e)
  <2>1. e[1] \in 1..Len(db.file) /\ e[2] \in 1..Len(db.file) /\ e = <<e[1], e[2]>>
    OBVIOUS
  <2>2. e \in Positions
    BY <1>1, <2>1 DEF Positions
  <2> QED
    BY <1>1, <2>1, <2>2 DEF Invalid, Ahead, Before, Valid
<1> QED
  BY <1>2, <1>3, <1>4, <1>5

\* A simple filter lists files of the repository.
LEMMA ListedAre ==
  ASSUME IndexOK(db), NEW f \in Simple
  PROVE  Listed(f) \subseteq (1..Len(db.file)) \X (1..Len(db.file))
<1>1. DOMAIN db.file = 1..Len(db.file)
  BY Tables
<1>2. CASE Indirect(f)
  <2>1. \A e \in Listed(f) : \E row \in db.meta : e \in {row[1]} \X FilesOf(row[2])
    BY <1>2 DEF Listed
  <2>2. \A u : FilesOf(u) \subseteq DOMAIN db.file
    BY Tables DEF FilesOf
  <2>3. \A row \in db.meta : row[1] \in DOMAIN db.file
    BY Tables
  <2> QED
    BY <1>1, <2>1, <2>2, <2>3
<1>3. CASE ~Indirect(f)
  <2>1. Listed(f) = {<<i, i>> : i \in Named(f)}
    BY <1>3 DEF Listed
  <2>2. Named(f) \subseteq DOMAIN db.file
    BY <1>3, NamedAre
  <2> QED
    BY <1>1, <2>1, <2>2
<1> QED
  BY <1>2, <1>3

\* Seeking leaves out nothing that the filter lists from the position on.
LEMMA SoughtIs ==
  ASSUME IndexOK(db), dir \in {1, -1}, NEW f \in Simple, NEW p \in Positions
  PROVE  /\ Sought(f, p) \in Listed(f) \cup {Invalid(dir)}
         /\ ~Ahead(dir, Sought(f, p), p)
         /\ \A e \in Listed(f) : ~Ahead(dir, e, p) => ~Ahead(dir, e, Sought(f, p))
<1> DEFINE S == {e \in Listed(f) : ~Ahead(dir, e, p)} \cup {Invalid(dir)}
<1>1. Infinity \in Nat /\ S \subseteq (0..Infinity) \X (0..Infinity) /\ S # {}
  <2>1. Listed(f) \subseteq Positions /\ Invalid(dir) \in Positions
    BY ListedAre, InvalidIs
  <2> QED
    BY <2>1, Tables DEF Positions
<1>2. ~Ahead(dir, Invalid(dir), p)
  BY InvalidIs
<1>3. Sought(f, p) = First(dir, S)
  BY DEF Sought
<1>4. First(dir, S) \in S /\ \A e \in S : ~Ahead(dir, e, First(dir, S))
  <2> HIDE DEF S
  <2> QED
    BY <1>1, FirstIs
<1> QED
  BY <1>2, <1>3, <1>4

\* What an indirect filter does not go back to.
Passed(f, e) == dir < 0 /\ Indirect(f) /\ \E d \in Listed(f) : d[1] = e[1] /\ d[2] < e[2]

\* A step of a filter goes on, and leaves out nothing but files that Stepped says an
\* indirect filter leaves out.
LEMMA SteppedIs ==
  ASSUME IndexOK(db), dir \in {1, -1}, NEW f \in Simple, NEW p \in Listed(f) \cup {Invalid(dir)}
  PROVE  /\ Stepped(f, p) \in Listed(f) \cup {Invalid(dir)}
         /\ p \in Listed(f) => Ahead(dir, p, Stepped(f, p))
         /\ p = Invalid(dir) => Stepped(f, p) = p
         /\ \A e \in Listed(f) : Ahead(dir, p, e) => ~Ahead(dir, e, Stepped(f, p)) \/ Passed(f, e)
<1> DEFINE ahead == {e \in Listed(f) : Ahead(dir, p, e)}
           same == {e \in ahead : e[1] = p[1]}
           next == First(dir, ahead)[1]
           row == {e \in ahead : e[1] = next}
<1>1. Stepped(f, p) = IF ahead = {} THEN Invalid(dir)
                      ELSE IF same # {} THEN First(dir, same)
                      ELSE First(1, row)
  BY DEF Stepped
<1>2. Listed(f) \subseteq Positions /\ Infinity \in Nat /\ Positions \subseteq Nat \X Nat
      /\ Invalid(dir) \in Positions
  BY ListedAre, InvalidIs, Tables
<1>3. \A e \in Listed(f) : Ahead(dir, e, Invalid(dir)) /\ ~Ahead(dir, Invalid(dir), e)
  BY ListedAre, InvalidIs
<1>4. CASE ahead = {}
  BY <1>1, <1>3, <1>4
<1>5. CASE ahead # {}
  <2>1. p \in Listed(f)
    BY <1>3, <1>5
  <2>2. p # Invalid(dir)
    BY <1>2, <1>3, <2>1, AheadIs
  <2>3. First(dir, ahead) \in ahead /\ \A e \in ahead : ~Ahead(dir, e, First(dir, ahead))
    <3>1. ahead \subseteq (0..Infinity) \X (0..Infinity)
      BY <1>2 DEF Positions
    <3> HIDE DEF ahead
    <3> QED
      BY <1>2, <1>5, <3>1, FirstIs
  <2>4. CASE same # {}
    <3>1. Stepped(f, p) = First(dir, same)
      BY <1>1, <1>5, <2>4
    <3>2. First(dir, same) \in same /\ \A e \in same : ~Ahead(dir, e, First(dir, same))
      <4>1. same \subseteq (0..Infinity) \X (0..Infinity)
        BY <1>2 DEF Positions
      <4> HIDE DEF same
      <4> QED
        BY <1>2, <2>4, <4>1, FirstIs
    <3>3. ASSUME NEW e \in ahead, e \notin same PROVE ~Ahead(dir, e, First(dir, same))
      <4> DEFINE d == First(dir, same)
      <4>1. d[1] = p[1] /\ e[1] # p[1] /\ Ahead(dir, p, e) /\ d[1] \in Nat /\ d[2] \in Nat
            /\ e[1] \in Nat /\ e[2] \in Nat /\ p[1] \in Nat /\ p[2] \in Nat
        BY <1>2, <2>1, <3>2, <3>3
      <4>2. ~Ahead(dir, e, d)
        <5> HIDE DEF d
        <5> QED
          BY <4>1 DEF Ahead, Before
      <4> QED
        BY <4>2
    <3> QED
      BY <2>1, <2>2, <3>1, <3>2, <3>3
  <2>5. CASE same = {}
    <3>1. Stepped(f, p) = First(1, row)
      BY <1>1, <1>5, <2>5
    <3>2. First(1, row) \in row /\ \A e \in row : ~Ahead(1, e, First(1, row))
      <4>1. row \subseteq (0..Infinity) \X (0..Infinity) /\ row # {}
        BY <1>2, <2>3 DEF Positions
      <4> HIDE DEF row
      <4> QED
        BY <1>2, <4>1, FirstIs
    <3> DEFINE d == First(1, row)
               b == First(dir, ahead)
    <3>3. ASSUME NEW e \in ahead, Ahead(dir, e, d) PROVE Passed(f, e)
      <4>1. d \in Nat \X Nat /\ e \in Nat \X Nat /\ b \in Nat \X Nat /\ d[1] = b[1] /\ ~Ahead(dir, e, b)
        BY <1>2, <2>3, <3>2
      <4>2. e[1] = d[1]
        <5> HIDE DEF d, b
        <5> QED
          BY <4>1, <3>3 DEF Ahead, Before
      <4>3. ~Ahead(1, e, d)
        BY <3>2, <4>1, <4>2
      <4>4. dir < 0 /\ d[2] < e[2]
        <5> HIDE DEF d, b
        <5> QED
          BY <4>1, <4>2, <4>3, <3>3 DEF Ahead, Before
      <4>5. d \in Listed(f)
        BY <3>2
      <4>6. Indirect(f)
        <5>1. ~Indirect(f) => d[2] = d[1] /\ e[2] = e[1]
          BY <4>5 DEF Listed
        <5> HIDE DEF d, b
        <5> QED
          BY <4>1, <4>2, <4>4, <5>1
      <4> HIDE DEF d
      <4> QED
        BY <4>2, <4>4, <4>5, <4>6 DEF Passed
    <3>4. d \in ahead
      BY <3>2
    <3> QED
      BY <2>1, <2>2, <3>1, <3>3, <3>4
  <2> QED
    BY <2>4, <2>5
<1> QED
  BY <1>4, <1>5

-----------------------------------------------------------------------------
(***************************************************************************)
(* The scan of a query.                                                    *)
(***************************************************************************)
\* The candidates, and those that are at their age.
Candidates == UNION {Listed(f) : f \in Lists[query]}
Hits == {c \in Candidates : FastAge(c[2], c[1])[query] = c[1]}

\* Where the filters of a query may stand: on something that they list, behind
\* which nothing is left that they list from the current position on.
Stands(from) ==
    /\ from \in [Lists[query] -> Positions]
    /\ \A f \in Lists[query] :
          /\ from[f] \in Listed(f) \cup {Invalid(dir)}
          /\ \A e \in Listed(f) : ~Ahead(dir, e, Current(from)) =>
                ~Ahead(dir, e, from[f]) \/ Passed(f, e)

QueryOK == query \in Nodes /\ dir \in {1, -1}

\* What is walked for a query are simple filters.
LEMMA QueryLists ==
  ASSUME QueryOK
  PROVE  \A f \in Lists[query] : f \in Simple /\ f \in Nodes
  BY ListsAre DEF QueryOK

\* Candidates are pairs of IDs of files, between the two ends.
LEMMA CandidatesAre ==
  ASSUME IndexOK(db), QueryOK, NEW c \in Candidates
  PROVE  /\ c \in (1..Len(db.file)) \X (1..Len(db.file)) /\ c[2] \in DOMAIN db.file
         /\ c \in Positions /\ c \in Nat \X Nat
         /\ Valid(c[1]) /\ Valid(c[2])
         /\ Ahead(dir, c, Invalid(dir)) /\ Ahead(dir, Invalid(-dir), c)
<1>1. PICK f \in Lists[query] : c \in Listed(f)
  BY DEF Candidates
<1>2. c \in (1..Len(db.file)) \X (1..Len(db.file))
  BY <1>1, QueryLists, ListedAre
<1>3. c[2] \in DOMAIN db.file
  BY <1>2, Tables
<1> QED
  BY <1>2, <1>3, InvalidIs DEF QueryOK

\* The current position is the first of the filters', and a candidate or the end.
LEMMA CurrentIs ==
  ASSUME IndexOK(db), QueryOK,
         NEW from \in [Lists[query] -> Positions],
         \A f \in Lists[query] : from[f] \in Listed(f) \cup {Invalid(dir)}
  PROVE  /\ Current(from) \in Candidates \cup {Invalid(dir)}
         /\ Current(from) \in Positions
         /\ Current(from) \in Candidates <=> Valid(Current(from)[2])
         /\ Current(from) = Invalid(dir) \/ \E f \in Lists[query] : from[f] = Current(from) /\ Current(from) \in Listed(f)
         /\ \A f \in Lists[query] : ~Ahead(dir, from[f], Current(from))
<1> DEFINE S == {from[f] : f \in DOMAIN from} \cup {Invalid(dir)}
<1>1. Infinity \in Nat /\ S \subseteq (0..Infinity) \X (0..Infinity) /\ S # {}
  BY Tables, InvalidIs DEF Positions, QueryOK
<1>2. Current(from) \in S /\ \A e \in S : ~Ahead(dir, e, Current(from))
  <2>1. dir \in {1, -1} /\ Current(from) = First(dir, S)
    BY DEF Current, QueryOK
  <2> HIDE DEF S
  <2> QED
    BY <1>1, <2>1, FirstIs
<1>3. Current(from) = Invalid(dir) \/ \E f \in Lists[query] : from[f] = Current(from) /\ Current(from) \in Listed(f)
  BY <1>2
<1>4. Current(from) \in Candidates \cup {Invalid(dir)}
  BY <1>3 DEF Candidates
<1>5. ~Valid(Invalid(dir)[2])
  BY InvalidIs DEF QueryOK
<1>6. Current(from) \in Candidates => Valid(Current(from)[2])
  BY CandidatesAre
<1>7. Current(from) \in Positions
  BY <1>1, <1>2 DEF Positions
<1> QED
  BY <1>2, <1>3, <1>4, <1>5, <1>6, <1>7

\* Seeking a position leaves out nothing from there on.
LEMMA SeeksStand ==
  ASSUME IndexOK(db), QueryOK, NEW p \in Positions
  PROVE  /\ Stands(Seeks(p))
         /\ ~Ahead(dir, Current(Seeks(p)), p)
         /\ \A c \in Candidates : ~Ahead(dir, c, p) => ~Ahead(dir, c, Current(Seeks(p)))
         /\ p \in Candidates => Current(Seeks(p)) = p
<1> DEFINE from == Seeks(p)
<1>0. Positions \subseteq Nat \X Nat /\ dir \in {1, -1}
  BY InvalidIs DEF QueryOK
<1>1. \A f \in Lists[query] :
         /\ from[f] \in Listed(f) \cup {Invalid(dir)}
         /\ ~Ahead(dir, from[f], p)
         /\ \A e \in Listed(f) : ~Ahead(dir, e, p) => ~Ahead(dir, e, from[f])
  BY <1>0, QueryLists, SoughtIs DEF Seeks
<1>2. from \in [Lists[query] -> Positions]
  <2>1. \A f \in Lists[query] : from[f] \in Positions
    BY <1>0, <1>1, QueryLists, ListedAre, InvalidIs
  <2> QED
    BY <2>1 DEF Seeks
<1> HIDE DEF from
<1>3. /\ Current(from) \in Candidates \cup {Invalid(dir)}
      /\ Current(from) \in Positions
      /\ Current(from) = Invalid(dir) \/ \E f \in Lists[query] : from[f] = Current(from)
      /\ \A f \in Lists[query] : ~Ahead(dir, from[f], Current(from))
  BY <1>1, <1>2, CurrentIs
<1>4. ~Ahead(dir, Current(from), p)
  BY <1>0, <1>1, <1>3, InvalidIs
<1>5. ASSUME NEW f \in Lists[query], NEW e \in Listed(f), ~Ahead(dir, e, Current(from))
      PROVE  ~Ahead(dir, e, from[f])
  <2>1. e \in Candidates
    BY DEF Candidates
  <2>2. e \in Nat \X Nat /\ p \in Nat \X Nat /\ Current(from) \in Nat \X Nat
    BY <1>0, <1>3, <2>1, CandidatesAre
  <2>3. ~Ahead(dir, e, p)
    BY <1>0, <1>4, <1>5, <2>2, AheadIs
  <2> QED
    BY <1>1, <2>3
<1>6. ASSUME NEW c \in Candidates, ~Ahead(dir, c, p) PROVE ~Ahead(dir, c, Current(from))
  <2>1. PICK f \in Lists[query] : c \in Listed(f)
    BY DEF Candidates
  <2>2. c \in Nat \X Nat /\ from[f] \in Nat \X Nat /\ Current(from) \in Nat \X Nat
    BY <1>0, <1>2, <1>3, CandidatesAre
  <2>3. ~Ahead(dir, c, from[f]) /\ ~Ahead(dir, from[f], Current(from))
    BY <1>1, <1>3, <1>6, <2>1
  <2> QED
    BY <1>0, <2>2, <2>3, AheadIs
<1>7. p \in Candidates => Current(from) = p
  <2>1. SUFFICES ASSUME p \in Candidates PROVE Current(from) = p
    OBVIOUS
  <2>2. p \in Nat \X Nat /\ Current(from) \in Nat \X Nat
    BY <1>0, <1>3
  <2>3. ~Ahead(dir, p, Current(from))
    BY <1>0, <1>6, <2>1, <2>2, AheadIs
  <2> QED
    BY <1>0, <1>4, <2>2, <2>3, AheadIs
<1> QED
  BY <1>1, <1>2, <1>4, <1>5, <1>6, <1>7 DEF Stands, from

\* A step goes on, and leaves out nothing but what is passed over.
LEMMA StepsStand ==
  ASSUME IndexOK(db), QueryOK, NEW from, Stands(from)
  PROVE  /\ Stands(Steps(from))
         /\ Current(from) \in Candidates => Ahead(dir, Current(from), Current(Steps(from)))
         /\ Current(from) = Invalid(dir) => Current(Steps(from)) = Invalid(dir)
         /\ \A c \in Candidates :
               \/ Ahead(dir, c, Current(from)) \/ c = Current(from)
               \/ ~Ahead(dir, c, Current(Steps(from)))
               \/ PassedOver(c)
<1> DEFINE to == Steps(from)
           cur == Current(from)
<1>0. Positions \subseteq Nat \X Nat /\ dir \in {1, -1} /\ Invalid(dir) \in Positions
  BY InvalidIs DEF QueryOK
<1>1. /\ from \in [Lists[query] -> Positions]
      /\ \A f \in Lists[query] :
            /\ from[f] \in Listed(f) \cup {Invalid(dir)}
            /\ \A e \in Listed(f) : ~Ahead(dir, e, cur) => ~Ahead(dir, e, from[f]) \/ Passed(f, e)
  BY DEF Stands
<1>2. /\ cur \in Candidates \cup {Invalid(dir)} /\ cur \in Positions
      /\ \A f \in Lists[query] : ~Ahead(dir, from[f], cur)
  BY <1>1, CurrentIs
<1>3. \A f \in Lists[query] : to[f] = IF from[f] = cur THEN Stepped(f, from[f]) ELSE from[f]
  BY <1>1 DEF Steps
<1>4. to = [f \in Lists[query] |-> to[f]]
  BY <1>1 DEF Steps
<1> HIDE DEF to, cur
<1>5. ASSUME NEW f \in Lists[query]
      PROVE  /\ to[f] \in Listed(f) \cup {Invalid(dir)}
             /\ cur \in Candidates => Ahead(dir, cur, to[f])
             /\ cur = Invalid(dir) => to[f] = Invalid(dir)
             /\ \A e \in Listed(f) : Ahead(dir, cur, e) => ~Ahead(dir, e, to[f]) \/ Passed(f, e)
  <2>1. f \in Simple
    BY QueryLists
  <2>2. \A e \in Listed(f) : e \in Candidates /\ e \in Nat \X Nat
    BY CandidatesAre DEF Candidates
  <2>3. cur \in Nat \X Nat /\ from[f] \in Nat \X Nat
    BY <1>0, <1>1, <1>2
  <2>4. CASE from[f] = cur
    <3>1. to[f] = Stepped(f, cur) /\ cur \in Listed(f) \cup {Invalid(dir)}
      BY <1>1, <1>3, <2>4
    <3>2. /\ Stepped(f, cur) \in Listed(f) \cup {Invalid(dir)}
          /\ cur \in Listed(f) => Ahead(dir, cur, Stepped(f, cur))
          /\ cur = Invalid(dir) => Stepped(f, cur) = cur
          /\ \A e \in Listed(f) : Ahead(dir, cur, e) => ~Ahead(dir, e, Stepped(f, cur)) \/ Passed(f, e)
      BY <1>0, <2>1, <3>1, SteppedIs
    <3>3. cur \in Candidates => cur # Invalid(dir)
      BY CandidatesAre, <1>0, <2>3, AheadIs
    <3> QED
      BY <3>1, <3>2, <3>3
  <2>5. CASE from[f] # cur
    <3>1. to[f] = from[f]
      BY <1>3, <2>5
    <3>2. Ahead(dir, cur, from[f])
      BY <1>0, <1>2, <2>3, <2>5, AheadIs
    <3>3. cur # Invalid(dir)
      BY <1>0, <1>1, <3>2, InvalidIs
    <3>4. \A e \in Listed(f) : Ahead(dir, cur, e) => ~Ahead(dir, e, cur)
      BY <1>0, <2>2, <2>3, AheadIs
    <3> QED
      BY <1>1, <3>1, <3>2, <3>3, <3>4
  <2> QED
    BY <2>4, <2>5
<1>6. to \in [Lists[query] -> Positions]
  <2>1. \A f \in Lists[query] : to[f] \in Positions
    BY <1>0, <1>5, CandidatesAre DEF Candidates
  <2> QED
    BY <1>4, <2>1
<1>7. /\ Current(to) \in Candidates \cup {Invalid(dir)} /\ Current(to) \in Positions
      /\ Current(to) = Invalid(dir) \/ \E f \in Lists[query] : to[f] = Current(to)
      /\ \A f \in Lists[query] : ~Ahead(dir, to[f], Current(to))
  BY <1>5, <1>6, CurrentIs
<1>8. cur \in Candidates => Ahead(dir, cur, Current(to))
  BY <1>5, <1>7, CandidatesAre
<1>9. cur = Invalid(dir) => Current(to) = Invalid(dir)
  BY <1>5, <1>7
<1>10. ASSUME NEW e \in Candidates, ~Ahead(dir, e, Current(to)) PROVE Ahead(dir, cur, e)
  <2>1. e \in Nat \X Nat /\ cur \in Nat \X Nat /\ Current(to) \in Nat \X Nat
    BY <1>0, <1>2, <1>7, CandidatesAre
  <2>2. CASE cur \in Candidates
    BY <1>0, <1>8, <1>10, <2>1, <2>2, AheadIs
  <2>3. CASE cur = Invalid(dir)
    BY <1>9, <1>10, <2>3, CandidatesAre
  <2> QED
    BY <1>2, <2>2, <2>3
<1>11. Stands(to)
  <2>1. \A f \in Lists[query] : \A e \in Listed(f) : e \in Candidates
    BY DEF Candidates
  <2> QED
    BY <1>5, <1>6, <1>10, <2>1 DEF Stands
<1>12. ASSUME NEW c \in Candidates, Ahead(dir, cur, c), Ahead(dir, c, Current(to))
       PROVE  PassedOver(c)
  <2>1. ASSUME NEW f \in Lists[query], c \in Listed(f) PROVE Passed(f, c)
    <3>1. ~Ahead(dir, c, to[f]) \/ Passed(f, c)
      BY <1>5, <1>12, <2>1
    <3>2. c \in Nat \X Nat /\ to[f] \in Nat \X Nat /\ Current(to) \in Nat \X Nat
      BY <1>0, <1>6, <1>7, CandidatesAre
    <3>3. ~Ahead(dir, to[f], Current(to))
      BY <1>7
    <3>4. Ahead(dir, c, to[f])
      BY <1>0, <1>12, <3>2, <3>3, AheadIs
    <3> QED
      BY <3>1, <3>4
  <2>2. \E f \in Lists[query] : c \in Listed(f)
    BY DEF Candidates
  <2> QED
    BY <2>1, <2>2 DEF Passed, PassedOver
<1>13. \A c \in Candidates :
          \/ Ahead(dir, c, cur) \/ c = cur
          \/ ~Ahead(dir, c, Current(to))
          \/ PassedOver(c)
  <2>1. \A c \in Candidates : Ahead(dir, c, cur) \/ c = cur \/ Ahead(dir, cur, c)
    BY <1>0, <1>2, CandidatesAre, AheadIs
  <2> QED
    BY <1>12, <2>1
<1> QED
  BY <1>8, <1>9, <1>11, <1>13 DEF to, cur

\* Where the scan begins, which is no result: in front of everything or, for a
\* start URI, at the first candidate from its file's age on.
Base ==
    IF asked = NoURI THEN Invalid(-dir)
    ELSE LET id == CHOOSE id \in FilesOf(asked) : FilesOf(asked) = {id} IN
         Current(Seeks(<<FullAge(id)[query][1], id>>))

Found(c) == \E i \in DOMAIN out : out[i] = c

\* What the scan has come past: all in front of the current position, then all up
\* to the last result.
Past(c) ==
    \/ pc = "scan" /\ Ahead(dir, c, Current(at))
    \/ pc = "prepare" /\ out # <<>> /\ ~Ahead(dir, out[Len(out)], c)
    \/ pc = "done"

\* Where a scan resumes is its last result, or what was asked for.
PositionOK ==
    /\ out = <<>> => start = asked /\ pos = Invalid(-dir)
    /\ out # <<>> => start = NoURI /\ pos = out[Len(out)]
    /\ pc = "refused" =>
          /\ out = <<>> /\ asked # NoURI
          /\ \A id \in FilesOf(asked) : FilesOf(asked) # {id} \/ ~ValidAge(FullAge(id)[query])

\* The filters stand behind the results so far.
FiltersOK ==
    pc = "scan" =>
        /\ Stands(at)
        /\ out = <<>> => n = 0
        /\ \A i \in DOMAIN out : Ahead(dir, out[i], Current(at))
        /\ Current(at) \in Candidates => Ahead(dir, Base, Current(at))

\* The results so far are hits, in order,
OutOK ==
    /\ pc = "scan" \/ out # <<>> => Base \in Positions
    /\ \A i \in DOMAIN out : out[i] \in Hits /\ Ahead(dir, Base, out[i])
    /\ \A i, j \in DOMAIN out : i < j => Ahead(dir, out[i], out[j])

\* and every hit that the scan has come past, but for those passed over.
NoneLost ==
    \A c \in Hits : Past(c) /\ Ahead(dir, Base, c) => Found(c) \/ PassedOver(c)

\* The inductive invariant.
ScanInv ==
    /\ IndexOK(db)
    /\ pc \in {"build", "prepare", "scan", "done", "refused"}
    /\ n \in Nat /\ out \in Seq(Nat \X Nat)
    /\ pc = "build" => out = <<>>
    /\ pc # "build" => QueryOK /\ PositionOK /\ FiltersOK /\ OutOK /\ NoneLost

\* Steps of the scan leave the query and what it is about as they are.
Same == UNCHANGED <<db, query, dir, asked>>

\* What the scan is about does not change with its steps.
LEMMA SameIs ==
  ASSUME Same
  PROVE  /\ Base' = Base /\ Hits' = Hits /\ Candidates' = Candidates /\ Positions' = Positions
         /\ QueryOK' = QueryOK /\ IndexOK(db)' = IndexOK(db)
         /\ Invalid(-dir)' = Invalid(-dir)
         /\ \A c : PassedOver(c)' = PassedOver(c)
         /\ \A from : Current(from)' = Current(from) /\ Stands(from)' = Stands(from)
         /\ \A a, b : Ahead(dir, a, b)' = Ahead(dir, a, b)
         /\ FilesOf(asked)' = FilesOf(asked)
         /\ \A id : ValidAge(FullAge(id)[query])' = ValidAge(FullAge(id)[query])
<1> USE DEF Same
<1>1. Positions' = Positions /\ QueryOK' = QueryOK /\ IndexOK(db)' = IndexOK(db)
      /\ FilesOf(asked)' = FilesOf(asked)
  BY DEF Positions, QueryOK, Infinity, FilesOf
<1>2. Invalid(-dir)' = Invalid(-dir)
  BY DEF Invalid, Infinity
<1>3. Candidates' = Candidates
  BY DEF Candidates, Listed, Walks, Selects, Indirect, Named, Metas, FilesOf
<1>4. Hits' = Hits
  BY DEF Hits, Candidates, Listed, Walks, FastAge, SimpleAge, Indirect, Named, Metas, FilesOf, Infinity, Selects,
         UnionFastAge, IntersectionFastAge
<1>5. ASSUME NEW c PROVE PassedOver(c)' = PassedOver(c)
  BY DEF PassedOver, Listed, Walks, Selects, Indirect, Named, Metas, FilesOf
<1>6. ASSUME NEW from PROVE Current(from)' = Current(from)
  BY DEF Current, Invalid, Infinity, First, Ahead
<1>7. ASSUME NEW from PROVE Stands(from)' = Stands(from)
  BY DEF Stands, Passed, Positions, Current, Invalid, Infinity, First, Ahead, Listed, Walks, Selects, Indirect, Named,
         Metas, FilesOf
<1>8. ASSUME NEW a, NEW b PROVE Ahead(dir, a, b)' = Ahead(dir, a, b)
  BY DEF Ahead
<1>9. ASSUME NEW id PROVE FullAge(id)[query]' = FullAge(id)[query]
  BY DEF FullAge, SimpleAge, Indirect, Named, Metas, FilesOf, Infinity, Selects, ValidAge, Valid, Mins, Maxs,
         UnionFullAge, IntersectionFullAge, NegationFullAge
<1>10. ASSUME NEW id PROVE ValidAge(FullAge(id)[query])' = ValidAge(FullAge(id)[query])
  BY <1>9 DEF ValidAge, Valid, Infinity
<1>11. Base' = Base
  BY DEF Base, Current, Seeks, Sought, First, Ahead, Invalid, Listed, Walks, Indirect, Named, Metas, FilesOf, Infinity,
         Selects, FullAge, SimpleAge, ValidAge, Valid, Mins, Maxs, UnionFullAge, IntersectionFullAge, NegationFullAge
<1> QED
  BY <1>1, <1>2, <1>3, <1>4, <1>5, <1>6, <1>7, <1>8, <1>10, <1>11

\* The position and the standing of the filters after a step depend on nothing else.
LEMMA MovedTo ==
  ASSUME Same, NEW from, at' = from
  PROVE  Current(at)' = Current(from) /\ Stands(at)' = Stands(from)
<1>1. Current(at)' = Current(from)
  BY DEF Same, Current, Invalid, Infinity, First, Ahead
<1>2. Stands(at)' = Stands(from)
  BY DEF Same, Stands, Passed, Positions, Current, Invalid, Infinity, First, Ahead, Listed, Walks, Selects, Indirect,
         Named, Metas, FilesOf
<1> QED
  BY <1>1, <1>2

\* Skipping a candidate that is not at its age loses no hit.
LEMMA SkipOK ==
  ASSUME ScanInv, Skip
  PROVE  ScanInv'
<1> DEFINE cur == Current(at)
           to == Current(Steps(at))
<1>1. Same /\ pc = "scan" /\ pc' = pc /\ out' = out /\ start' = start /\ pos' = pos /\ n' = n
      /\ asked' = asked /\ at' = Steps(at)
  BY DEF Skip, Same
<1>2. IndexOK(db) /\ QueryOK /\ PositionOK /\ FiltersOK /\ OutOK /\ NoneLost
  BY <1>1 DEF ScanInv
<1>3. dir \in {1, -1} /\ Positions \subseteq Nat \X Nat
  BY <1>2, InvalidIs DEF QueryOK
<1>4. Stands(at) /\ cur \in Positions /\ cur \in Candidates /\ cur \notin Hits
  <2>1. Stands(at) /\ Miss(cur)
    BY <1>1, <1>2 DEF FiltersOK, Skip
  <2>2. cur \in Positions /\ cur \in Candidates
    BY <1>2, <2>1, CurrentIs DEF Stands, Miss
  <2> QED
    BY <2>1, <2>2 DEF Miss, Hits
<1>5. /\ Stands(Steps(at))
      /\ Ahead(dir, cur, to)
      /\ \A c \in Candidates : Ahead(dir, c, cur) \/ c = cur \/ ~Ahead(dir, c, to) \/ PassedOver(c)
  BY <1>2, <1>4, StepsStand
<1>6. to \in Positions
  BY <1>2, <1>5, CurrentIs DEF Stands
<1>7. Current(at)' = to /\ Stands(at)' = Stands(Steps(at))
  BY <1>1, MovedTo
<1>8. IndexOK(db)' /\ QueryOK'
  BY <1>1, <1>2, SameIs
<1>9. PositionOK'
  BY <1>1, <1>2, SameIs DEF PositionOK
<1>10. OutOK'
  BY <1>1, <1>2, SameIs DEF OutOK
<1>11. FiltersOK'
  <2>1. \A i \in DOMAIN out : Ahead(dir, out[i], to)
    <3>1. ASSUME NEW i \in DOMAIN out PROVE Ahead(dir, out[i], to)
      <4>1. out[i] \in Nat \X Nat /\ cur \in Nat \X Nat /\ to \in Nat \X Nat /\ Ahead(dir, out[i], cur)
        BY <1>1, <1>2, <1>3, <1>4, <1>6 DEF FiltersOK, ScanInv
      <4> HIDE DEF cur, to
      <4> QED
        BY <1>3, <1>5, <4>1, AheadIs
    <3> QED
      BY <3>1
  <2>2. Ahead(dir, Base, to)
    <3>1. Base \in Nat \X Nat /\ cur \in Nat \X Nat /\ to \in Nat \X Nat /\ Ahead(dir, Base, cur)
      BY <1>1, <1>2, <1>3, <1>4, <1>6 DEF FiltersOK, OutOK
    <3> HIDE DEF cur, to
    <3> QED
      BY <1>3, <1>5, <3>1, AheadIs
  <2>3. out = <<>> => n = 0
    BY <1>1, <1>2 DEF FiltersOK
  <2> HIDE DEF to
  <2> QED
    BY <1>1, <1>5, <1>7, <2>1, <2>2, <2>3, SameIs DEF FiltersOK
<1>12. NoneLost'
  <2>1. ASSUME NEW c \in Hits, Ahead(dir, c, to), Ahead(dir, Base, c) PROVE Found(c) \/ PassedOver(c)
    <3>1. c \in Candidates /\ c # cur
      BY <1>4 DEF Hits
    <3>2. CASE Ahead(dir, c, cur)
      BY <1>1, <1>2, <2>1, <3>2 DEF NoneLost, Past
    <3> QED
      BY <1>5, <2>1, <3>1, <3>2
  <2>2. \A c : Found(c)' = Found(c)
    BY <1>1 DEF Found
  <2>3. ASSUME NEW c PROVE Past(c)' <=> Ahead(dir, c, to)
    <3> HIDE DEF to
    <3> QED
      BY <1>1, <1>7 DEF Past, Same
  <2> HIDE DEF to
  <2> QED
    BY <1>1, <2>1, <2>2, <2>3, SameIs DEF NoneLost
<1> QED
  BY <1>1, <1>8, <1>9, <1>10, <1>11, <1>12 DEF ScanInv

\* Taking a result keeps the results in order and loses no hit.
LEMMA TakeOK ==
  ASSUME ScanInv, Take
  PROVE  ScanInv'
<1> DEFINE cur == Current(at)
           to == Current(Steps(at))
           last == Len(out) + 1
<1>1. /\ Same /\ pc = "scan" /\ pc' \in {"scan", "prepare"} /\ out' = Append(out, cur)
      /\ start' = NoURI /\ pos' = cur
      /\ n' = n + 1 /\ at' = Steps(at) /\ Hit(cur)
  BY DEF Take, Same
<1>2. IndexOK(db) /\ QueryOK /\ PositionOK /\ FiltersOK /\ OutOK /\ NoneLost
      /\ out \in Seq(Nat \X Nat) /\ n \in Nat
  BY <1>1 DEF ScanInv
<1>3. dir \in {1, -1} /\ Positions \subseteq Nat \X Nat
  BY <1>2, InvalidIs DEF QueryOK
<1>4. Stands(at) /\ cur \in Positions /\ cur \in Candidates /\ cur \in Hits /\ cur \in Nat \X Nat
  <2>1. Stands(at) /\ Hit(cur)
    BY <1>1, <1>2 DEF FiltersOK
  <2>2. cur \in Positions /\ cur \in Candidates
    BY <1>2, <2>1, CurrentIs DEF Stands, Hit
  <2> QED
    BY <1>3, <2>1, <2>2 DEF Hit, Hits
<1>5. /\ Stands(Steps(at))
      /\ Ahead(dir, cur, to)
      /\ \A c \in Candidates : Ahead(dir, c, cur) \/ c = cur \/ ~Ahead(dir, c, to) \/ PassedOver(c)
  BY <1>2, <1>4, StepsStand
<1>6. to \in Nat \X Nat
  BY <1>2, <1>3, <1>5, CurrentIs DEF Stands
<1>7. Current(at)' = to /\ Stands(at)' = Stands(Steps(at))
  BY <1>1, MovedTo
<1>8. IndexOK(db)' /\ QueryOK'
  BY <1>1, <1>2, SameIs
<1>9. Base \in Nat \X Nat /\ Base \in Positions /\ Ahead(dir, Base, cur) /\ \A i \in DOMAIN out : Ahead(dir, out[i], cur)
  BY <1>1, <1>2, <1>3, <1>4 DEF FiltersOK, OutOK
<1> HIDE DEF cur, to
<1>10. /\ out' \in Seq(Nat \X Nat) /\ out' # <<>> /\ Len(out') = last /\ last \in Nat \ {0}
       /\ DOMAIN out' = DOMAIN out \cup {last} /\ out'[last] = cur
       /\ \A i \in DOMAIN out : out'[i] = out[i] /\ i \in Nat /\ i < last
  BY <1>1, <1>2, <1>4
<1> HIDE DEF last
<1>11. PositionOK'
  BY <1>1, <1>10 DEF PositionOK
<1>12. OutOK'
  <2>1. \A i \in DOMAIN out' : out'[i] \in Hits /\ Ahead(dir, Base, out'[i])
    BY <1>2, <1>4, <1>9, <1>10 DEF OutOK
  <2>2. ASSUME NEW i \in DOMAIN out', NEW j \in DOMAIN out', i < j PROVE Ahead(dir, out'[i], out'[j])
    <3>1. i \in DOMAIN out
      BY <1>10, <2>2
    <3>2. CASE j \in DOMAIN out
      BY <1>2, <1>10, <2>2, <3>1, <3>2 DEF OutOK
    <3>3. CASE j = last
      BY <1>9, <1>10, <3>1, <3>3
    <3> QED
      BY <1>10, <3>2, <3>3
  <2> QED
    BY <1>1, <1>9, <2>1, <2>2, SameIs DEF OutOK, Same
<1>13. FiltersOK'
  <2>1. Ahead(dir, Base, to)
    BY <1>3, <1>4, <1>5, <1>6, <1>9, AheadIs
  <2>2. \A i \in DOMAIN out' : Ahead(dir, out'[i], to)
    <3>1. ASSUME NEW i \in DOMAIN out PROVE Ahead(dir, out[i], to)
      <4>1. out[i] \in Nat \X Nat /\ Ahead(dir, out[i], cur)
        BY <1>2, <1>9
      <4> QED
        BY <1>3, <1>4, <1>5, <1>6, <4>1, AheadIs
    <3> QED
      BY <1>5, <1>10, <3>1
  <2> QED
    BY <1>1, <1>5, <1>7, <1>10, <2>1, <2>2, SameIs DEF FiltersOK, Same
<1>14. NoneLost'
  <2>1. \A c : Found(c)' <=> Found(c) \/ c = cur
    BY <1>10 DEF Found
  <2>2. ASSUME NEW c \in Hits, Past(c)' PROVE Ahead(dir, c, cur) \/ c = cur \/ PassedOver(c)
    <3>1. c \in Candidates /\ c \in Nat \X Nat
      BY <1>2, CandidatesAre DEF Hits
    <3>2. Ahead(dir, c, to) \/ ~Ahead(dir, cur, c)
      BY <1>1, <1>7, <1>10, <2>2 DEF Past, Same
    <3> QED
      BY <1>3, <1>4, <1>5, <3>1, <3>2, AheadIs
  <2>3. ASSUME NEW c \in Hits, Past(c)', Ahead(dir, Base, c) PROVE Found(c)' \/ PassedOver(c)
    <3>1. CASE Ahead(dir, c, cur)
      BY <1>1, <1>2, <2>1, <2>3, <3>1 DEF NoneLost, Past, cur
    <3> QED
      BY <2>1, <2>2, <2>3, <3>1
  <2> QED
    BY <1>1, <2>3, SameIs DEF NoneLost
<1>15. pc' # "build" /\ pc' \in {"build", "prepare", "scan", "done", "refused"} /\ n' \in Nat
  BY <1>1, <1>2
<1> QED
  BY <1>8, <1>10, <1>11, <1>12, <1>13, <1>14, <1>15 DEF ScanInv

\* A scan that came to the end has come past every candidate.
LEMMA FinishOK ==
  ASSUME ScanInv, Finish
  PROVE  ScanInv'
<1>1. /\ Same /\ pc = "scan" /\ out' = out /\ start' = start /\ pos' = pos /\ n' = n
      /\ pc' = IF n = 0 THEN "done" ELSE "prepare"
      /\ ~Valid(Current(at)[2])
  BY DEF Finish, Same
<1>2. IndexOK(db) /\ QueryOK /\ PositionOK /\ FiltersOK /\ OutOK /\ NoneLost
      /\ out \in Seq(Nat \X Nat) /\ n \in Nat
  BY <1>1 DEF ScanInv
<1>3. Current(at) = Invalid(dir)
  <2>1. Stands(at)
    BY <1>1, <1>2 DEF FiltersOK
  <2> QED
    BY <1>1, <1>2, <2>1, CurrentIs DEF Stands
<1>4. IndexOK(db)' /\ QueryOK'
  BY <1>1, <1>2, SameIs
<1>5. PositionOK'
  BY <1>1, <1>2, SameIs DEF PositionOK, Same
<1>6. OutOK'
  BY <1>1, <1>2, SameIs DEF OutOK
<1>7. FiltersOK'
  BY <1>1 DEF FiltersOK
<1>8. NoneLost'
  <2>1. ASSUME NEW c \in Hits, Ahead(dir, Base, c) PROVE Found(c) \/ PassedOver(c)
    <3>1. Ahead(dir, c, Current(at))
      BY <1>2, <1>3, CandidatesAre DEF Hits
    <3> QED
      BY <1>1, <1>2, <2>1, <3>1 DEF NoneLost, Past
  <2>2. \A c : Found(c)' = Found(c)
    BY <1>1 DEF Found
  <2> QED
    BY <1>1, <2>1, <2>2, SameIs DEF NoneLost
<1> QED
  BY <1>1, <1>2, <1>4, <1>5, <1>6, <1>7, <1>8 DEF ScanInv

\* A batch that resumes from the last result stands right behind it.
LEMMA FromPositionOK ==
  ASSUME ScanInv, FromPosition
  PROVE  ScanInv'
<1>1. /\ Same /\ pc = "prepare" /\ pc' = "scan" /\ start = NoURI /\ out' = out
      /\ start' = start /\ pos' = pos /\ n' = 0
      /\ at' = IF Valid(pos[2]) THEN Steps(Seeks(pos)) ELSE Seeks(pos)
  BY DEF FromPosition, Same
<1>2. IndexOK(db) /\ QueryOK /\ PositionOK /\ OutOK /\ NoneLost /\ out \in Seq(Nat \X Nat)
  BY <1>1 DEF ScanInv
<1>3. dir \in {1, -1} /\ Positions \subseteq Nat \X Nat
  BY <1>2, InvalidIs DEF QueryOK
<1>4. IndexOK(db)' /\ QueryOK'
  BY <1>1, <1>2, SameIs
<1>5. PositionOK'
  BY <1>1, <1>2, SameIs DEF PositionOK, Same
<1>6. \A c : Found(c)' = Found(c)
  BY <1>1 DEF Found
\* The first batch.
<1>7. CASE out = <<>>
  <2>1. asked = NoURI /\ pos = Invalid(-dir) /\ Base = pos
    BY <1>1, <1>2, <1>7 DEF PositionOK, Base
  <2>2. pos \in Positions /\ ~Valid(pos[2])
    <3>1. -dir \in {1, -1}
      BY <1>3
    <3> QED
      BY <1>2, <2>1, <3>1, InvalidIs
  <2>3. /\ Stands(Seeks(pos))
        /\ \A c \in Candidates : ~Ahead(dir, c, pos) => ~Ahead(dir, c, Current(Seeks(pos)))
    BY <1>2, <2>2, SeeksStand
  <2>4. at' = Seeks(pos)
    BY <1>1, <2>2
  <2>5. Current(at)' = Current(Seeks(pos)) /\ Stands(at)' = Stands(Seeks(pos))
    BY <1>1, <2>4, MovedTo
  <2>6. \A c \in Candidates : Ahead(dir, Base, c) /\ ~Ahead(dir, c, pos)
    BY <1>2, <1>3, <2>1, <2>2, CandidatesAre, AheadIs
  <2>7. FiltersOK'
    <3> DEFINE to == Current(Seeks(pos))
    <3> HIDE DEF to
    <3>1. to \in Candidates => Ahead(dir, Base, to)
      BY <2>6
    <3>2. DOMAIN out = {}
      BY <1>7
    <3>3. Current(at)' = to
      BY <2>5 DEF to
    <3> QED
      BY <1>1, <2>3, <2>5, <3>1, <3>2, <3>3, SameIs DEF FiltersOK, Same
  <2>8. OutOK'
    BY <1>1, <1>7, <2>1, <2>2, SameIs DEF OutOK
  <2>9. NoneLost'
    <3>1. ASSUME NEW c \in Hits PROVE ~Past(c)'
      <4>1. ~Ahead(dir, c, Current(Seeks(pos)))
        BY <2>3, <2>6 DEF Hits
      <4> QED
        BY <1>1, <2>5, <4>1 DEF Past, Same
    <3> QED
      BY <1>1, <3>1, SameIs DEF NoneLost
  <2> QED
    BY <1>1, <1>2, <1>4, <1>5, <2>7, <2>8, <2>9 DEF ScanInv
\* And those that follow.
<1>8. CASE out # <<>>
  <2>1. Len(out) \in DOMAIN out /\ pos = out[Len(out)]
    BY <1>2, <1>8 DEF PositionOK
  <2>2. pos \in Hits /\ pos \in Candidates
    BY <1>2, <2>1 DEF OutOK, Hits
  <2>3. pos \in Positions /\ pos \in Nat \X Nat /\ Valid(pos[2])
    BY <1>2, <2>2, CandidatesAre
  <2>4. Stands(Seeks(pos)) /\ Current(Seeks(pos)) = pos
    BY <1>2, <2>2, <2>3, SeeksStand
  <2> DEFINE to == Current(Steps(Seeks(pos)))
  <2>5. /\ Stands(Steps(Seeks(pos)))
        /\ Ahead(dir, pos, to)
        /\ \A c \in Candidates : Ahead(dir, c, pos) \/ c = pos \/ ~Ahead(dir, c, to) \/ PassedOver(c)
    BY <1>2, <2>2, <2>4, StepsStand
  <2>6. at' = Steps(Seeks(pos))
    BY <1>1, <2>3
  <2>7. Current(at)' = to /\ Stands(at)' = Stands(Steps(Seeks(pos)))
    BY <1>1, <2>6, MovedTo
  <2>8. to \in Nat \X Nat
    BY <1>2, <1>3, <2>5, CurrentIs DEF Stands
  <2> HIDE DEF to
  <2>9. Base \in Positions /\ Base \in Nat \X Nat
    BY <1>2, <1>3, <1>8 DEF OutOK
  <2>10. OutOK'
    BY <1>1, <1>2, <2>9, SameIs DEF OutOK
  <2>11. FiltersOK'
    <3>1. Ahead(dir, Base, to)
      <4>1. Ahead(dir, Base, pos)
        BY <1>2, <2>1 DEF OutOK
      <4> QED
        BY <1>3, <2>3, <2>5, <2>8, <2>9, <4>1, AheadIs
    <3>2. ASSUME NEW i \in DOMAIN out PROVE Ahead(dir, out[i], to)
      <4>1. i \in Nat /\ Len(out) \in Nat /\ i <= Len(out) /\ out[i] \in Nat \X Nat
        BY <1>2
      <4>2. i = Len(out) \/ Ahead(dir, out[i], pos)
        BY <1>2, <2>1, <4>1 DEF OutOK
      <4> QED
        BY <1>3, <2>1, <2>3, <2>5, <2>8, <4>1, <4>2, AheadIs
    <3> QED
      BY <1>1, <1>8, <2>5, <2>7, <3>1, <3>2, SameIs DEF FiltersOK, Same
  <2>12. NoneLost'
    <3>1. ASSUME NEW c \in Hits, Ahead(dir, c, to), Ahead(dir, Base, c) PROVE Found(c) \/ PassedOver(c)
      <4>1. c \in Candidates /\ c \in Nat \X Nat
        BY <1>2, CandidatesAre DEF Hits
      <4>2. Past(c) \/ PassedOver(c)
        <5>1. ~Ahead(dir, pos, c) => Past(c)
          BY <1>1, <1>8, <2>1 DEF Past
        <5>2. Ahead(dir, pos, c) => ~Ahead(dir, c, pos) /\ c # pos
          BY <1>3, <2>3, <4>1, AheadIs
        <5> QED
          BY <2>5, <3>1, <4>1, <5>1, <5>2
      <4> QED
        BY <1>2, <3>1, <4>2 DEF NoneLost
    <3>2. ASSUME NEW c PROVE Past(c)' <=> Ahead(dir, c, to)
      BY <1>1, <2>7 DEF Past, Same
    <3> QED
      BY <1>1, <1>6, <3>1, <3>2, SameIs DEF NoneLost
  <2> QED
    BY <1>1, <1>2, <1>4, <1>5, <2>10, <2>11, <2>12 DEF ScanInv
<1> QED
  BY <1>7, <1>8

\* Where a query begins that starts from the URI of one file.
LEMMA BaseIs ==
  ASSUME asked # NoURI, NEW id, FilesOf(asked) = {id}
  PROVE  Base = Current(Seeks(<<FullAge(id)[query][1], id>>))
<1>1. (CHOOSE i \in FilesOf(asked) : FilesOf(asked) = {i}) = id
  BY Zenon
<1> QED
  BY <1>1, Zenon DEF Base

\* A scan that starts from a URI stands behind the first candidate there.
LEMMA FromURIOK ==
  ASSUME ScanInv, FromURI
  PROVE  ScanInv'
<1>1. /\ Same /\ pc = "prepare" /\ start # NoURI /\ out' = out /\ start' = start /\ pos' = pos /\ n' = 0
  BY DEF FromURI, Same
<1>2. IndexOK(db) /\ QueryOK /\ PositionOK /\ OutOK /\ NoneLost /\ out \in Seq(Nat \X Nat)
  BY <1>1 DEF ScanInv
<1>3. dir \in {1, -1} /\ Positions \subseteq Nat \X Nat
  BY <1>2, InvalidIs DEF QueryOK
<1>4. IndexOK(db)' /\ QueryOK'
  BY <1>1, <1>2, SameIs
<1>5. out = <<>> /\ start = asked /\ DOMAIN out = {}
  BY <1>1, <1>2 DEF PositionOK
<1>6. CASE \A id \in FilesOf(start) : FilesOf(start) # {id} \/ ~ValidAge(FullAge(id)[query])
  <2>1. pc' = "refused"
    BY <1>1, <1>6 DEF FromURI
  <2>2. PositionOK'
    BY <1>1, <1>2, <1>5, <1>6, <2>1, SameIs DEF PositionOK, Same
  <2>3. FiltersOK'
    BY <2>1 DEF FiltersOK
  <2>4. OutOK'
    BY <1>1, <1>5, <2>1 DEF OutOK
  <2>5. NoneLost'
    BY <2>1 DEF NoneLost, Past
  <2> QED
    BY <1>1, <1>2, <1>4, <1>5, <2>1, <2>2, <2>3, <2>4, <2>5 DEF ScanInv
<1>7. ASSUME NEW id \in FilesOf(start), FilesOf(start) = {id}, ValidAge(FullAge(id)[query])
      PROVE  ScanInv'
  <2> DEFINE p == <<FullAge(id)[query][1], id>>
             to == Current(Steps(Seeks(p)))
  <2>1. pc' = "scan" /\ at' = Steps(Seeks(p))
    <3>1. ~ \A i \in FilesOf(start) : FilesOf(start) # {i} \/ ~ValidAge(FullAge(i)[query])
      BY <1>7
    <3>2. PICK i \in FilesOf(start) :
             /\ FilesOf(start) = {i}
             /\ \E from \in {Seeks(<<FullAge(i)[query][1], i>>)} : at' = Steps(from)
             /\ pc' = "scan"
      BY <3>1 DEF FromURI
    <3>3. i = id
      BY <1>7, <3>2
    <3> QED
      BY <3>2, <3>3
  <2>2. p \in Positions
    <3>1. id \in DOMAIN db.file
      BY <1>2, Tables DEF FilesOf
    <3>2. FullAge(id)[query] \in FullAges
      BY <1>2, <3>1, FullAgeIs DEF QueryOK
    <3>3. DOMAIN db.file = 1..Len(db.file) /\ Len(db.file) \in Nat /\ Infinity = Len(db.file) + 1
      BY <1>2, Tables
    <3> QED
      BY <3>1, <3>2, <3>3 DEF FullAges, Positions
  <2> HIDE DEF p
  <2>3. Stands(Seeks(p))
    BY <1>2, <2>2, SeeksStand
  <2>4. Base = Current(Seeks(p))
    BY <1>1, <1>5, <1>7, BaseIs DEF p
  <2>5. Base \in Positions /\ Base \in Candidates \cup {Invalid(dir)}
    BY <1>2, <2>3, <2>4, CurrentIs DEF Stands
  <2>6. /\ Stands(Steps(Seeks(p)))
        /\ Base \in Candidates => Ahead(dir, Base, to)
        /\ Base = Invalid(dir) => to = Invalid(dir)
        /\ \A c \in Candidates : Ahead(dir, c, Base) \/ c = Base \/ ~Ahead(dir, c, to) \/ PassedOver(c)
    BY <1>2, <2>3, <2>4, StepsStand
  <2>7. Current(at)' = to /\ Stands(at)' = Stands(Steps(Seeks(p)))
    BY <1>1, <2>1, MovedTo
  <2> HIDE DEF to
  <2>8. PositionOK'
    BY <1>1, <1>2, <2>1, SameIs DEF PositionOK, Same
  <2>9. OutOK'
    BY <1>1, <1>5, <2>5, SameIs DEF OutOK
  <2>10. FiltersOK'
    <3>1. to \in Candidates => Ahead(dir, Base, to)
      <4>1. to \in Candidates => to # Invalid(dir)
        BY <1>2, <1>3, CandidatesAre, AheadIs
      <4> QED
        BY <2>5, <2>6, <4>1
    <3> QED
      BY <1>1, <1>5, <2>6, <2>7, <3>1, SameIs DEF FiltersOK, Same
  <2>11. NoneLost'
    <3>1. ASSUME NEW c \in Hits, Ahead(dir, c, to), Ahead(dir, Base, c) PROVE PassedOver(c)
      <4>1. c \in Candidates /\ c \in Nat \X Nat /\ Base \in Nat \X Nat
        BY <1>2, <1>3, <2>5, CandidatesAre DEF Hits
      <4>2. ~Ahead(dir, c, Base) /\ c # Base
        BY <1>3, <3>1, <4>1, AheadIs
      <4> QED
        BY <2>6, <3>1, <4>1, <4>2
    <3>2. ASSUME NEW c PROVE Past(c)' <=> Ahead(dir, c, to)
      BY <1>1, <2>1, <2>7 DEF Past, Same
    <3> QED
      BY <1>1, <3>1, <3>2, SameIs DEF NoneLost
  <2> QED
    BY <1>1, <1>2, <1>4, <2>1, <2>8, <2>9, <2>10, <2>11 DEF ScanInv
<1> QED
  BY <1>6, <1>7

\* A query that has just been asked has found nothing.
LEMMA AskOK ==
  ASSUME ScanInv, NEW q \in Queries, NEW r \in {1, -1}, NEW u \in URIs \cup {NoURI}, Ask(q, r, u)
  PROVE  ScanInv'
<1>1. /\ pc = "build" /\ pc' = "prepare" /\ query' = q /\ dir' = r /\ start' = u /\ asked' = u
      /\ pos' = Invalid(-r) /\ db' = db /\ out' = out /\ n' = n /\ out = <<>>
  BY DEF Ask, ScanInv
<1>2. QueryOK'
  BY <1>1, FilterAssumption DEF QueryOK
<1>3. PositionOK'
  BY <1>1 DEF PositionOK, Invalid, Infinity
<1>4. FiltersOK'
  BY <1>1 DEF FiltersOK
<1>5. OutOK'
  BY <1>1 DEF OutOK
<1>6. NoneLost'
  BY <1>1 DEF NoneLost, Past
<1> QED
  BY <1>1, <1>2, <1>3, <1>4, <1>5, <1>6 DEF ScanInv

\* While documents are stored no query runs.
LEMMA StoreOK ==
  ASSUME ScanInv, NEW doc \in Docs, Store(doc)
  PROVE  ScanInv'
<1>1. PICK id \in 1..(Len(db.file) + 1) : Stores(db, doc, id, db')
  BY DEF Store
<1>2. IndexOK(db) /\ doc \in Documents
  BY FilterAssumption DEF ScanInv
<1>3. IndexOK(db')
  BY <1>1, <1>2, StoresOK
<1> QED
  BY <1>3 DEF Store, ScanInv

\* The inductive invariant of a query's scan (SLNFilterExt.c): the tables are those of
\* the index, the filters stand behind what was found, what was found are hits in order,
\* and no hit that the scan has come past is missing.
THEOREM ScanInvariant == Spec => []ScanInv
<1>1. Init => ScanInv
  BY EmptyIndexOK DEF Init, ScanInv
<1>2. ScanInv /\ [Next]_vars => ScanInv'
  <2>1. SUFFICES ASSUME ScanInv, [Next]_vars PROVE ScanInv'
    OBVIOUS
  <2>2. ASSUME NEW doc \in Docs, Store(doc) PROVE ScanInv'
    BY <2>1, <2>2, StoreOK
  <2>3. ASSUME NEW q \in Queries, NEW r \in {1, -1}, NEW u \in URIs \cup {NoURI}, Ask(q, r, u)
        PROVE  ScanInv'
    BY <2>1, <2>3, AskOK
  <2>4. CASE FromURI
    BY <2>1, <2>4, FromURIOK
  <2>5. CASE FromPosition
    BY <2>1, <2>5, FromPositionOK
  <2>6. CASE Skip
    BY <2>1, <2>6, SkipOK
  <2>7. CASE Take
    BY <2>1, <2>7, TakeOK
  <2>8. CASE Finish
    BY <2>1, <2>8, FinishOK
  <2>9. CASE UNCHANGED vars
    <3>1. Same /\ pc' = pc /\ start' = start /\ pos' = pos /\ at' = at /\ n' = n /\ out' = out
      BY <2>9 DEF vars, Same
    <3>2. Current(at)' = Current(at) /\ Stands(at)' = Stands(at)
      BY <3>1, MovedTo
    <3>3. QueryOK /\ PositionOK /\ FiltersOK /\ OutOK /\ NoneLost => QueryOK' /\ PositionOK' /\ FiltersOK' /\ OutOK' /\ NoneLost'
      BY <3>1, <3>2, SameIs DEF PositionOK, FiltersOK, OutOK, NoneLost, Past, Found, Same
    <3> QED
      BY <2>1, <3>1, <3>3, SameIs DEF ScanInv
  <2> QED
    BY <2>1, <2>2, <2>3, <2>4, <2>5, <2>6, <2>7, <2>8, <2>9 DEF Next, Scan
<1> QED
  BY <1>1, <1>2, PTL DEF Spec

-----------------------------------------------------------------------------
(***************************************************************************)
(* Ages, and what filters mean.                                            *)
(***************************************************************************)
\* The age of a simple filter up to a sort ID tells what it holds up to there; a
\* meta-file filter is only asked about meta-files.
MetaOnly(f, id) == f[1] = "meta" => id \in Metas(db)

\* The age of a file under a simple filter is at most a sort ID exactly if the tables
\* have the file up to there.
LEMMA SimpleExact ==
  ASSUME IndexOK(db), NEW f \in Simple, NEW id \in DOMAIN db.file, MetaOnly(f, id),
         NEW sort \in 1..Infinity, NEW s \in 0..Len(db.file), s <= sort
  PROVE  SimpleAge(f, id, sort) <= s <=> Holds(f, id, s)
<1>1. Len(db.file) \in Nat /\ DOMAIN db.file = 1..Len(db.file) /\ Infinity = Len(db.file) + 1
  BY Tables
<1>2. f[1] \in {"all", "visible", "meta", "uri", "target", "term"}
  BY DEF Simple
<1>3. CASE ~Indirect(f)
  <2>1. SimpleAge(f, id, sort) = IF id \in Named(f) THEN id ELSE Infinity
    <3>1. f[1] = "all" => id \in Named(f)
      BY DEF Named
    <3>2. f[1] = "meta" => id \in Named(f)
      BY DEF Named, MetaOnly
    <3> QED
      BY <1>3, <3>1, <3>2 DEF SimpleAge
  <2>2. Holds(f, id, s) <=> id <= s /\ id \in Named(f)
    BY <1>3 DEF Holds
  <2> QED
    BY <1>1, <2>1, <2>2
<1>4. CASE Indirect(f)
  <2> DEFINE ages == {row[1] : row \in {r \in db.meta : <<r[2], id>> \in db.uri
                                           /\ r[1] <= sort /\ Selects(f, r[1])}}
  <2>1. SimpleAge(f, id, sort) = Min(ages \cup {Infinity})
    BY <1>4 DEF SimpleAge
  <2>2. ages \subseteq DOMAIN db.file
    BY Tables
  <2>3. Holds(f, id, s) <=> \E a \in ages : a <= s
    <3>1. \A r \in db.meta : r[1] \in DOMAIN db.file
      BY Tables
    <3>2. \A r \in db.meta : r[1] <= s => r[1] <= sort
      BY <1>1, <3>1
    <3>3. Holds(f, id, s) <=>
             \E r \in db.meta : r[1] <= s /\ <<r[2], id>> \in db.uri /\ Selects(f, r[1])
      BY <1>4 DEF Holds
    <3>4. \A a : a \in ages <=>
             \E r \in db.meta : a = r[1] /\ <<r[2], id>> \in db.uri /\ r[1] <= sort /\ Selects(f, r[1])
      OBVIOUS
    <3> HIDE DEF ages
    <3> QED
      BY <3>2, <3>3, <3>4
  <2> HIDE DEF ages
  <2>4. Min(ages \cup {Infinity}) \in ages \cup {Infinity} /\ \A a \in ages : Min(ages \cup {Infinity}) <= a
    <3>1. ages \cup {Infinity} \subseteq Nat
      BY <1>1, <2>2
    <3> QED
      BY <3>1, MinIs
  <2> DEFINE m == Min(ages \cup {Infinity})
  <2> HIDE DEF m
  <2>5. \A a \in ages \cup {Infinity} : a \in Nat
    BY <1>1, <2>2
  <2>6. m \in ages \cup {Infinity} /\ \A a \in ages : m <= a
    BY <2>4 DEF m
  <2>7. m <= s => m \in ages
    BY <1>1, <2>6
  <2>8. ASSUME NEW a \in ages, a <= s PROVE m <= s
    BY <2>5, <2>6, <2>8
  <2> QED
    BY <2>1, <2>3, <2>7, <2>8 DEF m
<1> QED
  BY <1>3, <1>4

\* What a simple filter lists it holds.
LEMMA ListedHold ==
  ASSUME IndexOK(db), NEW f \in Simple, NEW e \in Listed(f)
  PROVE  Holds(f, e[2], e[1]) /\ MetaOnly(f, e[2])
<1>1. CASE Indirect(f)
  <2>1. PICK row \in db.meta : row[1] \in Walks(f) /\ e \in {row[1]} \X FilesOf(row[2])
    BY <1>1 DEF Listed
  <2>2. e[1] = row[1] /\ <<row[2], e[2]>> \in db.uri
    <3>1. e[1] = row[1] /\ e[2] \in FilesOf(row[2])
      BY <2>1
    <3>2. PICK r \in db.uri : r[1] = row[2] /\ r[2] = e[2]
      BY <3>1 DEF FilesOf
    <3>3. r = <<r[1], r[2]>>
      BY DEF IndexOK, IndexType
    <3> QED
      BY <3>1, <3>2, <3>3
  <2>3. Selects(f, row[1])
    BY <2>1 DEF Walks, Selects
  <2>4. row[1] \in Nat
    BY Tables
  <2>5. f[1] # "meta"
    BY <1>1 DEF Indirect
  <2> QED
    BY <1>1, <2>2, <2>3, <2>4, <2>5 DEF Holds, MetaOnly
<1>2. CASE ~Indirect(f)
  <2>1. PICK i \in Named(f) : e = <<i, i>>
    BY <1>2 DEF Listed
  <2>2. i \in Nat
    BY <1>2, NamedAre, Tables
  <2>3. f[1] = "meta" => i \in Metas(db)
    BY <2>1 DEF Named
  <2> QED
    BY <1>2, <2>1, <2>2, <2>3 DEF Holds, MetaOnly
<1> QED
  BY <1>1, <1>2

\* What a simple filter holds it goes on to hold,
LEMMA HoldsGrows ==
  ASSUME IndexOK(db), NEW f \in Simple, NEW id \in DOMAIN db.file, NEW s \in Nat, NEW t \in Nat, s <= t,
         Holds(f, id, s)
  PROVE  Holds(f, id, t)
<1>1. \A r \in db.meta : r[1] \in Nat
  BY Tables
<1>2. id \in Nat
  BY Tables
<1>3. CASE ~Indirect(f)
  BY <1>2, <1>3 DEF Holds
<1>4. CASE Indirect(f)
  <2>1. PICK row \in db.meta : row[1] <= s /\ <<row[2], id>> \in db.uri /\ Selects(f, row[1])
    BY <1>4 DEF Holds
  <2>2. row[1] <= t
    BY <1>1, <2>1
  <2> QED
    BY <1>4, <2>1, <2>2 DEF Holds
<1> QED
  BY <1>3, <1>4

\* and it holds nothing before the first file.
LEMMA HoldsNone ==
  ASSUME IndexOK(db), NEW f \in Simple, NEW id \in DOMAIN db.file
  PROVE  ~Holds(f, id, 0)
<1>1. \A r \in db.meta : r[1] \in DOMAIN db.file
  BY Tables
<1>2. DOMAIN db.file = 1..Len(db.file) /\ Len(db.file) \in Nat
  BY Tables
<1>3. CASE ~Indirect(f)
  BY <1>2, <1>3 DEF Holds
<1>4. CASE Indirect(f)
  <2>1. \A r \in db.meta : ~(r[1] <= 0)
    BY <1>1, <1>2
  <2> QED
    BY <1>4, <2>1 DEF Holds
<1> QED
  BY <1>3, <1>4

\* What a filter holds from a sort ID on it lists there.
LEMMA HoldsListed ==
  ASSUME IndexOK(db), NEW f \in Simple, NEW id \in DOMAIN db.file, NEW s \in DOMAIN db.file,
         Holds(f, id, s), ~Holds(f, id, s - 1)
  PROVE  <<s, id>> \in Listed(f)
<1>1. Len(db.file) \in Nat /\ DOMAIN db.file = 1..Len(db.file)
  BY Tables
<1>2. CASE ~Indirect(f)
  <2>1. id <= s /\ id \in Named(f) /\ ~(id <= s - 1)
    BY <1>2 DEF Holds
  <2>2. id = s
    BY <1>1, <2>1
  <2> QED
    BY <1>2, <2>1, <2>2 DEF Listed
<1>3. CASE Indirect(f)
  <2>1. \A r \in db.meta : r[1] \in Nat /\ r = <<r[1], r[2]>>
    BY Tables DEF IndexOK, IndexType
  <2>2. PICK row \in db.meta : row[1] <= s /\ <<row[2], id>> \in db.uri /\ Selects(f, row[1])
    BY <1>3 DEF Holds
  <2>3. \A r \in db.meta : <<r[2], id>> \in db.uri /\ Selects(f, r[1]) => ~(r[1] <= s - 1)
    BY <1>3 DEF Holds
  <2>4. row[1] = s
    BY <1>1, <2>1, <2>2, <2>3
  <2>5. id \in FilesOf(row[2])
    BY <2>2 DEF FilesOf
  <2>6. s \in Metas(db)
    BY <2>4 DEF Metas
  <2>7. s \in Walks(f)
    <3>1. CASE f[1] # "visible"
      BY <2>2, <2>4, <2>6, <3>1 DEF Walks
    <3>2. CASE f[1] = "visible"
      <4>1. \A r \in db.meta : r[2] = row[2] => s <= r[1]
        BY <1>1, <2>1, <2>2, <2>3, <3>2 DEF Selects
      <4>2. db.first = {m \in Metas(db) : \E r \in db.meta :
                           r[1] = m /\ \A q \in db.meta : q[2] = r[2] => m <= q[1]}
        BY DEF IndexOK, FirstsExact
      <4>3. s \in db.first
        BY <2>4, <2>6, <4>1, <4>2
      <4> QED
        BY <3>2, <4>3 DEF Walks
    <3> QED
      BY <3>1, <3>2
  <2>8. <<s, id>> \in {row[1]} \X FilesOf(row[2])
    BY <2>4, <2>5
  <2> QED
    BY <1>3, <2>4, <2>7, <2>8 DEF Listed
<1> QED
  BY <1>2, <1>3

\* A filter in another is no meta-file filter, which is exact for meta-files only.
LEMMA PartsNotMeta ==
  ASSUME NEW f \in Nodes, NEW g \in Subfilters(f), NEW id
  PROVE  MetaOnly(g, id)
<1>1. g \in Nodes /\ g # <<"meta", NoURI>>
  BY FilterAssumption
<1>2. CASE g \in Simple
  <2>1. g[1] = "meta" => g = <<"meta", NoURI>>
    BY <1>2 DEF Simple
  <2> QED
    BY <1>1, <2>1 DEF MetaOnly
<1>3. CASE g \notin Simple
  BY <1>1, <1>3, Kinds DEF MetaOnly
<1> QED
  BY <1>2, <1>3

\* Every filter but a negation, and collections of those alone, lists something.
LEMMA ListsSome ==
  ASSUME NEW f \in Nodes
  PROVE  /\ f \in Simple => Lists[f] = {f}
         /\ f[1] = "negation" => Lists[f] = {}
         /\ f[1] \in {"intersection", "union"} =>
               /\ \A g \in f[2] : Lists[g] \subseteq Lists[f]
               /\ Lists[f] # {} <=> \E g \in f[2] : Lists[g] # {}
<1>1. Lists[f] = IF f \in Simple THEN {f}
                 ELSE IF f[1] = "negation" THEN {}
                 ELSE UNION {Lists[g] : g \in Subfilters(f)}
  BY ListsAre
<1>2. f[1] = "negation" => Lists[f] = {}
  BY <1>1, Kinds
<1>3. CASE f[1] \in {"intersection", "union"}
  <2>1. Lists[f] = UNION {Lists[g] : g \in f[2]}
    BY <1>1, <1>3, Kinds
  <2> QED
    BY <1>2, <1>3, <2>1, Kinds
<1> QED
  BY <1>1, <1>2, <1>3, Kinds

\* A filter without negations lists something, and neither are its filters negations.
LEMMA NegationFree ==
  ASSUME NEW f \in Nodes, Negations[f] = {}
  PROVE  Lists[f] # {} /\ f[1] # "negation" /\ \A g \in Subfilters(f) : Negations[g] = {}
<1> DEFINE P == {h \in Nodes : Negations[h] = {} => Lists[h] # {}}
<1>1. ASSUME NEW h \in Nodes, Negations[h] = {}
      PROVE  h[1] # "negation" /\ \A g \in Subfilters(h) : g \in Nodes /\ Negations[g] = {}
  <2>1. Negations[h] = (IF h[1] = "negation" THEN {h} ELSE {})
                        \cup UNION {Negations[g] : g \in Subfilters(h)}
    BY NegationsAre
  <2> QED
    BY <1>1, <2>1, Parts
<1>2. ASSUME NEW h \in Nodes, Subfilters(h) \subseteq P, Negations[h] = {} PROVE Lists[h] # {}
  <2>1. h[1] # "negation" /\ \A g \in Subfilters(h) : Lists[g] # {}
    BY <1>1, <1>2
  <2>2. CASE h \in Simple
    BY <2>2, ListsSome
  <2>3. CASE h[1] \in {"intersection", "union"} /\ Subfilters(h) = h[2] /\ h[2] # {}
    BY <2>1, <2>3, ListsSome
  <2> QED
    BY <2>1, <2>2, <2>3, Kinds
<1>3. P = Nodes
  <2>1. P \subseteq Nodes /\ \A h \in Nodes : Subfilters(h) \subseteq P => h \in P
    BY <1>2
  <2> HIDE DEF P
  <2> QED
    BY <2>1, ByParts
<1> QED
  BY <1>1, <1>3

\* What a filter means, kind by kind,
LEMMA MatchesKinds ==
  ASSUME NEW f \in Nodes, NEW id, NEW s, NEW negations \in BOOLEAN
  PROVE  /\ f \in Simple => (Matches(id, s, negations)[f] <=> Holds(f, id, s))
         /\ f[1] = "negation" => (Matches(id, s, negations)[f] <=> negations)
         /\ f[1] = "intersection" =>
               (Matches(id, s, negations)[f] <=>
                  \A g \in f[2] : Lists[g] = {} \/ Matches(id, s, negations)[g])
         /\ f[1] = "union" =>
               (Matches(id, s, negations)[f] <=>
                  \E g \in f[2] : IF Lists[g] = {} THEN negations ELSE Matches(id, s, negations)[g])
<1>1. Matches(id, s, negations)[f] = MatchesOf(id, s, negations, f, Matches(id, s, negations))
  BY MatchesAre
<1>2. f \in Simple => f[1] \notin {"intersection", "union", "negation"}
  BY Kinds
<1> DEFINE m == Matches(id, s, negations)
<1> HIDE DEF m
<1>3. m[f] = MatchesOf(id, s, negations, f, m)
  BY <1>1 DEF m
<1>4. CASE f \in Simple
  <2>1. MatchesOf(id, s, negations, f, m) = Holds(f, id, s)
    BY <1>2, <1>4 DEF MatchesOf
  <2> QED
    BY <1>2, <1>3, <1>4, <2>1 DEF m
<1>5. CASE f[1] = "negation"
  BY <1>2, <1>3, <1>5 DEF MatchesOf, m
<1>6. CASE f[1] = "intersection"
  BY <1>2, <1>3, <1>6 DEF MatchesOf, m
<1>7. CASE f[1] = "union"
  BY <1>2, <1>3, <1>7 DEF MatchesOf, m
<1> QED
  BY <1>4, <1>5, <1>6, <1>7, Kinds

\* The age of a collection is at most a sort ID if those of all of its filters are,
\* or of any.
LEMMA CollectionAges ==
  ASSUME Infinity \in Nat, NEW ages, ages \subseteq Nat, NEW s \in Nat, 0 < s, s < Infinity
  PROVE  /\ IntersectionFastAge(ages, s) <= s <=> \A x \in ages : x <= s
         /\ IntersectionFastAge(ages, s) < s <=> \A x \in ages : x < s
         /\ UnionFastAge(ages, s) <= s <=> \E x \in ages : x <= s
         /\ UnionFastAge(ages, s) < s <=> \E x \in ages : x < s
<1>0. \A x \in ages : x \in Nat /\ (x < s \/ x = s \/ x > s)
  OBVIOUS
<1>1. /\ IntersectionFastAge(ages, s) <= s <=> \A x \in ages : x <= s
      /\ IntersectionFastAge(ages, s) < s <=> \A x \in ages : x < s
  <2>1. CASE \E x \in ages : x > s
    <3>1. IntersectionFastAge(ages, s) = Infinity
      BY <2>1 DEF IntersectionFastAge
    <3> QED
      BY <1>0, <2>1, <3>1
  <2>2. CASE ~(\E x \in ages : x > s) /\ s \in ages
    <3>1. IntersectionFastAge(ages, s) = s
      BY <2>2 DEF IntersectionFastAge
    <3> QED
      BY <1>0, <2>2, <3>1
  <2>3. CASE ~(\E x \in ages : x > s) /\ s \notin ages
    <3>1. IntersectionFastAge(ages, s) = 0
      BY <2>3 DEF IntersectionFastAge
    <3>2. \A x \in ages : x < s /\ x <= s
      BY <1>0, <2>3
    <3> QED
      BY <3>1, <3>2
  <2> QED
    BY <2>1, <2>2, <2>3
<1>2. /\ UnionFastAge(ages, s) <= s <=> \E x \in ages : x <= s
      /\ UnionFastAge(ages, s) < s <=> \E x \in ages : x < s
  <2>1. CASE \E x \in ages : x < s
    <3>1. UnionFastAge(ages, s) = 0
      BY <2>1 DEF UnionFastAge
    <3> QED
      BY <1>0, <2>1, <3>1
  <2>2. CASE ~(\E x \in ages : x < s) /\ s \in ages
    <3>1. UnionFastAge(ages, s) = s
      BY <2>2 DEF UnionFastAge
    <3> QED
      BY <1>0, <2>2, <3>1
  <2>3. CASE ~(\E x \in ages : x < s) /\ s \notin ages
    <3>1. UnionFastAge(ages, s) = Infinity
      BY <2>3 DEF UnionFastAge
    <3>2. \A x \in ages : ~(x <= s)
      BY <1>0, <2>3
    <3> QED
      BY <2>3, <3>1, <3>2
  <2> QED
    BY <2>1, <2>2, <2>3
<1> QED
  BY <1>1, <1>2

\* Its age, kind by kind.
LEMMA FastAgeKinds ==
  ASSUME IndexOK(db), NEW id \in DOMAIN db.file, NEW s \in DOMAIN db.file, NEW f \in Nodes
  PROVE  /\ FastAge(id, s)[f] \in Nat
         /\ f \in Simple => FastAge(id, s)[f] = SimpleAge(f, id, s)
         /\ f[1] = "negation" =>
               FastAge(id, s)[f] = IF FastAge(id, s)[f[2]] = s THEN Infinity ELSE s
         /\ f[1] = "intersection" =>
               /\ FastAge(id, s)[f] <= s <=> \A g \in f[2] : FastAge(id, s)[g] <= s
               /\ FastAge(id, s)[f] < s <=> \A g \in f[2] : FastAge(id, s)[g] < s
         /\ f[1] = "union" =>
               /\ FastAge(id, s)[f] <= s <=> \E g \in f[2] : FastAge(id, s)[g] <= s
               /\ FastAge(id, s)[f] < s <=> \E g \in f[2] : FastAge(id, s)[g] < s
<1>1. Len(db.file) \in Nat /\ DOMAIN db.file = 1..Len(db.file) /\ Infinity = Len(db.file) + 1
  BY Tables
<1>2. s \in 0..Infinity /\ s \in Nat /\ 0 < s /\ s < Infinity /\ Infinity \in Nat
  BY <1>1
<1>3. FastAge(id, s) \in [Nodes -> 0..Infinity]
      /\ FastAge(id, s)[f] = FastAgeOf(id, s, f, FastAge(id, s))
  BY <1>2, FastAgeIs
<1> DEFINE a == FastAge(id, s)
<1> HIDE DEF a
<1>4. a \in [Nodes -> 0..Infinity] /\ a[f] = FastAgeOf(id, s, f, a)
  BY <1>3 DEF a
<1>5. a[f] \in Nat
  BY <1>1, <1>4
<1>6. CASE f \in Simple
  BY <1>4, <1>5, <1>6, Kinds DEF FastAgeOf, a
<1>7. CASE f[1] = "negation"
  BY <1>4, <1>5, <1>7, Kinds DEF FastAgeOf, NegationFastAge, a
<1>8. CASE f[1] \in {"intersection", "union"} /\ Subfilters(f) = f[2] /\ f[2] \subseteq Nodes
      /\ f[2] # {} /\ f \notin Simple
  <2> DEFINE ages == {a[g] : g \in f[2]}
  <2>1. \A g \in f[2] : a[g] \in ages /\ a[g] \in Nat
    BY <1>1, <1>4, <1>8
  <2>2. \A x \in ages : x \in Nat /\ \E g \in f[2] : x = a[g]
    BY <2>1
  <2>3. ages \subseteq Nat
    BY <2>2
  <2>4. CASE f[1] = "intersection"
    <3>1. a[f] = IntersectionFastAge(ages, s)
      BY <1>4, <1>8, <2>4 DEF FastAgeOf
    <3> HIDE DEF ages
    <3>2. /\ IntersectionFastAge(ages, s) <= s <=> \A x \in ages : x <= s
          /\ IntersectionFastAge(ages, s) < s <=> \A x \in ages : x < s
      BY <1>2, <2>3, CollectionAges
    <3>3. /\ a[f] <= s <=> \A x \in ages : x <= s
          /\ a[f] < s <=> \A x \in ages : x < s
      BY <3>1, <3>2
    <3>4. (\A x \in ages : x <= s) <=> \A g \in f[2] : a[g] <= s
      BY <2>1, <2>2
    <3>5. (\A x \in ages : x < s) <=> \A g \in f[2] : a[g] < s
      BY <2>1, <2>2
    <3> QED
      BY <1>5, <1>8, <2>4, <3>3, <3>4, <3>5 DEF a
  <2>5. CASE f[1] = "union"
    <3>1. a[f] = UnionFastAge(ages, s)
      BY <1>4, <1>8, <2>5 DEF FastAgeOf
    <3> HIDE DEF ages
    <3>2. /\ UnionFastAge(ages, s) <= s <=> \E x \in ages : x <= s
          /\ UnionFastAge(ages, s) < s <=> \E x \in ages : x < s
      BY <1>2, <2>3, CollectionAges
    <3>3. /\ a[f] <= s <=> \E x \in ages : x <= s
          /\ a[f] < s <=> \E x \in ages : x < s
      BY <3>1, <3>2
    <3>4. (\E x \in ages : x <= s) <=> \E g \in f[2] : a[g] <= s
      BY <2>1, <2>2
    <3>5. (\E x \in ages : x < s) <=> \E g \in f[2] : a[g] < s
      BY <2>1, <2>2
    <3> QED
      BY <1>5, <1>8, <2>5, <3>3, <3>4, <3>5 DEF a
  <2> QED
    BY <1>8, <2>4, <2>5
<1> QED
  BY <1>6, <1>7, <1>8, Kinds

\* without what its negations let in,
LEMMA MatchesWithout ==
  ASSUME NEW f \in Nodes, NEW id, NEW s
  PROVE  /\ f \in Simple => (Matches(id, s, FALSE)[f] <=> Holds(f, id, s))
         /\ f[1] = "negation" => ~Matches(id, s, FALSE)[f]
         /\ f[1] = "intersection" =>
               (Matches(id, s, FALSE)[f] <=> \A g \in f[2] : Lists[g] = {} \/ Matches(id, s, FALSE)[g])
         /\ f[1] = "union" =>
               (Matches(id, s, FALSE)[f] <=> \E g \in f[2] : Lists[g] # {} /\ Matches(id, s, FALSE)[g])
<1> DEFINE m == Matches(id, s, FALSE)
<1>1. m[f] = MatchesOf(id, s, FALSE, f, m)
  BY MatchesAre
<1>2. f \in Simple => f[1] \notin {"intersection", "union", "negation"}
  BY Kinds
<1> HIDE DEF m
<1>4. CASE f \in Simple
  <2>1. MatchesOf(id, s, FALSE, f, m) = Holds(f, id, s)
    BY <1>2, <1>4 DEF MatchesOf
  <2> QED
    BY <1>1, <1>2, <1>4, <2>1 DEF m
<1>5. CASE f[1] = "negation"
  BY <1>1, <1>2, <1>5 DEF MatchesOf, m
<1>6. CASE f[1] = "intersection"
  BY <1>1, <1>2, <1>6 DEF MatchesOf, m
<1>7. CASE f[1] = "union"
  BY <1>1, <1>2, <1>7 DEF MatchesOf, m
<1> QED
  BY <1>4, <1>5, <1>6, <1>7, Kinds

\* and with it.
LEMMA MatchesWith ==
  ASSUME NEW f \in Nodes, NEW id, NEW s
  PROVE  /\ f \in Simple => (Matches(id, s, TRUE)[f] <=> Holds(f, id, s))
         /\ f[1] = "negation" => Matches(id, s, TRUE)[f]
         /\ f[1] = "intersection" =>
               (Matches(id, s, TRUE)[f] <=> \A g \in f[2] : Lists[g] = {} \/ Matches(id, s, TRUE)[g])
         /\ f[1] = "union" =>
               (Matches(id, s, TRUE)[f] <=> \E g \in f[2] : Lists[g] = {} \/ Matches(id, s, TRUE)[g])
<1> DEFINE m == Matches(id, s, TRUE)
<1>1. m[f] = MatchesOf(id, s, TRUE, f, m)
  BY MatchesAre
<1>2. f \in Simple => f[1] \notin {"intersection", "union", "negation"}
  BY Kinds
<1> HIDE DEF m
<1>4. CASE f \in Simple
  <2>1. MatchesOf(id, s, TRUE, f, m) = Holds(f, id, s)
    BY <1>2, <1>4 DEF MatchesOf
  <2> QED
    BY <1>1, <1>2, <1>4, <2>1 DEF m
<1>5. CASE f[1] = "negation"
  BY <1>1, <1>2, <1>5 DEF MatchesOf, m
<1>6. CASE f[1] = "intersection"
  BY <1>1, <1>2, <1>6 DEF MatchesOf, m
<1>7. CASE f[1] = "union"
  BY <1>1, <1>2, <1>7 DEF MatchesOf, m
<1> QED
  BY <1>4, <1>5, <1>6, <1>7, Kinds

\* Without negations what matches goes on to match,
LEMMA MatchesGrow ==
  ASSUME IndexOK(db), NEW id \in DOMAIN db.file, NEW s \in Nat, NEW t \in Nat, s <= t,
         NEW f \in Nodes, Matches(id, s, FALSE)[f]
  PROVE  Matches(id, t, FALSE)[f]
<1> DEFINE P == {h \in Nodes : Matches(id, s, FALSE)[h] => Matches(id, t, FALSE)[h]}
<1>1. ASSUME NEW h \in Nodes, Subfilters(h) \subseteq P, Matches(id, s, FALSE)[h]
      PROVE  Matches(id, t, FALSE)[h]
  <2>1. CASE h \in Simple
    BY <1>1, <2>1, MatchesWithout, HoldsGrows
  <2>2. CASE h[1] = "negation"
    BY <1>1, <2>2, MatchesWithout
  <2>3. \A g \in Subfilters(h) : Matches(id, s, FALSE)[g] => Matches(id, t, FALSE)[g]
    BY <1>1
  <2>4. CASE h[1] = "intersection" /\ Subfilters(h) = h[2]
    <3>1. \A g \in h[2] : Lists[g] = {} \/ Matches(id, s, FALSE)[g]
      BY <1>1, <2>4, MatchesWithout
    <3>2. \A g \in h[2] : Lists[g] = {} \/ Matches(id, t, FALSE)[g]
      BY <2>3, <2>4, <3>1
    <3> QED
      BY <2>4, <3>2, MatchesWithout
  <2>5. CASE h[1] = "union" /\ Subfilters(h) = h[2]
    <3>1. \E g \in h[2] : Lists[g] # {} /\ Matches(id, s, FALSE)[g]
      BY <1>1, <2>5, MatchesWithout
    <3>2. \E g \in h[2] : Lists[g] # {} /\ Matches(id, t, FALSE)[g]
      BY <2>3, <2>5, <3>1
    <3> QED
      BY <2>5, <3>2, MatchesWithout
  <2> QED
    BY <2>1, <2>2, <2>4, <2>5, Kinds
<1>2. P = Nodes
  <2>1. P \subseteq Nodes /\ \A h \in Nodes : Subfilters(h) \subseteq P => h \in P
    BY <1>1
  <2> HIDE DEF P
  <2> QED
    BY <2>1, ByParts
<1> QED
  BY <1>2

\* and nothing matches before the first file.
LEMMA MatchesNone ==
  ASSUME IndexOK(db), NEW id \in DOMAIN db.file, NEW f \in Nodes, Lists[f] # {}
  PROVE  ~Matches(id, 0, FALSE)[f]
<1> DEFINE P == {h \in Nodes : Lists[h] # {} => ~Matches(id, 0, FALSE)[h]}
<1>1. ASSUME NEW h \in Nodes, Subfilters(h) \subseteq P, Lists[h] # {} PROVE ~Matches(id, 0, FALSE)[h]
  <2>1. CASE h \in Simple
    BY <2>1, MatchesWithout, HoldsNone
  <2>2. h[1] # "negation"
    BY <1>1, ListsSome
  <2>3. \A g \in Subfilters(h) : Lists[g] # {} => ~Matches(id, 0, FALSE)[g]
    BY <1>1
  <2>4. CASE h[1] = "intersection" /\ Subfilters(h) = h[2]
    <3>1. PICK g \in h[2] : Lists[g] # {}
      BY <1>1, <2>4, ListsSome
    <3>2. ~Matches(id, 0, FALSE)[g]
      BY <2>3, <2>4, <3>1
    <3>3. Matches(id, 0, FALSE)[h] <=> \A k \in h[2] : Lists[k] = {} \/ Matches(id, 0, FALSE)[k]
      BY <2>4, MatchesWithout
    <3> QED
      BY <3>1, <3>2, <3>3
  <2>5. CASE h[1] = "union" /\ Subfilters(h) = h[2]
    <3>1. ~ \E g \in h[2] : Lists[g] # {} /\ Matches(id, 0, FALSE)[g]
      BY <2>3, <2>5
    <3> QED
      BY <2>5, <3>1, MatchesWithout
  <2> QED
    BY <2>1, <2>2, <2>4, <2>5, Kinds
<1>2. P = Nodes
  <2>1. P \subseteq Nodes /\ \A h \in Nodes : Subfilters(h) \subseteq P => h \in P
    BY <1>1
  <2> HIDE DEF P
  <2> QED
    BY <2>1, ByParts
<1> QED
  BY <1>2

\* A file that comes to match is listed there by one of the simple filters.
LEMMA MatchesListed ==
  ASSUME IndexOK(db), NEW id \in DOMAIN db.file, NEW s \in DOMAIN db.file, NEW f \in Nodes, Lists[f] # {},
         Matches(id, s, FALSE)[f], ~Matches(id, s - 1, FALSE)[f]
  PROVE  \E g \in Lists[f] : <<s, id>> \in Listed(g)
<1> DEFINE New(h) == Lists[h] # {} /\ Matches(id, s, FALSE)[h] /\ ~Matches(id, s - 1, FALSE)[h]
           P == {h \in Nodes : New(h) => \E g \in Lists[h] : <<s, id>> \in Listed(g)}
<1>1. ASSUME NEW h \in Nodes, Subfilters(h) \subseteq P, New(h)
      PROVE  \E g \in Lists[h] : <<s, id>> \in Listed(g)
  <2>1. CASE h \in Simple
    <3>1. Matches(id, s, FALSE)[h] <=> Holds(h, id, s)
      BY <2>1, MatchesWithout
    <3>2. Matches(id, s - 1, FALSE)[h] <=> Holds(h, id, s - 1)
      BY <2>1, MatchesWithout
    <3>3. Lists[h] = {h}
      BY <2>1, ListsSome
    <3> QED
      BY <1>1, <2>1, <3>1, <3>2, <3>3, HoldsListed
  <2>2. h[1] # "negation"
    BY <1>1, ListsSome
  <2>3. CASE h[1] \in {"intersection", "union"} /\ Subfilters(h) = h[2]
    <3>1. PICK g \in h[2] : New(g)
      <4>1. CASE h[1] = "intersection"
        <5>1. \A g \in h[2] : Lists[g] = {} \/ Matches(id, s, FALSE)[g]
          BY <1>1, <4>1, MatchesWithout
        <5>2. Matches(id, s - 1, FALSE)[h] <=>
                 \A g \in h[2] : Lists[g] = {} \/ Matches(id, s - 1, FALSE)[g]
          BY <4>1, MatchesWithout
        <5> QED
          BY <1>1, <5>1, <5>2
      <4>2. CASE h[1] = "union"
        <5>1. \A t : Matches(id, t, FALSE)[h] <=>
                 \E g \in h[2] : Lists[g] # {} /\ Matches(id, t, FALSE)[g]
          BY <4>2, MatchesWithout, Zenon
        <5>2. /\ Matches(id, s, FALSE)[h] <=> \E g \in h[2] : Lists[g] # {} /\ Matches(id, s, FALSE)[g]
              /\ Matches(id, s - 1, FALSE)[h] <=>
                 \E g \in h[2] : Lists[g] # {} /\ Matches(id, s - 1, FALSE)[g]
          BY <5>1
        <5> QED
          BY <1>1, <5>1, <5>2
      <4> QED
        BY <2>3, <4>1, <4>2
    <3>2. \E k \in Lists[g] : <<s, id>> \in Listed(k)
      BY <1>1, <2>3, <3>1
    <3>3. Lists[g] \subseteq Lists[h]
      BY <2>3, <3>1, ListsSome
    <3> QED
      BY <3>2, <3>3
  <2> QED
    BY <2>1, <2>2, <2>3, Kinds
<1>2. P = Nodes
  <2>1. P \subseteq Nodes /\ \A h \in Nodes : Subfilters(h) \subseteq P => h \in P
    BY <1>1
  <2> HIDE DEF P
  <2> QED
    BY <2>1, ByParts
<1> QED
  BY <1>2

\* Without negations a candidate's age is at most its sort ID exactly if the query
\* matches it there, and less exactly if it matched before.
LEMMA FastAgeExact ==
  ASSUME IndexOK(db), NEW id \in DOMAIN db.file, NEW s \in DOMAIN db.file, NEW f \in Nodes,
         Negations[f] = {}, MetaOnly(f, id)
  PROVE  /\ FastAge(id, s)[f] <= s <=> Matches(id, s, FALSE)[f]
         /\ FastAge(id, s)[f] < s <=> Matches(id, s - 1, FALSE)[f]
<1>1. Len(db.file) \in Nat /\ DOMAIN db.file = 1..Len(db.file) /\ Infinity = Len(db.file) + 1
  BY Tables
<1> DEFINE Exact(h) == /\ FastAge(id, s)[h] <= s <=> Matches(id, s, FALSE)[h]
                       /\ FastAge(id, s)[h] < s <=> Matches(id, s - 1, FALSE)[h]
           P == {h \in Nodes : Negations[h] = {} /\ MetaOnly(h, id) => Exact(h)}
<1>2. ASSUME NEW h \in Nodes, Subfilters(h) \subseteq P, Negations[h] = {}, MetaOnly(h, id)
      PROVE  Exact(h)
  <2>1. h[1] # "negation"
    BY <1>2, NegationFree
  <2>2. \A g \in Subfilters(h) : g \in Nodes /\ Lists[g] # {} /\ Exact(g)
    <3>1. SUFFICES ASSUME NEW g \in Subfilters(h) PROVE g \in Nodes /\ Lists[g] # {} /\ Exact(g)
      OBVIOUS
    <3>2. g \in Nodes /\ Negations[g] = {} /\ MetaOnly(g, id)
      BY <1>2, NegationFree, Parts, PartsNotMeta
    <3> HIDE DEF Exact
    <3> QED
      BY <1>2, <3>2, NegationFree
  <2>3. CASE h \in Simple
    <3>1. SimpleAge(h, id, s) <= s <=> Holds(h, id, s)
      BY <1>1, <1>2, <2>3, SimpleExact
    <3>2. SimpleAge(h, id, s) <= s - 1 <=> Holds(h, id, s - 1)
      BY <1>1, <1>2, <2>3, SimpleExact
    <3>3. FastAge(id, s)[h] = SimpleAge(h, id, s) /\ FastAge(id, s)[h] \in Nat
      BY <2>3, FastAgeKinds
    <3>4. Matches(id, s, FALSE)[h] <=> Holds(h, id, s)
      BY <2>3, MatchesWithout
    <3>5. Matches(id, s - 1, FALSE)[h] <=> Holds(h, id, s - 1)
      BY <2>3, MatchesWithout
    <3>6. FastAge(id, s)[h] <= s - 1 <=> FastAge(id, s)[h] < s
      BY <1>1, <3>3
    <3> QED
      BY <3>1, <3>2, <3>3, <3>4, <3>5, <3>6
  <2>4. CASE h[1] = "intersection" /\ Subfilters(h) = h[2]
    <3>1. /\ FastAge(id, s)[h] <= s <=> \A g \in h[2] : FastAge(id, s)[g] <= s
          /\ FastAge(id, s)[h] < s <=> \A g \in h[2] : FastAge(id, s)[g] < s
      BY <2>4, FastAgeKinds
    <3>2. Matches(id, s, FALSE)[h] <=> \A g \in h[2] : Matches(id, s, FALSE)[g]
      <4>1. Matches(id, s, FALSE)[h] <=> \A g \in h[2] : Lists[g] = {} \/ Matches(id, s, FALSE)[g]
        BY <2>4, MatchesWithout, Zenon
      <4>2. \A g \in h[2] : Lists[g] # {}
        BY <2>2, <2>4
      <4> QED
        BY <4>1, <4>2, Zenon
    <3>3. Matches(id, s - 1, FALSE)[h] <=> \A g \in h[2] : Matches(id, s - 1, FALSE)[g]
      <4> DEFINE t == s - 1
      <4>1. Matches(id, t, FALSE)[h] <=> \A g \in h[2] : Lists[g] = {} \/ Matches(id, t, FALSE)[g]
        <5> HIDE DEF t
        <5> QED
          BY <2>4, MatchesWithout, Zenon
      <4>2. \A g \in h[2] : Lists[g] # {}
        BY <2>2, <2>4
      <4> QED
        BY <4>1, <4>2, Zenon
    <3> QED
      BY <2>2, <2>4, <3>1, <3>2, <3>3
  <2>5. CASE h[1] = "union" /\ Subfilters(h) = h[2]
    <3>1. /\ FastAge(id, s)[h] <= s <=> \E g \in h[2] : FastAge(id, s)[g] <= s
          /\ FastAge(id, s)[h] < s <=> \E g \in h[2] : FastAge(id, s)[g] < s
      BY <2>5, FastAgeKinds
    <3>2. Matches(id, s, FALSE)[h] <=> \E g \in h[2] : Matches(id, s, FALSE)[g]
      <4>1. Matches(id, s, FALSE)[h] <=> \E g \in h[2] : Lists[g] # {} /\ Matches(id, s, FALSE)[g]
        BY <2>5, MatchesWithout, Zenon
      <4> QED
        BY <2>2, <2>5, <4>1
    <3>3. Matches(id, s - 1, FALSE)[h] <=> \E g \in h[2] : Matches(id, s - 1, FALSE)[g]
      <4> DEFINE t == s - 1
      <4>1. Matches(id, t, FALSE)[h] <=> \E g \in h[2] : Lists[g] # {} /\ Matches(id, t, FALSE)[g]
        <5> HIDE DEF t
        <5> QED
          BY <2>5, MatchesWithout, Zenon
      <4> QED
        BY <2>2, <2>5, <4>1
    <3> QED
      BY <2>2, <2>5, <3>1, <3>2, <3>3
  <2> QED
    BY <2>1, <2>3, <2>4, <2>5, Kinds
<1>3. P = Nodes
  <2>1. P \subseteq Nodes /\ \A h \in Nodes : Subfilters(h) \subseteq P => h \in P
    BY <1>2
  <2> HIDE DEF P
  <2> QED
    BY <2>1, ByParts
<1> QED
  BY <1>3

\* With negations a candidate's age is not up before the rest of the query matches,
LEMMA FastAgeUpper ==
  ASSUME IndexOK(db), NEW id \in DOMAIN db.file, NEW s \in DOMAIN db.file, NEW f \in Nodes,
         MetaOnly(f, id), FastAge(id, s)[f] <= s
  PROVE  Matches(id, s, TRUE)[f]
<1>1. Len(db.file) \in Nat /\ DOMAIN db.file = 1..Len(db.file) /\ Infinity = Len(db.file) + 1
  BY Tables
<1> DEFINE P == {h \in Nodes : MetaOnly(h, id) /\ FastAge(id, s)[h] <= s => Matches(id, s, TRUE)[h]}
<1>2. ASSUME NEW h \in Nodes, Subfilters(h) \subseteq P, MetaOnly(h, id), FastAge(id, s)[h] <= s
      PROVE  Matches(id, s, TRUE)[h]
  <2>1. \A g \in Subfilters(h) : FastAge(id, s)[g] <= s => Matches(id, s, TRUE)[g]
    BY <1>2, PartsNotMeta
  <2>2. CASE h \in Simple
    <3>1. SimpleAge(h, id, s) <= s <=> Holds(h, id, s)
      BY <1>1, <1>2, <2>2, SimpleExact
    <3>2. FastAge(id, s)[h] = SimpleAge(h, id, s)
      BY <2>2, FastAgeKinds
    <3>3. Matches(id, s, TRUE)[h] <=> Holds(h, id, s)
      BY <2>2, MatchesWith
    <3> QED
      BY <1>2, <3>1, <3>2, <3>3
  <2>3. CASE h[1] = "negation"
    BY <2>3, MatchesWith
  <2>4. CASE h[1] = "intersection" /\ Subfilters(h) = h[2]
    <3>1. \A g \in h[2] : FastAge(id, s)[g] <= s
      BY <1>2, <2>4, FastAgeKinds
    <3>2. \A g \in h[2] : Matches(id, s, TRUE)[g]
      BY <2>1, <2>4, <3>1
    <3>3. \A g \in h[2] : Lists[g] = {} \/ Matches(id, s, TRUE)[g]
      BY <3>2
    <3> QED
      BY <2>4, <3>3, MatchesWith
  <2>5. CASE h[1] = "union" /\ Subfilters(h) = h[2]
    <3>1. \E g \in h[2] : FastAge(id, s)[g] <= s
      BY <1>2, <2>5, FastAgeKinds
    <3>2. \E g \in h[2] : Matches(id, s, TRUE)[g]
      BY <2>1, <2>5, <3>1
    <3>3. \E g \in h[2] : Lists[g] = {} \/ Matches(id, s, TRUE)[g]
      BY <3>2
    <3> QED
      BY <2>5, <3>3, MatchesWith
  <2> QED
    BY <2>2, <2>3, <2>4, <2>5, Kinds
<1>3. P = Nodes
  <2>1. P \subseteq Nodes /\ \A h \in Nodes : Subfilters(h) \subseteq P => h \in P
    BY <1>2
  <2> HIDE DEF P
  <2> QED
    BY <2>1, ByParts
<1> QED
  BY <1>3

\* and of a file that no negation is about it is that of the rest.
Never(f, id) ==
    \A h \in Negations[f] : Negations[h[2]] = {} /\ ~Matches(id, Infinity, FALSE)[h[2]]

\* and for a file that no negation is about it is exact.
LEMMA FastAgeNever ==
  ASSUME IndexOK(db), NEW id \in DOMAIN db.file, NEW s \in DOMAIN db.file, NEW f \in Nodes,
         MetaOnly(f, id), Never(f, id)
  PROVE  /\ Lists[f] = {} => FastAge(id, s)[f] = s
         /\ Lists[f] # {} /\ Matches(id, s, FALSE)[f] => FastAge(id, s)[f] <= s
         /\ Lists[f] # {} /\ ~Matches(id, s - 1, FALSE)[f] => ~(FastAge(id, s)[f] < s)
<1>1. Len(db.file) \in Nat /\ DOMAIN db.file = 1..Len(db.file) /\ Infinity = Len(db.file) + 1
  BY Tables
<1> DEFINE Exact(h) ==
             /\ Lists[h] = {} => FastAge(id, s)[h] = s
             /\ Lists[h] # {} /\ Matches(id, s, FALSE)[h] => FastAge(id, s)[h] <= s
             /\ Lists[h] # {} /\ ~Matches(id, s - 1, FALSE)[h] => ~(FastAge(id, s)[h] < s)
           P == {h \in Nodes : MetaOnly(h, id) /\ Never(h, id) => Exact(h)}
<1>2. ASSUME NEW h \in Nodes, Subfilters(h) \subseteq P, MetaOnly(h, id), Never(h, id) PROVE Exact(h)
  <2>1. Negations[h] = (IF h[1] = "negation" THEN {h} ELSE {})
                        \cup UNION {Negations[g] : g \in Subfilters(h)}
    BY NegationsAre
  <2>2. \A g \in Subfilters(h) : Exact(g)
    <3>1. SUFFICES ASSUME NEW g \in Subfilters(h) PROVE Exact(g)
      OBVIOUS
    <3>2. Never(g, id) /\ MetaOnly(g, id)
      BY <1>2, <2>1, PartsNotMeta DEF Never
    <3> HIDE DEF Exact
    <3> QED
      BY <1>2, <3>2
  <2>3. FastAge(id, s)[h] \in Nat /\ s \in Nat
    BY <1>1, FastAgeKinds
  <2>4. CASE h \in Simple
    <3>1. Lists[h] # {}
      BY <2>4, ListsSome
    <3>2. h[1] # "negation" /\ Subfilters(h) = {}
      BY <2>4, Kinds
    <3>3. Negations[h] = {}
      BY <2>1, <3>2
    <3> QED
      BY <1>2, <3>1, <3>3, FastAgeExact
  <2>5. CASE h[1] = "negation" /\ h[2] \in Subfilters(h) /\ h[2] \in Nodes
    <3>1. h \in Negations[h]
      BY <2>1, <2>5
    <3>2. Negations[h[2]] = {} /\ ~Matches(id, Infinity, FALSE)[h[2]] /\ MetaOnly(h[2], id)
      BY <1>2, <2>5, <3>1, PartsNotMeta DEF Never
    <3>3. ~Matches(id, s, FALSE)[h[2]]
      <4>1. s \in Nat /\ Infinity \in Nat /\ s <= Infinity
        BY <1>1
      <4>2. ASSUME NEW g \in Nodes, ~Matches(id, Infinity, FALSE)[g] PROVE ~Matches(id, s, FALSE)[g]
        BY <4>1, <4>2, MatchesGrow
      <4> QED
        BY <2>5, <3>2, <4>2
    <3>4. ~(FastAge(id, s)[h[2]] <= s)
      <4>1. ASSUME NEW g \in Nodes, Negations[g] = {}, MetaOnly(g, id)
            PROVE  FastAge(id, s)[g] <= s <=> Matches(id, s, FALSE)[g]
        BY <4>1, FastAgeExact
      <4> QED
        BY <2>5, <3>2, <3>3, <4>1
    <3>5. FastAge(id, s)[h[2]] # s
      BY <2>3, <3>4
    <3>6. FastAge(id, s)[h] = s
      BY <2>5, <3>5, FastAgeKinds
    <3> QED
      BY <2>3, <2>5, <3>6, ListsSome
  <2>6. CASE h[1] = "intersection" /\ Subfilters(h) = h[2] /\ h[2] # {} /\ h[2] \subseteq Nodes
    <3>1. /\ FastAge(id, s)[h] <= s <=> \A g \in h[2] : FastAge(id, s)[g] <= s
          /\ FastAge(id, s)[h] < s <=> \A g \in h[2] : FastAge(id, s)[g] < s
      BY <2>6, FastAgeKinds
    <3>2. \A g \in h[2] : Exact(g) /\ FastAge(id, s)[g] \in Nat
      <4>1. \A g \in h[2] : FastAge(id, s)[g] \in Nat
        BY <2>6, FastAgeKinds
      <4> HIDE DEF Exact
      <4> QED
        BY <2>2, <2>6, <4>1
    <3>3. CASE Lists[h] = {}
      <4>1. \A g \in h[2] : Lists[g] = {}
        BY <2>6, <3>3, ListsSome
      <4>2. \A g \in h[2] : FastAge(id, s)[g] = s
        BY <3>2, <4>1
      <4> QED
        BY <2>3, <2>6, <3>1, <3>3, <4>2
    <3>4. Matches(id, s, FALSE)[h] => FastAge(id, s)[h] <= s
      <4>1. Matches(id, s, FALSE)[h] => \A g \in h[2] : Lists[g] = {} \/ Matches(id, s, FALSE)[g]
        BY <2>6, MatchesWithout
      <4>2. ASSUME NEW g \in h[2], Lists[g] = {} \/ Matches(id, s, FALSE)[g]
            PROVE  FastAge(id, s)[g] <= s
        <5>1. CASE Lists[g] = {}
          <6>1. FastAge(id, s)[g] = s
            BY <3>2, <5>1
          <6> QED
            BY <2>3, <6>1
        <5>2. CASE Lists[g] # {}
          BY <3>2, <4>2, <5>2
        <5> QED
          BY <5>1, <5>2
      <4> QED
        BY <3>1, <4>1, <4>2
    <3>5. ~Matches(id, s - 1, FALSE)[h] => ~(FastAge(id, s)[h] < s)
      <4>1. ~Matches(id, s - 1, FALSE)[h] => \E g \in h[2] : Lists[g] # {} /\ ~Matches(id, s - 1, FALSE)[g]
        BY <2>6, MatchesWithout
      <4> QED
        BY <3>1, <3>2, <4>1
    <3> QED
      BY <3>3, <3>4, <3>5
  <2>7. CASE h[1] = "union" /\ Subfilters(h) = h[2] /\ h[2] # {} /\ h[2] \subseteq Nodes
    <3>1. /\ FastAge(id, s)[h] <= s <=> \E g \in h[2] : FastAge(id, s)[g] <= s
          /\ FastAge(id, s)[h] < s <=> \E g \in h[2] : FastAge(id, s)[g] < s
      BY <2>7, FastAgeKinds
    <3>2. \A g \in h[2] : Exact(g) /\ FastAge(id, s)[g] \in Nat
      <4>1. \A g \in h[2] : FastAge(id, s)[g] \in Nat
        BY <2>7, FastAgeKinds
      <4> HIDE DEF Exact
      <4> QED
        BY <2>2, <2>7, <4>1
    <3>3. CASE Lists[h] = {}
      <4>1. \A g \in h[2] : Lists[g] = {}
        BY <2>7, <3>3, ListsSome
      <4>2. \A g \in h[2] : FastAge(id, s)[g] = s
        BY <3>2, <4>1
      <4> QED
        BY <2>3, <2>7, <3>1, <3>3, <4>2
    <3>4. Matches(id, s, FALSE)[h] => FastAge(id, s)[h] <= s
      <4>1. Matches(id, s, FALSE)[h] => \E g \in h[2] : Lists[g] # {} /\ Matches(id, s, FALSE)[g]
        BY <2>7, MatchesWithout
      <4> QED
        BY <3>1, <3>2, <4>1
    <3>5. ~Matches(id, s - 1, FALSE)[h] => ~(FastAge(id, s)[h] < s)
      <4>1. ~Matches(id, s - 1, FALSE)[h] => \A g \in h[2] : Lists[g] = {} \/ ~Matches(id, s - 1, FALSE)[g]
        BY <2>7, MatchesWithout
      <4>2. ASSUME NEW g \in h[2], Lists[g] = {} \/ ~Matches(id, s - 1, FALSE)[g]
            PROVE  ~(FastAge(id, s)[g] < s)
        <5>1. CASE Lists[g] = {}
          <6>1. FastAge(id, s)[g] = s
            BY <3>2, <5>1
          <6> QED
            BY <2>3, <6>1
        <5>2. CASE Lists[g] # {}
          BY <3>2, <4>2, <5>2
        <5> QED
          BY <5>1, <5>2
      <4> QED
        BY <3>1, <4>1, <4>2
    <3> QED
      BY <3>3, <3>4, <3>5
  <2> HIDE DEF Exact
  <2> QED
    BY <2>4, <2>5, <2>6, <2>7, Kinds
<1>3. P = Nodes
  <2>1. P \subseteq Nodes /\ \A h \in Nodes : Subfilters(h) \subseteq P => h \in P
    BY <1>2
  <2> HIDE DEF P
  <2> QED
    BY <2>1, ByParts
<1> QED
  BY <1>3

-----------------------------------------------------------------------------
(***************************************************************************)
(* The hits are the results.                                               *)
(***************************************************************************)
\* A result matches at its sort ID and not before,
LEMMA ResultsAre ==
  ASSUME IndexOK(db), QueryOK, NEW r \in Results
  PROVE  /\ r = <<r[1], r[2]>> /\ r[1] \in DOMAIN db.file /\ r[2] \in DOMAIN db.file
         /\ Matches(r[2], r[1], FALSE)[query]
         /\ Lists[query] # {} => ~Matches(r[2], r[1] - 1, FALSE)[query]
         /\ MetaOnly(query, r[2])
<1>1. Len(db.file) \in Nat /\ DOMAIN db.file = 1..Len(db.file)
  BY Tables
<1>2. PICK id \in DOMAIN db.file :
         r \in {<<a, id>> : a \in {a \in {s \in DOMAIN db.file : Matches(id, s, FALSE)[query]} :
                                     \A b \in {s \in DOMAIN db.file : Matches(id, s, FALSE)[query]} : a <= b}}
  BY DEF Results
<1>3. PICK a \in DOMAIN db.file :
         /\ r = <<a, id>> /\ Matches(id, a, FALSE)[query]
         /\ \A b \in DOMAIN db.file : Matches(id, b, FALSE)[query] => a <= b
  BY <1>2
<1>4. Lists[query] # {} => ~Matches(id, a - 1, FALSE)[query]
  <2>1. CASE a = 1
    <3>1. a - 1 = 0
      BY <2>1
    <3> QED
      BY <3>1, MatchesNone DEF QueryOK
  <2>2. CASE a # 1
    <3>1. a - 1 \in DOMAIN db.file /\ ~(a <= a - 1)
      BY <1>1, <2>2
    <3> QED
      BY <1>3, <3>1
  <2> QED
    BY <2>1, <2>2
<1>5. MetaOnly(query, id)
  <2>1. SUFFICES ASSUME query[1] = "meta" PROVE id \in Metas(db)
    BY DEF MetaOnly
  <2>2. query \in Simple
    BY <2>1, Kinds DEF QueryOK
  <2>3. Holds(query, id, a)
    BY <1>3, <2>2, MatchesWithout DEF QueryOK
  <2> QED
    BY <2>1, <2>3 DEF Holds, Indirect, Named
<1> QED
  BY <1>3, <1>4, <1>5

\* and what does is a result.
LEMMA ResultsIn ==
  ASSUME IndexOK(db), QueryOK, NEW id \in DOMAIN db.file, NEW s \in DOMAIN db.file,
         Matches(id, s, FALSE)[query], ~Matches(id, s - 1, FALSE)[query]
  PROVE  <<s, id>> \in Results
<1>1. Len(db.file) \in Nat /\ DOMAIN db.file = 1..Len(db.file)
  BY Tables
<1>2. ASSUME NEW b \in DOMAIN db.file, Matches(id, b, FALSE)[query] PROVE s <= b
  <2>1. SUFFICES ASSUME ~(s <= b) PROVE FALSE
    OBVIOUS
  <2>2. b <= s - 1 /\ b \in Nat /\ s - 1 \in Nat
    BY <1>1, <2>1
  <2>3. Matches(id, s - 1, FALSE)[query]
    BY <1>2, <2>2, MatchesGrow DEF QueryOK
  <2> QED
    BY <2>3
<1> DEFINE ages == {t \in DOMAIN db.file : Matches(id, t, FALSE)[query]}
<1>3. s \in {a \in ages : \A b \in ages : a <= b}
  BY <1>2
<1>4. <<s, id>> \in {<<a, id>> : a \in {a \in ages : \A b \in ages : a <= b}}
  BY <1>3
<1> QED
  BY <1>4 DEF Results

\* Only meta-files are candidates of a query for meta-files.
LEMMA CandidatesMeta ==
  ASSUME IndexOK(db), QueryOK, NEW c \in Candidates
  PROVE  MetaOnly(query, c[2])
<1>1. SUFFICES ASSUME query[1] = "meta" PROVE c[2] \in Metas(db)
  BY DEF MetaOnly
<1>2. query \in Simple
  BY <1>1, Kinds DEF QueryOK
<1>3. c \in Listed(query)
  BY <1>2, ListsSome DEF Candidates, QueryOK
<1> QED
  BY <1>1, <1>2, <1>3, ListedHold DEF MetaOnly

\* Without negations the candidates at their age are the results.
LEMMA HitsExact ==
  ASSUME IndexOK(db), QueryOK, Negations[query] = {}
  PROVE  Hits = Results
<1>1. Len(db.file) \in Nat /\ DOMAIN db.file = 1..Len(db.file)
  BY Tables
<1>2. Lists[query] # {}
  BY NegationFree DEF QueryOK
<1>3. ASSUME NEW c \in Hits PROVE c \in Results
  <2>1. c \in Candidates /\ FastAge(c[2], c[1])[query] = c[1]
    BY DEF Hits
  <2>2. c[1] \in DOMAIN db.file /\ c[2] \in DOMAIN db.file /\ c = <<c[1], c[2]>>
        /\ MetaOnly(query, c[2])
    BY <1>1, <2>1, CandidatesAre, CandidatesMeta
  <2>3. /\ FastAge(c[2], c[1])[query] <= c[1] <=> Matches(c[2], c[1], FALSE)[query]
        /\ FastAge(c[2], c[1])[query] < c[1] <=> Matches(c[2], c[1] - 1, FALSE)[query]
    BY <2>2, FastAgeExact DEF QueryOK
  <2>4. c[1] <= c[1] /\ ~(c[1] < c[1])
    BY <1>1, <2>2
  <2>5. Matches(c[2], c[1], FALSE)[query] /\ ~Matches(c[2], c[1] - 1, FALSE)[query]
    BY <2>1, <2>3, <2>4
  <2>6. <<c[1], c[2]>> \in Results
    BY <2>2, <2>5, ResultsIn
  <2> QED
    BY <2>2, <2>6
<1>4. ASSUME NEW r \in Results PROVE r \in Hits
  <2>1. /\ r = <<r[1], r[2]>> /\ r[1] \in DOMAIN db.file /\ r[2] \in DOMAIN db.file
        /\ Matches(r[2], r[1], FALSE)[query] /\ ~Matches(r[2], r[1] - 1, FALSE)[query]
        /\ MetaOnly(query, r[2])
    BY <1>2, ResultsAre
  <2>2. r \in Candidates
    <3>1. \E g \in Lists[query] : <<r[1], r[2]>> \in Listed(g)
      BY <1>2, <2>1, MatchesListed DEF QueryOK
    <3> QED
      BY <2>1, <3>1 DEF Candidates
  <2>3. /\ FastAge(r[2], r[1])[query] <= r[1] <=> Matches(r[2], r[1], FALSE)[query]
        /\ FastAge(r[2], r[1])[query] < r[1] <=> Matches(r[2], r[1] - 1, FALSE)[query]
    BY <2>1, FastAgeExact DEF QueryOK
  <2>4. FastAge(r[2], r[1])[query] \in Nat
    BY <2>1, FastAgeKinds DEF QueryOK
  <2>5. FastAge(r[2], r[1])[query] <= r[1] /\ ~(FastAge(r[2], r[1])[query] < r[1])
    BY <2>1, <2>3
  <2>6. FastAge(r[2], r[1])[query] = r[1]
    BY <1>1, <2>1, <2>4, <2>5
  <2> QED
    BY <2>2, <2>6 DEF Hits
<1> QED
  BY <1>3, <1>4

\* With negations each of them still matches the rest of the query and is listed,
LEMMA HitsMatch ==
  ASSUME IndexOK(db), QueryOK, NEW c \in Hits
  PROVE  Matches(c[2], c[1], TRUE)[query] /\ \E f \in Lists[query] : Holds(f, c[2], c[1])
<1>1. c \in Candidates /\ FastAge(c[2], c[1])[query] = c[1]
  BY DEF Hits
<1>2. c[1] \in DOMAIN db.file /\ c[2] \in DOMAIN db.file /\ MetaOnly(query, c[2]) /\ c[1] <= c[1]
  BY <1>1, CandidatesAre, CandidatesMeta, Tables
<1>3. Matches(c[2], c[1], TRUE)[query]
  BY <1>1, <1>2, FastAgeUpper DEF QueryOK
<1>4. PICK f \in Lists[query] : c \in Listed(f)
  BY <1>1 DEF Candidates
<1>5. Holds(f, c[2], c[1])
  BY <1>4, QueryLists, ListedHold
<1> QED
  BY <1>3, <1>5

\* and each result that no negation is about is one of them.
LEMMA NeverHits ==
  ASSUME IndexOK(db), QueryOK, Lists[query] # {}, NEW r \in Results, Never(query, r[2])
  PROVE  r \in Hits
<1>1. Len(db.file) \in Nat /\ DOMAIN db.file = 1..Len(db.file)
  BY Tables
<1>2. /\ r = <<r[1], r[2]>> /\ r[1] \in DOMAIN db.file /\ r[2] \in DOMAIN db.file
      /\ Matches(r[2], r[1], FALSE)[query] /\ ~Matches(r[2], r[1] - 1, FALSE)[query]
      /\ MetaOnly(query, r[2])
  BY ResultsAre
<1>3. r \in Candidates
  <2>1. \E g \in Lists[query] : <<r[1], r[2]>> \in Listed(g)
    BY <1>2, MatchesListed DEF QueryOK
  <2> QED
    BY <1>2, <2>1 DEF Candidates
<1>4. FastAge(r[2], r[1])[query] <= r[1] /\ ~(FastAge(r[2], r[1])[query] < r[1])
  BY <1>2, FastAgeNever DEF QueryOK
<1>5. FastAge(r[2], r[1])[query] \in Nat
  BY <1>2, FastAgeKinds DEF QueryOK
<1>6. FastAge(r[2], r[1])[query] = r[1]
  BY <1>1, <1>2, <1>4, <1>5
<1> QED
  BY <1>3, <1>6 DEF Hits

-----------------------------------------------------------------------------
(***************************************************************************)
(* The properties of a query.                                              *)
(***************************************************************************)
\* From the invariant: no filter has a file before the oldest that shares a URI
\* with it, which each meta-file of it is younger than.
LEMMA OwnAgeOK ==
  ASSUME ScanInv
  PROVE  OwnAge
<1>1. SUFFICES ASSUME pc # "build", NEW id \in DOMAIN db.file, Valid(FullAge(id)[query][1])
               PROVE  Eldest(id) <= FullAge(id)[query][1]
  BY DEF OwnAge
<1>2. IndexOK(db) /\ query \in Nodes
  BY <1>1 DEF ScanInv, QueryOK
<1>3. DOMAIN db.file \subseteq Nat
  BY <1>2, Tables
<1> DEFINE S == {id} \cup {i \in DOMAIN db.file :
                             \E r, s \in db.uri : r[1] = s[1] /\ r[2] = i /\ s[2] = id}
<1>4. Eldest(id) = Min(S)
  BY DEF Eldest
<1>5. S \subseteq Nat /\ S # {} /\ id \in S
  BY <1>3
<1>6. Eldest(id) \in Nat /\ \A x \in S : Eldest(id) <= x
  <2> HIDE DEF S
  <2> QED
    BY <1>4, <1>5, MinIs
<1>7. ASSUME NEW r \in db.meta, <<r[2], id>> \in db.uri PROVE Eldest(id) <= r[1]
  <2>1. PICK i \in DOMAIN db.file : Resolves(db, r[2], i) /\ i < r[1]
    BY <1>2 DEF IndexOK, TargetsOlder
  <2>2. <<r[2], i>> \in db.uri
    BY <2>1 DEF Resolves
  <2>3. \E q, s \in db.uri : q[1] = s[1] /\ q[2] = i /\ s[2] = id
    <3> DEFINE q == <<r[2], i>>
               s == <<r[2], id>>
    <3>1. q \in db.uri /\ s \in db.uri /\ q[1] = s[1] /\ q[2] = i /\ s[2] = id
      BY <1>7, <2>2
    <3> QED
      BY <3>1
  <2>4. i \in S
    BY <2>3
  <2>5. r[1] \in DOMAIN db.file
    BY <1>2, Tables
  <2> HIDE DEF S
  <2>6. Eldest(id) <= i /\ i \in Nat /\ r[1] \in Nat
    BY <1>3, <1>6, <2>4, <2>5
  <2> QED
    BY <1>6, <2>1, <2>6
<1>8. Eldest(id) <= id
  BY <1>5, <1>6
<1> QED
  BY <1>1, <1>2, <1>6, <1>7, <1>8, FullAgeOwn

\* The negations of a filter are negations.
LEMMA NegationsNegate ==
  ASSUME NEW f \in Nodes, NEW g \in Negations[f]
  PROVE  g \in Nodes /\ g[1] = "negation" /\ g[2] \in Nodes
<1> DEFINE P == {h \in Nodes : \A k \in Negations[h] : k \in Nodes /\ k[1] = "negation"}
<1>1. ASSUME NEW h \in Nodes, Subfilters(h) \subseteq P PROVE h \in P
  <2>1. ASSUME NEW k \in Negations[h] PROVE k \in Nodes /\ k[1] = "negation"
    <3>1. Negations[h] = (IF h[1] = "negation" THEN {h} ELSE {})
                          \cup UNION {Negations[j] : j \in Subfilters(h)}
      BY NegationsAre
    <3>2. CASE \E j \in Subfilters(h) : k \in Negations[j]
      BY <1>1, <3>2
    <3>3. CASE h[1] = "negation" /\ k = h
      BY <3>3
    <3> QED
      BY <2>1, <3>1, <3>2, <3>3
  <2> QED
    BY <2>1
<1>2. P \subseteq Nodes
  OBVIOUS
<1>3. P = Nodes
  <2> HIDE DEF P
  <2> QED
    BY <1>1, <1>2, ByParts
<1>4. g \in Nodes /\ g[1] = "negation"
  BY <1>3
<1> QED
  BY <1>4, Kinds

\* From the invariant: without negations, what is found are results, in order and
\* without a gap.
LEMMA ResultsExactOK ==
  ASSUME ScanInv
  PROVE  ResultsExact
<1> DEFINE found == {out[i] : i \in DOMAIN out}
<1>1. SUFFICES ASSUME pc # "build", Negations[query] = {}
               PROVE  /\ found \subseteq Results
                      /\ \A i, j \in DOMAIN out : i < j => Ahead(dir, out[i], out[j])
                      /\ \A i \in DOMAIN out, r \in Results \ found :
                            \/ Ahead(dir, r, out[1])
                            \/ Ahead(dir, out[i], r) /\ pc # "done"
                            \/ PassedOver(r)
  BY DEF ResultsExact
<1>2. IndexOK(db) /\ QueryOK /\ PositionOK /\ FiltersOK /\ OutOK /\ NoneLost
  BY <1>1 DEF ScanInv
<1>3. Hits = Results
  BY <1>1, <1>2, HitsExact
<1>4. dir \in {1, -1} /\ Positions \subseteq Nat \X Nat
  BY <1>2, InvalidIs DEF QueryOK
<1>5. out \in Seq(Nat \X Nat) /\ DOMAIN out = 1..Len(out) /\ Len(out) \in Nat
  BY DEF ScanInv
<1>6. found \subseteq Results
  BY <1>2, <1>3 DEF OutOK
<1>7. ASSUME NEW i \in DOMAIN out, NEW r \in Results \ found,
             ~Ahead(dir, r, out[1]), ~PassedOver(r)
      PROVE  Ahead(dir, out[i], r) /\ pc # "done"
  <2>1. r \in Hits /\ ~Found(r)
    BY <1>3, <1>7 DEF Found
  <2>2. r \in Candidates /\ r \in Nat \X Nat
    BY <1>2, <2>1, CandidatesAre DEF Hits
  <2>3. 1 \in DOMAIN out /\ Len(out) \in DOMAIN out /\ out # <<>>
    BY <1>5, <1>7
  <2>4. out[1] \in Nat \X Nat /\ out[i] \in Nat \X Nat /\ out[Len(out)] \in Nat \X Nat
    BY <1>5, <2>3
  <2>5. Base \in Nat \X Nat /\ Ahead(dir, Base, out[1])
    BY <1>2, <1>4, <2>3 DEF OutOK
  <2>6. Ahead(dir, Base, r)
    BY <1>4, <1>7, <2>2, <2>4, <2>5, AheadIs
  <2>7. ~Past(r)
    BY <1>2, <1>7, <2>1, <2>6 DEF NoneLost
  <2>8. CASE pc = "scan"
    <3>1. Current(at) \in Nat \X Nat
      BY <1>2, <1>4, <2>8, CurrentIs DEF FiltersOK, Stands
    <3>2. Ahead(dir, out[i], Current(at)) /\ ~Ahead(dir, r, Current(at))
      BY <1>2, <2>7, <2>8 DEF FiltersOK, Past
    <3> HIDE DEF found
    <3> QED
      BY <1>4, <2>2, <2>4, <2>8, <3>1, <3>2, AheadIs
  <2>9. CASE pc = "prepare"
    <3>1. Ahead(dir, out[Len(out)], r)
      BY <2>3, <2>7, <2>9 DEF Past
    <3>2. CASE i = Len(out)
      BY <2>9, <3>1, <3>2
    <3>3. CASE i # Len(out)
      <4>1. i < Len(out)
        BY <1>5, <1>7, <3>3
      <4>2. Ahead(dir, out[i], out[Len(out)])
        BY <1>2, <2>3, <4>1 DEF OutOK
      <4> QED
        BY <1>4, <2>2, <2>4, <2>9, <3>1, <4>2, AheadIs
    <3> QED
      BY <3>2, <3>3
  <2>10. pc # "refused" /\ pc # "done"
    BY <1>2, <2>3, <2>7 DEF PositionOK, Past
  <2> QED
    BY <1>1, <2>8, <2>9, <2>10 DEF ScanInv
<1>8. \A i, j \in DOMAIN out : i < j => Ahead(dir, out[i], out[j])
  BY <1>2 DEF OutOK
<1> HIDE DEF found
<1> QED
  BY <1>6, <1>7, <1>8

\* From the invariant: what negations leave out and let in.
LEMMA NegationBoundsOK ==
  ASSUME ScanInv
  PROVE  NegationBounds
<1> DEFINE found == {out[i] : i \in DOMAIN out}
           never(id) == \A f \in Negations[query] :
                           Negations[f[2]] = {} /\ ~Matches(id, Infinity, FALSE)[f[2]]
<1>1. SUFFICES ASSUME pc # "build"
               PROVE  /\ \A e \in found : Matches(e[2], e[1], TRUE)[query]
                                           /\ \E f \in Lists[query] : Holds(f, e[2], e[1])
                      /\ (asked = NoURI /\ pc = "done" /\ Lists[query] # {}) =>
                            \A r \in Results : never(r[2]) => r \in found \/ PassedOver(r)
                      /\ OneEnd
  BY DEF NegationBounds
<1>2. IndexOK(db) /\ QueryOK /\ OutOK /\ NoneLost
  BY <1>1 DEF ScanInv
<1>3. \A e \in found : Matches(e[2], e[1], TRUE)[query] /\ \E f \in Lists[query] : Holds(f, e[2], e[1])
  <2>1. \A e \in found : e \in Hits
    BY <1>2 DEF OutOK
  <2> HIDE DEF found
  <2> QED
    BY <1>2, <2>1, HitsMatch
<1>4. ASSUME asked = NoURI, pc = "done", Lists[query] # {}, NEW r \in Results, never(r[2])
      PROVE  r \in found \/ PassedOver(r)
  <2>1. Never(query, r[2])
    BY <1>4 DEF Never
  <2>2. r \in Hits
    BY <1>2, <1>4, <2>1, NeverHits
  <2>3. Ahead(dir, Base, r)
    BY <1>2, <1>4, <2>2, CandidatesAre DEF Base, Hits
  <2>4. Found(r) \/ PassedOver(r)
    BY <1>2, <1>4, <2>2, <2>3 DEF NoneLost, Past
  <2> QED
    BY <2>4 DEF Found
<1>5. OneEnd
  <2>1. SUFFICES ASSUME NEW f \in Negations[query], NEW id \in DOMAIN db.file, Valid(FullAge(id)[f[2]][1])
                 PROVE  ~Valid(FullAge(id)[f[2]][2])
    BY DEF OneEnd
  <2>2. f[2] \in Nodes
    BY <1>2, NegationsNegate DEF QueryOK
  <2>3. FullAge(id)[f[2]] \in FullAges
    BY <1>2, <2>2, FullAgeIs
  <2> QED
    BY <2>1, <2>3 DEF FullAges, Valid
<1> HIDE DEF found, never
<1> QED
  BY <1>3, <1>4, <1>5

\* OwnAge, whatever is stored and asked: the age of a file under a filter
\* (-fullAge:, SLNFilter.h) is no less than the ID of the oldest file that shares
\* a URI with it, its own if there is none.
THEOREM OwnAgeHolds == Spec => []OwnAge
<1>1. ScanInv => OwnAge
  BY OwnAgeOK
<1> QED
  BY <1>1, ScanInvariant, PTL

\* ResultsExact, for every query without negations, any tables, batch size and start:
\* what the scan of SLNFilterExt.c has found is a run of the query's results in their
\* order, none twice, none left out but what is passed over.
THEOREM QueryResultsExact == Spec => []ResultsExact
<1>1. ScanInv => ResultsExact
  BY ResultsExactOK
<1> QED
  BY <1>1, ScanInvariant, PTL

\* NegationBounds, for every query with negations: they let nothing in that the rest of
\* the query does not match, leave out nothing that their filters never match, and the
\* assertion on ages in SLNNegationFilter.m never fails.
THEOREM QueryNegationBounds == Spec => []NegationBounds
<1>1. ScanInv => NegationBounds
  BY NegationBoundsOK
<1> QED
  BY <1>1, ScanInvariant, PTL

-----------------------------------------------------------------------------
(***************************************************************************)
(* Where a query starts.                                                   *)
(***************************************************************************)
\* A flat query has no negations.
LEMMA FlatFree ==
  ASSUME QueryOK, Flat
  PROVE  Negations[query] = {}
<1>1. ASSUME NEW f \in Nodes, f[1] # "negation", \A g \in Subfilters(f) : Negations[g] = {}
      PROVE  Negations[f] = {}
  <2>1. Negations[f] = (IF f[1] = "negation" THEN {f} ELSE {})
                        \cup UNION {Negations[g] : g \in Subfilters(f)}
    BY NegationsAre
  <2> QED
    BY <1>1, <2>1
<1>2. ASSUME NEW f \in Nodes, f \in Simple PROVE Negations[f] = {}
  <2>1. Subfilters(f) = {} /\ f[1] # "negation"
    BY <1>2, Kinds
  <2> QED
    BY <1>1, <2>1
<1>3. ASSUME NEW f \in Nodes, f[1] = "union", f[2] \subseteq Simple PROVE Negations[f] = {}
  <2>1. Subfilters(f) = f[2] /\ f[2] \subseteq Nodes
    BY <1>3, Kinds
  <2>2. f[1] # "negation"
    BY <1>3
  <2> QED
    BY <1>1, <1>2, <1>3, <2>1, <2>2
<1>4. CASE query[1] = "intersection" /\ \A u \in query[2] : u[1] = "union" /\ u[2] \subseteq Simple
  <2>1. Subfilters(query) = query[2] /\ query[2] \subseteq Nodes /\ query \in Nodes
    BY <1>4, Kinds DEF QueryOK
  <2>2. query[1] # "negation"
    BY <1>4
  <2> QED
    BY <1>1, <1>3, <1>4, <2>1, <2>2
<1> QED
  BY <1>2, <1>4 DEF Flat, QueryOK

\* A filter whose full age begins where it comes to match.
Begins(f, id) ==
    \A s \in DOMAIN db.file :
        ValidAge(FullAge(id)[f]) /\ FullAge(id)[f][1] <= s <=> Matches(id, s, FALSE)[f]

\* A simple filter is one,
LEMMA SimpleBegins ==
  ASSUME IndexOK(db), NEW id \in DOMAIN db.file, NEW f \in Nodes, f \in Simple, MetaOnly(f, id)
  PROVE  Begins(f, id)
<1>1. Len(db.file) \in Nat /\ DOMAIN db.file = 1..Len(db.file) /\ Infinity = Len(db.file) + 1
  BY Tables
<1>2. SUFFICES ASSUME NEW s \in DOMAIN db.file
               PROVE  ValidAge(FullAge(id)[f]) /\ FullAge(id)[f][1] <= s <=> Matches(id, s, FALSE)[f]
  BY DEF Begins
<1>3. FullAge(id)[f] = <<SimpleAge(f, id, Infinity), Infinity>>
  <2>1. FullAge(id)[f] = FullAgeOf(id, f, FullAge(id))
    BY FullAgeIs
  <2> QED
    BY <2>1, Kinds DEF FullAgeOf
<1>4. SimpleAge(f, id, Infinity) \in 1..Infinity
  BY <1>1, SimpleAgeIs
<1>5. SimpleAge(f, id, Infinity) <= s <=> Holds(f, id, s)
  BY <1>1, SimpleExact
<1>6. Matches(id, s, FALSE)[f] <=> Holds(f, id, s)
  BY MatchesWithout
<1>7. SimpleAge(f, id, Infinity) <= s => ValidAge(FullAge(id)[f])
  BY <1>1, <1>3, <1>4 DEF ValidAge, Valid
<1>8. FullAge(id)[f][1] = SimpleAge(f, id, Infinity)
  BY <1>3
<1> QED
  BY <1>5, <1>6, <1>7, <1>8

\* and a union of such filters.
LEMMA UnionBegins ==
  ASSUME IndexOK(db), NEW id \in DOMAIN db.file, NEW f \in Nodes, f[1] = "union",
         \A g \in f[2] : Begins(g, id) /\ Lists[g] # {}
  PROVE  Begins(f, id)
<1>1. Len(db.file) \in Nat /\ DOMAIN db.file = 1..Len(db.file) /\ Infinity = Len(db.file) + 1
  BY Tables
<1> DEFINE ages == {FullAge(id)[g] : g \in f[2]}
           a == FullAge(id)[f]
<1>2. f[2] \subseteq Nodes /\ Subfilters(f) = f[2]
  BY Kinds
<1>3. ages \subseteq FullAges
  BY <1>2, FullAgeIs
<1>4. a = UnionFullAge(ages)
  <2>1. FullAge(id)[f] = FullAgeOf(id, f, FullAge(id))
    BY FullAgeIs
  <2> QED
    BY <1>2, <2>1 DEF FullAgeOf
<1>5. /\ a \in FullAges
      /\ Valid(a[1]) => a[1] \in Mins(ages)
      /\ \A x \in Mins(ages) : a[1] <= x
      /\ Mins(ages) # {} => ValidAge(a)
  <2> HIDE DEF ages, a
  <2> QED
    BY <1>3, <1>4, UnionFullAgeIs
<1>6. \A x \in Mins(ages) : \E g \in f[2] : x = FullAge(id)[g][1] /\ ValidAge(FullAge(id)[g])
  <2>1. \A x \in Mins(ages) : \E b \in ages : x = b[1] /\ ValidAge(b)
    <3> HIDE DEF ages
    <3> QED
      BY <1>3, MinsMaxs
  <2> QED
    BY <2>1
<1>7. \A g \in f[2] : ValidAge(FullAge(id)[g]) => FullAge(id)[g][1] \in Mins(ages)
  BY DEF Mins
<1>8. \A x \in Mins(ages) : x \in Nat
  <2> HIDE DEF ages
  <2> QED
    BY <1>1, <1>3, MinsMaxs
<1>9. a[1] \in Nat
  BY <1>1, <1>5 DEF FullAges
<1>10. SUFFICES ASSUME NEW s \in DOMAIN db.file
                PROVE  ValidAge(a) /\ a[1] <= s <=> Matches(id, s, FALSE)[f]
  BY DEF Begins
<1>11. Matches(id, s, FALSE)[f] <=> \E g \in f[2] : Matches(id, s, FALSE)[g]
  <2>1. Matches(id, s, FALSE)[f] <=> \E g \in f[2] : Lists[g] # {} /\ Matches(id, s, FALSE)[g]
    BY MatchesWithout
  <2> QED
    BY <2>1
<1>12. \A g \in f[2] : ValidAge(FullAge(id)[g]) /\ FullAge(id)[g][1] <= s <=> Matches(id, s, FALSE)[g]
  BY DEF Begins
<1> HIDE DEF ages, a
<1>13. ASSUME ValidAge(a), a[1] <= s PROVE Matches(id, s, FALSE)[f]
  <2>1. a[1] \in Mins(ages)
    BY <1>5, <1>13 DEF ValidAge
  <2>2. PICK g \in f[2] : a[1] = FullAge(id)[g][1] /\ ValidAge(FullAge(id)[g])
    BY <1>6, <2>1
  <2>3. FullAge(id)[g][1] <= s
    BY <1>13, <2>2
  <2>4. Matches(id, s, FALSE)[g]
    BY <1>12, <2>2, <2>3
  <2> QED
    BY <1>11, <2>4
<1>14. ASSUME Matches(id, s, FALSE)[f] PROVE ValidAge(a) /\ a[1] <= s
  <2>1. PICK g \in f[2] : Matches(id, s, FALSE)[g]
    BY <1>11, <1>14
  <2>2. ValidAge(FullAge(id)[g]) /\ FullAge(id)[g][1] <= s
    BY <1>12, <2>1
  <2>3. FullAge(id)[g][1] \in Mins(ages)
    BY <1>7, <2>2
  <2>4. a[1] <= FullAge(id)[g][1] /\ FullAge(id)[g][1] \in Nat /\ s \in Nat /\ ValidAge(a)
    BY <1>1, <1>5, <1>8, <2>3
  <2> QED
    BY <1>9, <2>2, <2>4
<1> QED
  BY <1>13, <1>14

\* Of a result under a flat query the full age begins with its sort ID: an
\* intersection begins with the last of its filters if all of them begin.
LEMMA FlatBegins ==
  ASSUME IndexOK(db), QueryOK, Flat, NEW r \in Results
  PROVE  ValidAge(FullAge(r[2])[query]) /\ FullAge(r[2])[query][1] = r[1]
<1> DEFINE id == r[2]
           a == FullAge(id)[query]
<1>1. Len(db.file) \in Nat /\ DOMAIN db.file = 1..Len(db.file) /\ Infinity = Len(db.file) + 1
  BY Tables
<1>2. Lists[query] # {}
  BY FlatFree, NegationFree DEF QueryOK
<1>3. /\ r[1] \in DOMAIN db.file /\ id \in DOMAIN db.file
      /\ Matches(id, r[1], FALSE)[query] /\ ~Matches(id, r[1] - 1, FALSE)[query]
      /\ MetaOnly(query, id)
  BY <1>2, ResultsAre
<1>4. a \in FullAges
  BY <1>3, FullAgeIs DEF QueryOK
<1>5. SUFFICES /\ ValidAge(a) /\ a[1] <= r[1]
               /\ \A s \in DOMAIN db.file : ValidAge(a) /\ a[1] <= s => Matches(id, s, FALSE)[query]
  <2>1. a[1] \in DOMAIN db.file
    BY <1>1, <1>4, <1>5 DEF FullAges, ValidAge, Valid
  <2>2. a[1] <= r[1] /\ a[1] \in Nat /\ r[1] \in Nat
    BY <1>1, <1>3, <1>5, <2>1
  <2>3. ~(a[1] < r[1])
    <3>1. SUFFICES ASSUME a[1] < r[1] PROVE FALSE
      OBVIOUS
    <3>2. r[1] - 1 \in DOMAIN db.file /\ a[1] <= r[1] - 1
      <4> HIDE DEF a
      <4> QED
        BY <1>1, <1>3, <2>1, <2>2, <3>1
    <3> QED
      BY <1>3, <1>5, <3>2
  <2>4. a[1] = r[1]
    <3> HIDE DEF a
    <3> QED
      BY <2>2, <2>3
  <2> QED
    BY <1>5, <2>4
<1>6. CASE query \in Simple
  <2>1. Begins(query, id)
    BY <1>3, <1>6, SimpleBegins DEF QueryOK
  <2> QED
    BY <1>3, <2>1 DEF Begins
<1>7. CASE query[1] = "intersection" /\ \A u \in query[2] : u[1] = "union" /\ u[2] \subseteq Simple
  <2> DEFINE ages == {FullAge(id)[g] : g \in query[2]}
  <2>1. query[2] \subseteq Nodes /\ Subfilters(query) = query[2] /\ query[2] # {} /\ query \in Nodes
    BY <1>7, Kinds DEF QueryOK
  <2>2. ASSUME NEW u \in query[2] PROVE Begins(u, id) /\ Lists[u] # {}
    <3>1. u[1] = "union" /\ u[2] \subseteq Simple /\ u \in Nodes
      BY <1>7, <2>1
    <3>2. Subfilters(u) = u[2] /\ u[2] \subseteq Nodes /\ u[2] # {}
      BY <3>1, Kinds
    <3>3. ASSUME NEW g \in u[2] PROVE Begins(g, id) /\ Lists[g] # {}
      <4>1. g \in Simple /\ g \in Nodes /\ MetaOnly(g, id)
        BY <3>1, <3>2, PartsNotMeta
      <4>2. Begins(g, id)
        BY <1>3, <4>1, SimpleBegins
      <4> QED
        BY <4>1, <4>2, ListsSome
    <3>4. Begins(u, id)
      BY <1>3, <3>1, <3>3, UnionBegins
    <3>5. Lists[u] # {}
      BY <3>1, <3>2, <3>3, ListsSome
    <3> QED
      BY <3>4, <3>5
  <2>3. ages \subseteq FullAges
    BY <1>3, <2>1, FullAgeIs
  <2>4. a = IntersectionFullAge(ages)
    <3>1. FullAge(id)[query] = FullAgeOf(id, query, FullAge(id))
      BY <1>3, <2>1, FullAgeIs
    <3> QED
      BY <1>7, <2>1, <3>1 DEF FullAgeOf
  <2>5. /\ Valid(a[1]) => a[1] \in Mins(ages)
        /\ \A x \in Mins(ages) : x <= a[1]
        /\ Mins(ages) # {} => ValidAge(a)
    <3> HIDE DEF ages, a
    <3> QED
      BY <2>3, <2>4, IntersectionFullAgeIs
  <2>6. \A s \in DOMAIN db.file :
           Matches(id, s, FALSE)[query] <=> \A g \in query[2] : Matches(id, s, FALSE)[g]
    <3>1. ASSUME NEW s \in DOMAIN db.file
          PROVE  Matches(id, s, FALSE)[query] <=> \A g \in query[2] : Matches(id, s, FALSE)[g]
      <4>1. query[1] = "intersection" =>
               (Matches(id, s, FALSE)[query] <=>
                   \A g \in query[2] : Lists[g] = {} \/ Matches(id, s, FALSE)[g])
        BY <2>1, MatchesWithout
      <4> QED
        BY <1>7, <2>2, <4>1
    <3> QED
      BY <3>1
  <2>7. ASSUME NEW g \in query[2], NEW s \in DOMAIN db.file
        PROVE  ValidAge(FullAge(id)[g]) /\ FullAge(id)[g][1] <= s <=> Matches(id, s, FALSE)[g]
    BY <2>2 DEF Begins
  <2>8. \A g \in query[2] : ValidAge(FullAge(id)[g]) /\ FullAge(id)[g][1] <= r[1]
    BY <1>3, <2>6, <2>7
  <2>9. \A g \in query[2] : FullAge(id)[g][1] \in Mins(ages)
    BY <2>8 DEF Mins
  <2>10. \A x \in Mins(ages) : x \in Nat /\ x <= r[1]
    <3>1. \A x \in Mins(ages) : x \in 1..Len(db.file) /\ \E b \in ages : x = b[1] /\ ValidAge(b)
      <4> HIDE DEF ages
      <4> QED
        BY <2>3, MinsMaxs
    <3>2. \A b \in ages : b[1] <= r[1]
      BY <2>8
    <3> HIDE DEF ages
    <3> QED
      BY <1>1, <3>1, <3>2
  <2>11. ValidAge(a) /\ a[1] <= r[1] /\ a[1] \in Nat
    <3>1. Mins(ages) # {}
      BY <2>1, <2>9
    <3> HIDE DEF ages, a
    <3> QED
      BY <2>5, <2>10, <3>1 DEF ValidAge
  <2>12. ASSUME NEW s \in DOMAIN db.file, a[1] <= s PROVE Matches(id, s, FALSE)[query]
    <3>1. ASSUME NEW g \in query[2] PROVE FullAge(id)[g][1] <= s
      <4>1. FullAge(id)[g][1] <= a[1] /\ FullAge(id)[g][1] \in Nat
        BY <2>5, <2>9, <2>10
      <4> HIDE DEF a
      <4> QED
        BY <1>1, <2>11, <2>12, <4>1
    <3>2. \A g \in query[2] : Matches(id, s, FALSE)[g]
      BY <2>7, <2>8, <3>1
    <3> QED
      BY <2>6, <3>2
  <2> QED
    BY <2>11, <2>12
<1> QED
  BY <1>6, <1>7 DEF Flat

\* What is passed over is of a shared URI.
LEMMA PassedOverShared ==
  ASSUME IndexOK(db), QueryOK, NEW c \in Candidates, PassedOver(c)
  PROVE  Shared
<1>1. PICK f \in Lists[query] : c \in Listed(f)
  BY DEF Candidates
<1>2. PICK e \in Listed(f) : e[1] = c[1] /\ e[2] < c[2]
  BY <1>1 DEF PassedOver
<1>3. Indirect(f)
  BY <1>1 DEF PassedOver
<1>4. ASSUME NEW x \in Listed(f)
      PROVE  \E row \in db.meta : row[1] = x[1] /\ <<row[2], x[2]>> \in db.uri
  <2>1. PICK row \in db.meta : x \in {row[1]} \X FilesOf(row[2])
    BY <1>3 DEF Listed
  <2>2. x[1] = row[1] /\ x[2] \in FilesOf(row[2])
    BY <2>1
  <2>3. <<row[2], x[2]>> \in db.uri
    <3>1. PICK r \in db.uri : r[1] = row[2] /\ r[2] = x[2]
      BY <2>2 DEF FilesOf
    <3>2. r = <<r[1], r[2]>>
      BY DEF IndexOK, IndexType
    <3> QED
      BY <3>1, <3>2
  <2> QED
    BY <2>2, <2>3
<1>5. PICK m \in db.meta : m[1] = c[1] /\ <<m[2], c[2]>> \in db.uri
  BY <1>1, <1>4
<1>6. PICK k \in db.meta : k[1] = e[1] /\ <<k[2], e[2]>> \in db.uri
  BY <1>4
<1>7. k = m
  BY <1>2, <1>5, <1>6, Tables
<1>8. c[2] \in Nat /\ e[2] # c[2]
  <2>1. c \in Nat \X Nat
    BY CandidatesAre
  <2> QED
    BY <1>2, <2>1
<1> QED
  BY <1>5, <1>6, <1>7, <1>8 DEF Shared

\* From the invariant: a query starts where it was asked to.
LEMMA StartExactOK ==
  ASSUME ScanInv
  PROVE  StartExact
<1> DEFINE origin == {r \in Results : asked # NoURI /\ FilesOf(asked) = {r[2]}}
<1>1. SUFFICES ASSUME pc # "build", Flat, dir > 0 \/ ~Shared
               PROVE  /\ origin # {} => pc # "refused"
                      /\ \A o \in origin, i \in DOMAIN out : Ahead(dir, o, out[i])
                      /\ ((asked = NoURI \/ origin # {}) /\ (out # <<>> \/ pc = "done")) =>
                            \A r \in Results :
                               (\A o \in origin : Ahead(dir, o, r)) =>
                                   \E i \in DOMAIN out : ~Ahead(dir, r, out[i])
  BY DEF StartExact
<1>2. IndexOK(db) /\ QueryOK /\ PositionOK /\ FiltersOK /\ OutOK /\ NoneLost
  BY <1>1 DEF ScanInv
<1>3. Hits = Results /\ Lists[query] # {}
  BY <1>1, <1>2, FlatFree, HitsExact, NegationFree DEF QueryOK
<1>4. dir \in {1, -1} /\ Positions \subseteq Nat \X Nat
  BY <1>2, InvalidIs DEF QueryOK
<1>5. out \in Seq(Nat \X Nat) /\ DOMAIN out = 1..Len(out) /\ Len(out) \in Nat
  BY DEF ScanInv
<1>6. origin # {} => pc # "refused"
  <2>1. SUFFICES ASSUME NEW o \in origin, pc = "refused" PROVE FALSE
    OBVIOUS
  <2>2. ValidAge(FullAge(o[2])[query])
    BY <1>1, <1>2, FlatBegins
  <2> QED
    BY <1>2, <2>1, <2>2 DEF PositionOK
<1>7. ASSUME NEW o \in origin PROVE Base = o
  <2>1. Base = Current(Seeks(<<FullAge(o[2])[query][1], o[2]>>))
    BY BaseIs
  <2>2. FullAge(o[2])[query][1] = o[1]
    BY <1>1, <1>2, FlatBegins
  <2>3. o = <<o[1], o[2]>>
    BY <1>2, ResultsAre
  <2>4. o \in Candidates
    BY <1>3 DEF Hits
  <2>5. o \in Positions
    BY <1>2, <2>4, CandidatesAre
  <2>6. Current(Seeks(o)) = o
    BY <1>2, <2>4, <2>5, SeeksStand
  <2> QED
    BY <2>1, <2>2, <2>3, <2>6
<1>8. \A o \in origin, i \in DOMAIN out : Ahead(dir, o, out[i])
  BY <1>2, <1>7 DEF OutOK
<1>9. ASSUME asked = NoURI \/ origin # {}, out # <<>> \/ pc = "done",
             NEW r \in Results, \A o \in origin : Ahead(dir, o, r),
             \A i \in DOMAIN out : Ahead(dir, r, out[i])
      PROVE  FALSE
  <2>1. r \in Hits /\ r \in Candidates
    BY <1>3 DEF Hits
  <2>2. r \in Nat \X Nat /\ Ahead(dir, Invalid(-dir), r)
    BY <1>2, <2>1, CandidatesAre
  <2>3. Ahead(dir, Base, r)
    <3>1. CASE asked = NoURI
      BY <2>2, <3>1 DEF Base
    <3>2. CASE origin # {}
      <4>1. PICK o \in origin : TRUE
        BY <3>2
      <4> QED
        BY <1>7, <1>9, <4>1
    <3> QED
      BY <1>9, <3>1, <3>2
  <2>4. Past(r)
    <3>1. CASE pc = "done"
      BY <3>1 DEF Past
    <3>2. CASE pc # "done"
      <4>1. out # <<>> /\ Len(out) \in DOMAIN out
        BY <1>5, <1>9, <3>2
      <4>2. out[Len(out)] \in Nat \X Nat /\ Ahead(dir, r, out[Len(out)])
        <5>1. out[Len(out)] \in Nat \X Nat
          BY <1>5, <4>1
        <5> QED
          BY <1>9, <4>1, <5>1
      <4>3. CASE pc = "scan"
        <5>1. Current(at) \in Nat \X Nat
          BY <1>2, <1>4, <4>3, CurrentIs DEF FiltersOK, Stands
        <5>2. Ahead(dir, out[Len(out)], Current(at))
          BY <1>2, <4>1, <4>3 DEF FiltersOK
        <5>3. Ahead(dir, r, Current(at))
          BY <1>4, <2>2, <4>2, <5>1, <5>2, AheadIs
        <5> QED
          BY <4>3, <5>3 DEF Past
      <4>4. CASE pc = "prepare"
        <5>1. ~Ahead(dir, out[Len(out)], r)
          BY <1>4, <2>2, <4>2, AheadIs
        <5> QED
          BY <4>1, <4>4, <5>1 DEF Past
      <4>5. pc # "refused"
        BY <1>2, <4>1 DEF PositionOK
      <4> QED
        BY <1>1, <3>2, <4>3, <4>4, <4>5 DEF ScanInv
    <3> QED
      BY <3>1, <3>2
  <2>5. ~PassedOver(r)
    <3>1. SUFFICES ASSUME PassedOver(r) PROVE FALSE
      OBVIOUS
    <3>2. ~(dir > 0)
      BY <1>4, <3>1 DEF PassedOver
    <3>3. Shared
      BY <1>2, <2>1, <3>1, PassedOverShared
    <3> QED
      BY <1>1, <3>2, <3>3
  <2>6. Found(r)
    BY <1>2, <2>1, <2>3, <2>4, <2>5 DEF NoneLost
  <2>7. PICK i \in DOMAIN out : out[i] = r
    BY <2>6 DEF Found
  <2>8. Ahead(dir, r, r)
    BY <1>9, <2>7
  <2> QED
    BY <1>4, <2>2, <2>8, AheadIs
<1> HIDE DEF origin
<1> QED
  BY <1>6, <1>8, <1>9

\* StartExact, for every flat query: a start URI that is the URI of a result is not
\* refused, and the query goes on right behind that result.
THEOREM QueryStartExact == Spec => []StartExact
<1>1. ScanInv => StartExact
  BY StartExactOK
<1> QED
  BY <1>1, ScanInvariant, PTL

-----------------------------------------------------------------------------
(***************************************************************************)
(* What a stored document adds to the results: Subscription takes it for   *)
(* granted.                                                                *)
(***************************************************************************)
\* A file that a filter comes to match at a sort ID, and all of these: the results
\* of a filter.
Comes(f, id, s) == Matches(id, s, FALSE)[f] /\ ~Matches(id, s - 1, FALSE)[f]

Stored == DOMAIN db.file

ResultsOf(f) == {r \in Stored \X Stored : Comes(f, r[2], r[1])}

\* A member of A \X A is the pair of its two components, both of A.
LEMMA PairIs ==
  ASSUME NEW A, NEW r
  PROVE  r \in A \X A <=> r = <<r[1], r[2]>> /\ r[1] \in A /\ r[2] \in A
<1>1. ASSUME r \in A \X A PROVE r = <<r[1], r[2]>> /\ r[1] \in A /\ r[2] \in A
  BY <1>1
<1>2. ASSUME r = <<r[1], r[2]>>, r[1] \in A, r[2] \in A PROVE r \in A \X A
  <2>1. <<r[1], r[2]>> \in A \X A
    BY <1>2
  <2> QED
    BY <1>2, <2>1, Zenon
<1> QED
  BY <1>1, <1>2, Zenon

\* What is in ResultsOf(f): a file ID that f comes to match at a sort ID.
LEMMA ResultsOfIs ==
  ASSUME NEW f, NEW r
  PROVE  r \in ResultsOf(f) <=> /\ r = <<r[1], r[2]>>
                                /\ r[1] \in DOMAIN db.file /\ r[2] \in DOMAIN db.file
                                /\ Comes(f, r[2], r[1])
<1>1. r \in ResultsOf(f) <=> r \in Stored \X Stored /\ Comes(f, r[2], r[1])
  BY Zenon DEF ResultsOf
<1>2. r \in Stored \X Stored <=> r = <<r[1], r[2]>> /\ r[1] \in Stored /\ r[2] \in Stored
  BY PairIs
<1>3. Stored = DOMAIN db.file
  BY DEF Stored
<1> QED
  BY <1>1, <1>2, <1>3, Zenon

\* The same of the next state.
LEMMA ResultsOfNext ==
  ASSUME NEW f, NEW r
  PROVE  r \in ResultsOf(f)' <=> /\ r = <<r[1], r[2]>>
                                 /\ r[1] \in DOMAIN db'.file /\ r[2] \in DOMAIN db'.file
                                 /\ Comes(f, r[2], r[1])'
<1>1. r \in ResultsOf(f)' <=> r \in Stored' \X Stored' /\ Comes(f, r[2], r[1])'
  BY Zenon DEF ResultsOf
<1>2. r \in Stored' \X Stored' <=> r = <<r[1], r[2]>> /\ r[1] \in Stored' /\ r[2] \in Stored'
  BY PairIs
<1>3. Stored' = DOMAIN db'.file
  BY DEF Stored
<1> QED
  BY <1>1, <1>2, <1>3, Zenon

\* Those of the query are its results.
LEMMA ResultsOfQuery ==
  ASSUME IndexOK(db), QueryOK, Lists[query] # {}
  PROVE  Results = ResultsOf(query)
<1>1. ASSUME NEW r \in Results PROVE r \in ResultsOf(query)
  <2>1. /\ r = <<r[1], r[2]>> /\ r[1] \in DOMAIN db.file /\ r[2] \in DOMAIN db.file
    BY ResultsAre
  <2>2. Matches(r[2], r[1], FALSE)[query] /\ ~Matches(r[2], r[1] - 1, FALSE)[query]
    BY ResultsAre
  <2>3. Comes(query, r[2], r[1])
    BY <2>2 DEF Comes
  <2> QED
    BY <2>1, <2>3, ResultsOfIs, Zenon
<1>2. ASSUME NEW r \in ResultsOf(query) PROVE r \in Results
  <2>1. /\ r = <<r[1], r[2]>> /\ r[1] \in DOMAIN db.file /\ r[2] \in DOMAIN db.file
        /\ Comes(query, r[2], r[1])
    BY ResultsOfIs, Zenon
  <2>2. Matches(r[2], r[1], FALSE)[query] /\ ~Matches(r[2], r[1] - 1, FALSE)[query]
    BY <2>1 DEF Comes
  <2> QED
    BY <2>1, <2>2, ResultsIn
<1> QED
  BY <1>1, <1>2

\* What filters mean, in a state and in the next.
Meaning ==
    \A f \in Nodes, id, s \in Nat :
        /\ f \in Simple => (Matches(id, s, FALSE)[f] <=> Holds(f, id, s))
        /\ f[1] = "negation" => ~Matches(id, s, FALSE)[f]
        /\ f[1] = "intersection" =>
              (Matches(id, s, FALSE)[f] <=> \A g \in f[2] : Lists[g] = {} \/ Matches(id, s, FALSE)[g])
        /\ f[1] = "union" =>
              (Matches(id, s, FALSE)[f] <=> \E g \in f[2] : Lists[g] # {} /\ Matches(id, s, FALSE)[g])

\* SLNFilterFullAge's answers (Matches) are the meaning of the filter: MatchesWithout as
\* one formula of the state, so that it can be primed.
LEMMA MeaningNow == Meaning
  BY MatchesWithout DEF Meaning

\* The same of the next state.
LEMMA MeaningNext == Meaning'
  BY MeaningNow, PTL

\* No file matches before its ID, unless it shares a URI.
Own ==
    IndexOK(db) /\ ~Shared =>
        \A f \in Nodes, id \in DOMAIN db.file, s \in Nat :
            Lists[f] # {} /\ Matches(id, s, FALSE)[f] => id <= s

\* Own holds of whatever tables: by parts, since a simple filter cannot.
LEMMA OwnNow == Own
<1>1. SUFFICES ASSUME IndexOK(db), ~Shared, NEW id \in DOMAIN db.file, NEW s \in Nat
               PROVE  \A f \in Nodes : Lists[f] # {} /\ Matches(id, s, FALSE)[f] => id <= s
  BY DEF Own
<1>2. Len(db.file) \in Nat /\ DOMAIN db.file = 1..Len(db.file)
  BY <1>1, Tables
<1> DEFINE P == {f \in Nodes : Lists[f] # {} /\ Matches(id, s, FALSE)[f] => id <= s}
<1>3. ASSUME NEW f \in Nodes, f \in Simple, Holds(f, id, s) PROVE id <= s
  <2>1. CASE ~Indirect(f)
    BY <1>3, <2>1 DEF Holds
  <2>2. CASE Indirect(f)
    <3>1. PICK row \in db.meta : row[1] <= s /\ <<row[2], id>> \in db.uri
      BY <1>3, <2>2 DEF Holds
    <3>2. PICK i \in DOMAIN db.file : Resolves(db, row[2], i) /\ i < row[1]
      BY <1>1 DEF IndexOK, TargetsOlder
    <3>3. <<row[2], i>> \in db.uri
      BY <3>2 DEF Resolves
    <3>4. i = id
      BY <1>1, <3>1, <3>3 DEF Shared
    <3>5. row[1] \in DOMAIN db.file
      BY <1>1, Tables
    <3> QED
      BY <1>2, <3>1, <3>2, <3>4, <3>5
  <2> QED
    BY <2>1, <2>2
<1>4. ASSUME NEW f \in Nodes, Subfilters(f) \subseteq P, Lists[f] # {}, Matches(id, s, FALSE)[f]
      PROVE  id <= s
  <2>1. CASE f \in Simple
    <3>1. Holds(f, id, s)
      BY <1>4, <2>1, MatchesWithout
    <3> QED
      BY <1>3, <2>1, <3>1
  <2>2. CASE f[1] = "negation"
    BY <1>4, <2>2, ListsSome
  <2>3. CASE f[1] \in {"intersection", "union"}
    <3>1. Subfilters(f) = f[2]
      BY <2>3, Kinds
    <3>2. \E g \in f[2] : Lists[g] # {}
      BY <1>4, <2>3, ListsSome
    <3>3. f[1] = "intersection" => \A g \in f[2] : Lists[g] = {} \/ Matches(id, s, FALSE)[g]
      BY <1>4, MatchesWithout
    <3>4. f[1] = "union" => \E g \in f[2] : Lists[g] # {} /\ Matches(id, s, FALSE)[g]
      BY <1>4, MatchesWithout
    <3>5. PICK g \in f[2] : Lists[g] # {} /\ Matches(id, s, FALSE)[g]
      BY <2>3, <3>2, <3>3, <3>4
    <3>6. g \in P
      BY <1>4, <3>1
    <3> QED
      BY <3>5, <3>6
  <2> QED
    BY <2>1, <2>2, <2>3, Kinds
<1>5. P = Nodes
  <2>1. P \subseteq Nodes /\ \A f \in Nodes : Subfilters(f) \subseteq P => f \in P
    BY <1>4
  <2> HIDE DEF P
  <2> QED
    BY <2>1, ByParts
<1> QED
  BY <1>5

\* The same of the next state.
LEMMA OwnNext == Own'
  BY OwnNow, PTL

\* The tables after more documents: old files keep their rows.
Grown ==
    /\ IndexOK(db) /\ IndexOK(db)'
    /\ DOMAIN db.file \subseteq DOMAIN db'.file
    /\ \A i \in DOMAIN db.file : db'.file[i] = db.file[i]

\* A stored document adds no row of an old file: of those files the URI rows are the same,
\* and the meta rows of old meta-files are the ones there were.
LEMMA GrownRows ==
  ASSUME Grown
  PROVE  /\ \A u : \A i \in DOMAIN db.file : <<u, i>> \in db'.uri <=> <<u, i>> \in db.uri
         /\ \A row : row \in db.meta <=> row \in db'.meta /\ row[1] \in DOMAIN db.file
<1>1. IndexOK(db) /\ IndexOK(db')
  BY DEF Grown, IndexOK, IndexType, DistinctFiles, URIsExact, MetasExact, TargetsOlder, FirstsExact,
         Metas, Resolves
<1>2. \A i \in DOMAIN db.file : i \in DOMAIN db'.file /\ db'.file[i] = db.file[i]
  BY DEF Grown
<1>3. \A u : \A i \in DOMAIN db.file : <<u, i>> \in db'.uri <=> <<u, i>> \in db.uri
  BY <1>1, <1>2 DEF IndexOK, URIsExact
<1>4. ASSUME NEW d, IndexOK(d), NEW row
      PROVE  row \in d.meta <=> /\ row = <<row[1], row[2]>> /\ row[1] \in DOMAIN d.file
                                /\ d.file[row[1]].type \in MetaTypes
                                /\ row[2] = TargetOf[d.file[row[1]].hash]
  <2>1. d.meta \in SUBSET ((Nat \ {0}) \X URIs)
    BY <1>4 DEF IndexOK, IndexType
  <2> QED
    BY <1>4, <2>1 DEF IndexOK, MetasExact
<1>5. ASSUME NEW row PROVE row \in db.meta <=> row \in db'.meta /\ row[1] \in DOMAIN db.file
  BY <1>1, <1>2, <1>4
<1> QED
  BY <1>3, <1>5

\* Up to an old sort ID a simple filter means the same of an old file as before.
LEMMA GrownHolds ==
  ASSUME Grown, NEW f \in Simple, NEW id \in DOMAIN db.file, NEW s \in 0..Len(db.file)
  PROVE  Holds(f, id, s)' <=> Holds(f, id, s)
<1>1. Len(db.file) \in Nat /\ DOMAIN db.file = 1..Len(db.file)
  BY Tables DEF Grown
<1>2. \A u : <<u, id>> \in db'.uri <=> <<u, id>> \in db.uri
  BY GrownRows
<1>3. \A row : row \in db.meta <=> row \in db'.meta /\ row[1] \in DOMAIN db.file
  BY GrownRows
<1>4. \A i \in DOMAIN db.file : i \in DOMAIN db'.file /\ db'.file[i] = db.file[i]
  BY DEF Grown
<1>5. \A row \in db'.meta : row[1] \in Nat /\ row[1] > 0
  <2>1. db'.meta \in SUBSET ((Nat \ {0}) \X URIs)
    BY DEF Grown, IndexOK, IndexType
  <2> QED
    BY <2>1
<1>6. CASE Indirect(f)
  <2>1. Holds(f, id, s) <=> \E row \in db.meta : row[1] <= s /\ <<row[2], id>> \in db.uri /\ Selects(f, row[1])
    BY <1>6 DEF Holds
  <2>2. Holds(f, id, s)' <=>
          \E row \in db'.meta : row[1] <= s /\ <<row[2], id>> \in db'.uri /\ Selects(f, row[1])'
    BY <1>6 DEF Holds, Indirect
  <2>3. ASSUME NEW m \in DOMAIN db.file PROVE Selects(f, m)' <=> Selects(f, m)
    BY <1>4 DEF Selects
  <2>4. \A row \in db'.meta : row[1] <= s => row \in db.meta /\ row[1] \in DOMAIN db.file
    <3>1. \A row \in db'.meta : row[1] <= s => row[1] \in DOMAIN db.file
      BY <1>1, <1>5
    <3> QED
      BY <1>3, <3>1
  <2>5. \A row \in db.meta : row \in db'.meta /\ row[1] \in DOMAIN db.file
    BY <1>3
  <2> QED
    BY <1>2, <2>1, <2>2, <2>3, <2>4, <2>5
<1>7. CASE ~Indirect(f)
  <2>1. f[1] \in {"all", "meta", "uri", "target"}
    BY <1>7 DEF Simple, Indirect
  <2>2. id \in Metas(db') <=> id \in Metas(db)
    BY <1>3 DEF Metas
  <2>3. id \in FilesOf(f[2])' <=> id \in FilesOf(f[2])
    <3>1. id \in FilesOf(f[2]) <=> \E r \in db.uri : r[1] = f[2] /\ r[2] = id
      BY DEF FilesOf
    <3>2. id \in FilesOf(f[2])' <=> \E r \in db'.uri : r[1] = f[2] /\ r[2] = id
      BY DEF FilesOf
    <3>3. db.uri \subseteq URIs \X (Nat \ {0}) /\ db'.uri \subseteq URIs \X (Nat \ {0})
      BY DEF Grown, IndexOK, IndexType
    <3>4. /\ (\E r \in db.uri : r[1] = f[2] /\ r[2] = id) <=> <<f[2], id>> \in db.uri
          /\ (\E r \in db'.uri : r[1] = f[2] /\ r[2] = id) <=> <<f[2], id>> \in db'.uri
      BY <3>3
    <3> QED
      BY <1>2, <3>1, <3>2, <3>4
  <2>4. id \in {row[1] : row \in {r \in db'.meta : r[2] = f[2]}}
          <=> id \in {row[1] : row \in {r \in db.meta : r[2] = f[2]}}
    BY <1>3
  <2>5. id \in Named(f)' <=> id \in Named(f)
    BY <1>4, <2>1, <2>2, <2>3, <2>4 DEF Named
  <2>6. Holds(f, id, s)' <=> id <= s /\ id \in Named(f)'
    BY <1>7 DEF Holds, Indirect
  <2> QED
    BY <1>7, <2>5, <2>6 DEF Holds
<1> QED
  BY <1>6, <1>7

\* And so does every filter: by parts, its subfilters first.
LEMMA GrownMatches ==
  ASSUME Grown, NEW id \in DOMAIN db.file, NEW s \in 0..Len(db.file)
  PROVE  \A f \in Nodes : Matches(id, s, FALSE)'[f] <=> Matches(id, s, FALSE)[f]
<1>1. s \in Nat /\ id \in Nat
  BY Tables DEF Grown
<1> DEFINE P == {f \in Nodes : Matches(id, s, FALSE)'[f] <=> Matches(id, s, FALSE)[f]}
<1>2. ASSUME NEW f \in Nodes, Subfilters(f) \subseteq P
      PROVE  Matches(id, s, FALSE)'[f] <=> Matches(id, s, FALSE)[f]
  <2>1. CASE f \in Simple
    <3>1. Matches(id, s, FALSE)'[f] <=> Holds(f, id, s)'
      BY <1>1, <2>1, MeaningNext DEF Meaning
    <3>2. Matches(id, s, FALSE)[f] <=> Holds(f, id, s)
      BY <1>1, <2>1, MeaningNow DEF Meaning
    <3>3. Holds(f, id, s)' <=> Holds(f, id, s)
      BY <2>1, GrownHolds
    <3> QED
      BY <3>1, <3>2, <3>3
  <2>2. CASE f[1] = "negation"
    <3>1. ~Matches(id, s, FALSE)'[f]
      BY <1>1, <2>2, MeaningNext DEF Meaning
    <3>2. ~Matches(id, s, FALSE)[f]
      BY <1>1, <2>2, MeaningNow DEF Meaning
    <3> QED
      BY <3>1, <3>2
  <2>3. CASE f[1] \in {"intersection", "union"}
    <3>1. \A g \in f[2] : Matches(id, s, FALSE)'[g] <=> Matches(id, s, FALSE)[g]
      BY <1>2, <2>3, Kinds
    <3>2. /\ f[1] = "intersection" =>
                (Matches(id, s, FALSE)'[f] <=> \A g \in f[2] : Lists[g] = {} \/ Matches(id, s, FALSE)'[g])
          /\ f[1] = "union" =>
                (Matches(id, s, FALSE)'[f] <=> \E g \in f[2] : Lists[g] # {} /\ Matches(id, s, FALSE)'[g])
      BY <1>1, MeaningNext DEF Meaning
    <3>3. /\ f[1] = "intersection" =>
                (Matches(id, s, FALSE)[f] <=> \A g \in f[2] : Lists[g] = {} \/ Matches(id, s, FALSE)[g])
          /\ f[1] = "union" =>
                (Matches(id, s, FALSE)[f] <=> \E g \in f[2] : Lists[g] # {} /\ Matches(id, s, FALSE)[g])
      BY <1>1, MeaningNow DEF Meaning
    <3> QED
      BY <2>3, <3>1, <3>2, <3>3
  <2> QED
    BY <2>1, <2>2, <2>3, Kinds
<1>3. P = Nodes
  <2>1. P \subseteq Nodes /\ \A f \in Nodes : Subfilters(f) \subseteq P => f \in P
    BY <1>2
  <2> HIDE DEF P
  <2> QED
    BY <2>1, ByParts
<1> QED
  BY <1>3

\* So an old file comes to match at the old sort IDs it came to match at.
LEMMA GrownComes ==
  ASSUME Grown, NEW id \in DOMAIN db.file, NEW s \in DOMAIN db.file, NEW f \in Nodes
  PROVE  Comes(f, id, s)' <=> Comes(f, id, s)
<1>1. s \in 0..Len(db.file) /\ s - 1 \in 0..Len(db.file)
  BY Tables DEF Grown
<1>2. Matches(id, s, FALSE)'[f] <=> Matches(id, s, FALSE)[f]
  BY <1>1, GrownMatches
<1>3. \A t \in 0..Len(db.file) : Matches(id, t, FALSE)'[f] <=> Matches(id, t, FALSE)[f]
  BY GrownMatches
<1>4. Matches(id, s - 1, FALSE)'[f] <=> Matches(id, s - 1, FALSE)[f]
  BY <1>1, <1>3
<1> QED
  BY <1>2, <1>4 DEF Comes

\* What Subscription takes for granted of a query: in a snapshot it has those of its
\* results whose sort ID is a file's of the snapshot, and each at its own ID or later.
ResultsAppended ==
    ~Shared' => \A f \in Queries : Negations[f] = {} =>
        /\ ResultsOf(f) = {r \in ResultsOf(f)' : r[1] <= Len(db.file)}
        /\ \A r \in ResultsOf(f)' : r[2] <= r[1]

\* More documents append results: no old result goes, and no new one is at an old sort ID.
LEMMA GrownResults ==
  ASSUME Grown
  PROVE  ResultsAppended
<1>1. SUFFICES ASSUME ~Shared', NEW f \in Queries, Negations[f] = {}
               PROVE  /\ ResultsOf(f) = {r \in ResultsOf(f)' : r[1] <= Len(db.file)}
                      /\ \A r \in ResultsOf(f)' : r[2] <= r[1]
  BY DEF ResultsAppended
<1>2. f \in Nodes /\ Lists[f] # {}
  BY <1>1, FilterAssumption, NegationFree
<1>3. Len(db.file) \in Nat /\ DOMAIN db.file = 1..Len(db.file)
  BY Tables DEF Grown
<1>4. Len(db'.file) \in Nat /\ DOMAIN db'.file = 1..Len(db'.file) /\ Len(db.file) <= Len(db'.file)
  <2>1. db'.file \in Seq([hash : Hashes, type : Types])
    BY DEF Grown, IndexOK, IndexType
  <2>2. Len(db'.file) \in Nat /\ DOMAIN db'.file = 1..Len(db'.file)
    BY <2>1
  <2>3. DOMAIN db.file \subseteq DOMAIN db'.file
    BY DEF Grown
  <2>4. Len(db.file) = 0 \/ Len(db.file) \in DOMAIN db'.file
    BY <1>3, <2>3
  <2> QED
    BY <1>3, <2>2, <2>4
<1>5. \A r \in ResultsOf(f)' :
         /\ r = <<r[1], r[2]>> /\ r[1] \in DOMAIN db'.file /\ r[2] \in DOMAIN db'.file
         /\ Comes(f, r[2], r[1])'
  BY ResultsOfNext, Zenon
<1>6. ASSUME NEW r \in ResultsOf(f)' PROVE r[2] <= r[1]
  <2>1. r[1] \in Nat /\ r[2] \in DOMAIN db'.file /\ Comes(f, r[2], r[1])'
    BY <1>4, <1>5
  <2>2. Matches(r[2], r[1], FALSE)'[f]
    BY <2>1 DEF Comes
  <2> QED
    BY <1>1, <1>2, <2>1, <2>2, OwnNext DEF Own, Grown
<1>7. ASSUME NEW r \in ResultsOf(f)', r[1] <= Len(db.file) PROVE r \in ResultsOf(f)
  <2>1. r[1] \in DOMAIN db.file /\ r[2] \in DOMAIN db.file
    <3>1. r[1] \in Nat /\ r[2] \in Nat /\ r[1] > 0 /\ r[2] > 0 /\ r[2] <= r[1]
      BY <1>4, <1>5, <1>6
    <3> QED
      BY <1>3, <1>7, <3>1
  <2>2. r[1] \in 0..Len(db.file) /\ r[1] - 1 \in 0..Len(db.file)
    BY <1>3, <2>1
  <2>3. Comes(f, r[2], r[1])
    BY <1>2, <1>5, <2>1, <2>2, GrownComes
  <2> QED
    BY <1>5, <2>1, <2>3, ResultsOfIs, Zenon
<1>8. ASSUME NEW r \in ResultsOf(f) PROVE r \in ResultsOf(f)' /\ r[1] <= Len(db.file)
  <2>1. /\ r = <<r[1], r[2]>> /\ r[1] \in DOMAIN db.file /\ r[2] \in DOMAIN db.file
        /\ Comes(f, r[2], r[1])
    BY ResultsOfIs, Zenon
  <2>2. r[1] \in 0..Len(db.file) /\ r[1] - 1 \in 0..Len(db.file) /\ r[1] <= Len(db.file)
    BY <1>3, <2>1
  <2>3. Comes(f, r[2], r[1])'
    BY <1>2, <2>1, <2>2, GrownComes
  <2>4. r[1] \in DOMAIN db'.file /\ r[2] \in DOMAIN db'.file
    BY <2>1 DEF Grown
  <2>5. r \in ResultsOf(f)'
    BY <2>1, <2>3, <2>4, ResultsOfNext, Zenon
  <2> QED
    BY <2>1, <2>2, <2>5
<1> QED
  BY <1>6, <1>7, <1>8

\* ResultsAppended of every step: a document that is stored adds no result under an old sort
\* ID and takes none away, for a query with no negation and files that share no URI. It is
\* what makes it safe for a query that waits (SLNFilterWriteURIs, SLNFilterExt.c:245) to go on,
\* in a later snapshot, behind the last result it sent: see Subscription's Matches.
THEOREM ResultsAppendedAlways == Spec => [][ResultsAppended]_vars
<1>1. ASSUME ScanInv, ScanInv', [Next]_vars PROVE [ResultsAppended]_vars
  <2>1. IndexOK(db) /\ IndexOK(db)'
    BY <1>1 DEF ScanInv
  <2>2. DOMAIN db.file \subseteq DOMAIN db'.file /\ \A i \in DOMAIN db.file : db'.file[i] = db.file[i]
    <3>1. CASE db' = db
      BY <3>1
    <3>2. CASE \E doc \in Docs : Store(doc)
      <4>1. PICK doc \in Docs : Store(doc)
        BY <3>2
      <4>2. PICK id \in 1..(Len(db.file) + 1) : Stores(db, doc, id, db')
        BY <4>1 DEF Store
      <4>3. doc \in Documents
        BY FilterAssumption
      <4>4. /\ DOMAIN db'.file = DOMAIN db.file \cup {id}
            /\ \A i \in DOMAIN db.file : db'.file[i] = db.file[i]
        BY <2>1, <4>2, <4>3, StoresOK
      <4> QED
        BY <4>4
    <3>3. Scan => db' = db
      BY DEF Scan, FromURI, FromPosition, Skip, Take, Finish
    <3>4. (\E q \in Queries, r \in {1, -1}, u \in URIs \cup {NoURI} : Ask(q, r, u)) => db' = db
      BY DEF Ask
    <3> QED
      BY <1>1, <3>1, <3>2, <3>3, <3>4 DEF Next, vars
  <2>3. Grown
    BY <2>1, <2>2 DEF Grown
  <2> QED
    BY <2>3, GrownResults
<1> QED
  BY <1>1, ScanInvariant, PTL DEF Spec

=============================================================================
