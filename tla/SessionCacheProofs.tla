------------------------- MODULE SessionCacheProofs -------------------------
(***************************************************************************)
(* Sessions are counted, cached and answered right for any number of       *)
(* handlers, sessions, objects and slots.                                  *)
(***************************************************************************)
EXTENDS SessionCache, FiniteSetTheorems, SequenceTheorems, TLAPS

Rows == (Users \X Keys) \cup {NoCookie}

Objects == [refs : Nat, id : 0..MaxSessions, row : Rows]

Requests == [pc : {"idle", "load", "insert", "hold", "public", "login", "created"},
             cookie : ((1..MaxSessions) \X (Keys \cup {NoKey})) \cup {NoCookie},
             row : (Users \X (Keys \cup {NoKey})) \cup {NoCookie},
             obj : Objs \cup {NoObj}]

TypeOK ==
    /\ rows \in Seq(Users \X Keys) /\ Len(rows) <= MaxSessions
    /\ issued \subseteq (1..MaxSessions) \X Keys
    /\ heap \in [Objs -> Objects]
    /\ ids \in [Slots -> 0..MaxSessions]
    /\ sessions \in [Slots -> Objs \cup {NoObj}]
    /\ h \in [Handlers -> Requests]

\* The objects that the handlers point to.
Held == [r \in Handlers |-> h[r].obj]

\* How many of S a function maps to o.
Count(S, f, o) == Cardinality({x \in S : f[x] = o})

\* e is f but for the value b of a.
Changes(S, f, e, a, b) == e[a] = b /\ \A y \in S \ {a} : e[y] = f[y]

\* RefsExact, of any heap, slots and handlers.
Counts(m, s, g) == \A o \in Objs : m[o].refs = Count(Slots, s, o) + Count(Handlers, g, o)

\* SlotsTrue, of any heap and slots.
SlotsRight(m, i, s) ==
    \A x \in Slots : i[x] # 0 =>
        /\ SlotOf[i[x]] = x
        /\ i[x] \in DOMAIN rows
        /\ s[x] \in Objs
        /\ m[s[x]].id = i[x]
        /\ m[s[x]].row = rows[i[x]]

\* A cookie that was handed out is that of a row.
IssuedRight == \A c \in issued : c[1] \in DOMAIN rows /\ rows[c[1]][2] = c[2]

\* A cookie that a handler looks at was handed out here, or fits no row.
Presented(c) == c \in issued \/ (c[1] \in 1..MaxSessions /\ c[2] = NoKey)

\* What a handler knows at each place.
HandlerRight(r) ==
    /\ h[r].pc # "hold" => h[r].obj = NoObj
    /\ h[r].pc \in {"load", "insert"} => Presented(h[r].cookie)
    /\ h[r].pc \in {"insert", "created"} =>
          /\ h[r].cookie[1] \in DOMAIN rows
          /\ h[r].row = rows[h[r].cookie[1]]
    /\ h[r].pc = "login" => h[r].row[1] \in Users
    /\ h[r].pc = "created" => h[r].cookie[2] = h[r].row[2]
    /\ h[r].pc = "hold" =>
          /\ h[r].cookie \in issued
          /\ h[r].obj \in Objs
          /\ heap[h[r].obj].id = h[r].cookie[1]
          /\ heap[h[r].obj].row = rows[h[r].cookie[1]]
    /\ h[r].pc = "public" => h[r].cookie[2] = NoKey

\* The inductive invariant.
SInv ==
    /\ TypeOK
    /\ Counts(heap, sessions, Held)
    /\ SlotsRight(heap, ids, sessions)
    /\ IssuedRight
    /\ \A r \in Handlers : HandlerRight(r)

-----------------------------------------------------------------------------
(***************************************************************************)
(* Counting references.                                                    *)
(***************************************************************************)
\* How many arguments a function maps to a value is a number.
LEMMA CountType ==
  ASSUME NEW S, IsFiniteSet(S), NEW f, NEW o
  PROVE  Count(S, f, o) \in Nat
<1>1. IsFiniteSet({x \in S : f[x] = o})
  BY FS_Subset
<1> QED
  BY <1>1, FS_CardinalityType DEF Count

\* How many arguments a function maps to a value, after one of them changed.
LEMMA CountAfter ==
  ASSUME NEW S, IsFiniteSet(S), NEW f, NEW e, NEW a \in S, NEW b, Changes(S, f, e, a, b), NEW o
  PROVE  LET before == Count(S, f, o)
             after == Count(S, e, o)
         IN  /\ before \in Nat /\ after \in Nat
             /\ f[a] = o => before > 0
             /\ b = o => after > 0
             /\ f[a] = o /\ b # o => after = before - 1
             /\ f[a] # o /\ b = o => after = before + 1
             /\ (f[a] = o <=> b = o) => after = before
<1> DEFINE B == {x \in S : f[x] = o}
           A == {x \in S : e[x] = o}
<1>1. IsFiniteSet(B) /\ IsFiniteSet(A)
  <2>1. B \in SUBSET S /\ A \in SUBSET S
    OBVIOUS
  <2> HIDE DEF A, B
  <2> QED
    BY <2>1, FS_Subset
<1>2. f[a] = o <=> a \in B
  OBVIOUS
<1>3. A = IF b = o THEN B \cup {a} ELSE B \ {a}
  BY DEF Changes
<1> HIDE DEF A, B
<1>4. Cardinality(B) \in Nat /\ Cardinality(A) \in Nat
  BY <1>1, FS_CardinalityType
<1>5. Cardinality(B \cup {a}) = IF a \in B THEN Cardinality(B) ELSE Cardinality(B) + 1
  BY <1>1, FS_AddElement
<1>6. Cardinality(B \ {a}) = IF a \in B THEN Cardinality(B) - 1 ELSE Cardinality(B)
  BY <1>1, FS_RemoveElement
<1>7. a \in B => Cardinality(B) > 0
  BY <1>1, <1>4, FS_EmptySet
<1>8. b = o => Cardinality(A) > 0
  BY <1>1, <1>3, <1>4, FS_EmptySet
<1> QED
  BY <1>2, <1>3, <1>4, <1>5, <1>6, <1>7, <1>8 DEF A, B, Count

\* Slots and handlers are finitely many.
LEMMA Finite == IsFiniteSet(Slots) /\ IsFiniteSet(Handlers) /\ Slots \subseteq Int
<1>1. 0 \in Int /\ Size - 1 \in Int
  BY SessionAssumption
<1>2. IsFiniteSet(0..(Size - 1))
  BY <1>1, FS_Interval
<1> QED
  BY <1>1, <1>2, SessionAssumption DEF Slots

\* One more reference.
LEMMA RetainRight ==
  ASSUME NEW m \in [Objs -> Objects], NEW o \in Objs
  PROVE  /\ Retain(m, o) \in [Objs -> Objects]
         /\ \A p \in Objs : /\ Retain(m, o)[p].refs = IF p = o THEN m[p].refs + 1 ELSE m[p].refs
                           /\ Retain(m, o)[p].id = m[p].id
                           /\ Retain(m, o)[p].row = m[p].row
  BY DEF Retain, Objects

\* One reference less: what is still referred to keeps what it holds.
LEMMA ReleaseRight ==
  ASSUME NEW m \in [Objs -> Objects], NEW o \in Objs \cup {NoObj},
         o \in Objs => m[o].refs > 0
  PROVE  /\ Release(m, o) \in [Objs -> Objects]
         /\ \A p \in Objs :
               /\ Release(m, o)[p].refs = IF p = o THEN m[p].refs - 1 ELSE m[p].refs
               /\ Release(m, o)[p].refs > 0 => /\ Release(m, o)[p].id = m[p].id
                                              /\ Release(m, o)[p].row = m[p].row
<1>1. CASE o = NoObj
  BY <1>1, SessionAssumption DEF Release
<1>2. CASE o \in Objs
  <2>1. o # NoObj
    BY <1>2, SessionAssumption
  <2>2. m[o] \in Objects /\ m[o].refs \in Nat
    BY <1>2 DEF Objects
  <2>3. /\ Released(m[o]) \in Objects
        /\ Released(m[o]).refs = m[o].refs - 1
        /\ Released(m[o]).refs > 0 => /\ Released(m[o]).id = m[o].id
                                     /\ Released(m[o]).row = m[o].row
    <3>1. Free \in Objects /\ Free.refs = 0
      BY SessionAssumption DEF Free, Objects, Rows
    <3>2. m[o].refs # 1 => /\ [m[o] EXCEPT !.refs = @ - 1] \in Objects
                          /\ [m[o] EXCEPT !.refs = @ - 1].refs = m[o].refs - 1
                          /\ [m[o] EXCEPT !.refs = @ - 1].id = m[o].id
                          /\ [m[o] EXCEPT !.refs = @ - 1].row = m[o].row
      BY <1>2, <2>2 DEF Objects
    <3> QED
      BY <3>1, <3>2 DEF Released
  <2>4. Release(m, o) = [m EXCEPT ![o] = Released(m[o])]
    BY <2>1 DEF Release
  <2> QED
    BY <1>2, <2>3, <2>4
<1> QED
  BY <1>1, <1>2

\* A handler takes an object.
LEMMA TakeCounts ==
  ASSUME NEW m, NEW n, NEW s \in [Slots -> Objs \cup {NoObj}],
         NEW g \in [Handlers -> Objs \cup {NoObj}], Counts(m, s, g),
         NEW r \in Handlers, g[r] = NoObj, NEW o \in Objs,
         NEW e, Changes(Handlers, g, e, r, o),
         \A p \in Objs : n[p].refs = IF p = o THEN m[p].refs + 1 ELSE m[p].refs
  PROVE  Counts(n, s, e)
<1> SUFFICES ASSUME NEW p \in Objs
             PROVE  n[p].refs = Count(Slots, s, p) + Count(Handlers, e, p)
  BY DEF Counts
<1>1. m[p].refs = Count(Slots, s, p) + Count(Handlers, g, p)
  BY DEF Counts
<1>2. Count(Slots, s, p) \in Nat
  BY Finite, CountType
<1>3. g[r] # p
  BY SessionAssumption
<1> DEFINE before == Count(Handlers, g, p)
           after == Count(Handlers, e, p)
<1>4. /\ before \in Nat /\ after \in Nat
      /\ o = p => after = before + 1
      /\ o # p => after = before
  BY <1>3, Finite, CountAfter
<1> QED
  BY <1>1, <1>2, <1>4

\* A handler lets go of its object, if it has one.
LEMMA DropCounts ==
  ASSUME NEW m \in [Objs -> Objects], NEW s \in [Slots -> Objs \cup {NoObj}],
         NEW g \in [Handlers -> Objs \cup {NoObj}], Counts(m, s, g),
         NEW r \in Handlers, NEW e, Changes(Handlers, g, e, r, NoObj)
  PROVE  /\ g[r] \in Objs => m[g[r]].refs > 0
         /\ Counts(Release(m, g[r]), s, e)
<1> DEFINE slots(p) == Count(Slots, s, p)
           before(p) == Count(Handlers, g, p)
           after(p) == Count(Handlers, e, p)
<1>1. ASSUME NEW p \in Objs
      PROVE  /\ m[p].refs = slots(p) + before(p)
             /\ slots(p) \in Nat /\ before(p) \in Nat /\ after(p) \in Nat
             /\ p = g[r] => before(p) > 0 /\ after(p) = before(p) - 1
             /\ p # g[r] => after(p) = before(p)
  <2>1. m[p].refs = slots(p) + before(p)
    BY DEF Counts
  <2>2. slots(p) \in Nat
    BY Finite, CountType
  <2>3. NoObj # p
    BY SessionAssumption
  <2>4. /\ before(p) \in Nat /\ after(p) \in Nat
        /\ g[r] = p => before(p) > 0
        /\ g[r] = p /\ NoObj # p => after(p) = before(p) - 1
        /\ (g[r] = p <=> NoObj = p) => after(p) = before(p)
    BY Finite, CountAfter
  <2> QED
    BY <2>1, <2>2, <2>3, <2>4
<1> HIDE DEF slots, before, after
<1>2. g[r] \in Objs => m[g[r]].refs > 0
  BY <1>1
<1>3. \A p \in Objs : Release(m, g[r])[p].refs = IF p = g[r] THEN m[p].refs - 1 ELSE m[p].refs
  <2>1. g[r] \in Objs \cup {NoObj}
    OBVIOUS
  <2> QED
    BY <1>2, <2>1, ReleaseRight
<1>4. \A p \in Objs : Release(m, g[r])[p].refs = slots(p) + after(p)
  BY <1>1, <1>3
<1> QED
  BY <1>2, <1>4 DEF Counts, slots, after

\* A slot passes on from its session to another.
LEMMA PassOnCounts ==
  ASSUME NEW m \in [Objs -> Objects], NEW s \in [Slots -> Objs \cup {NoObj}],
         NEW g \in [Handlers -> Objs \cup {NoObj}], Counts(m, s, g),
         NEW x \in Slots, NEW o \in Objs, s[x] # o,
         NEW e, Changes(Slots, s, e, x, o)
  PROVE  /\ s[x] \in Objs => m[s[x]].refs > 0
         /\ Counts(Retain(Release(m, s[x]), o), e, g)
<1> DEFINE before(p) == Count(Slots, s, p)
           after(p) == Count(Slots, e, p)
           handlers(p) == Count(Handlers, g, p)
           n == Retain(Release(m, s[x]), o)
<1>1. ASSUME NEW p \in Objs
      PROVE  /\ m[p].refs = before(p) + handlers(p)
             /\ handlers(p) \in Nat /\ before(p) \in Nat /\ after(p) \in Nat
             /\ p = s[x] => before(p) > 0 /\ after(p) = before(p) - 1
             /\ p = o => after(p) = before(p) + 1
             /\ p # s[x] /\ p # o => after(p) = before(p)
  <2>1. m[p].refs = before(p) + handlers(p)
    BY DEF Counts
  <2>2. handlers(p) \in Nat
    BY Finite, CountType
  <2>3. /\ before(p) \in Nat /\ after(p) \in Nat
        /\ s[x] = p => before(p) > 0
        /\ s[x] = p /\ o # p => after(p) = before(p) - 1
        /\ s[x] # p /\ o = p => after(p) = before(p) + 1
        /\ (s[x] = p <=> o = p) => after(p) = before(p)
    BY Finite, CountAfter
  <2> QED
    BY <2>1, <2>2, <2>3
<1> HIDE DEF before, after, handlers
<1>2. s[x] \in Objs => m[s[x]].refs > 0
  BY <1>1
<1>3. \A p \in Objs : n[p].refs = IF p = s[x] THEN m[p].refs - 1
                                 ELSE IF p = o THEN m[p].refs + 1 ELSE m[p].refs
  <2>1. s[x] \in Objs \cup {NoObj}
    OBVIOUS
  <2>2. /\ Release(m, s[x]) \in [Objs -> Objects]
        /\ \A p \in Objs : Release(m, s[x])[p].refs = IF p = s[x] THEN m[p].refs - 1 ELSE m[p].refs
    BY <1>2, <2>1, ReleaseRight
  <2> QED
    BY <2>2, RetainRight
<1>4. \A p \in Objs : n[p].refs = after(p) + handlers(p)
  BY <1>1, <1>3
<1> QED
  BY <1>2, <1>4 DEF Counts, after, handlers

\* What a slot or a handler points to has a reference.
LEMMA Referenced ==
  ASSUME NEW m, NEW s, NEW g, Counts(m, s, g), NEW p \in Objs,
         (\E y \in Slots : s[y] = p) \/ (\E q \in Handlers : g[q] = p)
  PROVE  m[p].refs > 0
<1>1. m[p].refs = Count(Slots, s, p) + Count(Handlers, g, p)
  BY DEF Counts
<1>2. Count(Slots, s, p) \in Nat /\ Count(Handlers, g, p) \in Nat
  BY Finite, CountType
<1>3. CASE \E y \in Slots : s[y] = p
  <2>1. PICK y \in Slots : s[y] = p
    BY <1>3
  <2>2. Changes(Slots, s, s, y, p)
    BY <2>1 DEF Changes
  <2>3. Count(Slots, s, p) > 0
    BY <2>1, <2>2, Finite, CountAfter
  <2> QED
    BY <1>1, <1>2, <2>3
<1>4. CASE \E q \in Handlers : g[q] = p
  <2>1. PICK q \in Handlers : g[q] = p
    BY <1>4
  <2>2. Changes(Handlers, g, g, q, p)
    BY <2>1 DEF Changes
  <2>3. Count(Handlers, g, p) > 0
    BY <2>1, <2>2, Finite, CountAfter
  <2> QED
    BY <1>1, <1>2, <2>3
<1> QED
  BY <1>3, <1>4

-----------------------------------------------------------------------------
(***************************************************************************)
(* Caching a session that was loaded or created: the new object is the     *)
(* handler's, and the slot's unless the slot has the session already.      *)
(***************************************************************************)
LEMMA CachingRight ==
  ASSUME SInv, NEW r \in Handlers, h[r].obj = NoObj,
         NEW o \in Objs, heap[o].refs = 0, NEW id \in DOMAIN rows, SlotFor(id, o),
         NEW g \in [Handlers -> Objs \cup {NoObj}], Changes(Handlers, Held, g, r, o)
  PROVE  LET m == Cached(Created(o, id, rows[id]), o, SlotOf[id]) IN
         /\ m \in [Objs -> Objects]
         /\ ids' \in [Slots -> 0..MaxSessions]
         /\ sessions' \in [Slots -> Objs \cup {NoObj}]
         /\ Counts(m, sessions', g)
         /\ SlotsRight(m, ids', sessions')
         /\ m[o].id = id /\ m[o].row = rows[id]
         /\ \A q \in Handlers \ {r} : h[q].obj \in Objs =>
               /\ m[h[q].obj].id = heap[h[q].obj].id
               /\ m[h[q].obj].row = heap[h[q].obj].row
<1> DEFINE c == Created(o, id, rows[id])
           x == SlotOf[id]
           m == Cached(c, o, x)
<1>1. /\ rows \in Seq(Users \X Keys) /\ Len(rows) <= MaxSessions
      /\ heap \in [Objs -> Objects]
      /\ ids \in [Slots -> 0..MaxSessions]
      /\ sessions \in [Slots -> Objs \cup {NoObj}]
      /\ Held \in [Handlers -> Objs \cup {NoObj}]
  BY DEF SInv, TypeOK, Held, Requests
<1>2. id \in 1..MaxSessions /\ rows[id] \in Users \X Keys /\ x \in Slots
  BY <1>1, SessionAssumption DEF Slots
<1>3. /\ c \in [Objs -> Objects]
      /\ c[o].refs = 1 /\ c[o].id = id /\ c[o].row = rows[id]
      /\ \A p \in Objs \ {o} : c[p] = heap[p]
  BY <1>1, <1>2 DEF Created, Objects, Rows
<1>4. Counts(heap, sessions, Held) /\ SlotsRight(heap, ids, sessions)
  BY DEF SInv
<1>5. /\ \A y \in Slots : sessions[y] # o
      /\ \A q \in Handlers : Held[q] # o
  BY <1>4, Referenced
<1>6. Counts(c, sessions, g)
  <2>1. Held[r] = NoObj
    BY DEF Held
  <2>2. \A p \in Objs : c[p].refs = IF p = o THEN heap[p].refs + 1 ELSE heap[p].refs
    BY <1>3
  <2> HIDE DEF c
  <2> QED
    BY <1>1, <1>4, <2>1, <2>2, TakeCounts
<1>7. \A q \in Handlers \ {r} : h[q].obj = g[q]
  BY DEF Changes, Held
<1> HIDE DEF c, x
<1>8. CASE ids[x] = id
  <2>1. ids' = ids /\ sessions' = sessions
    BY <1>1, <1>2, <1>8 DEF SlotFor, x
  <2>2. m = c
    BY <1>3, <1>8 DEF Cached
  <2>3. SlotsRight(c, ids, sessions)
    BY <1>3, <1>4, <1>5 DEF SlotsRight
  <2>4. \A q \in Handlers \ {r} : h[q].obj # o
    BY <1>5 DEF Held
  <2> QED
    BY <1>1, <1>3, <1>6, <2>1, <2>2, <2>3, <2>4 DEF c, x
<1>9. CASE ids[x] # id
  <2> DEFINE l == Release(c, sessions[x])
  <2>1. /\ ids' = [ids EXCEPT ![x] = id]
        /\ sessions' = [sessions EXCEPT ![x] = o]
    BY <1>1, <1>2, <1>9 DEF SlotFor, x
  <2>2. m = Retain(l, o)
    BY <1>3, <1>9 DEF Cached
  <2>3. /\ ids' \in [Slots -> 0..MaxSessions]
        /\ sessions' \in [Slots -> Objs \cup {NoObj}]
        /\ Changes(Slots, sessions, sessions', x, o)
    BY <1>1, <1>2, <2>1 DEF Changes
  <2>4. /\ sessions[x] \in Objs => c[sessions[x]].refs > 0
        /\ Counts(m, sessions', g)
    BY <1>1, <1>2, <1>3, <1>5, <1>6, <2>2, <2>3, PassOnCounts
  <2>5. /\ l \in [Objs -> Objects]
        /\ \A p \in Objs :
              /\ l[p].refs = IF p = sessions[x] THEN c[p].refs - 1 ELSE c[p].refs
              /\ l[p].refs > 0 => l[p].id = c[p].id /\ l[p].row = c[p].row
    <3>1. sessions[x] \in Objs \cup {NoObj}
      BY <1>1, <1>2
    <3> QED
      BY <1>3, <2>4, <3>1, ReleaseRight
  <2> HIDE DEF l
  <2>6. /\ m \in [Objs -> Objects]
        /\ \A p \in Objs : /\ m[p].refs = IF p = o THEN l[p].refs + 1 ELSE l[p].refs
                          /\ m[p].id = l[p].id /\ m[p].row = l[p].row
    BY <2>2, <2>5, RetainRight
  <2>7. m[o].id = id /\ m[o].row = rows[id]
    BY <1>2, <1>3, <1>5, <2>5, <2>6
  <2>8. ASSUME NEW p \in Objs \ {o},
               (\E y \in Slots : sessions'[y] = p) \/ (\E q \in Handlers : g[q] = p)
        PROVE  m[p].id = heap[p].id /\ m[p].row = heap[p].row
    <3>1. m[p].refs > 0
      BY <2>4, <2>8, Referenced
    <3> QED
      BY <1>3, <2>5, <2>6, <3>1
  <2>9. SlotsRight(m, ids', sessions')
    <3> SUFFICES ASSUME NEW y \in Slots, ids'[y] # 0
                 PROVE  /\ SlotOf[ids'[y]] = y
                        /\ ids'[y] \in DOMAIN rows
                        /\ sessions'[y] \in Objs
                        /\ m[sessions'[y]].id = ids'[y]
                        /\ m[sessions'[y]].row = rows[ids'[y]]
      BY DEF SlotsRight
    <3>1. CASE y = x
      BY <1>1, <1>2, <2>1, <2>7, <3>1 DEF x
    <3>2. CASE y # x
      <4>1. ids'[y] = ids[y] /\ sessions'[y] = sessions[y]
        BY <1>1, <2>1, <3>2
      <4>2. /\ SlotOf[ids[y]] = y /\ ids[y] \in DOMAIN rows /\ sessions[y] \in Objs
            /\ heap[sessions[y]].id = ids[y] /\ heap[sessions[y]].row = rows[ids[y]]
        BY <1>4, <4>1 DEF SlotsRight
      <4>3. sessions[y] \in Objs \ {o}
        BY <1>5, <4>2
      <4> QED
        BY <2>8, <4>1, <4>2, <4>3
    <3> QED
      BY <3>1, <3>2
  <2>10. ASSUME NEW q \in Handlers \ {r}, h[q].obj \in Objs
         PROVE  m[h[q].obj].id = heap[h[q].obj].id /\ m[h[q].obj].row = heap[h[q].obj].row
    <3>1. h[q].obj \in Objs \ {o} /\ g[q] = h[q].obj
      BY <1>5, <1>7, <2>10 DEF Held
    <3> QED
      BY <2>8, <3>1
  <2> QED
    BY <2>3, <2>4, <2>6, <2>7, <2>9, <2>10 DEF c, x
<1> QED
  BY <1>8, <1>9

\* A handler lets go of its object: slots and other handlers notice nothing.
LEMMA LettingGo ==
  ASSUME NEW m \in [Objs -> Objects], NEW i, NEW s \in [Slots -> Objs \cup {NoObj}],
         NEW g \in [Handlers -> Objs \cup {NoObj}],
         Counts(m, s, g), SlotsRight(m, i, s),
         NEW r \in Handlers, NEW e, Changes(Handlers, g, e, r, NoObj)
  PROVE  LET l == Release(m, g[r]) IN
         /\ l \in [Objs -> Objects]
         /\ Counts(l, s, e)
         /\ SlotsRight(l, i, s)
         /\ \A q \in Handlers \ {r} : g[q] \in Objs => /\ l[g[q]].id = m[g[q]].id
                                                    /\ l[g[q]].row = m[g[q]].row
<1> DEFINE l == Release(m, g[r])
<1>1. Counts(l, s, e) /\ (g[r] \in Objs => m[g[r]].refs > 0)
  BY DropCounts
<1>2. /\ l \in [Objs -> Objects]
      /\ \A p \in Objs : l[p].refs > 0 => l[p].id = m[p].id /\ l[p].row = m[p].row
  <2>1. g[r] \in Objs \cup {NoObj}
    OBVIOUS
  <2> QED
    BY <1>1, <2>1, ReleaseRight
<1> HIDE DEF l
<1>3. ASSUME NEW p \in Objs, (\E y \in Slots : s[y] = p) \/ (\E q \in Handlers \ {r} : g[q] = p)
      PROVE  l[p].id = m[p].id /\ l[p].row = m[p].row
  <2>1. (\E y \in Slots : s[y] = p) \/ (\E q \in Handlers : e[q] = p)
    BY <1>3 DEF Changes
  <2>2. l[p].refs > 0
    BY <1>1, <2>1, Referenced
  <2> QED
    BY <1>2, <2>2
<1>4. SlotsRight(l, i, s)
  BY <1>3 DEF SlotsRight
<1>5. \A q \in Handlers \ {r} : g[q] \in Objs => /\ l[g[q]].id = m[g[q]].id
                                              /\ l[g[q]].row = m[g[q]].row
  BY <1>3
<1> QED
  BY <1>1, <1>2, <1>4, <1>5 DEF l

-----------------------------------------------------------------------------
(***************************************************************************)
(* One handler moves.                                                      *)
(***************************************************************************)
\* The others know what they knew, if what they hold stays what it is.
LEMMA OthersRight ==
  ASSUME SInv, NEW r \in Handlers, \A q \in Handlers \ {r} : h'[q] = h[q],
         issued \subseteq issued',
         \A i \in DOMAIN rows : i \in DOMAIN rows' /\ rows'[i] = rows[i],
         \A q \in Handlers \ {r} : h[q].obj \in Objs =>
            /\ heap'[h[q].obj].id = heap[h[q].obj].id
            /\ heap'[h[q].obj].row = heap[h[q].obj].row
  PROVE  \A q \in Handlers \ {r} : HandlerRight(q)'
<1> SUFFICES ASSUME NEW q \in Handlers \ {r} PROVE HandlerRight(q)'
  OBVIOUS
<1>1. HandlerRight(q) /\ IssuedRight
  BY DEF SInv
<1>2. h'[q] = h[q]
  OBVIOUS
<1>3. Presented(h[q].cookie) => Presented(h[q].cookie)'
  BY DEF Presented
<1>4. h[q].pc \in {"insert", "created"} =>
         /\ h[q].cookie[1] \in DOMAIN rows'
         /\ h[q].row = rows'[h[q].cookie[1]]
  BY <1>1 DEF HandlerRight
<1>5. h[q].pc = "hold" =>
         /\ h[q].cookie \in issued'
         /\ h[q].obj \in Objs
         /\ heap'[h[q].obj].id = h[q].cookie[1]
         /\ heap'[h[q].obj].row = rows'[h[q].cookie[1]]
  BY <1>1 DEF HandlerRight, IssuedRight
<1> QED
  BY <1>1, <1>2, <1>3, <1>4, <1>5 DEF HandlerRight, Presented

\* A step of a handler that touches neither the cache nor the database.
LEMMA HandlerStep ==
  ASSUME SInv, NEW r \in Handlers, h' \in [Handlers -> Requests],
         \A q \in Handlers \ {r} : h'[q] = h[q], h'[r].obj = h[r].obj,
         UNCHANGED <<rows, issued, heap, ids, sessions>>, HandlerRight(r)'
  PROVE  SInv'
<1>1. TypeOK'
  BY DEF SInv, TypeOK
<1>2. Held' = Held
  BY DEF Held
<1>3. Counts(heap, sessions, Held)' /\ SlotsRight(heap, ids, sessions)' /\ IssuedRight'
  BY <1>2 DEF SInv, Counts, SlotsRight, IssuedRight
<1>4. \A q \in Handlers \ {r} : HandlerRight(q)'
  BY OthersRight
<1> QED
  BY <1>1, <1>3, <1>4 DEF SInv

\* What TypeOK says, for the steps below.
LEMMA Typed ==
  ASSUME SInv
  PROVE  /\ rows \in Seq(Users \X Keys) /\ Len(rows) \in Nat /\ Len(rows) <= MaxSessions
         /\ DOMAIN rows = 1..Len(rows)
         /\ \A i \in DOMAIN rows : i \in 1..MaxSessions /\ rows[i] \in Users \X Keys
         /\ issued \subseteq (1..MaxSessions) \X Keys
         /\ heap \in [Objs -> Objects]
         /\ ids \in [Slots -> 0..MaxSessions]
         /\ sessions \in [Slots -> Objs \cup {NoObj}]
         /\ h \in [Handlers -> Requests]
         /\ Held \in [Handlers -> Objs \cup {NoObj}]
         /\ Counts(heap, sessions, Held) /\ SlotsRight(heap, ids, sessions) /\ IssuedRight
         /\ \A q \in Handlers : HandlerRight(q) /\ Held[q] = h[q].obj
<1>1. Held \in [Handlers -> Objs \cup {NoObj}]
  BY DEF SInv, TypeOK, Held, Requests
<1>2. \A q \in Handlers : Held[q] = h[q].obj
  BY DEF Held
<1>3. MaxSessions \in Nat
  BY SessionAssumption
<1> QED
  BY <1>1, <1>2, <1>3 DEF SInv, TypeOK

\* What a step that changes one handler's object makes of Held.
LEMMA HeldAfter ==
  ASSUME h \in [Handlers -> Requests], NEW r \in Handlers, NEW k \in Requests,
         h' = [h EXCEPT ![r] = k]
  PROVE  /\ h' \in [Handlers -> Requests] /\ h'[r] = k
         /\ \A q \in Handlers \ {r} : h'[q] = h[q]
         /\ Held' \in [Handlers -> Objs \cup {NoObj}]
         /\ Changes(Handlers, Held, Held', r, k.obj)
<1>1. h' \in [Handlers -> Requests] /\ h'[r] = k /\ \A q \in Handlers \ {r} : h'[q] = h[q]
  OBVIOUS
<1>2. Held' \in [Handlers -> Objs \cup {NoObj}]
  BY <1>1 DEF Held, Requests
<1> QED
  BY <1>1, <1>2 DEF Held, Changes

\* Nothing is cached and nobody is served when the process starts.
LEMMA InitSInv == Init => SInv
<1> SUFFICES ASSUME Init PROVE SInv
  OBVIOUS
<1> USE SessionAssumption
<1>1. TypeOK
  BY DEF Init, TypeOK, Free, Objects, Rows, Idle, Requests, NoCookie
<1>2. Counts(heap, sessions, Held)
  <2> SUFFICES ASSUME NEW o \in Objs PROVE heap[o].refs = Count(Slots, sessions, o) + Count(Handlers, Held, o)
    BY DEF Counts
  <2>1. {x \in Slots : sessions[x] = o} = {} /\ {r \in Handlers : Held[r] = o} = {}
    BY DEF Init, Held, Idle
  <2>2. Count(Slots, sessions, o) = 0 /\ Count(Handlers, Held, o) = 0
    BY <2>1, FS_EmptySet DEF Count
  <2> QED
    BY <2>2 DEF Init, Free
<1>3. SlotsRight(heap, ids, sessions) /\ IssuedRight
  BY DEF Init, SlotsRight, IssuedRight
<1>4. \A r \in Handlers : HandlerRight(r)
  BY DEF Init, HandlerRight, Idle
<1> QED
  BY <1>1, <1>2, <1>3, <1>4 DEF SInv

\* A cookie that a request presents fits the record of its handler.
LEMMA CookieTyped ==
  ASSUME SInv, NEW c \in Cookies
  PROVE  Presented(c) /\ c \in (1..MaxSessions) \X (Keys \cup {NoKey})
  BY Typed DEF Cookies, Presented

\* A cached session is taken, a bad key is turned away, a miss goes on to the
\* database.
LEMMA LookupSInv == ASSUME SInv, NEW r \in Handlers, NEW c \in Cookies, Lookup(r, c) PROVE SInv'
<1> USE SessionAssumption
<1>1. Presented(c) /\ c \in (1..MaxSessions) \X (Keys \cup {NoKey})
  BY CookieTyped
<1>2. h[r].pc = "idle" /\ h[r].obj = NoObj /\ UNCHANGED <<rows, issued, ids, sessions>>
  BY Typed DEF Lookup, HandlerRight
<1>3. CASE \A x \in Slots : ~Found(c[1], x)
  <2> DEFINE k == [Idle EXCEPT !.pc = "load", !.cookie = c]
  <2>1. h' = [h EXCEPT ![r] = k] /\ heap' = heap
    BY <1>3 DEF Lookup
  <2>2. k \in Requests /\ k.obj = NoObj /\ k.pc = "load" /\ k.cookie = c
    BY <1>1 DEF Idle, Requests, NoCookie
  <2> HIDE DEF k
  <2>3. HandlerRight(r)'
    BY <1>1, <1>2, <2>1, <2>2, Typed DEF HandlerRight, Presented
  <2> QED
    BY <1>2, <2>1, <2>2, <2>3, Typed, HandlerStep
<1>4. ASSUME NEW x \in Slots, Found(c[1], x), ~KeyValid(heap[sessions[x]].row, c),
             h' = [h EXCEPT ![r] = [Idle EXCEPT !.pc = "public", !.cookie = c]], heap' = heap
      PROVE  SInv'
  <2> DEFINE k == [Idle EXCEPT !.pc = "public", !.cookie = c]
  <2>1. h' = [h EXCEPT ![r] = k] /\ heap' = heap
    BY <1>4
  <2>2. k \in Requests /\ k.obj = NoObj /\ k.pc = "public" /\ k.cookie = c
    BY <1>1 DEF Idle, Requests, NoCookie
  <2>3. ids[x] = c[1] /\ c[1] # 0
    BY <1>1, <1>4 DEF Found
  <2>4. c[1] \in DOMAIN rows /\ heap[sessions[x]].row = rows[c[1]]
    BY <2>3, Typed DEF SlotsRight
  <2>5. c[2] = NoKey
    BY <1>1, <1>4, <2>4, Typed DEF KeyValid, Presented, IssuedRight
  <2> HIDE DEF k
  <2>6. HandlerRight(r)'
    BY <1>1, <1>2, <2>1, <2>2, <2>5, Typed DEF HandlerRight
  <2> QED
    BY <1>2, <2>1, <2>2, <2>6, Typed, HandlerStep
<1>5. ASSUME NEW x \in Slots, Found(c[1], x), KeyValid(heap[sessions[x]].row, c),
             heap' = Retain(heap, sessions[x]),
             h' = [h EXCEPT ![r] = [pc |-> "hold", cookie |-> c, row |-> NoCookie, obj |-> sessions[x]]]
      PROVE  SInv'
  <2> DEFINE o == sessions[x]
             k == [pc |-> "hold", cookie |-> c, row |-> NoCookie, obj |-> o]
  <2>1. ids[x] = c[1] /\ c[1] # 0
    BY <1>1, <1>5 DEF Found
  <2>2. /\ c[1] \in DOMAIN rows /\ o \in Objs
        /\ heap[o].id = c[1] /\ heap[o].row = rows[c[1]]
    BY <2>1, Typed DEF SlotsRight
  <2>3. c \in issued
    <3>1. rows[c[1]][2] \in Keys
      BY <2>2, Typed
    <3> QED
      BY <1>1, <1>5, <2>2, <3>1 DEF KeyValid, Presented
  <2>4. k \in Requests /\ k.obj = o
    BY <1>1, <2>2 DEF Requests
  <2> HIDE DEF o
  <2>5. /\ h' \in [Handlers -> Requests] /\ h'[r] = k
        /\ \A q \in Handlers \ {r} : h'[q] = h[q]
        /\ Held' \in [Handlers -> Objs \cup {NoObj}]
        /\ Changes(Handlers, Held, Held', r, o)
    BY <1>5, <2>4, Typed, HeldAfter DEF o
  <2>6. /\ heap' \in [Objs -> Objects]
        /\ \A p \in Objs : /\ heap'[p].refs = IF p = o THEN heap[p].refs + 1 ELSE heap[p].refs
                          /\ heap'[p].id = heap[p].id /\ heap'[p].row = heap[p].row
    <3>1. heap' = Retain(heap, o) /\ heap \in [Objs -> Objects]
      BY <1>5, Typed DEF o
    <3> QED
      BY <2>2, <3>1, RetainRight
  <2>7. Counts(heap, sessions, Held)'
    <3>1. /\ sessions \in [Slots -> Objs \cup {NoObj}]
          /\ Held \in [Handlers -> Objs \cup {NoObj}]
          /\ Counts(heap, sessions, Held) /\ Held[r] = NoObj
      BY <1>2, Typed
    <3>2. Counts(heap', sessions, Held')
      BY <2>2, <2>5, <2>6, <3>1, TakeCounts, SMTT(30)
    <3> QED
      BY <1>2, <3>2
  <2>8. SlotsRight(heap, ids, sessions)' /\ IssuedRight'
    BY <1>2, <2>6, Typed, ZenonT(30) DEF SlotsRight, IssuedRight
  <2>9. HandlerRight(r)'
    BY <1>2, <2>2, <2>3, <2>5, <2>6 DEF HandlerRight
  <2>10. \A q \in Handlers \ {r} : HandlerRight(q)'
    BY <1>2, <2>5, <2>6, OthersRight
  <2>11. TypeOK'
    BY <1>2, <2>5, <2>6, Typed DEF TypeOK
  <2> QED
    BY <2>7, <2>8, <2>9, <2>10, <2>11 DEF SInv
<1> QED
  BY <1>3, <1>4, <1>5 DEF Lookup

\* The row is there, or there is no such session.
LEMMA LoadSInv == ASSUME SInv, NEW r \in Handlers, Load(r) PROVE SInv'
<1> USE SessionAssumption
<1>1. /\ h[r].pc = "load" /\ h[r].obj = NoObj /\ h[r] \in Requests
      /\ Presented(h[r].cookie) /\ HandlerRight(r)
      /\ UNCHANGED <<rows, issued, heap, ids, sessions>>
  BY Typed DEF Load, HandlerRight
<1>2. CASE h[r].cookie[1] \in DOMAIN rows
  <2> DEFINE i == h[r].cookie[1]
             k == [h[r] EXCEPT !.pc = "insert", !.row = rows[i]]
  <2>1. h' = [h EXCEPT ![r] = k]
    BY <1>2, Typed DEF Load
  <2>2. /\ k \in Requests /\ k.obj = NoObj /\ k.pc = "insert"
        /\ k.cookie = h[r].cookie /\ k.row = rows[i]
    <3>1. rows[i] \in (Users \X (Keys \cup {NoKey})) \cup {NoCookie}
      BY <1>2, Typed
    <3> QED
      BY <1>1, <3>1 DEF Requests
  <2> HIDE DEF k
  <2>3. HandlerRight(r)'
    BY <1>1, <1>2, <2>1, <2>2, Typed DEF HandlerRight, Presented
  <2> QED
    BY <1>1, <2>1, <2>2, <2>3, Typed, HandlerStep
<1>3. CASE h[r].cookie[1] \notin DOMAIN rows
  <2> DEFINE k == [Idle EXCEPT !.pc = "public", !.cookie = h[r].cookie]
  <2>1. h' = [h EXCEPT ![r] = k]
    BY <1>3 DEF Load, Public
  <2>2. k \in Requests /\ k.obj = NoObj /\ k.pc = "public" /\ k.cookie = h[r].cookie
    BY <1>1 DEF Idle, Requests, NoCookie
  <2>3. h[r].cookie[2] = NoKey
    BY <1>1, <1>3, Typed DEF Presented, IssuedRight
  <2> HIDE DEF k
  <2>4. HandlerRight(r)'
    BY <1>1, <2>1, <2>2, <2>3, Typed DEF HandlerRight
  <2> QED
    BY <1>1, <2>1, <2>2, <2>4, Typed, HandlerStep
<1> QED
  BY <1>2, <1>3

\* A log-in looks up the user and touches no session (SLNSessionCacheCreateSession).
LEMMA LogInSInv == ASSUME SInv, NEW r \in Handlers, NEW u \in Users, LogIn(r, u) PROVE SInv'
<1> DEFINE k == [Idle EXCEPT !.pc = "login", !.row = <<u, NoKey>>]
<1>1. h' = [h EXCEPT ![r] = k] /\ UNCHANGED <<rows, issued, heap, ids, sessions>>
  BY DEF LogIn
<1>2. k \in Requests /\ k.obj = NoObj /\ k.pc = "login" /\ k.row = <<u, NoKey>>
  BY DEF Idle, Requests, NoCookie
<1>3. h[r].obj = NoObj
  BY Typed DEF LogIn, HandlerRight
<1> HIDE DEF k
<1>4. HandlerRight(r)'
  BY <1>1, <1>2, Typed DEF HandlerRight
<1> QED
  BY <1>1, <1>2, <1>3, <1>4, Typed, HandlerStep

\* A request that is refused holds nothing.
LEMMA FailsSInv == ASSUME SInv, NEW r \in Handlers, Fails(r) PROVE SInv'
<1>1. h' = [h EXCEPT ![r] = Idle] /\ UNCHANGED <<rows, issued, heap, ids, sessions>>
  BY DEF Fails
<1>2. Idle \in Requests /\ Idle.obj = NoObj /\ Idle.pc = "idle"
  BY DEF Idle, Requests, NoCookie
<1>3. h[r].obj = NoObj
  BY Typed DEF Fails, HandlerRight
<1>4. HandlerRight(r)'
  BY <1>1, <1>2, Typed DEF HandlerRight
<1> QED
  BY <1>1, <1>2, <1>3, <1>4, Typed, HandlerStep

\* A new row: those that were there stay what they are.
LEMMA CreateSessionSInv ==
  ASSUME SInv, NEW r \in Handlers, NEW k \in Keys, CreateSession(r, k) PROVE SInv'
<1> DEFINE row == <<h[r].row[1], k>>
           n == [pc |-> "created", cookie |-> <<Len(rows'), k>>, row |-> rows'[Len(rows')],
                 obj |-> NoObj]
<1>1. /\ h[r].pc = "login" /\ Len(rows) < MaxSessions /\ rows' = Append(rows, row)
      /\ h' = [h EXCEPT ![r] = n] /\ UNCHANGED <<issued, heap, ids, sessions>>
  BY DEF CreateSession
<1>2. h[r].obj = NoObj /\ row \in Users \X Keys
  BY <1>1, Typed DEF HandlerRight
<1>3. /\ rows' \in Seq(Users \X Keys)
      /\ Len(rows') = Len(rows) + 1 /\ Len(rows') \in DOMAIN rows'
      /\ rows'[Len(rows')] = row
      /\ \A i \in DOMAIN rows : i \in DOMAIN rows' /\ rows'[i] = rows[i]
  <2> HIDE DEF row
  <2>1. rows \in Seq(Users \X Keys) /\ Len(rows) \in Nat /\ DOMAIN rows = 1..Len(rows)
    BY Typed
  <2>2. /\ rows' \in Seq(Users \X Keys) /\ Len(rows') = Len(rows) + 1
        /\ \A i \in 1..Len(rows) : rows'[i] = rows[i]
        /\ rows'[Len(rows) + 1] = row
    BY <1>1, <1>2, <2>1, AppendProperties
  <2>3. DOMAIN rows' = 1..Len(rows')
    BY <2>2
  <2> QED
    BY <2>1, <2>2, <2>3
<1>4. Len(rows') \in 1..MaxSessions
  BY <1>1, <1>3, Typed, SessionAssumption
<1>5. n \in Requests
  BY <1>2, <1>3, <1>4 DEF Requests
<1>6. /\ h' \in [Handlers -> Requests] /\ h'[r] = n
      /\ \A q \in Handlers \ {r} : h'[q] = h[q]
      /\ Held' = Held
  <2>1. /\ h' \in [Handlers -> Requests] /\ h'[r] = n
        /\ \A q \in Handlers \ {r} : h'[q] = h[q]
    BY <1>1, <1>5, Typed
  <2> QED
    BY <1>2, <2>1 DEF Held
<1>7. TypeOK'
  BY <1>1, <1>3, <1>4, <1>6, Typed DEF TypeOK
<1>8. Counts(heap, sessions, Held)'
  BY <1>1, <1>6, Typed DEF Counts
<1>9. SlotsRight(heap, ids, sessions)'
  BY <1>1, <1>3, Typed DEF SlotsRight
<1>10. IssuedRight'
  BY <1>1, <1>3, Typed DEF IssuedRight
<1>11. HandlerRight(r)'
  BY <1>3, <1>6 DEF HandlerRight
<1>12. \A q \in Handlers \ {r} : HandlerRight(q)'
  BY <1>1, <1>3, <1>6, OthersRight
<1> QED
  BY <1>7, <1>8, <1>9, <1>10, <1>11, <1>12 DEF SInv

\* The request is answered: what it held may be freed, if nobody else has it.
LEMMA FinishSInv == ASSUME SInv, NEW r \in Handlers, Finish(r) PROVE SInv'
<1>1. /\ heap' = Release(heap, h[r].obj) /\ h' = [h EXCEPT ![r] = Idle]
      /\ UNCHANGED <<rows, issued, ids, sessions>>
  BY DEF Finish
<1>2. Idle \in Requests /\ Idle.obj = NoObj /\ Idle.pc = "idle"
  BY DEF Idle, Requests, NoCookie
<1>3. /\ h' \in [Handlers -> Requests] /\ h'[r] = Idle
      /\ \A q \in Handlers \ {r} : h'[q] = h[q]
      /\ Held' \in [Handlers -> Objs \cup {NoObj}]
      /\ Changes(Handlers, Held, Held', r, NoObj)
  BY <1>1, <1>2, Typed, HeldAfter
<1>4. /\ heap \in [Objs -> Objects] /\ sessions \in [Slots -> Objs \cup {NoObj}]
      /\ Held \in [Handlers -> Objs \cup {NoObj}]
      /\ Counts(heap, sessions, Held) /\ SlotsRight(heap, ids, sessions)
      /\ \A q \in Handlers : Held[q] = h[q].obj
  BY Typed
<1>5. /\ heap' \in [Objs -> Objects]
      /\ Counts(heap', sessions, Held')
      /\ SlotsRight(heap', ids, sessions)
      /\ \A q \in Handlers \ {r} : Held[q] \in Objs =>
            /\ heap'[Held[q]].id = heap[Held[q]].id
            /\ heap'[Held[q]].row = heap[Held[q]].row
  BY <1>1, <1>3, <1>4, LettingGo
<1>6. Counts(heap, sessions, Held)' /\ SlotsRight(heap, ids, sessions)' /\ IssuedRight'
  BY <1>1, <1>5, Typed DEF SlotsRight, IssuedRight
<1>7. \A q \in Handlers \ {r} : HandlerRight(q)'
  BY <1>1, <1>3, <1>4, <1>5, OthersRight
<1>8. HandlerRight(r)'
  BY <1>2, <1>3 DEF HandlerRight
<1>9. TypeOK'
  BY <1>1, <1>3, <1>5, Typed DEF TypeOK
<1> QED
  BY <1>6, <1>7, <1>8, <1>9 DEF SInv

\* The session is cached and the handler lets go of it at once.
LEMMA CachingLetsGo ==
  ASSUME SInv, NEW r \in Handlers, h[r].obj = NoObj,
         NEW o \in Objs, heap[o].refs = 0, NEW id \in DOMAIN rows, SlotFor(id, o),
         heap' = Release(Cached(Created(o, id, rows[id]), o, SlotOf[id]), o),
         NEW k \in Requests, k.obj = NoObj, h' = [h EXCEPT ![r] = k],
         rows' = rows, issued \subseteq issued',
         issued' \subseteq (1..MaxSessions) \X Keys, IssuedRight', HandlerRight(r)'
  PROVE  SInv'
<1> DEFINE m == Cached(Created(o, id, rows[id]), o, SlotOf[id])
           g == [Held EXCEPT ![r] = o]
<1>1. /\ h' \in [Handlers -> Requests] /\ h'[r] = k
      /\ \A q \in Handlers \ {r} : h'[q] = h[q]
      /\ Held' \in [Handlers -> Objs \cup {NoObj}]
      /\ Changes(Handlers, Held, Held', r, NoObj)
  <2>1. h \in [Handlers -> Requests]
    BY Typed
  <2> QED
    BY <2>1, HeldAfter
<1>2. /\ g \in [Handlers -> Objs \cup {NoObj}]
      /\ g[r] = o
      /\ Changes(Handlers, Held, g, r, o)
      /\ Changes(Handlers, g, Held', r, NoObj)
      /\ \A q \in Handlers \ {r} : g[q] = h[q].obj
  BY <1>1, Typed DEF Changes
<1> HIDE DEF g
<1>3. /\ m \in [Objs -> Objects]
      /\ ids' \in [Slots -> 0..MaxSessions]
      /\ sessions' \in [Slots -> Objs \cup {NoObj}]
      /\ Counts(m, sessions', g)
      /\ SlotsRight(m, ids', sessions')
      /\ \A q \in Handlers \ {r} : h[q].obj \in Objs =>
            /\ m[h[q].obj].id = heap[h[q].obj].id
            /\ m[h[q].obj].row = heap[h[q].obj].row
  BY <1>2, CachingRight
<1>4. heap' = Release(m, g[r])
  BY <1>2
<1> HIDE DEF m
<1>5. /\ heap' \in [Objs -> Objects]
      /\ Counts(heap', sessions', Held')
      /\ SlotsRight(heap', ids', sessions')
      /\ \A q \in Handlers \ {r} : g[q] \in Objs =>
            /\ heap'[g[q]].id = m[g[q]].id
            /\ heap'[g[q]].row = m[g[q]].row
  BY <1>1, <1>2, <1>3, <1>4, LettingGo
<1>6. \A q \in Handlers \ {r} : HandlerRight(q)'
  <2>1. \A q \in Handlers \ {r} : h[q].obj \in Objs =>
            /\ heap'[h[q].obj].id = heap[h[q].obj].id
            /\ heap'[h[q].obj].row = heap[h[q].obj].row
    BY <1>2, <1>3, <1>5
  <2> QED
    BY <1>1, <2>1, OthersRight
<1>7. SlotsRight(heap, ids, sessions)'
  BY <1>5 DEF SlotsRight
<1>8. TypeOK'
  BY <1>1, <1>3, <1>5, Typed DEF TypeOK
<1> QED
  BY <1>5, <1>6, <1>7, <1>8 DEF SInv

\* Another handler may have cached the same session, or another one in its slot.
LEMMA InsertSInv == ASSUME SInv, NEW r \in Handlers, Insert(r) PROVE SInv'
<1> USE SessionAssumption
<1> DEFINE id == h[r].cookie[1]
<1>1. /\ h[r].pc = "insert" /\ h[r].obj = NoObj /\ h[r] \in Requests
      /\ Presented(h[r].cookie)
      /\ id \in DOMAIN rows /\ h[r].row = rows[id]
      /\ UNCHANGED <<rows, issued>>
  BY Typed DEF Insert, HandlerRight
<1>2. PICK o \in Objs :
         /\ heap[o].refs = 0
         /\ SlotFor(id, o)
         /\ LET m == Cached(Created(o, id, rows[id]), o, SlotOf[id])
            IN IF KeyValid(rows[id], h[r].cookie)
               THEN heap' = m /\ h' = [h EXCEPT ![r].pc = "hold", ![r].obj = o]
               ELSE heap' = Release(m, o) /\ Public(r)
  BY <1>1 DEF Insert
<1> DEFINE m == Cached(Created(o, id, rows[id]), o, SlotOf[id])
<1>3. rows[id][2] \in Keys
  BY <1>1, Typed
<1>4. IssuedRight' /\ issued' \subseteq (1..MaxSessions) \X Keys
  BY <1>1, Typed DEF IssuedRight
<1>5. CASE KeyValid(rows[id], h[r].cookie)
  <2> DEFINE k == [h[r] EXCEPT !.pc = "hold", !.obj = o]
  <2>1. h[r].cookie \in issued
    BY <1>1, <1>3, <1>5 DEF KeyValid, Presented
  <2>2. k \in Requests /\ k.pc = "hold" /\ k.obj = o /\ k.cookie = h[r].cookie
    BY <1>1 DEF Requests
  <2>3. h' = [h EXCEPT ![r] = k] /\ heap' = m
    BY <1>2, <1>5, Typed
  <2> HIDE DEF k
  <2>4. /\ h' \in [Handlers -> Requests] /\ h'[r] = k
        /\ \A q \in Handlers \ {r} : h'[q] = h[q]
        /\ Held' \in [Handlers -> Objs \cup {NoObj}]
        /\ Changes(Handlers, Held, Held', r, o)
    BY <2>2, <2>3, Typed, HeldAfter
  <2>5. /\ m \in [Objs -> Objects]
        /\ ids' \in [Slots -> 0..MaxSessions]
        /\ sessions' \in [Slots -> Objs \cup {NoObj}]
        /\ Counts(m, sessions', Held')
        /\ SlotsRight(m, ids', sessions')
        /\ m[o].id = id /\ m[o].row = rows[id]
        /\ \A q \in Handlers \ {r} : h[q].obj \in Objs =>
              /\ m[h[q].obj].id = heap[h[q].obj].id
              /\ m[h[q].obj].row = heap[h[q].obj].row
    <3>1. h[r].obj = NoObj /\ heap[o].refs = 0 /\ id \in DOMAIN rows /\ SlotFor(id, o)
      BY <1>1, <1>2
    <3> HIDE DEF id
    <3> QED
      BY <2>4, <3>1, CachingRight
  <2> HIDE DEF m
  <2>6. HandlerRight(r)'
    BY <1>1, <2>1, <2>2, <2>3, <2>4, <2>5 DEF HandlerRight
  <2>7. \A q \in Handlers \ {r} : HandlerRight(q)'
    BY <1>1, <2>3, <2>4, <2>5, OthersRight
  <2>8. SlotsRight(heap, ids, sessions)' /\ Counts(heap, sessions, Held)'
    BY <1>1, <2>3, <2>5 DEF SlotsRight
  <2>9. TypeOK'
    BY <1>1, <2>3, <2>4, <2>5, Typed DEF TypeOK
  <2> QED
    BY <1>4, <2>6, <2>7, <2>8, <2>9 DEF SInv
<1>6. CASE ~KeyValid(rows[id], h[r].cookie)
  <2> DEFINE k == [Idle EXCEPT !.pc = "public", !.cookie = h[r].cookie]
  <2>1. h' = [h EXCEPT ![r] = k] /\ heap' = Release(m, o)
    BY <1>2, <1>6 DEF Public
  <2>2. k \in Requests /\ k.obj = NoObj /\ k.pc = "public" /\ k.cookie = h[r].cookie
    BY <1>1 DEF Idle, Requests, NoCookie
  <2>3. h[r].cookie[2] = NoKey
    BY <1>1, <1>6, Typed DEF Presented, IssuedRight, KeyValid
  <2> HIDE DEF k
  <2>4. HandlerRight(r)'
    BY <2>1, <2>2, <2>3, Typed DEF HandlerRight
  <2> QED
    BY <1>1, <1>2, <1>4, <2>1, <2>2, <2>4, CachingLetsGo
<1> QED
  BY <1>5, <1>6

\* The cookie that is handed out is that of the new row.
LEMMA HandOutSInv == ASSUME SInv, NEW r \in Handlers, HandOut(r) PROVE SInv'
<1> DEFINE id == h[r].cookie[1]
<1>1. /\ h[r].pc = "created" /\ h[r].obj = NoObj /\ h[r] \in Requests
      /\ id \in DOMAIN rows /\ h[r].row = rows[id] /\ h[r].cookie[2] = rows[id][2]
      /\ rows' = rows /\ issued' = issued \cup {h[r].cookie}
      /\ h' = [h EXCEPT ![r] = Idle]
  BY Typed DEF HandOut, HandlerRight
<1>2. PICK o \in Objs :
         /\ heap[o].refs = 0
         /\ SlotFor(id, o)
         /\ heap' = Release(Cached(Created(o, id, rows[id]), o, SlotOf[id]), o)
  BY <1>1 DEF HandOut
<1>3. Idle \in Requests /\ Idle.obj = NoObj /\ Idle.pc = "idle"
  BY DEF Idle, Requests, NoCookie
<1>4. h[r].cookie \in (1..MaxSessions) \X Keys
  <2>1. id \in 1..MaxSessions /\ rows[id][2] \in Keys
    BY <1>1, Typed
  <2>2. h[r].cookie \in ((1..MaxSessions) \X (Keys \cup {NoKey})) \cup {NoCookie}
    BY <1>1 DEF Requests
  <2>3. h[r].cookie # NoCookie
    BY <2>1 DEF NoCookie
  <2> QED
    BY <1>1, <2>1, <2>2, <2>3
<1>5. issued \subseteq issued' /\ issued' \subseteq (1..MaxSessions) \X Keys /\ IssuedRight'
  BY <1>1, <1>4, Typed DEF IssuedRight
<1>6. HandlerRight(r)'
  BY <1>1, <1>3, Typed DEF HandlerRight
<1> QED
  BY <1>1, <1>2, <1>3, <1>5, <1>6, CachingLetsGo

\* The cache and the handlers are gone; the rows and the cookies stay.
LEMMA CrashSInv == ASSUME SInv, Crash PROVE SInv'
<1> USE SessionAssumption
<1>1. TypeOK'
  BY Typed DEF Crash, TypeOK, Free, Objects, Rows, Idle, Requests, NoCookie
<1>2. Counts(heap, sessions, Held)'
  <2> SUFFICES ASSUME NEW o \in Objs
               PROVE  heap'[o].refs = Count(Slots, sessions', o) + Count(Handlers, Held', o)
    BY DEF Counts
  <2>1. {x \in Slots : sessions'[x] = o} = {} /\ {r \in Handlers : Held'[r] = o} = {}
    BY DEF Crash, Held, Idle
  <2>2. Count(Slots, sessions', o) = 0 /\ Count(Handlers, Held', o) = 0
    BY <2>1, FS_EmptySet DEF Count
  <2> QED
    BY <2>2 DEF Crash, Free
<1>3. SlotsRight(heap, ids, sessions)' /\ IssuedRight'
  BY Typed DEF Crash, SlotsRight, IssuedRight
<1>4. \A r \in Handlers : HandlerRight(r)'
  BY DEF Crash, HandlerRight, Idle
<1> QED
  BY <1>1, <1>2, <1>3, <1>4 DEF SInv

-----------------------------------------------------------------------------
(***************************************************************************)
(* The results.                                                            *)
(***************************************************************************)
\* Every step of every handler, and a crash, keeps the invariant.
LEMMA NextSInv == SInv /\ [Next]_vars => SInv'
<1> SUFFICES ASSUME SInv, [Next]_vars PROVE SInv'
  OBVIOUS
<1>1. ASSUME NEW r \in Handlers, NEW c \in Cookies, Lookup(r, c) PROVE SInv'
  BY <1>1, LookupSInv
<1>2. ASSUME NEW r \in Handlers,
             Load(r) \/ Insert(r) \/ Finish(r) \/ HandOut(r) \/ Fails(r)
      PROVE  SInv'
  BY <1>2, LoadSInv, InsertSInv, FinishSInv, HandOutSInv, FailsSInv
<1>3. ASSUME NEW r \in Handlers, NEW u \in Users, LogIn(r, u) PROVE SInv'
  BY <1>3, LogInSInv
<1>4. ASSUME NEW r \in Handlers, NEW k \in Keys, CreateSession(r, k) PROVE SInv'
  BY <1>4, CreateSessionSInv
<1>5. CASE Crash
  BY <1>5, CrashSInv
<1>6. CASE UNCHANGED vars
  BY <1>6 DEF vars, SInv, TypeOK, Counts, Held, SlotsRight, IssuedRight, HandlerRight, Presented
<1> QED
  BY <1>1, <1>2, <1>3, <1>4, <1>5, <1>6 DEF Next

\* The inductive invariant holds throughout, whatever handlers do to each other
\* where they enter and leave the database (SLNSessionCache.c).
THEOREM Invariance == Spec => []SInv
  BY InitSInv, NextSInv, PTL DEF Spec

\* An object counts exactly the slots and handlers that point to it
\* (SLNSessionRetain, SLNSessionRelease and session_cache).
THEOREM RefsCounted == Spec => []RefsExact
<1>1. SInv => RefsExact
  BY DEF SInv, Counts, Count, Held, RefsExact
<1> QED
  BY <1>1, Invariance, PTL

\* Every slot holds the session its ID says, as the database has it
\* (session_cache and session_lookup).
THEOREM SlotsHold == Spec => []SlotsTrue
<1>1. SInv => SlotsTrue
  BY DEF SInv, SlotsRight, SlotsTrue
<1> QED
  BY <1>1, Invariance, PTL

\* A cookie is answered as the database would answer it
\* (SLNSessionCacheCopyActiveSession).
THEOREM AnswersRight == Spec => []AnswersExact
<1>1. SInv => AnswersExact
  BY Typed, SessionAssumption DEF HandlerRight, AnswersExact
<1> QED
  BY <1>1, Invariance, PTL

=============================================================================
