------------------------- MODULE SubscriptionProofs -------------------------
(***************************************************************************)
(* A query sends each result once and in order and sleeps only when it may,*)
(* for any number of files, any matches, batch size and count: the         *)
(* invariants of Subscription, and that it implements ResultFeed.          *)
(***************************************************************************)
EXTENDS Subscription, FiniteSetTheorems, WellFoundedInduction, TLAPS

\* A set of numbers has a least one.
LEMMA Least ==
  ASSUME NEW T, T \subseteq Nat, T # {}
  PROVE  \E x \in T : \A y \in T : x <= y
<1>1. PICK x \in T : \A y \in T : <<y, x>> \notin OpToRel(<, Nat)
  BY NatLessThanWellFounded, WFMin
<1>2. ASSUME NEW y \in T PROVE x <= y
  <2>1. x \in Nat /\ y \in Nat
    OBVIOUS
  <2>2. <<y, x>> \in OpToRel(<, Nat) <=> y < x
    BY <2>1, Zenon DEF OpToRel
  <2>3. ~(y < x)
    BY <1>1, <2>2, Zenon
  <2> QED
    BY <2>1, <2>3
<1> QED
  BY <1>2

\* A set of numbers with a bound has a greatest one.
LEMMA Greatest ==
  ASSUME NEW N \in Nat, NEW T, T \subseteq 0..N, T # {}
  PROVE  \E x \in T : \A y \in T : y <= x
<1> DEFINE U == {N - t : t \in T}
<1>1. U \subseteq Nat /\ U # {}
  <2>1. \A t \in T : t \in Nat /\ t <= N /\ N - t \in Nat
    OBVIOUS
  <2>2. U \subseteq Nat
    BY <2>1
  <2>3. U # {}
    OBVIOUS
  <2> QED
    BY <2>2, <2>3
<1>2. PICK u \in U : \A y \in U : u <= y
  <2> HIDE DEF U
  <2> QED
    BY <1>1, Least
<1>3. PICK x \in T : u = N - x
  OBVIOUS
<1>4. ASSUME NEW y \in T PROVE y <= x
  <2>1. N - y \in U
    OBVIOUS
  <2>2. N - x <= N - y
    BY <1>2, <1>3, <2>1
  <2> QED
    BY <2>2
<1> QED
  BY <1>4

TypeOK ==
    /\ len \in 0..MaxFiles
    /\ pending \subseteq 1..len
    /\ latest \in 0..len
    /\ sub \in [pc : {"off", "scan", "wait", "drain"}, pos : (0..len) \X Nat,
                left : 0..Count, upto : 0..len]
    /\ sub.pc # "off" => sub.left > 0
    /\ got \subseteq ResultsOf(len)

\* What the client has is the beginning of what there is.
Gapless == \A r \in got, q \in ResultsOf(len) : Before(q, r) => q \in got

\* A position stands behind a set of results: it is that of a wake-up (or the
\* beginning), and they are what sorts before it, or it is the last of them.
Behind(pos, received) ==
    \/ /\ pos[2] = 0
       /\ \A r \in ResultsOf(len) : r \in received <=> Before(r, pos)
    \/ /\ pos \in received
       /\ \A r \in ResultsOf(len) : r \in received <=> ~Before(pos, r)

\* The inductive invariant.
QInv ==
    /\ TypeOK
    /\ Gapless
    /\ sub.pc # "off" => Behind(sub.pos, got)
    /\ NoLostWakeup

-----------------------------------------------------------------------------
(***************************************************************************)
(* The order of the results.                                               *)
(***************************************************************************)

\* A result is a sort ID and a file ID, and the file is not the newer one.
LEMMA ResultsTyped ==
  /\ Results \subseteq (1..MaxFiles) \X (1..MaxFiles)
  /\ \A r \in Results : r = <<r[1], r[2]>> /\ r[2] \in Matches[r[1]]
<1> SUFFICES ASSUME NEW r \in Results
             PROVE  r \in (1..MaxFiles) \X (1..MaxFiles) /\ r = <<r[1], r[2]>> /\ r[2] \in Matches[r[1]]
  OBVIOUS
<1>1. PICK n \in 1..MaxFiles : r \in {n} \X Matches[n]
  BY DEF Results
<1>2. Matches[n] \subseteq 1..MaxFiles
  BY SubscriptionAssumption
<1> QED
  BY <1>1, <1>2

\* Results are finitely many.
LEMMA FiniteResults ==
  ASSUME NEW F, F \subseteq Results
  PROVE  IsFiniteSet(F)
<1>1. MaxFiles \in Int /\ 1 \in Int
  BY SubscriptionAssumption
<1>2. IsFiniteSet(1..MaxFiles)
  BY <1>1, FS_Interval
<1>3. IsFiniteSet((1..MaxFiles) \X (1..MaxFiles))
  BY <1>2, FS_Product
<1> QED
  BY <1>3, ResultsTyped, FS_Subset

\* Before is a total order of them.
LEMMA Order ==
  /\ \A r \in Results : ~Before(r, r)
  /\ \A q, r \in Results : q = r \/ Before(q, r) \/ Before(r, q)
  /\ \A p, q, r \in (Nat \X Nat) : Before(p, q) /\ Before(q, r) => Before(p, r)
  /\ \A q, r \in (Nat \X Nat) : ~(Before(q, r) /\ Before(r, q))
  /\ Results \subseteq (Nat \X Nat)
<1>1. Results \subseteq (Nat \X Nat) /\ \A r \in Results : r = <<r[1], r[2]>>
  BY ResultsTyped, SubscriptionAssumption
<1>2. \A q, r \in Results : q = r \/ Before(q, r) \/ Before(r, q)
  <2> SUFFICES ASSUME NEW q \in Results, NEW r \in Results, ~Before(q, r), ~Before(r, q)
               PROVE  q = r
    OBVIOUS
  <2>1. q[1] \in Nat /\ q[2] \in Nat /\ r[1] \in Nat /\ r[2] \in Nat
    BY <1>1
  <2>2. q[1] = r[1] /\ q[2] = r[2]
    BY <2>1 DEF Before
  <2> QED
    BY <1>1, <2>2
<1>3. \A r \in Results : ~Before(r, r)
  BY <1>1 DEF Before
<1>4. \A p, q, r \in (Nat \X Nat) : Before(p, q) /\ Before(q, r) => Before(p, r)
  BY DEF Before
<1>5. \A q, r \in (Nat \X Nat) : ~(Before(q, r) /\ Before(r, q))
  BY DEF Before
<1> QED
  BY <1>1, <1>2, <1>3, <1>4, <1>5

\* Some results have a first one.
LEMMA First ==
  ASSUME NEW T, T \subseteq Results, T # {}
  PROVE  \E r \in T : \A q \in T : ~Before(q, r)
<1>1. T \subseteq (Nat \X Nat)
  BY Order
<1> DEFINE A == {r[1] : r \in T}
<1>2. A \subseteq Nat /\ A # {}
  BY <1>1
<1>3. PICK a \in A : \A y \in A : a <= y
  <2> HIDE DEF A
  <2> QED
    BY <1>2, Least
<1> DEFINE B == {r[2] : r \in {p \in T : p[1] = a}}
<1>4. B \subseteq Nat /\ B # {}
  BY <1>1, <1>3
<1>5. PICK b \in B : \A y \in B : b <= y
  <2> HIDE DEF A, B
  <2> QED
    BY <1>4, Least
<1>6. PICK r \in T : r[1] = a /\ r[2] = b
  BY <1>5
<1>7. ASSUME NEW q \in T PROVE ~Before(q, r)
  <2>1. a <= q[1] /\ (q[1] = a => b <= q[2])
    BY <1>3, <1>5
  <2>2. q[1] \in Nat /\ q[2] \in Nat /\ a \in Nat /\ b \in Nat
    BY <1>1, <1>2, <1>4
  <2> QED
    BY <1>6, <2>1, <2>2 DEF Before
<1> QED
  BY <1>7

\* And a last one.
LEMMA Last ==
  ASSUME NEW T, T \subseteq Results, T # {}
  PROVE  \E r \in T : \A q \in T : ~Before(r, q)
<1>1. T \subseteq (0..MaxFiles) \X (0..MaxFiles) /\ MaxFiles \in Nat
  BY ResultsTyped, SubscriptionAssumption
<1> DEFINE A == {r[1] : r \in T}
<1>2. A \subseteq 0..MaxFiles /\ A # {}
  BY <1>1
<1>3. PICK a \in A : \A y \in A : y <= a
  <2> HIDE DEF A
  <2> QED
    BY <1>1, <1>2, Greatest
<1> DEFINE B == {r[2] : r \in {p \in T : p[1] = a}}
<1>4. B \subseteq 0..MaxFiles /\ B # {}
  BY <1>1, <1>3
<1>5. PICK b \in B : \A y \in B : y <= b
  <2> HIDE DEF A, B
  <2> QED
    BY <1>1, <1>4, Greatest
<1>6. PICK r \in T : r[1] = a /\ r[2] = b
  BY <1>5
<1>7. ASSUME NEW q \in T PROVE ~Before(r, q)
  <2>1. q[1] <= a /\ (q[1] = a => q[2] <= b)
    BY <1>3, <1>5
  <2>2. q[1] \in 0..MaxFiles /\ q[2] \in 0..MaxFiles /\ a \in 0..MaxFiles /\ b \in 0..MaxFiles
    BY <1>1, <1>2, <1>4
  <2> QED
    BY <1>1, <1>6, <2>1, <2>2 DEF Before
<1> QED
  BY <1>7

-----------------------------------------------------------------------------
(***************************************************************************)
(* Batches.                                                                *)
(***************************************************************************)

\* The first n of some results, as Batch has them.
FirstOf(F, n) == {r \in F : Cardinality({q \in F : Before(q, r)}) < n}

\* They are at most n, with all that sort before any of them; fewer are all.
LEMMA FirstOfRight ==
  ASSUME NEW F, F \subseteq Results, NEW n \in Nat
  PROVE  /\ \A r \in FirstOf(F, n), q \in F : Before(q, r) => q \in FirstOf(F, n)
         /\ Cardinality(FirstOf(F, n)) \in 0..n
         /\ Cardinality(FirstOf(F, n)) < n => FirstOf(F, n) = F
<1> DEFINE B == FirstOf(F, n)
           Below(r) == {q \in F : Before(q, r)}
<1>1. B \subseteq F /\ IsFiniteSet(B) /\ Cardinality(B) \in Nat
  <2>1. B \subseteq F
    BY DEF FirstOf
  <2> HIDE DEF B
  <2> QED
    BY <2>1, FiniteResults, FS_CardinalityType
<1>2. \A r : Below(r) \subseteq F /\ IsFiniteSet(Below(r)) /\ Cardinality(Below(r)) \in Nat
  <2> SUFFICES ASSUME NEW r
               PROVE  Below(r) \subseteq F /\ IsFiniteSet(Below(r)) /\ Cardinality(Below(r)) \in Nat
    OBVIOUS
  <2>1. Below(r) \subseteq F
    OBVIOUS
  <2> HIDE DEF Below
  <2> QED
    BY <2>1, FiniteResults, FS_CardinalityType
<1>3. \A r : r \in B <=> r \in F /\ Cardinality(Below(r)) < n
  BY DEF FirstOf
<1>4. ASSUME NEW r \in B, NEW q \in F, Before(q, r) PROVE q \in B
  <2>1. Below(q) \subseteq Below(r)
    BY <1>1, <1>4, Order
  <2> HIDE DEF Below, B
  <2>2. Cardinality(Below(q)) <= Cardinality(Below(r))
    BY <1>2, <2>1, FS_Subset
  <2> QED
    BY <1>2, <1>3, <2>2
<1>5. Cardinality(B) <= n
  <2>1. CASE B = {}
    BY <2>1, FS_EmptySet
  <2>2. CASE B # {}
    <3>1. PICK r \in B : \A q \in B : ~Before(r, q)
      <4> HIDE DEF B
      <4> QED
        BY <1>1, <2>2, Last
    <3>2. B = Below(r) \cup {r} /\ r \notin Below(r)
      <4>1. \A q \in B : q = r \/ Before(q, r)
        BY <1>1, <3>1, Order
      <4>2. ~Before(r, r)
        BY <1>1, Order
      <4> HIDE DEF B
      <4> QED
        BY <1>1, <1>4, <4>1, <4>2
    <3> HIDE DEF B, Below
    <3>3. Cardinality(B) = Cardinality(Below(r)) + 1
      BY <1>2, <3>2, FS_AddElement
    <3> QED
      BY <1>2, <1>3, <3>3
  <2> QED
    BY <2>1, <2>2
<1>6. ASSUME Cardinality(B) < n PROVE B = F
  <2> SUFFICES ASSUME F \ B # {} PROVE FALSE
    BY <1>1
  <2>1. PICK r \in F \ B : \A q \in F \ B : ~Before(q, r)
    <3> HIDE DEF B
    <3> QED
      BY First
  <2>2. Below(r) \subseteq B
    <3> HIDE DEF B
    <3> QED
      BY <2>1
  <2> HIDE DEF B, Below
  <2>3. Cardinality(Below(r)) <= Cardinality(B)
    BY <1>1, <2>2, FS_Subset
  <2> QED
    BY <1>1, <1>2, <1>3, <1>6, <2>1, <2>3
<1> HIDE DEF B
<1>7. Cardinality(B) \in 0..n
  BY <1>1, <1>5
<1> QED
  BY <1>4, <1>6, <1>7 DEF B

\* Of the results that a snapshot has, those from a position on are what is not
\* behind it.
LEMMA FromRight ==
  ASSUME TypeOK, NEW pos, Behind(pos, got)
  PROVE  From(pos) = ResultsOf(len) \ got
<1>1. ResultsOf(len) \subseteq Results /\ got \subseteq ResultsOf(len)
  BY DEF TypeOK, ResultsOf
<1>2. CASE pos[2] = 0 /\ \A r \in ResultsOf(len) : r \in got <=> Before(r, pos)
  BY <1>1, <1>2 DEF From
<1>3. CASE pos \in got /\ \A r \in ResultsOf(len) : r \in got <=> ~Before(pos, r)
  <2>1. pos \in Results /\ pos[2] # 0
    BY <1>1, <1>3, ResultsTyped
  <2> DEFINE at == {r \in ResultsOf(len) : ~Before(r, pos)}
  <2>2. From(pos) = {r \in at : \E q \in at : Before(q, r)}
    BY <2>1 DEF From
  <2>3. pos \in at
    BY <1>1, <1>3, <2>1, Order
  <2>4. ASSUME NEW r \in ResultsOf(len) \ got PROVE r \in From(pos)
    <3>1. Before(pos, r)
      BY <1>3
    <3>2. ~Before(r, pos)
      BY <1>1, <2>1, <3>1, Order
    <3> QED
      BY <2>2, <2>3, <3>1, <3>2
  <2>5. ASSUME NEW r \in From(pos) PROVE r \in ResultsOf(len) \ got
    <3>1. PICK q \in at : Before(q, r)
      BY <2>2
    <3>2. r \in ResultsOf(len) /\ r \in Results /\ q \in Results /\ ~Before(q, pos)
      BY <1>1, <2>2
    <3>3. Before(pos, r)
      BY <2>1, <3>1, <3>2, Order
    <3> QED
      BY <1>3, <3>2, <3>3
  <2> QED
    BY <2>4, <2>5
<1> QED
  BY <1>2, <1>3 DEF Behind

\* A batch is what the client lacks, from the first on.
LEMMA BatchRight ==
  ASSUME QInv, sub.pc # "off", NEW n \in Nat
  PROVE  /\ Batch(n) \subseteq ResultsOf(len) \ got
         /\ \A r \in Batch(n), q \in ResultsOf(len) : Before(q, r) => q \in got \cup Batch(n)
         /\ Cardinality(Batch(n)) \in 0..n
         /\ Cardinality(Batch(n)) < n => ResultsOf(len) = got \cup Batch(n)
<1>1. From(sub.pos) = ResultsOf(len) \ got /\ got \subseteq ResultsOf(len)
  BY FromRight DEF QInv, TypeOK
<1>2. Batch(n) = FirstOf(From(sub.pos), n)
  BY DEF Batch, FirstOf
<1>3. From(sub.pos) \subseteq Results
  BY <1>1 DEF ResultsOf
<1>4. Batch(n) \subseteq From(sub.pos)
  BY DEF Batch
<1>5. \A r \in Batch(n), q \in From(sub.pos) : Before(q, r) => q \in Batch(n)
  BY <1>2, <1>3, FirstOfRight
<1>6. Cardinality(Batch(n)) \in 0..n /\ (Cardinality(Batch(n)) < n => Batch(n) = From(sub.pos))
  BY <1>2, <1>3, FirstOfRight
<1> QED
  BY <1>1, <1>4, <1>5, <1>6

\* A batch, or its beginning, continues what the client has.
LEMMA ReceivedRight ==
  ASSUME QInv, sub.pc # "off", NEW n \in Nat, NEW g,
         \/ g = got \cup Batch(n)
         \/ \E r \in Batch(n) : g = got \cup {q \in Batch(n) : Before(q, r)}
  PROVE  /\ got \subseteq g /\ g \subseteq ResultsOf(len)
         /\ \A r \in g, q \in ResultsOf(len) : Before(q, r) => q \in g
         /\ \A r \in g \ got, q \in got : Before(q, r)
<1> DEFINE B == Batch(n)
<1>1. B \subseteq ResultsOf(len) \ got /\ \A r \in B, q \in ResultsOf(len) : Before(q, r) => q \in got \cup B
  BY BatchRight
<1>2. got \subseteq ResultsOf(len) /\ ResultsOf(len) \subseteq Results
  BY DEF QInv, TypeOK, ResultsOf
<1>3. \A r \in got, q \in ResultsOf(len) : Before(q, r) => q \in got
  BY DEF QInv, Gapless
<1> HIDE DEF B
<1>4. got \subseteq g /\ g \subseteq got \cup B
  BY DEF B
<1>5. \A r \in g, q \in ResultsOf(len) : Before(q, r) => q \in g
  <2>1. CASE g = got \cup B
    BY <1>1, <1>3, <2>1
  <2>2. CASE \E r \in B : g = got \cup {q \in B : Before(q, r)}
    <3>1. PICK b \in B : g = got \cup {q \in B : Before(q, b)}
      BY <2>2
    <3> SUFFICES ASSUME NEW r \in B, Before(r, b), NEW q \in ResultsOf(len), Before(q, r), q \notin got
                 PROVE  q \in B /\ Before(q, b)
      BY <1>3, <3>1
    <3>2. q \in B
      BY <1>1
    <3>3. Before(q, b)
      BY <1>1, <1>2, Order
    <3> QED
      BY <3>2, <3>3
  <2> QED
    BY <2>1, <2>2 DEF B
<1>6. ASSUME NEW r \in g \ got, NEW q \in got PROVE Before(q, r)
  <2>1. r \in ResultsOf(len)
    BY <1>1, <1>4
  <2>2. r # q /\ ~Before(r, q)
    BY <1>3, <2>1
  <2> QED
    BY <1>2, <2>1, <2>2, Order
<1> QED
  BY <1>1, <1>2, <1>4, <1>5, <1>6

\* The last result of a batch stands behind the batch.
LEMMA LastOfRight ==
  ASSUME QInv, sub.pc # "off", NEW n \in Nat
  PROVE  /\ Behind(LastOf(Batch(n)), got \cup Batch(n))
         /\ LastOf(Batch(n)) \in (0..len) \X Nat
<1> DEFINE B == Batch(n)
           p == LastOf(B)
<1>1. B \subseteq ResultsOf(len) \ got
  BY BatchRight
<1>2. ResultsOf(len) \subseteq Results /\ got \subseteq ResultsOf(len)
  BY DEF QInv, TypeOK, ResultsOf
<1>3. CASE B = {}
  <2>1. p = sub.pos /\ got \cup B = got
    BY <1>3 DEF LastOf
  <2>2. Behind(sub.pos, got) /\ sub.pos \in (0..len) \X Nat
    BY DEF QInv, TypeOK
  <2> QED
    BY <2>1, <2>2
<1>4. CASE B # {}
  <2>1. \E r \in B : \A q \in B : ~Before(r, q)
    <3> HIDE DEF B
    <3> QED
      BY <1>1, <1>2, <1>4, Last
  <2>2. p \in B /\ \A q \in B : ~Before(p, q)
    <3>1. p = CHOOSE r \in B : \A q \in B : ~Before(r, q)
      BY <1>4 DEF LastOf
    <3> HIDE DEF B, p
    <3> QED
      BY <2>1, <3>1
  <2>3. \A r \in got \cup B, q \in ResultsOf(len) : Before(q, r) => q \in got \cup B
    BY ReceivedRight
  <2> HIDE DEF B, p
  <2>4. ASSUME NEW r \in ResultsOf(len) PROVE r \in got \cup B <=> ~Before(p, r)
    <3>1. r \in got => ~Before(p, r)
      <4>1. p \in ResultsOf(len) /\ p \notin got
        BY <1>1, <2>2
      <4> QED
        BY <4>1 DEF QInv, Gapless
    <3>2. ~Before(p, r) => r = p \/ Before(r, p)
      BY <1>1, <1>2, <2>2, Order
    <3> QED
      BY <2>2, <2>3, <3>1, <3>2
  <2>5. p \in (0..len) \X Nat
    <3>1. p \in ResultsOf(len) /\ p \in Results
      BY <1>1, <1>2, <2>2
    <3>2. p \in (1..MaxFiles) \X (1..MaxFiles) /\ p[1] <= len
      BY <3>1, ResultsTyped DEF ResultsOf
    <3> QED
      BY <3>2, SubscriptionAssumption DEF QInv, TypeOK
  <2> QED
    BY <2>2, <2>4, <2>5 DEF Behind, B, p
<1> QED
  BY <1>3, <1>4

\* Where nothing is left to send, the position may move on to what woke the query.
LEMMA ReachedRight ==
  ASSUME TypeOK, NEW pos \in (0..len) \X Nat, Behind(pos, ResultsOf(len))
  PROVE  /\ Behind(Reached(pos), ResultsOf(len))
         /\ Reached(pos) \in (0..len) \X Nat
<1>1. sub.upto \in 0..len /\ len \in Nat
  BY DEF TypeOK
<1>2. CASE pos[1] < sub.upto
  <2>1. Reached(pos) = <<sub.upto, 0>>
    BY <1>2 DEF Reached
  <2>2. ASSUME NEW r \in ResultsOf(len) PROVE Before(r, <<sub.upto, 0>>)
    <3>1. r[1] \in Nat /\ r[2] \in Nat
      BY ResultsTyped, SubscriptionAssumption DEF ResultsOf
    <3>2. Before(r, pos) \/ ~Before(pos, r)
      BY DEF Behind
    <3>3. r[1] <= pos[1]
      BY <3>1, <3>2 DEF Before
    <3> QED
      BY <1>1, <1>2, <3>1, <3>3 DEF Before
  <2> QED
    BY <1>1, <2>1, <2>2 DEF Behind
<1>3. CASE ~(pos[1] < sub.upto)
  BY <1>3 DEF Reached
<1> QED
  BY <1>2, <1>3

-----------------------------------------------------------------------------
(***************************************************************************)
(* The steps.                                                              *)
(***************************************************************************)

\* What a snapshot of more files has more comes from the files that are new.
LEMMA Growth ==
  ASSUME NEW m \in Nat, NEW n \in Nat, m <= n
  PROVE  /\ ResultsOf(m) \subseteq ResultsOf(n)
         /\ \A r \in ResultsOf(n) \ ResultsOf(m) : r[1] > m /\ r[1] <= n
         /\ \A r \in ResultsOf(n) \ ResultsOf(m), q \in ResultsOf(m) : Before(q, r)
<1>1. \A r \in Results : r[1] \in Nat /\ r[2] \in Nat
  BY ResultsTyped, SubscriptionAssumption
<1> QED
  BY <1>1 DEF ResultsOf, Before

\* No files, no results, no connection.
LEMMA InitQInv == Init => QInv
<1> SUFFICES ASSUME Init PROVE QInv
  OBVIOUS
<1>1. TypeOK
  <2>1. Off \in [pc : {"off", "scan", "wait", "drain"}, pos : (0..len) \X Nat,
                left : 0..Count, upto : 0..len] /\ Off.pc = "off"
    BY SubscriptionAssumption DEF Init, Off
  <2> QED
    BY <2>1, SubscriptionAssumption DEF Init, TypeOK
<1>2. Gapless
  BY DEF Init, Gapless
<1>3. sub.pc = "off"
  BY DEF Init, Off
<1> QED
  BY <1>1, <1>2, <1>3 DEF QInv, NoLostWakeup

\* New files sort behind every position, and one of them is to be announced.
LEMMA CommitQInv ==
  ASSUME QInv, NEW k \in 1..MaxCommit, Commit(k)
  PROVE  QInv'
<1>1. len \in Nat /\ len' \in 0..MaxFiles /\ len' > len /\ len' = len + k
  BY SubscriptionAssumption DEF Commit, QInv, TypeOK
<1>2. pending' = pending \cup {len'} /\ latest' = latest /\ sub' = sub /\ got' = got
  BY DEF Commit
<1>3. /\ ResultsOf(len) \subseteq ResultsOf(len')
      /\ \A r \in ResultsOf(len') \ ResultsOf(len) : r[1] > len /\ r[1] <= len'
      /\ \A r \in ResultsOf(len') \ ResultsOf(len), q \in ResultsOf(len) : Before(q, r)
  BY <1>1, Growth
<1>4. TypeOK
  BY DEF QInv
<1>5. TypeOK'
  BY <1>1, <1>2, <1>3, <1>4 DEF TypeOK
<1>6. got \subseteq ResultsOf(len) /\ ResultsOf(len') \subseteq Results
  BY <1>4 DEF TypeOK, ResultsOf
<1>7. Gapless'
  <2> SUFFICES ASSUME NEW r \in got, NEW q \in ResultsOf(len'), Before(q, r) PROVE q \in got
    BY <1>2 DEF Gapless
  <2>1. q \in ResultsOf(len)
    <3>1. q \notin ResultsOf(len) => Before(r, q)
      BY <1>3, <1>6
    <3>2. q \in Results /\ r \in Results
      BY <1>3, <1>6
    <3> QED
      BY <3>1, <3>2, Order
  <2> QED
    BY <2>1 DEF QInv, Gapless
<1>8. ASSUME sub.pc # "off" PROVE Behind(sub.pos, got)'
  <2>1. Behind(sub.pos, got) /\ sub.pos \in (0..len) \X Nat
    BY <1>8 DEF QInv, TypeOK
  <2>2. ASSUME NEW r \in ResultsOf(len') \ ResultsOf(len)
        PROVE  r \notin got /\ ~Before(r, sub.pos) /\ Before(sub.pos, r)
    <3>1. r[1] > len /\ r[1] \in Nat /\ sub.pos[1] \in 0..len
      BY <1>3, <1>6, <2>1, ResultsTyped, SubscriptionAssumption
    <3> QED
      BY <1>1, <1>6, <3>1 DEF Before
  <2> QED
    BY <1>2, <2>1, <2>2 DEF Behind
<1>9. NoLostWakeup'
  <2> SUFFICES ASSUME sub.pc = "wait", latest <= sub.pos[1], NEW r \in ResultsOf(len') \ got
               PROVE  \E id \in pending \cup {len'} : r[1] <= id /\ id > sub.pos[1]
    BY <1>2 DEF NoLostWakeup
  <2>1. CASE r \in ResultsOf(len)
    BY <2>1 DEF QInv, NoLostWakeup
  <2>2. CASE r \notin ResultsOf(len)
    <3>1. sub.pos[1] \in 0..len
      BY <1>4 DEF TypeOK
    <3>2. r[1] <= len' /\ len' > sub.pos[1]
      BY <1>1, <1>3, <2>2, <3>1
    <3> QED
      BY <3>2
  <2> QED
    BY <2>1, <2>2
<1> QED
  BY <1>2, <1>5, <1>7, <1>8, <1>9 DEF QInv

\* An announcement that a sleeping query does not see is not of what it lacks.
LEMMA EmitQInv ==
  ASSUME QInv, NEW id \in pending, Emit(id)
  PROVE  QInv'
<1>1. TypeOK
  BY DEF QInv
<1>2. /\ pending' = pending \ {id} /\ latest' = IF id > latest THEN id ELSE latest
      /\ len' = len /\ sub' = sub /\ got' = got
  BY DEF Emit
<1>3. id \in 1..len /\ latest \in 0..len /\ len \in Nat /\ latest' \in 0..len
  BY <1>1, <1>2 DEF TypeOK
<1>4. TypeOK'
  BY <1>1, <1>2, <1>3 DEF TypeOK
<1>5. Gapless' /\ (sub.pc # "off" => Behind(sub.pos, got)')
  BY <1>2 DEF QInv, Gapless, Behind
<1>6. NoLostWakeup'
  <2> SUFFICES ASSUME sub.pc = "wait", latest' <= sub.pos[1], NEW r \in ResultsOf(len) \ got
               PROVE  \E i \in pending' : r[1] <= i /\ i > sub.pos[1]
    BY <1>2 DEF NoLostWakeup
  <2>1. sub.pos[1] \in Nat
    BY <1>1 DEF TypeOK
  <2>2. latest <= sub.pos[1] /\ ~(id > sub.pos[1])
    BY <1>2, <1>3, <2>1
  <2>3. PICK i \in pending : r[1] <= i /\ i > sub.pos[1]
    BY <2>2 DEF QInv, NoLostWakeup
  <2> QED
    BY <1>2, <2>2, <2>3
<1> QED
  BY <1>2, <1>4, <1>5, <1>6 DEF QInv

\* Where a connection ends, nothing is asked of its position.
LEMMA OffQInv ==
  ASSUME QInv, sub' = Off, len' = len, pending' \subseteq pending, latest' \in {0, latest},
         got' \subseteq ResultsOf(len),
         \A r \in got', q \in ResultsOf(len) : Before(q, r) => q \in got'
  PROVE  QInv'
<1>1. Off \in [pc : {"off", "scan", "wait", "drain"}, pos : (0..len) \X Nat,
              left : 0..Count, upto : 0..len] /\ Off.pc = "off"
  BY SubscriptionAssumption DEF Off, QInv, TypeOK
<1>2. TypeOK'
  <2>1. TypeOK
    BY DEF QInv
  <2>2. pending' \subseteq 1..len' /\ latest' \in 0..len'
    BY <2>1 DEF TypeOK
  <2> QED
    BY <1>1, <2>1, <2>2 DEF TypeOK
<1>3. Gapless'
  BY DEF Gapless
<1> QED
  BY <1>1, <1>2, <1>3 DEF QInv, NoLostWakeup

\* The process dies, or the connection breaks: what the client has stays.
LEMMA EndsQInv == ASSUME QInv, Crash \/ Disconnect PROVE QInv'
<1>1. /\ sub' = Off /\ len' = len /\ pending' \subseteq pending /\ latest' \in {0, latest}
      /\ got' = got
  BY DEF Crash, Disconnect
<1>2. got \subseteq ResultsOf(len) /\ \A r \in got, q \in ResultsOf(len) : Before(q, r) => q \in got
  BY DEF QInv, TypeOK, Gapless
<1> QED
  BY <1>1, <1>2, OffQInv

\* The client comes back with the last result it got, or it has none.
LEMMA ConnectQInv == ASSUME QInv, Connect PROVE QInv'
<1>1. PICK pos \in got \cup {<<0, 0>>} :
        /\ \A r \in got : ~Before(pos, r)
        /\ sub' = [pc |-> "scan", pos |-> pos, left |-> Count, upto |-> 0]
  BY DEF Connect
<1>2. len' = len /\ pending' = pending /\ latest' = latest /\ got' = got
  BY DEF Connect
<1>3. TypeOK /\ got \subseteq ResultsOf(len) /\ ResultsOf(len) \subseteq Results /\ len \in Nat
  BY DEF QInv, TypeOK, ResultsOf
<1>4. \A r \in ResultsOf(len) : r[1] \in 1..len /\ r[2] \in Nat \ {0} /\ r = <<r[1], r[2]>>
  <2>1. \A r \in ResultsOf(len) : r \in Results /\ r[1] <= len
    BY DEF ResultsOf
  <2> QED
    BY <1>3, <2>1, ResultsTyped, SubscriptionAssumption
<1>5. pos \in (0..len) \X Nat
  BY <1>3, <1>4
<1>6. Behind(pos, got)
  <2>1. CASE pos \in got
    <3> SUFFICES ASSUME NEW r \in ResultsOf(len), ~Before(pos, r) PROVE r \in got
      BY <1>1, <2>1 DEF Behind
    <3>1. r = pos \/ Before(r, pos)
      BY <1>3, <2>1, Order
    <3> QED
      BY <2>1, <3>1 DEF QInv, Gapless
  <2>2. CASE pos = <<0, 0>>
    <3>1. \A r \in ResultsOf(len) : Before(pos, r) /\ ~Before(r, pos)
      BY <1>4, <2>2 DEF Before
    <3> QED
      BY <1>1, <1>3, <2>2, <3>1 DEF Behind
  <2> QED
    BY <2>1, <2>2
<1>7. TypeOK'
  BY <1>1, <1>2, <1>3, <1>5, SubscriptionAssumption DEF TypeOK
<1>8. Gapless'
  BY <1>2 DEF QInv, Gapless
<1>9. Behind(sub.pos, got)'
  BY <1>1, <1>2, <1>6 DEF Behind
<1>10. NoLostWakeup'
  BY <1>1 DEF NoLostWakeup
<1> QED
  BY <1>7, <1>8, <1>9, <1>10 DEF QInv

\* A query that was woken stands where it stood.
LEMMA WakeQInv == ASSUME QInv, Wake PROVE QInv'
<1>1. /\ sub' = [sub EXCEPT !.pc = "drain", !.upto = latest] /\ sub.pc = "wait"
      /\ len' = len /\ pending' = pending /\ latest' = latest /\ got' = got
  BY DEF Wake
<1>2. TypeOK
  BY DEF QInv
<1>3. sub'.pc = "drain" /\ sub'.pos = sub.pos
  BY <1>1, <1>2 DEF TypeOK
<1>4. TypeOK'
  BY <1>1, <1>2 DEF TypeOK
<1>5. Behind(sub.pos, got)'
  BY <1>1, <1>3 DEF QInv, Behind
<1> QED
  BY <1>1, <1>3, <1>4, <1>5 DEF QInv, Gapless, NoLostWakeup

\* A batch is sent: the position stands behind it, or the connection ends.  The
\* query sleeps only where the batch was not full.
LEMMA SentQInv ==
  ASSUME QInv, sub.pc # "off", NEW n, n = Min2(sub.left, BATCH_SIZE),
         NEW pc \in {"scan", "wait", "drain"}, NEW pos \in (0..len) \X Nat,
         Behind(pos, got \cup Batch(n)),
         pc = "wait" => Cardinality(Batch(n)) < n,
         Sent(Batch(n), Advanced(pc, pos, Batch(n))), UNCHANGED <<len, pending, latest>>
  PROVE  QInv'
<1> DEFINE B == Batch(n)
           after == Advanced(pc, pos, B)
<1>1. TypeOK /\ sub.left \in 1..Count
  BY DEF QInv, TypeOK
<1>2. n \in Nat /\ n <= sub.left
  BY <1>1, SubscriptionAssumption DEF Min2
<1>3. Cardinality(B) \in 0..n /\ (Cardinality(B) < n => ResultsOf(len) = got \cup B)
  BY <1>2, BatchRight
<1>4. \/ got' = got \cup B
      \/ \E r \in B : got' = got \cup {q \in B : Before(q, r)}
  BY DEF Sent
<1>5. /\ got' \subseteq ResultsOf(len)
      /\ \A r \in got', q \in ResultsOf(len) : Before(q, r) => q \in got'
  BY <1>2, <1>4, ReceivedRight
<1>6. CASE sub' = Off
  BY <1>5, <1>6, OffQInv
<1>7. CASE sub' = after /\ got' = got \cup B /\ Cardinality(B) # sub.left
  <2>1. /\ after \in [pc : {"off", "scan", "wait", "drain"}, pos : (0..len) \X Nat,
                      left : 0..Count, upto : 0..len]
        /\ after.pc = pc /\ after.pos = pos /\ after.left > 0
    <3>1. sub.left - Cardinality(B) \in 1..Count
      BY <1>1, <1>2, <1>3, <1>7, SubscriptionAssumption
    <3>2. after = [sub EXCEPT !.pc = pc, !.pos = pos, !.left = sub.left - Cardinality(B)]
      BY DEF Advanced
    <3> HIDE DEF B, after
    <3>3. after = [pc |-> pc, pos |-> pos, left |-> sub.left - Cardinality(B), upto |-> sub.upto]
      BY <1>1, <3>2 DEF TypeOK
    <3>4. sub.upto \in 0..len /\ Count \in Nat
      BY <1>1, SubscriptionAssumption DEF TypeOK
    <3> QED
      BY <3>1, <3>3, <3>4
  <2> HIDE DEF B, after
  <2>2. TypeOK'
    BY <1>1, <1>5, <1>7, <2>1 DEF TypeOK
  <2>3. Gapless'
    BY <1>5 DEF Gapless
  <2>4. Behind(sub.pos, got)'
    BY <1>7, <2>1 DEF Behind, B
  <2>5. NoLostWakeup'
    <3> SUFFICES ASSUME pc = "wait" PROVE ResultsOf(len) \ got' = {}
      BY <1>7, <2>1 DEF NoLostWakeup
    <3> QED
      BY <1>3, <1>7 DEF B
  <2> QED
    BY <2>2, <2>3, <2>4, <2>5 DEF QInv
<1> QED
  BY <1>6, <1>7 DEF Sent

\* The first loop ends with an empty batch, and no batch is empty for want of room.
LEMMA ScanQInv == ASSUME QInv, Scan PROVE QInv'
<1> DEFINE n == Min2(sub.left, BATCH_SIZE)
           B == Batch(n)
           pc == IF B = {} THEN "wait" ELSE "scan"
<1>1. sub.pc # "off" /\ n \in Nat /\ n > 0
  <2>1. sub.pc = "scan" /\ sub.left \in 1..Count
    BY DEF Scan, QInv, TypeOK
  <2> QED
    BY <2>1, SubscriptionAssumption DEF Min2
<1>2. Behind(LastOf(B), got \cup B) /\ LastOf(B) \in (0..len) \X Nat
  BY <1>1, LastOfRight
<1>3. Sent(B, Advanced(pc, LastOf(B), B)) /\ UNCHANGED <<len, pending, latest>>
  BY DEF Scan
<1>4. pc = "wait" => Cardinality(B) < n
  BY <1>1, FS_EmptySet
<1>5. pc \in {"scan", "wait", "drain"}
  OBVIOUS
<1> HIDE DEF pc
<1> QED
  BY <1>1, <1>2, <1>3, <1>4, <1>5, SentQInv

\* The second loop ends with a batch that is not full, unless the count is used up.
LEMMA DrainQInv == ASSUME QInv, Drain PROVE QInv'
<1> DEFINE n == Min2(sub.left, BATCH_SIZE)
           B == Batch(n)
<1>1. TypeOK /\ sub.pc # "off" /\ sub.left \in 1..Count
  BY DEF Drain, QInv, TypeOK
<1>2. n \in Nat /\ (n = BATCH_SIZE \/ n = sub.left)
  BY <1>1, SubscriptionAssumption DEF Min2
<1>3. Behind(LastOf(B), got \cup B) /\ LastOf(B) \in (0..len) \X Nat
  BY <1>1, <1>2, LastOfRight
<1>4. Cardinality(B) \in 0..n /\ (Cardinality(B) < n => ResultsOf(len) = got \cup B)
  BY <1>1, <1>2, BatchRight
<1>5. UNCHANGED <<len, pending, latest>>
  BY DEF Drain
<1>6. CASE Cardinality(B) < BATCH_SIZE /\ Cardinality(B) # sub.left
  <2>1. Sent(B, Advanced("wait", Reached(LastOf(B)), B))
    BY <1>6 DEF Drain
  <2>2. Cardinality(B) < n
    BY <1>2, <1>4, <1>6
  <2>3. Behind(Reached(LastOf(B)), got \cup B) /\ Reached(LastOf(B)) \in (0..len) \X Nat
    BY <1>1, <1>3, <1>4, <2>2, ReachedRight
  <2> QED
    BY <1>1, <1>5, <2>1, <2>2, <2>3, SentQInv
<1>7. CASE Cardinality(B) < BATCH_SIZE /\ Cardinality(B) = sub.left
  <2>1. Sent(B, Advanced("wait", Reached(LastOf(B)), B))
    BY <1>7 DEF Drain
  <2>2. sub' = Off
    BY <1>7, <2>1 DEF Sent
  <2>3. \/ got' = got \cup B
        \/ \E r \in B : got' = got \cup {q \in B : Before(q, r)}
    BY <2>1 DEF Sent
  <2>4. /\ got' \subseteq ResultsOf(len)
        /\ \A r \in got', q \in ResultsOf(len) : Before(q, r) => q \in got'
    BY <1>1, <1>2, <2>3, ReceivedRight
  <2> QED
    BY <1>5, <2>2, <2>4, OffQInv
<1>8. CASE ~(Cardinality(B) < BATCH_SIZE)
  <2>1. Sent(B, Advanced("drain", LastOf(B), B))
    BY <1>8 DEF Drain
  <2> QED
    BY <1>1, <1>3, <1>5, <2>1, SentQInv
<1> QED
  BY <1>6, <1>7, <1>8

\* Every step of the query, of the requests that commit, and of the process
\* keeps the invariant.
LEMMA NextQInv == QInv /\ [Next]_vars => QInv'
<1> SUFFICES ASSUME QInv, [Next]_vars PROVE QInv'
  OBVIOUS
<1>1. CASE \E k \in 1..MaxCommit : Commit(k)
  BY <1>1, CommitQInv
<1>2. CASE \E id \in pending : Emit(id)
  BY <1>2, EmitQInv
<1>3. CASE Crash \/ Disconnect
  BY <1>3, EndsQInv
<1>4. CASE Connect
  BY <1>4, ConnectQInv
<1>5. CASE Scan
  BY <1>5, ScanQInv
<1>6. CASE Wake
  BY <1>6, WakeQInv
<1>7. CASE Drain
  BY <1>7, DrainQInv
<1>8. CASE UNCHANGED vars
  BY <1>8 DEF vars, QInv, TypeOK, Gapless, Behind, NoLostWakeup
<1> QED
  BY <1>1, <1>2, <1>3, <1>4, <1>5, <1>6, <1>7, <1>8 DEF Next

-----------------------------------------------------------------------------
(***************************************************************************)
(* What a query promises.                                                  *)
(***************************************************************************)

\* The invariant holds for any files, matches, batch size and count, whatever is
\* committed and announced meanwhile and however often the client comes back
\* (SLNFilterWriteURIs, SLNRepoSubmissionEmit and SLNRepoSubmissionWait).
THEOREM Invariance == Spec => []QInv
<1> QED
  BY InitQInv, NextQInv, PTL DEF Spec

\* The next batch is taken from exactly what the client lacks: nothing is sent
\* twice and nothing is passed over, where the position is that of a result, of
\* a wake-up without one, or of the client's start URI (SLNFilterSeekToPosition).
THEOREM PositionRight == Spec => []PositionExact
<1>1. QInv => PositionExact
  BY FromRight DEF QInv, PositionExact
<1> QED
  BY <1>1, Invariance, PTL

\* A sleeping query lacks only what is still to be announced, so that the
\* announcement wakes it (SLNRepoSubmissionWait).
THEOREM WakeupsKept == Spec => []NoLostWakeup
<1>1. QInv => NoLostWakeup
  BY DEF QInv
<1> QED
  BY <1>1, Invariance, PTL

\* A batch, whole or broken off, is a delivery of the feed, and where nothing is
\* sent the feed stands still.
LEMMA SentDelivers ==
  ASSUME QInv, sub.pc # "off", NEW n \in Nat, NEW after, Sent(Batch(n), after), len' = len
  PROVE  Feed!Deliver
<1>1. \/ got' = got \cup Batch(n)
      \/ \E r \in Batch(n) : got' = got \cup {q \in Batch(n) : Before(q, r)}
  BY DEF Sent
<1>2. /\ got \subseteq got' /\ got' \subseteq ResultsOf(len)
      /\ \A r \in got', q \in ResultsOf(len) : Before(q, r) => q \in got'
      /\ \A r \in got' \ got, q \in got : Before(q, r)
  BY <1>1, ReceivedRight
<1> QED
  BY <1>2 DEF Feed!Deliver, Feed!Before, Before

\* Each step of the query is a step of the feed, or one that the feed does not see.
LEMMA StepsFeed == QInv /\ [Next]_vars => [Feed!Next]_Feed!vars
<1> SUFFICES ASSUME QInv, [Next]_vars PROVE Feed!Publish \/ Feed!Deliver \/ UNCHANGED Feed!vars
  BY DEF Feed!Next
<1>1. ASSUME NEW k \in 1..MaxCommit, Commit(k) PROVE Feed!Publish
  <2>1. len \in Nat /\ len' \in Nat /\ len <= len' /\ got' = got
    BY <1>1, SubscriptionAssumption DEF Commit, QInv, TypeOK
  <2>2. /\ ResultsOf(len) \subseteq ResultsOf(len')
        /\ \A r \in ResultsOf(len') \ ResultsOf(len), q \in ResultsOf(len) : Before(q, r)
    BY <2>1, Growth
  <2>3. ResultsOf(len') \subseteq Results
    BY DEF ResultsOf
  <2> QED
    BY <2>1, <2>2, <2>3 DEF Feed!Publish, Feed!Before, Before
<1>2. CASE Scan
  <2>1. sub.pc # "off" /\ Min2(sub.left, BATCH_SIZE) \in Nat
    BY <1>2, SubscriptionAssumption DEF Scan, Min2, QInv, TypeOK
  <2> QED
    BY <1>2, <2>1, SentDelivers DEF Scan
<1>3. CASE Drain
  <2>1. sub.pc # "off" /\ Min2(sub.left, BATCH_SIZE) \in Nat
    BY <1>3, SubscriptionAssumption DEF Drain, Min2, QInv, TypeOK
  <2>2. \E after : Sent(Batch(Min2(sub.left, BATCH_SIZE)), after)
    BY <1>3 DEF Drain
  <2> QED
    BY <1>3, <2>1, <2>2, SentDelivers DEF Drain
<1>4. ASSUME UNCHANGED <<len, got>> PROVE UNCHANGED Feed!vars
  BY <1>4 DEF Feed!vars
<1>5. (\E id \in pending : Emit(id)) \/ Crash \/ Connect \/ Disconnect \/ Wake \/ UNCHANGED vars
         => UNCHANGED <<len, got>>
  BY DEF Emit, Crash, Connect, Disconnect, Wake, vars
<1> QED
  BY <1>1, <1>2, <1>3, <1>4, <1>5 DEF Next

\* A query sends each result once, in order and without a gap, over all the
\* connections of its client: it implements ResultFeed (SLNFilterWriteURIs).
THEOREM Refinement == Spec => ImplementsFeed
<1>1. Init => Feed!Init
  <2>1. ASSUME Init PROVE ResultsOf(len) = {}
    <3>1. \A r \in Results : r[1] \in 1..MaxFiles
      BY ResultsTyped
    <3> QED
      BY <2>1, <3>1, SubscriptionAssumption DEF Init, ResultsOf
  <2> QED
    BY <2>1 DEF Init, Feed!Init
<1> QED
  BY <1>1, StepsFeed, Invariance, PTL DEF Spec, ImplementsFeed, Feed!Spec

=============================================================================
