----------------------------- MODULE JSONProofs -----------------------------
(***************************************************************************)
(* A meta-file's rows are what its body says, a posted filter is the one   *)
(* that its text describes, and the assertions of both parsers fail only   *)
(* where they are said to, for texts of any length and any limits.         *)
(***************************************************************************)
EXTENDS JSONParsers, FiniteSetTheorems, SequenceTheorems, WellFoundedInduction, TLAPS

Said == Strings["filter"] \cup Strings["body"]

Events == ({"string", "key"} \X Said)
              \cup {<<"scalar">>, <<"start_array">>, <<"end_array">>, <<"start_map">>, <<"end_map">>, <<"error">>}

\* A sequence of whatever it is of.
IsSeq(s) == \E S : s \in Seq(S)

TypeOK ==
    /\ kind \in {"filter", "body"}
    /\ text \in Seq(Events)
    /\ open \in Seq({"array", "key", "value"})
    /\ status \in {"parsing", "refused", "done", "failed", "aborted", "unclosed", "unfreed"}

\* Where the next event will be.
Here == Len(text) + 1

-----------------------------------------------------------------------------
(***************************************************************************)
(* A text with one more event.                                             *)
(***************************************************************************)
\* What is appended comes last, and the rest stays.
LEMMA Appended ==
  ASSUME text \in Seq(Events), NEW e, text' = Append(text, e)
  PROVE  /\ Len(text) \in Nat /\ DOMAIN text = 1..Len(text)
         /\ Len(text') = Len(text) + 1 /\ DOMAIN text' = 1..(Len(text) + 1)
         /\ \A i \in 1..Len(text) : text'[i] = text[i]
         /\ text'[Len(text) + 1] = e
  OBVIOUS

\* The positions of a kind of event.
LEMMA PositionsAppended ==
  ASSUME text \in Seq(Events), NEW e, text' = Append(text, e), NEW S
  PROVE  /\ Positions(S) \subseteq 1..Len(text)
         /\ Positions(S)' = IF e[1] \in S THEN Positions(S) \cup {Here} ELSE Positions(S)
  BY Appended DEF Positions, Here

\* Where the next event will be, nothing is.
LEMMA HereIs ==
  ASSUME text \in Seq(Events)
  PROVE  /\ Len(text) \in Nat /\ Here = Len(text) + 1 /\ Here \in Nat
         /\ Here <= Here /\ ~(Here < Here) /\ Here \in 1..Here
         /\ \A k \in 1..Len(text) : k \in Nat /\ k <= Here /\ k < Here /\ k \in 1..Here
  BY DEF Here

\* Numbers up to a bound are finitely many.
LEMMA Few ==
  ASSUME NEW n \in Nat, NEW S, S \subseteq 1..n
  PROVE  IsFiniteSet(S) /\ Cardinality(S) \in Nat
<1>1. IsFiniteSet(1..n)
  BY FS_Interval
<1>2. IsFiniteSet(S)
  BY <1>1, FS_Subset
<1> QED
  BY <1>2, FS_CardinalityType

\* And one more is not among them.
LEMMA OneMore ==
  ASSUME NEW n \in Nat, NEW P, P \subseteq 1..n
  PROVE  /\ IsFiniteSet(P) /\ Cardinality(P) \in Nat
         /\ Cardinality(P \cup {n + 1}) = Cardinality(P) + 1
         /\ {j \in P : j < n + 1} = P
         /\ {j \in P : j < n + 2} = P
         /\ {j \in P \cup {n + 1} : j < n + 2} = P \cup {n + 1}
<1>1. IsFiniteSet(P) /\ Cardinality(P) \in Nat
  BY Few
<1>2. \A j \in P : j < n + 1 /\ j < n + 2 /\ j # n + 1
  OBVIOUS
<1>3. Cardinality(P \cup {n + 1}) = Cardinality(P) + 1
  <2>1. n + 1 \notin P
    BY <1>2
  <2> QED
    BY <1>1, <2>1, FS_AddElement
<1>4. {j \in P : j < n + 1} = P /\ {j \in P : j < n + 2} = P
  BY <1>2, Zenon
<1>5. n + 1 < n + 2
  OBVIOUS
<1>6. {j \in P \cup {n + 1} : j < n + 2} = P \cup {n + 1}
  BY <1>2, <1>5, Zenon
<1> QED
  BY <1>1, <1>3, <1>4, <1>6, Zenon

\* An event leaves the levels up to it what they were.
LEMMA LevelsKept ==
  ASSUME text \in Seq(Events), NEW e, text' = Append(text, e), NEW s, NEW t, NEW i \in 1..Here
  PROVE  Level(s, t, i)' = Level(s, t, i)
<1>1. \A S : {j \in Positions(S)' : j < i} = {j \in Positions(S) : j < i}
  BY PositionsAppended, Appended DEF Here
<1> QED
  BY <1>1 DEF Level

\* How many positions of an event there are, with one more event.
LEMMA CountsNext ==
  ASSUME text \in Seq(Events), NEW e, text' = Append(text, e), NEW s
  PROVE  /\ Cardinality({j \in Positions({s})' : j < Here + 1})
                = Cardinality({j \in Positions({s}) : j < Here}) + (IF e[1] = s THEN 1 ELSE 0)
         /\ Cardinality({j \in Positions({s}) : j < Here}) \in Nat
<1> DEFINE P == Positions({s})
           n == Len(text)
<1>1. n \in Nat /\ P \subseteq 1..n
  BY Appended, PositionsAppended
<1>2. Positions({s})' = IF e[1] = s THEN P \cup {n + 1} ELSE P
  BY PositionsAppended DEF Here
<1>3. Here = n + 1 /\ Here + 1 = n + 2
  BY <1>1 DEF Here
<1> HIDE DEF P, n
<1>4. /\ Cardinality({j \in P : j < n + 1}) \in Nat
      /\ Cardinality({j \in P \cup {n + 1} : j < n + 2}) = Cardinality({j \in P : j < n + 1}) + 1
      /\ Cardinality({j \in P : j < n + 2}) = Cardinality({j \in P : j < n + 1})
  <2>1. /\ Cardinality(P) \in Nat
        /\ Cardinality(P \cup {n + 1}) = Cardinality(P) + 1
        /\ {j \in P : j < n + 1} = P
        /\ {j \in P : j < n + 2} = P
        /\ {j \in P \cup {n + 1} : j < n + 2} = P \cup {n + 1}
    BY <1>1, OneMore
  <2> QED
    BY <2>1, Zenon
<1>5. CASE e[1] = s
  BY <1>2, <1>3, <1>4, <1>5, Zenon DEF P
<1>6. CASE e[1] # s
  <2>1. Cardinality({j \in Positions({s})' : j < Here + 1}) = Cardinality({j \in P : j < Here})
    BY <1>2, <1>3, <1>4, <1>6, Zenon
  <2>2. Cardinality({j \in P : j < Here}) \in Nat
    BY <1>3, <1>4, Zenon
  <2> QED
    BY <1>6, <2>1, <2>2 DEF P
<1> QED
  BY <1>5, <1>6

\* The level behind it goes up or down with it.
LEMMA LevelsNext ==
  ASSUME text \in Seq(Events), NEW e, text' = Append(text, e), NEW s, NEW t
  PROVE  Level(s, t, Here)'
            = Level(s, t, Here) + (IF e[1] = s THEN 1 ELSE 0) - (IF e[1] = t THEN 1 ELSE 0)
<1>1. Here' = Here + 1
  BY Appended DEF Here
<1> DEFINE before(S) == Cardinality({j \in Positions(S) : j < Here})
           behind(S) == Cardinality({j \in Positions(S)' : j < Here + 1})
<1>2. /\ Level(s, t, Here) = before({s}) - before({t})
      /\ Level(s, t, Here)' = behind({s}) - behind({t})
  BY <1>1 DEF Level
<1>3. /\ before({s}) \in Nat /\ behind({s}) = before({s}) + (IF e[1] = s THEN 1 ELSE 0)
      /\ before({t}) \in Nat /\ behind({t}) = before({t}) + (IF e[1] = t THEN 1 ELSE 0)
  BY CountsNext
<1> HIDE DEF before, behind
<1> QED
  BY <1>2, <1>3

-----------------------------------------------------------------------------
(***************************************************************************)
(* The body of a meta-file.                                                *)
(***************************************************************************)
Values == Strings["body"]

AllRows == ({"fulltext"} \X Values) \cup ({"metadata"} \X (Values \cup {NoField}) \X Values)

Bodies == [ok : BOOLEAN, depth : Nat, field : Values \cup {NoField}, rows : SUBSET AllRows]

\* The keys at some level.
Keys(l) == {i \in Positions({"key"}) : ObjectLevel(i) = l}

\* The values that are rows, and a field before each.
ValuesAt == {i \in Positions({"string"}) : ObjectLevel(i) = 1} \cup Keys(2)

FieldsGiven ==
    \A i \in ValuesAt : \E k \in Keys(1) : k < i /\ \A j \in Keys(1) : j < i => j <= k

\* The field is the last key of the outer object.
FieldKnown ==
    \E k \in Keys(1) : text[k] = <<"key", body.field>> /\ \A j \in Keys(1) : j <= k

\* What the parser has, in the middle of a body.
Reading ==
    /\ body.ok
    /\ open \in Seq({"key", "value"})
    /\ \A i \in 1..(Len(open) - 1) : open[i] = "key"
    /\ body.depth = Len(open)
    /\ body.depth = ObjectLevel(Here)
    /\ IF open \in {<<>>, <<"key">>} THEN body.field = NoField ELSE FieldKnown /\ body.field \in Values
    /\ FieldsGiven
    /\ body.rows = Rows

BodyInv ==
    /\ TypeOK
    /\ kind = "body" =>
          /\ body \in Bodies
          /\ status = "parsing" => Reading
          /\ status \in {"parsing", "refused", "done", "failed", "unclosed"}
          /\ status = "done" => body.rows = Rows
          /\ status = "unclosed" => open # <<>>

\* The greatest of some numbers.
LEMMA Greatest ==
  ASSUME NEW S, S \subseteq Nat, NEW k \in S, \A j \in S : j <= k
  PROVE  Max(S) = k
<1>1. k >= k /\ \A j \in S : k >= j
  OBVIOUS
<1>2. \A x \in S : (\A y \in S : x >= y) => x = k
  OBVIOUS
<1> QED
  BY <1>1, <1>2 DEF Max

\* The keys of a level, with one more event.
LEMMA KeysAppended ==
  ASSUME text \in Seq(Events), NEW e, text' = Append(text, e), NEW l
  PROVE  /\ Keys(l) \subseteq 1..Len(text)
         /\ Keys(l)' = IF e[1] = "key" /\ ObjectLevel(Here) = l THEN Keys(l) \cup {Here} ELSE Keys(l)
<1>1. /\ Positions({"key"}) \subseteq 1..Len(text)
      /\ Positions({"key"})' = IF e[1] = "key" THEN Positions({"key"}) \cup {Here} ELSE Positions({"key"})
  BY PositionsAppended
<1>2. /\ \A i \in 1..Len(text) : i \in 1..Here
      /\ Here \in 1..Here
  BY Appended DEF Here
<1>3. \A i \in 1..Here : ObjectLevel(i)' = ObjectLevel(i)
  BY LevelsKept DEF ObjectLevel
<1>4. Keys(l)' = {i \in Positions({"key"})' : ObjectLevel(i)' = l}
  BY DEF Keys
<1> QED
  BY <1>1, <1>2, <1>3, <1>4 DEF Keys

\* The field of a value.
FieldOf(i) == text[Max({j \in Keys(1) : j < i})][2]

LEMMA RowsByField == Rows = {Row(FieldOf(i), text[i][2]) : i \in ValuesAt}
  BY DEF Rows, FieldOf, ValuesAt, Keys

\* An event is a value where it is a string in an object or a key one deeper.
IsValue(e) ==
    \/ e[1] = "string" /\ ObjectLevel(Here) = 1
    \/ e[1] = "key" /\ ObjectLevel(Here) = 2

LEMMA ValuesAppended ==
  ASSUME text \in Seq(Events), NEW e, text' = Append(text, e)
  PROVE  /\ ValuesAt \subseteq 1..Len(text)
         /\ ValuesAt' = IF IsValue(e) THEN ValuesAt \cup {Here} ELSE ValuesAt
<1>1. /\ Positions({"string"}) \subseteq 1..Len(text)
      /\ Positions({"string"})' = IF e[1] = "string" THEN Positions({"string"}) \cup {Here} ELSE Positions({"string"})
  BY PositionsAppended
<1>2. /\ \A i \in 1..Len(text) : i \in 1..Here
      /\ Here \in 1..Here
  BY Appended DEF Here
<1>3. \A i \in 1..Here : ObjectLevel(i)' = ObjectLevel(i)
  BY LevelsKept DEF ObjectLevel
<1>4. /\ Keys(2) \subseteq 1..Len(text)
      /\ Keys(2)' = IF e[1] = "key" /\ ObjectLevel(Here) = 2 THEN Keys(2) \cup {Here} ELSE Keys(2)
  BY KeysAppended
<1>5. ValuesAt' = {i \in Positions({"string"})' : ObjectLevel(i)' = 1} \cup Keys(2)'
  BY DEF ValuesAt
<1> QED
  BY <1>1, <1>2, <1>3, <1>4, <1>5 DEF ValuesAt, IsValue

\* The rows of a text with one more event.
LEMMA RowsAppended ==
  ASSUME text \in Seq(Events), NEW e, text' = Append(text, e), FieldsGiven,
         IsValue(e) => FieldKnown
  PROVE  /\ FieldsGiven'
         /\ Rows' = IF IsValue(e) THEN Rows \cup {Row(body.field, e[2])} ELSE Rows
<1>1. /\ Len(text) \in Nat /\ Here = Len(text) + 1
      /\ \A i \in 1..Len(text) : text'[i] = text[i] /\ i < Here
      /\ text'[Here] = e
  BY Appended DEF Here
<1>2. /\ ValuesAt \subseteq 1..Len(text)
      /\ ValuesAt' = IF IsValue(e) THEN ValuesAt \cup {Here} ELSE ValuesAt
  BY ValuesAppended
<1>3. /\ Keys(1) \subseteq 1..Len(text)
      /\ Keys(1)' = Keys(1) \/ Keys(1)' = Keys(1) \cup {Here}
  BY KeysAppended
<1>4. \A i \in ValuesAt : {j \in Keys(1)' : j < i} = {j \in Keys(1) : j < i}
  BY <1>1, <1>2, <1>3
<1>5. {j \in Keys(1)' : j < Here} = Keys(1)
  <2>1. ~(Here < Here)
    BY <1>1
  <2> QED
    BY <1>1, <1>3, <2>1
<1>6. ASSUME NEW i \in ValuesAt
      PROVE  /\ \E k \in Keys(1)' : k < i /\ \A j \in Keys(1)' : j < i => j <= k
             /\ text'[Max({j \in Keys(1)' : j < i})][2] = FieldOf(i)
  <2>1. PICK k \in Keys(1) : k < i /\ \A j \in Keys(1) : j < i => j <= k
    BY DEF FieldsGiven
  <2> DEFINE S == {j \in Keys(1) : j < i}
  <2>2. S \subseteq Nat /\ k \in S /\ \A j \in S : j <= k
    BY <1>1, <1>3, <2>1
  <2>3. Max(S) = k
    <3> HIDE DEF S
    <3> QED
      BY <2>2, Greatest
  <2>4. text'[k] = text[k]
    BY <1>1, <1>3
  <2>5. text'[Max({j \in Keys(1)' : j < i})][2] = FieldOf(i)
    BY <1>4, <2>3, <2>4 DEF FieldOf
  <2>6. k \in Keys(1)' /\ \A j \in Keys(1)' : j < i => j <= k
    BY <1>3, <1>4, <2>1
  <2> QED
    BY <2>1, <2>5, <2>6
<1>7. ASSUME IsValue(e)
      PROVE  /\ \E k \in Keys(1)' : k < Here /\ \A j \in Keys(1)' : j < Here => j <= k
             /\ text'[Max({j \in Keys(1)' : j < Here})][2] = body.field
  <2>1. PICK k \in Keys(1) : text[k] = <<"key", body.field>> /\ \A j \in Keys(1) : j <= k
    BY <1>7 DEF FieldKnown
  <2>2. Max(Keys(1)) = k
    BY <1>1, <1>3, <2>1, Greatest
  <2>3. text'[k] = text[k] /\ k < Here
    BY <1>1, <1>3
  <2>4. text'[Max({j \in Keys(1)' : j < Here})][2] = body.field
    <3>1. Max({j \in Keys(1)' : j < Here}) = k
      BY <1>5, <2>2, Zenon
    <3>2. text'[k][2] = body.field
      BY <2>1, <2>3
    <3> QED
      BY <3>1, <3>2, Zenon
  <2>5. k \in Keys(1)' /\ \A j \in Keys(1)' : j < Here => j <= k
    BY <1>3, <1>5, <2>1
  <2> QED
    BY <2>3, <2>4, <2>5
<1>8. FieldsGiven'
  BY <1>2, <1>6, <1>7 DEF FieldsGiven
<1>9. Rows' = {Row(FieldOf(i)', text'[i][2]) : i \in ValuesAt'}
  BY DEF Rows, FieldOf, ValuesAt, Keys
<1>10. \A i \in ValuesAt : FieldOf(i)' = FieldOf(i) /\ text'[i][2] = text[i][2]
  BY <1>1, <1>2, <1>6 DEF FieldOf
<1>11. CASE ~IsValue(e)
  BY <1>2, <1>8, <1>9, <1>10, <1>11, RowsByField
<1>12. CASE IsValue(e)
  <2>1. text'[Max({j \in Keys(1)' : j < Here})][2] = body.field /\ text'[Here][2] = e[2]
    BY <1>1, <1>7, <1>12
  <2>2. {Row(FieldOf(i)', text'[i][2]) : i \in ValuesAt} = Rows
    BY <1>10, RowsByField
  <2> DEFINE R(i) == Row(text'[Max({j \in Keys(1)' : j < i})][2], text'[i][2])
  <2>3. Rows' = {R(i) : i \in ValuesAt} \cup {R(Here)}
    <3>1. Rows' = {R(i) : i \in ValuesAt \cup {Here}}
      BY <1>2, <1>9, <1>12 DEF FieldOf
    <3> HIDE DEF R
    <3> QED
      BY <3>1
  <2>4. R(Here) = Row(body.field, e[2])
    BY <2>1, Zenon
  <2>5. {R(i) : i \in ValuesAt} = Rows
    BY <2>2 DEF FieldOf
  <2> QED
    BY <1>8, <1>12, <2>3, <2>4, <2>5, Zenon
<1> QED
  BY <1>11, <1>12

\* The field stays known, and a key of the outer object is it.
LEMMA FieldKept ==
  ASSUME text \in Seq(Events), NEW e, text' = Append(text, e), FieldKnown,
         body'.field = body.field, ~(e[1] = "key" /\ ObjectLevel(Here) = 1)
  PROVE  FieldKnown'
<1>1. Keys(1) \subseteq 1..Len(text) /\ Keys(1)' = Keys(1)
  BY KeysAppended
<1>2. \A k \in 1..Len(text) : text'[k] = text[k]
  BY Appended
<1> QED
  BY <1>1, <1>2 DEF FieldKnown

LEMMA FieldSet ==
  ASSUME text \in Seq(Events), NEW e, text' = Append(text, e),
         e = <<"key", body'.field>>, ObjectLevel(Here) = 1
  PROVE  FieldKnown'
<1> e[1] = "key"
  OBVIOUS
<1>1. Keys(1) \subseteq 1..Len(text) /\ Keys(1)' = Keys(1) \cup {Here}
  BY KeysAppended
<1>2. text'[Here] = e /\ Here <= Here /\ \A k \in 1..Len(text) : k <= Here
  <2>1. Len(text) \in Nat /\ text'[Len(text) + 1] = e
    BY Appended
  <2>2. Here = Len(text) + 1
    BY DEF Here
  <2>3. text'[Here] = e
    BY <2>1, <2>2, Zenon
  <2>4. Here <= Here /\ \A k \in 1..Len(text) : k <= Here
    BY HereIs, Zenon
  <2> QED
    BY <2>3, <2>4
<1> QED
  BY <1>1, <1>2 DEF FieldKnown

\* What the callbacks make of their context.
LEMMA StartMapOf ==
  ASSUME NEW c \in Bodies
  PROVE  /\ StartMap(c) \in Bodies
         /\ StartMap(c).ok => /\ c.ok /\ StartMap(c).depth = c.depth + 1
                              /\ StartMap(c).field = c.field /\ StartMap(c).rows = c.rows
<1>1. CASE c.ok /\ c.depth <= IGNORE_MAX
  <2>1. StartMap(c) = [c EXCEPT !.depth = c.depth + 1]
    BY <1>1 DEF StartMap
  <2>2. c.depth + 1 \in Nat
    BY DEF Bodies
  <2> QED
    BY <1>1, <2>1, <2>2 DEF Bodies
<1>2. CASE ~(c.ok /\ c.depth <= IGNORE_MAX)
  <2>1. StartMap(c) = [c EXCEPT !.ok = FALSE]
    BY <1>2 DEF StartMap
  <2> QED
    BY <2>1 DEF Bodies
<1> QED
  BY <1>1, <1>2

LEMMA EndMapOf ==
  ASSUME NEW c \in Bodies, c.depth > 0
  PROVE  /\ EndMap(c) \in Bodies
         /\ EndMap(c).ok = c.ok
         /\ c.ok => /\ EndMap(c).depth = c.depth - 1 /\ EndMap(c).rows = c.rows
                    /\ EndMap(c).field = IF c.depth = 2 THEN NoField ELSE c.field
<1>1. CASE c.ok
  <2> DEFINE f == IF c.depth = 2 THEN NoField ELSE c.field
  <2>1. EndMap(c) = [c EXCEPT !.depth = c.depth - 1, !.field = f]
    BY <1>1 DEF EndMap
  <2>2. c.depth - 1 \in Nat /\ f \in Values \cup {NoField}
    BY DEF Bodies
  <2>3. EndMap(c) \in Bodies /\ EndMap(c).ok = c.ok
    <3> HIDE DEF f
    <3> QED
      BY <2>1, <2>2 DEF Bodies
  <2>4. EndMap(c).depth = c.depth - 1 /\ EndMap(c).field = f /\ EndMap(c).rows = c.rows
    <3> HIDE DEF f
    <3> QED
      BY <2>1 DEF Bodies
  <2> QED
    BY <2>3, <2>4
<1>2. CASE ~c.ok
  BY <1>2 DEF EndMap
<1> QED
  BY <1>1, <1>2

LEMMA MapKeyOf ==
  ASSUME NEW c \in Bodies, NEW s \in Values
  PROVE  /\ MapKey(c, s) \in Bodies
         /\ MapKey(c, s).ok = c.ok /\ MapKey(c, s).depth = c.depth
         /\ c.ok => /\ MapKey(c, s).field = IF c.depth = 1 THEN s ELSE c.field
                    /\ MapKey(c, s).rows = IF c.depth = 2 THEN c.rows \cup {Row(c.field, s)} ELSE c.rows
<1>1. Row(c.field, s) \in AllRows
  BY DEF Row, Bodies, AllRows
<1>2. c.depth # 1 \/ c.depth # 2
  BY DEF Bodies
<1> QED
  BY <1>1, <1>2 DEF MapKey, Bodies

LEMMA StringOf ==
  ASSUME NEW c \in Bodies, NEW s \in Values
  PROVE  /\ String(c, s) \in Bodies
         /\ String(c, s).ok =>
               /\ String(c, s).depth = c.depth
               /\ String(c, s).field = IF c.depth <= 1 THEN NoField ELSE c.field
               /\ String(c, s).rows = IF c.depth = 1 THEN c.rows \cup {Row(c.field, s)} ELSE c.rows
<1> DEFINE c1 == StartMap(c)
           c2 == MapKey(c1, s)
           c3 == StartMap(c2)
           c4 == EndMap(c3)
           c5 == EndMap(c4)
<1>1. c.depth \in Nat
  BY DEF Bodies
<1>2. /\ c1 \in Bodies
      /\ c1.ok => c.ok /\ c1.depth = c.depth + 1 /\ c1.field = c.field /\ c1.rows = c.rows
  BY StartMapOf
<1> HIDE DEF c1
<1>3. /\ c2 \in Bodies /\ c2.ok = c1.ok /\ c2.depth = c1.depth
      /\ c1.ok => /\ c2.field = IF c1.depth = 1 THEN s ELSE c1.field
                  /\ c2.rows = IF c1.depth = 2 THEN c1.rows \cup {Row(c1.field, s)} ELSE c1.rows
  BY <1>2, MapKeyOf
<1> HIDE DEF c2
<1>4. /\ c3 \in Bodies
      /\ c3.ok => c2.ok /\ c3.depth = c2.depth + 1 /\ c3.field = c2.field /\ c3.rows = c2.rows
  BY <1>3, StartMapOf
<1> HIDE DEF c3
<1>5. CASE ~c3.ok
  <2>1. c4 = c3 /\ c5 = c3
    BY <1>5 DEF EndMap
  <2> QED
    BY <1>4, <1>5, <2>1 DEF String, c1, c2, c3
<1>6. CASE c3.ok
  <2>1. c3.depth = c.depth + 2 /\ c3.depth > 0
    BY <1>1, <1>2, <1>3, <1>4, <1>6
  <2>2. /\ c4 \in Bodies /\ c4.ok /\ c4.depth = c.depth + 1 /\ c4.rows = c3.rows
        /\ c4.field = IF c3.depth = 2 THEN NoField ELSE c3.field
    BY <1>1, <1>4, <1>6, <2>1, EndMapOf
  <2> HIDE DEF c4
  <2>3. /\ c5 \in Bodies /\ c5.depth = c.depth /\ c5.rows = c4.rows
        /\ c5.field = IF c4.depth = 2 THEN NoField ELSE c4.field
    BY <1>1, <2>2, EndMapOf
  <2> HIDE DEF c5
  <2>4. c5.field = IF c.depth <= 1 THEN NoField ELSE c.field
    BY <1>1, <1>2, <1>3, <1>4, <1>6, <2>1, <2>2, <2>3
  <2>5. c5.rows = IF c.depth = 1 THEN c.rows \cup {Row(c.field, s)} ELSE c.rows
    <3>1. c1.depth = c.depth + 1 /\ (c1.depth = 2 <=> c.depth = 1)
      BY <1>1, <1>2, <1>3, <1>4, <1>6
    <3>2. c1.rows = c.rows /\ c1.field = c.field
      BY <1>2, <1>3, <1>4, <1>6
    <3>3. c2.rows = IF c.depth = 1 THEN c.rows \cup {Row(c.field, s)} ELSE c.rows
      BY <1>3, <1>4, <1>6, <3>1, <3>2, Zenon
    <3> QED
      BY <1>4, <1>6, <2>2, <2>3, <3>3
  <2>6. String(c, s) = c5
    BY DEF String, c1, c2, c3, c4, c5
  <2> QED
    BY <2>3, <2>4, <2>5, <2>6
<1> QED
  BY <1>5, <1>6

-----------------------------------------------------------------------------
(***************************************************************************)
(* The steps of a body.                                                    *)
(***************************************************************************)
\* Which containers are open in the cases that the field depends on.
LEMMA ShortOpen ==
  ASSUME NEW o \in Seq({"array", "key", "value"})
  PROVE  /\ Len(o) \in Nat
         /\ o = <<>> <=> Len(o) = 0
         /\ o = <<"key">> <=> Len(o) = 1 /\ o[1] = "key"
         /\ \A i \in 1..Len(o) : o[i] \in {"array", "key", "value"}
  OBVIOUS

\* The level of objects behind an event.
LEMMA ObjectsNext ==
  ASSUME text \in Seq(Events), NEW e, text' = Append(text, e)
  PROVE  ObjectLevel(Here)'
            = ObjectLevel(Here) + (IF e[1] = "start_map" THEN 1 ELSE 0) - (IF e[1] = "end_map" THEN 1 ELSE 0)
  BY LevelsNext DEF ObjectLevel

\* An event that is accepted, with what it does to the context and to yajl.
LEMMA ReadOn ==
  ASSUME text \in Seq(Events), Reading, NEW e, text' = Append(text, e),
         IsValue(e) => FieldKnown,
         body'.ok, open' \in Seq({"key", "value"}),
         \A i \in 1..(Len(open') - 1) : open'[i] = "key",
         Len(open') = Len(open) + (IF e[1] = "start_map" THEN 1 ELSE 0) - (IF e[1] = "end_map" THEN 1 ELSE 0),
         body'.depth = Len(open'),
         IF open' \in {<<>>, <<"key">>} THEN body'.field = NoField ELSE FieldKnown' /\ body'.field \in Values,
         body'.rows = IF IsValue(e) THEN body.rows \cup {Row(body.field, e[2])} ELSE body.rows
  PROVE  Reading'
<1>1. body'.depth = ObjectLevel(Here)'
  <2>1. ObjectLevel(Here)'
           = ObjectLevel(Here) + (IF e[1] = "start_map" THEN 1 ELSE 0) - (IF e[1] = "end_map" THEN 1 ELSE 0)
    BY ObjectsNext, Zenon
  <2>2. Len(open) = ObjectLevel(Here)
    BY DEF Reading
  <2> QED
    BY <2>1, <2>2, Zenon
<1>2. FieldsGiven' /\ Rows' = IF IsValue(e) THEN Rows \cup {Row(body.field, e[2])} ELSE Rows
  BY RowsAppended DEF Reading
<1>3. body'.rows = Rows'
  BY <1>2, Zenon DEF Reading
<1> QED
  BY <1>1, <1>2, <1>3, Zenon DEF Reading

\* The depth is that of the containers, and the field is known where there is one.
LEMMA ReadingSays ==
  ASSUME TypeOK, Reading
  PROVE  /\ Len(open) \in Nat /\ body.depth = Len(open) /\ ObjectLevel(Here) = Len(open)
         /\ \A i \in 1..Len(open) : open[i] \in {"key", "value"}
         /\ Len(open) = 0 => body.field = NoField
         /\ Len(open) = 1 /\ open[1] = "key" => body.field = NoField
         /\ Len(open) = 1 /\ open[1] = "value" => FieldKnown /\ body.field \in Values
         /\ Len(open) > 1 => FieldKnown /\ body.field \in Values
<1>1. /\ Len(open) \in Nat
      /\ open = <<>> <=> Len(open) = 0
      /\ open = <<"key">> <=> Len(open) = 1 /\ open[1] = "key"
  BY ShortOpen DEF TypeOK
<1>2. \A i \in 1..Len(open) : open[i] \in {"key", "value"}
  <2>1. open \in Seq({"key", "value"})
    BY Zenon DEF Reading
  <2> QED
    BY <2>1
<1>3. body.depth = Len(open) /\ ObjectLevel(Here) = Len(open)
  BY Zenon DEF Reading
<1>4. IF open \in {<<>>, <<"key">>} THEN body.field = NoField ELSE FieldKnown /\ body.field \in Values
  BY DEF Reading
<1>5. CASE open \in {<<>>, <<"key">>}
  <2>1. body.field = NoField
    BY <1>4, <1>5, Zenon
  <2>2. Len(open) = 0 \/ (Len(open) = 1 /\ open[1] = "key")
    BY <1>1, <1>5, Zenon
  <2>3. ~(Len(open) = 1 /\ open[1] = "value") /\ ~(Len(open) > 1)
    BY <1>1, <2>2
  <2> QED
    BY <1>1, <1>2, <1>3, <2>1, <2>3, Zenon
<1>6. CASE open \notin {<<>>, <<"key">>}
  <2>1. FieldKnown /\ body.field \in Values
    BY <1>4, <1>6, Zenon
  <2>2. ~(Len(open) = 0) /\ ~(Len(open) = 1 /\ open[1] = "key")
    BY <1>1, <1>6, Zenon
  <2> QED
    BY <1>1, <1>2, <1>3, <2>1, <2>2, Zenon
<1> QED
  BY <1>5, <1>6

\* After a value: what was open is, with the last waiting for a key.
LEMMA AfterIs ==
  ASSUME Reading, MayStart
  PROVE  /\ After \in Seq({"key", "value"}) /\ Len(After) = Len(open)
         /\ \A i \in 1..Len(open) : After[i] = "key"
         /\ Len(open) > 0 => open[Len(open)] = "value"
<1>1. open \in Seq({"key", "value"}) /\ \A i \in 1..(Len(open) - 1) : open[i] = "key"
  BY DEF Reading
<1>2. CASE open = <<>>
  BY <1>2 DEF After
<1>3. CASE open # <<>>
  <2>1. open[Len(open)] = "value" /\ Len(open) \in Nat \ {0}
    BY <1>1, <1>3 DEF MayStart, Last
  <2>2. After = [open EXCEPT ![Len(open)] = "key"]
    BY <1>3, <2>1 DEF After, Last
  <2> QED
    BY <1>1, <2>1, <2>2
<1> QED
  BY <1>2, <1>3

\* An event goes to the end of the text.
LEMMA EventAppends ==
  ASSUME TypeOK, NEW e \in Events, Event(e)
  PROVE  /\ text \in Seq(Events) /\ text' = Append(text, e) /\ text' \in Seq(Events)
         /\ status = "parsing" /\ kind' = kind
  BY DEF TypeOK, Event

\* A callback that accepts an event goes on, one that does not refuses the text.
LEMMA BodyStep ==
  ASSUME BodyInv, kind = "body", NEW e \in Events, Event(e),
         open' \in Seq({"array", "key", "value"}), body' \in Bodies, body'.ok => Reading',
         status' = IF body'.ok THEN status ELSE "refused"
  PROVE  BodyInv'
<1>1. /\ text' \in Seq(Events) /\ status = "parsing" /\ kind' = "body"
  BY EventAppends, Zenon DEF BodyInv
<1>2. (status' = "parsing" /\ body'.ok) \/ status' = "refused"
  BY <1>1, Zenon
<1>3. status' # "parsing" => status' = "refused"
  BY <1>2, Zenon
<1>4. "parsing" # "refused" /\ "done" # "refused" /\ "unclosed" # "refused" /\ "done" # "parsing" /\ "unclosed" # "parsing"
  OBVIOUS
<1>5. TypeOK'
  BY <1>1, <1>2 DEF TypeOK
<1> QED
  BY <1>1, <1>2, <1>4, <1>5, Zenon DEF BodyInv

\* A string is a value of the field, if it is one of the outer object.
LEMMA BodyString ==
  ASSUME BodyInv, kind = "body", NEW s \in Values, EventString(s)
  PROVE  BodyInv'
<1> DEFINE e == <<"string", s>>
<1>1. e \in Events /\ e[1] = "string" /\ e[2] = s
  BY DEF Events, Said, Values
<1>2. /\ Event(e) /\ MayStart /\ open' = After
      /\ body' = String(body, s)
      /\ status' = IF ~KeyAsserts(StartMap(body)) THEN "aborted" ELSE IF body'.ok THEN status ELSE "refused"
  <2>1. kind # "filter"
    OBVIOUS
  <2> QED
    BY <2>1 DEF EventString, Body
<1> HIDE DEF e
<1>3. /\ text \in Seq(Events) /\ text' = Append(text, e) /\ status = "parsing"
  BY <1>1, <1>2, EventAppends, Zenon DEF BodyInv
<1>4. TypeOK /\ Reading /\ body \in Bodies /\ body.ok
  BY <1>3, Zenon DEF BodyInv, Reading
<1>5. /\ Len(open) \in Nat /\ body.depth = Len(open) /\ ObjectLevel(Here) = Len(open)
      /\ Len(open) = 0 => body.field = NoField
      /\ Len(open) = 1 /\ open[1] = "value" => FieldKnown /\ body.field \in Values
      /\ Len(open) > 1 => FieldKnown /\ body.field \in Values
  BY <1>4, ReadingSays, Zenon
<1>6. /\ After \in Seq({"key", "value"}) /\ Len(After) = Len(open)
      /\ \A i \in 1..Len(open) : After[i] = "key"
      /\ Len(open) > 0 => open[Len(open)] = "value"
  BY <1>2, <1>4, AfterIs, Zenon
<1>7. /\ body' \in Bodies
      /\ body'.ok =>
            /\ body'.depth = body.depth
            /\ body'.field = IF body.depth <= 1 THEN NoField ELSE body.field
            /\ body'.rows = IF body.depth = 1 THEN body.rows \cup {Row(body.field, s)} ELSE body.rows
  BY <1>2, <1>4, StringOf, Zenon
<1>8. KeyAsserts(StartMap(body))
  <2>1. StartMap(body).ok => StartMap(body).depth = body.depth + 1 /\ StartMap(body).field = body.field
    BY <1>4, StartMapOf, Zenon
  <2>2. Len(open) + 1 = 1 => Len(open) = 0
    BY <1>5
  <2>3. Len(open) + 1 = 2 => Len(open) = 1 /\ open[1] = "value"
    BY <1>5, <1>6
  <2>4. NoField \notin Values
    BY JSONAssumption DEF Values
  <2> QED
    BY <1>5, <2>1, <2>2, <2>3, <2>4, Zenon DEF KeyAsserts
<1>9. IsValue(e) <=> body.depth = 1
  BY <1>1, <1>5 DEF IsValue
<1>10. ASSUME body'.ok PROVE Reading'
  <2>1. IsValue(e) => FieldKnown
    <3>1. Len(open) = 1 => open[1] = "value"
      BY <1>6
    <3> QED
      BY <1>5, <1>9, <3>1, Zenon
  <2>2. open' \in Seq({"key", "value"}) /\ Len(open') = Len(open)
    BY <1>2, <1>6, Zenon
  <2>3. \A i \in 1..(Len(open') - 1) : open'[i] = "key"
    BY <1>2, <1>5, <1>6
  <2>4. Len(open') = Len(open) + (IF e[1] = "start_map" THEN 1 ELSE 0) - (IF e[1] = "end_map" THEN 1 ELSE 0)
    BY <1>1, <1>5, <2>2
  <2>5. body'.depth = Len(open')
    BY <1>5, <1>7, <1>10, <2>2, Zenon
  <2>6. IF open' \in {<<>>, <<"key">>} THEN body'.field = NoField ELSE FieldKnown' /\ body'.field \in Values
    <3>1. CASE Len(open) <= 1
      <4>1. body'.field = NoField
        BY <1>5, <1>7, <1>10, <3>1, Zenon
      <4>2. open' \in Seq({"array", "key", "value"})
        BY <2>2
      <4>3. open' = <<>> \/ open' = <<"key">>
        <5>1. Len(open') = 0 \/ (Len(open') = 1 /\ open'[1] = "key")
          BY <1>2, <1>5, <1>6, <3>1
        <5> QED
          BY <4>2, <5>1, ShortOpen
      <4> QED
        BY <4>1, <4>3, Zenon
    <3>2. CASE ~(Len(open) <= 1)
      <4>1. Len(open) > 1 /\ body'.field = body.field
        BY <1>5, <1>7, <1>10, <3>2
      <4>2. FieldKnown /\ body.field \in Values
        BY <1>5, <4>1, Zenon
      <4>3. ~(e[1] = "key" /\ ObjectLevel(Here) = 1)
        BY <1>1
      <4>4. FieldKnown'
        BY <1>3, <4>1, <4>2, <4>3, FieldKept, Zenon
      <4>5. open' \notin {<<>>, <<"key">>}
        <5>1. Len(open') # 0 /\ Len(open') # 1
          BY <1>5, <2>2, <3>2
        <5>2. open' \in Seq({"array", "key", "value"})
          BY <2>2
        <5> QED
          BY <5>1, <5>2, ShortOpen
      <4> QED
        BY <4>1, <4>2, <4>4, <4>5, Zenon
    <3> QED
      BY <3>1, <3>2, Zenon
  <2>7. body'.rows = IF IsValue(e) THEN body.rows \cup {Row(body.field, e[2])} ELSE body.rows
    BY <1>1, <1>7, <1>9, <1>10, Zenon
  <2> QED
    BY <1>3, <1>4, <1>10, <2>1, <2>2, <2>3, <2>4, <2>5, <2>6, <2>7, ReadOn, Zenon
<1>11. open' \in Seq({"array", "key", "value"})
  BY <1>2, <1>6
<1>12. status' = IF body'.ok THEN status ELSE "refused"
  BY <1>2, <1>8, Zenon
<1> QED
  BY <1>1, <1>2, <1>7, <1>10, <1>11, <1>12, BodyStep, Zenon

\* An object starts: one more is open.
LEMMA BodyStartMap ==
  ASSUME BodyInv, kind = "body", EventStartMap
  PROVE  BodyInv'
<1> DEFINE e == <<"start_map">>
<1>1. e \in Events /\ e[1] = "start_map"
  BY DEF Events
<1>2. /\ Event(e) /\ MayStart /\ open' = Append(After, "key")
      /\ body' = StartMap(body)
      /\ status' = IF body'.ok THEN status ELSE "refused"
  <2>1. kind # "filter"
    OBVIOUS
  <2> QED
    BY <2>1 DEF EventStartMap, Body
<1> HIDE DEF e
<1>3. text \in Seq(Events) /\ text' = Append(text, e) /\ status = "parsing"
  BY <1>1, <1>2, EventAppends, Zenon DEF BodyInv
<1>4. TypeOK /\ Reading /\ body \in Bodies
  BY <1>3, Zenon DEF BodyInv
<1>5. /\ Len(open) \in Nat /\ body.depth = Len(open)
      /\ Len(open) = 0 => body.field = NoField
      /\ Len(open) = 1 /\ open[1] = "value" => FieldKnown /\ body.field \in Values
      /\ Len(open) > 1 => FieldKnown /\ body.field \in Values
  BY <1>4, ReadingSays, Zenon
<1>6. /\ After \in Seq({"key", "value"}) /\ Len(After) = Len(open)
      /\ \A i \in 1..Len(open) : After[i] = "key"
      /\ Len(open) > 0 => open[Len(open)] = "value"
  BY <1>2, <1>4, AfterIs, Zenon
<1>7. /\ body' \in Bodies
      /\ body'.ok => /\ body'.depth = Len(open) + 1
                     /\ body'.field = body.field /\ body'.rows = body.rows
  BY <1>2, <1>4, <1>5, StartMapOf, Zenon
<1>8. /\ open' \in Seq({"key", "value"}) /\ Len(open') = Len(open) + 1
      /\ \A i \in 1..Len(open') : open'[i] = "key"
  BY <1>2, <1>5, <1>6
<1>9. open' \in Seq({"array", "key", "value"})
  BY <1>8
<1>10. ASSUME body'.ok PROVE Reading'
  <2>1. IsValue(e) => FieldKnown
    BY <1>1 DEF IsValue
  <2>2. \A i \in 1..(Len(open') - 1) : open'[i] = "key"
    BY <1>5, <1>8
  <2>3. Len(open') = Len(open) + (IF e[1] = "start_map" THEN 1 ELSE 0) - (IF e[1] = "end_map" THEN 1 ELSE 0)
    BY <1>1, <1>5, <1>8
  <2>4. IF open' \in {<<>>, <<"key">>} THEN body'.field = NoField ELSE FieldKnown' /\ body'.field \in Values
    <3>1. CASE Len(open) = 0
      <4>1. Len(open') = 1 /\ open'[1] = "key"
        BY <1>8, <3>1
      <4>2. open' = <<"key">>
        BY <1>9, <4>1, ShortOpen
      <4> QED
        BY <1>5, <1>7, <1>10, <3>1, <4>2, Zenon
    <3>2. CASE Len(open) # 0
      <4>1. (Len(open) = 1 /\ open[1] = "value") \/ Len(open) > 1
        BY <1>5, <1>6, <3>2
      <4>2. FieldKnown /\ body.field \in Values
        BY <1>5, <4>1, Zenon
      <4>3. ~(e[1] = "key" /\ ObjectLevel(Here) = 1)
        BY <1>1
      <4>4. FieldKnown' /\ body'.field = body.field
        BY <1>3, <1>7, <1>10, <4>2, <4>3, FieldKept, Zenon
      <4>5. Len(open') # 0 /\ Len(open') # 1
        BY <1>5, <1>8, <3>2
      <4>6. open' \notin {<<>>, <<"key">>}
        BY <1>9, <4>5, ShortOpen
      <4> QED
        BY <4>2, <4>4, <4>6, Zenon
    <3> QED
      BY <3>1, <3>2, Zenon
  <2>5. body'.rows = IF IsValue(e) THEN body.rows \cup {Row(body.field, e[2])} ELSE body.rows
    BY <1>1, <1>7, <1>10 DEF IsValue
  <2>6. body'.depth = Len(open')
    BY <1>7, <1>8, <1>10, Zenon
  <2> QED
    BY <1>3, <1>4, <1>8, <1>10, <2>1, <2>2, <2>3, <2>4, <2>5, <2>6, ReadOn, Zenon
<1> QED
  BY <1>1, <1>2, <1>7, <1>9, <1>10, BodyStep, Zenon

\* The last container, that waited for a key.
LEMMA LastKey ==
  ASSUME Reading, open # <<>>, Last(open) = "key"
  PROVE  /\ Len(open) \in Nat \ {0}
         /\ \A i \in 1..Len(open) : open[i] = "key"
<1>1. open \in Seq({"key", "value"}) /\ \A i \in 1..(Len(open) - 1) : open[i] = "key"
  BY Zenon DEF Reading
<1>2. Len(open) \in Nat \ {0} /\ open[Len(open)] = "key"
  BY <1>1 DEF Last
<1>3. \A i \in 1..Len(open) : i \in 1..(Len(open) - 1) \/ i = Len(open)
  BY <1>2
<1> QED
  BY <1>1, <1>2, <1>3

\* What is left without the last.
LEMMA FrontIs ==
  ASSUME NEW S, NEW o \in Seq(S), Len(o) > 0
  PROVE  /\ Front(o) \in Seq(S) /\ Len(Front(o)) = Len(o) - 1
         /\ \A i \in 1..(Len(o) - 1) : Front(o)[i] = o[i]
<1> PICK n : n = Len(o)
  OBVIOUS
<1>1. n \in Nat /\ n > 0 /\ \A i \in 1..(n - 1) : o[i] \in S
  OBVIOUS
<1> DEFINE f == SubSeq(o, 1, n - 1)
<1>2. /\ f \in Seq(S)
      /\ Len(f) = IF 1 <= n - 1 THEN n - 1 - 1 + 1 ELSE 0
      /\ \A i \in 1..(n - 1 - 1 + 1) : f[i] = o[1 + i - 1]
  BY <1>1, SubSeqProperties
<1>3. Front(o) = f
  BY DEF Front
<1> HIDE DEF f
<1>4. Len(f) = n - 1
  BY <1>1, <1>2
<1>5. ASSUME NEW i \in 1..(n - 1) PROVE f[i] = o[i]
 <2>1. i \in 1..(n - 1 - 1 + 1) /\ 1 + i - 1 = i
   BY <1>1
 <2> QED
  BY <1>2, <2>1
<1> QED
  BY <1>2, <1>3, <1>4, <1>5

\* Numbers between.
LEMMA OneOrTwo ==
  ASSUME NEW n \in Nat \ {0}, n <= 2
  PROVE  n = 1 \/ n = 2
  OBVIOUS

\* A key is the next field, a value of the field, or is ignored.
LEMMA BodyMapKey ==
  ASSUME BodyInv, kind = "body", NEW s \in Values, EventMapKey(s)
  PROVE  BodyInv'
<1> DEFINE e == <<"key", s>>
<1>1. e \in Events /\ e[1] = "key" /\ e[2] = s /\ e = <<"key", s>>
  BY DEF Events, Said, Values
<1>2. /\ Event(e) /\ open # <<>> /\ Last(open) = "key"
      /\ open' = [open EXCEPT ![Len(open)] = "value"]
      /\ body' = MapKey(body, s)
      /\ status' = IF ~KeyAsserts(body) THEN "aborted" ELSE IF body'.ok THEN status ELSE "refused"
  <2>1. kind # "filter"
    OBVIOUS
  <2> QED
    BY <2>1 DEF EventMapKey, Body
<1> HIDE DEF e
<1>3. text \in Seq(Events) /\ text' = Append(text, e) /\ status = "parsing"
  BY <1>1, <1>2, EventAppends, Zenon DEF BodyInv
<1>4. TypeOK /\ Reading /\ body \in Bodies /\ body.ok
  BY <1>3, Zenon DEF BodyInv, Reading
<1>5. /\ Len(open) \in Nat /\ body.depth = Len(open) /\ ObjectLevel(Here) = Len(open)
      /\ Len(open) = 1 /\ open[1] = "key" => body.field = NoField
      /\ Len(open) > 1 => FieldKnown /\ body.field \in Values
  BY <1>4, ReadingSays, Zenon
<1>6. Len(open) \in Nat \ {0} /\ \A i \in 1..Len(open) : open[i] = "key"
  BY <1>2, <1>4, LastKey, Zenon
<1>7. /\ body' \in Bodies /\ body'.ok /\ body'.depth = body.depth
      /\ body'.field = IF body.depth = 1 THEN s ELSE body.field
      /\ body'.rows = IF body.depth = 2 THEN body.rows \cup {Row(body.field, s)} ELSE body.rows
  BY <1>2, <1>4, MapKeyOf, Zenon
<1>8. KeyAsserts(body)
  <2>1. Len(open) = 1 => open[1] = "key"
    BY <1>6
  <2>2. Len(open) = 2 => Len(open) > 1
    BY <1>5
  <2>3. NoField \notin Values
    BY JSONAssumption DEF Values
  <2> QED
    BY <1>5, <2>1, <2>2, <2>3, Zenon DEF KeyAsserts
<1>9. /\ open' \in Seq({"key", "value"}) /\ Len(open') = Len(open)
      /\ \A i \in 1..(Len(open') - 1) : open'[i] = "key"
      /\ open'[Len(open)] = "value"
  <2>1. open \in Seq({"key", "value"})
    BY <1>4, Zenon DEF Reading
  <2> QED
    BY <1>2, <1>6, <2>1
<1>10. open' \in Seq({"array", "key", "value"})
  BY <1>9
<1>11. IsValue(e) <=> Len(open) = 2
  BY <1>1, <1>5 DEF IsValue
<1>12. Reading'
  <2>1. IsValue(e) => FieldKnown
    BY <1>5, <1>11, SMTT(30)
  <2>2. Len(open') = Len(open) + (IF e[1] = "start_map" THEN 1 ELSE 0) - (IF e[1] = "end_map" THEN 1 ELSE 0)
    BY <1>1, <1>5, <1>9
  <2>3. open' \notin {<<>>, <<"key">>}
    <3>1. Len(open') # 0 /\ ~(Len(open') = 1 /\ open'[1] = "key")
      BY <1>6, <1>9
    <3> QED
      BY <1>10, <3>1, ShortOpen
  <2>4. FieldKnown' /\ body'.field \in Values
    <3>1. CASE Len(open) = 1
      <4>1. body'.field = s /\ e = <<"key", body'.field>>
        BY <1>1, <1>5, <1>7, <3>1, Zenon
      <4>2. ObjectLevel(Here) = 1
        BY <1>5, <3>1
      <4> QED
        BY <1>3, <4>1, <4>2, FieldSet, Zenon
    <3>2. CASE Len(open) # 1
      <4>1. Len(open) > 1 /\ ~(body.depth = 1) /\ ~(ObjectLevel(Here) = 1)
        BY <1>5, <1>6, <3>2
      <4>2. FieldKnown /\ body.field \in Values /\ body'.field = body.field
        BY <1>5, <1>7, <4>1, Zenon
      <4> QED
        BY <1>3, <4>1, <4>2, FieldKept, Zenon
    <3> QED
      BY <3>1, <3>2, Zenon
  <2>5. body'.rows = IF IsValue(e) THEN body.rows \cup {Row(body.field, e[2])} ELSE body.rows
    BY <1>1, <1>5, <1>7, <1>11, Zenon
  <2>6. body'.depth = Len(open')
    BY <1>5, <1>7, <1>9, Zenon
  <2> QED
    BY <1>3, <1>4, <1>7, <1>9, <2>1, <2>2, <2>3, <2>4, <2>5, <2>6, ReadOn, Zenon
<1>13. status' = IF body'.ok THEN status ELSE "refused"
  BY <1>2, <1>8, Zenon
<1> QED
  BY <1>1, <1>2, <1>7, <1>10, <1>12, <1>13, BodyStep, Zenon

\* An object ends, and with the outer one's value its field.
LEMMA BodyEndMap ==
  ASSUME BodyInv, kind = "body", EventEndMap
  PROVE  BodyInv'
<1> DEFINE e == <<"end_map">>
<1>1. e \in Events /\ e[1] = "end_map"
  BY DEF Events
<1>2. /\ Event(e) /\ open # <<>> /\ Last(open) = "key"
      /\ open' = Front(open)
      /\ body' = EndMap(body)
      /\ status' = IF body'.ok THEN status ELSE "refused"
  <2>1. kind # "filter"
    OBVIOUS
  <2> QED
    BY <2>1 DEF EventEndMap, Body
<1> HIDE DEF e
<1>3. text \in Seq(Events) /\ text' = Append(text, e) /\ status = "parsing"
  BY <1>1, <1>2, EventAppends, Zenon DEF BodyInv
<1>4. TypeOK /\ Reading /\ body \in Bodies /\ body.ok
  BY <1>3, Zenon DEF BodyInv, Reading
<1>5. /\ Len(open) \in Nat /\ body.depth = Len(open)
      /\ Len(open) = 1 /\ open[1] = "key" => body.field = NoField
      /\ Len(open) > 1 => FieldKnown /\ body.field \in Values
  BY <1>4, ReadingSays, Zenon
<1>6. Len(open) \in Nat \ {0} /\ \A i \in 1..Len(open) : open[i] = "key"
  BY <1>2, <1>4, LastKey, Zenon
<1>7. /\ body' \in Bodies /\ body'.ok /\ body'.depth = Len(open) - 1 /\ body'.rows = body.rows
      /\ body'.field = IF Len(open) = 2 THEN NoField ELSE body.field
  <2>1. body.depth > 0
    BY <1>5, <1>6
  <2> QED
    BY <1>2, <1>4, <1>5, <2>1, EndMapOf, Zenon
<1>8. /\ open' \in Seq({"key", "value"}) /\ Len(open') = Len(open) - 1
      /\ \A i \in 1..Len(open') : open'[i] = "key"
  <2>1. open \in Seq({"key", "value"})
    BY <1>4, Zenon DEF Reading
  <2> QED
    BY <1>2, <1>6, <2>1, FrontIs
<1>9. open' \in Seq({"array", "key", "value"})
  BY <1>8
<1>10. Reading'
  <2>1. IsValue(e) => FieldKnown
    BY <1>1 DEF IsValue
  <2>2. \A i \in 1..(Len(open') - 1) : open'[i] = "key"
    BY <1>5, <1>8
  <2>3. Len(open') = Len(open) + (IF e[1] = "start_map" THEN 1 ELSE 0) - (IF e[1] = "end_map" THEN 1 ELSE 0)
    BY <1>1, <1>5, <1>8
  <2>4. IF open' \in {<<>>, <<"key">>} THEN body'.field = NoField ELSE FieldKnown' /\ body'.field \in Values
    <3>1. CASE Len(open) <= 2
      <4>1. Len(open') = 0 \/ (Len(open') = 1 /\ open'[1] = "key")
        BY <1>6, <1>8, <3>1
      <4>2. open' \in {<<>>, <<"key">>}
        BY <1>9, <4>1, ShortOpen
      <4>3. Len(open) = 2 \/ (Len(open) = 1 /\ open[1] = "key")
        <5>1. Len(open) = 2 \/ Len(open) = 1
          <6>1. Len(open) \in Nat \ {0}
            BY <1>6, Zenon
          <6> QED
            BY <3>1, <6>1, OneOrTwo, Zenon
        <5>2. open[1] = "key"
          BY <1>6
        <5> QED
          BY <5>1, <5>2, Zenon
      <4>4. body'.field = NoField
        BY <1>5, <1>7, <4>3, Zenon
      <4> QED
        BY <4>2, <4>4, Zenon
    <3>2. CASE ~(Len(open) <= 2)
      <4>1. Len(open) > 1 /\ Len(open) # 2
        BY <1>6, <3>2
      <4>2. FieldKnown /\ body.field \in Values /\ body'.field = body.field
        BY <1>5, <1>7, <4>1, Zenon
      <4>3. ~(e[1] = "key" /\ ObjectLevel(Here) = 1)
        BY <1>1
      <4>4. FieldKnown'
        BY <1>3, <4>2, <4>3, FieldKept, Zenon
      <4>5. Len(open') # 0 /\ Len(open') # 1
        BY <1>5, <1>8, <3>2
      <4>6. open' \notin {<<>>, <<"key">>}
        BY <1>9, <4>5, ShortOpen
      <4> QED
        BY <4>2, <4>4, <4>6, Zenon
    <3> QED
      BY <3>1, <3>2, Zenon
  <2>5. body'.rows = IF IsValue(e) THEN body.rows \cup {Row(body.field, e[2])} ELSE body.rows
    BY <1>1, <1>7 DEF IsValue
  <2>6. body'.depth = Len(open')
    BY <1>7, <1>8, Zenon
  <2> QED
    BY <1>3, <1>4, <1>7, <1>8, <2>1, <2>2, <2>3, <2>4, <2>5, <2>6, ReadOn, Zenon
<1> QED
  BY <1>1, <1>2, <1>7, <1>9, <1>10, BodyStep, Zenon

\* What no body holds: the rest of the text is not read.
LEMMA BodyRefused ==
  ASSUME BodyInv, kind = "body", TypeOK', kind' = kind, body' \in Bodies, status' = "refused"
  PROVE  BodyInv'
<1>1. "parsing" # "refused" /\ "done" # "refused" /\ "unclosed" # "refused"
  OBVIOUS
<1> QED
  BY <1>1, Zenon DEF BodyInv

\* A body that ends has no object open, or its caller's assertion fails.
LEMMA BodyComplete ==
  ASSUME BodyInv, kind = "body", TypeOK', Complete
  PROVE  BodyInv'
<1>1. /\ status \in {"parsing", "refused"} /\ UNCHANGED <<kind, text, open, filters, body>>
      /\ status' = IF status = "refused" THEN "failed" ELSE IF body.depth > 0 THEN "unclosed" ELSE "done"
  <2>1. kind # "filter"
    OBVIOUS
  <2> QED
    BY <2>1, Zenon DEF Complete
<1>2. body \in Bodies /\ body' = body /\ kind' = "body" /\ open' = open
  BY <1>1 DEF BodyInv
<1>3. CASE status = "refused"
  <2>1. status' = "failed"
    BY <1>1, <1>3
  <2> QED
    BY <1>2, <2>1 DEF BodyInv
<1>4. CASE status # "refused"
  <2>1. Reading /\ status' = IF body.depth > 0 THEN "unclosed" ELSE "done"
    BY <1>1, <1>4 DEF BodyInv
  <2>2. body.rows = Rows
    BY <2>1, Zenon DEF Reading
  <2>3. Rows' = Rows
    BY <1>1 DEF Rows, Keys, Positions, ObjectLevel, Level
  <2>4. body.depth > 0 => open # <<>>
    <3>1. body.depth = Len(open) /\ open \in Seq({"array", "key", "value"})
      BY <2>1, Zenon DEF Reading, BodyInv, TypeOK
    <3>2. open = <<>> => Len(open) = 0
      BY <3>1, ShortOpen, Zenon
    <3> QED
      BY <3>1, <3>2
  <2>5. CASE body.depth > 0
    <3>1. status' = "unclosed"
      BY <2>1, <2>5
    <3>2. open' # <<>>
      BY <1>2, <2>4, <2>5, Zenon
    <3>3. "unclosed" # "parsing" /\ "unclosed" # "done"
      OBVIOUS
    <3> QED
      BY <1>2, <3>1, <3>2, <3>3, Zenon DEF BodyInv
  <2>6. CASE ~(body.depth > 0)
    <3>1. status' = "done"
      BY <2>1, <2>6
    <3>2. body'.rows = Rows'
      BY <1>2, <2>2, <2>3, Zenon
    <3>3. "done" # "parsing" /\ "done" # "unclosed"
      OBVIOUS
    <3> QED
      BY <1>2, <3>1, <3>2, <3>3, Zenon DEF BodyInv
  <2> QED
    BY <2>5, <2>6
<1> QED
  BY <1>3, <1>4

-----------------------------------------------------------------------------
(***************************************************************************)
(* Every step.                                                             *)
(***************************************************************************)
\* An event adds to the text, and the parsers go on, refuse or stop.
LEMMA EventType ==
  ASSUME TypeOK, NEW e \in Events, Event(e), open' \in Seq({"array", "key", "value"}),
         status' \in {status, "refused", "aborted"}
  PROVE  TypeOK'
<1>1. text' \in Seq(Events) /\ status = "parsing" /\ kind' = kind
  BY EventAppends, Zenon
<1> QED
  BY <1>1 DEF TypeOK

\* What the parsers make of an event.
LEMMA CallbackStatus ==
  /\ \A s : FilterString(s) => status' \in {status, "refused", "aborted"}
  /\ FilterStartArray => status' \in {status, "refused", "aborted"}
  /\ FilterEndArray => status' \in {status, "refused", "aborted"}
  /\ Ignored => status' \in {status, "refused", "aborted"}
  /\ \A c, a : Body(c, a) => status' \in {status, "refused", "aborted"}
  BY DEF FilterString, FilterStartArray, FilterEndArray, Ignored, Body, Accept, Refuse, Abort

\* Setting the last element.
LEMMA LastSet ==
  ASSUME NEW S, NEW o \in Seq(S), o # <<>>, NEW v \in S
  PROVE  [o EXCEPT ![Len(o)] = v] \in Seq(S)
  BY Len(o) \in 1..Len(o), ExceptSeq

\* What is open, in any text.
LEMMA OpenType ==
  ASSUME TypeOK
  PROVE  /\ MayStart => /\ After \in Seq({"array", "key", "value"})
                        /\ Append(After, "array") \in Seq({"array", "key", "value"})
                        /\ Append(After, "key") \in Seq({"array", "key", "value"})
         /\ open # <<>> => /\ Front(open) \in Seq({"array", "key", "value"})
                           /\ [open EXCEPT ![Len(open)] = "value"] \in Seq({"array", "key", "value"})
<1>1. open \in Seq({"array", "key", "value"})
  BY DEF TypeOK
<1>2. After \in Seq({"array", "key", "value"})
  <2>1. CASE open # <<>> /\ Last(open) = "value"
    <3>1. After = [open EXCEPT ![Len(open)] = "key"]
      BY <2>1 DEF After
    <3> QED
      BY <1>1, <2>1, <3>1, LastSet
  <2>2. CASE ~(open # <<>> /\ Last(open) = "value")
    BY <1>1, <2>2 DEF After
  <2> QED
    BY <2>1, <2>2
<1>3. open # <<>> => Front(open) \in Seq({"array", "key", "value"})
  <2>1. open # <<>> => Len(open) > 0
    BY <1>1
  <2> QED
    BY <1>1, <2>1, FrontIs, Zenon
<1>4. open # <<>> => [open EXCEPT ![Len(open)] = "value"] \in Seq({"array", "key", "value"})
  BY <1>1, LastSet
<1>5. /\ Append(After, "array") \in Seq({"array", "key", "value"})
      /\ Append(After, "key") \in Seq({"array", "key", "value"})
  BY <1>2
<1> QED
  BY <1>2, <1>3, <1>4, <1>5

LEMMA TypeStep ==
  ASSUME TypeOK, [JSONNext]_jsonVars
  PROVE  TypeOK'
<1>1. ASSUME NEW s \in Strings[kind], EventString(s) PROVE TypeOK'
  <2>1. <<"string", s>> \in Events
    BY DEF Events, Said, TypeOK
  <2>2. Event(<<"string", s>>) /\ open' = After /\ MayStart /\ status' \in {status, "refused", "aborted"}
    BY <1>1, CallbackStatus, Zenon DEF EventString
  <2> QED
    BY <2>1, <2>2, EventType, OpenType, Zenon
<1>2. ASSUME NEW s \in Strings[kind], EventMapKey(s) PROVE TypeOK'
  <2>1. <<"key", s>> \in Events
    BY DEF Events, Said, TypeOK
  <2>2. /\ Event(<<"key", s>>) /\ open # <<>> /\ open' = [open EXCEPT ![Len(open)] = "value"]
        /\ status' \in {status, "refused", "aborted"}
    BY <1>2, CallbackStatus, Zenon DEF EventMapKey
  <2> QED
    BY <2>1, <2>2, EventType, OpenType, Zenon
<1>3. /\ <<"scalar">> \in Events /\ <<"start_array">> \in Events /\ <<"end_array">> \in Events
      /\ <<"start_map">> \in Events /\ <<"end_map">> \in Events /\ <<"error">> \in Events
  BY Zenon DEF Events
<1>4. CASE EventScalar
  <2>1. Event(<<"scalar">>) /\ open' = After /\ MayStart /\ status' \in {status, "refused", "aborted"}
    BY <1>4, CallbackStatus, Zenon DEF EventScalar
  <2> QED
    BY <1>3, <2>1, EventType, OpenType, Zenon
<1>5. CASE EventError
  <2>1. Event(<<"error">>) /\ open' = open /\ status' \in {status, "refused", "aborted"}
    BY <1>5 DEF EventError
  <2>2. open' \in Seq({"array", "key", "value"})
    BY <2>1 DEF TypeOK
  <2> QED
    BY <1>3, <2>1, <2>2, EventType, Zenon
<1>6. CASE EventStartArray
  <2>1. /\ Event(<<"start_array">>) /\ open' = Append(After, "array") /\ MayStart
        /\ status' \in {status, "refused", "aborted"}
    BY <1>6, CallbackStatus, Zenon DEF EventStartArray
  <2> QED
    BY <1>3, <2>1, EventType, OpenType, Zenon
<1>7. CASE EventEndArray
  <2>1. /\ Event(<<"end_array">>) /\ open' = Front(open) /\ open # <<>>
        /\ status' \in {status, "refused", "aborted"}
    BY <1>7, CallbackStatus, Zenon DEF EventEndArray
  <2> QED
    BY <1>3, <2>1, EventType, OpenType, Zenon
<1>8. CASE EventStartMap
  <2>1. /\ Event(<<"start_map">>) /\ open' = Append(After, "key") /\ MayStart
        /\ status' \in {status, "refused", "aborted"}
    BY <1>8, CallbackStatus, Zenon DEF EventStartMap
  <2> QED
    BY <1>3, <2>1, EventType, OpenType, Zenon
<1>9. CASE EventEndMap
  <2>1. /\ Event(<<"end_map">>) /\ open' = Front(open) /\ open # <<>>
        /\ status' \in {status, "refused", "aborted"}
    BY <1>9, CallbackStatus, Zenon DEF EventEndMap
  <2> QED
    BY <1>3, <2>1, EventType, OpenType, Zenon
<1>10. CASE Complete
  <2>1. UNCHANGED <<kind, text, open>> /\ status' \in {"unclosed", "done", "failed"}
    BY <1>10 DEF Complete
  <2> QED
    BY <2>1 DEF TypeOK
<1>11. CASE Free
  BY <1>11 DEF Free, TypeOK
<1>12. CASE UNCHANGED jsonVars
  BY <1>12 DEF jsonVars, TypeOK
<1> QED
  BY <1>1, <1>2, <1>4, <1>5, <1>6, <1>7, <1>8, <1>9, <1>10, <1>11, <1>12 DEF JSONNext

LEMMA BodyNext ==
  ASSUME BodyInv, [JSONNext]_jsonVars
  PROVE  BodyInv'
<1>1. TypeOK'
  BY TypeStep, Zenon DEF BodyInv
<1>2. kind' = kind
  BY DEF JSONNext, EventString, EventMapKey, EventScalar, EventError, EventStartArray, EventEndArray,
         EventStartMap, EventEndMap, Event, Complete, Free, jsonVars
<1>3. CASE kind # "body"
  BY <1>1, <1>2, <1>3, Zenon DEF BodyInv
<1>4. CASE kind = "body"
  <2>1. Strings[kind] = Values
    BY <1>4 DEF Values
  <2>2. kind # "filter" /\ body \in Bodies
    BY <1>4 DEF BodyInv
  <2>3. [body EXCEPT !.ok = FALSE] \in Bodies
    BY <2>2 DEF Bodies
  <2>4. ASSUME NEW s \in Strings[kind], EventString(s) PROVE BodyInv'
    BY <1>4, <2>1, <2>4, BodyString, Zenon
  <2>5. ASSUME NEW s \in Strings[kind], EventMapKey(s) PROVE BodyInv'
    BY <1>4, <2>1, <2>5, BodyMapKey, Zenon
  <2>6. ASSUME Body([body EXCEPT !.ok = FALSE], TRUE) PROVE BodyInv'
    <3>1. body' \in Bodies /\ status' = "refused"
      BY <2>2, <2>3, <2>6 DEF Body, Bodies
    <3> QED
      BY <1>1, <1>2, <1>4, <3>1, BodyRefused, Zenon
  <2>7. CASE EventScalar
    BY <2>2, <2>6, <2>7, Zenon DEF EventScalar
  <2>8. CASE EventStartArray
    BY <2>2, <2>6, <2>8, Zenon DEF EventStartArray
  <2>9. CASE EventError
    <3>1. body' = body /\ status' = "refused"
      BY <2>9 DEF EventError
    <3> QED
      BY <1>1, <1>2, <1>4, <2>2, <3>1, BodyRefused, Zenon
  <2>10. CASE UNCHANGED jsonVars
    <3>1. body' = body /\ status' = status /\ open' = open /\ kind' = kind /\ text' = text
      BY <2>10 DEF jsonVars
    <3>2. Rows' = Rows /\ Reading' = Reading
      BY <3>1 DEF Rows, Reading, FieldKnown, FieldsGiven, ValuesAt, Keys, Positions, ObjectLevel, Level, Here
    <3> QED
      BY <1>1, <3>1, <3>2, Zenon DEF BodyInv
  <2>11. ~EventEndArray /\ ~Free
    BY <2>2 DEF EventEndArray, Free
  <2> QED
    BY <1>1, <1>4, <2>4, <2>5, <2>7, <2>8, <2>9, <2>10, <2>11,
       BodyStartMap, BodyEndMap, BodyComplete, Zenon DEF JSONNext
<1> QED
  BY <1>3, <1>4

LEMMA BodyInit ==
  ASSUME JSONInit
  PROVE  BodyInv
<1>1. TypeOK
  BY DEF JSONInit, TypeOK
<1>2. text = <<>> /\ open = <<>> /\ status = "parsing" /\ body = [ok |-> TRUE, depth |-> 0, field |-> NoField, rows |-> {}]
  BY DEF JSONInit
<1>3. body \in Bodies
  BY <1>2 DEF Bodies
<1>4. \A S : Positions(S) = {}
  BY <1>2 DEF Positions
<1>5. ValuesAt = {}
  BY <1>4 DEF ValuesAt, Keys
<1>6. FieldsGiven /\ Rows = {}
  BY <1>5, RowsByField DEF FieldsGiven
<1>7. ObjectLevel(Here) = 0
  <2>1. \A S : {j \in Positions(S) : j < Here} = {}
    BY <1>4
  <2>2. Cardinality({}) = 0
    BY FS_EmptySet
  <2> QED
    BY <2>1, <2>2 DEF ObjectLevel, Level
<1>8. Reading
  BY <1>2, <1>6, <1>7 DEF Reading
<1> QED
  BY <1>1, <1>2, <1>3, <1>8 DEF BodyInv

\* The rows of a meta-file are its fields with their values, whatever the text
\* and however deep its objects (yajl_map_key, yajl_end_map).
THEOREM RowsAreAsWritten == JSONSpec => []RowsAsWritten
<1>1. JSONInit => BodyInv
  BY BodyInit
<1>2. BodyInv /\ [JSONNext]_jsonVars => BodyInv'
  BY BodyNext
<1>3. BodyInv => RowsAsWritten
  BY Zenon DEF BodyInv, RowsAsWritten
<1> QED
  BY <1>1, <1>2, <1>3, PTL DEF JSONSpec

-----------------------------------------------------------------------------
(***************************************************************************)
(* A posted filter.                                                        *)
(***************************************************************************)
Types == Collections \cup LeafTypes

\* The arrays among containers, and those that are open.
ArraysIn(o) == {i \in DOMAIN o : o[i] = "array"}
OpenArrays == ArraysIn(open)

\* The array at i is open, and the k-th of those that are.
IsOpen(k, i) ==
    /\ i \in Arrays
    /\ ArrayLevel(i) = k - 1
    /\ \A j \in (i + 1)..Here : ArrayLevel(j) > k - 1

\* The array starts with the string t.
StartsWith(i, t) ==
    \E m \in InArray(i) : text[m] = <<"string", t>> /\ \A j \in InArray(i) : m <= j

\* The k-th filter of the stack has the type that the array at i gives it, and if
\* it is none of others it has its arguments, but for an array without a type.
BuiltFrom(k, i) ==
    /\ IsSeq(filters[k])
    /\ filters[k] = NoFilter => k = Len(filters) /\ InArray(i) = {}
    /\ filters[k] # NoFilter =>
          /\ filters[k][1] \in Types
          /\ StartsWith(i, filters[k][1])
          /\ filters[k][1] \notin Collections =>
                IF k = Len(filters) THEN Cardinality(InArray(i)) = Len(filters[k])
                ELSE filters[k + 1] = NoFilter

Building ==
    /\ IsSeq(filters)
    /\ Len(filters) = Cardinality(OpenArrays)
    /\ Len(filters) = ArrayLevel(Here)
    /\ \A k \in 1..Len(filters) : \E i \in Arrays : IsOpen(k, i) /\ BuiltFrom(k, i)
    /\ result # NoFilter => Outermost # {}

\* What may fail: a type that nobody knows, or an array without a place.
NoPlace ==
    \/ \E i \in Arrays : Type(i) \notin Types
    \/ \E i \in Arrays : ArrayLevel(i) = DEPTH_MAX
    \/ Cardinality(Outermost) > 1

FilterInv ==
    /\ TypeOK
    /\ kind = "filter" =>
          /\ status = "parsing" => Building
          /\ status = "refused" => ~WellFormed
          /\ status = "aborted" => NoPlace
          /\ status = "unclosed" => open # <<>> \/ ~WellFormed

\* The least of some numbers.
LEMMA Least ==
  ASSUME NEW S, S \subseteq Nat, NEW m \in S, \A j \in S : m <= j
  PROVE  Min(S) = m
<1>1. \A x \in S : (\A y \in S : x <= y) => x = m
  OBVIOUS
<1> QED
  BY <1>1 DEF Min

\* Sequences, of whatever they are.
LEMMA SeqIs ==
  ASSUME NEW o, IsSeq(o)
  PROVE  /\ Len(o) \in Nat /\ DOMAIN o = 1..Len(o)
         /\ o = <<>> <=> Len(o) = 0
<1> PICK S : o \in Seq(S)
  BY DEF IsSeq
<1> QED
  OBVIOUS

LEMMA SeqAppended ==
  ASSUME NEW o, IsSeq(o), NEW x
  PROVE  /\ IsSeq(Append(o, x)) /\ Len(Append(o, x)) = Len(o) + 1
         /\ \A k \in 1..Len(o) : Append(o, x)[k] = o[k]
         /\ Append(o, x)[Len(o) + 1] = x
<1> PICK S : o \in Seq(S)
  BY DEF IsSeq
<1>1. o \in Seq(S \cup {x})
  OBVIOUS
<1>2. Append(o, x) \in Seq(S \cup {x})
  BY <1>1
<1>3. IsSeq(Append(o, x))
  BY <1>2 DEF IsSeq
<1> QED
  BY <1>1, <1>3

LEMMA SeqFront ==
  ASSUME NEW o, IsSeq(o), Len(o) > 0
  PROVE  /\ IsSeq(Front(o)) /\ Len(Front(o)) = Len(o) - 1
         /\ \A k \in 1..(Len(o) - 1) : Front(o)[k] = o[k]
<1> PICK S : o \in Seq(S)
  BY DEF IsSeq
<1>1. /\ Front(o) \in Seq(S) /\ Len(Front(o)) = Len(o) - 1
      /\ \A k \in 1..(Len(o) - 1) : Front(o)[k] = o[k]
  BY FrontIs
<1> QED
  BY <1>1, Zenon DEF IsSeq

-----------------------------------------------------------------------------
(***************************************************************************)
(* Arrays of a text with one more event.                                   *)
(***************************************************************************)
\* The arrays, and how deep they are.
LEMMA ArraysNext ==
  ASSUME text \in Seq(Events), NEW e, text' = Append(text, e)
  PROVE  /\ Arrays \subseteq 1..Len(text)
         /\ Arrays' = IF e[1] = "start_array" THEN Arrays \cup {Here} ELSE Arrays
         /\ \A i \in 1..Here : ArrayLevel(i)' = ArrayLevel(i)
         /\ ArrayLevel(Here)'
               = ArrayLevel(Here) + (IF e[1] = "start_array" THEN 1 ELSE 0) - (IF e[1] = "end_array" THEN 1 ELSE 0)
         /\ Here' = Here + 1
<1>1. \A i \in 1..Here : ArrayLevel(i)' = ArrayLevel(i)
  BY LevelsKept DEF ArrayLevel
<1>2. ArrayLevel(Here)'
         = ArrayLevel(Here) + (IF e[1] = "start_array" THEN 1 ELSE 0) - (IF e[1] = "end_array" THEN 1 ELSE 0)
  BY LevelsNext DEF ArrayLevel
<1>3. /\ Arrays \subseteq 1..Len(text)
      /\ Arrays' = IF e[1] = "start_array" THEN Arrays \cup {Here} ELSE Arrays
  BY PositionsAppended DEF Arrays
<1>4. Here' = Here + 1
  BY Appended DEF Here
<1> QED
  BY <1>1, <1>2, <1>3, <1>4

\* An array stays open until the level is its own again.
LEMMA StaysOpen ==
  ASSUME text \in Seq(Events), NEW e, text' = Append(text, e),
         NEW k \in Nat, NEW i, IsOpen(k, i), ArrayLevel(Here)' > k - 1
  PROVE  IsOpen(k, i)'
<1>1. Len(text) \in Nat /\ Here = Len(text) + 1 /\ Here' = Here + 1
  BY HereIs, ArraysNext
<1>2. i \in Arrays /\ i \in Arrays' /\ i \in 1..Len(text)
  BY ArraysNext DEF IsOpen
<1>3. \A j \in 1..Here : ArrayLevel(j)' = ArrayLevel(j)
  BY ArraysNext
<1>4. i \in 1..Here /\ \A j \in (i + 1)..Here : j \in 1..Here
  BY <1>1, <1>2
<1>5. ArrayLevel(i)' = k - 1
  BY <1>3, <1>4 DEF IsOpen
<1>6. ASSUME NEW j \in (i + 1)..Here' PROVE ArrayLevel(j)' > k - 1
  <2>1. j \in (i + 1)..Here \/ j = Here'
    BY <1>1, <1>2
  <2>2. CASE j \in (i + 1)..Here
    BY <1>3, <1>4, <2>2 DEF IsOpen
  <2>3. CASE j = Here'
    BY <2>3
  <2> QED
    BY <2>1, <2>2, <2>3
<1> QED
  BY <1>2, <1>5, <1>6, Zenon DEF IsOpen

\* An element of an array.
IsElement(e) == e[1] = "string" \/ e[1] = "start_array"

\* The innermost array gets the next element.
LEMMA InArrayNext ==
  ASSUME text \in Seq(Events), NEW e, text' = Append(text, e),
         NEW k \in Nat, NEW i, IsOpen(k, i)
  PROVE  /\ InArray(i) \subseteq 1..Len(text)
         /\ InArray(i)' = IF IsElement(e) /\ ArrayLevel(Here) = k THEN InArray(i) \cup {Here} ELSE InArray(i)
<1> PICK h : h = Here
  OBVIOUS
<1> DEFINE P == Positions({"string", "start_array"})
           In(j) == /\ i < j /\ ArrayLevel(j) = ArrayLevel(i) + 1
                    /\ \A l \in (i + 1)..j : ArrayLevel(l) > ArrayLevel(i)
<1>1. Len(text) \in Nat /\ Here = Len(text) + 1 /\ \A j \in 1..Len(text) : j < Here /\ j \in 1..Here
  BY HereIs
<1>2. i \in 1..Len(text) /\ ArrayLevel(i) = k - 1
  BY ArraysNext DEF IsOpen
<1>3. P \subseteq 1..Len(text) /\ P' = IF IsElement(e) THEN P \cup {Here} ELSE P
  BY PositionsAppended DEF IsElement
<1>4. ASSUME NEW j \in 1..Here PROVE In(j)' <=> In(j)
  <2>1. \A l \in 1..Here : ArrayLevel(l)' = ArrayLevel(l)
    BY ArraysNext
  <2>2. i \in 1..Here /\ \A l \in (i + 1)..j : l \in 1..Here
    BY <1>1, <1>2
  <2> QED
    BY <2>1, <2>2
<1>5. In(h) <=> ArrayLevel(Here) = k
  <2>1. ArrayLevel(Here) = ArrayLevel(i) + 1 <=> ArrayLevel(Here) = k
    BY <1>2
  <2>2. \A l \in (i + 1)..Here : ArrayLevel(l) > ArrayLevel(i)
    BY <1>2 DEF IsOpen
  <2>3. i < Here
    BY <1>1, <1>2
  <2> QED
    BY <2>1, <2>2, <2>3
<1>6. InArray(i) = {j \in P : In(j)} /\ InArray(i)' = {j \in P' : In(j)'}
  BY DEF InArray
<1>7. h \in 1..Here
  BY HereIs
<1>8. \A j \in P : In(j)' <=> In(j)
  BY <1>1, <1>3, <1>4
<1>9. In(h)' <=> ArrayLevel(Here) = k
  BY <1>4, <1>5, <1>7
<1> HIDE DEF P, In
<1> QED
  BY <1>3, <1>6, <1>8, <1>9

\* An array that starts has no elements.
LEMMA InNewArray ==
  ASSUME text \in Seq(Events), NEW e, text' = Append(text, e), e[1] = "start_array",
         NEW n \in Nat, ArrayLevel(Here) = n, NEW h, h = Here
  PROVE  h \in Arrays' /\ IsOpen(n + 1, h)' /\ InArray(h)' = {}
<1>1. Len(text) \in Nat /\ h = Len(text) + 1 /\ h \in 1..h /\ \A j \in 1..Len(text) : j < h
  BY HereIs
<1>2. /\ h \in Arrays' /\ ArrayLevel(h)' = n /\ ArrayLevel(Here)' = n + 1 /\ Here' = h + 1
  <2>1. /\ Arrays' = Arrays \cup {Here} /\ \A i \in 1..Here : ArrayLevel(i)' = ArrayLevel(i)
        /\ ArrayLevel(Here)' = ArrayLevel(Here) + 1 - 0 /\ Here' = Here + 1
    BY ArraysNext
  <2>2. h \in Arrays' /\ h \in 1..Here /\ Here' = h + 1
    BY <1>1, <2>1
  <2>3. ArrayLevel(h)' = ArrayLevel(h)
    BY <2>1, <2>2, Zenon
  <2>4. ArrayLevel(h) = n
    OBVIOUS
  <2>5. ArrayLevel(Here)' = n + 1
    BY <2>1
  <2> QED
    BY <2>2, <2>3, <2>4, <2>5
<1>3. \A j \in (h + 1)..Here' : j = Here'
  BY <1>1, <1>2
<1>4. IsOpen(n + 1, h)'
  BY <1>2, <1>3 DEF IsOpen
<1>5. Positions({"string", "start_array"})' \subseteq 1..h
  <2>1. /\ Positions({"string", "start_array"}) \subseteq 1..Len(text)
        /\ \/ Positions({"string", "start_array"})' = Positions({"string", "start_array"}) \cup {Here}
           \/ Positions({"string", "start_array"})' = Positions({"string", "start_array"})
    BY PositionsAppended
  <2> QED
    BY <1>1, <2>1
<1>6. InArray(h)' = {}
  <2>1. \A j \in 1..h : ~(h < j)
    BY <1>1
  <2> QED
    BY <1>5, <2>1 DEF InArray
<1> QED
  BY <1>2, <1>4, <1>6

\* The first element stays the first.
LEMMA StartsStill ==
  ASSUME text \in Seq(Events), NEW e, text' = Append(text, e),
         NEW k \in Nat, NEW i, IsOpen(k, i), NEW t, StartsWith(i, t)
  PROVE  /\ StartsWith(i, t)'
         /\ \E m \in InArray(i) : Min(InArray(i)') = m /\ text'[m] = <<"string", t>> /\ m \in InArray(i)'
<1> PICK m \in InArray(i) : text[m] = <<"string", t>> /\ \A j \in InArray(i) : m <= j
  BY DEF StartsWith
<1>1. /\ InArray(i) \subseteq 1..Len(text)
      /\ InArray(i)' = InArray(i) \/ InArray(i)' = InArray(i) \cup {Here}
  BY InArrayNext
<1>2. text'[m] = <<"string", t>>
  BY <1>1, Appended
<1>3. /\ m \in InArray(i)' /\ InArray(i)' \subseteq Nat
      /\ \A j \in InArray(i)' : m <= j
  <2>1. Here \in Nat /\ m <= Here /\ \A j \in 1..Len(text) : j \in Nat
    BY <1>1, HereIs
  <2> QED
    BY <1>1, <2>1
<1>4. Min(InArray(i)') = m
  BY <1>3, Least
<1> QED
  BY <1>2, <1>3, <1>4 DEF StartsWith

\* So the array's type is known for good.
LEMMA TypeStill ==
  ASSUME text \in Seq(Events), NEW e, text' = Append(text, e),
         NEW k \in Nat, NEW i, IsOpen(k, i), NEW t, StartsWith(i, t)
  PROVE  Type(i)' = t
<1> PICK m \in InArray(i) : Min(InArray(i)') = m /\ text'[m] = <<"string", t>> /\ m \in InArray(i)'
  BY StartsStill
<1>1. /\ Type(i)' = IF InArray(i)' # {} /\ text'[Min(InArray(i)')][1] = "string"
                    THEN text'[Min(InArray(i)')][2] ELSE "none"
  BY DEF Type
<1>2. text'[m][1] = "string" /\ text'[m][2] = t
  OBVIOUS
<1> QED
  BY <1>1, <1>2

\* An array without elements gets its type from the next event.
LEMMA TypeFirst ==
  ASSUME text \in Seq(Events), NEW e, text' = Append(text, e),
         NEW k \in Nat, NEW i, IsOpen(k, i), InArray(i) = {}, ArrayLevel(Here) = k
  PROVE  /\ e[1] # "string" => Type(i)' = "none"
         /\ e[1] = "string" => InArray(i)' = {Here} /\ Type(i)' = e[2]
<1>1. InArray(i)' = IF IsElement(e) THEN {Here} ELSE {}
  BY InArrayNext
<1>2. text'[Here] = e /\ Here \in Nat
  BY Appended, HereIs DEF Here
<1>3. Min({Here}) = Here
  <2>1. \A j \in {Here} : Here <= j
    BY HereIs
  <2>2. {Here} \subseteq Nat /\ Here \in {Here}
    BY <1>2
  <2> QED
    BY <2>1, <2>2, Least, Zenon
<1>4. /\ Type(i)' = IF InArray(i)' # {} /\ text'[Min(InArray(i)')][1] = "string"
                    THEN text'[Min(InArray(i)')][2] ELSE "none"
  BY DEF Type
<1>5. CASE IsElement(e)
  <2>1. Type(i)' = IF e[1] = "string" THEN e[2] ELSE "none"
    BY <1>1, <1>2, <1>3, <1>4, <1>5
  <2> QED
    BY <1>1, <1>5, <2>1
<1>6. CASE ~IsElement(e)
  BY <1>1, <1>4, <1>6 DEF IsElement
<1> QED
  BY <1>5, <1>6

\* An open array is an element of the one around it.
LEMMA Nested ==
  ASSUME text \in Seq(Events), NEW k \in Nat, NEW i, IsOpen(k, i), NEW j, IsOpen(k + 1, j)
  PROVE  j \in InArray(i)
<1>1. /\ Len(text) \in Nat /\ Here = Len(text) + 1
      /\ i \in 1..Len(text) /\ j \in 1..Len(text)
  BY HereIs DEF IsOpen, Arrays, Positions
<1>2. ArrayLevel(i) = k - 1 /\ ArrayLevel(j) = k
  BY DEF IsOpen
<1>3. i < j
  <2>1. i # j
    BY <1>2
  <2>2. ~(j < i)
    <3>1. SUFFICES ASSUME j < i PROVE FALSE
      OBVIOUS
    <3>2. i \in (j + 1)..Here
      BY <1>1, <3>1
    <3>3. ArrayLevel(i) > k + 1 - 1
      BY <3>2 DEF IsOpen
    <3> QED
      BY <1>2, <3>3
  <2> QED
    BY <1>1, <2>1, <2>2
<1>4. \A l \in (i + 1)..j : l \in (i + 1)..Here
  BY <1>1
<1>5. \A l \in (i + 1)..j : ArrayLevel(l) > ArrayLevel(i)
  BY <1>2, <1>4 DEF IsOpen
<1>6. j \in Positions({"string", "start_array"})
  BY DEF IsOpen, Arrays, Positions
<1>7. ArrayLevel(j) = ArrayLevel(i) + 1
  BY <1>2
<1> QED
  BY <1>3, <1>5, <1>6, <1>7 DEF InArray

-----------------------------------------------------------------------------
(***************************************************************************)
(* The stack of filters.                                                   *)
(***************************************************************************)
\* How many arrays are open when containers open and close.
LEMMA ArraysCount ==
  ASSUME NEW o \in Seq({"array", "key", "value"})
  PROVE  /\ Cardinality(ArraysIn(o)) \in Nat
         /\ Cardinality(ArraysIn(Append(o, "array"))) = Cardinality(ArraysIn(o)) + 1
         /\ ArraysIn(Append(o, "key")) = ArraysIn(o)
         /\ o # <<>> /\ Last(o) = "array" => Cardinality(ArraysIn(Front(o))) = Cardinality(ArraysIn(o)) - 1
         /\ o # <<>> /\ Last(o) # "array" => ArraysIn(Front(o)) = ArraysIn(o)
         /\ \A v \in {"key", "value"} :
               o # <<>> /\ Last(o) # "array" => ArraysIn([o EXCEPT ![Len(o)] = v]) = ArraysIn(o)
<1> PICK n : n = Len(o)
  OBVIOUS
<1>1. n \in Nat /\ DOMAIN o = 1..n /\ ArraysIn(o) \subseteq 1..n /\ (o = <<>> <=> n = 0)
  BY DEF ArraysIn
<1>2. Cardinality(ArraysIn(o)) \in Nat /\ Cardinality(ArraysIn(o) \cup {n + 1}) = Cardinality(ArraysIn(o)) + 1
  BY <1>1, OneMore, Zenon
<1>3. ArraysIn(Append(o, "array")) = ArraysIn(o) \cup {n + 1}
  BY <1>1 DEF ArraysIn
<1>4. ArraysIn(Append(o, "key")) = ArraysIn(o)
  BY <1>1 DEF ArraysIn
<1>5. ASSUME o # <<>>
      PROVE  ArraysIn(Front(o)) \subseteq 1..(n - 1)
             /\ ArraysIn(o) = IF Last(o) = "array" THEN ArraysIn(Front(o)) \cup {n} ELSE ArraysIn(Front(o))
  <2>1. n > 0
    BY <1>1, <1>5
  <2>2. /\ Front(o) \in Seq({"array", "key", "value"}) /\ Len(Front(o)) = n - 1
        /\ \A i \in 1..(n - 1) : Front(o)[i] = o[i]
    BY <2>1, FrontIs
  <2>3. DOMAIN Front(o) = 1..(n - 1)
    BY <2>2
  <2>4. 1..n = (1..(n - 1)) \cup {n} /\ n \notin 1..(n - 1)
    BY <1>1, <2>1
  <2>5. ArraysIn(Front(o)) = {i \in 1..(n - 1) : o[i] = "array"}
    BY <2>2, <2>3 DEF ArraysIn
  <2>6. ArraysIn(o) = {i \in (1..(n - 1)) \cup {n} : o[i] = "array"}
    BY <1>1, <2>4 DEF ArraysIn
  <2> QED
    BY <2>5, <2>6 DEF Last
<1>6. ASSUME o # <<>>, Last(o) = "array"
      PROVE  Cardinality(ArraysIn(Front(o))) = Cardinality(ArraysIn(o)) - 1
  <2>1. n - 1 \in Nat /\ n - 1 + 1 = n
    BY <1>1, <1>6
  <2>2. /\ Cardinality(ArraysIn(Front(o))) \in Nat
        /\ Cardinality(ArraysIn(Front(o)) \cup {n - 1 + 1}) = Cardinality(ArraysIn(Front(o))) + 1
    BY <1>5, <1>6, <2>1, OneMore, Zenon
  <2>3. Cardinality(ArraysIn(o)) = Cardinality(ArraysIn(Front(o))) + 1
    BY <1>5, <1>6, <2>1, <2>2, Zenon
  <2> QED
    BY <2>2, <2>3
<1>7. ASSUME NEW v \in {"key", "value"}, o # <<>>, Last(o) # "array"
      PROVE  ArraysIn([o EXCEPT ![Len(o)] = v]) = ArraysIn(o)
  <2>1. n \in 1..n /\ o[n] # "array" /\ v # "array"
    BY <1>1, <1>7 DEF Last
  <2> DEFINE p == [o EXCEPT ![n] = v]
  <2>2. DOMAIN p = 1..n /\ \A i \in 1..n : p[i] = IF i = n THEN v ELSE o[i]
    BY <1>1, <2>1
  <2>3. ArraysIn(p) = {i \in 1..n : p[i] = "array"}
    <3> HIDE DEF p
    <3> QED
      BY <2>2 DEF ArraysIn
  <2>4. ArraysIn(o) = {i \in 1..n : o[i] = "array"}
    BY <1>1 DEF ArraysIn
  <2> HIDE DEF p
  <2>5. ArraysIn(p) = ArraysIn(o)
    BY <2>1, <2>2, <2>3, <2>4
  <2> QED
    BY <2>5 DEF p
<1> QED
  BY <1>2, <1>3, <1>4, <1>5, <1>6, <1>7

\* A value leaves the open arrays what they were.
LEMMA ArraysAfter ==
  ASSUME TypeOK, MayStart
  PROVE  ArraysIn(After) = OpenArrays /\ After \in Seq({"array", "key", "value"})
<1>1. open \in Seq({"array", "key", "value"})
  BY DEF TypeOK
<1>2. CASE open # <<>> /\ Last(open) = "value"
  <2>1. open # <<>> /\ Last(open) # "array"
    BY <1>2
  <2>2. ArraysIn([open EXCEPT ![Len(open)] = "key"]) = ArraysIn(open)
    BY <1>1, <2>1, ArraysCount
  <2> QED
    BY <1>1, <1>2, <2>2, OpenType, Zenon DEF After, OpenArrays
<1>3. CASE ~(open # <<>> /\ Last(open) = "value")
  BY <1>1, <1>3 DEF After, OpenArrays
<1> QED
  BY <1>2, <1>3, OpenType

\* Only the last filter may be without its type.
LEMMA TopOnly ==
  ASSUME Building
  PROVE  /\ Len(filters) \in Nat /\ IsSeq(filters)
         /\ Len(filters) = ArrayLevel(Here) /\ Len(filters) = Cardinality(OpenArrays)
         /\ \A k \in 1..Len(filters) :
               /\ IsSeq(filters[k])
               /\ filters[k] = NoFilter => k = Len(filters)
               /\ filters[k] # NoFilter => Len(filters[k]) \in Nat \ {0} /\ filters[k][1] \in Types
               /\ filters[k] # NoFilter /\ filters[k][1] \notin Collections /\ k # Len(filters) =>
                     filters[k + 1] = NoFilter
<1>1. IsSeq(filters) /\ Len(filters) = ArrayLevel(Here) /\ Len(filters) = Cardinality(OpenArrays)
  BY Zenon DEF Building
<1>2. Len(filters) \in Nat
  BY <1>1, SeqIs, Zenon
<1>3. ASSUME NEW k \in 1..Len(filters)
      PROVE  /\ IsSeq(filters[k])
             /\ filters[k] = NoFilter => k = Len(filters)
             /\ filters[k] # NoFilter => Len(filters[k]) \in Nat \ {0} /\ filters[k][1] \in Types
             /\ filters[k] # NoFilter /\ filters[k][1] \notin Collections /\ k # Len(filters) =>
                   filters[k + 1] = NoFilter
  <2>1. PICK i \in Arrays : BuiltFrom(k, i)
    BY Zenon DEF Building
  <2>2. /\ IsSeq(filters[k])
        /\ filters[k] = NoFilter => k = Len(filters)
        /\ filters[k] # NoFilter => filters[k][1] \in Types
        /\ filters[k] # NoFilter /\ filters[k][1] \notin Collections /\ k # Len(filters) =>
              filters[k + 1] = NoFilter
    BY <2>1, Zenon DEF BuiltFrom
  <2>3. filters[k] # NoFilter => Len(filters[k]) \in Nat \ {0}
    BY <2>2, SeqIs DEF NoFilter
  <2> QED
    BY <2>2, <2>3, Zenon
<1> QED
  BY <1>1, <1>2, <1>3, Zenon

\* A filter that has its type keeps it.
LEMMA BuiltStill ==
  ASSUME text \in Seq(Events), NEW e, text' = Append(text, e),
         NEW k \in Nat, NEW i, IsOpen(k, i), BuiltFrom(k, i),
         filters[k] # NoFilter, IsSeq(filters'[k]), filters'[k] # NoFilter, filters'[k][1] = filters[k][1],
         filters[k][1] \notin Collections =>
             IF k = Len(filters') THEN Cardinality(InArray(i)') = Len(filters'[k])
             ELSE filters'[k + 1] = NoFilter
  PROVE  BuiltFrom(k, i)'
<1>1. filters[k][1] \in Types /\ StartsWith(i, filters[k][1])
  BY Zenon DEF BuiltFrom
<1> PICK t : t = filters[k][1]
  OBVIOUS
<1>2. StartsWith(i, t)' /\ filters'[k][1] = t
  BY <1>1, StartsStill
<1> QED
  BY <1>1, <1>2 DEF BuiltFrom

LEMMA Within ==
  ASSUME NEW m \in Nat, NEW k \in 1..m
  PROVE  k \in Nat /\ k <= m /\ m > k - 1
  OBVIOUS

\* The stack stands for the open arrays if each filter of it is still built, and
\* a new one has an array of its own.
LEMMA BuildOn ==
  ASSUME text \in Seq(Events), NEW e, text' = Append(text, e), Building,
         NEW n, n = Len(filters), NEW m \in Nat, m = Len(filters'), NEW h, h = Here,
         IsSeq(filters'), m = Cardinality(OpenArrays'),
         m = n + (IF e[1] = "start_array" THEN 1 ELSE 0) - (IF e[1] = "end_array" THEN 1 ELSE 0),
         \A k \in 1..n : \A i \in Arrays :
             k <= m /\ IsOpen(k, i) /\ BuiltFrom(k, i) => BuiltFrom(k, i)',
         e[1] = "start_array" => BuiltFrom(n + 1, h)',
         result' # NoFilter => result # NoFilter \/ Outermost # {}
  PROVE  Building'
<1>1. n \in Nat /\ n = ArrayLevel(Here)
  BY TopOnly
<1>2. ArrayLevel(Here)' = m /\ Arrays \subseteq 1..Len(text) /\ Arrays \subseteq Arrays'
      /\ \A i \in 1..Here : ArrayLevel(i)' = ArrayLevel(i)
  <2>1. /\ ArrayLevel(Here)'
            = ArrayLevel(Here) + (IF e[1] = "start_array" THEN 1 ELSE 0) - (IF e[1] = "end_array" THEN 1 ELSE 0)
        /\ Arrays \subseteq 1..Len(text) /\ Arrays' = IF e[1] = "start_array" THEN Arrays \cup {Here} ELSE Arrays
        /\ \A i \in 1..Here : ArrayLevel(i)' = ArrayLevel(i)
    BY ArraysNext, Zenon
  <2>2. ArrayLevel(Here)' = m
    BY <1>1, <2>1, Zenon
  <2>3. Arrays \subseteq Arrays'
    BY <2>1
  <2> QED
    BY <2>1, <2>2, <2>3, Zenon
<1>3. ASSUME NEW k \in 1..m PROVE \E i \in Arrays' : IsOpen(k, i)' /\ BuiltFrom(k, i)'
  <2>1. k \in Nat /\ k <= m /\ m > k - 1
    BY Within, Zenon
  <2>2. CASE k \in 1..n
    <3>1. PICK i \in Arrays : IsOpen(k, i) /\ BuiltFrom(k, i)
      BY <2>2, Zenon DEF Building
    <3>2. ArrayLevel(Here)' > k - 1
      BY <1>2, <2>1
    <3>3. IsOpen(k, i)'
      BY <2>1, <3>1, <3>2, StaysOpen
    <3>4. BuiltFrom(k, i)'
      BY <2>1, <2>2, <3>1, Zenon
    <3> QED
      BY <1>2, <3>3, <3>4, Zenon
  <2>3. CASE k \notin 1..n
    <3>1. k = n + 1 /\ e[1] = "start_array"
      BY <1>1, <2>3
    <3>2. h \in Arrays' /\ IsOpen(n + 1, h)'
      BY <1>1, <3>1, InNewArray
    <3> QED
      BY <3>1, <3>2, Zenon
  <2> QED
    BY <2>2, <2>3
<1>4. result' # NoFilter => Outermost' # {}
  <2>1. result' # NoFilter => Outermost # {}
    BY Zenon DEF Building
  <2>2. \A i \in Arrays : i \in Arrays' /\ ArrayLevel(i)' = ArrayLevel(i)
    BY <1>2, HereIs
  <2>3. Outermost \subseteq Outermost'
    BY <2>2 DEF Outermost
  <2> QED
    BY <2>1, <2>3
<1> QED
  BY <1>2, <1>3, <1>4, Zenon DEF Building

\* An event that no array gets and none ends with leaves the stack as it is.
LEMMA IgnoredBuilds ==
  ASSUME text \in Seq(Events), NEW e, text' = Append(text, e), Building,
         ~IsElement(e), e[1] # "end_array", filters' = filters, result' = result,
         Cardinality(OpenArrays') = Cardinality(OpenArrays)
  PROVE  Building'
<1> PICK n : n = Len(filters)
  OBVIOUS
<1> PICK h : h = Here
  OBVIOUS
<1>1. n \in Nat /\ IsSeq(filters) /\ n = Cardinality(OpenArrays')
  BY TopOnly, Zenon
<1>2. e[1] # "start_array" /\ n = n + 0 - 0
  BY <1>1 DEF IsElement
<1>3. ASSUME NEW k \in 1..n, NEW i \in Arrays, IsOpen(k, i), BuiltFrom(k, i)
      PROVE  BuiltFrom(k, i)'
  <2>1. k \in Nat
    BY <1>1
  <2>2. InArray(i)' = InArray(i)
    BY <1>3, <2>1, InArrayNext, Zenon
  <2>3. CASE filters[k] = NoFilter
    BY <1>3, <2>2, <2>3, Zenon DEF BuiltFrom
  <2>4. CASE filters[k] # NoFilter
    <3>1. /\ IsSeq(filters[k])
          /\ filters[k][1] \notin Collections =>
                IF k = Len(filters) THEN Cardinality(InArray(i)) = Len(filters[k])
                ELSE filters[k + 1] = NoFilter
      BY <1>3, <2>4, Zenon DEF BuiltFrom
    <3> QED
      BY <1>3, <2>1, <2>2, <2>4, <3>1, BuiltStill, Zenon
  <2> QED
    BY <2>3, <2>4
<1>4. n = Len(filters') /\ IsSeq(filters')
  BY <1>1, Zenon
<1>5. n = n + (IF e[1] = "start_array" THEN 1 ELSE 0) - (IF e[1] = "end_array" THEN 1 ELSE 0)
  BY <1>2
<1> QED
  BY <1>1, <1>2, <1>3, <1>4, <1>5, BuildOn, Zenon

\* What a text that is a filter has, of each of its arrays.
LEMMA WellFormedSays ==
  ASSUME WellFormed', NEW i \in Arrays'
  PROVE  LET args == InArray(i)' \ {Min(InArray(i)')} IN
         /\ Type(i)' \in Types
         /\ Type(i)' \in Collections => args \subseteq Arrays'
         /\ Type(i)' \notin Collections =>
               args \cap Arrays' = {} /\ Cardinality(args) <= StringArgs(Type(i)')
  BY DEF WellFormed, Types

\* What a collection takes.
LEMMA ArgsOf ==
  /\ \A t \in Collections : StringArgs(t) = 0
  /\ \A t : StringArgs(t) \in Nat
  BY DEF StringArgs, Collections

\* The innermost open array, and the last event's place in it.
LEMMA Innermost ==
  ASSUME text \in Seq(Events), NEW e, text' = Append(text, e), Building,
         NEW n, n = Len(filters), n > 0
  PROVE  /\ n \in Nat /\ n \in 1..n
         /\ \E i \in Arrays :
               /\ IsOpen(n, i) /\ BuiltFrom(n, i)
               /\ i \in Arrays' /\ i \in 1..Len(text)
               /\ InArray(i) \subseteq 1..Len(text)
               /\ InArray(i)' = IF IsElement(e) THEN InArray(i) \cup {Here} ELSE InArray(i)
<1>1. n \in Nat /\ n = ArrayLevel(Here)
  BY TopOnly, Zenon
<1>2. n \in 1..n
  BY <1>1
<1> PICK i \in Arrays : IsOpen(n, i) /\ BuiltFrom(n, i)
  BY <1>2, Zenon DEF Building
<1>3. /\ InArray(i) \subseteq 1..Len(text)
      /\ InArray(i)' = IF IsElement(e) THEN InArray(i) \cup {Here} ELSE InArray(i)
  BY <1>1, InArrayNext, Zenon
<1>4. i \in Arrays' /\ i \in 1..Len(text)
  <2>1. Arrays \subseteq 1..Len(text) /\ (Arrays' = Arrays \/ Arrays' = Arrays \cup {Here})
    BY ArraysNext
  <2> QED
    BY <2>1
<1> QED
  BY <1>1, <1>2, <1>3, <1>4, Zenon

\* A filter that is none of others holds no array.
LEMMA NoArrayInside ==
  ASSUME text \in Seq(Events), NEW e \in Events, text' = Append(text, e),
         NEW k \in Nat, NEW i, IsOpen(k, i), NEW j, IsOpen(k + 1, j),
         NEW t, StartsWith(i, t), t \notin Collections
  PROVE  ~WellFormed'
<1>1. j \in InArray(i)
  BY Nested
<1>2. /\ InArray(i) \subseteq InArray(i)' /\ i \in Arrays /\ j \in Arrays
      /\ Arrays \subseteq Arrays' /\ Arrays \subseteq 1..Len(text)
  <2>1. InArray(i)' = InArray(i) \/ InArray(i)' = InArray(i) \cup {Here}
    BY InArrayNext
  <2>2. Arrays \subseteq 1..Len(text) /\ (Arrays' = Arrays \/ Arrays' = Arrays \cup {Here})
    BY ArraysNext
  <2> QED
    BY <2>1, <2>2 DEF IsOpen
<1>3. Type(i)' = t
  BY TypeStill
<1>4. Min(InArray(i)') # j
  <2>1. PICK m \in InArray(i) : Min(InArray(i)') = m /\ text'[m] = <<"string", t>>
    BY StartsStill
  <2>2. text'[j] = text[j]
    BY <1>2, Appended
  <2>3. text[j][1] = "start_array"
    BY <1>2 DEF Arrays, Positions
  <2>4. text'[m][1] = "string"
    BY <2>1
  <2>5. text'[j][1] = "start_array"
    BY <2>2, <2>3
  <2>6. m # j
    BY <2>4, <2>5
  <2> QED
    BY <2>1, <2>6, Zenon
<1>5. SUFFICES ASSUME WellFormed' PROVE FALSE
  OBVIOUS
<1>6. (InArray(i)' \ {Min(InArray(i)')}) \cap Arrays' = {}
  BY <1>2, <1>3, <1>5, WellFormedSays
<1> QED
  BY <1>1, <1>2, <1>4, <1>6

-----------------------------------------------------------------------------
(***************************************************************************)
(* The callbacks of the filter parser.                                     *)
(***************************************************************************)
\* What a callback may lead to.
Answered ==
    \/ status' = status /\ Building'
    \/ status' = "refused" /\ ~WellFormed'
    \/ status' = "aborted" /\ NoPlace'

\* A string outside all arrays.
LEMMA StringOutside ==
  ASSUME text \in Seq(Events), NEW s, text' = Append(text, <<"string", s>>), Building,
         Len(filters) = 0
  PROVE  ~WellFormed'
<1> PICK h : h = Here
  OBVIOUS
<1>1. ArrayLevel(h) = 0
  BY TopOnly
<1>2. h \in Positions({"string"})'
  <2> PICK e : e = <<"string", s>>
    OBVIOUS
  <2>0. e[1] = "string"
    OBVIOUS
  <2>1. Positions({"string"})' = Positions({"string"}) \cup {Here}
    BY <2>0, PositionsAppended
  <2> QED
    BY <2>1
<1>3. ArrayLevel(h)' = ArrayLevel(h)
  <2>1. h \in 1..Here
    BY HereIs
  <2> QED
    BY <2>1, ArraysNext, Zenon
<1>4. ~(ArrayLevel(h)' > 0)
  BY <1>1, <1>3
<1> QED
  BY <1>2, <1>4, Zenon DEF WellFormed

\* A string more than the filter takes.
LEMMA StringTooMany ==
  ASSUME text \in Seq(Events), NEW s, text' = Append(text, <<"string", s>>), Building,
         Len(filters) > 0, Top # NoFilter, Len(Top) > StringArgs(Top[1])
  PROVE  ~WellFormed'
<1> PICK e : e = <<"string", s>>
  OBVIOUS
<1> PICK h : h = Here
  OBVIOUS
<1> PICK n : n = Len(filters)
  OBVIOUS
<1> PICK t : t = Top[1]
  OBVIOUS
<1>1. e[1] = "string" /\ IsElement(e)
  BY DEF IsElement
<1>2. n \in Nat /\ n \in 1..n
  BY Innermost, Zenon
<1> PICK i \in Arrays : /\ IsOpen(n, i) /\ BuiltFrom(n, i)
                        /\ i \in Arrays' /\ i \in 1..Len(text)
                        /\ InArray(i) \subseteq 1..Len(text)
                        /\ InArray(i)' = InArray(i) \cup {h}
  BY <1>1, Innermost, Zenon
<1>3. /\ StartsWith(i, t)
      /\ t \notin Collections => Cardinality(InArray(i)) = Len(Top)
  BY Zenon DEF BuiltFrom, Top
<1>4. Type(i)' = t
  BY <1>2, <1>3, TypeStill, Zenon
<1> PICK m \in InArray(i) : Min(InArray(i)') = m
  BY <1>2, <1>3, StartsStill, Zenon
<1>5. h \notin 1..Len(text) /\ Len(text) \in Nat /\ h = Len(text) + 1
  BY HereIs
<1>6. h \in InArray(i)' \ {m}
  BY <1>5
<1>7. SUFFICES ASSUME WellFormed' PROVE FALSE
  OBVIOUS
<1>8. /\ t \in Collections => InArray(i)' \ {m} \subseteq Arrays'
      /\ t \notin Collections => Cardinality(InArray(i)' \ {m}) <= StringArgs(t)
  BY <1>4, <1>7, WellFormedSays, ZenonT(30)
<1>9. CASE t \in Collections
  <2>1. h \notin Arrays'
    <3>1. Arrays' = Arrays /\ Arrays \subseteq 1..Len(text)
      BY <1>1, ArraysNext
    <3> QED
      BY <1>5, <3>1
  <2> QED
    BY <1>6, <1>8, <1>9, <2>1
<1>10. CASE t \notin Collections
  <2> DEFINE S == InArray(i)
  <2>1. /\ IsFiniteSet(S) /\ Cardinality(S) \in Nat /\ Cardinality(S \cup {h}) = Cardinality(S) + 1
        /\ IsFiniteSet(S \cup {h})
    <3>1. IsFiniteSet(S) /\ Cardinality(S) \in Nat /\ Cardinality(S \cup {Len(text) + 1}) = Cardinality(S) + 1
      BY <1>5, OneMore, Zenon
    <3>2. IsFiniteSet(S \cup {h})
      BY <3>1, FS_AddElement, Zenon
    <3> QED
      BY <1>5, <3>1, <3>2, Zenon
  <2>2. Cardinality((S \cup {h}) \ {m}) = Cardinality(S \cup {h}) - 1
    <3>1. m \in S \cup {h}
      OBVIOUS
    <3> QED
      BY <2>1, <3>1, FS_RemoveElement
  <2>3. Cardinality(InArray(i)' \ {m}) = Cardinality(S)
    BY <2>1, <2>2
  <2>4. Cardinality(S) <= StringArgs(t)
    BY <1>8, <1>10, <2>3, Zenon
  <2>5. Cardinality(S) = Len(Top) /\ Len(Top) > StringArgs(t)
    BY <1>3, <1>10, Zenon
  <2> HIDE DEF S
  <2>6. StringArgs(t) \in Nat
    BY ArgsOf
  <2> QED
    BY <2>1, <2>4, <2>5, <2>6
<1> QED
  BY <1>9, <1>10

\* Which filters of the stack a string leaves alone.
LEMMA LowerOnes ==
  ASSUME Building, NEW n, n = Len(filters), NEW k \in 1..n, k # n
  PROVE  /\ filters[k] # NoFilter
         /\ filters[k][1] \notin Collections => filters[k + 1] = NoFilter /\ k + 1 = n /\ k = n - 1
<1>1. /\ n \in Nat /\ filters[k] # NoFilter
      /\ filters[k][1] \notin Collections => filters[k + 1] = NoFilter
  BY TopOnly, Zenon
<1>2. k + 1 \in 1..n
  BY <1>1
<1>3. filters[k + 1] = NoFilter => k + 1 = n
  BY <1>2, TopOnly, Zenon
<1>4. k + 1 = n => k = n - 1
  BY <1>1
<1> QED
  BY <1>1, <1>3, <1>4, Zenon

\* The last filter is replaced.
LEMMA StackSet ==
  ASSUME IsSeq(filters), NEW n, n = Len(filters), n \in 1..n, NEW x,
         filters' = [filters EXCEPT ![Len(filters)] = x]
  PROVE  /\ IsSeq(filters') /\ Len(filters') = n
         /\ \A k \in 1..n : filters'[k] = IF k = n THEN x ELSE filters[k]
<1> PICK S : filters \in Seq(S)
  BY DEF IsSeq
<1>1. filters \in Seq(S \cup {x})
  OBVIOUS
<1>2. /\ filters' \in Seq(S \cup {x}) /\ Len(filters') = Len(filters)
      /\ \A j \in 1..Len(filters) : filters'[j] = IF j = Len(filters) THEN x ELSE filters[j]
  BY <1>1
<1> QED
  BY <1>2, Zenon DEF IsSeq

\* The first string of an array is its type.
LEMMA StringIsType ==
  ASSUME text \in Seq(Events), NEW s, text' = Append(text, <<"string", s>>), Building,
         Len(filters) > 0, Top = NoFilter, s \in Types,
         Len(filters) > 1 => Outer[1] \in Collections,
         filters' = [filters EXCEPT ![Len(filters)] = <<s>>], result' = result,
         Cardinality(OpenArrays') = Cardinality(OpenArrays)
  PROVE  Building'
<1> PICK e : e = <<"string", s>>
  OBVIOUS
<1> PICK h : h = Here
  OBVIOUS
<1> PICK n : n = Len(filters)
  OBVIOUS
<1>1. e[1] = "string" /\ IsElement(e)
  BY DEF IsElement
<1>2. n \in Nat /\ n \in 1..n /\ n = ArrayLevel(Here) /\ n = Cardinality(OpenArrays') /\ IsSeq(filters)
  BY Innermost, TopOnly, Zenon
<1>3. /\ IsSeq(filters') /\ Len(filters') = n
      /\ \A k \in 1..n : filters'[k] = IF k = n THEN <<s>> ELSE filters[k]
  BY <1>2, StackSet
<1>4. ASSUME NEW k \in 1..n, NEW i \in Arrays, IsOpen(k, i), BuiltFrom(k, i)
      PROVE  BuiltFrom(k, i)'
  <2>0. k \in Nat
    BY <1>2
  <2>1. CASE k = n
    <3>1. InArray(i) = {}
      BY <1>4, <2>1, Zenon DEF BuiltFrom, Top
    <3>2. InArray(i)' = {h}
      BY <1>1, <1>2, <1>4, <2>0, <2>1, <3>1, InArrayNext
    <3>3. text'[h] = <<"string", s>> /\ h <= h
      <4>1. text'[h] = e
        BY Appended DEF Here
      <4> QED
        BY <4>1, HereIs, Zenon
    <3>4. StartsWith(i, s)'
      BY <3>2, <3>3 DEF StartsWith
    <3>5. /\ <<s>> # NoFilter /\ <<s>>[1] = s /\ Len(<<s>>) = 1
          /\ <<s>> \in Seq({s})
      BY DEF NoFilter
    <3>6. Cardinality({h}) = 1
      BY FS_Singleton
    <3>7. filters'[k] = <<s>> /\ k = Len(filters') /\ IsSeq(<<s>>)
      BY <1>3, <2>1, <3>5, Zenon DEF IsSeq
    <3> QED
      BY <3>2, <3>4, <3>5, <3>6, <3>7, Zenon DEF BuiltFrom
  <2>2. CASE k # n
    <3>1. filters[k] # NoFilter /\ filters'[k] = filters[k] /\ IsSeq(filters[k])
      BY <1>3, <2>2, LowerOnes, TopOnly, Zenon
    <3>2. filters[k][1] \in Collections
      <4>1. SUFFICES ASSUME filters[k][1] \notin Collections PROVE FALSE
        OBVIOUS
      <4>2. k = n - 1
        BY <2>2, <4>1, LowerOnes, Zenon
      <4>3. Outer = filters[k]
        BY <4>2 DEF Outer
      <4>4. n > 1
        BY <1>2, <2>2
      <4> QED
        BY <4>1, <4>3, <4>4
    <3> QED
      BY <1>4, <2>0, <3>1, <3>2, BuiltStill, Zenon
  <2> QED
    BY <2>1, <2>2
<1>5. /\ e[1] # "start_array"
      /\ n = n + (IF e[1] = "start_array" THEN 1 ELSE 0) - (IF e[1] = "end_array" THEN 1 ELSE 0)
  BY <1>1, <1>2
<1> QED
  BY <1>2, <1>3, <1>4, <1>5, BuildOn, Zenon

\* The next strings are its arguments.
LEMMA StringIsArg ==
  ASSUME text \in Seq(Events), NEW s, text' = Append(text, <<"string", s>>), Building,
         Len(filters) > 0, Top # NoFilter, Len(Top) <= StringArgs(Top[1]),
         filters' = [filters EXCEPT ![Len(filters)] = Append(Top, s)], result' = result,
         Cardinality(OpenArrays') = Cardinality(OpenArrays)
  PROVE  Building'
<1> PICK e : e = <<"string", s>>
  OBVIOUS
<1> PICK h : h = Here
  OBVIOUS
<1> PICK n : n = Len(filters)
  OBVIOUS
<1>1. e[1] = "string" /\ IsElement(e)
  BY DEF IsElement
<1>2. n \in Nat /\ n \in 1..n /\ n = ArrayLevel(Here) /\ n = Cardinality(OpenArrays') /\ IsSeq(filters)
  BY Innermost, TopOnly, Zenon
<1>3. /\ IsSeq(filters') /\ Len(filters') = n
      /\ \A k \in 1..n : filters'[k] = IF k = n THEN Append(Top, s) ELSE filters[k]
  BY <1>2, StackSet
<1>4. IsSeq(Top) /\ Len(Top) \in Nat \ {0}
  BY <1>2, TopOnly DEF Top
<1>5. Top[1] \notin Collections
  <2>1. Top[1] \in Collections => StringArgs(Top[1]) = 0
    BY ArgsOf
  <2> QED
    BY <1>4, <2>1
<1>6. /\ IsSeq(Append(Top, s)) /\ Len(Append(Top, s)) = Len(Top) + 1 /\ Append(Top, s)[1] = Top[1]
      /\ Append(Top, s) # NoFilter
  <2>1. /\ IsSeq(Append(Top, s)) /\ Len(Append(Top, s)) = Len(Top) + 1
        /\ \A k \in 1..Len(Top) : Append(Top, s)[k] = Top[k]
    BY <1>4, SeqAppended, ZenonT(30)
  <2>2. 1 \in 1..Len(Top) /\ Len(Top) + 1 # 0
    BY <1>4
  <2>3. Append(Top, s) # NoFilter
    BY <2>1, <2>2, SeqIs, Zenon DEF NoFilter
  <2> QED
    BY <2>1, <2>2, <2>3, Zenon
<1>7. ASSUME NEW k \in 1..n, NEW i \in Arrays, IsOpen(k, i), BuiltFrom(k, i)
      PROVE  BuiltFrom(k, i)'
  <2>0. k \in Nat
    BY <1>2
  <2>1. CASE k = n
    <3>1. Cardinality(InArray(i)) = Len(Top) /\ filters[k] = Top
      BY <1>5, <1>7, <2>1, Zenon DEF BuiltFrom, Top
    <3>2. InArray(i) \subseteq 1..Len(text) /\ InArray(i)' = InArray(i) \cup {Here}
      BY <1>1, <1>2, <1>7, <2>0, <2>1, InArrayNext, Zenon
    <3>3. Cardinality(InArray(i)') = Len(Top) + 1
      <4>1. Cardinality(InArray(i) \cup {Len(text) + 1}) = Cardinality(InArray(i)) + 1
        BY <3>2, HereIs, OneMore, Zenon
      <4> QED
        BY <3>1, <3>2, <4>1, Zenon DEF Here
    <3>4. filters'[k] = Append(Top, s) /\ k = Len(filters')
      BY <1>3, <2>1, Zenon
    <3> QED
      BY <1>6, <1>7, <2>0, <3>1, <3>3, <3>4, BuiltStill, Zenon
  <2>2. CASE k # n
    <3>1. filters[k] # NoFilter /\ filters'[k] = filters[k] /\ IsSeq(filters[k])
      BY <1>3, <2>2, LowerOnes, TopOnly, Zenon
    <3>2. filters[k][1] \in Collections
      BY <2>2, LowerOnes, Zenon DEF Top
    <3> QED
      BY <1>7, <2>0, <3>1, <3>2, BuiltStill, Zenon
  <2> QED
    BY <2>1, <2>2
<1>8. /\ e[1] # "start_array"
      /\ n = n + (IF e[1] = "start_array" THEN 1 ELSE 0) - (IF e[1] = "end_array" THEN 1 ELSE 0)
  BY <1>1, <1>2
<1> QED
  BY <1>2, <1>3, <1>7, <1>8, BuildOn, Zenon

\* yajl_string.
LEMMA StringAnswered ==
  ASSUME text \in Seq(Events), NEW s, <<"string", s>> \in Events, text' = Append(text, <<"string", s>>),
         Building, FilterString(s), Cardinality(OpenArrays') = Cardinality(OpenArrays)
  PROVE  Answered
<1> PICK e : e = <<"string", s>>
  OBVIOUS
<1> PICK n : n = Len(filters)
  OBVIOUS
<1>1. n \in Nat /\ (filters = <<>> <=> n = 0) /\ n = ArrayLevel(Here)
  BY TopOnly, SeqIs, Zenon
<1>2. CASE filters = <<>>
  <2>1. status' = "refused"
    BY <1>2 DEF FilterString, Refuse
  <2> QED
    BY <1>1, <1>2, <2>1, StringOutside, Zenon DEF Answered
<1>3. CASE filters # <<>> /\ Top = NoFilter
  <2>0. n > 0
    BY <1>1, <1>3
  <2>1. CASE s \notin Types
    <3>1. status' = "aborted"
      BY <1>3, <2>1 DEF FilterString, Abort, Types
    <3>2. n \in 1..n
      BY <1>1, <2>0
    <3> PICK i \in Arrays : IsOpen(n, i) /\ BuiltFrom(n, i) /\ i \in Arrays'
      BY <2>0, Innermost, Zenon
    <3>3. InArray(i) = {}
      BY <1>3, Zenon DEF BuiltFrom, Top
    <3>4. Type(i)' = s
      BY <1>1, <3>3, TypeFirst
    <3> QED
      BY <2>1, <3>1, <3>4 DEF Answered, NoPlace
  <2>2. CASE s \in Types /\ n > 1 /\ Outer[1] \notin Collections
    <3>1. status' = "refused"
      BY <1>3, <2>2 DEF FilterString, Refuse, Types
    <3>2. n - 1 \in Nat /\ n - 1 + 1 = n /\ n - 1 \in 1..n /\ n \in 1..n /\ n - 1 # n
      BY <1>1, <2>2
    <3> PICK j \in Arrays : IsOpen(n, j)
      BY <3>2, Zenon DEF Building
    <3> PICK i \in Arrays : IsOpen(n - 1, i) /\ BuiltFrom(n - 1, i)
      BY <3>2, Zenon DEF Building
    <3>3. filters[n - 1] # NoFilter
      BY <3>2, LowerOnes, Zenon
    <3>4. StartsWith(i, Outer[1])
      BY <3>3, Zenon DEF BuiltFrom, Outer
    <3>5. IsOpen(n - 1 + 1, j)
      BY <3>2, Zenon
    <3>6. ~WellFormed'
      BY <2>2, <3>2, <3>4, <3>5, NoArrayInside, Zenon
    <3> QED
      BY <3>1, <3>6, Zenon DEF Answered
  <2>3. CASE s \in Types /\ (n > 1 => Outer[1] \in Collections)
    <3>1. /\ status' = status /\ result' = result
          /\ filters' = [filters EXCEPT ![Len(filters)] = <<s>>]
      BY <1>3, <2>3 DEF FilterString, Accept, Types, Refuse, Abort
    <3> QED
      BY <1>3, <2>0, <2>3, <3>1, StringIsType, Zenon DEF Answered
  <2> QED
    BY <2>1, <2>2, <2>3, Zenon
<1>4. CASE filters # <<>> /\ Top # NoFilter
  <2>0. n > 0
    BY <1>1, <1>4
  <2>1. CASE Len(Top) > StringArgs(Top[1])
    <3>1. ~(Len(Top) <= StringArgs(Top[1]))
      <4>1. Len(Top) \in Nat
        <5>1. n \in 1..n
          BY <1>1, <2>0
        <5> QED
          BY <1>4, <5>1, TopOnly DEF Top
      <4>2. StringArgs(Top[1]) \in Nat
        BY ArgsOf
      <4> QED
        BY <2>1, <4>1, <4>2
    <3>2. status' = "refused"
      BY <1>4, <3>1, Zenon DEF FilterString, Refuse
    <3> QED
      BY <1>4, <2>0, <2>1, <3>2, StringTooMany, Zenon DEF Answered
  <2>2. CASE ~(Len(Top) > StringArgs(Top[1]))
    <3>1. /\ Len(Top) <= StringArgs(Top[1]) /\ status' = status /\ result' = result
          /\ filters' = [filters EXCEPT ![Len(filters)] = Append(Top, s)]
      BY <1>4, <2>2, Zenon DEF FilterString, Accept, Top
    <3> QED
      BY <1>4, <2>0, <3>1, StringIsArg, Zenon DEF Answered
  <2> QED
    BY <2>1, <2>2
<1> QED
  BY <1>2, <1>3, <1>4

\* An array where a type is due, or an end.
LEMMA NoType ==
  ASSUME text \in Seq(Events), NEW e, text' = Append(text, e), Building,
         Len(filters) > 0, Top = NoFilter, e[1] # "string"
  PROVE  ~WellFormed'
<1> PICK n : n = Len(filters)
  OBVIOUS
<1>1. n \in Nat /\ n = ArrayLevel(Here) /\ n > 0
  BY TopOnly, Zenon
<1> PICK i \in Arrays : IsOpen(n, i) /\ BuiltFrom(n, i) /\ i \in Arrays'
  BY <1>1, Innermost, Zenon
<1>2. InArray(i) = {}
  BY Zenon DEF BuiltFrom, Top
<1>3. Type(i)' = "none"
  BY <1>1, <1>2, TypeFirst, Zenon
<1>4. "none" \notin Types
  BY DEF Types, Collections, LeafTypes
<1>5. WellFormed' => Type(i)' \in Types
  BY WellFormedSays
<1> QED
  BY <1>3, <1>4, <1>5

\* An array deeper than the stack.
LEMMA TooDeep ==
  ASSUME text \in Seq(Events), NEW e, text' = Append(text, e), Building,
         e[1] = "start_array", Len(filters) = DEPTH_MAX
  PROVE  NoPlace'
<1> PICK n : n = Len(filters)
  OBVIOUS
<1> PICK h : h = Here
  OBVIOUS
<1>1. n \in Nat /\ n = ArrayLevel(h)
  BY TopOnly, Zenon
<1>2. h \in Arrays' /\ h \in 1..Here
  BY <1>1, InNewArray, HereIs, Zenon
<1>3. ArrayLevel(h)' = DEPTH_MAX
  BY <1>1, <1>2, ArraysNext, Zenon
<1> QED
  BY <1>2, <1>3, Zenon DEF NoPlace

\* A second array outside all others.
LEMMA SecondArray ==
  ASSUME text \in Seq(Events), NEW e, text' = Append(text, e), Building,
         e[1] = "start_array", Len(filters) = 0, result # NoFilter
  PROVE  NoPlace'
<1> PICK h : h = Here
  OBVIOUS
<1>1. ArrayLevel(h) = 0 /\ h \in 1..Here /\ Len(text) \in Nat /\ h = Len(text) + 1
  BY TopOnly, HereIs
<1>2. /\ Arrays \subseteq 1..Len(text) /\ Arrays' = Arrays \cup {h}
      /\ \A i \in 1..Here : ArrayLevel(i)' = ArrayLevel(i)
  BY ArraysNext
<1>3. Outermost \subseteq 1..Len(text)
  BY <1>2 DEF Outermost
<1>4. \A i \in Arrays \cup {h} : ArrayLevel(i)' = ArrayLevel(i)
  BY <1>1, <1>2, HereIs
<1>5. Outermost' = Outermost \cup {h}
  BY <1>1, <1>2, <1>4 DEF Outermost
<1>6. /\ Cardinality(Outermost \cup {Len(text) + 1}) = Cardinality(Outermost) + 1
      /\ Cardinality(Outermost) \in Nat /\ IsFiniteSet(Outermost)
  BY <1>1, <1>3, OneMore, Zenon
<1>7. Cardinality(Outermost) # 0
  BY <1>6, FS_EmptySet, Zenon DEF Building
<1>8. Cardinality(Outermost') = Cardinality(Outermost) + 1
  BY <1>1, <1>5, <1>6, Zenon
<1>9. Cardinality(Outermost') > 1
  BY <1>6, <1>7, <1>8
<1> QED
  BY <1>9, Zenon DEF NoPlace

\* A filter is put on the stack.
LEMMA StackGrows ==
  ASSUME IsSeq(filters), NEW n, n = Len(filters), filters' = Append(filters, NoFilter)
  PROVE  /\ IsSeq(filters') /\ Len(filters') = n + 1
         /\ \A k \in 1..n : filters'[k] = filters[k]
         /\ filters'[n + 1] = NoFilter
<1> PICK S : filters \in Seq(S)
  BY DEF IsSeq
<1>1. filters \in Seq(S \cup {NoFilter})
  OBVIOUS
<1>2. filters' \in Seq(S \cup {NoFilter}) /\ Len(filters') = Len(filters) + 1
  BY <1>1
<1>3. (\A k \in 1..Len(filters) : filters'[k] = filters[k]) /\ filters'[Len(filters) + 1] = NoFilter
  BY <1>1
<1> QED
  BY <1>2, <1>3, Zenon DEF IsSeq

\* An array is on the stack as soon as it starts.
LEMMA ArrayIsBuilt ==
  ASSUME text \in Seq(Events), NEW e, text' = Append(text, e), Building,
         e[1] = "start_array", Len(filters) > 0 => Top # NoFilter,
         filters' = Append(filters, NoFilter), result' = result,
         Cardinality(OpenArrays') = Cardinality(OpenArrays) + 1
  PROVE  Building'
<1> PICK n : n = Len(filters)
  OBVIOUS
<1> PICK h : h = Here
  OBVIOUS
<1>1. n \in Nat /\ n = ArrayLevel(Here) /\ n + 1 = Cardinality(OpenArrays') /\ IsSeq(filters)
  BY TopOnly, Zenon
<1>2. /\ IsSeq(filters') /\ Len(filters') = n + 1
      /\ \A k \in 1..n : filters'[k] = filters[k]
      /\ filters'[n + 1] = NoFilter
  BY <1>1, StackGrows, Zenon
<1>3. InArray(h)' = {}
  BY <1>1, InNewArray, Zenon
<1>4. IsSeq(NoFilter)
  BY NoFilter \in Seq({}) DEF NoFilter, IsSeq
<1>5. BuiltFrom(n + 1, h)'
  BY <1>2, <1>3, <1>4, Zenon DEF BuiltFrom
<1>6. ASSUME NEW k \in 1..n, NEW i \in Arrays, IsOpen(k, i), BuiltFrom(k, i)
      PROVE  BuiltFrom(k, i)'
  <2>1. k \in Nat /\ k # n + 1 /\ n > 0 /\ k + 1 \in 1..(n + 1)
    BY <1>1
  <2>2. filters[k] # NoFilter
    BY <2>1, LowerOnes, Zenon DEF Top
  <2>3. filters'[k] = filters[k] /\ IsSeq(filters[k])
    BY <1>2, TopOnly, Zenon
  <2>4. filters[k][1] \notin Collections => filters'[k + 1] = NoFilter
    <3>1. CASE k = n
      BY <1>2, <3>1
    <3>2. CASE k # n
      <4>1. k + 1 \in 1..n
        BY <1>1, <3>2
      <4> QED
        BY <1>2, <3>2, <4>1, LowerOnes, Zenon
    <3> QED
      BY <3>1, <3>2
  <2> QED
    BY <1>2, <1>6, <2>1, <2>2, <2>3, <2>4, BuiltStill, Zenon
<1>7. n + 1 = n + (IF e[1] = "start_array" THEN 1 ELSE 0) - (IF e[1] = "end_array" THEN 1 ELSE 0)
      /\ n + 1 \in Nat
  BY <1>1
<1> QED
  BY <1>1, <1>2, <1>5, <1>6, <1>7, BuildOn, Zenon

\* An array that ends is its filter, or an argument of the one around it.
LEMMA ArrayIsDone ==
  ASSUME text \in Seq(Events), NEW e, text' = Append(text, e), Building,
         e[1] = "end_array", Len(filters) > 0, Top # NoFilter,
         \/ Len(filters) = 1 /\ filters' = <<>>
         \/ /\ Len(filters) > 1 /\ result' = result
            /\ filters' = [Front(filters) EXCEPT ![Len(filters) - 1] = Append(@, Top)],
         Cardinality(OpenArrays') = Cardinality(OpenArrays) - 1
  PROVE  Building'
<1> PICK n : n = Len(filters)
  OBVIOUS
<1> PICK h : h = Here
  OBVIOUS
<1>1. n \in Nat /\ n > 0 /\ n = ArrayLevel(Here) /\ n - 1 = Cardinality(OpenArrays') /\ IsSeq(filters)
  BY TopOnly, Zenon
<1>2. /\ e[1] # "start_array" /\ n - 1 \in Nat
      /\ n - 1 = n + (IF e[1] = "start_array" THEN 1 ELSE 0) - (IF e[1] = "end_array" THEN 1 ELSE 0)
  BY <1>1
<1>3. CASE n = 1 /\ filters' = <<>>
  <2>1. IsSeq(filters') /\ n - 1 = Len(filters')
    <3>1. IsSeq(<<>>)
      BY <<>> \in Seq({}) DEF IsSeq
    <3>2. Len(<<>>) = 0 /\ n - 1 = 0
      BY <1>3
    <3> QED
      BY <1>3, <3>1, <3>2, Zenon
  <2>2. Outermost # {}
    <3>1. 1 \in 1..n
      BY <1>1
    <3> PICK i \in Arrays : IsOpen(1, i)
      BY <3>1, Zenon DEF Building
    <3> QED
      BY DEF IsOpen, Outermost
  <2>3. \A k \in 1..n : ~(k <= n - 1)
    BY <1>3
  <2> QED
    BY <1>1, <1>2, <2>1, <2>2, <2>3, BuildOn, Zenon
<1>4. CASE /\ n > 1 /\ result' = result
           /\ filters' = [Front(filters) EXCEPT ![n - 1] = Append(@, Top)]
  <2>1. /\ IsSeq(Front(filters)) /\ Len(Front(filters)) = n - 1
        /\ \A k \in 1..(n - 1) : Front(filters)[k] = filters[k]
    BY <1>1, SeqFront, Zenon
  <2> PICK f : f = Front(filters)
    OBVIOUS
  <2> PICK g : g = Append(f[n - 1], Top)
    OBVIOUS
  <2>2. /\ IsSeq(filters') /\ Len(filters') = n - 1
        /\ \A k \in 1..(n - 1) : filters'[k] = IF k = n - 1 THEN g ELSE filters[k]
    <3> PICK S : f \in Seq(S)
      BY <2>1 DEF IsSeq
    <3>1. f \in Seq(S \cup {g}) /\ n - 1 \in 1..Len(f)
      BY <1>1, <1>4, <2>1
    <3>2. filters' = [f EXCEPT ![n - 1] = g]
      BY <1>4
    <3>3. /\ filters' \in Seq(S \cup {g}) /\ Len(filters') = Len(f)
          /\ \A k \in 1..Len(f) : filters'[k] = IF k = n - 1 THEN g ELSE f[k]
      BY <3>1, <3>2
    <3>4. IsSeq(filters')
      BY <3>3, Zenon DEF IsSeq
    <3> QED
      BY <2>1, <3>3, <3>4
  <2>3. ASSUME NEW k \in 1..n, NEW i \in Arrays, k <= n - 1, IsOpen(k, i), BuiltFrom(k, i)
        PROVE  BuiltFrom(k, i)'
    <3>1. k \in Nat /\ k \in 1..(n - 1) /\ k # n
      BY <1>1, <2>3
    <3>2. filters[k] # NoFilter /\ filters[k][1] \in Collections
      BY <3>1, LowerOnes, Zenon DEF Top
    <3>3. IsSeq(filters[k]) /\ Len(filters[k]) \in Nat \ {0}
      BY <3>2, TopOnly, Zenon
    <3>4. IsSeq(filters'[k]) /\ filters'[k] # NoFilter /\ filters'[k][1] = filters[k][1]
      <4>1. CASE k = n - 1
        <5>1. f[n - 1] = filters[k]
          BY <2>1, <3>1, <4>1
        <5>2. filters'[k] = Append(filters[k], Top)
          BY <2>2, <3>1, <4>1, <5>1
        <5> PICK o : o = filters[k]
          OBVIOUS
        <5>3. /\ IsSeq(Append(o, Top)) /\ Len(Append(o, Top)) = Len(o) + 1
              /\ \A j \in 1..Len(o) : Append(o, Top)[j] = o[j]
          BY <3>3, SeqAppended
        <5>4. Append(o, Top)[1] = o[1] /\ Len(o) + 1 # 0
          BY <3>3, <5>3
        <5>5. Append(o, Top) # NoFilter
          BY <5>3, <5>4, SeqIs, Zenon DEF NoFilter
        <5> QED
          BY <5>2, <5>3, <5>4, <5>5, Zenon
      <4>2. CASE k # n - 1
        BY <2>2, <3>1, <3>2, <3>3, <4>2, Zenon
      <4> QED
        BY <4>1, <4>2
    <3> QED
      BY <2>3, <3>1, <3>2, <3>4, BuiltStill, Zenon
  <2> QED
    BY <1>1, <1>2, <1>4, <2>2, <2>3, BuildOn, Zenon
<1> QED
  BY <1>3, <1>4, Zenon

\* yajl_start_array.
LEMMA ArrayStarts ==
  ASSUME text \in Seq(Events), NEW e, text' = Append(text, e), e[1] = "start_array",
         Building, FilterStartArray, Cardinality(OpenArrays') = Cardinality(OpenArrays) + 1
  PROVE  Answered
<1>1. Len(filters) \in Nat /\ (filters = <<>> <=> Len(filters) = 0)
  BY TopOnly, SeqIs, Zenon
<1>2. filters # <<>> <=> Len(filters) > 0
  BY <1>1
<1>3. CASE filters # <<>> /\ Top = NoFilter /\ Refuse
  BY <1>2, <1>3, NoType DEF Answered, Refuse
<1>4. CASE /\ filters # <<>> => Top # NoFilter /\ Len(filters) = DEPTH_MAX
           /\ filters = <<>> => result # NoFilter
           /\ Abort
  <2>1. NoPlace'
    BY <1>1, <1>4, TooDeep, SecondArray, Zenon
  <2> QED
    BY <1>4, <2>1 DEF Answered, Abort
<1>5. CASE /\ filters # <<>> => Top # NoFilter /\ Len(filters) < DEPTH_MAX
           /\ filters = <<>> => result = NoFilter
           /\ Accept
           /\ filters' = Append(filters, NoFilter)
           /\ UNCHANGED result
  <2>1. Building'
    BY <1>2, <1>5, ArrayIsBuilt, Zenon
  <2> QED
    BY <1>5, <2>1 DEF Answered, Accept
<1> QED
  BY <1>3, <1>4, <1>5, Zenon DEF FilterStartArray

\* yajl_end_array.
LEMMA ArrayEnds ==
  ASSUME text \in Seq(Events), NEW e, text' = Append(text, e), e[1] = "end_array",
         Building, FilterEndArray, Len(filters) > 0,
         Cardinality(OpenArrays') = Cardinality(OpenArrays) - 1
  PROVE  Answered
<1>1. CASE Top = NoFilter
  <2>1. status' = "refused"
    BY <1>1 DEF FilterEndArray, Refuse
  <2> QED
    BY <1>1, <2>1, NoType DEF Answered
<1>2. CASE Top # NoFilter
  <2>1. /\ status' = status
        /\ \/ Len(filters) = 1 /\ filters' = <<>>
           \/ /\ Len(filters) > 1 /\ result' = result
              /\ filters' = [Front(filters) EXCEPT ![Len(filters) - 1] = Append(@, Top)]
    BY <1>2 DEF FilterEndArray, Accept
  <2>2. Building'
    BY <1>2, <2>1, ArrayIsDone
  <2> QED
    BY <2>1, <2>2 DEF Answered
<1> QED
  BY <1>1, <1>2

-----------------------------------------------------------------------------
(***************************************************************************)
(* The steps of a filter.                                                  *)
(***************************************************************************)
\* After an event.
LEMMA FilterEvent ==
  ASSUME kind = "filter", status = "parsing", TypeOK', kind' = kind, Answered
  PROVE  FilterInv'
<1>1. /\ "parsing" # "refused" /\ "parsing" # "aborted" /\ "parsing" # "unclosed"
      /\ "refused" # "aborted" /\ "refused" # "unclosed" /\ "aborted" # "unclosed"
  OBVIOUS
<1>2. CASE status' = "parsing" /\ Building'
  BY <1>1, <1>2, Zenon DEF FilterInv
<1>3. CASE status' = "refused" /\ ~WellFormed'
  BY <1>1, <1>3, Zenon DEF FilterInv
<1>4. CASE status' = "aborted" /\ NoPlace'
  BY <1>1, <1>4, Zenon DEF FilterInv
<1> QED
  BY <1>2, <1>3, <1>4, Zenon DEF Answered

\* An event that the parser ignores.
LEMMA FilterIgnores ==
  ASSUME FilterInv, kind = "filter", TypeOK', NEW e \in Events, Event(e), Ignored,
         ~IsElement(e), e[1] # "end_array", Cardinality(OpenArrays') = Cardinality(OpenArrays)
  PROVE  FilterInv'
<1>1. /\ text \in Seq(Events) /\ text' = Append(text, e) /\ status = "parsing" /\ kind' = kind
  BY EventAppends, Zenon DEF FilterInv
<1>2. status' = status /\ filters' = filters /\ result' = result
  BY DEF Ignored, Accept
<1>3. Building
  BY <1>1, Zenon DEF FilterInv
<1>4. Building'
  BY <1>1, <1>2, <1>3, IgnoredBuilds, Zenon
<1> QED
  BY <1>1, <1>2, <1>4, FilterEvent, Zenon DEF Answered

LEMMA FilterNext ==
  ASSUME FilterInv, [JSONNext]_jsonVars
  PROVE  FilterInv'
<1>1. TypeOK /\ TypeOK' /\ open \in Seq({"array", "key", "value"})
  BY TypeStep, Zenon DEF FilterInv, TypeOK
<1>2. kind' = kind
  BY DEF JSONNext, EventString, EventMapKey, EventScalar, EventError, EventStartArray, EventEndArray,
         EventStartMap, EventEndMap, Event, Complete, Free, jsonVars
<1>3. CASE kind # "filter"
  BY <1>1, <1>2, <1>3, Zenon DEF FilterInv
<1>4. CASE kind = "filter"
  <2>1. kind # "body"
    BY <1>4
  <2>2. /\ <<"scalar">> \in Events /\ <<"start_array">> \in Events /\ <<"end_array">> \in Events
        /\ <<"start_map">> \in Events /\ <<"end_map">> \in Events /\ <<"error">> \in Events
    BY Zenon DEF Events
  <2>3. ASSUME NEW e \in Events, Event(e)
        PROVE  /\ text \in Seq(Events) /\ text' = Append(text, e) /\ status = "parsing" /\ Building
    <3>1. text \in Seq(Events) /\ text' = Append(text, e) /\ status = "parsing"
      BY <1>1, <2>3, EventAppends, Zenon
    <3> QED
      BY <1>4, <3>1, Zenon DEF FilterInv
  <2>4. MayStart => ArraysIn(After) = OpenArrays /\ After \in Seq({"array", "key", "value"})
    BY <1>1, ArraysAfter, Zenon
  <2>5. ASSUME NEW s \in Strings[kind], EventString(s) PROVE FilterInv'
    <3>1. <<"string", s>> \in Events
      BY <1>4 DEF Events, Said
    <3>2. Event(<<"string", s>>) /\ MayStart /\ open' = After /\ FilterString(s)
      BY <2>1, <2>5, Zenon DEF EventString
    <3>3. Cardinality(OpenArrays') = Cardinality(OpenArrays)
      BY <2>4, <3>2, Zenon DEF OpenArrays
    <3>4. Answered
      BY <2>3, <3>1, <3>2, <3>3, StringAnswered, Zenon
    <3> QED
      BY <1>1, <1>2, <1>4, <2>3, <3>1, <3>2, <3>4, FilterEvent, Zenon
  <2>6. ASSUME NEW s \in Strings[kind], EventMapKey(s) PROVE FilterInv'
    <3>1. <<"key", s>> \in Events /\ ~IsElement(<<"key", s>>) /\ <<"key", s>>[1] # "end_array"
      BY <1>4 DEF Events, Said, IsElement
    <3>2. /\ Event(<<"key", s>>) /\ open # <<>> /\ Last(open) = "key" /\ Ignored
          /\ open' = [open EXCEPT ![Len(open)] = "value"]
      BY <2>1, <2>6, Zenon DEF EventMapKey
    <3>3. ArraysIn([open EXCEPT ![Len(open)] = "value"]) = ArraysIn(open)
      BY <1>1, <3>2, ArraysCount
    <3>4. Cardinality(OpenArrays') = Cardinality(OpenArrays)
      BY <3>2, <3>3, Zenon DEF OpenArrays
    <3> QED
      BY <1>1, <1>4, <3>1, <3>2, <3>4, FilterIgnores, Zenon
  <2>7. CASE EventScalar
    <3>1. ~IsElement(<<"scalar">>) /\ <<"scalar">>[1] # "end_array"
      BY DEF IsElement
    <3>2. Event(<<"scalar">>) /\ MayStart /\ open' = After /\ Ignored
      BY <2>1, <2>7, Zenon DEF EventScalar
    <3>3. Cardinality(OpenArrays') = Cardinality(OpenArrays)
      BY <2>4, <3>2, Zenon DEF OpenArrays
    <3> QED
      BY <1>1, <1>4, <2>2, <3>1, <3>2, <3>3, FilterIgnores, Zenon
  <2>8. CASE EventStartMap
    <3>1. ~IsElement(<<"start_map">>) /\ <<"start_map">>[1] # "end_array"
      BY DEF IsElement
    <3>2. Event(<<"start_map">>) /\ MayStart /\ open' = Append(After, "key") /\ Ignored
      BY <2>1, <2>8, Zenon DEF EventStartMap
    <3>3. ArraysIn(Append(After, "key")) = ArraysIn(After)
      BY <2>4, <3>2, ArraysCount
    <3>4. Cardinality(OpenArrays') = Cardinality(OpenArrays)
      BY <2>4, <3>2, <3>3, Zenon DEF OpenArrays
    <3> QED
      BY <1>1, <1>4, <2>2, <3>1, <3>2, <3>4, FilterIgnores, Zenon
  <2>9. CASE EventEndMap
    <3>1. ~IsElement(<<"end_map">>) /\ <<"end_map">>[1] # "end_array"
      BY DEF IsElement
    <3>2. Event(<<"end_map">>) /\ open # <<>> /\ Last(open) = "key" /\ open' = Front(open) /\ Ignored
      BY <2>1, <2>9, Zenon DEF EventEndMap
    <3>3. ArraysIn(Front(open)) = ArraysIn(open)
      BY <1>1, <3>2, ArraysCount
    <3>4. Cardinality(OpenArrays') = Cardinality(OpenArrays)
      BY <3>2, <3>3, Zenon DEF OpenArrays
    <3> QED
      BY <1>1, <1>4, <2>2, <3>1, <3>2, <3>4, FilterIgnores, Zenon
  <2>10. CASE EventError
    <3>1. Event(<<"error">>) /\ status' = "refused"
      BY <2>10 DEF EventError
    <3> PICK e : e = <<"error">>
      OBVIOUS
    <3>2. text \in Seq(Events) /\ text' = Append(text, e) /\ status = "parsing" /\ e[1] = "error"
      BY <2>2, <2>3, <3>1
    <3>3. Positions({"error"})' = Positions({"error"}) \cup {Here}
      BY <3>2, PositionsAppended
    <3>4. ~WellFormed'
      BY <3>3 DEF WellFormed
    <3> QED
      BY <1>1, <1>2, <1>4, <3>1, <3>2, <3>4, FilterEvent, Zenon DEF Answered
  <2>11. CASE EventStartArray
    <3>1. /\ Event(<<"start_array">>) /\ MayStart /\ open' = Append(After, "array")
          /\ FilterStartArray /\ <<"start_array">>[1] = "start_array"
      BY <2>1, <2>11 DEF EventStartArray
    <3>2. Cardinality(ArraysIn(Append(After, "array"))) = Cardinality(ArraysIn(After)) + 1
      BY <2>4, <3>1, ArraysCount
    <3>3. Cardinality(OpenArrays') = Cardinality(OpenArrays) + 1
      BY <2>4, <3>1, <3>2, Zenon DEF OpenArrays
    <3>4. Answered
      BY <2>2, <2>3, <3>1, <3>3, ArrayStarts, Zenon
    <3> QED
      BY <1>1, <1>2, <1>4, <2>2, <2>3, <3>1, <3>4, FilterEvent, Zenon
  <2>12. CASE EventEndArray
    <3>1. /\ Event(<<"end_array">>) /\ open # <<>> /\ Last(open) = "array" /\ open' = Front(open)
          /\ FilterEndArray /\ <<"end_array">>[1] = "end_array"
      BY <2>1, <2>12 DEF EventEndArray
    <3>2. /\ Cardinality(ArraysIn(Front(open))) = Cardinality(ArraysIn(open)) - 1
          /\ Cardinality(ArraysIn(open)) \in Nat
      BY <1>1, <3>1, ArraysCount
    <3>3. Cardinality(ArraysIn(Front(open))) \in Nat
      <4>1. Front(open) \in Seq({"array", "key", "value"})
        BY <1>1, <3>1, OpenType, Zenon
      <4> QED
        BY <4>1, ArraysCount, Zenon
    <3>4. Cardinality(OpenArrays') = Cardinality(OpenArrays) - 1
      BY <3>1, <3>2, Zenon DEF OpenArrays
    <3>5. Len(filters) = Cardinality(ArraysIn(open))
      BY <2>2, <2>3, <3>1, TopOnly, Zenon DEF OpenArrays
    <3>6. Len(filters) > 0
      BY <3>2, <3>3, <3>5
    <3>7. Answered
      BY <2>2, <2>3, <3>1, <3>4, <3>6, ArrayEnds, Zenon
    <3> QED
      BY <1>1, <1>2, <1>4, <2>2, <2>3, <3>1, <3>7, FilterEvent, Zenon
  <2>13. CASE Complete
    <3>1. /\ status \in {"parsing", "refused"} /\ text' = text /\ open' = open
          /\ \/ filters # <<>> /\ status' = "unclosed"
             \/ status' \in {"done", "failed"}
      BY <2>1, <2>13 DEF Complete
    <3>2. WellFormed' = WellFormed
      BY <3>1, SMTT(30) DEF WellFormed, Positions, Outermost, Arrays, InArray, Type, ArrayLevel, Level
    <3>3. CASE status' \in {"done", "failed"}
      <4>1. status' \notin {"parsing", "refused", "aborted", "unclosed"}
        BY <3>3
      <4> QED
        BY <1>1, <4>1 DEF FilterInv
    <3>4. CASE filters # <<>> /\ status' = "unclosed"
      <4>1. open # <<>> \/ ~WellFormed
        <5>1. CASE status = "refused"
          BY <1>4, <5>1, Zenon DEF FilterInv
        <5>2. CASE status = "parsing"
          <6>1. Building
            BY <1>4, <5>2, Zenon DEF FilterInv
          <6>2. Len(filters) # 0 /\ Len(filters) = Cardinality(OpenArrays)
            BY <3>4, <6>1, TopOnly, SeqIs, Zenon
          <6>3. open = <<>> => OpenArrays = {}
            BY DEF OpenArrays, ArraysIn
          <6> QED
            BY <6>2, <6>3, FS_EmptySet, Zenon
        <5> QED
          BY <3>1, <5>1, <5>2
      <4>2. open' # <<>> \/ ~WellFormed'
        BY <3>1, <3>2, <4>1, Zenon
      <4>3. "unclosed" # "parsing" /\ "unclosed" # "refused" /\ "unclosed" # "aborted"
        OBVIOUS
      <4> QED
        BY <1>1, <3>4, <4>2, <4>3, Zenon DEF FilterInv
    <3> QED
      BY <3>1, <3>3, <3>4
  <2>14. CASE Free
    <3>1. status' \notin {"parsing", "refused", "aborted", "unclosed"}
      BY <2>14 DEF Free
    <3> QED
      BY <1>1, <3>1 DEF FilterInv
  <2>15. CASE UNCHANGED jsonVars
    <3>1. /\ text' = text /\ open' = open /\ status' = status /\ filters' = filters /\ result' = result
      BY <2>15 DEF jsonVars
    <3>2. WellFormed' = WellFormed
      BY <3>1, SMTT(30) DEF WellFormed, Positions, Outermost, Arrays, InArray, Type, ArrayLevel, Level
    <3>3. NoPlace' = NoPlace
      BY <3>1 DEF NoPlace, Positions, Outermost, Arrays, InArray, Type, ArrayLevel, Level
    <3>4. Building' = Building
      BY <3>1 DEF Building, IsOpen, BuiltFrom, StartsWith, OpenArrays, Here,
                  Positions, Outermost, Arrays, InArray, ArrayLevel, Level
    <3> QED
      BY <1>1, <1>2, <3>1, <3>2, <3>3, <3>4, Zenon DEF FilterInv
  <2> QED
    BY <2>5, <2>6, <2>7, <2>8, <2>9, <2>10, <2>11, <2>12, <2>13, <2>14, <2>15, Zenon DEF JSONNext
<1> QED
  BY <1>3, <1>4

LEMMA FilterInit ==
  ASSUME JSONInit
  PROVE  FilterInv
<1>1. TypeOK
  BY DEF JSONInit, TypeOK
<1>2. text = <<>> /\ open = <<>> /\ status = "parsing" /\ filters = <<>> /\ result = NoFilter
  BY DEF JSONInit
<1>3. Cardinality({}) = 0
  BY FS_EmptySet
<1>4. ArrayLevel(Here) = 0
  <2>1. \A S : {j \in Positions(S) : j < Here} = {}
    BY <1>2 DEF Positions
  <2> QED
    BY <1>3, <2>1 DEF ArrayLevel, Level
<1>5. OpenArrays = {}
  BY <1>2 DEF OpenArrays, ArraysIn
<1>6. IsSeq(filters) /\ Len(filters) = 0
  BY <1>2, <<>> \in Seq({}) DEF IsSeq
<1>7. \A k \in 1..Len(filters) : FALSE
  BY <1>6
<1>8. Building
  BY <1>2, <1>3, <1>4, <1>5, <1>6, <1>7, Zenon DEF Building
<1>9. "parsing" # "refused" /\ "parsing" # "aborted" /\ "parsing" # "unclosed"
  OBVIOUS
<1> QED
  BY <1>1, <1>2, <1>8, <1>9, Zenon DEF FilterInv

\* The parsers' assertions hold of every text that is a filter and of every
\* body, and a text that trips one in a callback has an array of an unknown
\* type, too deep, or outside the first (yajl_start_array, yajl_string).
THEOREM AssertsHoldAlways == JSONSpec => []AssertsHold
<1>1. JSONInit => BodyInv /\ FilterInv
  BY BodyInit, FilterInit
<1>2. BodyInv /\ FilterInv /\ [JSONNext]_jsonVars => BodyInv' /\ FilterInv'
  BY BodyNext, FilterNext
<1>3. BodyInv /\ FilterInv => AssertsHold
  <2> SUFFICES ASSUME BodyInv, FilterInv PROVE AssertsHold
    OBVIOUS
  <2>1. CASE kind = "body"
    <3>1. /\ status # "aborted"
          /\ status = "unclosed" => open # <<>>
      BY <2>1 DEF BodyInv
    <3> QED
      BY <3>1, Zenon DEF AssertsHold
  <2>2. CASE kind = "filter"
    <3>1. /\ status = "aborted" => NoPlace
          /\ status = "unclosed" => open # <<>> \/ ~WellFormed
      BY <2>2, Zenon DEF FilterInv
    <3> QED
      BY <2>2, <3>1, Zenon DEF AssertsHold, NoPlace, Types
  <2> QED
    BY <2>1, <2>2 DEF FilterInv, TypeOK
<1> QED
  BY <1>1, <1>2, <1>3, PTL DEF JSONSpec

-----------------------------------------------------------------------------
(***************************************************************************)
(* The filter that is built.                                               *)
(***************************************************************************)
\* The array at i has ended.
Closed(i) == \E j \in (i + 1)..Here : ArrayLevel(j) <= ArrayLevel(i)

\* How many elements precede one of an array.
Rank(i, j) == Cardinality({m \in InArray(i) : m < j})

\* What an element stands for, F being the filters of the arrays that ended.
Value(F, j) == IF text[j][1] = "string" THEN text[j][2] ELSE F[j]

\* The sequence f is the first elements of the array at i.
FirstOf(f, i, F) ==
    \A m \in 1..Len(f) :
        \E j \in InArray(i) : /\ Rank(i, j) = m - 1
                              /\ f[m] = Value(F, j)
                              /\ j \in Arrays => Closed(j)

\* The array at i has the elements that the type t allows.
Takes(i, t) ==
    IF t \in Collections THEN \A j \in InArray(i) \ Arrays : \A m \in InArray(i) : j <= m
    ELSE InArray(i) \cap Arrays = {} /\ Cardinality(InArray(i)) <= StringArgs(t) + 1

\* The array at i has ended, and F has its filter.
Read(F, i) ==
    /\ IsSeq(F[i])
    /\ Len(F[i]) = Cardinality(InArray(i))
    /\ FirstOf(F[i], i, F)
    /\ \E t \in Types : StartsWith(i, t) /\ Takes(i, t)

\* The array at i, the k-th open one, is read up to the end or to the array
\* inside it that is open.
ReadTo(F, k, i) ==
    /\ FirstOf(filters[k], i, F)
    /\ IF k = Len(filters) THEN Cardinality(InArray(i)) = Len(filters[k])
       ELSE /\ Cardinality(InArray(i)) = Len(filters[k]) + 1
            /\ \A j \in Arrays : IsOpen(k + 1, j) => Rank(i, j) = Len(filters[k])
    /\ filters[k] # NoFilter /\ (k = Len(filters) \/ filters[k][1] \in Collections) =>
          Takes(i, filters[k][1])

\* Everything in the text so far is where it may be.
InPlace ==
    /\ Positions({"error"}) = {}
    /\ \A j \in Positions({"string"}) : ArrayLevel(j) > 0
    /\ \A i \in Arrays : ArrayLevel(i) \in Nat /\ ArrayLevel(i) < DEPTH_MAX

\* There is one filter, the result once its array ends.
OneFilter(F) ==
    /\ \A i, j \in Outermost : i = j
    /\ Len(filters) > 0 => result = NoFilter
    /\ Len(filters) = 0 /\ result = NoFilter => Outermost = {}
    /\ result # NoFilter => \A i \in Outermost : result = F[i]

Written(F) ==
    /\ DOMAIN F = Nat
    /\ InPlace
    /\ \A i \in Arrays : Closed(i) => Read(F, i)
    /\ \A k \in 1..Len(filters) : \A i \in Arrays : IsOpen(k, i) => ReadTo(F, k, i)
    /\ OneFilter(F)

\* Two filters of the arrays that ended are the same.
Agree(F, G) == \A j \in Arrays : Closed(j) => G[j] = F[j]

-----------------------------------------------------------------------------
(***************************************************************************)
(* Arrays and their elements, with one more event.                         *)
(***************************************************************************)
LEMMA LevelIs ==
  ASSUME text \in Seq(Events), NEW l
  PROVE  ArrayLevel(l) \in Int
<1>1. ASSUME NEW s PROVE Cardinality({m \in Positions({s}) : m < l}) \in Nat
  <2>1. {m \in Positions({s}) : m < l} \subseteq 1..Len(text) /\ Len(text) \in Nat
    BY DEF Positions
  <2> QED
    BY <2>1, Few, Zenon
<1>2. \A a, b \in Nat : a - b \in Int
  OBVIOUS
<1> QED
  BY <1>1, <1>2, Zenon DEF ArrayLevel, Level

\* What ended stays as it is, and an array that did not is open.
LEMMA ArrayKept ==
  ASSUME text \in Seq(Events), NEW e, text' = Append(text, e), NEW i \in Arrays
  PROVE  /\ i \in Arrays' /\ i \in 1..Len(text) /\ ArrayLevel(i)' = ArrayLevel(i)
         /\ InArray(i) \subseteq 1..Len(text)
         /\ InArray(i)' = InArray(i) \/ InArray(i)' = InArray(i) \cup {Here}
         /\ Closed(i) => Closed(i)' /\ InArray(i)' = InArray(i)
<1> PICK h : h = Here
  OBVIOUS
<1> DEFINE P == Positions({"string", "start_array"})
           In(j) == /\ i < j /\ ArrayLevel(j) = ArrayLevel(i) + 1
                    /\ \A l \in (i + 1)..j : ArrayLevel(l) > ArrayLevel(i)
<1>1. /\ Len(text) \in Nat /\ h = Len(text) + 1 /\ h \in 1..Here
      /\ \A j \in 1..Len(text) : j < h /\ j \in 1..Here
  BY HereIs
<1>2. /\ i \in 1..Len(text) /\ i \in Arrays' /\ Here' = h + 1
      /\ \A l \in 1..Here : ArrayLevel(l)' = ArrayLevel(l)
  <2>1. /\ Arrays \subseteq 1..Len(text) /\ (Arrays' = Arrays \cup {Here} \/ Arrays' = Arrays)
        /\ \A l \in 1..Here : ArrayLevel(l)' = ArrayLevel(l)
        /\ Here' = Here + 1
    BY ArraysNext
  <2> QED
    BY <2>1
<1>3. i \in 1..Here /\ ArrayLevel(i)' = ArrayLevel(i)
  BY <1>1, <1>2
<1>4. /\ P \subseteq 1..Len(text)
      /\ P' = P \/ P' = P \cup {h}
  BY PositionsAppended
<1>5. ASSUME NEW j \in 1..Here PROVE In(j)' <=> In(j)
  <2>1. \A l \in (i + 1)..j : l \in 1..Here
    BY <1>1, <1>2
  <2> QED
    BY <1>2, <1>3, <2>1
<1>6. InArray(i) = {j \in P : In(j)} /\ InArray(i)' = {j \in P' : In(j)'}
  BY DEF InArray
<1>7. \A j \in P : j \in 1..Here
  BY <1>1, <1>4
<1>8. InArray(i)' = InArray(i) \/ InArray(i)' = InArray(i) \cup {h}
  <2> HIDE DEF P, In
  <2> QED
    BY <1>1, <1>4, <1>5, <1>6, <1>7
<1>9. ASSUME Closed(i) PROVE Closed(i)' /\ InArray(i)' = InArray(i)
  <2>1. PICK j \in (i + 1)..Here : ArrayLevel(j) <= ArrayLevel(i)
    BY <1>9 DEF Closed
  <2>2. j \in 1..Here /\ j \in (i + 1)..(h + 1) /\ i + 1 \in Int /\ j \in (i + 1)..h
    BY <1>1, <1>2
  <2>3. ArrayLevel(j)' <= ArrayLevel(i)'
    BY <1>2, <1>3, <2>1, <2>2
  <2>4. Closed(i)'
    BY <1>2, <2>2, <2>3 DEF Closed
  <2>5. i \in 1..h /\ h \in Nat /\ Cardinality({}) = 0
    BY <1>1, <1>2, FS_EmptySet
  <2>6. ~(ArrayLevel(j) > ArrayLevel(i))
    <3>1. ArrayLevel(j) \in Int /\ ArrayLevel(i) \in Int
      BY LevelIs
    <3> QED
      BY <2>1, <3>1
  <2>7. ~In(h)
    BY <2>2, <2>6
  <2>8. ~In(h)'
    BY <1>1, <1>5, <2>7
  <2>9. InArray(i)' = InArray(i)
    <3> HIDE DEF P, In
    <3> QED
      BY <1>4, <1>5, <1>6, <1>7, <2>8
  <2> QED
    BY <2>4, <2>9
<1>10. InArray(i) \subseteq 1..Len(text)
  BY <1>4, <1>6
<1> QED
  BY <1>2, <1>3, <1>8, <1>9, <1>10

\* An array that has not ended is open.
LEMMA OpenOrEnded ==
  ASSUME text \in Seq(Events), NEW i \in Arrays, ~Closed(i), ArrayLevel(i) \in Nat,
         NEW n \in Nat, n = ArrayLevel(Here)
  PROVE  IsOpen(ArrayLevel(i) + 1, i) /\ ArrayLevel(i) + 1 \in 1..n
<1> PICK k \in Nat : k = ArrayLevel(i)
  OBVIOUS
<1>1. i \in 1..Len(text) /\ Here = Len(text) + 1 /\ Len(text) \in Nat
  BY HereIs DEF Arrays, Positions
<1>2. \A j \in (i + 1)..Here : ArrayLevel(j) > k
  BY LevelIs DEF Closed
<1>3. k + 1 - 1 = k
  OBVIOUS
<1>4. IsOpen(k + 1, i)
  BY <1>2, <1>3 DEF IsOpen
<1>5. Here \in (i + 1)..Here
  BY <1>1
<1>6. n > k
  BY <1>2, <1>5
<1> QED
  BY <1>4, <1>6

\* An open array has not ended.
LEMMA OpenNotEnded ==
  ASSUME text \in Seq(Events), NEW k \in Nat, NEW i, IsOpen(k, i)
  PROVE  ~Closed(i)
<1>1. \A j \in (i + 1)..Here : ArrayLevel(j) > k - 1
  BY DEF IsOpen
<1>2. ArrayLevel(i) = k - 1
  BY DEF IsOpen
<1>3. \A j \in (i + 1)..Here : ~(ArrayLevel(j) <= ArrayLevel(i))
  BY <1>1, <1>2, LevelIs
<1> QED
  BY <1>3 DEF Closed

\* Of each level one array is open.
LEMMA OneOpen ==
  ASSUME text \in Seq(Events), NEW k \in Nat, NEW i, IsOpen(k, i), NEW j, IsOpen(k, j)
  PROVE  i = j
<1>1. i \in 1..Len(text) /\ j \in 1..Len(text) /\ Here = Len(text) + 1 /\ Len(text) \in Nat
  BY HereIs DEF IsOpen, Arrays, Positions
<1>2. ArrayLevel(i) = k - 1 /\ ArrayLevel(j) = k - 1
  BY DEF IsOpen
<1>3. ~(i < j)
  <2>1. SUFFICES ASSUME i < j PROVE FALSE
    OBVIOUS
  <2>2. j \in (i + 1)..Here
    BY <1>1, <2>1
  <2>3. ArrayLevel(j) > k - 1
    BY <2>2 DEF IsOpen
  <2> QED
    BY <1>2, <2>3
<1>4. ~(j < i)
  <2>1. SUFFICES ASSUME j < i PROVE FALSE
    OBVIOUS
  <2>2. i \in (j + 1)..Here
    BY <1>1, <2>1
  <2>3. ArrayLevel(i) > k - 1
    BY <2>2 DEF IsOpen
  <2> QED
    BY <1>2, <2>3
<1> QED
  BY <1>1, <1>3, <1>4

\* An array that is open after an event was open before, or starts with it.
LEMMA WasOpen ==
  ASSUME text \in Seq(Events), NEW e, text' = Append(text, e),
         NEW k \in Nat, NEW i \in Arrays, IsOpen(k, i)'
  PROVE  IsOpen(k, i)
<1>1. Len(text) \in Nat /\ Here = Len(text) + 1 /\ i \in 1..Len(text) /\ ArrayLevel(i)' = ArrayLevel(i)
  BY HereIs, ArrayKept
<1>2. Here' = Here + 1 /\ \A j \in 1..Here : ArrayLevel(j)' = ArrayLevel(j)
  BY ArraysNext
<1>3. \A j \in (i + 1)..Here : j \in (i + 1)..Here' /\ j \in 1..Here
  BY <1>1, <1>2
<1>4. ArrayLevel(i) = k - 1 /\ \A j \in (i + 1)..Here' : ArrayLevel(j)' > k - 1
  BY <1>1 DEF IsOpen
<1>5. \A j \in (i + 1)..Here : ArrayLevel(j) > k - 1
  BY <1>2, <1>3, <1>4
<1> QED
  BY <1>4, <1>5 DEF IsOpen

\* The elements of an array by their rank.
LEMMA RankOrder ==
  ASSUME NEW n \in Nat, NEW S, S \subseteq 1..n, NEW j \in S, NEW l \in S
  PROVE  /\ Cardinality({m \in S : m < j}) \in Nat
         /\ Cardinality({m \in S : m < j}) < Cardinality(S)
         /\ Cardinality({m \in S : m < j}) = Cardinality({m \in S : m < l}) => j = l
<1>1. ASSUME NEW a \in S, NEW T, T \subseteq S, a \in T, \A m \in S : m < a => m \in T
      PROVE  Cardinality({m \in S : m < a}) < Cardinality(T) /\ Cardinality({m \in S : m < a}) \in Nat
  <2> DEFINE B == {m \in S : m < a}
  <2>1. B \subseteq 1..n /\ T \subseteq 1..n /\ a \notin B /\ B \cup {a} \subseteq T
    <3>1. ~(a < a)
      OBVIOUS
    <3> QED
      BY <1>1, <3>1
  <2>2. IsFiniteSet(B) /\ Cardinality(B) \in Nat /\ IsFiniteSet(T) /\ Cardinality(T) \in Nat
    <3> HIDE DEF B
    <3> QED
      BY <2>1, Few
  <2>3. Cardinality(B \cup {a}) = Cardinality(B) + 1
    BY <2>1, <2>2, FS_AddElement
  <2>4. Cardinality(B \cup {a}) <= Cardinality(T)
    BY <2>1, <2>2, FS_Subset
  <2> HIDE DEF B
  <2>5. Cardinality(B) < Cardinality(T)
    BY <2>2, <2>3, <2>4
  <2> QED
    BY <2>2, <2>5 DEF B
<1>2. /\ Cardinality({m \in S : m < j}) < Cardinality(S) /\ Cardinality({m \in S : m < j}) \in Nat
      /\ Cardinality({m \in S : m < l}) \in Nat
  BY <1>1
<1>3. j < l => Cardinality({m \in S : m < j}) < Cardinality({m \in S : m < l})
  <2>1. SUFFICES ASSUME j < l PROVE Cardinality({m \in S : m < j}) < Cardinality({m \in S : m < l})
    OBVIOUS
  <2> DEFINE T == {m \in S : m < l}
  <2>2. T \subseteq S /\ j \in T /\ \A m \in S : m < j => m \in T
    BY <2>1
  <2> HIDE DEF T
  <2>3. Cardinality({m \in S : m < j}) < Cardinality(T)
    BY <1>1, <2>2
  <2> QED
    BY <2>3 DEF T
<1>4. l < j => Cardinality({m \in S : m < l}) < Cardinality({m \in S : m < j})
  <2>1. SUFFICES ASSUME l < j PROVE Cardinality({m \in S : m < l}) < Cardinality({m \in S : m < j})
    OBVIOUS
  <2> DEFINE T == {m \in S : m < j}
  <2>2. T \subseteq S /\ l \in T /\ \A m \in S : m < l => m \in T
    BY <2>1
  <2> HIDE DEF T
  <2>3. Cardinality({m \in S : m < l}) < Cardinality(T)
    BY <1>1, <2>2
  <2> QED
    BY <2>3 DEF T
<1>5. j \in Nat /\ l \in Nat
  OBVIOUS
<1>6. ~(j < l) /\ ~(l < j) => j = l
  BY <1>5
<1>7. \A a, b \in Nat : a < b => a # b
  OBVIOUS
<1> QED
  BY <1>2, <1>3, <1>4, <1>6, <1>7, Zenon

\* An event changes no rank, and the next element comes last.
LEMMA RankKept ==
  ASSUME text \in Seq(Events), NEW e, text' = Append(text, e), NEW i \in Arrays, NEW h, h = Here
  PROVE  /\ Cardinality(InArray(i)) \in Nat
         /\ \A j \in InArray(i) : Rank(i, j)' = Rank(i, j)
         /\ InArray(i)' = InArray(i) \cup {h} =>
               Rank(i, h)' = Cardinality(InArray(i)) /\ Cardinality(InArray(i)') = Cardinality(InArray(i)) + 1
<1> PICK S : S = InArray(i)
  OBVIOUS
<1>1. Len(text) \in Nat /\ h = Len(text) + 1 /\ \A j \in 1..Len(text) : j < h
  BY HereIs
<1>2. S \subseteq 1..Len(text) /\ (InArray(i)' = S \/ InArray(i)' = S \cup {h})
  BY ArrayKept
<1>3. /\ Cardinality(S) \in Nat /\ Cardinality(S \cup {h}) = Cardinality(S) + 1
  BY <1>1, <1>2, OneMore, Zenon
<1>4. \A j \in S \cup {h} : {m \in S \cup {h} : m < j} = {m \in S : m < j}
  <2>1. \A j \in S \cup {h} : ~(h < j)
    BY <1>1, <1>2
  <2> QED
    BY <2>1
<1>5. {m \in S \cup {h} : m < h} = S
  BY <1>1, <1>2, <1>4
<1>6. \A j \in S : Rank(i, j)' = Rank(i, j)
  BY <1>2, <1>4, Zenon DEF Rank
<1>7. InArray(i)' = S \cup {h} => Rank(i, h)' = Cardinality(S)
  BY <1>5, Zenon DEF Rank
<1> QED
  BY <1>3, <1>6, <1>7, Zenon

\* What a sequence has of an array stays, as long as the filters of the arrays
\* that ended are the same.
LEMMA FirstKept ==
  ASSUME text \in Seq(Events), NEW e, text' = Append(text, e), NEW i \in Arrays,
         NEW f, NEW F, NEW G, Agree(F, G), FirstOf(f, i, F)
  PROVE  FirstOf(f, i, G)'
<1>1. SUFFICES ASSUME NEW m \in 1..Len(f)
               PROVE  \E j \in InArray(i)' : /\ Rank(i, j)' = m - 1
                                             /\ f[m] = Value(G, j)'
                                             /\ j \in Arrays' => Closed(j)'
  BY DEF FirstOf
<1>2. PICK j \in InArray(i) : /\ Rank(i, j) = m - 1
                              /\ f[m] = Value(F, j)
                              /\ j \in Arrays => Closed(j)
  BY DEF FirstOf
<1>3. j \in InArray(i)' /\ Rank(i, j)' = m - 1 /\ j \in 1..Len(text)
  BY <1>2, ArrayKept, RankKept
<1>4. text'[j] = text[j] /\ (j \in Arrays' <=> j \in Arrays)
  BY <1>3, Appended DEF Arrays, Positions
<1>5. j \in Arrays => Closed(j)'
  BY <1>2, ArrayKept
<1>6. text[j][1] = "string" \/ j \in Arrays
  BY <1>3, Appended DEF InArray, Positions, Arrays
<1>7. Value(G, j)' = Value(F, j)
  <2>1. j \in Arrays => G[j] = F[j]
    BY <1>2 DEF Agree
  <2> QED
    BY <1>4, <1>6, <2>1 DEF Value
<1> QED
  BY <1>2, <1>3, <1>4, <1>5, <1>7

\* What an array takes, it takes as long as it gets no more.
LEMMA TakesKept ==
  ASSUME text \in Seq(Events), NEW e, text' = Append(text, e), NEW i \in Arrays,
         InArray(i)' = InArray(i), NEW t
  PROVE  /\ Takes(i, t) => Takes(i, t)'
         /\ StartsWith(i, t) => StartsWith(i, t)'
<1>1. /\ \A j \in InArray(i) : j \in 1..Len(text)
      /\ \A j \in 1..Len(text) : text'[j] = text[j]
      /\ DOMAIN text = 1..Len(text) /\ 1..Len(text) \subseteq DOMAIN text'
  BY ArrayKept, Appended
<1>2. \A j \in InArray(i) : (j \in Arrays' <=> j \in Arrays) /\ text'[j] = text[j]
  BY <1>1 DEF Arrays, Positions
<1>3. InArray(i)' \ Arrays' = InArray(i) \ Arrays /\ InArray(i)' \cap Arrays' = InArray(i) \cap Arrays
  BY <1>2
<1>4. Takes(i, t) => Takes(i, t)'
  BY <1>3 DEF Takes
<1>5. StartsWith(i, t) => StartsWith(i, t)'
  BY <1>2 DEF StartsWith
<1> QED
  BY <1>4, <1>5

\* An array that ended stays read.
LEMMA ReadKept ==
  ASSUME text \in Seq(Events), NEW e, text' = Append(text, e), NEW i \in Arrays,
         NEW F, NEW G, Agree(F, G), Closed(i), Read(F, i)
  PROVE  Read(G, i)'
<1> PICK f : f = F[i]
  OBVIOUS
<1>1. G[i] = f /\ InArray(i)' = InArray(i)
  BY ArrayKept DEF Agree
<1>2. IsSeq(f) /\ Len(f) = Cardinality(InArray(i)) /\ FirstOf(f, i, F)
  BY Zenon DEF Read
<1>3. FirstOf(f, i, G)'
  BY <1>2, FirstKept, Zenon
<1>4. PICK t \in Types : StartsWith(i, t) /\ Takes(i, t)
  BY Zenon DEF Read
<1>5. StartsWith(i, t)' /\ Takes(i, t)'
  BY <1>1, <1>4, TakesKept, Zenon
<1> QED
  BY <1>1, <1>2, <1>3, <1>5, Zenon DEF Read

-----------------------------------------------------------------------------
(***************************************************************************)
(* The text and the filters built from it, with one more event.            *)
(***************************************************************************)
\* The open array of a level is the one its filter is built from.
LEMMA BuiltOpen ==
  ASSUME text \in Seq(Events), Building, NEW k \in 1..Len(filters), NEW i, IsOpen(k, i)
  PROVE  BuiltFrom(k, i)
<1>1. k \in Nat
  BY TopOnly
<1>2. PICK j \in Arrays : IsOpen(k, j) /\ BuiltFrom(k, j)
  BY Zenon DEF Building
<1>3. i = j
  BY <1>1, <1>2, OneOpen, Zenon
<1> QED
  BY <1>2, <1>3, Zenon

\* The outermost arrays.
LEMMA OutermostNext ==
  ASSUME text \in Seq(Events), NEW e, text' = Append(text, e), NEW h, h = Here
  PROVE  /\ Outermost \subseteq Arrays
         /\ Outermost' = IF e[1] = "start_array" /\ ArrayLevel(Here) = 0 THEN Outermost \cup {h} ELSE Outermost
<1>1. Arrays' = IF e[1] = "start_array" THEN Arrays \cup {h} ELSE Arrays
  BY ArraysNext
<1>2. \A i \in Arrays \cup {h} : ArrayLevel(i)' = ArrayLevel(i)
  BY ArraysNext, HereIs
<1> QED
  BY <1>1, <1>2 DEF Outermost

\* Where an event is in place.
LEMMA PlacedNext ==
  ASSUME text \in Seq(Events), NEW e, text' = Append(text, e), InPlace,
         NEW n \in Nat, n = ArrayLevel(Here),
         e[1] # "error", e[1] = "string" => n > 0, e[1] = "start_array" => n < DEPTH_MAX
  PROVE  InPlace'
<1> PICK h : h = Here
  OBVIOUS
<1>1. /\ \A i \in 1..Here : ArrayLevel(i)' = ArrayLevel(i)
      /\ Arrays \subseteq 1..Len(text) /\ Arrays' = IF e[1] = "start_array" THEN Arrays \cup {h} ELSE Arrays
  BY ArraysNext
<1>2. /\ \A i \in 1..Len(text) : i \in 1..Here
      /\ h \in 1..Here
  BY HereIs
<1>3. Positions({"error"})' = Positions({"error"})
  BY PositionsAppended
<1>4. /\ Positions({"string"}) \subseteq 1..Len(text)
      /\ Positions({"string"})' = IF e[1] = "string" THEN Positions({"string"}) \cup {h} ELSE Positions({"string"})
  BY PositionsAppended
<1>5. \A j \in Positions({"string"})' : ArrayLevel(j)' > 0
  BY <1>1, <1>2, <1>4 DEF InPlace
<1>6. \A i \in Arrays' : ArrayLevel(i)' \in Nat /\ ArrayLevel(i)' < DEPTH_MAX
  BY <1>1, <1>2 DEF InPlace
<1> QED
  BY <1>3, <1>5, <1>6, Zenon DEF InPlace

\* What ends with an event is the innermost array, if the event is its end.
LEMMA EndsWith ==
  ASSUME text \in Seq(Events), NEW e, text' = Append(text, e), NEW i \in Arrays', Closed(i)',
         NEW n \in Nat, n = ArrayLevel(Here), InPlace
  PROVE  i \in Arrays /\ (Closed(i) \/ (e[1] = "end_array" /\ IsOpen(n, i)))
<1> PICK h : h = Here
  OBVIOUS
<1>1. Len(text) \in Nat /\ h = Len(text) + 1 /\ h \in 1..Here
  BY HereIs
<1>2. /\ Arrays' = Arrays \/ (e[1] = "start_array" /\ Arrays' = Arrays \cup {h})
      /\ \A j \in 1..Here : ArrayLevel(j)' = ArrayLevel(j)
      /\ ArrayLevel(Here)' = n + (IF e[1] = "start_array" THEN 1 ELSE 0) - (IF e[1] = "end_array" THEN 1 ELSE 0)
      /\ Here' = h + 1
  BY ArraysNext
<1>3. PICK j \in (i + 1)..Here' : ArrayLevel(j)' <= ArrayLevel(i)'
  BY DEF Closed
<1>4. i \in Arrays
  <2>1. SUFFICES ASSUME i = h, e[1] = "start_array" PROVE FALSE
    BY <1>2
  <2>2. j = Here'
    BY <1>1, <1>2, <2>1
  <2>3. ArrayLevel(j)' = n + 1 /\ ArrayLevel(i)' = n
    BY <1>1, <1>2, <2>1, <2>2
  <2> QED
    BY <1>3, <2>3
<1>5. ASSUME ~Closed(i) PROVE e[1] = "end_array" /\ IsOpen(n, i)
  <2> PICK l \in Nat : l = ArrayLevel(i)
    BY <1>4 DEF InPlace
  <2>1. IsOpen(l + 1, i) /\ l + 1 \in 1..n
    BY <1>4, <1>5, OpenOrEnded, Zenon
  <2>2. i \in 1..Len(text) /\ ArrayLevel(i)' = l
    BY <1>4, ArrayKept
  <2>3. j = Here'
    <3>1. SUFFICES ASSUME j # Here' PROVE FALSE
      OBVIOUS
    <3>2. j \in (i + 1)..Here /\ j \in 1..Here
      BY <1>1, <1>2, <2>2, <3>1
    <3>3. ArrayLevel(j)' = ArrayLevel(j) /\ ArrayLevel(j) > l + 1 - 1
      BY <1>2, <2>1, <3>2 DEF IsOpen
    <3> QED
      BY <1>3, <2>2, <3>3, LevelIs
  <2>4. ArrayLevel(Here)' <= l
    BY <1>3, <2>2, <2>3
  <2>5. e[1] = "end_array" /\ l + 1 = n
    BY <1>2, <2>1, <2>4
  <2> QED
    BY <2>1, <2>5
<1> QED
  BY <1>4, <1>5

\* The text stays written if what ends is read, what is open is read up to the
\* event, and there is one filter.
LEMMA WriteOn ==
  ASSUME text \in Seq(Events), NEW e, text' = Append(text, e), Building, Building',
         NEW F, NEW G, Written(F), Agree(F, G), DOMAIN G = Nat,
         NEW n, n = Len(filters), NEW m, m = Len(filters'), NEW h, h = Here,
         e[1] # "error", e[1] = "string" => n > 0, e[1] = "start_array" => n < DEPTH_MAX,
         e[1] = "end_array" => \A i \in Arrays : IsOpen(n, i) => Read(G, i)',
         \A k \in 1..n : \A i \in Arrays : k <= m /\ IsOpen(k, i) /\ ReadTo(F, k, i) => ReadTo(G, k, i)',
         e[1] = "start_array" => ReadTo(G, n + 1, h)',
         OneFilter(G)'
  PROVE  Written(G)'
<1>1. n \in Nat /\ n = ArrayLevel(Here)
  BY TopOnly, Zenon
<1>2. InPlace'
  BY <1>1, PlacedNext, Zenon DEF Written
<1>3. ASSUME NEW i \in Arrays', Closed(i)' PROVE Read(G, i)'
  <2>1. i \in Arrays /\ (Closed(i) \/ (e[1] = "end_array" /\ IsOpen(n, i)))
    BY <1>1, <1>3, EndsWith, Zenon DEF Written
  <2>2. CASE Closed(i)
    <3>1. Read(F, i)
      BY <2>1, <2>2, Zenon DEF Written
    <3> QED
      BY <2>1, <2>2, <3>1, ReadKept, Zenon
  <2> QED
    BY <2>1, <2>2, Zenon
<1>4. ASSUME NEW k \in 1..m, NEW i \in Arrays', IsOpen(k, i)' PROVE ReadTo(G, k, i)'
  <2>1. m \in Nat /\ m = ArrayLevel(Here)'
    <3>1. IsSeq(filters') /\ Len(filters') = ArrayLevel(Here)'
      BY Zenon DEF Building
    <3> QED
      BY <3>1, SeqIs, Zenon
  <2>2. k \in Nat /\ k <= m
    BY <2>1
  <2>3. CASE i \in Arrays
    <3>1. IsOpen(k, i)
      BY <1>4, <2>2, <2>3, WasOpen, Zenon
    <3>2. Here \in (i + 1)..Here
      BY <2>3, HereIs, ArrayKept
    <3>3. n > k - 1
      BY <1>1, <3>1, <3>2 DEF IsOpen
    <3>4. k \in 1..n
      BY <1>1, <2>1, <3>3
    <3> QED
      BY <2>2, <2>3, <3>1, <3>4, Zenon DEF Written
  <2>4. CASE i \notin Arrays
    <3>1. e[1] = "start_array" /\ i = h
      BY <2>4, ArraysNext
    <3>2. ArrayLevel(h)' = n /\ ArrayLevel(i)' = k - 1
      <4>1. h \in 1..Here
        BY HereIs
      <4>2. ArrayLevel(h)' = n
        BY <1>1, <4>1, ArraysNext
      <4> QED
        BY <1>4, <4>2, Zenon DEF IsOpen
    <3>3. k = n + 1
      BY <1>1, <2>2, <3>1, <3>2
    <3> QED
      BY <3>1, <3>3, Zenon
  <2> QED
    BY <2>3, <2>4
<1> QED
  BY <1>2, <1>3, <1>4, Zenon DEF Written

\* An open array that gets nothing stays read, with the same filter, if it is
\* still the innermost or one around it.
LEMMA LowerKept ==
  ASSUME text \in Seq(Events), NEW e, text' = Append(text, e), Building,
         NEW F, NEW G, Agree(F, G), NEW n, n = Len(filters), NEW m, m = Len(filters'),
         NEW k \in 1..n, NEW i \in Arrays, IsOpen(k, i), ReadTo(F, k, i),
         InArray(i)' = InArray(i), filters'[k] = filters[k], k = n <=> k = m
  PROVE  ReadTo(G, k, i)'
<1> PICK f : f = filters[k]
  OBVIOUS
<1> PICK h : h = Here
  OBVIOUS
<1>1. n \in Nat /\ n = ArrayLevel(Here) /\ k \in Nat /\ k + 1 \in Nat /\ (k # n => k + 1 \in 1..n)
  <2>1. n \in Nat /\ n = ArrayLevel(Here)
    BY TopOnly, Zenon
  <2> QED
    BY <2>1
<1>2. FirstOf(f, i, G)'
  <2>1. FirstOf(f, i, F)
    BY Zenon DEF ReadTo
  <2> QED
    BY <2>1, FirstKept, Zenon
<1>3. Takes(i, f[1]) => Takes(i, f[1])'
  <2> PICK t : t = f[1]
    OBVIOUS
  <2> QED
    BY TakesKept, Zenon
<1>4. k # n => \A j \in Arrays' : IsOpen(k + 1, j)' => Rank(i, j)' = Len(f)
  <2>1. SUFFICES ASSUME k # n, NEW j \in Arrays', IsOpen(k + 1, j)' PROVE Rank(i, j)' = Len(f)
    OBVIOUS
  <2>2. j \in Arrays
    <3>1. SUFFICES ASSUME j = h, e[1] = "start_array" PROVE FALSE
      BY ArraysNext
    <3>2. h \in 1..Here
      BY HereIs
    <3>3. ArrayLevel(j)' = n /\ ArrayLevel(j)' = k + 1 - 1
      BY <1>1, <2>1, <3>1, <3>2, ArraysNext DEF IsOpen
    <3> QED
      BY <1>1, <2>1, <3>3
  <2>3. IsOpen(k + 1, j)
    BY <1>1, <2>1, <2>2, WasOpen, Zenon
  <2>4. Rank(i, j) = Len(f)
    BY <2>1, <2>2, <2>3, Zenon DEF ReadTo
  <2>5. j \in InArray(i)
    BY <1>1, <2>3, Nested, Zenon
  <2> QED
    BY <2>4, <2>5, RankKept, Zenon
<1>5. /\ IF k = n THEN Cardinality(InArray(i)) = Len(f) ELSE Cardinality(InArray(i)) = Len(f) + 1
      /\ f # NoFilter /\ (k = n \/ f[1] \in Collections) => Takes(i, f[1])
  BY Zenon DEF ReadTo
<1> QED
  BY <1>2, <1>3, <1>4, <1>5, Zenon DEF ReadTo

\* An array gets nothing from an event that is no element, nor does one around
\* the innermost.
LEMMA GetsNothing ==
  ASSUME text \in Seq(Events), NEW e, text' = Append(text, e), Building,
         NEW k \in 1..Len(filters), NEW i, IsOpen(k, i), ~IsElement(e) \/ k # Len(filters)
  PROVE  InArray(i)' = InArray(i)
<1>1. k \in Nat /\ Len(filters) = ArrayLevel(Here)
  BY TopOnly
<1> QED
  BY <1>1, InArrayNext, Zenon

\* With an event that the parser ignores.
LEMMA IgnoredWrites ==
  ASSUME text \in Seq(Events), NEW e, text' = Append(text, e), Building, Building',
         NEW F, Written(F), ~IsElement(e), e[1] # "end_array", e[1] # "error",
         filters' = filters, result' = result
  PROVE  Written(F)'
<1> PICK n : n = Len(filters)
  OBVIOUS
<1> PICK h : h = Here
  OBVIOUS
<1>1. Agree(F, F) /\ DOMAIN F = Nat
  BY Zenon DEF Agree, Written
<1>2. e[1] # "string" /\ e[1] # "start_array"
  BY DEF IsElement
<1>3. ASSUME NEW k \in 1..n, NEW i \in Arrays, IsOpen(k, i), ReadTo(F, k, i)
      PROVE  ReadTo(F, k, i)'
  <2>1. InArray(i)' = InArray(i)
    BY <1>3, GetsNothing, Zenon
  <2> QED
    BY <1>1, <1>3, <2>1, LowerKept, Zenon
<1>4. Outermost' = Outermost
  BY <1>2, OutermostNext
<1>5. OneFilter(F)'
  <2>1. OneFilter(F)
    BY Zenon DEF Written
  <2> QED
    BY <1>4, <2>1 DEF OneFilter
<1> QED
  BY <1>1, <1>2, <1>3, <1>5, WriteOn, Zenon

\* A string is one more element.
LEMMA FirstGrows ==
  ASSUME text \in Seq(Events), NEW s, text' = Append(text, <<"string", s>>), NEW i \in Arrays,
         NEW f, IsSeq(f), NEW F, FirstOf(f, i, F), Cardinality(InArray(i)) = Len(f),
         NEW h, h = Here, InArray(i)' = InArray(i) \cup {h}
  PROVE  FirstOf(Append(f, s), i, F)'
<1> PICK e : e = <<"string", s>>
  OBVIOUS
<1>1. /\ Len(f) \in Nat /\ Len(Append(f, s)) = Len(f) + 1
      /\ \A m \in 1..Len(f) : Append(f, s)[m] = f[m]
      /\ Append(f, s)[Len(f) + 1] = s
  BY SeqIs, SeqAppended
<1>2. FirstOf(f, i, F)'
  <2>1. Agree(F, F)
    BY DEF Agree
  <2> QED
    BY <2>1, FirstKept, Zenon
<1>3. text'[h] = e /\ h \notin Arrays' /\ h \in InArray(i)'
  <2>1. text'[h] = e
    BY Appended, Zenon DEF Here
  <2>2. text'[h][1] # "start_array"
    <3>1. e[1] # "start_array"
      OBVIOUS
    <3> QED
      BY <2>1, <3>1, Zenon
  <2> QED
    BY <2>1, <2>2 DEF Arrays, Positions
<1>4. Rank(i, h)' = Len(f)
  BY RankKept, Zenon
<1>5. Value(F, h)' = s
  <2>1. e[1] = "string" /\ e[2] = s
    OBVIOUS
  <2> QED
    BY <1>3, <2>1, Zenon DEF Value
<1>6. SUFFICES ASSUME NEW m \in 1..(Len(f) + 1)
               PROVE  \E j \in InArray(i)' : /\ Rank(i, j)' = m - 1
                                             /\ Append(f, s)[m] = Value(F, j)'
                                             /\ j \in Arrays' => Closed(j)'
  BY <1>1 DEF FirstOf
<1>7. CASE m \in 1..Len(f)
  BY <1>1, <1>2, <1>7, Zenon DEF FirstOf
<1>8. CASE m \notin 1..Len(f)
  <2>1. m = Len(f) + 1 /\ m - 1 = Len(f)
    BY <1>1, <1>8
  <2> QED
    BY <1>1, <1>3, <1>4, <1>5, <2>1, Zenon
<1> QED
  BY <1>7, <1>8

\* With a string that is taken, as a type or an argument.
LEMMA StringWrites ==
  ASSUME text \in Seq(Events), NEW s, text' = Append(text, <<"string", s>>), Building, Building',
         NEW F, Written(F), Len(filters) > 0,
         filters' = [filters EXCEPT ![Len(filters)] = Append(Top, s)], result' = result,
         Top # NoFilter => Len(Top) <= StringArgs(Top[1])
  PROVE  Written(F)'
<1> PICK e : e = <<"string", s>>
  OBVIOUS
<1> PICK n : n = Len(filters)
  OBVIOUS
<1> PICK h : h = Here
  OBVIOUS
<1> PICK f : f = Top
  OBVIOUS
<1>1. e[1] = "string" /\ IsElement(e) /\ e[1] # "error" /\ e[1] # "start_array" /\ e[1] # "end_array"
  BY DEF IsElement
<1>2. n \in Nat /\ n \in 1..n /\ n = ArrayLevel(Here) /\ IsSeq(filters) /\ IsSeq(f) /\ f = filters[n]
  BY Innermost, TopOnly, Zenon DEF Top
<1> PICK g : g = Append(f, s)
  OBVIOUS
<1>3. /\ Len(filters') = n
      /\ \A k \in 1..n : filters'[k] = IF k = n THEN g ELSE filters[k]
  <2>1. filters' = [filters EXCEPT ![Len(filters)] = g]
    OBVIOUS
  <2> QED
    BY <1>2, <2>1, StackSet, Zenon
<1>4. Agree(F, F) /\ DOMAIN F = Nat
  BY Zenon DEF Agree, Written
<1>5. ASSUME NEW k \in 1..n, NEW i \in Arrays, IsOpen(k, i), ReadTo(F, k, i)
      PROVE  ReadTo(F, k, i)'
  <2>1. CASE k = n
    <3>1. Cardinality(InArray(i)) = Len(f) /\ FirstOf(f, i, F)
      BY <1>2, <1>5, <2>1, Zenon DEF ReadTo
    <3>2. /\ InArray(i) \subseteq 1..Len(text)
          /\ InArray(i)' = InArray(i) \cup {h}
      BY <1>1, <1>2, <1>5, <2>1, InArrayNext, Zenon
    <3>3. FirstOf(Append(f, s), i, F)'
      BY <1>2, <3>1, <3>2, FirstGrows, Zenon
    <3>4. /\ Cardinality(InArray(i)') = Len(f) + 1 /\ Len(Append(f, s)) = Len(f) + 1
          /\ Len(f) \in Nat
      BY <1>2, <3>1, <3>2, RankKept, SeqAppended, SeqIs, Zenon
    <3>5. Takes(i, Append(f, s)[1])'
      <4> PICK t : t = Append(f, s)[1]
        OBVIOUS
      <4>1. h \notin Arrays' /\ \A j \in 1..Len(text) : j \in Arrays' <=> j \in Arrays
        BY <1>1, ArraysNext, HereIs
      <4>2. StringArgs(t) \in Nat
        BY ArgsOf
      <4>3. CASE f = NoFilter
        <5>1. InArray(i) = {}
          BY <1>2, <1>5, <2>1, <4>3, BuiltOpen, Zenon DEF BuiltFrom
        <5>2. InArray(i)' = {h} /\ h <= h
          BY <3>2, <5>1, HereIs
        <5>3. Cardinality(InArray(i)') = 1
          BY <5>2, FS_Singleton, Zenon
        <5>4. 1 <= StringArgs(t) + 1 /\ InArray(i)' \cap Arrays' = {}
          BY <4>1, <4>2, <5>2
        <5> QED
          BY <5>2, <5>3, <5>4 DEF Takes
      <4>4. CASE f # NoFilter
        <5>1. Len(f) # 0 /\ Len(f) <= StringArgs(f[1])
          BY <1>2, <4>4, SeqIs DEF NoFilter
        <5>2. t = f[1]
          <6>1. 1 \in 1..Len(f)
            BY <3>4, <5>1
          <6>2. \A j \in 1..Len(f) : Append(f, s)[j] = f[j]
            BY <1>2, SeqAppended, ZenonT(30)
          <6> QED
            BY <6>1, <6>2
        <5>3. t \notin Collections
          <6>1. t \in Collections => StringArgs(t) = 0
            BY ArgsOf
          <6> QED
            BY <3>4, <5>1, <5>2, <6>1
        <5>4. InArray(i) \cap Arrays = {}
          <6>1. Takes(i, t)
            BY <1>2, <1>5, <2>1, <4>4, <5>2, Zenon DEF ReadTo
          <6> QED
            BY <5>3, <6>1, Zenon DEF Takes
        <5>5. InArray(i)' \cap Arrays' = {}
          BY <3>2, <4>1, <5>4
        <5>6. Cardinality(InArray(i)') <= StringArgs(t) + 1
          BY <3>4, <4>2, <5>1, <5>2
        <5> QED
          BY <5>3, <5>5, <5>6, Zenon DEF Takes
      <4> QED
        BY <4>3, <4>4
    <3> QED
      BY <1>3, <2>1, <3>3, <3>4, <3>5, Zenon DEF ReadTo
  <2>2. CASE k # n
    <3>1. InArray(i)' = InArray(i)
      BY <1>5, <2>2, GetsNothing, Zenon
    <3> QED
      BY <1>3, <1>4, <1>5, <2>2, <3>1, LowerKept, Zenon
  <2> QED
    BY <2>1, <2>2
<1>6. Outermost' = Outermost
  BY <1>1, OutermostNext
<1>7. OneFilter(F)'
  <2>1. OneFilter(F)
    BY Zenon DEF Written
  <2> QED
    BY <1>3, <1>6, <2>1 DEF OneFilter
<1> QED
  BY <1>1, <1>3, <1>4, <1>5, <1>7, WriteOn, Zenon

\* With an array that is given a place.
LEMMA StartWrites ==
  ASSUME text \in Seq(Events), NEW e, text' = Append(text, e), e[1] = "start_array",
         Building, Building', NEW F, Written(F),
         filters # <<>> => Top # NoFilter /\ Len(filters) < DEPTH_MAX,
         filters = <<>> => result = NoFilter,
         filters' = Append(filters, NoFilter), result' = result
  PROVE  Written(F)'
<1> PICK n : n = Len(filters)
  OBVIOUS
<1> PICK h : h = Here
  OBVIOUS
<1>1. n \in Nat /\ n = ArrayLevel(Here) /\ IsSeq(filters) /\ (filters = <<>> <=> n = 0)
  BY TopOnly, SeqIs, Zenon
<1>2. /\ e[1] # "error" /\ e[1] # "string" /\ e[1] # "end_array" /\ IsElement(e)
  BY DEF IsElement
<1>3. /\ Len(filters') = n + 1 /\ n + 1 # n
      /\ \A k \in 1..n : filters'[k] = filters[k] /\ k # n + 1
      /\ filters'[n + 1] = NoFilter
  <2>1. /\ Len(filters') = n + 1
        /\ \A k \in 1..n : filters'[k] = filters[k]
        /\ filters'[n + 1] = NoFilter
    BY <1>1, StackGrows, Zenon
  <2> QED
    BY <1>1, <2>1
<1>4. Agree(F, F) /\ DOMAIN F = Nat
  BY Zenon DEF Agree, Written
<1>5. /\ Len(text) \in Nat /\ \A j \in 1..Len(text) : j <= h
      /\ h <= h /\ h \in 1..Here
  BY HereIs
<1>6. /\ Arrays' = Arrays \cup {h} /\ ArrayLevel(h)' = n
      /\ h \in Arrays' /\ InArray(h)' = {}
  BY <1>1, <1>5, ArraysNext, InNewArray, Zenon
<1>7. ReadTo(F, n + 1, h)'
  <2>1. Len(NoFilter) = 0 /\ 1..0 = {} /\ Cardinality({}) = 0
    BY FS_EmptySet DEF NoFilter
  <2>2. FirstOf(NoFilter, h, F)'
    BY <2>1 DEF FirstOf
  <2> QED
    BY <1>3, <1>6, <2>1, <2>2, Zenon DEF ReadTo
<1>8. ASSUME NEW k \in 1..n, NEW i \in Arrays, IsOpen(k, i), ReadTo(F, k, i)
      PROVE  ReadTo(F, k, i)'
  <2> PICK f : f = filters[k]
    OBVIOUS
  <2>1. CASE k = n
    <3>1. /\ InArray(i)' = InArray(i) \cup {h} /\ InArray(i) \subseteq 1..Len(text)
      BY <1>1, <1>2, <1>8, <2>1, InArrayNext, Zenon
    <3>2. FirstOf(f, i, F)'
      <4>1. FirstOf(f, i, F)
        BY <1>8, Zenon DEF ReadTo
      <4> QED
        BY <1>4, <4>1, FirstKept, Zenon
    <3>3. /\ Cardinality(InArray(i)) = Len(f) /\ Rank(i, h)' = Len(f)
          /\ Cardinality(InArray(i)') = Len(f) + 1
      <4>1. Cardinality(InArray(i)) = Len(f)
        BY <1>8, <2>1, Zenon DEF ReadTo
      <4> QED
        BY <3>1, <4>1, RankKept, Zenon
    <3>4. \A j \in Arrays' : IsOpen(k + 1, j)' => j = h
      <4>1. SUFFICES ASSUME NEW j \in Arrays, IsOpen(k + 1, j)' PROVE FALSE
        BY <1>6
      <4>2. ArrayLevel(j)' = ArrayLevel(j) /\ j \in 1..Len(text) /\ IsOpen(k + 1, j)
        BY <1>1, <2>1, <4>1, ArrayKept, WasOpen
      <4>3. Here \in (j + 1)..Here
        BY <4>2, HereIs
      <4>4. ArrayLevel(Here) > k + 1 - 1
        BY <4>2, <4>3 DEF IsOpen
      <4> QED
        BY <1>1, <2>1, <4>4
    <3>5. f[1] \in Collections => Takes(i, f[1])'
      <4> PICK t : t = f[1]
        OBVIOUS
      <4>1. SUFFICES ASSUME t \in Collections PROVE Takes(i, t)'
        OBVIOUS
      <4>2. f # NoFilter
        BY <1>1, <2>1 DEF Top
      <4>3. Takes(i, t)
        BY <1>8, <2>1, <4>2, Zenon DEF ReadTo
      <4>4. \A j \in InArray(i) \ Arrays : \A m \in InArray(i) : j <= m
        BY <4>1, <4>3, Zenon DEF Takes
      <4>5. \A j \in InArray(i)' \ Arrays' : \A m \in InArray(i)' : j <= m
        BY <1>5, <1>6, <3>1, <4>4
      <4> QED
        BY <4>1, <4>5, Zenon DEF Takes
    <3> QED
      BY <1>3, <2>1, <3>2, <3>3, <3>4, <3>5, Zenon DEF ReadTo
  <2>2. CASE k # n
    <3>1. InArray(i)' = InArray(i)
      BY <1>8, <2>2, GetsNothing, Zenon
    <3> QED
      BY <1>3, <1>4, <1>8, <2>2, <3>1, LowerKept, Zenon
  <2> QED
    BY <2>1, <2>2
<1>9. OneFilter(F)'
  <2>1. OneFilter(F)
    BY Zenon DEF Written
  <2>2. result' = NoFilter
    <3>1. n # 0 => n > 0
      BY <1>1
    <3> QED
      BY <1>1, <2>1, <3>1, Zenon DEF OneFilter
  <2>3. n + 1 > 0 /\ n + 1 # 0 /\ (n # 0 => n > 0)
    BY <1>1
  <2>4. \A i, j \in Outermost' : i = j
    <3>1. CASE n = 0
      <4>1. Outermost = {}
        BY <1>1, <2>1, <3>1 DEF OneFilter
      <4>2. Outermost' = {h}
        BY <1>1, <3>1, <4>1, OutermostNext
      <4> QED
        BY <4>2
    <3>2. CASE n # 0
      <4>1. Outermost' = Outermost
        BY <1>1, <3>2, OutermostNext, Zenon
      <4> QED
        BY <2>1, <4>1, Zenon DEF OneFilter
    <3> QED
      BY <3>1, <3>2
  <2> QED
    BY <1>3, <2>2, <2>3, <2>4, Zenon DEF OneFilter
<1>10. n < DEPTH_MAX
  BY <1>1, JSONAssumption
<1> QED
  BY <1>2, <1>3, <1>4, <1>7, <1>8, <1>9, <1>10, WriteOn, Zenon

\* With the end of the innermost array, which has its filter.
LEMMA EndWrites ==
  ASSUME text \in Seq(Events), NEW e, text' = Append(text, e), e[1] = "end_array",
         Building, Building', NEW F, Written(F), Len(filters) > 0, Top # NoFilter,
         \/ Len(filters) = 1 /\ filters' = <<>> /\ result' = Top
         \/ /\ Len(filters) > 1 /\ result' = result
            /\ filters' = [Front(filters) EXCEPT ![Len(filters) - 1] = Append(@, Top)]
  PROVE  \E G : Written(G)'
<1> PICK n : n = Len(filters)
  OBVIOUS
<1> PICK h : h = Here
  OBVIOUS
<1> PICK m : m = Len(filters')
  OBVIOUS
<1> PICK top : top = Top
  OBVIOUS
<1>1. n \in Nat /\ n \in 1..n /\ n = ArrayLevel(Here) /\ IsSeq(filters) /\ IsSeq(top) /\ top = filters[n]
  BY Innermost, TopOnly, Zenon DEF Top
<1>2. e[1] # "error" /\ e[1] # "string" /\ e[1] # "start_array" /\ ~IsElement(e)
  BY DEF IsElement
<1>3. PICK i \in Arrays : IsOpen(n, i) /\ BuiltFrom(n, i) /\ i \in 1..Len(text) /\ text[i][1] = "start_array"
  <2>1. PICK i \in Arrays : IsOpen(n, i) /\ BuiltFrom(n, i)
    BY <1>1, Zenon DEF Building
  <2>2. i \in 1..Len(text) /\ text[i][1] = "start_array"
    BY DEF Arrays, Positions
  <2> QED
    BY <2>1, <2>2, Zenon
<1>4. \A j \in Arrays : IsOpen(n, j) => j = i
  BY <1>1, <1>3, OneOpen, Zenon
<1> DEFINE G == [x \in Nat |-> IF x = i THEN top ELSE F[x]]
<1>5. DOMAIN G = Nat /\ G[i] = top /\ Agree(F, G)
  <2>1. i \in Nat
    BY <1>3
  <2>2. ASSUME NEW j \in Arrays, Closed(j) PROVE G[j] = F[j]
    <3>1. j # i
      BY <1>1, <1>3, <2>2, OpenNotEnded, Zenon
    <3>2. j \in Nat
      BY DEF Arrays, Positions
    <3> QED
      BY <3>1, <3>2
  <2> HIDE DEF G
  <2>3. Agree(F, G)
    BY <2>2, Zenon DEF Agree
  <2> QED
    BY <2>1, <2>3 DEF G
<1> HIDE DEF G
<1>6. ReadTo(F, n, i)
  BY <1>1, <1>3, Zenon DEF Written
<1>7. InArray(i)' = InArray(i) /\ text'[i] = text[i] /\ Closed(i)'
  <2>1. InArray(i)' = InArray(i)
    BY <1>1, <1>2, <1>3, GetsNothing, Zenon
  <2>2. Here' = Here + 1 /\ ArrayLevel(Here)' = n - 1 /\ ArrayLevel(i)' = n - 1
    <3>1. i \in 1..Here
      BY <1>3, HereIs
    <3>2. ArrayLevel(i) = n - 1
      BY <1>3 DEF IsOpen
    <3> QED
      BY <1>1, <3>1, <3>2, ArraysNext
  <2>3. Here' \in (i + 1)..Here'
    BY <1>3, <2>2, HereIs
  <2>4. n - 1 <= n - 1
    BY <1>1
  <2> QED
    BY <1>3, <2>1, <2>2, <2>3, <2>4, Appended, Zenon DEF Closed
<1>8. Read(G, i)'
  <2>1. Len(top) = Cardinality(InArray(i)) /\ FirstOf(top, i, F)
    BY <1>1, <1>6, Zenon DEF ReadTo
  <2>2. FirstOf(top, i, G)'
    BY <1>5, <2>1, FirstKept, Zenon
  <2> PICK t : t = top[1]
    OBVIOUS
  <2>3. t \in Types /\ StartsWith(i, t)
    BY <1>1, <1>3, Zenon DEF BuiltFrom
  <2>4. Takes(i, t)
    BY <1>1, <1>6, Zenon DEF ReadTo
  <2>5. StartsWith(i, t)' /\ Takes(i, t)'
    BY <1>7, <2>3, <2>4, TakesKept, Zenon
  <2> QED
    BY <1>1, <1>5, <1>7, <2>1, <2>2, <2>3, <2>5, Zenon DEF Read
<1>9. OneFilter(F) /\ Outermost' = Outermost /\ result = NoFilter
  <2>1. OneFilter(F)
    BY Zenon DEF Written
  <2>2. Outermost' = Outermost
    BY <1>2, OutermostNext, Zenon
  <2> QED
    BY <2>1, <2>2, Zenon DEF OneFilter
<1>10. CASE n = 1 /\ filters' = <<>> /\ result' = top
  <2>1. m = 0 /\ ~(m > 0)
    BY <1>10
  <2>2. \A j \in Outermost : j = i
    <3>1. i \in Outermost
      BY <1>3, <1>10 DEF Outermost, IsOpen
    <3> QED
      BY <1>9, <3>1, Zenon DEF OneFilter
  <2>3. OneFilter(G)'
    BY <1>5, <1>9, <1>10, <2>1, <2>2, Zenon DEF OneFilter
  <2>4. \A k \in 1..n : ~(k <= m)
    BY <2>1
  <2> QED
    BY <1>2, <1>4, <1>5, <1>8, <2>3, <2>4, WriteOn, Zenon
<1>11. CASE /\ n > 1 /\ result' = result
            /\ filters' = [Front(filters) EXCEPT ![n - 1] = Append(@, top)]
  <2>1. /\ m = n - 1 /\ n - 1 \in 1..n /\ n - 1 # n /\ n - 1 \in Nat
        /\ \A k \in 1..n : k <= m /\ k # n - 1 => k \in 1..(n - 1) /\ k # n /\ filters'[k] = filters[k]
        /\ filters'[n - 1] = Append(filters[n - 1], top)
    <3>1. /\ IsSeq(Front(filters)) /\ Len(Front(filters)) = n - 1
          /\ \A k \in 1..(n - 1) : Front(filters)[k] = filters[k]
      BY <1>1, SeqFront
    <3> PICK o : o = Front(filters)
      OBVIOUS
    <3>2. n - 1 \in Nat /\ n - 1 \in 1..(n - 1) /\ n - 1 \in 1..n /\ n - 1 # n
      BY <1>1, <1>11
    <3>3. DOMAIN o = 1..(n - 1)
      BY <3>1, SeqIs, Zenon
    <3>4. /\ DOMAIN filters' = 1..(n - 1)
          /\ \A k \in 1..(n - 1) : filters'[k] = IF k = n - 1 THEN Append(o[k], top) ELSE o[k]
      BY <1>11, <3>2, <3>3
    <3>5. m = n - 1
      <4>1. IsSeq(filters')
        BY Zenon DEF Building
      <4>2. m \in Nat /\ 1..m = 1..(n - 1)
        BY <3>4, <4>1, SeqIs, Zenon
      <4> QED
        BY <3>2, <4>2
    <3>6. \A k \in 1..n : k <= m /\ k # n - 1 => k \in 1..(n - 1) /\ k # n
      BY <1>1, <3>5
    <3> QED
      BY <3>1, <3>2, <3>4, <3>5, <3>6, Zenon
  <2> PICK f : f = filters[n - 1]
    OBVIOUS
  <2>2. IsSeq(f) /\ Len(f) \in Nat \ {0} /\ f # NoFilter /\ f[1] \in Collections
    <3>1. filters[n - 1] # NoFilter /\ (f[1] \notin Collections => filters[n - 1 + 1] = NoFilter)
      BY <2>1, LowerOnes, Zenon
    <3>2. n - 1 + 1 = n
      BY <1>1
    <3> QED
      BY <1>1, <2>1, <3>1, <3>2, TopOnly, Zenon
  <2>3. /\ Len(Append(f, top)) = Len(f) + 1
        /\ \A x \in 1..Len(f) : Append(f, top)[x] = f[x]
        /\ Append(f, top)[Len(f) + 1] = top
        /\ Append(f, top)[1] = f[1]
    <3>1. /\ Len(Append(f, top)) = Len(f) + 1
          /\ \A x \in 1..Len(f) : Append(f, top)[x] = f[x]
          /\ Append(f, top)[Len(f) + 1] = top
      BY <2>2, SeqAppended
    <3> QED
      BY <2>2, <3>1
  <2>4. ASSUME NEW k \in 1..n, NEW j \in Arrays, k <= m, IsOpen(k, j), ReadTo(F, k, j)
        PROVE  ReadTo(G, k, j)'
    <3>0. InArray(j)' = InArray(j)
      BY <1>2, <2>4, GetsNothing, Zenon
    <3>1. CASE k = n - 1
      <4>1. /\ FirstOf(f, j, F) /\ Cardinality(InArray(j)) = Len(f) + 1 /\ Takes(j, f[1])
            /\ \A x \in Arrays : IsOpen(n - 1 + 1, x) => Rank(j, x) = Len(f)
        BY <2>1, <2>2, <2>4, <3>1, Zenon DEF ReadTo
      <4>2. FirstOf(f, j, G)'
        BY <1>5, <4>1, FirstKept, Zenon
      <4>3. n - 1 + 1 = n
        BY <1>1
      <4>4. i \in InArray(j) /\ Rank(j, i) = Len(f)
        BY <1>3, <2>1, <2>4, <3>1, <4>1, <4>3, Nested, Zenon
      <4>5. Rank(j, i)' = Len(f) /\ i \in InArray(j)'
        BY <3>0, <4>4, RankKept, Zenon
      <4>6. Value(G, i)' = top
        <5>1. text'[i][1] = "start_array" /\ "start_array" # "string"
          BY <1>3, <1>7
        <5> QED
          BY <1>5, <5>1 DEF Value
      <4>7. FirstOf(Append(f, top), j, G)'
        <5>1. SUFFICES ASSUME NEW x \in 1..(Len(f) + 1)
                       PROVE  \E y \in InArray(j)' : /\ Rank(j, y)' = x - 1
                                                     /\ Append(f, top)[x] = Value(G, y)'
                                                     /\ y \in Arrays' => Closed(y)'
          BY <2>3 DEF FirstOf
        <5>2. CASE x \in 1..Len(f)
          BY <2>3, <4>2, <5>2, Zenon DEF FirstOf
        <5>3. CASE x \notin 1..Len(f)
          <6>1. x = Len(f) + 1 /\ x - 1 = Len(f)
            BY <2>2, <5>3
          <6> QED
            BY <1>7, <2>3, <4>5, <4>6, <6>1, Zenon
        <5> QED
          BY <5>2, <5>3
      <4>8. Takes(j, f[1])'
        <5> PICK t : t = f[1]
          OBVIOUS
        <5> QED
          BY <3>0, <4>1, TakesKept, Zenon
      <4> QED
        BY <2>1, <2>3, <3>0, <3>1, <4>1, <4>7, <4>8, Zenon DEF ReadTo
    <3>2. CASE k # n - 1
      <4>1. k # n /\ k # m /\ filters'[k] = filters[k]
        BY <2>1, <2>4, <3>2, Zenon
      <4> QED
        BY <1>5, <2>4, <3>0, <4>1, LowerKept, Zenon
    <3> QED
      BY <3>1, <3>2
  <2>5. OneFilter(G)'
    <3>1. m > 0 /\ m # 0
      BY <1>1, <1>11, <2>1
    <3> QED
      BY <1>9, <1>11, <3>1, Zenon DEF OneFilter
  <2> QED
    BY <1>2, <1>4, <1>5, <1>8, <2>4, <2>5, WriteOn, Zenon
<1> QED
  BY <1>10, <1>11, Zenon

-----------------------------------------------------------------------------
(***************************************************************************)
(* The filter of a whole text.                                             *)
(***************************************************************************)
\* Of some numbers up to another, one is the greatest.
LEMMA HasGreatest ==
  ASSUME NEW n \in Nat, NEW S, S \subseteq 1..n, S # {}
  PROVE  \E x \in S : \A y \in S : y <= x
<1> DEFINE T == {n - x : x \in S}
<1>1. T \subseteq Nat /\ T # {}
  <2>1. \A x \in S : n - x \in Nat
    OBVIOUS
  <2> QED
    BY <2>1
<1>2. PICK t \in T : \A u \in T : <<u, t>> \notin OpToRel(<, Nat)
  <2> HIDE DEF T
  <2> QED
    BY <1>1, NatLessThanWellFounded, WFMin
<1>3. \A u \in T : ~(u < t)
  <2>1. \A u \in T : <<u, t>> \in OpToRel(<, Nat) <=> u < t
    <3>1. SUFFICES ASSUME NEW u \in T PROVE <<u, t>> \in OpToRel(<, Nat) <=> u < t
      OBVIOUS
    <3>2. <<u, t>> \in Nat \X Nat /\ <<u, t>>[1] = u /\ <<u, t>>[2] = t
      BY <1>1
    <3> QED
      BY <3>2, Zenon DEF OpToRel
  <2> QED
    BY <1>2, <2>1
<1>4. PICK x \in S : t = n - x
  OBVIOUS
<1>5. \A y \in S : ~(n - y < n - x)
  BY <1>3, <1>4
<1> QED
  BY <1>5

\* The filters of the arrays, as the text gives them.
IsFilter(f) ==
    f = [i \in Arrays |->
            [n \in 1..Cardinality(InArray(i)) |->
                IF text[Element(i, n)][1] = "string" THEN text[Element(i, n)][2] ELSE f[Element(i, n)]]]

LEMMA FilterIs == Filter = CHOOSE f : IsFilter(f)
  BY DEF Filter, IsFilter

\* No more than one function gives the arrays their filters.
LEMMA OneFilterOnly ==
  ASSUME text \in Seq(Events), NEW f, IsFilter(f), NEW g, IsFilter(g),
         \A i \in Arrays : \A n \in 1..Cardinality(InArray(i)) : Element(i, n) \in InArray(i)
  PROVE  \A i \in Arrays : f[i] = g[i]
<1> DEFINE D == {i \in Arrays : f[i] # g[i]}
<1>1. SUFFICES ASSUME D # {} PROVE FALSE
  OBVIOUS
<1>2. Len(text) \in Nat /\ Arrays \subseteq 1..Len(text) /\ D \subseteq 1..Len(text)
  BY DEF Arrays, Positions
<1>3. PICK i \in D : \A j \in D : j <= i
  <2> HIDE DEF D
  <2> QED
    BY <1>1, <1>2, HasGreatest, Zenon
<1>4. ASSUME NEW n \in 1..Cardinality(InArray(i)), text[Element(i, n)][1] # "string"
      PROVE  f[Element(i, n)] = g[Element(i, n)]
  <2>1. Element(i, n) \in InArray(i)
    OBVIOUS
  <2>2. Element(i, n) \in Arrays /\ i < Element(i, n) /\ Element(i, n) \in Nat
    <3>1. Element(i, n) \in Positions({"string", "start_array"}) /\ i < Element(i, n)
      BY <2>1 DEF InArray
    <3> QED
      BY <1>4, <3>1 DEF Positions, Arrays
  <2>3. ~(Element(i, n) <= i)
    BY <1>2, <2>2
  <2> QED
    BY <1>3, <2>2, <2>3
<1>5. /\ f[i] = [n \in 1..Cardinality(InArray(i)) |->
                    IF text[Element(i, n)][1] = "string" THEN text[Element(i, n)][2] ELSE f[Element(i, n)]]
      /\ g[i] = [n \in 1..Cardinality(InArray(i)) |->
                    IF text[Element(i, n)][1] = "string" THEN text[Element(i, n)][2] ELSE g[Element(i, n)]]
  BY Zenon DEF IsFilter
<1>6. f[i] = g[i]
  BY <1>4, <1>5
<1> QED
  BY <1>6

\* An array that is read has each of its elements in one place.
LEMMA ElementIs ==
  ASSUME text \in Seq(Events), NEW i \in Arrays, NEW F, Read(F, i),
         NEW m \in 1..Cardinality(InArray(i))
  PROVE  Element(i, m) \in InArray(i) /\ F[i][m] = Value(F, Element(i, m))
<1> PICK S : S = InArray(i)
  OBVIOUS
<1>1. S \subseteq 1..Len(text) /\ Len(text) \in Nat
  BY DEF InArray, Positions
<1>2. m \in 1..Len(F[i]) /\ FirstOf(F[i], i, F)
  BY Zenon DEF Read
<1>3. PICK j \in S : Rank(i, j) = m - 1 /\ F[i][m] = Value(F, j)
  BY <1>2, Zenon DEF FirstOf
<1>4. \E l \in S : Cardinality({x \in S : x < l}) = m - 1
  BY <1>3, Zenon DEF Rank
<1>5. Element(i, m) \in S /\ Cardinality({x \in S : x < Element(i, m)}) = m - 1
  BY <1>4, Zenon DEF Element
<1>6. Element(i, m) = j
  <2> PICK l \in S : l = Element(i, m)
    BY <1>5
  <2>1. Cardinality({x \in S : x < l}) = Cardinality({x \in S : x < j})
    BY <1>3, <1>5, Zenon DEF Rank
  <2>2. l = j
    BY <1>1, <2>1, RankOrder
  <2> QED
    BY <2>2, Zenon
<1> QED
  BY <1>3, <1>6, Zenon

\* Filters that are read are those of the text, if all arrays have ended.
LEMMA ReadIsFilter ==
  ASSUME text \in Seq(Events), NEW F, \A i \in Arrays : Read(F, i)
  PROVE  \A i \in Arrays : Filter[i] = F[i]
<1> DEFINE f == [i \in Arrays |-> F[i]]
<1>1. \A i \in Arrays : \A n \in 1..Cardinality(InArray(i)) :
         Element(i, n) \in InArray(i) /\ F[i][n] = Value(F, Element(i, n))
  BY ElementIs, Zenon
<1>2. ASSUME NEW i \in Arrays
      PROVE  f[i] = [n \in 1..Cardinality(InArray(i)) |->
                        IF text[Element(i, n)][1] = "string" THEN text[Element(i, n)][2] ELSE f[Element(i, n)]]
  <2>1. ASSUME NEW n \in 1..Cardinality(InArray(i))
        PROVE  F[i][n] = IF text[Element(i, n)][1] = "string" THEN text[Element(i, n)][2] ELSE f[Element(i, n)]
    <3>1. Element(i, n) \in Positions({"string", "start_array"})
      BY <1>1 DEF InArray
    <3>2. text[Element(i, n)][1] = "string" \/ Element(i, n) \in Arrays
      BY <3>1 DEF Positions, Arrays
    <3> QED
      BY <1>1, <3>2 DEF Value
  <2>2. F[i] = [n \in 1..Cardinality(InArray(i)) |-> F[i][n]]
    <3>1. IsSeq(F[i]) /\ Len(F[i]) = Cardinality(InArray(i))
      BY Zenon DEF Read
    <3> PICK o : o = F[i]
      OBVIOUS
    <3> PICK S : o \in Seq(S)
      BY <3>1 DEF IsSeq
    <3>2. o = [n \in 1..Len(o) |-> o[n]]
      OBVIOUS
    <3> QED
      BY <3>1, <3>2, Zenon
  <2>3. f[i] = F[i]
    OBVIOUS
  <2> HIDE DEF f
  <2> QED
    BY <2>1, <2>2, <2>3
<1>3. IsFilter(f)
  <2>1. f = [i \in Arrays |-> f[i]]
    OBVIOUS
  <2> HIDE DEF f
  <2> QED
    BY <1>2, <2>1 DEF IsFilter
<1>4. IsFilter(Filter)
  BY <1>3, FilterIs, Zenon
<1>5. \A i \in Arrays : Filter[i] = f[i]
  <2> HIDE DEF f
  <2> QED
    BY <1>1, <1>3, <1>4, OneFilterOnly, Zenon
<1> QED
  BY <1>5

\* Once a text is read to its end, all its arrays have ended,
LEMMA AllEnded ==
  ASSUME text \in Seq(Events), Building, NEW F, Written(F), filters = <<>>, NEW i \in Arrays
  PROVE  Read(F, i)
<1>1. Len(filters) = 0 /\ ArrayLevel(Here) = 0
  <2>1. Len(filters) = 0
    BY TopOnly, SeqIs, Zenon
  <2> QED
    BY <2>1, TopOnly, Zenon
<1>2. Closed(i)
  <2>1. ArrayLevel(i) \in Nat
    BY Zenon DEF Written, InPlace
  <2>2. ArrayLevel(i) + 1 \notin 1..0
    BY <2>1
  <2>3. 0 \in Nat
    OBVIOUS
  <2> QED
    BY <1>1, <2>1, <2>2, <2>3, OpenOrEnded, Zenon
<1> QED
  BY <1>2, Zenon DEF Written

\* each is one that a filter may have,
LEMMA ArrayFits ==
  ASSUME text \in Seq(Events), NEW F, NEW i \in Arrays, Read(F, i)
  PROVE  /\ Type(i) \in Collections \cup LeafTypes
         /\ LET args == InArray(i) \ {Min(InArray(i))} IN
            IF Type(i) \in Collections THEN args \subseteq Arrays
            ELSE args \cap Arrays = {} /\ Cardinality(args) <= StringArgs(Type(i))
<1> PICK S : S = InArray(i)
  OBVIOUS
<1>1. S \subseteq 1..Len(text) /\ Len(text) \in Nat
  BY DEF InArray, Positions
<1>2. PICK t \in Types : StartsWith(i, t) /\ Takes(i, t)
  BY Zenon DEF Read
<1>3. PICK m \in S : text[m] = <<"string", t>> /\ \A j \in S : m <= j
  BY <1>2, Zenon DEF StartsWith
<1>4. Min(S) = m
  <2>1. S \subseteq Nat
    BY <1>1
  <2> QED
    BY <1>3, <2>1, Least, Zenon
<1>5. Type(i) = t
  <2>1. text[m][1] = "string" /\ text[m][2] = t
    BY <1>3
  <2> QED
    BY <1>3, <1>4, <2>1, Zenon DEF Type
<1>6. CASE t \in Collections
  <2>1. \A j \in S \ Arrays : j <= m
    BY <1>2, <1>3, <1>6, Zenon DEF Takes
  <2>2. \A j \in S \ Arrays : j = m
    BY <1>1, <1>3, <2>1
  <2>3. S \ {m} \subseteq Arrays
    BY <2>2
  <2> QED
    BY <1>4, <1>5, <1>6, <2>3, Zenon DEF Types
<1>7. CASE t \notin Collections
  <2>1. S \cap Arrays = {} /\ Cardinality(S) <= StringArgs(t) + 1
    BY <1>2, <1>7, Zenon DEF Takes
  <2>2. IsFiniteSet(S) /\ Cardinality(S) \in Nat
    BY <1>1, Few, Zenon
  <2>3. Cardinality(S \ {m}) = Cardinality(S) - 1
    BY <1>3, <2>2, FS_RemoveElement, Zenon
  <2>4. Cardinality(S \ {m}) <= StringArgs(t)
    <3>1. StringArgs(t) \in Nat
      BY ArgsOf
    <3> QED
      BY <2>1, <2>2, <2>3, <3>1
  <2>5. (S \ {m}) \cap Arrays = {}
    BY <2>1
  <2> QED
    BY <1>4, <1>5, <1>7, <2>4, <2>5, Zenon DEF Types
<1> QED
  BY <1>6, <1>7

\* and the result is the filter of the outermost, or the text is none.
LEMMA ResultIsFilter ==
  ASSUME text \in Seq(Events), Building, NEW F, Written(F), filters = <<>>
  PROVE  IF WellFormed THEN result = Filter[CHOOSE i \in Outermost : TRUE] ELSE result = NoFilter
<1>1. OneFilter(F) /\ InPlace
  BY Zenon DEF Written
<1>2. \A i \in Arrays : Read(F, i)
  BY AllEnded, Zenon
<1>3. CASE result = NoFilter
  <2>1. Len(filters) = 0
    BY TopOnly, SeqIs, Zenon
  <2>2. Outermost = {}
    BY <1>1, <1>3, <2>1, Zenon DEF OneFilter
  <2>3. Cardinality(Outermost) = 0
    BY <2>2, FS_EmptySet, Zenon
  <2>4. ~WellFormed
    BY <2>3 DEF WellFormed
  <2> QED
    BY <1>3, <2>4
<1>4. CASE result # NoFilter
  <2>1. Outermost # {}
    BY <1>4, Zenon DEF Building
  <2>2. PICK o : o = CHOOSE i \in Outermost : TRUE
    OBVIOUS
  <2>3. o \in Outermost /\ Outermost = {o}
    <3>1. o \in Outermost
      BY <2>1, <2>2, Zenon
    <3> QED
      BY <1>1, <3>1 DEF OneFilter
  <2>4. result = Filter[o]
    <3>1. o \in Arrays
      BY <2>3 DEF Outermost
    <3>2. Filter[o] = F[o]
      BY <1>2, <3>1, ReadIsFilter, Zenon
    <3> QED
      BY <1>1, <1>4, <2>3, <3>2, Zenon DEF OneFilter
  <2>5. Cardinality(Outermost) = 1
    BY <2>3, FS_Singleton, Zenon
  <2>6. \A i \in Arrays :
           /\ ArrayLevel(i) < DEPTH_MAX
           /\ Type(i) \in Collections \cup LeafTypes
           /\ LET args == InArray(i) \ {Min(InArray(i))} IN
              IF Type(i) \in Collections THEN args \subseteq Arrays
              ELSE args \cap Arrays = {} /\ Cardinality(args) <= StringArgs(Type(i))
    BY <1>1, <1>2, ArrayFits, Zenon DEF InPlace
  <2>7. WellFormed
    BY <1>1, <2>5, <2>6, Zenon DEF WellFormed, InPlace
  <2> QED
    BY <2>2, <2>4, <2>7
<1> QED
  BY <1>3, <1>4

\* A text that stays says the same.
LEMMA SaysTheSame ==
  ASSUME text' = text
  PROVE  /\ \A S : Positions(S)' = Positions(S)
         /\ \A i : ArrayLevel(i)' = ArrayLevel(i) /\ InArray(i)' = InArray(i)
         /\ WellFormed' = WellFormed /\ Outermost' = Outermost /\ Arrays' = Arrays
         /\ Filter' = Filter
<1>1. \A S : Positions(S)' = Positions(S)
  BY DEF Positions
<1>2. \A i : ArrayLevel(i)' = ArrayLevel(i)
  BY <1>1, Zenon DEF ArrayLevel, Level
<1>3. \A i : InArray(i)' = InArray(i)
  BY <1>1, <1>2 DEF InArray
<1>4. Arrays' = Arrays /\ Outermost' = Outermost
  BY <1>1, <1>2 DEF Arrays, Outermost
<1>5. WellFormed' = WellFormed
  <2>1. \A i : Type(i)' = Type(i)
    BY <1>3, Zenon DEF Type
  <2> QED
    BY <1>1, <1>2, <1>3, <1>4, <2>1, Zenon DEF WellFormed
<1>6. \A i, n : Element(i, n)' = Element(i, n)
  BY <1>3, Zenon DEF Element
<1>7. Filter' = Filter
  BY <1>3, <1>4, <1>6, ZenonT(60) DEF Filter
<1> QED
  BY <1>1, <1>2, <1>3, <1>4, <1>5, <1>7, Zenon

LEMMA WrittenStays ==
  ASSUME text' = text, filters' = filters, result' = result, NEW F, Written(F)
  PROVE  Written(F)'
<1>1. /\ \A S : Positions(S)' = Positions(S)
      /\ \A i : ArrayLevel(i)' = ArrayLevel(i) /\ InArray(i)' = InArray(i)
      /\ Outermost' = Outermost /\ Arrays' = Arrays
  BY SaysTheSame, Zenon
<1>2. Here' = Here
  BY DEF Here
<1>3. /\ \A i : Closed(i)' = Closed(i)
      /\ \A k, i : IsOpen(k, i)' = IsOpen(k, i)
      /\ \A i, j : Rank(i, j)' = Rank(i, j)
      /\ \A j : Value(F, j)' = Value(F, j)
      /\ \A i, t : StartsWith(i, t)' = StartsWith(i, t) /\ Takes(i, t)' = Takes(i, t)
  BY <1>1, <1>2, Zenon DEF Closed, IsOpen, Rank, Value, StartsWith, Takes
<1>4. \A f, i : FirstOf(f, i, F) => FirstOf(f, i, F)'
  <2>1. SUFFICES ASSUME NEW f, NEW i, FirstOf(f, i, F), NEW m \in 1..Len(f)
                 PROVE  \E j \in InArray(i)' : /\ Rank(i, j)' = m - 1
                                               /\ f[m] = Value(F, j)'
                                               /\ j \in Arrays' => Closed(j)'
    BY DEF FirstOf
  <2>2. PICK j \in InArray(i) : /\ Rank(i, j) = m - 1
                                /\ f[m] = Value(F, j)
                                /\ j \in Arrays => Closed(j)
    BY <2>1, Zenon DEF FirstOf
  <2> QED
    BY <1>1, <1>3, <2>2, Zenon
<1>5. \A i : Read(F, i) => Read(F, i)'
  BY <1>1, <1>3, <1>4, Zenon DEF Read
<1>6. \A k, i : ReadTo(F, k, i) => ReadTo(F, k, i)'
  <2>1. SUFFICES ASSUME NEW k, NEW i, ReadTo(F, k, i) PROVE ReadTo(F, k, i)'
    OBVIOUS
  <2> PICK f : f = filters[k]
    OBVIOUS
  <2>2. FirstOf(f, i, F)'
    BY <1>4, <2>1, Zenon DEF ReadTo
  <2> QED
    BY <1>1, <1>3, <2>1, <2>2, Zenon DEF ReadTo
<1>7. InPlace /\ InPlace' /\ OneFilter(F) /\ OneFilter(F)'
  BY <1>1, Zenon DEF Written, InPlace, OneFilter
<1> QED
  BY <1>1, <1>3, <1>5, <1>6, <1>7, Zenon DEF Written

-----------------------------------------------------------------------------
(***************************************************************************)
(* A filter is built as it is written.                                     *)
(***************************************************************************)
WrittenInv ==
    /\ FilterInv
    /\ kind = "filter" /\ status = "parsing" => \E F : Written(F)
    /\ BuiltAsWritten

\* An event after which the text is still parsed.
LEMMA WrittenEvent ==
  ASSUME WrittenInv, kind = "filter", status = "parsing", FilterInv', status' = "parsing", kind' = kind,
         NEW e \in Events, Event(e), JSONNext
  PROVE  \E G : Written(G)'
<1>1. text \in Seq(Events) /\ text' = Append(text, e) /\ kind # "body"
  BY EventAppends, Zenon DEF WrittenInv, FilterInv
<1>2. Building /\ Building' /\ \E F : Written(F)
  BY Zenon DEF WrittenInv, FilterInv
<1> PICK F : Written(F)
  BY <1>2
<1>3. ASSUME NEW d, Event(d) PROVE d = e
  <2>1. text' = Append(text, d) /\ text' = Append(text, e)
    BY <1>3 DEF Event
  <2>2. Append(text, d)[Len(text) + 1] = d /\ Append(text, e)[Len(text) + 1] = e
    BY <1>1
  <2> QED
    BY <2>1, <2>2, Zenon
<1>4. ~Refuse /\ ~Abort
  BY DEF Refuse, Abort
<1>5. Len(filters) \in Nat /\ (filters = <<>> <=> Len(filters) = 0)
  BY <1>2, TopOnly, SeqIs, Zenon
<1>6. ASSUME NEW s \in Strings[kind], EventString(s) PROVE \E G : Written(G)'
  <2>1. e = <<"string", s>> /\ FilterString(s)
    BY <1>1, <1>3, <1>6, Zenon DEF EventString
  <2>2. filters # <<>> /\ result' = result
    BY <1>4, <2>1 DEF FilterString
  <2>3. Len(filters) > 0
    BY <1>5, <2>2
  <2>4. filters' = [filters EXCEPT ![Len(filters)] = Append(Top, s)]
        /\ (Top # NoFilter => Len(Top) <= StringArgs(Top[1]))
    <3>1. CASE Top = NoFilter
      <4>1. filters' = [filters EXCEPT ![Len(filters)] = <<s>>]
        BY <1>4, <2>1, <3>1, Zenon DEF FilterString
      <4>2. Append(Top, s) = <<s>>
        BY <3>1 DEF NoFilter
      <4> QED
        BY <3>1, <4>1, <4>2, Zenon
    <3>2. CASE Top # NoFilter
      BY <1>4, <2>1, <3>2, Zenon DEF FilterString, Top
    <3> QED
      BY <3>1, <3>2
  <2> QED
    BY <1>1, <1>2, <2>1, <2>2, <2>3, <2>4, StringWrites, Zenon
<1>7. CASE EventStartArray
  <2>1. e = <<"start_array">> /\ FilterStartArray
    BY <1>1, <1>3, <1>7, Zenon DEF EventStartArray
  <2>2. e[1] = "start_array"
    BY <2>1
  <2>3. /\ filters # <<>> => Top # NoFilter /\ Len(filters) < DEPTH_MAX
        /\ filters = <<>> => result = NoFilter
        /\ filters' = Append(filters, NoFilter) /\ result' = result
    BY <1>4, <2>1, Zenon DEF FilterStartArray
  <2> QED
    BY <1>1, <1>2, <2>2, <2>3, StartWrites, Zenon
<1>8. CASE EventEndArray
  <2>1. e = <<"end_array">> /\ FilterEndArray /\ open # <<>> /\ Last(open) = "array"
    BY <1>1, <1>3, <1>8, Zenon DEF EventEndArray
  <2>2. e[1] = "end_array"
    BY <2>1
  <2>3. /\ Top # NoFilter
        /\ \/ Len(filters) = 1 /\ filters' = <<>> /\ result' = Top
           \/ /\ Len(filters) > 1 /\ result' = result
              /\ filters' = [Front(filters) EXCEPT ![Len(filters) - 1] = Append(@, Top)]
    BY <1>4, <2>1, Zenon DEF FilterEndArray
  <2>4. Len(filters) > 0
    BY <1>5, <2>3
  <2> QED
    BY <1>1, <1>2, <2>2, <2>3, <2>4, EndWrites, Zenon
<1>9. CASE EventError
  BY <1>9 DEF EventError
<1>10. CASE EventScalar \/ EventStartMap \/ EventEndMap \/ \E s \in Strings[kind] : EventMapKey(s)
  <2>1. Ignored /\ (e \in {<<"scalar">>, <<"start_map">>, <<"end_map">>} \/ \E s : e = <<"key", s>>)
    BY <1>1, <1>3, <1>10, Zenon DEF EventScalar, EventStartMap, EventEndMap, EventMapKey
  <2>2. ~IsElement(e) /\ e[1] # "end_array" /\ e[1] # "error"
    BY <2>1 DEF IsElement
  <2>3. filters' = filters /\ result' = result
    BY <2>1 DEF Ignored
  <2> QED
    BY <1>1, <1>2, <2>2, <2>3, IgnoredWrites, Zenon
<1>11. ~Complete /\ ~Free
  BY DEF Complete, Free
<1> QED
  BY <1>6, <1>7, <1>8, <1>9, <1>10, <1>11, Zenon DEF JSONNext

LEMMA WrittenNext ==
  ASSUME WrittenInv, [JSONNext]_jsonVars
  PROVE  WrittenInv'
<1>1. FilterInv /\ FilterInv' /\ TypeOK /\ TypeOK'
  BY FilterNext, Zenon DEF WrittenInv, FilterInv
<1>2. kind' = kind
  BY DEF JSONNext, EventString, EventMapKey, EventScalar, EventError, EventStartArray, EventEndArray,
         EventStartMap, EventEndMap, Event, Complete, Free, jsonVars
<1>3. CASE kind # "filter"
  BY <1>1, <1>2, <1>3, Zenon DEF WrittenInv, BuiltAsWritten
<1>4. CASE kind = "filter" /\ JSONNext /\ status = "parsing" /\ status' # "done" /\ status' # "failed"
  <2>1. status' = "parsing" => \E G : Written(G)'
    <3>1. SUFFICES ASSUME status' = "parsing" PROVE \E G : Written(G)'
      OBVIOUS
    <3>2. \E e \in Events : Event(e)
      <4>1. \A s \in Strings[kind] : <<"string", s>> \in Events /\ <<"key", s>> \in Events
        BY <1>4 DEF Events, Said
      <4>2. /\ <<"scalar">> \in Events /\ <<"start_array">> \in Events /\ <<"end_array">> \in Events
            /\ <<"start_map">> \in Events /\ <<"end_map">> \in Events /\ <<"error">> \in Events
        BY Zenon DEF Events
      <4>3. ~Complete /\ ~Free
        BY <1>4, <3>1 DEF Complete, Free
      <4> QED
        BY <1>4, <4>1, <4>2, <4>3, Zenon
          DEF JSONNext, EventString, EventMapKey, EventScalar, EventError, EventStartArray, EventEndArray,
              EventStartMap, EventEndMap
    <3> QED
      BY <1>1, <1>2, <1>4, <3>1, <3>2, WrittenEvent, Zenon
  <2> QED
    BY <1>1, <1>4, <2>1, Zenon DEF WrittenInv, BuiltAsWritten
<1>5. CASE kind = "filter" /\ JSONNext /\ ~(status = "parsing" /\ status' # "done" /\ status' # "failed")
  <2>1. CASE Complete
    <3>1. /\ text' = text /\ kind # "body"
          /\ \/ status' = "unclosed"
             \/ /\ filters = <<>> /\ status = "parsing" /\ status' = "done" /\ result' = result
             \/ status' = "failed" /\ result' = NoFilter
      BY <1>5, <2>1 DEF Complete
    <3>2. WellFormed' = WellFormed /\ Outermost' = Outermost /\ Filter' = Filter
      BY <3>1, SaysTheSame, Zenon
    <3>3. CASE status' = "unclosed"
      <4>1. "unclosed" # "parsing" /\ "unclosed" # "done" /\ "unclosed" # "failed"
        OBVIOUS
      <4> QED
        BY <1>1, <3>3, <4>1 DEF WrittenInv, BuiltAsWritten
    <3>4. CASE filters = <<>> /\ status = "parsing" /\ status' = "done" /\ result' = result
      <4>1. Building /\ text \in Seq(Events) /\ \E F : Written(F)
        BY <1>1, <1>5, <3>4, Zenon DEF WrittenInv, FilterInv, TypeOK
      <4>2. IF WellFormed THEN result = Filter[CHOOSE i \in Outermost : TRUE] ELSE result = NoFilter
        BY <3>4, <4>1, ResultIsFilter, Zenon
      <4>3. BuiltAsWritten'
        BY <3>2, <3>4, <4>2, Zenon DEF BuiltAsWritten
      <4>4. "done" # "parsing"
        OBVIOUS
      <4> QED
        BY <1>1, <3>4, <4>3, <4>4, Zenon DEF WrittenInv
    <3>5. CASE status' = "failed" /\ result' = NoFilter
      <4>1. "failed" # "parsing" /\ "failed" # "done"
        OBVIOUS
      <4> QED
        BY <1>1, <3>5, <4>1, Zenon DEF WrittenInv, BuiltAsWritten
    <3> QED
      BY <3>1, <3>3, <3>4, <3>5
  <2>2. CASE Free
    <3>1. status' = "unfreed" /\ "unfreed" # "parsing" /\ "unfreed" # "done" /\ "unfreed" # "failed"
      BY <2>2 DEF Free
    <3> QED
      BY <1>1, <3>1, Zenon DEF WrittenInv, BuiltAsWritten
  <2>3. CASE ~Complete /\ ~Free
    <3>1. status = "parsing" /\ status' \notin {"done", "failed"}
      BY <1>5, <2>3
        DEF JSONNext, EventString, EventMapKey, EventScalar, EventError, EventStartArray, EventEndArray,
            EventStartMap, EventEndMap, Event, FilterString, FilterStartArray, FilterEndArray,
            Ignored, Accept, Refuse, Abort, Body
    <3> QED
      BY <1>5, <3>1
  <2> QED
    BY <2>1, <2>2, <2>3
<1>6. CASE kind = "filter" /\ UNCHANGED jsonVars
  <2>1. /\ text' = text /\ open' = open /\ status' = status /\ filters' = filters /\ result' = result
    BY <1>6 DEF jsonVars
  <2>2. WellFormed' = WellFormed /\ Outermost' = Outermost /\ Filter' = Filter
    BY <2>1, SaysTheSame, Zenon
  <2>3. BuiltAsWritten'
    BY <1>2, <2>1, <2>2, Zenon DEF WrittenInv, BuiltAsWritten
  <2>4. ASSUME NEW F, Written(F) PROVE Written(F)'
    BY <2>1, <2>4, WrittenStays, Zenon
  <2> QED
    BY <1>1, <1>2, <2>1, <2>3, <2>4, Zenon DEF WrittenInv
<1> QED
  BY <1>3, <1>4, <1>5, <1>6, Zenon

\* A posted filter is the one its text describes, with every argument and every
\* filter inside it in its place, however long and however deep the text is, and
\* there is none for a text that is no filter (the callbacks of
\* SLNJSONFilterParser.c).
THEOREM FiltersAreAsWritten == JSONSpec => []BuiltAsWritten
<1>1. JSONInit => WrittenInv
  <2> SUFFICES ASSUME JSONInit PROVE WrittenInv
    OBVIOUS
  <2>1. FilterInv
    BY FilterInit
  <2>2. text = <<>> /\ status = "parsing" /\ filters = <<>> /\ result = NoFilter
    BY DEF JSONInit
  <2> DEFINE F == [x \in Nat |-> NoFilter]
  <2>3. \A S : Positions(S) = {}
    BY <2>2 DEF Positions
  <2>4. Arrays = {} /\ Outermost = {} /\ Len(filters) = 0 /\ 1..0 = {}
    BY <2>2, <2>3 DEF Arrays, Outermost
  <2>5. Written(F)
    BY <2>2, <2>3, <2>4 DEF Written, InPlace, OneFilter
  <2>6. "parsing" # "done" /\ "parsing" # "failed"
    OBVIOUS
  <2> QED
    BY <2>1, <2>2, <2>5, <2>6, Zenon DEF WrittenInv, BuiltAsWritten
<1>2. WrittenInv /\ [JSONNext]_jsonVars => WrittenInv'
  BY WrittenNext
<1>3. WrittenInv => BuiltAsWritten
  BY DEF WrittenInv
<1> QED
  BY <1>1, <1>2, <1>3, PTL DEF JSONSpec

=============================================================================
