---------------------------- MODULE JSONParsers ----------------------------
(***************************************************************************)
(* The two parsers that yajl calls back: the filter of a posted query      *)
(* (filter/SLNJSONFilterParser.c, parseFilter in SLNServer.c) and the body *)
(* of a meta-file (SLNSubmissionMeta.c).                                   *)
(*                                                                         *)
(* An action is an event of the text as yajl reads it.  yajl keeps the     *)
(* containers that are open and refuses what does not fit; the parsers     *)
(* keep a depth of their own and refuse by returning false.  The text may  *)
(* stop anywhere: a request that ends, a body longer than PARSE_MAX.       *)
(***************************************************************************)
EXTENDS Integers, Sequences, SequencesExt, FiniteSets, FiniteSetsExt

CONSTANTS
    Strings,     \* [{"filter", "body"} -> strings], the strings and keys of the texts
    DEPTH_MAX,   \* SLNJSONFilterParser.c: arrays inside arrays
    IGNORE_MAX,  \* SLNSubmissionMeta.c: objects inside objects
    MaxEvents    \* bound: events of a text

NoFilter == <<>>    \* NULL
NoField == "NULL"

ASSUME JSONAssumption ==
    /\ DEPTH_MAX \in Nat \ {0} /\ IGNORE_MAX \in Nat \ {0} /\ MaxEvents \in Nat
    /\ NoField \notin Strings["body"]

VARIABLES
    kind,    \* the parser: "filter" or "body"
    text,    \* the events so far
    open,    \* yajl: open containers, "array", "key" (an object), "value" (after a key)
    status,  \* "parsing", "refused"; at the end "done", "failed", or, if an assertion ends
             \* the process, "aborted" (in a callback), "unclosed" (at the end), "unfreed"
    filters, \* SLNJSONFilterParser: the stack, whose length is depth + 1
    result,  \* the finished filter, stack[0] at depth -1
    body     \* SLNSubmissionMeta: depth, fields[0] and the rows added

jsonVars == <<kind, text, open, status, filters, result, body>>

JSONInit ==
    /\ kind \in {"filter", "body"}
    /\ text = <<>>
    /\ open = <<>>
    /\ status = "parsing"
    /\ filters = <<>>
    /\ result = NoFilter
    /\ body = [ok |-> TRUE, depth |-> 0, field |-> NoField, rows |-> {}]

-----------------------------------------------------------------------------
(***************************************************************************)
(* Callbacks of the filter parser.  A filter is its type and arguments.    *)
(***************************************************************************)
Collections == {"intersection", "union"}
LeafTypes == {"all", "visible", "fulltext", "metadata"}

\* SLNFilterAddStringArg: how many strings a filter takes.
StringArgs(type) == CASE type = "fulltext" -> 1 [] type = "metadata" -> 2 [] OTHER -> 0

\* The callback returns, or an assertion fails.
Accept == status' = status
Refuse == status' = "refused" /\ UNCHANGED <<filters, result>>
Abort == status' = "aborted" /\ UNCHANGED <<filters, result>>

Top == filters[Len(filters)]
Outer == filters[Len(filters) - 1]

\* The first string of an array names the type (SLNFilterCreateInternal asserts
\* that it knows it), which is added to the array around it; the others are
\* arguments.
FilterString(s) ==
    \/ filters = <<>> /\ Refuse
    \/ /\ filters # <<>> /\ Top = NoFilter
       /\ \/ s \notin Collections \cup LeafTypes /\ Abort
          \/ /\ s \in Collections \cup LeafTypes
             /\ Len(filters) > 1 /\ Outer[1] \notin Collections
             /\ Refuse
          \/ /\ s \in Collections \cup LeafTypes
             /\ Len(filters) > 1 => Outer[1] \in Collections
             /\ Accept
             /\ filters' = [filters EXCEPT ![Len(filters)] = <<s>>]
             /\ UNCHANGED result
    \/ /\ filters # <<>> /\ Top # NoFilter
       /\ \/ Len(Top) > StringArgs(Top[1]) /\ Refuse
          \/ /\ Len(Top) <= StringArgs(Top[1])
             /\ Accept
             /\ filters' = [filters EXCEPT ![Len(filters)] = Append(@, s)]
             /\ UNCHANGED result

\* A filter where a type was expected is refused.  The place for the new one
\* is asserted to be free ("Can't re-open last filter"): one too deep finds
\* depth itself in stack[DEPTH_MAX].
FilterStartArray ==
    \/ filters # <<>> /\ Top = NoFilter /\ Refuse
    \/ /\ filters # <<>> => Top # NoFilter /\ Len(filters) = DEPTH_MAX
       /\ filters = <<>> => result # NoFilter
       /\ Abort
    \/ /\ filters # <<>> => Top # NoFilter /\ Len(filters) < DEPTH_MAX
       /\ filters = <<>> => result = NoFilter
       /\ Accept
       /\ filters' = Append(filters, NoFilter)
       /\ UNCHANGED result

\* Mutant: the array goes back to the outermost one.
FilterEndArray_ToOutermost ==
    \/ Top = NoFilter /\ Refuse
    \/ /\ Top # NoFilter
       /\ Accept
       /\ \/ Len(filters) = 1 /\ filters' = <<>> /\ result' = Top
          \/ /\ Len(filters) > 1
             /\ filters' = [Front(filters) EXCEPT ![1] = Append(@, Top)]
             /\ UNCHANGED result

\* The filter is complete; it was added to the one around it, or is the result.
FilterEndArray ==
    \/ Top = NoFilter /\ Refuse
    \/ /\ Top # NoFilter
       /\ Accept
       /\ \/ Len(filters) = 1 /\ filters' = <<>> /\ result' = Top
          \/ /\ Len(filters) > 1
             /\ filters' = [Front(filters) EXCEPT ![Len(filters) - 1] = Append(@, Top)]
             /\ UNCHANGED result

-----------------------------------------------------------------------------
(***************************************************************************)
(* Callbacks of the meta-file parser, as functions of its context (depth   *)
(* counts the open objects: the code's depth + 1).                         *)
(***************************************************************************)
StartMap(c) ==
    IF c.ok /\ c.depth <= IGNORE_MAX THEN [c EXCEPT !.depth = @ + 1] ELSE [c EXCEPT !.ok = FALSE]

Row(field, value) ==
    IF field = "fulltext" THEN <<"fulltext", value>> ELSE <<"metadata", field, value>>

\* Mutant: keys of deeper objects are rows too.
MapKey_Deeper(c, key) ==
    IF ~c.ok THEN c
    ELSE IF c.depth = 1 THEN [c EXCEPT !.field = key]
    ELSE [c EXCEPT !.rows = @ \cup {Row(c.field, key)}]

\* A key of the outer object is the field; a key inside it is a value of it;
\* what lies deeper is ignored.
MapKey(c, key) ==
    IF ~c.ok THEN c
    ELSE IF c.depth = 1 THEN [c EXCEPT !.field = key]
    ELSE IF c.depth = 2 THEN [c EXCEPT !.rows = @ \cup {Row(c.field, key)}]
    ELSE c

\* Mutant: the field stays.
EndMap_KeepsField(c) == IF ~c.ok THEN c ELSE [c EXCEPT !.depth = @ - 1]

EndMap(c) ==
    IF ~c.ok THEN c
    ELSE [c EXCEPT !.depth = @ - 1, !.field = IF c.depth = 2 THEN NoField ELSE @]

\* A string is an object with one key.
String(c, s) == EndMap(EndMap(StartMap(MapKey(StartMap(c), s))))

\* The assertions of yajl_map_key: a field is there when a value of it comes,
\* and none when the next field does.
KeyAsserts(c) ==
    c.ok => (c.depth = 1 => c.field = NoField) /\ (c.depth = 2 => c.field # NoField)

\* The callback that turns the context into c.
Body(c, asserts) ==
    /\ body' = c
    /\ status' = IF ~asserts THEN "aborted" ELSE IF c.ok THEN status ELSE "refused"
    /\ UNCHANGED <<filters, result>>

-----------------------------------------------------------------------------
(***************************************************************************)
(* Events.                                                                 *)
(***************************************************************************)
Event(e) ==
    /\ status = "parsing"
    /\ Len(text) < MaxEvents
    /\ text' = Append(text, e)
    /\ UNCHANGED kind

\* A value may come next, and what yajl expects after it.
MayStart == IF open = <<>> THEN text = <<>> ELSE Last(open) \in {"array", "value"}
After == IF open # <<>> /\ Last(open) = "value" THEN [open EXCEPT ![Len(open)] = "key"] ELSE open

Ignored == Accept /\ UNCHANGED <<filters, result, body>>

EventString(s) ==
    /\ Event(<<"string", s>>)
    /\ MayStart
    /\ open' = After
    /\ \/ kind = "filter" /\ FilterString(s) /\ UNCHANGED body
       \/ kind = "body" /\ Body(String(body, s), KeyAsserts(StartMap(body)))

\* null, true, false, a number.
EventScalar ==
    /\ Event(<<"scalar">>)
    /\ MayStart
    /\ open' = After
    /\ \/ kind = "filter" /\ Ignored
       \/ kind = "body" /\ Body([body EXCEPT !.ok = FALSE], TRUE)

EventStartArray ==
    /\ Event(<<"start_array">>)
    /\ MayStart
    /\ open' = Append(After, "array")
    /\ \/ kind = "filter" /\ FilterStartArray /\ UNCHANGED body
       \/ kind = "body" /\ Body([body EXCEPT !.ok = FALSE], TRUE)

EventEndArray ==
    /\ Event(<<"end_array">>)
    /\ open # <<>> /\ Last(open) = "array"
    /\ open' = Front(open)
    /\ kind = "filter" /\ FilterEndArray /\ UNCHANGED body

EventStartMap ==
    /\ Event(<<"start_map">>)
    /\ MayStart
    /\ open' = Append(After, "key")
    /\ \/ kind = "filter" /\ Ignored
       \/ kind = "body" /\ Body(StartMap(body), TRUE)

EventMapKey(s) ==
    /\ Event(<<"key", s>>)
    /\ open # <<>> /\ Last(open) = "key"
    /\ open' = [open EXCEPT ![Len(open)] = "value"]
    /\ \/ kind = "filter" /\ Ignored
       \/ kind = "body" /\ Body(MapKey(body, s), KeyAsserts(body))

EventEndMap ==
    /\ Event(<<"end_map">>)
    /\ open # <<>> /\ Last(open) = "key"
    /\ open' = Front(open)
    /\ \/ kind = "filter" /\ Ignored
       \/ kind = "body" /\ Body(EndMap(body), TRUE)

\* What is no JSON, or follows the value: yajl_parse fails.
EventError ==
    /\ Event(<<"error">>)
    /\ status' = "refused"
    /\ UNCHANGED <<open, filters, result, body>>

\* yajl_complete_parse, and what the callers assert of their depth.  A filter
\* has to be a whole value (SLNJSONFilterParserEnd); the end of a body takes a
\* partial one, and an error resets the depth first.
Complete ==
    /\ status \in {"parsing", "refused"}
    /\ \/ /\ kind = "filter"
          /\ \/ filters # <<>> /\ status' = "unclosed" /\ UNCHANGED result
             \/ /\ filters = <<>>
                /\ IF status = "parsing" /\ text # <<>> /\ open = <<>>
                   THEN status' = "done" /\ UNCHANGED result
                   ELSE status' = "failed" /\ result' = NoFilter
       \/ /\ kind = "body"
          /\ status' = IF status = "refused" THEN "failed"
                       ELSE IF body.depth > 0 THEN "unclosed" ELSE "done"
          /\ UNCHANGED result
    /\ UNCHANGED <<kind, text, open, filters, body>>

\* SLNJSONFilterParserFree asserts that the parser is all zero, and depth is -1:
\* no posted query gets further than this.
Free ==
    /\ kind = "filter" /\ status \in {"done", "failed"}
    /\ status' = "unfreed"
    /\ UNCHANGED <<kind, text, open, filters, result, body>>

JSONNext ==
    \/ \E s \in Strings[kind] : EventString(s) \/ EventMapKey(s)
    \/ EventScalar \/ EventError
    \/ EventStartArray \/ EventEndArray
    \/ EventStartMap \/ EventEndMap
    \/ Complete \/ Free

JSONSpec == JSONInit /\ [][JSONNext]_jsonVars

-----------------------------------------------------------------------------
(***************************************************************************)
(* What a text says, read at once.                                         *)
(***************************************************************************)
Positions(S) == {i \in DOMAIN text : text[i][1] \in S}

\* Arrays and objects open before an event.
Level(start, end, i) ==
    Cardinality({j \in Positions({start}) : j < i}) - Cardinality({j \in Positions({end}) : j < i})
ArrayLevel(i) == Level("start_array", "end_array", i)
ObjectLevel(i) == Level("start_map", "end_map", i)

\* The strings and arrays that an array has as its elements, objects being
\* looked through: those one level down, up to its end.
InArray(i) ==
    {j \in Positions({"string", "start_array"}) :
        /\ i < j /\ ArrayLevel(j) = ArrayLevel(i) + 1
        /\ \A k \in (i + 1)..j : ArrayLevel(k) > ArrayLevel(i)}

\* The type of an array's filter, if it starts with one.
Type(i) ==
    IF InArray(i) # {} /\ text[Min(InArray(i))][1] = "string" THEN text[Min(InArray(i))][2] ELSE "none"

Arrays == Positions({"start_array"})
Outermost == {i \in Arrays : ArrayLevel(i) = 0}

WellFormed ==
    /\ Positions({"error"}) = {}
    /\ Cardinality(Outermost) = 1
    /\ \A i \in Positions({"string"}) : ArrayLevel(i) > 0
    /\ \A i \in Arrays :
          /\ ArrayLevel(i) < DEPTH_MAX
          /\ Type(i) \in Collections \cup LeafTypes
          /\ LET args == InArray(i) \ {Min(InArray(i))} IN
             IF Type(i) \in Collections THEN args \subseteq Arrays
             ELSE args \cap Arrays = {} /\ Cardinality(args) <= StringArgs(Type(i))

\* The n-th element of an array: n - 1 precede it.
Element(i, n) == CHOOSE j \in InArray(i) : Cardinality({m \in InArray(i) : m < j}) = n - 1

\* The filter that each array describes: its elements, in order.
Filter ==
    LET filter[i \in Arrays] ==
            [n \in 1..Cardinality(InArray(i)) |->
                LET j == Element(i, n) IN IF text[j][1] = "string" THEN text[j][2] ELSE filter[j]]
    IN  filter

\* Each string that is a field's value or a key of its object, with the field.
Rows ==
    LET inside(l) == {i \in Positions({"key"}) : ObjectLevel(i) = l}
        values == {i \in Positions({"string"}) : ObjectLevel(i) = 1} \cup inside(2)
    IN  {Row(text[Max({j \in inside(1) : j < i})][2], text[i][2]) : i \in values}

-----------------------------------------------------------------------------
(***************************************************************************)
(* Properties.                                                             *)
(***************************************************************************)
\* A posted filter is the one the text describes, whatever its nesting, or
\* there is none: yajl_string and the array callbacks against WellFormed.
BuiltAsWritten ==
    kind = "filter" /\ status \in {"done", "failed"} =>
        IF status = "done" /\ WellFormed
        THEN result = Filter[CHOOSE i \in Outermost : TRUE]
        ELSE result = NoFilter

\* The rows of a meta-file are its fields with their values, those of the field
\* each was written under, however deep the rest of the text goes.
RowsAsWritten == kind = "body" /\ status = "done" => body.rows = Rows

\* The assertions about the depth at the end and about fields[0] hold of every
\* meta-file that is read to its end and every text that is a filter, and those
\* of yajl_string and yajl_start_array fail only for a type they do not know or
\* an array they have no place for.
AssertsHold ==
    /\ status = "unclosed" => open # <<>> \/ (kind = "filter" /\ ~WellFormed)
    /\ status = "aborted" =>
          /\ kind = "filter"
          /\ \/ \E i \in Arrays : Type(i) \notin Collections \cup LeafTypes
             \/ \E i \in Arrays : ArrayLevel(i) = DEPTH_MAX
             \/ Cardinality(Outermost) > 1

=============================================================================
