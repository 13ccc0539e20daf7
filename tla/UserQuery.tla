----------------------------- MODULE UserQuery -----------------------------
(***************************************************************************)
(* The query language of the search box (filter/SLNUserFilterParser.c) and *)
(* the text a filter is shown as (printUser of the filters).               *)
(*                                                                         *)
(* A text is a sequence of tokens: letters, and the characters and         *)
(* keywords the parser looks at.  Adjacent tokens make one longer word, as *)
(* characters do.  Each parser returns the filter it built, or Nil, and    *)
(* where it left the text.                                                 *)
(***************************************************************************)
EXTENDS Naturals, Sequences, SequencesExt

CONSTANT Words    \* strings of letters, none of them a keyword

ASSUME WordsAssumption == Words \cap {"or", "and", "target"} = {}

Nil == <<>>
End == "end"      \* s_peek at the end of the text
Quote == "\""
Alpha == Words \cup {"or", "and", "target"}
Seps == {"(", ")", "=", " "}  \* issep
Tokens == Alpha \cup Seps \cup {"-", "*", "://", Quote}

Peek(q, i) == IF i <= Len(q) THEN q[i] ELSE End

\* Past the tokens of S that follow.
Past(q, i, S) ==
    CHOOSE j \in i..(Len(q) + 1) : (\A k \in i..(j - 1) : q[k] \in S) /\ Peek(q, j) \notin S

\* A word, or the text between quotes, of which the second may be missing.
read_term(q, i) ==
    LET j == Past(q, i + 1, Tokens \ {Quote})
        k == Past(q, i, Tokens \ Seps)
    IN  IF Peek(q, i) = Quote
        THEN [term |-> SubSeq(q, i + 1, j - 1), at |-> IF Peek(q, j) = Quote THEN j + 1 ELSE j]
        ELSE [term |-> SubSeq(q, i, k - 1), at |-> k]

read_literal(q, i, lit) ==
    IF Peek(q, i) = lit /\ Peek(q, i + 1) \in Seps \cup {End} THEN i + 1 ELSE i

read_space(q, i) == Past(q, i, {" "})

-----------------------------------------------------------------------------
(***************************************************************************)
(* Expressions.                                                            *)
(***************************************************************************)
None(i) == [f |-> Nil, at |-> i]
Else(r, s) == IF r.f = Nil THEN s ELSE r

\* A keyword is no term, in quotes or not, nor is one without any letter, in
\* which the tokeniser finds nothing.
parse_term(q, i) ==
    LET t == read_term(q, i) IN
    IF t.term \in {<<"or">>, <<"and">>} \/ \A k \in DOMAIN t.term : t.term[k] \notin Alpha
    THEN None(i)
    ELSE [f |-> <<"fulltext", t.term>>, at |-> t.at]

parse_attr(q, i) ==
    LET name == read_term(q, i)
        value == read_term(q, name.at + 1)
    IN  IF name.term = <<>> \/ Peek(q, name.at) # "=" THEN None(i)
        ELSE IF value.term = <<>> THEN None(i)
        ELSE IF name.term = <<"target">> THEN [f |-> <<"target", value.term>>, at |-> value.at]
        ELSE [f |-> <<"metadata", name.term, value.term>>, at |-> value.at]

parse_link(q, i) ==
    LET colon == Past(q, i, Alpha)
        j == Past(q, colon, Tokens \ Seps)
    IN  IF colon = i \/ Peek(q, colon) # "://" THEN None(i)
        ELSE [f |-> <<"uri", SubSeq(q, i, j - 1)>>, at |-> j]

\* The filters of a loop, in a union or an intersection if there are any.
Collection(type, loop) ==
    [f |-> IF loop.subs = <<>> THEN Nil ELSE <<type, loop.subs>>, at |-> loop.at]
parse_or(parse, i) == Collection("union", parse["or", i])
parse_and(parse, i) == Collection("intersection", parse["and", i])

\* Mutant: what was read stays read when the parenthesis is not closed.
parse_parens_Skips(parse, q, i) ==
    LET inner == parse_and(parse, read_space(q, i + 1)) IN
    IF Peek(q, i) # "(" THEN None(i)
    ELSE IF Peek(q, inner.at) = ")" THEN [inner EXCEPT !.at = @ + 1]
    ELSE IF Peek(q, inner.at) = End THEN inner
    ELSE None(inner.at)

\* The end of the text closes, too; otherwise only the parenthesis is skipped.
\* An empty pair is passed over.
parse_parens(parse, q, i) ==
    LET inner == parse_and(parse, read_space(q, i + 1)) IN
    IF Peek(q, i) # "(" THEN None(i)
    ELSE IF Peek(q, inner.at) = ")" THEN [inner EXCEPT !.at = @ + 1]
    ELSE IF Peek(q, inner.at) = End THEN inner
    ELSE None(i + 1)

parse_negation(parse, q, i) ==
    LET sub == parse["exp", i + 1] IN
    IF Peek(q, i) # "-" THEN None(i)
    ELSE IF sub.f = Nil THEN None(i)
    ELSE [f |-> <<"negation", sub.f>>, at |-> sub.at]

\* Each alternative starts where the one before left the text.
parse_exp(parse, q, i) ==
    LET negation == parse_negation(parse, q, i)
        parens == Else(negation, parse_parens(parse, q, negation.at))
        link == Else(parens, parse_link(q, parens.at))
        attr == Else(link, parse_attr(q, link.at))
    IN  Else(attr, parse_term(q, attr.at))

\* The loop of parse_or: "or" needs a space on both sides and is read even if
\* nothing follows it.
ors(parse, q, i) ==
    LET exp == parse["exp", i]
        space == read_space(q, exp.at)
        lit == read_literal(q, space, "or")
        next == read_space(q, lit)
        rest == parse["or", next]
    IN  IF exp.f = Nil THEN [subs |-> <<>>, at |-> exp.at]
        ELSE IF space = exp.at THEN [subs |-> <<exp.f>>, at |-> space]
        ELSE IF lit = space \/ next = lit THEN [subs |-> <<exp.f>>, at |-> next]
        ELSE [subs |-> <<exp.f>> \o rest.subs, at |-> rest.at]

\* The loop of parse_and: "and" is optional and ignored.
ands(parse, q, i) ==
    LET or == parse_or(parse, i)
        next == read_space(q, read_literal(q, read_space(q, or.at), "and"))
        rest == parse["and", next]
    IN  IF or.f = Nil THEN [subs |-> <<>>, at |-> or.at]
        ELSE [subs |-> <<or.f>> \o rest.subs, at |-> rest.at]

\* What the parsers, which call each other, find at each place of a text.
Parsers(q) ==
    LET parse[rule \in {"exp", "or", "and"}, i \in 1..(Len(q) + 2)] ==
            CASE rule = "exp" -> parse_exp(parse, q, i)
              [] rule = "or"  -> ors(parse, q, i)
              [] rule = "and" -> ands(parse, q, i)
    IN  parse

\* SLNUserFilterParse: Nil is KVS_EINVAL, for which a query shows what is visible.
Parse(q) ==
    LET filter == parse_and(Parsers(q), 1) IN
    IF q = <<"*">> THEN <<"all">>
    ELSE IF filter.f = Nil \/ read_space(q, filter.at) <= Len(q) THEN Nil
    ELSE filter.f

-----------------------------------------------------------------------------
(***************************************************************************)
(* A filter as text (printUser).                                           *)
(***************************************************************************)
\* Mutant: only a space needs quotes.
Quoted_Space(s) == IF \E k \in DOMAIN s : s[k] = " " THEN <<Quote>> \o s \o <<Quote>> ELSE s

\* needs_quotes
Quoted(s) == IF \E k \in DOMAIN s : s[k] \in {" ", "="} THEN <<Quote>> \o s \o <<Quote>> ELSE s

RECURSIVE printUser(_, _)

Printed(subs, sep, depth) ==
    FoldLeft(LAMBDA text, f : (IF text = <<>> THEN text ELSE text \o sep) \o printUser(f, depth + 1),
             <<>>, subs)

\* Mutant: no parentheses around the operands of the outermost level.
Parens_Deep(text, depth) == IF depth > 2 THEN <<"(">> \o text \o <<")">> ELSE text

Parens(text, depth) == IF depth > 0 THEN <<"(">> \o text \o <<")">> ELSE text

printUser(f, depth) ==
    CASE f[1] = "all"          -> <<"*">>
      [] f[1] = "fulltext"     -> Quoted(f[2])
      [] f[1] = "metadata"     -> Quoted(f[2]) \o <<"=">> \o Quoted(f[3])
      [] f[1] = "target"       -> <<"target", "=">> \o f[2]
      [] f[1] = "uri"          -> f[2]
      [] f[1] = "negation"     -> <<"-">> \o printUser(f[2], depth + 1)
      [] f[1] = "union"        -> Printed(f[2], <<" ", "or", " ">>, depth)
      [] f[1] = "intersection" -> Parens(Printed(f[2], <<" ">>, depth), depth)

-----------------------------------------------------------------------------
(***************************************************************************)
(* Properties of every text.                                               *)
(***************************************************************************)
\* The filters without a filter inside, and the words of all, in order.
RECURSIVE Leaves(_)
Leaves(f) ==
    CASE f[1] = "negation"                  -> Leaves(f[2])
      [] f[1] \in {"union", "intersection"} -> FoldLeft(LAMBDA seq, g : seq \o Leaves(g), <<>>, f[2])
      [] OTHER                              -> <<f>>

WordsOf(f) == FoldLeft(LAMBDA seq, leaf : seq \o FlattenSeq(Tail(leaf)), <<>>, Leaves(f))

OnlyWords(q) == SelectSeq(q, LAMBDA t : t \in Words)

\* Nothing a user wrote is left out, repeated or moved: a query is refused, or
\* its words are those of the filter f, however parentheses, negations and
\* keywords are left open or empty.
NoWordDropped(q, f) == f = Nil \/ OnlyWords(WordsOf(f)) = OnlyWords(q)

Has(s, S) == Range(s) \cap S # {}

\* Filters that only quotes can say and that are shown without: needs_quotes
\* looks for a space or "=" and for nothing else, and a target has no quotes.
Unquoted(leaf) ==
    CASE leaf[1] \in {"all", "uri"} -> FALSE
      [] leaf[1] = "target" -> Has(leaf[2], Seps)
      [] OTHER ->
            \/ \E k \in 2..Len(leaf) : Has(leaf[k], {"(", ")"}) /\ ~Has(leaf[k], {" ", "="})
            \/ /\ leaf[2][1] = "-" \/ parse_link(leaf[2], 1).f # Nil
               /\ ~Has(leaf[2], {" ", "="})

\* Queries that may be shown as a text that means something else: with one of
\* those filters, a word that begins with a dash after an empty or unfinished
\* parenthesis, or an attribute named by a keyword, which is read as the keyword
\* after another operand.
Ambiguous(f) ==
    \E leaf \in Range(Leaves(f)) :
        Unquoted(leaf) \/ (leaf[1] = "metadata" /\ leaf[2] \in {<<"or">>, <<"and">>})

\* The text a filter is shown as means the same filter.
ShownAsMeant(f) == f = Nil \/ Ambiguous(f) \/ Parse(printUser(f, 0)) = f

=============================================================================
