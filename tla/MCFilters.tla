------------------------------ MODULE MCFilters ------------------------------
(***************************************************************************)
(* Instances of Filters for TLC.  Contents f1 and f2 share the short URI   *)
(* us, and f1 is stored under two types; m1 describes both by their short  *)
(* URI, m2 and m3 one of them each.                                        *)
(***************************************************************************)
EXTENDS Filters, TLC

CONSTANTS f1, f2, m1, m2, m3, u1, u2, us, v1, v2, v3, text, html, meta, x, y

MCURIsOf == (f1 :> {u1, us}) @@ (f2 :> {u2, us})
                @@ (m1 :> {v1}) @@ (m2 :> {v2}) @@ (m3 :> {v3})
MCTargetOf == (f1 :> NoURI) @@ (f2 :> NoURI) @@ (m1 :> us) @@ (m2 :> u1) @@ (m3 :> u2)
MCTermsOf == (f1 :> {}) @@ (f2 :> {}) @@ (m1 :> {x}) @@ (m2 :> {x, y}) @@ (m3 :> {y})

Doc(h, type) == [hash |-> h, type |-> type, knownURI |-> NoURI, knownTarget |-> NoURI]

MCDocs == {Doc(f1, text), Doc(f1, html), Doc(f2, text)} \cup {Doc(m, meta) : m \in {m1, m2, m3}}

And(S) == <<"intersection", S>>
Or(S) == <<"union", S>>
Not(f) == <<"negation", f>>

\* An intersection of unions, as SLNUserFilterParse builds every expression.
Exp(S) == And({Or(u) : u \in S})

\* What the server asks for itself, and what a user can write: words that all have
\* to match or any, in parentheses, after a dash, in parentheses after a dash.
MCQueries == {
    <<"all", NoURI>>,
    <<"visible", NoURI>>,
    <<"meta", NoURI>>,
    Exp({{<<"term", x>>, <<"uri", u1>>}}),
    Exp({{<<"term", x>>}, {<<"term", y>>}}),
    Exp({{<<"term", y>>}, {<<"uri", us>>, <<"target", us>>}}),
    Exp({{<<"uri", u2>>, Exp({{<<"term", x>>}, {<<"term", y>>}})}}),
    Exp({{<<"visible", NoURI>>}, {Not(<<"term", x>>)}}),
    Exp({{<<"term", y>>, Not(Exp({{<<"term", x>>, <<"uri", u2>>}}))}, {Not(Not(<<"visible", NoURI>>))}})}

RECURSIVE Within(_)
Within(f) == {f} \cup UNION {Within(g) : g \in Subfilters(f)}

MCNodes == UNION {Within(q) : q \in MCQueries}

MCDepth ==
    LET depth[f \in MCNodes] == Max({0} \cup {depth[g] + 1 : g \in Subfilters(f)})
    IN  depth

=============================================================================
