----------------------------- MODULE MCParsers -----------------------------
(***************************************************************************)
(* Every text of a search box up to a length, over three alphabets, and    *)
(* every posted filter and meta-file body up to MaxEvents events.          *)
(***************************************************************************)
EXTENDS JSONParsers, UserQuery

CONSTANTS a, b

VARIABLES
    query,    \* the text typed so far
    alphabet  \* the tokens it is of, and how many it may have

MCAlphabets == {
    <<Tokens \ {b}, 4>>,
    <<{a, b, "or", "(", ")", " ", "-"}, 6>>,
    <<{a, "=", "and", "(", ")", " "}, 5>> }

MCStrings == [filter |-> {"union", "metadata", "x"}, body |-> {"fulltext", "x"}]

vars == <<query, alphabet, jsonVars>>

\* The two kinds of text have nothing to do with each other: one is read, and a
\* typed query leaves kind at one value.
Init ==
    /\ query = <<>>
    /\ JSONInit
    /\ alphabet \in MCAlphabets \cup {<<{}, 0>>}
    /\ alphabet[2] > 0 => kind = "body"

TypeToken ==
    /\ Len(query) < alphabet[2]
    /\ \E t \in alphabet[1] : query' = Append(query, t)
    /\ UNCHANGED <<alphabet, jsonVars>>

Read == alphabet[2] = 0 /\ JSONNext /\ UNCHANGED <<query, alphabet>>

Next == TypeToken \/ Read

Spec == Init /\ [][Next]_vars

\* Nothing a user wrote in the search box is left out, repeated or moved
\* (SLNUserFilterParse).
QueryKept == NoWordDropped(query, Parse(query))

\* The query shown in the search box is the one that was asked (printUser).
QueryShown == ShownAsMeant(Parse(query))

=============================================================================
