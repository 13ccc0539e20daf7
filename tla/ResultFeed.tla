----------------------------- MODULE ResultFeed -----------------------------
(***************************************************************************)
(* What a long-polling query promises its client: every result the         *)
(* repository has, once, in order and without a gap, however often the     *)
(* client has to come back.  Subscription implements it.                   *)
(***************************************************************************)
EXTENDS Naturals

CONSTANT Results    \* the results the repository may ever have

VARIABLES
    available,  \* those it has
    received    \* those the client has

vars == <<available, received>>

\* Results are pairs, ordered by sort ID and then by file ID.
Before(q, r) == q[1] < r[1] \/ (q[1] = r[1] /\ q[2] < r[2])

Init == available = {} /\ received = {}

\* New results sort behind the ones there are.
Publish ==
    /\ available' \subseteq Results
    /\ available \subseteq available'
    /\ \A r \in available' \ available : \A q \in available : Before(q, r)
    /\ UNCHANGED received

\* The client gets the next few.
Deliver ==
    /\ received' \subseteq available
    /\ received \subseteq received'
    /\ \A r \in received' \ received : \A q \in received : Before(q, r)
    /\ \A r \in received' : \A q \in available : Before(q, r) => q \in received'
    /\ UNCHANGED available

Next == Publish \/ Deliver

Spec == Init /\ [][Next]_vars

=============================================================================
