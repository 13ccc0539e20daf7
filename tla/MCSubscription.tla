--------------------------- MODULE MCSubscription ---------------------------
(***************************************************************************)
(* Instances of Subscription for TLC.  File 2 is a meta-file that makes    *)
(* file 1 a result, file 5 one that makes files 3 and 4 results at once.   *)
(***************************************************************************)
EXTENDS Subscription

MCMatches == <<{}, {1}, {}, {}, {3, 4}, {6}>>

=============================================================================
