---------------------------- MODULE RepositoryLog ----------------------------
(***************************************************************************)
(* What a StrongLink repository promises of its log of files: it only      *)
(* grows, by whole batches, never lists the same file twice, and           *)
(* announces no more than it holds.  SubmissionStore implements it.        *)
(***************************************************************************)
EXTENDS Naturals, Sequences

CONSTANTS
    Entries,    \* what the log lists: a hash and a type
    Groups      \* the sets of entries a batch may hold

VARIABLES
    log,        \* the files, oldest first: the position is the file ID
    announced   \* the largest file ID long polls were told of since start-up

vars == <<log, announced>>

Listed(l) == {l[i] : i \in DOMAIN l}

Init == log = <<>> /\ announced = 0

\* A batch is listed whole: what of it the log does not hold yet is appended.
Extend(g) ==
    /\ log' \in Seq(Entries)
    /\ Len(log) <= Len(log')
    /\ \A i \in DOMAIN log : log'[i] = log[i]
    /\ Listed(log') = Listed(log) \cup g
    /\ \A i, j \in DOMAIN log' : log'[i] = log'[j] => i = j
    /\ UNCHANGED announced

Announce ==
    /\ announced' \in (announced + 1)..Len(log)
    /\ UNCHANGED log

\* After a restart announcements begin again.
Restart == announced' = 0 /\ UNCHANGED log

Next == (\E g \in Groups : Extend(g)) \/ Announce \/ Restart

Spec == Init /\ [][Next]_vars

=============================================================================
