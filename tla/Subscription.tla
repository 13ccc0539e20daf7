---------------------------- MODULE Subscription ----------------------------
(***************************************************************************)
(* A long-polling query: SLNFilterWriteURIs (SLNFilterExt.c) on one side,  *)
(* SLNRepoSubmissionEmit and SLNRepoSubmissionWait (SLNRepo.c) between it  *)
(* and the requests that commit files.                                     *)
(*                                                                         *)
(* A result of a query is a sort ID and a file ID: the file matches since  *)
(* the file of the sort ID was stored.  The files are those of             *)
(* RepositoryLog: a commit appends to them, and announces the last one     *)
(* later, in any order with other commits' announcements.                  *)
(***************************************************************************)
EXTENDS Naturals, FiniteSets

CONSTANTS
    MaxFiles,   \* bound: how many files are stored
    MaxCommit,  \* bound: how many of them in one commit
    Matches,    \* [1..MaxFiles -> SUBSET 1..MaxFiles]: the files that begin to
                \* match when a file is stored, that file or older ones (so no
                \* two files share a URI: see OwnAge in Filters)
    BATCH_SIZE, \* results fetched in one transaction
    Count       \* the "count" of the query

ASSUME SubscriptionAssumption ==
    /\ MaxFiles \in Nat /\ MaxCommit \in Nat
    /\ BATCH_SIZE \in Nat \ {0} /\ Count \in Nat \ {0}
    /\ Matches \in [1..MaxFiles -> SUBSET (1..MaxFiles)]
    /\ \A n \in 1..MaxFiles : \A f \in Matches[n] : f <= n

VARIABLES
    len,        \* the committed files
    pending,    \* the largest file IDs of commits that are not announced yet
    latest,     \* repo->sub_latest
    sub,        \* the connection: phase, position, remaining count, last wake-up
    got         \* the results the client has received, over all connections

vars == <<len, pending, latest, sub, got>>

Min2(a, b) == IF a <= b THEN a ELSE b

Before(q, r) == q[1] < r[1] \/ (q[1] = r[1] /\ q[2] < r[2])

\* The results there may be, and those a snapshot of n files has.
Results == UNION {{n} \X Matches[n] : n \in 1..MaxFiles}

ResultsOf(n) == {r \in Results : r[1] <= n}

Off == [pc |-> "off", pos |-> <<0, 0>>, left |-> 0, upto |-> 0]

Init ==
    /\ len = 0
    /\ pending = {}
    /\ latest = 0
    /\ sub = Off
    /\ got = {}

-----------------------------------------------------------------------------
(***************************************************************************)
(* The other requests, and the process.                                    *)
(***************************************************************************)
Commit(k) ==
    /\ len + k <= MaxFiles
    /\ len' = len + k
    /\ pending' = pending \cup {len'}
    /\ UNCHANGED <<latest, sub, got>>

\* Mutant: the announcement does not compare with sub_latest.
Emit_Overwrites(id) ==
    /\ id \in pending
    /\ pending' = pending \ {id}
    /\ latest' = id
    /\ UNCHANGED <<len, sub, got>>

\* SLNRepoSubmissionEmit
Emit(id) ==
    /\ id \in pending
    /\ pending' = pending \ {id}
    /\ latest' = IF id > latest THEN id ELSE latest
    /\ UNCHANGED <<len, sub, got>>

\* The process dies and starts again; connections are gone.
Crash ==
    /\ pending' = {}
    /\ latest' = 0
    /\ sub' = Off
    /\ UNCHANGED <<len, got>>

-----------------------------------------------------------------------------
(***************************************************************************)
(* The query.                                                              *)
(***************************************************************************)

\* The client (re)connects, with the last URI it got as start: SLNFilterParseOptions.
Connect ==
    /\ sub.pc = "off"
    /\ \E pos \in got \cup {<<0, 0>>} :
          /\ \A r \in got : ~Before(pos, r)
          /\ sub' = [pc |-> "scan", pos |-> pos, left |-> Count, upto |-> 0]
    /\ UNCHANGED <<len, pending, latest, got>>

\* The connection breaks.
Disconnect ==
    /\ sub.pc # "off"
    /\ sub' = Off
    /\ UNCHANGED <<len, pending, latest, got>>

\* Mutant: the seek is not followed by a step, so that a result is sent again.
From_NoStep(pos) == {r \in ResultsOf(len) : ~Before(r, pos)}

\* SLNFilterSeekToPosition: seek to the position; where it is that of a result
\* (valid fileID), step over what the seek found.
From(pos) ==
    LET at == {r \in ResultsOf(len) : ~Before(r, pos)} IN
    IF pos[2] = 0 THEN at ELSE {r \in at : \E q \in at : Before(q, r)}

\* SLNFilterCopyURIs: the first n of them, in one read transaction.
Batch(n) ==
    LET from == From(sub.pos) IN
    {r \in from : Cardinality({q \in from : Before(q, r)}) < n}

\* A batch is written whole: the response ends when the count is used up.  Or it
\* breaks off somewhere, and the connection with it.
Sent(batch, after) ==
    \/ /\ got' = got \cup batch
       /\ sub' = IF Cardinality(batch) = sub.left THEN Off ELSE after
    \/ \E r \in batch :
          /\ got' = got \cup {q \in batch : Before(q, r)}
          /\ sub' = Off

\* The position of the last result of a batch; SLNFilterGetPosition leaves it
\* where it was if there is none.
LastOf(batch) ==
    IF batch = {} THEN sub.pos ELSE CHOOSE r \in batch : \A q \in batch : ~Before(r, q)

Advanced(pc, pos, batch) ==
    [sub EXCEPT !.pc = pc, !.pos = pos, !.left = @ - Cardinality(batch)]

\* The first loop: batches until one is empty.
Scan ==
    /\ sub.pc = "scan"
    /\ LET batch == Batch(Min2(sub.left, BATCH_SIZE)) IN
          Sent(batch, Advanced(IF batch = {} THEN "wait" ELSE "scan", LastOf(batch), batch))
    /\ UNCHANGED <<len, pending, latest>>

\* SLNRepoSubmissionWait returns.  (When it times out a blank line is written and
\* it is called again with the same position: nothing this state shows.)
Wake ==
    /\ sub.pc = "wait"
    /\ latest > sub.pos[1]
    /\ sub' = [sub EXCEPT !.pc = "drain", !.upto = latest]
    /\ UNCHANGED <<len, pending, latest, got>>

\* Mutant: the position is moved ahead whatever was announced and was found.
Reached_Always(pos) == <<sub.upto, pos[2]>>

\* "This is how far we scanned, even if we didn't find anything."
Reached(pos) == IF pos[1] < sub.upto THEN <<sub.upto, 0>> ELSE pos

\* Mutant: one batch for one wake-up, full or not.
Drain_OneBatch ==
    /\ sub.pc = "drain"
    /\ LET batch == Batch(Min2(sub.left, BATCH_SIZE)) IN
          Sent(batch, Advanced("wait", Reached(LastOf(batch)), batch))
    /\ UNCHANGED <<len, pending, latest>>

\* The second loop, after a wake-up: batches until one is not full.
Drain ==
    /\ sub.pc = "drain"
    /\ LET batch == Batch(Min2(sub.left, BATCH_SIZE)) IN
          IF Cardinality(batch) < BATCH_SIZE
          THEN Sent(batch, Advanced("wait", Reached(LastOf(batch)), batch))
          ELSE Sent(batch, Advanced("drain", LastOf(batch), batch))
    /\ UNCHANGED <<len, pending, latest>>

Next ==
    \/ \E k \in 1..MaxCommit : Commit(k)
    \/ \E id \in pending : Emit(id)
    \/ Crash \/ Connect \/ Disconnect
    \/ Scan \/ Wake \/ Drain

Spec == Init /\ [][Next]_vars

\* Announcements follow commits, and an open connection is served.
Fairness ==
    /\ \A id \in 1..MaxFiles : WF_vars(Emit(id))
    /\ WF_vars(Scan) /\ WF_vars(Wake) /\ WF_vars(Drain)

FairSpec == Spec /\ Fairness

-----------------------------------------------------------------------------
(***************************************************************************)
(* Properties.                                                             *)
(***************************************************************************)

\* The position stands exactly behind what the client has: the next batch holds
\* all that it lacks and nothing that it has, whether the position is that of a
\* result, of a wake-up without one, or of the client's own start URI.
PositionExact == sub.pc # "off" => From(sub.pos) = ResultsOf(len) \ got

\* A connection that sleeps lacks nothing that was committed, but for what is
\* about to be announced: however commits, announcements, time-outs and scans
\* interleave, no wake-up is lost.
NoLostWakeup ==
    sub.pc = "wait" /\ latest <= sub.pos[1] =>
        \A r \in ResultsOf(len) \ got : \E id \in pending : r[1] <= id /\ id > sub.pos[1]

\* What is committed reaches the client, or the client has to come back for it.
Delivered ==
    \A n \in 1..MaxFiles : \A f \in Matches[n] :
        (n <= len) ~> (<<n, f>> \in got \/ sub.pc = "off")

\* The query implements the feed: each result once, in order, without a gap.
Feed == INSTANCE ResultFeed WITH
           Results <- Results,
           available <- ResultsOf(len),
           received <- got

ImplementsFeed == Feed!Spec

=============================================================================
