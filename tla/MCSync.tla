------------------------------- MODULE MCSync -------------------------------
(***************************************************************************)
(* Instances of Sync for TLC.  The remote lists two files and three        *)
(* meta-files: first one of the second file, so that its hint is fetched   *)
(* while the meta-files' reader is at the other two.  The first file has a *)
(* short URI besides its primary one.                                      *)
(***************************************************************************)
EXTENDS Sync, TLC

CONSTANTS f1, f2, m1, m2, m3, u1, u2, us, um1, um2, um3, text, meta

MCHashes == {f1, f2, m1, m2, m3}
MCURIs == {u1, u2, us, um1, um2, um3}
MCTypes == {text, meta}
MCMetaTypes == {meta}
MCURIsOf == (f1 :> {u1, us}) @@ (f2 :> {u2}) @@ (m1 :> {um1}) @@ (m2 :> {um2}) @@ (m3 :> {um3})
MCTargetOf == (f1 :> NoURI) @@ (f2 :> NoURI) @@ (m1 :> u1) @@ (m2 :> u1) @@ (m3 :> u2)
MCParses == {m1, m2, m3}
MCServed == (u1 :> f1) @@ (us :> f1) @@ (u2 :> f2) @@ (um1 :> m1) @@ (um2 :> m2) @@ (um3 :> m3)
MCTypeOf == (f1 :> text) @@ (f2 :> text) @@ (m1 :> meta) @@ (m2 :> meta) @@ (m3 :> meta)
MCPrimaryOf == (f1 :> u1) @@ (f2 :> u2) @@ (m1 :> um1) @@ (m2 :> um2) @@ (m3 :> um3)

MCFileLines == <<u1, u2>>
MCMetaLines == <<<<um3, u2>>, <<um1, u1>>, <<um2, u1>>>>

\* A remote whose first meta-file names the first file by its short URI.
MCShortTargetOf == [MCTargetOf EXCEPT ![m1] = us]
MCShortMetaLines == <<<<um1, us>>, <<um2, u1>>>>

\* Clients of this repository post the first file, or the second with its meta-file.
Post(h, t) == [hash |-> h, type |-> t, knownURI |-> NoURI, knownTarget |-> NoURI]
MCLocal == {Post(f1, text), Post(f2, text), Post(m3, meta)}
MCNoLocal == {}

ASSUME Apart == ListsApart /\ OthersApart

Symmetry == Permutations(Workers)

=============================================================================
