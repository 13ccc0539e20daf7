-------------------------- MODULE MCSubmissionStore --------------------------
(***************************************************************************)
(* Instances of SubmissionStore for TLC.  Two plain contents share a short *)
(* URI; two meta-files target that URI and another targets the first.      *)
(***************************************************************************)
EXTENDS SubmissionStore, TLC

CONSTANTS f1, f2, m1, m2, m3, u1, u2, us, um1, um2, um3, text, html, meta

MCHashes == {f1, f2, m1, m2, m3}
MCURIs == {u1, u2, us, um1, um2, um3}
MCTypes == {text, html, meta}
MCMetaTypes == {meta}
MCURIsOf == (f1 :> {u1, us}) @@ (f2 :> {u2, us}) @@ (m1 :> {um1}) @@ (m2 :> {um2}) @@ (m3 :> {um3})
MCTargetOf == (f1 :> NoURI) @@ (f2 :> NoURI) @@ (m1 :> us) @@ (m2 :> um1) @@ (m3 :> us)
MCParses == {m1, m2, m3}

New(h, t) == [hash |-> h, type |-> t, knownURI |-> NoURI, knownTarget |-> NoURI]
Known(h, t, u, g) == [hash |-> h, type |-> t, knownURI |-> u, knownTarget |-> g]

\* A blog post (a file with its meta-file), an upload under a known URI that
\* shares a short URI with it, and a meta-file the pull fetched for that URI.
MCBatches ==
    { <<New(f1, text), New(m1, meta)>>,
      <<Known(f2, text, u2, NoURI)>>,
      <<Known(m3, meta, um3, us)>> }

\* Uploads the store may refuse, and uploads of one content under two types:
\* a meta-file without its target or batched ahead of it, one fetched for
\* another target, a target for a plain file, a content that is not the URI's.
MCAwkward ==
    { <<New(f1, text)>>,
      <<New(m1, meta), New(f1, text)>>,
      <<New(m1, text)>>,
      <<Known(m1, meta, um1, u1)>>,
      <<Known(m2, meta, um2, um1)>>,
      <<Known(f1, html, u1, us)>>,
      <<Known(f2, text, u1, NoURI)>> }

Symmetry == Permutations(Requests)

=============================================================================
