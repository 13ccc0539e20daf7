----------------------------- MODULE MCPreviews -----------------------------
(***************************************************************************)
(* An instance of Previews for TLC.  The first content comes by postings   *)
(* alone; the second is listed under a type without a converter and then   *)
(* posted as a text; the third comes by another way.                       *)
(***************************************************************************)
EXTENDS Previews, TLC

CONSTANTS v1, v2, v3, f1, f2, f3

MCPage == (v1 :> {f1}) @@ (v2 :> {f1, f2}) @@ (v3 :> {f3})
MCPosts == {<<f1, "text">>, <<f2, "text">>}
MCUploads == {<<f3, "text">>}
MCListed == (f1 :> "none") @@ (f2 :> "other") @@ (f3 :> "none")

=============================================================================
