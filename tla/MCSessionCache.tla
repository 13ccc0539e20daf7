--------------------------- MODULE MCSessionCache ---------------------------
(***************************************************************************)
(* Instances of SessionCache for TLC: three sessions, of which two share a *)
(* slot.                                                                   *)
(***************************************************************************)
EXTENDS SessionCache, TLC

MCSlotOf == <<0, 1, 0>>

Symmetry ==
    Permutations(Handlers) \cup Permutations(Objs) \cup Permutations(Users) \cup Permutations(Keys)

=============================================================================
