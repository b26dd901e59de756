--------------------------- MODULE MCPartialLoad ---------------------------
(***************************************************************************)
(* Instance of PartialLoad for TLC: two devices that have one group in     *)
(* common and each a file f2, with different groups; one of them has also  *)
(* a file without groups.  The user can import a file f2 on either.        *)
(***************************************************************************)
EXTENDS PartialLoad, TLC

CONSTANTS d1, d2, f1, f2, g1, g2, s1, s2, x1, x2, x3

MCOwn   == d1 :> {g1, g2} @@ d2 :> {g2}
MCHas   == x1 :> {g1, g2} @@ x2 :> {g2} @@ x3 :> {}
MCKept  == d1 :> (f1 :> None @@ f2 :> x1) @@ d2 :> (f1 :> x3 @@ f2 :> x2)
MCLocal == {<<f2, x2>>}
MCSymmetry == Permutations(Slot)
=============================================================================
