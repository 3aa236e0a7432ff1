----------------------------- MODULE MCHistogram -----------------------------
(***************************************************************************)
(* Histogram with two request tasks and two bounds.                        *)
(***************************************************************************)
EXTENDS Histogram, TLC

MCSymmetry == Permutations(Observers)
=============================================================================
