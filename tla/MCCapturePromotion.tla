------------------------- MODULE MCCapturePromotion -------------------------
(* Finite instances of capture and promotion. *)
EXTENDS CapturePromotion, TLC

\* Tabs are interchangeable.
MCSymmetry == Permutations(Tabs)
=============================================================================
