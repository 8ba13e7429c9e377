--------------------------- MODULE MCVisionSlots ---------------------------
(* Instances of VisionSlots for TLC. *)
EXTENDS VisionSlots, TLC

CONSTANTS i1, i2, i3, d1, d2

\* Two images of one document and one of another.
TwoAndOne == i1 :> d1 @@ i2 :> d1 @@ i3 :> d2
=============================================================================
