----------------------------- MODULE MCSession -----------------------------
(* An instance of TokenRefresh for TLC.  The requests are not
   interchangeable under the liveness property, so there is no symmetry.   *)
EXTENDS TokenRefresh
=============================================================================
