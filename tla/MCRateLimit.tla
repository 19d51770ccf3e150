---------------------------- MODULE MCRateLimit ----------------------------
(***************************************************************************)
(* A limit of two sends in a window of three units: small enough that the  *)
(* window fills, slides and empties several times within the bounds.       *)
(***************************************************************************)
EXTENDS RateLimit
=============================================================================
