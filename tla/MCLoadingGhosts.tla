--------------------------- MODULE MCLoadingGhosts ---------------------------
(* Model checking of Loading with its history variables.                   *)
EXTENDS LoadingGhosts, LoadingUniverse
=============================================================================
