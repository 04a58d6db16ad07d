------------------------------ MODULE MCLoading ------------------------------
(* Model checking of Loading.                                              *)
EXTENDS Loading, LoadingUniverse
=============================================================================
