----------------------------- MODULE MCRegistry -----------------------------
(* Values for the constants of Registry.                                   *)
EXTENDS Registry

CONSTANTS node, out1, in1, in2

MCAddr == {node}
MCOut == {out1}
OneIn == {in1}
TwoIn == {in1, in2}
MCVersions == <<5, 4, 3>>
=============================================================================
