-------------------------------- MODULE Loops --------------------------------
(***************************************************************************)
(* Loops as functions: the body of a loop is a function from the values of *)
(* the loop's variables to their next values.                              *)
(***************************************************************************)
EXTENDS Naturals

\* The variables x after the body nx has run k times.
Iter(nx, x, k) ==
    LET it[j \in Nat] == IF j = 0 THEN x ELSE nx[it[j - 1]]
    IN  it[k]
=============================================================================
