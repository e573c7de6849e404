--------------------------- MODULE MCCredentials ----------------------------
(***************************************************************************)
(* Instances of Credentials for TLC.                                       *)
(***************************************************************************)
EXTENDS Credentials, TLC

CONSTANTS w1, w2, c1, c2, mit, rust, tlock

\* Every skill, the default; one of the two; none.
SomeSelections == {{rust, tlock}, {rust}, {}}

WindowSymmetry == Permutations(Windows)
=============================================================================
