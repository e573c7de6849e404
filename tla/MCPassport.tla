----------------------------- MODULE MCPassport -----------------------------
(***************************************************************************)
(* Instances of Passport for TLC.                                          *)
(***************************************************************************)
EXTENDS Passport, TLC

CONSTANTS a1, a2, a3, c1, c2, h1, h2, t1, n1, n2, r1, r2

\* The texts, hashes and ids are interchangeable.
Interchangeable ==
  Permutations(CredentialIds) \cup Permutations(Hashes) \cup Permutations(Reasons)
    \cup Permutations(Addresses)

\* Without an expiry, or at the last second of the instance.
SomeExpirations == {None, 1}
=============================================================================
