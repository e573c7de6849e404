---------------------------- MODULE MCClearLoop ----------------------------
(***************************************************************************)
(* An instance of Round, with the steps of ClearLoop, for TLC.             *)
(***************************************************************************)
EXTENDS ClearLoop, TLC

CONSTANTS b1, b2, b3, op, n1

\* A bidder seals the preimage it commits to.
HonestSealings == {<<p, p>> : p \in Preimages}

\* Drand round 1 comes out at time 1, the contract expects it at 2.
OneSchedule == {<<1, 1, 3>>}

\* Bidders that are not operators; no definition tells them apart.
LaterBidders == Permutations({b2, b3})
=============================================================================
