----------------------------- MODULE MCKeeper ------------------------------
(***************************************************************************)
(* Instances of Keeper for TLC.                                            *)
(***************************************************************************)
EXTENDS Keeper

CONSTANTS b1, b2

\* Drand round 1 comes out at time 1, the contract and the keeper expect it at 2.
OneSchedule == {<<1, 1, 3>>}

NothingLeft == {Empty}

\* The queue of a keeper that served another contract before.
SettledElsewhere ==
  {[r \in RoundIds |-> [deployment |-> Elsewhere, lastStatus |-> "Settled"]]}
=============================================================================
