----------------------------- MODULE MCReceipts -----------------------------
(***************************************************************************)
(* An instance of Receipts for TLC.                                        *)
(***************************************************************************)
EXTENDS Receipts

CONSTANTS b1, b2, op, n1, n2

\* One seal per value, the empty one for the value above the escrow.
OneSealPerValue ==
  {<<<<v, n1>>, IF v = 3 THEN Garbage ELSE <<v, n1>>>> : v \in Values}

\* Drand round 1 comes out at time 1.
OneSchedule == {<<1, 1, 3>>}
=============================================================================
