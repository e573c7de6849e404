------------------------------ MODULE MCRound ------------------------------
(***************************************************************************)
(* Instances of Round for TLC.                                             *)
(***************************************************************************)
EXTENDS Round

CONSTANTS b1, b2, b3, op, n1

\* A bidder seals the preimage it commits to, or garbage in its place.
HonestSealings == {<<p, p>> : p \in Preimages}
AllSealings == {<<p, c>> \in Preimages \X (Preimages \cup {Garbage}) : c \in {p, Garbage}}

\* Drand round 1 comes out at time 1 and round 2 at time 2, which is where the
\* contract expects round 1.  One schedule, in which the beacon may be late by the
\* whole reveal window and the grace period.
OneSchedule == {<<1, 1, 3>>}

\* Deadlines on both sides of each check of create_round, and a commit deadline
\* that comes before R.
EdgeSchedules == {<<1, 1, 3>>, <<1, 2, 3>>, <<1, 1, 2>>, <<2, 1, 4>>}

\* With a period of 2, Drand round 3 comes out at time 5.
FarSchedule == {<<3, 1, 8>>}
=============================================================================
