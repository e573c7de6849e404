----------------------------- MODULE MCClients -----------------------------
(* Two bidders, one of them the program's account; a round that can be       *)
(* created in time and schedules short enough to see the end of it.          *)
EXTENDS Clients, TLC

CONSTANTS ana, ben, t1, t2

MCBidders == {ana, ben}
MCSound == {ana, ben}
MCTasks == {t1, t2}
TaskSymmetry == Permutations(MCTasks)

\* <<reveal_round, commit_deadline, reveal_deadline>>
MCSchedules == {<<1, 1, 3>>}

M(maxBid, maxEscrow, expires, wellFormed) ==
  [roundId |-> 1, maxBid |-> maxBid, maxEscrow |-> maxEscrow, maxSpend |-> 2, price |-> 1,
   commitDeadline |-> 2, expiresAt |-> expires, wellFormed |-> wellFormed]

MCMandates == {M(2, 3, 1, TRUE), M(3, 2, 2, TRUE), M(2, 2, 2, FALSE)}
=============================================================================
