----------------------------- MODULE ClearLoop -----------------------------
(***************************************************************************)
(* The loop of clear (contracts/round/src/lib.rs:295-351), one bidder per    *)
(* step: the sealed-round contract with its clear entry point taken apart.   *)
(*                                                                         *)
(* Round picks the winner of a round by a condition on the whole bidder      *)
(* index (FirstBest).  Here the winner is what the loop's three local        *)
(* variables hold when it has walked the index, and the specification is     *)
(* shown to implement Round under the identity mapping: the steps of a loop  *)
(* leave the ledger alone and its last step is a step of Round.              *)
(*                                                                         *)
(* A contract call is atomic: while a loop runs, no other call runs.         *)
(***************************************************************************)
EXTENDS Round

VARIABLE loop   \* the locals of the clear call in progress

loopVars == <<now, beacon, rounds, bids, seals, balance, vault, frozen, loop>>

\* No clear call in progress; the locals as clear declares them.
Idle ==
  [running |-> FALSE, round |-> 1, next |-> 1, found |-> FALSE, winner |-> None, best |-> 0]

\* The bidder under examination.
Bidder == rounds[loop.round].bidders[loop.next]
Value == bids[loop.round][Bidder].revealed_value

\* Mutant: bids that were revealed beyond their escrow take part.
TakesPartIfRevealed == HasBid(loop.round, Bidder) /\ Value # None

\* The loop passes over a bidder without state, without a valid bid, or without
\* a revealed value.
TakesPart ==
  HasBid(loop.round, Bidder) /\ bids[loop.round][Bidder].valid /\ Value # None

\* Mutant: `best` starts at 0 and is compared with from the first bid on.
ComparedWithZero == Better(rounds[loop.round].clearing_rule, Value, loop.best)

\* The first bid that takes part is better than nothing.
Improves ==
  ~loop.found \/ Better(rounds[loop.round].clearing_rule, Value, loop.best)

\* clear is called and passes its two checks.
Enter(r) ==
  /\ ~loop.running
  /\ ClearAllowed(r)
  /\ loop' = [Idle EXCEPT !.running = TRUE, !.round = r]
  /\ UNCHANGED vars

\* One bidder of the index.
Examine ==
  /\ loop.running
  /\ loop.next <= Len(rounds[loop.round].bidders)
  /\ loop' = IF TakesPart /\ Improves
             THEN [loop EXCEPT !.next = @ + 1, !.found = TRUE, !.winner = Bidder, !.best = Value]
             ELSE [loop EXCEPT !.next = @ + 1]
  /\ UNCHANGED vars

Walked == loop.running /\ loop.next > Len(rounds[loop.round].bidders)

\* Some bid took part: record the winner.
FinishCleared ==
  /\ Walked /\ loop.found
  /\ rounds' = [rounds EXCEPT ![loop.round] =
       [@ EXCEPT !.winner = loop.winner, !.winning_bid = loop.best, !.status = "Cleared"]]
  /\ loop' = Idle
  /\ UNCHANGED <<now, beacon, bids, seals, balance, vault, frozen>>

\* No bid took part: void the round and refund.
FinishVoided ==
  /\ Walked /\ ~loop.found
  /\ rounds' = [rounds EXCEPT ![loop.round].status = "Voided"]
  /\ RefundAll(loop.round)
  /\ loop' = Idle
  /\ UNCHANGED <<now, beacon, seals, frozen>>

\* A refund is refused and the call rolled back.
Rollback ==
  /\ Walked /\ ~loop.found
  /\ Unsettled(loop.round) \cap frozen # {}
  /\ loop' = Idle
  /\ UNCHANGED vars

\* A round step other than clear.
OtherStep(r) ==
  \/ \E o \in Operators, s \in Schedules, u \in Rules : CreateRound(r, o, s, u)
  \/ \E b \in Bidders : BidderStep(r, b)
  \/ OpenReveal(r) \/ Settle(r) \/ Void(r)

LoopInit == Init /\ loop = Idle

LoopNext ==
  \/ ~loop.running /\ (Environment \/ \E r \in RoundIds : OtherStep(r)) /\ loop' = loop
  \/ \E r \in RoundIds : Enter(r)
  \/ Examine \/ FinishCleared \/ FinishVoided \/ Rollback

LoopSpec == LoopInit /\ [][LoopNext]_loopVars

-----------------------------------------------------------------------------
(* Properties.                                                             *)

\* Halfway through the loop, `winner` and `best` belong to the bid that beats all
\* bids that took part before it and is beaten by none of those after it, among
\* the bidders passed so far (lib.rs:308-332).
BestSoFar ==
  loop.running =>
    LET passed == {i \in Candidates(loop.round) : i < loop.next}
        rule == rounds[loop.round].clearing_rule
    IN  IF ~loop.found THEN passed = {}
        ELSE \E i \in passed :
               /\ loop.winner = rounds[loop.round].bidders[i]
               /\ loop.best = ValueAt(loop.round, i)
               /\ \A j \in passed :
                    /\ j < i => Better(rule, loop.best, ValueAt(loop.round, j))
                    /\ j > i => ~Better(rule, ValueAt(loop.round, j), loop.best)

\* The contract whose clear walks the index implements the contract whose clear
\* picks the first best bid.
ImplementsRound == Spec
=============================================================================
