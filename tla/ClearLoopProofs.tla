--------------------------- MODULE ClearLoopProofs ---------------------------
(***************************************************************************)
(* clear's loop finds the first best bid, for every number of bidders, and   *)
(* the contract with the loop implements the contract of module Round.       *)
(***************************************************************************)
EXTENDS ClearLoop, RoundProofs

Passed == {i \in Candidates(loop.round) : i < loop.next}
Rule == rounds[loop.round].clearing_rule

\* While a clear call runs, its round stays clearable and its locals are in range.
Locals ==
  /\ loop.running \in BOOLEAN
  /\ loop.found \in BOOLEAN
  /\ loop = [running |-> loop.running, round |-> loop.round, next |-> loop.next,
             found |-> loop.found, winner |-> loop.winner, best |-> loop.best]
  /\ loop.running =>
       /\ loop.round \in RoundIds
       /\ ClearAllowed(loop.round)
       /\ loop.next \in 1 .. Len(rounds[loop.round].bidders) + 1

LInv == IInv /\ Locals /\ BestSoFar

LEMMA BetterIsStrictOrder ==
  ASSUME NEW u \in {"HighestBid", "LowestBid"}, NEW x \in Int, NEW y \in Int, NEW z \in Int
  PROVE  /\ Better(u, x, y) /\ Better(u, y, z) => Better(u, x, z)
         /\ Better(u, x, y) /\ ~Better(u, z, y) => Better(u, x, z)
BY DEF Better

\* The candidates of a round are positions of bidders whose value is an integer.
LEMMA CandidateTypes ==
  ASSUME Types, NEW r \in RoundIds
  PROVE  /\ rounds[r].bidders \in Seq(Bidders)
         /\ rounds[r].clearing_rule \in {"HighestBid", "LowestBid"}
         /\ \A i \in Candidates(r) :
              i \in 1 .. Len(rounds[r].bidders) /\ ValueAt(r, i) \in Int
<1>1. rounds[r].bidders \in Seq(Bidders)
  BY DEF Types, RoundRecords
<1>2. rounds[r].clearing_rule \in {"HighestBid", "LowestBid"}
  BY DEF Types, RoundRecords
<1>3. ASSUME NEW i \in Candidates(r)
      PROVE  i \in 1 .. Len(rounds[r].bidders) /\ ValueAt(r, i) \in Int
  <2>1. i \in 1 .. Len(rounds[r].bidders) /\ rounds[r].bidders[i] \in Bidders
    BY <1>1 DEF Candidates
  <2>2. ValueAt(r, i) \in Values
    BY <2>1 DEF Candidates, ValueAt, Types, BidRecords
  <2>. QED
    BY <2>1, <2>2, RoundAssumption
<1>. QED
  BY <1>1, <1>2, <1>3

LEMMA InitLInv == LoopInit => LInv
<1>. SUFFICES ASSUME LoopInit PROVE LInv
  OBVIOUS
<1>1. IInv
  BY InitIInv DEF LoopInit
<1>. QED
  BY <1>1 DEF LoopInit, LInv, Locals, BestSoFar, Idle

\* clear starts with nothing passed.
LEMMA EnterLInv ==
  ASSUME LInv, NEW r \in RoundIds, Enter(r)
  PROVE  LInv'
<1>1. loop' = [running |-> TRUE, round |-> r, next |-> 1, found |-> FALSE,
               winner |-> None, best |-> 0]
  BY DEF Enter, Idle
<1>2. UNCHANGED vars /\ ClearAllowed(r)
  BY DEF Enter
<1>3. IInv'
  BY <1>2, NextIInv DEF LInv
<1>4. \A i \in Candidates(r) : ~(i < 1)
  BY CandidateTypes DEF LInv, IInv
<1>5. rounds[r].bidders \in Seq(Bidders)
  BY CandidateTypes DEF LInv, IInv
<1>6. Locals'
  BY <1>1, <1>2, <1>5 DEF Locals, ClearAllowed, vars
<1>7. BestSoFar'
  BY <1>1, <1>2, <1>4 DEF BestSoFar, Candidates, HasBid, vars
<1>. QED
  BY <1>3, <1>6, <1>7 DEF LInv

\* One bidder more keeps the best so far.
LEMMA ExamineLInv ==
  ASSUME LInv, Examine
  PROVE  LInv'
<1>0. PICK r \in RoundIds, k \in Nat : r = loop.round /\ k = loop.next
  BY CandidateTypes DEF Examine, LInv, Locals, IInv
<1>1. /\ r = loop.round /\ k = loop.next
      /\ loop.running /\ r \in RoundIds /\ k \in 1 .. Len(rounds[r].bidders)
      /\ rounds[r].bidders \in Seq(Bidders)
      /\ rounds[r].clearing_rule \in {"HighestBid", "LowestBid"}
      /\ \A i \in Candidates(r) : i \in Int /\ ValueAt(r, i) \in Int
  BY <1>0, CandidateTypes DEF Examine, LInv, Locals, IInv
<1>2. UNCHANGED vars
  BY DEF Examine
<1>3. IInv'
  BY <1>2, NextIInv DEF LInv
<1>4. Candidates(r)' = Candidates(r) /\ \A i : ValueAt(r, i)' = ValueAt(r, i)
  BY <1>2 DEF Candidates, HasBid, ValueAt, vars
<1>5. k \in Candidates(r) <=> TakesPart
  <2>1. Bidder = rounds[r].bidders[k] /\ Value = bids[r][rounds[r].bidders[k]].revealed_value
    BY <1>0 DEF Bidder, Value
  <2>2. k \in DOMAIN rounds[r].bidders
    BY <1>1
  <2>3. TakesPart <=> /\ HasBid(r, rounds[r].bidders[k])
                      /\ bids[r][rounds[r].bidders[k]].valid
                      /\ bids[r][rounds[r].bidders[k]].revealed_value # None
    BY <1>0, <2>1 DEF TakesPart
  <2>. QED
    BY <2>2, <2>3 DEF Candidates
<1>6. Value = ValueAt(r, k)
  BY <1>0 DEF Value, Bidder, ValueAt
<1>7. Locals'
  <2>1. loop' = [running |-> TRUE, round |-> r, next |-> k + 1, found |-> loop'.found,
                 winner |-> loop'.winner, best |-> loop'.best]
        /\ loop'.found \in BOOLEAN
    BY <1>1 DEF Examine, LInv, Locals
  <2>2. ClearAllowed(r)' /\ k + 1 \in 1 .. Len(rounds[r].bidders) + 1
    BY <1>1, <1>2 DEF Locals, ClearAllowed, vars, LInv
  <2>3. loop'.running = TRUE /\ loop'.round = r /\ loop'.next = k + 1
    BY <2>1
  <2>4. loop' = [running |-> loop'.running, round |-> loop'.round, next |-> loop'.next,
                 found |-> loop'.found, winner |-> loop'.winner, best |-> loop'.best]
    BY <2>1, <2>3
  <2>5. rounds' = rounds
    BY <1>2 DEF vars
  <2>6. ClearAllowed(loop.round)'
    BY <1>2, <2>2, <2>3 DEF ClearAllowed, vars
  <2>. QED
    BY <1>1, <2>1, <2>2, <2>3, <2>4, <2>5, <2>6 DEF Locals
<1>8. BestSoFar'
  <2>1. loop'.running /\ loop'.round = r /\ loop'.next = k + 1
    BY <1>1 DEF Examine, LInv, Locals
  <2>. DEFINE after == {i \in Candidates(r) : i < k + 1}
  <2>2. Passed' = after
    BY <1>4, <2>1 DEF Passed
  <2>3. Passed = {i \in Candidates(r) : i < k} /\ Rule = rounds[r].clearing_rule
    BY <1>1 DEF Passed, Rule
  <2>. SUFFICES IF ~loop'.found THEN after = {}
                ELSE \E i \in after :
                       /\ loop'.winner = rounds[r].bidders[i]
                       /\ loop'.best = ValueAt(r, i)
                       /\ \A j \in after :
                            /\ j < i => Better(Rule, loop'.best, ValueAt(r, j))
                            /\ j > i => ~Better(Rule, ValueAt(r, j), loop'.best)
    BY <1>2, <1>4, <2>1, <2>3 DEF BestSoFar, vars
  <2>4. \A i \in after : i \in Passed \/ (i = k /\ TakesPart)
    BY <1>1, <1>5, <2>3
  <2>5. Passed \subseteq after
    BY <1>1, <2>3
  <2>6. TakesPart => k \in after
    BY <1>1, <1>5
  <2>7. ~loop.found => Passed = {}
    BY <1>1 DEF LInv, BestSoFar, Passed
  <2>8. ASSUME loop.found
        PROVE  \E i \in Passed :
                 /\ loop.winner = rounds[r].bidders[i]
                 /\ loop.best = ValueAt(r, i)
                 /\ \A j \in Passed :
                      /\ j < i => Better(Rule, loop.best, ValueAt(r, j))
                      /\ j > i => ~Better(Rule, ValueAt(r, j), loop.best)
    BY <1>1, <2>8 DEF LInv, BestSoFar, Passed, Rule
  <2>9. CASE TakesPart /\ ~loop.found
    <3>1. loop'.found /\ loop'.winner = rounds[r].bidders[k] /\ loop'.best = ValueAt(r, k)
      BY <1>1, <1>6, <2>9 DEF Examine, Improves, Bidder, LInv, Locals
    <3>2. after = {k}
      BY <2>4, <2>6, <2>7, <2>9
    <3>. QED
      BY <1>1, <3>1, <3>2
  <2>10. CASE TakesPart /\ loop.found /\ Better(Rule, Value, loop.best)
    <3>1. loop'.found /\ loop'.winner = rounds[r].bidders[k] /\ loop'.best = ValueAt(r, k)
      BY <1>1, <1>6, <2>10 DEF Examine, Improves, Bidder, Rule, LInv, Locals
    <3>2. PICK i \in Passed :
            /\ loop.best = ValueAt(r, i)
            /\ \A j \in Passed :
                 /\ j < i => Better(Rule, loop.best, ValueAt(r, j))
                 /\ j > i => ~Better(Rule, ValueAt(r, j), loop.best)
      BY <2>8, <2>10
    <3>3. ASSUME NEW j \in after
          PROVE  /\ j < k => Better(Rule, ValueAt(r, k), ValueAt(r, j))
                 /\ j > k => ~Better(Rule, ValueAt(r, j), ValueAt(r, k))
      <4>1. j \in Int /\ i \in Int /\ ValueAt(r, j) \in Int /\ ValueAt(r, i) \in Int
            /\ ValueAt(r, k) \in Int /\ j <= k
        BY <1>1, <1>5, <2>10 DEF Passed
      <4>2. Better(Rule, ValueAt(r, k), ValueAt(r, i)) /\ Rule \in {"HighestBid", "LowestBid"}
        BY <1>1, <1>6, <2>10, <3>2 DEF Rule
      <4>3. CASE j = i
        BY <1>1, <4>1, <4>2, <4>3
      <4>4. CASE j \in Passed /\ j < i
        BY <1>1, <3>2, <4>1, <4>2, <4>4, BetterIsStrictOrder
      <4>5. CASE j \in Passed /\ j > i
        <5>1. ~Better(Rule, ValueAt(r, j), ValueAt(r, i))
          BY <3>2, <4>5
        <5>. QED
          BY <4>1, <4>2, <5>1, BetterIsStrictOrder
      <4>6. CASE j = k
        BY <1>1, <4>6
      <4>. QED
        BY <2>4, <4>1, <4>3, <4>4, <4>5, <4>6
    <3>. QED
      BY <2>6, <2>10, <3>1, <3>3
  <2>11. CASE ~TakesPart \/ (loop.found /\ ~Better(Rule, Value, loop.best))
    <3>1. loop'.found = loop.found /\ loop'.winner = loop.winner /\ loop'.best = loop.best
      BY <2>11 DEF Examine, Improves, Rule, LInv, Locals
    <3>2. CASE ~loop.found
      BY <2>4, <2>7, <2>11, <3>1, <3>2
    <3>3. CASE loop.found
      <4>1. PICK i \in Passed :
              /\ loop.winner = rounds[r].bidders[i]
              /\ loop.best = ValueAt(r, i)
              /\ \A j \in Passed :
                   /\ j < i => Better(Rule, loop.best, ValueAt(r, j))
                   /\ j > i => ~Better(Rule, ValueAt(r, j), loop.best)
        BY <2>8, <3>3
      <4>2. i < k /\ i \in Int
        BY <1>1 DEF Passed
      <4>3. ASSUME NEW j \in after
            PROVE  /\ j < i => Better(Rule, loop.best, ValueAt(r, j))
                   /\ j > i => ~Better(Rule, ValueAt(r, j), loop.best)
        BY <1>1, <1>6, <2>4, <2>11, <4>1, <4>2
      <4>. QED
        BY <2>5, <3>1, <3>3, <4>1, <4>3
    <3>. QED
      BY <3>2, <3>3
  <2>. QED
    BY <2>9, <2>10, <2>11
<1>. QED
  BY <1>3, <1>7, <1>8 DEF LInv

\* When the index is walked, what the loop holds is the first best bid.
LEMMA FinishClearedIsClear ==
  ASSUME LInv, FinishCleared
  PROVE  ClearToWinner(loop.round)
<1>. DEFINE r == loop.round
<1>1. /\ r \in RoundIds /\ ClearAllowed(r) /\ loop.found
      /\ rounds[r].bidders \in Seq(Bidders)
      /\ \A i \in Candidates(r) : i \in 1 .. Len(rounds[r].bidders)
      /\ loop.next = Len(rounds[r].bidders) + 1
  BY CandidateTypes DEF FinishCleared, Walked, LInv, Locals, IInv
<1>2. Passed = Candidates(r)
  BY <1>1 DEF Passed
<1>3. PICK i \in Candidates(r) :
        /\ loop.winner = rounds[r].bidders[i]
        /\ loop.best = ValueAt(r, i)
        /\ \A j \in Candidates(r) :
             /\ j < i => Better(Rule, loop.best, ValueAt(r, j))
             /\ j > i => ~Better(Rule, ValueAt(r, j), loop.best)
  BY <1>1, <1>2 DEF FinishCleared, Walked, LInv, BestSoFar, Passed, Rule
<1>4. FirstBest(r, i) /\ i \in DOMAIN rounds[r].bidders
  BY <1>1, <1>3 DEF FirstBest, Rule
<1>. QED
  BY <1>1, <1>3, <1>4 DEF FinishCleared, ClearToWinner

LEMMA FinishVoidedIsClear ==
  ASSUME LInv, FinishVoided
  PROVE  ClearToVoid(loop.round)
<1>. DEFINE r == loop.round
<1>1. /\ r \in RoundIds /\ ClearAllowed(r)
      /\ rounds[r].bidders \in Seq(Bidders)
      /\ \A i \in Candidates(r) : i \in 1 .. Len(rounds[r].bidders)
      /\ loop.next = Len(rounds[r].bidders) + 1
  BY CandidateTypes DEF FinishVoided, Walked, LInv, Locals, IInv
<1>2. Candidates(r) = {}
  BY <1>1 DEF FinishVoided, Walked, LInv, BestSoFar
<1>. QED
  BY <1>1, <1>2 DEF FinishVoided, ClearToVoid

\* A step of the contract with the loop is a step of Round or leaves the ledger alone.
LEMMA StepSimulation ==
  ASSUME LInv, [LoopNext]_loopVars
  PROVE  [Next]_vars
<1>1. CASE ~loop.running /\ (Environment \/ \E r \in RoundIds : OtherStep(r)) /\ loop' = loop
  BY <1>1 DEF OtherStep, Next, RoundStep, Advance
<1>2. CASE \E r \in RoundIds : Enter(r)
  BY <1>2 DEF Enter
<1>3. CASE Examine \/ Rollback
  BY <1>3 DEF Examine, Rollback
<1>4. CASE FinishCleared \/ FinishVoided
  <2>1. loop.round \in RoundIds
    BY <1>4 DEF FinishCleared, FinishVoided, Walked, LInv, Locals
  <2>. QED
    BY <1>4, <2>1, FinishClearedIsClear, FinishVoidedIsClear
    DEF Next, RoundStep, Advance, Clear
<1>5. CASE UNCHANGED loopVars
  BY <1>5 DEF loopVars, vars
<1>. QED
  BY <1>1, <1>2, <1>3, <1>4, <1>5 DEF LoopNext

LEMMA NextLInv == LInv /\ [LoopNext]_loopVars => LInv'
<1>. SUFFICES ASSUME LInv, [LoopNext]_loopVars PROVE LInv'
  OBVIOUS
<1>1. IInv'
  BY StepSimulation, NextIInv DEF LInv
<1>2. CASE ~loop.running /\ loop' = loop
  BY <1>1, <1>2 DEF LInv, Locals, BestSoFar
<1>3. CASE loop' = Idle
  BY <1>1, <1>3 DEF LInv, Locals, BestSoFar, Idle
<1>4. CASE UNCHANGED loopVars
  BY <1>1, <1>4
  DEF loopVars, LInv, Locals, BestSoFar, ClearAllowed, Candidates, HasBid, ValueAt
<1>. QED
  BY <1>2, <1>3, <1>4, EnterLInv, ExamineLInv
  DEF LoopNext, FinishCleared, FinishVoided, Rollback

LEMMA LInvAlways == LoopSpec => []LInv
BY InitLInv, NextLInv, PTL DEF LoopSpec

-----------------------------------------------------------------------------

\* At every point of the loop its locals hold the first best of the bids passed.
THEOREM LoopKeepsTheBest == LoopSpec => []BestSoFar
<1>1. LInv => BestSoFar
  BY DEF LInv
<1>. QED
  BY <1>1, LInvAlways, PTL

\* The contract whose clear walks the bidder index implements the contract whose
\* clear picks the first best bid, so what is proved of Round holds of it.
THEOREM LoopImplementsRound == LoopSpec => ImplementsRound
<1>1. LoopInit => Init
  BY DEF LoopInit
<1>2. LInv /\ [LoopNext]_loopVars => [Next]_vars
  BY StepSimulation
<1>. QED
  BY <1>1, <1>2, LInvAlways, PTL DEF LoopSpec, ImplementsRound, Spec
=============================================================================
