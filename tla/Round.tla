------------------------------- MODULE Round -------------------------------
(***************************************************************************)
(* The sealed-round contract, contracts/round: a first-price commit-reveal *)
(* auction whose bids are timelocked to Drand round R and whose escrow is   *)
(* held by the contract.                                                    *)
(*                                                                         *)
(* One action per entry point of the contract.  A call that returns an      *)
(* error or panics is rolled back by the host with everything it did, so a  *)
(* failing call is no step at all: the error checks of an entry point are   *)
(* the guards of its action.  A call whose token transfer panics fails as a *)
(* whole, therefore the transfers' preconditions are guards too.            *)
(*                                                                         *)
(* Abstractions.  `now` is the ledger timestamp, one unit per ledger close  *)
(* (LEDGER_CLOSE_SECS).  A preimage be16(value) || nonce has a fixed layout *)
(* and SHA-256 is taken to be injective, so a commitment is the pair.  A    *)
(* Drand signature verifies exactly when the beacon produced its round.     *)
(* item_ref, auditor_pubkey, auditor_blob, events and the three byte-length *)
(* limits are left out: nothing the contract decides depends on them.       *)
(***************************************************************************)
EXTENDS Integers, Sequences, FiniteSets, Functions

CONSTANTS
  Bidders, Operators,  \* Stellar accounts (an account may be in both)
  None,                \* Rust's Option::None
  Garbage,             \* a ciphertext that opens to no preimage
  MaxRounds,           \* bound on the rounds created
  MaxTime,             \* bound on the ledger timestamp
  MaxBeacon,           \* bound on the Drand rounds produced
  Values, Nonces,      \* what a bidder may put under a commitment
  Sealings,            \* <<commitment, ciphertext>> pairs bidders submit
  Escrows,             \* escrow amounts bidders submit
  Funds,               \* token balance every account starts with
  Schedules,           \* <<reveal_round, commit_deadline, reveal_deadline>>
  Rules,               \* the clearing rules operators choose from
  Freezable,           \* accounts whose trustline may be lost or frozen
  MAX_BIDDERS, VOID_GRACE, MAX_U64,
  drand_genesis, drand_period,
  LEDGERS_PER_DAY, POST_REVEAL_SEAL_BUFFER, TEMP_THRESHOLD, PERSISTENT_BUMP,
  U32_RANGE            \* 2^32: `as u32` keeps the remainder

RoundIds == 1 .. MaxRounds
Accounts == Bidders \cup Operators
Preimages == Values \X Nonces

ASSUME RoundAssumption ==
  /\ IsFiniteSet(Bidders)
  /\ None \notin Bidders \cup Operators \cup Values \cup Nonces \cup Preimages
  /\ Values \subseteq Int /\ Escrows \subseteq Int
  /\ Funds \in Nat
  /\ Sealings \subseteq Preimages \X (Preimages \cup {Garbage})
  /\ Schedules \subseteq Nat \X Nat \X Nat
  /\ Rules \subseteq {"HighestBid", "LowestBid"}
  /\ {MaxRounds, MaxTime, MaxBeacon, MAX_BIDDERS, VOID_GRACE, MAX_U64,
      drand_genesis, drand_period, LEDGERS_PER_DAY, POST_REVEAL_SEAL_BUFFER,
      TEMP_THRESHOLD, PERSISTENT_BUMP} \subseteq Nat
  /\ U32_RANGE \in Nat \ {0}

VARIABLES
  now,      \* the ledger timestamp
  beacon,   \* the latest Drand round produced
  rounds,   \* DataKey::Round(id); rounds[r].status = "Absent" if not stored
  bids,     \* DataKey::State(id, bidder); NoBid if not stored
  seals,    \* DataKey::Seal(id, bidder), with the entry's live-until ledger
  balance,  \* the token balance of every account
  vault,    \* the contract's token balance, split by the bid it came from
  frozen    \* accounts the token refuses to move funds from or to

vars == <<now, beacon, rounds, bids, seals, balance, vault, frozen>>

Statuses == {"Absent", "Open", "Revealing", "Cleared", "Settled", "Voided"}

NoRound ==
  [operator |-> None, reveal_round |-> 0, clearing_rule |-> "HighestBid",
   commit_deadline |-> 0, reveal_deadline |-> 0, status |-> "Absent",
   bidders |-> <<>>, winner |-> None, winning_bid |-> 0]

NoBid ==
  [commitment |-> None, escrow |-> 0, revealed_value |-> None,
   revealed_nonce |-> None, valid |-> FALSE, settled |-> FALSE]

NoSeal == [ciphertext |-> None, live_until |-> 0]

\* sha256(be16(value) || nonce)
Hash(value, nonce) == <<value, nonce>>

AtMost(a, b) == IF a <= b THEN a ELSE b
AtLeast(a, b) == IF a >= b THEN a ELSE b

-----------------------------------------------------------------------------
(* Storage and clock helpers.                                              *)

\* drand.rs time_of_round: saturating genesis + period * round.  This is when Drand
\* publishes round R + 1, one period after R.
TimeOfRound(R) == AtMost(MAX_U64, drand_genesis + drand_period * R)

\* When Drand publishes round R (roundAt of quicknet.ts gives the round of a time:
\* round 1 at genesis).
DrandTime(R) == drand_genesis + drand_period * (R - 1)

\* drand.rs verify_round: a signature of round R exists once R is produced.
Published(R) == R <= beacon

HasBid(r, b) == bids[r][b] # NoBid
BiddersOf(r) == Range(rounds[r].bidders)

\* The bids of the round that a payout loop does not skip.
Unsettled(r) == {b \in BiddersOf(r) : HasBid(r, b) /\ ~bids[r][b].settled}

\* The contract's token balance.
ContractBalance == SumFunction([rb \in RoundIds \X Bidders |-> vault[rb[1]][rb[2]]])

EscrowTotal(r, S) == SumFunctionOnSet([b \in Bidders |-> bids[r][b].escrow], S)

\* Mutant: a fixed lifetime that ignores the deadline.
FixedSealTtl(reveal_deadline) == TEMP_THRESHOLD

\* Ledgers from now until a seal of a round should remain readable; the count is
\* cut to u32 before it is capped.
SealTtl(reveal_deadline) ==
  LET ledgers == AtLeast(AtLeast(reveal_deadline - now, 0) + POST_REVEAL_SEAL_BUFFER,
                         TEMP_THRESHOLD)
  IN  AtMost(ledgers % U32_RANGE, PERSISTENT_BUMP)

SealLive(r, b) == seals[r][b] # NoSeal /\ now <= seals[r][b].live_until

\* extend_ttl: bump an entry whose remaining life is at most the threshold.
ExtendedSeal(r, b) ==
  LET bump == SealTtl(rounds[r].reveal_deadline)
      left == seals[r][b].live_until - now
  IN  IF SealLive(r, b) /\ left <= AtLeast(bump - LEDGERS_PER_DAY, 0) /\ left < bump
      THEN [seals[r][b] EXCEPT !.live_until = now + bump]
      ELSE seals[r][b]

-----------------------------------------------------------------------------
(* Clearing.                                                               *)

\* Mutant: ties go to the later bid.
WeaklyBetter(rule, value, best) ==
  IF rule = "HighestBid" THEN value >= best ELSE value <= best

\* clear's comparison: a later bid replaces the best one only if it is strictly
\* better under the round's rule.
Better(rule, value, best) ==
  IF rule = "HighestBid" THEN value > best ELSE value < best

ValueAt(r, i) == bids[r][rounds[r].bidders[i]].revealed_value

\* Positions in the bidder index whose bid takes part in clearing.
Candidates(r) ==
  {i \in DOMAIN rounds[r].bidders :
     LET b == rounds[r].bidders[i]
     IN  HasBid(r, b) /\ bids[r][b].valid /\ bids[r][b].revealed_value # None}

\* The position at which clear's loop over the bidder index leaves `winner`:
\* it beats every candidate before it and no later candidate beats it.  The
\* loop itself is module ClearLoop, which is proved to end here.
FirstBest(r, i) ==
  /\ i \in Candidates(r)
  /\ \A j \in Candidates(r) :
       /\ j < i => Better(rounds[r].clearing_rule, ValueAt(r, i), ValueAt(r, j))
       /\ j > i => ~Better(rounds[r].clearing_rule, ValueAt(r, j), ValueAt(r, i))

-----------------------------------------------------------------------------
(* Payouts.  Every transfer of a call has to succeed or the call fails.     *)

\* What refund_all or settle sends to account a, as a bidder and as operator.
RefundTo(r, a) == IF a \in Unsettled(r) THEN bids[r][a].escrow ELSE 0

\* Mutant: the winner's surplus over its bid stays in the contract.
SurplusKept(r) == 0

\* What the winner's escrow holds beyond its bid.
Surplus(r) == AtLeast(bids[r][rounds[r].winner].escrow - rounds[r].winning_bid, 0)

BidderPayout(r, a) ==
  IF a \in Unsettled(r) /\ a = rounds[r].winner THEN Surplus(r) ELSE RefundTo(r, a)

OperatorPayout(r, a) ==
  IF a = rounds[r].operator /\ rounds[r].winner \in Unsettled(r)
  THEN rounds[r].winning_bid ELSE 0

MarkSettled(r) ==
  [bids EXCEPT ![r] = [b \in Bidders |->
     IF b \in Unsettled(r) THEN [bids[r][b] EXCEPT !.settled = TRUE] ELSE bids[r][b]]]

\* Mutant: the bids are paid but not marked settled.
RefundWithoutMark(r) ==
  /\ EscrowTotal(r, Unsettled(r)) <= ContractBalance
  /\ Unsettled(r) \cap frozen = {}
  /\ balance' = [a \in Accounts |-> balance[a] + RefundTo(r, a)]
  /\ vault' = [vault EXCEPT ![r] = [b \in Bidders |-> vault[r][b] - RefundTo(r, b)]]
  /\ bids' = bids

\* refund_all: every unsettled escrow goes back to its bidder.
RefundAll(r) ==
  /\ EscrowTotal(r, Unsettled(r)) <= ContractBalance
  /\ Unsettled(r) \cap frozen = {}
  /\ balance' = [a \in Accounts |-> balance[a] + RefundTo(r, a)]
  /\ vault' = [vault EXCEPT ![r] = [b \in Bidders |-> vault[r][b] - RefundTo(r, b)]]
  /\ bids' = MarkSettled(r)

-----------------------------------------------------------------------------
(* The entry points.                                                       *)

\* Mutant: the commit deadline is not compared with R.
CommitMayCloseAfterR(reveal_round, commit_deadline, reveal_deadline) ==
  /\ reveal_round # 0
  /\ reveal_deadline > TimeOfRound(reveal_round)
  /\ commit_deadline > now

\* The deadline checks of create_round.
ScheduleAccepted(reveal_round, commit_deadline, reveal_deadline) ==
  /\ reveal_round # 0
  /\ commit_deadline < TimeOfRound(reveal_round)
  /\ reveal_deadline > TimeOfRound(reveal_round)
  /\ commit_deadline > now

\* create_round: the next id is one past the rounds stored so far.
CreateRound(r, operator, schedule, rule) ==
  /\ rounds[r].status = "Absent"
  /\ \A q \in 1 .. r - 1 : rounds[q].status # "Absent"
  /\ ScheduleAccepted(schedule[1], schedule[2], schedule[3])
  /\ rounds' = [rounds EXCEPT ![r] =
       [operator |-> operator, reveal_round |-> schedule[1], clearing_rule |-> rule,
        commit_deadline |-> schedule[2], reveal_deadline |-> schedule[3],
        status |-> "Open", bidders |-> <<>>, winner |-> None, winning_bid |-> 0]]
  /\ UNCHANGED <<now, beacon, bids, seals, balance, vault, frozen>>

\* Mutant: an overwrite pushes the bidder again.
PushAlways(r, b) == Append(rounds[r].bidders, b)

\* The bidder index after a commit: a bidder who commits again keeps its place.
IndexWith(r, b) ==
  IF HasBid(r, b) THEN rounds[r].bidders ELSE Append(rounds[r].bidders, b)

\* Mutant: the limit is off by one.
RoomForOneMore(r, b) == HasBid(r, b) \/ Len(rounds[r].bidders) <= MAX_BIDDERS

\* A new bidder needs room in the index.
RoomFor(r, b) == HasBid(r, b) \/ Len(rounds[r].bidders) < MAX_BIDDERS

\* commit is open until the deadline, the deadline included.
CommitAllowed(r) == rounds[r].status = "Open" /\ now <= rounds[r].commit_deadline

\* commit: an earlier bid of the bidder is refunded before the new escrow is
\* pulled; state and seal are replaced.
Commit(r, b, commitment, ciphertext, escrow) ==
  LET prev == bids[r][b].escrow IN
  /\ CommitAllowed(r)
  /\ escrow > 0
  /\ RoomFor(r, b)
  /\ b \notin frozen
  /\ prev <= ContractBalance
  /\ escrow <= balance[b] + prev
  /\ balance' = [balance EXCEPT ![b] = @ + prev - escrow]
  /\ vault' = [vault EXCEPT ![r][b] = @ - prev + escrow]
  /\ bids' = [bids EXCEPT ![r][b] =
       [commitment |-> commitment, escrow |-> escrow, revealed_value |-> None,
        revealed_nonce |-> None, valid |-> FALSE, settled |-> FALSE]]
  /\ seals' = [seals EXCEPT ![r][b] =
       [ciphertext |-> ciphertext,
        live_until |-> IF SealLive(r, b)
                       THEN ExtendedSeal(r, b).live_until
                       ELSE now + SealTtl(rounds[r].reveal_deadline)]]
  /\ rounds' = [rounds EXCEPT ![r].bidders = IndexWith(r, b)]
  /\ UNCHANGED <<now, beacon, frozen>>

\* Mutant: the Drand signature is not verified.
OpenUnverified(r) == rounds[r].status = "Open" /\ now > rounds[r].commit_deadline

\* open_reveal: anyone, once the commit window is closed and R is produced.
OpenAllowed(r) ==
  /\ rounds[r].status = "Open"
  /\ now > rounds[r].commit_deadline
  /\ Published(rounds[r].reveal_round)

OpenReveal(r) ==
  /\ OpenAllowed(r)
  /\ rounds' = [rounds EXCEPT ![r].status = "Revealing"]
  /\ seals' = [seals EXCEPT ![r] = [b \in Bidders |->
       IF b \in BiddersOf(r) THEN ExtendedSeal(r, b) ELSE seals[r][b]]]
  /\ UNCHANGED <<now, beacon, bids, balance, vault, frozen>>

\* Mutant: the preimage is not hashed.
AnyPreimage(r, b, value, nonce) == bids[r][b].revealed_value = None

\* reveal's acceptance test: the preimage has to hash to the commitment.
RevealMatches(r, b, value, nonce) ==
  /\ bids[r][b].revealed_value = None
  /\ Hash(value, nonce) = bids[r][b].commitment

\* Mutant: a bid may exceed its escrow.
AnyPositive(r, b, value) == value > 0

\* The bids that take part in clearing.
WithinEscrow(r, b, value) == value > 0 /\ value <= bids[r][b].escrow

\* reveal: anyone, with any preimage, until the reveal deadline included.
Reveal(r, b, value, nonce) ==
  /\ rounds[r].status = "Revealing"
  /\ now <= rounds[r].reveal_deadline
  /\ HasBid(r, b)
  /\ RevealMatches(r, b, value, nonce)
  /\ bids' = [bids EXCEPT ![r][b] =
       [@ EXCEPT !.revealed_value = value, !.revealed_nonce = nonce,
                 !.valid = WithinEscrow(r, b, value)]]
  /\ UNCHANGED <<now, beacon, rounds, seals, balance, vault, frozen>>

ClearAllowed(r) == rounds[r].status = "Revealing" /\ now > rounds[r].reveal_deadline

\* clear, when some valid bid was revealed.
ClearToWinner(r) ==
  /\ ClearAllowed(r)
  /\ \E i \in DOMAIN rounds[r].bidders :
       /\ FirstBest(r, i)
       /\ rounds' = [rounds EXCEPT ![r] =
            [@ EXCEPT !.winner = rounds[r].bidders[i], !.winning_bid = ValueAt(r, i),
                      !.status = "Cleared"]]
  /\ UNCHANGED <<now, beacon, bids, seals, balance, vault, frozen>>

\* clear, when no valid bid was revealed: void the round and refund.
ClearToVoid(r) ==
  /\ ClearAllowed(r)
  /\ Candidates(r) = {}
  /\ rounds' = [rounds EXCEPT ![r].status = "Voided"]
  /\ RefundAll(r)
  /\ UNCHANGED <<now, beacon, seals, frozen>>

Clear(r) == ClearToWinner(r) \/ ClearToVoid(r)

\* Accounts settle sends tokens to.
Payees(r) ==
  {a \in Accounts : BidderPayout(r, a) + OperatorPayout(r, a) > 0}

\* settle: the winner's bid to the operator, everything else back.
Settle(r) ==
  /\ rounds[r].status = "Cleared"
  /\ EscrowTotal(r, Unsettled(r)) <= ContractBalance
  /\ Payees(r) \cap frozen = {}
  /\ balance' = [a \in Accounts |-> balance[a] + BidderPayout(r, a) + OperatorPayout(r, a)]
  /\ vault' = [vault EXCEPT ![r] = [b \in Bidders |->
       vault[r][b] - BidderPayout(r, b)
         - (IF b = rounds[r].winner THEN OperatorPayout(r, rounds[r].operator) ELSE 0)]]
  /\ bids' = MarkSettled(r)
  /\ rounds' = [rounds EXCEPT ![r].status = "Settled"]
  /\ UNCHANGED <<now, beacon, seals, frozen>>

\* Mutants: the status is not checked; Revealing rounds may be voided; only an
\* empty round may be voided.
VoidAnyStatus(r) ==
  /\ rounds[r].status # "Absent"
  /\ now > rounds[r].reveal_deadline + VOID_GRACE
VoidUnlessFinal(r) ==
  /\ rounds[r].status \in {"Open", "Revealing"}
  /\ now > rounds[r].reveal_deadline + VOID_GRACE
VoidIfEmpty(r) ==
  /\ rounds[r].status = "Open" /\ rounds[r].bidders = <<>>
  /\ now > rounds[r].reveal_deadline + VOID_GRACE

\* void: anyone, past the grace period; reveal_deadline + VOID_GRACE overflowing
\* u64 panics.
VoidAllowed(r) ==
  /\ rounds[r].status = "Open"
  /\ rounds[r].reveal_deadline + VOID_GRACE <= MAX_U64
  /\ now > rounds[r].reveal_deadline + VOID_GRACE

Void(r) ==
  /\ VoidAllowed(r)
  /\ rounds' = [rounds EXCEPT ![r].status = "Voided"]
  /\ RefundAll(r)
  /\ UNCHANGED <<now, beacon, seals, frozen>>

\* get_seal sent as a transaction (a simulated read extends nothing).
GetSeal(r, b) ==
  /\ rounds[r].status # "Absent"
  /\ SealLive(r, b)
  /\ seals' = [seals EXCEPT ![r][b] = ExtendedSeal(r, b)]
  /\ UNCHANGED <<now, beacon, rounds, bids, balance, vault, frozen>>

-----------------------------------------------------------------------------
(* The surroundings: ledger time, the Drand beacon, the token.             *)

Tick ==
  /\ now < MaxTime
  /\ now' = now + 1
  /\ UNCHANGED <<beacon, rounds, bids, seals, balance, vault, frozen>>

\* Drand produces its rounds in order and never early; it may stall.
ProduceRound ==
  /\ beacon < MaxBeacon
  /\ DrandTime(beacon + 1) <= now
  /\ beacon' = beacon + 1
  /\ UNCHANGED <<now, rounds, bids, seals, balance, vault, frozen>>

\* The token stops or resumes moving funds of an account: its trustline is
\* removed or deauthorized, and restored.
Freeze(a) ==
  /\ a \in Freezable \ frozen
  /\ frozen' = frozen \cup {a}
  /\ UNCHANGED <<now, beacon, rounds, bids, seals, balance, vault>>

Thaw(a) ==
  /\ a \in frozen
  /\ frozen' = frozen \ {a}
  /\ UNCHANGED <<now, beacon, rounds, bids, seals, balance, vault>>

Init ==
  /\ now = 0
  /\ beacon = 0
  /\ rounds = [r \in RoundIds |-> NoRound]
  /\ bids = [r \in RoundIds |-> [b \in Bidders |-> NoBid]]
  /\ seals = [r \in RoundIds |-> [b \in Bidders |-> NoSeal]]
  /\ balance = [a \in Accounts |-> Funds]
  /\ vault = [r \in RoundIds |-> [b \in Bidders |-> 0]]
  /\ frozen = {}

\* The entry points that act on an existing round without a caller's input.
Advance(r) == OpenReveal(r) \/ Clear(r) \/ Settle(r) \/ Void(r)

BidderStep(r, b) ==
  \/ \E s \in Sealings, e \in Escrows : Commit(r, b, s[1], s[2], e)
  \/ \E v \in Values, n \in Nonces : Reveal(r, b, v, n)
  \/ GetSeal(r, b)

RoundStep(r) ==
  \/ \E o \in Operators, s \in Schedules, u \in Rules : CreateRound(r, o, s, u)
  \/ \E b \in Bidders : BidderStep(r, b)
  \/ Advance(r)

Environment == Tick \/ ProduceRound \/ \E a \in Accounts : Freeze(a) \/ Thaw(a)

Next == Environment \/ \E r \in RoundIds : RoundStep(r)

Spec == Init /\ [][Next]_vars

\* Ledgers keep closing, and somebody (the keeper of services/keeper, or anyone
\* else: no entry point checks the caller) keeps calling the permissionless entry
\* points.  Nobody promises that Drand produces R or that a frozen account thaws.
Fairness ==
  /\ WF_vars(Tick)
  /\ \A r \in RoundIds :
       /\ WF_vars(OpenReveal(r))
       /\ WF_vars(Clear(r))
       /\ WF_vars(Settle(r))
       /\ WF_vars(Void(r))

FairSpec == Spec /\ Fairness

-----------------------------------------------------------------------------
(* Properties.                                                             *)

Final == {"Settled", "Voided"}
Decided == {"Cleared", "Settled"}

RoundRecords ==
  [operator : Operators \cup {None}, reveal_round : Nat,
   clearing_rule : {"HighestBid", "LowestBid"},
   commit_deadline : Nat, reveal_deadline : Nat, status : Statuses,
   bidders : Seq(Bidders), winner : Bidders \cup {None}, winning_bid : Int]

BidRecords ==
  [commitment : Preimages \cup {None}, escrow : Int,
   revealed_value : Values \cup {None}, revealed_nonce : Nonces \cup {None},
   valid : BOOLEAN, settled : BOOLEAN]

SealRecords ==
  [ciphertext : Preimages \cup {Garbage, None}, live_until : Nat]

\* Every variable has its type, and the persisted bidder index never outgrows
\* MAX_BIDDERS, the cap that keeps it inside one data entry (lib.rs:27-29).
TypeOK ==
  /\ now \in Nat
  /\ beacon \in Nat
  /\ rounds \in [RoundIds -> RoundRecords]
  /\ bids \in [RoundIds -> [Bidders -> BidRecords]]
  /\ seals \in [RoundIds -> [Bidders -> SealRecords]]
  /\ balance \in [Accounts -> Int]
  /\ vault \in [RoundIds -> [Bidders -> Int]]
  /\ frozen \subseteq Accounts
  /\ \A r \in RoundIds : Len(rounds[r].bidders) <= MAX_BIDDERS

\* The bidder index that clear, settle and refund_all walk lists every account
\* with a stored bid once, and nobody else: an account listed twice would be
\* paid twice, one not listed never (lib.rs:166-178, 308, 367, 491).
IndexIsExact ==
  \A r \in RoundIds :
    /\ IsInjective(rounds[r].bidders)
    /\ \A b \in Bidders : HasBid(r, b) <=> b \in BiddersOf(r)

\* For every bid the contract holds exactly the escrow of that bid until it is
\* settled, and nothing after: no bid is paid from another bid's escrow, in its
\* own round or in any other, through overwrites, settlement and refunds.
EscrowBacked ==
  \A r \in RoundIds, b \in Bidders :
    vault[r][b] = IF bids[r][b].settled THEN 0 ELSE bids[r][b].escrow

\* What account a is ahead or behind by a round: its escrow as long as the round
\* runs, its bid if it won, the winning bid if it is the operator.
NetOf(r, a) ==
  LET locked == IF a \in Bidders /\ rounds[r].status \notin Final THEN bids[r][a].escrow ELSE 0
      won    == IF rounds[r].status = "Settled" /\ rounds[r].winner = a
                THEN rounds[r].winning_bid ELSE 0
      earned == IF rounds[r].status = "Settled" /\ rounds[r].operator = a
                THEN rounds[r].winning_bid ELSE 0
  IN  earned - locked - won

\* Every account's balance is what it started with, less its escrows in rounds
\* still running, less the bids it won, plus the bids won in settled rounds it
\* operated.  So losers and voided bidders are made whole, a winner pays its bid
\* and not its escrow, and the operator gets the winning bid once.
BalancesExplained ==
  \A a \in Accounts :
    balance[a] = Funds + SumFunction([r \in RoundIds |-> NetOf(r, a)])

\* Until a decided round is paid out, its winner's bid is still locked and covers
\* the winning bid, so the payment to the operator and the surplus back to the
\* winner come out of that one escrow; and the contract's balance always covers
\* what a round still owes, with the other rounds sharing the balance: no transfer
\* of settle, clear or void is refused ("Cannot fail for lack of funds", lib.rs:355).
SettlementFunded ==
  \A r \in RoundIds :
    /\ rounds[r].status = "Cleared" =>
         /\ rounds[r].winner \in Unsettled(r)
         /\ rounds[r].winning_bid > 0
         /\ rounds[r].winning_bid <= bids[r][rounds[r].winner].escrow
    /\ EscrowTotal(r, Unsettled(r)) <= ContractBalance

\* No bid is revealed on chain before the commit window is over and Drand round R
\* is out, whoever calls what (open_reveal is the only way into Revealing).
SealedUntilR ==
  \A r \in RoundIds, b \in Bidders : bids[r][b].revealed_value # None =>
    /\ now > rounds[r].commit_deadline
    /\ Published(rounds[r].reveal_round)

\* Whatever is recorded as revealed is what the bidder committed to, and it takes
\* part in clearing exactly if it is positive and within the bidder's escrow, so
\* nobody can spoil or improve a bid by revealing in its place (lib.rs:267-282).
RevealBinding ==
  \A r \in RoundIds, b \in Bidders :
    LET s == bids[r][b] IN
    /\ s.revealed_value # None =>
         /\ s.commitment = Hash(s.revealed_value, s.revealed_nonce)
         /\ s.valid <=> (s.revealed_value > 0 /\ s.revealed_value <= s.escrow)
    /\ s.valid => s.revealed_value # None

\* The winner of a decided round has the best valid revealed bid under the
\* round's rule, and of several such bids the one whose bidder was first to
\* commit, also if it changed its bid later.
WinnerIsFirstBest ==
  \A r \in RoundIds : rounds[r].status \in Decided =>
    \E i \in Candidates(r) :
      /\ rounds[r].winner = rounds[r].bidders[i]
      /\ rounds[r].winning_bid = ValueAt(r, i)
      /\ \A j \in Candidates(r) :
           /\ IF rounds[r].clearing_rule = "HighestBid"
              THEN ValueAt(r, j) <= rounds[r].winning_bid
              ELSE ValueAt(r, j) >= rounds[r].winning_bid
           /\ ValueAt(r, j) = rounds[r].winning_bid => i <= j

\* A round is voided only if no valid bid was revealed: neither clear nor void can
\* take a round away from a bidder whose valid bid is on record.
NoValidBidVoided ==
  \A r \in RoundIds : rounds[r].status = "Voided" => Candidates(r) = {}

\* A settled or voided round owes nothing: every bid of it is marked settled.
FinalIsPaid ==
  \A r \in RoundIds : rounds[r].status \in Final =>
    \A b \in BiddersOf(r) : bids[r][b].settled

\* As long as a bid may still have to be revealed, its ciphertext is readable: the
\* seal's lifetime is computed from the deadline (TECH_DESIGN.md:71).
SealsOutliveReveal ==
  \A r \in RoundIds : \A b \in BiddersOf(r) :
    rounds[r].status \in {"Open", "Revealing"} /\ now <= rounds[r].reveal_deadline
      => SealLive(r, b)

\* A ciphertext is still readable when Drand publishes round R, however long
\* before R it was committed (TECH_DESIGN.md:71).
SealsReachR ==
  \A r \in RoundIds : \A b \in BiddersOf(r) :
    rounds[r].status = "Open" /\ now <= DrandTime(rounds[r].reveal_round)
      => SealLive(r, b)

\* A step makes, changes or funds a bid.
BidPlaced(r, b) ==
  \/ bids'[r][b].commitment # bids[r][b].commitment
  \/ bids'[r][b].escrow # bids[r][b].escrow

\* "Commit must close strictly before R is published, otherwise a bidder could
\* decrypt others' sealed bids before committing" (lib.rs:93-94).
NoCommitAfterR ==
  [][\A r \in RoundIds, b \in Bidders :
       BidPlaced(r, b) => ~Published(rounds[r].reveal_round)']_vars

\* What create_round's check of the commit deadline gives: a bid is never placed or
\* changed once Drand is past R, and not once R is out in a round whose deadline
\* comes before R, whatever the beacon's delay and however bids are overwritten.
CommitsPrecedeNext ==
  [][\A r \in RoundIds, b \in Bidders : BidPlaced(r, b) =>
       /\ ~Published(rounds[r].reveal_round + 1)'
       /\ rounds[r].commit_deadline < DrandTime(rounds[r].reveal_round)
            => ~Published(rounds[r].reveal_round)']_vars

\* A settled or voided round and its bids never change again, and no reveal or
\* payment mark is ever taken back.
FinalIsFinal ==
  [][\A r \in RoundIds :
       /\ rounds[r].status \in Final => rounds'[r] = rounds[r] /\ bids'[r] = bids[r]
       /\ \A b \in Bidders :
            /\ bids[r][b].settled => bids'[r][b].settled
            /\ bids[r][b].revealed_value # None
                 => bids'[r][b].revealed_value = bids[r][b].revealed_value]_vars

\* Every round ends settled or voided, also if Drand never produces R, and its
\* escrow comes back, provided somebody keeps calling the permissionless entry
\* points and from some time on the token refuses no account.
EveryRoundEnds ==
  <>[](frozen = {}) =>
    \A r \in RoundIds : rounds[r].status = "Open" ~> rounds[r].status \in Final

\* "void after grace refunds all escrow" (THREAT_MODEL.md:47): a bidder whose own
\* account the token never refuses gets its escrow back in the end, or a
\* settlement of it.
EscrowComesBack ==
  \A r \in RoundIds, b \in Bidders \ Freezable :
    HasBid(r, b) ~> bids[r][b].settled

-----------------------------------------------------------------------------
(* The contract implements the life of its rounds that the off-chain programs   *)
(* rely on.                                                                  *)

BidPhase(r, b) ==
  IF ~HasBid(r, b) THEN "None"
  ELSE IF bids[r][b].revealed_value = None THEN "Sealed" ELSE "Revealed"

Life == INSTANCE RoundLife WITH
  phase <- [r \in RoundIds |-> rounds[r].status],
  terms <- [r \in RoundIds |->
     <<rounds[r].reveal_round, rounds[r].commit_deadline, rounds[r].reveal_deadline>>],
  bid <- [r \in RoundIds |-> [b \in Bidders |-> BidPhase(r, b)]]

\* Every behaviour of the contract is a life of its rounds: no order of calls opens,
\* decides, settles or voids a round in another way, takes a bid after the commit
\* deadline or a reveal after the reveal deadline.
ImplementsLife == Life!LSpec
=============================================================================
