----------------------------- MODULE RoundProofs -----------------------------
(***************************************************************************)
(* Proofs about the sealed-round contract for every number of bidders,      *)
(* rounds, values and deadlines.                                            *)
(***************************************************************************)
EXTENDS Round, FoldProofs, SequenceTheorems, TLAPS

-----------------------------------------------------------------------------
(* The types.                                                               *)

\* Everything of TypeOK but the cap on the bidder index.
Types ==
  /\ now \in Nat
  /\ beacon \in Nat
  /\ rounds \in [RoundIds -> RoundRecords]
  /\ bids \in [RoundIds -> [Bidders -> BidRecords]]
  /\ seals \in [RoundIds -> [Bidders -> SealRecords]]
  /\ balance \in [Accounts -> Int]
  /\ vault \in [RoundIds -> [Bidders -> Int]]
  /\ frozen \subseteq Accounts

\* The bidder index stays within the cap.
IndexBounded == \A r \in RoundIds : Len(rounds[r].bidders) <= MAX_BIDDERS

LEMMA NatConstants ==
  /\ MAX_BIDDERS \in Nat
  /\ VOID_GRACE \in Nat
  /\ MAX_U64 \in Nat
  /\ drand_genesis \in Nat
  /\ drand_period \in Nat
BY RoundAssumption

\* Pushing a new element onto a sequence without repetition.
LEMMA PushFresh ==
  ASSUME NEW S, NEW q \in Seq(S), NEW x \in S, IsInjective(q), x \notin Range(q)
  PROVE  /\ Len(Append(q, x)) = Len(q) + 1
         /\ IsInjective(Append(q, x))
         /\ Range(Append(q, x)) = Range(q) \cup {x}
<1>. DEFINE p == Append(q, x)
<1>1. /\ Len(q) \in Nat
      /\ DOMAIN q = 1 .. Len(q)
      /\ DOMAIN p = 1 .. Len(q) + 1
      /\ \A i \in 1 .. Len(q) : p[i] = q[i]
      /\ p[Len(q) + 1] = x
      /\ Len(p) = Len(q) + 1
  BY AppendProperties, LenProperties
<1>. HIDE DEF p
<1>2. IsInjective(p)
  BY <1>1 DEF IsInjective, Range
<1>3. Range(p) = Range(q) \cup {x}
  BY <1>1 DEF Range
<1>. QED
  BY <1>1, <1>2, <1>3 DEF p

LEMMA BlankTypes ==
  /\ NoRound \in RoundRecords
  /\ NoBid \in BidRecords
  /\ NoSeal \in SealRecords
<1>1. <<>> \in Seq(Bidders)
  OBVIOUS
<1>. QED
  BY <1>1 DEF NoRound, NoBid, NoSeal, RoundRecords, BidRecords, SealRecords, Statuses

LEMMA InitTypes == Init => Types
BY BlankTypes, RoundAssumption DEF Init, Types, Accounts

\* Settling only sets a flag.
LEMMA MarkSettledType ==
  ASSUME Types, NEW r \in RoundIds
  PROVE  MarkSettled(r) \in [RoundIds -> [Bidders -> BidRecords]]
<1>1. ASSUME NEW s \in BidRecords
      PROVE  [s EXCEPT !.settled = TRUE] \in BidRecords
  BY DEF BidRecords
<1>2. \A b \in Bidders : bids[r][b] \in BidRecords
  BY DEF Types
<1>. QED
  BY <1>1, <1>2 DEF MarkSettled, Types

\* The index of a round holds bidders.
LEMMA IndexedBidders ==
  ASSUME Types, NEW r \in RoundIds
  PROVE  BiddersOf(r) \subseteq Bidders
<1>1. rounds[r].bidders \in Seq(Bidders)
  BY DEF Types, RoundRecords
<1>2. \A i \in DOMAIN rounds[r].bidders : rounds[r].bidders[i] \in Bidders
  BY <1>1
<1>. QED
  BY <1>2 DEF BiddersOf, Range

\* Escrows and payouts are integers.
LEMMA PayoutTypes ==
  ASSUME Types, NEW r \in RoundIds, NEW a \in Accounts
  PROVE  /\ RefundTo(r, a) \in Int
         /\ rounds[r].winner # None => BidderPayout(r, a) \in Int
         /\ OperatorPayout(r, a) \in Int
<1>1. a \in Unsettled(r) => a \in Bidders
  BY IndexedBidders DEF Unsettled
<1>2. RefundTo(r, a) \in Int
  BY <1>1 DEF RefundTo, Types, BidRecords
<1>3. rounds[r].winning_bid \in Int
  BY DEF Types, RoundRecords
<1>4. rounds[r].winner # None => bids[r][rounds[r].winner].escrow \in Int
  BY DEF Types, RoundRecords, BidRecords
<1>. QED
  BY <1>2, <1>3, <1>4 DEF BidderPayout, OperatorPayout, Surplus, AtLeast

LEMMA SealTtlType ==
  ASSUME Types, NEW d \in Nat
  PROVE  SealTtl(d) \in Nat
<1>1. \A n \in Nat : n % U32_RANGE \in Nat
  BY RoundAssumption
<1>2. \A a, b \in Nat : AtLeast(a, b) \in Nat /\ AtMost(a, b) \in Nat
  BY DEF AtLeast, AtMost
<1>3. PERSISTENT_BUMP \in Nat /\ TEMP_THRESHOLD \in Nat /\ POST_REVEAL_SEAL_BUFFER \in Nat
  BY RoundAssumption
<1>4. AtLeast(d - now, 0) \in Nat
  BY DEF AtLeast, Types
<1>5. AtLeast(d - now, 0) + POST_REVEAL_SEAL_BUFFER \in Nat
  BY <1>3, <1>4
<1>6. AtLeast(AtLeast(d - now, 0) + POST_REVEAL_SEAL_BUFFER, TEMP_THRESHOLD) \in Nat
  BY <1>2, <1>3, <1>5
<1>. QED
  BY <1>1, <1>2, <1>3, <1>6 DEF SealTtl

LEMMA ExtendedSealType ==
  ASSUME Types, NEW r \in RoundIds, NEW b \in Bidders
  PROVE  ExtendedSeal(r, b) \in SealRecords
<1>1. rounds[r].reveal_deadline \in Nat
  BY DEF Types, RoundRecords
<1>2. SealTtl(rounds[r].reveal_deadline) \in Nat
  BY <1>1, SealTtlType
<1>3. now + SealTtl(rounds[r].reveal_deadline) \in Nat
  BY <1>2 DEF Types
<1>4. seals[r][b] \in SealRecords
  BY DEF Types
<1>5. [seals[r][b] EXCEPT !.live_until = now + SealTtl(rounds[r].reveal_deadline)]
         \in SealRecords
  BY <1>3, <1>4 DEF SealRecords
<1>. QED
  BY <1>4, <1>5 DEF ExtendedSeal

LEMMA CreateRoundTypes ==
  ASSUME Types, NEW r \in RoundIds, NEW o \in Operators, NEW s \in Schedules,
         NEW u \in Rules, CreateRound(r, o, s, u)
  PROVE  Types'
<1>1. s[1] \in Nat /\ s[2] \in Nat /\ s[3] \in Nat /\ u \in {"HighestBid", "LowestBid"}
  BY RoundAssumption
<1>2. <<>> \in Seq(Bidders)
  OBVIOUS
<1>3. [operator |-> o, reveal_round |-> s[1], clearing_rule |-> u,
       commit_deadline |-> s[2], reveal_deadline |-> s[3], status |-> "Open",
       bidders |-> <<>>, winner |-> None, winning_bid |-> 0] \in RoundRecords
  BY <1>1, <1>2 DEF RoundRecords, Statuses
<1>. QED
  BY <1>3 DEF CreateRound, Types

\* Only the named field of a round changes, to a value of its type.
LEMMA RoundUpdates ==
  ASSUME NEW x \in RoundRecords
  PROVE  /\ \A st \in Statuses : [x EXCEPT !.status = st] \in RoundRecords
         /\ \A q \in Seq(Bidders) : [x EXCEPT !.bidders = q] \in RoundRecords
         /\ \A w \in Bidders, v \in Int :
              [x EXCEPT !.winner = w, !.winning_bid = v, !.status = "Cleared"]
                \in RoundRecords
BY DEF RoundRecords, Statuses

LEMMA IndexWithType ==
  ASSUME Types, NEW r \in RoundIds, NEW b \in Bidders
  PROVE  IndexWith(r, b) \in Seq(Bidders)
<1>1. rounds[r].bidders \in Seq(Bidders)
  BY DEF Types, RoundRecords
<1>2. Append(rounds[r].bidders, b) \in Seq(Bidders)
  BY <1>1, AppendProperties
<1>. QED
  BY <1>1, <1>2 DEF IndexWith

LEMMA CommitTypes ==
  ASSUME Types, NEW r \in RoundIds, NEW b \in Bidders, NEW s \in Sealings,
         NEW e \in Escrows, Commit(r, b, s[1], s[2], e)
  PROVE  Types'
<1>1. s[1] \in Preimages /\ s[2] \in Preimages \cup {Garbage} /\ e \in Int
  BY RoundAssumption
<1>2. rounds' \in [RoundIds -> RoundRecords]
  <2>1. rounds[r] \in RoundRecords
    BY DEF Types
  <2>2. [rounds[r] EXCEPT !.bidders = IndexWith(r, b)] \in RoundRecords
    BY <2>1, RoundUpdates, IndexWithType
  <2>. QED
    BY <2>2 DEF Commit, Types
<1>3. bids' \in [RoundIds -> [Bidders -> BidRecords]]
  <2>1. [commitment |-> s[1], escrow |-> e, revealed_value |-> None,
         revealed_nonce |-> None, valid |-> FALSE, settled |-> FALSE] \in BidRecords
    BY <1>1 DEF BidRecords
  <2>. QED
    BY <2>1 DEF Commit, Types
<1>4. seals' \in [RoundIds -> [Bidders -> SealRecords]]
  <2>1. rounds[r].reveal_deadline \in Nat
    BY DEF Types, RoundRecords
  <2>2. now + SealTtl(rounds[r].reveal_deadline) \in Nat
    BY <2>1, SealTtlType DEF Types
  <2>3. ExtendedSeal(r, b).live_until \in Nat
    BY ExtendedSealType DEF SealRecords
  <2>4. [ciphertext |-> s[2],
         live_until |-> IF SealLive(r, b)
                        THEN ExtendedSeal(r, b).live_until
                        ELSE now + SealTtl(rounds[r].reveal_deadline)] \in SealRecords
    BY <1>1, <2>2, <2>3 DEF SealRecords
  <2>. QED
    BY <2>4 DEF Commit, Types
<1>5. balance' \in [Accounts -> Int] /\ vault' \in [RoundIds -> [Bidders -> Int]]
  <2>1. bids[r][b].escrow \in Int
    BY DEF Types, BidRecords
  <2>2. balance[b] \in Int /\ vault[r][b] \in Int /\ b \in Accounts
    BY DEF Types, Accounts
  <2>3. balance' \in [Accounts -> Int]
    BY <1>1, <2>1, <2>2 DEF Commit, Types
  <2>4. vault[r] \in [Bidders -> Int]
    BY DEF Types
  <2>5. [vault[r] EXCEPT ![b] = @ - bids[r][b].escrow + e] \in [Bidders -> Int]
    BY <1>1, <2>1, <2>2, <2>4
  <2>6. vault' = [vault EXCEPT ![r][b] = @ - bids[r][b].escrow + e]
    BY DEF Commit
  <2>7. [vault EXCEPT ![r] = [vault[r] EXCEPT ![b] = @ - bids[r][b].escrow + e]]
          \in [RoundIds -> [Bidders -> Int]]
    BY <2>5 DEF Types
  <2>. QED
    BY <2>3, <2>6, <2>7
<1>. QED
  BY <1>2, <1>3, <1>4, <1>5 DEF Commit, Types

LEMMA OpenRevealTypes ==
  ASSUME Types, NEW r \in RoundIds, OpenReveal(r)
  PROVE  Types'
<1>1. rounds' \in [RoundIds -> RoundRecords]
  <2>1. [rounds[r] EXCEPT !.status = "Revealing"] \in RoundRecords
    BY RoundUpdates DEF Types, Statuses
  <2>. QED
    BY <2>1 DEF OpenReveal, Types
<1>2. seals' \in [RoundIds -> [Bidders -> SealRecords]]
  BY ExtendedSealType DEF OpenReveal, Types
<1>. QED
  BY <1>1, <1>2 DEF OpenReveal, Types

LEMMA RevealTypes ==
  ASSUME Types, NEW r \in RoundIds, NEW b \in Bidders, NEW v \in Values,
         NEW n \in Nonces, Reveal(r, b, v, n)
  PROVE  Types'
<1>1. ASSUME NEW s \in BidRecords, NEW ok \in BOOLEAN
      PROVE  [s EXCEPT !.revealed_value = v, !.revealed_nonce = n, !.valid = ok]
               \in BidRecords
  BY <1>1 DEF BidRecords
<1>2. bids[r][b] \in BidRecords
  BY DEF Types
<1>3. WithinEscrow(r, b, v) \in BOOLEAN
  BY DEF WithinEscrow
<1>4. [bids[r][b] EXCEPT !.revealed_value = v, !.revealed_nonce = n,
                         !.valid = WithinEscrow(r, b, v)] \in BidRecords
  BY <1>1, <1>2, <1>3, Zenon
<1>. QED
  BY <1>4 DEF Reveal, Types

LEMMA RefundAllTypes ==
  ASSUME Types, NEW r \in RoundIds, RefundAll(r)
  PROVE  /\ balance' \in [Accounts -> Int]
         /\ vault' \in [RoundIds -> [Bidders -> Int]]
         /\ bids' \in [RoundIds -> [Bidders -> BidRecords]]
<1>1. \A a \in Accounts : RefundTo(r, a) \in Int
  BY PayoutTypes
<1>2. \A b \in Bidders : RefundTo(r, b) \in Int
  BY <1>1 DEF Accounts
<1>. QED
  BY <1>1, <1>2, MarkSettledType DEF RefundAll, Types

LEMMA ClearToWinnerTypes ==
  ASSUME Types, NEW r \in RoundIds, ClearToWinner(r)
  PROVE  Types'
<1>1. PICK i \in DOMAIN rounds[r].bidders :
        /\ FirstBest(r, i)
        /\ rounds' = [rounds EXCEPT ![r] =
             [@ EXCEPT !.winner = rounds[r].bidders[i], !.winning_bid = ValueAt(r, i),
                       !.status = "Cleared"]]
  BY DEF ClearToWinner
<1>2. rounds[r].bidders[i] \in Bidders
  BY <1>1 DEF Types, RoundRecords
<1>3. ValueAt(r, i) \in Int
  <2>1. ValueAt(r, i) \in Values \cup {None}
    BY <1>2 DEF ValueAt, Types, BidRecords
  <2>2. ValueAt(r, i) # None
    BY <1>1 DEF FirstBest, Candidates, ValueAt
  <2>. QED
    BY <2>1, <2>2, RoundAssumption
<1>4. rounds' \in [RoundIds -> RoundRecords]
  <2>1. rounds[r] \in RoundRecords
    BY DEF Types
  <2>2. [rounds[r] EXCEPT !.winner = rounds[r].bidders[i], !.winning_bid = ValueAt(r, i),
                          !.status = "Cleared"] \in RoundRecords
    BY <2>1, <1>2, <1>3, RoundUpdates
  <2>. QED
    BY <1>1, <2>2 DEF Types
<1>. QED
  BY <1>4 DEF ClearToWinner, Types

\* clear's void branch and void do the same to the state.
LEMMA RefundingTypes ==
  ASSUME Types, NEW r \in RoundIds, ClearToVoid(r) \/ Void(r)
  PROVE  Types'
<1>1. /\ rounds' = [rounds EXCEPT ![r].status = "Voided"]
      /\ RefundAll(r)
      /\ UNCHANGED <<now, beacon, seals, frozen>>
  BY DEF ClearToVoid, Void
<1>2. [rounds[r] EXCEPT !.status = "Voided"] \in RoundRecords
  BY RoundUpdates DEF Types, Statuses
<1>3. rounds' \in [RoundIds -> RoundRecords]
  BY <1>1, <1>2 DEF Types
<1>. QED
  BY <1>1, <1>3, RefundAllTypes DEF Types

-----------------------------------------------------------------------------
(* The inductive invariant.  It is a conjunction over rounds of facts about *)
(* that round's record, bids and escrow alone, because no entry point       *)
(* touches two rounds.                                                      *)

\* The bidder index lists the accounts with a stored bid, each once.
IndexOk(r) ==
  /\ Len(rounds[r].bidders) <= MAX_BIDDERS
  /\ IsInjective(rounds[r].bidders)
  /\ \A b \in Bidders : HasBid(r, b) <=> b \in BiddersOf(r)

\* A stored bid has a commitment and a positive escrow, and the contract holds
\* that escrow until the bid is settled.
MoneyOk(r, b) ==
  /\ HasBid(r, b) <=> bids[r][b].commitment # None
  /\ HasBid(r, b) => bids[r][b].escrow > 0
  /\ vault[r][b] = IF bids[r][b].settled THEN 0 ELSE bids[r][b].escrow

\* A revealed bid is the committed one, is judged by its escrow, and was revealed
\* after R.
RevealOk(r, b) ==
  /\ bids[r][b].revealed_value # None =>
       /\ HasBid(r, b)
       /\ bids[r][b].commitment = Hash(bids[r][b].revealed_value, bids[r][b].revealed_nonce)
       /\ bids[r][b].valid <=> WithinEscrow(r, b, bids[r][b].revealed_value)
       /\ now > rounds[r].commit_deadline
       /\ Published(rounds[r].reveal_round)
  /\ bids[r][b].valid => bids[r][b].revealed_value # None
  /\ bids[r][b].revealed_nonce # None => bids[r][b].revealed_value # None

\* What the status of a round says about it.
PhaseOk(r) ==
  /\ rounds[r].status \in {"Absent", "Open"} =>
       \A b \in Bidders : bids[r][b].revealed_value = None
  /\ rounds[r].status = "Absent" => \A b \in Bidders : ~HasBid(r, b)
  /\ rounds[r].status # "Absent" =>
       /\ rounds[r].reveal_round # 0
       /\ rounds[r].commit_deadline < TimeOfRound(rounds[r].reveal_round)
  /\ rounds[r].status \in {"Revealing", "Cleared", "Settled"} =>
       now > rounds[r].commit_deadline /\ Published(rounds[r].reveal_round)
  /\ rounds[r].status \notin Final => \A b \in Bidders : ~bids[r][b].settled
  /\ rounds[r].status \in Final => \A b \in BiddersOf(r) : bids[r][b].settled
  /\ rounds[r].status = "Voided" => Candidates(r) = {}
  /\ rounds[r].status \notin Decided => rounds[r].winner = None

\* A decided round has the winner its bids determine.
OutcomeOk(r) ==
  rounds[r].status \in Decided =>
    \E i \in Candidates(r) :
      /\ FirstBest(r, i)
      /\ rounds[r].winner = rounds[r].bidders[i]
      /\ rounds[r].winning_bid = ValueAt(r, i)

RoundOk(r) ==
  /\ IndexOk(r)
  /\ \A b \in Bidders : MoneyOk(r, b) /\ RevealOk(r, b)
  /\ PhaseOk(r)
  /\ OutcomeOk(r)

\* Drand has not run ahead of its schedule.
BeaconOk == beacon > 0 => DrandTime(beacon) <= now

IInv ==
  /\ Types
  /\ BeaconOk
  /\ \A r \in RoundIds : RoundOk(r)

\* RoundOk(r) survives any step that leaves round r alone while time and the
\* beacon go on.
LEMMA Frame ==
  ASSUME Types, Types', NEW r \in RoundIds, RoundOk(r),
         rounds'[r] = rounds[r], bids'[r] = bids[r], vault'[r] = vault[r],
         now' >= now, beacon' >= beacon
  PROVE  RoundOk(r)'
<1>1. IndexOk(r)'
  BY DEF RoundOk, IndexOk, HasBid, BiddersOf, IsInjective, Range
<1>2. ASSUME NEW b \in Bidders
      PROVE  (MoneyOk(r, b) /\ RevealOk(r, b))'
  <2>1. MoneyOk(r, b) /\ RevealOk(r, b)
    BY DEF RoundOk
  <2>2. MoneyOk(r, b)'
    BY <2>1 DEF MoneyOk, HasBid
  <2>3. rounds[r].commit_deadline \in Nat /\ rounds[r].reveal_round \in Nat
    BY DEF Types, RoundRecords
  <2>4. RevealOk(r, b)'
    BY <2>1, <2>3 DEF RevealOk, HasBid, WithinEscrow, Published, Types
  <2>. QED
    BY <2>2, <2>4
<1>3. PhaseOk(r)'
  <2>1. PhaseOk(r)
    BY DEF RoundOk
  <2>2. rounds[r].commit_deadline \in Nat /\ rounds[r].reveal_round \in Nat
    BY DEF Types, RoundRecords
  <2>3. Candidates(r)' = Candidates(r) /\ BiddersOf(r)' = BiddersOf(r)
    BY DEF Candidates, HasBid, BiddersOf, Range
  <2>. QED
    BY <2>1, <2>2, <2>3 DEF PhaseOk, HasBid, Published, Types, TimeOfRound
<1>4. OutcomeOk(r)'
  <2>1. Candidates(r)' = Candidates(r)
    BY DEF Candidates, HasBid
  <2>2. \A i \in Candidates(r) : ValueAt(r, i)' = ValueAt(r, i)
    BY DEF ValueAt
  <2>3. \A i \in Candidates(r) : FirstBest(r, i) => FirstBest(r, i)'
    BY <2>1, <2>2 DEF FirstBest, Better
  <2>. QED
    BY <2>1, <2>2, <2>3 DEF RoundOk, OutcomeOk
<1>. QED
  BY <1>1, <1>2, <1>3, <1>4 DEF RoundOk

LEMMA InitIInv == Init => IInv
<1>. SUFFICES ASSUME Init PROVE IInv
  OBVIOUS
<1>1. Types /\ BeaconOk
  BY InitTypes DEF Init, BeaconOk
<1>2. ASSUME NEW r \in RoundIds
      PROVE  RoundOk(r)
  <2>1. /\ rounds[r] = NoRound
        /\ \A b \in Bidders : bids[r][b] = NoBid /\ vault[r][b] = 0
    BY DEF Init
  <2>2. IndexOk(r)
    BY <2>1, RoundAssumption DEF IndexOk, HasBid, NoRound, BiddersOf, Range, IsInjective
  <2>3. ASSUME NEW b \in Bidders
        PROVE  MoneyOk(r, b) /\ RevealOk(r, b)
    <3>1. /\ bids[r][b] = NoBid /\ vault[r][b] = 0
          /\ NoBid.commitment = None /\ NoBid.escrow = 0 /\ NoBid.revealed_value = None
          /\ NoBid.revealed_nonce = None /\ NoBid.valid = FALSE /\ NoBid.settled = FALSE
      BY <2>1 DEF NoBid
    <3>. QED
      BY <3>1 DEF MoneyOk, RevealOk, HasBid
  <2>4. Candidates(r) = {}
    BY <2>1 DEF Candidates, NoRound
  <2>5. PhaseOk(r)
    <3>1. /\ NoBid.revealed_value = None /\ NoBid.settled = FALSE
          /\ rounds[r].status = "Absent" /\ rounds[r].winner = None
      BY <2>1 DEF NoBid, NoRound
    <3>. QED
      BY <2>1, <2>4, <3>1 DEF PhaseOk, HasBid, Final
  <2>6. OutcomeOk(r)
    BY <2>1 DEF OutcomeOk, NoRound, Decided
  <2>. QED
    BY <2>2, <2>3, <2>5, <2>6 DEF RoundOk
<1>. QED
  BY <1>1, <1>2 DEF IInv

LEMMA DrandTimeType ==
  ASSUME NEW R \in Nat
  PROVE  DrandTime(R) \in Int
<1>1. R - 1 \in Int /\ drand_genesis \in Int /\ drand_period \in Int
  BY RoundAssumption
<1>2. \A m, n \in Int : m * n \in Int
  OBVIOUS
<1>3. drand_period * (R - 1) \in Int
  BY ONLY <1>1, <1>2
<1>. QED
  BY ONLY <1>1, <1>3 DEF DrandTime

\* The four environment actions leave every round alone.
LEMMA EnvironmentIInv ==
  ASSUME IInv, Environment
  PROVE  IInv'
<1>1. /\ UNCHANGED <<rounds, bids, seals, balance, vault>>
      /\ now' \in Nat /\ beacon' \in Nat /\ now' >= now /\ beacon' >= beacon
      /\ frozen' \subseteq Accounts
  BY RoundAssumption DEF IInv, Types, Environment, Tick, ProduceRound, Freeze, Thaw
<1>2. Types'
  BY <1>1 DEF IInv, Types
<1>3. BeaconOk'
  <2>1. DrandTime(beacon) \in Int
    BY DrandTimeType DEF IInv, Types
  <2>2. CASE ProduceRound
    BY <2>2 DEF ProduceRound, BeaconOk, IInv, DrandTime
  <2>3. CASE beacon' = beacon
    BY <1>1, <2>1, <2>3 DEF BeaconOk, IInv, Types, DrandTime
  <2>. QED
    BY <2>2, <2>3 DEF Environment, Tick, Freeze, Thaw
<1>4. \A r \in RoundIds : RoundOk(r)'
  BY <1>1, <1>2, Frame DEF IInv
<1>. QED
  BY <1>2, <1>3, <1>4 DEF IInv

\* A step on round r preserves the invariant if it leaves the other rounds, the
\* clock and the beacon alone and round r in order.
LEMMA OneRound ==
  ASSUME IInv, Types', NEW r \in RoundIds, UNCHANGED <<now, beacon>>,
         \A q \in RoundIds \ {r} :
           rounds'[q] = rounds[q] /\ bids'[q] = bids[q] /\ vault'[q] = vault[q],
         RoundOk(r)'
  PROVE  IInv'
<1>1. now' >= now /\ beacon' >= beacon
  BY DEF IInv, Types
<1>2. \A q \in RoundIds : RoundOk(q)'
  BY <1>1, Frame DEF IInv
<1>. QED
  BY <1>2 DEF IInv, BeaconOk, DrandTime

LEMMA CreateRoundIInv ==
  ASSUME IInv, NEW r \in RoundIds, NEW o \in Operators, NEW s \in Schedules,
         NEW u \in Rules, CreateRound(r, o, s, u)
  PROVE  IInv'
<1>1. Types'
  BY CreateRoundTypes DEF IInv
<1>2. /\ UNCHANGED <<now, beacon, bids, vault>>
      /\ \A q \in RoundIds \ {r} : rounds'[q] = rounds[q]
      /\ rounds'[r] = [operator |-> o, reveal_round |-> s[1], clearing_rule |-> u,
           commit_deadline |-> s[2], reveal_deadline |-> s[3], status |-> "Open",
           bidders |-> <<>>, winner |-> None, winning_bid |-> 0]
      /\ s[1] # 0 /\ s[2] < TimeOfRound(s[1])
      /\ rounds[r].status = "Absent"
  BY DEF CreateRound, ScheduleAccepted, IInv, Types
<1>3. \A b \in Bidders : ~HasBid(r, b) /\ bids[r][b] = NoBid
  BY <1>2 DEF IInv, RoundOk, PhaseOk, HasBid
<1>4. IndexOk(r)'
  BY <1>2, <1>3, RoundAssumption DEF IndexOk, HasBid, BiddersOf, Range, IsInjective
<1>5. ASSUME NEW b \in Bidders
      PROVE  (MoneyOk(r, b) /\ RevealOk(r, b))'
  <2>1. MoneyOk(r, b)'
    BY <1>2 DEF IInv, RoundOk, MoneyOk, HasBid
  <2>2. RevealOk(r, b)'
    BY <1>2, <1>3 DEF RevealOk, NoBid
  <2>. QED
    BY <2>1, <2>2
<1>6. PhaseOk(r)'
  <2>1. Candidates(r)' = {}
    BY <1>2 DEF Candidates
  <2>. QED
    BY <1>2, <1>3, <2>1 DEF PhaseOk, HasBid, NoBid, Final, TimeOfRound
<1>7. OutcomeOk(r)'
  BY <1>2 DEF OutcomeOk, Decided
<1>8. RoundOk(r)'
  BY <1>4, <1>5, <1>6, <1>7 DEF RoundOk
<1>. QED
  BY <1>1, <1>2, <1>8, OneRound

LEMMA CommitIInv ==
  ASSUME IInv, NEW r \in RoundIds, NEW b \in Bidders, NEW s \in Sealings,
         NEW e \in Escrows, Commit(r, b, s[1], s[2], e)
  PROVE  IInv'
<1>1. Types'
  BY CommitTypes DEF IInv
<1>. DEFINE new == [commitment |-> s[1], escrow |-> e, revealed_value |-> None,
                    revealed_nonce |-> None, valid |-> FALSE, settled |-> FALSE]
<1>2. /\ UNCHANGED <<now, beacon>>
      /\ rounds[r].status = "Open"
      /\ e \in Int /\ e > 0
      /\ s[1] # None
      /\ bids'[r][b] = new
      /\ \A c \in Bidders \ {b} : bids'[r][c] = bids[r][c] /\ vault'[r][c] = vault[r][c]
      /\ vault'[r][b] = vault[r][b] - bids[r][b].escrow + e
      /\ rounds'[r] = [rounds[r] EXCEPT !.bidders = IndexWith(r, b)]
      /\ \A q \in RoundIds \ {r} :
           rounds'[q] = rounds[q] /\ bids'[q] = bids[q] /\ vault'[q] = vault[q]
  BY RoundAssumption DEF Commit, CommitAllowed, IInv, Types
<1>3. /\ rounds[r] \in RoundRecords
      /\ \A c \in Bidders : bids[r][c] \in BidRecords /\ vault[r][c] \in Int
  BY DEF IInv, Types
<1>4. /\ rounds'[r].bidders = IndexWith(r, b)
      /\ rounds'[r].status = "Open"
      /\ rounds'[r].commit_deadline = rounds[r].commit_deadline
      /\ rounds'[r].reveal_round = rounds[r].reveal_round
  BY <1>2, <1>3 DEF RoundRecords
<1>5. IndexOk(r)'
  <2>1. IndexOk(r) /\ rounds[r].bidders \in Seq(Bidders)
    BY <1>3 DEF IInv, RoundOk, RoundRecords
  <2>2. HasBid(r, b)'
    BY <1>2 DEF HasBid, NoBid
  <2>3. \A c \in Bidders \ {b} : HasBid(r, c)' <=> HasBid(r, c)
    BY <1>2 DEF HasBid
  <2>4. CASE HasBid(r, b)
    BY <1>4, <2>1, <2>2, <2>3, <2>4 DEF IndexOk, IndexWith, BiddersOf
  <2>5. CASE ~HasBid(r, b)
    <3>1. rounds'[r].bidders = Append(rounds[r].bidders, b)
      BY <1>4, <2>5 DEF IndexWith
    <3>2. Len(rounds[r].bidders) < MAX_BIDDERS
      BY <2>5 DEF Commit, RoomFor
    <3>3. b \notin BiddersOf(r)
      BY <2>1, <2>5 DEF IndexOk
    <3>4. /\ Len(Append(rounds[r].bidders, b)) = Len(rounds[r].bidders) + 1
          /\ IsInjective(Append(rounds[r].bidders, b))
          /\ Range(Append(rounds[r].bidders, b)) = BiddersOf(r) \cup {b}
      BY <2>1, <3>3, PushFresh DEF IndexOk, BiddersOf
    <3>5. Len(rounds'[r].bidders) <= MAX_BIDDERS
      BY <2>1, <3>1, <3>2, <3>4, NatConstants, LenProperties
    <3>6. IsInjective(rounds'[r].bidders)
      BY <3>1, <3>4
    <3>7. BiddersOf(r)' = BiddersOf(r) \cup {b}
      BY <3>1, <3>4 DEF BiddersOf
    <3>. QED
      BY <2>1, <2>2, <2>3, <3>5, <3>6, <3>7 DEF IndexOk
  <2>. QED
    BY <2>4, <2>5
<1>6. \A c \in Bidders : bids[r][c].revealed_value = None /\ ~bids[r][c].settled
  BY <1>2 DEF IInv, RoundOk, PhaseOk, Final
<1>7. ASSUME NEW c \in Bidders
      PROVE  (MoneyOk(r, c) /\ RevealOk(r, c))'
  <2>1. MoneyOk(r, c)
    BY DEF IInv, RoundOk
  <2>2. MoneyOk(r, c)'
    <3>1. CASE c = b
      <4>1. vault[r][b] = bids[r][b].escrow
        BY <1>6, <2>1, <3>1 DEF MoneyOk
      <4>2. vault'[r][b] = e
        BY <1>2, <1>3, <4>1
      <4>. QED
        BY <1>2, <3>1, <4>2 DEF MoneyOk, HasBid, NoBid
    <3>2. CASE c # b
      BY <1>2, <2>1, <3>2 DEF MoneyOk, HasBid
    <3>. QED
      BY <3>1, <3>2
  <2>3. RevealOk(r, c)'
    <3>1. RevealOk(r, c)
      BY DEF IInv, RoundOk
    <3>. QED
      BY <1>2, <1>6, <3>1 DEF RevealOk
  <2>. QED
    BY <2>2, <2>3
<1>8. PhaseOk(r)'
  <2>1. PhaseOk(r)
    BY DEF IInv, RoundOk
  <2>. QED
    BY <1>2, <1>4, <1>6, <2>1 DEF PhaseOk, Final, TimeOfRound
<1>9. OutcomeOk(r)'
  BY <1>4 DEF OutcomeOk, Decided
<1>10. RoundOk(r)'
  BY <1>5, <1>7, <1>8, <1>9 DEF RoundOk
<1>. QED
  BY <1>1, <1>2, <1>10, OneRound

LEMMA OpenRevealIInv ==
  ASSUME IInv, NEW r \in RoundIds, OpenReveal(r)
  PROVE  IInv'
<1>1. Types'
  BY OpenRevealTypes DEF IInv
<1>2. /\ UNCHANGED <<now, beacon, bids, vault>>
      /\ rounds[r].status = "Open"
      /\ now > rounds[r].commit_deadline
      /\ Published(rounds[r].reveal_round)
      /\ rounds'[r] = [rounds[r] EXCEPT !.status = "Revealing"]
      /\ \A q \in RoundIds \ {r} : rounds'[q] = rounds[q]
  BY DEF OpenReveal, OpenAllowed, IInv, Types
<1>3. rounds[r] \in RoundRecords
  BY DEF IInv, Types
<1>4. /\ rounds'[r].status = "Revealing" /\ rounds'[r].winner = rounds[r].winner
      /\ rounds'[r].bidders = rounds[r].bidders
      /\ rounds'[r].commit_deadline = rounds[r].commit_deadline
      /\ rounds'[r].reveal_round = rounds[r].reveal_round
  BY <1>2, <1>3 DEF RoundRecords
<1>5. IndexOk(r)'
  BY <1>2, <1>4 DEF IInv, RoundOk, IndexOk, HasBid, BiddersOf
<1>6. ASSUME NEW b \in Bidders
      PROVE  (MoneyOk(r, b) /\ RevealOk(r, b))'
  <2>1. MoneyOk(r, b) /\ RevealOk(r, b)
    BY DEF IInv, RoundOk
  <2>2. bids' = bids /\ vault' = vault /\ now' = now /\ beacon' = beacon
    BY <1>2
  <2>3. MoneyOk(r, b)'
    BY <2>1, <2>2 DEF MoneyOk, HasBid
  <2>4. RevealOk(r, b)'
    BY <1>4, <2>1, <2>2 DEF RevealOk, HasBid, WithinEscrow, Published
  <2>. QED
    BY <2>3, <2>4
<1>7. PhaseOk(r)'
  <2>1. PhaseOk(r)
    BY DEF IInv, RoundOk
  <2>. QED
    BY <1>2, <1>4, <2>1 DEF PhaseOk, Final, Decided, TimeOfRound, Published
<1>8. OutcomeOk(r)'
  BY <1>4 DEF OutcomeOk, Decided
<1>9. RoundOk(r)'
  BY <1>5, <1>6, <1>7, <1>8 DEF RoundOk
<1>. QED
  BY <1>1, <1>2, <1>9, OneRound

LEMMA RevealIInv ==
  ASSUME IInv, NEW r \in RoundIds, NEW b \in Bidders, NEW v \in Values,
         NEW n \in Nonces, Reveal(r, b, v, n)
  PROVE  IInv'
<1>1. Types'
  BY RevealTypes DEF IInv
<1>2. /\ UNCHANGED <<now, beacon, rounds, vault>>
      /\ rounds[r].status = "Revealing"
      /\ HasBid(r, b)
      /\ RevealMatches(r, b, v, n)
      /\ bids'[r][b] = [bids[r][b] EXCEPT !.revealed_value = v, !.revealed_nonce = n,
                                          !.valid = WithinEscrow(r, b, v)]
      /\ \A c \in Bidders \ {b} : bids'[r][c] = bids[r][c]
      /\ \A q \in RoundIds \ {r} : bids'[q] = bids[q]
  BY DEF Reveal, IInv, Types
<1>3. bids[r][b] \in BidRecords
  BY DEF IInv, Types
<1>4. /\ bids'[r][b].commitment = bids[r][b].commitment
      /\ bids'[r][b].escrow = bids[r][b].escrow
      /\ bids'[r][b].settled = bids[r][b].settled
      /\ bids'[r][b].revealed_value = v
      /\ bids'[r][b].revealed_nonce = n
  BY <1>2, <1>3 DEF BidRecords
<1>5. bids'[r][b].valid = WithinEscrow(r, b, v)
  BY <1>2, <1>3, Zenon DEF BidRecords
<1>6. v # None
  BY RoundAssumption
<1>7. \A c \in Bidders : HasBid(r, c)' <=> HasBid(r, c)
  <2>1. HasBid(r, b)'
    BY <1>4, <1>6 DEF HasBid, NoBid
  <2>. QED
    BY <1>2, <2>1 DEF HasBid
<1>8. IndexOk(r)'
  <2>1. IndexOk(r) /\ rounds'[r] = rounds[r]
    BY <1>2 DEF IInv, RoundOk
  <2>. QED
    BY <1>7, <2>1 DEF IndexOk, BiddersOf
<1>9. ASSUME NEW c \in Bidders
      PROVE  (MoneyOk(r, c) /\ RevealOk(r, c))'
  <2>1. MoneyOk(r, c) /\ RevealOk(r, c)
    BY DEF IInv, RoundOk
  <2>2. CASE c # b
    <3>1. bids'[r][c] = bids[r][c] /\ vault'[r][c] = vault[r][c] /\ rounds' = rounds
      BY <1>2, <2>2
    <3>. QED
      BY <1>2, <2>1, <3>1 DEF MoneyOk, RevealOk, HasBid, WithinEscrow, Published
  <2>3. CASE c = b
    <3>1. MoneyOk(r, c)'
      BY <1>2, <1>4, <1>7, <2>1, <2>3 DEF MoneyOk
    <3>2. now > rounds[r].commit_deadline /\ Published(rounds[r].reveal_round)
      BY <1>2 DEF IInv, RoundOk, PhaseOk
    <3>3. bids'[r][b].commitment = Hash(v, n)
      BY <1>2, <1>4 DEF RevealMatches
    <3>4. WithinEscrow(r, b, v)' <=> WithinEscrow(r, b, v)
      BY <1>4 DEF WithinEscrow
    <3>5. RevealOk(r, b)'
      BY <1>2, <1>4, <1>5, <1>6, <1>7, <3>2, <3>3, <3>4
      DEF RevealOk, Published, WithinEscrow
    <3>. QED
      BY <2>3, <3>1, <3>5
  <2>. QED
    BY <2>2, <2>3
<1>10. PhaseOk(r)'
  <2>1. PhaseOk(r)
    BY DEF IInv, RoundOk
  <2>. QED
    BY <1>2, <1>4, <2>1 DEF PhaseOk, Final, TimeOfRound, Published
<1>11. OutcomeOk(r)'
  BY <1>2 DEF OutcomeOk, Decided
<1>12. RoundOk(r)'
  BY <1>8, <1>9, <1>10, <1>11 DEF RoundOk
<1>. QED
  BY <1>1, <1>2, <1>12, OneRound

LEMMA ClearToWinnerIInv ==
  ASSUME IInv, NEW r \in RoundIds, ClearToWinner(r)
  PROVE  IInv'
<1>1. Types'
  BY ClearToWinnerTypes DEF IInv
<1>2. UNCHANGED <<now, beacon, bids, vault>> /\ rounds[r].status = "Revealing"
  BY DEF ClearToWinner, ClearAllowed
<1>3. PICK i \in DOMAIN rounds[r].bidders :
        /\ FirstBest(r, i)
        /\ rounds' = [rounds EXCEPT ![r] =
             [@ EXCEPT !.winner = rounds[r].bidders[i], !.winning_bid = ValueAt(r, i),
                       !.status = "Cleared"]]
  BY DEF ClearToWinner
<1>4. rounds[r] \in RoundRecords /\ r \in DOMAIN rounds
  BY DEF IInv, Types
<1>5. /\ rounds'[r].status = "Cleared"
      /\ rounds'[r].winner = rounds[r].bidders[i]
      /\ rounds'[r].winning_bid = ValueAt(r, i)
      /\ rounds'[r].bidders = rounds[r].bidders
      /\ rounds'[r].clearing_rule = rounds[r].clearing_rule
      /\ rounds'[r].commit_deadline = rounds[r].commit_deadline
      /\ rounds'[r].reveal_round = rounds[r].reveal_round
      /\ \A q \in RoundIds \ {r} : rounds'[q] = rounds[q]
  BY <1>3, <1>4 DEF RoundRecords, IInv, Types
<1>6. IndexOk(r)'
  BY <1>2, <1>5 DEF IInv, RoundOk, IndexOk, HasBid, BiddersOf
<1>7. ASSUME NEW b \in Bidders
      PROVE  (MoneyOk(r, b) /\ RevealOk(r, b))'
  <2>1. MoneyOk(r, b) /\ RevealOk(r, b)
    BY DEF IInv, RoundOk
  <2>2. bids' = bids /\ vault' = vault /\ now' = now /\ beacon' = beacon
    BY <1>2
  <2>3. MoneyOk(r, b)'
    BY <2>1, <2>2 DEF MoneyOk, HasBid
  <2>4. RevealOk(r, b)'
    BY <1>5, <2>1, <2>2 DEF RevealOk, HasBid, WithinEscrow, Published
  <2>. QED
    BY <2>3, <2>4
<1>8. PhaseOk(r)'
  <2>1. PhaseOk(r)
    BY DEF IInv, RoundOk
  <2>. QED
    BY <1>2, <1>5, <2>1 DEF PhaseOk, Final, Decided, TimeOfRound, Published
<1>9. OutcomeOk(r)'
  <2>1. Candidates(r)' = Candidates(r)
    BY <1>2, <1>5 DEF Candidates, HasBid
  <2>2. \A j \in Candidates(r) : ValueAt(r, j)' = ValueAt(r, j)
    BY <1>2, <1>5 DEF ValueAt
  <2>3. i \in Candidates(r)
    BY <1>3 DEF FirstBest
  <2>4. FirstBest(r, i)'
    BY <1>3, <1>5, <2>1, <2>2, <2>3 DEF FirstBest, Better
  <2>. QED
    BY <1>5, <2>1, <2>2, <2>3, <2>4 DEF OutcomeOk
<1>10. RoundOk(r)'
  BY <1>6, <1>7, <1>8, <1>9 DEF RoundOk
<1>. QED
  BY <1>1, <1>2, <1>5, <1>10, OneRound

\* Before a payout no bid is settled, so the payout covers every stored bid.
LEMMA NothingSettled ==
  ASSUME IInv, NEW r \in RoundIds, rounds[r].status \notin Final
  PROVE  /\ Unsettled(r) = BiddersOf(r)
         /\ \A b \in Bidders : ~bids[r][b].settled
         /\ \A b \in Bidders : b \in BiddersOf(r) <=> HasBid(r, b)
         /\ \A b \in Bidders : vault[r][b] = bids[r][b].escrow
         /\ \A b \in Bidders : b \notin BiddersOf(r) => bids[r][b] = NoBid
<1>1. \A b \in Bidders : ~bids[r][b].settled
  BY DEF IInv, RoundOk, PhaseOk
<1>2. \A b \in Bidders : b \in BiddersOf(r) <=> HasBid(r, b)
  BY DEF IInv, RoundOk, IndexOk
<1>3. BiddersOf(r) \subseteq Bidders
  BY IndexedBidders DEF IInv
<1>4. \A b \in Bidders : vault[r][b] = bids[r][b].escrow
  BY <1>1 DEF IInv, RoundOk, MoneyOk
<1>. QED
  BY <1>1, <1>2, <1>3, <1>4 DEF Unsettled, HasBid

\* What settling the bids of a round does to them.
LEMMA MarkSettledEffect ==
  ASSUME IInv, NEW r \in RoundIds, rounds[r].status \notin Final,
         bids' = MarkSettled(r)
  PROVE  /\ \A b \in BiddersOf(r) :
              /\ bids'[r][b].settled
              /\ bids'[r][b].commitment = bids[r][b].commitment
              /\ bids'[r][b].escrow = bids[r][b].escrow
              /\ bids'[r][b].revealed_value = bids[r][b].revealed_value
              /\ bids'[r][b].revealed_nonce = bids[r][b].revealed_nonce
              /\ bids'[r][b].valid = bids[r][b].valid
         /\ \A b \in Bidders \ BiddersOf(r) : bids'[r][b] = bids[r][b]
         /\ \A b \in Bidders : HasBid(r, b)' <=> HasBid(r, b)
         /\ \A q \in RoundIds \ {r} : bids'[q] = bids[q]
<1>1. Unsettled(r) = BiddersOf(r) /\ BiddersOf(r) \subseteq Bidders
  BY NothingSettled, IndexedBidders DEF IInv
<1>2. /\ \A b \in BiddersOf(r) : bids'[r][b] = [bids[r][b] EXCEPT !.settled = TRUE]
      /\ \A b \in Bidders \ BiddersOf(r) : bids'[r][b] = bids[r][b]
      /\ \A q \in RoundIds \ {r} : bids'[q] = bids[q]
  BY <1>1 DEF MarkSettled, IInv, Types
<1>3. ASSUME NEW s \in BidRecords
      PROVE  LET t == [s EXCEPT !.settled = TRUE]
             IN  /\ t.settled
                 /\ t.commitment = s.commitment
                 /\ t.escrow = s.escrow
                 /\ t.revealed_value = s.revealed_value
                 /\ t.revealed_nonce = s.revealed_nonce
                 /\ t.valid = s.valid
  BY DEF BidRecords
<1>4. \A b \in Bidders : bids[r][b] \in BidRecords
  BY DEF IInv, Types
<1>5. ASSUME NEW b \in BiddersOf(r)
      PROVE  /\ bids'[r][b].settled
             /\ bids'[r][b].commitment = bids[r][b].commitment
             /\ bids'[r][b].escrow = bids[r][b].escrow
             /\ bids'[r][b].revealed_value = bids[r][b].revealed_value
             /\ bids'[r][b].revealed_nonce = bids[r][b].revealed_nonce
             /\ bids'[r][b].valid = bids[r][b].valid
  <2>1. bids[r][b] \in BidRecords
    BY <1>1, <1>4
  <2>. QED
    BY <1>2, <1>3, <2>1
<1>6. \A b \in BiddersOf(r) : HasBid(r, b) /\ bids[r][b].commitment # None
  <2>1. \A b \in BiddersOf(r) : b \in Bidders /\ HasBid(r, b)
    BY <1>1, NothingSettled
  <2>2. \A b \in Bidders : HasBid(r, b) <=> bids[r][b].commitment # None
    BY DEF IInv, RoundOk, MoneyOk
  <2>. QED
    BY <2>1, <2>2
<1>7. NoBid.commitment = None
  BY DEF NoBid
<1>8. \A b \in Bidders : HasBid(r, b)' <=> HasBid(r, b)
  <2>1. \A b \in BiddersOf(r) : bids'[r][b] # NoBid
    BY <1>5, <1>6, <1>7
  <2>. QED
    BY <1>2, <1>6, <2>1 DEF HasBid
<1>. QED
  BY <1>2, <1>5, <1>8

\* A payout that empties every escrow of a round, and ends it, keeps it in order.
LEMMA PaidOut ==
  ASSUME IInv, Types', NEW r \in RoundIds, NEW st \in Final,
         rounds[r].status \notin Final,
         rounds[r].status # "Absent",
         st = "Settled" => rounds[r].status = "Cleared",
         st = "Voided" => rounds[r].status \in {"Open", "Revealing"} /\ Candidates(r) = {},
         rounds' = [rounds EXCEPT ![r].status = st],
         bids' = MarkSettled(r),
         \A b \in Bidders : vault'[r][b] = 0,
         \A q \in RoundIds \ {r} : vault'[q] = vault[q],
         UNCHANGED <<now, beacon>>
  PROVE  IInv'
<1>1. rounds[r] \in RoundRecords /\ st \in {"Settled", "Voided"}
  BY DEF IInv, Types, Final
<1>2. /\ rounds'[r].status = st
      /\ rounds'[r].bidders = rounds[r].bidders
      /\ rounds'[r].winner = rounds[r].winner
      /\ rounds'[r].winning_bid = rounds[r].winning_bid
      /\ rounds'[r].clearing_rule = rounds[r].clearing_rule
      /\ rounds'[r].commit_deadline = rounds[r].commit_deadline
      /\ rounds'[r].reveal_round = rounds[r].reveal_round
      /\ \A q \in RoundIds \ {r} : rounds'[q] = rounds[q]
  BY <1>1 DEF RoundRecords, IInv, Types
<1>3. /\ BiddersOf(r) \subseteq Bidders
      /\ BiddersOf(r)' = BiddersOf(r)
  BY <1>2, IndexedBidders DEF BiddersOf, IInv
<1>4. IndexOk(r)'
  BY <1>2, <1>3, MarkSettledEffect DEF IInv, RoundOk, IndexOk
<1>5. ASSUME NEW b \in Bidders
      PROVE  (MoneyOk(r, b) /\ RevealOk(r, b))'
  <2>1. MoneyOk(r, b) /\ RevealOk(r, b)
    BY DEF IInv, RoundOk
  <2>2. vault'[r][b] = 0 /\ now' = now /\ beacon' = beacon
    OBVIOUS
  <2>3. CASE b \in BiddersOf(r)
    <3>1. MoneyOk(r, b)'
      BY <2>1, <2>2, <2>3, MarkSettledEffect DEF MoneyOk
    <3>2. WithinEscrow(r, b, bids[r][b].revealed_value)'
            <=> WithinEscrow(r, b, bids[r][b].revealed_value)
      BY <2>3, MarkSettledEffect DEF WithinEscrow
    <3>3. RevealOk(r, b)'
      BY <1>2, <2>1, <2>2, <2>3, <3>2, MarkSettledEffect DEF RevealOk, Published
    <3>. QED
      BY <3>1, <3>3
  <2>4. CASE b \notin BiddersOf(r)
    <3>1. bids[r][b] = NoBid /\ bids'[r][b] = NoBid
      BY <2>4, MarkSettledEffect, NothingSettled
    <3>2. /\ NoBid.commitment = None /\ NoBid.escrow = 0 /\ NoBid.revealed_value = None
          /\ NoBid.revealed_nonce = None /\ NoBid.valid = FALSE /\ NoBid.settled = FALSE
      BY DEF NoBid
    <3>. QED
      BY <2>2, <3>1, <3>2 DEF MoneyOk, RevealOk, HasBid
  <2>. QED
    BY <2>3, <2>4
<1>6. Candidates(r)' = Candidates(r)
  <2>1. DOMAIN rounds'[r].bidders = DOMAIN rounds[r].bidders
    BY <1>2
  <2>2. \A i \in DOMAIN rounds[r].bidders : rounds[r].bidders[i] \in BiddersOf(r)
    BY DEF BiddersOf, Range
  <2>. QED
    BY <1>2, <1>3, <2>1, <2>2, MarkSettledEffect DEF Candidates
<1>7. PhaseOk(r)'
  <2>1. PhaseOk(r)
    BY DEF IInv, RoundOk
  <2>2. \A b \in BiddersOf(r) : bids'[r][b].settled
    BY MarkSettledEffect
  <2>. QED
    BY <1>1, <1>2, <1>3, <1>6, <2>1, <2>2 DEF PhaseOk, Final, Decided, TimeOfRound, Published
<1>8. OutcomeOk(r)'
  <2>1. CASE st = "Voided"
    BY <1>2, <2>1 DEF OutcomeOk, Decided
  <2>2. CASE st = "Settled"
    <3>1. PICK i \in Candidates(r) :
            /\ FirstBest(r, i)
            /\ rounds[r].winner = rounds[r].bidders[i]
            /\ rounds[r].winning_bid = ValueAt(r, i)
      BY <2>2 DEF IInv, RoundOk, OutcomeOk, Decided
    <3>2. \A j \in Candidates(r) : rounds[r].bidders[j] \in BiddersOf(r)
      BY DEF Candidates, BiddersOf, Range
    <3>3. \A j \in Candidates(r) : ValueAt(r, j)' = ValueAt(r, j)
      BY <1>2, <3>2, MarkSettledEffect DEF ValueAt
    <3>4. FirstBest(r, i)'
      BY <1>2, <1>6, <3>1, <3>3 DEF FirstBest, Better
    <3>. QED
      BY <1>2, <1>6, <3>1, <3>3, <3>4 DEF OutcomeOk
  <2>. QED
    BY <1>1, <2>1, <2>2
<1>9. RoundOk(r)'
  BY <1>4, <1>5, <1>7, <1>8 DEF RoundOk
<1>. QED
  BY <1>2, <1>9, MarkSettledEffect, OneRound

\* refund_all empties every escrow of an unpaid round.
LEMMA RefundEmpties ==
  ASSUME IInv, NEW r \in RoundIds, rounds[r].status \notin Final, RefundAll(r)
  PROVE  /\ \A b \in Bidders : vault'[r][b] = 0
         /\ \A q \in RoundIds \ {r} : vault'[q] = vault[q]
<1>1. /\ vault' = [vault EXCEPT ![r] = [b \in Bidders |-> vault[r][b] - RefundTo(r, b)]]
      /\ vault \in [RoundIds -> [Bidders -> Int]]
  BY DEF RefundAll, IInv, Types
<1>2. ASSUME NEW b \in Bidders
      PROVE  vault[r][b] - RefundTo(r, b) = 0
  <2>1. vault[r][b] = bids[r][b].escrow /\ vault[r][b] \in Int
    BY <1>1, NothingSettled
  <2>2. b \notin BiddersOf(r) => bids[r][b].escrow = 0
    BY NothingSettled DEF NoBid
  <2>. QED
    BY <2>1, <2>2, NothingSettled DEF RefundTo
<1>. QED
  BY <1>1, <1>2

LEMMA RefundingIInv ==
  ASSUME IInv, NEW r \in RoundIds, ClearToVoid(r) \/ Void(r)
  PROVE  IInv'
<1>1. Types'
  BY RefundingTypes DEF IInv
<1>2. /\ rounds' = [rounds EXCEPT ![r].status = "Voided"]
      /\ RefundAll(r)
      /\ bids' = MarkSettled(r)
      /\ UNCHANGED <<now, beacon>>
      /\ rounds[r].status \in {"Open", "Revealing"}
  BY DEF ClearToVoid, Void, RefundAll, ClearAllowed, VoidAllowed
<1>3. rounds[r].status \notin Final /\ rounds[r].status # "Absent"
  BY <1>2 DEF Final
<1>4. Candidates(r) = {}
  <2>1. CASE Void(r)
    <3>1. \A b \in Bidders : bids[r][b].revealed_value = None
      BY <2>1 DEF Void, VoidAllowed, IInv, RoundOk, PhaseOk
    <3>2. \A i \in DOMAIN rounds[r].bidders : rounds[r].bidders[i] \in Bidders
      BY DEF IInv, Types, RoundRecords
    <3>. QED
      BY <3>1, <3>2 DEF Candidates
  <2>2. CASE ClearToVoid(r)
    BY <2>2 DEF ClearToVoid
  <2>. QED
    BY <2>1, <2>2
<1>5. /\ \A b \in Bidders : vault'[r][b] = 0
      /\ \A q \in RoundIds \ {r} : vault'[q] = vault[q]
  BY <1>2, <1>3, RefundEmpties
<1>. QED
  BY <1>1, <1>2, <1>3, <1>4, <1>5, PaidOut DEF Final

\* The winner of a cleared round: a listed bidder whose valid bid is the winning
\* bid and is covered by its escrow.
LEMMA WinnerFacts ==
  ASSUME IInv, NEW r \in RoundIds, rounds[r].status \in Decided
  PROVE  /\ rounds[r].winner \in Bidders
         /\ rounds[r].winner \in BiddersOf(r)
         /\ rounds[r].winning_bid \in Int
         /\ rounds[r].winning_bid > 0
         /\ rounds[r].winning_bid <= bids[r][rounds[r].winner].escrow
<1>1. PICK i \in Candidates(r) :
        rounds[r].winner = rounds[r].bidders[i] /\ rounds[r].winning_bid = ValueAt(r, i)
  BY DEF IInv, RoundOk, OutcomeOk
<1>2. rounds[r].winner \in Bidders /\ rounds[r].winner \in BiddersOf(r)
  BY <1>1 DEF Candidates, BiddersOf, Range, IInv, Types, RoundRecords
<1>3. /\ bids[r][rounds[r].winner].valid
      /\ bids[r][rounds[r].winner].revealed_value # None
      /\ rounds[r].winning_bid = bids[r][rounds[r].winner].revealed_value
  BY <1>1 DEF Candidates, ValueAt
<1>4. WithinEscrow(r, rounds[r].winner, rounds[r].winning_bid)
  BY <1>2, <1>3 DEF IInv, RoundOk, RevealOk
<1>. QED
  BY <1>2, <1>4 DEF WithinEscrow, IInv, Types, RoundRecords

LEMMA SettleTypes ==
  ASSUME IInv, NEW r \in RoundIds, Settle(r)
  PROVE  Types'
<1>1. rounds[r].winner # None /\ Types
  BY WinnerFacts, RoundAssumption DEF Settle, Decided, IInv, Accounts
<1>2. /\ balance' = [a \in Accounts |->
                       balance[a] + BidderPayout(r, a) + OperatorPayout(r, a)]
      /\ vault' = [vault EXCEPT ![r] = [b \in Bidders |->
           vault[r][b] - BidderPayout(r, b)
             - (IF b = rounds[r].winner THEN OperatorPayout(r, rounds[r].operator) ELSE 0)]]
      /\ bids' = MarkSettled(r)
      /\ rounds' = [rounds EXCEPT ![r].status = "Settled"]
      /\ UNCHANGED <<now, beacon, seals, frozen>>
  BY DEF Settle
<1>3. \A a \in Accounts : BidderPayout(r, a) \in Int /\ OperatorPayout(r, a) \in Int
  BY <1>1, PayoutTypes
<1>4. OperatorPayout(r, rounds[r].operator) \in Int
  BY <1>1 DEF OperatorPayout, Types, RoundRecords
<1>5. balance' \in [Accounts -> Int]
  BY <1>1, <1>2, <1>3 DEF Types
<1>6. vault' \in [RoundIds -> [Bidders -> Int]]
  BY <1>1, <1>2, <1>3, <1>4 DEF Types, Accounts
<1>7. rounds' \in [RoundIds -> RoundRecords]
  <2>1. [rounds[r] EXCEPT !.status = "Settled"] \in RoundRecords
    BY <1>1, RoundUpdates DEF Types, Statuses
  <2>. QED
    BY <1>1, <1>2, <2>1 DEF Types
<1>. QED
  BY <1>1, <1>2, <1>5, <1>6, <1>7, MarkSettledType DEF Types

\* settle empties every escrow of the round: the winner's goes to the operator and
\* back to the winner, each other one back to its bidder.
LEMMA SettleEmpties ==
  ASSUME IInv, NEW r \in RoundIds, Settle(r)
  PROVE  /\ \A b \in Bidders : vault'[r][b] = 0
         /\ \A q \in RoundIds \ {r} : vault'[q] = vault[q]
<1>1. /\ vault' = [vault EXCEPT ![r] = [b \in Bidders |->
           vault[r][b] - BidderPayout(r, b)
             - (IF b = rounds[r].winner THEN OperatorPayout(r, rounds[r].operator) ELSE 0)]]
      /\ vault \in [RoundIds -> [Bidders -> Int]]
      /\ rounds[r].status = "Cleared"
  BY DEF Settle, IInv, Types
<1>2. rounds[r].status \notin Final /\ rounds[r].status \in Decided
  BY <1>1 DEF Final, Decided
<1>3. ASSUME NEW b \in Bidders
      PROVE  vault[r][b] - BidderPayout(r, b)
               - (IF b = rounds[r].winner THEN OperatorPayout(r, rounds[r].operator) ELSE 0)
               = 0
  <2>1. vault[r][b] = bids[r][b].escrow /\ vault[r][b] \in Int
    BY <1>1, <1>2, NothingSettled
  <2>2. b \notin BiddersOf(r) => bids[r][b].escrow = 0
    BY <1>2, NothingSettled DEF NoBid
  <2>3. CASE b = rounds[r].winner
    BY <1>2, <2>1, <2>3, WinnerFacts, NothingSettled
    DEF BidderPayout, OperatorPayout, Surplus, AtLeast
  <2>4. CASE b # rounds[r].winner
    BY <1>2, <2>1, <2>2, <2>4, NothingSettled DEF BidderPayout, RefundTo
  <2>. QED
    BY <2>3, <2>4
<1>. QED
  BY <1>1, <1>3

LEMMA SettleIInv ==
  ASSUME IInv, NEW r \in RoundIds, Settle(r)
  PROVE  IInv'
<1>1. /\ rounds[r].status = "Cleared"
      /\ rounds' = [rounds EXCEPT ![r].status = "Settled"]
      /\ bids' = MarkSettled(r)
      /\ UNCHANGED <<now, beacon>>
  BY DEF Settle
<1>. QED
  BY <1>1, SettleTypes, SettleEmpties, PaidOut DEF Final

LEMMA GetSealIInv ==
  ASSUME IInv, NEW r \in RoundIds, NEW b \in Bidders, GetSeal(r, b)
  PROVE  IInv'
<1>1. Types'
  BY ExtendedSealType DEF GetSeal, IInv, Types
<1>2. UNCHANGED <<now, beacon, rounds, bids, vault>>
  BY DEF GetSeal
<1>3. \A q \in RoundIds : RoundOk(q)'
  BY <1>1, <1>2, Frame DEF IInv, Types
<1>. QED
  BY <1>1, <1>2, <1>3 DEF IInv, BeaconOk, DrandTime

LEMMA NextIInv == IInv /\ [Next]_vars => IInv'
<1>. SUFFICES ASSUME IInv, [Next]_vars PROVE IInv'
  OBVIOUS
<1>1. CASE Environment
  BY <1>1, EnvironmentIInv
<1>2. ASSUME NEW r \in RoundIds, RoundStep(r)
      PROVE  IInv'
  <2>1. CASE \E o \in Operators, s \in Schedules, u \in Rules : CreateRound(r, o, s, u)
    BY <2>1, CreateRoundIInv
  <2>2. ASSUME NEW b \in Bidders, BidderStep(r, b)
        PROVE  IInv'
    BY <2>2, CommitIInv, RevealIInv, GetSealIInv DEF BidderStep
  <2>3. CASE Advance(r)
    BY <2>3, OpenRevealIInv, ClearToWinnerIInv, RefundingIInv, SettleIInv
    DEF Advance, Clear
  <2>. QED
    BY <1>2, <2>1, <2>2, <2>3 DEF RoundStep
<1>3. CASE UNCHANGED vars
  <2>1. Types'
    BY <1>3 DEF vars, IInv, Types
  <2>2. \A q \in RoundIds : RoundOk(q)'
    BY <1>3, <2>1, Frame DEF IInv, Types, vars
  <2>. QED
    BY <1>3, <2>1, <2>2 DEF IInv, BeaconOk, DrandTime, vars
<1>. QED
  BY <1>1, <1>2, <1>3 DEF Next

LEMMA IInvAlways == Spec => []IInv
BY InitIInv, NextIInv, PTL DEF Spec

-----------------------------------------------------------------------------
(* The theorems.                                                            *)

\* Every reachable state has its type, and no bidder index outgrows MAX_BIDDERS.
THEOREM TypeCorrect == Spec => []TypeOK
<1>1. IInv => TypeOK
  BY DEF IInv, Types, RoundOk, IndexOk, TypeOK
<1>. QED
  BY <1>1, IInvAlways, PTL

\* The bidder index lists exactly the accounts with a stored bid, each once, so a
\* payout loop pays every bid once (lib.rs:166-178, 308, 367, 491).
THEOREM IndexCorrect == Spec => []IndexIsExact
<1>1. IInv => IndexIsExact
  BY DEF IInv, RoundOk, IndexOk, IndexIsExact
<1>. QED
  BY <1>1, IInvAlways, PTL

\* The contract holds the escrow of every unsettled bid, and of no other: no round
\* or bidder is ever paid with another bid's money.
THEOREM Solvency == Spec => []EscrowBacked
<1>1. IInv => EscrowBacked
  BY DEF IInv, RoundOk, MoneyOk, EscrowBacked
<1>. QED
  BY <1>1, IInvAlways, PTL

\* No bid is revealed before commits are closed and Drand round R is out.
THEOREM Secrecy == Spec => []SealedUntilR
<1>1. IInv => SealedUntilR
  BY DEF IInv, RoundOk, RevealOk, SealedUntilR
<1>. QED
  BY <1>1, IInvAlways, PTL

\* A recorded reveal is the committed bid, counted exactly if it is positive and
\* within its escrow.
THEOREM Binding == Spec => []RevealBinding
<1>1. ASSUME IInv, NEW r \in RoundIds, NEW b \in Bidders
      PROVE  LET s == bids[r][b] IN
             /\ s.revealed_value # None =>
                  /\ s.commitment = Hash(s.revealed_value, s.revealed_nonce)
                  /\ s.valid <=> (s.revealed_value > 0 /\ s.revealed_value <= s.escrow)
             /\ s.valid => s.revealed_value # None
  BY <1>1 DEF IInv, RoundOk, RevealOk, WithinEscrow
<1>2. IInv => RevealBinding
  BY <1>1 DEF RevealBinding
<1>. QED
  BY <1>2, IInvAlways, PTL

\* The winner of a decided round holds the best valid revealed bid, and was first
\* in the index among the bidders that made it.
THEOREM WinnerCorrect == Spec => []WinnerIsFirstBest
<1>1. ASSUME IInv, NEW r \in RoundIds, rounds[r].status \in Decided
      PROVE  \E i \in Candidates(r) :
               /\ rounds[r].winner = rounds[r].bidders[i]
               /\ rounds[r].winning_bid = ValueAt(r, i)
               /\ \A j \in Candidates(r) :
                    /\ IF rounds[r].clearing_rule = "HighestBid"
                       THEN ValueAt(r, j) <= rounds[r].winning_bid
                       ELSE ValueAt(r, j) >= rounds[r].winning_bid
                    /\ ValueAt(r, j) = rounds[r].winning_bid => i <= j
  <2>1. PICK i \in Candidates(r) :
          /\ FirstBest(r, i)
          /\ rounds[r].winner = rounds[r].bidders[i]
          /\ rounds[r].winning_bid = ValueAt(r, i)
    BY <1>1 DEF IInv, RoundOk, OutcomeOk
  <2>2. \A j \in Candidates(r) : j \in Int /\ ValueAt(r, j) \in Int
    <3>1. rounds[r].bidders \in Seq(Bidders)
      BY <1>1 DEF IInv, Types, RoundRecords
    <3>2. \A j \in Candidates(r) : j \in Int /\ rounds[r].bidders[j] \in Bidders
      BY <3>1 DEF Candidates
    <3>3. \A j \in Candidates(r) : ValueAt(r, j) \in Values
      BY <1>1, <3>2 DEF Candidates, ValueAt, IInv, Types, BidRecords
    <3>. QED
      BY <3>2, <3>3, RoundAssumption
  <2>3. ASSUME NEW j \in Candidates(r)
        PROVE  /\ IF rounds[r].clearing_rule = "HighestBid"
                  THEN ValueAt(r, j) <= ValueAt(r, i)
                  ELSE ValueAt(r, j) >= ValueAt(r, i)
               /\ ValueAt(r, j) = ValueAt(r, i) => i <= j
    <3>1. /\ j < i => Better(rounds[r].clearing_rule, ValueAt(r, i), ValueAt(r, j))
          /\ j > i => ~Better(rounds[r].clearing_rule, ValueAt(r, j), ValueAt(r, i))
      BY <2>1 DEF FirstBest
    <3>2. i \in Int /\ j \in Int /\ ValueAt(r, i) \in Int /\ ValueAt(r, j) \in Int
      BY <2>2
    <3>3. CASE j = i
      BY <3>2, <3>3
    <3>4. CASE j # i
      BY <3>1, <3>2, <3>4 DEF Better
    <3>. QED
      BY <3>3, <3>4
  <2>. QED
    BY <2>1, <2>3
<1>2. IInv => WinnerIsFirstBest
  BY <1>1 DEF WinnerIsFirstBest
<1>. QED
  BY <1>2, IInvAlways, PTL

\* No round with a valid bid on record is ever voided, and a finished round has
\* paid out every bid.
THEOREM EndsProperly == Spec => [](NoValidBidVoided /\ FinalIsPaid)
<1>1. IInv => NoValidBidVoided /\ FinalIsPaid
  BY DEF IInv, RoundOk, PhaseOk, NoValidBidVoided, FinalIsPaid
<1>. QED
  BY <1>1, IInvAlways, PTL
-----------------------------------------------------------------------------
(* What a step may never do.                                                *)

LEMMA TimeMonotone ==
  ASSUME NEW p \in Nat, NEW q \in Nat, p <= q
  PROVE  DrandTime(p) <= DrandTime(q)
<1> DEFINE a == p - 1
           b == q - 1
<1>1. a \in Int /\ b \in Int /\ a <= b
  OBVIOUS
<1>2. drand_genesis \in Nat /\ drand_period \in Nat
  BY NatConstants
<1>3. \A k \in Nat, m, n \in Int :
        k * m \in Int /\ k * n \in Int /\ (m <= n => k * m <= k * n)
  OBVIOUS
<1>. HIDE DEF a, b
<1>4. drand_period * a \in Int /\ drand_period * b \in Int
      /\ drand_period * a <= drand_period * b
  BY ONLY <1>1, <1>2, <1>3
<1>5. drand_genesis + drand_period * a <= drand_genesis + drand_period * b
  BY ONLY <1>2, <1>4
<1>. QED
  BY <1>5 DEF DrandTime, a, b

\* The contract's time of round R is at most Drand's time of the round after it.
LEMMA TimeOfRoundIsNext ==
  ASSUME NEW R \in Nat
  PROVE  TimeOfRound(R) \in Nat /\ TimeOfRound(R) <= DrandTime(R + 1)
<1>1. (R + 1) - 1 = R
  OBVIOUS
<1>2. drand_period * R \in Nat
  BY NatConstants
<1>. QED
  BY <1>1, <1>2, NatConstants DEF TimeOfRound, DrandTime, AtMost

\* A beacon that has produced round R + 1 has reached the time that the contract
\* takes for R, and one that has produced R has reached Drand's time of R.
LEMMA BeaconReached ==
  ASSUME IInv, NEW R \in Nat, R # 0, R <= beacon
  PROVE  DrandTime(R) <= now
<1>1. now \in Nat /\ beacon \in Nat
  BY DEF IInv, Types
<1>2. DrandTime(beacon) <= now
  BY <1>1 DEF IInv, BeaconOk
<1>3. DrandTime(R) <= DrandTime(beacon) /\ DrandTime(R) \in Int /\ DrandTime(beacon) \in Int
  BY <1>1, TimeMonotone, DrandTimeType
<1>. QED
  BY ONLY <1>1, <1>2, <1>3

\* While commits are open Drand is not past R, and not at R if the deadline comes
\* before it.
LEMMA OpenBeforeR ==
  ASSUME IInv, NEW r \in RoundIds, CommitAllowed(r)
  PROVE  /\ ~Published(rounds[r].reveal_round + 1)
         /\ rounds[r].commit_deadline < DrandTime(rounds[r].reveal_round)
              => ~Published(rounds[r].reveal_round)
<1> DEFINE R == rounds[r].reveal_round
<1>1. /\ now \in Nat /\ beacon \in Nat
      /\ rounds[r].reveal_round \in Nat /\ rounds[r].commit_deadline \in Nat
  BY DEF IInv, Types, RoundRecords
<1>2. /\ rounds[r].reveal_round # 0
      /\ rounds[r].commit_deadline < TimeOfRound(rounds[r].reveal_round)
  BY DEF IInv, RoundOk, PhaseOk, CommitAllowed
<1>3. now <= rounds[r].commit_deadline
  BY DEF CommitAllowed
<1>4. ASSUME R + 1 <= beacon PROVE FALSE
  <2>1. TimeOfRound(R) \in Nat /\ TimeOfRound(R) <= DrandTime(R + 1)
    BY <1>1, TimeOfRoundIsNext
  <2>2. DrandTime(R + 1) <= now /\ DrandTime(R + 1) \in Int
    BY <1>1, <1>4, BeaconReached, DrandTimeType
  <2>. QED
    BY <1>1, <1>2, <1>3, <2>1, <2>2
<1>5. ASSUME rounds[r].commit_deadline < DrandTime(R), R <= beacon PROVE FALSE
  <2>1. DrandTime(R) <= now /\ DrandTime(R) \in Int
    BY <1>1, <1>2, <1>5, BeaconReached, DrandTimeType
  <2>. QED
    BY <1>1, <1>3, <1>5, <2>1
<1>. QED
  BY <1>4, <1>5 DEF Published

\* A step that changes a bid's commitment or escrow is a commit to its round.
LEMMA OnlyCommitWrites ==
  ASSUME IInv, [Next]_vars, NEW q \in RoundIds, NEW b \in Bidders,
         BidPlaced(q, b)
  PROVE  CommitAllowed(q) /\ UNCHANGED beacon
         /\ rounds'[q].reveal_round = rounds[q].reveal_round
<1>. USE DEF BidPlaced
<1>1. CASE UNCHANGED bids
  BY <1>1
<1>2. CASE Environment
  BY <1>1, <1>2 DEF Environment, Tick, ProduceRound, Freeze, Thaw
<1>3. ASSUME NEW r \in RoundIds, RoundStep(r)
      PROVE  CommitAllowed(q) /\ UNCHANGED beacon
             /\ rounds'[q].reveal_round = rounds[q].reveal_round
  <2>1. CASE \E o \in Operators, s \in Schedules, u \in Rules : CreateRound(r, o, s, u)
    BY <1>1, <2>1 DEF CreateRound
  <2>2. CASE \E a \in Bidders, s \in Sealings, e \in Escrows : Commit(r, a, s[1], s[2], e)
    <3>1. PICK a \in Bidders, s \in Sealings, e \in Escrows : Commit(r, a, s[1], s[2], e)
      BY <2>2
    <3>2. rounds[r] \in RoundRecords /\ rounds[q] \in RoundRecords
      BY DEF IInv, Types
    <3>3. rounds'[q].reveal_round = rounds[q].reveal_round /\ UNCHANGED beacon
      BY <3>1, <3>2 DEF Commit, IInv, Types, RoundRecords
    <3>4. q = r
      BY <3>1 DEF Commit, IInv, Types
    <3>. QED
      BY <3>1, <3>3, <3>4 DEF Commit
  <2>3. CASE \E a \in Bidders, v \in Values, n \in Nonces : Reveal(r, a, v, n)
    <3>1. PICK a \in Bidders, v \in Values, n \in Nonces : Reveal(r, a, v, n)
      BY <2>3
    <3>2. bids'[q][b].commitment = bids[q][b].commitment
          /\ bids'[q][b].escrow = bids[q][b].escrow
      BY <3>1 DEF Reveal, IInv, Types, BidRecords
    <3>. QED
      BY <3>2
  <2>4. CASE \E a \in Bidders : GetSeal(r, a)
    BY <1>1, <2>4 DEF GetSeal
  <2>5. CASE bids' = MarkSettled(r)
    <3>1. bids'[q][b].commitment = bids[q][b].commitment
          /\ bids'[q][b].escrow = bids[q][b].escrow
      BY <2>5 DEF MarkSettled, IInv, Types, BidRecords
    <3>. QED
      BY <3>1
  <2>6. CASE Advance(r)
    BY <1>1, <2>5, <2>6
    DEF Advance, Clear, OpenReveal, ClearToWinner, ClearToVoid, Settle, Void, RefundAll
  <2>. QED
    BY <1>3, <2>1, <2>2, <2>3, <2>4, <2>6 DEF RoundStep, BidderStep
<1>. QED
  BY <1>1, <1>2, <1>3 DEF Next, vars

\* No bid is placed or changed once Drand is past R, nor once R is out in a round
\* whose commit deadline comes before it.
THEOREM CommitsPrecedeRounds == Spec => CommitsPrecedeNext
<1>1. ASSUME IInv, [Next]_vars, NEW r \in RoundIds, NEW b \in Bidders, BidPlaced(r, b)
      PROVE  /\ ~Published(rounds[r].reveal_round + 1)'
             /\ rounds[r].commit_deadline < DrandTime(rounds[r].reveal_round)
                  => ~Published(rounds[r].reveal_round)'
  BY <1>1, OnlyCommitWrites, OpenBeforeR DEF Published
<1>2. IInv /\ [Next]_vars =>
        [\A r \in RoundIds, b \in Bidders : BidPlaced(r, b) =>
           /\ ~Published(rounds[r].reveal_round + 1)'
           /\ rounds[r].commit_deadline < DrandTime(rounds[r].reveal_round)
                => ~Published(rounds[r].reveal_round)']_vars
  BY <1>1
<1>. QED
  BY <1>2, IInvAlways, PTL DEF Spec, CommitsPrecedeNext

\* No step touches the record or the bids of a settled or voided round.
LEMMA FinalIsLeftAlone ==
  ASSUME IInv, [Next]_vars, NEW r \in RoundIds, rounds[r].status \in Final
  PROVE  rounds'[r] = rounds[r] /\ bids'[r] = bids[r]
<1>1. CASE Environment \/ UNCHANGED vars
  BY <1>1 DEF Environment, Tick, ProduceRound, Freeze, Thaw, vars
<1>2. ASSUME NEW q \in RoundIds, RoundStep(q)
      PROVE  rounds'[r] = rounds[r] /\ bids'[r] = bids[r]
  <2>1. CASE \E o \in Operators, s \in Schedules, u \in Rules : CreateRound(q, o, s, u)
    BY <2>1 DEF CreateRound, Final, IInv, Types
  <2>2. CASE \E b \in Bidders, s \in Sealings, e \in Escrows : Commit(q, b, s[1], s[2], e)
    BY <2>2 DEF Commit, CommitAllowed, Final, IInv, Types
  <2>3. CASE \E b \in Bidders, v \in Values, n \in Nonces : Reveal(q, b, v, n)
    BY <2>3 DEF Reveal, Final, IInv, Types
  <2>4. CASE \E b \in Bidders : GetSeal(q, b)
    BY <2>4 DEF GetSeal
  <2>5. CASE OpenReveal(q)
    BY <2>5 DEF OpenReveal, OpenAllowed, Final, IInv, Types
  <2>6. CASE ClearToWinner(q)
    BY <2>6 DEF ClearToWinner, ClearAllowed, Final, IInv, Types
  <2>7. CASE ClearToVoid(q) \/ Settle(q) \/ Void(q)
    <3>1. /\ rounds[q].status \notin Final
          /\ bids' = MarkSettled(q)
          /\ \E st \in Statuses : rounds' = [rounds EXCEPT ![q].status = st]
      BY <2>7 DEF ClearToVoid, ClearAllowed, Settle, Void, VoidAllowed, RefundAll,
                  Final, Statuses
    <3>. QED
      BY <3>1 DEF MarkSettled, IInv, Types
  <2>. QED
    BY <1>2, <2>1, <2>2, <2>3, <2>4, <2>5, <2>6, <2>7
    DEF RoundStep, BidderStep, Advance, Clear
<1>. QED
  BY <1>1, <1>2 DEF Next

\* A step takes no reveal and no payment mark back.
LEMMA MarksStay ==
  ASSUME IInv, [Next]_vars, NEW r \in RoundIds, NEW b \in Bidders
  PROVE  /\ bids[r][b].settled => bids'[r][b].settled
         /\ bids[r][b].revealed_value # None
              => bids'[r][b].revealed_value = bids[r][b].revealed_value
<1>1. CASE rounds[r].status \in Final
  BY <1>1, FinalIsLeftAlone
<1>2. CASE rounds[r].status \notin Final
  <2>1. ~bids[r][b].settled
    BY <1>2, NothingSettled
  <2>2. ASSUME bids[r][b].revealed_value # None
        PROVE  bids'[r][b].revealed_value = bids[r][b].revealed_value
    <3>1. rounds[r].status \notin {"Absent", "Open"}
      BY <2>2 DEF IInv, RoundOk, PhaseOk
    <3>2. CASE Environment \/ UNCHANGED vars
      BY <3>2 DEF Environment, Tick, ProduceRound, Freeze, Thaw, vars
    <3>3. ASSUME NEW q \in RoundIds, RoundStep(q)
          PROVE  bids'[r][b].revealed_value = bids[r][b].revealed_value
      <4>1. CASE \E o \in Operators, s \in Schedules, u \in Rules : CreateRound(q, o, s, u)
        BY <4>1 DEF CreateRound
      <4>2. CASE \E a \in Bidders, s \in Sealings, e \in Escrows : Commit(q, a, s[1], s[2], e)
        BY <3>1, <4>2 DEF Commit, CommitAllowed, IInv, Types
      <4>3. CASE \E a \in Bidders, v \in Values, n \in Nonces : Reveal(q, a, v, n)
        BY <2>2, <4>3 DEF Reveal, RevealMatches, IInv, Types
      <4>4. CASE \E a \in Bidders : GetSeal(q, a)
        BY <4>4 DEF GetSeal
      <4>5. CASE bids' = MarkSettled(q)
        BY <4>5 DEF MarkSettled, IInv, Types, BidRecords
      <4>6. CASE Advance(q)
        BY <4>5, <4>6
        DEF Advance, Clear, OpenReveal, ClearToWinner, ClearToVoid, Settle, Void, RefundAll
      <4>. QED
        BY <3>3, <4>1, <4>2, <4>3, <4>4, <4>6 DEF RoundStep, BidderStep
    <3>. QED
      BY <3>2, <3>3 DEF Next
  <2>. QED
    BY <2>1, <2>2
<1>. QED
  BY <1>1, <1>2

\* A settled or voided round stays as it is, and reveals and payments are for good.
THEOREM FinalityHolds == Spec => FinalIsFinal
<1>1. ASSUME IInv, [Next]_vars
      PROVE  \A r \in RoundIds :
               /\ rounds[r].status \in Final => rounds'[r] = rounds[r] /\ bids'[r] = bids[r]
               /\ \A b \in Bidders :
                    /\ bids[r][b].settled => bids'[r][b].settled
                    /\ bids[r][b].revealed_value # None
                         => bids'[r][b].revealed_value = bids[r][b].revealed_value
  BY <1>1, FinalIsLeftAlone, MarksStay, Zenon
<1>. QED
  BY <1>1, IInvAlways, PTL DEF Spec, FinalIsFinal

-----------------------------------------------------------------------------
(* Seal lifetimes.                                                          *)

\* The lifetimes fit into u32, as the contract's constants do.
LifetimesFit ==
  PERSISTENT_BUMP + POST_REVEAL_SEAL_BUFFER < U32_RANGE /\ TEMP_THRESHOLD < U32_RANGE

\* No round open for bids has its reveal deadline further ahead than the longest
\* lifetime; create_round does not check it.
DeadlinesNear ==
  \A r \in RoundIds :
    rounds[r].status = "Open" => rounds[r].reveal_deadline - now <= PERSISTENT_BUMP

\* Who has not bid has no seal; the seal of every bid that may still be revealed lives
\* until the deadline.
SealsOk(r) ==
  /\ \A b \in Bidders \ BiddersOf(r) : seals[r][b] = NoSeal
  /\ rounds[r].status \in {"Open", "Revealing"} =>
       /\ rounds[r].reveal_deadline > 0
       /\ \A b \in BiddersOf(r) : seals[r][b].live_until >= rounds[r].reveal_deadline

SealInv == \A r \in RoundIds : SealsOk(r)

\* A new lifetime reaches the deadline if the cap does.
LEMMA SealTtlReaches ==
  ASSUME Types, LifetimesFit, NEW d \in Nat, d - now <= PERSISTENT_BUMP
  PROVE  SealTtl(d) \in Nat /\ now + SealTtl(d) >= d
<1> DEFINE left == AtLeast(d - now, 0)
           ledgers == AtLeast(left + POST_REVEAL_SEAL_BUFFER, TEMP_THRESHOLD)
<1>1. /\ now \in Nat /\ U32_RANGE \in Nat \ {0} /\ PERSISTENT_BUMP \in Nat
      /\ POST_REVEAL_SEAL_BUFFER \in Nat /\ TEMP_THRESHOLD \in Nat
  BY RoundAssumption DEF Types
<1>2. left \in Nat /\ left >= d - now /\ left <= PERSISTENT_BUMP
  BY <1>1 DEF AtLeast
<1> HIDE DEF left
<1>3. ledgers \in Nat /\ ledgers >= left /\ ledgers < U32_RANGE
  BY <1>1, <1>2 DEF AtLeast, LifetimesFit
<1> HIDE DEF ledgers
<1>4. ledgers % U32_RANGE = ledgers
  BY <1>1, <1>3
<1>5. SealTtl(d) = AtMost(ledgers % U32_RANGE, PERSISTENT_BUMP)
  BY DEF SealTtl, ledgers, left
<1> QED
  BY <1>1, <1>2, <1>3, <1>4, <1>5 DEF AtMost

\* An extension never shortens a life.
LEMMA ExtendedSealLonger ==
  ASSUME Types, NEW r \in RoundIds, NEW b \in Bidders
  PROVE  ExtendedSeal(r, b).live_until >= seals[r][b].live_until
<1>1. seals[r][b] \in SealRecords /\ rounds[r].reveal_deadline \in Nat /\ now \in Nat
  BY DEF Types, RoundRecords
<1>2. SealTtl(rounds[r].reveal_deadline) \in Nat
  BY <1>1, SealTtlType
<1>3. seals[r][b].live_until \in Nat
  BY <1>1 DEF SealRecords
<1>4. \A n : [seals[r][b] EXCEPT !.live_until = n].live_until = n
  BY <1>1 DEF SealRecords
<1> QED
  BY <1>1, <1>2, <1>3, <1>4 DEF ExtendedSeal

\* SealsOk(r) survives any step that leaves the round's index and deadline alone and
\* shortens no life.
LEMMA SealsKept ==
  ASSUME IInv, IInv', NEW r \in RoundIds, SealsOk(r),
         rounds'[r].bidders = rounds[r].bidders,
         rounds'[r].reveal_deadline = rounds[r].reveal_deadline,
         rounds'[r].status \in {"Open", "Revealing"}
           => rounds[r].status \in {"Open", "Revealing"},
         \A b \in Bidders : \/ seals'[r][b] = seals[r][b]
                            \/ /\ seals[r][b] # NoSeal
                               /\ seals'[r][b].live_until >= seals[r][b].live_until
  PROVE  SealsOk(r)'
<1>1. BiddersOf(r)' = BiddersOf(r) /\ BiddersOf(r) \subseteq Bidders
  BY IndexedBidders DEF IInv, BiddersOf
<1>2. /\ rounds[r].reveal_deadline \in Nat
      /\ \A b \in Bidders : seals[r][b].live_until \in Nat /\ seals'[r][b].live_until \in Nat
  BY DEF IInv, Types, SealRecords, RoundRecords
<1> QED
  BY <1>1, <1>2 DEF SealsOk

LEMMA CreateRoundSeals ==
  ASSUME IInv, IInv', SealInv, NEW q \in RoundIds, NEW o \in Operators, NEW s \in Schedules,
         NEW u \in Rules, CreateRound(q, o, s, u)
  PROVE  SealInv'
<1> SUFFICES ASSUME NEW r \in RoundIds PROVE SealsOk(r)'
  BY DEF SealInv
<1>1. SealsOk(r) /\ UNCHANGED seals
  BY DEF SealInv, CreateRound
<1>2. CASE q = r
  <2>1. /\ rounds'[r].reveal_deadline = s[3] /\ rounds'[r].bidders = <<>>
        /\ s[3] > TimeOfRound(s[1]) /\ rounds[r].status = "Absent"
    BY <1>2 DEF CreateRound, ScheduleAccepted, IInv, Types
  <2>2. s[1] \in Nat /\ s[3] \in Nat /\ TimeOfRound(s[1]) \in Nat
    BY RoundAssumption DEF TimeOfRound, AtMost
  <2>3. BiddersOf(r)' = {}
    BY <2>1 DEF BiddersOf, Range
  <2>4. \A b \in Bidders : b \notin BiddersOf(r)
    BY <2>1 DEF IInv, RoundOk, PhaseOk, IndexOk
  <2> QED
    BY <1>1, <2>1, <2>2, <2>3, <2>4 DEF SealsOk
<1>3. CASE q # r
  BY <1>1, <1>3, SealsKept DEF CreateRound, IInv, Types
<1> QED
  BY <1>2, <1>3

LEMMA CommitSeals ==
  ASSUME LifetimesFit, DeadlinesNear, IInv, IInv', SealInv, NEW q \in RoundIds,
         NEW b \in Bidders, NEW s \in Sealings, NEW e \in Escrows,
         Commit(q, b, s[1], s[2], e)
  PROVE  SealInv'
<1> SUFFICES ASSUME NEW r \in RoundIds PROVE SealsOk(r)'
  BY DEF SealInv
<1>1. SealsOk(r) /\ Types
  BY DEF SealInv, IInv
<1>2. CASE q # r
  <2>1. rounds'[r] = rounds[r] /\ seals'[r] = seals[r]
    BY <1>1, <1>2 DEF Commit, Types
  <2> QED
    BY <1>1, <2>1, SealsKept
<1>3. CASE q = r
  <2>1. rounds[r] \in RoundRecords /\ rounds[r].reveal_deadline \in Nat
        /\ rounds[r].bidders \in Seq(Bidders)
    BY <1>1 DEF Types, RoundRecords
  <2>2. /\ rounds[r].status = "Open" /\ rounds[r].reveal_deadline > 0
        /\ rounds' = [rounds EXCEPT ![r].bidders = IndexWith(r, b)]
    BY <1>1, <1>3 DEF Commit, CommitAllowed, SealsOk
  <2>3. /\ rounds'[r].reveal_deadline = rounds[r].reveal_deadline
        /\ rounds'[r].bidders = IndexWith(r, b)
    BY <1>1, <2>1, <2>2 DEF Types, RoundRecords
  <2>4. BiddersOf(r)' = BiddersOf(r) \cup {b}
    <3>1. IsInjective(rounds[r].bidders) /\ (HasBid(r, b) <=> b \in BiddersOf(r))
      BY DEF IInv, RoundOk, IndexOk
    <3> QED
      BY <2>1, <2>3, <3>1, PushFresh DEF IndexWith, BiddersOf
  <2>5. \A a \in Bidders \ {b} : seals'[r][a] = seals[r][a]
    BY <1>1, <1>3 DEF Commit, Types
  <2>6. seals'[r][b].live_until =
          IF SealLive(r, b) THEN ExtendedSeal(r, b).live_until
          ELSE now + SealTtl(rounds[r].reveal_deadline)
    BY <1>1, <1>3 DEF Commit, Types
  <2>7. seals'[r][b].live_until >= rounds[r].reveal_deadline
    <3>1. CASE ~SealLive(r, b)
      BY <1>1, <2>1, <2>2, <2>6, <3>1, SealTtlReaches DEF DeadlinesNear
    <3>2. CASE SealLive(r, b)
      <4>1. b \in BiddersOf(r)
        BY <1>1, <3>2 DEF SealLive, SealsOk
      <4>2. seals[r][b].live_until >= rounds[r].reveal_deadline
        BY <1>1, <2>2, <4>1 DEF SealsOk
      <4>3. seals'[r][b].live_until >= seals[r][b].live_until
        BY <1>1, <2>6, <3>2, ExtendedSealLonger
      <4>4. seals[r][b].live_until \in Nat /\ seals'[r][b].live_until \in Nat
        BY DEF IInv, Types, SealRecords
      <4> QED
        BY <2>1, <4>2, <4>3, <4>4
    <3> QED
      BY <3>1, <3>2
  <2>8. BiddersOf(r) \subseteq Bidders
    BY <1>1, IndexedBidders
  <2> QED
    BY <1>1, <2>2, <2>3, <2>4, <2>5, <2>7, <2>8 DEF SealsOk
<1> QED
  BY <1>2, <1>3

\* An extension of a live seal, or none.
LEMMA ExtendedOrKept ==
  ASSUME Types, NEW r \in RoundIds, NEW b \in Bidders
  PROVE  \/ ExtendedSeal(r, b) = seals[r][b]
         \/ /\ seals[r][b] # NoSeal
            /\ ExtendedSeal(r, b).live_until >= seals[r][b].live_until
BY ExtendedSealLonger DEF ExtendedSeal, SealLive

LEMMA NextSealInv ==
  ASSUME LifetimesFit, DeadlinesNear, IInv, IInv', SealInv, [Next]_vars
  PROVE  SealInv'
<1>1. Types
  BY DEF IInv
<1>2. CASE UNCHANGED <<rounds, seals>>
  BY <1>2 DEF SealInv, SealsOk, BiddersOf
<1>3. ASSUME NEW q \in RoundIds, RoundStep(q) PROVE SealInv'
  <2>1. ASSUME NEW st \in Statuses, NEW w, NEW v,
               \/ rounds' = [rounds EXCEPT ![q].status = st]
               \/ rounds' = [rounds EXCEPT ![q] =
                    [@ EXCEPT !.winner = w, !.winning_bid = v, !.status = st]],
               st \notin {"Open", "Revealing"}, UNCHANGED seals
        PROVE  SealInv'
    <3> SUFFICES ASSUME NEW r \in RoundIds PROVE SealsOk(r)'
      BY DEF SealInv
    <3>1. /\ rounds'[r].bidders = rounds[r].bidders
          /\ rounds'[r].reveal_deadline = rounds[r].reveal_deadline
          /\ rounds'[r].status \in {rounds[r].status, st}
      <4>1. rounds[r] \in RoundRecords /\ rounds[q] \in RoundRecords
        BY <1>1 DEF Types
      <4>2. CASE q # r
        BY <1>1, <2>1, <4>2 DEF Types
      <4>3. CASE q = r /\ rounds' = [rounds EXCEPT ![q].status = st]
        BY <1>1, <4>1, <4>3 DEF Types, RoundRecords
      <4>4. CASE q = r /\ rounds' = [rounds EXCEPT ![q] =
                   [@ EXCEPT !.winner = w, !.winning_bid = v, !.status = st]]
        <5>1. rounds'[r] = [rounds[r] EXCEPT !.winner = w, !.winning_bid = v, !.status = st]
          BY <1>1, <4>4 DEF Types
        <5> QED
          BY <4>1, <5>1 DEF RoundRecords
      <4> QED
        BY <2>1, <4>2, <4>3, <4>4
    <3> QED
      BY <2>1, <3>1, SealsKept DEF SealInv
  <2>2. CASE \E o \in Operators, s \in Schedules, u \in Rules : CreateRound(q, o, s, u)
    BY <2>2, CreateRoundSeals
  <2>3. CASE \E b \in Bidders, s \in Sealings, e \in Escrows : Commit(q, b, s[1], s[2], e)
    BY <2>3, CommitSeals
  <2>4. CASE \E b \in Bidders, v \in Values, n \in Nonces : Reveal(q, b, v, n)
    BY <1>2, <2>4 DEF Reveal
  <2>5. ASSUME NEW b \in Bidders, GetSeal(q, b) PROVE SealInv'
    <3> SUFFICES ASSUME NEW r \in RoundIds PROVE SealsOk(r)'
      BY DEF SealInv
    <3>1. /\ rounds' = rounds
          /\ \A a \in Bidders :
               seals'[r][a] = IF r = q /\ a = b THEN ExtendedSeal(q, b) ELSE seals[r][a]
      BY <1>1, <2>5 DEF GetSeal, Types
    <3> QED
      BY <1>1, <3>1, ExtendedOrKept, SealsKept DEF SealInv
  <2>6. CASE OpenReveal(q)
    <3> SUFFICES ASSUME NEW r \in RoundIds PROVE SealsOk(r)'
      BY DEF SealInv
    <3>1. /\ rounds'[r].bidders = rounds[r].bidders
          /\ rounds'[r].reveal_deadline = rounds[r].reveal_deadline
          /\ rounds'[r].status \in {"Open", "Revealing"}
               => rounds[r].status \in {"Open", "Revealing"}
      <4>1. rounds[r] \in RoundRecords
        BY <1>1 DEF Types
      <4> QED
        BY <1>1, <2>6, <4>1 DEF OpenReveal, OpenAllowed, Types, RoundRecords
    <3>2. \A a \in Bidders : seals'[r][a] \in {seals[r][a], ExtendedSeal(r, a)}
      BY <1>1, <2>6 DEF OpenReveal, Types
    <3> QED
      BY <1>1, <3>1, <3>2, ExtendedOrKept, SealsKept DEF SealInv
  <2>7. CASE ClearToWinner(q)
    BY <2>1, <2>7 DEF ClearToWinner, Statuses
  <2>8. CASE ClearToVoid(q) \/ Settle(q) \/ Void(q)
    BY <2>1, <2>8 DEF ClearToVoid, Settle, Void, Statuses
  <2> QED
    BY <1>3, <2>2, <2>3, <2>4, <2>5, <2>6, <2>7, <2>8 DEF RoundStep, BidderStep, Advance, Clear
<1>4. CASE Environment \/ UNCHANGED vars
  BY <1>2, <1>4 DEF Environment, Tick, ProduceRound, Freeze, Thaw, vars
<1> QED
  BY <1>3, <1>4 DEF Next

\* If no round may be opened for longer than the longest lifetime, every ciphertext can
\* be read until its reveal deadline (docs/TECH_DESIGN.md:71): that create_round does
\* not check this is the only way to lose one.
THEOREM SealsStay ==
  ASSUME LifetimesFit
  PROVE  Spec /\ []DeadlinesNear => []SealsOutliveReveal
<1>1. Init => SealInv
  BY DEF Init, SealInv, SealsOk, NoRound, BiddersOf, Range
<1>2. DeadlinesNear /\ IInv /\ IInv' /\ SealInv /\ [Next]_vars => SealInv'
  BY NextSealInv
<1>3. IInv /\ SealInv => SealsOutliveReveal
  <2> SUFFICES ASSUME IInv, SealInv, NEW r \in RoundIds, NEW b \in BiddersOf(r),
                      rounds[r].status \in {"Open", "Revealing"},
                      now <= rounds[r].reveal_deadline
               PROVE  SealLive(r, b)
    BY DEF SealsOutliveReveal
  <2>1. /\ rounds[r].reveal_deadline > 0 /\ seals[r][b].live_until >= rounds[r].reveal_deadline
    BY DEF SealInv, SealsOk
  <2>2. b \in Bidders
    BY IndexedBidders DEF IInv
  <2>3. now \in Nat /\ rounds[r].reveal_deadline \in Nat /\ seals[r][b].live_until \in Nat
    BY <2>2 DEF IInv, Types, RoundRecords, SealRecords
  <2>4. seals[r][b] # NoSeal
    BY <2>1, <2>3 DEF NoSeal
  <2> QED
    BY <2>1, <2>3, <2>4 DEF SealLive
<1> QED
  BY <1>1, <1>2, <1>3, IInvAlways, PTL DEF Spec

-----------------------------------------------------------------------------
(* Money.  The vault and the balances are sums over all bids and over all    *)
(* rounds: a step moves one summand of one sum by what it moves in another.  *)

LEMMA FiniteRounds == IsFiniteSet(RoundIds)
<1>1. MaxRounds \in Int /\ 1 \in Int BY RoundAssumption
<1>2. IsFiniteSet(1 .. MaxRounds) BY <1>1, FS_Interval
<1> QED BY <1>2 DEF RoundIds

\* No escrow is negative, and what a round owes is what the contract holds of it.
LEMMA VaultFacts ==
  ASSUME IInv, NEW r \in RoundIds
  PROVE  /\ \A b \in Bidders : vault[r][b] \in Int /\ vault[r][b] >= 0
         /\ Unsettled(r) \subseteq Bidders
         /\ \A b \in Unsettled(r) : vault[r][b] = bids[r][b].escrow
<1>1. ASSUME NEW b \in Bidders PROVE vault[r][b] \in Int /\ vault[r][b] >= 0
  <2>1. MoneyOk(r, b) /\ vault[r][b] \in Int BY DEF IInv, RoundOk, Types
  <2>2. HasBid(r, b) \/ bids[r][b].escrow = 0 BY DEF HasBid, NoBid
  <2>3. bids[r][b].escrow \in Int BY DEF IInv, Types, BidRecords
  <2> QED BY <2>1, <2>2, <2>3 DEF MoneyOk
<1>2. Unsettled(r) \subseteq Bidders BY IndexedBidders DEF IInv, Unsettled
<1>3. \A b \in Unsettled(r) : vault[r][b] = bids[r][b].escrow
  BY <1>2 DEF Unsettled, IInv, RoundOk, MoneyOk
<1> QED BY <1>1, <1>2, <1>3

\* What the contract holds, bid by bid.
Holdings == [rb \in RoundIds \X Bidders |-> vault[rb[1]][rb[2]]]

LEMMA HoldingsFacts ==
  ASSUME IInv
  PROVE  /\ IsFiniteSet(RoundIds \X Bidders)
         /\ Ints(Holdings, RoundIds \X Bidders)
         /\ \A rb \in RoundIds \X Bidders : Holdings[rb] >= 0
         /\ \A q \in RoundIds, b \in Bidders : Holdings[<<q, b>>] = vault[q][b]
         /\ ContractBalance = SumFunctionOnSet(Holdings, RoundIds \X Bidders)
<1>1. IsFiniteSet(RoundIds \X Bidders) BY FiniteRounds, RoundAssumption, FS_Product
<1>2. \A q \in RoundIds : \A b \in Bidders : vault[q][b] \in Int /\ vault[q][b] >= 0
  BY VaultFacts
<1>3. \A q \in RoundIds, b \in Bidders : Holdings[<<q, b>>] = vault[q][b] BY DEF Holdings
<1>4. \A rb \in RoundIds \X Bidders : Holdings[rb] \in Int /\ Holdings[rb] >= 0
  BY <1>2 DEF Holdings
<1>5. ContractBalance = SumFunctionOnSet(Holdings, RoundIds \X Bidders)
  BY DEF ContractBalance, SumFunction, Holdings
<1> QED BY <1>1, <1>3, <1>4, <1>5 DEF Ints

\* One token balance covers what any one round still owes.
LEMMA OwedIsHeld ==
  ASSUME IInv, NEW r \in RoundIds
  PROVE  EscrowTotal(r, Unsettled(r)) <= ContractBalance
<1>1. PICK E : E = [b \in Bidders |-> bids[r][b].escrow] OBVIOUS
<1>2. PICK U : U = Unsettled(r) OBVIOUS
<1>3. PICK V : V = Holdings OBVIOUS
<1>4. U \subseteq Bidders /\ IsFiniteSet(U) BY <1>2, VaultFacts, RoundAssumption, FS_Subset
<1>5. \A b \in U : E[b] \in Int /\ V[<<r, b>>] = E[b]
  BY <1>1, <1>2, <1>3, <1>4, VaultFacts, HoldingsFacts
<1>6. Ints(E, U) BY <1>5 DEF Ints
<1>7. SumFunctionOnSet(V, {r} \X U) = SumFunctionOnSet(E, U)
  <2>1. \A b \in U : V[<<r, b>>] = E[b] BY <1>5
  <2>2. IsFiniteSet(U) BY <1>4
  <2> QED BY ONLY <1>6, <2>1, <2>2, SumRow
<1>8. {r} \X U \in SUBSET (RoundIds \X Bidders) BY <1>4
<1>9. SumFunctionOnSet(V, {r} \X U) <= SumFunctionOnSet(V, RoundIds \X Bidders)
  BY <1>3, <1>8, HoldingsFacts, SumMonotone
<1>10. EscrowTotal(r, Unsettled(r)) = SumFunctionOnSet(E, U) BY <1>1, <1>2 DEF EscrowTotal
<1> QED BY <1>3, <1>7, <1>9, <1>10, HoldingsFacts

\* And the escrow that commit gives back before it pulls the new one.
LEMMA OverwriteIsHeld ==
  ASSUME IInv, NEW r \in RoundIds, NEW b \in Bidders, CommitAllowed(r)
  PROVE  bids[r][b].escrow <= ContractBalance
<1>1. PICK V : V = Holdings OBVIOUS
<1>2. PICK x : x = <<r, b>> OBVIOUS
<1>3. V[x] = bids[r][b].escrow /\ V[x] \in Int
  <2>1. vault[r][b] = bids[r][b].escrow BY NothingSettled DEF CommitAllowed, Final
  <2> QED BY <1>1, <1>2, <2>1, HoldingsFacts, VaultFacts
<1>4. IsFiniteSet({x}) /\ Ints(V, {x}) BY <1>3, FS_Singleton DEF Ints
<1>5. SumFunctionOnSet(V, {x}) = V[x]
  <2>1. SumFunctionOnSet(V, {x}) = V[x] + SumFunctionOnSet(V, {x} \ {x}) BY <1>4, SumTakeOut
  <2>2. {x} \ {x} = {} OBVIOUS
  <2>3. SumFunctionOnSet(V, {}) = 0 BY <1>4, SumByChoice
  <2>4. SumFunctionOnSet(V, {x} \ {x}) = 0 BY <2>2, <2>3
  <2> QED BY <1>3, <2>1, <2>4
<1>6. {x} \in SUBSET (RoundIds \X Bidders) BY <1>2
<1>7. SumFunctionOnSet(V, {x}) <= SumFunctionOnSet(V, RoundIds \X Bidders)
  BY <1>1, <1>6, HoldingsFacts, SumMonotone
<1> QED BY <1>1, <1>3, <1>5, <1>7, HoldingsFacts

\* The winner of a cleared round can always be charged from its own escrow, and the
\* contract can always pay what a round owes (lib.rs:355).
THEOREM SettlementCannotFail == Spec => []SettlementFunded
<1>1. ASSUME IInv, NEW r \in RoundIds, rounds[r].status = "Cleared"
      PROVE  /\ rounds[r].winner \in Unsettled(r)
             /\ rounds[r].winning_bid > 0
             /\ rounds[r].winning_bid <= bids[r][rounds[r].winner].escrow
  BY <1>1, WinnerFacts, NothingSettled DEF Decided, Final
<1>2. IInv => SettlementFunded BY <1>1, OwedIsHeld DEF SettlementFunded
<1> QED BY <1>2, IInvAlways, PTL

\* The contract's side of every transfer is covered: the guards on its balance in
\* commit, clear, settle and void never refuse a call.  What can refuse one is the
\* caller's own balance and the token's freezing of an account.
THEOREM TransfersCovered ==
  Spec => [](\A r \in RoundIds :
               /\ EscrowTotal(r, Unsettled(r)) <= ContractBalance
               /\ CommitAllowed(r) =>
                    \A b \in Bidders : bids[r][b].escrow <= ContractBalance)
<1>1. IInv => \A r \in RoundIds :
               /\ EscrowTotal(r, Unsettled(r)) <= ContractBalance
               /\ CommitAllowed(r) =>
                    \A b \in Bidders : bids[r][b].escrow <= ContractBalance
  BY OwedIsHeld, OverwriteIsHeld
<1> QED BY <1>1, IInvAlways, PTL

\* What an account is ahead or behind by a round is a number.
LEMMA NetType ==
  ASSUME Types, NEW r \in RoundIds, NEW a \in Accounts
  PROVE  NetOf(r, a) \in Int
<1>1. rounds[r].winning_bid \in Int BY DEF Types, RoundRecords
<1>2. a \in Bidders => bids[r][a].escrow \in Int BY DEF Types, BidRecords
<1> QED BY <1>1, <1>2 DEF NetOf

\* A step on round r explains the balances after it if it moves every account's
\* balance by what it changes in that account's standing in round r.
LEMMA OneStanding ==
  ASSUME Types, Types', BalancesExplained, NEW r \in RoundIds,
         \A q \in RoundIds \ {r} : rounds'[q] = rounds[q] /\ bids'[q] = bids[q],
         \A a \in Accounts : balance'[a] = balance[a] - NetOf(r, a) + NetOf(r, a)'
  PROVE  BalancesExplained'
<1> SUFFICES ASSUME NEW a \in Accounts
             PROVE  balance'[a] = Funds + SumFunction([q \in RoundIds |-> NetOf(q, a)'])
  BY DEF BalancesExplained
<1>1. PICK F : F = [q \in RoundIds |-> NetOf(q, a)] OBVIOUS
<1>2. PICK H : H = [q \in RoundIds |-> NetOf(q, a)'] OBVIOUS
<1>3. \A q \in RoundIds : NetOf(q, a) \in Int /\ NetOf(q, a)' \in Int
  <2>1. \A q \in RoundIds : NetOf(q, a) \in Int BY NetType
  <2>2. ASSUME NEW q \in RoundIds PROVE NetOf(q, a)' \in Int
    <3>1. rounds'[q].winning_bid \in Int BY DEF Types, RoundRecords
    <3>2. a \in Bidders => bids'[q][a].escrow \in Int BY DEF Types, BidRecords
    <3> QED BY <3>1, <3>2 DEF NetOf
  <2> QED BY <2>1, <2>2
<1>4. Ints(F, RoundIds) /\ Ints(H, RoundIds) BY <1>1, <1>2, <1>3 DEF Ints
<1>5. ASSUME NEW q \in RoundIds \ {r} PROVE H[q] = F[q]
  <2>1. rounds'[q] = rounds[q] /\ bids'[q] = bids[q] OBVIOUS
  <2>2. NetOf(q, a)' = NetOf(q, a) BY <2>1 DEF NetOf
  <2> QED BY <1>1, <1>2, <2>2
<1>6. IsFiniteSet(RoundIds) BY FiniteRounds
<1>7. SumFunctionOnSet(H, RoundIds) = SumFunctionOnSet(F, RoundIds) - F[r] + H[r]
  BY <1>4, <1>5, <1>6, SumUpdate
<1>8. balance[a] = Funds + SumFunctionOnSet(F, RoundIds)
  BY <1>1 DEF BalancesExplained, SumFunction
<1>9. SumFunctionOnSet(F, RoundIds) \in Int BY <1>4, <1>6, SumByChoice
<1>10. /\ F[r] = NetOf(r, a) /\ H[r] = NetOf(r, a)' /\ NetOf(r, a) \in Int /\ NetOf(r, a)' \in Int
       /\ Funds \in Int
  BY <1>1, <1>2, <1>3, RoundAssumption
<1>11. balance'[a] = Funds + SumFunctionOnSet(H, RoundIds)
  <2>1. balance'[a] = balance[a] - NetOf(r, a) + NetOf(r, a)' OBVIOUS
  <2> QED BY <1>7, <1>8, <1>9, <1>10, <2>1
<1> QED BY <1>2, <1>11 DEF SumFunction

LEMMA InitBalances == Init => BalancesExplained
<1> SUFFICES ASSUME Init, NEW a \in Accounts
             PROVE  balance[a] = Funds + SumFunction([r \in RoundIds |-> NetOf(r, a)])
  BY DEF BalancesExplained
<1>1. PICK F : F = [q \in RoundIds |-> NetOf(q, a)] OBVIOUS
<1>2. \A q \in RoundIds : F[q] = 0
  BY <1>1 DEF NetOf, Init, NoRound, NoBid
<1>3. SumFunctionOnSet(F, RoundIds) = 0
  <2>1. IsFiniteSet(RoundIds) BY FiniteRounds
  <2> QED BY <1>2, <2>1, SumZero
<1>4. balance[a] = Funds BY DEF Init
<1> QED BY <1>1, <1>3, <1>4, RoundAssumption DEF SumFunction

\* No money moves, and no round's status becomes Settled.
LEMMA NothingMoves ==
  ASSUME IInv, IInv', BalancesExplained, NEW r \in RoundIds,
         \A q \in RoundIds \ {r} : rounds'[q] = rounds[q] /\ bids'[q] = bids[q],
         balance' = balance,
         \A b \in Bidders : bids'[r][b].escrow = bids[r][b].escrow,
         \/ rounds'[r] = rounds[r]
         \/ rounds[r].status \notin Final /\ rounds'[r].status \notin Final
  PROVE  BalancesExplained'
<1>1. ASSUME NEW a \in Accounts PROVE balance'[a] = balance[a] - NetOf(r, a) + NetOf(r, a)'
  <2>1. NetOf(r, a)' = NetOf(r, a) BY DEF NetOf, Final
  <2>2. NetOf(r, a) \in Int /\ balance[a] \in Int BY NetType DEF IInv, Types
  <2> QED BY <2>1, <2>2
<1> QED BY <1>1, OneStanding DEF IInv

LEMMA CommitBalances ==
  ASSUME IInv, IInv', BalancesExplained, NEW r \in RoundIds, NEW b \in Bidders,
         NEW s \in Sealings, NEW e \in Escrows, Commit(r, b, s[1], s[2], e)
  PROVE  BalancesExplained'
<1>1. /\ rounds[r].status = "Open"
      /\ rounds'[r].status = "Open"
      /\ bids'[r][b].escrow = e
      /\ \A c \in Bidders \ {b} : bids'[r][c] = bids[r][c]
      /\ \A q \in RoundIds \ {r} : rounds'[q] = rounds[q] /\ bids'[q] = bids[q]
      /\ \A a \in Accounts : balance'[a] =
           IF a = b THEN balance[a] + bids[r][b].escrow - e ELSE balance[a]
  BY DEF Commit, CommitAllowed, IInv, Types, RoundRecords
<1>2. e \in Int /\ bids[r][b].escrow \in Int
  BY RoundAssumption DEF IInv, Types, BidRecords
<1>3. ASSUME NEW a \in Accounts PROVE balance'[a] = balance[a] - NetOf(r, a) + NetOf(r, a)'
  <2>1. balance[a] \in Int BY DEF IInv, Types
  <2>2. CASE a = b
    <3>1. NetOf(r, a) = 0 - bids[r][b].escrow /\ NetOf(r, a)' = 0 - e
      BY <1>1, <1>2, <2>2 DEF NetOf, Final
    <3> QED BY <1>1, <1>2, <2>1, <2>2, <3>1
  <2>3. CASE a # b
    <3>1. NetOf(r, a)' = NetOf(r, a) BY <1>1, <2>3 DEF NetOf, Final
    <3>2. NetOf(r, a) \in Int BY NetType DEF IInv
    <3> QED BY <1>1, <2>1, <2>3, <3>1, <3>2
  <2> QED BY <2>2, <2>3
<1> QED BY <1>1, <1>3, OneStanding DEF IInv

\* refund_all gives every escrow of the round back to its bidder.
LEMMA RefundingBalances ==
  ASSUME IInv, IInv', BalancesExplained, NEW r \in RoundIds, ClearToVoid(r) \/ Void(r)
  PROVE  BalancesExplained'
<1>1. /\ rounds' = [rounds EXCEPT ![r].status = "Voided"]
      /\ bids' = MarkSettled(r)
      /\ balance' = [a \in Accounts |-> balance[a] + RefundTo(r, a)]
      /\ rounds[r].status \in {"Open", "Revealing"}
  BY DEF ClearToVoid, Void, RefundAll, ClearAllowed, VoidAllowed
<1>2. rounds[r].status \notin Final BY <1>1 DEF Final
<1>3. rounds'[r].status = "Voided" /\ \A q \in RoundIds \ {r} : rounds'[q] = rounds[q]
  BY <1>1 DEF IInv, Types, RoundRecords
<1>4. \A q \in RoundIds \ {r} : bids'[q] = bids[q]
  BY <1>1 DEF MarkSettled, IInv, Types
<1>5. ASSUME NEW a \in Accounts PROVE balance'[a] = balance[a] - NetOf(r, a) + NetOf(r, a)'
  <2>1. balance[a] \in Int BY DEF IInv, Types
  <2>2. NetOf(r, a)' = 0 BY <1>3 DEF NetOf, Final
  <2>3. a \in Bidders => bids[r][a].escrow \in Int BY DEF IInv, Types, BidRecords
  <2>4. a \in Bidders /\ a \notin BiddersOf(r) => bids[r][a].escrow = 0
    BY <1>2, NothingSettled DEF NoBid
  <2>5. Unsettled(r) = BiddersOf(r) /\ BiddersOf(r) \subseteq Bidders
    BY <1>2, NothingSettled, IndexedBidders DEF IInv
  <2>6. NetOf(r, a) = 0 - RefundTo(r, a)
    BY <1>1, <1>2, <2>3, <2>4, <2>5 DEF NetOf, RefundTo
  <2>7. RefundTo(r, a) \in Int BY <2>3, <2>5 DEF RefundTo
  <2> QED BY <1>1, <2>1, <2>2, <2>6, <2>7
<1> QED BY <1>3, <1>4, <1>5, OneStanding DEF IInv

\* settle sends the winning bid to the operator and everything else back.
LEMMA SettleBalances ==
  ASSUME IInv, IInv', BalancesExplained, NEW r \in RoundIds, Settle(r)
  PROVE  BalancesExplained'
<1>1. /\ rounds' = [rounds EXCEPT ![r].status = "Settled"]
      /\ bids' = MarkSettled(r)
      /\ balance' = [a \in Accounts |-> balance[a] + BidderPayout(r, a) + OperatorPayout(r, a)]
      /\ rounds[r].status = "Cleared"
  BY DEF Settle
<1>2. rounds[r].status \notin Final /\ rounds[r].status \in Decided BY <1>1 DEF Final, Decided
<1>3. /\ rounds'[r].status = "Settled" /\ rounds'[r].winner = rounds[r].winner
      /\ rounds'[r].winning_bid = rounds[r].winning_bid
      /\ rounds'[r].operator = rounds[r].operator
      /\ \A q \in RoundIds \ {r} : rounds'[q] = rounds[q]
  BY <1>1 DEF IInv, Types, RoundRecords
<1>4. \A q \in RoundIds \ {r} : bids'[q] = bids[q]
  BY <1>1 DEF MarkSettled, IInv, Types
<1>5. PICK w : w = rounds[r].winner OBVIOUS
<1>6. PICK p : p = rounds[r].winning_bid OBVIOUS
<1>7. /\ w \in Bidders /\ w \in BiddersOf(r) /\ p \in Int /\ p > 0
      /\ p <= bids[r][w].escrow
  BY <1>2, <1>5, <1>6, WinnerFacts
<1>8. Unsettled(r) = BiddersOf(r) /\ BiddersOf(r) \subseteq Bidders
  BY <1>2, NothingSettled, IndexedBidders DEF IInv
<1>9. ASSUME NEW a \in Accounts PROVE balance'[a] = balance[a] - NetOf(r, a) + NetOf(r, a)'
  <2>1. balance[a] \in Int BY DEF IInv, Types
  <2>2. PICK k : k = IF a \in Bidders THEN bids[r][a].escrow ELSE 0 OBVIOUS
  <2>3. k \in Int BY <2>2 DEF IInv, Types, BidRecords
  <2>4. NetOf(r, a) = 0 - k BY <1>1, <2>2, <2>3 DEF NetOf, Final
  <2>5. NetOf(r, a)' = (IF rounds[r].operator = a THEN p ELSE 0) - (IF w = a THEN p ELSE 0)
    BY <1>3, <1>5, <1>6, <1>7 DEF NetOf, Final
  <2>6. BidderPayout(r, a) = k - (IF w = a THEN p ELSE 0)
    <3>1. CASE a = w
      <4>1. k = bids[r][w].escrow BY <1>7, <2>2, <3>1
      <4>2. BidderPayout(r, a) = AtLeast(k - p, 0)
        BY <1>5, <1>6, <1>7, <1>8, <3>1, <4>1 DEF BidderPayout, Surplus
      <4> QED BY <1>7, <2>3, <3>1, <4>1, <4>2 DEF AtLeast
    <3>2. CASE a # w
      <4>1. BidderPayout(r, a) = RefundTo(r, a) BY <1>5, <3>2 DEF BidderPayout
      <4>2. a \in Bidders /\ a \notin BiddersOf(r) => k = 0
        BY <1>2, <2>2, NothingSettled DEF NoBid
      <4>3. RefundTo(r, a) = k BY <1>8, <2>2, <4>2 DEF RefundTo
      <4> QED BY <2>3, <3>2, <4>1, <4>3
    <3> QED BY <3>1, <3>2
  <2>7. OperatorPayout(r, a) = IF rounds[r].operator = a THEN p ELSE 0
    BY <1>5, <1>6, <1>7, <1>8 DEF OperatorPayout
  <2>8. balance'[a] = balance[a] + BidderPayout(r, a) + OperatorPayout(r, a) BY <1>1
  <2> QED BY <1>7, <2>1, <2>3, <2>4, <2>5, <2>6, <2>7, <2>8
<1> QED BY <1>3, <1>4, <1>9, OneStanding DEF IInv

\* The steps that move no money.
LEMMA QuietBalances ==
  ASSUME IInv, IInv', BalancesExplained, NEW r \in RoundIds,
         \/ \E o \in Operators, s \in Schedules, u \in Rules : CreateRound(r, o, s, u)
         \/ \E b \in Bidders, v \in Values, n \in Nonces : Reveal(r, b, v, n)
         \/ OpenReveal(r)
         \/ ClearToWinner(r)
  PROVE  BalancesExplained'
<1>1. balance' = balance
  BY DEF CreateRound, Reveal, OpenReveal, ClearToWinner
<1>2. \A b \in Bidders : bids[r][b] \in BidRecords BY DEF IInv, Types
<1>3. /\ \A q \in RoundIds \ {r} : rounds'[q] = rounds[q] /\ bids'[q] = bids[q]
      /\ \A b \in Bidders : bids'[r][b].escrow = bids[r][b].escrow
      /\ \/ rounds'[r] = rounds[r]
         \/ rounds[r].status \notin Final /\ rounds'[r].status \notin Final
  <2>1. CASE \E o \in Operators, s \in Schedules, u \in Rules : CreateRound(r, o, s, u)
    BY <2>1 DEF CreateRound, IInv, Types, Final
  <2>2. CASE \E b \in Bidders, v \in Values, n \in Nonces : Reveal(r, b, v, n)
    <3>1. PICK b \in Bidders, v \in Values, n \in Nonces : Reveal(r, b, v, n) BY <2>2
    <3>2. /\ rounds' = rounds
          /\ bids' = [bids EXCEPT ![r][b] =
               [@ EXCEPT !.revealed_value = v, !.revealed_nonce = n,
                         !.valid = WithinEscrow(r, b, v)]]
      BY <3>1 DEF Reveal
    <3>3. bids'[r][b].escrow = bids[r][b].escrow BY <1>2, <3>2 DEF IInv, Types, BidRecords
    <3>4. \A c \in Bidders \ {b} : bids'[r][c] = bids[r][c] BY <3>2 DEF IInv, Types
    <3>5. \A q \in RoundIds \ {r} : bids'[q] = bids[q] BY <3>2 DEF IInv, Types
    <3> QED BY <3>2, <3>3, <3>4, <3>5
  <2>3. CASE OpenReveal(r)
    BY <2>3 DEF OpenReveal, OpenAllowed, IInv, Types, RoundRecords, Final
  <2>4. CASE ClearToWinner(r)
    <3>1. PICK i \in DOMAIN rounds[r].bidders :
            rounds' = [rounds EXCEPT ![r] =
              [@ EXCEPT !.winner = rounds[r].bidders[i], !.winning_bid = ValueAt(r, i),
                        !.status = "Cleared"]]
      BY <2>4 DEF ClearToWinner
    <3>2. rounds'[r].status = "Cleared" /\ \A q \in RoundIds \ {r} : rounds'[q] = rounds[q]
      BY <3>1 DEF IInv, Types, RoundRecords
    <3> QED BY <2>4, <3>2 DEF ClearToWinner, ClearAllowed, Final
  <2> QED BY <2>1, <2>2, <2>3, <2>4
<1> QED BY <1>1, <1>3, NothingMoves

LEMMA NextBalances == IInv /\ IInv' /\ BalancesExplained /\ [Next]_vars => BalancesExplained'
<1> SUFFICES ASSUME IInv, IInv', BalancesExplained, [Next]_vars PROVE BalancesExplained'
  OBVIOUS
<1>1. CASE UNCHANGED <<rounds, bids, balance>>
  BY <1>1 DEF BalancesExplained, NetOf
<1>2. CASE Environment
  BY <1>1, <1>2 DEF Environment, Tick, ProduceRound, Freeze, Thaw
<1>3. ASSUME NEW r \in RoundIds, RoundStep(r) PROVE BalancesExplained'
  <2>1. CASE \E o \in Operators, s \in Schedules, u \in Rules : CreateRound(r, o, s, u)
    BY <2>1, QuietBalances
  <2>2. ASSUME NEW b \in Bidders, BidderStep(r, b) PROVE BalancesExplained'
    <3>1. CASE \E s \in Sealings, e \in Escrows : Commit(r, b, s[1], s[2], e)
      BY <3>1, CommitBalances
    <3>2. CASE \E v \in Values, n \in Nonces : Reveal(r, b, v, n) BY <3>2, QuietBalances
    <3>3. CASE GetSeal(r, b) BY <1>1, <3>3 DEF GetSeal
    <3> QED BY <2>2, <3>1, <3>2, <3>3 DEF BidderStep
  <2>3. CASE Advance(r)
    BY <2>3, QuietBalances, RefundingBalances, SettleBalances DEF Advance, Clear
  <2> QED BY <1>3, <2>1, <2>2, <2>3 DEF RoundStep
<1>4. CASE UNCHANGED vars BY <1>1, <1>4 DEF vars
<1> QED BY <1>2, <1>3, <1>4 DEF Next

\* Every balance is explained by the rounds: losers and voided bidders are whole, a
\* winner has paid its bid once, the operator has received it once.
THEOREM EveryBalanceExplained == Spec => []BalancesExplained
BY IInvAlways, InitBalances, NextBalances, PTL DEF Spec

-----------------------------------------------------------------------------
(* Nothing is locked in.  That every round ends is a liveness property, which *)
(* TLC checks; its safety core is proved here: past its deadlines a round is   *)
(* never without a call that takes it on, and calls only take it forward.     *)

\* Of finitely many positions with a value there is a first best one.
LEMMA FirstBestExists ==
  ASSUME NEW n \in Nat, NEW C \in SUBSET (1 .. n), C # {}, NEW f, \A i \in C : f[i] \in Int,
         NEW rule
  PROVE  \E i \in C : \A j \in C : /\ j < i => Better(rule, f[i], f[j])
                                   /\ j > i => ~Better(rule, f[j], f[i])
<1> DEFINE Best(i, D) == /\ i \in D
                         /\ \A j \in D : /\ j < i => Better(rule, f[i], f[j])
                                         /\ j > i => ~Better(rule, f[j], f[i])
           D(k) == C \cap (1 .. k)
           G == {k \in Nat : D(k) # {} => \E i \in C : Best(i, D(k))}
<1>1. 0 \in G
  OBVIOUS
<1>2. ASSUME NEW k \in Nat, k \in G PROVE k + 1 \in G
  <2> DEFINE m == k + 1
  <2>1. CASE m \notin C
    <3>1. D(m) = D(k) BY <2>1
    <3> QED BY <1>2, <3>1
  <2>2. CASE m \in C
    <3>1. D(m) = D(k) \cup {m} /\ m > k BY <2>2
    <3>2. CASE D(k) = {}
      <4>1. Best(m, D(m)) BY <3>1, <3>2
      <4> QED BY <2>2, <4>1
    <3>3. CASE D(k) # {}
      <4>1. PICK i \in C : Best(i, D(k)) BY <1>2, <3>3
      <4>2. i \in 1 .. k /\ f[i] \in Int /\ f[m] \in Int BY <2>2, <4>1
      <4>3. CASE Better(rule, f[m], f[i])
        <5>1. ASSUME NEW j \in D(k) PROVE j < m /\ Better(rule, f[m], f[j])
          <6>1. j \in 1 .. k /\ f[j] \in Int OBVIOUS
          <6>2. j < i \/ j > i \/ j = i BY <4>2, <6>1
          <6> QED BY <4>1, <4>2, <4>3, <6>1, <6>2 DEF Better
        <5>2. Best(m, D(m)) BY <3>1, <5>1
        <5> QED BY <2>2, <5>2
      <4>4. CASE ~Better(rule, f[m], f[i])
        <5>1. Best(i, D(m)) BY <3>1, <4>1, <4>2, <4>4
        <5> QED BY <5>1
      <4> QED BY <4>3, <4>4
    <3> QED BY <3>2, <3>3
  <2> QED BY <2>1, <2>2
<1>3. n \in G
  <2> HIDE DEF G
  <2> QED BY <1>1, <1>2, NatSetInduction
<1>4. D(n) = C
  OBVIOUS
<1> QED
  BY <1>3, <1>4

LEMMA SomeoneIsBest ==
  ASSUME IInv, NEW r \in RoundIds, Candidates(r) # {}
  PROVE  \E i \in DOMAIN rounds[r].bidders : FirstBest(r, i)
<1>1. rounds[r].bidders \in Seq(Bidders) BY DEF IInv, Types, RoundRecords
<1>2. PICK n \in Nat : DOMAIN rounds[r].bidders = 1 .. n BY <1>1
<1>3. Candidates(r) \in SUBSET (1 .. n) BY <1>2 DEF Candidates
<1>4. PICK f : f = [i \in Candidates(r) |-> ValueAt(r, i)] OBVIOUS
<1>5. \A i \in Candidates(r) : f[i] \in Int
  <2>1. ASSUME NEW i \in Candidates(r) PROVE ValueAt(r, i) \in Int
    <3>1. rounds[r].bidders[i] \in Bidders BY <1>1 DEF Candidates
    <3>2. ValueAt(r, i) \in Values \cup {None} /\ ValueAt(r, i) # None
      BY <3>1 DEF Candidates, ValueAt, IInv, Types, BidRecords
    <3> QED BY <3>2, RoundAssumption
  <2> QED BY <1>4, <2>1
<1>6. PICK i \in Candidates(r) :
        \A j \in Candidates(r) : /\ j < i => Better(rounds[r].clearing_rule, f[i], f[j])
                                 /\ j > i => ~Better(rounds[r].clearing_rule, f[j], f[i])
  BY ONLY <1>3, <1>5, Candidates(r) # {}, FirstBestExists
<1> QED
  BY <1>4, <1>6 DEF FirstBest, Candidates

\* Nobody but the round's bidders and its operator is paid.
LEMMA PayeesAreItsOwn ==
  ASSUME IInv, NEW r \in RoundIds
  PROVE  Payees(r) \subseteq BiddersOf(r) \cup {rounds[r].operator}
<1> SUFFICES ASSUME NEW a \in Payees(r), a # rounds[r].operator, a \notin BiddersOf(r)
             PROVE  FALSE
  OBVIOUS
<1>1. BidderPayout(r, a) = 0 /\ OperatorPayout(r, a) = 0
  BY DEF BidderPayout, OperatorPayout, RefundTo, Unsettled
<1> QED
  BY <1>1 DEF Payees

\* The contract's side of void, clear and settle: a call that would take round r on.
Refundable(r) ==
  EscrowTotal(r, Unsettled(r)) <= ContractBalance /\ Unsettled(r) \cap frozen = {}

CanGoOn(r) ==
  \/ VoidAllowed(r) /\ Refundable(r)
  \/ ClearAllowed(r) /\ \E i \in DOMAIN rounds[r].bidders : FirstBest(r, i)
  \/ ClearAllowed(r) /\ Candidates(r) = {} /\ Refundable(r)
  \/ /\ rounds[r].status = "Cleared"
     /\ EscrowTotal(r, Unsettled(r)) <= ContractBalance
     /\ Payees(r) \cap frozen = {}

NeverLockedIn ==
  \A r \in RoundIds :
    /\ rounds[r].status \notin {"Absent"} \cup Final
    /\ now > rounds[r].reveal_deadline + VOID_GRACE
    /\ rounds[r].reveal_deadline + VOID_GRACE <= MAX_U64
    /\ frozen \cap (BiddersOf(r) \cup {rounds[r].operator}) = {}
    => CanGoOn(r)

\* Once the grace period is over, whatever happened before and whatever Drand did, a
\* round that has not ended can be taken on by void, clear or settle, unless the token
\* refuses one of the round's own accounts; other rounds and their bidders' accounts
\* cannot stand in its way (lib.rs:291-345, 355, 422).
THEOREM NothingIsLockedIn == Spec => []NeverLockedIn
<1>1. ASSUME IInv, NEW r \in RoundIds,
             rounds[r].status \notin {"Absent"} \cup Final,
             now > rounds[r].reveal_deadline + VOID_GRACE,
             rounds[r].reveal_deadline + VOID_GRACE <= MAX_U64,
             frozen \cap (BiddersOf(r) \cup {rounds[r].operator}) = {}
      PROVE  CanGoOn(r)
  <2>1. rounds[r].status \in {"Open", "Revealing", "Cleared"}
    BY <1>1 DEF IInv, Types, RoundRecords, Statuses, Final
  <2>2. EscrowTotal(r, Unsettled(r)) <= ContractBalance
    BY <1>1, OwedIsHeld
  <2>3. Unsettled(r) \cap frozen = {} /\ Payees(r) \cap frozen = {}
    BY <1>1, PayeesAreItsOwn DEF Unsettled
  <2>4. now > rounds[r].reveal_deadline
    BY <1>1, NatConstants DEF IInv, Types, RoundRecords
  <2>5. CASE rounds[r].status = "Open"
    BY <1>1, <2>2, <2>3, <2>5 DEF CanGoOn, VoidAllowed, Refundable
  <2>6. CASE rounds[r].status = "Revealing"
    BY <1>1, <2>2, <2>3, <2>4, <2>6, SomeoneIsBest DEF CanGoOn, ClearAllowed, Refundable
  <2>7. CASE rounds[r].status = "Cleared"
    BY <2>2, <2>3, <2>7 DEF CanGoOn
  <2> QED
    BY <2>1, <2>5, <2>6, <2>7
<1>2. IInv => NeverLockedIn
  BY <1>1 DEF NeverLockedIn
<1> QED
  BY <1>2, IInvAlways, PTL

\* How far a round has come.
Stage(status) ==
  CASE status = "Absent" -> 0 [] status = "Open" -> 1 [] status = "Revealing" -> 2
    [] status = "Cleared" -> 3 [] OTHER -> 4

StagesForward ==
  \A r \in RoundIds :
    rounds'[r].status # rounds[r].status =>
      /\ Stage(rounds'[r].status) > Stage(rounds[r].status)
      /\ \A q \in RoundIds \ {r} : rounds'[q] = rounds[q]

\* Every change of a round's status takes it further, and only one round at a time, so
\* that four calls at most separate a round from its end.
THEOREM OnlyForward == Spec => [][StagesForward]_vars
<1>1. ASSUME IInv, [Next]_vars, NEW r \in RoundIds, rounds'[r].status # rounds[r].status
      PROVE  /\ Stage(rounds'[r].status) > Stage(rounds[r].status)
             /\ \A q \in RoundIds \ {r} : rounds'[q] = rounds[q]
  <2>0. rounds \in [RoundIds -> RoundRecords] /\ rounds[r] \in RoundRecords
    BY <1>1 DEF IInv, Types
  <2>1. ~UNCHANGED rounds
    BY <1>1
  <2>2. PICK p \in RoundIds : RoundStep(p)
    BY <1>1, <2>1 DEF Next, Environment, Tick, ProduceRound, Freeze, Thaw, vars
  <2>3. \A q \in RoundIds \ {p} : rounds'[q] = rounds[q]
    BY <2>0, <2>2 DEF RoundStep, BidderStep, Advance, CreateRound, Commit, Reveal, GetSeal,
       OpenReveal, Clear, ClearToWinner, ClearToVoid, Settle, Void
  <2>4. p = r
    BY <1>1, <2>3
  <2>5. CASE \E o \in Operators, s \in Schedules, u \in Rules : CreateRound(r, o, s, u)
    BY <2>0, <2>5 DEF CreateRound, Stage
  <2>6. CASE \E b \in Bidders : BidderStep(r, b)
    <3>1. \/ UNCHANGED rounds
          \/ \E b \in Bidders : rounds' = [rounds EXCEPT ![r].bidders = IndexWith(r, b)]
      BY <2>6 DEF BidderStep, Commit, Reveal, GetSeal
    <3> QED
      BY <1>1, <2>0, <3>1 DEF RoundRecords
  <2>7. CASE OpenReveal(r)
    BY <2>0, <2>7 DEF OpenReveal, OpenAllowed, RoundRecords, Stage
  <2>8. CASE ClearToWinner(r)
    BY <2>0, <2>8 DEF ClearToWinner, ClearAllowed, RoundRecords, Stage
  <2>9. CASE ClearToVoid(r)
    BY <2>0, <2>9 DEF ClearToVoid, ClearAllowed, RoundRecords, Stage
  <2>10. CASE Settle(r)
    BY <2>0, <2>10 DEF Settle, RoundRecords, Stage
  <2>11. CASE Void(r)
    BY <2>0, <2>11 DEF Void, VoidAllowed, RoundRecords, Stage
  <2>12. Stage(rounds'[r].status) > Stage(rounds[r].status)
    BY <2>2, <2>4, <2>5, <2>6, <2>7, <2>8, <2>9, <2>10, <2>11 DEF RoundStep, Advance, Clear
  <2> QED
    BY <2>3, <2>4, <2>12
<1>2. IInv /\ [Next]_vars => StagesForward
  BY <1>1 DEF StagesForward
<1> QED
  BY <1>2, IInvAlways, PTL DEF Spec

-----------------------------------------------------------------------------
(* The contract implements the life of its rounds (RoundLife): each of its   *)
(* steps is a step of that life or leaves it alone.                          *)

\* What the refinement maps the contract's state to.
LifePhase == [r \in RoundIds |-> rounds[r].status]
LifeTerms ==
  [r \in RoundIds |->
     <<rounds[r].reveal_round, rounds[r].commit_deadline, rounds[r].reveal_deadline>>]
LifeBid == [r \in RoundIds |-> [b \in Bidders |-> BidPhase(r, b)]]

\* The part of the life of a round that only depends on its record.
SameTerms ==
  \A r \in RoundIds : /\ rounds'[r].reveal_round = rounds[r].reveal_round
                      /\ rounds'[r].commit_deadline = rounds[r].commit_deadline
                      /\ rounds'[r].reveal_deadline = rounds[r].reveal_deadline

LEMMA SameTermsKeep == SameTerms => LifeTerms' = LifeTerms
BY DEF SameTerms, LifeTerms

LEMMA SameBidsKeep ==
  ASSUME \A r \in RoundIds, b \in Bidders : BidPhase(r, b)' = BidPhase(r, b)
  PROVE  LifeBid' = LifeBid
BY DEF LifeBid

\* Paying a bid does not change what is known of it.
LEMMA PayingKeepsBids ==
  ASSUME Types, NEW r \in RoundIds, bids' = MarkSettled(r)
  PROVE  LifeBid' = LifeBid
<1>1. ASSUME NEW q \in RoundIds, NEW b \in Bidders
      PROVE  BidPhase(q, b)' = BidPhase(q, b)
  <2>1. bids \in [RoundIds -> [Bidders -> BidRecords]] BY DEF Types
  <2>2. bids[q][b] \in BidRecords BY <2>1
  <2>3. CASE q = r /\ b \in Unsettled(r)
    <3>1. bids'[q][b] = [bids[q][b] EXCEPT !.settled = TRUE]
      BY <2>1, <2>3 DEF MarkSettled
    <3>2. bids'[q][b] # NoBid BY <2>2, <3>1 DEF NoBid, BidRecords
    <3>3. bids'[q][b].revealed_value = bids[q][b].revealed_value
      BY <2>2, <3>1 DEF BidRecords
    <3>4. HasBid(q, b) BY <2>3 DEF Unsettled
    <3> QED BY <3>2, <3>3, <3>4 DEF BidPhase, HasBid
  <2>4. CASE ~(q = r /\ b \in Unsettled(r))
    <3>1. bids'[q][b] = bids[q][b] BY <2>1, <2>4 DEF MarkSettled
    <3> QED BY <3>1 DEF BidPhase, HasBid
  <2> QED BY <2>3, <2>4
<1> QED BY <1>1, SameBidsKeep

\* The phase changes for one round, nothing else.
LEMMA PhaseStep ==
  ASSUME Types, NEW r \in RoundIds, NEW s,
         NEW rec, rounds' = [rounds EXCEPT ![r] = rec],
         rec.status = s, rec.reveal_round = rounds[r].reveal_round,
         rec.commit_deadline = rounds[r].commit_deadline,
         rec.reveal_deadline = rounds[r].reveal_deadline
  PROVE  LifePhase' = [LifePhase EXCEPT ![r] = s] /\ LifeTerms' = LifeTerms
<1>1. rounds \in [RoundIds -> RoundRecords] BY DEF Types
<1>2. \A q \in RoundIds : rounds'[q] = IF q = r THEN rec ELSE rounds[q] BY <1>1
<1>3. SameTerms BY <1>2 DEF SameTerms
<1>4. \A q \in RoundIds : rounds'[q].status = IF q = r THEN s ELSE rounds[q].status BY <1>2
<1>5. LifePhase' = [LifePhase EXCEPT ![r] = s] BY <1>4 DEF LifePhase
<1> QED BY <1>3, <1>5, SameTermsKeep

LEMMA ClockRefines ==
  ASSUME Types, Tick \/ ProduceRound
  PROVE  Life!LTick \/ Life!LProduce
<1>1. CASE Tick
  <2>1. UNCHANGED <<beacon, LifePhase, LifeTerms, LifeBid>>
    BY <1>1 DEF Tick, LifePhase, LifeTerms, LifeBid, BidPhase, HasBid
  <2> QED BY <1>1, <2>1 DEF Tick, Life!LTick, LifePhase, LifeTerms, LifeBid
<1>2. CASE ProduceRound
  <2>1. UNCHANGED <<now, LifePhase, LifeTerms, LifeBid>>
    BY <1>2 DEF ProduceRound, LifePhase, LifeTerms, LifeBid, BidPhase, HasBid
  <2>3. Life!DrandTime(beacon + 1) <= now
    BY <1>2 DEF ProduceRound, DrandTime, Life!DrandTime
  <2> QED BY <1>2, <2>1, <2>3 DEF ProduceRound, Life!LProduce, LifePhase, LifeTerms, LifeBid
<1> QED BY <1>1, <1>2

LEMMA CreateRefines ==
  ASSUME Types, NEW r \in RoundIds, NEW o, NEW s \in Schedules, NEW u, CreateRound(r, o, s, u)
  PROVE  Life!LCreate(r, s)
<1> DEFINE rec == [operator |-> o, reveal_round |-> s[1], clearing_rule |-> u,
                   commit_deadline |-> s[2], reveal_deadline |-> s[3],
                   status |-> "Open", bidders |-> <<>>, winner |-> None, winning_bid |-> 0]
<1>1. rounds \in [RoundIds -> RoundRecords] /\ now \in Nat BY DEF Types
<1>2. s \in Nat \X Nat \X Nat BY RoundAssumption
<1>3. /\ rounds' = [rounds EXCEPT ![r] = rec] /\ UNCHANGED <<now, beacon, bids>>
      /\ s[2] > now /\ LifePhase[r] = "Absent"
      /\ \A q \in 1 .. r - 1 : rounds[q].status # "Absent"
  BY DEF CreateRound, ScheduleAccepted, LifePhase
<1>4. rec.status = "Open" /\ <<rec.reveal_round, rec.commit_deadline, rec.reveal_deadline>> = s
  BY <1>2
<1> HIDE DEF rec
<1>5. \A q \in RoundIds : rounds'[q] = IF q = r THEN rec ELSE rounds[q] BY <1>1, <1>3
<1>6. LifePhase' = [LifePhase EXCEPT ![r] = "Open"] BY <1>4, <1>5 DEF LifePhase
<1>7. LifeTerms' = [LifeTerms EXCEPT ![r] = s] BY <1>4, <1>5 DEF LifeTerms
<1>8. LifeBid' = LifeBid BY <1>3 DEF LifeBid, BidPhase, HasBid
<1>9. \A q \in 1 .. r - 1 : LifePhase[q] # "Absent"
  <2>1. \A q \in 1 .. r - 1 : q \in RoundIds BY RoundAssumption DEF RoundIds
  <2> QED BY <1>3, <2>1 DEF LifePhase
<1>10. now < s[2] BY <1>1, <1>2, <1>3
<1> QED BY <1>3, <1>6, <1>7, <1>8, <1>9, <1>10 DEF Life!LCreate, LifePhase, LifeTerms, LifeBid

LEMMA CommitRefines ==
  ASSUME Types, NEW r \in RoundIds, NEW b \in Bidders, NEW s \in Sealings, NEW e \in Escrows,
         Commit(r, b, s[1], s[2], e)
  PROVE  Life!LCommit(r, b)
<1>1. /\ rounds \in [RoundIds -> RoundRecords]
      /\ bids \in [RoundIds -> [Bidders -> BidRecords]]
  BY DEF Types
<1>2. /\ CommitAllowed(r) /\ e > 0
      /\ bids' = [bids EXCEPT ![r][b] =
           [commitment |-> s[1], escrow |-> e, revealed_value |-> None,
            revealed_nonce |-> None, valid |-> FALSE, settled |-> FALSE]]
      /\ rounds' = [rounds EXCEPT ![r].bidders = IndexWith(r, b)]
      /\ UNCHANGED <<now, beacon>>
  BY DEF Commit
<1>3. BidPhase(r, b)' = "Sealed"
  <2>1. /\ bids'[r][b].escrow = e /\ bids'[r][b].revealed_value = None
    BY <1>1, <1>2
  <2>2. bids'[r][b] # NoBid BY <1>2, <2>1 DEF NoBid
  <2> QED BY <2>1, <2>2 DEF BidPhase, HasBid
<1>4. \A q \in RoundIds, a \in Bidders : <<q, a>> # <<r, b>> => BidPhase(q, a)' = BidPhase(q, a)
  BY <1>1, <1>2 DEF BidPhase, HasBid
<1>5. LifeBid' = [LifeBid EXCEPT ![r][b] = "Sealed"] BY <1>3, <1>4 DEF LifeBid
<1>6. UNCHANGED <<LifePhase, LifeTerms>>
  BY <1>1, <1>2 DEF LifePhase, LifeTerms, RoundRecords
<1>7. LifePhase[r] = "Open" /\ now <= Life!CommitDeadline(r)
  BY <1>2 DEF CommitAllowed, LifePhase, Life!CommitDeadline
<1> QED BY <1>2, <1>5, <1>6, <1>7 DEF Life!LCommit, LifePhase, LifeTerms, LifeBid

LEMMA OpenRefines ==
  ASSUME Types, NEW r \in RoundIds, OpenReveal(r)
  PROVE  Life!LOpen(r)
<1> DEFINE rec == [rounds[r] EXCEPT !.status = "Revealing"]
<1>1. rounds[r] \in RoundRecords BY DEF Types
<1>2. /\ rounds' = [rounds EXCEPT ![r] = rec] /\ UNCHANGED <<now, beacon, bids>>
      /\ OpenAllowed(r)
  BY DEF OpenReveal
<1>3. /\ rec.status = "Revealing" /\ rec.reveal_round = rounds[r].reveal_round
      /\ rec.commit_deadline = rounds[r].commit_deadline
      /\ rec.reveal_deadline = rounds[r].reveal_deadline
  BY <1>1 DEF RoundRecords
<1> HIDE DEF rec
<1>4. LifePhase' = [LifePhase EXCEPT ![r] = "Revealing"] /\ LifeTerms' = LifeTerms
  BY <1>2, <1>3, PhaseStep
<1>5. LifeBid' = LifeBid BY <1>2 DEF LifeBid, BidPhase, HasBid
<1>6. Life!CanOpen(r)
  BY <1>2 DEF OpenAllowed, Published, Life!CanOpen, Life!CommitDeadline, Life!RevealRound,
              Life!Produced
<1> QED BY <1>2, <1>4, <1>5, <1>6 DEF Life!LOpen, LifePhase, LifeTerms, LifeBid

LEMMA RevealRefines ==
  ASSUME Types, NEW r \in RoundIds, NEW b \in Bidders, NEW v \in Values, NEW n \in Nonces,
         Reveal(r, b, v, n)
  PROVE  Life!LReveal(r, b)
<1>1. bids \in [RoundIds -> [Bidders -> BidRecords]] /\ bids[r][b] \in BidRecords BY DEF Types
<1>2. /\ bids' = [bids EXCEPT ![r][b] =
           [@ EXCEPT !.revealed_value = v, !.revealed_nonce = n, !.valid = WithinEscrow(r, b, v)]]
      /\ rounds[r].status = "Revealing" /\ now <= rounds[r].reveal_deadline
      /\ HasBid(r, b) /\ bids[r][b].revealed_value = None
      /\ UNCHANGED <<now, beacon, rounds>>
  BY DEF Reveal, RevealMatches
<1>3. v # None BY RoundAssumption
<1>4. BidPhase(r, b)' = "Revealed"
  <2>1. bids'[r][b].revealed_value = v BY <1>1, <1>2 DEF BidRecords
  <2>2. bids'[r][b] # NoBid BY <1>3, <2>1 DEF NoBid
  <2> QED BY <1>3, <2>1, <2>2 DEF BidPhase, HasBid
<1>5. \A q \in RoundIds, a \in Bidders : <<q, a>> # <<r, b>> => BidPhase(q, a)' = BidPhase(q, a)
  BY <1>1, <1>2 DEF BidPhase, HasBid
<1>6. LifeBid' = [LifeBid EXCEPT ![r][b] = "Revealed"] BY <1>4, <1>5 DEF LifeBid
<1>7. UNCHANGED <<LifePhase, LifeTerms>> BY <1>2 DEF LifePhase, LifeTerms
<1>8. Life!CanReveal(r, b)
  BY <1>2 DEF Life!CanReveal, Life!RevealDeadline, BidPhase
<1> QED BY <1>2, <1>6, <1>7, <1>8 DEF Life!LReveal, LifePhase, LifeTerms, LifeBid

LEMMA ClearRefines ==
  ASSUME Types, NEW r \in RoundIds, Clear(r)
  PROVE  Life!LClear(r)
<1>1. rounds[r] \in RoundRecords BY DEF Types
<1>2. Life!CanClear(r)
  BY DEF Clear, ClearToWinner, ClearToVoid, ClearAllowed, Life!CanClear, Life!RevealDeadline
<1>3. CASE ClearToWinner(r)
  <2>1. PICK i \in DOMAIN rounds[r].bidders :
          /\ FirstBest(r, i)
          /\ rounds' = [rounds EXCEPT ![r] =
               [@ EXCEPT !.winner = rounds[r].bidders[i], !.winning_bid = ValueAt(r, i),
                         !.status = "Cleared"]]
    BY <1>3 DEF ClearToWinner
  <2> DEFINE b == rounds[r].bidders[i]
             rec == [rounds[r] EXCEPT !.winner = b, !.winning_bid = ValueAt(r, i),
                                      !.status = "Cleared"]
  <2>2. rounds' = [rounds EXCEPT ![r] = rec] BY <2>1
  <2>3. /\ rec.status = "Cleared" /\ rec.reveal_round = rounds[r].reveal_round
        /\ rec.commit_deadline = rounds[r].commit_deadline
        /\ rec.reveal_deadline = rounds[r].reveal_deadline
    BY <1>1 DEF RoundRecords
  <2>4. b \in Bidders BY <1>1, <2>1 DEF RoundRecords
  <2>5. HasBid(r, b) /\ bids[r][b].revealed_value # None
    BY <2>1 DEF FirstBest, Candidates
  <2> HIDE DEF rec, b
  <2>6. LifePhase' = [LifePhase EXCEPT ![r] = "Cleared"] /\ LifeTerms' = LifeTerms
    BY <2>2, <2>3, PhaseStep
  <2>7. LifeBid[r][b] = "Revealed" BY <2>4, <2>5 DEF LifeBid, BidPhase
  <2>8. LifeBid' = LifeBid BY <1>3 DEF ClearToWinner, LifeBid, BidPhase, HasBid
  <2>9. UNCHANGED <<now, beacon>> BY <1>3 DEF ClearToWinner
  <2> QED BY <1>2, <2>4, <2>6, <2>7, <2>8, <2>9 DEF Life!LClear, LifePhase, LifeTerms, LifeBid
<1>4. CASE ClearToVoid(r)
  <2> DEFINE rec == [rounds[r] EXCEPT !.status = "Voided"]
  <2>1. /\ rounds' = [rounds EXCEPT ![r] = rec] /\ bids' = MarkSettled(r)
        /\ UNCHANGED <<now, beacon>>
    BY <1>4 DEF ClearToVoid, RefundAll
  <2>2. /\ rec.status = "Voided" /\ rec.reveal_round = rounds[r].reveal_round
        /\ rec.commit_deadline = rounds[r].commit_deadline
        /\ rec.reveal_deadline = rounds[r].reveal_deadline
    BY <1>1 DEF RoundRecords
  <2> HIDE DEF rec
  <2>3. LifePhase' = [LifePhase EXCEPT ![r] = "Voided"] /\ LifeTerms' = LifeTerms
    BY <2>1, <2>2, PhaseStep
  <2>4. LifeBid' = LifeBid BY <2>1, PayingKeepsBids
  <2> QED BY <1>2, <2>1, <2>3, <2>4 DEF Life!LClear, LifePhase, LifeTerms, LifeBid
<1> QED BY <1>3, <1>4 DEF Clear

LEMMA SettleRefines ==
  ASSUME Types, NEW r \in RoundIds, Settle(r)
  PROVE  Life!LSettle(r)
<1> DEFINE rec == [rounds[r] EXCEPT !.status = "Settled"]
<1>1. rounds[r] \in RoundRecords BY DEF Types
<1>2. /\ rounds' = [rounds EXCEPT ![r] = rec] /\ bids' = MarkSettled(r)
      /\ rounds[r].status = "Cleared" /\ UNCHANGED <<now, beacon>>
  BY DEF Settle
<1>3. /\ rec.status = "Settled" /\ rec.reveal_round = rounds[r].reveal_round
      /\ rec.commit_deadline = rounds[r].commit_deadline
      /\ rec.reveal_deadline = rounds[r].reveal_deadline
  BY <1>1 DEF RoundRecords
<1> HIDE DEF rec
<1>4. LifePhase' = [LifePhase EXCEPT ![r] = "Settled"] /\ LifeTerms' = LifeTerms
  BY <1>2, <1>3, PhaseStep
<1>5. LifeBid' = LifeBid BY <1>2, PayingKeepsBids
<1> QED BY <1>2, <1>4, <1>5 DEF Life!LSettle, LifePhase, LifeTerms, LifeBid

LEMMA VoidRefines ==
  ASSUME Types, NEW r \in RoundIds, Void(r)
  PROVE  Life!LVoid(r)
<1> DEFINE rec == [rounds[r] EXCEPT !.status = "Voided"]
<1>1. rounds[r] \in RoundRecords BY DEF Types
<1>2. /\ rounds' = [rounds EXCEPT ![r] = rec] /\ bids' = MarkSettled(r)
      /\ VoidAllowed(r) /\ UNCHANGED <<now, beacon>>
  BY DEF Void, RefundAll
<1>3. /\ rec.status = "Voided" /\ rec.reveal_round = rounds[r].reveal_round
      /\ rec.commit_deadline = rounds[r].commit_deadline
      /\ rec.reveal_deadline = rounds[r].reveal_deadline
  BY <1>1 DEF RoundRecords
<1> HIDE DEF rec
<1>4. LifePhase' = [LifePhase EXCEPT ![r] = "Voided"] /\ LifeTerms' = LifeTerms
  BY <1>2, <1>3, PhaseStep
<1>5. LifeBid' = LifeBid BY <1>2, PayingKeepsBids
<1>6. Life!CanVoid(r) BY <1>2 DEF VoidAllowed, Life!CanVoid, Life!RevealDeadline
<1> QED BY <1>2, <1>4, <1>5, <1>6 DEF Life!LVoid, LifePhase, LifeTerms, LifeBid

\* The token and the seals' lifetimes are no part of the life of a round.
LEMMA Stutters ==
  ASSUME UNCHANGED <<now, beacon, rounds, bids>>
  PROVE  UNCHANGED Life!lifeVars
<1>1. UNCHANGED <<LifePhase, LifeTerms, LifeBid>>
  BY DEF LifePhase, LifeTerms, LifeBid, BidPhase, HasBid
<1> QED BY <1>1 DEF Life!lifeVars, LifePhase, LifeTerms, LifeBid

LEMMA InitRefines == Init => Life!LInit
BY DEF Init, Life!LInit, Life!RoundIds, RoundIds, Life!NoTerms, NoRound, BidPhase, HasBid

LEMMA StepRefines ==
  ASSUME Types, [Next]_vars
  PROVE  [Life!LNext]_(Life!lifeVars)
<1>1. RoundIds = Life!RoundIds BY DEF RoundIds, Life!RoundIds
<1>2. CASE UNCHANGED vars BY <1>2, Stutters DEF vars
<1>3. CASE Environment
  <2>1. CASE Tick \/ ProduceRound BY <2>1, ClockRefines DEF Life!LNext
  <2>2. CASE \E a \in Accounts : Freeze(a) \/ Thaw(a) BY <2>2, Stutters DEF Freeze, Thaw
  <2> QED BY <1>3, <2>1, <2>2 DEF Environment
<1>4. ASSUME NEW r \in RoundIds, RoundStep(r)
      PROVE  Life!LNext \/ UNCHANGED Life!lifeVars
  <2>1. CASE \E o \in Operators, s \in Schedules, u \in Rules : CreateRound(r, o, s, u)
    BY <1>1, <2>1, CreateRefines DEF Life!LNext
  <2>2. ASSUME NEW b \in Bidders, BidderStep(r, b)
        PROVE  Life!LNext \/ UNCHANGED Life!lifeVars
    <3>1. CASE \E s \in Sealings, e \in Escrows : Commit(r, b, s[1], s[2], e)
      BY <1>1, <3>1, CommitRefines DEF Life!LNext
    <3>2. CASE \E v \in Values, n \in Nonces : Reveal(r, b, v, n)
      BY <1>1, <3>2, RevealRefines DEF Life!LNext, Life!LAdvance
    <3>3. CASE GetSeal(r, b) BY <3>3, Stutters DEF GetSeal
    <3> QED BY <2>2, <3>1, <3>2, <3>3 DEF BidderStep
  <2>3. CASE Advance(r)
    BY <1>1, <2>3, OpenRefines, ClearRefines, SettleRefines, VoidRefines
       DEF Advance, Life!LNext, Life!LAdvance
  <2> QED BY <1>4, <2>1, <2>2, <2>3 DEF RoundStep
<1> QED BY <1>2, <1>3, <1>4 DEF Next

\* Every behaviour of the contract is a life of its rounds, so what holds of every
\* such life, and of the programs that drive it, holds with the contract in its place.
THEOREM RoundImplementsLife == Spec => ImplementsLife
<1>1. Init => Life!LInit BY InitRefines
<1>2. IInv /\ [Next]_vars => [Life!LNext]_(Life!lifeVars) BY StepRefines DEF IInv
<1> QED BY <1>1, <1>2, IInvAlways, PTL DEF Spec, ImplementsLife, Life!LSpec
=============================================================================
