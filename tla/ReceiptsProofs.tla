--------------------------- MODULE ReceiptsProofs ---------------------------
(***************************************************************************)
(* Receipts, for any number of bidders and rounds, any page size and any    *)
(* order of the reads and of other people's calls: one of a finished round  *)
(* agrees with the contract for ever, every one has the winner clear chose  *)
(* and verifies unless a bidder is a contract or a seal in part empty, and  *)
(* of a decided round's receipt no single field can be changed so that      *)
(* another winner passes.                                                   *)
(*                                                                         *)
(* The argument.  What the first read of an export found to be over stays   *)
(* so (RInv), with its index, winner and value; the pages are then those of *)
(* an index that no longer changes; and of a bid nothing changes but the    *)
(* mark of its payment, which comes at once with the round's settlement.    *)
(* Of a round that still runs the index only grows and every stored bid is  *)
(* judged the same by the contract and by verifyReceipt, so that a receipt  *)
(* put together from different times is well-formed all the same (WInv).    *)
(* The walk of verifyReceipt is a fold: by induction over its positions it  *)
(* ends at the first of the best bids, of which there is one.               *)
(***************************************************************************)
EXTENDS Receipts, RoundProofs, FiniteSetTheorems

\* What was read of round r, if it was over then, is still so.
StillSo(status, rule, bidders, winner, value, r) ==
  status \in Over =>
    /\ rounds[r].status \in Over
    /\ rounds[r].clearing_rule = rule /\ rounds[r].bidders = bidders
    /\ rounds[r].winner = winner /\ rounds[r].winning_bid = value
    /\ status \in Final => rounds[r].status = status

Entry(r, b) == BidReceiptEntry(bids[r][b])

\* The entry e of a bid, read after the round was found with the status.
EntrySo(status, e, r, b) ==
  /\ e \in {Entry(r, b), [Entry(r, b) EXCEPT !.settled = FALSE]}
  /\ status \in Final => e = Entry(r, b)

\* A draft of a round that was over has the index as far as the pages were read, and
\* of its bidders the first few with their entries.
DraftSo(d) ==
  LET index == rounds[d.id].bidders IN
  /\ StillSo(d.round.status, d.round.clearing_rule, d.round.bidders, d.round.winner,
             d.round.winning_bid, d.id)
  /\ d.cursor \in 0 .. Len(index)
  /\ d.bidders = IF d.paging THEN SubSeq(index, 1, d.cursor) ELSE index
  /\ IsFiniteSet(DOMAIN d.bids)
  /\ Cardinality(DOMAIN d.bids) <= Len(index)
  /\ DOMAIN d.bids = {index[i] : i \in 1 .. Cardinality(DOMAIN d.bids)}
  /\ d.paging => Cardinality(DOMAIN d.bids) = 0
  /\ \A b \in DOMAIN d.bids : EntrySo(d.round.status, d.bids[b], d.id, b)

IsDraft(d) ==
  \E i, r, c, p, q, e, v :
    d = [id |-> i, round |-> r, cursor |-> c, paging |-> p, bidders |-> q, bids |-> e,
         evidence |-> v]

DraftOk(d) ==
  /\ IsDraft(d)
  /\ d.id \in RoundIds /\ d.paging \in BOOLEAN
  /\ d.round.status \in Over => DraftSo(d)

ReceiptSo(R) ==
  /\ StillSo(R.status, R.clearingRule, R.bidders, R.winner, R.winningValue, R.id)
  /\ DOMAIN R.bids = BiddersOf(R.id)
  /\ \A b \in DOMAIN R.bids : EntrySo(R.status, R.bids[b], R.id, b)

ReceiptOk(R) == R.id \in RoundIds /\ (R.status \in Over => ReceiptSo(R))

RInv ==
  /\ IInv
  /\ draft # NoDraft => DraftOk(draft)
  /\ receipt # NoReceipt => ReceiptOk(receipt)

-----------------------------------------------------------------------------
(* The contract moves on.                                                  *)

\* Of a round that is over a call changes the status, from cleared to settled, and with
\* it the payment marks.
LEMMA OverStep ==
  ASSUME IInv, [Next]_vars, NEW r \in RoundIds, rounds[r].status \in Over
  PROVE  /\ rounds'[r].status \in Over
         /\ rounds'[r].clearing_rule = rounds[r].clearing_rule
         /\ rounds'[r].bidders = rounds[r].bidders
         /\ rounds'[r].winner = rounds[r].winner
         /\ rounds'[r].winning_bid = rounds[r].winning_bid
         /\ rounds[r].status \in Final => rounds'[r] = rounds[r] /\ bids'[r] = bids[r]
         /\ \A b \in Bidders :
              bids'[r][b] \in {bids[r][b], [bids[r][b] EXCEPT !.settled = TRUE]}
<1>1. CASE rounds[r].status \in Final
  BY <1>1, FinalIsLeftAlone
<1>2. CASE rounds[r].status = "Cleared"
  <2> DEFINE Kept ==
        /\ rounds'[r].status \in Over
        /\ rounds'[r].clearing_rule = rounds[r].clearing_rule
        /\ rounds'[r].bidders = rounds[r].bidders
        /\ rounds'[r].winner = rounds[r].winner
        /\ rounds'[r].winning_bid = rounds[r].winning_bid
        /\ \A b \in Bidders :
             bids'[r][b] \in {bids[r][b], [bids[r][b] EXCEPT !.settled = TRUE]}
  <2>1. CASE Environment \/ UNCHANGED vars
    BY <2>1 DEF Environment, Tick, ProduceRound, Freeze, Thaw, vars
  <2>2. ASSUME NEW q \in RoundIds, RoundStep(q) PROVE Kept
    <3>1. CASE \E o \in Operators, s \in Schedules, u \in Rules : CreateRound(q, o, s, u)
      BY <1>2, <3>1 DEF CreateRound, IInv, Types, Over
    <3>2. CASE \E b \in Bidders, s \in Sealings, e \in Escrows : Commit(q, b, s[1], s[2], e)
      <4>1. q # r
        BY <1>2, <3>2 DEF Commit, CommitAllowed
      <4> QED
        BY <1>2, <3>2, <4>1 DEF Commit, IInv, Types, Over
    <3>3. CASE \E b \in Bidders, v \in Values, n \in Nonces : Reveal(q, b, v, n)
      BY <1>2, <3>3 DEF Reveal, IInv, Types, Over
    <3>4. CASE \E b \in Bidders : GetSeal(q, b)
      BY <1>2, <3>4 DEF GetSeal, Over
    <3>5. CASE OpenReveal(q)
      BY <1>2, <3>5 DEF OpenReveal, OpenAllowed, IInv, Types, Over
    <3>6. CASE ClearToWinner(q)
      BY <1>2, <3>6 DEF ClearToWinner, ClearAllowed, IInv, Types, Over
    <3>7. CASE ClearToVoid(q) \/ Settle(q) \/ Void(q)
      <4>1. /\ bids' = MarkSettled(q)
            /\ \E st \in {"Settled", "Voided"} : rounds' = [rounds EXCEPT ![q].status = st]
        BY <3>7 DEF ClearToVoid, Settle, Void, RefundAll
      <4>2. rounds[r] \in RoundRecords
        BY DEF IInv, Types
      <4>3. /\ rounds'[r].status \in Over
            /\ rounds'[r].clearing_rule = rounds[r].clearing_rule
            /\ rounds'[r].bidders = rounds[r].bidders
            /\ rounds'[r].winner = rounds[r].winner
            /\ rounds'[r].winning_bid = rounds[r].winning_bid
        BY <1>2, <4>1, <4>2 DEF Over, RoundRecords, IInv, Types
      <4>4. \A b \in Bidders :
              bids'[r][b] \in {bids[r][b], [bids[r][b] EXCEPT !.settled = TRUE]}
        BY <4>1 DEF MarkSettled, IInv, Types
      <4> QED
        BY <4>3, <4>4
    <3> QED
      BY <2>2, <3>1, <3>2, <3>3, <3>4, <3>5, <3>6, <3>7
      DEF RoundStep, BidderStep, Advance, Clear
  <2> QED
    BY <1>2, <2>1, <2>2 DEF Next, Final, Over
<1> QED
  BY <1>1, <1>2 DEF Over, Final

LEMMA StillSoStays ==
  ASSUME IInv, [Next]_vars, NEW r \in RoundIds,
         NEW s, NEW u, NEW l, NEW w, NEW v, StillSo(s, u, l, w, v, r)
  PROVE  StillSo(s, u, l, w, v, r)'
BY OverStep DEF StillSo

LEMMA UnpaidEntry ==
  ASSUME NEW x, NEW y, x.commitment = y.commitment, x.escrow = y.escrow, x.valid = y.valid,
         x.revealed_value = y.revealed_value, x.revealed_nonce = y.revealed_nonce
  PROVE  BidReceiptEntry(x) = [BidReceiptEntry(y) EXCEPT !.settled = x.settled]
BY DEF BidReceiptEntry

LEMMA EntrySoStays ==
  ASSUME IInv, [Next]_vars, NEW r \in RoundIds, NEW b \in Bidders, NEW s, NEW e,
         rounds[r].status \in Over, s \in Final => rounds[r].status = s, EntrySo(s, e, r, b)
  PROVE  EntrySo(s, e, r, b)'
<1>1. CASE bids'[r][b] = bids[r][b]
  BY <1>1 DEF EntrySo, Entry
<1>2. CASE bids'[r][b] # bids[r][b]
  <2>1. bids[r][b] \in BidRecords
    BY DEF IInv, Types
  <2>2. s \notin Final /\ bids'[r][b] = [bids[r][b] EXCEPT !.settled = TRUE]
    BY <1>2, OverStep
  <2>3. bids[r][b].settled = FALSE
    BY <1>2, <2>1, <2>2 DEF BidRecords
  <2>4. e = Entry(r, b)
    BY <2>3 DEF EntrySo, Entry, BidReceiptEntry
  <2> DEFINE x == bids[r][b]
             y == bids'[r][b]
  <2>5. /\ y.commitment = x.commitment /\ y.escrow = x.escrow /\ y.valid = x.valid
        /\ y.revealed_value = x.revealed_value /\ y.revealed_nonce = x.revealed_nonce
    BY <2>1, <2>2 DEF BidRecords
  <2>6. Entry(r, b) = [Entry(r, b)' EXCEPT !.settled = FALSE]
    <3>1. Entry(r, b) = [Entry(r, b)' EXCEPT !.settled = x.settled]
      BY <2>5, UnpaidEntry DEF Entry
    <3> QED
      BY <2>3, <3>1, Zenon
  <2> QED
    BY <2>2, <2>4, <2>6 DEF EntrySo
<1> QED
  BY <1>1, <1>2

LEMMA ContractMoves ==
  ASSUME RInv, [Next]_vars, UNCHANGED <<draft, receipt>>
  PROVE  RInv'
<1>1. IInv /\ IInv'
  BY NextIInv DEF RInv
<1>2. ASSUME draft # NoDraft PROVE DraftOk(draft)'
  <2> DEFINE r == draft.id
             s == draft.round.status
  <2>1. DraftOk(draft) /\ r \in RoundIds
    BY <1>2 DEF RInv, DraftOk
  <2>2. ASSUME s \in Over PROVE DraftSo(draft)'
    <3>1. DraftSo(draft) /\ rounds[r].status \in Over /\ (s \in Final => rounds[r].status = s)
      BY <2>1, <2>2 DEF DraftOk, DraftSo, StillSo
    <3>2. rounds'[r].bidders = rounds[r].bidders
      BY <1>1, <2>1, <3>1, OverStep
    <3>3. StillSo(s, draft.round.clearing_rule, draft.round.bidders, draft.round.winner,
                  draft.round.winning_bid, r)'
      BY <1>1, <2>1, <3>1, StillSoStays DEF DraftSo
    <3>4. DOMAIN draft.bids \subseteq Bidders
      <4>1. rounds[r].bidders \in Seq(Bidders)
        BY <1>1, <2>1 DEF IInv, Types, RoundRecords
      <4>2. \A i \in 1 .. Len(rounds[r].bidders) : rounds[r].bidders[i] \in Bidders
        BY <4>1
      <4>3. Cardinality(DOMAIN draft.bids) \in Nat
        BY <3>1, FS_CardinalityType DEF DraftSo
      <4> QED
        BY <3>1, <4>1, <4>2, <4>3 DEF DraftSo
    <3>5. \A b \in DOMAIN draft.bids : EntrySo(s, draft.bids[b], r, b)'
      BY <1>1, <2>1, <3>1, <3>4, EntrySoStays DEF DraftSo
    <3> QED
      BY <3>1, <3>2, <3>3, <3>5 DEF DraftSo
  <2> QED
    BY <2>1, <2>2 DEF DraftOk
<1>3. ASSUME receipt # NoReceipt PROVE ReceiptOk(receipt)'
  <2> DEFINE r == receipt.id
             s == receipt.status
  <2>1. ReceiptOk(receipt) /\ r \in RoundIds
    BY <1>3 DEF RInv, ReceiptOk
  <2>2. ASSUME s \in Over PROVE ReceiptSo(receipt)'
    <3>1. ReceiptSo(receipt) /\ rounds[r].status \in Over /\ (s \in Final => rounds[r].status = s)
      BY <2>1, <2>2 DEF ReceiptOk, ReceiptSo, StillSo
    <3>2. StillSo(s, receipt.clearingRule, receipt.bidders, receipt.winner,
                  receipt.winningValue, r)'
      BY <1>1, <2>1, <3>1, StillSoStays DEF ReceiptSo
    <3>3. BiddersOf(r)' = BiddersOf(r) /\ BiddersOf(r) \subseteq Bidders
      BY <1>1, <2>1, <3>1, OverStep, IndexedBidders DEF BiddersOf, IInv
    <3>4. \A b \in DOMAIN receipt.bids : EntrySo(s, receipt.bids[b], r, b)'
      BY <1>1, <2>1, <3>1, <3>3, EntrySoStays DEF ReceiptSo
    <3> QED
      BY <3>1, <3>2, <3>3, <3>4 DEF ReceiptSo
  <2> QED
    BY <2>1, <2>2 DEF ReceiptOk
<1> QED
  BY <1>1, <1>2, <1>3 DEF RInv
-----------------------------------------------------------------------------
(* The export goes on.                                                     *)

\* A page continues the index.
LEMMA NextPage ==
  ASSUME NEW q \in Seq(Bidders), NEW m \in 0 .. Len(q), NEW n \in m .. Len(q)
  PROVE  /\ SubSeq(q, 1, m) \o SubSeq(q, m + 1, n) = SubSeq(q, 1, n)
         /\ SubSeq(q, 1, Len(q)) = q
OBVIOUS

\* Whatever was read last, the draft goes on or becomes a receipt.
LEMMA Proceeds ==
  ASSUME IInv, receipt # NoReceipt => ReceiptOk(receipt), NEW d, DraftOk(d),
         Proceed(d), UNCHANGED vars
  PROVE  RInv'
<1>1. IInv'
  BY NextIInv
<1>2. CASE draft' = d /\ UNCHANGED receipt
  <2>1. DraftOk(draft)'
    <3>1. DraftSo(d) => DraftSo(draft)'
      BY <1>2 DEF DraftSo, StillSo, EntrySo, Entry, vars
    <3> QED
      BY <1>2, <3>1 DEF DraftOk, IsDraft
  <2>2. receipt # NoReceipt => ReceiptOk(receipt)'
    BY <1>2 DEF ReceiptOk, ReceiptSo, StillSo, EntrySo, Entry, BiddersOf, vars
  <2> QED
    BY <1>1, <1>2, <2>1, <2>2 DEF RInv
<1>3. CASE /\ ~d.paging /\ Len(d.bidders) = Cardinality(DOMAIN d.bids)
           /\ draft' = NoDraft /\ receipt' = RoundReceipt(d)
  <2>1. /\ receipt'.id = d.id /\ receipt'.status = d.round.status
        /\ receipt'.clearingRule = d.round.clearing_rule
        /\ receipt'.bidders = d.bidders /\ receipt'.bids = d.bids
        /\ receipt'.winner = d.round.winner /\ receipt'.winningValue = d.round.winning_bid
    BY <1>3 DEF RoundReceipt
  <2>2. ASSUME d.round.status \in Over PROVE ReceiptSo(receipt)'
    <3> DEFINE index == rounds[d.id].bidders
    <3>1. DraftSo(d) /\ d.id \in RoundIds
      BY <2>2 DEF DraftOk
    <3>2. d.bidders = index /\ d.round.bidders = index
      BY <1>3, <2>2, <3>1 DEF DraftSo, StillSo
    <3>3. index \in Seq(Bidders)
      BY <3>1 DEF IInv, Types, RoundRecords
    <3>4. DOMAIN d.bids = BiddersOf(d.id)
      BY <1>3, <3>1, <3>2, <3>3 DEF DraftSo, BiddersOf, Range
    <3>5. rounds' = rounds /\ bids' = bids
      BY DEF vars
    <3>6. StillSo(receipt.status, receipt.clearingRule, receipt.bidders, receipt.winner,
                  receipt.winningValue, receipt.id)'
      BY <2>1, <3>1, <3>2, <3>5 DEF DraftSo, StillSo
    <3>7. DOMAIN receipt'.bids = BiddersOf(receipt.id)'
      BY <2>1, <3>4, <3>5 DEF BiddersOf
    <3>8. \A b \in DOMAIN receipt'.bids :
            EntrySo(receipt.status, receipt.bids[b], receipt.id, b)'
      BY <2>1, <3>1, <3>5 DEF DraftSo, EntrySo, Entry
    <3> QED
      BY <3>6, <3>7, <3>8 DEF ReceiptSo
  <2> QED
    BY <1>1, <1>3, <2>1, <2>2 DEF RInv, ReceiptOk, DraftOk
<1> QED
  BY <1>2, <1>3 DEF Proceed

LEMMA ReadRoundOk ==
  ASSUME RInv, NEW r \in RoundIds, ReadRound(r)
  PROVE  RInv'
<1>1. /\ draft' = [id |-> r, round |-> rounds[r], cursor |-> 0, paging |-> TRUE,
                   bidders |-> <<>>, bids |-> <<>>, evidence |-> <<>>]
      /\ UNCHANGED <<vars, receipt>>
  BY DEF ReadRound, NoDraft
<1>2. rounds' = rounds /\ bids' = bids /\ IInv'
  BY <1>1, NextIInv DEF vars, RInv
<1>3. receipt # NoReceipt => ReceiptOk(receipt)'
  BY <1>1, <1>2 DEF RInv, ReceiptOk, ReceiptSo, StillSo, EntrySo, Entry, BiddersOf
<1>4. DOMAIN draft'.bids = {} /\ IsFiniteSet({}) /\ Cardinality({}) = 0
  BY <1>1, FS_EmptySet
<1>5. rounds[r].bidders \in Seq(Bidders)
  BY DEF RInv, IInv, Types, RoundRecords
<1>6. DraftSo(draft)'
  <2>1. SubSeq(rounds[r].bidders, 1, 0) = <<>>
    BY <1>5
  <2>2. 0 \in 0 .. Len(rounds[r].bidders)
    BY <1>5
  <2> QED
    BY <1>1, <1>2, <1>4, <2>1, <2>2 DEF DraftSo, StillSo
<1> QED
  BY <1>1, <1>2, <1>3, <1>6 DEF RInv, DraftOk, IsDraft

\* A page ends beyond its cursor.
LEMMA PageEnd ==
  ASSUME NEW l \in Nat, NEW c \in 0 .. l
  PROVE  AtMost(c + PAGE_SIZE, l) \in c .. l
BY ReceiptsAssumption DEF AtMost

\* The draft with the next page in it, which ends at PageStop, and with the next bid.
PageStop == AtMost(draft.cursor + PAGE_SIZE, Len(rounds[draft.id].bidders))

WithPage ==
  LET index == rounds[draft.id].bidders IN
  [draft EXCEPT !.bidders = @ \o SubSeq(index, draft.cursor + 1, PageStop),
                !.cursor  = IF PageStop < Len(index) THEN PageStop ELSE 0,
                !.paging  = PageStop < Len(index)]

NextBidder == draft.bidders[Cardinality(DOMAIN draft.bids) + 1]

WithEntry ==
  [c \in DOMAIN draft.bids \cup {NextBidder} |->
     IF c = NextBidder THEN Entry(draft.id, NextBidder) ELSE draft.bids[c]]

WithEvidence ==
  [c \in DOMAIN draft.evidence \cup {NextBidder} |->
     IF c = NextBidder THEN Evidence(draft.id, NextBidder) ELSE draft.evidence[c]]

WithBid == [draft EXCEPT !.bids = WithEntry, !.evidence = WithEvidence]

\* What the next bid leaves and changes.
LEMMA BidUpdate ==
  ASSUME IsDraft(draft)
  PROVE  /\ IsDraft(WithBid)
         /\ WithBid.id = draft.id /\ WithBid.round = draft.round
         /\ WithBid.bids = WithEntry /\ WithBid.evidence = WithEvidence
         /\ WithBid.bidders = draft.bidders /\ WithBid.cursor = draft.cursor
         /\ WithBid.paging = draft.paging
<1>1. PICK e, v : e = WithEntry /\ v = WithEvidence
  OBVIOUS
<1>2. PICK i, r, c, g, l, m, w :
        draft = [id |-> i, round |-> r, cursor |-> c, paging |-> g, bidders |-> l, bids |-> m,
                 evidence |-> w]
  BY DEF IsDraft
<1>7. WithBid = [draft EXCEPT !.bids = e, !.evidence = v]
  BY <1>1 DEF WithBid
<1>3. WithBid = [id |-> i, round |-> r, cursor |-> c, paging |-> g, bidders |-> l, bids |-> e,
                 evidence |-> v]
  BY <1>2, <1>7
<1>4. IsDraft(WithBid)
  BY <1>3 DEF IsDraft
<1>5. /\ WithBid.id = i /\ WithBid.round = r /\ WithBid.bids = e /\ WithBid.evidence = v
      /\ WithBid.bidders = l /\ WithBid.cursor = c /\ WithBid.paging = g
  BY <1>3
<1>6. /\ draft.id = i /\ draft.round = r /\ draft.bidders = l /\ draft.cursor = c
      /\ draft.paging = g
  BY <1>2
<1> QED
  BY <1>1, <1>4, <1>5, <1>6

LEMMA PageTaken ==
  ASSUME RInv, ReadPage
  PROVE  /\ draft # NoDraft /\ draft.paging /\ draft.id \in RoundIds
         /\ Proceed(WithPage) /\ UNCHANGED vars /\ DraftOk(WithPage)
         /\ WithPage.id = draft.id /\ WithPage.round = draft.round
         /\ WithPage.bids = draft.bids /\ WithPage.evidence = draft.evidence
         /\ WithPage.bidders =
              draft.bidders \o SubSeq(rounds[draft.id].bidders, draft.cursor + 1, PageStop)
         /\ WithPage.cursor = IF PageStop < Len(rounds[draft.id].bidders) THEN PageStop ELSE 0
         /\ WithPage.paging = (PageStop < Len(rounds[draft.id].bidders))
<1> DEFINE index == rounds[draft.id].bidders
           end == PageStop
           d == WithPage
<1>1. draft.paging /\ Proceed(d) /\ UNCHANGED vars
  BY DEF ReadPage, WithPage, PageStop
<1>2. DraftOk(draft) /\ draft.id \in RoundIds
  BY <1>1 DEF RInv, DraftOk, NoDraft
<1>4. index \in Seq(Bidders) /\ Len(index) \in Nat
  BY <1>2 DEF RInv, IInv, Types, RoundRecords
<1>3. /\ IsDraft(d)
      /\ d.id = draft.id /\ d.round = draft.round /\ d.bids = draft.bids
      /\ d.evidence = draft.evidence
      /\ d.bidders = draft.bidders \o SubSeq(index, draft.cursor + 1, end)
      /\ d.cursor = IF end < Len(index) THEN end ELSE 0
      /\ d.paging = (end < Len(index))
  <2> DEFINE q == draft.bidders \o SubSeq(index, draft.cursor + 1, end)
             n == IF end < Len(index) THEN end ELSE 0
             p == end < Len(index)
  <2>1. IsDraft(draft) /\ d = [draft EXCEPT !.bidders = q, !.cursor = n, !.paging = p]
    BY <1>2, Zenon DEF DraftOk, WithPage
  <2> HIDE DEF q, n, p
  <2>2. PICK i, r, c, g, l, e, v : draft =
          [id |-> i, round |-> r, cursor |-> c, paging |-> g, bidders |-> l, bids |-> e,
           evidence |-> v]
    BY <2>1 DEF IsDraft
  <2>3. d = [id |-> d.id, round |-> d.round, cursor |-> d.cursor, paging |-> d.paging,
             bidders |-> d.bidders, bids |-> d.bids, evidence |-> d.evidence]
    BY <2>1, <2>2
  <2>4. /\ d.id = draft.id /\ d.round = draft.round /\ d.bids = draft.bids
        /\ d.evidence = draft.evidence
        /\ d.bidders = q /\ d.cursor = n /\ d.paging = p
    BY <2>1, <2>2
  <2>5. IsDraft(d)
    BY <2>3 DEF IsDraft
  <2> QED
    BY <2>4, <2>5, Zenon DEF q, n, p
<1>5. ASSUME draft.round.status \in Over PROVE DraftSo(d)
  <2>1. DraftSo(draft) /\ draft.cursor \in 0 .. Len(index)
    BY <1>2, <1>5 DEF DraftOk, DraftSo
  <2>2. end \in draft.cursor .. Len(index)
    BY <1>4, <2>1, PageEnd, Zenon DEF PageStop
  <2>3. draft.bidders \o SubSeq(index, draft.cursor + 1, end) = SubSeq(index, 1, end)
    <3>1. draft.bidders = SubSeq(index, 1, draft.cursor)
      BY <1>1, <2>1 DEF DraftSo
    <3> QED
      BY <1>4, <2>1, <2>2, <3>1, NextPage
  <2>4. ~(end < Len(index)) => SubSeq(index, 1, end) = index
    BY <1>4, <2>1, <2>2, NextPage
  <2>5. d.bidders = IF d.paging THEN SubSeq(index, 1, d.cursor) ELSE index
    BY <1>3, <2>3, <2>4
  <2>6. d.cursor \in 0 .. Len(index)
    BY <1>3, <1>4, <2>1, <2>2
  <2>7. d.id = draft.id /\ d.round = draft.round /\ d.bids = draft.bids
    BY <1>3
  <2> QED
    BY <1>1, <2>1, <2>5, <2>6, <2>7 DEF DraftSo
<1>6. DraftOk(d)
  BY <1>2, <1>3, <1>5 DEF DraftOk
<1> QED
  BY <1>1, <1>2, <1>3, <1>6 DEF NoDraft

LEMMA ReadPageOk ==
  ASSUME RInv, ReadPage
  PROVE  RInv'
BY PageTaken, Proceeds DEF RInv

LEMMA BidTaken ==
  ASSUME RInv, ReadBid
  PROVE  /\ draft # NoDraft /\ ~draft.paging /\ draft.id \in RoundIds
         /\ Cardinality(DOMAIN draft.bids) < Len(draft.bidders)
         /\ Proceed(WithBid) /\ UNCHANGED vars /\ DraftOk(WithBid)
         /\ WithBid.id = draft.id /\ WithBid.round = draft.round
         /\ WithBid.bids = WithEntry /\ WithBid.bidders = draft.bidders
         /\ WithBid.paging = draft.paging /\ WithBid.evidence = WithEvidence
<1> DEFINE index == rounds[draft.id].bidders
           read == Cardinality(DOMAIN draft.bids)
           b == NextBidder
           entries == WithEntry
           d == WithBid
<1>1. /\ draft # NoDraft /\ ~draft.paging /\ read < Len(draft.bidders)
      /\ Proceed(d) /\ UNCHANGED vars
  BY DEF ReadBid, Entry, WithBid, WithEntry, WithEvidence, NextBidder
<1>2. DraftOk(draft) /\ draft.id \in RoundIds
  BY <1>1 DEF RInv, DraftOk
<1>3. /\ IsDraft(d)
      /\ d.id = draft.id /\ d.round = draft.round /\ d.bids = entries
      /\ d.bidders = draft.bidders /\ d.cursor = draft.cursor /\ d.paging = draft.paging
      /\ d.evidence = WithEvidence
  BY <1>2, BidUpdate DEF DraftOk
<1>4. index \in Seq(Bidders) /\ IsInjective(index)
  BY <1>2 DEF RInv, IInv, Types, RoundRecords, RoundOk, IndexOk
<1>5. ASSUME draft.round.status \in Over PROVE DraftSo(d)
  <2>1. DraftSo(draft) /\ draft.bidders = index /\ IsFiniteSet(DOMAIN draft.bids)
    BY <1>1, <1>2, <1>5 DEF DraftOk, DraftSo
  <2>2. read \in Nat /\ read + 1 \in 1 .. Len(index) /\ b = index[read + 1]
    BY <1>1, <1>4, <2>1, FS_CardinalityType DEF NextBidder
  <2>3. DOMAIN draft.bids = {index[i] : i \in 1 .. read}
    BY <2>1 DEF DraftSo
  <2>4. b \notin DOMAIN draft.bids
    BY <1>4, <2>2, <2>3 DEF IsInjective
  <2>5. /\ DOMAIN entries = DOMAIN draft.bids \cup {b}
        /\ IsFiniteSet(DOMAIN entries) /\ Cardinality(DOMAIN entries) = read + 1
    BY <2>1, <2>4, FS_AddElement DEF WithEntry
  <2>6. DOMAIN entries = {index[i] : i \in 1 .. read + 1}
    BY <2>2, <2>3, <2>5
  <2>7. \A c \in DOMAIN entries : EntrySo(draft.round.status, entries[c], draft.id, c)
    <3>1. EntrySo(draft.round.status, Entry(draft.id, b), draft.id, b)
      BY DEF EntrySo
    <3> QED
      BY <2>1, <2>5, <3>1 DEF DraftSo, WithEntry
  <2>8. /\ d.id = draft.id /\ d.round = draft.round /\ d.bids = entries
        /\ d.cursor = draft.cursor /\ d.paging = draft.paging /\ d.bidders = draft.bidders
    BY <1>3
  <2> QED
    <3>1. read + 1 <= Len(index)
      BY <1>4, <2>2
    <3>2. /\ d.cursor \in 0 .. Len(index) /\ ~d.paging /\ d.bidders = index
          /\ StillSo(d.round.status, d.round.clearing_rule, d.round.bidders, d.round.winner,
                     d.round.winning_bid, d.id)
      BY <1>1, <2>1, <2>8 DEF DraftSo
    <3> QED
      BY <2>5, <2>6, <2>7, <2>8, <3>1, <3>2 DEF DraftSo
<1>6. DraftOk(d)
  BY <1>2, <1>3, <1>5 DEF DraftOk
<1> QED
  BY <1>1, <1>2, <1>3, <1>6

LEMMA ReadBidOk ==
  ASSUME RInv, ReadBid
  PROVE  RInv'
BY BidTaken, Proceeds DEF RInv

-----------------------------------------------------------------------------
LEMMA RInvAlways == ReceiptsSpec => []RInv
<1>1. ReceiptsInit => RInv
  <2>1. ReceiptsInit => IInv /\ draft = NoDraft /\ receipt = NoReceipt
    BY InitIInv DEF ReceiptsInit
  <2> QED
    BY <2>1 DEF RInv
<1>2. ASSUME RInv, [ReceiptsNext]_receiptVars PROVE RInv'
  <2>1. CASE [Next]_vars /\ UNCHANGED <<draft, receipt>>
    BY <1>2, <2>1, ContractMoves
  <2>2. CASE Export
    <3>1. CASE ExportFails
      <4>1. draft' = NoDraft /\ UNCHANGED receipt /\ rounds' = rounds /\ bids' = bids
            /\ UNCHANGED vars
        BY <3>1 DEF ExportFails, vars
      <4>2. IInv'
        BY <1>2, <4>1, NextIInv DEF RInv
      <4> QED
        BY <1>2, <4>1, <4>2
        DEF RInv, ReceiptOk, ReceiptSo, StillSo, EntrySo, Entry, BiddersOf
    <3> QED
      BY <1>2, <2>2, <3>1, ReadRoundOk, ReadPageOk, ReadBidOk DEF Export
  <2> QED
    BY <1>2, <2>1, <2>2 DEF ReceiptsNext, receiptVars
<1> QED
  BY <1>1, <1>2, PTL DEF ReceiptsSpec

\* "Anyone can re-export and compare" (docs/RECEIPTS.md:71): receipts of a finished
\* round agree with the contract, and so with each other, for ever.
THEOREM FinishedReceiptsAreAlike == ReceiptsSpec => []FinishedReceiptsAgree
<1>1. RInv => FinishedReceiptsAgree
  <2> SUFFICES ASSUME RInv, receipt # NoReceipt, receipt.status \in Over
               PROVE  FinishedReceiptsAgree
    BY DEF FinishedReceiptsAgree
  <2> DEFINE r == receipt.id
  <2>1. r \in RoundIds /\ ReceiptSo(receipt)
    BY DEF RInv, ReceiptOk
  <2>2. ASSUME receipt.status \in Final
        PROVE  \A b \in DOMAIN receipt.bids : receipt.bids[b].settled
    <3>1. rounds[r].status \in Final
      BY <2>1, <2>2 DEF ReceiptSo, StillSo
    <3>2. \A b \in BiddersOf(r) : bids[r][b].settled
      BY <2>1, <3>1 DEF RInv, IInv, RoundOk, PhaseOk
    <3> QED
      <4>1. \A b \in DOMAIN receipt.bids : receipt.bids[b] = BidReceiptEntry(bids[r][b])
        BY <2>1, <2>2 DEF ReceiptSo, EntrySo, Entry
      <4>2. \A x : BidReceiptEntry(x).settled = x.settled
        BY DEF BidReceiptEntry
      <4> QED
        BY <2>1, <3>2, <4>1, <4>2 DEF ReceiptSo
  <2> QED
    BY <2>1, <2>2
    DEF FinishedReceiptsAgree, ReceiptSo, StillSo, EntrySo, Entry, BiddersOf
<1> QED
  BY <1>1, RInvAlways, PTL

-----------------------------------------------------------------------------
(* The walk of verifyReceipt.  It is a fold over the positions of the list,  *)
(* from the last one down: what it has found after the first k positions is  *)
(* the best of them.                                                         *)

\* Any receipt the walk can be asked about: a list of accounts, and for some accounts
\* an entry with a value or none.
Walkable(R) ==
  /\ R.bidders \in Seq(Bidders)
  /\ \A b \in DOMAIN R.bids : R.bids[b].revealedValue \in Values \cup {None}

\* The positions that take part, and the value at each.
Taking(R) ==
  {i \in DOMAIN R.bidders :
     LET b == R.bidders[i]
     IN  b \in DOMAIN R.bids /\ R.bids[b].revealedValue # None /\ R.bids[b].valid}

Shown(R, i) == R.bids[R.bidders[i]].revealedValue

\* Position i beats those of C before it and is beaten by none after it.
BestOf(R, i, C) ==
  /\ i \in C
  /\ \A j \in C : /\ j < i => Better(R.clearingRule, Shown(R, i), Shown(R, j))
                  /\ j > i => ~Better(R.clearingRule, Shown(R, j), Shown(R, i))

\* What the walk says if the positions of C are all there is.
Verdict(R, C, w) ==
  \/ C = {} /\ w = Nobody
  \/ \E i \in C : BestOf(R, i, C) /\ w = [address |-> R.bidders[i], value |-> Shown(R, i)]

LEMMA MaxIsMember ==
  ASSUME NEW n \in Nat, NEW s \in SUBSET (1 .. n), s # {}
  PROVE  Seqs!Max(s) \in s /\ \A i \in s : Seqs!Max(s) >= i
<1> DEFINE G == {T \in SUBSET s : T # {} => \E m \in T : \A i \in T : m >= i}
<1>1. IsFiniteSet(s)
  <2>1. IsFiniteSet(1 .. n) BY FS_Interval
  <2> QED BY <2>1, FS_Subset
<1>2. ASSUME NEW T \in SUBSET s, \A x \in T : T \ {x} \in G PROVE T \in G
  <2> SUFFICES ASSUME T # {} PROVE \E m \in T : \A i \in T : m >= i OBVIOUS
  <2>1. PICK x \in T : TRUE OBVIOUS
  <2>2. CASE T \ {x} = {}
    <3>1. \A i \in T : x >= i BY <2>2
    <3> QED BY <3>1
  <2>3. CASE T \ {x} # {}
    <3>1. PICK m \in T \ {x} : \A i \in T \ {x} : m >= i BY <1>2, <2>3
    <3>2. CASE m >= x BY <3>1, <3>2
    <3>3. CASE ~(m >= x)
      <4>1. \A i \in T : x >= i BY <3>1, <3>3
      <4> QED BY <4>1
    <3> QED BY <3>2, <3>3
  <2> QED BY <2>2, <2>3
<1>3. s \in G
  <2> HIDE DEF G
  <2> QED BY <1>1, <1>2, SetInduction
<1>4. \E m \in s : \A i \in s : m >= i BY <1>3
<1> QED BY <1>4 DEF Seqs!Max

LEMMA ConsiderType ==
  ASSUME NEW R, Walkable(R), NEW best \in [address : Bidders \cup {None}, value : Values \cup {None}],
         NEW i \in DOMAIN R.bidders
  PROVE  Consider(R, best, R.bidders[i])
           \in [address : Bidders \cup {None}, value : Values \cup {None}]
<1>1. R.bidders[i] \in Bidders BY DEF Walkable
<1>2. R.bidders[i] \in DOMAIN R.bids => R.bids[R.bidders[i]].revealedValue \in Values \cup {None}
  BY DEF Walkable
<1> QED BY <1>1, <1>2 DEF Consider

\* The fold is the walk: one step per position, from the first to the last.
LEMMA WalkSteps ==
  ASSUME NEW R, Walkable(R)
  PROVE  \E acc : /\ acc[0] = Nobody
                  /\ \A k \in 1 .. Len(R.bidders) :
                       acc[k] = Consider(R, acc[k - 1], R.bidders[k])
                  /\ ComputedWinner(R) = acc[Len(R.bidders)]
<1>1. PICK n \in Nat : n = Len(R.bidders) /\ DOMAIN R.bidders = 1 .. n BY DEF Walkable
<1>2. PICK A : A = [address : Bidders \cup {None}, value : Values \cup {None}] OBVIOUS
<1>3. PICK pick : pick = [s \in SUBSET (1 .. n) |-> Seqs!Max(s)] OBVIOUS
<1>4. PICK step : step = [p \in (1 .. n) \X A |-> Consider(R, p[2], R.bidders[p[1]])] OBVIOUS
<1>5. Picks(pick, 1 .. n) BY <1>3, MaxIsMember DEF Picks
<1>6. step \in [(1 .. n) \X A -> A]
  <2>1. \A i \in 1 .. n : \A best \in A : Consider(R, best, R.bidders[i]) \in A
    BY <1>1, <1>2, ConsiderType
  <2> QED BY <1>4, <2>1
<1>7. Nobody \in A BY <1>2 DEF Nobody
<1>8. IsFiniteSet(1 .. n) BY FS_Interval
<1>9. PICK f \in [SUBSET (1 .. n) -> A] : FoldsSubsets(f, 1 .. n, Nobody, pick, step)
  BY <1>5, <1>6, <1>7, <1>8, FoldExists
<1> DEFINE E(g) == g = [s \in SUBSET DOMAIN R.bidders |->
                          IF s = {} THEN Nobody
                          ELSE Consider(R, g[s \ {Seqs!Max(s)}], R.bidders[Seqs!Max(s)])]
<1>10. E(f)
  <2>1. \A s \in SUBSET (1 .. n) : s # {} =>
          step[<<pick[s], f[s \ {pick[s]}]>>]
            = Consider(R, f[s \ {Seqs!Max(s)}], R.bidders[Seqs!Max(s)])
    <3> SUFFICES ASSUME NEW s \in SUBSET (1 .. n), s # {}
                 PROVE  step[<<pick[s], f[s \ {pick[s]}]>>]
                          = Consider(R, f[s \ {Seqs!Max(s)}], R.bidders[Seqs!Max(s)])
      OBVIOUS
    <3>1. pick[s] = Seqs!Max(s) /\ pick[s] \in 1 .. n BY <1>3, <1>5 DEF Picks
    <3>2. f[s \ {pick[s]}] \in A OBVIOUS
    <3>3. <<pick[s], f[s \ {pick[s]}]>> \in (1 .. n) \X A BY <3>1, <3>2
    <3>4. step[<<pick[s], f[s \ {pick[s]}]>>] = Consider(R, f[s \ {pick[s]}], R.bidders[pick[s]])
      BY <1>4, <3>3
    <3> QED BY <3>1, <3>4
  <2> QED BY <1>1, <1>9, <2>1 DEF FoldsSubsets
<1>11. ComputedWinner(R) = (CHOOSE g : E(g))[DOMAIN R.bidders]
  BY DEF ComputedWinner, Seqs!FoldLeft, Seqs!MapThenFoldSet
<1>12. PICK g : E(g) /\ ComputedWinner(R) = g[1 .. n]
  <2>1. E(CHOOSE g : E(g))
    <3> HIDE DEF E
    <3> QED BY <1>10
  <2> HIDE DEF E
  <2> QED BY <1>1, <1>11, <2>1
<1>13. PICK acc : acc = [k \in 0 .. n |-> g[1 .. k]] OBVIOUS
<1>14. acc[0] = Nobody
  <2>1. 1 .. 0 = {} OBVIOUS
  <2>2. g[{}] = Nobody BY <1>12
  <2>3. acc[0] = g[1 .. 0] BY <1>13
  <2> QED BY <2>1, <2>2, <2>3
<1>15. ASSUME NEW k \in 1 .. n PROVE acc[k] = Consider(R, acc[k - 1], R.bidders[k])
  <2>1. 1 .. k \in SUBSET (1 .. n) /\ 1 .. k # {} OBVIOUS
  <2>2. Seqs!Max(1 .. k) \in 1 .. k /\ Seqs!Max(1 .. k) >= k
    <3>1. k \in 1 .. k OBVIOUS
    <3> QED BY <2>1, <3>1, MaxIsMember
  <2>3. Seqs!Max(1 .. k) = k BY <2>2
  <2>4. (1 .. k) \ {k} = 1 .. k - 1 OBVIOUS
  <2>5. g[1 .. k] = Consider(R, g[(1 .. k) \ {Seqs!Max(1 .. k)}], R.bidders[Seqs!Max(1 .. k)])
    BY <1>1, <1>12, <2>1
  <2>6. acc[k] = g[1 .. k] /\ acc[k - 1] = g[1 .. k - 1] BY <1>13
  <2> QED BY <2>3, <2>4, <2>5, <2>6
<1>16. acc[n] = g[1 .. n] BY <1>13
<1> QED BY <1>1, <1>12, <1>14, <1>15, <1>16

\* The walk finds the first of the best, or nobody if nobody takes part.
LEMMA WalkResult ==
  ASSUME NEW R, Walkable(R)
  PROVE  Verdict(R, Taking(R), ComputedWinner(R))
<1>1. PICK acc : /\ acc[0] = Nobody
                 /\ \A k \in 1 .. Len(R.bidders) : acc[k] = Consider(R, acc[k - 1], R.bidders[k])
                 /\ ComputedWinner(R) = acc[Len(R.bidders)]
  BY WalkSteps
<1>2. PICK n \in Nat : n = Len(R.bidders) /\ DOMAIN R.bidders = 1 .. n BY DEF Walkable
<1> DEFINE C(k) == Taking(R) \cap (1 .. k)
           G == {k \in Nat : k <= n => Verdict(R, C(k), acc[k])}
<1>3. \A i \in Taking(R) : i \in 1 .. n /\ Shown(R, i) \in Int /\ Shown(R, i) # None
  <2>1. \A i \in Taking(R) : i \in 1 .. n /\ Shown(R, i) \in Values \cup {None} /\ Shown(R, i) # None
    BY <1>2 DEF Taking, Shown, Walkable
  <2> QED BY <2>1, RoundAssumption
<1>4. 0 \in G
  <2>1. C(0) = {} OBVIOUS
  <2> QED BY <1>1, <2>1 DEF Verdict
<1>5. ASSUME NEW k \in Nat, k \in G, k + 1 <= n PROVE Verdict(R, C(k + 1), acc[k + 1])
  <2>0. k + 1 \in 1 .. n /\ (k + 1) - 1 = k BY <1>5
  <2>1. Verdict(R, C(k), acc[k]) BY <1>5, <2>0
  <2>2. acc[k + 1] = Consider(R, acc[k], R.bidders[k + 1]) BY <1>1, <1>2, <2>0
  <2>3. CASE k + 1 \notin Taking(R)
    <3>1. C(k + 1) = C(k) BY <2>3
    <3>2. acc[k + 1] = acc[k] BY <1>2, <2>0, <2>2, <2>3 DEF Consider, Taking
    <3> QED BY <2>1, <3>1, <3>2
  <2>4. CASE k + 1 \in Taking(R)
    <3>1. C(k + 1) = C(k) \cup {k + 1} BY <2>4
    <3>2. /\ R.bidders[k + 1] \in DOMAIN R.bids
          /\ R.bids[R.bidders[k + 1]].valid /\ Shown(R, k + 1) # None
      BY <2>4 DEF Taking, Shown
    <3>3. acc[k + 1] = IF Beats(R.clearingRule, Shown(R, k + 1), acc[k].value)
                       THEN [address |-> R.bidders[k + 1], value |-> Shown(R, k + 1)] ELSE acc[k]
      BY <2>2, <3>2 DEF Consider, Shown
    <3>4. CASE C(k) = {}
      <4>1. acc[k] = Nobody BY <2>1, <3>4 DEF Verdict
      <4>2. acc[k + 1] = [address |-> R.bidders[k + 1], value |-> Shown(R, k + 1)]
        BY <3>3, <4>1 DEF Beats, Nobody
      <4>3. BestOf(R, k + 1, C(k + 1)) BY <3>1, <3>4 DEF BestOf
      <4> QED BY <3>1, <4>2, <4>3 DEF Verdict
    <3>5. CASE C(k) # {}
      <4>1. PICK i \in C(k) : /\ BestOf(R, i, C(k))
                              /\ acc[k] = [address |-> R.bidders[i], value |-> Shown(R, i)]
        BY <2>1, <3>5 DEF Verdict
      <4>2. \A j \in C(k) : j \in 1 .. k /\ Shown(R, j) \in Int BY <1>3
      <4>3. Shown(R, k + 1) \in Int /\ Shown(R, i) # None /\ acc[k].value = Shown(R, i)
        BY <1>3, <2>4, <4>1
      <4>4. CASE Better(R.clearingRule, Shown(R, k + 1), Shown(R, i))
        <5>1. acc[k + 1] = [address |-> R.bidders[k + 1], value |-> Shown(R, k + 1)]
          BY <3>3, <4>3, <4>4 DEF Beats, Better
        <5>2. BestOf(R, k + 1, C(k + 1))
          <6>1. ASSUME NEW j \in C(k)
                PROVE  j < k + 1 /\ Better(R.clearingRule, Shown(R, k + 1), Shown(R, j))
            <7>1. /\ j < i => Better(R.clearingRule, Shown(R, i), Shown(R, j))
                  /\ j > i => ~Better(R.clearingRule, Shown(R, j), Shown(R, i))
              BY <4>1 DEF BestOf
            <7>2. j \in 1 .. k /\ i \in 1 .. k /\ Shown(R, j) \in Int /\ Shown(R, i) \in Int
              BY <4>2
            <7>3. j < i \/ j > i \/ j = i BY <7>2
            <7> QED BY <4>3, <4>4, <7>1, <7>2, <7>3 DEF Better
          <6> QED BY <3>1, <4>2, <6>1 DEF BestOf
        <5> QED BY <3>1, <5>1, <5>2 DEF Verdict
      <4>5. CASE ~Better(R.clearingRule, Shown(R, k + 1), Shown(R, i))
        <5>1. acc[k + 1] = acc[k] BY <3>3, <4>3, <4>5 DEF Beats, Better
        <5>2. BestOf(R, i, C(k + 1)) BY <3>1, <4>1, <4>2, <4>5 DEF BestOf
        <5> QED BY <3>1, <4>1, <5>1, <5>2 DEF Verdict
      <4> QED BY <4>4, <4>5
    <3> QED BY <3>4, <3>5
  <2> QED BY <2>3, <2>4
<1>6. n \in G
  <2>1. \A k \in Nat : k \in G => k + 1 \in G
    <3> SUFFICES ASSUME NEW k \in Nat, k \in G PROVE k + 1 \in G OBVIOUS
    <3>1. k + 1 <= n => Verdict(R, C(k + 1), acc[k + 1]) BY <1>5
    <3>2. k + 1 \in Nat OBVIOUS
    <3> QED BY <3>1, <3>2, Zenon
  <2> HIDE DEF G
  <2> QED BY <1>4, <2>1, NatSetInduction
<1>7. C(n) = Taking(R)
  <2>1. Taking(R) \subseteq 1 .. n BY <1>2 DEF Taking
  <2> QED BY <2>1
<1>8. Verdict(R, C(n), acc[n]) BY <1>6
<1> QED BY <1>1, <1>2, <1>7, <1>8

\* There is one first of the best.
LEMMA BestIsOne ==
  ASSUME NEW R, Walkable(R), NEW i, NEW j, BestOf(R, i, Taking(R)), BestOf(R, j, Taking(R))
  PROVE  i = j
<1>1. i \in Taking(R) /\ j \in Taking(R) /\ i \in Nat /\ j \in Nat
  BY DEF BestOf, Taking, Walkable
<1>2. Shown(R, i) \in Int /\ Shown(R, j) \in Int
  BY <1>1, RoundAssumption DEF Taking, Shown, Walkable
<1>3. CASE i < j BY <1>1, <1>2, <1>3 DEF BestOf, Better
<1>4. CASE j < i BY <1>1, <1>2, <1>4 DEF BestOf, Better
<1> QED BY <1>1, <1>3, <1>4

-----------------------------------------------------------------------------
(* What every receipt is, whatever happened between its reads.             *)

\* An entry as it can be read: a revealed bid opens to its commitment.
EntryRecords ==
  [commitment : Preimages \cup {None}, escrow : Nat,
   revealedValue : Values \cup {None}, nonce : Nonces \cup {None},
   valid : BOOLEAN, settled : BOOLEAN]

EntryFine(e) ==
  /\ e \in EntryRecords
  /\ e.revealedValue # None <=> e.nonce # None
  /\ e.revealedValue # None => e.commitment = Hash(e.revealedValue, e.nonce)

\* A draft lists the bidders of a first part of the index, which goes on growing while
\* it is read, and has the entries of the first few of them.
DraftWell(d) ==
  LET index == rounds[d.id].bidders IN
  /\ rounds[d.id].status # "Absent"
  /\ \E n \in 0 .. Len(index) :
       d.bidders = SubSeq(index, 1, n) /\ (d.paging => d.cursor = n)
  /\ IsFiniteSet(DOMAIN d.bids)
  /\ Cardinality(DOMAIN d.bids) <= Len(d.bidders)
  /\ d.paging => Cardinality(DOMAIN d.bids) = 0
  /\ DOMAIN d.bids = {d.bidders[i] : i \in 1 .. Cardinality(DOMAIN d.bids)}
  /\ \A b \in DOMAIN d.bids : EntryFine(d.bids[b])
  /\ DOMAIN d.evidence = DOMAIN d.bids
  /\ d.round.winner # None <=> d.round.status \in Decided

IsReceipt(R) ==
  \E i, u, s, l, e, f, w, v :
    R = [id |-> i, clearingRule |-> u, status |-> s, bidders |-> l, bids |-> e, evidence |-> f,
         winner |-> w, winningValue |-> v]

ReceiptWell(R) ==
  /\ IsReceipt(R)
  /\ R.bidders \in Seq(Bidders) /\ IsInjective(R.bidders)
  /\ DOMAIN R.bids = Range(R.bidders)
  /\ \A b \in DOMAIN R.bids : EntryFine(R.bids[b])
  /\ DOMAIN R.evidence = DOMAIN R.bids
  /\ R.winner # None <=> R.status \in Decided

WInv ==
  /\ draft # NoDraft => DraftWell(draft)
  /\ receipt # NoReceipt => ReceiptWell(receipt)

\* Whatever is stored for a bidder makes a fine entry.
LEMMA FineEntry ==
  ASSUME IInv, NEW r \in RoundIds, NEW b \in Bidders
  PROVE  EntryFine(BidReceiptEntry(bids[r][b]))
<1> DEFINE x == bids[r][b]
<1>1. x \in BidRecords /\ MoneyOk(r, b) /\ RevealOk(r, b)
  BY DEF IInv, Types, RoundOk
<1>2. x.escrow \in Nat
  <2>1. CASE HasBid(r, b)
    BY <1>1, <2>1 DEF MoneyOk, BidRecords
  <2>2. CASE ~HasBid(r, b)
    BY <2>2 DEF HasBid, NoBid
  <2> QED
    BY <2>1, <2>2
<1>3. x.revealed_value # None => x.revealed_nonce # None
  <2>1. ASSUME x.revealed_value # None
        PROVE  <<x.revealed_value, x.revealed_nonce>> \in Values \X Nonces
    BY <1>1, <2>1 DEF RevealOk, MoneyOk, BidRecords, Hash, Preimages
  <2> QED
    BY <2>1, RoundAssumption
<1>4. PICK e : e = BidReceiptEntry(x)
  OBVIOUS
<1>5. /\ e = [commitment |-> x.commitment, escrow |-> x.escrow,
              revealedValue |-> x.revealed_value, nonce |-> x.revealed_nonce,
              valid |-> x.valid, settled |-> x.settled]
  BY <1>4 DEF BidReceiptEntry
<1>6. e \in EntryRecords
  BY <1>1, <1>2, <1>5 DEF EntryRecords, BidRecords
<1>7. EntryFine(e)
  <2>1. /\ e.commitment = x.commitment /\ e.revealedValue = x.revealed_value
        /\ e.nonce = x.revealed_nonce
    BY <1>5
  <2> QED
    BY <1>1, <1>3, <1>6, <2>1 DEF EntryFine, RevealOk
<1> QED
  BY <1>4, <1>7

\* A call adds at most one bidder to the index, at its end.
LEMMA IndexGrows ==
  ASSUME IInv, [Next]_vars, NEW r \in RoundIds, rounds[r].status # "Absent"
  PROVE  /\ rounds'[r].status # "Absent"
         /\ \/ rounds'[r].bidders = rounds[r].bidders
            \/ \E b \in Bidders : rounds'[r].bidders = Append(rounds[r].bidders, b)
<1> DEFINE Grown ==
      /\ rounds'[r].status # "Absent"
      /\ \/ rounds'[r].bidders = rounds[r].bidders
         \/ \E b \in Bidders : rounds'[r].bidders = Append(rounds[r].bidders, b)
<1>1. CASE Environment \/ UNCHANGED vars
  BY <1>1 DEF Environment, Tick, ProduceRound, Freeze, Thaw, vars
<1>2. ASSUME NEW q \in RoundIds, RoundStep(q) PROVE Grown
  <2>0. rounds[q] \in RoundRecords /\ rounds \in [RoundIds -> RoundRecords]
    BY DEF IInv, Types
  <2>1. CASE \E o \in Operators, s \in Schedules, u \in Rules : CreateRound(q, o, s, u)
    BY <2>0, <2>1 DEF CreateRound
  <2>2. CASE \E b \in Bidders, s \in Sealings, e \in Escrows : Commit(q, b, s[1], s[2], e)
    <3>1. PICK b \in Bidders : rounds' = [rounds EXCEPT ![q].bidders = IndexWith(q, b)]
      BY <2>2 DEF Commit
    <3>2. IndexWith(q, b) \in {rounds[q].bidders, Append(rounds[q].bidders, b)}
      BY DEF IndexWith
    <3>3. q = r => rounds'[r].bidders = IndexWith(q, b)
      BY <2>0, <3>1 DEF RoundRecords
    <3>4. q # r => rounds'[r].bidders = rounds[r].bidders
      BY <2>0, <3>1
    <3>5. rounds'[r].status = rounds[r].status
      BY <2>0, <3>1 DEF RoundRecords
    <3> QED
      BY <3>2, <3>3, <3>4, <3>5
  <2>3. CASE UNCHANGED rounds
    BY <2>3
  <2>4. CASE \/ \E b \in Bidders, v \in Values, n \in Nonces : Reveal(q, b, v, n)
             \/ \E b \in Bidders : GetSeal(q, b)
    BY <2>4 DEF Reveal, GetSeal
  <2>5. CASE Advance(q)
    <3>1. \/ \E st \in Statuses \ {"Absent"} : rounds' = [rounds EXCEPT ![q].status = st]
          \/ \E w, v : rounds' = [rounds EXCEPT ![q] =
                 [@ EXCEPT !.winner = w, !.winning_bid = v, !.status = "Cleared"]]
      BY <2>5 DEF Advance, Clear, OpenReveal, ClearToWinner, ClearToVoid, Settle, Void, Statuses
    <3>2. CASE \E st \in Statuses \ {"Absent"} : rounds' = [rounds EXCEPT ![q].status = st]
      BY <2>0, <3>2 DEF RoundRecords
    <3>3. CASE \E w, v : rounds' = [rounds EXCEPT ![q] =
                 [@ EXCEPT !.winner = w, !.winning_bid = v, !.status = "Cleared"]]
      <4>1. PICK w, v : rounds' = [rounds EXCEPT ![q] =
                 [rounds[q] EXCEPT !.winner = w, !.winning_bid = v, !.status = "Cleared"]]
        BY <3>3
      <4>2. q = r => rounds'[r] =
              [rounds[q] EXCEPT !.winner = w, !.winning_bid = v, !.status = "Cleared"]
        BY <2>0, <4>1
      <4>3. q # r => rounds'[r] = rounds[r]
        BY <2>0, <4>1
      <4> QED
        BY <2>0, <4>2, <4>3 DEF RoundRecords
    <3> QED
      BY <3>1, <3>2, <3>3
  <2> QED
    BY <1>2, <2>1, <2>2, <2>4, <2>5 DEF RoundStep, BidderStep
<1> QED
  BY <1>1, <1>2 DEF Next

\* What was read of the index is a first part of it as long as it only grows.
LEMMA PrefixStays ==
  ASSUME NEW q \in Seq(Bidders), NEW p, NEW n \in 0 .. Len(q),
         p = q \/ \E b \in Bidders : p = Append(q, b)
  PROVE  n \in 0 .. Len(p) /\ SubSeq(p, 1, n) = SubSeq(q, 1, n)
OBVIOUS

LEMMA DraftWellStays ==
  ASSUME RInv, WInv, [Next]_vars, draft # NoDraft, UNCHANGED draft
  PROVE  DraftWell(draft)'
<1>1. DraftWell(draft) /\ draft.id \in RoundIds /\ IInv
  BY DEF WInv, RInv, DraftOk
<1> DEFINE r == draft.id
<1>2. PICK n \in 0 .. Len(rounds[r].bidders) :
        draft.bidders = SubSeq(rounds[r].bidders, 1, n) /\ (draft.paging => draft.cursor = n)
  BY <1>1 DEF DraftWell
<1>3. /\ rounds'[r].status # "Absent"
      /\ \/ rounds'[r].bidders = rounds[r].bidders
         \/ \E b \in Bidders : rounds'[r].bidders = Append(rounds[r].bidders, b)
  BY <1>1, IndexGrows DEF DraftWell
<1>4. rounds[r].bidders \in Seq(Bidders)
  BY <1>1 DEF IInv, Types, RoundRecords
<1>5. /\ n \in 0 .. Len(rounds'[r].bidders)
      /\ SubSeq(rounds'[r].bidders, 1, n) = SubSeq(rounds[r].bidders, 1, n)
  BY ONLY <1>3, <1>4, n \in 0 .. Len(rounds[r].bidders), PrefixStays
<1> QED
  BY <1>1, <1>2, <1>3, <1>5 DEF DraftWell

\* Whatever was read last, the draft goes on or becomes a receipt.
LEMMA ProceedsWell ==
  ASSUME IInv, WInv, NEW d, DraftOk(d), DraftWell(d), Proceed(d), UNCHANGED vars
  PROVE  WInv'
<1>1. rounds' = rounds
  BY DEF vars
<1>2. CASE draft' = d /\ UNCHANGED receipt
  <2>1. DraftWell(draft)'
    BY <1>1, <1>2 DEF DraftWell
  <2> QED
    BY <1>2, <2>1 DEF WInv, ReceiptWell, IsReceipt
<1>3. CASE /\ ~d.paging /\ Len(d.bidders) = Cardinality(DOMAIN d.bids)
           /\ draft' = NoDraft /\ receipt' = RoundReceipt(d)
  <2>1. /\ receipt'.status = d.round.status /\ receipt'.winner = d.round.winner
        /\ receipt'.bidders = d.bidders /\ receipt'.bids = d.bids /\ IsReceipt(receipt')
        /\ receipt'.evidence = d.evidence
    BY <1>3 DEF RoundReceipt, IsReceipt
  <2>2. rounds[d.id].bidders \in Seq(Bidders) /\ IsInjective(rounds[d.id].bidders)
    BY DEF DraftOk, IInv, Types, RoundRecords, RoundOk, IndexOk
  <2>3. PICK n \in 0 .. Len(rounds[d.id].bidders) : d.bidders = SubSeq(rounds[d.id].bidders, 1, n)
    BY DEF DraftWell
  <2>4. /\ d.bidders \in Seq(Bidders)
        /\ DOMAIN d.bidders = 1 .. n /\ Len(d.bidders) = n
        /\ \A i \in 1 .. n : d.bidders[i] = rounds[d.id].bidders[i]
    BY <2>2, <2>3
  <2>5. IsInjective(d.bidders)
    BY <2>2, <2>4 DEF IsInjective
  <2>6. DOMAIN d.bids = Range(d.bidders)
    BY <1>3, <2>4 DEF DraftWell, Range
  <2>7. ReceiptWell(receipt)'
    BY <2>1, <2>4, <2>5, <2>6 DEF DraftWell, ReceiptWell, IsReceipt
  <2> QED
    BY <1>3, <2>7 DEF WInv
<1> QED
  BY <1>2, <1>3 DEF Proceed

LEMMA ReadRoundWell ==
  ASSUME RInv, WInv, NEW r \in RoundIds, ReadRound(r)
  PROVE  WInv'
<1>1. /\ draft' = [id |-> r, round |-> rounds[r], cursor |-> 0, paging |-> TRUE,
                   bidders |-> <<>>, bids |-> <<>>, evidence |-> <<>>]
      /\ rounds' = rounds /\ receipt' = receipt /\ rounds[r].status # "Absent"
  BY DEF ReadRound, NoDraft, vars
<1>2. DOMAIN draft'.bids = {} /\ IsFiniteSet({}) /\ Cardinality({}) = 0
      /\ DOMAIN draft'.evidence = {}
  BY <1>1, FS_EmptySet
<1>3. rounds[r].bidders \in Seq(Bidders)
  BY DEF RInv, IInv, Types, RoundRecords
<1>4. rounds[r].winner # None <=> rounds[r].status \in Decided
  <2>1. ASSUME rounds[r].status \in Decided PROVE rounds[r].winner # None
    <3>1. PICK i \in DOMAIN rounds[r].bidders : rounds[r].winner = rounds[r].bidders[i]
      BY <2>1 DEF RInv, IInv, RoundOk, OutcomeOk, Candidates
    <3> QED
      BY <1>3, <3>1, RoundAssumption
  <2> QED
    BY <2>1 DEF RInv, IInv, RoundOk, PhaseOk
<1>5. SubSeq(rounds[r].bidders, 1, 0) = <<>> /\ 0 \in 0 .. Len(rounds[r].bidders) /\ Len(<<>>) = 0
  BY <1>3
<1>6. DraftWell(draft)'
  BY <1>1, <1>2, <1>4, <1>5 DEF DraftWell
<1> QED
  BY <1>1, <1>6 DEF WInv, ReceiptWell, IsReceipt

LEMMA ReadPageWell ==
  ASSUME RInv, WInv, ReadPage
  PROVE  WInv'
<1> DEFINE index == rounds[draft.id].bidders
           d == WithPage
<1>1. DraftWell(draft) /\ draft.paging /\ draft.id \in RoundIds
  BY PageTaken DEF WInv
<1>2. index \in Seq(Bidders) /\ Len(index) \in Nat
  BY <1>1 DEF RInv, IInv, Types, RoundRecords
<1>3. draft.cursor \in 0 .. Len(index) /\ draft.bidders = SubSeq(index, 1, draft.cursor)
  BY <1>1 DEF DraftWell
<1>4. PageStop \in draft.cursor .. Len(index)
  BY <1>2, <1>3, PageEnd DEF PageStop
<1>5. draft.bidders \o SubSeq(index, draft.cursor + 1, PageStop) = SubSeq(index, 1, PageStop)
  BY <1>2, <1>3, <1>4, NextPage
<1>6. /\ d.id = draft.id /\ d.round = draft.round /\ d.bids = draft.bids
      /\ d.evidence = draft.evidence
      /\ d.bidders = SubSeq(index, 1, PageStop)
      /\ d.paging => d.cursor = PageStop
  BY <1>5, PageTaken
<1>7. PageStop \in 0 .. Len(index) /\ Len(d.bidders) \in Nat
  BY <1>2, <1>3, <1>4, <1>6
<1>8. Cardinality(DOMAIN d.bids) = 0
  BY <1>1, <1>6 DEF DraftWell
<1>9. DOMAIN d.bids = {d.bidders[i] : i \in 1 .. Cardinality(DOMAIN d.bids)}
  <2>1. DOMAIN d.bids = {}
    BY <1>1, <1>6, <1>8, FS_EmptySet DEF DraftWell
  <2>2. {d.bidders[i] : i \in 1 .. 0} = {}
    OBVIOUS
  <2> QED
    BY <1>8, <2>1, <2>2
<1>10. DraftWell(d)
  BY <1>1, <1>6, <1>7, <1>8, <1>9 DEF DraftWell
<1> QED
  BY <1>10, PageTaken, ProceedsWell DEF RInv

LEMMA ReadBidWell ==
  ASSUME RInv, WInv, ReadBid
  PROVE  WInv'
<1> DEFINE index == rounds[draft.id].bidders
           read == Cardinality(DOMAIN draft.bids)
           d == WithBid
<1>1. DraftWell(draft) /\ ~draft.paging /\ draft.id \in RoundIds /\ read < Len(draft.bidders)
  BY BidTaken DEF WInv
<1>2. index \in Seq(Bidders) /\ IsInjective(index)
  BY <1>1 DEF RInv, IInv, Types, RoundRecords, RoundOk, IndexOk
<1>3. PICK n \in 0 .. Len(index) : draft.bidders = SubSeq(index, 1, n)
  BY <1>1 DEF DraftWell
<1>4. Len(draft.bidders) = n /\ \A i \in 1 .. n : draft.bidders[i] = index[i]
  BY <1>2, <1>3
<1>5. /\ IsFiniteSet(DOMAIN draft.bids) /\ read \in Nat
      /\ DOMAIN draft.bids = {draft.bidders[i] : i \in 1 .. read}
  BY <1>1, FS_CardinalityType DEF DraftWell
<1>6. read + 1 \in 1 .. n /\ NextBidder = index[read + 1] /\ NextBidder \in Bidders
  BY <1>1, <1>2, <1>4, <1>5 DEF NextBidder
<1>7. NextBidder \notin DOMAIN draft.bids
  <2>1. \A i \in 1 .. read : draft.bidders[i] = index[i] /\ i \in DOMAIN index /\ i # read + 1
    BY <1>2, <1>4, <1>5, <1>6
  <2>2. read + 1 \in DOMAIN index
    BY <1>2, <1>6
  <2> QED
    BY <1>2, <1>5, <1>6, <2>1, <2>2 DEF IsInjective
<1>8. /\ DOMAIN WithEntry = DOMAIN draft.bids \cup {NextBidder}
      /\ IsFiniteSet(DOMAIN WithEntry) /\ Cardinality(DOMAIN WithEntry) = read + 1
  BY <1>5, <1>7, FS_AddElement DEF WithEntry
<1>9. DOMAIN WithEntry = {draft.bidders[i] : i \in 1 .. read + 1}
  BY <1>4, <1>5, <1>6, <1>8
<1>10. ASSUME NEW c \in DOMAIN WithEntry PROVE EntryFine(WithEntry[c])
  <2>1. CASE c = NextBidder
    BY <1>1, <1>6, <1>8, <2>1, FineEntry DEF WithEntry, Entry, RInv
  <2>2. CASE c # NextBidder
    BY <1>1, <1>8, <2>2 DEF WithEntry, DraftWell
  <2> QED
    BY <2>1, <2>2
<1>11. /\ d.id = draft.id /\ d.round = draft.round /\ d.bids = WithEntry
       /\ d.bidders = draft.bidders /\ ~d.paging /\ d.evidence = WithEvidence
  BY <1>1, BidTaken
<1>14. DOMAIN WithEvidence = DOMAIN WithEntry
  BY <1>1 DEF WithEvidence, WithEntry, DraftWell
<1>12. read + 1 <= Len(draft.bidders)
  BY <1>4, <1>6
<1>13. DraftWell(d)
  BY <1>1, <1>3, <1>8, <1>9, <1>10, <1>11, <1>12, <1>14 DEF DraftWell
<1> QED
  BY <1>13, BidTaken, ProceedsWell DEF RInv

LEMMA WInvAlways == ReceiptsSpec => [](RInv /\ WInv)
<1>1. ReceiptsInit => WInv
  BY DEF ReceiptsInit, WInv
<1>2. ASSUME RInv, WInv, [ReceiptsNext]_receiptVars PROVE WInv'
  <2>1. CASE [Next]_vars /\ UNCHANGED <<draft, receipt>>
    <3>1. draft # NoDraft => DraftWell(draft)'
      BY <1>2, <2>1, DraftWellStays
    <3>2. receipt # NoReceipt => ReceiptWell(receipt)'
      BY <1>2, <2>1 DEF WInv, ReceiptWell, IsReceipt
    <3> QED
      BY <2>1, <3>1, <3>2 DEF WInv
  <2>2. CASE ExportFails
    BY <1>2, <2>2 DEF ExportFails, WInv, ReceiptWell, IsReceipt
  <2> QED
    BY <1>2, <2>1, <2>2, ReadRoundWell, ReadPageWell, ReadBidWell
    DEF ReceiptsNext, Export, receiptVars
<1> QED
  BY <1>1, <1>2, RInvAlways, PTL DEF ReceiptsSpec

-----------------------------------------------------------------------------
(* The verdict on a receipt.                                               *)

LEMMA WellIsWalkable ==
  ASSUME NEW R, ReceiptWell(R)
  PROVE  Walkable(R)
BY DEF ReceiptWell, Walkable, EntryFine, EntryRecords

\* Nothing else is wrong with a receipt as exported, the winner apart.
LEMMA WellIsBlameless ==
  ASSUME NEW R, ReceiptWell(R), R.winner \in {None, ComputedWinner(R).address},
         Range(R.bidders) \cap ContractAccounts = {},
         \A b \in DOMAIN R.evidence : R.evidence[b] # "empty"
  PROVE  VerifyReceipt(R).valid
<1>1. R.bidders \in Seq(Bidders) /\ IsInjective(R.bidders) /\ DOMAIN R.bids = Range(R.bidders)
  BY DEF ReceiptWell
<1>2. ~(Cardinality(Range(R.bidders)) < Len(R.bidders))
  <2>1. PICK n \in Nat : n = Len(R.bidders) /\ DOMAIN R.bidders = 1 .. n
    BY <1>1
  <2>2. IsFiniteSet(1 .. n) /\ Cardinality(1 .. n) = n
    BY FS_Interval
  <2>3. R.bidders \in Bijection(1 .. n, Range(R.bidders))
    BY <1>1, <2>1 DEF Bijection, Injection, Surjection, IsInjective, Range, IsInjective
  <2>4. Cardinality(Range(R.bidders)) = n
    BY <2>2, <2>3, FS_Bijection DEF ExistsBijection
  <2> QED
    BY <2>1, <2>4
<1>3. \A b \in Listed(R) : EntryFine(R.bids[b])
  BY DEF Listed, ReceiptWell
<1>4. \A b \in Listed(R) : ~(R.bids[b].escrow < 0)
  BY <1>3 DEF EntryFine, EntryRecords
<1>5. \A b \in Listed(R) : ~CommitmentMismatch(R, b)
  BY <1>3 DEF EntryFine, CommitmentMismatch
<1>6. \A b \in Listed(R) : ~(R.bids[b].nonce # None /\ R.bids[b].revealedValue = None)
  BY <1>3 DEF EntryFine
<1>8. \A b \in Listed(R) : R.evidence[b] # "empty"
  BY DEF Listed, ReceiptWell
<1>7. Errors(R) = {}
  BY <1>1, <1>2, <1>4, <1>5, <1>6, <1>8 DEF Errors
<1> QED
  BY <1>7 DEF VerifyReceipt

\* What the walk finds in the receipt of a finished round is what clear found in the
\* round itself.
LEMMA OutcomeIsFound ==
  ASSUME RInv, WInv, receipt # NoReceipt
  PROVE  /\ receipt.status \in Decided =>
              ComputedWinner(receipt) = [address |-> receipt.winner, value |-> receipt.winningValue]
         /\ receipt.status = "Voided" => ComputedWinner(receipt) = Nobody
<1> DEFINE r == receipt.id
           R == receipt
<1>1. ReceiptWell(R) /\ Walkable(R) /\ r \in RoundIds
  BY WellIsWalkable DEF WInv, RInv, ReceiptOk
<1>2. Verdict(R, Taking(R), ComputedWinner(R))
  BY <1>1, WalkResult
<1>3. ASSUME R.status \in Over PROVE ReceiptSo(R)
  BY <1>3 DEF RInv, ReceiptOk
<1>4. ASSUME R.status \in Over
      PROVE  /\ Taking(R) = Candidates(r)
             /\ \A i \in Taking(R) : Shown(R, i) = ValueAt(r, i)
  <2>1. R.bidders = rounds[r].bidders /\ rounds[r].bidders \in Seq(Bidders)
    BY <1>1, <1>3, <1>4 DEF ReceiptSo, StillSo, RInv, IInv, Types, RoundRecords
  <2>2. ASSUME NEW i \in DOMAIN R.bidders
        PROVE  LET b == R.bidders[i] IN
               /\ b \in DOMAIN R.bids /\ HasBid(r, b)
               /\ R.bids[b].revealedValue = bids[r][b].revealed_value
               /\ R.bids[b].valid = bids[r][b].valid
    <3> DEFINE b == R.bidders[i]
    <3>1. b \in Bidders /\ b \in BiddersOf(r)
      BY <2>1 DEF BiddersOf, Range
    <3>2. b \in DOMAIN R.bids /\ EntrySo(R.status, R.bids[b], r, b)
      BY <1>3, <1>4, <3>1 DEF ReceiptSo
    <3>3. HasBid(r, b)
      BY <1>1, <3>1 DEF RInv, IInv, RoundOk, IndexOk
    <3>4. R.bids[b].revealedValue = bids[r][b].revealed_value /\ R.bids[b].valid = bids[r][b].valid
      <4>1. PICK x : x = Entry(r, b)
        OBVIOUS
      <4>2. R.bids[b] \in {x, [x EXCEPT !.settled = FALSE]}
        BY <3>2, <4>1 DEF EntrySo
      <4>3. x.revealedValue = bids[r][b].revealed_value /\ x.valid = bids[r][b].valid
        BY <4>1 DEF Entry, BidReceiptEntry
      <4>4. R.bids[b].revealedValue = x.revealedValue /\ R.bids[b].valid = x.valid
        <5>1. PICK c, e, v, n, d, t : x = [commitment |-> c, escrow |-> e, revealedValue |-> v,
                                          nonce |-> n, valid |-> d, settled |-> t]
          BY <4>1 DEF Entry, BidReceiptEntry
        <5> QED
          BY <4>2, <5>1
      <4> QED
        BY <4>3, <4>4
    <3> QED
      BY <3>2, <3>3, <3>4
  <2> QED
    BY <2>1, <2>2 DEF Taking, Candidates, Shown, ValueAt
<1>5. ASSUME R.status \in Decided
      PROVE  ComputedWinner(R) = [address |-> R.winner, value |-> R.winningValue]
  <2>1. R.status \in Over
    BY <1>5 DEF Over, Decided
  <2>2. /\ R.winner = rounds[r].winner /\ R.winningValue = rounds[r].winning_bid
        /\ R.bidders = rounds[r].bidders /\ R.clearingRule = rounds[r].clearing_rule
    BY <1>3, <2>1 DEF ReceiptSo, StillSo
  <2>3. rounds[r].status \in Decided
    <3>1. R.winner # None
      BY <1>1, <1>5 DEF ReceiptWell
    <3> QED
      BY <1>1, <2>2, <3>1 DEF RInv, IInv, RoundOk, PhaseOk
  <2>4. PICK i \in Candidates(r) : /\ FirstBest(r, i)
                                   /\ rounds[r].winner = rounds[r].bidders[i]
                                   /\ rounds[r].winning_bid = ValueAt(r, i)
    BY <1>1, <2>3 DEF RInv, IInv, RoundOk, OutcomeOk
  <2>5. BestOf(R, i, Taking(R))
    BY <1>4, <2>1, <2>2, <2>4 DEF FirstBest, BestOf
  <2>6. PICK j \in Taking(R) :
          /\ BestOf(R, j, Taking(R))
          /\ ComputedWinner(R) = [address |-> R.bidders[j], value |-> Shown(R, j)]
    BY <1>2, <1>4, <2>1, <2>4 DEF Verdict
  <2>7. i = j
    BY <1>1, <2>5, <2>6, BestIsOne
  <2> QED
    BY <1>4, <2>1, <2>2, <2>4, <2>6, <2>7
<1>6. ASSUME R.status = "Voided" PROVE ComputedWinner(R) = Nobody
  <2>1. R.status \in Over /\ R.status \in Final
    BY <1>6 DEF Over, Final
  <2>2. rounds[r].status = "Voided"
    BY <1>3, <1>6, <2>1 DEF ReceiptSo, StillSo
  <2>3. Taking(R) = {}
    BY <1>1, <1>4, <2>1, <2>2 DEF RInv, IInv, RoundOk, PhaseOk
  <2> QED
    BY <1>2, <2>3 DEF Verdict
<1> QED
  BY <1>5, <1>6

\* Every receipt verifies unless it lists a contract or shows a seal that is in part
\* empty, whenever it was exported and whatever happened between its reads; and from the
\* receipt of a decided round verifyReceipt computes the winner and the value that clear
\* chose, from that of a voided round nobody (verify.ts:128-204).
THEOREM ReceiptsVerify == ReceiptsSpec => []HonestReceiptsVerify
<1>1. RInv /\ WInv => HonestReceiptsVerify
  <2> SUFFICES ASSUME RInv, WInv, receipt # NoReceipt PROVE HonestReceiptsVerify
    BY DEF HonestReceiptsVerify
  <2>1. ReceiptWell(receipt)
    BY DEF WInv
  <2>2. receipt.winner \in {None, ComputedWinner(receipt).address}
    BY <2>1, OutcomeIsFound DEF ReceiptWell
  <2>3. \/ VerifyReceipt(receipt).valid
        \/ Range(receipt.bidders) \cap ContractAccounts # {}
        \/ \E b \in DOMAIN receipt.evidence : receipt.evidence[b] = "empty"
    BY <2>1, <2>2, WellIsBlameless
  <2>4. VerifyReceipt(receipt).computedWinner = ComputedWinner(receipt)
    BY DEF VerifyReceipt
  <2> QED
    BY <2>3, <2>4, OutcomeIsFound DEF HonestReceiptsVerify
<1> QED
  BY <1>1, WInvAlways, PTL

\* A receipt that passes names the computed winner, if both name one, lists no bidder
\* without an entry, and has every bid revealed whole and as committed.
LEMMA PassedReceipt ==
  ASSUME NEW R, VerifyReceipt(R).valid
  PROVE  /\ R.winner \in {None, ComputedWinner(R).address} \/ ComputedWinner(R) = Nobody
         /\ Range(R.bidders) \subseteq DOMAIN R.bids
         /\ \A b \in Listed(R) : ~CommitmentMismatch(R, b)
         /\ \A b \in Listed(R) : R.bids[b].nonce # None => R.bids[b].revealedValue # None
<1>1. Errors(R) = {}
  BY DEF VerifyReceipt
<1> QED
  BY <1>1 DEF Errors

\* The walk sees the list, the entries and the rule.
LEMMA SameWalk ==
  ASSUME NEW R, NEW Q, Walkable(R), Q.bidders = R.bidders, Q.bids = R.bids,
         Q.clearingRule = R.clearingRule
  PROVE  ComputedWinner(Q) = ComputedWinner(R)
<1>1. Walkable(Q) /\ Taking(Q) = Taking(R)
  BY DEF Walkable, Taking
<1>2. \A i \in Taking(R) : Shown(Q, i) = Shown(R, i)
  BY DEF Shown
<1>3. \A i \in Taking(R) : BestOf(Q, i, Taking(Q)) <=> BestOf(R, i, Taking(R))
  BY <1>1, <1>2 DEF BestOf
<1>4. Verdict(R, Taking(R), ComputedWinner(R)) /\ Verdict(Q, Taking(Q), ComputedWinner(Q))
  BY <1>1, WalkResult
<1>5. CASE Taking(R) = {}
  BY <1>1, <1>4, <1>5 DEF Verdict
<1>6. CASE Taking(R) # {}
  <2>1. PICK i \in Taking(R) :
          /\ BestOf(R, i, Taking(R))
          /\ ComputedWinner(R) = [address |-> R.bidders[i], value |-> Shown(R, i)]
    BY <1>4, <1>6 DEF Verdict
  <2>2. PICK j \in Taking(R) :
          /\ BestOf(Q, j, Taking(Q))
          /\ ComputedWinner(Q) = [address |-> Q.bidders[j], value |-> Shown(Q, j)]
    BY <1>1, <1>4, <1>6 DEF Verdict
  <2>3. i = j
    BY <1>3, <2>1, <2>2, BestIsOne
  <2> QED
    BY <1>2, <2>1, <2>2, <2>3
<1> QED
  BY <1>5, <1>6

\* One changed field of a decided round's receipt leaves the winner, or fails, or hides
\* the outcome, and cannot change or hide what was revealed (docs/RECEIPTS.md:44-46).
THEOREM OutcomeIsProtected == ReceiptsSpec => []OutcomeIsTamperEvident
<1>1. ASSUME RInv, WInv, receipt # NoReceipt, receipt.status \in Decided,
             NEW R \in Edits(receipt), VerifyReceipt(R).valid
      PROVE  /\ {R.winner, ComputedWinner(R).address} \subseteq {receipt.winner, None}
             /\ \A b \in DOMAIN receipt.bids :
                  receipt.bids[b].revealedValue # None =>
                    R.bids[b].revealedValue = receipt.bids[b].revealedValue
  <2> DEFINE w == receipt.winner
             Shows == \A b \in DOMAIN receipt.bids :
                        receipt.bids[b].revealedValue # None =>
                          R.bids[b].revealedValue = receipt.bids[b].revealedValue
             Goal == {R.winner, ComputedWinner(R).address} \subseteq {w, None} /\ Shows
  <2>1. /\ ReceiptWell(receipt) /\ Walkable(receipt) /\ w # None
        /\ ComputedWinner(receipt).address = w
    BY <1>1, WellIsWalkable, OutcomeIsFound DEF WInv, ReceiptWell
  <2>2. PICK i, u, s, l, e, f, v :
          receipt = [id |-> i, clearingRule |-> u, status |-> s, bidders |-> l, bids |-> e,
                     evidence |-> f, winner |-> w, winningValue |-> v]
    BY <2>1 DEF ReceiptWell, IsReceipt
  <2>3. ASSUME R.winner = w
        PROVE  {R.winner, ComputedWinner(R).address} \subseteq {w, None}
    <3>1. R.winner \in {None, ComputedWinner(R).address} \/ ComputedWinner(R) = Nobody
      BY <1>1, PassedReceipt
    <3> QED
      BY <2>1, <2>3, <3>1 DEF Nobody
  <2>4. CASE R \in {[receipt EXCEPT !.winner = b] : b \in Bidders \cup {None}}
    <3>1. /\ R.bidders = receipt.bidders /\ R.bids = receipt.bids
          /\ R.clearingRule = receipt.clearingRule
      BY <2>2, <2>4
    <3>2. ComputedWinner(R) = ComputedWinner(receipt)
      BY <2>1, <3>1, SameWalk
    <3>3. R.winner \in {None, w}
      BY <1>1, <2>1, <3>2, PassedReceipt DEF Nobody
    <3> QED
      BY <2>1, <3>1, <3>2, <3>3
  <2>5. CASE R \in {[receipt EXCEPT !.clearingRule = x] : x \in {"HighestBid", "LowestBid"}}
    BY <2>2, <2>3, <2>5
  <2>6. CASE R \in {[receipt EXCEPT !.bidders = x] :
                      x \in UNION {[1 .. n -> Bidders] : n \in 0 .. MAX_BIDDERS + 1}}
    BY <2>2, <2>3, <2>6
  <2>7. CASE R \in {[receipt EXCEPT !.bids = [c \in DOMAIN @ \ {b} |-> @[c]]] :
                      b \in DOMAIN receipt.bids}
    <3>1. PICK b \in DOMAIN receipt.bids :
            R = [receipt EXCEPT !.bids = [c \in DOMAIN receipt.bids \ {b} |-> receipt.bids[c]]]
      BY <2>7
    <3>2. R.bidders = receipt.bidders /\ DOMAIN R.bids = DOMAIN receipt.bids \ {b}
      BY <2>2, <3>1
    <3>3. DOMAIN receipt.bids = Range(R.bidders)
      BY <2>1, <3>2 DEF ReceiptWell
    <3> QED
      BY <1>1, <3>2, <3>3, PassedReceipt
  <2>8. CASE R \in UNION {{[receipt EXCEPT !.bids[b] = x] : x \in EditedBid(receipt, b)} :
                            b \in DOMAIN receipt.bids}
    <3>0. PICK b \in DOMAIN receipt.bids :
            R \in {[receipt EXCEPT !.bids[b] = x] : x \in EditedBid(receipt, b)}
      BY <2>8
    <3>1. PICK x \in EditedBid(receipt, b) :
            R = [receipt EXCEPT !.bids = [receipt.bids EXCEPT ![b] = x]]
      BY <3>0
    <3>2. /\ R.winner = w /\ R.bidders = receipt.bidders
          /\ R.bids = [receipt.bids EXCEPT ![b] = x]
      BY <2>2, <3>1
    <3>3. DOMAIN R.bids = DOMAIN receipt.bids /\ R.bids[b] = x
          /\ \A c \in DOMAIN receipt.bids : c # b => R.bids[c] = receipt.bids[c]
      BY <3>2
    <3>4. b \in Listed(R)
      BY <2>1, <3>2, <3>3 DEF ReceiptWell, Listed
    <3>5. EntryFine(receipt.bids[b])
      BY <2>1 DEF ReceiptWell
    <3>6. ASSUME receipt.bids[b].revealedValue # None
          PROVE  x.revealedValue = receipt.bids[b].revealedValue
      <4> DEFINE y == receipt.bids[b]
      <4>1. CASE x \in {[y EXCEPT !.revealedValue = z] : z \in Values \cup {None}}
        <5>1. x.nonce = y.nonce /\ x.commitment = y.commitment
          BY <3>5, <4>1 DEF EntryFine, EntryRecords
        <5>2. x.nonce # None /\ y.commitment = Hash(y.revealedValue, y.nonce)
          BY <3>5, <3>6, <5>1 DEF EntryFine
        <5>3. x.revealedValue # None /\ ~CommitmentMismatch(R, b)
          BY <1>1, <3>3, <3>4, <5>2, PassedReceipt
        <5>4. Hash(x.revealedValue, x.nonce) = Hash(y.revealedValue, y.nonce)
          BY <3>3, <5>1, <5>2, <5>3 DEF CommitmentMismatch
        <5> QED
          BY <5>4 DEF Hash
      <4>2. CASE x \in {[y EXCEPT !.nonce = z] : z \in Nonces \cup {None}}
        BY <3>5, <4>2 DEF EntryFine, EntryRecords
      <4>3. CASE x \in {[y EXCEPT !.commitment = z] : z \in Preimages}
        BY <3>5, <4>3 DEF EntryFine, EntryRecords
      <4>4. CASE x = [y EXCEPT !.valid = ~@]
        BY <3>5, <4>4 DEF EntryFine, EntryRecords
      <4> QED
        BY <4>1, <4>2, <4>3, <4>4 DEF EditedBid
    <3>7. Shows
      BY <3>3, <3>6
    <3> QED
      BY <2>3, <3>2, <3>7
  <2>9. CASE R \in {[receipt EXCEPT !.evidence[b] = "null"] : b \in DOMAIN receipt.bids}
    <3>1. PICK g : R = [receipt EXCEPT !.evidence = g]
      BY <2>9
    <3>2. R.winner = w /\ R.bids = receipt.bids
      BY <2>2, <3>1
    <3> QED
      BY <2>3, <3>2
  <2> QED
    BY <1>1, <2>4, <2>5, <2>6, <2>7, <2>8, <2>9 DEF Edits
<1>2. RInv /\ WInv => OutcomeIsTamperEvident
  BY <1>1 DEF OutcomeIsTamperEvident
<1> QED
  BY <1>2, WInvAlways, PTL
=============================================================================
