------------------------------ MODULE Receipts ------------------------------
(***************************************************************************)
(* Receipts of a round: exportReceipt of the SDK, which reads the contract  *)
(* call by call while bidders and keepers go on using it, and the offline   *)
(* verification of what it wrote (verifyReceipt, receipt-cli and the        *)
(* receipt page of the web application).                                   *)
(*                                                                         *)
(* Abstractions.  The reads are simulated transactions and change nothing;  *)
(* the two of one bid, of its state and its seal, are one step.  The round's *)
(* terms other than the clearing rule, the network and the dates are left   *)
(* out: the verdict depends on their form only, and the form of what the    *)
(* export writes and the edits below change is right.  Of a seal the receipt *)
(* keeps whether its two parts can be written as hex, kept apart from the   *)
(* bid's entry.                                                             *)
(***************************************************************************)
EXTENDS Round

Seqs == INSTANCE SequencesExt

CONSTANTS
  PAGE_SIZE,        \* bidders per page of get_bidders_page
  ContractAccounts, \* bidders that are contracts: addresses in C, not in G
  EmptySeals        \* the ciphertexts that are empty or come with an empty
                    \* auditor_blob: commit only bounds their lengths from above

ASSUME ReceiptsAssumption ==
  PAGE_SIZE \in Nat \ {0} /\ ContractAccounts \subseteq Bidders

VARIABLES
  draft,    \* the export in progress: what it has read so far
  receipt   \* the receipt written last

receiptVars == <<vars, draft, receipt>>

NoDraft == [id |-> 0, round |-> NoRound, cursor |-> 0, paging |-> FALSE,
            bidders |-> <<>>, bids |-> <<>>, evidence |-> <<>>]
NoReceipt == [id |-> 0]

-----------------------------------------------------------------------------
(* exportReceipt.                                                          *)

\* The entry of a bid.
BidReceiptEntry(state) ==
  [commitment |-> state.commitment, escrow |-> state.escrow,
   revealedValue |-> state.revealed_value, nonce |-> state.revealed_nonce,
   valid |-> state.valid, settled |-> state.settled]

\* The evidence of a bid: null once the seal has expired.
Evidence(r, b) ==
  IF ~SealLive(r, b) THEN "null"
  ELSE IF seals[r][b].ciphertext \in EmptySeals THEN "empty" ELSE "hex"

\* The receipt made of everything that was read.
RoundReceipt(d) ==
  [id |-> d.id, clearingRule |-> d.round.clearing_rule, status |-> d.round.status,
   bidders |-> d.bidders, bids |-> d.bids, evidence |-> d.evidence,
   winner |-> d.round.winner, winningValue |-> d.round.winning_bid]

\* Mutant: the round is read again once the bids are, for its outcome only.
OutcomeReadLast(d) ==
  IF ~d.paging /\ Len(d.bidders) = Cardinality(DOMAIN d.bids)
  THEN /\ draft' = NoDraft
       /\ receipt' = RoundReceipt([d EXCEPT !.round = rounds[d.id]])
  ELSE draft' = d /\ UNCHANGED receipt

\* After the last read the receipt is written.
Proceed(d) ==
  IF ~d.paging /\ Len(d.bidders) = Cardinality(DOMAIN d.bids)
  THEN draft' = NoDraft /\ receipt' = RoundReceipt(d)
  ELSE draft' = d /\ UNCHANGED receipt

\* The round comes first; an unknown id fails the export.
ReadRound(r) ==
  /\ draft = NoDraft
  /\ rounds[r].status # "Absent"
  /\ draft' = [NoDraft EXCEPT !.id = r, !.round = rounds[r], !.paging = TRUE]
  /\ UNCHANGED <<vars, receipt>>

\* One page of the bidder index; the cursor is 0 again after the last one.
ReadPage ==
  LET index == rounds[draft.id].bidders
      end   == AtMost(draft.cursor + PAGE_SIZE, Len(index)) IN
  /\ draft.paging
  /\ Proceed([draft EXCEPT
       !.bidders = @ \o SubSeq(index, draft.cursor + 1, end),
       !.cursor  = IF end < Len(index) THEN end ELSE 0,
       !.paging  = end < Len(index)])
  /\ UNCHANGED vars

\* The bids are read one after the other, in the order of the index.
ReadBid ==
  LET read == Cardinality(DOMAIN draft.bids) IN
  /\ draft # NoDraft /\ ~draft.paging /\ read < Len(draft.bidders)
  /\ LET b == draft.bidders[read + 1] IN
     Proceed([draft EXCEPT
       !.bids = [c \in DOMAIN @ \cup {b} |->
         IF c = b THEN BidReceiptEntry(bids[draft.id][b]) ELSE @[c]],
       !.evidence = [c \in DOMAIN @ \cup {b} |->
         IF c = b THEN Evidence(draft.id, b) ELSE @[c]]])
  /\ UNCHANGED vars

\* A call that fails fails the export: nothing is written.
ExportFails ==
  /\ draft # NoDraft
  /\ draft' = NoDraft
  /\ UNCHANGED <<vars, receipt>>

-----------------------------------------------------------------------------
(* verifyReceipt.                                                          *)

\* Mutant: ties go to the later bid.
BeatsOrTies(rule, value, best) ==
  best = None \/ (IF rule = "HighestBid" THEN value >= best ELSE value <= best)

\* A bid takes the lead if it is the first or strictly better.
Beats(rule, value, best) ==
  best = None \/ (IF rule = "HighestBid" THEN value > best ELSE value < best)

Nobody == [address |-> None, value |-> None]

\* The candidate after bidder b.  A revealed value without its nonce counts too.
Consider(R, best, b) ==
  IF /\ b \in DOMAIN R.bids
     /\ R.bids[b].revealedValue # None /\ R.bids[b].valid
     /\ Beats(R.clearingRule, R.bids[b].revealedValue, best.value)
  THEN [address |-> b, value |-> R.bids[b].revealedValue] ELSE best

\* The walk over the listed bidders.
ComputedWinner(R) ==
  Seqs!FoldLeft(LAMBDA best, b : Consider(R, best, b), Nobody, R.bidders)

Listed(R) == Range(R.bidders) \cap DOMAIN R.bids

\* Mutant: commitments are not recomputed.
NoMismatch(R, b) == FALSE

CommitmentMismatch(R, b) ==
  LET e == R.bids[b] IN
  /\ e.revealedValue # None /\ e.nonce # None
  /\ Hash(e.revealedValue, e.nonce) # e.commitment

\* The issues of severity error; a receipt is valid if there is none.  A winner that
\* is declared but cannot be computed, or the other way round, is only warned of.
Errors(R) ==
  {code \in {"invalid_bidder", "duplicate_bidder", "orphan_bid_entry", "missing_bid_entry",
             "invalid_escrow", "commitment_mismatch", "partial_reveal",
             "winner_mismatch", "invalid_evidence_hex"} :
    \/ code = "invalid_bidder" /\ Range(R.bidders) \cap ContractAccounts # {}
    \/ code = "duplicate_bidder" /\ Cardinality(Range(R.bidders)) < Len(R.bidders)
    \/ code = "orphan_bid_entry" /\ DOMAIN R.bids \ Range(R.bidders) # {}
    \/ code = "missing_bid_entry" /\ Range(R.bidders) \ DOMAIN R.bids # {}
    \/ code = "invalid_escrow" /\ \E b \in Listed(R) : R.bids[b].escrow < 0
    \/ code = "commitment_mismatch" /\ \E b \in Listed(R) : CommitmentMismatch(R, b)
    \/ code = "partial_reveal" /\
         \E b \in Listed(R) : R.bids[b].nonce # None /\ R.bids[b].revealedValue = None
    \/ code = "winner_mismatch" /\
         R.winner \notin {None, ComputedWinner(R).address} /\ ComputedWinner(R) # Nobody
    \/ code = "invalid_evidence_hex" /\ \E b \in Listed(R) : R.evidence[b] = "empty"}

VerifyReceipt(R) == [valid |-> Errors(R) = {}, computedWinner |-> ComputedWinner(R)]

-----------------------------------------------------------------------------
(* What may happen to a receipt on its way: one field of it is changed.     *)

EditedBid(R, b) ==
  {[R.bids[b] EXCEPT !.revealedValue = v] : v \in Values \cup {None}}
    \cup {[R.bids[b] EXCEPT !.nonce = n] : n \in Nonces \cup {None}}
    \cup {[R.bids[b] EXCEPT !.commitment = p] : p \in Preimages}
    \cup {[R.bids[b] EXCEPT !.valid = ~@]}

Edits(R) ==
  {[R EXCEPT !.winner = b] : b \in Bidders \cup {None}}
    \cup {[R EXCEPT !.clearingRule = u] : u \in {"HighestBid", "LowestBid"}}
    \cup {[R EXCEPT !.bidders = s] :
            s \in UNION {[1 .. n -> Bidders] : n \in 0 .. MAX_BIDDERS + 1}}
    \cup {[R EXCEPT !.bids = [c \in DOMAIN @ \ {b} |-> @[c]]] : b \in DOMAIN R.bids}
    \cup {[R EXCEPT !.evidence[b] = "null"] : b \in DOMAIN R.bids}
    \cup UNION {{[R EXCEPT !.bids[b] = e] : e \in EditedBid(R, b)} : b \in DOMAIN R.bids}

-----------------------------------------------------------------------------
ReceiptsInit == Init /\ draft = NoDraft /\ receipt = NoReceipt

Export == (\E r \in RoundIds : ReadRound(r)) \/ ReadPage \/ ReadBid \/ ExportFails

ReceiptsNext ==
  \/ Next /\ UNCHANGED <<draft, receipt>>
  \/ Export

ReceiptsSpec == ReceiptsInit /\ [][ReceiptsNext]_receiptVars

-----------------------------------------------------------------------------
(* Properties.                                                             *)

Over == {"Cleared", "Settled", "Voided"}

\* "Anyone can re-export and compare" (docs/RECEIPTS.md:71): although the reads are
\* spread over the life of the round, a receipt that calls the round cleared, settled
\* or voided says what the contract holds from then on, so that any two of them agree;
\* and one that calls it settled or voided has every payment in it.
FinishedReceiptsAgree ==
  receipt # NoReceipt /\ receipt.status \in Over =>
    LET round == rounds[receipt.id] IN
    /\ receipt.bidders = round.bidders /\ DOMAIN receipt.bids = Range(round.bidders)
    /\ <<receipt.winner, receipt.winningValue>> = <<round.winner, round.winning_bid>>
    /\ round.status \in Over
    /\ \A b \in Range(round.bidders) :
         LET now_ == BidReceiptEntry(bids[receipt.id][b]) IN
         receipt.bids[b] \in {now_, [now_ EXCEPT !.settled = FALSE]}
    /\ receipt.status \in Final =>
         receipt.status = round.status /\ \A b \in DOMAIN receipt.bids : receipt.bids[b].settled

\* Whenever a receipt was exported and whatever happened between its reads, it fails
\* verification for two reasons only, of which neither is a fault of the export: a
\* bidder is a contract, or a seal that is still there is in part empty (verify.ts:105,
\* 239-251; commit accepts both, lib.rs:138, 157).  And the winner computed from a
\* decided round's receipt is, verified or not, the one clear chose, with its value, ties
\* and both rules included (verify.ts:181, lib.rs:325).
HonestReceiptsVerify ==
  receipt # NoReceipt =>
    LET result == VerifyReceipt(receipt) IN
    /\ \/ result.valid
       \/ Range(receipt.bidders) \cap ContractAccounts # {}
       \/ \E b \in DOMAIN receipt.evidence : receipt.evidence[b] = "empty"
    /\ receipt.status \in Decided =>
         result.computedWinner = [address |-> receipt.winner, value |-> receipt.winningValue]
    /\ receipt.status = "Voided" => result.computedWinner = Nobody

\* Verification protects the outcome: a receipt of a decided round with one field
\* changed either fails or still names the winner, or none, and shows the revealed
\* values as they were (docs/RECEIPTS.md:44-46).
OutcomeIsTamperEvident ==
  receipt # NoReceipt /\ receipt.status \in Decided =>
    \A R \in Edits(receipt) :
      VerifyReceipt(R).valid =>
        /\ {R.winner, ComputedWinner(R).address} \subseteq {receipt.winner, None}
        /\ \A b \in DOMAIN receipt.bids :
             receipt.bids[b].revealedValue # None =>
               R.bids[b].revealedValue = receipt.bids[b].revealedValue
=============================================================================
