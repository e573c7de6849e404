------------------------------- MODULE Agent -------------------------------
(***************************************************************************)
(* The bidding agent and the appraisal service it pays: runBidderAgent,     *)
(* the paid fetch under it, the service's request handler and the commit    *)
(* that follows.                                                           *)
(*                                                                         *)
(* A run verifies its mandate, reads the round, pays for an appraisal,      *)
(* sizes the bid and commits it.  It may die at every await, and is then    *)
(* started again with the same mandate: the request it had sent goes on at  *)
(* the service, and the transaction it had sent may still be included.      *)
(*                                                                         *)
(* Abstractions.  Signatures are genuine.  The appraisal is any suggestion; *)
(* rounding and the conversion to stroops are part of it.  A payment and a  *)
(* bid are numbers; what the other bidders do is the environment's.  The    *)
(* service is whichever the agent is pointed to, so that it may ask more    *)
(* than the mandate says or, asking 0, no payment at all.                   *)
(***************************************************************************)
EXTENDS RoundLife

CONSTANTS
  SessionKey,   \* the account the agent signs with, a bidder of the round
  Mandates,     \* what principals may have signed
  Prices,       \* what the service may ask, 0 if it answers unpaid requests
  Suggestions,  \* what it may suggest
  MaxRuns       \* bound on the runs with one mandate

ASSUME AgentAssumption ==
  /\ SessionKey \in Bidders /\ MaxRuns \in Nat
  /\ Prices \subseteq Nat /\ Suggestions \subseteq Nat
  /\ \A m \in Mandates :
       /\ m.roundId \in RoundIds /\ m.wellFormed \in BOOLEAN
       /\ {m.maxBid, m.maxEscrow, m.maxSpend, m.price, m.commitDeadline, m.expiresAt}
            \subseteq Nat

VARIABLES
  mandate,  \* the mandate of all runs
  asked,    \* what the service asks for an appraisal
  agent,    \* the run at work: its number and what it waits for
  request,  \* for every run, how far its paid request has come at the service
  charged,  \* for every run, how often its payment was captured
  flight,   \* signed commits that may still be included
  sequence, \* the sequence number of the account
  held      \* the bid the contract holds for the account

agentVars == <<mandate, asked, agent, request, charged, flight, sequence, held>>

Runs == 1 .. MaxRuns
NoRequest == [stage |-> "none", suggested |-> 0]
NoBid == [run |-> 0, value |-> 0, escrow |-> 0, seq |-> 0]

At(at) == agent.at = at
Await(at) == agent' = [agent EXCEPT !.at = at]
Least(S) == CHOOSE x \in S : \A y \in S : x <= y

-----------------------------------------------------------------------------
(* The agent up to the payment.                                            *)

Verified(m) ==
  /\ now <= m.expiresAt /\ now <= m.commitDeadline
  /\ m.maxBid <= m.maxEscrow
  /\ m.price <= m.maxSpend

StartAgent ==
  /\ At("idle") /\ agent.run < MaxRuns
  /\ Verified(mandate)
  /\ agent' = [at |-> "round", run |-> agent.run + 1, bid |-> 0]
  /\ UNCHANGED <<lifeVars, mandate, asked, request, charged, flight, sequence, held>>

\* The price checked is the mandate's own, and what was spent before is taken to be
\* nothing: the check never sees what the service asks.
SpendAllowed(m, quoted, spentSoFar) ==
  quoted <= m.price /\ spentSoFar + quoted <= m.maxSpend

ReadRound ==
  /\ At("round")
  /\ phase[mandate.roundId] = "Open"
  /\ SpendAllowed(mandate, mandate.price, 0)
  /\ Await("pay")
  /\ UNCHANGED <<lifeVars, mandate, asked, request, charged, flight, sequence, held>>

\* A service that wants to be paid answers the first request with its price, whatever
\* the body, and the second carries a payment of just that.  Any other first answer is
\* taken as it is.
PaidFetch ==
  /\ At("pay")
  /\ request' = [request EXCEPT ![agent.run].stage = IF asked = 0 THEN "appraise" ELSE "verify"]
  /\ Await("answer")
  /\ UNCHANGED <<lifeVars, mandate, asked, charged, flight, sequence, held>>

-----------------------------------------------------------------------------
(* The service.  It neither knows nor minds whether the agent still waits. *)

Stage(i, from, to) ==
  /\ request[i].stage = from
  /\ request' = [request EXCEPT ![i].stage = to]

Handle(i) == UNCHANGED <<lifeVars, mandate, asked, agent, flight, sequence, held>>

VerifyPayment(i) ==
  /\ \E to \in {"appraise", "refused"} : Stage(i, "verify", to)
  /\ Handle(i) /\ UNCHANGED charged

\* Mutant: the body is looked at when the payment is captured already.
AppraisableLater(m) == TRUE

\* Only a well-formed request goes on to be settled, or served.
Appraisable(m) == m.wellFormed

Appraise(i) ==
  /\ request[i].stage = "appraise"
  /\ IF Appraisable(mandate)
     THEN \E s \in Suggestions :
            request' = [request EXCEPT ![i] =
              [stage |-> IF asked = 0 THEN "served" ELSE "settle", suggested |-> s]]
     ELSE request' = [request EXCEPT ![i].stage = "refused"]
  /\ Handle(i) /\ UNCHANGED charged

\* A settlement reported to have failed may have gone through.
Settle(i) ==
  /\ \E to \in {"served", "refused"}, n \in {0, 1} :
       /\ Stage(i, "settle", to)
       /\ to = "served" => n = 1
       /\ charged' = [charged EXCEPT ![i] = @ + n]
  /\ Handle(i)

-----------------------------------------------------------------------------
(* The agent after the payment.                                            *)

BidFromAppraisal(s, m) == Least({s, m.maxBid, m.maxEscrow})

Appraised ==
  LET value == BidFromAppraisal(request[agent.run].suggested, mandate) IN
  /\ At("answer") /\ request[agent.run].stage = "served"
  /\ value > 0
  /\ agent' = [agent EXCEPT !.at = "commit", !.bid = value]
  /\ UNCHANGED <<lifeVars, mandate, asked, request, charged, flight, sequence, held>>

\* The call is simulated before it is signed and sent.
CommitOpen(r) == phase[r] = "Open" /\ now <= CommitDeadline(r)

SendCommit ==
  /\ At("commit") /\ CommitOpen(mandate.roundId)
  /\ flight' = flight \cup {[run |-> agent.run, value |-> agent.bid,
                             escrow |-> agent.bid, seq |-> sequence]}
  /\ Await("sent")
  /\ UNCHANGED <<lifeVars, mandate, asked, request, charged, sequence, held>>

\* A run ends: with its result, or at any await with an error.
EndRun ==
  /\ ~At("idle")
  /\ Await("idle")
  /\ UNCHANGED <<lifeVars, mandate, asked, request, charged, flight, sequence, held>>

\* Of two transactions with one sequence number one is included at most.
Include(tx) ==
  /\ tx.seq = sequence
  /\ LCommit(mandate.roundId, SessionKey)
  /\ held' = tx
  /\ sequence' = sequence + 1
  /\ flight' = flight \ {tx}
  /\ UNCHANGED <<mandate, asked, agent, request, charged>>

Expire(tx) ==
  /\ flight' = flight \ {tx}
  /\ UNCHANGED <<lifeVars, mandate, asked, agent, request, charged, sequence, held>>

-----------------------------------------------------------------------------
AgentInit ==
  /\ mandate \in Mandates /\ asked \in Prices
  /\ agent = [at |-> "idle", run |-> 0, bid |-> 0]
  /\ request = [i \in Runs |-> NoRequest]
  /\ charged = [i \in Runs |-> 0]
  /\ flight = {} /\ sequence = 0 /\ held = NoBid

AgentStep ==
  \/ StartAgent \/ ReadRound \/ PaidFetch \/ Appraised \/ SendCommit \/ EndRun
  \/ \E i \in Runs : VerifyPayment(i) \/ Appraise(i) \/ Settle(i)
  \/ \E tx \in flight : Include(tx) \/ Expire(tx)

-----------------------------------------------------------------------------
(* Properties.                                                             *)

Bids == flight \cup (IF held = NoBid THEN {} ELSE {held})

\* Whatever dies between request, settlement, answer and commit: a malformed request is
\* never charged (server.ts:221-223) and no run is charged twice; where the service wants
\* to be paid, no bid is made on an appraisal that was not (server.ts:8-9), by this run
\* and not an earlier one; and every bid the account has made, of an earlier run too, is
\* a positive one within the mandate and its own escrow (mandate.ts:186-201).
PaidAndWithinMandate ==
  /\ ~mandate.wellFormed => \A i \in Runs : charged[i] = 0
  /\ \A i \in Runs : charged[i] <= 1
  /\ \A b \in Bids :
       /\ charged[b.run] = IF asked = 0 THEN 0 ELSE 1
       /\ 0 < b.value /\ b.value <= b.escrow
       /\ b.value <= mandate.maxBid /\ b.escrow <= mandate.maxEscrow

\* "Maximum total x402 appraisal spend for this session (stroops)" (mandate.ts:36, also
\* services/agent/README.md:34): what all runs with the mandate pay together.
SessionSpendCapped == asked * Cardinality({i \in Runs : charged[i] > 0}) <= mandate.maxSpend
=============================================================================
