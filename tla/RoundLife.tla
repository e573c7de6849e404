----------------------------- MODULE RoundLife -----------------------------
(***************************************************************************)
(* What the sealed-round contract promises to those who drive its rounds:   *)
(* the phases a round goes through, when each step is open and what has     *)
(* become of every bid, without values, escrow or tokens.                   *)
(*                                                                         *)
(* Round implements this specification (theorem RoundImplementsLife), and   *)
(* the off-chain programs are composed with it: Keeper, Session and Agent.  *)
(***************************************************************************)
EXTENDS Integers, Sequences, FiniteSets

CONSTANTS
  Bidders,
  MaxRounds, MaxTime, MaxBeacon,  \* bounds, as in Round
  Schedules,                      \* <<reveal_round, commit_deadline, reveal_deadline>>
  VOID_GRACE, MAX_U64, drand_genesis, drand_period

ASSUME LifeAssumption ==
  /\ {MaxRounds, MaxTime, MaxBeacon, VOID_GRACE, MAX_U64, drand_genesis,
      drand_period} \subseteq Nat
  /\ Schedules \subseteq Nat \X Nat \X Nat

VARIABLES
  now,     \* the ledger timestamp
  beacon,  \* the latest Drand round produced
  phase,   \* the status of every round
  terms,   \* the schedule of every round
  bid      \* what the contract knows of a bid: "None", "Sealed" or "Revealed"

lifeVars == <<now, beacon, phase, terms, bid>>

RoundIds == 1 .. MaxRounds
Phases == {"Absent", "Open", "Revealing", "Cleared", "Settled", "Voided"}
Final == {"Settled", "Voided"}
NoTerms == <<0, 0, 0>>
BidPhases == {"None", "Sealed", "Revealed"}

RevealRound(r) == terms[r][1]
CommitDeadline(r) == terms[r][2]
RevealDeadline(r) == terms[r][3]

\* When Drand publishes round R.
DrandTime(R) == drand_genesis + drand_period * (R - 1)
Produced(R) == R <= beacon

LTick ==
  /\ now < MaxTime
  /\ now' = now + 1
  /\ UNCHANGED <<beacon, phase, terms, bid>>

LProduce ==
  /\ beacon < MaxBeacon
  /\ DrandTime(beacon + 1) <= now
  /\ beacon' = beacon + 1
  /\ UNCHANGED <<now, phase, terms, bid>>

LCreate(r, schedule) ==
  /\ phase[r] = "Absent"
  /\ \A q \in 1 .. r - 1 : phase[q] # "Absent"
  /\ now < schedule[2]
  /\ phase' = [phase EXCEPT ![r] = "Open"]
  /\ terms' = [terms EXCEPT ![r] = schedule]
  /\ UNCHANGED <<now, beacon, bid>>

LCommit(r, b) ==
  /\ phase[r] = "Open"
  /\ now <= CommitDeadline(r)
  /\ bid' = [bid EXCEPT ![r][b] = "Sealed"]
  /\ UNCHANGED <<now, beacon, phase, terms>>

CanOpen(r) ==
  phase[r] = "Open" /\ now > CommitDeadline(r) /\ Produced(RevealRound(r))

LOpen(r) ==
  /\ CanOpen(r)
  /\ phase' = [phase EXCEPT ![r] = "Revealing"]
  /\ UNCHANGED <<now, beacon, terms, bid>>

CanReveal(r, b) ==
  phase[r] = "Revealing" /\ now <= RevealDeadline(r) /\ bid[r][b] = "Sealed"

LReveal(r, b) ==
  /\ CanReveal(r, b)
  /\ bid' = [bid EXCEPT ![r][b] = "Revealed"]
  /\ UNCHANGED <<now, beacon, phase, terms>>

CanClear(r) == phase[r] = "Revealing" /\ now > RevealDeadline(r)

\* A round is decided only if a bid was revealed; it may be voided all the same,
\* for a revealed bid need not be valid.
LClear(r) ==
  /\ CanClear(r)
  /\ \/ /\ \E b \in Bidders : bid[r][b] = "Revealed"
        /\ phase' = [phase EXCEPT ![r] = "Cleared"]
     \/ phase' = [phase EXCEPT ![r] = "Voided"]
  /\ UNCHANGED <<now, beacon, terms, bid>>

LSettle(r) ==
  /\ phase[r] = "Cleared"
  /\ phase' = [phase EXCEPT ![r] = "Settled"]
  /\ UNCHANGED <<now, beacon, terms, bid>>

CanVoid(r) == phase[r] = "Open" /\ now > RevealDeadline(r) + VOID_GRACE

LVoid(r) ==
  /\ CanVoid(r)
  /\ phase' = [phase EXCEPT ![r] = "Voided"]
  /\ UNCHANGED <<now, beacon, terms, bid>>

\* The entry points that anyone may call on an existing round.
LAdvance(r) ==
  LOpen(r) \/ (\E b \in Bidders : LReveal(r, b)) \/ LClear(r) \/ LSettle(r) \/ LVoid(r)

LInit ==
  /\ now = 0
  /\ beacon = 0
  /\ phase = [r \in RoundIds |-> "Absent"]
  /\ terms = [r \in RoundIds |-> NoTerms]
  /\ bid = [r \in RoundIds |-> [b \in Bidders |-> "None"]]

LNext ==
  \/ LTick \/ LProduce
  \/ \E r \in RoundIds :
       \/ \E s \in Schedules : LCreate(r, s)
       \/ \E b \in Bidders : LCommit(r, b)
       \/ LAdvance(r)

LSpec == LInit /\ [][LNext]_lifeVars
=============================================================================
