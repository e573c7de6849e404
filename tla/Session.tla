------------------------------ MODULE Session ------------------------------
(***************************************************************************)
(* The live-round page of the web application (useRoundSession and the     *)
(* guide of DemoPage): one wallet, several handlers at work at once.       *)
(*                                                                         *)
(* A handler runs from await to await; a step of a task is one awaited     *)
(* call coming back and what follows up to the next one.  The buttons are  *)
(* held back only while the status says "working", which every handler     *)
(* ends before it reads the round afresh, and Connect and Refresh are      *)
(* never held back: so old and new handlers overlap.  Everything others do *)
(* to the contract happens between these steps.                            *)
(*                                                                         *)
(* Abstractions.  One use case (each has a session of its own) and one     *)
(* account.  The browser's clock is the ledger's, and the countdown is     *)
(* never a poll behind it.                                                 *)
(***************************************************************************)
EXTENDS RoundLife

CONSTANTS
  Wallet,    \* the account behind Freighter
  Sound,     \* bidders whose seal opens to what they committed to; the seals
             \* of the others fail to open or to match
  Tasks      \* bound on the handlers at work at once

ASSUME SessionAssumption == Wallet \in Bidders /\ Sound \subseteq Bidders

VARIABLES
  connected,  \* Freighter has given an address
  working,    \* the status of the last action is "working", not "ok" or "error"
  session,    \* the round, the wallet's own sealed entry, the round as read last
  task        \* the handlers at work

sessionVars == <<connected, working, session, task>>

NoBids == [b \in Bidders |-> "None"]
NoLive == [id |-> 0, phase |-> "Absent", states |-> NoBids]
EmptySession == [roundId |-> 0, sealed |-> 0, live |-> NoLive]
Idle == [at |-> "idle", id |-> 0, own |-> 0, phase |-> "Absent", left |-> {},
         states |-> NoBids, revealed |-> FALSE, skipped |-> FALSE, told |-> FALSE]

-----------------------------------------------------------------------------
(* What the page makes of it.                                              *)

Live == session.live
CommittedOnChain == Live.states[Wallet] # "None"
Committed == CommittedOnChain \/ (session.sealed # 0 /\ Live = NoLive)
CommitClosed == Live # NoLive /\ now >= CommitDeadline(Live.id)
RevealedCount == Cardinality({b \in Bidders : Live.states[b] = "Revealed"})

\* When the countdown takes Drand's round R to be out, a period after it is.
TargetTime(R) == drand_genesis + drand_period * R

\* The countdown is to the round of a recorded demonstration, long out, as long as no
\* round is shown.
Published == Live = NoLive \/ TargetTime(RevealRound(Live.id)) <= now

\* The one action the guide offers.
Cta ==
  CASE ~connected -> "connect"
    [] connected /\ session.roundId = 0 -> "create or join"
    [] connected /\ session.roundId # 0 /\ ~Committed -> IF CommitClosed THEN "create" ELSE "commit"
    [] OTHER -> IF RevealedCount > 0 THEN "complete" ELSE IF Published THEN "reveal" ELSE "wait"

Offered(action) == ~working /\ Cta = action

-----------------------------------------------------------------------------
(* Tasks.                                                                  *)

Begin(t, at, r) ==
  /\ task[t].at = "idle"
  /\ task' = [task EXCEPT ![t] =
       [Idle EXCEPT !.at = at, !.id = r, !.own = IF at = "round" THEN session.sealed ELSE 0]]
  /\ working' = (at # "fetch" \/ working)
  /\ UNCHANGED <<lifeVars, connected, session>>

To(t, at) == task' = [task EXCEPT ![t].at = at]

\* A handler that has done its work says so and reads the round afresh.
DoneThenRefresh(t, r) ==
  /\ working' = FALSE
  /\ task' = [task EXCEPT ![t].at = "fetch", ![t].id = r, ![t].told = TRUE]

\* Any awaited call may fail, whether or not the contract has carried it out.
Throw(t) ==
  /\ working' = FALSE
  /\ task' = [task EXCEPT ![t] = Idle]
  /\ UNCHANGED <<connected, session>>

\* A refresh clicked by hand has nobody to catch the error.
Fail(t) ==
  /\ task[t].at # "idle"
  /\ IF task[t].at \in {"fetch", "index", "states"} /\ ~task[t].told
     THEN task' = [task EXCEPT ![t] = Idle] /\ UNCHANGED <<connected, working, session>>
     ELSE Throw(t)
  /\ UNCHANGED lifeVars

-----------------------------------------------------------------------------
(* connect, createRound, joinRound, commitEntry.                           *)

ConnectClick(t) == Begin(t, "connect", 0)

Connected(t) ==
  /\ task[t].at = "connect"
  /\ connected' = TRUE /\ working' = FALSE
  /\ task' = [task EXCEPT ![t] = Idle]
  /\ UNCHANGED <<lifeVars, session>>

CreateClick(t) == (Offered("create or join") \/ Offered("create")) /\ Begin(t, "create", 0)

\* Both ways into a round forget everything of the one before.
Enter(r) == session' = [EmptySession EXCEPT !.roundId = r]

CreateSend(t) ==
  /\ task[t].at = "create"
  /\ \E r \in RoundIds, s \in Schedules :
       /\ LCreate(r, s)
       /\ \/ Enter(r) /\ DoneThenRefresh(t, r) /\ UNCHANGED connected
          \/ Throw(t)

JoinClick(t, r) == Offered("create or join") /\ Begin(t, "join", r)

JoinRead(t) ==
  LET r == task[t].id IN
  /\ task[t].at = "join"
  /\ phase[r] = "Open" /\ now < CommitDeadline(r)
  /\ Enter(r) /\ DoneThenRefresh(t, r)
  /\ UNCHANGED <<lifeVars, connected>>

CommitClick(t) == Offered("commit") /\ Begin(t, "commit", session.roundId)

CommitSend(t) ==
  /\ task[t].at = "commit"
  /\ LCommit(task[t].id, Wallet)
  /\ \/ /\ session' = [session EXCEPT !.sealed = task[t].id]
        /\ DoneThenRefresh(t, task[t].id)
        /\ UNCHANGED connected
     \/ Throw(t)

-----------------------------------------------------------------------------
(* openAndReveal.                                                          *)

RevealClick(t) == Offered("reveal") /\ Begin(t, "round", session.roundId)

RoundRead(t) ==
  /\ task[t].at = "round"
  /\ \/ phase[task[t].id] = "Open" /\ To(t, "open")
     \/ phase[task[t].id] = "Revealing" /\ To(t, "list")
  /\ UNCHANGED <<lifeVars, connected, working, session>>

\* Drand has to serve the signature; then the round is read once more.
OpenSend(t) ==
  /\ task[t].at = "open"
  /\ LOpen(task[t].id)
  /\ \/ To(t, "round") /\ UNCHANGED <<connected, working, session>>
     \/ Throw(t)

\* Mutant: the bidders are taken from the round as the page shows it.
ToRevealShown(r) == {b \in Bidders : Live.states[b] # "None"}

Listed(r) == {b \in Bidders : bid[r][b] # "None"}
ToReveal(r) == Listed(r)

BiddersListed(t) ==
  /\ task[t].at = "list"
  /\ task' = [task EXCEPT ![t].at = "pending", ![t].left = ToReveal(task[t].id)]
  /\ UNCHANGED <<lifeVars, connected, working, session>>

\* The states are read one by one; those revealed already are no longer pending.
PendingRead(t) ==
  LET T == task[t]
      unread == {b \in T.left : T.states[b] = "None"} IN
  /\ T.at = "pending"
  /\ IF unread # {}
     THEN \E b \in unread : task' = [task EXCEPT ![t].states[b] = bid[T.id][b]]
     ELSE task' = [task EXCEPT ![t] =
            [T EXCEPT !.at = "reveal", !.states = NoBids,
                      !.left = {b \in T.left : T.states[b] = "Sealed"}]]
  /\ UNCHANGED <<lifeVars, connected, working, session>>

\* A seal no longer stored is replaced by the page's own copy, if the bid is the
\* wallet's, and skipped otherwise.
Skip(t, b) ==
  /\ task[t].at = "reveal" /\ b \in task[t].left
  /\ b # Wallet \/ task[t].own = 0
  /\ task' = [task EXCEPT ![t].left = @ \ {b}, ![t].skipped = TRUE]
  /\ UNCHANGED <<lifeVars, connected, working, session>>

\* A seal that does not open, and a reveal the contract refuses, end the pass.
RevealSend(t, b) ==
  /\ task[t].at = "reveal" /\ b \in task[t].left
  /\ b \in Sound
  /\ LReveal(task[t].id, b)
  /\ \/ /\ task' = [task EXCEPT ![t].left = @ \ {b}, ![t].revealed = TRUE]
        /\ UNCHANGED <<connected, working, session>>
     \/ Throw(t)

RevealDone(t) ==
  /\ task[t].at = "reveal" /\ task[t].left = {} /\ task[t].revealed
  /\ DoneThenRefresh(t, task[t].id)
  /\ UNCHANGED <<lifeVars, connected, session>>

-----------------------------------------------------------------------------
(* refresh, which every handler but connect ends with.                     *)

RefreshClick(t) == connected /\ session.roundId # 0 /\ Begin(t, "fetch", session.roundId)

RoundFetched(t) ==
  /\ task[t].at = "fetch"
  /\ phase[task[t].id] # "Absent"
  /\ task' = [task EXCEPT ![t].at = "index", ![t].phase = phase[task[t].id]]
  /\ UNCHANGED <<lifeVars, connected, working, session>>

IndexFetched(t) ==
  /\ task[t].at = "index"
  /\ task' = [task EXCEPT ![t].at = "states", ![t].left = Listed(task[t].id)]
  /\ UNCHANGED <<lifeVars, connected, working, session>>

\* Mutant: the round is read last.
RoundReadLast(T) == [id |-> T.id, phase |-> phase[T.id], states |-> T.states]

Snapshot(T) == [id |-> T.id, phase |-> T.phase, states |-> T.states]

\* One state after the other; after the last one the page shows what was read, be
\* it older than what it shows, or of another round.
StateFetched(t) ==
  LET T == task[t]
      unread == {b \in T.left : T.states[b] = "None"} IN
  /\ T.at = "states"
  /\ IF unread # {}
     THEN /\ \E b \in unread : task' = [task EXCEPT ![t].states[b] = bid[T.id][b]]
          /\ UNCHANGED session
     ELSE /\ session' = [session EXCEPT !.live = Snapshot(T)]
          /\ task' = [task EXCEPT ![t] = Idle]
  /\ UNCHANGED <<lifeVars, connected, working>>

-----------------------------------------------------------------------------
SessionInit ==
  /\ connected = FALSE /\ working = FALSE
  /\ session = EmptySession
  /\ task = [t \in Tasks |-> Idle]

Click(t) ==
  \/ ConnectClick(t) \/ CreateClick(t) \/ CommitClick(t) \/ RevealClick(t) \/ RefreshClick(t)
  \/ \E r \in RoundIds : JoinClick(t, r)

Answer(t) ==
  \/ Connected(t) \/ CreateSend(t) \/ JoinRead(t) \/ CommitSend(t)
  \/ RoundRead(t) \/ OpenSend(t) \/ BiddersListed(t) \/ PendingRead(t) \/ RevealDone(t)
  \/ \E b \in Bidders : Skip(t, b) \/ RevealSend(t, b)
  \/ RoundFetched(t) \/ IndexFetched(t) \/ StateFetched(t) \/ Fail(t)

PageStep == \E t \in Tasks : Click(t) \/ Answer(t)

-----------------------------------------------------------------------------
(* Properties.                                                             *)

\* "Reveal complete" (useRoundSession.ts:431), with no bid reported as skipped, means
\* that no bid of the round is sealed any more, whoever else was opening, committing
\* or revealing meanwhile and whatever the page showed.
RevealCompleteMeansAll ==
  \A t \in Tasks :
    LET T == task[t] IN
    T.told /\ T.revealed /\ ~T.skipped =>
      \A b \in Bidders : bid[T.id][b] # "Sealed"

\* The page shows a round in parts, each as it was when it was read, the phase before
\* the bidders and these before their bids (useRoundSession.ts:131-139): a mix that need
\* never have been, such as an open round with a revealed bid, or one bid of two still
\* sealed that was revealed first.  But it only lags, and less the further the round:
\* neither the phase nor a bid is shown ahead of the contract's, a round shown past its
\* commits lacks no bidder, and one shown as over has every bid as it will stay.
LiveLags ==
  Live # NoLive =>
    LET r == Live.id
        past == {"Revealing", "Cleared", "Settled", "Voided"}
        over == past \ {"Revealing"} IN
    /\ phase[r] # "Absent"
    /\ \A later \in {past, over} : Live.phase \in later => phase[r] \in later
    /\ Live.phase \in Final => phase[r] = Live.phase
    /\ \A b \in Bidders : Live.states[b] \in {"None", "Sealed", bid[r][b]}
    /\ \A b \in Bidders : Live.states[b] # "None" => bid[r][b] # "None"
    /\ Live.phase \in past =>
         \A b \in Bidders : bid[r][b] # "None" => Live.states[b] # "None"
    /\ Live.phase \in over => Live.states = bid[r]
=============================================================================
