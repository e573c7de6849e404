------------------------------- MODULE Keeper -------------------------------
(***************************************************************************)
(* The watching keeper, services/keeper: one process that drives the rounds *)
(* of a contract, its settlement guard, its queue on disk, the queue's      *)
(* command line and the status API, among other callers of the contract.    *)
(*                                                                         *)
(* The keeper is sequential but for its awaits, so a step of it is one      *)
(* remote call coming back and what the code does up to the next await; pc  *)
(* names the call under way.  Everything others do to the contract (other   *)
(* keepers and bidders, and calls of this keeper whose answer was lost and  *)
(* which land later) happens between these steps.                           *)
(*                                                                         *)
(* A seal is a temporary entry of the contract and may expire once its      *)
(* reveal window is over, and the token may refuse a payee of a round, so    *)
(* that a call that pays the round out fails (Round's `frozen`).             *)
(*                                                                         *)
(* Abstractions.  An entry of the queue keeps the deployment (contract and  *)
(* network) and lastStatus: retry counts and texts decide nothing.  The     *)
(* keeper's clock runs ahead of the ledger's timestamp by up to MaxSkew.    *)
(***************************************************************************)
EXTENDS RoundLife

CONSTANTS
  Deployment, Elsewhere,  \* the contract and network watched; another one
  Honest,                 \* bidders whose seal opens to what they committed to
  Corrupt,                \* bidders whose seal opens to something else; the
                          \* seals of all others do not open at all
  Configured,             \* WATCH_ROUND_IDS; empty for discovery
  WATCH_FROM, WATCH_MAX_ROUNDS,  \* where discovery starts, how far it probes
  LeftOver,               \* what an earlier deployment may have left in the queue
  MaxSkew, MaxFaults, MaxCrashes, MaxEdits  \* bounds

None == "None"
NoEntry == [deployment |-> None, lastStatus |-> None]
Entries == {NoEntry} \cup [deployment : {Deployment, Elsewhere}, lastStatus : Phases \cup {"Unknown"}]

ASSUME KeeperAssumption ==
  /\ {MaxSkew, MaxFaults, MaxCrashes, MaxEdits, WATCH_FROM, WATCH_MAX_ROUNDS} \subseteq Nat
  /\ Configured \subseteq RoundIds
  /\ Honest \cup Corrupt \subseteq Bidders /\ Honest \cap Corrupt = {}
  /\ Deployment # Elsewhere /\ None \notin {Deployment, Elsewhere}
  /\ LeftOver \subseteq [RoundIds -> Entries]

VARIABLES
  pc,      \* the remote call under way
  cur,     \* the round of the tick, 0 between ticks
  todo,    \* the rounds still to be ticked in this poll
  left,    \* the bidders whose seals are still to be revealed in this pass
  who,     \* the bidder whose seal is being revealed
  did,     \* what the tick has done so far
  guard,   \* the settlement guard's entry for each round
  mem,     \* the queue as the keeper holds it
  file,    \* the queue on disk
  edit,    \* what a queue command that has read the file is about to write
  report,  \* a status request under way
  spent,   \* how many faults, crashes and queue commands there have been
  gone     \* the <<round, bidder>> pairs whose seal has expired

keeperVars == <<pc, cur, todo, left, who, did, guard, mem, file, edit, report, spent>>
vars == <<lifeVars, keeperVars, gone>>

NoEdit == [r \in {} |-> NoEntry]
NoReport == [round |-> 0, settlement |-> "none"]
Empty == [r \in RoundIds |-> NoEntry]

-----------------------------------------------------------------------------
(* The settlement guard.                                                   *)

GuardStates == {"none", "pending", "submitted", "terminal"}

Mark(status) == guard' = [guard EXCEPT ![cur] = status]
CanSettle == guard[cur] \in {"none", "pending"}

-----------------------------------------------------------------------------
(* Errors.                                                                 *)

\* Why the contract or the network refuses a call, as far as the keeper's lists
\* of tolerated errors tell apart.
Tolerated == [SendVoid   |-> {"AlreadyDone", "TooEarly"},
              SendOpen   |-> {"AlreadyDone"},
              SendReveal |-> {"AlreadyDone", "HashMismatch"},
              SendClear  |-> {"AlreadyDone", "TooEarly"},
              SendSettle |-> {"AlreadyDone"}]

\* The direct path of #sendUnwrap throws one error whatever went wrong; the cause
\* is not among the properties errorMatches looks at.
Thrown(cause) == "direct RPC submission failed"

ErrorMatches(call, cause) == Thrown(cause) \in Tolerated[call]

-----------------------------------------------------------------------------
(* The queue on disk.                                                      *)

\* addRound: an entry there already keeps its lastStatus.
Added(queue, r) ==
  [queue EXCEPT ![r] = IF queue[r] = NoEntry
                       THEN [deployment |-> Deployment, lastStatus |-> "Unknown"]
                       ELSE [@ EXCEPT !.deployment = Deployment]]

AddedAll(queue, S) == [r \in RoundIds |-> IF r \in S THEN Added(queue, r)[r] ELSE queue[r]]

\* Mutant: a cleared round is recorded as settled.
SettledOnceCleared(queue, r, status) ==
  IF queue[r] = NoEntry THEN queue
  ELSE [queue EXCEPT ![r].lastStatus = IF status = "Cleared" THEN "Settled" ELSE status]

\* updateRound: nothing for a round that is not in the queue.
Updated(queue, r, status) ==
  IF queue[r] = NoEntry THEN queue ELSE [queue EXCEPT ![r].lastStatus = status]

\* The rounds a poll ticks.
Active(queue) ==
  {r \in RoundIds : /\ queue[r] # NoEntry /\ queue[r].deployment = Deployment
                    /\ queue[r].lastStatus \notin Final}

Save == file' = mem'

-----------------------------------------------------------------------------
(* Moving on.                                                              *)

\* The next await is call p of the same tick.
Await(p) == pc' = p /\ UNCHANGED <<cur, todo, mem, file>>

\* The next round of the poll, in the order of the ids, or sleep.
NextOf(rest) ==
  IF rest = {} THEN pc' = "Sleep" /\ cur' = 0 /\ todo' = {}
  ELSE \E r \in rest : /\ \A q \in rest : r <= q
                       /\ pc' = "StaleRead" /\ cur' = r /\ todo' = rest \ {r}

\* Mutant: a failed tick leaves the guard's entry alone.
FailQuietly ==
  /\ UNCHANGED <<guard, mem>> /\ Save
  /\ did' = {} /\ left' = {} /\ who' = None
  /\ NextOf(todo)

\* The watch loop's catch: whatever failed, the guard's entry is pending again.
FailTick ==
  /\ Mark("pending")
  /\ UNCHANGED mem /\ Save
  /\ did' = {} /\ left' = {} /\ who' = None
  /\ NextOf(todo)

\* The watch loop after watchRound returned status.
EndTick(status, done) ==
  /\ guard' = IF "settled" \in done \/ "voided" \in done \/ status = "Voided"
              THEN [guard EXCEPT ![cur] = "terminal"] ELSE guard
  /\ mem' = Updated(mem, cur, status) /\ Save
  /\ did' = {} /\ left' = {} /\ who' = None
  /\ NextOf(todo)

\* A send that the contract or the network refuses.
Refused(call, cause, p) ==
  IF ErrorMatches(call, cause)
  THEN Await(p) /\ UNCHANGED <<left, who, did, guard>>
  ELSE FailTick

\* What the keeper takes the time to be: its clock and the ledger's timestamp differ.
Clock == now .. now + MaxSkew

-----------------------------------------------------------------------------
(* One poll: list the rounds, then tick each active one.                   *)

Wake ==
  /\ pc = "Sleep"
  /\ Await("Discover")
  /\ UNCHANGED <<lifeVars, left, who, did, guard, edit, report, spent>>

\* The rounds the keeper is started for.
Watched ==
  IF Configured # {} THEN Configured
  ELSE {r \in RoundIds : WATCH_FROM <= r /\ r < WATCH_FROM + WATCH_MAX_ROUNDS}

\* Discovery probes id by id and stops at the first that is missing.
Discovered == {r \in Watched : \A q \in RoundIds : WATCH_FROM <= q /\ q <= r => phase[q] # "Absent"}

Resolved == IF Configured # {} THEN Configured ELSE Discovered

Discover ==
  /\ pc = "Discover"
  /\ mem' = AddedAll(mem, Resolved) /\ Save
  /\ NextOf(Active(mem'))
  /\ UNCHANGED <<lifeVars, left, who, did, guard, edit, report, spent>>

DiscoverFails ==
  /\ pc = "Discover"
  /\ spent.faults < MaxFaults
  /\ spent' = [spent EXCEPT !.faults = @ + 1]
  /\ NextOf(Active(mem))
  /\ UNCHANGED <<lifeVars, left, who, did, guard, mem, file, edit, report>>

\* voidIfStale.
StaleRead ==
  /\ pc = "StaleRead"
  /\ IF phase[cur] = "Absent" THEN FailTick
     ELSE /\ \E clock \in Clock :
               Await(IF phase[cur] = "Open" /\ clock > RevealDeadline(cur) + VOID_GRACE
                     THEN "SendVoid" ELSE "Look")
          /\ UNCHANGED <<left, who, did, guard>>
  /\ UNCHANGED <<lifeVars, edit, report, spent>>

SendVoid ==
  /\ pc = "SendVoid"
  /\ IF CanVoid(cur)
     THEN LVoid(cur) /\ Await("VoidRead") /\ UNCHANGED <<left, who, did, guard>>
     ELSE /\ Refused("SendVoid", IF phase[cur] = "Open" THEN "TooEarly" ELSE "AlreadyDone",
                     "VoidRead")
          /\ UNCHANGED lifeVars
  /\ UNCHANGED <<edit, report, spent>>

VoidRead ==
  /\ pc = "VoidRead"
  /\ Await("Look")
  /\ UNCHANGED <<lifeVars, left, who, did, guard, edit, report, spent>>

\* watchRound between its three parts.
Look ==
  /\ pc = "Look"
  /\ IF phase[cur] \in {"Open", "Revealing"}
     THEN Await("KeepRead") /\ UNCHANGED <<left, who, did, guard>>
     ELSE IF phase[cur] = "Cleared"
     THEN Await("CloseRead") /\ UNCHANGED <<left, who, did, guard>>
     ELSE EndTick(phase[cur], did)
  /\ UNCHANGED <<lifeVars, edit, report, spent>>

-----------------------------------------------------------------------------
(* keepRound: open the reveal window, then reveal every seal.               *)

\* waitForRound takes the round to be out one Drand period after it is.
WaitTime(R) == drand_genesis + drand_period * R

KeepRead ==
  /\ pc = "KeepRead"
  /\ \E clock \in Clock :
       Await(IF phase[cur] = "Open" /\ clock >= WaitTime(RevealRound(cur)) THEN "Signature"
             ELSE IF phase[cur] = "Revealing" THEN "Bidders" ELSE "KeptRead")
  /\ UNCHANGED <<lifeVars, left, who, did, guard, edit, report, spent>>

\* Five tries; the pass ends without the signature.
Signature ==
  /\ pc = "Signature"
  /\ Await(IF Produced(RevealRound(cur)) THEN "SendOpen" ELSE "KeptRead")
  /\ UNCHANGED <<lifeVars, left, who, did, guard, edit, report, spent>>

SendOpen ==
  /\ pc = "SendOpen"
  /\ IF CanOpen(cur)
     THEN LOpen(cur) /\ Await("OpenRead") /\ UNCHANGED <<left, who, did, guard>>
     ELSE /\ Refused("SendOpen", IF phase[cur] = "Open" THEN "TooEarly" ELSE "AlreadyDone",
                     "OpenRead")
          /\ UNCHANGED lifeVars
  /\ UNCHANGED <<edit, report, spent>>

OpenRead ==
  /\ pc = "OpenRead"
  /\ Await(IF phase[cur] = "Revealing" THEN "Bidders" ELSE "KeptRead")
  /\ UNCHANGED <<lifeVars, left, who, did, guard, edit, report, spent>>

\* The bidder index, page by page.
Listed(r) == {b \in Bidders : bid[r][b] # "None"}

NextBid(S) == Await(IF S = {} THEN "KeepDone" ELSE "BidRead")

ListBidders ==
  /\ pc = "Bidders"
  /\ left' = Listed(cur)
  /\ NextBid(left')
  /\ UNCHANGED <<lifeVars, who, did, guard, edit, report, spent>>

\* Mutant: a bid that somebody else has revealed ends the loop (a break where the
\* code continues).
LeftUntilRevealed(b) == IF bid[cur][b] = "Revealed" THEN {} ELSE left \ {b}

\* The bidders still to come after b.
LeftAfter(b) == left \ {b}

\* A bid is revealed if it is not yet, its seal is still there and it decrypts.
ToReveal(b) ==
  bid[cur][b] = "Sealed" /\ <<cur, b>> \notin gone /\ b \in Honest \cup Corrupt

\* Bid state, seal and decryption of the next bidder of the list.
BidRead ==
  /\ pc = "BidRead"
  /\ \E b \in left :
       /\ left' = LeftAfter(b)
       /\ IF ToReveal(b)
          THEN who' = b /\ Await("SendReveal")
          ELSE who' = who /\ NextBid(left')
  /\ UNCHANGED <<lifeVars, did, guard, edit, report, spent>>

\* A bid whose state cannot be read is skipped.
BidReadFails ==
  /\ pc = "BidRead"
  /\ spent.faults < MaxFaults
  /\ spent' = [spent EXCEPT !.faults = @ + 1]
  /\ \E b \in left : left' = LeftAfter(b)
  /\ NextBid(left')
  /\ UNCHANGED <<lifeVars, who, did, guard, edit, report>>

RevealCause ==
  IF bid[cur][who] = "Revealed" THEN "AlreadyDone"
  ELSE IF phase[cur] = "Revealing" /\ who \in Corrupt THEN "HashMismatch" ELSE "TooLate"

SendReveal ==
  /\ pc = "SendReveal"
  /\ IF CanReveal(cur, who) /\ who \in Honest
     THEN LReveal(cur, who) /\ NextBid(left) /\ who' = None /\ UNCHANGED <<left, did, guard>>
     ELSE /\ Refused("SendReveal", RevealCause, IF left = {} THEN "KeepDone" ELSE "BidRead")
          /\ UNCHANGED lifeVars
  /\ UNCHANGED <<edit, report, spent>>

KeepDone ==
  /\ pc = "KeepDone"
  /\ Await("KeptRead")
  /\ UNCHANGED <<lifeVars, left, who, did, guard, edit, report, spent>>

KeptRead ==
  /\ pc = "KeptRead"
  /\ IF phase[cur] \in {"Revealing", "Cleared"}
     THEN Await("CloseRead") /\ UNCHANGED <<left, who, did, guard>>
     ELSE EndTick(phase[cur], did)
  /\ UNCHANGED <<lifeVars, edit, report, spent>>

-----------------------------------------------------------------------------
(* closeRound: clear after the reveal deadline, then settle.                *)

\* Mutant: the guard's entry is terminal as soon as the settlement is sent.
TerminalBeforeSettle ==
  IF CanSettle THEN Mark("terminal") /\ Await("SendSettle")
  ELSE Await("SettleRead") /\ UNCHANGED guard

\* A cleared round: through the guard to the settlement, or past it.
TrySettle ==
  IF CanSettle THEN Mark("submitted") /\ Await("SendSettle")
  ELSE Await("SettleRead") /\ UNCHANGED guard

CloseRead ==
  /\ pc = "CloseRead"
  /\ IF phase[cur] = "Cleared" THEN TrySettle
     ELSE /\ \E clock \in Clock :
               Await(IF phase[cur] = "Revealing" /\ clock > RevealDeadline(cur)
                     THEN "SendClear" ELSE "ClosedRead")
          /\ UNCHANGED guard
  /\ UNCHANGED <<lifeVars, left, who, did, edit, report, spent>>

SendClear ==
  /\ pc = "SendClear"
  /\ IF CanClear(cur)
     THEN /\ LClear(cur)
          /\ did' = IF phase'[cur] = "Voided" THEN did \cup {"voided"} ELSE did
          /\ Await("ClearRead") /\ UNCHANGED <<left, who, guard>>
     ELSE /\ Refused("SendClear", IF phase[cur] = "Revealing" THEN "TooEarly" ELSE "AlreadyDone",
                     "ClearRead")
          /\ UNCHANGED lifeVars
  /\ UNCHANGED <<edit, report, spent>>

ClearRead ==
  /\ pc = "ClearRead"
  /\ IF phase[cur] = "Cleared" THEN TrySettle ELSE Await("ClosedRead") /\ UNCHANGED guard
  /\ UNCHANGED <<lifeVars, left, who, did, edit, report, spent>>

SendSettle ==
  /\ pc = "SendSettle"
  /\ IF phase[cur] = "Cleared"
     THEN /\ LSettle(cur)
          /\ did' = did \cup {"settled"} /\ Mark("terminal")
          /\ Await("SettleRead") /\ UNCHANGED <<left, who>>
     ELSE /\ IF ErrorMatches("SendSettle", "AlreadyDone")
             THEN Mark("terminal") /\ Await("SettleRead") /\ UNCHANGED <<left, who, did>>
             ELSE FailTick
          /\ UNCHANGED lifeVars
  /\ UNCHANGED <<edit, report, spent>>

SettleRead ==
  /\ pc = "SettleRead"
  /\ Await("ClosedRead")
  /\ UNCHANGED <<lifeVars, left, who, did, guard, edit, report, spent>>

\* The contract would void, clear or settle the round, but the token refuses one of the
\* payees and the call fails as a whole; the error is on no list of tolerated ones.
PayoutRefused ==
  /\ \/ pc = "SendVoid" /\ CanVoid(cur)
     \/ pc = "SendClear" /\ CanClear(cur)
     \/ pc = "SendSettle" /\ phase[cur] = "Cleared"
  /\ FailTick
  /\ UNCHANGED <<lifeVars, edit, report, spent>>

ClosedRead ==
  /\ pc = "ClosedRead"
  /\ EndTick(phase[cur], did)
  /\ UNCHANGED <<lifeVars, edit, report, spent>>

-----------------------------------------------------------------------------
(* Faults, restarts, the queue's command line and the status API.           *)

\* A call of a tick fails on its way, or its answer is lost.
CallFails ==
  /\ pc \notin {"Sleep", "Discover", "Signature"}
  /\ spent.faults < MaxFaults
  /\ spent' = [spent EXCEPT !.faults = @ + 1]
  /\ FailTick
  /\ UNCHANGED <<lifeVars, edit, report>>

\* No replica of the beacon serves the signature.
SignatureUnserved ==
  /\ pc = "Signature"
  /\ spent.faults < MaxFaults
  /\ spent' = [spent EXCEPT !.faults = @ + 1]
  /\ Await("KeptRead")
  /\ UNCHANGED <<lifeVars, left, who, did, guard, edit, report>>

\* The process ends anywhere (a signal under `serve` ends it in the middle of a
\* tick) and starts again with a fresh guard and the queue q.
Restart(q) ==
  /\ spent.crashes < MaxCrashes
  /\ spent' = [spent EXCEPT !.crashes = @ + 1]
  /\ pc' = "Discover" /\ cur' = 0 /\ todo' = {}
  /\ left' = {} /\ who' = None /\ did' = {}
  /\ guard' = [r \in RoundIds |-> "none"]
  /\ mem' = q /\ file' = q
  /\ report' = NoReport
  /\ UNCHANGED <<lifeVars, edit>>

Crash == Restart(file)

\* A crash within saveStore leaves a file that does not parse; it is set aside.
CrashWhileSaving == pc # "Sleep" /\ Restart(Empty)

\* Mutant: remove only forgets which deployment the round belongs to.
EditedInPart(q, op, r) ==
  IF op = "add" THEN Added(q, r) ELSE [q EXCEPT ![r].deployment = None]

\* `queue add` and `queue remove` read the file when they start, possibly while the
\* keeper is writing it, and write all of it when they end.
Edited(q, op, r) ==
  IF op = "add" THEN Added(q, r) ELSE [q EXCEPT ![r] = NoEntry]

EditRead(op, r) ==
  /\ edit = NoEdit
  /\ spent.edits < MaxEdits
  /\ spent' = [spent EXCEPT !.edits = @ + 1]
  /\ \E q \in {file, Empty} :
       /\ op = "remove" => q[r] # NoEntry
       /\ edit' = Edited(q, op, r)
  /\ UNCHANGED <<lifeVars, pc, cur, todo, left, who, did, guard, mem, file, report>>

EditWrite ==
  /\ edit # NoEdit
  /\ file' = edit /\ edit' = NoEdit
  /\ UNCHANGED <<lifeVars, pc, cur, todo, left, who, did, guard, mem, report, spent>>

\* What the read-only preflight and the status API call the phase of a round whose
\* status was read as status, with `revealed` of its bids known to be revealed.
DryRunPhase(r, clock, revealed) ==
  CASE phase[r] = "Open" ->
         IF clock > RevealDeadline(r) + VOID_GRACE THEN "stale-open" ELSE "awaiting-drand"
    [] phase[r] = "Revealing" ->
         IF clock > RevealDeadline(r) THEN "ready-to-clear"
         ELSE IF revealed < Cardinality(Listed(r)) THEN "revealing" ELSE "awaiting-clear"
    [] phase[r] = "Cleared" -> "ready-to-settle"
    [] OTHER -> "complete"

Revealed(r) == Cardinality({b \in Bidders : bid[r][b] = "Revealed"})

\* A status request reads the queue and the guard, and then the contract.
StatusRequest(r) ==
  /\ report = NoReport /\ mem[r] # NoEntry
  /\ report' = [round |-> r, settlement |-> guard[r]]
  /\ UNCHANGED <<lifeVars, pc, cur, todo, left, who, did, guard, mem, file, edit, spent>>

\* What the request under way is answered if the contract is read now: the guard's
\* word of then, unless the round is over, and a phase; counting the revealed bids may
\* fail.
Answers ==
  {[settlement |-> IF phase[report.round] \in Final THEN "terminal" ELSE report.settlement,
    phase |-> DryRunPhase(report.round, clock, revealed)] :
     clock \in Clock, revealed \in {Revealed(report.round), 0}}

\* The answer goes out, or one that says that the contract could not be read.
StatusReply ==
  /\ report # NoReport
  /\ report' = NoReport
  /\ UNCHANGED <<lifeVars, pc, cur, todo, left, who, did, guard, mem, file, edit, spent>>

Init ==
  /\ LInit
  /\ pc = "Discover" /\ cur = 0 /\ todo = {}
  /\ left = {} /\ who = None /\ did = {}
  /\ guard = [r \in RoundIds |-> "none"]
  /\ file \in LeftOver /\ mem = file
  /\ edit = NoEdit /\ report = NoReport
  /\ spent = [faults |-> 0, crashes |-> 0, edits |-> 0]
  /\ gone = {}

KeepSteps ==
  KeepRead \/ Signature \/ SendOpen \/ OpenRead \/ ListBidders \/ BidRead \/ SendReveal
    \/ KeepDone \/ KeptRead

CloseSteps ==
  CloseRead \/ SendClear \/ ClearRead \/ SendSettle \/ SettleRead \/ ClosedRead

\* The keeper while nothing fails.
KeeperStep ==
  Wake \/ Discover \/ StaleRead \/ SendVoid \/ VoidRead \/ Look \/ KeepSteps \/ CloseSteps

Faults ==
  DiscoverFails \/ BidReadFails \/ SignatureUnserved \/ PayoutRefused \/ CallFails
    \/ Crash \/ CrashWhileSaving

Queue == EditWrite \/ \E op \in {"add", "remove"}, r \in RoundIds : EditRead(op, r)
Status == StatusReply \/ \E r \in RoundIds : StatusRequest(r)

-----------------------------------------------------------------------------
(* The contract and its seals, moved by everybody else.                     *)

Others == LNext /\ UNCHANGED <<keeperVars, gone>>

\* A seal outlives the reveal window (Round!SealsOutliveReveal) and no more.  Seals
\* that do not open, and those of rounds that are not being revealed, may be gone as
\* well: nobody would notice.
SealExpires(r, b) ==
  /\ phase[r] = "Revealing" /\ now > RevealDeadline(r)
  /\ bid[r][b] # "None" /\ b \in Honest \cup Corrupt
  /\ gone' = gone \cup {<<r, b>>}
  /\ UNCHANGED <<lifeVars, keeperVars>>

Next ==
  \/ (KeeperStep \/ Faults \/ Queue \/ Status) /\ UNCHANGED gone
  \/ Others \/ \E r \in RoundIds, b \in Bidders : SealExpires(r, b)

Spec == Init /\ [][Next]_vars

\* Ledgers close, seals that nobody keeps extending expire, and the keeper's process
\* gets to run: Node resumes an await whose call has come back, and a process that
\* ended is started again.  Nothing is asked of bidders, operators, other keepers or
\* Drand.
FairSpec ==
  /\ Spec
  /\ WF_vars(LTick /\ UNCHANGED <<keeperVars, gone>>)
  /\ WF_vars(KeeperStep /\ UNCHANGED gone)
  /\ \A r \in RoundIds, b \in Bidders : WF_vars(SealExpires(r, b))

-----------------------------------------------------------------------------
(* Properties.                                                             *)

TypeOK ==
  /\ cur \in {0} \cup RoundIds /\ todo \subseteq RoundIds
  /\ left \subseteq Bidders /\ who \in Bidders \cup {None}
  /\ did \subseteq {"settled", "voided"}
  /\ guard \in [RoundIds -> GuardStates]
  /\ mem \in [RoundIds -> Entries] /\ file \in [RoundIds -> Entries]
  /\ edit \in {NoEdit} \cup [RoundIds -> Entries]
  /\ report \in {NoReport} \cup [round : RoundIds, settlement : GuardStates]
  /\ spent \in [faults : Nat, crashes : Nat, edits : Nat]
  /\ phase \in [RoundIds -> Phases] /\ bid \in [RoundIds -> [Bidders -> BidPhases]]
  /\ gone \subseteq RoundIds \X Bidders

\* The guard never gives up a round that is not over: a terminal entry keeps
\* closeRound from settling for as long as the process lives (settlement-guard.ts:99).
GuardTerminalIsFinal ==
  \A r \in RoundIds : guard[r] = "terminal" => phase[r] \in Final

\* "The on-chain status observed during the last tick" (services/keeper/README.md:152):
\* the queue never calls a round of this deployment over that is not.  The watch loop
\* drops such a round for good, in this process and in every later one that loads
\* the file, whatever crashes and queue commands do to it (watch-loop.ts:90-95).
DroppedIsFinal ==
  \A r \in RoundIds, q \in {mem, file} \cup ({edit} \ {NoEdit}) :
    q[r].deployment = Deployment /\ q[r].lastStatus \in Final => phase[r] = q[r].lastStatus

\* A pass in which no call failed leaves no seal unrevealed that can still be read and
\* opens, whoever else reveals, opens and clears between its calls, and in whatever
\* order it comes to the bidders (keeper.ts:9-10).
PassRevealsAll ==
  pc = "KeepDone" /\ spent.faults = 0 =>
    \A b \in Honest : bid[cur][b] = "Sealed" => <<cur, b>> \in gone

\* A status answer never calls a settlement terminal while it gives the round work
\* to do, nor the other way round, although guard and contract are read at
\* different times (status.ts:162-165).
ReportsAgree ==
  report # NoReport /\ phase[report.round] # "Absent" =>
    \A answer \in Answers : answer.settlement = "terminal" <=> answer.phase = "complete"

\* The keeper alone takes every round it watches to its end, through lost answers, a
\* beacon that stalls, crashes and queue commands, also if it comes to a seal only
\* after the reveal deadline, provided that from some time on the token refuses none
\* of its payouts (keeper.ts:454-486).
KeptRoundEnds ==
  <>[][~PayoutRefused]_vars =>
    \A r \in Watched : phase[r] = "Open" ~> phase[r] \in Final
=============================================================================
