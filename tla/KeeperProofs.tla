---------------------------- MODULE KeeperProofs ----------------------------
(***************************************************************************)
(* The keeper never gives up a round that is not over, in its guard, in its *)
(* queue or in a status answer, a pass without failed calls reveals all     *)
(* there is to reveal, no tick goes in a circle, and nothing the keeper does *)
(* takes a round out of the life the contract gives it: for any number of   *)
(* rounds and bidders, any clock skew, and any number of faults, crashes    *)
(* and queue commands.                                                     *)
(***************************************************************************)
EXTENDS Keeper, TLAPS

USE LifeAssumption, KeeperAssumption

-----------------------------------------------------------------------------
(* What the contract does between two steps of the keeper.                  *)

Past(r) == phase[r] \notin {"Absent", "Open"}

LifeTypes ==
  phase \in [RoundIds -> Phases] /\ bid \in [RoundIds -> [Bidders -> BidPhases]]

\* One step of the life of the rounds: a final round stays as it is, a round never
\* opens again, and a bid is only sealed while its round is open.
LEMMA LifeStep ==
  ASSUME LifeTypes, [LNext]_lifeVars
  PROVE  /\ LifeTypes'
         /\ \A r \in RoundIds :
              /\ phase[r] \in Final => phase'[r] = phase[r]
              /\ Past(r) => Past(r)'
              /\ Past(r) => \A b \in Bidders : bid[r][b] # "Sealed" => bid'[r][b] # "Sealed"
<1> DEFINE Goal == /\ LifeTypes'
                   /\ \A r \in RoundIds :
                        /\ phase[r] \in Final => phase'[r] = phase[r]
                        /\ Past(r) => Past(r)'
                        /\ Past(r) => \A b \in Bidders :
                             bid[r][b] # "Sealed" => bid'[r][b] # "Sealed"
<1> USE DEF LifeTypes, Past, Final, Phases, BidPhases
<1>1. ASSUME UNCHANGED <<phase, bid>> PROVE Goal
  BY <1>1
<1>2. ASSUME NEW r \in RoundIds, NEW s \in Schedules, LCreate(r, s) PROVE Goal
  BY <1>2 DEF LCreate
<1>3. ASSUME NEW r \in RoundIds, NEW b \in Bidders, LCommit(r, b) PROVE Goal
  BY <1>3 DEF LCommit
<1>4. ASSUME NEW r \in RoundIds, LOpen(r) PROVE Goal
  BY <1>4 DEF LOpen, CanOpen
<1>5. ASSUME NEW r \in RoundIds, NEW b \in Bidders, LReveal(r, b) PROVE Goal
  BY <1>5 DEF LReveal, CanReveal
<1>6. ASSUME NEW r \in RoundIds, LClear(r) PROVE Goal
  BY <1>6 DEF LClear, CanClear
<1>7. ASSUME NEW r \in RoundIds, LSettle(r) PROVE Goal
  BY <1>7 DEF LSettle
<1>8. ASSUME NEW r \in RoundIds, LVoid(r) PROVE Goal
  BY <1>8 DEF LVoid, CanVoid
<1> QED
  BY <1>1, <1>2, <1>3, <1>4, <1>5, <1>6, <1>7, <1>8
     DEF LNext, LTick, LProduce, LAdvance, lifeVars

-----------------------------------------------------------------------------
(* The inductive invariant.                                                 *)

Ticking == pc \notin {"Sleep", "Discover"} => cur \in RoundIds

\* What the tick did for good can be seen in the contract.
DidFinal == did # {} => cur \in RoundIds /\ phase[cur] \in Final

BetweenTicks == pc \in {"Sleep", "Discover"} => did = {}

\* A pass over the bidders runs once no more bids can come, and has every seal that
\* opens still ahead of it.
PassCovers ==
  /\ pc \in {"Bidders", "BidRead", "SendReveal", "KeepDone"} => Past(cur)
  /\ pc = "KeepDone" => left = {}
  /\ pc \in {"BidRead", "SendReveal", "KeepDone"} /\ spent.faults = 0 =>
       \A b \in Honest : bid[cur][b] = "Sealed" /\ <<cur, b>> \notin gone =>
         b \in left \/ (pc = "SendReveal" /\ b = who)

ReportSound == report.settlement = "terminal" => phase[report.round] \in Final

\* No queue calls a round over that is not, whatever deployment it names.
QueueSound ==
  \A r \in RoundIds, q \in {mem, file} \cup ({edit} \ {NoEdit}) :
    q[r].lastStatus \in Final => phase[r] = q[r].lastStatus

KInv ==
  /\ TypeOK /\ Ticking /\ DidFinal /\ BetweenTicks
  /\ GuardTerminalIsFinal /\ QueueSound /\ PassCovers /\ ReportSound

\* No failure of a direct submission is ever recognised as tolerable.
LEMMA NothingTolerated ==
  \A call \in {"SendVoid", "SendOpen", "SendReveal", "SendClear", "SendSettle"} :
    \A cause : ~ErrorMatches(call, cause)
<1> DEFINE thrown == "direct RPC submission failed"
<1>1. thrown \notin Tolerated["SendVoid"] /\ thrown \notin Tolerated["SendOpen"]
  BY DEF Tolerated
<1>2. thrown \notin Tolerated["SendReveal"] /\ thrown \notin Tolerated["SendClear"]
  BY DEF Tolerated
<1>3. thrown \notin Tolerated["SendSettle"]
  BY DEF Tolerated
<1> QED BY <1>1, <1>2, <1>3 DEF ErrorMatches, Thrown

\* What every step keeps that leaves the keeper's own state alone.
LEMMA OthersStep ==
  ASSUME KInv, UNCHANGED gone,
         [LNext]_lifeVars, UNCHANGED keeperVars
  PROVE  KInv'
<1> USE DEF KInv, keeperVars
<1>1. LifeTypes BY DEF TypeOK, LifeTypes
<1>2. /\ LifeTypes'
      /\ \A r \in RoundIds :
           /\ phase[r] \in Final => phase'[r] = phase[r]
           /\ Past(r) => Past(r)'
           /\ Past(r) => \A b \in Bidders : bid[r][b] # "Sealed" => bid'[r][b] # "Sealed"
  BY <1>1, LifeStep
<1>3. TypeOK' BY <1>2 DEF TypeOK, LifeTypes
<1>4. Ticking' /\ DidFinal' /\ BetweenTicks' BY <1>2 DEF Ticking, DidFinal, BetweenTicks
<1>5. GuardTerminalIsFinal' BY <1>2 DEF GuardTerminalIsFinal
<1>6. QueueSound' BY <1>2 DEF QueueSound
<1>7. PassCovers' BY <1>2 DEF PassCovers, Ticking, Past
<1>8. ReportSound'
  <2>1. report.settlement = "terminal" => report.round \in RoundIds
    BY DEF TypeOK, NoReport
  <2> QED BY <1>2, <2>1 DEF ReportSound
<1> QED BY <1>3, <1>4, <1>5, <1>6, <1>7, <1>8

\* What a step keeps that leaves the queue, the queue's command line and the status
\* request alone, given what it does to the tick.
Calm ==
  /\ [LNext]_lifeVars
  /\ pc' \in {"Sleep", "Discover"} => did' = {}
  /\ pc' \notin {"Sleep", "Discover"} => cur' \in RoundIds
  /\ cur' \in {0} \cup RoundIds /\ todo' \subseteq RoundIds
  /\ left' \subseteq Bidders /\ who' \in Bidders \cup {None}
  /\ \/ did' = {}
     \/ cur' = cur /\ did' = did
     \/ cur' = cur /\ cur \in RoundIds /\ phase'[cur] \in Final /\ did' \subseteq {"settled", "voided"}
  /\ \/ guard' = guard
     \/ /\ cur \in RoundIds
        /\ \E g \in GuardStates :
             /\ guard' = [guard EXCEPT ![cur] = g]
             /\ g = "terminal" => phase'[cur] \in Final
  /\ mem' = mem /\ file' \in {file, mem} /\ edit' = edit /\ report' = report
  /\ spent' \in [faults : Nat, crashes : Nat, edits : Nat]

LEMMA CalmStep ==
  ASSUME KInv, UNCHANGED gone,
         Calm, PassCovers'
  PROVE  KInv'
<1> USE DEF KInv, Calm
<1>1. LifeTypes BY DEF TypeOK, LifeTypes
<1>2. /\ LifeTypes'
      /\ \A r \in RoundIds : phase[r] \in Final => phase'[r] = phase[r]
  BY <1>1, LifeStep
<1>3. TypeOK'
  <2>1. guard' \in [RoundIds -> GuardStates] BY DEF TypeOK
  <2>2. did' \subseteq {"settled", "voided"} BY DEF TypeOK
  <2> QED BY <1>2, <2>1, <2>2 DEF TypeOK, LifeTypes
<1>4. Ticking' /\ BetweenTicks' BY DEF Ticking, BetweenTicks
<1>5. DidFinal' BY <1>2 DEF DidFinal
<1>6. GuardTerminalIsFinal' BY <1>2 DEF GuardTerminalIsFinal, TypeOK
<1>7. QueueSound' BY <1>2 DEF QueueSound
<1>8. ReportSound'
  <2>1. report.settlement = "terminal" => report.round \in RoundIds
    BY DEF TypeOK, NoReport
  <2> QED BY <1>2, <2>1 DEF ReportSound
<1> QED BY <1>3, <1>4, <1>5, <1>6, <1>7, <1>8

LEMMA NextOfStep ==
  ASSUME NEW rest \in SUBSET RoundIds, NextOf(rest)
  PROVE  /\ pc' \in {"Sleep", "StaleRead"} /\ (pc' = "StaleRead" => cur' \in RoundIds)
         /\ cur' \in {0} \cup RoundIds /\ todo' \subseteq RoundIds
BY DEF NextOf

\* A failed tick only ever reopens the guard.
LEMMA FailStep ==
  ASSUME KInv, UNCHANGED gone,
         cur \in RoundIds, FailTick, UNCHANGED <<lifeVars, edit, report>>,
         spent' \in [faults : Nat, crashes : Nat, edits : Nat]
  PROVE  KInv'
<1>1. todo \subseteq RoundIds BY DEF KInv, TypeOK
<1>2. /\ pc' \in {"Sleep", "StaleRead"} /\ (pc' = "StaleRead" => cur' \in RoundIds)
      /\ cur' \in {0} \cup RoundIds /\ todo' \subseteq RoundIds
  BY <1>1, NextOfStep DEF FailTick
<1>3. Calm BY <1>2 DEF Calm, FailTick, Mark, Save, GuardStates
<1>4. PassCovers' BY <1>2 DEF PassCovers
<1> QED BY <1>3, <1>4, CalmStep

\* A tick that ends records the status it read last.
LEMMA EndStep ==
  ASSUME KInv, UNCHANGED gone,
         cur \in RoundIds, EndTick(phase[cur], did),
         UNCHANGED <<lifeVars, edit, report, spent>>
  PROVE  KInv'
<1> USE DEF KInv, EndTick
<1>1. todo \subseteq RoundIds /\ phase[cur] \in Phases BY DEF TypeOK
<1>2. /\ pc' \in {"Sleep", "StaleRead"} /\ (pc' = "StaleRead" => cur' \in RoundIds)
      /\ cur' \in {0} \cup RoundIds /\ todo' \subseteq RoundIds
  BY <1>1, NextOfStep
<1>3. /\ guard' \in [RoundIds -> GuardStates]
      /\ \A r \in RoundIds : guard'[r] = "terminal" => phase[r] \in Final
  BY DEF TypeOK, GuardStates, DidFinal, GuardTerminalIsFinal, Final
<1>4. /\ mem' \in [RoundIds -> Entries] /\ file' = mem'
      /\ \A r \in RoundIds : mem'[r].lastStatus \in Final
                             => phase[r] = mem'[r].lastStatus
  <2>1. mem \in [RoundIds -> Entries] BY DEF TypeOK
  <2>2. ASSUME mem[cur] # NoEntry
        PROVE  [mem[cur] EXCEPT !.lastStatus = phase[cur]] \in Entries
    BY <1>1, <2>1, <2>2 DEF Entries, NoEntry
  <2>3. \A r \in RoundIds : mem[r].lastStatus \in Final
                             => phase[r] = mem[r].lastStatus
    BY DEF QueueSound, NoEdit
  <2>4. CASE mem[cur] = NoEntry
    BY <2>1, <2>3, <2>4 DEF Updated, Save
  <2>5. CASE mem[cur] # NoEntry
    <3>1. mem' = [mem EXCEPT ![cur].lastStatus = phase[cur]] /\ file' = mem'
      BY <2>5 DEF Updated, Save
    <3>2. mem[cur] \in [deployment : {Deployment, Elsewhere}, lastStatus : Phases \cup {"Unknown"}]
      BY <2>1, <2>5 DEF Entries
    <3>3. mem'[cur].lastStatus = phase[cur] BY <2>1, <3>1, <3>2
    <3> QED BY <2>1, <2>2, <2>3, <2>5, <3>1, <3>3
  <2> QED BY <2>4, <2>5
<1>5. TypeOK' BY <1>2, <1>3, <1>4 DEF TypeOK, lifeVars
<1>6. Ticking' /\ DidFinal' /\ BetweenTicks' /\ PassCovers'
  BY <1>2 DEF Ticking, DidFinal, BetweenTicks, PassCovers
<1>7. GuardTerminalIsFinal' BY <1>3 DEF GuardTerminalIsFinal, lifeVars
<1>8. QueueSound' BY <1>4 DEF QueueSound, lifeVars
<1>9. ReportSound' BY DEF ReportSound, lifeVars
<1> QED BY <1>5, <1>6, <1>7, <1>8, <1>9

LEMMA AnyoneMay ==
  ASSUME NEW r \in RoundIds,
         \/ LVoid(r) \/ LOpen(r) \/ LClear(r) \/ LSettle(r)
         \/ \E b \in Bidders : LReveal(r, b)
  PROVE  [LNext]_lifeVars
BY DEF LNext, LAdvance

\* Steps that wait for the next call of the same tick.
LEMMA AwaitStep ==
  ASSUME KInv, UNCHANGED gone,
         [LNext]_lifeVars, NEW p, Await(p),
         p \notin {"Bidders", "BidRead", "SendReveal", "KeepDone"},
         p \notin {"Sleep", "Discover"} => cur \in RoundIds,
         p \in {"Sleep", "Discover"} => did' = {},
         left' = left, who' = who, edit' = edit, report' = report,
         spent' \in [faults : Nat, crashes : Nat, edits : Nat],
         \/ did' = did
         \/ /\ cur \in RoundIds /\ phase'[cur] \in Final
            /\ did' \subseteq {"settled", "voided"},
         \/ guard' = guard
         \/ /\ cur \in RoundIds
            /\ \E g \in GuardStates :
                 /\ guard' = [guard EXCEPT ![cur] = g]
                 /\ g = "terminal" => phase'[cur] \in Final
  PROVE  KInv'
<1>1. /\ cur \in {0} \cup RoundIds /\ todo \subseteq RoundIds
      /\ left \subseteq Bidders /\ who \in Bidders \cup {None}
  BY DEF KInv, TypeOK
<1>2. pc' = p /\ cur' = cur /\ todo' = todo /\ mem' = mem /\ file' = file BY DEF Await
<1>3. \/ cur' = cur /\ did' = did
      \/ cur' = cur /\ cur \in RoundIds /\ phase'[cur] \in Final /\ did' \subseteq {"settled", "voided"}
  BY <1>2
<1>4. Calm BY <1>1, <1>2, <1>3 DEF Calm
<1>5. PassCovers' BY <1>2 DEF PassCovers
<1> QED BY <1>4, <1>5, CalmStep

-----------------------------------------------------------------------------
(* One lemma per part of a tick.                                            *)

\* What a step relies on of the types.
LEMMA Types ==
  ASSUME KInv
  PROVE  /\ spent \in [faults : Nat, crashes : Nat, edits : Nat]
         /\ pc \notin {"Sleep", "Discover"} => cur \in RoundIds
         /\ guard \in [RoundIds -> GuardStates]
         /\ todo \subseteq RoundIds /\ left \subseteq Bidders /\ who \in Bidders \cup {None}
         /\ mem \in [RoundIds -> Entries] /\ file \in [RoundIds -> Entries]
         /\ phase \in [RoundIds -> Phases] /\ bid \in [RoundIds -> [Bidders -> BidPhases]]
BY DEF KInv, TypeOK, Ticking

\* A queue that is sound and well-typed.
Sound(q) ==
  \A r \in RoundIds : q[r] \in Entries /\ (q[r].lastStatus \in Final => phase[r] = q[r].lastStatus)

LEMMA QueuesSound ==
  ASSUME KInv
  PROVE  Sound(mem) /\ Sound(file) /\ (edit # NoEdit => Sound(edit))
BY DEF KInv, TypeOK, QueueSound, Sound

\* addRound keeps what an entry says of its round.
LEMMA AddedSound ==
  ASSUME NEW q \in [RoundIds -> Entries], Sound(q), NEW r \in RoundIds
  PROVE  Added(q, r) \in [RoundIds -> Entries] /\ Sound(Added(q, r))
<1>1. CASE q[r] = NoEntry
  <2> DEFINE e == [deployment |-> Deployment, lastStatus |-> "Unknown"]
  <2>1. e \in Entries /\ e.lastStatus \notin Final BY DEF Entries, Final
  <2>2. Added(q, r) = [q EXCEPT ![r] = e] BY <1>1 DEF Added
  <2> HIDE DEF e
  <2> QED BY <2>1, <2>2 DEF Sound
<1>2. CASE q[r] # NoEntry
  <2> DEFINE e == [q[r] EXCEPT !.deployment = Deployment]
  <2>1. q[r] \in [deployment : {Deployment, Elsewhere}, lastStatus : Phases \cup {"Unknown"}]
    BY <1>2 DEF Entries
  <2>2. e \in Entries /\ e.lastStatus = q[r].lastStatus BY <2>1 DEF Entries
  <2>3. Added(q, r) = [q EXCEPT ![r] = e] BY <1>2 DEF Added
  <2> HIDE DEF e
  <2> QED BY <2>2, <2>3 DEF Sound
<1> QED BY <1>1, <1>2

\* Steps that change the queue while no tick is under way, or end one.
LEMMA QueueStep ==
  ASSUME KInv, UNCHANGED gone,
         UNCHANGED lifeVars,
         pc' \in {"Sleep", "Discover", "StaleRead"}, pc' = "StaleRead" => cur' \in RoundIds,
         cur' \in {0} \cup RoundIds, todo' \subseteq RoundIds,
         left' \subseteq Bidders, who' \in Bidders \cup {None}, did' = {},
         guard' \in [RoundIds -> GuardStates],
         \A r \in RoundIds : guard'[r] = "terminal" => guard[r] = "terminal",
         mem' \in [RoundIds -> Entries], Sound(mem'),
         file' \in [RoundIds -> Entries], Sound(file'), edit' = edit,
         report' \in {report, NoReport},
         spent' \in [faults : Nat, crashes : Nat, edits : Nat]
  PROVE  KInv'
<1> USE DEF KInv, lifeVars
<1>1. TypeOK' BY DEF TypeOK
<1>2. Ticking' /\ DidFinal' /\ BetweenTicks' /\ PassCovers'
  BY DEF Ticking, DidFinal, BetweenTicks, PassCovers
<1>3. GuardTerminalIsFinal' BY DEF GuardTerminalIsFinal
<1>4. QueueSound' BY DEF QueueSound, Sound
<1>5. ReportSound' BY DEF ReportSound, NoReport
<1> QED BY <1>1, <1>2, <1>3, <1>4, <1>5

LEMMA PollSteps ==
  ASSUME KInv, UNCHANGED gone,
         Wake \/ Discover \/ DiscoverFails
  PROVE  KInv'
<1>1. CASE Wake
  <2>1. did = {} BY <1>1 DEF Wake, KInv, BetweenTicks
  <2> QED BY <1>1, <2>1, AwaitStep, Types DEF Wake, lifeVars
<1>2. CASE Discover
  <2>1. Resolved \subseteq RoundIds BY DEF Resolved, Discovered, Watched
  <2>2. mem \in [RoundIds -> Entries] /\ Sound(mem) BY Types, QueuesSound
  <2>3. mem' = AddedAll(mem, Resolved) /\ file' = mem' /\ NextOf(Active(mem'))
    BY <1>2 DEF Discover, Save
  <2>4. mem' \in [RoundIds -> Entries] /\ Sound(mem')
    <3>1. \A r \in RoundIds : mem'[r] = IF r \in Resolved THEN Added(mem, r)[r] ELSE mem[r]
      BY <2>3 DEF AddedAll
    <3>2. \A r \in RoundIds : mem'[r] \in Entries
      BY <2>2, <3>1, AddedSound
    <3>3. \A r \in RoundIds : mem'[r].lastStatus \in Final => phase[r] = mem'[r].lastStatus
      BY <2>2, <3>1, AddedSound DEF Sound
    <3>4. mem' = [r \in RoundIds |-> mem'[r]] BY <2>3 DEF AddedAll
    <3> QED BY <3>2, <3>3, <3>4 DEF Sound
  <2>5. /\ pc' \in {"Sleep", "StaleRead"} /\ (pc' = "StaleRead" => cur' \in RoundIds)
        /\ cur' \in {0} \cup RoundIds /\ todo' \subseteq RoundIds
    <3>1. Active(mem') \subseteq RoundIds BY DEF Active
    <3> QED BY <2>3, <3>1, NextOfStep
  <2>6. UNCHANGED <<lifeVars, left, who, did, guard, edit, report, spent>>
    BY <1>2 DEF Discover
  <2>7. did = {} BY <1>2 DEF Discover, KInv, BetweenTicks
  <2> QED BY <2>3, <2>4, <2>5, <2>6, <2>7, QueueStep, Types
<1>3. CASE DiscoverFails
  <2>1. /\ pc' \in {"Sleep", "StaleRead"} /\ (pc' = "StaleRead" => cur' \in RoundIds)
        /\ cur' \in {0} \cup RoundIds /\ todo' \subseteq RoundIds
    <3>1. Active(mem) \subseteq RoundIds BY DEF Active
    <3> QED BY <1>3, <3>1, NextOfStep DEF DiscoverFails
  <2>2. UNCHANGED <<lifeVars, left, who, did, guard, mem, file, edit, report>>
    BY <1>3 DEF DiscoverFails
  <2>3. spent' \in [faults : Nat, crashes : Nat, edits : Nat] BY <1>3, Types DEF DiscoverFails
  <2>4. did = {} BY <1>3 DEF DiscoverFails, KInv, BetweenTicks
  <2> QED BY <2>1, <2>2, <2>3, <2>4, QueueStep, QueuesSound, Types
<1> QED BY <1>1, <1>2, <1>3

LEMMA VoidSteps ==
  ASSUME KInv, UNCHANGED gone,
         StaleRead \/ SendVoid \/ VoidRead \/ Look
  PROVE  KInv'
<1> USE DEF lifeVars
<1>1. cur \in RoundIds BY Types DEF StaleRead, SendVoid, VoidRead, Look
<1>2. CASE StaleRead
  <2>1. CASE phase[cur] = "Absent"
    BY <1>1, <1>2, <2>1, FailStep, Types DEF StaleRead
  <2>2. CASE phase[cur] # "Absent"
    <3>1. PICK p \in {"SendVoid", "Look"} : Await(p)
      BY <1>2, <2>2 DEF StaleRead
    <3> QED BY <1>1, <1>2, <2>2, <3>1, AwaitStep, Types DEF StaleRead
  <2> QED BY <2>1, <2>2
<1>3. CASE SendVoid
  <2>1. CASE CanVoid(cur)
    BY <1>1, <1>3, <2>1, AnyoneMay, AwaitStep, Types DEF SendVoid
  <2>2. CASE ~CanVoid(cur)
    BY <1>1, <1>3, <2>2, NothingTolerated, FailStep, Types DEF SendVoid, Refused
  <2> QED BY <2>1, <2>2
<1>4. CASE VoidRead
  BY <1>1, <1>4, AwaitStep, Types DEF VoidRead
<1>5. CASE Look
  <2>1. CASE phase[cur] \in {"Open", "Revealing", "Cleared"}
    <3>1. PICK p \in {"KeepRead", "CloseRead"} : Await(p)
      BY <1>5, <2>1 DEF Look
    <3> QED BY <1>1, <1>5, <2>1, <3>1, AwaitStep, Types DEF Look
  <2>2. CASE phase[cur] \notin {"Open", "Revealing", "Cleared"}
    BY <1>1, <1>5, <2>2, EndStep DEF Look
  <2> QED BY <2>1, <2>2
<1> QED BY <1>2, <1>3, <1>4, <1>5

LEMMA OpeningSteps ==
  ASSUME KInv, UNCHANGED gone,
         KeepRead \/ Signature \/ SignatureUnserved \/ SendOpen \/ OpenRead
  PROVE  KInv'
<1> USE DEF lifeVars
<1>1. cur \in RoundIds
  BY Types DEF KeepRead, Signature, SignatureUnserved, SendOpen, OpenRead
<1>2. ASSUME Await("Bidders"), phase[cur] = "Revealing",
             UNCHANGED <<lifeVars, left, who, did, guard, edit, report, spent>>
      PROVE  KInv'
  <2>1. PassCovers' BY <1>2 DEF PassCovers, Await, Past
  <2>2. Calm BY <1>1, <1>2, Types DEF Calm, Await
  <2> QED BY <2>1, <2>2, CalmStep
<1>3. CASE KeepRead
  <2>1. PICK p \in {"Signature", "Bidders", "KeptRead"} :
          Await(p) /\ (p = "Bidders" => phase[cur] = "Revealing")
    BY <1>3 DEF KeepRead
  <2>2. CASE p = "Bidders" BY <1>2, <1>3, <2>1, <2>2 DEF KeepRead
  <2>3. CASE p # "Bidders" BY <1>1, <1>3, <2>1, <2>3, AwaitStep, Types DEF KeepRead
  <2> QED BY <2>2, <2>3
<1>4. CASE Signature
  <2>1. PICK p \in {"SendOpen", "KeptRead"} : Await(p)
    BY <1>4 DEF Signature
  <2> QED BY <1>1, <1>4, <2>1, AwaitStep, Types DEF Signature
<1>5. CASE SignatureUnserved
  <2>1. spent' \in [faults : Nat, crashes : Nat, edits : Nat]
    BY <1>5, Types DEF SignatureUnserved
  <2> QED BY <1>1, <1>5, <2>1, AwaitStep, Types DEF SignatureUnserved
<1>6. CASE SendOpen
  <2>1. CASE CanOpen(cur)
    BY <1>1, <1>6, <2>1, AnyoneMay, AwaitStep, Types DEF SendOpen
  <2>2. CASE ~CanOpen(cur)
    BY <1>1, <1>6, <2>2, NothingTolerated, FailStep, Types DEF SendOpen, Refused
  <2> QED BY <2>1, <2>2
<1>7. CASE OpenRead
  <2>1. CASE phase[cur] = "Revealing" BY <1>2, <1>7, <2>1 DEF OpenRead
  <2>2. CASE phase[cur] # "Revealing"
    BY <1>1, <1>7, <2>2, AwaitStep, Types DEF OpenRead
  <2> QED BY <2>1, <2>2
<1> QED BY <1>3, <1>4, <1>5, <1>6, <1>7

LEMMA RevealSteps ==
  ASSUME KInv, UNCHANGED gone,
         ListBidders \/ BidRead \/ BidReadFails \/ SendReveal \/ KeepDone \/ KeptRead
  PROVE  KInv'
<1> USE DEF lifeVars
<1>1. cur \in RoundIds
  BY Types DEF ListBidders, BidRead, BidReadFails, SendReveal, KeepDone, KeptRead
<1>2. PassCovers /\ left \subseteq Bidders /\ who \in Bidders \cup {None}
  BY Types DEF KInv
<1>3. CASE ListBidders
  <2>1. /\ pc = "Bidders" /\ left' = Listed(cur) /\ UNCHANGED <<phase, bid, cur, spent>>
        /\ pc' = IF left' = {} THEN "KeepDone" ELSE "BidRead"
    BY <1>3 DEF ListBidders, NextBid, Await
  <2>2. Past(cur)' BY <1>2, <2>1 DEF PassCovers, Past
  <2>3. \A b \in Honest : bid[cur][b] = "Sealed" => b \in left'
    BY <2>1 DEF Listed
  <2>4. PassCovers' BY <2>1, <2>2, <2>3 DEF PassCovers, Past
  <2>5. Calm BY <1>1, <1>3, Types DEF Calm, ListBidders, NextBid, Await, Listed
  <2> QED BY <2>4, <2>5, CalmStep
<1>4. CASE BidRead
  <2>1. PICK b \in left :
          /\ left' = left \ {b}
          /\ IF ToReveal(b) THEN who' = b /\ Await("SendReveal")
             ELSE who' = who /\ NextBid(left')
    BY <1>4 DEF BidRead, LeftAfter
  <2>2. PassCovers'
    <3>1. b \in Honest /\ bid[cur][b] = "Sealed" /\ <<cur, b>> \notin gone => ToReveal(b)
      BY DEF ToReveal
    <3>2. /\ pc = "BidRead" /\ UNCHANGED <<phase, bid, cur, spent>>
          /\ \/ pc' = "SendReveal" /\ who' = b
             \/ pc' = "KeepDone" /\ left' = {} /\ ~ToReveal(b)
             \/ pc' = "BidRead" /\ ~ToReveal(b)
      BY <1>4, <2>1 DEF BidRead, NextBid, Await
    <3>3. Past(cur)' BY <1>2, <3>2 DEF PassCovers, Past
    <3>4. spent.faults = 0 =>
            \A h \in Honest : bid[cur][h] = "Sealed" /\ <<cur, h>> \notin gone => h \in left
      BY <1>2, <3>2 DEF PassCovers
    <3> QED BY <2>1, <3>1, <3>2, <3>3, <3>4 DEF PassCovers, Past
  <2>3. Calm BY <1>1, <1>2, <1>4, <2>1, Types DEF Calm, BidRead, NextBid, Await
  <2> QED BY <2>2, <2>3, CalmStep
<1>5. CASE BidReadFails
  <2>1. spent' \in [faults : Nat, crashes : Nat, edits : Nat] /\ spent'.faults # 0
    BY <1>5, Types DEF BidReadFails
  <2>2. PICK b \in left : left' = left \ {b} BY <1>5 DEF BidReadFails, LeftAfter
  <2>3. PassCovers' BY <1>2, <1>5, <2>1, <2>2 DEF BidReadFails, PassCovers, NextBid, Await, Past
  <2>4. Calm BY <1>1, <1>2, <1>5, <2>1, <2>2, Types DEF Calm, BidReadFails, NextBid, Await
  <2> QED BY <2>3, <2>4, CalmStep
<1>6. CASE SendReveal
  <2>1. CASE CanReveal(cur, who) /\ who \in Honest
    <3>1. LReveal(cur, who) /\ NextBid(left) /\ who' = None /\ UNCHANGED <<left, did, guard, edit, report, spent>>
      BY <1>6, <2>1 DEF SendReveal
    <3>2. [LNext]_lifeVars BY <1>1, <2>1, <3>1, AnyoneMay DEF LNext, LAdvance
    <3>3. bid' = [bid EXCEPT ![cur][who] = "Revealed"] /\ phase' = phase
      BY <3>1 DEF LReveal
    <3>4. \A b \in Bidders : bid'[cur][b] = IF b = who THEN "Revealed" ELSE bid[cur][b]
      BY <1>1, <3>3, Types
    <3>5. PassCovers'
      BY <1>2, <1>6, <3>1, <3>3, <3>4 DEF SendReveal, PassCovers, NextBid, Await, Past
    <3>6. Calm BY <1>1, <1>2, <3>1, <3>2, Types DEF Calm, NextBid, Await
    <3> QED BY <3>5, <3>6, CalmStep
  <2>2. CASE ~(CanReveal(cur, who) /\ who \in Honest)
    BY <1>1, <1>6, <2>2, NothingTolerated, FailStep, Types DEF SendReveal, Refused
  <2> QED BY <2>1, <2>2
<1>7. CASE KeepDone
  BY <1>1, <1>7, AwaitStep, Types DEF KeepDone
<1>8. CASE KeptRead
  <2>1. CASE phase[cur] \in {"Revealing", "Cleared"}
    BY <1>1, <1>8, <2>1, AwaitStep, Types DEF KeptRead
  <2>2. CASE phase[cur] \notin {"Revealing", "Cleared"}
    BY <1>1, <1>8, <2>2, EndStep DEF KeptRead
  <2> QED BY <2>1, <2>2
<1> QED BY <1>3, <1>4, <1>5, <1>6, <1>7, <1>8

LEMMA CloseLemma ==
  ASSUME KInv, UNCHANGED gone,
         CloseSteps
  PROVE  KInv'
<1> USE DEF lifeVars
<1>1. cur \in RoundIds
  BY Types DEF CloseSteps, CloseRead, SendClear, ClearRead, SendSettle, SettleRead, ClosedRead
<1>2. ASSUME TrySettle, UNCHANGED <<lifeVars, left, who, did, edit, report, spent>>
      PROVE  KInv'
  <2>1. CASE CanSettle
    <3>1. Mark("submitted") /\ Await("SendSettle") BY <1>2, <2>1 DEF TrySettle
    <3>2. /\ guard' = [guard EXCEPT ![cur] = "submitted"]
          /\ "submitted" \in GuardStates
      BY <3>1 DEF Mark, GuardStates
    <3> QED BY <1>1, <1>2, <3>1, <3>2, AwaitStep, Types
  <2>2. CASE ~CanSettle
    <3>1. Await("SettleRead") /\ UNCHANGED guard BY <1>2, <2>2 DEF TrySettle
    <3> QED BY <1>1, <1>2, <3>1, AwaitStep, Types
  <2> QED BY <2>1, <2>2
<1>3. CASE CloseRead
  <2>1. CASE phase[cur] = "Cleared" BY <1>2, <1>3, <2>1 DEF CloseRead
  <2>2. CASE phase[cur] # "Cleared"
    <3>1. PICK p \in {"SendClear", "ClosedRead"} : Await(p)
      BY <1>3, <2>2 DEF CloseRead
    <3> QED BY <1>1, <1>3, <2>2, <3>1, AwaitStep, Types DEF CloseRead
  <2> QED BY <2>1, <2>2
<1>4. CASE SendClear
  <2>1. CASE CanClear(cur)
    <3>1. /\ LClear(cur) /\ Await("ClearRead") /\ UNCHANGED <<left, who, guard, edit, report, spent>>
          /\ did' = IF phase'[cur] = "Voided" THEN did \cup {"voided"} ELSE did
      BY <1>4, <2>1 DEF SendClear
    <3>2. did \subseteq {"settled", "voided"} BY DEF KInv, TypeOK
    <3>3. [LNext]_lifeVars BY <1>1, <3>1, AnyoneMay
    <3>4. \/ did' = did
          \/ /\ cur \in RoundIds /\ phase'[cur] \in Final
             /\ did' \subseteq {"settled", "voided"}
      BY <1>1, <3>1, <3>2 DEF Final
    <3> QED BY <1>1, <3>1, <3>3, <3>4, AwaitStep, Types
  <2>2. CASE ~CanClear(cur)
    BY <1>1, <1>4, <2>2, NothingTolerated, FailStep, Types DEF SendClear, Refused
  <2> QED BY <2>1, <2>2
<1>5. CASE ClearRead
  <2>1. CASE phase[cur] = "Cleared" BY <1>2, <1>5, <2>1 DEF ClearRead
  <2>2. CASE phase[cur] # "Cleared"
    BY <1>1, <1>5, <2>2, AwaitStep, Types DEF ClearRead
  <2> QED BY <2>1, <2>2
<1>6. CASE SendSettle
  <2>1. CASE phase[cur] = "Cleared"
    <3>1. /\ LSettle(cur) /\ did' = did \cup {"settled"} /\ Await("SettleRead")
          /\ guard' = [guard EXCEPT ![cur] = "terminal"]
          /\ UNCHANGED <<left, who, edit, report, spent>>
      BY <1>6, <2>1 DEF SendSettle, Mark
    <3>2. did' \subseteq {"settled", "voided"} BY <3>1 DEF KInv, TypeOK
    <3>3. [LNext]_lifeVars BY <1>1, <3>1, AnyoneMay
    <3>4. phase'[cur] \in Final BY <1>1, <3>1, Types DEF LSettle, Final
    <3>5. "terminal" \in GuardStates BY DEF GuardStates
    <3> QED BY <1>1, <3>1, <3>2, <3>3, <3>4, <3>5, AwaitStep, Types
  <2>2. CASE phase[cur] # "Cleared"
    BY <1>1, <1>6, <2>2, NothingTolerated, FailStep, Types DEF SendSettle
  <2> QED BY <2>1, <2>2
<1>7. CASE SettleRead
  BY <1>1, <1>7, AwaitStep, Types DEF SettleRead
<1>8. CASE ClosedRead
  BY <1>1, <1>8, EndStep DEF ClosedRead
<1> QED BY <1>3, <1>4, <1>5, <1>6, <1>7, <1>8 DEF CloseSteps

LEMMA FaultSteps ==
  ASSUME KInv, UNCHANGED gone,
         CallFails \/ PayoutRefused \/ Crash \/ CrashWhileSaving
  PROVE  KInv'
<1>1. CASE CallFails
  <2>1. cur \in RoundIds BY <1>1, Types DEF CallFails
  <2>2. spent' \in [faults : Nat, crashes : Nat, edits : Nat] BY <1>1, Types DEF CallFails
  <2> QED BY <1>1, <2>1, <2>2, FailStep DEF CallFails
<1>2. ASSUME NEW q \in [RoundIds -> Entries], Sound(q), Restart(q)
      PROVE  KInv'
  <2>1. spent' \in [faults : Nat, crashes : Nat, edits : Nat] BY <1>2, Types DEF Restart
  <2>2. /\ guard' \in [RoundIds -> GuardStates]
        /\ \A r \in RoundIds : guard'[r] # "terminal"
    BY <1>2 DEF Restart, GuardStates
  <2>3. /\ mem' \in [RoundIds -> Entries] /\ file' \in [RoundIds -> Entries]
        /\ Sound(mem') /\ Sound(file')
    BY <1>2 DEF Restart
  <2>4. /\ UNCHANGED lifeVars /\ pc' = "Discover" /\ cur' = 0 /\ todo' = {}
        /\ left' = {} /\ who' = None /\ did' = {} /\ edit' = edit /\ report' = NoReport
    BY <1>2 DEF Restart
  <2> QED BY <2>1, <2>2, <2>3, <2>4, QueueStep
<1>5. CASE PayoutRefused
  <2>1. cur \in RoundIds BY <1>5, Types DEF PayoutRefused
  <2> QED BY <1>5, <2>1, FailStep, Types DEF PayoutRefused
<1>3. CASE Crash
  BY <1>2, <1>3, Types, QueuesSound DEF Crash
<1>4. CASE CrashWhileSaving
  <2>1. Empty \in [RoundIds -> Entries] /\ Sound(Empty)
    BY DEF Empty, Entries, Sound, NoEntry, None, Final
  <2> QED BY <1>2, <1>4, <2>1 DEF CrashWhileSaving
<1> QED BY <1>1, <1>3, <1>4, <1>5

\* The tick goes on as if nothing happened.
LEMMA EditSteps ==
  ASSUME KInv, UNCHANGED gone,
         Queue
  PROVE  KInv'
<1> USE DEF lifeVars
<1>1. ASSUME UNCHANGED <<lifeVars, pc, cur, todo, left, who, did, guard, mem, report>>,
             spent' \in [faults : Nat, crashes : Nat, edits : Nat], spent'.faults = spent.faults,
             file' \in [RoundIds -> Entries], Sound(file'),
             edit' = NoEdit \/ (edit' \in [RoundIds -> Entries] /\ Sound(edit'))
      PROVE  KInv'
  <2> USE DEF KInv
  <2>1. TypeOK' BY <1>1 DEF TypeOK
  <2>2. Ticking' /\ DidFinal' /\ BetweenTicks' /\ PassCovers' /\ GuardTerminalIsFinal'
    BY <1>1 DEF Ticking, DidFinal, BetweenTicks, PassCovers, GuardTerminalIsFinal, Past
  <2>3. QueueSound' BY <1>1, QueuesSound DEF QueueSound, Sound
  <2>4. ReportSound' BY <1>1 DEF ReportSound
  <2> QED BY <2>1, <2>2, <2>3, <2>4
<1>2. CASE EditWrite
  <2>1. edit \in [RoundIds -> Entries] /\ Sound(edit)
    BY <1>2, QueuesSound DEF EditWrite, KInv, TypeOK
  <2> QED BY <1>1, <1>2, <2>1, Types DEF EditWrite
<1>3. ASSUME NEW op \in {"add", "remove"}, NEW r \in RoundIds, EditRead(op, r)
      PROVE  KInv'
  <2>1. Empty \in [RoundIds -> Entries] /\ Sound(Empty)
    BY DEF Empty, Entries, Sound, NoEntry, None, Final
  <2>2. PICK q \in {file, Empty} : edit' = Edited(q, op, r)
    BY <1>3 DEF EditRead
  <2>3. q \in [RoundIds -> Entries] /\ Sound(q) BY <2>1, Types, QueuesSound
  <2>4. edit' \in [RoundIds -> Entries] /\ Sound(edit')
    <3>1. CASE op = "add" BY <2>2, <2>3, <3>1, AddedSound DEF Edited
    <3>2. CASE op = "remove"
      <4>1. NoEntry \in Entries /\ NoEntry.lastStatus \notin Final
        BY DEF Entries, NoEntry, None, Final
      <4>2. edit' = [q EXCEPT ![r] = NoEntry] BY <2>2, <3>2 DEF Edited
      <4> QED BY <2>3, <4>1, <4>2 DEF Sound
    <3> QED BY <3>1, <3>2
  <2>5. /\ UNCHANGED <<lifeVars, pc, cur, todo, left, who, did, guard, mem, file, report>>
        /\ spent' = [spent EXCEPT !.edits = @ + 1]
    BY <1>3 DEF EditRead
  <2> QED BY <1>1, <2>4, <2>5, Types, QueuesSound
<1> QED BY <1>2, <1>3 DEF Queue

\* A status answer that reads the guard first and the contract later.
LEMMA StatusSteps ==
  ASSUME KInv, UNCHANGED gone,
         Status
  PROVE  KInv'
<1> USE DEF KInv, lifeVars
<1>1. /\ UNCHANGED <<lifeVars, pc, cur, todo, left, who, did, guard, mem, file, edit, spent>>
      /\ \/ report' = NoReport
         \/ \E r \in RoundIds : report' = [round |-> r, settlement |-> guard[r]]
  BY DEF Status, StatusReply, StatusRequest
<1>2. TypeOK' BY <1>1, Types DEF TypeOK
<1>3. /\ Ticking' /\ DidFinal' /\ BetweenTicks' /\ PassCovers' /\ GuardTerminalIsFinal'
      /\ QueueSound'
  BY <1>1 DEF Ticking, DidFinal, BetweenTicks, PassCovers, GuardTerminalIsFinal, Past, QueueSound
<1>4. ReportSound' BY <1>1 DEF ReportSound, GuardTerminalIsFinal, NoReport
<1> QED BY <1>2, <1>3, <1>4

\* The answer reads the contract later than the guard, and a terminal entry is final.
LEMMA SoundReportsAgree ==
  ASSUME KInv
  PROVE  ReportsAgree
<1> DEFINE r == report.round
<1>1. SUFFICES ASSUME report # NoReport, phase[r] # "Absent", NEW clock, NEW revealed
               PROVE  (IF phase[r] \in Final THEN "terminal" ELSE report.settlement) = "terminal"
                      <=> DryRunPhase(r, clock, revealed) = "complete"
  BY DEF ReportsAgree, Answers
<1>2. phase[r] \in Phases \ {"Absent"} BY <1>1 DEF KInv, TypeOK
<1>3. report.settlement = "terminal" => phase[r] \in Final BY DEF KInv, ReportSound
<1>4. DryRunPhase(r, clock, revealed) = "complete" <=> phase[r] \in Final
  BY <1>2 DEF DryRunPhase, Phases, Final
<1> QED BY <1>3, <1>4

\* A seal that expires is one fewer that a pass has to reveal.
LEMMA ExpiryStep ==
  ASSUME KInv, NEW r \in RoundIds, NEW b \in Bidders, SealExpires(r, b)
  PROVE  KInv'
<1> USE DEF KInv, SealExpires, lifeVars, keeperVars
<1>1. TypeOK' BY DEF TypeOK
<1>2. Ticking' /\ DidFinal' /\ BetweenTicks' BY DEF Ticking, DidFinal, BetweenTicks
<1>3. GuardTerminalIsFinal' /\ QueueSound' /\ ReportSound'
  BY DEF GuardTerminalIsFinal, QueueSound, ReportSound
<1>4. PassCovers' BY DEF PassCovers, Past
<1> QED BY <1>1, <1>2, <1>3, <1>4

-----------------------------------------------------------------------------
(* The invariant.                                                          *)

\* An earlier deployment's entries say nothing of these rounds: the assumption that
\* addRound does not ask for.
FreshQueue == \A q \in LeftOver : \A r \in RoundIds : q[r].lastStatus \notin Final

LEMMA InitInv ==
  ASSUME FreshQueue, Init
  PROVE  KInv
<1> USE DEF Init, LInit
<1>1. /\ mem \in [RoundIds -> Entries] /\ file = mem /\ edit = NoEdit
      /\ \A r \in RoundIds : mem[r].lastStatus \notin Final
  BY DEF FreshQueue
<1>2. TypeOK
  BY <1>1 DEF TypeOK, GuardStates, Phases, BidPhases, NoReport
<1>3. Ticking /\ DidFinal /\ BetweenTicks /\ PassCovers
  BY DEF Ticking, DidFinal, BetweenTicks, PassCovers
<1>4. GuardTerminalIsFinal BY DEF GuardTerminalIsFinal
<1>5. QueueSound BY <1>1 DEF QueueSound
<1>6. ReportSound BY DEF ReportSound, NoReport
<1> QED BY <1>2, <1>3, <1>4, <1>5, <1>6 DEF KInv

LEMMA NextInv ==
  ASSUME KInv, [Next]_vars
  PROVE  KInv'
<1>1. CASE KeeperStep /\ UNCHANGED gone
  BY <1>1, PollSteps, VoidSteps, OpeningSteps, RevealSteps, CloseLemma
     DEF KeeperStep, KeepSteps
<1>2. CASE Faults /\ UNCHANGED gone
  BY <1>2, PollSteps, OpeningSteps, RevealSteps, FaultSteps DEF Faults
<1>3. CASE Queue /\ UNCHANGED gone BY <1>3, EditSteps
<1>4. CASE Status /\ UNCHANGED gone BY <1>4, StatusSteps
<1>5. CASE Others BY <1>5, OthersStep DEF Others
<1>6. CASE UNCHANGED vars BY <1>6, OthersStep DEF vars
<1>7. CASE \E r \in RoundIds, b \in Bidders : SealExpires(r, b) BY <1>7, ExpiryStep
<1> QED BY <1>1, <1>2, <1>3, <1>4, <1>5, <1>6, <1>7 DEF Next

LEMMA KeeperInvariant == FreshQueue => (Spec => []KInv)
<1>1. FreshQueue /\ Init => KInv BY InitInv
<1>2. KInv /\ [Next]_vars => KInv' BY NextInv
<1> QED BY <1>1, <1>2, PTL DEF Spec

\* Every variable of the keeper keeps its type.
THEOREM KeeperTypeCorrect == FreshQueue => (Spec => []TypeOK)
<1>1. KInv => TypeOK BY DEF KInv
<1> QED BY <1>1, KeeperInvariant, PTL

\* The settlement guard never gives up a round that is not over.
THEOREM GuardNeverGivesUp == FreshQueue => (Spec => []GuardTerminalIsFinal)
<1>1. KInv => GuardTerminalIsFinal BY DEF KInv
<1> QED BY <1>1, KeeperInvariant, PTL

\* The queue never drops a round that is not over, provided it starts without entries
\* of an earlier deployment that call a round over.
THEOREM QueueDropsOnlyFinal == FreshQueue => (Spec => []DroppedIsFinal)
<1>1. KInv => DroppedIsFinal BY DEF KInv, QueueSound, DroppedIsFinal
<1> QED BY <1>1, KeeperInvariant, PTL

\* A pass over the bidders in which no call failed leaves no seal that opens and has not
\* expired.
THEOREM PassIsComplete == FreshQueue => (Spec => []PassRevealsAll)
<1>1. KInv => PassRevealsAll
  BY DEF KInv, PassCovers, PassRevealsAll
<1> QED BY <1>1, KeeperInvariant, PTL

\* A status answer's word on the settlement and its phase of the round agree.
THEOREM StatusAnswersAgree == FreshQueue => (Spec => []ReportsAgree)
<1>1. KInv => ReportsAgree BY SoundReportsAgree
<1> QED BY <1>1, KeeperInvariant, PTL

-----------------------------------------------------------------------------
(* Where the keeper is.  This much needs no assumption on its queue.        *)

\* The awaits of a tick, by how many of them may still follow at most.
Position(p) ==
  CASE p = "StaleRead" -> 18 [] p = "SendVoid" -> 17 [] p = "VoidRead" -> 16
    [] p = "Look" -> 15 [] p = "KeepRead" -> 14 [] p = "Signature" -> 13
    [] p = "SendOpen" -> 12 [] p = "OpenRead" -> 11 [] p = "Bidders" -> 10
    [] p = "BidRead" -> 9 [] p = "SendReveal" -> 9 [] p = "KeepDone" -> 8
    [] p = "KeptRead" -> 7 [] p = "CloseRead" -> 6 [] p = "SendClear" -> 5
    [] p = "ClearRead" -> 4 [] p = "SendSettle" -> 3 [] p = "SettleRead" -> 2
    [] p = "ClosedRead" -> 1 [] OTHER -> 0

Placed ==
  /\ pc \notin {"Sleep", "Discover"} => cur \in RoundIds /\ Position(pc) > 0
  /\ todo \subseteq RoundIds /\ left \subseteq Bidders
  /\ pc = "BidRead" => left # {}
  /\ pc = "SendReveal" => who \in Bidders

\* What a step in the middle of a tick may do to the keeper's place: go on to a later
\* await, take a bidder off the list of the reveal loop, or leave the round for the next
\* one of the poll or for sleep.
Onward ==
  \/ cur' = cur /\ todo' = todo /\ Position(pc') < Position(pc)
  \/ /\ cur' = cur /\ todo' = todo
     /\ pc = "BidRead" /\ pc' \in {"BidRead", "SendReveal"}
     /\ \E b \in left : left' = left \ {b}
  \/ /\ cur' = cur /\ todo' = todo
     /\ pc = "SendReveal" /\ pc' = "BidRead" /\ left' = left
  \/ pc' = "StaleRead" /\ cur' \in todo /\ todo' = todo \ {cur'}
  \/ pc' = "Sleep" /\ todo = {}

\* A step of the keeper in the middle of a tick, if it is not ended and restarted.
StepGoesOn ==
  pc \notin {"Sleep", "Discover"} /\ pc' # "Discover" => Onward \/ UNCHANGED <<pc, cur, todo, left>>

Leaves == /\ pc' \in {"Sleep", "StaleRead"} /\ left' = {}
          /\ pc' = "Sleep" => todo = {} /\ todo' = {}
          /\ pc' = "StaleRead" => cur' \in todo /\ todo' = todo \ {cur'}

LEMMA LeavingIsOnward ==
  ASSUME Placed, Leaves
  PROVE  Placed' /\ Onward
BY DEF Placed, Leaves, Onward, Position

LEMMA LeavesRound ==
  ASSUME FailTick \/ \E st : EndTick(st, did)
  PROVE  Leaves
BY DEF FailTick, EndTick, NextOf, Leaves

\* The steps that have the next await of the same tick.
Goes(p) == Await(p) /\ left' \subseteq left /\ pc \notin {"Sleep", "Discover"}

LEMMA GoesOnward ==
  ASSUME Placed, NEW p, Goes(p), Position(p) < Position(pc), 0 < Position(p),
         p \notin {"BidRead", "SendReveal"}
  PROVE  Placed' /\ Onward
<1>1. p \notin {"Sleep", "Discover"}
  BY DEF Position
<1> QED
  BY <1>1 DEF Placed, Goes, Await, Onward

Stays == UNCHANGED <<pc, cur, todo, left, who>>

\* Every step of the keeper, the contract or anyone else leaves the keeper where it was,
\* takes it on, wakes or restarts it, and is a step of the life of the rounds or none.
Step == Placed' /\ StepGoesOn /\ [LNext]_lifeVars

LEMMA StayStep ==
  ASSUME Placed, Stays
  PROVE  Placed' /\ StepGoesOn
BY DEF Placed, Stays, StepGoesOn

LEMMA PlacedPoll ==
  ASSUME Placed, Wake \/ Discover \/ DiscoverFails \/ Crash \/ CrashWhileSaving
  PROVE  Step
<1>1. \A q : Active(q) \subseteq RoundIds
  BY DEF Active
<1>2. Position("StaleRead") = 18
  BY DEF Position
<1>3. CASE Wake
  BY <1>3 DEF Wake, Await, Step, Placed, StepGoesOn
<1>4. CASE Discover \/ DiscoverFails
  <2>1. /\ \E q : NextOf(Active(q))
        /\ pc = "Discover" /\ UNCHANGED <<lifeVars, left, who>>
    BY <1>4 DEF Discover, DiscoverFails
  <2> QED
    BY <1>1, <1>2, <2>1 DEF NextOf, Step, Placed, StepGoesOn
<1>5. CASE Crash \/ CrashWhileSaving
  BY <1>5 DEF Crash, CrashWhileSaving, Restart, Step, Placed, StepGoesOn
<1> QED
  BY <1>3, <1>4, <1>5

LEMMA PlacedVoid ==
  ASSUME Placed, StaleRead \/ SendVoid \/ VoidRead \/ Look
  PROVE  Step
<1> USE DEF Step, StepGoesOn
<1>1. pc \in {"StaleRead", "SendVoid", "VoidRead", "Look"} /\ cur \in RoundIds
  BY DEF StaleRead, SendVoid, VoidRead, Look, Placed
<1>2. CASE StaleRead
  <2>1. UNCHANGED lifeVars /\ (FailTick \/ Goes("SendVoid") \/ Goes("Look"))
    BY <1>2 DEF StaleRead, Goes
  <2> QED
    BY <1>2, <2>1, LeavesRound, LeavingIsOnward, GoesOnward DEF StaleRead, Position
<1>3. CASE SendVoid
  <2>1. FailTick \/ Goes("VoidRead")
    BY <1>3 DEF SendVoid, Refused, Goes
  <2>2. [LNext]_lifeVars
    BY <1>1, <1>3, AnyoneMay DEF SendVoid
  <2> QED
    BY <1>3, <2>1, <2>2, LeavesRound, LeavingIsOnward, GoesOnward DEF SendVoid, Position
<1>4. CASE VoidRead
  <2>1. UNCHANGED lifeVars /\ Goes("Look")
    BY <1>4 DEF VoidRead, Goes
  <2> QED
    BY <1>4, <2>1, GoesOnward DEF VoidRead, Position
<1>5. CASE Look
  <2>1. UNCHANGED lifeVars /\ (EndTick(phase[cur], did) \/ Goes("KeepRead") \/ Goes("CloseRead"))
    BY <1>5 DEF Look, Goes
  <2> QED
    BY <1>5, <2>1, LeavesRound, LeavingIsOnward, GoesOnward DEF Look, Position
<1> QED
  BY <1>2, <1>3, <1>4, <1>5

LEMMA PlacedKeep ==
  ASSUME Placed,
         \/ KeepRead \/ Signature \/ SignatureUnserved \/ SendOpen \/ OpenRead \/ KeepDone
         \/ KeptRead
  PROVE  Step
<1> USE DEF Step, StepGoesOn
<1>1. CASE KeepRead
  <2>1. UNCHANGED lifeVars /\ pc = "KeepRead"
        /\ (Goes("Signature") \/ Goes("Bidders") \/ Goes("KeptRead"))
    BY <1>1 DEF KeepRead, Goes
  <2> QED
    BY <2>1, GoesOnward DEF Position
<1>2. CASE Signature \/ SignatureUnserved
  <2>1. UNCHANGED lifeVars /\ pc = "Signature" /\ (Goes("SendOpen") \/ Goes("KeptRead"))
    BY <1>2 DEF Signature, SignatureUnserved, Goes
  <2> QED
    BY <2>1, GoesOnward DEF Position
<1>3. CASE SendOpen
  <2>1. pc = "SendOpen" /\ (FailTick \/ Goes("OpenRead"))
    BY <1>3 DEF SendOpen, Refused, Goes
  <2>2. [LNext]_lifeVars
    BY <1>3, <2>1, AnyoneMay DEF SendOpen, Placed
  <2> QED
    BY <2>1, <2>2, LeavesRound, LeavingIsOnward, GoesOnward DEF Position
<1>4. CASE OpenRead
  <2>1. UNCHANGED lifeVars /\ pc = "OpenRead" /\ (Goes("Bidders") \/ Goes("KeptRead"))
    BY <1>4 DEF OpenRead, Goes
  <2> QED
    BY <2>1, GoesOnward DEF Position
<1>5. CASE KeepDone
  <2>1. UNCHANGED lifeVars /\ pc = "KeepDone" /\ Goes("KeptRead")
    BY <1>5 DEF KeepDone, Goes
  <2> QED
    BY <2>1, GoesOnward DEF Position
<1>6. CASE KeptRead
  <2>1. UNCHANGED lifeVars /\ pc = "KeptRead"
        /\ (EndTick(phase[cur], did) \/ Goes("CloseRead"))
    BY <1>6 DEF KeptRead, Goes
  <2> QED
    BY <2>1, LeavesRound, LeavingIsOnward, GoesOnward DEF Position
<1> QED
  BY <1>1, <1>2, <1>3, <1>4, <1>5, <1>6

LEMMA PlacedReveal ==
  ASSUME Placed, ListBidders \/ BidRead \/ BidReadFails \/ SendReveal
  PROVE  Step
<1> USE DEF Step, StepGoesOn, Placed, Position
<1>1. CASE ListBidders
  BY <1>1 DEF ListBidders, NextBid, Await, Listed, Onward
<1>2. CASE BidRead
  <2>1. PICK b \in left :
          /\ left' = left \ {b}
          /\ IF ToReveal(b)
             THEN who' = b /\ Await("SendReveal") ELSE who' = who /\ NextBid(left')
    BY <1>2 DEF BidRead, LeftAfter
  <2>2. pc = "BidRead" /\ UNCHANGED lifeVars
    BY <1>2 DEF BidRead
  <2> QED
    BY <2>1, <2>2 DEF NextBid, Await, Onward
<1>3. CASE BidReadFails
  <2>1. PICK b \in left : left' = left \ {b}
    BY <1>3 DEF BidReadFails, LeftAfter
  <2>2. pc = "BidRead" /\ UNCHANGED lifeVars /\ NextBid(left') /\ who' = who
    BY <1>3 DEF BidReadFails
  <2> QED
    BY <2>1, <2>2 DEF NextBid, Await, Onward
<1>4. CASE SendReveal
  <2>1. pc = "SendReveal" /\ cur \in RoundIds /\ who \in Bidders
    BY <1>4 DEF SendReveal
  <2>2. [LNext]_lifeVars
    BY <1>4, <2>1, AnyoneMay DEF SendReveal
  <2>3. FailTick \/ (NextBid(left) /\ left' = left)
    BY <1>4 DEF SendReveal, Refused, NextBid
  <2>4. CASE FailTick
    BY <2>2, <2>4, LeavesRound, LeavingIsOnward
  <2>5. CASE NextBid(left) /\ left' = left
    BY <2>1, <2>2, <2>5 DEF NextBid, Await, Onward
  <2> QED
    BY <2>3, <2>4, <2>5
<1> QED
  BY <1>1, <1>2, <1>3, <1>4

LEMMA PlacedClose ==
  ASSUME Placed, CloseSteps
  PROVE  Step
<1> USE DEF Step, StepGoesOn
<1>1. CASE CloseRead
  <2>1. UNCHANGED lifeVars /\ pc = "CloseRead"
        /\ \/ Goes("SendSettle") \/ Goes("SettleRead") \/ Goes("SendClear") \/ Goes("ClosedRead")
    BY <1>1 DEF CloseRead, TrySettle, Goes
  <2> QED
    BY <2>1, GoesOnward DEF Position
<1>2. CASE SendClear
  <2>1. pc = "SendClear" /\ (FailTick \/ Goes("ClearRead"))
    BY <1>2 DEF SendClear, Refused, Goes
  <2>2. [LNext]_lifeVars
    BY <1>2, <2>1, AnyoneMay DEF SendClear, Placed
  <2> QED
    BY <2>1, <2>2, LeavesRound, LeavingIsOnward, GoesOnward DEF Position
<1>3. CASE ClearRead
  <2>1. UNCHANGED lifeVars /\ pc = "ClearRead"
        /\ (Goes("SendSettle") \/ Goes("SettleRead") \/ Goes("ClosedRead"))
    BY <1>3 DEF ClearRead, TrySettle, Goes
  <2> QED
    BY <2>1, GoesOnward DEF Position
<1>4. CASE SendSettle
  <2>1. pc = "SendSettle" /\ (FailTick \/ Goes("SettleRead"))
    BY <1>4 DEF SendSettle, Goes
  <2>2. [LNext]_lifeVars
    BY <1>4, <2>1, AnyoneMay DEF SendSettle, Placed
  <2> QED
    BY <2>1, <2>2, LeavesRound, LeavingIsOnward, GoesOnward DEF Position
<1>5. CASE SettleRead
  <2>1. UNCHANGED lifeVars /\ pc = "SettleRead" /\ Goes("ClosedRead")
    BY <1>5 DEF SettleRead, Goes
  <2> QED
    BY <2>1, GoesOnward DEF Position
<1>6. CASE ClosedRead
  BY <1>6, LeavesRound, LeavingIsOnward DEF ClosedRead
<1> QED
  BY <1>1, <1>2, <1>3, <1>4, <1>5, <1>6 DEF CloseSteps

LEMMA NextPlaced ==
  ASSUME Placed, [Next]_vars
  PROVE  Step
<1>1. CASE KeeperStep
  BY <1>1, PlacedPoll, PlacedVoid, PlacedKeep, PlacedReveal, PlacedClose
  DEF KeeperStep, KeepSteps
<1>2. CASE CallFails \/ PayoutRefused
  BY <1>2, LeavesRound, LeavingIsOnward DEF CallFails, PayoutRefused, Step, StepGoesOn
<1>3. CASE Faults
  BY <1>2, <1>3, PlacedPoll, PlacedKeep, PlacedReveal DEF Faults
<1>4. CASE \/ Queue \/ Status \/ UNCHANGED vars
           \/ \E r \in RoundIds, b \in Bidders : SealExpires(r, b)
  BY <1>4, StayStep
  DEF Queue, Status, EditWrite, EditRead, StatusReply, StatusRequest, SealExpires,
      vars, keeperVars, Stays, Step
<1>5. CASE Others
  BY <1>5, StayStep DEF Others, keeperVars, Stays, Step
<1> QED
  BY <1>1, <1>3, <1>4, <1>5 DEF Next

LEMMA PlacedAlways == Spec => []Placed
<1>1. Init => Placed
  BY DEF Init, Placed
<1>2. Placed /\ [Next]_vars => Placed'
  BY NextPlaced DEF Step
<1> QED
  BY <1>1, <1>2, PTL DEF Spec

\* A tick never goes in a circle, whatever the others do to the contract meanwhile and
\* whatever fails: every step takes the keeper to a later await, one bidder further in
\* the reveal loop, or out of the round, which the poll then does not come back to.  So
\* a poll is over after a number of calls bounded by its rounds and their bidders.
THEOREM PollsComeToAnEnd == Spec => [][StepGoesOn]_vars
<1>1. Placed /\ [Next]_vars => StepGoesOn
  BY NextPlaced DEF Step
<1> QED
  BY <1>1, PlacedAlways, PTL DEF Spec

\* The keeper, its restarts and its status API do nothing to a round but what the
\* contract lets anyone do: in their presence, too, the rounds live as RoundLife says.
THEOREM KeeperLeavesLifeAsItIs == Spec => LSpec
<1>1. Init => LInit
  BY DEF Init
<1>2. Placed /\ [Next]_vars => [LNext]_lifeVars
  BY NextPlaced DEF Step
<1> QED
  BY <1>1, <1>2, PlacedAlways, PTL DEF Spec, LSpec
=============================================================================
