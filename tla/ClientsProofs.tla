--------------------------- MODULE ClientsProofs ---------------------------
(***************************************************************************)
(* Proofs about the programs that take part in rounds, for any number of    *)
(* rounds and bidders, of handlers at work at once on the page, and of runs *)
(* of the agent with one mandate.                                          *)
(*                                                                         *)
(* The page: what a handler has read of a round, and what the page shows,   *)
(* can always be seen in the contract still (Seen, StatesSeen), for phases  *)
(* and bids only move on; and a handler that reveals has every seal ahead   *)
(* of it (TaskInv).  The agent: money and bids follow the stage its request *)
(* has reached at the service (AInv).                                      *)
(***************************************************************************)
EXTENDS Clients, TLAPS

USE LifeAssumption, SessionAssumption, AgentAssumption

-----------------------------------------------------------------------------
(* The contract between two steps of a program.                            *)

Past(r) == phase[r] \notin {"Absent", "Open"}
Over == {"Cleared", "Settled", "Voided"}

\* No bid is revealed in a round that is not past its commits.
LifeOk ==
  /\ phase \in [RoundIds -> Phases] /\ bid \in [RoundIds -> [Bidders -> BidPhases]]
  /\ \A r \in RoundIds : ~Past(r) => \A b \in Bidders : bid[r][b] # "Revealed"

\* Phases and bids only move on.
OnlyOn ==
  \A r \in RoundIds :
    /\ phase[r] # "Absent" => phase'[r] # "Absent"
    /\ Past(r) => Past(r)'
    /\ phase[r] \in Over => phase'[r] \in Over /\ bid'[r] = bid[r]
    /\ phase[r] \in Final => phase'[r] = phase[r]
    /\ \A b \in Bidders :
         /\ bid[r][b] # "None" => bid'[r][b] # "None"
         /\ bid[r][b] = "Revealed" => bid'[r][b] = "Revealed"
         /\ Past(r) /\ bid[r][b] # "Sealed" => bid'[r][b] = bid[r][b]

LEMMA LifeStep ==
  ASSUME LifeOk, [LNext]_lifeVars
  PROVE  LifeOk' /\ OnlyOn
<1> USE DEF LifeOk, OnlyOn, Past, Over, Final, Phases, BidPhases
<1>1. ASSUME UNCHANGED <<phase, bid>> PROVE LifeOk' /\ OnlyOn
  BY <1>1
<1>2. ASSUME NEW r \in RoundIds, NEW s \in Schedules, LCreate(r, s) PROVE LifeOk' /\ OnlyOn
  BY <1>2 DEF LCreate
<1>3. ASSUME NEW r \in RoundIds, NEW b \in Bidders, LCommit(r, b) PROVE LifeOk' /\ OnlyOn
  BY <1>3 DEF LCommit
<1>4. ASSUME NEW r \in RoundIds, LOpen(r) PROVE LifeOk' /\ OnlyOn
  BY <1>4 DEF LOpen, CanOpen
<1>5. ASSUME NEW r \in RoundIds, NEW b \in Bidders, LReveal(r, b) PROVE LifeOk' /\ OnlyOn
  BY <1>5 DEF LReveal, CanReveal
<1>6. ASSUME NEW r \in RoundIds, LClear(r) PROVE LifeOk' /\ OnlyOn
  BY <1>6 DEF LClear, CanClear
<1>7. ASSUME NEW r \in RoundIds, LSettle(r) PROVE LifeOk' /\ OnlyOn
  BY <1>7 DEF LSettle
<1>8. ASSUME NEW r \in RoundIds, LVoid(r) PROVE LifeOk' /\ OnlyOn
  BY <1>8 DEF LVoid, CanVoid
<1> QED
  BY <1>1, <1>2, <1>3, <1>4, <1>5, <1>6, <1>7, <1>8
     DEF LNext, LTick, LProduce, LAdvance, lifeVars

-----------------------------------------------------------------------------
(* The page.  What was read is seen in ph, the phases, and bd, the bids.    *)

Stages == {"idle", "connect", "create", "join", "commit", "round", "open", "list",
           "pending", "reveal", "fetch", "index", "states"}

TaskTypes ==
  [at : Stages, id : {0} \cup RoundIds, own : {0} \cup RoundIds, phase : Phases,
   left : SUBSET Bidders, states : [Bidders -> BidPhases],
   revealed : BOOLEAN, skipped : BOOLEAN, told : BOOLEAN]

Sessions ==
  [roundId : {0} \cup RoundIds, sealed : {0} \cup RoundIds,
   live : [id : {0} \cup RoundIds, phase : Phases, states : [Bidders -> BidPhases]]]

PastIn(p) == p \notin {"Absent", "Open"}

\* The phase p was read of round r.
Seen(r, p, ph) ==
  /\ p # "Absent" /\ ph[r] # "Absent"
  /\ PastIn(p) => PastIn(ph[r])
  /\ p \in Over => ph[r] \in Over
  /\ p \in Final => ph[r] = p

\* The states s were read of round r after the phase p.
StatesSeen(r, p, s, bd) ==
  \A b \in Bidders : s[b] # "None" =>
    /\ bd[r][b] # "None" /\ s[b] \in {"Sealed", bd[r][b]}
    /\ p \in Over => s[b] = bd[r][b]

NoneSealed(r, bd) == \A b \in Bidders : bd[r][b] # "Sealed"

TaskInv(T, ph, bd) ==
  /\ T \in TaskTypes
  /\ T.at \notin {"idle", "connect", "create"} => T.id \in RoundIds
  /\ T.at \notin {"pending", "states"} => T.states = NoBids
  /\ T.at \in {"create", "join", "commit"} => ~T.revealed
  /\ T.at \in {"list", "pending", "reveal"} => PastIn(ph[T.id])
  /\ T.told => T.at \in {"fetch", "index", "states"}
  /\ T.at = "pending" => \A b \in Bidders :
       /\ bd[T.id][b] # "None" => b \in T.left
       /\ T.states[b] = "Revealed" => bd[T.id][b] = "Revealed"
  /\ T.at = "reveal" /\ ~T.skipped => \A b \in Bidders \ T.left : bd[T.id][b] # "Sealed"
  /\ T.told /\ T.revealed /\ ~T.skipped => PastIn(ph[T.id]) /\ NoneSealed(T.id, bd)
  /\ T.at \in {"index", "states"} => Seen(T.id, T.phase, ph)
  /\ T.at = "states" =>
       /\ StatesSeen(T.id, T.phase, T.states, bd)
       /\ PastIn(T.phase) => \A b \in Bidders : bd[T.id][b] # "None" => b \in T.left

LiveInv(L, ph, bd) ==
  L = NoLive \/
    /\ L.id \in RoundIds
    /\ Seen(L.id, L.phase, ph) /\ StatesSeen(L.id, L.phase, L.states, bd)
    /\ PastIn(L.phase) => \A b \in Bidders : bd[L.id][b] # "None" => L.states[b] # "None"

PageInv ==
  /\ LifeOk
  /\ session \in Sessions /\ LiveInv(session.live, phase, bid)
  /\ task \in [Tasks -> TaskTypes] /\ \A t \in Tasks : TaskInv(task[t], phase, bid)

\* What the steps of the contract leave of what was read of one round.
LEMMA RoundKept ==
  ASSUME LifeOk, [LNext]_lifeVars, NEW r \in RoundIds
  PROVE  /\ \A p \in Phases : Seen(r, p, phase) => Seen(r, p, phase')
         /\ \A p \in Phases, s \in [Bidders -> BidPhases] :
              Seen(r, p, phase) /\ StatesSeen(r, p, s, bid) => StatesSeen(r, p, s, bid')
         /\ PastIn(phase[r]) => PastIn(phase'[r])
         /\ \A b \in Bidders :
              /\ bid[r][b] = "Revealed" => bid'[r][b] = "Revealed"
              /\ PastIn(phase[r]) /\ bid[r][b] # "Sealed" => bid'[r][b] = bid[r][b]
<1>1. OnlyOn
  BY LifeStep
<1>2. \A b \in Bidders : bid[r][b] \in BidPhases
  BY DEF LifeOk
<1>3. /\ phase[r] # "Absent" => phase'[r] # "Absent"
      /\ PastIn(phase[r]) => PastIn(phase'[r])
      /\ phase[r] \in Over => phase'[r] \in Over
      /\ phase[r] \in Final => phase'[r] = phase[r]
  BY <1>1 DEF OnlyOn, Past, PastIn
<1>4. \A b \in Bidders :
        /\ bid[r][b] # "None" => bid'[r][b] # "None"
        /\ bid[r][b] = "Revealed" => bid'[r][b] = "Revealed"
        /\ PastIn(phase[r]) /\ bid[r][b] # "Sealed" => bid'[r][b] = bid[r][b]
        /\ phase[r] \in Over => bid'[r][b] = bid[r][b]
  BY <1>1 DEF OnlyOn, Past, PastIn
<1>5. \A p \in Phases : Seen(r, p, phase) => Seen(r, p, phase')
  BY <1>3 DEF Seen
<1>6. ASSUME NEW p \in Phases, NEW s \in [Bidders -> BidPhases], Seen(r, p, phase),
             StatesSeen(r, p, s, bid)
      PROVE  StatesSeen(r, p, s, bid')
  <2> SUFFICES ASSUME NEW b \in Bidders, s[b] # "None"
               PROVE  /\ bid'[r][b] # "None" /\ s[b] \in {"Sealed", bid'[r][b]}
                      /\ p \in Over => s[b] = bid'[r][b]
    BY DEF StatesSeen
  <2>1. /\ bid[r][b] # "None" /\ s[b] \in {"Sealed", bid[r][b]}
        /\ p \in Over => s[b] = bid[r][b]
    BY <1>6 DEF StatesSeen
  <2>2. p \in Over => bid'[r][b] = bid[r][b]
    BY <1>4, <1>6 DEF Seen
  <2> QED
    BY <1>2, <1>4, <2>1, <2>2 DEF BidPhases
<1> QED
  BY <1>3, <1>4, <1>5, <1>6

\* What a handler has read stays seen, whatever the contract does.
LEMMA TaskKept ==
  ASSUME LifeOk, [LNext]_lifeVars, NEW T, TaskInv(T, phase, bid)
  PROVE  TaskInv(T, phase', bid')
<1> DEFINE r == T.id
<1>1. /\ T \in TaskTypes
      /\ T.states \in [Bidders -> BidPhases] /\ T.phase \in Phases
  BY DEF TaskInv, TaskTypes
<1>2. T.told => r \in RoundIds
  BY DEF TaskInv
<1>3. CASE r \in RoundIds
  <2> HIDE DEF r
  <2>1. /\ Seen(r, T.phase, phase) => Seen(r, T.phase, phase')
        /\ Seen(r, T.phase, phase) /\ StatesSeen(r, T.phase, T.states, bid) =>
             StatesSeen(r, T.phase, T.states, bid')
        /\ PastIn(phase[r]) => PastIn(phase'[r])
    BY <1>1, <1>3, RoundKept
  <2>2. \A b \in Bidders :
          /\ bid[r][b] = "Revealed" => bid'[r][b] = "Revealed"
          /\ PastIn(phase[r]) /\ bid[r][b] # "Sealed" => bid'[r][b] = bid[r][b]
    BY <1>3, RoundKept
  <2>3. Seen(r, T.phase, phase) /\ PastIn(T.phase) => PastIn(phase[r])
    BY DEF Seen
  <2>4. \A b \in Bidders : PastIn(phase[r]) /\ bid'[r][b] # "None" => bid[r][b] # "None"
    BY <2>2
  <2>5. PastIn(phase[r]) /\ NoneSealed(r, bid) => NoneSealed(r, bid')
    BY <2>2 DEF NoneSealed
  <2> USE DEF r
  <2> QED
    BY <2>1, <2>2, <2>3, <2>4, <2>5 DEF TaskInv
<1>4. CASE r \notin RoundIds
  BY <1>2, <1>4 DEF TaskInv
<1> QED
  BY <1>3, <1>4

\* What the page shows stays seen, whatever the contract does.
LEMMA LiveKept ==
  ASSUME LifeOk, [LNext]_lifeVars,
         NEW L \in [id : {0} \cup RoundIds, phase : Phases, states : [Bidders -> BidPhases]],
         LiveInv(L, phase, bid)
  PROVE  LiveInv(L, phase', bid')
<1>1. CASE L.id \in RoundIds /\ L # NoLive
  <2>1. /\ Seen(L.id, L.phase, phase) /\ StatesSeen(L.id, L.phase, L.states, bid)
        /\ PastIn(L.phase) => \A b \in Bidders : bid[L.id][b] # "None" => L.states[b] # "None"
    BY <1>1 DEF LiveInv
  <2>2. Seen(L.id, L.phase, phase') /\ StatesSeen(L.id, L.phase, L.states, bid')
    BY <1>1, <2>1, RoundKept
  <2>3. PastIn(L.phase) => \A b \in Bidders : bid'[L.id][b] # "None" => bid[L.id][b] # "None"
    BY <1>1, <2>1, RoundKept DEF Seen
  <2> QED
    BY <1>1, <2>1, <2>2, <2>3 DEF LiveInv
<1> QED
  BY <1>1 DEF LiveInv

\* A step of others, or of a program that is not the page.
LEMMA ElsewhereStep ==
  ASSUME PageInv, [LNext]_lifeVars, UNCHANGED <<session, task>>
  PROVE  PageInv'
BY LifeStep, TaskKept, LiveKept DEF PageInv, Sessions

\* A step of a handler: it has to see to its own task and to what the page shows.
LEMMA HandlerStep ==
  ASSUME PageInv, [LNext]_lifeVars,
         NEW t \in Tasks, NEW T, TaskInv(T, phase', bid'), task' = [task EXCEPT ![t] = T],
         session' \in Sessions,
         session'.live \in {NoLive, session.live} \/ LiveInv(session'.live, phase', bid')
  PROVE  PageInv'
<1> USE DEF PageInv
<1>1. LifeOk'
  BY LifeStep
<1>2. LiveInv(session'.live, phase', bid')
  BY LiveKept DEF LiveInv, Sessions
<1>3. \A u \in Tasks : TaskInv(task'[u], phase', bid')
  BY TaskKept
<1>4. task' \in [Tasks -> TaskTypes]
  BY DEF TaskInv
<1> QED
  BY <1>1, <1>2, <1>3, <1>4

\* A task just begun, or ended, claims nothing.
LEMMA BegunOk ==
  ASSUME NEW at \in {"idle", "connect", "create", "join", "commit", "round", "fetch"},
         NEW r \in {0} \cup RoundIds, NEW own \in {0} \cup RoundIds,
         at \notin {"idle", "connect", "create"} => r \in RoundIds, NEW ph, NEW bd
  PROVE  TaskInv([Idle EXCEPT !.at = at, !.id = r, !.own = own], ph, bd)
BY DEF TaskInv, Idle, TaskTypes, Stages, Phases, BidPhases, NoBids

LEMMA IdleOk == ASSUME NEW ph, NEW bd PROVE TaskInv(Idle, ph, bd)
BY DEF TaskInv, Idle, TaskTypes, Stages, Phases, BidPhases, NoBids

LEMMA ClickStep ==
  ASSUME PageInv, NEW t \in Tasks, Click(t)
  PROVE  PageInv' /\ UNCHANGED lifeVars
<1>1. ASSUME NEW at \in {"connect", "create", "join", "commit", "round", "fetch"},
             NEW r \in {0} \cup RoundIds, at \notin {"connect", "create"} => r \in RoundIds,
             Begin(t, at, r)
      PROVE  PageInv' /\ UNCHANGED lifeVars
  <2> DEFINE own == IF at = "round" THEN session.sealed ELSE 0
  <2>1. own \in {0} \cup RoundIds
    BY DEF PageInv, Sessions
  <2>2. /\ task' = [task EXCEPT ![t] = [Idle EXCEPT !.at = at, !.id = r, !.own = own]]
        /\ UNCHANGED <<lifeVars, session>>
    BY <1>1 DEF Begin
  <2> HIDE DEF own
  <2>3. TaskInv([Idle EXCEPT !.at = at, !.id = r, !.own = own], phase', bid')
    BY <1>1, <2>1, BegunOk
  <2> QED
    BY <2>2, <2>3, HandlerStep DEF PageInv
<1>2. session.roundId \in {0} \cup RoundIds
  BY DEF PageInv, Sessions
<1>3. Cta \in {"commit", "reveal"} => session.roundId # 0
  BY DEF Cta
<1> QED
  BY <1>1, <1>2, <1>3 DEF Click, ConnectClick, CreateClick, CommitClick, RevealClick,
     RefreshClick, JoinClick, Offered

\* The task as it was, waiting for something else: what it claims is all that changes.
LEMMA ErrorStep ==
  ASSUME PageInv, [LNext]_lifeVars, NEW t \in Tasks, task' = [task EXCEPT ![t] = Idle],
         UNCHANGED session
  PROVE  PageInv'
BY IdleOk, HandlerStep DEF PageInv

\* A handler that has done its work claims something only if it has revealed.
LEMMA DoneStep ==
  ASSUME PageInv, [LNext]_lifeVars, NEW t \in Tasks, NEW r \in RoundIds,
         DoneThenRefresh(t, r),
         task[t].states = NoBids,
         task[t].revealed /\ ~task[t].skipped =>
           PastIn(phase'[r]) /\ NoneSealed(r, bid'),
         session' \in Sessions, session'.live \in {NoLive, session.live}
  PROVE  PageInv'
<1> DEFINE T == [task[t] EXCEPT !.at = "fetch", !.id = r, !.told = TRUE]
<1>1. task[t] \in TaskTypes
  BY DEF PageInv
<1>2. /\ T \in TaskTypes /\ T.at = "fetch" /\ T.id = r /\ T.states = NoBids
      /\ T.revealed = task[t].revealed /\ T.skipped = task[t].skipped
  BY <1>1 DEF TaskTypes, Stages
<1>3. task' = [task EXCEPT ![t] = T]
  BY DEF DoneThenRefresh, PageInv
<1> HIDE DEF T
<1>4. TaskInv(T, phase', bid')
  BY <1>2 DEF TaskInv
<1> QED
  BY <1>3, <1>4, HandlerStep

\* Creating, joining and committing.
LEMMA EnterSteps ==
  ASSUME PageInv, NEW t \in Tasks,
         Connected(t) \/ CreateSend(t) \/ JoinRead(t) \/ CommitSend(t)
  PROVE  PageInv' /\ [LNext]_lifeVars
<1>1. /\ TaskInv(task[t], phase, bid) /\ session \in Sessions
      /\ task[t] \in TaskTypes
  BY DEF PageInv
<1>2. \A r \in RoundIds :
        Enter(r) => session' \in Sessions /\ session'.live = NoLive
  BY DEF Enter, EmptySession, Sessions, NoLive, NoBids, Phases, BidPhases
<1>3. CASE Connected(t)
  BY <1>3, IdleOk, HandlerStep DEF Connected, PageInv
<1>4. CASE CreateSend(t)
  <2>1. PICK r \in RoundIds, s \in Schedules :
          /\ LCreate(r, s)
          /\ \/ Enter(r) /\ DoneThenRefresh(t, r)
             \/ Throw(t)
    BY <1>4 DEF CreateSend
  <2>2. [LNext]_lifeVars
    BY <2>1 DEF LNext
  <2>3. CASE Enter(r) /\ DoneThenRefresh(t, r)
    <3>1. task[t].states = NoBids /\ ~task[t].revealed
      BY <1>1, <1>4 DEF CreateSend, TaskInv
    <3> QED
      BY <1>2, <2>2, <2>3, <3>1, DoneStep
  <2>4. CASE Throw(t)
    BY <2>2, <2>4, ErrorStep DEF Throw
  <2> QED
    BY <2>1, <2>2, <2>3, <2>4
<1>5. CASE JoinRead(t)
  <2>1. task[t].id \in RoundIds /\ task[t].states = NoBids /\ ~task[t].revealed
    BY <1>1, <1>5 DEF JoinRead, TaskInv
  <2>2. Enter(task[t].id) /\ DoneThenRefresh(t, task[t].id) /\ UNCHANGED lifeVars
    BY <1>5 DEF JoinRead
  <2> QED
    BY <1>2, <2>1, <2>2, DoneStep
<1>6. CASE CommitSend(t)
  <2>1. task[t].id \in RoundIds /\ task[t].states = NoBids /\ ~task[t].revealed
    BY <1>1, <1>6 DEF CommitSend, TaskInv
  <2>2. [LNext]_lifeVars
    BY <1>6, <2>1 DEF CommitSend, LNext
  <2>3. CASE Throw(t)
    BY <2>2, <2>3, ErrorStep DEF Throw
  <2>4. CASE session' = [session EXCEPT !.sealed = task[t].id]
             /\ DoneThenRefresh(t, task[t].id)
    <3>1. session' \in Sessions /\ session'.live = session.live
      BY <1>1, <2>1, <2>4 DEF Sessions
    <3> QED
      BY <2>1, <2>2, <2>4, <3>1, DoneStep
  <2> QED
    BY <1>6, <2>2, <2>3, <2>4 DEF CommitSend
<1> QED
  BY <1>3, <1>4, <1>5, <1>6

\* Up to the list of the seals to reveal.
LEMMA OpenSteps ==
  ASSUME PageInv, NEW t \in Tasks,
         RoundRead(t) \/ OpenSend(t) \/ BiddersListed(t) \/ PendingRead(t)
  PROVE  PageInv' /\ [LNext]_lifeVars
<1> DEFINE T == task[t]
<1>1. /\ TaskInv(T, phase, bid) /\ T \in TaskTypes /\ session \in Sessions
      /\ \A r \in RoundIds, b \in Bidders : bid[r][b] \in BidPhases
  BY DEF PageInv, LifeOk
<1>2. T.id \in RoundIds
  BY <1>1 DEF TaskInv, RoundRead, OpenSend, BiddersListed, PendingRead
<1>3. ASSUME NEW at \in {"open", "round", "list"}, T.at \in {"round", "open"},
             [LNext]_lifeVars, To(t, at), UNCHANGED session,
             at = "list" => PastIn(phase'[T.id])
      PROVE  PageInv'
  <2>1. /\ [T EXCEPT !.at = at] \in TaskTypes
        /\ task' = [task EXCEPT ![t] = [T EXCEPT !.at = at]]
    BY <1>1, <1>3 DEF TaskTypes, Stages, To, PageInv
  <2>2. TaskInv([T EXCEPT !.at = at], phase', bid')
    BY <1>1, <1>2, <1>3, <2>1 DEF TaskInv, TaskTypes
  <2> QED
    BY <1>1, <1>3, <2>1, <2>2, HandlerStep
<1>4. CASE RoundRead(t)
  <2>1. /\ T.at = "round" /\ UNCHANGED <<lifeVars, session>>
        /\ To(t, "open") \/ (phase[T.id] = "Revealing" /\ To(t, "list"))
    BY <1>4 DEF RoundRead
  <2> QED
    BY <1>3, <2>1 DEF PastIn, lifeVars
<1>5. CASE OpenSend(t)
  <2>1. [LNext]_lifeVars
    BY <1>2, <1>5 DEF OpenSend, LNext, LAdvance
  <2>2. CASE To(t, "round") /\ UNCHANGED session
    BY <1>3, <1>5, <2>1, <2>2 DEF OpenSend
  <2>3. CASE Throw(t)
    BY <2>1, <2>3, ErrorStep DEF Throw
  <2> QED
    BY <1>5, <2>1, <2>2, <2>3 DEF OpenSend
<1>6. CASE BiddersListed(t)
  <2> DEFINE N == [T EXCEPT !.at = "pending", !.left = ToReveal(T.id)]
  <2>1. /\ T.at = "list" /\ task' = [task EXCEPT ![t] = N] /\ UNCHANGED <<lifeVars, session>>
    BY <1>6 DEF BiddersListed, PageInv
  <2>2. /\ N \in TaskTypes /\ N.at = "pending" /\ N.id = T.id /\ N.left = ToReveal(T.id)
        /\ N.states = T.states /\ N.told = T.told
    BY <1>1 DEF TaskTypes, Stages, ToReveal, Listed
  <2>3. T.states = NoBids /\ ~T.told /\ PastIn(phase[T.id])
    BY <1>1, <2>1 DEF TaskInv
  <2> HIDE DEF N
  <2>4. TaskInv(N, phase, bid)
    BY <1>2, <2>2, <2>3 DEF TaskInv, ToReveal, Listed, NoBids
  <2> QED
    BY <1>1, <2>1, <2>4, HandlerStep DEF lifeVars
<1>7. CASE PendingRead(t)
  <2>1. /\ T.at = "pending" /\ UNCHANGED <<lifeVars, session>>
    BY <1>7 DEF PendingRead
  <2>2. /\ ~T.told /\ PastIn(phase[T.id])
        /\ \A b \in Bidders :
             /\ bid[T.id][b] # "None" => b \in T.left
             /\ T.states[b] = "Revealed" => bid[T.id][b] = "Revealed"
    BY <1>1, <2>1 DEF TaskInv
  <2>3. ASSUME NEW b \in Bidders, task' = [task EXCEPT ![t].states[b] = bid[T.id][b]]
        PROVE  PageInv'
    <3> DEFINE N == [T EXCEPT !.states[b] = bid[T.id][b]]
    <3>1. task' = [task EXCEPT ![t] = N]
      BY <2>3 DEF PageInv
    <3>2. /\ N \in TaskTypes /\ N.at = "pending" /\ N.id = T.id /\ N.left = T.left
          /\ N.told = T.told /\ N.states = [T.states EXCEPT ![b] = bid[T.id][b]]
      BY <1>1, <1>2, <2>1 DEF TaskTypes
    <3>3. T.states \in [Bidders -> BidPhases]
      BY <1>1 DEF TaskTypes
    <3> HIDE DEF N
    <3>4. TaskInv(N, phase, bid)
      BY <1>2, <2>2, <3>2, <3>3 DEF TaskInv
    <3> QED
      BY <1>1, <2>1, <3>1, <3>4, HandlerStep DEF lifeVars
  <2>4. ASSUME {b \in T.left : T.states[b] = "None"} = {},
               task' = [task EXCEPT ![t] =
                 [T EXCEPT !.at = "reveal", !.states = NoBids,
                           !.left = {b \in T.left : T.states[b] = "Sealed"}]]
        PROVE  PageInv'
    <3> DEFINE N == [T EXCEPT !.at = "reveal", !.states = NoBids,
                              !.left = {b \in T.left : T.states[b] = "Sealed"}]
    <3>1. task' = [task EXCEPT ![t] = N]
      BY <2>4
    <3>2. NoBids \in [Bidders -> BidPhases]
      BY DEF NoBids, BidPhases
    <3>3. /\ N \in TaskTypes /\ N.at = "reveal" /\ N.id = T.id /\ N.states = NoBids
          /\ N.left = {b \in T.left : T.states[b] = "Sealed"} /\ N.told = T.told
      BY <1>1, <3>2 DEF TaskTypes, Stages
    <3>4. \A b \in Bidders \ N.left : bid[T.id][b] # "Sealed"
      <4> TAKE b \in Bidders \ N.left
      <4>1. T.states[b] \in BidPhases
        BY <1>1 DEF TaskTypes
      <4> QED
        BY <2>2, <2>4, <3>3, <4>1 DEF BidPhases
    <3> HIDE DEF N
    <3>5. TaskInv(N, phase, bid)
      BY <1>2, <2>2, <3>3, <3>4 DEF TaskInv
    <3> QED
      BY <1>1, <2>1, <3>1, <3>5, HandlerStep DEF lifeVars
  <2>5. T.left \subseteq Bidders
    BY <1>1 DEF TaskTypes
  <2> QED
    BY <1>7, <2>1, <2>3, <2>4, <2>5 DEF PendingRead
<1> QED
  BY <1>4, <1>5, <1>6, <1>7

\* Revealing, bid by bid.
LEMMA RevealSteps ==
  ASSUME PageInv, NEW t \in Tasks, NEW b \in Bidders,
         Skip(t, b) \/ RevealSend(t, b) \/ RevealDone(t)
  PROVE  PageInv' /\ [LNext]_lifeVars
<1> DEFINE T == task[t]
<1>1. /\ TaskInv(T, phase, bid) /\ T \in TaskTypes /\ session \in Sessions
      /\ LifeOk
  BY DEF PageInv
<1>2. T.at = "reveal" /\ T.id \in RoundIds
  BY <1>1 DEF TaskInv, Skip, RevealSend, RevealDone
<1>3. /\ ~T.told /\ T.states = NoBids /\ PastIn(phase[T.id])
      /\ ~T.skipped => \A c \in Bidders \ T.left : bid[T.id][c] # "Sealed"
  BY <1>1, <1>2 DEF TaskInv
<1>4. CASE Skip(t, b)
  <2> DEFINE N == [T EXCEPT !.left = @ \ {b}, !.skipped = TRUE]
  <2>1. task' = [task EXCEPT ![t] = N] /\ UNCHANGED <<lifeVars, session>>
    BY <1>4 DEF Skip, PageInv
  <2>2. /\ N \in TaskTypes /\ N.at = "reveal" /\ N.id = T.id /\ N.states = NoBids
        /\ N.skipped /\ N.told = T.told
    BY <1>1, <1>2, <1>3 DEF TaskTypes
  <2> HIDE DEF N
  <2>3. TaskInv(N, phase, bid)
    BY <1>2, <1>3, <2>2 DEF TaskInv
  <2> QED
    BY <1>1, <2>1, <2>3, HandlerStep DEF lifeVars
<1>5. CASE RevealSend(t, b)
  <2>1. LReveal(T.id, b)
    BY <1>5 DEF RevealSend
  <2>2. [LNext]_lifeVars
    BY <1>2, <2>1 DEF LNext, LAdvance
  <2>3. CASE Throw(t)
    BY <2>2, <2>3, ErrorStep DEF Throw
  <2>4. CASE task' = [task EXCEPT ![t].left = @ \ {b}, ![t].revealed = TRUE]
             /\ UNCHANGED session
    <3> DEFINE N == [T EXCEPT !.left = @ \ {b}, !.revealed = TRUE]
    <3>1. task' = [task EXCEPT ![t] = N]
      BY <2>4 DEF PageInv
    <3>2. /\ N \in TaskTypes /\ N.at = "reveal" /\ N.id = T.id /\ N.states = NoBids
          /\ N.left = T.left \ {b} /\ N.skipped = T.skipped /\ N.told = T.told
      BY <1>1, <1>2, <1>3 DEF TaskTypes
    <3>3. phase' = phase /\ bid' = [bid EXCEPT ![T.id][b] = "Revealed"]
      BY <2>1 DEF LReveal
    <3>4. bid'[T.id] = [bid[T.id] EXCEPT ![b] = "Revealed"] /\ bid[T.id] \in [Bidders -> BidPhases]
      BY <1>1, <1>2, <3>3 DEF LifeOk
    <3>5. ~N.skipped => \A c \in Bidders \ N.left : bid'[T.id][c] # "Sealed"
      BY <1>3, <3>2, <3>4
    <3> HIDE DEF N
    <3>6. TaskInv(N, phase', bid')
      BY <1>2, <1>3, <3>2, <3>3, <3>5 DEF TaskInv
    <3> QED
      BY <1>1, <2>2, <2>4, <3>1, <3>6, HandlerStep
  <2> QED
    BY <1>5, <2>2, <2>3, <2>4 DEF RevealSend
<1>6. CASE RevealDone(t)
  <2>1. DoneThenRefresh(t, T.id) /\ T.left = {} /\ UNCHANGED <<lifeVars, session>>
    BY <1>6 DEF RevealDone
  <2>2. ~T.skipped => NoneSealed(T.id, bid)
    BY <1>3, <2>1 DEF NoneSealed
  <2>3. phase' = phase /\ bid' = bid
    BY <2>1 DEF lifeVars
  <2> QED
    BY <1>1, <1>2, <1>3, <2>1, <2>2, <2>3, DoneStep
<1> QED
  BY <1>4, <1>5, <1>6

\* Reading the round afresh.
LEMMA FetchSteps ==
  ASSUME PageInv, NEW t \in Tasks,
         RoundFetched(t) \/ IndexFetched(t) \/ StateFetched(t) \/ Fail(t)
  PROVE  PageInv' /\ [LNext]_lifeVars
<1> DEFINE T == task[t]
           Claim == T.told /\ T.revealed /\ ~T.skipped =>
                      PastIn(phase[T.id]) /\ NoneSealed(T.id, bid)
<1>1. /\ TaskInv(T, phase, bid) /\ T \in TaskTypes /\ session \in Sessions /\ LifeOk
  BY DEF PageInv
<1>2. UNCHANGED lifeVars /\ phase' = phase /\ bid' = bid
  BY DEF RoundFetched, IndexFetched, StateFetched, Fail, lifeVars
<1>3. Claim
  BY <1>1 DEF TaskInv
<1>4. T.states \in [Bidders -> BidPhases] /\ T.left \subseteq Bidders
  BY <1>1 DEF TaskTypes
<1>5. CASE Fail(t)
  <2>1. task' = [task EXCEPT ![t] = Idle] /\ UNCHANGED session
    BY <1>5 DEF Fail, Throw
  <2> QED
    BY <1>2, <2>1, ErrorStep
<1>6. CASE RoundFetched(t)
  <2> DEFINE N == [T EXCEPT !.at = "index", !.phase = phase[T.id]]
  <2>1. /\ T.at = "fetch" /\ phase[T.id] # "Absent" /\ UNCHANGED session
        /\ task' = [task EXCEPT ![t] = N]
    BY <1>6 DEF RoundFetched, PageInv
  <2>2. T.id \in RoundIds /\ T.states = NoBids
    BY <1>1, <2>1 DEF TaskInv
  <2>3. /\ N \in TaskTypes /\ N.at = "index" /\ N.id = T.id /\ N.phase = phase[T.id]
        /\ N.states = NoBids /\ N.told = T.told /\ N.revealed = T.revealed
        /\ N.skipped = T.skipped
    BY <1>1, <2>2 DEF TaskTypes, Stages, LifeOk
  <2> HIDE DEF N
  <2>4. TaskInv(N, phase, bid)
    BY <1>3, <2>1, <2>2, <2>3 DEF TaskInv, Seen
  <2> QED
    BY <1>1, <1>2, <2>1, <2>4, HandlerStep
<1>7. CASE IndexFetched(t)
  <2> DEFINE N == [T EXCEPT !.at = "states", !.left = Listed(T.id)]
  <2>1. /\ T.at = "index" /\ UNCHANGED session
        /\ task' = [task EXCEPT ![t] = N]
    BY <1>7 DEF IndexFetched, PageInv
  <2>2. T.id \in RoundIds /\ T.states = NoBids /\ Seen(T.id, T.phase, phase)
    BY <1>1, <2>1 DEF TaskInv
  <2>3. /\ N \in TaskTypes /\ N.at = "states" /\ N.id = T.id /\ N.phase = T.phase
        /\ N.states = NoBids /\ N.told = T.told /\ N.revealed = T.revealed
        /\ N.skipped = T.skipped /\ N.left = Listed(T.id)
    BY <1>1, <2>2 DEF TaskTypes, Stages, Listed
  <2> HIDE DEF N
  <2>4. TaskInv(N, phase, bid)
    BY <1>3, <2>1, <2>2, <2>3 DEF TaskInv, StatesSeen, NoBids, Listed
  <2> QED
    BY <1>1, <1>2, <2>1, <2>4, HandlerStep
<1>8. CASE StateFetched(t)
  <2>1. /\ T.at = "states"
    BY <1>8 DEF StateFetched
  <2>2. /\ T.id \in RoundIds /\ Seen(T.id, T.phase, phase)
        /\ StatesSeen(T.id, T.phase, T.states, bid)
        /\ PastIn(T.phase) => \A b \in Bidders : bid[T.id][b] # "None" => b \in T.left
    BY <1>1, <2>1 DEF TaskInv
  <2>3. ASSUME NEW b \in T.left, T.states[b] = "None", UNCHANGED session,
               task' = [task EXCEPT ![t].states[b] = bid[T.id][b]]
        PROVE  PageInv'
    <3> DEFINE N == [T EXCEPT !.states[b] = bid[T.id][b]]
    <3>1. task' = [task EXCEPT ![t] = N] /\ b \in Bidders
      BY <1>4, <2>3 DEF PageInv
    <3>2. bid[T.id][b] \in BidPhases
      BY <1>1, <2>2, <3>1 DEF LifeOk
    <3>3. /\ N \in TaskTypes /\ N.at = "states" /\ N.id = T.id /\ N.phase = T.phase
          /\ N.states = [T.states EXCEPT ![b] = bid[T.id][b]]
          /\ N.left = T.left /\ N.told = T.told /\ N.revealed = T.revealed
          /\ N.skipped = T.skipped
      BY <1>1, <2>1, <3>1, <3>2 DEF TaskTypes
    <3> HIDE DEF N
    <3>4. StatesSeen(T.id, T.phase, N.states, bid)
      BY <1>4, <2>2, <3>1, <3>3 DEF StatesSeen
    <3>5. TaskInv(N, phase, bid)
      BY <1>3, <2>2, <3>3, <3>4 DEF TaskInv
    <3> QED
      BY <1>1, <1>2, <2>3, <3>1, <3>5, HandlerStep
  <2>4. ASSUME {b \in T.left : T.states[b] = "None"} = {},
               session' = [session EXCEPT !.live = Snapshot(T)],
               task' = [task EXCEPT ![t] = Idle]
        PROVE  PageInv'
    <3> DEFINE L == Snapshot(T)
    <3>1. /\ L.id = T.id /\ L.phase = T.phase /\ L.states = T.states
          /\ L \in [id : {0} \cup RoundIds, phase : Phases, states : [Bidders -> BidPhases]]
      BY <1>1 DEF Snapshot, TaskTypes
    <3> HIDE DEF L
    <3>2. LiveInv(L, phase, bid)
      BY <2>2, <2>4, <3>1 DEF LiveInv
    <3>3. session' \in Sessions /\ session'.live = L
      BY <1>1, <2>4, <3>1 DEF Sessions, L
    <3> QED
      BY <1>2, <2>4, <3>2, <3>3, IdleOk, HandlerStep
  <2> QED
    BY <1>8, <2>3, <2>4 DEF StateFetched
<1> QED
  BY <1>2, <1>5, <1>6, <1>7, <1>8

-----------------------------------------------------------------------------
(* The agent.                                                              *)

RequestStages == {"none", "verify", "appraise", "settle", "served", "refused"}

AgentTypes ==
  /\ mandate \in Mandates /\ asked \in Nat
  /\ agent \in [at : {"idle", "round", "pay", "answer", "commit", "sent"},
                run : 0 .. MaxRuns, bid : Nat]
  /\ request \in [Runs -> [stage : RequestStages, suggested : Nat]]
  /\ charged \in [Runs -> Nat]

\* A bid made with an appraisal the service has served, within the mandate.
BidOk(b) ==
  /\ b.run \in Runs /\ request[b.run].stage = "served"
  /\ 0 < b.value /\ b.value <= b.escrow
  /\ b.value <= mandate.maxBid /\ b.escrow <= mandate.maxEscrow

\* Money moves for a run once at most, when its request leaves the stage "settle", and
\* has moved for all served by a service that wants to be paid.  Only a well-formed
\* request comes to "settle".
RequestOk(i) ==
  /\ charged[i] \in {0, 1}
  /\ request[i].stage \in {"none", "verify", "appraise", "settle"} => charged[i] = 0
  /\ request[i].stage = "served" => charged[i] = IF asked = 0 THEN 0 ELSE 1
  /\ request[i].stage = "settle" => asked # 0
  /\ request[i].stage = "settle" \/ charged[i] = 1 => mandate.wellFormed
  /\ i > agent.run => request[i].stage = "none"

AgentInv ==
  /\ AgentTypes
  /\ \A i \in Runs : RequestOk(i)
  /\ agent.at # "idle" => agent.run \in Runs
  /\ agent.at \in {"round", "pay"} => request[agent.run].stage = "none"
  /\ agent.at = "commit" =>
       /\ request[agent.run].stage = "served"
       /\ 0 < agent.bid /\ agent.bid <= mandate.maxBid /\ agent.bid <= mandate.maxEscrow
  /\ \A b \in Bids : BidOk(b)

\* The clamped bid is at most each of the three.
LEMMA Clamped ==
  ASSUME NEW s \in Nat, NEW m \in Mandates
  PROVE  /\ BidFromAppraisal(s, m) \in Nat
         /\ BidFromAppraisal(s, m) <= m.maxBid /\ BidFromAppraisal(s, m) <= m.maxEscrow
<1>1. m.maxBid \in Nat /\ m.maxEscrow \in Nat
  OBVIOUS
<1>2. \E x \in {s, m.maxBid, m.maxEscrow} : \A y \in {s, m.maxBid, m.maxEscrow} : x <= y
  BY <1>1
<1>3. /\ BidFromAppraisal(s, m) \in {s, m.maxBid, m.maxEscrow}
      /\ \A y \in {s, m.maxBid, m.maxEscrow} : BidFromAppraisal(s, m) <= y
  BY <1>2 DEF BidFromAppraisal, Least
<1> QED
  BY <1>1, <1>3

LEMMA AgentElsewhere ==
  ASSUME AgentInv, UNCHANGED agentVars PROVE AgentInv'
BY DEF AgentInv, AgentTypes, RequestOk, BidOk, Bids, NoBid, agentVars

LEMMA AgentMoves ==
  ASSUME AgentInv, StartAgent \/ ReadRound \/ PaidFetch \/ Appraised \/ EndRun
  PROVE  AgentInv'
<1> USE DEF AgentInv
<1>1. UNCHANGED <<mandate, asked, charged, flight, held>>
  BY DEF StartAgent, ReadRound, PaidFetch, Appraised, EndRun
<1>2. CASE StartAgent
  <2>1. /\ agent.at = "idle" /\ agent.run < MaxRuns
        /\ agent' = [at |-> "round", run |-> agent.run + 1, bid |-> 0]
        /\ UNCHANGED request
    BY <1>2 DEF StartAgent, At
  <2>2. agent'.run \in Runs /\ agent'.run > agent.run
    <3>1. agent.run \in 0 .. MaxRuns
      BY DEF AgentTypes
    <3>2. agent'.run = agent.run + 1
      BY <2>1
    <3> HIDE DEF AgentInv
    <3> QED
      BY <2>1, <3>1, <3>2 DEF Runs
  <2>3. AgentTypes'
    <3>1. agent.run + 1 \in 0 .. MaxRuns
      BY <2>1, <2>2 DEF Runs
    <3>2. agent' \in [at : {"idle", "round", "pay", "answer", "commit", "sent"},
                     run : 0 .. MaxRuns, bid : Nat]
      BY <2>1, <3>1
    <3> QED
      BY <1>1, <2>1, <3>2 DEF AgentTypes
  <2>4. \A i \in Runs : RequestOk(i)'
    <3>1. \A i \in Runs : i > agent'.run => i > agent.run
      BY <2>2 DEF AgentTypes, Runs
    <3> QED
      BY <1>1, <2>1, <3>1 DEF RequestOk
  <2>5. request'[agent'.run].stage = "none"
    BY <2>1, <2>2 DEF RequestOk
  <2>6. \A b \in Bids' : BidOk(b)'
    BY <1>1, <2>1 DEF Bids, BidOk, NoBid
  <2> QED
    BY <1>1, <2>1, <2>2, <2>3, <2>4, <2>5, <2>6
<1>3. CASE ReadRound
  <2>1. /\ agent.at = "round" /\ agent' = [agent EXCEPT !.at = "pay"] /\ UNCHANGED request
    BY <1>3 DEF ReadRound, At, Await
  <2>2. AgentTypes' /\ agent'.at = "pay" /\ agent'.run = agent.run
    BY <1>1, <2>1 DEF AgentTypes
  <2>3. (\A i \in Runs : RequestOk(i)') /\ (\A b \in Bids' : BidOk(b)')
    BY <1>1, <2>1, <2>2 DEF RequestOk, Bids, BidOk, NoBid
  <2> QED
    BY <1>1, <2>1, <2>2, <2>3
<1>4. CASE EndRun
  <2>1. agent' = [agent EXCEPT !.at = "idle"] /\ UNCHANGED request
    BY <1>4 DEF EndRun, Await
  <2>2. AgentTypes' /\ agent'.at = "idle" /\ agent'.run = agent.run
    BY <1>1, <2>1 DEF AgentTypes
  <2>3. (\A i \in Runs : RequestOk(i)') /\ (\A b \in Bids' : BidOk(b)')
    BY <1>1, <2>1, <2>2 DEF RequestOk, Bids, BidOk, NoBid
  <2> QED
    BY <1>1, <2>1, <2>2, <2>3
<1>5. CASE PaidFetch
  <2> DEFINE stage == IF asked = 0 THEN "appraise" ELSE "verify"
  <2>1. /\ agent.at = "pay" /\ agent' = [agent EXCEPT !.at = "answer"]
        /\ request' = [request EXCEPT ![agent.run].stage = stage]
    BY <1>5 DEF PaidFetch, At, Await
  <2>2. AgentTypes' /\ agent'.at = "answer" /\ agent'.run = agent.run
    BY <1>1, <2>1 DEF AgentTypes, RequestStages
  <2>3. request'[agent.run].stage \in {"verify", "appraise"}
        /\ \A i \in Runs \ {agent.run} : request'[i] = request[i]
    BY <2>1 DEF AgentTypes
  <2>4. \A i \in Runs : RequestOk(i)'
    BY <1>1, <2>1, <2>2, <2>3 DEF RequestOk, AgentTypes
  <2>5. \A b \in Bids : b.run # agent.run
    BY <2>1 DEF BidOk
  <2>6. \A b \in Bids' : BidOk(b)'
    BY <1>1, <2>3, <2>5 DEF Bids, BidOk, NoBid
  <2> QED
    BY <1>1, <2>1, <2>2, <2>4, <2>6
<1>6. CASE Appraised
  <2> DEFINE value == BidFromAppraisal(request[agent.run].suggested, mandate)
  <2>1. /\ agent.at = "answer" /\ request[agent.run].stage = "served" /\ value > 0
        /\ agent' = [agent EXCEPT !.at = "commit", !.bid = value] /\ UNCHANGED request
    BY <1>6 DEF Appraised, At
  <2>2. value \in Nat /\ value <= mandate.maxBid /\ value <= mandate.maxEscrow
    <3>1. request[agent.run].suggested \in Nat /\ mandate \in Mandates
      BY <2>1 DEF AgentTypes
    <3> QED
      BY <3>1, Clamped
  <2> HIDE DEF value
  <2>3. /\ AgentTypes' /\ agent'.at = "commit" /\ agent'.run = agent.run /\ agent'.bid = value
    BY <1>1, <2>1, <2>2 DEF AgentTypes
  <2>4. \A i \in Runs : RequestOk(i)'
    BY <1>1, <2>1, <2>3 DEF RequestOk
  <2>5. \A b \in Bids' : BidOk(b)'
    BY <1>1, <2>1 DEF Bids, BidOk, NoBid
  <2> QED
    BY <1>1, <2>1, <2>2, <2>3, <2>4, <2>5
<1> QED
  BY <1>2, <1>3, <1>4, <1>5, <1>6

\* The service moves a request on, and captures the payment on leaving "settle".
LEMMA ServiceMoves ==
  ASSUME AgentInv, NEW i \in Runs, VerifyPayment(i) \/ Appraise(i) \/ Settle(i)
  PROVE  AgentInv'
<1> USE DEF AgentInv
<1>1. UNCHANGED <<mandate, asked, agent, flight, sequence, held>>
  BY DEF VerifyPayment, Appraise, Settle, Handle
<1>2. request[i] \in [stage : RequestStages, suggested : Nat] /\ charged[i] \in Nat
  BY DEF AgentTypes
<1>3. ASSUME NEW q \in [stage : RequestStages, suggested : Nat], NEW n \in Nat,
             request[i].stage \in {"verify", "appraise", "settle"}, q.stage # "none",
             request' = [request EXCEPT ![i] = q], charged' = [charged EXCEPT ![i] = n],
             n \in {0, 1}, q.stage \in {"verify", "appraise", "settle"} => n = 0,
             q.stage = "served" => n = IF asked = 0 THEN 0 ELSE 1,
             q.stage = "settle" => asked # 0,
             q.stage = "settle" \/ n = 1 => mandate.wellFormed
      PROVE  AgentInv'
  <2>1. AgentTypes'
    BY <1>1, <1>3 DEF AgentTypes
  <2>2. /\ request'[i] = q /\ charged'[i] = n
        /\ \A j \in Runs \ {i} : request'[j] = request[j] /\ charged'[j] = charged[j]
    BY <1>3 DEF AgentTypes
  <2>3. RequestOk(i)'
    BY <1>1, <1>3, <2>2 DEF RequestOk
  <2>4. \A j \in Runs : RequestOk(j)'
    BY <1>1, <2>2, <2>3 DEF RequestOk
  <2>5. \A b \in Bids : b.run # i
    BY <1>3 DEF BidOk
  <2>6. \A b \in Bids' : BidOk(b)'
    BY <1>1, <2>2, <2>5 DEF Bids, BidOk, NoBid
  <2>7. /\ agent.at \in {"round", "pay", "commit"} => agent.run # i
    BY <1>3
  <2> QED
    BY <1>1, <2>1, <2>2, <2>4, <2>6, <2>7
<1>4. ASSUME NEW from \in {"verify", "appraise", "settle"}, NEW to \in {"appraise", "refused"},
             Stage(i, from, to), UNCHANGED charged
      PROVE  AgentInv'
  <2> DEFINE q == [request[i] EXCEPT !.stage = to]
  <2>1. /\ request[i].stage = from /\ request' = [request EXCEPT ![i] = q]
    BY <1>4 DEF Stage, AgentTypes
  <2>2. q \in [stage : RequestStages, suggested : Nat] /\ q.stage = to
    BY <1>2 DEF RequestStages
  <2>3. charged' = [charged EXCEPT ![i] = 0]
    BY <1>4, <2>1 DEF RequestOk, AgentTypes
  <2>4. /\ q.stage \notin {"none", "settle", "served"} /\ 0 \in {0, 1} \cap Nat
        /\ ~(q.stage = "settle" \/ 0 = 1)
    BY <2>2
  <2> HIDE DEF q
  <2> QED
    BY <1>3, <2>1, <2>2, <2>3, <2>4
<1>5. CASE VerifyPayment(i)
  BY <1>4, <1>5 DEF VerifyPayment
<1>6. CASE Appraise(i)
  <2>1. request[i].stage = "appraise" /\ UNCHANGED charged
    BY <1>6 DEF Appraise
  <2>2. CASE Appraisable(mandate)
    <3> DEFINE stage == IF asked = 0 THEN "served" ELSE "settle"
    <3>1. PICK s \in Suggestions :
            request' = [request EXCEPT ![i] = [stage |-> stage, suggested |-> s]]
      BY <1>6, <2>2 DEF Appraise
    <3>2. charged' = [charged EXCEPT ![i] = 0]
      BY <2>1 DEF RequestOk, AgentTypes
    <3>3. [stage |-> stage, suggested |-> s] \in [stage : RequestStages, suggested : Nat]
      BY DEF RequestStages
    <3>4. /\ stage \in {"served", "settle"} /\ (stage = "settle" => asked # 0)
          /\ stage = "served" => asked = 0
      OBVIOUS
    <3> HIDE DEF stage
    <3> QED
      BY <1>3, <2>1, <2>2, <3>1, <3>2, <3>3, <3>4 DEF Appraisable
  <2>3. CASE ~Appraisable(mandate)
    BY <1>4, <1>6, <2>1, <2>3 DEF Appraise, Stage
  <2> QED
    BY <2>2, <2>3
<1>7. CASE Settle(i)
  <2>1. PICK to \in {"served", "refused"}, n \in {0, 1} :
          /\ Stage(i, "settle", to) /\ (to = "served" => n = 1)
          /\ charged' = [charged EXCEPT ![i] = @ + n]
    BY <1>7 DEF Settle
  <2> DEFINE q == [request[i] EXCEPT !.stage = to]
  <2>2. /\ request[i].stage = "settle" /\ request' = [request EXCEPT ![i] = q]
    BY <2>1 DEF Stage, AgentTypes
  <2>3. q \in [stage : RequestStages, suggested : Nat] /\ q.stage = to
    BY <1>2 DEF RequestStages
  <2>4. charged[i] = 0 /\ mandate.wellFormed /\ asked # 0
    BY <2>2 DEF RequestOk
  <2>5. charged' = [charged EXCEPT ![i] = n] /\ n \in Nat
    BY <2>1, <2>4
  <2> HIDE DEF q
  <2> QED
    BY <1>3, <2>1, <2>2, <2>3, <2>4, <2>5
<1> QED
  BY <1>5, <1>6, <1>7

\* Commits sent, included and expired.
LEMMA CommitMoves ==
  ASSUME AgentInv, SendCommit \/ \E tx \in flight : Include(tx) \/ Expire(tx)
  PROVE  AgentInv'
<1> USE DEF AgentInv
<1>1. UNCHANGED <<mandate, asked, request, charged>>
  BY DEF SendCommit, Include, Expire
<1>2. CASE SendCommit
  <2> DEFINE tx == [run |-> agent.run, value |-> agent.bid, escrow |-> agent.bid,
                    seq |-> sequence]
  <2>1. /\ agent.at = "commit" /\ agent' = [agent EXCEPT !.at = "sent"]
        /\ flight' = flight \cup {tx} /\ UNCHANGED held
    BY <1>2 DEF SendCommit, At, Await
  <2>2. BidOk(tx)
    <3>1. agent.bid \in Nat
      BY DEF AgentTypes
    <3> QED
      BY <2>1, <3>1 DEF BidOk
  <2>3. AgentTypes' /\ agent'.at = "sent" /\ agent'.run = agent.run
    BY <1>1, <2>1 DEF AgentTypes
  <2>4. Bids' = Bids \cup {tx}
    BY <2>1 DEF Bids
  <2> HIDE DEF tx
  <2>5. \A b \in Bids' : BidOk(b)'
    BY <1>1, <2>2, <2>4 DEF BidOk
  <2> QED
    BY <1>1, <2>1, <2>3, <2>5 DEF RequestOk
<1>3. ASSUME NEW tx \in flight, Include(tx) \/ Expire(tx) PROVE AgentInv'
  <2>1. UNCHANGED agent /\ Bids' \subseteq Bids
    BY <1>3 DEF Include, Expire, Bids
  <2>2. \A b \in Bids' : BidOk(b)'
    BY <1>1, <2>1 DEF BidOk
  <2> QED
    BY <1>1, <2>1, <2>2 DEF RequestOk, AgentTypes
<1> QED
  BY <1>2, <1>3

-----------------------------------------------------------------------------
(* The composition.                                                        *)

CInv == PageInv /\ AgentInv

LEMMA InitCInv == Init => CInv
<1> SUFFICES ASSUME Init PROVE CInv
  OBVIOUS
<1>1. LifeOk
  BY DEF Init, LInit, LifeOk, Phases, BidPhases
<1>2. session \in Sessions /\ session.live = NoLive
  BY DEF Init, SessionInit, EmptySession, Sessions, NoLive, NoBids, Phases, BidPhases
<1>3. \A t \in Tasks : task[t] = Idle
  BY DEF Init, SessionInit
<1>4. task \in [Tasks -> TaskTypes] /\ \A t \in Tasks : TaskInv(task[t], phase, bid)
  <2>1. TaskInv(Idle, phase, bid)
    BY IdleOk
  <2> QED
    BY <1>3, <2>1 DEF Init, SessionInit, TaskInv
<1>5. PageInv
  BY <1>1, <1>2, <1>4 DEF PageInv, LiveInv
<1>6. AgentTypes
  BY DEF Init, AgentInit, AgentTypes, NoRequest, RequestStages, Runs
<1>7. /\ agent.at = "idle" /\ Bids = {}
      /\ \A i \in Runs : request[i].stage = "none" /\ charged[i] = 0
  BY DEF Init, AgentInit, NoRequest, Bids
<1>8. AgentInv
  BY <1>6, <1>7 DEF AgentInv, RequestOk
<1> QED
  BY <1>5, <1>8 DEF CInv

\* Whoever acts, the rounds take a step of their life or none.
LEMMA StepIsLife == CInv /\ [Next]_vars => [LNext]_lifeVars
<1> SUFFICES ASSUME CInv, [Next]_vars PROVE [LNext]_lifeVars
  OBVIOUS
<1> USE DEF CInv
<1>1. CASE UNCHANGED vars
  BY <1>1 DEF vars
<1>2. CASE Others
  BY <1>2 DEF Others, LNext
<1>3. CASE Page
  <2>1. PICK t \in Tasks : Click(t) \/ Answer(t)
    BY <1>3 DEF Page, PageStep
  <2>2. CASE Click(t)
    BY <2>2, ClickStep
  <2>3. CASE Answer(t)
    BY <2>3, EnterSteps, OpenSteps, RevealSteps, FetchSteps DEF Answer
  <2> QED
    BY <2>1, <2>2, <2>3
<1>4. CASE Bidder
  <2>1. mandate.roundId \in RoundIds
    BY DEF AgentInv, AgentTypes
  <2>2. ASSUME NEW tx \in flight, Include(tx) PROVE LNext
    BY <2>1, <2>2 DEF Include, LNext
  <2> QED
    BY <1>4, <2>2 DEF Bidder, AgentStep, StartAgent, ReadRound, PaidFetch, Appraised,
       SendCommit, EndRun, VerifyPayment, Appraise, Settle, Handle, Expire
<1> QED
  BY <1>1, <1>2, <1>3, <1>4 DEF Next

LEMMA NextCInv == CInv /\ [Next]_vars => CInv'
<1> SUFFICES ASSUME CInv, [Next]_vars PROVE CInv'
  OBVIOUS
<1> USE DEF CInv
<1>1. CASE UNCHANGED vars
  BY <1>1, ElsewhereStep, AgentElsewhere DEF vars, sessionVars
<1>2. CASE Others
  BY <1>2, StepIsLife, ElsewhereStep, AgentElsewhere DEF Others, sessionVars
<1>3. CASE Page
  <2>1. PICK t \in Tasks : Click(t) \/ Answer(t)
    BY <1>3 DEF Page, PageStep
  <2>2. UNCHANGED agentVars
    BY <1>3 DEF Page
  <2>3. CASE Click(t)
    BY <2>2, <2>3, ClickStep, AgentElsewhere
  <2>4. CASE Answer(t)
    <3>1. PageInv'
      BY <2>4, EnterSteps, OpenSteps, RevealSteps, FetchSteps DEF Answer
    <3> QED
      BY <2>2, <3>1, AgentElsewhere
  <2> QED
    BY <2>1, <2>3, <2>4
<1>4. CASE Bidder
  <2>1. PageInv'
    BY <1>4, StepIsLife, ElsewhereStep DEF Bidder, sessionVars
  <2>2. AgentInv'
    BY <1>4, AgentMoves, ServiceMoves, CommitMoves DEF Bidder, AgentStep
  <2> QED
    BY <2>1, <2>2
<1> QED
  BY <1>1, <1>2, <1>3, <1>4 DEF Next

THEOREM ClientsInvariant == Spec => []CInv
BY InitCInv, NextCInv, PTL DEF Spec

\* The page and the agent do nothing to a round but what the contract lets them, however
\* their handlers overlap and whatever dies: the rounds live as RoundLife says.
THEOREM ClientsLeaveLifeAsItIs == Spec => LSpec
<1>1. Init => LInit
  BY DEF Init
<1> QED
  BY <1>1, StepIsLife, ClientsInvariant, PTL DEF Spec, LSpec

\* A handler that says "Reveal complete" without a skipped bid has left none sealed,
\* whoever else was at work (useRoundSession.ts:431).
THEOREM RevealLeavesNothingSealed == Spec => []RevealCompleteMeansAll
<1>1. CInv => RevealCompleteMeansAll
  BY DEF CInv, PageInv, TaskInv, NoneSealed, RevealCompleteMeansAll
<1> QED
  BY <1>1, ClientsInvariant, PTL

\* The round on the page is a mix of moments but only lags behind the contract's,
\* however the page's reads overlap with each other and with what others do; once over,
\* it is exact (useRoundSession.ts:131-139).
THEOREM WhatIsShownLags == Spec => []LiveLags
<1>1. CInv => LiveLags
  <2> SUFFICES ASSUME CInv, Live # NoLive PROVE LiveLags
    BY DEF LiveLags
  <2> DEFINE r == Live.id
  <2>1. /\ r \in RoundIds /\ Live.phase \in Phases
        /\ Live.states \in [Bidders -> BidPhases] /\ bid[r] \in [Bidders -> BidPhases]
        /\ Seen(r, Live.phase, phase) /\ StatesSeen(r, Live.phase, Live.states, bid)
        /\ PastIn(Live.phase) =>
             \A b \in Bidders : bid[r][b] # "None" => Live.states[b] # "None"
    BY DEF CInv, PageInv, LiveInv, Sessions, Live, LifeOk
  <2>2. \A b \in Bidders : Live.states[b] # "None" =>
          bid[r][b] # "None" /\ Live.states[b] \in {"Sealed", bid[r][b]}
    BY <2>1 DEF StatesSeen
  <2> DEFINE past == {"Revealing", "Cleared", "Settled", "Voided"}
  <2>3. /\ Live.phase \in past => PastIn(Live.phase) /\ phase[r] \in past
        /\ Live.phase \in Over => phase[r] \in Over
        /\ phase[r] # "Absent" /\ past \ {"Revealing"} = Over
    <3>1. phase[r] \in Phases
      BY <2>1 DEF CInv, PageInv, LifeOk
    <3> QED
      BY <2>1, <3>1 DEF Seen, PastIn, Phases, Over
  <2>4. Live.phase \in Over => Live.states = bid[r]
    <3> SUFFICES ASSUME Live.phase \in Over, NEW b \in Bidders PROVE Live.states[b] = bid[r][b]
      BY <2>1
    <3> QED
      BY <2>1, <2>2 DEF StatesSeen, PastIn, Over
  <2>5. Live.phase \in Final => phase[r] = Live.phase
    BY <2>1 DEF Seen
  <2> QED
    BY <2>1, <2>2, <2>3, <2>4, <2>5 DEF LiveLags
<1> QED
  BY <1>1, ClientsInvariant, PTL

\* The agent pays for what it gets, once a run, and bids within its mandate, whatever
\* dies in between (server.ts:221-223, mandate.ts:186-201).  What all its runs pay
\* together is not bounded by the mandate.
THEOREM AgentKeepsItsMandate == Spec => []PaidAndWithinMandate
<1>1. CInv => PaidAndWithinMandate
  <2> SUFFICES ASSUME CInv PROVE PaidAndWithinMandate
    OBVIOUS
  <2>1. \A i \in Runs : charged[i] <= 1 /\ (charged[i] = 0 \/ mandate.wellFormed)
    BY DEF CInv, AgentInv, RequestOk
  <2>2. \A b \in Bids : BidOk(b) /\ charged[b.run] = IF asked = 0 THEN 0 ELSE 1
    BY DEF CInv, AgentInv, RequestOk, BidOk
  <2> QED
    BY <2>1, <2>2 DEF PaidAndWithinMandate, BidOk
<1> QED
  BY <1>1, ClientsInvariant, PTL
=============================================================================
