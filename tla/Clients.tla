------------------------------ MODULE Clients ------------------------------
(***************************************************************************)
(* The programs that take part in rounds on somebody's behalf, each with a  *)
(* contract that others use as well: the page of the web application or the *)
(* bidding agent.  They share nothing but the contract, so a behaviour has  *)
(* one of them.                                                            *)
(***************************************************************************)
EXTENDS Session, Agent

VARIABLE who  \* the program of this behaviour

vars == <<lifeVars, sessionVars, agentVars, who>>

Programs == {"page", "agent"}

Account(w) == IF w = "page" THEN Wallet ELSE SessionKey

Init ==
  /\ LInit /\ SessionInit /\ AgentInit
  /\ who \in Programs
  /\ who = "page" =>  \* where there is no agent, its mandate does not matter
       /\ mandate = CHOOSE m \in Mandates : TRUE
       /\ asked = CHOOSE p \in Prices : TRUE

\* Time, Drand, and everyone else: other rounds, the other bidders' commits, and the
\* entry points anyone may call.
Others ==
  /\ \/ LTick \/ LProduce
     \/ \E r \in RoundIds :
          \/ \E s \in Schedules : LCreate(r, s)
          \/ \E b \in Bidders \ {Account(who)} : LCommit(r, b)
          \/ LAdvance(r)
  /\ UNCHANGED <<sessionVars, agentVars>>

Page == who = "page" /\ PageStep /\ UNCHANGED agentVars

Bidder == who = "agent" /\ AgentStep /\ UNCHANGED sessionVars

Next == (Others \/ Page \/ Bidder) /\ UNCHANGED who

Spec == Init /\ [][Next]_vars
=============================================================================
