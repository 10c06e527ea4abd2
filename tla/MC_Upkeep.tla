------------------------------- MODULE MC_Upkeep -------------------------------
(***************************************************************************)
(* The periodic work of the service in one run: the election of the scheduler's *)
(* leader, the tokens it keeps fresh and the traffic figures it collects.  The  *)
(* modules share no variable, so whatever one of them can do beside the others   *)
(* it can do while they stand still: part chooses which moves.                *)
(***************************************************************************)
EXTENDS SchedulerLeader, OAuthTokens, TrafficSync

VARIABLE part

mcVars == <<part, leaderVars, tokenVars, trafficVars>>

MCInit ==
  /\ part \in {"leader", "tokens", "traffic"}
  /\ LeaderInit({}) /\ TokenInit /\ TrafficInit
  /\ part # "tokens" => leading = CHOOSE p \in TokenProcs : TRUE
  /\ part # "traffic" => chief = CHOOSE p \in TrafficProcs : TRUE

MCLeader ==
  part = "leader" /\ LeaderNext /\ UNCHANGED <<part, tokenVars, trafficVars>>

MCTokens ==
  part = "tokens" /\ TokenNext /\ UNCHANGED <<part, leaderVars, trafficVars>>

MCTraffic ==
  part = "traffic" /\ TrafficNext /\ UNCHANGED <<part, leaderVars, tokenVars>>

MCNext == MCLeader \/ MCTokens \/ MCTraffic

(* The fairness of the three modules.  Where the tokens stand still nothing of  *)
(* them is enabled, except that time passes: that alone names the part.       *)
MCFairness ==
  /\ LeaderFairness /\ TokenProgress /\ TrafficFairness
  /\ SF_tokenVars(part = "tokens" /\ Advance)

MCSpec == MCInit /\ [][MCNext]_mcVars /\ MCFairness

(* The type invariants of the three modules.                                *)
TypesOK == LeaderTypeOK /\ TokenTypeOK /\ TrafficTypeOK
=============================================================================
