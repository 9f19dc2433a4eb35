------------------------------- MODULE MCPlans -------------------------------
(***************************************************************************)
(* Balance and CpuPlanner on small instances.  They do not interact: a     *)
(* behaviour is one of either, as `part' says.                             *)
(***************************************************************************)
EXTENDS Balance, CpuPlanner, TLC

VARIABLE part

allVars == <<part, balanceVars, vars>>

----------------------------------------------------------------------------
\* Balance: three items and three bins.
MCItems == 1..3
MCBins == 0..2

\* CpuPlanner: node 11 in node 10, router 20 in node 11 and router 21 on top; two
\* devices on the first, one on the second, and one entered by hand under node 10.
MCNodes == {10, 11}
MCParent == (10 :> 0) @@ (11 :> 10)
MCHome == (20 :> 11) @@ (21 :> 0)
MCRouterOf == (1 :> 20) @@ (2 :> 20) @@ (3 :> 21) @@ (4 :> 0)
MCWanted == (1 :> <<>>) @@ (2 :> <<>>) @@ (3 :> <<>>) @@ (4 :> <<"node", 10>>)
MCRates == (1 :> {4}) @@ (2 :> {1}) @@ (3 :> {4}) @@ (4 :> {1})

----------------------------------------------------------------------------
PlansInit ==
  /\ part \in {"balance", "planner"}
  /\ BalanceInit
  /\ Init
  /\ part # "planner" => bins = CHOOSE n \in BinCounts : TRUE

PlansNext ==
  \/ part = "balance" /\ BalanceNext /\ UNCHANGED <<part, vars>>
  \/ part = "planner" /\ Next /\ UNCHANGED <<part, balanceVars>>

PlansFairness ==
  /\ WF_allVars(part = "balance" /\ (Place \/ AllPlaced \/ Move \/ MovesDone) /\ UNCHANGED <<part, vars>>)
  /\ WF_allVars(part = "planner" /\ Replan /\ UNCHANGED <<part, balanceVars>>)

PlansSpec == PlansInit /\ [][PlansNext]_allVars /\ PlansFairness

\* The type invariants of both.
PlansTypeOK == BalanceTypeOK /\ TypeOK
=============================================================================
