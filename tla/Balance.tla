------------------------------ MODULE Balance ------------------------------
(***************************************************************************)
(* How devices are spread over the WANs, and devices or subtrees over the  *)
(* CPU nodes: three loops of the same shape.                               *)
(*                                                                         *)
(*   "wan"      WANManager.assign_wan_nodes and _rebalance_moves           *)
(*   "cpu"      NodeAssigner._assign_cpu_nodes and _cpu_rebalance_moves    *)
(*   "planner"  cpu_planner._Planner.pack and rebalance_moves              *)
(*                                                                         *)
(* Each first places the items that have no bin, heaviest first, on the    *)
(* bin with the least load, and then moves as few as possible from the     *)
(* busiest bin to the lightest.  A step places or moves one item.  Rates   *)
(* are whole Mbps; utilizations and ratios are compared without division.  *)
(* Only the planner pins items and limits the number of moves, and only    *)
(* WANs have a capacity.                                                   *)
(***************************************************************************)
EXTENDS Naturals, Integers, FiniteSets, Functions

CONSTANTS
  Items, Bins,   \* numbers: codes and names in their order
  Loads,         \* what an item may weigh
  Capacities,    \* what a WAN may carry, nothing included
  EvenNum, EvenDen,  \* the ratio that is tolerated
  MoveLimit,     \* the planner's move budget
  Nowhere        \* the bin of an item that has none

Algorithms == {"wan", "cpu", "planner"}

ASSUME BalanceConstants ==
  /\ Items \subseteq Nat /\ IsFiniteSet(Items)
  /\ Bins \subseteq Nat /\ IsFiniteSet(Bins) /\ Bins # {} /\ Nowhere \notin Bins
  /\ Loads \subseteq Nat /\ Capacities \subseteq Nat
  /\ EvenNum \in Nat /\ EvenDen \in Nat /\ EvenNum >= EvenDen /\ EvenDen > 0
  /\ MoveLimit \in Nat

VARIABLES
  algorithm,
  stage,    \* how far the run has got
  load,     \* load[i]: what the item weighs, both directions together
  cap,      \* cap[b]: the limits of the WAN, 1 for a CPU
  pinned,   \* items the operator has pinned to their bin
  bin,      \* bin[i]: where it is
  used,     \* used[b]: the load of the bin, kept up to date as items move
  fresh,    \* items placed in this run
  shifted   \* items moved in this run

input == <<algorithm, load, cap, pinned>>
balanceVars == <<algorithm, stage, load, cap, pinned, bin, used, fresh, shifted>>

----------------------------------------------------------------------------
Total(l, S) == SumFunctionOnSet(l, S)
Members(b) == {i \in Items : bin[i] = b}

\* _utilization(b) < _utilization(c); that of a WAN without capacity is infinite.
LessUsed(b, c) == \/ cap[c] = 0 /\ cap[b] > 0
                  \/ cap[c] > 0 /\ cap[b] > 0 /\ used[b] * cap[c] < used[c] * cap[b]

\* _rebalance_moves leaves WANs without capacity out.
Usable == {b \in Bins : cap[b] > 0}

Weightier(i, j) == load[i] > load[j] \/ (load[i] = load[j] /\ i < j)

\* The loads that would even the two out, times (cap[hi] + cap[lo]).
Gap(hi, lo) == used[hi] * cap[lo] - used[lo] * cap[hi]

Tolerated(hi, lo) ==
  \/ used[hi] = 0
  \/ used[lo] > 0 /\ used[hi] * cap[lo] * EvenDen <= used[lo] * cap[hi] * EvenNum

----------------------------------------------------------------------------
\* The input of an assignment: what is stored for the devices, or what the last
\* plan says of the items.
Choose(alg, l, c, p, b) ==
  /\ algorithm' = alg /\ load' = l /\ cap' = c /\ pinned' = p /\ bin' = b
  /\ used' = [x \in Bins |-> Total(l, {i \in Items : b[i] = x})]
  /\ stage' = "place"
  /\ UNCHANGED <<fresh, shifted>>

Ones == [b \in Bins |-> 1]

Input ==
  /\ stage = "input"
  /\ \E l \in [Items -> Loads], b \in [Items -> Bins \cup {Nowhere}] :
       \/ \E c \in [Bins -> Capacities] : Choose("wan", l, c, {}, b)
       \/ Choose("cpu", l, Ones, {}, b)
       \/ \E p \in SUBSET {i \in Items : b[i] # Nowhere} : Choose("planner", l, Ones, p, b)

New == Members(Nowhere)

\* heapq: the least (load, number of members for the planner, index).
Before_slip(b, c) == LessUsed(b, c)
Before(b, c) ==
  \/ LessUsed(b, c)
  \/ /\ ~LessUsed(c, b)
     /\ LET nb == Cardinality(Members(b))
            nc == Cardinality(Members(c))
        IN  IF algorithm = "planner" /\ nb # nc THEN nb < nc ELSE b < c
Emptiest_slip(b) == \A c \in Bins \ {b} : Before(c, b)
Emptiest(b) == \A c \in Bins \ {b} : Before(b, c)

LastNew_slip(i) == TRUE
LastNew(i) == New = {i}

\* WANs are not rebalanced in a run that places new devices.
Place ==
  /\ stage = "place"
  /\ \E i \in New, b \in Bins :
       /\ \A j \in New \ {i} : Weightier(i, j)
       /\ Emptiest(b)
       /\ bin' = [bin EXCEPT ![i] = b]
       /\ used' = [used EXCEPT ![b] = @ + load[i]]
       /\ fresh' = fresh \cup {i}
       /\ stage' = IF algorithm = "wan" /\ LastNew(i) THEN "done" ELSE "place"
  /\ UNCHANGED <<input, shifted>>

AllPlaced ==
  /\ stage = "place"
  /\ New = {}
  /\ stage' = "move"
  /\ UNCHANGED <<input, bin, used, fresh, shifted>>

----------------------------------------------------------------------------
\* max() and min() take the first of equals.
MostUsed(b, S) == b \in S /\ \A c \in S \ {b} : LessUsed(c, b) \/ (~LessUsed(b, c) /\ b < c)
LeastUsed(b, S) == b \in S /\ \A c \in S \ {b} : LessUsed(b, c) \/ (~LessUsed(c, b) /\ b < c)

\* "wan" and "cpu": the heaviest that does not flip the imbalance, among the items
\* that were there before this run.
Unmoved(hi) == (Members(hi) \ fresh) \ shifted
Fits_slip(i, hi, lo) == load[i] <= used[hi]
Fits(i, hi, lo) == load[i] * (cap[hi] + cap[lo]) <= Gap(hi, lo)

Pick(i, hi, lo) ==
  /\ MostUsed(hi, Usable) /\ LeastUsed(lo, Usable) /\ hi # lo
  /\ ~Tolerated(hi, lo)
  /\ i \in Unmoved(hi) /\ Fits(i, hi, lo)
  /\ \A j \in Unmoved(hi) : Fits(j, hi, lo) /\ j # i => Weightier(i, j)

\* "planner": the busiest bin with an item to give, the item closest to half the gap.
Movable(b) == (Members(b) \ shifted) \ pinned
ToGive(hi, lo) == {i \in Movable(hi) : 0 < load[i] /\ load[i] < used[hi] - used[lo]}
Distance(i, hi, lo) == LET d == 2 * load[i] - (used[hi] - used[lo]) IN IF d < 0 THEN -d ELSE d

PlannerPick(i, hi, lo) ==
  /\ Cardinality(shifted) < MoveLimit
  /\ LeastUsed(lo, Bins) /\ hi # lo
  /\ ~Tolerated(hi, lo)
  /\ \A b \in Bins : MostUsed(b, {b, hi}) /\ b # hi => ToGive(b, lo) = {}
  /\ i \in ToGive(hi, lo)
  /\ \A j \in ToGive(hi, lo) \ {i} :
       Distance(i, hi, lo) < Distance(j, hi, lo) \/ (Distance(i, hi, lo) = Distance(j, hi, lo) /\ i < j)

Picks(i, hi, lo) == IF algorithm = "planner" THEN PlannerPick(i, hi, lo) ELSE Pick(i, hi, lo)

Taken_slip(i, hi, lo) == [used EXCEPT ![lo] = @ + load[i]]
Taken(i, hi, lo) == [used EXCEPT ![hi] = @ - load[i], ![lo] = @ + load[i]]

Move == \E i \in Items, hi, lo \in Bins :
  /\ stage = "move"
  /\ Picks(i, hi, lo)
  /\ bin' = [bin EXCEPT ![i] = lo]
  /\ used' = Taken(i, hi, lo)
  /\ shifted' = shifted \cup {i}
  /\ UNCHANGED <<input, stage, fresh>>

MovesDone ==
  /\ stage = "move"
  /\ ~\E i \in Items, hi, lo \in Bins : Picks(i, hi, lo)
  /\ stage' = "done"
  /\ UNCHANGED <<input, bin, used, fresh, shifted>>

BalanceInit ==
  /\ algorithm = "wan" /\ stage = "input"
  /\ load = [i \in Items |-> 0] /\ cap = Ones
  /\ pinned = {} /\ bin = [i \in Items |-> Nowhere]
  /\ used = [b \in Bins |-> 0] /\ fresh = {} /\ shifted = {}

BalanceNext == Input \/ Place \/ AllPlaced \/ Move \/ MovesDone

BalanceSpec == BalanceInit /\ [][BalanceNext]_balanceVars

\* The loops run to their end.
FairBalanceSpec == BalanceSpec /\ WF_balanceVars(Place \/ AllPlaced \/ Move \/ MovesDone)

----------------------------------------------------------------------------
\* Properties

BalanceTypeOK ==
  /\ algorithm \in Algorithms /\ stage \in {"input", "place", "move", "done"}
  /\ load \in [Items -> Nat] /\ cap \in [Bins -> Nat] /\ used \in [Bins -> Nat]
  /\ bin \in [Items -> Bins \cup {Nowhere}]
  /\ pinned \subseteq Items /\ fresh \subseteq Items /\ shifted \subseteq Items
  /\ stage \in {"move", "done"} => New = {}

\* The loads the loops decide by, updated item by item, are those of the items
\* assigned so far.
LoadsAgree == \A b \in Bins : used[b] = Total(load, Members(b))

\* Greedy placement stays tight: without any of the items it got, a bin would carry
\* no more than each other bin does (in proportion to the WANs' capacities), however
\* uneven the bins were before.
PlacedTight == stage = "place" \/ (stage = "done" /\ algorithm = "wan") =>
  \A b, c \in Usable : \A i \in fresh :
    bin[i] = b => (used[b] - load[i]) * cap[c] <= used[c] * cap[b]

\* "Moving more than this only flips the imbalance": a move relieves the busiest bin
\* without making it the lighter of the two, and the planner's at least leaves the
\* other below what the busiest was.
NoFlip == [][Move => \A hi, lo \in Bins : used'[hi] < used[hi] /\ used'[lo] > used[lo] =>
  IF algorithm = "planner" THEN used'[lo] < used[hi]
  ELSE used'[lo] * cap[hi] <= used'[hi] * cap[lo]]_balanceVars

\* A run ends, with devices that weigh nothing and WANs without capacity too.
RunEnds == stage # "input" ~> stage = "done"
============================================================================
