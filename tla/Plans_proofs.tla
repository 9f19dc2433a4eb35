------------------------------ MODULE Plans_proofs ------------------------------
(***************************************************************************)
(* Balancing, for any items, bins, loads and capacities: the loads the     *)
(* loops decide by are the real ones, the placement is tight, no move      *)
(* flips the imbalance.  Then the CPU planner, for any tree of nodes, any  *)
(* devices, rates and number of CPUs: what it emits is a tree on the CPUs  *)
(* there are, and no CPU is filled above the water level.                  *)
(***************************************************************************)
EXTENDS MCPlans, InductionLemmas

\* Those placed so far weigh no less than those to come.
HeaviestFirst == stage = "place" => \A j \in fresh, i \in New : load[j] >= load[i]

\* A run that places devices does not move any.
WanStages ==
  /\ stage = "input" => fresh = {}
  /\ algorithm = "wan" /\ stage = "place" /\ fresh # {} => New # {}
  /\ algorithm = "wan" /\ stage = "move" => fresh = {}

BalanceInv == BalanceTypeOK /\ LoadsAgree /\ HeaviestFirst /\ WanStages /\ PlacedTight

LEMMA ProductGrows == \A x, y, z \in Nat : x <= y => x * z <= y * z
  OBVIOUS

LEMMA TotalType ==
  ASSUME NEW l \in [Items -> Nat], NEW S \in SUBSET Items
  PROVE  Total(l, S) \in Nat
  BY SumType, BalanceConstants DEF Total

LEMMA TotalEmpty == \A l : Total(l, {}) = 0
  BY SumOne, FS_EmptySet DEF Total

LEMMA TotalAdd ==
  ASSUME NEW l \in [Items -> Nat], NEW S \in SUBSET Items, NEW i \in Items \ S
  PROVE  Total(l, S \cup {i}) = Total(l, S) + l[i]
<1>1. IsFiniteSet(Items)
  BY BalanceConstants
<1>2. SumFunctionOnSet(l, S \cup {i}) = SumFunctionOnSet(l, S) + l[i]
  BY <1>1, SumAdd
<1> QED
  BY <1>2 DEF Total

LEMMA TotalRemove ==
  ASSUME NEW l \in [Items -> Nat], NEW S \in SUBSET Items, NEW i \in S
  PROVE  Total(l, S \ {i}) = Total(l, S) - l[i] /\ Total(l, S \ {i}) \in Nat
<1>1. Total(l, S) = l[i] + Total(l, S \ {i})
  <2>1. IsFiniteSet(Items)
    BY BalanceConstants
  <2>2. SumFunctionOnSet(l, S) = l[i] + SumFunctionOnSet(l, S \ {i})
    BY <2>1, SumTake
  <2> QED
    BY <2>2 DEF Total
<1>2. Total(l, S \ {i}) \in Nat
  BY TotalType
<1> QED
  BY <1>1, <1>2

LEMMA BalanceInvInit == BalanceInit => BalanceInv
<1> USE BalanceConstants
<1> SUFFICES ASSUME BalanceInit PROVE BalanceInv
  OBVIOUS
<1>1. \A b \in Bins : Members(b) = {}
  BY DEF BalanceInit, Members
<1>2. LoadsAgree
  BY <1>1, TotalEmpty DEF BalanceInit, LoadsAgree
<1>3. BalanceTypeOK
  BY DEF BalanceInit, BalanceTypeOK, Ones, Algorithms
<1> QED
  BY <1>2, <1>3 DEF BalanceInit, BalanceInv, HeaviestFirst, WanStages, PlacedTight

\* Whatever is stored, the loads are added up from it.
LEMMA InputKeeps ==
  ASSUME BalanceInv, Input
  PROVE  BalanceInv'
<1> USE BalanceConstants
<1> PICK alg \in Algorithms, l \in [Items -> Loads], c \in [Bins -> Nat], p \in SUBSET Items,
         b \in [Items -> Bins \cup {Nowhere}] : Choose(alg, l, c, p, b)
  BY DEF Input, Ones, Algorithms
<1>1. /\ algorithm' = alg /\ load' = l /\ cap' = c /\ pinned' = p /\ bin' = b /\ stage' = "place"
      /\ used' = [x \in Bins |-> Total(l, {i \in Items : b[i] = x})]
      /\ UNCHANGED <<fresh, shifted>> /\ fresh = {}
  BY DEF Choose, Input, BalanceInv, WanStages
<1>2. l \in [Items -> Nat]
  OBVIOUS
<1>3. \A x \in Bins : Total(l, {i \in Items : b[i] = x}) \in Nat
  BY <1>2, TotalType
<1>4. BalanceTypeOK'
  BY <1>1, <1>2, <1>3 DEF BalanceInv, BalanceTypeOK
<1>5. LoadsAgree'
  BY <1>1 DEF LoadsAgree, Members
<1> QED
  BY <1>1, <1>4, <1>5 DEF BalanceInv, HeaviestFirst, WanStages, PlacedTight

\* An item more in a bin.
LEMMA PlaceLoads ==
  ASSUME BalanceInv, NEW i \in New, NEW b \in Bins,
         bin' = [bin EXCEPT ![i] = b], used' = [used EXCEPT ![b] = @ + load[i]], load' = load
  PROVE  LoadsAgree'
<1> USE BalanceConstants DEF BalanceInv, BalanceTypeOK
<1>1. i \in Items /\ bin[i] = Nowhere
  BY DEF New, Members
<1>2. \A c \in Bins \ {b} : Members(c)' = Members(c) /\ used'[c] = used[c]
  BY <1>1 DEF Members
<1>3. Members(b)' = Members(b) \cup {i} /\ i \notin Members(b) /\ used'[b] = used[b] + load[i]
  BY <1>1 DEF Members
<1>4. Total(load, Members(b) \cup {i}) = Total(load, Members(b)) + load[i]
  BY <1>1, <1>3, TotalAdd DEF Members
<1> QED
  BY <1>2, <1>3, <1>4 DEF LoadsAgree

\* The emptiest bin carries least for its capacity.
LEMMA EmptiestFacts ==
  ASSUME BalanceTypeOK, NEW b \in Usable, Emptiest(b), NEW c \in Usable
  PROVE  used[b] * cap[c] <= used[c] * cap[b]
<1>1. b \in Bins /\ c \in Bins /\ cap[b] \in Nat /\ cap[c] \in Nat /\ cap[b] > 0 /\ cap[c] > 0
      /\ used[b] \in Nat /\ used[c] \in Nat
  BY DEF Usable, BalanceTypeOK
<1>2. CASE b # c
  <2>1. LessUsed(b, c) \/ ~LessUsed(c, b)
    BY <1>1, <1>2 DEF Emptiest, Before
  <2>2. used[b] * cap[c] \in Nat /\ used[c] * cap[b] \in Nat
    BY <1>1
  <2> QED
    BY <1>1, <2>1, <2>2 DEF LessUsed
<1> QED
  BY <1>1, <1>2

LEMMA PlaceKeeps ==
  ASSUME BalanceInv, Place
  PROVE  BalanceInv'
<1> USE BalanceConstants
<1> PICK i \in New, b \in Bins :
      /\ \A j \in New \ {i} : Weightier(i, j)
      /\ Emptiest(b)
      /\ bin' = [bin EXCEPT ![i] = b]
      /\ used' = [used EXCEPT ![b] = @ + load[i]]
      /\ fresh' = fresh \cup {i}
      /\ stage' = IF algorithm = "wan" /\ LastNew(i) THEN "done" ELSE "place"
  BY DEF Place
<1>1. stage = "place" /\ UNCHANGED <<algorithm, load, cap, pinned, shifted>>
  BY DEF Place, input
<1>2. i \in Items /\ bin[i] = Nowhere /\ load \in [Items -> Nat] /\ used \in [Bins -> Nat] /\ cap \in [Bins -> Nat]
      /\ bin \in [Items -> Bins \cup {Nowhere}] /\ New \subseteq Items
  BY DEF New, Members, BalanceInv, BalanceTypeOK
<1>3. New' = New \ {i}
  BY <1>2 DEF New, Members
<1>4. LoadsAgree'
  BY <1>1, PlaceLoads
<1>5. BalanceTypeOK'
  <2>1. used' \in [Bins -> Nat] /\ bin' \in [Items -> Bins \cup {Nowhere}]
    BY <1>2
  <2>2. stage' = "done" => New' = {}
    BY <1>3 DEF LastNew
  <2> QED
    BY <1>1, <1>2, <2>1, <2>2 DEF BalanceInv, BalanceTypeOK
<1>6. \A j \in New \ {i} : load[i] >= load[j]
  BY <1>2 DEF Weightier
<1>7. HeaviestFirst'
  BY <1>1, <1>2, <1>3, <1>6 DEF BalanceInv, HeaviestFirst
<1>8. WanStages'
  BY <1>1, <1>3 DEF BalanceInv, WanStages, LastNew
<1>9. PlacedTight'
  <2> SUFFICES ASSUME NEW d \in Usable, NEW c \in Usable, NEW j \in fresh', bin'[j] = d
               PROVE  (used'[d] - load[j]) * cap[c] <= used'[c] * cap[d]
    BY <1>1 DEF PlacedTight, Usable
  <2>1. d \in Bins /\ c \in Bins /\ j \in Items /\ cap[d] \in Nat /\ cap[c] \in Nat
        /\ used[c] \in Nat /\ used[d] \in Nat /\ load[i] \in Nat /\ load[j] \in Nat
    BY <1>2 DEF Usable, BalanceInv, BalanceTypeOK
  <2>2. used[c] <= used'[c] /\ used'[c] \in Nat
    BY <1>2, <2>1
  <2>3. used[c] * cap[d] <= used'[c] * cap[d]
    BY <2>1, <2>2, ProductGrows
  <2>4. (used'[d] - load[j]) * cap[c] <= used[c] * cap[d]
    <3>1. CASE d = b
      <4>1. used'[d] = used[d] + load[i] /\ used[d] * cap[c] <= used[c] * cap[d]
        BY <1>2, <2>1, <3>1, EmptiestFacts DEF BalanceInv
      <4>2. load[i] <= load[j]
        BY <1>1, <2>1 DEF BalanceInv, HeaviestFirst
      <4>3. used'[d] - load[j] <= used[d] /\ used'[d] - load[j] \in Int
        BY <2>1, <4>1, <4>2
      <4>4. (used'[d] - load[j]) * cap[c] <= used[d] * cap[c]
        BY <2>1, <4>3
      <4> QED
        BY <2>1, <4>1, <4>3, <4>4
    <3>2. CASE d # b
      <4>1. j \in fresh /\ bin[j] = d /\ used'[d] = used[d]
        BY <1>2, <2>1, <3>2
      <4> QED
        BY <1>1, <4>1 DEF BalanceInv, PlacedTight
    <3> QED
      BY <3>1, <3>2
  <2>5. (used'[d] - load[j]) * cap[c] \in Int /\ used[c] * cap[d] \in Int /\ used'[c] * cap[d] \in Int
    BY <1>2, <2>1, <2>2
  <2> QED
    BY <2>3, <2>4, <2>5
<1> QED
  BY <1>4, <1>5, <1>7, <1>8, <1>9 DEF BalanceInv

LEMMA AllPlacedKeeps ==
  ASSUME BalanceInv, AllPlaced
  PROVE  BalanceInv'
<1>1. stage = "place" /\ New = {} /\ stage' = "move" /\ UNCHANGED <<algorithm, load, cap, pinned, bin, used, fresh, shifted>>
  BY DEF AllPlaced, input
<1>2. New' = New /\ \A b : Members(b)' = Members(b)
  BY <1>1 DEF New, Members
<1> QED
  BY <1>1, <1>2 DEF BalanceInv, BalanceTypeOK, LoadsAgree, HeaviestFirst, WanStages, PlacedTight

\* What a move takes is on the busier of the two, and weighs no more than what that carries.
LEMMA PickFacts ==
  ASSUME BalanceInv, NEW i \in Items, NEW hi \in Bins, NEW lo \in Bins, Picks(i, hi, lo)
  PROVE  /\ hi # lo /\ bin[i] = hi /\ load[i] <= used[hi]
         /\ algorithm = "planner" => used[lo] + load[i] < used[hi]
         /\ algorithm # "planner" => (used[lo] + load[i]) * cap[hi] <= (used[hi] - load[i]) * cap[lo]
<1>1. load[i] \in Nat /\ used[hi] \in Nat /\ used[lo] \in Nat /\ cap[hi] \in Nat /\ cap[lo] \in Nat
  BY DEF BalanceInv, BalanceTypeOK
<1>2. CASE algorithm = "planner"
  <2>1. hi # lo /\ i \in ToGive(hi, lo)
    BY <1>2 DEF Picks, PlannerPick
  <2>2. bin[i] = hi /\ load[i] < used[hi] - used[lo]
    BY <2>1 DEF ToGive, Movable, Members
  <2> QED
    BY <1>1, <1>2, <2>1, <2>2
<1>3. CASE algorithm # "planner"
  <2>1. hi # lo /\ i \in Unmoved(hi) /\ Fits(i, hi, lo) /\ lo \in Usable
    BY <1>3 DEF Picks, Pick, LeastUsed
  <2>2. bin[i] = hi /\ cap[lo] > 0
    BY <2>1 DEF Unmoved, Members, Usable
  <2>3. load[i] * (cap[hi] + cap[lo]) <= used[hi] * cap[lo] - used[lo] * cap[hi]
    BY <2>1 DEF Fits, Gap
  <2>4. /\ load[i] * (cap[hi] + cap[lo]) = load[i] * cap[hi] + load[i] * cap[lo]
        /\ (used[lo] + load[i]) * cap[hi] = used[lo] * cap[hi] + load[i] * cap[hi]
        /\ (used[hi] - load[i]) * cap[lo] = used[hi] * cap[lo] - load[i] * cap[lo]
        /\ load[i] * cap[hi] \in Nat /\ load[i] * cap[lo] \in Nat /\ used[hi] * cap[lo] \in Nat /\ used[lo] * cap[hi] \in Nat
    BY <1>1
  <2>5. (used[lo] + load[i]) * cap[hi] <= (used[hi] - load[i]) * cap[lo]
    BY <2>3, <2>4
  <2>6. load[i] * cap[lo] <= used[hi] * cap[lo]
    BY <2>3, <2>4
  <2>7. load[i] <= used[hi]
    <3> SUFFICES ASSUME used[hi] < load[i] PROVE FALSE
      BY <1>1
    <3>1. (used[hi] + 1) * cap[lo] <= load[i] * cap[lo]
      BY <1>1, ProductGrows
    <3>2. (used[hi] + 1) * cap[lo] = used[hi] * cap[lo] + cap[lo]
      BY <1>1
    <3> QED
      BY <1>1, <2>2, <2>4, <2>6, <3>1, <3>2
  <2> QED
    BY <1>3, <2>1, <2>2, <2>5, <2>7
<1> QED
  BY <1>2, <1>3

LEMMA MoveKeeps ==
  ASSUME BalanceInv, Move
  PROVE  BalanceInv'
<1> USE BalanceConstants
<1> PICK i \in Items, hi \in Bins, lo \in Bins :
      /\ stage = "move"
      /\ Picks(i, hi, lo)
      /\ bin' = [bin EXCEPT ![i] = lo]
      /\ used' = Taken(i, hi, lo)
      /\ shifted' = shifted \cup {i}
      /\ UNCHANGED <<input, stage, fresh>>
  BY DEF Move
<1>1. UNCHANGED <<algorithm, load, cap, pinned, stage, fresh>>
  BY DEF input
<1>2. hi # lo /\ bin[i] = hi /\ load[i] <= used[hi]
  BY PickFacts
<1>3. load \in [Items -> Nat] /\ used \in [Bins -> Nat] /\ bin \in [Items -> Bins \cup {Nowhere}]
  BY DEF BalanceInv, BalanceTypeOK
<1>4. /\ used'[hi] = used[hi] - load[i] /\ used'[lo] = used[lo] + load[i]
      /\ \A b \in Bins \ {hi, lo} : used'[b] = used[b]
      /\ used' \in [Bins -> Nat]
  BY <1>2, <1>3 DEF Taken
<1>5. /\ Members(hi)' = Members(hi) \ {i} /\ i \in Members(hi)
      /\ Members(lo)' = Members(lo) \cup {i} /\ i \notin Members(lo)
      /\ \A b \in Bins \ {hi, lo} : Members(b)' = Members(b)
  BY <1>2, <1>3 DEF Members
<1>6. LoadsAgree'
  <2>1. Total(load, Members(hi) \ {i}) = Total(load, Members(hi)) - load[i]
    BY <1>3, <1>5, TotalRemove DEF Members
  <2>2. Total(load, Members(lo) \cup {i}) = Total(load, Members(lo)) + load[i]
    BY <1>3, <1>5, TotalAdd DEF Members
  <2> QED
    BY <1>1, <1>4, <1>5, <2>1, <2>2 DEF BalanceInv, LoadsAgree
<1>7. New' \subseteq New
  BY <1>3 DEF New, Members
<1>8. BalanceTypeOK'
  BY <1>1, <1>3, <1>4, <1>7 DEF BalanceInv, BalanceTypeOK
<1> QED
  BY <1>1, <1>6, <1>8 DEF BalanceInv, HeaviestFirst, WanStages, PlacedTight

LEMMA BalanceInvStep == BalanceInv /\ [BalanceNext]_balanceVars => BalanceInv'
<1> SUFFICES ASSUME BalanceInv, [BalanceNext]_balanceVars PROVE BalanceInv'
  OBVIOUS
<1>1. ASSUME stage' \in {stage, "done"}, stage \in {"move", "done"}, UNCHANGED <<algorithm, load, cap, pinned, bin, used, fresh, shifted>>
      PROVE  BalanceInv'
  <2>1. New' = New /\ \A b : Members(b)' = Members(b)
    BY <1>1 DEF New, Members
  <2> QED
    BY <1>1, <2>1 DEF BalanceInv, BalanceTypeOK, LoadsAgree, HeaviestFirst, WanStages, PlacedTight, Usable
<1>2. CASE MovesDone
  BY <1>1, <1>2 DEF MovesDone, input
<1>3. CASE UNCHANGED balanceVars
  <2>1. New' = New /\ \A b : Members(b)' = Members(b)
    BY <1>3 DEF New, Members, balanceVars
  <2> QED
    BY <1>3, <2>1 DEF balanceVars, BalanceInv, BalanceTypeOK, LoadsAgree, HeaviestFirst, WanStages, PlacedTight, Usable
<1> QED
  BY <1>2, <1>3, InputKeeps, PlaceKeeps, AllPlacedKeeps, MoveKeeps DEF BalanceNext

\* The loads the loops decide by, updated item by item as it is placed or moved, are
\* those of the items in the bin, for all three algorithms.
THEOREM LoadsAreReal == BalanceSpec => []LoadsAgree
<1>1. BalanceInv => LoadsAgree
  BY DEF BalanceInv
<1> QED
  BY BalanceInvInit, BalanceInvStep, <1>1, PTL DEF BalanceSpec

\* Without any item it got in this run, a bin would carry no more, for its capacity,
\* than each other bin does, however uneven they were before.
THEOREM PlacementIsTight == BalanceSpec => []PlacedTight
<1>1. BalanceInv => PlacedTight
  BY DEF BalanceInv
<1> QED
  BY BalanceInvInit, BalanceInvStep, <1>1, PTL DEF BalanceSpec

\* A move never makes the busiest bin the lighter of the two.
THEOREM MovesDoNotFlip == BalanceSpec => NoFlip
<1> DEFINE Relieves == Move => \A hi, lo \in Bins : used'[hi] < used[hi] /\ used'[lo] > used[lo] =>
             IF algorithm = "planner" THEN used'[lo] < used[hi]
             ELSE used'[lo] * cap[hi] <= used'[hi] * cap[lo]
<1>1. BalanceInv => Relieves
  <2> SUFFICES ASSUME BalanceInv, Move, NEW h \in Bins, NEW k \in Bins, used'[h] < used[h], used'[k] > used[k]
               PROVE  IF algorithm = "planner" THEN used'[k] < used[h]
                      ELSE used'[k] * cap[h] <= used'[h] * cap[k]
    OBVIOUS
  <2> PICK i \in Items, hi \in Bins, lo \in Bins : Picks(i, hi, lo) /\ used' = Taken(i, hi, lo)
    BY DEF Move
  <2>1. /\ load[i] \in Nat /\ used \in [Bins -> Nat]
        /\ hi # lo /\ load[i] <= used[hi]
    BY PickFacts DEF BalanceInv, BalanceTypeOK
  <2>2. /\ used'[hi] = used[hi] - load[i] /\ used'[lo] = used[lo] + load[i]
        /\ \A b \in Bins \ {hi, lo} : used'[b] = used[b]
    BY <2>1 DEF Taken
  <2>3. h = hi /\ k = lo
    BY <2>1, <2>2
  <2> QED
    BY <2>2, <2>3, PickFacts
<1>2. BalanceInv => [Relieves]_balanceVars
  BY <1>1
<1> QED
  BY BalanceInvInit, BalanceInvStep, <1>2, PTL DEF BalanceSpec, NoFlip

-----------------------------------------------------------------------------
\* The tree of nodes
Up(f, x) == IF Parent[x] = Top THEN {} ELSE {Parent[x]} \cup f[Parent[x]]

\* What holds of a node when it holds of the node it lies in holds of every node.
LEMMA TreeInduction ==
  ASSUME NEW G, \A x \in Nodes : Parent[x] = Top \/ Parent[x] \in G => x \in G
  PROVE  \A x \in Nodes : x \in G
<1> PICK depth \in [Nodes -> 0 .. Cardinality(Nodes)] : \A x \in Nodes :
       Parent[x] = Top \/ (Parent[x] \in Nodes /\ depth[Parent[x]] < depth[x])
  BY PlannerConstants
<1> SUFFICES ASSUME NEW z \in Nodes, z \notin G PROVE FALSE
  OBVIOUS
<1> DEFINE D == {depth[x] : x \in Nodes \ G}
<1>1. depth \in [Nodes -> Nat]
  <2>1. Cardinality(Nodes) \in Nat
    BY FS_CardinalityType, PlannerConstants
  <2> QED
    BY <2>1
<1>2. D \in SUBSET Nat /\ D # {}
  BY <1>1
<1>3. PICK n \in D : \A k \in D : n <= k
  <2> HIDE DEF D
  <2> QED
    BY <1>2, LeastNatural
<1>4. PICK x \in Nodes \ G : n = depth[x]
  BY <1>3
<1>5. Parent[x] \in Nodes \ G /\ depth[Parent[x]] < depth[x]
  BY <1>4
<1>6. depth[Parent[x]] \in D /\ depth[Parent[x]] \in Nat /\ depth[x] \in Nat
  BY <1>1, <1>5
<1> HIDE DEF D
<1>7. n <= depth[Parent[x]]
  BY <1>3, <1>6
<1> QED
  BY <1>4, <1>5, <1>6, <1>7

\* Ancestors is well defined: the tree is finite.
LEMMA AncestorsAre ==
  \A x \in Nodes : Ancestors[x] = Up(Ancestors, x)
<1> DEFINE Is(f) == f = [x \in Nodes |-> Up(f, x)]
<1> PICK depth \in [Nodes -> 0 .. Cardinality(Nodes)] : \A x \in Nodes :
       Parent[x] = Top \/ (Parent[x] \in Nodes /\ depth[Parent[x]] < depth[x])
  BY PlannerConstants
<1>1. Cardinality(Nodes) \in Nat /\ depth \in [Nodes -> Nat]
  <2>1. Cardinality(Nodes) \in Nat
    BY FS_CardinalityType, PlannerConstants
  <2> QED
    BY <2>1
<1> DEFINE T == {n \in Nat : \E f : \A x \in Nodes : depth[x] < n => f[x] = Up(f, x)}
<1>2. 0 \in T
  <2>1. \A x \in Nodes : ~(depth[x] < 0)
    BY <1>1
  <2> QED
    BY <2>1
<1>3. ASSUME NEW n \in T PROVE n + 1 \in T
  <2> PICK f : \A x \in Nodes : depth[x] < n => f[x] = Up(f, x)
    BY <1>3
  <2> DEFINE g == [x \in Nodes |-> Up(f, x)]
  <2>1. ASSUME NEW x \in Nodes, depth[x] < n + 1 PROVE g[x] = Up(g, x)
    <3>1. g[x] = Up(f, x)
      OBVIOUS
    <3>2. CASE Parent[x] # Top
      <4>1. Parent[x] \in Nodes /\ depth[Parent[x]] < n
        BY <1>1, <1>3, <2>1, <3>2
      <4>2. g[Parent[x]] = Up(f, Parent[x]) /\ f[Parent[x]] = Up(f, Parent[x])
        BY <4>1
      <4> HIDE DEF g
      <4> QED
        BY <3>1, <3>2, <4>2 DEF Up
    <3>3. CASE Parent[x] = Top
      BY <3>1, <3>3 DEF Up
    <3> QED
      BY <3>2, <3>3
  <2> HIDE DEF g
  <2>2. n + 1 \in Nat
    BY <1>3
  <2> QED
    BY <2>1, <2>2
<1>4. T = Nat
  <2>1. T \in SUBSET Nat
    OBVIOUS
  <2> HIDE DEF T
  <2> QED
    BY <1>2, <1>3, <2>1, NaturalsBySuccessor
<1>5. PICK f : \A x \in Nodes : depth[x] < Cardinality(Nodes) + 1 => f[x] = Up(f, x)
  <2>1. Cardinality(Nodes) + 1 \in T
    BY <1>1, <1>4
  <2> QED
    BY <2>1
<1>6. \A x \in Nodes : f[x] = Up(f, x)
  BY <1>1, <1>5
<1>7. \E g : Is(g)
  <2> DEFINE g == [x \in Nodes |-> Up(f, x)]
  <2>1. \A x \in Nodes : g[x] = f[x]
    BY <1>6
  <2>2. \A x \in Nodes : Up(g, x) = Up(f, x)
    <3> HIDE DEF g
    <3> QED
      BY <2>1 DEF Up
  <2>3. g = [x \in Nodes |-> Up(g, x)]
    <3>1. [x \in Nodes |-> Up(f, x)] = [x \in Nodes |-> Up(g, x)]
      <4> HIDE DEF g
      <4> QED
        BY <2>2
    <3> QED
      BY <3>1, Zenon
  <2> QED
    BY <2>3, Zenon
<1>8. Ancestors = CHOOSE g : Is(g)
  BY Zenon DEF Ancestors, Up
<1>9. Ancestors = [x \in Nodes |-> Up(Ancestors, x)]
  <2> HIDE DEF Is
  <2>1. Is(Ancestors)
    BY <1>7, <1>8, Zenon
  <2> QED
    BY <2>1 DEF Is
<1> QED
  <2> SUFFICES ASSUME NEW x \in Nodes PROVE Ancestors[x] = Up(Ancestors, x)
    OBVIOUS
  <2>1. [y \in Nodes |-> Up(Ancestors, y)][x] = Up(Ancestors, x)
    OBVIOUS
  <2> QED
    BY <1>9, <2>1, Zenon

\* What is dissolved is dissolved from the top.
Dissolved(s) == \A x \in s : Parent[x] = Top \/ Parent[x] \in s

LEMMA PromotedIsDissolved == Promoted \subseteq Nodes /\ Dissolved(Promoted)
<1>1. Promoted \subseteq Nodes
  BY DEF Promoted, Promotable
<1>2. ASSUME NEW x \in Promoted, Parent[x] # Top PROVE Parent[x] \in Promoted
  <2>1. Ancestors[x] = {Parent[x]} \cup Ancestors[Parent[x]]
    BY <1>1, <1>2, AncestorsAre DEF Up
  <2> QED
    BY <2>1 DEF Promoted
<1> QED
  BY <1>1, <1>2 DEF Dissolved

LEMMA DissolvedAncestors ==
  ASSUME NEW s \in SUBSET Nodes, Dissolved(s)
  PROVE  \A x \in s : Ancestors[x] \subseteq s
<1> DEFINE G == {x \in Nodes : x \in s => Ancestors[x] \subseteq s}
<1>1. \A x \in Nodes : Parent[x] = Top \/ Parent[x] \in G => x \in G
  BY AncestorsAre DEF Up, Dissolved
<1> HIDE DEF G
<1>2. \A x \in Nodes : x \in G
  BY <1>1, TreeInduction
<1> QED
  BY <1>2 DEF G

\* The whole node that a node is placed with.
LEMMA WholeNodes ==
  Wholes \cap Nodes = {x \in Nodes \ promoted : Parent[x] = Top \/ Parent[x] \in promoted}
  BY PlannerConstants DEF Wholes

LEMMA HolderOfWhole ==
  ASSUME promoted \subseteq Nodes, Dissolved(promoted), NEW x \in Wholes \cap Nodes
  PROVE  Holder(x) = x
<1>1. \A y \in Ancestors[x] : y \in promoted
  BY AncestorsAre, DissolvedAncestors, WholeNodes DEF Up
<1>2. \A y \in Wholes \cap Nodes : x \in Below(y) <=> y = x
  BY <1>1, WholeNodes DEF Below
<1> QED
  BY <1>2, Zenon DEF Holder

LEMMA HolderOfNested ==
  ASSUME NEW x \in Nodes \ promoted, x \notin Wholes
  PROVE  Parent[x] \in Nodes \ promoted /\ Holder(x) = Holder(Parent[x])
<1>1. Parent[x] \in Nodes \ promoted /\ Parent[x] # Top
  BY WholeNodes, PlannerConstants
<1>2. \A y \in Wholes \cap Nodes : x \in Below(y) <=> Parent[x] \in Below(y)
  BY <1>1, AncestorsAre DEF Below, Up
<1> QED
  BY <1>1, <1>2, Zenon DEF Holder

LEMMA HolderIsWhole ==
  ASSUME promoted \subseteq Nodes, NEW x \in Nodes \ promoted
  PROVE  Holder(x) \in Wholes \cap Nodes
<1> DEFINE G == {y \in Nodes : y \notin promoted => \E z \in Wholes \cap Nodes : y \in Below(z)}
<1>1. ASSUME NEW y \in Nodes, Parent[y] = Top \/ Parent[y] \in G PROVE y \in G
  <2> SUFFICES ASSUME y \notin promoted PROVE \E z \in Wholes \cap Nodes : y \in Below(z)
    OBVIOUS
  <2>1. CASE y \in Wholes
    BY <2>1 DEF Below
  <2>2. CASE y \notin Wholes
    <3>1. Parent[y] \in Nodes \ promoted /\ Parent[y] # Top
      BY <2>2, WholeNodes, PlannerConstants
    <3>2. PICK z \in Wholes \cap Nodes : Parent[y] \in Below(z)
      BY <1>1, <3>1
    <3>3. y \in Below(z)
      BY <3>1, <3>2, AncestorsAre DEF Below, Up
    <3> QED
      BY <3>3
  <2> QED
    BY <2>1, <2>2
<1> HIDE DEF G
<1>2. x \in G
  BY <1>1, TreeInduction
<1>3. \E z \in Wholes \cap Nodes : x \in Below(z)
  BY <1>2 DEF G
<1> QED
  BY <1>3, Zenon DEF Holder

-----------------------------------------------------------------------------
\* Loads
Things == Nodes \cup Routers \cup Devices

LEMMA ThingsFinite == IsFiniteSet(Things) /\ \A S \in SUBSET Things : IsFiniteSet(S)
<1>1. IsFiniteSet(Nodes) /\ IsFiniteSet(Routers) /\ IsFiniteSet(Devices)
  BY PlannerConstants
<1>2. IsFiniteSet(Things)
  BY <1>1, FS_Union DEF Things
<1> QED
  BY <1>2, FS_Subset

\* What is packed and what may be: devices that wait are not loose, and neither is an item.
LEMMA WhatIsPacked ==
  ASSUME promoted \subseteq Nodes, split \subseteq Routers
  PROVE  /\ Wholes \subseteq Nodes \cup Routers
         /\ Loose \subseteq Active /\ ToSpread \subseteq Active /\ Active \subseteq Devices
         /\ Loose \cap ToSpread = {} /\ Wholes \cap (Loose \cup ToSpread) = {}
<1>1. Wholes \subseteq Nodes \cup Routers
  BY DEF Wholes
<1>2. Active \subseteq Devices
  BY DEF Active
<1>3. \A r : OnRouter(r) \subseteq Active \ Placed
  BY DEF OnRouter
<1>4. ToSpread \subseteq Active \ Placed /\ \A d \in ToSpread : \E r \in Routers : d \in OnRouter(r)
  BY <1>3 DEF ToSpread
<1>5. \A x \in promoted : OnNode(x) \subseteq Active \cap Placed
  BY DEF OnNode, Placed
<1>6. Manual \subseteq Active /\ \A d \in Manual : \A r \in Routers : d \notin OnRouter(r)
  BY DEF Manual
<1>7. Loose \subseteq Active /\ Loose \cap ToSpread = {}
  BY <1>4, <1>5, <1>6 DEF Loose
<1>8. (Nodes \cup Routers) \cap Devices = {}
  BY PlannerConstants
<1> QED
  BY <1>1, <1>2, <1>4, <1>7, <1>8

LEMMA SumOfRates ==
  ASSUME rate \in [Devices -> Nat \cup {Absent}]
  PROVE  /\ [d \in Active |-> rate[d]] \in [Active -> Nat] /\ IsFiniteSet(Active)
         /\ \A S \in SUBSET Active : Sum(S) \in Nat
<1>1. [d \in Active |-> rate[d]] \in [Active -> Nat]
  BY DEF Active
<1>2. IsFiniteSet(Active)
  <2>1. Active \in SUBSET Devices /\ IsFiniteSet(Devices)
    BY PlannerConstants DEF Active
  <2> QED
    BY <2>1, FS_Subset
<1>3. \A S \in SUBSET Active : SumFunctionOnSet([d \in Active |-> rate[d]], S) \in Nat
  BY <1>1, <1>2, SumType
<1> QED
  BY <1>1, <1>2, <1>3 DEF Sum

LEMMA WeighType ==
  ASSUME rate \in [Devices -> Nat \cup {Absent}]
  PROVE  Weigh \in [Nodes \cup Routers \cup Active -> Nat] /\ \A d \in Active : Weigh[d] = rate[d]
<1>1. \A d \in Active : d \notin Nodes /\ d \notin Routers /\ rate[d] \in Nat
  BY PlannerConstants DEF Active
<1>2. \A r : OnRouter(r) \subseteq Active
  BY DEF OnRouter
<1>3. \A x : OnNode(x) \subseteq Active
  BY DEF OnNode
<1>4. \A x : In(x) \subseteq Active
  BY <1>2, <1>3 DEF In
<1>5. \A x : Sum(In(x)) \in Nat /\ Sum(OnRouter(x)) \in Nat
  BY <1>2, <1>4, SumOfRates
<1> QED
  BY <1>1, <1>5 DEF Weigh

LoadOf(a, w, b) == SumFunctionOnSet([i \in DOMAIN a |-> w[i]], {i \in DOMAIN a : a[i] = b})

LEMMA LoadIs == \A b : Load(b) = LoadOf(at, weight, b)
  BY DEF Load, LoadOf, There

LEMMA LoadType ==
  ASSUME NEW a, DOMAIN a \subseteq Things, NEW w, \A i \in DOMAIN a : w[i] \in Nat, NEW b
  PROVE  LoadOf(a, w, b) \in Nat
<1>1. IsFiniteSet(DOMAIN a)
  BY ThingsFinite
<1>2. [i \in DOMAIN a |-> w[i]] \in [DOMAIN a -> Nat]
  OBVIOUS
<1>3. \A S \in SUBSET DOMAIN a : SumFunctionOnSet([i \in DOMAIN a |-> w[i]], S) \in Nat
  BY <1>1, <1>2, SumType
<1> QED
  BY <1>3 DEF LoadOf

\* What is put on a CPU adds to its load, and to no other's.
LEMMA LoadWith ==
  ASSUME NEW a, DOMAIN a \subseteq Things, NEW i \in Things, NEW w, \A j \in DOMAIN a \cup {i} : w[j] \in Nat,
         NEW b, NEW c, i \in DOMAIN a => a[i] # c
  PROVE  LoadOf(With(a, i, b), w, c) = IF c = b THEN LoadOf(a, w, c) + w[i] ELSE LoadOf(a, w, c)
<1> DEFINE f == [j \in DOMAIN a |-> w[j]]
           E == DOMAIN a \cup {i}
           g == [j \in E |-> w[j]]
           S == {j \in DOMAIN a : a[j] = c}
<1>1. DOMAIN With(a, i, b) = E /\ E \subseteq Things
  BY DEF With
<1>2. LoadOf(With(a, i, b), w, c) = SumFunctionOnSet(g, {j \in E : With(a, i, b)[j] = c})
  <2>1. [j \in DOMAIN With(a, i, b) |-> w[j]] = g /\ {j \in DOMAIN With(a, i, b) : With(a, i, b)[j] = c} = {j \in E : With(a, i, b)[j] = c}
    BY <1>1
  <2> QED
    BY <2>1, Zenon DEF LoadOf
<1>3. IsFiniteSet(E) /\ IsFiniteSet(S) /\ g \in [E -> Nat] /\ S \in SUBSET E /\ i \in E \ S
  <2>1. S \subseteq Things
    OBVIOUS
  <2> QED
    BY <1>1, <2>1, ThingsFinite
<1>4. LoadOf(a, w, c) = SumFunctionOnSet(g, S)
  <2>1. \A j \in S : f[j] = g[j]
    OBVIOUS
  <2>2. SumFunctionOnSet(f, S) = SumFunctionOnSet(g, S)
    <3> HIDE DEF f, g, S
    <3> QED
      BY <1>3, <2>1, SumSame
  <2> QED
    BY <2>2 DEF LoadOf
<1>5. {j \in E : With(a, i, b)[j] = c} = IF c = b THEN S \cup {i} ELSE S
  BY DEF With
<1>6. SumFunctionOnSet(g, S \cup {i}) = SumFunctionOnSet(g, S) + g[i]
  <2> HIDE DEF g, E, S
  <2> QED
    BY <1>3, SumAdd
<1>7. g[i] = w[i]
  OBVIOUS
<1> HIDE DEF f, g, S, E
<1>8. CASE c = b
  <2>1. {j \in E : With(a, i, b)[j] = c} = S \cup {i}
    BY <1>5, <1>8
  <2>2. LoadOf(With(a, i, b), w, c) = SumFunctionOnSet(g, S \cup {i})
    BY <1>2, <2>1, Zenon
  <2> QED
    BY <1>4, <1>6, <1>7, <1>8, <2>2
<1>9. CASE c # b
  <2>1. {j \in E : With(a, i, b)[j] = c} = S
    BY <1>5, <1>9
  <2>2. LoadOf(With(a, i, b), w, c) = SumFunctionOnSet(g, S)
    BY <1>2, <2>1, Zenon
  <2> QED
    BY <1>4, <1>9, <2>2
<1> QED
  BY <1>8, <1>9

-----------------------------------------------------------------------------
\* The planner's invariant.  Every pin and every place in network.json is a CPU that
\* the plan it was made for had.
PlanTypes ==
  /\ phase \in {"idle", "keep", "pack", "loose", "stay", "name", "emit"}
  /\ bins \in BinCounts /\ count \in Nat
  /\ rate \in [Devices -> Nat \cup {Absent}]
  /\ pin \in [Nodes \cup Routers -> Nat \cup {None}]
  /\ \A n \in DOMAIN places : places[n].bin \in 0 .. count - 1
  /\ level.num \in Nat /\ level.den \in Nat

Structure ==
  /\ promoted \subseteq Nodes /\ split \subseteq Routers
  /\ phase # "idle" => Dissolved(promoted) /\ weight = Weigh

\* What is packed, in which phase; only a device that has left its CPU has none.
Packed ==
  /\ DOMAIN at \subseteq Wholes \cup Loose \cup ToSpread
  /\ \A i \in DOMAIN at : at[i] \in CPUs \/ (phase = "stay" /\ i \in ToSpread /\ at[i] = None)
  /\ phase \in {"idle", "keep"} => DOMAIN at = {}
  /\ phase \in {"keep", "pack", "loose"} => DOMAIN at \cap ToSpread = {}
  /\ phase \in {"loose", "stay", "name", "emit"} => Wholes \subseteq DOMAIN at
  /\ phase \in {"stay", "name", "emit"} => Loose \subseteq DOMAIN at
  /\ phase \in {"name", "emit"} => ToSpread \subseteq DOMAIN at

Named ==
  /\ \A g \in DOMAIN names : g \in split \X CPUs /\ names[g] \in ShardNumbers
  /\ phase \in {"idle", "keep"} => DOMAIN names = {}

\* While devices wait, some CPUs have room for all of them below the level.
LoadAt == [b \in CPUs |-> Load(b)]
RoomLeft == phase = "stay" => \E S \in SUBSET CPUs :
  /\ S # {} /\ level.den = Cardinality(S)
  /\ SumFunctionOnSet(LoadAt, S) + Sum(Waiting) <= level.num

\* Level, from the first device on.
LevelOn(b) == LET last == There(b) \cap ToSpread IN
  last # {} => \/ 100 * Load(b) * level.den <= 105 * level.num
               \/ \E d \in last : (Load(b) - rate[d]) * level.den < level.num
Levels == phase \in {"stay", "name"} => \A b \in CPUs : LevelOn(b)

PlanInv == PlanTypes /\ Structure /\ Packed /\ Named /\ RoomLeft /\ Levels

LEMMA SameRates ==
  ASSUME UNCHANGED <<inputVars, resultVars>>
  PROVE  /\ UNCHANGED <<bins, rate, pin, flag, parent, places, count>>
         /\ Active' = Active /\ CPUs' = CPUs /\ Weigh' = Weigh /\ Manual' = Manual
         /\ \A S : Sum(S)' = Sum(S)
         /\ \A x : OnNode(x)' = OnNode(x) /\ OnRouter(x)' = OnRouter(x)
<1>1. UNCHANGED <<bins, rate, pin, flag, parent, places, count>>
  BY DEF inputVars, resultVars
<1>2. Active' = Active /\ CPUs' = CPUs
  BY <1>1 DEF Active, CPUs
<1>3. \A S : Sum(S)' = Sum(S)
  BY <1>1, <1>2 DEF Sum
<1>4. \A x : OnNode(x)' = OnNode(x)
  BY <1>1, <1>2 DEF OnNode
<1>5. Placed' = Placed
  BY <1>4 DEF Placed
<1>6. \A r : OnRouter(r)' = OnRouter(r)
  BY <1>1, <1>2, <1>5 DEF OnRouter
<1>7. Manual' = Manual
  BY <1>2, <1>5, <1>6 DEF Manual
<1>8. \A x : In(x)' = In(x)
  BY <1>4, <1>6 DEF In
<1>9. \A x : Sum(In(x))' = Sum(In(x)) /\ Sum(OnRouter(x))' = Sum(OnRouter(x))
  BY <1>3, <1>6, <1>8
<1>10. Weigh' = Weigh
  BY <1>1, <1>2, <1>9 DEF Weigh
<1> QED
  BY <1>1, <1>2, <1>3, <1>4, <1>6, <1>7, <1>10

LEMMA SameInputs ==
  ASSUME UNCHANGED <<inputVars, resultVars, structure>>
  PROVE  /\ Wholes' = Wholes /\ Loose' = Loose /\ ToSpread' = ToSpread
         /\ Weigh' = Weigh /\ CPUs' = CPUs /\ Active' = Active
         /\ \A S : Sum(S)' = Sum(S)
         /\ UNCHANGED <<bins, rate, pin, flag, parent, places, count, weight, promoted, split>>
<1>1. UNCHANGED <<weight, promoted, split>>
  BY DEF structure
<1>2. Loose' = Loose
  BY <1>1, SameRates DEF Loose
<1>3. ToSpread' = ToSpread
  BY <1>1, SameRates DEF ToSpread
<1>4. Wholes' = Wholes
  BY <1>1 DEF Wholes
<1> QED
  BY <1>1, <1>2, <1>3, <1>4, SameRates

\* What is the same when nothing is put anywhere.
LEMMA SameLoads ==
  ASSUME UNCHANGED <<inputVars, resultVars, structure, at>>
  PROVE  /\ \A b : Load(b)' = Load(b) /\ There(b)' = There(b)
         /\ Waiting' = Waiting /\ LoadAt' = LoadAt
<1>1. \A b : There(b)' = There(b)
  BY DEF There
<1>2. \A b : Load(b)' = Load(b)
  BY <1>1, SameInputs DEF Load
<1>3. Waiting' = Waiting
  BY SameInputs DEF Waiting
<1> QED
  BY <1>1, <1>2, <1>3, SameInputs DEF LoadAt

LEMMA PlanInvInit == Init => PlanInv
<1> SUFFICES ASSUME Init PROVE PlanInv
  OBVIOUS
<1>1. DOMAIN at = {} /\ DOMAIN names = {} /\ DOMAIN places = {}
  BY DEF Init
<1> QED
  BY <1>1 DEF Init, PlanInv, PlanTypes, Structure, Packed, Named, RoomLeft, Levels

LEMMA StartPlanKeeps ==
  ASSUME PlanInv, StartPlan
  PROVE  PlanInv'
<1>1. /\ UNCHANGED <<at, names, level>> /\ phase = "idle" /\ phase' = "keep"
      /\ weight' = Weigh /\ promoted' = Promoted /\ split' \subseteq Routers
      /\ UNCHANGED <<inputVars, resultVars>>
  BY DEF StartPlan, Then
<1>2. DOMAIN at = {} /\ DOMAIN names = {}
  BY <1>1 DEF PlanInv, Packed, Named
<1>3. Structure'
  BY <1>1, SameRates, PromotedIsDissolved DEF Structure
<1>4. PlanTypes'
  BY <1>1, SameRates DEF PlanInv, PlanTypes
<1> QED
  BY <1>1, <1>2, <1>3, <1>4 DEF PlanInv, Packed, Named, RoomLeft, Levels

\* A pin is used only if it is to a CPU that is there.
LEMMA KeepItemsKeeps ==
  ASSUME PlanInv, KeepItems
  PROVE  PlanInv'
<1> DEFINE pins   == {i \in Wholes : PinOf(i) # None}
           sticky == {i \in Wholes \ pins : /\ PriorCounts /\ Name(i) \in DOMAIN places
                                            /\ places[Name(i)].under = Cpu(places[Name(i)].bin)}
<1>1. /\ at' = [i \in pins \cup sticky |-> IF i \in pins THEN PinOf(i) ELSE places[Name(i)].bin]
      /\ phase = "keep" /\ phase' = "pack"
      /\ UNCHANGED <<inputVars, resultVars, structure, names, level>>
  BY DEF KeepItems, Then
<1>2. PlanTypes /\ Structure /\ bins \in Nat
  BY PlannerConstants DEF PlanInv, PlanTypes
<1>3. Wholes \subseteq Nodes \cup Routers /\ Wholes \cap ToSpread = {}
  BY <1>2, WhatIsPacked DEF Structure
<1>4. \A i \in pins : PinOf(i) \in CPUs
  BY <1>2, <1>3 DEF PinOf, PlanTypes, CPUs
<1>5. \A i \in sticky : places[Name(i)].bin \in CPUs
  BY <1>2 DEF PriorCounts, PlanTypes, CPUs
<1>6. DOMAIN at' \subseteq Wholes /\ \A i \in DOMAIN at' : at'[i] \in CPUs
  <2> HIDE DEF pins, sticky
  <2>1. DOMAIN at' = pins \cup sticky /\ \A i \in pins \cup sticky : at'[i] = IF i \in pins THEN PinOf(i) ELSE places[Name(i)].bin
    BY <1>1
  <2>2. pins \subseteq Wholes /\ sticky \subseteq Wholes
    BY DEF pins, sticky
  <2> QED
    BY <1>4, <1>5, <2>1, <2>2
<1> HIDE DEF pins, sticky
<1>7. Packed'
  BY <1>1, <1>3, <1>6, SameInputs DEF Packed
<1>8. PlanTypes' /\ Structure'
  BY <1>1, <1>2, SameInputs DEF PlanTypes, Structure
<1>9. Named' /\ phase' = "pack"
  BY <1>1, SameInputs DEF PlanInv, Named
<1> QED
  BY <1>7, <1>8, <1>9 DEF PlanInv, RoomLeft, Levels

\* An item, or a loose device, is put on a CPU or moved to another.
LEMMA PackKeeps ==
  ASSUME PlanInv, phase \in {"pack", "loose"}, phase' = phase,
         UNCHANGED <<inputVars, resultVars, structure, names, level>>,
         NEW i \in Wholes \cup Loose, NEW b \in CPUs, at' = With(at, i, b)
  PROVE  PlanInv'
<1>1. PlanTypes /\ Structure /\ Packed
  BY DEF PlanInv
<1>2. i \notin ToSpread
  BY <1>1, WhatIsPacked DEF Structure
<1>3. DOMAIN at' = DOMAIN at \cup {i} /\ at'[i] = b /\ \A j \in DOMAIN at : at'[j] = IF j = i THEN b ELSE at[j]
  BY DEF With
<1>4. Packed'
  BY <1>1, <1>2, <1>3, SameInputs DEF Packed
<1>5. PlanTypes' /\ Structure'
  BY <1>1, SameInputs DEF PlanTypes, Structure
<1>6. Named' /\ phase' \in {"pack", "loose"}
  BY SameInputs DEF PlanInv, Named
<1> QED
  BY <1>4, <1>5, <1>6 DEF PlanInv, RoomLeft, Levels

LEMMA MoveItemKeeps ==
  ASSUME PlanInv, MoveItem
  PROVE  PlanInv'
<1> PICK hi \in CPUs, lo \in CPUs : \E i \in Candidates(hi, lo) : at' = [at EXCEPT ![i] = lo]
  BY DEF MoveItem
<1> PICK i \in Candidates(hi, lo) : at' = [at EXCEPT ![i] = lo]
  OBVIOUS
<1>1. phase = "pack" /\ phase' = phase /\ UNCHANGED <<inputVars, resultVars, structure, names, level>>
  BY DEF MoveItem
<1>2. i \in DOMAIN at
  BY DEF Candidates, There
<1>3. i \in Wholes \cup Loose
  BY <1>1, <1>2 DEF PlanInv, Packed
<1>4. at' = With(at, i, lo)
  BY <1>2 DEF With
<1> QED
  BY <1>1, <1>3, <1>4, PackKeeps

LEMMA PackItemKeeps ==
  ASSUME PlanInv, PackItem
  PROVE  PlanInv'
<1> PICK i \in Wholes \ DOMAIN at, b \in CPUs : Put(i, b)
  BY DEF PackItem
<1>1. /\ phase = "pack" /\ phase' = phase /\ at' = With(at, i, b)
      /\ UNCHANGED <<inputVars, resultVars, structure, names, level>>
  BY DEF PackItem, Put
<1> QED
  BY <1>1, PackKeeps

LEMMA PlaceLooseKeeps ==
  ASSUME PlanInv, PlaceLoose
  PROVE  PlanInv'
<1> PICK d \in Loose \ DOMAIN at, b \in CPUs : Put(d, b)
  BY DEF PlaceLoose
<1>1. /\ phase = "loose" /\ phase' = phase /\ at' = With(at, d, b)
      /\ UNCHANGED <<inputVars, resultVars, structure, names, level>>
  BY DEF PlaceLoose, Put
<1> QED
  BY <1>1, PackKeeps

LEMMA ItemsPackedKeeps ==
  ASSUME PlanInv, ItemsPacked
  PROVE  PlanInv'
<1>1. /\ phase = "pack" /\ phase' = "loose" /\ Wholes \subseteq DOMAIN at
      /\ UNCHANGED <<inputVars, resultVars, structure, at, names, level>>
  BY DEF ItemsPacked, Then
<1>2. PlanTypes /\ Structure /\ Packed /\ Named
  BY DEF PlanInv
<1>3. Packed'
  BY <1>1, <1>2, SameInputs DEF Packed
<1>4. PlanTypes' /\ Structure' /\ Named'
  BY <1>1, <1>2, SameInputs DEF PlanTypes, Structure, Named
<1> QED
  BY <1>1, <1>3, <1>4 DEF PlanInv, RoomLeft, Levels

LEMMA FilledKeeps ==
  ASSUME PlanInv, Filled
  PROVE  PlanInv'
<1>1. /\ phase = "stay" /\ phase' = "name" /\ Waiting = {}
      /\ UNCHANGED <<inputVars, resultVars, structure, at, names, level>>
  BY DEF Filled, Then
<1>2. PlanTypes /\ Structure /\ Packed /\ Named /\ Levels
  BY DEF PlanInv
<1>3. \A d \in ToSpread : d \in DOMAIN at /\ at[d] # None
  BY <1>1 DEF Waiting
<1>4. Packed'
  BY <1>1, <1>2, <1>3, SameInputs DEF Packed
<1>5. PlanTypes' /\ Structure' /\ Named'
  BY <1>1, <1>2, SameInputs DEF PlanTypes, Structure, Named
<1>6. Levels'
  BY <1>1, <1>2, SameInputs, SameLoads DEF Levels, LevelOn
<1> QED
  BY <1>1, <1>4, <1>5, <1>6 DEF PlanInv, RoomLeft

\* Naming moves nothing.
LEMMA NamingKeeps ==
  ASSUME PlanInv, NameShard \/ ShardsNamed
  PROVE  PlanInv'
<1>1. /\ phase = "name" /\ phase' \in {"name", "emit"}
      /\ UNCHANGED <<inputVars, resultVars, structure, at, level>>
  BY DEF NameShard, ShardsNamed, Then
<1>2. PlanTypes /\ Structure /\ Packed /\ Named /\ Levels
  BY DEF PlanInv
<1>3. Named'
  <2>1. CASE NameShard
    <3> PICK g \in Unnamed, k \in ShardNumbers : names' = With(names, g, k)
      BY <2>1 DEF NameShard
    <3>1. g \in split \X CPUs
      BY DEF Unnamed, Groups
    <3> QED
      BY <1>1, <1>2, <3>1, SameInputs DEF Named, With
  <2>2. CASE ShardsNamed
    BY <1>1, <1>2, <2>2, SameInputs DEF Named, ShardsNamed
  <2> QED
    BY <2>1, <2>2
<1>4. Packed'
  BY <1>1, <1>2, SameInputs DEF Packed
<1>5. PlanTypes' /\ Structure'
  BY <1>1, <1>2, SameInputs DEF PlanTypes, Structure
<1>6. Levels'
  BY <1>1, <1>2, SameInputs, SameLoads DEF Levels, LevelOn
<1> QED
  BY <1>1, <1>3, <1>4, <1>5, <1>6 DEF PlanInv, RoomLeft

-----------------------------------------------------------------------------
\* The water level
LEMMA StayFacts ==
  ASSUME PlanInv, phase \in {"loose", "stay"}
  PROVE  /\ bins \in Nat /\ bins > 0 /\ CPUs \subseteq Nat /\ IsFiniteSet(CPUs) /\ None \notin CPUs
         /\ DOMAIN at \subseteq Things /\ ToSpread \subseteq Active /\ Active \subseteq Things
         /\ \A i \in DOMAIN at \cup Active : weight[i] \in Nat
         /\ \A d \in Active : weight[d] = rate[d] /\ rate[d] \in Nat
         /\ \A b : Load(b) \in Nat
         /\ LoadAt \in [CPUs -> Nat]
         /\ level.num \in Nat /\ level.den \in Nat
         /\ Waiting \subseteq ToSpread
<1>1. PlanTypes /\ Structure /\ Packed /\ weight = Weigh
  BY DEF PlanInv, Structure
<1>2. bins \in Nat /\ bins > 0 /\ CPUs \subseteq Nat /\ None \notin CPUs
  BY <1>1, PlannerConstants DEF PlanTypes, CPUs
<1>3. IsFiniteSet(CPUs)
  <2>1. 0 \in Int /\ bins - 1 \in Int
    BY <1>2
  <2> QED
    BY <2>1, FS_Interval DEF CPUs
<1>4. /\ DOMAIN at \subseteq Nodes \cup Routers \cup Active /\ ToSpread \subseteq Active /\ Active \subseteq Things
      /\ DOMAIN at \subseteq Things
  BY <1>1, WhatIsPacked DEF Structure, Packed, Things
<1>5. /\ \A i \in DOMAIN at \cup Active : weight[i] \in Nat
      /\ \A d \in Active : weight[d] = rate[d]
  BY <1>1, <1>4, WeighType DEF PlanTypes
<1>6. \A b : Load(b) \in Nat
  BY <1>4, <1>5, LoadIs, LoadType
<1> QED
  BY <1>1, <1>2, <1>3, <1>4, <1>5, <1>6 DEF LoadAt, Waiting, PlanTypes

LEMMA LoosePlacedKeeps ==
  ASSUME PlanInv, LoosePlaced
  PROVE  PlanInv'
<1>1. /\ phase = "loose" /\ Loose \subseteq DOMAIN at
      /\ UNCHANGED <<inputVars, resultVars, structure, at, names>>
  BY DEF LoosePlaced
<1>2. PlanTypes /\ Structure /\ Packed /\ Named
  BY DEF PlanInv
<1>3. Structure' \/ phase' = "idle"
  BY <1>1, <1>2, SameInputs DEF Structure
<1>4. CASE split = {}
  <2>1. phase' = "emit" /\ level' = level
    BY <1>4 DEF LoosePlaced, Then
  <2>2. ToSpread = {}
    BY <1>4 DEF ToSpread
  <2>3. Packed' /\ Named' /\ PlanTypes'
    BY <1>1, <1>2, <2>1, <2>2, SameInputs DEF Packed, Named, PlanTypes
  <2> QED
    BY <1>3, <2>1, <2>3 DEF PlanInv, RoomLeft, Levels
<1>5. CASE split # {}
  <2>1. phase' = "stay"
    BY <1>5 DEF LoosePlaced, Then
  <2> PICK S \in (SUBSET CPUs) \ {{}} :
         level' = [num |-> Sum(ToSpread) + SumFunctionOnSet(LoadAt, S), den |-> Cardinality(S)]
    BY <1>5 DEF LoosePlaced, LoadAt
  <2>2. S \in SUBSET CPUs /\ S # {} /\ IsFiniteSet(S)
    <3>1. S \in SUBSET CPUs /\ S # {} /\ IsFiniteSet(CPUs)
      BY <1>1, StayFacts
    <3> QED
      BY <3>1, FS_Subset
  <2>3. Cardinality(S) \in Nat
    BY <2>2, FS_CardinalityType
  <2>4. SumFunctionOnSet(LoadAt, S) \in Nat
    BY <1>1, <2>2, StayFacts, SumType
  <2>5. Sum(ToSpread) \in Nat
    BY <1>1, <1>2, StayFacts, SumOfRates DEF PlanTypes
  <2>6. Waiting = ToSpread /\ \A b : There(b) \cap ToSpread = {}
    BY <1>1, <1>2 DEF Packed, Waiting, There
  <2>7. Waiting' = ToSpread /\ LoadAt' = LoadAt /\ \A b : There(b)' \cap ToSpread' = {}
    BY <1>1, <2>6, SameInputs, SameLoads
  <2>8. PlanTypes'
    BY <1>1, <1>2, <2>1, <2>3, <2>4, <2>5, SameInputs DEF PlanTypes
  <2>9. Packed' /\ Named'
    BY <1>1, <1>2, <2>1, SameInputs DEF Packed, Named
  <2>10. RoomLeft'
    <3>1. S \in SUBSET CPUs' /\ level'.den = Cardinality(S) /\ SumFunctionOnSet(LoadAt', S) + Sum(Waiting)' <= level'.num
      <4>1. Sum(Waiting)' = Sum(ToSpread)
        BY <1>1, <2>7, SameInputs
      <4>2. SumFunctionOnSet(LoadAt', S) = SumFunctionOnSet(LoadAt, S)
        BY <2>7
      <4> QED
        BY <1>1, <2>4, <2>5, <4>1, <4>2, SameInputs
    <3> QED
      BY <2>2, <3>1 DEF RoomLeft
  <2>11. Levels'
    BY <2>7 DEF Levels, LevelOn
  <2> QED
    BY <1>3, <2>1, <2>8, <2>9, <2>10, <2>11 DEF PlanInv
<1> QED
  BY <1>4, <1>5

\* A device that waited gets a CPU where there is room, or that is below the level.
LEMMA DeviceKeeps ==
  ASSUME PlanInv, phase = "stay", phase' = phase,
         UNCHANGED <<inputVars, resultVars, structure, names, level>>,
         NEW d \in Waiting, NEW v \in CPUs, at' = With(at, d, v),
         Room(d, v) \/ Load(v) * level.den < level.num
  PROVE  PlanInv'
<1> USE StayFacts
<1>1. PlanTypes /\ Structure /\ Packed /\ Named
  BY DEF PlanInv
<1>2. d \in ToSpread /\ d \in Active /\ d \in Things /\ weight[d] = rate[d] /\ rate[d] \in Nat
      /\ (d \in DOMAIN at => at[d] = None)
  BY DEF Waiting
<1>3. DOMAIN at' = DOMAIN at \cup {d} /\ at'[d] = v /\ \A j \in DOMAIN at : at'[j] = IF j = d THEN v ELSE at[j]
  BY DEF With
<1>4. \A c \in CPUs : Load(c)' = IF c = v THEN Load(c) + rate[d] ELSE Load(c)
  <2> TAKE c \in CPUs
  <2>1. Load(c)' = LoadOf(at', weight, c) /\ Load(c) = LoadOf(at, weight, c)
    BY SameInputs DEF Load, LoadOf, There
  <2>2. LoadOf(With(at, d, v), weight, c) = IF c = v THEN LoadOf(at, weight, c) + weight[d] ELSE LoadOf(at, weight, c)
    BY <1>2, LoadWith
  <2> QED
    BY <1>2, <2>1, <2>2
<1>5. Waiting' = Waiting \ {d}
  BY <1>2, <1>3, SameInputs DEF Waiting
<1>6. Sum(Waiting) = rate[d] + Sum(Waiting \ {d}) /\ Sum(Waiting \ {d}) \in Nat
  <2> DEFINE r == [i \in Active |-> rate[i]]
  <2>1. r \in [Active -> Nat] /\ IsFiniteSet(Active) /\ Waiting \in SUBSET Active /\ r[d] = rate[d]
    BY <1>1, <1>2, SumOfRates DEF PlanTypes
  <2>2. SumFunctionOnSet(r, Waiting) = r[d] + SumFunctionOnSet(r, Waiting \ {d})
    <3> HIDE DEF r
    <3> QED
      BY <2>1, SumTake
  <2>3. Sum(Waiting \ {d}) \in Nat
    BY <1>1, <2>1, SumOfRates DEF PlanTypes
  <2> QED
    BY <2>1, <2>2, <2>3 DEF Sum
<1>7. RoomLeft'
  <2> PICK S \in SUBSET CPUs :
         S # {} /\ level.den = Cardinality(S) /\ SumFunctionOnSet(LoadAt, S) + Sum(Waiting) <= level.num
    BY DEF PlanInv, RoomLeft
  <2>1. LoadAt' \in [CPUs -> Nat] /\ \A c \in CPUs : LoadAt'[c] = IF c = v THEN LoadAt[c] + rate[d] ELSE LoadAt[c]
    BY <1>2, <1>4, SameInputs DEF LoadAt
  <2>2. SumFunctionOnSet(LoadAt, S) \in Nat
    BY SumType
  <2>3. CASE v \in S
    <3>1. LoadAt'[v] = LoadAt[v] + rate[d] /\ \A c \in S \ {v} : LoadAt'[c] = LoadAt[c]
      BY <2>1, <2>3
    <3> DEFINE f == LoadAt
               g == LoadAt'
    <3>2. f \in [CPUs -> Nat] /\ g \in [CPUs -> Nat] /\ g[v] = f[v] + rate[d] /\ \A c \in S \ {v} : g[c] = f[c]
      BY <2>1, <3>1
    <3>3. SumFunctionOnSet(g, S) = SumFunctionOnSet(f, S) + rate[d]
      <4> HIDE DEF f, g
      <4> QED
        BY <1>2, <2>3, <3>2, SumRaise
    <3>4. SumFunctionOnSet(LoadAt', S) + Sum(Waiting)' <= level.num
      BY <1>2, <1>5, <1>6, <2>2, <3>3, SameInputs
    <3> QED
      BY <3>4, SameInputs DEF RoomLeft
  <2>4. CASE v \notin S
    <3>1. \A c \in S : LoadAt'[c] = LoadAt[c]
      BY <2>1, <2>4
    <3>2. IsFiniteSet(S)
      BY FS_Subset
    <3> DEFINE f == LoadAt
               g == LoadAt'
    <3>3. \A c \in S : g[c] = f[c]
      BY <3>1
    <3>4. SumFunctionOnSet(g, S) = SumFunctionOnSet(f, S)
      <4> HIDE DEF f, g
      <4> QED
        BY <3>2, <3>3, SumSame
    <3>5. SumFunctionOnSet(LoadAt', S) + Sum(Waiting)' <= level.num
      BY <1>2, <1>5, <1>6, <2>2, <3>4, SameInputs
    <3> QED
      BY <3>5, SameInputs DEF RoomLeft
  <2> QED
    BY <2>3, <2>4
<1>8. Levels'
  <2> SUFFICES ASSUME NEW c \in CPUs PROVE LevelOn(c)'
    BY SameInputs DEF Levels
  <2>1. UNCHANGED <<rate, level, ToSpread>>
    BY SameInputs
  <2>2. CASE c # v
    <3>1. There(c)' = There(c)
      BY <1>2, <1>3, <2>2 DEF There
    <3>2. LevelOn(c)
      BY DEF PlanInv, Levels
    <3> QED
      BY <1>4, <2>1, <2>2, <3>1, <3>2 DEF LevelOn
  <2>3. CASE c = v
    <3>1. d \in There(c)' \cap ToSpread
      BY <1>2, <1>3, <2>3 DEF There
    <3>2. Load(c)' = Load(v) + rate[d] /\ Load(v) \in Nat /\ (Load(v) + rate[d]) - rate[d] = Load(v)
      BY <1>2, <1>4, <2>3
    <3>3. CASE Room(d, v)
      BY <2>1, <3>2, <3>3 DEF Room, LevelOn
    <3>4. CASE Load(v) * level.den < level.num
      <4>1. (Load(c)' - rate'[d]) * level'.den < level'.num
        BY <2>1, <3>2, <3>4
      <4> QED
        BY <2>1, <3>1, <4>1 DEF LevelOn
    <3> QED
      BY <3>3, <3>4
  <2> QED
    BY <2>2, <2>3
<1>9. Packed'
  BY <1>1, <1>2, <1>3, SameInputs DEF Packed
<1>10. PlanTypes' /\ Structure' /\ Named'
  BY <1>1, SameInputs DEF PlanTypes, Structure, Named
<1> QED
  BY <1>7, <1>8, <1>9, <1>10 DEF PlanInv

LEMMA StayOrLeaveKeeps ==
  ASSUME PlanInv, StayOrLeave
  PROVE  PlanInv'
<1> USE StayFacts
<1> PICK d \in Settled : Put(d, IF Room(d, LastBin(d)) THEN LastBin(d) ELSE None)
  BY DEF StayOrLeave
<1>1. /\ phase = "stay" /\ phase' = phase
      /\ UNCHANGED <<inputVars, resultVars, structure, names, level>>
  BY DEF StayOrLeave
<1>2. d \in ToSpread /\ d \notin DOMAIN at /\ d \in Waiting /\ LastBin(d) # None
  BY DEF Settled, Waiting
<1>3. LastBin(d) \in CPUs
  <2>1. PriorCounts /\ parent[d] \in DOMAIN places /\ LastBin(d) = places[parent[d]].bin
    BY <1>2 DEF LastBin
  <2> QED
    BY <2>1 DEF PlanInv, PlanTypes, PriorCounts, CPUs
<1>4. CASE Room(d, LastBin(d))
  <2>1. at' = With(at, d, LastBin(d))
    BY <1>4 DEF Put
  <2> QED
    BY <1>1, <1>2, <1>3, <1>4, <2>1, DeviceKeeps
<1>5. CASE ~Room(d, LastBin(d))
  <2>1. at' = With(at, d, None)
    BY <1>5 DEF Put
  <2>2. DOMAIN at' = DOMAIN at \cup {d} /\ at'[d] = None /\ \A j \in DOMAIN at : at'[j] = at[j]
    BY <1>2, <2>1 DEF With
  <2>3. \A c \in CPUs : Load(c)' = Load(c) /\ There(c)' = There(c)
    <3> TAKE c \in CPUs
    <3>1. There(c)' = There(c)
      BY <1>1, <2>2 DEF There
    <3>2. Load(c)' = LoadOf(at', weight, c) /\ Load(c) = LoadOf(at, weight, c)
      BY <1>1, SameInputs DEF Load, LoadOf, There
    <3>3. LoadOf(With(at, d, None), weight, c) = LoadOf(at, weight, c)
      <4>1. c # None /\ d \in Things /\ \A j \in DOMAIN at \cup {d} : weight[j] \in Nat
        BY <1>1, <1>2
      <4> QED
        BY <1>1, <1>2, <4>1, LoadWith
    <3> QED
      BY <2>1, <3>1, <3>2, <3>3
  <2>4. Waiting' = Waiting
    BY <1>1, <1>2, <2>2, SameInputs DEF Waiting
  <2>5. LoadAt' = LoadAt
    BY <1>1, <2>3, SameInputs DEF LoadAt
  <2>6. PlanTypes /\ Structure /\ Packed /\ Named /\ RoomLeft /\ Levels
    BY DEF PlanInv
  <2>7. RoomLeft'
    BY <1>1, <2>4, <2>5, <2>6, SameInputs DEF RoomLeft
  <2>8. Levels'
    BY <1>1, <2>3, <2>6, SameInputs DEF Levels, LevelOn
  <2>9. Packed'
    BY <1>1, <1>2, <2>2, <2>6, SameInputs DEF Packed
  <2>10. PlanTypes' /\ Structure' /\ Named'
    BY <1>1, <2>6, SameInputs DEF PlanTypes, Structure, Named
  <2> QED
    BY <2>7, <2>8, <2>9, <2>10 DEF PlanInv
<1> QED
  BY <1>4, <1>5

\* Where no CPU below the level has room, the lightest is below it all the same, or
\* the device weighs nothing: the level is where all that wait would fit.
LEMMA LightestHasRoom ==
  ASSUME PlanInv, phase = "stay", NEW d \in Waiting, NEW b \in CPUs, \A c \in CPUs : Load(b) <= Load(c)
  PROVE  Room(d, b) \/ Load(b) * level.den < level.num
<1> USE StayFacts
<1>1. PICK S \in SUBSET CPUs :
         S # {} /\ level.den = Cardinality(S) /\ SumFunctionOnSet(LoadAt, S) + Sum(Waiting) <= level.num
  BY DEF PlanInv, RoomLeft
<1> DEFINE s == SumFunctionOnSet(LoadAt, S)
           p == Load(b) * level.den
<1>2. s \in Nat
  BY SumType
<1>3. s >= p
  <2>1. \A c \in S : LoadAt[c] >= Load(b)
    BY DEF LoadAt
  <2>2. SumFunctionOnSet(LoadAt, S) >= Cardinality(S) * Load(b)
    BY <2>1, SumAtLeast
  <2>3. level.den * Load(b) = Load(b) * level.den
    OBVIOUS
  <2> QED
    BY <1>1, <2>2, <2>3
<1>4. Sum(Waiting) \in Nat /\ Sum(Waiting) >= rate[d] /\ rate[d] \in Nat
  <2> DEFINE r == [i \in Active |-> rate[i]]
  <2>1. r \in [Active -> Nat] /\ IsFiniteSet(Active) /\ Waiting \in SUBSET Active /\ r[d] = rate[d] /\ rate[d] \in Nat
    BY SumOfRates DEF PlanInv, PlanTypes
  <2>2. SumFunctionOnSet(r, Waiting) = r[d] + SumFunctionOnSet(r, Waiting \ {d})
    <3> HIDE DEF r
    <3> QED
      BY <2>1, SumTake
  <2>3. Sum(Waiting \ {d}) \in Nat
    BY <2>1, SumOfRates DEF PlanInv, PlanTypes
  <2> QED
    BY <2>1, <2>2, <2>3 DEF Sum
<1>5. p \in Nat
  OBVIOUS
<1>6. CASE p >= level.num
  <2>1. rate[d] = 0 /\ p = level.num
    <3> HIDE DEF s, p
    <3>1. s + Sum(Waiting) <= level.num
      BY <1>1 DEF s
    <3> QED
      BY <1>2, <1>3, <1>4, <1>5, <1>6, <3>1
  <2>2. 100 * (Load(b) + rate[d]) * level.den = 100 * p
    BY <2>1
  <2> HIDE DEF p
  <2> QED
    BY <1>5, <2>1, <2>2 DEF Room
<1>7. CASE p < level.num
  BY <1>7
<1> QED
  BY <1>5, <1>6, <1>7

LEMMA FillKeeps ==
  ASSUME PlanInv, Fill
  PROVE  PlanInv'
<1> DEFINE open(d) == {b \in CPUs : Load(b) * level.den < level.num /\ Room(d, b)}
           own(d)  == {b \in open(d) : There(b) \cap OnRouter(Router(d)) # {}}
<1> PICK d \in Waiting, b \in CPUs :
       /\ Lightest(b, IF own(d) # {} THEN own(d) ELSE IF open(d) # {} THEN open(d) ELSE CPUs, FALSE)
       /\ Put(d, b)
  BY DEF Fill
<1>1. /\ phase = "stay" /\ phase' = phase /\ at' = With(at, d, b)
      /\ UNCHANGED <<inputVars, resultVars, structure, names, level>>
  BY DEF Fill, Put
<1>2. \A S : Lightest(b, S, FALSE) => b \in S /\ \A c \in S : Load(b) <= Load(c)
  <2>1. \A c : Load(c) \in Nat
    BY <1>1, StayFacts
  <2> QED
    BY <2>1 DEF Lightest, First
<1>3. CASE own(d) # {} \/ open(d) # {}
  <2>1. b \in open(d)
    <3>1. b \in own(d) \/ b \in open(d)
      BY <1>2, <1>3
    <3> QED
      BY <3>1
  <2>2. Room(d, b)
    BY <2>1
  <2> QED
    BY <1>1, <2>2, DeviceKeeps
<1>4. CASE own(d) = {} /\ open(d) = {}
  <2>1. \A c \in CPUs : Load(b) <= Load(c)
    BY <1>2, <1>4
  <2>2. Room(d, b) \/ Load(b) * level.den < level.num
    BY <1>1, <2>1, LightestHasRoom
  <2> QED
    BY <1>1, <2>2, DeviceKeeps
<1> QED
  BY <1>3, <1>4

-----------------------------------------------------------------------------
\* What a plan emits
EmitFacts(n) ==
  LET e == Entry(n)
  IN  /\ e.bin \in CPUs
      /\ \/ e.under = Cpu(e.bin)
         \/ e.under \in Emitted /\ Entry(e.under).bin = e.bin

LEMMA NamesDiffer ==
  /\ \A x, r, k : Node(x) # Shard(r, k) /\ Node(x)[1] = "node" /\ Node(x)[2] = x
  /\ \A r, k : Shard(r, k)[1] = "router" /\ Shard(r, k)[2] = r
  /\ \A b : Cpu(b)[2] = b /\ \A n \in Emitted : Cpu(b) # n
<1>1. \A x : Node(x)[1] = "node" /\ Node(x)[2] = x
  BY DEF Node
<1>2. \A r, k : Shard(r, k)[1] = "router" /\ Shard(r, k)[2] = r
  BY DEF Shard
<1>3. \A b : Cpu(b)[1] = "cpu" /\ Cpu(b)[2] = b
  BY DEF Cpu
<1>4. \A n \in Emitted : n[1] = "node" \/ n[1] = "router"
  BY <1>1, <1>2 DEF Emitted, Base
<1>5. "node" # "router" /\ "cpu" # "node" /\ "cpu" # "router"
  OBVIOUS
<1> QED
  BY <1>1, <1>2, <1>3, <1>4, <1>5

LEMMA NodesEmitted ==
  ASSUME PlanInv, phase = "emit", NEW x \in Nodes \ promoted
  PROVE  /\ Node(x) \in Emitted /\ Entry(Node(x)) = InTree(x)
         /\ InTree(x).bin = at[Holder(x)] /\ InTree(x).bin \in CPUs
<1>1. Node(x) \in Emitted
  BY DEF Emitted
<1>2. Entry(Node(x)) = InTree(x)
  BY NamesDiffer DEF Entry
<1>3. InTree(x).bin = at[Holder(x)]
  BY DEF InTree
<1>4. Holder(x) \in DOMAIN at
  BY HolderIsWhole DEF PlanInv, Structure, Packed
<1>5. at[Holder(x)] \in CPUs
  BY <1>4 DEF PlanInv, Packed
<1> QED
  BY <1>1, <1>2, <1>3, <1>5

\* Each name in network.json is on a CPU, directly or under a name on the same.
LEMMA EmittedOnCpus ==
  ASSUME PlanInv, phase = "emit", NEW n \in Emitted
  PROVE  EmitFacts(n)
<1>0. promoted \subseteq Nodes /\ Dissolved(promoted) /\ split \subseteq Routers
  BY DEF PlanInv, Structure
<1>1. \A i \in DOMAIN at : at[i] \in CPUs
  BY DEF PlanInv, Packed
<1>2. Wholes \subseteq DOMAIN at
  BY DEF PlanInv, Packed
<1>3. ASSUME NEW x \in Nodes \ promoted, n = Node(x) PROVE EmitFacts(n)
  <2>1. Entry(n) = InTree(x) /\ InTree(x).bin = at[Holder(x)] /\ InTree(x).bin \in CPUs
    BY <1>3, NodesEmitted
  <2>2. CASE x \in Wholes
    <3>1. InTree(x).under = Cpu(at[x]) /\ Holder(x) = x
      BY <1>0, <1>3, <2>2, HolderOfWhole DEF InTree
    <3> QED
      BY <2>1, <3>1 DEF EmitFacts
  <2>3. CASE x \notin Wholes
    <3>1. Parent[x] \in Nodes \ promoted /\ Holder(x) = Holder(Parent[x])
      BY <1>3, <2>3, HolderOfNested
    <3>2. InTree(x).under = Node(Parent[x])
      BY <2>3 DEF InTree
    <3>3. Node(Parent[x]) \in Emitted /\ Entry(Node(Parent[x])).bin = at[Holder(x)]
      BY <3>1, NodesEmitted
    <3> QED
      BY <2>1, <3>2, <3>3 DEF EmitFacts
  <2> QED
    BY <2>2, <2>3
<1>4. ASSUME NEW r \in Routers \ split, n = Base(r) PROVE EmitFacts(n)
  <2>1. Entry(n) = WholeRouter(r)
    BY <1>4, NamesDiffer DEF Entry, Base
  <2>2. CASE r \in Wholes
    <3>1. WholeRouter(r).bin = at[r] /\ WholeRouter(r).under = Cpu(at[r])
      BY <2>2 DEF WholeRouter
    <3> QED
      BY <1>1, <1>2, <2>1, <2>2, <3>1 DEF EmitFacts
  <2>3. CASE r \notin Wholes
    <3>1. Home[r] \in Nodes \ promoted
      BY <1>4, <2>3, PlannerConstants DEF Wholes
    <3>2. WholeRouter(r).bin = at[Holder(Home[r])] /\ WholeRouter(r).under = Node(Home[r])
      BY <2>3 DEF WholeRouter
    <3>3. Node(Home[r]) \in Emitted /\ Entry(Node(Home[r])).bin = at[Holder(Home[r])] /\ at[Holder(Home[r])] \in CPUs
      BY <3>1, NodesEmitted
    <3> QED
      BY <2>1, <3>2, <3>3 DEF EmitFacts
  <2> QED
    BY <2>2, <2>3
<1>5. ASSUME NEW g \in Groups, n = Shard(g[1], names[g]) PROVE EmitFacts(n)
  <2>1. g[1] \in split
    BY DEF Groups
  <2>2. Entry(n) = OfShard(n)
    BY <1>5, <2>1, NamesDiffer DEF Entry
  <2> DEFINE h == CHOOSE h \in Groups : Shard(h[1], names[h]) = n
  <2>3. h \in Groups
    BY <1>5
  <2>4. h[2] \in CPUs
    <3> HIDE DEF h
    <3> QED
      BY <2>3 DEF Groups
  <2>5. OfShard(n).bin = h[2] /\ OfShard(n).under = Cpu(h[2])
    BY DEF OfShard
  <2> QED
    BY <2>2, <2>4, <2>5 DEF EmitFacts
<1> QED
  BY <1>3, <1>4, <1>5 DEF Emitted

\* Every device gets a CPU or a name that is emitted for its parent.
LEMMA ParentsEmitted ==
  ASSUME PlanInv, phase = "emit", NEW d \in Active
  PROVE  NewParent(d) \in Emitted \cup {Cpu(b) : b \in CPUs}
<1>0. promoted \subseteq Nodes /\ split \subseteq Routers /\ d \in Devices
  BY DEF PlanInv, Structure, Active
<1>1. \A i \in Loose \cup ToSpread : i \in DOMAIN at /\ at[i] \in CPUs
  BY DEF PlanInv, Packed
<1>2. CASE d \in Loose
  BY <1>1, <1>2 DEF NewParent
<1>3. CASE d \notin Loose /\ d \in ToSpread
  <2>1. Router(d) \in split /\ d \in OnRouter(Router(d))
    BY <1>3 DEF ToSpread, Router
  <2> DEFINE g == <<Router(d), at[d]>>
  <2>2. g \in split \X CPUs /\ g[1] = Router(d) /\ g[2] = at[d]
    BY <1>1, <1>3, <2>1
  <2>3. d \in Group(g)
    BY <1>1, <1>3, <2>1, <2>2 DEF Group, There
  <2>4. g \in Groups
    BY <2>2, <2>3 DEF Groups
  <2>5. NewParent(d) = Shard(g[1], names[g])
    BY <1>3, <2>2 DEF NewParent
  <2> HIDE DEF g
  <2> QED
    BY <2>4, <2>5 DEF Emitted
<1>4. CASE d \notin Loose /\ d \notin ToSpread /\ d \in Placed
  <2>1. PICK x \in Nodes : d \in OnNode(x)
    BY <1>4 DEF Placed
  <2>2. parent[d] = Node(x) /\ x \notin promoted
    BY <1>4, <2>1 DEF OnNode, Loose
  <2> QED
    BY <1>4, <2>2 DEF NewParent, Emitted
<1>5. CASE d \notin Loose /\ d \notin ToSpread /\ d \notin Placed
  <2>1. \E r \in Routers : d \in OnRouter(r)
    <3>1. CASE d \in Static
      BY <1>5, <3>1 DEF Loose, Manual
    <3>2. CASE d \notin Static
      BY <1>0, <1>5, <3>2, PlannerConstants DEF OnRouter
    <3> QED
      BY <3>1, <3>2
  <2> DEFINE q == CHOOSE r \in Routers : d \in OnRouter(r)
  <2>2. q \in Routers /\ d \in OnRouter(q)
    BY <2>1
  <2>3. NewParent(d) = Base(q)
    BY <1>5 DEF NewParent
  <2> HIDE DEF q
  <2>4. q \notin split
    BY <1>5, <2>2 DEF ToSpread
  <2> QED
    BY <2>2, <2>3, <2>4 DEF Emitted
<1> QED
  BY <1>2, <1>3, <1>4, <1>5

LEMMA EmitKeeps ==
  ASSUME PlanInv, Emit
  PROVE  PlanInv'
<1>1. /\ phase = "emit" /\ phase' = "idle" /\ promoted' = {} /\ split' = {}
      /\ at' = <<>> /\ names' = <<>> /\ level' = [num |-> 0, den |-> 1]
      /\ count' = bins /\ places' = [n \in Emitted |-> Entry(n)]
      /\ UNCHANGED <<bins, rate, pin>>
  BY DEF Emit, Then, inputVars
<1>2. DOMAIN at' = {} /\ DOMAIN names' = {}
  BY <1>1
<1>3. \A n \in DOMAIN places' : places'[n].bin \in 0 .. count' - 1
  BY <1>1, EmittedOnCpus DEF EmitFacts, CPUs
<1>4. PlanTypes'
  <2>1. bins \in Nat
    BY PlannerConstants DEF PlanInv, PlanTypes
  <2> QED
    BY <1>1, <1>3, <2>1 DEF PlanInv, PlanTypes
<1> QED
  BY <1>1, <1>2, <1>4 DEF PlanInv, Structure, Packed, Named, RoomLeft, Levels

\* Inputs change only between plans, when nothing is put anywhere.
LEMMA EditKeeps ==
  ASSUME PlanInv, Edit
  PROVE  PlanInv'
<1>1. phase = "idle" /\ UNCHANGED <<planVars, places, count>>
  BY DEF Edit, ChangeRate, EditPin, EditFlag, EditBins, resultVars
<1>2. UNCHANGED <<phase, weight, promoted, split, at, moved, level, names>>
  BY <1>1 DEF planVars
<1>3. PlanTypes /\ Structure /\ DOMAIN at = {} /\ DOMAIN names = {}
  BY <1>1 DEF PlanInv, Packed, Named
<1>4. bins' \in BinCounts /\ rate' \in [Devices -> Nat \cup {Absent}] /\ pin' \in [Nodes \cup Routers -> Nat \cup {None}]
  <2>1. CASE ChangeRate
    <3> PICK d \in Devices, v \in Nat \cup {Absent} : rate' = [rate EXCEPT ![d] = v] /\ UNCHANGED <<bins, pin>>
      BY <2>1, PlannerConstants DEF ChangeRate
    <3> QED
      BY <1>3 DEF PlanTypes
  <2>2. CASE EditPin
    <3> PICK i \in Nodes \cup Routers, b \in Nat \cup {None} : pin' = [pin EXCEPT ![i] = b] /\ UNCHANGED <<bins, rate>>
      BY <2>2, PlannerConstants DEF EditPin
    <3> QED
      BY <1>3 DEF PlanTypes
  <2>3. CASE EditFlag
    BY <1>3, <2>3 DEF EditFlag, PlanTypes
  <2>4. CASE EditBins
    BY <1>3, <2>4 DEF EditBins, PlanTypes
  <2> QED
    BY <2>1, <2>2, <2>3, <2>4 DEF Edit
<1>5. PlanTypes'
  BY <1>1, <1>2, <1>3, <1>4 DEF PlanTypes
<1> QED
  BY <1>1, <1>2, <1>3, <1>5 DEF PlanInv, Structure, Packed, Named, RoomLeft, Levels

LEMMA IdleKeeps ==
  ASSUME PlanInv, UNCHANGED vars
  PROVE  PlanInv'
<1>1. /\ UNCHANGED <<inputVars, resultVars, structure, at>>
      /\ UNCHANGED <<phase, moved, level, names>>
  BY DEF vars, planVars, inputVars, resultVars, structure
<1>2. PlanTypes' /\ Structure' /\ Packed' /\ Named'
  BY <1>1, SameInputs DEF PlanInv, PlanTypes, Structure, Packed, Named
<1>3. RoomLeft' /\ Levels'
  BY <1>1, SameInputs, SameLoads DEF PlanInv, RoomLeft, Levels, LevelOn
<1> QED
  BY <1>2, <1>3 DEF PlanInv

LEMMA PlanInvStep == PlanInv /\ [Next]_vars => PlanInv'
<1> SUFFICES ASSUME PlanInv, [Next]_vars PROVE PlanInv'
  OBVIOUS
<1>1. CASE Replan
  BY <1>1, StartPlanKeeps, KeepItemsKeeps, PackItemKeeps, MoveItemKeeps, ItemsPackedKeeps, PlaceLooseKeeps,
     LoosePlacedKeeps, StayOrLeaveKeeps, FillKeeps, FilledKeeps, NamingKeeps, EmitKeeps DEF Replan
<1> QED
  BY <1>1, EditKeeps, IdleKeeps DEF Next

LEMMA PlanInvType == PlanInv => TypeOK
<1> SUFFICES ASSUME PlanInv PROVE TypeOK
  OBVIOUS
<1>1. PlanTypes /\ Structure /\ Packed /\ Named
  BY DEF PlanInv
<1>2. DOMAIN at \subseteq Nodes \cup Routers \cup Devices
  BY <1>1, WhatIsPacked DEF Structure, Packed
<1> QED
  BY <1>1, <1>2 DEF PlanTypes, Structure, Packed, Named, TypeOK

\* Balance and the planner keep to their types whatever the tree, the rates and the
\* pins: every CPU that is read back, pinned or chosen is one of those there are.
THEOREM PlansType == PlansSpec => []PlansTypeOK
<1> DEFINE Inv == BalanceInv /\ PlanInv
<1>1. PlansInit => Inv
  BY BalanceInvInit, PlanInvInit DEF PlansInit
<1>2. Inv /\ [PlansNext]_allVars => Inv'
  BY BalanceInvStep, PlanInvStep DEF PlansNext, allVars
<1>3. Inv => PlansTypeOK
  BY PlanInvType DEF BalanceInv, PlansTypeOK
<1> QED
  BY <1>1, <1>2, <1>3, PTL DEF PlansSpec

\* A plan's output is a tree: the parent of each device and of each node is in it, or a
\* CPU, and a node is on the CPU of the one it lies in.
THEOREM TreesAreWhole == Spec => TreeWhole
<1> DEFINE Whole == Emit =>
      /\ \A d \in Active : parent'[d] \in DOMAIN places' \cup {Cpu(b) : b \in CPUs}
      /\ \A n \in DOMAIN places' : LET up == places'[n].under IN
           /\ up \in DOMAIN places' \cup {Cpu(b) : b \in CPUs}
           /\ places'[n].bin = IF up \in DOMAIN places' THEN places'[up].bin ELSE up[2]
<1>1. PlanInv => Whole
  <2> SUFFICES ASSUME PlanInv, Emit PROVE Whole
    OBVIOUS
  <2>1. /\ phase = "emit" /\ places' = [n \in Emitted |-> Entry(n)]
        /\ parent' = [d \in Devices |-> NewParent(d)]
    BY DEF Emit
  <2>2. DOMAIN places' = Emitted /\ \A n \in Emitted : places'[n] = Entry(n)
    BY <2>1
  <2>3. \A d \in Active : parent'[d] \in DOMAIN places' \cup {Cpu(b) : b \in CPUs}
    BY <2>1, <2>2, ParentsEmitted DEF Active
  <2>4. ASSUME NEW n \in DOMAIN places'
        PROVE  LET up == places'[n].under IN
                 /\ up \in DOMAIN places' \cup {Cpu(b) : b \in CPUs}
                 /\ places'[n].bin = IF up \in DOMAIN places' THEN places'[up].bin ELSE up[2]
    <3> DEFINE e == Entry(n)
    <3>1. n \in Emitted /\ places'[n] = e
      BY <2>2, <2>4
    <3>2. e.bin \in CPUs /\ (e.under = Cpu(e.bin) \/ (e.under \in Emitted /\ Entry(e.under).bin = e.bin))
      BY <2>1, <3>1, EmittedOnCpus DEF EmitFacts
    <3> HIDE DEF e
    <3>3. CASE e.under = Cpu(e.bin)
      <4>1. e.under \notin Emitted /\ e.under[2] = e.bin
        BY <3>3, NamesDiffer
      <4> QED
        BY <2>2, <3>1, <3>2, <3>3, <4>1
    <3>4. CASE e.under \in Emitted /\ Entry(e.under).bin = e.bin
      BY <2>2, <3>1, <3>2, <3>4
    <3> QED
      BY <3>2, <3>3, <3>4
  <2> QED
    BY <2>3, <2>4
<1>2. PlanInv => [Whole]_vars
  BY <1>1
<1> QED
  BY PlanInvInit, PlanInvStep, <1>2, PTL DEF Spec, TreeWhole

\* A CPU with devices of split routers ends over the water level by SHARD_SLACK or by
\* one device, at most, however many are split over however many CPUs.
THEOREM WaterLevel == Spec => []Level
<1>1. PlanInv => Level
  BY DEF PlanInv, Levels, LevelOn, Level
<1> QED
  BY PlanInvInit, PlanInvStep, <1>1, PTL DEF Spec

-----------------------------------------------------------------------------
\* The names of shards
NameInv ==
  /\ \A g, h \in DOMAIN names : g[1] = h[1] /\ names[g] = names[h] => g = h
  /\ phase = "emit" => Groups \subseteq DOMAIN names

\* When a plan is emitted, each CPU with devices of a split router has a shard of its
\* own name: none is lost under another's in network.json.
OneNamePerShard == phase = "emit" => \A g \in Groups :
  /\ g \in DOMAIN names
  /\ \A h \in Groups : Shard(g[1], names[g]) = Shard(h[1], names[h]) => g = h

LEMMA SameGroups ==
  ASSUME UNCHANGED <<inputVars, resultVars, structure, at>>
  PROVE  Groups' = Groups
<1>1. \A b : There(b)' = There(b)
  BY SameLoads
<1>2. \A r : OnRouter(r)' = OnRouter(r)
  BY SameRates
<1>3. \A g : Group(g)' = Group(g)
  BY <1>1, <1>2 DEF Group
<1> QED
  BY <1>3, SameInputs DEF Groups

LEMMA NameShardKeeps ==
  ASSUME NameInv, NameShard
  PROVE  NameInv'
<1> PICK g \in Unnamed, k \in ShardNumbers :
      /\ IF Keepers # {}
         THEN /\ First(g, Keepers, Larger)
              /\ First(k, Keeps(g), LAMBDA x, y : Votes(g, x) > Votes(g, y) \/ (Votes(g, x) = Votes(g, y) /\ x < y))
         ELSE First(g, Unnamed, Sooner) /\ First(k, UnusedNumbers(g[1]), LAMBDA x, y : x < y)
      /\ names' = With(names, g, k)
  BY DEF NameShard
<1>1. k \in UnusedNumbers(g[1])
  <2>1. CASE Keepers # {}
    <3>1. k \in Keeps(g)
      BY <2>1 DEF First
    <3> QED
      BY <3>1 DEF Keeps
  <2>2. CASE Keepers = {}
    BY <2>2 DEF First
  <2> QED
    BY <2>1, <2>2
<1>2. \A h \in DOMAIN names : h[1] = g[1] => names[h] # k
  BY <1>1 DEF UnusedNumbers
<1>3. g \notin DOMAIN names
  BY DEF Unnamed
<1>4. DOMAIN names' = DOMAIN names \cup {g} /\ names'[g] = k /\ \A h \in DOMAIN names : names'[h] = names[h]
  BY <1>3 DEF With
<1>5. phase' = "name"
  BY DEF NameShard
<1>6. ASSUME NEW f \in DOMAIN names', NEW h \in DOMAIN names', f[1] = h[1], names'[f] = names'[h] PROVE f = h
  <2>1. CASE f = g \/ h = g
    BY <1>2, <1>4, <1>6, <2>1
  <2>2. CASE f # g /\ h # g
    BY <1>4, <1>6, <2>2 DEF NameInv
  <2> QED
    BY <2>1, <2>2
<1> QED
  BY <1>5, <1>6 DEF NameInv

LEMMA NameInvStep == NameInv /\ [Next]_vars => NameInv'
<1> SUFFICES ASSUME NameInv, [Next]_vars PROVE NameInv'
  OBVIOUS
<1>1. ASSUME UNCHANGED names, phase' # "emit" PROVE NameInv'
  BY <1>1 DEF NameInv
<1>2. CASE StartPlan \/ KeepItems \/ PackItem \/ MoveItem \/ ItemsPacked \/ PlaceLoose \/ StayOrLeave \/ Fill \/ Filled
  <2>1. UNCHANGED names /\ phase' # "emit"
    BY <1>2 DEF StartPlan, KeepItems, PackItem, MoveItem, ItemsPacked, PlaceLoose, StayOrLeave, Fill, Filled, Then
  <2> QED
    BY <1>1, <2>1
<1>3. CASE LoosePlaced
  <2>1. UNCHANGED names /\ UNCHANGED <<inputVars, resultVars, structure, at>>
    BY <1>3 DEF LoosePlaced
  <2>2. CASE split = {}
    <3>1. Groups = {}
      BY <2>2 DEF Groups
    <3> QED
      BY <2>1, <3>1, SameGroups DEF NameInv
  <2>3. CASE split # {}
    BY <1>1, <1>3, <2>1, <2>3 DEF LoosePlaced, Then
  <2> QED
    BY <2>2, <2>3
<1>4. CASE ShardsNamed
  <2>1. UNCHANGED names /\ UNCHANGED <<inputVars, resultVars, structure, at>> /\ Groups \subseteq DOMAIN names
    BY <1>4 DEF ShardsNamed, Unnamed
  <2> QED
    BY <2>1, SameGroups DEF NameInv
<1>5. CASE Emit
  <2>1. DOMAIN names' = {} /\ phase' = "idle"
    BY <1>5 DEF Emit, Then
  <2> QED
    BY <2>1 DEF NameInv
<1>6. CASE Edit
  <2>1. UNCHANGED planVars /\ phase = "idle"
    BY <1>6 DEF Edit, ChangeRate, EditPin, EditFlag, EditBins
  <2> QED
    BY <1>1, <2>1 DEF planVars
<1>7. CASE UNCHANGED vars
  <2>1. UNCHANGED <<inputVars, resultVars, structure, at>> /\ UNCHANGED <<phase, names>>
    BY <1>7 DEF vars, planVars, inputVars, resultVars, structure
  <2> QED
    BY <2>1, SameGroups DEF NameInv
<1> QED
  BY <1>2, <1>3, <1>4, <1>5, <1>6, <1>7, NameShardKeeps DEF Next, Replan

\* The shards of a router that is split over several CPUs have names of their own, with
\* those they kept and those they were given.
THEOREM ShardsHaveNames == Spec => []OneNamePerShard
<1>1. Init => NameInv
  <2>1. Init => DOMAIN names = {} /\ phase = "idle"
    BY DEF Init
  <2> QED
    BY <2>1 DEF NameInv
<1>2. NameInv => OneNamePerShard
  <2> SUFFICES ASSUME NameInv, phase = "emit", NEW g \in Groups
               PROVE  /\ g \in DOMAIN names
                      /\ \A h \in Groups : Shard(g[1], names[g]) = Shard(h[1], names[h]) => g = h
    BY DEF OneNamePerShard
  <2>1. \A r, k, q, j : Shard(r, k) = Shard(q, j) => r = q /\ k = j
    BY DEF Shard
  <2> QED
    BY <2>1 DEF NameInv
<1> QED
  BY <1>1, <1>2, NameInvStep, PTL DEF Spec
=============================================================================
