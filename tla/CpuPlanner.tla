----------------------------- MODULE CpuPlanner -----------------------------
(***************************************************************************)
(* The auto_cpu strategy (cpu_planner.plan): site and router subtrees are  *)
(* packed whole onto CPU nodes; a node that is too heavy is dissolved and  *)
(* a router that is too heavy is split into shards, one per CPU.  What the *)
(* last plan did is not stored anywhere: the planner reads it back from    *)
(* network.json and the devices' parent nodes, keeps what it finds where   *)
(* it was, and undoes a split only when the load is well below the limit.  *)
(*                                                                         *)
(* The state is what is read back; a step changes an input or plans anew.  *)
(* Nodes, routers and devices are numbers, in the order of their names.    *)
(* Names in network.json are tuples, so that they are unique by            *)
(* construction but for the shards of one router (_Names and the checks of *)
(* normalise).  Rates are those of the download direction, 0 for a device  *)
(* without an address; no bandwidth of the whole link is configured.       *)
(***************************************************************************)
EXTENDS Integers, FiniteSets, Functions

CONSTANTS
  Nodes, Routers, Devices,
  Parent,     \* Parent[x]: the node x lies in, or Top
  Home,       \* Home[r]: the node the router is placed in, or Top
  RouterOf,   \* RouterOf[d]: the router a device was found on, or NoRouter
  Static,     \* devices the operator has entered by hand
  Wanted,     \* Wanted[d]: the parent the operator has given a manual device, or Blank
  Rates,      \* Rates[d]: the plans the device may have
  BinCounts, Pinnable, PinChoices, Flaggable,
  SplitNum, SplitDen,   \* split_ratio
  RatioNum, RatioDen,   \* rebalance_ratio
  Budget,               \* move_budget
  Top, NoRouter, None, Absent

\* The topology is made of nested lists (normalise); a pin is a CPU number or none
\* (check); a dynamic device of a router no longer configured is skipped, and deleted in
\* the same cycle (classify), so Devices has none.
ASSUME PlannerConstants ==
  /\ \A S \in {Nodes, Routers, Devices} : IsFiniteSet(S)
  /\ Nodes \cap Routers = {} /\ (Nodes \cup Routers) \cap Devices = {}
  /\ Top \notin Nodes
  /\ \E depth \in [Nodes -> 0 .. Cardinality(Nodes)] : \A x \in Nodes :
       Parent[x] = Top \/ (Parent[x] \in Nodes /\ depth[Parent[x]] < depth[x])
  /\ \A r \in Routers : Home[r] \in Nodes \cup {Top}
  /\ \A d \in Devices \ Static : RouterOf[d] \in Routers
  /\ \A d \in Devices : Rates[d] \subseteq Nat
  /\ BinCounts \subseteq Nat \ {0} /\ IsFiniteSet(BinCounts)
  /\ Pinnable \subseteq Nodes \cup Routers /\ PinChoices \subseteq Nat \cup {None}
  /\ \A n \in BinCounts : None \notin 0 .. n - 1

VARIABLES
  bins,    \* the number of CPU nodes (resolve_params)
  rate,    \* rate[d]: plan of the device, or Absent
  pin,     \* pin[i]: pin_cpu of a node or router, or None
  flag,    \* nodes with "promote"
  parent,  \* parent[d]: devices.parent_node
  places,  \* network.json: the CPU and the parent of each node in it
  count,   \* ... and how many CPU nodes it has
  phase,   \* how far a plan has got; its results so far:
  weight,  \* weight[i]: the load of a node, a router or a device
  promoted, split,  \* nodes that are dissolved, routers that are split
  at,      \* at[i]: the CPU of an item or device
  moved,   \* items that were moved, devices that were filled in
  level,   \* the load every CPU should reach
  names    \* names[<<r, b>>]: the number of the router's shard on that CPU

planVars == <<phase, weight, promoted, split, at, moved, level, names>>
vars == <<bins, rate, pin, flag, parent, places, count, planVars>>

Blank == <<>>
Cpu(b) == <<"cpu", b>>
Node(x) == <<"node", x>>
Shard(r, k) == <<"router", r, k>>
Base(r) == Shard(r, 1)
CPUs == 0 .. bins - 1
\* "R", "R #2", ...: as many as the most CPUs can need, and those a plan may have kept
ShardNumbers == 1 .. 2 * (CHOOSE m \in BinCounts : \A n \in BinCounts : m >= n)

Active == {d \in Devices : rate[d] # Absent}
Sum(S) == SumFunctionOnSet([d \in Active |-> rate[d]], S)

Ancestors[x \in Nodes] == IF Parent[x] = Top THEN {} ELSE {Parent[x]} \cup Ancestors[Parent[x]]
Below(x) == {y \in Nodes : y = x \/ x \in Ancestors[y]}

----------------------------------------------------------------------------
\* _Planner.classify

OnNode(x) == {d \in Active \cap Static : parent[d] = Node(x)}
Placed == UNION {OnNode(x) : x \in Nodes}
OnRouter(r) == {d \in Active \ Placed :
                  \/ RouterOf[d] = r
                  \/ RouterOf[d] = NoRouter /\ d \in Static /\ parent[d] = Base(r)}
Manual == (Active \cap Static) \ (Placed \cup UNION {OnRouter(r) : r \in Routers})

In(x) == UNION ({OnNode(y) : y \in Below(x)} \cup {OnRouter(r) : r \in {q \in Routers : Home[q] \in Below(x)}})

\* Is a load above tenths / 10 of the limit?  Without two CPUs nothing is.
Over(load, tenths) ==
  LET total == Sum(Active)
  IN  bins > 1 /\ total > 0 /\ load * bins * SplitDen * 10 > total * SplitNum * tenths

----------------------------------------------------------------------------
\* _Planner.expand, from what network.json says of the last plan

\* STRUCT_HYSTERESIS
Hysteresis_slip(was) == IF was THEN 10 ELSE 8
Hysteresis(was) == IF was THEN 8 ELSE 10

\* Absent while a child sits directly under a CPU.
WasPromoted(x) ==
  /\ Node(x) \notin DOMAIN places
  /\ \E k \in {Node(y) : y \in {z \in Nodes : Parent[z] = x}} \cup {Base(r) : r \in {q \in Routers : Home[q] = x}} :
       k \in DOMAIN places /\ places[k].under = Cpu(places[k].bin)

WasSplit(r) == \E d \in OnRouter(r) : \E k \in ShardNumbers \ {1} : parent[d] = Shard(r, k)

\* A pin to a CPU that is not there is ignored.
PinOf_slip(i) == pin[i]
PinOf(i) == IF pin[i] # None /\ pin[i] >= bins THEN None ELSE pin[i]

Promotable == {x \in Nodes : /\ PinOf(x) = None
                             /\ x \in flag \/ Over(Sum(In(x)), Hysteresis(WasPromoted(x)))}
Promoted == {x \in Promotable : Ancestors[x] \subseteq Promotable}

Splits(r, dissolved) ==
  /\ Home[r] = Top \/ Home[r] \in dissolved
  /\ PinOf(r) = None
  /\ Cardinality(OnRouter(r)) >= 2
  /\ Over(Sum(OnRouter(r)), Hysteresis(WasSplit(r)))

----------------------------------------------------------------------------
\* Where things have been put so far

Weigh == [i \in Nodes \cup Routers \cup Active |->
            IF i \in Nodes THEN Sum(In(i)) ELSE IF i \in Routers THEN Sum(OnRouter(i)) ELSE rate[i]]
Heavier(i, j) == weight[i] > weight[j] \/ (weight[i] = weight[j] /\ i < j)
First(i, S, before(_, _)) == i \in S /\ \A j \in S \ {i} : before(i, j)

There(b) == {i \in DOMAIN at : at[i] = b}
Load(b) == SumFunctionOnSet([i \in DOMAIN at |-> weight[i]], There(b))
With(f, i, b) == [j \in DOMAIN f \cup {i} |-> IF j = i THEN b ELSE f[j]]
Put(i, b) == at' = With(at, i, b)

\* The lightest bin in S, then the one with fewer items if they count, then the first.
Lightest(b, S, counted) ==
  First(b, S, LAMBDA c, d :
    \/ Load(c) < Load(d)
    \/ /\ Load(c) = Load(d)
       /\ LET n(x) == IF counted THEN Cardinality(There(x)) ELSE 0
          IN  n(c) < n(d) \/ (n(c) = n(d) /\ c < d))

inputVars == <<bins, rate, pin, flag>>
resultVars == <<parent, places, count>>
structure == <<weight, promoted, split>>
Then(next) == phase' = next

----------------------------------------------------------------------------
\* _Planner.pack

PriorCounts == count = bins

Wholes == {x \in Nodes \ promoted : Parent[x] = Top \/ Parent[x] \in promoted}
         \cup {r \in Routers \ split : Home[r] = Top \/ Home[r] \in promoted}
Loose_slip == Manual
Loose == Manual \cup UNION {OnNode(x) : x \in promoted}
Name(i) == IF i \in Nodes THEN Node(i) ELSE Base(i)

StartPlan ==
  /\ phase = "idle"
  /\ weight' = Weigh
  /\ promoted' = Promoted
  /\ split' = {r \in Routers : Splits(r, Promoted)}
  /\ Then("keep")
  /\ UNCHANGED <<inputVars, resultVars, at, moved, level, names>>

\* Pinned items, and those that were directly on a CPU in the last plan.
KeepItems ==
  /\ phase = "keep"
  /\ LET pinned == {i \in Wholes : PinOf(i) # None}
         sticky == {i \in Wholes \ pinned : /\ PriorCounts /\ Name(i) \in DOMAIN places
                                           /\ places[Name(i)].under = Cpu(places[Name(i)].bin)}
     IN  at' = [i \in pinned \cup sticky |-> IF i \in pinned THEN PinOf(i) ELSE places[Name(i)].bin]
  /\ Then("pack")
  /\ UNCHANGED <<inputVars, resultVars, structure, moved, level, names>>

PackItem ==
  /\ phase = "pack"
  /\ \E i \in Wholes \ DOMAIN at, b \in CPUs :
       /\ First(i, Wholes \ DOMAIN at, Heavier)
       /\ Lightest(b, CPUs, TRUE)
       /\ Put(i, b)
  /\ UNCHANGED <<inputVars, resultVars, phase, structure, moved, level, names>>

\* rebalance_moves: see Balance.
Candidates(hi, lo) == {i \in There(hi) \ moved : /\ PinOf(i) = None /\ 0 < weight[i]
                                                 /\ weight[i] < Load(hi) - Load(lo)}
Uneven(hi, lo) == Load(hi) > 0 /\ (Load(lo) = 0 \/ Load(hi) * RatioDen > Load(lo) * RatioNum)
Off(i, hi, lo) == LET d == 2 * weight[i] - (Load(hi) - Load(lo)) IN IF d < 0 THEN -d ELSE d

Moves(hi, lo) ==
  /\ Cardinality(moved) < Budget
  /\ Lightest(lo, CPUs, FALSE)
  /\ First(hi, {b \in CPUs : Uneven(b, lo) /\ Candidates(b, lo) # {}},
           LAMBDA b, c : Load(b) > Load(c) \/ (Load(b) = Load(c) /\ b < c))

MoveItem ==
  /\ phase = "pack"
  /\ Wholes \subseteq DOMAIN at
  /\ \E hi, lo \in CPUs : \E i \in Candidates(hi, lo) :
       /\ Moves(hi, lo)
       /\ First(i, Candidates(hi, lo), LAMBDA x, y :
                  Off(x, hi, lo) < Off(y, hi, lo) \/ (Off(x, hi, lo) = Off(y, hi, lo) /\ x < y))
       /\ at' = [at EXCEPT ![i] = lo]
       /\ moved' = moved \cup {i}
  /\ UNCHANGED <<inputVars, resultVars, phase, structure, level, names>>

ItemsPacked ==
  /\ phase = "pack"
  /\ Wholes \subseteq DOMAIN at
  /\ ~\E hi, lo \in CPUs : Moves(hi, lo)
  /\ Then("loose")
  /\ UNCHANGED <<inputVars, resultVars, structure, at, moved, level, names>>

\* Loose devices stay on their CPU, or go to the lightest.
PlaceLoose ==
  /\ phase = "loose"
  /\ \E d \in Loose \ DOMAIN at, b \in CPUs :
       /\ First(d, Loose \ DOMAIN at, Heavier)
       /\ IF PriorCounts /\ \E c \in CPUs : parent[d] = Cpu(c) THEN parent[d] = Cpu(b)
          ELSE Lightest(b, CPUs, TRUE)
       /\ Put(d, b)
  /\ UNCHANGED <<inputVars, resultVars, phase, structure, moved, level, names>>

----------------------------------------------------------------------------
\* _Planner._fill_shards: the devices of split routers.  One that has to leave its
\* CPU is at None until it gets another.

ToSpread == UNION {OnRouter(r) : r \in split}
Router(d) == CHOOSE r \in split : d \in OnRouter(r)
Waiting == {d \in ToSpread : d \notin DOMAIN at \/ at[d] = None}

\* _water_level, a fraction: to where the devices would fill the emptiest bins.
LoosePlaced ==
  /\ phase = "loose"
  /\ Loose \subseteq DOMAIN at
  /\ IF split = {} THEN Then("emit") /\ UNCHANGED level
     ELSE /\ \E S \in (SUBSET CPUs) \ {{}} :
               /\ level' = [num |-> Sum(ToSpread) + SumFunctionOnSet([b \in CPUs |-> Load(b)], S),
                            den |-> Cardinality(S)]
               /\ \A b \in CPUs : b \in S <=> Load(b) * level'.den < level'.num
          /\ Then("stay")
  /\ UNCHANGED <<inputVars, resultVars, structure, at, moved, names>>

\* SHARD_SLACK
Room_slip(d, b) == TRUE
Room(d, b) == 100 * (Load(b) + rate[d]) * level.den <= 105 * level.num

\* The CPU a device was on in the last plan.
LastBin(d) == IF PriorCounts /\ parent[d] \in DOMAIN places THEN places[parent[d]].bin ELSE None
Settled == {d \in ToSpread \ DOMAIN at : LastBin(d) # None}

StayOrLeave ==
  /\ phase = "stay"
  /\ \E d \in Settled :
       /\ First(d, Settled, LAMBDA x, y : LastBin(x) < LastBin(y) \/ (LastBin(x) = LastBin(y) /\ x < y))
       /\ Put(d, IF Room(d, LastBin(d)) THEN LastBin(d) ELSE None)
  /\ UNCHANGED <<inputVars, resultVars, phase, structure, moved, level, names>>

\* The router with most to place first, its own CPUs before the emptier ones.
Fill ==
  /\ phase = "stay"
  /\ Settled = {}
  /\ LET need(r)   == Sum(OnRouter(r) \cap (Waiting \cup moved))
         before(d, e) == LET q == Router(d)  r == Router(e)
                         IN  IF q # r THEN need(q) > need(r) \/ (need(q) = need(r) /\ q < r)
                             ELSE Heavier(d, e)
         open(d)   == {b \in CPUs : Load(b) * level.den < level.num /\ Room(d, b)}
         own(d)    == {b \in open(d) : There(b) \cap OnRouter(Router(d)) # {}}
     IN  \E d \in Waiting, b \in CPUs :
           /\ First(d, Waiting, before)
           /\ Lightest(b, IF own(d) # {} THEN own(d) ELSE IF open(d) # {} THEN open(d) ELSE CPUs, FALSE)
           /\ Put(d, b)
           /\ moved' = moved \cup {d}
  /\ UNCHANGED <<inputVars, resultVars, phase, structure, level, names>>

Filled ==
  /\ phase = "stay"
  /\ Waiting = {}
  /\ Then("name")
  /\ UNCHANGED <<inputVars, resultVars, structure, at, moved, level, names>>

\* _name_shards: a bin keeps the name most of its devices had there, those with most
\* devices first; the others get the first numbers that are left.
Group(g) == There(g[2]) \cap OnRouter(g[1])
Groups == {g \in split \X CPUs : Group(g) # {}}
Unnamed == Groups \ DOMAIN names
UnusedNumbers(r) == ShardNumbers \ {names[g] : g \in {h \in DOMAIN names : h[1] = r}}
Votes(g, k) == LET n == Shard(g[1], k)
               IN  IF n \in DOMAIN places /\ places[n].bin = g[2]
                   THEN Cardinality({d \in Group(g) : parent[d] = n}) ELSE 0
Keeps(g) == {k \in UnusedNumbers(g[1]) : Votes(g, k) > 0}
Alone(g) == \A h \in Groups : h[1] = g[1] => h = g
Keepers == {g \in Unnamed : ~Alone(g) /\ Keeps(g) # {}}

Sooner(g, h) == g[1] < h[1] \/ (g[1] = h[1] /\ g[2] < h[2])
Larger(g, h) == LET m == Cardinality(Group(g))  n == Cardinality(Group(h))
                IN  IF g[1] # h[1] THEN g[1] < h[1] ELSE m > n \/ (m = n /\ g[2] < h[2])

NameShard ==
  /\ phase = "name"
  /\ \E g \in Unnamed, k \in ShardNumbers :
       /\ IF Keepers # {}
          THEN /\ First(g, Keepers, Larger)
               /\ First(k, Keeps(g), LAMBDA x, y : Votes(g, x) > Votes(g, y) \/ (Votes(g, x) = Votes(g, y) /\ x < y))
          ELSE First(g, Unnamed, Sooner) /\ First(k, UnusedNumbers(g[1]), LAMBDA x, y : x < y)
       /\ names' = With(names, g, k)
  /\ UNCHANGED <<inputVars, resultVars, phase, structure, at, moved, level>>

ShardsNamed ==
  /\ phase = "name"
  /\ Unnamed = {}
  /\ Then("emit")
  /\ UNCHANGED <<inputVars, resultVars, structure, at, moved, level, names>>

----------------------------------------------------------------------------
\* _Planner.emit: network.json and the parents of the devices

Holder(x) == CHOOSE y \in Wholes \cap Nodes : x \in Below(y)
InTree(x) == [bin |-> at[Holder(x)], under |-> IF x \in Wholes THEN Cpu(at[x]) ELSE Node(Parent[x])]
WholeRouter(r) == IF r \in Wholes THEN [bin |-> at[r], under |-> Cpu(at[r])]
                  ELSE [bin |-> at[Holder(Home[r])], under |-> Node(Home[r])]
OfShard(n) == LET g == CHOOSE h \in Groups : Shard(h[1], names[h]) = n
              IN  [bin |-> g[2], under |-> Cpu(g[2])]
Emitted == {Node(x) : x \in Nodes \ promoted} \cup {Base(r) : r \in Routers \ split}
           \cup {Shard(g[1], names[g]) : g \in Groups}
Entry(n) == IF n[1] = "node" THEN InTree(n[2])
            ELSE IF n[2] \in split THEN OfShard(n) ELSE WholeRouter(n[2])

NewParent(d) ==
  IF d \notin Active THEN Blank
  ELSE IF d \in Loose THEN Cpu(at[d])
  ELSE IF d \in ToSpread THEN Shard(Router(d), names[<<Router(d), at[d]>>])
  ELSE IF d \in Placed THEN parent[d]
  ELSE Base(CHOOSE r \in Routers : d \in OnRouter(r))

Emit ==
  /\ phase = "emit"
  /\ places' = [n \in Emitted |-> Entry(n)]
  /\ parent' = [d \in Devices |-> NewParent(d)]
  /\ count' = bins
  /\ Then("idle")
  /\ at' = <<>> /\ moved' = {} /\ names' = <<>> /\ level' = [num |-> 0, den |-> 1]
  /\ weight' = <<>> /\ promoted' = {} /\ split' = {}
  /\ UNCHANGED inputVars

Replan == \/ StartPlan \/ KeepItems \/ PackItem \/ MoveItem \/ ItemsPacked \/ PlaceLoose
          \/ LoosePlaced \/ StayOrLeave \/ Fill \/ Filled \/ NameShard \/ ShardsNamed \/ Emit

----------------------------------------------------------------------------
\* Devices come, go and change their plan.  A manual device comes with the parent
\* the operator has given it.
ChangeRate == \E d \in Devices : \E v \in Rates[d] \cup {Absent} :
  /\ phase = "idle"
  /\ v # rate[d]
  /\ rate' = [rate EXCEPT ![d] = v]
  /\ parent' = [parent EXCEPT ![d] = IF v = Absent THEN Blank
                                     ELSE IF rate[d] = Absent THEN Wanted[d] ELSE @]
  /\ UNCHANGED <<bins, pin, flag, places, count, planVars>>

\* The operator edits the topology or the number of queues.
EditPin == \E i \in Pinnable, b \in PinChoices :
  /\ phase = "idle"
  /\ b # pin[i]
  /\ pin' = [pin EXCEPT ![i] = b]
  /\ UNCHANGED <<bins, rate, flag, resultVars, planVars>>

EditFlag == \E x \in Flaggable :
  /\ phase = "idle"
  /\ flag' = IF x \in flag THEN flag \ {x} ELSE flag \cup {x}
  /\ UNCHANGED <<bins, rate, pin, resultVars, planVars>>

EditBins == \E n \in BinCounts \ {bins} :
  /\ phase = "idle"
  /\ bins' = n
  /\ UNCHANGED <<rate, pin, flag, resultVars, planVars>>

Init ==
  /\ bins \in BinCounts
  /\ rate = [d \in Devices |-> Absent]
  /\ pin = [i \in Nodes \cup Routers |-> None]
  /\ flag = {}
  /\ parent = [d \in Devices |-> Blank]
  /\ places = <<>> /\ count = 0
  /\ phase = "idle" /\ weight = <<>> /\ promoted = {} /\ split = {} /\ at = <<>> /\ moved = {}
  /\ level = [num |-> 0, den |-> 1] /\ names = <<>>

Edit == ChangeRate \/ EditPin \/ EditFlag \/ EditBins
Next == Replan \/ Edit

Spec == Init /\ [][Next]_vars

\* updatecsv plans in every cycle.
FairSpec == Spec /\ WF_vars(Replan)

----------------------------------------------------------------------------
\* Properties

TypeOK ==
  /\ phase \in {"idle", "keep", "pack", "loose", "stay", "name", "emit"}
  /\ promoted \subseteq Nodes /\ split \subseteq Routers
  /\ DOMAIN at \subseteq Nodes \cup Routers \cup Devices
  /\ \A i \in DOMAIN at : at[i] \in CPUs \cup {None}
  /\ \A g \in DOMAIN names : g \in split \X CPUs /\ names[g] \in ShardNumbers

\* Once planned, every device has a parent that network.json holds, and each node is
\* on the CPU of the node it lies in.
TreeWhole == [][Emit =>
  /\ \A d \in Active : parent'[d] \in DOMAIN places' \cup {Cpu(b) : b \in CPUs}
  /\ \A n \in DOMAIN places' : LET up == places'[n].under IN
       /\ up \in DOMAIN places' \cup {Cpu(b) : b \in CPUs}
       /\ places'[n].bin = IF up \in DOMAIN places' THEN places'[up].bin ELSE up[2]]_vars

\* A plan made over and over with the same input comes to move nothing: no device
\* flaps between CPUs.
Settles == <>[][UNCHANGED inputVars]_vars => <>[][UNCHANGED resultVars]_vars

\* "Every CPU ends up at the same load (the water level)" (_fill_shards): a CPU with
\* devices of split routers is over it by SHARD_SLACK or by one device, at most.
Level == phase = "name" => \A b \in CPUs : LET last == There(b) \cap ToSpread IN
  last # {} => \/ 100 * Load(b) * level.den <= 105 * level.num
               \/ \E d \in last : (Load(b) - rate[d]) * level.den < level.num

\* "Undo a promotion or a shard split only once the load falls below this share of
\* the limit, so a load hovering at the limit does not flap" (STRUCT_HYSTERESIS): what
\* the last plan has dissolved stays so while the load is above that share.
NoFlap == [][StartPlan => \A x \in Nodes :
  /\ count = bins /\ Node(x) \notin DOMAIN places
  /\ PinOf(x) = None /\ Over(Sum(In(x)), 8) /\ Ancestors[x] \subseteq promoted'
  => x \in promoted']_vars
=============================================================================
