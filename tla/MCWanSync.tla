---------------------------- MODULE MCWanSync ----------------------------
(***************************************************************************)
(* An instance of WanSync: one address, two WANs, and two jobs at work:    *)
(* the service's cycle and a request of the GUI, or two requests.          *)
(***************************************************************************)
EXTENDS WanSync

CONSTANTS a, W1, W2, r1, r2

VARIABLE atWork

MCVars == <<atWork, vars>>

Cfg(lists) == [lists |-> lists, enabled |-> TRUE, excluded |-> {}]
Off == [lists |-> {W1}, enabled |-> FALSE, excluded |-> {}]

SoloBlocks == {{a}}
MCConfigs == {Cfg({W1, W2}), Off}
MCByHand == {<<W1, {a}>>}

MCInit == /\ Init
          /\ atWork \in {{Cycle}, {r1}, {Cycle, r1}, {r1, r2}}
          /\ foreign # {} => Cardinality(atWork) = 1

MCNext == /\ Next
          /\ UNCHANGED atWork
          /\ \A j \in Jobs \ atWork : pc'[j] = "idle"
          /\ config' # config => Cycle \in atWork
          /\ foreign' # {} => Cardinality(atWork) = 1

MCSpec == /\ MCInit /\ [][MCNext]_MCVars
          /\ WF_MCVars(Cycle \in atWork /\ (StartCycle \/ Sync(Cycle)) /\ UNCHANGED atWork)
          /\ SF_MCVars(SyncFetches /\ UNCHANGED atWork)

\* When the service is one of the two at work, drift heals.
ServiceHeals == Cycle \in atWork => DriftHeals
==========================================================================
