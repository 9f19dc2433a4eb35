---------------------------- MODULE WanSync_proofs ----------------------------
(***************************************************************************)
(* Safety of the WAN address lists, for any addresses, blocks, lists,      *)
(* configs, entries made by hand and number of requests the GUI serves at  *)
(* once: the types, that nobody's entries but the managers' own are        *)
(* removed, and that a cache is right about what it was read from.         *)
(*                                                                         *)
(* The argument: what is to be removed is on the router and is a           *)
(* manager's, because an entry that leaves the router leaves every such    *)
(* list; and a change to the router makes void what is known of it, but    *)
(* for the one cache whose table is edited with the router.                *)
(***************************************************************************)
EXTENDS WanSync, TLAPS

\* A manager only means to remove its own kind of entry.
RemovesManaged == \A j \in Jobs : remove[j] \subseteq managed

\* What has been read and is not yet in a cache is right, too, until the router changes.
FoundIsRouter == \A j \in Jobs : {e \in found[j] : e[1] \in seen[j]} = Owned(seen[j])

Inv == TypeOK /\ RemovesManaged /\ CacheIsRouter /\ FoundIsRouter

-----------------------------------------------------------------------------
LEMMA JobsAndManagers ==
  /\ Cycle \in Jobs /\ Requests \subseteq Jobs
  /\ \A j \in Jobs : Manager(j) \in Managers
  /\ "service" \in Managers /\ "gui" \in Managers
  BY DEF Jobs, Manager, Managers

LEMMA TargetEntries ==
  ASSUME NEW lists \in SUBSET Lists
  PROVE  Target(lists) \subseteq Entries /\ Owned(lists) \subseteq managed
  BY DEF Target, Owned, Entries

LEMMA ReadConfig ==
  ASSUME TypeOK, NEW j \in Jobs, pc[j] # "idle"
  PROVE  read[j] \in ConfigChoices /\ read[j].lists \subseteq Lists
<1>1. read[j] \in ConfigChoices
  BY DEF TypeOK
<1> QED
  BY <1>1, WanConstants DEF Configs

LEMMA AssignedTypes ==
  ASSUME NEW cfg \in ConfigChoices, NEW w \in [IPs -> Lists \cup {NoWan, NoDevice}]
  PROVE  /\ Assigned(cfg, w) \subseteq [IPs -> Lists \cup {NoWan, NoDevice}]
         /\ AfterAssign(cfg, w) \subseteq [IPs -> Lists \cup {NoWan, NoDevice}]
  BY DEF Assigned, AfterAssign

\* The tables a job edits are caches, also with an entry more or less.
LEMMA CacheKept ==
  ASSUME TypeOK, NEW j \in Jobs, NEW m \in Holds(j), NEW e
  PROVE  /\ cache[m] \in SUBSET Entries /\ cache[m] # NoCache
         /\ cache[m] \ {e} \in SUBSET Entries /\ cache[m] \ {e} # NoCache
         /\ e \in add[j] => /\ e \in Entries
                            /\ cache[m] \cup {e} \in SUBSET Entries /\ cache[m] \cup {e} # NoCache
<1>1. cache[m] \in SUBSET Entries
  BY WanConstants DEF TypeOK, Holds
<1>2. cache[m] \ {e} \in SUBSET Entries
  BY <1>1
<1>3. e \in add[j] => e \in Entries /\ cache[m] \cup {e} \in SUBSET Entries
  BY <1>1 DEF TypeOK
<1>4. \A S \in SUBSET Entries : NoCache # S
  BY WanConstants
<1> QED
  BY <1>1, <1>2, <1>3, <1>4

LEMMA InitInv == Init => Inv
<1> SUFFICES ASSUME Init PROVE Inv
  OBVIOUS
<1>1. foreign \subseteq Entries /\ config \in ConfigChoices
  BY WanConstants DEF Init
<1>2. TypeOK
  BY <1>1 DEF Init, TypeOK, Stages
<1>3. RemovesManaged /\ CacheIsRouter /\ FoundIsRouter
  BY DEF Init, RemovesManaged, CacheIsRouter, FoundIsRouter, Owned
<1> QED
  BY <1>2, <1>3 DEF Inv

-----------------------------------------------------------------------------
\* Devices, the operator and administrators
LEMMA EnvironmentStep == Inv /\ Environment => Inv'
<1> SUFFICES ASSUME Inv, Environment PROVE Inv'
  OBVIOUS
<1> USE DEF Inv, TypeOK, RemovesManaged, CacheIsRouter, FoundIsRouter, Owned
<1>1. CASE DeviceAppears
  BY <1>1 DEF DeviceAppears, routerVars, cacheVars, jobVars
<1>2. CASE DeviceLeaves
  <2>1. wan' \in [IPs -> Lists \cup {NoWan, NoDevice}]
    BY <1>2 DEF DeviceLeaves, Devices
  <2> QED
    BY <1>2, <2>1 DEF DeviceLeaves, routerVars, cacheVars, jobVars
<1>3. CASE SaveConfig
  BY <1>3 DEF SaveConfig, routerVars, cacheVars, jobVars
<1>4. CASE AdminAdds
  BY <1>4, WanConstants DEF AdminAdds, cacheVars, jobVars
<1>5. CASE AdminRemoves
  <2>1. PICK e \in ByHand \cap (managed \cup foreign) : Vanishes(e)
    BY <1>5 DEF AdminRemoves
  <2>2. /\ knows' = [m \in Managers |-> {}] /\ seen' = [j \in Jobs |-> {}]
        /\ UNCHANGED <<wan, config, cache, holder, pc, read, found, add>>
    BY <1>5 DEF AdminRemoves, OutOfDate
  <2>3. TypeOK'
    BY <2>1, <2>2 DEF Vanishes
  <2>4. RemovesManaged' /\ CacheIsRouter' /\ FoundIsRouter'
    BY <2>1, <2>2 DEF Vanishes
  <2> QED
    BY <2>3, <2>4
<1> QED
  BY <1>1, <1>2, <1>3, <1>4, <1>5 DEF Environment

\* A job begins, or goes from one stage to another where it edits no cache.
LEMMA GoStep ==
  ASSUME Inv, NEW j \in Jobs, NEW stage \in Stages \ {"idle"}, pc[j] # "change", Goto(j, stage),
         wan' \in [IPs -> Lists \cup {NoWan, NoDevice}],
         \/ UNCHANGED read /\ pc[j] # "idle"
         \/ read' = [read EXCEPT ![j] = config],
         \/ UNCHANGED remove
         \/ \E S \in SUBSET managed : remove' = [remove EXCEPT ![j] = S],
         UNCHANGED <<config, managed, foreign, cache, holder, knows, found, add, seen>>
  PROVE  Inv'
<1> USE DEF Inv, TypeOK, RemovesManaged, CacheIsRouter, FoundIsRouter, Owned
<1>1. pc' = [pc EXCEPT ![j] = stage]
  BY DEF Goto
<1>2. remove' \in [Jobs -> SUBSET Entries] /\ RemovesManaged'
  OBVIOUS
<1>3. read' \in [Jobs -> ConfigChoices \cup {NoCache}]
  OBVIOUS
<1>4. \A k \in Jobs : pc'[k] = "idle" <=> read'[k] = NoCache
  BY <1>1, WanConstants
<1>5. \A m \in Managers : holder'[m] # NoJob =>
        Manager(holder'[m]) = m /\ pc'[holder'[m]] = "change" /\ cache'[m] # NoCache
  BY <1>1
<1>6. pc' \in [Jobs -> Stages]
  BY <1>1
<1>7. TypeOK'
  BY <1>2, <1>3, <1>4, <1>5, <1>6
<1> QED
  BY <1>2, <1>7

\* A job ends; the caches stay, or its manager's is dropped.
LEMMA StopStep ==
  ASSUME Inv, NEW j \in Jobs, wan' \in [IPs -> Lists \cup {NoWan, NoDevice}],
         UNCHANGED <<config, managed, foreign>>,
         Stop(j) \/ (Reset(j) /\ Forget(Manager(j)) /\ pc[j] # "change")
  PROVE  Inv'
<1> USE DEF Inv, TypeOK, RemovesManaged, CacheIsRouter, FoundIsRouter, Owned
<1>1. /\ pc' = [pc EXCEPT ![j] = "idle"] /\ read' = [read EXCEPT ![j] = NoCache]
      /\ remove' = [remove EXCEPT ![j] = {}] /\ add' = [add EXCEPT ![j] = {}]
      /\ found' = [found EXCEPT ![j] = {}] /\ seen' = [seen EXCEPT ![j] = {}]
  BY DEF Stop, Reset, Goto
<1>2. RemovesManaged' /\ FoundIsRouter'
  BY <1>1
<1>3. /\ pc' \in [Jobs -> Stages] /\ read' \in [Jobs -> ConfigChoices \cup {NoCache}]
      /\ found' \in [Jobs -> SUBSET Entries] /\ remove' \in [Jobs -> SUBSET Entries]
      /\ add' \in [Jobs -> SUBSET Entries] /\ seen' \in [Jobs -> SUBSET Lists]
      /\ \A k \in Jobs : pc'[k] = "idle" <=> read'[k] = NoCache
  BY <1>1 DEF Stages
<1>4. CASE Stop(j)
  <2>1. /\ holder' = [m \in Managers |-> IF holder[m] = j THEN NoJob ELSE holder[m]]
        /\ UNCHANGED <<cache, knows>>
    BY <1>4 DEF Stop
  <2>2. \A m \in Managers : holder'[m] # NoJob =>
          Manager(holder'[m]) = m /\ pc'[holder'[m]] = "change" /\ cache'[m] # NoCache
    BY <1>1, <2>1
  <2>3. holder' \in [Managers -> Jobs \cup {NoJob}]
    BY <2>1
  <2> QED
    BY <1>2, <1>3, <2>1, <2>2, <2>3
<1>5. CASE Reset(j) /\ Forget(Manager(j)) /\ pc[j] # "change"
  <2>1. /\ cache' = [cache EXCEPT ![Manager(j)] = NoCache]
        /\ holder' = [holder EXCEPT ![Manager(j)] = NoJob]
        /\ knows' = [knows EXCEPT ![Manager(j)] = {}]
    BY <1>5 DEF Forget
  <2>2. \A m \in Managers : holder'[m] # NoJob =>
          Manager(holder'[m]) = m /\ pc'[holder'[m]] = "change" /\ cache'[m] # NoCache
    BY <1>1, <1>5, <2>1
  <2>3. /\ holder' \in [Managers -> Jobs \cup {NoJob}] /\ knows' \in [Managers -> SUBSET Lists]
        /\ cache' \in [Managers -> (SUBSET Entries) \cup {NoCache}]
    BY <2>1
  <2>4. CacheIsRouter'
    BY <2>1
  <2> QED
    BY <1>2, <1>3, <2>2, <2>3, <2>4
<1> QED
  BY <1>4, <1>5

\* Jobs begin.
LEMMA StartStep ==
  ASSUME Inv, StartCycle \/ \E j \in Jobs : Rebalance(j) \/ StartPurge(j)
  PROVE  Inv'
<1> USE DEF Inv
<1>1. "sync" \in Stages \ {"idle"} /\ "purge" \in Stages \ {"idle"}
  BY DEF Stages
<1>2. wan \in [IPs -> Lists \cup {NoWan, NoDevice}] /\ config \in ConfigChoices
  BY DEF TypeOK
<1>3. CASE StartCycle
  <2>1. wan' \in [IPs -> Lists \cup {NoWan, NoDevice}]
    BY <1>2, <1>3, AssignedTypes DEF StartCycle
  <2> QED
    BY <1>1, <1>3, <2>1, GoStep, JobsAndManagers DEF StartCycle, routerVars, cacheVars
<1>4. ASSUME NEW j \in Jobs, Rebalance(j) PROVE Inv'
  <2>1. [i \in IPs |-> IF i \in Devices \ config.excluded THEN NoWan ELSE wan[i]]
          \in [IPs -> Lists \cup {NoWan, NoDevice}]
    BY <1>2
  <2>2. wan' \in [IPs -> Lists \cup {NoWan, NoDevice}]
    BY <1>2, <1>4, <2>1, AssignedTypes DEF Rebalance
  <2> QED
    BY <1>1, <1>4, <2>2, GoStep DEF Rebalance, routerVars, cacheVars
<1>5. ASSUME NEW j \in Jobs, StartPurge(j) PROVE Inv'
  BY <1>1, <1>2, <1>5, GoStep DEF StartPurge, routerVars, cacheVars
<1> QED
  BY <1>3, <1>4, <1>5

\* A sync reads the router, and what it read becomes the cache.
LEMMA PlansStep ==
  ASSUME Inv, NEW j \in Jobs, pc[j] # "idle", NEW readable \in SUBSET read[j].lists,
         Plans(j, Owned(readable))
  PROVE  /\ readable \in SUBSET Lists
         /\ Owned(readable) \in SUBSET Entries /\ Owned(readable) # NoCache
         /\ remove' \in [Jobs -> SUBSET Entries] /\ add' \in [Jobs -> SUBSET Entries]
         /\ \A k \in Jobs : remove'[k] \subseteq managed
<1>1. read[j].lists \subseteq Lists
  BY ReadConfig DEF Inv
<1>2. Owned(readable) \subseteq managed /\ Target(read[j].lists) \subseteq Entries
  BY <1>1, TargetEntries
<1>3. managed \subseteq Entries
  BY DEF Inv, TypeOK
<1>4. Owned(readable) \in SUBSET Entries
  BY <1>2, <1>3
<1>5. Owned(readable) # NoCache
  BY <1>4, WanConstants
<1>6. remove' = [remove EXCEPT ![j] = Owned(readable) \ Target(read[j].lists)]
      /\ add' = [add EXCEPT ![j] = Target(read[j].lists) \ Owned(readable)]
  BY DEF Plans
<1>7. Owned(readable) \ Target(read[j].lists) \subseteq managed
      /\ Target(read[j].lists) \ Owned(readable) \subseteq Entries
  BY <1>2
<1>8. remove \in [Jobs -> SUBSET Entries] /\ add \in [Jobs -> SUBSET Entries]
      /\ \A k \in Jobs : remove[k] \subseteq managed
  BY DEF Inv, TypeOK, RemovesManaged
<1> QED
  BY <1>1, <1>3, <1>4, <1>5, <1>6, <1>7, <1>8

LEMMA BindsStep ==
  ASSUME Inv, NEW j \in Jobs, NEW table \in SUBSET Entries, NEW lists \in SUBSET Lists,
         Binds(j, table, lists), pc' = [pc EXCEPT ![j] = "change"], UNCHANGED managed,
         {e \in table : e[1] \in lists} = Owned(lists)
  PROVE  /\ cache' \in [Managers -> (SUBSET Entries) \cup {NoCache}]
         /\ holder' \in [Managers -> Jobs \cup {NoJob}] /\ knows' \in [Managers -> SUBSET Lists]
         /\ \A m \in Managers : holder'[m] # NoJob =>
              Manager(holder'[m]) = m /\ pc'[holder'[m]] = "change" /\ cache'[m] # NoCache
         /\ CacheIsRouter'
<1>1. /\ cache' = [cache EXCEPT ![Manager(j)] = table]
      /\ holder' = [holder EXCEPT ![Manager(j)] = j]
      /\ knows' = [knows EXCEPT ![Manager(j)] = lists]
  BY DEF Binds
<1>2. table # NoCache
  BY WanConstants
<1>3. Manager(j) \in Managers
  BY JobsAndManagers
<1>4. /\ cache \in [Managers -> (SUBSET Entries) \cup {NoCache}]
      /\ holder \in [Managers -> Jobs \cup {NoJob}] /\ knows \in [Managers -> SUBSET Lists]
      /\ pc \in [Jobs -> Stages]
      /\ \A m \in Managers : holder[m] # NoJob =>
           Manager(holder[m]) = m /\ pc[holder[m]] = "change" /\ cache[m] # NoCache
  BY DEF Inv, TypeOK
<1>5. CacheIsRouter'
  BY <1>1, <1>3, <1>4 DEF Inv, CacheIsRouter, Owned
<1>6. \A m \in Managers : holder'[m] # NoJob =>
        Manager(holder'[m]) = m /\ pc'[holder'[m]] = "change" /\ cache'[m] # NoCache
  BY <1>1, <1>2, <1>3, <1>4
<1> QED
  BY <1>1, <1>3, <1>4, <1>5, <1>6

LEMMA FetchStep ==
  ASSUME Inv, SyncFetches \/ \E j \in Jobs : SyncReads(j) \/ SyncBinds(j)
  PROVE  Inv'
<1>1. CASE SyncFetches
  <2>1. PICK readable \in SUBSET read[Cycle].lists :
          Plans(Cycle, Owned(readable)) /\ Binds(Cycle, Owned(readable), readable)
    BY <1>1 DEF SyncFetches
  <2>2. /\ pc[Cycle] = "sync" /\ pc' = [pc EXCEPT ![Cycle] = "change"]
        /\ UNCHANGED <<wan, config, managed, foreign, read, found, seen>>
    BY <1>1 DEF SyncFetches, Goto, routerVars
  <2>3. Cycle \in Jobs
    BY JobsAndManagers
  <2>4. /\ readable \in SUBSET Lists /\ Owned(readable) \in SUBSET Entries
        /\ remove' \in [Jobs -> SUBSET Entries] /\ add' \in [Jobs -> SUBSET Entries]
        /\ \A k \in Jobs : remove'[k] \subseteq managed
    BY <2>1, <2>2, <2>3, PlansStep
  <2>5. {e \in Owned(readable) : e[1] \in readable} = Owned(readable)
    BY DEF Owned
  <2>6. /\ cache' \in [Managers -> (SUBSET Entries) \cup {NoCache}]
        /\ holder' \in [Managers -> Jobs \cup {NoJob}] /\ knows' \in [Managers -> SUBSET Lists]
        /\ \A m \in Managers : holder'[m] # NoJob =>
             Manager(holder'[m]) = m /\ pc'[holder'[m]] = "change" /\ cache'[m] # NoCache
        /\ CacheIsRouter'
    BY <2>1, <2>2, <2>3, <2>4, <2>5, BindsStep
  <2>7. pc' \in [Jobs -> Stages] /\ \A k \in Jobs : pc'[k] = "idle" <=> read'[k] = NoCache
    BY <2>2, <2>3 DEF Inv, TypeOK, Stages
  <2>8. TypeOK'
    BY <2>2, <2>4, <2>6, <2>7 DEF Inv, TypeOK
  <2> QED
    BY <2>2, <2>4, <2>6, <2>8 DEF Inv, RemovesManaged, FoundIsRouter, Owned
<1>2. ASSUME NEW j \in Jobs, SyncReads(j) PROVE Inv'
  <2>1. PICK readable \in SUBSET read[j].lists :
          /\ Plans(j, Owned(readable))
          /\ found' = [found EXCEPT ![j] = Owned(readable)]
          /\ seen' = [seen EXCEPT ![j] = readable]
    BY <1>2 DEF SyncReads
  <2>2. /\ pc[j] = "sync" /\ pc' = [pc EXCEPT ![j] = "bind"]
        /\ UNCHANGED <<wan, config, managed, foreign, cache, holder, knows, read>>
    BY <1>2 DEF SyncReads, Goto, routerVars, cacheVars
  <2>3. /\ readable \in SUBSET Lists /\ Owned(readable) \in SUBSET Entries
        /\ remove' \in [Jobs -> SUBSET Entries] /\ add' \in [Jobs -> SUBSET Entries]
        /\ \A k \in Jobs : remove'[k] \subseteq managed
    BY <2>1, <2>2, PlansStep
  <2>4. /\ pc' \in [Jobs -> Stages] /\ \A k \in Jobs : pc'[k] = "idle" <=> read'[k] = NoCache
        /\ found' \in [Jobs -> SUBSET Entries] /\ seen' \in [Jobs -> SUBSET Lists]
    BY <2>1, <2>2, <2>3 DEF Inv, TypeOK, Stages
  <2>5. \A m \in Managers : holder'[m] # NoJob =>
          Manager(holder'[m]) = m /\ pc'[holder'[m]] = "change" /\ cache'[m] # NoCache
    BY <2>2 DEF Inv, TypeOK
  <2>6. TypeOK'
    BY <2>2, <2>3, <2>4, <2>5 DEF Inv, TypeOK
  <2>7. FoundIsRouter'
    BY <2>1, <2>2 DEF Inv, TypeOK, FoundIsRouter, Owned
  <2> QED
    BY <2>2, <2>3, <2>6, <2>7 DEF Inv, RemovesManaged, CacheIsRouter, Owned
<1>3. ASSUME NEW j \in Jobs, SyncBinds(j) PROVE Inv'
  <2>1. /\ pc[j] = "bind" /\ pc' = [pc EXCEPT ![j] = "change"] /\ Binds(j, found[j], seen[j])
        /\ found' = [found EXCEPT ![j] = {}] /\ seen' = [seen EXCEPT ![j] = {}]
        /\ UNCHANGED <<wan, config, managed, foreign, read, remove, add>>
    BY <1>3 DEF SyncBinds, Goto, routerVars
  <2>2. found[j] \in SUBSET Entries /\ seen[j] \in SUBSET Lists
    BY DEF Inv, TypeOK
  <2>3. {e \in found[j] : e[1] \in seen[j]} = Owned(seen[j])
    BY DEF Inv, FoundIsRouter
  <2>4. /\ cache' \in [Managers -> (SUBSET Entries) \cup {NoCache}]
        /\ holder' \in [Managers -> Jobs \cup {NoJob}] /\ knows' \in [Managers -> SUBSET Lists]
        /\ \A m \in Managers : holder'[m] # NoJob =>
             Manager(holder'[m]) = m /\ pc'[holder'[m]] = "change" /\ cache'[m] # NoCache
        /\ CacheIsRouter'
    BY <2>1, <2>2, <2>3, BindsStep
  <2>5. TypeOK'
    BY <2>1, <2>4 DEF Inv, TypeOK, Stages
  <2> QED
    BY <2>1, <2>4, <2>5 DEF Inv, TypeOK, RemovesManaged, FoundIsRouter, Owned
<1> QED
  BY <1>1, <1>2, <1>3

\* A sync changes the router, one call at a time.
LEMMA ChangeStep ==
  ASSUME Inv, NEW j \in Jobs,
         RemoveEntry(j) \/ RemoveFails(j) \/ AddEntry(j) \/ AddRefused(j) \/ AddFails(j)
  PROVE  Inv'
<1>1. CASE RemoveEntry(j)
  <2>1. PICK e \in remove[j] :
          /\ Vanishes(e)
          /\ cache' = [m \in Managers |-> IF m \in Holds(j) THEN cache[m] \ {e} ELSE cache[m]]
    BY <1>1 DEF RemoveEntry
  <2>2. OutOfDate(Holds(j)) /\ UNCHANGED <<wan, config, holder, pc, read, found, add>>
    BY <1>1 DEF RemoveEntry
  <2>3. \A m \in Holds(j) : cache[m] # NoCache /\ cache[m] \ {e} \in SUBSET Entries
                            /\ cache[m] \ {e} # NoCache
    BY CacheKept DEF Inv
  <2>4. TypeOK'
    BY <2>1, <2>2, <2>3 DEF Vanishes, OutOfDate, Inv, TypeOK
  <2>5. RemovesManaged' /\ FoundIsRouter'
    BY <2>1, <2>2 DEF Vanishes, OutOfDate, Owned, RemovesManaged, FoundIsRouter, Inv, TypeOK
  <2>6. CacheIsRouter'
    BY <2>1, <2>2, <2>3 DEF Vanishes, OutOfDate, Holds, Owned, CacheIsRouter, Inv, TypeOK
  <2> QED
    BY <2>4, <2>5, <2>6 DEF Inv
<1>2. CASE RemoveFails(j)
  BY <1>2 DEF RemoveFails, routerVars, cacheVars, Owned, RemovesManaged, CacheIsRouter,
     FoundIsRouter, Inv, TypeOK
<1>3. CASE AddEntry(j)
  <2>1. PICK e \in add[j] :
          /\ e \notin managed \cup foreign
          /\ managed' = managed \cup {e} /\ add' = [add EXCEPT ![j] = @ \ {e}]
          /\ cache' = [m \in Managers |-> IF m \in Holds(j) THEN cache[m] \cup {e} ELSE cache[m]]
    BY <1>3 DEF AddEntry
  <2>2. OutOfDate(Holds(j)) /\ UNCHANGED <<wan, config, foreign, holder, pc, read, found, remove>>
    BY <1>3 DEF AddEntry
  <2>3. e \in Entries
    BY DEF Inv, TypeOK
  <2>4. \A m \in Holds(j) : /\ cache[m] # NoCache /\ cache[m] \cup {e} # NoCache
                            /\ cache[m] \cup {e} \in SUBSET Entries
    BY CacheKept DEF Inv
  <2>5. /\ managed' \subseteq Entries /\ managed' \cap foreign' = {}
        /\ add' \in [Jobs -> SUBSET Entries] /\ RemovesManaged'
    BY <2>1, <2>2, <2>3 DEF Inv, TypeOK, RemovesManaged
  <2>6. /\ cache' \in [Managers -> (SUBSET Entries) \cup {NoCache}]
        /\ \A m \in Managers : cache[m] # NoCache => cache'[m] # NoCache
    BY <2>1, <2>4 DEF Inv, TypeOK
  <2>7. knows' \in [Managers -> SUBSET Lists] /\ seen' \in [Jobs -> SUBSET Lists]
    BY <2>2 DEF OutOfDate, Inv, TypeOK
  <2>8. TypeOK'
    BY <2>2, <2>5, <2>6, <2>7 DEF Inv, TypeOK
  <2>9. FoundIsRouter'
    BY <2>2 DEF OutOfDate, FoundIsRouter, Owned, Inv, TypeOK
  <2>10. CacheIsRouter'
    BY <2>1, <2>2, <2>4 DEF OutOfDate, Holds, Owned, CacheIsRouter, Inv, TypeOK
  <2> QED
    BY <2>5, <2>8, <2>9, <2>10 DEF Inv
<1>4. CASE AddRefused(j) \/ AddFails(j)
  BY <1>4 DEF AddRefused, AddFails, routerVars, cacheVars, Owned, RemovesManaged,
     CacheIsRouter, FoundIsRouter, Inv, TypeOK
<1> QED
  BY <1>1, <1>2, <1>3, <1>4

\* A purge of the GUI.
LEMMA PurgeStep ==
  ASSUME Inv, NEW j \in Jobs, Purge(j), ~StartPurge(j)
  PROVE  Inv'
<1> DEFINE WanType == [IPs -> Lists \cup {NoWan, NoDevice}]
<1>1. Cleared \in WanType /\ wan \in WanType
  BY DEF Cleared, Inv, TypeOK
<1>2. {"sync", "wipe", "clear"} \subseteq Stages \ {"idle"}
  BY DEF Stages
<1>3. CASE PurgeUnreachable(j)
  BY <1>1, <1>3, StopStep DEF PurgeUnreachable, routerVars
<1>4. CASE PurgeFetches(j)
  <2>1. PICK readable \in SUBSET read[j].lists :
          remove' = [remove EXCEPT ![j] = Owned(readable)]
    BY <1>4 DEF PurgeFetches
  <2>2. Owned(readable) \in SUBSET managed
    BY DEF Owned
  <2> QED
    BY <1>1, <1>2, <1>4, <2>1, <2>2, GoStep DEF PurgeFetches, routerVars, cacheVars
<1>5. CASE PurgeRemoves(j)
  <2>1. PICK e \in remove[j] : Vanishes(e)
    BY <1>5 DEF PurgeRemoves
  <2>2. /\ knows' = [m \in Managers |-> {}] /\ seen' = [k \in Jobs |-> {}]
        /\ UNCHANGED <<wan, config, cache, holder, pc, read, found, add>>
    BY <1>5 DEF PurgeRemoves, OutOfDate
  <2>3. TypeOK'
    BY <2>1, <2>2 DEF Vanishes, Inv, TypeOK
  <2> QED
    BY <2>1, <2>2, <2>3 DEF Vanishes, Owned, Inv, RemovesManaged, CacheIsRouter, FoundIsRouter
<1>6. CASE PurgeRemoveFails(j)
  BY <1>6 DEF PurgeRemoveFails, routerVars, cacheVars, Owned, Inv, TypeOK, RemovesManaged,
     CacheIsRouter, FoundIsRouter
<1>7. CASE PurgeForgets(j)
  <2>1. /\ pc[j] = "wipe" /\ pc' = [pc EXCEPT ![j] = "clear"]
        /\ cache' = [cache EXCEPT !["gui"] = NoCache] /\ knows' = [knows EXCEPT !["gui"] = {}]
        /\ holder' = [holder EXCEPT !["gui"] = NoJob]
        /\ UNCHANGED <<wan, config, managed, foreign, read, found, remove, add, seen>>
    BY <1>7 DEF PurgeForgets, Forget, Goto, routerVars
  <2>2. TypeOK'
    BY <2>1, JobsAndManagers DEF Inv, TypeOK, Stages
  <2>3. CacheIsRouter'
    BY <2>1 DEF Inv, TypeOK, CacheIsRouter, Owned
  <2> QED
    BY <2>1, <2>2, <2>3 DEF Inv, RemovesManaged, FoundIsRouter, Owned
<1>8. CASE PurgeAssigns(j)
  <2>1. read[j] \in ConfigChoices
    BY <1>8, ReadConfig DEF PurgeAssigns, Inv
  <2>2. wan' \in WanType
    BY <1>1, <1>8, <2>1, AssignedTypes DEF PurgeAssigns
  <2> QED
    BY <1>2, <1>8, <2>2, GoStep DEF PurgeAssigns, routerVars, cacheVars
<1>9. CASE PurgeEnds(j)
  BY <1>1, <1>9, StopStep DEF PurgeEnds, routerVars
<1> QED
  BY <1>3, <1>4, <1>5, <1>6, <1>7, <1>8, <1>9 DEF Purge

\* Steps that end a job.
LEMMA EndStep ==
  ASSUME Inv, NEW j \in Jobs, SyncSkips(j) \/ SyncFails(j) \/ SyncDone(j) \/ Breaks(j)
  PROVE  Inv'
<1>1. wan \in [IPs -> Lists \cup {NoWan, NoDevice}]
  BY DEF Inv, TypeOK
<1> QED
  BY <1>1, StopStep DEF SyncSkips, SyncFails, SyncDone, Breaks, routerVars

\* A restart ends all jobs of a program, and no other.
LEMMA RestartStep ==
  ASSUME Inv, NEW m \in Managers, Restart(m)
  PROVE  Inv'
<1> USE DEF Inv, TypeOK, RemovesManaged, CacheIsRouter, FoundIsRouter, Owned
<1>1. /\ cache' = [cache EXCEPT ![m] = NoCache] /\ knows' = [knows EXCEPT ![m] = {}]
      /\ holder' = [holder EXCEPT ![m] = NoJob]
      /\ UNCHANGED <<wan, config, managed, foreign>>
  BY DEF Restart, Forget, routerVars
<1>2. /\ pc' = [j \in Jobs |-> IF Manager(j) = m THEN "idle" ELSE pc[j]]
      /\ read' = [j \in Jobs |-> IF Manager(j) = m THEN NoCache ELSE read[j]]
      /\ found' = [j \in Jobs |-> IF Manager(j) = m THEN {} ELSE found[j]]
      /\ remove' = [j \in Jobs |-> IF Manager(j) = m THEN {} ELSE remove[j]]
      /\ add' = [j \in Jobs |-> IF Manager(j) = m THEN {} ELSE add[j]]
      /\ seen' = [j \in Jobs |-> IF Manager(j) = m THEN {} ELSE seen[j]]
  BY DEF Restart
<1>3. /\ cache' \in [Managers -> (SUBSET Entries) \cup {NoCache}]
      /\ holder' \in [Managers -> Jobs \cup {NoJob}] /\ knows' \in [Managers -> SUBSET Lists]
      /\ pc' \in [Jobs -> Stages] /\ read' \in [Jobs -> ConfigChoices \cup {NoCache}]
      /\ found' \in [Jobs -> SUBSET Entries] /\ remove' \in [Jobs -> SUBSET Entries]
      /\ add' \in [Jobs -> SUBSET Entries] /\ seen' \in [Jobs -> SUBSET Lists]
      /\ \A j \in Jobs : pc'[j] = "idle" <=> read'[j] = NoCache
  BY <1>1, <1>2 DEF Stages
<1>4. \A n \in Managers : holder'[n] # NoJob =>
        Manager(holder'[n]) = n /\ pc'[holder'[n]] = "change" /\ cache'[n] # NoCache
  BY <1>1, <1>2
<1>5. RemovesManaged' /\ FoundIsRouter'
  BY <1>1, <1>2
<1>6. CacheIsRouter'
  BY <1>1
<1> QED
  BY <1>1, <1>3, <1>4, <1>5, <1>6

LEMMA InvStep == Inv /\ [Next]_vars => Inv'
<1> SUFFICES ASSUME Inv, [Next]_vars PROVE Inv'
  OBVIOUS
<1>1. ASSUME NEW j \in Jobs, Sync(j) \/ Failure(j) PROVE Inv'
  BY <1>1, EndStep, FetchStep, ChangeStep DEF Sync, Failure
<1>2. ASSUME NEW j \in Jobs, Rebalance(j) \/ Purge(j) PROVE Inv'
  BY <1>2, StartStep, PurgeStep
<1>3. CASE UNCHANGED vars
  BY <1>3 DEF vars, Inv, TypeOK, RemovesManaged, CacheIsRouter, FoundIsRouter, Owned
<1> QED
  BY <1>1, <1>2, <1>3, EnvironmentStep, StartStep, RestartStep DEF Next

LEMMA Invariance == Spec => []Inv
  BY InitInv, InvStep, PTL DEF Spec

-----------------------------------------------------------------------------
\* The types of the model.
THEOREM TypeCorrect == Spec => []TypeOK
<1>1. Inv => TypeOK
  BY DEF Inv
<1> QED
  BY <1>1, Invariance, PTL

\* However many requests share the GUI's manager: in the lists a cache was read from, and
\* as long as no other than the job at work on it changes the router, it holds just what
\* is there.  A failed call never makes it forget or invent an entry.
THEOREM CachesAreRight == Spec => []CacheIsRouter
<1>1. Inv => CacheIsRouter
  BY DEF Inv
<1> QED
  BY <1>1, Invariance, PTL

\* Whatever the two programs and any number of requests do at once, an administrator's
\* entry is never theirs to remove.
THEOREM ForeignIsUntouched == Spec => ForeignUntouched
<1>1. Inv /\ [Next]_vars => [~(AdminAdds \/ AdminRemoves) => foreign' = foreign]_vars
  <2> SUFFICES ASSUME Inv, Next, ~(AdminAdds \/ AdminRemoves) PROVE foreign' = foreign
    BY DEF vars
  <2>1. ASSUME NEW j \in Jobs, NEW e \in remove[j], Vanishes(e) PROVE foreign' = foreign
    BY <2>1 DEF Inv, TypeOK, RemovesManaged, Vanishes
  <2>2. CASE Environment
    BY <2>2 DEF Environment, DeviceAppears, DeviceLeaves, SaveConfig, routerVars
  <2>3. CASE StartCycle \/ \E m \in Managers : Restart(m)
    BY <2>3 DEF StartCycle, Restart, routerVars
  <2>4. ASSUME NEW j \in Jobs, Rebalance(j) \/ Purge(j) PROVE foreign' = foreign
    BY <2>1, <2>4 DEF Rebalance, Purge, StartPurge, PurgeUnreachable, PurgeFetches, PurgeRemoves,
       PurgeRemoveFails, PurgeForgets, PurgeAssigns, PurgeEnds, routerVars
  <2>5. ASSUME NEW j \in Jobs, Sync(j) \/ Failure(j) PROVE foreign' = foreign
    BY <2>1, <2>5 DEF Sync, Failure, SyncSkips, SyncFails, SyncFetches, SyncReads, SyncBinds,
       RemoveEntry, RemoveFails, AddEntry, AddRefused, AddFails, SyncDone, Breaks, routerVars
  <2> QED
    BY <2>2, <2>3, <2>4, <2>5 DEF Next
<1> QED
  BY <1>1, Invariance, PTL DEF Spec, ForeignUntouched
=============================================================================
