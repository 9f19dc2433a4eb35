------------------------------ MODULE WanSync ------------------------------
(***************************************************************************)
(* The WAN address lists of a core router, and the two programs that keep  *)
(* them (wan_manager.WANManager, run by wan_service.py and by the GUI's    *)
(* Rebalance and Purge buttons).                                           *)
(*                                                                         *)
(* A manager keeps, per core, a cache of the entries it believes to be on  *)
(* the router.  A sync collapses the assigned IPs of each WAN to subnets,  *)
(* skips the router when they equal the cache and the last look at the     *)
(* router is recent, and otherwise reads the lists into a new table, makes *)
(* that the cache, removes what is not wanted and adds what is missing,    *)
(* one API call at a time.  Each call may fail, the two managers know      *)
(* nothing of each other, administrators edit the lists by hand, and       *)
(* either program may be restarted at any moment.                          *)
(*                                                                         *)
(* The service runs one cycle at a time.  The GUI serves its requests in   *)
(* threads (gui.py:4812), and they share one manager without a lock        *)
(* (gui.py:492): a request goes on with the table it made when another has *)
(* put its own in the cache's place or has dropped the cache.              *)
(*                                                                         *)
(* One core: a sync handles the cores one after the other and shares       *)
(* nothing between them.  An entry is its list and its subnet; a subnet is *)
(* the set of its addresses.                                               *)
(***************************************************************************)
EXTENDS Naturals, FiniteSets

CONSTANTS
  IPs,            \* addresses devices can have
  Blocks,         \* the CIDR blocks over them
  Lists,          \* names of WAN address lists
  ConfigChoices,  \* what config.json may say: [lists, enabled, excluded]
  ByHand,         \* entries an administrator adds and removes
  Cycle,          \* the cycle of wan_service
  Requests,       \* Rebalance and Purge requests the GUI may serve at once
  NoWan, NoDevice, NoCache, NoJob

Managers == {"service", "gui"}
Jobs == Requests \cup {Cycle}
Manager(j) == IF j = Cycle THEN "service" ELSE "gui"
Entries == Lists \X Blocks
Configs == [lists: SUBSET Lists, enabled: BOOLEAN, excluded: SUBSET IPs]

ASSUME BlocksAssumption ==
  /\ \A i \in IPs : {i} \in Blocks
  /\ \A b \in Blocks : b \subseteq IPs /\ b # {}
  /\ \A b, c \in Blocks : b \subseteq c \/ c \subseteq b \/ b \cap c = {}
ASSUME WanConstants ==
  /\ ConfigChoices \subseteq Configs /\ ConfigChoices # {}
  /\ ByHand \subseteq Entries
  /\ NoWan \notin Lists /\ NoDevice \notin Lists /\ NoWan # NoDevice
  /\ \A S \in SUBSET Entries : NoCache # S
  /\ NoCache \notin ConfigChoices
  /\ Cycle \notin Requests /\ NoJob \notin Jobs

VARIABLES
  wan,      \* the table: the WAN each address's device is assigned to
  config,   \* config.json now
  managed,  \* entries on the router with the comment libreqos-managed
  foreign,  \* entries on the router without it
  cache,    \* cache[m]: _cache of the manager, for this core
  holder,   \* holder[m]: the job at work on the table that is cache[m], if any
  pc,       \* pc[j]: where the job is
  read,     \* read[j]: the config the job has read
  found,    \* found[j]: what the job has read on the router and not yet put in the cache
  remove,   \* remove[j]: entries of this sync or purge still to be removed
  add,      \* add[j]: entries of this sync still to be added
  seen,     \* history: the lists of found[j], if nobody has changed the router since
  knows     \* history: knows[m]: the lists cache[m] was read from, if the router has not
            \* been changed since but by the job at work on it

routerVars == <<managed, foreign>>
cacheVars == <<cache, holder, knows>>
jobVars == <<pc, read, found, remove, add, seen>>
vars == <<wan, config, managed, foreign, cache, holder, knows, pc, read, found, remove, add, seen>>

Stages == {"idle", "sync", "bind", "change", "purge", "wipe", "clear"}

----------------------------------------------------------------------------
\* WANManager._collapse_to_subnets: the blocks that are full of these addresses,
\* without those that lie in a larger such block.
Collapse(ips) == {b \in Blocks : /\ b \subseteq ips
                                 /\ \A c \in Blocks : b \subseteq c /\ c \subseteq ips => c = b}

\* WANManager._build_target_subnets
Target(lists) == {e \in lists \X Blocks : e[2] \in Collapse({i \in IPs : wan[i] = e[1]})}

Devices == {i \in IPs : wan[i] # NoDevice}

\* What assign_wan_nodes may make of the table: devices of excluded sources leave
\* their WAN, those of a WAN that is gone and new ones get one, and when there is
\* no new one some are moved.
Assigned(cfg, w) ==
  LET pinned == {i \in Devices : i \notin cfg.excluded /\ w[i] \in cfg.lists}
      new    == (Devices \ cfg.excluded) \ pinned
  IN  {a \in [IPs -> Lists \cup {NoWan, NoDevice}] :
         /\ \A i \in IPs \ Devices : a[i] = NoDevice
         /\ \A i \in Devices \cap cfg.excluded : a[i] = NoWan
         /\ \A i \in new : a[i] \in cfg.lists
         /\ \A i \in pinned : a[i] = w[i] \/ (new = {} /\ a[i] \in cfg.lists)}

\* ... and without any WAN it returns at once.
AfterAssign(cfg, w) == IF cfg.lists = {} THEN {w} ELSE Assigned(cfg, w)

----------------------------------------------------------------------------
\* Devices, the operator, administrators

DeviceAppears == \E i \in IPs :
  /\ wan[i] = NoDevice
  /\ wan' = [wan EXCEPT ![i] = NoWan]
  /\ UNCHANGED <<config, routerVars, cacheVars, jobVars>>

DeviceLeaves == \E i \in Devices :
  /\ wan' = [wan EXCEPT ![i] = NoDevice]
  /\ UNCHANGED <<config, routerVars, cacheVars, jobVars>>

SaveConfig == \E c \in ConfigChoices \ {config} :
  /\ config' = c
  /\ UNCHANGED <<wan, routerVars, cacheVars, jobVars>>

AdminAdds == \E e \in ByHand \ (managed \cup foreign) :
  /\ foreign' = foreign \cup {e}
  /\ UNCHANGED <<wan, config, managed, cacheVars, jobVars>>

\* An entry leaves the router, and its .id with it: whoever still means to remove
\* it will be refused, and only goes on to the next.
Vanishes(e) ==
  /\ managed' = managed \ {e}
  /\ foreign' = foreign \ {e}
  /\ remove' = [j \in Jobs |-> remove[j] \ {e}]

\* What has been read of the router is out of date, but for the caches of these managers.
OutOfDate(but) ==
  /\ knows' = [m \in Managers |-> IF m \in but THEN knows[m] ELSE {}]
  /\ seen' = [j \in Jobs |-> {}]

AdminRemoves == \E e \in ByHand \cap (managed \cup foreign) :
  /\ Vanishes(e)
  /\ OutOfDate({})
  /\ UNCHANGED <<wan, config, cache, holder, pc, read, found, add>>

----------------------------------------------------------------------------
\* The jobs of the managers

Goto(j, stage) == pc' = [pc EXCEPT ![j] = stage]

Reset_slip(j) ==
  /\ Goto(j, "idle")
  /\ found' = [found EXCEPT ![j] = {}]
  /\ remove' = [remove EXCEPT ![j] = {}]
  /\ seen' = [seen EXCEPT ![j] = {}]
  /\ UNCHANGED <<read, add>>

Reset(j) ==
  /\ Goto(j, "idle")
  /\ read' = [read EXCEPT ![j] = NoCache]
  /\ found' = [found EXCEPT ![j] = {}]
  /\ remove' = [remove EXCEPT ![j] = {}]
  /\ add' = [add EXCEPT ![j] = {}]
  /\ seen' = [seen EXCEPT ![j] = {}]

Stop(j) ==
  /\ Reset(j)
  /\ holder' = [m \in Managers |-> IF holder[m] = j THEN NoJob ELSE holder[m]]
  /\ UNCHANGED <<cache, knows>>

\* _cache.pop: whichever job's table that is.
Forget(m) ==
  /\ cache' = [cache EXCEPT ![m] = NoCache]
  /\ holder' = [holder EXCEPT ![m] = NoJob]
  /\ knows' = [knows EXCEPT ![m] = {}]

\* wan_service.main: a cycle, when WAN assignment is on and there are cores.
StartCycle ==
  /\ pc[Cycle] = "idle"
  /\ config.enabled
  /\ read' = [read EXCEPT ![Cycle] = config]
  /\ wan' \in AfterAssign(config, wan)
  /\ Goto(Cycle, "sync")
  /\ UNCHANGED <<config, routerVars, cacheVars, found, remove, add, seen>>

\* gui.wan_rebalance: the devices lose their WAN and are assigned anew in one
\* transaction, then the core is synced.
Rebalance(j) ==
  /\ j \in Requests
  /\ pc[j] = "idle"
  /\ config.enabled
  /\ config.lists # {}
  /\ read' = [read EXCEPT ![j] = config]
  /\ wan' \in Assigned(config, [i \in IPs |-> IF i \in Devices \ config.excluded
                                              THEN NoWan ELSE wan[i]])
  /\ Goto(j, "sync")
  /\ UNCHANGED <<config, routerVars, cacheVars, found, remove, add, seen>>

\* sync_wan_address_lists, phase 1: when the cache agrees the router is left alone,
\* unless FULL_RECONCILE_INTERVAL has passed since the last look, which it may have.
Agrees(j) == /\ cache[Manager(j)] # NoCache
             /\ Target(read[j].lists) = cache[Manager(j)]

LookAgain_slip(j) == ~Agrees(j)
LookAgain(j) == TRUE

SyncSkips(j) ==
  /\ pc[j] = "sync"
  /\ Agrees(j)
  /\ Stop(j)
  /\ UNCHANGED <<wan, config, routerVars>>

\* No connection, or an error on the way to the lists: the cache is dropped.
SyncFails(j) ==
  /\ pc[j] \in {"sync", "bind"}
  /\ LookAgain(j)
  /\ Forget(Manager(j))
  /\ Reset(j)
  /\ UNCHANGED <<wan, config, routerVars>>

\* _build_wan_cache: what is ours in the lists that could be read.
Owned_slip(lists) == {e \in managed \cup foreign : e[1] \in lists}
Owned(lists) == {e \in managed : e[1] \in lists}

\* The new table becomes the manager's cache.
Binds(j, table, lists) ==
  /\ cache' = [cache EXCEPT ![Manager(j)] = table]
  /\ holder' = [holder EXCEPT ![Manager(j)] = j]
  /\ knows' = [knows EXCEPT ![Manager(j)] = lists]

Plans(j, table) ==
  /\ remove' = [remove EXCEPT ![j] = table \ Target(read[j].lists)]
  /\ add' = [add EXCEPT ![j] = Target(read[j].lists) \ table]

\* What a job has read is at once the service's cache, which is nobody else's ...
SyncFetches ==
  /\ pc[Cycle] = "sync"
  /\ LookAgain(Cycle)
  /\ Goto(Cycle, "change")
  /\ \E readable \in SUBSET read[Cycle].lists :
       /\ Plans(Cycle, Owned(readable))
       /\ Binds(Cycle, Owned(readable), readable)
  /\ UNCHANGED <<wan, config, routerVars, read, found, seen>>

\* ... and only later the GUI's, in the place of another request's, too.
SyncReads(j) ==
  /\ j \in Requests
  /\ pc[j] = "sync"
  /\ LookAgain(j)
  /\ Goto(j, "bind")
  /\ \E readable \in SUBSET read[j].lists :
       /\ Plans(j, Owned(readable))
       /\ found' = [found EXCEPT ![j] = Owned(readable)]
       /\ seen' = [seen EXCEPT ![j] = readable]
  /\ UNCHANGED <<wan, config, routerVars, cacheVars, read>>

SyncBinds(j) ==
  /\ pc[j] = "bind"
  /\ Goto(j, "change")
  /\ Binds(j, found[j], seen[j])
  /\ found' = [found EXCEPT ![j] = {}]
  /\ seen' = [seen EXCEPT ![j] = {}]
  /\ UNCHANGED <<wan, config, routerVars, read, remove, add>>

\* A job edits its own table, which need not be the cache any more.
Holds(j) == {m \in Managers : holder[m] = j}

RemoveEntry(j) == \E e \in remove[j] :
  /\ pc[j] = "change"
  /\ Vanishes(e)
  /\ cache' = [m \in Managers |-> IF m \in Holds(j) THEN cache[m] \ {e} ELSE cache[m]]
  /\ OutOfDate(Holds(j))
  /\ UNCHANGED <<wan, config, holder, pc, read, found, add>>

\* An API error: the entry stays in the cache.
RemoveFails_slip(j) == \E e \in remove[j] :
  /\ pc[j] = "change"
  /\ remove' = [remove EXCEPT ![j] = @ \ {e}]
  /\ cache' = [m \in Managers |-> IF m \in Holds(j) THEN cache[m] \ {e} ELSE cache[m]]
  /\ UNCHANGED <<wan, config, routerVars, holder, knows, pc, read, found, add, seen>>

RemoveFails(j) == \E e \in remove[j] :
  /\ pc[j] = "change"
  /\ remove' = [remove EXCEPT ![j] = @ \ {e}]
  /\ UNCHANGED <<wan, config, routerVars, cacheVars, pc, read, found, add, seen>>

\* The router refuses a second entry with the list and address of another.
AddEntry(j) == \E e \in add[j] :
  /\ pc[j] = "change"
  /\ remove[j] = {}
  /\ e \notin managed \cup foreign
  /\ managed' = managed \cup {e}
  /\ cache' = [m \in Managers |-> IF m \in Holds(j) THEN cache[m] \cup {e} ELSE cache[m]]
  /\ add' = [add EXCEPT ![j] = @ \ {e}]
  /\ OutOfDate(Holds(j))
  /\ UNCHANGED <<wan, config, foreign, holder, pc, read, found, remove>>

AddRefused(j) == \E e \in add[j] \cap (managed \cup foreign) :
  /\ pc[j] = "change"
  /\ remove[j] = {}
  /\ add' = [add EXCEPT ![j] = @ \ {e}]
  /\ UNCHANGED <<wan, config, routerVars, cacheVars, pc, read, found, remove, seen>>

AddFails(j) == \E e \in add[j] \ (managed \cup foreign) :
  /\ pc[j] = "change"
  /\ remove[j] = {}
  /\ add' = [add EXCEPT ![j] = @ \ {e}]
  /\ UNCHANGED <<wan, config, routerVars, cacheVars, pc, read, found, remove, seen>>

SyncDone(j) ==
  /\ pc[j] = "change"
  /\ remove[j] = {}
  /\ add[j] = {}
  /\ Stop(j)
  /\ UNCHANGED <<wan, config, routerVars>>

----------------------------------------------------------------------------
\* gui.wan_purge: purge_wan_entries, the table, a rebalance

StartPurge(j) ==
  /\ j \in Requests
  /\ pc[j] = "idle"
  /\ read' = [read EXCEPT ![j] = config]
  /\ Goto(j, "purge")
  /\ UNCHANGED <<wan, config, routerVars, cacheVars, found, remove, add, seen>>

Cleared == [i \in IPs |-> IF wan[i] = NoDevice THEN NoDevice ELSE NoWan]

\* The core cannot be reached: the table is cleared, and the purge ends.
PurgeUnreachable(j) ==
  /\ pc[j] = "purge"
  /\ wan' = Cleared
  /\ Stop(j)
  /\ UNCHANGED <<config, routerVars>>

\* A list that cannot be fetched is passed over.
PurgeFetches(j) ==
  /\ pc[j] = "purge"
  /\ \E readable \in SUBSET read[j].lists :
       remove' = [remove EXCEPT ![j] = Owned(readable)]
  /\ Goto(j, "wipe")
  /\ UNCHANGED <<wan, config, routerVars, cacheVars, read, found, add, seen>>

PurgeRemoves(j) == \E e \in remove[j] :
  /\ pc[j] = "wipe"
  /\ Vanishes(e)
  /\ OutOfDate({})
  /\ UNCHANGED <<wan, config, cache, holder, pc, read, found, add>>

PurgeRemoveFails(j) == \E e \in remove[j] :
  /\ pc[j] = "wipe"
  /\ remove' = [remove EXCEPT ![j] = @ \ {e}]
  /\ UNCHANGED <<wan, config, routerVars, cacheVars, pc, read, found, add, seen>>

PurgeForgets(j) ==
  /\ pc[j] = "wipe"
  /\ remove[j] = {}
  /\ Forget("gui")
  /\ Goto(j, "clear")
  /\ UNCHANGED <<wan, config, routerVars, read, found, remove, add, seen>>

\* ... and the devices are assigned anew, or (assignment is off, or a step of the
\* purge or the assignment has failed) that is all.
PurgeAssigns(j) ==
  /\ pc[j] = "clear"
  /\ read[j].enabled
  /\ wan' \in AfterAssign(read[j], Cleared)
  /\ Goto(j, "sync")
  /\ UNCHANGED <<config, routerVars, cacheVars, read, found, remove, add, seen>>

PurgeEnds(j) ==
  /\ pc[j] = "clear"
  /\ wan' = Cleared
  /\ Stop(j)
  /\ UNCHANGED <<config, routerVars>>

----------------------------------------------------------------------------
\* An exception outside of the handlers: a database error, or a cache that another
\* request drops between the test for it and its use.
Breaks(j) ==
  /\ pc[j] \in {"sync", "clear"}
  /\ Stop(j)
  /\ UNCHANGED <<wan, config, routerVars>>

\* The program is restarted (systemd, or an application update): its jobs and its
\* cache are gone.
Restart(m) ==
  LET Killed(f, none) == [j \in Jobs |-> IF Manager(j) = m THEN none ELSE f[j]]
  IN  /\ Forget(m)
      /\ pc' = Killed(pc, "idle")
      /\ read' = Killed(read, NoCache)
      /\ found' = Killed(found, {})
      /\ remove' = Killed(remove, {})
      /\ add' = Killed(add, {})
      /\ seen' = Killed(seen, {})
      /\ UNCHANGED <<wan, config, routerVars>>

Init ==
  /\ wan = [i \in IPs |-> NoDevice]
  /\ config \in ConfigChoices
  /\ managed = {}
  /\ foreign \in SUBSET ByHand
  /\ cache = [m \in Managers |-> NoCache]
  /\ holder = [m \in Managers |-> NoJob]
  /\ knows = [m \in Managers |-> {}]
  /\ pc = [j \in Jobs |-> "idle"]
  /\ read = [j \in Jobs |-> NoCache]
  /\ found = [j \in Jobs |-> {}]
  /\ remove = [j \in Jobs |-> {}]
  /\ add = [j \in Jobs |-> {}]
  /\ seen = [j \in Jobs |-> {}]

Environment == DeviceAppears \/ DeviceLeaves \/ SaveConfig \/ AdminAdds \/ AdminRemoves

Sync(j) == \/ SyncSkips(j) \/ (j = Cycle /\ SyncFetches) \/ SyncReads(j) \/ SyncBinds(j)
           \/ RemoveEntry(j) \/ AddEntry(j) \/ AddRefused(j) \/ SyncDone(j)

Failure(j) == SyncFails(j) \/ RemoveFails(j) \/ AddFails(j) \/ Breaks(j)

Purge(j) == \/ StartPurge(j) \/ PurgeUnreachable(j) \/ PurgeFetches(j) \/ PurgeRemoves(j)
            \/ PurgeRemoveFails(j) \/ PurgeForgets(j) \/ PurgeAssigns(j) \/ PurgeEnds(j)

Next == \/ Environment \/ StartCycle
        \/ \E j \in Jobs : Rebalance(j) \/ Purge(j) \/ Sync(j) \/ Failure(j)
        \/ \E m \in Managers : Restart(m)

Spec == Init /\ [][Next]_vars

\* wan_service runs a cycle each interval, and some later cycle finds that
\* FULL_RECONCILE_INTERVAL has passed.  Nothing is assumed of the GUI, of
\* administrators or of devices.
FairSpec == Spec /\ WF_vars(StartCycle \/ Sync(Cycle)) /\ SF_vars(SyncFetches)

----------------------------------------------------------------------------
\* Properties

TypeOK ==
  /\ wan \in [IPs -> Lists \cup {NoWan, NoDevice}]
  /\ config \in ConfigChoices
  /\ managed \subseteq Entries
  /\ foreign \subseteq Entries
  /\ managed \cap foreign = {}
  /\ cache \in [Managers -> (SUBSET Entries) \cup {NoCache}]
  /\ holder \in [Managers -> Jobs \cup {NoJob}]
  /\ knows \in [Managers -> SUBSET Lists]
  /\ pc \in [Jobs -> Stages]
  /\ read \in [Jobs -> ConfigChoices \cup {NoCache}]
  /\ found \in [Jobs -> SUBSET Entries]
  /\ remove \in [Jobs -> SUBSET Entries]
  /\ add \in [Jobs -> SUBSET Entries]
  /\ seen \in [Jobs -> SUBSET Lists]
  /\ \A j \in Jobs : pc[j] = "idle" <=> read[j] = NoCache
  /\ \A m \in Managers : holder[m] # NoJob =>
       Manager(holder[m]) = m /\ pc[holder[m]] = "change" /\ cache[m] # NoCache

\* "So it never tracks (and therefore never touches) unrelated address-list
\* entries" (WANManager.__init__): whatever the two programs and the requests of
\* one do at once, an entry an administrator made stays until an administrator
\* removes it.
ForeignUntouched == [][~(AdminAdds \/ AdminRemoves) => foreign' = foreign]_vars

\* In the lists it was read from, a cache neither forgets an entry that is still on
\* the router nor remembers one that never got there, as long as the router is
\* changed by no other than the job at work on that cache: not when a removal or an
\* addition fails, when a sync breaks off half-way, when the WANs in config.json
\* change, nor when another request has read the same lists, replaces the cache by
\* its own or drops it meanwhile.  (When two requests do change the router at once,
\* the cache is wrong until the next look, for each edits a table of its own.)
CacheIsRouter == \A m \in Managers : cache[m] # NoCache =>
  {e \in cache[m] : e[1] \in knows[m]} = Owned(knows[m])

\* Are the lists what the assignment wants (but for entries an administrator made
\* first, next to which the router takes no second)?
InStep == Owned(config.lists) = Target(config.lists) \ foreign

Quiet == /\ UNCHANGED <<wan, config, foreign>>
         /\ \A j \in Jobs : pc[j] = "sync" /\ pc'[j] \in {"bind", "change"} =>
              (IF j = Cycle THEN knows'["service"] ELSE seen'[j]) = read[j].lists
         /\ StartCycle \/ \E j \in Jobs : Sync(j)

\* "Any drift (a partial failure, a manual router edit, another process touching
\* the same list) gets self-healed" (sync_wan_address_lists): once there is no new
\* trouble and the assignment rests, the router's lists become and stay what the
\* assignment wants, whatever the two caches believed at that time, and whichever
\* requests had edited them at once.
DriftHeals == (<>[][Quiet]_vars /\ <>[]config.enabled) => <>[]InStep
============================================================================
