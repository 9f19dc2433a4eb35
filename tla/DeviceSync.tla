---------------------------- MODULE DeviceSync ----------------------------
(***************************************************************************)
(* The device table of LQ-Sync and everything that writes it.              *)
(*                                                                         *)
(* The sync service (updatecsv.py, one thread) runs cycles.  A full cycle  *)
(* scans every configured router; a webhook cycle looks up the PPP users   *)
(* the routers reported, or rescans a router.  A router is read over the   *)
(* network first; its reports are then applied to the SQLite table one     *)
(* upsert at a time in one transaction, which commits or rolls back.       *)
(* After the routers, rows that are gone are removed and ShapedDevices.csv *)
(* is written.  Meanwhile subscribers come and go, routers fail, webhook   *)
(* calls arrive late, twice or never, the operator edits rows and          *)
(* config.json in the GUI, and the service crashes and is restarted.       *)
(*                                                                         *)
(* Time: only the comparison last_seen < scan_time is read, so a row       *)
(* carries seen == last_seen >= scan_time of the cycle in progress.  Every *)
(* scan_time is later than all times before it (time.time() does not go    *)
(* back), so no row is seen while no cycle runs.                           *)
(*                                                                         *)
(* A definition X_slip is X with a mistake the code could contain.  No     *)
(* behaviour of Spec uses it: each property is tried against one slip.     *)
(***************************************************************************)
EXTENDS Naturals, FiniteSets

CONSTANTS
  Routers,        \* router names
  Codes,          \* device codes: PPP-<user>, HS-<mac>, DHCP-<mac>, ADDR-<ip> or a comment
  IPs,            \* IPv4 addresses
  Priority,       \* settings.json database.source_priority, as a function of the source
  Reportable,     \* Reportable[r]: what router r can report
  Steady,         \* <<r, report>> pairs that stay connected for ever
  PppCodes,       \* the codes PPP-<user> of users a webhook call can name
  Calls,          \* the webhook calls that can arrive, and the rescans the GUI can ask for
  PppSynced,      \* routers with pppoe.enabled
  FullScanOver,   \* webhook.full_scan_over
  ConfigChoices,  \* the sets of routers config.json may list
  GuiRows,        \* rows an operator may enter: [code, ip, src, router]
  GuiOps,         \* which of "add", "update", "delete", "flush" the operator uses
  NoRow, NoIP, NoRouter, Rescan

Sources == {"pppoe", "hotspot", "dhcp", "address_list"}

\* scan_router applies the sources of a router in this order.
ScanOrder == [pppoe |-> 1, hotspot |-> 2, dhcp |-> 3, address_list |-> 4]

Report == [code: Codes, src: Sources, ip: IPs \cup {NoIP}]
Row    == [ip: IPs \cup {NoIP}, src: Sources, router: Routers, seen: BOOLEAN, static: BOOLEAN]

ASSUME ConstantsAssumption ==
  /\ Priority \in [Sources -> Nat]
  /\ Reportable \in [Routers -> SUBSET Report]
  /\ Steady \subseteq {s \in Routers \X Report : s[2] \in Reportable[s[1]]}
  /\ PppCodes \subseteq Codes
  /\ Calls \subseteq [router: Routers, user: PppCodes \cup {Rescan}]
  /\ PppSynced \subseteq Routers
  /\ FullScanOver \in Nat
  /\ ConfigChoices \subseteq SUBSET Routers /\ ConfigChoices # {}
  /\ GuiRows \subseteq [code: Codes, ip: IPs \cup {NoIP}, src: Sources, router: Routers]
  /\ GuiOps \subseteq {"add", "update", "delete", "flush"}

ASSUME SentinelsAssumption ==
  /\ NoRow \notin Row
  /\ NoIP \notin IPs
  /\ NoRouter \notin Routers
  /\ Rescan \notin PppCodes

VARIABLES
  live,      \* live[r]: sessions, leases and list entries on router r now
  config,    \* routers listed in config.json now
  disk,      \* the devices table as committed (what the GUI reads and writes)
  rows,      \* the devices table as the sync service's connection sees it
  csv,       \* ShapedDevices.csv: the <<code, ip>> pairs LibreQoS shapes
  pending,   \* webhook_events not processed yet
  flushing,  \* the GUI's flush has cleared the table but not the files yet
  pc,        \* the sync service: "wait" | "route" | "upsert" | "export"
  due,       \* now >= next_full_at
  kind,      \* the cycle in progress: "full" | "webhook"
  cfg,       \* the routers of the config this cycle read
  taken,     \* the webhook events this cycle took
  left,      \* routers this cycle has still to process
  cur,       \* the router being processed
  ok,        \* scanned_ok
  todo,      \* reports read from cur, not applied yet
  gone,      \* users cur has no session for, not removed yet
  heard,     \* history: <<router, report>> applied since this cycle began
  edited     \* history: the operator changed the table since this cycle began

tableVars == <<disk, rows>>
cycleVars == <<kind, cfg, taken, left, cur, ok, todo, gone, heard>>
vars == <<live, config, disk, rows, csv, pending, flushing, pc, due, kind, cfg, taken, left,
          cur, ok, todo, gone, heard, edited>>

----------------------------------------------------------------------------
\* Operators on a devices table

Present(t)   == {c \in Codes : t[c] # NoRow}
Holders(t, ip) == {c \in Present(t) : t[c].ip = ip}
Dynamic(t)   == {c \in Present(t) : ~t[c].static}
Exported_slip(t) == {<<c, t[c].ip>> : c \in Present(t)}
Exported(t)  == {<<c, t[c].ip>> : c \in {x \in Present(t) : t[x].ip # NoIP}}
Without(t, C) == [c \in Codes |-> IF c \in C THEN NoRow ELSE t[c]]
NewScan(t)   == [c \in Codes |-> IF t[c] = NoRow THEN NoRow ELSE [t[c] EXCEPT !.seen = FALSE]]

\* DeviceDatabase.upsert_device: who may be made to give an IP up ...
Yields_slip(t, c, src) == ~t[c].static
Yields(t, c, src) == /\ ~t[c].static
                     /\ ~t[c].seen \/ Priority[src] > Priority[t[c].src]

Freed_slip(t, C) == t
Freed(t, C) == [c \in Codes |-> IF c \in C THEN [t[c] EXCEPT !.ip = NoIP] ELSE t[c]]

\* ... and the row that is written (a static row only gets its last_seen).
Written_slip(t, rep, r) ==
  [ip |-> rep.ip, src |-> rep.src, router |-> r, seen |-> TRUE,
   static |-> t[rep.code] # NoRow /\ t[rep.code].static]
Written(t, rep, r) ==
  IF t[rep.code] # NoRow /\ t[rep.code].static
  THEN [t[rep.code] EXCEPT !.seen = TRUE]
  ELSE [ip |-> rep.ip, src |-> rep.src, router |-> r, seen |-> TRUE, static |-> FALSE]

Upserted(t, rep, r) ==
  LET conflict == Holders(t, rep.ip) \ {rep.code}
  IN  IF \A c \in conflict : Yields(t, c, rep.src)
      THEN [Freed(t, conflict) EXCEPT ![rep.code] = Written(t, rep, r)]
      ELSE t

\* DeviceDatabase.remove_device
Removed_slip(t, c, r) == IF c \in Dynamic(t) THEN Without(t, {c}) ELSE t
Removed(t, c, r) ==
  IF c \in Dynamic(t) /\ t[c].router = r THEN Without(t, {c}) ELSE t

\* DeviceDatabase.remove_inactive
Inactive_slipScan(t, scanned, configured) ==
  {c \in Dynamic(t) : t[c].router \notin configured}
Inactive_slipConfig(t, scanned, configured) ==
  {c \in Dynamic(t) : t[c].router \in scanned /\ ~t[c].seen}
Inactive(t, scanned, configured) ==
  {c \in Dynamic(t) : \/ t[c].router \in scanned /\ ~t[c].seen
                      \/ t[c].router \notin configured}

----------------------------------------------------------------------------
\* Subscribers, the webhook, the clock, the operator

\* The write lock: SQLite holds it from the first write of a transaction on.
WriteLocked == rows # disk

SessionStart == \E r \in Routers : \E rep \in Reportable[r] \ live[r] :
  /\ live' = [live EXCEPT ![r] = @ \cup {rep}]
  /\ UNCHANGED <<config, tableVars, csv, pending, flushing, pc, due, cycleVars, edited>>

SessionEnd == \E r \in Routers : \E rep \in live[r] :
  /\ <<r, rep>> \notin Steady
  /\ live' = [live EXCEPT ![r] = @ \ {rep}]
  /\ UNCHANGED <<config, tableVars, csv, pending, flushing, pc, due, cycleVars, edited>>

\* gui.mikrotik_webhook and request_rescan.  Nothing ties a call to the session
\* change it reports: calls are lost, late, repeated, or name no user.
WebhookCall == \E e \in Calls :
  /\ e.router \in config
  /\ ~WriteLocked
  /\ pending' = pending \cup {e}
  /\ UNCHANGED <<live, config, tableVars, csv, flushing, pc, due, cycleVars, edited>>

SaveConfig == \E c \in ConfigChoices \ {config} :
  /\ config' = c
  /\ UNCHANGED <<live, tableVars, csv, pending, flushing, pc, due, cycleVars, edited>>

FullScanDue ==
  /\ ~due
  /\ due' = TRUE
  /\ UNCHANGED <<live, config, tableVars, csv, pending, flushing, pc, cycleVars, edited>>

\* A change of the table by the GUI's own connection.
GuiWrites(op, t) ==
  /\ op \in GuiOps
  /\ ~WriteLocked
  /\ disk' = t
  /\ rows' = t
  /\ edited' = TRUE
  /\ UNCHANGED <<live, config, csv, pending, pc, due, cycleVars>>

\* gui.add_device: a static row, last_seen = now; the schema refuses a second
\* row with the code or the IP.
AddDevice == \E g \in GuiRows :
  /\ disk[g.code] = NoRow
  /\ g.ip = NoIP \/ Holders(disk, g.ip) = {}
  /\ GuiWrites("add", [disk EXCEPT ![g.code] = [ip |-> g.ip, src |-> g.src, router |-> g.router,
                                                seen |-> pc # "wait", static |-> TRUE]])
  /\ UNCHANGED flushing

\* gui.update_device: last_seen and is_static stay.
UpdateDevice == \E g \in GuiRows :
  /\ disk[g.code] # NoRow
  /\ g.ip = NoIP \/ Holders(disk, g.ip) \subseteq {g.code}
  /\ GuiWrites("update", [disk EXCEPT ![g.code] = [@ EXCEPT !.ip = g.ip, !.src = g.src,
                                                            !.router = g.router]])
  /\ UNCHANGED flushing

DeleteDevice == \E c \in Present(disk) :
  /\ GuiWrites("delete", Without(disk, {c}))
  /\ UNCHANGED flushing

\* gui.flush_data clears the table, then the files, in two steps; it goes on to
\* the files when the table could not be cleared.
FlushTable ==
  /\ ~flushing
  /\ GuiWrites("flush", Without(disk, Codes))
  /\ flushing' = TRUE

FlushTableFails ==
  /\ "flush" \in GuiOps
  /\ ~flushing
  /\ WriteLocked
  /\ flushing' = TRUE
  /\ UNCHANGED <<live, config, tableVars, csv, pending, pc, due, cycleVars, edited>>

FlushFiles ==
  /\ flushing
  /\ flushing' = FALSE
  /\ csv' = {}
  /\ edited' = TRUE
  /\ UNCHANGED <<live, config, tableVars, pending, pc, due, cycleVars>>

----------------------------------------------------------------------------
\* The sync service

Users(r) == {e.user : e \in {x \in taken : x.router = r}} \ {Rescan}

\* Is router r read completely in this cycle, or only the users reported?
Full(r) == \/ kind = "full"
           \/ [router |-> r, user |-> Rescan] \in taken
           \/ Cardinality(Users(r)) > FullScanOver

BeginCycle(k, events, routers) ==
  /\ kind' = k
  /\ cfg' = config
  /\ taken' = events
  /\ left' = routers
  /\ pending' = {}
  /\ ok' = {}
  /\ heard' = {}
  /\ edited' = FALSE
  /\ pc' = "route"
  /\ UNCHANGED <<live, config, tableVars, csv, flushing, due, cur, todo, gone>>

\* A full cycle takes the waiting events and drops them: it reads every router.
StartFull ==
  /\ pc = "wait"
  /\ due
  /\ BeginCycle("full", {}, config)

StartWebhook ==
  /\ pc = "wait"
  /\ ~due
  /\ pending # {}
  /\ BeginCycle("webhook", pending, {r \in config : \E e \in pending : e.router = r})

\* config.json cannot be used: the cycle is skipped, the events it took are gone.
SkipWebhook ==
  /\ pc = "wait"
  /\ ~due
  /\ pending # {}
  /\ pending' = {}
  /\ UNCHANGED <<live, config, tableVars, csv, flushing, pc, due, cycleVars, edited>>

\* scan_router / apply_ppp_events: everything is read before the table is touched.
\* Reports without an address are not applied, but they show that a user is connected.
ReadRouter == \E r \in left :
  LET synced   == {rep \in live[r] : rep.src = "pppoe" => r \in PppSynced}
      sessions == {rep \in synced : rep.src = "pppoe" /\ rep.code \in Users(r)}
      seen     == IF Full(r) THEN synced ELSE sessions
  IN  /\ pc = "route"
      /\ pc' = "upsert"
      /\ cur' = r
      /\ left' = left \ {r}
      /\ todo' = {rep \in seen : rep.ip # NoIP}
      /\ gone' = IF Full(r) \/ r \notin PppSynced
                 THEN {} ELSE Users(r) \ {rep.code : rep \in sessions}
      /\ UNCHANGED <<live, config, tableVars, csv, pending, flushing, due, kind, cfg, taken,
                     ok, heard, edited>>

\* Connection or read failure: nothing is written, the router is not scanned_ok.
ReadFails == \E r \in left :
  /\ pc = "route"
  /\ left' = left \ {r}
  /\ UNCHANGED <<live, config, tableVars, csv, pending, flushing, pc, due, kind, cfg, taken,
                 cur, ok, todo, gone, heard, edited>>

Upsert == \E rep \in todo :
  /\ pc = "upsert"
  /\ \A other \in todo : ScanOrder[rep.src] <= ScanOrder[other.src]
  /\ rows' = Upserted(rows, rep, cur)
  /\ todo' = todo \ {rep}
  /\ heard' = heard \cup {<<cur, rep>>}
  /\ UNCHANGED <<live, config, disk, csv, pending, flushing, pc, due, kind, cfg, taken, left,
                 cur, ok, gone, edited>>

RemoveDevice == \E c \in gone :
  /\ pc = "upsert"
  /\ rows' = Removed(rows, c, cur)
  /\ gone' = gone \ {c}
  /\ UNCHANGED <<live, config, disk, csv, pending, flushing, pc, due, kind, cfg, taken, left,
                 cur, ok, todo, heard, edited>>

CommitRouter_slip ==
  /\ pc = "upsert"
  /\ todo = {}
  /\ gone = {}
  /\ disk' = rows
  /\ ok' = ok \cup {cur}
  /\ pc' = "route"
  /\ UNCHANGED <<live, config, rows, csv, pending, flushing, due, kind, cfg, taken, left, cur,
                 todo, gone, heard, edited>>

CommitRouter ==
  /\ pc = "upsert"
  /\ todo = {}
  /\ gone = {}
  /\ disk' = rows
  /\ ok' = IF Full(cur) THEN ok \cup {cur} ELSE ok
  /\ pc' = "route"
  /\ UNCHANGED <<live, config, rows, csv, pending, flushing, due, kind, cfg, taken, left, cur,
                 todo, gone, heard, edited>>

\* An exception while a router's reports are applied (a UNIQUE or CHECK error, a
\* locked database).
RollbackRouter ==
  /\ pc = "upsert"
  /\ rows' = disk
  /\ todo' = {}
  /\ gone' = {}
  /\ heard' = {h \in heard : h[1] # cur}
  /\ pc' = "route"
  /\ UNCHANGED <<live, config, disk, csv, pending, flushing, due, kind, cfg, taken, left, cur,
                 ok, edited>>

\* build_and_apply: remove_inactive and its commit.
RemoveInactive ==
  /\ pc = "route"
  /\ left = {}
  /\ rows' = Without(rows, Inactive(rows, ok, cfg))
  /\ disk' = rows'
  /\ pc' = "export"
  /\ UNCHANGED <<live, config, csv, pending, flushing, due, cycleVars, edited>>

\* The cycle's local variables go out of scope; a transaction still open is
\* dropped (none is, unless the process dies).  The next scan_time is later
\* than every last_seen in the table.
EndCycle ==
  /\ rows' = NewScan(disk)
  /\ disk' = NewScan(disk)
  /\ pc' = "wait"
  /\ kind' = "full"
  /\ cfg' = {}
  /\ taken' = {}
  /\ left' = {}
  /\ cur' = NoRouter
  /\ ok' = {}
  /\ todo' = {}
  /\ gone' = {}
  /\ heard' = {}
  /\ edited' = FALSE

\* build_and_apply: export_to_csv; main sets next_full_at after a full cycle.
Export ==
  /\ pc = "export"
  /\ csv' = Exported(rows)
  /\ due' = (due /\ kind # "full")
  /\ EndCycle
  /\ UNCHANGED <<live, config, pending, flushing>>

\* An exception in build_and_apply: main logs it and retries; a full scan stays due.
BuildFails ==
  /\ pc = "export" \/ (pc = "route" /\ left = {})
  /\ EndCycle
  /\ UNCHANGED <<live, config, csv, pending, flushing, due>>

\* The process dies and systemd starts it again: SQLite drops the open
\* transaction, and main begins with a full scan.
Crash ==
  /\ due' = TRUE
  /\ EndCycle
  /\ UNCHANGED <<live, config, csv, pending, flushing>>

----------------------------------------------------------------------------
Init ==
  /\ live = [r \in Routers |-> {rep \in Reportable[r] : <<r, rep>> \in Steady}]
  /\ config \in ConfigChoices
  /\ rows = [c \in Codes |-> NoRow]
  /\ disk = rows
  /\ csv = {}
  /\ pending = {}
  /\ flushing = FALSE
  /\ pc = "wait"
  /\ due = TRUE
  /\ kind = "full"
  /\ cfg = {}
  /\ taken = {}
  /\ left = {}
  /\ cur = NoRouter
  /\ ok = {}
  /\ todo = {}
  /\ gone = {}
  /\ heard = {}
  /\ edited = FALSE

Environment == SessionStart \/ SessionEnd \/ WebhookCall \/ SaveConfig \/ FullScanDue

Operator == AddDevice \/ UpdateDevice \/ DeleteDevice \/ FlushTable \/ FlushTableFails \/ FlushFiles

Sync == \/ StartFull \/ StartWebhook \/ SkipWebhook
        \/ ReadRouter \/ ReadFails
        \/ Upsert \/ RemoveDevice \/ CommitRouter \/ RollbackRouter
        \/ RemoveInactive \/ Export \/ BuildFails
        \/ Crash

Next == Environment \/ Operator \/ Sync

Spec == Init /\ [][Next]_vars

\* The service is always scheduled and the scan timer runs.  Nothing is assumed
\* of subscribers, webhook calls, routers or the operator.
Progress == \/ StartFull \/ StartWebhook \/ ReadRouter \/ Upsert \/ RemoveDevice
            \/ CommitRouter \/ RemoveInactive \/ Export

FairSpec == Spec /\ WF_vars(Progress) /\ WF_vars(FullScanDue) /\ WF_vars(FlushFiles)

----------------------------------------------------------------------------
\* Properties

\* The shape of the state; every row of the table is a row the schema allows.
Table == [Codes -> Row \cup {NoRow}]

TypeOK ==
  /\ live \in [Routers -> SUBSET Report]
  /\ config \in ConfigChoices
  /\ disk \in Table
  /\ rows \in Table
  /\ csv \subseteq Codes \X IPs
  /\ pending \subseteq Calls
  /\ flushing \in BOOLEAN
  /\ pc \in {"wait", "route", "upsert", "export"}
  /\ due \in BOOLEAN
  /\ kind \in {"full", "webhook"}
  /\ cfg \subseteq Routers
  /\ taken \subseteq Calls
  /\ left \subseteq Routers
  /\ cur \in Routers \cup {NoRouter}
  /\ pc = "upsert" => cur \in Routers
  /\ ok \subseteq Routers
  /\ todo \subseteq {rep \in Report : rep.ip # NoIP}
  /\ gone \subseteq Codes
  /\ heard \subseteq Routers \X Report
  /\ edited \in BOOLEAN

OneHolder(t) == \A ip \in IPs : \A c, d \in Holders(t, ip) : c = d

\* No two devices ever hold the same IP, in the table or in the transaction that
\* is building it, whatever order reports, operators, rollbacks and crashes come
\* in: upsert_device resolves every conflict before the schema's UNIQUE(ipv4)
\* would refuse the row and fail the whole router.
UniqueIPs == OneHolder(rows) /\ OneHolder(disk)

SameStatic(c) == /\ rows'[c] # NoRow
                 /\ rows'[c] = [rows[c] EXCEPT !.seen = rows'[c].seen]

\* "Any device stored with is_static = 1 is never overwritten or deleted by the
\* sync loop" (CONFIG.md): no step of the sync service changes a static row but
\* for its last_seen, not even by taking back a transaction.
StaticRowsKept == [][Sync => \A c \in Codes :
                       (rows[c] # NoRow /\ rows[c].static) => SameStatic(c)]_vars

Contends(h, k) == /\ h[2].code = k[2].code
                  /\ h[2].ip # k[2].ip \/ h[2].src # k[2].src

\* Was the IP of h heard for a code whose row another report of that code, or the
\* operator's own entry of that code, kept from holding it?
Displaced(h) == \E g \in heard :
  /\ g[2].ip = h[2].ip
  /\ \/ \E k \in heard : Contends(g, k)
     \/ rows[g[2].code] # NoRow /\ rows[g[2].code].static

HeldFor(h) == \E c \in Holders(rows, h[2].ip) :
  rows[c].static \/ Priority[rows[c].src] >= Priority[h[2].src]

\* "When the same IP is seen from multiple sources in one scan cycle, the
\* highest-priority source wins" (CONFIG.md), across routers, whichever is read
\* first, in full and webhook cycles and through rollbacks: an IP some router
\* reported in this cycle is held, and by a device that outranks the report.
\* Excepted: codes reported with two IPs (address-list entries of two routers with
\* one comment share a code) or by two sources (a comment may be the code of another
\* source's device), static devices, and cycles in which the operator changes the table.
HighestPriorityWins == edited \/ \A h \in heard : HeldFor(h) \/ Displaced(h)

\* After the removal step nothing is left of what is gone: each dynamic row of a
\* router that was read completely was reported in this cycle, by the router the
\* row names, and each other row's router is configured.
NoGhosts == (pc = "export" /\ ~edited) =>
  \A c \in Dynamic(rows) :
    /\ rows[c].router \in cfg
    /\ rows[c].router \in ok =>
         \E h \in heard : h[1] = rows[c].router /\ h[2].code = c

\* A connected subscriber on whom nobody else has a claim: no other report has its
\* code, those with its IP come from its own router, later in the scan and from no
\* better source; its sessions are synced, its router stays configured, and the
\* operator neither deletes rows nor enters one with its code.
Uncontested(s) == LET r == s[1]  rep == s[2] IN
  /\ rep.ip # NoIP
  /\ \A x \in Routers : \A other \in Reportable[x] :
       /\ other.code = rep.code => x = r /\ other = rep
       /\ other.ip = rep.ip /\ other # rep =>
            /\ x = r
            /\ ScanOrder[other.src] > ScanOrder[rep.src] /\ Priority[other.src] <= Priority[rep.src]
  /\ rep.src = "pppoe" => r \in PppSynced
  /\ rep.code \in PppCodes => rep.src = "pppoe"
  /\ \A routers \in ConfigChoices : r \in routers
  /\ \A g \in GuiRows : g.code # rep.code
  /\ GuiOps \cap {"delete", "flush"} = {}

\* A subscriber that stays connected is never dropped from the file, once it is
\* there: not by router outages, lost or spurious webhook calls, other users'
\* sessions and removals, rollbacks, failed builds or crashes.
SteadyStaysShaped == [][\A s \in Steady :
  LET entry == <<s[2].code, s[2].ip>> IN entry \in csv => entry \in csv']_vars

\* Steps after which the service is not where it would be without them.  A step
\* that regular work could also take is none: a restart while the service waits
\* is no more than a full scan that falls due.
Fault == /\ ReadFails \/ RollbackRouter \/ BuildFails \/ SkipWebhook \/ Crash \/ Operator
         /\ ~(Progress \/ FullScanDue)

FaultsStop == <>[][~Fault]_vars

Connected(c) == \E r \in Routers : \E rep \in live[r] : rep.code = c
ShapedCode(c) == \E e \in csv : e[1] = c

\* A subscriber who is gone for good is not shaped for ever: once faults stop,
\* its entry leaves the file, whether or not a webhook call said so.
GhostsAgeOut == FaultsStop =>
  \A c \in Codes : <>[](~Connected(c)) => <>[](~ShapedCode(c))

\* A subscriber that stays connected is in the file for good once faults stop,
\* whatever outages, rollbacks, crashes and unusable configs went before, and
\* although routers it is not on go on reporting it gone.
SteadyGetsShaped == FaultsStop =>
  \A s \in Steady : <>[](<<s[2].code, s[2].ip>> \in csv)

\* What remove_inactive's comment says: "a router outage or API error never
\* strips shaping from its subscribers".  A device of a configured router that
\* could not be read in this full cycle keeps an IP while others are read.
OutageKeepsShaping == [][Upsert => \A c \in Dynamic(rows) :
  (/\ kind = "full"
   /\ rows[c].router \in cfg \ (left \cup ok \cup {cur})
   /\ rows[c].ip # NoIP) => rows'[c].ip # NoIP]_vars
============================================================================
