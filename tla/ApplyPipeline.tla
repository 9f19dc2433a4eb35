--------------------------- MODULE ApplyPipeline ---------------------------
(***************************************************************************)
(* From the device table to a running LibreQoS (updatecsv.build_and_apply  *)
(* and main).                                                              *)
(*                                                                         *)
(* A cycle lets the strategy give every device a parent node, writes       *)
(* network.json and ShapedDevices.csv when their content changed, and runs *)
(* the LibreQoS update when one of them did, when the last update failed   *)
(* (update_pending, kept in memory only) or when the operator asked for it *)
(* (an "apply" row in the webhook_events table).  In between, any step can *)
(* raise, network.json can fail to be written, config.json can be          *)
(* unusable, the operator edits devices or flushes everything, and the     *)
(* service crashes and is restarted.                                       *)
(*                                                                         *)
(* Which devices exist is decided in DeviceSync; here a cycle starts with  *)
(* an arbitrary set of them.  A file is abstracted to what the other one   *)
(* and LibreQoS see of it: network.json to its set of nodes,               *)
(* ShapedDevices.csv to the parent node of each listed device.             *)
(*                                                                         *)
(* A definition X_slip is X with a mistake the code could contain.  No     *)
(* behaviour of Spec uses it: each property is tried against one slip.     *)
(***************************************************************************)
EXTENDS Naturals

CONSTANTS
  Devices,
  Nodes,
  Happens,      \* which of EventKinds happen
  RunsUpdate,   \* scanner.libreqos_update_command is not empty
  NoParent,     \* a device without a parent node
  NoDevice,     \* no such device (in the table, in the file)
  Blank         \* the text of a flushed file: no build ever writes it

\* Mishaps: a step of the build raises, network.json cannot be written, the update
\* fails, config.json is unusable, the service crashes.  The operator: edits a
\* device, flushes everything, asks for a re-apply.
EventKinds == {"build", "network", "update", "config", "crash", "edit", "flush", "request"}

Parent == Nodes \cup {NoParent}
Listing == [Devices -> Parent \cup {NoDevice}]

\* network.json and ShapedDevices.csv as flush_data leaves them.
BlankNet == {Blank}
BlankCsv == [d \in Devices |-> Blank]

Stages == {"wait", "scan", "assign", "network", "export", "decide", "apply"}
FlushStages == {"", "csv", "net"}

NetFile == SUBSET (Nodes \cup {Blank})
CsvFile == [Devices -> Parent \cup {NoDevice, Blank}]

ASSUME HappensAssumption == Happens \subseteq EventKinds /\ RunsUpdate \in BOOLEAN
ASSUME DistinctAssumption ==
  /\ {NoParent, NoDevice, Blank} \cap Nodes = {}
  /\ NoParent # NoDevice /\ NoParent # Blank /\ NoDevice # Blank

VARIABLES
  nodes,          \* the nodes the strategy makes of the configuration now
  queues,         \* config.json "queues" is not false: network.json is built
  parent,         \* the table: each device's parent_node
  net,            \* network.json
  csv,            \* ShapedDevices.csv
  loaded,         \* what LibreQoS's last update read of the two files
  applyAsked,     \* an "apply" event waits in webhook_events
  flushing,       \* gui.flush_data: the file it clears next
  pc,             \* the sync service: where its cycle is
  due,            \* now >= next_full_at
  full,           \* this cycle is a full scan
  forced,         \* update_pending or force_apply of this cycle
  plan,           \* the nodes of the config this cycle read: its network_config
  building,       \* "queues" of that config
  changed,        \* network_changed or csv_changed
  updatePending,  \* update_pending of main
  disturbed,      \* history: since this cycle began network.json could not be written,
                  \* or was flushed, or the operator edited a parent
  lost            \* history: a cycle broke off that had a reason to run the update

files == <<net, csv>>
guiVars == <<applyAsked, flushing>>
history == <<disturbed, lost>>
localVars == <<full, forced, plan, building, changed>>
vars == <<nodes, queues, parent, net, csv, loaded, applyAsked, flushing, pc, due, full, forced,
          plan, building, changed, updatePending, history>>

----------------------------------------------------------------------------
\* The operator and the configuration

\* gui.save_config, or devices and settings that change the tree.
Reconfigure == \E n \in SUBSET Nodes, q \in BOOLEAN :
  /\ nodes' = n
  /\ queues' = q
  /\ UNCHANGED <<parent, files, loaded, guiVars, pc, due, localVars, updatePending, history>>

\* gui._retry_job -> request_apply: the Fix button's "rebuild and re-apply".
RequestApply ==
  /\ "request" \in Happens
  /\ applyAsked' = TRUE
  /\ UNCHANGED <<nodes, queues, parent, files, loaded, flushing, pc, due, localVars, updatePending,
                 history>>

\* gui.update_device writes whatever parent node the form holds.
EditParent == \E d \in Devices, p \in Parent :
  /\ "edit" \in Happens
  /\ parent[d] # NoDevice
  /\ parent' = [parent EXCEPT ![d] = p]
  /\ disturbed' = TRUE
  /\ UNCHANGED <<nodes, queues, files, loaded, guiVars, pc, due, localVars, updatePending, lost>>

\* gui.flush_data: the table, then ShapedDevices.csv, then network.json; it goes
\* on to the files when the table could not be cleared.
FlushTable_slip ==
  /\ "flush" \in Happens
  /\ flushing = ""
  /\ flushing' = "csv"
  /\ parent' = BlankCsv
  /\ UNCHANGED <<nodes, queues, files, loaded, applyAsked, pc, due, localVars, updatePending, history>>

FlushTable ==
  /\ "flush" \in Happens
  /\ flushing = ""
  /\ flushing' = "csv"
  /\ parent' \in {parent, [d \in Devices |-> NoDevice]}
  /\ UNCHANGED <<nodes, queues, files, loaded, applyAsked, pc, due, localVars, updatePending, history>>

FlushCsv ==
  /\ flushing = "csv"
  /\ flushing' = "net"
  /\ csv' = BlankCsv
  /\ UNCHANGED <<nodes, queues, parent, net, loaded, applyAsked, pc, due, localVars, updatePending,
                 history>>

FlushNet ==
  /\ flushing = "net"
  /\ flushing' = ""
  /\ net' = BlankNet
  /\ disturbed' = TRUE
  /\ UNCHANGED <<nodes, queues, parent, csv, loaded, applyAsked, pc, due, localVars, updatePending,
                 lost>>

----------------------------------------------------------------------------
\* The sync service: main, wait_for_work

FullScanDue ==
  /\ ~due
  /\ due' = TRUE
  /\ UNCHANGED <<nodes, queues, parent, files, loaded, guiVars, pc, localVars, updatePending, history>>

BeginCycle(isFull, force) ==
  /\ pc = "wait"
  /\ pc' = "scan"
  /\ full' = isFull
  /\ forced' = force
  /\ plan' = nodes
  /\ building' = queues
  /\ applyAsked' = FALSE
  /\ disturbed' = FALSE
  /\ UNCHANGED <<nodes, queues, parent, files, loaded, flushing, due, changed, updatePending, lost>>

\* main: a full scan takes all waiting events and drops them.
StartFull == due /\ BeginCycle(TRUE, updatePending)

\* run_webhook_cycle: an "apply" event forces the update; other events may be
\* there as well, or alone.
StartWebhook == ~due /\ BeginCycle(FALSE, updatePending \/ applyAsked)

\* config.json cannot be used: the events wait_for_work took are gone.
SkipWebhook ==
  /\ "config" \in Happens
  /\ pc = "wait"
  /\ ~due
  /\ applyAsked' = FALSE
  /\ UNCHANGED <<nodes, queues, parent, files, loaded, flushing, pc, due, localVars, updatePending,
                 history>>

\* The routers are read and the table updated (DeviceSync): new devices have no
\* parent node yet.
Scan == \E D \in SUBSET Devices :
  /\ pc = "scan"
  /\ pc' = "assign"
  /\ parent' = [d \in Devices |-> IF d \notin D THEN NoDevice
                                  ELSE IF parent[d] = NoDevice THEN NoParent ELSE parent[d]]
  /\ UNCHANGED <<nodes, queues, files, loaded, guiVars, due, localVars, updatePending, history>>

\* NodeAssigner.assign up to its commit: every device's parent is one of the
\* strategy's nodes or none.  Without queues no parent is left, and network.json
\* is not written.
Assign_slip == \E a \in [Devices -> Parent] :
  /\ pc = "assign"
  /\ parent' = [d \in Devices |-> IF parent[d] = NoDevice THEN NoDevice ELSE a[d]]
  /\ pc' = IF building THEN "network" ELSE "export"
  /\ UNCHANGED <<nodes, queues, files, loaded, guiVars, due, localVars, updatePending, history>>

Assign == \E a \in [Devices -> (IF building THEN plan ELSE {}) \cup {NoParent}] :
  /\ pc = "assign"
  /\ parent' = [d \in Devices |-> IF parent[d] = NoDevice THEN NoDevice ELSE a[d]]
  /\ pc' = IF building THEN "network" ELSE "export"
  /\ UNCHANGED <<nodes, queues, files, loaded, guiVars, due, localVars, updatePending, history>>

\* write_network_json: replaced only if its content changes ...
WriteNetwork ==
  /\ pc = "network"
  /\ pc' = "export"
  /\ net' = plan
  /\ changed' = (net # plan)
  /\ UNCHANGED <<nodes, queues, parent, csv, loaded, guiVars, due, full, forced, plan, building,
                 updatePending, history>>

\* ... and an error is logged and counts as "not changed".
WriteNetworkFails ==
  /\ "network" \in Happens
  /\ pc = "network"
  /\ pc' = "export"
  /\ disturbed' = TRUE
  /\ UNCHANGED <<nodes, queues, parent, files, loaded, guiVars, due, localVars, updatePending, lost>>

\* export_to_csv
ExportCsv_slip ==
  /\ pc = "export"
  /\ pc' = "decide"
  /\ csv' = IF changed THEN parent ELSE csv
  /\ changed' = (changed \/ csv # csv')
  /\ UNCHANGED <<nodes, queues, parent, net, loaded, guiVars, due, full, forced, plan, building,
                 updatePending, history>>

ExportCsv ==
  /\ pc = "export"
  /\ pc' = "decide"
  /\ csv' = parent
  /\ changed' = (changed \/ csv # parent)
  /\ UNCHANGED <<nodes, queues, parent, net, loaded, guiVars, due, full, forced, plan, building,
                 updatePending, history>>

\* The cycle ends, its local variables go out of scope.
EndCycle ==
  /\ pc' = "wait"
  /\ full' = FALSE
  /\ forced' = FALSE
  /\ plan' = {}
  /\ building' = FALSE
  /\ changed' = FALSE

\* main, after build_and_apply returned.
CycleDone == EndCycle /\ due' = (due /\ ~full)

Decide_slip ==
  /\ pc = "decide"
  /\ IF changed
     THEN pc' = "apply" /\ UNCHANGED <<due, localVars, updatePending>>
     ELSE CycleDone /\ updatePending' = updatePending
  /\ UNCHANGED <<nodes, queues, parent, files, loaded, guiVars, history>>

Decide ==
  /\ pc = "decide"
  /\ IF changed \/ forced
     THEN pc' = "apply" /\ UNCHANGED <<due, localVars, updatePending>>
     ELSE CycleDone /\ updatePending' = FALSE
  /\ UNCHANGED <<nodes, queues, parent, files, loaded, guiVars, history>>

\* run_libreqos_update.  With an empty command nothing runs and it succeeds.
UpdateSucceeds ==
  /\ pc = "apply"
  /\ loaded' = IF RunsUpdate THEN files ELSE loaded
  /\ updatePending' = FALSE
  /\ lost' = FALSE
  /\ CycleDone
  /\ UNCHANGED <<nodes, queues, parent, files, guiVars, disturbed>>

\* A non-zero exit or a timeout, before or after LibreQoS loaded the files.
UpdateFails_slip ==
  /\ "update" \in Happens
  /\ RunsUpdate
  /\ pc = "apply"
  /\ loaded' \in {loaded, files}
  /\ updatePending' = FALSE
  /\ CycleDone
  /\ UNCHANGED <<nodes, queues, parent, files, guiVars, disturbed, lost>>

UpdateFails ==
  /\ "update" \in Happens
  /\ RunsUpdate
  /\ pc = "apply"
  /\ loaded' \in {loaded, files}
  /\ updatePending' = TRUE
  /\ CycleDone
  /\ UNCHANGED <<nodes, queues, parent, files, guiVars, disturbed, lost>>

\* An exception between the scans and the update: main logs it and waits; a full
\* scan stays due and update_pending keeps its value.
BuildFails ==
  /\ "build" \in Happens
  /\ pc \in {"scan", "export", "decide"}
  /\ lost' = (lost \/ changed)
  /\ EndCycle
  /\ UNCHANGED <<nodes, queues, parent, files, loaded, guiVars, due, updatePending, disturbed>>

\* An exception within NodeAssigner.assign: timed_job records it and so commits the
\* parents written up to there.
AssignFails ==
  /\ "build" \in Happens
  /\ pc = "assign"
  /\ parent' \in {p \in Listing : \A d \in Devices :
                    p[d] = parent[d] \/ (parent[d] # NoDevice /\ p[d] \in plan \cup {NoParent})}
  /\ EndCycle
  /\ UNCHANGED <<nodes, queues, files, loaded, guiVars, due, updatePending, history>>

\* The process dies; systemd starts it again, and main begins with a full scan.
Crash ==
  /\ "crash" \in Happens
  /\ EndCycle
  /\ due' = TRUE
  /\ lost' = (lost \/ changed \/ updatePending)
  /\ updatePending' = FALSE
  /\ UNCHANGED <<nodes, queues, parent, files, loaded, guiVars, disturbed>>

\* lqos_scheduler loads the files on a refresh of its own, whenever that is.
SchedulerRefresh ==
  /\ loaded' = files
  /\ UNCHANGED <<nodes, queues, parent, files, guiVars, pc, due, localVars, updatePending, history>>

----------------------------------------------------------------------------
Init ==
  /\ nodes \in SUBSET Nodes
  /\ queues \in BOOLEAN
  /\ parent = [d \in Devices |-> NoDevice]
  /\ net = {}
  /\ csv = parent
  /\ loaded = files
  /\ applyAsked = FALSE
  /\ flushing = ""
  /\ pc = "wait"
  /\ due = TRUE
  /\ full = FALSE
  /\ forced = FALSE
  /\ plan = {}
  /\ building = FALSE
  /\ changed = FALSE
  /\ updatePending = FALSE
  /\ disturbed = FALSE
  /\ lost = FALSE

Operator == Reconfigure \/ RequestApply \/ EditParent \/ FlushTable \/ FlushCsv \/ FlushNet

Build == Scan \/ Assign \/ WriteNetwork \/ ExportCsv \/ Decide

Mishap == SkipWebhook \/ WriteNetworkFails \/ UpdateFails \/ BuildFails \/ AssignFails \/ Crash

Next == \/ Operator \/ FullScanDue \/ StartFull \/ StartWebhook \/ Build \/ UpdateSucceeds
        \/ Mishap \/ SchedulerRefresh

Spec == Init /\ [][Next]_vars

\* The service is always scheduled, the scan timer runs, a flush is carried
\* through, and an update that is tried again and again succeeds in the end.
\* Nothing is assumed of the operator, nor of lqos_scheduler's refreshes.
FairSpec ==
  /\ Spec
  /\ WF_vars(StartFull \/ StartWebhook \/ Build)
  /\ WF_vars(FullScanDue)
  /\ WF_vars(FlushCsv \/ FlushNet)
  /\ SF_vars(UpdateSucceeds)

----------------------------------------------------------------------------
\* Properties

TypeOK ==
  /\ nodes \subseteq Nodes
  /\ queues \in BOOLEAN
  /\ parent \in Listing
  /\ net \in NetFile
  /\ csv \in CsvFile
  /\ loaded \in NetFile \X CsvFile
  /\ applyAsked \in BOOLEAN
  /\ flushing \in FlushStages
  /\ pc \in Stages
  /\ due \in BOOLEAN
  /\ full \in BOOLEAN
  /\ forced \in BOOLEAN
  /\ plan \subseteq Nodes
  /\ building \in BOOLEAN
  /\ changed \in BOOLEAN
  /\ updatePending \in BOOLEAN
  /\ disturbed \in BOOLEAN
  /\ lost \in BOOLEAN

\* Every parent node a ShapedDevices.csv names is a node of the network.json.
Resolves(n, c) == \A d \in Devices : c[d] \in Nodes => c[d] \in n

\* "no device points at a node LibreQoS cannot find" (node_assigner.py): whenever
\* this service runs the update, the two files fit together.
FilesFit == pc = "apply" => Resolves(net, csv)

\* They do, though they are written one after the other and cycles break off
\* between them, unless in this very cycle network.json could not be written or
\* was flushed, or the operator edited a parent.
UpdateSeesConsistentFiles == disturbed \/ FilesFit

\* Between cycles the files are what LibreQoS last loaded, or update_pending
\* says they are not: files are never left behind unnoticed, unless a cycle that
\* had changed one broke off or the service died with an update pending.  (A
\* flushed file is noticed by its content: the next build rewrites it.)
NothingForgotten == (pc = "wait" /\ RunsUpdate) =>
  \/ files = loaded
  \/ updatePending
  \/ lost
  \/ net = BlankNet \/ csv = BlankCsv
  \/ flushing # ""

\* Files LibreQoS has not loaded are loaded in the end, however often updates
\* fail, network.json cannot be written, config.json is unusable or the files are
\* flushed: update_pending outlives the cycles in which nothing changes.  (With
\* queues=false no build rewrites a flushed network.json.)
ChangesReachLibreQoS == (files # loaded) ~> (files = loaded \/ net = BlankNet)

\* A file that flush_data emptied is rebuilt, unless it is flushed again.
FlushIsRebuilt == (csv = BlankCsv) ~> (csv # BlankCsv)

\* A step that regular work could also take is no mishap.
MishapsStop == <>[][Mishap => Build \/ FullScanDue]_vars

\* "triggering a LibreQoS update whenever anything changes" (README.md), also
\* when a build raised or the service was restarted: once mishaps stop, files
\* LibreQoS has not loaded are loaded.
ChangesSurviveMishaps == MishapsStop => ChangesReachLibreQoS

\* device_database.py of the Fix buttons' request: "rebuild and re-apply
\* LibreQoS's files": a request is followed by a run of the update.
RequestedApplyRuns == applyAsked ~> pc = "apply"
============================================================================
