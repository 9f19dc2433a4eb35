------------------------ MODULE ApplyPipeline_proofs ------------------------
(***************************************************************************)
(* What TLAPS proves of ApplyPipeline, for every set of devices and nodes: *)
(* the state's shape, that LibreQoS is never run on files that do not fit  *)
(* together unless the cycle was disturbed, and that files are never left  *)
(* behind unnoticed unless a cycle broke off with a reason to run it.      *)
(***************************************************************************)
EXTENDS ApplyPipeline, TLAPS

\* Every table can be listed in ShapedDevices.csv, every set of nodes can be
\* network.json, and so can the texts of flushed files.
LEMMA FileShapes ==
  /\ Listing \subseteq CsvFile
  /\ BlankCsv \in CsvFile
  /\ SUBSET Nodes \subseteq NetFile
  /\ BlankNet \in NetFile
  /\ [d \in Devices |-> NoDevice] \in Listing
BY DEF Listing, CsvFile, NetFile, BlankCsv, BlankNet

\* The state has its shape in every reachable state: each listed device has a node
\* of the configuration as its parent or none, and a flushed file is never half
\* taken for a built one.
THEOREM TypeCorrect == Spec => []TypeOK
<1> USE DEF TypeOK, files
<1>1. Init => TypeOK
  <2> SUFFICES ASSUME Init PROVE TypeOK
    OBVIOUS
  <2>1. net \in NetFile /\ csv \in CsvFile /\ parent \in Listing
    BY FileShapes DEF Init
  <2> QED
    BY <2>1 DEF Init, Stages, FlushStages
<1>2. TypeOK /\ [Next]_vars => TypeOK'
  <2> SUFFICES ASSUME TypeOK, [Next]_vars PROVE TypeOK'
    OBVIOUS
  <2> USE DEF guiVars, localVars, history
  <2>1. CASE Operator
    <3>1. CASE Reconfigure
      BY <3>1 DEF Reconfigure
    <3>2. CASE RequestApply
      BY <3>2 DEF RequestApply
    <3>3. CASE EditParent
      BY <3>3 DEF EditParent, Listing
    <3>4. CASE FlushTable
      BY <3>4, FileShapes DEF FlushTable, FlushStages
    <3>5. CASE FlushCsv
      BY <3>5, FileShapes DEF FlushCsv, FlushStages
    <3>6. CASE FlushNet
      BY <3>6, FileShapes DEF FlushNet, FlushStages
    <3> QED
      BY <2>1, <3>1, <3>2, <3>3, <3>4, <3>5, <3>6 DEF Operator
  <2>2. CASE FullScanDue
    BY <2>2 DEF FullScanDue
  <2>3. CASE StartFull \/ StartWebhook
    BY <2>3 DEF StartFull, StartWebhook, BeginCycle, Stages
  <2>4. CASE Build
    <3>1. CASE Scan
      BY <3>1 DEF Scan, Listing, Parent, Stages
    <3>2. CASE Assign
      <4> PICK a \in [Devices -> (IF building THEN plan ELSE {}) \cup {NoParent}] :
            parent' = [d \in Devices |-> IF parent[d] = NoDevice THEN NoDevice ELSE a[d]]
        BY <3>2 DEF Assign
      <4>1. \A d \in Devices : a[d] \in Parent
        BY DEF Parent
      <4>2. parent' \in Listing
        BY <4>1 DEF Listing
      <4> QED
        BY <3>2, <4>2 DEF Assign, Stages
    <3>3. CASE WriteNetwork
      BY <3>3, FileShapes DEF WriteNetwork, Stages
    <3>4. CASE ExportCsv
      BY <3>4, FileShapes DEF ExportCsv, Stages
    <3>5. CASE Decide
      BY <3>5 DEF Decide, CycleDone, EndCycle, Stages
    <3> QED
      BY <2>4, <3>1, <3>2, <3>3, <3>4, <3>5 DEF Build
  <2>5. CASE UpdateSucceeds
    BY <2>5, HappensAssumption DEF UpdateSucceeds, CycleDone, EndCycle, Stages
  <2>6. CASE Mishap
    <3>1. CASE SkipWebhook
      BY <3>1 DEF SkipWebhook
    <3>2. CASE WriteNetworkFails
      BY <3>2 DEF WriteNetworkFails, Stages
    <3>3. CASE UpdateFails
      <4>1. loaded' \in NetFile \X CsvFile
        BY <3>3 DEF UpdateFails
      <4>2. net' = net /\ csv' = csv
        BY <3>3 DEF UpdateFails
      <4> QED
        BY <3>3, <4>1, <4>2 DEF UpdateFails, CycleDone, EndCycle, Stages
    <3>4. CASE BuildFails
      BY <3>4 DEF BuildFails, EndCycle, Stages
    <3>5. CASE AssignFails
      BY <3>5 DEF AssignFails, EndCycle, Stages
    <3>6. CASE Crash
      BY <3>6 DEF Crash, EndCycle, Stages
    <3> QED
      BY <2>6, <3>1, <3>2, <3>3, <3>4, <3>5, <3>6 DEF Mishap
  <2>7. CASE SchedulerRefresh
    BY <2>7 DEF SchedulerRefresh
  <2>8. CASE UNCHANGED vars
    BY <2>8 DEF vars
  <2> QED
    BY <2>1, <2>2, <2>3, <2>4, <2>5, <2>6, <2>7, <2>8 DEF Next
<1> QED
  BY <1>1, <1>2, PTL DEF Spec

----------------------------------------------------------------------------
\* Why the files fit: at each step of a build, what is still to be written fits
\* what was written, from the table to network.json to ShapedDevices.csv.  Until
\* network.json is written nothing that was read from it can be outdated; from then
\* on an edit of the table, a flush, or the failure to write it can break the chain.
ConsistentInv ==
  /\ pc = "network" => disturbed \/ Resolves(plan, parent)
  /\ pc = "export" => disturbed \/ Resolves(net, parent)
  /\ pc \in {"decide", "apply"} => disturbed \/ Resolves(net, csv)

LEMMA ConsistentStep ==
  ASSUME TypeOK, ConsistentInv, [Next]_vars
  PROVE  ConsistentInv'
<1> USE DEF ConsistentInv, Resolves, files, guiVars, localVars, history, EndCycle, CycleDone
<1>1. CASE Operator
  <2>1. CASE Reconfigure \/ RequestApply
    BY <2>1 DEF Reconfigure, RequestApply
  <2>2. CASE EditParent \/ FlushNet
    BY <2>2 DEF EditParent, FlushNet
  <2>3. CASE FlushTable
    BY <2>3, DistinctAssumption DEF FlushTable
  <2>4. CASE FlushCsv
    BY <2>4, DistinctAssumption DEF FlushCsv, BlankCsv
  <2> QED
    BY <1>1, <2>1, <2>2, <2>3, <2>4 DEF Operator
<1>2. CASE FullScanDue \/ StartFull \/ StartWebhook
  BY <1>2 DEF FullScanDue, StartFull, StartWebhook, BeginCycle
<1>3. CASE Scan
  BY <1>3 DEF Scan
<1>4. CASE Assign
  <2> PICK a \in [Devices -> (IF building THEN plan ELSE {}) \cup {NoParent}] :
        parent' = [d \in Devices |-> IF parent[d] = NoDevice THEN NoDevice ELSE a[d]]
    BY <1>4 DEF Assign
  <2>1. \A d \in Devices : parent'[d] \in Nodes => building /\ a[d] \in plan /\ parent'[d] = a[d]
    BY DistinctAssumption
  <2> QED
    BY <1>4, <2>1 DEF Assign
<1>5. CASE WriteNetwork
  BY <1>5 DEF WriteNetwork
<1>6. CASE ExportCsv
  BY <1>6 DEF ExportCsv
<1>7. CASE Decide
  BY <1>7 DEF Decide
<1>8. CASE UpdateSucceeds
  BY <1>8 DEF UpdateSucceeds
<1>9. CASE Mishap
  BY <1>9 DEF Mishap, SkipWebhook, WriteNetworkFails, UpdateFails, BuildFails, AssignFails, Crash
<1>10. CASE SchedulerRefresh
  BY <1>10 DEF SchedulerRefresh
<1>11. CASE UNCHANGED vars
  BY <1>11 DEF vars
<1> QED
  BY <1>1, <1>2, <1>3, <1>4, <1>5, <1>6, <1>7, <1>8, <1>9, <1>10, <1>11 DEF Next, Build

\* Whenever the service runs LibreQoS, every parent node of ShapedDevices.csv is in
\* network.json, unless this cycle could not write it or met an operator's edit or
\* flush: through failed builds and updates, crashes between the two files, changed
\* configurations and unusable ones.
THEOREM ConsistentFiles == Spec => []UpdateSeesConsistentFiles
<1>1. Init => ConsistentInv
  BY DEF Init, ConsistentInv
<1>2. TypeOK /\ ConsistentInv /\ [Next]_vars => ConsistentInv'
  BY ConsistentStep
<1>3. ConsistentInv => UpdateSeesConsistentFiles
  BY DEF ConsistentInv, UpdateSeesConsistentFiles, FilesFit
<1> QED
  BY <1>1, <1>2, <1>3, TypeCorrect, PTL DEF Spec

----------------------------------------------------------------------------
Flushed == net = BlankNet \/ csv = BlankCsv \/ flushing # ""

\* Why files are not left behind: a reason to run the update is always on record,
\* in changed once a file was written, in update_pending once an update failed, and
\* in lost once a cycle broke off; and a cycle that begins with update_pending is
\* forced to run the update, so that it does not clear the flag on the way.
NoticedInv ==
  /\ pc \in {"wait", "scan", "assign", "network"} => ~changed
  /\ pc # "wait" /\ updatePending => forced
  /\ RunsUpdate => files = loaded \/ changed \/ updatePending \/ lost \/ Flushed

LEMMA NoticedStep ==
  ASSUME TypeOK, NoticedInv, [Next]_vars
  PROVE  NoticedInv'
<1> USE DEF NoticedInv, Flushed, files, history
<1>1. CASE Operator
  <2>1. UNCHANGED <<pc, loaded, updatePending, localVars, lost>>
    BY <1>1 DEF Operator, Reconfigure, RequestApply, EditParent, FlushTable, FlushCsv, FlushNet,
                guiVars
  <2>2. \/ UNCHANGED <<net, csv, flushing>>
        \/ flushing' # ""
        \/ net' = BlankNet
    BY <1>1 DEF Operator, Reconfigure, RequestApply, EditParent, FlushTable, FlushCsv, FlushNet,
                guiVars
  <2> QED
    BY <2>1, <2>2 DEF localVars
<1>2. CASE FullScanDue \/ SkipWebhook \/ Scan \/ Assign \/ WriteNetworkFails
  <2>1. /\ \/ pc' = pc
           \/ pc = "scan" /\ pc' = "assign"
           \/ pc = "assign" /\ pc' \in {"network", "export"}
           \/ pc = "network" /\ pc' = "export"
        /\ UNCHANGED <<net, csv, loaded, flushing, changed, forced, updatePending, lost>>
    BY <1>2 DEF FullScanDue, SkipWebhook, Scan, Assign, WriteNetworkFails, guiVars, localVars
  <2> QED
    BY <2>1
<1>3. CASE StartFull \/ StartWebhook
  <2>1. /\ pc = "wait" /\ pc' = "scan" /\ (updatePending => forced')
        /\ UNCHANGED <<net, csv, loaded, flushing, changed, updatePending, lost>>
    <3>1. CASE StartFull
      BY <3>1 DEF StartFull, BeginCycle
    <3>2. CASE StartWebhook
      BY <3>2, Zenon DEF StartWebhook, BeginCycle
    <3> QED
      BY <1>3, <3>1, <3>2
  <2> QED
    BY <2>1
<1>4. CASE WriteNetwork
  <2>1. plan # BlankNet
    BY DistinctAssumption DEF TypeOK, BlankNet
  <2> QED
    BY <1>4, <2>1 DEF WriteNetwork, guiVars
<1>5. CASE ExportCsv
  BY <1>5 DEF ExportCsv, guiVars
<1>6. CASE Decide
  BY <1>6 DEF Decide, CycleDone, EndCycle, guiVars, localVars
<1>7. CASE UpdateSucceeds
  BY <1>7 DEF UpdateSucceeds, CycleDone, EndCycle, guiVars
<1>8. CASE UpdateFails
  BY <1>8 DEF UpdateFails, CycleDone, EndCycle, guiVars
<1>9. CASE BuildFails \/ Crash
  BY <1>9 DEF BuildFails, Crash, EndCycle, guiVars
<1>10. CASE AssignFails
  <2>1. /\ pc = "assign" /\ pc' = "wait" /\ ~changed'
        /\ UNCHANGED <<net, csv, loaded, flushing, updatePending, lost>>
    BY <1>10 DEF AssignFails, EndCycle, guiVars
  <2> QED
    BY <2>1
<1>11. CASE SchedulerRefresh
  BY <1>11 DEF SchedulerRefresh, guiVars, localVars
<1>12. CASE UNCHANGED vars
  BY <1>12 DEF vars, guiVars, localVars
<1> QED
  BY <1>1, <1>2, <1>3, <1>4, <1>5, <1>6, <1>7, <1>8, <1>9, <1>10, <1>11, <1>12
     DEF Next, Build, Mishap

\* Between cycles, files that LibreQoS has not loaded are known to update_pending or
\* recognised by the next build, however often updates fail, network.json cannot be
\* written, config.json is unusable and the operator edits and flushes: only a cycle
\* that breaks off with a changed file, or a crash with an update pending, loses them.
THEOREM NothingIsForgotten == Spec => []NothingForgotten
<1>1. Init => NoticedInv
  BY DEF Init, NoticedInv
<1>2. TypeOK /\ NoticedInv /\ [Next]_vars => NoticedInv'
  BY NoticedStep
<1>3. NoticedInv => NothingForgotten
  BY DEF NoticedInv, NothingForgotten, Flushed
<1> QED
  BY <1>1, <1>2, <1>3, TypeCorrect, PTL DEF Spec
=============================================================================
