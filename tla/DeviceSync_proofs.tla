------------------------- MODULE DeviceSync_proofs -------------------------
(***************************************************************************)
(* What TLAPS proves of DeviceSync, for every set of routers, codes and    *)
(* addresses, every priority and everything routers, webhooks and the      *)
(* operator may do: the state's shape, that no two devices hold one IP,    *)
(* that the sync service changes no static row, and what holds of a whole  *)
(* cycle, whichever routers failed, rolled back or were only looked up in  *)
(* part: what survives the removal step was reported in that cycle by the  *)
(* router it is filed under, and an IP reported in the cycle is held by a  *)
(* device that outranks the report.  Last, that who stays connected and is *)
(* not contested stays in the file.                                        *)
(***************************************************************************)
EXTENDS DeviceSync, TLAPS

----------------------------------------------------------------------------
\* The operators on a devices table

LEMMA NewScanTable ==
  ASSUME NEW t \in Table
  PROVE  NewScan(t) \in Table
BY SentinelsAssumption DEF Table, NewScan, Row

LEMMA WithoutTable ==
  ASSUME NEW t \in Table, NEW C
  PROVE  Without(t, C) \in Table
BY DEF Table, Without

LEMMA FreedTable ==
  ASSUME NEW t \in Table, NEW C \in SUBSET Present(t)
  PROVE  Freed(t, C) \in Table
<1> SUFFICES ASSUME NEW c \in Codes
             PROVE  (IF c \in C THEN [t[c] EXCEPT !.ip = NoIP] ELSE t[c]) \in Row \cup {NoRow}
    BY DEF Table, Freed
<1>1. CASE c \in C
  <2>1. t[c] \in Row
    BY <1>1 DEF Table, Present
  <2> QED
    BY <1>1, <2>1 DEF Row
<1>2. CASE c \notin C
  BY <1>2 DEF Table
<1> QED
  BY <1>1, <1>2

LEMMA WrittenRow ==
  ASSUME NEW t \in Table, NEW rep \in Report, NEW r \in Routers
  PROVE  Written(t, rep, r) \in Row
<1>1. rep.code \in Codes /\ rep.src \in Sources /\ rep.ip \in IPs \cup {NoIP}
  BY DEF Report
<1>2. CASE t[rep.code] # NoRow /\ t[rep.code].static
  <2>1. t[rep.code] \in Row
    BY <1>1, <1>2 DEF Table
  <2> QED
    BY <1>2, <2>1 DEF Written, Row
<1>3. CASE ~(t[rep.code] # NoRow /\ t[rep.code].static)
  BY <1>1, <1>3 DEF Written, Row
<1> QED
  BY <1>2, <1>3

LEMMA UpsertedTable ==
  ASSUME NEW t \in Table, NEW rep \in Report, NEW r \in Routers
  PROVE  Upserted(t, rep, r) \in Table
<1> DEFINE conflict == Holders(t, rep.ip) \ {rep.code}
<1>1. Freed(t, conflict) \in Table
  <2>1. conflict \in SUBSET Present(t)
    BY DEF Holders
  <2> HIDE DEF conflict
  <2> QED
    BY <2>1, FreedTable
<1>2. Written(t, rep, r) \in Row
  BY WrittenRow
<1>3. [Freed(t, conflict) EXCEPT ![rep.code] = Written(t, rep, r)] \in Table
  BY <1>1, <1>2 DEF Table
<1> QED
  BY <1>3 DEF Upserted

LEMMA RemovedTable ==
  ASSUME NEW t \in Table, NEW c, NEW r
  PROVE  Removed(t, c, r) \in Table
BY WithoutTable DEF Removed

LEMMA ExportedPairs ==
  ASSUME NEW t \in Table
  PROVE  Exported(t) \subseteq Codes \X IPs
<1> SUFFICES ASSUME NEW c \in Present(t), t[c].ip # NoIP
             PROVE  <<c, t[c].ip>> \in Codes \X IPs
    BY DEF Exported
<1>1. c \in Codes /\ t[c] \in Row
  BY DEF Present, Table
<1> QED
  BY <1>1 DEF Row

----------------------------------------------------------------------------
\* The state's shape

LEMMA InitType == Init => TypeOK
<1> SUFFICES ASSUME Init PROVE TypeOK
  OBVIOUS
<1>1. live \in [Routers -> SUBSET Report]
  BY ConstantsAssumption DEF Init
<1>2. rows \in Table /\ disk \in Table
  BY DEF Init, Table
<1> QED
  BY <1>1, <1>2 DEF Init, TypeOK

\* The local variables of a cycle are reset.
LEMMA EndCycleType ==
  ASSUME TypeOK, EndCycle
  PROVE  /\ rows' \in Table /\ disk' \in Table
         /\ pc' = "wait" /\ kind' = "full" /\ cfg' = {} /\ taken' = {} /\ left' = {}
         /\ cur' = NoRouter /\ ok' = {} /\ todo' = {} /\ gone' = {} /\ heard' = {}
         /\ edited' = FALSE
BY NewScanTable DEF TypeOK, EndCycle

LEMMA EnvironmentType ==
  ASSUME TypeOK, Environment
  PROVE  TypeOK'
<1>1. CASE SessionStart
  <2>1. PICK r \in Routers : \E rep \in Reportable[r] \ live[r] :
           live' = [live EXCEPT ![r] = @ \cup {rep}]
    BY <1>1 DEF SessionStart
  <2> PICK rep \in Reportable[r] \ live[r] : live' = [live EXCEPT ![r] = @ \cup {rep}]
    BY <2>1
  <2>2. rep \in Report
    BY ConstantsAssumption
  <2>3. live' \in [Routers -> SUBSET Report]
    BY <2>1, <2>2 DEF TypeOK
  <2> QED
    BY <1>1, <2>3 DEF SessionStart, TypeOK, tableVars, cycleVars
<1>2. CASE SessionEnd
  <2>1. PICK r \in Routers : \E rep \in live[r] : live' = [live EXCEPT ![r] = @ \ {rep}]
    BY <1>2 DEF SessionEnd
  <2>2. live' \in [Routers -> SUBSET Report]
    BY <2>1 DEF TypeOK
  <2> QED
    BY <1>2, <2>2 DEF SessionEnd, TypeOK, tableVars, cycleVars
<1>3. CASE WebhookCall
  BY <1>3 DEF WebhookCall, TypeOK, tableVars, cycleVars
<1>4. CASE SaveConfig
  BY <1>4 DEF SaveConfig, TypeOK, tableVars, cycleVars
<1>5. CASE FullScanDue
  BY <1>5 DEF FullScanDue, TypeOK, tableVars, cycleVars
<1> QED
  BY <1>1, <1>2, <1>3, <1>4, <1>5 DEF Environment

\* A change by the GUI keeps the shape if it leaves a table.
LEMMA GuiWritesType ==
  ASSUME TypeOK, NEW op, NEW t \in Table, GuiWrites(op, t), flushing' \in BOOLEAN
  PROVE  TypeOK'
BY DEF GuiWrites, TypeOK, cycleVars

LEMMA OperatorType ==
  ASSUME TypeOK, Operator
  PROVE  TypeOK'
<1>1. CASE AddDevice
  <2> DEFINE row(g) == [ip |-> g.ip, src |-> g.src, router |-> g.router,
                        seen |-> pc # "wait", static |-> TRUE]
  <2>1. PICK g \in GuiRows : GuiWrites("add", [disk EXCEPT ![g.code] = row(g)])
    BY <1>1 DEF AddDevice
  <2>2. row(g) \in Row
    BY ConstantsAssumption DEF Row, Sources
  <2>3. [disk EXCEPT ![g.code] = row(g)] \in Table
    BY <2>2 DEF TypeOK, Table
  <2>4. flushing' \in BOOLEAN
    BY <1>1 DEF AddDevice, TypeOK
  <2> HIDE DEF row
  <2> QED
    BY <2>1, <2>3, <2>4, GuiWritesType
<1>2. CASE UpdateDevice
  <2> DEFINE row(g) == [disk[g.code] EXCEPT !.ip = g.ip, !.src = g.src, !.router = g.router]
  <2>1. PICK g \in GuiRows : /\ disk[g.code] # NoRow
                             /\ GuiWrites("update", [disk EXCEPT ![g.code] = row(g)])
    BY <1>2 DEF UpdateDevice
  <2>2. /\ g.code \in Codes /\ g.ip \in IPs \cup {NoIP} /\ g.src \in Sources
        /\ g.router \in Routers
    BY ConstantsAssumption
  <2>3. disk[g.code] \in Row
    BY <2>1, <2>2 DEF TypeOK, Table
  <2>4. row(g) \in Row
    BY <2>2, <2>3 DEF Row
  <2>5. [disk EXCEPT ![g.code] = row(g)] \in Table
    BY <2>4 DEF TypeOK, Table
  <2>6. flushing' \in BOOLEAN
    BY <1>2 DEF UpdateDevice, TypeOK
  <2> HIDE DEF row
  <2> QED
    BY <2>1, <2>5, <2>6, GuiWritesType
<1>3. CASE DeleteDevice
  <2>1. PICK c \in Present(disk) : GuiWrites("delete", Without(disk, {c}))
    BY <1>3 DEF DeleteDevice
  <2>2. Without(disk, {c}) \in Table
    BY WithoutTable DEF TypeOK
  <2>3. flushing' \in BOOLEAN
    BY <1>3 DEF DeleteDevice, TypeOK
  <2> QED
    BY <2>1, <2>2, <2>3, GuiWritesType
<1>4. CASE FlushTable
  <2>1. Without(disk, Codes) \in Table
    BY WithoutTable DEF TypeOK
  <2> QED
    BY <1>4, <2>1, GuiWritesType DEF FlushTable
<1>5. CASE FlushTableFails
  BY <1>5 DEF FlushTableFails, TypeOK, tableVars, cycleVars
<1>6. CASE FlushFiles
  BY <1>6 DEF FlushFiles, TypeOK, tableVars, cycleVars
<1> QED
  BY <1>1, <1>2, <1>3, <1>4, <1>5, <1>6 DEF Operator

LEMMA BeginCycleType ==
  ASSUME TypeOK, NEW k \in {"full", "webhook"}, NEW events \in SUBSET Calls,
         NEW routers \in SUBSET Routers, BeginCycle(k, events, routers)
  PROVE  TypeOK'
<1>1. config \in SUBSET Routers
  BY ConstantsAssumption DEF TypeOK
<1> QED
  BY <1>1 DEF BeginCycle, TypeOK, tableVars

LEMMA SyncType ==
  ASSUME TypeOK, Sync
  PROVE  TypeOK'
<1> USE DEF TypeOK
<1>1. CASE StartFull
  <2>1. config \in SUBSET Routers
    BY ConstantsAssumption
  <2> QED
    BY <1>1, <2>1, BeginCycleType DEF StartFull
<1>2. CASE StartWebhook
  <2>1. {r \in config : \E e \in pending : e.router = r} \in SUBSET Routers
    BY ConstantsAssumption
  <2> QED
    BY <1>2, <2>1, BeginCycleType DEF StartWebhook
<1>3. CASE SkipWebhook
  BY <1>3 DEF SkipWebhook, tableVars, cycleVars
<1>4. CASE ReadRouter
  <2> PICK r \in left :
        /\ pc' = "upsert" /\ cur' = r /\ left' = left \ {r}
        /\ todo' \subseteq {rep \in live[r] : rep.ip # NoIP}
        /\ gone' \subseteq Users(r)
        /\ UNCHANGED <<live, config, disk, rows, csv, pending, flushing, due, kind, cfg, taken,
                       ok, heard, edited>>
    BY <1>4 DEF ReadRouter, tableVars
  <2>1. Users(r) \subseteq Codes
    BY ConstantsAssumption DEF Users
  <2>2. live[r] \subseteq Report
    OBVIOUS
  <2> QED
    BY <2>1, <2>2
<1>5. CASE ReadFails
  BY <1>5 DEF ReadFails, tableVars
<1>6. CASE Upsert
  <2> PICK rep \in todo : /\ pc = "upsert"
                          /\ rows' = Upserted(rows, rep, cur)
                          /\ heard' = heard \cup {<<cur, rep>>}
    BY <1>6 DEF Upsert
  <2>1. Upserted(rows, rep, cur) \in Table
    BY UpsertedTable
  <2> QED
    BY <1>6, <2>1 DEF Upsert
<1>7. CASE RemoveDevice
  <2> PICK c \in gone : rows' = Removed(rows, c, cur)
    BY <1>7 DEF RemoveDevice
  <2>1. Removed(rows, c, cur) \in Table
    BY RemovedTable
  <2> QED
    BY <1>7, <2>1 DEF RemoveDevice
<1>8. CASE CommitRouter
  BY <1>8 DEF CommitRouter
<1>9. CASE RollbackRouter
  BY <1>9 DEF RollbackRouter
<1>10. CASE RemoveInactive
  <2>1. Without(rows, Inactive(rows, ok, cfg)) \in Table
    BY WithoutTable
  <2> QED
    BY <1>10, <2>1 DEF RemoveInactive, cycleVars
<1>11. CASE Export
  <2>1. Exported(rows) \subseteq Codes \X IPs
    BY ExportedPairs
  <2> QED
    BY <1>11, <2>1, EndCycleType DEF Export
<1>12. CASE BuildFails
  BY <1>12, EndCycleType DEF BuildFails
<1>13. CASE Crash
  BY <1>13, EndCycleType DEF Crash
<1> QED
  BY <1>1, <1>2, <1>3, <1>4, <1>5, <1>6, <1>7, <1>8, <1>9, <1>10, <1>11, <1>12, <1>13 DEF Sync

LEMMA StepType == TypeOK /\ [Next]_vars => TypeOK'
<1> SUFFICES ASSUME TypeOK, [Next]_vars PROVE TypeOK'
  OBVIOUS
<1>1. CASE Next
  BY <1>1, EnvironmentType, OperatorType, SyncType DEF Next
<1>2. CASE UNCHANGED vars
  BY <1>2 DEF TypeOK, vars, tableVars, cycleVars
<1> QED
  BY <1>1, <1>2

\* The state has its shape in every reachable state: rows the schema allows, a
\* file of codes and addresses, a cycle whose router is one of the routers.
THEOREM TypeCorrect == Spec => []TypeOK
BY InitType, StepType, PTL DEF Spec

----------------------------------------------------------------------------
\* No IP has two holders

\* Whoever still has an IP after a table was thinned out had it before.
LEMMA WithoutUnique ==
  ASSUME NEW t \in Table, NEW C, OneHolder(t)
  PROVE  OneHolder(Without(t, C))
<1> SUFFICES ASSUME NEW ip \in IPs
             PROVE  Holders(Without(t, C), ip) \subseteq Holders(t, ip)
  BY DEF OneHolder
<1> QED
  BY DEF Holders, Present, Without, Table

LEMMA NewScanUnique ==
  ASSUME NEW t \in Table, OneHolder(t)
  PROVE  OneHolder(NewScan(t))
<1> SUFFICES ASSUME NEW ip \in IPs
             PROVE  Holders(NewScan(t), ip) \subseteq Holders(t, ip)
  BY DEF OneHolder
<1> SUFFICES ASSUME NEW c \in Codes, NewScan(t)[c] # NoRow, NewScan(t)[c].ip = ip
             PROVE  t[c] # NoRow /\ t[c].ip = ip
  BY DEF Holders, Present
<1>1. t[c] # NoRow
  BY DEF NewScan
<1>2. t[c] \in Row
  BY <1>1 DEF Table
<1>3. NewScan(t)[c] = [t[c] EXCEPT !.seen = FALSE]
  BY <1>1 DEF NewScan
<1>4. [t[c] EXCEPT !.seen = FALSE].ip = t[c].ip
  BY <1>2 DEF Row
<1> QED
  BY <1>1, <1>3, <1>4

\* A table in which one code's row changes, to an IP nobody else holds.
LEMMA ChangedUnique ==
  ASSUME NEW t \in Table, NEW c \in Codes, NEW row \in Row, OneHolder(t),
         row.ip = NoIP \/ Holders(t, row.ip) \subseteq {c}
  PROVE  OneHolder([t EXCEPT ![c] = row])
<1> DEFINE u == [t EXCEPT ![c] = row]
<1> SUFFICES ASSUME NEW ip \in IPs, NEW a \in Holders(u, ip), NEW b \in Holders(u, ip)
             PROVE  a = b
  BY DEF OneHolder
<1>1. a \in Codes /\ b \in Codes /\ u[a].ip = ip /\ u[b].ip = ip
  BY DEF Holders, Present
<1>2. ASSUME NEW d \in Holders(u, ip), d # c
      PROVE  d \in Holders(t, ip)
  BY <1>2 DEF Holders, Present, Table
<1>3. ASSUME c \in Holders(u, ip)
      PROVE  Holders(t, ip) \subseteq {c}
  <2>1. u[c] = row /\ row.ip = ip
    BY <1>3 DEF Holders, Table
  <2> QED
    BY <2>1, SentinelsAssumption
<1>4. CASE a = c \/ b = c
  BY <1>2, <1>3, <1>4
<1>5. CASE a # c /\ b # c
  BY <1>2, <1>5 DEF OneHolder
<1> QED
  BY <1>4, <1>5

\* Making devices give their IP up leaves the others what they hold.
LEMMA FreedHolders ==
  ASSUME NEW t \in Table, NEW C \in SUBSET Present(t), NEW ip \in IPs
  PROVE  Holders(Freed(t, C), ip) = Holders(t, ip) \ C
<1> SUFFICES ASSUME NEW c \in Codes
             PROVE  (Freed(t, C)[c] # NoRow /\ Freed(t, C)[c].ip = ip)
                      <=> (t[c] # NoRow /\ t[c].ip = ip /\ c \notin C)
  BY DEF Holders, Present
<1>1. CASE c \in C
  <2>1. t[c] \in Row
    BY <1>1 DEF Present, Table
  <2>2. Freed(t, C)[c] = [t[c] EXCEPT !.ip = NoIP]
    BY <1>1 DEF Freed
  <2>3. [t[c] EXCEPT !.ip = NoIP].ip = NoIP
    BY <2>1 DEF Row
  <2> QED
    BY <1>1, <2>2, <2>3, SentinelsAssumption
<1>2. CASE c \notin C
  BY <1>2 DEF Freed
<1> QED
  BY <1>1, <1>2

\* upsert_device keeps the table free of double holders: the holders of the
\* report's IP give it up, or the report is skipped.
LEMMA UpsertedUnique ==
  ASSUME NEW t \in Table, NEW rep \in Report, NEW r \in Routers, OneHolder(t), rep.ip \in IPs
  PROVE  OneHolder(Upserted(t, rep, r))
<1> DEFINE conflict == Holders(t, rep.ip) \ {rep.code}
           f == Freed(t, conflict)
           w == Written(t, rep, r)
<1>1. rep.code \in Codes
  BY DEF Report
<1>2. conflict \in SUBSET Present(t)
  BY DEF Holders
<1>3. f \in Table /\ w \in Row
  <2> HIDE DEF conflict
  <2> QED
    BY <1>2, FreedTable, WrittenRow
<1>4. \A ip \in IPs : Holders(f, ip) = Holders(t, ip) \ conflict
  <2> HIDE DEF conflict
  <2> QED
    BY <1>2, FreedHolders
<1>5. OneHolder(f)
  <2> HIDE DEF f
  <2> QED
    BY <1>4 DEF OneHolder
<1>6. w.ip = NoIP \/ Holders(f, w.ip) \subseteq {rep.code}
  <2>1. CASE t[rep.code] # NoRow /\ t[rep.code].static
    <3>1. t[rep.code] \in Row
      BY <1>1, <2>1 DEF Table
    <3>2. w.ip = t[rep.code].ip
      BY <2>1, <3>1 DEF Written, Row
    <3>3. rep.code \in Holders(t, w.ip)
      BY <1>1, <2>1, <3>2 DEF Holders, Present
    <3>4. w.ip \in IPs => Holders(t, w.ip) \subseteq {rep.code}
      BY <3>3 DEF OneHolder
    <3>5. w.ip \in IPs \cup {NoIP}
      BY <1>3 DEF Row
    <3> HIDE DEF f, w, conflict
    <3> QED
      BY <1>4, <3>4, <3>5
  <2>2. CASE ~(t[rep.code] # NoRow /\ t[rep.code].static)
    <3>1. w.ip = rep.ip
      BY <2>2 DEF Written
    <3>2. Holders(f, rep.ip) \subseteq {rep.code}
      BY <1>4
    <3> QED
      BY <3>1, <3>2
  <2> QED
    BY <2>1, <2>2
<1>7. OneHolder([f EXCEPT ![rep.code] = w])
  <2> HIDE DEF f, w, conflict
  <2> QED
    BY <1>1, <1>3, <1>5, <1>6, ChangedUnique
<1> QED
  BY <1>7 DEF Upserted

\* The inductive invariant of UniqueIPs: the table must be one of the schema's as well.
UniqueInv == TypeOK /\ UniqueIPs

LEMMA GuiUnique ==
  ASSUME TypeOK, UniqueIPs, Operator
  PROVE  UniqueIPs'
<1> USE DEF UniqueIPs
<1>0. ASSUME NEW op, NEW t, GuiWrites(op, t), OneHolder(t)
      PROVE  OneHolder(rows)' /\ OneHolder(disk)'
  BY <1>0 DEF GuiWrites, OneHolder, Holders, Present
<1>1. CASE AddDevice
  <2> DEFINE row(g) == [ip |-> g.ip, src |-> g.src, router |-> g.router,
                        seen |-> pc # "wait", static |-> TRUE]
  <2>1. PICK g \in GuiRows : /\ g.ip = NoIP \/ Holders(disk, g.ip) = {}
                             /\ GuiWrites("add", [disk EXCEPT ![g.code] = row(g)])
    BY <1>1 DEF AddDevice
  <2>2. row(g) \in Row /\ g.code \in Codes /\ row(g).ip = g.ip
    BY ConstantsAssumption DEF Row, Sources
  <2>3. OneHolder([disk EXCEPT ![g.code] = row(g)])
    <3> HIDE DEF row
    <3> QED
      BY <2>1, <2>2, ChangedUnique DEF TypeOK
  <2> HIDE DEF row
  <2> QED
    BY <1>0, <2>1, <2>3
<1>2. CASE UpdateDevice
  <2> DEFINE row(g) == [disk[g.code] EXCEPT !.ip = g.ip, !.src = g.src, !.router = g.router]
  <2>1. PICK g \in GuiRows : /\ disk[g.code] # NoRow
                             /\ g.ip = NoIP \/ Holders(disk, g.ip) \subseteq {g.code}
                             /\ GuiWrites("update", [disk EXCEPT ![g.code] = row(g)])
    BY <1>2 DEF UpdateDevice
  <2>2. /\ g.code \in Codes /\ g.ip \in IPs \cup {NoIP} /\ g.src \in Sources
        /\ g.router \in Routers
    BY ConstantsAssumption
  <2>3. disk[g.code] \in Row
    BY <2>1, <2>2 DEF TypeOK, Table
  <2>4. row(g) \in Row /\ row(g).ip = g.ip
    BY <2>2, <2>3 DEF Row
  <2>5. OneHolder([disk EXCEPT ![g.code] = row(g)])
    <3> HIDE DEF row
    <3> QED
      BY <2>1, <2>2, <2>4, ChangedUnique DEF TypeOK
  <2> HIDE DEF row
  <2> QED
    BY <1>0, <2>1, <2>5
<1>3. CASE DeleteDevice
  <2>1. PICK c \in Present(disk) : GuiWrites("delete", Without(disk, {c}))
    BY <1>3 DEF DeleteDevice
  <2>2. OneHolder(Without(disk, {c}))
    BY WithoutUnique DEF TypeOK
  <2> QED
    BY <1>0, <2>1, <2>2
<1>4. CASE FlushTable
  <2>1. OneHolder(Without(disk, Codes))
    BY WithoutUnique DEF TypeOK
  <2> QED
    BY <1>0, <1>4, <2>1 DEF FlushTable
<1>5. CASE FlushTableFails \/ FlushFiles
  BY <1>5 DEF FlushTableFails, FlushFiles, tableVars, OneHolder, Holders, Present
<1> QED
  BY <1>1, <1>2, <1>3, <1>4, <1>5 DEF Operator

LEMMA SyncUnique ==
  ASSUME TypeOK, UniqueIPs, Sync
  PROVE  UniqueIPs'
<1> USE DEF UniqueIPs
<1>0. OneHolder(rows)' = OneHolder(rows') /\ OneHolder(disk)' = OneHolder(disk')
  BY DEF OneHolder, Holders, Present
<1>1. CASE UNCHANGED tableVars
  BY <1>0, <1>1 DEF tableVars
<1>2. CASE Upsert
  <2> PICK rep \in todo : /\ pc = "upsert"
                          /\ rows' = Upserted(rows, rep, cur)
                          /\ disk' = disk
    BY <1>2 DEF Upsert
  <2>1. OneHolder(Upserted(rows, rep, cur))
    <3>1. rep \in Report /\ rep.ip \in IPs
      BY DEF TypeOK, Report
    <3> QED
      BY <3>1, UpsertedUnique DEF TypeOK
  <2> QED
    BY <1>0, <2>1
<1>3. CASE RemoveDevice
  <2> PICK c \in gone : rows' = Removed(rows, c, cur) /\ disk' = disk
    BY <1>3 DEF RemoveDevice
  <2>1. OneHolder(Removed(rows, c, cur))
    BY WithoutUnique DEF Removed, TypeOK
  <2> QED
    BY <1>0, <2>1
<1>4. CASE CommitRouter \/ RollbackRouter
  BY <1>0, <1>4 DEF CommitRouter, RollbackRouter
<1>5. CASE RemoveInactive
  <2>1. OneHolder(Without(rows, Inactive(rows, ok, cfg)))
    BY WithoutUnique DEF TypeOK
  <2> QED
    BY <1>0, <1>5, <2>1 DEF RemoveInactive
<1>6. CASE EndCycle
  <2>1. OneHolder(NewScan(disk))
    BY NewScanUnique DEF TypeOK
  <2> QED
    BY <1>0, <1>6, <2>1 DEF EndCycle
<1>7. \/ UNCHANGED tableVars \/ Upsert \/ RemoveDevice \/ CommitRouter \/ RollbackRouter
      \/ RemoveInactive \/ EndCycle
  BY DEF Sync, StartFull, StartWebhook, BeginCycle, SkipWebhook, ReadRouter, ReadFails,
         Export, BuildFails, Crash, tableVars
<1> QED
  BY <1>1, <1>2, <1>3, <1>4, <1>5, <1>6, <1>7

\* In every reachable state, also between two upserts of an open transaction,
\* no two devices hold one IP.
THEOREM UniqueHolders == Spec => []UniqueIPs
<1>1. Init => UniqueIPs
  BY DEF Init, UniqueIPs, OneHolder, Holders, Present
<1>2. UniqueInv /\ [Next]_vars => UniqueInv'
  <2> SUFFICES ASSUME TypeOK, UniqueIPs, [Next]_vars PROVE UniqueInv'
    BY DEF UniqueInv
  <2>1. TypeOK'
    BY StepType
  <2>2. UniqueIPs'
    <3>1. CASE Operator
      BY <3>1, GuiUnique
    <3>2. CASE Sync
      BY <3>2, SyncUnique
    <3>3. CASE Environment \/ UNCHANGED vars
      BY <3>3 DEF Environment, SessionStart, SessionEnd, WebhookCall, SaveConfig, FullScanDue,
                  vars, tableVars, UniqueIPs, OneHolder, Holders, Present
    <3> QED
      BY <3>1, <3>2, <3>3 DEF Next
  <2> QED
    BY <2>1, <2>2 DEF UniqueInv
<1>3. UniqueInv => UniqueIPs
  BY DEF UniqueInv
<1> QED
  BY <1>1, <1>2, <1>3, InitType, PTL DEF Spec, UniqueInv

----------------------------------------------------------------------------
\* Static rows

IsStatic(t, c) == t[c] # NoRow /\ t[c].static

\* The rows of c in two tables differ at most in last_seen.
Alike(s, t, c) == /\ s[c] # NoRow /\ t[c] # NoRow
                  /\ t[c].ip = s[c].ip /\ t[c].src = s[c].src
                  /\ t[c].router = s[c].router /\ t[c].static = s[c].static

\* What an operator on tables may do: it makes no row static and leaves static rows
\* as they are but for last_seen.
KeepsStatic(s, t) == \A c \in Codes : /\ IsStatic(t, c) => IsStatic(s, c)
                                      /\ IsStatic(s, c) => Alike(s, t, c)

LEMMA AlikeRows ==
  ASSUME NEW s \in Table, NEW t \in Table, NEW c \in Codes, Alike(s, t, c)
  PROVE  t[c] = [s[c] EXCEPT !.seen = t[c].seen]
<1>1. s[c] \in Row /\ t[c] \in Row
  BY DEF Table, Alike
<1> QED
  BY <1>1 DEF Row, Alike

LEMMA WithoutStatic ==
  ASSUME NEW t \in Table, NEW C \in SUBSET Dynamic(t)
  PROVE  KeepsStatic(t, Without(t, C))
BY DEF KeepsStatic, IsStatic, Alike, Without, Dynamic

LEMMA NewScanStatic ==
  ASSUME NEW t \in Table
  PROVE  KeepsStatic(t, NewScan(t))
<1> SUFFICES ASSUME NEW c \in Codes
             PROVE  /\ IsStatic(NewScan(t), c) => IsStatic(t, c)
                    /\ IsStatic(t, c) => Alike(t, NewScan(t), c)
  BY DEF KeepsStatic
<1>1. CASE t[c] = NoRow
  BY <1>1 DEF NewScan, IsStatic
<1>2. CASE t[c] # NoRow
  <2>1. t[c] \in Row /\ NewScan(t)[c] = [t[c] EXCEPT !.seen = FALSE]
    BY <1>2 DEF Table, NewScan
  <2>2. NewScan(t)[c] \in Row
    BY <2>1 DEF Row
  <2>3. NewScan(t)[c] # NoRow
    BY <2>2, SentinelsAssumption
  <2> QED
    BY <1>2, <2>1, <2>3 DEF Row, IsStatic, Alike
<1> QED
  BY <1>1, <1>2

LEMMA RemovedStatic ==
  ASSUME NEW t \in Table, NEW c, NEW r
  PROVE  KeepsStatic(t, Removed(t, c, r))
<1>1. CASE c \in Dynamic(t) /\ t[c].router = r
  BY <1>1, WithoutStatic DEF Removed
<1>2. CASE ~(c \in Dynamic(t) /\ t[c].router = r)
  BY <1>2 DEF Removed, KeepsStatic, IsStatic, Alike
<1> QED
  BY <1>1, <1>2

LEMMA UpsertedStatic ==
  ASSUME NEW t \in Table, NEW rep \in Report, NEW r \in Routers
  PROVE  KeepsStatic(t, Upserted(t, rep, r))
<1> DEFINE conflict == Holders(t, rep.ip) \ {rep.code}
           f == Freed(t, conflict)
           w == Written(t, rep, r)
           u == Upserted(t, rep, r)
<1>1. CASE ~\A c \in conflict : Yields(t, c, rep.src)
  BY <1>1 DEF Upserted, KeepsStatic, IsStatic, Alike
<1>2. CASE \A c \in conflict : Yields(t, c, rep.src)
  <2> SUFFICES ASSUME NEW c \in Codes
               PROVE  (IsStatic(u, c) => IsStatic(t, c)) /\ (IsStatic(t, c) => Alike(t, u, c))
    BY DEF KeepsStatic
  <2>1. conflict \in SUBSET Present(t) /\ f \in Table /\ w \in Row /\ rep.code \in Codes
    <3>1. conflict \in SUBSET Present(t)
      BY DEF Holders
    <3>2. f \in Table
      <4> HIDE DEF conflict
      <4> QED
        BY <3>1, FreedTable
    <3> QED
      BY <3>1, <3>2, WrittenRow DEF Report
  <2>2. u = [f EXCEPT ![rep.code] = w]
    BY <1>2 DEF Upserted
  <2>3. CASE c = rep.code
    <3>1. u[c] = w /\ w # NoRow
      BY <2>1, <2>2, <2>3, SentinelsAssumption DEF Table
    <3>2. CASE IsStatic(t, c)
      <4>1. t[c] \in Row
        BY <3>2 DEF IsStatic, Table
      <4>2. w = [t[c] EXCEPT !.seen = TRUE]
        BY <2>3, <3>2 DEF IsStatic, Written
      <4> QED
        BY <3>1, <3>2, <4>1, <4>2 DEF IsStatic, Alike, Row
    <3>3. CASE ~IsStatic(t, c)
      <4>1. ~w.static
        BY <2>3, <3>3 DEF IsStatic, Written
      <4> QED
        BY <3>1, <3>3, <4>1 DEF IsStatic
    <3> QED
      BY <3>2, <3>3
  <2>4. CASE c \in conflict
    <3>1. t[c] \in Row /\ ~t[c].static
      BY <1>2, <2>1, <2>4 DEF Yields, Present, Table
    <3>2. u[c] = [t[c] EXCEPT !.ip = NoIP]
      BY <2>1, <2>2, <2>4 DEF Freed, Table
    <3> QED
      BY <3>1, <3>2 DEF IsStatic, Row
  <2>5. CASE c # rep.code /\ c \notin conflict
    <3>1. u[c] = t[c]
      <4>1. f[c] = t[c]
        BY <2>5 DEF Freed
      <4> HIDE DEF f, u
      <4> QED
        BY <2>1, <2>2, <2>5, <4>1 DEF Table
    <3> HIDE DEF u
    <3> QED
      BY <3>1 DEF IsStatic, Alike
  <2> QED
    BY <2>3, <2>4, <2>5
<1> QED
  BY <1>1, <1>2

LEMMA KeepsStaticReflexive ==
  ASSUME NEW t
  PROVE  KeepsStatic(t, t)
BY DEF KeepsStatic, IsStatic, Alike

LEMMA KeepsStaticTransitive ==
  ASSUME NEW s, NEW t, NEW u, KeepsStatic(s, t), KeepsStatic(t, u)
  PROVE  KeepsStatic(s, u)
<1> SUFFICES ASSUME NEW c \in Codes
             PROVE  (IsStatic(u, c) => IsStatic(s, c)) /\ (IsStatic(s, c) => Alike(s, u, c))
  BY DEF KeepsStatic
<1>1. IsStatic(u, c) => IsStatic(s, c)
  BY DEF KeepsStatic
<1>2. ASSUME IsStatic(s, c) PROVE Alike(s, u, c)
  <2>1. Alike(s, t, c)
    BY <1>2 DEF KeepsStatic
  <2>2. IsStatic(t, c)
    BY <1>2, <2>1 DEF IsStatic, Alike
  <2>3. Alike(t, u, c)
    BY <2>2 DEF KeepsStatic
  <2> QED
    BY <2>1, <2>3 DEF Alike
<1> QED
  BY <1>1, <1>2

\* Why StaticRowsKept holds also when a transaction is taken back: the open
\* transaction has kept every static row of the committed table, and made none.
StaticAgree == KeepsStatic(disk, rows)
StaticInv == TypeOK /\ StaticAgree

LEMMA StaticStep ==
  ASSUME StaticInv, [Next]_vars
  PROVE  StaticInv'
<1> USE DEF StaticInv, StaticAgree
<1>1. TypeOK'
  BY StepType
<1>2. KeepsStatic(disk, rows)' = KeepsStatic(disk', rows')
  BY DEF KeepsStatic, IsStatic, Alike
<1>3. CASE disk' = rows'
  BY <1>1, <1>2, <1>3, KeepsStaticReflexive
<1>4. CASE UNCHANGED tableVars
  BY <1>1, <1>2, <1>4 DEF tableVars
<1>5. CASE Upsert
  <2> PICK rep \in todo : /\ pc = "upsert"
                          /\ rows' = Upserted(rows, rep, cur)
                          /\ disk' = disk
    BY <1>5 DEF Upsert
  <2>1. KeepsStatic(rows, rows')
    BY UpsertedStatic DEF TypeOK
  <2> QED
    BY <1>1, <1>2, <2>1, KeepsStaticTransitive
<1>6. CASE RemoveDevice
  <2> PICK c \in gone : rows' = Removed(rows, c, cur) /\ disk' = disk
    BY <1>6 DEF RemoveDevice
  <2>1. KeepsStatic(rows, rows')
    BY RemovedStatic DEF TypeOK
  <2> QED
    BY <1>1, <1>2, <2>1, KeepsStaticTransitive
<1>7. disk' = rows' \/ UNCHANGED tableVars \/ Upsert \/ RemoveDevice
  <2>1. CASE Environment \/ UNCHANGED vars
    BY <2>1 DEF Environment, SessionStart, SessionEnd, WebhookCall, SaveConfig, FullScanDue,
                vars, tableVars
  <2>2. CASE Operator
    <3>1. ASSUME NEW op, NEW t, GuiWrites(op, t) PROVE disk' = rows'
      BY <3>1 DEF GuiWrites
    <3>2. CASE AddDevice
      BY <3>1, <3>2, Zenon DEF AddDevice
    <3>3. CASE UpdateDevice
      BY <3>1, <3>3, Zenon DEF UpdateDevice
    <3>4. CASE DeleteDevice \/ FlushTable
      BY <3>1, <3>4 DEF DeleteDevice, FlushTable
    <3>5. CASE FlushTableFails \/ FlushFiles
      BY <3>5 DEF FlushTableFails, FlushFiles, tableVars
    <3> QED
      BY <2>2, <3>2, <3>3, <3>4, <3>5 DEF Operator
  <2>3. CASE Sync
    BY <2>3 DEF Sync, StartFull, StartWebhook, BeginCycle, SkipWebhook, ReadRouter, ReadFails,
                CommitRouter, RollbackRouter, RemoveInactive, Export, BuildFails, Crash,
                EndCycle, tableVars
  <2> QED
    BY <2>1, <2>2, <2>3 DEF Next
<1> QED
  BY <1>3, <1>4, <1>5, <1>6, <1>7

\* What each step of the service makes of the table it has before it.
LEMMA SyncStatic ==
  ASSUME StaticInv, Sync, NEW c \in Codes, IsStatic(rows, c)
  PROVE  Alike(rows, rows', c)
<1> USE DEF StaticInv, StaticAgree
<1>0. IsStatic(disk, c) /\ Alike(rows, disk, c)
  <2>1. IsStatic(disk, c)
    BY DEF KeepsStatic
  <2>2. Alike(disk, rows, c)
    BY <2>1 DEF KeepsStatic
  <2> QED
    BY <2>1, <2>2 DEF Alike
<1>1. CASE rows' = rows
  BY <1>1 DEF IsStatic, Alike
<1>2. CASE Upsert
  <2> PICK rep \in todo : pc = "upsert" /\ rows' = Upserted(rows, rep, cur)
    BY <1>2 DEF Upsert
  <2>1. KeepsStatic(rows, rows')
    BY UpsertedStatic DEF TypeOK
  <2> QED
    BY <2>1 DEF KeepsStatic
<1>3. CASE RemoveDevice
  <2> PICK d \in gone : rows' = Removed(rows, d, cur)
    BY <1>3 DEF RemoveDevice
  <2>1. KeepsStatic(rows, rows')
    BY RemovedStatic DEF TypeOK
  <2> QED
    BY <2>1 DEF KeepsStatic
<1>4. CASE RollbackRouter
  BY <1>0, <1>4 DEF RollbackRouter
<1>5. CASE RemoveInactive
  <2>1. Inactive(rows, ok, cfg) \in SUBSET Dynamic(rows)
    BY DEF Inactive
  <2>2. KeepsStatic(rows, Without(rows, Inactive(rows, ok, cfg)))
    BY <2>1, WithoutStatic DEF TypeOK
  <2> QED
    BY <1>5, <2>2 DEF RemoveInactive, KeepsStatic
<1>6. CASE EndCycle
  <2>1. KeepsStatic(disk, rows')
    BY <1>6, NewScanStatic DEF EndCycle, TypeOK
  <2>2. Alike(disk, rows', c)
    BY <1>0, <2>1 DEF KeepsStatic
  <2> QED
    BY <1>0, <2>2 DEF Alike
<1>7. rows' = rows \/ Upsert \/ RemoveDevice \/ RollbackRouter \/ RemoveInactive \/ EndCycle
  BY DEF Sync, StartFull, StartWebhook, BeginCycle, SkipWebhook, ReadRouter, ReadFails,
         CommitRouter, Export, BuildFails, Crash, tableVars
<1> QED
  BY <1>1, <1>2, <1>3, <1>4, <1>5, <1>6, <1>7

\* No step of the sync service changes a static row but for its last_seen: no
\* report under its code, no conflict over its IP, no removal, no rollback, no
\* restart.
THEOREM StaticRowsAreKept == Spec => StaticRowsKept
<1>1. Init => StaticInv
  BY InitType, KeepsStaticReflexive DEF Init, StaticInv, StaticAgree
<1>2. StaticInv /\ [Next]_vars => StaticInv'
  BY StaticStep
<1>3. StaticInv /\ StaticInv' /\ [Next]_vars =>
        [Sync => \A c \in Codes : (rows[c] # NoRow /\ rows[c].static) => SameStatic(c)]_vars
  <2> SUFFICES ASSUME StaticInv, StaticInv', Sync, NEW c \in Codes, IsStatic(rows, c)
               PROVE  SameStatic(c)
    BY DEF IsStatic
  <2>1. Alike(rows, rows', c)
    BY SyncStatic
  <2>2. rows \in Table /\ rows' \in Table
    BY DEF StaticInv, TypeOK, Table, Row
  <2>3. rows'[c] = [rows[c] EXCEPT !.seen = rows'[c].seen]
    BY <2>1, <2>2, AlikeRows
  <2> QED
    BY <2>1, <2>3 DEF SameStatic, Alike
<1> QED
  BY <1>1, <1>2, <1>3, PTL DEF Spec, StaticRowsKept

----------------------------------------------------------------------------
\* A whole cycle: no ghosts

\* Code c was reported by router r in this cycle.
HeardFrom(c, r) == \E h \in heard : h[1] = r /\ h[2].code = c

\* Each dynamic row of the table that counts as seen was reported by the router the
\* row names ...
SeenIsHeard == \A c \in Dynamic(rows) : rows[c].seen => HeardFrom(c, rows[c].router)

\* ... and while a router's reports are applied, what was committed before does not
\* rest on this router: taking the transaction back takes no evidence away.
CommittedIsHeard == \A c \in Dynamic(disk) :
  disk[c].seen => disk[c].router # cur /\ HeardFrom(c, disk[c].router)

GhostInv ==
  /\ pc # "upsert" => rows = disk
  /\ pc = "wait" => \A c \in Present(rows) : ~rows[c].seen
  /\ \A h \in heard : h[1] \notin left
  /\ pc = "upsert" => cur \notin left
  /\ ~edited => SeenIsHeard
  /\ pc = "upsert" /\ ~edited => CommittedIsHeard
  /\ NoGhosts

----------------------------------------------------------------------------
\* After an upsert a dynamic row that is seen was seen before, or is the report's.
LEMMA UpsertedSeen ==
  ASSUME NEW t \in Table, NEW rep \in Report, NEW r \in Routers,
         NEW c \in Dynamic(Upserted(t, rep, r)), Upserted(t, rep, r)[c].seen
  PROVE  \/ c = rep.code /\ Upserted(t, rep, r)[c].router = r
         \/ c \in Dynamic(t) /\ t[c].seen /\ Upserted(t, rep, r)[c].router = t[c].router
<1> DEFINE conflict == Holders(t, rep.ip) \ {rep.code}
           f == Freed(t, conflict)
           w == Written(t, rep, r)
           u == Upserted(t, rep, r)
<1>0. c \in Codes /\ u[c] # NoRow /\ ~u[c].static /\ u[c].seen /\ u = Upserted(t, rep, r)
  BY DEF Dynamic, Present
<1>1. CASE ~\A d \in conflict : Yields(t, d, rep.src)
  BY <1>1 DEF Upserted
<1>2. CASE \A d \in conflict : Yields(t, d, rep.src)
  <2>1. conflict \in SUBSET Present(t) /\ f \in Table /\ rep.code \in Codes
    <3>1. conflict \in SUBSET Present(t)
      BY DEF Holders
    <3>2. f \in Table
      <4> HIDE DEF conflict
      <4> QED
        BY <3>1, FreedTable
    <3> QED
      BY <3>1, <3>2 DEF Report
  <2>2. u = [f EXCEPT ![rep.code] = w]
    BY <1>2 DEF Upserted
  <2>3. CASE c = rep.code
    <3>1. u[c] = w
      BY <2>1, <2>2, <2>3 DEF Table
    <3>2. CASE t[c] # NoRow /\ t[c].static
      <4>1. t[c] \in Row
        BY <1>0, <3>2 DEF Table
      <4>2. w = [t[c] EXCEPT !.seen = TRUE]
        BY <2>3, <3>2 DEF Written
      <4> QED
        BY <1>0, <3>1, <3>2, <4>1, <4>2 DEF Row
    <3>3. CASE ~(t[c] # NoRow /\ t[c].static)
      <4>1. w.router = r
        BY <2>3, <3>3 DEF Written
      <4> QED
        BY <2>3, <3>1, <4>1
    <3> QED
      BY <3>2, <3>3
  <2>4. CASE c # rep.code
    <3>1. u[c] = f[c]
      <4> HIDE DEF f, u, w
      <4> QED
        BY <1>0, <2>1, <2>2, <2>4 DEF Table
    <3>2. CASE c \in conflict
      <4>1. t[c] \in Row
        BY <2>1, <3>2 DEF Present, Table
      <4>2. f[c] = [t[c] EXCEPT !.ip = NoIP]
        BY <1>0, <3>2 DEF Freed
      <4>3. f[c].seen = t[c].seen /\ f[c].static = t[c].static /\ f[c].router = t[c].router
        BY <4>1, <4>2 DEF Row
      <4>4. t[c] # NoRow
        BY <4>1, SentinelsAssumption
      <4> HIDE DEF f, u
      <4> QED
        BY <1>0, <3>1, <4>3, <4>4 DEF Dynamic, Present
    <3>3. CASE c \notin conflict
      <4>1. f[c] = t[c]
        BY <1>0, <3>3 DEF Freed
      <4> HIDE DEF f, u
      <4> QED
        BY <1>0, <3>1, <4>1 DEF Dynamic, Present
    <3> QED
      BY <3>2, <3>3
  <2> QED
    BY <2>3, <2>4
<1> QED
  BY <1>1, <1>2

LEMMA NewScanUnseen ==
  ASSUME NEW t \in Table, NEW c \in Codes, NewScan(t)[c] # NoRow
  PROVE  ~NewScan(t)[c].seen
<1>1. t[c] # NoRow /\ NewScan(t)[c] = [t[c] EXCEPT !.seen = FALSE]
  BY DEF NewScan
<1>2. t[c] \in Row
  BY <1>1 DEF Table
<1> QED
  BY <1>1, <1>2 DEF Row

\* GhostInv reads these variables only.
LEMMA GhostFrame ==
  ASSUME GhostInv, UNCHANGED <<rows, disk, heard, left, cur, pc, cfg, ok, edited>>
  PROVE  GhostInv'
BY DEF GhostInv, SeenIsHeard, CommittedIsHeard, HeardFrom, NoGhosts, Dynamic, Present

\* A change by the operator must keep rows unseen while no cycle runs.
LEMMA GhostGui ==
  ASSUME GhostInv, NEW op, NEW t, GuiWrites(op, t),
         pc = "wait" => \A c \in Present(t) : ~t[c].seen
  PROVE  GhostInv'
BY DEF GhostInv, GuiWrites, NoGhosts, cycleVars, Present

LEMMA GhostOperator ==
  ASSUME TypeOK, GhostInv, Operator
  PROVE  GhostInv'
<1>0. pc = "wait" => \A c \in Present(disk) : ~disk[c].seen
  BY DEF GhostInv
<1>1. CASE AddDevice
  <2> DEFINE row(g) == [ip |-> g.ip, src |-> g.src, router |-> g.router,
                        seen |-> pc # "wait", static |-> TRUE]
  <2>1. PICK g \in GuiRows : GuiWrites("add", [disk EXCEPT ![g.code] = row(g)])
    BY <1>1 DEF AddDevice
  <2>2. row(g).seen = (pc # "wait")
    OBVIOUS
  <2>3. pc = "wait" => \A c \in Present([disk EXCEPT ![g.code] = row(g)]) :
                         ~[disk EXCEPT ![g.code] = row(g)][c].seen
    <3> HIDE DEF row
    <3> QED
      BY <1>0, <2>2 DEF Present, TypeOK, Table
  <2> HIDE DEF row
  <2> QED
    BY <2>1, <2>3, GhostGui
<1>2. CASE UpdateDevice
  <2> DEFINE row(g) == [disk[g.code] EXCEPT !.ip = g.ip, !.src = g.src, !.router = g.router]
  <2>1. PICK g \in GuiRows : /\ disk[g.code] # NoRow
                             /\ GuiWrites("update", [disk EXCEPT ![g.code] = row(g)])
    BY <1>2 DEF UpdateDevice
  <2>2. g.code \in Codes
    BY ConstantsAssumption
  <2>3. disk[g.code] \in Row
    BY <2>1, <2>2 DEF TypeOK, Table
  <2>4. row(g).seen = disk[g.code].seen
    BY <2>3 DEF Row
  <2>5. pc = "wait" => \A c \in Present([disk EXCEPT ![g.code] = row(g)]) :
                         ~[disk EXCEPT ![g.code] = row(g)][c].seen
    <3> HIDE DEF row
    <3> QED
      BY <1>0, <2>1, <2>2, <2>4 DEF Present, TypeOK, Table
  <2> HIDE DEF row
  <2> QED
    BY <2>1, <2>5, GhostGui
<1>3. CASE DeleteDevice \/ FlushTable
  <2>1. PICK op, C : GuiWrites(op, Without(disk, C))
    BY <1>3 DEF DeleteDevice, FlushTable
  <2>2. pc = "wait" => \A c \in Present(Without(disk, C)) : ~Without(disk, C)[c].seen
    BY <1>0 DEF Present, Without
  <2> QED
    BY <2>1, <2>2, GhostGui
<1>4. CASE FlushTableFails
  BY <1>4, GhostFrame DEF FlushTableFails, tableVars, cycleVars
<1>5. CASE FlushFiles
  BY <1>5 DEF FlushFiles, tableVars, cycleVars, GhostInv, NoGhosts, Present
<1> QED
  BY <1>1, <1>2, <1>3, <1>4, <1>5 DEF Operator

LEMMA GhostUpsert ==
  ASSUME TypeOK, GhostInv, Upsert
  PROVE  GhostInv'
<1> PICK rep \in todo : /\ pc = "upsert"
                        /\ rows' = Upserted(rows, rep, cur)
                        /\ heard' = heard \cup {<<cur, rep>>}
                        /\ UNCHANGED <<disk, pc, left, cur, cfg, ok, edited>>
  BY DEF Upsert
<1>1. ~edited => SeenIsHeard'
  <2> SUFFICES ASSUME ~edited, NEW c \in Dynamic(rows'), rows'[c].seen
               PROVE  \E h \in heard' : h[1] = rows'[c].router /\ h[2].code = c
    BY DEF SeenIsHeard, HeardFrom, Dynamic, Present
  <2>1. CASE c = rep.code /\ rows'[c].router = cur
    <3>1. <<cur, rep>> \in heard'
      OBVIOUS
    <3>2. <<cur, rep>>[1] = rows'[c].router /\ <<cur, rep>>[2].code = c
      BY <2>1
    <3> QED
      BY <3>1, <3>2
  <2>2. CASE c \in Dynamic(rows) /\ rows[c].seen /\ rows'[c].router = rows[c].router
    BY <2>2 DEF GhostInv, SeenIsHeard, HeardFrom
  <2> QED
    BY <2>1, <2>2, UpsertedSeen DEF TypeOK
<1>2. ~edited => CommittedIsHeard'
  BY DEF GhostInv, CommittedIsHeard, HeardFrom, Dynamic, Present
<1>3. \A h \in heard' : h[1] \notin left
  BY DEF GhostInv
<1> QED
  BY <1>1, <1>2, <1>3 DEF GhostInv, NoGhosts

LEMMA GhostRemoveDevice ==
  ASSUME TypeOK, GhostInv, RemoveDevice
  PROVE  GhostInv'
<1> PICK d \in gone : /\ pc = "upsert"
                      /\ rows' = Removed(rows, d, cur)
                      /\ UNCHANGED <<disk, pc, left, cur, cfg, ok, heard, edited>>
  BY DEF RemoveDevice
<1>1. \A c \in Dynamic(rows') : c \in Dynamic(rows) /\ rows'[c] = rows[c]
  BY DEF Removed, Without, Dynamic, Present
<1>2. ~edited => SeenIsHeard'
  BY <1>1 DEF GhostInv, SeenIsHeard, HeardFrom, Dynamic, Present
<1>3. ~edited => CommittedIsHeard'
  BY DEF GhostInv, CommittedIsHeard, HeardFrom, Dynamic, Present
<1> QED
  BY <1>2, <1>3 DEF GhostInv, NoGhosts

LEMMA GhostRemoveInactive ==
  ASSUME TypeOK, GhostInv, RemoveInactive
  PROVE  GhostInv'
<1>1. /\ rows' = Without(rows, Inactive(rows, ok, cfg)) /\ disk' = rows' /\ pc' = "export"
      /\ UNCHANGED <<left, cur, cfg, ok, heard, edited>>
  BY DEF RemoveInactive, cycleVars
<1>2. \A c \in Dynamic(rows') : /\ c \in Dynamic(rows) /\ rows'[c] = rows[c]
                                /\ rows[c].router \in cfg
                                /\ rows[c].router \in ok => rows[c].seen
  BY <1>1 DEF Inactive, Without, Dynamic, Present
<1>3. ~edited => SeenIsHeard'
  BY <1>1, <1>2 DEF RemoveInactive, GhostInv, SeenIsHeard, HeardFrom, Dynamic, Present
<1>4. ~edited => NoGhosts'
  <2> SUFFICES ASSUME ~edited, NEW c \in Dynamic(rows')
               PROVE  /\ rows'[c].router \in cfg
                      /\ rows'[c].router \in ok =>
                           \E h \in heard : h[1] = rows'[c].router /\ h[2].code = c
    BY <1>1 DEF NoGhosts, Dynamic, Present
  <2> QED
    BY <1>2 DEF GhostInv, SeenIsHeard, HeardFrom
<1>5. edited => NoGhosts'
  BY <1>1 DEF NoGhosts
<1> QED
  BY <1>1, <1>3, <1>4, <1>5 DEF GhostInv

LEMMA GhostEndCycle ==
  ASSUME TypeOK, EndCycle
  PROVE  GhostInv'
<1>1. \A c \in Present(rows') : ~rows'[c].seen
  BY NewScanUnseen DEF EndCycle, TypeOK, Present
<1>2. SeenIsHeard'
  BY <1>1 DEF SeenIsHeard, Dynamic, Present
<1> QED
  BY <1>1, <1>2 DEF EndCycle, GhostInv, NoGhosts, Present

LEMMA GhostSync ==
  ASSUME TypeOK, GhostInv, Sync
  PROVE  GhostInv'
<1>1. CASE StartFull \/ StartWebhook
  <2>1. PICK k, events, routers : pc = "wait" /\ BeginCycle(k, events, routers)
    BY <1>1 DEF StartFull, StartWebhook
  <2>2. pc' = "route" /\ heard' = {} /\ UNCHANGED <<rows, disk>>
    BY <2>1 DEF BeginCycle, tableVars
  <2>3. \A c \in Present(rows) : ~rows[c].seen
    BY <2>1 DEF GhostInv
  <2>4. SeenIsHeard'
    BY <2>2, <2>3 DEF SeenIsHeard, Dynamic, Present
  <2> QED
    BY <2>1, <2>2, <2>4 DEF GhostInv, NoGhosts
<1>2. CASE SkipWebhook
  BY <1>2, GhostFrame DEF SkipWebhook, tableVars, cycleVars
<1>3. CASE ReadRouter
  <2> PICK r \in left :
        /\ pc = "route" /\ pc' = "upsert" /\ cur' = r /\ left' = left \ {r}
        /\ UNCHANGED <<disk, rows, cfg, ok, heard, edited>>
    BY <1>3 DEF ReadRouter, tableVars
  <2>1. rows = disk /\ r \notin left' /\ \A h \in heard : h[1] # r /\ h[1] \notin left'
    BY DEF GhostInv
  <2>2. ~edited => SeenIsHeard'
    BY DEF GhostInv, SeenIsHeard, HeardFrom, Dynamic, Present
  <2>3. ~edited => CommittedIsHeard'
    <3> SUFFICES ASSUME ~edited, NEW c \in Dynamic(disk), disk[c].seen
                 PROVE  disk[c].router # r /\ HeardFrom(c, disk[c].router)
      BY DEF CommittedIsHeard, HeardFrom, Dynamic, Present
    <3>1. HeardFrom(c, disk[c].router)
      BY <2>1 DEF GhostInv, SeenIsHeard
    <3> QED
      BY <2>1, <3>1 DEF HeardFrom
  <2> QED
    BY <2>1, <2>2, <2>3 DEF GhostInv, NoGhosts
<1>4. CASE ReadFails
  <2>1. pc = "route" /\ left' \subseteq left /\ UNCHANGED <<disk, rows, pc, cur, cfg, ok, heard, edited>>
    BY <1>4 DEF ReadFails, tableVars
  <2>2. ~edited => SeenIsHeard'
    BY <2>1 DEF GhostInv, SeenIsHeard, HeardFrom, Dynamic, Present
  <2> QED
    BY <2>1, <2>2 DEF GhostInv, NoGhosts
<1>5. CASE Upsert
  BY <1>5, GhostUpsert
<1>6. CASE RemoveDevice
  BY <1>6, GhostRemoveDevice
<1>7. CASE CommitRouter
  <2>1. /\ pc' = "route" /\ disk' = rows
        /\ UNCHANGED <<rows, left, heard, edited>>
    BY <1>7 DEF CommitRouter
  <2>2. ~edited => SeenIsHeard'
    BY <2>1 DEF GhostInv, SeenIsHeard, HeardFrom, Dynamic, Present
  <2> QED
    BY <2>1, <2>2 DEF GhostInv, NoGhosts
<1>8. CASE RollbackRouter
  <2>1. /\ pc = "upsert" /\ pc' = "route" /\ rows' = disk
        /\ heard' = {h \in heard : h[1] # cur}
        /\ UNCHANGED <<disk, left, edited>>
    BY <1>8 DEF RollbackRouter
  <2>2. ~edited => SeenIsHeard'
    <3> SUFFICES ASSUME ~edited, NEW c \in Dynamic(disk), disk[c].seen
                 PROVE  \E h \in heard' : h[1] = disk[c].router /\ h[2].code = c
      BY <2>1 DEF SeenIsHeard, HeardFrom, Dynamic, Present
    <3>1. disk[c].router # cur /\ HeardFrom(c, disk[c].router)
      BY <2>1 DEF GhostInv, CommittedIsHeard
    <3> QED
      BY <2>1, <3>1 DEF HeardFrom
  <2>3. \A h \in heard' : h[1] \notin left
    BY <2>1 DEF GhostInv
  <2> QED
    BY <2>1, <2>2, <2>3 DEF GhostInv, NoGhosts
<1>9. CASE RemoveInactive
  BY <1>9, GhostRemoveInactive
<1>10. CASE Export \/ BuildFails \/ Crash
  BY <1>10, GhostEndCycle DEF Export, BuildFails, Crash
<1> QED
  BY <1>1, <1>2, <1>3, <1>4, <1>5, <1>6, <1>7, <1>8, <1>9, <1>10 DEF Sync

LEMMA GhostsInvariant == Spec => []GhostInv
<1>1. Init => GhostInv
  BY DEF Init, GhostInv, SeenIsHeard, NoGhosts, Dynamic, Present
<1>2. TypeOK /\ GhostInv /\ [Next]_vars => GhostInv'
  <2> SUFFICES ASSUME TypeOK, GhostInv, [Next]_vars PROVE GhostInv'
    OBVIOUS
  <2>1. CASE Environment \/ UNCHANGED vars
    BY <2>1, GhostFrame DEF Environment, SessionStart, SessionEnd, WebhookCall, SaveConfig,
                            FullScanDue, vars, tableVars, cycleVars
  <2>2. CASE Operator
    BY <2>2, GhostOperator
  <2>3. CASE Sync
    BY <2>3, GhostSync
  <2> QED
    BY <2>1, <2>2, <2>3 DEF Next
<1> QED
  BY <1>1, <1>2, TypeCorrect, PTL DEF Spec

\* When the file is about to be written, no dynamic row of a router that was read
\* completely is left which that router did not report in this cycle, and none of
\* a router that is not configured, unless the operator changed the table meanwhile.
THEOREM NoGhostsAreLeft == Spec => []NoGhosts
<1>1. GhostInv => NoGhosts
  BY DEF GhostInv
<1> QED
  BY <1>1, GhostsInvariant, PTL

----------------------------------------------------------------------------
\* The highest priority wins

\* The IP of h is held in t by a static row, or by one that was seen and outranks it.
HeldIn(t, h) == \E c \in Holders(t, h[2].ip) :
  t[c].static \/ (t[c].seen /\ Priority[t[c].src] >= Priority[h[2].src])

DisplacedIn(t, H, h) == \E g \in H :
  /\ g[2].ip = h[2].ip
  /\ \/ \E k \in H : Contends(g, k)
     \/ t[g[2].code] # NoRow /\ t[g[2].code].static

Wins(t, H) == \A h \in H : HeldIn(t, h) \/ DisplacedIn(t, H, h)

\* A dynamic row that is seen and has an IP has it from a report of its source.
SeenWith(t, H) == \A c \in Dynamic(t) :
  t[c].seen /\ t[c].ip # NoIP =>
    \E g \in H : g[2].code = c /\ g[2].ip = t[c].ip /\ g[2].src = t[c].src

\* What was heard before the router that is being processed.
Earlier == {h \in heard : h[1] # cur}

\* Only configured routers are heard, and a user who is gone was not heard of.
HeardInv ==
  /\ left \subseteq cfg /\ (pc = "upsert" => cur \in cfg)
  /\ \A h \in heard : h[1] \in cfg /\ h[2].ip \in IPs
  /\ pc = "upsert" => /\ \A rep \in todo : rep.code \notin gone
                      /\ \A h \in heard : h[1] = cur => h[2].code \notin gone

PriorityInv ==
  /\ HeardInv
  /\ ~edited => SeenWith(rows, heard) /\ Wins(rows, heard)
  /\ pc = "upsert" /\ ~edited => SeenWith(disk, Earlier) /\ Wins(disk, Earlier)

LEMMA WinsIsHighest == PriorityInv => HighestPriorityWins
  BY DEF PriorityInv, Wins, HeldIn, DisplacedIn, HighestPriorityWins, HeldFor, Displaced

\* The rows after an upsert that was not skipped.
LEMMA UpsertedRows ==
  ASSUME NEW t \in Table, NEW rep \in Report, NEW r \in Routers,
         \A d \in Holders(t, rep.ip) \ {rep.code} : Yields(t, d, rep.src)
  PROVE  \A c \in Codes :
           Upserted(t, rep, r)[c] = IF c = rep.code THEN Written(t, rep, r)
                                    ELSE IF c \in Holders(t, rep.ip) THEN [t[c] EXCEPT !.ip = NoIP]
                                    ELSE t[c]
<1> TAKE c \in Codes
<1> DEFINE conflict == Holders(t, rep.ip) \ {rep.code}
           f == Freed(t, conflict)
           w == Written(t, rep, r)
<1>1. Upserted(t, rep, r) = [f EXCEPT ![rep.code] = w]
  BY DEF Upserted
<1>2. f = [d \in Codes |-> IF d \in conflict THEN [t[d] EXCEPT !.ip = NoIP] ELSE t[d]]
  BY DEF Freed
<1>3. rep.code \in Codes
  BY DEF Report
<1>4. CASE c = rep.code
  <2> HIDE DEF w, conflict
  <2> QED
    BY <1>1, <1>2, <1>3, <1>4 DEF w
<1>5. CASE c # rep.code
  <2>1. Upserted(t, rep, r)[c] = f[c]
    <3> HIDE DEF w, f
    <3> QED
      BY <1>1, <1>2, <1>5 DEF f
  <2>2. f[c] = IF c \in conflict THEN [t[c] EXCEPT !.ip = NoIP] ELSE t[c]
    <3> HIDE DEF conflict
    <3> QED
      BY <1>2
  <2> QED
    BY <1>5, <2>1, <2>2
<1> QED
  BY <1>4, <1>5

\* The same, field by field.
LEMMA UpsertedFields ==
  ASSUME NEW t \in Table, NEW rep \in Report, NEW r \in Routers, rep.ip \in IPs,
         \A d \in Holders(t, rep.ip) \ {rep.code} : Yields(t, d, rep.src),
         NEW u, u = Upserted(t, rep, r)
  PROVE  /\ u[rep.code] # NoRow /\ u[rep.code].seen
         /\ t[rep.code] # NoRow /\ t[rep.code].static =>
              u[rep.code].static /\ u[rep.code].ip = t[rep.code].ip
         /\ ~(t[rep.code] # NoRow /\ t[rep.code].static) =>
              ~u[rep.code].static /\ u[rep.code].ip = rep.ip /\ u[rep.code].src = rep.src
         /\ \A c \in Codes \ {rep.code} :
              IF c \in Holders(t, rep.ip)
              THEN u[c] # NoRow /\ ~t[c].static /\ ~u[c].static /\ u[c].ip = NoIP
              ELSE u[c] = t[c]
<1> DEFINE holds(c) == c \in Holders(t, rep.ip)
<1>0. \A c \in Codes : u[c] = IF c = rep.code THEN Written(t, rep, r)
                              ELSE IF holds(c) THEN [t[c] EXCEPT !.ip = NoIP] ELSE t[c]
  BY UpsertedRows
<1>1. rep.code \in Codes
  BY DEF Report
<1>2. u[rep.code] = Written(t, rep, r) /\ Written(t, rep, r) \in Row
  BY <1>0, <1>1, WrittenRow
<1>3. ASSUME t[rep.code] # NoRow, t[rep.code].static
      PROVE  u[rep.code].static /\ u[rep.code].ip = t[rep.code].ip
  <2>1. Written(t, rep, r) = [t[rep.code] EXCEPT !.seen = TRUE] /\ t[rep.code] \in Row
    BY <1>1, <1>3 DEF Written, Table
  <2> QED
    BY <1>2, <1>3, <2>1 DEF Row
<1>4. ASSUME ~(t[rep.code] # NoRow /\ t[rep.code].static)
      PROVE  ~u[rep.code].static /\ u[rep.code].ip = rep.ip /\ u[rep.code].src = rep.src
  <2>1. Written(t, rep, r) = [ip |-> rep.ip, src |-> rep.src, router |-> r, seen |-> TRUE, static |-> FALSE]
    BY <1>4 DEF Written
  <2> QED
    BY <1>2, <1>4, <2>1
<1>5. u[rep.code] # NoRow /\ u[rep.code].seen
  <2>1. u[rep.code] # NoRow
    BY <1>2, SentinelsAssumption
  <2>2. u[rep.code].seen
    <3>1. CASE t[rep.code] # NoRow /\ t[rep.code].static
      <4>1. Written(t, rep, r) = [t[rep.code] EXCEPT !.seen = TRUE] /\ t[rep.code] \in Row
        BY <1>1, <3>1 DEF Written, Table
      <4> QED
        BY <1>2, <4>1 DEF Row
    <3>2. CASE ~(t[rep.code] # NoRow /\ t[rep.code].static)
      BY <1>2, <3>2 DEF Written
    <3> QED
      BY <3>1, <3>2
  <2> QED
    BY <2>1, <2>2
<1>6. ASSUME NEW c \in Codes \ {rep.code}
      PROVE  IF c \in Holders(t, rep.ip)
             THEN u[c] # NoRow /\ ~t[c].static /\ ~u[c].static /\ u[c].ip = NoIP
             ELSE u[c] = t[c]
  <2>1. CASE holds(c)
    <3>1. t[c] \in Row /\ ~t[c].static
      BY <2>1 DEF Holders, Present, Table, Yields
    <3>2. u[c] = [t[c] EXCEPT !.ip = NoIP]
      <4> HIDE DEF holds
      <4> QED
        BY <1>0, <2>1
    <3>3. u[c] \in Row /\ ~u[c].static /\ u[c].ip = NoIP
      BY <3>1, <3>2 DEF Row
    <3>4. u[c] # NoRow
      BY <3>3, SentinelsAssumption
    <3> QED
      BY <2>1, <3>1, <3>3, <3>4
  <2>2. CASE ~holds(c)
    BY <1>0, <2>2
  <2> QED
    BY <2>1, <2>2
<1> QED
  BY <1>3, <1>4, <1>5, <1>6

\* upsert_device lets the higher priority win.
LEMMA UpsertedWins ==
  ASSUME NEW t \in Table, NEW rep \in Report, NEW r \in Routers, rep.ip \in IPs,
         NEW H \in SUBSET (Routers \X Report), \A h \in H : h[2].ip \in IPs,
         SeenWith(t, H), Wins(t, H)
  PROVE  SeenWith(Upserted(t, rep, r), H \cup {<<r, rep>>}) /\ Wins(Upserted(t, rep, r), H \cup {<<r, rep>>})
<1> DEFINE u == Upserted(t, rep, r)
           h0 == <<r, rep>>
           all == H \cup {h0}
           skip == \E d \in Holders(t, rep.ip) \ {rep.code} : ~Yields(t, d, rep.src)
           Fixed(c) == t[c] # NoRow /\ t[c].static
<1>1. h0[2] = rep /\ rep.code \in Codes /\ rep.src \in Sources /\ NoIP \notin IPs
  BY SentinelsAssumption DEF Report
<1>2. CASE skip
  <2>1. u = t
    BY <1>2 DEF Upserted
  <2>2. SeenWith(t, all)
    BY DEF SeenWith
  <2>3. PICK d \in Holders(t, rep.ip) : ~Yields(t, d, rep.src)
    BY <1>2
  <2>4. t[d] \in Row /\ d \in Codes
    BY <2>3 DEF Holders, Present, Table
  <2>5. t[d].static \/ (t[d].seen /\ Priority[t[d].src] >= Priority[rep.src])
    <3>1. Priority[rep.src] \in Nat /\ Priority[t[d].src] \in Nat /\ t[d].seen \in BOOLEAN /\ t[d].static \in BOOLEAN
      BY <1>1, <2>4, ConstantsAssumption DEF Row
    <3> QED
      BY <2>3, <3>1 DEF Yields
  <2>6. HeldIn(t, h0)
    BY <1>1, <2>3, <2>5 DEF HeldIn
  <2>7. \A h \in H : DisplacedIn(t, H, h) => DisplacedIn(t, all, h)
    BY DEF DisplacedIn
  <2>8. Wins(t, all)
    <3> HIDE DEF h0
    <3> QED
      BY <2>6, <2>7 DEF Wins
  <2> QED
    BY <2>1, <2>2, <2>8
<1>3. CASE ~skip
  <2> HIDE DEF u
  <2>1. \A d \in Holders(t, rep.ip) \ {rep.code} : Yields(t, d, rep.src)
    BY <1>3
  <2>2. /\ u[rep.code] # NoRow /\ u[rep.code].seen
        /\ Fixed(rep.code) => u[rep.code].static /\ u[rep.code].ip = t[rep.code].ip
        /\ ~Fixed(rep.code) => ~u[rep.code].static /\ u[rep.code].ip = rep.ip /\ u[rep.code].src = rep.src
    BY <2>1, UpsertedFields DEF u
  <2>3. \A c \in Codes \ {rep.code} :
          IF c \in Holders(t, rep.ip)
          THEN u[c] # NoRow /\ ~t[c].static /\ ~u[c].static /\ u[c].ip = NoIP
          ELSE u[c] = t[c]
    BY <2>1, UpsertedFields DEF u
  <2>4. SeenWith(u, all)
    <3> SUFFICES ASSUME NEW c \in Dynamic(u), u[c].seen, u[c].ip # NoIP
                 PROVE  \E g \in all : g[2].code = c /\ g[2].ip = u[c].ip /\ g[2].src = u[c].src
      BY DEF SeenWith
    <3>1. CASE c = rep.code
      <4>1. u[c].ip = rep.ip /\ u[c].src = rep.src
        BY <2>2, <3>1 DEF Dynamic
      <4> QED
        BY <1>1, <3>1, <4>1
    <3>2. CASE c # rep.code
      <4>1. c \in Codes /\ u[c] = t[c]
        BY <2>3, <3>2 DEF Dynamic, Present
      <4>2. c \in Dynamic(t)
        BY <4>1 DEF Dynamic, Present
      <4>3. PICK g \in H : g[2].code = c /\ g[2].ip = t[c].ip /\ g[2].src = t[c].src
        BY <4>1, <4>2 DEF SeenWith
      <4> QED
        BY <4>1, <4>3
    <3> QED
      BY <3>1, <3>2
  <2>5. ASSUME ~Fixed(rep.code) PROVE rep.code \in Holders(u, rep.ip)
    BY <1>1, <2>2, <2>5 DEF Holders, Present
  <2>6. Priority[rep.src] \in Nat /\ \A h \in H : Priority[h[2].src] \in Nat
    BY <1>1, ConstantsAssumption DEF Report
  <2>7. HeldIn(u, h0) \/ DisplacedIn(u, all, h0)
    <3>1. CASE Fixed(rep.code)
      BY <1>1, <2>2, <3>1 DEF DisplacedIn
    <3>2. CASE ~Fixed(rep.code)
      BY <1>1, <2>2, <2>5, <2>6, <3>2 DEF HeldIn
    <3> QED
      BY <3>1, <3>2
  <2>8. ASSUME NEW h \in H, DisplacedIn(t, H, h) PROVE DisplacedIn(u, all, h)
    <3>1. PICK g \in H : /\ g[2].ip = h[2].ip
                         /\ (\E k \in H : Contends(g, k)) \/ Fixed(g[2].code)
      BY <2>8 DEF DisplacedIn
    <3>2. ASSUME Fixed(g[2].code) PROVE u[g[2].code] # NoRow /\ u[g[2].code].static
      <4>1. g[2].code \in Codes
        BY DEF Report
      <4> QED
        BY <2>2, <2>3, <3>2, <4>1
    <3> QED
      BY <3>1, <3>2 DEF DisplacedIn
  <2>9. ASSUME NEW h \in H, HeldIn(t, h) PROVE HeldIn(u, h) \/ DisplacedIn(u, all, h)
    <3> PICK c \in Holders(t, h[2].ip) : t[c].static \/ (t[c].seen /\ Priority[t[c].src] >= Priority[h[2].src])
      BY <2>9 DEF HeldIn
    <3>1. c \in Codes /\ t[c] # NoRow /\ t[c].ip = h[2].ip /\ t[c] \in Row /\ h[2].ip \in IPs
      BY DEF Holders, Present, Table
    <3>2. CASE c # rep.code /\ c \in Holders(t, rep.ip)
      <4>1. ~t[c].static /\ rep.ip = h[2].ip
        BY <2>3, <3>1, <3>2 DEF Holders
      <4>2. Priority[rep.src] > Priority[t[c].src]
        BY <2>1, <3>2, <4>1 DEF Yields
      <4>3. Priority[t[c].src] \in Nat
        BY <3>1, ConstantsAssumption DEF Row
      <4>4. CASE Fixed(rep.code)
        BY <1>1, <2>2, <4>1, <4>4 DEF DisplacedIn
      <4>5. CASE ~Fixed(rep.code)
        BY <2>2, <2>5, <2>6, <4>1, <4>2, <4>3, <4>5 DEF HeldIn
      <4> QED
        BY <4>4, <4>5
    <3>3. CASE c = rep.code /\ Fixed(c)
      <4>1. c \in Holders(u, h[2].ip) /\ u[c].static
        BY <2>2, <3>1, <3>3 DEF Holders, Present
      <4> QED
        BY <4>1 DEF HeldIn
    <3>4. CASE c = rep.code /\ ~Fixed(c)
      <4>1. c \in Dynamic(t) /\ t[c].seen /\ Priority[t[c].src] >= Priority[h[2].src]
        BY <3>1, <3>4 DEF Dynamic, Present
      <4>2. PICK g \in H : g[2].code = c /\ g[2].ip = t[c].ip /\ g[2].src = t[c].src
        BY <1>1, <3>1, <4>1 DEF SeenWith
      <4>3. CASE rep.ip = t[c].ip /\ rep.src = t[c].src
        BY <2>2, <2>5, <3>1, <3>4, <4>1, <4>3 DEF HeldIn
      <4>4. CASE ~(rep.ip = t[c].ip /\ rep.src = t[c].src)
        <5>1. Contends(g, h0)
          BY <1>1, <3>4, <4>2, <4>4 DEF Contends
        <5> HIDE DEF h0
        <5> QED
          BY <3>1, <4>2, <5>1 DEF DisplacedIn
      <4> QED
        BY <4>3, <4>4
    <3>5. CASE c # rep.code /\ c \notin Holders(t, rep.ip)
      <4>1. u[c] = t[c]
        BY <2>3, <3>1, <3>5
      <4>2. c \in Holders(u, h[2].ip)
        BY <3>1, <4>1 DEF Holders, Present
      <4> QED
        BY <4>1, <4>2 DEF HeldIn
    <3> QED
      BY <3>2, <3>3, <3>4, <3>5
  <2>10. Wins(u, all)
    <3> HIDE DEF h0
    <3> QED
      BY <2>7, <2>8, <2>9 DEF Wins
  <2> QED
    BY <2>4, <2>10 DEF u
<1> QED
  BY <1>2, <1>3

\* Taking unseen dynamic rows away takes no IP from a report.
LEMMA UnseenMayGo ==
  ASSUME NEW t \in Table, NEW u \in Table, NEW H \in SUBSET (Routers \X Report),
         SeenWith(t, H), Wins(t, H),
         \A c \in Codes : u[c] = t[c] \/ (u[c] = NoRow /\ ~t[c].static /\ ~t[c].seen)
  PROVE  SeenWith(u, H) /\ Wins(u, H)
<1>1. \A c \in Present(u) : c \in Codes /\ u[c] = t[c] /\ c \in Present(t)
  BY DEF Present
<1>2. SeenWith(u, H)
  BY <1>1 DEF SeenWith, Dynamic
<1>3. ASSUME NEW h \in H, HeldIn(t, h) PROVE HeldIn(u, h)
  <2> PICK c \in Holders(t, h[2].ip) : t[c].static \/ (t[c].seen /\ Priority[t[c].src] >= Priority[h[2].src])
    BY <1>3 DEF HeldIn
  <2>1. c \in Codes /\ t[c] # NoRow /\ u[c] = t[c]
    BY DEF Holders, Present
  <2>2. c \in Holders(u, h[2].ip)
    BY <2>1 DEF Holders, Present
  <2> QED
    BY <2>1, <2>2 DEF HeldIn
<1>4. ASSUME NEW h \in H, DisplacedIn(t, H, h) PROVE DisplacedIn(u, H, h)
  <2> PICK g \in H : /\ g[2].ip = h[2].ip
                     /\ \/ \E k \in H : Contends(g, k)
                        \/ t[g[2].code] # NoRow /\ t[g[2].code].static
    BY <1>4 DEF DisplacedIn
  <2>1. g[2].code \in Codes
    BY DEF Report
  <2>2. t[g[2].code] # NoRow /\ t[g[2].code].static => u[g[2].code] = t[g[2].code]
    BY <2>1
  <2> QED
    BY <2>2 DEF DisplacedIn
<1>5. Wins(u, H)
  BY <1>3, <1>4 DEF Wins
<1> QED
  BY <1>2, <1>5

LEMMA NothingHeardWins ==
  ASSUME NEW t, \A c \in Present(t) : ~t[c].seen
  PROVE  SeenWith(t, {}) /\ Wins(t, {})
BY DEF SeenWith, Wins, Dynamic

\* PriorityInv reads these variables only.
LEMMA PriorityFrame ==
  ASSUME PriorityInv, UNCHANGED <<rows, disk, heard, left, cur, pc, cfg, todo, gone, edited>>
  PROVE  PriorityInv'
<1>1. Earlier' = Earlier
  BY DEF Earlier
<1> QED
  BY <1>1 DEF PriorityInv, HeardInv, SeenWith, Wins, HeldIn, DisplacedIn, Holders, Dynamic, Present, Contends

LEMMA PriorityOperator ==
  ASSUME PriorityInv, Operator
  PROVE  PriorityInv'
<1>1. CASE FlushTableFails
  BY <1>1, PriorityFrame DEF FlushTableFails, tableVars, cycleVars
<1>2. CASE FlushFiles
  BY <1>2 DEF FlushFiles, cycleVars, PriorityInv, HeardInv
<1>3. CASE \E op, t : GuiWrites(op, t)
  BY <1>3 DEF GuiWrites, cycleVars, PriorityInv, HeardInv
<1> QED
  BY <1>1, <1>2, <1>3 DEF Operator, AddDevice, UpdateDevice, DeleteDevice, FlushTable

LEMMA PriorityUpsert ==
  ASSUME TypeOK, PriorityInv, Upsert
  PROVE  PriorityInv'
<1> PICK rep \in todo : /\ pc = "upsert"
                        /\ rows' = Upserted(rows, rep, cur)
                        /\ todo' = todo \ {rep}
                        /\ heard' = heard \cup {<<cur, rep>>}
                        /\ UNCHANGED <<disk, pc, left, cur, cfg, gone, edited>>
  BY DEF Upsert
<1>1. rep \in Report /\ rep.ip \in IPs /\ cur \in Routers /\ rows \in Table
  BY DEF TypeOK, Report
<1>2. HeardInv'
  BY <1>1 DEF PriorityInv, HeardInv
<1>3. heard \in SUBSET (Routers \X Report) /\ \A h \in heard : h[2].ip \in IPs
  BY DEF TypeOK, PriorityInv, HeardInv
<1>4. ASSUME ~edited PROVE SeenWith(rows', heard') /\ Wins(rows', heard')
  <2>1. SeenWith(rows, heard) /\ Wins(rows, heard)
    BY <1>4 DEF PriorityInv
  <2> QED
    BY <1>1, <1>3, <2>1, UpsertedWins
<1>5. Earlier' = Earlier
  BY DEF Earlier
<1> QED
  BY <1>2, <1>4, <1>5 DEF PriorityInv, SeenWith, Wins

LEMMA PriorityRemoveDevice ==
  ASSUME TypeOK, GhostInv, PriorityInv, RemoveDevice
  PROVE  PriorityInv'
<1> PICK d \in gone : /\ pc = "upsert"
                      /\ rows' = Removed(rows, d, cur)
                      /\ gone' = gone \ {d}
                      /\ UNCHANGED <<disk, pc, left, cur, cfg, todo, heard, edited>>
  BY DEF RemoveDevice
<1>1. HeardInv'
  BY DEF PriorityInv, HeardInv
<1>2. Earlier' = Earlier
  BY DEF Earlier
<1>3. rows \in Table /\ rows' \in Table /\ heard \in SUBSET (Routers \X Report)
  BY RemovedTable DEF TypeOK
<1>4. ASSUME ~edited PROVE SeenWith(rows', heard) /\ Wins(rows', heard)
  <2>1. SeenWith(rows, heard) /\ Wins(rows, heard)
    BY <1>4 DEF PriorityInv
  <2>2. d \in Dynamic(rows) /\ rows[d].router = cur => ~rows[d].seen
    BY <1>4 DEF GhostInv, SeenIsHeard, HeardFrom, PriorityInv, HeardInv
  <2>3. \A c \in Codes : rows'[c] = rows[c] \/ (rows'[c] = NoRow /\ ~rows[c].static /\ ~rows[c].seen)
    BY <2>2 DEF Removed, Without, Dynamic
  <2> QED
    BY <1>3, <2>1, <2>3, UnseenMayGo
<1> QED
  BY <1>1, <1>2, <1>4 DEF PriorityInv, SeenWith, Wins

LEMMA PriorityRemoveInactive ==
  ASSUME TypeOK, GhostInv, PriorityInv, RemoveInactive
  PROVE  PriorityInv'
<1>1. /\ pc = "route" /\ pc' = "export" /\ rows' = Without(rows, Inactive(rows, ok, cfg))
      /\ UNCHANGED <<left, cur, cfg, heard, todo, gone, edited>>
  BY DEF RemoveInactive, cycleVars
<1>2. HeardInv'
  BY <1>1 DEF PriorityInv, HeardInv
<1>3. rows \in Table /\ rows' \in Table /\ heard \in SUBSET (Routers \X Report)
  BY <1>1, WithoutTable DEF TypeOK
<1>4. ASSUME ~edited PROVE SeenWith(rows', heard) /\ Wins(rows', heard)
  <2>1. SeenWith(rows, heard) /\ Wins(rows, heard)
    BY <1>4 DEF PriorityInv
  <2>2. \A c \in Inactive(rows, ok, cfg) : ~rows[c].static /\ ~rows[c].seen
    <3> SUFFICES ASSUME NEW c \in Dynamic(rows), rows[c].router \notin cfg PROVE ~rows[c].seen
      BY DEF Inactive, Dynamic
    <3> QED
      BY <1>4 DEF GhostInv, SeenIsHeard, HeardFrom, PriorityInv, HeardInv
  <2>3. \A c \in Codes : rows'[c] = rows[c] \/ (rows'[c] = NoRow /\ ~rows[c].static /\ ~rows[c].seen)
    BY <1>1, <2>2 DEF Without
  <2> QED
    BY <1>3, <2>1, <2>3, UnseenMayGo
<1> QED
  BY <1>1, <1>2, <1>4 DEF PriorityInv, SeenWith, Wins

LEMMA PrioritySync ==
  ASSUME TypeOK, GhostInv, PriorityInv, Sync
  PROVE  PriorityInv'
<1>1. CASE StartFull \/ StartWebhook
  <2>1. PICK k, events, routers : /\ pc = "wait" /\ routers \subseteq config
                                  /\ BeginCycle(k, events, routers)
    BY <1>1 DEF StartFull, StartWebhook
  <2>2. /\ pc' = "route" /\ heard' = {} /\ left' \subseteq cfg'
        /\ UNCHANGED <<rows, disk>>
    BY <2>1 DEF BeginCycle, tableVars
  <2>3. SeenWith(rows, {}) /\ Wins(rows, {})
    BY <2>1, NothingHeardWins DEF GhostInv
  <2> QED
    BY <2>2, <2>3 DEF PriorityInv, HeardInv, SeenWith, Wins
<1>2. CASE SkipWebhook
  BY <1>2, PriorityFrame DEF SkipWebhook, tableVars, cycleVars
<1>3. CASE ReadRouter
  <2> DEFINE synced(r)   == {rep \in live[r] : rep.src = "pppoe" => r \in PppSynced}
             sessions(r) == {rep \in synced(r) : rep.src = "pppoe" /\ rep.code \in Users(r)}
             seen(r)     == IF Full(r) THEN synced(r) ELSE sessions(r)
             ended(r)    == IF Full(r) \/ r \notin PppSynced
                            THEN {} ELSE Users(r) \ {rep.code : rep \in sessions(r)}
  <2> PICK r \in left :
        /\ pc = "route" /\ pc' = "upsert" /\ cur' = r /\ left' = left \ {r}
        /\ todo' = {rep \in seen(r) : rep.ip # NoIP} /\ gone' = ended(r)
        /\ UNCHANGED <<disk, rows, cfg, heard, edited>>
    BY <1>3 DEF ReadRouter, tableVars
  <2>1. \A rep \in todo' : rep.code \notin gone'
    <3> SUFFICES ASSUME NEW rep \in seen(r), rep.code \in ended(r) PROVE FALSE
      OBVIOUS
    <3>1. ~Full(r) /\ rep.code \notin {x.code : x \in sessions(r)}
      <4> HIDE DEF sessions
      <4> QED
        OBVIOUS
    <3>2. rep \in sessions(r)
      <4> HIDE DEF sessions, synced, ended
      <4> QED
        BY <3>1
    <3> HIDE DEF sessions
    <3> QED
      BY <3>1, <3>2
  <2>2. \A h \in heard : h[1] # r
    BY DEF GhostInv
  <2>3. HeardInv'
    <3> HIDE DEF seen, ended
    <3> QED
      BY <2>1, <2>2 DEF PriorityInv, HeardInv
  <2>4. rows = disk /\ Earlier' = heard
    BY <2>2 DEF GhostInv, Earlier
  <2> HIDE DEF seen, ended
  <2> QED
    BY <2>3, <2>4 DEF PriorityInv, SeenWith, Wins
<1>4. CASE ReadFails
  <2>1. /\ pc = "route" /\ left' \subseteq left
        /\ UNCHANGED <<disk, rows, pc, cur, cfg, heard, todo, gone, edited>>
    BY <1>4 DEF ReadFails, tableVars
  <2> QED
    BY <2>1 DEF PriorityInv, HeardInv, SeenWith, Wins
<1>5. CASE Upsert
  BY <1>5, PriorityUpsert
<1>6. CASE RemoveDevice
  BY <1>6, PriorityRemoveDevice
<1>7. CASE CommitRouter
  <2>1. pc' = "route" /\ UNCHANGED <<rows, cfg, left, heard, edited>>
    BY <1>7 DEF CommitRouter
  <2> QED
    BY <2>1 DEF PriorityInv, HeardInv, SeenWith, Wins
<1>8. CASE RollbackRouter
  <2>1. /\ pc = "upsert" /\ pc' = "route" /\ rows' = disk /\ heard' = Earlier
        /\ UNCHANGED <<cfg, left, edited>>
    BY <1>8 DEF RollbackRouter, Earlier
  <2>2. HeardInv'
    BY <2>1 DEF PriorityInv, HeardInv, Earlier
  <2> QED
    BY <2>1, <2>2 DEF PriorityInv, SeenWith, Wins
<1>9. CASE RemoveInactive
  BY <1>9, PriorityRemoveInactive
<1>10. CASE Export \/ BuildFails \/ Crash
  <2>1. EndCycle
    BY <1>10 DEF Export, BuildFails, Crash
  <2>2. \A c \in Present(rows') : ~rows'[c].seen
    BY <2>1, NewScanUnseen DEF EndCycle, TypeOK, Present
  <2>3. SeenWith(rows', {}) /\ Wins(rows', {})
    BY <2>2, NothingHeardWins
  <2> QED
    BY <2>1, <2>3 DEF EndCycle, PriorityInv, HeardInv, SeenWith, Wins
<1> QED
  BY <1>1, <1>2, <1>3, <1>4, <1>5, <1>6, <1>7, <1>8, <1>9, <1>10 DEF Sync

\* Whatever routers say and in whichever order they are read, through failures,
\* rollbacks, removals and crashes: an IP reported in a cycle is held by a device that
\* outranks the report, with the exceptions HighestPriorityWins names.
THEOREM HigherPriorityWins == Spec => []HighestPriorityWins
<1>1. Init => PriorityInv
  BY DEF Init, PriorityInv, HeardInv, SeenWith, Wins, Dynamic, Present
<1>2. TypeOK /\ GhostInv /\ PriorityInv /\ [Next]_vars => PriorityInv'
  <2> SUFFICES ASSUME TypeOK, GhostInv, PriorityInv, [Next]_vars PROVE PriorityInv'
    OBVIOUS
  <2>1. CASE Environment \/ UNCHANGED vars
    BY <2>1, PriorityFrame DEF Environment, SessionStart, SessionEnd, WebhookCall, SaveConfig,
                               FullScanDue, vars, tableVars, cycleVars
  <2>2. CASE Operator
    BY <2>2, PriorityOperator
  <2>3. CASE Sync
    BY <2>3, PrioritySync
  <2> QED
    BY <2>1, <2>2, <2>3 DEF Next
<1> QED
  BY <1>1, <1>2, WinsIsHighest, TypeCorrect, GhostsInvariant, PTL DEF Spec

----------------------------------------------------------------------------
\* Who stays connected stays shaped

\* The row of s in t has the subscriber's address ...
Holds(t, s) == t[s[2].code] # NoRow /\ t[s[2].code].ip = s[2].ip

\* ... and if there is a row, the subscriber's router has put it there.
IsOwn(t, s) == t[s[2].code] # NoRow =>
  ~t[s[2].code].static /\ t[s[2].code].router = s[1] /\ t[s[2].code].src = s[2].src

SeenIfHeld(t, s) == Holds(t, s) => t[s[2].code].seen

\* While the router's reports are applied, s is still to come or has been seen, and
\* it is not among those who are gone.
SteadyReading(s) ==
  /\ todo \subseteq Reportable[cur]
  /\ cur = s[1] => s[2].code \notin gone
  /\ ~Full(cur) => \A rep \in todo : rep.src = "pppoe"
  /\ Full(cur) /\ cur = s[1] => s[2] \in todo \/ SeenIfHeld(rows, s)

\* A router counts as scanned only when s was seen in it.
SteadyInv(s) ==
  /\ s[2] \in live[s[1]] /\ live \in [Routers -> SUBSET Report]
  /\ \A r \in Routers : live[r] \subseteq Reportable[r]
  /\ pc # "wait" => s[1] \in cfg
  /\ ~flushing
  /\ IsOwn(rows, s) /\ IsOwn(disk, s)
  /\ <<s[2].code, s[2].ip>> \in csv => Holds(rows, s) /\ Holds(disk, s)
  /\ s[1] \in ok => SeenIfHeld(rows, s) /\ SeenIfHeld(disk, s)
  /\ pc = "upsert" => SteadyReading(s)

LEMMA SteadyReport ==
  ASSUME NEW s \in Steady
  PROVE  s[1] \in Routers /\ s[2] \in Reportable[s[1]] /\ s[2] \in Report /\ s[2].code \in Codes
BY ConstantsAssumption DEF Report

\* What an upsert does to the row of s: it stays the router's own, keeps its address
\* and is seen once it was reported.
LEMMA SteadyUpserted ==
  ASSUME NEW s \in Steady, Uncontested(s), NEW t \in Table, OneHolder(t), IsOwn(t, s),
         NEW r \in Routers, NEW rep \in Reportable[r], rep.ip \in IPs,
         rep # s[2] /\ rep.ip = s[2].ip => SeenIfHeld(t, s),
         NEW u, u = Upserted(t, rep, r)
  PROVE  /\ IsOwn(u, s)
         /\ Holds(t, s) => Holds(u, s)
         /\ rep = s[2] \/ SeenIfHeld(t, s) => SeenIfHeld(u, s)
<1> DEFINE c == s[2].code
           free == \A d \in Holders(t, rep.ip) \ {rep.code} : Yields(t, d, rep.src)
<1>0. rep \in Report /\ c \in Codes /\ s[2] \in Report /\ s[1] \in Routers /\ s[2].ip # NoIP
  BY SteadyReport, ConstantsAssumption DEF Uncontested
<1>1. CASE ~free
  <2>1. u = t
    BY <1>1 DEF Upserted
  <2>2. rep = s[2] => ~Holds(t, s)
    <3> SUFFICES ASSUME rep = s[2], Holds(t, s) PROVE free
      BY <1>1
    <3>1. c \in Holders(t, rep.ip)
      BY <1>0 DEF Holds, Holders, Present
    <3> QED
      BY <3>1 DEF OneHolder
  <2> QED
    BY <2>1, <2>2 DEF SeenIfHeld
<1>2. CASE free
  <2>0. /\ u[rep.code] # NoRow /\ u[rep.code].seen
        /\ ~(t[rep.code] # NoRow /\ t[rep.code].static) =>
              ~u[rep.code].static /\ u[rep.code].ip = rep.ip /\ u[rep.code].src = rep.src
        /\ \A d \in Codes \ {rep.code} :
              IF d \in Holders(t, rep.ip)
              THEN u[d] # NoRow /\ ~t[d].static /\ ~u[d].static /\ u[d].ip = NoIP
              ELSE u[d] = t[d]
    <3> HIDE DEF free, c
    <3> QED
      BY <1>0, <1>2, UpsertedFields DEF free
  <2>1. CASE rep.code = c
    <3>1. r = s[1] /\ rep = s[2]
      BY <2>1 DEF Uncontested
    <3>2. ~(t[c] # NoRow /\ t[c].static)
      BY DEF IsOwn
    <3>3. u[c] = Written(t, rep, r)
      <4>1. \A d \in Codes : u[d] = IF d = rep.code THEN Written(t, rep, r)
                                    ELSE IF d \in Holders(t, rep.ip) THEN [t[d] EXCEPT !.ip = NoIP]
                                    ELSE t[d]
        BY <1>0, <1>2, UpsertedRows
      <4> QED
        BY <1>0, <2>1, <4>1
    <3>4. u[c].router = r
      BY <2>1, <3>2, <3>3 DEF Written
    <3> QED
      BY <2>0, <2>1, <3>1, <3>2, <3>4 DEF IsOwn, Holds, SeenIfHeld
  <2>2. CASE rep.code # c /\ c \notin Holders(t, rep.ip)
    <3>1. u[c] = t[c]
      BY <1>0, <2>0, <2>2
    <3> QED
      BY <2>2, <3>1 DEF IsOwn, Holds, SeenIfHeld
  <2>3. CASE rep.code # c /\ c \in Holders(t, rep.ip)
    <3>1. t[c] # NoRow /\ t[c].ip = rep.ip /\ rep # s[2]
      BY <2>3 DEF Holders, Present
    <3>2. rep.ip # s[2].ip
      <4> SUFFICES ASSUME rep.ip = s[2].ip PROVE FALSE
        OBVIOUS
      <4>1. Priority[rep.src] <= Priority[s[2].src] /\ t[c].src = s[2].src /\ t[c].seen
        BY <3>1 DEF Uncontested, IsOwn, Holds, SeenIfHeld
      <4>2. Priority[rep.src] \in Nat /\ Priority[s[2].src] \in Nat
        BY <1>0, ConstantsAssumption DEF Report
      <4>3. Yields(t, c, rep.src)
        BY <1>2, <2>3
      <4> QED
        BY <4>1, <4>2, <4>3 DEF Yields
    <3>3. u[c] = [t[c] EXCEPT !.ip = NoIP] /\ t[c] \in Row
      <4>1. u[c] = [t[c] EXCEPT !.ip = NoIP]
        <5> HIDE DEF free
        <5> QED
          BY <1>0, <1>2, <2>3, UpsertedRows DEF free
      <4> QED
        BY <1>0, <3>1, <4>1 DEF Table
    <3>4. u[c].ip = NoIP /\ ~u[c].static /\ u[c].router = s[1] /\ u[c].src = s[2].src
      BY <3>1, <3>3 DEF Row, IsOwn
    <3> QED
      BY <1>0, <3>1, <3>2, <3>4 DEF IsOwn, Holds, SeenIfHeld
  <2> QED
    BY <2>1, <2>2, <2>3
<1> QED
  BY <1>1, <1>2

LEMMA SteadyNewScan ==
  ASSUME NEW s \in Steady, NEW t \in Table, IsOwn(t, s)
  PROVE  IsOwn(NewScan(t), s) /\ (Holds(t, s) => Holds(NewScan(t), s))
<1>1. s[2].code \in Codes
  BY SteadyReport
<1>2. CASE t[s[2].code] = NoRow
  BY <1>1, <1>2 DEF NewScan, IsOwn, Holds
<1>3. CASE t[s[2].code] # NoRow
  <2>1. t[s[2].code] \in Row /\ NewScan(t)[s[2].code] = [t[s[2].code] EXCEPT !.seen = FALSE]
    BY <1>1, <1>3 DEF Table, NewScan
  <2>2. NewScan(t)[s[2].code] \in Row
    BY <2>1 DEF Row
  <2>3. /\ NewScan(t)[s[2].code].ip = t[s[2].code].ip /\ NewScan(t)[s[2].code].src = t[s[2].code].src
        /\ NewScan(t)[s[2].code].router = t[s[2].code].router
        /\ NewScan(t)[s[2].code].static = t[s[2].code].static
    BY <2>1 DEF Row
  <2> QED
    BY <1>3, <2>2, <2>3, SentinelsAssumption DEF IsOwn, Holds
<1> QED
  BY <1>2, <1>3

\* What others do changes neither the row of s nor the cycle.
LEMMA SteadyEnvironment ==
  ASSUME NEW s \in Steady, Uncontested(s), TypeOK, SteadyInv(s), Environment \/ UNCHANGED vars
  PROVE  SteadyInv(s)'
<1>1. UNCHANGED <<tableVars, csv, flushing, pc, cycleVars>>
  BY DEF Environment, SessionStart, SessionEnd, WebhookCall, SaveConfig, FullScanDue, vars, tableVars, cycleVars
<1>2. /\ s[2] \in live'[s[1]] /\ live' \in [Routers -> SUBSET Report]
      /\ \A r \in Routers : live'[r] \subseteq Reportable[r]
  <2>1. CASE SessionStart
    <3>1. PICK r \in Routers : \E rep \in Reportable[r] \ live[r] : live' = [live EXCEPT ![r] = @ \cup {rep}]
      BY <2>1 DEF SessionStart
    <3>2. PICK rep \in Reportable[r] \ live[r] : live' = [live EXCEPT ![r] = @ \cup {rep}]
      BY <3>1
    <3>3. rep \in Report
      BY ConstantsAssumption
    <3> QED
      BY <3>2, <3>3, SteadyReport DEF SteadyInv
  <2>2. CASE SessionEnd
    <3>1. PICK r \in Routers : \E rep \in live[r] : <<r, rep>> \notin Steady /\ live' = [live EXCEPT ![r] = @ \ {rep}]
      BY <2>2 DEF SessionEnd
    <3>2. PICK rep \in live[r] : <<r, rep>> \notin Steady /\ live' = [live EXCEPT ![r] = @ \ {rep}]
      BY <3>1
    <3>3. s = <<s[1], s[2]>>
      BY ConstantsAssumption
    <3> QED
      BY <3>2, <3>3, SteadyReport DEF SteadyInv
  <2>3. CASE UNCHANGED live
    BY <2>3 DEF SteadyInv
  <2> QED
    BY <2>1, <2>2, <2>3 DEF Environment, WebhookCall, SaveConfig, FullScanDue, vars
<1>3. SteadyReading(s)' <=> SteadyReading(s)
  BY <1>1 DEF SteadyReading, Full, Users, SeenIfHeld, Holds, tableVars, cycleVars
<1> QED
  BY <1>1, <1>2, <1>3 DEF SteadyInv, tableVars, cycleVars

\* The operator's rows are others'.
LEMMA SteadyOperator ==
  ASSUME NEW s \in Steady, Uncontested(s), TypeOK, SteadyInv(s), Operator
  PROVE  SteadyInv(s)'
<1>0. "delete" \notin GuiOps /\ "flush" \notin GuiOps /\ ~flushing
  BY DEF Uncontested, SteadyInv
<1>1. /\ UNCHANGED <<live, csv, flushing, pc, cycleVars>>
      /\ rows = disk /\ rows' = disk' /\ rows'[s[2].code] = rows[s[2].code]
  <2>1. CASE AddDevice
    <3>1. PICK g \in GuiRows : \E row : GuiWrites("add", [disk EXCEPT ![g.code] = row]) /\ UNCHANGED flushing
      BY <2>1 DEF AddDevice
    <3>2. g.code # s[2].code
      BY DEF Uncontested
    <3> QED
      BY <3>1, <3>2 DEF GuiWrites, WriteLocked
  <2>2. CASE UpdateDevice
    <3>1. PICK g \in GuiRows : \E row : GuiWrites("update", [disk EXCEPT ![g.code] = row]) /\ UNCHANGED flushing
      BY <2>2 DEF UpdateDevice
    <3>2. g.code # s[2].code
      BY DEF Uncontested
    <3> QED
      BY <3>1, <3>2 DEF GuiWrites, WriteLocked
  <2>3. ~DeleteDevice /\ ~FlushTable /\ ~FlushTableFails /\ ~FlushFiles
    BY <1>0 DEF DeleteDevice, FlushTable, FlushTableFails, FlushFiles, GuiWrites
  <2> QED
    BY <2>1, <2>2, <2>3 DEF Operator
<1>2. /\ IsOwn(rows, s)' /\ IsOwn(disk, s)'
      /\ Holds(rows, s) => Holds(rows, s)' /\ Holds(disk, s)'
      /\ SeenIfHeld(rows, s) => SeenIfHeld(rows, s)' /\ SeenIfHeld(disk, s)'
  BY <1>1 DEF SteadyInv, IsOwn, Holds, SeenIfHeld
<1>3. SteadyReading(s) => SteadyReading(s)'
  BY <1>1, <1>2 DEF SteadyReading, Full, Users, cycleVars
<1> QED
  BY <1>1, <1>2, <1>3 DEF SteadyInv, cycleVars

\* A router that is read reports s, and does not say that s is gone.
LEMMA SteadyRead ==
  ASSUME NEW s \in Steady, Uncontested(s), TypeOK, SteadyInv(s), ReadRouter
  PROVE  SteadyInv(s)'
<1> DEFINE synced(r)   == {rep \in live[r] : rep.src = "pppoe" => r \in PppSynced}
           sessions(r) == {rep \in synced(r) : rep.src = "pppoe" /\ rep.code \in Users(r)}
           read(r)     == IF Full(r) THEN synced(r) ELSE sessions(r)
           ended(r)    == IF Full(r) \/ r \notin PppSynced
                          THEN {} ELSE Users(r) \ {rep.code : rep \in sessions(r)}
<1> PICK r \in left :
      /\ pc = "route" /\ pc' = "upsert" /\ cur' = r
      /\ todo' = {rep \in read(r) : rep.ip # NoIP} /\ gone' = ended(r)
      /\ UNCHANGED <<live, disk, rows, csv, flushing, kind, cfg, taken, ok>>
  BY DEF ReadRouter, tableVars
<1>1. Full(cur)' <=> Full(r)
  BY DEF Full, Users
<1>2. r \in Routers /\ live[r] \subseteq Reportable[r]
  BY DEF TypeOK, SteadyInv
<1>3. todo' \subseteq Reportable[r]
  BY <1>2
<1>4. ~Full(r) => \A rep \in todo' : rep.src = "pppoe"
  OBVIOUS
<1>5. ASSUME r = s[1] PROVE s[2] \in synced(r) /\ s[2].ip # NoIP
  BY <1>5 DEF SteadyInv, Uncontested
<1>6. ASSUME r = s[1] PROVE s[2].code \notin gone'
  <2> SUFFICES ASSUME s[2].code \in ended(r) PROVE FALSE
    OBVIOUS
  <2>1. s[2].code \in Users(r) /\ s[2].code \notin {rep.code : rep \in sessions(r)}
    <3> HIDE DEF sessions
    <3> QED
      OBVIOUS
  <2>2. s[2].code \in PppCodes
    <3>1. \A e \in taken : e.user \in PppCodes \cup {Rescan}
      BY ConstantsAssumption DEF TypeOK
    <3> QED
      BY <2>1, <3>1 DEF Users
  <2>3. s[2] \in sessions(r)
    BY <1>5, <1>6, <2>1, <2>2 DEF Uncontested
  <2> HIDE DEF sessions
  <2> QED
    BY <2>1, <2>3
<1>7. Full(r) /\ r = s[1] => s[2] \in todo'
  BY <1>5
<1>8. SteadyReading(s)'
  <2> HIDE DEF synced, sessions, read, ended
  <2> QED
    BY <1>1, <1>3, <1>4, <1>6, <1>7 DEF SteadyReading
<1> QED
  BY <1>8 DEF SteadyInv, IsOwn, Holds, SeenIfHeld

\* Reports are applied: that of s before those of its rivals.
LEMMA SteadyUpsert ==
  ASSUME NEW s \in Steady, Uncontested(s), TypeOK, UniqueIPs, SteadyInv(s), Upsert
  PROVE  SteadyInv(s)'
<1> PICK rep \in todo :
      /\ pc = "upsert"
      /\ \A other \in todo : ScanOrder[rep.src] <= ScanOrder[other.src]
      /\ rows' = Upserted(rows, rep, cur)
      /\ todo' = todo \ {rep}
      /\ UNCHANGED <<live, disk, csv, flushing, pc, kind, cfg, taken, cur, ok, gone>>
  BY DEF Upsert
<1>1. cur \in Routers /\ rep \in Reportable[cur] /\ rep \in Report /\ rep.ip \in IPs
  BY DEF TypeOK, SteadyInv, SteadyReading, Report
<1>2. ASSUME rep # s[2], rep.ip = s[2].ip PROVE SeenIfHeld(rows, s)
  <2>1. cur = s[1] /\ ScanOrder[rep.src] > ScanOrder[s[2].src]
    BY <1>1, <1>2 DEF Uncontested
  <2>2. rep.src \in Sources /\ s[2].src \in Sources
    BY <1>1, SteadyReport DEF Report
  <2>3. rep.src # "pppoe"
    BY <2>1, <2>2 DEF ScanOrder, Sources
  <2>4. s[2] \notin todo
    BY <2>1, <2>2 DEF ScanOrder, Sources
  <2>5. Full(cur)
    BY <2>3 DEF SteadyInv, SteadyReading
  <2> QED
    BY <2>1, <2>4, <2>5 DEF SteadyInv, SteadyReading
<1>3. /\ IsOwn(rows, s)'
      /\ Holds(rows, s) => Holds(rows, s)'
      /\ rep = s[2] \/ SeenIfHeld(rows, s) => SeenIfHeld(rows, s)'
  <2>1. rows \in Table /\ OneHolder(rows) /\ IsOwn(rows, s)
    BY DEF TypeOK, UniqueIPs, SteadyInv
  <2>2. /\ IsOwn(rows', s)
        /\ Holds(rows, s) => Holds(rows', s)
        /\ rep = s[2] \/ SeenIfHeld(rows, s) => SeenIfHeld(rows', s)
    BY <1>1, <1>2, <2>1, SteadyUpserted
  <2> QED
    BY <2>2 DEF IsOwn, Holds, SeenIfHeld
<1>4. Full(cur)' <=> Full(cur)
  BY DEF Full, Users
<1>5. SteadyReading(s)'
  <2>1. Full(cur) /\ cur = s[1] => s[2] \in todo' \/ SeenIfHeld(rows, s)'
    BY <1>3 DEF SteadyInv, SteadyReading
  <2> QED
    BY <1>4, <2>1 DEF SteadyInv, SteadyReading
<1>6. UNCHANGED disk /\ SeenIfHeld(disk, s)' = SeenIfHeld(disk, s)
  BY DEF SeenIfHeld, Holds
<1> QED
  BY <1>3, <1>5, <1>6 DEF SteadyInv, IsOwn, Holds

\* Users who are gone are removed from the router's own rows.
LEMMA SteadyRemoveDevice ==
  ASSUME NEW s \in Steady, TypeOK, SteadyInv(s), RemoveDevice
  PROVE  SteadyInv(s)'
<1> PICK c \in gone :
      /\ pc = "upsert" /\ rows' = Removed(rows, c, cur) /\ gone' = gone \ {c}
      /\ UNCHANGED <<live, disk, csv, flushing, pc, kind, cfg, taken, cur, ok, todo>>
  BY DEF RemoveDevice
<1>1. rows'[s[2].code] \in {rows[s[2].code], NoRow}
  BY SteadyReport DEF Removed, Without, TypeOK, Table
<1>2. Holds(rows, s) => rows'[s[2].code] = rows[s[2].code]
  <2> SUFFICES ASSUME Holds(rows, s) PROVE rows'[s[2].code] = rows[s[2].code]
    OBVIOUS
  <2>1. rows[s[2].code].router = s[1]
    BY DEF SteadyInv, IsOwn, Holds
  <2>2. CASE c = s[2].code
    <3>1. cur # s[1]
      BY <2>2 DEF SteadyInv, SteadyReading
    <3> QED
      BY <2>1, <2>2, <3>1 DEF Removed
  <2>3. CASE c # s[2].code
    BY <2>3, SteadyReport DEF Removed, Without
  <2> QED
    BY <2>2, <2>3
<1>3. /\ IsOwn(rows, s)'
      /\ Holds(rows, s) => Holds(rows, s)'
      /\ SeenIfHeld(rows, s) => SeenIfHeld(rows, s)'
  BY <1>1, <1>2 DEF SteadyInv, IsOwn, Holds, SeenIfHeld
<1>4. SteadyReading(s)'
  <2>1. Full(cur)' <=> Full(cur)
    BY DEF Full, Users
  <2> QED
    BY <1>3, <2>1 DEF SteadyInv, SteadyReading
<1>5. SeenIfHeld(disk, s)' = SeenIfHeld(disk, s)
  BY DEF SeenIfHeld, Holds
<1> QED
  BY <1>3, <1>4, <1>5 DEF SteadyInv, IsOwn, Holds

\* What is left over of a cycle is removed, but for s.
LEMMA SteadyRemoveInactive ==
  ASSUME NEW s \in Steady, TypeOK, SteadyInv(s), RemoveInactive
  PROVE  SteadyInv(s)'
<1> DEFINE c == s[2].code
           inactive == Inactive(rows, ok, cfg)
<1>1. /\ rows' = Without(rows, inactive) /\ disk' = rows' /\ pc = "route" /\ pc' = "export"
      /\ UNCHANGED <<live, csv, flushing, cfg, ok>>
  BY DEF RemoveInactive, cycleVars
<1>2. c \in Codes /\ rows'[c] = IF c \in inactive THEN NoRow ELSE rows[c]
  BY <1>1, SteadyReport DEF Without
<1>3. Holds(rows, s) => c \notin inactive
  BY <1>1 DEF Inactive, SteadyInv, IsOwn, Holds, SeenIfHeld, Dynamic, Present
<1>4. /\ IsOwn(rows, s)' /\ IsOwn(disk, s)'
      /\ Holds(rows, s) => Holds(rows, s)' /\ Holds(disk, s)'
      /\ SeenIfHeld(rows, s) => SeenIfHeld(rows, s)' /\ SeenIfHeld(disk, s)'
  <2> HIDE DEF inactive
  <2> QED
    BY <1>1, <1>2, <1>3 DEF SteadyInv, IsOwn, Holds, SeenIfHeld
<1> HIDE DEF inactive
<1> QED
  BY <1>1, <1>4 DEF SteadyInv

LEMMA SteadySync ==
  ASSUME NEW s \in Steady, Uncontested(s), TypeOK, UniqueIPs, GhostInv, SteadyInv(s), Sync
  PROVE  SteadyInv(s)'
<1>1. CASE StartFull \/ StartWebhook
  <2>1. PICK k, events, routers : BeginCycle(k, events, routers)
    BY <1>1 DEF StartFull, StartWebhook
  <2>2. /\ pc' = "route" /\ cfg' = config /\ ok' = {}
        /\ UNCHANGED <<live, rows, disk, csv, flushing>>
    BY <2>1 DEF BeginCycle, tableVars
  <2>3. s[1] \in config
    BY DEF TypeOK, Uncontested
  <2> QED
    BY <2>2, <2>3 DEF SteadyInv, IsOwn, Holds
<1>2. CASE SkipWebhook
  <2>1. pc = "wait" /\ UNCHANGED <<live, tableVars, csv, flushing, pc, cycleVars>>
    BY <1>2 DEF SkipWebhook
  <2> QED
    BY <2>1 DEF SteadyInv, IsOwn, Holds, SeenIfHeld, tableVars, cycleVars
<1>3. CASE ReadRouter
  BY <1>3, SteadyRead
<1>4. CASE ReadFails
  <2>1. pc = "route" /\ UNCHANGED <<live, tableVars, csv, flushing, pc, cfg, ok>>
    BY <1>4 DEF ReadFails
  <2> QED
    BY <2>1 DEF SteadyInv, IsOwn, Holds, SeenIfHeld, tableVars
<1>5. CASE Upsert
  BY <1>5, SteadyUpsert
<1>6. CASE RemoveDevice
  BY <1>6, SteadyRemoveDevice
<1>7. CASE CommitRouter
  <2>1. /\ pc = "upsert" /\ todo = {} /\ disk' = rows /\ pc' = "route"
        /\ ok' = IF Full(cur) THEN ok \cup {cur} ELSE ok
        /\ UNCHANGED <<live, rows, csv, flushing, cfg>>
    BY <1>7 DEF CommitRouter
  <2>2. s[1] \in ok' => SeenIfHeld(rows, s)
    BY <2>1 DEF SteadyInv, SteadyReading
  <2>3. /\ IsOwn(rows, s)' /\ IsOwn(disk, s)'
        /\ Holds(rows, s) => Holds(rows, s)' /\ Holds(disk, s)'
        /\ SeenIfHeld(rows, s) => SeenIfHeld(rows, s)' /\ SeenIfHeld(disk, s)'
    BY <2>1 DEF SteadyInv, IsOwn, Holds, SeenIfHeld
  <2> QED
    BY <2>1, <2>2, <2>3 DEF SteadyInv
<1>8. CASE RollbackRouter
  <2>1. /\ rows' = disk /\ pc = "upsert" /\ pc' = "route"
        /\ UNCHANGED <<live, disk, csv, flushing, cfg, ok>>
    BY <1>8 DEF RollbackRouter
  <2> QED
    BY <2>1 DEF SteadyInv, IsOwn, Holds, SeenIfHeld
<1>9. CASE RemoveInactive
  BY <1>9, SteadyRemoveInactive
<1>10. CASE Export \/ BuildFails \/ Crash
  <2>1. EndCycle /\ UNCHANGED <<live, flushing>> /\ (UNCHANGED csv \/ Export)
    BY <1>10 DEF Export, BuildFails, Crash
  <2>2. rows' = NewScan(disk) /\ disk' = NewScan(disk) /\ pc' = "wait" /\ ok' = {}
    BY <2>1 DEF EndCycle
  <2>3. /\ IsOwn(rows, s)' /\ IsOwn(disk, s)'
        /\ Holds(disk, s) => Holds(rows, s)' /\ Holds(disk, s)'
    <3>1. disk \in Table /\ IsOwn(disk, s)
      BY DEF TypeOK, SteadyInv
    <3> QED
      BY <2>2, <3>1, SteadyNewScan DEF IsOwn, Holds
  <2>4. <<s[2].code, s[2].ip>> \in csv' => Holds(disk, s)
    <3>1. CASE Export
      <4>1. csv' = Exported(rows) /\ rows = disk
        BY <3>1 DEF Export, GhostInv
      <4>2. ASSUME <<s[2].code, s[2].ip>> \in Exported(rows) PROVE Holds(rows, s)
        BY <4>2 DEF Exported, Present, Holds
      <4> QED
        BY <4>1, <4>2
    <3>2. CASE UNCHANGED csv
      BY <3>2 DEF SteadyInv
    <3> QED
      BY <2>1, <3>1, <3>2
  <2> QED
    BY <2>1, <2>2, <2>3, <2>4 DEF SteadyInv
<1> QED
  BY <1>1, <1>2, <1>3, <1>4, <1>5, <1>6, <1>7, <1>8, <1>9, <1>10 DEF Sync

\* Only an export writes the file, and s is in what it exports.
LEMMA SteadyInFile ==
  ASSUME NEW s \in Steady, Uncontested(s), SteadyInv(s), Next, <<s[2].code, s[2].ip>> \in csv
  PROVE  <<s[2].code, s[2].ip>> \in csv'
<1>1. CASE Export
  <2>1. s[2].code \in {x \in Present(rows) : rows[x].ip # NoIP} /\ rows[s[2].code].ip = s[2].ip
    BY SteadyReport DEF SteadyInv, Holds, Present, Uncontested
  <2> QED
    BY <1>1, <2>1 DEF Export, Exported
<1>2. CASE ~Export
  <2>1. ~FlushFiles
    BY DEF FlushFiles, SteadyInv
  <2>2. UNCHANGED csv
    BY <1>2, <2>1 DEF Next, Environment, SessionStart, SessionEnd, WebhookCall, SaveConfig, FullScanDue,
       Operator, AddDevice, UpdateDevice, DeleteDevice, FlushTable, FlushTableFails, GuiWrites,
       Sync, StartFull, StartWebhook, BeginCycle, SkipWebhook, ReadRouter, ReadFails, Upsert, RemoveDevice,
       CommitRouter, RollbackRouter, RemoveInactive, BuildFails, Crash
  <2> QED
    BY <2>2
<1> QED
  BY <1>1, <1>2

\* A subscriber on whom nobody else has a claim is never dropped from ShapedDevices.csv
\* while connected: however routers fail, whatever webhook calls say, whoever else comes
\* and goes, through rollbacks, failed builds and crashes.
THEOREM ConnectedStayShaped ==
  (\A s \in Steady : Uncontested(s)) => (Spec => SteadyStaysShaped)
<1> SUFFICES ASSUME \A s \in Steady : Uncontested(s)
             PROVE  Spec => SteadyStaysShaped
  OBVIOUS
<1> DEFINE Inv == \A s \in Steady : SteadyInv(s)
<1>1. Init => Inv
  <2> SUFFICES ASSUME Init, NEW s \in Steady PROVE SteadyInv(s)
    OBVIOUS
  <2>1. s = <<s[1], s[2]>> /\ live \in [Routers -> SUBSET Report]
    BY ConstantsAssumption DEF Init
  <2>2. s[2] \in live[s[1]] /\ \A r \in Routers : live[r] \subseteq Reportable[r]
    BY <2>1, SteadyReport DEF Init
  <2>3. rows[s[2].code] = NoRow /\ disk = rows
    BY SteadyReport DEF Init
  <2> QED
    BY <2>1, <2>2, <2>3 DEF Init, SteadyInv, IsOwn
<1>2. TypeOK /\ UniqueIPs /\ GhostInv /\ Inv /\ [Next]_vars => Inv'
  <2> SUFFICES ASSUME TypeOK, UniqueIPs, GhostInv, Inv, [Next]_vars, NEW s \in Steady
               PROVE  SteadyInv(s)'
    OBVIOUS
  <2>1. SteadyInv(s) /\ Uncontested(s)
    OBVIOUS
  <2> QED
    BY <2>1, SteadyEnvironment, SteadyOperator, SteadySync DEF Next
<1>3. Inv /\ [Next]_vars =>
        [\A s \in Steady : LET entry == <<s[2].code, s[2].ip>> IN entry \in csv => entry \in csv']_vars
  BY SteadyInFile
<1> HIDE DEF Inv
<1> QED
  BY <1>1, <1>2, <1>3, TypeCorrect, UniqueHolders, GhostsInvariant, PTL DEF Spec, SteadyStaysShaped
============================================================================
