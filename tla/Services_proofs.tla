---------------------------- MODULE Services_proofs ----------------------------
(***************************************************************************)
(* The GUI's background threads, for any jobs, conditions, classes and     *)
(* times: no job is fixed twice at once, one problem is one entry of the   *)
(* history, bursts wait for proven headroom, and the state stays in its    *)
(* types.  Each of the three has an inductive invariant of its own.        *)
(***************************************************************************)
EXTENDS MCServices, InductionLemmas

-----------------------------------------------------------------------------
(* The fixes.  The set of jobs being fixed is exactly the jobs of the fixes *)
(* that run, no two of which share one; a fix that begins adds a job that   *)
(* was not there, and one that ends takes its own away.                     *)

\* A fix has its four fields; without a job it is Idle.
WellFormed ==
  /\ fix = [f \in Fixers |-> fix[f]]
  /\ \A f \in Fixers : /\ DOMAIN fix[f] = {"job", "id", "error", "step"}
                       /\ fix[f] # Idle => fix[f].step # "idle"

FixInv == OneFix /\ WellFormed

\* OneFix, element by element.
Marked == \A x : x \in running <=> \E g \in Fixers : fix[g] # Idle /\ fix[g].job = x
FixesApart == \A f, g \in Fixers : f # g /\ fix[f] # Idle /\ fix[g] # Idle => fix[f].job # fix[g].job

LEMMA OneFixNow == OneFix => Marked /\ FixesApart
  BY DEF OneFix, Marked, FixesApart

LEMMA OneFixNext == Marked' /\ FixesApart' => OneFix'
<1> SUFFICES ASSUME Marked', FixesApart' PROVE running' = {fix'[f].job : f \in {g \in Fixers : fix'[g] # Idle}}
  BY DEF OneFix, FixesApart
<1> QED
  BY DEF Marked

LEMMA FixInvInit == Init => FixInv
  BY DEF Init, FixInv, OneFix, WellFormed, Idle

\* _run_fix takes a job that nobody works on, if the fixer has nothing to do.
LEMMA BeginKeeps ==
  ASSUME FixInv, NEW f \in Fixers, fix[f] = Idle, NEW j, NEW shown, Begin(f, j, shown)
  PROVE  FixInv'
<1> USE DEF FixInv, OneFix, WellFormed
<1>1. CASE UNCHANGED <<fix, running>>
  BY <1>1
<1>2. CASE /\ j \notin running
           /\ running' = running \cup {j}
           /\ fix' = [fix EXCEPT ![f] = [job |-> j, id |-> Diagnosis(j, shown), error |-> shown, step |-> "start"]]
  <2> DEFINE new == [job |-> j, id |-> Diagnosis(j, shown), error |-> shown, step |-> "start"]
  <2>1. new # Idle /\ new.job = j /\ new.step = "start" /\ DOMAIN new = {"job", "id", "error", "step"}
    BY DEF Idle
  <2>2. fix'[f] = new /\ \A g \in Fixers \ {f} : fix'[g] = fix[g]
    BY <1>2
  <2>3. WellFormed'
    BY <1>2, <2>1, <2>2
  <2> HIDE DEF new
  <2>4. Marked /\ FixesApart
    BY OneFixNow
  <2>5. Marked'
    BY <1>2, <2>1, <2>2, <2>4 DEF Marked
  <2>6. FixesApart'
    BY <1>2, <2>1, <2>2, <2>4 DEF Marked, FixesApart
  <2>7. OneFix'
    BY <2>5, <2>6, OneFixNext
  <2> QED
    BY <2>3, <2>7
<1> QED
  BY <1>1, <1>2 DEF Begin, Free

\* A fix goes on, or ends.
LEMMA GoOnKeeps ==
  ASSUME FixInv, NEW f \in Fixers, fix[f] # Idle, NEW step, step # "idle", GoOn(f, step)
  PROVE  FixInv'
<1> USE DEF FixInv, OneFix, WellFormed
<1>1. /\ fix'[f].job = fix[f].job /\ fix'[f].step = step
      /\ DOMAIN fix'[f] = {"job", "id", "error", "step"}
      /\ \A g \in Fixers \ {f} : fix'[g] = fix[g]
      /\ running' = running
  BY DEF GoOn
<1>2. fix'[f] # Idle
  BY <1>1 DEF Idle
<1>3. WellFormed'
  BY <1>1 DEF GoOn
<1>4. OneFix'
  BY <1>1, <1>2
<1> QED
  BY <1>3, <1>4

LEMMA EndKeeps ==
  ASSUME FixInv, NEW f \in Fixers, fix[f] # Idle, End(f)
  PROVE  FixInv'
<1> USE DEF FixInv, OneFix, WellFormed
<1>1. /\ fix'[f] = Idle /\ \A g \in Fixers \ {f} : fix'[g] = fix[g]
      /\ running' = running \ {fix[f].job}
  BY DEF End, Job
<1>2. WellFormed'
  BY <1>1 DEF End, Idle
<1>3. Marked /\ FixesApart
  BY OneFixNow
<1>4. Marked'
  BY <1>1, <1>3 DEF Marked, FixesApart
<1>5. FixesApart'
  BY <1>1, <1>3 DEF FixesApart
<1>6. OneFix'
  BY <1>4, <1>5, OneFixNext
<1> QED
  BY <1>2, <1>6

LEMMA FixerStep ==
  ASSUME FixInv, NEW f \in Fixers, FixStep(f) \/ FixFails(f)
  PROVE  FixInv'
<1>1. fix[f] # Idle
  BY DEF FixStep, FixFails, RestartService, Repair, Repairs, ApplyLooks, RestartLibreQoS, Probe, Retry, GivesUp, At, Idle
<1>2. End(f) \/ \E step \in {"lqosd", "retry", "failed"} : GoOn(f, step)
  BY DEF FixStep, FixFails, RestartService, Repair, ApplyLooks, RestartLibreQoS, Probe, Retry, GivesUp
<1> QED
  BY <1>1, <1>2, GoOnKeeps, EndKeeps

LEMMA FixInvStep == FixInv /\ [Next]_vars => FixInv'
<1> SUFFICES ASSUME FixInv, [Next]_vars PROVE FixInv'
  OBVIOUS
<1>1. ASSUME UNCHANGED <<fix, running>> PROVE FixInv'
  BY <1>1 DEF FixInv, OneFix, WellFormed
<1>2. ASSUME NEW f \in Fixers, FixStep(f) \/ FixFails(f) PROVE FixInv'
  BY <1>2, FixerStep
<1>3. CASE Disturbance
  BY <1>1, <1>2, <1>3 DEF Disturbance, Breaks, OperatorStops, OperatorStarts, TroubleGoes, TroubleComes,
     RequestDropped, Untouched
<1>4. ASSUME NEW j \in Jobs, RunJob(j) \/ Overdue(j) PROVE FixInv'
  BY <1>1, <1>4 DEF RunJob, Overdue, Untouched
<1>5. ASSUME NEW j \in Jobs, PressFix(j) PROVE FixInv'
  BY <1>5, BeginKeeps DEF PressFix, Fixers
<1>6. CASE \E c \in cooling : CooldownPasses(c[1], c[2])
  BY <1>1, <1>6 DEF CooldownPasses
<1>7. CASE Autofix
  <2>1. CASE AutofixTick
    BY <1>1, <2>1 DEF AutofixTick
  <2>2. ASSUME NEW j \in Jobs, AutofixJob(j) PROVE FixInv'
    <3>1. UNCHANGED <<fix, running>> \/ Begin("auto", j, todo[j])
      BY <2>2 DEF AutofixJob
    <3> QED
      BY <1>1, <2>2, <3>1, BeginKeeps DEF AutofixJob, Fixers
  <2> QED
    BY <1>7, <2>1, <2>2 DEF Autofix
<1>8. CASE UNCHANGED vars
  BY <1>1, <1>8 DEF vars
<1> QED
  BY <1>2, <1>3, <1>4, <1>5, <1>6, <1>7, <1>8 DEF Next

\* "A fix for this job is already running": the marked jobs are those of the running
\* fixes, and no two fixes are of one job, whatever breaks, ends or is pressed meanwhile.
THEOREM FixesAreApart == Spec => []OneFix
<1>1. FixInv => OneFix
  BY DEF FixInv
<1> QED
  BY FixInvInit, FixInvStep, <1>1, PTL DEF Spec

\* The jobs and services stay in their types; the job of a fix is that of a job row.
LEMMA FixTypeInit == Init => TypeOK
  BY DEF Init, TypeOK

LEMMA FixTypeStep == FixInv /\ TypeOK /\ [Next]_vars => TypeOK'
<1> SUFFICES ASSUME FixInv, TypeOK, [Next]_vars PROVE TypeOK'
  OBVIOUS
<1> DEFINE Typed == \A f \in Fixers : fix[f] = Idle \/ fix[f].job \in Jobs
           UnitType == unit \in [Units -> {"active", "hung", "failed", "stopped"}] /\ failing \subseteq Jobs
           RowTypes == DOMAIN todo \subseteq Jobs /\ \A c \in cooling : c[1] \in Jobs
<1>1. ASSUME NEW s, NEW st \in {"active", "hung", "failed", "stopped"}, SetUnit(s, st) PROVE UnitType'
  BY <1>1 DEF SetUnit, TypeOK
<1>2. ASSUME NEW f \in Fixers, NEW j \in Jobs, NEW shown, Begin(f, j, shown) PROVE Typed'
  <2> DEFINE new == [job |-> j, id |-> Diagnosis(j, shown), error |-> shown, step |-> "start"]
  <2>1. new.job \in Jobs
    OBVIOUS
  <2>2. UNCHANGED fix \/ fix' = [fix EXCEPT ![f] = new]
    BY <1>2 DEF Begin
  <2> HIDE DEF new
  <2> QED
    BY <2>1, <2>2 DEF FixInv, WellFormed, TypeOK
<1>3. ASSUME NEW f \in Fixers, NEW step, fix[f] # Idle, End(f) \/ GoOn(f, step) PROVE Typed'
  <2>1. fix'[f] = Idle \/ fix'[f].job = fix[f].job
    BY <1>3 DEF End, GoOn, FixInv, WellFormed
  <2>2. \A g \in Fixers \ {f} : fix'[g] = fix[g]
    BY <1>3 DEF End, GoOn, FixInv, WellFormed
  <2> QED
    BY <1>3, <2>1, <2>2 DEF TypeOK
<1>4. ASSUME NEW f \in Fixers, FixStep(f) \/ FixFails(f) PROVE TypeOK'
  <2>1. fix[f] # Idle
    BY <1>4 DEF FixStep, FixFails, RestartService, Repair, Repairs, ApplyLooks, RestartLibreQoS, Probe, Retry, GivesUp, At, Idle
  <2>2. End(f) \/ \E step : GoOn(f, step)
    BY <1>4 DEF FixStep, FixFails, RestartService, Repair, ApplyLooks, RestartLibreQoS, Probe, Retry, GivesUp
  <2>3. Typed'
    BY <1>3, <2>1, <2>2
  <2>4. UnitType'
    <3>1. UNCHANGED services \/ \E s : SetUnit(s, "active")
      BY <1>4 DEF FixStep, FixFails, RestartService, Repair, ApplyLooks, RestartLibreQoS, Probe, Retry, GivesUp
    <3> QED
      BY <1>1, <3>1 DEF services, TypeOK
  <2>6. (asked \subseteq Jobs)'
    <3>1. UNCHANGED asked \/ \E j : asked' = asked \cup Asks(j)
      BY <1>4 DEF FixStep, FixFails, RestartService, Repair, ApplyLooks, RestartLibreQoS, Probe, Retry, GivesUp
    <3> QED
      BY <3>1 DEF Asks, TypeOK
  <2>5. UNCHANGED <<late, todo, cooling>>
    BY <1>4 DEF FixStep, FixFails, RestartService, Repair, ApplyLooks, RestartLibreQoS, Probe, Retry, GivesUp, Others
  <2> QED
    BY <2>3, <2>4, <2>5, <2>6 DEF TypeOK
<1>5. ASSUME NEW s \in Units, (\E st \in {"hung", "failed"} : Breaks(s, st)) \/ OperatorStops(s) \/ OperatorStarts(s)
      PROVE  TypeOK'
  BY <1>1, <1>5 DEF Breaks, OperatorStops, OperatorStarts, Untouched, TypeOK
<1>6. ASSUME NEW j \in Jobs, \/ TroubleGoes(j) \/ RequestDropped(j) \/ \E c \in Troubles[j] : TroubleComes(j, c)
                             \/ RunJob(j) \/ Overdue(j)
      PROVE  TypeOK'
  BY <1>6 DEF TroubleGoes, TroubleComes, RequestDropped, services, RunJob, Overdue, HasInterval, Untouched, TypeOK
<1>7. ASSUME NEW j \in Jobs, PressFix(j) PROVE TypeOK'
  <2>1. Typed'
    BY <1>2, <1>7 DEF PressFix, Fixers
  <2> QED
    BY <1>7, <2>1 DEF PressFix, world, services, TypeOK
<1>8. ASSUME NEW c \in cooling, CooldownPasses(c[1], c[2]) PROVE TypeOK'
  BY <1>8 DEF CooldownPasses, world, services, TypeOK
<1>9. CASE AutofixTick
  <2>1. DOMAIN todo' \subseteq Jobs
    BY <1>9 DEF AutofixTick
  <2> QED
    BY <1>9, <2>1 DEF AutofixTick, world, services, TypeOK
<1>10. ASSUME NEW j \in Jobs, AutofixJob(j) PROVE TypeOK'
  <2> DEFINE id == Diagnosis(j, todo[j])
  <2>1. DOMAIN todo' \subseteq Jobs
    BY <1>10 DEF AutofixJob, Restrict, TypeOK
  <2>2. \/ UNCHANGED <<cooling, fix, running>>
        \/ cooling' = cooling \cup {<<j, id>>} /\ Begin("auto", j, todo[j])
    BY <1>10 DEF AutofixJob
  <2> HIDE DEF id
  <2>3. (\A c \in cooling : c[1] \in Jobs)'
    BY <2>2 DEF TypeOK
  <2>4. Typed'
    BY <1>2, <2>2 DEF Fixers, TypeOK
  <2> QED
    BY <1>10, <2>1, <2>3, <2>4 DEF AutofixJob, world, services, TypeOK
<1>11. CASE UNCHANGED vars
  BY <1>11 DEF vars, world, services, TypeOK
<1> QED
  BY <1>4, <1>5, <1>6, <1>7, <1>8, <1>9, <1>10, <1>11 DEF Next, Disturbance, Autofix


-----------------------------------------------------------------------------
(* The history.  What a sync has read for its first condition stays the     *)
(* last entry of that condition until the sync writes, although clearing,   *)
(* pruning and log messages come in between; so whatever it opens or goes   *)
(* on with leaves every other entry of the key behind, and over.            *)

\* An entry, with its times in order.
Entries == {e \in [key : Conditions \cup Messages, first : Nat, last : Nat, resolved : Nat \cup {StillOpen}] :
              /\ e.first <= e.last /\ e.last <= now
              /\ e.resolved # StillOpen => e.first <= e.resolved /\ e.resolved <= now}

\* e was over, by the rules of its kind, before f began.
Over(e, f) == IF e.key \in Conditions THEN ~Open(e) /\ f.first - e.resolved >= Reopen
              ELSE f.first - e.last > Fold

OneAtATime == \A e, f \in log : e.key = f.key => e = f \/ e.first < f.first \/ f.first < e.first

\* r is the last entry of key k: each other one in the log was over before it.
Last(r, k) ==
  IF r = NoRow THEN \A e \in log : e.key # k
  ELSE /\ r \in Entries /\ r.key = k
       /\ \A e \in log : e.key = k => e = r \/ (e.first < r.first /\ Over(e, r))

\* What a running sync has read is the last entry of its first condition, or was until
\* that entry was deleted.
SyncType ==
  sync # NotSyncing =>
    /\ sync.list \subseteq Conditions
    /\ sync.list # {} => sync.first \in sync.list /\ Last(sync.row, sync.first)

EventInv ==
  /\ now \in 0 .. MaxTime /\ present \subseteq Conditions
  /\ log \subseteq Entries
  /\ sync.list \subseteq Conditions
  /\ OneAtATime /\ OneEntry /\ SyncType

LEMMA OverNow == OneEntry <=> \A e, f \in log : e.key = f.key /\ e.first < f.first => Over(e, f)
  BY DEF OneEntry, Over

LEMMA LatestIsLast ==
  ASSUME EventInv, NEW k
  PROVE  Last(Latest(k), k)
<1>1. CASE \A e \in log : e.key # k
  BY <1>1 DEF Latest, Last
<1>2. CASE \E e \in log : e.key = k
  <2> DEFINE ages == {n \in Nat : \E e \in log : e.key = k /\ n = now - e.first}
  <2>1. \A e \in log : e.first \in Nat /\ now - e.first \in Nat
    BY DEF EventInv, Entries
  <2>2. PICK n \in ages : \A m \in ages : n <= m
    <3>1. ages # {}
      BY <1>2, <2>1
    <3> HIDE DEF ages
    <3>2. ages \subseteq Nat
      BY DEF ages
    <3> QED
      BY <3>1, <3>2, LeastNatural
  <2>3. PICK r \in log : r.key = k /\ n = now - r.first
    BY <2>2
  <2>4. \A f \in log : f.key = k => f.first <= r.first
    BY <2>1, <2>2, <2>3 DEF EventInv
  <2>5. /\ Latest(k) \in log /\ Latest(k).key = k
        /\ \A f \in log : f.key = k => f.first <= Latest(k).first
    BY <1>2, <2>3, <2>4 DEF Latest
  <2>6. Latest(k) # NoRow
    BY <2>1, <2>5 DEF NoRow
  <2>7. ASSUME NEW e \in log, e.key = k, e # Latest(k) PROVE e.first < Latest(k).first /\ Over(e, Latest(k))
    <3>1. e.first < Latest(k).first
      BY <2>1, <2>5, <2>7 DEF EventInv, OneAtATime
    <3> QED
      BY <3>1, <2>5, <2>7, OverNow DEF EventInv
  <2> QED
    BY <2>5, <2>6, <2>7 DEF Last, EventInv
<1> QED
  BY <1>1, <1>2

LEMMA RowIsLast ==
  ASSUME EventInv, sync # NotSyncing, NEW c \in sync.list
  PROVE  Last(Row(c), c)
  BY LatestIsLast DEF EventInv, SyncType, Row

\* Nothing is added to the log and what is there stays as it is: deleting keeps the invariant.
LEMMA DeletingKeeps ==
  ASSUME EventInv, log' \subseteq log, UNCHANGED <<now, present, sync>>
  PROVE  EventInv'
<1>1. (log \subseteq Entries)'
  BY DEF EventInv, Entries
<1>2. OneAtATime' /\ OneEntry'
  BY DEF EventInv, OneAtATime, OneEntry, Open
<1>3. \A r, k : Last(r, k) => Last(r, k)'
  BY DEF Last, Entries, Over, Open
<1>4. SyncType'
  BY <1>3 DEF EventInv, SyncType, NotSyncing
<1> QED
  BY <1>1, <1>2, <1>4 DEF EventInv

LEMMA TimeKeeps ==
  ASSUME EventInv, TimePasses
  PROVE  EventInv'
<1> USE EventConstants
<1>1. now' = now + 1 /\ now' \in 0 .. MaxTime /\ UNCHANGED <<present, log, sync>>
  BY DEF EventInv, TimePasses
<1>2. Entries \subseteq Entries'
  BY <1>1 DEF Entries, EventInv
<1>3. OneAtATime' /\ OneEntry'
  BY <1>1 DEF EventInv, OneAtATime, OneEntry, Open
<1>4. \A r, k : Last(r, k) => Last(r, k)'
  BY <1>1, <1>2 DEF Last, Over, Open
<1>5. SyncType'
  BY <1>1, <1>4 DEF EventInv, SyncType
<1> QED
  BY <1>1, <1>2, <1>3, <1>5 DEF EventInv

LEMMA RecordKeeps ==
  ASSUME EventInv, NEW k \in Messages, RecordLog(k)
  PROVE  EventInv'
<1> USE EventConstants
<1> DEFINE r == Latest(k)
<1>1. Last(r, k)
  BY LatestIsLast
<1>2. UNCHANGED <<now, present, sync>> /\ k \notin Conditions
  BY DEF RecordLog
<1>3. \A c \in Conditions : \A e : e.key = c => (e \in log' <=> e \in log)
  <2>1. r # NoRow => r.key = k /\ Folded(r).key = k
    BY <1>1 DEF Last, Folded, Entries
  <2>2. Entry(k).key = k
    BY DEF Entry
  <2> QED
    BY <2>1, <2>2 DEF RecordLog
<1>4. \A q, c : c \in Conditions /\ Last(q, c) => Last(q, c)'
  BY <1>2, <1>3 DEF Last, Over, Open, Entries
<1>5. SyncType'
  BY <1>2, <1>4 DEF EventInv, SyncType
<1>6. CASE r # NoRow /\ Recent(r)
  <2>1. log' = (log \ {r}) \cup {Folded(r)}
    BY <1>6 DEF RecordLog
  <2>2. r \in Entries /\ r.key = k
    BY <1>1, <1>6 DEF Last
  <2>3. /\ Folded(r) \in Entries /\ Folded(r).key = k /\ Folded(r).first = r.first
    BY <2>2 DEF Folded, Entries, EventInv
  <2>4. \A e \in log : e.key = k /\ e # r => e.first < r.first /\ Over(e, r)
    BY <1>1, <1>6 DEF Last
  <2>5. OneAtATime'
    BY <2>1, <2>3, <2>4 DEF EventInv, OneAtATime
  <2>6. OneEntry'
    <3> SUFFICES ASSUME NEW e \in log', NEW f \in log', e.key = f.key, e.first < f.first PROVE Over(e, f)
      BY DEF OneEntry, Over, Open
    <3>1. \A d \in Entries : d.first \in Nat
      BY DEF Entries
    <3>2. e \in Entries /\ f \in Entries
      BY <2>1, <2>3 DEF EventInv
    <3>3. CASE e = Folded(r)
      BY <2>1, <2>3, <2>4, <3>1, <3>2, <3>3, <2>2
    <3>4. CASE f = Folded(r) /\ e # Folded(r)
      <4>1. Over(e, r)
        BY <2>1, <2>3, <2>4, <3>4
      <4> QED
        BY <4>1, <2>3, <3>4 DEF Over
    <3>5. CASE e \in log /\ f \in log
      BY <3>5, OverNow DEF EventInv
    <3> QED
      BY <2>1, <3>3, <3>4, <3>5
  <2>7. (log \subseteq Entries)'
    BY <2>1, <2>3, <1>2 DEF EventInv, Entries
  <2> QED
    BY <1>2, <1>5, <2>5, <2>6, <2>7 DEF EventInv
<1>7. CASE ~(r # NoRow /\ Recent(r))
  <2>1. log' = log \cup {Entry(k)}
    BY <1>7 DEF RecordLog
  <2>2. /\ Entry(k) \in Entries /\ Entry(k).key = k /\ Entry(k).first = now
    BY DEF Entry, Entries, EventInv, StillOpen
  <2>3. \A e \in log : e.key = k => e.first < now /\ Over(e, Entry(k))
    <3> SUFFICES ASSUME NEW e \in log, e.key = k PROVE e.first < now /\ Over(e, Entry(k))
      OBVIOUS
    <3>1. r # NoRow /\ ~Recent(r) /\ r \in Entries /\ (e = r \/ (e.first < r.first /\ Over(e, r)))
      BY <1>1, <1>7 DEF Last
    <3>2. now \in Nat /\ e \in Entries /\ e.first \in Nat /\ e.last \in Nat /\ r.first \in Nat /\ r.last \in Nat
          /\ r.first <= r.last /\ r.first <= now /\ r.last <= now
      BY <3>1 DEF EventInv, Entries
    <3>3. r.last < now - Fold
      BY <3>1, <3>2 DEF Recent
    <3>4. now - e.last > Fold
      BY <3>1, <3>2, <3>3, <1>2 DEF Over
    <3> QED
      BY <3>1, <3>2, <3>3, <3>4, <2>2, <1>2 DEF Over
  <2>4. OneAtATime'
    BY <2>1, <2>2, <2>3 DEF EventInv, OneAtATime
  <2>5. OneEntry'
    <3> SUFFICES ASSUME NEW e \in log', NEW f \in log', e.key = f.key, e.first < f.first PROVE Over(e, f)
      BY DEF OneEntry, Over, Open
    <3>1. \A d \in log : d.first \in Nat /\ d.first <= now
      BY DEF Entries, EventInv
    <3>2. e \in log
      BY <2>1, <2>2, <3>1 DEF EventInv
    <3> QED
      BY <2>1, <2>2, <2>3, <3>2, OverNow DEF EventInv
  <2>6. (log \subseteq Entries)'
    BY <2>1, <2>2, <1>2 DEF EventInv, Entries
  <2> QED
    BY <1>2, <1>5, <2>4, <2>5, <2>6 DEF EventInv
<1> QED
  BY <1>6, <1>7

LEMMA ReadsKeep ==
  ASSUME EventInv, SyncReads
  PROVE  EventInv'
<1>1. UNCHANGED <<now, present, log>>
  BY DEF SyncReads
<1>2. (now \in 0 .. MaxTime /\ present \subseteq Conditions /\ log \subseteq Entries /\ OneAtATime /\ OneEntry)'
  BY <1>1 DEF EventInv, Entries, OneAtATime, OneEntry, Open
<1>3. CASE sync' = [list |-> {}, first |-> "none", row |-> NoRow]
  BY <1>2, <1>3 DEF EventInv, SyncType
<1>4. ASSUME NEW c \in present, sync' = [list |-> present, first |-> c, row |-> Latest(c)]
      PROVE  EventInv'
  <2>1. sync'.list = present /\ sync'.first = c /\ sync'.row = Latest(c)
    BY <1>4
  <2>2. Last(Latest(c), c)'
    <3>1. Last(Latest(c), c)
      BY LatestIsLast
    <3> QED
      BY <3>1, <1>1 DEF Last, Entries, Over, Open, Latest
  <2>3. SyncType'
    BY <2>1, <2>2, <1>1 DEF SyncType, EventInv, Latest
  <2> QED
    BY <1>1, <1>2, <2>1, <2>3 DEF EventInv
<1> QED
  BY <1>3, <1>4 DEF SyncReads

\* The conditions whose entry goes on, and what a sync makes of an entry.
GoesOn(c) == Row(c) # NoRow /\ (Open(Row(c)) \/ Again(Row(c)))
Continues(e) == e.key \in sync.list /\ e = Row(e.key) /\ GoesOn(e.key)
Image(e) == IF Continues(e) THEN [e EXCEPT !.last = now, !.resolved = StillOpen]
            ELSE IF e \in Gone THEN Ended(e)
            ELSE e

\* A sync changes entries in place, and opens one for each condition without an entry to go on.
LEMMA WrittenLog ==
  ASSUME EventInv, sync # NotSyncing, SyncWrites
  PROVE  \A e \in log' : \/ \E d \in log : e = Image(d)
                         \/ \E c \in sync.list : ~GoesOn(c) /\ e = Entry(c)
<1> DEFINE rows == {Row(c) : c \in {d \in sync.list : Row(d) # NoRow /\ (Open(Row(d)) \/ Again(Row(d)))}}
           written == UNION {Synced(c) : c \in sync.list}
           ended == {Ended(e) : e \in Gone}
<1>1. log' = ((log \ rows) \ Gone) \cup written \cup ended
  BY DEF SyncWrites
<1>2. \A c \in sync.list : Row(c) # NoRow => Row(c).key = c
  BY RowIsLast DEF Last
<1>3. \A e \in Gone : e \in log /\ e.key \notin sync.list
  BY DEF Gone
<1> SUFFICES ASSUME NEW e \in log'
             PROVE  \/ \E d \in log : e = Image(d)
                    \/ \E c \in sync.list : ~GoesOn(c) /\ e = Entry(c)
  OBVIOUS
<1>4. CASE e \in (log \ rows) \ Gone
  <2>1. ~Continues(e)
    BY <1>4 DEF Continues, GoesOn
  <2>2. e = Image(e)
    BY <2>1, <1>4 DEF Image
  <2> QED
    BY <2>2, <1>4
<1>5. ASSUME NEW c \in sync.list, e \in Synced(c)
      PROVE  \/ \E d \in log : e = Image(d)
             \/ ~GoesOn(c) /\ e = Entry(c)
  <2>1. CASE GoesOn(c)
    <3>1. Row(c) \in log /\ e = [Row(c) EXCEPT !.last = now, !.resolved = StillOpen]
      BY <1>5, <2>1 DEF Synced, GoesOn, Updated
    <3>2. Continues(Row(c))
      BY <1>2, <2>1 DEF Continues, GoesOn
    <3> QED
      BY <3>1, <3>2 DEF Image
  <2>2. CASE ~GoesOn(c)
    BY <1>5, <2>2 DEF Synced, GoesOn
  <2> QED
    BY <2>1, <2>2
<1>6. ASSUME NEW d \in Gone, e = Ended(d)
      PROVE  e = Image(d) /\ d \in log
  BY <1>3, <1>6 DEF Image, Continues
<1> HIDE DEF rows
<1>7. \/ e \in (log \ rows) \ Gone
      \/ \E c \in sync.list : e \in Synced(c)
      \/ \E d \in Gone : e = Ended(d)
  <2>1. e \in (log \ rows) \ Gone \/ e \in written \/ e \in ended
    <3> HIDE DEF written, ended
    <3> QED
      BY <1>1
  <2>2. e \in written => \E c \in sync.list : e \in Synced(c)
    OBVIOUS
  <2>3. e \in ended => \E d \in Gone : e = Ended(d)
    OBVIOUS
  <2> QED
    BY <2>1, <2>2, <2>3
<1>8. CASE \E c \in sync.list : e \in Synced(c)
  BY <1>5, <1>8
<1>9. CASE \E d \in Gone : e = Ended(d)
  BY <1>6, <1>9
<1> QED
  BY <1>4, <1>7, <1>8, <1>9

\* An entry keeps its key and its time; one that was over before another stays so.
LEMMA ImageFacts ==
  ASSUME EventInv, sync # NotSyncing, NEW e \in log
  PROVE  /\ Image(e) \in Entries /\ Image(e).key = e.key /\ Image(e).first = e.first
         /\ \A f \in log : e.key = f.key /\ e.first < f.first => Image(e) = e
<1>1. e \in Entries /\ now \in Nat
  BY DEF EventInv
<1>2. /\ Image(e) \in Entries /\ Image(e).key = e.key /\ Image(e).first = e.first
  <2> DEFINE Record == [key : Conditions \cup Messages, first : Nat, last : Nat, resolved : Nat \cup {StillOpen}]
             again == [e EXCEPT !.last = now, !.resolved = StillOpen]
             ended == Ended(e)
  <2>1. e \in Record /\ e.first <= e.last /\ e.last <= now
    BY <1>1 DEF Entries
  <2>2. /\ again \in Record /\ again.key = e.key /\ again.first = e.first
        /\ again.last = now /\ again.resolved = StillOpen
    BY <1>1, <2>1
  <2>3. /\ ended \in Record /\ ended.key = e.key /\ ended.first = e.first
        /\ ended.last = now /\ ended.resolved = now
    BY <1>1, <2>1 DEF Ended
  <2>4. Image(e) \in {e, again, ended}
    BY DEF Image
  <2> HIDE DEF again, ended
  <2>5. again \in Entries /\ ended \in Entries
    BY <1>1, <2>1, <2>2, <2>3 DEF Entries
  <2> QED
    BY <1>1, <2>2, <2>3, <2>4, <2>5
<1>3. ASSUME NEW f \in log, e.key = f.key, e.first < f.first PROVE Image(e) = e
  <2>1. Over(e, f)
    BY <1>3, OverNow DEF EventInv
  <2>2. e \notin Gone
    BY <2>1 DEF Gone, Over, Open
  <2>3. ~Continues(e)
    <3> SUFFICES ASSUME e.key \in sync.list, e = Row(e.key), GoesOn(e.key) PROVE FALSE
      BY DEF Continues
    <3>1. f = e \/ f.first < e.first
      BY <1>3, RowIsLast DEF Last, GoesOn
    <3> QED
      BY <3>1, <1>3 DEF EventInv, Entries
  <2> QED
    BY <2>2, <2>3 DEF Image
<1> QED
  BY <1>2, <1>3

\* Where the entry does not go on, all that the condition has was over long ago.
LEMMA NewEntryFacts ==
  ASSUME EventInv, sync # NotSyncing, NEW c \in sync.list, ~GoesOn(c)
  PROVE  /\ Entry(c) \in Entries /\ Entry(c).key = c /\ Entry(c).first = now
         /\ \A e \in log : e.key = c => Image(e) = e /\ e.first < now /\ Over(e, Entry(c))
<1> USE EventConstants
<1>1. Entry(c) \in Entries /\ Entry(c).key = c /\ Entry(c).first = now /\ c \in Conditions
  BY DEF Entry, Entries, EventInv, StillOpen
<1>2. ASSUME NEW e \in log, e.key = c PROVE Image(e) = e /\ e.first < now /\ Over(e, Entry(c))
  <2> DEFINE r == Row(c)
  <2>1. Last(r, c)
    BY RowIsLast
  <2>2. r # NoRow /\ r \in Entries /\ r.key = c /\ ~Open(r) /\ ~Again(r) /\ (e = r \/ (e.first < r.first /\ Over(e, r)))
    BY <1>2, <2>1 DEF Last, GoesOn
  <2>3. r.resolved # StillOpen /\ now - r.resolved >= Reopen
    BY <1>1, <2>2 DEF Open, Again, Entries, EventInv
  <2>4. now \in Nat /\ r.first \in Nat /\ r.resolved \in Nat /\ r.first <= r.resolved /\ r.resolved <= now
        /\ e.first \in Nat /\ e.resolved \in Nat \cup {-1}
    BY <2>2, <2>3, <1>2 DEF Entries, EventInv, StillOpen
  <2>5. ~Open(e) /\ now - e.resolved >= Reopen
    BY <1>1, <1>2, <2>2, <2>3, <2>4 DEF Over
  <2>6. Over(e, Entry(c))
    BY <1>1, <1>2, <2>5 DEF Over
  <2>7. e.first < now
    BY <2>2, <2>3, <2>4
  <2>8. Image(e) = e
    BY <1>2, <2>5 DEF Image, Gone, Continues
  <2> QED
    BY <2>6, <2>7, <2>8
<1> QED
  BY <1>1, <1>2

LEMMA WritesKeep ==
  ASSUME EventInv, SyncWrites
  PROVE  EventInv'
<1>1. sync # NotSyncing /\ sync' = NotSyncing /\ UNCHANGED <<now, present>>
  BY DEF SyncWrites
<1> DEFINE Old(e) == \E d \in log : e = Image(d)
           Opened(e) == \E c \in sync.list : ~GoesOn(c) /\ e = Entry(c)
<1>2. \A e \in log' : Old(e) \/ Opened(e)
  BY <1>1, WrittenLog
<1>3. \A e \in log' : e \in Entries
  BY <1>1, <1>2, ImageFacts, NewEntryFacts
<1>4. ASSUME NEW e \in log', NEW f \in log', e.key = f.key
      PROVE  /\ e = f \/ e.first < f.first \/ f.first < e.first
             /\ e.first < f.first => Over(e, f)
  <2> DEFINE Goal == /\ e = f \/ e.first < f.first \/ f.first < e.first
                     /\ e.first < f.first => Over(e, f)
  <2>1. ASSUME NEW d \in log, e = Image(d), NEW g \in log, f = Image(g) PROVE Goal
    <3>1. d.key = g.key /\ e.first = d.first /\ f.first = g.first
      BY <1>1, <1>4, <2>1, ImageFacts
    <3>2. d = g \/ d.first < g.first \/ g.first < d.first
      BY <3>1 DEF EventInv, OneAtATime
    <3>3. ASSUME e.first < f.first PROVE Over(e, f)
      <4>1. e = d /\ Over(d, g)
        BY <1>1, <2>1, <3>1, <3>3, ImageFacts, OverNow DEF EventInv
      <4> QED
        BY <4>1, <3>1 DEF Over
    <3> QED
      BY <2>1, <3>1, <3>2, <3>3
  <2>2. ASSUME NEW d \in log, e = Image(d), NEW c \in sync.list, ~GoesOn(c), f = Entry(c) PROVE Goal
    <3>1. d.key = c /\ e = d /\ d.first < now /\ Over(d, Entry(c)) /\ f.first = now
      BY <1>1, <1>4, <2>2, ImageFacts, NewEntryFacts
    <3> QED
      BY <2>2, <3>1
  <2>3. ASSUME NEW d \in log, f = Image(d), NEW c \in sync.list, ~GoesOn(c), e = Entry(c) PROVE Goal
    <3>1. f = d /\ d.first < now /\ e.first = now /\ d.first \in Nat /\ now \in Nat
      BY <1>1, <1>4, <2>3, ImageFacts, NewEntryFacts DEF EventInv, Entries
    <3> QED
      BY <3>1
  <2>4. ASSUME Opened(e), Opened(f) PROVE Goal
    <3>1. e = f /\ e.first = now /\ now \in Nat
      BY <1>1, <1>4, <2>4, NewEntryFacts DEF EventInv
    <3> QED
      BY <3>1
  <2>5. (Old(e) \/ Opened(e)) /\ (Old(f) \/ Opened(f))
    BY <1>2
  <2>6. Goal
    <3> HIDE DEF Goal
    <3> QED
      BY <2>1, <2>2, <2>3, <2>4, <2>5
  <2> QED
    BY <2>6
<1>5. OneAtATime' /\ OneEntry'
  BY <1>4 DEF OneAtATime, OneEntry, Over, Open
<1>6. (log \subseteq Entries)'
  BY <1>1, <1>3 DEF Entries
<1> QED
  BY <1>1, <1>5, <1>6 DEF EventInv, SyncType, NotSyncing

LEMMA EventInvInit == EventInit => EventInv
  BY EventConstants DEF EventInit, EventInv, NotSyncing, OneAtATime, OneEntry, SyncType

LEMMA EventInvStep == EventInv /\ [EventNext]_eventVars => EventInv'
<1> SUFFICES ASSUME EventInv, [EventNext]_eventVars PROVE EventInv'
  OBVIOUS
<1>1. CASE Restart
  BY <1>1 DEF Restart, EventInv, NotSyncing, SyncType, Entries, OneAtATime, OneEntry, Open
<1>2. CASE Prune \/ Clear \/ ClearAll
  BY <1>2, DeletingKeeps DEF Prune, Clear, ClearAll
<1>3. ASSUME NEW c \in Conditions, Changes(c) PROVE EventInv'
  <2>1. UNCHANGED <<now, log, sync>> /\ present' \subseteq Conditions
    BY <1>3 DEF Changes, EventInv
  <2>2. \A r, k : Last(r, k) => Last(r, k)'
    BY <2>1 DEF Last, Entries, Over, Open
  <2> QED
    BY <2>1, <2>2 DEF EventInv, SyncType, Entries, OneAtATime, OneEntry, Open
<1>4. CASE UNCHANGED eventVars
  <2>1. \A r, k : Last(r, k) => Last(r, k)'
    BY <1>4 DEF eventVars, Last, Entries, Over, Open
  <2> QED
    BY <1>4, <2>1 DEF eventVars, EventInv, SyncType, Entries, OneAtATime, OneEntry, Open
<1> QED
  BY <1>1, <1>2, <1>3, <1>4, TimeKeeps, ReadsKeep, WritesKeep, RecordKeeps DEF EventNext

\* An entry's times lie in the past.
LEMMA EventInvType == EventInv => EventTypeOK
  BY DEF EventInv, EventTypeOK, Entries, StillOpen

\* One problem is one entry: a condition that comes back within REOPEN_SECONDS goes on in
\* its entry and a message within FOLD_SECONDS folds into it, whatever the operator
\* clears, the prune deletes or a restart cuts off between a sync's read and its writes.
THEOREM OneProblemOneEntry == EventSpec => []OneEntry
<1>1. EventInv => OneEntry
  BY DEF EventInv
<1> QED
  BY EventInvInit, EventInvStep, <1>1, PTL DEF EventSpec

-----------------------------------------------------------------------------
(* The bursts.  The counter the state is decided by is the number of quiet  *)
(* samples in a row, through errors, switches and restarts.                 *)

\* The counter is the history's.
BurstInv == BurstTypeOK /\ below = quiet

LEMMA BurstInvInit == BurstInit => BurstInv
  BY BurstConstants DEF BurstInit, BurstInv, BurstTypeOK

\* What _next_burst_state answers, by the sample.
LEMMA DecideFacts ==
  ASSUME BurstInv, NEW s \in Samples
  PROVE  /\ Decide(s)[1] \in {"off", "paused", "active"}
         /\ Decide(s)[2] = IF ~enabled \/ s \in {"error", "high", "middle"} THEN 0
                           ELSE IF s = "low" /\ below < ResumeCount THEN below + 1 ELSE below
         /\ Decide(s)[1] = "active" /\ state # "active" => enabled /\ s = "low" /\ below + 1 >= ResumeCount
<1>1. CASE ~enabled
  BY <1>1 DEF Decide
<1>2. CASE enabled /\ s \in {"error", "high"}
  BY <1>2 DEF Decide
<1>3. CASE enabled /\ s \in {"none", "middle"}
  BY <1>3 DEF Decide, BurstInv, BurstTypeOK
<1>4. CASE enabled /\ s = "low"
  BY <1>4 DEF Decide, BurstInv, BurstTypeOK, Resumes
<1> QED
  BY <1>1, <1>2, <1>3, <1>4 DEF Samples

LEMMA TickKeeps ==
  ASSUME BurstInv, NEW s \in Samples, Tick(s)
  PROVE  BurstInv' /\ (state # "active" /\ state' = "active" => quiet' = ResumeCount)
<1> USE BurstConstants DEF BurstInv, BurstTypeOK
<1>1. /\ state' = Decide(s)[1] /\ below' = Decide(s)[2] /\ cburst' = cburst /\ enabled' = enabled
      /\ pass' = pass \/ pass' = IF state' = "active" THEN "raise" ELSE "restore"
      /\ pass = "no"
      /\ quiet' = IF ~enabled \/ s \in {"error", "high", "middle"} THEN 0
                  ELSE IF s = "low" /\ quiet < ResumeCount THEN quiet + 1 ELSE quiet
  BY DEF Tick
<1>2. below' = quiet' /\ below' \in 0 .. ResumeCount
  BY <1>1, DecideFacts
<1>3. state' \in {"off", "paused", "active"} /\ pass' \in {"no", "raise", "restore"} /\ (pass' = "raise" => state' = "active")
  BY <1>1, DecideFacts
<1>4. ASSUME state # "active", state' = "active" PROVE quiet' = ResumeCount
  <2>1. enabled /\ s = "low" /\ below + 1 >= ResumeCount
    BY <1>1, <1>4, DecideFacts
  <2>2. quiet' = IF quiet < ResumeCount THEN quiet + 1 ELSE quiet
    BY <1>1, <2>1
  <2> QED
    BY <2>1, <2>2
<1> QED
  BY <1>1, <1>2, <1>3, <1>4

LEMMA BurstInvStep ==
  ASSUME BurstInv, [BurstNext]_burstVars
  PROVE  BurstInv' /\ (state # "active" /\ state' = "active" => quiet' = ResumeCount)
<1> USE BurstConstants DEF BurstInv, BurstTypeOK
<1>1. ASSUME NEW s \in Samples, Tick(s) PROVE BurstInv' /\ (state # "active" /\ state' = "active" => quiet' = ResumeCount)
  BY <1>1, TickKeeps
<1>2. CASE \E f \in SUBSET Classes : ClassPass(f)
  BY <1>2 DEF ClassPass, Restored, Wanted
<1>3. CASE Minute \/ Switch \/ Resize \/ Rebuild \/ RestartGui
  BY <1>3 DEF Minute, Switch, Resize, Rebuild, RestartGui
<1>4. CASE UNCHANGED burstVars
  BY <1>4 DEF burstVars
<1> QED
  BY <1>1, <1>2, <1>3, <1>4 DEF BurstNext, PassFails

\* Bursts become active only after BURST_RESUME_COUNT quiet samples in a row, with no
\* pause, failed sample, switch or restart of the GUI among them.
THEOREM HeadroomIsProven == BurstSpec => ProvenHeadroom
<1>1. BurstInv /\ [BurstNext]_burstVars => [state # "active" /\ state' = "active" => quiet' = ResumeCount]_burstVars
  BY BurstInvStep
<1>2. BurstInv /\ [BurstNext]_burstVars => BurstInv'
  BY BurstInvStep
<1> QED
  BY BurstInvInit, <1>1, <1>2, PTL DEF BurstSpec, ProvenHeadroom

-----------------------------------------------------------------------------
(* The three together: a behaviour is one of them, and the others rest.     *)

ServicesInv == FixInv /\ TypeOK /\ EventInv /\ BurstInv

\* A part that rests keeps its invariant.
LEMMA AtRest ==
  /\ FixInv /\ TypeOK /\ UNCHANGED vars => FixInv' /\ TypeOK'
  /\ EventInv /\ UNCHANGED eventVars => EventInv'
  /\ BurstInv /\ UNCHANGED burstVars => BurstInv'
<1>1. [Next]_vars \/ ~UNCHANGED vars
  OBVIOUS
<1>2. [EventNext]_eventVars \/ ~UNCHANGED eventVars
  OBVIOUS
<1>3. [BurstNext]_burstVars \/ ~UNCHANGED burstVars
  OBVIOUS
<1> QED
  BY <1>1, <1>2, <1>3, FixInvStep, FixTypeStep, EventInvStep, BurstInvStep

LEMMA ServicesInvInit == ServicesInit => ServicesInv
  BY FixInvInit, FixTypeInit, EventInvInit, BurstInvInit DEF ServicesInit, ServicesInv

LEMMA ServicesInvStep == ServicesInv /\ [ServicesNext]_allVars => ServicesInv'
<1> SUFFICES ASSUME ServicesInv, [ServicesNext]_allVars PROVE ServicesInv'
  OBVIOUS
<1>1. CASE Next /\ UNCHANGED <<eventVars, burstVars>>
  BY <1>1, FixInvStep, FixTypeStep, AtRest DEF ServicesInv
<1>2. CASE EventNext /\ UNCHANGED <<vars, burstVars>>
  BY <1>2, EventInvStep, AtRest DEF ServicesInv
<1>3. CASE BurstNext /\ UNCHANGED <<vars, eventVars>>
  BY <1>3, BurstInvStep, AtRest DEF ServicesInv
<1>4. CASE UNCHANGED allVars
  BY <1>4, AtRest DEF allVars, ServicesInv
<1> QED
  BY <1>1, <1>2, <1>3, <1>4 DEF ServicesNext

\* The state of the background threads stays in its types: a service's state is one
\* systemd reports, a fix is of a job there is, an entry ends no earlier than it
\* starts, and a pass raises bursts only while they are active.
THEOREM ServicesType == ServicesSpec => []ServicesTypeOK
<1>1. ServicesInv => ServicesTypeOK
  BY EventInvType DEF ServicesInv, BurstInv, ServicesTypeOK
<1> QED
  BY ServicesInvInit, ServicesInvStep, <1>1, PTL DEF ServicesSpec
=============================================================================
