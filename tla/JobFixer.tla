------------------------------- MODULE JobFixer -------------------------------
(***************************************************************************)
(* Jobs, what is wrong with them and who repairs it: job_fixer.diagnose    *)
(* and the fixes of gui.py.  The services record how each run of a job     *)
(* ended in the jobs table; the GUI derives a fix from the row.  The Fix   *)
(* button runs it on the row it has just read, the auto-fix thread reads   *)
(* all rows once a minute and runs the safe ones one after the other, each *)
(* job and fix at most once per cooldown.  Meanwhile services crash, hang  *)
(* and are stopped by the operator, and jobs go on running: those with an  *)
(* interval again and again, the LibreQoS update when a file has changed,  *)
(* when its last run failed or when a fix has asked for it.                *)
(*                                                                         *)
(* An error text is abstracted to the class diagnose puts it in, time to   *)
(* "late" and to cooldowns that pass.  The GUI's own service is not        *)
(* restarted here.                                                         *)
(***************************************************************************)
EXTENDS Naturals, FiniteSets, Functions

CONSTANTS
  Jobs,
  Kind,      \* Kind[j]: the kind of the job
  Service,   \* Service[j]: the service that runs it
  Periodic,  \* jobs with an interval
  Troubles   \* Troubles[j]: the classes of error the job may meet

Fixers == {"auto", "button"}
Units == {Service[j] : j \in Jobs} \cup {"lqosd"}

VARIABLES
  unit,     \* unit[s]: "active", "hung" (active to systemd), "failed" or "stopped"
  trouble,  \* trouble[j]: what the job would fail with now, or "none"
  row,      \* row[j]: how its last run ended (jobs table)
  failing,  \* update_pending: jobs whose service remembers that their last run failed
  asked,    \* jobs a fix has asked for (request_apply), until updatecsv takes the request
  late,     \* jobs that have not run for over two intervals
  todo,     \* the rows auto-fix has still to look at, as it read them
  cooling,  \* _autofix_tried: fixes within their cooldown
  fix,      \* fix[f]: the fix that is running, or Idle
  running   \* _fix_running

services == <<unit, failing>>
world == <<services, asked, trouble, row, late>>
vars == <<world, todo, cooling, fix, running>>

Idle == [job |-> "none", id |-> "none", error |-> "none", step |-> "idle"]

----------------------------------------------------------------------------
\* job_fixer.diagnose, on a row as it is shown

RouterKinds == {"poller", "webhook", "router", "wan"}

\* _job_status: "late" goes before the last result.
Shown(j) == IF j \in late THEN "late" ELSE row[j]

Diagnosis(j, shown) ==
  CASE shown = "late"   -> "restart_service"
    [] shown = "none"   -> "none"
    [] shown = "disk"   -> "free_disk"
    [] shown = "clock"  -> "rrd_clock"
    [] shown = "graph"  -> "rrd_rebuild"
    [] shown = "locked" -> "retry"
    [] shown = "login" /\ Kind[j] \in RouterKinds -> "router"
    [] OTHER -> CASE Kind[j] = "wan" -> "restart_service"
                  [] Kind[j] = "apply" -> "apply"
                  [] Kind[j] = "config" -> "config"
                  [] OTHER -> "retry"

\* Safe to run unattended.
AutoFixes == {"restart_service", "rrd_clock", "rrd_rebuild", "apply"}
Automatic(j, shown) == \/ shown \in {"late", "clock", "graph"}
                       \/ Diagnosis(j, shown) = "apply" /\ shown = "lqosd"

----------------------------------------------------------------------------
\* The services, the jobs and what goes wrong

\* A service that ends or is started again has forgotten what was pending.
SetUnit(s, state) ==
  /\ unit' = [unit EXCEPT ![s] = state]
  /\ failing' = {j \in failing : Service[j] # s \/ state = "hung"}

Untouched == UNCHANGED <<todo, cooling, fix, running>>

\* An update fails while lqosd is down or hung.
Outcome(j) == IF Kind[j] = "apply" /\ unit["lqosd"] # "active" THEN "lqosd" ELSE trouble[j]

RunJob(j) ==
  /\ unit[Service[j]] = "active"
  /\ row' = [row EXCEPT ![j] = Outcome(j)]
  /\ late' = late \ {j}
  /\ failing' = IF Kind[j] = "apply" /\ Outcome(j) # "none" THEN failing \cup {j} ELSE failing \ {j}
  /\ asked' = asked \ {j}
  /\ UNCHANGED <<unit, trouble>>
  /\ Untouched

\* A job without an interval must run only then; that a file has changed is up to others.
Due(j) == j \in Periodic \cup failing \cup asked
RunDue(j) == Due(j) /\ RunJob(j)

\* A full scan takes the request with the events it covers, or the cycle breaks off.
RequestDropped(j) ==
  /\ j \in asked
  /\ asked' = asked \ {j}
  /\ UNCHANGED <<services, trouble, row, late>>
  /\ Untouched

\* Jobs that run only when needed (every = 0) are never late.
HasInterval_slip(j) == TRUE
HasInterval(j) == j \in Periodic

Overdue(j) ==
  /\ unit[Service[j]] # "active"
  /\ HasInterval(j)
  /\ late' = late \cup {j}
  /\ UNCHANGED <<services, asked, trouble, row>>
  /\ Untouched

Breaks(s, state) ==
  /\ unit[s] = "active" /\ s # "gui" /\ state \in {"hung", "failed"}
  /\ SetUnit(s, state)
  /\ UNCHANGED <<asked, trouble, row, late>>
  /\ Untouched

TroubleComes(j, c) ==
  /\ trouble[j] = "none"
  /\ trouble' = [trouble EXCEPT ![j] = c]
  /\ UNCHANGED <<services, asked, row, late>>
  /\ Untouched

TroubleGoes(j) ==
  /\ trouble[j] # "none"
  /\ trouble' = [trouble EXCEPT ![j] = "none"]
  /\ UNCHANGED <<services, asked, row, late>>
  /\ Untouched

OperatorStops(s) ==
  /\ unit[s] # "stopped" /\ s # "gui"
  /\ SetUnit(s, "stopped")
  /\ UNCHANGED <<asked, trouble, row, late>>
  /\ Untouched

\* ... or restarts
OperatorStarts(s) ==
  /\ s # "gui"
  /\ SetUnit(s, "active")
  /\ UNCHANGED <<asked, trouble, row, late>>
  /\ Untouched

----------------------------------------------------------------------------
\* Running a fix

\* _run_fix: one fix of a job at a time.
Free_slip(j) == TRUE
Free(j) == j \notin running

Begin(f, j, shown) ==
  IF Diagnosis(j, shown) = "none" \/ ~Free(j)
  THEN UNCHANGED <<fix, running>>
  ELSE /\ fix' = [fix EXCEPT ![f] = [job |-> j, id |-> Diagnosis(j, shown), error |-> shown, step |-> "start"]]
       /\ running' = running \cup {j}

PressFix(j) ==
  /\ fix["button"] = Idle
  /\ Begin("button", j, Shown(j))
  /\ UNCHANGED <<world, todo, cooling>>

\* _autofix_tick
AutofixTick ==
  /\ fix["auto"] = Idle
  /\ todo = <<>>
  /\ todo' = [j \in {k \in Jobs : Automatic(k, Shown(k))} |-> Shown(j)]
  /\ UNCHANGED <<world, cooling, fix, running>>

\* _may_auto_restart: "hung" is active to systemd.
MayRestart(s) == unit[s] # "stopped"

AutofixJob(j) ==
  /\ fix["auto"] = Idle
  /\ j \in DOMAIN todo
  /\ todo' = Restrict(todo, DOMAIN todo \ {j})
  /\ LET id == Diagnosis(j, todo[j])
     IN  IF <<j, id>> \in cooling \/ (id = "restart_service" /\ ~MayRestart(Service[j]))
         THEN UNCHANGED <<cooling, fix, running>>
         ELSE cooling' = cooling \cup {<<j, id>>} /\ Begin("auto", j, todo[j])
  /\ UNCHANGED world

CooldownPasses(j, id) ==
  /\ <<j, id>> \in cooling
  /\ cooling' = cooling \ {<<j, id>>}
  /\ UNCHANGED <<world, todo, fix, running>>

Job(f) == fix[f].job
At(f, id, step) == fix[f].id = id /\ fix[f].step = step
GoOn(f, step) == fix' = [fix EXCEPT ![f].step = step] /\ UNCHANGED running
End(f) == fix' = [fix EXCEPT ![f] = Idle] /\ running' = running \ {Job(f)}
Others == UNCHANGED <<row, late, todo, cooling>>

\* _fix_restart_service
RestartService(f) ==
  /\ At(f, "restart_service", "start")
  /\ SetUnit(Service[Job(f)], "active")
  /\ End(f)
  /\ UNCHANGED <<asked, trouble>>
  /\ Others

\* _fix_rrd_clock, _fix_rrd_rebuild, _fix_free_disk, _fix_config; the last one then
\* re-runs the job.
Repairs == [rrd_clock |-> "clock", rrd_rebuild |-> "graph", free_disk |-> "disk", config |-> "config"]
Repair(f) ==
  /\ fix[f].id \in DOMAIN Repairs /\ fix[f].step = "start"
  /\ trouble' = [trouble EXCEPT ![Job(f)] = IF @ = Repairs[fix[f].id] THEN "none" ELSE @]
  /\ IF fix[f].id = "config" THEN GoOn(f, "retry") ELSE End(f)
  /\ UNCHANGED <<services, asked>>
  /\ Others

\* _fix_apply, by the units' states and the error in the row
ApplyLooks(f) ==
  /\ At(f, "apply", "start")
  /\ GoOn(f, IF unit["lqosd"] \in {"failed", "stopped"} \/ fix[f].error = "lqosd" THEN "lqosd" ELSE "retry")
  /\ UNCHANGED <<services, asked, trouble>>
  /\ Others

RestartLibreQoS(f) ==
  /\ At(f, "apply", "lqosd")
  /\ SetUnit("lqosd", "active")
  /\ GoOn(f, "retry")
  /\ UNCHANGED <<asked, trouble>>
  /\ Others

\* router_verdict: the router can be reached and takes the login.
Answers(j) == trouble[j] # "login"

\* _fix_router: a router that does not answer ends the fix.
Probe(f) ==
  /\ At(f, "router", "start")
  /\ IF Answers(Job(f)) THEN GoOn(f, "retry") ELSE End(f)
  /\ UNCHANGED <<services, asked, trouble>>
  /\ Others

\* _retry_job: updatecsv is started if need be and asked to apply again (a rescan it is
\* asked for comes with the next scan anyway), the WAN service restarted; the GUI's own
\* jobs run again anyway.
Asks_slip(j) == IF Kind[j] \in {"poller", "webhook"} THEN {k \in Jobs : Kind[k] = "apply"} ELSE {}
Asks(j) == IF Service[j] = "updatecsv" /\ Kind[j] \notin {"poller", "webhook"}
           THEN {k \in Jobs : Kind[k] = "apply"} ELSE {}

Retry(f) ==
  /\ fix[f].step = "retry" \/ At(f, "retry", "start")
  /\ LET s == Service[Job(f)]
     IN  IF s = "wan_service" \/ (s = "updatecsv" /\ unit[s] \in {"failed", "stopped"})
         THEN SetUnit(s, "active") ELSE UNCHANGED services
  /\ asked' = asked \cup Asks(Job(f))
  /\ End(f)
  /\ UNCHANGED trouble
  /\ Others

\* A restart or a repair that does not work; the fix then ends (_run_fix).
FixFails(f) ==
  /\ fix[f].step \in {"start", "lqosd", "retry"}
  /\ GoOn(f, "failed")
  /\ UNCHANGED <<services, asked, trouble>>
  /\ Others

GivesUp(f) ==
  /\ fix[f].step = "failed"
  /\ End(f)
  /\ UNCHANGED <<services, asked, trouble>>
  /\ Others

----------------------------------------------------------------------------
Init ==
  /\ unit = [s \in Units |-> "active"]
  /\ trouble = [j \in Jobs |-> "none"]
  /\ row = [j \in Jobs |-> "none"]
  /\ failing = {} /\ asked = {} /\ late = {}
  /\ todo = <<>> /\ cooling = {}
  /\ fix = [f \in Fixers |-> Idle]
  /\ running = {}

Disturbance ==
  \/ \E s \in Units : (\E st \in {"hung", "failed"} : Breaks(s, st)) \/ OperatorStops(s) \/ OperatorStarts(s)
  \/ \E j \in Jobs : TroubleGoes(j) \/ RequestDropped(j) \/ \E c \in Troubles[j] : TroubleComes(j, c)
  \/ \E f \in Fixers : FixFails(f)

FixStep(f) ==
  \/ RestartService(f) \/ Repair(f) \/ ApplyLooks(f) \/ RestartLibreQoS(f)
  \/ Probe(f) \/ Retry(f) \/ GivesUp(f)

Autofix == AutofixTick \/ \E j \in Jobs : AutofixJob(j)

Next ==
  \/ Disturbance
  \/ \E j \in Jobs : RunJob(j) \/ Overdue(j) \/ PressFix(j)
  \/ \E c \in cooling : CooldownPasses(c[1], c[2])
  \/ Autofix
  \/ \E f \in Fixers : FixStep(f)

Spec == Init /\ [][Next]_vars

\* Services run the jobs that are due, the auto-fix thread ticks, cooldowns pass and fixes end.
Fairness ==
  /\ WF_vars(Autofix) /\ \A f \in Fixers : WF_vars(FixStep(f))
  /\ \A j \in Jobs : WF_vars(RunDue(j)) /\ WF_vars(Overdue(j))
  /\ \A j \in Jobs, id \in AutoFixes : WF_vars(CooldownPasses(j, id))

FairSpec == Spec /\ Fairness

----------------------------------------------------------------------------
\* Properties

TypeOK ==
  /\ unit \in [Units -> {"active", "hung", "failed", "stopped"}]
  /\ failing \subseteq Jobs /\ asked \subseteq Jobs
  /\ late \subseteq Periodic /\ DOMAIN todo \subseteq Jobs
  /\ \A c \in cooling : c[1] \in Jobs
  /\ \A f \in Fixers : fix[f] = Idle \/ fix[f].job \in Jobs

\* "A fix for this job is already running": the button and the auto-fix thread never
\* work on one job at once, and no job stays marked when its fix is over.
OneFix ==
  /\ running = {fix[f].job : f \in {g \in Fixers : fix[g] # Idle}}
  /\ \A f, g \in Fixers : f # g /\ fix[f] # Idle /\ fix[g] # Idle => fix[f].job # fix[g].job

\* What auto-fix can repair: a service that has crashed or hangs (never one stopped on
\* purpose), graph files, and an update that LibreQoS did not take.
Curable(j) ==
  \/ j \in Periodic /\ unit[Service[j]] \in {"failed", "hung"}
  \/ unit[Service[j]] = "active" /\ trouble[j] \in {"clock", "graph"}
  \/ unit[Service[j]] = "active" /\ row[j] = "lqosd" /\ unit["lqosd"] # "stopped"

\* When nothing new goes wrong, auto-fix gets to everything it can repair and it stays
\* repaired, although its rows are old when it acts, it shares the jobs with the button,
\* a restart makes a service forget a failed update, and an update is tried again only
\* while the service remembers or has been asked.
Heals == <>[][Disturbance => \E j \in Jobs : RunJob(j)]_vars => <>[](\A j \in Jobs : ~Curable(j))
==============================================================================
