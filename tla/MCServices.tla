------------------------------ MODULE MCServices ------------------------------
(***************************************************************************)
(* The GUI's background threads on small instances: JobFixer, EventLog and *)
(* Burst.  They share no state: a behaviour is one of them, as `part'      *)
(* says, and the others stay in their initial state.  JobFixer is two      *)
(* parts: "jobs", where only services break, and "graphs", where LibreQoS  *)
(* keeps running and jobs meet troubles of their own.                      *)
(***************************************************************************)
EXTENDS JobFixer, EventLog, Burst

VARIABLE part

allVars == <<part, vars, eventVars, burstVars>>

----------------------------------------------------------------------------
\* JobFixer: a router poller and the apply job, both run by updatecsv, and the statistics
\* of the GUI, which write graph files.
MCJobs == {"scan", "apply", "stats"}
MCKind == [scan |-> "poller", apply |-> "apply", stats |-> "stats"]
MCService == [scan |-> "updatecsv", apply |-> "updatecsv", stats |-> "gui"]
MCTroubles == [scan |-> {"login", "disk"}, apply |-> {}, stats |-> {"clock"}]

----------------------------------------------------------------------------
Fixing == part \in {"jobs", "graphs"}

ServicesInit ==
  /\ part \in {"jobs", "graphs", "events", "burst"}
  /\ Init /\ EventInit /\ BurstInit

ServicesNext ==
  \/ /\ Fixing /\ Next /\ UNCHANGED <<part, eventVars, burstVars>>
     /\ IF part = "jobs" THEN UNCHANGED trouble ELSE unit'["lqosd"] = "active"
  \/ part = "events" /\ EventNext /\ UNCHANGED <<part, vars, burstVars>>
  \/ part = "burst" /\ BurstNext /\ UNCHANGED <<part, vars, eventVars>>

\* The fairness of each part, where a behaviour is of that part.
ServicesFairness ==
  /\ WF_vars(Fixing /\ Autofix)
  /\ \A f \in Fixers : WF_vars(Fixing /\ FixStep(f))
  /\ \A j \in Jobs : /\ WF_vars(Fixing /\ RunDue(j))
                     /\ WF_vars(Fixing /\ Overdue(j))
  /\ \A j \in Jobs, id \in AutoFixes : WF_vars(Fixing /\ CooldownPasses(j, id))
  /\ WF_eventVars(part = "events" /\ SyncReads)
  /\ SF_eventVars(part = "events" /\ SyncWrites)
  /\ WF_burstVars(part = "burst" /\ \E s \in Samples : Tick(s))
  /\ WF_burstVars(part = "burst" /\ \E f \in SUBSET Classes : ClassPass(f))
  /\ WF_burstVars(part = "burst" /\ Minute)

ServicesSpec == ServicesInit /\ [][ServicesNext]_allVars /\ ServicesFairness

----------------------------------------------------------------------------
\* The type invariants of the three.
ServicesTypeOK == TypeOK /\ EventTypeOK /\ BurstTypeOK
=============================================================================
