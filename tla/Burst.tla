--------------------------------- MODULE Burst ---------------------------------
(***************************************************************************)
(* The GUI's burst control (_burst_tick): every 10 seconds it samples how  *)
(* busy the shaping link is, decides whether bursts are active, and once a *)
(* minute or on a change brings every subscriber class of the kernel to    *)
(* its burst target.  LibreQoS rebuilds the classes whenever it likes,     *)
(* `tc' may fail for some or all of them, and a restart of the GUI forgets *)
(* everything but leaves the kernel's classes as they are.                 *)
(*                                                                         *)
(* A class has the default burst, the one of its plan, or that of a plan   *)
(* the settings had before.                                                *)
(***************************************************************************)
EXTENDS Naturals, FiniteSets

CONSTANTS
  Classes,
  Small,        \* classes whose burst is not above BURST_DEFAULT_MAX
  ResumeCount   \* BURST_RESUME_COUNT

ASSUME BurstConstants == ResumeCount \in Nat \ {0}

Samples == {"error", "none", "low", "middle", "high"}

VARIABLES
  enabled,   \* settings.json: burst
  state, below, pending,   \* _burst: state, below and restore_pending
  due,       \* a minute has passed since the last pass
  pass,      \* the class pass that is running: what it sets, or "no"
  cburst,    \* cburst[c], in the kernel
  quiet      \* samples below the threshold since the last that was not (a history variable)

burstVars == <<enabled, state, below, pending, due, pass, cburst, quiet>>

----------------------------------------------------------------------------
\* _next_burst_state: <<state, below>>
Resumes_slip(n) == TRUE
Resumes(n) == state = "active" \/ n >= ResumeCount

Decide(sample) ==
  LET was == IF state = "off" THEN "paused" ELSE state
  IN  IF ~enabled THEN <<"off", 0>>
      ELSE CASE sample = "error"   -> <<"paused", 0>>
             [] sample = "none"    -> <<was, below>>
             [] sample = "high"    -> <<"paused", 0>>
             [] sample = "low"     -> <<IF Resumes(below + 1) THEN "active" ELSE was,
                                        IF below < ResumeCount THEN below + 1 ELSE below>>
             [] sample = "middle"  -> <<was, 0>>

\* A class pass on a flip, after a start of the GUI, and every minute unless off.
PassNeeded_slip(next) == next # state \/ pending
PassNeeded(next) == next # state \/ pending \/ (next # "off" /\ due)

Tick(sample) ==
  /\ pass = "no"
  /\ ~enabled => sample = "none"
  /\ LET next == Decide(sample)[1]
     IN  /\ state' = next
         /\ below' = Decide(sample)[2]
         /\ IF PassNeeded(next)
            THEN pass' = (IF next = "active" THEN "raise" ELSE "restore") /\ pending' = FALSE /\ due' = FALSE
            ELSE UNCHANGED <<pass, pending, due>>
  /\ quiet' = IF ~enabled \/ sample \in {"error", "high", "middle"} THEN 0
              ELSE IF sample = "low" /\ quiet < ResumeCount THEN quiet + 1 ELSE quiet
  /\ UNCHANGED <<enabled, cburst>>

\* _burst_class_pass and _burst_commands: tc fails for some classes, or is not there.
\* A burst that may be the kernel's default is left alone.
Restored(c) == IF c \in Small THEN cburst[c] ELSE "default"
Wanted(c) == IF pass = "raise" THEN "plan" ELSE Restored(c)
ClassPass(failed) ==
  /\ pass # "no"
  /\ cburst' = [c \in Classes |-> IF c \in failed THEN cburst[c] ELSE Wanted(c)]
  /\ pass' = "no"
  /\ UNCHANGED <<enabled, state, below, pending, due, quiet>>

\* A class that is as wanted is not touched.
PassFails == \E failed \in SUBSET Classes : ClassPass(failed) /\ \E c \in failed : cburst[c] # Wanted(c)

Minute ==
  /\ due' = TRUE
  /\ UNCHANGED <<enabled, state, below, pending, pass, cburst, quiet>>

\* The operator turns it on or off, or changes the burst's length.
Switch ==
  /\ enabled' = ~enabled
  /\ UNCHANGED <<state, below, pending, due, pass, cburst, quiet>>

Resize ==
  /\ cburst' = [c \in Classes |-> IF cburst[c] = "plan" THEN "former" ELSE cburst[c]]
  /\ UNCHANGED <<enabled, state, below, pending, due, pass, quiet>>

\* LibreQoS builds its queues anew.
Rebuild ==
  /\ cburst' = [c \in Classes |-> "default"]
  /\ UNCHANGED <<enabled, state, below, pending, due, pass, quiet>>

RestartGui ==
  /\ state' = "off" /\ below' = 0 /\ pending' = TRUE /\ due' = TRUE
  /\ pass' = "no" /\ quiet' = 0
  /\ UNCHANGED <<enabled, cburst>>

BurstInit ==
  /\ enabled = FALSE /\ state = "off" /\ below = 0 /\ pending = TRUE /\ due = TRUE
  /\ pass = "no" /\ quiet = 0
  /\ cburst = [c \in Classes |-> "default"]

BurstNext == (\E s \in Samples : Tick(s)) \/ ClassPass({}) \/ PassFails \/ Minute \/ Switch \/ Resize
        \/ Rebuild \/ RestartGui

BurstSpec == BurstInit /\ [][BurstNext]_burstVars

BurstFairness ==
  /\ WF_burstVars(\E s \in Samples : Tick(s))
  /\ WF_burstVars(\E f \in SUBSET Classes : ClassPass(f))
  /\ WF_burstVars(Minute)
FairBurstSpec == BurstSpec /\ BurstFairness

----------------------------------------------------------------------------
\* Properties

BurstTypeOK ==
  /\ state \in {"off", "paused", "active"} /\ pass \in {"no", "raise", "restore"}
  /\ below \in 0 .. ResumeCount /\ quiet \in 0 .. ResumeCount
  /\ cburst \in [Classes -> {"default", "plan", "former"}]
  /\ pass = "raise" => state = "active"

\* "resume only after BURST_RESUME_COUNT samples below": bursts become active only
\* after that many quiet samples in a row, with no pause, error or switch among them.
ProvenHeadroom == [][state # "active" /\ state' = "active" => quiet' = ResumeCount]_burstVars

\* "bursts are paused, so they only ever use spare capacity": on a link that stays
\* busy, every class is back to its default in the end, through restarts of the GUI and
\* passes that failed, and on one with room every class gets its burst.  It does not
\* hold when burst control is turned off and the one pass on that flip fails.
BurstsFollowLoad ==
  /\ <>[](state = "paused") /\ <>[][~PassFails /\ ~Resize]_burstVars
     => <>[](\A c \in Classes \ Small : cburst[c] = "default")
  /\ <>[](state = "active") /\ <>[][~PassFails /\ ~Resize /\ ~Rebuild]_burstVars
     => <>[](\A c \in Classes : cburst[c] = "plan")
=============================================================================
