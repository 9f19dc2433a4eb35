\* The threads of the GUI that repair jobs, keep the history and control bursts.  Time stops
\* at MaxTime.
SPECIFICATION ServicesSpec
CONSTANTS
  Jobs <- MCJobs
  Kind <- MCKind
  Service <- MCService
  Troubles <- MCTroubles
  Periodic = {"scan", "stats"}
  Conditions = {"c", "d"}
  Messages = {"m"}
  Fold = 1
  Reopen = 2
  Keep = 1
  MaxEvents = 1
  MaxTime = 2
  Classes = {"c", "d"}
  Small = {"d"}
  ResumeCount = 3
INVARIANTS ServicesTypeOK OneFix OneEntry
PROPERTIES Heals FollowsTheWorld ProvenHeadroom BurstsFollowLoad
