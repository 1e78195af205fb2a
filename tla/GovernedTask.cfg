\* One task in each kind of bundle: two writes to approve, a stop, a call lost
\* or given up, and every verdict of the radar.
SPECIFICATION Spec
CONSTANTS
  Task = {"t1"}
  Kits = {"arxiv", "crewai", "writeup"}
  GoalTools = {"external_post"}
  Limit <- PauseLimit
  MaxOutside = 2
INVARIANTS OneApprovalPerWrite OrphansExplained
PROPERTIES VerdictStands TaskAndWorkflowEnd
CHECK_DEADLOCK FALSE
