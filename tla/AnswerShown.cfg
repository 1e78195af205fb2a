\* The answer of a task is asked for while the radar judges its tool calls.
SPECIFICATION Spec
CONSTANTS
  Task = {"t1"}
  Kits = {"arxiv"}
  GoalTools = {"read"}
  Limit <- AnswerLimit
  MaxOutside = 1
PROPERTIES AnswerWithheld
CHECK_DEADLOCK FALSE
