\* The calendar's fetches, pairings and discoveries over the worker.
CONSTANTS
  Arg = {"screen", "web"}
  NoArg = "none"
  CmdCap = 2
  ReplyCap = 2
SPECIFICATION Spec
INVARIANTS CodeReachesAsker
PROPERTIES PromptStands Refreshed WebAnswered ShutdownServed
CHECK_DEADLOCK FALSE
