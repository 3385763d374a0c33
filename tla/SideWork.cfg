CONSTANTS
  MaxActive = 1
  MaxRetained = 2
  MaxAgents = 3
  MaxChanges = 2
  MaxSessions = 2
  MaxRequests = 2
  Emitters = {e1, e2}
  MaxEvents = 1
  Capacity = 1
  Pipes = {"pipe", "file"}
SPECIFICATION SideSpec
INVARIANTS AgentsKeepOrder ShownInItsSession ReportIsTrue
PROPERTY EveryAgentEnds EndsWhenCancelled
CHECK_DEADLOCK FALSE
