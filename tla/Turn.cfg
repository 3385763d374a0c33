\* The admission of turns, sizes in thousandths of the window.
CONSTANTS
  Window = 1000
  System = 50
  Tools = 1
  Instructions = 70
  Framing = 1
  CheckpointTarget = 40
  KeepRecent = 2
  MaxAnchors = 2
  GroupSizes <- MCGroupSizes
  RequestSizes <- MCRequestSizes
  AnswerSizes <- MCAnswerSizes
  MaxTurns = 4
\* The agent: two model steps, batches of up to three calls of every kind.
  Keys = {"look", "change", "plan", "unknown"}
  Kind <- Four
  MaxModelSteps = 2
  MaxToolCalls = 3
  MaxRepeats = 1
  MaxBatch = 3
SPECIFICATION TurnSpec
INVARIANTS PromptIsWhole CompactionIsSound BudgetHolds TurnIsWhole
PROPERTY TurnReturns
\* A turn may be over.
CHECK_DEADLOCK FALSE
