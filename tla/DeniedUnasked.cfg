\* A patch and an MCP call whose prompts the user may leave unanswered.
SPECIFICATION ApprovalsSpec
CONSTANTS
  Calls = {c1, c2}
  Requests <- Few
  StartMode = "ask"
CHECK_DEADLOCK FALSE
INVARIANT OnlyTheUserDenies
