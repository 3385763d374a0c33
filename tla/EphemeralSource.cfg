SPECIFICATION Spec
CONSTANTS
  Ids = {"a", "b", "c"}
  Titles = {"x", "b"}
  Chats = {c1}
  Shells = {shell}
  Stored <- MCStored
  MaxCommands = 1
PROPERTY EphemeralLeavesSource
CHECK_DEADLOCK FALSE
