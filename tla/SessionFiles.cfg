SPECIFICATION Spec
CONSTANTS
  Ids = {"a", "b", "c"}
  Titles = {"x", "b"}
  Chats = {c1, c2}
  Shells = {shell}
  Stored <- MCStored
  MaxCommands = 2
INVARIANT ForkIsAPrefix
PROPERTIES ListingIsTrue NamesOneSession JournalsOnlyGrow
SYMMETRY SameChats
CHECK_DEADLOCK FALSE
