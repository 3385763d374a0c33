\* Messages: three texts, one of them a command that starts no turn, against a slow model.
CONSTANTS
  a = a  b = b  c = c
  Texts = {a, b, c}
  LocalTexts = {c}
  MaxQueue = 2
  Capacity = 1
\* Approvals: two calls of every kind side by side, any turns, mode changes in between.
  Calls = {c1, c2}
  Requests <- Some
  StartMode = "ask"
SPECIFICATION InterfaceSpec
INVARIANTS TextsAreAccounted AnswersAreHonoured
PROPERTIES KeepsPromise FollowUpsMove CallsAreDecided
\* The interface may be left and every call made.
CHECK_DEADLOCK FALSE
