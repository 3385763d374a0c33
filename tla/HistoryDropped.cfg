\* Another process commits a turn while the compaction ahead of a request runs.
SPECIFICATION Spec
CONSTANTS
  Window = 1000
  System = 50
  Tools = 1
  Instructions = 70
  Framing = 1
  CheckpointTarget = 40
  KeepRecent = 2
  MaxAnchors = 2
  GroupSizes <- MCGroupSizes
  RequestSizes <- MCRequestSizes
  AnswerSizes <- MCAnswerSizes
  MaxTurns = 4
INVARIANT HistoryIsNeverDropped
