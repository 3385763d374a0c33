------------------------- MODULE ThreadLedgerProofs -------------------------
(***************************************************************************)
(* Proofs about ThreadLedger for any number of processes, turns, tools,    *)
(* operations, checkpoints and calls, and any pause limit.                 *)
(*                                                                         *)
(* Everything follows from one inductive invariant, Inv.  The properties   *)
(* are not inductive by themselves for two reasons.  A mutation passes     *)
(* arguments it read earlier, so its effect depends on what the revision   *)
(* comparison says about the caller's snapshot (ViewsAreFaithful); and     *)
(* the failure of a compaction writes the pause its owner read, possibly   *)
(* long ago, so that snapshot must still agree with the ledger while a     *)
(* manual operation is pending (OwnerKnowsPause).                          *)
(***************************************************************************)
EXTENDS ThreadLedger, TLAPS

\* TypeOK without the clients' snapshots.
LedgerTypes ==
  /\ revision \in Nat
  /\ corrupt \in BOOLEAN
  /\ status \in [Turns -> Statuses]
  /\ active \in Turns \cup {None}
  /\ tools \in [Turns -> [Tools -> ToolStates]]
  /\ owner \in [Turns -> Clients \cup {None}]
  /\ extent \in [Turns -> Nat]
  /\ archived \in BOOLEAN
  /\ model \in Models
  /\ pending \in Pendings
  /\ operations \in [Operations -> Clients \cup {None}]
  /\ paused \in BOOLEAN
  /\ streak \in Nat
  /\ current \in Checkpoints \cup {None}
  /\ lineage \in [Checkpoints -> Entries \cup {None}]
  /\ usage \in [Calls -> UsageRecs \cup {None}]

\* A snapshot is never ahead of the ledger, and one that passes the revision
\* comparison is the ledger's present state.
ViewsAreFaithful ==
  /\ view \in [Clients -> Views]
  /\ \A c \in Clients :
       /\ view[c].revision <= revision
       /\ view[c].revision = revision => view[c] = Snapshot

TurnInv == ActiveTurnIsTheOpenTurn /\ CommittedTurnsAreComplete

\* A pending operation is recorded, an automatic one started below the limit
\* and keeps the thread paused.
CompactionInv ==
  /\ pending # None => operations[pending.op] \in Clients
  /\ PendingAutomaticIsPaused
  /\ pending # None /\ pending.automatic => streak < MaxLowGainAttempts
  /\ AntiThrash

\* The client of a pending manual operation last read the pause as it still is.
OwnerKnowsPause ==
  pending # None /\ ~pending.automatic => view[operations[pending.op]].paused = paused

LineageInv ==
  /\ LineageIsWellFounded
  /\ \A cp \in Installed : lineage[cp].sequence <= revision

Inv ==
  /\ LedgerTypes
  /\ ViewsAreFaithful
  /\ JournalReplays
  /\ TurnInv
  /\ ArchivedIsIdle
  /\ CompactionInv
  /\ OwnerKnowsPause
  /\ LineageInv

\* What an accepted append does besides its event's effect.
Appended(c) ==
  /\ revision' = revision + 1
  /\ corrupt' = corrupt
  /\ view' = [view EXCEPT ![c] = Snapshot']

-----------------------------------------------------------------------------
(* Appending and framing.                                                  *)

LEMMA ViewStep ==
  ASSUME LedgerTypes, LedgerTypes', ViewsAreFaithful, NEW c \in Clients, Appended(c)
  PROVE  ViewsAreFaithful'
<1>1. Snapshot' \in Views /\ Snapshot'.revision = revision'
  BY DEF LedgerTypes, Snapshot, Views
<1>2. view' \in [Clients -> Views]
  BY <1>1 DEF ViewsAreFaithful, Appended
<1>3. ASSUME NEW d \in Clients
      PROVE  /\ view'[d].revision <= revision'
             /\ view'[d].revision = revision' => view'[d] = Snapshot'
  <2>1. CASE d = c
    BY <1>1, <2>1 DEF ViewsAreFaithful, Appended, LedgerTypes
  <2>2. CASE d # c
    <3>1. view'[d] = view[d] /\ view[d] \in Views /\ view[d].revision <= revision
      BY <2>2 DEF ViewsAreFaithful, Appended
    <3>2. revision' = revision + 1 /\ revision \in Nat /\ view[d].revision \in Nat
      BY <3>1 DEF Appended, LedgerTypes, Views
    <3>3. QED
      BY <3>1, <3>2
  <2>3. QED
    BY <2>1, <2>2
<1>4. QED
  BY <1>2, <1>3 DEF ViewsAreFaithful

\* An event of the turn lifecycle, of usage or of the metadata leaves the
\* compaction and its checkpoints alone.
LEMMA CompactionFrame ==
  ASSUME Inv, LedgerTypes', NEW c \in Clients, Appended(c),
         UNCHANGED <<compactionVars, checkpointVars>>
  PROVE  CompactionInv' /\ OwnerKnowsPause' /\ LineageInv'
<1>1. CompactionInv'
  BY DEF Inv, CompactionInv, compactionVars, PendingAutomaticIsPaused, AntiThrash
<1>2. OwnerKnowsPause'
  <2> SUFFICES ASSUME pending # None, ~pending.automatic
               PROVE  view'[operations[pending.op]].paused = paused
    BY DEF OwnerKnowsPause, compactionVars
  <2>1. operations[pending.op] \in Clients /\ view[operations[pending.op]].paused = paused
    BY DEF Inv, CompactionInv, OwnerKnowsPause
  <2>2. Snapshot'.paused = paused
    BY DEF Snapshot, compactionVars
  <2>3. QED
    BY <2>1, <2>2 DEF Appended, Inv, ViewsAreFaithful
<1>3. LineageInv'
  <2>1. lineage' = lineage /\ current' = current /\ revision' = revision + 1 /\ revision \in Nat
    BY DEF checkpointVars, Appended, Inv, LedgerTypes
  <2>2. \A cp \in Installed : lineage[cp].sequence \in Nat
    BY DEF Inv, LedgerTypes, Installed, Entries
  <2>3. Installed' = Installed /\ LineageIsWellFounded'
    BY <2>1 DEF Inv, LineageInv, LineageIsWellFounded, Installed
  <2>4. QED
    BY <2>1, <2>2, <2>3 DEF Inv, LineageInv
<1>4. QED
  BY <1>1, <1>2, <1>3

\* An event of one turn, which leaves everything but the turns and the usage.
LEMMA TurnFrame ==
  ASSUME Inv, LedgerTypes', TurnInv', ArchivedIsIdle', NEW c \in Clients, Appended(c),
         UNCHANGED <<compactionVars, checkpointVars>>
  PROVE  Inv'
<1>1. ViewsAreFaithful'
  BY ViewStep DEF Inv
<1>2. JournalReplays'
  BY DEF Inv, JournalReplays, Appended
<1>3. QED
  BY <1>1, <1>2, CompactionFrame DEF Inv

\* An event of the compaction lifecycle, which leaves the turns alone.
LEMMA LifecycleFrame ==
  ASSUME Inv, LedgerTypes', NEW c \in Clients, Appended(c), UNCHANGED <<lifecycleVars, metaVars>>,
         pending' # None => ~archived,
         CompactionInv', OwnerKnowsPause', LineageInv'
  PROVE  Inv'
<1>1. ViewsAreFaithful'
  BY ViewStep DEF Inv
<1>2. JournalReplays' /\ TurnInv'
  BY DEF Inv, JournalReplays, Appended, TurnInv, ActiveTurnIsTheOpenTurn,
         CommittedTurnsAreComplete, lifecycleVars
<1>3. ArchivedIsIdle'
  BY DEF Inv, ArchivedIsIdle, Idle, lifecycleVars, metaVars
<1>4. QED
  BY <1>1, <1>2, <1>3 DEF Inv

-----------------------------------------------------------------------------
(* The turn lifecycle.                                                     *)

LEMMA InitInv == Init => Inv
<1> SUFFICES ASSUME Init PROVE Inv
  OBVIOUS
<1>1. LedgerTypes
  BY LedgerAssumption DEF LedgerAssumption, Init, LedgerTypes, Pendings, Entries,
     Statuses, ToolStates, UsageRecs
<1>2. ViewsAreFaithful
  <2>1. Snapshot \in Views /\ Snapshot.revision = revision
    BY <1>1 DEF LedgerTypes, Snapshot, Views
  <2>2. revision \in Nat /\ view = [c \in Clients |-> Snapshot]
    BY <1>1 DEF Init, LedgerTypes
  <2>3. QED
    BY <2>1, <2>2 DEF ViewsAreFaithful
<1>3. JournalReplays /\ ArchivedIsIdle /\ OwnerKnowsPause
  BY DEF Init, JournalReplays, ArchivedIsIdle, OwnerKnowsPause
<1>4. TurnInv
  BY LedgerAssumption DEF LedgerAssumption, Init, TurnInv, ActiveTurnIsTheOpenTurn,
     CommittedTurnsAreComplete
<1>5. CompactionInv
  BY LedgerAssumption DEF LedgerAssumption, Init, CompactionInv, PendingAutomaticIsPaused,
     AntiThrash
<1>6. LineageInv
  BY DEF Init, LineageInv, LineageIsWellFounded, Installed
<1>7. QED
  BY <1>1, <1>2, <1>3, <1>4, <1>5, <1>6 DEF Inv

LEMMA StartTurnInv ==
  ASSUME Inv, NEW c \in Clients, NEW t \in Turns, StartTurn(c, t)
  PROVE  Inv'
<1>1. /\ Appended(c)
      /\ ~archived /\ AcceptsTurnStart(t) /\ Extend(t)
      /\ status' = [status EXCEPT ![t] = "open"] /\ active' = t
      /\ owner' = [owner EXCEPT ![t] = c]
      /\ UNCHANGED <<tools, metaVars, compactionVars, checkpointVars, usage>>
  BY DEF StartTurn, Append, Appended
<1>2. LedgerTypes'
  BY <1>1 DEF Inv, LedgerTypes, Appended, Extend, Statuses, metaVars, compactionVars, checkpointVars
<1>3. TurnInv'
  BY <1>1, LedgerAssumption DEF LedgerAssumption, Inv, LedgerTypes, TurnInv,
     ActiveTurnIsTheOpenTurn, CommittedTurnsAreComplete, AcceptsTurnStart
<1>4. ArchivedIsIdle'
  BY <1>1 DEF ArchivedIsIdle, metaVars
<1>5. QED
  BY <1>1, <1>2, <1>3, <1>4, TurnFrame

\* A tool event of the open turn; a task snapshot and a usage record are the
\* same step with the tools unchanged.
LEMMA OpenTurnEvent ==
  ASSUME Inv, NEW c \in Clients, NEW t, OpenTurn(t), Appended(c), Extend(t),
         tools' \in [Turns -> [Tools -> ToolStates]],
         \A u \in Turns : u # t => tools'[u] = tools[u],
         usage' \in [Calls -> UsageRecs \cup {None}],
         UNCHANGED <<status, active, owner, metaVars, compactionVars, checkpointVars>>
  PROVE  Inv'
<1>1. LedgerTypes'
  BY DEF Inv, LedgerTypes, Appended, Extend, metaVars, compactionVars, checkpointVars
<1>2. TurnInv'
  BY DEF Inv, TurnInv, ActiveTurnIsTheOpenTurn, CommittedTurnsAreComplete, OpenTurn
<1>3. ArchivedIsIdle'
  BY DEF Inv, ArchivedIsIdle, Idle, metaVars, compactionVars
<1>4. QED
  BY <1>1, <1>2, <1>3, TurnFrame

LEMMA ToolInv ==
  ASSUME Inv, NEW c \in Clients, NEW t \in Turns, NEW k \in Tools,
         ToolStarted(c, t, k) \/ ToolCompleted(c, t, k)
  PROVE  Inv'
<1>1. PICK s \in ToolStates :
        /\ OpenTurn(t) /\ Appended(c) /\ Extend(t)
        /\ tools' = [tools EXCEPT ![t][k] = s]
        /\ UNCHANGED <<status, active, owner, metaVars, compactionVars, checkpointVars, usage>>
  BY DEF ToolStarted, ToolCompleted, AcceptsToolStart, AcceptsToolCompletion, Append, Appended,
     ToolStates
<1>2. /\ tools' \in [Turns -> [Tools -> ToolStates]]
      /\ \A u \in Turns : u # t => tools'[u] = tools[u]
  BY <1>1 DEF Inv, LedgerTypes
<1>3. usage' \in [Calls -> UsageRecs \cup {None}]
  BY <1>1 DEF Inv, LedgerTypes
<1>4. QED
  BY <1>1, <1>2, <1>3, OpenTurnEvent

LEMMA UpdateTaskStateInv ==
  ASSUME Inv, NEW c \in Clients, NEW t \in Turns, UpdateTaskState(c, t)
  PROVE  Inv'
<1>1. /\ OpenTurn(t) /\ Appended(c) /\ Extend(t)
      /\ UNCHANGED <<status, active, tools, owner, metaVars, compactionVars, checkpointVars, usage>>
  BY DEF UpdateTaskState, Append, Appended
<1>2. /\ tools' \in [Turns -> [Tools -> ToolStates]]
      /\ \A u \in Turns : u # t => tools'[u] = tools[u]
      /\ usage' \in [Calls -> UsageRecs \cup {None}]
  BY <1>1 DEF Inv, LedgerTypes
<1>3. QED
  BY <1>1, <1>2, OpenTurnEvent

\* Every way a turn ends.
LEMMA CloseInv ==
  ASSUME Inv, NEW c \in Clients, NEW t, NEW terminal \in Terminal,
         OpenTurn(t), Appended(c), Close(t, terminal),
         terminal = "committed" => AcceptsCommit(t)
  PROVE  Inv'
<1>1. /\ t \in Turns
      /\ status' = [status EXCEPT ![t] = terminal] /\ active' = None /\ Extend(t)
      /\ UNCHANGED <<tools, owner, metaVars, compactionVars, checkpointVars, usage>>
  BY DEF Close, OpenTurn
<1>2. LedgerTypes'
  BY <1>1 DEF Inv, LedgerTypes, Appended, Extend, Statuses, metaVars, compactionVars, checkpointVars
<1>3. TurnInv'
  <2>1. ActiveTurnIsTheOpenTurn'
    BY <1>1, LedgerAssumption DEF LedgerAssumption, Inv, LedgerTypes, TurnInv,
       ActiveTurnIsTheOpenTurn, OpenTurn, Terminal
  <2>2. CommittedTurnsAreComplete'
    BY <1>1 DEF Inv, LedgerTypes, TurnInv, CommittedTurnsAreComplete, AcceptsCommit
  <2>3. QED
    BY <2>1, <2>2 DEF TurnInv
<1>4. ArchivedIsIdle'
  BY <1>1 DEF Inv, ArchivedIsIdle, Idle, metaVars, compactionVars
<1>5. QED
  BY <1>1, <1>2, <1>3, <1>4, TurnFrame

LEMMA EndTurnInv ==
  ASSUME Inv, NEW c \in Clients, NEW t \in Turns,
         \/ CommitTurn(c, t)
         \/ \E terminal \in {"cancelled", "failed"} :
              TerminateTurn(c, t, terminal) \/ FinishTurn(c, t, terminal)
  PROVE  Inv'
<1>1. PICK terminal \in Terminal :
        /\ OpenTurn(t) /\ Appended(c) /\ Close(t, terminal)
        /\ terminal = "committed" => AcceptsCommit(t)
  BY DEF CommitTurn, TerminateTurn, FinishTurn, AcceptsCommit, Append, Appended, Terminal
<1>2. QED
  BY <1>1, CloseInv

LEMMA RecoverInterruptedTurnInv ==
  ASSUME Inv, NEW c \in Clients, RecoverInterruptedTurn(c)
  PROVE  Inv'
<1>1. OpenTurn(active)
  BY DEF Inv, LedgerTypes, TurnInv, ActiveTurnIsTheOpenTurn, RecoverInterruptedTurn, OpenTurn
<1>2. Appended(c) /\ Close(active, "failed")
  BY <1>1 DEF RecoverInterruptedTurn, Append, Appended
<1>3. QED
  BY <1>1, <1>2, CloseInv DEF Terminal

-----------------------------------------------------------------------------
(* Reads, metadata and usage.                                              *)

\* A snapshot of the unchanged ledger: a read, or a mutation that found its
\* record already there.
LEMMA ReadInv ==
  ASSUME Inv, NEW c \in Clients, view' = [view EXCEPT ![c] = Snapshot],
         UNCHANGED <<revision, corrupt, projection>>
  PROVE  Inv'
<1> USE DEF projection, lifecycleVars, metaVars, compactionVars, checkpointVars
<1>1. LedgerTypes' /\ Snapshot' = Snapshot
  BY DEF Inv, LedgerTypes, Snapshot
<1>2. Snapshot \in Views /\ Snapshot.revision = revision /\ Snapshot.paused = paused
  BY DEF Inv, LedgerTypes, Snapshot, Views
<1>3. ViewsAreFaithful'
  BY <1>1, <1>2 DEF Inv, LedgerTypes, ViewsAreFaithful
<1>4. JournalReplays' /\ TurnInv' /\ ArchivedIsIdle' /\ CompactionInv' /\ LineageInv'
  BY DEF Inv, JournalReplays, TurnInv, ActiveTurnIsTheOpenTurn, CommittedTurnsAreComplete,
         ArchivedIsIdle, Idle, CompactionInv, PendingAutomaticIsPaused, AntiThrash,
         LineageInv, LineageIsWellFounded, Installed
<1>5. OwnerKnowsPause'
  BY <1>2 DEF Inv, OwnerKnowsPause, CompactionInv, ViewsAreFaithful
<1>6. QED
  BY <1>1, <1>3, <1>4, <1>5 DEF Inv

LEMMA MetaInv ==
  ASSUME Inv, NEW c \in Clients, MetaStep(c)
  PROVE  Inv'
<1>1. /\ Appended(c)
      /\ UNCHANGED <<lifecycleVars, compactionVars, checkpointVars, usage>>
      /\ archived' \in BOOLEAN /\ model' \in Models
      /\ archived' = archived \/ Idle
  BY DEF MetaStep, SetThreadTitle, SetThreadArchived, SetThreadModelBinding, Append, Appended,
         projection, metaVars, Inv, LedgerTypes
<1>2. LedgerTypes'
  BY <1>1 DEF Inv, LedgerTypes, Appended, lifecycleVars, compactionVars, checkpointVars
<1>3. TurnInv'
  BY <1>1 DEF Inv, TurnInv, ActiveTurnIsTheOpenTurn, CommittedTurnsAreComplete, lifecycleVars
<1>4. ArchivedIsIdle'
  BY <1>1 DEF Inv, ArchivedIsIdle, Idle, lifecycleVars, compactionVars
<1>5. QED
  BY <1>1, <1>2, <1>3, <1>4, TurnFrame

\* Usage of a turn needs the turn open, usage of an operation belongs to none.
LEMMA RecordUsageInv ==
  ASSUME Inv, NEW c \in Clients, NEW k \in Calls, NEW u \in UsageRecs, RecordUsage(c, k, u)
  PROVE  Inv'
<1>1. CASE usage[k] = u /\ view' = [view EXCEPT ![c] = Snapshot]
           /\ UNCHANGED <<revision, corrupt, projection>>
  BY <1>1, ReadInv
<1>2. CASE /\ (u.operation = "compaction" /\ u.turn = None) \/ OpenTurn(u.turn)
           /\ Appended(c) /\ usage' = [usage EXCEPT ![k] = u] /\ Extend(u.turn)
           /\ UNCHANGED <<status, active, tools, owner, metaVars, compactionVars, checkpointVars>>
  <2>1. usage' \in [Calls -> UsageRecs \cup {None}]
    BY <1>2 DEF Inv, LedgerTypes
  <2>2. LedgerTypes'
    BY <1>2, <2>1 DEF Inv, LedgerTypes, Appended, Extend, metaVars, compactionVars, checkpointVars
  <2>3. TurnInv' /\ ArchivedIsIdle'
    BY <1>2 DEF Inv, TurnInv, ActiveTurnIsTheOpenTurn, CommittedTurnsAreComplete,
       ArchivedIsIdle, Idle, metaVars, compactionVars
  <2>4. QED
    BY <1>2, <2>2, <2>3, TurnFrame
<1>3. QED
  BY <1>1, <1>2 DEF RecordUsage, AcceptsUsage, ChargeIsPending, Append, Appended

LEMMA UsageInv ==
  ASSUME Inv, NEW c \in Clients, NEW k \in Calls,
         RecordTurnUsage(c, k) \/ RecordCompactionUsage(c, k)
  PROVE  Inv'
<1>1. PICK u \in UsageRecs : RecordUsage(c, k, u)
  BY DEF RecordTurnUsage, RecordCompactionUsage, UsageRecs, Recorded
<1>2. QED
  BY <1>1, RecordUsageInv

-----------------------------------------------------------------------------
(* Compaction.                                                             *)

\* With no manual operation pending afterwards OwnerKnowsPause is trivial.
LEMMA StartCompactionInv ==
  ASSUME Inv, NEW c \in Clients, NEW op \in Operations, NEW automatic \in BOOLEAN,
         StartCompaction(c, op, automatic)
  PROVE  Inv'
<1>1. /\ Appended(c) /\ Expected(c) /\ ~archived /\ pending = None
      /\ automatic => ~view[c].paused
      /\ operations' = [operations EXCEPT ![op] = c]
      /\ pending' = [op |-> op, automatic |-> automatic]
      /\ paused' = (paused \/ automatic)
      /\ UNCHANGED <<streak, lifecycleVars, metaVars, checkpointVars, usage>>
  BY DEF StartCompaction, AcceptsCompactionStart, Append, Appended
<1>2. LedgerTypes'
  BY <1>1 DEF Inv, LedgerTypes, Appended, Pendings, lifecycleVars, metaVars, checkpointVars
<1>3. view[c].paused = paused
  BY <1>1 DEF Inv, ViewsAreFaithful, Expected, Snapshot
<1>4. automatic => streak < MaxLowGainAttempts
  BY <1>1, <1>3, LedgerAssumption DEF LedgerAssumption, Inv, LedgerTypes, CompactionInv, AntiThrash
<1>5. operations'[op] = c /\ pending'.op = op /\ pending'.automatic = automatic
  BY <1>1 DEF Inv, LedgerTypes
<1>6. CompactionInv'
  BY <1>1, <1>4, <1>5 DEF Inv, CompactionInv, PendingAutomaticIsPaused, AntiThrash
<1>7. OwnerKnowsPause'
  <2>1. Snapshot'.paused = paused'
    BY DEF Snapshot
  <2>2. view'[c] = Snapshot'
    BY <1>1 DEF Appended, Inv, ViewsAreFaithful
  <2>3. QED
    BY <1>1, <1>5, <2>1, <2>2 DEF OwnerKnowsPause
<1>8. LineageInv'
  <2>1. \A cp \in Installed : lineage[cp].sequence \in Nat
    BY DEF Inv, LedgerTypes, Installed, Entries
  <2>2. QED
    BY <1>1, <2>1 DEF Inv, LedgerTypes, LineageInv, LineageIsWellFounded, Installed, Appended,
       checkpointVars
<1>9. QED
  BY <1>1, <1>2, <1>6, <1>7, <1>8, LifecycleFrame

\* The common end of every failed compaction.  What differs between its
\* callers is the pause a manual failure writes back.
LEMMA CompactionFailedInv ==
  ASSUME Inv, NEW c \in Clients, NEW op \in Operations, NEW automatic \in BOOLEAN,
         NEW outcome \in Outcomes, NEW read \in BOOLEAN,
         AcceptsCompactionFailure(op, automatic), CompactionFailed(c, op, automatic, outcome, read),
         ~automatic => read = paused,
         automatic /\ outcome # "other" => streak < MaxLowGainAttempts
  PROVE  Inv'
<1>1. /\ Appended(c) /\ pending' = None
      /\ operations' = IF op \in Recorded THEN operations ELSE [operations EXCEPT ![op] = c]
      /\ streak' = NextStreak(automatic, outcome)
      /\ paused' = NextPause(automatic, outcome, read)
      /\ UNCHANGED <<lifecycleVars, metaVars, checkpointVars, usage>>
  BY DEF CompactionFailed, Append, Appended
<1>2. /\ streak' \in Nat /\ paused' \in BOOLEAN
      /\ streak' <= MaxLowGainAttempts /\ (streak' = MaxLowGainAttempts => paused')
  <2>1. /\ streak \in Nat /\ paused \in BOOLEAN /\ MaxLowGainAttempts \in Nat \ {0}
        /\ streak <= MaxLowGainAttempts /\ (streak = MaxLowGainAttempts => paused)
    BY LedgerAssumption DEF LedgerAssumption, Inv, LedgerTypes, CompactionInv, AntiThrash
  <2>2. CASE ~automatic
    BY <1>1, <2>1, <2>2 DEF NextStreak, NextPause
  <2>3. CASE automatic /\ outcome = "stale"
    BY <1>1, <2>1, <2>3 DEF NextStreak, NextPause
  <2>4. CASE automatic /\ outcome = "low_gain"
    BY <1>1, <2>1, <2>4 DEF NextStreak, NextPause
  <2>5. CASE automatic /\ outcome = "other"
    BY <1>1, <2>1, <2>5 DEF NextStreak, NextPause
  <2>6. QED
    BY <2>2, <2>3, <2>4, <2>5 DEF Outcomes
<1>3. LedgerTypes'
  BY <1>1, <1>2 DEF Inv, LedgerTypes, Appended, Pendings, lifecycleVars, metaVars, checkpointVars
<1>4. CompactionInv' /\ OwnerKnowsPause'
  BY <1>1, <1>2 DEF CompactionInv, PendingAutomaticIsPaused, AntiThrash, OwnerKnowsPause
<1>5. LineageInv'
  <2>1. \A cp \in Installed : lineage[cp].sequence \in Nat
    BY DEF Inv, LedgerTypes, Installed, Entries
  <2>2. QED
    BY <1>1, <2>1 DEF Inv, LedgerTypes, LineageInv, LineageIsWellFounded, Installed, Appended,
       checkpointVars
<1>6. QED
  BY <1>1, <1>3, <1>4, <1>5, LifecycleFrame

\* The arguments each caller passes to the common end.
FailureArguments(c, op, automatic, outcome, read) ==
  /\ c \in Clients /\ op \in Operations /\ automatic \in BOOLEAN
  /\ outcome \in Outcomes /\ read \in BOOLEAN
  /\ AcceptsCompactionFailure(op, automatic)
  /\ CompactionFailed(c, op, automatic, outcome, read)
  /\ ~automatic => pending # None /\ ~pending.automatic /\ read = paused
  /\ automatic /\ outcome # "other" => streak < MaxLowGainAttempts

FailureStep(c) ==
  \/ \E op \in Operations, automatic \in BOOLEAN, outcome \in Outcomes :
       RecordCompactionFailure(c, op, automatic, outcome) \/ FinishCompaction(c, op, automatic, outcome)
  \/ \E op \in Operations : RecordPreflightFailure(c, op)
  \/ RecoverInterruptedCompaction(c)

LEMMA FailureCalls ==
  ASSUME Inv, NEW c \in Clients, FailureStep(c)
  PROVE  \E op, automatic, outcome, read : FailureArguments(c, op, automatic, outcome, read)
<1>1. view[c].paused \in BOOLEAN
  BY DEF Inv, ViewsAreFaithful, Views
<1>2. ASSUME NEW op \in Operations, NEW automatic \in BOOLEAN, NEW outcome \in Outcomes,
             \/ RecordCompactionFailure(c, op, automatic, outcome)
             \/ FinishCompaction(c, op, automatic, outcome)
      PROVE  FailureArguments(c, op, automatic, outcome, view[c].paused)
  <2>1. /\ pending = [op |-> op, automatic |-> automatic] /\ operations[op] = c
        /\ CompactionFailed(c, op, automatic, outcome, view[c].paused)
    BY <1>2 DEF RecordCompactionFailure, FinishCompaction
  <2>2. pending # None /\ pending.op = op /\ pending.automatic = automatic
    BY <2>1, LedgerAssumption DEF LedgerAssumption
  <2>3. ~automatic => view[c].paused = paused
    BY <2>1, <2>2 DEF Inv, OwnerKnowsPause
  <2>4. automatic => streak < MaxLowGainAttempts
    BY <2>2 DEF Inv, CompactionInv
  <2>5. QED
    BY <1>1, <1>2, <2>1, <2>2, <2>3, <2>4 DEF FailureArguments, AcceptsCompactionFailure
<1>3. ASSUME NEW op \in Operations, RecordPreflightFailure(c, op)
      PROVE  FailureArguments(c, op, TRUE, "other", view[c].paused)
  BY <1>1, <1>3 DEF RecordPreflightFailure, FailureArguments, AcceptsCompactionFailure, Outcomes
<1>4. ASSUME RecoverInterruptedCompaction(c)
      PROVE  FailureArguments(c, pending.op, pending.automatic, "other", view[c].paused)
  <2>1. /\ pending # None /\ pending = view[c].pending /\ Expected(c)
        /\ CompactionFailed(c, pending.op, pending.automatic, "other", view[c].paused)
    BY <1>4 DEF RecoverInterruptedCompaction
  <2>2. /\ pending.op \in Operations /\ pending.automatic \in BOOLEAN
        /\ pending = [op |-> pending.op, automatic |-> pending.automatic]
    BY <2>1 DEF Inv, LedgerTypes, Pendings
  <2>3. view[c].paused = paused
    BY <2>1 DEF Inv, ViewsAreFaithful, Expected, Snapshot
  <2>4. QED
    BY <1>1, <2>1, <2>2, <2>3 DEF FailureArguments, AcceptsCompactionFailure, Outcomes
<1>5. QED
  BY <1>2, <1>3, <1>4 DEF FailureStep

LEMMA FailureInv ==
  ASSUME Inv, NEW c \in Clients, FailureStep(c)
  PROVE  Inv'
<1>1. PICK op, automatic, outcome, read : FailureArguments(c, op, automatic, outcome, read)
  BY FailureCalls
<1>2. QED
  BY <1>1, CompactionFailedInv DEF FailureArguments

LEMMA CommitCheckpointInv ==
  ASSUME Inv, NEW c \in Clients, NEW cp \in Checkpoints, NEW op \in Operations,
         NEW automatic \in BOOLEAN, CommitCheckpoint(c, cp, op, automatic)
  PROVE  Inv'
<1>1. /\ Appended(c) /\ cp \notin Installed /\ view[c].current = current
      /\ lineage' = [lineage EXCEPT ![cp] = [parent |-> current, sequence |-> revision + 1]]
      /\ current' = cp /\ pending' = None /\ streak' = 0 /\ paused' = FALSE
      /\ UNCHANGED <<operations, lifecycleVars, metaVars, usage>>
  BY DEF CommitCheckpoint, Install, AcceptsCheckpoint, Append, Appended
<1>2. LedgerTypes'
  <2>1. paused' \in BOOLEAN /\ streak' \in Nat /\ current' \in Checkpoints \cup {None}
        /\ pending' \in Pendings
    BY <1>1 DEF Pendings
  <2>2. lineage' \in [Checkpoints -> Entries \cup {None}]
    <3>1. [parent |-> current, sequence |-> revision + 1] \in Entries
      BY DEF Inv, LedgerTypes, Entries
    <3>2. QED
      BY <1>1, <3>1 DEF Inv, LedgerTypes
  <2>3. QED
    BY <1>1, <2>1, <2>2 DEF Inv, LedgerTypes, Appended, lifecycleVars, metaVars
<1>3. CompactionInv' /\ OwnerKnowsPause'
  BY <1>1, LedgerAssumption DEF LedgerAssumption, CompactionInv, PendingAutomaticIsPaused,
     AntiThrash, OwnerKnowsPause
<1>4. LineageInv'
  <2>1. /\ revision \in Nat /\ revision' = revision + 1
        /\ \A p \in Installed : lineage[p].sequence \in Nat /\ lineage[p].sequence <= revision
    BY <1>1 DEF Inv, LedgerTypes, Installed, Entries, LineageInv, Appended
  <2>2. /\ lineage'[cp].parent = current /\ lineage'[cp].sequence = revision + 1
        /\ lineage'[cp] # None
        /\ \A p \in Checkpoints : p # cp => lineage'[p] = lineage[p]
    BY <1>1, <2>1, LedgerAssumption DEF LedgerAssumption, Inv, LedgerTypes
  <2>3. Installed' = Installed \cup {cp}
    BY <2>2 DEF Installed
  <2>4. \A p \in Installed' : lineage'[p].sequence <= revision'
    BY <1>1, <2>1, <2>2, <2>3 DEF Installed
  <2>5. LineageIsWellFounded'
    <3>1. current' \in Installed'
      BY <1>1, <2>3
    <3>2. ASSUME NEW p \in Installed', lineage'[p].parent # None
          PROVE  /\ lineage'[p].parent \in Installed'
                 /\ lineage'[lineage'[p].parent].sequence < lineage'[p].sequence
      <4>1. CASE p = cp
        <5>1. current \in Installed /\ current # cp
          BY <1>1, <2>2, <3>2, <4>1 DEF Inv, LineageInv, LineageIsWellFounded
        <5>2. lineage'[current].sequence <= revision
          BY <2>1, <2>2, <5>1 DEF Installed
        <5>3. QED
          BY <2>1, <2>2, <2>3, <4>1, <5>1, <5>2 DEF Installed
      <4>2. CASE p # cp
        <5>1. p \in Installed /\ lineage'[p] = lineage[p]
          BY <2>2, <2>3, <4>2 DEF Installed
        <5>2. lineage[p].parent \in Installed /\ lineage[p].parent # cp
          BY <1>1, <3>2, <5>1 DEF Inv, LineageInv, LineageIsWellFounded
        <5>3. lineage[lineage[p].parent].sequence < lineage[p].sequence
          BY <3>2, <5>1 DEF Inv, LineageInv, LineageIsWellFounded
        <5>4. QED
          BY <2>2, <2>3, <5>1, <5>2, <5>3 DEF Installed
      <4>3. QED
        BY <4>1, <4>2
    <3>3. QED
      BY <3>1, <3>2 DEF LineageIsWellFounded
  <2>6. QED
    BY <2>4, <2>5 DEF LineageInv
<1>5. QED
  BY <1>1, <1>2, <1>3, <1>4, LifecycleFrame

LEMMA ResetIncompatibleCheckpointInv ==
  ASSUME Inv, NEW c \in Clients, ResetIncompatibleCheckpoint(c)
  PROVE  Inv'
<1>1. /\ Appended(c) /\ Expected(c) /\ view[c].pending = None
      /\ current' = None /\ streak' = 0 /\ paused' = FALSE
      /\ UNCHANGED <<lineage, pending, operations, lifecycleVars, metaVars, usage>>
  BY DEF ResetIncompatibleCheckpoint, Append, Appended
<1>2. pending = None
  BY <1>1 DEF Inv, ViewsAreFaithful, Expected, Snapshot
<1>3. LedgerTypes'
  <2>1. paused' \in BOOLEAN /\ streak' \in Nat /\ current' \in Checkpoints \cup {None}
    BY <1>1
  <2>2. QED
    BY <1>1, <2>1 DEF Inv, LedgerTypes, Appended, lifecycleVars, metaVars
<1>4. CompactionInv' /\ OwnerKnowsPause'
  BY <1>1, <1>2, LedgerAssumption DEF LedgerAssumption, CompactionInv, PendingAutomaticIsPaused,
     AntiThrash, OwnerKnowsPause
<1>5. LineageInv'
  <2>1. \A p \in Installed : lineage[p].sequence \in Nat
    BY DEF Inv, LedgerTypes, Installed, Entries
  <2>2. QED
    BY <1>1, <2>1 DEF Inv, LedgerTypes, LineageInv, LineageIsWellFounded, Installed, Appended
<1>6. QED
  BY <1>1, <1>2, <1>3, <1>4, <1>5, LifecycleFrame

-----------------------------------------------------------------------------
(* The inductive invariant and the safety properties it implies.           *)

LEMMA NextInv == Inv /\ [Next]_vars => Inv'
<1> SUFFICES ASSUME Inv, [Next]_vars PROVE Inv'
  OBVIOUS
<1>1. CASE UNCHANGED vars
  BY <1>1 DEF vars, projection, lifecycleVars, metaVars, compactionVars, checkpointVars, Inv,
     LedgerTypes, ViewsAreFaithful, Snapshot, JournalReplays, TurnInv, ActiveTurnIsTheOpenTurn,
     CommittedTurnsAreComplete, ArchivedIsIdle, Idle, CompactionInv, PendingAutomaticIsPaused,
     AntiThrash, OwnerKnowsPause, LineageInv, LineageIsWellFounded, Installed
<1>2. ASSUME NEW c \in Clients, Observe(c)
      PROVE  Inv'
  BY <1>2, ReadInv DEF Observe
<1>3. ASSUME NEW c \in Clients, TurnStep(c)
      PROVE  Inv'
  <2>1. CASE \E t \in Turns : StartTurn(c, t)
    BY <2>1, StartTurnInv
  <2>2. CASE \E t \in Turns, k \in Tools : ToolStarted(c, t, k) \/ ToolCompleted(c, t, k)
    BY <2>2, ToolInv
  <2>3. CASE \E t \in Turns : UpdateTaskState(c, t)
    BY <2>3, UpdateTaskStateInv
  <2>4. CASE \E t \in Turns :
               \/ CommitTurn(c, t)
               \/ \E terminal \in {"cancelled", "failed"} :
                    TerminateTurn(c, t, terminal) \/ FinishTurn(c, t, terminal)
    BY <2>4, EndTurnInv
  <2>5. CASE RecoverInterruptedTurn(c)
    BY <2>5, RecoverInterruptedTurnInv
  <2>6. CASE \E k \in Calls : RecordTurnUsage(c, k)
    BY <2>6, UsageInv
  <2>7. QED
    BY <1>3, <2>1, <2>2, <2>3, <2>4, <2>5, <2>6 DEF TurnStep
<1>4. ASSUME NEW c \in Clients, CompactionStep(c)
      PROVE  Inv'
  <2>1. CASE \E op \in Operations, automatic \in BOOLEAN : StartCompaction(c, op, automatic)
    BY <2>1, StartCompactionInv
  <2>2. CASE FailureStep(c)
    BY <2>2, FailureInv
  <2>3. CASE \E op \in Operations, automatic \in BOOLEAN, cp \in Checkpoints :
               CommitCheckpoint(c, cp, op, automatic)
    BY <2>3, CommitCheckpointInv
  <2>4. CASE ResetIncompatibleCheckpoint(c)
    BY <2>4, ResetIncompatibleCheckpointInv
  <2>5. CASE \E k \in Calls : RecordCompactionUsage(c, k)
    BY <2>5, UsageInv
  <2>6. QED
    BY <1>4, <2>1, <2>2, <2>3, <2>4, <2>5 DEF CompactionStep, FailureStep
<1>5. QED
  BY <1>1, <1>2, <1>3, <1>4, MetaInv DEF Next

\* Inv holds in every state that any interleaving of mutations reaches.
THEOREM Invariance == Spec => []Inv
<1>1. QED
  BY InitInv, NextInv, PTL DEF Spec

\* Every variable keeps the shape of its Go type.
THEOREM TypeCorrect == Spec => []TypeOK
<1>1. Inv => TypeOK
  BY DEF Inv, LedgerTypes, ViewsAreFaithful, TypeOK
<1>2. QED
  BY <1>1, Invariance, PTL

\* No interleaving of mutations makes an event durable that replay rejects.
THEOREM JournalAlwaysReplays == Spec => []JournalReplays
<1>1. Inv => JournalReplays
  BY DEF Inv
<1>2. QED
  BY <1>1, Invariance, PTL

\* The open turn is the active turn, and a committed turn left no tool running.
THEOREM TurnsAreConsistent == Spec => []ActiveTurnIsTheOpenTurn /\ []CommittedTurnsAreComplete
<1>1. Inv => ActiveTurnIsTheOpenTurn /\ CommittedTurnsAreComplete
  BY DEF Inv, TurnInv
<1>2. QED
  BY <1>1, Invariance, PTL

\* An archived thread has neither a turn nor a compaction in flight.
THEOREM ArchivedThreadsAreIdle == Spec => []ArchivedIsIdle
<1>1. Inv => ArchivedIsIdle
  BY DEF Inv
<1>2. QED
  BY <1>1, Invariance, PTL

\* A pending automatic operation pauses the thread, and the low-gain streak
\* stops at its limit, whoever recorded the failures.
THEOREM AutomaticCompactionIsBounded == Spec => []PendingAutomaticIsPaused /\ []AntiThrash
<1>1. Inv => PendingAutomaticIsPaused /\ AntiThrash
  BY DEF Inv, CompactionInv
<1>2. QED
  BY <1>1, Invariance, PTL

\* Walking the checkpoint lineage ends, and never at a missing parent.
THEOREM LineageAlwaysResolves == Spec => []LineageIsWellFounded
<1>1. Inv => LineageIsWellFounded
  BY DEF Inv, LineageInv
<1>2. QED
  BY <1>1, Invariance, PTL

-----------------------------------------------------------------------------
(* What a step may never do.                                               *)

\* No turn gains an event.  The other steps add theirs to a turn they start or
\* find open, and leave the ended ones alone.
Unmoved == UNCHANGED <<status, tools, extent>>

LEMMA TurnStepEffect ==
  ASSUME Inv, NEW c \in Clients, TurnStep(c)
  PROVE  /\ UNCHANGED <<metaVars, compactionVars, checkpointVars>>
         /\ \/ Unmoved
            \/ \E t \in Turns :
                 /\ status[t] \in {"absent", "open"}
                 /\ \A u \in Turns \ {t} : /\ status'[u] = status[u]
                                           /\ extent'[u] = extent[u]
                                           /\ tools'[u] = tools[u]
<1> DEFINE Moves(t) ==
             /\ status[t] \in {"absent", "open"}
             /\ \A u \in Turns \ {t} : /\ status'[u] = status[u]
                                       /\ extent'[u] = extent[u]
                                       /\ tools'[u] = tools[u]
           Goal == /\ UNCHANGED <<metaVars, compactionVars, checkpointVars>>
                   /\ Unmoved \/ \E t \in Turns : Moves(t)
<1> USE DEF Inv, LedgerTypes
<1>1. ASSUME NEW t \in Turns, StartTurn(c, t) PROVE Goal
  <2>1. Moves(t) /\ UNCHANGED <<metaVars, compactionVars, checkpointVars>>
    BY <1>1 DEF StartTurn, AcceptsTurnStart, Append, Extend
  <2>2. QED
    BY <2>1
<1>2. ASSUME NEW t \in Turns, NEW k \in Tools, ToolStarted(c, t, k) \/ ToolCompleted(c, t, k)
      PROVE  Goal
  <2>1. Moves(t) /\ UNCHANGED <<metaVars, compactionVars, checkpointVars>>
    BY <1>2 DEF ToolStarted, ToolCompleted, AcceptsToolStart, AcceptsToolCompletion, OpenTurn,
       Append, Extend
  <2>2. QED
    BY <2>1
<1>3. ASSUME NEW t \in Turns, UpdateTaskState(c, t) PROVE Goal
  <2>1. Moves(t) /\ UNCHANGED <<metaVars, compactionVars, checkpointVars>>
    BY <1>3 DEF UpdateTaskState, OpenTurn, Append, Extend
  <2>2. QED
    BY <2>1
<1>4. ASSUME NEW t \in Turns, NEW terminal \in Terminal, OpenTurn(t), Close(t, terminal)
      PROVE  Goal
  <2>1. Moves(t) /\ UNCHANGED <<metaVars, compactionVars, checkpointVars>>
    BY <1>4 DEF OpenTurn, Close, Extend
  <2>2. QED
    BY <2>1
<1>5. ASSUME NEW t \in Turns,
             \/ CommitTurn(c, t)
             \/ \E terminal \in {"cancelled", "failed"} :
                  TerminateTurn(c, t, terminal) \/ FinishTurn(c, t, terminal)
      PROVE  Goal
  <2>1. PICK terminal \in Terminal : OpenTurn(t) /\ Close(t, terminal)
    BY <1>5 DEF CommitTurn, TerminateTurn, FinishTurn, AcceptsCommit, Append, Terminal
  <2>2. QED
    BY <2>1, <1>4
<1>6. ASSUME RecoverInterruptedTurn(c) PROVE Goal
  <2>1. active \in Turns /\ OpenTurn(active)
    BY <1>6 DEF TurnInv, ActiveTurnIsTheOpenTurn, RecoverInterruptedTurn, OpenTurn
  <2>2. Close(active, "failed")
    BY <1>6, <2>1 DEF RecoverInterruptedTurn, Append
  <2>3. QED
    BY <2>1, <2>2, <1>4 DEF Terminal
<1>7. ASSUME NEW k \in Calls, RecordTurnUsage(c, k) PROVE Goal
  <2>1. PICK t \in Turns : RecordUsage(c, k, [operation |-> "agent", turn |-> t, op |-> None])
    BY <1>7 DEF RecordTurnUsage
  <2>2. CASE UNCHANGED projection
    BY <2>2 DEF projection, Unmoved, lifecycleVars
  <2>3. CASE ~UNCHANGED projection
    <3>1. OpenTurn(t) /\ Extend(t)
          /\ UNCHANGED <<status, active, tools, owner, metaVars, compactionVars, checkpointVars>>
      BY <2>1, <2>3 DEF RecordUsage, Append, AcceptsUsage, ChargeIsPending
    <3>2. Moves(t)
      BY <3>1 DEF OpenTurn, Extend
    <3>3. QED
      BY <3>1, <3>2
  <2>4. QED
    BY <2>2, <2>3
<1>8. QED
  BY <1>1, <1>2, <1>3, <1>5, <1>6, <1>7 DEF TurnStep

LEMMA MetaStepEffect ==
  ASSUME NEW c \in Clients, MetaStep(c)
  PROVE  Unmoved /\ UNCHANGED <<compactionVars, checkpointVars>> /\ (Idle \/ UNCHANGED metaVars)
  BY DEF MetaStep, SetThreadTitle, SetThreadArchived, SetThreadModelBinding, Append, Unmoved,
         projection, lifecycleVars

\* The pause a compaction step leaves when it ends a manual operation without
\* a checkpoint.
LEMMA CompactionStepEffect ==
  ASSUME Inv, NEW c \in Clients, CompactionStep(c)
  PROVE  /\ Unmoved /\ UNCHANGED metaVars
         /\ pending # None /\ ~pending.automatic /\ pending' = None /\ current' = current
              => paused' = paused
<1> DEFINE Goal == /\ Unmoved /\ UNCHANGED metaVars
                   /\ pending # None /\ ~pending.automatic /\ pending' = None /\ current' = current
                        => paused' = paused
<1>1. ASSUME NEW op \in Operations, NEW automatic \in BOOLEAN, StartCompaction(c, op, automatic)
      PROVE  Goal
  BY <1>1 DEF StartCompaction, AcceptsCompactionStart, Append, Unmoved, lifecycleVars
<1>2. ASSUME FailureStep(c) PROVE Goal
  <2>1. PICK op, automatic, outcome, read : FailureArguments(c, op, automatic, outcome, read)
    BY <1>2, FailureCalls
  <2>2. Unmoved /\ UNCHANGED metaVars /\ paused' = NextPause(automatic, outcome, read)
    BY <2>1 DEF FailureArguments, CompactionFailed, Append, Unmoved, lifecycleVars
  <2>3. ~automatic => (read = paused /\ paused' = (~automatic /\ read))
    BY <2>1, <2>2 DEF FailureArguments, NextPause
  <2>4. ~automatic => paused' = paused
    BY <2>3 DEF Inv, LedgerTypes
  <2>5. pending # None /\ ~pending.automatic => ~automatic
    <3>1. pending # None => pending = [op |-> op, automatic |-> automatic]
      BY <2>1 DEF FailureArguments, AcceptsCompactionFailure
    <3>2. QED
      BY <3>1
  <2>6. QED
    BY <2>2, <2>4, <2>5
<1>3. ASSUME NEW op \in Operations, NEW automatic \in BOOLEAN, NEW cp \in Checkpoints,
             CommitCheckpoint(c, cp, op, automatic)
      PROVE  Goal
  <2>1. /\ Unmoved /\ UNCHANGED metaVars /\ current' = cp /\ cp \notin Installed
    BY <1>3 DEF CommitCheckpoint, Install, AcceptsCheckpoint, Append, Unmoved, lifecycleVars
  <2>2. current' # current
    BY <2>1, LedgerAssumption DEF LedgerAssumption, Inv, LineageInv, LineageIsWellFounded
  <2>3. QED
    BY <2>1, <2>2
<1>4. ASSUME ResetIncompatibleCheckpoint(c) PROVE Goal
  <2>1. /\ view[c].current # None /\ current = view[c].current /\ current' = None
        /\ Unmoved /\ UNCHANGED metaVars
    BY <1>4 DEF ResetIncompatibleCheckpoint, Append, Unmoved, lifecycleVars
  <2>2. QED
    BY <2>1
<1>5. ASSUME NEW k \in Calls, RecordCompactionUsage(c, k) PROVE Goal
  <2>1. PICK op \in Recorded :
          RecordUsage(c, k, [operation |-> "compaction", turn |-> None, op |-> op])
    BY <1>5 DEF RecordCompactionUsage
  <2>2. CASE UNCHANGED projection
    BY <2>2 DEF projection, Unmoved, lifecycleVars, compactionVars
  <2>3. CASE ~UNCHANGED projection
    <3>1. Extend(None) /\ UNCHANGED <<status, tools, metaVars, compactionVars>>
      BY <2>1, <2>3 DEF RecordUsage, Append, AcceptsUsage, ChargeIsPending
    <3>2. extent' = extent
      BY <3>1, LedgerAssumption DEF LedgerAssumption, Extend, Inv, LedgerTypes
    <3>3. QED
      BY <3>1, <3>2 DEF Unmoved, compactionVars
  <2>4. QED
    BY <2>2, <2>3
<1>6. QED
  BY <1>1, <1>2, <1>3, <1>4, <1>5 DEF CompactionStep, FailureStep

\* Whatever the interleaving, an ended turn never gains an event.
THEOREM EndedTurnsStayFrozen == Spec => EndedTurnsAreFrozen
<1> DEFINE Frozen == \A t \in Turns : status[t] \in Terminal =>
                       status'[t] = status[t] /\ extent'[t] = extent[t] /\ tools'[t] = tools[t]
<1>1. Inv /\ [Next]_vars => [Frozen]_vars
  <2> SUFFICES ASSUME Inv, Next PROVE Frozen
    OBVIOUS
  <2>1. CASE Unmoved
    BY <2>1 DEF Unmoved
  <2>2. ASSUME NEW c \in Clients, Observe(c) PROVE Unmoved
    BY <2>2 DEF Observe, projection, lifecycleVars, Unmoved
  <2>3. ASSUME NEW c \in Clients, TurnStep(c) PROVE Frozen
    BY <2>1, <2>3, TurnStepEffect DEF Terminal
  <2>4. QED
    BY <2>1, <2>2, <2>3, MetaStepEffect, CompactionStepEffect DEF Next
<1>2. QED
  BY <1>1, Invariance, PTL DEF Spec, EndedTurnsAreFrozen

\* The thread is neither archived nor rebound while work is in flight.
THEOREM WorkStaysUndisturbed == Spec => WorkIsUndisturbed
<1> DEFINE Undisturbed == ~Idle => archived' = archived /\ model' = model
<1>1. Inv /\ [Next]_vars => [Undisturbed]_vars
  <2> SUFFICES ASSUME Inv, Next PROVE Undisturbed
    OBVIOUS
  <2>1. Idle \/ UNCHANGED metaVars
    BY TurnStepEffect, MetaStepEffect, CompactionStepEffect DEF Next, Observe, projection
  <2>2. QED
    BY <2>1 DEF metaVars
<1>2. QED
  BY <1>1, Invariance, PTL DEF Spec, WorkIsUndisturbed

\* A failed or recovered manual compaction leaves the pause as it was.
THEOREM ManualFailureIsNeutral == Spec => ManualFailureKeepsPause
<1> DEFINE Neutral == pending # None /\ ~pending.automatic /\ pending' = None /\ current' = current
                        => paused' = paused
<1>1. Inv /\ [Next]_vars => [Neutral]_vars
  <2> SUFFICES ASSUME Inv, Next PROVE Neutral
    OBVIOUS
  <2>1. ASSUME UNCHANGED compactionVars PROVE Neutral
    BY <2>1 DEF compactionVars
  <2>2. ASSUME NEW c \in Clients, CompactionStep(c) PROVE Neutral
    BY <2>2, CompactionStepEffect
  <2>3. ASSUME NEW c \in Clients, Observe(c) \/ TurnStep(c) \/ MetaStep(c)
        PROVE  UNCHANGED compactionVars
    BY <2>3, TurnStepEffect, MetaStepEffect DEF Observe, projection
  <2>4. QED
    BY <2>1, <2>2, <2>3 DEF Next
<1>2. QED
  BY <1>1, Invariance, PTL DEF Spec, ManualFailureKeepsPause

\* Recovery fails the turn its caller saw: the compared revision makes the
\* snapshot the present state, so that no newer turn can be the active one.
THEOREM RecoveryIsExact == Spec => RecoverySparesNewerTurns
<1> DEFINE Exact == \A c \in Clients :
                      RecoverInterruptedTurn(c) => status'[view[c].active] = "failed"
<1>1. Inv /\ [Next]_vars => [Exact]_vars
  <2> SUFFICES ASSUME Inv, NEW c \in Clients, RecoverInterruptedTurn(c)
               PROVE  status'[view[c].active] = "failed"
    OBVIOUS
  <2>1. view[c].active = active
    BY DEF RecoverInterruptedTurn, Expected, Inv, ViewsAreFaithful, Snapshot
  <2>2. OpenTurn(active)
    BY DEF RecoverInterruptedTurn, Inv, LedgerTypes, TurnInv, ActiveTurnIsTheOpenTurn, OpenTurn
  <2>3. status' = [status EXCEPT ![active] = "failed"]
    BY <2>2 DEF RecoverInterruptedTurn, Append, Close
  <2>4. QED
    BY <2>1, <2>2, <2>3 DEF Inv, LedgerTypes, OpenTurn
<1>2. QED
  BY <1>1, Invariance, PTL DEF Spec, RecoverySparesNewerTurns

\* A call is recorded once, and with the operation that is pending.
LEMMA RecordUsageEffect ==
  ASSUME Inv, NEW c \in Clients, NEW k \in Calls, NEW u \in UsageRecs, RecordUsage(c, k, u)
  PROVE  \/ usage' = usage
         \/ usage[k] = None /\ usage' = [usage EXCEPT ![k] = u] /\ ChargeIsPending(u)
<1>1. CASE UNCHANGED projection
  BY <1>1 DEF projection
<1>2. CASE ~UNCHANGED projection
  BY <1>2 DEF RecordUsage, Append, AcceptsUsage, ChargeIsPending
<1>3. QED
  BY <1>1, <1>2

\* Retries, late calls and other processes never change a recorded charge.
THEOREM ChargesStayFinal == Spec => ChargesAreFinal
<1> DEFINE Final == \A k \in Calls : usage'[k] # usage[k] =>
                      /\ usage[k] = None
                      /\ usage'[k].op # None => pending # None /\ pending.op = usage'[k].op
<1>1. Inv /\ [Next]_vars => [Final]_vars
  <2> SUFFICES ASSUME Inv, Next PROVE Final
    OBVIOUS
  <2>1. ASSUME usage' = usage PROVE Final
    BY <2>1
  <2>2. ASSUME NEW c \in Clients, NEW k \in Calls,
               RecordTurnUsage(c, k) \/ RecordCompactionUsage(c, k)
        PROVE  Final
    <3>1. PICK u \in UsageRecs : RecordUsage(c, k, u)
      BY <2>2 DEF RecordTurnUsage, RecordCompactionUsage, UsageRecs, Recorded
    <3>2. CASE usage[k] = None /\ usage' = [usage EXCEPT ![k] = u] /\ ChargeIsPending(u)
      BY <3>2 DEF Inv, LedgerTypes, ChargeIsPending
    <3>3. QED
      BY <3>1, <3>2, <2>1, RecordUsageEffect
  <2>3. ASSUME NEW c \in Clients, Observe(c) \/ MetaStep(c) PROVE usage' = usage
    BY <2>3 DEF Observe, MetaStep, SetThreadTitle, SetThreadArchived, SetThreadModelBinding,
       Append, projection
  <2>4. ASSUME NEW c \in Clients, TurnStep(c),
               ~\E k \in Calls : RecordTurnUsage(c, k)
        PROVE  usage' = usage
    BY <2>4 DEF TurnStep, StartTurn, ToolStarted, ToolCompleted, UpdateTaskState, CommitTurn,
       TerminateTurn, FinishTurn, RecoverInterruptedTurn, Append, Close, projection
  <2>5. ASSUME NEW c \in Clients, CompactionStep(c),
               ~\E k \in Calls : RecordCompactionUsage(c, k)
        PROVE  usage' = usage
    <3>1. ASSUME NEW op \in Operations, NEW automatic \in BOOLEAN,
                 StartCompaction(c, op, automatic)
          PROVE  usage' = usage
      BY <3>1 DEF StartCompaction, Append, projection
    <3>2. \A op, automatic, outcome, keeps :
            CompactionFailed(c, op, automatic, outcome, keeps) => usage' = usage
      BY DEF CompactionFailed, Append, projection
    <3>3. ASSUME NEW op \in Operations, NEW automatic \in BOOLEAN, NEW outcome \in Outcomes,
                 \/ RecordCompactionFailure(c, op, automatic, outcome)
                 \/ FinishCompaction(c, op, automatic, outcome)
          PROVE  usage' = usage
      BY <3>2, <3>3 DEF RecordCompactionFailure, FinishCompaction
    <3>4. ASSUME NEW cp \in Checkpoints, NEW op \in Operations, NEW automatic \in BOOLEAN,
                 CommitCheckpoint(c, cp, op, automatic)
          PROVE  usage' = usage
      BY <3>4 DEF CommitCheckpoint, Append, projection
    <3>5. ASSUME NEW op \in Operations, RecordPreflightFailure(c, op) PROVE usage' = usage
      BY <3>2, <3>5 DEF RecordPreflightFailure, Append, projection
    <3>6. ASSUME RecoverInterruptedCompaction(c) \/ ResetIncompatibleCheckpoint(c)
          PROVE  usage' = usage
      BY <3>2, <3>6 DEF RecoverInterruptedCompaction, ResetIncompatibleCheckpoint, Append, projection
    <3> QED
      BY <2>5, <3>1, <3>3, <3>4, <3>5, <3>6 DEF CompactionStep
  <2>6. QED
    BY <2>1, <2>2, <2>3, <2>4, <2>5 DEF Next
<1>2. QED
  BY <1>1, Invariance, PTL DEF Spec, ChargesAreFinal
=============================================================================
