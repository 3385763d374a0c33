---------------------------- MODULE ThreadLedger ----------------------------
(***************************************************************************)
(* The durable thread ledger of internal/store: one JSONL journal, the     *)
(* state that replaying it yields, and the mutations ThreadStore offers to *)
(* the processes that share it.                                            *)
(*                                                                         *)
(* Every mutation runs under the thread lock: it replays the journal,      *)
(* checks its own preconditions, appends one event and fsyncs it, and only *)
(* then applies the event to the state it returns (appendLocked).  A       *)
(* mutation is therefore one action here.  What the lock, the file and a   *)
(* crash can do to that atomicity is the subject of module JournalFile.    *)
(*                                                                         *)
(* The event is durable before anything checks that it can be replayed, so *)
(* each event kind below has two readings: the preconditions its mutation  *)
(* checks, and the conditions replay demands ("Accepts...", translated     *)
(* from lifecycleTracker.apply and applyThreadEvent).  An appended event   *)
(* that replay rejects leaves a journal no process can load: corrupt.      *)
(*                                                                         *)
(* A client is a process with the thread open.  It acts on the snapshot it *)
(* last read (view): its expected revision, and the arguments it passes.   *)
(*                                                                         *)
(* A definition marked "Fault" is a plausible bug in the definition that   *)
(* follows it.  The specification uses none of them; each property below   *)
(* is violated when one of them takes its original's place.                *)
(***************************************************************************)
EXTENDS Naturals, FiniteSets

CONSTANTS Clients,             \* processes that have the thread open
          Turns,               \* turn ids
          Tools,               \* tool call ids, local to a turn
          Operations,          \* compaction operation ids
          Checkpoints,         \* checkpoint ids
          Calls,               \* model call ids, the keys of usage records
          Models,              \* model bindings a thread can select
          None,                \* the absent id, Go's "" or nil
          MaxLowGainAttempts,  \* consecutive low-gain attempts before a pause
          MaxRevision          \* bound on the journal length

ASSUME LedgerAssumption ==
  /\ None \notin Clients \cup Turns \cup Operations \cup Checkpoints
  /\ None \notin [op : Operations, automatic : BOOLEAN]
  /\ None \notin [parent : Checkpoints \cup {None}, sequence : Nat]
  /\ MaxLowGainAttempts \in Nat \ {0}
  /\ MaxRevision \in Nat
  /\ Models # {}

VARIABLES
  revision,    \* sequence number of the last event, the state's revision
  corrupt,     \* an appended event is rejected by replay
  status,      \* lifecycleTurn: absent, open, or the terminal event
  active,      \* lifecycleTracker.activeTurnID
  tools,       \* lifecycleTurn.tools: absent, started or completed
  owner,       \* the client whose session started the turn
  extent,      \* number of events that carry the turn's id
  archived,    \* Meta.ArchivedAt # nil
  model,       \* Meta.Model and Meta.ReasoningEffort
  pending,     \* PendingCompaction
  operations,  \* recorded compaction operation ids, each with its client
  paused,      \* AutoCompactionPaused
  streak,      \* LowGainStreak
  current,     \* ActiveCheckpointID
  lineage,     \* installed checkpoints: parent and sequence
  usage,       \* recordedUsage
  view         \* the snapshot each client last read

lifecycleVars  == <<status, active, tools, owner, extent>>
metaVars       == <<archived, model>>
compactionVars == <<pending, operations, paused, streak>>
checkpointVars == <<current, lineage>>
projection     == <<lifecycleVars, metaVars, compactionVars, checkpointVars, usage>>
vars           == <<revision, corrupt, projection, view>>

-----------------------------------------------------------------------------
(* Values.                                                                 *)

Terminal   == {"committed", "cancelled", "failed"}
Statuses   == {"absent", "open"} \cup Terminal
ToolStates == {"absent", "started", "completed"}
Pendings   == [op : Operations, automatic : BOOLEAN] \cup {None}
UsageRecs  == [operation : {"agent", "compaction"},
               turn : Turns \cup {None}, op : Operations \cup {None}]
Entries    == [parent : Checkpoints \cup {None}, sequence : Nat]
Views      == [revision : Nat, active : Turns \cup {None}, pending : Pendings,
               current : Checkpoints \cup {None}, paused : BOOLEAN]

\* The part of ThreadState a client keeps from a read or from its own mutation.
Snapshot == [revision |-> revision, active |-> active, pending |-> pending,
             current |-> current, paused |-> paused]

Installed == {cp \in Checkpoints : lineage[cp] # None}
Recorded  == {op \in Operations : operations[op] # None}

-----------------------------------------------------------------------------
(* A created thread: revision 1 is thread.created.                         *)

Init ==
  /\ revision = 1
  /\ corrupt = FALSE
  /\ status = [t \in Turns |-> "absent"]
  /\ active = None
  /\ tools = [t \in Turns |-> [k \in Tools |-> "absent"]]
  /\ owner = [t \in Turns |-> None]
  /\ extent = [t \in Turns |-> 0]
  /\ archived = FALSE
  /\ model \in Models
  /\ pending = None
  /\ operations = [op \in Operations |-> None]
  /\ paused = FALSE
  /\ streak = 0
  /\ current = None
  /\ lineage = [cp \in Checkpoints |-> None]
  /\ usage = [k \in Calls |-> None]
  /\ view = [c \in Clients |-> Snapshot]

-----------------------------------------------------------------------------
(* Appending.                                                              *)

\* checkExpectedRevision, after a load that found a replayable journal.
Expected(c) == ~corrupt /\ view[c].revision = revision

\* appendLocked: the event is durable whether or not replay accepts it; the
\* caller receives the new state only when it does.
Append(c, accepted, effect) ==
  /\ revision < MaxRevision
  /\ revision' = revision + 1
  /\ IF accepted
     THEN /\ effect
          /\ view' = [view EXCEPT ![c] = Snapshot']
          /\ UNCHANGED corrupt
     ELSE /\ corrupt' = TRUE
          /\ UNCHANGED <<projection, view>>

\* LoadThread and the snapshot reads: the client's next expected revision.
Observe(c) ==
  /\ ~corrupt
  /\ view' = [view EXCEPT ![c] = Snapshot]
  /\ UNCHANGED <<revision, corrupt, projection>>

\* One more event of turn t; None is an event outside every turn.
Extend(t) == extent' = [u \in Turns |-> IF u = t THEN extent[u] + 1 ELSE extent[u]]

-----------------------------------------------------------------------------
(* Turn lifecycle.                                                         *)

\* Fault: any turn that was started passes for the open one.
StartedTurn(t) == t \in Turns /\ status[t] # "absent"

\* lifecycleTracker.openTurn.
OpenTurn(t) == t \in Turns /\ status[t] = "open" /\ active = t

AcceptsTurnStart(t) == status[t] = "absent" /\ active = None

StartTurn(c, t) ==
  /\ Expected(c)
  /\ ~archived
  /\ AcceptsTurnStart(t)
  /\ Append(c, AcceptsTurnStart(t),
            /\ status' = [status EXCEPT ![t] = "open"]
            /\ active' = t
            /\ owner' = [owner EXCEPT ![t] = c]
            /\ Extend(t)
            /\ UNCHANGED <<tools, metaVars, compactionVars, checkpointVars, usage>>)

AcceptsToolStart(t, k) == OpenTurn(t) /\ tools[t][k] = "absent"

ToolStarted(c, t, k) ==
  /\ Expected(c)
  /\ owner[t] = c
  /\ AcceptsToolStart(t, k)
  /\ Append(c, AcceptsToolStart(t, k),
            /\ tools' = [tools EXCEPT ![t][k] = "started"]
            /\ Extend(t)
            /\ UNCHANGED <<status, active, owner, metaVars, compactionVars,
                           checkpointVars, usage>>)

AcceptsToolCompletion(t, k) == OpenTurn(t) /\ tools[t][k] = "started"

ToolCompleted(c, t, k) ==
  /\ Expected(c)
  /\ owner[t] = c
  /\ AcceptsToolCompletion(t, k)
  /\ Append(c, AcceptsToolCompletion(t, k),
            /\ tools' = [tools EXCEPT ![t][k] = "completed"]
            /\ Extend(t)
            /\ UNCHANGED <<status, active, owner, metaVars, compactionVars,
                           checkpointVars, usage>>)

AcceptsCommit(t) == OpenTurn(t) /\ \A k \in Tools : tools[t][k] # "started"

\* turn.committed, turn.cancelled and turn.failed close the turn in replay.
Close(t, terminal) ==
  /\ status' = [status EXCEPT ![t] = terminal]
  /\ active' = None
  /\ Extend(t)
  /\ UNCHANGED <<tools, owner, metaVars, compactionVars, checkpointVars, usage>>

\* Fault: CommitTurn appends and leaves validation to replay.
CommitUnchecked(c, t) ==
  /\ Expected(c)
  /\ owner[t] = c
  /\ Append(c, AcceptsCommit(t), Close(t, "committed"))

CommitTurn(c, t) ==
  /\ Expected(c)
  /\ owner[t] = c
  /\ AcceptsCommit(t)
  /\ Append(c, AcceptsCommit(t), Close(t, "committed"))

\* CancelTurn and FailTurn compare the expected revision ...
TerminateTurn(c, t, terminal) ==
  /\ Expected(c)
  /\ owner[t] = c
  /\ OpenTurn(t)
  /\ Append(c, OpenTurn(t), Close(t, terminal))

\* ... and FinishTurn, used after a lost comparison, does not.
FinishTurn(c, t, terminal) ==
  /\ ~corrupt
  /\ owner[t] = c
  /\ OpenTurn(t)
  /\ Append(c, OpenTurn(t), Close(t, terminal))

\* Fault: recovery compares no revision.
RecoverWhateverIsOpen(c) ==
  /\ view[c].active # None
  /\ ~corrupt
  /\ active # None
  /\ Append(c, OpenTurn(active), Close(active, "failed"))

\* RecoverInterruptedTurn, called by OpenSession when the snapshot it loaded
\* shows an open turn.  It fails whichever turn is active under the lock.
RecoverInterruptedTurn(c) ==
  /\ view[c].active # None
  /\ Expected(c)
  /\ active # None
  /\ Append(c, OpenTurn(active), Close(active, "failed"))

-----------------------------------------------------------------------------
(* Thread metadata.                                                        *)

Idle == active = None /\ pending = None

\* title.changed and a task.state_updated outside every turn change nothing
\* the ledger's guards read.  They still take a revision.
SetThreadTitle(c) ==
  /\ Expected(c)
  /\ Append(c, TRUE, UNCHANGED projection)

\* A task snapshot bound to the turn whose controller wrote it.
UpdateTaskState(c, t) ==
  /\ Expected(c)
  /\ owner[t] = c
  /\ OpenTurn(t)
  /\ Append(c, OpenTurn(t),
            /\ Extend(t)
            /\ UNCHANGED <<status, active, tools, owner, metaVars,
                           compactionVars, checkpointVars, usage>>)

SetThreadArchived(c, archive) ==
  /\ Expected(c)
  /\ Idle
  /\ archived # archive
  /\ Append(c, TRUE,
            /\ archived' = archive
            /\ UNCHANGED <<model, lifecycleVars, compactionVars, checkpointVars, usage>>)

SetThreadModelBinding(c, m) ==
  /\ Expected(c)
  /\ Idle
  /\ Append(c, TRUE,
            /\ model' = m
            /\ UNCHANGED <<archived, lifecycleVars, compactionVars, checkpointVars, usage>>)

-----------------------------------------------------------------------------
(* Model usage.  RecordUsage compares no revision: a completed provider    *)
(* call must not be lost to an unrelated write, so it is keyed by call id. *)

\* A compaction call is charged to the pending operation.
ChargeIsPending(u) == u.op # None => pending # None /\ pending.op = u.op

AcceptsUsage(k, u) ==
  /\ (u.operation = "compaction" /\ u.turn = None) \/ OpenTurn(u.turn)
  /\ \/ usage[k] = u
     \/ /\ usage[k] = None
        /\ ChargeIsPending(u)

RecordUsage(c, k, u) ==
  /\ ~corrupt
  /\ \/ \* Already recorded: idempotent, the caller gets the current state.
        /\ usage[k] = u
        /\ view' = [view EXCEPT ![c] = Snapshot]
        /\ UNCHANGED <<revision, corrupt, projection>>
     \/ /\ usage[k] = None
        /\ ChargeIsPending(u)
        /\ (u.operation = "compaction" /\ u.turn = None) \/ OpenTurn(u.turn)
        /\ Append(c, AcceptsUsage(k, u),
                  /\ usage' = [usage EXCEPT ![k] = u]
                  /\ Extend(u.turn)
                  /\ UNCHANGED <<status, active, tools, owner, metaVars,
                                 compactionVars, checkpointVars>>)

\* The turn recorder charges its own turn, a compaction its own operation.
RecordTurnUsage(c, k) ==
  \E t \in Turns :
    /\ owner[t] = c
    /\ RecordUsage(c, k, [operation |-> "agent", turn |-> t, op |-> None])

RecordCompactionUsage(c, k) ==
  \E op \in Recorded :
    /\ operations[op] = c
    /\ RecordUsage(c, k, [operation |-> "compaction", turn |-> None, op |-> op])

-----------------------------------------------------------------------------
(* Compaction.                                                             *)

AcceptsCompactionStart(op) == op \notin Recorded /\ pending = None

\* compactLocked starts an automatic operation only from a snapshot that is
\* not paused, at that snapshot's revision.
StartCompaction(c, op, automatic) ==
  /\ automatic => ~view[c].paused
  /\ Expected(c)
  /\ ~archived
  /\ op \notin Recorded
  /\ pending = None
  /\ Append(c, AcceptsCompactionStart(op),
            /\ operations' = [operations EXCEPT ![op] = c]
            /\ pending' = [op |-> op, automatic |-> automatic]
            \* "automatic compaction is in progress"
            /\ paused' = (paused \/ automatic)
            /\ UNCHANGED <<streak, lifecycleVars, metaVars, checkpointVars, usage>>)

\* What a failure does to the pause and the streak: a manual failure writes
\* back the pause its caller read; an automatic one follows
\* applyAutomaticCompactionFailurePolicy.
Outcomes == {"stale", "low_gain", "other"}

NextStreak(automatic, outcome) ==
  CASE ~automatic \/ outcome = "stale" -> streak
    [] automatic /\ outcome = "low_gain" -> streak + 1
    [] OTHER -> 0

\* Fault: the limit is passed before the thread pauses.
PauseTooLate(automatic, outcome, read) ==
  \/ ~automatic /\ read
  \/ automatic /\ outcome = "low_gain" /\ streak + 1 > MaxLowGainAttempts
  \/ automatic /\ outcome = "other"

NextPause(automatic, outcome, read) ==
  \/ ~automatic /\ read
  \/ automatic /\ outcome = "low_gain" /\ streak + 1 >= MaxLowGainAttempts
  \/ automatic /\ outcome = "other"

\* context.compaction_failed: replay closes the matching pending operation,
\* or records the id of an operation that failed before it started.
AcceptsCompactionFailure(op, automatic) ==
  \/ pending = [op |-> op, automatic |-> automatic]
  \/ pending = None /\ op \notin Recorded

CompactionFailed(c, op, automatic, outcome, read) ==
  Append(c, AcceptsCompactionFailure(op, automatic),
         /\ pending' = None
         /\ operations' = IF op \in Recorded THEN operations
                          ELSE [operations EXCEPT ![op] = c]
         /\ streak' = NextStreak(automatic, outcome)
         /\ paused' = NextPause(automatic, outcome, read)
         /\ UNCHANGED <<lifecycleVars, metaVars, checkpointVars, usage>>)

\* RecordCompactionFailure by the compacting client, at its last revision.
RecordCompactionFailure(c, op, automatic, outcome) ==
  /\ operations[op] = c
  /\ Expected(c)
  /\ pending = [op |-> op, automatic |-> automatic]
  /\ CompactionFailed(c, op, automatic, outcome, view[c].paused)

\* The same call before StartCompaction: an automatic attempt that failed
\* while it prepared its source.
RecordPreflightFailure(c, op) ==
  /\ ~view[c].paused /\ view[c].pending = None
  /\ Expected(c)
  /\ pending = None /\ op \notin Recorded
  /\ CompactionFailed(c, op, TRUE, "other", view[c].paused)

\* The same call from OpenSession: a later process cancels the operation its
\* snapshot shows pending.
RecoverInterruptedCompaction(c) ==
  /\ view[c].pending # None
  /\ view[c].active = None
  /\ Expected(c)
  /\ pending = view[c].pending
  /\ CompactionFailed(c, view[c].pending.op, view[c].pending.automatic, "other",
                      view[c].paused)

\* FinishCompaction, after RecordCompactionFailure lost its comparison: bound
\* to the operation, not to a revision.  read is the pause the failure was
\* built from, before the conflict.
FinishCompaction(c, op, automatic, outcome) ==
  /\ ~corrupt
  /\ operations[op] = c
  /\ view[c].revision # revision
  /\ pending = [op |-> op, automatic |-> automatic]
  /\ CompactionFailed(c, op, automatic, outcome, view[c].paused)

AcceptsCheckpoint(cp, op, automatic) ==
  /\ pending = [op |-> op, automatic |-> automatic]
  /\ cp \notin Installed

\* Fault: the checkpoint's parent is the checkpoint itself.
InstallOnItself(cp, parent) ==
  /\ lineage' = [lineage EXCEPT ![cp] = [parent |-> cp, sequence |-> revision + 1]]
  /\ current' = cp

\* The committed checkpoint extends the active one and replaces it.
Install(cp, parent) ==
  /\ lineage' = [lineage EXCEPT ![cp] = [parent |-> parent, sequence |-> revision + 1]]
  /\ current' = cp

CommitCheckpoint(c, cp, op, automatic) ==
  /\ operations[op] = c
  /\ Expected(c)
  /\ view[c].current = current
  /\ pending = [op |-> op, automatic |-> automatic]
  /\ view[c].current # None => view[c].current \in Installed
  /\ cp \notin Installed
  /\ Append(c, AcceptsCheckpoint(cp, op, automatic),
            /\ Install(cp, view[c].current)
            /\ pending' = None
            /\ streak' = 0
            /\ paused' = FALSE
            /\ UNCHANGED <<operations, lifecycleVars, metaVars, usage>>)

\* OpenSession drops the active pointer of a version 1 checkpoint.  It has
\* recovered or refused a pending operation in the same snapshot by then.
ResetIncompatibleCheckpoint(c) ==
  /\ view[c].current # None
  /\ view[c].active = None /\ view[c].pending = None
  /\ Expected(c)
  /\ current = view[c].current
  /\ Append(c, view[c].current = current,
            /\ current' = None
            /\ streak' = 0
            /\ paused' = FALSE
            /\ UNCHANGED <<lineage, pending, operations, lifecycleVars, metaVars, usage>>)

-----------------------------------------------------------------------------
TurnStep(c) ==
  \/ \E t \in Turns :
       \/ StartTurn(c, t)
       \/ \E k \in Tools : ToolStarted(c, t, k) \/ ToolCompleted(c, t, k)
       \/ UpdateTaskState(c, t)
       \/ CommitTurn(c, t)
       \/ \E terminal \in {"cancelled", "failed"} :
            TerminateTurn(c, t, terminal) \/ FinishTurn(c, t, terminal)
  \/ RecoverInterruptedTurn(c)
  \/ \E k \in Calls : RecordTurnUsage(c, k)

MetaStep(c) ==
  \/ SetThreadTitle(c)
  \/ \E archive \in BOOLEAN : SetThreadArchived(c, archive)
  \/ \E m \in Models : SetThreadModelBinding(c, m)

CompactionStep(c) ==
  \/ \E op \in Operations, automatic \in BOOLEAN :
       \/ StartCompaction(c, op, automatic)
       \/ \E outcome \in Outcomes :
            \/ RecordCompactionFailure(c, op, automatic, outcome)
            \/ FinishCompaction(c, op, automatic, outcome)
       \/ \E cp \in Checkpoints : CommitCheckpoint(c, cp, op, automatic)
  \/ \E op \in Operations : RecordPreflightFailure(c, op)
  \/ RecoverInterruptedCompaction(c)
  \/ ResetIncompatibleCheckpoint(c)
  \/ \E k \in Calls : RecordCompactionUsage(c, k)

Next == \E c \in Clients : Observe(c) \/ TurnStep(c) \/ MetaStep(c) \/ CompactionStep(c)

Spec == Init /\ [][Next]_vars

-----------------------------------------------------------------------------
(* Properties.                                                             *)

\* Every variable keeps the shape the Go types give it.
TypeOK ==
  /\ revision \in Nat
  /\ corrupt \in BOOLEAN
  /\ status \in [Turns -> Statuses]
  /\ active \in Turns \cup {None}
  /\ tools \in [Turns -> [Tools -> ToolStates]]
  /\ owner \in [Turns -> Clients \cup {None}]
  /\ extent \in [Turns -> Nat]
  /\ archived \in BOOLEAN
  /\ model \in Models
  /\ pending \in Pendings
  /\ operations \in [Operations -> Clients \cup {None}]
  /\ paused \in BOOLEAN
  /\ streak \in Nat
  /\ current \in Checkpoints \cup {None}
  /\ lineage \in [Checkpoints -> Entries \cup {None}]
  /\ usage \in [Calls -> UsageRecs \cup {None}]
  /\ view \in [Clients -> Views]

\* No sequence of mutations, by any number of processes, makes an event
\* durable that replay then rejects: the thread can always be loaded again.
\* appendLocked fsyncs first (thread.go:1005) and validates after.
JournalReplays == ~corrupt

\* The tracker's two records of the open turn agree: a turn is open exactly
\* when it is the active one.  RecoverInterruptedTurn appends for activeTurnID
\* without asking whether that turn is open.
ActiveTurnIsTheOpenTurn == \A t \in Turns : status[t] = "open" <=> active = t

\* An archived thread is at rest: no turn and no compaction is in flight, in
\* whatever order archive, start and recovery reach the lock.
ArchivedIsIdle == archived => Idle

\* A committed turn has no tool call without a result: the prompt built from
\* it carries no dangling tool_calls (session.go:2663).
CommittedTurnsAreComplete ==
  \A t \in Turns : status[t] = "committed" => \A k \in Tools : tools[t][k] # "started"

\* While an automatic compaction is unfinished the thread stays paused, so no
\* other process retries the charged operation (thread_journal.go:425).
PendingAutomaticIsPaused == pending # None /\ pending.automatic => paused

\* Automatic compaction cannot thrash: the streak never passes the limit, and
\* at the limit the thread is paused, whoever recorded the failures.
AntiThrash == streak <= MaxLowGainAttempts /\ (streak = MaxLowGainAttempts => paused)

\* Walking parents from the active checkpoint meets only installed, strictly
\* older checkpoints: the cycle and missing-parent errors of
\* LoadCheckpointLineage are unreachable.
LineageIsWellFounded ==
  /\ current # None => current \in Installed
  /\ \A cp \in Installed :
       lineage[cp].parent # None =>
         /\ lineage[cp].parent \in Installed
         /\ lineage[lineage[cp].parent].sequence < lineage[cp].sequence

\* Once a turn has ended, no event carries its id again.  Checkpoints name the
\* source events of whole turn groups and reject a group that grew later
\* (validateCheckpointColdSource), which would make the thread unopenable.
EndedTurnsAreFrozen ==
  [][\A t \in Turns : status[t] \in Terminal =>
       status'[t] = status[t] /\ extent'[t] = extent[t] /\ tools'[t] = tools[t]]_vars

\* Recovery fails the turn the recovering process saw, never a newer one that
\* started after its snapshot (the contract at thread.go:705).
RecoverySparesNewerTurns ==
  [][\A c \in Clients : RecoverInterruptedTurn(c) => status'[view[c].active] = "failed"]_vars

\* Work in flight is not disturbed: between the start of a turn or compaction
\* and its end the thread is neither archived nor bound to another model.
WorkIsUndisturbed ==
  [][~Idle => archived' = archived /\ model' = model]_vars

\* A manual compaction that fails, or is recovered by a later process, leaves
\* the automatic pause exactly as it was when the operation started.
ManualFailureKeepsPause ==
  [][pending # None /\ ~pending.automatic /\ pending' = None /\ current' = current
       => paused' = paused]_vars

\* A charged call keeps its record, and a compaction call is charged only to
\* the operation that is pending: totals reported with an outcome are final.
ChargesAreFinal ==
  [][\A k \in Calls : usage'[k] # usage[k] =>
       /\ usage[k] = None
       /\ usage'[k].op # None => pending # None /\ pending.op = usage'[k].op]_vars
=============================================================================
