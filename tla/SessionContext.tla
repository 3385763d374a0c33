--------------------------- MODULE SessionContext ---------------------------
(***************************************************************************)
(* chat.Session over the thread ledger: what a session keeps in memory     *)
(* between its calls to the store (a revision to compare, the checkpoint   *)
(* its prompts start from), the turn recorder, the compaction transaction, *)
(* the interactive interruption that writes beside a turn, and resume.     *)
(*                                                                         *)
(* A session runs one operation at a time (opMu).  Every call it makes to  *)
(* the store is one step on the shared log; the state the call returns is  *)
(* applied to the session in a later step (applyThreadState), so that the  *)
(* other goroutine of the same session, and other processes, come between. *)
(*                                                                         *)
(* The log is the journal of one thread after thread.created, and what the *)
(* store would answer is computed from it.  A checkpoint is known by the   *)
(* sequence of its event.  Tool and task events of a turn are one kind;    *)
(* texts, token budgets and hashes are left out, so the number of groups   *)
(* an automatic compaction covers is a choice.  A definition marked        *)
(* "Fault" is a plausible bug in the one after it and used by no action.   *)
(***************************************************************************)
EXTENDS Naturals, Sequences, FiniteSets

CONSTANTS Sessions,       \* processes that may open the thread
          Turns,          \* turn ids
          None,
          KeepRecent,     \* recent groups an automatic compaction retains
          MaxEvents,      \* length of the log after which nothing new starts
          Earlier,        \* what the thread may hold in the beginning
          MaxFailures     \* bound on process ends and on appends that report
                          \* an error, together

VARIABLES
  log,         \* the journal: events in order
  pc,          \* where each session's operation is
  rev,         \* Session.revision
  checkpoint,  \* Session.checkpoint, 0 is nil
  turn,        \* the turn its operation works on
  recorder,    \* threadTurnRecorder.revision
  retry,       \* the mutation mutateLocked repeats after one conflict
  broken,      \* threadTurnRecorder.failure # nil
  prompt,      \* the context the running turn was given
  candidate,   \* the compaction transaction
  returned,    \* revision of a state the operation has not applied yet, or 0
  plan,        \* TaskController run: none, active or interrupted
  noted,       \* the same for the interrupting goroutine, which holds its lock
  failures,    \* how many of those there were
  orphaned     \* open turns no operation works on any more: their process ended,
               \* or the append of their start or of their end reported an error

memory   == <<rev, checkpoint, plan>>
running  == <<turn, recorder, retry, broken, prompt>>
faults   == <<failures, orphaned>>
vars == <<log, pc, memory, running, candidate, returned, noted, faults>>

-----------------------------------------------------------------------------
(* Events, and what the store computes from them.                          *)

Event(kind, t) == [kind |-> kind, turn |-> t, op |-> 0, sources |-> {}, tail |-> 0]
Charge(op)     == [Event("charge", None) EXCEPT !.op = op]
Abandoned(op)  == [Event("abandoned", None) EXCEPT !.op = op]
Compacted(op, sources, tail) ==
  [Event("compacted", None) EXCEPT !.op = op, !.sources = sources, !.tail = tail]

CoveredIn(l, cp) == UNION {l[i].sources : i \in {j \in 1 .. cp : l[j].kind = "compacted"}}

Revision == Len(log)
Has(kind, t) == \E i \in DOMAIN log : log[i].kind = kind /\ log[i].turn = t
Least(S) == CHOOSE n \in S : \A m \in S : n <= m
Greatest(S) == CHOOSE n \in S : \A m \in S : n >= m
StartOf(t) == Least({i \in DOMAIN log : log[i].turn = t})

Ended(t)  == Has("committed", t) \/ Has("failed", t)
OpenTurn  == {t \in Turns : Has("started", t) /\ ~Ended(t)}
Committed == {t \in Turns : Has("committed", t)}

\* PendingCompaction: the sequence of the operation's start, or 0.
Pending ==
  LET edges == {i \in DOMAIN log : log[i].kind \in {"compacting", "compacted", "abandoned"}}
  IN  IF edges # {} /\ log[Greatest(edges)].kind = "compacting" THEN Greatest(edges) ELSE 0

\* ActiveCheckpointID, and what the lineage up to a checkpoint covers.  A
\* commit names the active checkpoint as its parent, so the lineage is every
\* checkpoint up to it.
ActiveCheckpoint ==
  Greatest({0} \cup {i \in DOMAIN log : log[i].kind = "compacted"})
Covered(cp) == CoveredIn(log, cp)

\* Fault: the tail begins at the checkpoint's event, whatever it retained.
TailAtCheckpoint == IF ActiveCheckpoint = 0 THEN 1 ELSE ActiveCheckpoint

\* resumeTailEvents: a resume or prompt snapshot reads the log from here.
TailStart ==
  IF ActiveCheckpoint = 0 THEN 1
  ELSE IF log[ActiveCheckpoint].tail = 0 THEN ActiveCheckpoint + 1
  ELSE log[ActiveCheckpoint].tail

\* Groups of that snapshot have their turn.started in it.
InTail(t) == StartOf(t) >= TailStart
TailGroups == {t \in Committed : InTail(t)}
VisibleTurn == {t \in OpenTurn : InTail(t)}

\* What starts or extends work needs room; what ends it does not.
HasRoom == Revision < MaxEvents
Write(e) == log' = Append(log, e)

-----------------------------------------------------------------------------
(* What a thread may hold in the beginning: what sessions have written.    *)

Kinds == {"started", "tool", "planned", "usage", "committed", "failed", "interrupted",
          "compacting", "charge", "abandoned", "compacted"}
LogEvent == [kind : Kinds, turn : Turns \cup {None}, op : Nat, sources : SUBSET Turns,
             tail : Nat]

Closes(e, t) == e.kind \in {"committed", "failed"} /\ e.turn = t
Starts(e, t) == e.kind = "started" /\ e.turn = t

\* A turn begins with its start, which comes after the end of the one before.
TurnsInOrder(l) ==
  /\ \A i \in DOMAIN l : l[i].kind = "started" =>
       /\ \A j \in DOMAIN l : l[j].turn = l[i].turn => i <= j
       /\ \A j \in DOMAIN l : i < j /\ l[j].kind = "started" =>
            \E n \in i + 1 .. j - 1 : Closes(l[n], l[i].turn)
  /\ \A j \in DOMAIN l : l[j].turn # None => \E i \in 1 .. j : Starts(l[i], l[j].turn)
  /\ \A i \in DOMAIN l : l[i].kind \in {"started", "committed", "failed"} =>
       l[i] = Event(l[i].kind, l[i].turn) /\ l[i].turn # None
  /\ \A i, j \in DOMAIN l :
       l[i].kind = "committed" /\ l[j].kind = "failed" => l[i].turn # l[j].turn

StartsBefore(l, t, u) ==
  \A k, m \in DOMAIN l : Starts(l[k], t) /\ Starts(l[m], u) => k < m

\* A checkpoint ends an operation that nobody disturbed, and covers committed
\* turns older than those it leaves.
CheckpointsInOrder(l) ==
  \A i \in DOMAIN l : l[i].kind = "compacted" =>
    /\ l[i].op \in 1 .. i - 1 /\ l[l[i].op].kind = "compacting" /\ l[i].tail <= i
    /\ \A j \in l[i].op + 1 .. i - 1 : l[j] = Charge(l[i].op)
    /\ l[i].sources \cap CoveredIn(l, i - 1) = {}
    /\ \A t \in l[i].sources :
         /\ \E j \in 1 .. i : l[j] = Event("committed", t)
         /\ \A j \in DOMAIN l : l[j].kind = "committed" /\ l[j].turn \notin CoveredIn(l, i) =>
              StartsBefore(l, t, l[j].turn)

\* What did not fail and is not covered begins in the tail, as long as
\* compactions start between turns.
BetweenTurns(l) ==
  \A i \in DOMAIN l, k \in DOMAIN l : l[i].kind = "compacting" /\ k < i /\ l[k].kind = "started" =>
    \E n \in k .. i : Closes(l[n], l[k].turn)
TailFrom(e, i) == IF e.tail = 0 THEN i + 1 ELSE e.tail
TailsAreWhole(l) ==
  BetweenTurns(l) =>
    \A i, k \in DOMAIN l : l[i].kind = "compacted" /\ l[k].kind = "started" =>
      \/ k >= TailFrom(l[i], i) \/ l[k].turn \in CoveredIn(l, i)
      \/ \E j \in DOMAIN l : l[j].kind = "failed" /\ l[j].turn = l[k].turn

SoundLog(l) ==
  l \in Seq(LogEvent) /\ TurnsInOrder(l) /\ CheckpointsInOrder(l) /\ TailsAreWhole(l)

ASSUME SessionAssumption ==
  /\ None \notin Turns
  /\ {KeepRecent, MaxEvents, MaxFailures} \subseteq Nat
  /\ \A l \in Earlier : SoundLog(l)

-----------------------------------------------------------------------------
Idle == [rev |-> 0, op |-> 0, sources |-> {}, tail |-> 0, stale |-> FALSE]

Init ==
  /\ log \in Earlier
  /\ pc = [s \in Sessions |-> "closed"]
  /\ rev = [s \in Sessions |-> 0]
  /\ checkpoint = [s \in Sessions |-> 0]
  /\ turn = [s \in Sessions |-> None]
  /\ recorder = [s \in Sessions |-> 0]
  /\ retry = [s \in Sessions |-> "none"]
  /\ broken = [s \in Sessions |-> FALSE]
  /\ prompt = [s \in Sessions |-> None]
  /\ candidate = [s \in Sessions |-> Idle]
  /\ returned = [s \in Sessions |-> 0]
  /\ plan = [s \in Sessions |-> "none"]
  /\ noted = [s \in Sessions |-> 0]
  /\ failures = 0
  /\ orphaned = OpenTurn

Goto(s, label) == pc' = [pc EXCEPT ![s] = label]

\* The state a call to the store returns, 0 when there is none to apply.
Return(s, revision) == returned' = [returned EXCEPT ![s] = revision]

-----------------------------------------------------------------------------
(* OpenSession.  It acts on snapshots it has just loaded, at their         *)
(* revision, so a lost comparison is the same as not having tried.         *)

\* resume --recover: the snapshot shows an open turn, and the store fails
\* the turn that is active.
RecoverTurn(s) ==
  /\ pc[s] = "closed"
  /\ VisibleTurn # {}
  /\ \E t \in OpenTurn : Write(Event("failed", t))
  /\ UNCHANGED <<pc, memory, running, candidate, returned, noted, faults>>

RecoverCompaction(s) ==
  /\ pc[s] = "closed"
  /\ VisibleTurn = {}
  /\ Pending # 0
  /\ Write(Abandoned(Pending))
  /\ UNCHANGED <<pc, memory, running, candidate, returned, noted, faults>>

\* The plan snapshot the task controller loads when it is first asked.
SavedPlan ==
  LET updates == {i \in DOMAIN log : log[i].kind \in {"planned", "interrupted"}}
  IN  CASE updates = {} -> "none"
        [] updates # {} /\ log[Greatest(updates)].kind = "planned" -> "active"
        [] OTHER -> "interrupted"

Open(s) ==
  /\ pc[s] = "closed"
  /\ VisibleTurn = {}
  /\ Pending = 0
  /\ rev' = [rev EXCEPT ![s] = Revision]
  /\ checkpoint' = [checkpoint EXCEPT ![s] = ActiveCheckpoint]
  /\ plan' = [plan EXCEPT ![s] = SavedPlan]
  /\ Goto(s, "idle")
  /\ UNCHANGED <<log, running, candidate, returned, noted, faults>>

\* The process ends, between any two steps.
Crash(s) ==
  /\ pc[s] # "closed"
  /\ failures < MaxFailures
  /\ failures' = failures + 1
  /\ orphaned' = orphaned \cup ({turn[s]} \cap OpenTurn)
  /\ Goto(s, "closed")
  /\ turn' = [turn EXCEPT ![s] = None]
  /\ recorder' = [recorder EXCEPT ![s] = 0]
  /\ retry' = [retry EXCEPT ![s] = "none"]
  /\ broken' = [broken EXCEPT ![s] = FALSE]
  /\ prompt' = [prompt EXCEPT ![s] = None]
  /\ rev' = [rev EXCEPT ![s] = 0]
  /\ checkpoint' = [checkpoint EXCEPT ![s] = 0]
  /\ plan' = [plan EXCEPT ![s] = "none"]
  /\ candidate' = [candidate EXCEPT ![s] = Idle]
  /\ returned' = [returned EXCEPT ![s] = 0]
  /\ noted' = [noted EXCEPT ![s] = 0]
  /\ UNCHANGED log

-----------------------------------------------------------------------------
(* applyThreadState: it sets the revision of the session and not its       *)
(* checkpoint, without looking at the revision it replaces.                *)

Apply(s) ==
  /\ returned[s] # 0
  /\ rev' = [rev EXCEPT ![s] = returned[s]]
  /\ Return(s, 0)
  /\ pc' = [pc EXCEPT ![s] = CASE @ = "starting" -> "started"
                               [] @ = "ending"   -> "idle"
                               [] OTHER          -> @]
  /\ UNCHANGED <<log, checkpoint, plan, running, candidate, noted, faults>>

(* The interruption of a plan, by the user interface's goroutine while an  *)
(* operation runs.  persistTaskState loads the thread and compares with    *)
(* that revision, three times; the controller's lock is held until the     *)
(* state is applied.                                                       *)

Interrupt(s) ==
  /\ pc[s] # "closed"
  /\ plan[s] = "active" /\ noted[s] = 0 /\ retry[s] # "planned"
  /\ plan' = [plan EXCEPT ![s] = "interrupted"]
  /\ \/ /\ HasRoom
        /\ Write(Event("interrupted", None))
        /\ noted' = [noted EXCEPT ![s] = Revision']
     \/ \* "persist deferred": three lost comparisons
        UNCHANGED <<log, noted>>
  /\ UNCHANGED <<pc, rev, checkpoint, running, candidate, returned, faults>>

ApplyInterrupt(s) ==
  /\ noted[s] # 0
  /\ rev' = [rev EXCEPT ![s] = noted[s]]
  /\ noted' = [noted EXCEPT ![s] = 0]
  /\ UNCHANGED <<log, pc, checkpoint, plan, running, candidate, returned, faults>>

-----------------------------------------------------------------------------
(* A turn.  The compaction askThread may make before the turn starts is    *)
(* StartCompaction below, from the same state.                             *)

\* interruptActiveTaskForNewInput.
Supersede(s) ==
  /\ pc[s] = "idle" /\ returned[s] = 0
  /\ plan[s] = "active" /\ noted[s] = 0
  /\ plan' = [plan EXCEPT ![s] = "interrupted"]
  /\ HasRoom
  /\ Write(Event("interrupted", None))
  /\ Return(s, Revision')
  /\ UNCHANGED <<pc, rev, checkpoint, running, candidate, noted, faults>>

\* A fresh id; ids are only compared for equality, so that any will do.
NewLocalID == CHOOSE t \in Turns : ~Has("started", t)

\* A sync error returns before the state is applied or a recorder exists, and
\* leaves the turn open.
StartTurn(s, t) ==
  /\ pc[s] = "idle" /\ returned[s] = 0
  /\ plan[s] # "active"
  /\ rev[s] = Revision
  /\ OpenTurn = {} /\ ~Has("started", t) /\ t = NewLocalID
  /\ HasRoom
  /\ Write(Event("started", t))
  /\ \/ /\ Goto(s, "starting")
        /\ Return(s, Revision')
        /\ turn' = [turn EXCEPT ![s] = t]
        /\ recorder' = [recorder EXCEPT ![s] = Revision']
        /\ broken' = [broken EXCEPT ![s] = FALSE]
        /\ UNCHANGED faults
     \/ /\ failures < MaxFailures
        /\ failures' = failures + 1
        /\ orphaned' = orphaned \cup {t}
        /\ UNCHANGED <<pc, returned, turn, recorder, broken>>
  /\ UNCHANGED <<memory, retry, prompt, candidate, noted>>

\* threadPrompt: the raw groups of the snapshot's tail that the session's own
\* checkpoint does not cover, after that checkpoint.
BuildPrompt(s) ==
  /\ pc[s] = "started"
  /\ prompt' = [prompt EXCEPT ![s] =
       [checkpoint |-> checkpoint[s], groups |-> TailGroups \ Covered(checkpoint[s])]]
  /\ Goto(s, "running")
  /\ UNCHANGED <<log, memory, turn, recorder, retry, broken, candidate, returned, noted, faults>>

(* threadTurnRecorder.mutateLocked: a mutation at the recorder's revision, *)
(* and after a conflict once more at the revision it loads.                *)

Mutations == {"tool", "planned", "committed", "failed"}

\* commit, tool and task mutations stop after a failure; cancel and fail do
\* not.  update_plan waits for the controller's lock.
MayMutate(s, m) ==
  /\ pc[s] \in IF m = "failed" THEN {"started", "running"} ELSE {"running"}
  /\ returned[s] = 0
  /\ retry[s] \in {"none", m}
  /\ broken[s] => m = "failed"
  /\ m = "planned" => noted[s] = 0

IsCurrent(s) == recorder[s] = Revision

Rebase(s, m) ==
  /\ MayMutate(s, m)
  /\ retry[s] = "none" /\ ~IsCurrent(s)
  /\ recorder' = [recorder EXCEPT ![s] = Revision]
  /\ retry' = [retry EXCEPT ![s] = m]
  /\ UNCHANGED <<log, pc, memory, turn, broken, prompt, candidate, returned, noted, faults>>

\* update_plan keeps the new plan in memory even when it cannot be stored.
PlanAfter(s, m) == plan' = IF m = "planned" THEN [plan EXCEPT ![s] = "active"] ELSE plan

RecordEvent(s, m) ==
  /\ m \in {"tool", "planned"}
  /\ MayMutate(s, m)
  /\ IsCurrent(s) /\ turn[s] \in OpenTurn
  /\ retry[s] = m \/ HasRoom
  /\ Write(Event(m, turn[s]))
  /\ recorder' = [recorder EXCEPT ![s] = Revision']
  /\ retry' = [retry EXCEPT ![s] = "none"]
  /\ PlanAfter(s, m)
  /\ UNCHANGED <<pc, rev, checkpoint, turn, broken, prompt, candidate, returned, noted, faults>>

\* recordUsage compares no revision, moves the recorder to the latest, and is
\* applied to the session at once; it fails with the turn.
RecordUsage(s) ==
  /\ pc[s] = "running" /\ returned[s] = 0 /\ retry[s] = "none" /\ ~broken[s]
  /\ \/ /\ turn[s] \in OpenTurn
        /\ HasRoom
        /\ Write(Event("usage", turn[s]))
        /\ recorder' = [recorder EXCEPT ![s] = Revision']
        /\ Return(s, Revision')
        /\ UNCHANGED broken
     \/ /\ turn[s] \notin OpenTurn
        /\ broken' = [broken EXCEPT ![s] = TRUE]
        /\ UNCHANGED <<log, recorder, returned>>
  /\ UNCHANGED <<pc, memory, turn, retry, prompt, candidate, noted, faults>>

\* The recorder and the context are the operation's own.
DropTurn(s) ==
  /\ turn' = [turn EXCEPT ![s] = None]
  /\ recorder' = [recorder EXCEPT ![s] = 0]
  /\ broken' = [broken EXCEPT ![s] = FALSE]
  /\ prompt' = [prompt EXCEPT ![s] = None]

\* Ask applies the last state and returns.
LeaveTurn(s) ==
  /\ Goto(s, "ending")
  /\ Return(s, Revision')
  /\ DropTurn(s)

\* commit, cancel and fail.  An append that reports an error, durable or not,
\* is reconciled as an uncommitted turn.
EndTurn(s, m) ==
  /\ m \in {"committed", "failed"}
  /\ MayMutate(s, m)
  /\ IsCurrent(s) /\ turn[s] \in OpenTurn
  /\ retry' = [retry EXCEPT ![s] = "none"]
  /\ \/ /\ Write(Event(m, turn[s]))
        /\ LeaveTurn(s)
        /\ UNCHANGED failures
     \/ /\ Write(Event(m, turn[s])) \/ UNCHANGED log
        /\ failures < MaxFailures
        /\ failures' = failures + 1
        /\ Goto(s, "reconciling")
        /\ UNCHANGED <<turn, recorder, returned, broken, prompt>>
  /\ UNCHANGED <<memory, candidate, noted, orphaned>>

\* A second conflict, or a turn another process has closed.
Refuse(s, m) ==
  /\ MayMutate(s, m)
  /\ IF IsCurrent(s) THEN turn[s] \notin OpenTurn ELSE retry[s] = m
  /\ retry' = [retry EXCEPT ![s] = "none"]
  /\ IF m \in {"tool", "planned"}
     THEN broken' = [broken EXCEPT ![s] = TRUE] /\ UNCHANGED pc
     ELSE Goto(s, "reconciling") /\ UNCHANGED broken
  /\ PlanAfter(s, m)
  /\ UNCHANGED <<log, rev, checkpoint, turn, recorder, prompt, candidate, returned, noted, faults>>

\* Fault: the turn is closed at the recorder's revision or not at all.
ReconcileByRevision(s) ==
  /\ pc[s] = "reconciling"
  /\ IF turn[s] \in OpenTurn /\ IsCurrent(s) THEN Write(Event("failed", turn[s])) ELSE UNCHANGED log
  /\ LeaveTurn(s)
  /\ UNCHANGED <<memory, retry, candidate, noted, faults>>

\* Fault: a turn that is closed already is an error to wait for.
ReconcileOpenOnly(s) ==
  /\ pc[s] = "reconciling"
  /\ turn[s] \in OpenTurn
  /\ Write(Event("failed", turn[s]))
  /\ LeaveTurn(s)
  /\ UNCHANGED <<memory, retry, candidate, noted, faults>>

\* reconcileUncommittedTurn: FinishTurn closes the turn at any revision; if it
\* is closed already the session loads the thread.  When that append reports
\* an error too, Ask returns both, and no state is applied.
Reconcile(s) ==
  /\ pc[s] = "reconciling"
  /\ \/ /\ IF turn[s] \in OpenTurn THEN Write(Event("failed", turn[s])) ELSE UNCHANGED log
        /\ LeaveTurn(s)
        /\ UNCHANGED faults
     \/ /\ turn[s] \in OpenTurn
        /\ failures < MaxFailures
        /\ failures' = failures + 1
        /\ \/ Write(Event("failed", turn[s])) /\ UNCHANGED orphaned
           \/ UNCHANGED log /\ orphaned' = orphaned \cup {turn[s]}
        /\ Goto(s, "idle")
        /\ DropTurn(s)
        /\ UNCHANGED returned
  /\ UNCHANGED <<memory, retry, candidate, noted>>

-----------------------------------------------------------------------------
(* Compaction.                                                             *)

Uncovered == Committed \ Covered(ActiveCheckpoint)

\* compactionCandidates: a prefix of the uncovered groups that leaves out at
\* most the recent ones.  A manual compaction leaves out none.  A session
\* whose checkpoint is not the active one loads the lineage of the active.
Candidates(s) ==
  {P \in SUBSET Uncovered :
     /\ P # {} /\ Cardinality(Uncovered \ P) <= KeepRecent
     /\ \A p \in P, q \in Uncovered \ P : StartOf(p) < StartOf(q)}

\* compactionTailStartSequence: where the next committed group starts, or 0.
TailAfter(P) ==
  LET later == {t \in Committed : StartOf(t) > Greatest({StartOf(p) : p \in P})}
  IN  IF later = {} THEN 0 ELSE Least({StartOf(t) : t \in later})

\* The state and the groups are loaded, and StartCompaction compares with the
\* loaded revision: nothing came between.  It does not ask for an open turn.
StartCompaction(s) ==
  /\ pc[s] = "idle" /\ returned[s] = 0
  /\ Pending = 0
  /\ HasRoom
  /\ Write(Event("compacting", None))
  /\ \E P \in Candidates(s) :
       candidate' = [candidate EXCEPT ![s] =
         [rev |-> Revision', op |-> Revision', sources |-> P, tail |-> TailAfter(P),
          stale |-> FALSE]]
  /\ Return(s, Revision')
  /\ Goto(s, "compacting")
  /\ UNCHANGED <<memory, running, noted, faults>>

\* A finished provider call is charged to the operation.  A revision that is
\* not the next one makes the candidate stale; an operation that is not
\* pending any more fails it.
ChargeCall(s) ==
  /\ pc[s] = "compacting" /\ returned[s] = 0 /\ ~candidate[s].stale
  /\ \/ /\ Pending = candidate[s].op
        /\ HasRoom
        /\ Write(Charge(Pending))
        /\ candidate' = [candidate EXCEPT ![s].rev = Revision', ![s].stale = @ \/ candidate[s].rev # Revision]
        /\ Return(s, Revision')
        /\ UNCHANGED pc
     \/ /\ Pending # candidate[s].op
        /\ Goto(s, "abandoning")
        /\ UNCHANGED <<log, candidate, returned>>
  /\ UNCHANGED <<memory, running, noted, faults>>

\* Fault: the checkpoint is committed at the latest revision.
InstallAtLatest(s) ==
  /\ pc[s] = "compacting" /\ returned[s] = 0 /\ ~candidate[s].stale
  /\ Pending = candidate[s].op
  /\ Write(Compacted(Pending, candidate[s].sources, candidate[s].tail))
  /\ checkpoint' = [checkpoint EXCEPT ![s] = Revision']
  /\ candidate' = [candidate EXCEPT ![s] = Idle]
  /\ Return(s, Revision')
  /\ Goto(s, "ending")
  /\ UNCHANGED <<rev, plan, running, noted, faults>>

\* CommitCheckpoint at the transaction's revision; the session's own
\* checkpoint follows it only when the call reports success.
InstallCheckpoint(s) ==
  /\ pc[s] = "compacting" /\ returned[s] = 0 /\ ~candidate[s].stale
  /\ candidate[s].rev = Revision /\ Pending = candidate[s].op
  /\ Write(Compacted(Pending, candidate[s].sources, candidate[s].tail))
  /\ \/ /\ checkpoint' = [checkpoint EXCEPT ![s] = Revision']
        /\ candidate' = [candidate EXCEPT ![s] = Idle]
        /\ Return(s, Revision')
        /\ Goto(s, "ending")
        /\ UNCHANGED failures
     \/ /\ failures < MaxFailures
        /\ failures' = failures + 1
        /\ Goto(s, "abandoning")
        /\ UNCHANGED <<checkpoint, candidate, returned>>
  /\ UNCHANGED <<rev, plan, running, noted, orphaned>>

\* persistCompactionFailure: the operation is closed if it is still pending,
\* at the known revision or, after a conflict, at any.
AbandonCompaction(s) ==
  /\ pc[s] \in {"compacting", "abandoning"} /\ returned[s] = 0
  /\ IF Pending = candidate[s].op THEN Write(Abandoned(Pending)) ELSE UNCHANGED log
  /\ Return(s, Revision')
  /\ Goto(s, "ending")
  /\ candidate' = [candidate EXCEPT ![s] = Idle]
  /\ UNCHANGED <<memory, running, noted, faults>>

-----------------------------------------------------------------------------
\* A call that is refused before its first write: OpenSession on a thread
\* with work in flight, Ask on a lost comparison or an open turn, Compact
\* without candidates.
RefusedCall(s) ==
  /\ pc[s] \in {"closed", "idle"}
  /\ UNCHANGED vars

\* An operation that was begun goes on by itself.
Continue(s) ==
  \/ Apply(s) \/ BuildPrompt(s)
  \/ \E m \in Mutations : Rebase(s, m) \/ RecordEvent(s, m) \/ EndTurn(s, m) \/ Refuse(s, m)
  \/ RecordUsage(s) \/ Reconcile(s)
  \/ ChargeCall(s) \/ InstallCheckpoint(s) \/ AbandonCompaction(s)

Step(s) ==
  \/ RecoverTurn(s) \/ RecoverCompaction(s) \/ Open(s) \/ Crash(s)
  \/ Interrupt(s) \/ ApplyInterrupt(s) \/ Supersede(s)
  \/ \E t \in Turns : StartTurn(s, t)
  \/ StartCompaction(s)
  \/ Continue(s)
  \/ RefusedCall(s)

Next == \E s \in Sessions : Step(s)

Spec == Init /\ [][Next]_vars

\* A goroutine inside an operation is scheduled, and the model's answer ends:
\* the turn deadline cancels its context.
FairSpec == Spec /\ \A s \in Sessions : WF_vars(Continue(s))

-----------------------------------------------------------------------------
(* Properties.                                                             *)

Labels == {"closed", "idle", "starting", "started", "running", "reconciling", "compacting",
           "abandoning", "ending"}

\* Every variable keeps its shape, and no session knows of a revision that
\* does not exist.
TypeOK ==
  /\ \A i \in DOMAIN log : log[i].turn \in Turns \cup {None} /\ log[i].sources \subseteq Turns
  /\ pc \in [Sessions -> Labels]
  /\ {rev, checkpoint, recorder, returned, noted} \subseteq [Sessions -> 0 .. Revision]
  /\ turn \in [Sessions -> Turns \cup {None}]
  /\ retry \in [Sessions -> Mutations \cup {"none"}]
  /\ broken \in [Sessions -> BOOLEAN]
  /\ plan \in [Sessions -> {"none", "active", "interrupted"}]
  /\ \A s \in Sessions : checkpoint[s] # 0 => log[checkpoint[s]].kind = "compacted"

\* Nothing that was committed is missing from the context of a running turn:
\* each committed turn is there raw or covered by the checkpoint that is
\* there.  The planner stops rather than let a fallback "silently lose that
\* prefix" (session.go:1883).  A session that has an older checkpoint than the
\* active one does lose turns.
PromptIsComplete ==
  \A s \in Sessions :
    prompt[s] # None /\ turn[s] \in OpenTurn /\ prompt[s].checkpoint = ActiveCheckpoint =>
      Committed \subseteq prompt[s].groups \cup Covered(prompt[s].checkpoint)

\* An open turn is in the tail every resume reads, so that resume refuses, or
\* recovers the turn when asked to (docs/session-persistence.md:95).
OpenTurnIsVisible == OpenTurn = VisibleTurn

\* Both hold while no process compacts during another one's turn, which would
\* put the start of that turn before the tail.
DuringTurn(i) == \E t \in Turns : \E j \in 1 .. i :
  /\ log[j] = Event("started", t)
  /\ \A n \in j .. i : log[n] \notin {Event("committed", t), Event("failed", t)}
ContextIsWhole ==
  (\A i \in DOMAIN log : log[i].kind = "compacting" => ~DuringTurn(i)) =>
    PromptIsComplete /\ OpenTurnIsVisible

\* Checkpoints summarize each turn once, after it was committed, and together
\* cover a prefix of what was committed: the tail has no holes.
CoverageIsAPrefix ==
  /\ \A i \in DOMAIN log : log[i].kind = "compacted" =>
       /\ \A t \in log[i].sources : \E j \in 1 .. i : log[j] = Event("committed", t)
       /\ log[i].sources \cap Covered(i - 1) = {}
  /\ \A c \in Covered(ActiveCheckpoint), t \in Uncovered : StartOf(c) < StartOf(t)

\* The compactor discards a stale candidate instead of overwriting a newer turn
\* (docs/session-persistence.md:97, in Chinese): between the start of an
\* operation and its checkpoint the log has only the operation's own charges.
StaleCandidatesAreDiscarded ==
  \A i \in DOMAIN log : log[i].kind = "compacted" =>
    \A j \in log[i].op + 1 .. i - 1 : log[j] = Charge(log[i].op)

\* Both, and the shape of the variables.
CheckpointsAreSound == TypeOK /\ CoverageIsAPrefix /\ StaleCandidatesAreDiscarded

\* A turn that is open has an operation that works on it.  However many
\* conflicts it met, Ask does not return and leave its turn open: nobody could
\* start another one.  Only a process that ends, or a start or an end whose
\* append reported an error, leaves one to resume --recover.
Working == {"starting", "started", "running", "reconciling"}
ReturnedTurnsAreEnded ==
  \A t \in OpenTurn : t \in orphaned \/ \E s \in Sessions : turn[s] = t /\ pc[s] \in Working

\* What recovery is documented for, and not so: an open turn that nobody works
\* on is of a process that has exited ("--recover" only then,
\* docs/session-persistence.md:95).  A process that goes on leaves one too, when
\* the sync of turn.started fails: askThread returns at once (session.go:935), and
\* whatever closes a turn comes later.
OnlyTheDeadOrphan ==
  [][orphaned' # orphaned => \E s \in Sessions : pc[s] # "closed" /\ pc'[s] = "closed"]_vars

\* "Keep the local CAS revision aligned" (session.go:970): when all its work
\* is done, the only session on a thread knows the thread's revision, which
\* its next StartTurn is going to be compared with.
IdleSessionIsCurrent ==
  \A s \in Sessions :
    pc[s] = "idle" /\ returned[s] = 0 /\ noted[s] = 0
      /\ (\A other \in Sessions \ {s} : pc[other] = "closed")
    => rev[s] = Revision

\* An operation that was begun returns: neither conflicts nor a turn that
\* another process closed hold it up.
OperationsReturn ==
  \A s \in Sessions : pc[s] \notin {"closed", "idle"} ~> pc[s] \in {"closed", "idle"}
=============================================================================
