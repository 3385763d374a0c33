# A verification project for eino-local-assistant

eino-local-assistant is a local coding assistant: a terminal user interface (and
a one-shot `exec` command) around a language model that may call tools.  Its
core is not the model call but the bookkeeping around it: every conversation is
a durable *thread*, an append-only JSONL journal that several processes may
share; a turn runs tools under a budget, approvals, command rules and a sandbox;
settings, credentials and memories are files and databases without a common lock.
This directory models that in TLA+, checks it with TLC on small instances
and proves what its core components promise with TLAPS, for any number of processes,
turns, calls and files.

Paths below are relative to `src/`.  In the modules, a comment that names a Go
function names the code the definition translates; `PROJECT.json` has the exact
lines of every definition.

## 1. The system

### Components and their state

| Component | Code | State it keeps | Modules |
|---|---|---|---|
| Thread ledger, compaction operations | `internal/store/thread*.go` | by replay of the journal: revision, open turn, tools, archive flag, model binding, pending compaction, pause and low-gain streak, active checkpoint, usage | `ThreadLedger`, `ThreadLedgerProofs` |
| Journal file | `store/thread_journal.go`, `thread.go` | one file per session, a flock on it, a channel per process | `EventLog`, `JournalFile`, `JournalFileProofs` |
| Chat session, plan controller | `internal/chat/session.go`, `agent/task_controller.go` | revision to compare, checkpoint, recorder, turn and compaction in progress, the plan's status | `SessionContext`, `SessionContextProofs` |
| Session files, catalog, fork, selectors | `store/thread_fork.go`, `thread_sqlite.go`, `thread_snapshot.go`, `cmd/eino-assistant/*session*` | the journals of all sessions, a SQLite projection of their metadata | `SessionFiles`, `SessionFilesProofs` |
| Agent loop, turn budget, recorder | `agent/react.go`, `runtimeguard/turn.go`, `chat/tool_projection.go` | messages and calls of a turn, admissions, repeats, charges | `AgentTurn`, `TurnProofs` |
| Approvals | `tools/approval.go`, `tui/approval.go` | mode, the pending prompt, allow and deny lists of the session | `Approvals`, `ToolCallsProofs` |
| Command rules | `tools/impact_policy.go` | rule files, trust levels, what each process loaded | `ShellPolicy`, `ToolCallsProofs` |
| Sandbox | `internal/sandbox`, `tools/sandbox_*.go` | a policy per session, mounts or rules per execution, a staged worker | `SandboxPolicy`, `CommandRun`, `ToolCallsProofs` |
| Shell and processes | `tools/shell*.go`, `process_lifecycle.go` | process groups, timers, caps | `CommandRun`, `ToolCallsProofs` |
| Patches | `tools/apply_patch.go` | files, temporary files, operations staged | `WorkspaceEdits`, `ToolCallsProofs` |
| Follow-up queue, steering, turn pump | `tui/model.go`, `queue.go`, `events.go`, `chat/steer.go` | mode, queue, pause, composer, mailbox, two channels | `Delivery`, `TurnQueue`, `MessagesAndStoresProofs` |
| Background agents | `tui/background_agents.go` | records, a pool, results | `BackgroundAgents`, `SideWorkProofs` |
| Side questions and reviews | `tui/model.go`, `review_cmd.go` | generation, pending requests | `SideRequests`, `SideWorkProofs` |
| Exec command and its stream | `cmd/eino-assistant/run_exec*.go` | a bounded queue, a writer, a terminal record, an exit code | `ExecRun`, `SideWorkProofs` |
| Configuration as text, MCP commands | `config/config.go`, `mcp_cli*.go` | config.toml | `ServerConfig`, `ServerAccess` |
| MCP credentials | `internal/mcpoauth` | one credential per server in the keyring | `ServerAccess`, `MessagesAndStoresProofs` |
| Memory | `internal/memory` | SQLite: entries, extractions with leases, a reset generation | `MemoryStore`, `MessagesAndStoresProofs` |
| Context planner and compactor, admission | `internal/contextbuild`, `ensureTurnAdmission` in `chat/session.go` | none: a choice by token estimates, and a compaction in progress | `ContextWindow`, `TurnProofs` |
| Artifacts, prompts, providers, logging, read-only tools | the packages of those names | none, or immutable files | section 7 |

### How they interact

The user interface's goroutine submits text; `Session.Ask` runs in a goroutine
of its own and holds the session's operation lock.  `Ask` writes `turn.started`
to the ledger, builds the prompt from a snapshot of the thread, and hands it to
the agent loop, whose callbacks report tools, plans and model usage to the turn
recorder; each of those is a mutation of the ledger that compares the
recorder's revision.  A tool call is admitted by the budget, judged by the
command rules, perhaps asked about (a message to the interface and an answer
back), and run in a worker that the sandbox confines.  `Ask` ends the turn in the
ledger.  Meanwhile the interface may interrupt the plan, which writes
to the same thread, background agents and side questions run beside it, and
other processes may have the thread open.  Whoever writes the ledger holds the
thread lock for the whole call (replay, check, append, fsync); between calls there
is nothing but the compared revision.  The catalog, config.toml, the rule files, the
keyring and the memory are shared by processes that do not know of each other.

### What is hard

* Two processes, and two goroutines of one, interleave between store calls:
  each acts on a snapshot it read earlier.
* An event is durable before it is validated by replay, and a call that fails
  may have left its event in the journal.
* A process may die between any two steps, the machine may lose power, a write
  may be short, a worker may be killed in the middle of a patch.
* Compaction makes many slow model calls on a snapshot, then replaces what the
  next prompt sees.
* Parallel tool calls share a budget, one prompt, one recorder and one context
  that may end while each is anywhere.
* Two supervisors with timers of their own stop one command.
* Answers come late: approvals, steers, agents, side questions, extractions and logins
  whose asker has gone or whose world has changed.
* Bounded resources: queues, agents, budgets, leases, an event stream whose
  reader may be slow or gone.

The hazards and the properties that cover them are in `PROJECT.json`, each at its
line.

## 2. Plan

Done, in the order of importance: the ledger and its proofs; the journal file; the
session; memory; turn messages; the agent's turn; approvals; commands, patches;
rules and sandbox; configuration and credentials; background agents, side requests,
exec; session files; the context window; the proofs about the journal file, the memory, the side
requests, the prompts, the credentials, the approvals, the chat session, the session files, the
exec command, the background agents, commands, the agent's turn, patches, rules, the
sandbox and the messages of the interface.

Left, in order: artifacts as groups of the planner's own; the version 1 reset.

## 3. The modules

Each module keeps one component's state as variables, has one action per
operation and ends with its properties.  Definitions marked *Fault* are
plausible bugs; no action uses them, and every checked property is violated
when one of them takes the place of the definition it stands before
(`PROJECT.json`, "mutants").  A property with several parts (`TurnIsWhole`,
`RulesAreFollowed`, ...) is the conjunction of named parts, each stated and
explained where it is defined; the type invariant of a module is one of them.

Components that share no state are checked side by side in one run: a variable `part`
says which of them a behaviour is about, and the others are parked in one state
(`MCTurn`, `MCInterface`, `MCToolEffects`, `MCSharedStores`, `MCSideWork`).  This keeps each component's state
space as it is and adds them up.  An MC module EXTENDS the parts that are proved about
(`Approvals`, `TurnQueue`, `ServerAccess`, `MemoryStore`, `BackgroundAgents`, `SideRequests`, `ExecRun`,
`CommandRun`, `ShellPolicy`, `SandboxPolicy`, `WorkspaceEdits`), whose properties are then the very definitions the
theorems name, and instantiates the others.

### ThreadLedger

A mutation runs under the lock from replay to fsync, so it is one action.  Each
event kind has two readings: the *preconditions* its mutation checks, and the
conditions under which *replay accepts* it (`Accepts...`, from
`lifecycleTracker.apply` and `applyThreadEvent`).  `Append` makes the event
durable first (`appendLocked`); if replay would reject it the thread is
`corrupt` and nothing can load it again.  `JournalReplays` says this never
happens: the two readings, written in different files, agree.

A client is a process with the thread open; `view` is the snapshot it last
read, and its mutations compare that revision and pass that snapshot's
arguments.  The callers' own preconditions (`OpenSession`, `compactLocked`) are
guards on `view`.  `FinishTurn`, `FinishCompaction` and `RecordUsage` compare no
revision; they are bound to an identity instead.

| Variable | Code |
|---|---|
| `revision`, `view` | `ThreadState.Revision`, the state a caller holds |
| `status`, `active`, `tools` | `lifecycleTurn`, `activeTurnID`, `lifecycleTool` |
| `archived`, `model` | `Meta.ArchivedAt`, `Meta.Model` |
| `pending`, `operations`, `paused`, `streak` | `PendingCompaction`, operation ids, `AutoCompactionPaused`, `LowGainStreak` |
| `current`, `lineage` | `ActiveCheckpointID`, the checkpoint events |
| `usage` | `recordedUsage` |
| `owner`, `extent` | history: who started a turn, how many events carry its id |

### JournalFile and EventLog

`JournalFile` opens that one action up: the session's path, the files it named
(inodes), the flock on a file, the channel per store, the positions of each
goroutine in its call, torn and unterminated tails, and what fsync has made
durable.  A writable lock opens the path with O_CREATE; replay and append open
the path again.  `EventLog` is what the callers rely on, and `ImplementsLog`
states that the file implements it (the log is what the path's file holds): an
event is appended to what its writer replayed, a reported event survives every
failure, a deleted thread shows no event again.  What survives a power failure is an
assumption about the file system (`Surviving`, external): a prefix of the
unsynced records, possibly torn.

### SessionContext

A session in the middle of `Ask` or `Compact`.  The shared `log` is the journal;
what the store would answer (open turn, active checkpoint, tail, groups) is
computed from it by the operators at the top.  A run may begin with a thread that other
sessions have written: `SoundLog` says what such a thread may hold (turns and operations in
order, checkpoints that cover whole turns in order), it holds of the empty thread, and that every event a session
writes keeps it is part of what is proved.  Each store call is one step and
applying the state it returns (`applyThreadState`) is another (`returned`), as is
the same for the goroutine that interrupts a plan (`noted`).

Abstractions: a checkpoint is the position of its event; texts, hashes and token
budgets are left out, so that which prefix an automatic compaction covers is a
choice (it keeps at most `KeepRecent` groups; `ContextWindow` has the arithmetic); the compaction `Ask` may make before
its turn is `StartCompaction` from idle; loading a state and comparing with its
revision right after is one step when nothing else depends on it (recovery,
opening, reconciling).  Sync errors are modelled where their result differs: on
start and end of a turn, its reconciliation and the checkpoint; for the end and the reconciliation also the append that
writes nothing.  `orphaned` is history: open turns that were let go without being closed.
`ReturnedTurnsAreEnded` says that there are no others, so an open turn without an operation is exactly one whose process
ended or whose start or end the store did not confirm.

### ContextWindow

`SessionContext` lets a compaction cover any prefix; here the prefix is the planner's.
The state is the sizes of the committed turns, the active checkpoint, the pause, the session's revision and
the `Ask` or compaction it is in.  `Plan` selects the newest groups that fit under 95% of the window;
`ViewAdmitted` is the second measure, of the provider's side, with framing and a guard of a tenth;
`Fits` is both.  `CompactToAdmit` is the compaction `ensureTurnAdmission` makes, either ahead of a request that
fits or because one does not, and `Resume` what it does afterwards.  A compaction sends one request, or
`Chunks` and a merge; an answer is a size and what it cites, checked against `ClaimScope`, and `Install`
asks for the gain.

`PromptIsWhole` relates the plan a turn was admitted with to the one its prompt is made by, after others
may have written; `CheckpointIsGrounded` follows citations through chunks and merge;
`CompactingAheadIsHarmless` (with it in `CompactionIsSound`) says that a request that fits never loses its place to the compaction
made ahead of it.  `paused` is durable from the start of an automatic compaction until its success, so
that a crash leaves it set.

### MemoryStore

A transaction is one step: SQLite refuses one whose snapshot is stale.  What
happens between the transactions of a consolidator (`pc`, `run`) is the subject: `RunOnce`
reads the generation, lists idle threads, claims one, sends its transcript to the model
and finishes.  `Holds` is what `finishExtraction` compares before it accepts a result.
`Listed` leaves out the session open in the process, threads that went on lately and threads past `ScanMaxAge`; so
`AbandonedLeasesAreTaken` excuses a row whose thread is too old, or is open whenever any of the processes scans:
the code takes over neither.

Abstractions: a time is whether it has passed (`leased`, `wait`, `idle`, `aged`), `UpdatedAt`
a counter, a draft its key.  A scan is shorter than `IdleAfter`, so a thread that goes on does not
become idle again while it is on a scan's list.  The open session of a process is read once a scan
(`ActiveThreadID`), so it is an input of `List`; that scan keeps it in `run[w].open`.  The filter on `MessageCount` (consolidate.go:84)
never applies: `thread.created` already counts the system prompt (thread_journal.go:312).  A busy database and the end of the process both give up the scan
(`Crash`).  `times` and `born` are history.

| Variable | Code |
|---|---|
| `generation`, `generating` | `memory_settings` |
| `entries`, `extraction` | the tables `memory_entries`, `memory_extractions` |
| `updated`, `idle`, `aged` | `ThreadMeta.UpdatedAt`, compared with `IdleAfter` and with `ScanMaxAge` |
| `pc`, `run` | locals of `RunOnce` and `processThread` |

### Delivery and TurnQueue

`TurnQueue` has three actors.  The interface's goroutine (`Update`) edits the composer and
the queue, steers and interrupts.  The turn's goroutine (`ask`) takes steers before every
model call, reports them, closes the mailbox, commits and publishes its result.  The
pump (`waitTurnEvent`) carries events and the completion over two channels back to
`Update`, one message at a time.  The context may end at any time by the user or by the deadline.

A message is the sequence of the texts in it: the composer joins the lines it gets
back (`restoreInterruptedSteers`) with those it has.  Each text is typed once, which
also bounds the model.  `DrainQueue` is the whole loop of `drainQueue`: it consumes commands that start no
turn until a turn starts, the start fails, or the queue is empty.  An event is a steer's sequence or,
for all streamed text, the answer.

`Delivery` is the promise to the user: a text goes from the composer to the queue or a
turn, a turn is delivered with its steers and as a whole, nothing that was delivered or given up
comes back.  `Fate` maps the places of `TurnQueue` to it.

| Variable | Code |
|---|---|
| `mode`, `queue`, `paused`, `composer` | `model.mode`, `queue`, `queuePaused`, the text area |
| `admitted`, `seen` | `turnSteerAdmissions`, `turnSteerConsumed` |
| `pending`, `pump` | `pendingTurnDone`, the running `waitTurnEvent` and its message |
| `ask`, `ctx`, `box` | the goroutine of `startTurn` in `askThread`, its context, `activeSteerTurn` |
| `events`, `closed`, `done` | `model.events`, `model.turnDone` |
| `ledger` | the committed turns (`SessionContext` has the store's side) |

### AgentTurn

One turn of `ReactAgent.Stream` with its `TurnBudget`, its recorder and the
session that reads the stream.  `AcquireStep` -> `AskModel` -> `AdmitBatch` as a whole -> calls start and end in any order, each looking at the budget again -> results in the
order of the calls -> next step, or the forced final response, its fallback, and the close watcher.
A key is a tool with its arguments; an id may be repeated or unknown.  `lost` is the
recorder's first failure, after which nothing more is recorded.  `since` and `ran`
are history: executions of a key since the last change of state, and of an id.

`BudgetHolds` counts what really ran; `TurnIsWhole` says that every call the
model made has one answer before it is asked again, that every opened model stream is charged or
lost together with the turn, and that the reader is shown one answer.

Fairness: the turn's context ends at its deadline, the goroutines of the turn and of its
calls run, and a call whose context is done returns.  The model need not answer.

### Approvals

Tool goroutines (`ApprovalBridge.Request`), the interface and the session's
memories of answers.  A call reads the mode when it starts, the phase gate, the rules'
verdict and the memories, takes `serial`, posts its request into the
interface's inbox, and waits for the answer, the turn's end, the timer or the
interface's end.  A withdrawal travels through the same inbox.  Timeout,
cancellation and "not ready" are one reply, `unanswered`; an interrupt while the
modal is up is recorded as the user's denial (the code sends `ApprovalDeny` with the
user's reason); the program is bound before it runs.

Each tool has its own order (`Waived`, `DeniedBefore`, `ReadsModeAgain`).  A shell call and a patch look at
what was denied before they look for a reason to go on, and read the mode again where they would ask; auto
then goes on, opaque syntax included, and refuses only what a Codex rule wants prompted
(`shell.go:566-581`).  An MCP call takes auto for an answer first (`mcp.go:401`), looks at the denials
after that, and does not read the mode again.  Opaque syntax and a prompt rule both keep a session's
allowance from applying.

`said` and `grounds` are history: what the user answered to the prompt of a call,
and why a call went on ("despite": unasked and outside yolo, although a key of it is denied).  Fairness: each call's goroutine runs, the
lock is handed on and the timer fires.  The user owes no answer.

An answer "once" to a shell call clears the denials of its keys when it is processed, which can erase a
denial another call of the same key got in between; no property is about that.

### CommandRun, WorkspaceEdits

`CommandRun` is one shell command: directly supervised (`runCommandWithLifecycle`), or by
a worker in a sandbox that another supervisor watches, with bubblewrap (the group's death is
a namespace's death) or Seatbelt (only the group is signalled).  The shell and every other member of
its group may obey TERM or ignore it; a descendant outside the group may hold the output pipe.  A supervisor returns when
`cmd.Wait` does, that is when the shell has ended and nobody holds the pipes: the inner group is then `"gone"`, or `"quiet"`, with
members left that redirected their output (`sleep 1000 >/dev/null 2>&1 &`).  `Wait` knows nothing of these and they get
no signal; only the end of a namespace ends them.  A cap that was reached wins over a context that ended (`WhyEnded`).  The unit
of time is `commandWaitGrace`; timers run only when no supervisor has
something to do, which is what makes `WorkerShutdownGrace` longer than the inner grace
matter.  Fairness: supervisors act, time passes, the deadline comes.

`WorkspaceEdits` is `apply_patch`: operations are checked in order against what the earlier
ones will leave, then applied one by one through temporary files and renames, by a worker that may
be killed anywhere, beside another patch and other writers.  Properties of one
patch speak of calls nobody interfered with (`alone`): the code has no
protection against a write between its read and its rename.

Observed: a patch whose worker is killed midway is reported as denied though a prefix
was applied; `ShellOutput.Denied` is documented as "(no process started)" and is also set when
the worker dies after the command ran; TERM may go to a group whose leader
was already reaped (`process_lifecycle.go:71`).

### ShellPolicy, SandboxPolicy

`ShellPolicy`: processes load the rules in steps (starter file by temporary and
link, user files, project files if trusted), evaluate commands segment by segment,
and pin the program of an escalation before the user is asked.  Lexing is reduced to its
result.  `RulesAreFollowed` has four parts: what a running process holds is
authorised and whole; what is allowed unasked is vouched for segment by segment; a
project never loosens the user's rules; the host runs what was shown.  A rule that names the exact path
of a program takes the place of the rules for its bare name; the comment in
`impact_policy.go` says a match "can only become stricter", and `UserRulesStand`
is stated for commands of bare words for that reason.

`SandboxPolicy`: toolchain discovery, one validation, and the mounts (bubblewrap) or
rules (Seatbelt) of each execution while protected places appear and change.
`Reads` and `Writes` evaluate both for every probe path.  `addEnvironmentRoot`
compares with the home directory for equality only, and so does the model.

### ServerConfig, ServerAccess

`ServerConfig` is config.toml twice: as lines, which the program edits to keep the
user's layout, and as tables, which it decodes.  `ServerAccess` adds the processes: commands that
edit, log in and log out step by step and may be killed, chats that load, connect,
refresh a rotating token and quit, the user's editor.
`EditMeansItsCommand` relates the two readings: the edited text is valid and decodes to the
configuration the command means.  Two edits keep the text valid and may mean something else (`OutOfSight`).
When a server is removed whose env table stands apart from it (`Detached`), the lines of the sub-table
stay and join the server before.  When the status line is changed and the retired key is quoted
(`RetiredIsHidden`), the key stays.  The text an edit is applied to may be old: two edits at once lose
one, which the code does not detect.
Removal also takes a comment above the next header; an array over several lines and
quoting of values are not modelled.

### SessionFiles

All sessions of a directory: journals, the catalog's rows with the size and identity of
the journal they were made from (`print`), chats that have one open, and one-shot
commands.  A command is a sequence of steps: look an id up, list one or two scopes, match
titles, load, then act.  Appends and loads are atomic here (`JournalFile` opens them).

A run may begin with a directory that earlier commands have written: `SoundDirectory` says what it may
hold (no turn starts or is committed in an archived session, and a fork is a prefix of its source if that is still
there).  That every command keeps it so is part of what is proved.

`ForkIsAPrefix`: a fork's journal starts with a committed prefix of its source's and
stays so.  `ListingIsTrue`: what a listing shows of a session is what its journal
said at some moment of the listing; excepted is a row the unlocked projection of a
creation or fork wrote late (`Late`), which can carry birth metadata with a newer
fingerprint.  `NamesOneSession`: a name resolves to the session that bore it all
the time, or is refused.  `JournalsOnlyGrow`: whatever a command does, journals lose nothing
but by `delete`, no process's open turn disappears under it, and an archived journal gets no turn's event
(it may get a title, from a process that was recovering the session when it was archived; section 6).

Observed: a fork's copied prefix may hold older titles than `created.meta`; one
damaged or vanishing journal fails a whole listing; a picked id is resolved again as a
selector; `orderedCatalogMetas` and `loadProjectedThread` have no caller.

### BackgroundAgents, SideRequests, ExecRun

`BackgroundAgents`: records in the order they were asked for (ids are handed out in that order, so the
set of the records retained is enough), a pool of working
agents, goroutines that read a transcript, ask and send their result, cancellation in each
state, trimming of old records, and changes of session.  Fairness: snapshot, model call
and the interface's loop go on.

`SideRequests`: a side question's goroutine takes the session when it starts, which may be
later than the key press; answers carry the id and the generation.  `/new` and
`/clear` do not wait for them.

`ExecRun`: the main goroutine from input to exit code, tool goroutines that emit events
through a bounded queue under a mutex, the writer, the terminal record with its
acknowledgement, FILE, a first signal, the time limit, a reader that is slow or goes.
Fairness: main and writer run, the mutex is handed on, and the session ends a cancelled
turn.  The context in `emit` has no deadline of its own: a reader that neither
reads nor goes stalls the turn beyond `max_turn_seconds`, which is why `EndsWhenCancelled` is
about cancellation.  A committed turn whose FILE cannot be replaced is reported as failed; FILE is
replaced before the result is written; a second signal is ignored.

## 4. The runs

| Run | Configuration | What it checks |
|---|---|---|
| thread_ledger | 2 processes, 2 turns, 1 tool, 3 operations, 2 checkpoints, limit 2, 7 events | replay, frozen turns, recovery, anti-thrash, lineage |
| shared_journal | 2 goroutines of one process and another process, 2 files, two appends, a crash or power failure | exclusion and repair, refinement of `EventLog` |
| shared_thread | 2 sessions on a thread with two committed turns, or with one of them under a checkpoint, 7 events, two crashes or appends that report an error, under fairness | checkpoints, prompts, owners of open turns, every operation returns |
| interface | messages: 3 texts, one a local command, a queue of 2, a channel of 1; approvals: 2 calls of 8 kinds, turns and mode changes without a bound; under fairness | conservation, reported successes, refinement of `Delivery`, follow-ups move; whose prompt is up, grounds of a run, every call is decided |
| turn | admission: groups of 3%, 27% or 50% of the window, requests of 0.2% or 40%, answers of 2% or 4%, 4 turns, 2 anchors, 2 recent groups; agent: 2 model steps, batches of up to 3 calls of 4 kinds, 3 calls, 1 repeat, under fairness | whole prompts, citations, compaction ahead of a request; budget, answers and charges, the turn returns |
| tool_effects | rules: 2 loaders, 11 user files; sandbox: 3 hosts, 2 workspaces, 2 changes; a command of every route; 2 of 4 patches | what may run, what it sees, how it ends, what patches leave |
| shared_stores | servers: 2 commands, 1 chat, 4 files, 4 edits, 2 tokens, 1 user edit; memory: 2 consolidators, 1 thread, 1 key, a reset, a crash, under fairness | credentials, edits, extractions, leases |
| side_work | 3 agents, a pool of 1, 2 records, 2 sessions; 2 questions and reviews; exec with 2 emitters and a queue of 1, under fairness | agents, answers, reports |
| session_files | 2 chats and a shell, 3 ids, 2 titles, 2 commands | forks, listings, names, deletions |
| denied_unasked | violation | a prompt that times out is remembered as the user's denial |
| ephemeral_source | violation | an ephemeral run repairs its source |
| history_dropped | violation | a failed compaction lets a turn start on a plan that is out of date |

### Bounds, and why they are enough

Two processes are the least that can hold stale snapshots of each other, and
the code treats all others alike (everything is compared with a revision or
an identity, never with a process); the journal run has three callers because one process
has two levels of locking.  Two turns let one be ended while another is open; the
session run starts after two more, so that one can be compacted, one retained and one open.
Three operations and a limit of two give a streak that reaches its limit and one operation
after.  `MaxRevision` and `MaxEvents` bound the journal: nothing new starts when it is
full, but what ends work may still be written (in `SessionContext`), so that
liveness is not lost to the bound.  Symmetry is used in runs without liveness only.

A batch of three parallel calls has one that changes the state, one that was counted
before and one that starts after.  Two calls suffice for approvals because there is one
prompt: one has it, the other waits.  One thread suffices for the memory, because extractions of
different threads share nothing but the generation.  Three texts are one that runs, one that waits
or steers and one that comes after; a queue of two and channels of one are full at once.  Two tokens
are one that is used and its successor.  Three agents are one that works, one that waits and one
that is trimmed.  Two commands over sessions with clashing names and ids are a resolution
and what changes beside it; journals start with every shape a resolution tells apart.

Sizes in `turn` are thousandths of the window, chosen so that sums meet the trigger (85%), the
target (50%) and the ceiling (95%) and pass each by little; a fitting request then meets the trigger only
if the tools' schemas are small, as they are next to a large window.  Two anchors for 32 and two recent groups for 12
are the least that leave an event between the anchors and a group besides the recent ones.  Four turns give a second
compaction over a checkpoint, and chunks whose merge stays under the ceiling: a merge that does
not is never reached.

### Fairness

Always that of goroutines that are inside an operation, of time, and of
contexts that end at their deadline; never that a user, a model, another process or
a reader does anything.  The Go scheduler provides the first; `runtimeguard.WithTurnContext`
the last.  `SF` is used where a goroutine waits for a mutex (Go's hands it on) and
where a session ends a cancelled turn.  `MemoryStore` assumes that consolidators tick
(`StartLoop`), that threads come to rest and that leases expire.  `TurnQueue` has three fair actors: the
turn's goroutine (`Continue`, and the return of a call whose context is done), the interface's loop with the
end of a compaction, and the deadline.  In the runs with several parts the
fairness is that of the parts with a liveness property; a parked component whose fair action
stays enabled would make another part's behaviours unfair, so only components whose fair actions
are disabled while parked (`side_work`, `interface`), or parts without liveness properties
(`turn`, `tool_effects`, `shared_stores`), share a run.

## 5. What is proved

`ThreadLedgerProofs` proves, for any sets of clients, turns, tools, operations,
checkpoints, calls and models and any bounds, from `LedgerAssumption` only (the
absent id is none of the others, the limit is positive):

* `Invariance`: the inductive invariant `Inv`.
* `JournalAlwaysReplays`, `AutomaticCompactionIsBounded`, `LineageAlwaysResolves`,
  `EndedTurnsStayFrozen`, `RecoveryIsExact`: the five properties of `thread_ledger`.
* `TypeCorrect`, `TurnsAreConsistent`, `ArchivedThreadsAreIdle`,
  `WorkStaysUndisturbed`, `ManualFailureIsNeutral`, `ChargesStayFinal`: properties that are
  proved and no longer checked by a run of their own.

None of the invariants is inductive alone, because mutations pass arguments
that were read earlier.  `Inv` adds `ViewsAreFaithful` (a snapshot whose revision
is the current one is the current state, and no snapshot is of the future) and
`OwnerKnowsPause` (the client that started the pending manual operation holds the pause the
thread had and still has), without which a failure recorded after a lost
comparison could write back an old pause.  The proof shows that every action
preserves each part, one lemma per group of actions.

Sixteen more components are proved about, from the assumptions they state and for any
values of their constants.

`JournalFileProofs` proves `JournalStaysSound` and
`JournalImplementsLog` (the two properties of `shared_journal`) from `JournalAssumption` (each
process has one store, the absent file is no process and no number, the bounds are
numbers).  Exclusion is not inductive: a call locks the file it
opened, and loads and appends through the path, which may have been removed and made
again by another call's O_CREATE.  `IInv` adds that records are in the first file only
(`OneSession`), so a call that got beyond loading is at that file, and that the path's file is the
one its lock is on (`WritersAtPath`).  The refinement needs `LogInv`: every event in the
journal was made by then, nothing beyond what is synced is reported, a writer's journal ends in
its own event, and what was deleted is never the path's file again.  A step of the
journal is then a step of the log (create, append, report, delete, lose a suffix) or leaves it alone.

`MessagesAndStoresProofs` proves `ExtractionsStayExact` (`shared_stores`) from
`MemoryAssumption`, as `MemoryInv`.  That drafts of one state are written once is not inductive, because a
row is claimed again whenever it is of another state of its thread: if rows could go back,
a state would be extracted twice.  `MemoryInv` adds that no row is later than its thread, and that
all scans that still have a thread on their list saw the same state of it (`ScanInv`), and that
what was extracted has a row that says so, or one of a later state (`OnceInv`).  `ScanInv` rests on the
abstraction named above, that a scan is shorter than `IdleAfter`.  `UserEntriesStay` adds the action
property: an extraction, however old its claim, replaces no version the user wrote or accepted, because
the drafts it stores are compared with the entries in the transaction that stores them.

It also proves `CredentialsKept` (`shared_stores`), from `ServersInv`, for any commands, chats, servers,
layouts of config.toml and edits.  That a token reaches only the endpoint it was issued for takes who may
store which token: tokens are numbered as they are issued and the one in the keyring stands beside its endpoint (`TokensInv`);
a login has a token of its own, which no other command has and which is not stored before the login saves it (`CommandsInv`);
a chat holds a token of the endpoint it read, uses stored ones only, and what it has yet to store is a
refreshed one of its own and no login's (`ChatsInv`).

And it proves `TextsAccounted` and `PromiseKept` (`TextsAreAccounted` and the refinement `KeepsPromise` of
`interface`) from `QueueAssumption`, for any finite set of texts, any commands among them and any bounds of the queue and of the
event channel.  The properties speak of what the user sees, in one state; the actors share almost none of theirs.
`QueueInv` therefore says where they are with one another:

* `PhaseInv`: which moments of the turn's goroutine, the pump and the interface go together, so that a completion
  that is seen, kept or repeated is that of the turn at hand.
* `BoxInv`: the mailbox has what was admitted, in that order, what was taken before what waits.
* `StreamInv`: what is in the goroutine's hand, in the channel and in the pump's message is, in that order, the rest
  of what the turn sends.  It holds while nothing has cut the stream short (`Faithful`) and again for a
  turn that succeeded, because `EmitEvent` drops an event only when the context is done, and such a turn does not
  reach its commit.  With nothing left to come, it is `SuccessIsWhatWasShown`.
* `CountInv`: how often a text is in the composer, the queue, the turn and the ledger together: once at most.

The refinement reads the place of a text off these counts (`PlaceOf`, shown to be `Fate`) and classifies the steps: the
user moves texts (`Quiet`), a turn starts, its commit delivers it, or it ends.  Messages are
sequences of texts and are flattened by a recursive function; what that function computes for every message (`FlatConcat`,
`OccConcat`, `HeldAppend`, ...) is shown by induction over lengths.  The induction theorems of the library cannot be
used here, because they take an operator as a parameter; `Induction` is proved for a set of numbers, from the
fact that a set that is not empty has a smallest one.

`SideWorkProofs` proves `AnswersStayInTheirSession` (`side_work`) and the type
invariant from `RequestAssumption`.  The strengthening: numbers are handed out in order, a request that
is open was asked in the session shown, because whatever replaces the session closes every one,
and an answer that is shown is not touched again.

It also proves `ReportsTrue` (`side_work`) and `ExecRunTypeOK` from `ExecAssumption`, for any number of tool
goroutines and any capacity of the queue.  The property looks at stdout, at the end of the way a record goes; so
`ExecInv` follows the two records that matter all along it.  The first one is in the queue, in the writer's hand, on stdout or
lost, and its acknowledgement says which, until the turn may start (`GreetingInv`).  A result is made of a cause that is true where it
is made (`PlaceInv`) and is followed by nothing in the queue: a tool goroutine that could still add a record holds
the mutex, nobody does once `closed` is set, and without `closed` no result of a stream exists (`CallsInv`, `ResultInv`).  The command
turns a success into a failure in three places, and the exit code agrees with stdout only because the acknowledgement
of the result comes before the writer's channel is closed: a result that is written and not acknowledged never meets a
stopped writer.

And it proves `AgentsInOrder` (`side_work`) and `AgentsTypes` from `AgentAssumption`.  That nobody waits beside a free place
is inductive only together with its reason: the interface looks at the line once per event and starts one agent,
which is enough because an event frees one place at most, or, when places are free, adds the only one who waits
(`DispatchFills`).  A cancellation frees none: the place is given back when the goroutine has returned.  Trimming
drops ended records only (`TrimKeeps`), and `SilenceInv` follows a cancelled agent to the end.

`TurnProofs` proves `PromptStaysWhole` (`turn`) from `WindowAssumption`, for any window, policy
and sizes.  The prompt is planned before the turn and again after its start; what joins the two plans is the
revision, so the strengthening (`FitInv`) says that while a request is admitted and the session's revision is
the thread's, the request still fits.  Another turn makes the revision old and the start fail; a compaction that
succeeds goes back to planning; one that fails takes over the new revision without a plan, which is the exception in the
property and finding 3.  Here the planner is used only as a function of the groups, the checkpoint and the request.

It proves `CompactionStaysSound` (`CompactionIsSound` of the same run, the module's types included) from the same assumption, for any
window, policy, anchors and sizes; here planner, chunker and admission are expanded.

* *Sums and chunks* are folds, hence functions of sets of places; `FoldsAt` says what they are after one more element, and
  induction gives the rest: sums split at any group (`TokensSplit`), and the chunks of a compaction are
  not empty and follow one another from its first group to its last (`ChunksCover`).
* *Citations* (`PartsInv`, `AnswerInv`).  The answers so far and the chunks that remain cover what is compacted
  between them, each answer cites groups of its own chunk only, and what is to be installed cites what a
  merge was shown.  So the checkpoint is grounded when it is installed, without looking at the thread again.
* *Harmlessness* (`AskedInv`).  While Ask compacts, and until it has planned again, a request that had fitted still fits
  unless the thread has grown.  The step that matters is the installation: by its gain the checkpoint is smaller than what
  it replaces, and then every measure of `Fits` becomes smaller (`FitsSmaller`): the plan's sum, and the admission with its framing
  per message and its guard of a tenth, although the checkpoint may be a message that was not there before.

It also proves `BudgetsHold` and `TurnsAreWhole` (`BudgetHolds` and `TurnIsWhole` of the same run) and `TurnsAreGuarded`, the
invariant both follow from, with `TurnAssumption`: any keys and kinds, the positive limits that
`normalizeTurnOptions` leaves, batches of any size.

* *The budget* (`BudgetInv`).  What has run was allowed and marked as started, and what was allowed was counted, so the
  number of tools that ran stays below the count.  The bound on repeats is the harder half: a change of state
  resets the counts while admitted calls still wait.  The invariant says, for each key, that what ran since
  the last change together with what waits is at most the count plus the limit, and that what waits is at most the limit; hence
  twice the limit, and not less: the run has a behaviour that gets there.  That a batch never exceeds the limit needs the greatest
  call of a key in it (`RepeatsBounded`): the code counts the calls before each.
* *The answers* (`AnsweredInv`, `RecorderInv`).  While the recorder works, a call of the ledger that has not
  ended is under way, and an ended call of the batch is in it; a turn does not go on with a failed recorder.  The merge
  of permitted and denied results puts each in its place because the places of permitted calls are numbered
  without gaps (`PlacesDiffer`).
* *Usage and reader* (`UsageInv`, `ReaderInv`).  One stream at most is open and not reported; charges and reports are equal
  until the recorder fails, for good.

`ToolCallsProofs` proves `AnswersHonoured` (`interface`) from `ApprovalAssumption`, for any number of calls.
Whose prompt is up is not inductive: a prompt goes up when its request is taken out of the inbox, which may be
after its call gave up.  `IInv` says that every request in the inbox is either that of the call which has the
lock and waits, or followed by its own withdrawal, and that the withdrawal of the prompt that is up comes before the
next request (`MailInv`); that one call at most is between taking and
giving back the lock (`LockInv`); that what a call is told is what the user said to it (`SaidInv`); and that a key is remembered
because the user answered a call that has it (`GroundsInv`).  That only an MCP call in auto runs against a denial
(`OnlyAutoOverrides`) is carried by `DespiteInv`: a call that would still ask in auto has no denied key, because
keys are denied by calls that have asked, and in auto only an escape to the host does, whose refusal is not remembered.

It also proves `CommandsSettle` (`CommandIsSettled` of `tool_effects`) and its invariant, `CommandsAreSupervised`, from
`GraceAssumption`: the grace is any positive number.  When a call has its result its shell has ended and no member of the
shell's group holds the call's output (unless the worker was killed from outside under Seatbelt), nothing of the command at all is left
under bubblewrap, and the result says what happened.  That a quiet member of the group goes on
on the other routes is what the code does, and is not claimed away.  The hard part is two
supervisors with timers of their own.  `TimerInv` says that, once the worker was told to end and as long as its shell is up, the outer one
still waits the whole `WorkerShutdownGrace` while the inner one has not noticed, and more than a grace longer than the inner one
after that; so the inner kill comes first.  With one grace for both it would not hold, and TLC shows it (the mutant of the property).

It proves `PatchesHold` (`PatchesAreSound` of `tool_effects`) from `PatchAssumption`, for any callers, patches, paths and
texts.  `EditInv` has five facts of each call.  What is staged for a path is what the last checked operation on it leaves
(`Stages`; it takes the greatest operation on a path among those before another).  While a call is on that nobody
interfered with, the files are what was there when it began, changed by its first operations, none while it checks
(`Prefix`); so what it was checked against is what it changes, and each text it writes, or the operation it is refused for, is
what the operations before it lead to (`Reasons`).  A temporary file belongs to the operation at hand or to a
worker that died (`Temp`).

And it proves `RulesHold` (`RulesAreFollowed` of the same run) from `PolicyAssumption`, for any processes, documents, words and
commands.  A starter file has its whole text before it has its name, and a process that is ready holds exactly what the
user's files and, in a trusted project, the project's say (`LoadInv`); what is shown was looked up outside of the workspace
(`ShownInv`).  What a verdict means is lemmas about any list of rules: what may run unasked is plain and each of its segments is
matched by an allow rule or known to be safe (`AllowedMeans`), with nothing stricter that matches it (`VouchedFor`);
and rules that are added never loosen a verdict about bare words (`NeverLooser`).  The attempt corrected the
model: `Evaluate` was a CASE whose guards overlap; TLC takes the first that holds, TLA+ does not say which.

It proves `WorkersAreConfined` (`WorkerIsConfined` of the same run) from `SandboxAssumption`, for any machines, workspaces,
read-only roots and protected places.  The view is made of layers that cover each other, so the question is which one counts at a
place.  `BoxInv` says that a valid policy keeps its worker and its roots apart from the workspace, and
that a view was made for a temporary directory apart from both; hence temporary directory, workspace and
worker lie apart (`Apart`), two paths above one place are above one another (`Comparable`), and at every place the last
layer that covers it is the one the policy means (`TopIs`, `MountsConfine`); what the file tools compute from the
relative path is what is masked (`HiddenIs`).  The views do not mention what is at a protected place, which is why they
hold whatever appears there.  The assumption keeps a workspace from being one of the system's own directories
(`/usr/bin`, `/lib`, ...): `bubblewrapMounts` keeps the first entry of equal ones, and a workspace there would be read-only.

`SessionContextProofs` proves `CheckpointsSound`, `ContextWhole` and `TurnsEnded` (the safety
properties of `shared_thread`) from `SessionAssumption`, for any sessions, turns and bounds, and for every
sound thread they may begin with.  The argument is about the log.  `LegalEvent` lists what a session may add: a plain
event, the start of a new turn while none is open, the end of the open one, or a checkpoint whose operation nothing disturbed and
whose sources fit behind those before it.  A sound log stays sound by such an event (`SoundLog`: turns
run one at a time; a checkpoint ends an operation nothing disturbed and covers committed turns in the order they started,
each once; as long as compactions start between turns, what did not fail and is not covered begins in the tail,
`TailsAreWhole`).  What a session knows (`Knowledge`: its turn,
its candidate and its prompt against the log up to the revision it holds) stays true when another session adds a legal event,
because it speaks of a prefix of the log only; a candidate that is not stale was disturbed by nothing up to the
revision it is installed at, and so fits.  Each of the actions then adds at most one legal event
and keeps what its own session knows.  `ContextIsWhole` has the two exceptions named in section 6; no
others are needed.  For `TurnsEnded` a second step over the actions shows that only `StartTurn` opens a turn, and that what
an operation lets go of (`LetsGo`) is closed in the log or is in `orphaned`.

`SessionFilesProofs` proves `JournalsGrow`, `ForksArePrefixes`, `ListingsTrue` and `NamesSelectOne` (the four
properties of `session_files`) and the type invariant from `FilesAssumption`, for any processes, sessions, titles and commands.
The argument has three parts.

* *The directory.*  `LegalChange` lists what a step may do to it: nothing, a torn tail that comes or goes, one event
  that may follow (`MayFollow`), the removal of a journal without an open turn, or the publication of a new one
  (`MayBegin`).  A sound directory stays sound by each, although the source of a fork may be gone or longer by then:
  ids do not come back (`used`), so a source is gone for good or only grows.  What a command has read and relies on
  later (`Relies`: the boundary of a backtrack, the state a recovery appends to) speaks of a prefix of a journal
  and stays true when others make such changes.
* *The catalog.*  A row is what the journal beside it, its fingerprint, said, or how that journal began (`TrueRow`); no
  row need be up to date, because a fresh row is one whose fingerprint is the file.
* *The lookup.*  A session that has borne the name ever since the lookup began is found, still in what is to be read,
  or in a listing that is yet to come (`Placed`).  At the end only the first is left; so the set of those found
  by that name contains all of them, and the command takes it only if it has one member.

The proof first failed for a good reason: the property had an archived journal get no event but its unarchiving.
A process that recovers a session looks at the archive state before the recovery only; when another process archives the
session right after it, the first one opens it all the same and may give it a title.  The code does so too
(section 6, `ArchivedAreNotOpened`); what the property now says of archived journals is what the code keeps.

Only model-checked:

* Liveness under fairness, which is beyond the proof system used here.
* `EditMeansItsCommand`: what decoding makes of the lines of a file before and after an edit, over five layouts.

## 6. Findings

1. **A prompt nobody answered is remembered as a refusal** (`denied_unasked`).
   `mcpTool.authorize` adds the key to the session's denials for every `ApprovalDeny`, also
   the one a timeout or a cancelled turn returns; `shell.go` and `apply_patch.go` test
   `isExplicitUserDeny` first.
2. **An ephemeral run writes to its source** (`ephemeral_source`).  The source is looked
   up with `LoadThreadMeta`, which repairs a torn tail; `docs/context-management.md:136` says the
   source stays unchanged.
3. **History can be dropped after a failed compaction** (`history_dropped`).  When the compaction ahead of
   a fitting request fails, `ensureTurnAdmission` returns without another plan (`session.go:1828`).  The
   failure has taken over the thread's newest revision, so a turn another process committed meanwhile
   is no conflict, and the prompt leaves out what does not fit any more.  `docs/context-management.md:51-53`
   promises that history is never dropped silently.

Stated in the modules and known to be violated, without a run of their own (add the
property to the configuration of the module's run to see the trace):

* `JournalFile!DeletionIsPermanent`: a process that waits for the lock of a session another one
  deletes opens the path with O_CREATE (`thread.go:1070`) and leaves an empty journal, which makes
  listing fail; `thread.go:347` says "permanently removes".
* `SessionContext!IdleSessionIsCurrent`: the state of an interruption and that of the
  turn's end are applied in either order; the older can win (`session.go:2155`), and every later turn is
  refused as a conflict.
* `SessionContext!OnlyTheDeadOrphan`: when the sync of `turn.started` fails after the event is durable, `askThread`
  returns at once (`session.go:935`) and its turn stays open in a process that is alive; the same
  holds when `FinishTurn` cannot write (`session.go:1209`).  Every later `Ask` is refused until `resume --recover`,
  which `docs/session-persistence.md:95` has for a process that has exited.
* `Approvals!DenialsStand`: `mcpTool.authorize` allows a call in auto mode (`mcp.go:401-402`) before it looks at the
  session's denials (`:404`), so what the user denied runs again, unasked, after a switch to auto;
  `approval.go:273-274` says that "re-requests with the same RuleKey soft-deny without re-prompting", and the
  shell and `apply_patch` do so in auto.
* `CommandRun!StoppedGroupIsKilled`: `process_lifecycle.go:20-22` says that a cancelled context "first sends TERM, then
  KILL after commandWaitGrace to ordinary descendants that remain in that group".  When the shell obeys TERM and another
  member of its group, with its output redirected, ignores it, `waitForCommand` sees the exit (`:123`) and no KILL is sent.
* `TurnQueue!FinishedDeliveryStands`: a deadline that passes between the commit and the
  goroutine's look at it turns a committed turn into a time-out (`model.go:3254`).
* `ServerAccess!LoggedOutStaysOut`: a chat that is on stores its refreshed token after a logout.
* `ServerAccess!RetiredIsRemoved`: `removeUISetting` compares the text before the equals sign (`config.go:1367`)
  and misses a quoted key, which the decoder accepts; `config.go:748` says that "/statusline removes it".
* `ContextWindow!CompactionIsTriedFirst`: `compactLocked` plans without the request it is to make room for and
  gives up when the history by itself is below the trigger of 85% (`session.go:1492`); a large request over a
  history of 60% is refused although older groups could be compacted.  `docs/context-management.md:51-53` says
  that compaction is tried first.
* `ContextWindow!OversizeRequestsAreSplit`: the chunker compares the plain estimate of a compactor request with 95% of
  the window (`compactor.go:627`), the admission adds framing and a tenth; what lies between is neither split nor
  sent.  `docs/context-management.md:92-95` says that a request over the ceiling is split.
* `SessionFiles!ArchivedAreNotOpened`: `OpenSession` refuses an archived session before it recovers an open
  turn and does not look again at what it reloads (`session.go:445`, `:456`); a session archived right after the
  recovery is opened, and every turn in it is then refused.  `store/thread_types.go:26` says an
  archived session has to be unarchived before it can "accept work or be opened".
* `ExecRun!BrokenPipeClosesTurn`: when the reader of stdout has gone, SIGPIPE ends the
  process at its write, and the turn stays active, although `run_exec_stream.go:103` says the turn
  is cancelled.

`finishExtraction` compares the generation and the state of the row, not the holder of its
lease (`store.go:664`): a scan whose lease was taken over may still finish the row.  Nothing that is checked
depends on which of the two results is kept.

`ContextIsWhole` is conditional in two ways, both real: a session whose own checkpoint is older than the
active one subtracts the wrong prefix (`session.go:1793`, although the comment at `:1883` calls that a
silent loss), and a manual compaction by another process during a turn puts that turn's
start before the tail, so that once committed it is in no later prompt of anybody.

## 7. What is not modelled, and why

* The loss of a directory entry after a power failure (the directory is fsynced
  best effort) and of dirty pages after a failed fsync.
* Hashes, payloads and the words of an answer: the properties here do not tell them apart.
  Token budgets are in `ContextWindow` only; elsewhere the compactor may choose any prefix.
* In `ContextWindow`: artifacts as groups of their own and events within a group, chunks of a merge
  that is itself over the ceiling (its `RecursionLimit`), checkpoints of version 1, and a request
  admitted again between the model steps of a turn.
* Artifacts: `PutArtifact` writes content-addressed files after reading the ledger; nothing
  refers to them but immutable events.
* edit_file, glob, list, search and the git tools: not registered in the product,
  or reads without state; of `permission.go` only the path of MCP calls is used.
* Parsing, rendering, prompts, instructions, providers, logging: pure data, or I/O
  without state of their own; a provider's failures are choices in the models of its callers.
* What a sandboxed process may do is the operating system's; what the mounts and rules say is modelled.
* In `SandboxPolicy`: links to directories among the places a policy names, a path below something that is not a directory
  (ENOTDIR), and the narrowing of the mode for a shell call of plan mode (`sandbox_runner.go:234`).
* The version 1 reset, model names of a resumed session, `/goal`, the model picker, token use shown in the interface.
