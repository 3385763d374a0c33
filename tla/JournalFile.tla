---------------------------- MODULE JournalFile ----------------------------
(***************************************************************************)
(* One session's JSONL file and the processes that share it: the two-level *)
(* lock (a channel per store, then flock on the journal itself), replay    *)
(* with its repair of a torn tail, the append and its fsync, creation by   *)
(* hard link, deletion, process crashes and power failures.                *)
(*                                                                         *)
(* The lock belongs to the file that was opened, replay and append open    *)
(* the path again.  Files are therefore numbered (inodes), and the path is *)
(* a variable.  A writable lock opens with O_CREATE, the default of        *)
(* flock.New; a read lock asks for O_RDONLY (thread_readonly.go:52).       *)
(*                                                                         *)
(* What the events mean is the subject of ThreadLedger.                    *)
(*                                                                         *)
(* A definition marked "Fault" is a plausible bug in the one that follows  *)
(* it, used by no action; each property is violated by one of them.        *)
(***************************************************************************)
EXTENDS Naturals, Sequences, FiniteSets

CONSTANTS Procs,        \* goroutines that call the store
          Stores,       \* ThreadStores, one per operating system process
          StoreOf,      \* the store each goroutine calls
          None,
          MaxAttempts,  \* bound on appends and creations per goroutine
          MaxFiles,     \* bound on the files the path ever names
          MaxFailures   \* bound on crashes and power failures

ASSUME JournalAssumption ==
  /\ StoreOf \in [Procs -> Stores]
  /\ None \notin Procs \cup Nat
  /\ {MaxAttempts, MaxFiles, MaxFailures} \subseteq Nat

Events == Procs \X (0 .. MaxAttempts)
Operations == {"load", "append", "delete", "read"}

VARIABLES
  path,      \* the file the session's path names, or None
  files,     \* contents by file number
  holders,   \* goroutines with a flock on each file
  local,     \* localThreadLock.held: who holds each store's channel
  pc, op,    \* where each goroutine is, and in which call
  fd,        \* the file its flock handle has open
  attempts,  \* events each goroutine has made
  reported,  \* events whose append or creation returned success
  deleted,   \* DeleteThread returned success
  failures

fileVars == <<path, files, deleted>>
lockVars == <<holders, local>>
callVars == <<pc, op, fd>>
vars == <<fileVars, lockVars, callVars, attempts, reported, failures>>

\* tail: clean; a complete last record without its newline (bare); a partial
\* record after the last one (torn); or a partial or bare record something was
\* appended to (mangled), which no replay accepts.
Tails == {"clean", "bare", "torn", "mangled"}
Files == [records : Seq(Events), synced : Nat, tail : Tails]

Init ==
  /\ path = None
  /\ files = <<>>
  /\ holders = <<>>
  /\ local = [s \in Stores |-> None]
  /\ pc = [p \in Procs |-> "idle"]
  /\ op = [p \in Procs |-> "none"]
  /\ fd = [p \in Procs |-> None]
  /\ attempts = [p \in Procs |-> 0]
  /\ reported = {}
  /\ deleted = FALSE
  /\ failures = 0

Goto(p, label) == pc' = [pc EXCEPT ![p] = label]

\* The path names a new file with these records.
NewFile(records) ==
  /\ Len(files) < MaxFiles
  /\ path' = Len(files) + 1
  /\ files' = Append(files, [records |-> records, synced |-> Len(records), tail |-> "clean"])
  /\ holders' = Append(holders, {})

-----------------------------------------------------------------------------
(* Creation: a temporary file with thread.created is written, fsynced and  *)
(* linked under the session's name.  The link is where the session begins; *)
(* a crash before it leaves no session.  Ids are random, so one call       *)
(* creates it, once.                                                       *)

CreateThread(p) ==
  /\ pc[p] = "idle"
  /\ files = <<>>
  /\ NewFile(<< <<p, 0>> >>)
  /\ reported' = {<<p, 0>>}
  /\ UNCHANGED <<deleted, local, callVars, attempts, failures>>

-----------------------------------------------------------------------------
(* Locking.                                                                *)

\* threadJournalPath and Lstat: the session exists.
Inspect(p, operation) ==
  /\ pc[p] = "idle"
  /\ path # None
  /\ operation = "append" => attempts[p] < MaxAttempts
  /\ op' = [op EXCEPT ![p] = operation]
  /\ Goto(p, "inspected")
  /\ UNCHANGED <<fileVars, lockVars, fd, attempts, reported, failures>>

\* The same when it does not: the call returns an error.
InspectMissing(p) == pc[p] = "idle" /\ path = None /\ UNCHANGED vars

HoldLocalLock(p) ==
  /\ pc[p] = "inspected"
  /\ local[StoreOf[p]] = None
  /\ local' = [local EXCEPT ![StoreOf[p]] = p]
  /\ Goto(p, "waiting")
  /\ UNCHANGED <<fileVars, holders, op, fd, attempts, reported, failures>>

\* The end of a call: both locks are released.
Return(p) ==
  /\ Goto(p, "idle")
  /\ holders' = [i \in DOMAIN holders |-> holders[i] \ {p}]
  /\ local' = [local EXCEPT ![StoreOf[p]] = IF @ = p THEN None ELSE @]
  /\ op' = [op EXCEPT ![p] = "none"]
  /\ fd' = [fd EXCEPT ![p] = None]

\* Each poll of TryLockContext or TryRLockContext opens the path ...
OpenLockFile(p) ==
  /\ pc[p] = "waiting"
  /\ \/ /\ path # None
        /\ fd' = [fd EXCEPT ![p] = path]
        /\ Goto(p, "opened")
        /\ UNCHANGED <<path, files, lockVars, op>>
     \/ /\ path = None /\ op[p] # "read"
        /\ NewFile(<<>>)
        /\ fd' = [fd EXCEPT ![p] = Len(files) + 1]
        /\ Goto(p, "opened")
        /\ UNCHANGED <<local, op>>
     \/ /\ path = None /\ op[p] = "read"
        /\ Return(p)
        /\ UNCHANGED <<path, files>>
  /\ UNCHANGED <<deleted, attempts, reported, failures>>

\* Fault: flock succeeds on a busy file.
TryLockShared(p) ==
  /\ pc[p] = "opened"
  /\ holders' = [holders EXCEPT ![fd[p]] = @ \cup {p}]
  /\ Goto(p, "locked")
  /\ UNCHANGED <<fileVars, local, op, fd, attempts, reported, failures>>

\* ... and tries flock on that file; a busy file is closed and polled again.
TryLock(p) ==
  /\ pc[p] = "opened"
  /\ LET free == IF op[p] = "read" THEN \A q \in holders[fd[p]] : op[q] = "read"
                 ELSE holders[fd[p]] = {}
     IN  \/ /\ free
            /\ holders' = [holders EXCEPT ![fd[p]] = @ \cup {p}]
            /\ Goto(p, "locked")
            /\ UNCHANGED fd
         \/ /\ ~free
            /\ fd' = [fd EXCEPT ![p] = None]
            /\ Goto(p, "waiting")
            /\ UNCHANGED holders
  /\ UNCHANGED <<fileVars, local, op, attempts, reported, failures>>

\* The caller's context ends while it waits for either lock.
CancelWait(p) ==
  /\ pc[p] \in {"inspected", "waiting"}
  /\ Return(p)
  /\ UNCHANGED <<fileVars, attempts, reported, failures>>

-----------------------------------------------------------------------------
(* Replay, append, delete, under the lock.                                 *)

Replayable(i) == files[i].tail # "mangled" /\ files[i].records # <<>>

\* replayJournalWithRepair: cut a torn tail off, finish a bare record.  Both
\* repairs fsync.
Repaired(f) == [f EXCEPT !.tail = "clean",
                         !.synced = IF f.tail = "clean" THEN @ ELSE Len(f.records)]

\* loadThreadLocked.  A file that is gone, empty or corrupt, or a repair that
\* fails, ends the call with an error.
LoadLocked(p) ==
  /\ pc[p] = "locked" /\ op[p] # "read"
  /\ \/ /\ path # None /\ Replayable(path)
        /\ files' = [files EXCEPT ![path] = Repaired(@)]
        /\ Goto(p, "loaded")
        /\ UNCHANGED <<holders, local, op, fd>>
     \/ /\ path # None => ~Replayable(path) \/ files[path].tail # "clean"
        /\ Return(p)
        /\ UNCHANGED files
  /\ UNCHANGED <<path, deleted, attempts, reported, failures>>

\* replayJournalReadOnly: what it returns is the log, its tail left as it is.
ReadLocked(p) ==
  /\ pc[p] = "locked" /\ op[p] = "read"
  /\ Return(p)
  /\ UNCHANGED <<fileVars, attempts, reported, failures>>

\* The call was a load, or a precondition fails: revision, lifecycle, archive.
FinishLoad(p) ==
  /\ pc[p] = "loaded"
  /\ Return(p)
  /\ UNCHANGED <<fileVars, attempts, reported, failures>>

\* The file after the bytes of event e were written up to here: all of them,
\* all but the newline, some, or none.
Written(f, e) ==
  IF f.tail # "clean" THEN {[f EXCEPT !.tail = "mangled"]}
  ELSE {[f EXCEPT !.records = Append(@, e)],
        [f EXCEPT !.records = Append(@, e), !.tail = "bare"],
        [f EXCEPT !.tail = "torn"],
        f}

Whole(f, e) == [f EXCEPT !.records = Append(@, e)]

\* Fault: a short write goes on to Sync.
WriteIgnoringErrors(p) ==
  /\ pc[p] = "loaded" /\ op[p] = "append"
  /\ attempts' = [attempts EXCEPT ![p] = @ + 1]
  /\ \E f \in Written(files[path], <<p, attempts[p] + 1>>) :
       /\ files' = [files EXCEPT ![path] = f]
       /\ Goto(p, "written")
  /\ UNCHANGED <<path, deleted, lockVars, op, fd, reported, failures>>

\* appendJournalEvent: open the path, write once, then Sync.  A short or
\* failed write ends the call and leaves what it wrote.
WriteEvent(p) ==
  /\ pc[p] = "loaded" /\ op[p] = "append"
  /\ attempts' = [attempts EXCEPT ![p] = @ + 1]
  /\ \E f \in Written(files[path], <<p, attempts[p] + 1>>) :
       /\ files' = [files EXCEPT ![path] = f]
       /\ \/ /\ f = Whole(files[path], <<p, attempts[p] + 1>>)
             /\ Goto(p, "written")
             /\ UNCHANGED <<lockVars, op, fd>>
          \/ /\ f # Whole(files[path], <<p, attempts[p] + 1>>)
             /\ Return(p)
  /\ UNCHANGED <<path, deleted, reported, failures>>

\* A successful fsync makes the file durable and the mutation succeeds; a
\* failed one returns an error for an event that every later load sees.
SyncEvent(p) ==
  /\ pc[p] = "written"
  /\ \/ /\ files' = [files EXCEPT ![path].synced = Len(files[path].records)]
        /\ reported' = reported \cup {<<p, attempts[p]>>}
     \/ UNCHANGED <<files, reported>>
  /\ Return(p)
  /\ UNCHANGED <<path, deleted, attempts, failures>>

\* DeleteThread, on a thread without an open turn or a pending compaction.
RemoveFile(p) ==
  /\ pc[p] = "loaded" /\ op[p] = "delete"
  /\ path' = None
  /\ deleted' = TRUE
  /\ Return(p)
  /\ UNCHANGED <<files, attempts, reported, failures>>

-----------------------------------------------------------------------------
(* Failures.                                                               *)

\* The locks of a process die with it.  Dying inside a write leaves what the
\* partial outcomes of WriteEvent leave.
Killed(dead) ==
  /\ pc' = [p \in Procs |-> IF p \in dead THEN "idle" ELSE pc[p]]
  /\ op' = [p \in Procs |-> IF p \in dead THEN "none" ELSE op[p]]
  /\ fd' = [p \in Procs |-> IF p \in dead THEN None ELSE fd[p]]
  /\ holders' = [i \in DOMAIN holders |-> holders[i] \ dead]
  /\ local' = [s \in Stores |-> IF local[s] \in dead THEN None ELSE local[s]]

Crash(s) ==
  /\ failures < MaxFailures
  /\ failures' = failures + 1
  /\ Killed({p \in Procs : StoreOf[p] = s})
  /\ UNCHANGED <<fileVars, attempts, reported>>

\* What can be left of a file whose first f.synced records are durable.
Surviving(f) ==
  {g \in [records : {SubSeq(f.records, 1, n) : n \in f.synced .. Len(f.records)},
          synced : {f.synced}, tail : Tails] :
     LET n == Len(g.records)
         cut == n < Len(f.records) \/ f.tail = "torn"
     IN  \/ g.tail = "clean" /\ ~(n = Len(f.records) /\ f.tail = "bare")
         \/ g.tail = "torn" /\ cut
         \/ g.tail = "bare" /\ n > f.synced
         \/ g.tail = "mangled" /\ f.tail = "mangled"}

PowerFailure ==
  /\ failures < MaxFailures
  /\ failures' = failures + 1
  /\ Killed(Procs)
  /\ IF path = None THEN UNCHANGED files
     ELSE \E f \in Surviving(files[path]) : files' = [files EXCEPT ![path] = f]
  /\ UNCHANGED <<path, deleted, attempts, reported>>

-----------------------------------------------------------------------------
Step(p) ==
  \/ CreateThread(p)
  \/ \E operation \in Operations : Inspect(p, operation)
  \/ InspectMissing(p) \/ HoldLocalLock(p) \/ OpenLockFile(p) \/ TryLock(p) \/ CancelWait(p)
  \/ LoadLocked(p) \/ ReadLocked(p) \/ FinishLoad(p)
  \/ WriteEvent(p) \/ SyncEvent(p) \/ RemoveFile(p)

Next == (\E p \in Procs : Step(p)) \/ (\E s \in Stores : Crash(s)) \/ PowerFailure

Spec == Init /\ [][Next]_vars

-----------------------------------------------------------------------------
(* Properties.                                                             *)

\* Every variable keeps its shape.
TypeOK ==
  /\ path \in DOMAIN files \cup {None}
  /\ \A i \in DOMAIN files : files[i] \in Files /\ files[i].synced <= Len(files[i].records)
  /\ DOMAIN holders = DOMAIN files /\ \A i \in DOMAIN holders : holders[i] \subseteq Procs
  /\ local \in [Stores -> Procs \cup {None}]
  /\ pc \in [Procs -> {"idle", "inspected", "waiting", "opened", "locked", "loaded", "written"}]
  /\ op \in [Procs -> Operations \cup {"none"}]
  /\ fd \in [Procs -> DOMAIN files \cup {None}]
  /\ attempts \in [Procs -> 0 .. MaxAttempts]
  /\ reported \subseteq Events
  /\ deleted \in BOOLEAN /\ failures \in 0 .. MaxFailures

\* A call between its replay and its return holds, alone, the file the path
\* names: what an append was validated against is what it extends.  The lock
\* is on a file that was opened before, and the path is opened again to read
\* and again to write.
WritersExclude ==
  \A p \in Procs : pc[p] \in {"loaded", "written"} =>
    path # None /\ path = fd[p] /\ holders[path] = {p}

\* A crash, a short write or a power failure never ends in a record glued to
\* the remains of another, which would be ErrJournalCorrupt for good.
NeverMangled == path # None => files[path].tail # "mangled"

\* Both, and the shape of the variables.
JournalIsSound == TypeOK /\ WritersExclude /\ NeverMangled

\* The journal implements the abstract log: events are appended to what their
\* writer replayed, a reported one survives every failure, and once deleted a
\* thread never shows an event again.
Log == INSTANCE EventLog WITH
         log <- IF path = None THEN <<>> ELSE files[path].records
ImplementsLog == Log!LogSpec

\* "DeleteThread permanently removes one inactive session journal"
\* (thread.go:347): no file of that session is left or comes back.
DeletionIsPermanent == deleted => path = None
=============================================================================
