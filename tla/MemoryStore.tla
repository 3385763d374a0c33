---------------------------- MODULE MemoryStore ----------------------------
(***************************************************************************)
(* internal/memory: versioned entries that the user and the extraction of  *)
(* idle transcripts write to one SQLite database, and the leases by which  *)
(* the consolidators of several processes share that extraction.           *)
(*                                                                         *)
(* A transaction is one step (SQLite refuses one whose snapshot is stale); *)
(* what happens between the transactions of a consolidator is the subject: *)
(* a reset, a thread that goes on, a lease that expires, another worker,   *)
(* the end of the process.  Times are reduced to whether they have passed, *)
(* a thread's UpdatedAt to a counter, a draft to its key.                  *)
(*                                                                         *)
(* A definition marked "Fault" is a plausible bug in the one after it and  *)
(* used by no action.                                                      *)
(***************************************************************************)
EXTENDS Naturals, Sequences, FiniteSets

CONSTANTS Workers,        \* consolidators, one per process
          Threads,        \* threads ListThreads returns
          Keys,           \* normalized memory keys
          None,
          MaxPerScan,     \* threads one scan extracts
          MaxUpdates,     \* bound on the times a thread goes on
          MaxGeneration,  \* bound on resets
          MaxVersions,    \* bound on the versions of a key the user adds to
          MaxCrashes      \* bound on process ends and failed transactions

\* A row of memory_extractions.
Rows == [source : Nat, status : {"running", "succeeded", "failed"}, leased : BOOLEAN,
         wait : BOOLEAN]

MemoryAssumption ==
  /\ None \notin Threads \cup Rows
  /\ MaxPerScan \in Nat \ {0}
  /\ {MaxUpdates, MaxGeneration, MaxVersions, MaxCrashes} \subseteq Nat

VARIABLES
  generation,  \* memory_settings.reset_generation
  generating,  \* memory_settings.generate_enabled
  entries,     \* versions of each key, oldest first
  extraction,  \* memory_extractions row of each thread
  updated,     \* ThreadMeta.UpdatedAt
  idle,        \* the thread is idle for longer than IdleAfter
  aged,        \* and for longer than ScanMaxAge
  pc, run,     \* where each consolidator is, and what it holds
  times,       \* how often the transcript of a thread was extracted
  crashes

store  == <<generation, entries, extraction, times>>
thread == <<updated, idle, aged>>
worker == <<pc, run>>
vars   == <<store, generating, thread, worker, crashes>>

\* An entry; born is the generation its transcript was claimed in.
Entry(trust, born) == [trust |-> trust, status |-> "active", born |-> born]
NoRun == [generation |-> 0, open |-> None, left |-> {}, seen |-> [t \in Threads |-> 0],
          scanned |-> 0, thread |-> None, failed |-> FALSE, drafts |-> {}]

Init ==
  /\ generation = 0
  /\ generating \in BOOLEAN
  /\ entries = [k \in Keys |-> <<>>]
  /\ extraction = [t \in Threads |-> None]
  /\ updated = [t \in Threads |-> 0]
  /\ idle \in [Threads -> BOOLEAN]
  /\ aged = [t \in Threads |-> FALSE]
  /\ pc = [w \in Workers |-> "idle"]
  /\ run = [w \in Workers |-> NoRun]
  /\ times = [t \in Threads |-> [u \in 0 .. MaxUpdates |-> 0]]
  /\ crashes = 0

-----------------------------------------------------------------------------
(* Entries.                                                                *)

ActiveAt(k) == {i \in DOMAIN entries[k] : entries[k][i].status = "active"}
UserHolds(k) == \E i \in ActiveAt(k) : entries[k][i].trust = "user"

\* insertVersion: the active version is superseded by the new one.
Inserted(k, entry) ==
  Append([i \in DOMAIN entries[k] |->
            IF i \in ActiveAt(k) THEN [entries[k][i] EXCEPT !.status = "superseded"]
            ELSE entries[k][i]], entry)

\* A bound on what the user writes; extractions are bounded by MaxUpdates.
HasRoom(k) == Len(entries[k]) < MaxVersions

\* AddUser, and UpdateUser of a key that has an active entry.
AddUser(k) ==
  /\ HasRoom(k)
  /\ entries' = [entries EXCEPT ![k] = Inserted(k, Entry("user", generation))]
  /\ UNCHANGED <<generation, extraction, times, generating, thread, worker, crashes>>

Delete(k) ==
  /\ \E i \in ActiveAt(k) : entries' = [entries EXCEPT ![k][i].status = "deleted"]
  /\ UNCHANGED <<generation, extraction, times, generating, thread, worker, crashes>>

\* Accept: the entry that is shown and still active becomes the user's.
Accept(k) ==
  /\ \E i \in ActiveAt(k) : entries' = [entries EXCEPT ![k][i].trust = "user"]
  /\ UNCHANGED <<generation, extraction, times, generating, thread, worker, crashes>>

\* Reset deletes entries and extractions and begins a generation.
Reset ==
  /\ generation < MaxGeneration
  /\ generation' = generation + 1
  /\ entries' = [k \in Keys |-> <<>>]
  /\ extraction' = [t \in Threads |-> None]
  /\ times' = [t \in Threads |-> [u \in 0 .. MaxUpdates |-> 0]]
  /\ UNCHANGED <<generating, thread, worker, crashes>>

SetGenerateEnabled(on) ==
  /\ generating # on
  /\ generating' = on
  /\ UNCHANGED <<store, thread, worker, crashes>>

-----------------------------------------------------------------------------
(* The world: threads go on and rest, times pass, processes end.           *)

ThreadUpdated(t) ==
  /\ updated[t] < MaxUpdates
  /\ updated' = [updated EXCEPT ![t] = @ + 1]
  /\ idle' = [idle EXCEPT ![t] = FALSE]
  /\ aged' = [aged EXCEPT ![t] = FALSE]
  /\ UNCHANGED <<store, generating, worker, crashes>>

\* A scan is shorter than IdleAfter: it does not meet a thread that went on
\* and has been idle since.
ThreadRests(t) ==
  /\ ~idle[t]
  /\ \A w \in Workers : t \notin run[w].left
  /\ idle' = [idle EXCEPT ![t] = TRUE]
  /\ UNCHANGED <<store, generating, updated, aged, worker, crashes>>

ThreadAges(t) ==
  /\ idle[t] /\ ~aged[t]
  /\ aged' = [aged EXCEPT ![t] = TRUE]
  /\ UNCHANGED <<store, generating, updated, idle, worker, crashes>>

LeaseExpires(t) ==
  /\ extraction[t] # None /\ extraction[t].leased
  /\ extraction' = [extraction EXCEPT ![t].leased = FALSE]
  /\ UNCHANGED <<generation, entries, times, generating, thread, worker, crashes>>

RetryIsDue(t) ==
  /\ extraction[t] # None /\ extraction[t].wait
  /\ extraction' = [extraction EXCEPT ![t].wait = FALSE]
  /\ UNCHANGED <<generation, entries, times, generating, thread, worker, crashes>>

\* The process ends and starts again, or a transaction of its scan fails and
\* the scan is given up; the lease stays in the database.
Crash(w) ==
  /\ pc[w] # "idle"
  /\ crashes < MaxCrashes
  /\ crashes' = crashes + 1
  /\ pc' = [pc EXCEPT ![w] = "idle"]
  /\ run' = [run EXCEPT ![w] = NoRun]
  /\ UNCHANGED <<store, generating, thread>>

-----------------------------------------------------------------------------
(* RunOnce.                                                                *)

Goto(w, label) == pc' = [pc EXCEPT ![w] = label]

BeginScan(w) ==
  /\ pc[w] = "idle"
  /\ run' = [run EXCEPT ![w] = [NoRun EXCEPT !.generation = generation]]
  /\ Goto(w, "begun")
  /\ UNCHANGED <<store, generating, thread, crashes>>

\* GenerateEnabled is read after the generation.
Disabled(w) ==
  /\ pc[w] = "begun" /\ ~generating
  /\ Goto(w, "idle")
  /\ run' = [run EXCEPT ![w] = NoRun]
  /\ UNCHANGED <<store, generating, thread, crashes>>

\* The threads a scan may claim, if thread o, or none, is open in its process.
\* No thread is without messages: the system prompt is the first.
Listed(o) == {t \in Threads \ {o} : idle[t] /\ ~aged[t]}

List(w) ==
  /\ pc[w] = "begun" /\ generating
  /\ \E o \in Threads \cup {None} :
       run' = [run EXCEPT ![w].open = o, ![w].left = Listed(o), ![w].seen = updated]
  /\ Goto(w, "scanning")
  /\ UNCHANGED <<store, generating, thread, crashes>>

\* Fault: what is being extracted is claimed by nobody else, lease or not.
RunningIsBusy(t, source) ==
  extraction[t] # None /\ extraction[t].source = source =>
    extraction[t].status = "failed" /\ ~extraction[t].wait

\* claimExtraction: what was done, is being done or has to wait is not
\* claimed, unless the thread has gone on since.
Claimable(t, source) ==
  extraction[t] # None /\ extraction[t].source = source =>
    /\ extraction[t].status # "succeeded"
    /\ ~(extraction[t].status = "running" /\ extraction[t].leased)
    /\ ~extraction[t].wait

Claim(w, t) ==
  /\ pc[w] = "scanning" /\ t \in run[w].left /\ run[w].scanned < MaxPerScan
  /\ generation = run[w].generation /\ Claimable(t, run[w].seen[t])
  /\ extraction' = [extraction EXCEPT ![t] =
       [source |-> run[w].seen[t], status |-> "running", leased |-> TRUE, wait |-> FALSE]]
  /\ run' = [run EXCEPT ![w].left = @ \ {t}, ![w].scanned = @ + 1, ![w].thread = t]
  /\ Goto(w, "extracting")
  /\ UNCHANGED <<generation, entries, times, generating, thread, crashes>>

Skip(w, t) ==
  /\ pc[w] = "scanning" /\ t \in run[w].left /\ run[w].scanned < MaxPerScan
  /\ ~(generation = run[w].generation /\ Claimable(t, run[w].seen[t]))
  /\ run' = [run EXCEPT ![w].left = @ \ {t}]
  /\ UNCHANGED <<store, generating, thread, pc, crashes>>

EndScan(w) ==
  /\ pc[w] = "scanning"
  /\ run[w].left = {} \/ run[w].scanned = MaxPerScan
  /\ Goto(w, "idle")
  /\ run' = [run EXCEPT ![w] = NoRun]
  /\ UNCHANGED <<store, generating, thread, crashes>>

\* processThread: the transcript as it is now goes to the model, which
\* answers with drafts or fails.
Extract(w) ==
  /\ pc[w] = "extracting"
  /\ \/ \E D \in SUBSET Keys : run' = [run EXCEPT ![w].drafts = D, ![w].failed = FALSE]
     \/ run' = [run EXCEPT ![w].drafts = {}, ![w].failed = TRUE]
  /\ Goto(w, "finishing")
  /\ UNCHANGED <<store, generating, thread, crashes>>

\* Fault: a result of any generation is accepted.
HoldsInAnyGeneration(w) ==
  LET t == run[w].thread
  IN  /\ extraction[t] # None
      /\ extraction[t].status = "running" /\ extraction[t].source = run[w].seen[t]

\* requireGeneration, and "memory extraction lease changed".
Holds(w) ==
  LET t == run[w].thread
  IN  /\ generation = run[w].generation /\ extraction[t] # None
      /\ extraction[t].status = "running" /\ extraction[t].source = run[w].seen[t]

\* processThread returns to the scan, and its locals are gone.
Resume(w) ==
  /\ run' = [run EXCEPT ![w].thread = None, ![w].drafts = {}, ![w].failed = FALSE]
  /\ Goto(w, "scanning")

\* Fault: drafts are written whoever holds their key.
AllDrafts(w) == run[w].drafts

\* Drafts of keys that have an active entry of the user's are dropped.
Accepted(w) == {k \in run[w].drafts : ~UserHolds(k)}

FinishSuccess(w) ==
  LET t == run[w].thread
  IN  /\ pc[w] = "finishing" /\ ~run[w].failed /\ Holds(w)
      /\ entries' = [k \in Keys |-> IF k \in Accepted(w)
                       THEN Inserted(k, Entry("candidate", run[w].generation)) ELSE entries[k]]
      /\ extraction' = [extraction EXCEPT ![t].status = "succeeded", ![t].leased = FALSE,
                                          ![t].wait = FALSE]
      /\ times' = [times EXCEPT ![t][run[w].seen[t]] = @ + 1]
      /\ Resume(w)
      /\ UNCHANGED <<generation, generating, thread, crashes>>

FinishFailure(w) ==
  /\ pc[w] = "finishing" /\ run[w].failed /\ Holds(w)
  /\ extraction' = [extraction EXCEPT ![run[w].thread].status = "failed",
                      ![run[w].thread].leased = FALSE, ![run[w].thread].wait = TRUE]
  /\ Resume(w)
  /\ UNCHANGED <<generation, entries, times, generating, thread, crashes>>

\* A result that is refused, or whose transaction fails, is dropped and the
\* scan goes on; the row stays as it is.
DropResult(w) ==
  /\ pc[w] = "finishing"
  /\ \/ ~Holds(w) /\ UNCHANGED crashes
     \/ Holds(w) /\ crashes < MaxCrashes /\ crashes' = crashes + 1
  /\ Resume(w)
  /\ UNCHANGED <<store, generating, thread>>

-----------------------------------------------------------------------------
Scan(w) ==
  \/ BeginScan(w) \/ Disabled(w) \/ List(w) \/ EndScan(w)
  \/ \E t \in Threads : Claim(w, t) \/ Skip(w, t)
  \/ Extract(w) \/ FinishSuccess(w) \/ FinishFailure(w) \/ DropResult(w)

User ==
  \/ \E k \in Keys : AddUser(k) \/ Delete(k) \/ Accept(k)
  \/ Reset
  \/ \E on \in BOOLEAN : SetGenerateEnabled(on)

World(t) ==
  ThreadUpdated(t) \/ ThreadRests(t) \/ ThreadAges(t) \/ LeaseExpires(t) \/ RetryIsDue(t)

Next ==
  \/ User
  \/ \E t \in Threads : World(t)
  \/ \E w \in Workers : Scan(w) \/ Crash(w)

\* Consolidators tick on, the provider answers, and time passes.
Fairness ==
  /\ \A w \in Workers : WF_vars(Scan(w))
  /\ \A t \in Threads : WF_vars(ThreadRests(t)) /\ WF_vars(LeaseExpires(t))
Spec == Init /\ [][Next]_vars /\ Fairness

-----------------------------------------------------------------------------
(* Properties.                                                             *)

\* Every variable keeps its shape; only a running extraction is leased, only a
\* failed one waits.
TypeOK ==
  /\ generation \in 0 .. MaxGeneration /\ generating \in BOOLEAN
  /\ \A k \in Keys : \A i \in DOMAIN entries[k] :
       entries[k][i] \in [trust : {"user", "candidate"},
                          status : {"active", "superseded", "deleted"}, born : Nat]
  /\ extraction \in [Threads -> Rows \cup {None}]
  /\ \A t \in Threads : extraction[t] # None =>
       /\ extraction[t].leased => extraction[t].status = "running"
       /\ extraction[t].wait => extraction[t].status = "failed"
  /\ updated \in [Threads -> 0 .. MaxUpdates] /\ {idle, aged} \subseteq [Threads -> BOOLEAN]
  /\ pc \in [Workers -> {"idle", "begun", "scanning", "extracting", "finishing"}]
  /\ \A w \in Workers : run[w].thread = None => pc[w] \in {"idle", "begun", "scanning"}

\* What the user wrote or accepted is replaced only by the user, however old
\* the claim is that an extraction finishes ("candidate refused",
\* memory/store.go:277).
UserEntriesPrevail ==
  [][\A k \in Keys : \A i \in DOMAIN entries[k] \cap DOMAIN entries'[k] :
       entries[k][i].trust = "user" /\ entries[k][i].status = "active"
         /\ entries'[k][i].status = "superseded"
       => entries'[k][Len(entries'[k])].trust = "user"]_vars

\* After a reset nothing that was claimed before it comes back, even when
\* another worker has claimed the same transcript again.
ResetForgets ==
  \A k \in Keys : \A i \in DOMAIN entries[k] : entries[k][i].born = generation

\* A transcript is extracted once: leases expire, workers die and overtake
\* each other, but drafts of one state of a thread are written once.
ExtractedOnce == \A t \in Threads : \A u \in 0 .. MaxUpdates : times[t][u] <= 1

\* Both, and the shape of the variables.
ExtractionsAreExact == TypeOK /\ ResetForgets /\ ExtractedOnce

\* The lease of a worker that died is taken over, or nothing is left of it.  A
\* row stays as it is for good only if extraction is switched off again and
\* again, the thread is too old to be looked at, or every process goes on
\* scanning while that thread is open in it: "never claimed"
\* (consolidate.go:21).
AbandonedLeasesAreTaken ==
  \A t \in Threads :
    <>[](extraction[t] # None /\ extraction[t].status = "running") =>
      \/ []<>~generating
      \/ <>[]aged[t]
      \/ \A w \in Workers : []<>(run[w].open = t)
=============================================================================
