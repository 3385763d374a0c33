---------------------- MODULE MessagesAndStoresProofs ----------------------
(***************************************************************************)
(* What processes share outside the sessions, and the messages of the one  *)
(* interface on its way to a session.                                      *)
(*                                                                         *)
(* Memory: extractions are exact for any number of consolidators, threads, *)
(* keys, resets and crashes: what a reset forgets stays forgotten, and one *)
(* state of a transcript gives drafts once.  ExtractedOnce is not          *)
(* inductive.  A row is claimed again whenever it is of another state of   *)
(* the thread, so it has to be shown that the state of a row never goes    *)
(* back: a thread some scan has still to look at does not come to rest,    *)
(* hence all scans that have it saw the same state.                        *)
(*                                                                         *)
(* Credentials: they are kept for any number of commands, chats, tokens,   *)
(* files and edits: a token reaches only the endpoint it was issued for, a *)
(* chat uses none that was not stored, and a login that fails leaves none. *)
(* The three are not inductive.  That a failed login's token does not come *)
(* back rests on who may store what: a login stores its own token once,    *)
(* and a chat stores again only a token it was given by a refresh, which   *)
(* is no login's.                                                          *)
(*                                                                         *)
(* Messages: for any set of texts and any bounds of the queue and of the   *)
(* channel, nothing typed is in two messages, a turn that succeeds has     *)
(* shown the steers it recorded, a queue that waits has a reason to, and   *)
(* the interface implements Delivery.  None of it is inductive.  QueueInv  *)
(* adds where the turn, its mailbox, its channels and its pump are with    *)
(* one another (PhaseInv, BoxInv), that what is on its way to the screen   *)
(* is the rest of what the turn sends, in order, until something cuts it   *)
(* short (StreamInv), and how often a text is anywhere (CountInv), from    *)
(* which its place in Delivery is read off.  FlattenSeq is recursive, so   *)
(* the section starts with induction over the numbers, for a set of them.  *)
(***************************************************************************)
EXTENDS MemoryStore, ServerAccess, TurnQueue, FiniteSetTheorems, SequenceTheorems,
        WellFoundedInduction, TLAPS

-----------------------------------------------------------------------------
(* The memory.                                                             *)

EntryRecs == [trust : {"user", "candidate"},
              status : {"active", "superseded", "deleted"}, born : Nat]
RunRecs == [generation : Nat, open : Threads \cup {None}, left : SUBSET Threads,
            seen : [Threads -> 0 .. MaxUpdates], scanned : Nat,
            thread : Threads \cup {None}, failed : BOOLEAN, drafts : SUBSET Keys]

\* Every entry is of the present generation.
EntriesInv ==
  /\ generation \in 0 .. MaxGeneration
  /\ entries \in [Keys -> Seq(EntryRecs)]
  /\ \A k \in Keys : \A i \in 1 .. Len(entries[k]) : entries[k][i].born = generation

WorkerInv ==
  /\ generating \in BOOLEAN
  /\ updated \in [Threads -> 0 .. MaxUpdates]
  /\ idle \in [Threads -> BOOLEAN] /\ aged \in [Threads -> BOOLEAN]
  /\ pc \in [Workers -> {"idle", "begun", "scanning", "extracting", "finishing"}]
  /\ run \in [Workers -> RunRecs]
  /\ \A w \in Workers : pc[w] \in {"extracting", "finishing"} => run[w].thread \in Threads

\* A row is typed, and of a state the thread was in.
RowInv ==
  /\ extraction \in [Threads -> Rows \cup {None}]
  /\ \A t \in Threads : extraction[t] # None =>
       /\ extraction[t].leased => extraction[t].status = "running"
       /\ extraction[t].wait => extraction[t].status = "failed"
       /\ extraction[t].source <= updated[t]

\* A scan that has a thread before it saw its present state, or the thread is
\* not at rest; scans that have the same thread agree; and no row is of a later
\* state than they saw.
ScanInv ==
  /\ \A w \in Workers, t \in Threads : run[w].seen[t] <= updated[t]
  /\ \A w \in Workers : \A t \in run[w].left :
       /\ idle[t] => run[w].seen[t] = updated[t]
       /\ extraction[t] # None => extraction[t].source <= run[w].seen[t]
       /\ \A v \in Workers : t \in run[v].left => run[v].seen[t] = run[w].seen[t]

\* A state that was extracted has a row that says so, or one of a later state.
OnceInv ==
  /\ times \in [Threads -> [0 .. MaxUpdates -> {0, 1}]]
  /\ \A t \in Threads, u \in 0 .. MaxUpdates : times[t][u] = 1 =>
       /\ extraction[t] # None
       /\ extraction[t].source >= u
       /\ extraction[t].source = u => extraction[t].status = "succeeded"

MemoryInv == EntriesInv /\ WorkerInv /\ RowInv /\ ScanInv /\ OnceInv

-----------------------------------------------------------------------------
LEMMA NoRunTyped == MemoryAssumption => NoRun \in RunRecs /\ NoRun.left = {}
                                        /\ NoRun.thread = None /\ \A t \in Threads : NoRun.seen[t] = 0
BY DEF MemoryAssumption, NoRun, RunRecs

\* A version added to a key is the last one, and of the generation all others are of.
LEMMA InsertedTyped ==
  ASSUME EntriesInv, NEW k \in Keys, NEW entry \in EntryRecs, entry.born = generation
  PROVE  /\ Inserted(k, entry) \in Seq(EntryRecs)
         /\ \A i \in 1 .. Len(Inserted(k, entry)) : Inserted(k, entry)[i].born = generation
         /\ Inserted(k, entry)[Len(Inserted(k, entry))] = entry
<1> DEFINE s == entries[k]
           old(i) == IF i \in ActiveAt(k) THEN [s[i] EXCEPT !.status = "superseded"] ELSE s[i]
           o == [i \in 1 .. Len(s) |-> old(i)]
<1>1. s \in Seq(EntryRecs) /\ Len(s) \in Nat /\ DOMAIN s = 1 .. Len(s)
  BY LenProperties DEF EntriesInv
<1>2. ASSUME NEW i \in 1 .. Len(s) PROVE old(i) \in EntryRecs /\ old(i).born = generation
  <2>1. s[i] \in EntryRecs /\ s[i].born = generation
    BY <1>1, ElementOfSeq DEF EntriesInv
  <2>2. [s[i] EXCEPT !.status = "superseded"] \in EntryRecs
        /\ [s[i] EXCEPT !.status = "superseded"].born = generation
    BY <2>1 DEF EntryRecs
  <2> HIDE DEF s
  <2>3. CASE i \in ActiveAt(k)
    BY <2>2, <2>3
  <2>4. CASE i \notin ActiveAt(k)
    BY <2>1, <2>4
  <2> QED
    BY <2>3, <2>4
<1>3. Inserted(k, entry) = Append(o, entry)
  BY <1>1 DEF Inserted
<1> HIDE DEF s, old
<1>4. o \in Seq(EntryRecs) /\ Len(o) = Len(s) /\ \A i \in 1 .. Len(s) : o[i] = old(i)
  BY <1>1, <1>2
<1> HIDE DEF o
<1>5. /\ Append(o, entry) \in Seq(EntryRecs) /\ Len(Append(o, entry)) = Len(s) + 1
      /\ \A i \in 1 .. Len(s) : Append(o, entry)[i] = old(i)
      /\ Append(o, entry)[Len(s) + 1] = entry
  BY <1>4, AppendProperties
<1>6. ASSUME NEW i \in 1 .. Len(s) + 1 PROVE Append(o, entry)[i].born = generation
  <2>1. CASE i = Len(s) + 1
    BY <1>5, <2>1
  <2>2. CASE i \in 1 .. Len(s)
    BY <1>2, <1>5, <2>2
  <2>3. Len(s) \in Nat
    BY <1>1
  <2>4. i = Len(s) + 1 \/ i \in 1 .. Len(s)
    BY <2>3
  <2> QED
    BY <2>1, <2>2, <2>4
<1> QED
  BY <1>3, <1>5, <1>6

LEMMA MemoryInvInitially == ASSUME MemoryAssumption PROVE Init => MemoryInv
<1> SUFFICES ASSUME Init PROVE MemoryInv
  OBVIOUS
<1>0. MaxGeneration \in Nat /\ MaxUpdates \in Nat
  BY DEF MemoryAssumption
<1>1. EntriesInv
  BY <1>0, EmptySeq DEF Init, EntriesInv
<1>2. WorkerInv
  <2>1. updated \in [Threads -> 0 .. MaxUpdates]
    BY <1>0 DEF Init
  <2> QED
    BY <2>1, NoRunTyped DEF Init, WorkerInv
<1>3. RowInv /\ ScanInv
  BY NoRunTyped DEF Init, RowInv, ScanInv
<1>4. OnceInv
  BY <1>0 DEF Init, OnceInv
<1> QED
  BY <1>1, <1>2, <1>3, <1>4 DEF MemoryInv

-----------------------------------------------------------------------------
(* The user and the world.                                                 *)

\* One key gets other versions, all of the present generation.
LEMMA EntriesStep ==
  ASSUME MemoryInv, NEW k \in Keys, NEW s \in Seq(EntryRecs),
         \A i \in 1 .. Len(s) : s[i].born = generation,
         entries' = [entries EXCEPT ![k] = s],
         UNCHANGED <<generation, extraction, times, generating, updated, idle, aged, pc, run>>
  PROVE  MemoryInv'
<1>1. EntriesInv'
  BY DEF MemoryInv, EntriesInv
<1>2. WorkerInv' /\ RowInv' /\ ScanInv' /\ OnceInv'
  BY DEF MemoryInv, WorkerInv, RowInv, ScanInv, OnceInv
<1> QED
  BY <1>1, <1>2 DEF MemoryInv

LEMMA UserStep ==
  ASSUME MemoryAssumption, MemoryInv, User PROVE MemoryInv'
<1>1. ASSUME NEW k \in Keys, AddUser(k) PROVE MemoryInv'
  <2> DEFINE entry == Entry("user", generation)
  <2>1. entry \in EntryRecs /\ entry.born = generation
    BY DEF Entry, EntryRecs, MemoryInv, EntriesInv
  <2>2. entries' = [entries EXCEPT ![k] = Inserted(k, entry)]
        /\ UNCHANGED <<generation, extraction, times, generating, updated, idle, aged, pc, run>>
    BY <1>1 DEF AddUser, thread, worker
  <2> HIDE DEF entry
  <2> QED
    BY <2>1, <2>2, InsertedTyped, EntriesStep DEF MemoryInv
<1>2. ASSUME NEW k \in Keys, Delete(k) \/ Accept(k) PROVE MemoryInv'
  <2>1. PICK i \in ActiveAt(k) : \/ entries' = [entries EXCEPT ![k][i].status = "deleted"]
                                 \/ entries' = [entries EXCEPT ![k][i].trust = "user"]
    BY <1>2 DEF Delete, Accept
  <2>2. /\ entries[k] \in Seq(EntryRecs) /\ i \in 1 .. Len(entries[k])
        /\ entries[k][i] \in EntryRecs
        /\ \A j \in 1 .. Len(entries[k]) : entries[k][j].born = generation
    BY LenProperties, ElementOfSeq DEF MemoryInv, EntriesInv, ActiveAt
  <2>3. PICK e \in EntryRecs : e.born = generation
                              /\ entries' = [entries EXCEPT ![k] = [entries[k] EXCEPT ![i] = e]]
    <3>1. CASE entries' = [entries EXCEPT ![k][i].status = "deleted"]
      <4> DEFINE e == [entries[k][i] EXCEPT !.status = "deleted"]
      <4>1. e \in EntryRecs /\ e.born = generation
        BY <2>2 DEF EntryRecs
      <4>2. entries' = [entries EXCEPT ![k] = [entries[k] EXCEPT ![i] = e]]
        BY <3>1
      <4> QED
        BY <4>1, <4>2
    <3>2. CASE entries' = [entries EXCEPT ![k][i].trust = "user"]
      <4> DEFINE e == [entries[k][i] EXCEPT !.trust = "user"]
      <4>1. e \in EntryRecs /\ e.born = generation
        BY <2>2 DEF EntryRecs
      <4>2. entries' = [entries EXCEPT ![k] = [entries[k] EXCEPT ![i] = e]]
        BY <3>2
      <4> QED
        BY <4>1, <4>2
    <3> QED
      BY <2>1, <3>1, <3>2
  <2> DEFINE s == [entries[k] EXCEPT ![i] = e]
  <2>4. s \in Seq(EntryRecs) /\ \A j \in 1 .. Len(s) : s[j].born = generation
    BY <2>2, <2>3, ExceptSeq
  <2>5. entries' = [entries EXCEPT ![k] = s]
        /\ UNCHANGED <<generation, extraction, times, generating, updated, idle, aged, pc, run>>
    BY <1>2, <2>3 DEF Delete, Accept, thread, worker
  <2> HIDE DEF s
  <2> QED
    BY <2>4, <2>5, EntriesStep
<1>3. ASSUME Reset PROVE MemoryInv'
  <2>1. /\ generation < MaxGeneration /\ generation' = generation + 1
        /\ entries' = [k \in Keys |-> <<>>] /\ extraction' = [t \in Threads |-> None]
        /\ times' = [t \in Threads |-> [u \in 0 .. MaxUpdates |-> 0]]
        /\ UNCHANGED <<generating, updated, idle, aged, pc, run>>
    BY <1>3 DEF Reset, thread, worker
  <2>2. EntriesInv'
    BY <2>1, EmptySeq DEF MemoryAssumption, MemoryInv, EntriesInv
  <2>3. WorkerInv'
    BY <2>1 DEF MemoryInv, WorkerInv
  <2>4. RowInv'
    BY <2>1 DEF RowInv
  <2>5. ScanInv'
    <3>1. \A w \in Workers : run[w].left \subseteq Threads
      BY DEF MemoryInv, WorkerInv, RunRecs
    <3>2. \A t \in Threads : extraction'[t] = None
      BY <2>1
    <3> QED
      BY <2>1, <3>1, <3>2 DEF MemoryInv, ScanInv
  <2>6. OnceInv'
    BY <2>1 DEF OnceInv
  <2> QED
    BY <2>5, <2>6, <2>2, <2>3, <2>4 DEF MemoryInv
<1>4. ASSUME NEW on \in BOOLEAN, SetGenerateEnabled(on) PROVE MemoryInv'
  BY <1>4 DEF SetGenerateEnabled, store, thread, worker, MemoryInv, EntriesInv, WorkerInv, RowInv,
              ScanInv, OnceInv
<1> QED
  BY <1>1, <1>2, <1>3, <1>4 DEF User

LEMMA WorldStep ==
  ASSUME MemoryAssumption, MemoryInv, NEW t \in Threads, World(t) PROVE MemoryInv'
<1>1. CASE ThreadUpdated(t)
  <2>1. /\ updated[t] < MaxUpdates /\ updated' = [updated EXCEPT ![t] = @ + 1]
        /\ idle' = [idle EXCEPT ![t] = FALSE] /\ aged' = [aged EXCEPT ![t] = FALSE]
        /\ UNCHANGED <<generation, entries, extraction, times, generating, pc, run>>
    BY <1>1 DEF ThreadUpdated, store, worker
  <2>2. /\ updated' \in [Threads -> 0 .. MaxUpdates]
        /\ \A s \in Threads : updated[s] \in Nat /\ updated'[s] \in Nat /\ updated[s] <= updated'[s]
        /\ \A s \in Threads : idle'[s] => idle[s] /\ updated'[s] = updated[s]
    BY <2>1 DEF MemoryAssumption, MemoryInv, WorkerInv
  <2>3. \A w \in Workers : run[w].left \subseteq Threads /\ run[w].seen \in [Threads -> 0 .. MaxUpdates]
    BY DEF MemoryInv, WorkerInv, RunRecs
  <2>4. EntriesInv' /\ WorkerInv' /\ OnceInv'
    BY <2>1, <2>2 DEF MemoryInv, EntriesInv, WorkerInv, OnceInv
  <2>5. RowInv'
    BY <2>1, <2>2 DEF MemoryInv, RowInv, Rows
  <2>6. ScanInv'
    <3>1. \A w \in Workers, s \in Threads : run[w].seen[s] <= updated'[s]
      BY <2>2, <2>3 DEF MemoryInv, ScanInv
    <3> QED
      BY <2>1, <2>2, <2>3, <3>1 DEF MemoryInv, ScanInv
  <2> QED
    BY <2>4, <2>5, <2>6 DEF MemoryInv
<1>2. CASE ThreadRests(t)
  <2>1. /\ \A w \in Workers : t \notin run[w].left
        /\ idle' = [idle EXCEPT ![t] = TRUE]
        /\ UNCHANGED <<generation, entries, extraction, times, generating, updated, aged, pc, run>>
    BY <1>2 DEF ThreadRests, store, worker
  <2>2. \A w \in Workers : \A s \in run[w].left : s # t /\ s \in Threads
    BY <2>1 DEF MemoryInv, WorkerInv, RunRecs
  <2>3. idle' \in [Threads -> BOOLEAN] /\ \A s \in Threads : s # t => idle'[s] = idle[s]
    BY <2>1 DEF MemoryInv, WorkerInv
  <2>4. EntriesInv' /\ WorkerInv' /\ RowInv' /\ OnceInv'
    BY <2>1, <2>3 DEF MemoryInv, EntriesInv, WorkerInv, RowInv, OnceInv
  <2>5. ScanInv'
    BY <2>1, <2>2, <2>3 DEF MemoryInv, ScanInv
  <2> QED
    BY <2>4, <2>5 DEF MemoryInv
<1>3. CASE LeaseExpires(t) \/ RetryIsDue(t)
  <2>1. /\ extraction[t] # None
        /\ \/ extraction' = [extraction EXCEPT ![t].leased = FALSE]
           \/ extraction' = [extraction EXCEPT ![t].wait = FALSE]
        /\ UNCHANGED <<generation, entries, times, generating, updated, idle, aged, pc, run>>
    BY <1>3 DEF LeaseExpires, RetryIsDue, thread, worker
  <2>2. extraction[t] \in Rows
    BY <2>1 DEF MemoryInv, RowInv
  <2>3. PICK row \in Rows :
          /\ extraction' = [extraction EXCEPT ![t] = row]
          /\ row.source = extraction[t].source /\ row.status = extraction[t].status
          /\ row.leased => extraction[t].leased
          /\ row.wait => extraction[t].wait
    <3>1. CASE extraction' = [extraction EXCEPT ![t].leased = FALSE]
      <4> DEFINE row == [extraction[t] EXCEPT !.leased = FALSE]
      <4>1. /\ row \in Rows /\ row.source = extraction[t].source
            /\ row.status = extraction[t].status
            /\ row.leased => extraction[t].leased
            /\ row.wait => extraction[t].wait
        BY <2>2 DEF Rows
      <4>2. extraction' = [extraction EXCEPT ![t] = row]
        BY <3>1
      <4> HIDE DEF row
      <4> QED
        BY <4>1, <4>2
    <3>2. CASE extraction' = [extraction EXCEPT ![t].wait = FALSE]
      <4> DEFINE row == [extraction[t] EXCEPT !.wait = FALSE]
      <4>1. /\ row \in Rows /\ row.source = extraction[t].source
            /\ row.status = extraction[t].status
            /\ row.leased => extraction[t].leased
            /\ row.wait => extraction[t].wait
        BY <2>2 DEF Rows
      <4>2. extraction' = [extraction EXCEPT ![t] = row]
        BY <3>2
      <4> HIDE DEF row
      <4> QED
        BY <4>1, <4>2
    <3> QED
      BY <2>1, <3>1, <3>2
  <2>4. /\ row # None
        /\ \A s \in Threads : extraction'[s] = IF s = t THEN row ELSE extraction[s]
    BY <2>3 DEF MemoryAssumption, MemoryInv, RowInv
  <2>5. EntriesInv' /\ WorkerInv'
    BY <2>1 DEF MemoryInv, EntriesInv, WorkerInv
  <2>6. RowInv'
    BY <2>1, <2>3, <2>4 DEF MemoryInv, RowInv
  <2>7. ScanInv'
    <3>1. \A w \in Workers : \A s \in run[w].left : s \in Threads
      BY DEF MemoryInv, WorkerInv, RunRecs
    <3> QED
      BY <2>1, <2>3, <2>4, <3>1 DEF MemoryInv, ScanInv
  <2>8. OnceInv'
    BY <2>1, <2>3, <2>4 DEF MemoryInv, OnceInv
  <2> QED
    BY <2>5, <2>6, <2>7, <2>8 DEF MemoryInv
<1>4. CASE ThreadAges(t)
  <2>1. /\ aged' = [aged EXCEPT ![t] = TRUE]
        /\ UNCHANGED <<generation, entries, extraction, times, generating, updated, idle, pc, run>>
    BY <1>4 DEF ThreadAges, store, worker
  <2> QED
    BY <2>1 DEF MemoryInv, EntriesInv, WorkerInv, RowInv, ScanInv, OnceInv
<1> QED
  BY <1>1, <1>2, <1>3, <1>4 DEF World

-----------------------------------------------------------------------------
(* The scans.                                                              *)

\* A worker changes its own run and nothing of the store.
LEMMA RunStep ==
  ASSUME MemoryInv, NEW w \in Workers, NEW r \in RunRecs, NEW l \in {"idle", "begun", "scanning", "extracting", "finishing"},
         run' = [run EXCEPT ![w] = r], pc' = [pc EXCEPT ![w] = l],
         l \in {"extracting", "finishing"} => r.thread \in Threads,
         \A t \in Threads : r.seen[t] <= updated[t],
         r.left = {} \/ (r.left \subseteq run[w].left /\ r.seen = run[w].seen),
         UNCHANGED <<generation, entries, extraction, times, generating, updated, idle, aged>>
  PROVE  MemoryInv'
<1>1. /\ \A v \in Workers : v # w => run'[v] = run[v] /\ pc'[v] = pc[v]
      /\ run'[w] = r /\ pc'[w] = l
      /\ \A v \in Workers : run[v].left \subseteq Threads
  BY DEF MemoryInv, WorkerInv, RunRecs
<1>2. EntriesInv' /\ RowInv' /\ OnceInv'
  BY DEF MemoryInv, EntriesInv, RowInv, OnceInv
<1>3. WorkerInv'
  BY <1>1 DEF MemoryInv, WorkerInv
<1>4. ASSUME NEW v \in Workers, NEW t \in run'[v].left
      PROVE  t \in run[v].left /\ run'[v].seen = run[v].seen
  BY <1>1
<1>5. ScanInv'
  <2>1. \A v \in Workers, t \in Threads : run'[v].seen[t] <= updated[t]
    BY <1>1 DEF MemoryInv, ScanInv
  <2> QED
    BY <1>4, <2>1 DEF MemoryInv, ScanInv
<1> QED
  BY <1>2, <1>3, <1>5 DEF MemoryInv

\* A worker that goes on with its scan has the same threads before it.
LEMMA Resumed ==
  ASSUME MemoryAssumption, MemoryInv, NEW w \in Workers, Resume(w)
  PROVE  \E r \in RunRecs : /\ run' = [run EXCEPT ![w] = r] /\ pc' = [pc EXCEPT ![w] = "scanning"]
                            /\ r.left = run[w].left /\ r.seen = run[w].seen
<1> DEFINE r == [run[w] EXCEPT !.thread = None, !.drafts = {}, !.failed = FALSE]
<1>1. run[w] \in RunRecs
  BY DEF MemoryInv, WorkerInv
<1>2. r \in RunRecs /\ r.left = run[w].left /\ r.seen = run[w].seen
  BY <1>1 DEF RunRecs
<1>3. run' = [run EXCEPT ![w] = r] /\ pc' = [pc EXCEPT ![w] = "scanning"]
  BY DEF Resume, Goto, MemoryInv, WorkerInv
<1> HIDE DEF r
<1> QED
  BY <1>2, <1>3

LEMMA QuietScanSteps ==
  ASSUME MemoryAssumption, MemoryInv, NEW w \in Workers,
         \/ BeginScan(w) \/ Disabled(w) \/ EndScan(w) \/ Crash(w) \/ Extract(w) \/ DropResult(w)
         \/ \E t \in Threads : Skip(w, t)
  PROVE  MemoryInv'
<1> DEFINE Labels == {"idle", "begun", "scanning", "extracting", "finishing"}
<1>1. /\ run[w] \in RunRecs /\ \A t \in Threads : run[w].seen[t] <= updated[t]
      /\ updated \in [Threads -> 0 .. MaxUpdates] /\ generation \in Nat
  BY DEF MemoryInv, WorkerInv, ScanInv, EntriesInv
<1>2. \A t \in Threads : 0 <= updated[t]
  BY <1>1
<1>3. CASE BeginScan(w) \/ Disabled(w) \/ EndScan(w) \/ Crash(w)
  <2>1. PICK g \in Nat : run' = [run EXCEPT ![w] = [NoRun EXCEPT !.generation = g]]
    <3>1. NoRun = [NoRun EXCEPT !.generation = 0]
      <4>1. NoRun \in RunRecs /\ NoRun.generation = 0
        BY NoRunTyped DEF NoRun
      <4> QED
        BY <4>1 DEF RunRecs
    <3>2. BeginScan(w) => run' = [run EXCEPT ![w] = [NoRun EXCEPT !.generation = generation]]
      BY DEF BeginScan
    <3>3. ~BeginScan(w) => run' = [run EXCEPT ![w] = NoRun]
      BY <1>3 DEF Disabled, EndScan, Crash
    <3> QED
      BY <1>1, <3>1, <3>2, <3>3
  <2> DEFINE r == [NoRun EXCEPT !.generation = g]
  <2>2. r \in RunRecs /\ r.left = {} /\ \A t \in Threads : r.seen[t] = 0
    BY NoRunTyped DEF NoRun, RunRecs
  <2>3. PICK l \in {"idle", "begun"} : pc' = [pc EXCEPT ![w] = l]
    BY <1>3 DEF BeginScan, Disabled, EndScan, Crash, Goto
  <2>4. UNCHANGED <<generation, entries, extraction, times, generating, updated, idle, aged>>
    BY <1>3 DEF BeginScan, Disabled, EndScan, Crash, store, thread
  <2>5. run' = [run EXCEPT ![w] = r]
    BY <2>1
  <2> HIDE DEF r
  <2>6. l \in Labels /\ l \notin {"extracting", "finishing"}
    BY <2>3
  <2> QED
    BY <1>2, <2>2, <2>3, <2>4, <2>5, <2>6, RunStep
<1>4. CASE Extract(w)
  <2>1. PICK D \in SUBSET Keys, b \in BOOLEAN :
          run' = [run EXCEPT ![w] = [run[w] EXCEPT !.drafts = D, !.failed = b]]
    <3>1. CASE \E D \in SUBSET Keys : run' = [run EXCEPT ![w].drafts = D, ![w].failed = FALSE]
      BY <3>1 DEF MemoryInv, WorkerInv
    <3>2. CASE run' = [run EXCEPT ![w].drafts = {}, ![w].failed = TRUE]
      BY <3>2 DEF MemoryInv, WorkerInv
    <3> QED
      BY <1>4, <3>1, <3>2 DEF Extract
  <2> DEFINE r == [run[w] EXCEPT !.drafts = D, !.failed = b]
  <2>2. r \in RunRecs /\ r.left = run[w].left /\ r.seen = run[w].seen /\ r.thread = run[w].thread
    BY <1>1 DEF RunRecs
  <2>3. /\ pc' = [pc EXCEPT ![w] = "finishing"] /\ run[w].thread \in Threads
        /\ UNCHANGED <<generation, entries, extraction, times, generating, updated, idle, aged>>
    BY <1>4 DEF Extract, Goto, store, thread, MemoryInv, WorkerInv
  <2>4. run' = [run EXCEPT ![w] = r]
    BY <2>1
  <2> HIDE DEF r
  <2> QED
    BY <1>1, <2>2, <2>3, <2>4, RunStep
<1>5. CASE DropResult(w)
  <2>1. PICK r \in RunRecs :
          /\ run' = [run EXCEPT ![w] = r] /\ pc' = [pc EXCEPT ![w] = "scanning"]
          /\ r.left = run[w].left /\ r.seen = run[w].seen
    BY <1>5, Resumed DEF DropResult
  <2>2. UNCHANGED <<generation, entries, extraction, times, generating, updated, idle, aged>>
    BY <1>5 DEF DropResult, store, thread
  <2> QED
    BY <1>1, <2>1, <2>2, RunStep
<1>6. ASSUME NEW t \in Threads, Skip(w, t) PROVE MemoryInv'
  <2> DEFINE r == [run[w] EXCEPT !.left = @ \ {t}]
  <2>1. r \in RunRecs /\ r.left \subseteq run[w].left /\ r.seen = run[w].seen
    BY <1>1 DEF RunRecs
  <2>2. /\ pc' = [pc EXCEPT ![w] = "scanning"] /\ run' = [run EXCEPT ![w] = r]
        /\ UNCHANGED <<generation, entries, extraction, times, generating, updated, idle, aged>>
    BY <1>6 DEF Skip, store, thread, MemoryInv, WorkerInv
  <2> HIDE DEF r
  <2> QED
    BY <1>1, <2>1, <2>2, RunStep
<1> QED
  BY <1>3, <1>4, <1>5, <1>6

\* A scan lists threads at rest, whose present state it sees.
LEMMA ListStep ==
  ASSUME MemoryAssumption, MemoryInv, NEW w \in Workers, List(w) PROVE MemoryInv'
<1>0. PICK o \in Threads \cup {None} :
        run' = [run EXCEPT ![w].open = o, ![w].left = Listed(o), ![w].seen = updated]
  BY DEF List
<1> DEFINE L == Listed(o)
           r == [run[w] EXCEPT !.open = o, !.left = L, !.seen = updated]
<1>1. /\ run[w] \in RunRecs /\ updated \in [Threads -> 0 .. MaxUpdates]
      /\ \A v \in Workers : run[v].left \subseteq Threads
  BY DEF MemoryInv, WorkerInv, RunRecs
<1>2. /\ run' = [run EXCEPT ![w] = r] /\ pc' = [pc EXCEPT ![w] = "scanning"]
      /\ UNCHANGED <<generation, entries, extraction, times, generating, updated, idle, aged>>
  BY <1>0 DEF List, Goto, store, thread, MemoryInv, WorkerInv
<1>4. L \subseteq Threads /\ \A t \in L : idle[t]
  BY DEF Listed
<1> HIDE DEF L
<1>3. r \in RunRecs /\ r.left = L /\ r.seen = updated
  BY <1>1, <1>4 DEF RunRecs
<1> HIDE DEF r
<1>5. /\ \A v \in Workers : v # w => run'[v] = run[v] /\ pc'[v] = pc[v]
      /\ run'[w] = r /\ pc'[w] = "scanning"
  BY <1>2 DEF MemoryInv, WorkerInv
<1>6. EntriesInv' /\ RowInv' /\ OnceInv'
  BY <1>2 DEF MemoryInv, EntriesInv, RowInv, OnceInv
<1>7. WorkerInv'
  BY <1>2, <1>3, <1>5 DEF MemoryInv, WorkerInv
<1>8. \A v \in Workers, t \in Threads : run'[v].seen[t] <= updated[t]
  BY <1>1, <1>3, <1>5 DEF MemoryInv, ScanInv
<1>9. ASSUME NEW v \in Workers, NEW t \in run'[v].left
      PROVE  /\ idle[t] => run'[v].seen[t] = updated[t]
             /\ extraction[t] # None => extraction[t].source <= run'[v].seen[t]
             /\ t \in L => run'[v].seen[t] = updated[t]
  <2>1. CASE v = w
    BY <1>3, <1>4, <1>5, <2>1 DEF MemoryInv, RowInv
  <2>2. CASE v # w
    BY <1>4, <1>5, <2>2 DEF MemoryInv, ScanInv
  <2> QED
    BY <2>1, <2>2
<1>10. ASSUME NEW v \in Workers, NEW t \in run'[v].left, NEW x \in Workers, t \in run'[x].left
       PROVE  run'[x].seen[t] = run'[v].seen[t]
  <2>1. CASE t \in L
    BY <1>9, <1>10, <2>1
  <2>2. CASE t \notin L
    <3>1. v # w /\ x # w
      BY <1>3, <1>5, <1>10, <2>2
    <3> QED
      BY <1>5, <1>10, <3>1 DEF MemoryInv, ScanInv
  <2> QED
    BY <2>1, <2>2
<1>11. ScanInv'
  BY <1>2, <1>8, <1>9, <1>10 DEF ScanInv
<1> QED
  BY <1>6, <1>7, <1>11 DEF MemoryInv

\* A claim takes over a row of an earlier state, or of this one when it was
\* not extracted.
LEMMA ClaimStep ==
  ASSUME MemoryAssumption, MemoryInv, NEW w \in Workers, NEW t \in Threads, Claim(w, t) PROVE MemoryInv'
<1> DEFINE r == [run[w] EXCEPT !.left = @ \ {t}, !.scanned = @ + 1, !.thread = t]
           row == [source |-> run[w].seen[t], status |-> "running", leased |-> TRUE,
                   wait |-> FALSE]
<1>1. /\ run[w] \in RunRecs /\ updated \in [Threads -> 0 .. MaxUpdates]
      /\ \A v \in Workers : run[v] \in RunRecs /\ run[v].left \subseteq Threads
  BY DEF MemoryInv, WorkerInv, RunRecs
<1>2. /\ t \in run[w].left /\ Claimable(t, run[w].seen[t])
      /\ run' = [run EXCEPT ![w] = r] /\ pc' = [pc EXCEPT ![w] = "extracting"]
      /\ extraction' = [extraction EXCEPT ![t] = row]
      /\ UNCHANGED <<generation, entries, times, generating, updated, idle, aged>>
  BY DEF Claim, Goto, thread, MemoryInv, WorkerInv
<1>3. /\ r \in RunRecs /\ r.left = run[w].left \ {t} /\ r.seen = run[w].seen /\ r.thread = t
  <2>1. run[w].scanned + 1 \in Nat /\ run[w].left \ {t} \in SUBSET Threads
    BY <1>1 DEF RunRecs
  <2>2. r = [run[w] EXCEPT !.left = run[w].left \ {t}, !.scanned = run[w].scanned + 1,
                           !.thread = t]
    OBVIOUS
  <2> QED
    BY <1>1, <2>1, <2>2 DEF RunRecs
<1>4. run[w].seen[t] \in Nat /\ run[w].seen[t] <= updated[t]
  BY <1>1 DEF MemoryAssumption, MemoryInv, ScanInv, RunRecs
<1>5. /\ row \in Rows /\ row.source = run[w].seen[t] /\ row.status = "running"
      /\ ~row.wait
  BY <1>4 DEF Rows
<1>6. row # None
  BY <1>5 DEF MemoryAssumption
<1> HIDE DEF r, row
<1>7. /\ \A v \in Workers : v # w => run'[v] = run[v] /\ pc'[v] = pc[v]
      /\ run'[w] = r /\ pc'[w] = "extracting"
      /\ \A s \in Threads : extraction'[s] = IF s = t THEN row ELSE extraction[s]
  BY <1>2 DEF MemoryInv, WorkerInv, RowInv
<1>8. EntriesInv'
  BY <1>2 DEF MemoryInv, EntriesInv
<1>9. WorkerInv'
  BY <1>2, <1>3, <1>7 DEF MemoryInv, WorkerInv
<1>10. RowInv'
  BY <1>2, <1>4, <1>5, <1>7 DEF MemoryInv, RowInv
<1>11. ASSUME NEW v \in Workers
       PROVE  run'[v].left \subseteq run[v].left /\ run'[v].seen = run[v].seen
  BY <1>3, <1>7
<1>12. ScanInv'
  <2>1. \A v \in Workers, s \in Threads : run'[v].seen[s] <= updated[s]
    BY <1>11 DEF MemoryInv, ScanInv
  <2>2. ASSUME NEW v \in Workers, NEW s \in run'[v].left
        PROVE  /\ idle[s] => run'[v].seen[s] = updated[s]
               /\ \A x \in Workers : s \in run'[x].left => run'[x].seen[s] = run'[v].seen[s]
    BY <1>11 DEF MemoryInv, ScanInv
  <2>3. ASSUME NEW v \in Workers, NEW s \in run'[v].left, extraction'[s] # None
        PROVE  extraction'[s].source <= run'[v].seen[s]
    <3>1. s \in run[v].left /\ s \in Threads /\ run'[v].seen = run[v].seen
      BY <1>1, <1>11
    <3>2. CASE s = t
      <4>1. run[v].seen[t] = run[w].seen[t]
        BY <1>2, <3>1, <3>2 DEF MemoryInv, ScanInv
      <4> QED
        BY <1>4, <1>5, <1>7, <3>1, <3>2, <4>1
    <3>3. CASE s # t
      BY <1>7, <2>3, <3>1, <3>3 DEF MemoryInv, ScanInv
    <3> QED
      BY <3>2, <3>3
  <2> QED
    BY <1>2, <2>1, <2>2, <2>3 DEF ScanInv
<1>13. OnceInv'
  <2>1. ASSUME NEW s \in Threads, NEW u \in 0 .. MaxUpdates, times[s][u] = 1
        PROVE  /\ extraction'[s] # None /\ extraction'[s].source >= u
               /\ extraction'[s].source = u => extraction'[s].status = "succeeded"
    <3>1. /\ extraction[s] # None /\ extraction[s].source >= u
          /\ extraction[s].source = u => extraction[s].status = "succeeded"
      BY <2>1 DEF MemoryInv, OnceInv
    <3>2. CASE s = t
      <4>1. extraction[t].source \in Nat /\ extraction[t].source <= run[w].seen[t]
        BY <1>2, <3>1, <3>2 DEF MemoryInv, RowInv, ScanInv, Rows
      <4>2. extraction[t].source = run[w].seen[t] => extraction[t].status # "succeeded"
        BY <1>2, <3>1, <3>2 DEF Claimable
      <4>3. u \in Nat
        BY DEF MemoryAssumption
      <4>4. run[w].seen[t] > u
        BY <1>4, <3>1, <3>2, <4>1, <4>2, <4>3
      <4> QED
        BY <1>4, <1>5, <1>6, <1>7, <3>2, <4>3, <4>4
    <3>3. CASE s # t
      BY <1>7, <3>1, <3>3
    <3> QED
      BY <3>2, <3>3
  <2> QED
    BY <1>2, <2>1 DEF MemoryInv, OnceInv
<1> QED
  BY <1>8, <1>9, <1>10, <1>12, <1>13 DEF MemoryInv

\* The row of a result is that of the state its worker claimed.
LEMMA HeldRow ==
  ASSUME MemoryAssumption, MemoryInv, NEW w \in Workers, pc[w] = "finishing", Holds(w)
  PROVE  LET t == run[w].thread
         IN  /\ t \in Threads /\ extraction[t] \in Rows /\ extraction[t] # None
             /\ extraction[t].status = "running" /\ extraction[t].source = run[w].seen[t]
             /\ generation = run[w].generation /\ run[w].seen[t] \in 0 .. MaxUpdates
             /\ extraction[t].source <= updated[t]
<1>1. run[w].thread \in Threads /\ run[w] \in RunRecs
  BY DEF MemoryInv, WorkerInv
<1>2. run[w].seen[run[w].thread] \in 0 .. MaxUpdates
  BY <1>1 DEF RunRecs
<1> QED
  BY <1>1, <1>2 DEF Holds, MemoryInv, RowInv

\* A held row ends, and with it, when it succeeded, one extraction more.
LEMMA FinishKeeps ==
  ASSUME MemoryAssumption, MemoryInv, NEW w \in Workers,
         NEW t \in Threads, extraction[t] \in Rows, extraction[t] # None,
         extraction[t].status = "running", extraction[t].source <= updated[t],
         NEW row \in Rows, row.source = extraction[t].source, ~row.leased,
         row.wait => row.status = "failed",
         extraction' = [extraction EXCEPT ![t] = row], Resume(w),
         UNCHANGED <<generation, generating, updated, idle, aged>>
  PROVE  /\ WorkerInv' /\ RowInv' /\ ScanInv' /\ row # None
         /\ \A s \in Threads : extraction'[s] = IF s = t THEN row ELSE extraction[s]
<1>1. row # None /\ \A s \in Threads : extraction'[s] = IF s = t THEN row ELSE extraction[s]
  BY DEF MemoryAssumption, MemoryInv, RowInv
<1>2. PICK r \in RunRecs :
        /\ run' = [run EXCEPT ![w] = r] /\ pc' = [pc EXCEPT ![w] = "scanning"]
        /\ r.left = run[w].left /\ r.seen = run[w].seen
  BY Resumed
<1>3. /\ \A v \in Workers : v # w => run'[v] = run[v] /\ pc'[v] = pc[v]
      /\ run'[w] = r /\ pc'[w] = "scanning"
      /\ \A v \in Workers : run[v].left \subseteq Threads
  BY <1>2 DEF MemoryInv, WorkerInv, RunRecs
<1>4. \A v \in Workers : run'[v].left = run[v].left /\ run'[v].seen = run[v].seen
  BY <1>2, <1>3
<1>5. WorkerInv'
  BY <1>2, <1>3 DEF MemoryInv, WorkerInv
<1>6. RowInv'
  BY <1>1 DEF MemoryInv, RowInv
<1>7. ScanInv'
  BY <1>1, <1>3, <1>4 DEF MemoryInv, ScanInv
<1> QED
  BY <1>1, <1>5, <1>6, <1>7

LEMMA FailureStep ==
  ASSUME MemoryAssumption, MemoryInv, NEW w \in Workers, FinishFailure(w) PROVE MemoryInv'
<1> DEFINE t == run[w].thread
           row == [extraction[t] EXCEPT !.status = "failed", !.leased = FALSE, !.wait = TRUE]
<1>1. /\ pc[w] = "finishing" /\ Holds(w) /\ Resume(w)
      /\ UNCHANGED <<generation, entries, times, generating, updated, idle, aged>>
  BY DEF FinishFailure, thread
<1>2. /\ t \in Threads /\ extraction[t] \in Rows /\ extraction[t] # None
      /\ extraction[t].status = "running" /\ extraction[t].source <= updated[t]
  BY <1>1, HeldRow
<1>3. extraction' = [extraction EXCEPT ![t] = row]
  BY DEF FinishFailure
<1>4. /\ row \in Rows /\ row.source = extraction[t].source /\ ~row.leased
      /\ row.status = "failed"
  BY <1>2 DEF Rows
<1> HIDE DEF t, row
<1>5. /\ WorkerInv' /\ RowInv' /\ ScanInv' /\ row # None
      /\ \A s \in Threads : extraction'[s] = IF s = t THEN row ELSE extraction[s]
  BY <1>1, <1>2, <1>3, <1>4, FinishKeeps
<1>6. EntriesInv'
  BY <1>1 DEF MemoryInv, EntriesInv
<1>7. OnceInv'
  BY <1>1, <1>2, <1>4, <1>5 DEF MemoryInv, OnceInv
<1> QED
  BY <1>5, <1>6, <1>7 DEF MemoryInv

LEMMA SuccessStep ==
  ASSUME MemoryAssumption, MemoryInv, NEW w \in Workers, FinishSuccess(w) PROVE MemoryInv'
<1> DEFINE t == run[w].thread
           x == run[w].seen[t]
           entry == Entry("candidate", run[w].generation)
           row == [extraction[t] EXCEPT !.status = "succeeded", !.leased = FALSE, !.wait = FALSE]
<1>1. /\ pc[w] = "finishing" /\ Holds(w) /\ Resume(w)
      /\ UNCHANGED <<generation, generating, updated, idle, aged>>
      /\ times' = [times EXCEPT ![t][x] = @ + 1]
      /\ entries' = [k \in Keys |-> IF k \in Accepted(w) THEN Inserted(k, entry) ELSE entries[k]]
  BY DEF FinishSuccess, thread
<1>2. /\ t \in Threads /\ extraction[t] \in Rows /\ extraction[t] # None
      /\ extraction[t].status = "running" /\ extraction[t].source <= updated[t]
      /\ extraction[t].source = x /\ x \in 0 .. MaxUpdates /\ generation = run[w].generation
  BY <1>1, HeldRow
<1>3. extraction' = [extraction EXCEPT ![t] = row]
  BY DEF FinishSuccess
<1>4. /\ row \in Rows /\ row.source = extraction[t].source /\ ~row.leased
      /\ row.status = "succeeded" /\ ~row.wait
  BY <1>2 DEF Rows
<1>5. entry \in EntryRecs /\ entry.born = generation
  BY <1>2 DEF Entry, EntryRecs, MemoryInv, EntriesInv
<1> HIDE DEF t, x, row, entry
<1>6. /\ WorkerInv' /\ RowInv' /\ ScanInv' /\ row # None
      /\ \A s \in Threads : extraction'[s] = IF s = t THEN row ELSE extraction[s]
  BY <1>1, <1>2, <1>3, <1>4, FinishKeeps
<1>7. EntriesInv'
  <2>1. ASSUME NEW k \in Keys
        PROVE  /\ entries'[k] \in Seq(EntryRecs)
               /\ \A i \in 1 .. Len(entries'[k]) : entries'[k][i].born = generation
    <3>1. CASE k \in Accepted(w)
      <4>1. entries'[k] = Inserted(k, entry)
        BY <1>1, <3>1
      <4> QED
        BY <1>5, <4>1, InsertedTyped DEF MemoryInv
    <3>2. CASE k \notin Accepted(w)
      BY <1>1, <3>2 DEF MemoryInv, EntriesInv
    <3> QED
      BY <3>1, <3>2
  <2>2. entries' \in [Keys -> Seq(EntryRecs)]
    BY <1>1, <2>1
  <2> QED
    BY <1>1, <2>1, <2>2 DEF MemoryInv, EntriesInv
<1>8. times[t][x] = 0
  BY <1>2 DEF MemoryInv, OnceInv
<1>9. /\ times' \in [Threads -> [0 .. MaxUpdates -> {0, 1}]]
      /\ \A s \in Threads, u \in 0 .. MaxUpdates :
           times'[s][u] = IF s = t /\ u = x THEN 1 ELSE times[s][u]
  <2>1. times \in [Threads -> [0 .. MaxUpdates -> {0, 1}]]
    BY DEF MemoryInv, OnceInv
  <2>2. times' = [times EXCEPT ![t] = [times[t] EXCEPT ![x] = 1]]
    BY <1>1, <1>2, <1>8, <2>1
  <2> QED
    BY <1>2, <2>1, <2>2
<1>10. OnceInv'
  <2>1. ASSUME NEW s \in Threads, NEW u \in 0 .. MaxUpdates, times'[s][u] = 1
        PROVE  /\ extraction'[s] # None /\ extraction'[s].source >= u
               /\ extraction'[s].source = u => extraction'[s].status = "succeeded"
    <3>1. CASE s = t /\ u = x
      <4>1. x \in Nat
        BY <1>2 DEF MemoryAssumption
      <4> QED
        BY <1>2, <1>4, <1>6, <3>1, <4>1
    <3>2. CASE ~(s = t /\ u = x)
      <4>1. times[s][u] = 1
        BY <1>9, <2>1, <3>2
      <4>2. /\ extraction[s] # None /\ extraction[s].source >= u
            /\ extraction[s].source = u => extraction[s].status = "succeeded"
        BY <4>1 DEF MemoryInv, OnceInv
      <4> QED
        BY <1>4, <1>6, <4>2
    <3> QED
      BY <3>1, <3>2
  <2> QED
    BY <1>9, <2>1 DEF OnceInv
<1> QED
  BY <1>6, <1>7, <1>10 DEF MemoryInv

-----------------------------------------------------------------------------
LEMMA MemoryInvStep == ASSUME MemoryAssumption PROVE MemoryInv /\ [Next]_vars => MemoryInv'
<1> SUFFICES ASSUME MemoryInv, [Next]_vars PROVE MemoryInv'
  OBVIOUS
<1>1. CASE UNCHANGED vars
  BY <1>1 DEF vars, store, thread, worker, MemoryInv, EntriesInv, WorkerInv, RowInv, ScanInv, OnceInv
<1>2. CASE User
  BY <1>2, UserStep
<1>3. ASSUME NEW t \in Threads, World(t) PROVE MemoryInv'
  BY <1>3, WorldStep
<1>4. ASSUME NEW w \in Workers, Scan(w) \/ Crash(w) PROVE MemoryInv'
  <2>1. CASE \/ BeginScan(w) \/ Disabled(w) \/ EndScan(w) \/ Crash(w) \/ Extract(w)
             \/ DropResult(w) \/ \E t \in Threads : Skip(w, t)
    BY <2>1, QuietScanSteps
  <2>2. CASE List(w)
    BY <2>2, ListStep
  <2>3. ASSUME NEW t \in Threads, Claim(w, t) PROVE MemoryInv'
    BY <2>3, ClaimStep
  <2>4. CASE FinishSuccess(w)
    BY <2>4, SuccessStep
  <2>5. CASE FinishFailure(w)
    BY <2>5, FailureStep
  <2> QED
    BY <1>4, <2>1, <2>2, <2>3, <2>4, <2>5 DEF Scan
<1> QED
  BY <1>1, <1>2, <1>3, <1>4 DEF Next

\* What the invariant says in the words of the properties.
LEMMA IInvIsExact == ASSUME MemoryAssumption PROVE MemoryInv => ExtractionsAreExact
<1> SUFFICES ASSUME MemoryInv PROVE ExtractionsAreExact
  OBVIOUS
<1>1. \A k \in Keys : /\ DOMAIN entries[k] = 1 .. Len(entries[k])
                       /\ \A i \in 1 .. Len(entries[k]) : entries[k][i] \in EntryRecs
  BY LenProperties, ElementOfSeq DEF MemoryInv, EntriesInv
<1>2. TypeOK
  <2>1. \A w \in Workers : run[w].thread = None => pc[w] \in {"idle", "begun", "scanning"}
    BY DEF MemoryAssumption, MemoryInv, WorkerInv
  <2> QED
    BY <1>1, <2>1 DEF MemoryInv, EntriesInv, WorkerInv, RowInv, EntryRecs, TypeOK
<1>3. ResetForgets
  BY <1>1 DEF MemoryInv, EntriesInv, ResetForgets
<1>4. ExtractedOnce
  <2>1. \A t \in Threads, u \in 0 .. MaxUpdates : times[t][u] \in {0, 1}
    BY DEF MemoryInv, OnceInv
  <2> QED
    BY <2>1 DEF ExtractedOnce
<1> QED
  BY <1>2, <1>3, <1>4 DEF ExtractionsAreExact

-----------------------------------------------------------------------------
(* The user's entries.                                                     *)

\* Only an insertion supersedes: an active entry that a step leaves in place
\* and does not insert after is not superseded by it.
LEMMA OneKeyPrevails ==
  ASSUME MemoryAssumption, MemoryInv, Next, NEW k \in Keys,
         NEW i \in DOMAIN entries[k] \cap DOMAIN entries'[k],
         entries[k][i].trust = "user", entries[k][i].status = "active",
         entries'[k][i].status = "superseded"
  PROVE  entries'[k][Len(entries'[k])].trust = "user"
<1>1. entries'[k] # entries[k]
  OBVIOUS
<1>2. /\ entries[k] \in Seq(EntryRecs) /\ i \in 1 .. Len(entries[k])
      /\ entries \in [Keys -> Seq(EntryRecs)]
  BY LenProperties DEF MemoryInv, EntriesInv
<1>3. ASSUME NEW q \in Keys, AddUser(q) PROVE entries'[k][Len(entries'[k])].trust = "user"
  <2> DEFINE entry == Entry("user", generation)
  <2>1. entry \in EntryRecs /\ entry.born = generation /\ entry.trust = "user"
    BY DEF Entry, EntryRecs, MemoryInv, EntriesInv
  <2>2. q = k /\ entries'[k] = Inserted(k, entry)
    BY <1>1, <1>2, <1>3 DEF AddUser
  <2> HIDE DEF entry
  <2> QED
    BY <2>1, <2>2, InsertedTyped DEF MemoryInv
<1>4. ASSUME NEW q \in Keys, Delete(q) \/ Accept(q) PROVE FALSE
  <2>1. PICK j \in ActiveAt(q) : \/ entries' = [entries EXCEPT ![q][j].status = "deleted"]
                                 \/ entries' = [entries EXCEPT ![q][j].trust = "user"]
    BY <1>4 DEF Delete, Accept
  <2>2. q = k
    BY <1>1, <1>2, <2>1
  <2>3. entries'[k][i] \in {entries[k][i], [entries[k][i] EXCEPT !.status = "deleted"],
                            [entries[k][i] EXCEPT !.trust = "user"]}
    BY <1>2, <2>1, <2>2
  <2>4. entries[k][i] \in EntryRecs
    BY <1>2, ElementOfSeq
  <2> QED
    BY <2>3, <2>4 DEF EntryRecs
<1>5. ASSUME Reset PROVE FALSE
  BY <1>5 DEF Reset
<1>6. ASSUME NEW w \in Workers, FinishSuccess(w) PROVE FALSE
  <2>1. k \in Accepted(w)
    BY <1>1, <1>6 DEF FinishSuccess
  <2>2. UserHolds(k)
    BY DEF UserHolds, ActiveAt
  <2> QED
    BY <2>1, <2>2 DEF Accepted
<1>7. ASSUME NEW on \in BOOLEAN, SetGenerateEnabled(on) PROVE FALSE
  BY <1>1, <1>7 DEF SetGenerateEnabled, store
<1>8. ASSUME NEW t \in Threads, World(t) PROVE FALSE
  BY <1>1, <1>8 DEF World, ThreadUpdated, ThreadRests, ThreadAges, LeaseExpires,
                    RetryIsDue, store
<1>9. ASSUME NEW w \in Workers, Crash(w) \/ Scan(w), ~FinishSuccess(w) PROVE FALSE
  BY <1>1, <1>9 DEF Crash, Scan, BeginScan, Disabled, List, EndScan, Claim, Skip, Extract,
                    FinishFailure, DropResult, store
<1> QED
  BY <1>3, <1>4, <1>5, <1>6, <1>7, <1>8, <1>9 DEF Next, User

LEMMA StepPrevails ==
  ASSUME MemoryAssumption
  PROVE  MemoryInv /\ [Next]_vars =>
           [\A k \in Keys : \A i \in DOMAIN entries[k] \cap DOMAIN entries'[k] :
              entries[k][i].trust = "user" /\ entries[k][i].status = "active"
                /\ entries'[k][i].status = "superseded"
              => entries'[k][Len(entries'[k])].trust = "user"]_vars
<1> SUFFICES ASSUME MemoryInv, Next,
                    NEW k \in Keys, NEW i \in DOMAIN entries[k] \cap DOMAIN entries'[k],
                    entries[k][i].trust = "user", entries[k][i].status = "active",
                    entries'[k][i].status = "superseded"
             PROVE  entries'[k][Len(entries'[k])].trust = "user"
  OBVIOUS
<1> QED
  BY OneKeyPrevails

-----------------------------------------------------------------------------
\* One state of a transcript gives drafts once, however leases expire and
\* workers die or overtake each other, and what was claimed before a reset
\* does not come back after it.
THEOREM ExtractionsStayExact ==
  ASSUME MemoryAssumption PROVE Spec => []ExtractionsAreExact
<1>1. Init => MemoryInv
  BY MemoryInvInitially
<1>2. MemoryInv /\ [Next]_vars => MemoryInv'
  BY MemoryInvStep
<1>3. MemoryInv => ExtractionsAreExact
  BY IInvIsExact
<1> QED
  BY <1>1, <1>2, <1>3, PTL DEF Spec

\* What the user wrote or accepted is replaced only by what the user writes:
\* an extraction that finishes, however old its claim, does not supersede it.
THEOREM UserEntriesStay ==
  ASSUME MemoryAssumption PROVE Spec => UserEntriesPrevail
<1>1. Init => MemoryInv
  BY MemoryInvInitially
<1>2. MemoryInv /\ [Next]_vars => MemoryInv'
  BY MemoryInvStep
<1> QED
  BY <1>1, <1>2, StepPrevails, PTL DEF Spec, UserEntriesPrevail

-----------------------------------------------------------------------------
(* The credentials.                                                        *)

IsCommand(r) ==
  r = [kind |-> r.kind, pc |-> r.pc, edit |-> r.edit, read |-> r.read, url |-> r.url,
       token |-> r.token, kept |-> r.kept]
IsChat(r) ==
  r = [pc |-> r.pc, servers |-> r.servers, endpoint |-> r.endpoint, source |-> r.source,
       credential |-> r.credential, used |-> r.used]

Over == {"done", "failed", "killed"}

\* Tokens are numbered as they are issued, and only issued ones are stored.
TokensInv ==
  /\ audience \in Seq({audience[i] : i \in DOMAIN audience})
  /\ stored \subseteq 1 .. Issued
  /\ keyring.token \in stored \cup {0}
  /\ keyring.token # 0 => audience[keyring.token] = keyring.endpoint

\* A command has the token its own login was issued, and has not stored it
\* before it saves it.
CommandsInv ==
  /\ command = [p \in Commands |-> command[p]]
  /\ \A p \in Commands :
       /\ IsCommand(command[p]) /\ command[p].token \in 0 .. Issued
       /\ command[p].pc = "flow" => command[p].kind = "login"
       /\ command[p].pc \in {"flow", "delete"} => command[p].token = 0
       /\ command[p].pc \notin Over /\ command[p].kind # "login" => command[p].token = 0
       /\ command[p].pc = "save" =>
            /\ command[p].token \in 1 .. Issued \ stored
            /\ audience[command[p].token] = command[p].url
       /\ \A q \in Commands : p # q /\ command[p].token # 0 => command[p].token # command[q].token

\* A chat holds a token of its endpoint; what it has not stored is no login's.
ChatsInv ==
  /\ chat = [c \in Chats |-> chat[c]]
  /\ \A c \in Chats :
       /\ IsChat(chat[c]) /\ chat[c].source \in 0 .. Issued
       /\ chat[c].source # 0 => audience[chat[c].source] = chat[c].endpoint
       /\ chat[c].used \in stored \cup {0} /\ chat[c].credential \in stored \cup {0}
       /\ chat[c].source # chat[c].credential =>
            /\ chat[c].source # 0
            /\ \A p \in Commands : command[p].token # chat[c].source

\* The three parts, and what a failed login promises, which needs them.
ServersInv == TokensInv /\ CommandsInv /\ ChatsInv /\ FailedLoginKeepsNothing
-----------------------------------------------------------------------------
\* Issuing appends: the numbers of the tokens before stay theirs.
LEMMA IssuedOne ==
  ASSUME TokensInv, NEW e, audience' = Append(audience, e)
  PROVE  /\ audience' \in Seq({audience'[i] : i \in DOMAIN audience'})
         /\ Issued \in Nat /\ Issued' = Issued + 1 /\ audience'[Issued + 1] = e
         /\ \A i \in 1 .. Issued : audience'[i] = audience[i]
<1> DEFINE S == {audience[i] : i \in DOMAIN audience} \cup {e}
<1>1. audience \in Seq(S) /\ e \in S
  BY SeqDef DEF TokensInv
<1>2. /\ Append(audience, e) \in Seq(S) /\ Len(Append(audience, e)) = Len(audience) + 1
      /\ \A i \in 1 .. Len(audience) : Append(audience, e)[i] = audience[i]
      /\ Append(audience, e)[Len(audience) + 1] = e /\ Len(audience) \in Nat
  BY <1>1, AppendProperties
<1> HIDE DEF S
<1>3. audience' = [i \in 1 .. Len(audience') |-> audience'[i]] /\ Len(audience') \in Nat
      /\ DOMAIN audience' = 1 .. Len(audience')
  BY <1>2, LenProperties
<1> DEFINE T == {audience'[i] : i \in DOMAIN audience'}
<1>4. audience' \in [1 .. Len(audience') -> T]
  BY <1>3
<1>5. audience' \in Seq(T)
  <2> HIDE DEF T
  <2> QED
    BY <1>3, <1>4, SeqDef
<1> QED
  BY <1>2, <1>5 DEF Issued

LEMMA IssuedIsNat == ASSUME TokensInv PROVE Issued \in Nat
BY LenProperties DEF TokensInv, Issued

LEMMA ServersInvInitially == ServersInit => ServersInv
<1> SUFFICES ASSUME ServersInit PROVE ServersInv
  OBVIOUS
<1>1. Issued = 0 /\ audience = <<>>
  BY DEF ServersInit, Issued
<1>2. TokensInv
  BY <1>1, EmptySeq DEF ServersInit, NoCredential, TokensInv
<1>3. command = [p \in Commands |-> NoCommand] /\ chat = [c \in Chats |-> NoChat]
  BY DEF ServersInit
<1>4. CommandsInv
  <2>1. /\ IsCommand(NoCommand) /\ NoCommand.token = 0 /\ NoCommand.pc = "idle"
    BY Zenon DEF IsCommand, NoCommand
  <2>2. command = [p \in Commands |-> command[p]] /\ \A p \in Commands : command[p] = NoCommand
    BY <1>3
  <2> QED
    BY <1>1, <2>1, <2>2 DEF CommandsInv
<1>5. ChatsInv
  <2>1. /\ IsChat(NoChat) /\ NoChat.source = 0 /\ NoChat.used = 0 /\ NoChat.credential = 0
    BY Zenon DEF IsChat, NoChat
  <2>2. chat = [c \in Chats |-> chat[c]] /\ \A c \in Chats : chat[c] = NoChat
    BY <1>3
  <2> QED
    BY <1>1, <2>1, <2>2 DEF ChatsInv
<1>6. FailedLoginKeepsNothing
  BY <1>3 DEF NoCommand, FailedLoginKeepsNothing
<1> QED
  BY <1>2, <1>4, <1>5, <1>6 DEF ServersInv

-----------------------------------------------------------------------------
(* Commands.                                                               *)

\* A command goes on with the token it has, or without one, and may clear the
\* keyring.
LEMMA CommandStep ==
  ASSUME ServersInv, NEW p \in Commands, NEW r, IsCommand(r), command' = [command EXCEPT ![p] = r],
         r.token \in {0, command[p].token},
         r.pc = "flow" => r.kind = "login",
         r.pc \in {"flow", "delete"} => r.token = 0,
         r.pc \notin Over /\ r.kind # "login" => r.token = 0,
         r.pc # "save",
         keyring' \in {keyring, NoCredential},
         r.pc = "failed" /\ r.token # 0 /\ ~r.kept => keyring'.token # r.token,
         UNCHANGED <<audience, stored, chat>>
  PROVE  ServersInv'
<1>1. /\ \A q \in Commands : q # p => command'[q] = command[q]
      /\ command'[p] = r /\ command' = [q \in Commands |-> command'[q]]
  BY DEF ServersInv, CommandsInv
<1>2. Issued' = Issued /\ NoCredential.token = 0 /\ Issued \in Nat
  BY IssuedIsNat DEF Issued, NoCredential, ServersInv
<1>3. keyring'.token \in {0, keyring.token}
  BY <1>2
<1>4. TokensInv'
  BY <1>2 DEF ServersInv, TokensInv
<1>5. CommandsInv'
  <2>1. \A q \in Commands : command'[q].token \in {0, command[q].token}
    BY <1>1
  <2>2. ASSUME NEW q \in Commands
        PROVE  /\ IsCommand(command'[q]) /\ command'[q].token \in 0 .. Issued
               /\ command'[q].pc = "flow" => command'[q].kind = "login"
               /\ command'[q].pc \in {"flow", "delete"} => command'[q].token = 0
               /\ command'[q].pc \notin Over /\ command'[q].kind # "login"
                    => command'[q].token = 0
               /\ command'[q].pc = "save" =>
                    /\ command'[q].token \in 1 .. Issued \ stored
                    /\ audience[command'[q].token] = command'[q].url
    BY <1>1, <1>2 DEF ServersInv, CommandsInv
  <2>3. ASSUME NEW q \in Commands, NEW x \in Commands, q # x, command'[q].token # 0
        PROVE  command'[q].token # command'[x].token
    BY <2>1, <2>3 DEF ServersInv, CommandsInv
  <2>4. \A q \in Commands : IsCommand(command[q])' <=> IsCommand(command'[q])
    BY DEF IsCommand
  <2> QED
    BY <1>1, <1>2, <2>2, <2>3, <2>4 DEF CommandsInv
<1>6. ChatsInv'
  BY <1>1, <1>2 DEF ServersInv, ChatsInv, IsChat
<1>7. FailedLoginKeepsNothing'
  <2> SUFFICES ASSUME NEW q \in Commands, command'[q].pc = "failed", command'[q].token # 0,
                      ~command'[q].kept
               PROVE  keyring'.token # command'[q].token
    BY DEF FailedLoginKeepsNothing
  <2>1. CASE q = p
    BY <1>1, <2>1
  <2>2. CASE q # p
    BY <1>1, <1>3, <2>2 DEF ServersInv, FailedLoginKeepsNothing
  <2> QED
    BY <2>1, <2>2
<1> QED
  BY <1>4, <1>5, <1>6, <1>7 DEF ServersInv

LEMMA NoCommandIs ==
  IsCommand(NoCommand) /\ NoCommand.token = 0 /\ NoCommand.kind = "none"
BY Zenon DEF IsCommand, NoCommand

\* One field of a command is changed.
LEMMA PutKind ==
  ASSUME NEW r, IsCommand(r), NEW x, NEW s, s = [r EXCEPT !.kind = x]
  PROVE  IsCommand(s) /\ s.kind = x /\ s.pc = r.pc /\ s.url = r.url /\ s.token = r.token
<1>1. s = [kind |-> x, pc |-> r.pc, edit |-> r.edit, read |-> r.read, url |-> r.url, token |-> r.token, kept |-> r.kept]
  BY DEF IsCommand
<1>2. IsCommand(s)
  BY <1>1, Zenon DEF IsCommand
<1> QED
  BY <1>1, <1>2

LEMMA PutPc ==
  ASSUME NEW r, IsCommand(r), NEW x, NEW s, s = [r EXCEPT !.pc = x]
  PROVE  IsCommand(s) /\ s.pc = x /\ s.kind = r.kind /\ s.url = r.url /\ s.token = r.token
<1>1. s = [kind |-> r.kind, pc |-> x, edit |-> r.edit, read |-> r.read, url |-> r.url, token |-> r.token, kept |-> r.kept]
  BY DEF IsCommand
<1>2. IsCommand(s)
  BY <1>1, Zenon DEF IsCommand
<1> QED
  BY <1>1, <1>2

LEMMA PutEdit ==
  ASSUME NEW r, IsCommand(r), NEW x, NEW s, s = [r EXCEPT !.edit = x]
  PROVE  IsCommand(s) /\ s.edit = x /\ s.kind = r.kind /\ s.pc = r.pc /\ s.url = r.url /\ s.token = r.token
<1>1. s = [kind |-> r.kind, pc |-> r.pc, edit |-> x, read |-> r.read, url |-> r.url, token |-> r.token, kept |-> r.kept]
  BY DEF IsCommand
<1>2. IsCommand(s)
  BY <1>1, Zenon DEF IsCommand
<1> QED
  BY <1>1, <1>2

LEMMA PutRead ==
  ASSUME NEW r, IsCommand(r), NEW x, NEW s, s = [r EXCEPT !.read = x]
  PROVE  IsCommand(s) /\ s.read = x /\ s.kind = r.kind /\ s.pc = r.pc /\ s.url = r.url /\ s.token = r.token
<1>1. s = [kind |-> r.kind, pc |-> r.pc, edit |-> r.edit, read |-> x, url |-> r.url, token |-> r.token, kept |-> r.kept]
  BY DEF IsCommand
<1>2. IsCommand(s)
  BY <1>1, Zenon DEF IsCommand
<1> QED
  BY <1>1, <1>2

LEMMA PutUrl ==
  ASSUME NEW r, IsCommand(r), NEW x, NEW s, s = [r EXCEPT !.url = x]
  PROVE  IsCommand(s) /\ s.url = x /\ s.kind = r.kind /\ s.pc = r.pc /\ s.token = r.token
<1>1. s = [kind |-> r.kind, pc |-> r.pc, edit |-> r.edit, read |-> r.read, url |-> x, token |-> r.token, kept |-> r.kept]
  BY DEF IsCommand
<1>2. IsCommand(s)
  BY <1>1, Zenon DEF IsCommand
<1> QED
  BY <1>1, <1>2

LEMMA PutToken ==
  ASSUME NEW r, IsCommand(r), NEW x, NEW s, s = [r EXCEPT !.token = x]
  PROVE  IsCommand(s) /\ s.token = x /\ s.kind = r.kind /\ s.pc = r.pc /\ s.url = r.url
<1>1. s = [kind |-> r.kind, pc |-> r.pc, edit |-> r.edit, read |-> r.read, url |-> r.url, token |-> x, kept |-> r.kept]
  BY DEF IsCommand
<1>2. IsCommand(s)
  BY <1>1, Zenon DEF IsCommand
<1> QED
  BY <1>1, <1>2

LEMMA PutKept ==
  ASSUME NEW r, IsCommand(r), NEW x, NEW s, s = [r EXCEPT !.kept = x]
  PROVE  IsCommand(s) /\ s.kept = x /\ s.kind = r.kind /\ s.pc = r.pc /\ s.url = r.url /\ s.token = r.token
<1>1. s = [kind |-> r.kind, pc |-> r.pc, edit |-> r.edit, read |-> r.read, url |-> r.url, token |-> r.token, kept |-> x]
  BY DEF IsCommand
<1>2. IsCommand(s)
  BY <1>1, Zenon DEF IsCommand
<1> QED
  BY <1>1, <1>2

\* The records a command becomes.
LEMMA CommandRecords ==
  ASSUME NEW p \in Commands, IsCommand(command[p]), NEW next
  PROVE  /\ IsCommand(At(p, next)) /\ At(p, next).pc = next /\ At(p, next).kind = command[p].kind
         /\ At(p, next).token = command[p].token /\ At(p, next).url = command[p].url
         /\ IsCommand(Ended(p, next)) /\ Ended(p, next).pc = next
         /\ Ended(p, next).token = command[p].token
<1>1. PICK r : r = [NoCommand EXCEPT !.pc = next]
  OBVIOUS
<1>2. IsCommand(r) /\ r.pc = next
  BY <1>1, NoCommandIs, PutPc
<1>3. Ended(p, next) = [r EXCEPT !.token = command[p].token]
  BY <1>1 DEF Ended
<1>4. /\ IsCommand(Ended(p, next)) /\ Ended(p, next).pc = next
      /\ Ended(p, next).token = command[p].token
  BY <1>2, <1>3, PutToken
<1>5. At(p, next) = [command[p] EXCEPT !.pc = next]
  BY DEF At
<1> QED
  BY <1>4, <1>5, PutPc

\* An edit keeps the parts.
LEMMA EditSteps ==
  ASSUME ServersInv, NEW p \in Commands, BeginEdit(p) \/ ReadForEdit(p) \/ WriteEdit(p)
  PROVE  ServersInv'
<1>1. IsCommand(command[p])
  BY DEF ServersInv, CommandsInv
<1>2. ASSUME BeginEdit(p) PROVE ServersInv'
  <2>1. PICK e \in Edits : command' = [command EXCEPT ![p] =
          [NoCommand EXCEPT !.kind = "edit", !.edit = e, !.pc = "read"]]
    BY <1>2 DEF BeginEdit, Becomes
  <2>2. PICK a : a = [NoCommand EXCEPT !.kind = "edit"]
    OBVIOUS
  <2>3. PICK b : b = [a EXCEPT !.edit = e]
    OBVIOUS
  <2>4. PICK r : r = [b EXCEPT !.pc = "read"]
    OBVIOUS
  <2>5. command' = [command EXCEPT ![p] = r]
    BY <2>1, <2>2, <2>3, <2>4
  <2>6. IsCommand(a) /\ a.token = 0
    BY <2>2, NoCommandIs, PutKind
  <2>7. IsCommand(b) /\ b.token = 0
    BY <2>3, <2>6, PutEdit
  <2>8. IsCommand(r) /\ r.token = 0 /\ r.pc = "read"
    BY <2>4, <2>7, PutPc
  <2>9. UNCHANGED <<keyring, audience, stored, chat>>
    BY <1>2 DEF BeginEdit, oauth
  <2> QED
    BY <2>5, <2>8, <2>9, CommandStep
\* When the edit cannot be made, a login goes back and a command fails.
<1>3. ASSUME command' = [command EXCEPT ![p] = NotEdited(p)],
             command[p].pc = "read" \/ command[p].pc = "write",
             UNCHANGED <<keyring, audience, stored, chat>>
      PROVE  ServersInv'
  <2>1. CASE command[p].kind = "login"
    <3>1. NotEdited(p) = At(p, "cleanup")
      BY <2>1 DEF NotEdited
    <3>2. PICK r : r = NotEdited(p)
      OBVIOUS
    <3>3. IsCommand(r) /\ r.pc = "cleanup" /\ r.kind = "login" /\ r.token = command[p].token
      BY <1>1, <2>1, <3>1, <3>2, CommandRecords
    <3> QED
      BY <1>3, <3>2, <3>3, CommandStep
  <2>2. CASE command[p].kind # "login"
    <3>1. NotEdited(p) = Ended(p, "failed") /\ command[p].token = 0
      BY <1>3, <2>2 DEF NotEdited, Failed, ServersInv, CommandsInv, Over
    <3> QED
      BY <1>1, <1>3, <2>2, <3>1, CommandRecords, CommandStep DEF Over
  <2> QED
    BY <2>1, <2>2
<1>4. ASSUME command' = [command EXCEPT ![p] = Ended(p, "done")],
             UNCHANGED <<keyring, audience, stored, chat>>
      PROVE  ServersInv'
  <2>1. PICK r : r = Ended(p, "done")
    OBVIOUS
  <2>2. IsCommand(r) /\ r.pc = "done" /\ r.token = command[p].token
    BY <1>1, <2>1, CommandRecords
  <2> QED
    BY <1>4, <2>1, <2>2, CommandStep DEF Over
<1>5. ASSUME ReadForEdit(p) PROVE ServersInv'
  <2>1. UNCHANGED <<keyring, audience, stored, chat>> /\ command[p].pc = "read"
    BY <1>5 DEF ReadForEdit, oauth, Step
  <2>2. CASE command' = [command EXCEPT ![p] = [At(p, "write") EXCEPT !.read = file]]
    <3>1. PICK a : a = At(p, "write")
      OBVIOUS
    <3>2. IsCommand(a) /\ a.pc = "write" /\ a.kind = command[p].kind /\ a.token = command[p].token
      BY <1>1, <3>1, CommandRecords
    <3>3. PICK r : r = [a EXCEPT !.read = file]
      OBVIOUS
    <3>4. IsCommand(r) /\ r.token = command[p].token /\ r.pc = "write" /\ r.kind = command[p].kind
      BY <3>2, <3>3, PutRead
    <3>5. command' = [command EXCEPT ![p] = r]
      BY <2>2, <3>1, <3>3
    <3>6. r.kind # "login" => r.token = 0
      BY <2>1, <3>4 DEF ServersInv, CommandsInv, Over
    <3> QED
      BY <2>1, <3>4, <3>5, <3>6, CommandStep
  <2>3. \/ command' = [command EXCEPT ![p] = NotEdited(p)]
        \/ command' = [command EXCEPT ![p] = Ended(p, "done")]
        \/ command' = [command EXCEPT ![p] = [At(p, "write") EXCEPT !.read = file]]
    BY <1>5 DEF ReadForEdit, Becomes
  <2> QED
    BY <1>3, <1>4, <2>1, <2>2, <2>3
<1>6. ASSUME WriteEdit(p) PROVE ServersInv'
  <2>1. UNCHANGED <<keyring, audience, stored, chat>> /\ command[p].pc = "write"
    BY <1>6 DEF WriteEdit, oauth, Step
  <2>2. \/ command' = [command EXCEPT ![p] = NotEdited(p)]
        \/ command' = [command EXCEPT ![p] = Ended(p, "done")]
    BY <1>6 DEF WriteEdit, Becomes
  <2> QED
    BY <1>3, <1>4, <2>1, <2>2
<1> QED
  BY <1>2, <1>5, <1>6

\* A login begins, gives up, looks again, cleans up; a logout begins and
\* deletes; a command is killed.
LEMMA LoginSteps ==
  ASSUME ServersInv, NEW p \in Commands,
         BeginLogin(p) \/ Recheck(p) \/ Cleanup(p) \/ BeginLogout(p) \/ DeleteCredential(p)
           \/ Killed(p)
  PROVE  ServersInv'
<1>1. IsCommand(command[p])
  BY DEF ServersInv, CommandsInv
<1>2. ASSUME BeginLogin(p) PROVE ServersInv'
  <2>1. UNCHANGED <<keyring, audience, stored, chat>>
    BY <1>2 DEF BeginLogin, oauth
  <2>2. PICK a : a = [NoCommand EXCEPT !.kind = "login"]
    OBVIOUS
  <2>3. IsCommand(a) /\ a.token = 0 /\ a.kind = "login"
    BY <2>2, NoCommandIs, PutKind
  <2>4. CASE OAuthServer(file)
    <3>1. PICK b : b = [a EXCEPT !.edit = OAuthEdit(TRUE)]
      OBVIOUS
    <3>2. PICK d : d = [b EXCEPT !.pc = "flow"]
      OBVIOUS
    <3>3. PICK r : r = [d EXCEPT !.url = ServerNamed(file, Remote).own.url]
      OBVIOUS
    <3>4. command' = [command EXCEPT ![p] = r]
      BY <1>2, <2>2, <2>4, <3>1, <3>2, <3>3 DEF BeginLogin, Becomes
    <3>5. IsCommand(b) /\ b.token = 0 /\ b.kind = "login"
      BY <2>3, <3>1, PutEdit
    <3>6. IsCommand(d) /\ d.token = 0 /\ d.kind = "login" /\ d.pc = "flow"
      BY <3>2, <3>5, PutPc
    <3>7. IsCommand(r) /\ r.token = 0 /\ r.kind = "login" /\ r.pc = "flow"
      BY <3>3, <3>6, PutUrl
    <3> QED
      BY <2>1, <3>4, <3>7, CommandStep
  <2>5. CASE ~OAuthServer(file)
    <3>1. PICK r : r = [a EXCEPT !.pc = "failed"]
      OBVIOUS
    <3>2. command' = [command EXCEPT ![p] = r]
      BY <1>2, <2>2, <2>5, <3>1 DEF BeginLogin, Becomes
    <3>3. IsCommand(r) /\ r.token = 0 /\ r.pc = "failed"
      BY <2>3, <3>1, PutPc
    <3> QED
      BY <2>1, <3>2, <3>3, CommandStep
  <2> QED
    BY <2>4, <2>5
<1>3. ASSUME Recheck(p) PROVE ServersInv'
  <2>1. UNCHANGED <<keyring, audience, stored, chat>> /\ command[p].pc = "recheck"
    BY <1>3 DEF Recheck, oauth, Step
  <2>2. PICK next \in {"read", "cleanup"} : command' = [command EXCEPT ![p] = At(p, next)]
    BY <1>3 DEF Recheck, Becomes
  <2>3. PICK r : r = At(p, next)
    OBVIOUS
  <2>4. IsCommand(r) /\ r.pc = next /\ r.kind = command[p].kind /\ r.token = command[p].token
    BY <1>1, <2>3, CommandRecords
  <2>5. r.kind # "login" => r.token = 0
    BY <2>1, <2>4 DEF ServersInv, CommandsInv, Over
  <2> QED
    BY <2>1, <2>2, <2>3, <2>4, <2>5, CommandStep
<1>4. ASSUME Cleanup(p) PROVE ServersInv'
  <2>1. UNCHANGED <<audience, stored, chat>> /\ command[p].pc = "cleanup"
    BY <1>4 DEF Cleanup, Step
  <2>2. PICK a : a = Failed(p)
    OBVIOUS
  <2>3. IsCommand(a) /\ a.pc = "failed" /\ a.token = command[p].token
    BY <1>1, <2>2, CommandRecords DEF Failed
  <2>4. CASE keyring' = NoCredential /\ command' = [command EXCEPT ![p] = a]
    <3>1. keyring'.token = 0
      BY <2>4 DEF NoCredential
    <3> QED
      BY <2>1, <2>3, <2>4, <3>1, CommandStep DEF Over
  <2>5. CASE keyring' = keyring /\ command' = [command EXCEPT ![p] = [a EXCEPT !.kept = TRUE]]
    <3>1. PICK r : r = [a EXCEPT !.kept = TRUE]
      OBVIOUS
    <3>2. IsCommand(r) /\ r.pc = "failed" /\ r.token = command[p].token /\ r.kept = TRUE
      BY <2>3, <3>1, PutKept
    <3> QED
      BY <2>1, <2>5, <3>1, <3>2, CommandStep DEF Over
  <2> QED
    BY <1>4, <2>2, <2>4, <2>5 DEF Cleanup, Becomes
<1>5. ASSUME BeginLogout(p) PROVE ServersInv'
  <2>1. UNCHANGED <<keyring, audience, stored, chat>>
    BY <1>5 DEF BeginLogout, oauth
  <2>2. PICK a : a = [NoCommand EXCEPT !.kind = "logout"]
    OBVIOUS
  <2>3. PICK b : b = [a EXCEPT !.edit = OAuthEdit(FALSE)]
    OBVIOUS
  <2>4. PICK next \in {"delete", "failed"} :
          command' = [command EXCEPT ![p] = [NoCommand EXCEPT !.kind = "logout",
                        !.edit = OAuthEdit(FALSE), !.pc = next]]
    BY <1>5 DEF BeginLogout, Becomes
  <2>5. PICK r : r = [b EXCEPT !.pc = next]
    OBVIOUS
  <2>6. command' = [command EXCEPT ![p] = r]
    BY <2>2, <2>3, <2>4, <2>5
  <2>7. IsCommand(a) /\ a.token = 0
    BY <2>2, NoCommandIs, PutKind
  <2>8. IsCommand(b) /\ b.token = 0
    BY <2>3, <2>7, PutEdit
  <2>9. IsCommand(r) /\ r.token = 0 /\ r.pc = next
    BY <2>5, <2>8, PutPc
  <2> QED
    BY <2>1, <2>4, <2>6, <2>9, CommandStep
<1>6. ASSUME DeleteCredential(p) PROVE ServersInv'
  <2>1. UNCHANGED <<audience, stored, chat>> /\ command[p].pc = "delete"
    BY <1>6 DEF DeleteCredential, Step
  <2>2. command[p].token = 0
    BY <2>1 DEF ServersInv, CommandsInv
  <2>3. CASE keyring' = NoCredential /\ command' = [command EXCEPT ![p] = At(p, "read")]
    <3>1. PICK r : r = At(p, "read")
      OBVIOUS
    <3>2. IsCommand(r) /\ r.pc = "read" /\ r.kind = command[p].kind /\ r.token = command[p].token
      BY <1>1, <3>1, CommandRecords
    <3> QED
      BY <2>1, <2>2, <2>3, <3>1, <3>2, CommandStep
  <2>4. CASE keyring' = keyring /\ command' = [command EXCEPT ![p] = Failed(p)]
    <3>1. PICK r : r = Failed(p)
      OBVIOUS
    <3>2. IsCommand(r) /\ r.pc = "failed" /\ r.token = command[p].token
      BY <1>1, <3>1, CommandRecords DEF Failed
    <3> QED
      BY <2>1, <2>2, <2>4, <3>1, <3>2, CommandStep DEF Over
  <2> QED
    BY <1>6, <2>3, <2>4 DEF DeleteCredential, Becomes
<1>7. ASSUME Killed(p) PROVE ServersInv'
  <2>1. UNCHANGED <<keyring, audience, stored, chat>>
    BY <1>7 DEF Killed, oauth
  <2>2. PICK r : r = Ended(p, "killed")
    OBVIOUS
  <2>3. IsCommand(r) /\ r.pc = "killed" /\ r.token = command[p].token
    BY <1>1, <2>2, CommandRecords
  <2>4. command' = [command EXCEPT ![p] = r]
    BY <1>7, <2>2 DEF Killed, Becomes
  <2> QED
    BY <2>1, <2>3, <2>4, CommandStep DEF Over
<1> QED
  BY <1>2, <1>3, <1>4, <1>5, <1>6, <1>7

\* A login is issued a token, which is new, and stores it.
LEMMA TokenSteps ==
  ASSUME ServersInv, NEW p \in Commands, FinishFlow(p) \/ SaveCredential(p)
  PROVE  ServersInv'
<1>1. IsCommand(command[p]) /\ Issued \in Nat
  BY IssuedIsNat DEF ServersInv, CommandsInv
<1>2. PICK failure : failure = Failed(p)
  OBVIOUS
<1>3. IsCommand(failure) /\ failure.pc = "failed" /\ failure.token = command[p].token
  BY <1>1, <1>2, CommandRecords DEF Failed
<1>4. ASSUME FinishFlow(p) PROVE ServersInv'
  <2>1. /\ UNCHANGED <<keyring, stored, chat>>
        /\ command[p].pc = "flow" /\ command[p].kind = "login" /\ command[p].token = 0
    BY <1>4 DEF FinishFlow, Step, ServersInv, CommandsInv
  <2>2. CASE UNCHANGED audience /\ command' = [command EXCEPT ![p] = failure]
    BY <1>3, <2>1, <2>2, CommandStep DEF Over
  <2>3. CASE /\ audience' = Append(audience, command[p].url)
             /\ command' = [command EXCEPT ![p] =
                  [command[p] EXCEPT !.token = Issued + 1, !.pc = "save"]]
    <3>1. PICK a : a = [command[p] EXCEPT !.token = Issued + 1]
      OBVIOUS
    <3>2. PICK r : r = [a EXCEPT !.pc = "save"]
      OBVIOUS
    <3>3. IsCommand(a) /\ a.token = Issued + 1 /\ a.url = command[p].url /\ a.kind = "login"
      BY <1>1, <2>1, <3>1, PutToken
    <3>4. /\ IsCommand(r) /\ r.token = Issued + 1 /\ r.url = command[p].url
          /\ r.kind = "login" /\ r.pc = "save"
      BY <3>2, <3>3, PutPc
    <3>5. command' = [command EXCEPT ![p] = r]
      BY <2>3, <3>1, <3>2
    <3>6. /\ audience' \in Seq({audience'[i] : i \in DOMAIN audience'})
          /\ Issued' = Issued + 1 /\ audience'[Issued + 1] = command[p].url
          /\ \A i \in 1 .. Issued : audience'[i] = audience[i]
      BY <2>3, IssuedOne DEF ServersInv
    <3>7. /\ \A q \in Commands : q # p => command'[q] = command[q]
          /\ command'[p] = r /\ command' = [q \in Commands |-> command'[q]]
      BY <3>5 DEF ServersInv, CommandsInv
    <3>8. TokensInv'
      <4>1. stored \subseteq 1 .. Issued + 1
        BY <1>1 DEF ServersInv, TokensInv
      <4>2. keyring.token # 0 => audience'[keyring.token] = keyring.endpoint
        BY <3>6 DEF ServersInv, TokensInv
      <4> QED
        BY <2>1, <3>6, <4>1, <4>2 DEF ServersInv, TokensInv
    <3>9. CommandsInv'
      <4>1. ASSUME NEW q \in Commands
            PROVE  /\ IsCommand(command'[q]) /\ command'[q].token \in 0 .. Issued + 1
                   /\ command'[q].pc = "flow" => command'[q].kind = "login"
                   /\ command'[q].pc \in {"flow", "delete"} => command'[q].token = 0
                   /\ command'[q].pc \notin Over /\ command'[q].kind # "login"
                        => command'[q].token = 0
                   /\ command'[q].pc = "save" =>
                        /\ command'[q].token \in 1 .. Issued + 1 \ stored
                        /\ audience'[command'[q].token] = command'[q].url
        <5>1. CASE q = p
          BY <1>1, <3>4, <3>6, <3>7, <5>1 DEF ServersInv, TokensInv
        <5>2. CASE q # p
          BY <1>1, <3>6, <3>7, <5>2 DEF ServersInv, CommandsInv
        <5> QED
          BY <5>1, <5>2
      <4>2. ASSUME NEW q \in Commands, NEW x \in Commands, q # x, command'[q].token # 0
            PROVE  command'[q].token # command'[x].token
        <5>1. \A y \in Commands : command[y].token \in 0 .. Issued
          BY DEF ServersInv, CommandsInv
        <5>2. Issued + 1 \notin 0 .. Issued
          BY <1>1
        <5>3. CASE q # p /\ x # p
          BY <3>7, <4>2, <5>3 DEF ServersInv, CommandsInv
        <5>4. CASE q = p \/ x = p
          BY <3>4, <3>7, <4>2, <5>1, <5>2, <5>4
        <5> QED
          BY <5>3, <5>4
      <4>3. \A q \in Commands : IsCommand(command[q])' <=> IsCommand(command'[q])
        BY DEF IsCommand
      <4> QED
        BY <2>1, <3>6, <3>7, <4>1, <4>2, <4>3 DEF CommandsInv
    <3>10. ChatsInv'
      <4>1. \A c \in Chats : chat[c].source # Issued + 1
        BY <1>1 DEF ServersInv, ChatsInv
      <4>2. \A c \in Chats : chat[c].source \in 0 .. Issued + 1
                /\ (chat[c].source # 0 => audience'[chat[c].source] = chat[c].endpoint)
        BY <1>1, <3>6 DEF ServersInv, ChatsInv
      <4>3. \A c \in Chats : chat[c].source # chat[c].credential =>
                  \A q \in Commands : command'[q].token # chat[c].source
        BY <3>4, <3>7, <4>1 DEF ServersInv, ChatsInv
      <4> QED
        BY <2>1, <3>6, <4>2, <4>3 DEF ServersInv, ChatsInv, IsChat
    <3>11. FailedLoginKeepsNothing'
      BY <2>1, <3>4, <3>7 DEF ServersInv, FailedLoginKeepsNothing
    <3> QED
      BY <3>8, <3>9, <3>10, <3>11 DEF ServersInv
  <2> QED
    BY <1>2, <1>4, <2>2, <2>3 DEF FinishFlow, Becomes, Issue
<1>5. ASSUME SaveCredential(p) PROVE ServersInv'
  <2>1. /\ UNCHANGED <<audience, chat>> /\ command[p].token \in 1 .. Issued \ stored
        /\ audience[command[p].token] = command[p].url
    BY <1>5 DEF SaveCredential, Step, ServersInv, CommandsInv
  <2>a. command[p].kind = "login"
    <3>1. command[p].token # 0 /\ command[p].pc = "save"
      BY <1>1, <1>5, <2>1 DEF SaveCredential, Step
    <3> QED
      BY <3>1 DEF ServersInv, CommandsInv, Over
  <2>2. CASE UNCHANGED <<keyring, stored>> /\ command' = [command EXCEPT ![p] = failure]
    <3>1. keyring.token # command[p].token
      BY <1>1, <2>1 DEF ServersInv, TokensInv
    <3> QED
      BY <1>3, <2>1, <2>2, <3>1, CommandStep DEF Over
  <2>3. CASE /\ Store(command[p].url, command[p].token)
             /\ command' = [command EXCEPT ![p] = At(p, "recheck")]
    <3>1. PICK r : r = At(p, "recheck")
      OBVIOUS
    <3>2. /\ IsCommand(r) /\ r.pc = "recheck" /\ r.kind = "login"
          /\ r.token = command[p].token
      BY <1>1, <2>a, <3>1, CommandRecords
    <3>3. /\ \A q \in Commands : q # p => command'[q] = command[q]
          /\ command'[p] = r /\ command' = [q \in Commands |-> command'[q]]
      BY <2>3, <3>1 DEF ServersInv, CommandsInv
    <3>4. /\ keyring'.token = command[p].token /\ keyring'.endpoint = command[p].url
          /\ stored' = stored \cup {command[p].token}
      BY <2>3 DEF Store
    <3>5. Issued' = Issued
      BY <2>1 DEF Issued
    <3>6. TokensInv'
      BY <1>1, <2>1, <3>4, <3>5 DEF ServersInv, TokensInv
    <3>7. \A q \in Commands : command'[q].token = command[q].token
      BY <3>2, <3>3
    <3>8. CommandsInv'
      <4>1. ASSUME NEW q \in Commands
            PROVE  /\ IsCommand(command'[q]) /\ command'[q].token \in 0 .. Issued
                   /\ command'[q].pc = "flow" => command'[q].kind = "login"
                   /\ command'[q].pc \in {"flow", "delete"} => command'[q].token = 0
                   /\ command'[q].pc \notin Over /\ command'[q].kind # "login"
                        => command'[q].token = 0
                   /\ command'[q].pc = "save" =>
                        /\ command'[q].token \in 1 .. Issued \ stored'
                        /\ audience[command'[q].token] = command'[q].url
        <5>1. CASE q = p
          BY <1>1, <2>1, <3>2, <3>3, <5>1
        <5>2. CASE q # p
          <6>1. command[p].token # 0 /\ command[q].token # command[p].token
            BY <1>1, <2>1, <5>2 DEF ServersInv, CommandsInv
          <6> QED
            BY <1>1, <3>3, <3>4, <5>2, <6>1 DEF ServersInv, CommandsInv
        <5> QED
          BY <5>1, <5>2
      <4>2. \A q, x \in Commands :
              q # x /\ command'[q].token # 0 => command'[q].token # command'[x].token
        BY <3>7 DEF ServersInv, CommandsInv
      <4>3. \A q \in Commands : IsCommand(command[q])' <=> IsCommand(command'[q])
        BY DEF IsCommand
      <4> QED
        BY <2>1, <3>3, <3>5, <4>1, <4>2, <4>3 DEF CommandsInv
    <3>9. ChatsInv'
      BY <2>1, <3>4, <3>5, <3>7 DEF ServersInv, ChatsInv, IsChat
    <3>10. FailedLoginKeepsNothing'
      <4> SUFFICES ASSUME NEW q \in Commands, command'[q].pc = "failed"
                   PROVE  command'[q].token # 0 => keyring'.token # command'[q].token
        BY DEF FailedLoginKeepsNothing
      <4>1. q # p
        BY <3>2, <3>3
      <4> QED
        BY <3>3, <3>4, <4>1 DEF ServersInv, CommandsInv
    <3> QED
      BY <3>6, <3>8, <3>9, <3>10 DEF ServersInv
  <2> QED
    BY <1>2, <1>5, <2>2, <2>3 DEF SaveCredential, Becomes
<1> QED
  BY <1>4, <1>5

-----------------------------------------------------------------------------
(* Chats.                                                                  *)

\* One field of a chat is changed.
LEMMA ChatPc ==
  ASSUME NEW r, IsChat(r), NEW x, NEW s, s = [r EXCEPT !.pc = x]
  PROVE  IsChat(s) /\ s.pc = x /\ s.endpoint = r.endpoint /\ s.source = r.source /\ s.credential = r.credential /\ s.used = r.used
<1>1. s = [pc |-> x, servers |-> r.servers, endpoint |-> r.endpoint, source |-> r.source, credential |-> r.credential, used |-> r.used]
  BY DEF IsChat
<1>2. IsChat(s)
  BY <1>1, Zenon DEF IsChat
<1> QED
  BY <1>1, <1>2

LEMMA ChatServers ==
  ASSUME NEW r, IsChat(r), NEW x, NEW s, s = [r EXCEPT !.servers = x]
  PROVE  IsChat(s) /\ s.servers = x /\ s.endpoint = r.endpoint /\ s.source = r.source /\ s.credential = r.credential /\ s.used = r.used
<1>1. s = [pc |-> r.pc, servers |-> x, endpoint |-> r.endpoint, source |-> r.source, credential |-> r.credential, used |-> r.used]
  BY DEF IsChat
<1>2. IsChat(s)
  BY <1>1, Zenon DEF IsChat
<1> QED
  BY <1>1, <1>2

LEMMA ChatEndpoint ==
  ASSUME NEW r, IsChat(r), NEW x, NEW s, s = [r EXCEPT !.endpoint = x]
  PROVE  IsChat(s) /\ s.endpoint = x /\ s.source = r.source /\ s.credential = r.credential /\ s.used = r.used
<1>1. s = [pc |-> r.pc, servers |-> r.servers, endpoint |-> x, source |-> r.source, credential |-> r.credential, used |-> r.used]
  BY DEF IsChat
<1>2. IsChat(s)
  BY <1>1, Zenon DEF IsChat
<1> QED
  BY <1>1, <1>2

LEMMA ChatSource ==
  ASSUME NEW r, IsChat(r), NEW x, NEW s, s = [r EXCEPT !.source = x]
  PROVE  IsChat(s) /\ s.source = x /\ s.endpoint = r.endpoint /\ s.credential = r.credential /\ s.used = r.used
<1>1. s = [pc |-> r.pc, servers |-> r.servers, endpoint |-> r.endpoint, source |-> x, credential |-> r.credential, used |-> r.used]
  BY DEF IsChat
<1>2. IsChat(s)
  BY <1>1, Zenon DEF IsChat
<1> QED
  BY <1>1, <1>2

LEMMA ChatCredential ==
  ASSUME NEW r, IsChat(r), NEW x, NEW s, s = [r EXCEPT !.credential = x]
  PROVE  IsChat(s) /\ s.credential = x /\ s.endpoint = r.endpoint /\ s.source = r.source /\ s.used = r.used
<1>1. s = [pc |-> r.pc, servers |-> r.servers, endpoint |-> r.endpoint, source |-> r.source, credential |-> x, used |-> r.used]
  BY DEF IsChat
<1>2. IsChat(s)
  BY <1>1, Zenon DEF IsChat
<1> QED
  BY <1>1, <1>2

LEMMA ChatUsed ==
  ASSUME NEW r, IsChat(r), NEW x, NEW s, s = [r EXCEPT !.used = x]
  PROVE  IsChat(s) /\ s.used = x /\ s.endpoint = r.endpoint /\ s.source = r.source /\ s.credential = r.credential
<1>1. s = [pc |-> r.pc, servers |-> r.servers, endpoint |-> r.endpoint, source |-> r.source, credential |-> r.credential, used |-> x]
  BY DEF IsChat
<1>2. IsChat(s)
  BY <1>1, Zenon DEF IsChat
<1> QED
  BY <1>1, <1>2

\* What a chat becomes keeps the part about chats, for the tokens there are
\* then.
ChatIsSound(r) ==
  /\ IsChat(r) /\ r.source \in 0 .. Issued
  /\ r.source # 0 => audience[r.source] = r.endpoint
  /\ r.used \in stored \cup {0} /\ r.credential \in stored \cup {0}
  /\ r.source # r.credential =>
       /\ r.source # 0
       /\ \A p \in Commands : command[p].token # r.source

LEMMA NoChatIs ==
  IsChat(NoChat) /\ NoChat.source = 0 /\ NoChat.used = 0 /\ NoChat.credential = 0
BY Zenon DEF IsChat, NoChat

\* A chat goes on with what it has, or with what the keyring holds.
LEMMA ChatStep ==
  ASSUME ServersInv, NEW c \in Chats, NEW r, ChatIsSound(r), chat' = [chat EXCEPT ![c] = r],
         UNCHANGED <<keyring, audience, stored, command>>
  PROVE  ServersInv'
<1>1. /\ \A d \in Chats : d # c => chat'[d] = chat[d]
      /\ chat'[c] = r /\ chat' = [d \in Chats |-> chat'[d]]
  BY DEF ServersInv, ChatsInv
<1>2. Issued' = Issued
  BY DEF Issued
<1>3. TokensInv'
  BY <1>2 DEF ServersInv, TokensInv
<1>4. CommandsInv'
  BY <1>2 DEF ServersInv, CommandsInv, IsCommand
<1>5. ChatsInv'
  <2>1. ASSUME NEW d \in Chats PROVE ChatIsSound(chat'[d])
    <3>1. CASE d = c
      BY <1>1, <3>1
    <3>2. CASE d # c
      BY <1>1, <3>2 DEF ServersInv, ChatsInv, ChatIsSound
    <3> QED
      BY <3>1, <3>2
  <2> QED
    BY <1>1, <1>2, <2>1 DEF ChatsInv, ChatIsSound, IsChat
<1>6. FailedLoginKeepsNothing'
  BY DEF ServersInv, FailedLoginKeepsNothing
<1> QED
  BY <1>3, <1>4, <1>5, <1>6 DEF ServersInv

LEMMA ChatIsSoundNow ==
  ASSUME ServersInv, NEW c \in Chats PROVE ChatIsSound(chat[c]) /\ ChatIsSound(NoChat)
<1>1. ChatIsSound(chat[c])
  BY DEF ServersInv, ChatsInv, ChatIsSound
<1>2. Issued \in Nat
  BY IssuedIsNat DEF ServersInv
<1> QED
  BY <1>1, <1>2, NoChatIs DEF ChatIsSound

\* A chat loads, connects, is ready, ends.
LEMMA ChatSteps ==
  ASSUME ServersInv, NEW c \in Chats, Load(c) \/ Connect(c) \/ Ready(c) \/ Quit(c)
  PROVE  ServersInv'
<1>1. ChatIsSound(chat[c]) /\ ChatIsSound(NoChat)
  BY ChatIsSoundNow
<1>2. UNCHANGED <<keyring, audience, stored, command>>
  BY DEF Load, Connect, Ready, Quit, oauth
<1>3. ASSUME NEW r, ChatIsSound(r), NEW s, NEW x,
             s = [r EXCEPT !.pc = x] \/ s = [r EXCEPT !.servers = x]
      PROVE  ChatIsSound(s)
  <2>1. /\ IsChat(s) /\ s.endpoint = r.endpoint /\ s.source = r.source
        /\ s.credential = r.credential /\ s.used = r.used
    BY <1>3, ChatPc, ChatServers DEF ChatIsSound
  <2> QED
    BY <1>3, <2>1 DEF ChatIsSound
<1>4. PICK over : over = Abandoned
  OBVIOUS
<1>5. ChatIsSound(over)
  BY <1>1, <1>3, <1>4 DEF Abandoned
<1>6. PICK opened : opened = Opened(c)
  OBVIOUS
<1>7. ChatIsSound(opened)
  BY <1>1, <1>3, <1>6 DEF Opened
<1>8. ASSUME Load(c) PROVE ServersInv'
  <2>1. PICK a : a = [chat[c] EXCEPT !.pc = "connect"]
    OBVIOUS
  <2>2. PICK r : r = [a EXCEPT !.servers = SelectSeq(Decode(file).servers, IsEnabled)]
    OBVIOUS
  <2>3. chat' = [chat EXCEPT ![c] = r]
    BY <1>8, <2>1, <2>2 DEF Load, ServersInv, ChatsInv
  <2> QED
    BY <1>1, <1>2, <1>3, <2>1, <2>2, <2>3, ChatStep
<1>9. ASSUME Connect(c) PROVE ServersInv'
  <2>1. CASE chat' = [chat EXCEPT ![c] = opened]
    BY <1>2, <1>7, <2>1, ChatStep
  <2>2. CASE chat' = [chat EXCEPT ![c] = over]
    BY <1>2, <1>5, <2>2, ChatStep
  <2>3. CASE /\ LoadableFor(Head(chat[c].servers).own.url)
             /\ chat' = [chat EXCEPT ![c] =
                  [Opened(c) EXCEPT !.endpoint = Head(chat[c].servers).own.url,
                     !.source = keyring.token, !.credential = keyring.token]]
    <3>1. PICK e : e = Head(chat[c].servers).own.url
      OBVIOUS
    <3>2. PICK a : a = [opened EXCEPT !.endpoint = e]
      OBVIOUS
    <3>3. PICK b : b = [a EXCEPT !.source = keyring.token]
      OBVIOUS
    <3>4. PICK r : r = [b EXCEPT !.credential = keyring.token]
      OBVIOUS
    <3>5. chat' = [chat EXCEPT ![c] = r]
      BY <1>6, <2>3, <3>1, <3>2, <3>3, <3>4
    <3>6. IsChat(a) /\ a.endpoint = e /\ a.used = opened.used
      BY <1>7, <3>2, ChatEndpoint DEF ChatIsSound
    <3>7. IsChat(b) /\ b.endpoint = e /\ b.used = opened.used /\ b.source = keyring.token
      BY <3>3, <3>6, ChatSource
    <3>8. /\ IsChat(r) /\ r.endpoint = e /\ r.used = opened.used
          /\ r.source = keyring.token /\ r.credential = keyring.token
      BY <3>4, <3>7, ChatCredential
    <3>9. Issued \in Nat /\ keyring.endpoint = e
      BY <2>3, <3>1, IssuedIsNat DEF ServersInv, LoadableFor
    <3>10. ChatIsSound(r)
      <4>1. keyring.token \in stored \cup {0} /\ keyring.token \in 0 .. Issued
        <5>1. keyring.token \in stored \cup {0} /\ stored \subseteq 1 .. Issued
          BY DEF ServersInv, TokensInv
        <5>2. keyring.token = 0 \/ keyring.token \in 1 .. Issued
          BY <5>1
        <5>3. 0 \in 0 .. Issued /\ \A i \in 1 .. Issued : i \in 0 .. Issued
          BY <3>9
        <5> QED
          BY <5>1, <5>2, <5>3
      <4>2. keyring.token # 0 => audience[keyring.token] = e
        BY <3>9 DEF ServersInv, TokensInv
      <4>3. opened.used \in stored \cup {0}
        BY <1>7 DEF ChatIsSound
      <4> QED
        BY <3>8, <4>1, <4>2, <4>3 DEF ChatIsSound
    <3> QED
      BY <1>2, <3>5, <3>10, ChatStep
  <2>4. \/ chat' = [chat EXCEPT ![c] = opened]
        \/ /\ LoadableFor(Head(chat[c].servers).own.url)
           /\ chat' = [chat EXCEPT ![c] =
                  [Opened(c) EXCEPT !.endpoint = Head(chat[c].servers).own.url,
                     !.source = keyring.token, !.credential = keyring.token]]
        \/ chat' = [chat EXCEPT ![c] = over]
    BY <1>4, <1>6, <1>9 DEF Connect
  <2> QED
    BY <2>1, <2>2, <2>3, <2>4
<1>10. ASSUME Ready(c) PROVE ServersInv'
  <2>1. PICK r : r = [chat[c] EXCEPT !.pc = "on"]
    OBVIOUS
  <2>2. chat' = [chat EXCEPT ![c] = r]
    BY <1>10, <2>1 DEF Ready
  <2> QED
    BY <1>1, <1>2, <1>3, <2>1, <2>2, ChatStep
<1>11. ASSUME Quit(c) PROVE ServersInv'
  BY <1>2, <1>4, <1>5, <1>11, ChatStep DEF Quit
<1> QED
  BY <1>8, <1>9, <1>10, <1>11

\* A refresh and a use: what they store, if anything, is the chat's own token,
\* which is no login's.
LEMMA KeepTokens ==
  ASSUME ServersInv, NEW c \in Chats, NEW r, chat' = [chat EXCEPT ![c] = r], UNCHANGED command,
         audience' \in Seq({audience'[i] : i \in DOMAIN audience'}),
         Issued' \in Nat, Issued <= Issued', \A i \in 1 .. Issued : audience'[i] = audience[i],
         IsChat(r), r.source \in 1 .. Issued', audience'[r.source] = r.endpoint,
         \A p \in Commands : command[p].token # r.source,
         \/ UNCHANGED <<keyring, stored>>
         \/ Store(r.endpoint, r.source),
         r.used \in stored' \cup {0}, r.credential \in stored' \cup {0}
  PROVE  ServersInv'
<1>1. /\ \A d \in Chats : d # c => chat'[d] = chat[d]
      /\ chat'[c] = r /\ chat' = [d \in Chats |-> chat'[d]]
  BY DEF ServersInv, ChatsInv
<1>2. Issued \in Nat /\ \A i \in 0 .. Issued : i \in 0 .. Issued'
  BY IssuedIsNat DEF ServersInv
<1>3. /\ stored' \subseteq 1 .. Issued' /\ stored \subseteq stored'
      /\ keyring'.token \in stored' \cup {0}
      /\ keyring'.token # 0 => audience'[keyring'.token] = keyring'.endpoint
      /\ keyring'.token \in {keyring.token, r.source}
      /\ stored' \subseteq stored \cup {r.source}
  <2>1. /\ stored \subseteq 1 .. Issued /\ keyring.token \in stored \cup {0}
        /\ keyring.token # 0 => audience[keyring.token] = keyring.endpoint
    BY DEF ServersInv, TokensInv
  <2>2. stored \subseteq 1 .. Issued'
    BY <1>2, <2>1
  <2>3. keyring.token # 0 => audience'[keyring.token] = keyring.endpoint
    BY <2>1
  <2>4. CASE UNCHANGED <<keyring, stored>>
    BY <2>1, <2>2, <2>3, <2>4
  <2>5. CASE Store(r.endpoint, r.source)
    <3>1. /\ keyring'.token = r.source /\ keyring'.endpoint = r.endpoint
          /\ stored' = stored \cup {r.source}
      BY <2>5 DEF Store
    <3> QED
      BY <2>2, <3>1
  <2> QED
    BY <2>4, <2>5
<1>4. TokensInv'
  BY <1>3 DEF TokensInv
<1>5. CommandsInv'
  <2>1. ASSUME NEW q \in Commands
        PROVE  /\ command[q].token \in 0 .. Issued'
               /\ command[q].pc = "save" =>
                    /\ command[q].token \in 1 .. Issued' \ stored'
                    /\ audience'[command[q].token] = command[q].url
    BY <1>2, <1>3 DEF ServersInv, CommandsInv
  <2> QED
    BY <2>1 DEF ServersInv, CommandsInv, IsCommand
<1>6. ChatsInv'
  <2>1. ASSUME NEW d \in Chats
        PROVE  /\ IsChat(chat'[d]) /\ chat'[d].source \in 0 .. Issued'
               /\ chat'[d].source # 0 => audience'[chat'[d].source] = chat'[d].endpoint
               /\ chat'[d].used \in stored' \cup {0} /\ chat'[d].credential \in stored' \cup {0}
               /\ chat'[d].source # chat'[d].credential =>
                    /\ chat'[d].source # 0
                    /\ \A p \in Commands : command[p].token # chat'[d].source
    <3>1. CASE d = c
      BY <1>1, <1>2, <3>1
    <3>2. CASE d # c
      <4>1. chat'[d] = chat[d]
        BY <1>1, <3>2
      <4>2. /\ IsChat(chat[d]) /\ chat[d].source \in 0 .. Issued
            /\ chat[d].source # 0 => audience[chat[d].source] = chat[d].endpoint
            /\ chat[d].used \in stored \cup {0} /\ chat[d].credential \in stored \cup {0}
            /\ chat[d].source # chat[d].credential =>
                 /\ chat[d].source # 0
                 /\ \A p \in Commands : command[p].token # chat[d].source
        BY DEF ServersInv, ChatsInv
      <4>3. chat[d].source # 0 => audience'[chat[d].source] = audience[chat[d].source]
        BY <1>2, <4>2
      <4> QED
        BY <1>2, <1>3, <4>1, <4>2, <4>3
    <3> QED
      BY <3>1, <3>2
  <2>2. \A d \in Chats : IsChat(chat[d])' <=> IsChat(chat'[d])
    BY DEF IsChat
  <2> QED
    BY <1>1, <2>1, <2>2 DEF ChatsInv
<1>7. FailedLoginKeepsNothing'
  BY <1>3 DEF ServersInv, FailedLoginKeepsNothing
<1> QED
  BY <1>4, <1>5, <1>6, <1>7 DEF ServersInv

LEMMA UsingSteps == ASSUME ServersInv, NEW c \in Chats, Refresh(c) \/ Use(c) PROVE ServersInv'
<1>1. ChatIsSound(chat[c]) /\ Issued \in Nat
  BY ChatIsSoundNow, IssuedIsNat DEF ServersInv
<1>2. ASSUME Refresh(c) PROVE ServersInv'
  <2>1. /\ audience' = Append(audience, chat[c].endpoint) /\ UNCHANGED command
        /\ \/ /\ Store(chat[c].endpoint, Issued + 1)
              /\ chat' = [chat EXCEPT ![c].source = Issued + 1, ![c].credential = Issued + 1,
                            ![c].used = Issued + 1]
           \/ /\ chat' = [chat EXCEPT ![c] = NotSaved(c, Issued + 1)]
              /\ UNCHANGED <<keyring, stored>>
    BY <1>2 DEF Refresh
  <2>2. /\ audience' \in Seq({audience'[i] : i \in DOMAIN audience'})
        /\ Issued' = Issued + 1 /\ audience'[Issued + 1] = chat[c].endpoint
        /\ \A i \in 1 .. Issued : audience'[i] = audience[i]
    BY <2>1, IssuedOne DEF ServersInv
  <2>3. \A p \in Commands : command[p].token # Issued + 1
    BY <1>1 DEF ServersInv, CommandsInv
  <2>4. PICK a : a = [chat[c] EXCEPT !.source = Issued + 1]
    OBVIOUS
  <2>5. /\ IsChat(a) /\ a.source = Issued + 1 /\ a.endpoint = chat[c].endpoint
        /\ a.used = chat[c].used /\ a.credential = chat[c].credential
    BY <1>1, <2>4, ChatSource DEF ChatIsSound
  <2>6. CASE /\ chat' = [chat EXCEPT ![c] = NotSaved(c, Issued + 1)]
             /\ UNCHANGED <<keyring, stored>>
    <3>1. chat' = [chat EXCEPT ![c] = a]
      BY <2>4, <2>6 DEF NotSaved
    <3>2. a.used \in stored' \cup {0} /\ a.credential \in stored' \cup {0}
      BY <1>1, <2>5, <2>6 DEF ChatIsSound
    <3>3. a.source \in 1 .. Issued' /\ Issued' \in Nat /\ Issued <= Issued'
      BY <1>1, <2>2, <2>5
    <3>4. audience'[a.source] = a.endpoint /\ \A p \in Commands : command[p].token # a.source
      BY <2>2, <2>3, <2>5
    <3> QED
      BY <2>1, <2>2, <2>5, <2>6, <3>1, <3>2, <3>3, <3>4, KeepTokens
  <2>7. CASE /\ Store(chat[c].endpoint, Issued + 1)
             /\ chat' = [chat EXCEPT ![c].source = Issued + 1, ![c].credential = Issued + 1,
                           ![c].used = Issued + 1]
    <3>1. PICK b : b = [a EXCEPT !.credential = Issued + 1]
      OBVIOUS
    <3>2. PICK r : r = [b EXCEPT !.used = Issued + 1]
      OBVIOUS
    <3>3. /\ IsChat(b) /\ b.source = Issued + 1 /\ b.endpoint = chat[c].endpoint
          /\ b.credential = Issued + 1
      BY <2>5, <3>1, ChatCredential
    <3>4. /\ IsChat(r) /\ r.source = Issued + 1 /\ r.endpoint = chat[c].endpoint
          /\ r.credential = Issued + 1 /\ r.used = Issued + 1
      BY <3>2, <3>3, ChatUsed
    <3>5. chat' = [chat EXCEPT ![c] = r]
      BY <2>4, <2>7, <3>1, <3>2 DEF ServersInv, ChatsInv
    <3>6. Store(r.endpoint, r.source) /\ Issued + 1 \in stored'
      BY <2>7, <3>4 DEF Store
    <3>7. r.source \in 1 .. Issued' /\ Issued' \in Nat /\ Issued <= Issued'
      BY <1>1, <2>2, <3>4
    <3>8. /\ audience'[r.source] = r.endpoint /\ \A p \in Commands : command[p].token # r.source
          /\ r.used \in stored' \cup {0} /\ r.credential \in stored' \cup {0}
      BY <2>2, <2>3, <3>4, <3>6
    <3> QED
      BY <2>1, <2>2, <3>4, <3>5, <3>6, <3>7, <3>8, KeepTokens
  <2> QED
    BY <2>1, <2>6, <2>7
<1>3. ASSUME Use(c) PROVE ServersInv'
  <2>1. /\ UNCHANGED <<audience, command>> /\ chat[c].source # 0
        /\ \/ /\ chat[c].source = chat[c].credential
              /\ chat' = [chat EXCEPT ![c].used = chat[c].source]
              /\ UNCHANGED <<keyring, stored>>
           \/ /\ chat[c].source # chat[c].credential
              /\ Store(chat[c].endpoint, chat[c].source)
              /\ chat' = [chat EXCEPT ![c].used = chat[c].source,
                            ![c].credential = chat[c].source]
    BY <1>3 DEF Use
  <2>2. PICK a : a = [chat[c] EXCEPT !.used = chat[c].source]
    OBVIOUS
  <2>3. /\ IsChat(a) /\ a.source = chat[c].source /\ a.endpoint = chat[c].endpoint
        /\ a.used = chat[c].source /\ a.credential = chat[c].credential
    BY <1>1, <2>2, ChatUsed DEF ChatIsSound
  <2>4. CASE /\ chat[c].source = chat[c].credential
             /\ chat' = [chat EXCEPT ![c].used = chat[c].source]
             /\ UNCHANGED <<keyring, stored>>
    <3>1. chat' = [chat EXCEPT ![c] = a]
      BY <2>2, <2>4
    <3>2. ChatIsSound(a)
      BY <1>1, <2>3, <2>4 DEF ChatIsSound
    <3> QED
      BY <2>1, <2>4, <3>1, <3>2, ChatStep
  <2>5. CASE /\ chat[c].source # chat[c].credential
             /\ Store(chat[c].endpoint, chat[c].source)
             /\ chat' = [chat EXCEPT ![c].used = chat[c].source,
                           ![c].credential = chat[c].source]
    <3>1. PICK r : r = [a EXCEPT !.credential = chat[c].source]
      OBVIOUS
    <3>2. /\ IsChat(r) /\ r.source = chat[c].source /\ r.endpoint = chat[c].endpoint
          /\ r.used = chat[c].source /\ r.credential = chat[c].source
      BY <2>3, <3>1, ChatCredential
    <3>3. chat' = [chat EXCEPT ![c] = r]
      BY <2>2, <2>5, <3>1 DEF ServersInv, ChatsInv
    <3>4. Store(r.endpoint, r.source) /\ r.source \in stored'
      BY <2>5, <3>2 DEF Store
    <3>5. /\ r.source \in 1 .. Issued /\ audience[r.source] = r.endpoint
          /\ \A p \in Commands : command[p].token # r.source
      BY <1>1, <2>1, <2>5, <3>2 DEF ChatIsSound
    <3>6. Issued' = Issued /\ audience \in Seq({audience[i] : i \in DOMAIN audience})
      BY <2>1 DEF Issued, ServersInv, TokensInv
    <3>7. /\ audience' \in Seq({audience'[i] : i \in DOMAIN audience'})
          /\ Issued' \in Nat /\ Issued <= Issued' /\ \A i \in 1 .. Issued : audience'[i] = audience[i]
          /\ r.source \in 1 .. Issued' /\ audience'[r.source] = r.endpoint
      BY <1>1, <2>1, <3>5, <3>6
    <3>8. r.used \in stored' \cup {0} /\ r.credential \in stored' \cup {0}
      BY <3>2, <3>4
    <3> QED
      BY <2>1, <3>2, <3>3, <3>4, <3>5, <3>7, <3>8, KeepTokens
  <2> QED
    BY <2>1, <2>4, <2>5
<1> QED
  BY <1>2, <1>3

-----------------------------------------------------------------------------
\* Time, the user's editor and a stutter touch no part.
LEMMA Elsewhere ==
  ASSUME ServersInv, UNCHANGED <<keyring, audience, stored, command, chat>> PROVE ServersInv'
<1>1. Issued' = Issued
  BY DEF Issued
<1>2. TokensInv'
  BY <1>1 DEF ServersInv, TokensInv
<1>3. CommandsInv'
  BY <1>1 DEF ServersInv, CommandsInv, IsCommand
<1>4. ChatsInv'
  BY <1>1 DEF ServersInv, ChatsInv, IsChat
<1>5. FailedLoginKeepsNothing'
  BY DEF ServersInv, FailedLoginKeepsNothing
<1> QED
  BY <1>2, <1>3, <1>4, <1>5 DEF ServersInv

LEMMA ServersInvStep == ServersInv /\ [ServersNext]_serverVars => ServersInv'
<1> SUFFICES ASSUME ServersInv, [ServersNext]_serverVars PROVE ServersInv'
  OBVIOUS
<1>1. ASSUME NEW p \in Commands,
             \/ BeginEdit(p) \/ ReadForEdit(p) \/ WriteEdit(p)
             \/ BeginLogin(p) \/ FinishFlow(p) \/ SaveCredential(p) \/ Recheck(p) \/ Cleanup(p)
             \/ BeginLogout(p) \/ DeleteCredential(p) \/ Killed(p)
      PROVE  ServersInv'
  BY <1>1, EditSteps, LoginSteps, TokenSteps
<1>2. ASSUME NEW c \in Chats,
             Load(c) \/ Connect(c) \/ Ready(c) \/ Refresh(c) \/ Use(c) \/ Quit(c)
      PROVE  ServersInv'
  BY <1>2, ChatSteps, UsingSteps
<1>3. ASSUME \E t \in 1 .. MaxTokens : Expire(t) PROVE ServersInv'
  BY <1>3, Elsewhere DEF Expire
<1>4. ASSUME UserEdits PROVE ServersInv'
  BY <1>4, Elsewhere DEF UserEdits, oauth
<1>5. ASSUME UNCHANGED serverVars PROVE ServersInv'
  BY <1>5, Elsewhere DEF serverVars
<1> QED
  BY <1>1, <1>2, <1>3, <1>4, <1>5 DEF ServersNext

\* Whatever the commands, the chats, the user's editor and time do, and in any
\* order: a token reaches only the endpoint it was issued for (a chat pairs
\* the keyring's token with the endpoint it has itself), a chat uses none it
\* has not stored, and a login that fails leaves none of its own.
THEOREM CredentialsKept == ServersSpec => []CredentialsAreKept
<1>1. ServersInv => CredentialsAreKept
  <2>1. ServersInv => TokenGoesToItsEndpoint /\ UsedTokenWasStored
    BY DEF ServersInv, ChatsInv, TokenGoesToItsEndpoint, UsedTokenWasStored
  <2> QED
    BY <2>1 DEF ServersInv, CredentialsAreKept
<1> QED
  BY <1>1, ServersInvInitially, ServersInvStep, PTL DEF ServersSpec

-----------------------------------------------------------------------------
(* The messages of the user.                                               *)

\* Induction over the numbers, for a set of them: it misses no smallest one.
LEMMA Induction ==
  ASSUME NEW S, 0 \in S, \A n \in Nat : n \in S => n + 1 \in S
  PROVE  Nat \subseteq S
<1> DEFINE T == Nat \ S
<1> SUFFICES ASSUME T # {} PROVE FALSE
  OBVIOUS
<1>1. PICK x \in T : \A y \in T : ~ (<<y, x>> \in OpToRel(<, Nat))
  BY NatLessThanWellFounded, WFMin
<1>2. x \in Nat /\ x # 0 /\ x \notin S
  OBVIOUS
<1>3. x - 1 \in Nat /\ x - 1 < x /\ (x - 1) + 1 = x
  BY <1>2
<1>4. x - 1 \notin T
  BY <1>1, <1>2, <1>3 DEF OpToRel
<1> QED
  BY <1>2, <1>3, <1>4

\* FlattenSeq is the last of the sequences that joining one element after the other gives.
Joins(s, n, f) == f = [i \in 1 .. n |-> IF i = 1 THEN s[i] ELSE f[i - 1] \o s[i]]

LEMMA JoinsAt ==
  ASSUME NEW s, NEW n \in Nat, NEW f, Joins(s, n, f), NEW i \in 1 .. n
  PROVE  f[i] = IF i = 1 THEN s[i] ELSE f[i - 1] \o s[i]
<1> DEFINE e(j) == IF j = 1 THEN s[j] ELSE f[j - 1] \o s[j]
<1>1. f = [j \in 1 .. n |-> e(j)]
  BY DEF Joins
<1> HIDE DEF e
<1>2. f[i] = e(i)
  BY <1>1
<1> QED
  BY <1>2 DEF e

LEMMA JoinsExist == ASSUME NEW s, NEW n \in Nat PROVE \E f : Joins(s, n, f)
<1> DEFINE S == {k \in Nat : \E f : Joins(s, k, f)}
<1>1. 0 \in S
  <2> DEFINE f == [i \in 1 .. 0 |-> <<>>]
  <2>1. f = [i \in 1 .. 0 |-> IF i = 1 THEN s[i] ELSE f[i - 1] \o s[i]]
    OBVIOUS
  <2> HIDE DEF f
  <2>2. Joins(s, 0, f)
    BY <2>1 DEF Joins
  <2> QED
    BY <2>2
<1>2. ASSUME NEW k \in Nat, k \in S PROVE k + 1 \in S
  <2>1. PICK f : Joins(s, k, f)
    BY <1>2
  <2> DEFINE g == [i \in 1 .. k + 1 |->
                    IF i <= k THEN f[i] ELSE IF i = 1 THEN s[i] ELSE f[i - 1] \o s[i]]
  <2>2. ASSUME NEW i \in 1 .. k + 1
        PROVE  g[i] = IF i = 1 THEN s[i] ELSE g[i - 1] \o s[i]
    <3>1. CASE i <= k
      <4>1. f[i] = IF i = 1 THEN s[i] ELSE f[i - 1] \o s[i]
        BY <2>1, <3>1, JoinsAt
      <4>2. g[i] = f[i] /\ (i # 1 => g[i - 1] = f[i - 1])
        BY <3>1
      <4> QED
        BY <4>1, <4>2
    <3>2. CASE i = k + 1
      <4>1. i # 1 => g[i - 1] = f[i - 1]
        BY <3>2
      <4>2. g[i] = IF i = 1 THEN s[i] ELSE f[i - 1] \o s[i]
        BY <3>2
      <4> QED
        BY <4>1, <4>2
    <3> QED
      BY <3>1, <3>2
  <2>3. g = [i \in 1 .. k + 1 |-> g[i]]
    OBVIOUS
  <2> HIDE DEF g
  <2>4. Joins(s, k + 1, g)
    BY <2>2, <2>3 DEF Joins
  <2> QED
    BY <2>4
<1> HIDE DEF S
<1>3. n \in S
  BY <1>1, <1>2, Induction
<1> QED
  BY <1>3 DEF S

LEMMA JoinsUnique ==
  ASSUME NEW s, NEW n \in Nat, NEW f, Joins(s, n, f), NEW m \in Nat, n <= m, NEW g, Joins(s, m, g)
  PROVE  \A i \in 1 .. n : f[i] = g[i]
<1> DEFINE S == {k \in Nat : k \in 1 .. n => f[k] = g[k]}
<1>1. 0 \in S
  OBVIOUS
<1>2. ASSUME NEW k \in Nat, k \in S PROVE k + 1 \in S
  <2> SUFFICES ASSUME k + 1 \in 1 .. n PROVE f[k + 1] = g[k + 1]
    OBVIOUS
  <2>1. k + 1 = 1 \/ f[k] = g[k]
    BY <1>2
  <2>2. f[k + 1] = IF k + 1 = 1 THEN s[k + 1] ELSE f[(k + 1) - 1] \o s[k + 1]
    BY JoinsAt
  <2>3. g[k + 1] = IF k + 1 = 1 THEN s[k + 1] ELSE g[(k + 1) - 1] \o s[k + 1]
    BY JoinsAt
  <2>4. (k + 1) - 1 = k
    OBVIOUS
  <2> QED
    BY <2>1, <2>2, <2>3, <2>4
<1> HIDE DEF S
<1>3. Nat \subseteq S
  BY <1>1, <1>2, Induction
<1> QED
  BY <1>3 DEF S

LEMMA FlattenIs ==
  ASSUME NEW s, Len(s) \in Nat \ {0}, NEW f, Joins(s, Len(s), f)
  PROVE  FlattenSeq(s) = f[Len(s)]
<1> DEFINE n == Len(s)
           g == CHOOSE h : h = [i \in 1 .. n |-> IF i = 1 THEN s[i] ELSE h[i - 1] \o s[i]]
<1>1. FlattenSeq(s) = g[n]
  BY DEF FlattenSeq
<1>2. Joins(s, n, g)
  BY DEF Joins
<1> HIDE DEF g
<1>3. g[n] = f[n]
  BY <1>2, JoinsUnique
<1> QED
  BY <1>1, <1>3

\* Concatenation under a name the provers do not look into: how a join is regrouped.
Glued(a, b) == a \o b

LEMMA Regroup ==
  ASSUME NEW T, NEW a \in Seq(T), NEW b \in Seq(T), NEW d \in Seq(T)
  PROVE  Glued(Glued(a, b), d) = Glued(a, Glued(b, d))
<1>1. (a \o b) \o d = a \o (b \o d)
  OBVIOUS
<1> QED
  BY <1>1 DEF Glued

LEMMA FlatEmpty == FlattenSeq(<<>>) = <<>>
  BY DEF FlattenSeq

\* One more element is joined at the end.
LEMMA FlatAppendAny ==
  ASSUME NEW s, NEW m, NEW r, Len(s) \in Nat, Len(r) = Len(s) + 1, r[Len(r)] = m,
         \A i \in 1 .. Len(s) : r[i] = s[i]
  PROVE  FlattenSeq(r) = IF Len(s) = 0 THEN m ELSE FlattenSeq(s) \o m
<1> DEFINE n == Len(s)
<1>0. n + 1 \in Nat /\ n + 1 \in 1 .. n + 1 /\ r[n + 1] = m
  OBVIOUS
<1>1. PICK f : Joins(r, n + 1, f)
  <2>1. n + 1 \in Nat
    OBVIOUS
  <2> HIDE DEF n
  <2> QED
    BY <2>1, JoinsExist
<1>2. FlattenSeq(r) = f[n + 1]
  BY <1>1, FlattenIs
<1>3. f[n + 1] = IF n + 1 = 1 THEN m ELSE f[(n + 1) - 1] \o m
  <2> HIDE DEF n
  <2>1. f[n + 1] = IF n + 1 = 1 THEN r[n + 1] ELSE f[(n + 1) - 1] \o r[n + 1]
    BY <1>0, <1>1, JoinsAt
  <2> QED
    BY <1>0, <2>1
<1>4. CASE n = 0
  <2>1. n + 1 = 1 /\ Len(s) = 0
    BY <1>4
  <2> HIDE DEF n
  <2> QED
    BY <1>2, <1>3, <2>1
<1>5. CASE n # 0
  <2>1. PICK g : Joins(s, n, g)
    BY JoinsExist
  <2>2. FlattenSeq(s) = g[n]
    BY <1>5, <2>1, FlattenIs
  <2>3. Joins(r, n, g)
    <3>1. \A i \in 1 .. n : r[i] = s[i]
      OBVIOUS
    <3> QED
      BY <2>1, <3>1 DEF Joins
  <2>4. g[n] = f[n]
    BY <1>1, <1>5, <2>3, JoinsUnique
  <2> QED
    BY <1>2, <1>3, <1>5, <2>2, <2>4
<1> QED
  BY <1>4, <1>5

LEMMA FlatType ==
  ASSUME NEW T, NEW s \in Seq(Seq(T))
  PROVE  FlattenSeq(s) \in Seq(T)
<1> DEFINE S == {k \in Nat : \A r \in Seq(Seq(T)) : Len(r) = k => FlattenSeq(r) \in Seq(T)}
<1>1. 0 \in S
  <2> SUFFICES ASSUME NEW r \in Seq(Seq(T)), Len(r) = 0 PROVE FlattenSeq(r) \in Seq(T)
    OBVIOUS
  <2>1. r = <<>>
    OBVIOUS
  <2>2. FlattenSeq(r) = <<>>
    BY <2>1, FlatEmpty
  <2> HIDE DEF S
  <2> QED
    BY <2>2
<1>2. ASSUME NEW k \in Nat, k \in S PROVE k + 1 \in S
  <2> SUFFICES ASSUME NEW r \in Seq(Seq(T)), Len(r) = k + 1 PROVE FlattenSeq(r) \in Seq(T)
    OBVIOUS
  <2> HIDE DEF S
  <2>1. PICK q \in Seq(Seq(T)) : Len(q) = k /\ \A i \in 1 .. k : q[i] = r[i]
    <3>1. r # <<>>
      OBVIOUS
    <3>2. PICK q \in Seq(Seq(T)), m \in Seq(T) : r = Append(q, m)
      BY <3>1, SequenceEmptyOrAppend
    <3>3. Len(r) = Len(q) + 1 /\ \A i \in 1 .. Len(q) : r[i] = q[i]
      BY <3>2, AppendProperties
    <3> QED
      BY <3>3
  <2>2. r[k + 1] \in Seq(T)
    OBVIOUS
  <2>3. FlattenSeq(r) = IF k = 0 THEN r[k + 1] ELSE FlattenSeq(q) \o r[k + 1]
    BY <2>1, FlatAppendAny
  <2>4. FlattenSeq(q) \in Seq(T)
    BY <1>2, <2>1 DEF S
  <2> QED
    BY <2>2, <2>3, <2>4
<1> HIDE DEF S
<1>3. Nat \subseteq S
  BY <1>1, <1>2, Induction
<1> QED
  BY <1>3 DEF S

LEMMA FlatAppend ==
  ASSUME NEW T, NEW s \in Seq(Seq(T)), NEW m \in Seq(T)
  PROVE  FlattenSeq(Append(s, m)) = FlattenSeq(s) \o m
<1>1. PICK r : r = Append(s, m)
  OBVIOUS
<1>2. FlattenSeq(r) = IF Len(s) = 0 THEN m ELSE FlattenSeq(s) \o m
  <2>1. Len(s) \in Nat /\ Len(r) = Len(s) + 1 /\ r[Len(s) + 1] = m
    BY <1>1
  <2>2. \A i \in 1 .. Len(s) : r[i] = s[i]
    BY <1>1
  <2> QED
    BY <2>1, <2>2, FlatAppendAny
<1>3. CASE Len(s) = 0
  <2>1. FlattenSeq(s) = <<>>
    <3>1. s = <<>>
      BY <1>3
    <3> QED
      BY <3>1, FlatEmpty
  <2>2. <<>> \o m = m
    BY ConcatEmptySeq
  <2> QED
    BY <1>1, <1>2, <1>3, <2>1, <2>2
<1> QED
  BY <1>1, <1>2, <1>3

LEMMA FlatConcat ==
  ASSUME NEW T, NEW s \in Seq(Seq(T)), NEW r \in Seq(Seq(T))
  PROVE  FlattenSeq(s \o r) = FlattenSeq(s) \o FlattenSeq(r)
<1> DEFINE S == {k \in Nat : \A q \in Seq(Seq(T)) : Len(q) = k =>
                               FlattenSeq(s \o q) = FlattenSeq(s) \o FlattenSeq(q)}
<1>1. 0 \in S
  <2> SUFFICES ASSUME NEW q \in Seq(Seq(T)), Len(q) = 0
               PROVE  FlattenSeq(s \o q) = FlattenSeq(s) \o FlattenSeq(q)
    OBVIOUS
  <2>1. q = <<>> /\ s \o q = s
    BY ConcatEmptySeq
  <2>2. FlattenSeq(s) \o <<>> = FlattenSeq(s)
    BY FlatType, ConcatEmptySeq
  <2> QED
    BY <2>1, <2>2, FlatEmpty
<1>2. ASSUME NEW k \in Nat, k \in S PROVE k + 1 \in S
  <2> SUFFICES ASSUME NEW q \in Seq(Seq(T)), Len(q) = k + 1
               PROVE  FlattenSeq(s \o q) = FlattenSeq(s) \o FlattenSeq(q)
    OBVIOUS
  <2> HIDE DEF S
  <2>1. PICK p \in Seq(Seq(T)), m \in Seq(T) : q = Append(p, m)
    <3>1. q # <<>>
      OBVIOUS
    <3> QED
      BY <3>1, SequenceEmptyOrAppend
  <2>2. Len(p) = k
    BY <2>1
  <2>3. FlattenSeq(s \o p) = FlattenSeq(s) \o FlattenSeq(p)
    BY <1>2, <2>2 DEF S
  <2>4. s \o q = Append(s \o p, m) /\ s \o p \in Seq(Seq(T))
    BY <2>1
  <2>5. FlattenSeq(s \o q) = FlattenSeq(s \o p) \o m
    <3>1. PICK u \in Seq(Seq(T)) : u = s \o p
      BY <2>4
    <3>2. FlattenSeq(Append(u, m)) = FlattenSeq(u) \o m
      BY FlatAppend
    <3> QED
      BY <2>4, <3>1, <3>2
  <2>6. FlattenSeq(q) = FlattenSeq(p) \o m
    BY <2>1, FlatAppend
  <2>7. (FlattenSeq(s) \o FlattenSeq(p)) \o m = FlattenSeq(s) \o (FlattenSeq(p) \o m)
    <3>1. PICK u \in Seq(T) : u = FlattenSeq(s)
      BY FlatType
    <3>2. PICK v \in Seq(T) : v = FlattenSeq(p)
      BY FlatType
    <3>3. Glued(Glued(u, v), m) = Glued(u, Glued(v, m))
      BY Regroup
    <3>4. (u \o v) \o m = u \o (v \o m)
      BY <3>3 DEF Glued
    <3> QED
      BY <3>1, <3>2, <3>4
  <2> QED
    BY <2>3, <2>5, <2>6, <2>7
<1> HIDE DEF S
<1>3. Nat \subseteq S
  BY <1>1, <1>2, Induction
<1> QED
  BY <1>3 DEF S

LEMMA FlatOne ==
  ASSUME NEW T, NEW m \in Seq(T)
  PROVE  FlattenSeq(<<m>>) = m
<1>1. <<m>> = Append(<<>>, m) /\ <<>> \in Seq(Seq(T))
  OBVIOUS
<1>2. FlattenSeq(<<m>>) = FlattenSeq(<<>>) \o m
  BY <1>1, FlatAppend
<1> QED
  BY <1>2, FlatEmpty, ConcatEmptySeq

-----------------------------------------------------------------------------
(* How often a text is in a sequence, and in messages.                     *)

Occ(s, t) == Cardinality({i \in DOMAIN s : s[i] = t})

LEMMA OccEmpty == ASSUME NEW t PROVE Occ(<<>>, t) = 0
<1>1. {i \in DOMAIN <<>> : <<>>[i] = t} = {}
  OBVIOUS
<1> QED
  BY <1>1, FS_EmptySet DEF Occ

LEMMA OccType ==
  ASSUME NEW T, NEW s \in Seq(T), NEW t
  PROVE  /\ IsFiniteSet({i \in DOMAIN s : s[i] = t})
         /\ Occ(s, t) \in Nat
         /\ t \in ToSet(s) <=> Occ(s, t) # 0
<1>1. IsFiniteSet(1 .. Len(s)) /\ DOMAIN s = 1 .. Len(s)
  BY FS_Interval
<1>2. IsFiniteSet({i \in DOMAIN s : s[i] = t})
  BY <1>1, FS_Subset
<1>3. Occ(s, t) \in Nat
  BY <1>2, FS_CardinalityType DEF Occ
<1>4. Occ(s, t) = 0 <=> {i \in DOMAIN s : s[i] = t} = {}
  BY <1>2, FS_EmptySet DEF Occ
<1> QED
  BY <1>2, <1>3, <1>4 DEF ToSet

LEMMA OccAppend ==
  ASSUME NEW T, NEW s \in Seq(T), NEW x \in T, NEW t
  PROVE  Occ(Append(s, x), t) = Occ(s, t) + (IF x = t THEN 1 ELSE 0)
<1> DEFINE D == {i \in DOMAIN s : s[i] = t}
           E == {i \in DOMAIN Append(s, x) : Append(s, x)[i] = t}
           n == Len(s) + 1
<1>1. IsFiniteSet(D) /\ Cardinality(D) \in Nat
  BY OccType DEF Occ
<1>2. DOMAIN s = 1 .. Len(s) /\ DOMAIN Append(s, x) = 1 .. n
  OBVIOUS
<1>3. Append(s, x)[n] = x /\ \A i \in 1 .. Len(s) : Append(s, x)[i] = s[i]
  BY AppendProperties
<1>4. E = (IF x = t THEN D \cup {n} ELSE D) /\ n \notin D
  BY <1>2, <1>3
<1> HIDE DEF D, E, n
<1>5. Cardinality(D \cup {n}) = Cardinality(D) + 1
  BY <1>1, <1>4, FS_AddElement
<1>6. Cardinality(E) = Cardinality(D) + (IF x = t THEN 1 ELSE 0)
  BY <1>1, <1>4, <1>5
<1> QED
  BY <1>6 DEF D, E, Occ

LEMMA OccConcat ==
  ASSUME NEW T, NEW s \in Seq(T), NEW r \in Seq(T), NEW t
  PROVE  Occ(s \o r, t) = Occ(s, t) + Occ(r, t)
<1> DEFINE S == {k \in Nat : \A q \in Seq(T) : Len(q) = k =>
                               Occ(s \o q, t) = Occ(s, t) + Occ(q, t)}
<1>1. 0 \in S
  <2> SUFFICES ASSUME NEW q \in Seq(T), Len(q) = 0
               PROVE  Occ(s \o q, t) = Occ(s, t) + Occ(q, t)
    OBVIOUS
  <2>1. q = <<>> /\ s \o q = s
    BY ConcatEmptySeq
  <2>2. Occ(q, t) = 0 /\ Occ(s, t) \in Nat
    BY <2>1, OccEmpty, OccType
  <2> HIDE DEF S
  <2> QED
    BY <2>1, <2>2
<1>2. ASSUME NEW k \in Nat, k \in S PROVE k + 1 \in S
  <2> SUFFICES ASSUME NEW q \in Seq(T), Len(q) = k + 1
               PROVE  Occ(s \o q, t) = Occ(s, t) + Occ(q, t)
    OBVIOUS
  <2> HIDE DEF S
  <2>1. PICK p \in Seq(T), m \in T : q = Append(p, m)
    <3>1. q # <<>>
      OBVIOUS
    <3> QED
      BY <3>1, SequenceEmptyOrAppend
  <2>2. Len(p) = k
    BY <2>1
  <2>3. Occ(s \o p, t) = Occ(s, t) + Occ(p, t)
    BY <1>2, <2>2 DEF S
  <2>4. s \o q = Append(s \o p, m) /\ s \o p \in Seq(T)
    BY <2>1
  <2>5. Occ(s \o q, t) = Occ(s \o p, t) + (IF m = t THEN 1 ELSE 0)
    <3>1. PICK u \in Seq(T) : u = s \o p
      BY <2>4
    <3>2. Occ(Append(u, m), t) = Occ(u, t) + (IF m = t THEN 1 ELSE 0)
      BY OccAppend
    <3> QED
      BY <2>4, <3>1, <3>2
  <2>6. Occ(q, t) = Occ(p, t) + (IF m = t THEN 1 ELSE 0)
    BY <2>1, OccAppend
  <2>7. Occ(s, t) \in Nat /\ Occ(p, t) \in Nat
    BY OccType
  <2> QED
    BY <2>3, <2>5, <2>6, <2>7
<1> HIDE DEF S
<1>3. Nat \subseteq S
  BY <1>1, <1>2, Induction
<1> QED
  BY <1>3 DEF S

Held(q, t) == Occ(FlattenSeq(q), t)

LEMMA HeldType ==
  ASSUME NEW T, NEW q \in Seq(Seq(T)), NEW t
  PROVE  Held(q, t) \in Nat
<1>1. PICK u \in Seq(T) : u = FlattenSeq(q)
  BY FlatType
<1> QED
  BY <1>1, OccType DEF Held

LEMMA HeldEmpty == ASSUME NEW t PROVE Held(<<>>, t) = 0
  BY FlatEmpty, OccEmpty DEF Held

LEMMA HeldOne ==
  ASSUME NEW T, NEW m \in Seq(T), NEW t
  PROVE  Held(<<m>>, t) = Occ(m, t)
  BY FlatOne DEF Held

LEMMA HeldConcat ==
  ASSUME NEW T, NEW q \in Seq(Seq(T)), NEW r \in Seq(Seq(T)), NEW t
  PROVE  Held(q \o r, t) = Held(q, t) + Held(r, t)
<1>1. PICK u \in Seq(T) : u = FlattenSeq(q)
  BY FlatType
<1>2. PICK v \in Seq(T) : v = FlattenSeq(r)
  BY FlatType
<1>3. FlattenSeq(q \o r) = u \o v
  BY <1>1, <1>2, FlatConcat
<1>4. Occ(u \o v, t) = Occ(u, t) + Occ(v, t)
  BY OccConcat
<1> QED
  BY <1>1, <1>2, <1>3, <1>4 DEF Held

LEMMA HeldAppend ==
  ASSUME NEW T, NEW q \in Seq(Seq(T)), NEW m \in Seq(T), NEW t
  PROVE  Held(Append(q, m), t) = Held(q, t) + Occ(m, t)
<1>1. PICK u \in Seq(T) : u = FlattenSeq(q)
  BY FlatType
<1>2. FlattenSeq(Append(q, m)) = u \o m
  BY <1>1, FlatAppend
<1>3. Occ(u \o m, t) = Occ(u, t) + Occ(m, t)
  BY OccConcat
<1> QED
  BY <1>1, <1>2, <1>3 DEF Held

\* A sequence and its parts around the i-th element.
Before(q, i) == SubSeq(q, 1, i - 1)
Beyond(q, i) == SubSeq(q, i + 1, Len(q))

LEMMA SplitAt ==
  ASSUME NEW M, NEW q \in Seq(M), NEW i \in 1 .. Len(q)
  PROVE  /\ Before(q, i) \in Seq(M) /\ Len(Before(q, i)) = i - 1
         /\ Beyond(q, i) \in Seq(M) /\ Len(Beyond(q, i)) = Len(q) - i
         /\ q[i] \in M /\ <<q[i]>> \in Seq(M)
         /\ q = Append(Before(q, i), q[i]) \o Beyond(q, i)
         /\ SubSeq(q, i, Len(q)) = <<q[i]>> \o Beyond(q, i)
         /\ SubSeq(q, 1, i) = Append(Before(q, i), q[i])
<1>1. PICK p : p = Before(q, i)
  OBVIOUS
<1>2. p \in Seq(M) /\ Len(p) = i - 1 /\ \A j \in 1 .. i - 1 : p[j] = q[j]
  BY <1>1 DEF Before
<1>3. PICK r : r = Beyond(q, i)
  OBVIOUS
<1>4. r \in Seq(M) /\ Len(r) = Len(q) - i /\ \A j \in 1 .. Len(q) - i : r[j] = q[i + j]
  BY <1>3 DEF Beyond
<1>5. PICK x \in M : x = q[i]
  OBVIOUS
<1>6. PICK u : u = Append(p, x)
  OBVIOUS
<1>7. u \in Seq(M) /\ Len(u) = i /\ u[i] = x /\ \A j \in 1 .. i - 1 : u[j] = q[j]
  <2>1. u \in Seq(M) /\ Len(u) = Len(p) + 1 /\ u[Len(p) + 1] = x /\ \A j \in 1 .. Len(p) : u[j] = p[j]
    BY <1>2, <1>5, <1>6, AppendProperties
  <2> QED
    BY <1>2, <2>1
<1>8. q = u \o r
  <2>1. /\ u \o r \in Seq(M) /\ Len(u \o r) = Len(u) + Len(r)
        /\ \A j \in 1 .. Len(u) + Len(r) : (u \o r)[j] = IF j <= Len(u) THEN u[j] ELSE r[j - Len(u)]
    BY <1>4, <1>7, ConcatProperties
  <2>2. ASSUME NEW j \in 1 .. Len(q) PROVE (u \o r)[j] = q[j]
    <3>0. (u \o r)[j] = IF j <= i THEN u[j] ELSE r[j - i]
      BY <1>4, <1>7, <2>1
    <3>1. CASE j <= i
      BY <1>5, <1>7, <3>0, <3>1
    <3>2. CASE ~(j <= i)
      <4>1. j - i \in 1 .. Len(q) - i /\ i + (j - i) = j
        BY <3>2
      <4> QED
        BY <1>4, <3>0, <3>2, <4>1
    <3> QED
      BY <3>1, <3>2
  <2>3. Len(u \o r) = Len(q)
    BY <1>4, <1>7, <2>1
  <2> QED
    BY <2>1, <2>2, <2>3, SeqEqual
<1>9. SubSeq(q, i, Len(q)) = <<q[i]>> \o Beyond(q, i)
  <2>1. Len(q) \in i .. Len(q)
    OBVIOUS
  <2> QED
    BY <2>1, SubSeqRecursiveFirst DEF Beyond
<1>10. SubSeq(q, 1, i) = Append(Before(q, i), q[i])
  <2>1. 1 \in 1 .. Len(q) /\ i \in 1 .. Len(q)
    OBVIOUS
  <2>2. SubSeq(q, 1, i) = SubSeq(q, 1, i - 1) \o <<q[i]>>
    BY <2>1, SubSeqRecursiveSecond
  <2>3. Append(p, x) = p \o <<x>>
    BY <1>2, <1>5, AppendIsConcat
  <2> QED
    BY <1>1, <1>5, <2>2, <2>3 DEF Before
<1>11. <<x>> \in Seq(M)
  OBVIOUS
<1> QED
  BY <1>1, <1>2, <1>3, <1>4, <1>5, <1>6, <1>8, <1>9, <1>10, <1>11

LEMMA OneMore ==
  ASSUME NEW M, NEW p \in Seq(M), NEW x \in M
  PROVE  Append(p, x) \in Seq(M) /\ <<x>> \in Seq(M) /\ Len(<<x>>) = 1
  OBVIOUS

LEMMA RemoveAndPromote ==
  ASSUME NEW M, NEW q \in Seq(M), NEW i \in 1 .. Len(q)
  PROVE  /\ RemoveAt(q, i) \in Seq(M) /\ Len(RemoveAt(q, i)) = Len(q) - 1
         /\ <<q[i]>> \o RemoveAt(q, i) \in Seq(M) /\ Len(<<q[i]>> \o RemoveAt(q, i)) = Len(q)
<1>0. /\ Before(q, i) \in Seq(M) /\ Len(Before(q, i)) = i - 1
      /\ Beyond(q, i) \in Seq(M) /\ Len(Beyond(q, i)) = Len(q) - i
  BY SplitAt
<1>1. PICK p \in Seq(M) : p = Before(q, i)
  BY <1>0
<1>2. PICK r \in Seq(M) : r = Beyond(q, i)
  BY <1>0
<1>3. p \o r \in Seq(M) /\ Len(p \o r) = Len(p) + Len(r)
  BY ConcatProperties
<1>4. PICK u \in Seq(M) : u = p \o r
  BY <1>3
<1>5. u = RemoveAt(q, i)
  BY <1>1, <1>2, <1>4 DEF RemoveAt, Before, Beyond
<1>6. Len(u) = Len(q) - 1
  BY <1>0, <1>1, <1>2, <1>3, <1>4
<1>7. q[i] \in M
  OBVIOUS
<1>8. PICK x \in M : x = q[i]
  BY <1>7
<1>9. <<x>> \in Seq(M) /\ Len(<<x>>) = 1
  OBVIOUS
<1>10. <<x>> \o u \in Seq(M) /\ Len(<<x>> \o u) = 1 + Len(u)
  BY <1>9, ConcatProperties
<1>11. Len(<<x>> \o u) = Len(q)
  BY <1>6, <1>10
<1>12. RemoveAt(q, i) \in Seq(M) /\ Len(RemoveAt(q, i)) = Len(q) - 1
  BY <1>5, <1>6
<1> QED
  BY <1>5, <1>8, <1>10, <1>11, <1>12

LEMMA EndsInAppend ==
  ASSUME NEW M, NEW q \in Seq(M), NEW k \in Nat, Len(q) = k + 1
  PROVE  \E p \in Seq(M), m \in M :
           /\ q = Append(p, m) /\ Len(p) = k /\ q[k + 1] = m /\ \A i \in 1 .. k : q[i] = p[i]
<1>1. q # <<>>
  OBVIOUS
<1>2. PICK p \in Seq(M), m \in M : q = Append(p, m)
  BY <1>1, SequenceEmptyOrAppend
<1>3. Len(p) = k
  BY <1>2
<1>4. q[k + 1] = m /\ \A i \in 1 .. k : q[i] = p[i]
  BY <1>2, <1>3, AppendProperties
<1> QED
  BY <1>2, <1>3, <1>4

\* What the messages around the i-th hold.
LEMMA HeldSplit ==
  ASSUME NEW T, NEW q \in Seq(Seq(T)), NEW i \in 1 .. Len(q), NEW t
  PROVE  /\ Held(Before(q, i), t) \in Nat /\ Held(Beyond(q, i), t) \in Nat /\ Occ(q[i], t) \in Nat
         /\ Held(q, t) = Held(Before(q, i), t) + Occ(q[i], t) + Held(Beyond(q, i), t)
<1>1. /\ Before(q, i) \in Seq(Seq(T)) /\ Beyond(q, i) \in Seq(Seq(T)) /\ q[i] \in Seq(T)
      /\ q = Append(Before(q, i), q[i]) \o Beyond(q, i)
  BY SplitAt
<1>2. PICK p \in Seq(Seq(T)) : p = Before(q, i)
  BY <1>1
<1>3. PICK r \in Seq(Seq(T)) : r = Beyond(q, i)
  BY <1>1
<1>4. PICK m \in Seq(T) : m = q[i]
  BY <1>1
<1>5. PICK u \in Seq(Seq(T)) : u = Append(p, m)
  BY OneMore
<1>6. Held(u \o r, t) = Held(u, t) + Held(r, t)
  BY HeldConcat
<1>7. Held(u, t) = Held(p, t) + Occ(m, t)
  BY <1>5, HeldAppend
<1>8. Held(p, t) \in Nat /\ Held(r, t) \in Nat
  BY HeldType
<1>9. Occ(m, t) \in Nat
  BY OccType
<1>10. q = u \o r
  BY <1>1, <1>2, <1>3, <1>4, <1>5
<1> QED
  BY <1>2, <1>3, <1>4, <1>6, <1>7, <1>8, <1>9, <1>10

\* What is taken out, put in front, or replaced.
LEMMA HeldRemove ==
  ASSUME NEW T, NEW q \in Seq(Seq(T)), NEW i \in 1 .. Len(q), NEW t
  PROVE  /\ RemoveAt(q, i) \in Seq(Seq(T))
         /\ Len(RemoveAt(q, i)) = Len(q) - 1
         /\ Held(RemoveAt(q, i), t) \in Nat
         /\ Held(q, t) = Held(RemoveAt(q, i), t) + Occ(q[i], t)
<1>1. PICK p \in Seq(Seq(T)) : p = Before(q, i) /\ Len(p) = i - 1
  BY SplitAt
<1>2. PICK r \in Seq(Seq(T)) : r = Beyond(q, i) /\ Len(r) = Len(q) - i
  BY SplitAt
<1>3. RemoveAt(q, i) = p \o r
  BY <1>1, <1>2 DEF RemoveAt, Before, Beyond
<1>4. p \o r \in Seq(Seq(T)) /\ Len(p \o r) = Len(p) + Len(r)
  BY ConcatProperties
<1>5. Held(p \o r, t) = Held(p, t) + Held(r, t)
  BY HeldConcat
<1>6. /\ Held(p, t) \in Nat /\ Held(r, t) \in Nat /\ Occ(q[i], t) \in Nat
      /\ Held(q, t) = Held(p, t) + Occ(q[i], t) + Held(r, t)
  BY <1>1, <1>2, HeldSplit
<1> QED
  BY <1>1, <1>2, <1>3, <1>4, <1>5, <1>6

LEMMA HeldPromote ==
  ASSUME NEW T, NEW q \in Seq(Seq(T)), NEW i \in 1 .. Len(q), NEW t
  PROVE  /\ <<q[i]>> \o RemoveAt(q, i) \in Seq(Seq(T))
         /\ Len(<<q[i]>> \o RemoveAt(q, i)) = Len(q)
         /\ Held(<<q[i]>> \o RemoveAt(q, i), t) = Held(q, t)
<1>1. PICK r \in Seq(Seq(T)) : /\ r = RemoveAt(q, i) /\ Len(r) = Len(q) - 1
                               /\ Held(r, t) \in Nat
                               /\ Held(q, t) = Held(r, t) + Occ(q[i], t)
  BY HeldRemove
<1>2. PICK m \in Seq(T) : m = q[i]
  OBVIOUS
<1>3. PICK u \in Seq(Seq(T)) : u = <<m>> /\ Len(u) = 1
  BY OneMore
<1>4. u \o r \in Seq(Seq(T)) /\ Len(u \o r) = Len(u) + Len(r)
  BY ConcatProperties
<1>5. Held(u \o r, t) = Held(u, t) + Held(r, t)
  BY HeldConcat
<1>6. Held(u, t) = Occ(m, t)
  BY <1>3, HeldOne
<1>7. Occ(m, t) \in Nat
  BY OccType
<1> QED
  BY <1>1, <1>2, <1>3, <1>4, <1>5, <1>6, <1>7

LEMMA HeldReplace ==
  ASSUME NEW T, NEW q \in Seq(Seq(T)), NEW i \in 1 .. Len(q), NEW m \in Seq(T), NEW t
  PROVE  Held([q EXCEPT ![i] = m], t) + Occ(q[i], t) = Held(q, t) + Occ(m, t)
<1>1. PICK u : u = [q EXCEPT ![i] = m]
  OBVIOUS
<1>2. u \in Seq(Seq(T)) /\ Len(u) = Len(q) /\ u[i] = m
  BY <1>1
<1>3. \A j \in 1 .. Len(q) : j # i => u[j] = q[j]
  BY <1>1
<1>4. Before(u, i) = Before(q, i)
  <2>1. \A j \in 1 .. i - 1 : u[j] = q[j]
    BY <1>3
  <2> QED
    BY <1>2, <2>1 DEF Before
<1>5. Beyond(u, i) = Beyond(q, i)
  <2>1. \A j \in i + 1 .. Len(q) : u[j] = q[j]
    BY <1>3
  <2> QED
    BY <1>2, <2>1 DEF Beyond
<1>6. i \in 1 .. Len(u)
  BY <1>2
<1>7. /\ Held(Before(q, i), t) \in Nat /\ Held(Beyond(q, i), t) \in Nat /\ Occ(q[i], t) \in Nat
      /\ Held(q, t) = Held(Before(q, i), t) + Occ(q[i], t) + Held(Beyond(q, i), t)
  BY HeldSplit
<1>8. /\ Occ(u[i], t) \in Nat
      /\ Held(u, t) = Held(Before(u, i), t) + Occ(u[i], t) + Held(Beyond(u, i), t)
  BY <1>2, <1>6, HeldSplit
<1> QED
  BY <1>1, <1>2, <1>4, <1>5, <1>7, <1>8

\* The end of a sequence from some place on, its beginning, and one of it.
LEMMA HeldParts ==
  ASSUME NEW T, NEW q \in Seq(Seq(T)), NEW i \in 1 .. Len(q), NEW t
  PROVE  /\ Held(SubSeq(q, i, Len(q)), t) <= Held(q, t)
         /\ Held(SubSeq(q, 1, i), t) <= Held(q, t)
         /\ Occ(q[i], t) <= Held(q, t)
<1>1. PICK p \in Seq(Seq(T)) : p = Before(q, i)
  BY SplitAt
<1>2. PICK r \in Seq(Seq(T)) : r = Beyond(q, i)
  BY SplitAt
<1>3. PICK m \in Seq(T) : m = q[i]
  OBVIOUS
<1>4. /\ SubSeq(q, i, Len(q)) = <<q[i]>> \o Beyond(q, i)
      /\ SubSeq(q, 1, i) = Append(Before(q, i), q[i])
  BY SplitAt
<1>5. PICK u \in Seq(Seq(T)) : u = <<m>>
  BY OneMore
<1>6. Held(u, t) = Occ(m, t)
  BY <1>5, HeldOne
<1>7. Held(u \o r, t) = Held(u, t) + Held(r, t)
  BY HeldConcat
<1>8. Held(Append(p, m), t) = Held(p, t) + Occ(m, t)
  BY HeldAppend
<1>9. /\ Held(p, t) \in Nat /\ Held(r, t) \in Nat /\ Occ(m, t) \in Nat
      /\ Held(q, t) = Held(p, t) + Occ(m, t) + Held(r, t)
  BY <1>1, <1>2, <1>3, HeldSplit
<1>10. SubSeq(q, i, Len(q)) = u \o r /\ SubSeq(q, 1, i) = Append(p, m)
  BY <1>1, <1>2, <1>3, <1>4, <1>5
<1>11. Held(SubSeq(q, i, Len(q)), t) = Occ(m, t) + Held(r, t)
  BY <1>6, <1>7, <1>10
<1>12. Held(SubSeq(q, 1, i), t) = Held(p, t) + Occ(m, t)
  BY <1>8, <1>10
<1>13. Occ(q[i], t) = Occ(m, t)
  BY <1>3
<1> QED
  BY <1>9, <1>11, <1>12, <1>13

LEMMA HeldHeadTail ==
  ASSUME NEW T, NEW q \in Seq(Seq(T)), q # <<>>, NEW t
  PROVE  /\ Head(q) \in Seq(T) /\ Tail(q) \in Seq(Seq(T))
         /\ Held(q, t) = Occ(Head(q), t) + Held(Tail(q), t)
<1>1. 1 \in 1 .. Len(q) /\ Head(q) = q[1]
  OBVIOUS
<1>2. Tail(q) = Beyond(q, 1)
  BY TailIsSubSeq DEF Beyond
<1>3. Before(q, 1) = <<>>
  BY DEF Before
<1>4. Held(Before(q, 1), t) = 0
  BY <1>3, HeldEmpty
<1>5. /\ Held(Beyond(q, 1), t) \in Nat /\ Occ(q[1], t) \in Nat
      /\ Held(q, t) = Held(Before(q, 1), t) + Occ(q[1], t) + Held(Beyond(q, 1), t)
  BY <1>1, HeldSplit
<1>6. Head(q) \in Seq(T) /\ Tail(q) \in Seq(Seq(T))
  BY HeadTailProperties
<1>7. Occ(Head(q), t) = Occ(q[1], t) /\ Held(Tail(q), t) = Held(Beyond(q, 1), t)
  BY <1>1, <1>2
<1> QED
  BY <1>4, <1>5, <1>6, <1>7

\* Messages of which each has no more of t than its counterpart have no more of it.
LEMMA HeldLess ==
  ASSUME NEW T, NEW t, NEW q \in Seq(Seq(T)), NEW r \in Seq(Seq(T)), Len(q) = Len(r),
         \A i \in 1 .. Len(q) : Occ(q[i], t) <= Occ(r[i], t)
  PROVE  Held(q, t) <= Held(r, t)
<1> DEFINE Less(k) == \A u, v \in Seq(Seq(T)) :
                        Len(u) = k /\ Len(v) = k /\ (\A i \in 1 .. k : Occ(u[i], t) <= Occ(v[i], t))
                          => Held(u, t) <= Held(v, t)
           S == {k \in Nat : Less(k)}
<1>1. 0 \in S
  <2> SUFFICES ASSUME NEW u \in Seq(Seq(T)), NEW v \in Seq(Seq(T)), Len(u) = 0, Len(v) = 0
               PROVE  Held(u, t) <= Held(v, t)
    OBVIOUS
  <2>1. u = <<>> /\ v = <<>>
    OBVIOUS
  <2>2. Held(u, t) = 0 /\ Held(v, t) = 0
    BY <2>1, HeldEmpty
  <2> HIDE DEF S
  <2> QED
    BY <2>2
<1>2. ASSUME NEW k \in Nat, k \in S PROVE k + 1 \in S
  <2>0. k + 1 \in Nat
    OBVIOUS
  <2> SUFFICES Less(k + 1)
    BY <2>0
  <2> SUFFICES ASSUME NEW u \in Seq(Seq(T)), NEW v \in Seq(Seq(T)), Len(u) = k + 1, Len(v) = k + 1,
                      \A i \in 1 .. k + 1 : Occ(u[i], t) <= Occ(v[i], t)
               PROVE  Held(u, t) <= Held(v, t)
    OBVIOUS
  <2> HIDE DEF S, Less
  <2>e. \A w \in Seq(Seq(T)) : Len(w) = k + 1 =>
          \E p \in Seq(Seq(T)), m \in Seq(T) :
            w = Append(p, m) /\ Len(p) = k /\ w[k + 1] = m /\ \A i \in 1 .. k : w[i] = p[i]
    BY EndsInAppend
  <2>1. PICK p \in Seq(Seq(T)), m \in Seq(T) :
          u = Append(p, m) /\ Len(p) = k /\ u[k + 1] = m /\ \A i \in 1 .. k : u[i] = p[i]
    BY <2>e
  <2>2. PICK o \in Seq(Seq(T)), n \in Seq(T) :
          v = Append(o, n) /\ Len(o) = k /\ v[k + 1] = n /\ \A i \in 1 .. k : v[i] = o[i]
    BY <2>e
  <2>3. \A i \in 1 .. k : Occ(p[i], t) <= Occ(o[i], t)
    <3>1. \A i \in 1 .. k : i \in 1 .. k + 1
      OBVIOUS
    <3> QED
      BY <2>1, <2>2, <3>1
  <2>5. Held(p, t) <= Held(o, t)
    BY <1>2, <2>1, <2>2, <2>3 DEF S, Less
  <2>6. Held(u, t) = Held(p, t) + Occ(m, t) /\ Held(v, t) = Held(o, t) + Occ(n, t)
    BY <2>1, <2>2, HeldAppend
  <2>7. Occ(m, t) <= Occ(n, t)
    <3>1. k + 1 \in 1 .. k + 1
      OBVIOUS
    <3> QED
      BY <2>1, <2>2, <3>1
  <2>8. Held(p, t) \in Nat /\ Held(o, t) \in Nat /\ Occ(m, t) \in Nat /\ Occ(n, t) \in Nat
    BY HeldType, OccType
  <2> QED
    BY <2>5, <2>6, <2>7, <2>8
<1> HIDE DEF S, Less
<1>3. Nat \subseteq S
  BY <1>1, <1>2, Induction
<1>4. Len(q) \in S
  BY <1>3
<1> QED
  BY <1>4 DEF S, Less

\* A text is among the messages if it is in one of them.
LEMMA HeldIn ==
  ASSUME NEW T, NEW t, NEW q \in Seq(Seq(T))
  PROVE  Held(q, t) # 0 <=> \E i \in 1 .. Len(q) : Occ(q[i], t) # 0
<1>1. ASSUME NEW i \in 1 .. Len(q), Occ(q[i], t) # 0 PROVE Held(q, t) # 0
  <2>1. Occ(q[i], t) <= Held(q, t)
    BY HeldParts
  <2>2. q[i] \in Seq(T)
    OBVIOUS
  <2>3. Occ(q[i], t) \in Nat /\ Held(q, t) \in Nat
    BY <2>2, HeldType, OccType
  <2> QED
    BY <1>1, <2>1, <2>3
<1>2. ASSUME \A i \in 1 .. Len(q) : Occ(q[i], t) = 0 PROVE Held(q, t) = 0
  <2> DEFINE S == {k \in Nat : \A u \in Seq(Seq(T)) :
                     Len(u) = k /\ (\A i \in 1 .. k : Occ(u[i], t) = 0) => Held(u, t) = 0}
  <2>1. 0 \in S
    <3> SUFFICES ASSUME NEW u \in Seq(Seq(T)), Len(u) = 0 PROVE Held(u, t) = 0
      OBVIOUS
    <3>1. u = <<>>
      OBVIOUS
    <3> HIDE DEF S
    <3> QED
      BY <3>1, HeldEmpty
  <2>2. ASSUME NEW k \in Nat, k \in S PROVE k + 1 \in S
    <3> SUFFICES ASSUME NEW u \in Seq(Seq(T)), Len(u) = k + 1,
                        \A i \in 1 .. k + 1 : Occ(u[i], t) = 0
                 PROVE  Held(u, t) = 0
      OBVIOUS
    <3> HIDE DEF S
    <3>1. PICK p \in Seq(Seq(T)), m \in Seq(T) :
            u = Append(p, m) /\ Len(p) = k /\ u[k + 1] = m /\ \A i \in 1 .. k : u[i] = p[i]
      BY EndsInAppend
    <3>2. \A i \in 1 .. k : Occ(p[i], t) = 0
      <4>1. \A i \in 1 .. k : i \in 1 .. k + 1
        OBVIOUS
      <4> QED
        BY <3>1, <4>1
    <3>3. Held(p, t) = 0
      BY <2>2, <3>1, <3>2 DEF S
    <3>4. Held(u, t) = Held(p, t) + Occ(m, t)
      BY <3>1, HeldAppend
    <3>5. Occ(m, t) = 0
      <4>1. k + 1 \in 1 .. k + 1
        OBVIOUS
      <4> QED
        BY <3>1, <4>1
    <3> QED
      BY <3>3, <3>4, <3>5
  <2> HIDE DEF S
  <2>3. Len(q) \in S
    BY <2>1, <2>2, Induction
  <2> QED
    BY <1>2, <2>3 DEF S
<1> QED
  BY <1>1, <1>2

\* A sequence that has nothing twice is no longer than the set it is over.
LEMMA DistinctIsShort ==
  ASSUME NEW T, IsFiniteSet(T), NEW s \in Seq(T), \A t \in T : Occ(s, t) <= 1
  PROVE  Len(s) <= Cardinality(T)
<1> SUFFICES ASSUME Cardinality(T) < Len(s) PROVE FALSE
  <2>1. Cardinality(T) \in Nat /\ Len(s) \in Nat
    BY FS_CardinalityType
  <2> QED
    BY <2>1
<1>1. IsFiniteSet(1 .. Len(s)) /\ Cardinality(1 .. Len(s)) = Len(s)
  BY FS_Interval
<1>2. s \in [1 .. Len(s) -> T]
  OBVIOUS
<1>3. PICK x \in 1 .. Len(s), y \in 1 .. Len(s) : x # y /\ s[x] = s[y]
  BY <1>1, <1>2, FS_PigeonHole
<1> DEFINE D == {i \in DOMAIN s : s[i] = s[x]}
<1>4. IsFiniteSet(D) /\ Cardinality(D) <= 1
  BY <1>2, OccType DEF Occ
<1>5. PICK X \in SUBSET D : X = {x} \cup {y}
  BY <1>2, <1>3
<1>6. IsFiniteSet({x}) /\ Cardinality({x}) = 1
  BY FS_Singleton
<1>7. Cardinality(X) = 2
  <2>1. PICK Y : Y = {x}
    OBVIOUS
  <2>2. y \notin Y /\ X = Y \cup {y}
    BY <1>3, <1>5, <2>1
  <2>3. Cardinality(Y \cup {y}) = Cardinality(Y) + 1
    BY <1>6, <2>1, <2>2, FS_AddElement
  <2>4. Cardinality(Y) = 1
    BY <1>6, <2>1
  <2>5. Cardinality(X) = Cardinality(Y) + 1
    BY <2>2, <2>3
  <2> QED
    BY <2>4, <2>5
<1> HIDE DEF D
<1>8. Cardinality(X) <= Cardinality(D) /\ Cardinality(D) \in Nat
  BY <1>4, FS_Subset, FS_CardinalityType
<1> QED
  BY <1>4, <1>7, <1>8

LEMMA FlatIsLonger ==
  ASSUME NEW T, NEW q \in Seq(Seq(T)), \A i \in 1 .. Len(q) : q[i] # <<>>
  PROVE  Len(q) <= Len(FlattenSeq(q))
<1> DEFINE Longer(k) == \A u \in Seq(Seq(T)) :
                          Len(u) = k /\ (\A i \in 1 .. k : u[i] # <<>>) => k <= Len(FlattenSeq(u))
           S == {k \in Nat : Longer(k)}
<1>1. 0 \in S
  <2> SUFFICES ASSUME NEW u \in Seq(Seq(T)), Len(u) = 0 PROVE 0 <= Len(FlattenSeq(u))
    OBVIOUS
  <2>1. u = <<>>
    OBVIOUS
  <2>2. FlattenSeq(u) = <<>>
    BY <2>1, FlatEmpty
  <2> HIDE DEF S, Longer
  <2> QED
    BY <2>2
<1>2. ASSUME NEW k \in Nat, k \in S PROVE k + 1 \in S
  <2>0. k + 1 \in Nat
    OBVIOUS
  <2> SUFFICES Longer(k + 1)
    BY <2>0
  <2> SUFFICES ASSUME NEW u \in Seq(Seq(T)), Len(u) = k + 1, \A i \in 1 .. k + 1 : u[i] # <<>>
               PROVE  k + 1 <= Len(FlattenSeq(u))
    OBVIOUS
  <2> HIDE DEF S, Longer
  <2>1. PICK p \in Seq(Seq(T)), m \in Seq(T) :
          u = Append(p, m) /\ Len(p) = k /\ u[k + 1] = m /\ \A i \in 1 .. k : u[i] = p[i]
    BY EndsInAppend
  <2>2. (\A i \in 1 .. k : p[i] # <<>>) /\ m # <<>>
    <3>1. (\A i \in 1 .. k : i \in 1 .. k + 1) /\ k + 1 \in 1 .. k + 1
      OBVIOUS
    <3> QED
      BY <2>1, <3>1
  <2>3. k <= Len(FlattenSeq(p))
    BY <1>2, <2>1, <2>2 DEF S, Longer
  <2>4. PICK v \in Seq(T) : v = FlattenSeq(p)
    BY FlatType
  <2>5. FlattenSeq(u) = v \o m
    BY <2>1, <2>4, FlatAppend
  <2>6. Len(v \o m) = Len(v) + Len(m) /\ Len(m) > 0
    BY <2>2
  <2> QED
    BY <2>3, <2>4, <2>5, <2>6
<1> HIDE DEF S, Longer
<1>3. Nat \subseteq S
  BY <1>1, <1>2, Induction
<1>4. Len(q) \in S
  BY <1>3
<1> QED
  BY <1>4 DEF S, Longer

\* Messages that hold nothing twice are few and short.
LEMMA MessagesAreFew ==
  ASSUME NEW T, IsFiniteSet(T), NEW q \in Seq(Seq(T)), \A i \in 1 .. Len(q) : q[i] # <<>>,
         \A t \in T : Held(q, t) <= 1
  PROVE  /\ Len(q) <= Cardinality(T)
         /\ \A i \in 1 .. Len(q) : q[i] \in [1 .. Len(q[i]) -> T] /\ Len(q[i]) \in 1 .. Cardinality(T)
<1>1. Len(q) <= Cardinality(T)
  <2>1. PICK v \in Seq(T) : v = FlattenSeq(q)
    BY FlatType
  <2>2. Len(v) <= Cardinality(T)
    BY <2>1, DistinctIsShort DEF Held
  <2>3. Len(q) <= Len(v)
    BY <2>1, FlatIsLonger
  <2>4. Cardinality(T) \in Nat
    BY FS_CardinalityType
  <2> QED
    BY <2>2, <2>3, <2>4
<1>2. ASSUME NEW i \in 1 .. Len(q)
      PROVE  q[i] \in [1 .. Len(q[i]) -> T] /\ Len(q[i]) \in 1 .. Cardinality(T)
  <2>1. PICK m \in Seq(T) : m = q[i] /\ m # <<>>
    OBVIOUS
  <2>2. ASSUME NEW t \in T PROVE Occ(m, t) <= 1
    <3>1. Occ(q[i], t) <= Held(q, t)
      BY HeldParts
    <3>2. Occ(m, t) \in Nat /\ Held(q, t) \in Nat
      BY HeldType, OccType
    <3> QED
      BY <2>1, <3>1, <3>2
  <2>3. Len(m) <= Cardinality(T) /\ Cardinality(T) \in Nat
    BY <2>2, DistinctIsShort, FS_CardinalityType
  <2>4. m \in [1 .. Len(m) -> T] /\ Len(m) \in Nat \ {0}
    BY <2>1
  <2> QED
    BY <2>1, <2>3, <2>4
<1> QED
  BY <1>1, <1>2

Message == Seq(Texts) \ {<<>>}
Returned == {"returned", "reporting", "over"}
AtWork == {"boundary", "calling", "failing", "answered", "closed", "committing"}
Numbered == [sequence : Nat, content : Message]

UiTypes ==
  /\ mode \in {"idle", "busy", "compacting"}
  /\ queue \in Seq(Message) /\ Len(queue) <= MaxQueue
  /\ paused \in BOOLEAN
  /\ composer \in Seq(Texts)
  /\ typed \subseteq Texts
ViewTypes ==
  /\ admitted \in Seq(Message)
  /\ seen \subseteq DOMAIN admitted
  /\ shown \in BOOLEAN
  /\ pending \in Outcomes \cup {"none"}
  /\ pump \in [at : {"off", "wait", "event", "done"}, event : Nat, result : Outcomes \cup {"none"}]
WireTypes ==
  /\ events \in Seq(Nat) /\ Len(events) <= Capacity
  /\ closed \in BOOLEAN
  /\ done \in Outcomes \cup {"none"}
TurnTypes ==
  /\ ask \in [pc : {"none", "starting"} \cup AtWork \cup Returned, input : Seq(Texts), outbox : Seq(Nat),
              result : Outcomes \cup {"none"}, committed : BOOLEAN]
  /\ ctx \in {"none", "live", "cancelled", "deadline"}
  /\ box \in [open : BOOLEAN, pending : Seq(Numbered), consumed : Seq(Numbered)]
  /\ ledger \in Seq([input : Message, steers : Seq(Message)])

\* Where the turn, its channels and its pump are with one another.
PhaseInv ==
  /\ mode = "busy" => ask.pc # "none" /\ ask.input # <<>> /\ ctx # "none" /\ pump.at # "off"
  /\ mode # "busy" =>
       /\ ask = NoAsk /\ ctx = "none" /\ admitted = <<>> /\ seen = {} /\ ~shown /\ pending = "none"
       /\ pump = Off /\ events = <<>> /\ ~closed /\ done = "none"
  /\ ask.result # "none" <=> ask.pc \in Returned
  /\ ask.committed => ask.result \in Outcomes \ {"cancelled"}
  /\ ask.result = "ok" => ask.committed
  /\ ask.outbox # <<>> => ask.pc \in {"calling", "answered"}
  /\ closed <=> ask.pc \in {"reporting", "over"}
  /\ done # "none" => ask.pc = "over" /\ done = ask.result
  /\ pump.at = "done" => ask.pc = "over" /\ pump.result = ask.result
  /\ pending # "none" => ask.pc = "over" /\ pending = ask.result
  /\ Settling => events = <<>>
  /\ ask.pc = "starting" => admitted = <<>>

\* The mailbox has what was admitted, the consumed before the pending.
Admission(i) == [sequence |-> i, content |-> admitted[i]]
BoxInv ==
  /\ ask.pc \notin AtWork => box = NoBox
  /\ ask.pc \in {"closed", "committing"} => ~box.open
  /\ Len(box.consumed) + Len(box.pending) <= Len(admitted)
  /\ Len(box.pending) = IF box.open THEN Len(admitted) - Len(box.consumed) ELSE 0
  /\ \A i \in 1 .. Len(box.consumed) : box.consumed[i] = Admission(i)
  /\ \A i \in 1 .. Len(box.pending) : box.pending[i] = Admission(Len(box.consumed) + i)

\* What the turn has sent and the screen has not shown, and its place in all
\* that a turn sends if nothing is dropped: the steers it took, and the answer.
Unseen == (IF pump.at = "event" THEN <<pump.event>> ELSE <<>>) \o events \o ask.outbox
Taken == IF ask.result = "ok" THEN Len(Last(ledger).steers) ELSE Len(box.consumed)
Answered == ask.result = "ok" \/ ask.pc \in {"answered", "closed", "committing"}
Faithful ==
  \/ ctx = "live" /\ ask.pc \in {"starting", "boundary", "calling", "answered", "closed"}
  \/ ask.pc = "committing"
  \/ ask.result = "ok"
\* u is the rest of it: what is before was shown.
InOrder(u, taken, answered, consumed, answer) ==
  LET k == taken + (IF answered THEN 1 ELSE 0) - Len(u)
  IN  /\ k >= 0
      /\ \A i \in 1 .. Len(u) : u[i] = IF k + i <= taken THEN k + i ELSE Answer
      /\ consumed = {i \in 1 .. taken : i <= k}
      /\ answer <=> k > taken
StreamInv ==
  /\ \A i \in 1 .. Len(Unseen) : Unseen[i] <= Len(admitted)
  /\ Faithful => InOrder(Unseen, Taken, Answered, seen, shown)
  /\ ask.result = "ok" =>
       /\ ledger # <<>> /\ Last(ledger).input = ask.input
       /\ Len(Last(ledger).steers) <= Len(admitted)
       /\ Last(ledger).steers = SubSeq(admitted, 1, Len(Last(ledger).steers))

\* How often a text is in the turn, and with that everywhere: once at most if it
\* was typed, and never otherwise.  The turn's are not counted again when they
\* are in the ledger; yet what is not in the ledger is at most once in itself.
InTurn(t) == Occ(ask.input, t) + Held(admitted, t)
Whole(entry) == entry.input \o Flat(entry.steers)
Wholes(l) == [i \in DOMAIN l |-> Whole(l[i])]
CountInv ==
  \A t \in Texts :
    /\ Occ(composer, t) + Held(queue, t) + (IF ask.committed THEN 0 ELSE InTurn(t))
         + Held(Wholes(ledger), t) <= IF t \in typed THEN 1 ELSE 0
    /\ Occ(composer, t) + Held(queue, t) + InTurn(t) <= IF t \in typed THEN 1 ELSE 0

QueueInv ==
  /\ UiTypes /\ ViewTypes /\ WireTypes /\ TurnTypes
  /\ PhaseInv /\ BoxInv /\ StreamInv /\ CountInv /\ NothingWaitsInVain

-----------------------------------------------------------------------------
(* Lemmas about the queue and the mailbox, and what the first step finds.  *)

LEMMA SmallestExists ==
  ASSUME NEW D, D \subseteq Nat, D # {}
  PROVE  \E i \in D : \A j \in D : i <= j
<1> DEFINE S == {n \in Nat : \A k \in 0 .. n : k \notin D}
<1> SUFFICES ASSUME \A i \in D : \E j \in D : j < i PROVE FALSE
  <2>1. \A i, j \in D : ~(i <= j) => j < i
    OBVIOUS
  <2> QED
    BY <2>1
<1>1. 0 \in S
  OBVIOUS
<1>2. ASSUME NEW n \in Nat, n \in S PROVE n + 1 \in S
  <2>1. n + 1 \notin D
    <3> SUFFICES ASSUME n + 1 \in D PROVE FALSE
      OBVIOUS
    <3>1. PICK j \in D : j < n + 1
      OBVIOUS
    <3>2. j \in 0 .. n
      BY <3>1
    <3> QED
      BY <1>2, <3>2
  <2> QED
    BY <1>2, <2>1
<1> HIDE DEF S
<1>3. Nat \subseteq S
  BY <1>1, <1>2, Induction
<1>4. PICK n \in D : TRUE
  OBVIOUS
<1>5. n \in S /\ n \in Nat
  BY <1>3
<1> QED
  BY <1>5 DEF S

LEMMA Empty == \A S : <<>> \in Seq(S) /\ Len(<<>>) = 0
  BY EmptySeq

LEMMA MessagesAreSequences ==
  /\ \A q \in Seq(Message) : q \in Seq(Seq(Texts)) /\ \A i \in 1 .. Len(q) : q[i] \in Message
  /\ \A m \in Message : m \in Seq(Texts) /\ m # <<>> /\ Len(m) \in Nat \ {0}
<1>1. Message \subseteq Seq(Texts)
  BY DEF Message
<1>2. \A q \in Seq(Message) : q \in Seq(Seq(Texts))
  BY <1>1, SeqMonotonic
<1>3. \A q \in Seq(Message) : \A i \in 1 .. Len(q) : q[i] \in Message
  OBVIOUS
<1>4. \A m \in Message : m \in Seq(Texts) /\ m # <<>> /\ Len(m) \in Nat \ {0}
  BY DEF Message
<1> QED
  BY <1>2, <1>3, <1>4

\* The queue from its first message that starts a turn.
LEMMA FromTurnIsRest ==
  ASSUME NEW q \in Seq(Message)
  PROVE  /\ FromTurn(q) \in Seq(Message) /\ Len(FromTurn(q)) <= Len(q)
         /\ \A t : Held(FromTurn(q), t) \in Nat /\ Held(FromTurn(q), t) <= Held(q, t)
<1> DEFINE starts == {i \in DOMAIN q : ~IsLocal(q[i])}
           i == CHOOSE i \in starts : \A j \in starts : i <= j
<1>0. q \in Seq(Seq(Texts))
  BY MessagesAreSequences
<1>1. CASE starts = {}
  <2>1. FromTurn(q) = <<>>
    BY <1>1 DEF FromTurn
  <2>2. \A t : Held(<<>>, t) = 0 /\ Held(q, t) \in Nat
    BY <1>0, HeldEmpty, HeldType
  <2> QED
    BY <2>1, <2>2
<1>2. CASE starts # {}
  <2>1. FromTurn(q) = SubSeq(q, i, Len(q))
    BY <1>2 DEF FromTurn
  <2>2. i \in 1 .. Len(q)
    <3>1. starts \subseteq Nat /\ starts \subseteq 1 .. Len(q)
      OBVIOUS
    <3> HIDE DEF starts
    <3>2. i \in starts
      BY <1>2, <3>1, SmallestExists
    <3> QED
      BY <3>1, <3>2
  <2> HIDE DEF i, starts
  <2>3. PICK r : r = SubSeq(q, i, Len(q))
    OBVIOUS
  <2>4. r \in Seq(Message) /\ Len(r) <= Len(q)
    BY <2>2, <2>3
  <2>5. r \in Seq(Seq(Texts))
    BY <2>4, MessagesAreSequences
  <2>6. \A t : Held(r, t) \in Nat /\ Held(r, t) <= Held(q, t)
    BY <1>0, <2>2, <2>3, <2>5, HeldType, HeldParts
  <2> QED
    BY <2>1, <2>3, <2>4, <2>6
<1> QED
  BY <1>1, <1>2

\* What DrainQueue leaves of a queue, and what it starts.
Restart(q) ==
  /\ queue' \in Seq(Message) /\ Len(queue') <= Len(q)
  /\ paused' \in BOOLEAN
  /\ paused' => queue' # <<>>
  /\ mode' = "idle" /\ queue' # <<>> => paused'
  /\ \/ Idle /\ \A t \in Texts : Held(queue', t) <= Held(q, t)
     \/ \E input \in Message :
          StartTurn(input) /\ \A t \in Texts : Occ(input, t) + Held(queue', t) <= Held(q, t)

LEMMA DrainRestarts ==
  ASSUME NEW q \in Seq(Message), NEW p \in BOOLEAN, p => q # <<>>, DrainQueue(q, p)
  PROVE  Restart(q)
<1>0. q \in Seq(Seq(Texts)) /\ \A t : Held(q, t) \in Nat
  BY MessagesAreSequences, HeldType
<1>1. PICK rest \in Seq(Message) :
        /\ rest = FromTurn(q) /\ Len(rest) <= Len(q)
        /\ \A t : Held(rest, t) \in Nat /\ Held(rest, t) <= Held(q, t)
  BY FromTurnIsRest
<1>2. CASE p /\ Idle /\ queue' = q /\ paused' = TRUE
  BY <1>0, <1>2 DEF Restart
<1>3. CASE rest = <<>> /\ Idle /\ queue' = <<>> /\ paused' = FALSE
  <2>1. PICK e \in Seq(Message) : e = <<>> /\ Len(e) = 0
    BY Empty
  <2>2. \A t : Held(e, t) = 0
    BY <2>1, HeldEmpty
  <2>3. queue' = e /\ paused' = FALSE /\ Idle
    BY <1>3, <2>1
  <2>4. Len(e) <= Len(q) /\ \A t \in Texts : Held(e, t) <= Held(q, t)
    BY <1>0, <2>1, <2>2
  <2> QED
    BY <2>1, <2>3, <2>4 DEF Restart
<1>4. CASE rest # <<>> /\ StartTurn(Head(rest)) /\ queue' = Tail(rest) /\ paused' = FALSE
  <2>1. Head(rest) \in Message /\ Tail(rest) \in Seq(Message) /\ Len(Tail(rest)) <= Len(q)
    BY <1>1, <1>4
  <2>2. rest \in Seq(Seq(Texts))
    BY MessagesAreSequences
  <2>3. ASSUME NEW t \in Texts PROVE Occ(Head(rest), t) + Held(Tail(rest), t) <= Held(q, t)
    BY <1>1, <1>4, <2>2, HeldHeadTail
  <2>4. mode' = "busy"
    BY <1>4 DEF StartTurn
  <2> QED
    BY <1>4, <2>1, <2>3, <2>4 DEF Restart
<1>5. CASE rest # <<>> /\ Idle /\ queue' = rest /\ paused' = TRUE
  BY <1>1, <1>5 DEF Restart
<1> QED
  BY <1>1, <1>2, <1>3, <1>4, <1>5 DEF DrainQueue

LEMMA NothingYet ==
  ASSUME NEW S, NEW q, q = <<>>
  PROVE  q \in Seq(S) /\ Len(q) = 0
<1>1. <<>> \in Seq(S) /\ Len(<<>>) = 0
  BY EmptySeq
<1> QED
  BY <1>1

LEMMA QueueInvInit == ASSUME QueueAssumption, QueueInit PROVE QueueInv
<1>q. queue \in Seq(Message) /\ Len(queue) = 0
  BY NothingYet DEF QueueInit
<1>c. composer \in Seq(Texts)
  BY NothingYet DEF QueueInit
<1>a. admitted \in Seq(Message)
  BY NothingYet DEF QueueInit
<1>e. events \in Seq(Nat) /\ Len(events) = 0
  BY NothingYet DEF QueueInit
<1>l. ledger \in Seq([input : Message, steers : Seq(Message)])
  BY NothingYet DEF QueueInit
<1>f. MaxQueue \in Nat /\ Capacity \in Nat
  BY DEF QueueAssumption
<1>g. Len(queue) <= MaxQueue /\ Len(events) <= Capacity
  BY <1>q, <1>e, <1>f
<1>1. UiTypes
  BY <1>q, <1>c, <1>g DEF UiTypes, QueueInit
<1>2. ViewTypes
  <2>2. pump \in [at : {"off", "wait", "event", "done"}, event : Nat, result : Outcomes \cup {"none"}]
    BY DEF Off, Answer, QueueInit
  <2> QED
    BY <1>a, <2>2 DEF ViewTypes, QueueInit
<1>3. WireTypes
  BY <1>e, <1>g DEF WireTypes, QueueInit
<1>4. TurnTypes
  <2>1. <<>> \in Seq(Texts)
    BY EmptySeq
  <2>2. <<>> \in Seq(Nat)
    BY EmptySeq
  <2>3. <<>> \in Seq(Numbered)
    BY EmptySeq
  <2> QED
    BY <1>l, <2>1, <2>2, <2>3 DEF TurnTypes, NoAsk, NoBox, QueueInit
<1> USE DEF QueueInit
<1>5. PhaseInv
  BY DEF PhaseInv, NoAsk, Off, Settling, Returned
<1>6. BoxInv
  BY DEF BoxInv, NoAsk, NoBox, AtWork
<1>7. StreamInv
  <2>1. Unseen = <<>> /\ Len(Unseen) = 0
    BY DEF Unseen, Off, NoAsk
  <2>2. ~Faithful /\ ask.result # "ok"
    BY DEF Faithful, NoAsk
  <2> QED
    BY <2>1, <2>2 DEF StreamInv
<1>8. CountInv
  <2>1. Wholes(ledger) = <<>>
    BY DEF Wholes
  <2>2. \A t : Occ(<<>>, t) = 0 /\ Held(<<>>, t) = 0
    BY OccEmpty, HeldEmpty
  <2> QED
    BY <2>1, <2>2 DEF CountInv, InTurn, NoAsk
<1>9. NothingWaitsInVain
  BY DEF NothingWaitsInVain
<1> QED
  BY <1>1, <1>2, <1>3, <1>4, <1>5, <1>6, <1>7, <1>8, <1>9 DEF QueueInv

-----------------------------------------------------------------------------
(* One step: the types and the phases.                                     *)

\* What the user does to the interface alone, and what ends or starts a turn.
Fresh == (mode' # "busy" /\ Clear) \/ \E input \in Message : StartTurn(input)

LEMMA UnpausedType == \A q : Unpaused(q) \in BOOLEAN
  BY DEF Unpaused

LEMMA UiTypesStep ==
  ASSUME QueueAssumption, QueueInv, QueueNext
  PROVE  UiTypes'
<1> USE DEF QueueInv
<1>0. queue \in Seq(Message) /\ Len(queue) <= MaxQueue /\ Len(queue) \in Nat /\ MaxQueue \in Nat
  BY DEF UiTypes, QueueAssumption
<1>1. ASSUME UNCHANGED ui PROVE UiTypes'
  BY <1>1 DEF UiTypes, ui
<1>2. ASSUME NEW t \in Texts, Type(t) PROVE UiTypes'
  BY <1>2 DEF UiTypes, Type
<1>3. ASSUME NEW t \in Texts, NEW i \in DOMAIN queue, EditQueued(i, t) PROVE UiTypes'
  <2>1. <<t>> \in Message
    BY DEF Message
  <2>2. [queue EXCEPT ![i] = <<t>>] \in Seq(Message) /\ Len([queue EXCEPT ![i] = <<t>>]) = Len(queue)
    BY <1>0, <2>1
  <2> QED
    BY <1>3, <2>2 DEF UiTypes, EditQueued
<1>4. ASSUME NEW i \in DOMAIN queue
      PROVE  /\ RemoveAt(queue, i) \in Seq(Message) /\ Len(RemoveAt(queue, i)) = Len(queue) - 1
             /\ <<queue[i]>> \o RemoveAt(queue, i) \in Seq(Message)
             /\ Len(<<queue[i]>> \o RemoveAt(queue, i)) = Len(queue)
  <2>1. i \in 1 .. Len(queue)
    BY <1>0
  <2> QED
    BY <1>0, <2>1, RemoveAndPromote
<1>5. ASSUME NEW i \in DOMAIN queue, DropQueued(i) PROVE UiTypes'
  BY <1>0, <1>4, <1>5, UnpausedType DEF UiTypes, DropQueued
<1>6. ASSUME NEW q \in Seq(Message), Len(q) <= MaxQueue, Restart(q), composer' \in Seq(Texts), UNCHANGED typed
      PROVE  UiTypes'
  <2>1. mode' \in {"idle", "busy"}
    BY <1>6 DEF Restart, Idle, StartTurn
  <2>2. Len(queue') <= MaxQueue
    <3>1. Len(queue') \in Nat /\ Len(q) \in Nat
      BY <1>6 DEF Restart
    <3> QED
      BY <1>0, <1>6, <3>1 DEF Restart
  <2> QED
    BY <1>6, <2>1, <2>2 DEF UiTypes, Restart
<1>7. ASSUME NEW i \in DOMAIN queue, SendNow(i) PROVE UiTypes'
  <2>1. PICK q \in Seq(Message) : q = <<queue[i]>> \o RemoveAt(queue, i) /\ Len(q) = Len(queue)
    BY <1>4
  <2>2. CASE DrainQueue(q, FALSE)
    <3>1. Restart(q)
      BY <2>2, DrainRestarts
    <3> QED
      BY <1>0, <1>6, <1>7, <2>1, <3>1 DEF SendNow, UiTypes
  <2>3. CASE queue' = q /\ paused' = FALSE /\ UNCHANGED mode
    BY <1>0, <1>7, <2>1, <2>3 DEF SendNow, UiTypes
  <2> QED
    BY <1>7, <2>1, <2>2, <2>3 DEF SendNow
<1>8. CASE SubmitIdle
  BY <1>8 DEF SubmitIdle, UiTypes, StartTurn, Idle
<1>9. CASE QueueWhileBusy
  <2>1. composer \in Message
    BY <1>9 DEF QueueWhileBusy, UiTypes, Message
  <2>2. Append(queue, composer) \in Seq(Message) /\ Len(Append(queue, composer)) = Len(queue) + 1
    BY <1>0, <2>1
  <2> QED
    BY <1>0, <1>9, <2>2 DEF QueueWhileBusy, UiTypes, QueueHasRoom
<1>10. CASE Steer
  <2>1. composer' \in Seq(Texts)
    BY <1>10, NothingYet DEF Steer
  <2> QED
    BY <1>10, <2>1 DEF Steer, UiTypes
<1>11. CASE ClearQueue \/ SwitchSession
  <2>1. queue' = <<>> /\ paused' = FALSE /\ UNCHANGED <<mode, composer, typed>>
    BY <1>11 DEF ClearQueue, SwitchSession
  <2>2. queue' \in Seq(Message) /\ Len(queue') = 0
    BY <2>1, NothingYet
  <2>3. Len(queue') <= MaxQueue
    BY <1>0, <2>2
  <2> QED
    BY <2>1, <2>2, <2>3 DEF UiTypes
<1>12. CASE ResumeQueue
  <2>1. Restart(queue)
    BY <1>0, <1>12, DrainRestarts DEF ResumeQueue
  <2> QED
    BY <1>0, <1>6, <1>12, <2>1 DEF ResumeQueue, UiTypes
<1>13. CASE Compact
  BY <1>13 DEF Compact, StartCompaction, UiTypes
<1>14. CASE FinishCompaction
  <2>1. Restart(queue)
    <3>1. DrainQueue(queue, paused) /\ (paused => queue # <<>>) /\ paused \in BOOLEAN
      BY <1>14 DEF FinishCompaction, NothingWaitsInVain, UiTypes
    <3> QED
      BY <1>0, <3>1, DrainRestarts
  <2> QED
    BY <1>0, <1>6, <1>14, <2>1 DEF FinishCompaction, UiTypes
<1>15. CASE FinishTurn
  <2>1. composer' \in Seq(Texts)
    <3>1. Restored \in Seq(Texts)
      <4> DEFINE r == [i \in DOMAIN admitted |-> IF i \in seen THEN <<>> ELSE admitted[i]]
      <4>1. r \in Seq(Seq(Texts))
        <5>1. admitted \in Seq(Seq(Texts))
          BY MessagesAreSequences DEF ViewTypes
        <5>2. PICK e \in Seq(Texts) : e = <<>>
          BY Empty
        <5>3. \A i \in 1 .. Len(admitted) : admitted[i] \in Seq(Texts)
          BY <5>1
        <5>4. r = [i \in 1 .. Len(admitted) |-> IF i \in seen THEN e ELSE admitted[i]]
          BY <5>1, <5>2
        <5> HIDE DEF r
        <5> QED
          BY <5>1, <5>3, <5>4
      <4> QED
        BY <4>1, FlatType DEF Restored
    <3> QED
      BY <1>15, <3>1 DEF FinishTurn, UiTypes
  <2>2. CASE DrainQueue(queue, paused \/ Pauses)
    <3>1. PICK p \in BOOLEAN : p = (paused \/ Pauses)
      BY DEF Pauses, UiTypes
    <3>2. p => queue # <<>>
      BY <3>1 DEF Pauses, NothingWaitsInVain
    <3>3. Restart(queue)
      BY <1>0, <2>2, <3>1, <3>2, DrainRestarts
    <3> QED
      BY <1>0, <1>6, <1>15, <2>1, <3>3 DEF FinishTurn
  <2>3. CASE StartCompaction
    BY <1>15, <2>1, <2>3 DEF FinishTurn, StartCompaction, UiTypes
  <2> QED
    BY <1>15, <2>2, <2>3 DEF FinishTurn
<1>16. CASE SteerTooLate \/ InterruptTurn \/ Continue \/ Respond \/ Deadline \/ Receive \/ Show \/ KeepDone
  <2>1. UNCHANGED ui
    BY <1>16 DEF SteerTooLate, InterruptTurn, Continue, BeginTurn, RefuseTurn, TakeSteers, EmitEvent,
         DiscardSteering, CloseSteering, ReachBoundary, RejectAnswer, Commit, CommitFails, CloseEvents,
         SendDone, Respond, CallTools, ModelAnswers, ModelFails, Deadline, Receive, Show, KeepDone
  <2> QED
    BY <1>1, <2>1
<1> QED
  BY <1>2, <1>3, <1>5, <1>7, <1>8, <1>9, <1>10, <1>11, <1>12, <1>13, <1>14, <1>15, <1>16
     DEF QueueNext, UserActs, Screen

\* The turn and its screen are not touched; the turn's context is done.
Aside == UNCHANGED <<mode, view, wire, turn, ledger>>
Interrupted ==
  /\ mode = "busy" /\ UNCHANGED <<mode, view, wire, ask, box, ledger>>
  /\ ctx' = ctx \/ (ctx = "live" /\ ctx' \in {"cancelled", "deadline"})
Restarted ==
  /\ Fresh /\ UNCHANGED <<box, ledger>>
  /\ mode # "busy" \/ Settling

LEMMA StepKinds ==
  ASSUME QueueAssumption, QueueInv, QueueNext
  PROVE  \/ Aside \/ Interrupted \/ Restarted \/ Steer \/ SteerTooLate
         \/ Continue \/ Respond \/ Receive \/ Show \/ KeepDone
<1> USE DEF QueueInv
<1>0. queue \in Seq(Message) /\ paused \in BOOLEAN
  BY DEF UiTypes
<1>1. ASSUME NEW q \in Seq(Message), NEW p \in BOOLEAN, p => q # <<>>, DrainQueue(q, p)
      PROVE  Fresh /\ UNCHANGED box
  <2>1. Restart(q)
    BY <1>1, DrainRestarts
  <2> QED
    BY <2>1 DEF Restart, Fresh, Idle, Clear, StartTurn
<1>2. ASSUME NEW t \in Texts, Type(t) PROVE Aside
  BY <1>2 DEF Type, Aside
<1>3. ASSUME NEW t \in Texts, NEW i \in DOMAIN queue, EditQueued(i, t) PROVE Aside
  BY <1>3 DEF EditQueued, Aside
<1>4. ASSUME NEW i \in DOMAIN queue, DropQueued(i) PROVE Aside
  BY <1>4 DEF DropQueued, Aside
<1>5. ASSUME NEW i \in DOMAIN queue, SendNow(i) PROVE Interrupted \/ Restarted
  <2>1. PICK q \in Seq(Message) : q = <<queue[i]>> \o RemoveAt(queue, i) /\ Len(q) = Len(queue)
    <3>1. i \in 1 .. Len(queue)
      BY <1>0
    <3> QED
      BY <1>0, <3>1, RemoveAndPromote
  <2>2. CASE mode = "idle" /\ DrainQueue(q, FALSE)
    <3>1. Fresh /\ UNCHANGED box
      BY <1>1, <2>2
    <3> QED
      BY <1>5, <2>2, <3>1 DEF SendNow, Restarted
  <2>3. CASE /\ mode = "busy" /\ UNCHANGED <<mode, view, wire, ask, box>>
             /\ ctx' = IF ctx = "live" THEN "cancelled" ELSE ctx
    BY <1>5, <2>3 DEF SendNow, Interrupted
  <2> QED
    BY <1>5, <2>1, <2>2, <2>3 DEF SendNow
<1>6. CASE SubmitIdle
  <2>1. composer \in Message
    BY <1>6 DEF SubmitIdle, UiTypes, Message
  <2> QED
    BY <1>6, <2>1 DEF SubmitIdle, Restarted, Fresh, Idle, Clear, StartTurn
<1>7. CASE QueueWhileBusy \/ ClearQueue \/ SwitchSession
  BY <1>7 DEF QueueWhileBusy, ClearQueue, SwitchSession, Aside
<1>8. CASE ResumeQueue
  <2>1. Fresh /\ UNCHANGED box
    BY <1>0, <1>1, <1>8 DEF ResumeQueue
  <2> QED
    BY <1>8, <2>1 DEF ResumeQueue, Restarted
<1>9. CASE Compact
  BY <1>9 DEF Compact, StartCompaction, Clear, Restarted, Fresh
<1>10. CASE InterruptTurn \/ Deadline
  BY <1>10 DEF InterruptTurn, Deadline, Interrupted, ui
<1>11. CASE FinishCompaction
  <2>1. Fresh /\ UNCHANGED box
    BY <1>0, <1>1, <1>11 DEF FinishCompaction, NothingWaitsInVain
  <2> QED
    BY <1>11, <2>1 DEF FinishCompaction, Restarted
<1>12. CASE FinishTurn
  <2>1. CASE DrainQueue(queue, paused \/ Pauses)
    <3>1. PICK p \in BOOLEAN : p = (paused \/ Pauses)
      BY DEF Pauses, UiTypes
    <3>2. p => queue # <<>>
      BY <3>1 DEF Pauses, NothingWaitsInVain
    <3>3. Fresh /\ UNCHANGED box
      BY <1>0, <1>1, <2>1, <3>1, <3>2
    <3> QED
      BY <1>12, <3>3 DEF FinishTurn, Restarted
  <2>2. CASE StartCompaction
    BY <1>12, <2>2 DEF FinishTurn, StartCompaction, Clear, Restarted, Fresh
  <2> QED
    BY <1>12, <2>1, <2>2 DEF FinishTurn
<1> QED
  BY <1>2, <1>3, <1>4, <1>5, <1>6, <1>7, <1>8, <1>9, <1>10, <1>11, <1>12
     DEF QueueNext, UserActs, Screen

-----------------------------------------------------------------------------
(* One step: the mailbox, the stream and the counts.                       *)

\* What is on its way to the screen.
OnScreen == IF pump.at = "event" THEN <<pump.event>> ELSE <<>>

LEMMA OnScreenType ==
  ASSUME QueueInv
  PROVE  /\ OnScreen \in Seq(Nat) /\ Len(OnScreen) = IF pump.at = "event" THEN 1 ELSE 0
         /\ events \in Seq(Nat) /\ ask.outbox \in Seq(Nat)
         /\ OnScreen \o events \in Seq(Nat)
         /\ Unseen = OnScreen \o events \o ask.outbox
         /\ Unseen \in Seq(Nat)
         /\ Len(Unseen) = Len(OnScreen) + Len(events) + Len(ask.outbox)
<1> USE DEF QueueInv
<1>1. events \in Seq(Nat) /\ ask.outbox \in Seq(Nat)
  BY DEF WireTypes, TurnTypes
<1>2. OnScreen \in Seq(Nat) /\ Len(OnScreen) = IF pump.at = "event" THEN 1 ELSE 0
  <2>1. CASE pump.at = "event"
    <3>1. pump.event \in Nat
      BY DEF ViewTypes
    <3>2. OnScreen = <<pump.event>>
      BY <2>1 DEF OnScreen
    <3> QED
      BY <2>1, <3>1, <3>2
  <2>2. CASE pump.at # "event"
    <3>1. OnScreen = <<>>
      BY <2>2 DEF OnScreen
    <3>2. OnScreen \in Seq(Nat) /\ Len(OnScreen) = 0
      BY <3>1, NothingYet
    <3> QED
      BY <2>2, <3>2
  <2> QED
    BY <2>1, <2>2
<1>3. PICK a \in Seq(Nat) : a = OnScreen
  BY <1>2
<1>4. PICK b \in Seq(Nat) : b = events
  BY <1>1
<1>5. PICK c \in Seq(Nat) : c = ask.outbox
  BY <1>1
<1>6. PICK d \in Seq(Nat) : d = a \o b /\ Len(d) = Len(a) + Len(b)
  BY ConcatProperties
<1>7. d \o c \in Seq(Nat) /\ Len(d \o c) = Len(d) + Len(c)
  BY ConcatProperties
<1>8. Unseen = OnScreen \o events \o ask.outbox
  BY DEF Unseen, OnScreen
<1> QED
  BY <1>1, <1>2, <1>3, <1>4, <1>5, <1>6, <1>7, <1>8

LEMMA ViewTypesStep ==
  ASSUME QueueAssumption, QueueInv, QueueNext
  PROVE  ViewTypes'
<1> USE DEF QueueInv
<1>1. ASSUME UNCHANGED view PROVE ViewTypes'
  BY <1>1 DEF ViewTypes, view
<1>2. CASE Aside \/ Interrupted \/ SteerTooLate \/ Continue \/ Respond
  <2>1. UNCHANGED view
    BY <1>2 DEF Aside, Interrupted, SteerTooLate, Continue, BeginTurn, RefuseTurn, TakeSteers, EmitEvent,
         DiscardSteering, CloseSteering, ReachBoundary, RejectAnswer, Commit, CommitFails, CloseEvents,
         SendDone, Respond, CallTools, ModelAnswers, ModelFails
  <2> QED
    BY <1>1, <2>1
<1>3. CASE Restarted
  <2>1. admitted' = <<>> /\ seen' = {} /\ shown' = FALSE /\ pending' = "none" /\ pump' \in {Off, Waiting}
    BY <1>3 DEF Restarted, Fresh, Clear, StartTurn
  <2>2. admitted' \in Seq(Message)
    BY <2>1, NothingYet
  <2>3. Off \in [at : {"off", "wait", "event", "done"}, event : Nat, result : Outcomes \cup {"none"}]
    BY DEF Off, Answer
  <2>4. Waiting \in [at : {"off", "wait", "event", "done"}, event : Nat, result : Outcomes \cup {"none"}]
    BY DEF Off, Answer, Waiting
  <2> QED
    BY <2>1, <2>2, <2>3, <2>4 DEF ViewTypes
<1>4. CASE Steer
  <2>1. composer \in Message
    BY <1>4 DEF Steer, UiTypes, Message
  <2>2. admitted \in Seq(Message) /\ seen \subseteq DOMAIN admitted
    BY DEF ViewTypes
  <2>3. Append(admitted, composer) \in Seq(Message) /\ DOMAIN admitted \subseteq DOMAIN Append(admitted, composer)
    BY <2>1, <2>2
  <2> QED
    BY <1>4, <2>2, <2>3 DEF Steer, ViewTypes
<1>5. CASE Receive
  <2>1. UNCHANGED <<admitted, seen, shown, pending>>
    BY <1>5 DEF Receive
  <2>2. pump' \in [at : {"off", "wait", "event", "done"}, event : Nat, result : Outcomes \cup {"none"}]
    <3>1. CASE ReceiveEvent
      <4>1. Head(events) \in Nat
        BY <3>1 DEF ReceiveEvent, WireTypes
      <4> QED
        BY <3>1, <4>1 DEF ReceiveEvent, Off
    <3>2. CASE ReceiveDone
      BY <3>2 DEF ReceiveDone, Off, Answer, WireTypes
    <3>3. CASE RepeatDone
      BY <3>3 DEF RepeatDone, Off, Answer, ViewTypes
    <3> QED
      BY <1>5, <3>1, <3>2, <3>3 DEF Receive
  <2> QED
    BY <2>1, <2>2 DEF ViewTypes
<1>6. CASE Show
  <2>1. Waiting \in [at : {"off", "wait", "event", "done"}, event : Nat, result : Outcomes \cup {"none"}]
    BY DEF Off, Answer, Waiting
  <2>2. seen' \subseteq DOMAIN admitted
    <3>1. PICK a \in Seq(Nat) : a = OnScreen
      BY OnScreenType
    <3>2. PICK b \in Seq(Nat) : b = events \o ask.outbox
      BY OnScreenType, ConcatProperties
    <3>3. Len(a) = 1 /\ a[1] = pump.event /\ pump.event \in Nat
      BY <1>6, <3>1 DEF Show, OnScreen, ViewTypes
    <3>4. Unseen = a \o b
      <4>1. PICK c \in Seq(Nat) : c = events
        BY OnScreenType
      <4>2. PICK d \in Seq(Nat) : d = ask.outbox
        BY OnScreenType
      <4>3. (a \o c) \o d = a \o (c \o d)
        BY ConcatAssociative
      <4> QED
        BY <3>1, <3>2, <4>1, <4>2, <4>3, OnScreenType
    <3>5. Len(Unseen) >= 1 /\ Unseen[1] = pump.event
      <4>1. Len(a \o b) = Len(a) + Len(b) /\ \A i \in 1 .. Len(a) + Len(b) : (a \o b)[i] = IF i <= Len(a) THEN a[i] ELSE b[i - Len(a)]
        BY ConcatProperties
      <4>2. Len(b) \in Nat
        BY <3>2
      <4> QED
        BY <3>3, <3>4, <4>1, <4>2
    <3>6. pump.event <= Len(admitted)
      <4>1. 1 \in 1 .. Len(Unseen)
        BY <3>5, OnScreenType
      <4> QED
        BY <3>5, <4>1 DEF StreamInv
    <3>7. pump.event # Answer => pump.event \in 1 .. Len(admitted)
      BY <3>3, <3>6 DEF Answer, ViewTypes
    <3>8. DOMAIN admitted = 1 .. Len(admitted) /\ seen \subseteq DOMAIN admitted
      BY DEF ViewTypes
    <3> QED
      BY <1>6, <3>7, <3>8 DEF Show
  <2>3. UNCHANGED <<admitted, pending>> /\ shown' \in BOOLEAN /\ pump' = Waiting
    BY <1>6 DEF Show, ViewTypes
  <2> QED
    BY <2>1, <2>2, <2>3 DEF ViewTypes
<1>7. CASE KeepDone
  <2>1. Waiting \in [at : {"off", "wait", "event", "done"}, event : Nat, result : Outcomes \cup {"none"}]
    BY DEF Off, Answer, Waiting
  <2> QED
    BY <1>7, <2>1 DEF KeepDone, ViewTypes
<1> QED
  BY <1>2, <1>3, <1>4, <1>5, <1>6, <1>7, StepKinds

LEMMA WireTypesStep ==
  ASSUME QueueAssumption, QueueInv, QueueNext
  PROVE  WireTypes'
<1> USE DEF QueueInv
<1>0. events \in Seq(Nat) /\ Len(events) <= Capacity /\ Capacity \in Nat
  BY DEF WireTypes, QueueAssumption
<1>1. ASSUME UNCHANGED wire PROVE WireTypes'
  BY <1>1 DEF WireTypes, wire
<1>2. CASE Aside \/ Interrupted \/ Steer \/ SteerTooLate \/ Respond \/ Show \/ KeepDone
  <2>1. UNCHANGED wire
    BY <1>2 DEF Aside, Interrupted, Steer, SteerTooLate, Respond, CallTools, ModelAnswers, ModelFails, Show, KeepDone
  <2> QED
    BY <1>1, <2>1
<1>3. CASE Restarted
  <2>1. events' = <<>> /\ closed' = FALSE /\ done' = "none"
    BY <1>3 DEF Restarted, Fresh, Clear, StartTurn
  <2>2. events' \in Seq(Nat) /\ Len(events') = 0
    BY <2>1, NothingYet
  <2>3. Len(events') <= Capacity
    BY <1>0, <2>2
  <2> QED
    BY <2>1, <2>2, <2>3 DEF WireTypes
<1>4. CASE Continue
  <2>1. CASE EmitEvent
    <3>1. CASE UNCHANGED events
      BY <2>1, <3>1 DEF EmitEvent, WireTypes
    <3>2. CASE SendEvent
      <4>1. Head(ask.outbox) \in Nat
        BY <2>1 DEF EmitEvent, TurnTypes
      <4>2. events' \in Seq(Nat) /\ Len(events') = Len(events) + 1 /\ Len(events) < Capacity
        BY <1>0, <3>2, <4>1 DEF SendEvent
      <4>3. Len(events') <= Capacity
        BY <1>0, <4>2
      <4> QED
        BY <2>1, <4>2, <4>3 DEF EmitEvent, WireTypes
    <3> QED
      BY <2>1, <3>1, <3>2 DEF EmitEvent
  <2>2. CASE CloseEvents
    BY <2>2 DEF CloseEvents, WireTypes
  <2>3. CASE SendDone
    BY <2>3 DEF SendDone, WireTypes, TurnTypes
  <2>4. CASE ~(EmitEvent \/ CloseEvents \/ SendDone)
    <3>1. UNCHANGED wire
      BY <1>4, <2>4 DEF Continue, BeginTurn, RefuseTurn, TakeSteers,
           DiscardSteering, CloseSteering, ReachBoundary, RejectAnswer, Commit, CommitFails
    <3> QED
      BY <1>1, <3>1
  <2> QED
    BY <2>1, <2>2, <2>3, <2>4
<1>5. CASE Receive
  <2>1. events' \in Seq(Nat) /\ Len(events') <= Capacity
    <3>1. CASE ReceiveEvent
      <4>1. events # <<>> /\ events' = Tail(events)
        BY <3>1 DEF ReceiveEvent
      <4>2. events' \in Seq(Nat) /\ Len(events') = Len(events) - 1
        BY <1>0, <4>1
      <4> QED
        BY <1>0, <4>2
    <3>2. CASE ReceiveDone \/ RepeatDone
      BY <1>0, <3>2 DEF ReceiveDone, RepeatDone
    <3> QED
      BY <1>5, <3>1, <3>2 DEF Receive
  <2> QED
    BY <1>5, <2>1 DEF Receive, ReceiveEvent, ReceiveDone, RepeatDone, WireTypes
<1> QED
  BY <1>2, <1>3, <1>4, <1>5, StepKinds

Pcs == {"none", "starting"} \cup AtWork \cup Returned
AskTypes == [pc : Pcs, input : Seq(Texts), outbox : Seq(Nat), result : Outcomes \cup {"none"}, committed : BOOLEAN]
BoxTypes == [open : BOOLEAN, pending : Seq(Numbered), consumed : Seq(Numbered)]
Entries == [input : Message, steers : Seq(Message)]

\* The contents of what the mailbox has.
LEMMA SteersType ==
  ASSUME NEW c \in Seq(Numbered)
  PROVE  /\ Steers(c) \in Seq(Message) /\ Len(Steers(c)) = Len(c)
         /\ \A i \in 1 .. Len(c) : Steers(c)[i] = c[i].content
<1>0. \A i \in 1 .. Len(c) : c[i] \in Numbered
  OBVIOUS
<1>1. \A i \in 1 .. Len(c) : c[i].content \in Message
  BY <1>0 DEF Numbered
<1>2. Steers(c) = [i \in 1 .. Len(c) |-> c[i].content]
  BY DEF Steers
<1> QED
  BY <1>1, <1>2

LEMMA NoBoxType == NoBox \in BoxTypes
<1>1. <<>> \in Seq(Numbered)
  BY EmptySeq
<1> QED
  BY <1>1 DEF NoBox, BoxTypes

LEMMA DeliveredType ==
  ASSUME QueueInv, mode = "busy"
  PROVE  Delivered \in Seq(Entries)
<1>1. ask.input \in Message
  BY DEF QueueInv, PhaseInv, TurnTypes, Message
<1>2. Steers(box.consumed) \in Seq(Message)
  BY SteersType DEF QueueInv, TurnTypes
<1>3. [input |-> ask.input, steers |-> Steers(box.consumed)] \in Entries
  BY <1>1, <1>2 DEF Entries
<1>4. ledger \in Seq(Entries)
  BY DEF QueueInv, TurnTypes, Entries
<1> QED
  BY <1>3, <1>4 DEF Delivered

LEMMA TurnTypesStep ==
  ASSUME QueueAssumption, QueueInv, QueueNext
  PROVE  TurnTypes'
<1> USE DEF QueueInv
<1>0. /\ ask \in AskTypes /\ ctx \in {"none", "live", "cancelled", "deadline"}
      /\ box \in BoxTypes /\ ledger \in Seq(Entries)
  BY DEF TurnTypes, AskTypes, Pcs, BoxTypes, Entries
<1>1. ASSUME ask' \in AskTypes, ctx' \in {"none", "live", "cancelled", "deadline"},
             box' \in BoxTypes, ledger' \in Seq(Entries)
      PROVE  TurnTypes'
  BY <1>1 DEF TurnTypes, AskTypes, Pcs, BoxTypes, Entries
<1>2. CASE Aside \/ Interrupted \/ Receive \/ Show \/ KeepDone
  <2>1. UNCHANGED <<ask, box, ledger>> /\ (ctx' = ctx \/ ctx' \in {"cancelled", "deadline"})
    BY <1>2 DEF Aside, Interrupted, Receive, Show, KeepDone, turn
  <2> QED
    BY <1>0, <1>1, <2>1
<1>3. CASE Restarted
  <2>1. NoAsk \in AskTypes
    <3>1. <<>> \in Seq(Texts)
      BY EmptySeq
    <3>2. <<>> \in Seq(Nat)
      BY EmptySeq
    <3> QED
      BY <3>1, <3>2 DEF NoAsk, AskTypes, Pcs
  <2>2. UNCHANGED <<box, ledger>>
    BY <1>3 DEF Restarted
  <2>3. CASE Clear
    BY <1>0, <1>1, <2>1, <2>2, <2>3 DEF Clear
  <2>4. CASE \E input \in Message : StartTurn(input)
    <3>1. PICK input \in Message : StartTurn(input)
      BY <2>4
    <3>2. ask' = [NoAsk EXCEPT !.pc = "starting", !.input = input] /\ ctx' = "live"
      BY <3>1 DEF StartTurn
    <3>3. ask' \in AskTypes
      <4>1. input \in Seq(Texts)
        BY DEF Message
      <4> QED
        BY <2>1, <3>2, <4>1 DEF AskTypes, Pcs
    <3> QED
      BY <1>0, <1>1, <2>2, <3>2, <3>3
  <2> QED
    BY <1>3, <2>3, <2>4 DEF Restarted, Fresh
<1>4. CASE Steer
  <2>1. UNCHANGED <<ask, ctx, ledger>> /\ composer \in Message
    BY <1>4 DEF Steer, UiTypes, Message
  <2>2. Len(admitted) + 1 \in Nat
    BY DEF ViewTypes
  <2>3. box' \in BoxTypes
    <3>1. [sequence |-> Len(admitted) + 1, content |-> composer] \in Numbered
      BY <2>1, <2>2 DEF Numbered
    <3>2. PICK x \in Numbered : x = [sequence |-> Len(admitted) + 1, content |-> composer]
      BY <3>1
    <3>3. PICK p \in Seq(Numbered) : p = box.pending
      BY <1>0 DEF BoxTypes
    <3>4. box' = [box EXCEPT !.pending = Append(p, x)] /\ Append(p, x) \in Seq(Numbered)
      BY <1>4, <3>2, <3>3 DEF Steer
    <3> QED
      BY <1>0, <3>4 DEF BoxTypes
  <2> QED
    BY <1>0, <1>1, <2>1, <2>3
<1>5. CASE SteerTooLate
  <2>1. UNCHANGED <<ask, ctx, ledger>> /\ box' = [box EXCEPT !.open = FALSE, !.pending = <<>>]
    BY <1>5 DEF SteerTooLate
  <2>2. <<>> \in Seq(Numbered)
    BY EmptySeq
  <2>3. box' \in BoxTypes
    BY <1>0, <2>1, <2>2 DEF BoxTypes
  <2> QED
    BY <1>0, <1>1, <2>1, <2>3
<1>6. CASE Respond
  <2>1. UNCHANGED <<ctx, box, ledger>>
    BY <1>6 DEF Respond, CallTools, ModelAnswers, ModelFails
  <2>2. ask' \in AskTypes
    <3>1. CASE CallTools \/ ModelFails
      BY <1>0, <3>1 DEF CallTools, ModelFails, AskGoes, AskTypes, Pcs, AtWork
    <3>2. CASE ModelAnswers
      <4>1. <<Answer>> \in Seq(Nat)
        BY DEF Answer
      <4> QED
        BY <1>0, <3>2, <4>1 DEF ModelAnswers, AskTypes, Pcs, AtWork
    <3> QED
      BY <1>6, <3>1, <3>2 DEF Respond
  <2> QED
    BY <1>0, <1>1, <2>1, <2>2
<1>7. CASE Continue
  <2>0. ASSUME NEW r \in Outcomes PROVE [ask EXCEPT !.pc = "returned", !.result = r] \in AskTypes
    BY <1>0 DEF AskTypes, Pcs, Returned
  <2>1. mode = "busy" => Failures \subseteq Outcomes
    BY <1>0 DEF Failures, Outcomes, Errors, PhaseInv
  <2>2. ctx' = ctx
    BY <1>7 DEF Continue, BeginTurn, RefuseTurn, TakeSteers, EmitEvent, DiscardSteering, CloseSteering,
         ReachBoundary, RejectAnswer, Commit, CommitFails, CloseEvents, SendDone
  <2>3. CASE BeginTurn
    <3>1. box' \in BoxTypes
      BY <2>3, NoBoxType DEF BeginTurn, BoxTypes
    <3>2. ask' \in AskTypes /\ ledger' = ledger
      BY <1>0, <2>3 DEF BeginTurn, AskGoes, AskTypes, Pcs, AtWork
    <3> QED
      BY <1>0, <1>1, <2>2, <3>1, <3>2
  <2>4. CASE RefuseTurn \/ DiscardSteering \/ RejectAnswer
    <3>1. PICK r \in Failures : Returns(r)
      BY <2>4 DEF RefuseTurn, DiscardSteering, RejectAnswer
    <3>2. mode = "busy" /\ UNCHANGED ledger /\ box' \in {box, NoBox}
      BY <2>4 DEF RefuseTurn, DiscardSteering, RejectAnswer, AskAt
    <3>3. r \in Outcomes
      BY <2>1, <3>2
    <3>4. ask' \in AskTypes
      BY <2>0, <3>1, <3>3 DEF Returns
    <3> QED
      BY <1>0, <1>1, <2>2, <3>2, <3>4, NoBoxType
  <2>5. CASE TakeSteers
    <3>1. PICK p \in Seq(Numbered) : p = box.pending
      BY <1>0 DEF BoxTypes
    <3>2. PICK c \in Seq(Numbered) : c = box.consumed
      BY <1>0 DEF BoxTypes
    <3>3. c \o p \in Seq(Numbered)
      BY ConcatProperties
    <3>4. <<>> \in Seq(Numbered)
      BY EmptySeq
    <3>5. box' = [box EXCEPT !.pending = <<>>, !.consumed = c \o p]
      BY <2>5, <3>1, <3>2 DEF TakeSteers
    <3>6. box' \in BoxTypes
      BY <1>0, <3>3, <3>4, <3>5 DEF BoxTypes
    <3>7. PICK o : o = [i \in DOMAIN box.pending |-> box.pending[i].sequence]
      OBVIOUS
    <3>8. o \in Seq(Nat)
      <4>0. \A i \in 1 .. Len(p) : p[i] \in Numbered
        OBVIOUS
      <4>1. \A i \in 1 .. Len(p) : p[i].sequence \in Nat
        BY <4>0 DEF Numbered
      <4>2. o = [i \in 1 .. Len(p) |-> p[i].sequence]
        BY <3>1, <3>7
      <4> QED
        BY <4>1, <4>2
    <3>9. ask' = [ask EXCEPT !.pc = "calling", !.outbox = o] /\ ledger' = ledger
      BY <2>5, <3>7 DEF TakeSteers
    <3>10. ask' \in AskTypes
      BY <1>0, <3>8, <3>9 DEF AskTypes, Pcs, AtWork
    <3> QED
      BY <1>0, <1>1, <2>2, <3>6, <3>9, <3>10
  <2>6. CASE EmitEvent
    <3>1. ask.outbox \in Seq(Nat) /\ ask.outbox # <<>>
      BY <1>0, <2>6 DEF EmitEvent, AskTypes
    <3>2. PICK o \in Seq(Nat) : o = Tail(ask.outbox)
      BY <3>1, HeadTailProperties
    <3>3. ask' = [ask EXCEPT !.outbox = o] /\ UNCHANGED <<box, ledger>>
      BY <2>6, <3>2 DEF EmitEvent
    <3>4. ask' \in AskTypes
      BY <1>0, <3>3 DEF AskTypes
    <3> QED
      BY <1>0, <1>1, <2>2, <3>3, <3>4
  <2>7. CASE CloseSteering \/ ReachBoundary
    <3>1. <<>> \in Seq(Numbered)
      BY EmptySeq
    <3>2. box' \in BoxTypes /\ ledger' = ledger
      BY <1>0, <2>7, <3>1 DEF CloseSteering, ReachBoundary, BoxTypes
    <3>3. ask' \in AskTypes
      BY <1>0, <2>7 DEF CloseSteering, ReachBoundary, AskGoes, AskTypes, Pcs, AtWork
    <3> QED
      BY <1>0, <1>1, <2>2, <3>2, <3>3
  <2>8. CASE Commit \/ CommitFails
    <3>1. mode = "busy" /\ box' = NoBox
      BY <2>8 DEF Commit, CommitFails, AskAt
    <3>2. ledger' \in Seq(Entries)
      BY <1>0, <2>8, <3>1, DeliveredType DEF Commit, CommitFails
    <3>3. ask' \in AskTypes
      BY <1>0, <2>8 DEF Commit, CommitFails, AskTypes, Pcs, Returned, Outcomes, Errors
    <3> QED
      BY <1>0, <1>1, <2>2, <3>1, <3>2, <3>3, NoBoxType
  <2>9. CASE CloseEvents \/ SendDone
    <3>1. ask' \in AskTypes /\ UNCHANGED <<box, ledger>>
      BY <1>0, <2>9 DEF CloseEvents, SendDone, AskGoes, AskTypes, Pcs, Returned, Outcomes, Errors
    <3> QED
      BY <1>0, <1>1, <2>2, <3>1
  <2> QED
    BY <1>7, <2>3, <2>4, <2>5, <2>6, <2>7, <2>8, <2>9 DEF Continue
<1> QED
  BY <1>2, <1>3, <1>4, <1>5, <1>6, <1>7, StepKinds

LEMMA PhaseInvStep ==
  ASSUME QueueAssumption, QueueInv, QueueNext
  PROVE  PhaseInv'
<1>0. PhaseInv /\ NothingWaitsInVain /\ ask \in AskTypes /\ box \in BoxTypes /\ BoxInv
      /\ ctx \in {"none", "live", "cancelled", "deadline"}
  BY DEF QueueInv, TurnTypes, AskTypes, Pcs, BoxTypes
<1>v. /\ pump \in [at : {"off", "wait", "event", "done"}, event : Nat, result : Outcomes \cup {"none"}]
      /\ done \in Outcomes \cup {"none"} /\ pending \in Outcomes \cup {"none"}
  BY DEF QueueInv, ViewTypes, WireTypes
<1>k. \/ Aside \/ Interrupted \/ Restarted \/ Steer \/ SteerTooLate
      \/ Continue \/ Respond \/ Receive \/ Show \/ KeepDone
  BY StepKinds
<1>w. Off.at = "off" /\ Waiting.at = "wait" /\ Off.result = "none" /\ Waiting.result = "none"
  BY DEF Off, Waiting
<1>n. NoAsk.pc = "none" /\ NoAsk.outbox = <<>> /\ NoAsk.result = "none" /\ NoAsk.committed = FALSE
  BY DEF NoAsk
<1>1. CASE Aside
  BY <1>0, <1>1 DEF Aside, PhaseInv, Settling, view, wire, turn
<1>2. CASE Interrupted
  BY <1>0, <1>2 DEF Interrupted, PhaseInv, Settling, view, wire
<1>3. CASE Restarted
  <2>1. CASE mode' # "busy" /\ Clear
    <3>1. /\ ask' = NoAsk /\ ctx' = "none" /\ admitted' = <<>> /\ seen' = {} /\ shown' = FALSE /\ pending' = "none"
          /\ pump' = Off /\ events' = <<>> /\ closed' = FALSE /\ done' = "none" /\ mode' # "busy"
      BY <2>1 DEF Clear
    <3> QED
      BY <3>1, <1>w, <1>n DEF PhaseInv, Settling, Returned
  <2>2. CASE \E input \in Message : StartTurn(input)
    <3>1. PICK input \in Message : StartTurn(input)
      BY <2>2
    <3>2. /\ mode' = "busy" /\ ctx' = "live" /\ admitted' = <<>> /\ pending' = "none"
          /\ pump' = Waiting /\ events' = <<>> /\ closed' = FALSE /\ done' = "none"
          /\ ask' = [NoAsk EXCEPT !.pc = "starting", !.input = input]
      BY <3>1 DEF StartTurn
    <3>3. ask'.pc = "starting" /\ ask'.input = input /\ ask'.outbox = <<>> /\ ask'.result = "none" /\ ask'.committed = FALSE
      BY <3>2 DEF NoAsk
    <3>4. input # <<>>
      BY DEF Message
    <3> QED
      BY <3>2, <3>3, <3>4, <1>w DEF PhaseInv, Settling, Returned
  <2> QED
    BY <1>3, <2>1, <2>2 DEF Restarted, Fresh
<1>4. CASE Steer
  <2>1. ask.pc \in AtWork
    BY <1>0, <1>4 DEF Steer, Accepts, BoxInv, NoBox
  <2>2. UNCHANGED <<mode, seen, shown, pending, pump, wire, ask, ctx>> /\ mode = "busy"
    BY <1>4 DEF Steer, Accepts
  <2> QED
    BY <1>0, <2>1, <2>2 DEF PhaseInv, Settling, wire, AtWork
<1>5. CASE SteerTooLate
  BY <1>0, <1>5 DEF SteerTooLate, PhaseInv, Settling, ui, view, wire
\* The turn's goroutine works while the turn is not over.
<1>6. ASSUME mode = "busy", UNCHANGED <<ui, view, wire, ctx>>, ask.pc \notin Returned,
             ask' \in AskTypes, ask'.input = ask.input, ask'.pc \notin {"none", "starting", "reporting", "over"},
             ask'.result # "none" <=> ask'.pc = "returned",
             ask'.committed => ask'.result \in Outcomes \ {"cancelled"},
             ask'.result = "ok" => ask'.committed,
             ask'.outbox # <<>> => ask'.pc \in {"calling", "answered"}
      PROVE  PhaseInv'
  <2>1. ~closed /\ done = "none" /\ pump.at # "done" /\ pending = "none"
    BY <1>0, <1>6 DEF PhaseInv, Returned
  <2>2. mode' = "busy" /\ ~closed' /\ done' = "none" /\ pump'.at # "done" /\ pending' = "none" /\ ctx' # "none"
        /\ pump'.at # "off" /\ ask'.input # <<>>
    BY <1>0, <1>6, <2>1 DEF PhaseInv, ui, view, wire
  <2> QED
    BY <1>6, <2>2 DEF PhaseInv, Settling, Returned
<1>7. CASE Respond
  <2>1. /\ mode = "busy" /\ UNCHANGED <<ui, view, wire, ctx>> /\ ask.outbox = <<>>
        /\ ask.pc \in {"boundary", "calling"}
    BY <1>7 DEF Respond, CallTools, ModelAnswers, ModelFails, AskAt
  <2>2. ask.result = "none" /\ ~ask.committed /\ ask.pc \notin Returned
    BY <1>0, <2>1 DEF PhaseInv, Returned, Outcomes, Errors
  <2>3. ask' \in AskTypes
    BY TurnTypesStep DEF TurnTypes, AskTypes, Pcs
  <2>4. /\ ask'.result = ask.result /\ ask'.committed = ask.committed /\ ask'.input = ask.input
        /\ ask'.pc \in {"boundary", "answered", "failing"}
        /\ ask'.outbox # <<>> => ask'.pc = "answered"
    BY <1>0, <1>7, <2>1 DEF Respond, CallTools, ModelAnswers, ModelFails, AskGoes, AskTypes
  <2> QED
    BY <1>6, <2>1, <2>2, <2>3, <2>4
<1>8. CASE Continue
  <2>0. /\ mode = "busy" /\ UNCHANGED <<ui, view, ctx>> /\ ask' \in AskTypes
    <3>1. ask' \in AskTypes
      BY TurnTypesStep DEF TurnTypes, AskTypes, Pcs
    <3> QED
      BY <1>8, <3>1 DEF Continue, BeginTurn, RefuseTurn, TakeSteers, EmitEvent, DiscardSteering, CloseSteering,
         ReachBoundary, RejectAnswer, Commit, CommitFails, CloseEvents, SendDone, AskAt
  <2>1. CASE BeginTurn \/ TakeSteers \/ CloseSteering \/ ReachBoundary
    <3>1. /\ UNCHANGED wire /\ ask.outbox = <<>> /\ ask.pc \in {"starting", "boundary", "answered", "closed"}
      BY <2>1 DEF BeginTurn, TakeSteers, CloseSteering, ReachBoundary, AskAt
    <3>2. ask.result = "none" /\ ~ask.committed /\ ask.pc \notin Returned
      BY <1>0, <3>1 DEF PhaseInv, Returned, Outcomes, Errors
    <3>3. /\ ask'.result = ask.result /\ ask'.committed = ask.committed /\ ask'.input = ask.input
          /\ ask'.pc \in {"boundary", "calling", "closed", "committing"}
          /\ ask'.outbox # <<>> => ask'.pc = "calling"
      BY <1>0, <2>1, <3>1 DEF BeginTurn, TakeSteers, CloseSteering, ReachBoundary, AskGoes, AskTypes
    <3> QED
      BY <1>6, <2>0, <3>1, <3>2, <3>3
  <2>2. CASE RefuseTurn \/ DiscardSteering \/ RejectAnswer
    <3>1. /\ UNCHANGED wire /\ ask.outbox = <<>> /\ ask.pc \in {"starting", "failing", "closed"}
      BY <2>2 DEF RefuseTurn, DiscardSteering, RejectAnswer, AskAt
    <3>2. ask.result = "none" /\ ~ask.committed /\ ask.pc \notin Returned
      BY <1>0, <3>1 DEF PhaseInv, Returned, Outcomes, Errors
    <3>3. PICK r \in Failures : Returns(r)
      BY <2>2 DEF RefuseTurn, DiscardSteering, RejectAnswer
    <3>4. r \in Errors
      BY <1>0, <2>0 DEF PhaseInv, Failures, Errors
    <3>5. /\ ask'.result = r /\ ask'.committed = ask.committed /\ ask'.input = ask.input
          /\ ask'.pc = "returned" /\ ask'.outbox = ask.outbox
      BY <1>0, <3>3 DEF Returns, AskTypes
    <3>6. r # "none" /\ r # "ok"
      BY <3>4 DEF Errors
    <3> QED
      BY <1>6, <2>0, <3>1, <3>2, <3>5, <3>6
  <2>3. CASE Commit \/ CommitFails
    <3>1. /\ UNCHANGED wire /\ ask.outbox = <<>> /\ ask.pc = "committing"
      BY <2>3 DEF Commit, CommitFails, AskAt
    <3>2. ask.pc \notin Returned
      BY <3>1 DEF Returned
    <3>3. /\ ask'.input = ask.input /\ ask'.pc = "returned" /\ ask'.outbox = ask.outbox
          /\ \/ ask'.result = "ok" /\ ask'.committed
             \/ ask'.result = "error"
      BY <1>0, <2>3 DEF Commit, CommitFails, AskTypes
    <3> QED
      BY <1>6, <2>0, <3>1, <3>2, <3>3 DEF Outcomes, Errors
  <2>4. CASE EmitEvent
    <3>1. /\ ask.outbox # <<>> /\ ask.pc \in {"calling", "answered"} /\ UNCHANGED <<closed, done>>
      BY <1>0, <2>4 DEF EmitEvent, PhaseInv
    <3>2. /\ ask'.input = ask.input /\ ask'.pc = ask.pc /\ ask'.result = ask.result /\ ask'.committed = ask.committed
      BY <1>0, <2>4 DEF EmitEvent, AskTypes
    <3>3. pump.at # "done" /\ pending = "none"
      BY <1>0, <3>1 DEF PhaseInv
    <3> QED
      BY <1>0, <2>0, <3>1, <3>2, <3>3 DEF PhaseInv, Settling, ui, view, Returned
  <2>5. CASE CloseEvents
    <3>1. /\ ask.pc = "returned" /\ ask.outbox = <<>> /\ closed' = TRUE /\ UNCHANGED <<events, done>>
      BY <2>5 DEF CloseEvents, AskAt
    <3>2. /\ ask'.input = ask.input /\ ask'.pc = "reporting" /\ ask'.outbox = ask.outbox
          /\ ask'.committed = ask.committed /\ ask'.result \in {"deadline", ask.result}
          /\ ask.result # "none"
      BY <1>0, <2>5, <3>1 DEF CloseEvents, AskTypes, PhaseInv, Returned
    <3>3. pump.at # "done" /\ pending = "none" /\ done = "none"
      BY <1>0, <3>1 DEF PhaseInv
    <3> QED
      BY <1>0, <2>0, <3>1, <3>2, <3>3 DEF PhaseInv, Settling, ui, view, Returned, Outcomes, Errors
  <2>6. CASE SendDone
    <3>1. /\ ask.pc = "reporting" /\ ask.outbox = <<>> /\ done' = ask.result /\ UNCHANGED <<events, closed>>
      BY <2>6 DEF SendDone, AskAt
    <3>2. /\ ask'.input = ask.input /\ ask'.pc = "over" /\ ask'.outbox = ask.outbox
          /\ ask'.committed = ask.committed /\ ask'.result = ask.result
      BY <1>0, <2>6 DEF SendDone, AskGoes, AskTypes
    <3>3. pump.at # "done" /\ pending = "none"
      BY <1>0, <3>1 DEF PhaseInv
    <3> QED
      BY <1>0, <2>0, <3>1, <3>2, <3>3 DEF PhaseInv, Settling, ui, view, Returned
  <2> QED
    BY <1>8, <2>1, <2>2, <2>3, <2>4, <2>5, <2>6 DEF Continue
<1>9. CASE Receive
  <2>1. pump = Waiting /\ UNCHANGED <<mode, admitted, seen, shown, pending, closed, ask, ctx>>
    BY <1>9 DEF Receive, ui, turn
  <2>2. mode = "busy"
    BY <1>0, <1>w, <2>1 DEF PhaseInv
  <2>3. CASE ReceiveEvent
    <3>1. pump'.at = "event" /\ UNCHANGED done
      BY <2>3 DEF ReceiveEvent, Off
    <3> QED
      BY <1>0, <2>1, <2>2, <3>1 DEF PhaseInv, Settling
  <2>4. CASE ReceiveDone
    <3>1. pump'.at = "done" /\ pump'.result = done /\ done # "none" /\ done' = "none" /\ pending = "none"
      BY <2>4 DEF ReceiveDone, Off
    <3> QED
      BY <1>0, <2>1, <2>2, <3>1 DEF PhaseInv, Settling
  <2>5. CASE RepeatDone
    <3>1. pump'.at = "done" /\ pump'.result = pending /\ pending # "none" /\ events' = <<>> /\ done' = done
      BY <2>5 DEF RepeatDone, Off
    <3> QED
      BY <1>0, <2>1, <2>2, <3>1 DEF PhaseInv, Settling
  <2> QED
    BY <1>9, <2>3, <2>4, <2>5 DEF Receive
<1>10. CASE Show
  <2>1. pump.at = "event" /\ pump' = Waiting /\ UNCHANGED <<mode, admitted, pending, events, closed, done, ask, ctx>>
    BY <1>10 DEF Show, ui, wire, turn
  <2>2. mode = "busy"
    BY <1>0, <1>w, <2>1 DEF PhaseInv
  <2> QED
    BY <1>0, <1>w, <2>1, <2>2 DEF PhaseInv, Settling
<1>11. CASE KeepDone
  <2>1. /\ pump.at = "done" /\ pump' = Waiting /\ pending' = pump.result
        /\ UNCHANGED <<mode, admitted, seen, shown, events, closed, done, ask, ctx>>
    BY <1>11 DEF KeepDone, ui, wire, turn
  <2>2. mode = "busy"
    BY <1>0, <1>w, <2>1 DEF PhaseInv
  <2> QED
    BY <1>0, <1>w, <2>1, <2>2 DEF PhaseInv, Settling
<1> QED
  BY <1>1, <1>2, <1>3, <1>4, <1>5, <1>7, <1>8, <1>9, <1>10, <1>11, <1>k

LEMMA BoxInvStep ==
  ASSUME QueueAssumption, QueueInv, QueueNext
  PROVE  BoxInv'
<1>0. PhaseInv /\ ask \in AskTypes /\ box \in BoxTypes /\ BoxInv
  BY DEF QueueInv, TurnTypes, AskTypes, Pcs, BoxTypes
<1>a. admitted \in Seq(Message) /\ Len(admitted) \in Nat
  BY DEF QueueInv, ViewTypes
<1>b. admitted' \in Seq(Message) /\ Len(admitted') \in Nat
  <2>1. ViewTypes'
    BY ViewTypesStep
  <2> QED
    BY <2>1 DEF ViewTypes
<1>c. PICK c \in Seq(Numbered) : c = box.consumed
  BY <1>0 DEF BoxTypes
<1>p. PICK p \in Seq(Numbered) : p = box.pending
  BY <1>0 DEF BoxTypes
<1>k. \/ Aside \/ Interrupted \/ Restarted \/ Steer \/ SteerTooLate
      \/ Continue \/ Respond \/ Receive \/ Show \/ KeepDone
  BY StepKinds
<1>n. ~NoBox.open /\ Len(NoBox.pending) = 0 /\ Len(NoBox.consumed) = 0
  BY NothingYet DEF NoBox
<1>1. ASSUME box' = NoBox PROVE BoxInv'
  <2>1. ~box'.open /\ Len(box'.pending) = 0 /\ Len(box'.consumed) = 0
    BY <1>1, <1>n
  <2> QED
    BY <1>1, <1>b, <2>1 DEF BoxInv
\* What is not seen of the mailbox by a step that leaves it alone.
<1>2. ASSUME UNCHANGED <<box, admitted>>, ask'.pc \in AtWork \/ ask.pc \notin AtWork,
             ask'.pc \in {"closed", "committing"} => ask.pc \in {"closed", "committing"}
      PROVE  BoxInv'
  BY <1>0, <1>2 DEF BoxInv, Admission
<1>3. CASE Aside \/ Interrupted \/ Receive \/ Show \/ KeepDone
  <2>1. UNCHANGED <<box, admitted, ask>>
    BY <1>3 DEF Aside, Interrupted, Receive, Show, KeepDone, view, turn
  <2> QED
    BY <1>2, <2>1
<1>4. CASE Restarted
  <2>1. ask.pc \notin AtWork
    BY <1>0, <1>4 DEF Restarted, PhaseInv, Settling, NoAsk, AtWork
  <2>2. box' = NoBox
    BY <1>0, <1>4, <2>1 DEF Restarted, BoxInv
  <2> QED
    BY <1>1, <2>2
<1>5. CASE Respond
  <2>1. UNCHANGED <<box, admitted>> /\ ask.pc \in AtWork
    BY <1>5 DEF Respond, CallTools, ModelAnswers, ModelFails, AskAt, AtWork, view
  <2>2. ask'.pc \in {"boundary", "answered", "failing"}
    BY <1>0, <1>5 DEF Respond, CallTools, ModelAnswers, ModelFails, AskGoes, AskTypes
  <2> QED
    BY <1>2, <2>1, <2>2 DEF AtWork
<1>6. ASSUME UNCHANGED <<ask, admitted>> \/ (UNCHANGED admitted /\ ask.pc \in AtWork /\ ask'.pc \in AtWork),
             box' = [box EXCEPT !.open = FALSE, !.pending = <<>>], ask.pc \in AtWork
      PROVE  BoxInv'
  <2>1. ~box'.open /\ box'.consumed = c /\ box'.pending = <<>>
    BY <1>0, <1>6, <1>c DEF BoxTypes
  <2>2. Len(box'.pending) = 0
    BY <2>1, NothingYet
  <2>3. ask'.pc \in AtWork /\ UNCHANGED admitted
    BY <1>6
  <2>4. Len(c) \in Nat /\ Len(p) \in Nat
    OBVIOUS
  <2>5. Len(c) + Len(p) <= Len(admitted) /\ \A i \in 1 .. Len(c) : c[i] = Admission(i)
    BY <1>0, <1>c, <1>p DEF BoxInv
  <2> QED
    BY <1>a, <2>1, <2>2, <2>3, <2>4, <2>5 DEF BoxInv, Admission
<1>7. CASE SteerTooLate
  <2>1. UNCHANGED <<ask, admitted>> /\ box.open /\ box' = [box EXCEPT !.open = FALSE, !.pending = <<>>]
    BY <1>7 DEF SteerTooLate, view
  <2>2. ask.pc \in AtWork
    BY <1>0, <1>n, <2>1 DEF BoxInv
  <2> QED
    BY <1>6, <2>1, <2>2
<1>8. CASE Steer
  <2>1. /\ UNCHANGED ask /\ box.open /\ admitted' = Append(admitted, composer) /\ composer \in Message
    BY <1>8 DEF Steer, Accepts, QueueInv, UiTypes, Message
  <2>2. ask.pc \in AtWork /\ ask.pc \notin {"closed", "committing"}
    BY <1>0, <1>n, <2>1 DEF BoxInv
  <2>3. PICK x \in Numbered : x = [sequence |-> Len(admitted) + 1, content |-> composer]
    <3>1. [sequence |-> Len(admitted) + 1, content |-> composer] \in Numbered
      BY <1>a, <2>1 DEF Numbered
    <3> QED
      BY <3>1
  <2>4. box' = [box EXCEPT !.pending = Append(p, x)]
    BY <1>8, <1>p, <2>3 DEF Steer
  <2>5. box'.open /\ box'.consumed = c /\ box'.pending = Append(p, x)
    BY <1>0, <1>c, <2>1, <2>4 DEF BoxTypes
  <2>6. Len(c) + Len(p) = Len(admitted) /\ Len(c) \in Nat /\ Len(p) \in Nat
    <3>1. Len(c) \in Nat /\ Len(p) \in Nat
      OBVIOUS
    <3>2. Len(p) = Len(admitted) - Len(c)
      BY <1>0, <1>c, <1>p, <2>1 DEF BoxInv
    <3> QED
      BY <1>a, <3>1, <3>2
  <2>7. /\ Len(Append(p, x)) = Len(p) + 1 /\ Append(p, x)[Len(p) + 1] = x
        /\ \A i \in 1 .. Len(p) : Append(p, x)[i] = p[i]
    BY AppendProperties
  <2>8. /\ Len(admitted') = Len(admitted) + 1 /\ admitted'[Len(admitted) + 1] = composer
        /\ \A i \in 1 .. Len(admitted) : admitted'[i] = admitted[i]
    BY <1>a, <2>1, AppendProperties
  <2>9. \A i \in 1 .. Len(c) : c[i] = Admission(i)'
    BY <1>0, <1>c, <2>6, <2>8 DEF BoxInv, Admission
  <2>10. \A i \in 1 .. Len(p) : p[i] = Admission(Len(c) + i)'
    <3> SUFFICES ASSUME NEW i \in 1 .. Len(p) PROVE p[i] = Admission(Len(c) + i)'
      OBVIOUS
    <3>1. p[i] = Admission(Len(c) + i)
      BY <1>0, <1>c, <1>p DEF BoxInv
    <3>2. Len(c) + i \in 1 .. Len(admitted)
      BY <2>6
    <3> QED
      BY <2>8, <3>1, <3>2 DEF Admission
  <2>11. x = Admission(Len(c) + (Len(p) + 1))'
    <3>1. Len(c) + (Len(p) + 1) = Len(admitted) + 1
      BY <2>6
    <3> QED
      BY <2>3, <2>8, <3>1 DEF Admission
  <2>12. \A i \in 1 .. Len(Append(p, x)) : Append(p, x)[i] = Admission(Len(c) + i)'
    <3> SUFFICES ASSUME NEW i \in 1 .. Len(p) + 1 PROVE Append(p, x)[i] = Admission(Len(c) + i)'
      BY <2>7
    <3>1. i \in 1 .. Len(p) \/ i = Len(p) + 1
      BY <2>6
    <3>2. CASE i \in 1 .. Len(p)
      BY <2>7, <2>10, <3>2
    <3>3. CASE i = Len(p) + 1
      BY <2>7, <2>11, <3>3
    <3> QED
      BY <3>1, <3>2, <3>3
  <2>13. Len(Append(p, x)) = Len(admitted') - Len(c) /\ Len(c) + Len(Append(p, x)) <= Len(admitted')
    BY <2>6, <2>7, <2>8, <1>a
  <2>14. ask'.pc \in AtWork /\ ask'.pc \notin {"closed", "committing"}
    BY <2>1, <2>2
  <2> QED
    BY <2>5, <2>9, <2>12, <2>13, <2>14 DEF BoxInv
<1>9. CASE Continue
  <2>0. UNCHANGED admitted
    BY <1>9 DEF Continue, BeginTurn, RefuseTurn, TakeSteers, EmitEvent, DiscardSteering, CloseSteering,
         ReachBoundary, RejectAnswer, Commit, CommitFails, CloseEvents, SendDone, view
  <2>1. CASE BeginTurn
    <3>1. box' = [NoBox EXCEPT !.open = TRUE] /\ ask'.pc = "boundary" /\ ask.pc = "starting"
      BY <1>0, <2>1 DEF BeginTurn, AskGoes, AskAt, AskTypes
    <3>2. box'.open /\ box'.pending = NoBox.pending /\ box'.consumed = NoBox.consumed
      BY <3>1 DEF NoBox
    <3>3. admitted' = <<>>
      BY <1>0, <2>0, <3>1 DEF PhaseInv
    <3>4. Len(admitted') = 0
      BY <3>3, NothingYet
    <3>5. Len(box'.pending) = 0 /\ Len(box'.consumed) = 0
      BY <1>n, <3>2
    <3>6. /\ Len(box'.consumed) + Len(box'.pending) <= Len(admitted')
          /\ Len(box'.pending) = IF box'.open THEN Len(admitted') - Len(box'.consumed) ELSE 0
      BY <3>4, <3>5
    <3>7. 1 .. Len(box'.pending) = {} /\ 1 .. Len(box'.consumed) = {}
      BY <3>5
    <3>8. ask'.pc = "boundary"
      BY <3>1
    <3> QED
      BY <3>6, <3>7, <3>8 DEF BoxInv, AtWork
  <2>2. CASE RefuseTurn
    <3>1. UNCHANGED box /\ ask.pc = "starting"
      BY <2>2 DEF RefuseTurn, AskAt
    <3> QED
      BY <1>0, <1>1, <3>1 DEF BoxInv, AtWork
  <2>3. CASE DiscardSteering \/ RejectAnswer \/ Commit \/ CommitFails
    BY <1>1, <2>3 DEF DiscardSteering, RejectAnswer, Commit, CommitFails
  <2>4. CASE TakeSteers
    <3>1. ask'.pc = "calling" /\ box' = [box EXCEPT !.pending = <<>>, !.consumed = c \o p]
      BY <1>0, <1>c, <1>p, <2>4 DEF TakeSteers, AskTypes
    <3>2. box'.open = box.open /\ box'.pending = <<>> /\ box'.consumed = c \o p
      BY <1>0, <3>1 DEF BoxTypes
    <3>3. /\ Len(c) + Len(p) <= Len(admitted)
          /\ Len(p) = IF box.open THEN Len(admitted) - Len(c) ELSE 0
          /\ \A i \in 1 .. Len(c) : c[i] = Admission(i)
          /\ \A i \in 1 .. Len(p) : p[i] = Admission(Len(c) + i)
      BY <1>0, <1>c, <1>p DEF BoxInv
    <3>4. Len(c) \in Nat /\ Len(p) \in Nat
      OBVIOUS
    <3>5. /\ Len(c \o p) = Len(c) + Len(p)
          /\ \A i \in 1 .. Len(c) + Len(p) : (c \o p)[i] = IF i <= Len(c) THEN c[i] ELSE p[i - Len(c)]
      BY ConcatProperties
    <3>6. \A i \in 1 .. Len(c \o p) : (c \o p)[i] = Admission(i)
      <4> SUFFICES ASSUME NEW i \in 1 .. Len(c) + Len(p) PROVE (c \o p)[i] = Admission(i)
        BY <3>5
      <4>1. CASE i <= Len(c)
        BY <3>3, <3>4, <3>5, <4>1
      <4>2. CASE ~(i <= Len(c))
        <5>1. i - Len(c) \in 1 .. Len(p) /\ Len(c) + (i - Len(c)) = i
          BY <3>4, <4>2
        <5>2. (c \o p)[i] = p[i - Len(c)]
          BY <3>5, <4>2
        <5>3. p[i - Len(c)] = Admission(Len(c) + (i - Len(c)))
          BY <3>3, <5>1
        <5> QED
          BY <5>1, <5>2, <5>3
      <4> QED
        BY <4>1, <4>2
    <3>7. Len(box'.pending) = 0
      BY <3>2, NothingYet
    <3>8. ask'.pc \in AtWork /\ ask'.pc \notin {"closed", "committing"}
      BY <3>1 DEF AtWork
    <3>9. Len(c \o p) + 0 <= Len(admitted) /\ 0 = IF box.open THEN Len(admitted) - Len(c \o p) ELSE 0
      BY <1>a, <3>3, <3>4, <3>5
    <3> QED
      BY <2>0, <3>2, <3>6, <3>7, <3>8, <3>9 DEF BoxInv, Admission
  <2>5. CASE EmitEvent \/ CloseEvents \/ SendDone \/ ReachBoundary
    <3>1. UNCHANGED box
      BY <2>5 DEF EmitEvent, CloseEvents, SendDone, ReachBoundary
    <3>2. /\ ask'.pc \in AtWork \/ ask.pc \notin AtWork
          /\ ask'.pc \in {"closed", "committing"} => ask.pc \in {"closed", "committing"}
      BY <1>0, <2>5 DEF EmitEvent, CloseEvents, SendDone, ReachBoundary, AskGoes, AskAt, AskTypes, AtWork
    <3> QED
      BY <1>2, <2>0, <3>1, <3>2
  <2>6. CASE CloseSteering
    <3>1. /\ box' = [box EXCEPT !.open = FALSE, !.pending = <<>>]
          /\ ask.pc \in AtWork /\ ask'.pc \in AtWork
      BY <1>0, <2>6 DEF CloseSteering, AskGoes, AskAt, AskTypes, AtWork
    <3> QED
      BY <1>6, <2>0, <3>1
  <2> QED
    BY <1>9, <2>1, <2>2, <2>3, <2>4, <2>5, <2>6 DEF Continue
<1> QED
  BY <1>3, <1>4, <1>5, <1>7, <1>8, <1>9, <1>k

\* The answer comes after everything else.
LEMMA AnswerJoins ==
  ASSUME NEW u \in Seq(Nat), NEW k \in Nat, NEW s, NEW f \in BOOLEAN, InOrder(u, k, FALSE, s, f)
  PROVE  InOrder(u \o <<Answer>>, k, TRUE, s, f)
<1> DEFINE v == u \o <<Answer>>
<1>1. Len(v) = Len(u) + 1 /\ v[Len(u) + 1] = Answer /\ (\A i \in 1 .. Len(u) : v[i] = u[i]) /\ Len(u) \in Nat
  <2>1. Answer \in Nat
    BY DEF Answer
  <2>2. v = Append(u, Answer)
    BY <2>1, AppendIsConcat
  <2> QED
    BY <2>1, <2>2, AppendProperties
<1> HIDE DEF v
<1>2. /\ k + 1 - Len(v) = k - Len(u) /\ k - Len(u) >= 0
      /\ s = {i \in 1 .. k : i <= k - Len(u)}
      /\ f <=> k - Len(u) > k
      /\ \A i \in 1 .. Len(u) : u[i] = IF k - Len(u) + i <= k THEN k - Len(u) + i ELSE Answer
  BY <1>1 DEF InOrder
<1>3. \A i \in 1 .. Len(v) : v[i] = IF k - Len(u) + i <= k THEN k - Len(u) + i ELSE Answer
  <2> SUFFICES ASSUME NEW i \in 1 .. Len(u) + 1
               PROVE  v[i] = IF k - Len(u) + i <= k THEN k - Len(u) + i ELSE Answer
    BY <1>1
  <2>1. CASE i \in 1 .. Len(u)
    BY <1>1, <1>2, <2>1
  <2>2. CASE i = Len(u) + 1
    <3>1. ~(k - Len(u) + i <= k)
      BY <1>1, <2>2
    <3> QED
      BY <1>1, <2>2, <3>1
  <2> QED
    BY <1>1, <2>1, <2>2
<1>4. InOrder(v, k, TRUE, s, f)
  BY <1>2, <1>3 DEF InOrder
<1> QED
  BY <1>4 DEF v

\* Steers that are taken continue the numbers.
LEMMA SteersJoin ==
  ASSUME NEW u \in Seq(Nat), NEW k \in Nat, NEW s, NEW f \in BOOLEAN, InOrder(u, k, FALSE, s, f),
         NEW o \in Seq(Nat), \A i \in 1 .. Len(o) : o[i] = k + i
  PROVE  InOrder(u \o o, k + Len(o), FALSE, s, f)
<1> DEFINE v == u \o o
           h == k - Len(u)
           m == k + Len(o)
<1>0. Len(u) \in Nat /\ Len(o) \in Nat /\ m \in Nat
  OBVIOUS
<1>1. /\ Len(v) = Len(u) + Len(o)
      /\ \A i \in 1 .. Len(u) + Len(o) : v[i] = IF i <= Len(u) THEN u[i] ELSE o[i - Len(u)]
  BY ConcatProperties
<1> HIDE DEF v
<1>2. /\ h >= 0 /\ h \in Nat
      /\ s = {i \in 1 .. k : i <= h}
      /\ f <=> h > k
      /\ \A i \in 1 .. Len(u) : u[i] = IF h + i <= k THEN h + i ELSE Answer
  BY <1>0 DEF InOrder
<1>3. m + 0 - Len(v) = h /\ ~(h > k) /\ ~(h > m)
  BY <1>0, <1>1
<1>4. \A i \in 1 .. Len(v) : v[i] = IF h + i <= m THEN h + i ELSE Answer
  <2> SUFFICES ASSUME NEW i \in 1 .. Len(u) + Len(o) PROVE v[i] = h + i /\ h + i <= m
    BY <1>1
  <2>1. CASE i <= Len(u)
    BY <1>0, <1>1, <1>2, <2>1
  <2>2. CASE ~(i <= Len(u))
    <3>1. i - Len(u) \in 1 .. Len(o) /\ k + (i - Len(u)) = h + i
      BY <1>0, <2>2
    <3>2. v[i] = o[i - Len(u)]
      BY <1>1, <2>2
    <3> QED
      BY <1>0, <3>1, <3>2
  <2> QED
    BY <2>1, <2>2
<1>5. {i \in 1 .. k : i <= h} = {i \in 1 .. m : i <= h}
  BY <1>0, <1>2
<1>6. InOrder(v, m, FALSE, s, f)
  <2> HIDE DEF h, m
  <2> QED
    BY <1>2, <1>3, <1>4, <1>5 DEF InOrder
<1> QED
  BY <1>6 DEF v

\* The next of it is shown.
LEMMA OneIsShown ==
  ASSUME NEW u \in Seq(Nat), NEW e \in Nat, NEW k \in Nat, NEW a \in BOOLEAN, NEW s, NEW f \in BOOLEAN,
         InOrder(<<e>> \o u, k, a, s, f)
  PROVE  IF e = Answer THEN InOrder(u, k, a, s, TRUE) ELSE InOrder(u, k, a, s \cup {e}, f)
<1> DEFINE v == <<e>> \o u
           n == k + (IF a THEN 1 ELSE 0)
           h == n - Len(v)
<1>0. Len(u) \in Nat /\ n \in Nat /\ (n = k \/ n = k + 1)
  OBVIOUS
<1>1. Len(v) = Len(u) + 1 /\ v[1] = e /\ \A i \in 1 .. Len(u) : v[i + 1] = u[i]
  <2>0. <<e>> \in Seq(Nat) /\ Len(<<e>>) = 1 /\ <<e>>[1] = e
    OBVIOUS
  <2>1. PICK w \in Seq(Nat) : w = <<e>> /\ Len(w) = 1 /\ w[1] = e
    BY <2>0
  <2>2. /\ Len(w \o u) = Len(w) + Len(u)
        /\ \A i \in 1 .. Len(w) + Len(u) : (w \o u)[i] = IF i <= Len(w) THEN w[i] ELSE u[i - Len(w)]
    BY ConcatProperties
  <2>3. v = w \o u
    BY <2>1
  <2>4. Len(v) = Len(u) + 1 /\ v[1] = e
    BY <1>0, <2>1, <2>2, <2>3
  <2>5. ASSUME NEW i \in 1 .. Len(u) PROVE v[i + 1] = u[i]
    <3>1. i + 1 \in 1 .. Len(w) + Len(u) /\ ~(i + 1 <= Len(w)) /\ (i + 1) - Len(w) = i
      BY <1>0, <2>1
    <3> QED
      BY <2>2, <2>3, <3>1
  <2> QED
    BY <2>4, <2>5
<1>2. /\ h >= 0
      /\ s = {i \in 1 .. k : i <= h}
      /\ f <=> h > k
      /\ \A i \in 1 .. Len(v) : v[i] = IF h + i <= k THEN h + i ELSE Answer
  BY DEF InOrder
<1> HIDE DEF v
<1>3. h \in Nat /\ n - Len(u) = h + 1 /\ h + 1 \in Nat
  BY <1>0, <1>1, <1>2
<1>4. e = IF h + 1 <= k THEN h + 1 ELSE Answer
  <2>1. 1 \in 1 .. Len(v)
    BY <1>0, <1>1
  <2> QED
    BY <1>1, <1>2, <2>1
<1>8. h <= k
  BY <1>0, <1>1
<1>9. n = k + (IF a THEN 1 ELSE 0)
  OBVIOUS
<1> HIDE DEF h, n
<1>5. ASSUME NEW i \in 1 .. Len(u) PROVE u[i] = IF (h + 1) + i <= k THEN (h + 1) + i ELSE Answer
  <2>1. i + 1 \in 1 .. Len(v) /\ h + (i + 1) = (h + 1) + i
    BY <1>0, <1>1, <1>3
  <2> QED
    BY <1>1, <1>2, <2>1
<1>6. CASE h + 1 <= k
  <2>1. e = h + 1 /\ e # Answer
    BY <1>3, <1>4, <1>6 DEF Answer
  <2>2. s \cup {e} = {i \in 1 .. k : i <= h + 1}
    BY <1>2, <1>3, <1>6, <2>1
  <2>3. f <=> h + 1 > k
    BY <1>2, <1>3, <1>6
  <2>4. InOrder(u, k, a, s \cup {e}, f)
    <3>1. k + (IF a THEN 1 ELSE 0) - Len(u) = h + 1
      BY <1>3, <1>9
    <3>2. PICK j \in Nat : j = h + 1
      BY <1>3
    <3>3. \A i \in 1 .. Len(u) : u[i] = IF j + i <= k THEN j + i ELSE Answer
      BY <1>5, <3>2
    <3>4. s \cup {e} = {i \in 1 .. k : i <= j} /\ (f <=> j > k) /\ j >= 0
      BY <2>2, <2>3, <3>2
    <3>5. k + (IF a THEN 1 ELSE 0) - Len(u) = j
      BY <3>1, <3>2
    <3> QED
      BY <3>3, <3>4, <3>5 DEF InOrder
  <2> QED
    BY <2>1, <2>4
<1>7. CASE ~(h + 1 <= k)
  <2>1. e = Answer /\ h + 1 > k /\ h <= k
    BY <1>3, <1>4, <1>7, <1>8
  <2>2. s = {i \in 1 .. k : i <= h + 1}
    BY <1>2, <1>3, <2>1
  <2>3. InOrder(u, k, a, s, TRUE)
    BY <1>3, <1>5, <1>9, <2>1, <2>2 DEF InOrder
  <2> QED
    BY <2>1, <2>3
<1> QED
  BY <1>6, <1>7

LEMMA HeadAndTail ==
  ASSUME NEW M, NEW q \in Seq(M), q # <<>>
  PROVE  /\ q = <<Head(q)>> \o Tail(q)
         /\ Head(q) \in M /\ Tail(q) \in Seq(M) /\ <<Head(q)>> \in Seq(M)
<1>1. 1 \in 1 .. Len(q) /\ Len(q) \in 1 .. Len(q) /\ Head(q) = q[1]
  OBVIOUS
<1>2. SubSeq(q, 1, Len(q)) = <<q[1]>> \o SubSeq(q, 1 + 1, Len(q))
  BY <1>1, SubSeqRecursiveFirst
<1>3. SubSeq(q, 1, Len(q)) = q
  BY SubSeqFull
<1>4. Tail(q) = SubSeq(q, 2, Len(q))
  BY TailIsSubSeq
<1>5. Head(q) \in M /\ Tail(q) \in Seq(M)
  BY HeadTailProperties
<1>6. <<Head(q)>> \in Seq(M)
  BY <1>5
<1> QED
  BY <1>1, <1>2, <1>3, <1>4, <1>5, <1>6

\* No number in it is beyond n.
Bounded(u, n) == \A i \in 1 .. Len(u) : u[i] <= n

LEMMA BoundedConcat ==
  ASSUME NEW u \in Seq(Nat), NEW v \in Seq(Nat), NEW n \in Nat
  PROVE  Bounded(u \o v, n) <=> Bounded(u, n) /\ Bounded(v, n)
<1>0. Len(u) \in Nat /\ Len(v) \in Nat
  OBVIOUS
<1>1. /\ Len(u \o v) = Len(u) + Len(v)
      /\ \A i \in 1 .. Len(u) + Len(v) : (u \o v)[i] = IF i <= Len(u) THEN u[i] ELSE v[i - Len(u)]
  BY ConcatProperties
<1>2. \A i \in 1 .. Len(u) : i \in 1 .. Len(u) + Len(v) /\ (u \o v)[i] = u[i]
  BY <1>0, <1>1
<1>3. ASSUME NEW i \in 1 .. Len(v) PROVE Len(u) + i \in 1 .. Len(u) + Len(v) /\ (u \o v)[Len(u) + i] = v[i]
  <2>1. Len(u) + i \in 1 .. Len(u) + Len(v) /\ ~(Len(u) + i <= Len(u)) /\ (Len(u) + i) - Len(u) = i
    BY <1>0
  <2> QED
    BY <1>1, <2>1
<1>4. ASSUME Bounded(u \o v, n) PROVE Bounded(u, n) /\ Bounded(v, n)
  <2>1. Bounded(u, n)
    BY <1>1, <1>2, <1>4 DEF Bounded
  <2>2. Bounded(v, n)
    BY <1>1, <1>3, <1>4 DEF Bounded
  <2> QED
    BY <2>1, <2>2
<1>5. ASSUME Bounded(u, n), Bounded(v, n) PROVE Bounded(u \o v, n)
  <2> SUFFICES ASSUME NEW i \in 1 .. Len(u) + Len(v) PROVE (u \o v)[i] <= n
    BY <1>1 DEF Bounded
  <2>1. CASE i <= Len(u)
    BY <1>0, <1>1, <1>5, <2>1 DEF Bounded
  <2>2. CASE ~(i <= Len(u))
    <3>1. i - Len(u) \in 1 .. Len(v) /\ (u \o v)[i] = v[i - Len(u)]
      BY <1>0, <1>1, <2>2
    <3> QED
      BY <1>5, <3>1 DEF Bounded
  <2> QED
    BY <2>1, <2>2
<1> QED
  BY <1>4, <1>5

LEMMA BoundedMore ==
  ASSUME NEW u \in Seq(Nat), NEW m \in Nat, NEW n \in Nat, m <= n, Bounded(u, m)
  PROVE  Bounded(u, n)
<1>1. \A i \in 1 .. Len(u) : u[i] \in Nat
  OBVIOUS
<1> QED
  BY <1>1 DEF Bounded

LEMMA JoinAssociative ==
  ASSUME NEW a \in Seq(Nat), NEW b \in Seq(Nat), NEW d \in Seq(Nat)
  PROVE  (a \o b) \o d = a \o (b \o d)
  OBVIOUS

\* What is on its way after a step: the screen's, the channel's, the turn's.
LEMMA UnseenNext ==
  /\ pump'.at = "event" => Unseen' = <<pump'.event>> \o events' \o ask'.outbox
  /\ pump'.at # "event" => Unseen' = <<>> \o events' \o ask'.outbox
  BY DEF Unseen

\* How a step of the pump or of the turn's goroutine moves it.
LEMMA UnseenMoves ==
  ASSUME QueueInv
  PROVE  /\ UNCHANGED <<pump, events>> /\ ask'.outbox = ask.outbox => Unseen' = Unseen
         /\ Receive => Unseen' = Unseen
         /\ KeepDone => Unseen' = Unseen
         /\ Show => Unseen' \in Seq(Nat) /\ pump.event \in Nat /\ Unseen = <<pump.event>> \o Unseen'
         /\ EmitEvent /\ SendEvent => Unseen' = Unseen
         /\ EmitEvent /\ UNCHANGED events =>
              /\ Unseen' = (OnScreen \o events) \o Tail(ask.outbox)
              /\ Unseen = (OnScreen \o events) \o ask.outbox /\ ask.outbox # <<>>
         /\ \A o \in Seq(Nat) :
              UNCHANGED <<pump, events>> /\ ask.outbox = <<>> /\ ask'.outbox = o => Unseen' = Unseen \o o
<1>a. PICK a \in Seq(Nat) : a = OnScreen
  BY OnScreenType
<1>b. PICK b \in Seq(Nat) : b = events
  BY OnScreenType
<1>d. PICK d \in Seq(Nat) : d = ask.outbox
  BY OnScreenType
<1>u. Unseen = (a \o b) \o d
  BY <1>a, <1>b, <1>d, OnScreenType
<1>n. \A s \in Seq(Nat) : <<>> \o s = s /\ s \o <<>> = s
  BY ConcatEmptySeq
<1>m. \A s \in Seq(Nat), r \in Seq(Nat), v \in Seq(Nat) : (s \o r) \o v = s \o (r \o v)
  BY JoinAssociative
<1>c. \A s, r \in Seq(Nat) : s \o r \in Seq(Nat)
  BY ConcatProperties
<1>w. Off.at = "off" /\ Waiting.at = "wait"
  BY DEF Off, Waiting
<1>1. ASSUME UNCHANGED <<pump, events>>, ask'.outbox = ask.outbox PROVE Unseen' = Unseen
  BY <1>1 DEF Unseen
<1>2. ASSUME Receive PROVE Unseen' = Unseen
  <2>1. pump.at # "event" /\ ask' = ask
    BY <1>2, <1>w DEF Receive, turn
  <2>2. a = <<>>
    BY <1>a, <2>1 DEF OnScreen
  <2>3. CASE ReceiveEvent
    <3>1. pump'.at = "event" /\ pump'.event = Head(b) /\ events' = Tail(b) /\ b # <<>>
      BY <1>b, <2>3 DEF ReceiveEvent, Off
    <3>2. Unseen' = <<Head(b)>> \o Tail(b) \o d
      BY <1>d, <2>1, <3>1, UnseenNext
    <3>3. b = <<Head(b)>> \o Tail(b)
      BY <3>1, HeadAndTail
    <3> QED
      BY <1>n, <1>u, <2>2, <3>2, <3>3
  <2>4. CASE ReceiveDone \/ RepeatDone
    <3>1. pump'.at # "event" /\ events' = b
      BY <1>b, <2>4 DEF ReceiveDone, RepeatDone, Off
    <3> QED
      BY <1>d, <1>u, <2>1, <2>2, <3>1, UnseenNext
  <2> QED
    BY <1>2, <2>3, <2>4 DEF Receive
<1>3. ASSUME KeepDone PROVE Unseen' = Unseen
  <2>1. pump.at # "event" /\ pump'.at # "event" /\ ask' = ask /\ events' = events
    BY <1>3, <1>w DEF KeepDone, turn, wire
  <2> QED
    BY <2>1 DEF Unseen
<1>4. ASSUME Show PROVE Unseen' \in Seq(Nat) /\ pump.event \in Nat /\ Unseen = <<pump.event>> \o Unseen'
  <2>1. pump.at = "event" /\ pump'.at # "event" /\ ask' = ask /\ events' = events
    BY <1>4, <1>w DEF Show, turn, wire
  <2>2. a = <<pump.event>> /\ pump.event \in Nat
    BY <1>a, <2>1 DEF OnScreen, QueueInv, ViewTypes
  <2>3. Unseen' = b \o d
    BY <1>b, <1>d, <1>n, <2>1, UnseenNext
  <2> QED
    BY <1>c, <1>m, <1>u, <2>2, <2>3
<1>5. ASSUME EmitEvent, ask.outbox # <<>> PROVE Unseen' = (IF pump.at = "event" THEN <<pump.event>> ELSE <<>>) \o events' \o Tail(d)
  <2>1. pump' = pump /\ ask' = [ask EXCEPT !.outbox = Tail(d)]
    BY <1>d, <1>5 DEF EmitEvent, view
  <2>2. ask'.outbox = Tail(d)
    BY <2>1 DEF QueueInv, TurnTypes
  <2> QED
    BY <2>1, <2>2 DEF Unseen
<1>6. ASSUME EmitEvent, SendEvent PROVE Unseen' = Unseen
  <2>1. d # <<>> /\ events' = Append(b, Head(d))
    BY <1>b, <1>d, <1>6 DEF EmitEvent, SendEvent
  <2>2. d = <<Head(d)>> \o Tail(d) /\ Head(d) \in Nat /\ Tail(d) \in Seq(Nat) /\ <<Head(d)>> \in Seq(Nat)
    BY <2>1, HeadAndTail
  <2>3. Append(b, Head(d)) = b \o <<Head(d)>>
    BY <2>2, AppendIsConcat
  <2>4. Unseen' = a \o (b \o <<Head(d)>>) \o Tail(d)
    BY <1>a, <1>d, <1>5, <1>6, <2>1, <2>3 DEF OnScreen
  <2>5. PICK h \in Seq(Nat) : h = <<Head(d)>>
    BY <2>2
  <2>6. PICK t \in Seq(Nat) : t = Tail(d)
    BY <2>2
  <2>7. (a \o (b \o h)) \o t = (a \o b) \o (h \o t)
    <3>1. (a \o (b \o h)) = (a \o b) \o h
      <4>1. Glued(Glued(a, b), h) = Glued(a, Glued(b, h))
        BY <1>a, Regroup
      <4> QED
        BY <4>1 DEF Glued
    <3>2. PICK x \in Seq(Nat) : x = a \o b
      BY <1>c
    <3>3. (x \o h) \o t = x \o (h \o t)
      <4>1. Glued(Glued(x, h), t) = Glued(x, Glued(h, t))
        BY Regroup
      <4> QED
        BY <4>1 DEF Glued
    <3> QED
      BY <3>1, <3>2, <3>3
  <2> QED
    BY <1>u, <2>2, <2>4, <2>5, <2>6, <2>7
<1>7. ASSUME EmitEvent, UNCHANGED events
      PROVE  /\ Unseen' = (OnScreen \o events) \o Tail(ask.outbox)
             /\ Unseen = (OnScreen \o events) \o ask.outbox /\ ask.outbox # <<>>
  <2>1. ask.outbox # <<>>
    BY <1>7 DEF EmitEvent
  <2> QED
    BY <1>a, <1>b, <1>d, <1>u, <1>5, <1>7, <2>1 DEF OnScreen
<1>8. ASSUME NEW o \in Seq(Nat), UNCHANGED <<pump, events>>, ask.outbox = <<>>, ask'.outbox = o
      PROVE  Unseen' = Unseen \o o
  <2>1. Unseen' = (a \o b) \o o
    BY <1>a, <1>b, <1>8 DEF Unseen, OnScreen
  <2>2. Unseen = a \o b
    BY <1>c, <1>d, <1>n, <1>u, <1>8
  <2> QED
    BY <2>1, <2>2
<1> QED
  BY <1>1, <1>2, <1>3, <1>4, <1>6, <1>7, <1>8

\* What the turn says of its steers when it is done well.
Sealed ==
  /\ ledger # <<>> /\ Last(ledger).input = ask.input
  /\ Len(Last(ledger).steers) <= Len(admitted)
  /\ Last(ledger).steers = SubSeq(admitted, 1, Len(Last(ledger).steers))

LEMMA TakenType ==
  ASSUME QueueInv
  PROVE  Taken \in Nat /\ Taken <= Len(admitted) /\ Len(admitted) \in Nat
<1>1. box.consumed \in Seq(Numbered) /\ box.pending \in Seq(Numbered) /\ admitted \in Seq(Message)
  BY DEF QueueInv, TurnTypes, ViewTypes
<1>2. Len(box.consumed) + Len(box.pending) <= Len(admitted)
  BY DEF QueueInv, BoxInv
<1>3. Len(box.consumed) \in Nat /\ Len(box.pending) \in Nat /\ Len(admitted) \in Nat
  BY <1>1
<1>4. CASE ask.result = "ok"
  <2>1. ledger \in Seq(Entries) /\ ledger # <<>>
    BY <1>4 DEF QueueInv, TurnTypes, Entries, StreamInv
  <2>2. Last(ledger) \in Entries
    <3>1. Last(ledger) = ledger[Len(ledger)] /\ Len(ledger) \in 1 .. Len(ledger)
      BY <2>1 DEF Last
    <3> QED
      BY <2>1, <3>1
  <2>3. Last(ledger).steers \in Seq(Message)
    BY <2>2 DEF Entries
  <2>4. Len(Last(ledger).steers) \in Nat
    BY <2>3
  <2>5. Len(Last(ledger).steers) <= Len(admitted)
    BY <1>4 DEF QueueInv, StreamInv
  <2> QED
    BY <1>3, <1>4, <2>4, <2>5 DEF Taken
<1>5. CASE ask.result # "ok"
  <2>1. Taken = Len(box.consumed)
    BY <1>5 DEF Taken
  <2>2. PICK n \in Nat, m \in Nat, k \in Nat : n = Len(box.consumed) /\ m = Len(box.pending) /\ k = Len(admitted)
    BY <1>3
  <2>3. n + m <= k
    BY <1>2, <2>2
  <2>4. n <= k
    BY <2>3
  <2> QED
    BY <2>1, <2>2, <2>4
<1> QED
  BY <1>4, <1>5

LEMMA StreamInvStep ==
  ASSUME QueueAssumption, QueueInv, QueueNext
  PROVE  StreamInv'
<1>0. /\ PhaseInv /\ ask \in AskTypes /\ box \in BoxTypes /\ BoxInv /\ ledger \in Seq(Entries)
      /\ ctx \in {"none", "live", "cancelled", "deadline"}
      /\ admitted \in Seq(Message) /\ shown \in BOOLEAN
  BY DEF QueueInv, TurnTypes, AskTypes, Pcs, BoxTypes, Entries, ViewTypes
<1>s. /\ Bounded(Unseen, Len(admitted))
      /\ Faithful => InOrder(Unseen, Taken, Answered, seen, shown)
      /\ ask.result = "ok" => Sealed
  BY DEF QueueInv, StreamInv, Bounded, Sealed
<1>g. ASSUME Bounded(Unseen', Len(admitted')), Faithful' => InOrder(Unseen, Taken, Answered, seen, shown)',
             ask'.result = "ok" => Sealed'
      PROVE  StreamInv'
  BY <1>g DEF StreamInv, Bounded, Sealed
<1>u. Unseen \in Seq(Nat) /\ Len(admitted) \in Nat /\ Taken \in Nat
  BY OnScreenType, TakenType
<1>k. \/ Aside \/ Interrupted \/ Restarted \/ Steer \/ SteerTooLate
      \/ Continue \/ Respond \/ Receive \/ Show \/ KeepDone
  BY StepKinds
<1>n. NoBox.pending = <<>> /\ NoBox.consumed = <<>> /\ Len(NoBox.consumed) = 0
  BY NothingYet DEF NoBox
<1>w. Off.at = "off" /\ Waiting.at = "wait"
  BY DEF Off, Waiting
\* Nothing that the turn has said or promised changes.
<1>1. ASSUME Unseen' = Unseen, UNCHANGED <<ask, ledger, seen, shown>>,
             box'.consumed = box.consumed,
             ctx' = "live" => ctx = "live",
             Len(admitted') \in Nat, Len(admitted) <= Len(admitted'),
             ask'.result = "ok" => UNCHANGED admitted
      PROVE  StreamInv'
  <2>1. Bounded(Unseen', Len(admitted'))
    BY <1>1, <1>s, <1>u, BoundedMore
  <2>2. Faithful' => Faithful
    BY <1>1 DEF Faithful
  <2>3. Taken' = Taken /\ (Answered' <=> Answered)
    BY <1>1 DEF Taken, Answered
  <2>4. ask'.result = "ok" => Sealed'
    BY <1>1, <1>s DEF Sealed
  <2>5. Faithful' => InOrder(Unseen, Taken, Answered, seen, shown)'
    <3> SUFFICES ASSUME Faithful' PROVE InOrder(Unseen, Taken, Answered, seen, shown)'
      OBVIOUS
    <3>1. InOrder(Unseen, Taken, Answered, seen, shown)
      BY <1>s, <2>2
    <3> QED
      BY <1>1, <2>3, <3>1 DEF InOrder
  <2> QED
    BY <1>g, <2>1, <2>4, <2>5
<1>2. CASE Aside \/ Interrupted \/ SteerTooLate
  <2>1. UNCHANGED <<pump, events, admitted, ask, ledger, seen, shown>> /\ (ctx' = "live" => ctx = "live")
    BY <1>2 DEF Aside, Interrupted, SteerTooLate, view, wire, turn
  <2>2. Unseen' = Unseen
    BY <2>1, UnseenMoves
  <2>3. box'.consumed = box.consumed
    BY <1>0, <1>2 DEF Aside, Interrupted, SteerTooLate, turn, BoxTypes
  <2> QED
    BY <1>1, <1>u, <2>1, <2>2, <2>3
<1>3. CASE Receive \/ KeepDone
  <2>1. UNCHANGED <<admitted, ask, box, ctx, ledger, seen, shown>>
    BY <1>3 DEF Receive, KeepDone, view, turn
  <2>2. Unseen' = Unseen
    BY <1>3, UnseenMoves
  <2> QED
    BY <1>1, <1>u, <2>1, <2>2
<1>4. CASE Steer
  <2>1. UNCHANGED <<pump, events, ask, ledger, seen, shown, ctx>> /\ box.open
        /\ admitted' = Append(admitted, composer) /\ composer \in Message
    BY <1>4 DEF Steer, Accepts, wire, QueueInv, UiTypes, Message
  <2>2. ask.result # "ok"
    BY <1>0, <2>1 DEF BoxInv, NoBox, PhaseInv, AtWork, Returned
  <2>3. box'.consumed = box.consumed
    BY <1>0, <1>4 DEF Steer, BoxTypes
  <2>4. Len(admitted') = Len(admitted) + 1
    BY <1>0, <2>1
  <2>5. Unseen' = Unseen
    BY <2>1, UnseenMoves
  <2> QED
    BY <1>1, <1>u, <2>1, <2>2, <2>3, <2>4, <2>5
<1>5. CASE Restarted
  <2>1. /\ ask'.result = "none" /\ ask'.outbox = <<>> /\ events' = <<>> /\ pump'.at # "event"
        /\ seen' = {} /\ shown' = FALSE /\ ask'.pc \in {"none", "starting"}
    <3>1. CASE Clear
      BY <1>w, <3>1 DEF Clear, NoAsk
    <3>2. CASE \E input \in Message : StartTurn(input)
      BY <1>w, <3>2 DEF StartTurn, NoAsk
    <3> QED
      BY <1>5, <3>1, <3>2 DEF Restarted, Fresh
  <2>2. Unseen' = <<>>
    <3>1. Unseen' = <<>> \o <<>> \o <<>>
      BY <2>1 DEF Unseen
    <3>2. PICK e \in Seq(Nat) : e = <<>>
      BY EmptySeq
    <3>3. e \o e = e
      BY <3>2, ConcatEmptySeq
    <3> QED
      BY <3>1, <3>2, <3>3
  <2>3. Len(Unseen') = 0
    BY <2>2, NothingYet
  <2>4. ask.pc \notin AtWork
    BY <1>0, <1>5 DEF Restarted, PhaseInv, Settling, NoAsk, AtWork
  <2>5. box' = NoBox
    BY <1>0, <1>5, <2>4 DEF Restarted, BoxInv
  <2>6. Taken' = 0 /\ ~Answered'
    BY <1>n, <2>1, <2>5 DEF Taken, Answered
  <2>7. InOrder(Unseen', 0, FALSE, {}, FALSE)
    BY <2>3 DEF InOrder
  <2>8. InOrder(Unseen, Taken, Answered, seen, shown)'
    <3>1. PICK u : u = Unseen'
      OBVIOUS
    <3> QED
      BY <2>1, <2>6, <2>7, <3>1 DEF InOrder
  <2>9. Bounded(Unseen', Len(admitted'))
    BY <2>3 DEF Bounded
  <2> QED
    BY <1>g, <2>1, <2>8, <2>9
<1>6. CASE Show
  <2>1. UNCHANGED <<admitted, ask, box, ctx, ledger>> /\ pump.at = "event"
    BY <1>6 DEF Show, turn
  <2>2. PICK v \in Seq(Nat) : v = Unseen'
    BY <1>6, UnseenMoves
  <2>3. pump.event \in Nat /\ Unseen = <<pump.event>> \o v
    BY <1>6, <2>2, UnseenMoves
  <2>4. Bounded(v, Len(admitted))
    <3>1. <<pump.event>> \in Seq(Nat)
      BY <2>3
    <3> QED
      BY <1>s, <1>u, <2>3, <3>1, BoundedConcat
  <2>5. Faithful' => Faithful
    BY <2>1 DEF Faithful
  <2>6. Taken' = Taken /\ (Answered' <=> Answered) /\ Answered \in BOOLEAN
    BY <2>1 DEF Taken, Answered
  <2>7. ASSUME Faithful' PROVE InOrder(Unseen, Taken, Answered, seen, shown)'
    <3>1. PICK a \in BOOLEAN : a = Answered
      BY <2>6
    <3>2. InOrder(<<pump.event>> \o v, Taken, a, seen, shown)
      BY <1>s, <2>3, <2>5, <2>7, <3>1
    <3>t. PICK k \in Nat, f \in BOOLEAN, e \in Nat : k = Taken /\ f = shown /\ e = pump.event
      BY <1>0, <1>u, <2>3
    <3>o. InOrder(<<e>> \o v, k, a, seen, f)
      BY <3>2, <3>t
    <3>i. IF e = Answer THEN InOrder(v, k, a, seen, TRUE) ELSE InOrder(v, k, a, seen \cup {e}, f)
      BY <3>o, OneIsShown
    <3>3. IF pump.event = Answer THEN InOrder(v, Taken, a, seen, TRUE)
          ELSE InOrder(v, Taken, a, seen \cup {pump.event}, shown)
      BY <3>t, <3>i
    <3>4. InOrder(v, Taken, a, seen', shown')
      BY <1>6, <3>3 DEF Show
    <3>5. a <=> Answered'
      BY <2>6, <3>1
    <3> QED
      BY <2>2, <2>6, <3>4, <3>5 DEF InOrder
  <2>8. ask'.result = "ok" => Sealed'
    BY <1>s, <2>1 DEF Sealed
  <2> QED
    BY <1>g, <2>1, <2>2, <2>4, <2>7, <2>8
\* The turn goes on without a word.
<1>7. ASSUME UNCHANGED <<pump, events, admitted, seen, shown, ledger>>, ask'.outbox = ask.outbox,
             Faithful' => Faithful, Taken' = Taken, Answered' <=> Answered,
             ask'.result = "ok" => ask.result = "ok" /\ ask'.input = ask.input
      PROVE  StreamInv'
  <2>1. Unseen' = Unseen
    BY <1>7, UnseenMoves
  <2>2. Faithful' => InOrder(Unseen, Taken, Answered, seen, shown)'
    <3> SUFFICES ASSUME Faithful' PROVE InOrder(Unseen, Taken, Answered, seen, shown)'
      OBVIOUS
    <3>1. InOrder(Unseen, Taken, Answered, seen, shown)
      BY <1>7, <1>s
    <3> QED
      BY <1>7, <2>1, <3>1 DEF InOrder
  <2>3. ask'.result = "ok" => Sealed'
    BY <1>7, <1>s DEF Sealed
  <2>4. Bounded(Unseen', Len(admitted'))
    BY <1>7, <1>s, <2>1
  <2> QED
    BY <1>g, <2>2, <2>3, <2>4
\* The turn says no more, for it has failed.
<1>8. ASSUME UNCHANGED <<pump, events, admitted, ledger>>, ask'.outbox = ask.outbox, ~Faithful'
      PROVE  StreamInv'
  <2>1. Unseen' = Unseen
    BY <1>8, UnseenMoves
  <2>2. ask'.result # "ok"
    BY <1>8 DEF Faithful
  <2> QED
    BY <1>8, <1>g, <1>s, <2>1, <2>2
<1>9. CASE Respond
  <2>1. UNCHANGED <<pump, events, admitted, seen, shown, ledger, box, ctx>> /\ ask.outbox = <<>>
        /\ ask.pc \in {"boundary", "calling"}
    BY <1>9 DEF Respond, CallTools, ModelAnswers, ModelFails, view, wire, AskAt
  <2>2. ask.result = "none"
    BY <1>0, <2>1 DEF PhaseInv, Returned
  <2>3. CASE CallTools
    <3>1. ctx = "live" /\ ask.pc = "calling" /\ ask' = [ask EXCEPT !.pc = "boundary"]
      BY <2>3 DEF CallTools, AskGoes, AskAt
    <3>2. ask'.pc = "boundary" /\ ask'.outbox = ask.outbox /\ ask'.result = "none"
      BY <1>0, <2>2, <3>1 DEF AskTypes
    <3> QED
      BY <1>7, <2>1, <2>2, <3>1, <3>2 DEF Faithful, Taken, Answered
  <2>4. CASE ModelFails
    <3>1. ask'.pc = "failing" /\ ask'.outbox = ask.outbox /\ ask'.result = "none"
      BY <1>0, <2>2, <2>4 DEF ModelFails, AskGoes, AskTypes
    <3> QED
      BY <1>8, <2>1, <3>1 DEF Faithful
  <2>5. CASE ModelAnswers
    <3>1. ask.pc = "calling" /\ ask'.pc = "answered" /\ ask'.outbox = <<Answer>> /\ ask'.result = "none"
      BY <1>0, <2>2, <2>5 DEF ModelAnswers, AskAt, AskTypes
    <3>2. <<Answer>> \in Seq(Nat) /\ Bounded(<<Answer>>, Len(admitted))
      BY <1>u DEF Answer, Bounded
    <3>3. PICK o \in Seq(Nat) : o = <<Answer>>
      BY <3>2
    <3>4. Unseen' = Unseen \o o
      BY <2>1, <3>1, <3>3, UnseenMoves
    <3>5. Bounded(Unseen', Len(admitted))
      BY <1>s, <1>u, <3>2, <3>3, <3>4, BoundedConcat
    <3>6. (Faithful' => Faithful) /\ Taken' = Taken /\ ~Answered /\ Answered'
      BY <2>1, <2>2, <3>1 DEF Faithful, Taken, Answered
    <3>7. ASSUME Faithful' PROVE InOrder(Unseen, Taken, Answered, seen, shown)'
      <4>1. InOrder(Unseen, Taken, Answered, seen, shown)
        BY <1>s, <3>6, <3>7
      <4>2. InOrder(Unseen, Taken, FALSE, seen, shown)
        BY <3>6, <4>1 DEF InOrder
      <4>3. InOrder(Unseen \o <<Answer>>, Taken, TRUE, seen, shown)
        BY <1>0, <1>u, <4>2, AnswerJoins
      <4>4. InOrder(Unseen', Taken', TRUE, seen', shown')
        BY <2>1, <3>3, <3>4, <3>6, <4>3
      <4> QED
        BY <3>6, <4>4 DEF InOrder
    <3> QED
      BY <1>g, <2>1, <3>1, <3>5, <3>7
  <2> QED
    BY <1>9, <2>3, <2>4, <2>5 DEF Respond
<1>10. CASE Continue
  <2>0. UNCHANGED <<pump, admitted, seen, shown, ctx>> /\ mode = "busy"
    BY <1>10 DEF Continue, BeginTurn, RefuseTurn, TakeSteers, EmitEvent, DiscardSteering, CloseSteering,
         ReachBoundary, RejectAnswer, Commit, CommitFails, CloseEvents, SendDone, view, AskAt
  <2>1. CASE BeginTurn
    <3>1. UNCHANGED <<events, ledger>> /\ ask.pc = "starting" /\ box' = [NoBox EXCEPT !.open = TRUE]
      BY <2>1 DEF BeginTurn, AskAt, wire
    <3>2. ask'.pc = "boundary" /\ ask'.outbox = ask.outbox /\ ask'.result = ask.result /\ ask'.input = ask.input
      BY <1>0, <2>1 DEF BeginTurn, AskGoes, AskTypes
    <3>3. ask.result = "none" /\ box = NoBox
      BY <1>0, <3>1 DEF PhaseInv, Returned, BoxInv, AtWork
    <3>4. box'.consumed = box.consumed
      BY <3>1, <3>3 DEF NoBox
    <3> QED
      BY <1>7, <2>0, <3>1, <3>2, <3>3, <3>4 DEF Faithful, Taken, Answered
  <2>2. CASE RefuseTurn \/ DiscardSteering \/ RejectAnswer
    <3>1. UNCHANGED <<events, ledger>>
      BY <2>2 DEF RefuseTurn, DiscardSteering, RejectAnswer, wire
    <3>2. PICK r \in Failures : Returns(r)
      BY <2>2 DEF RefuseTurn, DiscardSteering, RejectAnswer
    <3>3. r \in Errors
      BY <1>0, <2>0 DEF PhaseInv, Failures, Errors
    <3>4. ask'.pc = "returned" /\ ask'.result = r /\ ask'.outbox = ask.outbox
      BY <1>0, <3>2 DEF Returns, AskTypes
    <3>5. ~Faithful'
      BY <3>3, <3>4 DEF Faithful, Errors
    <3> QED
      BY <1>8, <2>0, <3>1, <3>4, <3>5
  <2>3. CASE TakeSteers
    <3>1. UNCHANGED <<events, ledger>> /\ ask.outbox = <<>> /\ ask.pc = "boundary"
      BY <2>3 DEF TakeSteers, AskAt, wire
    <3>c. PICK c \in Seq(Numbered) : c = box.consumed
      BY <1>0 DEF BoxTypes
    <3>p. PICK p \in Seq(Numbered) : p = box.pending
      BY <1>0 DEF BoxTypes
    <3>2. PICK o : o = [i \in DOMAIN p |-> p[i].sequence]
      OBVIOUS
    <3>3. ask'.pc = "calling" /\ ask'.outbox = o /\ ask'.result = ask.result /\ box'.consumed = c \o p
      BY <1>0, <2>3, <3>2, <3>c, <3>p DEF TakeSteers, AskTypes, BoxTypes
    <3>4. ask.result = "none" /\ Len(c) + Len(p) <= Len(admitted) /\ Taken = Len(c)
      BY <1>0, <3>1, <3>c, <3>p DEF PhaseInv, Returned, BoxInv, Taken
    <3>5. \A i \in 1 .. Len(p) : p[i].sequence = Len(c) + i
      <4>1. \A i \in 1 .. Len(p) : p[i] = Admission(Len(c) + i)
        BY <1>0, <3>c, <3>p DEF BoxInv
      <4>2. \A i : Admission(i).sequence = i
        BY DEF Admission
      <4> QED
        BY <4>1, <4>2
    <3>6. Len(c) \in Nat /\ Len(p) \in Nat
      OBVIOUS
    <3>7. o \in Seq(Nat) /\ Len(o) = Len(p) /\ \A i \in 1 .. Len(o) : o[i] = Len(c) + i
      <4>1. o = [i \in 1 .. Len(p) |-> p[i].sequence]
        BY <3>2
      <4>2. \A i \in 1 .. Len(p) : p[i].sequence \in Nat
        BY <3>5, <3>6
      <4> QED
        BY <3>5, <4>1, <4>2
    <3>8. Unseen' = Unseen \o o
      BY <2>0, <3>1, <3>3, <3>7, UnseenMoves
    <3>9. Bounded(o, Len(admitted))
      BY <1>u, <3>4, <3>6, <3>7 DEF Bounded
    <3>10. Bounded(Unseen', Len(admitted))
      BY <1>s, <1>u, <3>7, <3>8, <3>9, BoundedConcat
    <3>11. Taken' = Taken + Len(o)
      <4>1. Len(c \o p) = Len(c) + Len(p)
        BY ConcatProperties
      <4>2. Taken' = Len(c \o p)
        BY <3>3, <3>4 DEF Taken
      <4> QED
        BY <3>4, <3>7, <4>1, <4>2
    <3>12. (Faithful' => Faithful) /\ ~Answered /\ ~Answered'
      BY <2>0, <3>1, <3>3, <3>4 DEF Faithful, Answered
    <3>13. ASSUME Faithful' PROVE InOrder(Unseen, Taken, Answered, seen, shown)'
      <4>1. InOrder(Unseen, Taken, Answered, seen, shown)
        BY <1>s, <3>12, <3>13
      <4>2. InOrder(Unseen, Taken, FALSE, seen, shown)
        BY <3>12, <4>1 DEF InOrder
      <4>3. InOrder(Unseen \o o, Taken + Len(o), FALSE, seen, shown)
        BY <1>0, <1>u, <3>4, <3>7, <4>2, SteersJoin
      <4>4. InOrder(Unseen', Taken', FALSE, seen', shown')
        BY <2>0, <3>8, <3>11, <4>3
      <4> QED
        BY <3>12, <4>4 DEF InOrder
    <3> QED
      BY <1>g, <2>0, <3>3, <3>4, <3>10, <3>13
  <2>4. CASE EmitEvent
    <3>1. /\ ask'.pc = ask.pc /\ ask'.result = ask.result /\ ask'.input = ask.input /\ UNCHANGED <<box, ledger>>
          /\ SendEvent \/ (ctx # "live" /\ UNCHANGED events)
      BY <1>0, <2>4 DEF EmitEvent, AskTypes
    <3>2. ask.pc \in {"calling", "answered"} /\ ask.result = "none"
      BY <1>0, <2>4 DEF EmitEvent, PhaseInv, Returned
    <3>3. CASE SendEvent
      <4>1. Unseen' = Unseen
        BY <2>4, <3>3, UnseenMoves
      <4>2. (Faithful' => Faithful) /\ Taken' = Taken /\ (Answered' <=> Answered)
        BY <2>0, <3>1 DEF Faithful, Taken, Answered
      <4>3. ASSUME Faithful' PROVE InOrder(Unseen, Taken, Answered, seen, shown)'
        <5>1. InOrder(Unseen, Taken, Answered, seen, shown)
          BY <1>s, <4>2, <4>3
        <5> QED
          BY <2>0, <4>1, <4>2, <5>1 DEF InOrder
      <4> QED
        BY <1>g, <1>s, <2>0, <3>1, <3>2, <4>1, <4>3
    <3>4. CASE ctx # "live" /\ UNCHANGED events
      <4>1. ~Faithful'
        BY <2>0, <3>1, <3>2, <3>4 DEF Faithful
      <4>2. PICK x \in Seq(Nat) : x = OnScreen \o events
        BY OnScreenType
      <4>3. PICK d \in Seq(Nat) : d = ask.outbox
        BY OnScreenType
      <4>4. Unseen' = x \o Tail(d) /\ Unseen = x \o d /\ d # <<>>
        BY <2>4, <3>4, <4>2, <4>3, UnseenMoves
      <4>5. PICK h \in Seq(Nat), e \in Seq(Nat) : d = h \o e /\ e = Tail(d)
        <5>1. Tail(d) \in Seq(Nat) /\ <<Head(d)>> \in Seq(Nat) /\ d = <<Head(d)>> \o Tail(d)
          BY <4>4, HeadAndTail
        <5> QED
          BY <5>1
      <4>6. Bounded(x, Len(admitted)) /\ Bounded(d, Len(admitted))
        BY <1>s, <1>u, <4>4, BoundedConcat
      <4>7. Bounded(e, Len(admitted))
        BY <1>u, <4>5, <4>6, BoundedConcat
      <4>8. Bounded(Unseen', Len(admitted))
        BY <1>u, <4>4, <4>5, <4>6, <4>7, BoundedConcat
      <4> QED
        BY <1>g, <2>0, <3>1, <3>2, <4>1, <4>8
    <3> QED
      BY <3>1, <3>3, <3>4
  <2>5. CASE CloseSteering \/ ReachBoundary
    <3>1. /\ UNCHANGED <<events, ledger>> /\ ask.pc \in {"answered", "closed"} /\ ask'.pc \in {"closed", "committing"}
          /\ ask'.outbox = ask.outbox /\ ask'.result = ask.result /\ ask'.input = ask.input
          /\ ask'.pc = "committing" => ctx = "live"
          /\ box'.consumed = box.consumed
      BY <1>0, <2>5 DEF CloseSteering, ReachBoundary, AskAt, AskGoes, wire, AskTypes, BoxTypes
    <3>2. ask.result = "none"
      BY <1>0, <3>1 DEF PhaseInv, Returned
    <3>3. (Faithful' => Faithful) /\ Taken' = Taken /\ Answered' /\ Answered
      BY <2>0, <3>1, <3>2 DEF Faithful, Taken, Answered
    <3> QED
      BY <1>7, <2>0, <3>1, <3>2, <3>3
  <2>6. CASE CommitFails
    <3>1. UNCHANGED events /\ ask'.outbox = ask.outbox /\ ask'.result = "error" /\ ask'.pc = "returned"
      BY <1>0, <2>6 DEF CommitFails, wire, AskTypes
    <3>2. Unseen' = Unseen
      BY <2>0, <3>1, UnseenMoves
    <3>3. ~Faithful'
      BY <3>1 DEF Faithful
    <3> QED
      BY <1>g, <1>s, <2>0, <3>1, <3>2, <3>3
  <2>7. CASE Commit
    <3>1. /\ UNCHANGED events /\ ask'.outbox = ask.outbox /\ ask'.result = "ok" /\ ask'.pc = "returned"
          /\ ask'.input = ask.input /\ ask.pc = "committing" /\ ledger' = Delivered
      BY <1>0, <2>7 DEF Commit, wire, AskTypes, AskAt
    <3>2. Unseen' = Unseen
      BY <2>0, <3>1, UnseenMoves
    <3>c. PICK c \in Seq(Numbered) : c = box.consumed
      BY <1>0 DEF BoxTypes
    <3>3. ask.result = "none" /\ Taken = Len(c) /\ Len(c) <= Len(admitted) /\ Len(c) \in Nat
      <4>1. ask.result = "none" /\ Taken = Len(c)
        BY <1>0, <3>1, <3>c DEF PhaseInv, Returned, Taken
      <4> QED
        BY <1>u, <4>1, TakenType
    <3>4. PICK e \in Entries : e = [input |-> ask.input, steers |-> Steers(c)]
      <4>1. ask.input \in Message
        BY <1>0, <2>0 DEF PhaseInv, AskTypes, Message
      <4>2. Steers(c) \in Seq(Message)
        BY SteersType
      <4> QED
        BY <4>1, <4>2 DEF Entries
    <3>5. Last(ledger') = e /\ ledger' # <<>>
      <4>1. ledger' = Append(ledger, e)
        BY <3>1, <3>4, <3>c DEF Delivered
      <4>2. Len(ledger') = Len(ledger) + 1 /\ ledger'[Len(ledger) + 1] = e /\ ledger' # <<>>
        BY <1>0, <4>1, AppendProperties
      <4> QED
        BY <4>2 DEF Last
    <3>6. Steers(c) \in Seq(Message) /\ Len(Steers(c)) = Len(c) /\ \A i \in 1 .. Len(c) : Steers(c)[i] = c[i].content
      BY SteersType
    <3>7. Steers(c) = SubSeq(admitted, 1, Len(c))
      <4>1. PICK s \in Seq(Message) : s = Steers(c)
        BY <3>6
      <4>2. PICK r : r = SubSeq(admitted, 1, Len(c))
        OBVIOUS
      <4>3. r \in Seq(Message) /\ Len(r) = Len(c) /\ \A i \in 1 .. Len(c) : r[i] = admitted[i]
        BY <1>0, <1>u, <3>3, <4>2
      <4>4. \A i \in 1 .. Len(c) : c[i].content = admitted[i]
        <5>1. \A i \in 1 .. Len(c) : c[i] = Admission(i)
          BY <1>0, <3>c DEF BoxInv
        <5>2. \A i : Admission(i).content = admitted[i]
          BY DEF Admission
        <5> QED
          BY <5>1, <5>2
      <4>5. Len(s) = Len(r) /\ \A i \in 1 .. Len(s) : s[i] = r[i]
        BY <3>6, <4>1, <4>3, <4>4
      <4>6. s = r
        BY <4>3, <4>5, SeqEqual
      <4> QED
        BY <4>1, <4>2, <4>6
    <3>8. Last(ledger').steers = Steers(c) /\ Last(ledger').input = ask.input
      BY <3>4, <3>5
    <3>9. Sealed'
      BY <2>0, <3>1, <3>3, <3>5, <3>6, <3>7, <3>8 DEF Sealed
    <3>10. Taken' = Taken /\ Answered' /\ Answered /\ Faithful
      BY <3>1, <3>3, <3>6, <3>8 DEF Taken, Answered, Faithful
    <3>11. InOrder(Unseen, Taken, Answered, seen, shown)'
      <4>1. InOrder(Unseen, Taken, Answered, seen, shown)
        BY <1>s, <3>10
      <4> QED
        BY <2>0, <3>2, <3>10, <4>1 DEF InOrder
    <3> QED
      BY <1>g, <1>s, <2>0, <3>2, <3>9, <3>11
  <2>8. CASE CloseEvents \/ SendDone
    <3>1. /\ UNCHANGED <<events, ledger, box>> /\ ask.pc \in {"returned", "reporting"} /\ ask'.pc \in {"reporting", "over"}
          /\ ask'.outbox = ask.outbox /\ ask'.result \in {ask.result, "deadline"} /\ ask'.input = ask.input
      BY <1>0, <2>8 DEF CloseEvents, SendDone, AskAt, AskGoes, AskTypes
    <3>2. CASE ask'.result # "ok"
      <4>1. ~Faithful'
        BY <3>1, <3>2 DEF Faithful
      <4> QED
        BY <1>8, <2>0, <3>1, <4>1
    <3>3. CASE ask'.result = "ok"
      <4>1. Faithful /\ Taken' = Taken /\ Answered' /\ Answered /\ ask.result = "ok"
        BY <3>1, <3>3 DEF Faithful, Taken, Answered
      <4> QED
        BY <1>7, <2>0, <3>1, <4>1
    <3> QED
      BY <3>2, <3>3
  <2> QED
    BY <1>10, <2>1, <2>2, <2>3, <2>4, <2>5, <2>6, <2>7, <2>8 DEF Continue
<1> QED
  BY <1>2, <1>3, <1>4, <1>5, <1>6, <1>9, <1>10, <1>k

Unsaid(t) == IF ask.committed THEN 0 ELSE InTurn(t)
Said(t) == Held(Wholes(ledger), t)

LEMMA OccOne ==
  ASSUME NEW T, NEW x \in T, NEW t
  PROVE  <<x>> \in Seq(T) /\ Occ(<<x>>, t) = IF x = t THEN 1 ELSE 0
<1>1. PICK e \in Seq(T) : e = <<>>
  BY EmptySeq
<1>2. Append(e, x) = <<x>>
  BY <1>1
<1>3. Occ(Append(e, x), t) = Occ(e, t) + (IF x = t THEN 1 ELSE 0)
  BY OccAppend
<1>4. Occ(e, t) = 0
  BY <1>1, OccEmpty
<1>5. <<x>> \in Seq(T)
  OBVIOUS
<1> QED
  BY <1>2, <1>3, <1>4, <1>5

\* One message is replaced by one text.
LEMMA HeldEdited ==
  ASSUME NEW q \in Seq(Seq(Texts)), NEW i \in 1 .. Len(q), NEW x \in Texts, NEW t
  PROVE  /\ Occ(q[i], t) \in Nat /\ Occ(q[i], t) <= Held(q, t)
         /\ Held([q EXCEPT ![i] = <<x>>], t) + Occ(q[i], t) = Held(q, t) + (IF x = t THEN 1 ELSE 0)
<1>1. PICK m \in Seq(Texts) : m = <<x>> /\ Occ(m, t) = IF x = t THEN 1 ELSE 0
  BY OccOne
<1>2. Held([q EXCEPT ![i] = m], t) + Occ(q[i], t) = Held(q, t) + Occ(m, t)
  BY HeldReplace
<1>3. q[i] \in Seq(Texts)
  OBVIOUS
<1>4. Occ(q[i], t) \in Nat
  BY <1>3, OccType
<1>5. Occ(q[i], t) <= Held(q, t)
  BY HeldParts
<1> QED
  BY <1>1, <1>2, <1>4, <1>5

LEMMA WholesType ==
  ASSUME NEW l \in Seq(Entries)
  PROVE  Wholes(l) \in Seq(Seq(Texts)) /\ Len(Wholes(l)) = Len(l)
<1>1. ASSUME NEW i \in 1 .. Len(l) PROVE Whole(l[i]) \in Seq(Texts)
  <2>1. PICK e \in Entries : e = l[i]
    OBVIOUS
  <2>2. e.input \in Seq(Texts) /\ e.steers \in Seq(Message)
    BY DEF Entries, Message
  <2>3. e.steers \in Seq(Seq(Texts))
    BY <2>2, MessagesAreSequences
  <2>4. FlattenSeq(e.steers) \in Seq(Texts)
    BY <2>3, FlatType
  <2>5. e.input \o FlattenSeq(e.steers) \in Seq(Texts)
    BY <2>2, <2>4, ConcatProperties
  <2> QED
    BY <2>1, <2>5 DEF Whole, Flat
<1>2. Wholes(l) = [i \in 1 .. Len(l) |-> Whole(l[i])]
  BY DEF Wholes
<1> QED
  BY <1>1, <1>2

\* One more turn in the ledger.
LEMMA WholesAppend ==
  ASSUME NEW l \in Seq(Entries), NEW e \in Entries
  PROVE  Wholes(Append(l, e)) = Append(Wholes(l), Whole(e)) /\ Whole(e) \in Seq(Texts)
<1>1. PICK r : r = Append(l, e)
  OBVIOUS
<1>2. r \in Seq(Entries) /\ Len(r) = Len(l) + 1 /\ r[Len(l) + 1] = e /\ \A i \in 1 .. Len(l) : r[i] = l[i]
  BY <1>1, AppendProperties
<1>3. /\ Wholes(r) = [i \in 1 .. Len(r) |-> Whole(r[i])]
      /\ Wholes(l) = [i \in 1 .. Len(l) |-> Whole(l[i])]
  BY <1>2 DEF Wholes
<1>4. PICK w \in Seq(Seq(Texts)) : w = Wholes(l) /\ Len(w) = Len(l)
  BY WholesType
<1>5. PICK v \in Seq(Seq(Texts)) : v = Wholes(r) /\ Len(v) = Len(l) + 1
  BY <1>2, WholesType
<1>6. v[Len(l) + 1] = Whole(e)
  BY <1>2, <1>3, <1>5
<1>7. Whole(e) \in Seq(Texts)
  BY <1>5, <1>6
<1>8. PICK x \in Seq(Texts) : x = Whole(e)
  BY <1>7
<1>9. /\ Append(w, x) \in Seq(Seq(Texts)) /\ Len(Append(w, x)) = Len(w) + 1 /\ Append(w, x)[Len(w) + 1] = x
      /\ \A i \in 1 .. Len(w) : Append(w, x)[i] = w[i]
  BY AppendProperties
<1>10. \A i \in 1 .. Len(l) : v[i] = w[i]
  BY <1>2, <1>3, <1>4, <1>5
<1>11. ASSUME NEW i \in 1 .. Len(v) PROVE v[i] = Append(w, x)[i]
  <2>1. i \in 1 .. Len(l) \/ i = Len(l) + 1
    BY <1>5
  <2> QED
    BY <1>4, <1>6, <1>8, <1>9, <1>10, <2>1
<1>12. Len(v) = Len(Append(w, x))
  BY <1>4, <1>5, <1>9
<1>13. v = Append(w, x)
  BY <1>9, <1>11, <1>12, SeqEqual
<1> QED
  BY <1>1, <1>4, <1>5, <1>7, <1>8, <1>13

LEMMA SaidAppend ==
  ASSUME NEW l \in Seq(Entries), NEW e \in Entries, NEW t
  PROVE  /\ Held(Wholes(l), t) \in Nat
         /\ Occ(e.input, t) \in Nat /\ Held(e.steers, t) \in Nat
         /\ Held(Wholes(Append(l, e)), t) = Held(Wholes(l), t) + (Occ(e.input, t) + Held(e.steers, t))
<1>1. PICK w \in Seq(Seq(Texts)) : w = Wholes(l)
  BY WholesType
<1>2. PICK x \in Seq(Texts) : x = Whole(e)
  BY WholesAppend
<1>3. Held(Append(w, x), t) = Held(w, t) + Occ(x, t)
  BY HeldAppend
<1>4. PICK i \in Seq(Texts) : i = e.input
  BY DEF Entries, Message
<1>5. PICK s \in Seq(Seq(Texts)) : s = e.steers
  BY MessagesAreSequences DEF Entries
<1>6. PICK u \in Seq(Texts) : u = FlattenSeq(s)
  BY FlatType
<1>7. x = i \o u
  BY <1>2, <1>4, <1>5, <1>6 DEF Whole, Flat
<1>8. Occ(x, t) = Occ(i, t) + Occ(u, t)
  BY <1>7, OccConcat
<1>9. Occ(u, t) = Held(s, t)
  BY <1>6 DEF Held
<1>10. Held(w, t) \in Nat /\ Occ(i, t) \in Nat /\ Held(s, t) \in Nat
  BY HeldType, OccType
<1> QED
  BY <1>1, <1>2, <1>3, <1>4, <1>5, <1>8, <1>9, <1>10, WholesAppend

\* What comes back of an interrupted turn was in it.
LEMMA RestoredLess ==
  ASSUME admitted \in Seq(Message), NEW t
  PROVE  Restored \in Seq(Texts) /\ Occ(Restored, t) <= Held(admitted, t)
<1> DEFINE r == [i \in DOMAIN admitted |-> IF i \in seen THEN <<>> ELSE admitted[i]]
<1>1. PICK a \in Seq(Seq(Texts)) : a = admitted
  BY MessagesAreSequences
<1>2. PICK e \in Seq(Texts) : e = <<>>
  BY EmptySeq
<1>3. r = [i \in 1 .. Len(a) |-> IF i \in seen THEN e ELSE a[i]]
  BY <1>1, <1>2
<1> HIDE DEF r
<1>4. r \in Seq(Seq(Texts)) /\ Len(r) = Len(a) /\ \A i \in 1 .. Len(a) : r[i] \in {e, a[i]}
  BY <1>3
<1>5. ASSUME NEW i \in 1 .. Len(r) PROVE Occ(r[i], t) <= Occ(a[i], t)
  <2>1. a[i] \in Seq(Texts) /\ r[i] \in {e, a[i]}
    BY <1>4
  <2>2. Occ(a[i], t) \in Nat /\ Occ(e, t) = 0
    BY <1>2, <2>1, OccType, OccEmpty
  <2> QED
    BY <2>1, <2>2
<1>6. Held(r, t) <= Held(a, t)
  BY <1>4, <1>5, HeldLess
<1>7. Restored = FlattenSeq(r)
  BY DEF Restored, r
<1>8. FlattenSeq(r) \in Seq(Texts)
  BY <1>4, FlatType
<1> QED
  BY <1>1, <1>6, <1>7, <1>8 DEF Held

\* The steers of a delivered turn are the first of those admitted.
LEMMA ConsumedLess ==
  ASSUME QueueInv, NEW t
  PROVE  /\ Steers(box.consumed) \in Seq(Message)
         /\ Steers(box.consumed) = SubSeq(admitted, 1, Len(box.consumed))
         /\ Held(Steers(box.consumed), t) \in Nat
         /\ Held(Steers(box.consumed), t) <= Held(admitted, t)
<1>c. PICK c \in Seq(Numbered) : c = box.consumed
  BY DEF QueueInv, TurnTypes
<1>a. PICK a \in Seq(Message) : a = admitted
  BY DEF QueueInv, ViewTypes
<1>p. Len(box.pending) \in Nat /\ Len(c) \in Nat /\ Len(a) \in Nat
  BY DEF QueueInv, TurnTypes
<1>n. Len(c) + Len(box.pending) <= Len(a)
  BY <1>c, <1>a DEF QueueInv, BoxInv
<1>m. Len(c) <= Len(a)
  BY <1>p, <1>n
<1>1. \A i \in 1 .. Len(c) : c[i].content = a[i]
  <2>1. \A i \in 1 .. Len(c) : c[i] = Admission(i)
    BY <1>c DEF QueueInv, BoxInv
  <2>2. \A i : Admission(i).content = admitted[i]
    BY DEF Admission
  <2> QED
    BY <1>a, <2>1, <2>2
<1>2. PICK s \in Seq(Message) : s = Steers(c) /\ Len(s) = Len(c) /\ \A i \in 1 .. Len(c) : s[i] = c[i].content
  BY SteersType
<1>3. PICK r : r = SubSeq(a, 1, Len(c))
  OBVIOUS
<1>4. r \in Seq(Message) /\ Len(r) = Len(c) /\ \A i \in 1 .. Len(c) : r[i] = a[i]
  BY <1>p, <1>m, <1>3
<1>5. s = r
  <2>1. Len(s) = Len(r) /\ \A i \in 1 .. Len(s) : s[i] = r[i]
    BY <1>1, <1>2, <1>4
  <2> QED
    BY <1>4, <2>1, SeqEqual
<1>6. Held(s, t) \in Nat /\ Held(a, t) \in Nat
  BY MessagesAreSequences, HeldType
<1>7. Held(s, t) <= Held(a, t)
  <2>1. CASE Len(c) = 0
    <3>1. s = <<>>
      BY <1>2, <2>1
    <3>2. Held(s, t) = 0
      BY <3>1, HeldEmpty
    <3> QED
      BY <1>6, <3>2
  <2>2. CASE Len(c) # 0
    <3>1. Len(c) \in 1 .. Len(a)
      BY <1>p, <1>m, <2>2
    <3>2. a \in Seq(Seq(Texts))
      BY MessagesAreSequences
    <3>3. Held(SubSeq(a, 1, Len(c)), t) <= Held(a, t)
      BY <3>1, <3>2, HeldParts
    <3> QED
      BY <1>3, <1>5, <3>3
  <2> QED
    BY <2>1, <2>2
<1> QED
  BY <1>a, <1>c, <1>2, <1>3, <1>5, <1>6, <1>7

Limit(t) == IF t \in typed THEN 1 ELSE 0
Sum(t) == Occ(composer, t) + Held(queue, t) + Unsaid(t) + Said(t)
Live(t) == Occ(composer, t) + Held(queue, t) + InTurn(t)

\* All of it counts.
LEMMA CountTypes ==
  /\ UiTypes /\ ViewTypes /\ TurnTypes =>
       \A t : /\ Occ(composer, t) \in Nat /\ Held(queue, t) \in Nat
              /\ Occ(ask.input, t) \in Nat /\ Held(admitted, t) \in Nat
              /\ InTurn(t) \in Nat /\ Unsaid(t) \in Nat /\ Said(t) \in Nat
<1> SUFFICES ASSUME UiTypes, ViewTypes, TurnTypes, NEW t
             PROVE  /\ Occ(composer, t) \in Nat /\ Held(queue, t) \in Nat
                    /\ Occ(ask.input, t) \in Nat /\ Held(admitted, t) \in Nat
                    /\ InTurn(t) \in Nat /\ Unsaid(t) \in Nat /\ Said(t) \in Nat
  OBVIOUS
<1>1. Occ(composer, t) \in Nat /\ Occ(ask.input, t) \in Nat
  BY OccType DEF UiTypes, TurnTypes
<1>2. Held(queue, t) \in Nat
  BY MessagesAreSequences, HeldType DEF UiTypes
<1>3. Held(admitted, t) \in Nat
  BY MessagesAreSequences, HeldType DEF ViewTypes
<1>4. Said(t) \in Nat
  <2>1. PICK w \in Seq(Seq(Texts)) : w = Wholes(ledger)
    BY WholesType DEF TurnTypes, Entries
  <2> QED
    BY <2>1, HeldType DEF Said
<1>5. InTurn(t) \in Nat
  BY <1>1, <1>3 DEF InTurn
<1> QED
  BY <1>1, <1>2, <1>3, <1>4, <1>5 DEF Unsaid

LEMMA CountInvIs == CountInv <=> \A t \in Texts : Sum(t) <= Limit(t) /\ Live(t) <= Limit(t)
  BY DEF CountInv, Sum, Live, Limit, Unsaid, Said

\* What /queue edit and /queue drop do to the queue's texts.
LEMMA QueueEdited ==
  ASSUME queue \in Seq(Message), NEW i \in DOMAIN queue, NEW x \in Texts, queue' = [queue EXCEPT ![i] = <<x>>], NEW t
  PROVE  \E k \in Nat : k <= Held(queue, t) /\ Held(queue', t) + k = Held(queue, t) + (IF x = t THEN 1 ELSE 0)
<1>1. PICK q \in Seq(Seq(Texts)) : q = queue
  BY MessagesAreSequences
<1>2. PICK j \in 1 .. Len(q) : j = i
  BY <1>1
<1>3. /\ Occ(q[j], t) \in Nat /\ Occ(q[j], t) <= Held(q, t)
      /\ Held([q EXCEPT ![j] = <<x>>], t) + Occ(q[j], t) = Held(q, t) + (IF x = t THEN 1 ELSE 0)
  BY HeldEdited, Zenon
<1>4. queue' = [q EXCEPT ![j] = <<x>>]
  BY <1>1, <1>2
<1> QED
  BY <1>1, <1>3, <1>4

LEMMA QueueDropped ==
  ASSUME queue \in Seq(Message), NEW i \in DOMAIN queue, queue' = RemoveAt(queue, i), NEW t
  PROVE  Held(queue', t) \in Nat /\ Held(queue, t) \in Nat /\ Held(queue', t) <= Held(queue, t)
<1>1. PICK q \in Seq(Seq(Texts)) : q = queue
  BY MessagesAreSequences
<1>2. PICK j \in 1 .. Len(q) : j = i
  BY <1>1
<1>3. Held(RemoveAt(q, j), t) \in Nat /\ Held(q, t) = Held(RemoveAt(q, j), t) + Occ(q[j], t)
  BY HeldRemove
<1>4. q[j] \in Seq(Texts)
  OBVIOUS
<1>5. Occ(q[j], t) \in Nat
  BY <1>4, OccType
<1>6. PICK m \in Nat, n \in Nat : m = Held(RemoveAt(q, j), t) /\ n = Occ(q[j], t) /\ Held(q, t) = m + n
  BY <1>3, <1>5
<1>7. queue' = RemoveAt(q, j)
  BY <1>1, <1>2
<1> QED
  BY <1>1, <1>6, <1>7

LEMMA CountInvStep ==
  ASSUME QueueAssumption, QueueInv, QueueNext
  PROVE  CountInv'
<1>0. /\ PhaseInv /\ ask \in AskTypes /\ box \in BoxTypes /\ BoxInv /\ ledger \in Seq(Entries)
      /\ admitted \in Seq(Message) /\ composer \in Seq(Texts) /\ queue \in Seq(Message) /\ NothingWaitsInVain
      /\ paused \in BOOLEAN
  BY DEF QueueInv, TurnTypes, AskTypes, Pcs, BoxTypes, Entries, ViewTypes, UiTypes
<1>s. queue \in Seq(Seq(Texts)) /\ admitted \in Seq(Seq(Texts))
  BY <1>0, MessagesAreSequences
<1>c. \A t \in Texts : Sum(t) <= Limit(t) /\ Live(t) <= Limit(t)
  BY CountInvIs DEF QueueInv
<1>n. \A t : /\ Occ(composer, t) \in Nat /\ Held(queue, t) \in Nat
             /\ Occ(ask.input, t) \in Nat /\ Held(admitted, t) \in Nat
             /\ InTurn(t) \in Nat /\ Unsaid(t) \in Nat /\ Said(t) \in Nat
  BY CountTypes DEF QueueInv
<1>m. \A t : /\ Occ(composer', t) \in Nat /\ Held(queue', t) \in Nat
             /\ Occ(ask'.input, t) \in Nat /\ Held(admitted', t) \in Nat
             /\ InTurn(t)' \in Nat /\ Unsaid(t)' \in Nat /\ Said(t)' \in Nat
  <2>1. UiTypes' /\ ViewTypes' /\ TurnTypes'
    BY UiTypesStep, ViewTypesStep, TurnTypesStep
  <2>2. (UiTypes /\ ViewTypes /\ TurnTypes)' =>
       (\A t : /\ Occ(composer, t) \in Nat /\ Held(queue, t) \in Nat
               /\ Occ(ask.input, t) \in Nat /\ Held(admitted, t) \in Nat
               /\ InTurn(t) \in Nat /\ Unsaid(t) \in Nat /\ Said(t) \in Nat)'
    BY CountTypes, PTL
  <2> QED
    BY <2>1, <2>2
<1>e. \A t : Occ(<<>>, t) = 0 /\ Held(<<>>, t) = 0
  BY OccEmpty, HeldEmpty
<1>g. ASSUME \A t \in Texts : Sum(t)' <= Limit(t)' /\ Live(t)' <= Limit(t)'
      PROVE  CountInv'
  BY <1>g DEF CountInv, Sum, Live, Limit, Unsaid, Said
<1>k. \/ Aside \/ Interrupted \/ Restarted \/ Steer \/ SteerTooLate
      \/ Continue \/ Respond \/ Receive \/ Show \/ KeepDone
  BY StepKinds
\* Only the user's side of it changes.
<1>1. ASSUME ask'.input = ask.input, ask'.committed = ask.committed, UNCHANGED <<admitted, ledger>>,
             \A t \in Texts : Occ(composer', t) + Held(queue', t) + Limit(t) <= Occ(composer, t) + Held(queue, t) + Limit(t)'
      PROVE  CountInv'
  <2> SUFFICES ASSUME NEW t \in Texts PROVE Sum(t)' <= Limit(t)' /\ Live(t)' <= Limit(t)'
    BY <1>g
  <2>1. InTurn(t)' = InTurn(t) /\ Unsaid(t)' = Unsaid(t) /\ Said(t)' = Said(t)
    BY <1>1 DEF InTurn, Unsaid, Said
  <2>2. Limit(t) \in Nat /\ Limit(t)' \in Nat
    BY DEF Limit
  <2>3. Sum(t)' = Occ(composer', t) + Held(queue', t) + Unsaid(t) + Said(t)
    BY <2>1 DEF Sum
  <2>4. Sum(t) = Occ(composer, t) + Held(queue, t) + Unsaid(t) + Said(t) /\ Sum(t) <= Limit(t)
    BY <1>c DEF Sum
  <2>5. Occ(composer', t) + Held(queue', t) + Limit(t) <= Occ(composer, t) + Held(queue, t) + Limit(t)'
    BY <1>1
  <2>6. Sum(t)' <= Limit(t)'
    BY <1>n, <1>m, <2>2, <2>3, <2>4, <2>5
  <2>7. Live(t)' = Occ(composer', t) + Held(queue', t) + InTurn(t)
    BY <2>1 DEF Live
  <2>8. Live(t) = Occ(composer, t) + Held(queue, t) + InTurn(t) /\ Live(t) <= Limit(t)
    BY <1>c DEF Live
  <2>9. Live(t)' <= Limit(t)'
    BY <1>n, <1>m, <2>2, <2>5, <2>7, <2>8
  <2> QED
    BY <2>6, <2>9
<1>2. ASSUME ask'.input = ask.input, ask'.committed = ask.committed, UNCHANGED <<admitted, ledger, composer, queue, typed>>
      PROVE  CountInv'
  <2>1. \A t \in Texts : Occ(composer', t) + Held(queue', t) + Limit(t) = Occ(composer, t) + Held(queue, t) + Limit(t)'
    BY <1>2 DEF Limit
  <2>2. \A t \in Texts : Occ(composer, t) + Held(queue, t) + Limit(t) \in Nat
    BY <1>n DEF Limit
  <2> QED
    BY <1>1, <1>2, <2>1, <2>2 DEF Limit
<1>3. ASSUME NEW t0 \in Texts, Type(t0) PROVE CountInv'
  <2>1. /\ UNCHANGED <<ask, admitted, ledger, queue>> /\ t0 \notin typed /\ typed' = typed \cup {t0}
        /\ composer' = Append(composer, t0)
    BY <1>3 DEF Type, view, turn
  <2>2. ASSUME NEW t \in Texts
        PROVE Occ(composer', t) + Held(queue', t) + Limit(t) <= Occ(composer, t) + Held(queue, t) + Limit(t)'
    <3>1. Occ(composer', t) = Occ(composer, t) + (IF t0 = t THEN 1 ELSE 0)
      BY <1>0, <2>1, OccAppend
    <3>2. Limit(t)' = Limit(t) + (IF t0 = t THEN 1 ELSE 0)
      BY <2>1 DEF Limit
    <3>3. Limit(t) \in Nat /\ queue' = queue
      BY <2>1 DEF Limit
    <3> QED
      BY <1>n, <3>1, <3>2, <3>3
  <2> QED
    BY <1>1, <2>1, <2>2
<1>4. ASSUME NEW t0 \in Texts, NEW i \in DOMAIN queue, EditQueued(i, t0) PROVE CountInv'
  <2>1. /\ UNCHANGED <<ask, admitted, ledger, composer>> /\ t0 \notin typed /\ typed' = typed \cup {t0}
        /\ queue' = [queue EXCEPT ![i] = <<t0>>] /\ i \in 1 .. Len(queue)
    BY <1>0, <1>4 DEF EditQueued, view, turn
  <2>2. ASSUME NEW t \in Texts
        PROVE Occ(composer', t) + Held(queue', t) + Limit(t) <= Occ(composer, t) + Held(queue, t) + Limit(t)'
    <3>1. PICK n \in Nat : n = (IF t0 = t THEN 1 ELSE 0) /\ Limit(t)' = Limit(t) + n
      BY <2>1 DEF Limit
    <3>2. PICK k \in Nat : Held(queue', t) + k = Held(queue, t) + n
      BY <1>0, <2>1, <3>1, QueueEdited
    <3>3. Limit(t) \in Nat /\ composer' = composer
      BY <2>1 DEF Limit
    <3>4. Held(queue, t) \in Nat /\ Held(queue', t) \in Nat /\ Occ(composer, t) \in Nat
      BY <1>n, <1>m
    <3>5. Held(queue', t) <= Held(queue, t) + n
      BY <3>2, <3>4
    <3> QED
      BY <3>1, <3>3, <3>4, <3>5
  <2> QED
    BY <1>1, <2>1, <2>2
\* Texts go from the composer or the queue, and nothing comes.
<1>5. ASSUME ask'.input = ask.input, ask'.committed = ask.committed, UNCHANGED <<admitted, ledger, typed>>,
             \A t \in Texts : Occ(composer', t) + Held(queue', t) <= Occ(composer, t) + Held(queue, t)
      PROVE  CountInv'
  <2>1. \A t \in Texts : Limit(t) \in Nat /\ Limit(t)' = Limit(t)
    BY <1>5 DEF Limit
  <2>2. \A t \in Texts : Occ(composer', t) + Held(queue', t) + Limit(t) <= Occ(composer, t) + Held(queue, t) + Limit(t)'
    BY <1>n, <1>m, <1>5, <2>1
  <2> QED
    BY <1>1, <1>5, <2>2
<1>6. ASSUME NEW i \in DOMAIN queue, DropQueued(i) PROVE CountInv'
  <2>1. UNCHANGED <<ask, admitted, ledger, composer, typed>> /\ queue' = RemoveAt(queue, i) /\ i \in 1 .. Len(queue)
    BY <1>0, <1>6 DEF DropQueued, view, turn
  <2>2. ASSUME NEW t \in Texts PROVE Occ(composer', t) + Held(queue', t) <= Occ(composer, t) + Held(queue, t)
    <3>1. Held(queue', t) <= Held(queue, t)
      BY <1>0, <2>1, QueueDropped
    <3> QED
      BY <1>n, <1>m, <2>1, <3>1
  <2> QED
    BY <1>5, <2>1, <2>2
<1>7. CASE ClearQueue \/ SwitchSession
  <2>1. UNCHANGED <<ask, admitted, ledger, composer, typed>> /\ queue' = <<>>
    BY <1>7 DEF ClearQueue, SwitchSession, view, turn
  <2> QED
    BY <1>5, <1>e, <1>n, <2>1
<1>8. CASE QueueWhileBusy
  <2>1. UNCHANGED <<ask, admitted, ledger, typed>> /\ queue' = Append(queue, composer) /\ composer' = <<>>
    BY <1>8 DEF QueueWhileBusy, view, turn
  <2>2. \A t \in Texts : Held(queue', t) = Held(queue, t) + Occ(composer, t)
    BY <1>0, <1>s, <2>1, HeldAppend
  <2> QED
    BY <1>5, <1>e, <1>n, <1>m, <2>1, <2>2
<1>9. CASE SteerTooLate \/ InterruptTurn \/ Deadline \/ Receive \/ Show \/ KeepDone
  <2>1. UNCHANGED <<ask, admitted, ledger, composer, queue, typed>>
    BY <1>9 DEF SteerTooLate, InterruptTurn, Deadline, Receive, Show, KeepDone, ui, view, turn
  <2> QED
    BY <1>2, <2>1
<1>10. CASE Respond
  <2>1. UNCHANGED <<admitted, ledger, composer, queue, typed>> /\ ask'.input = ask.input /\ ask'.committed = ask.committed
    BY <1>0, <1>10 DEF Respond, CallTools, ModelAnswers, ModelFails, AskGoes, ui, view, AskTypes
  <2> QED
    BY <1>2, <2>1
<1>11. CASE Steer
  <2>1. /\ UNCHANGED <<ask, queue, typed, ledger>> /\ box.open
        /\ admitted' = Append(admitted, composer) /\ composer' = <<>>
    BY <1>11 DEF Steer, Accepts
  <2>2. ask.pc \in AtWork
    BY <1>0, <2>1 DEF BoxInv, NoBox
  <2>3. ~ask.committed
    BY <1>0, <2>2 DEF PhaseInv, AtWork, Returned, Outcomes, Errors
  <2> SUFFICES ASSUME NEW t \in Texts PROVE Sum(t)' <= Limit(t)' /\ Live(t)' <= Limit(t)'
    BY <1>g
  <2>4. Held(admitted', t) = Held(admitted, t) + Occ(composer, t)
    BY <1>0, <1>s, <2>1, HeldAppend
  <2>5. Occ(composer', t) = 0 /\ Said(t)' = Said(t) /\ Limit(t)' = Limit(t) /\ queue' = queue
    BY <1>e, <2>1 DEF Said, Limit
  <2>6. InTurn(t)' = InTurn(t) + Occ(composer, t) /\ Unsaid(t) = InTurn(t) /\ Unsaid(t)' = InTurn(t)'
    BY <1>n, <2>1, <2>3, <2>4 DEF InTurn, Unsaid
  <2>7. Sum(t) = Occ(composer, t) + Held(queue, t) + InTurn(t) + Said(t) /\ Sum(t) <= Limit(t)
    BY <1>c, <2>6 DEF Sum
  <2>8. Sum(t)' = 0 + Held(queue, t) + (InTurn(t) + Occ(composer, t)) + Said(t)
    BY <2>5, <2>6 DEF Sum
  <2>9. Limit(t) \in Nat
    BY DEF Limit
  <2>10. Sum(t)' <= Limit(t)'
    BY <1>n, <2>5, <2>6, <2>7, <2>8, <2>9
  <2>11. Live(t)' = 0 + Held(queue, t) + (InTurn(t) + Occ(composer, t))
    BY <2>5, <2>6 DEF Live
  <2>12. Live(t) = Occ(composer, t) + Held(queue, t) + InTurn(t) /\ Live(t) <= Limit(t)
    BY <1>c DEF Live
  <2>13. Live(t)' <= Limit(t)'
    BY <1>n, <2>5, <2>9, <2>11, <2>12
  <2> QED
    BY <2>10, <2>13
\* A turn has ended, and another may start with what is in the queue.
<1>12. ASSUME UNCHANGED <<typed, ledger>>,
              \A t \in Texts : InTurn(t)' + Unsaid(t)' + Occ(composer', t) + Held(queue', t)
                                 <= InTurn(t)' + Unsaid(t) + Occ(composer, t) + Held(queue, t),
              ~ask'.committed
       PROVE  CountInv'
  <2> SUFFICES ASSUME NEW t \in Texts PROVE Sum(t)' <= Limit(t)' /\ Live(t)' <= Limit(t)'
    BY <1>g
  <2>1. Said(t)' = Said(t) /\ Limit(t)' = Limit(t) /\ Limit(t) \in Nat
    BY <1>12 DEF Said, Limit
  <2>2. Unsaid(t)' = InTurn(t)'
    BY <1>12 DEF Unsaid
  <2>3. Sum(t) = Occ(composer, t) + Held(queue, t) + Unsaid(t) + Said(t) /\ Sum(t) <= Limit(t)
    BY <1>c DEF Sum
  <2>4. Sum(t)' = Occ(composer', t) + Held(queue', t) + InTurn(t)' + Said(t)
    BY <2>1, <2>2 DEF Sum
  <2>5. InTurn(t)' + Unsaid(t)' + Occ(composer', t) + Held(queue', t)
          <= InTurn(t)' + Unsaid(t) + Occ(composer, t) + Held(queue, t)
    BY <1>12
  <2>6. Sum(t)' <= Limit(t)
    BY <1>n, <1>m, <2>1, <2>2, <2>3, <2>4, <2>5
  <2>7. Live(t)' <= Sum(t)' /\ Live(t)' \in Nat
    BY <1>n, <1>m, <2>4 DEF Live
  <2>8. Sum(t)' \in Nat
    BY <1>n, <1>m, <2>4
  <2> QED
    BY <1>m, <2>1, <2>6, <2>7, <2>8
<1>13. ASSUME NEW q \in Seq(Message), Restart(q), \A t \in Texts : Held(q, t) <= Held(queue, t), UNCHANGED <<typed, ledger>>,
              \A t \in Texts : Occ(composer', t) <= Occ(composer, t) + Unsaid(t)
       PROVE  CountInv'
  <2>q. \A t : Held(q, t) \in Nat
    BY MessagesAreSequences, HeldType
  <2>1. ~ask'.committed /\ \A t \in Texts : InTurn(t)' + Held(queue', t) <= Held(q, t)
    <3>1. CASE Idle /\ \A t \in Texts : Held(queue', t) <= Held(q, t)
      <4>1. ask'.input = <<>> /\ admitted' = <<>> /\ ~ask'.committed
        BY <3>1 DEF Idle, Clear, NoAsk
      <4>2. \A t : InTurn(t)' = 0
        BY <1>e, <4>1 DEF InTurn
      <4> QED
        BY <1>m, <3>1, <4>1, <4>2
    <3>2. CASE \E input \in Message :
                 StartTurn(input) /\ \A t \in Texts : Occ(input, t) + Held(queue', t) <= Held(q, t)
      <4>1. PICK input \in Message :
                 StartTurn(input) /\ \A t \in Texts : Occ(input, t) + Held(queue', t) <= Held(q, t)
        BY <3>2
      <4>2. ask'.input = input /\ admitted' = <<>> /\ ~ask'.committed
        BY <4>1 DEF StartTurn, NoAsk
      <4>3. \A t : InTurn(t)' = Occ(input, t)
        BY <1>e, <1>m, <4>2 DEF InTurn
      <4> QED
        BY <4>1, <4>2, <4>3
    <3> QED
      BY <1>13, <3>1, <3>2 DEF Restart
  <2>2. ASSUME NEW t \in Texts
        PROVE  InTurn(t)' + Unsaid(t)' + Occ(composer', t) + Held(queue', t)
                 <= InTurn(t)' + Unsaid(t) + Occ(composer, t) + Held(queue, t)
    <3>1. Unsaid(t)' = InTurn(t)'
      BY <2>1 DEF Unsaid
    <3>2. InTurn(t)' + Held(queue', t) <= Held(q, t) /\ Held(q, t) <= Held(queue, t)
      BY <1>13, <2>1
    <3>3. Occ(composer', t) <= Occ(composer, t) + Unsaid(t)
      BY <1>13
    <3>4. /\ InTurn(t)' \in Nat /\ Held(queue', t) \in Nat /\ Held(q, t) \in Nat /\ Held(queue, t) \in Nat
          /\ Occ(composer', t) \in Nat /\ Occ(composer, t) \in Nat /\ Unsaid(t) \in Nat
      BY <1>n, <1>m, <2>q
    <3>5. InTurn(t)' + Held(queue', t) <= Held(queue, t)
      BY <3>2, <3>4
    <3> QED
      BY <3>1, <3>3, <3>4, <3>5
  <2> QED
    BY <1>12, <1>13, <2>1, <2>2
<1>14. CASE ResumeQueue \/ FinishCompaction
  <2>1. Restart(queue) /\ UNCHANGED <<composer, typed, ledger>>
    <3>1. CASE ResumeQueue
      BY <1>0, <3>1, DrainRestarts DEF ResumeQueue
    <3>2. CASE FinishCompaction
      <4>1. DrainQueue(queue, paused) /\ (paused => queue # <<>>)
        BY <1>0, <3>2 DEF FinishCompaction, NothingWaitsInVain
      <4>2. Restart(queue)
        BY <1>0, <4>1, DrainRestarts
      <4> QED
        BY <3>2, <4>2 DEF FinishCompaction
    <3> QED
      BY <1>14, <3>1, <3>2
  <2>2. \A t \in Texts : Occ(composer', t) <= Occ(composer, t) + Unsaid(t) /\ Held(queue, t) <= Held(queue, t)
    BY <1>n, <2>1
  <2> QED
    BY <1>0, <1>13, <2>1, <2>2
<1>15. ASSUME NEW i \in DOMAIN queue, SendNow(i) PROVE CountInv'
  <2>0. i \in 1 .. Len(queue) /\ UNCHANGED <<composer, typed, ledger>>
    BY <1>0, <1>15 DEF SendNow
  <2>1. PICK q \in Seq(Message) : q = <<queue[i]>> \o RemoveAt(queue, i)
    BY <1>0, <2>0, RemoveAndPromote
  <2>2. \A t : Held(q, t) = Held(queue, t)
    BY <1>s, <2>0, <2>1, HeldPromote
  <2>3. CASE mode = "busy" /\ queue' = q /\ UNCHANGED <<mode, view, wire, ask, box>>
    <3>1. UNCHANGED <<ask, admitted>>
      BY <2>3 DEF view
    <3>2. \A t \in Texts : Occ(composer', t) + Held(queue', t) <= Occ(composer, t) + Held(queue, t)
      BY <1>n, <2>0, <2>2, <2>3
    <3> QED
      BY <1>5, <2>0, <3>1, <3>2
  <2>4. CASE DrainQueue(q, FALSE)
    <3>1. Restart(q)
      BY <2>4, DrainRestarts
    <3>2. \A t \in Texts : Occ(composer', t) <= Occ(composer, t) + Unsaid(t) /\ Held(q, t) <= Held(queue, t)
      BY <1>n, <2>0, <2>2
    <3> QED
      BY <1>13, <2>0, <3>1, <3>2
  <2> QED
    BY <1>15, <2>1, <2>3, <2>4 DEF SendNow
<1>16. ASSUME ask' = NoAsk, admitted' = <<>>, UNCHANGED <<queue, typed, ledger>>,
              \A t \in Texts : Occ(composer', t) <= Occ(composer, t) + Unsaid(t)
       PROVE  CountInv'
  <2>1. ask'.input = <<>> /\ ~ask'.committed
    BY <1>16 DEF NoAsk
  <2>2. \A t : InTurn(t)' = 0 /\ Unsaid(t)' = 0
    BY <1>e, <1>16, <2>1 DEF InTurn, Unsaid
  <2>3. ASSUME NEW t \in Texts
        PROVE InTurn(t)' + Unsaid(t)' + Occ(composer', t) + Held(queue', t)
                                 <= InTurn(t)' + Unsaid(t) + Occ(composer, t) + Held(queue, t)
    <3>1. /\ Held(queue', t) = Held(queue, t) /\ Held(queue, t) \in Nat
          /\ Occ(composer', t) \in Nat /\ Occ(composer, t) \in Nat /\ Unsaid(t) \in Nat
      BY <1>n, <1>m, <1>16
    <3>2. Occ(composer', t) <= Occ(composer, t) + Unsaid(t)
      BY <1>16
    <3>3. InTurn(t)' = 0 /\ Unsaid(t)' = 0
      BY <2>2
    <3> QED
      BY <3>1, <3>2, <3>3
  <2> QED
    BY <1>12, <1>16, <2>1, <2>3
<1>17. CASE Compact
  <2>1. ask' = NoAsk /\ admitted' = <<>> /\ UNCHANGED <<queue, typed, ledger, composer>>
    BY <1>17 DEF Compact, StartCompaction, Clear
  <2>2. \A t \in Texts : Occ(composer', t) <= Occ(composer, t) + Unsaid(t)
    BY <1>n, <2>1
  <2> QED
    BY <1>16, <2>1, <2>2
<1>18. CASE SubmitIdle
  <2>1. UNCHANGED <<queue, typed, ledger>> /\ composer' = <<>>
    BY <1>18 DEF SubmitIdle
  <2>2. CASE Idle
    <3>1. ask' = NoAsk /\ admitted' = <<>>
      BY <2>2 DEF Idle, Clear
    <3>2. \A t \in Texts : Occ(composer', t) <= Occ(composer, t) + Unsaid(t)
      BY <1>e, <1>n, <2>1
    <3> QED
      BY <1>16, <2>1, <3>1, <3>2
  <2>3. CASE StartTurn(composer)
    <3>1. ask'.input = composer /\ admitted' = <<>> /\ ~ask'.committed
      BY <2>3 DEF StartTurn, NoAsk
    <3>2. \A t : InTurn(t)' = Occ(composer, t) /\ Unsaid(t)' = InTurn(t)'
      BY <1>e, <1>n, <3>1 DEF InTurn, Unsaid
    <3>3. ASSUME NEW t \in Texts
          PROVE InTurn(t)' + Unsaid(t)' + Occ(composer', t) + Held(queue', t)
                                   <= InTurn(t)' + Unsaid(t) + Occ(composer, t) + Held(queue, t)
      <4>1. Occ(composer', t) = 0 /\ Held(queue', t) = Held(queue, t)
        BY <1>e, <2>1
      <4> QED
        BY <1>n, <1>m, <3>2, <4>1
    <3> QED
      BY <1>12, <2>1, <3>1, <3>3
  <2> QED
    BY <1>18, <2>2, <2>3 DEF SubmitIdle
<1>19. CASE FinishTurn
  <2>1. \A t \in Texts : Occ(composer', t) <= Occ(composer, t) + Unsaid(t)
    <3> SUFFICES ASSUME NEW t \in Texts PROVE Occ(composer', t) <= Occ(composer, t) + Unsaid(t)
      OBVIOUS
    <3>1. CASE BringsBack
      <4>1. PICK r \in Seq(Texts) : r = Restored /\ Occ(r, t) <= Held(admitted, t)
        BY <1>0, RestoredLess
      <4>2. Occ(composer \o r, t) = Occ(composer, t) + Occ(r, t) /\ Occ(r, t) \in Nat
        BY <1>0, OccConcat, OccType
      <4>3. composer' = composer \o r
        BY <1>19, <3>1, <4>1 DEF FinishTurn
      <4>4. ~ask.committed
        BY <1>0, <3>1 DEF BringsBack, PhaseInv
      <4>5. Unsaid(t) = Occ(ask.input, t) + Held(admitted, t)
        BY <4>4 DEF Unsaid, InTurn
      <4> QED
        BY <1>n, <4>1, <4>2, <4>3, <4>5
    <3>2. CASE ~BringsBack
      <4>1. composer' = composer
        BY <1>19, <3>2 DEF FinishTurn
      <4> QED
        BY <1>n, <4>1
    <3> QED
      BY <3>1, <3>2
  <2>2. UNCHANGED <<typed, ledger>>
    BY <1>19 DEF FinishTurn
  <2>3. CASE DrainQueue(queue, paused \/ Pauses)
    <3>1. PICK p \in BOOLEAN : p = (paused \/ Pauses)
      BY <1>0 DEF Pauses
    <3>2. p => queue # <<>>
      BY <1>0, <3>1 DEF Pauses, NothingWaitsInVain
    <3>3. Restart(queue)
      BY <1>0, <2>3, <3>1, <3>2, DrainRestarts
    <3>4. \A t \in Texts : Held(queue, t) <= Held(queue, t)
      BY <1>n
    <3> QED
      BY <1>0, <1>13, <2>1, <2>2, <3>3, <3>4
  <2>4. CASE StartCompaction
    <3>1. ask' = NoAsk /\ admitted' = <<>> /\ UNCHANGED queue
      BY <2>4 DEF StartCompaction, Clear
    <3> QED
      BY <1>16, <2>1, <2>2, <3>1
  <2> QED
    BY <1>19, <2>3, <2>4 DEF FinishTurn
<1>20. CASE Continue
  <2>0. UNCHANGED <<admitted, composer, queue, typed>>
    BY <1>20 DEF Continue, BeginTurn, RefuseTurn, TakeSteers, EmitEvent, DiscardSteering, CloseSteering,
         ReachBoundary, RejectAnswer, Commit, CommitFails, CloseEvents, SendDone, ui, view
  <2>1. CASE ledger' = ledger /\ ask'.committed = ask.committed /\ ask'.input = ask.input
    BY <1>2, <2>0, <2>1
  <2>2. CASE ledger' = Delivered /\ AskAt("committing") /\ ask'.committed /\ ask'.input = ask.input
    <3>1. ~ask.committed /\ mode = "busy"
      BY <1>0, <2>2 DEF AskAt, PhaseInv, Returned, Outcomes, Errors
    <3>2. PICK e \in Entries : e = [input |-> ask.input, steers |-> Steers(box.consumed)]
      <4>1. ask.input \in Message
        BY <1>0, <3>1 DEF PhaseInv, AskTypes, Message
      <4>2. Steers(box.consumed) \in Seq(Message)
        BY ConsumedLess
      <4> QED
        BY <4>1, <4>2 DEF Entries
    <3>3. ledger' = Append(ledger, e)
      BY <2>2, <3>2 DEF Delivered
    <3> SUFFICES ASSUME NEW t \in Texts PROVE Sum(t)' <= Limit(t)' /\ Live(t)' <= Limit(t)'
      BY <1>g
    <3>4. Said(t)' = Said(t) + (Occ(e.input, t) + Held(e.steers, t))
      BY <1>0, <3>3, SaidAppend DEF Said
    <3>5. Occ(e.input, t) = Occ(ask.input, t) /\ Held(e.steers, t) <= Held(admitted, t) /\ Held(e.steers, t) \in Nat
      BY <3>2, ConsumedLess
    <3>6. Unsaid(t)' = 0 /\ Unsaid(t) = Occ(ask.input, t) + Held(admitted, t) /\ InTurn(t)' = InTurn(t)
      BY <2>0, <2>2, <3>1 DEF Unsaid, InTurn
    <3>7. Limit(t)' = Limit(t) /\ Limit(t) \in Nat
      BY <2>0 DEF Limit
    <3>8. Sum(t) = Occ(composer, t) + Held(queue, t) + Unsaid(t) + Said(t) /\ Sum(t) <= Limit(t)
      BY <1>c DEF Sum
    <3>9. Sum(t)' = Occ(composer, t) + Held(queue, t) + 0 + Said(t)'
      BY <2>0, <3>6 DEF Sum
    <3>10. Sum(t)' <= Limit(t)'
      BY <1>n, <1>m, <3>4, <3>5, <3>6, <3>7, <3>8, <3>9
    <3>11. Live(t)' = Live(t)
      BY <2>0, <3>6 DEF Live
    <3> QED
      BY <1>c, <3>7, <3>10, <3>11
  <2>3. ask'.input = ask.input
    BY <1>0, <1>20 DEF Continue, BeginTurn, RefuseTurn, TakeSteers, EmitEvent, DiscardSteering, CloseSteering,
         ReachBoundary, RejectAnswer, Commit, CommitFails, CloseEvents, SendDone, Returns, AskGoes, AskTypes
  <2>4. CASE Commit \/ CommitFails
    <3>0. AskAt("committing") /\ ask.committed = FALSE
      BY <1>0, <2>4 DEF Commit, CommitFails, AskAt, PhaseInv, Returned, Outcomes, Errors, AskTypes
    <3>1. CASE Commit
      <4>1. ledger' = Delivered /\ ask'.committed
        BY <1>0, <3>1 DEF Commit, AskTypes
      <4> QED
        BY <2>2, <2>3, <3>0, <4>1
    <3>2. CASE CommitFails
      <4>1. PICK durable \in BOOLEAN : /\ ledger' = IF durable THEN Delivered ELSE ledger
                                       /\ ask'.committed = durable
        BY <1>0, <3>2 DEF CommitFails, AskTypes
      <4> QED
        BY <2>1, <2>2, <2>3, <3>0, <4>1
    <3> QED
      BY <2>4, <3>1, <3>2
  <2>5. CASE ~(Commit \/ CommitFails)
    <3>1. ledger' = ledger /\ ask'.committed = ask.committed
      BY <1>0, <1>20, <2>5 DEF Continue, BeginTurn, RefuseTurn, TakeSteers, EmitEvent, DiscardSteering, CloseSteering,
         ReachBoundary, RejectAnswer, CloseEvents, SendDone, Returns, AskGoes, AskTypes
    <3> QED
      BY <2>1, <2>3, <3>1
  <2> QED
    BY <2>4, <2>5
<1> QED
  BY <1>3, <1>4, <1>6, <1>7, <1>8, <1>9, <1>10, <1>11, <1>14, <1>15, <1>17, <1>18, <1>19, <1>20
     DEF QueueNext, UserActs, Screen

LEMMA NothingWaitsInVainStep ==
  ASSUME QueueAssumption, QueueInv, QueueNext
  PROVE  NothingWaitsInVain'
<1>0. NothingWaitsInVain /\ queue \in Seq(Message) /\ paused \in BOOLEAN /\ mode \in {"idle", "busy", "compacting"}
  BY DEF QueueInv, UiTypes
<1>1. ASSUME UNCHANGED <<mode, queue, paused>> PROVE NothingWaitsInVain'
  BY <1>0, <1>1 DEF NothingWaitsInVain
<1>2. ASSUME NEW q \in Seq(Message), Restart(q) PROVE NothingWaitsInVain'
  BY <1>2 DEF Restart, NothingWaitsInVain
<1>3. ASSUME NEW t \in Texts, Type(t) PROVE NothingWaitsInVain'
  BY <1>1, <1>3 DEF Type
<1>4. ASSUME NEW t \in Texts, NEW i \in DOMAIN queue, EditQueued(i, t) PROVE NothingWaitsInVain'
  <2>1. queue # <<>> /\ i \in 1 .. Len(queue)
    BY <1>0
  <2>2. queue' = [queue EXCEPT ![i] = <<t>>] /\ UNCHANGED <<mode, paused>>
    BY <1>4 DEF EditQueued
  <2>3. queue' # <<>>
    BY <1>0, <2>1, <2>2
  <2> QED
    BY <1>0, <2>1, <2>2, <2>3 DEF NothingWaitsInVain
<1>5. ASSUME NEW i \in DOMAIN queue, DropQueued(i) PROVE NothingWaitsInVain'
  <2>1. queue # <<>>
    BY <1>0
  <2>2. mode' = mode /\ (paused' <=> paused /\ queue' # <<>>)
    BY <1>5 DEF DropQueued, Unpaused
  <2> QED
    BY <1>0, <2>1, <2>2 DEF NothingWaitsInVain
<1>6. ASSUME NEW i \in DOMAIN queue, SendNow(i) PROVE NothingWaitsInVain'
  <2>1. PICK q \in Seq(Message) : q = <<queue[i]>> \o RemoveAt(queue, i) /\ Len(q) = Len(queue)
    <3>1. i \in 1 .. Len(queue)
      BY <1>0
    <3> QED
      BY <1>0, <3>1, RemoveAndPromote
  <2>2. CASE DrainQueue(q, FALSE)
    BY <1>2, <2>2, DrainRestarts
  <2>3. CASE mode = "busy" /\ paused' = FALSE /\ UNCHANGED mode
    BY <2>3 DEF NothingWaitsInVain
  <2> QED
    BY <1>6, <2>1, <2>2, <2>3 DEF SendNow
<1>7. CASE SubmitIdle
  BY <1>0, <1>7 DEF SubmitIdle, StartTurn, Idle, NothingWaitsInVain
<1>8. CASE QueueWhileBusy
  <2>1. queue' = Append(queue, composer) /\ mode' # "idle"
    BY <1>8 DEF QueueWhileBusy
  <2>2. composer \in Message
    BY <1>8 DEF QueueWhileBusy, QueueInv, UiTypes, Message
  <2>3. queue' # <<>>
    BY <1>0, <2>1, <2>2, AppendProperties
  <2> QED
    BY <2>1, <2>3 DEF NothingWaitsInVain
<1>9. CASE ClearQueue \/ SwitchSession
  BY <1>9 DEF ClearQueue, SwitchSession, NothingWaitsInVain
<1>10. CASE ResumeQueue
  BY <1>0, <1>2, <1>10, DrainRestarts DEF ResumeQueue
<1>11. CASE Compact
  BY <1>0, <1>11 DEF Compact, StartCompaction, NothingWaitsInVain
<1>12. CASE FinishCompaction
  <2>1. DrainQueue(queue, paused) /\ (paused => queue # <<>>)
    BY <1>0, <1>12 DEF FinishCompaction, NothingWaitsInVain
  <2> QED
    BY <1>0, <1>2, <2>1, DrainRestarts
<1>13. CASE FinishTurn
  <2>1. CASE DrainQueue(queue, paused \/ Pauses)
    <3>1. PICK p \in BOOLEAN : p = (paused \/ Pauses)
      BY <1>0 DEF Pauses
    <3>2. p => queue # <<>>
      BY <1>0, <3>1 DEF Pauses, NothingWaitsInVain
    <3> QED
      BY <1>0, <1>2, <2>1, <3>1, <3>2, DrainRestarts
  <2>2. CASE StartCompaction
    BY <1>0, <2>2 DEF StartCompaction, NothingWaitsInVain
  <2> QED
    BY <1>13, <2>1, <2>2 DEF FinishTurn
<1>14. CASE Steer \/ SteerTooLate \/ InterruptTurn \/ Continue \/ Respond \/ Deadline \/ Receive \/ Show \/ KeepDone
  <2>1. UNCHANGED <<mode, queue, paused>>
    BY <1>14 DEF Steer, SteerTooLate, InterruptTurn, Continue, BeginTurn, RefuseTurn, TakeSteers, EmitEvent,
         DiscardSteering, CloseSteering, ReachBoundary, RejectAnswer, Commit, CommitFails, CloseEvents,
         SendDone, Respond, CallTools, ModelAnswers, ModelFails, Deadline, Receive, Show, KeepDone, ui
  <2> QED
    BY <1>1, <2>1
<1> QED
  BY <1>3, <1>4, <1>5, <1>6, <1>7, <1>8, <1>9, <1>10, <1>11, <1>12, <1>13, <1>14
     DEF QueueNext, UserActs, Screen

LEMMA QueueInvStutter == ASSUME QueueInv, UNCHANGED queueVars PROVE QueueInv'
<1>1. UNCHANGED <<mode, queue, paused, composer, typed, admitted, seen, shown, pending, pump,
                  ask, ctx, box, events, closed, done, ledger>>
  BY DEF queueVars, ui, view, wire, turn
<1>2. UiTypes' /\ ViewTypes' /\ WireTypes' /\ TurnTypes' /\ NothingWaitsInVain'
  BY <1>1 DEF QueueInv, UiTypes, ViewTypes, WireTypes, TurnTypes, NothingWaitsInVain
<1>3. PhaseInv'
  BY <1>1 DEF QueueInv, PhaseInv, Settling
<1>4. BoxInv'
  BY <1>1 DEF QueueInv, BoxInv, Admission
<1>5. StreamInv'
  <2>1. Unseen' = Unseen /\ Taken' = Taken /\ (Faithful' <=> Faithful) /\ (Answered' <=> Answered)
    BY <1>1 DEF Unseen, Taken, Faithful, Answered
  <2>2. Faithful => InOrder(Unseen, Taken, Answered, seen, shown)
    BY DEF QueueInv, StreamInv
  <2>3. Faithful' => InOrder(Unseen, Taken, Answered, seen, shown)'
    BY <1>1, <2>1, <2>2 DEF InOrder
  <2> QED
    BY <1>1, <2>1, <2>3 DEF QueueInv, StreamInv
<1>6. CountInv'
  BY <1>1 DEF QueueInv, CountInv, InTurn
<1> QED
  BY <1>2, <1>3, <1>4, <1>5, <1>6 DEF QueueInv

\* However sends, steers, edits, interrupts, deadlines, failures and
\* compactions interleave, the interface, the turn, its mailbox, its channels
\* and the ledger stay with one another as QueueInv says.
THEOREM QueueInvariant == ASSUME QueueAssumption PROVE QueueSpec => []QueueInv
<1>1. QueueInit => QueueInv
  BY QueueInvInit
<1>2. QueueInv /\ [QueueNext]_queueVars => QueueInv'
  <2>1. ASSUME QueueInv, QueueNext PROVE QueueInv'
    BY <2>1, UiTypesStep, ViewTypesStep, WireTypesStep, TurnTypesStep, PhaseInvStep, BoxInvStep,
       StreamInvStep, CountInvStep, NothingWaitsInVainStep DEF QueueInv
  <2> QED
    BY <2>1, QueueInvStutter
<1> QED
  BY <1>1, <1>2, PTL DEF QueueSpec

-----------------------------------------------------------------------------
(* What the invariant gives.                                               *)

LEMMA FewTexts ==
  ASSUME QueueAssumption, NEW m \in Message, \A t \in Texts : Occ(m, t) <= 1
  PROVE  m \in Messages
<1>1. Len(m) <= Cardinality(Texts)
  BY DistinctIsShort DEF QueueAssumption, Message
<1>2. Len(m) \in 1 .. Cardinality(Texts) /\ m \in [1 .. Len(m) -> Texts]
  <2>1. Len(m) \in Nat \ {0} /\ m \in Seq(Texts)
    BY MessagesAreSequences
  <2>2. Cardinality(Texts) \in Nat
    BY FS_CardinalityType DEF QueueAssumption
  <2> QED
    BY <1>1, <2>1, <2>2
<1> QED
  BY <1>2 DEF Messages

LEMMA FewMessages ==
  ASSUME QueueAssumption, NEW q \in Seq(Message), \A t \in Texts : Held(q, t) <= 1
  PROVE  /\ q \in Seq(Messages) /\ Len(q) <= Cardinality(Texts) /\ Cardinality(Texts) \in Nat
         /\ \A i \in 1 .. Len(q) : q[i] \in Messages
<1>1. q \in Seq(Seq(Texts)) /\ \A i \in 1 .. Len(q) : q[i] # <<>>
  BY MessagesAreSequences
<1>2. /\ Len(q) <= Cardinality(Texts)
      /\ \A i \in 1 .. Len(q) : q[i] \in [1 .. Len(q[i]) -> Texts] /\ Len(q[i]) \in 1 .. Cardinality(Texts)
  BY <1>1, MessagesAreFew DEF QueueAssumption
<1>3. \A i \in 1 .. Len(q) : q[i] \in Messages
  BY <1>2 DEF Messages
<1>4. q \in Seq(Messages)
  BY <1>3
<1>5. Cardinality(Texts) \in Nat
  BY FS_CardinalityType DEF QueueAssumption
<1> QED
  BY <1>2, <1>3, <1>4, <1>5

\* What the mailbox holds is what was admitted, or the first of it.
LEMMA BoxLess ==
  ASSUME QueueInv, NEW t
  PROVE  /\ Steers(box.consumed) \in Seq(Message) /\ Steers(box.pending) \in Seq(Message)
         /\ Held(Steers(box.consumed), t) \in Nat /\ Held(Steers(box.pending), t) \in Nat
         /\ Held(Steers(box.consumed), t) + Held(Steers(box.pending), t) <= Held(admitted, t)
<1>c. PICK c \in Seq(Numbered) : c = box.consumed
  BY DEF QueueInv, TurnTypes
<1>p. PICK p \in Seq(Numbered) : p = box.pending
  BY DEF QueueInv, TurnTypes
<1>a. PICK a \in Seq(Message) : a = admitted
  BY DEF QueueInv, ViewTypes
<1>n. Len(c) \in Nat /\ Len(p) \in Nat /\ Len(a) \in Nat
  OBVIOUS
<1>0. Len(p) = IF box.open THEN Len(a) - Len(c) ELSE 0
  BY <1>a, <1>c, <1>p DEF QueueInv, BoxInv
<1>1. PICK x \in Seq(Message) : x = Steers(c) /\ Len(x) = Len(c) /\ \A i \in 1 .. Len(c) : x[i] = c[i].content
  BY SteersType
<1>2. PICK y \in Seq(Message) : y = Steers(p) /\ Len(y) = Len(p) /\ \A i \in 1 .. Len(p) : y[i] = p[i].content
  BY SteersType
<1>3. Held(x, t) \in Nat /\ Held(y, t) \in Nat /\ Held(a, t) \in Nat
  BY MessagesAreSequences, HeldType
<1>4. Held(x, t) <= Held(a, t)
  BY <1>a, <1>c, <1>1, ConsumedLess
<1>5. CASE Len(p) = 0
  <2>1. y = <<>>
    BY <1>2, <1>5
  <2>2. Held(y, t) = 0
    BY <2>1, HeldEmpty
  <2> QED
    BY <1>a, <1>c, <1>p, <1>1, <1>2, <1>3, <1>4, <2>2
<1>6. CASE Len(p) # 0
  <2>1. Len(c) + Len(p) = Len(a)
    BY <1>0, <1>n, <1>6
  <2>2. /\ x \o y \in Seq(Message) /\ Len(x \o y) = Len(x) + Len(y)
        /\ \A i \in 1 .. Len(x) + Len(y) : (x \o y)[i] = IF i <= Len(x) THEN x[i] ELSE y[i - Len(x)]
    BY ConcatProperties
  <2>3. \A i : Admission(i).content = a[i]
    BY <1>a DEF Admission
  <2>4. ASSUME NEW i \in 1 .. Len(a) PROVE (x \o y)[i] = a[i]
    <3>1. CASE i <= Len(c)
      <4>1. c[i] = Admission(i) /\ i \in 1 .. Len(c)
        BY <1>c, <1>n, <3>1 DEF QueueInv, BoxInv
      <4> QED
        BY <1>1, <1>2, <2>1, <2>2, <2>3, <3>1, <4>1
    <3>2. CASE ~(i <= Len(c))
      <4>1. i - Len(c) \in 1 .. Len(p) /\ Len(c) + (i - Len(c)) = i
        BY <1>n, <2>1, <3>2
      <4>2. p[i - Len(c)] = Admission(Len(c) + (i - Len(c)))
        BY <1>c, <1>p, <4>1 DEF QueueInv, BoxInv
      <4>3. (x \o y)[i] = y[i - Len(c)]
        BY <1>1, <1>2, <2>1, <2>2, <3>2
      <4> QED
        BY <1>2, <2>3, <4>1, <4>2, <4>3
    <3> QED
      BY <3>1, <3>2
  <2>5. Len(x \o y) = Len(a)
    BY <1>1, <1>2, <2>1, <2>2
  <2>6. x \o y = a
    BY <2>2, <2>4, <2>5, SeqEqual
  <2>7. Held(x \o y, t) = Held(x, t) + Held(y, t)
    <3>1. x \in Seq(Seq(Texts)) /\ y \in Seq(Seq(Texts))
      BY MessagesAreSequences
    <3> QED
      BY <3>1, HeldConcat
  <2> QED
    BY <1>a, <1>c, <1>p, <1>1, <1>2, <1>3, <2>6, <2>7
<1> QED
  BY <1>5, <1>6

LEMMA SeqWithin ==
  ASSUME NEW S, NEW T, NEW q \in Seq(S), \A i \in 1 .. Len(q) : q[i] \in T
  PROVE  q \in Seq(T)
  OBVIOUS

LEMMA QueueTypes == ASSUME QueueAssumption, QueueInv PROVE QueueTypeOK
<1>t. UiTypes /\ ViewTypes /\ WireTypes /\ TurnTypes
  BY DEF QueueInv
<1>n. \A t : /\ Occ(composer, t) \in Nat /\ Held(queue, t) \in Nat
             /\ Occ(ask.input, t) \in Nat /\ Held(admitted, t) \in Nat
             /\ InTurn(t) \in Nat /\ Unsaid(t) \in Nat /\ Said(t) \in Nat
  BY <1>t, CountTypes
<1>c. ASSUME NEW t \in Texts PROVE Held(queue, t) <= 1 /\ InTurn(t) <= 1 /\ Said(t) <= 1
  <2>1. Sum(t) <= Limit(t) /\ Live(t) <= Limit(t)
    BY CountInvIs DEF QueueInv
  <2>2. Limit(t) \in {0, 1}
    BY DEF Limit
  <2>3. Sum(t) = Occ(composer, t) + Held(queue, t) + Unsaid(t) + Said(t)
    BY DEF Sum
  <2>4. Live(t) = Occ(composer, t) + Held(queue, t) + InTurn(t)
    BY DEF Live
  <2>5. Sum(t) <= 1 /\ Live(t) <= 1
    BY <1>n, <2>1, <2>2, <2>3, <2>4
  <2> QED
    BY <1>n, <2>3, <2>4, <2>5
<1>1. queue \in Seq(Messages)
  BY <1>t, <1>c, FewMessages DEF UiTypes
<1>2. admitted \in Seq(Messages) /\ Len(admitted) <= Cardinality(Texts) /\ Cardinality(Texts) \in Nat
      /\ \A i \in 1 .. Len(admitted) : admitted[i] \in Messages
  <2>1. \A t \in Texts : Held(admitted, t) <= 1
    BY <1>n, <1>c DEF InTurn
  <2> QED
    BY <1>t, <2>1, FewMessages DEF ViewTypes
<1>3. ask.input \in Messages \cup {<<>>}
  <2>1. CASE ask.input = <<>>
    BY <2>1
  <2>2. CASE ask.input # <<>>
    <3>1. ask.input \in Message
      BY <1>t, <2>2 DEF TurnTypes, Message
    <3>2. \A t \in Texts : Occ(ask.input, t) <= 1
      BY <1>n, <1>c DEF InTurn
    <3> QED
      BY <3>1, <3>2, FewTexts
  <2> QED
    BY <2>1, <2>2
<1>4. box.consumed \in Seq(Inputs) /\ box.pending \in Seq(Inputs)
  <2>c. PICK c \in Seq(Numbered) : c = box.consumed
    BY <1>t DEF TurnTypes
  <2>p. PICK p \in Seq(Numbered) : p = box.pending
    BY <1>t DEF TurnTypes
  <2>n. Len(c) \in Nat /\ Len(p) \in Nat /\ Len(admitted) \in Nat
    BY <1>t DEF ViewTypes
  <2>1. Len(c) + Len(p) <= Len(admitted)
    BY <2>c, <2>p DEF QueueInv, BoxInv
  <2>2. \A i \in 1 .. Len(admitted) : Admission(i) \in Inputs
    BY <1>2, <2>n DEF Admission, Inputs
  <2>3. ASSUME NEW i \in 1 .. Len(c) PROVE c[i] \in Inputs
    <3>1. c[i] = Admission(i)
      BY <2>c DEF QueueInv, BoxInv
    <3>2. i \in 1 .. Len(admitted)
      BY <2>n, <2>1
    <3> QED
      BY <2>2, <3>1, <3>2
  <2>4. ASSUME NEW i \in 1 .. Len(p) PROVE p[i] \in Inputs
    <3>1. p[i] = Admission(Len(c) + i)
      BY <2>c, <2>p DEF QueueInv, BoxInv
    <3>2. Len(c) + i \in 1 .. Len(admitted)
      BY <2>n, <2>1
    <3> QED
      BY <2>2, <3>1, <3>2
  <2>5. c \in Seq(Inputs)
    BY <2>3
  <2>6. p \in Seq(Inputs)
    BY <2>4
  <2> QED
    BY <2>c, <2>p, <2>5, <2>6
<1>5. ledger \in Seq([input : Messages, steers : Seq(Messages)])
  <2>1. PICK l \in Seq(Entries) : l = ledger
    BY <1>t DEF TurnTypes, Entries
  <2>2. PICK w \in Seq(Seq(Texts)) : w = Wholes(l) /\ Len(w) = Len(l)
    BY WholesType
  <2>3. ASSUME NEW i \in 1 .. Len(l) PROVE l[i] \in [input : Messages, steers : Seq(Messages)]
    <3>1. PICK e \in Entries : e = l[i]
      OBVIOUS
    <3>2. w[i] = Whole(e)
      BY <2>2, <3>1 DEF Wholes
    <3>3. PICK m \in Message : m = e.input
      BY DEF Entries
    <3>4. PICK s \in Seq(Message) : s = e.steers
      BY DEF Entries
    <3>5. PICK u \in Seq(Texts) : u = FlattenSeq(s)
      BY MessagesAreSequences, FlatType
    <3>6. ASSUME NEW t \in Texts PROVE Occ(m, t) <= 1 /\ Held(s, t) <= 1
      <4>1. Occ(w[i], t) <= Held(w, t)
        BY <2>2, HeldParts
      <4>2. Held(w, t) <= 1
        BY <1>c, <2>1, <2>2 DEF Said
      <4>3. Occ(w[i], t) = Occ(m, t) + Occ(u, t)
        <5>1. w[i] = m \o u
          BY <3>2, <3>3, <3>4, <3>5 DEF Whole, Flat
        <5>2. m \in Seq(Texts)
          BY DEF Message
        <5> QED
          BY <5>1, <5>2, OccConcat
      <4>4. Occ(u, t) = Held(s, t)
        BY <3>5 DEF Held
      <4>5. Occ(m, t) \in Nat /\ Occ(u, t) \in Nat /\ Held(w, t) \in Nat
        BY OccType, HeldType DEF Message
      <4> QED
        BY <4>1, <4>2, <4>3, <4>4, <4>5
    <3>7. m \in Messages
      BY <3>6, FewTexts
    <3>8. s \in Seq(Messages)
      BY <3>6, FewMessages
    <3> QED
      <4>1. e = [input |-> e.input, steers |-> e.steers]
        BY DEF Entries
      <4>2. e.input \in Messages /\ e.steers \in Seq(Messages)
        BY <3>3, <3>4, <3>7, <3>8
      <4> HIDE DEF Messages
      <4>3. [input |-> e.input, steers |-> e.steers] \in [input : Messages, steers : Seq(Messages)]
        BY <4>2
      <4>4. e \in [input : Messages, steers : Seq(Messages)]
        BY <4>1, <4>3, Zenon
      <4> QED
        BY <3>1, <4>4, Zenon
  <2>4. l \in Seq([input : Messages, steers : Seq(Messages)])
    BY <2>3, SeqWithin
  <2> QED
    BY <2>1, <2>4
<1>6. ask \in [pc : {"none", "starting", "boundary", "calling", "failing", "answered", "closed",
                    "committing", "returned", "reporting", "over"},
               input : Messages \cup {<<>>}, outbox : Seq(Nat),
               result : Outcomes \cup {"none"}, committed : BOOLEAN]
  BY <1>t, <1>3 DEF TurnTypes, AtWork, Returned
<1>7. box \in [open : BOOLEAN, pending : Seq(Inputs), consumed : Seq(Inputs)]
  BY <1>t, <1>4 DEF TurnTypes
<1> QED
  BY <1>t, <1>1, <1>2, <1>5, <1>6, <1>7 DEF QueueTypeOK, UiTypes, ViewTypes, WireTypes, TurnTypes

LEMMA OccJoin ==
  ASSUME NEW T, NEW s \in Seq(T), NEW r \in Seq(T), NEW t
  PROVE  Glued(s, r) \in Seq(T) /\ Occ(Glued(s, r), t) = Occ(s, t) + Occ(r, t)
<1>1. s \o r \in Seq(T)
  OBVIOUS
<1>2. Occ(s \o r, t) = Occ(s, t) + Occ(r, t)
  BY OccConcat
<1> QED
  BY <1>1, <1>2 DEF Glued

LEMMA SentOnce == ASSUME QueueInv PROVE NothingIsSentTwice
<1> SUFFICES ASSUME NEW t \in Texts PROVE Occ(Everything, t) <= 1
  BY DEF NothingIsSentTwice, Occ
<1>t. UiTypes /\ ViewTypes /\ TurnTypes
  BY DEF QueueInv
<1>n. /\ Occ(composer, t) \in Nat /\ Held(queue, t) \in Nat
      /\ Occ(ask.input, t) \in Nat /\ Held(admitted, t) \in Nat
      /\ InTurn(t) \in Nat /\ Unsaid(t) \in Nat /\ Said(t) \in Nat
  BY <1>t, CountTypes
<1>s. Occ(composer, t) + Held(queue, t) + Unsaid(t) + Said(t) <= 1
  <2>1. Sum(t) <= Limit(t)
    BY CountInvIs DEF QueueInv
  <2>2. Limit(t) \in {0, 1}
    BY DEF Limit
  <2>3. Sum(t) = Occ(composer, t) + Held(queue, t) + Unsaid(t) + Said(t)
    BY DEF Sum
  <2> QED
    BY <1>n, <2>1, <2>2, <2>3
<1>1. PICK u \in Seq(Texts) : u = composer
  BY <1>t DEF UiTypes
<1>2. PICK q \in Seq(Texts) : q = Flat(queue) /\ Occ(q, t) = Held(queue, t)
  BY <1>t, MessagesAreSequences, FlatType DEF UiTypes, Flat, Held
<1>3. PICK x \in Seq(Texts) : x = Flat(Steers(box.consumed)) /\ Occ(x, t) = Held(Steers(box.consumed), t)
  BY BoxLess, MessagesAreSequences, FlatType DEF Flat, Held
<1>4. PICK y \in Seq(Texts) : y = Flat(Steers(box.pending)) /\ Occ(y, t) = Held(Steers(box.pending), t)
  BY BoxLess, MessagesAreSequences, FlatType DEF Flat, Held
<1>5. PICK i \in Seq(Texts) : i = ask.input
  BY <1>t DEF TurnTypes
<1>6. PICK z \in Seq(Texts) : z = Glued(i, x) /\ Occ(z, t) = Occ(i, t) + Occ(x, t)
  <2>1. Glued(i, x) \in Seq(Texts) /\ Occ(Glued(i, x), t) = Occ(i, t) + Occ(x, t)
    BY OccJoin
  <2> QED
    BY <2>1
<1>7. PICK d \in Seq(Texts) : /\ d = IF ask.committed THEN <<>> ELSE z
                              /\ Occ(d, t) = IF ask.committed THEN 0 ELSE Occ(z, t)
  <2>1. CASE ask.committed
    <3>1. PICK e \in Seq(Texts) : e = <<>> /\ Occ(e, t) = 0
      BY EmptySeq, OccEmpty
    <3> QED
      BY <2>1, <3>1
  <2>2. CASE ~ask.committed
    BY <2>2
  <2> QED
    BY <2>1, <2>2
<1>8. PICK l \in Seq(Texts) : l = Flat(Wholes(ledger)) /\ Occ(l, t) = Said(t)
  <2>1. Wholes(ledger) \in Seq(Seq(Texts))
    BY <1>t, WholesType DEF TurnTypes, Entries
  <2> QED
    BY <2>1, FlatType DEF Flat, Held, Said
<1>10. PICK f \in Seq(Texts) : f = Glued(u, q) /\ Occ(f, t) = Occ(u, t) + Occ(q, t)
  <2>1. Glued(u, q) \in Seq(Texts) /\ Occ(Glued(u, q), t) = Occ(u, t) + Occ(q, t)
    BY OccJoin
  <2> QED
    BY <2>1
<1>11. PICK g \in Seq(Texts) : g = Glued(f, d) /\ Occ(g, t) = Occ(f, t) + Occ(d, t)
  <2>1. Glued(f, d) \in Seq(Texts) /\ Occ(Glued(f, d), t) = Occ(f, t) + Occ(d, t)
    BY OccJoin
  <2> QED
    BY <2>1
<1>12. PICK h \in Seq(Texts) : h = Glued(g, y) /\ Occ(h, t) = Occ(g, t) + Occ(y, t)
  <2>1. Glued(g, y) \in Seq(Texts) /\ Occ(Glued(g, y), t) = Occ(g, t) + Occ(y, t)
    BY OccJoin
  <2> QED
    BY <2>1
<1>9. Everything = Glued(h, l)
  <2>1. Everything = u \o q \o (IF ask.committed THEN <<>> ELSE i \o x) \o y \o l
    BY <1>1, <1>2, <1>3, <1>4, <1>5, <1>8 DEF Everything, Wholes, Whole
  <2>2. d = IF ask.committed THEN <<>> ELSE i \o x
    BY <1>6, <1>7 DEF Glued
  <2>3. h = u \o q \o d \o y
    BY <1>10, <1>11, <1>12 DEF Glued
  <2> QED
    BY <2>1, <2>2, <2>3 DEF Glued
<1>13. Occ(Glued(h, l), t) = Occ(h, t) + Occ(l, t)
  BY OccJoin
<1>14. Occ(Everything, t) = Occ(composer, t) + Held(queue, t) + Occ(d, t) + Held(Steers(box.pending), t) + Said(t)
  BY <1>1, <1>2, <1>4, <1>8, <1>9, <1>10, <1>11, <1>12, <1>13
<1>15. Occ(d, t) \in Nat /\ Held(Steers(box.pending), t) \in Nat
  BY BoxLess, OccType
<1>16. Occ(d, t) + Held(Steers(box.pending), t) <= Unsaid(t)
  <2>1. CASE ask.committed
    <3>1. ask.pc \notin AtWork
      BY <2>1 DEF QueueInv, PhaseInv, AtWork, Returned, Outcomes, Errors
    <3>2. box.pending = <<>>
      BY <3>1 DEF QueueInv, BoxInv, NoBox
    <3>3. Steers(box.pending) = <<>>
      BY <3>2 DEF Steers
    <3>4. Held(Steers(box.pending), t) = 0
      BY <3>3, HeldEmpty
    <3> QED
      BY <1>7, <2>1, <3>4 DEF Unsaid
  <2>2. CASE ~ask.committed
    <3>1. Occ(d, t) = Occ(ask.input, t) + Held(Steers(box.consumed), t)
      BY <1>3, <1>5, <1>6, <1>7, <2>2
    <3>2. /\ Held(Steers(box.consumed), t) \in Nat /\ Held(Steers(box.pending), t) \in Nat
          /\ Held(Steers(box.consumed), t) + Held(Steers(box.pending), t) <= Held(admitted, t)
      BY BoxLess
    <3>k. Held(admitted, t) \in Nat /\ Occ(ask.input, t) \in Nat
      BY <1>n
    <3>3. Unsaid(t) = Occ(ask.input, t) + Held(admitted, t)
      BY <2>2 DEF Unsaid, InTurn
    <3>4. PICK k \in Nat, j \in Nat, m \in Nat, n \in Nat :
            /\ k = Held(Steers(box.consumed), t) /\ j = Held(Steers(box.pending), t)
            /\ m = Held(admitted, t) /\ n = Occ(ask.input, t)
      BY <3>2, <3>k
    <3>5. k + j <= m
      BY <3>2, <3>4
    <3>6. (n + k) + j <= n + m
      BY <3>5
    <3> QED
      BY <3>1, <3>3, <3>4, <3>6
  <2> QED
    BY <2>1, <2>2
<1>17. PICK a \in Nat, b \in Nat, k \in Nat, j \in Nat, m \in Nat, n \in Nat :
         /\ a = Occ(composer, t) /\ b = Held(queue, t) /\ k = Occ(d, t) /\ j = Held(Steers(box.pending), t)
         /\ m = Said(t) /\ n = Unsaid(t)
  BY <1>n, <1>15
<1>18. a + b + n + m <= 1 /\ k + j <= n
  BY <1>s, <1>16, <1>17
<1>19. a + b + k + j + m <= 1
  BY <1>18
<1> QED
  BY <1>14, <1>17, <1>19

LEMMA SuccessShown == ASSUME QueueInv PROVE SuccessIsWhatWasShown
<1> SUFFICES ASSUME Settling, pending = "ok"
             PROVE  /\ ledger # <<>> /\ shown
                    /\ Last(ledger).input = ask.input
                    /\ LET steers == Last(ledger).steers
                       IN  seen = DOMAIN steers /\ steers = SubSeq(admitted, 1, Len(steers))
  BY DEF SuccessIsWhatWasShown
<1>1. ask.result = "ok" /\ ask.pc = "over"
  BY DEF QueueInv, PhaseInv
<1>2. ask.outbox = <<>> /\ events = <<>> /\ pump.at = "done"
  BY <1>1 DEF QueueInv, PhaseInv, Settling
<1>3. Len(Unseen) = 0
  <2>1. Len(OnScreen) = 0 /\ Len(Unseen) = Len(OnScreen) + Len(events) + Len(ask.outbox)
    BY <1>2, OnScreenType
  <2>2. Len(events) = 0 /\ Len(ask.outbox) = 0
    BY <1>2, NothingYet
  <2> QED
    BY <2>1, <2>2
<1>4. Sealed /\ InOrder(Unseen, Taken, Answered, seen, shown)
  BY <1>1 DEF QueueInv, StreamInv, Sealed, Faithful
<1>5. Answered /\ Taken = Len(Last(ledger).steers) /\ Taken \in Nat
  BY <1>1, TakenType DEF Answered, Taken
<1>6. shown /\ seen = {i \in 1 .. Taken : i <= Taken + 1}
  BY <1>3, <1>4, <1>5 DEF InOrder
<1>7. seen = 1 .. Taken
  BY <1>5, <1>6
<1>8. PICK s \in Seq(Message) : s = Last(ledger).steers
  <2>1. ledger \in Seq(Entries) /\ ledger # <<>>
    BY <1>4 DEF QueueInv, TurnTypes, Entries, Sealed
  <2>2. Last(ledger) = ledger[Len(ledger)] /\ Len(ledger) \in 1 .. Len(ledger)
    BY <2>1 DEF Last
  <2>3. Last(ledger) \in Entries
    BY <2>1, <2>2
  <2> QED
    BY <2>3 DEF Entries
<1>9. seen = DOMAIN s
  BY <1>5, <1>7, <1>8
<1> QED
  BY <1>4, <1>6, <1>8, <1>9 DEF Sealed

\* Nothing the user typed is sent twice, a turn that succeeds has shown exactly
\* the steers it recorded, in their order, and a queue does not wait for
\* nothing: whatever is interrupted, restored, promoted, put back or dropped.
THEOREM TextsAccounted == ASSUME QueueAssumption PROVE QueueSpec => []TextsAreAccounted
<1>1. QueueSpec => []QueueInv
  BY QueueInvariant
<1>2. QueueInv => TextsAreAccounted
  BY QueueTypes, SentOnce, SuccessShown DEF TextsAreAccounted, QueueInv
<1> QED
  BY <1>1, <1>2, PTL

\* The place of a text, by how often it is typed, in the ledger, in the composer, in the
\* queue, in the input of the turn and in its steers.
Place(l, s, c, q, i, a) ==
  IF l = 0 THEN "new"
  ELSE IF s # 0 THEN "delivered"
  ELSE IF c # 0 THEN "draft"
  ELSE IF q # 0 THEN "waiting"
  ELSE IF i # 0 THEN "running"
  ELSE IF a # 0 THEN "steering"
  ELSE "gone"
PlaceOf(t) == Place(Limit(t), Said(t), Occ(composer, t), Held(queue, t), Occ(ask.input, t), Held(admitted, t))

\* What a text's counts may be.
Counts(l, s, c, q, i, a) ==
  /\ l \in {0, 1} /\ s \in Nat /\ c \in Nat /\ q \in Nat /\ i \in Nat /\ a \in Nat
  /\ c + q + s <= l /\ c + q + i + a <= l
CountsOf(t) == Counts(Limit(t), Said(t), Occ(composer, t), Held(queue, t), Occ(ask.input, t), Held(admitted, t))

LEMMA Counting ==
  ASSUME QueueInv, NEW t \in Texts
  PROVE  CountsOf(t) /\ (~ask.committed => Said(t) + Occ(ask.input, t) + Held(admitted, t) <= Limit(t))
<1>1. /\ Occ(composer, t) \in Nat /\ Held(queue, t) \in Nat
      /\ Occ(ask.input, t) \in Nat /\ Held(admitted, t) \in Nat
      /\ InTurn(t) \in Nat /\ Unsaid(t) \in Nat /\ Said(t) \in Nat
  BY CountTypes DEF QueueInv
<1>2. Sum(t) <= Limit(t) /\ Live(t) <= Limit(t)
  BY CountInvIs DEF QueueInv
<1>3. Limit(t) \in {0, 1}
  BY DEF Limit
<1>4. /\ Sum(t) = Occ(composer, t) + Held(queue, t) + Unsaid(t) + Said(t)
      /\ Live(t) = Occ(composer, t) + Held(queue, t) + InTurn(t)
      /\ InTurn(t) = Occ(ask.input, t) + Held(admitted, t)
  BY DEF Sum, Live, InTurn
<1>5. Occ(composer, t) + Held(queue, t) + Said(t) <= Limit(t)
  BY <1>1, <1>2, <1>3, <1>4
<1>6. Occ(composer, t) + Held(queue, t) + Occ(ask.input, t) + Held(admitted, t) <= Limit(t)
  BY <1>1, <1>2, <1>3, <1>4
<1>7. ASSUME ~ask.committed PROVE Said(t) + Occ(ask.input, t) + Held(admitted, t) <= Limit(t)
  <2>1. Unsaid(t) = InTurn(t)
    BY <1>7 DEF Unsaid
  <2> QED
    BY <1>1, <1>2, <1>3, <1>4, <2>1
<1> QED
  BY <1>1, <1>3, <1>5, <1>6, <1>7 DEF CountsOf, Counts

LEMMA FateIsPlace == ASSUME QueueInv, NEW t \in Texts PROVE Fate(t) = PlaceOf(t)
<1>0. UiTypes /\ ViewTypes /\ TurnTypes
  BY DEF QueueInv
<1>1. t \in ToSet(composer) <=> Occ(composer, t) # 0
  BY <1>0, OccType DEF UiTypes
<1>2. t \in ToSet(Flat(queue)) <=> Held(queue, t) # 0
  BY <1>0, MessagesAreSequences, FlatType, OccType DEF UiTypes, Flat, Held
<1>3. t \in ToSet(ask.input) <=> Occ(ask.input, t) # 0
  BY <1>0, OccType DEF TurnTypes
<1>4. t \in ToSet(Flat(admitted)) <=> Held(admitted, t) # 0
  BY <1>0, MessagesAreSequences, FlatType, OccType DEF ViewTypes, Flat, Held
<1>5. InLedger(t) <=> Said(t) # 0
  <2>1. PICK w \in Seq(Seq(Texts)) : w = Wholes(ledger) /\ Len(w) = Len(ledger)
    BY <1>0, WholesType DEF TurnTypes, Entries
  <2>2. Held(w, t) # 0 <=> \E i \in 1 .. Len(w) : Occ(w[i], t) # 0
    BY HeldIn
  <2>3. ASSUME NEW i \in 1 .. Len(w) PROVE t \in ToSet(w[i]) <=> Occ(w[i], t) # 0
    <3>1. PICK m \in Seq(Texts) : m = w[i]
      OBVIOUS
    <3> QED
      BY <3>1, OccType
  <2>4. DOMAIN ledger = 1 .. Len(w)
    BY <1>0, <2>1 DEF TurnTypes
  <2>5. \A i \in 1 .. Len(w) : w[i] = ledger[i].input \o Flat(ledger[i].steers)
    BY <2>1, <2>4 DEF Wholes, Whole
  <2>6. InLedger(t) <=> \E i \in 1 .. Len(w) : t \in ToSet(w[i])
    BY <2>4, <2>5 DEF InLedger
  <2> QED
    BY <2>1, <2>2, <2>3, <2>6 DEF Said
<1>6. t \in typed <=> Limit(t) # 0
  BY DEF Limit
<1> QED
  BY <1>1, <1>2, <1>3, <1>4, <1>5, <1>6 DEF Fate, PlaceOf, Place

-----------------------------------------------------------------------------
(* The places of the texts: the interface implements Delivery.             *)

\* What the steps do to the places of texts.
Same(t) == PlaceOf(t)' = PlaceOf(t)
Goes(t, from, to) == PlaceOf(t) = from /\ PlaceOf(t)' \in to
\* The user types, edits, drops, queues and steers.
Quiet ==
  \A t \in Texts :
    \/ Same(t)
    \/ Goes(t, "new", {"draft", "waiting"})
    \/ Goes(t, "draft", {"waiting", "steering"})
    \/ Goes(t, "waiting", {"gone"})
\* No turn ran, and one may have started.
Starts ==
  \A t \in Texts :
    /\ PlaceOf(t) \notin {"running", "steering"}
    /\ \/ Same(t)
       \/ Goes(t, "draft", {"running", "gone"})
       \/ Goes(t, "waiting", {"running", "gone"})
\* The turn goes to the ledger.
Delivers ==
  /\ \E t \in Texts : PlaceOf(t) = "running"
  /\ \A t \in Texts :
       \/ PlaceOf(t) # "running" /\ Same(t)
       \/ Goes(t, "running", {"delivered"})
       \/ Goes(t, "steering", {"delivered"})
\* The turn is over, and the next may have started.
Ends ==
  \A t \in Texts :
    \/ PlaceOf(t) \notin {"running", "steering"} /\ Same(t)
    \/ Goes(t, "running", {"gone"})
    \/ Goes(t, "steering", {"draft", "gone"})
    \/ Goes(t, "waiting", {"running", "gone"})

LEMMA PlaceIsFate == \A l, s, c, q, i, a : Place(l, s, c, q, i, a) \in Promise!Fates
  BY DEF Place, Promise!Fates

LEMMA StepsKeepPromise ==
  ASSUME \A t \in Texts : Fate(t) = PlaceOf(t) /\ Fate(t)' = PlaceOf(t)',
         Quiet \/ Starts \/ Delivers \/ Ends
  PROVE  Promise!Next
<1> DEFINE f == [t \in Texts |-> Fate(t)]
           g == [t \in Texts |-> Fate(t)']
<1>1. \A t \in Texts : PlaceOf(t) \in Promise!Fates /\ PlaceOf(t)' \in Promise!Fates
  BY PlaceIsFate DEF PlaceOf
<1>2. \A t \in Texts : f[t] = PlaceOf(t) /\ g[t] = PlaceOf(t)'
  OBVIOUS
<1>3. g \in [Texts -> Promise!Fates]
  BY <1>1
<1>4. \A t \in Texts : g[t] = f[t] \/ <<f[t], g[t]>> \in Promise!Moves
  <2> SUFFICES ASSUME NEW t \in Texts PROVE PlaceOf(t)' = PlaceOf(t) \/ <<PlaceOf(t), PlaceOf(t)'>> \in Promise!Moves
    BY <1>2
  <2> QED
    BY DEF Quiet, Starts, Delivers, Ends, Same, Goes, Promise!Moves
<1> DEFINE M(from, to) == {t \in Texts : f[t] = from /\ g[t] = to}
           P(place) == {t \in Texts : f[t] = place}
<1>5. \A from, to : M(from, to) = {t \in Texts : PlaceOf(t) = from /\ PlaceOf(t)' = to}
  BY <1>2
<1>6. \A place : P(place) = {t \in Texts : PlaceOf(t) = place}
  BY <1>2
<1>7. Promise!Next <=>
        /\ g \in [Texts -> Promise!Fates]
        /\ \A t \in Texts : g[t] = f[t] \/ <<f[t], g[t]>> \in Promise!Moves
        /\ M("steering", "delivered") # {} => M("running", "delivered") # {}
        /\ M("running", "delivered") \in {{}, P("running")}
        /\ M("draft", "gone") # {} => P("running") = {}
        /\ M("draft", "running") \cup M("waiting", "running") # {} =>
             /\ \A t \in P("running") : g[t] = "gone"
             /\ \A t \in P("steering") : g[t] \in {"draft", "gone"}
  BY DEF Promise!Next, Promise!Moved, Promise!At
<1> HIDE DEF f, g, M, P
<1>8. CASE Quiet
  <2>1. M("steering", "delivered") = {} /\ M("running", "delivered") = {}
    BY <1>5, <1>8 DEF Quiet, Same, Goes
  <2>2. M("draft", "gone") = {} /\ M("draft", "running") = {} /\ M("waiting", "running") = {}
    BY <1>5, <1>8 DEF Quiet, Same, Goes
  <2> QED
    BY <1>3, <1>4, <1>7, <2>1, <2>2
<1>9. CASE Starts
  <2>1. P("running") = {} /\ P("steering") = {}
    BY <1>6, <1>9 DEF Starts
  <2>2. M("steering", "delivered") = {} /\ M("running", "delivered") = {}
    BY <1>5, <1>9 DEF Starts
  <2> QED
    BY <1>3, <1>4, <1>7, <2>1, <2>2
<1>10. CASE Delivers
  <2>1. M("running", "delivered") = P("running") /\ P("running") # {}
    BY <1>5, <1>6, <1>10 DEF Delivers, Goes
  <2>2. M("draft", "gone") = {} /\ M("draft", "running") = {} /\ M("waiting", "running") = {}
    BY <1>5, <1>10 DEF Delivers, Same, Goes
  <2> QED
    BY <1>3, <1>4, <1>7, <2>1, <2>2
<1>11. CASE Ends
  <2>1. M("steering", "delivered") = {} /\ M("running", "delivered") = {} /\ M("draft", "gone") = {}
    BY <1>5, <1>11 DEF Ends, Same, Goes
  <2>2. \A t \in P("running") : g[t] = "gone"
    BY <1>2, <1>6, <1>11 DEF Ends, Goes
  <2>3. \A t \in P("steering") : g[t] \in {"draft", "gone"}
    BY <1>2, <1>6, <1>11 DEF Ends, Goes
  <2> QED
    BY <1>3, <1>4, <1>7, <2>1, <2>2, <2>3
<1> QED
  BY <1>8, <1>9, <1>10, <1>11

\* What a change of the counts does to a text's place.
LEMMA Untyped ==
  ASSUME NEW s, NEW c, NEW q, NEW i, NEW a, Counts(0, s, c, q, i, a)
  PROVE  s = 0 /\ c = 0 /\ q = 0 /\ i = 0 /\ a = 0
  BY DEF Counts
LEMMA Fewer ==
  ASSUME NEW l, NEW s, NEW c, NEW q, NEW i, NEW a, Counts(l, s, c, q, i, a), NEW q1 \in Nat, q1 <= q
  PROVE  \/ Place(l, s, c, q1, i, a) = Place(l, s, c, q, i, a)
         \/ Place(l, s, c, q, i, a) = "waiting" /\ Place(l, s, c, q1, i, a) \in {"gone"}
  BY DEF Counts, Place
LEMMA Waits ==
  ASSUME NEW l, NEW s, NEW c, NEW q, NEW i, NEW a, Counts(l, s, c, q, i, a)
  PROVE  \/ Place(l, s, 0, q + c, i, a) = Place(l, s, c, q, i, a)
         \/ Place(l, s, c, q, i, a) = "draft" /\ Place(l, s, 0, q + c, i, a) \in {"waiting", "steering"}
  BY DEF Counts, Place
LEMMA Joined ==
  ASSUME NEW l, NEW s, NEW c, NEW q, NEW i, NEW a, Counts(l, s, c, q, i, a)
  PROVE  \/ Place(l, s, 0, q, i, a + c) = Place(l, s, c, q, i, a)
         \/ Place(l, s, c, q, i, a) = "draft" /\ Place(l, s, 0, q, i, a + c) \in {"waiting", "steering"}
  BY DEF Counts, Place
LEMMA Submitted ==
  ASSUME NEW l, NEW s, NEW c, NEW q, Counts(l, s, c, q, 0, 0), NEW i1 \in Nat, i1 <= c
  PROVE  /\ Place(l, s, c, q, 0, 0) \notin {"running", "steering"}
         /\ \/ Place(l, s, 0, q, i1, 0) = Place(l, s, c, q, 0, 0)
            \/ Place(l, s, c, q, 0, 0) = "draft" /\ Place(l, s, 0, q, i1, 0) \in {"running", "gone"}
            \/ Place(l, s, c, q, 0, 0) = "waiting" /\ Place(l, s, 0, q, i1, 0) \in {"running", "gone"}
  BY DEF Counts, Place
LEMMA Begun ==
  ASSUME NEW l, NEW s, NEW c, NEW q, Counts(l, s, c, q, 0, 0), NEW q1 \in Nat, NEW i1 \in Nat, i1 + q1 <= q
  PROVE  /\ Place(l, s, c, q, 0, 0) \notin {"running", "steering"}
         /\ \/ Place(l, s, c, q1, i1, 0) = Place(l, s, c, q, 0, 0)
            \/ Place(l, s, c, q, 0, 0) = "draft" /\ Place(l, s, c, q1, i1, 0) \in {"running", "gone"}
            \/ Place(l, s, c, q, 0, 0) = "waiting" /\ Place(l, s, c, q1, i1, 0) \in {"running", "gone"}
  BY DEF Counts, Place
LEMMA Finished ==
  ASSUME NEW l, NEW s, NEW c, NEW q, NEW i, NEW a, Counts(l, s, c, q, i, a),
         NEW c1 \in Nat, c <= c1, c1 <= c + a, NEW q1 \in Nat, NEW i1 \in Nat, i1 + q1 <= q
  PROVE  \/ Place(l, s, c, q, i, a) \notin {"running", "steering"}
              /\ Place(l, s, c1, q1, i1, 0) = Place(l, s, c, q, i, a)
         \/ Place(l, s, c, q, i, a) = "running" /\ Place(l, s, c1, q1, i1, 0) \in {"gone"}
         \/ Place(l, s, c, q, i, a) = "steering" /\ Place(l, s, c1, q1, i1, 0) \in {"draft", "gone"}
         \/ Place(l, s, c, q, i, a) = "waiting" /\ Place(l, s, c1, q1, i1, 0) \in {"running", "gone"}
  BY DEF Counts, Place
LEMMA Committed ==
  ASSUME NEW l, NEW s, NEW c, NEW q, NEW i, NEW a, Counts(l, s, c, q, i, a), s + i + a <= l,
         NEW k \in Nat, k <= a
  PROVE  \/ Place(l, s, c, q, i, a) # "running" /\ Place(l, s + (i + k), c, q, i, a) = Place(l, s, c, q, i, a)
         \/ Place(l, s, c, q, i, a) = "running" /\ Place(l, s + (i + k), c, q, i, a) \in {"delivered"}
         \/ Place(l, s, c, q, i, a) = "steering" /\ Place(l, s + (i + k), c, q, i, a) \in {"delivered"}
  BY DEF Counts, Place

-----------------------------------------------------------------------------
(* One step moves the texts as Delivery does.                              *)

LEMMA Unmoved ==
  ASSUME UNCHANGED <<typed, ledger, composer, queue, admitted>>, ask'.input = ask.input
  PROVE  Quiet
  BY DEF Quiet, Same, PlaceOf, Limit, Said

\* The same texts, and other counts of them.
LEMMA PlaceNext ==
  ASSUME NEW t
  PROVE  /\ typed' = typed => Limit(t)' = Limit(t)
         /\ ledger' = ledger => Said(t)' = Said(t)
         /\ PlaceOf(t)' = Place(Limit(t)', Said(t)', Occ(composer', t), Held(queue', t), Occ(ask'.input, t), Held(admitted', t))
  BY DEF Limit, Said, PlaceOf

\* The user's side of it.
LEMMA UserIsQuiet ==
  ASSUME QueueAssumption, QueueInv, QueueInv',
         \/ \E t \in Texts : Type(t) \/ \E i \in DOMAIN queue : EditQueued(i, t)
         \/ \E i \in DOMAIN queue : DropQueued(i)
         \/ QueueWhileBusy \/ Steer \/ ClearQueue \/ SwitchSession
  PROVE  Quiet
<1>0. /\ composer \in Seq(Texts) /\ queue \in Seq(Message) /\ admitted \in Seq(Message)
      /\ queue \in Seq(Seq(Texts)) /\ admitted \in Seq(Seq(Texts))
  BY MessagesAreSequences DEF QueueInv, UiTypes, ViewTypes
<1>c. \A t \in Texts : CountsOf(t)
  BY Counting
<1>n. ASSUME NEW t \in Texts
      PROVE  /\ Occ(composer, t) \in Nat /\ Held(queue, t) \in Nat /\ Held(queue', t) \in Nat
             /\ Occ(ask.input, t) \in Nat /\ Held(admitted, t) \in Nat /\ Said(t) \in Nat
  <2>1. Held(queue', t) \in Nat
    <3>1. queue' \in Seq(Seq(Texts))
      BY MessagesAreSequences DEF QueueInv, UiTypes
    <3> QED
      BY <3>1, HeldType
  <2> QED
    BY <1>c, <2>1 DEF CountsOf, Counts
<1>e. \A t : Occ(<<>>, t) = 0 /\ Held(<<>>, t) = 0
  BY OccEmpty, HeldEmpty
\* The queue gets shorter.
<1>1. ASSUME UNCHANGED <<typed, ledger, composer, admitted, ask>>, \A t \in Texts : Held(queue', t) <= Held(queue, t)
      PROVE  Quiet
  <2> SUFFICES ASSUME NEW t \in Texts PROVE Same(t) \/ Goes(t, "waiting", {"gone"})
    BY DEF Quiet
  <2>1. PlaceOf(t)' = Place(Limit(t), Said(t), Occ(composer, t), Held(queue', t), Occ(ask.input, t), Held(admitted, t))
    BY <1>1, PlaceNext
  <2>2. PICK q1 \in Nat : q1 = Held(queue', t) /\ q1 <= Held(queue, t)
    BY <1>1, <1>n
  <2> QED
    BY <1>c, <2>1, <2>2, Fewer DEF CountsOf, PlaceOf, Same, Goes
<1>2. ASSUME NEW t0 \in Texts, Type(t0) PROVE Quiet
  <2>1. /\ UNCHANGED <<ask, admitted, ledger, queue>> /\ t0 \notin typed /\ typed' = typed \cup {t0}
        /\ composer' = Append(composer, t0)
    BY <1>2 DEF Type, view, turn
  <2> SUFFICES ASSUME NEW t \in Texts PROVE Same(t) \/ Goes(t, "new", {"draft", "waiting"})
    BY DEF Quiet
  <2>2. Occ(composer', t) = Occ(composer, t) + (IF t0 = t THEN 1 ELSE 0)
    BY <1>0, <2>1, OccAppend
  <2>3. Limit(t)' = IF t0 = t THEN 1 ELSE Limit(t)
    BY <2>1 DEF Limit
  <2>4. PlaceOf(t)' = Place(Limit(t)', Said(t), Occ(composer', t), Held(queue, t), Occ(ask.input, t), Held(admitted, t))
    BY <2>1, PlaceNext
  <2>5. CASE t0 # t
    <3>1. Occ(composer', t) = Occ(composer, t) /\ Limit(t)' = Limit(t)
      BY <1>n, <2>2, <2>3, <2>5
    <3> QED
      BY <2>4, <3>1 DEF PlaceOf, Same
  <2>6. CASE t0 = t
    <3>1. Limit(t) = 0 /\ Limit(t)' = 1
      BY <2>1, <2>3, <2>6 DEF Limit
    <3>2. Said(t) = 0 /\ Occ(composer, t) = 0
      BY <1>c, <3>1, Untyped DEF CountsOf
    <3>3. Occ(composer', t) = 1
      BY <2>2, <2>6, <3>2
    <3>4. PlaceOf(t) = "new" /\ PlaceOf(t)' = "draft"
      BY <2>4, <3>1, <3>2, <3>3 DEF PlaceOf, Place
    <3> QED
      BY <3>4 DEF Goes
  <2> QED
    BY <2>5, <2>6
<1>3. ASSUME NEW t0 \in Texts, NEW i \in DOMAIN queue, EditQueued(i, t0) PROVE Quiet
  <2>1. /\ UNCHANGED <<ask, admitted, ledger, composer>> /\ t0 \notin typed /\ typed' = typed \cup {t0}
        /\ queue' = [queue EXCEPT ![i] = <<t0>>] /\ i \in 1 .. Len(queue)
    BY <1>0, <1>3 DEF EditQueued, view, turn
  <2> SUFFICES ASSUME NEW t \in Texts
               PROVE  Same(t) \/ Goes(t, "new", {"draft", "waiting"}) \/ Goes(t, "waiting", {"gone"})
    BY DEF Quiet
  <2>3. PICK k \in Nat : /\ k <= Held(queue, t)
                         /\ Held(queue', t) + k = Held(queue, t) + (IF t0 = t THEN 1 ELSE 0)
    BY <1>0, <2>1, QueueEdited
  <2>4. Limit(t)' = IF t0 = t THEN 1 ELSE Limit(t)
    BY <2>1 DEF Limit
  <2>5. PlaceOf(t)' = Place(Limit(t)', Said(t), Occ(composer, t), Held(queue', t), Occ(ask.input, t), Held(admitted, t))
    BY <2>1, PlaceNext
  <2>6. CASE t0 # t
    <3>1. Limit(t)' = Limit(t)
      BY <2>4, <2>6
    <3>2. PICK q1 \in Nat : q1 = Held(queue', t)
      BY <1>n
    <3>3. q1 <= Held(queue, t)
      BY <1>n, <2>3, <2>6, <3>2
    <3> QED
      BY <1>c, <2>5, <3>1, <3>2, <3>3, Fewer DEF CountsOf, PlaceOf, Same, Goes
  <2>7. CASE t0 = t
    <3>1. Limit(t) = 0 /\ Limit(t)' = 1
      BY <2>1, <2>4, <2>7 DEF Limit
    <3>2. Said(t) = 0 /\ Occ(composer, t) = 0 /\ Held(queue, t) = 0
      BY <1>c, <3>1, Untyped DEF CountsOf
    <3>4. Held(queue', t) # 0
      BY <1>n, <2>3, <2>7, <3>2
    <3>5. PlaceOf(t) = "new" /\ PlaceOf(t)' = "waiting"
      BY <2>5, <3>1, <3>2, <3>4 DEF PlaceOf, Place
    <3> QED
      BY <3>5 DEF Goes
  <2> QED
    BY <2>6, <2>7
<1>4. ASSUME NEW i \in DOMAIN queue, DropQueued(i) PROVE Quiet
  <2>1. UNCHANGED <<ask, admitted, ledger, composer, typed>> /\ queue' = RemoveAt(queue, i) /\ i \in 1 .. Len(queue)
    BY <1>0, <1>4 DEF DropQueued, view, turn
  <2>2. ASSUME NEW t \in Texts PROVE Held(queue', t) <= Held(queue, t)
    BY <1>0, <2>1, QueueDropped
  <2> QED
    BY <1>1, <2>1, <2>2
<1>5. CASE ClearQueue \/ SwitchSession
  <2>1. UNCHANGED <<ask, admitted, ledger, composer, typed>> /\ queue' = <<>>
    BY <1>5 DEF ClearQueue, SwitchSession, view, turn
  <2> QED
    BY <1>1, <1>e, <1>n, <2>1
<1>6. CASE QueueWhileBusy
  <2>1. UNCHANGED <<ask, admitted, ledger, typed>> /\ queue' = Append(queue, composer) /\ composer' = <<>>
    BY <1>6 DEF QueueWhileBusy, view, turn
  <2> SUFFICES ASSUME NEW t \in Texts PROVE Same(t) \/ Goes(t, "draft", {"waiting", "steering"})
    BY DEF Quiet
  <2>2. Held(queue', t) = Held(queue, t) + Occ(composer, t) /\ Occ(composer', t) = 0
    BY <1>0, <1>e, <2>1, HeldAppend
  <2>3. PlaceOf(t)' = Place(Limit(t), Said(t), 0, Held(queue, t) + Occ(composer, t), Occ(ask.input, t), Held(admitted, t))
    BY <2>1, <2>2, PlaceNext
  <2> QED
    BY <1>c, <2>3, Waits DEF CountsOf, PlaceOf, Same, Goes
<1>7. CASE Steer
  <2>1. UNCHANGED <<ask, queue, typed, ledger>> /\ admitted' = Append(admitted, composer) /\ composer' = <<>>
    BY <1>7 DEF Steer
  <2> SUFFICES ASSUME NEW t \in Texts PROVE Same(t) \/ Goes(t, "draft", {"waiting", "steering"})
    BY DEF Quiet
  <2>2. Held(admitted', t) = Held(admitted, t) + Occ(composer, t) /\ Occ(composer', t) = 0
    BY <1>0, <1>e, <2>1, HeldAppend
  <2>3. PlaceOf(t)' = Place(Limit(t), Said(t), 0, Held(queue, t), Occ(ask.input, t), Held(admitted, t) + Occ(composer, t))
    BY <2>1, <2>2, PlaceNext
  <2> QED
    BY <1>c, <2>3, Joined DEF CountsOf, PlaceOf, Same, Goes
<1> QED
  BY <1>2, <1>3, <1>4, <1>5, <1>6, <1>7

\* What a restart leaves of the counts.
LEMMA RestartCounts ==
  ASSUME NEW q \in Seq(Message), Restart(q), NEW t \in Texts
  PROVE  /\ Held(admitted', t) = 0
         /\ Occ(ask'.input, t) \in Nat /\ Held(queue', t) \in Nat
         /\ Occ(ask'.input, t) + Held(queue', t) <= Held(q, t)
<1>1. Occ(<<>>, t) = 0 /\ Held(<<>>, t) = 0
  BY OccEmpty, HeldEmpty
<1>2. Held(queue', t) \in Nat /\ Held(q, t) \in Nat
  BY MessagesAreSequences, HeldType DEF Restart
<1>3. CASE Idle /\ Held(queue', t) <= Held(q, t)
  <2>1. ask'.input = <<>> /\ admitted' = <<>>
    BY <1>3 DEF Idle, Clear, NoAsk
  <2> QED
    BY <1>1, <1>2, <1>3, <2>1
<1>4. CASE \E input \in Message : StartTurn(input) /\ Occ(input, t) + Held(queue', t) <= Held(q, t)
  <2>1. PICK input \in Message : StartTurn(input) /\ Occ(input, t) + Held(queue', t) <= Held(q, t)
    BY <1>4
  <2>2. ask'.input = input /\ admitted' = <<>>
    BY <2>1 DEF StartTurn, NoAsk
  <2>3. Occ(input, t) \in Nat
    BY OccType DEF Message
  <2> QED
    BY <1>1, <1>2, <2>1, <2>2, <2>3
<1> QED
  BY <1>3, <1>4 DEF Restart

\* While no turn runs.
LEMMA NoTurnStarts ==
  ASSUME QueueAssumption, QueueInv,
         \/ \E i \in DOMAIN queue : SendNow(i) /\ mode = "idle"
         \/ SubmitIdle \/ ResumeQueue \/ Compact \/ FinishCompaction
  PROVE  Starts
<1>0. /\ composer \in Seq(Texts) /\ queue \in Seq(Message) /\ paused \in BOOLEAN
      /\ queue \in Seq(Seq(Texts)) /\ NothingWaitsInVain
  BY MessagesAreSequences DEF QueueInv, UiTypes
<1>c. \A t \in Texts : CountsOf(t)
  BY Counting
<1>e. \A t : Occ(<<>>, t) = 0 /\ Held(<<>>, t) = 0
  BY OccEmpty, HeldEmpty
<1>m. mode # "busy"
  BY DEF SubmitIdle, ResumeQueue, Compact, FinishCompaction
<1>n. ask = NoAsk /\ admitted = <<>>
  BY <1>m DEF QueueInv, PhaseInv
<1>p. ASSUME NEW t \in Texts
      PROVE  /\ Counts(Limit(t), Said(t), Occ(composer, t), Held(queue, t), 0, 0)
             /\ PlaceOf(t) = Place(Limit(t), Said(t), Occ(composer, t), Held(queue, t), 0, 0)
  <2>1. Occ(ask.input, t) = 0 /\ Held(admitted, t) = 0
    BY <1>e, <1>n DEF NoAsk
  <2> QED
    BY <1>c, <2>1 DEF CountsOf, PlaceOf
\* Messages go from the queue.
<1>1. ASSUME UNCHANGED <<typed, ledger, composer>>,
             \A t \in Texts : /\ Held(admitted', t) = 0
                              /\ Occ(ask'.input, t) \in Nat /\ Held(queue', t) \in Nat
                              /\ Occ(ask'.input, t) + Held(queue', t) <= Held(queue, t)
      PROVE  Starts
  <2> SUFFICES ASSUME NEW t \in Texts
               PROVE  /\ PlaceOf(t) \notin {"running", "steering"}
                      /\ Same(t) \/ Goes(t, "draft", {"running", "gone"}) \/ Goes(t, "waiting", {"running", "gone"})
    BY DEF Starts
  <2>1. PlaceOf(t)' = Place(Limit(t), Said(t), Occ(composer, t), Held(queue', t), Occ(ask'.input, t), 0)
    BY <1>1, PlaceNext
  <2> QED
    BY <1>1, <1>p, <2>1, Begun DEF Same, Goes
<1>2. ASSUME NEW q \in Seq(Message), Restart(q), \A t \in Texts : Held(q, t) = Held(queue, t),
             UNCHANGED <<typed, ledger, composer>>
      PROVE  Starts
  <2>1. ASSUME NEW t \in Texts
        PROVE  /\ Held(admitted', t) = 0
               /\ Occ(ask'.input, t) \in Nat /\ Held(queue', t) \in Nat
               /\ Occ(ask'.input, t) + Held(queue', t) <= Held(queue, t)
    BY <1>2, RestartCounts
  <2> QED
    BY <1>1, <1>2, <2>1
<1>3. ASSUME NEW i \in DOMAIN queue, SendNow(i) PROVE Starts
  <2>0. i \in 1 .. Len(queue) /\ UNCHANGED <<composer, typed, ledger>>
    BY <1>0, <1>3 DEF SendNow
  <2>1. PICK q \in Seq(Message) : q = <<queue[i]>> \o RemoveAt(queue, i)
    BY <1>0, <2>0, RemoveAndPromote
  <2>2. \A t : Held(q, t) = Held(queue, t)
    BY <1>0, <2>0, <2>1, HeldPromote
  <2>3. DrainQueue(q, FALSE)
    BY <1>3, <1>m, <2>1 DEF SendNow
  <2>4. Restart(q)
    BY <2>3, DrainRestarts
  <2> QED
    BY <1>2, <2>0, <2>2, <2>4
<1>4. CASE ResumeQueue
  <2>1. Restart(queue) /\ UNCHANGED <<composer, typed, ledger>>
    BY <1>0, <1>4, DrainRestarts DEF ResumeQueue
  <2> QED
    BY <1>0, <1>2, <2>1
<1>5. CASE FinishCompaction
  <2>1. DrainQueue(queue, paused) /\ (paused => queue # <<>>) /\ UNCHANGED <<composer, typed, ledger>>
    BY <1>0, <1>5 DEF FinishCompaction, NothingWaitsInVain
  <2>2. Restart(queue)
    BY <1>0, <2>1, DrainRestarts
  <2> QED
    BY <1>0, <1>2, <2>1, <2>2
<1>6. CASE Compact
  <2>1. ask' = NoAsk /\ admitted' = <<>> /\ UNCHANGED <<queue, typed, ledger, composer>>
    BY <1>6 DEF Compact, StartCompaction, Clear
  <2>2. \A t \in Texts : Occ(ask'.input, t) = 0 /\ Held(admitted', t) = 0
    BY <1>e, <2>1 DEF NoAsk
  <2>3. \A t \in Texts : Held(queue, t) \in Nat
    BY <1>c DEF CountsOf, Counts
  <2> QED
    BY <1>1, <2>1, <2>2, <2>3
<1>7. CASE SubmitIdle
  <2>1. UNCHANGED <<queue, typed, ledger>> /\ composer' = <<>> /\ admitted' = <<>>
    BY <1>7 DEF SubmitIdle, Idle, Clear, StartTurn
  <2>2. ask'.input \in {<<>>, composer}
    <3>1. CASE StartTurn(composer)
      BY <3>1 DEF StartTurn, NoAsk
    <3>2. CASE Idle
      BY <3>2 DEF Idle, Clear, NoAsk
    <3> QED
      BY <1>7, <3>1, <3>2 DEF SubmitIdle
  <2> SUFFICES ASSUME NEW t \in Texts
               PROVE  /\ PlaceOf(t) \notin {"running", "steering"}
                      /\ Same(t) \/ Goes(t, "draft", {"running", "gone"}) \/ Goes(t, "waiting", {"running", "gone"})
    BY DEF Starts
  <2>3. Occ(composer, t) \in Nat
    BY <1>c DEF CountsOf, Counts
  <2>4. PICK n \in Nat : n = Occ(ask'.input, t) /\ n <= Occ(composer, t)
    BY <1>e, <2>2, <2>3
  <2>5. Occ(composer', t) = 0 /\ Held(admitted', t) = 0
    BY <1>e, <2>1
  <2>6. PlaceOf(t)' = Place(Limit(t), Said(t), 0, Held(queue, t), n, 0)
    BY <2>1, <2>4, <2>5, PlaceNext
  <2> QED
    BY <1>p, <2>4, <2>6, Submitted DEF Same, Goes
<1> QED
  BY <1>3, <1>4, <1>5, <1>6, <1>7

LEMMA FinishEnds == ASSUME QueueAssumption, QueueInv, FinishTurn PROVE Ends
<1>0. /\ composer \in Seq(Texts) /\ queue \in Seq(Message) /\ paused \in BOOLEAN /\ admitted \in Seq(Message)
      /\ queue \in Seq(Seq(Texts)) /\ NothingWaitsInVain
  BY MessagesAreSequences DEF QueueInv, UiTypes, ViewTypes
<1>1. UNCHANGED <<typed, ledger>>
  BY DEF FinishTurn
<1> SUFFICES ASSUME NEW t \in Texts
             PROVE  \/ PlaceOf(t) \notin {"running", "steering"} /\ Same(t)
                    \/ Goes(t, "running", {"gone"})
                    \/ Goes(t, "steering", {"draft", "gone"})
                    \/ Goes(t, "waiting", {"running", "gone"})
  BY DEF Ends
<1>c. CountsOf(t)
  BY Counting
<1>n. Occ(composer, t) \in Nat /\ Held(queue, t) \in Nat /\ Held(admitted, t) \in Nat
  BY <1>c DEF CountsOf, Counts
<1>e. Occ(<<>>, t) = 0 /\ Held(<<>>, t) = 0
  BY OccEmpty, HeldEmpty
<1>2. PICK c1 \in Nat : c1 = Occ(composer', t) /\ Occ(composer, t) <= c1 /\ c1 <= Occ(composer, t) + Held(admitted, t)
  <2>1. CASE BringsBack
    <3>1. PICK r \in Seq(Texts) : r = Restored /\ Occ(r, t) <= Held(admitted, t)
      BY <1>0, RestoredLess
    <3>2. Occ(composer \o r, t) = Occ(composer, t) + Occ(r, t) /\ Occ(r, t) \in Nat
      BY <1>0, OccConcat, OccType
    <3>3. composer' = composer \o r
      BY <2>1, <3>1 DEF FinishTurn
    <3> QED
      BY <1>n, <3>1, <3>2, <3>3
  <2>2. CASE ~BringsBack
    <3>1. composer' = composer
      BY <2>2 DEF FinishTurn
    <3> QED
      BY <1>n, <3>1
  <2> QED
    BY <2>1, <2>2
<1>3. PICK q1 \in Nat, i1 \in Nat :
        q1 = Held(queue', t) /\ i1 = Occ(ask'.input, t) /\ Held(admitted', t) = 0 /\ i1 + q1 <= Held(queue, t)
  <2>1. CASE DrainQueue(queue, paused \/ Pauses)
    <3>1. PICK p \in BOOLEAN : p = (paused \/ Pauses)
      BY <1>0 DEF Pauses
    <3>2. p => queue # <<>>
      BY <1>0, <3>1 DEF Pauses, NothingWaitsInVain
    <3>3. Restart(queue)
      BY <1>0, <2>1, <3>1, <3>2, DrainRestarts
    <3> QED
      BY <1>0, <3>3, RestartCounts
  <2>2. CASE StartCompaction
    <3>1. ask' = NoAsk /\ admitted' = <<>> /\ UNCHANGED queue
      BY <2>2 DEF StartCompaction, Clear
    <3>2. Occ(ask'.input, t) = 0 /\ Held(admitted', t) = 0
      BY <1>e, <3>1 DEF NoAsk
    <3> QED
      BY <1>n, <3>1, <3>2
  <2> QED
    BY <2>1, <2>2 DEF FinishTurn
<1>4. PlaceOf(t)' = Place(Limit(t), Said(t), c1, q1, i1, 0)
  BY <1>1, <1>2, <1>3, PlaceNext
<1> QED
  BY <1>c, <1>2, <1>3, <1>4, Finished DEF CountsOf, PlaceOf, Same, Goes

LEMMA CommitDelivers ==
  ASSUME QueueAssumption, QueueInv, AskAt("committing"), ledger' = Delivered, ask'.input = ask.input,
         UNCHANGED <<typed, composer, queue, admitted>>
  PROVE  Delivers
<1>0. ask.input \in Seq(Texts) /\ ask.input # <<>> /\ ledger \in Seq(Entries) /\ ~ask.committed
  BY DEF AskAt, QueueInv, TurnTypes, Entries, PhaseInv, Returned, Outcomes, Errors
<1>1. PICK e \in Entries : e = [input |-> ask.input, steers |-> Steers(box.consumed)]
  <2>1. ask.input \in Message
    BY <1>0 DEF Message
  <2>2. Steers(box.consumed) \in Seq(Message)
    BY ConsumedLess
  <2> QED
    BY <2>1, <2>2 DEF Entries
<1>2. ledger' = Append(ledger, e)
  BY <1>1 DEF Delivered
<1>3. ASSUME NEW t \in Texts
      PROVE  \/ PlaceOf(t) # "running" /\ Same(t)
             \/ Goes(t, "running", {"delivered"})
             \/ Goes(t, "steering", {"delivered"})
  <2>1. CountsOf(t) /\ Said(t) + Occ(ask.input, t) + Held(admitted, t) <= Limit(t)
    BY <1>0, Counting
  <2>2. PICK k \in Nat : k = Held(e.steers, t) /\ k <= Held(admitted, t)
    BY <1>1, ConsumedLess
  <2>3. Said(t)' = Said(t) + (Occ(ask.input, t) + k)
    <3>1. Occ(e.input, t) = Occ(ask.input, t)
      BY <1>1
    <3> QED
      BY <1>0, <1>2, <2>2, <3>1, SaidAppend DEF Said
  <2>4. PlaceOf(t)' = Place(Limit(t), Said(t) + (Occ(ask.input, t) + k), Occ(composer, t), Held(queue, t),
                            Occ(ask.input, t), Held(admitted, t))
    BY <2>3, PlaceNext
  <2> QED
    BY <2>1, <2>2, <2>4, Committed DEF CountsOf, PlaceOf, Same, Goes
<1>4. \E t \in Texts : PlaceOf(t) = "running"
  <2>1. PICK t \in Texts : t = ask.input[1] /\ t \in ToSet(ask.input)
    BY <1>0 DEF ToSet
  <2>2. Occ(ask.input, t) # 0
    BY <1>0, <2>1, OccType
  <2>3. CountsOf(t) /\ Said(t) + Occ(ask.input, t) + Held(admitted, t) <= Limit(t)
    BY <1>0, Counting
  <2>4. PICK l \in {0, 1}, s \in Nat, c \in Nat, q \in Nat, i \in Nat, a \in Nat :
          /\ l = Limit(t) /\ s = Said(t) /\ c = Occ(composer, t) /\ q = Held(queue, t)
          /\ i = Occ(ask.input, t) /\ a = Held(admitted, t)
    BY <2>3 DEF CountsOf, Counts
  <2>5. c + q + i + a <= l /\ s + i + a <= l /\ i # 0
    BY <2>2, <2>3, <2>4 DEF CountsOf, Counts
  <2>6. l # 0 /\ s = 0 /\ c = 0 /\ q = 0
    BY <2>5
  <2> QED
    BY <2>2, <2>4, <2>6 DEF PlaceOf, Place
<1> QED
  BY <1>3, <1>4 DEF Delivers

LEMMA StepPlaces ==
  ASSUME QueueAssumption, QueueInv, QueueInv', QueueNext
  PROVE  Quiet \/ Starts \/ Delivers \/ Ends
<1>1. CASE \E i \in DOMAIN queue : SendNow(i)
  <2>1. PICK i \in DOMAIN queue : SendNow(i)
    BY <1>1
  <2>2. CASE mode = "idle"
    BY <2>1, <2>2, NoTurnStarts
  <2>3. CASE mode # "idle"
    <3>1. mode = "busy" /\ queue' = <<queue[i]>> \o RemoveAt(queue, i)
          /\ UNCHANGED <<view, ask, composer, typed, ledger>>
      BY <2>1, <2>3 DEF SendNow
    <3>2. UNCHANGED <<admitted, ask, composer, typed, ledger>>
      BY <3>1 DEF view
    <3>3. queue \in Seq(Seq(Texts)) /\ i \in 1 .. Len(queue)
      BY MessagesAreSequences DEF QueueInv, UiTypes
    <3>4. \A t \in Texts : Held(queue', t) = Held(queue, t)
      BY <3>1, <3>3, HeldPromote
    <3>5. ASSUME NEW t \in Texts PROVE Same(t)
      BY <3>2, <3>4, PlaceNext DEF Same, PlaceOf
    <3> QED
      BY <3>5 DEF Quiet
  <2> QED
    BY <2>2, <2>3
<1>2. CASE SubmitIdle \/ ResumeQueue \/ Compact \/ FinishCompaction
  BY <1>2, NoTurnStarts
<1>3. CASE FinishTurn
  BY <1>3, FinishEnds
<1>4. CASE \/ \E t \in Texts : Type(t) \/ \E i \in DOMAIN queue : EditQueued(i, t)
           \/ \E i \in DOMAIN queue : DropQueued(i)
           \/ QueueWhileBusy \/ Steer \/ ClearQueue \/ SwitchSession
  BY <1>4, UserIsQuiet
<1>5. CASE SteerTooLate \/ InterruptTurn \/ Deadline \/ Receive \/ Show \/ KeepDone
  <2>1. UNCHANGED <<ask, admitted, ledger, composer, queue, typed>>
    BY <1>5 DEF SteerTooLate, InterruptTurn, Deadline, Receive, Show, KeepDone, ui, view, turn
  <2> QED
    BY <2>1, Unmoved
<1>6. ask \in AskTypes
  BY DEF QueueInv, TurnTypes, AskTypes, Pcs
<1>7. CASE Respond
  <2>1. UNCHANGED <<admitted, ledger, composer, queue, typed>> /\ ask'.input = ask.input
    BY <1>6, <1>7 DEF Respond, CallTools, ModelAnswers, ModelFails, AskGoes, ui, view, AskTypes
  <2> QED
    BY <2>1, Unmoved
<1>8. CASE Continue
  <2>1. UNCHANGED <<admitted, composer, queue, typed>>
    BY <1>8 DEF Continue, BeginTurn, RefuseTurn, TakeSteers, EmitEvent, DiscardSteering, CloseSteering,
         ReachBoundary, RejectAnswer, Commit, CommitFails, CloseEvents, SendDone, ui, view
  <2>2. ask'.input = ask.input
    BY <1>6, <1>8 DEF Continue, BeginTurn, RefuseTurn, TakeSteers, EmitEvent, DiscardSteering, CloseSteering,
         ReachBoundary, RejectAnswer, Commit, CommitFails, CloseEvents, SendDone, Returns, AskGoes, AskTypes
  <2>3. ledger' = ledger \/ (AskAt("committing") /\ ledger' = Delivered)
    BY <1>8 DEF Continue, BeginTurn, RefuseTurn, TakeSteers, EmitEvent, DiscardSteering, CloseSteering,
         ReachBoundary, RejectAnswer, Commit, CommitFails, CloseEvents, SendDone
  <2> QED
    BY <2>1, <2>2, <2>3, Unmoved, CommitDelivers
<1> QED
  BY <1>1, <1>2, <1>3, <1>4, <1>5, <1>7, <1>8 DEF QueueNext, UserActs, Screen

LEMMA FatesArePlaces == QueueInv => \A t \in Texts : Fate(t) = PlaceOf(t)
  BY FateIsPlace

LEMMA PromiseInit == ASSUME QueueInit PROVE Promise!Init
<1>1. \A t \in Texts : Fate(t) = "new"
  BY DEF QueueInit, Fate
<1> QED
  BY <1>1 DEF Promise!Init

LEMMA PromiseStep ==
  ASSUME QueueAssumption, QueueInv, QueueInv', [QueueNext]_queueVars
  PROVE  Promise!Next \/ UNCHANGED [t \in Texts |-> Fate(t)]
<1>1. CASE QueueNext
  <2>1. \A t \in Texts : Fate(t) = PlaceOf(t)
    BY FateIsPlace
  <2>2. \A t \in Texts : Fate(t)' = PlaceOf(t)'
    <3>1. QueueInv' => (\A t \in Texts : Fate(t) = PlaceOf(t))'
      BY FatesArePlaces, PTL
    <3> QED
      BY <3>1
  <2>3. Quiet \/ Starts \/ Delivers \/ Ends
    BY <1>1, StepPlaces
  <2> QED
    BY <2>1, <2>2, <2>3, StepsKeepPromise
<1>2. CASE UNCHANGED queueVars
  BY <1>2 DEF queueVars, ui, view, turn, Fate, InLedger
<1> QED
  BY <1>1, <1>2

\* The queue, the steers and the turn implement Delivery: every text moves only
\* as a draft, a queued, running or steering message may, and one that was
\* delivered stays so.
THEOREM PromiseKept == ASSUME QueueAssumption PROVE QueueSpec => KeepsPromise
<1>1. QueueInit => Promise!Init
  BY PromiseInit
<1>2. QueueInv /\ QueueInv' /\ [QueueNext]_queueVars => [Promise!Next]_([t \in Texts |-> Fate(t)])
  BY PromiseStep
<1>3. QueueSpec => []QueueInv
  BY QueueInvariant
<1> QED
  BY <1>1, <1>2, <1>3, PTL DEF QueueSpec, KeepsPromise, Promise!Spec
=============================================================================
