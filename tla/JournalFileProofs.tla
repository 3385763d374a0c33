------------------------- MODULE JournalFileProofs -------------------------
(***************************************************************************)
(* The journal of a session stays sound for any number of processes, files *)
(* and failures: writers exclude each other although the lock is on a file *)
(* opened before and the path is opened again, and no failure leaves a     *)
(* record glued to the remains of another.                                 *)
(*                                                                         *)
(* WritersExclude is not inductive: between a lock and the write it        *)
(* guards, the path may have been removed and made again by somebody's     *)
(* O_CREATE.  What saves it is that such a file has no records, so nothing *)
(* is loaded from it: records are in the first file only (OneSession).     *)
(***************************************************************************)
EXTENDS JournalFile, SequenceTheorems, TLAPS

Writing == {"loaded", "written"}
Holding == {"locked", "loaded", "written"}
Handling == {"opened", "locked", "loaded", "written"}
Labels == {"idle", "inspected", "waiting", "opened", "locked", "loaded", "written"}

\* Every file is sound, and only the first one has records.
SoundFile(f) == f \in Files /\ f.synced <= Len(f.records) /\ f.tail # "mangled"
OneSession ==
  /\ files \in Seq(Files)
  /\ \A i \in 1 .. Len(files) : /\ SoundFile(files[i])
                                /\ files[i].records # <<>> => i = 1
  /\ path \in 1 .. Len(files) \cup {None}
  /\ path = 1 => Len(files) = 1

\* The shape of the locks and of the calls.
CallTypes ==
  /\ holders \in Seq(SUBSET Procs) /\ Len(holders) = Len(files)
  /\ local \in [Stores -> Procs \cup {None}]
  /\ pc \in [Procs -> Labels]
  /\ op \in [Procs -> Operations \cup {"none"}]
  /\ fd \in [Procs -> 1 .. Len(files) \cup {None}]

\* A lock is held by a call that is past TryLock, on the file it has open, and
\* alone unless it reads.
LocksHeld ==
  /\ \A p \in Procs :
       /\ pc[p] \in Handling => fd[p] # None
       /\ pc[p] \in Holding => p \in holders[fd[p]]
       /\ pc[p] \in Holding /\ op[p] # "read" => holders[fd[p]] = {p}
       /\ pc[p] \in Writing => op[p] # "read"
  /\ \A i \in 1 .. Len(holders) : \A q \in holders[i] : pc[q] \in Holding /\ fd[q] = i

\* What a writer loaded is what the path names, whole and clean.
WritersAtPath ==
  \A p \in Procs : pc[p] \in Writing =>
    /\ path = 1 /\ fd[p] = 1
    /\ pc[p] = "loaded" => files[path].tail = "clean"

CountTypes ==
  /\ attempts \in [Procs -> 0 .. MaxAttempts]
  /\ \A p \in Procs : op[p] = "append" /\ pc[p] # "written" => attempts[p] < MaxAttempts
  /\ \A p \in Procs : pc[p] = "idle" => op[p] = "none"
  /\ reported \subseteq Events
  /\ deleted \in BOOLEAN /\ failures \in 0 .. MaxFailures

IInv == OneSession /\ CallTypes /\ LocksHeld /\ WritersAtPath /\ CountTypes

-----------------------------------------------------------------------------
\* A sequence of n elements has the domain 1 .. n, and None is no number.
LEMMA Domains ==
  ASSUME NEW S, NEW s \in Seq(S)
  PROVE  Len(s) \in Nat /\ DOMAIN s = 1 .. Len(s) /\ None \notin DOMAIN s
BY JournalAssumption, LenProperties

\* The calls of D are over: they hold no lock and no file.
Released(D) ==
  /\ pc' = [q \in Procs |-> IF q \in D THEN "idle" ELSE pc[q]]
  /\ op' = [q \in Procs |-> IF q \in D THEN "none" ELSE op[q]]
  /\ fd' = [q \in Procs |-> IF q \in D THEN None ELSE fd[q]]
  /\ holders' = [i \in DOMAIN holders |-> holders[i] \ D]
  /\ local' \in [Stores -> Procs \cup {None}]

\* A call that returns and a process that dies release alike.
LEMMA ReturnReleases ==
  ASSUME CallTypes, NEW p \in Procs, Return(p) PROVE Released({p})
BY JournalAssumption DEF CallTypes, Return, Goto, Released

LEMMA KilledReleases ==
  ASSUME CallTypes, NEW D \in SUBSET Procs, Killed(D) PROVE Released(D)
BY DEF CallTypes, Killed, Released

\* A release leaves the other calls what they hold.
LEMMA ReleaseKeepsLocks ==
  ASSUME CallTypes, LocksHeld, NEW D \in SUBSET Procs, Released(D),
         Len(files') = Len(files)
  PROVE  CallTypes' /\ LocksHeld'
<1>1. Len(holders) \in Nat /\ DOMAIN holders = 1 .. Len(holders)
  BY Domains DEF CallTypes
<1>2. \A i \in 1 .. Len(holders) : holders[i] \subseteq Procs
  BY ElementOfSeq DEF CallTypes
<1>3. holders' \in Seq(SUBSET Procs) /\ Len(holders') = Len(holders)
  <2>1. \A i \in 1 .. Len(holders) : holders[i] \ D \in SUBSET Procs
    BY <1>2
  <2> QED
    BY <1>1, <2>1 DEF Released
<1>4. CallTypes'
  BY <1>3 DEF CallTypes, Released, Labels
<1>5. ASSUME NEW q \in Procs
      PROVE  /\ pc'[q] \in Handling => fd'[q] # None
             /\ pc'[q] \in Holding => q \in holders'[fd'[q]]
             /\ pc'[q] \in Holding /\ op'[q] # "read" => holders'[fd'[q]] = {q}
             /\ pc'[q] \in Writing => op'[q] # "read"
  <2>1. CASE q \in D
    BY <2>1 DEF Released, Handling, Holding, Writing
  <2>2. CASE q \notin D
    <3>1. pc'[q] = pc[q] /\ op'[q] = op[q] /\ fd'[q] = fd[q]
      BY <2>2 DEF Released
    <3>2. pc[q] \in Holding => fd[q] \in DOMAIN holders
      BY <1>1 DEF CallTypes, LocksHeld, Holding, Handling
    <3>3. pc[q] \in Holding => holders'[fd'[q]] = holders[fd[q]] \ D
      BY <3>1, <3>2 DEF Released
    <3> QED
      BY <2>2, <3>1, <3>3 DEF LocksHeld
  <2> QED
    BY <2>1, <2>2
<1>6. ASSUME NEW i \in 1 .. Len(holders'), NEW q \in holders'[i]
      PROVE  pc'[q] \in Holding /\ fd'[q] = i
  <2>1. i \in 1 .. Len(holders) /\ q \in holders[i] /\ q \notin D /\ q \in Procs
    BY <1>1, <1>2, <1>3 DEF Released
  <2> QED
    BY <2>1 DEF Released, LocksHeld
<1> QED
  BY <1>4, <1>5, <1>6 DEF LocksHeld

\* ... and what they know of the path and of their attempts.
LEMMA ReleaseKeepsRest ==
  ASSUME IInv, NEW D \in SUBSET Procs, Released(D),
         \A q \in Procs \ D : pc[q] \in Writing =>
           path' = path /\ files'[path].tail = files[path].tail,
         attempts' \in [Procs -> 0 .. MaxAttempts],
         \A q \in Procs \ D : attempts'[q] = attempts[q],
         reported' \subseteq Events, deleted' \in BOOLEAN, failures' \in 0 .. MaxFailures
  PROVE  WritersAtPath' /\ CountTypes'
<1>1. ASSUME NEW q \in Procs, q \notin D
      PROVE  pc'[q] = pc[q] /\ op'[q] = op[q] /\ fd'[q] = fd[q]
  BY <1>1 DEF Released
<1>2. ASSUME NEW q \in Procs, q \in D PROVE pc'[q] = "idle" /\ op'[q] = "none"
  BY <1>2 DEF Released
<1>3. WritersAtPath'
  BY <1>1, <1>2 DEF IInv, WritersAtPath, Writing
<1> QED
  BY <1>1, <1>2, <1>3 DEF IInv, CountTypes

\* No two calls are between their replay and their return.
LEMMA OneWriter ==
  ASSUME IInv, NEW p \in Procs, NEW q \in Procs, pc[p] \in Writing, pc[q] \in Writing
  PROVE  p = q
<1>1. fd[p] = 1 /\ fd[q] = 1
  BY DEF IInv, WritersAtPath
<1>2. holders[1] = {p} /\ holders[1] = {q}
  BY <1>1 DEF IInv, LocksHeld, Writing, Holding
<1> QED
  BY <1>2

\* A writer has the first file, which exists.
LEMMA WriterHasFile ==
  ASSUME IInv, NEW p \in Procs, pc[p] \in Writing
  PROVE  /\ path = 1 /\ path \in 1 .. Len(files) /\ path # None
         /\ SoundFile(files[path])
BY JournalAssumption DEF IInv, WritersAtPath, OneSession

\* A sound file in place of one that is there keeps the session as it is.
LEMMA ReplacedFile ==
  ASSUME OneSession, NEW i \in 1 .. Len(files), NEW f, SoundFile(f),
         f.records # <<>> => i = 1, files' = [files EXCEPT ![i] = f], path' = path
  PROVE  OneSession' /\ Len(files') = Len(files)
         /\ \A j \in 1 .. Len(files) : files'[j] = IF j = i THEN f ELSE files[j]
<1>1. files' \in Seq(Files) /\ Len(files') = Len(files)
      /\ \A j \in 1 .. Len(files) : files'[j] = IF j = i THEN f ELSE files[j]
  BY ExceptSeq DEF OneSession, SoundFile
<1> QED
  BY <1>1 DEF OneSession

LEMMA InitIInv == Init => IInv
<1> SUFFICES ASSUME Init PROVE IInv
  OBVIOUS
<1>1. Len(files) = 0 /\ files \in Seq(Files) /\ holders \in Seq(SUBSET Procs)
  BY EmptySeq DEF Init
<1>2. OneSession
  BY <1>1, JournalAssumption DEF Init, OneSession
<1>3. CallTypes
  BY <1>1 DEF Init, CallTypes, Labels
<1>4. LocksHeld /\ WritersAtPath
  BY <1>1 DEF Init, LocksHeld, WritersAtPath, Handling, Holding, Writing
<1>5. CountTypes
  <2>1. 0 \in 0 .. MaxAttempts /\ 0 \in 0 .. MaxFailures
    BY JournalAssumption
  <2>2. attempts \in [Procs -> 0 .. MaxAttempts]
    BY <2>1 DEF Init
  <2> QED
    BY <2>1, <2>2 DEF Init, CountTypes
<1> QED
  BY <1>2, <1>3, <1>4, <1>5 DEF IInv

-----------------------------------------------------------------------------
(* The steps before a call has a file open.                                *)

LEMMA WaitingSteps ==
  ASSUME IInv, NEW p \in Procs,
         (\E operation \in Operations : Inspect(p, operation)) \/ HoldLocalLock(p)
  PROVE  IInv'
<1>1. /\ pc[p] \in {"idle", "inspected"}
      /\ \E l \in {"inspected", "waiting"} : pc' = [pc EXCEPT ![p] = l]
      /\ UNCHANGED <<fileVars, holders, fd, attempts, reported, failures>>
      /\ local' \in [Stores -> Procs \cup {None}]
      /\ \/ op' = op /\ pc[p] = "inspected"
         \/ \E operation \in Operations :
              /\ op' = [op EXCEPT ![p] = operation]
              /\ operation = "append" => attempts[p] < MaxAttempts
  BY DEF Inspect, HoldLocalLock, lockVars, Goto, IInv, CallTypes
<1>2. OneSession'
  BY <1>1 DEF IInv, OneSession, fileVars
<1>3. CallTypes'
  BY <1>1 DEF IInv, CallTypes, fileVars, Labels
<1>4. ASSUME NEW q \in Procs
      PROVE  /\ pc'[q] \in Handling \/ pc[q] \in Handling => pc'[q] = pc[q] /\ op'[q] = op[q]
             /\ pc'[q] = pc[q] \/ pc'[q] \in {"inspected", "waiting"}
             /\ pc[q] \in Handling => q # p
  BY <1>1 DEF IInv, CallTypes, Handling
<1>5. LocksHeld'
  <2>1. ASSUME NEW q \in Procs
        PROVE  /\ pc'[q] \in Handling => fd[q] # None
               /\ pc'[q] \in Holding => q \in holders[fd[q]]
               /\ pc'[q] \in Holding /\ op'[q] # "read" => holders[fd[q]] = {q}
               /\ pc'[q] \in Writing => op'[q] # "read"
    BY <1>4 DEF IInv, LocksHeld, Handling, Holding, Writing
  <2>2. ASSUME NEW i \in 1 .. Len(holders), NEW q \in holders[i]
        PROVE  pc'[q] \in Holding /\ fd[q] = i
    <3>1. q \in Procs
      BY ElementOfSeq DEF IInv, CallTypes
    <3> QED
      BY <1>4, <3>1 DEF IInv, LocksHeld, Handling, Holding
  <2> QED
    BY <1>1, <2>1, <2>2 DEF LocksHeld
<1>6. WritersAtPath'
  BY <1>1, <1>4 DEF IInv, WritersAtPath, Writing, Handling, fileVars
<1>7. CountTypes'
  <2>1. \A q \in Procs : q # p => pc'[q] = pc[q] /\ op'[q] = op[q]
    BY <1>1 DEF IInv, CallTypes
  <2>2. pc'[p] \in {"inspected", "waiting"}
    BY <1>1 DEF IInv, CallTypes
  <2>3. op'[p] = "append" => attempts[p] < MaxAttempts
    BY <1>1 DEF IInv, CallTypes, CountTypes
  <2> QED
    BY <1>1, <2>1, <2>2, <2>3 DEF IInv, CountTypes, fileVars
<1> QED
  BY <1>2, <1>3, <1>5, <1>6, <1>7 DEF IInv

-----------------------------------------------------------------------------
(* The steps that open the path and try the lock.                          *)

\* A file the path did not name before: empty, or the first.
LEMMA NewFileIsSound ==
  ASSUME IInv, NEW records \in Seq(Events), NewFile(records), path = None,
         records # <<>> => files = <<>>
  PROVE  /\ OneSession'
         /\ Len(files') = Len(files) + 1 /\ path' = Len(files')
         /\ holders' \in Seq(SUBSET Procs) /\ Len(holders') = Len(files')
         /\ \A i \in 1 .. Len(files) : holders'[i] = holders[i]
         /\ holders'[Len(files')] = {}
<1> DEFINE f == [records |-> records, synced |-> Len(records), tail |-> "clean"]
<1>1. Len(records) \in Nat /\ Len(files) \in Nat /\ files \in Seq(Files)
  BY LenProperties DEF IInv, OneSession
<1>2. SoundFile(f) /\ f \in Files
  BY <1>1 DEF SoundFile, Files, Tails
<1>3. files' = Append(files, f) /\ path' = Len(files) + 1 /\ holders' = Append(holders, {})
  BY DEF NewFile
<1>4. f.records = records
  OBVIOUS
<1> HIDE DEF f
<1>5. /\ files' \in Seq(Files) /\ Len(files') = Len(files) + 1
      /\ \A i \in 1 .. Len(files) : files'[i] = files[i]
      /\ files'[Len(files) + 1] = f
  BY <1>1, <1>2, <1>3, AppendProperties
<1>6. /\ holders' \in Seq(SUBSET Procs) /\ Len(holders') = Len(holders) + 1
      /\ \A i \in 1 .. Len(holders) : holders'[i] = holders[i]
      /\ holders'[Len(holders) + 1] = {}
  BY <1>3, AppendProperties DEF IInv, CallTypes
<1>7. Len(files) = 0 <=> files = <<>>
  BY <1>1, EmptySeq
<1>8. OneSession'
  <2>1. ASSUME NEW i \in 1 .. Len(files')
        PROVE  SoundFile(files'[i]) /\ (files'[i].records # <<>> => i = 1)
    <3>1. CASE i = Len(files) + 1
      BY <1>1, <1>2, <1>4, <1>5, <1>7, <3>1
    <3>2. CASE i \in 1 .. Len(files)
      BY <1>5, <3>2 DEF IInv, OneSession
    <3> QED
      BY <1>1, <1>5, <3>1, <3>2
  <2> QED
    BY <1>1, <1>3, <1>5, <2>1 DEF OneSession
<1> QED
  BY <1>1, <1>3, <1>5, <1>6, <1>8 DEF IInv, CallTypes

LEMMA CreateStep ==
  ASSUME IInv, NEW p \in Procs, CreateThread(p) PROVE IInv'
<1>1. files = <<>> /\ Len(files) = 0 /\ path = None
  BY EmptySeq DEF CreateThread, IInv, OneSession
<1>2. <<p, 0>> \in Events /\ << <<p, 0>> >> \in Seq(Events)
  BY JournalAssumption DEF Events
<1>3. /\ OneSession' /\ Len(files') = 1
      /\ holders' \in Seq(SUBSET Procs) /\ Len(holders') = 1 /\ holders'[1] = {}
  BY <1>1, <1>2, NewFileIsSound DEF CreateThread
<1>4. UNCHANGED <<deleted, local, pc, op, fd, attempts, failures>> /\ reported' = {<<p, 0>>}
  BY DEF CreateThread, callVars
<1>5. \A q \in Procs : pc[q] \notin Handling
  BY <1>1 DEF IInv, CallTypes, LocksHeld
<1>6. CallTypes'
  BY <1>1, <1>3, <1>4 DEF IInv, CallTypes
<1>7. LocksHeld' /\ WritersAtPath'
  BY <1>3, <1>4, <1>5 DEF LocksHeld, WritersAtPath, Handling, Holding, Writing
<1>8. CountTypes'
  BY <1>2, <1>4 DEF IInv, CountTypes
<1> QED
  BY <1>3, <1>6, <1>7, <1>8 DEF IInv

\* The locks of others when one call gets a handle, or gets or loses its try.
LEMMA HandleSteps ==
  ASSUME IInv, NEW p \in Procs, pc[p] \notin Holding, pc[p] # "idle",
         NEW l \in {"opened", "waiting"}, NEW i \in 1 .. Len(files') \cup {None},
         l = "opened" => i # None,
         pc' = [pc EXCEPT ![p] = l], fd' = [fd EXCEPT ![p] = i],
         UNCHANGED <<op, local, attempts, reported, deleted, failures>>,
         OneSession', Len(files') >= Len(files), Len(holders') = Len(files'),
         holders' \in Seq(SUBSET Procs),
         \A j \in 1 .. Len(files) : holders'[j] = holders[j],
         \A j \in 1 .. Len(files') : j > Len(files) => holders'[j] = {},
         path = None \/ (path' = path /\ files' = files)
  PROVE  IInv'
<1>1. Len(files) \in Nat /\ Len(files') \in Nat
  BY LenProperties DEF IInv, OneSession
<1>2. ASSUME NEW q \in Procs
      PROVE  /\ q # p => pc'[q] = pc[q] /\ fd'[q] = fd[q]
             /\ q = p => pc'[q] = l /\ fd'[q] = i
  BY DEF IInv, CallTypes
<1>3. CallTypes'
  BY <1>1 DEF IInv, CallTypes, Labels
<1>4. ASSUME NEW q \in Procs, q # p, pc[q] \in Holding
      PROVE  fd[q] \in 1 .. Len(files) /\ holders'[fd[q]] = holders[fd[q]]
  BY <1>4 DEF IInv, CallTypes, LocksHeld, Holding, Handling
<1>5. LocksHeld'
  <2>1. ASSUME NEW q \in Procs
        PROVE  /\ pc'[q] \in Handling => fd'[q] # None
               /\ pc'[q] \in Holding => q \in holders'[fd'[q]]
               /\ pc'[q] \in Holding /\ op[q] # "read" => holders'[fd'[q]] = {q}
               /\ pc'[q] \in Writing => op[q] # "read"
    BY <1>2, <1>4 DEF IInv, LocksHeld, Handling, Holding, Writing
  <2>2. ASSUME NEW j \in 1 .. Len(holders'), NEW q \in holders'[j]
        PROVE  pc'[q] \in Holding /\ fd'[q] = j
    <3>1. j \in 1 .. Len(files) /\ q \in holders[j] /\ j \in 1 .. Len(holders)
      BY <1>1, <2>2 DEF IInv, CallTypes
    <3>2. q \in Procs /\ pc[q] \in Holding /\ fd[q] = j
      BY <3>1, ElementOfSeq DEF IInv, CallTypes, LocksHeld
    <3> QED
      BY <1>2, <3>2
  <2> QED
    BY <2>1, <2>2 DEF LocksHeld
<1>6. WritersAtPath'
  <2>1. ASSUME NEW q \in Procs, pc'[q] \in Writing
        PROVE  q # p /\ pc[q] \in Writing /\ path' = path /\ files' = files
    BY <1>2, <2>1, WriterHasFile DEF Writing
  <2> QED
    BY <1>2, <2>1 DEF IInv, WritersAtPath
<1>7. CountTypes'
  BY <1>2 DEF IInv, CountTypes, Holding
<1> QED
  BY <1>3, <1>5, <1>6, <1>7 DEF IInv

\* A call that ends and leaves the files alone.
LEMMA ReturnStep ==
  ASSUME IInv, NEW p \in Procs, Return(p), UNCHANGED <<path, files>>,
         UNCHANGED <<deleted, attempts, reported, failures>>
  PROVE  IInv'
<1>1. Released({p})
  BY ReturnReleases DEF IInv
<1>2. OneSession'
  BY DEF IInv, OneSession
<1>3. CallTypes' /\ LocksHeld'
  BY <1>1, ReleaseKeepsLocks DEF IInv
<1>4. WritersAtPath' /\ CountTypes'
  BY <1>1, ReleaseKeepsRest DEF IInv, CountTypes
<1> QED
  BY <1>2, <1>3, <1>4 DEF IInv

LEMMA OpenStep ==
  ASSUME IInv, NEW p \in Procs, OpenLockFile(p) PROVE IInv'
<1>1. pc[p] = "waiting" /\ UNCHANGED <<deleted, attempts, reported, failures>>
  BY DEF OpenLockFile
<1>2. CASE path # None /\ fd' = [fd EXCEPT ![p] = path] /\ Goto(p, "opened")
           /\ UNCHANGED <<path, files, lockVars, op>>
  <2>1. OneSession' /\ path \in 1 .. Len(files') /\ Len(files') >= Len(files)
    BY <1>2, LenProperties DEF IInv, OneSession
  <2>2. /\ Len(holders') = Len(files') /\ holders' \in Seq(SUBSET Procs)
        /\ UNCHANGED <<holders, local, op, files, path>>
    BY <1>2 DEF IInv, CallTypes, lockVars
  <2>3. \A j \in 1 .. Len(files') : j > Len(files) => holders'[j] = {}
    BY <2>1, <2>2, LenProperties DEF IInv, OneSession
  <2>4. pc[p] \notin Holding /\ pc[p] # "idle" /\ pc' = [pc EXCEPT ![p] = "opened"]
    BY <1>1, <1>2 DEF Goto, Holding
  <2>5. path \in 1 .. Len(files') \cup {None} /\ path # None
    BY <1>2, <2>1
  <2>6. UNCHANGED <<op, local, attempts, reported, deleted, failures>>
        /\ fd' = [fd EXCEPT ![p] = path]
        /\ \A j \in 1 .. Len(files) : holders'[j] = holders[j]
    BY <1>1, <1>2, <2>2
  <2> QED
    BY <2>1, <2>2, <2>3, <2>4, <2>5, <2>6, HandleSteps
<1>3. CASE path = None /\ NewFile(<<>>) /\ fd' = [fd EXCEPT ![p] = Len(files) + 1]
           /\ Goto(p, "opened") /\ UNCHANGED <<local, op>>
  <2>1. <<>> \in Seq(Events) /\ Len(files) \in Nat
    BY LenProperties DEF IInv, OneSession
  <2>2. /\ OneSession' /\ Len(files') = Len(files) + 1
        /\ holders' \in Seq(SUBSET Procs) /\ Len(holders') = Len(files')
        /\ \A i \in 1 .. Len(files) : holders'[i] = holders[i]
        /\ holders'[Len(files')] = {}
    BY <1>3, <2>1, NewFileIsSound
  <2>3. Len(files) + 1 \in 1 .. Len(files') /\ Len(files) + 1 # None
    BY <2>1, <2>2, JournalAssumption
  <2>4. \A j \in 1 .. Len(files') : j > Len(files) => holders'[j] = {}
    BY <2>1, <2>2
  <2> QED
    <3>1. pc[p] \notin Holding /\ pc[p] # "idle" /\ pc' = [pc EXCEPT ![p] = "opened"]
      BY <1>1, <1>3 DEF Goto, Holding
    <3>2. UNCHANGED <<op, local, attempts, reported, deleted, failures>>
          /\ fd' = [fd EXCEPT ![p] = Len(files) + 1] /\ path = None
          /\ Len(files') >= Len(files)
      BY <1>1, <1>3, <2>1, <2>2
    <3> QED
      BY <2>2, <2>3, <2>4, <3>1, <3>2, HandleSteps
<1>4. CASE Return(p) /\ UNCHANGED <<path, files>>
  BY <1>1, <1>4, ReturnStep
<1> QED
  BY <1>2, <1>3, <1>4 DEF OpenLockFile

LEMMA TryLockStep ==
  ASSUME IInv, NEW p \in Procs, TryLock(p) PROVE IInv'
<1> DEFINE mine == holders[fd[p]]
<1>1. /\ pc[p] = "opened" /\ fd[p] \in 1 .. Len(holders)
      /\ UNCHANGED <<path, files, deleted, local, op, attempts, reported, failures>>
  BY DEF TryLock, fileVars, IInv, CallTypes, LocksHeld, Handling
<1>2. CASE /\ IF op[p] = "read" THEN \A q \in mine : op[q] = "read" ELSE mine = {}
           /\ holders' = [holders EXCEPT ![fd[p]] = @ \cup {p}]
           /\ Goto(p, "locked") /\ UNCHANGED fd
  <2>1. mine \in SUBSET Procs
    BY <1>1, ElementOfSeq DEF IInv, CallTypes
  <2>2. /\ holders' \in Seq(SUBSET Procs) /\ Len(holders') = Len(holders)
        /\ \A j \in 1 .. Len(holders) :
             holders'[j] = IF j = fd[p] THEN mine \cup {p} ELSE holders[j]
    <3>1. mine \cup {p} \in SUBSET Procs
      BY <2>1
    <3>2. holders' = [holders EXCEPT ![fd[p]] = mine \cup {p}]
      BY <1>2
    <3> HIDE DEF mine
    <3> QED
      BY <1>1, <3>1, <3>2, ExceptSeq DEF IInv, CallTypes
  <2>3. ASSUME NEW q \in Procs
        PROVE  pc'[q] = IF q = p THEN "locked" ELSE pc[q]
    BY <1>2 DEF Goto, IInv, CallTypes
  <2>4. CallTypes'
    BY <1>1, <1>2, <2>2 DEF IInv, CallTypes, Goto, Labels
  <2>5. ASSUME NEW q \in Procs
        PROVE  /\ pc'[q] \in Handling => fd[q] # None
               /\ pc'[q] \in Holding => q \in holders'[fd[q]]
               /\ pc'[q] \in Holding /\ op[q] # "read" => holders'[fd[q]] = {q}
               /\ pc'[q] \in Writing => op[q] # "read"
    <3>1. CASE q = p
      <4>1. holders'[fd[p]] = mine \cup {p} /\ fd[p] # None
        BY <1>1, <2>2 DEF IInv, LocksHeld, Handling
      <4> QED
        BY <1>2, <2>3, <3>1, <4>1 DEF Handling, Holding, Writing
    <3>2. CASE q # p
      <4>1. pc'[q] = pc[q]
        BY <2>3, <3>2
      <4>2. ASSUME pc[q] \in Holding
            PROVE  fd[q] \in 1 .. Len(holders) /\ q \in holders[fd[q]]
        BY <4>2 DEF IInv, CallTypes, LocksHeld, Holding, Handling
      <4>3. ASSUME pc[q] \in Holding, op[q] # "read" PROVE fd[q] # fd[p]
        BY <1>2, <4>2, <4>3 DEF IInv, LocksHeld
      <4>4. ASSUME pc[q] \in Holding PROVE q \in holders'[fd[q]]
        BY <2>2, <4>2, <4>4
      <4>5. ASSUME pc[q] \in Holding, op[q] # "read" PROVE holders'[fd[q]] = {q}
        BY <2>2, <4>2, <4>3, <4>5 DEF IInv, LocksHeld
      <4> QED
        BY <4>1, <4>4, <4>5 DEF IInv, LocksHeld
    <3> QED
      BY <3>1, <3>2
  <2>6. ASSUME NEW j \in 1 .. Len(holders'), NEW q \in holders'[j]
        PROVE  pc'[q] \in Holding /\ fd[q] = j
    <3>1. j \in 1 .. Len(holders) /\ ((q = p /\ j = fd[p]) \/ q \in holders[j])
      BY <2>2, <2>6
    <3>2. CASE q = p /\ j = fd[p]
      BY <2>3, <3>2 DEF Holding
    <3>3. CASE q \in holders[j]
      <4>1. q \in Procs /\ pc[q] \in Holding /\ fd[q] = j
        BY <3>1, <3>3, ElementOfSeq DEF IInv, CallTypes, LocksHeld
      <4> QED
        BY <2>3, <4>1 DEF Holding
    <3> QED
      BY <3>1, <3>2, <3>3
  <2>7. LocksHeld'
    BY <1>1, <1>2, <2>5, <2>6 DEF LocksHeld
  <2>8. OneSession'
    BY <1>1 DEF IInv, OneSession
  <2>9. WritersAtPath' /\ CountTypes'
    BY <1>1, <1>2, <2>3 DEF IInv, WritersAtPath, CountTypes, Writing
  <2> QED
    BY <2>4, <2>7, <2>8, <2>9 DEF IInv
<1>3. CASE fd' = [fd EXCEPT ![p] = None] /\ Goto(p, "waiting") /\ UNCHANGED holders
  <2>1. OneSession' /\ Len(files') >= Len(files) /\ Len(files) \in Nat
    BY <1>1, LenProperties DEF IInv, OneSession
  <2>2. Len(holders') = Len(files') /\ holders' \in Seq(SUBSET Procs)
    BY <1>1, <1>3 DEF IInv, CallTypes
  <2>3. \A j \in 1 .. Len(files') : j > Len(files) => holders'[j] = {}
    BY <1>1, <2>1
  <2> QED
    BY <1>1, <1>3, <2>1, <2>2, <2>3, HandleSteps DEF Goto, Holding
<1> QED
  BY <1>1, <1>2, <1>3 DEF TryLock

-----------------------------------------------------------------------------
(* The steps under the lock.                                               *)

\* A writer returns, whatever it did to the path or to the file it has: there
\* is no other that would notice.
LEMMA WriterReturns ==
  ASSUME IInv, NEW p \in Procs, pc[p] \in Writing, Return(p), OneSession',
         Len(files') = Len(files), UNCHANGED <<failures>>,
         attempts' \in [Procs -> 0 .. MaxAttempts],
         \A q \in Procs \ {p} : attempts'[q] = attempts[q],
         reported' \subseteq Events, deleted' \in BOOLEAN
  PROVE  IInv'
<1>1. Released({p})
  BY ReturnReleases DEF IInv
<1>2. CallTypes' /\ LocksHeld'
  BY <1>1, ReleaseKeepsLocks DEF IInv
<1>3. \A q \in Procs \ {p} : pc[q] \notin Writing
  BY OneWriter
<1>4. failures' \in 0 .. MaxFailures
  BY DEF IInv, CountTypes
<1>5. WritersAtPath' /\ CountTypes'
  BY <1>1, <1>3, <1>4, ReleaseKeepsRest
<1> QED
  BY <1>2, <1>5 DEF IInv

\* A call that has the lock goes on to a step of a writer.
LEMMA WriterGoesOn ==
  ASSUME IInv, NEW p \in Procs, pc[p] \in Holding, op[p] # "read",
         fd[p] = 1, path = 1, NEW l \in Writing,
         pc' = [pc EXCEPT ![p] = l], UNCHANGED <<lockVars, op, fd, path>>,
         OneSession', Len(files') = Len(files),
         l = "loaded" => files'[path].tail = "clean"
  PROVE  CallTypes' /\ LocksHeld' /\ WritersAtPath'
<1>1. /\ holders' = holders /\ local' = local /\ op' = op /\ fd' = fd
      /\ \A q \in Procs : pc'[q] = IF q = p THEN l ELSE pc[q]
  BY DEF lockVars, IInv, CallTypes
<1>2. CallTypes'
  BY <1>1 DEF IInv, CallTypes, Labels, Writing
<1>3. ASSUME NEW q \in Procs, pc[q] \in Writing PROVE q = p
  <2>1. fd[q] = 1 /\ holders[1] = {q} /\ holders[1] = {p}
    BY <1>3 DEF IInv, WritersAtPath, LocksHeld, Writing, Holding
  <2> QED
    BY <2>1
<1>4. ASSUME NEW q \in Procs
      PROVE  pc'[q] \in Holding <=> pc[q] \in Holding
  BY <1>1 DEF Holding, Writing
<1>5. LocksHeld'
  <2>1. ASSUME NEW q \in Procs
        PROVE  /\ pc'[q] \in Handling => fd[q] # None
               /\ pc'[q] \in Writing => op[q] # "read"
    BY <1>1 DEF IInv, LocksHeld, Holding, Handling, Writing
  <2>2. ASSUME NEW i \in 1 .. Len(holders), NEW q \in holders[i]
        PROVE  pc'[q] \in Holding /\ fd[q] = i
    <3>1. q \in Procs
      BY ElementOfSeq DEF IInv, CallTypes
    <3> QED
      BY <1>4, <3>1 DEF IInv, LocksHeld
  <2> QED
    BY <1>1, <1>4, <2>1, <2>2 DEF IInv, LocksHeld
<1>6. WritersAtPath'
  BY <1>1, <1>3 DEF WritersAtPath
<1> QED
  BY <1>2, <1>5, <1>6

LEMMA LoadStep ==
  ASSUME IInv, NEW p \in Procs, LoadLocked(p) PROVE IInv'
<1>1. /\ pc[p] = "locked" /\ op[p] # "read"
      /\ UNCHANGED <<path, deleted, attempts, reported, failures>>
  BY DEF LoadLocked
<1>2. CASE /\ path # None /\ Replayable(path)
           /\ files' = [files EXCEPT ![path] = Repaired(@)]
           /\ Goto(p, "loaded") /\ UNCHANGED <<holders, local, op, fd>>
  <2> DEFINE f == Repaired(files[path])
  <2>1. path = 1 /\ Len(files) = 1 /\ SoundFile(files[path]) /\ path \in 1 .. Len(files)
    BY <1>2 DEF IInv, OneSession, Replayable
  <2>2. fd[p] = 1
    BY <1>1, <2>1 DEF IInv, CallTypes, LocksHeld, Handling
  <2>3. SoundFile(f) /\ f.tail = "clean"
    <3>1. Len(files[path].records) \in Nat
      BY <2>1, LenProperties DEF SoundFile, Files
    <3>2. files[path] \in Files /\ files[path].synced <= Len(files[path].records)
      BY <2>1 DEF SoundFile
    <3>3. /\ f.tail = "clean" /\ f.records = files[path].records
          /\ f.synced = IF files[path].tail = "clean" THEN files[path].synced
                        ELSE Len(files[path].records)
          /\ f \in Files
      BY <3>1, <3>2 DEF Files, Repaired, Tails
    <3> HIDE DEF f
    <3> QED
      BY <3>1, <3>2, <3>3 DEF SoundFile
  <2>4. files' = [files EXCEPT ![path] = f]
    BY <1>2
  <2> HIDE DEF f
  <2>5. OneSession' /\ Len(files') = Len(files) /\ files'[path] = f
    <3>1. path' = path /\ (f.records # <<>> => path = 1) /\ OneSession
      BY <1>1, <2>1 DEF IInv
    <3>2. OneSession' /\ Len(files') = Len(files)
      BY <2>1, <2>3, <2>4, <3>1, ReplacedFile
    <3>3. files'[path] = f
      BY <2>1, <2>4, LenProperties DEF IInv, OneSession
    <3> QED
      BY <3>2, <3>3
  <2>6. CallTypes' /\ LocksHeld' /\ WritersAtPath'
    <3>1. /\ pc[p] \in Holding /\ "loaded" \in Writing
          /\ pc' = [pc EXCEPT ![p] = "loaded"] /\ UNCHANGED <<lockVars, op, fd, path>>
      BY <1>1, <1>2 DEF Goto, lockVars, Holding, Writing
    <3> QED
      BY <1>1, <2>1, <2>2, <2>3, <2>5, <3>1, WriterGoesOn
  <2>7. CountTypes'
    <3>1. \A q \in Procs : pc'[q] = IF q = p THEN "loaded" ELSE pc[q]
      BY <1>2 DEF Goto, IInv, CallTypes
    <3> QED
      BY <1>1, <1>2, <3>1 DEF IInv, CountTypes
  <2> QED
    BY <2>5, <2>6, <2>7 DEF IInv
<1>3. CASE Return(p) /\ UNCHANGED files
  BY <1>1, <1>3, ReturnStep
<1> QED
  BY <1>1, <1>2, <1>3 DEF LoadLocked

\* What a write leaves of a sound and clean file is sound.
LEMMA WrittenIsSound ==
  ASSUME NEW f, SoundFile(f), f.tail = "clean", NEW e \in Events, NEW g \in Written(f, e)
  PROVE  SoundFile(g)
<1>1. /\ Append(f.records, e) \in Seq(Events) /\ Len(f.records) \in Nat
      /\ Len(Append(f.records, e)) = Len(f.records) + 1
  BY AppendProperties, LenProperties DEF SoundFile, Files
<1> DEFINE whole == [f EXCEPT !.records = Append(@, e)]
           bare == [f EXCEPT !.records = Append(@, e), !.tail = "bare"]
           torn == [f EXCEPT !.tail = "torn"]
<1>2. SoundFile(whole) /\ SoundFile(bare) /\ SoundFile(torn)
  <2>1. f \in Files /\ f.synced \in Nat /\ f.synced <= Len(f.records)
    BY DEF SoundFile, Files
  <2>2. SoundFile(torn)
    BY <2>1 DEF SoundFile, Files, Tails
  <2>3. whole.records = Append(f.records, e) /\ whole.synced = f.synced /\ whole.tail = f.tail
        /\ whole \in Files
    BY <1>1, <2>1 DEF Files
  <2>4. bare.records = Append(f.records, e) /\ bare.synced = f.synced /\ bare.tail = "bare"
        /\ bare \in Files
    BY <1>1, <2>1 DEF Files, Tails
  <2> HIDE DEF whole, bare, torn
  <2>5. SoundFile(whole) /\ SoundFile(bare)
    BY <1>1, <2>1, <2>3, <2>4 DEF SoundFile
  <2> QED
    BY <2>2, <2>5
<1>3. g \in {whole, bare, torn, f}
  BY DEF Written
<1> HIDE DEF whole, bare, torn
<1> QED
  BY <1>2, <1>3

LEMMA WriteStep ==
  ASSUME IInv, NEW p \in Procs, WriteEvent(p) PROVE IInv'
<1> DEFINE e == <<p, attempts[p] + 1>>
<1>1. /\ pc[p] = "loaded" /\ op[p] = "append" /\ pc[p] \in Writing /\ pc[p] \in Holding
      /\ attempts' = [attempts EXCEPT ![p] = @ + 1]
      /\ UNCHANGED <<path, deleted, reported, failures>>
  BY DEF WriteEvent, Writing, Holding
<1>2. /\ path = 1 /\ path \in 1 .. Len(files) /\ SoundFile(files[path])
      /\ files[path].tail = "clean" /\ fd[p] = 1
  BY <1>1, WriterHasFile DEF IInv, WritersAtPath
<1>3. attempts[p] + 1 \in 0 .. MaxAttempts /\ e \in Events
  BY <1>1, JournalAssumption DEF IInv, CountTypes, Events
<1>4. /\ attempts' \in [Procs -> 0 .. MaxAttempts]
      /\ \A q \in Procs \ {p} : attempts'[q] = attempts[q]
  BY <1>1, <1>3 DEF IInv, CountTypes
<1>5. PICK f \in Written(files[path], e) :
        /\ files' = [files EXCEPT ![path] = f]
        /\ \/ Goto(p, "written") /\ UNCHANGED <<lockVars, op, fd>>
           \/ Return(p)
  BY DEF WriteEvent
<1> HIDE DEF e
<1>6. SoundFile(f)
  BY <1>2, <1>3, WrittenIsSound
<1>7. OneSession' /\ Len(files') = Len(files)
  BY <1>1, <1>2, <1>5, <1>6, ReplacedFile DEF IInv
<1>8. CASE Goto(p, "written") /\ UNCHANGED <<lockVars, op, fd>>
  <2>1. CallTypes' /\ LocksHeld' /\ WritersAtPath'
    <3>1. /\ "written" \in Writing /\ op[p] # "read" /\ "written" # "loaded"
          /\ pc' = [pc EXCEPT ![p] = "written"] /\ UNCHANGED <<lockVars, op, fd, path>>
      BY <1>1, <1>8 DEF Goto, Writing
    <3> QED
      BY <1>1, <1>2, <1>7, <3>1, WriterGoesOn
  <2>2. CountTypes'
    <3>1. \A q \in Procs : pc'[q] = IF q = p THEN "written" ELSE pc[q]
      BY <1>8 DEF Goto, IInv, CallTypes
    <3> QED
      BY <1>1, <1>4, <1>8, <3>1 DEF IInv, CountTypes
  <2> QED
    BY <1>7, <2>1, <2>2 DEF IInv
<1>9. CASE Return(p)
  <2>1. reported' \subseteq Events /\ deleted' \in BOOLEAN
    BY <1>1 DEF IInv, CountTypes
  <2> QED
    BY <1>1, <1>4, <1>7, <1>9, <2>1, WriterReturns
<1> QED
  BY <1>5, <1>8, <1>9

LEMMA SyncStep ==
  ASSUME IInv, NEW p \in Procs, SyncEvent(p) PROVE IInv'
<1> DEFINE f == [files[path] EXCEPT !.synced = Len(files[path].records)]
<1>1. /\ pc[p] \in Writing /\ Return(p) /\ UNCHANGED <<path, deleted, attempts, failures>>
      /\ \/ files' = [files EXCEPT ![path] = f]
            /\ reported' = reported \cup {<<p, attempts[p]>>}
         \/ UNCHANGED <<files, reported>>
  BY DEF SyncEvent, Writing
<1>2. path = 1 /\ path \in 1 .. Len(files) /\ SoundFile(files[path])
  BY <1>1, WriterHasFile
<1>3. SoundFile(f)
  <2>1. Len(files[path].records) \in Nat
    BY <1>2, LenProperties DEF SoundFile, Files
  <2> QED
    BY <1>2, <2>1 DEF SoundFile, Files
<1> HIDE DEF f
<1>4. OneSession' /\ Len(files') = Len(files)
  <2>1. CASE files' = [files EXCEPT ![path] = f]
    BY <1>1, <1>2, <1>3, <2>1, ReplacedFile DEF IInv
  <2>2. CASE files' = files
    BY <1>1, <2>2 DEF IInv, OneSession
  <2> QED
    BY <1>1, <2>1, <2>2
<1>5. /\ reported' \subseteq Events /\ deleted' \in BOOLEAN
      /\ attempts' \in [Procs -> 0 .. MaxAttempts] /\ attempts' = attempts
  BY <1>1 DEF IInv, CountTypes, Events
<1> QED
  BY <1>1, <1>4, <1>5, WriterReturns

LEMMA RemoveStep ==
  ASSUME IInv, NEW p \in Procs, RemoveFile(p) PROVE IInv'
<1>1. /\ pc[p] \in Writing /\ Return(p) /\ path' = None /\ deleted' = TRUE
      /\ UNCHANGED <<files, attempts, reported, failures>>
  BY DEF RemoveFile, Writing
<1>2. OneSession' /\ Len(files') = Len(files)
  BY <1>1, JournalAssumption DEF IInv, OneSession
<1>3. reported' \subseteq Events /\ attempts' \in [Procs -> 0 .. MaxAttempts] /\ attempts' = attempts
  BY <1>1 DEF IInv, CountTypes
<1> QED
  BY <1>1, <1>2, <1>3, WriterReturns

-----------------------------------------------------------------------------
(* Failures.                                                               *)

\* What survives a power failure is a sound file, with no record more.
LEMMA SurvivorIsSound ==
  ASSUME NEW f, SoundFile(f), NEW g \in Surviving(f)
  PROVE  SoundFile(g) /\ (g.records # <<>> => f.records # <<>>)
<1>1. /\ f.records \in Seq(Events) /\ f.synced \in Nat /\ Len(f.records) \in Nat
      /\ f.synced <= Len(f.records) /\ f.tail \in Tails /\ f.tail # "mangled"
  BY LenProperties DEF SoundFile, Files
<1>2. PICK n \in f.synced .. Len(f.records) : g.records = SubSeq(f.records, 1, n)
  BY DEF Surviving
<1>3. g.synced = f.synced /\ g.tail \in Tails
  BY DEF Surviving
<1>4. g.tail # "mangled"
  BY <1>1 DEF Surviving
<1>5. g = [records |-> g.records, synced |-> g.synced, tail |-> g.tail]
  BY DEF Surviving
<1>6. g.records \in Seq(Events) /\ Len(g.records) = n
  <2>1. \A i \in 1 .. n : f.records[i] \in Events
    BY <1>1, <1>2, ElementOfSeq
  <2>2. n \in Nat
    BY <1>1, <1>2
  <2> QED
    BY <1>2, <2>1, <2>2, SubSeqProperties
<1>7. SoundFile(g)
  <2>1. g \in Files
    BY <1>1, <1>3, <1>5, <1>6 DEF Files
  <2> QED
    BY <1>1, <1>2, <1>3, <1>4, <1>6, <2>1 DEF SoundFile
<1>8. ASSUME f.records = <<>> PROVE g.records = <<>>
  <2>1. n = 0
    BY <1>1, <1>2, <1>8
  <2> QED
    BY <1>6, <2>1, EmptySeq
<1> QED
  BY <1>7, <1>8

LEMMA FailureStep ==
  ASSUME IInv, NEW D \in SUBSET Procs, Killed(D), OneSession', Len(files') = Len(files),
         \A q \in Procs \ D : files' = files, UNCHANGED <<path, deleted, attempts, reported>>,
         failures' \in 0 .. MaxFailures
  PROVE  IInv'
<1>1. Released(D)
  BY KilledReleases DEF IInv
<1>2. CallTypes' /\ LocksHeld'
  BY <1>1, ReleaseKeepsLocks DEF IInv
<1>3. /\ attempts' \in [Procs -> 0 .. MaxAttempts] /\ attempts' = attempts
      /\ reported' \subseteq Events /\ deleted' \in BOOLEAN
  BY DEF IInv, CountTypes
<1>4. WritersAtPath' /\ CountTypes'
  BY <1>1, <1>3, ReleaseKeepsRest
<1> QED
  BY <1>2, <1>4 DEF IInv

LEMMA CrashStep == ASSUME IInv, NEW s \in Stores, Crash(s) PROVE IInv'
<1> DEFINE D == {p \in Procs : StoreOf[p] = s}
<1>1. Killed(D) /\ UNCHANGED <<path, files, deleted, attempts, reported>>
  BY DEF Crash, fileVars
<1>2. OneSession' /\ Len(files') = Len(files)
  BY <1>1 DEF IInv, OneSession
<1>3. failures' \in 0 .. MaxFailures
  BY JournalAssumption DEF Crash, IInv, CountTypes
<1>4. D \in SUBSET Procs
  OBVIOUS
<1> HIDE DEF D
<1> QED
  BY <1>1, <1>2, <1>3, <1>4, FailureStep

LEMMA PowerStep == ASSUME IInv, PowerFailure PROVE IInv'
<1>1. Killed(Procs) /\ UNCHANGED <<path, deleted, attempts, reported>>
  BY DEF PowerFailure
<1>2. failures' \in 0 .. MaxFailures
  BY JournalAssumption DEF PowerFailure, IInv, CountTypes
<1>3. OneSession' /\ Len(files') = Len(files)
  <2>1. CASE path = None
    BY <1>1, <2>1 DEF PowerFailure, IInv, OneSession
  <2>2. CASE path # None
    <3>1. PICK f \in Surviving(files[path]) : files' = [files EXCEPT ![path] = f]
      BY <2>2 DEF PowerFailure
    <3>2. path \in 1 .. Len(files) /\ SoundFile(files[path])
          /\ (files[path].records # <<>> => path = 1)
      BY <2>2 DEF IInv, OneSession
    <3>3. SoundFile(f) /\ (f.records # <<>> => path = 1)
      BY <3>2, SurvivorIsSound
    <3> QED
      BY <1>1, <3>1, <3>2, <3>3, ReplacedFile DEF IInv
  <2> QED
    BY <2>1, <2>2
<1>4. \A q \in Procs \ Procs : files' = files
  OBVIOUS
<1> QED
  BY <1>1, <1>2, <1>3, <1>4, FailureStep

-----------------------------------------------------------------------------
(* The theorems.                                                           *)

LEMMA StepIInv == IInv /\ [Next]_vars => IInv'
<1> SUFFICES ASSUME IInv, [Next]_vars PROVE IInv'
  OBVIOUS
<1>1. CASE UNCHANGED vars
  <2>1. UNCHANGED <<path, files, deleted, holders, local, pc, op, fd, attempts, reported, failures>>
    BY <1>1 DEF vars, fileVars, lockVars, callVars
  <2> QED
    BY <2>1 DEF IInv, OneSession, CallTypes, LocksHeld, WritersAtPath, CountTypes
<1>2. ASSUME NEW p \in Procs, Step(p) PROVE IInv'
  <2>1. CASE CreateThread(p)
    BY <2>1, CreateStep
  <2>2. CASE (\E operation \in Operations : Inspect(p, operation)) \/ HoldLocalLock(p)
    BY <2>2, WaitingSteps
  <2>3. CASE InspectMissing(p)
    BY <1>1, <2>3 DEF InspectMissing
  <2>4. CASE OpenLockFile(p)
    BY <2>4, OpenStep
  <2>5. CASE TryLock(p)
    BY <2>5, TryLockStep
  <2>6. CASE CancelWait(p) \/ ReadLocked(p) \/ FinishLoad(p)
    <3>1. Return(p) /\ UNCHANGED <<path, files, deleted, attempts, reported, failures>>
      BY <2>6 DEF CancelWait, ReadLocked, FinishLoad, fileVars
    <3> QED
      BY <3>1, ReturnStep
  <2>7. CASE LoadLocked(p)
    BY <2>7, LoadStep
  <2>8. CASE WriteEvent(p)
    BY <2>8, WriteStep
  <2>9. CASE SyncEvent(p)
    BY <2>9, SyncStep
  <2>10. CASE RemoveFile(p)
    BY <2>10, RemoveStep
  <2> QED
    BY <1>2, <2>1, <2>2, <2>3, <2>4, <2>5, <2>6, <2>7, <2>8, <2>9, <2>10 DEF Step
<1>3. ASSUME NEW s \in Stores, Crash(s) PROVE IInv'
  BY <1>3, CrashStep
<1>4. CASE PowerFailure
  BY <1>4, PowerStep
<1> QED
  BY <1>1, <1>2, <1>3, <1>4 DEF Next

\* What the invariant says in the words of the properties.
LEMMA IInvIsSound == IInv => JournalIsSound
<1> SUFFICES ASSUME IInv PROVE JournalIsSound
  OBVIOUS
<1>1. /\ DOMAIN files = 1 .. Len(files) /\ DOMAIN holders = 1 .. Len(files)
      /\ \A i \in DOMAIN holders : holders[i] \subseteq Procs
  BY LenProperties, ElementOfSeq DEF IInv, OneSession, CallTypes
<1>2. TypeOK
  BY <1>1 DEF IInv, OneSession, SoundFile, CallTypes, CountTypes, Labels, TypeOK
<1>3. WritersExclude
  <2>1. ASSUME NEW p \in Procs, pc[p] \in Writing
        PROVE  path # None /\ path = fd[p] /\ holders[path] = {p}
    BY <2>1, WriterHasFile DEF IInv, WritersAtPath, LocksHeld, Writing, Holding
  <2> QED
    BY <2>1 DEF WritersExclude, Writing
<1>4. NeverMangled
  BY DEF IInv, OneSession, SoundFile, NeverMangled
<1> QED
  BY <1>2, <1>3, <1>4 DEF JournalIsSound

\* A call between its replay and its return is alone with the file the path
\* names, and no crash, short write or power failure leaves a record glued to
\* the remains of another.
THEOREM JournalStaysSound == Spec => []JournalIsSound
<1> QED
  BY InitIInv, StepIInv, IInvIsSound, PTL DEF Spec

-----------------------------------------------------------------------------
(* The journal implements the log of EventLog: every step of JournalFile   *)
(* is a step of the log or leaves it alone.                                *)


\* An event in the journal was made by then; beyond what was fsynced nothing
\* is reported, nor before the session exists; a writer's journal has records, and ends in its own event
\* once that is written; and what was deleted is not the path's file again.
Made(e, a) == e[2] <= a[e[1]]
EventsInOrder(f) ==
  \A k \in 1 .. Len(f.records) :
    /\ Made(f.records[k], attempts)
    /\ k > f.synced => f.records[k] \notin reported
LogInv ==
  /\ \A i \in 1 .. Len(files) : EventsInOrder(files[i])
  /\ \A e \in reported : Made(e, attempts)
  /\ \A p \in Procs : pc[p] \in Writing => files[1].records # <<>>
  /\ \A p \in Procs : pc[p] = "written" =>
       files[1].records[Len(files[1].records)] = <<p, attempts[p]>>
  /\ deleted => files # <<>> /\ path # 1
  /\ files = <<>> => reported = {}

TheLog == IF path = None THEN <<>> ELSE files[path].records
LogStep == [Log!LogNext]_(Log!logVars)

\* The log's variables, as the journal's.
LEMMA LogVariables ==
  /\ Log!logVars = <<TheLog, reported, deleted>>
  /\ Log!LogInit <=> TheLog = <<>> /\ reported = {} /\ deleted = FALSE
BY DEF Log!logVars, Log!LogInit, TheLog

LEMMA InitLog == Init => LogInv /\ Log!LogInit
<1> SUFFICES ASSUME Init PROVE LogInv /\ Log!LogInit
  OBVIOUS
<1>1. Len(files) = 0
  BY EmptySeq DEF Init
<1>2. LogInv
  BY <1>1 DEF Init, LogInv, Writing
<1> QED
  BY <1>2, LogVariables DEF Init, TheLog

\* Steps about locks and calls, and those that end in an error.
LEMMA QuietStep ==
  ASSUME LogInv, UNCHANGED <<path, files, reported, deleted, attempts>>,
         \A q \in Procs : pc'[q] \in Writing => pc'[q] = pc[q]
  PROVE  LogInv' /\ LogStep
<1>1. LogInv'
  BY DEF LogInv, EventsInOrder, Writing
<1>2. UNCHANGED Log!logVars
  BY DEF Log!logVars
<1> QED
  BY <1>1, <1>2 DEF LogStep

LEMMA QuietReturn ==
  ASSUME IInv, LogInv, NEW p \in Procs, Return(p),
         UNCHANGED <<path, files, reported, deleted, attempts>>
  PROVE  LogInv' /\ LogStep
<1>1. \A q \in Procs : pc'[q] = IF q = p THEN "idle" ELSE pc[q]
  BY DEF Return, Goto, IInv, CallTypes
<1> QED
  BY <1>1, QuietStep DEF Writing

\* Events beyond the ones a file already had, or fewer of them.
LEMMA SameEvents ==
  ASSUME NEW f, NEW g, EventsInOrder(f), g.records = f.records,
         f.synced \in Nat, g.synced \in Nat, f.synced <= g.synced,
         UNCHANGED <<attempts, reported>>, Len(f.records) \in Nat
  PROVE  EventsInOrder(g)'
BY DEF EventsInOrder

LEMMA CreateLog ==
  ASSUME IInv, LogInv, NEW p \in Procs, CreateThread(p) PROVE LogInv' /\ LogStep
<1> DEFINE e == <<p, 0>>
           f == [records |-> <<e>>, synced |-> Len(<<e>>), tail |-> "clean"]
<1>1. /\ files = <<>> /\ files' = Append(files, f) /\ path' = Len(files) + 1
      /\ reported' = {e} /\ UNCHANGED <<deleted, pc, attempts>>
  BY DEF CreateThread, NewFile, callVars
<1>2. files' = <<f>> /\ Len(files') = 1 /\ files'[1] = f /\ path' = 1 /\ path = None
  BY <1>1, EmptySeq DEF IInv, OneSession
<1>3. e \in Events /\ 0 <= attempts[p] /\ ~deleted
  BY <1>1, JournalAssumption DEF Events, IInv, CountTypes, LogInv
<1>4. f.records = <<e>> /\ f.synced = 1 /\ Len(f.records) = 1 /\ f.records[1] = e
      /\ e[1] = p /\ e[2] = 0
  OBVIOUS
<1> HIDE DEF f, e
<1>5. \A q \in Procs : pc[q] \notin Writing
  BY <1>2, WriterHasFile
<1>6. Made(e, attempts')
  BY <1>1, <1>3, <1>4 DEF Made
<1>7. LogInv'
  <2>1. EventsInOrder(f)'
    BY <1>1, <1>4, <1>6 DEF EventsInOrder
  <2> QED
    BY <1>1, <1>2, <1>3, <1>4, <1>5, <1>6, <2>1 DEF LogInv, EventsInOrder, Writing
<1>8. TheLog = <<>> /\ TheLog' = <<e>>
  <2>1. 1 # None
    BY JournalAssumption
  <2> QED
    BY <1>2, <1>4, <2>1 DEF TheLog
<1>9. reported' = reported \cup {e}
  BY <1>1 DEF LogInv
<1> QED
  BY <1>1, <1>3, <1>7, <1>8, <1>9 DEF LogStep, Log!LogNext, Log!Create, TheLog

LEMMA OpenLog ==
  ASSUME IInv, LogInv, IInv', NEW p \in Procs, OpenLockFile(p) PROVE LogInv' /\ LogStep
<1> DEFINE f == [records |-> <<>>, synced |-> Len(<<>>), tail |-> "clean"]
<1>1. UNCHANGED <<deleted, attempts, reported>>
  BY DEF OpenLockFile
<1>2. \A q \in Procs : pc'[q] \in Writing => pc'[q] = pc[q]
  BY DEF OpenLockFile, Goto, Return, IInv, CallTypes, Writing
<1>3. CASE UNCHANGED <<path, files>>
  BY <1>1, <1>2, <1>3, QuietStep
<1>4. CASE path = None /\ NewFile(<<>>)
  <2>1. Len(files) \in Nat /\ files \in Seq(Files)
    BY LenProperties DEF IInv, OneSession
  <2>2. f \in Files /\ f.records = <<>> /\ Len(f.records) = 0
    BY DEF Files, Tails
  <2>3. files' = Append(files, f) /\ path' = Len(files) + 1
    BY <1>4 DEF NewFile
  <2> HIDE DEF f
  <2>4. /\ Len(files') = Len(files) + 1 /\ files' # <<>>
        /\ \A i \in 1 .. Len(files) : files'[i] = files[i]
        /\ files'[Len(files) + 1] = f
    BY <2>1, <2>2, <2>3, AppendProperties
  <2>5. \A q \in Procs : pc'[q] \notin Writing
    BY <1>2, <1>4, WriterHasFile
  <2>6. ASSUME NEW i \in 1 .. Len(files') PROVE EventsInOrder(files[i])' \/ files'[i] = f
    BY <1>1, <2>1, <2>4 DEF LogInv, EventsInOrder
  <2>7. \A i \in 1 .. Len(files') : EventsInOrder(files[i])'
    BY <2>2, <2>6 DEF EventsInOrder
  <2>8. deleted => path' # 1
    BY <2>1, <2>3, EmptySeq DEF LogInv
  <2>9. LogInv'
    BY <1>1, <2>4, <2>5, <2>7, <2>8 DEF LogInv, Writing
  <2>10. TheLog = <<>> /\ TheLog' = <<>>
    BY <1>4, <2>1, <2>2, <2>3, <2>4 DEF TheLog
  <2> QED
    BY <1>1, <2>9, <2>10, LogVariables DEF LogStep, TheLog, Log!logVars
<1> QED
  BY <1>3, <1>4 DEF OpenLockFile

\* A file with the events it had, more of them durable.
LEMMA SyncedFile ==
  ASSUME IInv, LogInv, path \in 1 .. Len(files), NEW f, SoundFile(f),
         f.records = files[path].records, files[path].synced <= f.synced,
         files' = [files EXCEPT ![path] = f], UNCHANGED <<path, attempts, reported>>
  PROVE  /\ \A i \in 1 .. Len(files') : EventsInOrder(files[i])'
         /\ Len(files') = Len(files)
         /\ \A i \in 1 .. Len(files) : files'[i].records = files[i].records
         /\ TheLog' = TheLog
<1>1. /\ files \in Seq(Files) /\ f \in Files /\ Len(files) \in Nat
      /\ \A i \in 1 .. Len(files) : SoundFile(files[i])
  BY LenProperties DEF IInv, OneSession, SoundFile
<1>2. /\ Len(files') = Len(files)
      /\ \A j \in 1 .. Len(files) : files'[j] = IF j = path THEN f ELSE files[j]
  BY <1>1, ExceptSeq
<1>3. f.synced \in Nat /\ files[path].synced \in Nat /\ Len(f.records) \in Nat
  BY <1>1, LenProperties DEF SoundFile, Files
<1>4. ASSUME NEW i \in 1 .. Len(files') PROVE EventsInOrder(files[i])'
  <2>1. EventsInOrder(files[i])
    BY <1>2 DEF LogInv
  <2>2. CASE i = path
    BY <1>2, <1>3, <2>1, <2>2 DEF EventsInOrder
  <2>3. CASE i # path
    BY <1>2, <2>1, <2>3 DEF EventsInOrder
  <2> QED
    BY <2>2, <2>3
<1>5. TheLog' = TheLog
  BY <1>2 DEF TheLog
<1> QED
  BY <1>2, <1>4, <1>5

LEMMA LoadLog ==
  ASSUME IInv, LogInv, IInv', NEW p \in Procs, LoadLocked(p) PROVE LogInv' /\ LogStep
<1>1. UNCHANGED <<path, deleted, attempts, reported>>
  BY DEF LoadLocked
<1>2. CASE Return(p) /\ UNCHANGED files
  BY <1>1, <1>2, QuietReturn
<1>3. CASE /\ path # None /\ Replayable(path) /\ Goto(p, "loaded")
           /\ files' = [files EXCEPT ![path] = Repaired(@)]
  <2> DEFINE f == Repaired(files[path])
  <2>1. /\ path = 1 /\ path \in 1 .. Len(files) /\ SoundFile(files[path])
        /\ files[path].records # <<>>
    BY <1>3 DEF IInv, OneSession, Replayable
  <2>2. f.records = files[path].records
    BY <2>1 DEF Repaired, SoundFile, Files
  <2>3. SoundFile(files[path])'
    BY <1>1, <2>1, WriterHasFile, LenProperties, ExceptSeq, <1>3 DEF IInv, OneSession, Goto, CallTypes
  <2>4. files'[path] = f
    BY <1>3, <2>1, LenProperties DEF IInv, OneSession
  <2>5. SoundFile(f) /\ files[path].synced <= f.synced
    <3>1. SoundFile(f)
      BY <1>1, <2>3, <2>4
    <3>2. files[path].synced \in Nat /\ files[path].synced <= Len(files[path].records)
      BY <2>1 DEF SoundFile, Files
    <3>3. f.synced = IF files[path].tail = "clean" THEN files[path].synced
                     ELSE Len(files[path].records)
      BY <2>1 DEF Repaired, SoundFile, Files
    <3> QED
      BY <3>1, <3>2, <3>3
  <2>6. files' = [files EXCEPT ![path] = f]
    BY <1>3
  <2> HIDE DEF f
  <2>7. /\ \A i \in 1 .. Len(files') : EventsInOrder(files[i])'
        /\ Len(files') = Len(files)
        /\ files'[1].records = files[1].records
        /\ TheLog' = TheLog
    BY <1>1, <2>1, <2>2, <2>5, <2>6, SyncedFile
  <2>8. \A q \in Procs : pc'[q] = IF q = p THEN "loaded" ELSE pc[q]
    BY <1>3 DEF Goto, IInv, CallTypes
  <2>9. files # <<>> /\ files' # <<>>
    BY <2>1, <2>7, EmptySeq DEF IInv, OneSession
  <2>10. LogInv'
    BY <1>1, <2>1, <2>7, <2>8, <2>9 DEF LogInv, Writing
  <2> QED
    BY <1>1, <2>7, <2>10, LogVariables DEF LogStep, TheLog, Log!logVars
<1> QED
  BY <1>2, <1>3 DEF LoadLocked

\* What a write leaves: the events there were, or these and the new one.
LEMMA WrittenEvents ==
  ASSUME NEW f, SoundFile(f), f.tail = "clean", NEW e, NEW g \in Written(f, e)
  PROVE  /\ g.synced = f.synced
         /\ g.records = f.records \/ g.records = Append(f.records, e)
         /\ g = Whole(f, e) => g.records = Append(f.records, e)
<1> DEFINE whole == [f EXCEPT !.records = Append(@, e)]
           bare == [f EXCEPT !.records = Append(@, e), !.tail = "bare"]
           torn == [f EXCEPT !.tail = "torn"]
<1>1. f \in Files
  BY DEF SoundFile
<1>2. whole.synced = f.synced /\ whole.records = Append(f.records, e)
  BY <1>1 DEF Files
<1>3. bare.synced = f.synced /\ bare.records = Append(f.records, e)
  BY <1>1 DEF Files
<1>4. torn.synced = f.synced /\ torn.records = f.records
  BY <1>1 DEF Files
<1>5. g \in {whole, bare, torn, f} /\ (g = Whole(f, e) <=> g = whole)
  BY DEF Written, Whole
<1> HIDE DEF whole, bare, torn
<1> QED
  BY <1>2, <1>3, <1>4, <1>5

LEMMA WriteLog ==
  ASSUME IInv, LogInv, IInv', NEW p \in Procs, WriteEvent(p) PROVE LogInv' /\ LogStep
<1> DEFINE e == <<p, attempts[p] + 1>>
           r == files[path].records
<1>1. /\ pc[p] = "loaded" /\ op[p] = "append" /\ pc[p] \in Writing
      /\ attempts' = [attempts EXCEPT ![p] = @ + 1]
      /\ UNCHANGED <<path, deleted, reported>>
  BY DEF WriteEvent, Writing
<1>2. /\ path = 1 /\ path \in 1 .. Len(files) /\ SoundFile(files[path]) /\ path # None
      /\ files[path].tail = "clean" /\ ~deleted
  BY <1>1, WriterHasFile DEF IInv, WritersAtPath, LogInv
<1>3. /\ attempts[p] \in Nat /\ e \in Events /\ e[1] = p /\ e[2] = attempts[p] + 1
      /\ \A q \in Procs : attempts[q] \in Nat /\ attempts'[q] \in Nat /\ attempts[q] <= attempts'[q]
      /\ attempts'[p] = attempts[p] + 1 /\ e = <<p, attempts'[p]>>
  BY <1>1, JournalAssumption DEF IInv, CountTypes, Events
<1>4. PICK f \in Written(files[path], e) :
        /\ files' = [files EXCEPT ![path] = f]
        /\ \/ Goto(p, "written") /\ f = Whole(files[path], e)
           \/ Return(p)
  BY DEF WriteEvent
<1>5. /\ f.synced = files[path].synced /\ (f.records = r \/ f.records = Append(r, e))
      /\ f = Whole(files[path], e) => f.records = Append(r, e)
  BY <1>2, WrittenEvents
<1>6. r \in Seq(Events) /\ Len(r) \in Nat /\ f.synced \in Nat /\ f.synced <= Len(r)
      /\ r # <<>> /\ EventsInOrder(files[path])
  BY <1>1, <1>2, <1>5, LenProperties DEF SoundFile, Files, LogInv
<1> HIDE DEF e, r
<1>7. /\ Append(r, e) # <<>> /\ Len(Append(r, e)) = Len(r) + 1
      /\ \A k \in 1 .. Len(r) : Append(r, e)[k] = r[k]
      /\ Append(r, e)[Len(r) + 1] = e
  BY <1>3, <1>6, AppendProperties
<1>8. /\ Len(files') = Len(files) /\ files \in Seq(Files) /\ files' # <<>>
      /\ \A j \in 1 .. Len(files) : files'[j] = IF j = path THEN f ELSE files[j]
  <2>1. files \in Seq(Files) /\ f \in Files
    <3>1. SoundFile(f)
      BY <1>2, <1>3, WrittenIsSound
    <3> QED
      BY <3>1 DEF SoundFile, IInv, OneSession
  <2> QED
    BY <1>2, <1>4, <2>1, ExceptSeq, EmptySeq
<1>9. ASSUME NEW k \in 1 .. Len(r)
      PROVE  r[k] \in Events /\ Made(r[k], attempts) /\ (k > f.synced => r[k] \notin reported)
  <2>1. Made(r[k], attempts) /\ (k > f.synced => r[k] \notin reported)
    BY <1>5, <1>6 DEF EventsInOrder, r
  <2>2. r[k] \in Events
    BY <1>6, ElementOfSeq
  <2> QED
    BY <2>1, <2>2
<1>10. ~Made(e, attempts) /\ Made(e, attempts')
  BY <1>3 DEF Made, e
<1>11. ASSUME NEW x \in Events, Made(x, attempts) PROVE Made(x, attempts')
  <2>1. x[1] \in Procs /\ x[2] \in Nat
    BY JournalAssumption DEF Events
  <2>2. x[2] <= attempts[x[1]]
    BY <1>11 DEF Made
  <2>3. x[2] <= attempts'[x[1]]
    BY <1>3, <2>1, <2>2
  <2> QED
    BY <2>3 DEF Made
<1>12. e \notin reported /\ \A x \in reported : Made(x, attempts')
  BY <1>10, <1>11 DEF LogInv, IInv, CountTypes
<1>13. EventsInOrder(f)'
  <2>1. ASSUME NEW k \in 1 .. Len(r), f.records[k] = r[k]
        PROVE  Made(f.records[k], attempts') /\ (k > f.synced => f.records[k] \notin reported)
    <3>1. Made(r[k], attempts')
      BY <1>9, <1>11
    <3> QED
      BY <1>9, <2>1, <3>1
  <2>2. CASE f.records = r
    BY <1>1, <2>1, <2>2 DEF EventsInOrder
  <2>3. CASE f.records = Append(r, e)
    <3>1. ASSUME NEW k \in 1 .. Len(f.records)
          PROVE  Made(f.records[k], attempts') /\ (k > f.synced => f.records[k] \notin reported)
      <4>1. CASE k = Len(r) + 1
        BY <1>7, <1>10, <1>12, <2>3, <4>1
      <4>2. CASE k \in 1 .. Len(r)
        BY <1>7, <2>1, <2>3, <4>2
      <4> QED
        BY <1>6, <1>7, <2>3, <4>1, <4>2
    <3> QED
      BY <1>1, <3>1 DEF EventsInOrder
  <2> QED
    BY <1>5, <2>2, <2>3
<1>14. \A i \in 1 .. Len(files') : EventsInOrder(files[i])'
  <2>1. ASSUME NEW i \in 1 .. Len(files') PROVE EventsInOrder(files[i])'
    <3>1. CASE i = path
      BY <1>8, <1>13, <3>1 DEF EventsInOrder
    <3>2. CASE i # path
      <4>1. files'[i] = files[i] /\ files[i].records = <<>>
        BY <1>2, <1>8, <3>2 DEF IInv, OneSession
      <4> QED
        BY <4>1, EmptySeq DEF EventsInOrder
    <3> QED
      BY <3>1, <3>2
  <2> QED
    BY <2>1
<1>15. ASSUME NEW q \in Procs, pc'[q] \in Writing
       PROVE  q = p /\ pc'[q] = "written" /\ f.records = Append(r, e)
  <2>1. CASE q = p
    BY <1>4, <1>5, <1>15, <2>1 DEF Goto, Return, Writing, IInv, CallTypes
  <2>2. CASE q # p
    <3>1. pc[q] \in Writing
      BY <1>4, <1>15, <2>2 DEF Goto, Return, IInv, CallTypes
    <3> QED
      BY <1>1, <2>2, <3>1, OneWriter
  <2> QED
    BY <2>1, <2>2
<1>16. files'[1] = f
  BY <1>2, <1>8
<1>17. \A q \in Procs : pc'[q] = "written" =>
         files'[1].records[Len(files'[1].records)] = <<q, attempts'[q]>>
  BY <1>3, <1>7, <1>15, <1>16 DEF Writing
<1>18. LogInv'
  BY <1>1, <1>2, <1>7, <1>8, <1>12, <1>14, <1>15, <1>16, <1>17 DEF LogInv
<1>19. TheLog = r /\ TheLog' = f.records
  BY <1>1, <1>2, <1>16 DEF TheLog, r
<1>20. LogStep
  <2>1. CASE f.records = r
    BY <1>1, <1>19, <2>1, LogVariables DEF LogStep, TheLog, Log!logVars
  <2>2. CASE f.records = Append(r, e)
    <3>1. ~Log!Contains(e)
      BY <1>6, <1>9, <1>10, <1>19, LenProperties DEF Log!Contains, TheLog
    <3>2. Log!Extended(e)
      BY <1>1, <1>2, <1>19, <2>2, <3>1 DEF Log!Extended, TheLog
    <3> QED
      BY <1>3, <3>2 DEF LogStep, Log!LogNext
  <2> QED
    BY <1>5, <2>1, <2>2
<1> QED
  BY <1>18, <1>20

LEMMA SyncLog ==
  ASSUME IInv, LogInv, IInv', NEW p \in Procs, SyncEvent(p) PROVE LogInv' /\ LogStep
<1> DEFINE f == [files[path] EXCEPT !.synced = Len(files[path].records)]
           e == <<p, attempts[p]>>
           r == files[path].records
<1>1. /\ pc[p] = "written" /\ pc[p] \in Writing /\ Return(p)
      /\ UNCHANGED <<path, deleted, attempts>>
      /\ \/ files' = [files EXCEPT ![path] = f] /\ reported' = reported \cup {e}
         \/ UNCHANGED <<files, reported>>
  BY DEF SyncEvent, Writing
<1>2. /\ path = 1 /\ path \in 1 .. Len(files) /\ SoundFile(files[path]) /\ path # None
      /\ ~deleted /\ r # <<>> /\ r[Len(r)] = e /\ files # <<>>
  BY <1>1, WriterHasFile, EmptySeq DEF LogInv, IInv, OneSession
<1>3. /\ r \in Seq(Events) /\ Len(r) \in Nat /\ Len(r) > 0 /\ files[path].synced \in Nat
      /\ files[path].synced <= Len(r)
  BY <1>2, LenProperties, EmptySeq DEF SoundFile, Files
<1>4. f.records = r /\ f.synced = Len(r) /\ f \in Files
  BY <1>2, <1>3 DEF SoundFile, Files
<1>5. e \in Events /\ e[2] = attempts[p] /\ e[1] = p /\ attempts[p] \in Nat
  BY JournalAssumption DEF IInv, CountTypes, Events
<1>6. CASE UNCHANGED <<files, reported>>
  BY <1>1, <1>6, QuietReturn
<1>7. CASE files' = [files EXCEPT ![path] = f] /\ reported' = reported \cup {e}
  <2> HIDE DEF f, e
  <2>1. /\ Len(files') = Len(files) /\ files' # <<>>
        /\ \A j \in 1 .. Len(files) : files'[j] = IF j = path THEN f ELSE files[j]
    <3>1. files \in Seq(Files)
      BY DEF IInv, OneSession
    <3> QED
      BY <1>2, <1>4, <1>7, <3>1, ExceptSeq, EmptySeq
  <2>2. files'[1] = f /\ TheLog = r /\ TheLog' = r
    BY <1>1, <1>2, <1>4, <2>1 DEF TheLog
  <2>3. \A q \in Procs : pc'[q] \notin Writing
    <3>1. \A q \in Procs : pc'[q] = IF q = p THEN "idle" ELSE pc[q]
      BY <1>1 DEF Return, Goto, IInv, CallTypes
    <3> QED
      BY <1>1, <3>1, OneWriter DEF Writing
  <2>4. ASSUME NEW i \in 1 .. Len(files') PROVE EventsInOrder(files[i])'
    <3>1. CASE i = path
      <4>1. EventsInOrder(files[path])
        BY <1>2 DEF LogInv
      <4> QED
        BY <1>1, <1>3, <1>4, <2>1, <3>1, <4>1 DEF EventsInOrder
    <3>2. CASE i # path
      <4>1. files'[i] = files[i] /\ files[i].records = <<>>
        BY <1>2, <2>1, <3>2 DEF IInv, OneSession
      <4> QED
        BY <4>1, EmptySeq DEF EventsInOrder
    <3> QED
      BY <3>1, <3>2
  <2>5. \A x \in reported' : Made(x, attempts')
    BY <1>1, <1>5, <1>7 DEF LogInv, Made, e
  <2>6. LogInv'
    BY <1>1, <1>2, <2>1, <2>3, <2>4, <2>5 DEF LogInv, Writing
  <2>7. Log!Contains(e)
    BY <1>2, <1>3, <2>2, LenProperties DEF Log!Contains, TheLog
  <2>8. Log!Report(e)
    BY <1>1, <1>2, <1>7, <2>2, <2>7 DEF Log!Report, TheLog
  <2> QED
    BY <1>5, <2>6, <2>8 DEF LogStep, Log!LogNext
<1> QED
  BY <1>1, <1>6, <1>7

LEMMA RemoveLog ==
  ASSUME IInv, LogInv, IInv', NEW p \in Procs, RemoveFile(p) PROVE LogInv' /\ LogStep
<1>1. /\ pc[p] \in Writing /\ Return(p) /\ path' = None /\ deleted' = TRUE
      /\ UNCHANGED <<files, attempts, reported>>
  BY DEF RemoveFile, Writing
<1>2. /\ path = 1 /\ path # None /\ files[path].records # <<>> /\ files # <<>> /\ 1 # None
  BY <1>1, WriterHasFile, EmptySeq DEF LogInv, IInv, OneSession
<1>3. \A q \in Procs : pc'[q] \notin Writing
  <2>1. \A q \in Procs : pc'[q] = IF q = p THEN "idle" ELSE pc[q]
    BY <1>1 DEF Return, Goto, IInv, CallTypes
  <2> QED
    BY <1>1, <2>1, OneWriter DEF Writing
<1>4. LogInv'
  BY <1>1, <1>2, <1>3 DEF LogInv, EventsInOrder, Writing
<1>5. TheLog # <<>> /\ TheLog' = <<>>
  BY <1>1, <1>2 DEF TheLog
<1>6. Log!Delete
  BY <1>1, <1>5 DEF Log!Delete, TheLog
<1> QED
  BY <1>4, <1>6 DEF LogStep, Log!LogNext

LEMMA PowerLog ==
  ASSUME IInv, LogInv, IInv', PowerFailure PROVE LogInv' /\ LogStep
<1>1. Killed(Procs) /\ UNCHANGED <<path, deleted, attempts, reported>>
  BY DEF PowerFailure
<1>2. \A q \in Procs : pc'[q] = "idle"
  BY <1>1 DEF Killed
<1>3. CASE path = None
  BY <1>1, <1>2, <1>3, QuietStep DEF PowerFailure, Writing
<1>4. CASE path # None
  <2> DEFINE r == files[path].records
  <2>1. PICK f \in Surviving(files[path]) : files' = [files EXCEPT ![path] = f]
    BY <1>4 DEF PowerFailure
  <2>2. path \in 1 .. Len(files) /\ SoundFile(files[path]) /\ EventsInOrder(files[path])
    BY <1>4 DEF IInv, OneSession, LogInv
  <2>3. PICK n \in files[path].synced .. Len(r) : f.records = SubSeq(r, 1, n)
    BY DEF Surviving
  <2>4. f.synced = files[path].synced
    BY DEF Surviving
  <2>5. /\ r \in Seq(Events) /\ Len(r) \in Nat /\ files[path].synced \in Nat
        /\ files[path].synced <= Len(r) /\ n \in 0 .. Len(r)
    BY <2>2, <2>3, LenProperties DEF SoundFile, Files
  <2>6. Len(f.records) = n /\ \A k \in 1 .. n : f.records[k] = r[k]
    <3>1. \A k \in 1 .. n : r[k] \in Events
      BY <2>5, ElementOfSeq
    <3> HIDE DEF r
    <3> QED
      BY <2>3, <2>5, <3>1, SubSeqProperties
  <2>7. SoundFile(f) /\ f \in Files
    BY <2>2, SurvivorIsSound DEF SoundFile
  <2>8. /\ Len(files') = Len(files) /\ files # <<>> /\ files' # <<>>
        /\ \A j \in 1 .. Len(files) : files'[j] = IF j = path THEN f ELSE files[j]
    <3>1. files \in Seq(Files)
      BY DEF IInv, OneSession
    <3> QED
      BY <2>1, <2>2, <2>7, <3>1, ExceptSeq, EmptySeq
  <2>9. ASSUME NEW i \in 1 .. Len(files') PROVE EventsInOrder(files[i])'
    <3>1. CASE i = path
      BY <1>1, <2>2, <2>4, <2>5, <2>6, <2>8, <3>1 DEF EventsInOrder
    <3>2. CASE i # path
      BY <1>1, <2>8, <3>2 DEF LogInv, EventsInOrder
    <3> QED
      BY <3>1, <3>2
  <2>10. LogInv'
    BY <1>1, <1>2, <2>8, <2>9 DEF LogInv, Writing
  <2>11. TheLog = r /\ TheLog' = SubSeq(r, 1, n)
    BY <1>1, <1>4, <2>2, <2>3, <2>8 DEF TheLog
  <2>12. \A k \in n + 1 .. Len(r) : r[k] \notin reported
    BY <2>2, <2>3, <2>5 DEF EventsInOrder
  <2> HIDE DEF r
  <2>13. Log!Lose(n)
    BY <1>1, <2>11, <2>12 DEF Log!Lose, TheLog
  <2> QED
    BY <2>5, <2>10, <2>11, <2>13 DEF LogStep, Log!LogNext, TheLog
<1> QED
  BY <1>3, <1>4

-----------------------------------------------------------------------------
LEMMA StepLog ==
  ASSUME IInv, LogInv, IInv', [Next]_vars PROVE LogInv' /\ LogStep
<1>1. CASE UNCHANGED vars
  BY <1>1, QuietStep DEF vars, fileVars, lockVars, callVars
<1>2. ASSUME NEW p \in Procs, Step(p) PROVE LogInv' /\ LogStep
  <2>1. CASE CreateThread(p)
    BY <2>1, CreateLog
  <2>2. CASE (\E operation \in Operations : Inspect(p, operation)) \/ HoldLocalLock(p)
             \/ TryLock(p)
    <3>1. UNCHANGED <<path, files, reported, deleted, attempts>>
      BY <2>2 DEF Inspect, HoldLocalLock, TryLock, fileVars
    <3>2. \E l \in {"inspected", "waiting", "locked"} : pc' = [pc EXCEPT ![p] = l]
      BY <2>2 DEF Inspect, HoldLocalLock, TryLock, Goto
    <3>3. \A q \in Procs : pc'[q] \in Writing => pc'[q] = pc[q]
      BY <3>2 DEF IInv, CallTypes, Writing
    <3> QED
      BY <3>1, <3>3, QuietStep
  <2>3. CASE InspectMissing(p)
    BY <1>1, <2>3 DEF InspectMissing
  <2>4. CASE OpenLockFile(p)
    BY <2>4, OpenLog
  <2>5. CASE CancelWait(p) \/ ReadLocked(p) \/ FinishLoad(p)
    <3>1. Return(p) /\ UNCHANGED <<path, files, reported, deleted, attempts>>
      BY <2>5 DEF CancelWait, ReadLocked, FinishLoad, fileVars
    <3> QED
      BY <3>1, QuietReturn
  <2>6. CASE LoadLocked(p)
    BY <2>6, LoadLog
  <2>7. CASE WriteEvent(p)
    BY <2>7, WriteLog
  <2>8. CASE SyncEvent(p)
    BY <2>8, SyncLog
  <2>9. CASE RemoveFile(p)
    BY <2>9, RemoveLog
  <2> QED
    BY <1>2, <2>1, <2>2, <2>3, <2>4, <2>5, <2>6, <2>7, <2>8, <2>9 DEF Step
<1>3. ASSUME NEW s \in Stores, Crash(s) PROVE LogInv' /\ LogStep
  <2>1. UNCHANGED <<path, files, reported, deleted, attempts>>
    BY <1>3 DEF Crash, fileVars
  <2>2. \A q \in Procs : pc'[q] \in Writing => pc'[q] = pc[q]
    BY <1>3 DEF Crash, Killed, Writing
  <2> QED
    BY <2>1, <2>2, QuietStep
<1>4. CASE PowerFailure
  BY <1>4, PowerLog
<1> QED
  BY <1>1, <1>2, <1>3, <1>4 DEF Next

\* The journal is an append-only log whatever its processes do and whenever
\* they die: an event is added to what its writer replayed, once; a reported
\* one is never lost; and a deleted thread shows no event again.
THEOREM JournalImplementsLog == Spec => ImplementsLog
<1>1. Init => IInv /\ LogInv /\ Log!LogInit
  BY InitIInv, InitLog
<1>2. IInv /\ LogInv /\ [Next]_vars => IInv' /\ LogInv' /\ [Log!LogNext]_(Log!logVars)
  BY StepIInv, StepLog DEF LogStep
<1> QED
  BY <1>1, <1>2, PTL DEF Spec, ImplementsLog, Log!LogSpec
=============================================================================
