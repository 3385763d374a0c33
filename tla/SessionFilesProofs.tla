-------------------------- MODULE SessionFilesProofs --------------------------
(***************************************************************************)
(* What the commands over sessions promise, for any processes, sessions,   *)
(* titles and numbers of commands, and every sound directory they find:    *)
(* journals only grow, a fork is a prefix of its source, a listing is      *)
(* true, and a name selects one session.                                   *)
(*                                                                         *)
(* The argument has three parts.  LegalChange says what one step may do to *)
(* the directory; a sound one stays sound by it, and what a command knows  *)
(* of a session stays true when another process makes such a change.       *)
(* Every row of the catalog says what the journal it was made of said, or  *)
(* how that began.  And a session that bears a name all the time is found  *)
(* or still to be looked at.                                               *)
(***************************************************************************)
EXTENDS SessionFiles, FiniteSetTheorems, WellFoundedInduction, SequenceTheorems, TLAPS

-----------------------------------------------------------------------------
(* What holds of the directory.                                            *)

Prefix(log, n) == SubSeq(log, 1, n)

\* A title event, the next of archive and unarchive, or an event of a turn.
MayFollow(log, e) ==
  /\ e \in FileEvent
  /\ \/ e.kind = "title"
     \/ e.kind = "archive" /\ ~Open(log) /\ ~Archived(log)
     \/ e.kind = "unarchive"
     \/ e.kind \in {"start", "commit", "fail"} /\ ~Archived(log)

\* A published journal is new, or a fork of what its source is.
MayBegin(log, f) ==
  /\ log \in Seq(FileEvent) /\ SoundLog(log)
  /\ log[1].parent # None =>
       /\ f[log[1].parent] # NoFile /\ Forked(log, f[log[1].parent].log)
       /\ log[1].cut \in 1 .. Len(log) /\ log[1].cut <= Len(f[log[1].parent].log)

Kept == file' = file /\ used' = used
Marked(i) == \E b \in BOOLEAN :
  Exists(i) /\ file' = [file EXCEPT ![i].torn = b] /\ used' = used
Extended(i) == \E e \in FileEvent :
  Exists(i) /\ MayFollow(file[i].log, e) /\ file' = [file EXCEPT ![i] = Appended(i, e)]
  /\ used' = used
Removed(i) == Exists(i) /\ ~Open(file[i].log) /\ file' = [file EXCEPT ![i] = NoFile] /\ used' = used
Published(j) == \E log \in Seq(FileEvent) :
  /\ j \notin used /\ MayBegin(log, file) /\ used' = used \cup {j}
  /\ file' = [file EXCEPT ![j] = [log |-> log, torn |-> FALSE]]

LegalChange ==
  Kept \/ \E i \in Ids : Marked(i) \/ Extended(i) \/ Removed(i) \/ Published(i)

DirectoryInv ==
  /\ file \in [Ids -> Journal] /\ used \subseteq Ids
  /\ SoundDirectory(file)
  /\ \A i \in Ids : Exists(i) => i \in used
  /\ \A j \in Forks(file) : file[j].log[1].parent \in used

-----------------------------------------------------------------------------
(* What holds of the commands.                                             *)

Fields == {"cmd", "pc", "sel", "scopes", "todo", "paths", "found", "target", "at", "choice",
           "how"}
Places == {"idle", "gone", "byid", "scan", "read", "match", "act", "apply", "open", "fork",
           "project", "name", "reload", "turn"}
Acting == {"act", "apply", "open", "fork", "project", "name", "reload"}

\* The command of a process has its fields, and works on sessions that were there.
IsOp(o, ids) ==
  /\ DOMAIN o = Fields
  /\ o.cmd \in Commands \cup {None} /\ o.pc \in Places
  /\ o.todo \subseteq ids /\ DOMAIN o.found \subseteq ids /\ IsFiniteSet(DOMAIN o.found)
  /\ o.target \in ids \cup {None} /\ o.at \in Nat /\ o.choice \in Nat
  /\ o.pc \in Acting => o.target \in ids
  /\ o.pc = "fork" => o.cmd = "fork"
  /\ o.cmd = "fork" => o.at = 0
  /\ o.cmd = "backtrack" => o.pc \in {"act", "project", "name", "open"}

\* What a command has read of a journal and relies on when it goes on: the
\* recovered session was not archived, the boundary of a backtrack is the
\* commit before the prompt chosen, and so is the end of the fork.
Relies(o, f) ==
  LET log == f[o.target].log IN
  /\ o.pc = "apply" /\ o.cmd = "recover" /\ f[o.target] # NoFile =>
       o.at <= Len(log) /\ ~Archived(Prefix(log, o.at))
  /\ o.pc = "act" /\ o.cmd = "backtrack" /\ f[o.target] # NoFile =>
       o.choice <= Len(log) /\ o.at = BeforePrompt(log, o.choice)
  /\ o.pc = "project" /\ o.cmd = "backtrack" /\ f[o.target] # NoFile =>
       LET source == f[log[1].parent].log IN
       /\ log[1].parent # None
       /\ source # <<>> =>
            /\ o.choice <= Len(source)
            /\ Commits(Birth(log)) = {n \in Commits(source) : n < o.choice}

CommandInv(c) ==
  /\ IsOp(op[c], used) /\ Relies(op[c], file)
  /\ op[c].pc = "turn" => active[c] # None
CommandsInv ==
  /\ op = [c \in Clients |-> op[c]]
  /\ active \in [Clients -> used \cup {None}] /\ rev \in [Clients -> Nat]
  /\ \A c \in Clients : CommandInv(c)

-----------------------------------------------------------------------------
(* What holds of the catalog and of the names looked for.                  *)

TrueRow(r) ==
  /\ r = Row(r.meta, r.print)
  /\ r = NoRow \/ r.meta \in {Meta(r.print.log), Meta(Birth(r.print.log))}
RowsInv == row = [i \in Ids |-> row[i]] /\ \A i \in Ids : TrueRow(row[i])

\* A session is found, or is in what is still to be read.
Has(o, i) == i \in DOMAIN o.found /\ o.found[i].title = o.sel
Ahead(o, n, archived) == \E k \in n .. Len(o.scopes) : o.scopes[k] = archived
Placed(o, i, archived) ==
  \/ Has(o, i)
  \/ o.pc = "scan" /\ Ahead(o, 1, archived)
  \/ o.pc = "read" /\ i \in o.todo /\ archived = Head(o.scopes)
  \/ o.pc = "read" /\ Ahead(o, 2, archived)
LookupInv(c) ==
  /\ op[c].pc = "byid" => op[c].sel # None /\ op[c].scopes = ScopeOf(op[c].cmd)
  /\ op[c].pc \in {"scan", "read"} => op[c].scopes \in Seq(BOOLEAN) \ {<<>>}
  /\ steady[c] # {} => op[c].pc \in Lookup /\ op[c].sel # None
  /\ \A i \in steady[c] : Bears(c, i) /\ Placed(op[c], i, Archived(file[i].log))
NamesInv == steady \in [Clients -> SUBSET Ids] /\ \A c \in Clients : LookupInv(c)

IInv == DirectoryInv /\ CommandsInv /\ RowsInv /\ NamesInv /\ left \in 0 .. MaxCommands

-----------------------------------------------------------------------------
(* The last event of a kind.                                               *)

\* A set of numbers has a least one.
LEMMA HasFirst ==
  ASSUME NEW S, S \subseteq Nat, S # {}
  PROVE  \E n \in S : \A m \in S : n <= m
<1>1. PICK R : R = {ss \in Nat \X Nat : ss[1] < ss[2]}
  OBVIOUS
<1>2. IsWellFoundedOn(R, Nat)
  BY <1>1, NatLessThanWellFounded DEF OpToRel
<1>3. PICK n \in S : \A m \in S : ~(<<m, n>> \in R)
  BY <1>2, WFMin
<1>4. \A m \in S : <<m, n>> \in R <=> m < n
  BY <1>1
<1>5. \A m \in S : ~(m < n) /\ m \in Nat /\ n \in Nat
  BY <1>3, <1>4
<1> QED
  BY <1>5

\* A set of positions has a last one: the least of its bounds.
LEMMA HasLatest ==
  ASSUME NEW S, NEW k \in Nat, S \subseteq 1 .. k, S # {}
  PROVE  Latest(S) \in S /\ \A m \in S : m <= Latest(S)
<1>1. PICK T : T = {n \in Nat : \A m \in S : m <= n}
  OBVIOUS
<1>2. k \in T /\ T \subseteq Nat
  BY <1>1
<1>3. PICK n \in T : \A m \in T : n <= m
  BY <1>2, HasFirst
<1>4. n \in S
  <2> SUFFICES ASSUME n \notin S PROVE FALSE
    OBVIOUS
  <2>1. n \in Nat /\ \A m \in S : m \in Nat /\ m < n
    BY <1>1, <1>3
  <2>2. PICK m \in S : TRUE
    OBVIOUS
  <2>3. n - 1 \in Nat /\ \A x \in S : x <= n - 1
    BY <2>1, <2>2
  <2>4. n - 1 \in T
    BY <1>1, <2>3
  <2> QED
    BY <1>3, <2>1, <2>4
<1>5. \A m \in S : m <= n
  BY <1>1, <1>3
<1> QED
  BY <1>4, <1>5 DEF Latest

\* There is one such position.
LEMMA LatestIs ==
  ASSUME NEW S, NEW k \in Nat, S \subseteq 1 .. k, NEW n \in S, \A m \in S : m <= n
  PROVE  Latest(S) = n
<1>1. S # {} /\ S \subseteq 1 .. k /\ k \in Nat
  OBVIOUS
<1>2. Latest(S) \in S /\ n <= Latest(S)
  <2>1. Latest(S) \in S /\ \A m \in S : m <= Latest(S)
    BY <1>1, HasLatest
  <2> QED
    BY <2>1
<1>3. PICK x : x = Latest(S)
  OBVIOUS
<1>4. x \in S /\ n <= x /\ x <= n
  BY <1>2, <1>3
<1>5. x \in 1 .. k /\ n \in 1 .. k
  BY <1>1, <1>4
<1> QED
  BY <1>3, <1>4, <1>5

\* Logs whose events are of the same kinds say the same.
SameKinds(l, m) == Len(l) = Len(m) /\ \A n \in 1 .. Len(l) : l[n].kind = m[n].kind

LEMMA KindsDecide ==
  ASSUME NEW l, NEW m, Len(l) \in Nat, SameKinds(l, m)
  PROVE  /\ \A K : KindOfLast(l, K) = KindOfLast(m, K)
         /\ Open(l) = Open(m) /\ Archived(l) = Archived(m) /\ Commits(l) = Commits(m)
<1>1. ASSUME NEW K PROVE Indices(l, K) = Indices(m, K) /\ KindOfLast(l, K) = KindOfLast(m, K)
  <2>1. Indices(l, K) = Indices(m, K)
    BY DEF Indices, SameKinds
  <2>2. CASE Indices(l, K) = {}
    BY <2>1, <2>2 DEF KindOfLast
  <2>3. CASE Indices(l, K) # {}
    <3>1. Indices(l, K) \subseteq 1 .. Len(l)
      BY DEF Indices
    <3>2. Latest(Indices(l, K)) \in 1 .. Len(l)
      BY <2>3, <3>1, HasLatest
    <3> QED
      BY <2>1, <2>3, <3>2 DEF KindOfLast, SameKinds
  <2> QED
    BY <2>1, <2>2, <2>3
<1> QED
  BY <1>1 DEF Open, Archived, Commits

\* An event that is added is the last of its kind.
LEMMA LastAdded ==
  ASSUME NEW X, NEW l \in Seq(X), NEW e \in X, NEW K
  PROVE  KindOfLast(Append(l, e), K) = IF e.kind \in K THEN e.kind ELSE KindOfLast(l, K)
<1>1. PICK m : m = Append(l, e)
  OBVIOUS
<1>2. Len(l) \in Nat /\ Len(m) = Len(l) + 1 /\ m[Len(m)] = e /\ \A n \in 1 .. Len(l) : m[n] = l[n]
  BY <1>1
<1>3. CASE e.kind \in K
  <2>1. Len(m) \in Indices(m, K) /\ Indices(m, K) \subseteq 1 .. Len(m)
    BY <1>2, <1>3 DEF Indices
  <2>2. \A n \in Indices(m, K) : n <= Len(m)
    BY <1>2, <2>1
  <2>3. Latest(Indices(m, K)) = Len(m)
    BY <1>2, <2>1, <2>2, LatestIs
  <2> QED
    BY <1>1, <1>2, <1>3, <2>1, <2>3 DEF KindOfLast
<1>4. CASE e.kind \notin K
  <2>1. Indices(m, K) = Indices(l, K)
    BY <1>2, <1>4 DEF Indices
  <2>2. Indices(l, K) # {} => Latest(Indices(l, K)) \in 1 .. Len(l)
    <3>1. Indices(l, K) \subseteq 1 .. Len(l)
      BY DEF Indices
    <3> QED
      BY <1>2, <3>1, HasLatest
  <2> QED
    BY <1>1, <1>2, <1>4, <2>1, <2>2 DEF KindOfLast
<1> QED
  BY <1>3, <1>4

\* What an event does to a log.
LEMMA Added ==
  ASSUME NEW l \in Seq(FileEvent), NEW e \in FileEvent
  PROVE  LET m == Append(l, e) IN
         /\ m \in Seq(FileEvent) /\ Len(m) = Len(l) + 1 /\ m[Len(m)] = e
         /\ \A n \in 1 .. Len(l) : m[n] = l[n] /\ Prefix(m, n) = Prefix(l, n)
         /\ Prefix(m, Len(m)) = m /\ Prefix(l, Len(l)) = l
         /\ Open(m) <=> (e.kind = "start" \/ (e.kind \notin {"commit", "fail"} /\ Open(l)))
         /\ Archived(m) <=> (e.kind = "archive" \/ (e.kind # "unarchive" /\ Archived(l)))
<1>1. PICK m : m = Append(l, e)
  OBVIOUS
<1>2. /\ m \in Seq(FileEvent) /\ Len(m) = Len(l) + 1 /\ m[Len(m)] = e
      /\ Len(l) \in Nat /\ \A n \in 1 .. Len(l) : m[n] = l[n]
  BY <1>1
<1>3. \A n \in 1 .. Len(l) : Prefix(m, n) = Prefix(l, n)
  BY <1>2 DEF Prefix
<1>4. Prefix(m, Len(m)) = m /\ Prefix(l, Len(l)) = l
  BY <1>2 DEF Prefix
<1>5. /\ KindOfLast(m, {"start", "commit", "fail"}) =
           IF e.kind \in {"start", "commit", "fail"} THEN e.kind
           ELSE KindOfLast(l, {"start", "commit", "fail"})
      /\ KindOfLast(m, {"archive", "unarchive"}) =
           IF e.kind \in {"archive", "unarchive"} THEN e.kind
           ELSE KindOfLast(l, {"archive", "unarchive"})
  BY <1>1, LastAdded
<1>6. Open(m) <=> (e.kind = "start" \/ (e.kind \notin {"commit", "fail"} /\ Open(l)))
  BY <1>5 DEF Open
<1>7. Archived(m) <=> (e.kind = "archive" \/ (e.kind # "unarchive" /\ Archived(l)))
  BY <1>5 DEF Archived
<1> QED
  BY <1>1, <1>2, <1>3, <1>4, <1>6, <1>7

\* One event, and the log of it.
LEMMA OneEvent ==
  ASSUME NEW l \in Seq(FileEvent), Len(l) = 1, l[1].kind = "created"
  PROVE  ~Open(l) /\ ~Archived(l) /\ Commits(l) = {}
<1>1. Indices(l, {"start", "commit", "fail"}) = {} /\ Indices(l, {"archive", "unarchive"}) = {}
      /\ Indices(l, {"commit"}) = {}
  BY DEF Indices
<1> QED
  BY <1>1 DEF Open, Archived, Commits, KindOfLast, None

-----------------------------------------------------------------------------
(* A legal change keeps the directory sound.                               *)

GrowsTo(l, m) == Len(l) <= Len(m) /\ \A n \in 1 .. Len(l) : m[n] = l[n]

LEMMA PartsStay ==
  ASSUME NEW l \in Seq(FileEvent), NEW m \in Seq(FileEvent), GrowsTo(l, m),
         NEW a \in {1, 2}, NEW n \in 0 .. Len(l)
  PROVE  SubSeq(m, a, n) = SubSeq(l, a, n)
<1>1. Len(l) \in Nat /\ Len(m) \in Nat /\ Len(l) <= Len(m)
  BY DEF GrowsTo
<1>2. \A k \in a .. n : m[k] = l[k]
  BY <1>1 DEF GrowsTo
<1> QED
  BY <1>1, <1>2

\* The parts of a journal that is there.
LEMMA JournalParts ==
  ASSUME DirectoryInv
  PROVE  \A i \in Ids :
           /\ file[i] \in Journal /\ file[i] = [log |-> file[i].log, torn |-> file[i].torn]
           /\ file[i].log \in Seq(FileEvent) /\ Len(file[i].log) \in Nat
           /\ Exists(i) => i \in used /\ SoundLog(file[i].log) /\ file[i].log # <<>>
                           /\ Len(file[i].log) >= 1 /\ file[i].log[1] \in FileEvent
<1> SUFFICES ASSUME NEW i \in Ids
             PROVE  /\ file[i] \in Journal /\ file[i] = [log |-> file[i].log, torn |-> file[i].torn]
                    /\ file[i].log \in Seq(FileEvent) /\ Len(file[i].log) \in Nat
                    /\ Exists(i) => i \in used /\ SoundLog(file[i].log) /\ file[i].log # <<>>
                           /\ Len(file[i].log) >= 1 /\ file[i].log[1] \in FileEvent
  OBVIOUS
<1>1. file[i] \in Journal
  BY DEF DirectoryInv
<1>2. /\ file[i] = [log |-> file[i].log, torn |-> file[i].torn]
      /\ file[i].log \in Seq(FileEvent) /\ Len(file[i].log) \in Nat
  BY <1>1 DEF Journal
<1>3. ASSUME Exists(i) PROVE i \in used /\ SoundLog(file[i].log) /\ file[i].log # <<>>
  BY <1>3 DEF DirectoryInv, SoundDirectory, SoundLog, Exists
<1>4. ASSUME Exists(i) PROVE Len(file[i].log) >= 1 /\ file[i].log[1] \in FileEvent
  BY <1>2, <1>3, <1>4
<1> QED
  BY <1>1, <1>2, <1>3, <1>4

LEMMA NoFileIs == NoFile \in Journal /\ NoFile.log = <<>> /\ NoFile.torn = FALSE
<1>1. <<>> \in Seq(FileEvent)
  OBVIOUS
<1> QED
  BY <1>1 DEF NoFile, Journal

\* A sound log that takes an event it may take is sound.
LEMMA SoundAppend ==
  ASSUME NEW l \in Seq(FileEvent), SoundLog(l), NEW e, MayFollow(l, e)
  PROVE  SoundLog(Append(l, e))
<1>0. e \in FileEvent
  BY DEF MayFollow
<1>1. PICK m : m = Append(l, e)
  OBVIOUS
<1>2. /\ m \in Seq(FileEvent) /\ Len(m) = Len(l) + 1 /\ m[Len(m)] = e /\ Len(l) \in Nat
      /\ \A n \in 1 .. Len(l) : m[n] = l[n] /\ Prefix(m, n) = Prefix(l, n)
      /\ Prefix(m, Len(m)) = m /\ Prefix(l, Len(l)) = l
      /\ Open(m) <=> (e.kind = "start" \/ (e.kind \notin {"commit", "fail"} /\ Open(l)))
      /\ Archived(m) <=> (e.kind = "archive" \/ (e.kind # "unarchive" /\ Archived(l)))
  BY <1>0, <1>1, Added
<1>3. Len(l) >= 1 /\ l[1].kind = "created"
  BY <1>2 DEF SoundLog
<1>4. m # <<>> /\ m[1].kind = "created"
  BY <1>2, <1>3
<1>5. \A n \in 1 .. Len(l) : ~(Archived(Prefix(l, n)) /\ (Open(Prefix(l, n)) \/ l[n].kind = "commit"))
  BY DEF SoundLog, Prefix
<1>6. ~(Archived(l) /\ Open(l))
  BY <1>2, <1>3, <1>5
<1>7. ~(Archived(m) /\ (Open(m) \/ e.kind = "commit"))
  BY <1>2, <1>6 DEF MayFollow
<1>8. ASSUME NEW n \in 1 .. Len(m)
      PROVE  ~(Archived(Prefix(m, n)) /\ (Open(Prefix(m, n)) \/ m[n].kind = "commit"))
  <2>1. CASE n \in 1 .. Len(l)
    BY <2>1, <1>2, <1>5
  <2>2. CASE n = Len(m)
    BY <2>2, <1>2, <1>7
  <2> QED
    BY <2>1, <2>2, <1>2
<1> QED
  BY <1>1, <1>4, <1>8 DEF SoundLog, Prefix

\* What a legal change leaves of the journals.
OnlyGrows(i) ==
  LET log == file[i].log  next == file'[i].log IN
  \/ i \notin used
  \/ Exists(i) /\ next = <<>> /\ ~Open(log)
  \/ /\ Exists(i) /\ Len(next) \in Len(log)..Len(log) + 1
     /\ SubSeq(next, 1, Len(log)) = log
     /\ Archived(log) /\ next # log => next[Len(next)].kind \in {"unarchive", "title"}
StaysOrGrows(i) ==
  file'[i] = NoFile \/ (Exists(i) /\ file'[i] # NoFile /\ GrowsTo(file[i].log, file'[i].log))
Kin(log) == log[1].parent # None => file'[log[1].parent] = file[log[1].parent]
Begins(i) ==
  file'[i] = NoFile \/ (i \in used' /\ MayBegin(file'[i].log, file) /\ Kin(file'[i].log))
ChangeIsSound ==
  /\ file' \in [Ids -> Journal] /\ used \subseteq used' /\ used' \subseteq Ids
  /\ \A i \in used : StaysOrGrows(i)
  /\ \A i \in Ids \ used : Begins(i)
  /\ \A i \in Ids : file'[i] # NoFile => SoundLog(file'[i].log)
  /\ \A i \in Ids : file'[i] # file[i] => OnlyGrows(i)

\* An unchanged journal.
LEMMA Unchanged ==
  ASSUME DirectoryInv, NEW i \in Ids, file'[i] = file[i]
  PROVE  /\ i \in used => StaysOrGrows(i)
         /\ i \notin used => Begins(i)
         /\ file'[i] # NoFile => SoundLog(file'[i].log)
<1>1. Exists(i) => i \in used /\ SoundLog(file[i].log) /\ Len(file[i].log) \in Nat
  BY JournalParts
<1>2. Exists(i) => GrowsTo(file[i].log, file'[i].log)
  BY <1>1 DEF GrowsTo
<1> QED
  BY <1>1, <1>2 DEF StaysOrGrows, Begins, Exists

LEMMA MarkIsSound == ASSUME DirectoryInv, NEW i \in Ids, Marked(i) PROVE ChangeIsSound
<1>1. PICK b \in BOOLEAN :
        Exists(i) /\ file' = [file EXCEPT ![i].torn = b] /\ used' = used
  BY DEF Marked
<1>2. /\ i \in used /\ file[i].log \in Seq(FileEvent) /\ Len(file[i].log) \in Nat
      /\ file[i].log # <<>> /\ file[i] \in Journal /\ SoundLog(file[i].log)
      /\ file \in [Ids -> Journal] /\ used \subseteq Ids
  BY <1>1, JournalParts DEF DirectoryInv
<1>3. file'[i] = [log |-> file[i].log, torn |-> b] /\ file'[i] \in Journal
  BY <1>1, <1>2 DEF Journal
<1>4. /\ file'[i] # NoFile /\ file'[i].log = file[i].log
      /\ \A k \in Ids : k # i => file'[k] = file[k]
      /\ file' \in [Ids -> Journal]
  BY <1>1, <1>2, <1>3, NoFileIs
<1>5. StaysOrGrows(i) /\ SoundLog(file'[i].log)
  BY <1>1, <1>2, <1>4 DEF StaysOrGrows, GrowsTo
<1>6. OnlyGrows(i)
  <2>1. SubSeq(file[i].log, 1, Len(file[i].log)) = file[i].log
    BY <1>2
  <2> QED
    BY <1>1, <1>2, <1>4, <2>1 DEF OnlyGrows
<1> QED
  BY <1>1, <1>2, <1>4, <1>5, <1>6, Unchanged DEF ChangeIsSound

LEMMA ExtensionIsSound == ASSUME DirectoryInv, NEW i \in Ids, Extended(i) PROVE ChangeIsSound
<1>1. PICK e \in FileEvent :
        /\ Exists(i) /\ MayFollow(file[i].log, e)
        /\ file' = [file EXCEPT ![i] = Appended(i, e)] /\ used' = used
  BY DEF Extended
<1>2. /\ i \in used /\ file[i].log \in Seq(FileEvent) /\ Len(file[i].log) \in Nat
      /\ file[i].log # <<>> /\ SoundLog(file[i].log)
      /\ file \in [Ids -> Journal] /\ used \subseteq Ids
  BY <1>1, JournalParts DEF DirectoryInv
<1>3. PICK m : m = Append(file[i].log, e)
  OBVIOUS
<1>4. /\ m \in Seq(FileEvent) /\ Len(m) = Len(file[i].log) + 1 /\ m[Len(m)] = e /\ m # <<>>
      /\ \A n \in 1 .. Len(file[i].log) : m[n] = file[i].log[n]
      /\ SubSeq(m, 1, Len(file[i].log)) = file[i].log
  BY <1>2, <1>3
<1>5. file'[i] = [log |-> m, torn |-> FALSE] /\ \A k \in Ids : k # i => file'[k] = file[k]
  BY <1>1, <1>2, <1>3 DEF Appended
<1>6. /\ file'[i].log = m /\ file'[i] \in Journal /\ file'[i] # NoFile
      /\ file' \in [Ids -> Journal]
  <2>1. [log |-> m, torn |-> FALSE] \in Journal
    BY <1>4 DEF Journal
  <2>2. file'[i].log = m /\ file'[i] # NoFile
    BY <1>4, <1>5, NoFileIs
  <2>3. file' \in [Ids -> Journal]
    BY <1>1, <1>2, <1>3, <2>1 DEF Appended
  <2> QED
    BY <1>5, <2>1, <2>2, <2>3
<1>7. SoundLog(m)
  BY <1>1, <1>2, <1>3, SoundAppend
<1>8. StaysOrGrows(i)
  BY <1>1, <1>2, <1>4, <1>6 DEF StaysOrGrows, GrowsTo
<1>9. OnlyGrows(i)
  <2>1. Archived(file[i].log) => e.kind \in {"unarchive", "title"}
    BY <1>1 DEF MayFollow
  <2>2. Len(m) \in Len(file[i].log) .. Len(file[i].log) + 1
    BY <1>2, <1>4
  <2> QED
    BY <1>1, <1>4, <1>6, <2>1, <2>2 DEF OnlyGrows
<1> QED
  BY <1>1, <1>2, <1>5, <1>6, <1>7, <1>8, <1>9, Unchanged DEF ChangeIsSound

LEMMA RemovalIsSound == ASSUME DirectoryInv, NEW i \in Ids, Removed(i) PROVE ChangeIsSound
<1>1. /\ Exists(i) /\ ~Open(file[i].log) /\ file' = [file EXCEPT ![i] = NoFile] /\ used' = used
      /\ file \in [Ids -> Journal] /\ used \subseteq Ids
  BY DEF Removed, DirectoryInv
<1>2. i \in used
  BY <1>1, JournalParts
<1>3. /\ file'[i] = NoFile /\ \A k \in Ids : k # i => file'[k] = file[k]
      /\ file' \in [Ids -> Journal]
  BY <1>1, NoFileIs
<1>4. StaysOrGrows(i) /\ OnlyGrows(i)
  BY <1>1, <1>3, NoFileIs DEF StaysOrGrows, OnlyGrows
<1> QED
  BY <1>1, <1>2, <1>3, <1>4, Unchanged DEF ChangeIsSound

LEMMA PublicationIsSound == ASSUME DirectoryInv, NEW j \in Ids, Published(j) PROVE ChangeIsSound
<1>1. PICK log \in Seq(FileEvent) :
        /\ j \notin used /\ MayBegin(log, file) /\ used' = used \cup {j}
        /\ file' = [file EXCEPT ![j] = [log |-> log, torn |-> FALSE]]
  BY DEF Published
<1>2. file \in [Ids -> Journal] /\ used \subseteq Ids
  BY DEF DirectoryInv
<1>3. [log |-> log, torn |-> FALSE] \in Journal
  BY <1>1 DEF Journal
<1>4. /\ file'[j] = [log |-> log, torn |-> FALSE] /\ file'[j].log = log
      /\ \A k \in Ids : k # j => file'[k] = file[k]
      /\ file' \in [Ids -> Journal]
  BY <1>1, <1>2, <1>3
<1>5. SoundLog(log) /\ j \in used'
  BY <1>1 DEF MayBegin
<1>6. Kin(log)
  <2> SUFFICES ASSUME log[1].parent # None PROVE file'[log[1].parent] = file[log[1].parent]
    BY DEF Kin
  <2>1. file[log[1].parent] # NoFile
    BY <1>1 DEF MayBegin
  <2>2. log[1] \in FileEvent
    <3>1. log # <<>>
      BY <1>5 DEF SoundLog
    <3> QED
      BY <1>1, <3>1
  <2>3. log[1].parent \in Ids
    BY <2>2 DEF FileEvent
  <2>4. log[1].parent \in used
    BY <2>1, <2>3, JournalParts DEF Exists
  <2> QED
    BY <1>1, <1>4, <2>3, <2>4
<1>7. Begins(j)
  BY <1>1, <1>4, <1>5, <1>6 DEF Begins
<1>8. OnlyGrows(j)
  BY <1>1 DEF OnlyGrows
<1>9. used \subseteq used' /\ used' \subseteq Ids
  BY <1>1, <1>2
<1>10. \A k \in used : StaysOrGrows(k)
  BY <1>1, <1>2, <1>4, Unchanged
<1>11. \A k \in Ids \ used : Begins(k)
  BY <1>1, <1>4, <1>7, Unchanged
<1>12. \A k \in Ids : file'[k] # NoFile => SoundLog(file'[k].log)
  BY <1>4, <1>5, Unchanged
<1> QED
  BY <1>4, <1>8, <1>9, <1>10, <1>11, <1>12 DEF ChangeIsSound

LEMMA ChangesAreSound == ASSUME DirectoryInv, LegalChange PROVE ChangeIsSound
<1>1. CASE Kept
  <2>1. /\ file' = file /\ used' = used /\ file \in [Ids -> Journal] /\ used \subseteq Ids
    BY <1>1 DEF Kept, DirectoryInv
  <2> QED
    BY <2>1, Unchanged DEF ChangeIsSound
<1> QED
  BY <1>1, MarkIsSound, ExtensionIsSound, RemovalIsSound, PublicationIsSound DEF LegalChange

\* A fork stays one when it and its source grow, or its source goes.
LEMMA ForkStays ==
  ASSUME NEW l \in Seq(FileEvent), NEW m \in Seq(FileEvent), GrowsTo(l, m), l # <<>>,
         NEW s \in Seq(FileEvent), NEW z \in Seq(FileEvent),
         z = <<>> \/ (s # <<>> /\ GrowsTo(s, z)),
         Forked(l, s), l[1].cut \in 1 .. Len(l), s = <<>> \/ l[1].cut <= Len(s)
  PROVE  /\ m[1] = l[1] /\ Birth(m) = Birth(l)
         /\ Forked(m, z) /\ m[1].cut \in 1 .. Len(m) /\ (z = <<>> \/ m[1].cut <= Len(z))
<1>1. PICK n : n = l[1].cut
  OBVIOUS
<1>2. /\ Len(l) \in Nat /\ Len(m) \in Nat /\ Len(l) <= Len(m) /\ Len(l) >= 1 /\ n \in 1 .. Len(l)
      /\ Len(s) \in Nat /\ Len(z) \in Nat
  BY <1>1 DEF GrowsTo
<1>3. m[1] = l[1] /\ m[n] = l[n] /\ m[1].cut = n /\ n \in 1 .. Len(m)
  BY <1>1, <1>2 DEF GrowsTo
<1>4. SubSeq(m, 1, n) = SubSeq(l, 1, n) /\ SubSeq(m, 2, n) = SubSeq(l, 2, n)
  <2>1. n \in 0 .. Len(l)
    BY <1>2
  <2> QED
    BY <2>1, PartsStay
<1>5. Birth(m) = Birth(l)
  <2>1. n # 0
    BY <1>2
  <2>2. Birth(m) = SubSeq(m, 1, n) /\ Birth(l) = SubSeq(l, 1, n)
    BY <1>1, <1>3, <2>1 DEF Birth
  <2> QED
    BY <1>4, <2>2
<1>6. z # <<>> => n <= Len(z) /\ SubSeq(z, 2, n) = SubSeq(s, 2, n)
  <2> SUFFICES ASSUME z # <<>> PROVE n <= Len(z) /\ SubSeq(z, 2, n) = SubSeq(s, 2, n)
    OBVIOUS
  <2>1. s # <<>> /\ GrowsTo(s, z) /\ n <= Len(s)
    BY <1>1
  <2>2. n \in 0 .. Len(s)
    BY <1>2, <2>1
  <2>3. SubSeq(z, 2, n) = SubSeq(s, 2, n)
    BY <2>1, <2>2, PartsStay
  <2>4. n <= Len(z)
    BY <1>2, <2>1 DEF GrowsTo
  <2> QED
    BY <2>3, <2>4
<1>7. /\ n = 1 \/ l[n].kind = "commit"
      /\ ~Open(Birth(l)) /\ ~Archived(Birth(l))
      /\ s = <<>> \/ SubSeq(s, 2, n) = SubSeq(l, 2, n)
  BY <1>1 DEF Forked
<1>8. Forked(m, z)
  BY <1>3, <1>4, <1>5, <1>6, <1>7 DEF Forked
<1> QED
  BY <1>3, <1>5, <1>6, <1>8

LEMMA DirectoryStays == ASSUME DirectoryInv, ChangeIsSound PROVE DirectoryInv'
<1>1. /\ file' \in [Ids -> Journal] /\ used \subseteq used' /\ used' \subseteq Ids
      /\ \A i \in used : StaysOrGrows(i)
      /\ \A i \in Ids \ used : Begins(i)
      /\ \A i \in Ids : file'[i] # NoFile => SoundLog(file'[i].log)
  BY DEF ChangeIsSound
<1>2. \A i \in Ids : Exists(i)' => i \in used'
  <2> SUFFICES ASSUME NEW i \in Ids, file'[i] # NoFile PROVE i \in used'
    BY DEF Exists
  <2> QED
    BY <1>1 DEF Begins
<1>3. ASSUME NEW j \in Ids, file'[j] # NoFile, file'[j].log[1].parent # None
      PROVE  LET log == file'[j].log  source == file'[log[1].parent].log IN
             /\ Forked(log, source) /\ log[1].cut \in 1..Len(log)
             /\ source = <<>> \/ log[1].cut <= Len(source)
             /\ log[1].parent \in used'
  <2>1. PICK log : log = file'[j].log
    OBVIOUS
  <2>2. PICK p : p = log[1].parent
    OBVIOUS
  <2>3. log \in Seq(FileEvent) /\ log # <<>>
    BY <1>1, <1>3, <2>1 DEF Journal, SoundLog
  <2>4. p \in Ids
    <3>1. log[1] \in FileEvent
      BY <2>3
    <3> QED
      BY <1>3, <2>1, <2>2, <3>1 DEF FileEvent
  <2>5. CASE j \in used
    <3>1. /\ Exists(j) /\ GrowsTo(file[j].log, log)
      BY <1>1, <1>3, <2>1, <2>5 DEF StaysOrGrows
    <3>2. file[j].log \in Seq(FileEvent) /\ file[j].log # <<>> /\ Len(file[j].log) \in Nat
          /\ Len(file[j].log) >= 1
      BY <3>1, JournalParts
    <3>3. log[1] = file[j].log[1]
      BY <3>1, <3>2 DEF GrowsTo
    <3>4. j \in Forks(file)
      BY <1>3, <2>1, <3>1, <3>3 DEF Forks, Exists
    <3>5. /\ Forked(file[j].log, file[p].log) /\ log[1].cut \in 1 .. Len(file[j].log)
          /\ file[p].log = <<>> \/ log[1].cut <= Len(file[p].log)
          /\ p \in used
      BY <2>2, <3>3, <3>4 DEF DirectoryInv, SoundDirectory
    <3>6. file'[p].log \in Seq(FileEvent) /\ file[p].log \in Seq(FileEvent)
      BY <1>1, <2>4, JournalParts DEF Journal
    <3>7. file'[p].log = <<>> \/ (file[p].log # <<>> /\ GrowsTo(file[p].log, file'[p].log))
      BY <1>1, <2>4, <3>5, NoFileIs, JournalParts DEF StaysOrGrows
    <3>8. PICK l : l = file[j].log
      OBVIOUS
    <3>9. PICK s : s = file[p].log
      OBVIOUS
    <3>10. PICK z : z = file'[p].log
      OBVIOUS
    <3>11. /\ l \in Seq(FileEvent) /\ GrowsTo(l, log) /\ l # <<>> /\ l[1] = log[1]
           /\ Forked(l, s) /\ l[1].cut \in 1 .. Len(l) /\ (s = <<>> \/ l[1].cut <= Len(s))
      BY <3>1, <3>2, <3>3, <3>5, <3>8, <3>9
    <3>12. s \in Seq(FileEvent) /\ z \in Seq(FileEvent) /\ (z = <<>> \/ (s # <<>> /\ GrowsTo(s, z)))
      BY <3>6, <3>7, <3>9, <3>10
    <3>13. /\ Forked(log, z) /\ log[1].cut \in 1 .. Len(log)
           /\ z = <<>> \/ log[1].cut <= Len(z)
      BY ONLY <2>3, <3>11, <3>12, ForkStays
    <3> QED
      BY <1>1, <2>1, <2>2, <3>5, <3>10, <3>13
  <2>6. CASE j \notin used
    <3>1. MayBegin(log, file) /\ Kin(log)
      BY <1>1, <1>3, <2>1, <2>6 DEF Begins
    <3>2. /\ file'[p] = file[p] /\ file[p] # NoFile /\ Forked(log, file[p].log)
          /\ log[1].cut \in 1 .. Len(log) /\ log[1].cut <= Len(file[p].log)
      BY <1>3, <2>1, <2>2, <3>1 DEF MayBegin, Kin
    <3>3. p \in used
      BY <2>4, <3>2, JournalParts DEF Exists
    <3> QED
      BY <1>1, <2>1, <2>2, <3>2, <3>3
  <2> QED
    BY <2>5, <2>6
<1>4. SoundDirectory(file')
  BY <1>1, <1>3 DEF SoundDirectory, Forks
<1>5. \A j \in Forks(file') : file'[j].log[1].parent \in used'
  BY <1>3 DEF Forks
<1> QED
  BY <1>1, <1>2, <1>4, <1>5 DEF DirectoryInv

-----------------------------------------------------------------------------
(* What a command relies on stays true when another process makes a change. *)

LEMMA CommitsStay ==
  ASSUME NEW l \in Seq(FileEvent), NEW m \in Seq(FileEvent), GrowsTo(l, m),
         NEW n \in Nat, n <= Len(l)
  PROVE  /\ {k \in Commits(m) : k < n} = {k \in Commits(l) : k < n}
         /\ BeforePrompt(m, n) = BeforePrompt(l, n)
<1>1. /\ Len(l) \in Nat /\ Len(m) \in Nat /\ Len(l) <= Len(m)
      /\ \A k \in 1 .. Len(l) : m[k] = l[k]
  BY DEF GrowsTo
<1>2. Commits(l) = {k \in 1 .. Len(l) : l[k].kind = "commit"}
      /\ Commits(m) = {k \in 1 .. Len(m) : m[k].kind = "commit"}
  BY DEF Commits, Indices
<1>3. {k \in Commits(m) : k < n} = {k \in Commits(l) : k < n}
  BY <1>1, <1>2
<1> QED
  BY <1>3 DEF BeforePrompt

LEMMA ReliesStay ==
  ASSUME DirectoryInv, ChangeIsSound, NEW o, IsOp(o, used), Relies(o, file)
  PROVE  IsOp(o, used') /\ Relies(o, file')
<1>1. used \subseteq used'
  BY DEF ChangeIsSound
<1>2. IsOp(o, used')
  BY <1>1 DEF IsOp
<1>3. ASSUME o.pc \in {"apply", "act", "project"}, file'[o.target] # NoFile
      PROVE  /\ Exists(o.target) /\ o.target \in Ids
             /\ file[o.target].log \in Seq(FileEvent) /\ file'[o.target].log \in Seq(FileEvent)
             /\ file[o.target].log # <<>> /\ Len(file[o.target].log) \in Nat
             /\ GrowsTo(file[o.target].log, file'[o.target].log)
             /\ Len(file[o.target].log) <= Len(file'[o.target].log)
             /\ Len(file'[o.target].log) \in Nat
  <2>1. o.target \in used /\ o.target \in Ids
    BY <1>3 DEF IsOp, Acting, DirectoryInv
  <2>2. Exists(o.target) /\ GrowsTo(file[o.target].log, file'[o.target].log)
    BY <1>3, <2>1 DEF ChangeIsSound, StaysOrGrows
  <2>3. file' \in [Ids -> Journal]
    BY DEF ChangeIsSound
  <2>4. file'[o.target].log \in Seq(FileEvent)
    BY <2>1, <2>3 DEF Journal
  <2>5. PICK m : m = file'[o.target].log
    OBVIOUS
  <2>6. Len(m) \in Nat
    BY <2>4, <2>5
  <2>7. /\ file[o.target].log \in Seq(FileEvent) /\ file[o.target].log # <<>>
        /\ Len(file[o.target].log) \in Nat
    BY <2>1, <2>2, JournalParts
  <2>8. Len(file[o.target].log) <= Len(m)
    BY <2>2, <2>5 DEF GrowsTo
  <2> QED
    BY <2>1, <2>2, <2>4, <2>5, <2>6, <2>7, <2>8
<1>4. o.pc = "apply" /\ o.cmd = "recover" /\ file'[o.target] # NoFile =>
        o.at <= Len(file'[o.target].log) /\ ~Archived(Prefix(file'[o.target].log, o.at))
  <2> SUFFICES ASSUME o.pc = "apply", o.cmd = "recover", file'[o.target] # NoFile
               PROVE  /\ o.at <= Len(file'[o.target].log)
                      /\ ~Archived(Prefix(file'[o.target].log, o.at))
    OBVIOUS
  <2>1. o.at <= Len(file[o.target].log) /\ ~Archived(Prefix(file[o.target].log, o.at))
    BY <1>3 DEF Relies, Exists
  <2>2. o.at \in Nat
    BY DEF IsOp
  <2>3. o.at \in 0 .. Len(file[o.target].log)
    BY <1>3, <2>1, <2>2
  <2>4. Prefix(file'[o.target].log, o.at) = Prefix(file[o.target].log, o.at)
    BY <1>3, <2>3, PartsStay DEF Prefix
  <2> QED
    BY <1>3, <2>1, <2>2, <2>4
<1>5. o.pc = "act" /\ o.cmd = "backtrack" /\ file'[o.target] # NoFile =>
        /\ o.choice <= Len(file'[o.target].log)
        /\ o.at = BeforePrompt(file'[o.target].log, o.choice)
  <2> SUFFICES ASSUME o.pc = "act", o.cmd = "backtrack", file'[o.target] # NoFile
               PROVE  /\ o.choice <= Len(file'[o.target].log)
                      /\ o.at = BeforePrompt(file'[o.target].log, o.choice)
    OBVIOUS
  <2>1. o.choice <= Len(file[o.target].log) /\ o.at = BeforePrompt(file[o.target].log, o.choice)
    BY <1>3 DEF Relies, Exists
  <2>2. o.choice \in Nat
    BY DEF IsOp
  <2>3. BeforePrompt(file'[o.target].log, o.choice) = BeforePrompt(file[o.target].log, o.choice)
    BY <1>3, <2>1, <2>2, CommitsStay
  <2> QED
    BY <1>3, <2>1, <2>2, <2>3
<1>6. o.pc = "project" /\ o.cmd = "backtrack" /\ file'[o.target] # NoFile =>
        LET log == file'[o.target].log  source == file'[log[1].parent].log IN
        /\ log[1].parent # None
        /\ source # <<>> =>
             /\ o.choice <= Len(source)
             /\ Commits(Birth(log)) = {n \in Commits(source) : n < o.choice}
  <2> SUFFICES ASSUME o.pc = "project", o.cmd = "backtrack", file'[o.target] # NoFile
               PROVE  LET log == file'[o.target].log  source == file'[log[1].parent].log IN
                      /\ log[1].parent # None
                      /\ source # <<>> =>
                           /\ o.choice <= Len(source)
                           /\ Commits(Birth(log)) = {n \in Commits(source) : n < o.choice}
    OBVIOUS
  <2>1. PICK l : l = file[o.target].log
    OBVIOUS
  <2>2. PICK m : m = file'[o.target].log
    OBVIOUS
  <2>3. /\ l \in Seq(FileEvent) /\ m \in Seq(FileEvent) /\ GrowsTo(l, m) /\ l # <<>>
        /\ Exists(o.target) /\ o.target \in Ids
    BY <1>3, <2>1, <2>2
  <2>4. PICK p : p = l[1].parent
    OBVIOUS
  <2>5. /\ p # None
        /\ file[p].log # <<>> =>
             /\ o.choice <= Len(file[p].log)
             /\ Commits(Birth(l)) = {n \in Commits(file[p].log) : n < o.choice}
    BY <2>1, <2>3, <2>4 DEF Relies, Exists
  <2>6. o.target \in Forks(file)
    BY <2>1, <2>3, <2>4, <2>5 DEF Forks, Exists
  <2>7. /\ p \in used /\ p \in Ids
        /\ Forked(l, file[p].log) /\ l[1].cut \in 1 .. Len(l)
        /\ file[p].log = <<>> \/ l[1].cut <= Len(file[p].log)
    BY <2>1, <2>4, <2>6 DEF DirectoryInv, SoundDirectory
  <2>8. file[p].log \in Seq(FileEvent) /\ file'[p].log \in Seq(FileEvent)
    <3>1. file' \in [Ids -> Journal]
      BY DEF ChangeIsSound
    <3> QED
      BY <2>7, <3>1, JournalParts DEF Journal
  <2>9. file'[p].log = <<>> \/ (file[p].log # <<>> /\ GrowsTo(file[p].log, file'[p].log))
    BY <2>7, NoFileIs, JournalParts DEF StaysOrGrows, ChangeIsSound
  <2>10. m[1] = l[1] /\ Birth(m) = Birth(l)
    BY <2>3, <2>7, <2>8, <2>9, ForkStays
  <2>11. ASSUME file'[p].log # <<>>
         PROVE  /\ o.choice <= Len(file'[p].log)
                /\ Commits(Birth(m)) = {n \in Commits(file'[p].log) : n < o.choice}
    <3>1. file[p].log # <<>> /\ GrowsTo(file[p].log, file'[p].log)
      BY <2>9, <2>11
    <3>2. /\ o.choice <= Len(file[p].log) /\ o.choice \in Nat
          /\ Commits(Birth(l)) = {n \in Commits(file[p].log) : n < o.choice}
      BY <2>5, <3>1 DEF IsOp
    <3>3. {n \in Commits(file'[p].log) : n < o.choice} = {n \in Commits(file[p].log) : n < o.choice}
      BY <2>8, <3>1, <3>2, CommitsStay
    <3>4. o.choice <= Len(file'[p].log)
      BY <2>8, <3>1, <3>2 DEF GrowsTo
    <3> QED
      BY <2>10, <3>2, <3>3, <3>4
  <2>12. m[1].parent = p
    BY <2>4, <2>10
  <2> QED
    BY <2>2, <2>5, <2>11, <2>12
<1> QED
  BY <1>2, <1>4, <1>5, <1>6 DEF Relies

-----------------------------------------------------------------------------
(* How a command moves.                                                    *)

Moves(c) ==
  /\ op' = [d \in Clients |-> op'[d]] /\ DOMAIN op'[c] = Fields
  /\ \A d \in Clients : d # c => op'[d] = op[d]
\* The question of a command, and what it has listed, stay.
AsksSame(c) ==
  op'[c].cmd = op[c].cmd /\ op'[c].sel = op[c].sel /\ op'[c].how = op[c].how
  /\ op'[c].choice = op[c].choice
ListsSame(c) ==
  op'[c].scopes = op[c].scopes /\ op'[c].todo = op[c].todo /\ op'[c].paths = op[c].paths
Has11(c) == op = [d \in Clients |-> op[d]] /\ c \in Clients /\ DOMAIN op[c] = Fields

LEMMA Becomes ==
  ASSUME NEW c \in Clients, Has11(c), NEW o, DOMAIN o = Fields, op' = [op EXCEPT ![c] = o]
  PROVE  Moves(c) /\ op'[c] = o
BY DEF Has11, Moves

LEMMA SetPc ==
  ASSUME NEW c \in Clients, Has11(c), NEW pc, op' = [op EXCEPT ![c].pc = pc]
  PROVE  /\ Moves(c) /\ AsksSame(c) /\ ListsSame(c) /\ op'[c].found = op[c].found
         /\ op'[c].pc = pc /\ op'[c].target = op[c].target /\ op'[c].at = op[c].at
BY DEF Has11, Moves, AsksSame, ListsSame, Fields

LEMMA SetTarget ==
  ASSUME NEW c \in Clients, Has11(c), NEW pc, NEW i,
         op' = [op EXCEPT ![c].pc = pc, ![c].target = i]
  PROVE  /\ Moves(c) /\ AsksSame(c) /\ ListsSame(c) /\ op'[c].found = op[c].found
         /\ op'[c].pc = pc /\ op'[c].target = i /\ op'[c].at = op[c].at
BY DEF Has11, Moves, AsksSame, ListsSame, Fields

LEMMA SetAt ==
  ASSUME NEW c \in Clients, Has11(c), NEW pc, NEW n,
         op' = [op EXCEPT ![c].pc = pc, ![c].at = n]
  PROVE  /\ Moves(c) /\ AsksSame(c) /\ ListsSame(c) /\ op'[c].found = op[c].found
         /\ op'[c].pc = pc /\ op'[c].target = op[c].target /\ op'[c].at = n
BY DEF Has11, Moves, AsksSame, ListsSame, Fields

LEMMA SetTargetAt ==
  ASSUME NEW c \in Clients, Has11(c), NEW pc, NEW i, NEW n,
         op' = [op EXCEPT ![c].pc = pc, ![c].target = i, ![c].at = n]
  PROVE  /\ Moves(c) /\ AsksSame(c) /\ ListsSame(c) /\ op'[c].found = op[c].found
         /\ op'[c].pc = pc /\ op'[c].target = i /\ op'[c].at = n
BY DEF Has11, Moves, AsksSame, ListsSame, Fields

LEMMA SetFoundTarget ==
  ASSUME NEW c \in Clients, Has11(c), NEW pc, NEW i, NEW found,
         op' = [op EXCEPT ![c].pc = pc, ![c].target = i, ![c].found = found]
  PROVE  /\ Moves(c) /\ AsksSame(c) /\ ListsSame(c) /\ op'[c].found = found
         /\ op'[c].pc = pc /\ op'[c].target = i /\ op'[c].at = op[c].at
BY DEF Has11, Moves, AsksSame, ListsSame, Fields

LEMMA SetTodo ==
  ASSUME NEW c \in Clients, Has11(c), NEW pc, NEW todo, NEW paths,
         op' = [op EXCEPT ![c].pc = pc, ![c].todo = todo, ![c].paths = paths]
  PROVE  /\ Moves(c) /\ AsksSame(c) /\ op'[c].found = op[c].found
         /\ op'[c].scopes = op[c].scopes /\ op'[c].todo = todo /\ op'[c].paths = paths
         /\ op'[c].pc = pc /\ op'[c].target = op[c].target /\ op'[c].at = op[c].at
BY DEF Has11, Moves, AsksSame, Fields

LEMMA SetScopes ==
  ASSUME NEW c \in Clients, Has11(c), NEW pc, NEW scopes, NEW paths,
         op' = [op EXCEPT ![c].scopes = scopes, ![c].paths = paths, ![c].pc = pc]
  PROVE  /\ Moves(c) /\ AsksSame(c) /\ op'[c].found = op[c].found
         /\ op'[c].scopes = scopes /\ op'[c].todo = op[c].todo /\ op'[c].paths = paths
         /\ op'[c].pc = pc /\ op'[c].target = op[c].target /\ op'[c].at = op[c].at
BY DEF Has11, Moves, AsksSame, Fields

LEMMA SetFound ==
  ASSUME NEW c \in Clients, Has11(c), NEW todo, NEW found,
         op' = [op EXCEPT ![c].todo = todo, ![c].found = found]
  PROVE  /\ Moves(c) /\ AsksSame(c) /\ op'[c].found = found
         /\ op'[c].scopes = op[c].scopes /\ op'[c].todo = todo /\ op'[c].paths = op[c].paths
         /\ op'[c].pc = op[c].pc /\ op'[c].target = op[c].target /\ op'[c].at = op[c].at
BY DEF Has11, Moves, AsksSame, Fields

-----------------------------------------------------------------------------
(* What a step does to the files and the catalog.                          *)

FilesStep == LegalChange /\ RowsInv'

LEMMA TrueRows ==
  /\ TrueRow(NoRow)
  /\ \A journal : TrueRow(Row(Meta(journal.log), journal))
  /\ \A journal : TrueRow(Row(Meta(Birth(journal.log)), journal))
<1>1. NoRow = [meta |-> NoMeta, print |-> NoFile] /\ NoRow = Row(NoRow.meta, NoRow.print)
  BY DEF NoRow, Row
<1>2. TrueRow(NoRow)
  BY <1>1 DEF TrueRow
<1> QED
  BY <1>2 DEF TrueRow, Row

LEMMA RowSet ==
  ASSUME RowsInv, NEW i \in Ids, NEW r, TrueRow(r), row' = [row EXCEPT ![i] = r]
  PROVE  RowsInv'
<1>1. row = [j \in Ids |-> row[j]] /\ \A j \in Ids : TrueRow(row[j])
  BY DEF RowsInv
<1>2. row' = [j \in Ids |-> IF j = i THEN r ELSE row[j]]
  BY <1>1
<1>3. \A j \in Ids : TrueRow(row'[j])
  BY <1>1, <1>2
<1> QED
  BY <1>2, <1>3 DEF RowsInv, TrueRow

LEMMA FilesKept ==
  ASSUME RowsInv, file' = file, row' = row, used' = used
  PROVE  FilesStep
BY DEF FilesStep, LegalChange, Kept, RowsInv, TrueRow

LEMMA FilesLoaded ==
  ASSUME DirectoryInv, RowsInv, NEW i \in Ids, Exists(i), NEW projecting, Load(i, projecting),
         used' = used
  PROVE  /\ FilesStep /\ file'[i].log = file[i].log
         /\ \A j \in Ids : file'[j].log = file[j].log /\ (Exists(j)' <=> Exists(j))
<1>1. file' = [file EXCEPT ![i] = Repaired(i)]
      /\ row' = IF projecting THEN Projected(i, Repaired(i)) ELSE row
  BY DEF Load
<1>2. /\ file[i] \in Journal /\ file[i] = [log |-> file[i].log, torn |-> file[i].torn]
      /\ file[i].log # <<>> /\ file \in [Ids -> Journal]
  BY JournalParts DEF DirectoryInv
<1>4. file' = [file EXCEPT ![i].torn = FALSE]
  BY <1>1 DEF Repaired
<1>5. LegalChange
  BY <1>4 DEF LegalChange, Marked
<1>6. file'[i] = [log |-> file[i].log, torn |-> FALSE] /\ \A j \in Ids : j # i => file'[j] = file[j]
  BY <1>2, <1>4 DEF Journal
<1>7. file'[i].log = file[i].log /\ file'[i] # NoFile
  BY <1>2, <1>6, NoFileIs
<1>8. \A j \in Ids : file'[j].log = file[j].log /\ (Exists(j)' <=> Exists(j))
  BY <1>6, <1>7 DEF Exists
<1>9. RowsInv'
  <2>1. CASE row' = row
    BY <2>1 DEF RowsInv, TrueRow
  <2>2. CASE row' = [row EXCEPT ![i] = Row(Meta(Repaired(i).log), Repaired(i))]
    BY <2>2, TrueRows, RowSet
  <2> QED
    BY <1>1, <2>1, <2>2 DEF Projected
<1> QED
  BY <1>5, <1>7, <1>8, <1>9 DEF FilesStep

LEMMA FilesPut ==
  ASSUME DirectoryInv, RowsInv, NEW i \in Ids, Exists(i), NEW e, MayFollow(file[i].log, e),
         Put(i, Appended(i, e)), used' = used
  PROVE  FilesStep
<1>1. file' = [file EXCEPT ![i] = Appended(i, e)] /\ row' \in {row, Projected(i, Appended(i, e))}
  BY DEF Put
<1>2. LegalChange
  <2>1. e \in FileEvent
    BY DEF MayFollow
  <2> QED
    BY <1>1, <2>1 DEF LegalChange, Extended
<1>3. CASE row' = row
  BY <1>2, <1>3 DEF FilesStep, RowsInv, TrueRow
<1>4. CASE row' = [row EXCEPT ![i] = Row(Meta(Appended(i, e).log), Appended(i, e))]
  BY <1>2, <1>4, TrueRows, RowSet DEF FilesStep
<1> QED
  BY <1>1, <1>3, <1>4 DEF Projected

\* The events the commands append.
LEMMA Events ==
  /\ \A k \in Kinds : Event(k, None) \in FileEvent /\ Event(k, None).kind = k
  /\ \A t \in Titles : Event("title", t) \in FileEvent /\ Event("title", t).kind = "title"
  /\ \A t \in Titles \cup {None}, p \in Ids \cup {None}, n \in Nat :
       /\ Created(t, p, n) \in FileEvent /\ Created(t, p, n).kind = "created"
       /\ Created(t, p, n).parent = p /\ Created(t, p, n).cut = n
BY DEF Event, Created, FileEvent, Kinds

-----------------------------------------------------------------------------
(* What every action must leave: its own command as described, the others  *)
(* as they were, the directory by a legal change and the catalog true.     *)

Works(c) ==
  /\ FilesStep /\ Moves(c) /\ left' \in 0 .. MaxCommands
  /\ active' \in [Clients -> used' \cup {None}] /\ rev' \in [Clients -> Nat]
  /\ \A d \in Clients : d # c => active'[d] = active[d]
  /\ CommandInv(c)'

\* A step that is no part of a listing: it begins no lookup but by a name that
\* is given, lists nothing, and takes no session by its name.
Unlisted(c) ==
  /\ \/ op'[c].pc \notin {"byid", "scan", "read", "match"}
     \/ op'[c].pc = "byid" /\ op'[c].sel # None /\ op'[c].scopes = ScopeOf(op'[c].cmd)
     \/ /\ op'[c].pc = "scan" /\ op[c].pc # "byid" /\ op'[c].sel = None
        /\ op'[c].scopes \in Seq(BOOLEAN) \ {<<>>}
  /\ DOMAIN op'[c].found \subseteq DOMAIN op[c].found
  /\ op[c].pc = "match" /\ op[c].sel # None => op'[c].pc # "act"

LEMMA Held ==
  ASSUME IInv, NEW c \in Clients
  PROVE  /\ DirectoryInv /\ RowsInv /\ Has11(c) /\ LookupInv(c)
         /\ IsOp(op[c], used) /\ Relies(op[c], file)
         /\ op[c].pc = "turn" => active[c] # None
         /\ active[c] \in used \cup {None} /\ rev[c] \in Nat
         /\ active \in [Clients -> used \cup {None}] /\ rev \in [Clients -> Nat]
         /\ used \subseteq Ids /\ left \in 0 .. MaxCommands
<1>1. CommandInv(c)
  BY DEF IInv, CommandsInv
<1> QED
  BY <1>1 DEF IInv, CommandsInv, CommandInv, Has11, IsOp, NamesInv, DirectoryInv

LEMMA UsedGrows ==
  ASSUME IInv, FilesStep
  PROVE  used \subseteq used' /\ used' \subseteq Ids
<1>1. ChangeIsSound
  BY ChangesAreSound DEF IInv, FilesStep
<1> QED
  BY <1>1 DEF ChangeIsSound

LEMMA NothingKnown == None \notin Ids /\ None \notin Titles /\ MaxCommands \in Nat
BY FilesAssumption

\* A step that leaves the chat as it is.
LEMMA WorksInFiles ==
  ASSUME IInv, NEW c \in Clients, FilesStep, Moves(c), UNCHANGED Chat,
         left' = left \/ (left > 0 /\ left' = left - 1),
         IsOp(op'[c], used'), Relies(op'[c], file'), op'[c].pc # "turn"
  PROVE  Works(c)
<1>1. active' = active /\ rev' = rev
  BY DEF Chat
<1>2. active' \in [Clients -> used' \cup {None}] /\ rev' \in [Clients -> Nat]
  <2>1. active \in [Clients -> used \cup {None}] /\ rev \in [Clients -> Nat] /\ used \subseteq used'
    BY Held, UsedGrows
  <2> QED
    BY <1>1, <2>1
<1>3. left' \in 0 .. MaxCommands
  BY Held, NothingKnown
<1>4. CommandInv(c)'
  BY DEF CommandInv
<1> QED
  BY <1>1, <1>2, <1>3, <1>4 DEF Works

LEMMA IdleIs ==
  /\ DOMAIN Idle = Fields
  /\ \A ids, f : IsOp(Idle, ids) /\ Relies(Idle, f)
  /\ Idle.pc = "idle" /\ Idle.found = <<>> /\ DOMAIN Idle.found = {} /\ Idle.sel = None
  /\ Idle.cmd = None /\ Idle.target = None /\ Idle.at = 0 /\ Idle.choice = 0
  /\ Idle.todo = {} /\ Idle.scopes = <<>>
<1>1. /\ DOMAIN Idle = Fields
      /\ Idle.pc = "idle" /\ Idle.found = <<>> /\ Idle.sel = None
      /\ Idle.cmd = None /\ Idle.target = None /\ Idle.at = 0 /\ Idle.choice = 0
      /\ Idle.todo = {} /\ Idle.scopes = <<>>
  BY DEF Idle, Fields
<1>2. DOMAIN Idle.found = {}
  BY <1>1
<1>3. IsFiniteSet(DOMAIN Idle.found)
  BY <1>2, FS_EmptySet
<1>4. ASSUME NEW ids, NEW f PROVE IsOp(Idle, ids) /\ Relies(Idle, f)
  <2>1. IsOp(Idle, ids)
    BY <1>1, <1>2, <1>3 DEF IsOp, Places, Acting, None
  <2>2. Relies(Idle, f)
    BY <1>1 DEF Relies
  <2> QED
    BY <2>1, <2>2
<1> QED
  BY <1>1, <1>2, <1>4

\* A command that ends.
LEMMA Ends ==
  ASSUME IInv, NEW c \in Clients, Done(c)
  PROVE  /\ Moves(c) /\ op'[c] = Idle /\ IsOp(op'[c], used') /\ Relies(op'[c], file')
         /\ op'[c].pc = "idle" /\ Unlisted(c)
<1>1. Moves(c) /\ op'[c] = Idle
  BY Held, IdleIs, Becomes DEF Done
<1>2. Unlisted(c)
  BY <1>1, IdleIs DEF Unlisted
<1> QED
  BY <1>1, <1>2, IdleIs

LEMMA EndsInFiles ==
  ASSUME IInv, NEW c \in Clients, Done(c), FilesStep, UNCHANGED Chat, left' = left
  PROVE  Works(c) /\ Unlisted(c)
BY Ends, WorksInFiles

LEMMA RefusedWorks ==
  ASSUME IInv, NEW c \in Clients, Refused(c), UNCHANGED <<used, Chat, left>>
  PROVE  Works(c) /\ Unlisted(c)
<1>1. file' = file /\ row' = row /\ used' = used /\ left' = left /\ UNCHANGED Chat /\ Done(c)
  BY DEF Refused, Chat
<1>2. FilesStep
  BY <1>1, Held, FilesKept
<1> QED
  BY <1>1, <1>2, EndsInFiles

-----------------------------------------------------------------------------
(* The commands that are given.                                            *)

LEMMA GivenWorks ==
  ASSUME IInv, NEW c \in Clients, NEW o, DOMAIN o = Fields, Given(c, o), FilesStep,
         UNCHANGED Chat, IsOp(o, used'), Relies(o, file'), o.pc # "turn"
  PROVE  /\ Works(c) /\ op'[c] = o /\ op[c].pc = "idle"
<1>1. op' = [op EXCEPT ![c] = o] /\ left > 0 /\ left' = left - 1 /\ op[c].pc = "idle"
  BY DEF Given, At
<1>2. Moves(c) /\ op'[c] = o
  BY <1>1, Held, Becomes
<1> QED
  BY <1>1, <1>2, WorksInFiles

LEMMA AskByNameWorks ==
  ASSUME IInv, NEW c \in Clients, AskByName(c)
  PROVE  Works(c) /\ Unlisted(c)
<1>1. PICK cmd \in CommandsOf(c), s \in Ids \cup Titles :
        Given(c, [Idle EXCEPT !.cmd = cmd, !.pc = "byid", !.sel = s, !.scopes = ScopeOf(cmd)])
  BY DEF AskByName
<1>2. PICK o : o = [Idle EXCEPT !.cmd = cmd, !.pc = "byid", !.sel = s, !.scopes = ScopeOf(cmd)]
  OBVIOUS
<1>3. /\ DOMAIN o = Fields /\ o.cmd = cmd /\ o.pc = "byid" /\ o.sel = s /\ o.scopes = ScopeOf(cmd)
      /\ o.todo = {} /\ o.found = <<>> /\ o.target = None /\ o.at = 0 /\ o.choice = 0
  BY <1>2, IdleIs DEF Idle, Fields
<1>4. cmd \in Commands /\ cmd # "backtrack" /\ s # None
  BY NothingKnown DEF CommandsOf, Commands
<1>5. IsOp(o, used') /\ Relies(o, file')
  <2>1. DOMAIN o.found = {} /\ IsFiniteSet(DOMAIN o.found)
    BY <1>3, IdleIs, FS_EmptySet
  <2> QED
    BY <1>3, <1>4, <2>1 DEF IsOp, Relies, Places, Acting
<1>6. FilesStep /\ UNCHANGED Chat
  BY Held, FilesKept DEF AskByName, Files, Chat
<1>7. Works(c) /\ op'[c] = o
  BY <1>1, <1>2, <1>3, <1>5, <1>6, GivenWorks
<1>8. Unlisted(c)
  <2>1. DOMAIN o.found = {}
    BY <1>3, IdleIs
  <2> QED
    BY <1>3, <1>4, <1>7, <2>1 DEF Unlisted
<1> QED
  BY <1>7, <1>8

\* A command without a name lists, in a scope.
Lists(o, b) ==
  /\ DOMAIN o = Fields /\ o.cmd \in {"sessions", "resume", "fork"} /\ o.pc = "scan"
  /\ o.sel = None /\ o.scopes = <<b>> /\ o.todo = {} /\ o.found = <<>> /\ o.target = None
  /\ o.at = 0 /\ o.choice = 0

LEMMA ListingBegins ==
  ASSUME IInv, NEW c \in Clients, NEW o, NEW b \in BOOLEAN, Lists(o, b), Given(c, o),
         UNCHANGED <<Files, Chat>>
  PROVE  Works(c) /\ Unlisted(c)
<1>1. DOMAIN o = Fields /\ o.pc = "scan" /\ o.sel = None /\ o.scopes = <<b>> /\ o.found = <<>>
  BY DEF Lists
<1>2. DOMAIN o.found = {} /\ IsFiniteSet(DOMAIN o.found)
  BY <1>1, IdleIs, FS_EmptySet
<1>3. IsOp(o, used') /\ Relies(o, file')
  BY <1>2 DEF IsOp, Relies, Places, Acting, Commands, Lists
<1>4. FilesStep /\ UNCHANGED Chat
  BY Held, FilesKept DEF Files, Chat
<1>5. Works(c) /\ op'[c] = o /\ op[c].pc = "idle"
  BY <1>1, <1>3, <1>4, GivenWorks
<1>6. Unlisted(c)
  <2>1. <<b>> \in Seq(BOOLEAN) \ {<<>>}
    OBVIOUS
  <2> QED
    BY <1>1, <1>2, <1>5, <2>1 DEF Unlisted
<1> QED
  BY <1>5, <1>6

LEMMA AskWithoutNameWorks ==
  ASSUME IInv, NEW c \in Clients, AskWithoutName(c)
  PROVE  Works(c) /\ Unlisted(c)
<1>1. PICK cmd \in {"resume", "fork"}, how \in {"last", "pick"} :
        /\ Given(c, [Idle EXCEPT !.cmd = cmd, !.pc = "scan", !.scopes = <<FALSE>>, !.how = how])
        /\ UNCHANGED <<Files, Chat>>
  BY DEF AskWithoutName
<1>2. PICK o : o = [Idle EXCEPT !.cmd = cmd, !.pc = "scan", !.scopes = <<FALSE>>, !.how = how]
  OBVIOUS
<1>3. Lists(o, FALSE)
  BY <1>2, IdleIs DEF Idle, Fields, Lists
<1> QED
  BY <1>1, <1>2, <1>3, ListingBegins

LEMMA SessionsWorks ==
  ASSUME IInv, NEW c \in Clients, cmdSessions(c)
  PROVE  Works(c) /\ Unlisted(c)
<1>1. PICK b \in BOOLEAN :
        /\ Given(c, [Idle EXCEPT !.cmd = "sessions", !.pc = "scan", !.scopes = <<b>>])
        /\ UNCHANGED <<Files, Chat>>
  BY DEF cmdSessions
<1>2. PICK o : o = [Idle EXCEPT !.cmd = "sessions", !.pc = "scan", !.scopes = <<b>>]
  OBVIOUS
<1>3. Lists(o, b)
  BY <1>2, IdleIs DEF Idle, Fields, Lists
<1> QED
  BY <1>1, <1>2, <1>3, ListingBegins

LEMMA ForkGivenWorks ==
  ASSUME IInv, NEW c \in Clients, cmdFork(c)
  PROVE  Works(c) /\ Unlisted(c)
<1>1. /\ active[c] # None /\ UNCHANGED <<Files, Chat>>
      /\ Given(c, [Idle EXCEPT !.cmd = "fork", !.pc = "act", !.target = active[c]])
  BY DEF cmdFork
<1>2. PICK o : o = [Idle EXCEPT !.cmd = "fork", !.pc = "act", !.target = active[c]]
  OBVIOUS
<1>3. /\ DOMAIN o = Fields /\ o.cmd = "fork" /\ o.pc = "act" /\ o.target = active[c]
      /\ o.todo = {} /\ o.found = <<>> /\ o.at = 0 /\ o.choice = 0
  BY <1>2, IdleIs DEF Idle, Fields
<1>4. DOMAIN o.found = {} /\ IsFiniteSet(DOMAIN o.found)
  BY <1>3, IdleIs, FS_EmptySet
<1>5. active[c] \in used'
  BY <1>1, Held DEF Files
<1>6. IsOp(o, used') /\ Relies(o, file')
  BY <1>3, <1>4, <1>5 DEF IsOp, Relies, Places, Acting, Commands
<1>7. FilesStep /\ UNCHANGED Chat
  BY <1>1, Held, FilesKept DEF Files, Chat
<1>8. Works(c) /\ op'[c] = o /\ op[c].pc = "idle"
  BY <1>1, <1>2, <1>3, <1>6, <1>7, GivenWorks
<1>9. Unlisted(c)
  BY <1>3, <1>4, <1>8 DEF Unlisted
<1> QED
  BY <1>8, <1>9

-----------------------------------------------------------------------------
(* The lookup of a session.                                                *)

\* A command that goes on with the same question stays one.
LEMMA StillOp ==
  ASSUME NEW o, NEW p, NEW ids, NEW more, IsOp(o, ids), ids \subseteq more, DOMAIN p = Fields,
         p.cmd = o.cmd, p.choice = o.choice, p.todo = o.todo, p.found = o.found,
         p.target \in more \cup {None}, p.at \in Nat, p.pc \in Places,
         p.pc \in Acting => p.target \in more,
         p.pc = "fork" => p.cmd = "fork",
         p.cmd = "fork" => p.at = 0,
         p.cmd = "backtrack" => p.pc \in {"act", "project", "name", "open"}
  PROVE  IsOp(p, more)
BY DEF IsOp

LEMMA ResolveIdWorks ==
  ASSUME IInv, NEW c \in Clients, ResolveId(c)
  PROVE  /\ Works(c)
         /\ \/ Unlisted(c)
            \/ op[c].pc = "byid" /\ GoTo(c, "scan") /\ UNCHANGED <<file, row>>
<1>1. /\ op[c].pc = "byid" /\ used' = used /\ left' = left /\ UNCHANGED Chat
  BY DEF ResolveId, At, Chat
<1>2. /\ IsOp(op[c], used) /\ Has11(c) /\ op[c].cmd # "backtrack" /\ op[c].at \in Nat
      /\ op[c].cmd = "fork" => op[c].at = 0
  BY <1>1, Held DEF IsOp
<1>3. CASE op[c].sel \in Ids /\ Exists(op[c].sel)
  <2>1. PICK i \in Ids : i = op[c].sel
    BY <1>3
  <2>2. /\ Exists(i) /\ Load(i, Projects(c))
        /\ op' = [op EXCEPT ![c].pc = "act", ![c].target = i]
    BY <1>3, <2>1 DEF ResolveId
  <2>3. FilesStep
    BY <1>1, <2>2, Held, FilesLoaded
  <2>4. i \in used'
    BY <1>1, <2>2, Held, JournalParts
  <2>5. /\ Moves(c) /\ AsksSame(c) /\ ListsSame(c) /\ op'[c].found = op[c].found
        /\ op'[c].pc = "act" /\ op'[c].target = i /\ op'[c].at = op[c].at
    BY <1>2, <2>2, SetTarget
  <2>6. IsOp(op'[c], used')
    BY <1>1, <1>2, <2>4, <2>5, StillOp DEF Moves, AsksSame, ListsSame, Places
  <2>7. Relies(op'[c], file')
    BY <1>2, <2>5 DEF Relies, AsksSame
  <2>8. Unlisted(c)
    BY <1>1, <2>5 DEF Unlisted
  <2> QED
    BY <1>1, <2>3, <2>5, <2>6, <2>7, <2>8, WorksInFiles
<1>4. CASE ~(op[c].sel \in Ids /\ Exists(op[c].sel))
  <2>1. GoTo(c, "scan") /\ file' = file /\ row' = row
    BY <1>4 DEF ResolveId
  <2>2. FilesStep
    BY <1>1, <2>1, Held, FilesKept
  <2>3. /\ Moves(c) /\ AsksSame(c) /\ ListsSame(c) /\ op'[c].found = op[c].found
        /\ op'[c].pc = "scan" /\ op'[c].target = op[c].target /\ op'[c].at = op[c].at
    BY <1>2, <2>1, SetPc DEF GoTo
  <2>4. IsOp(op'[c], used')
    <3>1. op[c].target \in used' \cup {None}
      BY <1>1, <1>2 DEF IsOp
    <3> QED
      BY <1>1, <1>2, <2>3, <3>1, StillOp DEF Moves, AsksSame, ListsSame, Places, Acting
  <2>5. Relies(op'[c], file')
    BY <2>3 DEF Relies
  <2> QED
    BY <1>1, <2>1, <2>2, <2>3, <2>4, <2>5, WorksInFiles
<1> QED
  BY <1>3, <1>4

LEMMA ScanWorks ==
  ASSUME IInv, NEW c \in Clients, Scan(c)
  PROVE  Works(c)
<1>1. /\ op[c].pc = "scan" /\ used' = used /\ left' = left /\ UNCHANGED Chat /\ file' = file
      /\ row' = row
      /\ op' = [op EXCEPT ![c].pc = "read", ![c].todo = {i \in Ids : Exists(i)},
                            ![c].paths = {i \in Ids : Exists(i)}]
  BY DEF Scan, At, Chat, Files
<1>2. IsOp(op[c], used) /\ Has11(c) /\ op[c].cmd # "backtrack"
  BY <1>1, Held DEF IsOp
<1>3. FilesStep
  BY <1>1, Held, FilesKept
<1>4. /\ Moves(c) /\ AsksSame(c) /\ op'[c].found = op[c].found
      /\ op'[c].todo = {i \in Ids : Exists(i)}
      /\ op'[c].pc = "read" /\ op'[c].target = op[c].target /\ op'[c].at = op[c].at
  BY <1>1, <1>2, SetTodo
<1>5. {i \in Ids : Exists(i)} \subseteq used
  BY Held, JournalParts
<1>6. IsOp(op'[c], used')
  BY <1>1, <1>2, <1>4, <1>5 DEF IsOp, Moves, AsksSame, Places, Acting
<1>7. Relies(op'[c], file')
  BY <1>4 DEF Relies
<1> QED
  BY <1>1, <1>3, <1>4, <1>6, <1>7, WorksInFiles

LEMMA ListedWorks ==
  ASSUME IInv, NEW c \in Clients, Listed(c)
  PROVE  Works(c)
<1>1. /\ op[c].pc = "read" /\ used' = used /\ left' = left /\ UNCHANGED Chat /\ file' = file
      /\ op' = [op EXCEPT ![c].scopes = Tail(op[c].scopes), ![c].paths = {},
                          ![c].pc = IF Len(op[c].scopes) > 1 THEN "scan" ELSE "match"]
      /\ \/ row' = row
         \/ row' = [i \in Ids |-> IF i \in op[c].paths THEN row[i] ELSE NoRow]
  BY DEF Listed, At, Chat
<1>2. IsOp(op[c], used) /\ Has11(c) /\ op[c].cmd # "backtrack" /\ DirectoryInv /\ RowsInv
  BY <1>1, Held DEF IsOp
<1>3. FilesStep
  <2>1. CASE row' = row
    BY <1>1, <1>2, <2>1, FilesKept
  <2>2. CASE row' = [i \in Ids |-> IF i \in op[c].paths THEN row[i] ELSE NoRow]
    <3>1. \A i \in Ids : row'[i] = row[i] \/ row'[i] = NoRow
      BY <2>2
    <3>2. \A i \in Ids : TrueRow(row[i])
      BY <1>2 DEF RowsInv
    <3>3. \A i \in Ids : TrueRow(row'[i])
      BY <3>1, <3>2, TrueRows
    <3>4. row' = [i \in Ids |-> row'[i]]
      BY <2>2
    <3>5. RowsInv'
      BY <3>3, <3>4 DEF RowsInv, TrueRow
    <3> QED
      BY <1>1, <3>5 DEF FilesStep, LegalChange, Kept
  <2> QED
    BY <1>1, <2>1, <2>2
<1>4. /\ Moves(c) /\ AsksSame(c) /\ op'[c].found = op[c].found /\ op'[c].todo = op[c].todo
      /\ op'[c].pc \in {"scan", "match"} /\ op'[c].target = op[c].target /\ op'[c].at = op[c].at
  BY <1>1, <1>2, SetScopes
<1>5. IsOp(op'[c], used')
  <2>1. op[c].target \in used' \cup {None} /\ op[c].at \in Nat /\ (op[c].cmd = "fork" => op[c].at = 0)
    BY <1>1, <1>2 DEF IsOp
  <2> QED
    BY <1>1, <1>2, <1>4, <2>1 DEF IsOp, Moves, AsksSame, Places, Acting
<1>6. Relies(op'[c], file')
  BY <1>4 DEF Relies
<1> QED
  BY <1>1, <1>3, <1>4, <1>5, <1>6, WorksInFiles

\* What reading the metadata of a session adds to a listing.
Listing(c, i, meta) ==
  IF meta.archived = Head(op[c].scopes)
  THEN [j \in DOMAIN op[c].found \cup {i} |-> IF j = i THEN meta ELSE op[c].found[j]]
  ELSE op[c].found

LEMMA FoundIs ==
  ASSUME NEW c \in Clients, Has11(c), NEW i, NEW meta, op' = Found(c, i, meta)
  PROVE  /\ Moves(c) /\ AsksSame(c) /\ op'[c].found = Listing(c, i, meta)
         /\ op'[c].scopes = op[c].scopes /\ op'[c].todo = op[c].todo \ {i}
         /\ op'[c].paths = op[c].paths /\ op'[c].pc = op[c].pc
         /\ op'[c].target = op[c].target /\ op'[c].at = op[c].at
<1>1. op' = [op EXCEPT ![c].todo = op[c].todo \ {i}, ![c].found = Listing(c, i, meta)]
  BY DEF Found, Listing, Has11, Fields
<1>2. PICK more : more = op[c].todo \ {i}
  OBVIOUS
<1>3. PICK found : found = Listing(c, i, meta)
  OBVIOUS
<1>4. op' = [op EXCEPT ![c].todo = more, ![c].found = found]
  BY <1>1, <1>2, <1>3
<1>5. /\ Moves(c) /\ AsksSame(c) /\ op'[c].found = found
      /\ op'[c].scopes = op[c].scopes /\ op'[c].todo = more /\ op'[c].paths = op[c].paths
      /\ op'[c].pc = op[c].pc /\ op'[c].target = op[c].target /\ op'[c].at = op[c].at
  BY ONLY <1>4, Has11(c), c \in Clients DEF Has11, Moves, AsksSame, Fields
<1> QED
  BY <1>2, <1>3, <1>5

\* The cases of a session read.
Reads(c, i, meta) ==
  /\ op[c].pc = "read" /\ i \in op[c].todo /\ Exists(i) /\ op' = Found(c, i, meta)
  /\ meta \in {Meta(file[i].log), Meta(Birth(file[i].log))}
  /\ ~Late(i) => meta = Meta(file[i].log)
  /\ FilesStep /\ file'[i].log = file[i].log /\ used' = used /\ left' = left /\ UNCHANGED Chat

LEMMA ReadMetaCases ==
  ASSUME IInv, NEW c \in Clients, ReadMeta(c)
  PROVE  \/ op[c].pc = "read" /\ Refused(c) /\ UNCHANGED <<used, Chat, left>>
         \/ \E i \in Ids : \E meta : Reads(c, i, meta)
<1>1. PICK i \in op[c].todo :
        /\ op[c].pc = "read"
        /\ \/ ~Exists(i) /\ Done(c) /\ UNCHANGED <<file, row>>
           \/ /\ Exists(i) /\ ListsReadOnly(c)
              /\ op' = Found(c, i, ReadOnlyMeta(i)) /\ UNCHANGED <<file, row>>
           \/ /\ Exists(i) /\ ~ListsReadOnly(c) /\ Fresh(i)
              /\ op' = Found(c, i, row[i].meta) /\ UNCHANGED <<file, row>>
           \/ /\ Exists(i) /\ ~ListsReadOnly(c) /\ ~Fresh(i)
              /\ op' = Found(c, i, Meta(file[i].log)) /\ Load(i, TRUE)
        /\ UNCHANGED <<used, Chat, left>>
  BY DEF ReadMeta, At
<1>2. used' = used /\ left' = left /\ UNCHANGED Chat
  BY <1>1 DEF Chat
<1>3. i \in Ids /\ DirectoryInv /\ RowsInv
  <2>1. IsOp(op[c], used) /\ used \subseteq Ids /\ DirectoryInv /\ RowsInv
    BY Held
  <2> QED
    BY <1>1, <2>1 DEF IsOp
<1>4. CASE ~Exists(i) /\ Done(c) /\ UNCHANGED <<file, row>>
  BY <1>1, <1>4 DEF Refused
<1>5. CASE /\ Exists(i) /\ ListsReadOnly(c)
           /\ op' = Found(c, i, ReadOnlyMeta(i)) /\ UNCHANGED <<file, row>>
  <2>1. FilesStep
    BY <1>2, <1>3, <1>5, FilesKept
  <2>2. Reads(c, i, Meta(file[i].log))
    BY <1>1, <1>2, <1>5, <2>1 DEF Reads, ReadOnlyMeta
  <2> QED
    BY <1>3, <2>2
<1>6. CASE /\ Exists(i) /\ ~ListsReadOnly(c) /\ Fresh(i)
           /\ op' = Found(c, i, row[i].meta) /\ UNCHANGED <<file, row>>
  <2>1. FilesStep
    BY <1>2, <1>3, <1>6, FilesKept
  <2>2. TrueRow(row[i]) /\ row[i] # NoRow /\ row[i].print = file[i]
    BY <1>3, <1>6 DEF RowsInv, Fresh
  <2>3. row[i].meta \in {Meta(file[i].log), Meta(Birth(file[i].log))}
    BY <2>2 DEF TrueRow
  <2>4. ~Late(i) => row[i].meta = Meta(file[i].log)
    BY <2>2 DEF Late
  <2>5. Reads(c, i, row[i].meta)
    BY <1>1, <1>2, <1>6, <2>1, <2>3, <2>4 DEF Reads
  <2> QED
    BY <1>3, <2>5
<1>7. CASE /\ Exists(i) /\ ~ListsReadOnly(c) /\ ~Fresh(i)
           /\ op' = Found(c, i, Meta(file[i].log)) /\ Load(i, TRUE)
  <2>1. FilesStep /\ file'[i].log = file[i].log
    BY <1>2, <1>3, <1>7, FilesLoaded
  <2>2. Reads(c, i, Meta(file[i].log))
    BY <1>1, <1>2, <1>7, <2>1 DEF Reads
  <2> QED
    BY <1>3, <2>2
<1> QED
  BY <1>1, <1>4, <1>5, <1>6, <1>7

LEMMA ReadsWorks ==
  ASSUME IInv, NEW c \in Clients, NEW i \in Ids, NEW meta, Reads(c, i, meta)
  PROVE  Works(c)
<1>1. /\ op[c].pc = "read" /\ op' = Found(c, i, meta) /\ i \in op[c].todo
      /\ FilesStep /\ used' = used /\ left' = left /\ UNCHANGED Chat
  BY DEF Reads
<1>2. IsOp(op[c], used) /\ Has11(c) /\ op[c].cmd # "backtrack"
  BY <1>1, Held DEF IsOp
<1>3. /\ Moves(c) /\ AsksSame(c) /\ op'[c].found = Listing(c, i, meta)
      /\ op'[c].todo = op[c].todo \ {i} /\ op'[c].pc = "read"
      /\ op'[c].target = op[c].target /\ op'[c].at = op[c].at
  BY <1>1, <1>2, FoundIs
<1>4. DOMAIN op'[c].found \subseteq used' /\ IsFiniteSet(DOMAIN op'[c].found)
  <2>1. /\ DOMAIN op[c].found \subseteq used /\ IsFiniteSet(DOMAIN op[c].found) /\ i \in used
    BY <1>1, <1>2 DEF IsOp
  <2>2. IsFiniteSet(DOMAIN op[c].found \cup {i})
    BY <2>1, FS_AddElement
  <2>3. DOMAIN Listing(c, i, meta) \in {DOMAIN op[c].found, DOMAIN op[c].found \cup {i}}
    BY DEF Listing
  <2> QED
    BY <1>1, <1>3, <2>1, <2>2, <2>3
<1>5. IsOp(op'[c], used')
  BY <1>1, <1>2, <1>3, <1>4 DEF IsOp, Moves, AsksSame, Places, Acting
<1>6. Relies(op'[c], file')
  BY <1>3 DEF Relies
<1> QED
  BY <1>1, <1>3, <1>5, <1>6, WorksInFiles

\* The session a listing yields is acted on.
LEMMA ListingTaken ==
  ASSUME IInv, NEW c \in Clients, op[c].pc = "match", NEW i \in DOMAIN op[c].found,
         op' = [op EXCEPT ![c].pc = "act", ![c].target = i, ![c].found = <<>>],
         UNCHANGED <<Files, Chat, left>>
  PROVE  /\ Works(c) /\ op'[c].pc = "act" /\ op'[c].target = i /\ op'[c].sel = op[c].sel
         /\ DOMAIN op'[c].found = {}
<1>1. /\ IsOp(op[c], used) /\ Has11(c) /\ op[c].cmd # "backtrack" /\ i \in used
      /\ op[c].at \in Nat /\ (op[c].cmd = "fork" => op[c].at = 0)
  BY Held DEF IsOp
<1>2. used' = used /\ file' = file /\ row' = row /\ left' = left /\ UNCHANGED Chat
  BY DEF Files, Chat
<1>3. FilesStep
  BY <1>2, Held, FilesKept
<1>4. /\ Moves(c) /\ AsksSame(c) /\ ListsSame(c) /\ op'[c].found = <<>>
      /\ op'[c].pc = "act" /\ op'[c].target = i /\ op'[c].at = op[c].at
  BY <1>1, SetFoundTarget
<1>5. DOMAIN op'[c].found = {} /\ IsFiniteSet(DOMAIN op'[c].found)
  BY <1>4, FS_EmptySet
<1>6. IsOp(op'[c], used')
  <2>1. op[c].cmd \in Commands \cup {None} /\ op[c].todo \subseteq used /\ op[c].choice \in Nat
    BY <1>1 DEF IsOp
  <2>2. PICK p : p = op'[c]
    OBVIOUS
  <2>3. /\ DOMAIN p = Fields /\ p.cmd = op[c].cmd /\ p.todo = op[c].todo /\ p.choice = op[c].choice
        /\ p.pc = "act" /\ p.target = i /\ p.at = op[c].at
        /\ DOMAIN p.found = {} /\ IsFiniteSet(DOMAIN p.found)
    BY <1>4, <1>5, <2>2 DEF Moves, AsksSame, ListsSame
  <2>4. IsOp(p, used)
    BY <1>1, <2>1, <2>3 DEF IsOp, Places, Acting
  <2> QED
    BY <1>2, <2>2, <2>4
<1>7. Relies(op'[c], file')
  BY <1>1, <1>4 DEF Relies, AsksSame
<1> QED
  BY <1>2, <1>3, <1>4, <1>5, <1>6, <1>7, WorksInFiles DEF AsksSame

\* Match takes the one session of the name.
OneTaken(c) == op[c].sel # None /\ op'[c].pc = "act" => Named(c) = {op'[c].target}

LEMMA MatchWorks ==
  ASSUME IInv, NEW c \in Clients, Match(c)
  PROVE  /\ Works(c) /\ op[c].pc = "match" /\ OneTaken(c)
         /\ op'[c].pc \notin {"byid", "scan", "read", "match"}
         /\ DOMAIN op'[c].found \subseteq DOMAIN op[c].found
<1>1. /\ op[c].pc = "match" /\ UNCHANGED <<Files, Chat, left>>
      /\ \/ Matches(c) = {} /\ Done(c)
         \/ \E i \in Matches(c) :
              op' = [op EXCEPT ![c].pc = "act", ![c].target = i, ![c].found = <<>>]
  BY DEF Match, At
<1>2. CASE Done(c)
  <2>1. Works(c) /\ Unlisted(c)
    BY <1>1, <1>2, RefusedWorks DEF Refused, Files
  <2> QED
    BY <1>1, <1>2, <2>1, Ends, IdleIs DEF OneTaken
<1>3. ASSUME NEW i \in Matches(c),
             op' = [op EXCEPT ![c].pc = "act", ![c].target = i, ![c].found = <<>>]
      PROVE  /\ Works(c) /\ OneTaken(c) /\ op'[c].pc = "act" /\ DOMAIN op'[c].found = {}
  <2>1. i \in Named(c) /\ Cardinality(Named(c)) = 1
    BY DEF Matches
  <2>2. i \in DOMAIN op[c].found
    BY <2>1 DEF Named
  <2>3. /\ Works(c) /\ op'[c].pc = "act" /\ op'[c].target = i /\ DOMAIN op'[c].found = {}
    BY <1>1, <1>3, <2>2, ListingTaken
  <2>4. Named(c) = {i}
    <3>1. IsFiniteSet(DOMAIN op[c].found)
      BY Held DEF IsOp
    <3>2. IsFiniteSet(Named(c))
      BY <3>1, FS_Subset DEF Named
    <3>3. PICK x : Named(c) = {x}
      BY <2>1, <3>2, FS_Singleton
    <3> QED
      BY <2>1, <3>3
  <2> QED
    BY <2>3, <2>4 DEF OneTaken
<1> QED
  BY <1>1, <1>2, <1>3

LEMMA PickWorks ==
  ASSUME IInv, NEW c \in Clients, Pick(c)
  PROVE  Works(c) /\ Unlisted(c)
<1>1. /\ op[c].pc = "match" /\ op[c].sel = None /\ UNCHANGED <<Files, Chat, left>>
      /\ \/ Done(c)
         \/ \E i \in Candidates(c) :
              IF op[c].how = "pick" /\ op[c].cmd = "fork"
              THEN op' = [op EXCEPT ![c] = [Idle EXCEPT !.cmd = "fork", !.pc = "byid",
                                                        !.sel = i, !.scopes = <<FALSE>>]]
              ELSE /\ op[c].cmd # "sessions"
                   /\ op' = [op EXCEPT ![c].pc = "act", ![c].target = i, ![c].found = <<>>]
  BY DEF Pick, At
<1>2. CASE Done(c)
  BY <1>1, <1>2, RefusedWorks DEF Refused, Files
<1>3. ASSUME NEW i \in Candidates(c),
             op' = [op EXCEPT ![c].pc = "act", ![c].target = i, ![c].found = <<>>]
      PROVE  Works(c) /\ Unlisted(c)
  <2>1. i \in DOMAIN op[c].found
    BY DEF Candidates
  <2> QED
    BY <1>1, <1>3, <2>1, ListingTaken DEF Unlisted
<1>4. ASSUME NEW i \in Candidates(c),
             op' = [op EXCEPT ![c] = [Idle EXCEPT !.cmd = "fork", !.pc = "byid",
                                                  !.sel = i, !.scopes = <<FALSE>>]]
      PROVE  Works(c) /\ Unlisted(c)
  <2>1. i \in used /\ used \subseteq Ids /\ Has11(c)
    <3>1. i \in DOMAIN op[c].found
      BY DEF Candidates
    <3> QED
      BY <3>1, Held DEF IsOp
  <2>2. PICK o : o = [Idle EXCEPT !.cmd = "fork", !.pc = "byid", !.sel = i, !.scopes = <<FALSE>>]
    OBVIOUS
  <2>3. /\ DOMAIN o = Fields /\ o.cmd = "fork" /\ o.pc = "byid" /\ o.sel = i /\ o.scopes = <<FALSE>>
        /\ o.todo = {} /\ o.found = <<>> /\ o.target = None /\ o.at = 0 /\ o.choice = 0
    BY <2>2, IdleIs DEF Idle, Fields
  <2>4. DOMAIN o.found = {} /\ IsFiniteSet(DOMAIN o.found)
    BY <2>3, IdleIs, FS_EmptySet
  <2>5. IsOp(o, used') /\ Relies(o, file')
    BY <2>3, <2>4 DEF IsOp, Relies, Places, Acting, Commands
  <2>6. FilesStep /\ UNCHANGED Chat /\ left' = left
    BY <1>1, Held, FilesKept DEF Files, Chat
  <2>7. Moves(c) /\ op'[c] = o
    BY <1>4, <2>1, <2>2, <2>3, Becomes
  <2>8. Works(c)
    BY <2>3, <2>5, <2>6, <2>7, WorksInFiles
  <2>9. Unlisted(c)
    <3>1. ScopeOf("fork") = <<FALSE>> /\ i # None
      BY <2>1, NothingKnown DEF ScopeOf
    <3> QED
      BY <2>3, <2>4, <2>7, <3>1 DEF Unlisted
  <2> QED
    BY <2>8, <2>9
<1> QED
  BY <1>1, <1>2, <1>3, <1>4

-----------------------------------------------------------------------------
(* What is done to the session found.                                      *)

LEMMA ActsOn ==
  ASSUME IInv, NEW c \in Clients, op[c].pc \in Acting
  PROVE  Target(c) \in used /\ Target(c) \in Ids /\ Target(c) = op[c].target
BY Held DEF IsOp, Target

LEMMA GoesOn ==
  ASSUME IInv, NEW c \in Clients, NEW place \in {"open", "fork", "name", "reload"}, GoTo(c, place),
         FilesStep, op[c].pc \in Acting,
         place = "fork" => op[c].cmd = "fork",
         op[c].cmd = "backtrack" => place \in {"name", "open"}
  PROVE  Moves(c) /\ op'[c].pc = place /\ IsOp(op'[c], used') /\ Relies(op'[c], file') /\ Unlisted(c)
<1>1. Has11(c) /\ IsOp(op[c], used) /\ op[c].target \in used /\ used \subseteq used'
  BY Held, UsedGrows, ActsOn
<1>2. /\ Moves(c) /\ AsksSame(c) /\ ListsSame(c) /\ op'[c].found = op[c].found
      /\ op'[c].pc = place /\ op'[c].target = op[c].target /\ op'[c].at = op[c].at
  BY <1>1, SetPc DEF GoTo
<1>3. IsOp(op'[c], used')
  <2>1. op[c].at \in Nat /\ (op[c].cmd = "fork" => op[c].at = 0)
    BY <1>1 DEF IsOp
  <2>2. PICK p : p = op'[c]
    OBVIOUS
  <2>3. /\ DOMAIN p = Fields /\ p.cmd = op[c].cmd /\ p.todo = op[c].todo /\ p.choice = op[c].choice
        /\ p.pc = place /\ p.target = op[c].target /\ p.at = op[c].at /\ p.found = op[c].found
    BY <1>2, <2>2 DEF Moves, AsksSame, ListsSame
  <2>4. IsOp(p, used')
    BY <1>1, <2>1, <2>3, StillOp DEF Places
  <2> QED
    BY <2>2, <2>4
<1>4. Relies(op'[c], file')
  BY <1>2 DEF Relies
<1>5. Unlisted(c)
  BY <1>2 DEF Unlisted
<1> QED
  BY <1>2, <1>3, <1>4, <1>5

LEMMA LoadToArchiveWorks ==
  ASSUME IInv, NEW c \in Clients, LoadToArchive(c)
  PROVE  Works(c) /\ Unlisted(c)
<1>1. PICK cmd \in {"archive", "unarchive"} :
        /\ op[c].pc = "act" /\ op[c].cmd = cmd
        /\ \/ Refused(c)
           \/ /\ Exists(Target(c)) /\ Load(Target(c), TRUE)
              /\ op' = [op EXCEPT ![c].pc = "apply", ![c].at = Len(file[Target(c)].log)]
        /\ used' = used /\ left' = left /\ UNCHANGED Chat
  BY DEF LoadToArchive, OnFound, At, Gone, Chat
<1>2. Target(c) \in used /\ Target(c) \in Ids /\ Target(c) = op[c].target
  BY <1>1, ActsOn DEF Acting
<1>3. CASE Refused(c)
  BY <1>1, <1>3, RefusedWorks
<1>4. CASE /\ Exists(Target(c)) /\ Load(Target(c), TRUE)
           /\ op' = [op EXCEPT ![c].pc = "apply", ![c].at = Len(file[Target(c)].log)]
  <2>1. FilesStep
    BY <1>1, <1>2, <1>4, Held, FilesLoaded
  <2>2. PICK n \in Nat : n = Len(file[Target(c)].log)
    BY <1>2, Held, JournalParts
  <2>3. Has11(c) /\ IsOp(op[c], used)
    BY Held
  <2>4. /\ Moves(c) /\ AsksSame(c) /\ ListsSame(c) /\ op'[c].found = op[c].found
        /\ op'[c].pc = "apply" /\ op'[c].target = op[c].target /\ op'[c].at = n
    <3>1. op' = [op EXCEPT ![c].pc = "apply", ![c].at = n]
      BY <1>4, <2>2
    <3> QED
      BY <3>1, <2>3 DEF Has11, Moves, AsksSame, ListsSame, Fields
  <2>5. IsOp(op'[c], used')
    <3>1. PICK p : p = op'[c]
      OBVIOUS
    <3>2. /\ DOMAIN p = Fields /\ p.cmd = op[c].cmd /\ p.todo = op[c].todo /\ p.choice = op[c].choice
          /\ p.pc = "apply" /\ p.target = op[c].target /\ p.at = n /\ p.found = op[c].found
      BY <2>4, <3>1 DEF Moves, AsksSame, ListsSame
    <3>3. IsOp(p, used')
      BY <1>1, <1>2, <2>3, <3>2, StillOp DEF Places
    <3> QED
      BY <3>1, <3>3
  <2>6. Relies(op'[c], file') /\ Unlisted(c)
    BY <1>1, <2>4 DEF Relies, AsksSame, Unlisted
  <2> QED
    BY <1>1, <2>1, <2>4, <2>5, <2>6, WorksInFiles
<1> QED
  BY <1>1, <1>3, <1>4

LEMMA SetArchivedWorks ==
  ASSUME IInv, NEW c \in Clients, SetArchived(c)
  PROVE  Works(c) /\ Unlisted(c)
<1>1. PICK cmd \in {"archive", "unarchive"} :
        /\ op[c].pc = "apply" /\ op[c].cmd = cmd
        /\ IF MayArchive(c, cmd) THEN Put(Target(c), Appended(Target(c), Event(cmd, None)))
           ELSE UNCHANGED <<file, row>>
        /\ Done(c) /\ used' = used /\ left' = left /\ UNCHANGED Chat
  BY DEF SetArchived, At, Chat
<1>2. Target(c) \in used /\ Target(c) \in Ids /\ DirectoryInv /\ RowsInv
  BY <1>1, ActsOn, Held DEF Acting
<1>3. CASE ~MayArchive(c, cmd)
  BY <1>1, <1>2, <1>3, FilesKept, EndsInFiles
<1>4. CASE MayArchive(c, cmd)
  <2>1. /\ Exists(Target(c)) /\ ~Open(file[Target(c)].log)
        /\ (cmd = "archive") # Archived(file[Target(c)].log)
    BY <1>4 DEF MayArchive
  <2>2. PICK e : e = Event(cmd, None)
    OBVIOUS
  <2>3. e \in FileEvent /\ e.kind = cmd
    BY <2>2, Events DEF Kinds
  <2>4. cmd = "archive" => ~Archived(file[Target(c)].log)
    BY <2>1 DEF Archived
  <2>5. MayFollow(file[Target(c)].log, e)
    BY <1>1, <2>1, <2>3, <2>4 DEF MayFollow
  <2>6. FilesStep
    BY <1>1, <1>2, <1>4, <2>1, <2>2, <2>5, FilesPut
  <2> QED
    BY <1>1, <2>6, EndsInFiles
<1> QED
  BY <1>3, <1>4

LEMMA DeleteWorks ==
  ASSUME IInv, NEW c \in Clients, Delete(c)
  PROVE  Works(c) /\ Unlisted(c)
<1>1. /\ op[c].pc = "act" /\ used' = used /\ left' = left /\ UNCHANGED Chat
      /\ \/ Refused(c)
         \/ /\ Exists(Target(c)) /\ MayDelete(c)
            /\ file' = [file EXCEPT ![Target(c)] = NoFile]
            /\ row' = [row EXCEPT ![Target(c)] = NoRow] /\ Done(c)
  BY DEF Delete, OnFound, At, Gone, Chat
<1>2. Target(c) \in used /\ Target(c) \in Ids /\ DirectoryInv /\ RowsInv
  BY <1>1, ActsOn, Held DEF Acting
<1>3. CASE Refused(c)
  BY <1>1, <1>3, RefusedWorks
<1>4. CASE /\ Exists(Target(c)) /\ MayDelete(c)
           /\ file' = [file EXCEPT ![Target(c)] = NoFile]
           /\ row' = [row EXCEPT ![Target(c)] = NoRow] /\ Done(c)
  <2>1. LegalChange
    BY <1>1, <1>2, <1>4 DEF LegalChange, Removed, MayDelete
  <2>2. RowsInv'
    BY <1>2, <1>4, TrueRows, RowSet
  <2> QED
    BY <1>1, <1>4, <2>1, <2>2, EndsInFiles DEF FilesStep
<1> QED
  BY <1>1, <1>3, <1>4

LEMMA SnapshotWorks ==
  ASSUME IInv, NEW c \in Clients, Snapshot(c)
  PROVE  Works(c) /\ Unlisted(c)
<1>1. Refused(c) /\ UNCHANGED <<used, Chat, left>>
  BY DEF Snapshot
<1> QED
  BY <1>1, RefusedWorks

LEMMA RestoreModelWorks ==
  ASSUME IInv, NEW c \in Clients, RestoreModel(c)
  PROVE  Works(c) /\ Unlisted(c)
<1>1. PICK cmd \in {"resume", "recover"} :
        /\ op[c].pc = "act" /\ op[c].cmd = cmd
        /\ \/ Refused(c)
           \/ Exists(Target(c)) /\ Load(Target(c), TRUE) /\ GoTo(c, "open")
        /\ used' = used /\ left' = left /\ UNCHANGED Chat
  BY DEF RestoreModel, OnFound, At, Gone, Chat
<1>2. Target(c) \in used /\ Target(c) \in Ids /\ op[c].pc \in Acting
  BY <1>1, ActsOn DEF Acting
<1>3. CASE Refused(c)
  BY <1>1, <1>3, RefusedWorks
<1>4. CASE Exists(Target(c)) /\ Load(Target(c), TRUE) /\ GoTo(c, "open")
  <2>1. FilesStep
    BY <1>1, <1>2, <1>4, Held, FilesLoaded
  <2>2. /\ Moves(c) /\ op'[c].pc = "open" /\ IsOp(op'[c], used') /\ Relies(op'[c], file')
        /\ Unlisted(c)
    BY <1>1, <1>2, <1>4, <2>1, GoesOn
  <2> QED
    BY <1>1, <2>1, <2>2, WorksInFiles
<1> QED
  BY <1>1, <1>3, <1>4

\* A chat opens a session, and its command ends.
LEMMA OpensWorks ==
  ASSUME IInv, NEW c \in Clients, FilesStep, Done(c), NEW i \in used, NEW n \in Nat, Opened(c, i, n),
         left' = left
  PROVE  Works(c) /\ Unlisted(c)
<1>1. active' = [active EXCEPT ![c] = i] /\ rev' = [rev EXCEPT ![c] = n]
  BY DEF Opened
<1>2. used \subseteq used'
  BY UsedGrows
<1>3. /\ active \in [Clients -> used \cup {None}] /\ rev \in [Clients -> Nat]
      /\ left \in 0 .. MaxCommands
  BY Held
<1>4. /\ active' \in [Clients -> used' \cup {None}] /\ rev' \in [Clients -> Nat]
      /\ \A d \in Clients : d # c => active'[d] = active[d]
  BY <1>1, <1>2, <1>3
<1>5. /\ Moves(c) /\ op'[c] = Idle /\ IsOp(op'[c], used') /\ Relies(op'[c], file')
      /\ op'[c].pc = "idle" /\ Unlisted(c)
  BY Ends
<1>6. CommandInv(c)'
  BY <1>5 DEF CommandInv
<1> QED
  BY <1>3, <1>4, <1>5, <1>6 DEF Works

\* A sound log is not open and archived at once.
LEMMA OpenIsNotArchived ==
  ASSUME DirectoryInv, NEW i \in Ids, Exists(i)
  PROVE  /\ ~(Open(file[i].log) /\ Archived(file[i].log))
         /\ Prefix(file[i].log, Len(file[i].log)) = file[i].log
<1>1. /\ file[i].log \in Seq(FileEvent) /\ Len(file[i].log) \in Nat /\ Len(file[i].log) >= 1
      /\ SoundLog(file[i].log)
  BY JournalParts
<1>2. Prefix(file[i].log, Len(file[i].log)) = file[i].log
  BY <1>1 DEF Prefix
<1>3. Len(file[i].log) \in 1 .. Len(file[i].log)
  BY <1>1
<1>4. ~(Archived(Prefix(file[i].log, Len(file[i].log))) /\ Open(Prefix(file[i].log, Len(file[i].log))))
  BY <1>1, <1>3 DEF SoundLog, Prefix
<1> QED
  BY <1>2, <1>4

LEMMA OpenSessionWorks ==
  ASSUME IInv, NEW c \in Clients, OpenSession(c)
  PROVE  Works(c) /\ Unlisted(c)
<1>1. /\ op[c].pc = "open" /\ used' = used /\ left' = left
      /\ \/ Refused(c) /\ UNCHANGED Chat
         \/ /\ Exists(Target(c)) /\ Load(Target(c), TRUE)
            /\ \/ Done(c) /\ UNCHANGED Chat
               \/ /\ ~Archived(file[Target(c)].log) /\ op[c].cmd = "recover"
                  /\ op' = [op EXCEPT ![c].pc = "apply", ![c].at = Len(file[Target(c)].log)]
                  /\ UNCHANGED Chat
               \/ /\ Done(c)
                  /\ Opened(c, Target(c), Len(file[Target(c)].log)) \/ UNCHANGED Chat
  BY DEF OpenSession, At, Gone
<1>2. /\ Target(c) \in used /\ Target(c) \in Ids /\ Target(c) = op[c].target
      /\ op[c].pc \in Acting /\ DirectoryInv
  BY <1>1, ActsOn, Held DEF Acting
<1>3. CASE Refused(c) /\ UNCHANGED Chat
  BY <1>1, <1>3, RefusedWorks
<1>4. PICK n \in Nat : n = Len(file[Target(c)].log)
  BY <1>2, JournalParts
<1>5. ASSUME Exists(Target(c)), Load(Target(c), TRUE)
      PROVE  FilesStep /\ file'[Target(c)].log = file[Target(c)].log
  BY <1>1, <1>2, <1>5, Held, FilesLoaded
<1>6. CASE Exists(Target(c)) /\ Load(Target(c), TRUE) /\ Done(c) /\ UNCHANGED Chat
  BY <1>1, <1>5, <1>6, EndsInFiles
<1>7. CASE Exists(Target(c)) /\ Load(Target(c), TRUE) /\ Done(c) /\ Opened(c, Target(c), n)
  BY <1>1, <1>2, <1>5, <1>7, OpensWorks
<1>8. CASE /\ Exists(Target(c)) /\ Load(Target(c), TRUE)
           /\ ~Archived(file[Target(c)].log) /\ op[c].cmd = "recover"
           /\ op' = [op EXCEPT ![c].pc = "apply", ![c].at = n]
           /\ UNCHANGED Chat
  <2>1. Has11(c) /\ IsOp(op[c], used)
    BY Held
  <2>2. /\ Moves(c) /\ AsksSame(c) /\ ListsSame(c) /\ op'[c].found = op[c].found
        /\ op'[c].pc = "apply" /\ op'[c].target = op[c].target /\ op'[c].at = n
    BY <1>8, <2>1 DEF Has11, Moves, AsksSame, ListsSame, Fields
  <2>3. PICK p : p = op'[c]
    OBVIOUS
  <2>4. /\ DOMAIN p = Fields /\ p.cmd = "recover" /\ p.cmd = op[c].cmd /\ p.todo = op[c].todo
        /\ p.choice = op[c].choice
        /\ p.pc = "apply" /\ p.target = Target(c) /\ p.at = n /\ p.found = op[c].found
    BY <1>2, <1>8, <2>2, <2>3 DEF Moves, AsksSame, ListsSame
  <2>5. IsOp(p, used')
    BY <1>1, <1>2, <2>1, <2>4, StillOp DEF Places
  <2>6. Relies(p, file')
    <3>1. /\ n <= Len(file'[Target(c)].log)
          /\ ~Archived(Prefix(file'[Target(c)].log, n))
      BY <1>2, <1>4, <1>5, <1>8, OpenIsNotArchived
    <3> QED
      BY <2>4, <3>1 DEF Relies
  <2>7. Unlisted(c)
    BY <2>2 DEF Unlisted
  <2> QED
    BY <1>1, <1>5, <1>8, <2>2, <2>3, <2>4, <2>5, <2>6, <2>7, WorksInFiles
<1> QED
  BY <1>1, <1>3, <1>4, <1>6, <1>7, <1>8

LEMMA RecoverWorks ==
  ASSUME IInv, NEW c \in Clients, Recover(c)
  PROVE  Works(c) /\ Unlisted(c)
<1>1. /\ op[c].pc = "apply" /\ op[c].cmd = "recover" /\ used' = used /\ left' = left /\ UNCHANGED Chat
      /\ \/ /\ Exists(Target(c)) /\ Len(file[Target(c)].log) = op[c].at
            /\ Put(Target(c), Appended(Target(c), Event("fail", None))) /\ GoTo(c, "reload")
         \/ Done(c) /\ file' = file /\ row' = row
  BY DEF Recover, At, Chat
<1>2. /\ Target(c) \in used /\ Target(c) \in Ids /\ Target(c) = op[c].target
      /\ op[c].pc \in Acting /\ DirectoryInv /\ RowsInv
  BY <1>1, ActsOn, Held DEF Acting
<1>3. CASE Done(c) /\ file' = file /\ row' = row
  BY <1>1, <1>2, <1>3, FilesKept, EndsInFiles
<1>4. CASE /\ Exists(Target(c)) /\ Len(file[Target(c)].log) = op[c].at
           /\ Put(Target(c), Appended(Target(c), Event("fail", None))) /\ GoTo(c, "reload")
  <2>1. ~Archived(Prefix(file[Target(c)].log, op[c].at))
    BY <1>1, <1>2, <1>4, Held DEF Relies, Exists
  <2>2. ~Archived(file[Target(c)].log)
    BY <1>2, <1>4, <2>1, OpenIsNotArchived
  <2>3. PICK e : e = Event("fail", None)
    OBVIOUS
  <2>4. e \in FileEvent /\ e.kind = "fail"
    BY <2>3, Events DEF Kinds
  <2>5. MayFollow(file[Target(c)].log, e)
    BY <2>2, <2>4 DEF MayFollow
  <2>6. FilesStep
    BY <1>1, <1>2, <1>4, <2>3, <2>5, FilesPut
  <2>7. /\ Moves(c) /\ op'[c].pc = "reload" /\ IsOp(op'[c], used') /\ Relies(op'[c], file')
        /\ Unlisted(c)
    BY <1>1, <1>2, <1>4, <2>6, GoesOn
  <2> QED
    BY <1>1, <2>6, <2>7, WorksInFiles
<1> QED
  BY <1>1, <1>3, <1>4

LEMMA ReloadWorks ==
  ASSUME IInv, NEW c \in Clients, Reload(c)
  PROVE  Works(c) /\ Unlisted(c)
<1>1. /\ op[c].pc = "reload" /\ used' = used /\ left' = left
      /\ \/ Refused(c) /\ UNCHANGED Chat
         \/ /\ Exists(Target(c)) /\ Load(Target(c), TRUE)
            /\ Opened(c, Target(c), Len(file[Target(c)].log)) /\ Done(c)
  BY DEF Reload, At, Gone
<1>2. Target(c) \in used /\ Target(c) \in Ids /\ DirectoryInv /\ RowsInv
  BY <1>1, ActsOn, Held DEF Acting
<1>3. CASE Refused(c) /\ UNCHANGED Chat
  BY <1>1, <1>3, RefusedWorks
<1>4. PICK n \in Nat : n = Len(file[Target(c)].log)
  BY <1>2, JournalParts
<1>5. CASE Exists(Target(c)) /\ Load(Target(c), TRUE) /\ Opened(c, Target(c), n) /\ Done(c)
  <2>1. FilesStep
    BY <1>1, <1>2, <1>5, FilesLoaded
  <2> QED
    BY <1>1, <1>2, <1>5, <2>1, OpensWorks
<1> QED
  BY <1>1, <1>3, <1>4, <1>5

-----------------------------------------------------------------------------
(* Forks and new sessions.                                                 *)

LEMMA RestoreSourceWorks ==
  ASSUME IInv, NEW c \in Clients, RestoreSource(c)
  PROVE  Works(c) /\ Unlisted(c)
<1>1. /\ op[c].pc = "act" /\ op[c].cmd = "fork" /\ used' = used /\ left' = left /\ UNCHANGED Chat
      /\ \/ Refused(c)
         \/ Exists(Target(c)) /\ Load(Target(c), TRUE) /\ (Done(c) \/ GoTo(c, "fork"))
  BY DEF RestoreSource, OnFound, At, Gone, Chat
<1>2. Target(c) \in used /\ Target(c) \in Ids /\ op[c].pc \in Acting
  BY <1>1, ActsOn DEF Acting
<1>3. CASE Refused(c)
  BY <1>1, <1>3, RefusedWorks
<1>4. CASE Exists(Target(c)) /\ Load(Target(c), TRUE) /\ (Done(c) \/ GoTo(c, "fork"))
  <2>1. FilesStep
    BY <1>1, <1>2, <1>4, Held, FilesLoaded
  <2>2. CASE Done(c)
    BY <1>1, <2>1, <2>2, EndsInFiles
  <2>3. CASE GoTo(c, "fork")
    <3>1. /\ Moves(c) /\ op'[c].pc = "fork" /\ IsOp(op'[c], used') /\ Relies(op'[c], file')
          /\ Unlisted(c)
      BY <1>1, <1>2, <2>1, <2>3, GoesOn
    <3> QED
      BY <1>1, <2>1, <3>1, WorksInFiles
  <2> QED
    BY <1>4, <2>2, <2>3
<1> QED
  BY <1>1, <1>3, <1>4

\* A prefix that ends with a commit leaves no turn open.
LEMMA EndsWithCommit ==
  ASSUME NEW l \in Seq(FileEvent), SoundLog(l), NEW n \in 1 .. Len(l), n = 1 \/ l[n].kind = "commit"
  PROVE  /\ Prefix(l, n) \in Seq(FileEvent) /\ Len(Prefix(l, n)) = n
         /\ \A k \in 1 .. n : Prefix(l, n)[k] = l[k]
         /\ ~Open(Prefix(l, n)) /\ ~Archived(Prefix(l, n))
<1>1. PICK m : m = Prefix(l, n)
  OBVIOUS
<1>2. /\ m \in Seq(FileEvent) /\ Len(m) = n /\ \A k \in 1 .. n : m[k] = l[k]
      /\ n \in Nat /\ n >= 1 /\ Len(l) \in Nat
  BY <1>1 DEF Prefix
<1>3. CASE n = 1
  <2>1. m[1].kind = "created"
    BY <1>2, <1>3 DEF SoundLog
  <2> QED
    BY <1>1, <1>2, <1>3, <2>1, OneEvent
<1>4. CASE l[n].kind = "commit"
  <2>1. ~Archived(m)
    BY <1>1, <1>4 DEF SoundLog, Prefix
  <2>2. m[n].kind = "commit"
    BY <1>2, <1>4
  <2>3. PICK S : S = Indices(m, {"start", "commit", "fail"})
    OBVIOUS
  <2>4. n \in S /\ S \subseteq 1 .. n
    BY <1>2, <2>2, <2>3 DEF Indices
  <2>5. \A k \in S : k <= n
    BY <1>2, <2>4
  <2>6. Latest(S) = n
    BY <1>2, <2>4, <2>5, LatestIs
  <2>7. KindOfLast(m, {"start", "commit", "fail"}) = "commit"
    BY <2>2, <2>3, <2>4, <2>6 DEF KindOfLast
  <2> QED
    BY <1>1, <1>2, <2>1, <2>7 DEF Open
<1> QED
  BY <1>3, <1>4

\* The title a sound log gives.
LEMMA TitleIs ==
  ASSUME NEW l \in Seq(FileEvent), SoundLog(l)
  PROVE  Title(l) \in Titles \cup {None}
<1>1. Len(l) \in Nat /\ Len(l) >= 1 /\ l[1].kind = "created"
  BY DEF SoundLog
<1>2. PICK S : S = Indices(l, {"created", "title"})
  OBVIOUS
<1>3. 1 \in S /\ S \subseteq 1 .. Len(l)
  BY <1>1, <1>2 DEF Indices
<1>4. Latest(S) \in 1 .. Len(l)
  BY <1>1, <1>3, HasLatest
<1>5. l[Latest(S)] \in FileEvent
  BY <1>4
<1> QED
  BY <1>2, <1>5 DEF Title, FileEvent

\* Where a fork ends: at a commit or at the birth of its source.
LEMMA ForkPoint ==
  ASSUME IInv, NEW c \in Clients, op[c].pc = "fork" \/ (op[c].pc = "act" /\ op[c].cmd = "backtrack"),
         Exists(Target(c)), Boundary(c, file[Target(c)].log) # 0
  PROVE  LET log == file[Target(c)].log  n == Boundary(c, log) IN
         /\ n \in 1 .. Len(log) /\ (n = 1 \/ log[n].kind = "commit")
         /\ op[c].cmd = "backtrack" => op[c].choice <= Len(log) /\ n = BeforePrompt(log, op[c].choice)
<1>1. PICK log : log = file[Target(c)].log
  OBVIOUS
<1>2. PICK n : n = Boundary(c, log)
  OBVIOUS
<1>3. Target(c) \in Ids /\ Target(c) = op[c].target /\ IsOp(op[c], used) /\ Relies(op[c], file)
      /\ DirectoryInv
  BY ActsOn, Held DEF Acting
<1>4. /\ log \in Seq(FileEvent) /\ Len(log) \in Nat /\ Len(log) >= 1
  BY <1>1, <1>3, JournalParts
<1>5. Commits(log) \subseteq 1 .. Len(log) /\ \A k \in Commits(log) : log[k].kind = "commit"
  BY DEF Commits, Indices
<1>6. CASE op[c].pc = "fork"
  <2>1. op[c].cmd = "fork" /\ op[c].at = 0
    BY <1>3, <1>6 DEF IsOp
  <2>2. Commits(log) # {} /\ n = Latest(Commits(log))
    BY <1>1, <1>2, <2>1 DEF Boundary
  <2>3. n \in Commits(log)
    BY <1>4, <1>5, <2>2, HasLatest
  <2> QED
    BY <1>1, <1>2, <1>5, <2>1, <2>3
<1>7. CASE op[c].pc = "act" /\ op[c].cmd = "backtrack"
  <2>1. op[c].choice <= Len(log) /\ op[c].at = BeforePrompt(log, op[c].choice)
    BY <1>1, <1>3, <1>7 DEF Relies, Exists
  <2>2. PICK S : S = {m \in Commits(log) : m < op[c].choice}
    OBVIOUS
  <2>3. op[c].at = IF S = {} THEN 1 ELSE Latest(S)
    BY <2>1, <2>2 DEF BeforePrompt
  <2>4. S # {} => Latest(S) \in S
    <3>1. S \subseteq 1 .. Len(log)
      BY <1>5, <2>2
    <3> QED
      BY <1>4, <3>1, HasLatest
  <2>5. op[c].at \in 1 .. Len(log) /\ (op[c].at = 1 \/ log[op[c].at].kind = "commit")
    BY <1>4, <1>5, <2>2, <2>3, <2>4
  <2>6. n = op[c].at
    BY <1>2, <2>5 DEF Boundary
  <2> QED
    BY <1>1, <1>2, <2>1, <2>5, <2>6
<1> QED
  BY <1>6, <1>7

\* The commits before a prompt are those up to its boundary.
LEMMA CommitsBefore ==
  ASSUME NEW l \in Seq(FileEvent), SoundLog(l), NEW x \in Nat, x <= Len(l),
         NEW n \in 1 .. Len(l), n = BeforePrompt(l, x)
  PROVE  Commits(Prefix(l, n)) = {k \in Commits(l) : k < x}
<1>1. Len(l) \in Nat /\ Len(l) >= 1 /\ l[1].kind = "created" /\ n \in Nat
  BY DEF SoundLog
<1>2. PICK m : m = Prefix(l, n)
  OBVIOUS
<1>3. Len(m) = n /\ \A k \in 1 .. n : m[k] = l[k]
  BY <1>1, <1>2 DEF Prefix
<1>4. Commits(m) = {k \in 1 .. n : l[k].kind = "commit"}
  BY <1>3 DEF Commits, Indices
<1>5. Commits(l) = {k \in 1 .. Len(l) : l[k].kind = "commit"}
  BY DEF Commits, Indices
<1>6. PICK S : S = {k \in Commits(l) : k < x}
  OBVIOUS
<1>7. S \subseteq 1 .. Len(l)
  BY <1>5, <1>6
<1>8. CASE S = {}
  <2>1. n = 1
    BY <1>6, <1>8 DEF BeforePrompt
  <2>2. Commits(m) = {}
    BY <1>1, <1>4, <2>1
  <2> QED
    BY <1>2, <1>6, <1>8, <2>2
<1>9. CASE S # {}
  <2>1. n = Latest(S)
    BY <1>6, <1>9 DEF BeforePrompt
  <2>2. n \in S /\ \A k \in S : k <= n
    BY <1>1, <1>7, <1>9, <2>1, HasLatest
  <2>3. n < x
    BY <1>6, <2>2
  <2>4. \A k \in 1 .. Len(l) : k \in S <=> (l[k].kind = "commit" /\ k <= n)
    BY <1>1, <1>5, <1>6, <2>2, <2>3
  <2>5. Commits(m) = S
    BY <1>1, <1>4, <1>7, <2>4
  <2> QED
    BY <1>2, <1>6, <2>5
<1> QED
  BY <1>8, <1>9

\* The journal of a fork.
IsChild(m, i, n) ==
  /\ m \in Seq(FileEvent) /\ Len(m) = n
  /\ m[1].parent = i /\ m[1].cut = n
  /\ SameKinds(m, Prefix(file[i].log, n))
  /\ Birth(m) = m /\ MayBegin(m, file)

LEMMA ChildIs ==
  ASSUME DirectoryInv, NEW i \in Ids, Exists(i), NEW n \in 1 .. Len(file[i].log),
         n = 1 \/ file[i].log[n].kind = "commit"
  PROVE  Child(i, n) = [log |-> Child(i, n).log, torn |-> FALSE] /\ IsChild(Child(i, n).log, i, n)
<1>1. PICK l : l = file[i].log
  OBVIOUS
<1>2. /\ l \in Seq(FileEvent) /\ Len(l) \in Nat /\ SoundLog(l) /\ l[1].kind = "created"
      /\ n \in Nat /\ n >= 1 /\ n \in 1 .. Len(l)
  <2>1. l \in Seq(FileEvent) /\ Len(l) \in Nat /\ SoundLog(l)
    BY <1>1, JournalParts
  <2>2. n \in 1 .. Len(l)
    BY <1>1
  <2> QED
    BY <2>1, <2>2 DEF SoundLog
<1>3. PICK first : first = Created(Title(l), i, n)
  OBVIOUS
<1>4. /\ first \in FileEvent /\ first.kind = "created" /\ first.parent = i /\ first.cut = n
  <2>1. PICK t \in Titles \cup {None} : t = Title(l)
    BY <1>2, TitleIs
  <2>2. first = Created(t, i, n)
    BY <1>3, <2>1
  <2> QED
    BY <1>2, <2>1, <2>2 DEF Created, FileEvent, Kinds
<1>5. PICK m : m = [k \in 1 .. n |-> IF k = 1 THEN first ELSE l[k]]
  OBVIOUS
<1>6. Child(i, n) = [torn |-> FALSE, log |-> m]
  BY <1>1, <1>3, <1>5 DEF Child
<1>7. \A k \in 1 .. n : l[k] \in FileEvent
  BY <1>2
<1>8. /\ m \in Seq(FileEvent) /\ Len(m) = n /\ m[1] = first
      /\ \A k \in 2 .. n : m[k] = l[k]
  BY <1>2, <1>4, <1>5, <1>7
<1>9. \A k \in 1 .. n : m[k].kind = l[k].kind
  BY <1>2, <1>4, <1>8
<1>10. ASSUME NEW k \in 1 .. n
       PROVE  /\ SameKinds(Prefix(m, k), Prefix(l, k)) /\ Len(Prefix(m, k)) \in Nat
              /\ Open(Prefix(m, k)) = Open(Prefix(l, k)) /\ Archived(Prefix(m, k)) = Archived(Prefix(l, k))
  <2>1. PICK a : a = Prefix(m, k)
    OBVIOUS
  <2>2. PICK b : b = Prefix(l, k)
    OBVIOUS
  <2>3. k \in Nat /\ k <= Len(m) /\ k <= Len(l)
    BY <1>2, <1>8
  <2>4. Len(a) = k /\ \A x \in 1 .. k : a[x] = m[x]
    BY <1>8, <2>1, <2>3 DEF Prefix
  <2>5. Len(b) = k /\ \A x \in 1 .. k : b[x] = l[x]
    BY <1>2, <2>2, <2>3 DEF Prefix
  <2>6. SameKinds(a, b) /\ Len(a) \in Nat
    BY <1>2, <1>9, <2>3, <2>4, <2>5 DEF SameKinds
  <2>7. Open(a) = Open(b) /\ Archived(a) = Archived(b)
    BY <2>6, KindsDecide
  <2> QED
    BY <2>1, <2>2, <2>6, <2>7
<1>11. Prefix(m, n) = m
  BY <1>2, <1>8 DEF Prefix
<1>12. SameKinds(m, Prefix(l, n)) /\ ~Open(m) /\ ~Archived(m)
  <2>1. n \in 1 .. n
    BY <1>2
  <2>2. ~Open(Prefix(l, n)) /\ ~Archived(Prefix(l, n))
    BY <1>1, <1>2, EndsWithCommit
  <2> QED
    BY <1>10, <1>11, <2>1, <2>2
<1>13. SoundLog(m)
  <2>1. m # <<>> /\ m[1].kind = "created"
    BY <1>2, <1>4, <1>8
  <2>2. ASSUME NEW k \in 1 .. Len(m)
        PROVE  ~(Archived(Prefix(m, k)) /\ (Open(Prefix(m, k)) \/ m[k].kind = "commit"))
    <3>1. k \in 1 .. n /\ k \in 1 .. Len(l)
      BY <1>2, <1>8
    <3>2. ~(Archived(Prefix(l, k)) /\ (Open(Prefix(l, k)) \/ l[k].kind = "commit"))
      BY <1>2, <3>1 DEF SoundLog, Prefix
    <3> QED
      BY <1>9, <1>10, <3>1, <3>2
  <2> QED
    BY <2>1, <2>2 DEF SoundLog, Prefix
<1>14. m[1].parent = i /\ m[1].cut = n
  BY <1>4, <1>8
<1>15. Birth(m) = m
  BY <1>2, <1>11, <1>14 DEF Birth, Prefix
<1>16. Forked(m, l)
  <2>1. n = 1 \/ m[n].kind = "commit"
    BY <1>1, <1>2, <1>9
  <2>2. SubSeq(l, 2, n) = SubSeq(m, 2, n)
    BY <1>2, <1>8
  <2> QED
    BY <1>12, <1>14, <1>15, <2>1, <2>2 DEF Forked
<1>17. MayBegin(m, file)
  BY <1>1, <1>2, <1>8, <1>13, <1>14, <1>16 DEF MayBegin, Exists
<1> QED
  BY <1>1, <1>6, <1>8, <1>12, <1>14, <1>15, <1>17 DEF IsChild

LEMMA ForkThreadWorks ==
  ASSUME IInv, NEW c \in Clients, ForkThread(c),
         op[c].pc = "fork" \/ (op[c].pc = "act" /\ op[c].cmd = "backtrack")
  PROVE  Works(c) /\ Unlisted(c)
<1>1. PICK i : i = Target(c)
  OBVIOUS
<1>2. i \in used /\ i \in Ids /\ DirectoryInv /\ RowsInv /\ used \subseteq Ids /\ i = op[c].target
  BY <1>1, ActsOn, Held DEF Acting
<1>3. PICK n : n = IF Exists(i) THEN Boundary(c, file[i].log) ELSE 0
  OBVIOUS
<1>4. /\ left' = left /\ UNCHANGED Chat
      /\ \/ Done(c) /\ file' = file /\ row' = row /\ used' = used
         \/ /\ n # 0 /\ row' = row
            /\ \E j \in Ids \ used :
                 /\ Publish(j, Child(i, n))
                 /\ op' = [op EXCEPT ![c].pc = "project", ![c].target = j, ![c].at = 0]
  BY <1>1, <1>3 DEF ForkThread, Chat, Files
<1>5. CASE Done(c) /\ file' = file /\ row' = row /\ used' = used
  BY <1>2, <1>4, <1>5, FilesKept, EndsInFiles
<1>6. ASSUME n # 0, row' = row, NEW j \in Ids \ used, Publish(j, Child(i, n)),
             op' = [op EXCEPT ![c].pc = "project", ![c].target = j, ![c].at = 0]
      PROVE  Works(c) /\ Unlisted(c)
  <2>1. Exists(i) /\ n = Boundary(c, file[i].log)
    BY <1>3, <1>6
  <2>2. /\ n \in 1 .. Len(file[i].log) /\ (n = 1 \/ file[i].log[n].kind = "commit")
        /\ op[c].cmd = "backtrack" =>
             op[c].choice <= Len(file[i].log) /\ n = BeforePrompt(file[i].log, op[c].choice)
    BY <1>1, <1>6, <2>1, ForkPoint
  <2>3. PICK m : m = Child(i, n).log
    OBVIOUS
  <2>4. Child(i, n) = [log |-> m, torn |-> FALSE] /\ IsChild(m, i, n)
    BY <1>2, <2>1, <2>2, <2>3, ChildIs
  <2>5. used' = used \cup {j} /\ file' = [file EXCEPT ![j] = [log |-> m, torn |-> FALSE]]
    BY <1>6, <2>4 DEF Publish
  <2>6. Published(j)
    BY <2>4, <2>5 DEF Published, IsChild
  <2>7. FilesStep
    <3>1. RowsInv'
      BY <1>2, <1>6 DEF RowsInv, TrueRow
    <3> QED
      BY <2>6, <3>1 DEF FilesStep, LegalChange
  <2>8. Has11(c) /\ IsOp(op[c], used) /\ j \in used' /\ used \subseteq used'
    BY <2>5, Held
  <2>9. /\ Moves(c) /\ AsksSame(c) /\ ListsSame(c) /\ op'[c].found = op[c].found
        /\ op'[c].pc = "project" /\ op'[c].target = j /\ op'[c].at = 0
    BY ONLY <1>6, <2>8, c \in Clients DEF Has11, Moves, AsksSame, ListsSame, Fields
  <2>10. PICK p : p = op'[c]
    OBVIOUS
  <2>11. /\ DOMAIN p = Fields /\ p.cmd = op[c].cmd /\ p.todo = op[c].todo
         /\ p.choice = op[c].choice /\ p.pc = "project" /\ p.target = j /\ p.at = 0
         /\ p.found = op[c].found
    BY <2>9, <2>10 DEF Moves, AsksSame, ListsSame
  <2>12. IsOp(p, used')
    BY <2>8, <2>11, StillOp DEF Places
  <2>13. Relies(p, file')
    <3> SUFFICES ASSUME p.cmd = "backtrack"
                 PROVE  LET log == file'[j].log  source == file'[log[1].parent].log IN
                        /\ log[1].parent # None
                        /\ source # <<>> =>
                             /\ p.choice <= Len(source)
                             /\ Commits(Birth(log)) = {x \in Commits(source) : x < p.choice}
      BY <2>11 DEF Relies
    <3>1. file'[j].log = m /\ file'[i] = file[i]
      <4>1. file \in [Ids -> Journal] /\ i # j
        BY <1>2 DEF DirectoryInv
      <4> QED
        BY <1>2, <2>5, <4>1
    <3>2. m[1].parent = i /\ i # None /\ Birth(m) = m /\ SameKinds(m, Prefix(file[i].log, n))
          /\ Len(m) = n
      BY <1>2, <2>4, NothingKnown DEF IsChild
    <3>3. op[c].choice \in Nat /\ p.choice = op[c].choice /\ op[c].choice <= Len(file[i].log)
          /\ n = BeforePrompt(file[i].log, op[c].choice)
      BY <2>2, <2>8, <2>11 DEF IsOp
    <3>4. Commits(m) = Commits(Prefix(file[i].log, n))
      BY <2>2, <3>2, KindsDecide
    <3>5. file[i].log \in Seq(FileEvent) /\ SoundLog(file[i].log)
      BY <1>2, <2>1, JournalParts
    <3>6. Commits(Prefix(file[i].log, n)) = {x \in Commits(file[i].log) : x < op[c].choice}
      BY <2>2, <3>3, <3>5, CommitsBefore
    <3> QED
      BY <3>1, <3>2, <3>3, <3>4, <3>6
  <2>14. Unlisted(c)
    BY <2>9 DEF Unlisted
  <2> QED
    BY <1>4, <2>7, <2>9, <2>10, <2>11, <2>12, <2>13, <2>14, WorksInFiles
<1> QED
  BY <1>4, <1>5, <1>6

LEMMA ForkWorks ==
  ASSUME IInv, NEW c \in Clients, Fork(c) \/ submitBacktrack(c)
  PROVE  Works(c) /\ Unlisted(c)
<1>1. /\ ForkThread(c)
      /\ op[c].pc = "fork" \/ (op[c].pc = "act" /\ op[c].cmd = "backtrack")
  BY DEF Fork, submitBacktrack, OnFound, At
<1> QED
  BY <1>1, ForkThreadWorks

LEMMA NewWorks ==
  ASSUME IInv, NEW c \in Clients, New(c)
  PROVE  Works(c) /\ Unlisted(c)
<1>1. PICK j \in Ids \ used, t \in Titles :
        /\ Given(c, [Idle EXCEPT !.cmd = "new", !.pc = "project", !.target = j])
        /\ Publish(j, [log |-> <<Created(t, None, 0)>>, torn |-> FALSE])
        /\ row' = row /\ UNCHANGED Chat
  BY DEF New, Chat
<1>2. PICK e : e = Created(t, None, 0)
  OBVIOUS
<1>3. e \in FileEvent /\ e.kind = "created" /\ e.parent = None
  BY <1>2 DEF Created, FileEvent, Kinds
<1>4. PICK m : m = <<e>>
  OBVIOUS
<1>5. m \in Seq(FileEvent) /\ Len(m) = 1 /\ m[1] = e /\ m # <<>>
  BY <1>3, <1>4
<1>6. SoundLog(m)
  <2>1. ~Open(m) /\ ~Archived(m)
    BY <1>3, <1>5, OneEvent
  <2>2. Prefix(m, 1) = m
    BY <1>5 DEF Prefix
  <2>3. \A n \in 1 .. Len(m) : n = 1
    BY <1>5
  <2> QED
    BY <1>3, <1>5, <2>1, <2>2, <2>3 DEF SoundLog, Prefix
<1>7. MayBegin(m, file)
  BY <1>3, <1>5, <1>6 DEF MayBegin
<1>8. used' = used \cup {j} /\ file' = [file EXCEPT ![j] = [log |-> m, torn |-> FALSE]]
  BY <1>1, <1>2, <1>4 DEF Publish
<1>9. FilesStep
  <2>1. Published(j)
    BY <1>1, <1>5, <1>7, <1>8 DEF Published
  <2>2. RowsInv'
    BY <1>1, Held DEF RowsInv, TrueRow
  <2> QED
    BY <2>1, <2>2 DEF FilesStep, LegalChange
<1>10. PICK o : o = [Idle EXCEPT !.cmd = "new", !.pc = "project", !.target = j]
  OBVIOUS
<1>11. /\ DOMAIN o = Fields /\ o.cmd = "new" /\ o.pc = "project" /\ o.target = j
       /\ o.todo = {} /\ o.found = <<>> /\ o.at = 0 /\ o.choice = 0
  BY <1>10, IdleIs DEF Idle, Fields
<1>12. DOMAIN o.found = {} /\ IsFiniteSet(DOMAIN o.found)
  BY <1>11, IdleIs, FS_EmptySet
<1>13. IsOp(o, used') /\ Relies(o, file')
  BY <1>8, <1>11, <1>12 DEF IsOp, Relies, Places, Acting, Commands
<1>14. Works(c) /\ op'[c] = o /\ op[c].pc = "idle"
  BY <1>1, <1>9, <1>10, <1>11, <1>13, GivenWorks
<1>15. Unlisted(c)
  BY <1>11, <1>12, <1>14 DEF Unlisted
<1> QED
  BY <1>14, <1>15

LEMMA ProjectNewWorks ==
  ASSUME IInv, NEW c \in Clients, ProjectNew(c)
  PROVE  Works(c) /\ Unlisted(c)
<1>1. /\ op[c].pc = "project" /\ file' = file /\ used' = used /\ left' = left
      /\ \/ row' = row
         \/ row' = [row EXCEPT ![Target(c)] = Row(Meta(Birth(file[Target(c)].log)), file[Target(c)])]
      /\ \/ Opened(c, Target(c), 1) /\ Done(c)
         \/ /\ \E place \in {"name", "open"} : GoTo(c, place)
            /\ UNCHANGED Chat
  BY DEF ProjectNew, At
<1>2. Target(c) \in used /\ Target(c) \in Ids /\ op[c].pc \in Acting /\ RowsInv
  BY <1>1, ActsOn, Held DEF Acting
<1>3. FilesStep
  <2>1. CASE row' = row
    BY <1>1, <1>2, <2>1, FilesKept
  <2>2. CASE row' = [row EXCEPT ![Target(c)] = Row(Meta(Birth(file[Target(c)].log)), file[Target(c)])]
    <3>1. RowsInv'
      BY <1>2, <2>2, TrueRows, RowSet
    <3> QED
      BY <1>1, <3>1 DEF FilesStep, LegalChange, Kept
  <2> QED
    BY <1>1, <2>1, <2>2
<1>4. CASE Opened(c, Target(c), 1) /\ Done(c)
  BY <1>1, <1>2, <1>3, <1>4, OpensWorks
<1>5. ASSUME NEW place \in {"name", "open"}, GoTo(c, place), UNCHANGED Chat
      PROVE  Works(c) /\ Unlisted(c)
  <2>1. /\ Moves(c) /\ op'[c].pc = place /\ IsOp(op'[c], used') /\ Relies(op'[c], file')
        /\ Unlisted(c)
    BY <1>2, <1>3, <1>5, GoesOn
  <2> QED
    BY <1>1, <1>3, <1>5, <2>1, WorksInFiles
<1> QED
  BY <1>1, <1>4, <1>5

LEMMA NameChildWorks ==
  ASSUME IInv, NEW c \in Clients, NameChild(c)
  PROVE  Works(c) /\ Unlisted(c)
<1>1. PICK t \in Titles \cup {None} :
        /\ op[c].pc = "name" /\ used' = used /\ left' = left /\ UNCHANGED Chat
        /\ \/ GoTo(c, "open") /\ file' = file /\ row' = row
           \/ /\ t # None /\ Exists(Target(c))
              /\ Put(Target(c), Appended(Target(c), Event("title", t))) /\ GoTo(c, "open")
           \/ Done(c) /\ file' = file /\ row' = row
  BY DEF NameChild, At, Chat
<1>2. Target(c) \in used /\ Target(c) \in Ids /\ op[c].pc \in Acting /\ RowsInv /\ DirectoryInv
  BY <1>1, ActsOn, Held DEF Acting
<1>3. CASE Done(c) /\ file' = file /\ row' = row
  BY <1>1, <1>2, <1>3, FilesKept, EndsInFiles
<1>4. ASSUME GoTo(c, "open"), FilesStep PROVE Works(c) /\ Unlisted(c)
  <2>1. /\ Moves(c) /\ op'[c].pc = "open" /\ IsOp(op'[c], used') /\ Relies(op'[c], file')
        /\ Unlisted(c)
    BY <1>2, <1>4, GoesOn
  <2> QED
    BY <1>1, <1>4, <2>1, WorksInFiles
<1>5. CASE GoTo(c, "open") /\ file' = file /\ row' = row
  BY <1>1, <1>2, <1>4, <1>5, FilesKept
<1>6. CASE /\ t # None /\ Exists(Target(c))
           /\ Put(Target(c), Appended(Target(c), Event("title", t))) /\ GoTo(c, "open")
  <2>1. PICK e : e = Event("title", t)
    OBVIOUS
  <2>2. e \in FileEvent /\ e.kind = "title"
    BY <1>6, <2>1, Events
  <2>3. MayFollow(file[Target(c)].log, e)
    BY <2>2 DEF MayFollow
  <2>4. FilesStep
    BY <1>1, <1>2, <1>6, <2>1, <2>3, FilesPut
  <2> QED
    BY <1>4, <1>6, <2>4
<1> QED
  BY <1>1, <1>3, <1>5, <1>6

LEMMA OpenBacktrackWorks ==
  ASSUME IInv, NEW c \in Clients, OpenBacktrack(c)
  PROVE  Works(c) /\ Unlisted(c)
<1>1. PICK i : i = active[c]
  OBVIOUS
<1>2. PICK n \in Commits(file[i].log) :
        /\ i # None /\ Exists(i) /\ Load(i, TRUE) /\ used' = used /\ UNCHANGED Chat
        /\ Given(c, [Idle EXCEPT !.cmd = "backtrack", !.pc = "act", !.target = i,
                                 !.choice = n, !.at = BeforePrompt(file[i].log, n)])
  BY <1>1 DEF OpenBacktrack, Chat
<1>3. i \in used /\ i \in Ids /\ DirectoryInv /\ RowsInv
  BY <1>1, <1>2, Held
<1>4. FilesStep /\ file'[i].log = file[i].log
  BY <1>2, <1>3, FilesLoaded
<1>5. Len(file[i].log) \in Nat /\ Commits(file[i].log) \subseteq 1 .. Len(file[i].log)
  BY <1>3, JournalParts DEF Commits, Indices
<1>6. n \in Nat /\ n <= Len(file[i].log)
  BY <1>2, <1>5
<1>7. PICK b : b = BeforePrompt(file[i].log, n)
  OBVIOUS
<1>8. b \in Nat
  <2>1. PICK S : S = {m \in Commits(file[i].log) : m < n}
    OBVIOUS
  <2>2. S \subseteq 1 .. Len(file[i].log)
    BY <1>5, <2>1
  <2>3. S # {} => Latest(S) \in 1 .. Len(file[i].log)
    BY <1>5, <2>2, HasLatest
  <2>4. b = IF S = {} THEN 1 ELSE Latest(S)
    BY <1>7, <2>1 DEF BeforePrompt
  <2> QED
    BY <1>5, <2>3, <2>4
<1>9. PICK o : o = [Idle EXCEPT !.cmd = "backtrack", !.pc = "act", !.target = i, !.choice = n, !.at = b]
  OBVIOUS
<1>10. /\ DOMAIN o = Fields /\ o.cmd = "backtrack" /\ o.pc = "act" /\ o.target = i
       /\ o.todo = {} /\ o.found = <<>> /\ o.at = b /\ o.choice = n
  BY <1>9, IdleIs DEF Idle, Fields
<1>11. DOMAIN o.found = {} /\ IsFiniteSet(DOMAIN o.found)
  BY <1>10, IdleIs, FS_EmptySet
<1>12. IsOp(o, used')
  BY <1>2, <1>3, <1>6, <1>8, <1>10, <1>11 DEF IsOp, Places, Acting, Commands
<1>13. Relies(o, file')
  BY <1>4, <1>6, <1>7, <1>10 DEF Relies
<1>14. Given(c, o)
  BY <1>2, <1>7, <1>9
<1>15. Works(c) /\ op'[c] = o /\ op[c].pc = "idle"
  BY <1>2, <1>4, <1>10, <1>12, <1>13, <1>14, GivenWorks
<1>16. Unlisted(c)
  BY <1>10, <1>11, <1>15 DEF Unlisted
<1> QED
  BY <1>15, <1>16

-----------------------------------------------------------------------------
(* What the open session appends, and the death of a process.              *)

LEMMA WorksInTurn ==
  ASSUME IInv, NEW c \in Clients, FilesStep, Moves(c), active' = active, rev' \in [Clients -> Nat],
         left' = left \/ (left > 0 /\ left' = left - 1),
         IsOp(op'[c], used'), Relies(op'[c], file'),
         op'[c].pc = "turn" => active[c] # None
  PROVE  Works(c)
<1>1. active' \in [Clients -> used' \cup {None}]
  BY Held, UsedGrows
<1>2. left' \in 0 .. MaxCommands
  BY Held, NothingKnown
<1>3. CommandInv(c)'
  BY DEF CommandInv
<1> QED
  BY <1>1, <1>2, <1>3 DEF Works

LEMMA AppendStep ==
  ASSUME IInv, NEW c \in Clients, active[c] # None, NEW e, Append1(c, e), used' = used,
         Exists(active[c]) => MayFollow(file[active[c]].log, e)
  PROVE  FilesStep /\ rev' \in [Clients -> Nat]
<1>1. PICK i : i = active[c]
  OBVIOUS
<1>2. i \in used /\ i \in Ids /\ DirectoryInv /\ RowsInv /\ rev \in [Clients -> Nat]
  BY <1>1, Held
<1>3. CASE Exists(i) /\ Put(i, Appended(i, e)) /\ rev' = [rev EXCEPT ![c] = rev[c] + 1]
  <2>1. FilesStep
    BY <1>1, <1>2, <1>3, FilesPut
  <2>2. rev' \in [Clients -> Nat]
    BY <1>2, <1>3
  <2> QED
    BY <2>1, <2>2
<1>4. CASE file' = file /\ row' = row /\ rev' = rev
  BY <1>2, <1>4, FilesKept
<1> QED
  BY <1>1, <1>3, <1>4 DEF Append1

LEMMA SetTitleWorks ==
  ASSUME IInv, NEW c \in Clients, SetTitle(c)
  PROVE  Works(c) /\ Unlisted(c)
<1>1. PICK t \in Titles :
        /\ active[c] # None /\ Given(c, Idle) /\ Append1(c, Event("title", t))
        /\ used' = used /\ active' = active
  BY DEF SetTitle
<1>2. PICK e : e = Event("title", t)
  OBVIOUS
<1>3. MayFollow(file[active[c]].log, e)
  <2>1. e \in FileEvent /\ e.kind = "title"
    BY <1>2, Events
  <2> QED
    BY <2>1 DEF MayFollow
<1>4. FilesStep /\ rev' \in [Clients -> Nat]
  BY <1>1, <1>2, <1>3, AppendStep
<1>5. Done(c) /\ left > 0 /\ left' = left - 1
  BY <1>1 DEF Given, Done
<1>6. /\ Moves(c) /\ op'[c] = Idle /\ IsOp(op'[c], used') /\ Relies(op'[c], file')
      /\ op'[c].pc = "idle" /\ Unlisted(c)
  BY <1>5, Ends
<1> QED
  BY <1>1, <1>4, <1>5, <1>6, WorksInTurn

\* A process within a turn, or dead.
LEMMA AtRest ==
  ASSUME IInv, NEW c \in Clients, NEW place \in {"turn", "gone"},
         op' = [op EXCEPT ![c] = [Idle EXCEPT !.pc = place]]
  PROVE  /\ Moves(c) /\ op'[c].pc = place /\ IsOp(op'[c], used') /\ Relies(op'[c], file')
         /\ Unlisted(c)
<1>1. PICK o : o = [Idle EXCEPT !.pc = place]
  OBVIOUS
<1>2. /\ DOMAIN o = Fields /\ o.cmd = None /\ o.pc = place /\ o.target = None
      /\ o.todo = {} /\ o.found = <<>> /\ o.at = 0 /\ o.choice = 0
  BY <1>1, IdleIs DEF Idle, Fields
<1>3. DOMAIN o.found = {} /\ IsFiniteSet(DOMAIN o.found)
  BY <1>2, IdleIs, FS_EmptySet
<1>4. IsOp(o, used') /\ Relies(o, file')
  BY <1>2, <1>3 DEF IsOp, Relies, Places, Acting, None
<1>5. Moves(c) /\ op'[c] = o
  BY <1>1, <1>2, Held, Becomes
<1>6. Unlisted(c)
  BY <1>2, <1>3, <1>5 DEF Unlisted
<1> QED
  BY <1>2, <1>4, <1>5, <1>6

LEMMA StartTurnWorks ==
  ASSUME IInv, NEW c \in Clients, StartTurn(c)
  PROVE  Works(c) /\ Unlisted(c)
<1>1. /\ active[c] # None /\ ~Archived(file[active[c]].log) /\ Append1(c, Event("start", None))
      /\ op' = [op EXCEPT ![c] = [Idle EXCEPT !.pc = "turn"]]
      /\ left > 0 /\ left' = left - 1 /\ used' = used /\ active' = active
  BY DEF StartTurn, Given
<1>2. PICK e : e = Event("start", None)
  OBVIOUS
<1>3. MayFollow(file[active[c]].log, e)
  <2>1. e \in FileEvent /\ e.kind = "start"
    BY <1>2, Events DEF Kinds
  <2> QED
    BY <1>1, <2>1 DEF MayFollow
<1>4. FilesStep /\ rev' \in [Clients -> Nat]
  BY <1>1, <1>2, <1>3, AppendStep
<1>5. /\ Moves(c) /\ op'[c].pc = "turn" /\ IsOp(op'[c], used') /\ Relies(op'[c], file')
      /\ Unlisted(c)
  BY <1>1, AtRest
<1> QED
  BY <1>1, <1>4, <1>5, WorksInTurn

LEMMA EndTurnWorks ==
  ASSUME IInv, NEW c \in Clients, EndTurn(c)
  PROVE  Works(c) /\ Unlisted(c)
<1>1. PICK k \in {"commit", "fail"} :
        /\ op[c].pc = "turn" /\ Done(c) /\ used' = used /\ active' = active /\ left' = left
        /\ \/ OpenHere(c) /\ Append1(c, Event(k, None))
           \/ file' = file /\ row' = row /\ rev' = rev
  BY DEF EndTurn, At
<1>2. active[c] # None /\ active[c] \in Ids /\ DirectoryInv /\ RowsInv /\ rev \in [Clients -> Nat]
  BY <1>1, Held
<1>3. FilesStep /\ rev' \in [Clients -> Nat]
  <2>1. CASE file' = file /\ row' = row /\ rev' = rev
    BY <1>1, <1>2, <2>1, FilesKept
  <2>2. CASE OpenHere(c) /\ Append1(c, Event(k, None))
    <3>1. Exists(active[c]) /\ Open(file[active[c]].log)
      BY <2>2 DEF OpenHere
    <3>2. ~Archived(file[active[c]].log)
      BY <1>2, <3>1, OpenIsNotArchived
    <3>3. PICK e : e = Event(k, None)
      OBVIOUS
    <3>4. e \in FileEvent /\ e.kind = k
      BY <3>3, Events DEF Kinds
    <3>5. MayFollow(file[active[c]].log, e)
      BY <3>2, <3>4 DEF MayFollow
    <3> QED
      BY <1>1, <1>2, <2>2, <3>3, <3>5, AppendStep
  <2> QED
    BY <1>1, <2>1, <2>2
<1>4. /\ Moves(c) /\ op'[c] = Idle /\ IsOp(op'[c], used') /\ Relies(op'[c], file')
      /\ op'[c].pc = "idle" /\ Unlisted(c)
  BY <1>1, Ends
<1> QED
  BY <1>1, <1>3, <1>4, WorksInTurn

LEMMA DieWorks ==
  ASSUME IInv, NEW c \in Clients, Die(c)
  PROVE  Works(c) /\ Unlisted(c) /\ op'[c].pc = "gone"
<1>1. /\ op' = [op EXCEPT ![c] = [Idle EXCEPT !.pc = "gone"]]
      /\ active' = [active EXCEPT ![c] = None]
      /\ \/ file' = file
         \/ /\ op[c].pc = "turn" /\ OpenHere(c)
            /\ file' = [file EXCEPT ![active[c]].torn = TRUE]
      /\ row' = row /\ used' = used /\ rev' = rev /\ left' = left
  BY DEF Die, At
<1>2. /\ DirectoryInv /\ RowsInv /\ rev \in [Clients -> Nat]
      /\ active \in [Clients -> used \cup {None}] /\ left \in 0 .. MaxCommands
      /\ op[c].pc = "turn" => active[c] \in Ids
  BY Held
<1>3. FilesStep
  <2>1. CASE file' = file
    BY <1>1, <1>2, <2>1, FilesKept
  <2>2. CASE /\ op[c].pc = "turn" /\ OpenHere(c)
             /\ file' = [file EXCEPT ![active[c]].torn = TRUE]
    <3>1. Marked(active[c])
      BY <1>1, <2>2 DEF Marked, OpenHere
    <3>2. RowsInv'
      BY <1>1, <1>2 DEF RowsInv, TrueRow
    <3> QED
      BY <1>2, <2>2, <3>1, <3>2 DEF FilesStep, LegalChange
  <2> QED
    BY <1>1, <2>1, <2>2
<1>4. /\ Moves(c) /\ op'[c].pc = "gone" /\ IsOp(op'[c], used') /\ Relies(op'[c], file')
      /\ Unlisted(c)
  BY <1>1, AtRest
<1>5. /\ active' \in [Clients -> used' \cup {None}] /\ rev' \in [Clients -> Nat]
      /\ \A d \in Clients : d # c => active'[d] = active[d]
  BY <1>1, <1>2
<1>6. CommandInv(c)'
  BY <1>4 DEF CommandInv
<1> QED
  BY <1>1, <1>2, <1>3, <1>4, <1>5, <1>6 DEF Works

-----------------------------------------------------------------------------
(* What a lookup does not lose.                                            *)

\* The sessions watched are those that were, and bore the name.
LEMMA WatchedAre ==
  ASSUME Watch, NEW c \in Clients, ~(op[c].pc = "byid" /\ op'[c].pc = "scan")
  PROVE  /\ \A i \in steady'[c] :
              /\ i \in steady[c] /\ Bears(c, i)' /\ Archived(file'[i].log) = Archived(file[i].log)
         /\ steady'[c] # {} => op'[c].pc \in Lookup /\ op'[c].sel # None
<1>1. steady'[c] = IF op'[c].pc \in Lookup /\ op'[c].sel # None
                   THEN {i \in steady[c] : Bears(c, i)' /\ Archived(file'[i].log) = Archived(file[i].log)}
                   ELSE {}
  BY DEF Watch
<1> QED
  BY <1>1

LEMMA LookupElsewhere ==
  ASSUME Watch, NEW c \in Clients,
         \/ op'[c].pc \notin {"byid", "scan", "read", "match"}
         \/ op'[c].pc = "byid" /\ op'[c].sel # None /\ op'[c].scopes = ScopeOf(op'[c].cmd)
         \/ /\ op'[c].pc = "scan" /\ op[c].pc # "byid" /\ op'[c].sel = None
            /\ op'[c].scopes \in Seq(BOOLEAN) \ {<<>>}
  PROVE  LookupInv(c)'
<1>1. steady'[c] = {}
  BY WatchedAre DEF Lookup
<1>2. /\ op'[c].pc = "byid" => op'[c].sel # None /\ op'[c].scopes = ScopeOf(op'[c].cmd)
      /\ op'[c].pc \in {"scan", "read"} => op'[c].scopes \in Seq(BOOLEAN) \ {<<>>}
  OBVIOUS
<1> QED
  BY <1>1, <1>2 DEF LookupInv

LEMMA LookupOther ==
  ASSUME Watch, NEW d \in Clients, op'[d] = op[d], LookupInv(d)
  PROVE  LookupInv(d)'
<1>1. /\ \A i \in steady'[d] :
           /\ i \in steady[d] /\ Bears(d, i)' /\ Archived(file'[i].log) = Archived(file[i].log)
      /\ steady'[d] # {} => op'[d].pc \in Lookup /\ op'[d].sel # None
  BY WatchedAre
<1>2. \A i \in steady[d] : Placed(op[d], i, Archived(file[i].log))
  BY DEF LookupInv
<1>3. \A i \in steady'[d] : Bears(d, i)' /\ Placed(op'[d], i, Archived(file'[i].log))
  BY <1>1, <1>2
<1>4. /\ op'[d].pc = "byid" => op'[d].sel # None /\ op'[d].scopes = ScopeOf(op'[d].cmd)
      /\ op'[d].pc \in {"scan", "read"} => op'[d].scopes \in Seq(BOOLEAN) \ {<<>>}
  BY DEF LookupInv
<1> QED
  BY <1>1, <1>3, <1>4 DEF LookupInv

LEMMA ScopesAre ==
  \A cmd : ScopeOf(cmd) \in Seq(BOOLEAN) \ {<<>>} /\ DOMAIN ScopeOf(cmd) = 1 .. Len(ScopeOf(cmd))
<1> SUFFICES ASSUME NEW cmd
             PROVE  /\ ScopeOf(cmd) \in Seq(BOOLEAN) \ {<<>>}
                    /\ DOMAIN ScopeOf(cmd) = 1 .. Len(ScopeOf(cmd))
  OBVIOUS
<1>1. ScopeOf(cmd) \in {<<TRUE>>, <<FALSE, TRUE>>, <<FALSE>>}
  BY DEF ScopeOf
<1>2. PICK s \in {<<TRUE>>, <<FALSE, TRUE>>, <<FALSE>>} : s = ScopeOf(cmd)
  BY <1>1
<1>3. s \in Seq(BOOLEAN) \ {<<>>}
  <2>1. <<TRUE>> \in Seq(BOOLEAN) \ {<<>>} /\ <<FALSE>> \in Seq(BOOLEAN) \ {<<>>}
    OBVIOUS
  <2>2. <<FALSE, TRUE>> \in Seq(BOOLEAN) \ {<<>>}
    OBVIOUS
  <2> QED
    BY <2>1, <2>2
<1>4. DOMAIN s = 1 .. Len(s)
  BY <1>3
<1> QED
  BY <1>2, <1>3, <1>4

LEMMA LookupBegins ==
  ASSUME IInv, Watch, NEW c \in Clients, op[c].pc = "byid", GoTo(c, "scan"), UNCHANGED <<file, row>>
  PROVE  LookupInv(c)' /\ op'[c].found = op[c].found /\ op'[c].pc = "scan"
<1>1. Has11(c) /\ op[c].sel # None /\ op[c].scopes = ScopeOf(op[c].cmd)
  BY Held DEF LookupInv
<1>2. /\ Moves(c) /\ AsksSame(c) /\ ListsSame(c) /\ op'[c].found = op[c].found /\ op'[c].pc = "scan"
  BY <1>1, SetPc DEF GoTo
<1>3. steady'[c] = {i \in Ids : Bears(c, i)}
  BY <1>2 DEF Watch
<1>4. PICK s : s = ScopeOf(op[c].cmd)
  OBVIOUS
<1>5. op'[c].scopes = s /\ s \in Seq(BOOLEAN) \ {<<>>} /\ DOMAIN s = 1 .. Len(s)
  BY <1>1, <1>2, <1>4, ScopesAre DEF ListsSame
<1>6. ASSUME NEW i \in Ids, Bears(c, i)
      PROVE  Bears(c, i)' /\ Placed(op'[c], i, Archived(file'[i].log))
  <2>1. Bears(c, i)'
    BY <1>2, <1>6 DEF Bears, AsksSame, Exists, Late
  <2>2. \E k \in 1 .. Len(s) : s[k] = Archived(file'[i].log)
    BY <1>4, <1>5, <1>6 DEF Bears
  <2>3. Ahead(op'[c], 1, Archived(file'[i].log))
    BY <1>5, <2>2 DEF Ahead
  <2> QED
    BY <1>2, <2>1, <2>3 DEF Placed
<1>7. \A i \in steady'[c] : Bears(c, i)' /\ Placed(op'[c], i, Archived(file'[i].log))
  BY <1>3, <1>6
<1>8. op'[c].pc \in Lookup /\ op'[c].sel # None
  BY <1>1, <1>2 DEF Lookup, AsksSame
<1> QED
  BY <1>2, <1>5, <1>7, <1>8 DEF LookupInv

LEMMA LookupScans ==
  ASSUME IInv, Watch, NEW c \in Clients, Scan(c)
  PROVE  LookupInv(c)' /\ op'[c].found = op[c].found /\ op'[c].pc = "read"
<1>1. /\ op[c].pc = "scan" /\ file' = file
      /\ op' = [op EXCEPT ![c].pc = "read", ![c].todo = {i \in Ids : Exists(i)},
                            ![c].paths = {i \in Ids : Exists(i)}]
  BY DEF Scan, At, Files
<1>2. Has11(c) /\ LookupInv(c)
  BY Held
<1>3. /\ Moves(c) /\ AsksSame(c) /\ op'[c].found = op[c].found /\ op'[c].scopes = op[c].scopes
      /\ op'[c].todo = {i \in Ids : Exists(i)} /\ op'[c].pc = "read"
  <2>1. PICK there : there = {i \in Ids : Exists(i)}
    OBVIOUS
  <2>2. op' = [op EXCEPT ![c].pc = "read", ![c].todo = there, ![c].paths = there]
    BY <1>1, <2>1
  <2>3. /\ Moves(c) /\ AsksSame(c) /\ op'[c].found = op[c].found /\ op'[c].scopes = op[c].scopes
        /\ op'[c].todo = there /\ op'[c].pc = "read"
    BY ONLY <1>2, <2>2, c \in Clients DEF Has11, Moves, AsksSame, Fields
  <2> QED
    BY <2>1, <2>3
<1>4. /\ \A i \in steady'[c] :
           /\ i \in steady[c] /\ Bears(c, i)' /\ Archived(file'[i].log) = Archived(file[i].log)
      /\ steady'[c] # {} => op'[c].pc \in Lookup /\ op'[c].sel # None
  BY <1>1, WatchedAre
<1>5. op[c].scopes \in Seq(BOOLEAN) \ {<<>>}
  BY <1>1, <1>2 DEF LookupInv
<1>6. PICK s : s = op[c].scopes
  OBVIOUS
<1>7. s \in Seq(BOOLEAN) /\ Len(s) \in Nat /\ Len(s) >= 1 /\ Head(s) = s[1]
  BY <1>5, <1>6
<1>8. ASSUME NEW i \in steady'[c] PROVE Placed(op'[c], i, Archived(file'[i].log))
  <2>1. Bears(c, i) /\ Placed(op[c], i, Archived(file[i].log))
    BY <1>2, <1>4 DEF LookupInv
  <2>2. i \in Ids
    BY <1>4 DEF IInv, NamesInv
  <2>3. i \in op'[c].todo
    BY <1>3, <2>1, <2>2 DEF Bears
  <2>4. CASE Has(op[c], i)
    <3>1. Has(op'[c], i)
      BY <1>3, <2>4 DEF Has, AsksSame
    <3> QED
      BY <3>1 DEF Placed
  <2>5. CASE Ahead(op[c], 1, Archived(file[i].log))
    <3>1. PICK k \in 1 .. Len(s) : s[k] = Archived(file[i].log)
      BY <1>6, <2>5 DEF Ahead
    <3>2. CASE k = 1
      BY <1>1, <1>3, <1>6, <1>7, <2>3, <3>1, <3>2 DEF Placed
    <3>3. CASE k # 1
      <4>1. k \in 2 .. Len(s)
        BY <1>7, <3>3
      <4>2. Ahead(op'[c], 2, Archived(file'[i].log))
        BY <1>1, <1>3, <1>6, <3>1, <4>1 DEF Ahead
      <4> QED
        BY <1>3, <4>2 DEF Placed
    <3> QED
      BY <3>2, <3>3
  <2> QED
    BY <1>1, <2>1, <2>4, <2>5 DEF Placed
<1> QED
  BY <1>3, <1>4, <1>5, <1>8 DEF LookupInv

LEMMA LookupReads ==
  ASSUME IInv, Watch, NEW c \in Clients, NEW i \in Ids, NEW meta, Reads(c, i, meta)
  PROVE  /\ LookupInv(c)' /\ op'[c].pc = "read"
         /\ \A j \in DOMAIN op'[c].found : j \in DOMAIN op[c].found \/ (j = i /\ op'[c].found[i] = meta)
<1>1. /\ op[c].pc = "read" /\ i \in op[c].todo /\ op' = Found(c, i, meta)
      /\ ~Late(i) => meta = Meta(file[i].log)
  BY DEF Reads
<1>2. Has11(c) /\ LookupInv(c)
  BY Held
<1>3. /\ Moves(c) /\ AsksSame(c) /\ op'[c].found = Listing(c, i, meta)
      /\ op'[c].scopes = op[c].scopes /\ op'[c].todo = op[c].todo \ {i} /\ op'[c].pc = "read"
  BY <1>1, <1>2, FoundIs
<1>4. /\ \A k \in steady'[c] :
           /\ k \in steady[c] /\ Bears(c, k)' /\ Archived(file'[k].log) = Archived(file[k].log)
      /\ steady'[c] # {} => op'[c].pc \in Lookup /\ op'[c].sel # None
  BY <1>1, WatchedAre
<1>5. PICK found : found = op[c].found
  OBVIOUS
<1>6. PICK more : more = op'[c].found
  OBVIOUS
<1>7. more = IF meta.archived = Head(op[c].scopes)
             THEN [j \in DOMAIN found \cup {i} |-> IF j = i THEN meta ELSE found[j]]
             ELSE found
  BY <1>3, <1>5, <1>6 DEF Listing
<1>8. /\ \A j \in DOMAIN more : j \in DOMAIN found \/ (j = i /\ more[i] = meta)
      /\ \A j \in DOMAIN found : j \in DOMAIN more /\ (j # i => more[j] = found[j])
      /\ meta.archived = Head(op[c].scopes) => i \in DOMAIN more /\ more[i] = meta
      /\ meta.archived # Head(op[c].scopes) => more = found
  BY <1>7
<1>9. ASSUME NEW k \in steady'[c] PROVE Placed(op'[c], k, Archived(file'[k].log))
  <2>1. Bears(c, k) /\ Placed(op[c], k, Archived(file[k].log))
    BY <1>2, <1>4 DEF LookupInv
  <2>2. CASE Ahead(op[c], 2, Archived(file[k].log))
    BY <1>3, <1>4, <2>2 DEF Placed, Ahead
  <2>3. CASE k = i /\ meta.archived = Head(op[c].scopes)
    <3>1. ~Late(i) /\ Title(file[i].log) = op[c].sel
      BY <2>1, <2>3 DEF Bears
    <3>2. meta = Meta(file[i].log)
      BY <1>1, <3>1
    <3>3. meta.title = op'[c].sel
      BY <1>3, <3>1, <3>2 DEF Meta, AsksSame
    <3>4. Has(op'[c], k)
      BY <1>6, <1>8, <2>3, <3>3 DEF Has
    <3> QED
      BY <3>4 DEF Placed
  <2>4. CASE k = i /\ meta.archived # Head(op[c].scopes)
    <3>1. ~Late(i)
      BY <2>1, <2>4 DEF Bears
    <3>2. meta.archived = Archived(file[k].log)
      BY <1>1, <2>4, <3>1 DEF Meta
    <3>3. Has(op[c], k) \/ Ahead(op[c], 2, Archived(file[k].log))
      BY <1>1, <2>1, <2>4, <3>2 DEF Placed
    <3>4. CASE Has(op[c], k)
      <4>1. Has(op'[c], k)
        BY <1>3, <1>5, <1>6, <1>8, <2>4, <3>4 DEF Has, AsksSame
      <4> QED
        BY <4>1 DEF Placed
    <3> QED
      BY <2>2, <3>3, <3>4
  <2>5. CASE k # i /\ Has(op[c], k)
    <3>1. k \in DOMAIN found /\ found[k].title = op[c].sel
      BY <1>5, <2>5 DEF Has
    <3>2. k \in DOMAIN more /\ more[k].title = op'[c].sel
      BY <1>3, <1>8, <2>5, <3>1 DEF AsksSame
    <3>3. Has(op'[c], k)
      BY <1>6, <3>2 DEF Has
    <3> QED
      BY <3>3 DEF Placed
  <2>6. CASE k # i /\ k \in op[c].todo /\ Archived(file[k].log) = Head(op[c].scopes)
    <3>1. k \in op'[c].todo
      BY <1>3, <2>6
    <3> QED
      BY <1>3, <1>4, <2>6, <3>1 DEF Placed
  <2> QED
    BY <1>1, <2>1, <2>2, <2>3, <2>4, <2>5, <2>6 DEF Placed
<1>10. op'[c].scopes \in Seq(BOOLEAN) \ {<<>>}
  BY <1>1, <1>2, <1>3 DEF LookupInv
<1>11. LookupInv(c)'
  BY <1>3, <1>4, <1>9, <1>10 DEF LookupInv
<1> QED
  BY <1>3, <1>5, <1>6, <1>8, <1>11

LEMMA LookupListed ==
  ASSUME IInv, Watch, NEW c \in Clients, Listed(c)
  PROVE  LookupInv(c)' /\ op'[c].found = op[c].found /\ op[c].pc = "read"
<1>1. /\ op[c].pc = "read" /\ op[c].todo = {} /\ file' = file
      /\ op' = [op EXCEPT ![c].scopes = Tail(op[c].scopes), ![c].paths = {},
                          ![c].pc = IF Len(op[c].scopes) > 1 THEN "scan" ELSE "match"]
  BY DEF Listed, At
<1>2. Has11(c) /\ LookupInv(c)
  BY Held
<1>3. PICK s : s = op[c].scopes
  OBVIOUS
<1>4. /\ Moves(c) /\ AsksSame(c) /\ op'[c].found = op[c].found /\ op'[c].todo = op[c].todo
      /\ op'[c].scopes = Tail(s) /\ op'[c].pc = IF Len(s) > 1 THEN "scan" ELSE "match"
  <2>1. PICK rest : rest = Tail(s)
    OBVIOUS
  <2>2. PICK place : place = IF Len(s) > 1 THEN "scan" ELSE "match"
    OBVIOUS
  <2>3. op' = [op EXCEPT ![c].scopes = rest, ![c].paths = {}, ![c].pc = place]
    BY <1>1, <1>3, <2>1, <2>2
  <2>4. /\ Moves(c) /\ AsksSame(c) /\ op'[c].found = op[c].found /\ op'[c].todo = op[c].todo
        /\ op'[c].scopes = rest /\ op'[c].pc = place
    BY ONLY <1>2, <2>3, c \in Clients DEF Has11, Moves, AsksSame, Fields
  <2> QED
    BY <2>1, <2>2, <2>4
<1>5. s \in Seq(BOOLEAN) /\ Len(s) \in Nat /\ s # <<>> /\ Len(s) >= 1
  <2>1. s \in Seq(BOOLEAN) \ {<<>>}
    BY <1>1, <1>2, <1>3 DEF LookupInv
  <2> QED
    BY <2>1
<1>6. /\ Tail(s) \in Seq(BOOLEAN) /\ Len(Tail(s)) = Len(s) - 1
      /\ \A k \in 1 .. Len(s) - 1 : Tail(s)[k] = s[k + 1]
  BY <1>5
<1>7. /\ \A i \in steady'[c] :
           /\ i \in steady[c] /\ Bears(c, i)' /\ Archived(file'[i].log) = Archived(file[i].log)
      /\ steady'[c] # {} => op'[c].pc \in Lookup /\ op'[c].sel # None
  BY <1>1, WatchedAre
<1>8. ASSUME NEW i \in steady'[c] PROVE Placed(op'[c], i, Archived(file'[i].log))
  <2>1. Placed(op[c], i, Archived(file[i].log))
    BY <1>2, <1>7 DEF LookupInv
  <2>2. CASE Has(op[c], i)
    <3>1. Has(op'[c], i)
      BY <1>4, <2>2 DEF Has, AsksSame
    <3> QED
      BY <3>1 DEF Placed
  <2>3. CASE Ahead(op[c], 2, Archived(file[i].log))
    <3>1. PICK k \in 2 .. Len(s) : s[k] = Archived(file[i].log)
      BY <1>3, <2>3 DEF Ahead
    <3>2. k - 1 \in 1 .. Len(Tail(s)) /\ Tail(s)[k - 1] = s[k] /\ Len(s) > 1
      BY <1>5, <1>6
    <3>3. Ahead(op'[c], 1, Archived(file'[i].log))
      BY <1>4, <1>7, <3>1, <3>2 DEF Ahead
    <3> QED
      BY <1>4, <3>2, <3>3 DEF Placed
  <2> QED
    BY <1>1, <2>1, <2>2, <2>3 DEF Placed
<1>9. op'[c].pc \in {"scan", "read"} => op'[c].scopes \in Seq(BOOLEAN) \ {<<>>}
  <2>1. Len(s) > 1 => Tail(s) # <<>>
    BY <1>5, <1>6
  <2> QED
    BY <1>4, <1>6, <2>1
<1>10. op'[c].pc # "byid"
  BY <1>4
<1> QED
  BY <1>1, <1>4, <1>7, <1>8, <1>9, <1>10 DEF LookupInv

-----------------------------------------------------------------------------
(* Every step.                                                             *)

TrueListing(c) == \A i \in DOMAIN op'[c].found :
  i \in DOMAIN op[c].found \/ op'[c].found[i] \in {Meta(file[i].log), Meta(Birth(file[i].log))}
OneNamed(c) ==
  op[c].pc = "match" /\ op[c].sel # None /\ op'[c].pc = "act" => Named(c) = {op'[c].target}
WorksWell(c) == Works(c) /\ LookupInv(c)' /\ TrueListing(c) /\ OneNamed(c)

LEMMA UnlistedWorksWell ==
  ASSUME Watch, NEW c \in Clients, Works(c), Unlisted(c)
  PROVE  WorksWell(c)
<1>1. LookupInv(c)'
  BY LookupElsewhere DEF Unlisted
<1>2. TrueListing(c) /\ OneNamed(c)
  BY DEF Unlisted, TrueListing, OneNamed
<1> QED
  BY <1>1, <1>2 DEF WorksWell

LEMMA StepWorksWell ==
  ASSUME IInv, Watch, NEW c \in Clients, Step(c)
  PROVE  WorksWell(c)
<1>1. CASE AskByName(c) \/ cmdSessions(c) \/ AskWithoutName(c) \/ cmdFork(c)
  BY <1>1, AskByNameWorks, SessionsWorks, AskWithoutNameWorks, ForkGivenWorks, UnlistedWorksWell
<1>2. CASE ResolveId(c)
  <2>1. Works(c)
    BY <1>2, ResolveIdWorks
  <2>2. CASE Unlisted(c)
    BY <2>1, <2>2, UnlistedWorksWell
  <2>3. CASE op[c].pc = "byid" /\ GoTo(c, "scan") /\ UNCHANGED <<file, row>>
    <3>1. LookupInv(c)' /\ op'[c].found = op[c].found /\ op'[c].pc = "scan"
      BY <2>3, LookupBegins
    <3> QED
      BY <2>1, <3>1 DEF WorksWell, TrueListing, OneNamed
  <2> QED
    BY <1>2, <2>2, <2>3, ResolveIdWorks
<1>3. CASE Scan(c)
  <2>1. Works(c) /\ LookupInv(c)' /\ op'[c].found = op[c].found /\ op'[c].pc = "read"
    BY <1>3, ScanWorks, LookupScans
  <2> QED
    BY <2>1 DEF WorksWell, TrueListing, OneNamed
<1>4. CASE ReadMeta(c)
  <2>1. CASE op[c].pc = "read" /\ Refused(c) /\ UNCHANGED <<used, Chat, left>>
    BY <2>1, RefusedWorks, UnlistedWorksWell
  <2>2. ASSUME NEW i \in Ids, NEW meta, Reads(c, i, meta) PROVE WorksWell(c)
    <3>1. /\ Works(c) /\ LookupInv(c)' /\ op'[c].pc = "read"
          /\ \A j \in DOMAIN op'[c].found : j \in DOMAIN op[c].found \/ (j = i /\ op'[c].found[i] = meta)
      BY <2>2, ReadsWorks, LookupReads
    <3>2. meta \in {Meta(file[i].log), Meta(Birth(file[i].log))}
      BY <2>2 DEF Reads
    <3> QED
      BY <3>1, <3>2 DEF WorksWell, TrueListing, OneNamed
  <2> QED
    BY <1>4, <2>1, <2>2, ReadMetaCases
<1>5. CASE Listed(c)
  <2>1. Works(c) /\ LookupInv(c)' /\ op'[c].found = op[c].found /\ op[c].pc = "read"
    BY <1>5, ListedWorks, LookupListed
  <2> QED
    BY <2>1 DEF WorksWell, TrueListing, OneNamed
<1>6. CASE Match(c)
  <2>1. /\ Works(c) /\ OneTaken(c) /\ op'[c].pc \notin {"byid", "scan", "read", "match"}
        /\ DOMAIN op'[c].found \subseteq DOMAIN op[c].found
    BY <1>6, MatchWorks
  <2>2. LookupInv(c)'
    BY <2>1, LookupElsewhere
  <2> QED
    BY <2>1, <2>2 DEF WorksWell, TrueListing, OneNamed, OneTaken
<1>7. CASE Pick(c)
  BY <1>7, PickWorks, UnlistedWorksWell
<1>8. CASE LoadToArchive(c) \/ SetArchived(c) \/ Delete(c) \/ Snapshot(c)
  BY <1>8, LoadToArchiveWorks, SetArchivedWorks, DeleteWorks, SnapshotWorks, UnlistedWorksWell
<1>9. CASE RestoreModel(c) \/ OpenSession(c) \/ Recover(c) \/ Reload(c)
  BY <1>9, RestoreModelWorks, OpenSessionWorks, RecoverWorks, ReloadWorks, UnlistedWorksWell
<1>10. CASE RestoreSource(c) \/ Fork(c) \/ OpenBacktrack(c) \/ submitBacktrack(c)
  BY <1>10, RestoreSourceWorks, ForkWorks, OpenBacktrackWorks, UnlistedWorksWell
<1>11. CASE New(c) \/ ProjectNew(c) \/ NameChild(c)
  BY <1>11, NewWorks, ProjectNewWorks, NameChildWorks, UnlistedWorksWell
<1>12. CASE SetTitle(c) \/ StartTurn(c) \/ EndTurn(c) \/ Die(c)
  BY <1>12, SetTitleWorks, StartTurnWorks, EndTurnWorks, DieWorks, UnlistedWorksWell
<1> QED
  BY <1>1, <1>2, <1>3, <1>4, <1>5, <1>6, <1>7, <1>8, <1>9, <1>10, <1>11, <1>12 DEF Step

\* The commands of the others keep what they rely on.
LEMMA NextKeeps == ASSUME IInv, Next PROVE IInv'
<1>1. PICK c \in Clients : Step(c) /\ Watch
  BY DEF Next
<1>2. WorksWell(c)
  BY <1>1, StepWorksWell
<1>3. Works(c) /\ LookupInv(c)'
  BY <1>2 DEF WorksWell
<1>4. DirectoryInv /\ ChangeIsSound
  BY <1>3, ChangesAreSound DEF IInv, Works, FilesStep
<1>5. DirectoryInv'
  BY <1>4, DirectoryStays
<1>6. CommandsInv'
  <2>1. op' = [d \in Clients |-> op'[d]] /\ \A d \in Clients : d # c => op'[d] = op[d]
    BY <1>3 DEF Works, Moves
  <2>2. ASSUME NEW d \in Clients PROVE CommandInv(d)'
    <3>1. CASE d = c
      BY <1>3, <3>1 DEF Works
    <3>2. CASE d # c
      <4>1. op'[d] = op[d] /\ active'[d] = active[d]
        BY <1>3, <2>1, <3>2 DEF Works
      <4>2. IsOp(op[d], used) /\ Relies(op[d], file) /\ (op[d].pc = "turn" => active[d] # None)
        BY Held
      <4>3. IsOp(op[d], used') /\ Relies(op[d], file')
        BY <1>4, <4>2, ReliesStay
      <4> QED
        BY <4>1, <4>2, <4>3 DEF CommandInv
    <3> QED
      BY <3>1, <3>2
  <2>3. active' \in [Clients -> used' \cup {None}] /\ rev' \in [Clients -> Nat]
    BY <1>3 DEF Works
  <2> QED
    BY <2>1, <2>2, <2>3 DEF CommandsInv
<1>7. RowsInv' /\ left' \in 0 .. MaxCommands
  BY <1>3 DEF Works, FilesStep
<1>8. NamesInv'
  <2>1. steady' \in [Clients -> SUBSET Ids]
    <3>1. \A d \in Clients : steady[d] \subseteq Ids
      BY DEF IInv, NamesInv
    <3> QED
      BY <1>1, <3>1 DEF Watch
  <2>2. ASSUME NEW d \in Clients PROVE LookupInv(d)'
    <3>1. CASE d = c
      BY <1>3, <3>1
    <3>2. CASE d # c
      <4>1. op'[d] = op[d]
        BY <1>3, <3>2 DEF Works, Moves
      <4> QED
        BY <1>1, <4>1, Held, LookupOther
    <3> QED
      BY <3>1, <3>2
  <2> QED
    BY <2>1, <2>2 DEF NamesInv
<1> QED
  BY <1>5, <1>6, <1>7, <1>8 DEF IInv

LEMMA StutterKeeps == ASSUME IInv, UNCHANGED vars PROVE IInv'
<1>1. /\ file' = file /\ row' = row /\ used' = used /\ active' = active /\ rev' = rev
      /\ op' = op /\ left' = left /\ steady' = steady
  BY DEF vars
<1>2. DirectoryInv'
  BY <1>1 DEF IInv, DirectoryInv, Exists
<1>3. CommandsInv'
  BY <1>1 DEF IInv, CommandsInv, CommandInv
<1>4. RowsInv'
  BY <1>1 DEF IInv, RowsInv, TrueRow
<1>5. NamesInv'
  BY <1>1 DEF IInv, NamesInv, LookupInv, Bears, Exists, Late
<1> QED
  BY <1>1, <1>2, <1>3, <1>4, <1>5 DEF IInv

LEMMA InitHolds == ASSUME Init PROVE IInv
<1>1. /\ file \in Stored
      /\ used = {i \in Ids : Exists(i)} \cup {file[j].log[1].parent : j \in Forks(file)}
      /\ active \in [Clients -> Ids \cup {None}]
      /\ \A c \in Shells : active[c] = None
      /\ \A c \in Chats : active[c] # None /\ Exists(active[c])
      /\ rev = [c \in Clients |-> IF active[c] = None THEN 0 ELSE Len(file[active[c]].log)]
      /\ op = [c \in Clients |-> Idle] /\ left = MaxCommands
      /\ steady = [c \in Clients |-> {}]
  BY DEF Init
<1>2. file \in [Ids -> Journal] /\ SoundDirectory(file)
  BY <1>1, FilesAssumption
<1>3. \A i \in Ids : /\ file[i].log \in Seq(FileEvent) /\ Len(file[i].log) \in Nat
                     /\ Exists(i) => file[i].log # <<>>
  BY <1>2 DEF Journal, SoundDirectory, SoundLog, Exists
<1>4. \A j \in Forks(file) : file[j].log[1].parent \in Ids
  <2> SUFFICES ASSUME NEW j \in Forks(file) PROVE file[j].log[1].parent \in Ids
    OBVIOUS
  <2>1. j \in Ids /\ Exists(j) /\ file[j].log[1].parent # None
    BY DEF Forks, Exists
  <2>2. PICK l : l = file[j].log
    OBVIOUS
  <2>3. l \in Seq(FileEvent) /\ l # <<>>
    BY <1>3, <2>1, <2>2
  <2>4. l[1] \in FileEvent
    BY <2>3
  <2> QED
    BY <2>1, <2>2, <2>4 DEF FileEvent
<1>5. DirectoryInv
  <2>1. used \subseteq Ids
    BY <1>1, <1>4
  <2>2. \A i \in Ids : Exists(i) => i \in used
    BY <1>1
  <2>3. \A j \in Forks(file) : file[j].log[1].parent \in used
    BY <1>1
  <2> QED
    BY <1>2, <2>1, <2>2, <2>3 DEF DirectoryInv
<1>6. CommandsInv
  <2>1. active \in [Clients -> used \cup {None}]
    <3>1. \A c \in Clients : active[c] \in used \cup {None}
      BY <1>1 DEF Clients
    <3> QED
      BY <1>1, <3>1
  <2>2. rev \in [Clients -> Nat]
    <3>1. \A c \in Clients : active[c] # None => Len(file[active[c]].log) \in Nat
      BY <1>1, <1>3
    <3> QED
      BY <1>1, <3>1
  <2>3. ASSUME NEW c \in Clients PROVE CommandInv(c)
    <3>1. op[c] = Idle
      BY <1>1
    <3> QED
      BY <3>1, IdleIs DEF CommandInv
  <2>4. op = [c \in Clients |-> op[c]]
    BY <1>1
  <2> QED
    BY <2>1, <2>2, <2>3, <2>4 DEF CommandsInv
<1>7. RowsInv
  <2>1. PICK known : row = [i \in Ids |->
          IF i \in known THEN [meta |-> Meta(file[i].log), print |-> file[i]] ELSE NoRow]
    BY DEF Init
  <2>2. ASSUME NEW i \in Ids PROVE TrueRow(row[i])
    <3>1. row[i] = Row(Meta(file[i].log), file[i]) \/ row[i] = NoRow
      BY <2>1 DEF Row
    <3> QED
      BY <3>1, TrueRows
  <2>3. row = [i \in Ids |-> row[i]]
    BY <2>1
  <2> QED
    BY <2>2, <2>3 DEF RowsInv
<1>8. NamesInv
  <2>1. \A c \in Clients : steady[c] = {} /\ op[c].pc = "idle"
    BY <1>1, IdleIs
  <2>2. \A c \in Clients : LookupInv(c)
    BY <2>1 DEF LookupInv
  <2> QED
    BY <1>1, <2>2 DEF NamesInv
<1> QED
  BY <1>1, <1>5, <1>6, <1>7, <1>8, NothingKnown DEF IInv

LEMMA Invariant == Spec => []IInv
<1>1. Init => IInv
  BY InitHolds
<1>2. IInv /\ [Next]_vars => IInv'
  BY NextKeeps, StutterKeeps
<1> QED
  BY <1>1, <1>2, PTL DEF Spec
-----------------------------------------------------------------------------
(* What the commands promise.                                              *)

\* Every step of a process works well.
LEMMA StepsWork ==
  ASSUME IInv, Next
  PROVE  \E c \in Clients : Watch /\ WorksWell(c)
BY StepWorksWell DEF Next

\* Every variable keeps its type: a command works on sessions that were taken.
THEOREM TypesHold == Spec => []TypeOK
<1>1. ASSUME IInv PROVE TypeOK
  <2>1. /\ file \in [Ids -> Journal] /\ used \subseteq Ids /\ left \in 0 .. MaxCommands
        /\ active \in [Clients -> used \cup {None}] /\ rev \in [Clients -> Nat]
        /\ steady \in [Clients -> SUBSET Ids]
    BY <1>1 DEF IInv, DirectoryInv, CommandsInv, NamesInv
  <2>2. active \in [Clients -> Ids \cup {None}]
    BY <2>1
  <2>3. ASSUME NEW c \in Clients
        PROVE  /\ op[c].cmd \in Commands \cup {None}
               /\ op[c].todo \subseteq Ids /\ DOMAIN op[c].found \subseteq Ids
               /\ op[c].target \in Ids \cup {None}
               /\ op[c].at \in Nat /\ op[c].choice \in Nat
    <3>1. IsOp(op[c], used)
      BY <1>1, Held
    <3> QED
      BY <2>1, <3>1 DEF IsOp
  <2> QED
    BY <2>1, <2>2, <2>3 DEF TypeOK
<1> QED
  BY <1>1, Invariant, PTL

\* A journal is extended by one event, an archived one by no turn's, or removed
\* as a whole while no turn is open in it, and none comes back, whatever
\* processes append, repair, archive, fork and delete side by side.
THEOREM JournalsGrow == Spec => JournalsOnlyGrow
<1> DEFINE Grow == \A i \in Ids : file'[i] # file[i] => OnlyGrows(i)
<1>1. ASSUME IInv, Next PROVE Grow
  <2>1. PICK c \in Clients : WorksWell(c)
    BY <1>1, StepsWork
  <2>2. ChangeIsSound
    BY <1>1, <2>1, ChangesAreSound DEF IInv, WorksWell, Works, FilesStep
  <2> QED
    BY <2>2 DEF ChangeIsSound
<1>2. ASSUME UNCHANGED vars PROVE Grow
  BY <1>2 DEF vars
<1>3. IInv /\ [Next]_vars => [Grow]_vars
  BY <1>1, <1>2
<1>4. JournalsOnlyGrow <=> [][Grow]_vars
  BY PTL DEF JournalsOnlyGrow, OnlyGrows
<1> QED
  BY <1>3, <1>4, Invariant, PTL DEF Spec

\* A forked session holds a prefix of its source that ends with a turn or is
\* empty, and after a backtrack it ends just before the prompt chosen, however
\* many other processes appended to the source or removed it since.
THEOREM ForksArePrefixes == Spec => []ForkIsAPrefix
<1>1. ASSUME IInv PROVE ForkIsAPrefix
  <2>1. ASSUME NEW j \in Forks(file)
        PROVE  Forked(file[j].log, file[file[j].log[1].parent].log)
    BY <1>1, <2>1 DEF IInv, DirectoryInv, SoundDirectory
  <2>2. ASSUME NEW c \in Clients, op[c].cmd = "backtrack", op[c].pc = "project",
               Exists(op[c].target)
        PROVE  LET log == file[op[c].target].log  source == file[log[1].parent].log IN
               source = <<>> \/ Commits(Birth(log)) = {n \in Commits(source) : n < op[c].choice}
    BY <1>1, <2>2, Held DEF Relies, Exists
  <2> QED
    BY <2>1, <2>2 DEF ForkIsAPrefix, At
<1> QED
  BY <1>1, Invariant, PTL

\* What a listing says of a session was its journal's word when it was read, or
\* that of the process that had just created it: a row that is fresh, by the
\* fingerprint beside it, was made of the journal that is there.
THEOREM ListingsTrue == Spec => ListingIsTrue
<1> DEFINE True == \A c \in Clients : TrueListing(c)
<1>1. ASSUME IInv, Next PROVE True
  <2>1. PICK c \in Clients : WorksWell(c)
    BY <1>1, StepsWork
  <2>2. ASSUME NEW d \in Clients PROVE TrueListing(d)
    <3>1. CASE d = c
      BY <2>1, <3>1 DEF WorksWell
    <3>2. CASE d # c
      <4>1. op'[d] = op[d]
        BY <2>1, <3>2 DEF WorksWell, Works, Moves
      <4> QED
        BY <4>1 DEF TrueListing
    <3> QED
      BY <3>1, <3>2
  <2> QED
    BY <2>2
<1>2. ASSUME UNCHANGED vars PROVE True
  BY <1>2 DEF vars, TrueListing
<1>3. IInv /\ [Next]_vars => [True]_vars
  BY <1>1, <1>2
<1>4. ListingIsTrue <=> [][True]_vars
  BY PTL DEF ListingIsTrue, TrueListing
<1> QED
  BY <1>3, <1>4, Invariant, PTL DEF Spec

\* What a process that looks a name up takes.
NamesOne(c) == op[c].pc = "match" /\ op[c].sel # None =>
  /\ op'[c].pc = "act" => steady[c] \subseteq {op'[c].target}
  /\ Named(c) = {} => steady[c] = {}

\* A name selects a session only if no other one bore it all along, and is found
\* missing only if none did, whatever other processes create, title, archive
\* and prune between the readings of the listing.
THEOREM NamesSelectOne == Spec => NamesOneSession
<1> DEFINE One == \A c \in Clients : NamesOne(c)
<1>1. ASSUME IInv, NEW c \in Clients, op[c].pc = "match" PROVE steady[c] \subseteq Named(c)
  <2>1. \A i \in steady[c] : Placed(op[c], i, Archived(file[i].log))
    BY <1>1, Held DEF LookupInv
  <2>2. \A i \in steady[c] : Has(op[c], i)
    BY <1>1, <2>1 DEF Placed
  <2> QED
    BY <2>2 DEF Has, Named
<1>2. ASSUME IInv, Next PROVE One
  <2>1. PICK c \in Clients : WorksWell(c)
    BY <1>2, StepsWork
  <2>2. ASSUME NEW d \in Clients PROVE NamesOne(d)
    <3>1. CASE d = c
      BY <1>1, <1>2, <2>1, <3>1 DEF WorksWell, OneNamed, NamesOne
    <3>2. CASE d # c
      <4>1. op'[d] = op[d]
        BY <2>1, <3>2 DEF WorksWell, Works, Moves
      <4> QED
        BY <1>1, <1>2, <4>1 DEF NamesOne
    <3> QED
      BY <3>1, <3>2
  <2> QED
    BY <2>2
<1>3. ASSUME IInv, UNCHANGED vars PROVE One
  BY <1>1, <1>3 DEF vars, NamesOne
<1>4. IInv /\ [Next]_vars => [One]_vars
  BY <1>2, <1>3
<1>5. NamesOneSession <=> [][One]_vars
  BY PTL DEF NamesOneSession, NamesOne, At
<1> QED
  BY <1>4, <1>5, Invariant, PTL DEF Spec
=============================================================================
