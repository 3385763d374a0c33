---------------------------- MODULE SessionFiles ----------------------------
(***************************************************************************)
(* The commands that create, find, fork, archive and delete sessions       *)
(* (internal/store, internal/tui, cmd/eino-assistant): several processes   *)
(* work on one directory of journals without holding it between two steps  *)
(* of a command, beside a SQLite catalog of what the journals said.        *)
(*                                                                         *)
(* Modelled in ThreadLedger and JournalFile, and atomic here: an append,   *)
(* with its locks and its checks; a load with its repair of a torn tail.   *)
(* A journal keeps the events a command tells apart; a fingerprint (size   *)
(* and modification time) is the journal it was taken of.                  *)
(*                                                                         *)
(* A definition marked "Fault" is a plausible bug in the one after it and  *)
(* used by no action.                                                      *)
(***************************************************************************)
EXTENDS Naturals, Sequences, FiniteSets

CONSTANTS Ids,          \* thread ids
          Titles,       \* titles; a title may read like an id
          Chats, Shells, \* processes: with a chat open, and one-shot commands
          Stored,       \* the journals a run may find: a set of [Ids -> journal]
          MaxCommands   \* bound on the commands given to all of them

None == "none"
NoFile == [log |-> <<>>, torn |-> FALSE]
NoMeta == [title |-> None, archived |-> FALSE]
NoRow == [meta |-> NoMeta, print |-> NoFile]
Clients == Chats \cup Shells

VARIABLES
  file,    \* the journal of each id
  row,     \* session_catalog: the metadata and fingerprint last projected
  used,    \* ids that have been taken (NewThreadID is random: none comes back)
  active,  \* the session each process has open
  rev,     \* and the revision it holds
  op,      \* the command each process is in
  left,    \* commands that may still be given
  steady   \* sessions that bore the name looked for ever since the lookup began

vars == <<file, row, used, active, rev, op, left, steady>>

----------------------------------------------------------------------------
(* Events and what replaying a journal says.                               *)
Event(k, t) == [kind |-> k, title |-> t, parent |-> None, cut |-> 0]
Created(t, p, n) == [kind |-> "created", title |-> t, parent |-> p, cut |-> n]
Indices(log, kinds) == {n \in 1..Len(log) : log[n].kind \in kinds}
Latest(S) == CHOOSE n \in S : \A m \in S : m <= n
KindOfLast(log, kinds) ==
  LET S == Indices(log, kinds) IN IF S = {} THEN None ELSE log[Latest(S)].kind
Title(log) == log[Latest(Indices(log, {"created", "title"}))].title
Archived(log) == KindOfLast(log, {"archive", "unarchive"}) = "archive"
Open(log) == KindOfLast(log, {"start", "commit", "fail"}) = "start"
Commits(log) == Indices(log, {"commit"})
Meta(log) == [title |-> Title(log), archived |-> Archived(log)]
(* What a thread began with: a new one with one event, a fork with what it *)
(* has of its source.                                                      *)
Birth(log) == SubSeq(log, 1, IF log[1].cut = 0 THEN 1 ELSE log[1].cut)

(* What a directory may hold in the beginning: journals as the commands    *)
(* below write them, and forks whose source is whole or gone.              *)
Kinds == {"created", "title", "archive", "unarchive", "start", "commit", "fail"}
FileEvent == [kind : Kinds, title : Titles \cup {None}, parent : Ids \cup {None}, cut : Nat]
Journal == [log : Seq(FileEvent), torn : BOOLEAN]
SoundLog(log) ==
  /\ log # <<>> /\ log[1].kind = "created"
  /\ \A n \in 1..Len(log) : LET before == SubSeq(log, 1, n) IN
       ~(Archived(before) /\ (Open(before) \/ log[n].kind = "commit"))
(* A fork holds a prefix of its source that ends with a turn or is empty.  *)
Forked(log, source) == LET n == log[1].cut IN
  /\ n = 1 \/ log[n].kind = "commit"
  /\ ~Open(Birth(log)) /\ ~Archived(Birth(log))
  /\ source = <<>> \/ SubSeq(source, 2, n) = SubSeq(log, 2, n)
Forks(f) == {j \in Ids : f[j] # NoFile /\ f[j].log[1].parent # None}
SoundDirectory(f) ==
  /\ \A i \in Ids : f[i] # NoFile => SoundLog(f[i].log)
  /\ \A j \in Forks(f) : LET log == f[j].log  source == f[log[1].parent].log IN
       Forked(log, source) /\ log[1].cut \in 1..Len(log)
       /\ (source = <<>> \/ log[1].cut <= Len(source))

ASSUME FilesAssumption ==
  /\ None \notin Ids \cup Titles /\ MaxCommands \in Nat /\ Chats \cap Shells = {}
  /\ \A f \in Stored : f \in [Ids -> Journal] /\ SoundDirectory(f)

----------------------------------------------------------------------------
Exists(i) == file[i] # NoFile

Idle == [cmd |-> None, pc |-> "idle", sel |-> None, scopes |-> <<>>, todo |-> {},
         paths |-> {}, found |-> <<>>, target |-> None, at |-> 0, choice |-> 0,
         how |-> None]
Commands == {"sessions", "resume", "recover", "fork", "archive", "unarchive",
             "delete", "ephemeral", "new", "backtrack"}

TypeOK ==
  /\ file \in [Ids -> Journal] /\ used \subseteq Ids
  /\ active \in [Clients -> Ids \cup {None}] /\ rev \in [Clients -> Nat]
  /\ left \in 0..MaxCommands /\ steady \in [Clients -> SUBSET Ids]
  /\ \A c \in Clients : /\ op[c].cmd \in Commands \cup {None}
                        /\ op[c].todo \subseteq Ids /\ DOMAIN op[c].found \subseteq Ids
                        /\ op[c].target \in Ids \cup {None}
                        /\ op[c].at \in Nat /\ op[c].choice \in Nat

Init ==
  /\ file \in Stored
  /\ \E known \in SUBSET {i \in Ids : file[i] # NoFile /\ ~file[i].torn} :
       row = [i \in Ids |->
                IF i \in known THEN [meta |-> Meta(file[i].log), print |-> file[i]] ELSE NoRow]
  /\ used = {i \in Ids : Exists(i)} \cup {file[j].log[1].parent : j \in Forks(file)}
  /\ active \in [Clients -> Ids \cup {None}]
  /\ \A c \in Shells : active[c] = None
  /\ \A c \in Chats : /\ active[c] # None /\ Exists(active[c])
                      /\ ~Open(file[active[c]].log) /\ ~Archived(file[active[c]].log)
  /\ rev = [c \in Clients |-> IF active[c] = None THEN 0 ELSE Len(file[active[c]].log)]
  /\ op = [c \in Clients |-> Idle] /\ left = MaxCommands
  /\ steady = [c \in Clients |-> {}]

----------------------------------------------------------------------------
(* projectThread: the row is what the caller replayed, with the            *)
(* fingerprint the file has when the row is written.                       *)
Row(meta, journal) == [meta |-> meta, print |-> journal]
(* Under the lock of the thread: loadThreadLocked, which drops a torn tail *)
(* also for a store opened read-only (there only the catalog is spared),   *)
(* and appendLocked after it.                                              *)
Repaired(i) == [file[i] EXCEPT !.torn = FALSE]
Appended(i, e) == [log |-> Append(file[i].log, e), torn |-> FALSE]
Projected(i, journal) == [row EXCEPT ![i] = Row(Meta(journal.log), journal)]
(* The projection of an append may fail and is passed over (that of a load *)
(* too; it leaves a row no fresher than it was and is left out).           *)
Put(i, journal) ==
  /\ file' = [file EXCEPT ![i] = journal]
  /\ row' \in {row, Projected(i, journal)}
Load(i, projecting) ==
  /\ file' = [file EXCEPT ![i] = Repaired(i)]
  /\ row' = IF projecting THEN Projected(i, Repaired(i)) ELSE row

(* A command ends, or goes on.                                             *)
Done(c) == op' = [op EXCEPT ![c] = Idle]
At(c, pc) == op[c].pc = pc
GoTo(c, pc) == op' = [op EXCEPT ![c].pc = pc]
Opened(c, i, n) == active' = [active EXCEPT ![c] = i] /\ rev' = [rev EXCEPT ![c] = n]
Files == <<file, row, used>>
Chat == <<active, rev>>

----------------------------------------------------------------------------
(* The user's command.  A chat refuses what is not for an open session;    *)
(* /title and turns act at once on the session of the chat.                *)
Given(c, o) == /\ At(c, "idle") /\ left > 0
               /\ left' = left - 1
               /\ op' = [op EXCEPT ![c] = o]
CommandsOf(c) ==
  IF c \in Chats THEN {"resume", "recover", "fork", "archive", "unarchive", "delete"}
  ELSE {"fork", "archive", "unarchive", "delete", "ephemeral"}
(* The listings a name is looked for in.                                   *)
ScopeOf(cmd) == CASE cmd = "unarchive" -> <<TRUE>>
                  [] cmd = "delete" -> <<FALSE, TRUE>>
                  [] OTHER -> <<FALSE>>
AskByName(c) == \E cmd \in CommandsOf(c), s \in Ids \cup Titles :
  /\ Given(c, [Idle EXCEPT !.cmd = cmd, !.pc = "byid", !.sel = s, !.scopes = ScopeOf(cmd)])
  /\ UNCHANGED <<Files, Chat>>
(* sessions, --last and the pickers: no name, one listing.                 *)
cmdSessions(c) == \E archived \in BOOLEAN :
  /\ Given(c, [Idle EXCEPT !.cmd = "sessions", !.pc = "scan", !.scopes = <<archived>>])
  /\ UNCHANGED <<Files, Chat>>
AskWithoutName(c) == \E cmd \in {"resume", "fork"}, how \in {"last", "pick"} :
  /\ cmd = "resume" => c \in Chats
  /\ Given(c, [Idle EXCEPT !.cmd = cmd, !.pc = "scan", !.scopes = <<FALSE>>, !.how = how])
  /\ UNCHANGED <<Files, Chat>>
cmdFork(c) ==
  /\ active[c] # None
  /\ Given(c, [Idle EXCEPT !.cmd = "fork", !.pc = "act", !.target = active[c]])
  /\ UNCHANGED <<Files, Chat>>

----------------------------------------------------------------------------
(* resolveSessionSelector.  An id wins; LoadThreadMeta looks it up.        *)
Projects(c) == op[c].cmd # "ephemeral"
ResolveId(c) ==
  /\ At(c, "byid")
  /\ LET i == op[c].sel IN
     IF i \in Ids /\ Exists(i)
     THEN Load(i, Projects(c)) /\ op' = [op EXCEPT ![c].pc = "act", ![c].target = i]
     ELSE GoTo(c, "scan") /\ UNCHANGED <<file, row>>
  /\ UNCHANGED <<used, Chat, left>>

(* activeThreadPaths, then the metadata of one journal after the other.    *)
Scan(c) ==
  /\ At(c, "scan")
  /\ op' = [op EXCEPT ![c].pc = "read", ![c].todo = {i \in Ids : Exists(i)},
                            ![c].paths = {i \in Ids : Exists(i)}]
  /\ UNCHANGED <<Files, Chat, left>>

(* Fault: the row is trusted as long as there is a journal. *)
FreshWhileListed(i) == row[i] # NoRow /\ Exists(i)
(* catalogEntryIsFresh *)
Fresh(i) == row[i] # NoRow /\ row[i].print = file[i]

(* The read-only listings of shell commands replay without repair; the     *)
(* others take a fresh row or load and project.                            *)
ListsReadOnly(c) == c \in Shells /\ (op[c].sel # None \/ op[c].how = "pick")
ReadOnlyMeta(i) == Meta(file[i].log)
Found(c, i, meta) == [op EXCEPT ![c].todo = @ \ {i},
  ![c].found = IF meta.archived = Head(op[c].scopes)
               THEN [j \in DOMAIN @ \cup {i} |-> IF j = i THEN meta ELSE @[j]] ELSE @]
ReadMeta(c) == \E i \in op[c].todo :
  /\ At(c, "read")
  /\ \/ ~Exists(i) /\ Done(c) /\ UNCHANGED <<file, row>> \* the whole listing fails
     \/ /\ Exists(i) /\ ListsReadOnly(c)
        /\ op' = Found(c, i, ReadOnlyMeta(i)) /\ UNCHANGED <<file, row>>
     \/ /\ Exists(i) /\ ~ListsReadOnly(c) /\ Fresh(i)
        /\ op' = Found(c, i, row[i].meta) /\ UNCHANGED <<file, row>>
     \/ /\ Exists(i) /\ ~ListsReadOnly(c) /\ ~Fresh(i)
        /\ op' = Found(c, i, Meta(file[i].log)) /\ Load(i, TRUE)
  /\ UNCHANGED <<used, Chat, left>>

(* The listing is complete: pruneSessionCatalog drops the rows of what the *)
(* scan did not see, be it published since.                                *)
Listed(c) ==
  /\ At(c, "read") /\ op[c].todo = {}
  /\ op' = [op EXCEPT ![c].scopes = Tail(@), ![c].paths = {},
                      ![c].pc = IF Len(op[c].scopes) > 1 THEN "scan" ELSE "match"]
  /\ row' = IF ListsReadOnly(c) THEN row
            ELSE [i \in Ids |-> IF i \in op[c].paths THEN row[i] ELSE NoRow]
  /\ UNCHANGED <<file, used, Chat, left>>

Named(c) == {i \in DOMAIN op[c].found : op[c].found[i].title = op[c].sel}
(* Fault: any session of that name will do. *)
MatchesFirst(c) == Named(c)
(* A name must fit one session.  Without one the newest is taken (the      *)
(* order of the listing is left out: any) or the user picks another one,   *)
(* which a fork looks up again by its id.                                  *)
Matches(c) == IF Cardinality(Named(c)) = 1 THEN Named(c) ELSE {}
Candidates(c) == IF op[c].cmd = "resume" /\ op[c].how = "pick"
                 THEN DOMAIN op[c].found \ {active[c]} ELSE DOMAIN op[c].found
Match(c) ==
  /\ At(c, "match") /\ op[c].sel # None
  /\ \/ Matches(c) = {} /\ Done(c)
     \/ \E i \in Matches(c) :
          op' = [op EXCEPT ![c].pc = "act", ![c].target = i, ![c].found = <<>>]
  /\ UNCHANGED <<Files, Chat, left>>
Pick(c) ==
  /\ At(c, "match") /\ op[c].sel = None
  /\ \/ Done(c) \* nothing to pick, or not picked
     \/ \E i \in Candidates(c) :
          IF op[c].how = "pick" /\ op[c].cmd = "fork"
          THEN op' = [op EXCEPT ![c] = [Idle EXCEPT !.cmd = "fork", !.pc = "byid",
                                                    !.sel = i, !.scopes = <<FALSE>>]]
          ELSE /\ op[c].cmd # "sessions"
               /\ op' = [op EXCEPT ![c].pc = "act", ![c].target = i, ![c].found = <<>>]
  /\ UNCHANGED <<Files, Chat, left>>

----------------------------------------------------------------------------
(* What a command does to the session found.                               *)
OnFound(c, cmd) == At(c, "act") /\ op[c].cmd = cmd
Target(c) == op[c].target
Refused(c) == Done(c) /\ UNCHANGED <<file, row>>
Gone(c) == ~Exists(Target(c)) /\ Refused(c)
(* A chat keeps the session it has open.                                   *)
Own(c) == active[c] = Target(c)

(* cmdArchive and setSessionArchived: the revision loaded is the one the   *)
(* archive event is appended to.                                           *)
LoadToArchive(c) == \E cmd \in {"archive", "unarchive"} :
  /\ OnFound(c, cmd)
  /\ \/ Gone(c)
     \/ /\ cmd = "archive" /\ Own(c) /\ Refused(c)
     \/ /\ Exists(Target(c)) /\ (cmd = "unarchive" \/ ~Own(c))
        /\ Load(Target(c), TRUE)
        /\ op' = [op EXCEPT ![c].pc = "apply", ![c].at = Len(file[Target(c)].log)]
  /\ UNCHANGED <<used, Chat, left>>
MayArchive(c, cmd) ==
  LET i == Target(c) IN
  /\ Exists(i) /\ Len(file[i].log) = op[c].at
  /\ ~Open(file[i].log) /\ (cmd = "archive") # Archived(file[i].log)
SetArchived(c) == \E cmd \in {"archive", "unarchive"} :
  /\ At(c, "apply") /\ op[c].cmd = cmd
  /\ IF MayArchive(c, cmd) THEN Put(Target(c), Appended(Target(c), Event(cmd, None)))
     ELSE UNCHANGED <<file, row>>
  /\ Done(c) /\ UNCHANGED <<used, Chat, left>>

(* Fault: the turn another process runs is not looked for. *)
MayDeleteAny(c) == ~Own(c)
(* cmdDelete, deleteSession, DeleteThread *)
MayDelete(c) == ~Own(c) /\ ~Open(file[Target(c)].log)
Delete(c) ==
  /\ OnFound(c, "delete")
  /\ \/ Gone(c)
     \/ /\ Exists(Target(c)) /\ ~MayDelete(c) /\ Refused(c)
     \/ /\ Exists(Target(c)) /\ MayDelete(c)
        /\ file' = [file EXCEPT ![Target(c)] = NoFile]
        /\ row' = [row EXCEPT ![Target(c)] = NoRow] /\ Done(c)
  /\ UNCHANGED <<used, Chat, left>>

(* openSession of the runtime: the model of the session is restored, by a  *)
(* load of its own, before the session is opened.                          *)
RestoreModel(c) == \E cmd \in {"resume", "recover"} :
  /\ OnFound(c, cmd)
  /\ \/ Gone(c)
     \/ Exists(Target(c)) /\ Load(Target(c), TRUE) /\ GoTo(c, "open")
  /\ UNCHANGED <<used, Chat, left>>
(* OpenSession: an archived session is refused, and one with an open turn  *)
(* unless the user asked to recover it; the recovery is appended to the    *)
(* revision just loaded, and what it leaves is loaded again.               *)
OpenSession(c) ==
  /\ At(c, "open")
  /\ LET i == Target(c) log == file[i].log IN
     \/ Gone(c) /\ UNCHANGED Chat
     \/ op[c].how = "last" /\ Own(c) /\ Refused(c) /\ UNCHANGED Chat
     \/ /\ Exists(i) /\ Load(i, TRUE)
        /\ \/ /\ Archived(log) \/ (Open(log) /\ op[c].cmd # "recover")
              /\ Done(c) /\ UNCHANGED Chat
           \/ /\ ~Archived(log) /\ Open(log) /\ op[c].cmd = "recover"
              /\ op' = [op EXCEPT ![c].pc = "apply", ![c].at = Len(log)]
              /\ UNCHANGED Chat
           \/ /\ ~Archived(log) /\ ~Open(log) /\ Done(c)
              /\ IF c \in Chats THEN Opened(c, i, Len(log)) ELSE UNCHANGED Chat
  /\ UNCHANGED <<used, left>>
Recover(c) ==
  /\ At(c, "apply") /\ op[c].cmd = "recover"
  /\ IF Exists(Target(c)) /\ Len(file[Target(c)].log) = op[c].at
     THEN /\ Put(Target(c), Appended(Target(c), Event("fail", None)))
          /\ GoTo(c, "reload")
     ELSE Done(c) /\ UNCHANGED <<file, row>>
  /\ UNCHANGED <<used, Chat, left>>
Reload(c) ==
  /\ At(c, "reload")
  /\ \/ Gone(c) /\ UNCHANGED Chat
     \/ /\ Exists(Target(c)) /\ Load(Target(c), TRUE)
        /\ Opened(c, Target(c), Len(file[Target(c)].log)) /\ Done(c)
  /\ UNCHANGED <<used, left>>

----------------------------------------------------------------------------
(* ForkThread: the source, under its read lock, must be whole, idle and    *)
(* not archived; the child keeps the events up to a commit, or only the    *)
(* first one, and its first event carries the title the source has now.    *)
MayFork(journal) == ~journal.torn /\ ~Archived(journal.log) /\ ~Open(journal.log)
(* Fault: the child keeps all there is. *)
BoundaryAtEnd(c, log) == Len(log)
(* analyzeForkSource: before the first turn, at the commit chosen, or at   *)
(* the latest commit; 0 when there is none.                                *)
Boundary(c, log) ==
  IF op[c].at # 0 THEN op[c].at
  ELSE IF Commits(log) = {} THEN 0 ELSE Latest(Commits(log))
Child(i, n) == [torn |-> FALSE, log |-> [k \in 1..n |->
  IF k = 1 THEN Created(Title(file[i].log), i, n) ELSE file[i].log[k]]]
(* publishNewJournal links a complete file to a name nobody has. *)
Publish(j, journal) == used' = used \cup {j} /\ file' = [file EXCEPT ![j] = journal]
ForkThread(c) ==
  /\ LET i == Target(c) n == IF Exists(i) THEN Boundary(c, file[i].log) ELSE 0 IN
     \/ ~(n # 0 /\ MayFork(file[i])) /\ Done(c) /\ UNCHANGED Files
     \/ /\ n # 0 /\ MayFork(file[i])
        /\ \E j \in Ids \ used :
             /\ Publish(j, Child(i, n))
             /\ op' = [op EXCEPT ![c].pc = "project", ![c].target = j, ![c].at = 0]
        /\ UNCHANGED row
  /\ UNCHANGED <<Chat, left>>
(* forkSession and resolveStartupModelConfig: the model of the source is   *)
(* restored first, which loads it; a chat opens it as well.                *)
RestoreSource(c) ==
  /\ OnFound(c, "fork")
  /\ LET i == Target(c) IN
     \/ Gone(c)
     \/ /\ Exists(i) /\ Load(i, TRUE)
        /\ IF c \in Chats /\ (Archived(file[i].log) \/ Open(file[i].log))
           THEN Done(c) ELSE GoTo(c, "fork")
  /\ UNCHANGED <<used, Chat, left>>
Fork(c) == At(c, "fork") /\ ForkThread(c)
submitBacktrack(c) == OnFound(c, "backtrack") /\ ForkThread(c)
(* createThread, for /new, /clear and a chat that starts. *)
New(c) == \E j \in Ids \ used, t \in Titles :
  /\ c \in Chats
  /\ Given(c, [Idle EXCEPT !.cmd = "new", !.pc = "project", !.target = j])
  /\ Publish(j, [log |-> <<Created(t, None, 0)>>, torn |-> FALSE])
  /\ UNCHANGED <<row, Chat>>
(* Both project what they wrote after the journal can be seen, without the *)
(* lock; a failure is passed over.                                         *)
ProjectNew(c) ==
  /\ At(c, "project")
  /\ LET j == Target(c) IN
     row' = IF Exists(j) THEN [row EXCEPT ![j] = Row(Meta(Birth(file[j].log)), file[j])]
            ELSE row
  /\ IF op[c].cmd = "new"
     THEN Opened(c, Target(c), 1) /\ Done(c)
     ELSE /\ GoTo(c, IF c \in Shells THEN "name" ELSE "open") /\ UNCHANGED Chat
  /\ UNCHANGED <<file, used, left>>
(* forkStartupSession: a title given on the command line. *)
NameChild(c) == \E t \in Titles \cup {None} :
  /\ At(c, "name")
  /\ LET j == Target(c) IN
     IF t = None THEN GoTo(c, "open") /\ UNCHANGED <<file, row>>
     ELSE IF Exists(j) /\ Len(file[j].log) = file[j].log[1].cut
     THEN Put(j, Appended(j, Event("title", t))) /\ GoTo(c, "open")
     ELSE Done(c) /\ UNCHANGED <<file, row>>
  /\ UNCHANGED <<used, Chat, left>>

(* buildBacktrackPrompts: the boundary of a prompt is the commit before    *)
(* its own, or the birth of the session.                                   *)
BeforePrompt(log, n) ==
  LET S == {m \in Commits(log) : m < n} IN IF S = {} THEN 1 ELSE Latest(S)
OpenBacktrack(c) ==
  /\ c \in Chats /\ active[c] # None /\ Exists(active[c])
  /\ \E n \in Commits(file[active[c]].log) :
       Given(c, [Idle EXCEPT !.cmd = "backtrack", !.pc = "act", !.target = active[c],
                             !.choice = n, !.at = BeforePrompt(file[active[c]].log, n)])
  /\ Load(active[c], TRUE) /\ UNCHANGED <<used, Chat>>

----------------------------------------------------------------------------
(* SnapshotThread: a run with --ephemeral works on a copy.                 *)
Snapshot(c) == OnFound(c, "ephemeral") /\ Refused(c) /\ UNCHANGED <<used, Chat, left>>

(* What the open session appends: /title and turns, at the revision held.  *)
Append1(c, e) ==
  LET i == active[c] IN
  IF Exists(i) /\ Len(file[i].log) = rev[c]
  THEN Put(i, Appended(i, e)) /\ rev' = [rev EXCEPT ![c] = @ + 1]
  ELSE UNCHANGED <<file, row, rev>>
OpenHere(c) == Exists(active[c]) /\ Open(file[active[c]].log)
SetTitle(c) == \E t \in Titles :
  /\ active[c] # None /\ Given(c, Idle) /\ Append1(c, Event("title", t))
  /\ UNCHANGED <<used, active>>
StartTurn(c) ==
  /\ active[c] # None /\ ~OpenHere(c)
  /\ Exists(active[c]) /\ ~Archived(file[active[c]].log)
  /\ Len(file[active[c]].log) = rev[c]
  /\ Given(c, [Idle EXCEPT !.pc = "turn"]) /\ Append1(c, Event("start", None))
  /\ UNCHANGED <<used, active>>
EndTurn(c) == \E k \in {"commit", "fail"} :
  /\ At(c, "turn")
  /\ IF OpenHere(c) THEN Append1(c, Event(k, None)) ELSE UNCHANGED <<file, row, rev>>
  /\ Done(c) /\ UNCHANGED <<used, active, left>>
(* A process dies at any point, within an append with a torn line.         *)
Die(c) ==
  /\ op[c].pc \notin {"idle", "gone"}
  /\ op' = [op EXCEPT ![c] = [Idle EXCEPT !.pc = "gone"]]
  /\ active' = [active EXCEPT ![c] = None]
  /\ \/ UNCHANGED file
     \/ /\ At(c, "turn") /\ OpenHere(c) /\ Len(file[active[c]].log) = rev[c]
        /\ file' = [file EXCEPT ![active[c]].torn = TRUE]
  /\ UNCHANGED <<row, used, rev, left>>

----------------------------------------------------------------------------
Step(c) ==
  \/ AskByName(c) \/ cmdSessions(c) \/ AskWithoutName(c) \/ cmdFork(c)
  \/ ResolveId(c) \/ Scan(c) \/ ReadMeta(c) \/ Listed(c) \/ Match(c) \/ Pick(c)
  \/ LoadToArchive(c) \/ SetArchived(c) \/ Delete(c) \/ Snapshot(c)
  \/ RestoreModel(c) \/ OpenSession(c) \/ Recover(c) \/ Reload(c)
  \/ RestoreSource(c) \/ Fork(c) \/ OpenBacktrack(c) \/ submitBacktrack(c)
  \/ New(c) \/ ProjectNew(c) \/ NameChild(c)
  \/ SetTitle(c) \/ StartTurn(c) \/ EndTurn(c) \/ Die(c)

(* History, for NamesOneSession.  A row written late says what the session *)
(* was at birth (see ListingIsTrue).                                       *)
Late(i) == row[i] # NoRow /\ row[i].meta # Meta(row[i].print.log)
Bears(c, i) ==
  /\ Exists(i) /\ ~Late(i) /\ Title(file[i].log) = op[c].sel
  /\ \E k \in DOMAIN ScopeOf(op[c].cmd) : ScopeOf(op[c].cmd)[k] = Archived(file[i].log)
Lookup == {"scan", "read", "match"}
Watch == steady' = [c \in Clients |->
  IF op[c].pc = "byid" /\ op'[c].pc = "scan" THEN {i \in Ids : Bears(c, i)}
  ELSE IF op'[c].pc \in Lookup /\ op'[c].sel # None
  THEN {i \in steady[c] : Bears(c, i)' /\ Archived(file'[i].log) = Archived(file[i].log)}
  ELSE {}]

Next == (\E c \in Clients : Step(c)) /\ Watch
Spec == Init /\ [][Next]_vars

----------------------------------------------------------------------------
(* A forked session holds a prefix of its source that ends with a turn, or *)
(* is empty, never an open turn; after a backtrack it ends just before the *)
(* prompt chosen, whatever other processes appended since.                 *)
ForkIsAPrefix ==
  /\ \A j \in Forks(file) : Forked(file[j].log, file[file[j].log[1].parent].log)
  /\ \A c \in Clients :
       LET j == op[c].target IN
       op[c].cmd = "backtrack" /\ At(c, "project") /\ Exists(j) =>
         LET source == file[file[j].log[1].parent].log IN
         source = <<>> \/ Commits(Birth(file[j].log)) = {n \in Commits(source) : n < op[c].choice}

(* What a listing says of a session was its journal's word when it was     *)
(* read, or that of a process that has just created it: the catalog never  *)
(* shows a title or an archive state that was given up.                    *)
ListingIsTrue == [][\A c \in Clients : \A i \in DOMAIN op'[c].found :
  i \in DOMAIN op[c].found \/ op'[c].found[i] \in {Meta(file[i].log), Meta(Birth(file[i].log))}]_vars

(* A name selects a session only if no other one bore it all along, and is *)
(* found missing only if none did.                                         *)
NamesOneSession == [][\A c \in Clients : At(c, "match") /\ op[c].sel # None =>
  /\ op'[c].pc = "act" => steady[c] \subseteq {op'[c].target}
  /\ Named(c) = {} => steady[c] = {}]_vars

(* Whoever works on it, a journal keeps what it holds: it is extended by   *)
(* one event, an archived one by no turn's, or removed as a whole while no *)
(* turn is open in it; and no journal comes back.  An archived session may *)
(* get another title from a process that was recovering it meanwhile (see  *)
(* ArchivedAreNotOpened).                                                  *)
JournalsOnlyGrow == [][\A i \in Ids : file'[i] # file[i] =>
  LET log == file[i].log  next == file'[i].log IN
  \/ i \notin used
  \/ Exists(i) /\ next = <<>> /\ ~Open(log)
  \/ /\ Exists(i) /\ Len(next) \in Len(log)..Len(log) + 1
     /\ SubSeq(next, 1, Len(log)) = log
     /\ Archived(log) /\ next # log => next[Len(next)].kind \in {"unarchive", "title"}]_vars

(* store/thread_types.go, on ErrThreadArchived: an archived session is not *)
(* opened.  OpenSession looks before it recovers an open turn, and not     *)
(* again at what it loads after that (violated).                           *)
ArchivedAreNotOpened == [][\A c \in Clients :
  op[c].cmd # "new" /\ active'[c] \in Ids \ {active[c]} /\ Exists(active'[c]) =>
    ~Archived(file[active'[c]].log)]_vars

(* docs/context-management.md: a run with --ephemeral repairs its copy and *)
(* leaves the source as it is.                                             *)
EphemeralLeavesSource == [][\A c \in Clients :
  op[c].cmd = "ephemeral" /\ op'[c] # op[c] => file' = file]_vars
=============================================================================
