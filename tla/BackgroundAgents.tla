-------------------------- MODULE BackgroundAgents --------------------------
(***************************************************************************)
(* Background analysis agents (internal/tui/background_agents.go): /agent  *)
(* queues a task, at most maxActive of them run, each in a goroutine that  *)
(* may first read a snapshot of the workspace and then asks the model; its *)
(* message is settled by the interface, which starts the next one.  The    *)
(* records of ended agents are kept up to a limit, across session changes. *)
(*                                                                         *)
(* An agent's number is its id.  Records are appended in the order of      *)
(* their numbers, so the set of those retained is in that order.  Prompts, *)
(* reports and their lengths are left out: a report is empty or not.  A    *)
(* definition marked "Fault" is a plausible bug in the one after it and    *)
(* used by no action.                                                      *)
(***************************************************************************)
EXTENDS Integers, FiniteSets

CONSTANTS MaxActive,    \* maxBackgroundAgents
          MaxRetained,  \* maxRetainedBackgroundAgents
          MaxAgents,    \* bound on the agents asked for
          MaxChanges    \* bound on the sessions opened one after the other

AgentAssumption ==
  /\ MaxActive \in Nat \ {0} /\ MaxRetained \in Nat \ {0}
  /\ MaxAgents \in Nat /\ MaxChanges \in Nat \ {0}

Ids == 1..MaxAgents
States == {"queued", "working", "cancelling", "completed", "failed", "cancelled"}
Active == {"working", "cancelling"}
Terminal == {"completed", "failed", "cancelled"}
Work == {"none", "snapshot", "asking", "returned"}
Results == {"report", "empty", "error"}

VARIABLES
  next,       \* backgroundAgentNextID
  order,      \* backgroundAgentOrder: the ids of the records retained, oldest first
  task,       \* each retained record's state and its session's generation
  work,       \* where each agent's goroutine is
  ended,      \* ids whose context has ended
  returned,   \* what each goroutine's message says
  session,    \* sessionGeneration
  quitting,   \* the interface is going away
  draft,      \* ids whose report was appended to the composer
  refused     \* history: ids the user cancelled, in any way

avars == <<next, order, task, work, ended, returned, session, quitting,
           draft, refused>>

NoTask == [state |-> "none", generation |-> 0]
InState(t, S) == {i \in Ids : t[i].state \in S}

AgentsTypeOK ==
  /\ next \in 0..MaxAgents
  /\ order \subseteq Ids
  /\ task \in [Ids -> [state : States \cup {"none"}, generation : 0..MaxChanges]]
  /\ work \in [Ids -> Work] /\ returned \in [Ids -> Results]
  /\ ended \subseteq Ids /\ draft \subseteq Ids /\ refused \subseteq Ids
  /\ session \in 1..MaxChanges /\ quitting \in BOOLEAN

AgentsInit ==
  /\ next = 0 /\ order = {}
  /\ task = [i \in Ids |-> NoTask]
  /\ work = [i \in Ids |-> "none"] /\ returned = [i \in Ids |-> "error"]
  /\ ended = {} /\ draft = {} /\ refused = {}
  /\ session = 1 /\ quitting = FALSE

-----------------------------------------------------------------------------
(* The pool: order and task together, as the functions of the interface    *)
(* hand it on.                                                             *)
Pool == [order |-> order, task |-> task]
SetState(p, i, s) == [p EXCEPT !.task[i].state = s]

(* The first n of a set of numbers. *)
Oldest(S, n) == {i \in S : Cardinality({j \in S : j < i}) < n}
(* Fault: the oldest records go, ended or not. *)
EvictableAny(p, limit) == Oldest(p.order, Cardinality(p.order) - limit)
(* trimBackgroundAgents: the oldest ended records go while there are too   *)
(* many; what lives is never dropped.                                      *)
Evictable(p, limit) ==
  Oldest({i \in p.order : p.task[i].state \in Terminal}, Cardinality(p.order) - limit)
Trim(p, limit) ==
  LET gone == Evictable(p, limit)
  IN  [order |-> p.order \ gone,
       task |-> [j \in Ids |-> IF j \in gone THEN NoTask ELSE p.task[j]]]

Queued(p) == {i \in p.order : p.task[i].state = "queued"}
(* A cancelled agent keeps its place until its goroutine has returned. *)
HasRoom(p) == Cardinality(InState(p.task, Active)) < MaxActive
(* dispatchQueuedBackgroundAgents: at most one agent, the first in line. *)
Starting(p) == {i \in Queued(p) : HasRoom(p) /\ \A j \in Queued(p) : i <= j}
Dispatched(p) ==
  [p EXCEPT !.task = [j \in Ids |->
     IF j \in Starting(p) THEN [p.task[j] EXCEPT !.state = "working"] ELSE p.task[j]]]

(* What /agent asked for: with a snapshot of the diff or of files, or not. *)
Scopes == {"snapshot", "asking"}
(* The commands of the agents that start run as goroutines. *)
Launch(p) == \E first \in Scopes :
  work' = [j \in Ids |-> IF j \in Starting(p) THEN first ELSE work[j]]
Keep(p) == order' = p.order /\ task' = p.task

-----------------------------------------------------------------------------
(* /agent, after its arguments are found in order.  One ended record makes *)
(* room; a pool full of live agents refuses.                               *)
cmdAgent ==
  LET trimmed == Trim(Pool, MaxRetained - 1)
      i == next + 1
      p == [order |-> trimmed.order \cup {i},
            task |-> [trimmed.task EXCEPT ![i] =
                        [state |-> "queued", generation |-> session]]]
  IN
  /\ ~quitting /\ next < MaxAgents
  /\ IF Cardinality(trimmed.order) >= MaxRetained
     THEN Keep(trimmed) /\ UNCHANGED <<next, work>>
     ELSE next' = i /\ Keep(Dispatched(p)) /\ Launch(p)
  /\ UNCHANGED <<ended, returned, session, quitting, draft, refused>>

Cancelled(p, S) ==
  [p EXCEPT !.task = [j \in Ids |->
     IF j \notin S THEN p.task[j]
     ELSE CASE p.task[j].state = "queued" -> [p.task[j] EXCEPT !.state = "cancelled"]
            [] p.task[j].state \in Active -> [p.task[j] EXCEPT !.state = "cancelling"]
            [] OTHER -> p.task[j]]]
Cancel(S) ==
  /\ Keep(Cancelled(Pool, S))
  /\ ended' = ended \cup (S \cap InState(task, Active))
  /\ refused' = refused \cup (S \cap InState(task, Active \cup {"queued"}))
  /\ UNCHANGED <<next, work, returned, session, draft>>

(* /agents cancel <id>. *)
CancelOne(i) == ~quitting /\ i \in order /\ Cancel({i}) /\ UNCHANGED quitting
(* /agents cancel all. *)
cancelAllBackgroundAgents == ~quitting /\ Cancel(order) /\ UNCHANGED quitting
(* Ctrl-C when idle, Ctrl-D and /exit: the last thing the interface does.  *)
Quit == ~quitting /\ Cancel(order) /\ quitting' = TRUE

(* /agents append <id>. *)
appendBackgroundAgentResult(i) ==
  /\ ~quitting /\ task[i].state = "completed"
  /\ draft' = draft \cup {i}
  /\ UNCHANGED <<next, order, task, work, ended, returned, session, quitting, refused>>

(* /new, /clear, /resume, a fork: replaceSession. *)
leaveSession ==
  /\ ~quitting /\ session < MaxChanges
  /\ session' = session + 1
  /\ UNCHANGED <<next, order, task, work, ended, returned, quitting, draft, refused>>

-----------------------------------------------------------------------------
(* The goroutine of an agent. *)
Returns(i, result) ==
  /\ work' = [work EXCEPT ![i] = "returned"]
  /\ returned' = [returned EXCEPT ![i] = result]
  /\ UNCHANGED <<next, order, task, ended, session, quitting, draft, refused>>
(* Snapshot of the diff or of the files: taken, or an error ends the work. *)
ReadSnapshot(i) ==
  /\ work[i] = "snapshot" /\ i \notin ended
  /\ work' = [work EXCEPT ![i] = "asking"]
  /\ UNCHANGED <<next, order, task, ended, returned, session, quitting, draft, refused>>
SnapshotFails(i) == work[i] = "snapshot" /\ Returns(i, "error")
(* The model answers; at the end of the context it may also give up, and   *)
(* an answer that was on its way arrives all the same.                     *)
backgroundAgent(i) == work[i] = "asking" /\ \E r \in Results : Returns(i, r)
(* The turn's time limit, which an agent's context has too. *)
TimesOut(i) ==
  /\ work[i] \in {"snapshot", "asking"} /\ i \notin ended
  /\ ended' = ended \cup {i}
  /\ UNCHANGED <<next, order, task, work, returned, session, quitting, draft, refused>>

(* How an agent ends: as the user asked, and only then by what it says. *)
Outcome(i) ==
  CASE task[i].state = "cancelling" -> "cancelled"
    [] task[i].state # "cancelling" /\ returned[i] = "report" -> "completed"
    [] OTHER -> "failed"
(* Fault: the return for an agent of another session comes too early. *)
AfterSettlingSameSession(p, i) == IF task[i].generation = session THEN Dispatched(p) ELSE p
(* Who starts when agent i has been settled. *)
AfterSettling(p, i) == Dispatched(p)
finishBackgroundAgent(i) ==
  LET p == Trim(SetState(Pool, i, Outcome(i)), MaxRetained)
  IN
  /\ ~quitting /\ work[i] = "returned" /\ task[i].state \in Active
  /\ Keep(AfterSettling(p, i))
  /\ \E first \in Scopes :
       work' = [j \in Ids |-> IF j = i THEN "none"
                              ELSE IF AfterSettling(p, i).task[j].state = "working"
                                      /\ task[j].state = "queued" THEN first
                              ELSE work[j]]
  /\ ended' = ended \cup {i}
  /\ UNCHANGED <<next, returned, session, quitting, draft, refused>>

Stopped == quitting /\ UNCHANGED avars

AgentsNext ==
  \/ cmdAgent \/ cancelAllBackgroundAgents \/ Quit \/ leaveSession \/ Stopped
  \/ \E i \in Ids :
       \/ CancelOne(i) \/ appendBackgroundAgentResult(i)
       \/ ReadSnapshot(i) \/ SnapshotFails(i) \/ backgroundAgent(i) \/ TimesOut(i)
       \/ finishBackgroundAgent(i)

(* A model call and a snapshot end, by themselves or by the time limit,    *)
(* and the interface takes its messages.                                   *)
AgentsFairness == \A i \in Ids :
  /\ WF_avars(ReadSnapshot(i) \/ SnapshotFails(i))
  /\ WF_avars(backgroundAgent(i))
  /\ WF_avars(finishBackgroundAgent(i))
AgentsSpec == AgentsInit /\ [][AgentsNext]_avars /\ AgentsFairness

-----------------------------------------------------------------------------
(* No more agents work than may, and none waits while one more may: a      *)
(* place that is given back, by an agent of whatever session and however   *)
(* it ended, goes to the next in line (dispatchQueuedBackgroundAgents      *)
(* starts one agent per event and nobody looks again).  The record of a    *)
(* goroutine at work is not dropped to make room.                          *)
PlacesAreUsed ==
  /\ \A i \in Ids : work[i] # "none" => task[i].state \in Active
  /\ Cardinality({i \in Ids : work[i] # "none"}) <= MaxActive
  /\ Queued(Pool) # {} => Cardinality(InState(task, Active)) = MaxActive

(* A report whose agent the user has cancelled is never shown nor handed   *)
(* over, though it may arrive after the cancellation.                      *)
CancelledStaysSilent == \A i \in refused :
  task[i].state # "completed" /\ i \notin draft

(* Both, of the pool and of what comes out of it.                          *)
AgentsKeepOrder == PlacesAreUsed /\ CancelledStaysSilent

(* Every agent that was accepted ends, unless the program does.            *)
EveryAgentEnds == \A i \in Ids :
  task[i].state = "queued" ~> (task[i].state \in Terminal \cup {"none"} \/ quitting)
=============================================================================
