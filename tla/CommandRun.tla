---------------------------- MODULE CommandRun -----------------------------
(***************************************************************************)
(* One shell command (internal/tools): runSandboxShell starts a worker in  *)
(* the platform's sandbox and the worker starts the shell; a host command  *)
(* starts the shell itself.  Both levels are supervised by                 *)
(* runCommandWithLifecycleWithGrace, TERM to the process group and KILL    *)
(* after a grace, the outer one with a grace long enough for the inner.    *)
(*                                                                         *)
(* Time is discrete and its unit is commandWaitGrace; a timer runs only    *)
(* while no supervisor has something to do, for their steps take           *)
(* microseconds and the graces seconds.  Bubblewrap gives the worker a     *)
(* process namespace that dies with its first process and a session of its *)
(* own, so a TERM meant for the worker reaches bwrap alone and ends them   *)
(* all; under Seatbelt the worker gets the TERM and the shell is in        *)
(* another group.  Output is reduced to whether it reached the cap.        *)
(*                                                                         *)
(* The inner group is "up" while the shell runs or another of its members  *)
(* holds the output pipe, and "quiet" when the shell has ended and those   *)
(* left of it hold no pipe (a command put in the background with its       *)
(* output redirected): Wait does not know of these.                        *)
(***************************************************************************)
EXTENDS Naturals

CONSTANT Grace    \* commandWaitGrace in units of time
GraceAssumption == Grace \in Nat \ {0}

Levels == {"outer", "inner"}
Routes == {"direct", "bubblewrap", "seatbelt"}

VARIABLES
  route,    \* how the command is run
  toolCall, \* the tool call: "ready", "running", "over"
  ctx,      \* the call's context: "live", "deadline", "canceled"
  wctx,     \* the worker's: its signal context under its own time limit
  run,      \* the supervisor of each level: state, time left, why it stopped it
  group,    \* the process group of each level: "none", "up", "quiet", "gone"
  holder,   \* a descendant outside the group holds the output pipe
  code,     \* the shell's exit status as Wait will report it
  full,     \* an output cap of the command was reached
  answer,   \* the worker's response on its standard output
  result,   \* what the model gets
  crashed,  \* history: the worker died of something else than the launcher
  runner    \* the SandboxRunner: "open", "closing", "closed" (worker removed)

proc == <<group, holder, code>>
cvars == <<route, toolCall, ctx, wctx, run, group, holder, code, full,
          answer, result, crashed, runner>>

None == [kind |-> "none", code |-> "none", timedOut |-> FALSE,
         cancelled |-> FALSE, limited |-> FALSE]
Denied == [None EXCEPT !.kind = "denied"]
Failed == [None EXCEPT !.kind = "error"]
Idle == [st |-> "idle", left |-> 0, why |-> "none"]
Sandboxed == route # "direct"

CommandInit ==
  /\ route \in Routes
  /\ toolCall = "ready" /\ ctx = "live" /\ wctx = "live" /\ runner = "open"
  /\ run = [l \in Levels |-> Idle] /\ group = [l \in Levels |-> "none"]
  /\ holder = FALSE /\ code = "none" /\ full = FALSE
  /\ answer = None /\ result = None /\ crashed = FALSE

-----------------------------------------------------------------------------
(* Supervision of one level.                                               *)

WorkerShutdownGraceOne == Grace    \* Fault: the worker gets one grace only
WorkerShutdownGrace == 2 * Grace + 1
TermGrace(l) == IF l = "outer" THEN WorkerShutdownGrace ELSE Grace

CtxOf(l) == IF l = "outer" \/ ~Sandboxed THEN ctx ELSE wctx
(* cmd.Wait returns: the process has ended and nobody holds its pipes.     *)
Exited(l) == group[l] \in {"quiet", "gone"} /\ (l = "inner" => ~holder)
Stop(l, st, left) == run' = [run EXCEPT ![l].st = st, ![l].left = left]

(* An ended worker takes the namespace with it under bubblewrap.           *)
WorkerEnds ==
  IF route = "bubblewrap"
  THEN /\ group' = [l \in Levels |-> IF group[l] = "none" THEN "none" ELSE "gone"]
       /\ holder' = FALSE
       /\ code' = IF group["inner"] = "up" /\ code = "none" THEN "signal" ELSE code
  ELSE /\ group' = [group EXCEPT !["outer"] = "gone"]
       /\ UNCHANGED <<holder, code>>
ShellIsKilled ==
  /\ group' = [group EXCEPT !["inner"] = IF @ = "none" THEN @ ELSE "gone"]
  /\ code' = IF group["inner"] = "up" /\ code = "none" THEN "signal" ELSE code
  /\ UNCHANGED holder
(* The shell obeys TERM or ignores it, and so does each other member of    *)
(* its group: the shell may end and leave others, with the pipe or without.*)
ShellIsTermed ==
  \/ UNCHANGED proc
  \/ \E rest \in {"up", "quiet", "gone"} :
       /\ group["inner"] = "up" \/ (group["inner"] = "quiet" /\ rest # "up")
       /\ group' = [group EXCEPT !["inner"] = rest]
       /\ code' = IF code = "none" THEN "signal" ELSE code
       /\ UNCHANGED holder

SendTerm(l) ==
  IF l = "outer"
  THEN IF route = "bubblewrap" THEN WorkerEnds /\ UNCHANGED wctx
       ELSE /\ wctx' = IF wctx = "live" THEN "canceled" ELSE wctx
            /\ UNCHANGED proc
  ELSE ShellIsTermed /\ UNCHANGED wctx
SendKill(l) == IF l = "outer" THEN WorkerEnds ELSE ShellIsKilled

(* The supervisor returns and says why it ended: the context, the cap, or  *)
(* neither.  A cap that was reached by then wins over all.                 *)
Return(l, why) ==
  run' = [run EXCEPT ![l] = [st |-> "over", left |-> 0, why |-> why]]
Reached(l) == l = "inner" /\ full
WhyEnded(l) == IF Reached(l) THEN "limit" ELSE run[l].why

Start(l) ==
  /\ run[l].st = "idle" /\ toolCall = "running"
  /\ IF l = "outer" THEN Sandboxed
     ELSE Sandboxed => group["outer"] = "up" /\ answer = None
  /\ \/ /\ CtxOf(l) # "live"
        /\ Return(l, "context") /\ UNCHANGED group
     \/ /\ CtxOf(l) = "live"
        /\ Stop(l, "waiting", 0)
        /\ group' = [group EXCEPT ![l] = "up"]
  /\ UNCHANGED <<route, toolCall, ctx, wctx, holder, code, full, answer,
                 result, crashed, runner>>
(* The backend is missing, or the program cannot be started.               *)
StartFails(l) ==
  /\ run[l].st = "idle" /\ toolCall = "running"
  /\ IF l = "outer" THEN Sandboxed
     ELSE Sandboxed => group["outer"] = "up" /\ answer = None
  /\ Return(l, "unstarted")
  /\ UNCHANGED <<route, toolCall, ctx, wctx, group, holder, code, full,
                 answer, result, crashed, runner>>

SeeExit(l) ==
  /\ run[l].st \in {"waiting", "termed", "killed"} /\ Exited(l)
  /\ Return(l, WhyEnded(l))
  /\ UNCHANGED <<route, toolCall, ctx, wctx, group, holder, code, full,
                 answer, result, crashed, runner>>
(* An exit that was already observed is preferred to either.               *)
SeeReason(l, why) ==
  /\ run[l].st = "waiting" /\ ~Exited(l)
  /\ \/ why = "context" /\ CtxOf(l) # "live"
     \/ why = "limit" /\ Reached(l)
  /\ SendTerm(l)
  /\ run' = [run EXCEPT ![l] = [st |-> "termed", left |-> TermGrace(l), why |-> why]]
  /\ UNCHANGED <<route, toolCall, ctx, full, answer, result, crashed, runner>>
TermExpires(l) ==
  /\ run[l].st = "termed" /\ run[l].left = 0 /\ ~Exited(l)
  /\ SendKill(l) /\ Stop(l, "killed", Grace)
  /\ UNCHANGED <<route, toolCall, ctx, wctx, full, answer, result, crashed, runner>>
(* Fault: Wait is awaited without a bound once the group was killed.       *)
KillExpiresNever(l) ==
  /\ run[l].st = "killed" /\ Exited(l)
  /\ Return(l, WhyEnded(l))
  /\ UNCHANGED <<route, toolCall, ctx, wctx, group, holder, code, full,
                 answer, result, crashed, runner>>
KillExpires(l) ==
  /\ run[l].st = "killed" /\ run[l].left = 0 /\ ~Exited(l)
  /\ Return(l, WhyEnded(l))
  /\ UNCHANGED <<route, toolCall, ctx, wctx, group, holder, code, full,
                 answer, result, crashed, runner>>

-----------------------------------------------------------------------------
(* The command itself, which does what it likes.                           *)

Spawn ==
  /\ group["inner"] = "up" /\ ~holder
  /\ holder' = TRUE
  /\ UNCHANGED <<route, toolCall, ctx, wctx, run, group, code, full,
                 answer, result, crashed, runner>>
HolderEnds ==
  /\ holder /\ holder' = FALSE
  /\ UNCHANGED <<route, toolCall, ctx, wctx, run, group, code, full,
                 answer, result, crashed, runner>>
ShellExits(status, rest) ==
  /\ group["inner"] = "up" /\ code = "none"
  /\ code' = status
  /\ group' = [group EXCEPT !["inner"] = rest]
  /\ UNCHANGED <<route, toolCall, ctx, wctx, run, holder, full, answer,
                 result, crashed, runner>>
OthersEnd(rest) ==    \* or close the pipe
  /\ group["inner"] \in {"up", "quiet"} \ {rest} /\ code # "none"
  /\ group' = [group EXCEPT !["inner"] = rest]
  /\ UNCHANGED <<route, toolCall, ctx, wctx, run, holder, code, full,
                 answer, result, crashed, runner>>
(* limitedBuffer.Write passes its limit and calls the handler.             *)
FillBuffer ==
  /\ group["inner"] = "up" \/ holder
  /\ ~full /\ full' = TRUE
  /\ UNCHANGED <<route, toolCall, ctx, wctx, run, proc, answer, result,
                 crashed, runner>>

-----------------------------------------------------------------------------
(* The end of a level, told to the one above.                              *)

(* runDirectCommand: the cap wins over a context that ended as well; an    *)
(* exit seen first keeps its status, with the context's flag beside a      *)
(* status other than zero.  A program that cannot be started is an error,  *)
(* which the worker's caller turns into a denial.                          *)
Outcome(c) ==
  LET r == run["inner"]
      stopped == [None EXCEPT !.kind = "stopped", !.timedOut = c = "deadline",
                              !.cancelled = c = "canceled"]
      limited == [None EXCEPT !.kind = "stopped", !.limited = TRUE]
      exited  == [None EXCEPT !.kind = "exit", !.code = code,
                    !.timedOut = code # "zero" /\ c = "deadline",
                    !.cancelled = code # "zero" /\ c = "canceled"]
  IN  CASE r.why = "limit" -> limited
        [] r.why = "context" -> stopped
        [] r.why = "unstarted" -> IF Sandboxed THEN Denied ELSE Failed
        [] OTHER -> exited

WorkerAnswers ==
  /\ Sandboxed /\ group["outer"] = "up"
  /\ run["inner"].st = "over" /\ answer = None
  /\ answer' = Outcome(wctx)
  /\ WorkerEnds
  /\ UNCHANGED <<route, toolCall, ctx, wctx, run, full, result, crashed, runner>>
(* The worker's own limit is as long as the call's and starts later.       *)
WorkerDeadline ==
  /\ Sandboxed /\ group["outer"] = "up" /\ ctx = "deadline" /\ wctx = "live"
  /\ wctx' = "deadline"
  /\ UNCHANGED <<route, toolCall, ctx, run, proc, full, answer, result,
                 crashed, runner>>
WorkerDies ==
  /\ Sandboxed /\ group["outer"] = "up" /\ ~crashed
  /\ crashed' = TRUE /\ WorkerEnds
  /\ UNCHANGED <<route, toolCall, ctx, wctx, run, full, answer, result, runner>>

(* runSandboxShell: without a response it says how its context ended, or   *)
(* that the command was denied.                                            *)
StopOrDeny ==
  IF ctx = "live" THEN Denied
  ELSE [None EXCEPT !.kind = "stopped", !.timedOut = ctx = "deadline",
                    !.cancelled = ctx = "canceled"]
Report ==
  /\ toolCall = "running"
  /\ run[IF Sandboxed THEN "outer" ELSE "inner"].st = "over"
  /\ toolCall' = "over"
  /\ result' = IF ~Sandboxed THEN Outcome(ctx)
               ELSE IF answer = None THEN StopOrDeny ELSE answer
  /\ UNCHANGED <<route, ctx, wctx, run, proc, full, answer, crashed, runner>>

-----------------------------------------------------------------------------
(* The call, its context and the runner.                                   *)

beginExecution ==
  /\ toolCall = "ready"
  /\ IF Sandboxed /\ runner # "open"
     THEN toolCall' = "over" /\ result' = StopOrDeny
     ELSE toolCall' = "running" /\ UNCHANGED result
  /\ UNCHANGED <<route, ctx, wctx, run, proc, full, answer, crashed, runner>>
EndContext(how) ==
  /\ ctx = "live" /\ toolCall # "over" /\ ctx' = how
  /\ how = "deadline" => toolCall = "running"
  /\ UNCHANGED <<route, toolCall, wctx, run, proc, full, answer, result,
                 crashed, runner>>
closeRunner ==
  /\ runner = "open" /\ runner' = "closing"
  /\ UNCHANGED <<route, toolCall, ctx, wctx, run, proc, full, answer,
                 result, crashed>>
RemoveWorker ==    \* after executions.Wait
  /\ runner = "closing" /\ (toolCall = "running" => ~Sandboxed)
  /\ runner' = "closed"
  /\ UNCHANGED <<route, toolCall, ctx, wctx, run, proc, full, answer,
                 result, crashed>>

Supervise ==
  \/ \E l \in Levels :
       \/ Start(l) \/ SeeExit(l) \/ TermExpires(l) \/ KillExpires(l)
       \/ \E why \in {"context", "limit"} : SeeReason(l, why)
  \/ WorkerAnswers \/ Report
Busy ==
  \/ \E l \in Levels :
       \/ run[l].st # "idle" /\ run[l].st # "over" /\ Exited(l)
       \/ run[l].st = "waiting" /\ (CtxOf(l) # "live" \/ Reached(l))
       \/ run[l].st \in {"termed", "killed"} /\ run[l].left = 0
  \/ run["inner"].st = "idle" /\ group["outer"] = "up"
  \/ run["inner"].st = "over" /\ (group["outer"] = "up" \/ ~Sandboxed)
Tick ==
  /\ ~Busy
  /\ \E l \in Levels : run[l].left > 0
  /\ run' = [l \in Levels |-> [run[l] EXCEPT !.left = IF @ > 0 THEN @ - 1 ELSE 0]]
  /\ UNCHANGED <<route, toolCall, ctx, wctx, proc, full, answer, result,
                 crashed, runner>>

CommandNext ==
  \/ Supervise \/ Tick
  \/ \E l \in Levels : StartFails(l)
  \/ Spawn \/ HolderEnds \/ FillBuffer
  \/ \E rest \in {"quiet", "gone"} : OthersEnd(rest)
  \/ \E status \in {"zero", "nonzero"}, rest \in {"up", "quiet", "gone"} :
       ShellExits(status, rest)
  \/ WorkerDeadline \/ WorkerDies
  \/ beginExecution \/ closeRunner \/ RemoveWorker
  \/ \E how \in {"deadline", "canceled"} : EndContext(how)

(* The supervisors are goroutines that run, time passes, and every call    *)
(* has a time limit.  Nothing is asked of the command.                     *)
CommandFairness == WF_cvars(Supervise) /\ WF_cvars(Tick) /\ WF_cvars(EndContext("deadline"))
CommandSpec == CommandInit /\ [][CommandNext]_cvars /\ CommandFairness

-----------------------------------------------------------------------------
(* Properties.                                                             *)

(* When a call has its result its shell has ended, and what is left of the *)
(* shell's process group writes to no output of the call, unless the worker*)
(* died by itself under Seatbelt: the outer grace outlasts both of the     *)
(* inner ones.  Under bubblewrap nothing is left of it, in the group or    *)
(* outside.  Elsewhere members of the group with their output redirected   *)
(* go on, and are not even sent a signal when the shell ended by itself.   *)
ShellIsGone ==
  toolCall = "over" =>
    /\ crashed \/ group["inner"] # "up"
    /\ route = "bubblewrap" => group["inner"] \in {"none", "gone"} /\ ~holder

(* "A cancelled context or output cap first sends TERM, then KILL after    *)
(* commandWaitGrace to ordinary descendants that remain in that group"     *)
(* (process_lifecycle.go): a command that was stopped leaves nothing in its*)
(* group.  Violated: when the shell obeys TERM no KILL is sent.            *)
StoppedGroupIsKilled ==
  toolCall = "over" /\ ~crashed /\ run["inner"].why = "context" =>
    group["inner"] # "quiet"

(* A status is reported for a command that ended by itself, a time-out     *)
(* only after the limit, and a cap only when it was reached.               *)
OutcomeIsTrue ==
  toolCall = "over" =>
    /\ result.kind = "exit" => result.code = code /\ code # "none"
    /\ result.kind = "exit" /\ result.code # "signal" => run["inner"].why = "none"
    /\ result.timedOut => ctx = "deadline"
    /\ result.cancelled => ctx # "live"
    /\ result.limited => full

(* The staged copy of the worker is there for every call that was let in.  *)
StagedWorkerIsThere == Sandboxed /\ toolCall = "running" => runner # "closed"

(* What a call leaves and says, and what it needs: the three above.        *)
CommandIsSettled == ShellIsGone /\ OutcomeIsTrue /\ StagedWorkerIsThere

(* A call that runs gets its result, whatever the command does.            *)
CallReturns == toolCall = "running" ~> toolCall = "over"
=============================================================================
