------------------------------- MODULE ExecRun -------------------------------
(***************************************************************************)
(* One exec command (cmd/eino-assistant/run_exec.go, run_exec_stream.go):  *)
(* read the prompt, open the session, run one turn, write FILE, report,    *)
(* close.  With stream-json a writer goroutine owns stdout; tool events    *)
(* reach it through a bounded queue from the goroutines of the tool calls. *)
(*                                                                         *)
(* The session (chat.Session, ThreadLedger) is reduced to its turn.  A     *)
(* record is its event, and for a result its status.  The reader of stdout *)
(* reads or is gone; the disk behind stdout, stderr and FILE may fail.     *)
(*                                                                         *)
(* A definition marked "Fault" is a plausible bug in the one after it and  *)
(* used by no action.                                                      *)
(***************************************************************************)
EXTENDS Naturals, Sequences, FiniteSets

CONSTANTS Emitters,  \* goroutines of tool calls
          MaxEvents, \* bound on the events of each
          Capacity,  \* execStreamQueueCapacity
          Pipes      \* what stdout may be: a pipe, a file, or both are tried

Formats == {"text", "json", "stream"}
NoOne == "none"

ExecAssumption ==
  /\ Capacity \in Nat \ {0} /\ MaxEvents \in Nat
  /\ NoOne \notin Emitters
  /\ Pipes \subseteq {"pipe", "file"} /\ Pipes # {}

Outcomes == {"completed", "failed", "cancelled"}
Record(event, status) == [event |-> event, status |-> status]
Started == Record("session.started", "none")
Activity == Record("activity", "none")
Result(status) == Record("result", status)
Records == {Started, Activity} \cup {Result(status) : status \in Outcomes}

VARIABLES
  format,   \* --output-format
  saving,   \* --output-last-message is given
  stdout,   \* what stdout is, and whether its reader is there
  main,     \* where the command's main goroutine is
  cause,    \* the error it carries: none, failed, cancelled, timeout or input
  turn,     \* none, active, committed, ended
  ctx,      \* the run's context: live or cancelled
  deadline, \* the turn's own time limit has passed
  signal,   \* the first signal caught
  emit,     \* each tool goroutine: idle, recorded, or in the select
  events,   \* events each has had
  mutex,    \* holder of stateMu
  closed,   \* terminalEnqueued
  queue, hand, writer, ack, outputErr, \* the writer goroutine
  out,      \* complete records on stdout
  file,     \* FILE: old or new
  code      \* exit code: none, 0, 1, 143, or killed

xvars == <<format, saving, stdout, main, cause, turn, ctx, deadline, signal,
           emit, events, mutex, closed, queue, hand, writer, ack, outputErr,
           out, file, code>>
wvars == <<queue, hand, writer, ack, outputErr, out>>
run == <<format, saving, stdout>>

Steps == {"input", "open", "hello", "greeted", "hint", "begin", "ask", "save",
          "report", "mark", "offer", "await", "close", "exit", "over"}
Writers == {"off", "running", "failing", "ending", "stopped"}

ExecTypeOK ==
  /\ format \in Formats /\ saving \in BOOLEAN
  /\ stdout \in {"pipe", "file", "gone"}
  /\ main \in Steps /\ cause \in {"none", "failed", "cancelled", "timeout", "input"}
  /\ turn \in {"none", "active", "committed", "ended"}
  /\ ctx \in {"live", "cancelled"} /\ deadline \in BOOLEAN
  /\ signal \in {"none", "INT", "TERM"}
  /\ emit \in [Emitters -> {"idle", "recorded", "select"}]
  /\ events \in [Emitters -> 0..MaxEvents]
  /\ mutex \in Emitters \cup {NoOne} /\ closed \in BOOLEAN
  /\ queue \in Seq(Records) /\ Len(queue) <= Capacity
  /\ hand \in Seq(Records) /\ Len(hand) <= 1 /\ out \in Seq(Records)
  /\ writer \in Writers
  /\ ack \in {"none", "ok", "failed"} /\ outputErr \in BOOLEAN
  /\ file \in {"old", "new"} /\ code \in {"none", "0", "1", "143", "killed"}

ExecInit ==
  /\ format \in Formats /\ saving \in BOOLEAN /\ stdout \in Pipes
  /\ main = "input" /\ cause = "none" /\ turn = "none"
  /\ ctx = "live" /\ deadline = FALSE /\ signal = "none"
  /\ emit = [e \in Emitters |-> "idle"] /\ events = [e \in Emitters |-> 0]
  /\ mutex = NoOne /\ closed = FALSE
  /\ queue = <<>> /\ hand = <<>> /\ writer = "off" /\ ack = "none"
  /\ outputErr = FALSE /\ out = <<>> /\ file = "old" /\ code = "none"

StoppedChannel == writer \in {"failing", "stopped"}
Go(step) == main' = step

-----------------------------------------------------------------------------
(* The command's main goroutine up to the turn. *)
(* finishExecFailure: text prints nothing; stream-json uses a writer of    *)
(* its own when there is none.                                             *)
Fail(c) ==
  /\ cause' = c
  /\ CASE format = "text" -> Go("close") /\ UNCHANGED writer
       [] format = "json" -> Go("report") /\ UNCHANGED writer
       [] OTHER -> /\ Go("mark")
                   /\ writer' = IF writer = "off" THEN "running" ELSE writer
(* Flags, the schema's file or the resume arguments are refused, or stdin  *)
(* is empty or too large.                                                  *)
InputRefused == Fail("input")
readExecPrompt ==
  /\ main = "input"
  /\ \/ Go("open") /\ UNCHANGED <<cause, writer>>
     \/ InputRefused
  /\ UNCHANGED <<run, turn, ctx, deadline, signal, emit, events, mutex, closed,
                 queue, hand, ack, outputErr, out, file, code>>
(* The last session cannot be selected or the runtime not be built. *)
OpenFails == Fail("failed") \/ (ctx = "cancelled" /\ Fail("cancelled"))
openSession ==
  /\ main = "open"
  /\ \/ Go(IF format = "stream" THEN "hello" ELSE "hint") /\ UNCHANGED cause
        /\ writer' = IF format = "stream" THEN "running" ELSE "off"
     \/ OpenFails
  /\ UNCHANGED <<run, turn, ctx, deadline, signal, emit, events, mutex, closed,
                 queue, hand, ack, outputErr, out, file, code>>

(* The first record must be on stdout before a turn starts. *)
AfterHello == "greeted"
Hello ==
  /\ main = "hello"
  /\ queue' = Append(queue, Started)
  /\ Go(AfterHello)
  /\ UNCHANGED <<run, cause, turn, ctx, deadline, signal, emit, events, mutex,
                 closed, hand, writer, ack, outputErr, out, file, code>>
Greeted ==
  /\ main = "greeted"
  /\ \/ ack = "ok" /\ Go("hint") /\ UNCHANGED cause
     \/ ack = "failed" /\ Go("close") /\ cause' = "failed"
     \/ ack = "none" /\ StoppedChannel /\ Go("close") /\ cause' = "failed"
  /\ ack' = "none"
  /\ UNCHANGED <<run, turn, ctx, deadline, signal, emit, events, mutex, closed,
                 queue, hand, writer, outputErr, out, file, code>>
writeExecSessionHint ==
  /\ main = "hint"
  /\ \/ Go("begin") /\ UNCHANGED <<cause, writer>>
     \/ Fail("failed")
  /\ UNCHANGED <<run, turn, ctx, deadline, signal, emit, events, mutex, closed,
                 queue, hand, ack, outputErr, out, file, code>>

-----------------------------------------------------------------------------
(* The turn.  The session commits it, or ends it when something failed or  *)
(* its context ended; Ask returns after either.                            *)
Begin ==
  /\ main = "begin" /\ Go("ask")
  /\ turn' = "active"
  /\ UNCHANGED <<run, cause, ctx, deadline, signal, emit, events, mutex, closed,
                 wvars, file, code>>
TurnEnds(t, c, step) ==
  /\ main = "ask" /\ turn' = t /\ cause' = c /\ Go(step)
  /\ UNCHANGED <<run, ctx, deadline, signal, emit, events, mutex, closed, wvars, file, code>>
Report == IF format = "stream" THEN "mark" ELSE "report"
(* A final answer comes after every tool call has been answered. *)
Commit == (\A e \in Emitters : emit[e] = "idle") /\ TurnEnds("committed", "none", "save")
TurnFails == TurnEnds("ended", "failed", IF format = "text" THEN "close" ELSE Report)
(* At the end of the context the run may leave tool goroutines behind. *)
TurnCancelled == \E c \in {"cancelled", "timeout"} :
  /\ IF c = "cancelled" THEN ctx = "cancelled" ELSE deadline
  /\ TurnEnds("ended", c, IF format = "text" THEN "close" ELSE Report)

(* A tool starts or ends: the session records it while the turn is open,   *)
(* and hands it to emit afterwards (combinedEmit).                         *)
Observe(e) ==
  /\ format = "stream" /\ turn = "active"
  /\ emit[e] = "idle" /\ events[e] < MaxEvents
  /\ events' = [events EXCEPT ![e] = @ + 1]
  /\ emit' = [emit EXCEPT ![e] = "recorded"]
  /\ UNCHANGED <<run, main, cause, turn, ctx, deadline, signal, mutex, closed,
                 wvars, file, code>>
(* enqueue: stateMu is held while it waits for room. *)
Lock(e) ==
  /\ emit[e] = "recorded" /\ mutex = NoOne
  /\ IF closed THEN emit' = [emit EXCEPT ![e] = "idle"] /\ UNCHANGED mutex
     ELSE emit' = [emit EXCEPT ![e] = "select"] /\ mutex' = e
  /\ UNCHANGED <<run, main, cause, turn, ctx, deadline, signal, events, closed,
                 wvars, file, code>>
(* What ends the wait of an event besides room in the queue. *)
GivesUp == ctx = "cancelled" \/ StoppedChannel
Select(e) ==
  /\ emit[e] = "select"
  /\ \/ GivesUp /\ UNCHANGED queue
     \/ Len(queue) < Capacity /\ queue' = Append(queue, Activity)
  /\ emit' = [emit EXCEPT ![e] = "idle"] /\ mutex' = NoOne
  /\ UNCHANGED <<run, main, cause, turn, ctx, deadline, signal, events, closed,
                 hand, writer, ack, outputErr, out, file, code>>

-----------------------------------------------------------------------------
(* writeExecLastMessage: FILE is replaced by a rename, or not at all; a    *)
(* failure turns a committed turn's result into a failed one.              *)
SaveThen == IF format = "stream" THEN "mark" ELSE "report"
writeExecLastMessage ==
  /\ main = "save"
  /\ \/ /\ file' = IF saving THEN "new" ELSE file
        /\ Go(SaveThen) /\ UNCHANGED cause
     \/ /\ saving /\ UNCHANGED file
        /\ Go(IF format = "text" THEN "close" ELSE SaveThen) /\ cause' = "failed"
  /\ UNCHANGED <<run, turn, ctx, deadline, signal, emit, events, mutex, closed,
                 wvars, code>>
Status == CASE cause = "none" -> "completed"
            [] cause \in {"cancelled", "timeout"} -> "cancelled"
            [] OTHER -> "failed"
(* A write to stdout.  At a pipe whose reader is gone the Go runtime ends  *)
(* the program by SIGPIPE, since nothing in the code asks for that signal. *)
Killed == /\ stdout = "gone" /\ code' = "killed" /\ main' = "over"
          /\ UNCHANGED <<run, cause, turn, ctx, deadline, signal, emit, events, mutex,
                         closed, wvars, file>>
(* text and json: one write by the main goroutine. *)
writeExecJSON ==
  /\ main = "report"
  /\ \/ /\ stdout # "gone" /\ out' = Append(out, Result(Status)) /\ UNCHANGED cause
     \/ /\ stdout = "file" /\ cause' = "failed" /\ UNCHANGED out
  /\ Go("close")
  /\ UNCHANGED <<run, turn, ctx, deadline, signal, emit, events, mutex, closed,
                 queue, hand, writer, ack, outputErr, file, code>>
writeToBrokenPipe == main = "report" /\ Killed

(* stream-json: enqueueTerminal. *)
MarkTerminal ==
  /\ main = "mark" /\ mutex = NoOne
  /\ closed' = TRUE /\ Go("offer")
  /\ UNCHANGED <<run, cause, turn, ctx, deadline, signal, emit, events, mutex,
                 wvars, file, code>>
OfferTerminal ==
  /\ main = "offer" /\ mutex = NoOne
  /\ \/ StoppedChannel /\ Go("close") /\ cause' = "failed" /\ UNCHANGED queue
     \/ /\ Len(queue) < Capacity /\ queue' = Append(queue, Result(Status))
        /\ Go("await") /\ UNCHANGED cause
  /\ UNCHANGED <<run, turn, ctx, deadline, signal, emit, events, mutex, closed,
                 hand, writer, ack, outputErr, out, file, code>>
(* enqueueAndWait: the acknowledgement goes before the stopped channel; a  *)
(* failure to write replaces the cause.                                    *)
AwaitTerminal ==
  /\ main = "await"
  /\ \/ ack = "ok" /\ UNCHANGED cause
     \/ ack = "failed" /\ cause' = "failed"
     \/ ack = "none" /\ StoppedChannel /\ cause' = "failed"
  /\ Go("close") /\ ack' = "none"
  /\ UNCHANGED <<run, turn, ctx, deadline, signal, emit, events, mutex, closed,
                 queue, hand, writer, outputErr, out, file, code>>

-----------------------------------------------------------------------------
(* The writer goroutine. *)
Take ==
  /\ writer = "running" /\ hand = <<>> /\ queue # <<>>
  /\ hand' = <<Head(queue)>> /\ queue' = Tail(queue)
  /\ UNCHANGED <<run, main, cause, turn, ctx, deadline, signal, emit, events,
                 mutex, closed, writer, ack, outputErr, out, file, code>>
Waited == hand # <<>> /\ hand[1].event # "activity"
IsTerminal == hand[1].event = "result"
(* Fault: the channel is closed before the acknowledgement is sent. *)
AfterWriteStopping == IF IsTerminal THEN "stopped" ELSE "running"
(* Where the writer is when a record is written; on the terminal one the   *)
(* acknowledgement is sent first and the channel closed next.              *)
AfterWrite == IF IsTerminal THEN "ending" ELSE "running"
WriteLine ==
  /\ hand # <<>> /\ writer = "running" /\ stdout # "gone"
  /\ out' = Append(out, hand[1]) /\ hand' = <<>>
  /\ ack' = IF Waited /\ AfterWrite # "stopped" THEN "ok" ELSE ack
  /\ writer' = AfterWrite
  /\ UNCHANGED <<run, main, cause, turn, ctx, deadline, signal, emit, events,
                 mutex, closed, queue, outputErr, file, code>>
(* Fault: nobody cancels the turn. *)
ContextAfterFailureKept == ctx
(* finish(err): the context is cancelled and the channel closed, and then  *)
(* the record's sender is told.                                            *)
ContextAfterFailure == "cancelled"
WriteFails ==
  /\ hand # <<>> /\ writer = "running" /\ stdout = "file"
  /\ outputErr' = TRUE /\ writer' = "failing" /\ ctx' = ContextAfterFailure
  /\ UNCHANGED <<run, main, cause, turn, deadline, signal, emit, events, mutex,
                 closed, queue, hand, ack, out, file, code>>
AckFailure ==
  /\ writer = "failing" /\ writer' = "stopped" /\ hand' = <<>>
  /\ ack' = IF Waited THEN "failed" ELSE ack
  /\ UNCHANGED <<run, main, cause, turn, ctx, deadline, signal, emit, events,
                 mutex, closed, queue, outputErr, out, file, code>>
FinishWriter ==
  /\ writer = "ending" /\ writer' = "stopped"
  /\ UNCHANGED <<run, main, cause, turn, ctx, deadline, signal, emit, events,
                 mutex, closed, queue, hand, ack, outputErr, out, file, code>>
StreamToBrokenPipe == hand # <<>> /\ writer = "running" /\ Killed

-----------------------------------------------------------------------------
(* Close of the runtime, then the exit: a SIGTERM marks a run that its     *)
(* cancellation ended.                                                     *)
CloseRuntime ==
  /\ main = "close" /\ Go("exit")
  /\ \/ UNCHANGED cause
     \/ cause = "none" /\ cause' = "failed"
  /\ UNCHANGED <<run, turn, ctx, deadline, signal, emit, events, mutex, closed,
                 wvars, file, code>>
Exit ==
  /\ main = "exit" /\ Go("over")
  /\ code' = CASE cause = "none" -> "0"
               [] cause = "cancelled" /\ signal = "TERM" /\ ctx = "cancelled" -> "143"
               [] OTHER -> "1"
  /\ UNCHANGED <<run, cause, turn, ctx, deadline, signal, emit, events, mutex,
                 closed, wvars, file>>

(* The surroundings: a signal while newExecSignalContext listens, the      *)
(* turn's time limit, and the reader that goes.                            *)
Listening == main \notin {"input", "exit", "over"} /\ cause # "input"
Caught(s) ==
  /\ Listening /\ signal = "none" /\ ctx = "live"
  /\ signal' = s /\ ctx' = "cancelled"
  /\ UNCHANGED <<run, main, cause, turn, deadline, emit, events, mutex, closed,
                 wvars, file, code>>
DeadlinePasses ==
  /\ turn = "active" /\ ~deadline /\ deadline' = TRUE
  /\ UNCHANGED <<run, main, cause, turn, ctx, signal, emit, events, mutex, closed,
                 wvars, file, code>>
ReaderGoes ==
  /\ stdout = "pipe" /\ main # "over" /\ stdout' = "gone"
  /\ UNCHANGED <<format, saving, main, cause, turn, ctx, deadline, signal, emit,
                 events, mutex, closed, wvars, file, code>>
Ended == main = "over" /\ UNCHANGED xvars

Main == readExecPrompt \/ openSession \/ Hello \/ Greeted \/ writeExecSessionHint
        \/ Begin \/ writeExecLastMessage \/ writeExecJSON \/ writeToBrokenPipe
        \/ MarkTerminal \/ OfferTerminal \/ AwaitTerminal \/ CloseRuntime \/ Exit
Writer == Take \/ WriteLine \/ WriteFails \/ AckFailure \/ FinishWriter \/ StreamToBrokenPipe
Emitter(e) == Lock(e) \/ Select(e)
ExecNext ==
  IF main = "over" THEN Ended ELSE
  \/ Main \/ Writer \/ Commit \/ TurnFails \/ TurnCancelled
  \/ \E e \in Emitters : Observe(e) \/ Emitter(e)
  \/ \E s \in {"INT", "TERM"} : Caught(s)
  \/ DeadlinePasses \/ ReaderGoes

(* Goroutines run, a mutex is handed on to who waits for it, the reader    *)
(* reads or goes, and the session ends the turn of a cancelled context,    *)
(* which waits for the tool goroutines in the worst case.                  *)
ReturnsFromAsk == (\A e \in Emitters : emit[e] = "idle") /\ TurnCancelled
Fairness ==
  /\ WF_xvars(Main) /\ SF_xvars(MarkTerminal) /\ SF_xvars(OfferTerminal)
  /\ WF_xvars(Writer) /\ SF_xvars(ReturnsFromAsk)
  /\ \A e \in Emitters : SF_xvars(Lock(e)) /\ WF_xvars(Select(e))
ExecSpec == ExecInit /\ [][ExecNext]_xvars /\ Fairness

-----------------------------------------------------------------------------
Reported(record) == out # <<>> /\ out[Len(out)] = record

(* What a result says is so: completed means that the turn is in the       *)
(* ledger and FILE is replaced; failed and cancelled that FILE is as it    *)
(* was, as the command's help promises; it is the last record, and alone.  *)
ResultIsTrue ==
  /\ file = "new" => turn = "committed"
  /\ \A n \in 1..Len(out) : out[n].event = "result" =>
       /\ n = Len(out)
       /\ IF out[n].status = "completed"
          THEN turn = "committed" /\ (saving => file = "new")
          ELSE file = "old"

(* No turn of a stream starts before its first record is on stdout, so a   *)
(* reader that was never there cannot leave a turn behind.                 *)
AnnouncedFirst ==
  format = "stream" /\ turn # "none" => out # <<>> /\ out[1] = Started

(* The exit code agrees with stdout: success has reported the completed    *)
(* turn; a result that was written is not taken for an output that failed, *)
(* though the writer stops just then; and no command that ends by itself   *)
(* leaves its turn open.                                                   *)
ExitIsTrue ==
  /\ code = "0" => Reported(Result("completed"))
  /\ ~(main = "close" /\ cause = "failed" /\ Reported(Result("completed")))
  /\ code \in {"0", "1", "143"} => turn # "active"

(* What the caller reads of a run is what happened: the three above.       *)
ReportIsTrue == ResultIsTrue /\ AnnouncedFirst /\ ExitIsTrue

(* A signal, the time limit or a failing stdout ends the command, though   *)
(* tool goroutines wait for room in the queue with the lock in hand.       *)
EndsWhenCancelled ==
  (ctx = "cancelled" \/ deadline \/ outputErr) ~> main = "over"

(* run_exec_stream.go: a failed output path cancels the active durable     *)
(* turn, so a broken pipe cannot leave an active turn in the ledger.       *)
BrokenPipeClosesTurn == main = "over" => turn # "active"
==============================================================================
