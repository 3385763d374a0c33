----------------------------- MODULE TurnQueue ------------------------------
(***************************************************************************)
(* internal/tui, internal/chat/steer.go: the user interface's goroutine    *)
(* (composer, follow-up queue, interruption), the goroutine of the running *)
(* turn with its steer mailbox, and the pump that carries the turn's       *)
(* events and its completion back over two channels.                       *)
(*                                                                         *)
(* A message is the sequence of the texts in it (the composer joins lines);*)
(* the ledger is the committed turns, of which SessionContext has the      *)
(* store's side.  Streamed text is one event, the answer, sent before the  *)
(* model's final response returns.  Approvals, background agents and       *)
(* slash commands that change no state here are left out.                  *)
(*                                                                         *)
(* A definition marked "Fault" is a plausible bug in the one after it and  *)
(* used by no action.                                                      *)
(***************************************************************************)
EXTENDS Naturals, Sequences, SequencesExt, FiniteSets

CONSTANTS Texts,       \* what the user types, each once
          LocalTexts,  \* unknown slash commands: queued, but start no turn
          MaxQueue,    \* maxQueue
          Capacity     \* capacity of the event channel

ASSUME QueueAssumption ==
  /\ IsFiniteSet(Texts)
  /\ LocalTexts \subseteq Texts
  /\ MaxQueue \in Nat \ {0}
  /\ Capacity \in Nat \ {0}

VARIABLES
  mode, queue, paused,   \* the model's fields
  composer, typed,       \* texts in the composer, texts typed so far
  admitted, seen,        \* turnSteerAdmissions, turnSteerConsumed
  shown,                 \* the answer's text is on the screen
  pending,               \* pendingTurnDone
  pump,                  \* what waitTurnEvent is doing: "off", "wait" or its message
  ask,                   \* the turn's goroutine
  ctx,                   \* the turn's context
  box,                   \* activeSteerTurn and its mailbox
  events, closed, done,  \* the two channels
  ledger                 \* the committed turns

ui    == <<mode, queue, paused, composer, typed>>
view  == <<admitted, seen, shown, pending, pump>>
wire  == <<events, closed, done>>
turn  == <<ask, ctx, box>>
queueVars  == <<ui, view, wire, turn, ledger>>

Errors   == {"cancelled", "deadline", "error"}
Outcomes == Errors \cup {"ok"}
NoAsk == [pc |-> "none", input |-> <<>>, outbox |-> <<>>, result |-> "none", committed |-> FALSE]
NoBox == [open |-> FALSE, pending |-> <<>>, consumed |-> <<>>]
\* Events of a turn: a steer's consumption by its sequence, the answer by 0.
Answer == 0
Off     == [at |-> "off", event |-> Answer, result |-> "none"]
Waiting == [Off EXCEPT !.at = "wait"]
Steers(inputs) == [i \in DOMAIN inputs |-> inputs[i].content]

Clear ==
  /\ ask' = NoAsk /\ ctx' = "none" /\ UNCHANGED box
  /\ admitted' = <<>> /\ seen' = {} /\ shown' = FALSE /\ pending' = "none" /\ pump' = Off
  /\ events' = <<>> /\ closed' = FALSE /\ done' = "none"
Idle == mode' = "idle" /\ Clear

QueueInit ==
  /\ mode = "idle" /\ queue = <<>> /\ paused = FALSE /\ composer = <<>> /\ typed = {}
  /\ ask = NoAsk /\ box = NoBox /\ ctx = "none"
  /\ admitted = <<>> /\ seen = {} /\ shown = FALSE /\ pending = "none" /\ pump = Off
  /\ events = <<>> /\ closed = FALSE /\ done = "none"
  /\ ledger = <<>>

-----------------------------------------------------------------------------
(* Starting turns.                                                         *)

StartTurn(input) ==
  /\ mode' = "busy"
  /\ ask' = [NoAsk EXCEPT !.pc = "starting", !.input = input]
  /\ ctx' = "live" /\ UNCHANGED box
  /\ admitted' = <<>> /\ seen' = {} /\ shown' = FALSE
  /\ pending' = "none" /\ pump' = Waiting
  /\ events' = <<>> /\ closed' = FALSE /\ done' = "none"

StartCompaction == mode' = "compacting" /\ Clear /\ UNCHANGED <<queue, paused>>

IsLocal(message) == Head(message) \in LocalTexts

\* The queue from its first message that starts a turn.
FromTurn(q) ==
  LET starts == {i \in DOMAIN q : ~IsLocal(q[i])}
  IN IF starts = {} THEN <<>> ELSE SubSeq(q, CHOOSE i \in starts : \A j \in starts : i <= j, Len(q))

\* drainQueue with queue q and pause p: local commands are consumed; a start
\* that fails before it is busy puts its message back and pauses.
DrainQueue(q, p) ==
  LET rest == FromTurn(q)
  IN \/ p /\ Idle /\ queue' = q /\ paused' = TRUE
     \/ ~p /\ rest = <<>> /\ Idle /\ queue' = <<>> /\ paused' = FALSE
     \/ ~p /\ rest # <<>> /\ StartTurn(Head(rest)) /\ queue' = Tail(rest) /\ paused' = FALSE
     \/ ~p /\ rest # <<>> /\ Idle /\ queue' = rest /\ paused' = TRUE

-----------------------------------------------------------------------------
(* The user.                                                               *)

Type(t) ==
  /\ t \notin typed
  /\ typed' = typed \cup {t} /\ composer' = Append(composer, t)
  /\ UNCHANGED <<mode, queue, paused, view, wire, turn, ledger>>

\* Enter while idle (submit): a local command only prints; a start may fail.
SubmitIdle ==
  /\ mode = "idle" /\ composer # <<>>
  /\ composer' = <<>>
  /\ \/ ~IsLocal(composer) /\ StartTurn(composer)
     \/ Idle
  /\ UNCHANGED <<queue, paused, typed, ledger>>

QueueHasRoom == Len(queue) < MaxQueue

\* Enter while working (queueWhileBusy): a full queue leaves the draft.
QueueWhileBusy ==
  /\ mode # "idle" /\ composer # <<>>
  /\ QueueHasRoom
  /\ queue' = Append(queue, composer) /\ composer' = <<>>
  /\ UNCHANGED <<mode, paused, typed, view, wire, turn, ledger>>

\* ActiveTurnID and SteerWithReceipt, under the session's lock.
Accepts == mode = "busy" /\ box.open /\ ctx = "live"

Steer ==
  /\ Accepts /\ composer # <<>>
  /\ LET accepted == [sequence |-> Len(admitted) + 1, content |-> composer]
     IN /\ box' = [box EXCEPT !.pending = Append(@, accepted)]
        /\ admitted' = Append(admitted, composer)
  /\ composer' = <<>>
  /\ UNCHANGED <<mode, queue, paused, typed, seen, shown, pending, pump, wire, ask, ctx, ledger>>

\* Fault: the composer is emptied before the steer is refused.
SteerLost ==
  /\ mode = "busy" /\ box.open /\ ctx # "live" /\ composer # <<>>
  /\ box' = [box EXCEPT !.open = FALSE, !.pending = <<>>] /\ composer' = <<>>
  /\ UNCHANGED <<mode, queue, paused, typed, view, wire, ask, ctx, ledger>>
\* The context is done: SteerWithReceipt closes the mailbox and refuses.
SteerTooLate ==
  /\ mode = "busy" /\ box.open /\ ctx # "live" /\ composer # <<>>
  /\ box' = [box EXCEPT !.open = FALSE, !.pending = <<>>]
  /\ UNCHANGED <<ui, view, wire, ask, ctx, ledger>>

InterruptTurn ==
  /\ mode = "busy" /\ ctx = "live"
  /\ ctx' = "cancelled"
  /\ UNCHANGED <<ui, view, wire, ask, box, ledger>>

\* A pause ends with the last message.
Unpaused(q) == paused /\ q # <<>>

\* /queue clear.
ClearQueue ==
  /\ queue # <<>>
  /\ queue' = <<>> /\ paused' = FALSE
  /\ UNCHANGED <<mode, composer, typed, view, wire, turn, ledger>>

\* /queue drop and the pane's x.
DropQueued(i) ==
  /\ i \in DOMAIN queue
  /\ queue' = RemoveAt(queue, i) /\ paused' = Unpaused(RemoveAt(queue, i))
  /\ UNCHANGED <<mode, composer, typed, view, wire, turn, ledger>>

\* /queue edit.
EditQueued(i, t) ==
  /\ i \in DOMAIN queue /\ t \notin typed
  /\ queue' = [queue EXCEPT ![i] = <<t>>] /\ typed' = typed \cup {t}
  /\ UNCHANGED <<mode, paused, composer, view, wire, turn, ledger>>

\* /queue resume.
ResumeQueue ==
  /\ mode = "idle" /\ (paused \/ queue # <<>>)
  /\ DrainQueue(queue, FALSE)
  /\ UNCHANGED <<composer, typed, ledger>>

\* The pane's Enter: the message goes to the front, the pause ends; a running
\* turn is interrupted, and its end starts the message.
SendNow(i) ==
  /\ i \in DOMAIN queue /\ mode # "compacting"
  /\ LET promoted == <<queue[i]>> \o RemoveAt(queue, i)
     IN \/ /\ mode = "busy"
           /\ queue' = promoted /\ paused' = FALSE
           /\ ctx' = IF ctx = "live" THEN "cancelled" ELSE ctx
           /\ UNCHANGED <<mode, view, wire, ask, box>>
        \/ mode = "idle" /\ DrainQueue(promoted, FALSE)
  /\ UNCHANGED <<composer, typed, ledger>>

\* /new, /clear, /resume, fork: resetSessionTransientState.
SwitchSession ==
  /\ mode = "idle"
  /\ queue' = <<>> /\ paused' = FALSE
  /\ UNCHANGED <<mode, composer, typed, view, wire, turn, ledger>>

Compact ==
  /\ mode = "idle"
  /\ StartCompaction
  /\ UNCHANGED <<composer, typed, ledger>>

\* Fault: the end of a compaction does not look at the queue.
OnlyFinishCompaction ==
  /\ mode = "compacting"
  /\ Idle /\ UNCHANGED <<queue, paused, composer, typed, ledger>>
\* finishCompaction, whatever the result.
FinishCompaction ==
  /\ mode = "compacting"
  /\ DrainQueue(queue, paused)
  /\ UNCHANGED <<composer, typed, ledger>>

-----------------------------------------------------------------------------
(* The turn's goroutine: AskWithEvents, then startTurn's completion.       *)

AskAt(pc) == mode = "busy" /\ ask.pc = pc /\ ask.outbox = <<>>
AskGoes(pc) == ask' = [ask EXCEPT !.pc = pc]
Returns(result) == ask' = [ask EXCEPT !.pc = "returned", !.result = result]
\* How an error comes out: turnTerminationError names the deadline, and after
\* a cancellation another error may come first.
Failures ==
  CASE ctx = "live"      -> {"error"}
    [] ctx = "cancelled" -> {"cancelled", "error"}
    [] ctx = "deadline"  -> {"deadline"}

\* WithTurnContext.
Deadline ==
  /\ mode = "busy" /\ ctx = "live"
  /\ ctx' = "deadline"
  /\ UNCHANGED <<ui, view, wire, ask, box, ledger>>

BeginTurn ==
  /\ AskAt("starting")
  /\ AskGoes("boundary") /\ box' = [NoBox EXCEPT !.open = TRUE]
  /\ UNCHANGED <<ui, view, wire, ctx, ledger>>

\* Admission of the turn or turn.started fails.
RefuseTurn ==
  /\ AskAt("starting")
  /\ \E result \in Failures : Returns(result)
  /\ UNCHANGED <<ui, view, wire, ctx, box, ledger>>

\* rewrite and TakeTurnSteers, before every call of the model.
TakeSteers ==
  /\ AskAt("boundary")
  /\ ask' = [ask EXCEPT !.pc = "calling", !.outbox = [i \in DOMAIN box.pending |-> box.pending[i].sequence]]
  /\ box' = [box EXCEPT !.pending = <<>>, !.consumed = @ \o box.pending]
  /\ UNCHANGED <<ui, view, wire, ctx, ledger>>

SendEvent ==
  /\ events' = Append(events, Head(ask.outbox))
  /\ Len(events) < Capacity
\* emitFromTurnEvent: blocks while the channel is full, unless the context is
\* done; then the event may be dropped.
EmitEvent ==
  /\ mode = "busy" /\ ask.outbox # <<>>
  /\ SendEvent \/ (ctx # "live" /\ UNCHANGED events)
  /\ ask' = [ask EXCEPT !.outbox = Tail(@)]
  /\ UNCHANGED <<ui, view, closed, done, ctx, box, ledger>>

\* The model asks for tools, and they run.
CallTools ==
  /\ AskAt("calling") /\ ctx = "live"
  /\ AskGoes("boundary")
  /\ UNCHANGED <<ui, view, wire, ctx, box, ledger>>

\* The final response has been streamed.
ModelAnswers ==
  /\ AskAt("calling")
  /\ ask' = [ask EXCEPT !.pc = "answered", !.outbox = <<Answer>>]
  /\ UNCHANGED <<ui, view, wire, ctx, box, ledger>>

ModelFails ==
  /\ AskAt("boundary") \/ AskAt("calling")
  /\ AskGoes("failing")
  /\ UNCHANGED <<ui, view, wire, ctx, box, ledger>>

\* closeSteering(false) and the end of the turn in the ledger.
DiscardSteering ==
  /\ AskAt("failing")
  /\ box' = NoBox
  /\ \E result \in Failures : Returns(result)
  /\ UNCHANGED <<ui, view, wire, ctx, ledger>>

\* closeSteering(true): what is still in the mailbox is too late.
CloseSteering ==
  /\ AskAt("answered")
  /\ AskGoes("closed") /\ box' = [box EXCEPT !.open = FALSE, !.pending = <<>>]
  /\ UNCHANGED <<ui, view, wire, ctx, ledger>>

\* The last look at the context; after it a cancellation is too late.
ReachBoundary ==
  /\ AskAt("closed") /\ ctx = "live"
  /\ AskGoes("committing")
  /\ UNCHANGED <<ui, view, wire, ctx, box, ledger>>

\* The context is done, an event was not recorded, or the response is invalid.
RejectAnswer ==
  /\ AskAt("closed")
  /\ box' = NoBox
  /\ \E result \in Failures : Returns(result)
  /\ UNCHANGED <<ui, view, wire, ctx, ledger>>

Delivered == Append(ledger, [input |-> ask.input, steers |-> Steers(box.consumed)])

Commit ==
  /\ AskAt("committing")
  /\ ledger' = Delivered
  /\ ask' = [ask EXCEPT !.pc = "returned", !.result = "ok", !.committed = TRUE]
  /\ box' = NoBox
  /\ UNCHANGED <<ui, view, wire, ctx>>

\* The commit reports an error; its event may be durable.  Either way the
\* session forgets the mailbox (clearSteerTurn).
CommitFails ==
  /\ AskAt("committing")
  /\ \E durable \in BOOLEAN :
       /\ ledger' = IF durable THEN Delivered ELSE ledger
       /\ ask' = [ask EXCEPT !.pc = "returned", !.result = "error", !.committed = durable]
  /\ box' = NoBox
  /\ UNCHANGED <<ui, view, wire, ctx>>

\* startTurn: the turn's deadline overrides the result; events are closed
\* before the completion is sent.
CloseEvents ==
  /\ AskAt("returned")
  /\ ask' = [ask EXCEPT !.pc = "reporting",
                        !.result = IF ctx = "deadline" THEN "deadline" ELSE @]
  /\ closed' = TRUE
  /\ UNCHANGED <<ui, view, events, done, ctx, box, ledger>>

SendDone ==
  /\ AskAt("reporting")
  /\ done' = ask.result /\ AskGoes("over")
  /\ UNCHANGED <<ui, view, events, closed, ctx, box, ledger>>

-----------------------------------------------------------------------------
(* The pump (waitTurnEvent) and what Update does with its messages.        *)

ReceiveEvent ==
  /\ events # <<>>
  /\ pump' = [Off EXCEPT !.at = "event", !.event = Head(events)]
  /\ events' = Tail(events) /\ UNCHANGED done
ReceiveDone ==
  /\ pending = "none" /\ done # "none"
  /\ pump' = [Off EXCEPT !.at = "done", !.result = done]
  /\ done' = "none" /\ UNCHANGED events
\* Fault: completion does not wait for the buffered events.
RepeatAtOnce ==
  /\ pending # "none"
  /\ pump' = [Off EXCEPT !.at = "done", !.result = pending]
  /\ UNCHANGED <<events, done>>
\* A completion that was kept comes again when the closed channel is empty.
RepeatDone ==
  /\ pending # "none" /\ closed /\ events = <<>>
  /\ pump' = [Off EXCEPT !.at = "done", !.result = pending]
  /\ UNCHANGED <<events, done>>

Receive ==
  /\ pump = Waiting
  /\ ReceiveEvent \/ ReceiveDone \/ RepeatDone
  /\ UNCHANGED <<ui, admitted, seen, shown, pending, closed, turn, ledger>>

\* turnSteerConsumedMsg and turnChunkMsg; nextEventCmd arms the pump again.
Show ==
  /\ pump.at = "event"
  /\ IF pump.event = Answer THEN shown' = TRUE /\ UNCHANGED seen
     ELSE seen' = seen \cup {pump.event} /\ UNCHANGED shown
  /\ pump' = Waiting
  /\ UNCHANGED <<ui, admitted, pending, wire, turn, ledger>>

\* The first turnDoneMsg is kept until the events are drained.
KeepDone ==
  /\ pump.at = "done" /\ pending = "none"
  /\ pending' = pump.result /\ pump' = Waiting
  /\ UNCHANGED <<ui, admitted, seen, shown, wire, turn, ledger>>

Settling == pump.at = "done" /\ pending # "none"

\* restoreInterruptedSteers: what was not seen to reach the model, in order.
Restored ==
  FlattenSeq([i \in DOMAIN admitted |-> IF i \in seen THEN <<>> ELSE admitted[i]])
BringsBack == pending = "cancelled"
Pauses == pending \notin {"ok", "cancelled"} /\ queue # <<>>

\* finishTurn.  After a success NeedsAutoCompaction may come before the queue.
FinishTurn ==
  /\ Settling
  /\ composer' = IF BringsBack THEN composer \o Restored ELSE composer
  /\ \/ DrainQueue(queue, paused \/ Pauses)
     \/ pending = "ok" /\ StartCompaction
  /\ UNCHANGED <<typed, ledger>>

-----------------------------------------------------------------------------

UserActs ==
  \/ \E t \in Texts : Type(t) \/ \E i \in DOMAIN queue : EditQueued(i, t)
  \/ \E i \in DOMAIN queue : DropQueued(i) \/ SendNow(i)
  \/ SubmitIdle \/ QueueWhileBusy \/ Steer \/ SteerTooLate \/ InterruptTurn
  \/ ClearQueue \/ ResumeQueue \/ SwitchSession \/ Compact

\* What the turn's goroutine does by itself, and what it does when the model
\* or a tool has answered.
Continue ==
  \/ BeginTurn \/ RefuseTurn \/ TakeSteers \/ EmitEvent \/ DiscardSteering
  \/ CloseSteering \/ ReachBoundary \/ RejectAnswer \/ Commit \/ CommitFails
  \/ CloseEvents \/ SendDone
Respond == CallTools \/ ModelAnswers \/ ModelFails

\* Update and the pump.
Screen == Receive \/ Show \/ KeepDone \/ FinishTurn

QueueNext == UserActs \/ Continue \/ Respond \/ Deadline \/ Screen \/ FinishCompaction
QueueSpec == QueueInit /\ [][QueueNext]_queueVars

\* The turn's goroutine and the interface's loop run, calls whose context is done
\* return, a compaction ends, and time passes.
Cut == ctx # "live" /\ ModelFails
QueueFairness ==
  /\ WF_queueVars(Continue \/ Cut)
  /\ WF_queueVars(Screen \/ FinishCompaction)
  /\ WF_queueVars(Deadline)
FairQueueSpec == QueueSpec /\ QueueFairness

-----------------------------------------------------------------------------
(* Properties.                                                             *)

Messages == UNION {[1 .. n -> Texts] : n \in 1 .. Cardinality(Texts)}
Inputs   == [sequence : 1 .. Cardinality(Texts), content : Messages]

\* Every variable has its type; the queue and the channel keep their limits.
QueueTypeOK ==
  /\ mode \in {"idle", "busy", "compacting"}
  /\ queue \in Seq(Messages) /\ Len(queue) <= MaxQueue /\ paused \in BOOLEAN
  /\ composer \in Seq(Texts) /\ typed \subseteq Texts
  /\ admitted \in Seq(Messages) /\ seen \subseteq DOMAIN admitted /\ shown \in BOOLEAN
  /\ pending \in Outcomes \cup {"none"} /\ done \in Outcomes \cup {"none"}
  /\ pump \in [at : {"off", "wait", "event", "done"}, event : Nat, result : Outcomes \cup {"none"}]
  /\ ask \in [pc : {"none", "starting", "boundary", "calling", "failing", "answered", "closed",
                    "committing", "returned", "reporting", "over"},
               input : Messages \cup {<<>>}, outbox : Seq(Nat),
               result : Outcomes \cup {"none"}, committed : BOOLEAN]
  /\ ctx \in {"none", "live", "cancelled", "deadline"}
  /\ box \in [open : BOOLEAN, pending : Seq(Inputs), consumed : Seq(Inputs)]
  /\ events \in Seq(Nat) /\ Len(events) <= Capacity /\ closed \in BOOLEAN
  /\ ledger \in Seq([input : Messages, steers : Seq(Messages)])

\* drainQueue, finishTurn, /queue drop: follow-ups wait for an operation or for
\* the user's decision and for nothing else, and a pause has something to
\* decide about; a pause left behind would hold back follow-ups to come.
NothingWaitsInVain ==
  /\ mode = "idle" /\ queue # <<>> => paused
  /\ paused => queue # <<>>

\* Where a text is: once in all of the composer, the queue, the turn that is
\* not in the ledger, and the ledger.
Flat(messages) == FlattenSeq(messages)
Everything ==
  composer \o Flat(queue)
    \o (IF ask.committed THEN <<>> ELSE ask.input \o Flat(Steers(box.consumed)))
    \o Flat(Steers(box.pending))
    \o Flat([i \in DOMAIN ledger |-> ledger[i].input \o Flat(ledger[i].steers)])
\* enqueue, steer, restoreInterruptedSteers, drainQueue: nothing the user typed
\* is sent twice, whatever is interrupted, restored, promoted or put back.
NothingIsSentTwice ==
  \A t \in Texts : Cardinality({i \in DOMAIN Everything : Everything[i] = t}) <= 1

\* settleSteerFeedback, waitTurnEvent: when a turn ends in success the ledger's
\* last turn is this one, its steers are those the user saw go to the model, in
\* the order of their admission, and the answer has been shown.
SuccessIsWhatWasShown ==
  Settling /\ pending = "ok" =>
    /\ ledger # <<>> /\ shown
    /\ Last(ledger).input = ask.input
    /\ LET steers == Last(ledger).steers
       IN  seen = DOMAIN steers /\ steers = SubSeq(admitted, 1, Len(steers))

\* Where a text may be, and what the user is told of it: the three above, and
\* the types and limits.
TextsAreAccounted ==
  QueueTypeOK /\ NothingWaitsInVain /\ NothingIsSentTwice /\ SuccessIsWhatWasShown

\* askThread: a delivery that was finished stays one; what ends the context
\* after the commit belongs to the next interaction (session.go:1101).
FinishedDeliveryStands ==
  [][ask.result = "ok" => ask'.result \in {"ok", "none"}]_queueVars

\* The promise to the user (Delivery), of which this is the implementation.
InLedger(t) == \E i \in DOMAIN ledger :
  t \in ToSet(ledger[i].input \o Flat(ledger[i].steers))
Fate(t) ==
  IF t \notin typed THEN "new"
  ELSE IF InLedger(t) THEN "delivered"
  ELSE IF t \in ToSet(composer) THEN "draft"
  ELSE IF t \in ToSet(Flat(queue)) THEN "waiting"
  ELSE IF t \in ToSet(ask.input) THEN "running"
  ELSE IF t \in ToSet(Flat(admitted)) THEN "steering"
  ELSE "gone"
Promise == INSTANCE Delivery WITH fate <- [t \in Texts |-> Fate(t)]
\* Turns are delivered with their steers and as a whole; what was delivered or
\* given up never comes back.
KeepsPromise == Promise!Spec

\* emitFromTurnEvent, waitTurnEvent, finishTurn: a turn that was started ends on
\* the screen, even if the channel is full and the model never answers.
TurnsEnd == mode = "busy" ~> Settling
\* drainQueue: follow-ups do not wait for ever.  Again and again the queue is
\* empty or waits for the user's decision, whatever is typed and promoted.
FollowUpsMove == []<>(paused \/ queue = <<>>)
=============================================================================
