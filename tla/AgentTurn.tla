----------------------------- MODULE AgentTurn -----------------------------
(***************************************************************************)
(* One turn of the agent (internal/agent/react.go) under the turn's budget *)
(* (internal/runtimeguard/turn.go, internal/tools/runtime_guard.go) and    *)
(* beside the session's recorder of tool calls and usage.                  *)
(*                                                                         *)
(* A model request either answers or asks for a batch of tool calls; the   *)
(* batch is admitted as a whole, its permitted calls run in parallel, and  *)
(* their results go into the next request.  When the steps are used up one *)
(* last request without tools is streamed to the reader as it arrives.     *)
(* The turn may be cancelled, or run into its deadline, at any moment.     *)
(*                                                                         *)
(* A call is reduced to its id and to its canonical key (name and          *)
(* arguments); texts to whether they are there.  Steers are the subject of *)
(* TurnQueue, the ledger that the recorder writes to that of ThreadLedger. *)
(*                                                                         *)
(* A definition marked "Fault" is a plausible bug in the one after it and  *)
(* used by no action.                                                      *)
(***************************************************************************)
EXTENDS Naturals, Sequences, FiniteSets

CONSTANTS Keys,           \* canonical tool name and arguments
          Kind,           \* Kind[k]: "look", "change", "plan" or "unknown"
          MaxModelSteps,  \* tool-enabled requests of a turn
          MaxToolCalls,   \* tool calls of a turn
          MaxRepeats,     \* equivalent calls until a state change
          MaxBatch        \* bound on the calls of one response

Kinds == {"look", "change", "plan", "unknown"}

\* What normalizeTurnOptions makes of any options: positive limits, and no more
\* repetitions than calls.
NormalizedTurnOptions ==
  /\ MaxModelSteps \in Nat \ {0}
  /\ MaxToolCalls \in Nat \ {0}
  /\ MaxRepeats \in 1..MaxToolCalls
TurnAssumption ==
  /\ Kind \in [Keys -> Kinds]
  /\ MaxBatch \in Nat \ {0}
  /\ NormalizedTurnOptions

VARIABLES
  loop,       \* step, asking, deciding, running, final, answering, done
  outcome,    \* none, answered or failed
  ctx,        \* the turn's context: live or ended
  steps,      \* TurnBudget.modelSteps, and the loop's step
  finals,     \* forced final requests, TurnBudget.finalResponseAcquired
  toolCalls,  \* TurnBudget.toolCalls
  repeats,    \* TurnBudget.equivalentToolCalls
  admitted,   \* TurnBudget.admittedToolCalls: id to key, allowed, started
  batch,      \* calls of the response: id, key
  decision,   \* toolBatchAdmission of each call
  call,       \* where each call is
  results,    \* tool messages of the batch, in the order of its calls
  ids,        \* ids given so far
  ledger,     \* the recorder's calls: id to started or completed
  lost,       \* threadTurnRecorder.failure
  opened,     \* model streams opened
  reported,   \* usage events emitted
  charged,    \* usage records written
  stream,     \* what the session reads from
  shown,      \* what it passed on to the reader
  since,      \* history: executions of a key since the last state change
  ran         \* history: executions of an id

budget   == <<steps, finals, toolCalls, repeats, admitted>>
calls    == <<batch, decision, call, results, ids>>
recorder == <<ledger, lost, charged>>
reader   == <<stream, shown>>
usage    == <<opened, reported>>
ghosts   == <<since, ran>>
avars    == <<loop, outcome, ctx, budget, calls, recorder, reader, usage, ghosts>>

NoStream == [source |-> "none", text |-> FALSE, ended |-> "no", fallback |-> "none"]

AgentInit ==
  /\ loop = "step" /\ outcome = "none" /\ ctx = "live"
  /\ steps = 0 /\ finals = 0 /\ toolCalls = 0
  /\ repeats = [k \in Keys |-> 0] /\ admitted = <<>>
  /\ batch = <<>> /\ decision = <<>> /\ call = <<>> /\ results = <<>> /\ ids = 0
  /\ ledger = <<>> /\ lost = FALSE /\ charged = 0
  /\ opened = 0 /\ reported = 0
  /\ stream = NoStream /\ shown = <<>>
  /\ since = [k \in Keys |-> 0] /\ ran = <<>>

Finish(how) == loop' = "done" /\ outcome' = how

-----------------------------------------------------------------------------
(* The recorder *)

\* record(ToolStart): an id the turn has seen, or a failed write, fails it.
Records(l, id) == ~lost /\ id \notin DOMAIN l
Put(f, id, v)  == [i \in DOMAIN f \cup {id} |-> IF i = id THEN v ELSE f[i]]

\* recordUsage: nothing is written once the recorder failed, and the write
\* itself may fail.
Charge ==
  /\ reported' = reported + 1
  /\ \/ ~lost /\ charged' = charged + 1 /\ UNCHANGED lost
     \/ lost' = TRUE /\ UNCHANGED charged

-----------------------------------------------------------------------------
(* The budget *)

\* update_plan beside another call: the model is to ask one at a time.
Mixed == Len(batch) > 1 /\ \E i \in 1..Len(batch) : Kind[batch[i].key] = "plan"
Known == {i \in 1..Len(batch) : Kind[batch[i].key] # "unknown"}

\* Counts and slots change together or, when the batch is too large, not.
CountBatch(counts, allowed) ==
  IF allowed > MaxToolCalls - toolCalls
  THEN UNCHANGED <<toolCalls, repeats>>
  ELSE toolCalls' = toolCalls + allowed /\ repeats' = counts

\* A call of the batch stays below the limit for its key, with the calls of
\* that key before it.
Before(i) == {j \in Known : j < i /\ batch[j].key = batch[i].key}
Repeatable(i) == repeats[batch[i].key] + Cardinality(Before(i)) < MaxRepeats

\* admitToolBatch on calls with ids not admitted before.
AdmitCalls ==
  LET within  == {i \in Known : Repeatable(i)}
      allowed == IF Cardinality(within) <= MaxToolCalls - toolCalls THEN within ELSE {}
  IN /\ CountBatch([k \in Keys |-> repeats[k] + Cardinality({i \in within : batch[i].key = k})],
                   Cardinality(within))
     /\ admitted' = [id \in DOMAIN admitted \cup {batch[i].id : i \in Known} |->
                       IF id \in DOMAIN admitted THEN admitted[id]
                       ELSE LET i == CHOOSE i \in Known : batch[i].id = id
                            IN [key |-> batch[i].key, allowed |-> i \in allowed,
                                started |-> FALSE]]

\* Every id of the batch is new and given once.
FreshIds ==
  /\ \A i \in Known : batch[i].id \notin DOMAIN admitted
  /\ \A i, j \in Known : batch[i].id = batch[j].id => i = j

\* Fault: a framework that runs a call twice runs its tool twice.
StartsAgain(id) == admitted[id].allowed

\* startToolCall for a call of an admitted batch.
MayStart(id) == admitted[id].allowed /\ ~admitted[id].started

\* markRuntimeStateChange after a success.
MarkStateChanged(k) ==
  IF Kind[k] = "change" THEN repeats' = [j \in Keys |-> 0] ELSE UNCHANGED repeats

-----------------------------------------------------------------------------
(* The loop *)

\* Top of runTurn's loop: a step is acquired and its request admitted, or the
\* steps are used up, or the turn is over.
AcquireStep ==
  /\ loop = "step"
  /\ \/ /\ steps = MaxModelSteps
        /\ loop' = "final" /\ UNCHANGED <<steps, outcome>>
     \/ /\ steps < MaxModelSteps /\ ctx # "live"
        /\ Finish("failed") /\ UNCHANGED steps
     \/ /\ steps < MaxModelSteps /\ ctx = "live"
        /\ steps' = steps + 1
        /\ \/ loop' = "asking" /\ UNCHANGED outcome
           \/ Finish("failed")                 \* the request exceeds the window
  /\ UNCHANGED <<ctx, finals, toolCalls, repeats, admitted, calls, recorder, reader, usage,
                 ghosts>>

\* The provider opens no stream: nothing is reported.
RequestFails ==
  /\ loop = "asking" /\ Finish("failed")
  /\ UNCHANGED <<ctx, budget, calls, recorder, reader, usage, ghosts>>

\* collectModelResponse reads the whole response before any of it is shown.
StreamBreaks ==
  /\ loop = "asking"
  /\ opened' = opened + 1 /\ Charge /\ Finish("failed")
  /\ UNCHANGED <<ctx, budget, calls, ledger, reader, ghosts>>

ModelAnswers ==
  /\ loop = "asking"
  /\ opened' = opened + 1 /\ Charge
  /\ loop' = "answering"
  /\ \E text \in BOOLEAN : stream' = [NoStream EXCEPT !.source = "collected", !.text = text]
  /\ UNCHANGED <<outcome, ctx, budget, calls, ledger, shown, ghosts>>

\* withToolCallIDs: a call gets a new id; a provider may also repeat the id of
\* an earlier call.
ModelAsks ==
  /\ loop = "asking"
  /\ opened' = opened + 1 /\ Charge
  /\ \E n \in 1..MaxBatch : \E keys \in [1..n -> Keys] : \E again \in {0} \cup (1..ids) :
       /\ batch' = [i \in 1..n |-> [key |-> keys[i],
                                    id |-> IF i = n /\ again > 0 THEN again ELSE ids + i]]
       /\ ids' = ids + n
  /\ decision' = <<>> /\ call' = <<>> /\ results' = <<>>
  /\ loop' = "deciding"
  /\ UNCHANGED <<outcome, ctx, budget, ledger, reader, ghosts>>

AskModel == RequestFails \/ StreamBreaks \/ ModelAnswers \/ ModelAsks

Decide(i) ==
  IF Mixed THEN "sequential"
  ELSE IF Kind[batch[i].key] = "unknown" THEN "unknown"
  ELSE IF admitted'[batch[i].id].allowed THEN "allowed" ELSE "denied"

Denied == {i \in 1..Len(batch) : decision'[i] # "allowed"}

\* emitDeniedToolLifecycle, in order: the first id that was seen before, or
\* the first write that fails, ends the recording.
RecordDenied ==
  \E n \in 0..Len(batch) :
    LET done == {i \in Denied : i <= n}
        all  == done = Denied
    IN /\ (lost => done = {}) /\ (n < Len(batch) => n + 1 \in Denied)
       /\ \A i \in done : /\ batch[i].id \notin DOMAIN ledger
                          /\ \A j \in done : batch[i].id = batch[j].id => i = j
       /\ ledger' = [id \in DOMAIN ledger \cup {batch[i].id : i \in done} |->
                       IF id \in DOMAIN ledger THEN ledger[id] ELSE "completed"]
       /\ lost' = (lost \/ ~all)

\* admitToolBatch and the first half of invokeAdmittedToolBatch: denied calls
\* are answered here, the others are handed to the tools node.
AdmitBatch ==
  /\ loop = "deciding"
  /\ \/ /\ ~Mixed /\ Known # {} /\ (ctx # "live" \/ ~FreshIds)
        /\ Finish("failed")
        /\ UNCHANGED <<toolCalls, repeats, admitted, decision, call, ledger, lost>>
     \/ /\ \/ (Mixed \/ Known = {}) /\ UNCHANGED <<toolCalls, repeats, admitted>>
           \/ /\ ~Mixed /\ Known # {} /\ ctx = "live" /\ FreshIds
              /\ AdmitCalls
        /\ decision' = [i \in 1..Len(batch) |-> Decide(i)]
        /\ call' = [i \in 1..Len(batch) |-> IF i \in Denied THEN "denied" ELSE "waiting"]
        /\ RecordDenied
        /\ loop' = "running" /\ UNCHANGED outcome
  /\ UNCHANGED <<ctx, steps, finals, batch, results, ids, charged, reader, usage, ghosts>>

-----------------------------------------------------------------------------
(* The calls of a batch, in parallel *)

\* A recorded start whose id was seen before, or whose write fails, fails the
\* recorder; the tool runs all the same.
RecordStart(id) ==
  \/ Records(ledger, id) /\ ledger' = Put(ledger, id, "started") /\ UNCHANGED lost
  \/ lost' = TRUE /\ UNCHANGED ledger

\* An end without a start in the ledger records both.
RecordEnd(id) ==
  \/ /\ ~lost /\ (id \in DOMAIN ledger => ledger[id] = "started")
     /\ ledger' = Put(ledger, id, "completed") /\ UNCHANGED lost
  \/ lost' = TRUE /\ UNCHANGED ledger

\* runtimeGuardedTool.InvokableRun up to the tool itself.
StartCall(i) ==
  /\ loop = "running" /\ call[i] = "waiting" /\ RecordStart(batch[i].id)
  /\ \/ /\ ctx # "live"
        /\ call' = [call EXCEPT ![i] = "stopping"] /\ UNCHANGED <<admitted, ghosts>>
     \/ /\ ctx = "live" /\ MayStart(batch[i].id)
        /\ call' = [call EXCEPT ![i] = "running"]
        /\ admitted' = [admitted EXCEPT ![batch[i].id].started = TRUE]
        /\ since' = [since EXCEPT ![batch[i].key] = @ + 1]
        /\ ran' = Put(ran, batch[i].id, IF batch[i].id \in DOMAIN ran THEN ran[batch[i].id] + 1
                                        ELSE 1)
  /\ UNCHANGED <<loop, outcome, ctx, steps, finals, toolCalls, repeats, batch, decision,
                 results, ids, charged, reader, usage>>

\* The framework dispatches a call that has started once more.
DispatchAgain(i) ==
  /\ loop = "running" /\ call[i] = "running" /\ ctx = "live" /\ ~lost
  /\ lost' = TRUE                    \* the second ToolStart has a known id
  /\ IF MayStart(batch[i].id)
     THEN ran' = [ran EXCEPT ![batch[i].id] = @ + 1]
     ELSE UNCHANGED ran
  /\ UNCHANGED <<loop, outcome, ctx, budget, calls, ledger, charged, reader, usage, since>>

\* The tool returns; a success may be a state change.
EndCall(i) ==
  /\ loop = "running" /\ call[i] \in {"running", "stopping"} /\ RecordEnd(batch[i].id)
  /\ \/ /\ call[i] = "running"
        /\ call' = [call EXCEPT ![i] = "succeeded"]
        /\ MarkStateChanged(batch[i].key)
        /\ since' = IF Kind[batch[i].key] = "change" THEN [k \in Keys |-> 0] ELSE since
     \/ /\ call' = [call EXCEPT ![i] = "errored"]
        /\ UNCHANGED <<repeats, since>>
  /\ UNCHANGED <<loop, outcome, ctx, steps, finals, toolCalls, admitted, batch, decision,
                 results, ids, charged, reader, usage, ran>>

\* The tools node answers the permitted calls in their order; each denied call
\* keeps its place.
Permitted == {i \in 1..Len(batch) : call[i] # "denied"}
Place(i) == Cardinality({j \in Permitted : j <= i})
Merge(answers) ==
  [i \in 1..Len(batch) |-> IF i \in Permitted THEN answers[Place(i)] ELSE batch[i].id]

\* Fault: what the recorder lost is passed on raw.
MayContinueRaw == \A i \in 1..Len(batch) : call[i] # "errored"

MayContinue == ~lost /\ \A i \in 1..Len(batch) : call[i] # "errored"

\* The tools node waits for all of its calls; a tool error, or a result the
\* recorder could not keep, ends the turn.
CollectBatch ==
  /\ loop = "running"
  /\ \A i \in 1..Len(batch) : call[i] \in {"denied", "succeeded", "errored"}
  /\ IF MayContinue
     THEN /\ loop' = "step" /\ UNCHANGED outcome
          /\ results' = Merge([n \in 1..Cardinality(Permitted) |->
                                batch[CHOOSE i \in Permitted : Place(i) = n].id])
     ELSE Finish("failed") /\ UNCHANGED results
  /\ UNCHANGED <<ctx, budget, batch, decision, call, ids, recorder, reader, usage, ghosts>>

-----------------------------------------------------------------------------
(* The answer *)

\* The forced final request, without tools; its stream is read live.
AskFinal ==
  /\ loop = "final"
  /\ \/ Finish("failed") /\ UNCHANGED <<finals, opened, stream>>   \* too large, or no stream
     \/ /\ ctx = "live" /\ finals = 0
        /\ finals' = 1 /\ opened' = opened + 1
        /\ stream' = [NoStream EXCEPT !.source = "live"]
        /\ loop' = "answering" /\ UNCHANGED outcome
  /\ UNCHANGED <<ctx, steps, toolCalls, repeats, admitted, calls, recorder, reported, shown,
                 ghosts>>

Open == stream.ended = "no"

\* hasFinalText of all that was received.
NeedsFallback == ~stream.text

\* finalModelResponseStream.finish: once; an early end reports the usage too.
FinishStream(how, fallback) ==
  /\ stream' = [stream EXCEPT !.ended = how, !.fallback = fallback]
  /\ IF stream.source = "live" THEN Charge ELSE UNCHANGED <<reported, charged, lost>>

\* Recv of a collected response, and of a live one.
ReceiveText ==
  /\ loop = "answering" /\ Open
  /\ \/ stream.source = "live" /\ ~stream.text /\ stream' = [stream EXCEPT !.text = TRUE]
     \/ stream.source = "collected" /\ stream.text /\ shown = <<>> /\ UNCHANGED stream
  /\ shown' = Append(shown, "text")
  /\ UNCHANGED <<loop, outcome, ctx, budget, calls, recorder, usage, ghosts>>

ReceiveEnd ==
  /\ loop = "answering" /\ Open
  /\ \/ stream.source = "collected" /\ (stream.text => shown # <<>>)
        /\ FinishStream("eof", "none") /\ UNCHANGED shown
     \/ stream.source = "live" /\ ~NeedsFallback
        /\ FinishStream("eof", "none") /\ UNCHANGED shown
     \/ stream.source = "live" /\ NeedsFallback
        /\ FinishStream("eof", "sent") /\ shown' = Append(shown, "fallback")
     \/ stream.source = "live" /\ FinishStream("error", "none") /\ UNCHANGED shown
  /\ UNCHANGED <<loop, outcome, ctx, budget, calls, ledger, opened, ghosts>>

\* Fault: nobody closes the stream of a turn that was ended.
RefusedByReader == shown # <<>>

\* The close watcher of streamAnswer once the context ended, and the deferred
\* close after a reader that refuses a chunk.
Closable == ctx # "live" \/ shown # <<>>
CloseStream ==
  /\ loop = "answering" /\ Open /\ Closable
  /\ FinishStream("closed", "none")
  /\ UNCHANGED <<loop, outcome, ctx, budget, calls, ledger, opened, shown, ghosts>>

Commits == ctx = "live" /\ ~lost

\* The end of streamAnswer, and askThread up to its commit boundary.
FinishTurn ==
  /\ loop = "answering" /\ ~Open
  /\ IF stream.ended = "eof" /\ Commits THEN Finish("answered") ELSE Finish("failed")
  /\ UNCHANGED <<ctx, budget, calls, recorder, reader, usage, ghosts>>

\* The user interrupts, or the deadline passes.
EndContext ==
  /\ ctx = "live" /\ loop # "done" /\ ctx' = "ended"
  /\ UNCHANGED <<loop, outcome, budget, calls, recorder, reader, usage, ghosts>>

Calls == \E i \in 1..Len(batch) : StartCall(i) \/ EndCall(i)
Loop  == AcquireStep \/ AskModel \/ AdmitBatch \/ CollectBatch
Answer == AskFinal \/ ReceiveText \/ ReceiveEnd \/ CloseStream \/ FinishTurn
Again == \E i \in 1..Len(batch) : DispatchAgain(i)
AgentNext == Loop \/ Calls \/ Again \/ Answer \/ EndContext

\* The deadline passes in the end.  A request and a tool return once their
\* context has ended; a stream that is read live need not: it is closed.
Ended(A) == ctx # "live" /\ A
AgentFairness ==
  /\ WF_avars(EndContext) /\ WF_avars(Ended(Loop)) /\ WF_avars(Ended(Calls))
  /\ WF_avars(Ended(AskFinal \/ CloseStream \/ FinishTurn))

AgentSpec == AgentInit /\ [][AgentNext]_avars /\ AgentFairness

-----------------------------------------------------------------------------
(* Properties *)

Ids == 1..ids
AgentTypeOK ==
  /\ loop \in {"step", "asking", "deciding", "running", "final", "answering", "done"}
  /\ outcome \in {"none", "answered", "failed"} /\ ctx \in {"live", "ended"}
  /\ steps \in 0..MaxModelSteps /\ finals \in 0..1
  /\ toolCalls \in 0..MaxToolCalls /\ repeats \in [Keys -> 0..MaxRepeats]
  /\ DOMAIN admitted \subseteq Ids
  /\ \A id \in DOMAIN admitted :
       admitted[id] \in [key : Keys, allowed : BOOLEAN, started : BOOLEAN]
  /\ batch \in Seq([key : Keys, id : Ids]) /\ Len(batch) <= MaxBatch
  /\ DOMAIN decision \in {{}, DOMAIN batch} /\ DOMAIN call = DOMAIN decision
  /\ \A i \in DOMAIN call : call[i] \in {"denied", "waiting", "running", "stopping",
                                         "succeeded", "errored"}
  /\ DOMAIN ledger \subseteq Ids /\ \A id \in DOMAIN ledger : ledger[id] \in {"started", "completed"}
  /\ lost \in BOOLEAN /\ {opened, reported, charged} \subseteq 0..(MaxModelSteps + 1)
  /\ stream.source \in {"none", "collected", "live"} /\ stream.text \in BOOLEAN

\* Whatever order the calls of a batch run in, a turn never runs more tools
\* than its budget, runs no admitted call twice, and a call that may not repeat
\* without a change runs at most twice the limit: calls already admitted keep
\* their decision when another call of their batch changes the state.
BudgetHolds ==
  /\ Cardinality(DOMAIN ran) <= toolCalls /\ toolCalls <= MaxToolCalls
  /\ \A id \in DOMAIN ran : ran[id] = 1
  /\ \A k \in Keys : since[k] <= 2 * MaxRepeats

\* A request is only sent when every call of the batch before it has its own
\* result, in its own place, and the ledger has it from start to end.
CallsAreAnswered ==
  loop \in {"asking", "final"} /\ batch # <<>> =>
    /\ Len(results) = Len(batch)
    /\ \A i \in 1..Len(batch) : results[i] = batch[i].id
    /\ \A id \in DOMAIN ledger : ledger[id] = "completed"
    /\ \A i \in 1..Len(batch) : batch[i].id \in DOMAIN ledger

\* Every stream that was opened is reported once, also one cut short, and an
\* answered turn has all of its usage and all of its calls in the ledger.
UsageIsAccounted ==
  loop = "done" => /\ reported = opened
                   /\ outcome = "answered" => charged = opened /\ ~lost

\* The reader is shown one answer: never text of a response that asks for
\* tools, never the fallback beside text, and after a forced final request
\* always one of the two.
OneAnswer ==
  /\ Len(shown) <= 1 /\ (shown # <<>> => stream.source # "none")
  /\ outcome = "answered" /\ stream.source = "live" => shown # <<>>

\* What the ledger, the provider and the reader get of a turn is whole,
\* whichever of them fails and whenever the turn is ended: the three above,
\* and the types.
TurnIsWhole == AgentTypeOK /\ CallsAreAnswered /\ UsageIsAccounted /\ OneAnswer

\* Whatever the model and the tools do, the turn ends.
TurnReturns == <>(loop = "done")
=============================================================================
