---------------------------- MODULE ContextWindow ----------------------------
(***************************************************************************)
(* What fits the model's window: the planner's choice of turn groups, the  *)
(* admission of a request before its turn starts, and the compactor, which *)
(* replaces a prefix of the groups by a checkpoint, in chunks if it must.  *)
(*                                                                         *)
(* A committed turn is a group, known by its place and of a size in        *)
(* tokens; it stands for one message and one event.  One session compacts; *)
(* other processes may commit turns to the thread in one step, except      *)
(* while a turn of this session is open.  A revision is the number of      *)
(* committed turns, as nothing else here moves it under the session.       *)
(*                                                                         *)
(* A compaction that loses the comparison of its start is left out: it is  *)
(* as if it had not been tried (see SessionContext).  Artifacts that are   *)
(* groups of their own, texts and hashes are left out.  A definition       *)
(* marked "Fault" is a plausible bug in the one after it and not used.     *)
(***************************************************************************)
EXTENDS Naturals, Sequences, FiniteSets, SequencesExt

CONSTANTS Window,            \* tokens of the model's window
          System,            \* of the system prompt
          Tools,             \* of the model's tool schemas
          Instructions,      \* of the compactor's system prompt and template
          Framing,           \* admissionBaseFramingTokens, and per message
          CheckpointTarget,  \* tokens a checkpoint may have
          KeepRecent,        \* groups an automatic compaction leaves alone
          MaxAnchors,        \* MaxCheckpointEvidenceRefs
          GroupSizes, RequestSizes, AnswerSizes,
          MaxTurns           \* bound on the turns that are started

ASSUME WindowAssumption ==
  /\ {Window, System, Tools, Instructions, Framing, CheckpointTarget, KeepRecent, MaxTurns}
       \subseteq Nat
  /\ MaxAnchors \in Nat \ {0, 1}
  /\ UNION {GroupSizes, RequestSizes, AnswerSizes} \subseteq Nat \ {0}

VARIABLES
  turns,       \* sizes of the committed groups, oldest first
  checkpoint,  \* the active checkpoint
  paused,      \* AutoCompactionPaused
  known,       \* Session.revision
  pc,          \* where the session is
  ask,         \* the call of Ask
  op,          \* the compaction
  first        \* the oldest group in the prompt of the open turn

vars == <<turns, checkpoint, paused, known, pc, ask, op, first>>

-----------------------------------------------------------------------------
(* Tokens.                                                                 *)

Percent(tokens, n) == (tokens * n) \div 100
Larger(m, n) == IF m > n THEN m ELSE n
Total(sizes) == FoldLeft(LAMBDA sum, size : sum + size, 0, sizes)
Tokens(groups, lo, hi) == Total(SubSeq(groups, lo, hi))

Ceiling == Percent(Window, 95)
Trigger == Percent(Window, 85)
Target  == Percent(Window, 50)

\* EstimateRequestTokens: a guard of a tenth, at least the base framing.
Admitted(tokens, messages) ==
  LET raw == tokens + Framing + messages * Framing
  IN  raw + Larger(Framing, Percent(raw, 10)) <= Ceiling

(* Plan: the newest groups that fit after what must be there.  A request   *)
(* of 0 is none.  It is an error that the checkpoint does not fit.         *)

Plan(groups, cp, request) ==
  LET used == System + request + cp.size
      After(i) == used + Tokens(groups, i, Len(groups))
      fits == {i \in cp.hi + 1 .. Len(groups) + 1 : After(i) <= Ceiling}
      from == IF fits = {} THEN cp.hi + 1 ELSE CHOOSE i \in fits : \A j \in fits : i <= j
  IN  [ok |-> used <= Ceiling,
       from |-> from,
       shouldCompact |->
         After(cp.hi + 1) >= Trigger /\ (from > cp.hi + 1 \/ After(cp.hi + 1) > Target)]

\* CheckRequestAdmission of the planned view: system, checkpoint, groups, request.
ViewAdmitted(groups, cp, from, request) ==
  LET optional == Cardinality({n \in {cp.size, request} : n # 0})
  IN  Admitted(System + Tools + cp.size + Tokens(groups, from, Len(groups)) + request,
               1 + optional + Len(groups) - from + 1)

Fits(groups, cp, request) ==
  LET plan == Plan(groups, cp, request)
  IN  plan.ok /\ plan.from = cp.hi + 1 /\ ViewAdmitted(groups, cp, plan.from, request)

\* compactionCandidates: the last of the prefix to summarize.
Covered == checkpoint.hi
LastCandidate(keep, plan) ==
  LET recent == IF Len(turns) > Covered + keep THEN Len(turns) - keep ELSE Covered
  IN  Larger(recent, plan.from - 1)

-----------------------------------------------------------------------------
(* The compactor's requests.                                               *)

\* checkpointEvidenceRefs: both ends of the source.
Anchors(lo, hi) ==
  LET head == MaxAnchors \div 2
      tail == MaxAnchors - head
  IN  IF hi - lo < MaxAnchors THEN lo .. hi
      ELSE (lo .. lo + head - 1) \cup (hi - tail + 1 .. hi)

\* modelVisibleDirectEventIDs of an intermediate checkpoint.
Visible(part) == Anchors(part.lo, part.hi) \cup part.cites

\* chunkForCompaction: full groups in order, each chunk as long as its request,
\* with the previous checkpoint, is within the ceiling.
Chunks(lo, hi) ==
  LET Add(chunks, i) ==
        IF chunks # <<>>
             /\ Instructions + checkpoint.size + Tokens(turns, Last(chunks).lo, i)
                  <= Ceiling
        THEN Front(chunks) \o <<[lo |-> Last(chunks).lo, hi |-> i]>>
        ELSE Append(chunks, [lo |-> i, hi |-> i])
  IN  FoldLeft(Add, <<>>, [i \in 1 .. hi - lo + 1 |-> lo + i - 1])

\* A single group is also taken apart from the previous checkpoint, when they
\* are too large together.
MustSplit(lo, hi) ==
  \/ Len(Chunks(lo, hi)) > 1
  \/ checkpoint.size # 0 /\ Instructions + checkpoint.size + Tokens(turns, lo, hi) > Ceiling

NoCheckpoint == [size |-> 0, lo |-> 0, hi |-> 0, cites |-> {}, parts |-> <<>>]
NoOp == [lo |-> 0, hi |-> 0, automatic |-> FALSE, asked |-> FALSE, pausedAt |-> FALSE,
         known |-> 0, chunks |-> <<>>, split |-> FALSE, parts |-> <<>>,
         answer |-> NoCheckpoint]
Merging == op.split /\ op.chunks = <<>>

\* The request that is next: one message with the sources, one before it.
CallTokens ==
  Instructions +
    (CASE Merging -> Total([i \in DOMAIN op.parts |-> op.parts[i].size]) + checkpoint.size
       [] op.split /\ ~Merging -> Tokens(turns, Head(op.chunks).lo, Head(op.chunks).hi)
       [] OTHER -> Tokens(turns, op.lo, op.hi) + checkpoint.size)
CallScope ==
  IF op.split /\ ~Merging THEN Head(op.chunks).lo .. Head(op.chunks).hi ELSE op.lo .. op.hi
CallIsAdmitted == (Merging => CallTokens <= Ceiling) /\ Admitted(CallTokens, 2)

\* Fault: a merge may cite what the whole compaction covers.
ClaimsAnySource == CallScope

\* claimSourceScope: the events the request shows.
ClaimScope ==
  IF Merging THEN UNION {Visible(op.parts[i]) : i \in DOMAIN op.parts} ELSE CallScope

\* 0 stands for the parent checkpoint, which a chunk does not have.
ParentRef == IF checkpoint.size # 0 /\ (Merging \/ ~op.split) THEN {0} ELSE {}

\* MinimumCompactionGainPercent of what is replaced.
Worthwhile(size) ==
  LET replaced == Tokens(turns, op.lo, op.hi) + checkpoint.size
  IN  size < replaced /\ ((replaced - size) * 100) \div replaced >= 20

-----------------------------------------------------------------------------
\* first is the revision of the first attempt; result is that of the last call.
NoAsk == [request |-> 0, attempt |-> 0, seen |-> 0, fitted |-> FALSE, tried |-> FALSE,
          result |-> "none"]

Init ==
  /\ turns = <<>>
  /\ checkpoint = NoCheckpoint
  /\ paused = FALSE
  /\ known = 0
  /\ pc = "idle"
  /\ ask = NoAsk
  /\ op = NoOp
  /\ first = 0

HasRoom == Len(turns) < MaxTurns

\* A turn of another process, from its start to its commit.
OtherTurn ==
  /\ pc # "running" /\ HasRoom
  /\ \E size \in GroupSizes : turns' = Append(turns, size)
  /\ UNCHANGED <<checkpoint, paused, known, pc, ask, op, first>>

-----------------------------------------------------------------------------
(* Compaction, up to its start: by the user, by the interface between      *)
(* turns, or by Ask, which goes on with its request afterwards.            *)

\* compactLocked plans without the request it is to make room for.
CanCompact(automatic) ==
  LET plan == Plan(turns, checkpoint, 0)
  IN  /\ plan.ok
      /\ automatic => ~paused /\ plan.shouldCompact
      /\ LastCandidate(IF automatic THEN KeepRecent ELSE 0, plan) > Covered

StartCompaction(automatic, asked) ==
  LET hi == LastCandidate(IF automatic THEN KeepRecent ELSE 0, Plan(turns, checkpoint, 0))
      split == MustSplit(Covered + 1, hi)
  IN  /\ CanCompact(automatic)
      /\ op' = [NoOp EXCEPT !.lo = Covered + 1, !.hi = hi, !.known = Len(turns),
                  !.automatic = automatic, !.asked = asked, !.pausedAt = paused,
                  !.split = split,
                  !.chunks = IF split THEN Chunks(Covered + 1, hi) ELSE <<>>]
      /\ known' = Len(turns)
      /\ paused' = (paused \/ automatic)
      /\ pc' = "compacting"

Compact ==
  /\ pc = "idle"
  /\ ask' = NoAsk
  /\ StartCompaction(FALSE, FALSE)
  /\ UNCHANGED <<turns, checkpoint, first>>

CompactAutomatically ==
  /\ pc = "idle"
  /\ ask' = NoAsk
  /\ StartCompaction(TRUE, FALSE)
  /\ UNCHANGED <<turns, checkpoint, first>>

-----------------------------------------------------------------------------
(* Ask.                                                                    *)

Ask(request) ==
  /\ pc = "idle" /\ HasRoom
  /\ ask' = [NoAsk EXCEPT !.request = request, !.seen = Len(turns)]
  /\ pc' = "admitting"
  /\ UNCHANGED <<turns, checkpoint, paused, known, op, first>>

AskFits == Fits(turns, checkpoint, ask.request)
AskPlan == Plan(turns, checkpoint, ask.request)

Refuse == pc' = "idle" /\ ask' = [ask EXCEPT !.result = "refused"]

\* ensureTurnAdmission, when no compaction comes of it.
Admit ==
  /\ pc = "admitting"
  /\ LET may == ~paused /\ ask.attempt = 0
         fitted == [ask EXCEPT !.fitted = @ \/ AskFits,
                               !.seen = IF ask.attempt = 0 THEN Len(turns) ELSE @]
     IN  \/ /\ AskFits
            /\ may /\ AskPlan.shouldCompact => ~CanCompact(TRUE)
            /\ pc' = "admitted"
            /\ ask' = fitted
         \/ /\ ~AskFits
            /\ AskPlan.ok /\ may => ~CanCompact(TRUE)
            /\ pc' = "idle"
            /\ ask' = [fitted EXCEPT !.result =
                         IF AskPlan.ok THEN "refused" ELSE "over budget"]
  /\ UNCHANGED <<turns, checkpoint, paused, known, op, first>>

CompactToAdmit ==
  /\ pc = "admitting"
  /\ ask.attempt = 0
  /\ AskPlan.ok
  /\ AskFits => AskPlan.shouldCompact
  /\ ask' = [ask EXCEPT !.fitted = AskFits, !.seen = Len(turns), !.tried = TRUE]
  /\ StartCompaction(TRUE, TRUE)
  /\ UNCHANGED <<turns, checkpoint, first>>

\* What Ask does after its compaction: after one that failed it does not plan
\* again.
Resume(succeeded) ==
  IF ~op.asked THEN pc' = "idle" /\ UNCHANGED ask
  ELSE IF succeeded THEN pc' = "admitting" /\ ask' = [ask EXCEPT !.attempt = 1]
  ELSE IF ask.fitted THEN pc' = "admitted" /\ UNCHANGED ask
  ELSE Refuse

\* Fault: a revision the thread has had is good enough.
IsPast(revision) == revision <= Len(turns)

\* checkExpectedRevision.
IsCurrent(revision) == revision = Len(turns)

\* StartTurn, and the prompt that is planned again after it.
StartTurn ==
  /\ pc = "admitted"
  /\ IF IsCurrent(known)
     THEN pc' = "running" /\ first' = AskPlan.from /\ UNCHANGED ask
     ELSE pc' = "idle" /\ ask' = [ask EXCEPT !.result = "conflict"] /\ UNCHANGED first
  /\ UNCHANGED <<turns, checkpoint, paused, known, op>>

EndTurn ==
  /\ pc = "running"
  /\ \/ \E size \in GroupSizes : HasRoom /\ turns' = Append(turns, size)
     \/ UNCHANGED turns
  /\ known' = Len(turns')
  /\ pc' = "idle"
  /\ first' = 0
  /\ ask' = NoAsk
  /\ UNCHANGED <<checkpoint, paused, op>>

\* The session is opened again, or interrupts a plan for the new input.
LearnRevision ==
  /\ pc = "idle"
  /\ known' = Len(turns)
  /\ ask' = NoAsk
  /\ UNCHANGED <<turns, checkpoint, paused, pc, op, first>>

-----------------------------------------------------------------------------
(* The compactor's calls.                                                  *)

\* persistCompactionFailure: a stale candidate does not pause, nor does a
\* manual failure change the pause.
Fail(stale) ==
  /\ paused' = IF op.automatic THEN ~stale ELSE op.pausedAt
  /\ known' = Len(turns)
  /\ op' = NoOp
  /\ Resume(FALSE)
  /\ UNCHANGED <<turns, checkpoint, first>>

\* The request is not admitted, or the provider fails it, or its answer is not
\* a checkpoint, or is one that is too large.
CallFails ==
  /\ pc = "compacting"
  /\ \/ Fail(FALSE)
     \/ CallIsAdmitted /\ ~IsCurrent(op.known) /\ Fail(TRUE)

\* The call is charged, which shows whether the candidate is stale, and its
\* answer is a checkpoint.
Answered(size, cites) ==
  /\ pc = "compacting"
  /\ CallIsAdmitted /\ IsCurrent(op.known)
  /\ size <= CheckpointTarget
  /\ cites \subseteq ClaimScope \cup ParentRef
  /\ LET source == IF op.split /\ ~Merging THEN Head(op.chunks)
                   ELSE [lo |-> op.lo, hi |-> op.hi]
         answer == [lo |-> source.lo, hi |-> source.hi, size |-> size, cites |-> cites,
                    parts |-> <<>>]
     IN  IF op.split /\ ~Merging
         THEN /\ op' = [op EXCEPT !.chunks = Tail(@), !.parts = Append(@, answer)]
              /\ UNCHANGED pc
         ELSE /\ op' = [op EXCEPT !.answer = answer]
              /\ pc' = "installing"
  /\ UNCHANGED <<turns, checkpoint, paused, known, ask, first>>

\* The gain, the plan with the checkpoint, and CommitCheckpoint.
Install ==
  /\ pc = "installing"
  /\ Worthwhile(op.answer.size) /\ Plan(turns, op.answer, 0).ok
  /\ IsCurrent(op.known)
  /\ checkpoint' = [op.answer EXCEPT !.parts = op.parts]
  /\ paused' = FALSE
  /\ known' = Len(turns)
  /\ op' = NoOp
  /\ Resume(TRUE)
  /\ UNCHANGED <<turns, first>>

NotInstalled ==
  /\ pc = "installing"
  /\ IF Worthwhile(op.answer.size) /\ Plan(turns, op.answer, 0).ok
     THEN ~IsCurrent(op.known) /\ Fail(TRUE)
     ELSE Fail(FALSE)

-----------------------------------------------------------------------------
Next ==
  \/ OtherTurn
  \/ Compact \/ CompactAutomatically
  \/ \E request \in RequestSizes : Ask(request)
  \/ Admit \/ CompactToAdmit \/ StartTurn \/ EndTurn \/ LearnRevision
  \/ CallFails
  \/ \E size \in AnswerSizes, claim \in 0 .. Len(turns) : Answered(size, {claim})
  \/ Install \/ NotInstalled

Spec == Init /\ [][Next]_vars

-----------------------------------------------------------------------------
(* Properties.                                                             *)

\* A turn runs with every committed group in its prompt, raw or under the
\* checkpoint, and its first request is admitted, although other processes
\* commit turns while it is admitted and the prompt is planned again after its
\* start (session.go:914-988).  The exception is a turn whose own compaction
\* failed after the request had been found to fit.
PromptIsWhole ==
  pc = "running" /\ (ask.tried => ask.attempt = 1) =>
    first = Covered + 1 /\ ViewAdmitted(turns, checkpoint, first, ask.request)

\* Without the exception: a request that would leave out groups that no
\* checkpoint covers is refused, and history is "never silently dropped"
\* (docs/context-management.md:51-53, in Chinese).
HistoryIsNeverDropped == pc = "running" => first = Covered + 1

\* The checkpoint rests on what its compactor was shown: its claims are about
\* its own groups or its parent, and when it is a merge its chunks cover
\* those groups without gap or overlap and each claim was an anchor of, or
\* claimed by, the chunk that has the group (types.go and compactor.go keep
\* "an arbitrary event from the larger cold manifest" out).
CheckpointIsGrounded ==
  LET parts == checkpoint.parts
      IsShown(e) == \E i \in DOMAIN parts : e \in Visible(parts[i])
  IN  checkpoint.size # 0 =>
        /\ checkpoint.cites \subseteq checkpoint.lo .. checkpoint.hi \cup {0}
        /\ 0 \in checkpoint.cites => checkpoint.lo > 1
        /\ parts # <<>> =>
             /\ parts[1].lo = checkpoint.lo /\ Last(parts).hi = checkpoint.hi
             /\ \A i \in 2 .. Len(parts) : parts[i].lo = parts[i - 1].hi + 1
             /\ \A e \in checkpoint.cites \ {0} : IsShown(e)

\* A request that fits as it is never loses its place to the compaction that
\* is made ahead of it: "a failure is only blocking if this same request
\* cannot fit" (session.go:1824), and one that succeeds makes the prompt
\* smaller.  Only a turn of another process may leave no room.
CompactingAheadIsHarmless ==
  ask.fitted /\ ask.result = "refused" => Len(turns) > ask.seen

\* Every position is one of the thread's, and a compaction is on while pc says so.
TypeOK ==
  /\ turns \in Seq(GroupSizes) /\ Len(turns) <= MaxTurns
  /\ {known, checkpoint.hi, op.hi, op.known, ask.seen} \subseteq 0 .. Len(turns)
  /\ pc \in {"idle", "admitting", "admitted", "running", "compacting", "installing"}
  /\ op # NoOp <=> pc \in {"compacting", "installing"}
  /\ op.automatic \in {op.asked, TRUE} /\ {paused, op.split} \subseteq BOOLEAN

\* Both, and the types.
CompactionIsSound == TypeOK /\ CheckpointIsGrounded /\ CompactingAheadIsHarmless

\* A request that has no room next to groups an automatic compaction may
\* summarize is refused only after such a compaction was tried
\* (docs/context-management.md:51-53).
CompactionIsTriedFirst ==
  ask.result = "refused" /\ Len(turns) = ask.seen /\ ~paused
    /\ Len(turns) - Covered > KeepRecent
  => ask.tried

\* A compactor request over the ceiling is split between groups, so that only
\* a group that is too large by itself fails for its size
\* (docs/context-management.md:92-95).
OversizeRequestsAreSplit ==
  pc = "compacting" /\ ~Merging /\ ~CallIsAdmitted => Cardinality(CallScope) = 1
=============================================================================
