----------------------------- MODULE TurnProofs -----------------------------
(***************************************************************************)
(* A turn: what it is admitted with, and what its agent makes of it.       *)
(*                                                                         *)
(* ContextWindow: a turn whose own compaction did not fail runs with its   *)
(* whole history.  The prompt is planned before the turn and again after   *)
(* its start; what joins the two is the revision: from the plan that found *)
(* the request to fit until the turn has started, either nobody wrote to   *)
(* the thread or the session's revision is behind and the start is         *)
(* refused.  A failed compaction breaks the join, because it takes over    *)
(* the newest revision without another plan.  The planner itself is not    *)
(* expanded there: it is a function of the groups, the checkpoint and the  *)
(* request, and nothing more is needed.                                    *)
(*                                                                         *)
(* Compaction, which is expanded: a checkpoint is a merge of chunks that   *)
(* follow one another over all that is compacted, each is answered about   *)
(* its own groups, and with a checkpoint that is smaller than what it      *)
(* replaces whatever fitted fits.  The sums of tokens and the chunks are   *)
(* folds; induction over their places says what they return.               *)
(*                                                                         *)
(* AgentTurn: budgets hold and turns are whole for any keys, kinds, limits *)
(* and batches.  The counts are about sets of calls: what has run was      *)
(* allowed, what was allowed was counted, and the calls of a key that      *)
(* still wait were counted before the last change of state or after it.    *)
(* A batch is answered because its places are numbered without gaps, and   *)
(* the ledger is complete because a recorder that missed a call has failed *)
(* and a turn does not go on with one.                                     *)
(***************************************************************************)
EXTENDS ContextWindow, AgentTurn, SequenceTheorems, FiniteSetTheorems, WellFoundedInduction,
        TLAPS

Asks == [request : Nat, attempt : {0, 1}, seen : Nat, fitted : BOOLEAN, tried : BOOLEAN,
         result : {"none", "refused", "over budget", "conflict"}]

TypeInv ==
  /\ turns \in Seq(Nat)
  /\ known \in 0 .. Len(turns)
  /\ ask \in Asks

\* The request was found to fit, and what it fitted is still the thread.
OwnCompactionFailed == ask.tried /\ ask.attempt # 1
FitInv ==
  /\ pc = "admitted" /\ ~OwnCompactionFailed /\ known = Len(turns) => AskFits
  /\ pc = "running" => first = AskPlan.from
  /\ pc = "running" /\ ~OwnCompactionFailed => AskFits

\* While Ask compacts it is in its first attempt.
AttemptInv ==
  pc \in {"compacting", "installing"} =>
    "asked" \in DOMAIN op /\ (op.asked => ask.tried /\ ask.attempt = 0)

IInv == TypeInv /\ FitInv /\ AttemptInv

-----------------------------------------------------------------------------
LEMMA NoAskType == NoAsk \in Asks
BY DEF NoAsk, Asks

\* A step that reaches none of the phases the invariant is about has only the
\* types to show.
LEMMA Elsewhere ==
  ASSUME TypeInv', pc' \notin {"admitted", "running", "compacting", "installing"}
  PROVE  IInv'
BY DEF IInv, FitInv, AttemptInv

\* A compaction is under way.
LEMMA WhileCompacting ==
  ASSUME TypeInv', pc' \in {"compacting", "installing"},
         "asked" \in DOMAIN op', op'.asked => ask'.tried /\ ask'.attempt = 0
  PROVE  IInv'
BY DEF IInv, FitInv, AttemptInv

\* What is planned depends on the thread and the request alone.
LEMMA SamePlan ==
  ASSUME turns' = turns, checkpoint' = checkpoint, ask'.request = ask.request
  PROVE  AskFits' = AskFits /\ AskPlan' = AskPlan
BY DEF AskFits, AskPlan

THEOREM InitIInv == Init => IInv
<1> SUFFICES ASSUME Init PROVE IInv
  OBVIOUS
<1>1. turns \in Seq(Nat) /\ Len(turns) = 0 /\ known = 0 /\ pc = "idle" /\ ask = NoAsk
  BY DEF Init
<1>2. TypeInv
  BY <1>1, NoAskType DEF TypeInv
<1> QED
  BY <1>1, <1>2 DEF IInv, FitInv, AttemptInv

\* What the start of a compaction leaves.
LEMMA StartFact ==
  ASSUME NEW automatic \in BOOLEAN, NEW asked \in BOOLEAN, StartCompaction(automatic, asked)
  PROVE  known' = Len(turns) /\ pc' = "compacting" /\ op'.asked = asked /\ "asked" \in DOMAIN op'
BY DEF StartCompaction, NoOp

\* A compaction that fails takes over the newest revision and goes back to
\* where it was asked for.
LEMMA FailFact ==
  ASSUME TypeInv, AttemptInv, pc \in {"compacting", "installing"}, NEW stale, Fail(stale)
  PROVE  IInv'
<1>1. turns' = turns /\ checkpoint' = checkpoint /\ known' = Len(turns) /\ Len(turns) \in Nat
  BY DEF Fail, TypeInv
<1>2. CASE ~op.asked
  <2>1. pc' = "idle" /\ ask' = ask
    BY <1>2 DEF Fail, Resume
  <2>2. TypeInv'
    BY <1>1, <2>1 DEF TypeInv
  <2> QED
    BY <2>1, <2>2, Elsewhere
<1>3. CASE op.asked /\ ask.fitted
  <2>1. pc' = "admitted" /\ ask' = ask
    BY <1>3 DEF Fail, Resume
  <2>2. ask'.tried /\ ask'.attempt = 0
    BY <1>3, <2>1 DEF AttemptInv
  <2>3. TypeInv'
    BY <1>1, <2>1 DEF TypeInv
  <2> QED
    BY <2>1, <2>2, <2>3 DEF IInv, FitInv, AttemptInv, OwnCompactionFailed
<1>4. CASE op.asked /\ ~ask.fitted
  <2>1. pc' = "idle" /\ ask' = [ask EXCEPT !.result = "refused"]
    BY <1>4 DEF Fail, Resume, Refuse
  <2>2. ask' \in Asks
    BY <2>1 DEF TypeInv, Asks
  <2>3. TypeInv'
    BY <1>1, <2>2 DEF TypeInv
  <2> QED
    BY <2>1, <2>3, Elsewhere
<1> QED
  BY <1>2, <1>3, <1>4

THEOREM StepIInv == ASSUME WindowAssumption, IInv, [Next]_vars PROVE IInv'
<1>0. TypeInv /\ FitInv /\ AttemptInv
  BY DEF IInv
<1>1. turns \in Seq(Nat) /\ Len(turns) \in Nat /\ known \in 0 .. Len(turns) /\ ask \in Asks
  BY <1>0 DEF TypeInv
<1>2. GroupSizes \subseteq Nat /\ RequestSizes \subseteq Nat
  BY DEF WindowAssumption
<1>3. CASE OtherTurn
  <2>1. PICK size \in GroupSizes : turns' = Append(turns, size)
    BY <1>3 DEF OtherTurn
  <2>2. turns' \in Seq(Nat) /\ Len(turns') = Len(turns) + 1
    BY <1>1, <1>2, <2>1
  <2>3. pc # "running" /\ UNCHANGED <<known, pc, ask, op>>
    BY <1>3 DEF OtherTurn
  <2>4. TypeInv' /\ known' # Len(turns')
    BY <1>1, <2>2, <2>3 DEF TypeInv
  <2>5. FitInv'
    BY <2>3, <2>4 DEF FitInv
  <2>6. AttemptInv'
    BY <1>0, <2>3 DEF AttemptInv
  <2> QED
    BY <2>4, <2>5, <2>6 DEF IInv
<1>4. CASE Compact \/ CompactAutomatically
  <2>1. known' = Len(turns) /\ pc' = "compacting" /\ op'.asked = FALSE
        /\ "asked" \in DOMAIN op'
    BY <1>4, StartFact DEF Compact, CompactAutomatically
  <2>2. turns' = turns /\ ask' = NoAsk
    BY <1>4 DEF Compact, CompactAutomatically
  <2>3. TypeInv'
    BY <1>1, <2>1, <2>2, NoAskType DEF TypeInv
  <2> QED
    BY <2>1, <2>3, WhileCompacting
<1>5. CASE \E request \in RequestSizes : Ask(request)
  <2>1. PICK request \in RequestSizes : Ask(request)
    BY <1>5
  <2>2. pc' = "admitting" /\ UNCHANGED <<turns, known>>
        /\ ask' = [NoAsk EXCEPT !.request = request, !.seen = Len(turns)]
    BY <2>1 DEF Ask
  <2>3. ask' \in Asks
    BY <1>1, <1>2, <2>2, NoAskType DEF Asks
  <2>4. TypeInv'
    BY <1>1, <2>2, <2>3 DEF TypeInv
  <2> QED
    BY <2>2, <2>4, Elsewhere
<1>6. CASE Admit
  <2>1. UNCHANGED <<turns, checkpoint, known, first, op>>
    BY <1>6 DEF Admit
  <2> DEFINE fitted == [ask EXCEPT !.fitted = @ \/ AskFits,
                               !.seen = IF ask.attempt = 0 THEN Len(turns) ELSE @]
  <2>2. fitted \in Asks /\ fitted.request = ask.request
    BY <1>1 DEF Asks
  <2>3. CASE AskFits /\ pc' = "admitted" /\ ask' = fitted
    <3>1. TypeInv'
      BY <1>1, <2>1, <2>2, <2>3 DEF TypeInv
    <3>2. AskFits'
      BY <2>1, <2>2, <2>3, SamePlan
    <3> QED
      BY <2>3, <3>1, <3>2 DEF IInv, FitInv, AttemptInv
  <2>4. CASE pc' = "idle" /\ ask' = [fitted EXCEPT !.result =
                                       IF AskPlan.ok THEN "refused" ELSE "over budget"]
    <3> HIDE DEF fitted
    <3>1. ask' \in Asks
      BY <2>2, <2>4 DEF Asks
    <3>2. TypeInv'
      BY <1>1, <2>1, <3>1 DEF TypeInv
    <3> QED
      BY <2>4, <3>2, Elsewhere
  <2> QED
    BY <1>6, <2>3, <2>4 DEF Admit
<1>7. CASE CompactToAdmit
  <2>1. known' = Len(turns) /\ pc' = "compacting" /\ "asked" \in DOMAIN op'
    BY <1>7, StartFact DEF CompactToAdmit
  <2>2. turns' = turns /\ ask.attempt = 0
        /\ ask' = [ask EXCEPT !.fitted = AskFits, !.seen = Len(turns), !.tried = TRUE]
    BY <1>7 DEF CompactToAdmit
  <2>3. AskFits \in BOOLEAN
    BY DEF AskFits, Fits
  <2>4. ask' \in Asks /\ ask'.tried /\ ask'.attempt = 0
    BY <1>1, <2>2, <2>3 DEF Asks
  <2>5. TypeInv'
    BY <1>1, <2>1, <2>2, <2>4 DEF TypeInv
  <2> QED
    BY <2>1, <2>4, <2>5, WhileCompacting
<1>8. CASE StartTurn
  <2>1. UNCHANGED <<turns, checkpoint, known, op>> /\ pc = "admitted"
    BY <1>8 DEF StartTurn
  <2>2. CASE known = Len(turns)
    <3>1. pc' = "running" /\ first' = AskPlan.from /\ ask' = ask
      BY <1>8, <2>2 DEF StartTurn, IsCurrent
    <3>2. TypeInv'
      BY <1>1, <2>1, <3>1 DEF TypeInv
    <3>3. AskFits' = AskFits /\ AskPlan' = AskPlan
      BY <2>1, <3>1, SamePlan
    <3>4. OwnCompactionFailed' = OwnCompactionFailed
      BY <3>1 DEF OwnCompactionFailed
    <3>5. ~OwnCompactionFailed => AskFits
      BY <1>0, <2>1, <2>2 DEF FitInv
    <3>6. FitInv'
      BY <3>1, <3>3, <3>4, <3>5 DEF FitInv
    <3> QED
      BY <3>1, <3>2, <3>6 DEF IInv, AttemptInv
  <2>3. CASE known # Len(turns)
    <3>1. pc' = "idle" /\ ask' = [ask EXCEPT !.result = "conflict"]
      BY <1>8, <2>3 DEF StartTurn, IsCurrent
    <3>2. ask' \in Asks
      BY <1>1, <3>1 DEF Asks
    <3>3. TypeInv'
      BY <1>1, <2>1, <3>2 DEF TypeInv
    <3> QED
      BY <3>1, <3>3, Elsewhere
  <2> QED
    BY <2>2, <2>3
<1>9. CASE EndTurn
  <2>1. known' = Len(turns') /\ pc' = "idle" /\ ask' = NoAsk
    BY <1>9 DEF EndTurn
  <2>2. turns' = turns \/ \E size \in GroupSizes : turns' = Append(turns, size)
    BY <1>9 DEF EndTurn
  <2>3. turns' \in Seq(Nat)
    <3>1. CASE turns' = turns
      BY <1>1, <3>1
    <3>2. CASE \E size \in GroupSizes : turns' = Append(turns, size)
      <4>1. PICK size \in GroupSizes : turns' = Append(turns, size)
        BY <3>2
      <4> QED
        BY <1>1, <1>2, <4>1
    <3> QED
      BY <2>2, <3>1, <3>2
  <2>4. Len(turns') \in Nat
    BY <2>3
  <2>5. TypeInv'
    BY <2>1, <2>3, <2>4, NoAskType DEF TypeInv
  <2> QED
    BY <2>1, <2>5, Elsewhere
<1>10. CASE LearnRevision
  <2>1. known' = Len(turns) /\ turns' = turns /\ pc' = "idle" /\ ask' = NoAsk
    BY <1>10 DEF LearnRevision
  <2>2. TypeInv'
    BY <1>1, <2>1, NoAskType DEF TypeInv
  <2> QED
    BY <2>1, <2>2, Elsewhere
<1>11. CASE CallFails
  BY <1>0, <1>11, FailFact DEF CallFails
<1>12. CASE \E size \in AnswerSizes, claim \in 0 .. Len(turns) : Answered(size, {claim})
  <2>1. PICK size \in AnswerSizes, claim \in 0 .. Len(turns) : Answered(size, {claim})
    BY <1>12
  <2>2. UNCHANGED <<turns, known, ask>> /\ pc = "compacting"
    BY <2>1 DEF Answered
  <2>3. TypeInv'
    BY <1>1, <2>2 DEF TypeInv
  <2> DEFINE source == IF op.split /\ ~Merging THEN Head(op.chunks)
                       ELSE [lo |-> op.lo, hi |-> op.hi]
             answer == [lo |-> source.lo, hi |-> source.hi, size |-> size,
                        cites |-> {claim}, parts |-> <<>>]
  <2>4. \/ pc' = pc /\ op' = [op EXCEPT !.chunks = Tail(@), !.parts = Append(@, answer)]
        \/ pc' = "installing" /\ op' = [op EXCEPT !.answer = answer]
    BY <2>1 DEF Answered
  <2>5. pc' \in {"compacting", "installing"}
    BY <2>2, <2>4
  <2> HIDE DEF answer
  <2>6. op'.asked = op.asked /\ "asked" \in DOMAIN op'
    BY <1>0, <2>2, <2>4 DEF AttemptInv
  <2>7. op'.asked => ask'.tried /\ ask'.attempt = 0
    BY <1>0, <2>2, <2>6 DEF AttemptInv
  <2> QED
    BY <2>3, <2>5, <2>6, <2>7, WhileCompacting
<1>13. CASE Install
  <2>1. known' = Len(turns) /\ turns' = turns
    BY <1>13 DEF Install
  <2>2. \/ pc' = "idle" /\ ask' = ask
        \/ pc' = "admitting" /\ ask' = [ask EXCEPT !.attempt = 1]
    BY <1>13 DEF Install, Resume
  <2>3. ask' \in Asks
    BY <1>1, <2>2 DEF Asks
  <2>4. TypeInv'
    BY <1>1, <2>1, <2>3 DEF TypeInv
  <2> QED
    BY <2>2, <2>4, Elsewhere
<1>14. CASE NotInstalled
  BY <1>0, <1>14, FailFact DEF NotInstalled
<1>15. CASE UNCHANGED vars
  <2>1. UNCHANGED <<turns, checkpoint, known, pc, ask, op, first>>
    BY <1>15 DEF vars
  <2>2. AskFits' = AskFits /\ AskPlan' = AskPlan
    BY <2>1, SamePlan
  <2>3. TypeInv'
    BY <1>1, <2>1 DEF TypeInv
  <2>4. FitInv'
    BY <1>0, <2>1, <2>2 DEF FitInv, OwnCompactionFailed
  <2>5. AttemptInv'
    BY <1>0, <2>1 DEF AttemptInv
  <2> QED
    BY <2>3, <2>4, <2>5 DEF IInv
<1> QED
  BY <1>3, <1>4, <1>5, <1>6, <1>7, <1>8, <1>9, <1>10, <1>11, <1>12, <1>13, <1>14, <1>15
  DEF Next

-----------------------------------------------------------------------------
\* A turn runs with every committed group in its prompt, raw or under the
\* checkpoint, and its first request is admitted, whatever other processes
\* commit while it is admitted (session.go:914-988); only a turn whose own
\* compaction failed is excepted.
THEOREM PromptStaysWhole == Spec => []PromptIsWhole
<1>1. ASSUME WindowAssumption, IInv, [Next]_vars PROVE IInv'
  BY <1>1, StepIInv
<1>2. IInv => PromptIsWhole
  <2> SUFFICES ASSUME IInv, pc = "running", ask.tried => ask.attempt = 1
               PROVE  first = Covered + 1 /\ ViewAdmitted(turns, checkpoint, first, ask.request)
    BY DEF PromptIsWhole
  <2>1. first = AskPlan.from /\ AskFits
    BY DEF IInv, FitInv, OwnCompactionFailed
  <2>2. /\ AskPlan.from = checkpoint.hi + 1
        /\ ViewAdmitted(turns, checkpoint, AskPlan.from, ask.request)
    BY <2>1 DEF AskFits, Fits, AskPlan
  <2> QED
    BY <2>1, <2>2 DEF Covered
<1> QED
  BY InitIInv, WindowAssumption, <1>1, <1>2, PTL DEF Spec

-----------------------------------------------------------------------------
(* The compactor.  Sums of tokens, and chunks of groups, are folds: a fold *)
(* is a function of sets of places, and what it is after k elements        *)
(* follows from what it is before.                                         *)

\* Every natural number is in a set that has 0 and with each number the next.
LEMMA Induction ==
  ASSUME NEW S, 0 \in S, \A n \in Nat : n \in S => n + 1 \in S
  PROVE  Nat \subseteq S
<1> DEFINE T == Nat \ S
<1> SUFFICES ASSUME T # {} PROVE FALSE
  OBVIOUS
<1>1. PICK x \in T : \A y \in T : ~ (<<y, x>> \in OpToRel(<, Nat))
  BY NatLessThanWellFounded, WFMin
<1>2. x \in Nat /\ x # 0 /\ x \notin S
  OBVIOUS
<1>3. x - 1 \in Nat /\ x - 1 < x /\ (x - 1) + 1 = x
  BY <1>2
<1>4. x - 1 \notin T
  BY <1>1, <1>2, <1>3 DEF OpToRel
<1> QED
  BY <1>2, <1>3, <1>4

\* The two folds: sums of sizes, and the chunks of consecutive groups.
Extended(chunks, i) ==
  IF chunks # <<>>
       /\ Instructions + checkpoint.size + Tokens(turns, Last(chunks).lo, i)
            <= Ceiling
  THEN Front(chunks) \o <<[lo |-> Last(chunks).lo, hi |-> i]>>
  ELSE Append(chunks, [lo |-> i, hi |-> i])
Taken(kind, before, x) == IF kind = "chunks" THEN Extended(before, x) ELSE before + x
Folds(kind, base, s, D, g) ==
  g = [S \in SUBSET D |-> IF S = {} THEN base ELSE Taken(kind, g[S \ {Max(S)}], s[Max(S)])]

\* The folds of the model, with their accumulated values named.
LEMMA TotalIs ==
  ASSUME NEW s
  PROVE  Total(s) = (CHOOSE g : Folds("total", 0, s, DOMAIN s, g))[DOMAIN s]
  BY DEF Total, FoldLeft, MapThenFoldSet, Folds, Taken

LEMMA ChunksIs ==
  ASSUME NEW lo, NEW hi, NEW s, s = [i \in 1 .. hi - lo + 1 |-> lo + i - 1]
  PROVE  Chunks(lo, hi) = (CHOOSE g : Folds("chunks", <<>>, s, DOMAIN s, g))[DOMAIN s]
  BY DEF Chunks, FoldLeft, MapThenFoldSet, Folds, Taken, Extended

\* The largest of the places up to m.
LEMMA Largest ==
  ASSUME NEW m \in Nat, NEW S \in SUBSET (1 .. m), m \in S
  PROVE  Max(S) = m
<1>1. \A y \in S : m >= y
  OBVIOUS
<1>2. \A x \in S : (\A y \in S : x >= y) => x = m
  OBVIOUS
<1> QED
  BY <1>1, <1>2 DEF Max

\* The function that a fold chooses exists.
LEMMA FoldsExist ==
  ASSUME NEW kind, NEW base, NEW s, NEW n \in Nat
  PROVE  \E g : Folds(kind, base, s, 1 .. n, g)
<1> DEFINE S == {m \in Nat : \E g : Folds(kind, base, s, 1 .. m, g)}
<1>1. 0 \in S
  <2> DEFINE g == [X \in SUBSET {} |-> base]
  <2>1. Folds(kind, base, s, {}, g)
    BY DEF Folds
  <2>2. 1 .. 0 = {}
    OBVIOUS
  <2> HIDE DEF g
  <2> QED
    BY <2>1, <2>2
<1>2. ASSUME NEW m \in Nat, m \in S PROVE m + 1 \in S
  <2>1. PICK g : Folds(kind, base, s, 1 .. m, g)
    BY <1>2
  <2> DEFINE h == [X \in SUBSET (1 .. m + 1) |->
                     IF m + 1 \in X THEN Taken(kind, g[X \ {m + 1}], s[m + 1]) ELSE g[X]]
             e(X) == IF X = {} THEN base ELSE Taken(kind, h[X \ {Max(X)}], s[Max(X)])
             d(X) == IF X = {} THEN base ELSE Taken(kind, g[X \ {Max(X)}], s[Max(X)])
  <2>2. \A X \in SUBSET (1 .. m) : m + 1 \notin X /\ X \in SUBSET (1 .. m + 1)
    OBVIOUS
  <2>3. \A X \in SUBSET (1 .. m) : h[X] = g[X]
    BY <2>2
  <2>4. \A X \in SUBSET (1 .. m) : g[X] = d(X)
    <3> HIDE DEF d
    <3>1. g = [X \in SUBSET (1 .. m) |-> d(X)]
      BY <2>1 DEF Folds, d
    <3> QED
      BY <3>1
  <2>5. ASSUME NEW X \in SUBSET (1 .. m + 1) PROVE h[X] = e(X)
    <3>1. CASE m + 1 \in X
      <4>1. Max(X) = m + 1
        BY <3>1, Largest
      <4>2. X \ {m + 1} \in SUBSET (1 .. m) /\ X # {}
        BY <3>1
      <4>3. h[X] = Taken(kind, g[X \ {m + 1}], s[m + 1])
        BY <3>1
      <4>4. h[X \ {m + 1}] = g[X \ {m + 1}]
        BY <2>3, <4>2
      <4> HIDE DEF h
      <4> QED
        BY <4>1, <4>2, <4>3, <4>4
    <3>2. CASE m + 1 \notin X
      <4>0. \A i \in X : i \in 1 .. m
        BY <3>2
      <4>1. X \in SUBSET (1 .. m) /\ \A y : X \ {y} \in SUBSET (1 .. m)
        BY <4>0, Zenon
      <4>2. h[X] = d(X)
        BY <2>3, <2>4, <4>1
      <4>3. h[X \ {Max(X)}] = g[X \ {Max(X)}]
        BY <2>3, <4>1
      <4> HIDE DEF h
      <4> QED
        BY <4>2, <4>3
    <3> QED
      BY <3>1, <3>2
  <2>6. h = [X \in SUBSET (1 .. m + 1) |-> e(X)]
    <3>1. h = [X \in SUBSET (1 .. m + 1) |-> h[X]]
      OBVIOUS
    <3> HIDE DEF h, e
    <3> QED
      BY <2>5, <3>1
  <2> HIDE DEF h
  <2>7. Folds(kind, base, s, 1 .. m + 1, h)
    BY <2>6 DEF Folds
  <2> QED
    BY <2>7
<1> HIDE DEF S
<1>3. Nat \subseteq S
  BY <1>1, <1>2, Induction
<1> QED
  BY <1>3 DEF S

\* What a fold has made of the first elements.
LEMMA FoldsAt ==
  ASSUME NEW kind, NEW base, NEW s, NEW n \in Nat, NEW D, D = 1 .. n, NEW g,
         Folds(kind, base, s, D, g)
  PROVE  /\ g[1 .. 0] = base
         /\ \A k \in 0 .. n - 1 : g[1 .. k + 1] = Taken(kind, g[1 .. k], s[k + 1])
<1> DEFINE d(X) == IF X = {} THEN base ELSE Taken(kind, g[X \ {Max(X)}], s[Max(X)])
<1>1. g = [X \in SUBSET (1 .. n) |-> d(X)]
  BY DEF Folds
<1> HIDE DEF d
<1>2. \A X \in SUBSET (1 .. n) : g[X] = d(X)
  BY <1>1
<1>3. 1 .. 0 = {} /\ {} \in SUBSET (1 .. n)
  OBVIOUS
<1>4. g[1 .. 0] = base
  BY <1>2, <1>3 DEF d
<1>5. ASSUME NEW k \in 0 .. n - 1 PROVE g[1 .. k + 1] = Taken(kind, g[1 .. k], s[k + 1])
  <2>1. k + 1 \in Nat /\ k + 1 \in 1 .. k + 1 /\ 1 .. k + 1 \in SUBSET (1 .. n) /\ 1 .. k + 1 # {}
    OBVIOUS
  <2>2. Max(1 .. k + 1) = k + 1
    BY <2>1, Largest
  <2>3. (1 .. k + 1) \ {k + 1} = 1 .. k
    OBVIOUS
  <2> QED
    BY <1>2, <2>1, <2>2, <2>3 DEF d
<1> QED
  BY <1>4, <1>5

\* A sum goes up by each size in turn.
LEMMA TotalFold ==
  ASSUME NEW s \in Seq(Nat)
  PROVE  \E g : /\ Total(s) = g[1 .. Len(s)] /\ g[1 .. 0] = 0
                /\ \A k \in 0 .. Len(s) - 1 : g[1 .. k + 1] = g[1 .. k] + s[k + 1]
<1>1. PICK n \in Nat : n = Len(s) /\ DOMAIN s = 1 .. n
  OBVIOUS
<1>2. PICK g : Total(s) = g[1 .. n] /\ Folds("total", 0, s, 1 .. n, g)
  <2>1. \E f : Folds("total", 0, s, 1 .. n, f)
    BY FoldsExist
  <2>2. Total(s) = (CHOOSE f : Folds("total", 0, s, 1 .. n, f))[1 .. n]
    BY <1>1, TotalIs
  <2> QED
    BY <2>1, <2>2
<1>3. PICK D : D = 1 .. n
  OBVIOUS
<1>4. Folds("total", 0, s, D, g)
  BY <1>2, <1>3
<1>5. \A k \in 0 .. n - 1 : g[1 .. k + 1] = Taken("total", g[1 .. k], s[k + 1])
  BY <1>3, <1>4, FoldsAt
<1>6. g[1 .. 0] = 0
  BY <1>3, <1>4, FoldsAt
<1>7. \A u, x : Taken("total", u, x) = u + x
  BY DEF Taken
<1> QED
  BY <1>1, <1>2, <1>5, <1>6, <1>7

\* A sum of sizes is a size.
LEMMA TotalType == ASSUME NEW s \in Seq(Nat) PROVE Total(s) \in Nat
<1>1. PICK g : /\ Total(s) = g[1 .. Len(s)] /\ g[1 .. 0] = 0
               /\ \A k \in 0 .. Len(s) - 1 : g[1 .. k + 1] = g[1 .. k] + s[k + 1]
  BY TotalFold
<1> DEFINE S == {k \in Nat : k <= Len(s) => g[1 .. k] \in Nat}
<1>2. 0 \in S
  BY <1>1
<1>3. ASSUME NEW k \in Nat, k \in S PROVE k + 1 \in S
  <2> SUFFICES ASSUME k + 1 <= Len(s) PROVE g[1 .. k + 1] \in Nat
    OBVIOUS
  <2>1. g[1 .. k] \in Nat /\ s[k + 1] \in Nat /\ k \in 0 .. Len(s) - 1
    BY <1>3
  <2>2. g[1 .. k + 1] = g[1 .. k] + s[k + 1]
    BY <1>1, <2>1
  <2> QED
    BY <2>1, <2>2
<1> HIDE DEF S
<1>4. Nat \subseteq S
  BY <1>2, <1>3, Induction
<1>5. Len(s) \in Nat
  OBVIOUS
<1> QED
  BY <1>1, <1>4, <1>5 DEF S

\* Nothing has no tokens.
LEMMA TotalEmpty == Total(<<>>) = 0
<1>1. <<>> \in Seq(Nat) /\ Len(<<>>) = 0
  OBVIOUS
<1> QED
  BY <1>1, TotalFold

\* One more group adds its own size.
LEMMA TotalAppend ==
  ASSUME NEW s \in Seq(Nat), NEW x \in Nat
  PROVE  Total(Append(s, x)) = Total(s) + x
<1>1. PICK r \in Seq(Nat) : /\ r = Append(s, x) /\ Len(r) = Len(s) + 1 /\ r[Len(s) + 1] = x
                            /\ \A i \in 1 .. Len(s) : r[i] = s[i]
  <2>1. Append(s, x) \in Seq(Nat) /\ Len(Append(s, x)) = Len(s) + 1 /\ Append(s, x)[Len(s) + 1] = x
    OBVIOUS
  <2>2. \A i \in 1 .. Len(s) : Append(s, x)[i] = s[i]
    OBVIOUS
  <2> QED
    BY <2>1, <2>2
<1>2. PICK g : /\ Total(s) = g[1 .. Len(s)] /\ g[1 .. 0] = 0
               /\ \A k \in 0 .. Len(s) - 1 : g[1 .. k + 1] = g[1 .. k] + s[k + 1]
  BY TotalFold
<1>3. PICK h : /\ Total(r) = h[1 .. Len(r)] /\ h[1 .. 0] = 0
               /\ \A k \in 0 .. Len(r) - 1 : h[1 .. k + 1] = h[1 .. k] + r[k + 1]
  BY TotalFold
<1> DEFINE S == {k \in Nat : k <= Len(s) => g[1 .. k] = h[1 .. k]}
<1>4. 0 \in S
  BY <1>2, <1>3
<1>5. ASSUME NEW k \in Nat, k \in S PROVE k + 1 \in S
  <2> SUFFICES ASSUME k + 1 <= Len(s) PROVE g[1 .. k + 1] = h[1 .. k + 1]
    OBVIOUS
  <2>1. k \in 0 .. Len(s) - 1 /\ k \in 0 .. Len(r) - 1 /\ k + 1 \in 1 .. Len(s)
    BY <1>1
  <2>2. g[1 .. k] = h[1 .. k] /\ r[k + 1] = s[k + 1]
    BY <1>1, <1>5, <2>1
  <2>3. g[1 .. k + 1] = g[1 .. k] + s[k + 1]
    BY <1>2, <2>1
  <2>4. h[1 .. k + 1] = h[1 .. k] + r[k + 1]
    BY <1>3, <2>1
  <2> QED
    BY <2>2, <2>3, <2>4
<1> HIDE DEF S
<1>6. Nat \subseteq S
  BY <1>4, <1>5, Induction
<1>7. Len(s) \in Nat /\ Len(s) \in 0 .. Len(r) - 1
  BY <1>1
<1>8. g[1 .. Len(s)] = h[1 .. Len(s)]
  BY <1>6, <1>7 DEF S
<1>9. h[1 .. Len(s) + 1] = h[1 .. Len(s)] + r[Len(s) + 1]
  BY <1>3, <1>7
<1> QED
  BY <1>1, <1>2, <1>3, <1>8, <1>9

\* The tokens of the groups from lo to hi.
LEMMA TokensNone ==
  ASSUME NEW s \in Seq(Nat), NEW lo \in Nat, NEW hi \in Nat, hi < lo
  PROVE  Tokens(s, lo, hi) = 0
<1>1. SubSeq(s, lo, hi) = <<>>
  BY SubSeqProperties
<1> QED
  BY <1>1, TotalEmpty DEF Tokens

\* One more group of those from lo on adds its own size.
LEMMA TokensMore ==
  ASSUME NEW s \in Seq(Nat), NEW lo \in Nat \ {0}, NEW k \in Nat, k < Len(s), lo <= k + 1
  PROVE  Tokens(s, lo, k + 1) = Tokens(s, lo, k) + s[k + 1] /\ Tokens(s, lo, k) \in Nat
<1>1. PICK u \in Seq(Nat) : u = SubSeq(s, lo, k)
  <2>1. SubSeq(s, lo, k) \in Seq(Nat)
    OBVIOUS
  <2> QED
    BY <2>1
<1>2. SubSeq(s, lo, k + 1) = Append(u, s[k + 1])
  BY <1>1
<1>3. s[k + 1] \in Nat
  OBVIOUS
<1>4. Total(Append(u, s[k + 1])) = Total(u) + s[k + 1]
  BY <1>3, TotalAppend
<1> QED
  BY <1>1, <1>2, <1>4, TotalType DEF Tokens

\* The tokens of groups of the thread are a number.
LEMMA TokensType ==
  ASSUME NEW s \in Seq(Nat), NEW lo \in Nat \ {0}, NEW hi \in Nat, hi <= Len(s)
  PROVE  Tokens(s, lo, hi) \in Nat
<1>1. SubSeq(s, lo, hi) \in Seq(Nat)
  OBVIOUS
<1> QED
  BY <1>1, TotalType DEF Tokens

\* The groups up to mid and those after it.
LEMMA TokensSplit ==
  ASSUME NEW s \in Seq(Nat), NEW lo \in Nat \ {0}, NEW mid \in Nat, NEW hi \in Nat,
         lo <= mid + 1, mid <= hi, hi <= Len(s)
  PROVE  Tokens(s, lo, hi) = Tokens(s, lo, mid) + Tokens(s, mid + 1, hi)
<1> DEFINE S == {k \in Nat : mid <= k /\ k <= Len(s) =>
                               Tokens(s, lo, k) = Tokens(s, lo, mid) + Tokens(s, mid + 1, k)}
<1>0. Tokens(s, lo, mid) \in Nat
  BY TokensType
<1>1. Tokens(s, mid + 1, mid) = 0
  BY TokensNone
<1>2. mid \in S
  BY <1>0, <1>1
<1>3. 0 \in S
  BY <1>2
<1>4. ASSUME NEW k \in Nat, k \in S PROVE k + 1 \in S
  <2>1. CASE mid <= k /\ k + 1 <= Len(s)
    <3>1. Tokens(s, lo, k) = Tokens(s, lo, mid) + Tokens(s, mid + 1, k)
      BY <1>4, <2>1
    <3>2. Tokens(s, lo, k + 1) = Tokens(s, lo, k) + s[k + 1] /\ Tokens(s, lo, k) \in Nat
      BY <2>1, TokensMore
    <3>3. /\ Tokens(s, mid + 1, k + 1) = Tokens(s, mid + 1, k) + s[k + 1]
          /\ Tokens(s, mid + 1, k) \in Nat
      BY <2>1, TokensMore
    <3>4. s[k + 1] \in Nat
      BY <2>1
    <3>5. Tokens(s, lo, k + 1) = Tokens(s, lo, mid) + Tokens(s, mid + 1, k + 1)
      BY <1>0, <3>1, <3>2, <3>3, <3>4
    <3> QED
      BY <3>5
  <2>2. CASE mid = k + 1
    BY <1>2, <2>2
  <2> QED
    BY <2>1, <2>2
<1> HIDE DEF S
<1>5. Nat \subseteq S
  BY <1>3, <1>4, Induction
<1> QED
  BY <1>5 DEF S

\* A set of numbers has a smallest one.
LEMMA Smallest ==
  ASSUME NEW S, S \subseteq Nat, S # {}
  PROVE  \E m \in S : \A i \in S : m <= i
<1>1. PICK x \in S : \A y \in S : ~ (<<y, x>> \in OpToRel(<, Nat))
  BY NatLessThanWellFounded, WFMin
<1>2. ASSUME NEW i \in S PROVE x <= i
  <2>1. ~(i < x) /\ i \in Nat /\ x \in Nat
    BY <1>1 DEF OpToRel
  <2> QED
    BY <2>1
<1> QED
  BY <1>2

\* The guard of a tenth, and the framing of messages, grow with the request.
LEMMA PercentGrows ==
  ASSUME NEW a \in Nat, NEW b \in Nat, a <= b
  PROVE  Percent(a, 10) <= Percent(b, 10) /\ Percent(a, 10) \in Nat /\ Percent(b, 10) \in Nat
  BY DEF Percent

LEMMA TimesGrows ==
  ASSUME NEW a \in Nat, NEW b \in Nat, a <= b, NEW f \in Nat
  PROVE  a * f <= b * f /\ a * f \in Nat /\ b * f \in Nat
<1>1. PICK d \in Nat : b = a + d
  <2>1. b - a \in Nat /\ b = a + (b - a)
    OBVIOUS
  <2> QED
    BY <2>1
<1>2. (a + d) * f = a * f + d * f
  OBVIOUS
<1>3. a * f \in Nat /\ d * f \in Nat
  OBVIOUS
<1> QED
  BY <1>1, <1>2, <1>3

\* A request of less is admitted.
LEMMA AdmittedLess ==
  ASSUME WindowAssumption, NEW t \in Nat, NEW u \in Nat, NEW m \in Nat, NEW n \in Nat,
         t <= u, m <= n, Admitted(u, n)
  PROVE  Admitted(t, m)
<1>1. PICK f \in Nat : f = Framing
  BY DEF WindowAssumption
<1>2. PICK a \in Nat, b \in Nat : a = m * f /\ b = n * f /\ a <= b
  BY TimesGrows
<1>3. PICK p \in Nat, q \in Nat : p = t + f + a /\ q = u + f + b /\ p <= q
  <2>1. t + f + a \in Nat /\ u + f + b \in Nat /\ t + f + a <= u + f + b
    BY <1>2
  <2> QED
    BY <2>1
<1>4. PICK v \in Nat, w \in Nat : v = Percent(p, 10) /\ w = Percent(q, 10) /\ v <= w
  BY <1>3, PercentGrows
<1>5. PICK c : c = Ceiling
  OBVIOUS
<1>6. q + Larger(f, w) <= c
  BY <1>1, <1>2, <1>3, <1>4, <1>5 DEF Admitted
<1>7. Larger(f, v) \in Nat /\ Larger(f, w) \in Nat /\ Larger(f, v) <= Larger(f, w)
  BY <1>4 DEF Larger
<1>8. c \in Nat
  <2>1. Window \in Nat
    BY DEF WindowAssumption
  <2>2. (Window * 95) \div 100 \in Nat
    BY <2>1
  <2> QED
    BY <1>5, <2>2 DEF Ceiling, Percent
<1>9. p + Larger(f, v) <= c
  BY <1>3, <1>6, <1>7, <1>8
<1> QED
  BY <1>1, <1>2, <1>3, <1>4, <1>5, <1>9 DEF Admitted

-----------------------------------------------------------------------------
(* The plan, and the admission of a request.                               *)

Bounds(groups, cp) == groups \in Seq(Nat) /\ cp.size \in Nat /\ cp.hi \in 0 .. Len(groups)

\* The plan takes all that is not covered exactly when that fits.
LEMMA PlanFrom ==
  ASSUME WindowAssumption, NEW groups, NEW cp, Bounds(groups, cp), NEW request \in Nat
  PROVE  /\ Plan(groups, cp, request).from \in cp.hi + 1 .. Len(groups) + 1
         /\ Plan(groups, cp, request).ok <=> System + request + cp.size <= Ceiling
         /\ System + request + cp.size <= Ceiling =>
              (Plan(groups, cp, request).from = cp.hi + 1 <=>
                 System + request + cp.size + Tokens(groups, cp.hi + 1, Len(groups)) <= Ceiling)
<1> DEFINE used == System + request + cp.size
           After(i) == used + Tokens(groups, i, Len(groups))
           fits == {i \in cp.hi + 1 .. Len(groups) + 1 : After(i) <= Ceiling}
           from == IF fits = {} THEN cp.hi + 1 ELSE CHOOSE i \in fits : \A j \in fits : i <= j
           h == cp.hi + 1
           n == Len(groups)
<1>1. Plan(groups, cp, request).from = from /\ (Plan(groups, cp, request).ok <=> used <= Ceiling)
  BY DEF Plan
<1>2. n \in Nat /\ h \in 1 .. n + 1 /\ used \in Nat /\ System \in Nat
  <2>1. System \in Nat
    BY DEF WindowAssumption
  <2>2. n \in Nat /\ cp.hi \in 0 .. n /\ cp.size \in Nat
    BY DEF Bounds
  <2>3. cp.hi + 1 \in 1 .. n + 1
    BY <2>2
  <2>4. System + request + cp.size \in Nat
    BY <2>1, <2>2
  <2> QED
    BY <2>1, <2>2, <2>3, <2>4
<1>3. fits \in SUBSET (h .. n + 1)
  OBVIOUS
<1>4. fits # {} => from \in fits /\ \A j \in fits : from <= j
  <2> SUFFICES ASSUME fits # {} PROVE from \in fits /\ \A j \in fits : from <= j
    OBVIOUS
  <2> HIDE DEF fits, h, n
  <2>1. fits \subseteq Nat
    BY <1>2, <1>3
  <2>2. \E i \in fits : \A j \in fits : i <= j
    BY <2>1, Smallest
  <2> QED
    BY <2>2
<1>5. from \in h .. n + 1
  <2>1. fits = {} => from = h
    OBVIOUS
  <2> HIDE DEF fits, from, h, n
  <2>2. fits # {} => from \in h .. n + 1
    BY <1>3, <1>4
  <2>3. h \in h .. n + 1
    BY <1>2
  <2> QED
    BY <2>1, <2>2, <2>3
<1>6. ASSUME used <= Ceiling PROVE from = h <=> After(h) <= Ceiling
  <2>1. After(n + 1) = used
    <3>1. Tokens(groups, n + 1, n) = 0
      BY <1>2, TokensNone DEF Bounds
    <3> QED
      BY <1>2, <3>1
  <2>2. n + 1 \in fits
    BY <1>2, <1>6, <2>1
  <2>3. After(h) <= Ceiling => h \in fits
    BY <1>2
  <2>4. \A i \in fits : After(i) <= Ceiling
    OBVIOUS
  <2> HIDE DEF fits, from, h, n, After, used
  <2> QED
    BY <1>2, <1>3, <1>4, <1>5, <2>2, <2>3, <2>4
<1> HIDE DEF from
<1> QED
  BY <1>1, <1>5, <1>6

\* The messages of a prompt besides the system's and the groups'.
LEMMA Optional ==
  ASSUME NEW a \in Nat, NEW b \in Nat
  PROVE  Cardinality({n \in {a, b} : n # 0}) =
           IF a = 0 THEN (IF b = 0 THEN 0 ELSE 1) ELSE (IF b \in {0, a} THEN 1 ELSE 2)
<1> DEFINE S == {n \in {a, b} : n # 0}
<1>1. a = 0 /\ b = 0 => Cardinality(S) = 0
  <2>1. a = 0 /\ b = 0 => S = {}
    OBVIOUS
  <2> HIDE DEF S
  <2> QED
    BY <2>1, FS_EmptySet
<1>2. a = 0 /\ b # 0 => Cardinality(S) = 1
  <2>1. a = 0 /\ b # 0 => S = {b}
    OBVIOUS
  <2> HIDE DEF S
  <2> QED
    BY <2>1, FS_Singleton
<1>3. a # 0 /\ b \in {0, a} => Cardinality(S) = 1
  <2>1. a # 0 /\ b \in {0, a} => S = {a}
    OBVIOUS
  <2> HIDE DEF S
  <2> QED
    BY <2>1, FS_Singleton
<1>4. a # 0 /\ b \notin {0, a} => Cardinality(S) = 2
  <2>1. PICK A : A = {a} /\ IsFiniteSet(A) /\ Cardinality(A) = 1
    BY FS_Singleton
  <2>2. a # 0 /\ b \notin {0, a} => S = A \cup {b} /\ b \notin A
    BY <2>1
  <2>3. b \notin A => Cardinality(A \cup {b}) = Cardinality(A) + 1
    BY <2>1, FS_AddElement
  <2> HIDE DEF S
  <2>4. 1 + 1 = 2
    OBVIOUS
  <2> QED
    BY <2>1, <2>2, <2>3, <2>4
<1> HIDE DEF S
<1>5. Cardinality(S) = IF a = 0 THEN (IF b = 0 THEN 0 ELSE 1) ELSE (IF b \in {0, a} THEN 1 ELSE 2)
  BY <1>1, <1>2, <1>3, <1>4
<1> QED
  BY <1>5 DEF S

\* A request fits when its whole history is within the ceiling and admitted.
LEMMA FitsIs ==
  ASSUME WindowAssumption, NEW groups, NEW cp, Bounds(groups, cp), NEW request \in Nat
  PROVE  Fits(groups, cp, request) <=>
           /\ System + request + cp.size <= Ceiling
           /\ System + request + cp.size + Tokens(groups, cp.hi + 1, Len(groups)) <= Ceiling
           /\ ViewAdmitted(groups, cp, cp.hi + 1, request)
<1> DEFINE p == Plan(groups, cp, request)
<1>1. Fits(groups, cp, request) <=>
        p.ok /\ p.from = cp.hi + 1 /\ ViewAdmitted(groups, cp, p.from, request)
  BY DEF Fits
<1>2. p.ok <=> System + request + cp.size <= Ceiling
  BY PlanFrom
<1>3. System + request + cp.size <= Ceiling =>
        (p.from = cp.hi + 1 <=>
           System + request + cp.size + Tokens(groups, cp.hi + 1, Len(groups)) <= Ceiling)
  BY PlanFrom
<1> HIDE DEF p
<1> QED
  BY <1>1, <1>2, <1>3

\* With a checkpoint that is smaller than what it replaces, what fits still fits.
LEMMA FitsSmaller ==
  ASSUME WindowAssumption, NEW groups, NEW cp, Bounds(groups, cp), NEW c, Bounds(groups, c),
         NEW request \in Nat, cp.hi < c.hi, Fits(groups, cp, request),
         c.size < Tokens(groups, cp.hi + 1, c.hi) + cp.size
  PROVE  Fits(groups, c, request)
<1>1. PICK n \in Nat : n = Len(groups)
  BY DEF Bounds
<1>2. PICK h \in 0 .. n, k \in 0 .. n : h = cp.hi /\ k = c.hi /\ h < k
  BY <1>1 DEF Bounds
<1>3. PICK s \in Nat, z \in Nat : s = cp.size /\ z = c.size
  BY DEF Bounds
<1>4. PICK x \in Nat, y \in Nat : /\ x = Tokens(groups, h + 1, k) /\ y = Tokens(groups, k + 1, n)
                                  /\ Tokens(groups, h + 1, n) = x + y
  <2>1. PICK g \in Seq(Nat) : g = groups /\ Len(g) = n
    BY <1>1 DEF Bounds
  <2>2. PICK i \in Nat \ {0}, j \in Nat \ {0} : i = h + 1 /\ j = k + 1
    OBVIOUS
  <2>3. h < k
    BY <1>2
  <2>4. k \in Nat /\ h + 1 <= k + 1 /\ k <= n /\ n <= n
    BY <2>3
  <2>5. i <= k + 1 /\ k <= Len(g) /\ n <= Len(g)
    BY <2>1, <2>2, <2>4
  <2>6. Tokens(g, i, k) \in Nat
    BY <2>4, <2>5, TokensType
  <2>7. Tokens(g, j, n) \in Nat
    BY <2>5, TokensType
  <2>8. Tokens(g, i, n) = Tokens(g, i, k) + Tokens(g, k + 1, n)
    BY <2>4, <2>5, TokensSplit
  <2> QED
    BY <2>1, <2>2, <2>6, <2>7, <2>8
<1>5. z < x + s
  BY <1>2, <1>3, <1>4
<1>6. PICK e : e = Ceiling
  OBVIOUS
<1>7. PICK b \in Nat, t \in Nat : b = System /\ t = Tools
  BY DEF WindowAssumption
<1>8. /\ b + request + s <= e /\ b + request + s + (x + y) <= e
      /\ ViewAdmitted(groups, cp, h + 1, request)
  BY <1>1, <1>2, <1>3, <1>4, <1>6, <1>7, FitsIs
<1>9. e \in Nat
  <2>1. Window \in Nat
    BY DEF WindowAssumption
  <2>2. (Window * 95) \div 100 \in Nat
    BY <2>1
  <2> QED
    BY <1>6, <2>2 DEF Ceiling, Percent
<1>10. b + request + z <= e /\ b + request + z + y <= e
  BY <1>5, <1>8, <1>9
<1>11. ViewAdmitted(groups, c, k + 1, request)
  <2>1. PICK o \in {0, 1, 2}, p \in {0, 1, 2} :
          /\ o = Cardinality({i \in {s, request} : i # 0})
          /\ p = Cardinality({i \in {z, request} : i # 0})
          /\ p <= o + 1
    <3>1. Cardinality({i \in {s, request} : i # 0}) =
            IF s = 0 THEN (IF request = 0 THEN 0 ELSE 1) ELSE (IF request \in {0, s} THEN 1 ELSE 2)
      BY Optional
    <3>2. Cardinality({i \in {z, request} : i # 0}) =
            IF z = 0 THEN (IF request = 0 THEN 0 ELSE 1) ELSE (IF request \in {0, z} THEN 1 ELSE 2)
      BY Optional
    <3> QED
      BY <3>1, <3>2
  <2>2. Admitted(b + t + s + (x + y) + request, 1 + o + n - (h + 1) + 1)
    BY <1>1, <1>2, <1>3, <1>4, <1>7, <1>8, <2>1 DEF ViewAdmitted
  <2>3. /\ b + t + z + y + request \in Nat /\ b + t + s + (x + y) + request \in Nat
        /\ b + t + z + y + request <= b + t + s + (x + y) + request
    BY <1>5
  <2>4. /\ 1 + p + n - (k + 1) + 1 \in Nat /\ 1 + o + n - (h + 1) + 1 \in Nat
        /\ 1 + p + n - (k + 1) + 1 <= 1 + o + n - (h + 1) + 1
    BY <1>2, <2>1
  <2>5. Admitted(b + t + z + y + request, 1 + p + n - (k + 1) + 1)
    BY <2>2, <2>3, <2>4, AdmittedLess
  <2> QED
    BY <1>1, <1>2, <1>3, <1>4, <1>7, <2>1, <2>5 DEF ViewAdmitted
<1> QED
  BY <1>1, <1>2, <1>3, <1>4, <1>6, <1>7, <1>10, <1>11, FitsIs

\* What is left to summarize ends within the thread.
LEMMA CandidateWithin ==
  ASSUME WindowAssumption, Bounds(turns, checkpoint), NEW keep \in Nat, NEW request \in Nat
  PROVE  LastCandidate(keep, Plan(turns, checkpoint, request)) \in Covered .. Len(turns)
<1>1. PICK f : f = Plan(turns, checkpoint, request).from
  OBVIOUS
<1>2. f \in Covered + 1 .. Len(turns) + 1
  <2>1. PICK g, c : g = turns /\ c = checkpoint
    OBVIOUS
  <2>2. Plan(g, c, request).from \in c.hi + 1 .. Len(g) + 1
    BY <2>1, PlanFrom
  <2> QED
    BY <1>1, <2>1, <2>2 DEF Covered
<1>3. PICK n \in Nat : n = Len(turns)
  BY DEF Bounds
<1>4. PICK h \in 0 .. n : h = Covered
  BY <1>3 DEF Bounds, Covered
<1>5. f - 1 \in h .. n
  BY <1>2, <1>3, <1>4
<1>6. (IF n > h + keep THEN n - keep ELSE h) \in h .. n
  BY <1>4
<1> QED
  BY <1>1, <1>3, <1>4, <1>5, <1>6 DEF LastCandidate, Larger

-----------------------------------------------------------------------------
(* Chunks: what follows one another without gap or overlap.                *)

\* Sources that follow one another from lo to hi.
Sources == [lo : Nat, hi : Nat]
Covers(s, lo, hi) ==
  IF s = <<>> THEN lo = hi + 1
  ELSE /\ s[1].lo = lo /\ Last(s).hi = hi
       /\ \A i \in 1 .. Len(s) : s[i].lo <= s[i].hi
       /\ \A i \in 2 .. Len(s) : s[i].lo = s[i - 1].hi + 1

\* One more at the end covers what it ends with.
LEMMA CoversMore ==
  ASSUME NEW R, NEW s \in Seq(R), NEW x \in R, NEW lo, NEW hi, Covers(s, lo, hi),
         x.lo = hi + 1, x.lo <= x.hi
  PROVE  Covers(Append(s, x), lo, x.hi)
<1>1. PICK n \in Nat : n = Len(s)
  OBVIOUS
<1>2. PICK r \in Seq(R) : /\ r = Append(s, x) /\ Len(r) = n + 1 /\ r[n + 1] = x
                          /\ \A i \in 1 .. n : r[i] = s[i]
  <2>1. /\ Append(s, x) \in Seq(R) /\ Len(Append(s, x)) = n + 1 /\ Append(s, x)[n + 1] = x
        /\ \A i \in 1 .. n : Append(s, x)[i] = s[i]
    BY <1>1
  <2> QED
    BY <2>1
<1>3. r # <<>> /\ Last(r) = x
  BY <1>2 DEF Last
<1>4. CASE n = 0
  <2>1. s = <<>>
    <3>1. Len(s) = 0
      BY <1>1, <1>4
    <3> QED
      BY <3>1
  <2>2. lo = hi + 1
    BY <2>1 DEF Covers
  <2>3. r[1] = x
    BY <1>2, <1>4
  <2>4. \A i \in 1 .. Len(r) : r[i].lo <= r[i].hi
    BY <1>2, <1>4, <2>3
  <2>5. \A i \in 2 .. Len(r) : r[i].lo = r[i - 1].hi + 1
    BY <1>2, <1>4
  <2> QED
    BY <1>2, <1>3, <2>2, <2>3, <2>4, <2>5 DEF Covers
<1>5. CASE n # 0
  <2>1. s # <<>>
    BY <1>1, <1>5
  <2>2. /\ s[1].lo = lo /\ s[n].hi = hi
        /\ \A i \in 1 .. n : s[i].lo <= s[i].hi
        /\ \A i \in 2 .. n : s[i].lo = s[i - 1].hi + 1
    BY <1>1, <2>1 DEF Covers, Last
  <2>3. r[1].lo = lo
    BY <1>2, <1>5, <2>2
  <2>4. ASSUME NEW i \in 1 .. n + 1 PROVE r[i].lo <= r[i].hi
    <3>1. CASE i \in 1 .. n
      BY <1>2, <2>2, <3>1
    <3>2. CASE i = n + 1
      BY <1>2, <3>2
    <3> QED
      BY <3>1, <3>2
  <2>5. ASSUME NEW i \in 2 .. n + 1 PROVE r[i].lo = r[i - 1].hi + 1
    <3>1. CASE i \in 2 .. n
      <4>1. i \in 1 .. n /\ i - 1 \in 1 .. n
        BY <3>1
      <4> QED
        BY <1>2, <2>2, <3>1, <4>1
    <3>2. CASE i = n + 1
      <4>1. i - 1 = n /\ n \in 1 .. n
        BY <1>5, <3>2
      <4> QED
        BY <1>2, <2>2, <3>2, <4>1
    <3> QED
      BY <3>1, <3>2
  <2> QED
    BY <1>2, <1>3, <2>3, <2>4, <2>5 DEF Covers
<1> QED
  BY <1>4, <1>5

\* Without the last.
LEMMA CoversFront ==
  ASSUME NEW R, NEW s \in Seq(R), s # <<>>, NEW lo, NEW hi, Covers(s, lo, hi),
         \A r \in R : r.lo \in Nat /\ r.hi \in Nat
  PROVE  /\ Front(s) \in Seq(R) /\ Covers(Front(s), lo, Last(s).lo - 1)
         /\ Last(s) \in R /\ Last(s).lo <= hi /\ Last(s).hi = hi
<1>1. PICK n \in Nat \ {0} : n = Len(s)
  OBVIOUS
<1>2. /\ s[1].lo = lo /\ s[n].hi = hi
      /\ \A i \in 1 .. n : s[i].lo <= s[i].hi
      /\ \A i \in 2 .. n : s[i].lo = s[i - 1].hi + 1
  BY <1>1 DEF Covers, Last
<1>3. Last(s) = s[n] /\ n \in 1 .. n /\ s[n] \in R
  BY <1>1 DEF Last
<1>4. PICK f \in Seq(R) : /\ f = Front(s) /\ Len(f) = n - 1
                          /\ \A i \in 1 .. n - 1 : f[i] = s[i]
  <2>1. n - 1 \in Nat
    OBVIOUS
  <2>2. SubSeq(s, 1, n - 1) \in Seq(R) /\ Len(SubSeq(s, 1, n - 1)) = n - 1
    BY <1>1, <2>1
  <2>3. \A i \in 1 .. n - 1 : SubSeq(s, 1, n - 1)[i] = s[i]
    BY <1>1, <2>1
  <2> QED
    BY <1>1, <2>2, <2>3 DEF Front
<1>5. Covers(f, lo, s[n].lo - 1)
  <2>1. CASE n = 1
    <3>1. f = <<>>
      BY <1>4, <2>1
    <3>2. s[n].lo = lo /\ lo \in Nat
      BY <1>2, <1>3, <2>1
    <3> QED
      BY <3>1, <3>2 DEF Covers
  <2>2. CASE n # 1
    <3>1. n - 1 \in 1 .. n - 1 /\ 1 \in 1 .. n - 1 /\ n \in 2 .. n
      BY <2>2
    <3>2. f # <<>> /\ Last(f) = s[n - 1] /\ f[1].lo = lo
      BY <1>2, <1>4, <3>1 DEF Last
    <3>3. s[n].lo = s[n - 1].hi + 1 /\ s[n - 1].hi \in Nat
      <4>1. s[n - 1] \in R
        BY <1>1, <3>1
      <4> QED
        BY <1>2, <3>1, <4>1
    <3>4. \A i \in 1 .. n - 1 : f[i].lo <= f[i].hi
      <4>1. \A i \in 1 .. n - 1 : i \in 1 .. n
        OBVIOUS
      <4> QED
        BY <1>2, <1>4, <4>1
    <3>5. \A i \in 2 .. n - 1 : f[i].lo = f[i - 1].hi + 1
      <4> SUFFICES ASSUME NEW i \in 2 .. n - 1 PROVE f[i].lo = f[i - 1].hi + 1
        OBVIOUS
      <4>1. i \in 1 .. n - 1 /\ i - 1 \in 1 .. n - 1 /\ i \in 2 .. n
        OBVIOUS
      <4> QED
        BY <1>2, <1>4, <4>1
    <3>6. s[n].lo - 1 = s[n - 1].hi
      BY <3>3
    <3> QED
      BY <1>4, <3>2, <3>4, <3>5, <3>6 DEF Covers
  <2> QED
    BY <2>1, <2>2
<1> QED
  BY <1>2, <1>3, <1>4, <1>5

\* Without the first.
LEMMA CoversTail ==
  ASSUME NEW R, NEW s \in Seq(R), s # <<>>, NEW lo, NEW hi, Covers(s, lo, hi)
  PROVE  /\ Tail(s) \in Seq(R) /\ Covers(Tail(s), Head(s).hi + 1, hi)
         /\ Head(s) \in R /\ Head(s).lo = lo /\ Head(s).lo <= Head(s).hi
<1>1. PICK n \in Nat \ {0} : n = Len(s)
  OBVIOUS
<1>2. /\ s[1].lo = lo /\ s[n].hi = hi
      /\ \A i \in 1 .. n : s[i].lo <= s[i].hi
      /\ \A i \in 2 .. n : s[i].lo = s[i - 1].hi + 1
  BY <1>1 DEF Covers, Last
<1>3. Head(s) = s[1] /\ 1 \in 1 .. n /\ s[1] \in R
  BY <1>1
<1>4. PICK f \in Seq(R) : /\ f = Tail(s) /\ Len(f) = n - 1
                          /\ \A i \in 1 .. n - 1 : f[i] = s[i + 1]
  <2>1. /\ Tail(s) \in Seq(R) /\ Len(Tail(s)) = n - 1
        /\ \A i \in 1 .. n - 1 : Tail(s)[i] = s[i + 1]
    BY <1>1
  <2> QED
    BY <2>1
<1>5. Covers(f, s[1].hi + 1, hi)
  <2>1. CASE n = 1
    <3>1. f = <<>>
      BY <1>4, <2>1
    <3> QED
      BY <1>2, <2>1, <3>1 DEF Covers
  <2>2. CASE n # 1
    <3>1. /\ n - 1 \in 1 .. n - 1 /\ 1 \in 1 .. n - 1 /\ 2 \in 2 .. n
          /\ (n - 1) + 1 = n /\ 1 + 1 = 2 /\ 2 - 1 = 1
      BY <2>2
    <3>2. f[n - 1] = s[(n - 1) + 1] /\ f[1] = s[1 + 1]
      BY <1>4, <3>1
    <3>3. f # <<>>
      <4>1. Len(f) = n - 1 /\ n - 1 # 0
        BY <1>4, <2>2
      <4> QED
        BY <4>1
    <3>4. f # <<>> /\ f[n - 1] = s[n] /\ f[1] = s[2]
      BY <3>1, <3>2, <3>3
    <3>5. Last(f) = s[n]
      BY <1>4, <3>4 DEF Last
    <3>6. s[2].lo = s[1].hi + 1
      BY <1>2, <3>1
    <3>7. \A i \in 1 .. n - 1 : f[i].lo <= f[i].hi
      <4> SUFFICES ASSUME NEW i \in 1 .. n - 1 PROVE f[i].lo <= f[i].hi
        OBVIOUS
      <4>1. i + 1 \in 1 .. n
        OBVIOUS
      <4> QED
        BY <1>2, <1>4, <4>1
    <3>8. \A i \in 2 .. n - 1 : f[i].lo = f[i - 1].hi + 1
      <4> SUFFICES ASSUME NEW i \in 2 .. n - 1 PROVE f[i].lo = f[i - 1].hi + 1
        OBVIOUS
      <4>1. /\ i \in 1 .. n - 1 /\ i - 1 \in 1 .. n - 1 /\ i + 1 \in 2 .. n
            /\ (i - 1) + 1 = i /\ (i + 1) - 1 = i
        OBVIOUS
      <4>2. f[i] = s[i + 1] /\ f[i - 1] = s[i]
        BY <1>4, <4>1
      <4> QED
        BY <1>2, <4>1, <4>2
    <3> QED
      BY <1>2, <1>4, <3>4, <3>5, <3>6, <3>7, <3>8 DEF Covers
  <2> QED
    BY <2>1, <2>2
<1> QED
  BY <1>2, <1>3, <1>4, <1>5

\* Each of them is within the whole.
LEMMA CoversWithin ==
  ASSUME NEW R, NEW s \in Seq(R), NEW lo \in Nat, NEW hi \in Nat, Covers(s, lo, hi),
         \A r \in R : r.lo \in Nat /\ r.hi \in Nat
  PROVE  \A i \in 1 .. Len(s) : lo <= s[i].lo /\ s[i].lo <= s[i].hi /\ s[i].hi <= hi
<1>1. PICK n \in Nat : n = Len(s)
  OBVIOUS
<1> SUFFICES ASSUME NEW i \in 1 .. n PROVE lo <= s[i].lo /\ s[i].lo <= s[i].hi /\ s[i].hi <= hi
  BY <1>1
<1>2. /\ s[1].lo = lo /\ s[n].hi = hi
      /\ \A j \in 1 .. n : s[j].lo <= s[j].hi
      /\ \A j \in 2 .. n : s[j].lo = s[j - 1].hi + 1
  <2>1. s # <<>>
    BY <1>1
  <2> QED
    BY <1>1, <2>1 DEF Covers, Last
<1>3. \A j \in 1 .. n : s[j].lo \in Nat /\ s[j].hi \in Nat
  <2>1. \A j \in 1 .. n : s[j] \in R
    BY <1>1
  <2> QED
    BY <2>1
<1> DEFINE A == {k \in Nat : k + 1 <= n => lo <= s[k + 1].lo}
           B == {k \in Nat : k < n => s[n - k].hi <= hi}
<1>4. 0 \in A /\ 0 \in B
  BY <1>2
<1>5. ASSUME NEW k \in Nat, k \in A PROVE k + 1 \in A
  <2> SUFFICES ASSUME (k + 1) + 1 <= n PROVE lo <= s[(k + 1) + 1].lo
    OBVIOUS
  <2>1. PICK j \in 1 .. n, m \in 2 .. n : j = k + 1 /\ m = (k + 1) + 1 /\ m - 1 = j /\ m \in 1 .. n
    OBVIOUS
  <2>2. lo <= s[j].lo
    BY <1>5, <2>1
  <2>3. s[j].lo <= s[j].hi /\ s[m].lo = s[j].hi + 1
    BY <1>2, <2>1
  <2>4. s[j].lo \in Nat /\ s[j].hi \in Nat /\ s[m].lo \in Nat
    BY <1>3, <2>1
  <2> QED
    BY <2>1, <2>2, <2>3, <2>4
<1>6. ASSUME NEW k \in Nat, k \in B PROVE k + 1 \in B
  <2> SUFFICES ASSUME k + 1 < n PROVE s[n - (k + 1)].hi <= hi
    OBVIOUS
  <2>1. PICK j \in 1 .. n, m \in 2 .. n : j = n - (k + 1) /\ m = n - k /\ m - 1 = j /\ m \in 1 .. n
    OBVIOUS
  <2>2. s[m].hi <= hi
    BY <1>6, <2>1
  <2>3. s[m].lo <= s[m].hi /\ s[m].lo = s[j].hi + 1
    BY <1>2, <2>1
  <2>4. s[m].lo \in Nat /\ s[m].hi \in Nat /\ s[j].hi \in Nat
    BY <1>3, <2>1
  <2> QED
    BY <2>1, <2>2, <2>3, <2>4
<1>7. i - 1 \in Nat /\ (i - 1) + 1 = i /\ n - i \in Nat /\ n - (n - i) = i /\ n - i < n /\ i <= n
  BY <1>1
<1> HIDE DEF A, B
<1>8. i - 1 \in A /\ n - i \in B
  <2>1. Nat \subseteq A
    BY <1>4, <1>5, Induction
  <2>2. Nat \subseteq B
    BY <1>4, <1>6, Induction
  <2> QED
    BY <1>7, <2>1, <2>2
<1>9. lo <= s[i].lo /\ s[i].hi <= hi
  BY <1>7, <1>8 DEF A, B
<1> QED
  BY <1>2, <1>9

\* One more group is put into the last chunk or begins one.
LEMMA ExtendedCovers ==
  ASSUME NEW c \in Seq(Sources), NEW lo \in Nat, NEW i \in Nat, Covers(c, lo, i - 1)
  PROVE  /\ Extended(c, i) \in Seq(Sources) /\ Extended(c, i) # <<>>
         /\ Covers(Extended(c, i), lo, i)
<1>0. \A r \in Sources : r.lo \in Nat /\ r.hi \in Nat
  BY DEF Sources
<1>1. ASSUME NEW s \in Seq(Sources), NEW l \in Nat, NEW h, l <= i, h + 1 = l, Covers(s, lo, h),
             Extended(c, i) = Append(s, [lo |-> l, hi |-> i])
      PROVE  /\ Extended(c, i) \in Seq(Sources) /\ Extended(c, i) # <<>>
             /\ Covers(Extended(c, i), lo, i)
  <2>1. [lo |-> l, hi |-> i] \in Sources
    BY DEF Sources
  <2>2. PICK x \in Sources : x = [lo |-> l, hi |-> i] /\ x.lo = l /\ x.hi = i
    BY <2>1
  <2>3. x.lo = h + 1 /\ x.lo <= x.hi /\ Covers(s, lo, h)
    BY <1>1, <2>2
  <2>4. Covers(Append(s, x), lo, x.hi)
    BY <2>3, CoversMore
  <2>5. Append(s, x) \in Seq(Sources) /\ Append(s, x) # <<>>
    <3>1. Append(s, x) \in Seq(Sources) /\ Len(Append(s, x)) = Len(s) + 1 /\ Len(s) + 1 # 0
      OBVIOUS
    <3> QED
      BY <3>1
  <2> QED
    BY <1>1, <2>2, <2>4, <2>5
<1>2. CASE c # <<>> /\ Extended(c, i) = Front(c) \o <<[lo |-> Last(c).lo, hi |-> i]>>
  <2>1. /\ Front(c) \in Seq(Sources) /\ Covers(Front(c), lo, Last(c).lo - 1)
        /\ Last(c) \in Sources /\ Last(c).lo <= i - 1
    BY <1>0, <1>2, CoversFront
  <2>2. PICK l \in Nat : l = Last(c).lo /\ l <= i
    BY <1>0, <2>1
  <2>3. PICK s \in Seq(Sources) : s = Front(c)
    BY <2>1
  <2>4. [lo |-> l, hi |-> i] \in Sources
    BY DEF Sources
  <2>5. s \o <<[lo |-> l, hi |-> i]>> = Append(s, [lo |-> l, hi |-> i])
    BY <2>4
  <2>6. (l - 1) + 1 = l
    OBVIOUS
  <2>7. Covers(s, lo, l - 1) /\ Extended(c, i) = Append(s, [lo |-> l, hi |-> i])
    BY <1>2, <2>1, <2>2, <2>3, <2>5
  <2> QED
    BY <1>1, <2>2, <2>6, <2>7
<1>3. CASE Extended(c, i) = Append(c, [lo |-> i, hi |-> i])
  <2>1. (i - 1) + 1 = i /\ i <= i
    OBVIOUS
  <2> QED
    BY <1>1, <1>3, <2>1
<1>4. \/ c # <<>> /\ Extended(c, i) = Front(c) \o <<[lo |-> Last(c).lo, hi |-> i]>>
      \/ Extended(c, i) = Append(c, [lo |-> i, hi |-> i])
  BY DEF Extended
<1> QED
  BY <1>2, <1>3, <1>4

\* The chunks of a compaction follow one another through all it covers.
LEMMA ChunksCover ==
  ASSUME NEW lo \in Nat, NEW hi \in Nat, lo <= hi
  PROVE  Chunks(lo, hi) \in Seq(Sources) /\ Chunks(lo, hi) # <<>> /\ Covers(Chunks(lo, hi), lo, hi)
<1>1. PICK n \in Nat \ {0} : n = hi - lo + 1
  <2>1. hi - lo + 1 \in Nat \ {0}
    OBVIOUS
  <2> QED
    BY <2>1
<1>2. PICK s : s = [i \in 1 .. n |-> lo + i - 1]
  OBVIOUS
<1>3. PICK D : D = 1 .. n /\ DOMAIN s = D
  BY <1>2
<1>4. PICK g : Chunks(lo, hi) = g[D] /\ Folds("chunks", <<>>, s, D, g)
  <2>1. \E f : Folds("chunks", <<>>, s, D, f)
    BY <1>3, FoldsExist
  <2>2. s = [i \in 1 .. hi - lo + 1 |-> lo + i - 1]
    BY <1>1, <1>2
  <2>3. Chunks(lo, hi) = (CHOOSE f : Folds("chunks", <<>>, s, D, f))[D]
    BY <1>3, <2>2, ChunksIs
  <2> QED
    BY <2>1, <2>3
<1>5. g[1 .. 0] = <<>> /\ \A k \in 0 .. n - 1 : g[1 .. k + 1] = Taken("chunks", g[1 .. k], s[k + 1])
  <2>1. n \in Nat /\ D = 1 .. n
    BY <1>3
  <2>2. PICK b : b = <<>>
    OBVIOUS
  <2>3. Folds("chunks", b, s, D, g)
    BY <1>4, <2>2
  <2>4. g[1 .. 0] = b /\ \A k \in 0 .. n - 1 : g[1 .. k + 1] = Taken("chunks", g[1 .. k], s[k + 1])
    <3>1. PICK kind : kind = "chunks"
      OBVIOUS
    <3>2. Folds(kind, b, s, D, g)
      BY <2>3, <3>1
    <3>3. g[1 .. 0] = b
      BY <2>1, <3>2, FoldsAt
    <3>4. \A k \in 0 .. n - 1 : g[1 .. k + 1] = Taken(kind, g[1 .. k], s[k + 1])
      BY <2>1, <3>2, FoldsAt
    <3> QED
      BY <3>1, <3>3, <3>4
  <2> QED
    BY <2>2, <2>4
<1>6. \A u, x : Taken("chunks", u, x) = Extended(u, x)
  BY DEF Taken
<1> DEFINE S == {k \in Nat : k <= n => /\ g[1 .. k] \in Seq(Sources)
                                       /\ Covers(g[1 .. k], lo, lo + k - 1)
                                       /\ k # 0 => g[1 .. k] # <<>>}
<1>7. 0 \in S
  <2>1. <<>> \in Seq(Sources)
    OBVIOUS
  <2>2. (lo + 0 - 1) + 1 = lo
    OBVIOUS
  <2>3. Covers(<<>>, lo, lo + 0 - 1)
    BY <2>2 DEF Covers
  <2> QED
    BY <1>5, <2>1, <2>3
<1>8. ASSUME NEW k \in Nat, k \in S PROVE k + 1 \in S
  <2> SUFFICES ASSUME k + 1 <= n
               PROVE  /\ g[1 .. k + 1] \in Seq(Sources)
                      /\ Covers(g[1 .. k + 1], lo, lo + (k + 1) - 1)
                      /\ g[1 .. k + 1] # <<>>
    OBVIOUS
  <2>1. k \in 0 .. n - 1 /\ k + 1 \in 1 .. n /\ k <= n
    OBVIOUS
  <2>2. PICK c \in Seq(Sources) : c = g[1 .. k] /\ Covers(c, lo, lo + k - 1)
    BY <1>8, <2>1
  <2>3. PICK i \in Nat : i = lo + k /\ s[k + 1] = i /\ lo + k - 1 = i - 1 /\ lo + (k + 1) - 1 = i
    <3>1. s[k + 1] = lo + (k + 1) - 1
      BY <1>2, <2>1
    <3>2. lo + k \in Nat /\ lo + (k + 1) - 1 = lo + k /\ lo + k - 1 = (lo + k) - 1
      OBVIOUS
    <3> QED
      BY <3>1, <3>2
  <2>4. g[1 .. k + 1] = Extended(c, i)
    BY <1>5, <1>6, <2>1, <2>2, <2>3
  <2>5. Covers(c, lo, i - 1)
    BY <2>2, <2>3
  <2>6. /\ Extended(c, i) \in Seq(Sources) /\ Extended(c, i) # <<>>
        /\ Covers(Extended(c, i), lo, i)
    BY <2>5, ExtendedCovers
  <2> QED
    BY <2>3, <2>4, <2>6
<1> HIDE DEF S
<1>9. n \in S
  BY <1>7, <1>8, Induction
<1>10. lo + n - 1 = hi /\ n <= n /\ n # 0
  BY <1>1
<1>11. g[1 .. n] \in Seq(Sources) /\ Covers(g[1 .. n], lo, lo + n - 1) /\ g[1 .. n] # <<>>
  BY <1>9, <1>10 DEF S
<1> QED
  BY <1>3, <1>4, <1>10, <1>11

-----------------------------------------------------------------------------
(* The invariant of compaction, part by part.                              *)

Answers == [lo : Nat, hi : Nat, size : Nat, cites : SUBSET Nat, parts : {<<>>}]
Checkpoints == [lo : Nat, hi : Nat, size : Nat, cites : SUBSET Nat, parts : Seq(Answers)]
Ops == [lo : Nat, hi : Nat, automatic : BOOLEAN, asked : BOOLEAN, pausedAt : BOOLEAN,
        known : Nat, chunks : Seq(Sources), split : BOOLEAN, parts : Seq(Answers),
        answer : Answers]

Compacting == pc \in {"compacting", "installing"}

PlaceInv ==
  /\ turns \in Seq(GroupSizes) /\ Len(turns) <= MaxTurns
  /\ checkpoint \in Checkpoints /\ checkpoint.hi <= Len(turns)
  /\ checkpoint.size # 0 => checkpoint.hi # 0
  /\ paused \in BOOLEAN
  /\ pc \in {"idle", "admitting", "admitted", "running", "compacting", "installing"}
  /\ ask.seen <= Len(turns)

\* A compaction takes groups of the thread from the first that is not covered.
OpInv ==
  /\ op \in Ops /\ op.automatic \in {op.asked, TRUE}
  /\ ~Compacting => op = NoOp
  /\ Compacting => /\ op.lo = Covered + 1 /\ op.lo <= op.hi /\ op.hi <= Len(turns)
                   /\ op.known <= Len(turns)

\* The chunks that are answered and those that are not are what is compacted.
PartsInv ==
  /\ Compacting /\ op.split =>
       \E m \in Nat : Covers(op.parts, op.lo, m) /\ Covers(op.chunks, m + 1, op.hi)
  /\ Compacting /\ ~op.split => op.parts = <<>> /\ op.chunks = <<>>
  /\ \A i \in DOMAIN op.parts : op.parts[i].cites \subseteq op.parts[i].lo .. op.parts[i].hi

\* The answer to be installed has what the checkpoint must have.
AnswerInv ==
  pc = "installing" =>
    /\ op.chunks = <<>>
    /\ op.answer.lo = op.lo /\ op.answer.hi = op.hi /\ op.answer.size # 0
    /\ op.answer.cites \subseteq op.lo .. op.hi \cup {0}
    /\ 0 \in op.answer.cites => op.lo > 1
    /\ op.parts # <<>> => \A e \in op.answer.cites \ {0} :
         \E i \in DOMAIN op.parts : e \in Visible(op.parts[i])

\* Until Ask goes on, what fitted still fits unless another process wrote.
Engaged ==
  \/ pc = "admitting" /\ ask.attempt = 1
  \/ Compacting /\ op.asked
AskedInv ==
  /\ ask.result # "none" => pc = "idle"
  /\ pc = "admitting" /\ ask.attempt = 0 => ~ask.fitted
  /\ Engaged /\ ask.fitted /\ Len(turns) = ask.seen => AskFits

SoundInv ==
  /\ PlaceInv /\ OpInv /\ PartsInv /\ AnswerInv /\ AskedInv
  /\ CheckpointIsGrounded /\ CompactingAheadIsHarmless

\* The values of a session that does not compact have their types.
LEMMA NoCheckpointType == NoCheckpoint \in Answers /\ NoCheckpoint \in Checkpoints
BY DEF NoCheckpoint, Answers, Checkpoints

LEMMA NoOpType == NoOp \in Ops /\ NoOp.parts = <<>> /\ NoOp.lo = 0 /\ NoOp.hi = 0
                  /\ NoOp.automatic = FALSE /\ NoOp.asked = FALSE /\ NoOp.known = 0
<1>1. <<>> \in Seq(Sources) /\ <<>> \in Seq(Answers)
  OBVIOUS
<1> QED
  BY <1>1, NoCheckpointType DEF NoOp, Ops

\* The planner is asked about a thread and a checkpoint of it.
LEMMA Bounded == ASSUME TypeInv, PlaceInv PROVE Bounds(turns, checkpoint)
BY DEF TypeInv, PlaceInv, Checkpoints, Bounds

\* A session begins with a sound compaction: none.
THEOREM InitSound == ASSUME WindowAssumption, Init PROVE SoundInv
<1>1. <<>> \in Seq(GroupSizes) /\ Len(<<>>) = 0
  OBVIOUS
<1>2. PlaceInv
  <2>1. 0 <= MaxTurns
    BY DEF WindowAssumption
  <2>2. turns \in Seq(GroupSizes) /\ Len(turns) = 0
    BY <1>1 DEF Init
  <2>3. checkpoint \in Checkpoints /\ checkpoint.hi = 0 /\ checkpoint.size = 0
    BY NoCheckpointType DEF Init, NoCheckpoint
  <2>4. ask.seen = 0
    BY DEF Init, NoAsk
  <2>5. paused \in BOOLEAN /\ pc = "idle"
    BY DEF Init
  <2> QED
    BY <2>1, <2>2, <2>3, <2>4, <2>5 DEF PlaceInv
<1>3. ~Compacting /\ pc = "idle" /\ op = NoOp
  BY DEF Init, Compacting
<1>4. OpInv /\ PartsInv /\ AnswerInv
  <2>1. op.parts = <<>> /\ DOMAIN op.parts = {}
    BY <1>3, NoOpType
  <2> QED
    BY <1>3, <2>1, NoOpType DEF OpInv, PartsInv, AnswerInv
<1>5. AskedInv /\ CompactingAheadIsHarmless
  BY <1>3 DEF Init, AskedInv, Engaged, CompactingAheadIsHarmless, NoAsk
<1>6. CheckpointIsGrounded
  BY DEF Init, CheckpointIsGrounded, NoCheckpoint
<1> QED
  BY <1>2, <1>4, <1>5, <1>6 DEF SoundInv

\* A step that leaves the compaction and the checkpoint alone.
LEMMA CompactionStays ==
  ASSUME TypeInv, TypeInv', SoundInv, op' = op, checkpoint' = checkpoint,
         Compacting' <=> Compacting, pc' = "installing" => pc = "installing",
         Len(turns) <= Len(turns')
  PROVE  OpInv' /\ PartsInv' /\ AnswerInv' /\ CheckpointIsGrounded'
<1>1. OpInv /\ PartsInv /\ AnswerInv /\ CheckpointIsGrounded
  BY DEF SoundInv
<1>2. Len(turns) \in Nat /\ Len(turns') \in Nat
  BY DEF TypeInv
<1>3. OpInv'
  <2>1. op \in Ops
    BY <1>1 DEF OpInv
  <2>2. op.hi \in Nat /\ op.known \in Nat
    BY <2>1 DEF Ops
  <2>3. op' \in Ops /\ op'.automatic \in {op'.asked, TRUE}
    BY <1>1 DEF OpInv
  <2>4. ~Compacting' => op' = NoOp
    BY <1>1 DEF OpInv
  <2>5. Covered' = Covered
    BY DEF Covered
  <2>6. ASSUME Compacting'
        PROVE  /\ op'.lo = Covered' + 1 /\ op'.lo <= op'.hi /\ op'.hi <= Len(turns')
               /\ op'.known <= Len(turns')
    <3>1. /\ op.lo = Covered + 1 /\ op.lo <= op.hi /\ op.hi <= Len(turns)
          /\ op.known <= Len(turns)
      BY <1>1, <2>6 DEF OpInv
    <3> QED
      BY <1>2, <2>2, <2>5, <3>1
  <2> QED
    BY <2>3, <2>4, <2>6 DEF OpInv
<1>4. PartsInv'
  BY <1>1 DEF PartsInv
<1>5. AnswerInv'
  BY <1>1 DEF AnswerInv, Visible, Anchors
<1>6. CheckpointIsGrounded'
  BY <1>1 DEF CheckpointIsGrounded
<1> QED
  BY <1>3, <1>4, <1>5, <1>6

\* A compaction is over and its session goes on without it.
LEMMA CompactionEnds ==
  ASSUME op' = NoOp, ~Compacting'
  PROVE  OpInv' /\ PartsInv' /\ AnswerInv'
<1>1. op'.parts = <<>> /\ DOMAIN op'.parts = {}
  BY NoOpType
<1> QED
  BY <1>1, NoOpType DEF OpInv, PartsInv, AnswerInv, Compacting

\* A step that leaves the request, the thread and the checkpoint alone.
LEMMA RequestStays ==
  ASSUME AskedInv, CompactingAheadIsHarmless, ask' = ask, turns' = turns, checkpoint' = checkpoint,
         Engaged' => Engaged, pc = "idle" => pc' = "idle", pc' = "admitting" => pc = "admitting"
  PROVE  AskedInv' /\ CompactingAheadIsHarmless'
<1>1. AskFits' <=> AskFits
  BY DEF AskFits
<1> QED
  BY <1>1 DEF AskedInv, CompactingAheadIsHarmless

\* A step that ends the request.
LEMMA RequestEnds ==
  ASSUME ask' = NoAsk, pc' # "admitting" \/ ask'.attempt = 0
  PROVE  AskedInv' /\ CompactingAheadIsHarmless'
<1>1. ask'.fitted = FALSE /\ ask'.result = "none"
  BY DEF NoAsk
<1> QED
  BY <1>1 DEF AskedInv, CompactingAheadIsHarmless

-----------------------------------------------------------------------------
(* One lemma for each action.                                              *)

\* Another process only adds groups behind those that are compacted.
LEMMA OtherTurnSound ==
  ASSUME WindowAssumption, IInv, IInv', SoundInv, OtherTurn
  PROVE  SoundInv'
<1>1. TypeInv /\ TypeInv'
  BY DEF IInv
<1>2. PlaceInv /\ AskedInv /\ CompactingAheadIsHarmless
  BY DEF SoundInv
<1>3. PICK size \in GroupSizes : turns' = Append(turns, size)
  BY DEF OtherTurn
<1>4. turns' \in Seq(GroupSizes) /\ Len(turns') = Len(turns) + 1 /\ Len(turns) \in Nat
  BY <1>2, <1>3 DEF PlaceInv
<1>5. Len(turns) < MaxTurns /\ MaxTurns \in Nat
  BY DEF OtherTurn, HasRoom, WindowAssumption
<1>6. PlaceInv'
  <2>1. ask.seen \in Nat /\ checkpoint.hi \in Nat
    BY <1>1, <1>2 DEF TypeInv, Asks, PlaceInv, Checkpoints
  <2>2. Len(turns') <= MaxTurns /\ ask.seen <= Len(turns') /\ checkpoint.hi <= Len(turns')
    <3>1. ask.seen <= Len(turns) /\ checkpoint.hi <= Len(turns)
      BY <1>2 DEF PlaceInv
    <3> QED
      BY <1>4, <1>5, <2>1, <3>1
  <2> QED
    BY <1>2, <1>4, <2>2 DEF OtherTurn, PlaceInv
<1>7. OpInv' /\ PartsInv' /\ AnswerInv' /\ CheckpointIsGrounded'
  <2>1. Len(turns) <= Len(turns')
    BY <1>4
  <2>2. op' = op /\ checkpoint' = checkpoint /\ (Compacting' <=> Compacting) /\ pc' = pc
    BY DEF OtherTurn, Compacting
  <2> QED
    BY <1>1, <2>1, <2>2, CompactionStays
<1>8. AskedInv' /\ CompactingAheadIsHarmless'
  <2>1. ask.seen \in Nat /\ ask.seen <= Len(turns)
    BY <1>1, <1>2 DEF TypeInv, Asks, PlaceInv
  <2>2. Len(turns') > ask.seen
    BY <1>4, <2>1
  <2>3. Len(turns') # ask.seen
    BY <1>4, <2>1
  <2>4. ask' = ask /\ pc' = pc
    BY DEF OtherTurn
  <2> QED
    BY <1>2, <2>2, <2>3, <2>4 DEF AskedInv, CompactingAheadIsHarmless
<1> QED
  BY <1>6, <1>7, <1>8 DEF SoundInv

\* A compaction starts with chunks, if it needs them, for all that it takes.
LEMMA CompactionStarts ==
  ASSUME WindowAssumption, TypeInv, PlaceInv, CheckpointIsGrounded,
         NEW automatic \in BOOLEAN, NEW asked \in BOOLEAN, asked => automatic,
         StartCompaction(automatic, asked), turns' = turns, checkpoint' = checkpoint
  PROVE  /\ OpInv' /\ PartsInv' /\ AnswerInv' /\ CheckpointIsGrounded'
         /\ pc' = "compacting" /\ op'.asked = asked /\ paused' \in BOOLEAN
<1>1. PICK keep \in Nat : keep = IF automatic THEN KeepRecent ELSE 0
  BY DEF WindowAssumption
<1>2. PICK hi : hi = LastCandidate(keep, Plan(turns, checkpoint, 0))
  OBVIOUS
<1>3. PICK split \in BOOLEAN : split = MustSplit(Covered + 1, hi)
  <2>1. MustSplit(Covered + 1, hi) \in BOOLEAN
    BY DEF MustSplit
  <2> QED
    BY <2>1
<1>4. PICK n \in Nat, lo \in Nat, c \in Nat : n = Len(turns) /\ c = Covered /\ lo = c + 1
  <2>1. Len(turns) \in Nat
    BY DEF TypeInv
  <2>2. checkpoint.hi \in Nat
    BY DEF PlaceInv, Checkpoints
  <2>3. Covered + 1 \in Nat /\ Covered \in Nat
    BY <2>2 DEF Covered
  <2> QED
    BY <2>1, <2>3
<1>5. hi \in Nat /\ lo <= hi /\ hi <= n
  <2>1. Bounds(turns, checkpoint) /\ 0 \in Nat
    BY Bounded
  <2>2. LastCandidate(keep, Plan(turns, checkpoint, 0)) \in Covered .. Len(turns)
    BY <2>1, CandidateWithin
  <2>3. hi \in c .. n
    BY <1>2, <1>4, <2>2
  <2>4. hi > c
    BY <1>1, <1>2, <1>4 DEF StartCompaction, CanCompact
  <2> QED
    BY <1>4, <2>3, <2>4
<1>6. PICK chunks \in Seq(Sources) : /\ chunks = IF split THEN Chunks(lo, hi) ELSE <<>>
                                     /\ split => chunks # <<>> /\ Covers(chunks, lo, hi)
  <2>1. CASE split
    <3>1. Chunks(lo, hi) \in Seq(Sources) /\ Chunks(lo, hi) # <<>> /\ Covers(Chunks(lo, hi), lo, hi)
      BY <1>5, ChunksCover
    <3> QED
      BY <2>1, <3>1
  <2>2. CASE ~split
    <3>1. <<>> \in Seq(Sources)
      OBVIOUS
    <3> QED
      BY <2>2, <3>1
  <2> QED
    BY <2>1, <2>2
<1>7. op' = [NoOp EXCEPT !.lo = lo, !.hi = hi, !.known = n,
               !.automatic = automatic, !.asked = asked, !.pausedAt = paused,
               !.split = split, !.chunks = chunks]
  BY <1>1, <1>2, <1>3, <1>4, <1>6 DEF StartCompaction
<1>8. op' = [lo |-> lo, hi |-> hi, automatic |-> automatic, asked |-> asked, pausedAt |-> paused,
             known |-> n, chunks |-> chunks, split |-> split, parts |-> <<>>,
             answer |-> NoCheckpoint]
  BY <1>7 DEF NoOp
<1>9. op' \in Ops
  <2>1. <<>> \in Seq(Answers) /\ NoCheckpoint \in Answers
    BY NoCheckpointType
  <2>2. paused \in BOOLEAN
    BY DEF PlaceInv
  <2> QED
    BY <1>5, <1>8, <2>1, <2>2 DEF Ops
<1>10. pc' = "compacting" /\ Compacting' /\ op'.asked = asked
  BY <1>8 DEF StartCompaction, Compacting
<1>11. OpInv'
  <2>1. Covered' = c /\ Len(turns') = n /\ n <= n
    BY <1>4 DEF Covered
  <2>2. op'.automatic \in {op'.asked, TRUE}
    BY <1>8
  <2> QED
    BY <1>4, <1>5, <1>8, <1>9, <1>10, <2>1, <2>2 DEF OpInv
<1>12. PartsInv'
  <2>1. /\ op'.parts = <<>> /\ op'.chunks = chunks /\ op'.lo = lo /\ op'.hi = hi
        /\ op'.split = split /\ DOMAIN op'.parts = {}
    BY <1>8
  <2>2. Covers(<<>>, lo, c)
    BY <1>4 DEF Covers
  <2>3. split => Covers(chunks, c + 1, hi)
    BY <1>4, <1>6
  <2>4. ~split => chunks = <<>>
    BY <1>6
  <2> QED
    BY <2>1, <2>2, <2>3, <2>4 DEF PartsInv
<1>13. AnswerInv'
  BY <1>10 DEF AnswerInv
<1>14. CheckpointIsGrounded'
  BY DEF CheckpointIsGrounded, Visible, Anchors
<1>15. paused' \in BOOLEAN
  BY DEF StartCompaction, PlaceInv
<1> QED
  BY <1>10, <1>11, <1>12, <1>13, <1>14, <1>15

\* The step changes where the session is, and its request, and nothing else
\* the positions are about.
LEMMA PlaceStays ==
  ASSUME PlaceInv, turns' = turns, checkpoint' = checkpoint, paused' \in BOOLEAN,
         pc' \in {"idle", "admitting", "admitted", "running", "compacting", "installing"},
         ask'.seen \in {0, ask.seen, Len(turns)}, TypeInv
  PROVE  PlaceInv'
<1>1. ask'.seen <= Len(turns)
  BY DEF PlaceInv, TypeInv
<1> QED
  BY <1>1 DEF PlaceInv

\* By the user, or by the interface between turns.
LEMMA CompactSound ==
  ASSUME WindowAssumption, IInv, SoundInv, Compact \/ CompactAutomatically
  PROVE  SoundInv'
<1>1. TypeInv /\ PlaceInv /\ CheckpointIsGrounded
  BY DEF IInv, SoundInv
<1>2. PICK automatic \in BOOLEAN : StartCompaction(automatic, FALSE)
  BY DEF Compact, CompactAutomatically
<1>3. turns' = turns /\ checkpoint' = checkpoint /\ ask' = NoAsk
  BY DEF Compact, CompactAutomatically
<1>4. /\ OpInv' /\ PartsInv' /\ AnswerInv' /\ CheckpointIsGrounded'
      /\ pc' = "compacting" /\ paused' \in BOOLEAN
  BY <1>1, <1>2, <1>3, CompactionStarts
<1>5. ask'.seen = 0
  BY <1>3 DEF NoAsk
<1>6. PlaceInv'
  BY <1>1, <1>3, <1>4, <1>5, PlaceStays
<1>7. AskedInv' /\ CompactingAheadIsHarmless'
  BY <1>3, <1>4, RequestEnds
<1> QED
  BY <1>4, <1>6, <1>7 DEF SoundInv

\* A request begins without having been found to fit.
LEMMA AskSound ==
  ASSUME IInv, IInv', SoundInv, NEW request, Ask(request)
  PROVE  SoundInv'
<1>1. TypeInv /\ TypeInv' /\ PlaceInv
  BY DEF IInv, SoundInv
<1>2. /\ turns' = turns /\ checkpoint' = checkpoint /\ paused' = paused /\ op' = op
      /\ pc = "idle" /\ pc' = "admitting"
  BY DEF Ask
<1>3. /\ ask'.attempt = 0 /\ ask'.seen = Len(turns) /\ ask'.fitted = FALSE
      /\ ask'.result = "none"
  BY DEF Ask, NoAsk
<1>4. ~Compacting /\ ~Compacting'
  BY <1>2 DEF Compacting
<1>5. PlaceInv'
  <2>1. paused' \in BOOLEAN
    BY <1>1, <1>2 DEF PlaceInv
  <2> QED
    BY <1>1, <1>2, <1>3, <2>1, PlaceStays
<1>6. OpInv' /\ PartsInv' /\ AnswerInv' /\ CheckpointIsGrounded'
  <2>1. Len(turns) <= Len(turns')
    BY <1>1, <1>2 DEF TypeInv
  <2> QED
    BY <1>1, <1>2, <1>4, <2>1, CompactionStays
<1>7. AskedInv' /\ CompactingAheadIsHarmless'
  BY <1>2, <1>3, <1>4 DEF AskedInv, Engaged, CompactingAheadIsHarmless
<1> QED
  BY <1>5, <1>6, <1>7 DEF SoundInv

\* What the admission finds is remembered, and a request that had fitted is
\* refused only for what another process wrote.
LEMMA AdmitSound ==
  ASSUME IInv, IInv', SoundInv, Admit
  PROVE  SoundInv'
<1>1. TypeInv /\ TypeInv' /\ PlaceInv /\ AskedInv
  BY DEF IInv, SoundInv
<1>2. /\ turns' = turns /\ checkpoint' = checkpoint /\ paused' = paused /\ op' = op
      /\ pc = "admitting" /\ pc' \in {"admitted", "idle"}
  BY DEF Admit
<1>3. ~Compacting /\ ~Compacting'
  BY <1>2 DEF Compacting
<1>4. ask \in Asks
  BY <1>1 DEF TypeInv
<1>5. /\ ask'.seen = IF ask.attempt = 0 THEN Len(turns) ELSE ask.seen
      /\ pc' = "idle" => ~AskFits /\ ask'.fitted = ask.fitted
      /\ pc' = "admitted" => ask'.result = ask.result
  BY <1>4 DEF Admit, Asks
<1>6. PlaceInv'
  <2>1. paused' \in BOOLEAN
    BY <1>1, <1>2 DEF PlaceInv
  <2>2. ask'.seen \in {0, ask.seen, Len(turns)}
    BY <1>5
  <2> QED
    BY <1>1, <1>2, <2>1, <2>2, PlaceStays
<1>7. OpInv' /\ PartsInv' /\ AnswerInv' /\ CheckpointIsGrounded'
  <2>1. Len(turns) <= Len(turns')
    BY <1>1, <1>2 DEF TypeInv
  <2> QED
    BY <1>1, <1>2, <1>3, <2>1, CompactionStays
<1>8. AskedInv'
  <2>1. pc' = "admitted" => ask'.result = "none"
    BY <1>1, <1>2, <1>5 DEF AskedInv
  <2>2. ~Engaged'
    BY <1>2, <1>3 DEF Engaged
  <2> QED
    BY <1>2, <2>1, <2>2 DEF AskedInv
<1>9. CompactingAheadIsHarmless'
  <2>1. CASE pc' = "admitted"
    BY <1>1, <1>2, <1>5, <2>1 DEF AskedInv, CompactingAheadIsHarmless
  <2>2. CASE pc' = "idle" /\ ask.attempt = 0
    BY <1>1, <1>2, <1>5, <2>2 DEF AskedInv, CompactingAheadIsHarmless
  <2>3. CASE pc' = "idle" /\ ask.attempt = 1
    <3>1. ask.fitted => Len(turns) # ask.seen
      BY <1>1, <1>2, <1>5, <2>3 DEF AskedInv, Engaged
    <3>2. ask.seen <= Len(turns) /\ ask.seen \in Nat
      BY <1>1, <1>4 DEF PlaceInv, Asks
    <3>3. Len(turns) \in Nat
      BY <1>1 DEF TypeInv
    <3>4. ask.fitted => Len(turns) > ask.seen
      BY <3>1, <3>2, <3>3
    <3>5. ask'.seen = ask.seen /\ ask'.fitted = ask.fitted /\ Len(turns') = Len(turns)
      BY <1>2, <1>5, <2>3
    <3> QED
      BY <3>4, <3>5 DEF CompactingAheadIsHarmless
  <2>4. ask.attempt \in {0, 1}
    BY <1>4 DEF Asks
  <2> QED
    BY <1>2, <2>1, <2>2, <2>3, <2>4
<1> QED
  BY <1>6, <1>7, <1>8, <1>9 DEF SoundInv

\* What has fitted when Ask compacts still fits.
LEMMA CompactToAdmitSound ==
  ASSUME WindowAssumption, IInv, SoundInv, CompactToAdmit
  PROVE  SoundInv'
<1>1. TypeInv /\ PlaceInv /\ CheckpointIsGrounded /\ AskedInv
  BY DEF IInv, SoundInv
<1>2. /\ turns' = turns /\ checkpoint' = checkpoint
      /\ pc = "admitting" /\ StartCompaction(TRUE, TRUE)
  BY DEF CompactToAdmit
<1>3. /\ OpInv' /\ PartsInv' /\ AnswerInv' /\ CheckpointIsGrounded'
      /\ pc' = "compacting" /\ paused' \in BOOLEAN
  BY <1>1, <1>2, CompactionStarts
<1>4. /\ ask'.seen = Len(turns) /\ ask'.fitted = AskFits /\ ask'.request = ask.request
      /\ ask'.result = "none"
  <2>1. ask \in Asks /\ ask.result = "none"
    BY <1>1, <1>2 DEF TypeInv, AskedInv
  <2> QED
    BY <2>1 DEF CompactToAdmit, Asks
<1>5. PlaceInv'
  BY <1>1, <1>2, <1>3, <1>4, PlaceStays
<1>6. AskFits' = AskFits
  BY <1>2, <1>4 DEF AskFits
<1>7. AskedInv' /\ CompactingAheadIsHarmless'
  BY <1>3, <1>4, <1>6 DEF AskedInv, CompactingAheadIsHarmless
<1> QED
  BY <1>3, <1>5, <1>7 DEF SoundInv

\* The start of a turn is refused for a conflict, or keeps its request.
LEMMA TurnSound ==
  ASSUME IInv, IInv', SoundInv, StartTurn
  PROVE  SoundInv'
<1>1. TypeInv /\ TypeInv' /\ PlaceInv /\ AskedInv /\ CompactingAheadIsHarmless
  BY DEF IInv, SoundInv
<1>2. /\ turns' = turns /\ checkpoint' = checkpoint /\ paused' = paused /\ op' = op
      /\ pc = "admitted" /\ pc' \in {"running", "idle"}
  BY DEF StartTurn
<1>3. ~Compacting /\ ~Compacting'
  BY <1>2 DEF Compacting
<1>4. /\ ask'.seen = ask.seen
      /\ pc' = "idle" => ask'.result = "conflict"
      /\ pc' = "running" => ask' = ask
  BY <1>1 DEF StartTurn, TypeInv, Asks
<1>5. PlaceInv'
  <2>1. paused' \in BOOLEAN
    BY <1>1, <1>2 DEF PlaceInv
  <2> QED
    BY <1>1, <1>2, <1>4, <2>1, PlaceStays
<1>6. OpInv' /\ PartsInv' /\ AnswerInv' /\ CheckpointIsGrounded'
  <2>1. Len(turns) <= Len(turns')
    BY <1>1, <1>2 DEF TypeInv
  <2> QED
    BY <1>1, <1>2, <1>3, <2>1, CompactionStays
<1>7. ~Engaged'
  BY <1>2, <1>3 DEF Engaged
<1>8. AskedInv' /\ CompactingAheadIsHarmless'
  BY <1>1, <1>2, <1>4, <1>7 DEF AskedInv, CompactingAheadIsHarmless
<1> QED
  BY <1>5, <1>6, <1>8 DEF SoundInv

\* A turn that ends may add a group.
LEMMA EndSound ==
  ASSUME WindowAssumption, IInv, IInv', SoundInv, EndTurn \/ LearnRevision
  PROVE  SoundInv'
<1>1. TypeInv /\ TypeInv' /\ PlaceInv
  BY DEF IInv, SoundInv
<1>2. /\ checkpoint' = checkpoint /\ paused' = paused /\ op' = op /\ ask' = NoAsk
      /\ pc \in {"running", "idle"} /\ pc' = "idle"
  BY DEF EndTurn, LearnRevision
<1>3. ~Compacting /\ ~Compacting' /\ ask'.seen = 0
  BY <1>2 DEF Compacting, NoAsk
<1>4. turns' \in Seq(GroupSizes) /\ Len(turns) <= Len(turns') /\ Len(turns') <= MaxTurns
  <2>1. CASE turns' = turns
    BY <1>1, <2>1 DEF PlaceInv, TypeInv
  <2>2. CASE \E size \in GroupSizes : HasRoom /\ turns' = Append(turns, size)
    <3>1. turns' \in Seq(GroupSizes) /\ Len(turns') = Len(turns) + 1 /\ Len(turns) \in Nat
      BY <1>1, <2>2 DEF PlaceInv
    <3>2. Len(turns) < MaxTurns /\ MaxTurns \in Nat
      BY <2>2 DEF HasRoom, WindowAssumption
    <3> QED
      BY <3>1, <3>2
  <2> QED
    BY <2>1, <2>2 DEF EndTurn, LearnRevision
<1>5. PlaceInv'
  <2>1. /\ checkpoint.hi \in Nat /\ checkpoint.hi <= Len(turns)
        /\ Len(turns) \in Nat /\ Len(turns') \in Nat
    <3>1. checkpoint.hi \in Nat /\ checkpoint.hi <= Len(turns)
      BY <1>1 DEF PlaceInv, Checkpoints
    <3>2. Len(turns) \in Nat
      BY <1>1 DEF TypeInv
    <3>3. Len(turns') \in Nat
      BY <1>1 DEF TypeInv
    <3> QED
      BY <3>1, <3>2, <3>3
  <2>2. checkpoint'.hi <= Len(turns') /\ ask'.seen <= Len(turns')
    BY <1>2, <1>3, <1>4, <2>1
  <2> QED
    BY <1>1, <1>2, <1>4, <2>2 DEF PlaceInv
<1>6. OpInv' /\ PartsInv' /\ AnswerInv' /\ CheckpointIsGrounded'
  BY <1>1, <1>2, <1>3, <1>4, CompactionStays
<1>7. AskedInv' /\ CompactingAheadIsHarmless'
  BY <1>2, RequestEnds
<1> QED
  BY <1>5, <1>6, <1>7 DEF SoundInv

\* After a compaction that failed, a request that had fitted goes on.
LEMMA FailSound ==
  ASSUME IInv, IInv', SoundInv, Compacting, NEW stale \in BOOLEAN, Fail(stale)
  PROVE  SoundInv'
<1>1. TypeInv /\ TypeInv' /\ PlaceInv /\ OpInv /\ AskedInv /\ CheckpointIsGrounded
  BY DEF IInv, SoundInv
<1>2. /\ turns' = turns /\ checkpoint' = checkpoint /\ op' = NoOp
      /\ Resume(FALSE)
  BY DEF Fail
<1>3. op.pausedAt \in BOOLEAN /\ op.asked \in BOOLEAN
  BY <1>1 DEF OpInv, Ops
<1>4. paused' \in BOOLEAN
  BY <1>3 DEF Fail
<1>5. ask \in Asks /\ ask.result = "none"
  <2>1. pc # "idle"
    BY DEF Compacting
  <2> QED
    BY <1>1, <2>1 DEF TypeInv, AskedInv
<1>6. /\ pc' \in {"idle", "admitted"} /\ ask'.seen = ask.seen
      /\ pc' = "admitted" => ask'.result = "none"
      /\ ask'.result = "refused" => ~ask'.fitted
  BY <1>2, <1>5 DEF Resume, Refuse, Asks
<1>7. ~Compacting' /\ ~Engaged'
  BY <1>6 DEF Compacting, Engaged
<1>8. PlaceInv'
  BY <1>1, <1>2, <1>4, <1>6, PlaceStays
<1>9. OpInv' /\ PartsInv' /\ AnswerInv'
  BY <1>2, <1>7, CompactionEnds
<1>10. CheckpointIsGrounded'
  BY <1>1, <1>2 DEF CheckpointIsGrounded, Visible, Anchors
<1>11. AskedInv' /\ CompactingAheadIsHarmless'
  BY <1>6, <1>7 DEF AskedInv, CompactingAheadIsHarmless
<1> QED
  BY <1>8, <1>9, <1>10, <1>11 DEF SoundInv

\* The anchors are groups of the source.
LEMMA AnchorsWithin ==
  ASSUME WindowAssumption, NEW lo \in Nat, NEW hi \in Nat, lo <= hi
  PROVE  Anchors(lo, hi) \subseteq lo .. hi
<1>1. PICK m \in Nat : m = MaxAnchors
  BY DEF WindowAssumption
<1>2. PICK head \in Nat : head = m \div 2 /\ head <= m
  OBVIOUS
<1>3. PICK tail \in Nat : tail = m - head /\ tail <= m
  BY <1>2
<1>4. ASSUME ~ (hi - lo < m)
      PROVE  lo .. lo + head - 1 \subseteq lo .. hi /\ hi - tail + 1 .. hi \subseteq lo .. hi
  BY <1>2, <1>3, <1>4
<1>5. Anchors(lo, hi) = IF hi - lo < m THEN lo .. hi
                        ELSE (lo .. lo + head - 1) \cup (hi - tail + 1 .. hi)
  BY <1>1, <1>2, <1>3 DEF Anchors
<1> QED
  BY <1>4, <1>5

\* What an intermediate checkpoint shows is about its own groups.
LEMMA VisibleWithin ==
  ASSUME WindowAssumption, PartsInv, NEW i \in DOMAIN op.parts, op.parts \in Seq(Answers),
         NEW lo \in Nat, NEW hi \in Nat, Covers(op.parts, lo, hi)
  PROVE  Visible(op.parts[i]) \subseteq lo .. hi
<1>1. PICK p \in Answers : p = op.parts[i]
  OBVIOUS
<1>2. PICK l \in Nat, h \in Nat : l = p.lo /\ h = p.hi
  BY DEF Answers
<1>3. lo <= l /\ l <= h /\ h <= hi
  <2>1. \A a \in Answers : a.lo \in Nat /\ a.hi \in Nat
    BY DEF Answers
  <2>2. i \in 1 .. Len(op.parts)
    OBVIOUS
  <2>3. \A j \in 1 .. Len(op.parts) : /\ lo <= op.parts[j].lo /\ op.parts[j].lo <= op.parts[j].hi
                                      /\ op.parts[j].hi <= hi
    BY <2>1, CoversWithin
  <2> QED
    BY <1>1, <1>2, <2>2, <2>3
<1>4. p.cites \subseteq l .. h
  BY <1>1, <1>2 DEF PartsInv
<1>5. Anchors(l, h) \subseteq l .. h
  BY <1>3, AnchorsWithin
<1>6. l .. h \subseteq lo .. hi
  BY <1>3
<1> QED
  BY <1>1, <1>2, <1>4, <1>5, <1>6 DEF Visible

\* The answer to a chunk joins those before it.
LEMMA ChunkAnswered ==
  ASSUME IInv, IInv', SoundInv, NEW size \in Nat, NEW cites \in SUBSET Nat,
         Answered(size, cites), op.split, op.chunks # <<>>
  PROVE  SoundInv'
<1>1. TypeInv /\ TypeInv' /\ PlaceInv /\ OpInv /\ PartsInv /\ AskedInv /\ CheckpointIsGrounded
      /\ CompactingAheadIsHarmless
  BY DEF IInv, SoundInv
<1>2. /\ turns' = turns /\ checkpoint' = checkpoint /\ paused' = paused /\ ask' = ask
      /\ pc = "compacting" /\ pc' = "compacting"
  BY DEF Answered, Merging
<1>3. Compacting /\ Compacting'
  BY <1>2 DEF Compacting
<1>4. PICK c \in Seq(Sources), p \in Seq(Answers) : c = op.chunks /\ p = op.parts /\ c # <<>>
  BY <1>1 DEF OpInv, Ops
<1>5. PICK lo \in Nat, hi \in Nat : lo = op.lo /\ hi = op.hi
  BY <1>1 DEF OpInv, Ops
<1>6. PICK m \in Nat : Covers(p, lo, m) /\ Covers(c, m + 1, hi)
  BY <1>1, <1>3, <1>4, <1>5 DEF PartsInv
<1>7. /\ Tail(c) \in Seq(Sources) /\ Covers(Tail(c), Head(c).hi + 1, hi)
      /\ Head(c) \in Sources /\ Head(c).lo = m + 1 /\ Head(c).lo <= Head(c).hi
  BY <1>4, <1>6, CoversTail
<1>8. PICK l \in Nat, h \in Nat : l = Head(c).lo /\ h = Head(c).hi /\ l = m + 1 /\ l <= h
  BY <1>7 DEF Sources
<1>9. PICK a : a = [lo |-> l, hi |-> h, size |-> size, cites |-> cites, parts |-> <<>>]
  OBVIOUS
<1>10. a \in Answers /\ a.lo = l /\ a.hi = h /\ a.cites = cites
  BY <1>9 DEF Answers
<1>11. op' = [op EXCEPT !.chunks = Tail(c), !.parts = Append(p, a)]
  <2>1. op' = [op EXCEPT !.chunks = Tail(@), !.parts = Append(@, a)]
    BY <1>4, <1>8, <1>9 DEF Answered, Merging
  <2> QED
    BY <1>1, <1>4, <2>1 DEF OpInv, Ops
<1>12. cites \subseteq l .. h
  BY <1>4, <1>8 DEF Answered, ClaimScope, CallScope, ParentRef, Merging
<1>13. PICK q \in Seq(Answers) : /\ q = Append(p, a) /\ Len(q) = Len(p) + 1 /\ q[Len(p) + 1] = a
                                 /\ \A i \in 1 .. Len(p) : q[i] = p[i]
  <2>1. /\ Append(p, a) \in Seq(Answers) /\ Len(Append(p, a)) = Len(p) + 1
        /\ Append(p, a)[Len(p) + 1] = a /\ \A i \in 1 .. Len(p) : Append(p, a)[i] = p[i]
    BY <1>10
  <2> QED
    BY <2>1
<1>14. /\ op' \in Ops /\ op'.chunks = Tail(c) /\ op'.parts = q /\ op'.lo = lo /\ op'.hi = hi
       /\ op'.split = op.split /\ op'.asked = op.asked /\ op'.automatic = op.automatic
       /\ op'.known = op.known
  BY <1>1, <1>5, <1>7, <1>11, <1>13 DEF OpInv, Ops
<1>15. PlaceInv'
  BY <1>1, <1>2 DEF PlaceInv
<1>16. OpInv'
  <2>1. Covered' = Covered
    BY <1>2 DEF Covered
  <2> QED
    BY <1>1, <1>2, <1>3, <1>5, <1>14, <2>1 DEF OpInv
<1>17. PartsInv'
  <2>1. Covers(q, lo, h)
    <3>1. a.lo = m + 1 /\ a.lo <= a.hi
      BY <1>8, <1>10
    <3>2. Covers(Append(p, a), lo, a.hi)
      BY <1>6, <1>10, <3>1, CoversMore
    <3> QED
      BY <1>10, <1>13, <3>2
  <2>2. Covers(Tail(c), h + 1, hi)
    BY <1>7, <1>8
  <2>3. ASSUME NEW i \in DOMAIN q PROVE q[i].cites \subseteq q[i].lo .. q[i].hi
    <3>1. CASE i \in 1 .. Len(p)
      <4>1. p[i].cites \subseteq p[i].lo .. p[i].hi
        BY <1>1, <1>4, <3>1 DEF PartsInv
      <4> QED
        BY <1>13, <3>1, <4>1
    <3>2. CASE i = Len(p) + 1
      BY <1>10, <1>12, <1>13, <3>2
    <3>3. i \in 1 .. Len(p) \/ i = Len(p) + 1
      <4>1. i \in 1 .. Len(q)
        OBVIOUS
      <4> QED
        BY <1>13, <4>1
    <3> QED
      BY <3>1, <3>2, <3>3
  <2> QED
    BY <1>14, <2>1, <2>2, <2>3 DEF PartsInv
<1>18. AnswerInv'
  BY <1>2 DEF AnswerInv
<1>19. AskedInv' /\ CompactingAheadIsHarmless'
  <2>1. Engaged' => Engaged
    BY <1>2, <1>3, <1>14 DEF Engaged
  <2> QED
    BY <1>1, <1>2, <2>1, RequestStays
<1>20. CheckpointIsGrounded'
  BY <1>1, <1>2 DEF CheckpointIsGrounded, Visible, Anchors
<1> QED
  BY <1>15, <1>16, <1>17, <1>18, <1>19, <1>20 DEF SoundInv

\* The answer to the whole, or to the merge of its chunks, is to be installed.
LEMMA WholeAnswered ==
  ASSUME WindowAssumption, IInv, IInv', SoundInv, NEW size \in Nat \ {0}, NEW cites \in SUBSET Nat,
         Answered(size, cites), ~ (op.split /\ op.chunks # <<>>)
  PROVE  SoundInv'
<1>1. TypeInv /\ TypeInv' /\ PlaceInv /\ OpInv /\ PartsInv /\ AskedInv /\ CheckpointIsGrounded
      /\ CompactingAheadIsHarmless
  BY DEF IInv, SoundInv
<1>2. /\ turns' = turns /\ checkpoint' = checkpoint /\ paused' = paused /\ ask' = ask
      /\ pc = "compacting" /\ pc' = "installing"
  BY DEF Answered, Merging
<1>3. Compacting /\ Compacting'
  BY <1>2 DEF Compacting
<1>4. PICK lo \in Nat, hi \in Nat, c \in Nat : /\ lo = op.lo /\ hi = op.hi /\ c = Covered
                                               /\ lo = c + 1 /\ lo <= hi
  <2>1. op.lo \in Nat /\ op.hi \in Nat
    BY <1>1 DEF OpInv, Ops
  <2>2. Covered \in Nat
    BY <1>1 DEF PlaceInv, Checkpoints, Covered
  <2> QED
    BY <1>1, <1>3, <2>1, <2>2 DEF OpInv
<1>5. PICK a : a = [lo |-> lo, hi |-> hi, size |-> size, cites |-> cites, parts |-> <<>>]
  OBVIOUS
<1>6. a \in Answers /\ a.lo = lo /\ a.hi = hi /\ a.cites = cites /\ a.size = size
  BY <1>5 DEF Answers
<1>7. op' = [op EXCEPT !.answer = a]
  BY <1>4, <1>5 DEF Answered, Merging
<1>8. /\ op' \in Ops /\ op'.chunks = op.chunks /\ op'.parts = op.parts /\ op'.lo = lo /\ op'.hi = hi
      /\ op'.split = op.split /\ op'.asked = op.asked /\ op'.automatic = op.automatic
      /\ op'.known = op.known /\ op'.answer = a
  BY <1>1, <1>4, <1>6, <1>7 DEF OpInv, Ops
<1>9. op.chunks = <<>>
  BY <1>1, <1>3 DEF PartsInv
<1>10. op.split \in BOOLEAN /\ op.parts \in Seq(Answers)
  BY <1>1 DEF OpInv, Ops
<1>11. cites \subseteq ClaimScope \cup ParentRef
  BY DEF Answered
<1>12. ParentRef \subseteq {0} /\ (0 \in ParentRef => lo > 1)
  <2>1. checkpoint.size # 0 => c # 0
    BY <1>1, <1>4 DEF PlaceInv, Covered
  <2> QED
    BY <1>4, <2>1 DEF ParentRef
<1>13. /\ ClaimScope \subseteq lo .. hi
       /\ op.parts # <<>> =>
            \A e \in ClaimScope : \E i \in DOMAIN op.parts : e \in Visible(op.parts[i])
  <2>1. CASE op.split
    <3>1. ClaimScope = UNION {Visible(op.parts[i]) : i \in DOMAIN op.parts}
      BY <1>9, <2>1 DEF ClaimScope, Merging
    <3>2. PICK m \in Nat : Covers(op.parts, lo, m) /\ m + 1 = hi + 1
      BY <1>1, <1>3, <1>4, <1>9, <2>1 DEF PartsInv, Covers
    <3>3. Covers(op.parts, lo, hi)
      <4>1. m = hi
        BY <3>2
      <4> QED
        BY <3>2, <4>1
    <3>4. \A i \in DOMAIN op.parts : Visible(op.parts[i]) \subseteq lo .. hi
      BY <1>1, <1>10, <3>3, VisibleWithin
    <3> QED
      BY <3>1, <3>4
  <2>2. CASE ~op.split
    <3>1. op.parts = <<>>
      BY <1>1, <1>3, <2>2 DEF PartsInv
    <3>2. ClaimScope = lo .. hi
      BY <1>4, <2>2 DEF ClaimScope, CallScope, Merging
    <3> QED
      BY <3>1, <3>2
  <2> QED
    BY <1>10, <2>1, <2>2
<1>14. AnswerInv'
  <2>1. cites \subseteq lo .. hi \cup {0}
    BY <1>11, <1>12, <1>13
  <2>2. 0 \in cites => lo > 1
    <3>1. 0 \notin lo .. hi
      BY <1>4
    <3> QED
      BY <1>11, <1>12, <1>13, <3>1
  <2>3. \A e \in cites \ {0} : e \in ClaimScope
    BY <1>11, <1>12
  <2>4. op.parts # <<>> =>
          \A e \in cites \ {0} : \E i \in DOMAIN op.parts : e \in Visible(op.parts[i])
    BY <1>13, <2>3
  <2>5. op'.parts # <<>> => \A e \in op'.answer.cites \ {0} :
          \E i \in DOMAIN op'.parts : e \in Visible(op'.parts[i])
    BY <1>6, <1>8, <2>4
  <2> QED
    BY <1>6, <1>8, <1>9, <2>1, <2>2, <2>5 DEF AnswerInv, Visible, Anchors
<1>15. PlaceInv'
  BY <1>1, <1>2 DEF PlaceInv
<1>16. OpInv'
  <2>1. Covered' = Covered
    BY <1>2 DEF Covered
  <2> QED
    BY <1>1, <1>2, <1>3, <1>4, <1>8, <2>1 DEF OpInv
<1>17. PartsInv'
  BY <1>1, <1>3, <1>4, <1>8 DEF PartsInv
<1>18. AskedInv' /\ CompactingAheadIsHarmless'
  <2>1. Engaged' => Engaged
    BY <1>2, <1>3, <1>8 DEF Engaged
  <2> QED
    BY <1>1, <1>2, <2>1, RequestStays
<1>19. CheckpointIsGrounded'
  BY <1>1, <1>2 DEF CheckpointIsGrounded, Visible, Anchors
<1> QED
  BY <1>14, <1>15, <1>16, <1>17, <1>18, <1>19 DEF SoundInv

\* An installed checkpoint is grounded, and what fitted fits better with it.
LEMMA InstallSound ==
  ASSUME WindowAssumption, IInv, IInv', SoundInv, Install
  PROVE  SoundInv'
<1>1. /\ TypeInv /\ TypeInv' /\ PlaceInv /\ OpInv /\ PartsInv /\ AnswerInv /\ AskedInv
      /\ CompactingAheadIsHarmless
  BY DEF IInv, SoundInv
<1>2. /\ turns' = turns /\ pc = "installing" /\ op' = NoOp /\ Worthwhile(op.answer.size)
      /\ paused' = FALSE /\ checkpoint' = [op.answer EXCEPT !.parts = op.parts] /\ Resume(TRUE)
  BY DEF Install
<1>3. Compacting /\ op.asked \in BOOLEAN
  BY <1>1, <1>2 DEF Compacting, OpInv, Ops
<1>4. PICK a \in Answers, p \in Seq(Answers) : a = op.answer /\ p = op.parts
  BY <1>1 DEF OpInv, Ops
<1>5. PICK lo \in Nat, hi \in Nat, c \in Nat : /\ lo = op.lo /\ hi = op.hi /\ c = Covered
                                               /\ lo = c + 1 /\ lo <= hi /\ hi <= Len(turns)
  <2>1. op.lo \in Nat /\ op.hi \in Nat
    BY <1>1 DEF OpInv, Ops
  <2>2. Covered \in Nat
    BY <1>1 DEF PlaceInv, Checkpoints, Covered
  <2> QED
    BY <1>1, <1>3, <2>1, <2>2 DEF OpInv
<1>6. PICK k \in Checkpoints : /\ k = checkpoint' /\ k.lo = a.lo /\ k.hi = a.hi /\ k.size = a.size
                               /\ k.cites = a.cites /\ k.parts = p
  <2>1. [a EXCEPT !.parts = p] \in Checkpoints
    BY DEF Answers, Checkpoints
  <2>2. /\ [a EXCEPT !.parts = p].lo = a.lo /\ [a EXCEPT !.parts = p].hi = a.hi
        /\ [a EXCEPT !.parts = p].size = a.size /\ [a EXCEPT !.parts = p].cites = a.cites
        /\ [a EXCEPT !.parts = p].parts = p
    BY DEF Answers
  <2> QED
    BY <1>2, <1>4, <2>1, <2>2
<1>7. /\ op.chunks = <<>> /\ a.lo = lo /\ a.hi = hi /\ a.size # 0
      /\ a.cites \subseteq lo .. hi \cup {0}
      /\ 0 \in a.cites => lo > 1
      /\ p # <<>> => \A e \in a.cites \ {0} : \E i \in DOMAIN p : e \in Visible(p[i])
  BY <1>1, <1>2, <1>4, <1>5 DEF AnswerInv
<1>8. ask \in Asks /\ ask.result = "none"
  BY <1>1, <1>2 DEF TypeInv, AskedInv
<1>9. /\ op.asked => pc' = "admitting" /\ ask'.attempt = 1
      /\ ~op.asked => pc' = "idle"
      /\ ask'.seen = ask.seen /\ ask'.fitted = ask.fitted /\ ask'.request = ask.request
      /\ ask'.result = "none"
  BY <1>2, <1>8 DEF Resume, Asks
<1>10. ~Compacting' /\ pc' \in {"idle", "admitting"}
  BY <1>3, <1>9 DEF Compacting
<1>11. PlaceInv'
  <2>1. k.hi # 0 /\ k.hi <= Len(turns)
    BY <1>5, <1>6, <1>7
  <2> QED
    BY <1>1, <1>2, <1>6, <1>9, <1>10, <2>1 DEF PlaceInv
<1>12. OpInv' /\ PartsInv' /\ AnswerInv'
  BY <1>2, <1>10, CompactionEnds
<1>13. CheckpointIsGrounded'
  <2>1. p # <<>> => Covers(p, lo, hi)
    <3> SUFFICES ASSUME p # <<>> PROVE Covers(p, lo, hi)
      OBVIOUS
    <3>1. op.split
      BY <1>1, <1>3, <1>4 DEF PartsInv, OpInv, Ops
    <3>2. PICK m \in Nat : Covers(p, lo, m) /\ m + 1 = hi + 1
      BY <1>1, <1>3, <1>4, <1>5, <1>7, <3>1 DEF PartsInv, Covers
    <3>3. m = hi
      BY <3>2
    <3> QED
      BY <3>2, <3>3
  <2>2. p # <<>> => /\ p[1].lo = k.lo /\ Last(p).hi = k.hi
                    /\ \A i \in 2 .. Len(p) : p[i].lo = p[i - 1].hi + 1
    BY <1>6, <1>7, <2>1 DEF Covers
  <2>3. k.cites \subseteq k.lo .. k.hi \cup {0} /\ (0 \in k.cites => k.lo > 1)
    BY <1>6, <1>7
  <2>4. p # <<>> => \A e \in k.cites \ {0} : \E i \in DOMAIN p : e \in Visible(p[i])
    BY <1>6, <1>7
  <2> QED
    BY <1>6, <2>2, <2>3, <2>4 DEF CheckpointIsGrounded, Visible, Anchors
<1>14. AskedInv'
  <2>1. ASSUME Engaged', ask'.fitted, Len(turns') = ask'.seen PROVE AskFits'
    <3>1. op.asked
      BY <1>9, <1>10, <2>1 DEF Engaged
    <3>2. AskFits
      BY <1>1, <1>2, <1>3, <1>9, <2>1, <3>1 DEF AskedInv, Engaged
    <3>3. PICK r \in Nat : r = ask.request
      BY <1>8 DEF Asks
    <3>4. PICK g, f : g = turns /\ f = checkpoint /\ r = ask.request
      BY <3>3
    <3>5. Bounds(g, f)
      BY <1>1, <3>4, Bounded
    <3>6. k.hi \in 0 .. Len(g) /\ g \in Seq(Nat)
      <4>1. Len(turns) \in Nat
        BY <1>1 DEF TypeInv
      <4> QED
        BY <1>1, <1>5, <1>6, <1>7, <3>4, <4>1 DEF TypeInv
    <3>7. Bounds(g, k)
      BY <3>6 DEF Bounds, Checkpoints
    <3>8. f.hi = c /\ f.hi < k.hi
      <4>1. f.hi = c
        BY <1>5, <3>4 DEF Covered
      <4>2. k.hi = hi
        BY <1>6, <1>7
      <4>3. c < hi
        BY <1>5
      <4> QED
        BY <4>1, <4>2, <4>3
    <3>9. k.size < Tokens(g, f.hi + 1, k.hi) + f.size
      BY <1>2, <1>4, <1>5, <1>6, <1>7, <3>4, <3>8 DEF Worthwhile
    <3>10. Fits(g, f, r)
      BY <3>2, <3>4 DEF AskFits
    <3>11. Fits(g, k, r)
      BY <3>5, <3>7, <3>8, <3>9, <3>10, FitsSmaller
    <3> QED
      BY <1>2, <1>6, <1>9, <3>4, <3>11 DEF AskFits
  <2>2. pc' = "admitting" => ask'.attempt = 1
    BY <1>3, <1>9
  <2> QED
    BY <1>9, <2>1, <2>2 DEF AskedInv
<1>15. CompactingAheadIsHarmless'
  BY <1>9 DEF CompactingAheadIsHarmless
<1> QED
  BY <1>11, <1>12, <1>13, <1>14, <1>15 DEF SoundInv

\* Nothing happens.
LEMMA StutterSound ==
  ASSUME IInv, IInv', SoundInv, UNCHANGED vars
  PROVE  SoundInv'
<1>1. TypeInv /\ TypeInv' /\ PlaceInv /\ AskedInv /\ CompactingAheadIsHarmless
  BY DEF IInv, SoundInv
<1>2. /\ turns' = turns /\ checkpoint' = checkpoint /\ paused' = paused /\ known' = known
      /\ pc' = pc /\ ask' = ask /\ op' = op
  BY DEF vars
<1>3. (Compacting' <=> Compacting) /\ (Engaged' <=> Engaged)
  BY <1>2 DEF Compacting, Engaged
<1>4. PlaceInv'
  BY <1>1, <1>2 DEF PlaceInv
<1>5. OpInv' /\ PartsInv' /\ AnswerInv' /\ CheckpointIsGrounded'
  <2>1. Len(turns) <= Len(turns')
    BY <1>1, <1>2 DEF TypeInv
  <2> QED
    BY <1>1, <1>2, <1>3, <2>1, CompactionStays
<1>6. AskedInv' /\ CompactingAheadIsHarmless'
  BY <1>1, <1>2, <1>3, RequestStays
<1> QED
  BY <1>4, <1>5, <1>6 DEF SoundInv

\* Every step of the session or of another process keeps the invariant.
THEOREM StepSound ==
  ASSUME WindowAssumption, IInv, IInv', SoundInv, [Next]_vars
  PROVE  SoundInv'
<1>1. CASE OtherTurn
  BY <1>1, OtherTurnSound
<1>2. CASE Compact \/ CompactAutomatically
  BY <1>2, CompactSound
<1>3. ASSUME NEW request \in RequestSizes, Ask(request) PROVE SoundInv'
  BY <1>3, AskSound
<1>4. CASE Admit
  BY <1>4, AdmitSound
<1>5. CASE CompactToAdmit
  BY <1>5, CompactToAdmitSound
<1>6. CASE StartTurn
  BY <1>6, TurnSound
<1>7. CASE EndTurn \/ LearnRevision
  BY <1>7, EndSound
<1>8. CASE CallFails \/ NotInstalled
  <2>1. Compacting
    BY <1>8 DEF CallFails, NotInstalled, Compacting
  <2>2. PICK stale \in BOOLEAN : Fail(stale)
    BY <1>8 DEF CallFails, NotInstalled
  <2> QED
    BY <2>1, <2>2, FailSound
<1>9. ASSUME NEW size \in AnswerSizes, NEW claim \in 0 .. Len(turns), Answered(size, {claim})
      PROVE  SoundInv'
  <2>1. size \in Nat \ {0} /\ size \in Nat
    BY DEF WindowAssumption
  <2>2. {claim} \in SUBSET Nat
    BY DEF IInv, TypeInv
  <2>3. CASE op.split /\ op.chunks # <<>>
    BY <1>9, <2>1, <2>2, <2>3, ChunkAnswered
  <2>4. CASE ~ (op.split /\ op.chunks # <<>>)
    BY <1>9, <2>1, <2>2, <2>4, WholeAnswered
  <2> QED
    BY <2>3, <2>4
<1>10. CASE Install
  BY <1>10, InstallSound
<1>11. CASE UNCHANGED vars
  BY <1>11, StutterSound
<1> QED
  BY <1>1, <1>2, <1>3, <1>4, <1>5, <1>6, <1>7, <1>8, <1>9, <1>10, <1>11 DEF Next

\* The invariant is about all that the property says.
LEMMA SoundFollows == ASSUME IInv, SoundInv PROVE CompactionIsSound
<1>1. TypeInv /\ PlaceInv /\ OpInv
  BY DEF IInv, SoundInv
<1>2. Len(turns) \in Nat
  BY <1>1 DEF TypeInv
<1>3. op.hi \in Nat /\ op.known \in Nat /\ op.split \in BOOLEAN
  BY <1>1 DEF OpInv, Ops
<1>4. op.hi \in 0 .. Len(turns) /\ op.known \in 0 .. Len(turns)
  <2>1. CASE Compacting
    BY <1>1, <1>2, <1>3, <2>1 DEF OpInv
  <2>2. CASE ~Compacting
    <3>1. op.hi = 0 /\ op.known = 0
      BY <1>1, <2>2, NoOpType DEF OpInv
    <3> QED
      BY <1>2, <3>1
  <2> QED
    BY <2>1, <2>2
<1>5. known \in 0 .. Len(turns) /\ checkpoint.hi \in 0 .. Len(turns) /\ ask.seen \in 0 .. Len(turns)
  <2>1. checkpoint.hi \in Nat /\ checkpoint.hi <= Len(turns)
    BY <1>1 DEF PlaceInv, Checkpoints
  <2>2. ask.seen \in Nat /\ ask.seen <= Len(turns)
    BY <1>1 DEF PlaceInv, TypeInv, Asks
  <2>3. known \in 0 .. Len(turns)
    BY <1>1 DEF TypeInv
  <2> QED
    BY <1>2, <2>1, <2>2, <2>3
<1>6. op # NoOp <=> pc \in {"compacting", "installing"}
  <2>1. CASE Compacting
    <3>1. Covered \in Nat /\ op.lo = Covered + 1
      BY <1>1, <2>1 DEF OpInv, PlaceInv, Checkpoints, Covered
    <3>2. op.lo # 0
      BY <3>1
    <3> QED
      BY <2>1, <3>2, NoOpType DEF Compacting
  <2>2. CASE ~Compacting
    BY <1>1, <2>2 DEF OpInv, Compacting
  <2> QED
    BY <2>1, <2>2
<1>7. TypeOK
  <2>1. turns \in Seq(GroupSizes) /\ Len(turns) <= MaxTurns
    BY <1>1 DEF PlaceInv
  <2>2. {known, checkpoint.hi, op.hi, op.known, ask.seen} \subseteq 0 .. Len(turns)
    BY <1>4, <1>5
  <2>3. pc \in {"idle", "admitting", "admitted", "running", "compacting", "installing"}
    BY <1>1 DEF PlaceInv
  <2>4. op.automatic \in {op.asked, TRUE} /\ {paused, op.split} \subseteq BOOLEAN
    BY <1>1, <1>3 DEF OpInv, PlaceInv
  <2> QED
    BY <1>6, <2>1, <2>2, <2>3, <2>4 DEF TypeOK
<1> QED
  BY <1>7 DEF SoundInv, CompactionIsSound

\* Whatever is committed, asked for, compacted and answered, the checkpoint
\* rests on what its compactor was shown, chunks cover what they merge without
\* gap or overlap, and a request that fits never loses its place to the
\* compaction made ahead of it (compactor.go, session.go:1824).
THEOREM CompactionStaysSound == Spec => []CompactionIsSound
<1>1. ASSUME WindowAssumption, IInv, SoundInv, [Next]_vars PROVE IInv' /\ SoundInv'
  <2>1. IInv'
    BY <1>1, StepIInv
  <2> QED
    BY <1>1, <2>1, StepSound
<1>2. IInv /\ SoundInv => CompactionIsSound
  BY SoundFollows
<1>3. Init => IInv /\ SoundInv
  BY InitIInv, InitSound, WindowAssumption
<1> QED
  BY WindowAssumption, <1>1, <1>2, <1>3, PTL DEF Spec

-----------------------------------------------------------------------------
(* The agent's turn: its invariant, part by part.                          *)

\* Every value has its type.
Streams == [source : {"none", "collected", "live"}, text : BOOLEAN,
            ended : {"no", "eof", "error", "closed"}, fallback : {"none", "sent"}]
ScalarInv ==
  /\ loop \in {"step", "asking", "deciding", "running", "final", "answering", "done"}
  /\ outcome \in {"none", "answered", "failed"} /\ ctx \in {"live", "ended"}
  /\ steps \in 0..MaxModelSteps /\ finals \in 0..1
  /\ (loop \in {"step", "asking", "deciding", "running", "final"} => finals = 0)
  /\ ids \in Nat /\ reported \in Nat /\ opened \in Nat /\ charged \in Nat
  /\ lost \in BOOLEAN /\ stream \in Streams
BatchInv ==
  /\ batch \in Seq([key : Keys, id : 1..ids]) /\ Len(batch) <= MaxBatch
  /\ DOMAIN decision \in {{}, 1..Len(batch)} /\ DOMAIN call = DOMAIN decision
  /\ \A i \in DOMAIN call : call[i] \in {"denied", "waiting", "running", "stopping",
                                         "succeeded", "errored"}
  /\ (loop = "running" => DOMAIN call = 1..Len(batch))
  /\ DOMAIN admitted \subseteq 1..ids
  /\ \A id \in DOMAIN admitted :
       admitted[id] \in [key : Keys, allowed : BOOLEAN, started : BOOLEAN]
  /\ toolCalls \in 0..MaxToolCalls /\ repeats \in [Keys -> 0..MaxRepeats]
  /\ since \in [Keys -> Nat]
  /\ DOMAIN ledger \subseteq 1..ids
  /\ \A id \in DOMAIN ledger : ledger[id] \in {"started", "completed"}

\* The budget: what was allowed was counted, what has run was allowed, and a
\* key's calls that still wait were counted for it before the last change or
\* after it.
AllowedIds == {id \in DOMAIN admitted : admitted[id].allowed}
Pending(k) == {i \in DOMAIN call : call[i] = "waiting" /\ batch[i].key = k}
BudgetInv ==
  /\ \A i \in DOMAIN call : call[i] = "running" => ~MayStart(batch[i].id)
  /\ \A i \in DOMAIN call : call[i] # "denied" => batch[i].id \in AllowedIds
  /\ \A id \in DOMAIN ran : id \in AllowedIds /\ admitted[id].started /\ ran[id] = 1
  /\ Cardinality(AllowedIds) <= toolCalls
  /\ \A k \in Keys : /\ Cardinality(Pending(k)) <= MaxRepeats
                     /\ since[k] + Cardinality(Pending(k)) <= repeats[k] + MaxRepeats

\* The recorder: while it works every call of the ledger that has not ended is
\* under way, and every call of the batch that has ended is in it.
UnderWay == {"running", "stopping"}
Settled == {"denied", "succeeded", "errored"}
RecorderInv ==
  ~lost =>
    /\ \A id \in DOMAIN ledger : ledger[id] = "started" =>
         loop = "running" /\ \E i \in DOMAIN call : call[i] \in UnderWay /\ batch[i].id = id
    /\ loop = "running" =>
         \A i \in DOMAIN call : call[i] \in Settled => batch[i].id \in DOMAIN ledger
AnsweredInv ==
  loop \in {"step", "asking", "final"} /\ batch # <<>> =>
    /\ Len(results) = Len(batch)
    /\ \A i \in 1..Len(batch) : results[i] = batch[i].id
    /\ \A id \in DOMAIN ledger : ledger[id] = "completed"
    /\ \A i \in 1..Len(batch) : batch[i].id \in DOMAIN ledger

\* Usage: a stream is reported when it has ended, charged while the recorder
\* works, and there is one for each request at most.
Flowing == loop = "answering" /\ stream.source = "live" /\ Open
UsageInv ==
  /\ IF Flowing THEN opened = reported + 1 ELSE opened = reported
  /\ charged <= reported /\ (~lost => charged = reported)
  /\ opened <= steps + finals /\ (loop = "asking" => opened < steps + finals)
  /\ outcome = "answered" => loop = "done" /\ ~lost /\ stream.ended = "eof"

\* The reader: what it was shown came from the stream of the answer.
ReaderInv ==
  /\ loop \notin {"answering", "done"} => stream = NoStream /\ shown = <<>>
  /\ loop = "answering" => stream.source # "none"
  /\ stream.source = "none" => shown = <<>>
  /\ shown \in Seq({"text", "fallback"}) /\ Len(shown) <= 1
  /\ stream.source = "live" /\ Open => (stream.text <=> shown # <<>>)
  /\ stream.source = "live" /\ stream.ended = "eof" => shown # <<>>

AgentInv == /\ ScalarInv /\ BatchInv /\ BudgetInv /\ RecorderInv
            /\ AnsweredInv /\ UsageInv /\ ReaderInv

-----------------------------------------------------------------------------
\* A step that leaves the calls and the counters alone.
LEMMA SameBudget ==
  ASSUME BudgetInv, UNCHANGED <<admitted, toolCalls, repeats, batch, call, ghosts>>
  PROVE  BudgetInv'
<1>1. AllowedIds' = AllowedIds /\ \A k \in Keys : Pending(k)' = Pending(k)
  BY DEF AllowedIds, Pending
<1> QED
  BY <1>1 DEF BudgetInv, MayStart, ghosts

\* A step that leaves the batch alone as well.
LEMMA SameBatch ==
  ASSUME BatchInv,
         UNCHANGED <<batch, decision, call, ids, admitted, toolCalls, repeats, ledger, since>>,
         loop' = "running" => loop = "running"
  PROVE  BatchInv'
BY DEF BatchInv

LEMMA Charged ==
  ASSUME charged \in Nat, reported \in Nat, lost \in BOOLEAN, Charge
  PROVE  /\ charged' \in Nat /\ reported' = reported + 1 /\ lost' \in BOOLEAN
         /\ charged <= reported => charged' <= reported'
         /\ (~lost => charged = reported) => (~lost' => ~lost /\ charged' = reported')
<1>1. lost' \in BOOLEAN
  BY Zenon DEF Charge
<1>2. /\ charged' \in Nat /\ reported' = reported + 1
      /\ (charged <= reported => charged' <= reported')
  BY DEF Charge
<1>3. CASE lost' = TRUE
  BY <1>1, <1>2, <1>3
<1>4. CASE ~lost /\ charged' = charged + 1 /\ lost' = lost
  BY <1>1, <1>2, <1>4
<1> QED
  BY <1>3, <1>4 DEF Charge

LEMMA StreamStarts ==
  /\ NoStream \in Streams /\ NoStream.source = "none"
  /\ \A text \in BOOLEAN :
       LET s == [NoStream EXCEPT !.source = "collected", !.text = text]
       IN  s \in Streams /\ s.source = "collected" /\ s.text = text /\ s.ended = "no"
  /\ LET s == [NoStream EXCEPT !.source = "live"]
     IN  s \in Streams /\ s.source = "live" /\ s.text = FALSE /\ s.ended = "no"
BY DEF NoStream, Streams

LEMMA StreamEnds ==
  ASSUME ScalarInv, NEW how \in {"eof", "error", "closed"}, NEW fallback \in {"none", "sent"},
         FinishStream(how, fallback)
  PROVE  /\ stream' \in Streams /\ stream'.ended = how
         /\ stream'.source = stream.source /\ stream'.text = stream.text
         /\ charged' \in Nat /\ reported' \in Nat /\ lost' \in BOOLEAN
         /\ reported' = IF stream.source = "live" THEN reported + 1 ELSE reported
         /\ charged <= reported => charged' <= reported'
         /\ (~lost => charged = reported) => (~lost' => charged' = reported')
<1>1. /\ stream' \in Streams /\ stream'.ended = how
      /\ stream'.source = stream.source /\ stream'.text = stream.text
  BY DEF FinishStream, ScalarInv, Streams
<1>2. CASE stream.source = "live"
  <2>1. Charge
    BY <1>2 DEF FinishStream
  <2> QED
    BY <1>1, <1>2, <2>1, Charged DEF ScalarInv
<1>3. CASE stream.source # "live"
  <2>1. UNCHANGED <<reported, charged, lost>>
    BY <1>3 DEF FinishStream
  <2> QED
    BY <1>1, <1>3, <2>1 DEF ScalarInv
<1> QED
  BY <1>2, <1>3

\* The counts the budget speaks of are counts of finite sets.
LEMMA Counted ==
  ASSUME BatchInv, ids \in Nat
  PROVE  /\ IsFiniteSet(AllowedIds) /\ Cardinality(AllowedIds) \in Nat
         /\ \A k \in Keys : IsFiniteSet(Pending(k)) /\ Cardinality(Pending(k)) \in Nat
         /\ \A k \in Keys : since[k] \in Nat /\ repeats[k] \in Nat
         /\ Len(batch) \in Nat
<1>1. Len(batch) \in Nat
  BY DEF BatchInv
<1>2. IsFiniteSet(1..Len(batch))
  BY <1>1, FS_Interval
<1>3. \A k \in Keys : Pending(k) \in SUBSET (1..Len(batch))
  BY DEF BatchInv, Pending
<1>4. \A k \in Keys : IsFiniteSet(Pending(k)) /\ Cardinality(Pending(k)) \in Nat
  BY <1>2, <1>3, FS_Subset, FS_CardinalityType
<1>5. AllowedIds \in SUBSET (1..ids)
  BY DEF BatchInv, AllowedIds
<1>6. IsFiniteSet(1..ids)
  BY FS_Interval
<1>7. IsFiniteSet(AllowedIds) /\ Cardinality(AllowedIds) \in Nat
  BY <1>5, <1>6, FS_Subset, FS_CardinalityType
<1>8. \A k \in Keys : since[k] \in Nat /\ repeats[k] \in Nat
  BY DEF BatchInv
<1> QED
  BY <1>1, <1>4, <1>7, <1>8

\* A call that waits no longer is no longer counted.
LEMMA PendingAfter ==
  ASSUME BatchInv, ids \in Nat, NEW i \in DOMAIN call, NEW v, v # "waiting",
         call' = [call EXCEPT ![i] = v], batch' = batch
  PROVE  \A k \in Keys :
           /\ Pending(k)' = Pending(k) \ {i}
           /\ Cardinality(Pending(k)') =
                IF i \in Pending(k) THEN Cardinality(Pending(k)) - 1 ELSE Cardinality(Pending(k))
<1> TAKE k \in Keys
<1>1. Pending(k)' = Pending(k) \ {i}
  BY DEF Pending
<1> QED
  BY <1>1, Counted, FS_RemoveElement

\* A function on an initial segment of the naturals is a sequence.
LEMMA SegmentIsSeq ==
  ASSUME NEW S, NEW n \in Nat, NEW f \in [1..n -> S]
  PROVE  f \in Seq(S) /\ Len(f) = n
<1>1. f \in Seq(S)
  BY SeqDef
<1>2. Len(f) \in Nat /\ 1..Len(f) = 1..n
  BY <1>1, LenProperties
<1> QED
  BY <1>1, <1>2

\* A finite set of naturals has a greatest element.
LEMMA Greatest ==
  ASSUME NEW n \in Nat, NEW S \in SUBSET (1..n), S # {}
  PROVE  \E m \in S : \A i \in S : i <= m
<1> DEFINE T == {n - i : i \in S}
<1>1. T \in SUBSET Nat /\ T # {}
  <2>1. \A i \in S : i \in 1..n /\ n - i \in Nat
    OBVIOUS
  <2> QED
    BY <2>1
<1>2. PICK x \in T : \A y \in T : ~ (<<y, x>> \in OpToRel(<, Nat))
  BY <1>1, NatLessThanWellFounded, WFMin
<1>3. PICK m \in S : x = n - m
  OBVIOUS
<1>4. ASSUME NEW i \in S PROVE i <= m
  <2>1. n - i \in T /\ n - i \in Nat /\ x \in Nat
    BY <1>1
  <2>2. ~(n - i < x)
    BY <1>2, <2>1 DEF OpToRel
  <2> QED
    BY <1>3, <2>1, <2>2
<1> QED
  BY <1>4

\* The permitted calls of a batch have places 1, 2, ... of their own.
LEMMA PlacesDiffer ==
  ASSUME Len(batch) \in Nat
  PROVE  \A i, j \in Permitted : /\ Place(i) = Place(j) => i = j
                                 /\ Place(i) \in 1..Cardinality(Permitted)
<1> DEFINE UpTo(i) == {j \in Permitted : j <= i}
<1>1. IsFiniteSet(1..Len(batch)) /\ Permitted \in SUBSET (1..Len(batch))
  BY FS_Interval DEF Permitted
<1>2. IsFiniteSet(Permitted) /\ Cardinality(Permitted) \in Nat
  BY <1>1, FS_Subset, FS_CardinalityType
<1>3. ASSUME NEW i \in Permitted
      PROVE  /\ IsFiniteSet(UpTo(i)) /\ Cardinality(UpTo(i)) \in Nat
             /\ Cardinality(UpTo(i)) <= Cardinality(Permitted) /\ Cardinality(UpTo(i)) # 0
  <2>1. UpTo(i) \in SUBSET Permitted /\ i \in UpTo(i)
    BY <1>1
  <2> QED
    BY <1>2, <2>1, FS_Subset, FS_CardinalityType, FS_EmptySet
<1>4. ASSUME NEW i \in Permitted, NEW j \in Permitted, i < j
      PROVE  Place(i) # Place(j)
  <2>0. \A k \in Permitted : k \in Nat
    BY <1>1
  <2>1. UpTo(i) \in SUBSET UpTo(j) /\ j \in UpTo(j) /\ j \notin UpTo(i)
    BY <1>4, <2>0
  <2>2. Cardinality(UpTo(j)) # Cardinality(UpTo(i))
    BY <1>3, <2>1, FS_Subset
  <2> QED
    BY <2>2 DEF Place
<1>5. \A i, j \in Permitted : i = j \/ i < j \/ j < i
  BY <1>1
<1>6. \A i, j \in Permitted : Place(i) = Place(j) => i = j
  BY <1>4, <1>5
<1>7. \A i \in Permitted : Place(i) \in 1..Cardinality(Permitted)
  BY <1>2, <1>3 DEF Place
<1> QED
  BY <1>6, <1>7

\* What admitToolBatch does with the calls of known tools: some of them are
\* allowed and counted, and every one has its decision under its id.
KeyIn(S, k) == {i \in S : batch[i].key = k}
Admits(W) ==
  /\ toolCalls' = toolCalls + Cardinality(W) /\ toolCalls' <= MaxToolCalls
  /\ repeats' = [k \in Keys |-> repeats[k] + Cardinality(KeyIn(W, k))]
  /\ \A k \in Keys : repeats'[k] <= MaxRepeats
  /\ DOMAIN admitted' = DOMAIN admitted \cup {batch[i].id : i \in Known}
  /\ \A id \in DOMAIN admitted : admitted'[id] = admitted[id]
  /\ \A i \in Known :
       /\ admitted'[batch[i].id] \in [key : Keys, allowed : BOOLEAN, started : BOOLEAN]
       /\ admitted'[batch[i].id].allowed <=> i \in W

LEMMA KnownFinite ==
  ASSUME BatchInv, NEW W \in SUBSET Known
  PROVE  /\ Len(batch) \in Nat /\ W \in SUBSET (1..Len(batch))
         /\ IsFiniteSet(W) /\ Cardinality(W) \in Nat
         /\ \A k : KeyIn(W, k) \in SUBSET W /\ IsFiniteSet(KeyIn(W, k))
                   /\ Cardinality(KeyIn(W, k)) \in Nat
<1>1. Len(batch) \in Nat /\ W \in SUBSET (1..Len(batch))
  BY DEF BatchInv, Known
<1>2. IsFiniteSet(1..Len(batch))
  BY <1>1, FS_Interval
<1>3. IsFiniteSet(W) /\ Cardinality(W) \in Nat
  BY <1>1, <1>2, FS_Subset, FS_CardinalityType
<1>4. \A k : KeyIn(W, k) \in SUBSET W
  BY DEF KeyIn
<1>5. \A k : IsFiniteSet(KeyIn(W, k)) /\ Cardinality(KeyIn(W, k)) \in Nat
  BY <1>3, <1>4, FS_Subset, FS_CardinalityType
<1> QED
  BY <1>1, <1>3, <1>4, <1>5

LEMMA RepeatsBounded ==
  ASSUME TurnAssumption, BatchInv, NEW k \in Keys
  PROVE  repeats[k] + Cardinality(KeyIn({i \in Known : Repeatable(i)}, k)) <= MaxRepeats
<1> DEFINE W == {i \in Known : Repeatable(i)}
           S == KeyIn(W, k)
<1>1. W \in SUBSET Known
  OBVIOUS
<1>2. /\ Len(batch) \in Nat /\ S \in SUBSET (1..Len(batch)) /\ S \in SUBSET W
      /\ IsFiniteSet(S) /\ Cardinality(S) \in Nat
  BY <1>1, KnownFinite
<1>3. repeats[k] \in 0..MaxRepeats /\ MaxRepeats \in Nat
  BY DEF BatchInv, TurnAssumption, NormalizedTurnOptions
<1>4. CASE S = {}
  BY <1>3, <1>4, FS_EmptySet
<1>5. CASE S # {}
  <2>1. PICK m \in S : \A i \in S : i <= m
    BY <1>2, <1>5, Greatest
  <2>2. m \in Known /\ Repeatable(m) /\ batch[m].key = k
    BY <2>1 DEF KeyIn
  <2>3. Before(m) \in SUBSET Known
    BY DEF Before
  <2>4. IsFiniteSet(Before(m)) /\ Cardinality(Before(m)) \in Nat
    BY <2>3, KnownFinite
  <2>5. S \ {m} \in SUBSET Before(m)
    BY <1>2, <2>1, <2>2 DEF KeyIn, Before
  <2>6. Cardinality(S \ {m}) = Cardinality(S) - 1
    BY <1>2, <2>1, FS_RemoveElement
  <2>7. Cardinality(S \ {m}) <= Cardinality(Before(m))
    BY <2>4, <2>5, FS_Subset
  <2>8. repeats[k] + Cardinality(Before(m)) < MaxRepeats
    BY <2>2 DEF Repeatable
  <2> QED
    BY <1>2, <1>3, <2>4, <2>6, <2>7, <2>8
<1> QED
  BY <1>4, <1>5

LEMMA BatchAdmitted ==
  ASSUME TurnAssumption, BatchInv, FreshIds, AdmitCalls
  PROVE  \E W \in SUBSET Known : Admits(W)
<1> DEFINE W == {i \in Known : Repeatable(i)}
           A == IF Cardinality(W) <= MaxToolCalls - toolCalls THEN W ELSE {}
<1>1. /\ W \in SUBSET Known /\ A \in SUBSET Known /\ Cardinality(W) \in Nat
      /\ {} \in SUBSET Known
  BY KnownFinite
<1>2. /\ toolCalls \in 0..MaxToolCalls /\ MaxToolCalls \in Nat
      /\ repeats \in [Keys -> 0..MaxRepeats]
  BY DEF BatchInv, TurnAssumption, NormalizedTurnOptions
<1>3. toolCalls' = toolCalls + Cardinality(A) /\ toolCalls' <= MaxToolCalls
  <2>1. CASE Cardinality(W) <= MaxToolCalls - toolCalls
    BY <1>1, <1>2, <2>1 DEF AdmitCalls, CountBatch
  <2>2. CASE ~(Cardinality(W) <= MaxToolCalls - toolCalls)
    <3>1. A = {} /\ toolCalls' = toolCalls
      BY <1>1, <1>2, <2>2 DEF AdmitCalls, CountBatch
    <3> QED
      BY <1>2, <3>1, FS_EmptySet
  <2> QED
    BY <2>1, <2>2
<1>4. repeats' = [k \in Keys |-> repeats[k] + Cardinality(KeyIn(A, k))]
  <2>1. CASE Cardinality(W) <= MaxToolCalls - toolCalls
    BY <1>1, <1>2, <2>1 DEF AdmitCalls, CountBatch, KeyIn
  <2>2. CASE ~(Cardinality(W) <= MaxToolCalls - toolCalls)
    <3>1. A = {} /\ repeats' = repeats
      BY <1>1, <1>2, <2>2 DEF AdmitCalls, CountBatch
    <3>2. \A k \in Keys : KeyIn(A, k) = {}
      BY <3>1 DEF KeyIn
    <3>3. \A k \in Keys : repeats[k] + Cardinality(KeyIn(A, k)) = repeats[k]
      BY <1>2, <3>2, FS_EmptySet
    <3> QED
      BY <1>2, <3>1, <3>3
  <2> QED
    BY <2>1, <2>2
<1>5. \A k \in Keys : repeats'[k] <= MaxRepeats
  <2>1. CASE A = W
    BY <1>4, <2>1, RepeatsBounded
  <2>2. CASE A = {}
    <3>1. \A k \in Keys : KeyIn(A, k) = {}
      BY <2>2 DEF KeyIn
    <3>2. \A k \in Keys : Cardinality(KeyIn(A, k)) = 0
      BY <3>1, FS_EmptySet
    <3>3. \A k \in Keys : repeats'[k] = repeats[k] + 0
      BY <1>4, <3>2
    <3> QED
      BY <1>2, <3>3 DEF TurnAssumption, NormalizedTurnOptions
  <2> QED
    BY <2>1, <2>2
<1>6. admitted' = [id \in DOMAIN admitted \cup {batch[i].id : i \in Known} |->
                     IF id \in DOMAIN admitted THEN admitted[id]
                     ELSE LET i == CHOOSE i \in Known : batch[i].id = id
                          IN [key |-> batch[i].key, allowed |-> i \in A, started |-> FALSE]]
  BY DEF AdmitCalls
<1>7. ASSUME NEW i \in Known
      PROVE  /\ admitted'[batch[i].id] \in [key : Keys, allowed : BOOLEAN, started : BOOLEAN]
             /\ admitted'[batch[i].id].allowed <=> i \in A
  <2>1. batch[i].id \notin DOMAIN admitted
    BY DEF FreshIds
  <2>2. (CHOOSE j \in Known : batch[j].id = batch[i].id) = i
    BY DEF FreshIds
  <2>3. admitted'[batch[i].id] = [key |-> batch[i].key, allowed |-> i \in A, started |-> FALSE]
    BY <1>6, <2>1, <2>2
  <2>4. batch[i].key \in Keys
    <3>1. i \in 1..Len(batch) /\ batch \in Seq([key : Keys, id : 1..ids])
      BY DEF Known, BatchInv
    <3>2. batch[i] \in [key : Keys, id : 1..ids]
      BY <3>1, ElementOfSeq
    <3> QED
      BY <3>2
  <2>5. CASE i \in A
    <3>1. admitted'[batch[i].id] = [key |-> batch[i].key, allowed |-> TRUE, started |-> FALSE]
      BY <2>3, <2>5, Zenon
    <3> QED
      BY <2>4, <2>5, <3>1
  <2>6. CASE i \notin A
    <3>1. admitted'[batch[i].id] = [key |-> batch[i].key, allowed |-> FALSE, started |-> FALSE]
      <4>1. (i \in A) = FALSE
        BY <2>6
      <4> QED
        BY <2>3, <4>1
    <3> QED
      BY <2>4, <2>6, <3>1
  <2> QED
    BY <2>5, <2>6
<1>8. /\ DOMAIN admitted' = DOMAIN admitted \cup {batch[i].id : i \in Known}
      /\ \A id \in DOMAIN admitted : admitted'[id] = admitted[id]
  BY <1>6
<1>9. Admits(A)
  BY <1>3, <1>4, <1>5, <1>7, <1>8 DEF Admits
<1> QED
  BY <1>1, <1>9

\* What AdmitBatch does with a batch it does not refuse: the calls of W are
\* handed to the tools node, the others are denied and recorded.
HandsOver(W) ==
  /\ loop' = "running" /\ RecordDenied
  /\ DOMAIN decision' = 1..Len(batch) /\ DOMAIN call' = 1..Len(batch)
  /\ \A i \in 1..Len(batch) : call'[i] = IF i \in W THEN "waiting" ELSE "denied"
  /\ Denied = (1..Len(batch)) \ W
  /\ \/ Admits(W)
     \/ W = {} /\ UNCHANGED <<toolCalls, repeats, admitted>>

LEMMA BatchHanded ==
  ASSUME TurnAssumption, BatchInv, AdmitBatch, loop' # "done"
  PROVE  \E W \in SUBSET Known : HandsOver(W)
<1>1. /\ loop' = "running" /\ RecordDenied
      /\ decision' = [i \in 1..Len(batch) |-> Decide(i)]
      /\ call' = [i \in 1..Len(batch) |-> IF i \in Denied THEN "denied" ELSE "waiting"]
      /\ \/ (Mixed \/ Known = {}) /\ UNCHANGED <<toolCalls, repeats, admitted>>
         \/ ~Mixed /\ Known # {} /\ FreshIds /\ AdmitCalls
  BY DEF AdmitBatch, Finish
<1>2. Denied = {i \in 1..Len(batch) : Decide(i) # "allowed"}
  BY <1>1 DEF Denied
<1>3. CASE (Mixed \/ Known = {}) /\ UNCHANGED <<toolCalls, repeats, admitted>>
  <2>1. \A i \in 1..Len(batch) : Decide(i) # "allowed"
    BY <1>3 DEF Decide, Known
  <2>2. Denied = 1..Len(batch)
    BY <1>2, <2>1
  <2>3. HandsOver({})
    BY <1>1, <1>3, <2>2 DEF HandsOver
  <2> QED
    BY <2>3
<1>4. CASE ~Mixed /\ FreshIds /\ AdmitCalls
  <2>1. PICK W \in SUBSET Known : Admits(W)
    BY <1>4, BatchAdmitted
  <2>2. \A i \in Known : admitted'[batch[i].id].allowed <=> i \in W
    BY <2>1 DEF Admits
  <2>3. \A i \in Known : Decide(i) = IF i \in W THEN "allowed" ELSE "denied"
    BY <1>4, <2>2 DEF Decide, Known
  <2>4. \A i \in 1..Len(batch) : i \notin Known => Decide(i) = "unknown"
    BY <1>4 DEF Decide, Known
  <2>5. Known \in SUBSET (1..Len(batch))
    BY DEF Known
  <2>6. Denied = (1..Len(batch)) \ W
    BY <1>2, <2>1, <2>3, <2>4, <2>5
  <2>7. \A i \in 1..Len(batch) : call'[i] = IF i \in W THEN "waiting" ELSE "denied"
    BY <1>1, <2>6
  <2>8. /\ DOMAIN decision' = 1..Len(batch) /\ DOMAIN call' = 1..Len(batch)
        /\ loop' = "running" /\ RecordDenied
    BY <1>1
  <2>9. HandsOver(W)
    BY <2>1, <2>6, <2>7, <2>8 DEF HandsOver
  <2> QED
    BY <2>1, <2>9
<1> QED
  BY <1>1, <1>3, <1>4

LEMMA AcquireStepKept ==
  ASSUME TurnAssumption, AgentInv, AcquireStep
  PROVE  AgentInv'
<1>1. ScalarInv'
  BY DEF AgentInv, ScalarInv, TurnAssumption, NormalizedTurnOptions, AcquireStep, Finish,
     calls, recorder, reader, usage
<1>2. BatchInv'
  BY SameBatch DEF AgentInv, AcquireStep, Finish, calls, recorder, ghosts
<1>3. BudgetInv'
  BY SameBudget DEF AgentInv, AcquireStep, budget, calls, ghosts
<1>4. RecorderInv'
  BY DEF AgentInv, RecorderInv, AcquireStep, Finish, recorder
<1>5. AnsweredInv'
  BY DEF AgentInv, AnsweredInv, AcquireStep, calls, recorder
<1>6. UsageInv'
  BY DEF AgentInv, UsageInv, Flowing, ScalarInv, AcquireStep, Finish, recorder, usage
<1>7. ReaderInv'
  BY DEF AgentInv, ReaderInv, Open, AcquireStep, Finish, reader
<1> QED
  BY <1>1, <1>2, <1>3, <1>4, <1>5, <1>6, <1>7 DEF AgentInv

LEMMA RequestFailsKept ==
  ASSUME TurnAssumption, AgentInv, RequestFails
  PROVE  AgentInv'
<1>1. ScalarInv'
  BY DEF AgentInv, ScalarInv, RequestFails, Finish, budget, calls, recorder, reader, usage
<1>2. BatchInv'
  BY SameBatch DEF AgentInv, RequestFails, Finish, budget, calls, recorder, ghosts
<1>3. BudgetInv'
  BY SameBudget DEF AgentInv, RequestFails, budget, calls, ghosts
<1>4. RecorderInv'
  BY DEF AgentInv, RecorderInv, RequestFails, Finish, recorder
<1>5. AnsweredInv'
  BY DEF AgentInv, AnsweredInv, RequestFails, Finish, recorder
<1>6. UsageInv'
  BY DEF AgentInv, UsageInv, Flowing, RequestFails, Finish, budget, recorder, usage
<1>7. ReaderInv'
  BY DEF AgentInv, ReaderInv, Open, RequestFails, Finish, reader
<1> QED
  BY <1>1, <1>2, <1>3, <1>4, <1>5, <1>6, <1>7 DEF AgentInv

LEMMA StreamBreaksKept ==
  ASSUME TurnAssumption, AgentInv, StreamBreaks
  PROVE  AgentInv'
<1>0. /\ charged' \in Nat /\ reported' = reported + 1 /\ lost' \in BOOLEAN
      /\ charged' <= reported' /\ (~lost' => ~lost /\ charged' = reported')
  BY Charged DEF StreamBreaks, AgentInv, ScalarInv, UsageInv
<1>1. ScalarInv'
  BY <1>0 DEF AgentInv, ScalarInv, StreamBreaks, Finish, budget, calls, reader
<1>2. BatchInv'
  BY SameBatch DEF AgentInv, StreamBreaks, Finish, budget, calls, ghosts
<1>3. BudgetInv'
  BY SameBudget DEF AgentInv, StreamBreaks, budget, calls, ghosts
<1>4. RecorderInv'
  BY DEF AgentInv, RecorderInv, StreamBreaks, Finish, Charge
<1>5. AnsweredInv'
  BY DEF AgentInv, AnsweredInv, StreamBreaks, Finish, recorder
<1>6. UsageInv'
  BY DEF AgentInv, UsageInv, Flowing, ScalarInv, StreamBreaks, Finish, Charge, budget
<1>7. ReaderInv'
  BY DEF AgentInv, ReaderInv, Open, StreamBreaks, Finish, reader
<1> QED
  BY <1>1, <1>2, <1>3, <1>4, <1>5, <1>6, <1>7 DEF AgentInv

LEMMA ModelAnswersKept ==
  ASSUME TurnAssumption, AgentInv, ModelAnswers
  PROVE  AgentInv'
<1>0. /\ charged' \in Nat /\ reported' = reported + 1 /\ lost' \in BOOLEAN
      /\ charged' <= reported' /\ (~lost' => ~lost /\ charged' = reported')
  BY Charged DEF ModelAnswers, AgentInv, ScalarInv, UsageInv
<1>s. stream' \in Streams
  BY StreamStarts DEF ModelAnswers
<1>1. ScalarInv'
  BY <1>0, <1>s DEF AgentInv, ScalarInv, ModelAnswers, budget, calls
<1>2. BatchInv'
  BY SameBatch DEF AgentInv, ModelAnswers, budget, calls, ghosts
<1>3. BudgetInv'
  BY SameBudget DEF AgentInv, ModelAnswers, budget, calls, ghosts
<1>4. RecorderInv'
  BY DEF AgentInv, RecorderInv, Settled, ModelAnswers, Charge
<1>5. AnsweredInv'
  BY DEF AgentInv, AnsweredInv, ModelAnswers, calls, recorder
<1>6. UsageInv'
  BY DEF AgentInv, UsageInv, Flowing, ScalarInv, ModelAnswers, Charge, budget
<1>7. ReaderInv'
  BY DEF AgentInv, ReaderInv, Open, ModelAnswers, reader
<1> QED
  BY <1>1, <1>2, <1>3, <1>4, <1>5, <1>6, <1>7 DEF AgentInv

LEMMA ModelAsksKept ==
  ASSUME TurnAssumption, AgentInv, ModelAsks
  PROVE  AgentInv'
<1>0. /\ charged' \in Nat /\ reported' = reported + 1 /\ lost' \in BOOLEAN
      /\ charged' <= reported' /\ (~lost' => ~lost /\ charged' = reported')
  BY Charged DEF ModelAsks, AgentInv, ScalarInv, UsageInv
<1>1. ScalarInv'
  BY <1>0 DEF AgentInv, ScalarInv, ModelAsks, budget, reader
<1>2. BatchInv'
  <2>0. PICK n \in 1..MaxBatch : \E keys \in [1..n -> Keys] : \E again \in {0} \cup (1..ids) :
          /\ batch' = [i \in 1..n |-> [key |-> keys[i],
                                       id |-> IF i = n /\ again > 0 THEN again ELSE ids + i]]
          /\ ids' = ids + n
    BY DEF ModelAsks
  <2>1. PICK keys \in [1..n -> Keys], again \in {0} \cup (1..ids) :
          /\ batch' = [i \in 1..n |-> [key |-> keys[i],
                                       id |-> IF i = n /\ again > 0 THEN again ELSE ids + i]]
          /\ ids' = ids + n
    BY <2>0
  <2> DEFINE Request == [key : Keys, id : 1..ids']
  <2>2. n \in Nat /\ ids \in Nat /\ n <= MaxBatch
    BY DEF AgentInv, ScalarInv, TurnAssumption
  <2>3. \A i \in 1..n : keys[i] \in Keys
                        /\ (IF i = n /\ again > 0 THEN again ELSE ids + i) \in 1..ids'
    BY <2>1, <2>2
  <2>4. batch' \in [1..n -> Request]
    BY <2>1, <2>3
  <2>5. batch' \in Seq(Request) /\ Len(batch') = n
    <3> HIDE DEF Request
    <3> QED
      BY <2>2, <2>4, SegmentIsSeq
  <2>6. call' = <<>> /\ decision' = <<>> /\ loop' = "deciding"
        /\ UNCHANGED <<admitted, toolCalls, repeats, since, ledger>>
    BY DEF ModelAsks, budget, ghosts
  <2>7. 1..ids \subseteq 1..ids'
    BY <2>1, <2>2
  <2>8. BatchInv /\ loop' # "running"
    BY <2>6 DEF AgentInv
  <2>9. DOMAIN call' = {} /\ DOMAIN decision' = {} /\ Len(batch') <= MaxBatch
    BY <2>2, <2>5, <2>6
  <2>10. DOMAIN admitted \subseteq 1..ids' /\ DOMAIN ledger \subseteq 1..ids'
    BY <2>7, <2>8 DEF BatchInv
  <2> QED
    BY <2>5, <2>6, <2>8, <2>9, <2>10 DEF BatchInv
<1>3. BudgetInv'
  <2>1. call' = <<>> /\ UNCHANGED <<admitted, toolCalls, repeats, since, ran>>
    BY DEF ModelAsks, budget, ghosts
  <2>2. AllowedIds' = AllowedIds /\ DOMAIN call' = {} /\ \A k \in Keys : Pending(k)' = {}
    BY <2>1 DEF AllowedIds, Pending
  <2>3. \A k \in Keys : 0 <= MaxRepeats /\ since[k] + 0 <= repeats[k] + MaxRepeats
    BY Counted DEF AgentInv, ScalarInv, BudgetInv, TurnAssumption, NormalizedTurnOptions
  <2>4. \A k \in Keys : Cardinality(Pending(k)') = 0
    BY <2>2, FS_EmptySet
  <2> QED
    BY <2>1, <2>2, <2>3, <2>4 DEF AgentInv, BudgetInv
<1>4. RecorderInv'
  BY DEF AgentInv, RecorderInv, Settled, ModelAsks, Charge
<1>5. AnsweredInv'
  BY DEF AgentInv, AnsweredInv, ModelAsks, calls, recorder
<1>6. UsageInv'
  BY DEF AgentInv, UsageInv, Flowing, ScalarInv, ModelAsks, Charge, budget
<1>7. ReaderInv'
  BY DEF AgentInv, ReaderInv, Open, ModelAsks, reader
<1> QED
  BY <1>1, <1>2, <1>3, <1>4, <1>5, <1>6, <1>7 DEF AgentInv

LEMMA AdmitBatchKept ==
  ASSUME TurnAssumption, AgentInv, AdmitBatch
  PROVE  AgentInv'
<1>0. lost' \in BOOLEAN /\ (lost => lost')
  BY DEF AdmitBatch, RecordDenied, AgentInv, ScalarInv
<1>u. loop = "deciding" /\ UNCHANGED <<batch, ids, since, ran>>
  BY DEF AdmitBatch, ghosts
<1>t. Len(batch) \in Nat /\ ids \in Nat
      /\ \A i \in 1..Len(batch) : batch[i].id \in 1..ids /\ batch[i].key \in Keys
  <2>1. batch \in Seq([key : Keys, id : 1..ids]) /\ ids \in Nat
    BY DEF AgentInv, BatchInv, ScalarInv
  <2>2. Len(batch) \in Nat /\ \A i \in 1..Len(batch) : batch[i] \in [key : Keys, id : 1..ids]
    BY <2>1, LenProperties, ElementOfSeq
  <2> QED
    BY <2>1, <2>2
<1>r. ASSUME loop' = "done" PROVE BatchInv' /\ BudgetInv' /\ RecorderInv'
  <2>1. UNCHANGED <<toolCalls, repeats, admitted, decision, call, ledger, lost>>
    BY <1>r DEF AdmitBatch
  <2>2. BatchInv' /\ BudgetInv'
    BY <1>r, <1>u, <2>1, SameBatch, SameBudget DEF AgentInv, ghosts
  <2>3. RecorderInv'
    BY <1>r, <1>u, <2>1 DEF AgentInv, RecorderInv
  <2> QED
    BY <2>2, <2>3
<1>h. ASSUME loop' # "done" PROVE BatchInv' /\ BudgetInv' /\ RecorderInv'
  <2>1. PICK W \in SUBSET Known : HandsOver(W)
    BY <1>h, BatchHanded DEF AgentInv
  <2>2. Known \in SUBSET (1..Len(batch))
    BY DEF Known
  <2>3. BatchInv'
    <3>1. /\ DOMAIN ledger' \subseteq 1..ids
          /\ \A id \in DOMAIN ledger' : ledger'[id] \in {"started", "completed"}
      <4>1. PICK n \in 0..Len(batch) :
             ledger' = [id \in DOMAIN ledger \cup {batch[i].id : i \in {j \in Denied : j <= n}} |->
                          IF id \in DOMAIN ledger THEN ledger[id] ELSE "completed"]
        BY <2>1 DEF HandsOver, RecordDenied
      <4>2. \A j \in Denied : batch[j].id \in 1..ids
        BY <1>t, <2>1 DEF HandsOver
      <4> QED
        BY <4>1, <4>2 DEF AgentInv, BatchInv
    <3>2. toolCalls' \in 0..MaxToolCalls /\ repeats' \in [Keys -> 0..MaxRepeats]
      <4>1. CASE UNCHANGED <<toolCalls, repeats>>
        BY <4>1 DEF AgentInv, BatchInv
      <4>2. CASE Admits(W)
        <5>1. Cardinality(W) \in Nat /\ \A k \in Keys : Cardinality(KeyIn(W, k)) \in Nat
          BY <2>1, KnownFinite DEF AgentInv
        <5>2. toolCalls \in 0..MaxToolCalls /\ repeats \in [Keys -> 0..MaxRepeats]
              /\ MaxToolCalls \in Nat /\ MaxRepeats \in Nat
          BY DEF AgentInv, BatchInv, TurnAssumption, NormalizedTurnOptions
        <5> QED
          BY <4>2, <5>1, <5>2 DEF Admits
      <4> QED
        BY <2>1, <4>1, <4>2 DEF HandsOver
    <3>3. /\ DOMAIN admitted' \subseteq 1..ids
          /\ \A id \in DOMAIN admitted' :
               admitted'[id] \in [key : Keys, allowed : BOOLEAN, started : BOOLEAN]
      <4>1. CASE UNCHANGED admitted
        BY <4>1 DEF AgentInv, BatchInv
      <4>2. CASE Admits(W)
        <5>1. ASSUME NEW i \in Known
              PROVE  admitted'[batch[i].id] \in [key : Keys, allowed : BOOLEAN, started : BOOLEAN]
          BY <4>2 DEF Admits
        <5>2. \A id \in DOMAIN admitted' : id \in DOMAIN admitted \/ \E i \in Known : id = batch[i].id
          BY <4>2 DEF Admits
        <5>3. \A id \in DOMAIN admitted :
                admitted'[id] \in [key : Keys, allowed : BOOLEAN, started : BOOLEAN]
          BY <4>2 DEF Admits, AgentInv, BatchInv
        <5>4. DOMAIN admitted \subseteq 1..ids
          BY DEF AgentInv, BatchInv
        <5>5. DOMAIN admitted' \subseteq 1..ids
          BY <1>t, <2>2, <5>2, <5>4
        <5> QED
          BY <5>1, <5>2, <5>3, <5>5
      <4> QED
        BY <2>1, <4>1, <4>2 DEF HandsOver
    <3> QED
      BY <1>u, <2>1, <3>1, <3>2, <3>3 DEF AgentInv, BatchInv, HandsOver
  <2>4. BudgetInv'
    <3>1. \A k \in Keys : Pending(k)' = KeyIn(W, k)
      BY <1>u, <2>1, <2>2 DEF Pending, KeyIn, HandsOver
    <3>2. \A k \in Keys : Cardinality(KeyIn(W, k)) \in Nat
      BY <2>1, KnownFinite DEF AgentInv
    <3>3. /\ \A k \in Keys : /\ since[k] \in Nat /\ repeats[k] \in Nat
                             /\ since[k] <= repeats[k] + MaxRepeats /\ MaxRepeats \in Nat
          /\ IsFiniteSet(AllowedIds) /\ Cardinality(AllowedIds) \in Nat
          /\ Cardinality(AllowedIds) <= toolCalls /\ toolCalls \in Nat
      <4>1. /\ IsFiniteSet(AllowedIds) /\ Cardinality(AllowedIds) \in Nat
            /\ \A k \in Keys : /\ since[k] \in Nat /\ repeats[k] \in Nat
                              /\ Cardinality(Pending(k)) \in Nat
        BY <1>t, Counted DEF AgentInv
      <4>2. MaxRepeats \in Nat /\ toolCalls \in Nat
        BY DEF AgentInv, BatchInv, TurnAssumption, NormalizedTurnOptions
      <4> QED
        BY <4>1, <4>2 DEF AgentInv, BudgetInv
    <3>4. CASE W = {} /\ UNCHANGED <<toolCalls, repeats, admitted>>
      <4>1. AllowedIds' = AllowedIds /\ \A k \in Keys : KeyIn(W, k) = {}
        BY <3>4 DEF AllowedIds, KeyIn
      <4>2. \A k \in Keys : Cardinality(Pending(k)') = 0
        BY <3>1, <4>1, FS_EmptySet
      <4>3. \A k \in Keys : /\ Cardinality(Pending(k)') <= MaxRepeats
                            /\ since'[k] + Cardinality(Pending(k)') <= repeats'[k] + MaxRepeats
        BY <1>u, <3>3, <3>4, <4>2
      <4>4. \A i \in DOMAIN call' : call'[i] = "denied"
        BY <2>1, <3>4 DEF HandsOver
      <4> QED
        BY <1>u, <3>4, <4>1, <4>3, <4>4 DEF AgentInv, BudgetInv
    <3>5. CASE Admits(W)
      <4> DEFINE New == {batch[i].id : i \in W}
                 f == [i \in W |-> batch[i].id]
      <4>1. AllowedIds' = AllowedIds \cup New
        BY <2>1, <3>5 DEF Admits, AllowedIds
      <4>2. IsFiniteSet(W) /\ Cardinality(W) \in Nat
        BY <2>1, KnownFinite DEF AgentInv
      <4>3. IsFiniteSet(New) /\ Cardinality(New) <= Cardinality(W) /\ Cardinality(New) \in Nat
        <5>1. f \in Surjection(W, New)
          BY DEF Surjection
        <5> QED
          BY <4>2, <5>1, FS_Surjection, FS_CardinalityType
      <4>4. Cardinality(AllowedIds') <= Cardinality(AllowedIds) + Cardinality(W)
        <5>1. /\ Cardinality(AllowedIds') =
                   Cardinality(AllowedIds) + Cardinality(New) - Cardinality(AllowedIds \cap New)
              /\ Cardinality(AllowedIds \cap New) \in Nat
          BY <3>3, <4>1, <4>3, FS_Union, FS_Intersection, FS_CardinalityType
        <5> QED
          BY <3>3, <4>2, <4>3, <5>1
      <4>5. Cardinality(AllowedIds') <= toolCalls'
        <5>1. Cardinality(AllowedIds') \in Int
          <6>1. IsFiniteSet(AllowedIds')
            BY <3>3, <4>1, <4>3, FS_Union
          <6> QED
            BY <6>1, FS_CardinalityType
        <5> QED
          BY <3>3, <3>5, <4>2, <4>4, <5>1 DEF Admits
      <4>6. \A k \in Keys : /\ Cardinality(Pending(k)') <= MaxRepeats
                            /\ since'[k] + Cardinality(Pending(k)') <= repeats'[k] + MaxRepeats
        <5>1. \A k \in Keys : repeats'[k] = repeats[k] + Cardinality(KeyIn(W, k))
                              /\ repeats'[k] <= MaxRepeats
          BY <3>5 DEF Admits
        <5> QED
          BY <1>u, <3>1, <3>2, <3>3, <5>1
      <4>7. \A id \in DOMAIN ran : id \in AllowedIds' /\ admitted'[id].started /\ ran[id] = 1
        BY <3>5, <4>1 DEF Admits, AgentInv, BudgetInv, AllowedIds
      <4>8. \A i \in DOMAIN call' : /\ call'[i] # "running"
                                    /\ call'[i] # "denied" => batch[i].id \in AllowedIds'
        BY <2>1, <4>1 DEF HandsOver
      <4> QED
        BY <1>u, <4>5, <4>6, <4>7, <4>8 DEF BudgetInv
    <3> QED
      BY <2>1, <3>4, <3>5 DEF HandsOver
  <2>5. RecorderInv'
    <3> SUFFICES ASSUME ~lost' PROVE RecorderInv'
      BY DEF RecorderInv
    <3>1. ~lost /\ \A id \in DOMAIN ledger : ledger[id] # "started"
      BY <1>0, <1>u DEF AgentInv, RecorderInv
    <3>2. ledger' = [id \in DOMAIN ledger \cup {batch[i].id : i \in Denied} |->
                       IF id \in DOMAIN ledger THEN ledger[id] ELSE "completed"]
      BY <2>1 DEF HandsOver, RecordDenied
    <3>3. \A id \in DOMAIN ledger' : ledger'[id] # "started"
      BY <3>1, <3>2
    <3>4. \A i \in DOMAIN call' : call'[i] \in Settled => batch[i].id \in DOMAIN ledger'
      BY <2>1, <3>2 DEF HandsOver, Settled
    <3> QED
      BY <1>u, <3>3, <3>4 DEF RecorderInv
  <2> QED
    BY <2>3, <2>4, <2>5
<1>1. ScalarInv'
  BY <1>0 DEF AgentInv, ScalarInv, AdmitBatch, Finish, reader, usage
<1>2. BatchInv'
  BY <1>r, <1>h
<1>3. BudgetInv'
  BY <1>r, <1>h
<1>4. RecorderInv'
  BY <1>r, <1>h
<1>5. AnsweredInv'
  BY DEF AgentInv, AnsweredInv, AdmitBatch, Finish, recorder
<1>6. UsageInv'
  BY <1>0 DEF AgentInv, UsageInv, Flowing, AdmitBatch, Finish, usage
<1>7. ReaderInv'
  BY DEF AgentInv, ReaderInv, Open, AdmitBatch, Finish, reader
<1> QED
  BY <1>1, <1>2, <1>3, <1>4, <1>5, <1>6, <1>7 DEF AgentInv

LEMMA StartCallKept ==
  ASSUME TurnAssumption, AgentInv, NEW i \in 1..Len(batch), StartCall(i)
  PROVE  AgentInv'
<1>r. /\ BatchInv /\ ids \in Nat /\ i \in DOMAIN call /\ loop = "running"
      /\ DOMAIN call = 1..Len(batch)
  BY DEF AgentInv, ScalarInv, BatchInv, StartCall
<1>k. batch[i] \in [key : Keys, id : 1..ids]
  BY <1>r, ElementOfSeq DEF BatchInv
<1>b. batch[i].id \in 1..ids /\ batch[i].key \in Keys
  BY <1>k
<1>1. ScalarInv'
  BY DEF AgentInv, ScalarInv, StartCall, RecordStart, reader, usage
<1>2. BatchInv'
  <2>1. /\ DOMAIN ledger' \subseteq 1..ids
        /\ \A id \in DOMAIN ledger' : ledger'[id] \in {"started", "completed"}
    <3>1. CASE ledger' = ledger
      BY <1>r, <3>1 DEF BatchInv
    <3>2. CASE ledger' = Put(ledger, batch[i].id, "started")
      BY <1>r, <1>b, <3>2 DEF BatchInv, Put
    <3> QED
      BY <3>1, <3>2 DEF StartCall, RecordStart
  <2>2. /\ DOMAIN admitted' = DOMAIN admitted
        /\ \A id \in DOMAIN admitted :
             admitted'[id] \in [key : Keys, allowed : BOOLEAN, started : BOOLEAN]
    <3>1. CASE admitted' = admitted
      BY <1>r, <3>1 DEF BatchInv
    <3>2. CASE admitted' = [admitted EXCEPT ![batch[i].id].started = TRUE]
      BY <1>r, <3>2 DEF BatchInv
    <3> QED
      BY <3>1, <3>2 DEF StartCall
  <2>3. since' \in [Keys -> Nat]
    <3>1. CASE since' = since
      BY <1>r, <3>1 DEF BatchInv
    <3>2. CASE since' = [since EXCEPT ![batch[i].key] = @ + 1]
      <4>1. since \in [Keys -> Nat]
        BY <1>r DEF BatchInv
      <4>2. since[batch[i].key] + 1 \in Nat
        BY <1>b, <4>1
      <4> QED
        BY <3>2, <4>1, <4>2
    <3> QED
      BY <3>1, <3>2 DEF StartCall, ghosts
  <2>4. DOMAIN call' = DOMAIN call /\ \A j \in DOMAIN call :
          call'[j] \in {"denied", "waiting", "running", "stopping", "succeeded", "errored"}
    BY <1>r DEF BatchInv, StartCall
  <2> QED
    BY <1>r, <2>1, <2>2, <2>3, <2>4 DEF BatchInv, StartCall
<1>3. BudgetInv'
  <2>1. CASE ctx # "live"
    <3>1. /\ call' = [call EXCEPT ![i] = "stopping"] /\ batch' = batch /\ call[i] = "waiting"
          /\ UNCHANGED <<admitted, toolCalls, repeats, since, ran>>
      BY <2>1 DEF StartCall, ghosts
    <3>2. AllowedIds' = AllowedIds
      BY <3>1 DEF AllowedIds
    <3>5. \A k \in Keys :
            Cardinality(Pending(k)') =
              IF i \in Pending(k) THEN Cardinality(Pending(k)) - 1 ELSE Cardinality(Pending(k))
      BY <1>r, <3>1, PendingAfter
    <3>3. \A k \in Keys : /\ Cardinality(Pending(k)') \in Int
                          /\ Cardinality(Pending(k)') <= Cardinality(Pending(k))
      BY <1>r, <3>5, Counted
    <3>4. \A k \in Keys : /\ Cardinality(Pending(k)') <= MaxRepeats
                          /\ since'[k] + Cardinality(Pending(k)') <= repeats'[k] + MaxRepeats
      <4>1. MaxRepeats \in Nat /\ BudgetInv
        BY DEF AgentInv, TurnAssumption, NormalizedTurnOptions
      <4>2. \A k \in Keys : /\ Cardinality(Pending(k)) \in Nat /\ since[k] \in Nat
                            /\ repeats[k] \in Nat
        BY <1>r, Counted
      <4>3. since' = since /\ repeats' = repeats
        BY <3>1
      <4> QED
        BY <3>3, <4>1, <4>2, <4>3 DEF BudgetInv
    <3> QED
      BY <1>r, <3>1, <3>2, <3>4 DEF AgentInv, BudgetInv, MayStart
  <2>2. CASE ctx = "live"
    <3> DEFINE id == batch[i].id
               b  == batch[i].key
    <3>1. /\ call' = [call EXCEPT ![i] = "running"] /\ batch' = batch /\ MayStart(id)
          /\ admitted' = [admitted EXCEPT ![id].started = TRUE]
          /\ since' = [since EXCEPT ![b] = @ + 1]
          /\ ran' = Put(ran, id, IF id \in DOMAIN ran THEN ran[id] + 1 ELSE 1)
          /\ UNCHANGED <<toolCalls, repeats>> /\ call[i] = "waiting"
      BY <2>2 DEF StartCall
    <3>2. id \in AllowedIds /\ b \in Keys /\ id \notin DOMAIN ran
      BY <1>r, <1>b, <3>1 DEF AgentInv, BudgetInv, MayStart, AllowedIds
    <3>3. /\ DOMAIN admitted' = DOMAIN admitted
          /\ \A j \in DOMAIN admitted : admitted'[j].allowed = admitted[j].allowed
          /\ \A j \in DOMAIN admitted : j # id => admitted'[j] = admitted[j]
          /\ admitted'[id].started
      BY <1>r, <3>1, <3>2 DEF AllowedIds, BatchInv
    <3>4. AllowedIds' = AllowedIds
      BY <3>3 DEF AllowedIds
    <3>5. i \in Pending(b) /\ \A k \in Keys : k # b => i \notin Pending(k)
      BY <1>r, <3>1 DEF Pending
    <3>6. \A k \in Keys :
            /\ Cardinality(Pending(k)') = IF k = b THEN Cardinality(Pending(k)) - 1
                                                   ELSE Cardinality(Pending(k))
            /\ since'[k] = IF k = b THEN since[k] + 1 ELSE since[k]
      BY <1>r, <3>1, <3>2, <3>5, PendingAfter DEF BatchInv
    <3>7. \A k \in Keys : /\ Cardinality(Pending(k)') <= MaxRepeats
                          /\ since'[k] + Cardinality(Pending(k)') <= repeats[k] + MaxRepeats
      <4>1. MaxRepeats \in Nat /\ BudgetInv
        BY DEF AgentInv, TurnAssumption, NormalizedTurnOptions
      <4>2. \A k \in Keys : /\ Cardinality(Pending(k)) \in Nat /\ since[k] \in Nat
                            /\ repeats[k] \in Nat
        BY <1>r, Counted
      <4> QED
        BY <3>6, <4>1, <4>2 DEF BudgetInv
    <3>8. \A j \in DOMAIN ran' : j \in AllowedIds' /\ admitted'[j].started /\ ran'[j] = 1
      BY <3>1, <3>2, <3>3, <3>4 DEF AgentInv, BudgetInv, Put, AllowedIds
    <3>9. \A j \in DOMAIN call' : /\ call'[j] = "running" => ~MayStart(batch[j].id)'
                                  /\ call'[j] # "denied" => batch'[j].id \in AllowedIds'
      BY <1>r, <3>1, <3>2, <3>3, <3>4 DEF AgentInv, BudgetInv, MayStart, AllowedIds
    <3> QED
      BY <3>1, <3>4, <3>7, <3>8, <3>9 DEF AgentInv, BudgetInv
  <2> QED
    BY <2>1, <2>2
<1>4. RecorderInv'
  <2> SUFFICES ASSUME ~lost' PROVE RecorderInv'
    BY DEF RecorderInv
  <2>1. /\ ~lost /\ ledger' = Put(ledger, batch[i].id, "started") /\ batch' = batch
        /\ call[i] = "waiting" /\ \E v \in UnderWay : call' = [call EXCEPT ![i] = v]
        /\ loop' = loop
    BY DEF StartCall, RecordStart, Records, UnderWay
  <2>2. PICK v \in UnderWay : call' = [call EXCEPT ![i] = v]
    BY <2>1
  <2>3. ASSUME NEW id \in DOMAIN ledger', ledger'[id] = "started"
        PROVE  \E j \in DOMAIN call' : call'[j] \in UnderWay /\ batch'[j].id = id
    <3>1. CASE id = batch[i].id
      BY <1>r, <2>1, <2>2, <3>1
    <3>2. CASE id # batch[i].id
      <4>1. id \in DOMAIN ledger /\ ledger[id] = "started"
        BY <2>1, <2>3, <3>2 DEF Put
      <4>2. PICK j \in DOMAIN call : call[j] \in UnderWay /\ batch[j].id = id
        BY <2>1, <4>1 DEF AgentInv, RecorderInv
      <4> QED
        BY <2>1, <2>2, <4>2
    <3> QED
      BY <3>1, <3>2
  <2>4. \A j \in DOMAIN call' : call'[j] \in Settled => batch'[j].id \in DOMAIN ledger'
    BY <1>r, <2>1, <2>2 DEF AgentInv, RecorderInv, Put, UnderWay, Settled
  <2> QED
    BY <1>r, <2>1, <2>3, <2>4 DEF RecorderInv
<1>5. AnsweredInv'
  BY DEF AgentInv, AnsweredInv, StartCall, RecordStart, Put
<1>6. UsageInv'
  BY DEF AgentInv, UsageInv, Flowing, StartCall, RecordStart, usage
<1>7. ReaderInv'
  BY DEF AgentInv, ReaderInv, Open, StartCall, reader
<1> QED
  BY <1>1, <1>2, <1>3, <1>4, <1>5, <1>6, <1>7 DEF AgentInv

LEMMA EndCallKept ==
  ASSUME TurnAssumption, AgentInv, NEW i \in 1..Len(batch), EndCall(i)
  PROVE  AgentInv'
<1>r. /\ BatchInv /\ ids \in Nat /\ i \in DOMAIN call /\ loop = "running"
      /\ DOMAIN call = 1..Len(batch)
  BY DEF AgentInv, ScalarInv, BatchInv, EndCall
<1>k. batch[i] \in [key : Keys, id : 1..ids]
  BY <1>r, ElementOfSeq DEF BatchInv
<1>b. batch[i].id \in 1..ids /\ batch[i].key \in Keys
  BY <1>k
<1>c. \/ UNCHANGED <<repeats, since>>
      \/ repeats' = [k \in Keys |-> 0] /\ since' = [k \in Keys |-> 0]
  BY DEF EndCall, MarkStateChanged
<1>1. ScalarInv'
  BY DEF AgentInv, ScalarInv, EndCall, RecordEnd, reader, usage
<1>2. BatchInv'
  <2>1. /\ DOMAIN ledger' \subseteq 1..ids
        /\ \A id \in DOMAIN ledger' : ledger'[id] \in {"started", "completed"}
    BY <1>r, <1>b DEF BatchInv, EndCall, RecordEnd, Put
  <2>2. since' \in [Keys -> Nat] /\ repeats' \in [Keys -> 0..MaxRepeats]
    <3>1. 0 \in 0..MaxRepeats
      BY DEF TurnAssumption, NormalizedTurnOptions
    <3>2. CASE UNCHANGED <<repeats, since>>
      BY <1>r, <3>2 DEF BatchInv
    <3>3. CASE repeats' = [k \in Keys |-> 0] /\ since' = [k \in Keys |-> 0]
      BY <3>1, <3>3
    <3> QED
      BY <1>c, <3>2, <3>3
  <2>3. DOMAIN call' = DOMAIN call /\ \A j \in DOMAIN call :
          call'[j] \in {"denied", "waiting", "running", "stopping", "succeeded", "errored"}
    BY <1>r DEF BatchInv, EndCall
  <2> QED
    BY <1>r, <2>1, <2>2, <2>3 DEF BatchInv, EndCall
<1>3. BudgetInv'
  <2>1. /\ call[i] \in UnderWay /\ batch' = batch /\ UNCHANGED <<admitted, toolCalls, ran>>
        /\ \E v \in Settled : call' = [call EXCEPT ![i] = v]
    BY DEF EndCall, UnderWay, Settled
  <2>2. PICK v \in Settled : call' = [call EXCEPT ![i] = v]
    BY <2>1
  <2>3. AllowedIds' = AllowedIds
    BY <2>1 DEF AllowedIds
  <2>4. \A k \in Keys : Cardinality(Pending(k)') = Cardinality(Pending(k))
    <3>1. \A k \in Keys : i \notin Pending(k)
      BY <2>1 DEF Pending, UnderWay
    <3> QED
      BY <1>r, <2>1, <2>2, <3>1, PendingAfter DEF Settled
  <2>5. \A k \in Keys : /\ Cardinality(Pending(k)') <= MaxRepeats
                        /\ since'[k] + Cardinality(Pending(k)') <= repeats'[k] + MaxRepeats
    BY <1>r, <1>c, <2>4, Counted DEF AgentInv, BudgetInv, TurnAssumption,
       NormalizedTurnOptions
  <2>6. \A j \in DOMAIN call' : /\ call'[j] = "running" => ~MayStart(batch[j].id)'
                                /\ call'[j] # "denied" => batch'[j].id \in AllowedIds'
    BY <1>r, <2>1, <2>2, <2>3 DEF AgentInv, BudgetInv, MayStart, UnderWay, Settled
  <2> QED
    BY <2>1, <2>3, <2>5, <2>6 DEF AgentInv, BudgetInv
<1>4. RecorderInv'
  <2> SUFFICES ASSUME ~lost' PROVE RecorderInv'
    BY DEF RecorderInv
  <2>1. /\ ~lost /\ ledger' = Put(ledger, batch[i].id, "completed") /\ batch' = batch
        /\ \E v \in Settled : call' = [call EXCEPT ![i] = v]
        /\ loop' = loop
    BY DEF EndCall, RecordEnd, Settled
  <2>2. PICK v \in Settled : call' = [call EXCEPT ![i] = v]
    BY <2>1
  <2>3. ASSUME NEW id \in DOMAIN ledger', ledger'[id] = "started"
        PROVE  \E j \in DOMAIN call' : call'[j] \in UnderWay /\ batch'[j].id = id
    <3>1. id # batch[i].id /\ id \in DOMAIN ledger /\ ledger[id] = "started"
      BY <2>1, <2>3 DEF Put
    <3>2. PICK j \in DOMAIN call : call[j] \in UnderWay /\ batch[j].id = id
      BY <2>1, <3>1 DEF AgentInv, RecorderInv
    <3> QED
      BY <2>1, <2>2, <3>1, <3>2
  <2>4. \A j \in DOMAIN call' : call'[j] \in Settled => batch'[j].id \in DOMAIN ledger'
    BY <1>r, <2>1, <2>2 DEF AgentInv, RecorderInv, Put, Settled
  <2> QED
    BY <1>r, <2>1, <2>3, <2>4 DEF RecorderInv
<1>5. AnsweredInv'
  BY DEF AgentInv, AnsweredInv, EndCall, RecordEnd, Put
<1>6. UsageInv'
  BY DEF AgentInv, UsageInv, Flowing, EndCall, RecordEnd, usage
<1>7. ReaderInv'
  BY DEF AgentInv, ReaderInv, Open, EndCall, reader
<1> QED
  BY <1>1, <1>2, <1>3, <1>4, <1>5, <1>6, <1>7 DEF AgentInv

LEMMA CollectBatchKept ==
  ASSUME TurnAssumption, AgentInv, CollectBatch
  PROVE  AgentInv'
<1>0. loop' # "running"
  BY DEF CollectBatch, Finish
<1>1. ScalarInv'
  BY DEF AgentInv, ScalarInv, CollectBatch, Finish, budget, recorder, reader, usage
<1>2. BatchInv'
  BY <1>0, SameBatch DEF AgentInv, CollectBatch, budget, recorder, ghosts
<1>3. BudgetInv'
  BY SameBudget DEF AgentInv, CollectBatch, MayContinue, budget, ghosts
<1>4. RecorderInv'
  BY DEF AgentInv, RecorderInv, UnderWay, BatchInv, CollectBatch, recorder
<1>5. AnsweredInv'
  <2> SUFFICES ASSUME MayContinue PROVE AnsweredInv'
    BY <1>0 DEF CollectBatch, Finish, AnsweredInv
  <2> DEFINE nth(n) == CHOOSE i \in Permitted : Place(i) = n
  <2>1. /\ loop = "running" /\ batch' = batch /\ ledger' = ledger /\ ~lost
        /\ \A i \in 1..Len(batch) : call[i] \in Settled
        /\ results' = Merge([n \in 1..Cardinality(Permitted) |-> batch[nth(n)].id])
    BY DEF CollectBatch, MayContinue, Settled, recorder
  <2>2. /\ Len(batch) \in Nat /\ DOMAIN call = 1..Len(batch)
        /\ \A i \in 1..Len(batch) : batch[i] \in [key : Keys, id : 1..ids]
    <3>1. batch \in Seq([key : Keys, id : 1..ids])
      BY DEF AgentInv, BatchInv
    <3>2. Len(batch) \in Nat /\ \A i \in 1..Len(batch) : batch[i] \in [key : Keys, id : 1..ids]
      BY <3>1, LenProperties, ElementOfSeq
    <3> QED
      BY <2>1, <3>2 DEF AgentInv, BatchInv
  <2>3. ASSUME NEW i \in Permitted
        PROVE  nth(Place(i)) = i /\ Place(i) \in 1..Cardinality(Permitted)
    BY <2>2, PlacesDiffer
  <2>4. /\ results' \in [1..Len(batch) -> 1..ids]
        /\ \A i \in 1..Len(batch) : results'[i] = batch[i].id
    BY <2>1, <2>2, <2>3 DEF Merge
  <2>5. Len(results') = Len(batch)
    BY <2>2, <2>4, SegmentIsSeq
  <2>6. /\ \A id \in DOMAIN ledger : ledger[id] # "started"
        /\ \A i \in 1..Len(batch) : batch[i].id \in DOMAIN ledger
    BY <2>1, <2>2 DEF AgentInv, RecorderInv, Settled, UnderWay
  <2> QED
    BY <2>1, <2>4, <2>5, <2>6 DEF AnsweredInv, AgentInv, BatchInv
<1>6. UsageInv'
  BY DEF AgentInv, UsageInv, Flowing, CollectBatch, Finish, budget, recorder, usage
<1>7. ReaderInv'
  BY DEF AgentInv, ReaderInv, Open, CollectBatch, Finish, reader
<1> QED
  BY <1>1, <1>2, <1>3, <1>4, <1>5, <1>6, <1>7 DEF AgentInv

LEMMA DispatchAgainKept ==
  ASSUME TurnAssumption, AgentInv, NEW i \in 1..Len(batch), DispatchAgain(i)
  PROVE  AgentInv'
<1>r. /\ BatchInv /\ ids \in Nat /\ i \in DOMAIN call /\ loop = "running"
      /\ DOMAIN call = 1..Len(batch)
  BY DEF AgentInv, ScalarInv, BatchInv, DispatchAgain
<1>k. batch[i] \in [key : Keys, id : 1..ids]
  BY <1>r, ElementOfSeq DEF BatchInv
<1>b. batch[i].id \in 1..ids /\ batch[i].key \in Keys
  BY <1>k
<1>1. ScalarInv'
  BY DEF AgentInv, ScalarInv, DispatchAgain, budget, calls, reader, usage
<1>2. BatchInv'
  BY DEF AgentInv, BatchInv, DispatchAgain, budget, calls
<1>3. BudgetInv'
  BY <1>r, SameBudget DEF AgentInv, BudgetInv, DispatchAgain, budget, calls, ghosts
<1>4. RecorderInv'
  BY DEF AgentInv, RecorderInv, UnderWay, Settled, DispatchAgain
<1>5. AnsweredInv'
  BY DEF AgentInv, AnsweredInv, DispatchAgain, calls, recorder
<1>6. UsageInv'
  BY DEF AgentInv, UsageInv, Flowing, DispatchAgain, budget, usage
<1>7. ReaderInv'
  BY DEF AgentInv, ReaderInv, Open, DispatchAgain, reader
<1> QED
  BY <1>1, <1>2, <1>3, <1>4, <1>5, <1>6, <1>7 DEF AgentInv

LEMMA AskFinalKept ==
  ASSUME TurnAssumption, AgentInv, AskFinal
  PROVE  AgentInv'
<1>0. stream' \in Streams
  BY StreamStarts DEF AgentInv, ScalarInv, AskFinal
<1>1. ScalarInv'
  BY <1>0 DEF AgentInv, ScalarInv, AskFinal, Finish, calls, recorder
<1>2. BatchInv'
  BY SameBatch DEF AgentInv, AskFinal, Finish, calls, recorder, ghosts
<1>3. BudgetInv'
  BY SameBudget DEF AgentInv, AskFinal, budget, calls, ghosts
<1>4. RecorderInv'
  BY DEF AgentInv, RecorderInv, AskFinal, Finish, recorder
<1>5. AnsweredInv'
  BY DEF AgentInv, AnsweredInv, AskFinal, Finish, recorder
<1>6. UsageInv'
  BY DEF AgentInv, UsageInv, Flowing, Open, NoStream, ScalarInv, AskFinal, Finish, recorder
<1>7. ReaderInv'
  BY DEF AgentInv, ReaderInv, NoStream, AskFinal, Finish
<1> QED
  BY <1>1, <1>2, <1>3, <1>4, <1>5, <1>6, <1>7 DEF AgentInv

LEMMA ReceiveTextKept ==
  ASSUME TurnAssumption, AgentInv, ReceiveText
  PROVE  AgentInv'
<1>1. ScalarInv'
  BY DEF AgentInv, ScalarInv, Streams, ReceiveText, budget, calls, recorder, usage
<1>2. BatchInv'
  BY SameBatch DEF AgentInv, ReceiveText, budget, calls, recorder, ghosts
<1>3. BudgetInv'
  BY SameBudget DEF AgentInv, ReceiveText, budget, calls, ghosts
<1>4. RecorderInv'
  BY DEF AgentInv, RecorderInv, Settled, ReceiveText, recorder
<1>5. AnsweredInv'
  BY DEF AgentInv, AnsweredInv, ReceiveText, calls, recorder
<1>6. UsageInv'
  BY DEF AgentInv, UsageInv, Flowing, Open, Streams, ScalarInv, ReceiveText, budget,
     recorder, usage
<1>7. ReaderInv'
  BY DEF AgentInv, ReaderInv, Streams, ScalarInv, ReceiveText
<1> QED
  BY <1>1, <1>2, <1>3, <1>4, <1>5, <1>6, <1>7 DEF AgentInv

LEMMA ReceiveEndKept ==
  ASSUME TurnAssumption, AgentInv, ReceiveEnd
  PROVE  AgentInv'
<1>0. \/ FinishStream("eof", "none") /\ UNCHANGED shown /\ (stream.source = "live" => stream.text)
      \/ /\ FinishStream("eof", "sent") /\ shown' = Append(shown, "fallback")
         /\ stream.source = "live" /\ ~stream.text
      \/ FinishStream("error", "none") /\ UNCHANGED shown
  BY DEF ReceiveEnd, NeedsFallback
<1>s. PICK how \in {"eof", "error"}, fallback \in {"none", "sent"} :
        /\ FinishStream(how, fallback)
        /\ \/ UNCHANGED shown /\ (stream.source = "live" /\ how = "eof" => stream.text)
           \/ stream.source = "live" /\ ~stream.text /\ shown' = Append(shown, "fallback")
  BY <1>0
<1>t. /\ stream' \in Streams /\ stream'.ended = how
      /\ stream'.source = stream.source /\ stream'.text = stream.text
      /\ charged' \in Nat /\ reported' \in Nat /\ lost' \in BOOLEAN
      /\ reported' = IF stream.source = "live" THEN reported + 1 ELSE reported
      /\ charged' <= reported' /\ (~lost' => charged' = reported')
  BY <1>s, StreamEnds DEF AgentInv, UsageInv
<1>1. ScalarInv'
  BY <1>t DEF AgentInv, ScalarInv, ReceiveEnd, budget, calls
<1>2. BatchInv'
  BY SameBatch DEF AgentInv, ReceiveEnd, budget, calls, ghosts
<1>3. BudgetInv'
  BY SameBudget DEF AgentInv, ReceiveEnd, budget, calls, ghosts
<1>4. RecorderInv'
  BY DEF AgentInv, RecorderInv, ReceiveEnd, FinishStream, Charge
<1>5. AnsweredInv'
  BY DEF AgentInv, AnsweredInv, ReceiveEnd, calls, recorder
<1>6. UsageInv'
  BY <1>s, <1>t DEF AgentInv, UsageInv, Flowing, Open, ReceiveEnd, budget
<1>7. ReaderInv'
  BY <1>s, <1>t DEF AgentInv, ReaderInv, Open, ReceiveEnd
<1> QED
  BY <1>1, <1>2, <1>3, <1>4, <1>5, <1>6, <1>7 DEF AgentInv

LEMMA CloseStreamKept ==
  ASSUME TurnAssumption, AgentInv, CloseStream
  PROVE  AgentInv'
<1>0. FinishStream("closed", "none") /\ ScalarInv /\ UsageInv
  BY DEF CloseStream, AgentInv
<1>s. PICK how \in {"closed"} :
      /\ stream' \in Streams /\ stream'.ended = how
      /\ stream'.source = stream.source /\ stream'.text = stream.text
      /\ charged' \in Nat /\ reported' \in Nat /\ lost' \in BOOLEAN
      /\ reported' = IF stream.source = "live" THEN reported + 1 ELSE reported
      /\ charged' <= reported' /\ (~lost' => charged' = reported')
  BY <1>0, StreamEnds DEF UsageInv
<1>1. ScalarInv'
  BY <1>s DEF AgentInv, ScalarInv, CloseStream, budget, calls
<1>2. BatchInv'
  BY SameBatch DEF AgentInv, CloseStream, budget, calls, ghosts
<1>3. BudgetInv'
  BY SameBudget DEF AgentInv, CloseStream, budget, calls, ghosts
<1>4. RecorderInv'
  BY DEF AgentInv, RecorderInv, CloseStream, FinishStream, Charge
<1>5. AnsweredInv'
  BY DEF AgentInv, AnsweredInv, CloseStream, calls, recorder
<1>6. UsageInv'
  BY <1>s DEF AgentInv, UsageInv, Flowing, Open, CloseStream, budget
<1>7. ReaderInv'
  BY <1>s DEF AgentInv, ReaderInv, Open, CloseStream
<1> QED
  BY <1>1, <1>2, <1>3, <1>4, <1>5, <1>6, <1>7 DEF AgentInv

LEMMA FinishTurnKept ==
  ASSUME TurnAssumption, AgentInv, FinishTurn
  PROVE  AgentInv'
<1>1. ScalarInv'
  BY DEF AgentInv, ScalarInv, FinishTurn, Finish, budget, calls, recorder, reader, usage
<1>2. BatchInv'
  BY SameBatch DEF AgentInv, FinishTurn, Finish, budget, calls, recorder, ghosts
<1>3. BudgetInv'
  BY SameBudget DEF AgentInv, FinishTurn, budget, calls, ghosts
<1>4. RecorderInv'
  BY DEF AgentInv, RecorderInv, FinishTurn, Finish, recorder
<1>5. AnsweredInv'
  BY DEF AgentInv, AnsweredInv, FinishTurn, Finish, recorder
<1>6. UsageInv'
  BY DEF AgentInv, UsageInv, Flowing, FinishTurn, Finish, Commits, budget, recorder, reader,
     usage
<1>7. ReaderInv'
  BY DEF AgentInv, ReaderInv, Open, FinishTurn, Finish, reader
<1> QED
  BY <1>1, <1>2, <1>3, <1>4, <1>5, <1>6, <1>7 DEF AgentInv

LEMMA EndContextKept ==
  ASSUME TurnAssumption, AgentInv, EndContext
  PROVE  AgentInv'
<1>1. ScalarInv'
  BY DEF AgentInv, ScalarInv, EndContext, budget, calls, recorder, reader, usage
<1>2. BatchInv'
  BY SameBatch DEF AgentInv, EndContext, budget, calls, recorder, ghosts
<1>3. BudgetInv'
  BY SameBudget DEF AgentInv, EndContext, budget, calls, ghosts
<1>4. RecorderInv'
  BY DEF AgentInv, RecorderInv, EndContext, calls, recorder
<1>5. AnsweredInv'
  BY DEF AgentInv, AnsweredInv, EndContext, calls, recorder
<1>6. UsageInv'
  BY DEF AgentInv, UsageInv, Flowing, Open, EndContext, budget, recorder, reader, usage
<1>7. ReaderInv'
  BY DEF AgentInv, ReaderInv, Open, EndContext, reader
<1> QED
  BY <1>1, <1>2, <1>3, <1>4, <1>5, <1>6, <1>7 DEF AgentInv

LEMMA AgentStarts == ASSUME TurnAssumption, AgentInit PROVE AgentInv
<1>1. /\ loop = "step" /\ outcome = "none" /\ ctx = "live" /\ steps = 0 /\ finals = 0
      /\ toolCalls = 0 /\ repeats = [k \in Keys |-> 0] /\ since = [k \in Keys |-> 0]
      /\ ids = 0 /\ lost = FALSE /\ charged = 0 /\ opened = 0 /\ reported = 0
      /\ stream = NoStream /\ shown = <<>>
  BY DEF AgentInit
<1>2. /\ batch = <<>> /\ DOMAIN admitted = {} /\ DOMAIN decision = {} /\ DOMAIN call = {}
      /\ DOMAIN ledger = {} /\ DOMAIN ran = {}
  BY DEF AgentInit
<1>3. MaxModelSteps \in Nat /\ MaxToolCalls \in Nat /\ MaxRepeats \in Nat /\ MaxBatch \in Nat
  BY DEF TurnAssumption, NormalizedTurnOptions
<1>4. ScalarInv
  <2>1. stream \in Streams /\ lost \in BOOLEAN
    BY <1>1, StreamStarts
  <2>2. steps \in 0..MaxModelSteps
    BY <1>1, <1>3
  <2> QED
    BY <1>1, <2>1, <2>2 DEF ScalarInv
<1>5. BatchInv
  BY <1>1, <1>2, <1>3, EmptySeq DEF BatchInv
<1>6. BudgetInv
  <2>1. AllowedIds = {} /\ \A k \in Keys : Pending(k) = {}
    BY <1>2 DEF AllowedIds, Pending
  <2>2. Cardinality(AllowedIds) = 0 /\ \A k \in Keys : Cardinality(Pending(k)) = 0
    BY <2>1, FS_EmptySet
  <2> QED
    BY <1>1, <1>2, <1>3, <2>2 DEF BudgetInv
<1>7. RecorderInv /\ AnsweredInv /\ UsageInv
  BY <1>1, <1>2 DEF RecorderInv, AnsweredInv, UsageInv, Flowing
<1>8. ReaderInv
  BY <1>1, EmptySeq DEF ReaderInv, NoStream
<1> QED
  BY <1>4, <1>5, <1>6, <1>7, <1>8 DEF AgentInv

LEMMA AgentSteps ==
  ASSUME TurnAssumption, AgentInv, [AgentNext]_avars
  PROVE  AgentInv'
<1>1. CASE Loop
  BY <1>1, AcquireStepKept, RequestFailsKept, StreamBreaksKept, ModelAnswersKept,
     ModelAsksKept, AdmitBatchKept, CollectBatchKept DEF Loop, AskModel
<1>2. CASE Calls
  BY <1>2, StartCallKept, EndCallKept DEF Calls
<1>3. CASE Again
  BY <1>3, DispatchAgainKept DEF Again
<1>4. CASE Answer
  BY <1>4, AskFinalKept, ReceiveTextKept, ReceiveEndKept, CloseStreamKept, FinishTurnKept
     DEF Answer
<1>5. CASE EndContext
  BY <1>5, EndContextKept
<1>6. CASE UNCHANGED avars
  <2>1. ScalarInv' /\ UsageInv' /\ ReaderInv' /\ AnsweredInv' /\ RecorderInv'
    BY <1>6 DEF AgentInv, avars, budget, calls, recorder, reader, usage, ScalarInv,
       UsageInv, Flowing, Open, ReaderInv, AnsweredInv, RecorderInv
  <2>2. BatchInv' /\ BudgetInv'
    BY <1>6, SameBatch, SameBudget DEF AgentInv, avars, budget, calls, recorder, ghosts
  <2> QED
    BY <2>1, <2>2 DEF AgentInv
<1> QED
  BY <1>1, <1>2, <1>3, <1>4, <1>5, <1>6 DEF AgentNext

\* The budget's bounds follow from what was counted.
LEMMA BudgetFollows == ASSUME TurnAssumption, AgentInv PROVE BudgetHolds
<1>1. /\ IsFiniteSet(AllowedIds) /\ Cardinality(AllowedIds) \in Nat
      /\ \A k \in Keys : Cardinality(Pending(k)) \in Nat
      /\ \A k \in Keys : since[k] \in Nat /\ repeats[k] \in 0..MaxRepeats
  BY Counted DEF AgentInv, ScalarInv, BatchInv
<1>2. toolCalls \in 0..MaxToolCalls /\ MaxToolCalls \in Nat /\ MaxRepeats \in Nat
  BY DEF AgentInv, BatchInv, TurnAssumption, NormalizedTurnOptions
<1>3. DOMAIN ran \in SUBSET AllowedIds
  BY DEF AgentInv, BudgetInv
<1>4. Cardinality(DOMAIN ran) \in Nat /\ Cardinality(DOMAIN ran) <= Cardinality(AllowedIds)
  BY <1>1, <1>3, FS_Subset, FS_CardinalityType
<1>5. Cardinality(DOMAIN ran) <= toolCalls /\ toolCalls <= MaxToolCalls
  BY <1>1, <1>2, <1>4 DEF AgentInv, BudgetInv
<1>6. \A k \in Keys : since[k] <= 2 * MaxRepeats
  BY <1>1, <1>2 DEF AgentInv, BudgetInv
<1> QED
  BY <1>5, <1>6 DEF AgentInv, BudgetInv, BudgetHolds

LEMMA TypesFollow == ASSUME TurnAssumption, AgentInv PROVE AgentTypeOK
<1>1. /\ ScalarInv /\ MaxModelSteps \in Nat
      /\ opened <= MaxModelSteps + 1 /\ reported <= opened /\ charged <= reported
  BY DEF AgentInv, ScalarInv, UsageInv, TurnAssumption, NormalizedTurnOptions
<1>2. {opened, reported, charged} \subseteq 0..(MaxModelSteps + 1)
  BY <1>1 DEF ScalarInv
<1>3. /\ BatchInv /\ DOMAIN batch = 1..Len(batch)
  BY LenProperties DEF AgentInv, BatchInv
<1>4. stream.source \in {"none", "collected", "live"} /\ stream.text \in BOOLEAN
  BY <1>1 DEF ScalarInv, Streams
<1> QED
  BY <1>1, <1>2, <1>3, <1>4 DEF AgentTypeOK, ScalarInv, BatchInv, Ids

LEMMA AnswersFollow ==
  ASSUME AgentInv PROVE CallsAreAnswered /\ UsageIsAccounted /\ OneAnswer
BY DEF AgentInv, AnsweredInv, CallsAreAnswered, UsageInv, UsageIsAccounted, Flowing,
   ReaderInv, OneAnswer

(* Every reachable state of a turn satisfies its invariant (runTurn).      *)
THEOREM TurnsAreGuarded == ASSUME TurnAssumption PROVE AgentSpec => []AgentInv
<1>1. AgentInit => AgentInv
  BY AgentStarts
<1>2. AgentInv /\ [AgentNext]_avars => AgentInv'
  BY AgentSteps
<1> QED
  BY <1>1, <1>2, PTL DEF AgentSpec

(* For any limits and any calls of the model, in any order, a turn runs no *)
(* more tools than its budget, none twice, and none that may not repeat    *)
(* more than twice the limit between two changes (TurnBudget).             *)
THEOREM BudgetsHold == ASSUME TurnAssumption PROVE AgentSpec => []BudgetHolds
<1>1. AgentInv => BudgetHolds
  BY BudgetFollows
<1> QED
  BY <1>1, TurnsAreGuarded, PTL

(* For any turn: each request has the results of the calls before it, each *)
(* stream is charged once and one answer is shown (runTurn, streamAnswer). *)
THEOREM TurnsAreWhole == ASSUME TurnAssumption PROVE AgentSpec => []TurnIsWhole
<1>1. AgentInv => TurnIsWhole
  BY TypesFollow, AnswersFollow DEF TurnIsWhole
<1> QED
  BY <1>1, TurnsAreGuarded, PTL
=============================================================================
