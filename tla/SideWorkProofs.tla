--------------------------- MODULE SideWorkProofs ---------------------------
(***************************************************************************)
(* What runs beside or without the conversation.                           *)
(*                                                                         *)
(* Side requests: what the transcript shows belongs to the session it      *)
(* shows, for any number of requests and sessions.                         *)
(*                                                                         *)
(* The exec command: what its result, its first record and its exit code   *)
(* say is what happened, for any tool goroutines, events and queue, and    *)
(* however they, the writer, signals and failing outputs interleave.  The  *)
(* argument follows the two records that matter, the first and the result: *)
(* where each is, what the writer has acknowledged, and that the result    *)
(* was made when turn and FILE had come to rest.                           *)
(*                                                                         *)
(* Background agents: places are used, and the cancelled are silent, for   *)
(* any number of agents.                                                   *)
(***************************************************************************)
EXTENDS BackgroundAgents, SideRequests, ExecRun, FiniteSetTheorems, WellFoundedInduction,
        TLAPS

-----------------------------------------------------------------------------
(* Side questions and reviews.                                             *)

Side(n) == <<"side", n>>
Review(n) == <<"review", n>>

(* Numbers are handed out in order, so a request that has not begun leaves *)
(* no trace; and a request that is open was asked in the session shown,    *)
(* because whatever replaces the session closes every one of them.         *)
NumbersInOrder ==
  /\ pending \subseteq 1..nextID["side"]
  /\ \A k \in Kinds, n \in 1..MaxRequests :
       n > nextID[k] => phase[<<k, n>>] = "none"
OpenIsOfThisSession ==
  /\ \A n \in pending : /\ asked[Side(n)] = generation
                        /\ phase[Side(n)] \in {"started", "asking", "done"}
  /\ reviewing => /\ nextID["review"] \in 1..MaxRequests
                  /\ asked[Review(nextID["review"])] = generation
                  /\ phase[Review(nextID["review"])] \in {"asking", "done"}
(* An answer that is shown was read, and nothing touches it after that.    *)
ShownIsSettled ==
  \A r \in shown : asked[r] = generation /\ about[r] = generation /\ phase[r] = "read"
CountIsTrue == IsFiniteSet(pending) /\ sideQuestions = Cardinality(pending)

RequestsInv == TypeOK /\ NumbersInOrder /\ OpenIsOfThisSession /\ ShownIsSettled /\ CountIsTrue

(* A request is a kind and a number; requests with other names are others. *)
LEMMA RequestNames ==
  /\ \A r \in Requests : r[1] \in Kinds /\ r[2] \in 1..MaxRequests /\ r = <<r[1], r[2]>>
  /\ \A k \in Kinds, n \in 1..MaxRequests :
       <<k, n>> \in Requests /\ <<k, n>>[1] = k /\ <<k, n>>[2] = n
  /\ "side" \in Kinds /\ "review" \in Kinds /\ "side" # "review"
BY DEF Requests, Kinds

(* The numbers of open side questions are at most as many as there are     *)
(* numbers, so the count of the gate has the bound of its type.            *)
LEMMA OpenCount ==
  ASSUME RequestAssumption, NEW P \in SUBSET (1..MaxRequests)
  PROVE  IsFiniteSet(P) /\ Cardinality(P) \in 0..MaxRequests
<1>1. IsFiniteSet(1..MaxRequests) /\ Cardinality(1..MaxRequests) = MaxRequests
  BY FS_Interval DEF RequestAssumption
<1>2. IsFiniteSet(P) /\ Cardinality(P) <= MaxRequests
  BY <1>1, FS_Subset
<1> QED
  BY <1>2, FS_CardinalityType DEF RequestAssumption

(* The strengthening holds at the start. *)
LEMMA InitRequestsInv == ASSUME RequestAssumption PROVE Init => RequestsInv
<1> SUFFICES ASSUME Init PROVE RequestsInv
  OBVIOUS
<1>1. TypeOK
  <2>1. generation \in 1..MaxSessions /\ sideQuestions \in 0..MaxRequests
        /\ pending \subseteq 1..MaxRequests /\ shown \subseteq Requests
    BY DEF Init, RequestAssumption
  <2>2. busy \in BOOLEAN /\ reviewing \in BOOLEAN
    BY DEF Init
  <2>3. nextID \in [Kinds -> 0..MaxRequests]
    BY DEF Init, RequestAssumption
  <2>4. asked \in [Requests -> 0..MaxSessions] /\ about \in [Requests -> 0..MaxSessions]
    BY DEF Init, RequestAssumption, NoSession
  <2>5. phase \in [Requests -> {"none", "started", "asking", "done", "read"}]
    BY DEF Init
  <2> QED
    BY <2>1, <2>2, <2>3, <2>4, <2>5 DEF TypeOK
<1>2. CountIsTrue
  BY FS_EmptySet DEF Init, CountIsTrue
<1>3. NumbersInOrder
  BY RequestNames DEF Init, NumbersInOrder
<1> QED
  BY <1>1, <1>2, <1>3 DEF Init, RequestsInv, OpenIsOfThisSession, ShownIsSettled

(* Every step keeps the strengthening: one step of the proof per action.   *)
LEMMA StepIInv ==
  ASSUME RequestAssumption PROVE RequestsInv /\ [Next]_svars => RequestsInv'
<1> SUFFICES ASSUME RequestsInv, [Next]_svars PROVE RequestsInv'
  OBVIOUS
<1> USE DEF RequestAssumption
<1>a. /\ TypeOK /\ NumbersInOrder /\ OpenIsOfThisSession
      /\ ShownIsSettled /\ CountIsTrue
  BY DEF RequestsInv
<1>1. ASSUME cmdSideQuestion PROVE RequestsInv'
  <2> DEFINE n == nextID["side"] + 1
  <2>1. /\ n \in 1..MaxRequests /\ n \in 0..MaxRequests
        /\ nextID["side"] \in Nat /\ n > nextID["side"]
        /\ \A m \in Nat : m > n => m > nextID["side"]
    BY <1>1, <1>a, RequestNames DEF cmdSideQuestion, TypeOK
  <2>2. n \notin pending
    BY <1>a, <2>1 DEF NumbersInOrder
  <2>3. /\ nextID' = [nextID EXCEPT !["side"] = n]
        /\ pending' = pending \cup {n} /\ sideQuestions' = sideQuestions + 1
        /\ asked' = [asked EXCEPT ![Side(n)] = generation]
        /\ phase' = [phase EXCEPT ![Side(n)] = "started"]
        /\ UNCHANGED <<generation, busy, reviewing, about, shown>>
    BY <1>1 DEF cmdSideQuestion, beginSideQuestion, Side
  <2>4. Side(n) \in Requests /\ phase[Side(n)] = "none"
    BY <1>a, <2>1, RequestNames DEF NumbersInOrder, Side
  <2> HIDE DEF n
  <2>5. CountIsTrue'
    BY <1>a, <2>2, <2>3, FS_AddElement DEF CountIsTrue
  <2>6. TypeOK'
    <3>1. pending' \subseteq 1..MaxRequests
      BY <1>a, <2>1, <2>3 DEF TypeOK
    <3>2. sideQuestions' \in 0..MaxRequests
      BY <2>5, <3>1, OpenCount DEF CountIsTrue
    <3>3. nextID' \in [Kinds -> 0..MaxRequests]
      BY <1>a, <2>1, <2>3 DEF TypeOK
    <3>4. asked' \in [Requests -> 0..MaxSessions]
      BY <1>a, <2>3, <2>4 DEF TypeOK
    <3>5. phase' \in [Requests -> {"none", "started", "asking", "done", "read"}]
      BY <1>a, <2>3, <2>4 DEF TypeOK
    <3> QED
      BY <1>a, <2>3, <3>1, <3>2, <3>3, <3>4, <3>5 DEF TypeOK
  <2>7. NumbersInOrder'
    <3>1. pending' \subseteq 1..nextID'["side"]
      BY <1>a, <2>1, <2>3, RequestNames DEF TypeOK, NumbersInOrder
    <3>2. ASSUME NEW k \in Kinds, NEW m \in 1..MaxRequests, m > nextID'[k]
          PROVE  phase'[<<k, m>>] = "none"
      <4>1. m > nextID[k] /\ <<k, m>> # Side(n)
        BY <1>a, <2>1, <2>3, <3>2, RequestNames DEF TypeOK, Side
      <4> QED
        BY <1>a, <4>1, <2>3, <2>4, RequestNames DEF TypeOK, NumbersInOrder
    <3> QED
      BY <3>1, <3>2 DEF NumbersInOrder
  <2>8. OpenIsOfThisSession'
    BY <1>a, <2>1, <2>2, <2>3, <2>4, RequestNames
       DEF TypeOK, OpenIsOfThisSession, Side, Review
  <2>9. ShownIsSettled'
    BY <1>a, <2>3, <2>4 DEF TypeOK, ShownIsSettled
  <2> QED
    BY <2>5, <2>6, <2>7, <2>8, <2>9 DEF RequestsInv
<1>2. ASSUME cmdReview PROVE RequestsInv'
  <2> DEFINE n == nextID["review"] + 1
  <2>1. /\ n \in 1..MaxRequests /\ n \in 0..MaxRequests
        /\ nextID["review"] \in Nat /\ n > nextID["review"]
        /\ \A m \in Nat : m > n => m > nextID["review"]
    BY <1>2, <1>a, RequestNames DEF cmdReview, TypeOK
  <2>2. /\ nextID' = [nextID EXCEPT !["review"] = n] /\ reviewing' = TRUE
        /\ asked' = [asked EXCEPT ![Review(n)] = generation]
        /\ about' = [about EXCEPT ![Review(n)] = generation]
        /\ phase' = [phase EXCEPT ![Review(n)] = "asking"]
        /\ UNCHANGED <<generation, busy, pending, sideQuestions, shown>>
    BY <1>2 DEF cmdReview, Review
  <2>3. Review(n) \in Requests /\ phase[Review(n)] = "none"
    BY <1>a, <2>1, RequestNames DEF NumbersInOrder, Review
  <2> HIDE DEF n
  <2>4. TypeOK'
    <3>1. nextID' \in [Kinds -> 0..MaxRequests]
      BY <1>a, <2>1, <2>2 DEF TypeOK
    <3>2. /\ asked' \in [Requests -> 0..MaxSessions]
          /\ about' \in [Requests -> 0..MaxSessions]
      BY <1>a, <2>2, <2>3 DEF TypeOK
    <3>3. phase' \in [Requests -> {"none", "started", "asking", "done", "read"}]
      BY <1>a, <2>2, <2>3 DEF TypeOK
    <3> QED
      BY <1>a, <2>2, <3>1, <3>2, <3>3 DEF TypeOK
  <2>5. NumbersInOrder'
    <3>1. pending' \subseteq 1..nextID'["side"]
      BY <1>a, <2>2, RequestNames DEF TypeOK, NumbersInOrder
    <3>2. ASSUME NEW k \in Kinds, NEW m \in 1..MaxRequests, m > nextID'[k]
          PROVE  phase'[<<k, m>>] = "none"
      <4>1. m > nextID[k] /\ <<k, m>> # Review(n)
        BY <1>a, <2>1, <2>2, <3>2, RequestNames DEF TypeOK, Review
      <4> QED
        BY <1>a, <4>1, <2>2, <2>3, RequestNames DEF TypeOK, NumbersInOrder
    <3> QED
      BY <3>1, <3>2 DEF NumbersInOrder
  <2>6. OpenIsOfThisSession'
    BY <1>a, <2>1, <2>2, <2>3, RequestNames
       DEF TypeOK, OpenIsOfThisSession, Side, Review
  <2>7. ShownIsSettled' /\ CountIsTrue'
    BY <1>a, <2>2, <2>3 DEF TypeOK, ShownIsSettled, CountIsTrue
  <2> QED
    BY <2>4, <2>5, <2>6, <2>7 DEF RequestsInv
<1>3. ASSUME replaceSession PROVE RequestsInv'
  <2>1. /\ generation < MaxSessions /\ generation' = generation + 1
        /\ pending' = {} /\ sideQuestions' = 0 /\ reviewing' = FALSE /\ shown' = {}
        /\ UNCHANGED <<busy, nextID, asked, about, phase>>
    BY <1>3 DEF replaceSession, OpenAfterReset
  <2>2. TypeOK'
    <3>1. generation' \in 1..MaxSessions /\ sideQuestions' \in 0..MaxRequests
      BY <1>a, <2>1 DEF TypeOK
    <3>2. pending' \subseteq 1..MaxRequests /\ shown' \subseteq Requests
          /\ reviewing' \in BOOLEAN
      BY <2>1
    <3> QED
      BY <1>a, <2>1, <3>1, <3>2 DEF TypeOK
  <2>3. CountIsTrue'
    BY <2>1, FS_EmptySet DEF CountIsTrue
  <2> QED
    BY <1>a, <2>1, <2>2, <2>3
       DEF RequestsInv, NumbersInOrder, OpenIsOfThisSession, ShownIsSettled
<1>4. ASSUME StartTurn \/ EndTurn \/ UNCHANGED svars PROVE RequestsInv'
  <2>1. /\ busy' \in BOOLEAN
        /\ UNCHANGED <<generation, nextID, pending, sideQuestions, reviewing,
                        asked, about, phase, shown>>
    BY <1>a, <1>4 DEF StartTurn, EndTurn, svars, TypeOK
  <2> QED
    BY <1>a, <2>1 DEF RequestsInv, TypeOK, NumbersInOrder, OpenIsOfThisSession,
                      ShownIsSettled, CountIsTrue
<1>5. ASSUME NEW r \in Requests, ResolveSession(r) PROVE RequestsInv'
  <2>1. /\ phase[r] = "started"
        /\ about' = [about EXCEPT ![r] = generation]
        /\ phase' = [phase EXCEPT ![r] = "asking"]
        /\ UNCHANGED <<generation, busy, nextID, pending, sideQuestions,
                        reviewing, asked, shown>>
    BY <1>5 DEF ResolveSession
  <2>2. TypeOK'
    BY <1>a, <2>1 DEF TypeOK
  <2>3. NumbersInOrder' /\ OpenIsOfThisSession'
    BY <1>a, <2>1, RequestNames
       DEF TypeOK, NumbersInOrder, OpenIsOfThisSession, Side, Review
  <2>4. ShownIsSettled' /\ CountIsTrue'
    BY <1>a, <2>1 DEF TypeOK, ShownIsSettled, CountIsTrue
  <2> QED
    BY <2>2, <2>3, <2>4 DEF RequestsInv
<1>6. ASSUME NEW r \in Requests, Answer(r) PROVE RequestsInv'
  <2>1. /\ phase[r] = "asking" /\ phase' = [phase EXCEPT ![r] = "done"]
        /\ UNCHANGED <<generation, busy, nextID, pending, sideQuestions,
                        reviewing, asked, about, shown>>
    BY <1>6 DEF Answer
  <2>2. TypeOK'
    BY <1>a, <2>1 DEF TypeOK
  <2>3. NumbersInOrder' /\ OpenIsOfThisSession'
    BY <1>a, <2>1, RequestNames
       DEF TypeOK, NumbersInOrder, OpenIsOfThisSession, Side, Review
  <2>4. ShownIsSettled' /\ CountIsTrue'
    BY <1>a, <2>1 DEF TypeOK, ShownIsSettled, CountIsTrue
  <2> QED
    BY <2>2, <2>3, <2>4 DEF RequestsInv
<1>7. ASSUME NEW r \in Requests, sideQuestionDone(r) PROVE RequestsInv'
  <2>1. /\ r[1] = "side" /\ phase[r] = "done"
        /\ phase' = [phase EXCEPT ![r] = "read"]
        /\ pending' = pending \ {r[2]}
        /\ sideQuestions' = IF r[2] \in pending /\ sideQuestions > 0
                            THEN sideQuestions - 1 ELSE sideQuestions
        /\ UNCHANGED <<generation, busy, nextID, reviewing, asked, about>>
    BY <1>7 DEF sideQuestionDone, discardSideQuestion
  <2>2. /\ r = Side(r[2]) /\ r[2] \in 1..MaxRequests
        /\ shown' = shown \/ (shown' = shown \cup {r} /\ r[2] \in pending
                              /\ about[r] = generation)
    BY <1>7, <2>1, RequestNames DEF sideQuestionDone, ShowIf, Side
  <2>3. CountIsTrue'
    <3>1. /\ IsFiniteSet(pending')
          /\ Cardinality(pending') = IF r[2] \in pending
               THEN Cardinality(pending) - 1 ELSE Cardinality(pending)
      BY <1>a, <2>1, FS_RemoveElement DEF CountIsTrue
    <3>2. r[2] \in pending => sideQuestions > 0
      BY <1>a, FS_EmptySet DEF CountIsTrue, TypeOK
    <3> QED
      BY <1>a, <2>1, <3>1, <3>2 DEF CountIsTrue
  <2>4. TypeOK'
    <3>1. pending' \subseteq 1..MaxRequests
      BY <1>a, <2>1 DEF TypeOK
    <3>2. sideQuestions' \in 0..MaxRequests
      BY <2>3, <3>1, OpenCount DEF CountIsTrue
    <3> QED
      BY <1>a, <2>1, <2>2, <3>1, <3>2 DEF TypeOK
  <2>5. NumbersInOrder'
    BY <1>a, <2>1, RequestNames DEF TypeOK, NumbersInOrder
  <2>6. OpenIsOfThisSession'
    BY <1>a, <2>1, <2>2, RequestNames
       DEF TypeOK, OpenIsOfThisSession, Side, Review
  <2>7. ShownIsSettled'
    BY <1>a, <2>1, <2>2 DEF TypeOK, OpenIsOfThisSession, ShownIsSettled
  <2> QED
    BY <2>3, <2>4, <2>5, <2>6, <2>7 DEF RequestsInv
<1>8. ASSUME NEW r \in Requests, reviewDone(r) PROVE RequestsInv'
  <2>1. /\ r[1] = "review" /\ phase[r] = "done"
        /\ phase' = [phase EXCEPT ![r] = "read"]
        /\ reviewing' = (reviewing /\ ~IsOpenReview(r))
        /\ UNCHANGED <<generation, busy, nextID, pending, sideQuestions, asked, about>>
    BY <1>8 DEF reviewDone
  <2>2. /\ r = Review(r[2]) /\ r[2] \in 1..MaxRequests
        /\ shown' = shown \/ (shown' = shown \cup {r} /\ IsOpenReview(r)
                              /\ about[r] = generation)
    BY <1>8, <2>1, RequestNames DEF reviewDone, ShowIf, Review
  <2>3. TypeOK'
    BY <1>a, <2>1, <2>2 DEF TypeOK
  <2>4. NumbersInOrder'
    BY <1>a, <2>1, RequestNames DEF TypeOK, NumbersInOrder
  <2>5. OpenIsOfThisSession'
    <3>1. \A n \in pending : Side(n) # r
      BY <2>1, <2>2, RequestNames DEF Side
    <3>2. ASSUME reviewing' PROVE reviewing /\ Review(nextID["review"]) # r
      <4>1. reviewing /\ r[2] # nextID["review"]
        BY <2>1, <3>2 DEF IsOpenReview
      <4>2. Review(nextID["review"])[2] = nextID["review"]
        BY DEF Review
      <4> QED
        BY <4>1, <4>2
    <3> QED
      BY <1>a, <2>1, <3>1, <3>2 DEF TypeOK, OpenIsOfThisSession, NumbersInOrder
  <2>6. ShownIsSettled'
    BY <1>a, <2>1, <2>2 DEF TypeOK, OpenIsOfThisSession, IsOpenReview, ShownIsSettled
  <2>7. CountIsTrue'
    BY <1>a, <2>1 DEF CountIsTrue
  <2> QED
    BY <2>3, <2>4, <2>5, <2>6, <2>7 DEF RequestsInv
<1> QED
  BY <1>1, <1>2, <1>3, <1>4, <1>5, <1>6, <1>7, <1>8 DEF Next

(* What the transcript shows was asked in the session it shows and         *)
(* answered from it, and the gate counts the open questions, for any       *)
(* number of requests and sessions.                                        *)
THEOREM AnswersStayInTheirSession ==
  ASSUME RequestAssumption PROVE Spec => []ShownInItsSession
<1>1. Init => RequestsInv
  BY InitRequestsInv
<1>2. RequestsInv /\ [Next]_svars => RequestsInv'
  BY StepIInv
<1>3. RequestsInv => ShownInItsSession
  BY DEF RequestsInv, ShownIsSettled, CountIsTrue, OpenIsOfThisSession, Side, Review,
         ShownInItsSession
<1> QED
  BY <1>1, <1>2, <1>3, PTL DEF Spec

(* The state of the side requests keeps its types. *)
THEOREM SideRequestsTypeOK ==
  ASSUME RequestAssumption PROVE Spec => []TypeOK
<1>1. Init => RequestsInv
  BY InitRequestsInv
<1>2. RequestsInv /\ [Next]_svars => RequestsInv'
  BY StepIInv
<1>3. RequestsInv => TypeOK
  BY DEF RequestsInv
<1> QED
  BY <1>1, <1>2, <1>3, PTL DEF Spec

-----------------------------------------------------------------------------
(* The exec command: what holds of it.                                     *)

Early == {"input", "open", "hello"}
Middle == {"hint", "begin", "ask", "save", "mark", "offer"}
Late == {"await", "close", "exit", "over"}

\* The results in a sequence of records; whether none is followed by a record,
\* and whether none is a first record.
ResultsOf(s) == {s[n] : n \in {m \in 1 .. Len(s) : s[m].event = "result"}}
Ends(s) == \A n \in 1 .. Len(s) : s[n].event = "result" => n = Len(s)
NoStart(s) == \A n \in 1 .. Len(s) : s[n].event # "session.started"
\* The results that are so.
Truths == {Result(x) : x \in {y \in Outcomes :
  IF y = "completed" THEN turn = "committed" /\ (saving => file = "new") ELSE file = "old"}}

\* Who waits in the select holds the mutex, and nobody does once the result
\* is to be offered.
CallsInv ==
  /\ \A e \in Emitters : emit[e] = "select" => mutex = e
  /\ \A e \in Emitters : emit[e] # "idle" => format = "stream" /\ turn # "none"
  /\ closed => mutex = NoOne /\ main \in Late \cup {"offer"}
  /\ main \in {"offer", "await"} => closed

\* The turn, the cause and FILE at each place of the command.
PlaceInv ==
  /\ main \in {"hello", "greeted", "mark", "offer", "await"} => format = "stream"
  /\ main = "report" => format # "stream"
  /\ main \in Early \cup {"greeted", "hint", "begin"} => turn = "none"
  /\ main \in Early \cup {"greeted", "hint", "begin", "ask"} => cause = "none" /\ file = "old"
  /\ main = "ask" => turn = "active"
  /\ main = "save" => turn = "committed" /\ cause = "none" /\ file = "old"
  /\ main \in {"mark", "offer", "report"} =>
       IF cause = "none" THEN turn = "committed" /\ (saving => file = "new") ELSE file = "old"
  /\ turn = "active" => main \in {"ask", "over"}
  /\ file = "new" => turn = "committed"

\* The first record is on its way to stdout until it is acknowledged.
GreetingInv ==
  /\ format # "stream" => queue = <<>> /\ hand = <<>> /\ writer = "off" /\ ack = "none"
  /\ main \in Early => queue = <<>> /\ hand = <<>> /\ out = <<>> /\ ack = "none"
  /\ main = "greeted" =>
       \/ queue = <<Started>> /\ hand = <<>> /\ out = <<>> /\ ack = "none"
       \/ queue = <<>> /\ hand = <<Started>> /\ out = <<>> /\ ack = "none"
       \/ queue = <<>> /\ hand = <<>> /\ out = <<Started>> /\ ack = "ok"
       \/ queue = <<>> /\ hand = <<>> /\ out = <<>> /\ ack = "failed"
  /\ main \in Middle => ack = "none"
  /\ main \in Middle \cup {"await"} => NoStart(queue) /\ NoStart(hand)
  /\ format = "stream" /\ (main \in {"hint", "begin"} \/ turn # "none") =>
       out # <<>> /\ out[1] = Started

\* The result comes last and is so, and is where the acknowledgement says.
ResultInv ==
  /\ main \notin Late \/ (format = "stream" /\ ~closed) =>
       ResultsOf(queue) = {} /\ ResultsOf(hand) = {} /\ ResultsOf(out) = {}
  /\ ResultsOf(queue) \cup ResultsOf(hand) \cup ResultsOf(out) \subseteq Truths
  /\ Ends(queue) /\ Ends(out)
  /\ ResultsOf(hand) # {} => queue = <<>>
  /\ ResultsOf(out) # {} => queue = <<>> /\ hand = <<>>
  /\ main = "await" =>
       /\ ResultsOf(queue) \cup ResultsOf(hand) \cup ResultsOf(out) \subseteq {Result(Status)}
       /\ ack = "ok" <=> ResultsOf(out) # {}
       /\ ack = "failed" => StoppedChannel
  /\ main = "close" =>
       /\ ResultsOf(out) \subseteq {Result(Status)}
       /\ ResultsOf(queue) \cup ResultsOf(hand) # {} => StoppedChannel
  /\ main \in {"close", "exit"} /\ cause = "none" => Result("completed") \in ResultsOf(out)

CodeInv ==
  /\ code # "none" => main = "over"
  /\ code = "0" => Result("completed") \in ResultsOf(out)
  /\ code \in {"0", "1", "143"} => turn # "active"

ExecInv == ExecTypeOK /\ CallsInv /\ PlaceInv /\ GreetingInv /\ ResultInv /\ CodeInv

-----------------------------------------------------------------------------
(* Records and sequences of them.                                          *)

LEMMA RecordsAre ==
  /\ Started.event = "session.started" /\ Activity.event = "activity"
  /\ \A status : Result(status).event = "result" /\ Result(status).status = status
  /\ Started \in Records /\ Activity \in Records
  /\ \A status \in Outcomes : Result(status) \in Records
  /\ \A r \in Records : r.event \in {"session.started", "activity", "result"}
<1>1. /\ Started.event = "session.started" /\ Activity.event = "activity"
      /\ \A status : Result(status).event = "result" /\ Result(status).status = status
  BY DEF Started, Activity, Result, Record
<1>2. /\ Started \in Records /\ Activity \in Records
      /\ \A status \in Outcomes : Result(status) \in Records
      /\ \A r \in Records : r = Started \/ r = Activity \/ \E status \in Outcomes : r = Result(status)
  BY DEF Records
<1>3. \A r \in Records : r.event \in {"session.started", "activity", "result"}
  <2> SUFFICES ASSUME NEW r \in Records PROVE r.event \in {"session.started", "activity", "result"}
    OBVIOUS
  <2>1. CASE r = Started \/ r = Activity
    BY <1>1, <2>1
  <2>2. ASSUME NEW status \in Outcomes, r = Result(status)
        PROVE  r.event \in {"session.started", "activity", "result"}
    BY <1>1, <2>2
  <2> QED
    BY <1>2, <2>1, <2>2
<1> QED
  BY <1>1, <1>2, <1>3

\* A record is added behind the others.
LEMMA RecordAdded ==
  ASSUME NEW s \in Seq(Records), NEW r \in Records
  PROVE  LET t == Append(s, r) IN
         /\ t \in Seq(Records) /\ Len(t) = Len(s) + 1 /\ t # <<>> /\ t[Len(t)] = r
         /\ s # <<>> => t[1] = s[1]
         /\ s = <<>> => t = <<r>> /\ t[1] = r
         /\ ResultsOf(t) = ResultsOf(s) \cup (IF r.event = "result" THEN {r} ELSE {})
         /\ ResultsOf(s) = {} => Ends(t)
         /\ NoStart(s) /\ r.event # "session.started" => NoStart(t)
<1>1. PICK t : t = Append(s, r)
  OBVIOUS
<1>2. /\ t \in Seq(Records) /\ Len(t) = Len(s) + 1 /\ Len(s) \in Nat /\ t[Len(t)] = r
      /\ \A n \in 1 .. Len(s) : t[n] = s[n]
  BY <1>1
<1>3. t # <<>> /\ (s # <<>> => t[1] = s[1]) /\ (s = <<>> => t = <<r>> /\ t[1] = r)
  <2>1. t # <<>>
    BY <1>2
  <2>2. s # <<>> => t[1] = s[1]
    <3>1. s # <<>> => Len(s) >= 1
      BY <1>2
    <3> QED
      BY <1>2, <3>1
  <2>3. s = <<>> => t = <<r>> /\ t[1] = r
    BY <1>1
  <2> QED
    BY <2>1, <2>2, <2>3
<1>4. ResultsOf(t) = ResultsOf(s) \cup (IF r.event = "result" THEN {r} ELSE {})
  BY <1>2 DEF ResultsOf
<1>5. ResultsOf(s) = {} => Ends(t)
  <2> SUFFICES ASSUME ResultsOf(s) = {}, NEW n \in 1 .. Len(t), t[n].event = "result"
               PROVE  n = Len(t)
    BY DEF Ends
  <2>1. ASSUME n # Len(t) PROVE FALSE
    <3>1. n \in 1 .. Len(s) /\ s[n].event = "result"
      BY <1>2, <2>1
    <3> QED
      BY <3>1 DEF ResultsOf
  <2> QED
    BY <2>1
<1>6. NoStart(s) /\ r.event # "session.started" => NoStart(t)
  BY <1>2 DEF NoStart
<1> QED
  BY <1>1, <1>2, <1>3, <1>4, <1>5, <1>6

\* The first record is taken.
LEMMA RecordTaken ==
  ASSUME NEW s \in Seq(Records), s # <<>>
  PROVE  /\ Tail(s) \in Seq(Records) /\ Len(Tail(s)) = Len(s) - 1 /\ Head(s) \in Records
         /\ <<Head(s)>> \in Seq(Records) /\ Len(<<Head(s)>>) = 1
         /\ ResultsOf(<<Head(s)>>) \cup ResultsOf(Tail(s)) = ResultsOf(s)
         /\ Ends(s) => Ends(Tail(s)) /\ (ResultsOf(<<Head(s)>>) # {} => Tail(s) = <<>>)
         /\ NoStart(s) => NoStart(Tail(s)) /\ NoStart(<<Head(s)>>)
<1>1. PICK t : t = Tail(s)
  OBVIOUS
<1>2. PICK h : h = <<Head(s)>>
  OBVIOUS
<1>3. /\ t \in Seq(Records) /\ Len(t) = Len(s) - 1 /\ Len(s) \in Nat /\ Len(s) >= 1
      /\ \A n \in 1 .. Len(t) : t[n] = s[n + 1]
      /\ Head(s) \in Records /\ h \in Seq(Records) /\ Len(h) = 1 /\ h[1] = s[1]
  BY <1>1, <1>2
<1>4. ResultsOf(h) \cup ResultsOf(t) = ResultsOf(s)
  <2>1. \A x \in ResultsOf(h) \cup ResultsOf(t) : x \in ResultsOf(s)
    <3>1. ASSUME NEW x \in ResultsOf(h) PROVE x \in ResultsOf(s)
      <4>1. 1 \in 1 .. Len(s) /\ x = s[1] /\ s[1].event = "result"
        BY <1>3, <3>1 DEF ResultsOf
      <4> QED
        BY <4>1 DEF ResultsOf
    <3>2. ASSUME NEW x \in ResultsOf(t) PROVE x \in ResultsOf(s)
      <4>1. PICK n \in 1 .. Len(t) : x = t[n] /\ t[n].event = "result"
        BY <3>2 DEF ResultsOf
      <4>2. n + 1 \in 1 .. Len(s) /\ x = s[n + 1] /\ s[n + 1].event = "result"
        BY <1>3, <4>1
      <4> QED
        BY <4>2 DEF ResultsOf
    <3> QED
      BY <3>1, <3>2
  <2>2. ASSUME NEW n \in 1 .. Len(s), s[n].event = "result"
        PROVE  s[n] \in ResultsOf(h) \cup ResultsOf(t)
    <3>1. CASE n = 1
      BY <1>3, <2>2, <3>1 DEF ResultsOf
    <3>2. CASE n # 1
      <4>1. n - 1 \in 1 .. Len(t) /\ t[n - 1] = s[n]
        BY <1>3, <3>2
      <4> QED
        BY <2>2, <4>1 DEF ResultsOf
    <3> QED
      BY <3>1, <3>2
  <2>3. \A x \in ResultsOf(s) : x \in ResultsOf(h) \cup ResultsOf(t)
    BY <2>2 DEF ResultsOf
  <2> QED
    BY <2>1, <2>3
<1>5. Ends(s) => Ends(t)
  BY <1>3 DEF Ends
<1>6. Ends(s) /\ ResultsOf(h) # {} => t = <<>>
  <2>1. Ends(s) /\ s[1].event = "result" => Len(t) = 0
    BY <1>3 DEF Ends
  <2>2. Len(t) = 0 => t = <<>>
    BY <1>3
  <2> QED
    BY <1>3, <2>1, <2>2 DEF ResultsOf
<1>7. NoStart(s) => NoStart(t) /\ NoStart(h)
  BY <1>3 DEF NoStart
<1> QED
  BY <1>1, <1>2, <1>3, <1>4, <1>5, <1>6, <1>7

LEMMA NoRecord == ResultsOf(<<>>) = {} /\ Ends(<<>>) /\ NoStart(<<>>)
BY DEF ResultsOf, Ends, NoStart

LEMMA OneRecord ==
  ASSUME NEW s \in Seq(Records), Len(s) <= 1, s # <<>>
  PROVE  /\ s = <<s[1]>> /\ s[1] \in Records
         /\ ResultsOf(s) = IF s[1].event = "result" THEN {s[1]} ELSE {}
         /\ NoStart(s) => s[1].event # "session.started"
<1>1. Len(s) = 1
  <2>1. Len(s) \in Nat /\ (Len(s) = 0 => s = <<>>)
    OBVIOUS
  <2>2. \A k \in Nat : k <= 1 /\ k # 0 => k = 1
    OBVIOUS
  <2> QED
    BY ONLY <2>1, <2>2, Len(s) <= 1, s # <<>>
<1>2. s = <<s[1]>> /\ s[1] \in Records
  BY <1>1
<1>3. ResultsOf(s) = IF s[1].event = "result" THEN {s[1]} ELSE {}
  BY <1>1 DEF ResultsOf
<1> QED
  BY <1>1, <1>2, <1>3 DEF NoStart

\* Where a result is, if nothing follows results.
LEMMA ResultIsLast ==
  ASSUME NEW s \in Seq(Records), Ends(s)
  PROVE  \A r \in ResultsOf(s) : s # <<>> /\ s[Len(s)] = r
BY DEF ResultsOf, Ends

LEMMA SameTruths == ASSUME UNCHANGED <<turn, saving, file>> PROVE Truths' = Truths
BY DEF Truths

-----------------------------------------------------------------------------
(* Every step keeps it, one lemma per action.                              *)

\* Where a failure leads.
LEMMA FailCases ==
  ASSUME ExecTypeOK, NEW c, Fail(c)
  PROVE  /\ format # "stream" => main' \in {"close", "report"} /\ writer' = writer
         /\ format = "stream" => main' = "mark"
BY DEF ExecTypeOK, Formats, Fail, Go

\* What the result to report says is so.
LEMMA StatusIsTrue ==
  ASSUME ExecInv, main \in {"offer", "report"}
  PROVE  Status \in Outcomes /\ Result(Status) \in Truths
BY DEF ExecInv, PlaceInv, Status, Outcomes, Truths

LEMMA ReadExecPromptKeeps ==
  ASSUME ExecAssumption, ExecInv, main # "over", readExecPrompt
  PROVE  ExecInv'
<1>0. Truths' = Truths
  BY SameTruths DEF readExecPrompt, InputRefused, Fail, Go, run
<1>1. ExecTypeOK'
  BY RecordsAre DEF ExecInv, ExecTypeOK, Steps, Writers, Formats, Outcomes, Report,
     SaveThen, readExecPrompt, InputRefused, Fail, Go, run, wvars, Early, Middle,
     Late
<1>2. CallsInv'
  BY DEF ExecInv, ExecTypeOK, CallsInv, Report, SaveThen, readExecPrompt,
     InputRefused, Fail, Go, run, wvars, Early, Middle, Late
<1>3. PlaceInv'
  BY DEF ExecInv, ExecTypeOK, PlaceInv, Report, SaveThen, Formats, readExecPrompt,
     InputRefused, Fail, Go, run, wvars, Early, Middle, Late
<1>4. GreetingInv'
  BY FailCases, NoRecord DEF ExecInv, ExecTypeOK, GreetingInv, PlaceInv, Report,
     SaveThen, readExecPrompt, InputRefused, Go, run, wvars, Early, Middle, Late
<1>5. ResultInv'
  BY <1>0, NoRecord DEF ExecInv, ExecTypeOK, ResultInv, PlaceInv, GreetingInv,
     StoppedChannel, Status, readExecPrompt, InputRefused, Fail, Go, run, wvars,
     Early, Middle, Late
<1>6. CodeInv'
  BY DEF ExecInv, ExecTypeOK, CodeInv, PlaceInv, ResultInv, readExecPrompt,
     InputRefused, Fail, Go, run, wvars, Early, Middle, Late
<1> QED
  BY <1>1, <1>2, <1>3, <1>4, <1>5, <1>6 DEF ExecInv

LEMMA OpenSessionKeeps ==
  ASSUME ExecAssumption, ExecInv, main # "over", openSession
  PROVE  ExecInv'
<1>0. Truths' = Truths
  BY SameTruths DEF openSession, OpenFails, Fail, Go, run
<1>1. ExecTypeOK'
  BY RecordsAre DEF ExecInv, ExecTypeOK, Steps, Writers, Formats, Outcomes, Report,
     SaveThen, openSession, OpenFails, Fail, Go, run, wvars, Early, Middle, Late
<1>2. CallsInv'
  BY DEF ExecInv, ExecTypeOK, CallsInv, Report, SaveThen, openSession, OpenFails,
     Fail, Go, run, wvars, Early, Middle, Late
<1>3. PlaceInv'
  BY DEF ExecInv, ExecTypeOK, PlaceInv, Report, SaveThen, Formats, openSession,
     OpenFails, Fail, Go, run, wvars, Early, Middle, Late
<1>4. GreetingInv'
  BY FailCases, NoRecord DEF ExecInv, ExecTypeOK, GreetingInv, PlaceInv, Report,
     SaveThen, openSession, OpenFails, Go, run, wvars, Early, Middle, Late
<1>5. ResultInv'
  BY <1>0, NoRecord DEF ExecInv, ExecTypeOK, ResultInv, PlaceInv, GreetingInv,
     StoppedChannel, Status, openSession, OpenFails, Fail, Go, run, wvars, Early,
     Middle, Late
<1>6. CodeInv'
  BY DEF ExecInv, ExecTypeOK, CodeInv, PlaceInv, ResultInv, openSession, OpenFails,
     Fail, Go, run, wvars, Early, Middle, Late
<1> QED
  BY <1>1, <1>2, <1>3, <1>4, <1>5, <1>6 DEF ExecInv

LEMMA HelloKeeps ==
  ASSUME ExecAssumption, ExecInv, main # "over", Hello
  PROVE  ExecInv'
<1>p. /\ queue' \in Seq(Records) /\ Len(queue') = 1 /\ queue' = <<Started>>
      /\ ResultsOf(queue') = {} /\ Ends(queue')
  <2>1. queue = <<>> /\ queue \in Seq(Records) /\ Len(queue) = 0 /\ queue' = Append(queue, Started)
    BY DEF ExecInv, ExecTypeOK, GreetingInv, Hello, Early
  <2>2. Started \in Records /\ Started.event # "result"
    BY RecordsAre
  <2> QED
    BY <2>1, <2>2, RecordAdded, NoRecord
<1>0. Truths' = Truths
  BY SameTruths DEF Hello, AfterHello, Go, run
<1>1. ExecTypeOK'
  BY <1>p, NoRecord DEF ExecInv, ExecTypeOK, Steps, Writers, Formats, Outcomes,
     Report, SaveThen, Hello, AfterHello, Go, run, wvars, Early, Middle, Late,
     ExecAssumption
<1>2. CallsInv'
  BY <1>p DEF ExecInv, ExecTypeOK, CallsInv, Report, SaveThen, Hello, AfterHello,
     Go, run, wvars, Early, Middle, Late
<1>3. PlaceInv'
  BY <1>p DEF ExecInv, ExecTypeOK, PlaceInv, Report, SaveThen, Formats, Hello,
     AfterHello, Go, run, wvars, Early, Middle, Late
<1>4. GreetingInv'
  BY <1>p, NoRecord DEF ExecInv, ExecTypeOK, GreetingInv, PlaceInv, Report,
     SaveThen, Hello, AfterHello, Go, run, wvars, Early, Middle, Late
<1>5. ResultInv'
  BY <1>p, NoRecord, <1>0 DEF ExecInv, ExecTypeOK, ResultInv, PlaceInv, GreetingInv,
     StoppedChannel, Status, Hello, AfterHello, Go, run, wvars, Early, Middle, Late
<1>6. CodeInv'
  BY <1>p DEF ExecInv, ExecTypeOK, CodeInv, PlaceInv, ResultInv, Hello, AfterHello,
     Go, run, wvars, Early, Middle, Late
<1> QED
  BY <1>1, <1>2, <1>3, <1>4, <1>5, <1>6 DEF ExecInv

LEMMA GreetedKeeps ==
  ASSUME ExecAssumption, ExecInv, main # "over", Greeted
  PROVE  ExecInv'
<1>0. Truths' = Truths
  BY SameTruths DEF Greeted, StoppedChannel, Go, run
<1>1. ExecTypeOK'
  BY RecordsAre DEF ExecInv, ExecTypeOK, Steps, Writers, Formats, Outcomes, Report,
     SaveThen, Greeted, StoppedChannel, Go, run, wvars, Early, Middle, Late
<1>2. CallsInv'
  BY DEF ExecInv, ExecTypeOK, CallsInv, Report, SaveThen, Greeted, StoppedChannel,
     Go, run, wvars, Early, Middle, Late
<1>3. PlaceInv'
  BY DEF ExecInv, ExecTypeOK, PlaceInv, Report, SaveThen, Formats, Greeted,
     StoppedChannel, Go, run, wvars, Early, Middle, Late
<1>4. GreetingInv'
  BY NoRecord DEF ExecInv, ExecTypeOK, GreetingInv, PlaceInv, Report, SaveThen,
     Greeted, StoppedChannel, Go, run, wvars, Early, Middle, Late
<1>5. ResultInv'
  BY <1>0, NoRecord DEF ExecInv, ExecTypeOK, ResultInv, PlaceInv, GreetingInv,
     StoppedChannel, Status, Greeted, Go, run, wvars, Early, Middle, Late
<1>6. CodeInv'
  BY DEF ExecInv, ExecTypeOK, CodeInv, PlaceInv, ResultInv, Greeted, StoppedChannel,
     Go, run, wvars, Early, Middle, Late
<1> QED
  BY <1>1, <1>2, <1>3, <1>4, <1>5, <1>6 DEF ExecInv

LEMMA WriteExecSessionHintKeeps ==
  ASSUME ExecAssumption, ExecInv, main # "over", writeExecSessionHint
  PROVE  ExecInv'
<1>0. Truths' = Truths
  BY SameTruths DEF writeExecSessionHint, Fail, Go, run
<1>1. ExecTypeOK'
  BY RecordsAre DEF ExecInv, ExecTypeOK, Steps, Writers, Formats, Outcomes, Report,
     SaveThen, writeExecSessionHint, Fail, Go, run, wvars, Early, Middle, Late
<1>2. CallsInv'
  BY DEF ExecInv, ExecTypeOK, CallsInv, Report, SaveThen, writeExecSessionHint,
     Fail, Go, run, wvars, Early, Middle, Late
<1>3. PlaceInv'
  BY DEF ExecInv, ExecTypeOK, PlaceInv, Report, SaveThen, Formats,
     writeExecSessionHint, Fail, Go, run, wvars, Early, Middle, Late
<1>4. GreetingInv'
  BY FailCases, NoRecord DEF ExecInv, ExecTypeOK, GreetingInv, PlaceInv, Report,
     SaveThen, writeExecSessionHint, Go, run, wvars, Early, Middle, Late
<1>5. ResultInv'
  BY <1>0, NoRecord DEF ExecInv, ExecTypeOK, ResultInv, PlaceInv, GreetingInv,
     StoppedChannel, Status, writeExecSessionHint, Fail, Go, run, wvars, Early,
     Middle, Late
<1>6. CodeInv'
  BY DEF ExecInv, ExecTypeOK, CodeInv, PlaceInv, ResultInv, writeExecSessionHint,
     Fail, Go, run, wvars, Early, Middle, Late
<1> QED
  BY <1>1, <1>2, <1>3, <1>4, <1>5, <1>6 DEF ExecInv

LEMMA BeginKeeps ==
  ASSUME ExecAssumption, ExecInv, main # "over", Begin
  PROVE  ExecInv'
<1>1. ExecTypeOK'
  BY RecordsAre DEF ExecInv, ExecTypeOK, Steps, Writers, Formats, Outcomes, Report,
     SaveThen, Begin, Go, run, wvars, Early, Middle, Late
<1>2. CallsInv'
  BY DEF ExecInv, ExecTypeOK, CallsInv, Report, SaveThen, Begin, Go, run, wvars,
     Early, Middle, Late
<1>3. PlaceInv'
  BY DEF ExecInv, ExecTypeOK, PlaceInv, Report, SaveThen, Formats, Begin, Go, run,
     wvars, Early, Middle, Late
<1>4. GreetingInv'
  BY NoRecord DEF ExecInv, ExecTypeOK, GreetingInv, PlaceInv, Report, SaveThen,
     Begin, Go, run, wvars, Early, Middle, Late
<1>5. ResultInv'
  BY NoRecord DEF ExecInv, ExecTypeOK, ResultInv, PlaceInv, GreetingInv,
     StoppedChannel, Status, Begin, Go, run, wvars, Early, Middle, Late
<1>6. CodeInv'
  BY DEF ExecInv, ExecTypeOK, CodeInv, PlaceInv, ResultInv, Begin, Go, run, wvars,
     Early, Middle, Late
<1> QED
  BY <1>1, <1>2, <1>3, <1>4, <1>5, <1>6 DEF ExecInv

LEMMA WriteExecLastMessageKeeps ==
  ASSUME ExecAssumption, ExecInv, main # "over", writeExecLastMessage
  PROVE  ExecInv'
<1>1. ExecTypeOK'
  BY RecordsAre DEF ExecInv, ExecTypeOK, Steps, Writers, Formats, Outcomes, Report,
     SaveThen, writeExecLastMessage, Go, run, wvars, Early, Middle, Late
<1>2. CallsInv'
  BY DEF ExecInv, ExecTypeOK, CallsInv, Report, SaveThen, writeExecLastMessage, Go,
     run, wvars, Early, Middle, Late
<1>3. PlaceInv'
  BY DEF ExecInv, ExecTypeOK, PlaceInv, Report, SaveThen, Formats,
     writeExecLastMessage, Go, run, wvars, Early, Middle, Late
<1>4. GreetingInv'
  BY NoRecord DEF ExecInv, ExecTypeOK, GreetingInv, PlaceInv, Report, SaveThen,
     writeExecLastMessage, Go, run, wvars, Early, Middle, Late
<1>5. ResultInv'
  BY NoRecord DEF ExecInv, ExecTypeOK, ResultInv, PlaceInv, GreetingInv,
     StoppedChannel, Status, writeExecLastMessage, SaveThen, Go, run, wvars, Early,
     Middle, Late
<1>6. CodeInv'
  BY DEF ExecInv, ExecTypeOK, CodeInv, PlaceInv, ResultInv, writeExecLastMessage,
     SaveThen, Go, run, wvars, Early, Middle, Late
<1> QED
  BY <1>1, <1>2, <1>3, <1>4, <1>5, <1>6 DEF ExecInv

LEMMA WriteExecJSONKeeps ==
  ASSUME ExecAssumption, ExecInv, main # "over", writeExecJSON
  PROVE  ExecInv'
<1>s. Status \in Outcomes /\ Result(Status) \in Truths
  BY StatusIsTrue DEF writeExecJSON
<1>p. \/ out' = out /\ cause' = "failed"
      \/ /\ out' \in Seq(Records) /\ ResultsOf(out') = {Result(Status)} /\ Ends(out')
         /\ cause' = cause
  <2> SUFFICES ASSUME out' = Append(out, Result(Status))
               PROVE  out' \in Seq(Records) /\ ResultsOf(out') = {Result(Status)} /\ Ends(out')
    BY DEF writeExecJSON
  <2>1. out \in Seq(Records) /\ ResultsOf(out) = {}
    BY DEF ExecInv, ExecTypeOK, ResultInv, writeExecJSON, Late
  <2>2. Result(Status) \in Records /\ Result(Status).event = "result"
    BY RecordsAre, <1>s
  <2> QED
    BY <2>1, <2>2, RecordAdded
<1>0. Truths' = Truths
  BY SameTruths DEF writeExecJSON, Go, run
<1>1. ExecTypeOK'
  BY <1>p, NoRecord DEF ExecInv, ExecTypeOK, Steps, Writers, Formats, Outcomes,
     Report, SaveThen, writeExecJSON, Go, run, wvars, Early, Middle, Late
<1>2. CallsInv'
  BY <1>p DEF ExecInv, ExecTypeOK, CallsInv, Report, SaveThen, writeExecJSON, Go,
     run, wvars, Early, Middle, Late
<1>3. PlaceInv'
  BY <1>p DEF ExecInv, ExecTypeOK, PlaceInv, Report, SaveThen, Formats,
     writeExecJSON, Go, run, wvars, Early, Middle, Late
<1>4. GreetingInv'
  BY <1>p, NoRecord DEF ExecInv, ExecTypeOK, GreetingInv, PlaceInv, Report,
     SaveThen, writeExecJSON, Go, run, wvars, Early, Middle, Late
<1>5. ResultInv'
  BY <1>p, NoRecord, <1>0, <1>s DEF ExecInv, ExecTypeOK, ResultInv, PlaceInv,
     GreetingInv, StoppedChannel, Status, writeExecJSON, Go, run, wvars, Early,
     Middle, Late
<1>6. CodeInv'
  BY <1>p DEF ExecInv, ExecTypeOK, CodeInv, PlaceInv, ResultInv, writeExecJSON, Go,
     run, wvars, Early, Middle, Late
<1> QED
  BY <1>1, <1>2, <1>3, <1>4, <1>5, <1>6 DEF ExecInv

LEMMA WriteToBrokenPipeKeeps ==
  ASSUME ExecAssumption, ExecInv, main # "over", writeToBrokenPipe
  PROVE  ExecInv'
<1>0. Truths' = Truths
  BY SameTruths DEF writeToBrokenPipe, Killed, run
<1>1. ExecTypeOK'
  BY RecordsAre DEF ExecInv, ExecTypeOK, Steps, Writers, Formats, Outcomes, Report,
     SaveThen, writeToBrokenPipe, Killed, run, wvars, Early, Middle, Late
<1>2. CallsInv'
  BY DEF ExecInv, ExecTypeOK, CallsInv, Report, SaveThen, writeToBrokenPipe, Killed,
     run, wvars, Early, Middle, Late
<1>3. PlaceInv'
  BY DEF ExecInv, ExecTypeOK, PlaceInv, Report, SaveThen, Formats,
     writeToBrokenPipe, Killed, run, wvars, Early, Middle, Late
<1>4. GreetingInv'
  BY NoRecord DEF ExecInv, ExecTypeOK, GreetingInv, PlaceInv, Report, SaveThen,
     writeToBrokenPipe, Killed, run, wvars, Early, Middle, Late
<1>5. ResultInv'
  BY <1>0, NoRecord DEF ExecInv, ExecTypeOK, ResultInv, PlaceInv, GreetingInv,
     StoppedChannel, Status, writeToBrokenPipe, Killed, run, wvars, Early, Middle,
     Late
<1>6. CodeInv'
  BY DEF ExecInv, ExecTypeOK, CodeInv, PlaceInv, ResultInv, writeToBrokenPipe,
     Killed, run, wvars, Early, Middle, Late
<1> QED
  BY <1>1, <1>2, <1>3, <1>4, <1>5, <1>6 DEF ExecInv

LEMMA MarkTerminalKeeps ==
  ASSUME ExecAssumption, ExecInv, main # "over", MarkTerminal
  PROVE  ExecInv'
<1>0. Truths' = Truths
  BY SameTruths DEF MarkTerminal, Go, run
<1>1. ExecTypeOK'
  BY RecordsAre DEF ExecInv, ExecTypeOK, Steps, Writers, Formats, Outcomes, Report,
     SaveThen, MarkTerminal, Go, run, wvars, Early, Middle, Late
<1>2. CallsInv'
  BY DEF ExecInv, ExecTypeOK, CallsInv, Report, SaveThen, MarkTerminal, Go, run,
     wvars, Early, Middle, Late
<1>3. PlaceInv'
  BY DEF ExecInv, ExecTypeOK, PlaceInv, Report, SaveThen, Formats, MarkTerminal, Go,
     run, wvars, Early, Middle, Late
<1>4. GreetingInv'
  BY NoRecord DEF ExecInv, ExecTypeOK, GreetingInv, PlaceInv, Report, SaveThen,
     MarkTerminal, Go, run, wvars, Early, Middle, Late
<1>5. ResultInv'
  BY <1>0, NoRecord DEF ExecInv, ExecTypeOK, ResultInv, PlaceInv, GreetingInv,
     StoppedChannel, Status, MarkTerminal, Go, run, wvars, Early, Middle, Late
<1>6. CodeInv'
  BY DEF ExecInv, ExecTypeOK, CodeInv, PlaceInv, ResultInv, MarkTerminal, Go, run,
     wvars, Early, Middle, Late
<1> QED
  BY <1>1, <1>2, <1>3, <1>4, <1>5, <1>6 DEF ExecInv

LEMMA OfferTerminalKeeps ==
  ASSUME ExecAssumption, ExecInv, main # "over", OfferTerminal
  PROVE  ExecInv'
<1>s. Status \in Outcomes /\ Result(Status) \in Truths
  BY StatusIsTrue DEF OfferTerminal
<1>p. \/ queue' = queue
      \/ /\ queue' \in Seq(Records) /\ Len(queue') <= Capacity
         /\ ResultsOf(queue') = {Result(Status)} /\ Ends(queue')
         /\ NoStart(queue) => NoStart(queue')
  <2> SUFFICES ASSUME Len(queue) < Capacity, queue' = Append(queue, Result(Status))
               PROVE  /\ queue' \in Seq(Records) /\ Len(queue') <= Capacity
                      /\ ResultsOf(queue') = {Result(Status)} /\ Ends(queue')
                      /\ NoStart(queue) => NoStart(queue')
    BY DEF OfferTerminal
  <2>1. queue \in Seq(Records) /\ Capacity \in Nat /\ Len(queue) \in Nat
    BY DEF ExecInv, ExecTypeOK, ExecAssumption
  <2>2. Result(Status) \in Records /\ Result(Status).event = "result"
    BY RecordsAre, <1>s
  <2>3. ResultsOf(queue) = {}
    BY DEF ExecInv, ResultInv, OfferTerminal, Late
  <2>4. Len(Append(queue, Result(Status))) = Len(queue) + 1
    BY <2>1, <2>2, RecordAdded
  <2> QED
    BY <2>1, <2>2, <2>3, <2>4, RecordAdded
<1>0. Truths' = Truths
  BY SameTruths DEF OfferTerminal, StoppedChannel, Go, run
<1>1. ExecTypeOK'
  BY <1>p, NoRecord DEF ExecInv, ExecTypeOK, Steps, Writers, Formats, Outcomes,
     Report, SaveThen, OfferTerminal, StoppedChannel, Go, run, wvars, Early, Middle,
     Late
<1>2. CallsInv'
  BY <1>p DEF ExecInv, ExecTypeOK, CallsInv, Report, SaveThen, OfferTerminal,
     StoppedChannel, Go, run, wvars, Early, Middle, Late
<1>3. PlaceInv'
  BY <1>p DEF ExecInv, ExecTypeOK, PlaceInv, Report, SaveThen, Formats,
     OfferTerminal, StoppedChannel, Go, run, wvars, Early, Middle, Late
<1>4. GreetingInv'
  BY <1>p, NoRecord DEF ExecInv, ExecTypeOK, GreetingInv, PlaceInv, Report,
     SaveThen, OfferTerminal, StoppedChannel, Go, run, wvars, Early, Middle, Late
<1>5. ResultInv'
  BY <1>p, NoRecord, <1>0, <1>s DEF ExecInv, ExecTypeOK, ResultInv, PlaceInv,
     GreetingInv, StoppedChannel, Status, OfferTerminal, Go, run, wvars, Early,
     Middle, Late, CallsInv
<1>6. CodeInv'
  BY <1>p DEF ExecInv, ExecTypeOK, CodeInv, PlaceInv, ResultInv, OfferTerminal,
     StoppedChannel, Go, run, wvars, Early, Middle, Late
<1> QED
  BY <1>1, <1>2, <1>3, <1>4, <1>5, <1>6 DEF ExecInv

LEMMA AwaitTerminalKeeps ==
  ASSUME ExecAssumption, ExecInv, main # "over", AwaitTerminal
  PROVE  ExecInv'
<1>0. Truths' = Truths
  BY SameTruths DEF AwaitTerminal, StoppedChannel, Go, run
<1>1. ExecTypeOK'
  BY RecordsAre DEF ExecInv, ExecTypeOK, Steps, Writers, Formats, Outcomes, Report,
     SaveThen, AwaitTerminal, StoppedChannel, Go, run, wvars, Early, Middle, Late
<1>2. CallsInv'
  BY DEF ExecInv, ExecTypeOK, CallsInv, Report, SaveThen, AwaitTerminal,
     StoppedChannel, Go, run, wvars, Early, Middle, Late
<1>3. PlaceInv'
  BY DEF ExecInv, ExecTypeOK, PlaceInv, Report, SaveThen, Formats, AwaitTerminal,
     StoppedChannel, Go, run, wvars, Early, Middle, Late
<1>4. GreetingInv'
  BY NoRecord DEF ExecInv, ExecTypeOK, GreetingInv, PlaceInv, Report, SaveThen,
     AwaitTerminal, StoppedChannel, Go, run, wvars, Early, Middle, Late
<1>5. ResultInv'
  BY <1>0, NoRecord DEF ExecInv, ExecTypeOK, ResultInv, PlaceInv, GreetingInv,
     StoppedChannel, Status, AwaitTerminal, Go, run, wvars, Early, Middle, Late
<1>6. CodeInv'
  BY DEF ExecInv, ExecTypeOK, CodeInv, PlaceInv, ResultInv, AwaitTerminal,
     StoppedChannel, Go, run, wvars, Early, Middle, Late
<1> QED
  BY <1>1, <1>2, <1>3, <1>4, <1>5, <1>6 DEF ExecInv

LEMMA CloseRuntimeKeeps ==
  ASSUME ExecAssumption, ExecInv, main # "over", CloseRuntime
  PROVE  ExecInv'
<1>0. Truths' = Truths
  BY SameTruths DEF CloseRuntime, Go, run
<1>1. ExecTypeOK'
  BY RecordsAre DEF ExecInv, ExecTypeOK, Steps, Writers, Formats, Outcomes, Report,
     SaveThen, CloseRuntime, Go, run, wvars, Early, Middle, Late
<1>2. CallsInv'
  BY DEF ExecInv, ExecTypeOK, CallsInv, Report, SaveThen, CloseRuntime, Go, run,
     wvars, Early, Middle, Late
<1>3. PlaceInv'
  BY DEF ExecInv, ExecTypeOK, PlaceInv, Report, SaveThen, Formats, CloseRuntime, Go,
     run, wvars, Early, Middle, Late
<1>4. GreetingInv'
  BY NoRecord DEF ExecInv, ExecTypeOK, GreetingInv, PlaceInv, Report, SaveThen,
     CloseRuntime, Go, run, wvars, Early, Middle, Late
<1>5. ResultInv'
  BY <1>0, NoRecord DEF ExecInv, ExecTypeOK, ResultInv, PlaceInv, GreetingInv,
     StoppedChannel, Status, CloseRuntime, Go, run, wvars, Early, Middle, Late
<1>6. CodeInv'
  BY DEF ExecInv, ExecTypeOK, CodeInv, PlaceInv, ResultInv, CloseRuntime, Go, run,
     wvars, Early, Middle, Late
<1> QED
  BY <1>1, <1>2, <1>3, <1>4, <1>5, <1>6 DEF ExecInv

LEMMA ExitKeeps ==
  ASSUME ExecAssumption, ExecInv, main # "over", Exit
  PROVE  ExecInv'
<1>0. Truths' = Truths
  BY SameTruths DEF Exit, Go, run
<1>1. ExecTypeOK'
  BY RecordsAre DEF ExecInv, ExecTypeOK, Steps, Writers, Formats, Outcomes, Report,
     SaveThen, Exit, Go, run, wvars, Early, Middle, Late
<1>2. CallsInv'
  BY DEF ExecInv, ExecTypeOK, CallsInv, Report, SaveThen, Exit, Go, run, wvars,
     Early, Middle, Late
<1>3. PlaceInv'
  BY DEF ExecInv, ExecTypeOK, PlaceInv, Report, SaveThen, Formats, Exit, Go, run,
     wvars, Early, Middle, Late
<1>4. GreetingInv'
  BY NoRecord DEF ExecInv, ExecTypeOK, GreetingInv, PlaceInv, Report, SaveThen,
     Exit, Go, run, wvars, Early, Middle, Late
<1>5. ResultInv'
  BY <1>0, NoRecord DEF ExecInv, ExecTypeOK, ResultInv, PlaceInv, GreetingInv,
     StoppedChannel, Status, Exit, Go, run, wvars, Early, Middle, Late
<1>6. CodeInv'
  BY DEF ExecInv, ExecTypeOK, CodeInv, PlaceInv, ResultInv, Exit, Go, run, wvars,
     Early, Middle, Late
<1> QED
  BY <1>1, <1>2, <1>3, <1>4, <1>5, <1>6 DEF ExecInv

LEMMA TakeKeeps ==
  ASSUME ExecAssumption, ExecInv, main # "over", Take
  PROVE  ExecInv'
<1>p. /\ queue' \in Seq(Records) /\ Len(queue') <= Capacity
      /\ hand' \in Seq(Records) /\ Len(hand') = 1 /\ hand' # <<>>
      /\ ResultsOf(hand') \cup ResultsOf(queue') = ResultsOf(queue)
      /\ Ends(queue') /\ (ResultsOf(hand') # {} => queue' = <<>>)
      /\ NoStart(queue) => NoStart(queue') /\ NoStart(hand')
      /\ queue = <<Started>> => queue' = <<>> /\ hand' = <<Started>>
      /\ queue # <<>> /\ hand = <<>>
  <2>1. queue \in Seq(Records) /\ queue # <<>> /\ Capacity \in Nat /\ Len(queue) \in Nat
        /\ Len(queue) <= Capacity /\ Ends(queue) /\ hand = <<>>
        /\ hand' = <<Head(queue)>> /\ queue' = Tail(queue)
    BY DEF ExecInv, ExecTypeOK, ExecAssumption, ResultInv, Take
  <2>2. queue = <<Started>> => queue' = <<>> /\ hand' = <<Started>>
    BY <2>1
  <2>3. Len(Tail(queue)) = Len(queue) - 1
    BY <2>1
  <2> QED
    BY <2>1, <2>2, <2>3, RecordTaken
<1>0. Truths' = Truths
  BY SameTruths DEF Take, run
<1>1. ExecTypeOK'
  BY <1>p, NoRecord DEF ExecInv, ExecTypeOK, Steps, Writers, Formats, Outcomes,
     Report, SaveThen, Take, run, wvars, Early, Middle, Late
<1>2. CallsInv'
  BY <1>p DEF ExecInv, ExecTypeOK, CallsInv, Report, SaveThen, Take, run, wvars,
     Early, Middle, Late
<1>3. PlaceInv'
  BY <1>p DEF ExecInv, ExecTypeOK, PlaceInv, Report, SaveThen, Formats, Take, run,
     wvars, Early, Middle, Late
<1>4. GreetingInv'
  BY <1>p, NoRecord DEF ExecInv, ExecTypeOK, GreetingInv, PlaceInv, Report,
     SaveThen, Take, run, wvars, Early, Middle, Late
<1>5. ResultInv'
  BY <1>p, NoRecord, <1>0 DEF ExecInv, ExecTypeOK, ResultInv, PlaceInv, GreetingInv,
     StoppedChannel, Status, Take, run, wvars, Early, Middle, Late
<1>6. CodeInv'
  BY <1>p DEF ExecInv, ExecTypeOK, CodeInv, PlaceInv, ResultInv, Take, run, wvars,
     Early, Middle, Late
<1> QED
  BY <1>1, <1>2, <1>3, <1>4, <1>5, <1>6 DEF ExecInv

LEMMA WriteLineKeeps ==
  ASSUME ExecAssumption, ExecInv, main # "over", WriteLine
  PROVE  ExecInv'
<1>p. /\ out' \in Seq(Records) /\ hand \in Seq(Records) /\ hand # <<>> /\ hand' = <<>>
      /\ out' # <<>>
      /\ out # <<>> => out'[1] = out[1]
      /\ out = <<>> /\ hand = <<Started>> => out' = <<Started>>
      /\ ResultsOf(out') = ResultsOf(hand) /\ ResultsOf(out) = {} /\ Ends(out')
      /\ ResultsOf(hand) = IF IsTerminal THEN {hand[1]} ELSE {}
      /\ NoStart(hand) /\ ~IsTerminal => ~Waited
      /\ IsTerminal => Waited
      /\ hand = <<Started>> => Waited /\ ~IsTerminal
  <2>1. /\ hand \in Seq(Records) /\ hand # <<>> /\ Len(hand) <= 1 /\ out \in Seq(Records)
        /\ hand' = <<>> /\ out' = Append(out, hand[1])
    BY DEF ExecInv, ExecTypeOK, WriteLine
  <2>2. PICK r : r = hand[1]
    OBVIOUS
  <2>3. /\ r \in Records /\ ResultsOf(hand) = (IF r.event = "result" THEN {r} ELSE {})
        /\ NoStart(hand) => r.event # "session.started"
        /\ r.event \in {"session.started", "activity", "result"}
    BY <2>1, <2>2, OneRecord, RecordsAre
  <2>4. ResultsOf(out) = {}
    BY <2>1 DEF ExecInv, ResultInv
  <2>5. PICK t : t = Append(out, r)
    OBVIOUS
  <2>6. /\ t \in Seq(Records) /\ t # <<>> /\ (out # <<>> => t[1] = out[1])
        /\ out = <<>> => t = <<r>>
        /\ ResultsOf(t) = (IF r.event = "result" THEN {r} ELSE {}) /\ Ends(t)
    BY <2>1, <2>3, <2>4, <2>5, RecordAdded
  <2>7. out' = t
    BY <2>1, <2>2, <2>5
  <2>8. hand = <<Started>> => r = Started
    BY <2>2
  <2>9. /\ IsTerminal <=> r.event = "result"
        /\ Waited <=> r.event # "activity"
    BY <2>1, <2>2 DEF IsTerminal, Waited
  <2>10. NoStart(hand) /\ ~IsTerminal => ~Waited
    BY <2>3, <2>9
  <2>11. IsTerminal => Waited
    BY <2>9
  <2>12. ResultsOf(hand) = IF IsTerminal THEN {hand[1]} ELSE {}
    BY <2>2, <2>3, <2>9
  <2>13. hand = <<Started>> => Waited /\ ~IsTerminal
    BY <2>8, <2>9, RecordsAre
  <2> QED
    BY <2>1, <2>2, <2>3, <2>4, <2>6, <2>7, <2>8, <2>10, <2>11, <2>12, <2>13
<1>0. Truths' = Truths
  BY SameTruths DEF WriteLine, Waited, AfterWrite, IsTerminal, run
<1>1. ExecTypeOK'
  BY <1>p, NoRecord DEF ExecInv, ExecTypeOK, Steps, Writers, Formats, Outcomes,
     Report, SaveThen, WriteLine, AfterWrite, run, wvars, Early, Middle, Late
<1>2. CallsInv'
  BY <1>p DEF ExecInv, ExecTypeOK, CallsInv, Report, SaveThen, WriteLine,
     AfterWrite, run, wvars, Early, Middle, Late
<1>3. PlaceInv'
  BY <1>p DEF ExecInv, ExecTypeOK, PlaceInv, Report, SaveThen, Formats, WriteLine,
     AfterWrite, run, wvars, Early, Middle, Late
<1>4. GreetingInv'
  BY <1>p, NoRecord DEF ExecInv, ExecTypeOK, GreetingInv, PlaceInv, Report,
     SaveThen, WriteLine, AfterWrite, run, wvars, Early, Middle, Late, ResultInv
<1>5. ResultInv'
  BY <1>p, NoRecord, <1>0 DEF ExecInv, ExecTypeOK, ResultInv, PlaceInv, GreetingInv,
     StoppedChannel, Status, WriteLine, AfterWrite, run, wvars, Early, Middle, Late
<1>6. CodeInv'
  BY <1>p DEF ExecInv, ExecTypeOK, CodeInv, PlaceInv, ResultInv, WriteLine,
     AfterWrite, run, wvars, Early, Middle, Late
<1> QED
  BY <1>1, <1>2, <1>3, <1>4, <1>5, <1>6 DEF ExecInv

LEMMA WriteFailsKeeps ==
  ASSUME ExecAssumption, ExecInv, main # "over", WriteFails
  PROVE  ExecInv'
<1>0. Truths' = Truths
  BY SameTruths DEF WriteFails, ContextAfterFailure, run
<1>1. ExecTypeOK'
  BY RecordsAre DEF ExecInv, ExecTypeOK, Steps, Writers, Formats, Outcomes, Report,
     SaveThen, WriteFails, ContextAfterFailure, run, wvars, Early, Middle, Late
<1>2. CallsInv'
  BY DEF ExecInv, ExecTypeOK, CallsInv, Report, SaveThen, WriteFails,
     ContextAfterFailure, run, wvars, Early, Middle, Late
<1>3. PlaceInv'
  BY DEF ExecInv, ExecTypeOK, PlaceInv, Report, SaveThen, Formats, WriteFails,
     ContextAfterFailure, run, wvars, Early, Middle, Late
<1>4. GreetingInv'
  BY NoRecord DEF ExecInv, ExecTypeOK, GreetingInv, PlaceInv, Report, SaveThen,
     WriteFails, ContextAfterFailure, run, wvars, Early, Middle, Late
<1>5. ResultInv'
  BY <1>0, NoRecord DEF ExecInv, ExecTypeOK, ResultInv, PlaceInv, GreetingInv,
     StoppedChannel, Status, WriteFails, ContextAfterFailure, run, wvars, Early,
     Middle, Late
<1>6. CodeInv'
  BY DEF ExecInv, ExecTypeOK, CodeInv, PlaceInv, ResultInv, WriteFails,
     ContextAfterFailure, run, wvars, Early, Middle, Late
<1> QED
  BY <1>1, <1>2, <1>3, <1>4, <1>5, <1>6 DEF ExecInv

LEMMA AckFailureKeeps ==
  ASSUME ExecAssumption, ExecInv, main # "over", AckFailure
  PROVE  ExecInv'
<1>p. /\ hand' = <<>> /\ (NoStart(hand) /\ ResultsOf(hand) = {} => ~Waited)
      /\ hand = <<Started>> => Waited
  <2>1. hand \in Seq(Records) /\ Len(hand) <= 1 /\ hand' = <<>>
    BY DEF ExecInv, ExecTypeOK, AckFailure
  <2>2. ASSUME hand # <<>>, NoStart(hand), ResultsOf(hand) = {} PROVE hand[1].event = "activity"
    BY <2>1, <2>2, OneRecord, RecordsAre
  <2>3. hand = <<Started>> => Waited
    BY RecordsAre DEF Waited
  <2> QED
    BY <2>1, <2>2, <2>3 DEF Waited
<1>0. Truths' = Truths
  BY SameTruths DEF AckFailure, Waited, run
<1>1. ExecTypeOK'
  BY <1>p, NoRecord DEF ExecInv, ExecTypeOK, Steps, Writers, Formats, Outcomes,
     Report, SaveThen, AckFailure, run, wvars, Early, Middle, Late
<1>2. CallsInv'
  BY <1>p DEF ExecInv, ExecTypeOK, CallsInv, Report, SaveThen, AckFailure, run,
     wvars, Early, Middle, Late
<1>3. PlaceInv'
  BY <1>p DEF ExecInv, ExecTypeOK, PlaceInv, Report, SaveThen, Formats, AckFailure,
     run, wvars, Early, Middle, Late
<1>4. GreetingInv'
  BY <1>p, NoRecord DEF ExecInv, ExecTypeOK, GreetingInv, PlaceInv, Report,
     SaveThen, AckFailure, run, wvars, Early, Middle, Late, ResultInv
<1>5. ResultInv'
  BY <1>p, NoRecord, <1>0 DEF ExecInv, ExecTypeOK, ResultInv, PlaceInv, GreetingInv,
     StoppedChannel, Status, AckFailure, run, wvars, Early, Middle, Late
<1>6. CodeInv'
  BY <1>p DEF ExecInv, ExecTypeOK, CodeInv, PlaceInv, ResultInv, AckFailure, run,
     wvars, Early, Middle, Late
<1> QED
  BY <1>1, <1>2, <1>3, <1>4, <1>5, <1>6 DEF ExecInv

LEMMA FinishWriterKeeps ==
  ASSUME ExecAssumption, ExecInv, main # "over", FinishWriter
  PROVE  ExecInv'
<1>0. Truths' = Truths
  BY SameTruths DEF FinishWriter, run
<1>1. ExecTypeOK'
  BY RecordsAre DEF ExecInv, ExecTypeOK, Steps, Writers, Formats, Outcomes, Report,
     SaveThen, FinishWriter, run, wvars, Early, Middle, Late
<1>2. CallsInv'
  BY DEF ExecInv, ExecTypeOK, CallsInv, Report, SaveThen, FinishWriter, run, wvars,
     Early, Middle, Late
<1>3. PlaceInv'
  BY DEF ExecInv, ExecTypeOK, PlaceInv, Report, SaveThen, Formats, FinishWriter,
     run, wvars, Early, Middle, Late
<1>4. GreetingInv'
  BY NoRecord DEF ExecInv, ExecTypeOK, GreetingInv, PlaceInv, Report, SaveThen,
     FinishWriter, run, wvars, Early, Middle, Late
<1>5. ResultInv'
  BY <1>0, NoRecord DEF ExecInv, ExecTypeOK, ResultInv, PlaceInv, GreetingInv,
     StoppedChannel, Status, FinishWriter, run, wvars, Early, Middle, Late
<1>6. CodeInv'
  BY DEF ExecInv, ExecTypeOK, CodeInv, PlaceInv, ResultInv, FinishWriter, run,
     wvars, Early, Middle, Late
<1> QED
  BY <1>1, <1>2, <1>3, <1>4, <1>5, <1>6 DEF ExecInv

LEMMA StreamToBrokenPipeKeeps ==
  ASSUME ExecAssumption, ExecInv, main # "over", StreamToBrokenPipe
  PROVE  ExecInv'
<1>0. Truths' = Truths
  BY SameTruths DEF StreamToBrokenPipe, Killed, run
<1>1. ExecTypeOK'
  BY RecordsAre DEF ExecInv, ExecTypeOK, Steps, Writers, Formats, Outcomes, Report,
     SaveThen, StreamToBrokenPipe, Killed, run, wvars, Early, Middle, Late
<1>2. CallsInv'
  BY DEF ExecInv, ExecTypeOK, CallsInv, Report, SaveThen, StreamToBrokenPipe,
     Killed, run, wvars, Early, Middle, Late
<1>3. PlaceInv'
  BY DEF ExecInv, ExecTypeOK, PlaceInv, Report, SaveThen, Formats,
     StreamToBrokenPipe, Killed, run, wvars, Early, Middle, Late
<1>4. GreetingInv'
  BY NoRecord DEF ExecInv, ExecTypeOK, GreetingInv, PlaceInv, Report, SaveThen,
     StreamToBrokenPipe, Killed, run, wvars, Early, Middle, Late
<1>5. ResultInv'
  BY <1>0, NoRecord DEF ExecInv, ExecTypeOK, ResultInv, PlaceInv, GreetingInv,
     StoppedChannel, Status, StreamToBrokenPipe, Killed, run, wvars, Early, Middle,
     Late
<1>6. CodeInv'
  BY DEF ExecInv, ExecTypeOK, CodeInv, PlaceInv, ResultInv, StreamToBrokenPipe,
     Killed, run, wvars, Early, Middle, Late
<1> QED
  BY <1>1, <1>2, <1>3, <1>4, <1>5, <1>6 DEF ExecInv

LEMMA CommitKeeps ==
  ASSUME ExecAssumption, ExecInv, main # "over", Commit
  PROVE  ExecInv'
<1>1. ExecTypeOK'
  BY RecordsAre DEF ExecInv, ExecTypeOK, Steps, Writers, Formats, Outcomes, Report,
     SaveThen, Commit, TurnEnds, Go, run, wvars, Early, Middle, Late
<1>2. CallsInv'
  BY DEF ExecInv, ExecTypeOK, CallsInv, Report, SaveThen, Commit, TurnEnds, Go, run,
     wvars, Early, Middle, Late
<1>3. PlaceInv'
  BY DEF ExecInv, ExecTypeOK, PlaceInv, Report, SaveThen, Formats, Commit, TurnEnds,
     Go, run, wvars, Early, Middle, Late
<1>4. GreetingInv'
  BY NoRecord DEF ExecInv, ExecTypeOK, GreetingInv, PlaceInv, Report, SaveThen,
     Commit, TurnEnds, Go, run, wvars, Early, Middle, Late
<1>5. ResultInv'
  BY NoRecord DEF ExecInv, ExecTypeOK, ResultInv, PlaceInv, GreetingInv,
     StoppedChannel, Status, Commit, TurnEnds, Go, run, wvars, Early, Middle, Late
<1>6. CodeInv'
  BY DEF ExecInv, ExecTypeOK, CodeInv, PlaceInv, ResultInv, Commit, TurnEnds, Go,
     run, wvars, Early, Middle, Late
<1> QED
  BY <1>1, <1>2, <1>3, <1>4, <1>5, <1>6 DEF ExecInv

LEMMA TurnFailsKeeps ==
  ASSUME ExecAssumption, ExecInv, main # "over", TurnFails
  PROVE  ExecInv'
<1>1. ExecTypeOK'
  BY RecordsAre DEF ExecInv, ExecTypeOK, Steps, Writers, Formats, Outcomes, Report,
     SaveThen, TurnFails, TurnEnds, Go, run, wvars, Early, Middle, Late
<1>2. CallsInv'
  BY DEF ExecInv, ExecTypeOK, CallsInv, Report, SaveThen, TurnFails, TurnEnds, Go,
     run, wvars, Early, Middle, Late
<1>3. PlaceInv'
  BY DEF ExecInv, ExecTypeOK, PlaceInv, Report, SaveThen, Formats, TurnFails,
     TurnEnds, Go, run, wvars, Early, Middle, Late
<1>4. GreetingInv'
  BY NoRecord DEF ExecInv, ExecTypeOK, GreetingInv, PlaceInv, Report, SaveThen,
     TurnFails, TurnEnds, Go, run, wvars, Early, Middle, Late
<1>5. ResultInv'
  BY NoRecord DEF ExecInv, ExecTypeOK, ResultInv, PlaceInv, GreetingInv,
     StoppedChannel, Status, TurnFails, TurnEnds, Report, Go, run, wvars, Early,
     Middle, Late
<1>6. CodeInv'
  BY DEF ExecInv, ExecTypeOK, CodeInv, PlaceInv, ResultInv, TurnFails, TurnEnds,
     Report, Go, run, wvars, Early, Middle, Late
<1> QED
  BY <1>1, <1>2, <1>3, <1>4, <1>5, <1>6 DEF ExecInv

LEMMA TurnCancelledKeeps ==
  ASSUME ExecAssumption, ExecInv, main # "over", TurnCancelled
  PROVE  ExecInv'
<1>1. ExecTypeOK'
  BY RecordsAre DEF ExecInv, ExecTypeOK, Steps, Writers, Formats, Outcomes, Report,
     SaveThen, TurnCancelled, TurnEnds, Go, run, wvars, Early, Middle, Late
<1>2. CallsInv'
  BY DEF ExecInv, ExecTypeOK, CallsInv, Report, SaveThen, TurnCancelled, TurnEnds,
     Go, run, wvars, Early, Middle, Late
<1>3. PlaceInv'
  BY DEF ExecInv, ExecTypeOK, PlaceInv, Report, SaveThen, Formats, TurnCancelled,
     TurnEnds, Go, run, wvars, Early, Middle, Late
<1>4. GreetingInv'
  BY NoRecord DEF ExecInv, ExecTypeOK, GreetingInv, PlaceInv, Report, SaveThen,
     TurnCancelled, TurnEnds, Go, run, wvars, Early, Middle, Late
<1>5. ResultInv'
  BY NoRecord DEF ExecInv, ExecTypeOK, ResultInv, PlaceInv, GreetingInv,
     StoppedChannel, Status, TurnCancelled, TurnEnds, Report, Go, run, wvars, Early,
     Middle, Late
<1>6. CodeInv'
  BY DEF ExecInv, ExecTypeOK, CodeInv, PlaceInv, ResultInv, TurnCancelled, TurnEnds,
     Report, Go, run, wvars, Early, Middle, Late
<1> QED
  BY <1>1, <1>2, <1>3, <1>4, <1>5, <1>6 DEF ExecInv

LEMMA ObserveKeeps ==
  ASSUME ExecAssumption, ExecInv, main # "over", NEW e \in Emitters, Observe(e)
  PROVE  ExecInv'
<1>0. Truths' = Truths
  BY SameTruths DEF Observe, run
<1>1. ExecTypeOK'
  BY RecordsAre DEF ExecInv, ExecTypeOK, Steps, Writers, Formats, Outcomes, Report,
     SaveThen, Observe, run, wvars, Early, Middle, Late, ExecAssumption
<1>2. CallsInv'
  BY DEF ExecInv, ExecTypeOK, CallsInv, Report, SaveThen, Observe, run, wvars,
     Early, Middle, Late, ExecAssumption
<1>3. PlaceInv'
  BY DEF ExecInv, ExecTypeOK, PlaceInv, Report, SaveThen, Formats, Observe, run,
     wvars, Early, Middle, Late
<1>4. GreetingInv'
  BY NoRecord DEF ExecInv, ExecTypeOK, GreetingInv, PlaceInv, Report, SaveThen,
     Observe, run, wvars, Early, Middle, Late
<1>5. ResultInv'
  BY <1>0, NoRecord DEF ExecInv, ExecTypeOK, ResultInv, PlaceInv, GreetingInv,
     StoppedChannel, Status, Observe, run, wvars, Early, Middle, Late
<1>6. CodeInv'
  BY DEF ExecInv, ExecTypeOK, CodeInv, PlaceInv, ResultInv, Observe, run, wvars,
     Early, Middle, Late
<1> QED
  BY <1>1, <1>2, <1>3, <1>4, <1>5, <1>6 DEF ExecInv

LEMMA LockKeeps ==
  ASSUME ExecAssumption, ExecInv, main # "over", NEW e \in Emitters, Lock(e)
  PROVE  ExecInv'
<1>0. Truths' = Truths
  BY SameTruths DEF Lock, run
<1>1. ExecTypeOK'
  <2>1. /\ emit' \in [Emitters -> {"idle", "recorded", "select"}]
        /\ mutex' \in Emitters \cup {NoOne}
    BY DEF ExecInv, ExecTypeOK, Lock
  <2>2. UNCHANGED <<format, saving, stdout, main, cause, turn, ctx, deadline, signal, events,
                    closed, queue, hand, writer, ack, outputErr, out, file, code>>
    BY DEF Lock, run, wvars
  <2> QED
    BY <2>1, <2>2 DEF ExecInv, ExecTypeOK
<1>2. CallsInv'
  BY DEF ExecInv, ExecTypeOK, CallsInv, Report, SaveThen, Lock, run, wvars, Early,
     Middle, Late, ExecAssumption
<1>3. PlaceInv'
  BY DEF ExecInv, ExecTypeOK, PlaceInv, Report, SaveThen, Formats, Lock, run, wvars,
     Early, Middle, Late
<1>4. GreetingInv'
  BY NoRecord DEF ExecInv, ExecTypeOK, GreetingInv, PlaceInv, Report, SaveThen,
     Lock, run, wvars, Early, Middle, Late
<1>5. ResultInv'
  BY <1>0, NoRecord DEF ExecInv, ExecTypeOK, ResultInv, PlaceInv, GreetingInv,
     StoppedChannel, Status, Lock, run, wvars, Early, Middle, Late
<1>6. CodeInv'
  BY DEF ExecInv, ExecTypeOK, CodeInv, PlaceInv, ResultInv, Lock, run, wvars, Early,
     Middle, Late
<1> QED
  BY <1>1, <1>2, <1>3, <1>4, <1>5, <1>6 DEF ExecInv

LEMMA SelectKeeps ==
  ASSUME ExecAssumption, ExecInv, main # "over", NEW e \in Emitters, Select(e)
  PROVE  ExecInv'
<1>p. \/ queue' = queue
      \/ /\ queue' \in Seq(Records) /\ Len(queue') <= Capacity
         /\ ResultsOf(queue') = {} /\ Ends(queue')
         /\ NoStart(queue) => NoStart(queue')
  <2> SUFFICES ASSUME Len(queue) < Capacity, queue' = Append(queue, Activity)
               PROVE  /\ queue' \in Seq(Records) /\ Len(queue') <= Capacity
                      /\ ResultsOf(queue') = {} /\ Ends(queue')
                      /\ NoStart(queue) => NoStart(queue')
    BY DEF Select
  <2>1. queue \in Seq(Records) /\ Capacity \in Nat /\ Len(queue) \in Nat
    BY DEF ExecInv, ExecTypeOK, ExecAssumption
  <2>2. Activity \in Records /\ Activity.event = "activity"
    BY RecordsAre
  <2>3. ResultsOf(queue) = {}
    BY DEF ExecInv, CallsInv, ResultInv, Select, ExecAssumption, NoOne
  <2>4. Len(Append(queue, Activity)) = Len(queue) + 1
    BY <2>1, <2>2, RecordAdded
  <2> QED
    BY <2>1, <2>2, <2>3, <2>4, RecordAdded
<1>0. Truths' = Truths
  BY SameTruths DEF Select, GivesUp, StoppedChannel, run
<1>1. ExecTypeOK'
  BY <1>p, NoRecord DEF ExecInv, ExecTypeOK, Steps, Writers, Formats, Outcomes,
     Report, SaveThen, Select, GivesUp, StoppedChannel, run, wvars, Early, Middle,
     Late
<1>2. CallsInv'
  BY <1>p DEF ExecInv, ExecTypeOK, CallsInv, Report, SaveThen, Select, GivesUp,
     StoppedChannel, run, wvars, Early, Middle, Late
<1>3. PlaceInv'
  BY <1>p DEF ExecInv, ExecTypeOK, PlaceInv, Report, SaveThen, Formats, Select,
     GivesUp, StoppedChannel, run, wvars, Early, Middle, Late
<1>4. GreetingInv'
  BY <1>p, NoRecord DEF ExecInv, ExecTypeOK, GreetingInv, PlaceInv, Report,
     SaveThen, Select, GivesUp, StoppedChannel, run, wvars, Early, Middle, Late,
     CallsInv
<1>5. ResultInv'
  BY <1>p, NoRecord, <1>0 DEF ExecInv, ExecTypeOK, ResultInv, PlaceInv, GreetingInv,
     StoppedChannel, Status, Select, GivesUp, run, wvars, Early, Middle, Late,
     CallsInv, ExecAssumption, NoOne
<1>6. CodeInv'
  BY <1>p DEF ExecInv, ExecTypeOK, CodeInv, PlaceInv, ResultInv, Select, GivesUp,
     StoppedChannel, run, wvars, Early, Middle, Late
<1> QED
  BY <1>1, <1>2, <1>3, <1>4, <1>5, <1>6 DEF ExecInv

LEMMA CaughtKeeps ==
  ASSUME ExecAssumption, ExecInv, main # "over", NEW s \in {"INT", "TERM"}, Caught(s)
  PROVE  ExecInv'
<1>0. Truths' = Truths
  BY SameTruths DEF Caught, Listening, run
<1>1. ExecTypeOK'
  BY RecordsAre DEF ExecInv, ExecTypeOK, Steps, Writers, Formats, Outcomes, Report,
     SaveThen, Caught, Listening, run, wvars, Early, Middle, Late
<1>2. CallsInv'
  BY DEF ExecInv, ExecTypeOK, CallsInv, Report, SaveThen, Caught, Listening, run,
     wvars, Early, Middle, Late
<1>3. PlaceInv'
  BY DEF ExecInv, ExecTypeOK, PlaceInv, Report, SaveThen, Formats, Caught,
     Listening, run, wvars, Early, Middle, Late
<1>4. GreetingInv'
  BY NoRecord DEF ExecInv, ExecTypeOK, GreetingInv, PlaceInv, Report, SaveThen,
     Caught, Listening, run, wvars, Early, Middle, Late
<1>5. ResultInv'
  BY <1>0, NoRecord DEF ExecInv, ExecTypeOK, ResultInv, PlaceInv, GreetingInv,
     StoppedChannel, Status, Caught, Listening, run, wvars, Early, Middle, Late
<1>6. CodeInv'
  BY DEF ExecInv, ExecTypeOK, CodeInv, PlaceInv, ResultInv, Caught, Listening, run,
     wvars, Early, Middle, Late
<1> QED
  BY <1>1, <1>2, <1>3, <1>4, <1>5, <1>6 DEF ExecInv

LEMMA DeadlinePassesKeeps ==
  ASSUME ExecAssumption, ExecInv, main # "over", DeadlinePasses
  PROVE  ExecInv'
<1>0. Truths' = Truths
  BY SameTruths DEF DeadlinePasses, run
<1>1. ExecTypeOK'
  BY RecordsAre DEF ExecInv, ExecTypeOK, Steps, Writers, Formats, Outcomes, Report,
     SaveThen, DeadlinePasses, run, wvars, Early, Middle, Late
<1>2. CallsInv'
  BY DEF ExecInv, ExecTypeOK, CallsInv, Report, SaveThen, DeadlinePasses, run,
     wvars, Early, Middle, Late
<1>3. PlaceInv'
  BY DEF ExecInv, ExecTypeOK, PlaceInv, Report, SaveThen, Formats, DeadlinePasses,
     run, wvars, Early, Middle, Late
<1>4. GreetingInv'
  BY NoRecord DEF ExecInv, ExecTypeOK, GreetingInv, PlaceInv, Report, SaveThen,
     DeadlinePasses, run, wvars, Early, Middle, Late
<1>5. ResultInv'
  BY <1>0, NoRecord DEF ExecInv, ExecTypeOK, ResultInv, PlaceInv, GreetingInv,
     StoppedChannel, Status, DeadlinePasses, run, wvars, Early, Middle, Late
<1>6. CodeInv'
  BY DEF ExecInv, ExecTypeOK, CodeInv, PlaceInv, ResultInv, DeadlinePasses, run,
     wvars, Early, Middle, Late
<1> QED
  BY <1>1, <1>2, <1>3, <1>4, <1>5, <1>6 DEF ExecInv

LEMMA ReaderGoesKeeps ==
  ASSUME ExecAssumption, ExecInv, main # "over", ReaderGoes
  PROVE  ExecInv'
<1>0. Truths' = Truths
  BY SameTruths DEF ReaderGoes, run
<1>1. ExecTypeOK'
  BY RecordsAre DEF ExecInv, ExecTypeOK, Steps, Writers, Formats, Outcomes, Report,
     SaveThen, ReaderGoes, run, wvars, Early, Middle, Late
<1>2. CallsInv'
  BY DEF ExecInv, ExecTypeOK, CallsInv, Report, SaveThen, ReaderGoes, run, wvars,
     Early, Middle, Late
<1>3. PlaceInv'
  BY DEF ExecInv, ExecTypeOK, PlaceInv, Report, SaveThen, Formats, ReaderGoes, run,
     wvars, Early, Middle, Late
<1>4. GreetingInv'
  BY NoRecord DEF ExecInv, ExecTypeOK, GreetingInv, PlaceInv, Report, SaveThen,
     ReaderGoes, run, wvars, Early, Middle, Late
<1>5. ResultInv'
  BY <1>0, NoRecord DEF ExecInv, ExecTypeOK, ResultInv, PlaceInv, GreetingInv,
     StoppedChannel, Status, ReaderGoes, run, wvars, Early, Middle, Late
<1>6. CodeInv'
  BY DEF ExecInv, ExecTypeOK, CodeInv, PlaceInv, ResultInv, ReaderGoes, run, wvars,
     Early, Middle, Late
<1> QED
  BY <1>1, <1>2, <1>3, <1>4, <1>5, <1>6 DEF ExecInv

-----------------------------------------------------------------------------
(* The exec command's invariant and what follows from it.                  *)

LEMMA ExecBegins == ASSUME ExecAssumption PROVE ExecInit => ExecInv
<1> SUFFICES ASSUME ExecInit PROVE ExecInv
  OBVIOUS
<1>1. ExecTypeOK
  <2>1. <<>> \in Seq(Records) /\ Len(<<>>) = 0
    OBVIOUS
  <2>2. /\ queue \in Seq(Records) /\ Len(queue) <= Capacity
        /\ hand \in Seq(Records) /\ Len(hand) <= 1 /\ out \in Seq(Records)
    BY <2>1 DEF ExecInit, ExecAssumption
  <2>3. /\ emit \in [Emitters -> {"idle", "recorded", "select"}]
        /\ events \in [Emitters -> 0..MaxEvents]
    BY DEF ExecInit, ExecAssumption
  <2>4. stdout \in {"pipe", "file", "gone"}
    BY DEF ExecInit, ExecAssumption
  <2> QED
    BY <2>2, <2>3, <2>4 DEF ExecInit, ExecTypeOK, Steps, Writers
<1>2. CallsInv /\ PlaceInv
  BY DEF ExecInit, CallsInv, PlaceInv, Late
<1>3. GreetingInv
  BY DEF ExecInit, GreetingInv, Middle
<1>4. ResultInv /\ CodeInv
  BY NoRecord DEF ExecInit, ResultInv, CodeInv
<1> QED
  BY <1>1, <1>2, <1>3, <1>4 DEF ExecInv

LEMMA ExecStep ==
  ASSUME ExecAssumption PROVE ExecInv /\ [ExecNext]_xvars => ExecInv'
<1> SUFFICES ASSUME ExecInv, [ExecNext]_xvars PROVE ExecInv'
  OBVIOUS
<1>1. CASE UNCHANGED xvars
  <2>1. Truths' = Truths
    BY <1>1, SameTruths DEF xvars
  <2>2. ExecTypeOK' /\ CallsInv' /\ PlaceInv' /\ CodeInv'
    BY <1>1 DEF ExecInv, ExecTypeOK, CallsInv, PlaceInv, CodeInv, xvars
  <2>3. GreetingInv' /\ ResultInv'
    BY <1>1, <2>1 DEF ExecInv, GreetingInv, ResultInv, StoppedChannel, Status, xvars
  <2> QED
    BY <2>2, <2>3 DEF ExecInv
<1>2. CASE main # "over" /\ Main
  BY <1>2, ReadExecPromptKeeps, OpenSessionKeeps, HelloKeeps, GreetedKeeps,
     WriteExecSessionHintKeeps, BeginKeeps, WriteExecLastMessageKeeps,
     WriteExecJSONKeeps, WriteToBrokenPipeKeeps, MarkTerminalKeeps,
     OfferTerminalKeeps, AwaitTerminalKeeps, CloseRuntimeKeeps, ExitKeeps DEF Main
<1>3. CASE main # "over" /\ (Writer \/ DeadlinePasses \/ ReaderGoes)
  BY <1>3, TakeKeeps, WriteLineKeeps, WriteFailsKeeps, AckFailureKeeps,
     FinishWriterKeeps, StreamToBrokenPipeKeeps, DeadlinePassesKeeps,
     ReaderGoesKeeps DEF Writer
<1>4. CASE main # "over" /\ (Commit \/ TurnFails \/ TurnCancelled)
  BY <1>4, CommitKeeps, TurnFailsKeeps, TurnCancelledKeeps
<1>5. ASSUME main # "over", NEW e \in Emitters, Observe(e) \/ Emitter(e) PROVE ExecInv'
  BY <1>5, ObserveKeeps, LockKeeps, SelectKeeps DEF Emitter
<1>6. ASSUME main # "over", NEW s \in {"INT", "TERM"}, Caught(s) PROVE ExecInv'
  BY <1>6, CaughtKeeps
<1> QED
  BY <1>1, <1>2, <1>3, <1>4, <1>5, <1>6 DEF ExecNext, Ended

(* The variables of the exec command keep their types, for any number of   *)
(* tool goroutines and any capacity of the queue.                          *)
THEOREM ExecRunTypeOK == ASSUME ExecAssumption PROVE ExecSpec => []ExecTypeOK
<1>1. ExecInv => ExecTypeOK
  BY DEF ExecInv
<1> QED
  BY <1>1, ExecBegins, ExecStep, PTL DEF ExecSpec

(* What the caller reads of a run is what happened: the result record is   *)
(* true, last and alone, the first record precedes the turn, and the exit  *)
(* code agrees with stdout, for any number of tool goroutines, of their    *)
(* events, and for any capacity of the queue.                              *)
THEOREM ReportsTrue == ASSUME ExecAssumption PROVE ExecSpec => []ReportIsTrue
<1>1. ASSUME ExecInv PROVE ReportIsTrue
  <2>1. \A r \in ResultsOf(out) : out # <<>> /\ out[Len(out)] = r
    BY <1>1, ResultIsLast DEF ExecInv, ExecTypeOK, ResultInv
  <2>2. ResultIsTrue
    <3>1. ASSUME NEW n \in 1..Len(out), out[n].event = "result"
          PROVE  /\ n = Len(out)
                 /\ IF out[n].status = "completed"
                    THEN turn = "committed" /\ (saving => file = "new")
                    ELSE file = "old"
      <4>1. n = Len(out)
        BY <1>1, <3>1 DEF ExecInv, ResultInv, Ends
      <4>2. out[n] \in Truths
        BY <1>1, <3>1 DEF ExecInv, ResultInv, ResultsOf
      <4>3. PICK x \in Outcomes : /\ out[n] = Result(x)
                                  /\ IF x = "completed"
                                     THEN turn = "committed" /\ (saving => file = "new")
                                     ELSE file = "old"
        BY <4>2 DEF Truths
      <4> QED
        BY <4>1, <4>3, RecordsAre
    <3>2. file = "new" => turn = "committed"
      BY <1>1 DEF ExecInv, PlaceInv
    <3> QED
      BY <3>1, <3>2 DEF ResultIsTrue
  <2>3. AnnouncedFirst
    BY <1>1 DEF ExecInv, GreetingInv, AnnouncedFirst
  <2>4. ExitIsTrue
    <3>1. code = "0" => Reported(Result("completed"))
      BY <1>1, <2>1 DEF ExecInv, CodeInv, Reported
    <3>2. ASSUME main = "close", cause = "failed", Reported(Result("completed")) PROVE FALSE
      <4>1. Result("completed") \in ResultsOf(out)
        <5>1. out \in Seq(Records) /\ out # <<>>
          BY <1>1, <3>2 DEF ExecInv, ExecTypeOK, Reported
        <5>2. Len(out) \in 1 .. Len(out)
          <6>1. Len(out) \in Nat /\ (Len(out) = 0 => out = <<>>)
            BY <5>1
          <6> QED
            BY <5>1, <6>1
        <5> QED
          BY <3>2, <5>2, RecordsAre DEF Reported, ResultsOf
      <4>2. Result("completed") = Result("failed")
        BY <1>1, <3>2, <4>1 DEF ExecInv, ResultInv, Status
      <4> QED
        BY <4>2, RecordsAre
    <3>3. code \in {"0", "1", "143"} => turn # "active"
      BY <1>1 DEF ExecInv, CodeInv
    <3> QED
      BY <3>1, <3>2, <3>3 DEF ExitIsTrue
  <2> QED
    BY <2>2, <2>3, <2>4 DEF ReportIsTrue
<1> QED
  BY <1>1, ExecBegins, ExecStep, PTL DEF ExecSpec
-----------------------------------------------------------------------------
(* Background agents.                                                      *)

\* A number is a record's as long as it is retained; a goroutine is at work
\* exactly for the records that hold a place.
RecordsInv ==
  /\ order \subseteq 1..next
  /\ \A i \in Ids : i \in order <=> task[i].state # "none"
  /\ \A i \in Ids : work[i] # "none" <=> task[i].state \in Active
\* Places are few, and all taken while somebody waits.
Full(p) ==
  /\ Cardinality(InState(p.task, Active)) <= MaxActive
  /\ Queued(p) # {} => Cardinality(InState(p.task, Active)) = MaxActive
PlacesInv == Full(Pool)
\* What was refused is never completed, and what was handed over was.
SilenceInv ==
  /\ refused \subseteq 1..next /\ draft \subseteq 1..next
  /\ \A i \in refused : task[i].state \in {"cancelling", "cancelled", "none"} /\ i \notin draft
  /\ \A i \in draft : task[i].state \in {"completed", "none"}
AgentsInv == AgentsTypeOK /\ RecordsInv /\ PlacesInv /\ SilenceInv

\* Sets of agents are finite, and the number of those in a state is a number.
LEMMA AgentsAreFinite ==
  ASSUME AgentAssumption, NEW t, NEW S
  PROVE  /\ IsFiniteSet(InState(t, S)) /\ Cardinality(InState(t, S)) \in Nat
         /\ Ids \subseteq Nat
<1>1. Ids \subseteq Nat /\ IsFiniteSet(Ids)
  BY FS_Interval DEF Ids, AgentAssumption
<1>2. IsFiniteSet(InState(t, S))
  BY <1>1, FS_Subset DEF InState
<1> QED
  BY <1>1, <1>2, FS_CardinalityType

\* Of some agents one is the oldest.
LEMMA OldestExists ==
  ASSUME NEW S \in SUBSET Nat, S # {}
  PROVE  \E i \in S : \A j \in S : i <= j
<1>1. PICK x \in S : \A y \in S : ~ (<<y, x>> \in OpToRel(<, Nat))
  BY NatLessThanWellFounded, WFMin
<1>2. \A y \in S : ~(y < x)
  BY <1>1 DEF OpToRel
<1>3. \A y \in S : x <= y
  <2> TAKE y \in S
  <2>1. x \in Nat /\ y \in Nat /\ ~(y < x)
    BY <1>2
  <2> QED
    BY <2>1
<1> QED
  BY <1>3

\* Trimming drops ended records only.
LEMMA TrimKeeps ==
  ASSUME NEW p, NEW limit, p.order \subseteq Ids
  PROVE  /\ Trim(p, limit).order \subseteq p.order
         /\ \A i \in Ids : \/ Trim(p, limit).task[i] = p.task[i]
                              /\ (i \in Trim(p, limit).order <=> i \in p.order)
                           \/ /\ p.task[i].state \in Terminal /\ i \in p.order
                              /\ Trim(p, limit).task[i] = NoTask
                              /\ i \notin Trim(p, limit).order
BY DEF Trim, Evictable, Oldest

\* What the functions of the interface hand on.
Pools == [order : SUBSET Ids,
          task : [Ids -> [state : States \cup {"none"}, generation : 0..MaxChanges]]]

\* Either nobody starts, because nobody waits or there is no place, or one does.
LEMMA DispatchCases ==
  ASSUME AgentAssumption, NEW p \in Pools
  PROVE  /\ Dispatched(p) \in Pools /\ Dispatched(p).order = p.order
         /\ \/ /\ Starting(p) = {} /\ Dispatched(p).task = p.task
               /\ Queued(p) = {} \/ ~HasRoom(p)
            \/ \E h \in Queued(p) :
                 /\ Starting(p) = {h} /\ HasRoom(p) /\ h \in Ids
                 /\ Dispatched(p).task = [p.task EXCEPT ![h].state = "working"]
<1>1. Queued(p) \subseteq Ids /\ Ids \subseteq Nat
  BY AgentsAreFinite DEF Pools, Queued
<1>2. Dispatched(p) \in Pools /\ Dispatched(p).order = p.order
  BY DEF Pools, Dispatched, States
<1>3. Dispatched(p).task = [j \in Ids |->
        IF j \in Starting(p) THEN [p.task[j] EXCEPT !.state = "working"] ELSE p.task[j]]
  BY DEF Pools, Dispatched
<1>4. CASE Queued(p) = {} \/ ~HasRoom(p)
  <2>1. Starting(p) = {}
    BY <1>4 DEF Starting
  <2>2. Dispatched(p).task = p.task
    BY <1>3, <2>1 DEF Pools
  <2> QED
    BY <1>2, <1>4, <2>1, <2>2
<1>5. CASE Queued(p) # {} /\ HasRoom(p)
  <2>1. PICK h \in Queued(p) : \A j \in Queued(p) : h <= j
    BY <1>1, <1>5, OldestExists
  <2>2. Starting(p) = {h}
    <3>1. h \in Starting(p)
      BY <1>5, <2>1 DEF Starting
    <3>2. ASSUME NEW j \in Starting(p) PROVE j = h
      <4>1. j \in Queued(p) /\ j <= h /\ h <= j
        BY <2>1 DEF Starting
      <4>2. j \in Nat /\ h \in Nat
        BY <1>1, <4>1
      <4> QED
        BY <4>1, <4>2
    <3> QED
      BY <3>1, <3>2
  <2>3. Dispatched(p).task = [p.task EXCEPT ![h].state = "working"]
    BY <1>1, <1>3, <2>2 DEF Pools
  <2> QED
    BY <1>1, <1>2, <1>5, <2>2, <2>3
<1> QED
  BY <1>4, <1>5

\* A place that is free goes to the next in line: if one at most was free, or
\* one at most waits, then nobody waits beside a free place.
LEMMA DispatchFills ==
  ASSUME AgentAssumption, NEW p \in Pools,
         Cardinality(InState(p.task, Active)) <= MaxActive,
         \/ Cardinality(InState(p.task, Active)) + 1 >= MaxActive
         \/ \A i, j \in Queued(p) : i = j
  PROVE  Full(Dispatched(p))
<1>1. /\ IsFiniteSet(InState(p.task, Active)) /\ Cardinality(InState(p.task, Active)) \in Nat
      /\ MaxActive \in Nat
  BY AgentsAreFinite DEF AgentAssumption
<1>2. PICK q : q = Dispatched(p)
  OBVIOUS
<1>3. CASE q.task = p.task /\ q.order = p.order /\ (Queued(p) = {} \/ ~HasRoom(p))
  BY <1>1, <1>2, <1>3 DEF Full, Queued, HasRoom
<1>4. ASSUME NEW h \in Queued(p), HasRoom(p), h \in Ids, q.order = p.order,
             q.task = [p.task EXCEPT ![h].state = "working"]
      PROVE  Full(q)
  <2>1. InState(q.task, Active) = InState(p.task, Active) \cup {h}
    BY <1>4 DEF InState, Active, Pools
  <2>2. h \notin InState(p.task, Active)
    BY <1>4 DEF InState, Active, Queued
  <2>3. Cardinality(InState(q.task, Active)) = Cardinality(InState(p.task, Active)) + 1
    BY <1>1, <2>1, <2>2, FS_AddElement
  <2>4. Queued(q) = Queued(p) \ {h}
    BY <1>4 DEF Queued, Pools
  <2> QED
    BY <1>1, <1>4, <2>3, <2>4 DEF Full, HasRoom
<1> QED
  BY <1>2, <1>3, <1>4, DispatchCases

LEMMA AgentsBegin == ASSUME AgentAssumption PROVE AgentsInit => AgentsInv
<1> SUFFICES ASSUME AgentsInit PROVE AgentsInv
  OBVIOUS
<1>1. AgentsTypeOK
  <2>1. NoTask \in [state : States \cup {"none"}, generation : 0..MaxChanges]
    BY DEF NoTask, AgentAssumption
  <2>2. session \in 1..MaxChanges /\ next \in 0..MaxAgents
    BY DEF AgentsInit, AgentAssumption
  <2> QED
    BY <2>1, <2>2 DEF AgentsInit, AgentsTypeOK, Work, Results
<1>2. RecordsInv /\ SilenceInv
  BY DEF AgentsInit, RecordsInv, SilenceInv, NoTask, Active
<1>3. InState(task, Active) = {}
  BY DEF AgentsInit, InState, Active, NoTask
<1>4. PlacesInv
  BY <1>3, FS_EmptySet DEF AgentsInit, AgentAssumption, PlacesInv, Full, Queued, Pool
<1> QED
  BY <1>1, <1>2, <1>4 DEF AgentsInv

\* Cancellation frees no place: it is given back when the goroutine has returned.
LEMMA CancelKeeps ==
  ASSUME AgentAssumption, AgentsInv, NEW S \in SUBSET Ids, Cancel(S), quitting' \in BOOLEAN
  PROVE  AgentsInv'
<1> USE DEF AgentsInv
<1>1. /\ order' = order
      /\ \A j \in Ids :
           \/ task'[j] = task[j] /\ (j \notin S \/ task[j].state \notin Active \cup {"queued"})
           \/ /\ j \in S /\ task[j].state = "queued"
              /\ task'[j] = [task[j] EXCEPT !.state = "cancelled"]
           \/ /\ j \in S /\ task[j].state \in Active
              /\ task'[j] = [task[j] EXCEPT !.state = "cancelling"]
  BY DEF Cancel, Keep, Cancelled, Pool, Active
<1>2. AgentsTypeOK'
  <2>1. task' \in [Ids -> [state : States \cup {"none"}, generation : 0..MaxChanges]]
    <3> DEFINE R == [state : States \cup {"none"}, generation : 0..MaxChanges]
    <3>1. ASSUME NEW j \in Ids PROVE task'[j] \in R
      <4>1. task[j] \in R
        BY DEF AgentsTypeOK
      <4>2. \A s \in States : [task[j] EXCEPT !.state = s] \in R
        BY <4>1
      <4>3. {"cancelled", "cancelling"} \subseteq States
        BY DEF States
      <4> QED
        BY <1>1, <4>1, <4>2, <4>3
    <3>2. task' = [j \in Ids |-> task'[j]]
      BY DEF Cancel, Keep, Cancelled, Pool
    <3> QED
      BY <3>1, <3>2
  <2> QED
    BY <1>1, <2>1 DEF AgentsTypeOK, Cancel
<1>3. \A j \in Ids : /\ task'[j].state \in Active <=> task[j].state \in Active
                     /\ task'[j].state = "none" <=> task[j].state = "none"
                     /\ task'[j].state = "queued" => task[j].state = "queued"
                     /\ task[j].state \notin Active \cup {"queued"} => task'[j] = task[j]
                     /\ j \in S /\ task[j].state \in Active \cup {"queued"} =>
                          task'[j].state \in {"cancelling", "cancelled"}
                     /\ task[j].state = "cancelling" => task'[j].state = "cancelling"
  <2> TAKE j \in Ids
  <2>1. task[j] \in [state : States \cup {"none"}, generation : 0..MaxChanges]
    BY DEF AgentsTypeOK
  <2> QED
    BY <1>1, <2>1 DEF Active
<1>4. RecordsInv'
  BY <1>1, <1>3 DEF RecordsInv, Cancel
<1>5. PlacesInv'
  <2>1. InState(task', Active) = InState(task, Active)
    BY <1>3 DEF InState
  <2>2. Queued(Pool)' \subseteq Queued(Pool)
    BY <1>1, <1>3 DEF Queued, Pool, AgentsTypeOK
  <2> QED
    BY <2>1, <2>2 DEF PlacesInv, Full, Pool
<1>6. SilenceInv'
  <2>1. S \cap InState(task, Active \cup {"queued"}) \subseteq order
    BY DEF InState, RecordsInv, Active
  <2>2. \A j \in S \cap InState(task, Active \cup {"queued"}) :
          j \notin draft /\ task'[j].state \in {"cancelling", "cancelled"}
    BY <1>3 DEF InState, SilenceInv, Active
  <2> QED
    BY <1>1, <1>3, <2>1, <2>2 DEF SilenceInv, RecordsInv, AgentsTypeOK, Cancel, Active
<1> QED
  BY <1>2, <1>4, <1>5, <1>6

\* Steps that leave the pool alone.
LEMMA QuietKeeps ==
  ASSUME AgentAssumption, AgentsInv, NEW i \in Ids,
         \/ appendBackgroundAgentResult(i) \/ ReadSnapshot(i) \/ SnapshotFails(i)
         \/ backgroundAgent(i) \/ TimesOut(i)
  PROVE  AgentsInv'
<1> USE DEF AgentsInv, appendBackgroundAgentResult, ReadSnapshot,
            SnapshotFails, backgroundAgent, Returns, TimesOut
<1>1. AgentsTypeOK'
  BY DEF AgentsTypeOK, Work, Results, AgentAssumption
<1>2. RecordsInv'
  BY DEF RecordsInv, AgentsTypeOK
<1>3. PlacesInv'
  BY DEF PlacesInv, Full, Queued, Pool, InState
<1>4. SilenceInv'
  BY DEF SilenceInv, RecordsInv
<1> QED
  BY <1>1, <1>2, <1>3, <1>4

LEMMA CmdAgentKeeps == ASSUME AgentAssumption, AgentsInv, cmdAgent PROVE AgentsInv'
<1>1. PICK t : t = Trim(Pool, MaxRetained - 1)
  OBVIOUS
<1>2. /\ t \in Pools /\ t.order \subseteq order
      /\ \A j \in Ids : \/ t.task[j] = task[j] /\ (j \in t.order <=> j \in order)
                        \/ /\ task[j].state \in Terminal /\ t.task[j] = NoTask
                           /\ j \notin t.order
  <2>1. Pool.order = order /\ Pool.task = task /\ order \subseteq Ids
        /\ task \in [Ids -> [state : States \cup {"none"}, generation : 0..MaxChanges]]
    BY DEF AgentsInv, AgentsTypeOK, Pool
  <2>2. t \in Pools
    BY <1>1, <2>1 DEF Trim, Pools, NoTask, AgentAssumption
  <2> QED
    BY <1>1, <2>1, <2>2, TrimKeeps
<1>3. \A j \in Ids : /\ t.task[j].state \in Active <=> task[j].state \in Active
                     /\ t.task[j].state = "queued" <=> task[j].state = "queued"
                     /\ j \in t.order <=> t.task[j].state # "none"
                     /\ t.task[j].state \in {task[j].state, "none"}
  BY <1>2 DEF AgentsInv, RecordsInv, Active, Terminal, NoTask
<1>4. InState(t.task, Active) = InState(task, Active) /\ Queued(t) = Queued(Pool)
  <2>1. Queued(t) = {j \in t.order : t.task[j].state = "queued"}
        /\ Queued(Pool) = {j \in order : task[j].state = "queued"}
        /\ t.order \subseteq Ids /\ order \subseteq Ids
    BY <1>2 DEF Queued, Pool, AgentsInv, AgentsTypeOK
  <2>2. \A j \in Ids : task[j].state = "queued" => j \in order /\ j \in t.order
    BY <1>3 DEF AgentsInv, RecordsInv
  <2>3. Queued(t) = Queued(Pool)
    BY <1>3, <2>1, <2>2
  <2> QED
    BY <1>3, <2>3 DEF InState
<1>5. CASE Cardinality(t.order) >= MaxRetained
  <2>1. /\ order' = t.order /\ task' = t.task
        /\ UNCHANGED <<next, work, ended, returned, session, quitting, draft, refused>>
    BY <1>1, <1>5 DEF cmdAgent, Keep
  <2>2. AgentsTypeOK'
    BY <1>2, <2>1 DEF AgentsInv, AgentsTypeOK, Pools
  <2>3. RecordsInv'
    BY <1>2, <1>3, <2>1 DEF AgentsInv, RecordsInv
  <2>4. PlacesInv'
    BY <1>4, <2>1 DEF AgentsInv, PlacesInv, Full, Pool, Queued
  <2>5. SilenceInv'
    BY <1>3, <2>1 DEF AgentsInv, AgentsTypeOK, SilenceInv
  <2> QED
    BY <2>2, <2>3, <2>4, <2>5 DEF AgentsInv
<1>6. CASE ~(Cardinality(t.order) >= MaxRetained)
  <2>1. PICK i : i = next + 1
    OBVIOUS
  <2>2. PICK p : p = [order |-> t.order \cup {i},
                      task |-> [t.task EXCEPT ![i] = [state |-> "queued", generation |-> session]]]
    OBVIOUS
  <2>3. PICK first \in Scopes :
          /\ next' = i /\ order' = Dispatched(p).order /\ task' = Dispatched(p).task
          /\ work' = [j \in Ids |-> IF j \in Starting(p) THEN first ELSE work[j]]
          /\ UNCHANGED <<ended, returned, session, quitting, draft, refused>>
    BY <1>1, <1>6, <2>1, <2>2 DEF cmdAgent, Keep, Launch
  <2>4. i \in Ids /\ i \notin 1..next /\ i \notin order /\ i \notin t.order
        /\ task[i].state = "none" /\ next \in Nat /\ 1..i = 1..next \cup {i}
    <3>1. i \in Ids /\ i \notin 1..next /\ next \in Nat /\ 1..i = 1..next \cup {i}
      BY <2>1 DEF cmdAgent, AgentsInv, AgentsTypeOK, Ids, AgentAssumption
    <3> QED
      BY <1>2, <3>1 DEF AgentsInv, RecordsInv
  <2>5. p \in Pools
    BY <1>2, <2>2, <2>4 DEF Pools, States, AgentsInv, AgentsTypeOK, AgentAssumption
  <2>6. /\ p.order = t.order \cup {i} /\ p.task[i].state = "queued"
        /\ \A j \in Ids : j # i => p.task[j] = t.task[j]
    BY <1>2, <2>2, <2>4 DEF Pools
  <2>7. InState(p.task, Active) = InState(task, Active)
    BY <1>3, <2>4, <2>6 DEF InState, Active
  <2>8. Queued(p) = Queued(Pool) \cup {i}
    BY <1>2, <1>4, <2>4, <2>6 DEF Queued, Pools
  <2>9. /\ Cardinality(InState(task, Active)) \in Nat /\ MaxActive \in Nat
        /\ Cardinality(InState(task, Active)) <= MaxActive
        /\ Queued(Pool) # {} => Cardinality(InState(task, Active)) = MaxActive
    BY AgentsAreFinite DEF AgentsInv, PlacesInv, Full, Pool, AgentAssumption
  <2>10. Full(Dispatched(p))
    <3>1. CASE Queued(Pool) = {}
      <4>1. \A j, k \in Queued(p) : j = k
        BY <2>8, <3>1
      <4> QED
        BY <2>5, <2>7, <2>9, <4>1, DispatchFills
    <3>2. CASE Queued(Pool) # {}
      BY <2>5, <2>7, <2>9, <3>2, DispatchFills
    <3> QED
      BY <3>1, <3>2
  <2>11. PlacesInv'
    BY <2>3, <2>10 DEF PlacesInv, Full, Pool, Queued
  <2>12. /\ Dispatched(p) \in Pools /\ order' = p.order
         /\ \A j \in Ids :
              \/ j \notin Starting(p) /\ task'[j] = p.task[j]
              \/ /\ j \in Starting(p) /\ p.task[j].state = "queued"
                 /\ task'[j] = [p.task[j] EXCEPT !.state = "working"]
    <3>1. /\ Dispatched(p) \in Pools /\ order' = p.order
          /\ \/ Starting(p) = {} /\ task' = p.task
             \/ \E h \in Queued(p) : /\ Starting(p) = {h} /\ h \in Ids
                                    /\ task' = [p.task EXCEPT ![h].state = "working"]
      BY <2>3, <2>5, DispatchCases
    <3>2. ASSUME NEW h \in Queued(p), Starting(p) = {h}, h \in Ids, NEW j \in Ids,
                 task' = [p.task EXCEPT ![h].state = "working"]
          PROVE  \/ j \notin Starting(p) /\ task'[j] = p.task[j]
                 \/ /\ j \in Starting(p) /\ p.task[j].state = "queued"
                    /\ task'[j] = [p.task[j] EXCEPT !.state = "working"]
      BY <2>5, <3>2 DEF Pools, Queued
    <3> QED
      BY <3>1, <3>2
  <2>13. AgentsTypeOK'
    <3>1. order' \subseteq Ids
          /\ task' \in [Ids -> [state : States \cup {"none"}, generation : 0..MaxChanges]]
      BY <2>3, <2>12 DEF Pools
    <3>2. work' \in [Ids -> Work]
      BY <2>3 DEF AgentsInv, AgentsTypeOK, Scopes, Work
    <3>3. next' \in 0..MaxAgents
      BY <2>3, <2>4 DEF Ids
    <3> QED
      BY <2>3, <3>1, <3>2, <3>3 DEF AgentsInv, AgentsTypeOK
  <2>14. \A j \in Ids : /\ task'[j].state # "none" <=> j \in t.order \cup {i}
                        /\ j \notin Starting(p) /\ j # i => task'[j].state = t.task[j].state
                        /\ j \in Starting(p) => task'[j].state = "working"
                        /\ j \in Starting(p) /\ j # i => task[j].state = "queued"
                        /\ j \notin Starting(p) /\ j = i => task'[j].state = "queued"
    <3> TAKE j \in Ids
    <3>1. p.task[j] \in [state : States \cup {"none"}, generation : 0..MaxChanges]
      BY <2>5 DEF Pools
    <3>2. \/ j \notin Starting(p) /\ task'[j].state = p.task[j].state
          \/ j \in Starting(p) /\ p.task[j].state = "queued" /\ task'[j].state = "working"
      BY <2>12, <3>1
    <3>3. CASE j = i
      BY <2>6, <3>2, <3>3
    <3>4. CASE j # i
      BY <1>3, <2>6, <3>2, <3>4
    <3> QED
      BY <3>2, <3>3, <3>4
  <2>15. RecordsInv'
    <3>1. order' \subseteq 1..next'
      BY <1>2, <2>3, <2>4, <2>6, <2>12 DEF AgentsInv, RecordsInv
    <3>2. ASSUME NEW j \in Ids PROVE j \in order' <=> task'[j].state # "none"
      BY <2>6, <2>12, <2>14
    <3>3. ASSUME NEW j \in Ids PROVE work'[j] # "none" <=> task'[j].state \in Active
      <4>1. work[j] # "none" <=> task[j].state \in Active
        BY DEF AgentsInv, RecordsInv
      <4>2. CASE j \in Starting(p)
        BY <2>3, <2>14, <4>2 DEF Scopes, Active
      <4>3. CASE j \notin Starting(p) /\ j # i
        BY <1>3, <2>3, <2>14, <4>1, <4>3
      <4>4. CASE j \notin Starting(p) /\ j = i
        BY <2>3, <2>4, <2>14, <4>1, <4>4 DEF Active
      <4> QED
        BY <4>2, <4>3, <4>4
    <3> QED
      BY <3>1, <3>2, <3>3 DEF RecordsInv
  <2>16. SilenceInv'
    <3>1. refused \subseteq Ids /\ draft \subseteq Ids /\ i \notin refused /\ i \notin draft
      BY <2>4 DEF AgentsInv, AgentsTypeOK, SilenceInv
    <3>2. \A j \in Ids : j # i /\ task[j].state # "queued" =>
            task'[j].state \in {task[j].state, "none"}
      BY <1>3, <2>14
    <3> QED
      BY <2>3, <2>4, <3>1, <3>2 DEF AgentsInv, SilenceInv
  <2> QED
    BY <2>11, <2>13, <2>15, <2>16 DEF AgentsInv
<1> QED
  BY <1>5, <1>6

LEMMA FinishKeeps ==
  ASSUME AgentAssumption, AgentsInv, NEW i \in Ids, finishBackgroundAgent(i)
  PROVE  AgentsInv'
<1>1. PICK s : s = SetState(Pool, i, Outcome(i))
  OBVIOUS
<1>2. PICK p : p = Trim(s, MaxRetained)
  OBVIOUS
<1>3. PICK first \in Scopes :
        /\ order' = Dispatched(p).order /\ task' = Dispatched(p).task
        /\ work' = [j \in Ids |-> IF j = i THEN "none"
                                  ELSE IF task'[j].state = "working"
                                          /\ task[j].state = "queued" THEN first
                                  ELSE work[j]]
        /\ ended' = ended \cup {i}
        /\ UNCHANGED <<next, returned, session, quitting, draft, refused>>
        /\ task[i].state \in Active
  BY <1>1, <1>2 DEF finishBackgroundAgent, AfterSettling, Keep
<1>4. /\ Outcome(i) \in Terminal
      /\ task[i].state = "cancelling" => Outcome(i) = "cancelled"
  BY DEF Outcome, Terminal
<1>5. /\ s.order = order /\ s \in Pools /\ s.task = [task EXCEPT ![i].state = Outcome(i)]
      /\ order \subseteq Ids
      /\ task \in [Ids -> [state : States \cup {"none"}, generation : 0..MaxChanges]]
  BY <1>1, <1>4 DEF SetState, Pool, Pools, AgentsInv, AgentsTypeOK, States, Terminal
<1>6. /\ p \in Pools /\ p.order \subseteq order
      /\ \A j \in Ids : \/ p.task[j] = s.task[j] /\ (j \in p.order <=> j \in order)
                        \/ /\ s.task[j].state \in Terminal /\ p.task[j] = NoTask
                           /\ j \notin p.order
  <2>1. p \in Pools
    BY <1>2, <1>5 DEF Trim, Pools, NoTask, AgentAssumption
  <2>2. s.order \subseteq Ids
    BY <1>5
  <2>3. /\ p.order \subseteq s.order
        /\ \A j \in Ids : \/ p.task[j] = s.task[j] /\ (j \in p.order <=> j \in s.order)
                          \/ /\ s.task[j].state \in Terminal /\ p.task[j] = NoTask
                             /\ j \notin p.order
    BY ONLY <1>2, <2>2, TrimKeeps
  <2>4. s.order = order
    BY <1>5
  <2> QED
    BY ONLY <2>1, <2>3, <2>4
<1>7. /\ p.task[i].state \in {Outcome(i), "none"}
      /\ \A j \in Ids : j # i =>
           /\ p.task[j].state \in Active <=> task[j].state \in Active
           /\ p.task[j].state = "queued" <=> task[j].state = "queued"
           /\ p.task[j].state \in {task[j].state, "none"}
      /\ \A j \in Ids : j \in p.order <=> p.task[j].state # "none"
  <2>1. i \in order /\ s.task[i].state = Outcome(i)
        /\ \A j \in Ids : j # i => s.task[j] = task[j]
    BY <1>3, <1>5 DEF AgentsInv, RecordsInv, Active
  <2>2. NoTask.state = "none" /\ "none" \notin Terminal
        /\ Active \cap Terminal = {} /\ "queued" \notin Terminal /\ "none" \notin Active
    BY DEF NoTask, Terminal, Active
  <2>3. \A j \in Ids : j \in order <=> task[j].state # "none"
    BY DEF AgentsInv, RecordsInv
  <2>4. ASSUME NEW j \in Ids
        PROVE  /\ j \in p.order <=> p.task[j].state # "none"
               /\ p.task[j].state \in {s.task[j].state, "none"}
               /\ p.task[j].state = s.task[j].state \/ s.task[j].state \in Terminal
    <3>1. s.task[j].state = "none" <=> task[j].state = "none"
      BY <1>4, <2>1, <2>2, <2>3
    <3> QED
      BY <1>6, <2>2, <2>3, <3>1
  <2>5. ASSUME NEW j \in Ids, j # i
        PROVE  /\ p.task[j].state \in Active <=> task[j].state \in Active
               /\ p.task[j].state = "queued" <=> task[j].state = "queued"
               /\ p.task[j].state \in {task[j].state, "none"}
    <3>1. s.task[j].state = task[j].state
      BY <2>1, <2>5
    <3> QED
      BY <2>2, <2>4, <3>1 DEF Active, Terminal
  <2>6. p.task[i].state \in {Outcome(i), "none"}
    BY <2>1, <2>4
  <2>7. \A j \in Ids : j \in p.order <=> p.task[j].state # "none"
    BY <2>4
  <2> QED
    BY <2>5, <2>6, <2>7
<1>8. InState(p.task, Active) = InState(task, Active) \ {i} /\ i \in InState(task, Active)
  <2>1. p.task[i].state \notin Active
    BY <1>4, <1>7 DEF Active, Terminal
  <2> QED
    BY <1>3, <1>7, <2>1 DEF InState
<1>9. Queued(p) = Queued(Pool)
  <2>1. Queued(p) = {j \in p.order : p.task[j].state = "queued"}
        /\ Queued(Pool) = {j \in order : task[j].state = "queued"}
        /\ p.order \subseteq Ids
    BY <1>5, <1>6 DEF Queued, Pool
  <2>2. p.task[i].state # "queued" /\ task[i].state # "queued"
    BY <1>3, <1>4, <1>7 DEF Active, Terminal
  <2>3. \A j \in Ids : task[j].state = "queued" => j \in order
    BY DEF AgentsInv, RecordsInv
  <2> QED
    BY <1>5, <1>7, <2>1, <2>2, <2>3
<1>10. /\ Cardinality(InState(task, Active)) \in Nat /\ MaxActive \in Nat
       /\ IsFiniteSet(InState(task, Active))
       /\ Cardinality(InState(task, Active)) <= MaxActive
       /\ Queued(Pool) # {} => Cardinality(InState(task, Active)) = MaxActive
       /\ Cardinality(InState(p.task, Active)) = Cardinality(InState(task, Active)) - 1
  <2>1. IsFiniteSet(InState(task, Active)) /\ Cardinality(InState(task, Active)) \in Nat
    BY AgentsAreFinite
  <2>2. Cardinality(InState(p.task, Active)) = Cardinality(InState(task, Active)) - 1
    BY <1>8, <2>1, FS_RemoveElement
  <2> QED
    BY <2>1, <2>2 DEF AgentsInv, PlacesInv, Full, Pool, AgentAssumption
<1>11. PlacesInv'
  <2>1. Full(Dispatched(p))
    <3>1. CASE Queued(Pool) = {}
      <4>1. \A j, k \in Queued(p) : j = k
        BY <1>9, <3>1
      <4> QED
        BY <1>6, <1>10, <4>1, DispatchFills
    <3>2. CASE Queued(Pool) # {}
      BY <1>6, <1>10, <3>2, DispatchFills
    <3> QED
      BY <3>1, <3>2
  <2> QED
    BY <1>3, <2>1 DEF PlacesInv, Full, Pool, Queued
<1>12. /\ Dispatched(p) \in Pools /\ order' = p.order
       /\ \A j \in Ids : \/ task'[j] = p.task[j]
                         \/ /\ p.task[j].state = "queued" /\ task'[j].state = "working"
  <2>1. /\ Dispatched(p) \in Pools /\ order' = p.order
        /\ \/ task' = p.task
           \/ \E h \in Queued(p) : /\ h \in Ids
                                  /\ task' = [p.task EXCEPT ![h].state = "working"]
    BY <1>3, <1>6, DispatchCases
  <2>2. ASSUME NEW h \in Queued(p), h \in Ids, NEW j \in Ids,
               task' = [p.task EXCEPT ![h].state = "working"]
        PROVE  \/ task'[j] = p.task[j]
               \/ p.task[j].state = "queued" /\ task'[j].state = "working"
    BY <1>6, <2>2 DEF Pools, Queued
  <2> QED
    BY <2>1, <2>2
<1>13. AgentsTypeOK'
  <2>1. order' \subseteq Ids
        /\ task' \in [Ids -> [state : States \cup {"none"}, generation : 0..MaxChanges]]
    BY <1>3, <1>12 DEF Pools
  <2>2. work' \in [Ids -> Work]
    BY <1>3 DEF AgentsInv, AgentsTypeOK, Scopes, Work
  <2> QED
    BY <1>3, <2>1, <2>2 DEF AgentsInv, AgentsTypeOK
<1>14. RecordsInv'
  <2>1. order' \subseteq 1..next'
    BY <1>3, <1>6, <1>12 DEF AgentsInv, RecordsInv
  <2>2. ASSUME NEW j \in Ids PROVE j \in order' <=> task'[j].state # "none"
    BY <1>7, <1>12
  <2>3. ASSUME NEW j \in Ids PROVE work'[j] # "none" <=> task'[j].state \in Active
    <3>1. CASE j = i
      BY <1>3, <1>4, <1>7, <1>12, <3>1 DEF Active, Terminal
    <3>2. CASE j # i
      <4>1. work[j] # "none" <=> task[j].state \in Active
        BY DEF AgentsInv, RecordsInv
      <4>2. CASE task[j].state = "queued" /\ task'[j].state = "working"
        BY <1>3, <3>2, <4>2 DEF Scopes, Active
      <4>3. CASE ~(task[j].state = "queued" /\ task'[j].state = "working")
        BY <1>3, <1>7, <1>12, <3>2, <4>1, <4>3
      <4> QED
        BY <4>2, <4>3
    <3> QED
      BY <3>1, <3>2
  <2> QED
    BY <2>1, <2>2, <2>3 DEF RecordsInv
<1>15. SilenceInv'
  <2>1. refused \subseteq Ids /\ draft \subseteq Ids
    BY DEF AgentsInv, AgentsTypeOK
  <2>2. \A j \in Ids : j # i /\ task[j].state # "queued" =>
          task'[j].state \in {task[j].state, "none"}
    BY <1>7, <1>12
  <2>3. task'[i].state \in {Outcome(i), "none"} /\ i \notin draft
    BY <1>3, <1>4, <1>7, <1>12 DEF AgentsInv, SilenceInv, Active, Terminal
  <2> QED
    BY <1>3, <1>4, <2>1, <2>2, <2>3 DEF AgentsInv, SilenceInv, Active
<1> QED
  BY <1>11, <1>13, <1>14, <1>15 DEF AgentsInv

LEMMA AgentsStep ==
  ASSUME AgentAssumption PROVE AgentsInv /\ [AgentsNext]_avars => AgentsInv'
<1> SUFFICES ASSUME AgentsInv, [AgentsNext]_avars PROVE AgentsInv'
  OBVIOUS
<1>1. order \subseteq Ids /\ quitting \in BOOLEAN
  BY DEF AgentsInv, AgentsTypeOK
<1>2. CASE cmdAgent
  BY <1>2, CmdAgentKeeps
<1>3. CASE cancelAllBackgroundAgents \/ Quit
  BY <1>1, <1>3, CancelKeeps DEF cancelAllBackgroundAgents, Quit
<1>4. CASE UNCHANGED avars
  <2>1. AgentsTypeOK' /\ RecordsInv' /\ SilenceInv'
    BY <1>4 DEF avars, AgentsInv, AgentsTypeOK, RecordsInv, SilenceInv
  <2>2. PlacesInv'
    BY <1>4 DEF avars, AgentsInv, PlacesInv, Full, Pool, Queued
  <2> QED
    BY <2>1, <2>2 DEF AgentsInv
<1>5. CASE leaveSession
  <2>1. AgentsTypeOK' /\ RecordsInv' /\ SilenceInv'
    BY <1>5 DEF leaveSession, AgentsInv, AgentsTypeOK, RecordsInv, SilenceInv, AgentAssumption
  <2>2. PlacesInv'
    BY <1>5 DEF leaveSession, AgentsInv, PlacesInv, Full, Pool, Queued
  <2> QED
    BY <2>1, <2>2 DEF AgentsInv
<1>6. ASSUME NEW i \in Ids, CancelOne(i) PROVE AgentsInv'
  BY <1>1, <1>6, CancelKeeps DEF CancelOne
<1>7. ASSUME NEW i \in Ids,
             \/ appendBackgroundAgentResult(i) \/ ReadSnapshot(i) \/ SnapshotFails(i)
             \/ backgroundAgent(i) \/ TimesOut(i)
      PROVE  AgentsInv'
  BY <1>7, QuietKeeps
<1>8. ASSUME NEW i \in Ids, finishBackgroundAgent(i) PROVE AgentsInv'
  BY <1>8, FinishKeeps
<1> QED
  BY <1>2, <1>3, <1>4, <1>5, <1>6, <1>7, <1>8 DEF AgentsNext, Stopped

(* No more agents work than may, none waits beside a free place, no record *)
(* of a goroutine at work is dropped, and a cancelled agent stays silent,  *)
(* for any number of agents, places, records kept and changes of session.  *)
THEOREM AgentsInOrder == ASSUME AgentAssumption PROVE AgentsSpec => []AgentsKeepOrder
<1>1. ASSUME AgentsInv PROVE AgentsKeepOrder
  <2>1. {i \in Ids : work[i] # "none"} = InState(task, Active)
    BY <1>1 DEF AgentsInv, RecordsInv, InState
  <2>2. PlacesAreUsed
    BY <1>1, <2>1 DEF AgentsInv, RecordsInv, PlacesInv, Full, Pool, PlacesAreUsed
  <2>3. CancelledStaysSilent
    BY <1>1 DEF AgentsInv, SilenceInv, CancelledStaysSilent
  <2> QED
    BY <2>2, <2>3 DEF AgentsKeepOrder
<1> QED
  BY <1>1, AgentsBegin, AgentsStep, PTL DEF AgentsSpec

(* The state of the background agents keeps its types. *)
THEOREM AgentsTypes == ASSUME AgentAssumption PROVE AgentsSpec => []AgentsTypeOK
<1>1. AgentsInv => AgentsTypeOK
  BY DEF AgentsInv
<1> QED
  BY <1>1, AgentsBegin, AgentsStep, PTL DEF AgentsSpec
=============================================================================
