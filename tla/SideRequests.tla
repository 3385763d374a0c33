---------------------------- MODULE SideRequests ----------------------------
(***************************************************************************)
(* Side questions (/btw) and reviews (/review) of internal/tui: requests   *)
(* answered beside the conversation by goroutines, whose late messages     *)
(* must not reach the session the user has moved on to, while the gates    *)
(* they hold (a fork, the pickers and the permission mode wait for side    *)
(* questions) must open again.                                             *)
(*                                                                         *)
(* A definition marked "Fault" is a plausible bug in the one after it and  *)
(* used by no action.                                                      *)
(***************************************************************************)
EXTENDS Naturals, FiniteSets

CONSTANTS MaxRequests,  \* bound on the requests of each kind
          MaxSessions   \* bound on the sessions opened one after the other

RequestAssumption == MaxRequests \in Nat /\ MaxSessions \in Nat \ {0}

Kinds == {"side", "review"}
Requests == Kinds \X (1..MaxRequests)
NoSession == 0

VARIABLES
  generation,    \* sessionGeneration of the session shown
  busy,          \* a turn runs (modeBusy)
  nextID,        \* sideQuestionNextID and reviewNextID
  pending,       \* sideQuestionPending
  sideQuestions, \* the count the gates read
  reviewing,     \* reviewInFlight
  asked,         \* each request: the session shown when it was asked
  about,         \* the session its goroutine took
  phase,         \* where its goroutine is
  shown          \* requests whose answer the transcript shows

svars == <<generation, busy, nextID, pending, sideQuestions, reviewing, asked,
           about, phase, shown>>

TypeOK ==
  /\ generation \in 1..MaxSessions /\ busy \in BOOLEAN /\ reviewing \in BOOLEAN
  /\ nextID \in [Kinds -> 0..MaxRequests]
  /\ pending \subseteq 1..MaxRequests /\ sideQuestions \in 0..MaxRequests
  /\ asked \in [Requests -> 0..MaxSessions] /\ about \in [Requests -> 0..MaxSessions]
  /\ phase \in [Requests -> {"none", "started", "asking", "done", "read"}]
  /\ shown \subseteq Requests

Init ==
  /\ generation = 1 /\ busy = FALSE /\ reviewing = FALSE
  /\ nextID = [k \in Kinds |-> 0] /\ pending = {} /\ sideQuestions = 0
  /\ asked = [r \in Requests |-> NoSession] /\ about = [r \in Requests |-> NoSession]
  /\ phase = [r \in Requests |-> "none"] /\ shown = {}

(* Begin: cmdSideQuestion in any mode; cmdReview only when idle, alone and *)
(* with no side question open.  A review takes its session at once.        *)
beginSideQuestion(n) ==
  pending' = pending \cup {n} /\ sideQuestions' = sideQuestions + 1
cmdSideQuestion ==
  LET n == nextID["side"] + 1 IN
  /\ n <= MaxRequests
  /\ nextID' = [nextID EXCEPT !["side"] = n]
  /\ beginSideQuestion(n)
  /\ asked' = [asked EXCEPT ![<<"side", n>>] = generation]
  /\ phase' = [phase EXCEPT ![<<"side", n>>] = "started"]
  /\ UNCHANGED <<generation, busy, reviewing, about, shown>>
cmdReview ==
  LET n == nextID["review"] + 1
      r == <<"review", n>> IN
  /\ n <= MaxRequests /\ ~busy /\ sideQuestions = 0 /\ ~reviewing
  /\ nextID' = [nextID EXCEPT !["review"] = n]
  /\ reviewing' = TRUE
  /\ asked' = [asked EXCEPT ![r] = generation]
  /\ about' = [about EXCEPT ![r] = generation]
  /\ phase' = [phase EXCEPT ![r] = "asking"]
  /\ UNCHANGED <<generation, busy, pending, sideQuestions, shown>>

(* The goroutine of a side question takes the session when it starts,      *)
(* which may be after a change of session.                                 *)
ResolveSession(r) ==
  /\ phase[r] = "started"
  /\ about' = [about EXCEPT ![r] = generation]
  /\ phase' = [phase EXCEPT ![r] = "asking"]
  /\ UNCHANGED <<generation, busy, nextID, pending, sideQuestions, reviewing, asked, shown>>
(* The diff, the model call: an answer or an error. *)
Answer(r) ==
  /\ phase[r] = "asking"
  /\ phase' = [phase EXCEPT ![r] = "done"]
  /\ UNCHANGED <<generation, busy, nextID, pending, sideQuestions, reviewing, asked, about, shown>>

ShowIf(r, condition) == shown' = IF condition THEN shown \cup {r} ELSE shown
(* A result settles its own request, once. *)
discardSideQuestion(n) ==
  /\ pending' = pending \ {n}
  /\ sideQuestions' = IF n \in pending /\ sideQuestions > 0
                      THEN sideQuestions - 1 ELSE sideQuestions
sideQuestionDone(r) ==
  /\ r[1] = "side" /\ phase[r] = "done"
  /\ phase' = [phase EXCEPT ![r] = "read"]
  /\ discardSideQuestion(r[2])
  /\ ShowIf(r, r[2] \in pending /\ about[r] = generation)
  /\ UNCHANGED <<generation, busy, nextID, reviewing, asked, about>>
IsOpenReview(r) == reviewing /\ r[2] = nextID["review"]
reviewDone(r) ==
  /\ r[1] = "review" /\ phase[r] = "done"
  /\ phase' = [phase EXCEPT ![r] = "read"]
  /\ reviewing' = (reviewing /\ ~IsOpenReview(r))
  /\ ShowIf(r, IsOpenReview(r) /\ about[r] = generation)
  /\ UNCHANGED <<generation, busy, nextID, pending, sideQuestions, asked, about>>

(* Fault: only the count is reset. *)
OpenAfterResetKept == pending
(* resetSessionTransientState: what is open belongs to the old session. *)
OpenAfterReset == {}
(* /new, /clear, /resume and a fork replace the session; the fork waits    *)
(* for side questions, the others do not.  The transcript is seeded anew.  *)
replaceSession ==
  /\ generation < MaxSessions /\ ~busy
  /\ generation' = generation + 1
  /\ pending' = OpenAfterReset /\ sideQuestions' = 0 /\ reviewing' = FALSE
  /\ shown' = {}
  /\ UNCHANGED <<busy, nextID, asked, about, phase>>

(* A turn starts and ends beside the requests. *)
StartTurn == ~busy /\ busy' = TRUE
  /\ UNCHANGED <<generation, nextID, pending, sideQuestions, reviewing, asked, about, phase, shown>>
EndTurn == busy /\ busy' = FALSE
  /\ UNCHANGED <<generation, nextID, pending, sideQuestions, reviewing, asked, about, phase, shown>>

Next ==
  \/ cmdSideQuestion \/ cmdReview \/ replaceSession \/ StartTurn \/ EndTurn
  \/ \E r \in Requests :
       ResolveSession(r) \/ Answer(r) \/ sideQuestionDone(r) \/ reviewDone(r)
Spec == Init /\ [][Next]_svars

-----------------------------------------------------------------------------
(* What the transcript shows was asked in the session it shows and         *)
(* answered from that session, however late the goroutine started or       *)
(* returned; and the gate counts the requests that are really open.        *)
ShownInItsSession ==
  /\ \A r \in shown : asked[r] = generation /\ about[r] = generation
  /\ sideQuestions = Cardinality(pending)
  /\ \A n \in pending : phase[<<"side", n>>] \in {"started", "asking", "done"}
  /\ reviewing => phase[<<"review", nextID["review"]>>] \in {"asking", "done"}
=============================================================================
