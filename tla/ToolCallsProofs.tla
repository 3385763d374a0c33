-------------------------- MODULE ToolCallsProofs --------------------------
(***************************************************************************)
(* Tool calls, from the question whether one may run to what it leaves.    *)
(*                                                                         *)
(* Approvals: answers are honoured for any number of calls, any requests   *)
(* and any configured mode: prompts are awaited, a call runs on its own    *)
(* grounds, plan mode only reads, denials are the user's, and only an MCP  *)
(* call in auto runs against one.  None of these is inductive.  What       *)
(* carries them is how the bridge and the interface talk: requests are     *)
(* posted one at a time, each is followed in the mail by its withdrawal if *)
(* its call gave up, and what the user has said about a call is never said *)
(* again.                                                                  *)
(*                                                                         *)
(* Commands: when a call has its result its shell has ended and nobody in  *)
(* the shell's group holds its output, and under bubblewrap nothing of it  *)
(* is left, for any grace.  What carries it is the time that two           *)
(* supervisors have left: as long as the shell is up, the outer one waits  *)
(* longer than the inner one still takes to stop it.                       *)
(*                                                                         *)
(* Patches: what the operations checked so far leave is a function of what *)
(* they write (Left), staged while a call checks and in the files while it *)
(* makes them.                                                             *)
(*                                                                         *)
(* Command rules: a starter file is whole before it has its name, so that  *)
(* what a process has read is what the files say now; more rules make a    *)
(* verdict on bare words stricter only.                                    *)
(*                                                                         *)
(* The sandbox: workspace, temporary directory and worker lie apart, so    *)
(* that one layer of a view decides about each place.                      *)
(***************************************************************************)
EXTENDS Approvals, CommandRun, WorkspaceEdits, ShellPolicy, SandboxPolicy, SequenceTheorems,
        WellFoundedInduction, TLAPS

Where == {"unused", "judging", "asking", "queued", "locked", "waiting", "replied", "running",
          "denied", "done"}
AnyRequest ==
  Requests \cup {NoRequest} \cup {[r EXCEPT !.tool = "shell"] : r \in Requests}
CallRecord ==
  [at : Where, request : AnyRequest, mode : Modes, reply : Replies \cup {"none"}]
Mail == [kind : {"request", "cancel"}, call : Calls]

TypesInv ==
  /\ permission \in Modes /\ busy \in BOOLEAN /\ ended \in BOOLEAN /\ up \in BOOLEAN
  /\ call \in [Calls -> CallRecord]
  /\ inbox \in Seq(Mail) /\ modal \in Calls \cup {NoCall}
  /\ respond \in [Calls -> Replies \cup {"empty", "abandoned"}]
  /\ said \in [Calls -> Answers \cup {"nothing", "interrupt"}]
  /\ grounds \in [Calls -> {"none", "user", "session", "mode", "rule", "plan", "despite"}]
  /\ allows \subseteq Keys /\ denies \subseteq Keys

\* The lock's holder is the call inside the bridge.
LockInv == \A c \in Calls : serial = c <=> call[c].at \in {"locked", "waiting"}

\* No call outlives its turn, so that the mode is the one it has read.
TurnInv ==
  /\ busy \/ \A c \in Calls : Settled(c)
  /\ \A c \in Calls :
       /\ CallAt(c, "unused") => call[c].request = NoRequest
       /\ CallAt(c, "judging") =>
            call[c].mode = permission /\ (permission = "yolo" => Tool(c) # "host")
       /\ call[c].at \in {"asking", "queued", "locked", "waiting", "replied"} =>
            permission \in {"ask", "auto"} /\ call[c].request.ev # "deny"
  /\ PlanOnlyReads

Early == {"unused", "judging", "asking", "queued", "locked"}
\* The calls whose prompt may be on the screen or in the mail: the user has not
\* spoken, and nothing has answered one that still waits.
Unanswered(c) ==
  /\ call[c].at \notin Early /\ said[c] = "nothing"
  /\ CallAt(c, "waiting") => respond[c] = "empty"
Silent == {c \in Calls : Unanswered(c)}
Waiters == {c \in Calls : CallAt(c, "waiting")}

IsRequest(box, i) == i \in DOMAIN box /\ box[i].kind = "request"
WithdrawnIn(box, c, from, to) ==
  \E k \in DOMAIN box : from < k /\ k < to /\ box[k].kind = "cancel" /\ box[k].call = c

\* The mail, behind the prompt on the screen: after a request comes the
\* withdrawal of its call, and only then another request, unless its call still
\* waits.
MailIsSound(box, prompt, silent, waiters) ==
  /\ prompt # NoCall =>
       prompt \in silent /\ (prompt \in waiters \/ WithdrawnIn(box, prompt, 0, Len(box) + 1))
  /\ \A i \in DOMAIN box : IsRequest(box, i) =>
       /\ box[i].call \in silent /\ box[i].call # prompt
       /\ box[i].call \in waiters \/ WithdrawnIn(box, box[i].call, i, Len(box) + 1)
       /\ prompt # NoCall => WithdrawnIn(box, prompt, 0, i)
       /\ \A j \in DOMAIN box : i < j /\ IsRequest(box, j) =>
            box[j].call # box[i].call /\ WithdrawnIn(box, box[i].call, i, j)
MailInv ==
  /\ up \/ (inbox = <<>> /\ modal = NoCall)
  /\ MailIsSound(inbox, modal, Silent, Waiters)

\* What a call of that tool is told is what the user said.
Honest(given, word, tool) ==
  /\ given \in Replies
  /\ given \in {"once", "session"} => word = given
  /\ given = "deny" => word \in {"deny", "interrupt"}
  /\ tool = "host" => given # "session"
SaidInv ==
  \A c \in Calls :
    /\ call[c].at \in Early => said[c] = "nothing" /\ respond[c] = "empty"
    /\ CallAt(c, "waiting") /\ respond[c] # "empty" => Honest(respond[c], said[c], Tool(c))
    /\ CallAt(c, "replied") => Honest(call[c].reply, said[c], Tool(c))

\* A key is allowed on the user's word.
AllowancesInv ==
  \A k \in allows : \E o \in Calls : k \in Keysof(o) /\ said[o] = "session" /\ Tool(o) # "host"
GroundsInv == RunsOnItsOwnGrounds /\ DenialsAreTheUsers /\ AllowancesInv

IInv == TypesInv /\ LockInv /\ TurnInv /\ MailInv /\ SaidInv /\ GroundsInv

-----------------------------------------------------------------------------
(* How the calls move.                                                     *)

\* Call c goes to w and asks for what it asked; the others stay.
Moves(c, w) ==
  /\ call' \in [Calls -> CallRecord] /\ call'[c].at = w /\ call'[c].request = call[c].request
  /\ \A d \in Calls : d # c => call'[d] = call[d]

LEMMA Goes ==
  ASSUME TypesInv, NEW c \in Calls, NEW w \in Where, call' = [call EXCEPT ![c].at = w]
  PROVE  Moves(c, w) /\ call'[c].mode = call[c].mode /\ call'[c].reply = call[c].reply
BY DEF TypesInv, CallRecord, Moves

LEMMA Leaves ==
  ASSUME TypesInv, NEW c \in Calls, NEW w \in Where, Leave(c, w) PROVE Moves(c, w)
<1>1. "none" \in Replies \cup {"none"} /\ "ask" \in Modes
  BY DEF Modes
<1>2. call \in [Calls -> CallRecord] /\ call[c] \in CallRecord
  BY DEF TypesInv
<1>3. PICK q : q = [call[c] EXCEPT !.at = w, !.reply = "none", !.mode = "ask"]
  OBVIOUS
<1>4. q \in CallRecord /\ q.at = w /\ q.request = call[c].request
  BY <1>1, <1>2, <1>3 DEF CallRecord
<1>5. call' = [call EXCEPT ![c] = q]
  BY <1>2, <1>3 DEF Leave
<1> QED
  BY <1>2, <1>4, <1>5 DEF Moves

LEMMA Replied ==
  ASSUME TypesInv, NEW c \in Calls, NEW reply \in Replies, Reply(c, reply)
  PROVE  /\ Moves(c, "replied") /\ call'[c].reply = reply /\ serial' = NoCall
         /\ respond' = [respond EXCEPT ![c] = "abandoned"]
<1>1. reply \in Replies \cup {"none"} /\ "replied" \in Where
  BY DEF Where
<1> QED
  BY <1>1 DEF TypesInv, CallRecord, Moves, Reply

LEMMA Begins ==
  ASSUME ApprovalAssumption, TypesInv, NEW c \in Calls, NEW r \in Requests, Begin(c, r)
  PROVE  /\ call' \in [Calls -> CallRecord] /\ call'[c].at = "judging"
         /\ call'[c].mode = permission /\ (permission = "yolo" => call'[c].request.tool # "host")
         /\ \A d \in Calls : d # c => call'[d] = call[d]
<1>1. PICK q : q = [r EXCEPT !.tool = IF permission = "yolo" /\ @ = "host" THEN "shell" ELSE @]
  OBVIOUS
<1>2. q \in AnyRequest /\ (permission = "yolo" => q.tool # "host")
  <2>1. CASE permission = "yolo" /\ r.tool = "host"
    <3>1. q = [r EXCEPT !.tool = "shell"]
      BY <1>1, <2>1
    <3> QED
      BY <2>1, <3>1 DEF AnyRequest
  <2>2. CASE ~(permission = "yolo" /\ r.tool = "host")
    <3>1. q = [r EXCEPT !.tool = r.tool]
      BY <1>1, <2>2
    <3>2. r \in [tool : Tools, keys : (SUBSET Keys) \ {{}}, ev : {"allow", "ask", "deny"},
                 prompt : Prompts, reads : BOOLEAN]
      BY DEF ApprovalAssumption
    <3>a. q = r
      BY <3>1, <3>2
    <3> QED
      BY <2>2, <3>a DEF AnyRequest
  <2> QED
    BY <2>1, <2>2
<1>3. PICK n : n = [at |-> "judging", mode |-> permission, reply |-> "none", request |-> q]
  OBVIOUS
<1>4. call' = [call EXCEPT ![c] = n]
  BY <1>1, <1>3 DEF Begin
<1>5. n \in CallRecord
  BY <1>2, <1>3 DEF TypesInv, CallRecord, Where
<1> QED
  BY <1>2, <1>3, <1>4, <1>5 DEF TypesInv

-----------------------------------------------------------------------------
(* What a step leaves alone.                                               *)

\* Those who do not wait any more have been answered.
LEMMA SoundForMore ==
  ASSUME NEW box, NEW prompt, NEW silent, NEW waiters, MailIsSound(box, prompt, silent, waiters),
         NEW silent2, NEW waiters2, silent \subseteq silent2, silent \cap waiters \subseteq waiters2
  PROVE  MailIsSound(box, prompt, silent2, waiters2)
BY DEF MailIsSound

\* A call moves on, having been answered if it was waiting: nothing is said
\* of the mail.
LEMMA MailStays ==
  ASSUME IInv, NEW c \in Calls, UNCHANGED <<inbox, modal, up, said>>,
         \A d \in Calls : d # c => call'[d] = call[d] /\ respond'[d] = respond[d],
         call'[c].at # "waiting", call[c].at \notin Early => call'[c].at \notin Early,
         CallAt(c, "waiting") => respond[c] # "empty"
  PROVE  MailInv'
<1>1. \A x \in Silent : x \in Silent'
  <2> SUFFICES ASSUME NEW x \in Calls, Unanswered(x) PROVE Unanswered(x)'
    BY DEF Silent
  <2>1. CASE x = c
    BY <2>1 DEF Unanswered, CallAt
  <2>2. CASE x # c
    BY <2>2 DEF Unanswered, CallAt
  <2> QED
    BY <2>1, <2>2
<1>2. \A x \in Silent \cap Waiters : x \in Waiters'
  <2> SUFFICES ASSUME NEW x \in Calls, Unanswered(x), CallAt(x, "waiting")
               PROVE  CallAt(x, "waiting")'
    BY DEF Silent, Waiters
  <2>1. x # c
    BY DEF Unanswered
  <2> QED
    BY <2>1 DEF CallAt
<1>3. MailIsSound(inbox, modal, Silent, Waiters)
  BY DEF IInv, MailInv
<1>4. MailIsSound(inbox, modal, Silent', Waiters')
  BY <1>1, <1>2, <1>3, SoundForMore
<1>5. (up \/ (inbox = <<>> /\ modal = NoCall))'
  BY DEF IInv, MailInv
<1> QED
  BY <1>4, <1>5 DEF MailInv

\* The same of what was said, when only c's own answer is left to see to.
LEMMA SaidStays ==
  ASSUME IInv, NEW c \in Calls, UNCHANGED said,
         \A d \in Calls : d # c => call'[d] = call[d] /\ respond'[d] = respond[d],
         call'[c].at \in Early => call[c].at \in Early /\ respond'[c] = respond[c],
         CallAt(c, "waiting")' => respond'[c] = "empty",
         CallAt(c, "replied")' => Honest(call'[c].reply, said[c], call'[c].request.tool)
  PROVE  SaidInv'
<1>1. ASSUME NEW d \in Calls
      PROVE  /\ call'[d].at \in Early => said'[d] = "nothing" /\ respond'[d] = "empty"
             /\ call'[d].at = "waiting" /\ respond'[d] # "empty" =>
                  Honest(respond'[d], said'[d], call'[d].request.tool)
             /\ call'[d].at = "replied" =>
                  Honest(call'[d].reply, said'[d], call'[d].request.tool)
  <2>1. CASE d = c
    BY <2>1 DEF IInv, SaidInv, CallAt
  <2>2. CASE d # c
    <3>1. call'[d] = call[d] /\ respond'[d] = respond[d] /\ said'[d] = said[d]
      BY <2>2
    <3>2. /\ call[d].at = "waiting" /\ respond[d] # "empty" =>
               Honest(respond[d], said[d], call[d].request.tool)
          /\ call[d].at = "replied" => Honest(call[d].reply, said[d], call[d].request.tool)
          /\ call[d].at \in Early => said[d] = "nothing" /\ respond[d] = "empty"
      BY DEF IInv, SaidInv, CallAt, Tool
    <3> QED
      BY <3>1, <3>2
  <2> QED
    BY <2>1, <2>2
<1> QED
  BY <1>1 DEF SaidInv, CallAt, Tool

\* What runs, what is allowed and what is denied stay as they are, whatever is
\* said of calls the user has not spoken about yet.
LEMMA GroundsStay ==
  ASSUME IInv, UNCHANGED <<allows, denies>>,
         \A d \in Calls : \/ call'[d].request = call[d].request
                         \/ CallAt(d, "unused"),
         \A d \in Calls : call'[d].at \in {"running", "done"} =>
                           call[d].at \in {"running", "done"} /\ grounds'[d] = grounds[d],
         \A d \in Calls : said[d] # "nothing" => said'[d] = said[d]
  PROVE  GroundsInv'
<1>1. ASSUME NEW d \in Calls, NEW k, k \in Keysof(d)
      PROVE  Keysof(d)' = Keysof(d) /\ Tool(d)' = Tool(d)
  <2>1. ~CallAt(d, "unused")
    BY <1>1 DEF IInv, TurnInv, NoRequest, Keysof
  <2> QED
    BY <2>1 DEF Keysof, Tool
<1>2. ASSUME NEW d \in Calls, call'[d].at \in {"running", "done"}
      PROVE  /\ Keysof(d)' = Keysof(d) /\ Tool(d)' = Tool(d)
             /\ call'[d].request.ev = call[d].request.ev
             /\ call[d].at \in {"running", "done"} /\ grounds'[d] = grounds[d]
  BY <1>2 DEF Keysof, Tool, CallAt
<1>3. RunsOnItsOwnGrounds'
  <2>1. ASSUME NEW d \in Calls, call'[d].at \in {"running", "done"}
        PROVE  /\ call'[d].request.ev # "deny"
               /\ grounds'[d] = "user" => said'[d] \in {"once", "session"}
               /\ Tool(d)' = "host" => grounds'[d] = "user" /\ said'[d] = "once"
    BY <1>2, <2>1 DEF IInv, GroundsInv, RunsOnItsOwnGrounds
  <2>2. ASSUME NEW d \in Calls, call'[d].at \in {"running", "done"}, grounds'[d] = "session",
               NEW k \in Keysof(d)'
        PROVE  \E o \in Calls : k \in Keysof(o)' /\ said'[o] = "session" /\ Tool(o)' # "host"
    <3>1. k \in Keysof(d) /\ grounds[d] = "session" /\ call[d].at \in {"running", "done"}
      BY <1>2, <2>2
    <3>2. PICK o \in Calls : k \in Keysof(o) /\ said[o] = "session" /\ Tool(o) # "host"
      BY <3>1 DEF IInv, GroundsInv, RunsOnItsOwnGrounds
    <3>3. said'[o] = "session"
      BY <3>2
    <3> QED
      BY <1>1, <3>2, <3>3
  <2> QED
    BY <2>1, <2>2 DEF RunsOnItsOwnGrounds
<1>4. DenialsAreTheUsers'
  <2> SUFFICES ASSUME NEW k \in denies
               PROVE  \E d \in Calls :
                        k \in Keysof(d)' /\ (Tool(d)' = "mcp" \/ said'[d] \in {"deny", "interrupt"})
    BY DEF DenialsAreTheUsers
  <2>1. PICK d \in Calls : k \in Keysof(d) /\ (Tool(d) = "mcp" \/ said[d] \in {"deny", "interrupt"})
    BY DEF IInv, GroundsInv, DenialsAreTheUsers
  <2> QED
    BY <1>1, <2>1
<1>5. AllowancesInv'
  <2> SUFFICES ASSUME NEW k \in allows
               PROVE  \E o \in Calls :
                        k \in Keysof(o)' /\ said'[o] = "session" /\ Tool(o)' # "host"
    BY DEF AllowancesInv
  <2>1. PICK o \in Calls : k \in Keysof(o) /\ said[o] = "session" /\ Tool(o) # "host"
    BY DEF IInv, GroundsInv, AllowancesInv
  <2>2. said'[o] = "session"
    BY <2>1
  <2> QED
    BY <1>1, <2>1, <2>2
<1> QED
  BY <1>3, <1>4, <1>5 DEF GroundsInv

\* The mode and the turn stay, and c moves as the mode lets it.
LEMMA TurnStays ==
  ASSUME IInv, NEW c \in Calls, UNCHANGED <<permission, busy>>,
         \A d \in Calls : d # c => call'[d] = call[d],
         busy \/ call'[c].at \in {"denied", "done"}, call'[c].at # "unused",
         call'[c].at = "judging" =>
           call'[c].mode = permission /\ (permission = "yolo" => call'[c].request.tool # "host"),
         call'[c].at \in {"asking", "queued", "locked", "waiting", "replied"} =>
           permission \in {"ask", "auto"} /\ call'[c].request.ev # "deny",
         call'[c].at = "running" /\ permission = "plan" =>
           call'[c].request.tool = "shell" /\ call'[c].request.reads
  PROVE  TurnInv'
<1>1. busy' \/ \A d \in Calls : call'[d].at \in {"unused", "denied", "done"}
  BY DEF IInv, TurnInv, Settled
<1>2. ASSUME NEW d \in Calls
      PROVE  /\ call'[d].at = "unused" => call'[d].request = NoRequest
             /\ call'[d].at = "judging" =>
                  call'[d].mode = permission
                    /\ (permission = "yolo" => call'[d].request.tool # "host")
             /\ call'[d].at \in {"asking", "queued", "locked", "waiting", "replied"} =>
                  permission \in {"ask", "auto"} /\ call'[d].request.ev # "deny"
             /\ call'[d].at = "running" /\ permission = "plan" =>
                  call'[d].request.tool = "shell" /\ call'[d].request.reads
  <2>1. CASE d = c
    BY <2>1
  <2>2. CASE d # c
    BY <2>2 DEF IInv, TurnInv, PlanOnlyReads, CallAt, Tool
  <2> QED
    BY <2>1, <2>2
<1>3. PlanOnlyReads'
  BY <1>2 DEF PlanOnlyReads, CallAt, Tool
<1> QED
  BY <1>1, <1>2, <1>3 DEF TurnInv, Settled, CallAt, Tool, NoRequest

\* Outside the bridge nobody has the lock, and nobody gets it.
LEMMA LockStays ==
  ASSUME IInv, NEW c \in Calls, UNCHANGED serial,
         \A d \in Calls : d # c => call'[d] = call[d],
         call[c].at \in {"locked", "waiting"} <=> call'[c].at \in {"locked", "waiting"}
  PROVE  LockInv'
BY DEF IInv, LockInv

\* A call that does not run is not settled yet, and its turn goes on.
LEMMA IsBusy ==
  ASSUME IInv, NEW c \in Calls, ~Settled(c) PROVE busy
BY DEF IInv, TurnInv

\* What a request has: its keys are known, and so is its tool.
LEMMA RequestHas ==
  ASSUME ApprovalAssumption, NEW q \in AnyRequest PROVE q.keys \subseteq Keys
<1> DEFINE R == [tool : Tools, keys : (SUBSET Keys) \ {{}}, ev : {"allow", "ask", "deny"},
                 prompt : Prompts, reads : BOOLEAN]
<1>1. \A r \in Requests : r \in R
  BY DEF ApprovalAssumption
<1>2. CASE q \in Requests
  BY <1>1, <1>2
<1>3. CASE q = NoRequest
  BY <1>3 DEF NoRequest
<1>4. ASSUME NEW r \in Requests, q = [r EXCEPT !.tool = "shell"] PROVE q.keys \subseteq Keys
  <2>1. r \in R
    BY <1>1
  <2>2. q.keys = r.keys
    BY <1>4, <2>1
  <2> QED
    BY <2>1, <2>2
<1> QED
  BY <1>2, <1>3, <1>4 DEF AnyRequest

-----------------------------------------------------------------------------
(* A call, before the bridge.                                              *)

LEMMA BeginStep ==
  ASSUME ApprovalAssumption, IInv, NEW c \in Calls, NEW r \in Requests, Begin(c, r) PROVE IInv'
<1>1. /\ call' \in [Calls -> CallRecord] /\ call'[c].at = "judging"
      /\ call'[c].mode = permission /\ (permission = "yolo" => call'[c].request.tool # "host")
      /\ \A d \in Calls : d # c => call'[d] = call[d]
  BY Begins DEF IInv
<1>2. /\ CallAt(c, "unused") /\ busy
      /\ UNCHANGED <<permission, busy, ended, up, serial, inbox, modal, respond, allows, denies,
                     said, grounds>>
  BY DEF Begin, host, bridge, memory
<1>3. TypesInv'
  BY <1>1, <1>2 DEF IInv, TypesInv
<1>4. LockInv'
  BY <1>1, <1>2, LockStays DEF CallAt
<1>5. TurnInv'
  BY <1>1, <1>2, TurnStays
<1>6. MailInv'
  BY <1>1, <1>2, MailStays DEF CallAt, Early
<1>7. SaidInv'
  BY <1>1, <1>2, SaidStays DEF CallAt, Early
<1>8. GroundsInv'
  <2>1. \A d \in Calls : call'[d].request = call[d].request \/ CallAt(d, "unused")
    BY <1>1, <1>2
  <2>2. \A d \in Calls : call'[d].at \in {"running", "done"} =>
                         call[d].at \in {"running", "done"} /\ grounds'[d] = grounds[d]
    BY <1>1, <1>2
  <2> QED
    BY <1>2, <2>1, <2>2, GroundsStay
<1> QED
  BY <1>3, <1>4, <1>5, <1>6, <1>7, <1>8 DEF IInv

\* Between the bridge and the tool: all but the grounds.
LEMMA MovesOutside ==
  ASSUME ApprovalAssumption, IInv, NEW c \in Calls, NEW w \in Where, Moves(c, w),
         ~Settled(c), call[c].at \notin {"locked", "waiting"},
         w \in {"asking", "queued", "running", "denied", "done"},
         w \in {"asking", "queued"} => call[c].at \in Early /\ permission \in {"ask", "auto"}
                                        /\ call[c].request.ev # "deny",
         w = "running" /\ permission = "plan" => Tool(c) = "shell" /\ call[c].request.reads,
         UNCHANGED <<host, bridge, said>>
  PROVE  LockInv' /\ TurnInv' /\ MailInv' /\ SaidInv'
<1>1. UNCHANGED <<permission, busy, ended, up, serial, inbox, modal, respond, said>>
  BY DEF host, bridge
<1>2. /\ call' \in [Calls -> CallRecord] /\ call'[c].at = w
      /\ call'[c].request = call[c].request /\ \A d \in Calls : d # c => call'[d] = call[d]
  BY DEF Moves
<1>3. LockInv'
  BY <1>1, <1>2, LockStays
<1>4. TurnInv'
  BY <1>1, <1>2, TurnStays, IsBusy DEF Tool
<1>5. MailInv'
  BY <1>1, <1>2, MailStays DEF CallAt, Early
<1>6. SaidInv'
  BY <1>1, <1>2, SaidStays DEF CallAt, Early
<1> QED
  BY <1>3, <1>4, <1>5, <1>6

\* A call goes on for a reason, or not, and keys are remembered on the user's
\* word: what is said of grounds holds.
LEMMA GroundsMove ==
  ASSUME IInv, NEW c \in Calls, NEW w \in Where, Moves(c, w), UNCHANGED said,
         ~CallAt(c, "unused"), w # "done",
         \A d \in Calls : d # c => grounds'[d] = grounds[d],
         w = "running" =>
           /\ call[c].request.ev # "deny"
           /\ grounds'[c] = "user" => said[c] \in {"once", "session"}
           /\ grounds'[c] = "session" => Keysof(c) \subseteq allows
           /\ Tool(c) = "host" => grounds'[c] = "user" /\ said[c] = "once",
         \A k \in allows' : k \in allows
           \/ (k \in Keysof(c) /\ said[c] = "session" /\ Tool(c) # "host"),
         \A k \in denies' : k \in denies
           \/ (k \in Keysof(c) /\ (Tool(c) = "mcp" \/ said[c] \in {"deny", "interrupt"}))
  PROVE  GroundsInv'
<1>1. \A d \in Calls : Keysof(d)' = Keysof(d) /\ Tool(d)' = Tool(d)
                       /\ call'[d].request = call[d].request
  BY DEF Moves, Keysof, Tool
<1>2. \A k \in allows :
        \E o \in Calls : k \in Keysof(o) /\ said[o] = "session" /\ Tool(o) # "host"
  BY DEF IInv, GroundsInv, AllowancesInv
<1>3. RunsOnItsOwnGrounds'
  <2>1. ASSUME NEW d \in Calls, call'[d].at \in {"running", "done"}
        PROVE  /\ call[d].request.ev # "deny"
               /\ grounds'[d] = "user" => said[d] \in {"once", "session"}
               /\ Tool(d) = "host" => grounds'[d] = "user" /\ said[d] = "once"
               /\ grounds'[d] = "session" => \A k \in Keysof(d) :
                    \E o \in Calls : k \in Keysof(o) /\ said[o] = "session" /\ Tool(o) # "host"
    <3>1. CASE d = c
      BY <1>2, <2>1, <3>1 DEF Moves
    <3>2. CASE d # c
      <4>1. call[d].at \in {"running", "done"} /\ grounds'[d] = grounds[d]
        BY <2>1, <3>2 DEF Moves
      <4> QED
        BY <4>1 DEF IInv, GroundsInv, RunsOnItsOwnGrounds
    <3> QED
      BY <3>1, <3>2
  <2> QED
    BY <1>1, <2>1 DEF RunsOnItsOwnGrounds
<1>4. DenialsAreTheUsers'
  <2>1. \A k \in denies : \E d \in Calls :
          k \in Keysof(d) /\ (Tool(d) = "mcp" \/ said[d] \in {"deny", "interrupt"})
    BY DEF IInv, GroundsInv, DenialsAreTheUsers
  <2> QED
    BY <1>1, <2>1 DEF DenialsAreTheUsers
<1>5. AllowancesInv'
  BY <1>1, <1>2 DEF AllowancesInv
<1> QED
  BY <1>3, <1>4, <1>5 DEF GroundsInv

LEMMA JudgeStep ==
  ASSUME ApprovalAssumption, IInv, NEW c \in Calls, Judge(c) PROVE IInv'
<1>1. /\ CallAt(c, "judging") /\ UNCHANGED <<host, bridge, allows, denies, said>>
      /\ UNCHANGED <<permission, busy, ended, up, inbox, modal, respond>>
  BY DEF Judge, host, bridge
<1>2. /\ call[c].mode = permission /\ (permission = "yolo" => Tool(c) # "host")
      /\ permission \in Modes
  BY <1>1 DEF IInv, TurnInv, TypesInv
<1>3. ~Settled(c) /\ call[c].at \notin {"locked", "waiting"} /\ call[c].at \in Early
  BY <1>1 DEF Settled, CallAt, Early
<1>4. CASE Refuse(c)
  <2>1. Moves(c, "denied") /\ UNCHANGED grounds
    BY <1>4, Leaves DEF IInv, Refuse, Where
  <2>2. LockInv' /\ TurnInv' /\ MailInv' /\ SaidInv'
    BY <1>1, <1>3, <2>1, MovesOutside DEF Where
  <2>3. GroundsInv'
    BY <1>1, <2>1, GroundsMove DEF CallAt, Where
  <2>4. TypesInv'
    BY <1>1, <2>1 DEF IInv, TypesInv, Moves
  <2> QED
    BY <2>2, <2>3, <2>4 DEF IInv
<1>5. ASSUME NEW why \in {"plan", "mode", "rule", "session"}, GoOn(c, why),
             call[c].request.ev # "deny", Tool(c) # "host",
             permission = "plan" => PlanAllows(c),
             why = "session" => Keysof(c) \subseteq allows
      PROVE  IInv'
  <2>1. Moves(c, "running")
        /\ grounds' = [grounds EXCEPT ![c] = IF Despite(c, why) THEN "despite" ELSE why]
    BY <1>5, Leaves DEF IInv, GoOn, Where
  <2>2. grounds'[c] \in {why, "despite"} /\ \A d \in Calls : d # c => grounds'[d] = grounds[d]
    BY <2>1 DEF IInv, TypesInv
  <2>3. LockInv' /\ TurnInv' /\ MailInv' /\ SaidInv'
    BY <1>1, <1>3, <1>5, <2>1, MovesOutside DEF Where, PlanAllows
  <2>4. GroundsInv'
    BY <1>1, <1>5, <2>1, <2>2, GroundsMove DEF CallAt, Where
  <2>5. TypesInv'
    BY <1>1, <1>5, <2>1 DEF IInv, TypesInv, Moves
  <2> QED
    BY <2>3, <2>4, <2>5 DEF IInv
<1>6. CASE call' = [call EXCEPT ![c].at = "asking"] /\ UNCHANGED grounds
            /\ permission \in {"ask", "auto"} /\ call[c].request.ev # "deny"
  <2>1. Moves(c, "asking")
    BY <1>6, Goes DEF IInv, Where
  <2>2. LockInv' /\ TurnInv' /\ MailInv' /\ SaidInv'
    BY <1>1, <1>3, <1>6, <2>1, MovesOutside DEF Where
  <2>3. GroundsInv'
    BY <1>1, <1>6, <2>1, GroundsMove DEF CallAt, Where
  <2>4. TypesInv'
    BY <1>1, <1>6, <2>1 DEF IInv, TypesInv, Moves
  <2> QED
    BY <2>2, <2>3, <2>4 DEF IInv
<1>7. \/ Refuse(c)
      \/ /\ call[c].request.ev # "deny"
         /\ \/ permission = "plan" /\ PlanAllows(c) /\ GoOn(c, "plan")
            \/ Waived(c) /\ GoOn(c, "mode")
            \/ permission \in {"ask", "auto"} /\ Tool(c) = "shell" /\ GoOn(c, "rule")
            \/ permission \in {"ask", "auto"} /\ AllowedBefore(c) /\ GoOn(c, "session")
            \/ /\ permission \in {"ask", "auto"}
               /\ call' = [call EXCEPT ![c].at = "asking"] /\ UNCHANGED grounds
  BY <1>2 DEF Judge
<1> QED
  BY <1>2, <1>4, <1>5, <1>6, <1>7 DEF PlanAllows, AllowedBefore, Escapes, Waived

LEMMA AskStep ==
  ASSUME ApprovalAssumption, IInv, NEW c \in Calls, Ask(c) PROVE IInv'
<1>1. /\ CallAt(c, "asking") /\ UNCHANGED <<host, bridge, allows, denies, said>>
      /\ UNCHANGED <<permission, busy, ended, up, inbox, modal, respond>>
  BY DEF Ask, host, bridge
<1>2. permission \in {"ask", "auto"} /\ call[c].request.ev # "deny"
  BY <1>1 DEF IInv, TurnInv, CallAt
<1>3. ~Settled(c) /\ call[c].at \notin {"locked", "waiting"} /\ call[c].at \in Early
  BY <1>1 DEF Settled, CallAt, Early
<1>4. CASE Refuse(c)
  <2>1. Moves(c, "denied") /\ UNCHANGED grounds
    BY <1>4, Leaves DEF IInv, Refuse, Where
  <2>2. LockInv' /\ TurnInv' /\ MailInv' /\ SaidInv'
    BY <1>1, <1>3, <2>1, MovesOutside DEF Where
  <2>3. GroundsInv'
    BY <1>1, <2>1, GroundsMove DEF CallAt, Where
  <2>4. TypesInv'
    BY <1>1, <2>1 DEF IInv, TypesInv, Moves
  <2> QED
    BY <2>2, <2>3, <2>4 DEF IInv
<1>5. CASE ReadsModeAgain(c) /\ GoOn(c, "mode")
  <2>1. Moves(c, "running") /\ Tool(c) # "host"
        /\ grounds' = [grounds EXCEPT ![c] = IF Despite(c, "mode") THEN "despite" ELSE "mode"]
    BY <1>5, Leaves DEF IInv, GoOn, Where, ReadsModeAgain
  <2>2. grounds'[c] \in {"mode", "despite"} /\ \A d \in Calls : d # c => grounds'[d] = grounds[d]
    BY <2>1 DEF IInv, TypesInv
  <2>3. LockInv' /\ TurnInv' /\ MailInv' /\ SaidInv'
    BY <1>1, <1>2, <1>3, <2>1, MovesOutside DEF Where
  <2>4. GroundsInv'
    BY <1>1, <1>2, <2>1, <2>2, GroundsMove DEF CallAt, Where
  <2>5. TypesInv'
    BY <1>1, <2>1 DEF IInv, TypesInv, Moves
  <2> QED
    BY <2>3, <2>4, <2>5 DEF IInv
<1>6. CASE call' = [call EXCEPT ![c].at = "queued"] /\ UNCHANGED grounds
  <2>1. Moves(c, "queued")
    BY <1>6, Goes DEF IInv, Where
  <2>2. LockInv' /\ TurnInv' /\ MailInv' /\ SaidInv'
    BY <1>1, <1>2, <1>3, <1>6, <2>1, MovesOutside DEF Where
  <2>3. GroundsInv'
    BY <1>1, <1>6, <2>1, GroundsMove DEF CallAt, Where
  <2>4. TypesInv'
    BY <1>1, <1>6, <2>1 DEF IInv, TypesInv, Moves
  <2> QED
    BY <2>2, <2>3, <2>4 DEF IInv
<1> QED
  BY <1>4, <1>5, <1>6 DEF Ask

-----------------------------------------------------------------------------
(* A call, in the bridge and after.                                        *)

LEMMA TakeLockStep ==
  ASSUME ApprovalAssumption, IInv, NEW c \in Calls, TakeLock(c) PROVE IInv'
<1>1. /\ CallAt(c, "queued") /\ serial = NoCall /\ serial' = c
      /\ call' = [call EXCEPT ![c].at = "locked"]
      /\ UNCHANGED <<permission, busy, ended, up, inbox, modal, respond, allows, denies, said,
                     grounds>>
  BY DEF TakeLock, host, memory
<1>2. Moves(c, "locked")
  BY <1>1, Goes DEF IInv, Where
<1>3. ~Settled(c) /\ permission \in {"ask", "auto"} /\ call[c].request.ev # "deny"
  BY <1>1 DEF Settled, CallAt, IInv, TurnInv
<1>4. TypesInv'
  BY <1>1, <1>2 DEF IInv, TypesInv, Moves
<1>5. LockInv'
  BY <1>1, <1>2 DEF IInv, LockInv, Moves, ApprovalAssumption
<1>6. TurnInv'
  BY <1>1, <1>2, <1>3, IsBusy, TurnStays DEF Moves
<1>7. MailInv'
  BY <1>1, <1>2, MailStays DEF Moves, CallAt, Early
<1>8. SaidInv'
  BY <1>1, <1>2, SaidStays DEF Moves, CallAt, Early
<1>9. GroundsInv'
  BY <1>1, <1>2, GroundsMove DEF CallAt, Where
<1> QED
  BY <1>4, <1>5, <1>6, <1>7, <1>8, <1>9 DEF IInv

\* A call that has the lock gives it back with its reply: all but the mail.
LEMMA RepliesKeep ==
  ASSUME ApprovalAssumption, IInv, NEW c \in Calls, NEW reply \in Replies, Reply(c, reply),
         call[c].at \in {"locked", "waiting"}, Honest(reply, said[c], Tool(c)),
         UNCHANGED <<host, modal, memory, said, grounds>>, inbox' \in Seq(Mail)
  PROVE  TypesInv' /\ LockInv' /\ TurnInv' /\ SaidInv' /\ GroundsInv'
<1>1. UNCHANGED <<permission, busy, ended, up, modal, allows, denies, said, grounds>>
  BY DEF host, memory
<1>2. /\ Moves(c, "replied") /\ call'[c].reply = reply /\ serial' = NoCall
      /\ respond' = [respond EXCEPT ![c] = "abandoned"]
  BY Replied DEF IInv
<1>3. ~Settled(c) /\ permission \in {"ask", "auto"} /\ call[c].request.ev # "deny"
  BY DEF Settled, CallAt, IInv, TurnInv
<1>4. TypesInv'
  BY <1>1, <1>2 DEF IInv, TypesInv, Moves
<1>5. LockInv'
  <2>1. \A d \in Calls : d # c => call'[d].at \notin {"locked", "waiting"} /\ NoCall # d
    BY <1>2 DEF IInv, LockInv, Moves, ApprovalAssumption
  <2>2. call'[c].at = "replied" /\ NoCall # c
    BY <1>2 DEF Moves, ApprovalAssumption
  <2> QED
    BY <1>2, <2>1, <2>2 DEF LockInv
<1>6. TurnInv'
  BY <1>1, <1>2, <1>3, IsBusy, TurnStays DEF Moves
<1>7. SaidInv'
  BY <1>1, <1>2, SaidStays DEF Moves, CallAt, Early, Tool, IInv, TypesInv
<1>8. GroundsInv'
  BY <1>1, <1>2, GroundsMove DEF CallAt, Where
<1> QED
  BY <1>4, <1>5, <1>6, <1>7, <1>8

LEMMA PostRefusedStep ==
  ASSUME ApprovalAssumption, IInv, NEW c \in Calls, PostRefused(c) PROVE IInv'
<1>1. /\ CallAt(c, "locked") /\ Reply(c, "unanswered")
      /\ UNCHANGED <<host, inbox, modal, memory, said, grounds>>
  BY DEF PostRefused
<1>2. "unanswered" \in Replies /\ Honest("unanswered", said[c], Tool(c))
  BY DEF Replies, Honest
<1>3. TypesInv' /\ LockInv' /\ TurnInv' /\ SaidInv' /\ GroundsInv'
  BY <1>1, <1>2, RepliesKeep DEF CallAt, IInv, TypesInv
<1>4. /\ Moves(c, "replied") /\ respond' = [respond EXCEPT ![c] = "abandoned"]
      /\ UNCHANGED up
  BY <1>1, <1>2, Replied DEF IInv, host
<1>5. MailInv'
  BY <1>1, <1>4, MailStays DEF Moves, CallAt, Early, IInv, TypesInv
<1> QED
  BY <1>3, <1>5 DEF IInv

LEMMA ReceiveAnswerStep ==
  ASSUME ApprovalAssumption, IInv, NEW c \in Calls, ReceiveAnswer(c) PROVE IInv'
<1>1. /\ CallAt(c, "waiting") /\ respond[c] # "empty" /\ Reply(c, respond[c])
      /\ UNCHANGED <<host, inbox, modal, memory, said, grounds>>
  BY DEF ReceiveAnswer
<1>2. respond[c] \in Replies /\ Honest(respond[c], said[c], Tool(c))
  BY <1>1 DEF IInv, SaidInv, Honest
<1>3. TypesInv' /\ LockInv' /\ TurnInv' /\ SaidInv' /\ GroundsInv'
  BY <1>1, <1>2, RepliesKeep DEF CallAt, IInv, TypesInv
<1>4. /\ Moves(c, "replied") /\ respond' = [respond EXCEPT ![c] = "abandoned"]
      /\ UNCHANGED up
  BY <1>1, <1>2, Replied DEF IInv, host
<1>5. MailInv'
  BY <1>1, <1>4, MailStays DEF Moves, CallAt, Early, IInv, TypesInv
<1> QED
  BY <1>3, <1>5 DEF IInv

LEMMA ApplyStep ==
  ASSUME ApprovalAssumption, IInv, NEW c \in Calls, Apply(c) PROVE IInv'
<1>1. /\ CallAt(c, "replied") /\ UNCHANGED <<host, bridge, said>>
      /\ UNCHANGED <<permission, busy, ended, up, inbox, modal, respond>>
  BY DEF Apply, host, bridge
<1>2. /\ permission \in {"ask", "auto"} /\ call[c].request.ev # "deny"
      /\ Honest(call[c].reply, said[c], Tool(c))
  BY <1>1 DEF IInv, TurnInv, CallAt, SaidInv
<1>3. ~Settled(c) /\ call[c].at \notin {"locked", "waiting"}
  BY <1>1 DEF Settled, CallAt
<1>4. Keysof(c) \subseteq Keys
  BY RequestHas DEF IInv, TypesInv, CallRecord, Keysof
<1>5. CASE Granted(c)
  <2>1. /\ Moves(c, "running") /\ grounds' = [grounds EXCEPT ![c] = "user"]
        /\ denies' = IF Tool(c) = "shell" THEN denies \ Keysof(c) ELSE denies
        /\ allows' = IF call[c].reply = "session" /\ ~Escapes(c)
                      THEN allows \cup Keysof(c) ELSE allows
    BY <1>5, Leaves DEF IInv, GoOn, Despite, Where, Apply
  <2>2. grounds'[c] = "user" /\ \A d \in Calls : d # c => grounds'[d] = grounds[d]
    BY <2>1 DEF IInv, TypesInv
  <2>3. said[c] = call[c].reply /\ said[c] \in {"once", "session"}
        /\ (Tool(c) = "host" => said[c] = "once")
    BY <1>2, <1>5 DEF Honest, Granted
  <2>4. LockInv' /\ TurnInv' /\ MailInv' /\ SaidInv'
    BY <1>1, <1>2, <1>3, <2>1, MovesOutside DEF Where
  <2>5. /\ \A k \in allows' : k \in allows
              \/ (k \in Keysof(c) /\ said[c] = "session" /\ Tool(c) # "host")
        /\ denies' \subseteq denies
    BY <2>1, <2>3 DEF Escapes
  <2>6. GroundsInv'
    BY <1>1, <1>2, <2>1, <2>2, <2>3, <2>5, GroundsMove DEF CallAt, Where
  <2>7. TypesInv'
    BY <1>1, <1>4, <2>1 DEF IInv, TypesInv, Moves
  <2> QED
    BY <2>4, <2>6, <2>7 DEF IInv
<1>6. CASE ~Granted(c)
  <2>1. /\ Moves(c, "denied") /\ UNCHANGED <<grounds, allows>>
        /\ denies' = IF Remembered(c) THEN denies \cup Keysof(c) ELSE denies
    BY <1>6, Leaves DEF IInv, Refuse, Where, Apply
  <2>2. LockInv' /\ TurnInv' /\ MailInv' /\ SaidInv'
    BY <1>1, <1>3, <2>1, MovesOutside DEF Where
  <2>3. Remembered(c) => Tool(c) = "mcp" \/ said[c] \in {"deny", "interrupt"}
    BY <1>2 DEF Remembered, Honest
  <2>4. GroundsInv'
    BY <1>1, <2>1, <2>3, GroundsMove DEF CallAt, Where
  <2>5. TypesInv'
    BY <1>1, <1>4, <2>1 DEF IInv, TypesInv, Moves
  <2> QED
    BY <2>2, <2>4, <2>5 DEF IInv
<1> QED
  BY <1>5, <1>6

LEMMA FinishStep ==
  ASSUME ApprovalAssumption, IInv, NEW c \in Calls, Finish(c) PROVE IInv'
<1>1. /\ CallAt(c, "running") /\ UNCHANGED <<host, bridge, said>>
      /\ UNCHANGED <<permission, busy, ended, up, inbox, modal, respond, allows, denies, grounds>>
      /\ call' = [call EXCEPT ![c].at = "done"]
  BY DEF Finish, host, bridge, memory
<1>2. Moves(c, "done")
  BY <1>1, Goes DEF IInv, Where
<1>3. ~Settled(c) /\ call[c].at \notin {"locked", "waiting"}
  BY <1>1 DEF Settled, CallAt
<1>4. LockInv' /\ TurnInv' /\ MailInv' /\ SaidInv'
  BY <1>1, <1>2, <1>3, MovesOutside DEF Where
<1>5. GroundsInv'
  <2>1. \A d \in Calls : call'[d].request = call[d].request
    BY <1>2 DEF Moves
  <2>2. \A d \in Calls : call'[d].at \in {"running", "done"} =>
                         call[d].at \in {"running", "done"} /\ grounds'[d] = grounds[d]
    BY <1>1, <1>2 DEF Moves, CallAt
  <2> QED
    BY <1>1, <2>1, <2>2, GroundsStay
<1>6. TypesInv'
  BY <1>1, <1>2 DEF IInv, TypesInv, Moves
<1> QED
  BY <1>4, <1>5, <1>6 DEF IInv

-----------------------------------------------------------------------------
(* The mail.                                                               *)

LEMMA Posted ==
  ASSUME NEW box \in Seq(Mail), NEW m \in Mail, NEW next, next = Append(box, m)
  PROVE  /\ next \in Seq(Mail) /\ Len(box) \in Nat /\ Len(next) = Len(box) + 1
         /\ DOMAIN box = 1 .. Len(box) /\ DOMAIN next = 1 .. Len(box) + 1
         /\ next[Len(box) + 1] = m /\ \A i \in DOMAIN box : next[i] = box[i]
<1>1. /\ next \in Seq(Mail) /\ Len(next) = Len(box) + 1 /\ Len(box) \in Nat
      /\ \A i \in 1 .. Len(box) : next[i] = box[i]
      /\ next[Len(box) + 1] = m
  BY AppendProperties
<1> QED
  BY <1>1, LenProperties

\* What was withdrawn stays so in a longer mail.
LEMMA StaysWithdrawn ==
  ASSUME NEW box \in Seq(Mail), NEW m \in Mail, NEW next, next = Append(box, m),
         NEW c, NEW from, NEW to, WithdrawnIn(box, c, from, to)
  PROVE  WithdrawnIn(next, c, from, to) /\ WithdrawnIn(next, c, from, Len(next) + 1)
<1>1. /\ Len(box) \in Nat /\ Len(next) = Len(box) + 1 /\ DOMAIN box = 1 .. Len(box)
      /\ DOMAIN next = 1 .. Len(box) + 1 /\ \A i \in DOMAIN box : next[i] = box[i]
  BY Posted
<1>2. PICK k \in DOMAIN box : from < k /\ k < to /\ box[k].kind = "cancel" /\ box[k].call = c
  BY DEF WithdrawnIn
<1>3. k \in DOMAIN next /\ k < Len(next) + 1 /\ next[k] = box[k]
  BY <1>1, <1>2
<1> QED
  BY <1>2, <1>3 DEF WithdrawnIn

\* A request joins the mail when nobody waits; then its call does.
LEMMA RequestJoins ==
  ASSUME NEW box \in Seq(Mail), NEW m \in Mail, m.kind = "request", m.call # NoCall,
         NEW prompt, NEW silent, NEW waiters, MailIsSound(box, prompt, silent, waiters),
         silent \cap waiters = {}, m.call \notin silent,
         NEW silent2, NEW waiters2, silent \subseteq silent2, m.call \in silent2,
         m.call \in waiters2, NEW next, next = Append(box, m)
  PROVE  MailIsSound(next, prompt, silent2, waiters2)
<1>1. /\ Len(box) \in Nat /\ Len(next) = Len(box) + 1 /\ DOMAIN box = 1 .. Len(box)
      /\ DOMAIN next = 1 .. Len(box) + 1 /\ \A i \in DOMAIN box : next[i] = box[i]
      /\ next[Len(box) + 1] = m
  BY Posted
<1>2. prompt # NoCall =>
        /\ prompt \in silent /\ prompt # m.call /\ WithdrawnIn(box, prompt, 0, Len(box) + 1)
  BY DEF MailIsSound
<1>3. ASSUME NEW i \in DOMAIN box, IsRequest(box, i)
      PROVE  /\ box[i].call \in silent /\ box[i].call # prompt /\ box[i].call # m.call
             /\ WithdrawnIn(box, box[i].call, i, Len(box) + 1)
             /\ prompt # NoCall => WithdrawnIn(box, prompt, 0, i)
             /\ \A j \in DOMAIN box : i < j /\ IsRequest(box, j) =>
                  box[j].call # box[i].call /\ WithdrawnIn(box, box[i].call, i, j)
  BY <1>3 DEF MailIsSound
<1>4. ASSUME NEW i \in DOMAIN next, IsRequest(next, i)
      PROVE  /\ next[i].call \in silent2 /\ next[i].call # prompt
             /\ next[i].call \in waiters2 \/ WithdrawnIn(next, next[i].call, i, Len(next) + 1)
             /\ prompt # NoCall => WithdrawnIn(next, prompt, 0, i)
             /\ \A j \in DOMAIN next : i < j /\ IsRequest(next, j) =>
                  next[j].call # next[i].call /\ WithdrawnIn(next, next[i].call, i, j)
  <2>1. CASE i \in DOMAIN box
    <3>1. next[i] = box[i] /\ IsRequest(box, i)
      BY <1>1, <1>4, <2>1 DEF IsRequest
    <3>2. ASSUME NEW j \in DOMAIN next, i < j, IsRequest(next, j)
          PROVE  next[j].call # next[i].call /\ WithdrawnIn(next, next[i].call, i, j)
      <4>1. CASE j \in DOMAIN box
        <5>1. next[j] = box[j] /\ IsRequest(box, j)
          BY <1>1, <3>2, <4>1 DEF IsRequest
        <5> QED
          BY <1>3, <2>1, <3>1, <3>2, <4>1, <5>1, StaysWithdrawn
      <4>2. CASE j = Len(box) + 1
        <5>1. WithdrawnIn(box, box[i].call, i, Len(box) + 1) /\ box[i].call # m.call
          BY <1>3, <2>1, <3>1
        <5>2. WithdrawnIn(next, box[i].call, i, j)
          BY <4>2, <5>1, StaysWithdrawn
        <5> QED
          BY <1>1, <3>1, <4>2, <5>1, <5>2
      <4> QED
        BY <1>1, <4>1, <4>2
    <3>3. WithdrawnIn(next, next[i].call, i, Len(next) + 1)
      BY <1>3, <2>1, <3>1, StaysWithdrawn
    <3>4. prompt # NoCall => WithdrawnIn(next, prompt, 0, i)
      BY <1>3, <2>1, <3>1, StaysWithdrawn
    <3> QED
      BY <1>3, <2>1, <3>1, <3>2, <3>3, <3>4
  <2>2. CASE i = Len(box) + 1
    <3>1. \A j \in DOMAIN next : ~(i < j)
      BY <1>1, <2>2
    <3>2. prompt # NoCall => WithdrawnIn(next, prompt, 0, i)
      BY <1>2, <2>2, StaysWithdrawn
    <3>3. next[i].call = m.call
      BY <1>1, <2>2
    <3> QED
      BY <1>2, <3>1, <3>2, <3>3
  <2> QED
    BY <1>1, <2>1, <2>2
<1>5. prompt # NoCall => prompt \in silent2 /\ WithdrawnIn(next, prompt, 0, Len(next) + 1)
  BY <1>2, StaysWithdrawn
<1> QED
  BY <1>4, <1>5 DEF MailIsSound

\* A withdrawal joins the mail: its call does not wait any more.
LEMMA WithdrawalJoins ==
  ASSUME NEW box \in Seq(Mail), NEW m \in Mail, m.kind = "cancel",
         NEW prompt, NEW silent, NEW waiters, MailIsSound(box, prompt, silent, waiters),
         NEW silent2, NEW waiters2, silent \subseteq silent2,
         \A x \in waiters : x = m.call \/ x \in waiters2, NEW next, next = Append(box, m)
  PROVE  MailIsSound(next, prompt, silent2, waiters2)
<1>1. /\ Len(box) \in Nat /\ Len(next) = Len(box) + 1 /\ DOMAIN box = 1 .. Len(box)
      /\ DOMAIN next = 1 .. Len(box) + 1 /\ \A i \in DOMAIN box : next[i] = box[i]
      /\ next[Len(box) + 1] = m
  BY Posted
<1>2. ASSUME NEW x, NEW i, i = 0 \/ i \in DOMAIN box,
             x \in waiters \/ WithdrawnIn(box, x, i, Len(box) + 1)
      PROVE  x \in waiters2 \/ WithdrawnIn(next, x, i, Len(next) + 1)
  <2>1. CASE x = m.call
    <3>1. /\ Len(box) + 1 \in DOMAIN next /\ i < Len(box) + 1 /\ Len(box) + 1 < Len(next) + 1
          /\ next[Len(box) + 1].kind = "cancel" /\ next[Len(box) + 1].call = x
      BY <1>1, <1>2, <2>1
    <3> QED
      BY <3>1 DEF WithdrawnIn
  <2>2. CASE x # m.call
    BY <1>2, <2>2, StaysWithdrawn
  <2> QED
    BY <2>1, <2>2
<1>3. ASSUME NEW i \in DOMAIN next, IsRequest(next, i)
      PROVE  /\ next[i].call \in silent2 /\ next[i].call # prompt
             /\ next[i].call \in waiters2 \/ WithdrawnIn(next, next[i].call, i, Len(next) + 1)
             /\ prompt # NoCall => WithdrawnIn(next, prompt, 0, i)
             /\ \A j \in DOMAIN next : i < j /\ IsRequest(next, j) =>
                  next[j].call # next[i].call /\ WithdrawnIn(next, next[i].call, i, j)
  <2>1. \A k \in DOMAIN next : IsRequest(next, k) =>
          k \in DOMAIN box /\ next[k] = box[k] /\ IsRequest(box, k)
    BY <1>1 DEF IsRequest
  <2>2. i \in DOMAIN box /\ next[i] = box[i] /\ IsRequest(box, i)
    BY <1>3, <2>1
  <2>3. /\ box[i].call \in silent /\ box[i].call # prompt
        /\ box[i].call \in waiters \/ WithdrawnIn(box, box[i].call, i, Len(box) + 1)
        /\ prompt # NoCall => WithdrawnIn(box, prompt, 0, i)
        /\ \A j \in DOMAIN box : i < j /\ IsRequest(box, j) =>
             box[j].call # box[i].call /\ WithdrawnIn(box, box[i].call, i, j)
    BY <2>2 DEF MailIsSound
  <2>4. next[i].call \in waiters2 \/ WithdrawnIn(next, next[i].call, i, Len(next) + 1)
    BY <1>2, <2>2, <2>3
  <2>5. prompt # NoCall => WithdrawnIn(next, prompt, 0, i)
    BY <2>3, StaysWithdrawn
  <2>6. ASSUME NEW j \in DOMAIN next, i < j, IsRequest(next, j)
        PROVE  next[j].call # next[i].call /\ WithdrawnIn(next, next[i].call, i, j)
    <3>1. j \in DOMAIN box /\ next[j] = box[j] /\ IsRequest(box, j)
      BY <2>1, <2>6
    <3>2. box[j].call # box[i].call /\ WithdrawnIn(box, box[i].call, i, j)
      BY <2>3, <2>6, <3>1
    <3> QED
      BY <2>2, <3>1, <3>2, StaysWithdrawn
  <2> QED
    BY <2>2, <2>3, <2>4, <2>5, <2>6
<1>4. prompt # NoCall =>
        prompt \in silent2 /\ (prompt \in waiters2 \/ WithdrawnIn(next, prompt, 0, Len(next) + 1))
  <2>1. prompt # NoCall =>
          prompt \in silent /\ (prompt \in waiters \/ WithdrawnIn(box, prompt, 0, Len(box) + 1))
    BY DEF MailIsSound
  <2> QED
    BY <1>2, <2>1
<1> QED
  BY <1>3, <1>4 DEF MailIsSound

\* The mail without its first message.
LEMMA Taken ==
  ASSUME NEW box \in Seq(Mail), box # <<>>, NEW next, next = Tail(box)
  PROVE  /\ next \in Seq(Mail) /\ Len(box) \in Nat /\ Len(next) = Len(box) - 1
         /\ 1 \in DOMAIN box /\ Head(box) = box[1]
         /\ \A i \in DOMAIN next : /\ i \in Nat /\ 1 <= i /\ i + 1 \in DOMAIN box
                                  /\ next[i] = box[i + 1]
         /\ \A i \in DOMAIN box : i \in Nat /\ 1 <= i
               /\ (i # 1 => i - 1 \in DOMAIN next /\ next[i - 1] = box[i])
<1>1. /\ next \in Seq(Mail) /\ Len(next) = Len(box) - 1 /\ Head(box) = box[1]
      /\ \A i \in 1 .. Len(next) : next[i] = box[i + 1]
      /\ Len(box) \in Nat /\ Len(box) # 0
  BY HeadTailProperties, EmptySeq, LenProperties
<1>2. DOMAIN box = 1 .. Len(box) /\ DOMAIN next = 1 .. Len(next)
  BY <1>1, LenProperties
<1>3. \A i \in DOMAIN box : i \in Nat /\ 1 <= i
               /\ (i # 1 => i - 1 \in DOMAIN next /\ next[i - 1] = box[i])
  <2> SUFFICES ASSUME NEW i \in 1 .. Len(box), i # 1
               PROVE  i - 1 \in 1 .. Len(next) /\ next[i - 1] = box[i]
    BY <1>1, <1>2
  <2>1. i - 1 \in 1 .. Len(next) /\ (i - 1) + 1 = i
    BY <1>1
  <2> QED
    BY <1>1, <2>1
<1> QED
  BY <1>1, <1>2, <1>3

LEMMA WithdrawnSooner ==
  ASSUME NEW box \in Seq(Mail), box # <<>>, NEW next, next = Tail(box),
         NEW c, NEW from \in Nat, NEW to \in Nat, WithdrawnIn(box, c, from, to)
  PROVE  /\ from >= 1 => WithdrawnIn(next, c, from - 1, to - 1)
         /\ from = 0 /\ ~(box[1].kind = "cancel" /\ box[1].call = c) =>
              WithdrawnIn(next, c, 0, to - 1)
<1>1. PICK k \in DOMAIN box : from < k /\ k < to /\ box[k].kind = "cancel" /\ box[k].call = c
  BY DEF WithdrawnIn
<1>2. /\ k \in Nat /\ 1 <= k
      /\ k # 1 => k - 1 \in DOMAIN next /\ next[k - 1] = box[k]
  BY Taken
<1>3. k # 1 => k - 1 < to - 1 /\ 0 < k - 1 /\ (from >= 1 => from - 1 < k - 1)
  BY <1>1, <1>2
<1> QED
  BY <1>1, <1>2, <1>3 DEF WithdrawnIn

\* What the requests of the rest have of those of the whole.
RestSound(box, next, prompt, silent, waiters) ==
  \A i \in DOMAIN next : IsRequest(next, i) =>
    /\ IsRequest(box, i + 1) /\ i + 1 \in DOMAIN box /\ next[i] = box[i + 1]
    /\ next[i].call \in silent /\ next[i].call # prompt
    /\ next[i].call \in waiters \/ WithdrawnIn(next, next[i].call, i, Len(next) + 1)
    /\ \A j \in DOMAIN next : i < j /\ IsRequest(next, j) =>
         next[j].call # next[i].call /\ WithdrawnIn(next, next[i].call, i, j)

\* The first message is taken from the mail: the others stay as sound.
LEMMA RestIsSound ==
  ASSUME NEW box \in Seq(Mail), box # <<>>, NEW next, next = Tail(box),
         NEW prompt, NEW silent, NEW waiters, MailIsSound(box, prompt, silent, waiters)
  PROVE  RestSound(box, next, prompt, silent, waiters)
<1> SUFFICES ASSUME NEW i \in DOMAIN next, IsRequest(next, i)
             PROVE  /\ IsRequest(box, i + 1) /\ i + 1 \in DOMAIN box /\ next[i] = box[i + 1]
                    /\ next[i].call \in silent /\ next[i].call # prompt
                    /\ next[i].call \in waiters
                         \/ WithdrawnIn(next, next[i].call, i, Len(next) + 1)
                    /\ \A j \in DOMAIN next : i < j /\ IsRequest(next, j) =>
                         next[j].call # next[i].call /\ WithdrawnIn(next, next[i].call, i, j)
  BY DEF RestSound
<1>1. /\ Len(box) \in Nat /\ Len(next) = Len(box) - 1
      /\ \A j \in DOMAIN next : j \in Nat /\ 1 <= j /\ j + 1 \in DOMAIN box /\ next[j] = box[j + 1]
  BY Taken
<1>2. \A j \in DOMAIN next : IsRequest(next, j) => IsRequest(box, j + 1)
  BY <1>1 DEF IsRequest
<1>3. /\ box[i + 1].call \in silent /\ box[i + 1].call # prompt
      /\ box[i + 1].call \in waiters \/ WithdrawnIn(box, box[i + 1].call, i + 1, Len(box) + 1)
      /\ \A j \in DOMAIN box : i + 1 < j /\ IsRequest(box, j) =>
           box[j].call # box[i + 1].call /\ WithdrawnIn(box, box[i + 1].call, i + 1, j)
  BY <1>1, <1>2 DEF MailIsSound
<1>4. ASSUME NEW to \in Nat, WithdrawnIn(box, box[i + 1].call, i + 1, to)
      PROVE  WithdrawnIn(next, next[i].call, i, to - 1)
  <2>1. i + 1 \in Nat /\ i + 1 >= 1 /\ i + 1 # 0 /\ (i + 1) - 1 = i
    BY <1>1
  <2> QED
    BY <1>1, <1>4, <2>1, WithdrawnSooner
<1>5. next[i].call \in waiters \/ WithdrawnIn(next, next[i].call, i, Len(next) + 1)
  <2>1. Len(box) + 1 \in Nat /\ (Len(box) + 1) - 1 = Len(next) + 1
    BY <1>1
  <2>2. CASE WithdrawnIn(box, box[i + 1].call, i + 1, Len(box) + 1)
    <3>1. WithdrawnIn(next, next[i].call, i, (Len(box) + 1) - 1)
      BY <1>4, <2>1, <2>2
    <3> QED
      BY <2>1, <3>1
  <2> QED
    BY <1>1, <1>3, <2>2
<1>6. ASSUME NEW j \in DOMAIN next, i < j, IsRequest(next, j)
      PROVE  next[j].call # next[i].call /\ WithdrawnIn(next, next[i].call, i, j)
  <2>1. /\ j + 1 \in Nat /\ (j + 1) - 1 = j /\ i + 1 < j + 1
        /\ j + 1 \in DOMAIN box /\ IsRequest(box, j + 1)
    BY <1>1, <1>2, <1>6
  <2>2. box[j + 1].call # box[i + 1].call /\ WithdrawnIn(box, box[i + 1].call, i + 1, j + 1)
    BY <1>3, <2>1
  <2>3. WithdrawnIn(next, next[i].call, i, (j + 1) - 1)
    BY <1>4, <2>1, <2>2
  <2> QED
    BY <1>1, <2>1, <2>2, <2>3
<1> QED
  BY <1>1, <1>2, <1>3, <1>5, <1>6

\* A request at the head finds no prompt, and becomes it.
Shown(box, next, prompt, silent, waiters) ==
  /\ prompt = NoCall /\ Head(box).call \in silent
  /\ MailIsSound(next, Head(box).call, silent, waiters)
LEMMA RequestIsShown ==
  ASSUME NEW box \in Seq(Mail), box # <<>>, NEW next, next = Tail(box), Head(box).kind = "request",
         NEW prompt, NEW silent, NEW waiters, MailIsSound(box, prompt, silent, waiters)
  PROVE  Shown(box, next, prompt, silent, waiters)
<1>1. /\ Len(box) \in Nat /\ Len(next) = Len(box) - 1 /\ 1 \in DOMAIN box /\ Head(box) = box[1]
      /\ \A j \in DOMAIN next : j \in Nat /\ 1 <= j /\ j + 1 \in DOMAIN box /\ next[j] = box[j + 1]
      /\ \A k \in DOMAIN box : k \in Nat /\ 1 <= k
  BY Taken
<1>2. IsRequest(box, 1)
  BY <1>1 DEF IsRequest
<1>3. prompt = NoCall
  <2>1. ~WithdrawnIn(box, prompt, 0, 1)
    BY <1>1 DEF WithdrawnIn
  <2> QED
    BY <1>1, <1>2, <2>1 DEF MailIsSound
<1>4. /\ box[1].call \in silent
      /\ box[1].call \in waiters \/ WithdrawnIn(box, box[1].call, 1, Len(box) + 1)
      /\ \A j \in DOMAIN box : 1 < j /\ IsRequest(box, j) =>
           box[j].call # box[1].call /\ WithdrawnIn(box, box[1].call, 1, j)
  BY <1>1, <1>2 DEF MailIsSound
<1>5. ASSUME NEW to \in Nat, WithdrawnIn(box, box[1].call, 1, to)
      PROVE  WithdrawnIn(next, box[1].call, 0, to - 1)
  <2>1. 1 \in Nat /\ 1 >= 1 /\ 1 - 1 = 0
    OBVIOUS
  <2>2. WithdrawnIn(next, box[1].call, 1 - 1, to - 1)
    BY <1>5, <2>1, WithdrawnSooner
  <2> QED
    BY <2>1, <2>2
<1>6. box[1].call \in waiters \/ WithdrawnIn(next, box[1].call, 0, Len(next) + 1)
  <2>1. Len(box) + 1 \in Nat /\ (Len(box) + 1) - 1 = Len(next) + 1
    BY <1>1
  <2>2. CASE WithdrawnIn(box, box[1].call, 1, Len(box) + 1)
    <3>1. WithdrawnIn(next, box[1].call, 0, (Len(box) + 1) - 1)
      BY <1>5, <2>1, <2>2
    <3> QED
      BY <2>1, <3>1
  <2> QED
    BY <1>4, <2>2
<1>r. RestSound(box, next, prompt, silent, waiters)
  BY RestIsSound
<1>7. ASSUME NEW i \in DOMAIN next, IsRequest(next, i)
      PROVE  /\ next[i].call \in silent /\ next[i].call # box[1].call
             /\ next[i].call \in waiters \/ WithdrawnIn(next, next[i].call, i, Len(next) + 1)
             /\ WithdrawnIn(next, box[1].call, 0, i)
             /\ \A j \in DOMAIN next : i < j /\ IsRequest(next, j) =>
                  next[j].call # next[i].call /\ WithdrawnIn(next, next[i].call, i, j)
  <2>1. /\ IsRequest(box, i + 1) /\ i + 1 \in DOMAIN box /\ next[i] = box[i + 1]
        /\ next[i].call \in silent
        /\ next[i].call \in waiters \/ WithdrawnIn(next, next[i].call, i, Len(next) + 1)
        /\ \A j \in DOMAIN next : i < j /\ IsRequest(next, j) =>
                  next[j].call # next[i].call /\ WithdrawnIn(next, next[i].call, i, j)
    BY <1>7, <1>r DEF RestSound
  <2>2. i + 1 \in Nat /\ 1 < i + 1 /\ (i + 1) - 1 = i
    BY <1>1
  <2>3. box[i + 1].call # box[1].call /\ WithdrawnIn(box, box[1].call, 1, i + 1)
    BY <1>4, <2>1, <2>2
  <2>4. WithdrawnIn(next, box[1].call, 0, (i + 1) - 1)
    BY <1>5, <2>2, <2>3
  <2> QED
    BY <2>1, <2>2, <2>3, <2>4
<1>8. MailIsSound(next, box[1].call, silent, waiters)
  BY <1>4, <1>6, <1>7 DEF MailIsSound
<1> QED
  BY <1>1, <1>3, <1>4, <1>8 DEF Shown

\* A withdrawal at the head takes its own prompt down and no other.
LEMMA WithdrawalIsRead ==
  ASSUME NEW box \in Seq(Mail), box # <<>>, NEW next, next = Tail(box), Head(box).kind = "cancel",
         NEW prompt, NEW silent, NEW waiters, MailIsSound(box, prompt, silent, waiters),
         NoCall \notin silent
  PROVE  MailIsSound(next, IF prompt = Head(box).call THEN NoCall ELSE prompt, silent, waiters)
<1>1. /\ Len(box) \in Nat /\ Len(next) = Len(box) - 1 /\ 1 \in DOMAIN box /\ Head(box) = box[1]
      /\ \A j \in DOMAIN next : j \in Nat /\ 1 <= j /\ j + 1 \in DOMAIN box /\ next[j] = box[j + 1]
  BY Taken
<1>2. PICK left : left = IF prompt = Head(box).call THEN NoCall ELSE prompt
  OBVIOUS
<1>3. ASSUME NEW to \in Nat, left # NoCall, WithdrawnIn(box, left, 0, to)
      PROVE  WithdrawnIn(next, left, 0, to - 1)
  <2>1. box[1].call # left
    BY <1>1, <1>2, <1>3
  <2> QED
    BY <1>3, <2>1, WithdrawnSooner
<1>4. left # NoCall => left \in silent /\ (left \in waiters \/ WithdrawnIn(next, left, 0, Len(next) + 1))
  <2>1. Len(box) + 1 \in Nat /\ (Len(box) + 1) - 1 = Len(next) + 1
    BY <1>1
  <2>2. CASE left # NoCall /\ WithdrawnIn(box, left, 0, Len(box) + 1)
    <3>1. WithdrawnIn(next, left, 0, (Len(box) + 1) - 1)
      BY <1>3, <2>1, <2>2
    <3>2. left \in silent
      BY <1>2, <2>2 DEF MailIsSound
    <3> QED
      BY <2>1, <3>1, <3>2
  <2> QED
    BY <1>2, <2>2 DEF MailIsSound
<1>r. RestSound(box, next, prompt, silent, waiters)
  BY RestIsSound
<1>5. ASSUME NEW i \in DOMAIN next, IsRequest(next, i)
      PROVE  /\ next[i].call \in silent /\ next[i].call # left
             /\ next[i].call \in waiters \/ WithdrawnIn(next, next[i].call, i, Len(next) + 1)
             /\ left # NoCall => WithdrawnIn(next, left, 0, i)
             /\ \A j \in DOMAIN next : i < j /\ IsRequest(next, j) =>
                  next[j].call # next[i].call /\ WithdrawnIn(next, next[i].call, i, j)
  <2>1. /\ IsRequest(box, i + 1) /\ i + 1 \in DOMAIN box /\ next[i] = box[i + 1]
        /\ next[i].call \in silent /\ next[i].call # prompt
        /\ next[i].call \in waiters \/ WithdrawnIn(next, next[i].call, i, Len(next) + 1)
        /\ \A j \in DOMAIN next : i < j /\ IsRequest(next, j) =>
                  next[j].call # next[i].call /\ WithdrawnIn(next, next[i].call, i, j)
    BY <1>5, <1>r DEF RestSound
  <2>2. i + 1 \in Nat /\ (i + 1) - 1 = i
    BY <1>1
  <2>3. ASSUME left # NoCall PROVE WithdrawnIn(next, left, 0, i)
    <3>1. WithdrawnIn(box, left, 0, i + 1)
      BY <1>2, <2>1, <2>3 DEF MailIsSound
    <3>2. WithdrawnIn(next, left, 0, (i + 1) - 1)
      BY <1>3, <2>2, <2>3, <3>1
    <3> QED
      BY <2>2, <3>2
  <2> QED
    BY <1>2, <2>1, <2>3
<1>6. MailIsSound(next, left, silent, waiters)
  BY <1>4, <1>5 DEF MailIsSound
<1> QED
  BY <1>2, <1>6

\* The prompt is taken down, whatever is said of its call.
LEMMA PromptTakenDown ==
  ASSUME NEW box, NEW prompt, NEW silent, NEW waiters, MailIsSound(box, prompt, silent, waiters),
         NoCall \notin silent, NEW silent2, \A x \in silent : x = prompt \/ x \in silent2
  PROVE  MailIsSound(box, NoCall, silent2, waiters)
BY DEF MailIsSound

-----------------------------------------------------------------------------
(* The bridge writes to the interface.                                     *)

\* One call has the lock.
LEMMA OneWaits ==
  ASSUME IInv, NEW c \in Calls, call[c].at \in {"locked", "waiting"}
  PROVE  \A d \in Calls : d # c => call[d].at \notin {"locked", "waiting"}
BY DEF IInv, LockInv

\* Without an interface there is no mail and no prompt.
LEMMA NobodyThere ==
  ASSUME ~up', inbox' = <<>>, modal' = NoCall PROVE MailInv'
<1>1. MailIsSound(inbox', modal', Silent', Waiters')
  BY DEF MailIsSound
<1> QED
  BY <1>1 DEF MailInv

\* What is sent arrives, while there is somebody to read it.
LEMMA Sent ==
  ASSUME TypesInv, NEW m \in Mail, Send(m)
  PROVE  inbox' \in Seq(Mail) /\ (up => inbox' = Append(inbox, m)) /\ (~up => inbox' = inbox)
<1>1. inbox \in Seq(Mail)
  BY DEF TypesInv
<1>2. Append(inbox, m) \in Seq(Mail)
  BY <1>1, AppendProperties
<1> QED
  BY <1>1, <1>2 DEF Send

LEMMA PostStep ==
  ASSUME ApprovalAssumption, IInv, NEW c \in Calls, Post(c) PROVE IInv'
<1>1. /\ CallAt(c, "locked") /\ call' = [call EXCEPT ![c].at = "waiting"]
      /\ UNCHANGED <<permission, busy, ended, up, serial, modal, respond, allows, denies, said,
                     grounds>>
  BY DEF Post, host, memory
<1>2. PICK m : m = [kind |-> "request", call |-> c]
  OBVIOUS
<1>3. m \in Mail /\ m.kind = "request" /\ m.call = c
  BY <1>2 DEF Mail
<1>4. inbox' \in Seq(Mail) /\ (up => inbox' = Append(inbox, m)) /\ (~up => inbox' = inbox)
  <2>1. Send(m)
    BY <1>2 DEF Post
  <2> QED
    BY <1>3, <2>1, Sent DEF IInv
<1>5. Moves(c, "waiting")
  BY <1>1, Goes DEF IInv, Where
<1>6. ~Settled(c) /\ permission \in {"ask", "auto"} /\ call[c].request.ev # "deny"
      /\ said[c] = "nothing" /\ respond[c] = "empty"
  BY <1>1 DEF Settled, CallAt, IInv, TurnInv, SaidInv, Early
<1>7. TypesInv'
  BY <1>1, <1>4, <1>5 DEF IInv, TypesInv, Moves
<1>8. LockInv'
  BY <1>1, <1>5, LockStays DEF Moves, CallAt
<1>9. TurnInv'
  BY <1>1, <1>5, <1>6, IsBusy, TurnStays DEF Moves
<1>10. SaidInv'
  BY <1>1, <1>5, <1>6, SaidStays DEF Moves, CallAt, Early
<1>11. GroundsInv'
  BY <1>1, <1>5, GroundsMove DEF CallAt, Where
<1>12. MailInv'
  <2>1. CASE ~up
    BY <1>1, <1>4, <2>1, NobodyThere DEF IInv, MailInv
  <2>2. CASE up
    <3>1. MailIsSound(inbox, modal, Silent, Waiters) /\ inbox \in Seq(Mail)
      BY DEF IInv, MailInv, TypesInv
    <3>2. Waiters = {} /\ c \notin Silent
      BY <1>1, OneWaits DEF Waiters, Silent, Unanswered, Early, CallAt
    <3>3. \A d \in Silent : d \in Silent'
      <4> SUFFICES ASSUME NEW d \in Silent PROVE d \in Silent'
        OBVIOUS
      <4>1. d \in Calls /\ d # c /\ Unanswered(d)
        BY <3>2 DEF Silent
      <4> QED
        BY <1>1, <1>5, <4>1 DEF Silent, Unanswered, Moves, CallAt
    <3>4. c \in Silent' /\ c \in Waiters'
      BY <1>1, <1>5, <1>6 DEF Silent, Waiters, Unanswered, Moves, CallAt, Early
    <3>5. m.call # NoCall
      BY <1>3 DEF ApprovalAssumption
    <3>6. MailIsSound(inbox', modal, Silent', Waiters')
      BY <1>3, <1>4, <2>2, <3>1, <3>2, <3>3, <3>4, <3>5, RequestJoins
    <3> QED
      BY <1>1, <2>2, <3>6 DEF MailInv
  <2> QED
    BY <2>1, <2>2
<1> QED
  BY <1>7, <1>8, <1>9, <1>10, <1>11, <1>12 DEF IInv

\* A call that gives up, for whatever reason, withdraws its request.
LEMMA GivesUp ==
  ASSUME ApprovalAssumption, IInv, NEW c \in Calls, CallAt(c, "waiting"), Withdraw(c),
         Reply(c, "unanswered"), UNCHANGED <<host, modal, memory, said, grounds>>
  PROVE  IInv'
<1>1. PICK m : m = [kind |-> "cancel", call |-> c]
  OBVIOUS
<1>2. m \in Mail /\ m.kind = "cancel" /\ m.call = c
  BY <1>1 DEF Mail
<1>3. inbox' \in Seq(Mail) /\ (up => inbox' = Append(inbox, m)) /\ (~up => inbox' = inbox)
  BY <1>1, <1>2, Sent DEF IInv, Withdraw
<1>4. "unanswered" \in Replies /\ Honest("unanswered", said[c], Tool(c))
  BY DEF Replies, Honest
<1>5. TypesInv' /\ LockInv' /\ TurnInv' /\ SaidInv' /\ GroundsInv'
  BY <1>3, <1>4, RepliesKeep DEF CallAt
<1>6. Moves(c, "replied") /\ respond' = [respond EXCEPT ![c] = "abandoned"] /\ UNCHANGED up
  BY <1>4, Replied DEF IInv, host
<1>7. MailInv'
  <2>1. CASE ~up
    BY <1>3, <1>6, <2>1, NobodyThere DEF IInv, MailInv
  <2>2. CASE up
    <3>1. MailIsSound(inbox, modal, Silent, Waiters) /\ inbox \in Seq(Mail)
      BY DEF IInv, MailInv, TypesInv
    <3>2. ASSUME NEW d \in Calls, Unanswered(d) PROVE Unanswered(d)'
      <4>1. CASE d = c
        BY <1>6, <3>2, <4>1 DEF Unanswered, Moves, CallAt, Early
      <4>2. CASE d # c
        BY <1>6, <3>2, <4>2 DEF Unanswered, Moves, CallAt, IInv, TypesInv
      <4> QED
        BY <4>1, <4>2
    <3>3. \A d \in Silent : d \in Silent'
      BY <3>2 DEF Silent
    <3>4. \A d \in Waiters : d = c \/ d \in Waiters'
      BY <1>6 DEF Waiters, Moves, CallAt
    <3>5. MailIsSound(inbox', modal, Silent', Waiters')
      BY <1>2, <1>3, <2>2, <3>1, <3>3, <3>4, WithdrawalJoins
    <3> QED
      BY <1>6, <2>2, <3>5 DEF MailInv
  <2> QED
    BY <2>1, <2>2
<1> QED
  BY <1>5, <1>7 DEF IInv

-----------------------------------------------------------------------------
(* The interface reads its mail and its keys.                              *)

\* What is said of the calls, when neither they nor what was said of them
\* change, and no turn ends under them.
LEMMA CallsStay ==
  ASSUME IInv, UNCHANGED <<call, serial, allows, denies, said, grounds>>
  PROVE  /\ LockInv' /\ GroundsInv'
         /\ UNCHANGED permission /\ (busy' \/ \A c \in Calls : Settled(c)) => TurnInv'
         /\ UNCHANGED respond => SaidInv' /\ Silent' = Silent /\ Waiters' = Waiters
<1>1. LockInv'
  BY DEF IInv, LockInv
<1>2. GroundsInv'
  BY GroundsStay
<1>3. ASSUME UNCHANGED permission, busy' \/ \A c \in Calls : Settled(c) PROVE TurnInv'
  BY <1>3 DEF IInv, TurnInv, PlanOnlyReads, Settled, CallAt, Tool
<1>4. ASSUME UNCHANGED respond PROVE SaidInv' /\ Silent' = Silent /\ Waiters' = Waiters
  <2>1. SaidInv'
    BY <1>4 DEF IInv, SaidInv, CallAt, Tool
  <2>2. Silent' = Silent /\ Waiters' = Waiters
    BY <1>4 DEF Silent, Waiters, Unanswered, CallAt
  <2> QED
    BY <2>1, <2>2
<1> QED
  BY <1>1, <1>2, <1>3, <1>4

\* Whose prompt is on the screen, or in the mail, is a call.
LEMMA SilentAreCalls ==
  ASSUME ApprovalAssumption PROVE Silent \subseteq Calls /\ NoCall \notin Silent
BY DEF Silent, ApprovalAssumption

LEMMA HandleRequestStep ==
  ASSUME ApprovalAssumption, IInv, HandleRequest PROVE IInv'
<1>1. /\ up /\ inbox # <<>> /\ Head(inbox).kind = "request" /\ inbox' = Tail(inbox)
      /\ modal' = Head(inbox).call
      /\ UNCHANGED <<permission, busy, ended, up, call, serial, allows, denies, said, grounds>>
      /\ (modal = NoCall => respond' = respond)
  BY DEF HandleRequest, host, memory
<1>2. MailIsSound(inbox, modal, Silent, Waiters) /\ inbox \in Seq(Mail)
  BY DEF IInv, MailInv, TypesInv
<1>3. /\ modal = NoCall /\ Head(inbox).call \in Silent
      /\ MailIsSound(inbox', modal', Silent, Waiters)
  <2>1. Shown(inbox, inbox', modal, Silent, Waiters)
    BY <1>1, <1>2, RequestIsShown
  <2> QED
    BY <1>1, <2>1 DEF Shown
<1>4. LockInv' /\ GroundsInv' /\ TurnInv' /\ SaidInv' /\ Silent' = Silent /\ Waiters' = Waiters
  BY <1>1, <1>3, CallsStay DEF IInv, TurnInv
<1>5. inbox' \in Seq(Mail) /\ modal' \in Calls
  BY <1>1, <1>2, <1>3, Taken, SilentAreCalls
<1>6. TypesInv'
  BY <1>1, <1>3, <1>5 DEF IInv, TypesInv
<1>7. MailInv'
  BY <1>1, <1>3, <1>4 DEF MailInv
<1> QED
  BY <1>4, <1>6, <1>7 DEF IInv

LEMMA HandleCancelStep ==
  ASSUME ApprovalAssumption, IInv, HandleCancel PROVE IInv'
<1>1. /\ up /\ inbox # <<>> /\ Head(inbox).kind = "cancel" /\ inbox' = Tail(inbox)
      /\ modal' = IF modal = Head(inbox).call THEN NoCall ELSE modal
      /\ UNCHANGED <<permission, busy, ended, up, call, serial, respond, allows, denies, said,
                     grounds>>
  BY DEF HandleCancel, host, memory
<1>2. MailIsSound(inbox, modal, Silent, Waiters) /\ inbox \in Seq(Mail)
  BY DEF IInv, MailInv, TypesInv
<1>3. MailIsSound(inbox', modal', Silent, Waiters)
  BY <1>1, <1>2, WithdrawalIsRead, SilentAreCalls
<1>4. LockInv' /\ GroundsInv' /\ TurnInv' /\ SaidInv' /\ Silent' = Silent /\ Waiters' = Waiters
  BY <1>1, CallsStay DEF IInv, TurnInv
<1>5. inbox' \in Seq(Mail)
  BY <1>1, <1>2, Taken
<1>6. TypesInv'
  BY <1>1, <1>5 DEF IInv, TypesInv
<1>7. MailInv'
  BY <1>1, <1>3, <1>4 DEF MailInv
<1> QED
  BY <1>4, <1>6, <1>7 DEF IInv

\* The user has a word for the prompt on the screen, and its call is told so.
LEMMA ModalAnswered ==
  ASSUME ApprovalAssumption, IInv, modal # NoCall, up,
         NEW given \in Answers, TakeDown(given),
         NEW word \in Answers \cup {"interrupt"}, said' = [said EXCEPT ![modal] = word],
         Honest(given, word, Tool(modal)), ended' \in BOOLEAN,
         UNCHANGED <<permission, busy, up, call, serial, inbox, memory, grounds>>
  PROVE  IInv'
<1>1. UNCHANGED <<allows, denies>> /\ modal' = NoCall
  BY DEF memory, TakeDown
<1>2. /\ modal \in Calls /\ modal \in Silent /\ MailIsSound(inbox, modal, Silent, Waiters)
      /\ said[modal] = "nothing" /\ call[modal].at \notin Early
      /\ (CallAt(modal, "waiting") => respond[modal] = "empty")
  BY DEF IInv, MailInv, TypesInv, MailIsSound, Silent, Unanswered
<1>3. /\ respond' \in [Calls -> Replies \cup {"empty", "abandoned"}]
      /\ respond[modal] = "empty" => respond'[modal] = given
      /\ \A d \in Calls : d # modal => respond'[d] = respond[d]
  BY <1>2 DEF TakeDown, IInv, TypesInv, Replies
<1>4. /\ said' \in [Calls -> Answers \cup {"nothing", "interrupt"}] /\ said'[modal] = word
      /\ \A d \in Calls : d # modal => said'[d] = said[d]
  BY <1>2 DEF IInv, TypesInv
<1>5. TypesInv'
  BY <1>1, <1>3, <1>4 DEF IInv, TypesInv
<1>6. LockInv'
  BY DEF IInv, LockInv
<1>7. TurnInv'
  BY DEF IInv, TurnInv, PlanOnlyReads, Settled, CallAt, Tool
<1>8. SaidInv'
  <2>1. ASSUME NEW d \in Calls
        PROVE  /\ call[d].at \in Early => said'[d] = "nothing" /\ respond'[d] = "empty"
               /\ call[d].at = "waiting" /\ respond'[d] # "empty" =>
                    Honest(respond'[d], said'[d], Tool(d))
               /\ call[d].at = "replied" => Honest(call[d].reply, said'[d], Tool(d))
    <3>1. /\ call[d].at \in Early => said[d] = "nothing" /\ respond[d] = "empty"
          /\ call[d].at = "waiting" /\ respond[d] # "empty" =>
               Honest(respond[d], said[d], Tool(d))
          /\ call[d].at = "replied" => Honest(call[d].reply, said[d], Tool(d))
      BY DEF IInv, SaidInv, CallAt
    <3>2. CASE d # modal
      BY <1>3, <1>4, <3>1, <3>2
    <3>3. CASE d = modal
      <4>1. call[d].at = "waiting" => respond'[d] = given
        BY <1>2, <1>3, <3>3 DEF CallAt
      <4>2. ASSUME call[d].at = "replied" PROVE Honest(call[d].reply, word, Tool(d))
        <5>1. Honest(call[d].reply, "nothing", Tool(d))
          BY <1>2, <3>1, <3>3, <4>2
        <5> QED
          BY <5>1 DEF Honest
      <4> QED
        BY <1>2, <1>4, <3>3, <4>1, <4>2
    <3> QED
      BY <3>2, <3>3
  <2> QED
    BY <2>1 DEF SaidInv, CallAt, Tool
<1>9. GroundsInv'
  BY <1>1, <1>2, <1>4, GroundsStay
<1>10. MailInv'
  <2>1. \A x \in Silent : x = modal \/ x \in Silent'
    BY <1>3, <1>4 DEF Silent, Unanswered, CallAt
  <2>2. Waiters' = Waiters
    BY DEF Waiters, CallAt
  <2>3. MailIsSound(inbox, NoCall, Silent', Waiters)
    BY <1>2, <2>1, PromptTakenDown, SilentAreCalls
  <2> QED
    BY <1>1, <2>2, <2>3 DEF MailInv
<1> QED
  BY <1>5, <1>6, <1>7, <1>8, <1>9, <1>10 DEF IInv

LEMMA HandleApprovalKeyStep ==
  ASSUME ApprovalAssumption, IInv, NEW key \in Answers, HandleApprovalKey(key) PROVE IInv'
<1>1. PICK given : given = IF key = "session" /\ Tool(modal) = "host" THEN "deny" ELSE key
  OBVIOUS
<1>2. /\ up /\ modal # NoCall /\ TakeDown(given) /\ said' = [said EXCEPT ![modal] = given]
      /\ UNCHANGED <<permission, busy, up, call, serial, inbox, memory, grounds, ended>>
  BY <1>1 DEF HandleApprovalKey, host
<1>3. given \in Answers /\ Honest(given, given, Tool(modal))
  BY <1>1 DEF Answers, Honest, Replies
<1> QED
  BY <1>2, <1>3, ModalAnswered DEF IInv, TypesInv

LEMMA InterruptStep ==
  ASSUME ApprovalAssumption, IInv, Interrupt PROVE IInv'
<1>1. /\ up /\ ended' = TRUE /\ TakeDown("deny")
      /\ said' = IF modal = NoCall THEN said ELSE [said EXCEPT ![modal] = "interrupt"]
      /\ UNCHANGED <<permission, busy, up, call, serial, inbox, memory, grounds>>
  BY DEF Interrupt
<1>2. CASE modal # NoCall
  <2>1. "deny" \in Answers /\ Honest("deny", "interrupt", Tool(modal))
    BY DEF Answers, Honest, Replies
  <2> QED
    BY <1>1, <1>2, <2>1, ModalAnswered
<1>3. CASE modal = NoCall
  <2>1. UNCHANGED <<allows, denies, said, respond, modal>>
    BY <1>1, <1>3 DEF memory, TakeDown
  <2>2. LockInv' /\ GroundsInv' /\ TurnInv' /\ SaidInv' /\ Silent' = Silent /\ Waiters' = Waiters
    BY <1>1, <2>1, CallsStay DEF IInv, TurnInv
  <2>3. TypesInv'
    BY <1>1, <2>1 DEF IInv, TypesInv
  <2>4. MailInv'
    BY <1>1, <2>1, <2>2 DEF IInv, MailInv
  <2> QED
    BY <2>2, <2>3, <2>4 DEF IInv
<1> QED
  BY <1>2, <1>3

\* Between turns every call is settled: the modal, if there is one, is nobody's.
LEMMA CloseTurnStep ==
  ASSUME ApprovalAssumption, IInv, CloseTurn PROVE IInv'
<1>1. /\ up /\ \A c \in Calls : Settled(c)
      /\ ended' = TRUE /\ busy' = FALSE /\ TakeDown("deny") /\ modal' = NoCall
      /\ UNCHANGED <<permission, up, call, serial, inbox, allows, denies, said, grounds>>
  BY DEF CloseTurn, memory, TakeDown
<1>2. LockInv' /\ GroundsInv' /\ TurnInv'
  BY <1>1, CallsStay
<1>3. MailIsSound(inbox, modal, Silent, Waiters)
  BY DEF IInv, MailInv
<1>4. \A d \in Calls : respond'[d] = respond[d] \/ call[d].at \notin Early
  BY <1>1, <1>3 DEF TakeDown, MailIsSound, Silent, Unanswered, IInv, TypesInv
<1>5. respond' \in [Calls -> Replies \cup {"empty", "abandoned"}]
  BY <1>1 DEF TakeDown, IInv, TypesInv, Replies, Answers
<1>6. TypesInv'
  BY <1>1, <1>5 DEF IInv, TypesInv
<1>7. \A d \in Calls : call[d].at \notin {"waiting", "replied"}
  BY <1>1 DEF Settled
<1>8. SaidInv'
  BY <1>1, <1>4, <1>7 DEF IInv, SaidInv, CallAt
<1>9. MailInv'
  <2>1. Silent' = Silent /\ Waiters' = Waiters
    BY <1>1, <1>7 DEF Silent, Waiters, Unanswered, CallAt
  <2>2. MailIsSound(inbox, NoCall, Silent, Waiters)
    BY <1>3, PromptTakenDown, SilentAreCalls
  <2> QED
    BY <1>1, <2>1, <2>2 DEF MailInv
<1> QED
  BY <1>2, <1>6, <1>8, <1>9 DEF IInv

-----------------------------------------------------------------------------
(* What happens around the calls.                                          *)

\* The turn's context, its beginning, and the bridge's end.
LEMMA HostStep ==
  ASSUME ApprovalAssumption, IInv, ContextExpires \/ OpenTurn \/ Close PROVE IInv'
<1>1. /\ UNCHANGED <<permission, up, call, serial, inbox, modal, respond, allows, denies, said,
                      grounds>>
      /\ (busy' = busy \/ (busy' = TRUE /\ busy' \in BOOLEAN)) /\ ended' \in BOOLEAN
  BY DEF ContextExpires, OpenTurn, Close, bridge, memory, IInv, TypesInv
<1>2. LockInv' /\ GroundsInv' /\ TurnInv' /\ SaidInv' /\ Silent' = Silent /\ Waiters' = Waiters
  BY <1>1, CallsStay DEF IInv, TurnInv
<1>3. TypesInv'
  BY <1>1 DEF IInv, TypesInv
<1>4. MailInv'
  BY <1>1, <1>2 DEF IInv, MailInv
<1> QED
  BY <1>2, <1>3, <1>4 DEF IInv

\* The mode is switched between turns, when no call has read it.
LEMMA SwitchModeStep ==
  ASSUME ApprovalAssumption, IInv, NEW m \in Modes, SwitchMode(m) PROVE IInv'
<1>1. /\ permission' = m /\ ~busy
      /\ UNCHANGED <<busy, ended, up, call, serial, inbox, modal, respond, allows, denies, said,
                     grounds>>
  BY DEF SwitchMode, ModeIsFree, bridge, memory
<1>2. LockInv' /\ GroundsInv' /\ SaidInv' /\ Silent' = Silent /\ Waiters' = Waiters
  BY <1>1, CallsStay
<1>3. \A c \in Calls : call[c].at \in {"unused", "denied", "done"}
  BY <1>1 DEF IInv, TurnInv, Settled
<1>4. TurnInv'
  BY <1>1, <1>3 DEF IInv, TurnInv, PlanOnlyReads, Settled, CallAt
<1>5. TypesInv'
  BY <1>1 DEF IInv, TypesInv
<1>6. MailInv'
  BY <1>1, <1>2 DEF IInv, MailInv
<1> QED
  BY <1>2, <1>4, <1>5, <1>6 DEF IInv

LEMMA ExitStep ==
  ASSUME ApprovalAssumption, IInv, Exit PROVE IInv'
<1>1. /\ up' = FALSE /\ ended' = TRUE /\ inbox' = <<>> /\ modal' = NoCall
      /\ UNCHANGED <<permission, busy, call, serial, respond, allows, denies, said, grounds>>
  BY DEF Exit, memory
<1>2. LockInv' /\ GroundsInv' /\ TurnInv' /\ SaidInv'
  BY <1>1, CallsStay DEF IInv, TurnInv
<1>3. TypesInv'
  <2>1. inbox' \in Seq(Mail) /\ modal' \in Calls \cup {NoCall} /\ up' \in BOOLEAN /\ ended' \in BOOLEAN
    BY <1>1, EmptySeq
  <2> QED
    BY <1>1, <2>1 DEF IInv, TypesInv
<1>4. MailInv'
  BY <1>1, NobodyThere
<1> QED
  BY <1>2, <1>3, <1>4 DEF IInv

-----------------------------------------------------------------------------
(* The invariant, and what it says.                                        *)

LEMMA InitIInv == ASSUME ApprovalAssumption, ApprovalsInit PROVE IInv
<1>1. /\ permission \in Modes /\ busy \in BOOLEAN /\ ended \in BOOLEAN /\ up \in BOOLEAN
      /\ inbox = <<>> /\ modal = NoCall /\ serial = NoCall /\ allows = {} /\ denies = {}
  BY DEF ApprovalsInit, ApprovalAssumption
<1>2. PICK n : n = [at |-> "unused", request |-> NoRequest, mode |-> "ask", reply |-> "none"]
  OBVIOUS
<1>3. n \in CallRecord /\ n.at = "unused" /\ n.request = NoRequest
  BY <1>2 DEF CallRecord, Where, AnyRequest, Modes
<1>4. call = [c \in Calls |-> n] /\ \A c \in Calls : call[c] = n
  BY <1>2 DEF ApprovalsInit
<1>5. /\ respond \in [Calls -> Replies \cup {"empty", "abandoned"}]
      /\ said \in [Calls -> Answers \cup {"nothing", "interrupt"}]
      /\ grounds \in [Calls -> {"none", "user", "session", "mode", "rule", "plan", "despite"}]
      /\ \A c \in Calls : respond[c] = "empty" /\ said[c] = "nothing"
  BY DEF ApprovalsInit
<1>6. TypesInv
  BY <1>1, <1>3, <1>4, <1>5 DEF TypesInv
<1>7. LockInv
  BY <1>1, <1>3, <1>4 DEF LockInv, ApprovalAssumption
<1>8. TurnInv
  BY <1>3, <1>4 DEF TurnInv, PlanOnlyReads, Settled, CallAt
<1>9. MailInv
  BY <1>1 DEF MailInv, MailIsSound
<1>10. SaidInv
  BY <1>3, <1>4, <1>5 DEF SaidInv, CallAt
<1>11. GroundsInv
  BY <1>1, <1>3, <1>4 DEF GroundsInv, RunsOnItsOwnGrounds, DenialsAreTheUsers, AllowancesInv
<1> QED
  BY <1>6, <1>7, <1>8, <1>9, <1>10, <1>11 DEF IInv

LEMMA NextIInv == ASSUME ApprovalAssumption, IInv, [ApprovalsNext]_approvalVars PROVE IInv'
<1>1. ASSUME NEW c \in Calls, Judge(c) \/ Ask(c) \/ TakeLock(c) \/ Post(c) PROVE IInv'
  BY <1>1, JudgeStep, AskStep, TakeLockStep, PostStep
<1>2. ASSUME NEW c \in Calls, \/ PostRefused(c) \/ ReceiveAnswer(c) \/ ContextEnds(c)
                               \/ TimerFires(c) \/ Apply(c) \/ Finish(c)
      PROVE IInv'
  <2>1. ASSUME ContextEnds(c) \/ TimerFires(c) PROVE IInv'
    BY <2>1, GivesUp DEF ContextEnds, TimerFires
  <2> QED
    BY <1>2, <2>1, PostRefusedStep, ReceiveAnswerStep, ApplyStep, FinishStep
<1>3. ASSUME \/ HandleRequest \/ HandleCancel \/ Interrupt \/ CloseTurn
             \/ \E key \in Answers : HandleApprovalKey(key)
      PROVE IInv'
  BY <1>3, HandleRequestStep, HandleCancelStep, InterruptStep, CloseTurnStep,
     HandleApprovalKeyStep
<1>4. ASSUME \/ ContextExpires \/ OpenTurn \/ Close \/ Exit
             \/ \E m \in Modes : SwitchMode(m)
      PROVE IInv'
  BY <1>4, HostStep, SwitchModeStep, ExitStep
<1>5. CASE UNCHANGED approvalVars
  <2>1. /\ UNCHANGED <<permission, busy, ended, up, call, serial, inbox, modal, respond>>
        /\ UNCHANGED <<allows, denies, said, grounds>>
    BY <1>5 DEF approvalVars, host, bridge, memory
  <2>2. LockInv' /\ GroundsInv' /\ TurnInv' /\ SaidInv' /\ Silent' = Silent /\ Waiters' = Waiters
    BY <2>1, CallsStay DEF IInv, TurnInv
  <2>3. TypesInv'
    BY <2>1 DEF IInv, TypesInv
  <2>4. MailInv'
    BY <2>1, <2>2 DEF IInv, MailInv
  <2> QED
    BY <2>2, <2>3, <2>4 DEF IInv
<1>6. ASSUME ApprovalsNext PROVE IInv'
  <2>1. CASE \E c \in Calls : Judge(c) \/ Ask(c) \/ TakeLock(c) \/ Post(c)
    BY <1>1, <2>1
  <2>3. CASE \E c \in Calls, r \in Requests : Begin(c, r)
    BY <2>3, BeginStep
  <2>2. CASE \E c \in Calls : \/ PostRefused(c) \/ ReceiveAnswer(c) \/ ContextEnds(c)
                             \/ TimerFires(c) \/ Apply(c) \/ Finish(c)
    BY <1>2, <2>2
  <2> QED
    BY <1>3, <1>4, <1>6, <2>1, <2>2, <2>3 DEF ApprovalsNext
<1> QED
  BY <1>5, <1>6

\* What is at the head of the mail finds no prompt; a prompt that is not awaited
\* is withdrawn.
LEMMA AwaitedPrompts == ASSUME ApprovalAssumption, IInv PROVE PromptsAreAwaited
<1>1. MailIsSound(inbox, modal, Silent, Waiters) /\ inbox \in Seq(Mail)
  BY DEF IInv, MailInv, TypesInv
<1>2. NothingIsDisplaced
  <2> SUFFICES ASSUME inbox # <<>>, Head(inbox).kind = "request" PROVE modal = NoCall
    BY DEF NothingIsDisplaced
  <2>1. 1 \in DOMAIN inbox /\ Head(inbox) = inbox[1] /\ \A k \in DOMAIN inbox : k \in Nat /\ 1 <= k
    BY <1>1, Taken
  <2>2. IsRequest(inbox, 1) /\ ~WithdrawnIn(inbox, modal, 0, 1)
    BY <2>1 DEF IsRequest, WithdrawnIn
  <2> QED
    BY <1>1, <2>1, <2>2 DEF MailIsSound
<1>3. ModalIsAwaited
  <2> SUFFICES ASSUME modal # NoCall, ~CallAt(modal, "waiting")
               PROVE  \E i \in 1..Len(inbox) : inbox[i] = [kind |-> "cancel", call |-> modal]
    BY DEF ModalIsAwaited
  <2>1. WithdrawnIn(inbox, modal, 0, Len(inbox) + 1)
    BY <1>1 DEF MailIsSound, Waiters
  <2>2. PICK k \in DOMAIN inbox : inbox[k].kind = "cancel" /\ inbox[k].call = modal
    BY <2>1 DEF WithdrawnIn
  <2>3. k \in 1 .. Len(inbox) /\ inbox[k] \in Mail
    BY <1>1, LenProperties, ElementOfSeq
  <2>4. inbox[k] = [kind |-> "cancel", call |-> modal]
    BY <2>2, <2>3 DEF Mail
  <2> QED
    BY <2>3, <2>4
<1> QED
  BY <1>2, <1>3 DEF PromptsAreAwaited

\* Who asks in auto is not denied; who has asked, outside auto, is heard first.
DespiteInv ==
  \A c \in Calls :
    /\ grounds[c] = "despite" =>
         /\ call[c].at \in {"running", "done"} /\ Tool(c) = "mcp"
         /\ CallAt(c, "running") => permission = "auto"
    /\ call[c].at \in {"queued", "locked", "waiting", "replied"} /\ Tool(c) # "host" =>
         permission = "ask"
    /\ CallAt(c, "asking") /\ Tool(c) # "host" =>
         permission = "ask" \/ (Tool(c) # "mcp" /\ denies \cap Keysof(c) = {})

\* A call moves between the places where nothing is decided.
LEMMA DespiteStays ==
  ASSUME DespiteInv, UNCHANGED <<permission, grounds>>, denies' \subseteq denies,
         \A d \in Calls : call'[d].request = call[d].request \/ grounds[d] # "despite",
         \A d \in Calls : call'[d].at \in {"queued", "locked", "waiting", "replied"} =>
           /\ call[d].at \in {"queued", "locked", "waiting", "replied"}
           /\ call'[d].request = call[d].request,
         \A d \in Calls : call'[d].at = "asking" => call'[d] = call[d],
         \A d \in Calls : call[d].at \in {"running", "done"} =>
           call'[d].at = call[d].at \/ call'[d].at = "done"
  PROVE  DespiteInv'
BY DEF DespiteInv, CallAt, Tool, Keysof

LEMMA JudgeDespite ==
  ASSUME IInv, DespiteInv, NEW c \in Calls, Judge(c) PROVE DespiteInv'
<1>1. /\ CallAt(c, "judging") /\ call[c].mode = permission /\ call \in [Calls -> CallRecord]
      /\ UNCHANGED <<permission, allows, denies>> /\ grounds[c] # "despite"
      /\ (permission = "yolo" => Tool(c) # "host") /\ permission \in Modes
      /\ DOMAIN grounds = Calls
  BY DEF Judge, host, IInv, TurnInv, TypesInv, DespiteInv, CallAt
<1>2. CASE Refuse(c)
  <2>1. Moves(c, "denied") /\ UNCHANGED grounds
    BY <1>2, Leaves DEF IInv, Refuse, Where
  <2> QED
    BY <1>1, <2>1, DespiteStays DEF Moves, CallAt
<1>3. ASSUME NEW why \in {"plan", "mode", "rule", "session"}, GoOn(c, why),
             Despite(c, why) => Tool(c) = "mcp" /\ permission = "auto"
      PROVE  DespiteInv'
  <2>1. Moves(c, "running")
        /\ grounds' = [grounds EXCEPT ![c] = IF Despite(c, why) THEN "despite" ELSE why]
    BY <1>3, Leaves DEF IInv, GoOn, Where
  <2>2. grounds'[c] = "despite" => Tool(c) = "mcp" /\ permission = "auto"
    BY <1>1, <1>3, <2>1
  <2>3. \A d \in Calls : d # c => grounds'[d] = grounds[d]
    BY <1>1, <2>1
  <2> QED
    BY <1>1, <2>1, <2>2, <2>3 DEF DespiteInv, Moves, CallAt, Tool, Keysof
<1>4. CASE /\ call' = [call EXCEPT ![c].at = "asking"] /\ UNCHANGED grounds
           /\ Escapes(c) \/ (~Waived(c) /\ permission \in {"ask", "auto"} /\ ~DeniedBefore(c))
  <2>1. Moves(c, "asking")
    BY <1>4, Goes DEF IInv, Where
  <2>2. Tool(c) # "host" => permission = "ask" \/ (Tool(c) # "mcp" /\ denies \cap Keysof(c) = {})
    BY <1>1, <1>4 DEF Escapes, Waived, DeniedBefore
  <2> QED
    BY <1>1, <1>4, <2>1, <2>2 DEF DespiteInv, Moves, CallAt, Tool, Keysof
<1>5. \/ Refuse(c)
      \/ Waived(c) /\ GoOn(c, "mode")
      \/ /\ ~DeniedBefore(c) /\ ~Escapes(c) /\ ~Waived(c)
         /\ \E why \in {"plan", "rule", "session"} : GoOn(c, why)
      \/ /\ call' = [call EXCEPT ![c].at = "asking"] /\ UNCHANGED grounds
         /\ ~Waived(c) /\ permission \in {"ask", "auto"} /\ ~DeniedBefore(c)
  BY <1>1 DEF Judge, PlanAllows, AllowedBefore, Escapes
<1>6. ASSUME Waived(c) PROVE Despite(c, "mode") => Tool(c) = "mcp" /\ permission = "auto"
  BY <1>1, <1>6 DEF Waived, Despite
<1>7. ASSUME ~DeniedBefore(c), ~Escapes(c), ~Waived(c), NEW why PROVE ~Despite(c, why)
  BY <1>7 DEF DeniedBefore, Despite
<1> QED
  BY <1>2, <1>3, <1>4, <1>5, <1>6, <1>7

LEMMA AskDespite ==
  ASSUME IInv, DespiteInv, NEW c \in Calls, Ask(c) PROVE DespiteInv'
<1>1. /\ CallAt(c, "asking") /\ call \in [Calls -> CallRecord] /\ permission \in {"ask", "auto"}
      /\ UNCHANGED <<permission, denies>> /\ grounds[c] # "despite" /\ DOMAIN grounds = Calls
      /\ Tool(c) # "host" =>
           permission = "ask" \/ (Tool(c) # "mcp" /\ denies \cap Keysof(c) = {})
  BY DEF Ask, host, IInv, TurnInv, TypesInv, DespiteInv, CallAt
<1>2. CASE Refuse(c)
  <2>1. Moves(c, "denied") /\ UNCHANGED grounds
    BY <1>2, Leaves DEF IInv, Refuse, Where
  <2> QED
    BY <1>1, <2>1, DespiteStays DEF Moves, CallAt
<1>3. CASE ReadsModeAgain(c) /\ permission = "auto" /\ GoOn(c, "mode")
  <2>1. ~Despite(c, "mode")
    BY <1>1, <1>3 DEF Despite, ReadsModeAgain
  <2>2. Moves(c, "running") /\ grounds' = [grounds EXCEPT ![c] = "mode"]
    BY <1>3, <2>1, Leaves DEF IInv, GoOn, Where
  <2>3. grounds'[c] # "despite" /\ \A d \in Calls : d # c => grounds'[d] = grounds[d]
    BY <1>1, <2>2
  <2> QED
    BY <1>1, <2>2, <2>3 DEF DespiteInv, Moves, CallAt, Tool, Keysof
<1>4. CASE /\ call' = [call EXCEPT ![c].at = "queued"] /\ UNCHANGED grounds
           /\ ~ReadsModeAgain(c) \/ permission # "auto"
  <2>1. Moves(c, "queued")
    BY <1>4, Goes DEF IInv, Where
  <2>2. Tool(c) # "host" => permission = "ask"
    BY <1>1, <1>4 DEF ReadsModeAgain
  <2> QED
    BY <1>1, <1>4, <2>1, <2>2 DEF DespiteInv, Moves, CallAt, Tool, Keysof
<1> QED
  BY <1>1, <1>2, <1>3, <1>4 DEF Ask

LEMMA ApplyDespite ==
  ASSUME IInv, DespiteInv, NEW c \in Calls, Apply(c) PROVE DespiteInv'
<1>1. /\ CallAt(c, "replied") /\ UNCHANGED permission /\ DOMAIN grounds = Calls
      /\ grounds[c] # "despite"
      /\ Tool(c) # "host" => permission = "ask"
  BY DEF Apply, host, IInv, TypesInv, DespiteInv, CallAt
<1>2. CASE Granted(c)
  <2>1. Moves(c, "running") /\ grounds' = [grounds EXCEPT ![c] = "user"] /\ denies' \subseteq denies
    BY <1>2, Leaves DEF IInv, GoOn, Despite, Where, Apply
  <2>2. grounds'[c] # "despite" /\ \A d \in Calls : d # c => grounds'[d] = grounds[d]
    BY <1>1, <2>1
  <2> QED
    BY <1>1, <2>1, <2>2 DEF DespiteInv, Moves, CallAt, Tool, Keysof
<1>3. CASE ~Granted(c)
  <2>1. Moves(c, "denied") /\ UNCHANGED grounds
    BY <1>3, Leaves DEF IInv, Refuse, Where, Apply
  <2>2. CASE permission = "ask"
    BY <1>1, <2>1, <2>2 DEF DespiteInv, Moves, CallAt, Tool
  <2>3. CASE Tool(c) = "host"
    <3>1. ~Remembered(c)
      BY <2>3 DEF Remembered
    <3>2. UNCHANGED denies
      BY <1>3, <3>1 DEF Apply
    <3> QED
      BY <1>1, <2>1, <3>2, DespiteStays DEF Moves, CallAt
  <2> QED
    BY <1>1, <2>2, <2>3
<1> QED
  BY <1>2, <1>3

LEMMA DespiteNext ==
  ASSUME ApprovalAssumption, IInv, DespiteInv, [ApprovalsNext]_approvalVars PROVE DespiteInv'
<1>1. ASSUME NEW c \in Calls, NEW r \in Requests, Begin(c, r) PROVE DespiteInv'
  <2>1. /\ call' \in [Calls -> CallRecord] /\ call'[c].at = "judging"
        /\ \A d \in Calls : d # c => call'[d] = call[d]
        /\ CallAt(c, "unused") /\ UNCHANGED <<permission, denies, grounds>>
    BY <1>1, Begins DEF IInv, Begin, host, memory
  <2>2. grounds[c] # "despite"
    BY <2>1 DEF DespiteInv, CallAt
  <2> QED
    BY <2>1, <2>2, DespiteStays DEF CallAt
<1>2. ASSUME NEW c \in Calls, NEW w \in {"locked", "waiting", "replied", "done"}, Moves(c, w),
             call[c].at \in {"queued", "locked", "waiting"} \/ (CallAt(c, "running") /\ w = "done"),
             w = "done" => CallAt(c, "running"), UNCHANGED <<permission, denies, grounds>>
      PROVE  DespiteInv'
  BY <1>2, DespiteStays DEF Moves, CallAt
<1>3. ASSUME NEW c \in Calls, TakeLock(c) \/ Post(c) \/ Finish(c) PROVE DespiteInv'
  <2>1. UNCHANGED <<permission, denies, grounds>>
    BY <1>3 DEF TakeLock, Post, Finish, host, memory
  <2>2. CASE TakeLock(c)
    BY <1>2, <2>1, <2>2, Goes DEF TakeLock, CallAt, IInv, Where
  <2>3. CASE Post(c)
    BY <1>2, <2>1, <2>3, Goes DEF Post, CallAt, IInv, Where
  <2>4. CASE Finish(c)
    BY <1>2, <2>1, <2>4, Goes DEF Finish, CallAt, IInv, Where
  <2> QED
    BY <1>3, <2>2, <2>3, <2>4
<1>4. ASSUME NEW c \in Calls, \/ PostRefused(c) \/ ReceiveAnswer(c)
                              \/ ContextEnds(c) \/ TimerFires(c)
      PROVE DespiteInv'
  <2>1. UNCHANGED <<permission, denies, grounds>> /\ call[c].at \in {"locked", "waiting"}
    BY <1>4 DEF PostRefused, ReceiveAnswer, ContextEnds, TimerFires, host, memory, CallAt
  <2>2. PICK reply \in Replies : Reply(c, reply)
    <3>1. "unanswered" \in Replies
      BY DEF Replies
    <3>2. ASSUME ReceiveAnswer(c) PROVE respond[c] \in Replies /\ Reply(c, respond[c])
      BY <3>2 DEF ReceiveAnswer, IInv, SaidInv, Honest
    <3> QED
      BY <1>4, <3>1, <3>2 DEF PostRefused, ContextEnds, TimerFires
  <2> QED
    BY <1>2, <2>1, <2>2, Replied DEF IInv
<1>5. ASSUME UNCHANGED <<permission, call, denies, grounds>> PROVE DespiteInv'
  BY <1>5, DespiteStays
<1>6. ASSUME \/ HandleRequest \/ HandleCancel \/ Interrupt \/ CloseTurn
             \/ \E key \in Answers : HandleApprovalKey(key)
      PROVE UNCHANGED <<permission, call, denies, grounds>>
  BY <1>6 DEF HandleRequest, HandleCancel, Interrupt, CloseTurn, HandleApprovalKey, host, memory
<1>7. ASSUME ContextExpires \/ OpenTurn \/ Close \/ Exit
      PROVE UNCHANGED <<permission, call, denies, grounds>>
  BY <1>7 DEF ContextExpires, OpenTurn, Close, Exit, memory
<1>8. ASSUME NEW m \in Modes, SwitchMode(m) PROVE DespiteInv'
  <2>1. UNCHANGED <<call, denies, grounds>> /\ \A c \in Calls : Settled(c)
    BY <1>8 DEF SwitchMode, ModeIsFree, memory, IInv, TurnInv
  <2> QED
    BY <2>1 DEF DespiteInv, Settled, CallAt, Tool
<1>9. CASE UNCHANGED approvalVars
  BY <1>5, <1>9 DEF approvalVars, host, memory
<1>10. ASSUME ApprovalsNext PROVE DespiteInv'
  <2>1. CASE \E c \in Calls : Judge(c) \/ Ask(c) \/ Apply(c)
    BY <2>1, JudgeDespite, AskDespite, ApplyDespite
  <2>2. CASE \E c \in Calls : \/ \E r \in Requests : Begin(c, r)
                             \/ TakeLock(c) \/ Post(c) \/ Finish(c)
    BY <1>1, <1>3, <2>2
  <2>3. CASE \E c \in Calls : \/ PostRefused(c) \/ ReceiveAnswer(c)
                             \/ ContextEnds(c) \/ TimerFires(c)
    BY <1>4, <2>3
  <2>4. CASE \E m \in Modes : SwitchMode(m)
    BY <1>8, <2>4
  <2> QED
    BY <1>5, <1>6, <1>7, <1>10, <2>1, <2>2, <2>3, <2>4 DEF ApprovalsNext
<1> QED
  BY <1>9, <1>10

LEMMA IInvHonours == ASSUME ApprovalAssumption, IInv, DespiteInv PROVE AnswersAreHonoured
<1>1. ApprovalsTypeOK
  BY DEF IInv, TypesInv, LockInv, CallRecord, AnyRequest, ApprovalsTypeOK
<1>2. PlanOnlyReads /\ RunsOnItsOwnGrounds /\ DenialsAreTheUsers
  BY DEF IInv, TurnInv, GroundsInv
<1>3. OnlyAutoOverrides
  BY DEF DespiteInv, OnlyAutoOverrides
<1> QED
  BY <1>1, <1>2, <1>3, AwaitedPrompts DEF AnswersAreHonoured

\* However calls, bridge, interface, user and timers interleave, and for any
\* calls and requests: the prompt on the screen is that of a call that waits or
\* whose withdrawal is on its way, a call runs on its own grounds, plan mode
\* only reads, what shell and patch remember as denied the user has denied, and
\* what was denied runs unasked, outside yolo, only if it is an MCP call in auto
\* (mcpTool.authorize allows before it looks; ApprovalBridge.Request, authorizeShell, authorizePatchPaths,
\* handleApprovalRequest, handleApprovalKey).
THEOREM AnswersHonoured ==
  ASSUME ApprovalAssumption PROVE ApprovalsSpec => []AnswersAreHonoured
<1>1. ApprovalsInit => IInv /\ DespiteInv
  <2>1. ASSUME ApprovalsInit PROVE DespiteInv
    BY <2>1 DEF ApprovalsInit, DespiteInv, CallAt
  <2> QED
    BY <2>1, InitIInv
<1>2. IInv /\ DespiteInv /\ [ApprovalsNext]_approvalVars => (IInv /\ DespiteInv)'
  BY NextIInv, DespiteNext
<1>3. IInv /\ DespiteInv => AnswersAreHonoured
  BY IInvHonours
<1> QED
  BY <1>1, <1>2, <1>3, PTL DEF ApprovalsSpec

-----------------------------------------------------------------------------
(* Commands: what holds of one while it runs and when it has ended.        *)

Whys == {"none", "context", "limit", "unstarted"}
Supervised == [st : {"idle", "waiting", "termed", "killed", "over"}, left : Nat, why : Whys]
Contexts == {"live", "deadline", "canceled"}
Groups == {"none", "up", "quiet", "gone"}
CommandTypeOK ==
  /\ route \in Routes /\ toolCall \in {"ready", "running", "over"}
  /\ ctx \in Contexts /\ wctx \in Contexts
  /\ run \in [Levels -> Supervised] /\ group \in [Levels -> Groups]
  /\ holder \in BOOLEAN /\ full \in BOOLEAN
  /\ crashed \in BOOLEAN /\ code \in {"none", "zero", "nonzero", "signal"}
  /\ runner \in {"open", "closing", "closed"}

\* A supervisor and its process group: a group is up only while somebody waits
\* for its end or has asked for it.
LevelsInv == \A l \in Levels :
  /\ run[l].st = "idle" <=> group[l] = "none" /\ run[l].st # "over"
  /\ group[l] = "up" => run[l].st \in {"waiting", "termed"}
  /\ l = "outer" => group[l] # "quiet"
  /\ run[l].why = "limit" => full
  /\ l = "outer" /\ ~Sandboxed => run[l].st = "idle"
\* Who ended the shell, and what is left of it when the worker has gone: nothing
\* under bubblewrap, nobody with the output pipe elsewhere.
ShellInv ==
  /\ group["inner"] \in {"quiet", "gone"} => code # "none"
  /\ run["inner"].st = "over" /\ run["inner"].why = "none" => group["inner"] \in {"quiet", "gone"}
  /\ Sandboxed /\ ~crashed /\ group["outer"] # "up" => group["inner"] # "up"
  /\ route = "bubblewrap" /\ group["outer"] # "up" => group["inner"] \in {"none", "gone"} /\ ~holder
\* The worker's context, and the time it still has when it was told to end
\* while its shell is up: more than the shell may still take.
TimerInv ==
  /\ wctx = "deadline" => ctx = "deadline"
  /\ wctx # "live" => ctx # "live"
  /\ ~Sandboxed => wctx = "live"
  /\ run["outer"].st = "termed" /\ group["outer"] = "up" =>
       /\ route = "seatbelt" /\ wctx # "live"
       /\ group["inner"] = "up" /\ run["inner"].st = "waiting" =>
            run["outer"].left = 2 * Grace + 1
       /\ group["inner"] = "up" /\ run["inner"].st = "termed" =>
            run["outer"].left > run["inner"].left + Grace
  /\ run["inner"].st = "termed" => run["inner"].left <= Grace
\* What a record says of the command.
Tells(r) ==
  /\ r.kind = "exit" => r.code = code /\ code # "none" /\ run["inner"].why = "none"
  /\ r.timedOut => ctx = "deadline"
  /\ r.cancelled => ctx # "live"
  /\ r.limited => full
AnswerInv ==
  /\ answer # None => run["inner"].st = "over" /\ Tells(answer)
  /\ toolCall = "over" => Tells(result)
  /\ toolCall = "over" /\ result.kind = "exit" => run["inner"].st = "over"
EndInv ==
  /\ ShellIsGone /\ StagedWorkerIsThere
  /\ toolCall = "ready" => \A l \in Levels : run[l].st = "idle"
CommandInv == CommandTypeOK /\ LevelsInv /\ ShellInv /\ TimerInv /\ AnswerInv /\ EndInv

\* What the end of the worker, or of the shell, makes of the processes.
Processes == group \in [Levels -> Groups] /\ holder \in BOOLEAN
             /\ code \in {"none", "zero", "nonzero", "signal"}

LEMMA WorkerEndTyped == ASSUME CommandTypeOK, WorkerEnds PROVE Processes'
BY DEF CommandTypeOK, WorkerEnds, Processes, Levels, Groups

LEMMA ShellEndTyped == ASSUME CommandTypeOK, ShellIsKilled PROVE Processes'
BY DEF CommandTypeOK, ShellIsKilled, Processes, Levels, Groups

LEMMA ShellTermTyped == ASSUME CommandTypeOK, ShellIsTermed PROVE Processes'
BY DEF CommandTypeOK, ShellIsTermed, Processes, Levels, Groups, proc

LEMMA StartKept ==
  ASSUME GraceAssumption, CommandInv, NEW l \in Levels, Start(l)
  PROVE  CommandInv'
<1>1. CommandTypeOK'
  BY DEF CommandInv, CommandTypeOK, Supervised, Whys, Groups, Start, Stop, Return
<1>2. LevelsInv'
  BY DEF CommandInv, CommandTypeOK, Supervised, Routes, LevelsInv, Sandboxed, Start,
     Stop, Return
<1>3. ShellInv'
  BY DEF CommandInv, CommandTypeOK, Supervised, Levels, ShellInv, Sandboxed, Start,
     Stop, Return
<1>4. TimerInv'
  BY DEF CommandInv, CommandTypeOK, Supervised, Levels, TimerInv, Sandboxed, Start,
     Stop, Return, CtxOf
<1>5. AnswerInv'
  BY DEF CommandInv, CommandTypeOK, Levels, AnswerInv, Tells, Start, Stop, Return
<1>6. EndInv'
  BY DEF CommandInv, EndInv, ShellIsGone, StagedWorkerIsThere, Sandboxed, Start
<1> QED
  BY <1>1, <1>2, <1>3, <1>4, <1>5, <1>6 DEF CommandInv

LEMMA StartFailsKept ==
  ASSUME GraceAssumption, CommandInv, NEW l \in Levels, StartFails(l)
  PROVE  CommandInv'
<1>1. CommandTypeOK'
  BY DEF CommandInv, CommandTypeOK, Supervised, Whys, StartFails, Return
<1>2. LevelsInv'
  BY DEF CommandInv, LevelsInv, Sandboxed, StartFails, Return
<1>3. ShellInv'
  BY DEF CommandInv, ShellInv, Sandboxed, StartFails, Return
<1>4. TimerInv'
  BY DEF CommandInv, TimerInv, Sandboxed, StartFails, Return
<1>5. AnswerInv'
  BY DEF CommandInv, AnswerInv, Tells, StartFails, Return
<1>6. EndInv'
  BY DEF CommandInv, EndInv, ShellIsGone, StagedWorkerIsThere, Sandboxed, StartFails
<1> QED
  BY <1>1, <1>2, <1>3, <1>4, <1>5, <1>6 DEF CommandInv

LEMMA SeeExitKept ==
  ASSUME GraceAssumption, CommandInv, NEW l \in Levels, SeeExit(l)
  PROVE  CommandInv'
<1>1. CommandTypeOK'
  BY DEF CommandInv, CommandTypeOK, Supervised, Whys, SeeExit, Return, WhyEnded
<1>2. LevelsInv'
  BY DEF CommandInv, LevelsInv, Sandboxed, SeeExit, Return, WhyEnded, Exited, Reached
<1>3. ShellInv'
  BY DEF CommandInv, CommandTypeOK, Levels, ShellInv, Sandboxed, SeeExit, Return,
     WhyEnded, Reached, Exited
<1>4. TimerInv'
  BY DEF CommandInv, TimerInv, Sandboxed, SeeExit, Return
<1>5. AnswerInv'
  BY DEF CommandInv, AnswerInv, Tells, SeeExit, Return, WhyEnded, Reached
<1>6. EndInv'
  BY DEF CommandInv, EndInv, ShellIsGone, StagedWorkerIsThere, Sandboxed, SeeExit
<1> QED
  BY <1>1, <1>2, <1>3, <1>4, <1>5, <1>6 DEF CommandInv

LEMMA SeeReasonKept ==
  ASSUME GraceAssumption, CommandInv, NEW l \in Levels, NEW why \in {"context", "limit"},
         SeeReason(l, why)
  PROVE  CommandInv'
<1>1. CommandTypeOK'
  BY WorkerEndTyped, ShellTermTyped DEF CommandInv, CommandTypeOK, Processes,
     Supervised, Whys, Contexts, GraceAssumption, SeeReason, SendTerm, TermGrace,
     WorkerShutdownGrace, proc
<1>2. LevelsInv'
  BY DEF CommandInv, CommandTypeOK, LevelsInv, Sandboxed, SeeReason, SendTerm,
     WorkerEnds, ShellIsTermed, Reached, proc
<1>3. ShellInv'
  <2>1. CASE l = "outer"
    BY <2>1 DEF CommandInv, CommandTypeOK, Groups, Levels, ShellInv, Sandboxed, SeeReason,
       SendTerm, WorkerEnds, proc
  <2>2. CASE l = "inner"
    BY <2>2 DEF CommandInv, CommandTypeOK, Groups, Levels, ShellInv, Sandboxed, SeeReason,
       SendTerm, ShellIsTermed, proc
  <2> QED
    BY <2>1, <2>2 DEF Levels
<1>4. TimerInv'
  BY DEF CommandInv, CommandTypeOK, Supervised, Levels, Routes, TimerInv, LevelsInv,
     Sandboxed, GraceAssumption, SeeReason, SendTerm, WorkerEnds, ShellIsTermed,
     Reached, CtxOf, TermGrace, WorkerShutdownGrace, proc
<1>5. AnswerInv'
  BY DEF CommandInv, AnswerInv, ShellInv, Tells, SeeReason, SendTerm, WorkerEnds,
     ShellIsTermed, proc
<1>6. EndInv'
  BY DEF CommandInv, CommandTypeOK, Levels, EndInv, ShellIsGone,
     StagedWorkerIsThere, Sandboxed, SeeReason, SendTerm, WorkerEnds, ShellIsTermed,
     proc
<1> QED
  BY <1>1, <1>2, <1>3, <1>4, <1>5, <1>6 DEF CommandInv

LEMMA TermExpiresKept ==
  ASSUME GraceAssumption, CommandInv, NEW l \in Levels, TermExpires(l)
  PROVE  CommandInv'
<1>1. CommandTypeOK'
  BY WorkerEndTyped, ShellEndTyped DEF CommandInv, CommandTypeOK, Supervised,
     GraceAssumption, TermExpires, Stop
<1>2. LevelsInv'
  BY DEF CommandInv, CommandTypeOK, Levels, LevelsInv, Sandboxed, TermExpires, Stop,
     SendKill, WorkerEnds, ShellIsKilled
<1>3. ShellInv'
  BY DEF CommandInv, CommandTypeOK, Supervised, ShellInv, GraceAssumption,
     TermExpires, Stop
<1>4. TimerInv'
  BY DEF CommandInv, CommandTypeOK, Levels, TimerInv, Sandboxed, TermExpires, Stop,
     SendKill, ShellIsKilled
<1>5. AnswerInv'
  BY DEF CommandInv, CommandTypeOK, Levels, AnswerInv, ShellInv, Tells, TermExpires,
     Stop, SendKill, WorkerEnds
<1>6. EndInv'
  BY DEF CommandInv, CommandTypeOK, Levels, EndInv, ShellIsGone,
     StagedWorkerIsThere, Sandboxed, TermExpires, SendKill, WorkerEnds,
     ShellIsKilled
<1> QED
  BY <1>1, <1>2, <1>3, <1>4, <1>5, <1>6 DEF CommandInv

LEMMA KillExpiresKept ==
  ASSUME GraceAssumption, CommandInv, NEW l \in Levels, KillExpires(l)
  PROVE  CommandInv'
<1>1. CommandTypeOK'
  BY DEF CommandInv, CommandTypeOK, Supervised, Whys, KillExpires, Return, WhyEnded
<1>2. LevelsInv'
  BY DEF CommandInv, LevelsInv, Sandboxed, KillExpires, Return, WhyEnded, Reached
<1>3. ShellInv'
  BY DEF CommandInv, CommandTypeOK, Groups, Levels, ShellInv, LevelsInv, Sandboxed,
     KillExpires, Return, WhyEnded, Reached, Exited
<1>4. TimerInv'
  BY DEF CommandInv, TimerInv, Sandboxed, KillExpires, Return
<1>5. AnswerInv'
  BY DEF CommandInv, AnswerInv, Tells, KillExpires, Return, WhyEnded, Reached
<1>6. EndInv'
  BY DEF CommandInv, EndInv, ShellIsGone, StagedWorkerIsThere, Sandboxed,
     KillExpires
<1> QED
  BY <1>1, <1>2, <1>3, <1>4, <1>5, <1>6 DEF CommandInv

LEMMA WorkerAnswersKept ==
  ASSUME GraceAssumption, CommandInv, WorkerAnswers
  PROVE  CommandInv'
<1>1. CommandTypeOK'
  BY WorkerEndTyped DEF CommandInv, CommandTypeOK, Processes, WorkerAnswers
<1>2. LevelsInv'
  BY DEF CommandInv, CommandTypeOK, LevelsInv, Sandboxed, WorkerAnswers, WorkerEnds
<1>3. ShellInv'
  BY DEF CommandInv, CommandTypeOK, Groups, Levels, ShellInv, LevelsInv, Sandboxed,
     WorkerAnswers, WorkerEnds
<1>4. TimerInv'
  BY DEF CommandInv, TimerInv, Sandboxed, WorkerAnswers
<1>5. AnswerInv'
  BY DEF CommandInv, CommandTypeOK, Supervised, Whys, Levels, AnswerInv, LevelsInv,
     ShellInv, TimerInv, Tells, None, Denied, Failed, WorkerAnswers, WorkerEnds, Outcome
<1>6. EndInv'
  BY DEF CommandInv, CommandTypeOK, Levels, EndInv, ShellIsGone,
     StagedWorkerIsThere, WorkerAnswers, WorkerEnds
<1> QED
  BY <1>1, <1>2, <1>3, <1>4, <1>5, <1>6 DEF CommandInv

LEMMA ReportKept ==
  ASSUME GraceAssumption, CommandInv, Report
  PROVE  CommandInv'
<1>1. CommandTypeOK'
  BY DEF CommandInv, CommandTypeOK, Report, proc
<1>2. LevelsInv'
  BY DEF CommandInv, LevelsInv, Sandboxed, Report, proc
<1>3. ShellInv'
  BY DEF CommandInv, ShellInv, Sandboxed, Report, proc
<1>4. TimerInv'
  BY DEF CommandInv, Levels, TimerInv, LevelsInv, Sandboxed, Report
<1>5. AnswerInv'
  BY DEF CommandInv, CommandTypeOK, Supervised, Whys, Levels, AnswerInv, LevelsInv,
     ShellInv, Tells, None, Denied, Failed, Report, StopOrDeny, Outcome, proc
<1>6. EndInv'
  BY DEF CommandInv, Levels, EndInv, LevelsInv, ShellInv, ShellIsGone,
     StagedWorkerIsThere, Report, proc
<1> QED
  BY <1>1, <1>2, <1>3, <1>4, <1>5, <1>6 DEF CommandInv

LEMMA TickKept ==
  ASSUME GraceAssumption, CommandInv, Tick
  PROVE  CommandInv'
<1>1. CommandTypeOK'
  BY DEF CommandInv, CommandTypeOK, Supervised, Tick, Reached, CtxOf, proc
<1>2. LevelsInv'
  BY DEF CommandInv, CommandTypeOK, Supervised, LevelsInv, Sandboxed, Tick, proc
<1>3. ShellInv'
  BY DEF CommandInv, CommandTypeOK, Supervised, Levels, ShellInv, Sandboxed, Tick,
     proc
<1>4. TimerInv'
  BY DEF CommandInv, CommandTypeOK, Supervised, Levels, TimerInv, Sandboxed,
     GraceAssumption, Tick, Busy, CtxOf, proc
<1>5. AnswerInv'
  BY DEF CommandInv, CommandTypeOK, Supervised, Levels, AnswerInv, Tells, Tick, proc
<1>6. EndInv'
  BY DEF CommandInv, CommandTypeOK, Supervised, EndInv, ShellIsGone,
     StagedWorkerIsThere, Sandboxed, Tick, proc
<1> QED
  BY <1>1, <1>2, <1>3, <1>4, <1>5, <1>6 DEF CommandInv

LEMMA SpawnKept ==
  ASSUME GraceAssumption, CommandInv, Spawn
  PROVE  CommandInv'
<1>1. CommandTypeOK'
  BY DEF CommandInv, CommandTypeOK, Spawn
<1>2. LevelsInv'
  BY DEF CommandInv, LevelsInv, Sandboxed, Spawn
<1>3. ShellInv'
  BY DEF CommandInv, ShellInv, Sandboxed, Spawn
<1>4. TimerInv'
  BY DEF CommandInv, TimerInv, Sandboxed, Spawn
<1>5. AnswerInv'
  BY DEF CommandInv, AnswerInv, Tells, Spawn
<1>6. EndInv'
  BY DEF CommandInv, EndInv, ShellIsGone, StagedWorkerIsThere, Sandboxed, Spawn
<1> QED
  BY <1>1, <1>2, <1>3, <1>4, <1>5, <1>6 DEF CommandInv

LEMMA HolderEndsKept ==
  ASSUME GraceAssumption, CommandInv, HolderEnds
  PROVE  CommandInv'
<1>1. CommandTypeOK'
  BY DEF CommandInv, CommandTypeOK, Supervised, Whys, HolderEnds
<1>2. LevelsInv'
  BY DEF CommandInv, LevelsInv, Sandboxed, HolderEnds
<1>3. ShellInv'
  BY DEF CommandInv, ShellInv, Sandboxed, HolderEnds
<1>4. TimerInv'
  BY DEF CommandInv, TimerInv, Sandboxed, HolderEnds
<1>5. AnswerInv'
  BY DEF CommandInv, AnswerInv, Tells, HolderEnds
<1>6. EndInv'
  BY DEF CommandInv, EndInv, ShellIsGone, StagedWorkerIsThere, Sandboxed, HolderEnds
<1> QED
  BY <1>1, <1>2, <1>3, <1>4, <1>5, <1>6 DEF CommandInv

LEMMA OthersEndKept ==
  ASSUME GraceAssumption, CommandInv, NEW rest \in {"quiet", "gone"}, OthersEnd(rest)
  PROVE  CommandInv'
<1>1. CommandTypeOK'
  BY DEF CommandInv, CommandTypeOK, Groups, OthersEnd
<1>2. LevelsInv'
  BY DEF CommandInv, LevelsInv, Sandboxed, OthersEnd
<1>3. ShellInv'
  BY DEF CommandInv, ShellInv, Sandboxed, OthersEnd
<1>4. TimerInv'
  BY DEF CommandInv, TimerInv, Sandboxed, OthersEnd
<1>5. AnswerInv'
  BY DEF CommandInv, AnswerInv, Tells, OthersEnd
<1>6. EndInv'
  BY DEF CommandInv, EndInv, ShellIsGone, StagedWorkerIsThere, Sandboxed, OthersEnd
<1> QED
  BY <1>1, <1>2, <1>3, <1>4, <1>5, <1>6 DEF CommandInv

LEMMA FillBufferKept ==
  ASSUME GraceAssumption, CommandInv, FillBuffer
  PROVE  CommandInv'
<1>1. CommandTypeOK'
  BY DEF CommandInv, CommandTypeOK, FillBuffer, proc
<1>2. LevelsInv'
  BY DEF CommandInv, LevelsInv, Sandboxed, FillBuffer, proc
<1>3. ShellInv'
  BY DEF CommandInv, ShellInv, Sandboxed, FillBuffer, proc
<1>4. TimerInv'
  BY DEF CommandInv, TimerInv, Sandboxed, FillBuffer, proc
<1>5. AnswerInv'
  BY DEF CommandInv, AnswerInv, Tells, FillBuffer, proc
<1>6. EndInv'
  BY DEF CommandInv, EndInv, ShellIsGone, StagedWorkerIsThere, Sandboxed,
     FillBuffer, proc
<1> QED
  BY <1>1, <1>2, <1>3, <1>4, <1>5, <1>6 DEF CommandInv

LEMMA ShellExitsKept ==
  ASSUME GraceAssumption, CommandInv, NEW status \in {"zero", "nonzero"},
         NEW rest \in {"up", "quiet", "gone"}, ShellExits(status, rest)
  PROVE  CommandInv'
<1>1. CommandTypeOK'
  BY DEF CommandInv, CommandTypeOK, Groups, ShellExits
<1>2. LevelsInv'
  BY DEF CommandInv, LevelsInv, Sandboxed, ShellExits
<1>3. ShellInv'
  BY DEF CommandInv, ShellInv, Sandboxed, ShellExits
<1>4. TimerInv'
  BY DEF CommandInv, TimerInv, Sandboxed, ShellExits
<1>5. AnswerInv'
  BY DEF CommandInv, AnswerInv, Tells, ShellExits
<1>6. EndInv'
  BY DEF CommandInv, EndInv, ShellIsGone, StagedWorkerIsThere, Sandboxed, ShellExits
<1> QED
  BY <1>1, <1>2, <1>3, <1>4, <1>5, <1>6 DEF CommandInv

LEMMA WorkerDeadlineKept ==
  ASSUME GraceAssumption, CommandInv, WorkerDeadline
  PROVE  CommandInv'
<1>1. CommandTypeOK'
  BY DEF CommandInv, CommandTypeOK, WorkerDeadline, proc
<1>2. LevelsInv'
  BY DEF CommandInv, LevelsInv, Sandboxed, WorkerDeadline, proc
<1>3. ShellInv'
  BY DEF CommandInv, ShellInv, WorkerDeadline, proc
<1>4. TimerInv'
  BY DEF CommandInv, TimerInv, Sandboxed, WorkerDeadline
<1>5. AnswerInv'
  BY DEF CommandInv, AnswerInv, Tells, WorkerDeadline, proc
<1>6. EndInv'
  BY DEF CommandInv, EndInv, ShellIsGone, StagedWorkerIsThere, WorkerDeadline, proc
<1> QED
  BY <1>1, <1>2, <1>3, <1>4, <1>5, <1>6 DEF CommandInv

LEMMA WorkerDiesKept ==
  ASSUME GraceAssumption, CommandInv, WorkerDies
  PROVE  CommandInv'
<1>1. CommandTypeOK'
  BY WorkerEndTyped DEF CommandInv, CommandTypeOK, Processes, WorkerDies
<1>2. LevelsInv'
  BY DEF CommandInv, CommandTypeOK, LevelsInv, Sandboxed, WorkerDies, WorkerEnds
<1>3. ShellInv'
  BY DEF CommandInv, CommandTypeOK, Groups, Levels, ShellInv, Sandboxed, WorkerDies,
     WorkerEnds
<1>4. TimerInv'
  BY DEF CommandInv, CommandTypeOK, TimerInv, Sandboxed, WorkerDies, WorkerEnds
<1>5. AnswerInv'
  BY DEF CommandInv, AnswerInv, ShellInv, Tells, WorkerDies, WorkerEnds
<1>6. EndInv'
  BY DEF CommandInv, CommandTypeOK, Groups, Levels, EndInv, ShellIsGone, Sandboxed,
     StagedWorkerIsThere, WorkerDies, WorkerEnds
<1> QED
  BY <1>1, <1>2, <1>3, <1>4, <1>5, <1>6 DEF CommandInv

LEMMA BeginExecutionKept ==
  ASSUME GraceAssumption, CommandInv, beginExecution
  PROVE  CommandInv'
<1>1. CommandTypeOK'
  BY DEF CommandInv, CommandTypeOK, beginExecution, proc
<1>2. LevelsInv'
  BY DEF CommandInv, LevelsInv, Sandboxed, beginExecution, proc
<1>3. ShellInv'
  BY DEF CommandInv, ShellInv, Sandboxed, beginExecution, proc
<1>4. TimerInv'
  BY DEF CommandInv, TimerInv, Sandboxed, beginExecution, proc
<1>5. AnswerInv'
  BY DEF CommandInv, Levels, AnswerInv, EndInv, Tells, None, Denied, beginExecution,
     StopOrDeny
<1>6. EndInv'
  BY DEF CommandInv, Levels, EndInv, LevelsInv, ShellInv, ShellIsGone,
     StagedWorkerIsThere, Sandboxed, beginExecution, proc
<1> QED
  BY <1>1, <1>2, <1>3, <1>4, <1>5, <1>6 DEF CommandInv

LEMMA CloseRunnerKept ==
  ASSUME GraceAssumption, CommandInv, closeRunner
  PROVE  CommandInv'
<1>1. CommandTypeOK'
  BY DEF CommandInv, CommandTypeOK, closeRunner, proc
<1>2. LevelsInv'
  BY DEF CommandInv, LevelsInv, Sandboxed, closeRunner, proc
<1>3. ShellInv'
  BY DEF CommandInv, ShellInv, Sandboxed, closeRunner, proc
<1>4. TimerInv'
  BY DEF CommandInv, TimerInv, Sandboxed, closeRunner, proc
<1>5. AnswerInv'
  BY DEF CommandInv, AnswerInv, Tells, closeRunner, proc
<1>6. EndInv'
  BY DEF CommandInv, EndInv, ShellIsGone, StagedWorkerIsThere, closeRunner, proc
<1> QED
  BY <1>1, <1>2, <1>3, <1>4, <1>5, <1>6 DEF CommandInv

LEMMA RemoveWorkerKept ==
  ASSUME GraceAssumption, CommandInv, RemoveWorker
  PROVE  CommandInv'
<1>1. CommandTypeOK'
  BY DEF CommandInv, CommandTypeOK, RemoveWorker, proc
<1>2. LevelsInv'
  BY DEF CommandInv, LevelsInv, Sandboxed, RemoveWorker, proc
<1>3. ShellInv'
  BY DEF CommandInv, ShellInv, Sandboxed, RemoveWorker, proc
<1>4. TimerInv'
  BY DEF CommandInv, TimerInv, Sandboxed, RemoveWorker, proc
<1>5. AnswerInv'
  BY DEF CommandInv, AnswerInv, Tells, RemoveWorker, proc
<1>6. EndInv'
  BY DEF CommandInv, EndInv, ShellIsGone, StagedWorkerIsThere, Sandboxed,
     RemoveWorker, proc
<1> QED
  BY <1>1, <1>2, <1>3, <1>4, <1>5, <1>6 DEF CommandInv

LEMMA EndContextKept ==
  ASSUME GraceAssumption, CommandInv, NEW how \in {"deadline", "canceled"}, EndContext(how)
  PROVE  CommandInv'
<1>1. CommandTypeOK'
  BY DEF CommandInv, CommandTypeOK, Contexts, EndContext, proc
<1>2. LevelsInv'
  BY DEF CommandInv, LevelsInv, Sandboxed, EndContext, proc
<1>3. ShellInv'
  BY DEF CommandInv, ShellInv, Sandboxed, EndContext, proc
<1>4. TimerInv'
  BY DEF CommandInv, TimerInv, EndContext, proc
<1>5. AnswerInv'
  BY DEF CommandInv, AnswerInv, Tells, EndContext, proc
<1>6. EndInv'
  BY DEF CommandInv, EndInv, ShellIsGone, StagedWorkerIsThere, Sandboxed, EndContext
<1> QED
  BY <1>1, <1>2, <1>3, <1>4, <1>5, <1>6 DEF CommandInv

LEMMA CommandStarts == ASSUME GraceAssumption, CommandInit PROVE CommandInv
  BY DEF CommandInit, CommandInv, CommandTypeOK, LevelsInv, ShellInv, TimerInv, AnswerInv,
         EndInv, ShellIsGone, StagedWorkerIsThere, Tells, Idle, Supervised, Whys, Contexts,
         Groups, Levels, Routes

LEMMA CommandSteps ==
  ASSUME GraceAssumption, CommandInv, [CommandNext]_cvars
  PROVE  CommandInv'
<1>1. CASE Supervise
  <2>1. ASSUME NEW l \in Levels, Start(l) \/ SeeExit(l) \/ TermExpires(l) \/ KillExpires(l)
        PROVE  CommandInv'
    BY <2>1, StartKept, SeeExitKept, TermExpiresKept, KillExpiresKept
  <2>2. ASSUME NEW l \in Levels, NEW why \in {"context", "limit"}, SeeReason(l, why)
        PROVE  CommandInv'
    BY <2>2, SeeReasonKept
  <2> QED
    BY <1>1, <2>1, <2>2, WorkerAnswersKept, ReportKept DEF Supervise
<1>2. CASE Tick
  BY <1>2, TickKept
<1>3. ASSUME NEW l \in Levels, StartFails(l) PROVE CommandInv'
  BY <1>3, StartFailsKept
<1>4. CASE Spawn \/ HolderEnds \/ FillBuffer
  BY <1>4, SpawnKept, HolderEndsKept, FillBufferKept
<1>5. ASSUME NEW rest \in {"quiet", "gone"}, OthersEnd(rest) PROVE CommandInv'
  BY <1>5, OthersEndKept
<1>6. ASSUME NEW status \in {"zero", "nonzero"}, NEW rest \in {"up", "quiet", "gone"},
             ShellExits(status, rest)
      PROVE  CommandInv'
  BY <1>6, ShellExitsKept
<1>7. CASE WorkerDeadline \/ WorkerDies
  BY <1>7, WorkerDeadlineKept, WorkerDiesKept
<1>8. CASE beginExecution \/ closeRunner \/ RemoveWorker
  BY <1>8, BeginExecutionKept, CloseRunnerKept, RemoveWorkerKept
<1>9. ASSUME NEW how \in {"deadline", "canceled"}, EndContext(how) PROVE CommandInv'
  BY <1>9, EndContextKept
<1>10. CASE UNCHANGED cvars
  BY <1>10 DEF cvars, CommandInv, CommandTypeOK, LevelsInv, ShellInv, TimerInv, AnswerInv,
      EndInv, ShellIsGone, StagedWorkerIsThere, Tells, Sandboxed, Supervised
<1> QED
  BY <1>1, <1>2, <1>3, <1>4, <1>5, <1>6, <1>7, <1>8, <1>9, <1>10 DEF CommandNext

(* Every reachable state satisfies the invariant of the supervisors: what  *)
(* each level and its process group may be, and the time the outer one has *)
(* left when it told the worker to end (runCommandWithLifecycleWithGrace). *)
THEOREM CommandsAreSupervised == ASSUME GraceAssumption PROVE CommandSpec => []CommandInv
<1>1. CommandInit => CommandInv
  BY CommandStarts
<1>2. CommandInv /\ [CommandNext]_cvars => CommandInv'
  BY CommandSteps
<1> QED
  BY <1>1, <1>2, PTL DEF CommandSpec

(* When a call has its result its shell has ended and nobody left in the   *)
(* shell's group holds its output, unless the worker was killed from       *)
(* outside; under bubblewrap nothing of the command is left at all; the    *)
(* result says what happened, and the staged worker was there: for every   *)
(* grace (runSandboxShell, runCommandWithLifecycleWithGrace).              *)
THEOREM CommandsSettle == ASSUME GraceAssumption PROVE CommandSpec => []CommandIsSettled
<1>1. CommandInv => CommandIsSettled
  BY DEF CommandInv, CommandTypeOK, AnswerInv, EndInv, Tells, CommandIsSettled, OutcomeIsTrue
<1> QED
  BY <1>1, CommandsAreSupervised, PTL

-----------------------------------------------------------------------------
(* Patches.                                                                *)

\* What others write is named, for no prover knows that a literal is a string.
Texts == (STRING \cup {"theirs"}) \ Reserved
Bodies == {Absent} \cup SUBSET Texts
Operations == [type : {"create", "update", "delete", "forbidden"}, path : Paths,
               old : STRING, new : STRING]
Phases == {"unused", "checking", "refused", "applying", "failed", "applied", "killed"}

\* After, of a patch, what it writes and what was there.
LastOf(S) == CHOOSE i \in S : \A j \in S : j <= i
On(patch, n, p) == {i \in 1..n : patch[i].path = p}
Left(patch, written, was, n, p) ==
  IF On(patch, n, p) = {} THEN was[p] ELSE written[LastOf(On(patch, n, p))]

EditTypes ==
  /\ files \in [Paths -> Bodies]
  /\ patching \in [Callers -> [at : Phases, patch : Patches \cup {<<>>}, next : Nat]]
  /\ staged \in [Callers -> [Paths -> Bodies \cup {Untouched}]]
  /\ steps \in [Callers -> Seq(Bodies)]
  /\ temps \subseteq Callers /\ alone \subseteq Callers
  /\ before \in [Callers -> [Paths -> Bodies]]

\* What the operation i of a call makes of what those before it leave.
Makes(c, i) == LET o == patching[c].patch[i] IN Effect(o, After(c, i - 1, o.path))

\* The operation a call is at, while it checks and while it makes.
Progress(c) ==
  /\ At(c, "unused") => steps[c] = <<>> /\ staged[c] = [p \in Paths |-> Untouched]
  /\ ~At(c, "unused") => /\ 0 < patching[c].next
                         /\ patching[c].next <= Len(patching[c].patch) + 1
                         /\ patching[c].patch \in Patches
  /\ At(c, "checking") \/ At(c, "refused") => Len(steps[c]) = patching[c].next - 1
  /\ At(c, "refused") => More(c)
  /\ At(c, "applying") => Len(steps[c]) = Len(patching[c].patch)

\* What is staged is what the checked operations leave.
Stages(c) ==
  At(c, "checking") => \A p \in Paths :
    staged[c][p] = IF On(patching[c].patch, patching[c].next - 1, p) = {}
                   THEN Untouched ELSE After(c, patching[c].next - 1, p)

\* A temporary file is that of the operation its call is at.
Temp(c) ==
  c \in temps => At(c, "killed") \/ (At(c, "applying") /\ More(c) /\ Writes(Current(c)))

\* The two properties, of a call.
Prefix(c) ==
  c \in alone /\ Reads(c) => files = [p \in Paths |-> After(c, Made(c), p)]
Reasons(c) ==
  c \in alone => /\ \A i \in DOMAIN steps[c] : steps[c][i] = Makes(c, i)
                 /\ At(c, "refused") => Makes(c, patching[c].next) = Impossible

CallInv(c) == Progress(c) /\ Stages(c) /\ Temp(c) /\ Prefix(c) /\ Reasons(c)
EditInv == EditTypes /\ \A c \in Callers : CallInv(c)

-----------------------------------------------------------------------------
\* A bounded set of numbers has a greatest member.
LEMMA LastOne ==
  ASSUME NEW k \in Nat, NEW S, S \subseteq 1..k, S # {}
  PROVE  \E i \in S : \A j \in S : j <= i
<1>1. PICK R : R = {ss \in Nat \X Nat : ss[1] < ss[2]}
  OBVIOUS
<1>2. IsWellFoundedOn(R, Nat)
  BY <1>1, NatLessThanWellFounded DEF OpToRel
<1>3. PICK T : T = {k - i : i \in S}
  OBVIOUS
<1>4. T \subseteq Nat /\ T # {}
  <2>1. \A i \in S : k - i \in Nat
    OBVIOUS
  <2> QED
    BY <1>3, <2>1
<1>5. PICK m \in T : \A n \in T : ~(<<n, m>> \in R)
  BY <1>2, <1>4, WFMin
<1>6. PICK i \in S : m = k - i
  BY <1>3, <1>5
<1>7. \A j \in S : ~(k - j < k - i)
  <2> TAKE j \in S
  <2>1. k - j \in T /\ k - j \in Nat /\ k - i \in Nat
    BY <1>3, <1>4
  <2>2. ~(<<k - j, k - i>> \in R)
    BY <1>5, <1>6, <2>1
  <2>3. <<k - j, k - i>> \in Nat \X Nat
    BY <2>1
  <2> QED
    BY <1>1, <2>2, <2>3
<1> QED
  BY <1>7

\* Before the first operation there is what was there.
LEMMA NothingLeft ==
  ASSUME NEW patch, NEW written, NEW was, NEW p
  PROVE  Left(patch, written, was, 0, p) = was[p]
<1>1. 1..0 = {}
  OBVIOUS
<1> QED
  BY <1>1 DEF Left, On

\* After is what is left, of a call's patch.
LEMMA AfterIsLeft ==
  ASSUME NEW c, NEW n, NEW p
  PROVE  After(c, n, p) = Left(patching[c].patch, steps[c], before[c], n, p)
BY DEF After, Left, On, LastOf

LEMMA LastIsOne ==
  ASSUME NEW k \in Nat, NEW S, S \subseteq 1..k, S # {}
  PROVE  LastOf(S) \in S /\ \A j \in S : j <= LastOf(S)
BY LastOne DEF LastOf

\* One more operation leaves what it writes at its path and the rest alone.
LEMMA OneMoreLeft ==
  ASSUME NEW patch, NEW written, NEW was, NEW p, NEW n \in Nat
  PROVE  Left(patch, written, was, n + 1, p) =
           IF patch[n + 1].path = p THEN written[n + 1] ELSE Left(patch, written, was, n, p)
<1>1. CASE patch[n + 1].path = p
  <2>1. n + 1 \in On(patch, n + 1, p)
    BY <1>1 DEF On
  <2>2. On(patch, n + 1, p) \subseteq 1..(n + 1)
    BY DEF On
  <2>3. LastOf(On(patch, n + 1, p)) \in 1..(n + 1) /\ n + 1 <= LastOf(On(patch, n + 1, p))
    BY <2>1, <2>2, LastIsOne
  <2>4. LastOf(On(patch, n + 1, p)) = n + 1
    BY <2>3
  <2> QED
    BY <1>1, <2>1, <2>4 DEF Left
<1>2. CASE patch[n + 1].path # p
  <2>1. On(patch, n + 1, p) = On(patch, n, p)
    BY <1>2 DEF On
  <2> QED
    BY <1>2, <2>1 DEF Left
<1> QED
  BY <1>1, <1>2

\* What is left depends on nothing but the contents written so far,
LEMMA LeftAgrees ==
  ASSUME NEW patch, NEW was, NEW p, NEW n \in Nat, NEW written, NEW other,
         \A i \in 1..n : other[i] = written[i]
  PROVE  Left(patch, other, was, n, p) = Left(patch, written, was, n, p)
<1>1. CASE On(patch, n, p) = {}
  BY <1>1 DEF Left
<1>2. CASE On(patch, n, p) # {}
  <2>1. LastOf(On(patch, n, p)) \in 1..n
    BY <1>2, LastIsOne DEF On
  <2> QED
    BY <1>2, <2>1 DEF Left
<1> QED
  BY <1>1, <1>2

\* and is a content if they are.
LEMMA LeftIsABody ==
  ASSUME NEW patch, NEW was \in [Paths -> Bodies], NEW p \in Paths, NEW n \in Nat,
         NEW written, \A i \in 1..n : written[i] \in Bodies
  PROVE  Left(patch, written, was, n, p) \in Bodies
<1>1. CASE On(patch, n, p) = {}
  BY <1>1 DEF Left
<1>2. CASE On(patch, n, p) # {}
  <2>1. LastOf(On(patch, n, p)) \in 1..n
    BY <1>2, LastIsOne DEF On
  <2> QED
    BY <1>2, <2>1 DEF Left
<1> QED
  BY <1>1, <1>2

\* No content is one of those that stand for none.
LEMMA BodiesAreBodies == Untouched \notin Bodies /\ Impossible \notin Bodies
<1>1. Untouched # Absent /\ Impossible # Absent
  BY DEF Untouched, Absent, Impossible
<1>2. "untouched" \in Reserved /\ "impossible" \in Reserved
  BY DEF Reserved, Absent, Untouched, Impossible
<1> QED
  BY <1>1, <1>2 DEF Bodies, Texts, Untouched, Impossible

\* An operation on a content leaves one or cannot be made.
LEMMA EffectIsABody ==
  ASSUME NEW o \in Ops, NEW body \in Bodies, PatchAssumption
  PROVE  Effect(o, body) \in Bodies \cup {Impossible}
<1>1. /\ o \in Operations
      /\ o.type \in {"create", "update"} => o.new \in Texts
  <2>1. PICK patch \in Patches : \E i \in DOMAIN patch : o = patch[i]
    BY DEF Ops
  <2>2. patch \in Seq(Operations)
    BY <2>1 DEF PatchAssumption, Operations
  <2>3. o \in Operations
    BY <2>1, <2>2
  <2>4. o.type \in {"create", "update"} => o.new \notin Reserved
    BY DEF PatchAssumption
  <2>5. o.new \in STRING
    BY <2>3 DEF Operations
  <2> QED
    BY <2>3, <2>4, <2>5 DEF Texts
<1>2. CASE o.type = "create"
  BY <1>1, <1>2 DEF Effect, Bodies
<1>3. CASE o.type = "update"
  <2>1. CASE body # Absent /\ o.old \in body
    <3>1. body \subseteq Texts
      BY <2>1 DEF Bodies
    <3>2. (body \ {o.old}) \cup {o.new} \in Bodies
      BY <1>1, <1>3, <3>1 DEF Bodies
    <3> QED
      BY <1>3, <2>1, <3>2 DEF Effect
  <2>2. CASE ~(body # Absent /\ o.old \in body)
    BY <1>3, <2>2 DEF Effect
  <2> QED
    BY <2>1, <2>2
<1>4. CASE o.type \notin {"create", "update"}
  BY <1>4 DEF Effect, Bodies
<1> QED
  BY <1>2, <1>3, <1>4

-----------------------------------------------------------------------------
LEMMA AfterIsLeftNext ==
  ASSUME NEW c, NEW n, NEW p
  PROVE  After(c, n, p)' = Left(patching'[c].patch, steps'[c], before'[c], n, p)
BY DEF After, Left, On, LastOf

\* What one call does leaves what another one has made and will make.
LEMMA OthersStay ==
  ASSUME NEW d \in Callers, CallInv(d),
         patching'[d] = patching[d], staged'[d] = staged[d], steps'[d] = steps[d],
         before'[d] = before[d], d \in temps' => d \in temps,
         d \in alone' => d \in alone /\ (Reads(d) => files' = files)
  PROVE  CallInv(d)'
<1>1. \A n, p : After(d, n, p)' = After(d, n, p)
  BY AfterIsLeft, AfterIsLeftNext
<1>2. \A i : Makes(d, i)' = Makes(d, i)
  BY <1>1 DEF Makes, Effect
<1>3. Progress(d)'
  BY DEF CallInv, Progress, At, More
<1>4. Stages(d)'
  BY <1>1 DEF CallInv, Stages, At, On
<1>5. Temp(d)'
  BY DEF CallInv, Temp, At, More, Writes, Current
<1>6. Prefix(d)'
  <2>1. Made(d)' = Made(d) /\ Reads(d)' = Reads(d)
    BY DEF Made, Reads, At
  <2> QED
    BY <1>1, <2>1 DEF CallInv, Prefix
<1>7. Reasons(d)'
  BY <1>2 DEF CallInv, Reasons, At
<1> QED
  BY <1>3, <1>4, <1>5, <1>6, <1>7 DEF CallInv

LEMMA EditsStart == ASSUME PatchAssumption PROVE EditsInit => EditInv
<1> SUFFICES ASSUME EditsInit PROVE EditInv
  OBVIOUS
<1>1. Original \in [Paths -> Bodies]
  BY DEF PatchAssumption, Bodies, Texts
<1>2. EditTypes
  BY <1>1 DEF EditsInit, EditTypes, Phases
<1>3. ASSUME NEW c \in Callers PROVE CallInv(c)
  BY DEF EditsInit, CallInv, Progress, Stages, Temp, Prefix, Reasons, At, Reads
<1> QED
  BY <1>2, <1>3 DEF EditInv

LEMMA BeginPatchKeeps ==
  ASSUME PatchAssumption, EditInv, NEW c \in Callers, NEW patch \in Patches, BeginPatch(c, patch)
  PROVE  EditInv'
<1>1. EditTypes'
  BY DEF EditInv, EditTypes, BeginPatch, Phases
<1>2. ASSUME NEW d \in Callers, d # c PROVE CallInv(d)'
  BY <1>2, OthersStay DEF EditInv, EditTypes, BeginPatch
<1>3. /\ patching'[c] = [at |-> "checking", patch |-> patch, next |-> 1] /\ before'[c] = files
      /\ steps'[c] = <<>> /\ staged'[c] = [p \in Paths |-> Untouched] /\ files' = files
      /\ c \notin temps'
  BY DEF EditInv, EditTypes, CallInv, Progress, Temp, At, BeginPatch
<1>4. patch \in Seq(Operations) /\ Len(patch) \in Nat
  <2>1. patch \in Seq(Operations)
    BY DEF PatchAssumption, Operations
  <2> QED
    BY <2>1
<1>5. Progress(c)'
  BY <1>3, <1>4 DEF Progress, At, More
<1>6. Stages(c)'
  <2>1. \A p : On(patch, 0, p) = {}
    BY DEF On
  <2> QED
    BY <1>3, <2>1 DEF Stages, At, On
<1>7. Temp(c)'
  BY <1>3 DEF Temp
<1>8. Prefix(c)'
  <2>1. Made(c)' = 0
    BY <1>3 DEF Made, At
  <2>2. \A p \in Paths : After(c, 0, p)' = files[p]
    BY <1>3, AfterIsLeftNext, NothingLeft
  <2>3. files = [p \in Paths |-> files[p]]
    BY DEF EditInv, EditTypes
  <2> QED
    BY <1>3, <2>1, <2>2, <2>3 DEF Prefix
<1>9. Reasons(c)'
  BY <1>3 DEF Reasons, At
<1> QED
  BY <1>1, <1>2, <1>5, <1>6, <1>7, <1>8, <1>9 DEF EditInv, CallInv

\* A call that is nobody's victim checks each operation against what those
\* before it leave.
LEMMA SeenIsAfter ==
  ASSUME EditInv, NEW c \in Callers, At(c, "checking"), NEW p \in Paths
  PROVE  /\ Seen(c, p) \in Bodies
         /\ c \in alone => Seen(c, p) = After(c, patching[c].next - 1, p)
<1>1. PICK n \in Nat : /\ n = patching[c].next - 1 /\ n = Len(steps[c])
                        /\ steps[c] \in Seq(Bodies)
  BY DEF EditInv, EditTypes, CallInv, Progress, At
<1>2. staged[c][p] = IF On(patching[c].patch, n, p) = {} THEN Untouched ELSE After(c, n, p)
  BY <1>1 DEF EditInv, CallInv, Stages
<1>3. before[c] \in [Paths -> Bodies] /\ files[p] \in Bodies
  BY DEF EditInv, EditTypes
<1>4. After(c, n, p) \in Bodies
  <2>1. \A i \in 1..n : steps[c][i] \in Bodies
    BY <1>1
  <2> QED
    BY <1>1, <1>3, <2>1, AfterIsLeft, LeftIsABody
<1>5. c \in alone => files[p] = After(c, 0, p)
  <2>1. Made(c) = 0 /\ Reads(c)
    BY DEF Made, At, Reads
  <2> QED
    BY <2>1 DEF EditInv, CallInv, Prefix
<1>6. On(patching[c].patch, n, p) = {} => After(c, n, p) = After(c, 0, p)
  <2>1. After(c, 0, p) = before[c][p]
    BY AfterIsLeft, NothingLeft
  <2>2. On(patching[c].patch, n, p) = {} => After(c, n, p) = before[c][p]
    BY AfterIsLeft DEF Left
  <2> QED
    BY <2>1, <2>2
<1> QED
  BY <1>1, <1>2, <1>3, <1>4, <1>5, <1>6, BodiesAreBodies DEF Seen

LEMMA CheckKeeps ==
  ASSUME PatchAssumption, EditInv, NEW c \in Callers, Check(c)
  PROVE  EditInv'
<1>0. PICK o : o = Current(c)
  OBVIOUS
<1>b. PICK body : body = Effect(o, Seen(c, o.path))
  OBVIOUS
<1>1. PICK n \in Nat :
        /\ n = patching[c].next - 1 /\ n = Len(steps[c]) /\ n + 1 = patching[c].next
        /\ steps[c] \in Seq(Bodies) /\ patching[c].patch \in Patches
        /\ n + 1 <= Len(patching[c].patch)
  BY DEF EditInv, EditTypes, CallInv, Progress, At, Check, More
<1>2. /\ patching[c].patch \in Seq(Operations) /\ o = patching[c].patch[n + 1]
      /\ o \in Operations /\ o \in Ops
  <2>1. patching[c].patch \in Seq(Operations)
    BY <1>1 DEF PatchAssumption, Operations
  <2>2. n + 1 \in DOMAIN patching[c].patch
    BY <1>1, <2>1
  <2> QED
    BY <1>0, <1>1, <2>1, <2>2 DEF Current, Ops
<1>3. o.path \in Paths
  BY <1>2 DEF Operations
<1>4. /\ Seen(c, o.path) \in Bodies
      /\ c \in alone => Seen(c, o.path) = After(c, n, o.path)
  BY <1>1, <1>3, SeenIsAfter DEF Check
<1>5. body \in Bodies \cup {Impossible}
  BY <1>b, <1>2, <1>4, EffectIsABody
<1>6. c \in alone => body = Makes(c, n + 1)
  BY <1>b, <1>1, <1>2, <1>4 DEF Makes
<1>7. c \notin temps
  BY DEF EditInv, EditTypes, CallInv, Temp, At, Check
<1>8. ASSUME NEW d \in Callers, d # c PROVE CallInv(d)'
  BY <1>8, OthersStay DEF EditInv, EditTypes, Check, End, Advance
<1>9. CASE body = Impossible
  <2>1. /\ patching' = [patching EXCEPT ![c].at = "refused"]
        /\ UNCHANGED <<files, staged, steps, temps, before, alone>>
    BY <1>0, <1>b, <1>9 DEF Check, End
  <2>2. EditTypes'
    BY <2>1 DEF EditInv, EditTypes, Phases
  <2>3. /\ patching'[c].at = "refused" /\ patching'[c].patch = patching[c].patch
        /\ patching'[c].next = n + 1
    BY <1>1, <2>1 DEF EditInv, EditTypes
  <2>4. \A i, p : After(c, i, p)' = After(c, i, p)
    BY <2>1, <2>3, AfterIsLeft, AfterIsLeftNext
  <2>5. \A i : Makes(c, i)' = Makes(c, i)
    BY <2>3, <2>4 DEF Makes, Effect
  <2>6. Progress(c)'
    BY <1>1, <2>1, <2>3 DEF Progress, At, More
  <2>7. Stages(c)' /\ Temp(c)' /\ Prefix(c)'
    BY <1>7, <2>1, <2>3 DEF Stages, Temp, Prefix, At, Reads
  <2>8. Reasons(c)'
    BY <1>1, <1>6, <1>9, <2>1, <2>3, <2>5 DEF EditInv, CallInv, Reasons, At
  <2> QED
    BY <1>8, <2>2, <2>6, <2>7, <2>8 DEF EditInv, CallInv
<1>10. CASE body # Impossible
  <2>1. /\ patching' = [patching EXCEPT ![c].next = @ + 1]
        /\ staged' = [staged EXCEPT ![c][o.path] = body]
        /\ steps' = [steps EXCEPT ![c] = Append(@, body)]
        /\ UNCHANGED <<files, temps, before, alone>>
    BY <1>0, <1>b, <1>10 DEF Check, Advance
  <2>2. body \in Bodies
    BY <1>5, <1>10
  <2>3. EditTypes'
    <3>1. steps' \in [Callers -> Seq(Bodies)]
      BY <1>1, <2>1, <2>2 DEF EditInv, EditTypes
    <3>2. staged' \in [Callers -> [Paths -> Bodies \cup {Untouched}]]
      BY <1>3, <2>1, <2>2 DEF EditInv, EditTypes
    <3>3. patching' \in [Callers -> [at : Phases, patch : Patches \cup {<<>>}, next : Nat]]
      <4>1. patching[c] \in [at : Phases, patch : Patches \cup {<<>>}, next : Nat]
        BY DEF EditInv, EditTypes
      <4>2. [patching[c] EXCEPT !.next = @ + 1]
              \in [at : Phases, patch : Patches \cup {<<>>}, next : Nat]
        BY <4>1
      <4> QED
        BY <2>1, <4>2 DEF EditInv, EditTypes
    <3> QED
      BY <2>1, <3>1, <3>2, <3>3 DEF EditInv, EditTypes
  <2>4. /\ patching'[c].at = "checking" /\ patching'[c].patch = patching[c].patch
        /\ patching'[c].next = n + 2 /\ patching'[c].next - 1 = n + 1
        /\ steps'[c] = Append(steps[c], body)
        /\ staged'[c] = [staged[c] EXCEPT ![o.path] = body]
    BY <1>1, <2>1 DEF EditInv, EditTypes, Check, At
  <2>5. ASSUME NEW i \in 0..n, NEW p PROVE After(c, i, p)' = After(c, i, p)
    <3>1. \A j \in 1..i : Append(steps[c], body)[j] = steps[c][j]
      BY <1>1
    <3>2. Left(patching[c].patch, Append(steps[c], body), before[c], i, p)
            = Left(patching[c].patch, steps[c], before[c], i, p)
      <4>1. PICK old, new : old = steps[c] /\ new = Append(steps[c], body)
        OBVIOUS
      <4>2. i \in Nat
        OBVIOUS
      <4>3. \A j \in 1..i : new[j] = old[j]
        BY <3>1, <4>1, Zenon
      <4>4. \A patch, was : Left(patch, new, was, i, p) = Left(patch, old, was, i, p)
        BY <4>2, <4>3, LeftAgrees
      <4> QED
        BY <4>1, <4>4
    <3> QED
      BY <2>1, <2>4, <3>2, AfterIsLeft, AfterIsLeftNext
  <2>6. ASSUME NEW p
        PROVE  After(c, n + 1, p)' = IF o.path = p THEN body ELSE After(c, n, p)
    <3>1. Append(steps[c], body)[n + 1] = body
      BY <1>1
    <3>2. After(c, n + 1, p)' = IF o.path = p THEN body ELSE After(c, n, p)'
      <4>1. Left(patching[c].patch, Append(steps[c], body), before[c], n + 1, p)
              = IF o.path = p THEN Append(steps[c], body)[n + 1]
                ELSE Left(patching[c].patch, Append(steps[c], body), before[c], n, p)
        <5>1. \A patch, written, was : Left(patch, written, was, n + 1, p)
                = IF patch[n + 1].path = p THEN written[n + 1]
                  ELSE Left(patch, written, was, n, p)
          BY OneMoreLeft
        <5> QED
          BY <1>2, <5>1
      <4>2. \A i : After(c, i, p)'
                    = Left(patching[c].patch, Append(steps[c], body), before[c], i, p)
        BY <2>1, <2>4, AfterIsLeftNext
      <4> QED
        BY <3>1, <4>1, <4>2
    <3> QED
      BY <2>5, <3>2, n \in 0..n
  <2>7. Progress(c)'
    <3>1. Len(steps'[c]) = n + 1
      BY <1>1, <2>4
    <3> QED
      BY <1>1, <1>2, <2>4, <3>1 DEF Progress, At
  <2>8. Stages(c)'
    <3> SUFFICES ASSUME NEW p \in Paths
                 PROVE  staged'[c][p] = IF On(patching[c].patch, n + 1, p) = {}
                                        THEN Untouched ELSE After(c, n + 1, p)'
      <4>1. \A p : On(patching'[c].patch, patching'[c].next - 1, p)
                    = On(patching[c].patch, n + 1, p)
        BY <2>4
      <4>2. \A p : After(c, patching[c].next - 1, p)' = After(c, n + 1, p)'
        BY <2>4, AfterIsLeftNext
      <4> QED
        BY <4>1, <4>2 DEF Stages
    <3>1. CASE p = o.path
      <4>1. n + 1 \in On(patching[c].patch, n + 1, p)
        BY <1>1, <1>2, <3>1 DEF On
      <4>2. staged'[c][p] = body
        BY <1>3, <2>4, <3>1 DEF EditInv, EditTypes
      <4> QED
        BY <2>6, <3>1, <4>1, <4>2
    <3>2. CASE p # o.path
      <4>1. On(patching[c].patch, n + 1, p) = On(patching[c].patch, n, p)
        <5>1. \A i \in 1..(n + 1) : i \in 1..n \/ i = n + 1
          OBVIOUS
        <5> QED
          BY <1>2, <3>2, <5>1 DEF On
      <4>2. staged'[c][p] = staged[c][p]
        BY <2>4, <3>2 DEF EditInv, EditTypes
      <4>3. staged[c][p] = IF On(patching[c].patch, n, p) = {} THEN Untouched
                           ELSE After(c, n, p)
        BY <1>1 DEF EditInv, CallInv, Stages, Check
      <4> QED
        BY <2>6, <3>2, <4>1, <4>2, <4>3
    <3> QED
      BY <3>1, <3>2
  <2>9. Temp(c)'
    BY <1>7, <2>1 DEF Temp
  <2>10. Prefix(c)'
    <3>1. Made(c)' = 0 /\ Made(c) = 0 /\ Reads(c)
      BY <2>4 DEF Made, At, Reads, Check
    <3>2. \A p : After(c, 0, p)' = After(c, 0, p)
      BY <1>1, <2>5
    <3>3. c \in alone => files = [p \in Paths |-> After(c, 0, p)]
      BY <3>1 DEF EditInv, CallInv, Prefix
    <3> QED
      BY <2>1, <3>1, <3>2, <3>3 DEF Prefix
  <2>11. Reasons(c)'
    <3> SUFFICES ASSUME c \in alone, NEW i \in 1..(n + 1)
                 PROVE  Append(steps[c], body)[i] = Makes(c, i)'
      BY <1>1, <2>1, <2>4 DEF Reasons, At
    <3>1. Makes(c, i)' = Makes(c, i)
      <4>1. i - 1 \in 0..n
        BY <1>1
      <4> QED
        BY <2>4, <2>5, <4>1, Zenon DEF Makes, Effect
    <3>2. CASE i = n + 1
      BY <1>1, <1>6, <3>1, <3>2
    <3>3. CASE i \in 1..n
      <4>1. i \in DOMAIN steps[c] /\ Append(steps[c], body)[i] = steps[c][i]
        BY <1>1, <3>3
      <4> QED
        BY <3>1, <4>1 DEF EditInv, CallInv, Reasons
    <3> QED
      BY <1>1, <3>2, <3>3
  <2> QED
    BY <1>8, <2>3, <2>7, <2>8, <2>9, <2>10, <2>11 DEF EditInv, CallInv
<1> QED
  BY <1>9, <1>10

\* A call that ends leaves the files as they are.
LEMMA EndKeeps ==
  ASSUME EditInv, NEW c \in Callers, Reads(c), NEW how \in {"failed", "applied", "killed"},
         patching' = [patching EXCEPT ![c].at = how], temps' \subseteq temps,
         \A d \in temps' : d = c => how = "killed",
         UNCHANGED <<files, staged, steps, before, alone>>
  PROVE  EditInv'
<1>1. EditTypes'
  BY DEF EditInv, EditTypes, Phases
<1>2. ASSUME NEW d \in Callers, d # c PROVE CallInv(d)'
  BY <1>2, OthersStay DEF EditInv, EditTypes
<1>3. /\ patching'[c].at = how /\ patching'[c].patch = patching[c].patch
      /\ patching'[c].next = patching[c].next
  BY DEF EditInv, EditTypes
<1>4. \A i, p : After(c, i, p)' = After(c, i, p)
  BY <1>3, AfterIsLeft, AfterIsLeftNext
<1>5. \A i : Makes(c, i)' = Makes(c, i)
  BY <1>3, <1>4 DEF Makes, Effect
<1>6. Progress(c)'
  BY <1>3 DEF EditInv, CallInv, Progress, At, Reads
<1>7. Stages(c)' /\ Temp(c)' /\ Prefix(c)'
  BY <1>3 DEF Stages, Temp, Prefix, At, Reads
<1>8. Reasons(c)'
  BY <1>3, <1>5 DEF EditInv, CallInv, Reasons, At
<1> QED
  BY <1>1, <1>2, <1>6, <1>7, <1>8 DEF EditInv, CallInv

\* The operation a call is making is in its patch; what it writes was checked.
LEMMA MakingIsChecked ==
  ASSUME PatchAssumption, EditInv, NEW c \in Callers, At(c, "applying"), More(c)
  PROVE  /\ patching[c].next \in 1..Len(steps[c]) /\ steps[c][patching[c].next] \in Bodies
         /\ Current(c) \in Ops /\ Current(c).path \in Paths
         /\ c \in alone => steps[c][patching[c].next] = Makes(c, patching[c].next)
<1>1. /\ patching[c].next \in 1..Len(steps[c]) /\ Len(steps[c]) = Len(patching[c].patch)
      /\ steps[c] \in Seq(Bodies) /\ patching[c].patch \in Patches
  BY DEF EditInv, EditTypes, CallInv, Progress, At, More
<1>2. patching[c].patch \in Seq(Operations)
  BY <1>1 DEF PatchAssumption, Operations
<1>3. patching[c].next \in DOMAIN patching[c].patch /\ patching[c].next \in DOMAIN steps[c]
  BY <1>1, <1>2
<1>4. Current(c) \in Ops /\ Current(c) \in Operations
  BY <1>1, <1>2, <1>3 DEF Current, Ops
<1>5. c \in alone => steps[c][patching[c].next] = Makes(c, patching[c].next)
  BY <1>3 DEF EditInv, CallInv, Reasons
<1> QED
  BY <1>1, <1>3, <1>4, <1>5 DEF Operations

\* A call that has made one more operation has made a longer prefix.
LEMMA OneMoreMade ==
  ASSUME PatchAssumption, EditInv, NEW c \in Callers, At(c, "applying"), More(c),
         patching' = [patching EXCEPT ![c].next = @ + 1],
         UNCHANGED <<staged, steps, before>>, temps' = temps \ {c}, Disturb({c}),
         files' \in [Paths -> Bodies],
         c \in alone => files' = [files EXCEPT ![Current(c).path] = steps[c][patching[c].next]]
  PROVE  EditInv'
<1>1. PICK n \in Nat : /\ n + 1 = patching[c].next /\ n = patching[c].next - 1
                       /\ n + 1 \in 1..Len(steps[c])
  BY MakingIsChecked
<1>2. /\ patching'[c].at = "applying" /\ patching'[c].patch = patching[c].patch
      /\ patching'[c].next = n + 2
  BY <1>1 DEF EditInv, EditTypes, At
<1>3. EditTypes'
  <2>1. patching[c] \in [at : Phases, patch : Patches \cup {<<>>}, next : Nat]
    BY DEF EditInv, EditTypes
  <2>2. [patching[c] EXCEPT !.next = @ + 1]
          \in [at : Phases, patch : Patches \cup {<<>>}, next : Nat]
    BY <2>1
  <2>3. patching' \in [Callers -> [at : Phases, patch : Patches \cup {<<>>}, next : Nat]]
    BY <2>2 DEF EditInv, EditTypes
  <2> QED
    BY <2>3 DEF EditInv, EditTypes, Disturb
<1>4. ASSUME NEW d \in Callers, d # c PROVE CallInv(d)'
  BY <1>4, OthersStay DEF EditInv, EditTypes, Disturb
<1>5. \A i, p : After(c, i, p)' = After(c, i, p)
  BY <1>2, AfterIsLeft, AfterIsLeftNext
<1>6. \A i : Makes(c, i)' = Makes(c, i)
  <2>1. patching'[c].patch = patching[c].patch
    BY <1>2
  <2> QED
    BY <1>5, <2>1 DEF Makes
<1>7. Progress(c)'
  BY <1>1, <1>2 DEF EditInv, CallInv, Progress, At
<1>8. Stages(c)' /\ Temp(c)'
  BY <1>2 DEF Stages, Temp, At
<1>9. Prefix(c)'
  <2> SUFFICES ASSUME c \in alone
               PROVE  files' = [p \in Paths |-> After(c, n + 1, p)]
    <3>1. Made(c)' = n + 1
      BY <1>1, <1>2 DEF Made, At
    <3> QED
      BY <1>5, <3>1 DEF Prefix, Disturb
  <2>1. files = [p \in Paths |-> After(c, n, p)]
    BY <1>1 DEF EditInv, CallInv, Prefix, Reads, Made
  <2>2. \A p : After(c, n + 1, p) = IF Current(c).path = p THEN steps[c][n + 1]
                                    ELSE After(c, n, p)
    <3>1. \A patch, written, was, p : Left(patch, written, was, n + 1, p)
            = IF patch[n + 1].path = p THEN written[n + 1] ELSE Left(patch, written, was, n, p)
      BY OneMoreLeft
    <3> QED
      BY <1>1, <3>1, AfterIsLeft DEF Current
  <2>3. files' = [files EXCEPT ![Current(c).path] = steps[c][n + 1]]
    BY <1>1
  <2> QED
    BY <2>1, <2>2, <2>3
<1>10. Reasons(c)'
  BY <1>2, <1>6 DEF EditInv, CallInv, Reasons, At, Disturb
<1> QED
  BY <1>3, <1>4, <1>7, <1>8, <1>9, <1>10 DEF EditInv, CallInv

LEMMA RenameKeeps ==
  ASSUME PatchAssumption, EditInv, NEW c \in Callers, Rename(c)
  PROVE  EditInv'
<1>1. At(c, "applying") /\ More(c)
  BY DEF EditInv, CallInv, Temp, At, Rename
<1>2. steps[c][patching[c].next] \in Bodies
  BY <1>1, MakingIsChecked
<1>3. files' \in [Paths -> Bodies]
  BY <1>2 DEF EditInv, EditTypes, Rename
<1> QED
  BY <1>1, <1>3, OneMoreMade DEF Rename, Advance

LEMMA RemoveFileKeeps ==
  ASSUME PatchAssumption, EditInv, NEW c \in Callers, RemoveFile(c)
  PROVE  EditInv'
<1>1. At(c, "applying") /\ More(c) /\ ~Writes(Current(c))
  BY DEF RemoveFile
<1>2. c \notin temps
  BY <1>1 DEF EditInv, CallInv, Temp, At
<1>3. CASE files[Current(c).path] = Absent
  <2>1. /\ patching' = [patching EXCEPT ![c].at = "failed"]
        /\ UNCHANGED <<files, staged, steps, temps, before, alone>>
    BY <1>3 DEF RemoveFile, End
  <2> QED
    BY <1>1, <1>2, <2>1, EndKeeps DEF Reads
<1>4. CASE files[Current(c).path] # Absent
  <2>1. /\ files' = [files EXCEPT ![Current(c).path] = Absent]
        /\ patching' = [patching EXCEPT ![c].next = @ + 1]
        /\ Disturb({c}) /\ UNCHANGED <<staged, steps, before>> /\ temps' = temps \ {c}
    BY <1>2, <1>4 DEF RemoveFile, Advance
  <2>2. files' \in [Paths -> Bodies]
    BY <2>1 DEF EditInv, EditTypes, Bodies
  <2>3. c \in alone => steps[c][patching[c].next] = Absent
    <3>1. steps[c][patching[c].next] # Impossible
      BY <1>1, MakingIsChecked, BodiesAreBodies
    <3>2. Current(c).type \notin {"create", "update"}
      BY <1>1 DEF Writes
    <3>3. \A body : Effect(Current(c), body) \in {Absent, Impossible}
      BY <3>2 DEF Effect
    <3>4. Makes(c, patching[c].next) \in {Absent, Impossible}
      BY <3>3 DEF Makes, Current
    <3> QED
      BY <1>1, <3>1, <3>4, MakingIsChecked
  <2> QED
    BY <1>1, <2>1, <2>2, <2>3, OneMoreMade
<1> QED
  BY <1>3, <1>4

\* The steps that make nothing.
LEMMA QuietKeeps ==
  ASSUME PatchAssumption, EditInv, NEW c \in Callers,
         Checked(c) \/ WriteTemp(c) \/ FailWrite(c) \/ FinishPatch(c) \/ Kill(c)
  PROVE  EditInv'
<1>1. CASE Checked(c)
  <2>1. EditTypes'
    BY <1>1 DEF EditInv, EditTypes, Phases, Checked
  <2>2. ASSUME NEW d \in Callers, d # c PROVE CallInv(d)'
    BY <1>1, <2>2, OthersStay DEF EditInv, EditTypes, Checked
  <2>3. /\ patching'[c].at = "applying" /\ patching'[c].patch = patching[c].patch
        /\ patching'[c].next = 1 /\ UNCHANGED <<files, staged, steps, temps, before, alone>>
    BY <1>1 DEF EditInv, EditTypes, Checked
  <2>4. \A i, p : After(c, i, p)' = After(c, i, p)
    BY <2>3, AfterIsLeft, AfterIsLeftNext
  <2>5. \A i : Makes(c, i)' = Makes(c, i)
    BY <2>3, <2>4 DEF Makes, Effect
  <2>6. Progress(c)'
    <3>1. patching[c].patch \in Patches /\ patching[c].next \in Nat
      BY <1>1 DEF EditInv, EditTypes, CallInv, Progress, Checked, At
    <3>2. patching[c].patch \in Seq(Operations) /\ Len(patching[c].patch) \in Nat
      <4>1. patching[c].patch \in Seq(Operations)
        BY <3>1 DEF PatchAssumption, Operations
      <4> QED
        BY <4>1
    <3>3. patching[c].at = "checking" /\ ~(patching[c].next <= Len(patching[c].patch))
      BY <1>1 DEF Checked, At, More
    <3>4. /\ 0 < patching[c].next /\ patching[c].next <= Len(patching[c].patch) + 1
          /\ Len(steps[c]) = patching[c].next - 1
      BY <3>3 DEF EditInv, CallInv, Progress, At
    <3> QED
      BY <2>3, <3>1, <3>2, <3>3, <3>4 DEF Progress, At
  <2>7. Stages(c)' /\ Temp(c)'
    BY <1>1, <2>3 DEF EditInv, CallInv, Checked, Stages, Temp, At
  <2>8. Prefix(c)'
    <3>1. Made(c)' = 0 /\ Made(c) = 0 /\ Reads(c)
      BY <1>1, <2>3 DEF Made, At, Reads, Checked
    <3> QED
      BY <2>3, <2>4, <3>1 DEF EditInv, CallInv, Prefix
  <2>9. Reasons(c)'
    BY <2>3, <2>5 DEF EditInv, CallInv, Reasons, At
  <2> QED
    BY <2>1, <2>2, <2>6, <2>7, <2>8, <2>9 DEF EditInv, CallInv
<1>2. CASE WriteTemp(c)
  <2>1. EditTypes'
    BY <1>2 DEF EditInv, EditTypes, WriteTemp
  <2>2. ASSUME NEW d \in Callers, d # c PROVE CallInv(d)'
    BY <1>2, <2>2, OthersStay DEF EditInv, EditTypes, WriteTemp
  <2>3. \A i, p : After(c, i, p)' = After(c, i, p)
    BY <1>2, AfterIsLeft, AfterIsLeftNext DEF WriteTemp
  <2>4. \A i : Makes(c, i)' = Makes(c, i)
    BY <1>2, <2>3 DEF Makes, Effect, WriteTemp
  <2>5. Progress(c)' /\ Stages(c)' /\ Prefix(c)' /\ Temp(c)'
    <3>1. Progress(c)'
      BY <1>2 DEF EditInv, CallInv, Progress, At, More, WriteTemp
    <3>2. Stages(c)'
      BY <1>2 DEF Stages, At, WriteTemp
    <3>3. Prefix(c)'
      BY <1>2, <2>3 DEF EditInv, CallInv, Prefix, Made, At, Reads, WriteTemp
    <3>4. Temp(c)'
      BY <1>2 DEF Temp, At, More, Current, Writes, WriteTemp
    <3> QED
      BY <3>1, <3>2, <3>3, <3>4
  <2>6. Reasons(c)'
    BY <1>2, <2>4 DEF EditInv, CallInv, Reasons, At, WriteTemp
  <2> QED
    BY <2>1, <2>2, <2>5, <2>6 DEF EditInv, CallInv
<1>3. CASE FailWrite(c)
  <2>1. temps' \subseteq temps /\ \A d \in temps' : d = c => "failed" = "killed"
    BY <1>3 DEF FailWrite
  <2> QED
    BY <1>3, <2>1, EndKeeps DEF FailWrite, End, Reads
<1>4. CASE FinishPatch(c)
  <2>1. c \notin temps
    BY <1>4 DEF EditInv, CallInv, Temp, At, FinishPatch
  <2> QED
    BY <1>4, <2>1, EndKeeps DEF FinishPatch, End, Reads
<1>5. CASE Kill(c)
  BY <1>5, EndKeeps DEF Kill, End
<1> QED
  BY <1>1, <1>2, <1>3, <1>4, <1>5

LEMMA InterfereKeeps ==
  ASSUME EditInv, NEW p \in Paths, NEW content \in {Absent, {"theirs"}},
         Interfere(p, content)
  PROVE  EditInv'
<1>1. content \in Bodies
  <2>1. "theirs" \notin Reserved
    BY DEF Reserved, Absent, Untouched, Impossible
  <2>2. {"theirs"} \in SUBSET Texts
    BY <2>1 DEF Texts
  <2> QED
    BY <2>2 DEF Bodies
<1>2. EditTypes'
  BY <1>1 DEF EditInv, EditTypes, Interfere, Disturb
<1>3. ASSUME NEW d \in Callers PROVE CallInv(d)'
  BY OthersStay DEF EditInv, EditTypes, Interfere, Disturb
<1> QED
  BY <1>2, <1>3 DEF EditInv

LEMMA EditStep == ASSUME PatchAssumption PROVE EditInv /\ [EditsNext]_evars => EditInv'
<1> SUFFICES ASSUME EditInv, [EditsNext]_evars PROVE EditInv'
  OBVIOUS
<1>1. ASSUME NEW c \in Callers, NEW patch \in Patches, BeginPatch(c, patch) PROVE EditInv'
  BY <1>1, BeginPatchKeeps
<1>2. ASSUME NEW c \in Callers, Check(c) PROVE EditInv'
  BY <1>2, CheckKeeps
<1>3. ASSUME NEW c \in Callers, Rename(c) PROVE EditInv'
  BY <1>3, RenameKeeps
<1>4. ASSUME NEW c \in Callers, RemoveFile(c) PROVE EditInv'
  BY <1>4, RemoveFileKeeps
<1>5. ASSUME NEW c \in Callers,
             Checked(c) \/ WriteTemp(c) \/ FailWrite(c) \/ FinishPatch(c) \/ Kill(c)
      PROVE  EditInv'
  BY <1>5, QuietKeeps
<1>6. ASSUME NEW p \in Paths, NEW content \in {Absent, {"theirs"}}, Interfere(p, content)
      PROVE  EditInv'
  BY <1>6, InterfereKeeps
<1>7. CASE UNCHANGED evars
  <2>1. EditTypes'
    BY <1>7 DEF evars, EditInv, EditTypes
  <2>2. ASSUME NEW d \in Callers PROVE CallInv(d)'
    BY <1>7, OthersStay DEF evars, EditInv
  <2> QED
    BY <2>1, <2>2 DEF EditInv
<1> QED
  BY <1>1, <1>2, <1>3, <1>4, <1>5, <1>6, <1>7 DEF EditsNext

LEMMA EditInvIsSound == EditInv => PatchesAreSound
<1> SUFFICES ASSUME EditInv PROVE PatchesAreSound
  OBVIOUS
<1>1. PatchIsAPrefix
  BY DEF PatchIsAPrefix, EditInv, EditTypes, CallInv, Prefix
<1>2. RefusedForAReason
  <2> SUFFICES ASSUME NEW c \in alone
      PROVE  /\ \A i \in DOMAIN steps[c] : steps[c][i] = Makes(c, i) /\ steps[c][i] # Impossible
             /\ At(c, "refused") => Makes(c, patching[c].next) = Impossible
             /\ At(c, "applying") => Len(steps[c]) = Len(patching[c].patch)
    BY DEF RefusedForAReason, Makes
  <2>1. c \in Callers /\ steps[c] \in Seq(Bodies)
    BY DEF EditInv, EditTypes
  <2>2. \A i \in DOMAIN steps[c] : steps[c][i] # Impossible
    BY <2>1, BodiesAreBodies
  <2> QED
    BY <2>1, <2>2 DEF EditInv, CallInv, Reasons, Progress
<1>3. TempsAreRemoved
  BY DEF TempsAreRemoved, EditInv, EditTypes, CallInv, Temp
<1> QED
  BY <1>1, <1>2, <1>3 DEF PatchesAreSound

(* Whatever the calls of a batch, commands and the user do to the files of *)
(* a workspace, a patch that nobody disturbs is made in order and as far   *)
(* as it says, is refused only for an operation that could not be made,    *)
(* and only a worker that died leaves a temporary file (apply_patch.go).   *)
THEOREM PatchesHold == ASSUME PatchAssumption PROVE EditsSpec => []PatchesAreSound
<1>1. EditsInit => EditInv
  BY EditsStart
<1>2. EditInv /\ [EditsNext]_evars => EditInv'
  BY EditStep
<1> QED
  BY <1>1, <1>2, EditInvIsSound, PTL DEF EditsSpec

-----------------------------------------------------------------------------
(* Command rules.                                                          *)

Decisions == {"allow", "prompt", "forbidden"}
RulesOf(doc) == {d \in doc : d.kind = "rule"}
HostsOf(doc) == UNION {d.paths : d \in {e \in doc : e.kind = "host"}}

\* The rules that match some segment of a command.
Matching(p, c) == UNION {MatchingRules(p, s) : s \in ToSet(c.segments)}
Covered(p, c) == \A s \in ToSet(c.segments) : MatchingRules(p, s) # {} \/ KnownSafe(s)
Has(all, d) == \E r \in all : r.decision = d
Strictest(all) ==
  CHOOSE d \in {"allow", "prompt", "forbidden"} :
    /\ d = "allow" \/ \E r \in all : r.decision = d
    /\ \A r \in all : Rank(r.decision) <= Rank(d)

\* The strictest decision is that of a rule, or to allow.
LEMMA StrictestIs ==
  ASSUME NEW all, \A r \in all : r.decision \in Decisions
  PROVE  Strictest(all) = IF Has(all, "forbidden") THEN "forbidden"
                          ELSE IF Has(all, "prompt") THEN "prompt" ELSE "allow"
<1>1. Rank("forbidden") = 2 /\ Rank("prompt") = 1 /\ Rank("allow") = 0
  BY DEF Rank
<1>2. CASE Has(all, "forbidden")
  <2>1. \A r \in all : Rank(r.decision) <= 2
    BY <1>1 DEF Decisions
  <2>2. \A d \in Decisions : (\A r \in all : Rank(r.decision) <= Rank(d)) => d = "forbidden"
    BY <1>1, <1>2 DEF Has, Decisions
  <2> QED
    BY <1>1, <1>2, <2>1, <2>2 DEF Strictest, Has, Decisions
<1>3. CASE ~Has(all, "forbidden") /\ Has(all, "prompt")
  <2>1. \A r \in all : Rank(r.decision) <= 1
    BY <1>1, <1>3 DEF Decisions, Has
  <2>2. \A d \in Decisions : (/\ d = "allow" \/ \E r \in all : r.decision = d
                              /\ \A r \in all : Rank(r.decision) <= Rank(d)) => d = "prompt"
    BY <1>1, <1>3 DEF Has, Decisions
  <2> QED
    BY <1>1, <1>3, <2>1, <2>2 DEF Strictest, Has, Decisions
<1>4. CASE ~Has(all, "forbidden") /\ ~Has(all, "prompt")
  <2>1. \A r \in all : r.decision = "allow"
    BY <1>4 DEF Decisions, Has
  <2>2. \A d \in Decisions : d = "allow" \/ (\E r \in all : r.decision = d) => d = "allow"
    BY <2>1
  <2> QED
    BY <1>1, <1>4, <2>1, <2>2 DEF Strictest, Has, Decisions
<1> QED
  BY <1>2, <1>3, <1>4

LEMMA SayIs ==
  ASSUME NEW decision, NEW by, NEW prompt
  PROVE  /\ Say(decision, by, prompt).decision = decision
         /\ Say(decision, by, prompt).prompt = prompt
BY Zenon DEF Say

\* What is said of a command, case by case.
LEMMA EvaluateIs ==
  ASSUME NEW p, NEW c
  PROVE  LET e == Evaluate(p, c)
             strictest == Strictest(Matching(p, c)) IN
         /\ HardDenied(c) => e.decision = "deny" /\ e.prompt = FALSE
         /\ ~HardDenied(c) /\ Refused(c) => e.decision = "ask" /\ e.prompt = FALSE
         /\ ~HardDenied(c) /\ ~Refused(c) =>
              /\ strictest = "forbidden" => e.decision = "deny" /\ e.prompt = FALSE
              /\ strictest = "prompt" => e.decision = "ask" /\ e.prompt = TRUE
              /\ strictest \notin {"forbidden", "prompt"} =>
                   /\ e.decision = (IF Covered(p, c) THEN "allow" ELSE "ask")
                   /\ e.prompt = FALSE
<1> DEFINE e == Evaluate(p, c)
           strictest == Strictest(Matching(p, c))
<1>1. e = IF HardDenied(c) THEN Say("deny", "hard", FALSE)
          ELSE IF Refused(c) THEN Say("ask", "opaque-shell", FALSE)
          ELSE IF strictest = "forbidden" THEN Say("deny", "rule", FALSE)
          ELSE IF strictest = "prompt" THEN Say("ask", "rule", TRUE)
          ELSE IF Covered(p, c)
          THEN Say("allow", IF Matching(p, c) # {} THEN "rule" ELSE "known-safe", FALSE)
          ELSE Say("ask", IF Matching(p, c) # {} THEN "mixed-command" ELSE "default", FALSE)
  BY DEF Evaluate, Strictest, Matching, Covered
<1> HIDE DEF e, strictest
<1>2. ASSUME HardDenied(c) PROVE e.decision = "deny" /\ e.prompt = FALSE
  <2>1. e = Say("deny", "hard", FALSE)
    BY <1>1, <1>2
  <2> QED
    BY <2>1, Zenon DEF Say
<1>3. ASSUME ~HardDenied(c), Refused(c) PROVE e.decision = "ask" /\ e.prompt = FALSE
  <2>1. e = Say("ask", "opaque-shell", FALSE)
    BY <1>1, <1>3
  <2> QED
    BY <2>1, Zenon DEF Say
<1>4. ASSUME ~HardDenied(c), ~Refused(c), strictest = "forbidden"
      PROVE  e.decision = "deny" /\ e.prompt = FALSE
  <2>1. e = Say("deny", "rule", FALSE)
    BY <1>1, <1>4
  <2> QED
    BY <2>1, Zenon DEF Say
<1>5. ASSUME ~HardDenied(c), ~Refused(c), strictest = "prompt"
      PROVE  e.decision = "ask" /\ e.prompt = TRUE
  <2>1. e = Say("ask", "rule", TRUE)
    BY <1>1, <1>5
  <2> QED
    BY <2>1, Zenon DEF Say
<1>6. ASSUME ~HardDenied(c), ~Refused(c), strictest # "forbidden", strictest # "prompt"
      PROVE  /\ e.decision = (IF Covered(p, c) THEN "allow" ELSE "ask")
             /\ e.prompt = FALSE
  <2>1. CASE Covered(p, c)
    <3>1. PICK by : e = Say("allow", by, FALSE)
      BY <1>1, <1>6, <2>1
    <3>2. e.decision = "allow" /\ e.prompt = FALSE
      BY <3>1, Zenon DEF Say
    <3> QED
      BY <2>1, <3>2, Zenon
  <2>2. CASE ~Covered(p, c)
    <3>1. PICK by : e = Say("ask", by, FALSE)
      BY <1>1, <1>6, <2>2
    <3>2. e.decision = "ask" /\ e.prompt = FALSE
      BY <3>1, Zenon DEF Say
    <3> QED
      BY <2>2, <3>2, Zenon
  <2> QED
    BY <2>1, <2>2, Zenon
<1>7. strictest \notin {"forbidden", "prompt"} => strictest # "forbidden" /\ strictest # "prompt"
  OBVIOUS
<1> QED
  BY <1>2, <1>3, <1>4, <1>5, <1>6, <1>7, Zenon DEF e, strictest

\* Whatever may run unasked is plain, and all of it matches an allow rule or
\* is known to be safe.
LEMMA AllowedMeans ==
  ASSUME NEW p, NEW c, \A r \in p.rules : r.decision \in Decisions,
         Evaluate(p, c).decision = "allow"
  PROVE  /\ ~HardDenied(c) /\ ~Refused(c) /\ Covered(p, c)
         /\ \A r \in Matching(p, c) : r.decision = "allow"
<1> PICK all : all = Matching(p, c)
  OBVIOUS
<1>1. \A r \in all : r.decision \in Decisions
  BY DEF Matching, MatchingRules
<1>2. ~HardDenied(c) /\ ~Refused(c)
  BY EvaluateIs
<1>3. Strictest(all) \notin {"forbidden", "prompt"}
  BY <1>2, EvaluateIs
<1>4. ~Has(all, "forbidden") /\ ~Has(all, "prompt")
  BY <1>1, <1>3, StrictestIs
<1>5. Covered(p, c)
  BY <1>2, <1>3, EvaluateIs
<1> QED
  BY <1>1, <1>2, <1>4, <1>5 DEF Has, Decisions

\* Nothing stricter matches a segment of what may run unasked.
LEMMA VouchedFor ==
  ASSUME NEW p, NEW c, \A r \in p.rules : r.decision \in Decisions,
         c.segments \in Seq(Seq([dir : STRING, name : STRING])),
         Evaluate(p, c).decision = "allow", NEW i \in DOMAIN c.segments
  PROVE  LET argv == c.segments[i]
             of(d) == \E r \in p.rules : r.decision = d /\ Matches(r, argv)
             under(d) == \E r \in p.rules :
                           /\ r.decision = d /\ argv[1] \in p.hosts
                           /\ Matches(r, [argv EXCEPT ![1].dir = ""])
         IN /\ argv # <<>>
            /\ of("allow") \/ under("allow") \/ KnownSafe(argv)
            /\ ~of("forbidden") /\ ~of("prompt")
            /\ of("allow") \/ (~under("forbidden") /\ ~under("prompt"))
<1> DEFINE argv == c.segments[i]
           of(d) == \E r \in p.rules : r.decision = d /\ Matches(r, argv)
           low == [argv EXCEPT ![1].dir = ""]
           under(d) == \E r \in p.rules :
                         r.decision = d /\ argv[1] \in p.hosts /\ Matches(r, low)
           direct == {r \in p.rules : Matches(r, argv)}
           lowered == {r \in p.rules : Matches(r, Lowered(argv, p.hosts))}
<1>1. /\ ~Refused(c) /\ Covered(p, c)
      /\ \A r \in Matching(p, c) : r.decision = "allow"
  BY AllowedMeans
<1>2. argv \in ToSet(c.segments)
  BY DEF ToSet
<1>3. argv # <<>>
  BY <1>1, <1>2 DEF Refused
<1>4. \A r \in MatchingRules(p, argv) : r.decision = "allow"
  BY <1>1, <1>2 DEF Matching
<1>5. MatchingRules(p, argv) # {} \/ KnownSafe(argv)
  BY <1>1, <1>2 DEF Covered
<1>6. MatchingRules(p, argv) = IF direct # {} THEN direct ELSE lowered
  BY DEF MatchingRules
<1>7. argv[1] \notin p.hosts => lowered = direct
  BY DEF Lowered
<1>8. argv[1] \in p.hosts => lowered = {r \in p.rules : Matches(r, low)}
  BY DEF Lowered
<1> HIDE DEF argv, low
<1>9. ASSUME NEW d, of(d) PROVE d = "allow"
  BY <1>4, <1>6, <1>9
<1>10. ASSUME NEW d, under(d), ~of("allow") PROVE d = "allow"
  <2>1. direct = {}
    BY <1>4, <1>6, <1>10
  <2> QED
    BY <1>4, <1>6, <1>8, <1>10, <2>1
<1>11. of("allow") \/ under("allow") \/ KnownSafe(argv)
  <2>1. CASE direct # {}
    BY <1>4, <1>6, <2>1
  <2>2. CASE direct = {} /\ ~KnownSafe(argv)
    <3>1. lowered # {} /\ \A r \in lowered : r.decision = "allow"
      BY <1>4, <1>5, <1>6, <2>2
    <3>2. argv[1] \in p.hosts
      BY <1>7, <2>2, <3>1
    <3> QED
      BY <1>8, <3>1, <3>2
  <2> QED
    BY <2>1, <2>2
<1>12. ~of("forbidden") /\ ~of("prompt")
  BY <1>9
<1>13. of("allow") \/ (~under("forbidden") /\ ~under("prompt"))
  BY <1>10
<1> QED
  BY <1>3, <1>11, <1>12, <1>13 DEF argv, low

\* Bare words are no declared program, so that rules and hosts that are added
\* only add to what matches a command of bare words.
LEMMA MoreMatches ==
  ASSUME NEW p, NEW q, NEW c,
         p.rules \subseteq q.rules, c.segments \in Seq(Seq([dir : STRING, name : STRING])),
         \A w \in p.hosts \cup q.hosts : w.dir # "",
         \A i \in DOMAIN c.segments : c.segments[i] # <<>> => Bare(c.segments[i][1]),
         ~Refused(c)
  PROVE  Matching(p, c) \subseteq Matching(q, c)
<1> SUFFICES ASSUME NEW s \in ToSet(c.segments)
             PROVE  MatchingRules(p, s) \subseteq MatchingRules(q, s)
  BY DEF Matching
<1>1. s[1].dir = ""
  <2>1. PICK i \in DOMAIN c.segments : s = c.segments[i]
    BY DEF ToSet
  <2>2. s # <<>>
    BY DEF Refused
  <2> QED
    BY <2>1, <2>2 DEF Bare
<1>2. s[1] \notin p.hosts /\ s[1] \notin q.hosts
  BY <1>1
<1>3. Lowered(s, p.hosts) = s /\ Lowered(s, q.hosts) = s
  BY <1>2 DEF Lowered
<1> QED
  BY <1>3 DEF MatchingRules

\* More rules never loosen what is said of such a command.
LEMMA NeverLooser ==
  ASSUME NEW p, NEW q, NEW c, \A r \in q.rules : r.decision \in Decisions,
         p.rules \subseteq q.rules, c.segments \in Seq(Seq([dir : STRING, name : STRING])),
         \A w \in p.hosts \cup q.hosts : w.dir # "",
         \A i \in DOMAIN c.segments : c.segments[i] # <<>> => Bare(c.segments[i][1])
  PROVE  /\ Evaluate(p, c).decision = "deny" => Evaluate(q, c).decision = "deny"
         /\ Evaluate(p, c).prompt => Evaluate(q, c).decision = "deny" \/ Evaluate(q, c).prompt
<1>1. CASE HardDenied(c)
  BY <1>1, EvaluateIs
<1>2. CASE ~HardDenied(c) /\ Refused(c)
  BY <1>2, EvaluateIs
<1>3. CASE ~HardDenied(c) /\ ~Refused(c)
  <2> PICK few, many : few = Matching(p, c) /\ many = Matching(q, c)
    OBVIOUS
  <2>1. few \subseteq many
    BY <1>3, MoreMatches
  <2>2. \A r \in many : r.decision \in Decisions
    BY DEF Matching, MatchingRules
  <2>3. \A r \in few : r.decision \in Decisions
    BY <2>1, <2>2
  <2>4. /\ Strictest(few) = "forbidden" => Strictest(many) = "forbidden"
        /\ Strictest(few) = "prompt" => Strictest(many) \in {"forbidden", "prompt"}
    BY <2>1, <2>2, <2>3, StrictestIs DEF Has
  <2>5. Evaluate(p, c).decision = "deny" => Strictest(few) = "forbidden"
    BY <1>3, EvaluateIs
  <2>6. Evaluate(p, c).prompt => Strictest(few) = "prompt"
    BY <1>3, EvaluateIs
  <2>7. Strictest(many) = "forbidden" => Evaluate(q, c).decision = "deny"
    BY <1>3, EvaluateIs
  <2>8. Strictest(many) = "prompt" => Evaluate(q, c).prompt
    BY <1>3, EvaluateIs
  <2> QED
    BY <2>4, <2>5, <2>6, <2>7, <2>8
<1> QED
  BY <1>1, <1>2, <1>3


-----------------------------------------------------------------------------
\* What the user's files say now, and what those of a trusted project add.
Mine == Doc(starter) \cup userFile
Theirs == IF trust = {"trusted"} THEN Doc(project) ELSE {}
Holds(l, doc) == policy[l].rules = RulesOf(doc) /\ policy[l].hosts = HostsOf(doc)

PolicyTypes ==
  /\ userFile \in UserDocs /\ trust \in TrustTables
  /\ starter \in StarterDocs \cup {NoFile, Link, Embedded}
  /\ project \in ProjectDocs \cup {NoFile, Link}
  /\ temp \in [Loaders -> {NoFile, Partial, Embedded}]
  /\ stage \in [Loaders -> {"start", "write", "publish", "user", "project", "ready",
                            "failed", "dead"}]
  /\ DOMAIN policy = Loaders /\ policy = [l \in Loaders |-> policy[l]]

\* A loader publishes a whole file, reads when there is one, and holds what
\* it has read; files do not change under it.
LoadInv ==
  \A l \in Loaders :
    /\ stage[l] = "publish" => temp[l] = Embedded
    /\ stage[l] \in {"user", "project", "ready"} => starter \notin {NoFile, Link}
    /\ stage[l] = "project" => Holds(l, Mine)
    /\ stage[l] = "ready" => Holds(l, Mine \cup Theirs)

\* What is shown was looked up outside of the workspace.
ShownInv ==
  /\ asked = <<>> => ran = NoWord
  /\ asked # <<>> => shown.dir \notin Workspace
  /\ ran \in {NoWord, shown}

PolicyInv == PolicyTypes /\ LoadInv /\ ShownInv

\* Rules and hosts add up, file by file.
LEMMA ParseAdds ==
  ASSUME NEW p, NEW doc
  PROVE  Parse(p, doc).rules = p.rules \cup RulesOf(doc)
         /\ Parse(p, doc).hosts = p.hosts \cup HostsOf(doc)
BY DEF Parse, RulesOf, HostsOf

LEMMA DocumentsAddUp ==
  ASSUME NEW a, NEW b
  PROVE  /\ RulesOf(a \cup b) = RulesOf(a) \cup RulesOf(b)
         /\ HostsOf(a \cup b) = HostsOf(a) \cup HostsOf(b)
         /\ RulesOf({}) = {} /\ HostsOf({}) = {}
<1>1. RulesOf(a \cup b) = RulesOf(a) \cup RulesOf(b)
  BY DEF RulesOf
<1>2. {e \in a \cup b : e.kind = "host"}
        = {e \in a : e.kind = "host"} \cup {e \in b : e.kind = "host"}
  OBVIOUS
<1>3. HostsOf(a \cup b) = HostsOf(a) \cup HostsOf(b)
  BY <1>2 DEF HostsOf
<1>4. RulesOf({}) = {} /\ HostsOf({}) = {}
  BY DEF RulesOf, HostsOf
<1> QED
  BY <1>1, <1>3, <1>4

\* A document of declarations is none of the three that stand for no document.
LEMMA DocumentsAreReal ==
  ASSUME PolicyAssumption, NEW doc \in UserDocs \cup StarterDocs \cup ProjectDocs \cup {Embedded}
  PROVE  doc \notin {NoFile, Link, Partial}
<1>1. \A d \in doc : d.kind \in {"rule", "host"}
  BY DEF PolicyAssumption, Embedded
<1>2. /\ [kind |-> "absent"] \in NoFile /\ [kind |-> "link"] \in Link
      /\ [kind |-> "partial"] \in Partial
  BY DEF NoFile, Link, Partial
<1>3. /\ [kind |-> "absent"].kind \notin {"rule", "host"}
      /\ [kind |-> "link"].kind \notin {"rule", "host"}
      /\ [kind |-> "partial"].kind \notin {"rule", "host"}
  OBVIOUS
<1> QED
  BY <1>1, <1>2, <1>3

LEMMA SpecialFiles == NoFile # Link /\ NoFile # Partial /\ Link # Partial
<1>1. /\ [kind |-> "absent"] # [kind |-> "link"] /\ [kind |-> "absent"] # [kind |-> "partial"]
      /\ [kind |-> "link"] # [kind |-> "partial"]
  <2>1. /\ [kind |-> "absent"].kind = "absent" /\ [kind |-> "link"].kind = "link"
        /\ [kind |-> "partial"].kind = "partial"
    OBVIOUS
  <2> QED
    BY <2>1
<1> QED
  BY <1>1 DEF NoFile, Link, Partial

LEMMA PolicyStart == PolicyInit => PolicyInv
BY DEF PolicyInit, PolicyInv, PolicyTypes, LoadInv, ShownInv


\* A process that starts changes nothing that another one relies on.
LEMMA LoadersKeepApart ==
  ASSUME LoadInv, NEW l \in Loaders, UNCHANGED <<userFile, starter, project, trust>>,
         \A m \in Loaders : m # l => /\ stage'[m] = stage[m] /\ temp'[m] = temp[m]
                                     /\ policy'[m] = policy[m],
         stage'[l] = "publish" => temp'[l] = Embedded,
         stage'[l] \in {"user", "project", "ready"} => starter \notin {NoFile, Link},
         stage'[l] = "project" => policy'[l].rules = RulesOf(Mine) /\ policy'[l].hosts = HostsOf(Mine),
         stage'[l] = "ready" => /\ policy'[l].rules = RulesOf(Mine \cup Theirs)
                                /\ policy'[l].hosts = HostsOf(Mine \cup Theirs)
  PROVE  LoadInv'
<1>1. Mine' = Mine /\ Theirs' = Theirs
  BY DEF Mine, Theirs, Doc
<1>2. ASSUME NEW m \in Loaders, m # l
      PROVE  /\ stage'[m] = "publish" => temp'[m] = Embedded
             /\ stage'[m] \in {"user", "project", "ready"} => starter' \notin {NoFile, Link}
             /\ stage'[m] = "project" => Holds(m, Mine)'
             /\ stage'[m] = "ready" => Holds(m, Mine \cup Theirs)'
  BY <1>1, <1>2 DEF LoadInv, Holds
<1>3. /\ stage'[l] = "publish" => temp'[l] = Embedded
      /\ stage'[l] \in {"user", "project", "ready"} => starter' \notin {NoFile, Link}
      /\ stage'[l] = "project" => Holds(l, Mine)'
      /\ stage'[l] = "ready" => Holds(l, Mine \cup Theirs)'
  BY <1>1 DEF Holds
<1> QED
  BY <1>2, <1>3 DEF LoadInv

LEMMA StarterKeeps ==
  ASSUME PolicyInv, NEW l \in Loaders, CreateStarter(l) \/ WriteStarter(l) \/ Crash(l)
  PROVE  PolicyInv'
<1>1. PolicyTypes'
  BY DEF PolicyInv, PolicyTypes, CreateStarter, WriteStarter, Crash, Proceeds, ruleFiles, onHost
<1>2. ShownInv'
  BY DEF PolicyInv, ShownInv, CreateStarter, WriteStarter, Crash, onHost
<1>3. /\ UNCHANGED <<userFile, starter, project, trust, policy>>
      /\ \A m \in Loaders : m # l => stage'[m] = stage[m] /\ temp'[m] = temp[m]
      /\ stage'[l] = "publish" => temp'[l] = Embedded
      /\ stage'[l] \in {"write", "publish", "dead"}
  BY DEF PolicyInv, PolicyTypes, CreateStarter, WriteStarter, Crash, Proceeds, ruleFiles
<1>4. LoadInv'
  BY <1>3, LoadersKeepApart DEF PolicyInv
<1> QED
  BY <1>1, <1>2, <1>4 DEF PolicyInv

LEMMA PublishKeeps ==
  ASSUME PolicyAssumption, PolicyInv, NEW l \in Loaders, Publish(l)
  PROVE  PolicyInv'
<1>1. temp[l] = Embedded
  BY DEF PolicyInv, LoadInv, Publish
<1>2. starter' = IF starter = NoFile THEN Embedded ELSE starter
  BY <1>1 DEF Publish
<1>3. PolicyTypes'
  BY <1>2 DEF PolicyInv, PolicyTypes, Publish, onHost
<1>4. ShownInv'
  BY DEF PolicyInv, ShownInv, Publish, onHost
<1>5. Embedded \notin {NoFile, Link, Partial}
  BY DocumentsAreReal
<1>6. Doc(starter') = Doc(starter)
  BY <1>2, <1>5 DEF Doc, Embedded
<1>7. Mine' = Mine /\ Theirs' = Theirs
  BY <1>6 DEF Mine, Theirs, Publish, Doc
<1>8. ASSUME NEW m \in Loaders
      PROVE  /\ stage'[m] = "publish" => temp'[m] = Embedded
             /\ stage'[m] \in {"user", "project", "ready"} => starter' \notin {NoFile, Link}
             /\ stage'[m] = "project" => Holds(m, Mine)'
             /\ stage'[m] = "ready" => Holds(m, Mine \cup Theirs)'
  <2>1. CASE m = l
    <3>1. stage'[m] = IF starter = Link THEN "failed" ELSE "user"
      BY <2>1 DEF PolicyInv, PolicyTypes, Publish
    <3> QED
      BY <1>2, <1>5, <3>1
  <2>2. CASE m # l
    <3>1. stage'[m] = stage[m] /\ temp'[m] = temp[m] /\ policy'[m] = policy[m]
      BY <2>2 DEF PolicyInv, PolicyTypes, Publish
    <3>2. starter \notin {NoFile, Link} => starter' \notin {NoFile, Link}
      BY <1>2
    <3> QED
      BY <1>7, <3>1, <3>2 DEF PolicyInv, LoadInv, Holds
  <2> QED
    BY <2>1, <2>2
<1>9. LoadInv'
  BY <1>8 DEF LoadInv
<1> QED
  BY <1>3, <1>4, <1>9 DEF PolicyInv

LEMMA LoadUserKeeps ==
  ASSUME PolicyAssumption, PolicyInv, NEW l \in Loaders, LoadUser(l)
  PROVE  PolicyInv'
<1>1. starter \notin {NoFile, Link, Partial}
  <2>1. starter \notin {NoFile, Link}
    BY DEF PolicyInv, LoadInv, LoadUser
  <2>2. starter \in StarterDocs \cup {Embedded}
    BY <2>1 DEF PolicyInv, PolicyTypes
  <2> QED
    BY <2>2, DocumentsAreReal
<1>2. Content(starter) = starter /\ Doc(starter) = starter
  BY <1>1 DEF Content, Doc
<1> PICK p : p = Parse(Parse(Empty, Content(starter)), userFile)
  OBVIOUS
<1>3. p.rules = RulesOf(Mine) /\ p.hosts = HostsOf(Mine)
  <2>1. Empty.rules = {} /\ Empty.hosts = {}
    BY DEF Empty
  <2> QED
    <3>1. PICK q : q = Parse(Empty, starter)
      OBVIOUS
    <3>2. q.rules = RulesOf(starter) /\ q.hosts = HostsOf(starter)
      <4>1. q.rules = Empty.rules \cup RulesOf(starter) /\ q.hosts = Empty.hosts \cup HostsOf(starter)
        BY <3>1, ParseAdds
      <4> QED
        BY <2>1, <4>1
    <3>3. p.rules = q.rules \cup RulesOf(userFile) /\ p.hosts = q.hosts \cup HostsOf(userFile)
      BY <1>2, <3>1, ParseAdds
    <3>4. /\ RulesOf(Mine) = RulesOf(starter) \cup RulesOf(userFile)
          /\ HostsOf(Mine) = HostsOf(starter) \cup HostsOf(userFile)
      <4>1. Mine = starter \cup userFile
        BY <1>2 DEF Mine
      <4> QED
        BY <4>1, DocumentsAddUp
    <3> QED
      BY <3>2, <3>3, <3>4
<1>4. policy' = [policy EXCEPT ![l] = [p EXCEPT !.failed = @ \/ starter = Partial]]
  BY DEF LoadUser
<1>5. policy'[l].rules = p.rules /\ policy'[l].hosts = p.hosts
  <2>1. /\ [p EXCEPT !.failed = @ \/ starter = Partial].rules = p.rules
        /\ [p EXCEPT !.failed = @ \/ starter = Partial].hosts = p.hosts
    BY DEF Parse
  <2> QED
    BY <1>4, <2>1 DEF PolicyInv, PolicyTypes
<1>6. /\ stage'[l] \in {"failed", "project"}
      /\ stage' = [stage EXCEPT ![l] = IF policy'[l].failed THEN "failed" ELSE "project"]
      /\ UNCHANGED <<userFile, starter, project, trust, temp, lookup, asked, shown, ran>>
  BY DEF PolicyInv, PolicyTypes, LoadUser, ruleFiles, onHost
<1>7. PolicyTypes'
  BY <1>4, <1>6 DEF PolicyInv, PolicyTypes
<1>8. ShownInv'
  BY <1>6 DEF PolicyInv, ShownInv
<1>9. \A m \in Loaders : m # l => /\ stage'[m] = stage[m] /\ temp'[m] = temp[m]
                                  /\ policy'[m] = policy[m]
  BY <1>4, <1>6 DEF PolicyInv, PolicyTypes
<1>10. LoadInv'
  BY <1>1, <1>3, <1>5, <1>6, <1>9, LoadersKeepApart DEF PolicyInv
<1> QED
  BY <1>7, <1>8, <1>10 DEF PolicyInv


LEMMA LoadProjectKeeps ==
  ASSUME PolicyAssumption, PolicyInv, NEW l \in Loaders, LoadProject(l)
  PROVE  PolicyInv'
<1> PICK p, load : p = Parse(policy[l], project) /\ load = (Trusted(trust) /\ project # NoFile)
  OBVIOUS
<1>1. /\ starter \notin {NoFile, Link}
      /\ policy[l].rules = RulesOf(Mine) /\ policy[l].hosts = HostsOf(Mine)
  BY DEF PolicyInv, LoadInv, Holds, LoadProject
<1>2. p.rules = RulesOf(Mine \cup project) /\ p.hosts = HostsOf(Mine \cup project)
  <2>1. PICK q : q = policy[l]
    OBVIOUS
  <2>2. p.rules = q.rules \cup RulesOf(project) /\ p.hosts = q.hosts \cup HostsOf(project)
    BY <2>1, ParseAdds
  <2>3. \A a : /\ RulesOf(a \cup project) = RulesOf(a) \cup RulesOf(project)
               /\ HostsOf(a \cup project) = HostsOf(a) \cup HostsOf(project)
    BY DocumentsAddUp
  <2> QED
    BY <1>1, <2>1, <2>2, <2>3
<1>3. trust \subseteq {"trusted", "untrusted", "invalid"}
  BY DEF PolicyInv, PolicyTypes, PolicyAssumption
<1>4. CASE "invalid" \in trust \/ (load /\ project = Link)
  <2>1. stage' = [stage EXCEPT ![l] = "failed"] /\ UNCHANGED policy
    BY <1>4 DEF LoadProject
  <2>2. UNCHANGED <<userFile, starter, project, trust, temp, lookup, asked, shown, ran>>
    BY DEF LoadProject, ruleFiles, onHost
  <2>3. PolicyTypes' /\ ShownInv'
    BY <2>1, <2>2 DEF PolicyInv, PolicyTypes, ShownInv
  <2>4. /\ stage'[l] = "failed"
        /\ \A m \in Loaders : m # l => stage'[m] = stage[m] /\ temp'[m] = temp[m]
                                       /\ policy'[m] = policy[m]
    BY <2>1, <2>2 DEF PolicyInv, PolicyTypes
  <2>5. LoadInv'
    BY <2>2, <2>4, LoadersKeepApart DEF PolicyInv
  <2> QED
    BY <2>3, <2>5 DEF PolicyInv
<1>5. CASE ~("invalid" \in trust \/ (load /\ project = Link))
  <2>1. /\ policy' = IF load THEN [policy EXCEPT ![l] = p] ELSE policy
        /\ stage' = [stage EXCEPT ![l] = IF policy'[l].failed THEN "failed" ELSE "ready"]
    BY <1>5 DEF LoadProject
  <2>2. UNCHANGED <<userFile, starter, project, trust, temp, lookup, asked, shown, ran>>
    BY DEF LoadProject, ruleFiles, onHost
  <2>3. PolicyTypes' /\ ShownInv'
    BY <2>1, <2>2 DEF PolicyInv, PolicyTypes, ShownInv
  <2>4. Trusted(trust) <=> trust = {"trusted"}
    BY <1>3, <1>5 DEF Trusted
  <2>5. load => project \notin {NoFile, Link} /\ Theirs = project
    <3>1. load => project \notin {NoFile, Link}
      BY <1>5
    <3>2. load => project \in ProjectDocs
      BY <3>1 DEF PolicyInv, PolicyTypes
    <3>3. load => project # Partial
      BY <3>2, DocumentsAreReal
    <3> QED
      BY <2>4, <3>1, <3>3 DEF Theirs, Doc
  <2>6. ~load => Theirs = {}
    BY <2>4 DEF Theirs, Doc
  <2>7. policy'[l].rules = RulesOf(Mine \cup Theirs) /\ policy'[l].hosts = HostsOf(Mine \cup Theirs)
    <3>1. CASE load
      BY <1>2, <2>1, <2>5, <3>1 DEF PolicyInv, PolicyTypes
    <3>2. CASE ~load
      <4>1. Mine \cup Theirs = Mine
        BY <2>6, <3>2
      <4> QED
        BY <1>1, <2>1, <3>2, <4>1
    <3> QED
      BY <3>1, <3>2
  <2>8. /\ stage'[l] \in {"failed", "ready"}
        /\ \A m \in Loaders : m # l => stage'[m] = stage[m] /\ temp'[m] = temp[m]
                                       /\ policy'[m] = policy[m]
    BY <2>1, <2>2 DEF PolicyInv, PolicyTypes
  <2>9. LoadInv'
    BY <1>1, <2>2, <2>7, <2>8, LoadersKeepApart DEF PolicyInv
  <2> QED
    BY <2>3, <2>9 DEF PolicyInv
<1> QED
  BY <1>4, <1>5

\* Whoever asks, and whatever happens until the answer, runs what was shown.
LEMMA EscalationKeeps ==
  ASSUME PolicyInv,
         \/ \E l \in Loaders, c \in Commands : AskEscalation(l, c)
         \/ \E name \in DOMAIN lookup, dir \in Workspace \cup {"/h"} : Reinstall(name, dir)
         \/ RunOnHost \/ UNCHANGED rvars
  PROVE  PolicyInv'
<1>1. UNCHANGED <<userFile, starter, project, trust, temp, stage, policy>>
  BY DEF AskEscalation, Reinstall, RunOnHost, ruleFiles, rvars
<1>2. PolicyTypes'
  BY <1>1 DEF PolicyInv, PolicyTypes
<1>3. LoadInv'
  BY <1>1 DEF PolicyInv, LoadInv, Holds, Mine, Theirs, Doc
<1>4. ASSUME NEW l \in Loaders, NEW c \in Commands, AskEscalation(l, c) PROVE ShownInv'
  <2>1. asked' # <<>> /\ shown'.dir \notin Workspace /\ ran' = NoWord
    BY <1>4 DEF AskEscalation, Escalates, PolicyInv, ShownInv
  <2> QED
    BY <2>1 DEF ShownInv
<1>5. ASSUME NEW name \in DOMAIN lookup, NEW dir \in Workspace \cup {"/h"}, Reinstall(name, dir)
      PROVE  ShownInv'
  BY <1>5 DEF PolicyInv, ShownInv, Reinstall
<1>6. ASSUME RunOnHost PROVE ShownInv'
  BY <1>6 DEF PolicyInv, ShownInv, RunOnHost
<1>7. ASSUME UNCHANGED rvars PROVE ShownInv'
  BY <1>7 DEF PolicyInv, ShownInv, rvars
<1>8. ShownInv'
  BY <1>4, <1>5, <1>6, <1>7
<1> QED
  BY <1>2, <1>3, <1>8 DEF PolicyInv

LEMMA PolicyStep == ASSUME PolicyAssumption PROVE PolicyInv /\ [PolicyNext]_rvars => PolicyInv'
<1> SUFFICES ASSUME PolicyInv, [PolicyNext]_rvars PROVE PolicyInv'
  OBVIOUS
<1>1. ASSUME NEW l \in Loaders, CreateStarter(l) \/ WriteStarter(l) \/ Crash(l) PROVE PolicyInv'
  BY <1>1, StarterKeeps
<1>2. ASSUME NEW l \in Loaders, Publish(l) PROVE PolicyInv'
  BY <1>2, PublishKeeps
<1>3. ASSUME NEW l \in Loaders, LoadUser(l) PROVE PolicyInv'
  BY <1>3, LoadUserKeeps
<1>4. ASSUME NEW l \in Loaders, LoadProject(l) PROVE PolicyInv'
  BY <1>4, LoadProjectKeeps
<1>5. CASE \/ \E l \in Loaders, c \in Commands : AskEscalation(l, c)
           \/ \E name \in DOMAIN lookup, dir \in Workspace \cup {"/h"} : Reinstall(name, dir)
           \/ RunOnHost \/ UNCHANGED rvars
  BY <1>5, EscalationKeeps
<1> QED
  BY <1>1, <1>2, <1>3, <1>4, <1>5 DEF PolicyNext

\* What a process holds: declarations of the user's files and of a project's.
LEMMA HeldIsDeclared ==
  ASSUME PolicyAssumption, PolicyInv
  PROVE  /\ \A r \in RulesOf(Mine \cup Theirs) : r.decision \in Decisions
         /\ \A w \in HostsOf(Mine \cup Theirs) : w.dir # ""
<1>1. \A d \in Mine \cup Theirs : \/ d.kind = "rule" /\ d.decision \in Decisions
                                  \/ d.kind = "host" /\ \A w \in d.paths : w.dir # ""
  <2>1. ASSUME NEW doc \in UserDocs \cup StarterDocs \cup ProjectDocs, NEW d \in doc
        PROVE  \/ d.kind = "rule" /\ d.decision \in Decisions
               \/ d.kind = "host" /\ \A w \in d.paths : w.dir # ""
    BY <2>1 DEF PolicyAssumption, Decisions
  <2>2. Doc(starter) = {} \/ Doc(starter) \in StarterDocs
    BY DEF PolicyInv, PolicyTypes, Doc, Embedded
  <2>3. Doc(project) = {} \/ Doc(project) \in ProjectDocs
    BY DEF PolicyInv, PolicyTypes, Doc
  <2>4. userFile \in UserDocs
    BY DEF PolicyInv, PolicyTypes
  <2> QED
    BY <2>1, <2>2, <2>3, <2>4 DEF Mine, Theirs
<1>2. \A r \in RulesOf(Mine \cup Theirs) : r.decision \in Decisions
  <2>1. "rule" # "host"
    OBVIOUS
  <2> QED
    BY <1>1, <2>1 DEF RulesOf
<1>3. \A w \in HostsOf(Mine \cup Theirs) : w.dir # ""
  <2>1. "rule" # "host"
    OBVIOUS
  <2> QED
    BY <1>1, <2>1 DEF HostsOf
<1> QED
  BY <1>2, <1>3

LEMMA PolicyInvIsSound == ASSUME PolicyAssumption PROVE PolicyInv => RulesAreFollowed
<1> SUFFICES ASSUME PolicyInv PROVE RulesAreFollowed
  OBVIOUS
<1>1. ASSUME NEW l \in Ready
      PROVE  l \in Loaders /\ Holds(l, Mine \cup Theirs) /\ starter \notin {NoFile, Link}
  BY DEF PolicyInv, LoadInv, Ready
<1>2. PolicyIsAuthorised
  <2>1. starter # Partial
    <3>1. starter \in {NoFile, Link} \/ starter \in StarterDocs \cup {Embedded}
      BY DEF PolicyInv, PolicyTypes
    <3> QED
      BY <3>1, DocumentsAreReal, SpecialFiles
  <2> QED
    BY <1>1, <2>1 DEF PolicyIsAuthorised, Holds, RulesOf, Mine, Theirs
<1>3. AllowedIsVouchedFor
  <2> SUFFICES ASSUME NEW l \in Ready, NEW c \in Commands,
                      Evaluate(policy[l], c).decision = "allow"
               PROVE  /\ ~c.opaque /\ ~c.hard
                      /\ \A i \in DOMAIN c.segments :
                           LET argv == c.segments[i]
                               of(d) == \E r \in policy[l].rules :
                                          r.decision = d /\ Matches(r, argv)
                               under(d) == \E r \in policy[l].rules :
                                 /\ r.decision = d /\ argv[1] \in policy[l].hosts
                                 /\ Matches(r, [argv EXCEPT ![1].dir = ""])
                           IN /\ argv # <<>>
                              /\ of("allow") \/ under("allow") \/ KnownSafe(argv)
                              /\ ~of("forbidden") /\ ~of("prompt")
                              /\ of("allow") \/ (~under("forbidden") /\ ~under("prompt"))
    BY DEF AllowedIsVouchedFor
  <2>1. \A r \in policy[l].rules : r.decision \in Decisions
    BY <1>1, HeldIsDeclared DEF Holds
  <2>2. c.segments \in Seq(Seq([dir : STRING, name : STRING]))
    BY DEF PolicyAssumption
  <2>3. ~HardDenied(c) /\ ~Refused(c)
    BY <2>1, AllowedMeans
  <2>4. ~c.opaque /\ ~c.hard
    BY <2>3 DEF HardDenied, Refused
  <2> QED
    BY <2>1, <2>2, <2>4, VouchedFor
<1>4. UserRulesStand
  <2> PICK mine : mine = Parse(Parse(Empty, Doc(starter)), userFile)
    OBVIOUS
  <2>1. mine.rules = RulesOf(Mine) /\ mine.hosts = HostsOf(Mine)
    <3>1. Empty.rules = {} /\ Empty.hosts = {}
      BY DEF Empty
    <3>2. PICK own, q : own = Doc(starter) /\ q = Parse(Empty, own)
      OBVIOUS
    <3>3. q.rules = RulesOf(own) /\ q.hosts = HostsOf(own)
      <4>1. \A e : q = Parse(e, own) => /\ q.rules = e.rules \cup RulesOf(own)
                                         /\ q.hosts = e.hosts \cup HostsOf(own)
        BY ParseAdds
      <4> QED
        BY <3>1, <3>2, <4>1
    <3>4. mine = Parse(q, userFile) /\ Mine = own \cup userFile
      BY <3>2 DEF Mine
    <3>5. /\ mine.rules = q.rules \cup RulesOf(userFile)
          /\ mine.hosts = q.hosts \cup HostsOf(userFile)
      BY <3>4, ParseAdds
    <3> QED
      BY <3>3, <3>4, <3>5, DocumentsAddUp
  <2>2. ASSUME NEW l \in Ready, NEW c \in Commands,
               \A i \in DOMAIN c.segments : c.segments[i] # <<>> => Bare(c.segments[i][1])
        PROVE  /\ Evaluate(mine, c).decision = "deny" => Evaluate(policy[l], c).decision = "deny"
               /\ Evaluate(mine, c).prompt => \/ Evaluate(policy[l], c).decision = "deny"
                                              \/ Evaluate(policy[l], c).prompt
    <3>1. /\ policy[l].rules = RulesOf(Mine \cup Theirs)
          /\ policy[l].hosts = HostsOf(Mine \cup Theirs)
      BY <1>1 DEF Holds
    <3>2. mine.rules \subseteq policy[l].rules /\ mine.hosts \subseteq policy[l].hosts
      BY <2>1, <3>1, DocumentsAddUp
    <3>3. /\ \A r \in policy[l].rules : r.decision \in Decisions
          /\ \A w \in mine.hosts \cup policy[l].hosts : w.dir # ""
      BY <3>1, <3>2, HeldIsDeclared
    <3>4. c.segments \in Seq(Seq([dir : STRING, name : STRING]))
      BY DEF PolicyAssumption
    <3> QED
      BY <2>2, <3>2, <3>3, <3>4, NeverLooser
  <2> QED
    BY <2>2 DEF UserRulesStand
<1>5. RunsWhatWasShown
  BY DEF PolicyInv, ShownInv, RunsWhatWasShown
<1> QED
  BY <1>2, <1>3, <1>4, <1>5 DEF RulesAreFollowed

(* However many processes start at once, die and read the rule files, what *)
(* each holds is what the user wrote and what a trusted project added;     *)
(* what it lets run unasked is vouched for, the user's rules stand, and on *)
(* the host runs what was shown (impact_policy.go, shell.go).              *)
THEOREM RulesHold == ASSUME PolicyAssumption PROVE PolicySpec => []RulesAreFollowed
<1>1. PolicyInv /\ [PolicyNext]_rvars => PolicyInv'
  BY PolicyStep
<1>2. PolicyInv => RulesAreFollowed
  BY PolicyInvIsSound
<1> QED
  BY <1>1, <1>2, PolicyStart, PTL DEF PolicySpec

-----------------------------------------------------------------------------
(* The sandbox.                                                            *)

\* Names of files, with those the model itself gives.
Names == STRING \cup {"run", "staged", "worker", "tmp", "x"}
PathNames == Seq(Names)

Free(t) == /\ ~Overlap(workspace, t)
           /\ \A r \in found \cup roots : ~Overlap(r, t) /\ ~Overlap(r, workspace)
Mounted(t) == [backend |-> "bubblewrap", temp |-> t, mounts |-> FirstOfEach(Mounts(t)) \o Masks]

\* A policy that is valid has its worker, and a view is made for a temporary
\* directory apart from all that the policy names.
BoxInv ==
  /\ machine \in Hosts /\ workspace \in Workspaces /\ patterns \in Patterns
  /\ mode \in {"read-only", "workspace-write"} /\ DOMAIN node = UNION Patterns
  /\ machine.home \notin found
  /\ validity = "valid" => /\ worker = Staged
                           /\ \A r \in found \cup roots : ~Overlap(r, workspace)
  /\ Runs => /\ validity = "valid"
             /\ \E t \in TempDirs : Free(t) /\ view \in {Mounted(t), Seatbelt(t)}

\* No directory that is discovered is the home.
LEMMA NeverTheHome == machine.home \notin Discovered
<1>1. \A d : machine.home \notin WithPrefix(d)
  BY DEF WithPrefix
<1>2. ASSUME NEW d PROVE machine.home \notin LinkTargets(d)
  <2> DEFINE targets == {machine.links[l] : l \in {k \in DOMAIN machine.links : Parent(k) = d}}
  <2>1. \A t : machine.home \notin WithPrefix(Parent(t)) \cup WithPrefix(Parent(Parent(t)))
    BY <1>1
  <2> HIDE DEF targets
  <2>2. machine.home \notin UNION {WithPrefix(Parent(t)) \cup WithPrefix(Parent(Parent(t))) :
                                   t \in targets}
    BY <2>1
  <2> QED
    BY <2>2 DEF targets, LinkTargets
<1> DEFINE entries == {d \in ToSet(DefaultPath) \cup (IF auto THEN env.path ELSE {}) :
                         d \in machine.dirs \ {<<>>}}
<1> HIDE DEF entries
<1>3. machine.home \notin UNION {WithPrefix(d) \cup LinkTargets(d) : d \in entries}
  BY <1>1, <1>2
<1>4. machine.home \notin UNION {WithPrefix(d) : d \in env.tools}
  BY <1>1
<1> QED
  BY <1>3, <1>4 DEF Discovered, entries

\* What a view would be depends on the policy alone.
LEMMA ViewsStay ==
  ASSUME UNCHANGED <<machine, workspace, mode, roots, patterns, found, worker>>
  PROVE  \A t : /\ Free(t)' <=> Free(t)
                /\ Mounted(t)' = Mounted(t) /\ Seatbelt(t)' = Seatbelt(t)
<1>1. \A t : Mounts(t)' = Mounts(t)
  BY DEF Mounts, Layer
<1>2. Masks' = Masks
  BY DEF Masks, Layer, Place
<1>3. \A t : Mounted(t)' = Mounted(t)
  BY <1>1, <1>2 DEF Mounted, FirstOfEach
<1>4. \A t : Seatbelt(t)' = Seatbelt(t)
  BY DEF Seatbelt, Place
<1>5. \A t : Free(t)' <=> Free(t)
  BY DEF Free
<1> QED
  BY <1>3, <1>4, <1>5

LEMMA BoxStarts == BoxInit => BoxInv
BY DEF BoxInit, BoxInv, Runs

LEMMA BoxSteps == BoxInv /\ [BoxNext]_bvars => BoxInv'
<1> SUFFICES ASSUME BoxInv, [BoxNext]_bvars PROVE BoxInv'
  OBVIOUS
<1> USE DEF BoxInv
<1>1. CASE UNCHANGED bvars
  <2>1. \A t : /\ Free(t)' <=> Free(t)
               /\ Mounted(t)' = Mounted(t) /\ Seatbelt(t)' = Seatbelt(t)
    BY <1>1, ViewsStay DEF bvars, inputs
  <2> QED
    BY <1>1, <2>1 DEF bvars, inputs, Staged, TempDirs, Runs
<1>2. CASE Discover
  BY <1>2, NeverTheHome DEF Discover, inputs, Runs
<1>3. CASE StartRunner
  <2>1. ~Runs' /\ UNCHANGED <<inputs, node, found>> /\ Staged' = Staged
    BY <1>3 DEF StartRunner, inputs, Runs, Staged
  <2>2. validity' = "valid" => \A r \in found \cup roots : ~Overlap(r, workspace)
    BY <1>3 DEF StartRunner, Acceptable
  <2> QED
    BY <1>3, <2>1, <2>2 DEF StartRunner, inputs
<1>4. ASSUME NEW b \in {"bubblewrap", "seatbelt"}, NEW t \in TempDirs, Execute(b, t)
      PROVE  BoxInv'
  <2>1. /\ UNCHANGED <<inputs, node, found, validity, worker>> /\ validity = "valid"
        /\ \/ view' = NoView("refused")
           \/ Free(t) /\ view' \in {Mounted(t), Seatbelt(t)}
    BY <1>4 DEF Execute, Bubblewrap, Mounted, Free
  <2>2. \A u : /\ Free(u)' <=> Free(u)
               /\ Mounted(u)' = Mounted(u) /\ Seatbelt(u)' = Seatbelt(u)
    BY <2>1, ViewsStay DEF inputs
  <2>3. TempDirs' = TempDirs /\ Staged' = Staged
    BY <2>1 DEF inputs, TempDirs, Staged
  <2>4. Runs' => \E u \in TempDirs' : Free(u)' /\ view' \in {Mounted(u)', Seatbelt(u)'}
    BY <1>4, <2>1, <2>2, <2>3 DEF Runs, NoView
  <2> QED
    BY <2>1, <2>3, <2>4 DEF inputs, Runs
<1>5. ASSUME NEW q \in DOMAIN node, NEW k \in {"absent", "file", "dir", "link"}, Change(q, k)
      PROVE  BoxInv'
  <2>1. \A t : /\ Free(t)' <=> Free(t)
               /\ Mounted(t)' = Mounted(t) /\ Seatbelt(t)' = Seatbelt(t)
    BY <1>5, ViewsStay DEF Change, inputs
  <2> QED
    BY <1>5, <2>1 DEF Change, inputs, Staged, TempDirs, Runs
<1> QED
  BY <1>1, <1>2, <1>3, <1>4, <1>5 DEF BoxNext

\* One path lies in another when it begins with the other's names.
LEMMA WithinIs ==
  ASSUME NEW r \in PathNames, NEW p \in PathNames
  PROVE  Within(r, p) <=> Len(r) <= Len(p) /\ \A i \in 1 .. Len(r) : r[i] = p[i]
<1>1. SubSeq(r, 1, Len(r)) = r
  BY SubSeqFull DEF PathNames
<1>2. ASSUME Len(r) <= Len(p)
      PROVE  /\ SubSeq(p, 1, Len(r)) \in Seq(Names) /\ Len(SubSeq(p, 1, Len(r))) = Len(r)
             /\ \A i \in 1 .. Len(r) : SubSeq(p, 1, Len(r))[i] = p[i]
  BY <1>2, SubSeqProperties, SMT DEF PathNames
<1>3. ASSUME Len(r) <= Len(p), \A i \in 1 .. Len(r) : r[i] = p[i]
      PROVE  r = SubSeq(p, 1, Len(r))
  BY <1>2, <1>3, SeqEqual DEF PathNames
<1> QED
  BY <1>1, <1>2, <1>3 DEF Within, IsPrefix

\* What lies in two paths puts one of them in the other.
LEMMA Comparable ==
  ASSUME NEW q \in PathNames, NEW r \in PathNames, NEW p \in PathNames,
         Within(q, p), Within(r, p)
  PROVE  Overlap(q, r)
<1>1. Len(q) \in Nat /\ Len(r) \in Nat /\ Len(p) \in Nat
  BY DEF PathNames
<1>2. CASE Len(q) <= Len(r)
  <2>1. Within(q, r)
    BY <1>1, <1>2, WithinIs
  <2> QED
    BY <2>1 DEF Overlap
<1>3. CASE Len(r) <= Len(q)
  <2>1. Within(r, q)
    BY <1>1, <1>3, WithinIs
  <2> QED
    BY <2>1 DEF Overlap
<1> QED
  BY <1>1, <1>2, <1>3

LEMMA WithinSelf == ASSUME NEW p \in PathNames PROVE Within(p, p) /\ Overlap(p, p)
BY WithinIs DEF PathNames, Overlap

LEMMA WithinTrans ==
  ASSUME NEW q \in PathNames, NEW r \in PathNames, NEW p \in PathNames,
         Within(q, r), Within(r, p)
  PROVE  Within(q, p)
<1>1. Len(q) \in Nat /\ Len(r) \in Nat /\ Len(p) \in Nat
  BY DEF PathNames
<1> QED
  BY <1>1, WithinIs

\* A path made longer.
LEMMA Longer ==
  ASSUME NEW p \in PathNames, NEW q \in PathNames
  PROVE  /\ p \o q \in PathNames /\ Len(p \o q) = Len(p) + Len(q) /\ Within(p, p \o q)
         /\ \A i \in 1 .. Len(q) : (p \o q)[Len(p) + i] = q[i]
<1>1. /\ p \o q \in PathNames /\ Len(p \o q) = Len(p) + Len(q)
      /\ \A i \in 1 .. Len(p) : (p \o q)[i] = p[i]
  BY ConcatProperties DEF PathNames
<1>2. \A i \in 1 .. Len(q) : (p \o q)[Len(p) + i] = q[i]
  <2>1. Len(p) \in Nat /\ Len(q) \in Nat
    BY DEF PathNames
  <2>2. ASSUME NEW i \in 1 .. Len(q) PROVE (p \o q)[Len(p) + i] = q[i]
    <3>1. Len(p) + i \in 1 .. Len(p) + Len(q) /\ ~(Len(p) + i <= Len(p)) /\ Len(p) + i - Len(p) = i
      BY <2>1
    <3> QED
      BY <3>1, ConcatProperties DEF PathNames
  <2> QED
    BY <2>2
<1>3. Len(p) \in Nat /\ Len(q) \in Nat
  BY DEF PathNames
<1>4. Within(p, p \o q)
  <2>1. PICK s \in PathNames : s = p \o q
    BY <1>1
  <2>2. Len(p) <= Len(s) /\ \A i \in 1 .. Len(p) : p[i] = s[i]
    BY <1>1, <1>3, <2>1
  <2> QED
    BY <2>1, <2>2, WithinIs
<1> QED
  BY <1>1, <1>2, <1>4

\* Below p lies q exactly when what follows p begins with q.
LEMMA WithinBelow ==
  ASSUME NEW w \in PathNames, NEW q \in PathNames, NEW p \in PathNames, Within(w, p)
  PROVE  Within(w \o q, p) <=> IsPrefix(q, SubSeq(p, Len(w) + 1, Len(p)))
<1> DEFINE rest == SubSeq(p, Len(w) + 1, Len(p))
<1>1. Len(q) \in Nat /\ Len(w) \in Nat /\ Len(p) \in Nat /\ Len(w) <= Len(p)
  BY WithinIs DEF PathNames
<1>2. /\ rest \in PathNames /\ Len(rest) = Len(p) - Len(w)
      /\ \A i \in 1 .. Len(rest) : rest[i] = p[Len(w) + i]
  BY <1>1, SubSeqProperties DEF PathNames
<1> HIDE DEF rest
<1>3. Within(q, rest) <=> Len(q) <= Len(rest) /\ \A i \in 1 .. Len(q) : q[i] = rest[i]
  BY <1>2, WithinIs
<1>4. /\ w \o q \in PathNames /\ Len(w \o q) = Len(w) + Len(q)
      /\ \A i \in 1 .. Len(w) : (w \o q)[i] = w[i]
      /\ \A i \in 1 .. Len(q) : (w \o q)[Len(w) + i] = q[i]
  BY Longer, WithinIs DEF PathNames
<1>5. Within(w \o q, p) <=> /\ Len(w \o q) <= Len(p)
                            /\ \A i \in 1 .. Len(w \o q) : (w \o q)[i] = p[i]
  BY <1>4, WithinIs
<1>6. \A i \in 1 .. Len(w) : (w \o q)[i] = p[i]
  BY <1>4, WithinIs
<1>7. ASSUME Within(w \o q, p) PROVE Within(q, rest)
  <2>1. \A i \in 1 .. Len(q) : q[i] = p[Len(w) + i]
    BY <1>1, <1>4, <1>5, <1>7
  <2> QED
    BY <1>1, <1>2, <1>3, <1>4, <1>5, <1>7, <2>1
<1>8. ASSUME Within(q, rest) PROVE Within(w \o q, p)
  <2>1. ASSUME NEW i \in 1 .. Len(w \o q) PROVE (w \o q)[i] = p[i]
    <3>1. CASE i <= Len(w)
      BY <1>1, <1>4, <1>6, <3>1
    <3>2. CASE i > Len(w)
      <4> DEFINE j == i - Len(w)
      <4>1. j \in 1 .. Len(q) /\ i = Len(w) + j
        BY <1>1, <1>4, <3>2
      <4> QED
        BY <1>1, <1>2, <1>3, <1>4, <1>8, <4>1
    <3> QED
      BY <1>1, <1>4, <3>1, <3>2
  <2> QED
    BY <1>1, <1>2, <1>3, <1>4, <1>5, <1>8, <2>1
<1> QED
  BY <1>7, <1>8 DEF Within, rest

-----------------------------------------------------------------------------
Given == BoxInv /\ SandboxAssumption
ViewWith(t) ==
  /\ Given /\ Runs /\ validity = "valid"
  /\ t \in TempDirs /\ Free(t) /\ view \in {Mounted(t), Seatbelt(t)}
Inside(p) == Within(workspace, p)
Hidden(p) == Inside(p) /\ \E q \in patterns : Within(Place(q), p)

\* What is given are paths.
LEMMA PathsAre ==
  ASSUME Given
  PROVE  /\ workspace \in PathNames /\ machine.temp \in PathNames /\ machine.program \in PathNames
         /\ machine.dirs \subseteq PathNames /\ patterns \subseteq PathNames
         /\ UNION Patterns \subseteq PathNames
<1>1. \A p \in Seq(STRING) : p \in PathNames
  <2>1. \A p \in Seq(STRING) : p \in [1 .. Len(p) -> STRING] /\ Len(p) \in Nat
    OBVIOUS
  <2>2. \A p \in Seq(STRING) : p \in [1 .. Len(p) -> Names]
    BY <2>1 DEF Names
  <2> QED
    BY <2>1, <2>2 DEF PathNames
<1>2. /\ machine \in Hosts /\ workspace \in Workspaces /\ patterns \in Patterns
  BY DEF Given, BoxInv
<1>3. /\ workspace \in Seq(STRING) /\ machine.temp \in Seq(STRING)
      /\ machine.program \in Seq(STRING) /\ machine.dirs \subseteq Seq(STRING)
      /\ \A places \in Patterns : places \subseteq Seq(STRING)
  BY <1>2 DEF Given, SandboxAssumption
<1> QED
  BY <1>1, <1>2, <1>3

\* The temporary directory, the worker and the workspace lie apart, and the
\* first two are beside everything the workspace may be in.
LEMMA Apart ==
  ASSUME NEW t, ViewWith(t)
  PROVE  /\ t \in PathNames /\ worker \in PathNames
         /\ ~Overlap(workspace, t) /\ ~Overlap(worker, t) /\ ~Overlap(workspace, worker)
         /\ workspace \notin RuntimeRoots \cup found \cup roots
         /\ t \notin RuntimeRoots \cup found \cup roots
<1>1. Given /\ t \in TempDirs /\ Free(t) /\ worker = Staged
  BY DEF ViewWith, Given, BoxInv
<1>2. /\ workspace \in PathNames /\ machine.temp \in PathNames /\ machine.program \in PathNames
  BY <1>1, PathsAre
<1>3. /\ <<"run">> \in PathNames /\ Len(<<"run">>) = 1 /\ <<"run">>[1] = "run"
      /\ <<"staged">> \in PathNames /\ Len(<<"staged">>) = 1 /\ <<"staged">>[1] = "staged"
      /\ <<"tmp">> \in PathNames
      /\ <<"staged", "worker">> \in PathNames /\ Len(<<"staged", "worker">>) = 2
      /\ <<"staged", "worker">>[1] = "staged"
  BY DEF PathNames, Names
<1>4. ~Overlap(workspace, t)
  BY <1>1 DEF Free
<1>5. t = machine.temp \o <<"run">>
  <2>1. Within(workspace, workspace \o <<"tmp">>)
    BY <1>2, <1>3, Longer
  <2> QED
    BY <1>1, <1>4, <2>1 DEF TempDirs, Overlap
<1>6. t \in PathNames /\ Len(t) = Len(machine.temp) + 1 /\ t[Len(machine.temp) + 1] = "run"
      /\ Within(machine.temp, t)
  BY <1>2, <1>3, <1>5, Longer
<1>7. machine \in Hosts /\ workspace \in Workspaces
  BY <1>1 DEF Given, BoxInv
<1>8. /\ machine.temp \o <<"run">> \notin RuntimeRoots
      /\ ~Overlap(machine.program, machine.temp \o <<"run">>)
      /\ workspace \notin RuntimeRoots /\ ~Within(machine.program, workspace)
      /\ ~Within(machine.temp \o <<"staged">>, workspace)
  BY <1>1, <1>7 DEF Given, SandboxAssumption
<1>9. workspace \notin found \cup roots /\ t \notin found \cup roots
  BY <1>1, <1>2, <1>6, WithinSelf DEF Free
<1>10. worker \in PathNames /\ ~Overlap(worker, t) /\ ~Overlap(workspace, worker)
  <2>1. CASE ~Within(workspace, machine.program)
    BY <1>1, <1>2, <1>5, <1>8, <2>1 DEF Staged, Overlap
  <2>2. CASE Within(workspace, machine.program)
    <3> DEFINE n == Len(machine.temp)
               dir == machine.temp \o <<"staged">>
    <3>1. worker = machine.temp \o <<"staged", "worker">>
      BY <1>1, <2>2 DEF Staged
    <3>2. /\ worker \in PathNames /\ Len(worker) = n + 2 /\ worker[n + 1] = "staged"
          /\ Within(machine.temp, worker)
      <4>1. PICK s \in PathNames : s = <<"staged", "worker">> /\ Len(s) = 2 /\ s[1] = "staged"
        BY <1>3
      <4>2. worker = machine.temp \o s
        BY <3>1, <4>1
      <4>3. /\ worker \in PathNames /\ Len(worker) = n + Len(s) /\ Within(machine.temp, worker)
            /\ \A i \in 1 .. Len(s) : worker[n + i] = s[i]
        BY <1>2, <4>2, Longer
      <4> QED
        BY <4>1, <4>3
    <3>3. dir \in PathNames /\ Len(dir) = n + 1 /\ dir[n + 1] = "staged" /\ Within(machine.temp, dir)
      BY <1>2, <1>3, Longer
    <3> HIDE DEF dir
    <3>4. n \in Nat
      BY <1>2 DEF PathNames
    <3>5. ~Overlap(worker, t)
      <4>1. n + 1 \in 1 .. Len(worker) /\ n + 1 \in 1 .. Len(t) /\ worker[n + 1] # t[n + 1]
        BY <1>6, <3>2, <3>4
      <4>2. ~Within(worker, t)
        BY <1>6, <3>2, <4>1, WithinIs
      <4>3. ~Within(t, worker)
        BY <1>6, <3>2, <4>1, WithinIs
      <4> QED
        BY <4>2, <4>3 DEF Overlap
    <3>6. Within(dir, worker)
      <4>1. \A i \in 1 .. n : dir[i] = machine.temp[i] /\ worker[i] = machine.temp[i]
        BY <1>2, <3>2, <3>3, WithinIs
      <4>2. \A i \in 1 .. Len(dir) : dir[i] = worker[i]
        BY <3>2, <3>3, <3>4, <4>1
      <4>3. Len(dir) <= Len(worker)
        BY <3>2, <3>3, <3>4
      <4> QED
        BY <3>2, <3>3, <4>2, <4>3, WithinIs
    <3>7. ~Within(worker, workspace)
      BY <1>2, <1>8, <3>2, <3>3, <3>6, WithinTrans DEF dir
    <3>8. ~Within(workspace, worker)
      <4>1. SUFFICES ASSUME Within(workspace, worker) PROVE FALSE
        OBVIOUS
      <4>2. CASE Len(workspace) <= n
        <5>1. Within(workspace, machine.temp)
          BY <1>2, <3>2, <3>4, <4>1, <4>2, WithinIs
        <5> QED
          BY <1>2, <1>4, <1>6, <5>1, WithinTrans DEF Overlap
      <4>3. CASE Len(workspace) > n
        <5>1. Within(dir, workspace)
          <6>1. Len(workspace) \in Nat
            BY <1>2 DEF PathNames
          <6>2. \A i \in 1 .. Len(dir) : dir[i] = worker[i] /\ workspace[i] = worker[i]
            BY <1>2, <3>2, <3>3, <3>4, <3>6, <4>1, <4>3, <6>1, WithinIs
          <6> QED
            BY <1>2, <3>3, <3>4, <4>3, <6>1, <6>2, WithinIs
        <5> QED
          BY <1>8, <5>1 DEF dir
      <4> QED
        BY <1>2, <3>4, <4>2, <4>3 DEF PathNames
    <3> QED
      BY <3>2, <3>5, <3>7, <3>8 DEF Overlap
  <2> QED
    BY <2>1, <2>2
<1> QED
  BY <1>4, <1>5, <1>6, <1>8, <1>9, <1>10

\* What is in the temporary directory is not in the workspace, and the
\* worker is above neither.
LEMMA OnePlace ==
  ASSUME NEW t, ViewWith(t), NEW p \in PathNames
  PROVE  /\ ~(Within(t, p) /\ Inside(p))
         /\ Within(t, p) \/ Inside(p) => ~Within(worker, p)
<1>1. workspace \in PathNames
  BY PathsAre DEF ViewWith
<1> QED
  BY <1>1, Apart, Comparable DEF Inside, Overlap

\* Whether a place is hidden is what the file tools compute.
LEMMA HiddenIs ==
  ASSUME Given, NEW p \in PathNames, Inside(p)
  PROVE  Hidden(p) <=> MatchesProtected(SubSeq(p, Len(workspace) + 1, Len(p)))
<1>1. workspace \in PathNames /\ \A q \in patterns : q \in PathNames
  BY PathsAre
<1>2. \A q \in patterns : Within(Place(q), p)
                         <=> IsPrefix(q, SubSeq(p, Len(workspace) + 1, Len(p)))
  BY <1>1, WithinBelow DEF Inside, Place
<1> QED
  BY <1>2 DEF Hidden, MatchesProtected

\* A protected place is in the workspace.
LEMMA PlaceInside ==
  ASSUME Given, NEW p \in PathNames, NEW q \in patterns, Within(Place(q), p)
  PROVE  Inside(p)
<1>1. workspace \in PathNames /\ q \in PathNames
  BY PathsAre
<1>2. Place(q) \in PathNames /\ Within(workspace, Place(q))
  BY <1>1, Longer DEF Place
<1> QED
  BY <1>1, <1>2, WithinTrans DEF Inside

-----------------------------------------------------------------------------
\* The layers of a view: system, read-only roots, workspace, temporary
\* directory, worker, masks.
Places == {Place(q) : q \in patterns}
LEMMA LayersAre ==
  ASSUME NEW t, ViewWith(t), view = Mounted(t)
  PROVE  /\ view.backend = "bubblewrap" /\ view.temp = t /\ DOMAIN view.mounts = 1 .. 6
         /\ view.mounts[1] = Layer(RuntimeRoots, "ro")
         /\ view.mounts[2].kind = "ro"
         /\ \A r \in found \cup roots : r \in RuntimeRoots \cup view.mounts[2].dests
         /\ view.mounts[3] = Layer({workspace}, IF mode = "read-only" THEN "ro" ELSE "rw")
         /\ view.mounts[4] = Layer({t}, "rw")
         /\ view.mounts[5] = Layer(IF \E r \in RuntimeRoots \cup found \cup roots : Within(r, worker)
                                  THEN {} ELSE {worker}, "ro")
         /\ view.mounts[6] = Layer(Places, "mask")
<1>1. /\ workspace \in PathNames /\ t \in PathNames /\ worker \in PathNames
      /\ workspace \notin RuntimeRoots \cup found \cup roots
      /\ t \notin RuntimeRoots \cup found \cup roots
      /\ workspace # t /\ worker # t /\ worker # workspace
  BY Apart, PathsAre, WithinSelf DEF ViewWith, Overlap
<1> DEFINE m == Mounts(t)
           f == FirstOfEach(m)
           above == \E r \in RuntimeRoots \cup found \cup roots : Within(r, worker)
<1>2. /\ DOMAIN m = 1 .. 5 /\ m[1] = Layer(RuntimeRoots, "ro")
      /\ m[2] = Layer(found \cup roots, "ro")
      /\ m[3] = Layer({workspace}, IF mode = "read-only" THEN "ro" ELSE "rw")
      /\ m[4] = Layer({t}, "rw") /\ m[5] = Layer(IF above THEN {} ELSE {worker}, "ro")
  BY DEF Mounts
<1>3. above <=> \E r \in RuntimeRoots \cup found \cup roots : Within(r, worker)
  OBVIOUS
<1> HIDE DEF m, above
<1>4. /\ DOMAIN f = 1 .. 5
      /\ \A i \in 1 .. 5 : f[i] = [m[i] EXCEPT !.dests = m[i].dests \ UNION {m[j].dests : j \in 1 .. (i - 1)}]
  BY <1>2 DEF FirstOfEach
<1>5. f[1] = Layer(RuntimeRoots, "ro")
  BY <1>2, <1>4 DEF Layer
<1>6. f[2].kind = "ro" /\ \A r \in found \cup roots : r \in RuntimeRoots \cup f[2].dests
  BY <1>2, <1>4 DEF Layer
<1>7. \A d : /\ d \in UNION {m[j].dests : j \in 1 .. 2} <=> d \in RuntimeRoots \cup found \cup roots
             /\ d \in UNION {m[j].dests : j \in 1 .. 3} <=> d \in RuntimeRoots \cup found \cup roots \cup {workspace}
             /\ d \in UNION {m[j].dests : j \in 1 .. 4} <=> d \in RuntimeRoots \cup found \cup roots \cup {workspace, t}
  BY <1>2 DEF Layer
<1>8. f[3] = m[3]
  BY <1>1, <1>2, <1>4, <1>7 DEF Layer
<1>9. f[4] = m[4]
  BY <1>1, <1>2, <1>4, <1>7 DEF Layer
<1>10. f[5] = m[5]
  BY <1>1, <1>2, <1>3, <1>4, <1>7, WithinSelf DEF Layer
<1> HIDE DEF f
<1>11. view.mounts = f \o Masks /\ view.backend = "bubblewrap" /\ view.temp = t
  BY DEF Mounted, f, m
<1>12. Len(f) = 5 /\ f = [i \in 1 .. 5 |-> f[i]]
  BY <1>4 DEF f, FirstOfEach
<1>13. Masks = <<Layer(Places, "mask")>>
  BY DEF Masks, Places
<1>14. DOMAIN view.mounts = 1 .. 6 /\ \A i \in 1 .. 5 : view.mounts[i] = f[i]
  BY <1>11, <1>12, <1>13
<1>15. view.mounts[6] = Layer(Places, "mask")
  BY <1>11, <1>12, <1>13
<1> QED
  BY <1>2, <1>3, <1>5, <1>6, <1>8, <1>9, <1>10, <1>11, <1>14, <1>15

\* What counts at a place is the last layer that covers it.
LEMMA TopIs ==
  ASSUME NEW p, DOMAIN view.mounts = 1 .. 6, NEW i \in Covering(p), \A j \in Covering(p) : j <= i
  PROVE  Top(p) = view.mounts[i].kind
<1>1. Covering(p) # {} /\ Covering(p) \subseteq 1 .. 6
  BY DEF Covering
<1>2. (CHOOSE k \in Covering(p) : \A j \in Covering(p) : j <= k) = i
  BY <1>1
<1> QED
  BY <1>1, <1>2 DEF Top

\* Bubblewrap: the temporary directory is writable, the workspace as the mode
\* says except for what is hidden, nothing else is, and the worker is readable.
LEMMA MountsConfine ==
  ASSUME NEW t, ViewWith(t), view = Mounted(t), NEW p \in PathNames
  PROVE  /\ Writable(p) <=> Within(t, p) \/ (mode = "workspace-write" /\ Inside(p) /\ ~Hidden(p))
         /\ Inside(p) => (Readable(p) <=> ~Hidden(p))
         /\ p = worker => Readable(p)
<1> DEFINE above == \E r \in RuntimeRoots \cup found \cup roots : Within(r, worker)
<1>1. /\ view.backend = "bubblewrap" /\ view.temp = t /\ DOMAIN view.mounts = 1 .. 6
      /\ view.mounts[1] = Layer(RuntimeRoots, "ro")
      /\ view.mounts[2].kind = "ro"
      /\ \A r \in found \cup roots : r \in RuntimeRoots \cup view.mounts[2].dests
      /\ view.mounts[3] = Layer({workspace}, IF mode = "read-only" THEN "ro" ELSE "rw")
      /\ view.mounts[4] = Layer({t}, "rw")
      /\ view.mounts[5] = Layer(IF above THEN {} ELSE {worker}, "ro")
      /\ view.mounts[6] = Layer(Places, "mask")
  BY LayersAre
<1>2. \A dests, kind : Layer(dests, kind).dests = dests /\ Layer(dests, kind).kind = kind
  BY DEF Layer
<1> HIDE DEF above
<1>3. /\ view.backend = "bubblewrap" /\ DOMAIN view.mounts = 1 .. 6
      /\ \A i \in {1, 2} : view.mounts[i].kind = "ro"
      /\ view.mounts[3].kind = (IF mode = "read-only" THEN "ro" ELSE "rw")
      /\ view.mounts[4].kind = "rw" /\ view.mounts[5].kind = "ro" /\ view.mounts[6].kind = "mask"
  BY <1>1, <1>2
<1>4. /\ 3 \in Covering(p) <=> Inside(p)
      /\ 4 \in Covering(p) <=> Within(t, p)
      /\ 5 \in Covering(p) <=> ~above /\ Within(worker, p)
      /\ 6 \in Covering(p) <=> Hidden(p)
  <2>1. /\ view.mounts[3].dests = {workspace} /\ view.mounts[4].dests = {t}
        /\ view.mounts[5].dests = (IF above THEN {} ELSE {worker})
        /\ view.mounts[6].dests = Places
    BY <1>1, <1>2
  <2>2. 6 \in Covering(p) <=> Hidden(p)
    <3>1. \A q \in patterns : Within(Place(q), p) => Inside(p)
      BY PlaceInside DEF ViewWith
    <3> QED
      BY <1>3, <2>1, <3>1 DEF Covering, Places, Hidden
  <2> QED
    BY <1>3, <2>1, <2>2 DEF Covering, Inside
<1>5. Covering(p) \subseteq 1 .. 6
  BY <1>3 DEF Covering
<1>6. Hidden(p) => Inside(p)
  BY DEF Hidden
<1>7. mode \in {"read-only", "workspace-write"}
  BY DEF ViewWith, Given, BoxInv
<1>8. /\ ~(Within(t, p) /\ Inside(p))
      /\ Within(t, p) \/ Inside(p) => ~Within(worker, p)
  BY OnePlace
<1>9. CASE Within(t, p)
  <2>1. 4 \in Covering(p) /\ \A j \in Covering(p) : j <= 4
    BY <1>4, <1>5, <1>6, <1>8, <1>9
  <2>2. Top(p) = "rw"
    BY <1>3, <2>1, TopIs
  <2> QED
    BY <1>3, <1>8, <1>9, <2>2 DEF Writable, Readable
<1>10. CASE Hidden(p)
  <2>1. 6 \in Covering(p) /\ \A j \in Covering(p) : j <= 6
    BY <1>4, <1>5, <1>10
  <2>2. Top(p) = "mask"
    BY <1>3, <2>1, TopIs
  <2>3. p # worker
    BY <1>6, <1>8, <1>10, WithinSelf
  <2> QED
    BY <1>3, <1>6, <1>8, <1>10, <2>2, <2>3 DEF Writable, Readable
<1>11. CASE Inside(p) /\ ~Hidden(p)
  <2>1. 3 \in Covering(p) /\ \A j \in Covering(p) : j <= 3
    BY <1>4, <1>5, <1>8, <1>11
  <2>2. Top(p) = (IF mode = "read-only" THEN "ro" ELSE "rw")
    BY <1>3, <2>1, TopIs
  <2> QED
    BY <1>3, <1>7, <1>8, <1>11, <2>2 DEF Writable, Readable
<1>12. CASE ~Within(t, p) /\ ~Inside(p)
  <2>1. Covering(p) \subseteq {1, 2, 5}
    BY <1>4, <1>5, <1>6, <1>12
  <2>2. ASSUME Covering(p) # {} PROVE Top(p) = "ro"
    <3>1. PICK i \in Covering(p) : \A j \in Covering(p) : j <= i
      <4>1. CASE 5 \in Covering(p)
        BY <2>1, <4>1
      <4>2. CASE 5 \notin Covering(p) /\ 2 \in Covering(p)
        BY <2>1, <4>2
      <4>3. CASE 5 \notin Covering(p) /\ 2 \notin Covering(p)
        BY <2>1, <2>2, <4>3
      <4> QED
        BY <4>1, <4>2, <4>3
    <3>2. view.mounts[i].kind = "ro"
      BY <1>3, <2>1
    <3> QED
      BY <1>3, <3>1, <3>2, TopIs
  <2>3. ~Writable(p)
    BY <1>3, <2>2 DEF Writable, Top
  <2>4. ASSUME p = worker PROVE Covering(p) # {}
    <3>1. CASE ~above
      BY <1>4, <2>4, <3>1, WithinSelf
    <3>2. CASE above
      <4>1. PICK r \in RuntimeRoots \cup found \cup roots : Within(r, p)
        BY <2>4, <3>2 DEF above
      <4>2. r \in view.mounts[1].dests \cup view.mounts[2].dests
        BY <1>1, <1>2
      <4> QED
        BY <1>3, <4>1, <4>2 DEF Covering
    <3> QED
      BY <3>1, <3>2
  <2> QED
    BY <1>3, <1>12, <2>2, <2>3, <2>4 DEF Readable
<1> QED
  BY <1>9, <1>10, <1>11, <1>12

\* Seatbelt: the same.
LEMMA RulesConfine ==
  ASSUME NEW t, ViewWith(t), view = Seatbelt(t), NEW p \in PathNames
  PROVE  /\ Writable(p) <=> Within(t, p) \/ (mode = "workspace-write" /\ Inside(p) /\ ~Hidden(p))
         /\ Inside(p) => (Readable(p) <=> ~Hidden(p))
         /\ p = worker => Readable(p)
<1>1. /\ view.backend = "seatbelt" /\ view.denied = Places
      /\ view.reads = RuntimeRoots \cup {workspace, t, worker} \cup found \cup roots
      /\ view.writes = {t} \cup (IF mode = "read-only" THEN {} ELSE {workspace})
  BY DEF Seatbelt, Places
<1>2. Shut(p) <=> Hidden(p)
  <2>1. \A q \in patterns : Within(Place(q), p) => Inside(p)
    BY PlaceInside DEF ViewWith
  <2> QED
    BY <1>1, <2>1 DEF Shut, Places, Hidden
<1>3. /\ ~(Within(t, p) /\ Inside(p))
      /\ Within(t, p) \/ Inside(p) => ~Within(worker, p)
  BY OnePlace
<1>4. mode \in {"read-only", "workspace-write"} /\ (Hidden(p) => Inside(p))
  BY DEF ViewWith, Given, BoxInv, Hidden
<1>5. Writable(p) <=> Within(t, p) \/ (mode = "workspace-write" /\ Inside(p) /\ ~Hidden(p))
  BY <1>1, <1>2, <1>3, <1>4 DEF Writable, Inside
<1>6. Inside(p) => (Readable(p) <=> ~Hidden(p))
  BY <1>1, <1>2 DEF Readable, Inside
<1>7. p = worker => Readable(p)
  BY <1>1, <1>2, <1>3, <1>4, WithinSelf DEF Readable
<1> QED
  BY <1>5, <1>6, <1>7

\* Every place that is probed is a path.
LEMMA ProbesAre == ASSUME NEW t, ViewWith(t) PROVE Probes \subseteq PathNames /\ view.temp = t
<1>1. /\ workspace \in PathNames /\ machine.dirs \subseteq PathNames /\ worker \in PathNames
      /\ t \in PathNames /\ UNION Patterns \subseteq PathNames
  BY PathsAre, Apart DEF ViewWith
<1>2. view.temp = t /\ DOMAIN node = UNION Patterns
  BY DEF ViewWith, Mounted, Seatbelt, Given, BoxInv
<1>3. \A q \in DOMAIN node : Place(q) \in PathNames
  BY <1>1, <1>2, Longer DEF Place
<1>4. <<"x">> \in PathNames
  BY DEF PathNames, Names
<1>5. \A p \in PathNames : p \o <<"x">> \in PathNames
  BY <1>4, Longer
<1>6. {view.temp, workspace} \cup {Place(q) : q \in DOMAIN node} \subseteq PathNames
  BY <1>1, <1>2, <1>3
<1> QED
  BY <1>1, <1>2, <1>3, <1>5, <1>6 DEF Probes

LEMMA BoxKeeps == SandboxAssumption /\ BoxInv => WorkerIsConfined
<1> SUFFICES ASSUME SandboxAssumption, BoxInv PROVE WorkerIsConfined
  OBVIOUS
<1>1. HomeIsNoRoot
  BY DEF BoxInv, HomeIsNoRoot
<1>2. ASSUME Runs PROVE ViewIsThePolicy /\ WorkerIsOutOfReach
  <2>1. PICK t \in TempDirs : ViewWith(t)
    BY <1>2 DEF BoxInv, ViewWith, Given
  <2>2. \A p \in PathNames :
          /\ Writable(p) <=> Within(t, p) \/ (mode = "workspace-write" /\ Inside(p) /\ ~Hidden(p))
          /\ Inside(p) => (Readable(p) <=> ~Hidden(p))
          /\ p = worker => Readable(p)
    BY <2>1, MountsConfine, RulesConfine DEF ViewWith
  <2>3. \A p \in PathNames : Inside(p) =>
          (Hidden(p) <=> MatchesProtected(SubSeq(p, Len(workspace) + 1, Len(p))))
    BY <2>1, HiddenIs DEF ViewWith
  <2>4. Probes \subseteq PathNames /\ view.temp = t
    BY <2>1, ProbesAre
  <2>5. ViewIsThePolicy
    <3>1. ASSUME NEW p \in Probes
          PROVE  LET inside == Within(workspace, p)
                     hidden == inside /\ MatchesProtected(SubSeq(p, Len(workspace) + 1, Len(p)))
                 IN /\ Writable(p) <=> Within(view.temp, p)
                                      \/ (mode = "workspace-write" /\ inside /\ ~hidden)
                    /\ inside => (Readable(p) <=> ~hidden)
      BY <2>2, <2>3, <2>4 DEF Inside
    <3> QED
      BY <3>1 DEF ViewIsThePolicy
  <2>6. WorkerIsOutOfReach
    <3>1. worker \in PathNames /\ Within(worker, worker)
      BY <2>1, Apart, WithinSelf
    <3>2. ~Within(t, worker) /\ ~Inside(worker)
      BY <2>1, <3>1, OnePlace
    <3> QED
      BY <2>2, <3>1, <3>2 DEF WorkerIsOutOfReach
  <2> QED
    BY <2>5, <2>6
<1> QED
  BY <1>1, <1>2 DEF WorkerIsConfined, ViewIsThePolicy, WorkerIsOutOfReach

(* On either platform a worker reads and writes what the policy says, and  *)
(* never writes to the program that runs the next one; no discovered       *)
(* directory is the home (internal/sandbox).                               *)
THEOREM WorkersAreConfined == ASSUME SandboxAssumption PROVE BoxSpec => []WorkerIsConfined
<1>1. BoxInit => BoxInv
  BY BoxStarts
<1>2. BoxInv /\ [BoxNext]_bvars => BoxInv'
  BY BoxSteps
<1>3. BoxInv => WorkerIsConfined
  BY BoxKeeps
<1> QED
  BY <1>1, <1>2, <1>3, PTL DEF BoxSpec
=============================================================================
