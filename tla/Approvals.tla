----------------------------- MODULE Approvals -----------------------------
(***************************************************************************)
(* Whether a tool call may have its effect: the decisions of the shell, of *)
(* apply_patch and of MCP tools (internal/tools), the mode and the answers *)
(* they share, the bridge that posts a prompt to the interface and waits,  *)
(* and the interface that shows one modal (internal/tui/approval.go).      *)
(*                                                                         *)
(* The calls of a batch run in parallel.  Each reads the mode, judges      *)
(* itself by the rules and by the keys allowed or denied in this session,  *)
(* and may then ask: it takes the bridge's lock, posts its request, and    *)
(* waits for the answer, for the end of the turn's context or for a timer. *)
(*                                                                         *)
(* A request is reduced to its tool, the keys by which it is remembered    *)
(* (several paths for a patch) and what the command rules say of it        *)
(* (ShellPolicy).  Wording, scrolling and focus are left out, and with the *)
(* wording the count of denials in a row (DenyStreak), which only tells    *)
(* the model to stop retrying.                                             *)
(*                                                                         *)
(* A definition marked "Fault" is a plausible bug in the one after it and  *)
(* used by no action.                                                      *)
(***************************************************************************)
EXTENDS Naturals, Sequences, FiniteSets

CONSTANTS Calls,      \* tool calls, each made at most once
          Requests,   \* what a call may ask for
          StartMode   \* the configured mode; configuration rejects yolo

NoCall == "none"
NoRequest == [tool |-> "none", keys |-> {}, ev |-> "ask", prompt |-> "no",
              reads |-> FALSE]

Modes == {"ask", "auto", "plan", "yolo"}
Tools == {"shell", "host", "patch", "mcp"}
(* Why an ordinary command is never allowed for the session: a Codex rule  *)
(* wants it prompted, or its syntax is opaque to the rules.                *)
Prompts == {"no", "rule", "opaque"}
Keys == UNION {r.keys : r \in Requests}
Answers == {"once", "session", "deny"}
(* What Request returns: an answer, or a denial whose reason is not the    *)
(* user's (cancelled, timed out, not ready).                               *)
Replies == Answers \cup {"unanswered"}

ApprovalAssumption ==
  /\ NoCall \notin Calls
  /\ \A r \in Requests :
       /\ r \in [tool : Tools, keys : (SUBSET Keys) \ {{}}, ev : {"allow", "ask", "deny"},
                 prompt : Prompts, reads : BOOLEAN]   \* classified as read-only
       /\ r.tool \in {"patch", "mcp"} => r.ev = "ask" /\ r.prompt = "no"
       /\ r.prompt = "opaque" => r.ev = "ask"
       /\ r.tool = "mcp" => \A o \in Requests :
            o.tool # "mcp" => o.keys \cap r.keys = {}
  /\ StartMode \in Modes \ {"yolo"}

VARIABLES
  permission,    \* ApprovalState.mode
  busy,          \* the interface runs a turn
  ended,         \* the turn's context has ended
  up,            \* the interface's program runs
  bridgeClosed,  \* ApprovalBridge.closed
  call,          \* each call: where it is, its request, the mode it read
  serial,        \* holder of ApprovalBridge.serial
  inbox,         \* messages on their way to the interface
  modal,         \* pendingApproval: the call of the modal
  respond,       \* the response channel of each request
  allows,        \* SessionAllowlist
  denies,        \* SessionDenylist
  said,          \* history: what the user answered to the prompt of a call
  grounds        \* history: on what grounds a call went on

bridge == <<serial, inbox, modal, respond>>
memory == <<allows, denies>>
host == <<permission, busy, ended, up, bridgeClosed>>
approvalVars == <<host, call, bridge, memory, said, grounds>>

CallAt(c, where) == call[c].at = where
Keysof(c) == call[c].request.keys
Tool(c) == call[c].request.tool

ApprovalsInit ==
  /\ permission = StartMode
  /\ busy = FALSE /\ ended = TRUE /\ up = TRUE /\ bridgeClosed = FALSE
  /\ call = [c \in Calls |-> [at |-> "unused", request |-> NoRequest,
                              mode |-> "ask", reply |-> "none"]]
  /\ serial = NoCall /\ inbox = <<>> /\ modal = NoCall
  /\ respond = [c \in Calls |-> "empty"]
  /\ allows = {} /\ denies = {}
  /\ said = [c \in Calls |-> "nothing"]
  /\ grounds = [c \in Calls |-> "none"]

-----------------------------------------------------------------------------
(* What a call asks for, and how it is decided.                            *)

(* A request to leave the sandbox: always put to the user, once.           *)
Escapes(c) == Tool(c) = "host"

Leave(c, where) ==
  call' = [call EXCEPT ![c].at = where, ![c].reply = "none", ![c].mode = "ask"]
Refuse(c) == Leave(c, "denied") /\ UNCHANGED grounds
(* A call nobody was asked about goes on, outside yolo, although one of its *)
(* keys was denied.                                                        *)
Despite(c, why) == why # "user" /\ permission # "yolo" /\ denies \cap Keysof(c) # {}
GoOn(c, why) ==
  /\ Leave(c, "running")
  /\ grounds' = [grounds EXCEPT ![c] = IF Despite(c, why) THEN "despite" ELSE why]

(* runShell, applyPatch and mcpTool.authorize start with the mode; a shell *)
(* call in yolo mode is an ordinary call, whatever it asked for.           *)
Begin(c, r) ==
  /\ CallAt(c, "unused") /\ busy /\ up
  /\ call' = [call EXCEPT ![c] = [at |-> "judging", mode |-> permission, reply |-> "none",
        request |-> [r EXCEPT !.tool = IF permission = "yolo" /\ @ = "host" THEN "shell"
                                       ELSE @]]]
  /\ UNCHANGED <<host, bridge, memory, said, grounds>>

(* The mode is an answer of its own: yolo to every call, auto to an MCP    *)
(* call, which looks at what was denied in the session only after that.    *)
Waived(c) == call[c].mode = "yolo" \/ (Tool(c) = "mcp" /\ call[c].mode = "auto")
DeniedBefore(c) ==
  ~Escapes(c) /\ ~Waived(c) /\ denies \cap Keysof(c) # {}
(* authorizeShell upgrades an ordinary ask only; a patch needs every path. *)
AllowedBefore(c) ==
  /\ ~Escapes(c) /\ call[c].request.prompt = "no"
  /\ Keysof(c) \subseteq allows

PlanAllows(c) ==
  Tool(c) = "shell" /\ call[c].request.ev = "allow" /\ call[c].request.reads

(* Everything before the question.  Rules deny in every mode.              *)
Judge(c) ==
  LET r == call[c].request
      m == call[c].mode
      forbidden == DeniedBefore(c) \/ r.ev = "deny"
      open == ~forbidden /\ ~Waived(c)
      ruled == Tool(c) = "shell" /\ r.ev = "allow"
  IN
  /\ CallAt(c, "judging")
  /\ \/ forbidden /\ Refuse(c)
     \/ ~forbidden /\ Waived(c) /\ GoOn(c, "mode")
     \/ open /\ m = "plan" /\ ~PlanAllows(c) /\ Refuse(c)
     \/ open /\ m = "plan" /\ PlanAllows(c) /\ GoOn(c, "plan")
     \/ open /\ m \in {"ask", "auto"} /\ ruled /\ GoOn(c, "rule")
     \/ open /\ m \in {"ask", "auto"} /\ ~ruled /\ AllowedBefore(c) /\ GoOn(c, "session")
     \/ /\ open /\ m \in {"ask", "auto"} /\ ~ruled /\ ~AllowedBefore(c)
        /\ call' = [call EXCEPT ![c].at = "asking"]
        /\ UNCHANGED grounds
  /\ UNCHANGED <<host, bridge, allows, denies, said>>

(* A shell command or a patch reads the mode again where the question is   *)
(* put: auto answers all but what a rule wants prompted, which it refuses. *)
(* An escape and an MCP call go to the user.                               *)
ReadsModeAgain(c) == Tool(c) \notin {"host", "mcp"}
Ask(c) ==
  LET ruled == call[c].request.prompt = "rule" IN
  /\ CallAt(c, "asking")
  /\ \/ ReadsModeAgain(c) /\ permission = "yolo" /\ GoOn(c, "mode")
     \/ ReadsModeAgain(c) /\ permission = "auto" /\ ~ruled /\ GoOn(c, "mode")
     \/ ReadsModeAgain(c) /\ permission = "auto" /\ ruled /\ Refuse(c)
     \/ /\ ~ReadsModeAgain(c) \/ permission \notin {"yolo", "auto"}
        /\ call' = [call EXCEPT ![c].at = "queued"]
        /\ UNCHANGED grounds
  /\ UNCHANGED <<host, bridge, allows, denies, said>>

-----------------------------------------------------------------------------
(* ApprovalBridge.Request: one request at a time, from lock to answer.     *)

TakeLock(c) ==
  /\ CallAt(c, "queued") /\ serial = NoCall
  /\ serial' = c
  /\ call' = [call EXCEPT ![c].at = "locked"]
  /\ UNCHANGED <<host, inbox, modal, respond, memory, said, grounds>>

(* Fault: the early returns keep the lock. *)
ReplyLocked(c, reply) ==
  /\ call' = [call EXCEPT ![c].at = "replied", ![c].reply = reply]
  /\ respond' = [respond EXCEPT ![c] = "abandoned"]
  /\ UNCHANGED serial
Reply(c, reply) ==
  /\ call' = [call EXCEPT ![c].at = "replied", ![c].reply = reply]
  /\ respond' = [respond EXCEPT ![c] = "abandoned"]   \* nobody reads it now
  /\ serial' = NoCall
Send(msg) == inbox' = IF up THEN Append(inbox, msg) ELSE inbox

Post(c) ==
  /\ CallAt(c, "locked") /\ ~bridgeClosed
  /\ Send([kind |-> "request", call |-> c])
  /\ call' = [call EXCEPT ![c].at = "waiting"]
  /\ UNCHANGED <<host, serial, modal, respond, memory, said, grounds>>
PostRefused(c) ==
  /\ CallAt(c, "locked")
  /\ \/ bridgeClosed
     \/ ended   \* while it waits to be ready
  /\ Reply(c, "unanswered")
  /\ UNCHANGED <<host, inbox, modal, memory, said, grounds>>
ReceiveAnswer(c) ==
  /\ CallAt(c, "waiting") /\ respond[c] # "empty"
  /\ Reply(c, respond[c])
  /\ UNCHANGED <<host, inbox, modal, memory, said, grounds>>

(* Fault: a request that timed out leaves its modal on the screen. *)
WithdrawQuietly(c) == UNCHANGED inbox
Withdraw(c) == Send([kind |-> "cancel", call |-> c])
ContextEnds(c) ==
  /\ CallAt(c, "waiting") /\ ended
  /\ Withdraw(c) /\ Reply(c, "unanswered")
  /\ UNCHANGED <<host, modal, memory, said, grounds>>
TimerFires(c) ==
  /\ CallAt(c, "waiting")
  /\ Withdraw(c) /\ Reply(c, "unanswered")
  /\ UNCHANGED <<host, modal, memory, said, grounds>>

-----------------------------------------------------------------------------
(* The answer.  Shell and patch tell the user's own denial from the others;*)
(* MCP tools do not; an escape to the host is remembered by nobody.        *)

Remembered(c) ==
  \/ Tool(c) \in {"shell", "patch"} /\ call[c].reply = "deny"
  \/ Tool(c) = "mcp" /\ call[c].reply \notin {"once", "session"}
Granted(c) == call[c].reply \in {"once", "session"}

Apply(c) ==
  /\ CallAt(c, "replied")
  /\ IF Granted(c)
     THEN /\ GoOn(c, "user")
          /\ denies' = IF Tool(c) = "shell" THEN denies \ Keysof(c) ELSE denies
          /\ allows' = IF call[c].reply = "session" /\ ~Escapes(c)
                       THEN allows \cup Keysof(c) ELSE allows
     ELSE /\ Refuse(c)
          /\ denies' = IF Remembered(c) THEN denies \cup Keysof(c) ELSE denies
          /\ UNCHANGED allows
  /\ UNCHANGED <<host, bridge, said>>
Finish(c) ==
  /\ CallAt(c, "running")
  /\ call' = [call EXCEPT ![c].at = "done"]
  /\ UNCHANGED <<host, bridge, memory, said, grounds>>

-----------------------------------------------------------------------------
(* The interface.  Taking the modal down answers its channel, which holds  *)
(* one answer and drops the rest.                                          *)

TakeDown(answer) ==
  /\ modal' = NoCall
  /\ respond' = IF modal # NoCall /\ respond[modal] = "empty"
                THEN [respond EXCEPT ![modal] = answer] ELSE respond

HandleRequest ==
  /\ up /\ inbox # <<>> /\ Head(inbox).kind = "request"
  /\ inbox' = Tail(inbox)
  /\ respond' = IF modal = NoCall THEN respond
                ELSE [respond EXCEPT ![modal] = IF @ = "empty" THEN "unanswered" ELSE @]
  /\ modal' = Head(inbox).call
  /\ UNCHANGED <<host, call, serial, memory, said, grounds>>
HandleCancel ==
  /\ up /\ inbox # <<>> /\ Head(inbox).kind = "cancel"
  /\ inbox' = Tail(inbox)
  /\ modal' = IF modal = Head(inbox).call THEN NoCall ELSE modal
  /\ UNCHANGED <<host, call, serial, respond, memory, said, grounds>>

(* handleApprovalKey: an escape offers no "session" and reads it as a no.  *)
HandleApprovalKey(key) ==
  LET answer == IF key = "session" /\ Tool(modal) = "host" THEN "deny" ELSE key
  IN
  /\ up /\ modal # NoCall
  /\ TakeDown(answer)
  /\ said' = [said EXCEPT ![modal] = answer]
  /\ UNCHANGED <<host, call, serial, inbox, memory, grounds>>
(* Ctrl+C, and Esc without a modal: a modal is answered with the user's no.*)
Interrupt ==
  /\ up /\ busy /\ ~ended
  /\ ended' = TRUE
  /\ TakeDown("deny")
  /\ said' = IF modal = NoCall THEN said ELSE [said EXCEPT ![modal] = "interrupt"]
  /\ UNCHANGED <<permission, busy, up, bridgeClosed, call, serial, inbox, memory, grounds>>
ContextExpires ==
  /\ busy /\ ~ended
  /\ ended' = TRUE
  /\ UNCHANGED <<permission, busy, up, bridgeClosed, call, bridge, memory, said, grounds>>

Settled(c) == call[c].at \in {"unused", "denied", "done"}
OpenTurn ==
  /\ up /\ ~busy /\ modal = NoCall
  /\ busy' = TRUE /\ ended' = FALSE
  /\ UNCHANGED <<permission, up, bridgeClosed, call, bridge, memory, said, grounds>>
(* finishTurn, once Ask has returned, which waits for its tools.           *)
CloseTurn ==
  /\ up /\ busy /\ \A c \in Calls : Settled(c)
  /\ busy' = FALSE
  /\ ended' = TRUE
  /\ TakeDown("deny")
  /\ UNCHANGED <<permission, up, bridgeClosed, call, serial, inbox, memory, said, grounds>>

ModeIsFree == up /\ ~busy /\ modal = NoCall
(* /permissions, /plan and the key that cycles through the modes.          *)
SwitchMode(m) ==
  /\ ModeIsFree /\ permission # m
  /\ permission' = m
  /\ UNCHANGED <<busy, ended, up, bridgeClosed, call, bridge, memory, said, grounds>>

(* The program stops with the process's context, or when an idle user      *)
(* quits; then the bridge is closed.                                       *)
Exit ==
  /\ up
  /\ up' = FALSE
  /\ ended' = TRUE
  /\ inbox' = <<>> /\ modal' = NoCall
  /\ UNCHANGED <<permission, busy, bridgeClosed, call, serial, respond, memory, said, grounds>>
Close ==
  /\ ~up /\ ~bridgeClosed
  /\ bridgeClosed' = TRUE
  /\ UNCHANGED <<permission, busy, ended, up, call, bridge, memory, said, grounds>>

-----------------------------------------------------------------------------
ApprovalsNext ==
  \/ \E c \in Calls : \/ \E r \in Requests : Begin(c, r)
                      \/ Judge(c) \/ Ask(c) \/ TakeLock(c) \/ Post(c)
                      \/ PostRefused(c) \/ ReceiveAnswer(c) \/ ContextEnds(c)
                      \/ TimerFires(c) \/ Apply(c) \/ Finish(c)
  \/ HandleRequest \/ HandleCancel
  \/ \E key \in Answers : HandleApprovalKey(key)
  \/ Interrupt \/ ContextExpires \/ OpenTurn \/ CloseTurn
  \/ \E m \in Modes : SwitchMode(m)
  \/ Exit \/ Close

(* The tool goroutines run, the lock is handed on, the timer fires.  The   *)
(* user owes no answer, and the interface may be gone.                     *)
CallGoesOn(c) ==
  Judge(c) \/ Ask(c) \/ TakeLock(c) \/ Post(c) \/ PostRefused(c) \/ ReceiveAnswer(c)
    \/ TimerFires(c) \/ Apply(c)
CallsFairness == \A c \in Calls : WF_approvalVars(CallGoesOn(c))
ApprovalsSpec == ApprovalsInit /\ [][ApprovalsNext]_approvalVars /\ CallsFairness

-----------------------------------------------------------------------------
(* Every call is somewhere, the lock's holder is inside the bridge, and    *)
(* what is remembered are keys.                                            *)
ApprovalsTypeOK ==
  /\ permission \in Modes /\ ended \in BOOLEAN
  /\ \A c \in Calls :
       /\ call[c].request \in Requests \cup {NoRequest}
             \cup {[r EXCEPT !.tool = "shell"] : r \in Requests}
       /\ call[c].reply \in Replies \cup {"none"}
       /\ serial = c <=> call[c].at \in {"locked", "waiting"}
  /\ modal \in Calls \cup {NoCall}
  /\ allows \subseteq Keys /\ denies \subseteq Keys

(* The bridge serializes requests, so a request never finds the modal      *)
(* taken: handleApprovalRequest's displacement of an older prompt, which   *)
(* would cancel a call the user still looks at, does not happen.           *)
NothingIsDisplaced ==
  inbox # <<>> /\ Head(inbox).kind = "request" => modal = NoCall

(* A modal belongs to a call that still waits, or its withdrawal is on its *)
(* way: no prompt stays on the screen, blocking the keys, for a call that  *)
(* has long gone on without it.                                            *)
ModalIsAwaited ==
  modal # NoCall =>
    \/ CallAt(modal, "waiting")
    \/ \E i \in 1..Len(inbox) : inbox[i] = [kind |-> "cancel", call |-> modal]
(* The one prompt on the screen is that of a call that waits for it.       *)
PromptsAreAwaited == NothingIsDisplaced /\ ModalIsAwaited

(* A call has its effect only on its own grounds: the user said yes to     *)
(* this very request, said "session" to a request that remembers its keys, *)
(* chose the mode that asks nobody, or a rule allows it.  An answer never  *)
(* reaches a call that gave up, an escape to the host is always asked, and *)
(* what a rule denies never runs.                                          *)
RunsOnItsOwnGrounds ==
  \A c \in Calls : call[c].at \in {"running", "done"} =>
    /\ call[c].request.ev # "deny"
    /\ grounds[c] = "user" => said[c] \in {"once", "session"}
    /\ grounds[c] = "session" =>
         \A k \in Keysof(c) : \E o \in Calls :
           k \in Keysof(o) /\ said[o] = "session" /\ Tool(o) # "host"
    /\ Tool(c) = "host" => grounds[c] = "user" /\ said[c] = "once"

(* While the interface is in plan mode nothing runs that may change        *)
(* something, although a call judges itself by the mode it read when it    *)
(* began and may wait for minutes in between.                              *)
PlanOnlyReads ==
  permission = "plan" =>
    \A c \in Calls : CallAt(c, "running") => Tool(c) = "shell" /\ call[c].request.reads

(* A key is remembered as denied only when the user turned a prompt for it *)
(* down, and not because it timed out or its turn ended: shell commands    *)
(* and patches.  (An interrupt with the modal up counts as turning down.)  *)
DenialsAreTheUsers ==
  \A k \in denies : \E c \in Calls :
    k \in Keysof(c) /\ (Tool(c) = "mcp" \/ said[c] \in {"deny", "interrupt"})

(* What was denied in the session runs again on the user's yes, or in yolo;*)
(* an MCP call in auto alone does not look.  Calls of a batch share the    *)
(* denials, and one may be denied after another has judged itself.         *)
OnlyAutoOverrides ==
  \A c \in Calls : grounds[c] = "despite" =>
    Tool(c) = "mcp" /\ (CallAt(c, "running") => permission = "auto")

(* The user is asked by those who wait, and what the user said, and did    *)
(* not say, is what counts: the six above, and the types.                  *)
AnswersAreHonoured ==
  /\ ApprovalsTypeOK /\ PromptsAreAwaited
  /\ RunsOnItsOwnGrounds /\ PlanOnlyReads /\ DenialsAreTheUsers /\ OnlyAutoOverrides

(* "SessionDenylist remembers rule keys the user explicitly denied this    *)
(* session" (approval.go): the same, of MCP tools too.                     *)
OnlyTheUserDenies ==
  \A k \in denies : \E c \in Calls :
    k \in Keysof(c) /\ said[c] \in {"deny", "interrupt"}

(* "Re-requests with the same RuleKey soft-deny without re-prompting"      *)
(* (approval.go): what was denied in the session does not run until the    *)
(* user says yes, whatever the tool.  An MCP call in auto never looks.     *)
DenialsStand == \A c \in Calls : grounds[c] # "despite"

(* Every call that has begun is allowed or denied, whatever happens to the *)
(* user, the interface, and the calls before it in the line.               *)
CallsAreDecided ==
  \A c \in Calls : CallAt(c, "judging") ~> call[c].at \in {"running", "denied", "done"}
=============================================================================
