----------------------------- MODULE MCSideWork -----------------------------
(* What runs beside or without the conversation, one behaviour of one kind *)
(* at a time: background agents, side questions and reviews, and the exec  *)
(* command with its event stream.                                          *)
EXTENDS BackgroundAgents, SideRequests, ExecRun

VARIABLE part

ASSUME ConstantsFit == AgentAssumption /\ RequestAssumption /\ ExecAssumption

(* An exec command that is over, for the behaviours of the other kinds. *)
NoExec ==
  /\ format = "text" /\ saving = FALSE /\ stdout = "file" /\ main = "over"
  /\ cause = "none" /\ turn = "none" /\ ctx = "live" /\ deadline = FALSE
  /\ signal = "none" /\ emit = [e \in Emitters |-> "idle"]
  /\ events = [e \in Emitters |-> 0] /\ mutex = NoOne /\ closed = FALSE
  /\ queue = <<>> /\ hand = <<>> /\ writer = "off" /\ ack = "none"
  /\ outputErr = FALSE /\ out = <<>> /\ file = "old" /\ code = "none"

SideInit ==
  /\ part \in {"agents", "requests", "exec"}
  /\ IF part = "exec" THEN ExecInit ELSE NoExec
  /\ AgentsInit /\ Init
SideNext ==
  \/ part = "agents" /\ AgentsNext /\ UNCHANGED <<part, svars, xvars>>
  \/ part = "requests" /\ Next /\ UNCHANGED <<part, avars, xvars>>
  \/ part = "exec" /\ ExecNext /\ UNCHANGED <<part, avars, svars>>
SideFairness == AgentsFairness /\ Fairness
SideSpec == SideInit /\ [][SideNext]_<<part, avars, svars, xvars>> /\ SideFairness
=============================================================================
