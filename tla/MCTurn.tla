------------------------------- MODULE MCTurn --------------------------------
(***************************************************************************)
(* A turn from its admission to its answer, one part at a time: what it    *)
(* is admitted with (ContextWindow), and what its agent does under its     *)
(* budget (AgentTurn).                                                     *)
(***************************************************************************)
EXTENDS MCContextWindow, AgentTurn, TLC

VARIABLE part

(* One call of each kind. *)
Four == [k \in {"look", "change", "plan", "unknown"} |-> k]

ASSUME ConstantsFit == TurnAssumption

(* A turn that is over, for the behaviours of the other part. *)
NoTurn ==
  /\ loop = "done" /\ outcome = "failed" /\ ctx = "ended"
  /\ steps = 0 /\ finals = 0 /\ toolCalls = 0
  /\ repeats = [k \in Keys |-> 0] /\ admitted = <<>>
  /\ batch = <<>> /\ decision = <<>> /\ call = <<>> /\ results = <<>> /\ ids = 0
  /\ ledger = <<>> /\ lost = FALSE /\ charged = 0 /\ opened = 0 /\ reported = 0
  /\ stream = NoStream /\ shown = <<>>
  /\ since = [k \in Keys |-> 0] /\ ran = <<>>

TurnInit ==
  /\ part \in {"admission", "agent"}
  /\ IF part = "agent" THEN AgentInit ELSE NoTurn
  /\ Init
TurnNext ==
  \/ part = "admission" /\ Next /\ UNCHANGED <<part, avars>>
  \/ part = "agent" /\ AgentNext /\ UNCHANGED <<part, vars>>
(* The only property of liveness is the agent's.                           *)
TurnSpec == TurnInit /\ [][TurnNext]_<<part, vars, avars>> /\ AgentFairness
==============================================================================
