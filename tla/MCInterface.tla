----------------------------- MODULE MCInterface ------------------------------
(***************************************************************************)
(* What passes between the user and a turn, one part at a time: approvals  *)
(* of what its tools do (Approvals), and messages (TurnQueue).             *)
(***************************************************************************)
EXTENDS Approvals, TurnQueue, MCRequests, TLC

CONSTANTS a, b, c
VARIABLE part

ASSUME ConstantsFit == ApprovalAssumption

(* Both start at rest, with nothing typed and no call made: no step that is *)
(* fair can be taken in the part that is not the subject.                  *)
InterfaceInit == part \in {"messages", "approvals"} /\ QueueInit /\ ApprovalsInit
InterfaceNext ==
  \/ part = "messages" /\ QueueNext /\ UNCHANGED <<part, approvalVars>>
  \/ part = "approvals" /\ ApprovalsNext /\ UNCHANGED <<part, queueVars>>
InterfaceSpec ==
  InterfaceInit /\ [][InterfaceNext]_<<part, approvalVars, queueVars>> /\ QueueFairness /\ CallsFairness
==============================================================================
