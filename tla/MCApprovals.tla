---------------------------- MODULE MCApprovals -----------------------------
(* Model values for the runs of Approvals.                                 *)
EXTENDS Approvals, MCRequests, TLC
=============================================================================
