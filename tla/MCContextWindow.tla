--------------------------- MODULE MCContextWindow ---------------------------
(* Sizes for the runs of ContextWindow, in thousandths of the window.  The
   groups 30 + 270 + 500 with the system prompt are just at the trigger; two
   of 500 are beyond the ceiling. *)
EXTENDS ContextWindow

MCGroupSizes == {30, 270, 500}
MCRequestSizes == {2, 400}
MCAnswerSizes == {20, 40}
==============================================================================
