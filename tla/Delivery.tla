------------------------------ MODULE Delivery ------------------------------
(***************************************************************************)
(* What the user interface promises about the text a user types: where a   *)
(* text may be and where it may go from there.  A turn consists of its     *)
(* input and of the steers added to it; it is delivered as a whole.        *)
(***************************************************************************)
CONSTANT Texts
VARIABLE fate

Fates == {"new", "draft", "waiting", "running", "steering", "delivered", "gone"}

\* From the keyboard to the composer, from there to the queue or a turn; a
\* steer of an interrupted turn may come back to the composer.  Nothing leaves
\* "delivered" and "gone".
Moves ==
  {<<"new", "draft">>, <<"new", "waiting">>,
   <<"draft", "waiting">>, <<"draft", "running">>, <<"draft", "steering">>, <<"draft", "gone">>,
   <<"waiting", "running">>, <<"waiting", "gone">>,
   <<"running", "delivered">>, <<"running", "gone">>,
   <<"steering", "delivered">>, <<"steering", "draft">>, <<"steering", "gone">>}

Moved(from, to) == {t \in Texts : fate[t] = from /\ fate'[t] = to}
At(place) == {t \in Texts : fate[t] = place}

Init == fate = [t \in Texts |-> "new"]

\* Steers are delivered with their input and never without it; when a turn
\* starts nothing of the one before it is left.  While a turn runs nothing is
\* lost on the way from the composer.
Next ==
  /\ fate' \in [Texts -> Fates]
  /\ \A t \in Texts : fate'[t] = fate[t] \/ <<fate[t], fate'[t]>> \in Moves
  /\ Moved("steering", "delivered") # {} => Moved("running", "delivered") # {}
  /\ Moved("running", "delivered") \in {{}, At("running")}
  /\ Moved("draft", "gone") # {} => At("running") = {}
  /\ Moved("draft", "running") \cup Moved("waiting", "running") # {} =>
       /\ \A t \in At("running") : fate'[t] = "gone"
       /\ \A t \in At("steering") : fate'[t] \in {"draft", "gone"}

Spec == Init /\ [][Next]_fate
=============================================================================
