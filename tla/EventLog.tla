------------------------------ MODULE EventLog ------------------------------
(***************************************************************************)
(* What a thread's journal promises its users, without files or locks: a   *)
(* sequence of events that only grows at its end.  An event a mutation     *)
(* reported as written stays for good; one whose mutation failed or was    *)
(* cut off may be there or not, and may still vanish in a power failure,   *)
(* but only from the end.  A deleted log is empty and never grows again.   *)
(***************************************************************************)
EXTENDS Naturals, Sequences

CONSTANT Events

VARIABLES log,      \* the events a load of the thread returns, oldest first
          reported, \* events whose mutation returned success
          deleted   \* the thread was deleted

logVars == <<log, reported, deleted>>

Contains(e) == \E i \in DOMAIN log : log[i] = e

LogInit == log = <<>> /\ reported = {} /\ deleted = FALSE

Extended(e) ==
  /\ ~deleted
  /\ ~Contains(e)
  /\ log' = Append(log, e)
  /\ UNCHANGED <<reported, deleted>>

Report(e) ==
  /\ ~deleted
  /\ Contains(e)
  /\ reported' = reported \cup {e}
  /\ UNCHANGED <<log, deleted>>

\* Creation makes the first event visible and reports it in one step.
Create(e) ==
  /\ ~deleted
  /\ log = <<>>
  /\ log' = <<e>>
  /\ reported' = reported \cup {e}
  /\ UNCHANGED deleted

Lose(n) ==
  /\ \A i \in n + 1 .. Len(log) : log[i] \notin reported
  /\ log' = SubSeq(log, 1, n)
  /\ UNCHANGED <<reported, deleted>>

Delete ==
  /\ log # <<>>
  /\ deleted' = TRUE
  /\ log' = <<>>
  /\ UNCHANGED reported

LogNext ==
  \/ \E e \in Events : Extended(e) \/ Report(e) \/ Create(e)
  \/ \E n \in 0 .. Len(log) : Lose(n)
  \/ Delete

LogSpec == LogInit /\ [][LogNext]_logVars
=============================================================================
