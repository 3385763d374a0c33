---------------------------- MODULE MCSessionFiles ----------------------------
(* Two chats and a shell command over two sessions whose names collide, with  *)
(* ids for a new one and a fork.                                           *)
EXTENDS SessionFiles, TLC

J(log, torn) == [log |-> log, torn |-> torn]
Turn == <<Event("start", None), Event("commit", None)>>
Idle1 == J(<<Created("x", None, 0)>> \o Turn, FALSE)
Renamed == J(<<Created("x", None, 0)>> \o Turn \o <<Event("title", "b")>> \o Turn, FALSE)
Torn == J(<<Created("x", None, 0), Event("start", None)>>, TRUE)
Away == J(<<Created("x", None, 0), Event("archive", None)>>, FALSE)
Pairs == {<<Renamed, NoFile>>, <<Idle1, Torn>>, <<Idle1, Away>>}
MCStored == {[i \in Ids |-> IF i = "a" THEN p[1] ELSE IF i = "b" THEN p[2] ELSE NoFile] : p \in Pairs}
(* Chats are told apart by what they have open only. *)
SameChats == Permutations(Chats)
=============================================================================
