--------------------------- MODULE MCSharedStores ---------------------------
(***************************************************************************)
(* What processes share outside the sessions, one part at a time: the      *)
(* configured MCP servers and their credentials (ServerAccess), and the    *)
(* memory (MemoryStore).  Files a user may keep: a remote server alone;    *)
(* two servers with a sub-table between them and notes; a retired key and  *)
(* a switch that are quoted, which the editor does not see; a sub-table    *)
(* that stands apart from its server.                                      *)
(***************************************************************************)
EXTENDS MemoryStore, ServerAccess, TLC

VARIABLE part

RemoteBlock == <<Header("servers"), Set("name", "r"), Set("type", "streamable_http"),
                 Set("url", "u1")>>
LocalBlock == <<Header("servers"), Set("name", "l"), Set("command", "cmd"),
                Header("env"), Set("VAR", "x")>>
OtherBlock == <<Header("servers"), Set("name", "r"), Set("command", "cmd")>>
Plain == <<Header("model"), Set("name", "m")>> \o RemoteBlock
MCFiles ==
  {Plain,
   Plain \o <<Header("ui"), Quoted("retired", TRUE)>>,
   <<Header("ui"), Set("retired", TRUE)>> \o LocalBlock
     \o <<Note("above the remote server")>> \o RemoteBlock \o <<Set("enabled", TRUE)>>,
   OtherBlock \o <<Quoted("enabled", TRUE)>> \o LocalBlock \o <<Header("ui"), Note("x")>>,
   OtherBlock \o SubSeq(LocalBlock, 1, 3) \o <<Header("ui"), Set("status_line", "old")>>
     \o SubSeq(LocalBlock, 4, 5)}
MCEdits ==
  {[op |-> "remove", name |-> "l"],
   [op |-> "flag", name |-> "r", key |-> "enabled", val |-> FALSE],
   [op |-> "add", server |-> [own |-> [name |-> "l", command |-> "cmd"], env |-> [VAR |-> "y"]]],
   [op |-> "status", val |-> "new"]}

ASSUME ConstantsFit == MemoryAssumption

(* A part that is not the subject starts in one state and stays there.     *)
ServersParked == file = Plain
MemoryParked == /\ generating = FALSE /\ idle = [t \in Threads |-> FALSE]

SharedInit ==
  /\ part \in {"servers", "memory"}
  /\ ServersInit /\ Init
  /\ part # "servers" => ServersParked
  /\ part # "memory" => MemoryParked
SharedNext ==
  /\ UNCHANGED part
  /\ \/ part = "servers" /\ ServersNext /\ UNCHANGED vars
     \/ part = "memory" /\ Next /\ UNCHANGED serverVars
(* The only property of liveness is the memory's.                          *)
SharedSpec == SharedInit /\ [][SharedNext]_<<part, serverVars, vars>> /\ Fairness
=============================================================================
