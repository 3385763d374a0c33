--------------------------- MODULE MCToolEffects ----------------------------
(***************************************************************************)
(* What a tool call may do and does in the workspace, one part at a time:  *)
(* what the command rules say of a command (ShellPolicy), what the sandbox *)
(* lets it see (SandboxPolicy), how it runs and ends (CommandRun), and the *)
(* patches of calls beside each other (WorkspaceEdits).  Small rule files  *)
(* and two processes that start at once, commands of one and two segments  *)
(* with bare words and absolute paths; a home with ~/bin and a Go tree,    *)
(* tools that are links, a workspace in or out of the Go tree, and nested  *)
(* protected places.                                                       *)
(***************************************************************************)
EXTENDS CommandRun, SandboxPolicy, ShellPolicy, WorkspaceEdits, TLC

VARIABLE part

W(d, n) == [dir |-> d, name |-> n]
Make == W("", "make")
HostMake == W("/h", "make")
WorkMake == W("/w", "make")
Rule(words, decision) ==
  [kind |-> "rule", pattern |-> <<words>>, decision |-> decision, match |-> {}, notMatch |-> {}]
Rules == {Rule({Make}, d) : d \in {"allow", "prompt", "forbidden"}}
         \cup {Rule({HostMake}, "allow"), Rule({Make, W("", "ls")}, "forbidden"),
               [Rule({Make}, "allow") EXCEPT !.pattern = <<{Make}, {W("", "-n")}>>]}
Examples == {[Rule({Make}, "allow") EXCEPT !.match = {<<HostMake>>}],
             [Rule({Make}, "prompt") EXCEPT !.notMatch = {<<HostMake>>}]}
HostDeclared == [kind |-> "host", paths |-> {HostMake}]

MCUserDocs == {{}} \cup {{r} : r \in Rules \cup Examples}
              \cup {{r, HostDeclared} : r \in Examples}
MCStarterDocs == {{HostDeclared}, {Rule({Make}, "forbidden")}}
MCProjectDocs == {{Rule({Make}, d)} : d \in {"allow", "forbidden"}}
                 \cup {{Rule({HostMake}, "allow")}, {HostDeclared}}
MCTrustTables == {{"trusted"}, {"untrusted", "trusted"}, {"trusted", "invalid"}}

Segments == {<<w>> : w \in {Make, HostMake, WorkMake, W("", "ls"), W("/h", "ls"),
                            W("", "sort"), W("", "curl")}}
            \cup {<<Make, W("", "-n")>>, <<W("", "git"), W("", "status")>>,
                  <<W("", "git"), W("", "push")>>, <<W("", "curl"), W("", "sudo")>>}
Command(s) == [segments |-> s, opaque |-> FALSE, looksExternal |-> FALSE, hard |-> FALSE]
Opaque(x) == [segments |-> <<>>, opaque |-> TRUE, looksExternal |-> x, hard |-> FALSE]
MCCommands ==
  {Command(<<s>>) : s \in Segments}
  \cup {Command(<<s, t>>) : s \in {<<Make>>, <<HostMake>>},
                            t \in {<<Make>>, <<W("", "ls")>>, <<W("", "curl")>>, <<>>}}
  \cup {Opaque(x) : x \in BOOLEAN}
  \cup {[Command(<<<<W("", "ls")>>>>) EXCEPT !.hard = TRUE]}
MCSafe == [ls |-> [sub |-> {}, bad |-> {}],
         git |-> [sub |-> {"status"}, bad |-> {"-c"}]]
MCExternal == [curl |-> {}, git |-> {"push"}]

Home == <<"home", "u">>
Go == Home \o <<"go">>
Dirs == {<<>>, <<"usr">>, <<"usr", "bin">>, <<"opt">>, <<"opt", "t">>, <<"opt", "t", "bin">>,
         <<"home">>, Home, Home \o <<"bin">>, Go, Go \o <<"bin">>, <<"tmp">>}
Host(program) ==
  [dirs |-> Dirs, home |-> Home, temp |-> <<"tmp">>, program |-> program,
   links |-> (<<"usr", "bin", "tool">> :> <<"opt", "t", "bin", "tool">>)]
Work == Home \o <<"w">>
MCHosts == {Host(p) : p \in {<<"usr", "bin", "eino">>, Work \o <<"eino">>, <<"srv", "eino">>}}
MCWorkspaces == {Work, Go \o <<"w">>}
MCPathLists == {{}, {Home \o <<"bin">>, Go \o <<"bin">>}}
MCToolVars == {{}, {Go}}
MCConfigured == {{<<"opt">>}, {Home}}
MCPatterns == {{}, {<<"a">>}, {<<"a">>, <<"a", "b">>}, {<<"a", "b">>}}
MCRuntimeRoots == {<<"usr", "bin">>}
MCDefaultPath == <<<<"usr", "bin">>>>


Update(path, old, new) == [type |-> "update", path |-> path, old |-> old, new |-> new]
Create(path, new) == [type |-> "create", path |-> path, old |-> "", new |-> new]
Delete(path) == [type |-> "delete", path |-> path, old |-> "", new |-> ""]
MCPatches ==
  {<<Update("f", "a", "b"), Update("f", "b", "c"), Delete("g")>>,
   <<Delete("f"), Create("f", "n"), Create("h", "m")>>,
   <<Delete("g"), Update("g", "x", "y")>>,
   <<Update("f", "a", "z"), [Update("f", "z", "y") EXCEPT !.type = "forbidden"]>>}
MCOriginal == [f |-> {"a", "k"}, g |-> {"x"}, h |-> {"absent"}]
ASSUME ConstantsFit == /\ GraceAssumption /\ PatchAssumption
                      /\ PolicyAssumption /\ SandboxAssumption

(* A part that is not the subject starts in one state and stays there.     *)
RulesParked == /\ userFile = {} /\ starter = NoFile /\ project = NoFile
               /\ trust = {"trusted"} /\ lookup = [p \in Programs |-> "/h"]
BoxParked == /\ machine = Host(<<"srv", "eino">>) /\ workspace = Work /\ mode = "read-only"
             /\ auto = FALSE /\ env = [path |-> {}, tools |-> {}] /\ roots = {Home}
             /\ patterns = {} /\ node = [q \in UNION Patterns |-> "absent"] /\ linked = FALSE
CommandParked == route = "direct"

Init ==
  /\ part \in {"rules", "sandbox", "command", "patches"}
  /\ part # "rules" => RulesParked
  /\ part # "sandbox" => BoxParked
  /\ PolicyInit /\ BoxInit /\ CommandInit /\ EditsInit
  /\ part # "command" => CommandParked
Next ==
  /\ UNCHANGED part
  /\ \/ part = "rules" /\ PolicyNext /\ UNCHANGED <<bvars, cvars, evars>>
     \/ part = "sandbox" /\ BoxNext /\ UNCHANGED <<rvars, cvars, evars>>
     \/ part = "command" /\ CommandNext /\ UNCHANGED <<rvars, bvars, evars>>
     \/ part = "patches" /\ EditsNext /\ UNCHANGED <<rvars, bvars, cvars>>
(* The only property of liveness is the command's.                         *)
Spec == Init /\ [][Next]_<<part, rvars, bvars, cvars, evars>> /\ CommandFairness
=============================================================================
