---------------------------- MODULE ServerConfig ----------------------------
(***************************************************************************)
(* config.toml as text and as configuration (internal/config/config.go).   *)
(* The program edits the user's file line by line, to keep comments and    *)
(* layout, and reads it back with a TOML decoder.  A file is a sequence of *)
(* lines: a table's header, an assignment or a note (a comment or an empty *)
(* line).  Of the tables the module keeps [[mcp.servers]] ("servers"), its *)
(* sub-table [mcp.servers.env] ("env"), [ui], and [model] for all others;  *)
(* of the values what tells servers and settings apart.  Quoting, numbers, *)
(* arrays over several lines and the rules for values are left out.        *)
(***************************************************************************)
EXTENDS Naturals, Sequences, FiniteSets, SequencesExt, FiniteSetsExt, Functions

Header(table) == [kind |-> "header", key |-> table, val |-> "", bare |-> TRUE]
Set(key, val) == [kind |-> "set", key |-> key, val |-> val, bare |-> TRUE]
(* A key may be quoted: the decoder reads the same, the editor does not.   *)
Quoted(key, val) == [Set(key, val) EXCEPT !.bare = FALSE]
Note(text) == [kind |-> "note", key |-> text, val |-> "", bare |-> TRUE]

Headers(f) == {i \in DOMAIN f : f[i].kind = "header"}
ServerHeaders(f) == {h \in Headers(f) : f[h].key = "servers"}
Latest(headers, i) == Max({h \in headers : h <= i} \cup {0})

----------------------------------------------------------------------------
(* What the decoder reads *)

(* Up to the next header.                                                  *)
TableEnd(f, h) == Min({i \in Headers(f) : i > h} \cup {Len(f) + 1})
Assignments(f, h) == {i \in h + 1 .. TableEnd(f, h) - 1 : f[i].kind = "set"}
Settings(f, h) ==
  LET own == Assignments(f, h)
  IN [k \in {f[i].key : i \in own} |-> f[CHOOSE i \in own : f[i].key = k].val]
(* A sub-table belongs to the last server before it, whatever is between.  *)
EnvHeaders(f, h) ==
  {e \in Headers(f) : f[e].key = "env" /\ Latest(ServerHeaders(f), e) = h}
Environment(f, h) ==
  IF EnvHeaders(f, h) = {} THEN <<>>
  ELSE Settings(f, CHOOSE e \in EnvHeaders(f, h) : TRUE)
Table(f, table) ==
  IF \E h \in Headers(f) : f[h].key = table
  THEN Settings(f, CHOOSE h \in Headers(f) : f[h].key = table) ELSE <<>>
Nth(f, n) ==
  CHOOSE h \in ServerHeaders(f) : Cardinality({g \in ServerHeaders(f) : g <= h}) = n
Decode(f) ==
  [servers |-> [n \in 1..Cardinality(ServerHeaders(f)) |->
                  LET h == Nth(f, n)
                  IN [own |-> Settings(f, h), env |-> Environment(f, h)]],
   ui |-> Table(f, "ui"),
   model |-> Table(f, "model")]

Has(server, key) == key \in DOMAIN server.own
Get(server, key, default) == IF Has(server, key) THEN server.own[key] ELSE default
Name(server) == Get(server, "name", "none")
IsRemote(server) == Get(server, "type", "stdio") = "streamable_http"
IsEnabled(server) == Get(server, "enabled", TRUE)
HasOAuth(server) == Get(server, "oauth", FALSE)

ValidServer(s) ==
  /\ Has(s, "name")
  /\ ~IsRemote(s) => /\ Has(s, "command") /\ ~Has(s, "url")
                     /\ ~Has(s, "bearer") /\ ~HasOAuth(s)
  /\ IsRemote(s) => /\ Has(s, "url") /\ ~Has(s, "command") /\ s.env = <<>>
                    /\ ~(HasOAuth(s) /\ Has(s, "bearer"))
ValidServers(servers) ==
  /\ \A n \in DOMAIN servers : ValidServer(servers[n])
  /\ \A m, n \in DOMAIN servers : Name(servers[m]) = Name(servers[n]) => m = n

KnownKeys ==
  [servers |-> {"name", "type", "command", "url", "bearer", "oauth", "enabled"},
   ui |-> {"status_line", "retired"}, model |-> {"name"}]
Decodable(f) ==
  /\ \A h \in Headers(f) \cup {0} : \A i \in Assignments(f, h) :
       /\ h # 0 /\ (f[h].key # "env" => f[i].key \in KnownKeys[f[h].key])
       /\ \A j \in Assignments(f, h) : f[i].key = f[j].key => i = j
  /\ \A g, h \in Headers(f) : g # h /\ f[g].key = f[h].key =>
       \/ f[g].key = "servers"
       \/ f[g].key = "env" /\ Latest(ServerHeaders(f), g) # Latest(ServerHeaders(f), h)
  /\ \A e \in Headers(f) : f[e].key = "env" => Latest(ServerHeaders(f), e) # 0
Valid(f) == Decodable(f) /\ ValidServers(Decode(f).servers)

Index(servers, name) == CHOOSE n \in DOMAIN servers : Name(servers[n]) = name
Configured(servers, name) == \E n \in DOMAIN servers : Name(servers[n]) = name
ServerNamed(f, name) ==
  LET servers == Decode(f).servers IN servers[Index(servers, name)]
IsConfigured(f, name) == Configured(Decode(f).servers, name)

----------------------------------------------------------------------------
(* What the editor writes: line by line, looking at headers only *)

(* Fault: a sub-table ends the block.                                      *)
BlockEndAtHeader(f, h) == TableEnd(f, h)
(* A server's block runs to the next header that is not its sub-table.     *)
BlockEnd(f, h) ==
  Min({i \in Headers(f) : i > h /\ f[i].key # "env"} \cup {Len(f) + 1})
BlockStart(f, name) == Nth(f, Index(Decode(f).servers, name))

removeMCPServerSource(f, name) ==
  LET h == BlockStart(f, name)
  IN SubSeq(f, 1, h - 1) \o SubSeq(f, BlockEnd(f, h), Len(f))

InsertLine(f, at, line) == SubSeq(f, 1, at - 1) \o <<line>> \o SubSeq(f, at, Len(f))

(* The first assignment of the server's own table is replaced; without one *)
(* a line is added at the table's end.                                     *)
setMCPServerBooleanSource(f, name, key, value) ==
  LET h == BlockStart(f, name)
      hits == {i \in Assignments(f, h) : f[i].bare /\ f[i].key = key}
  IN IF hits # {} THEN [f EXCEPT ![Min(hits)] = Set(key, value)]
     ELSE InsertLine(f, TableEnd(f, h), Set(key, value))
formatMCPServerTOML(server) ==
  <<Header("servers"), Set("name", server.own.name)>>
  \o (IF IsRemote(server)
      THEN <<Set("type", "streamable_http"), Set("url", server.own.url)>>
      ELSE <<Set("command", server.own.command)>>)
  \o (IF server.env = <<>> THEN <<>>
      ELSE <<Note("blank"), Header("env")>>
           \o SetToSeq({Set(k, server.env[k]) : k \in DOMAIN server.env}))
appendMCPServerSource(f, server) == f \o <<Note("blank")>> \o formatMCPServerTOML(server)

uiHits(f, key) ==
  {i \in DOMAIN f : /\ f[i].kind = "set" /\ f[i].bare /\ f[i].key = key
                    /\ \E h \in Headers(f) : f[h].key = "ui" /\ Latest(Headers(f), i) = h}
replaceUISetting(f, key, value) ==
  LET ui == {h \in Headers(f) : f[h].key = "ui"}
  IN IF ui = {} THEN f \o <<Note("blank"), Header("ui"), Set(key, value)>>
     ELSE IF uiHits(f, key) # {} THEN [f EXCEPT ![Min(uiHits(f, key))] = Set(key, value)]
     ELSE InsertLine(f, Min(ui) + 1, Set(key, value))
removeUISetting(f, key) ==
  IF uiHits(f, key) = {} THEN f ELSE RemoveAt(f, Min(uiHits(f, key)))
replaceStatusLineSettings(f, value) ==
  removeUISetting(replaceUISetting(f, "status_line", value), "retired")

----------------------------------------------------------------------------
(* What a command asks for, in terms of the configuration *)

Override(g, k, v) == [x \in DOMAIN g \cup {k} |-> IF x = k THEN v ELSE g[x]]
Without(g, k) == [x \in DOMAIN g \ {k} |-> g[x]]
Meant(config, edit) ==
  CASE edit.op = "remove" ->
         [config EXCEPT !.servers = SelectSeq(@, LAMBDA s : Name(s) # edit.name)]
    [] edit.op = "flag" ->
         [config EXCEPT !.servers[Index(config.servers, edit.name)].own =
            Override(@, edit.key, edit.val)]
    [] edit.op = "add" -> [config EXCEPT !.servers = Append(@, edit.server)]
    [] edit.op = "status" ->
         [config EXCEPT !.ui = Without(Override(@, "status_line", edit.val), "retired")]

(* A sub-table that stands apart from its server, behind another table, is *)
(* not in the server's block: removal leaves it to the server before.      *)
Detached(f, name) ==
  LET h == BlockStart(f, name)
  IN \E e \in EnvHeaders(f, h) : e > BlockEnd(f, h)
(* A retired key that is quoted is read, and not seen when it should go.   *)
RetiredIsHidden(f) == "retired" \in DOMAIN Decode(f).ui /\ uiHits(f, "retired") = {}
OutOfSight(f, edit) ==
  \/ edit.op = "remove" /\ Detached(f, edit.name)
  \/ edit.op = "status" /\ RetiredIsHidden(f)

(* The text an edit makes of f; what it refuses has no entry in Acceptable.  *)
Edited(f, edit) ==
  CASE edit.op = "remove" -> removeMCPServerSource(f, edit.name)
    [] edit.op = "flag" -> setMCPServerBooleanSource(f, edit.name, edit.key, edit.val)
    [] edit.op = "add" -> appendMCPServerSource(f, edit.server)
    [] edit.op = "status" -> replaceStatusLineSettings(f, edit.val)
(* Refused for what the configuration says: the server must be there, and  *)
(* OAuth needs a remote server without a bearer token; a new one must be   *)
(* valid beside the others.                                                *)
Admissible(f, edit) ==
  /\ Valid(f)
  /\ edit.op \in {"remove", "flag"} => IsConfigured(f, edit.name)
  /\ edit.op = "flag" /\ edit.key = "oauth" =>
       IsRemote(ServerNamed(f, edit.name)) /\ ~Has(ServerNamed(f, edit.name), "bearer")
  /\ edit.op = "add" => ValidServers(Append(Decode(f).servers, edit.server))
(* A switch that is already set needs no write.                            *)
Unneeded(f, edit) ==
  edit.op = "flag" /\
  edit.val = (IF edit.key = "oauth" THEN HasOAuth(ServerNamed(f, edit.name))
              ELSE IsEnabled(ServerNamed(f, edit.name)))
(* The new text is decoded again before it replaces the old.               *)
Acceptable(f, edit) == Admissible(f, edit) /\ Valid(Edited(f, edit))
=============================================================================
