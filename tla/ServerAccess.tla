---------------------------- MODULE ServerAccess ----------------------------
(***************************************************************************)
(* The commands that manage MCP servers (cmd/eino-assistant/mcp_cli*.go,   *)
(* internal/mcpoauth) and the chats that use them (internal/tools/mcp.go): *)
(* separate processes that share config.toml and the system's keyring and  *)
(* lock neither.  A command edits a text it read before; a login holds a   *)
(* token while the user is in a browser; a chat keeps the credential it    *)
(* loaded and refreshes it, and the endpoint accepts a refresh token once. *)
(* A token is a number; the OAuth exchange, PKCE and HTTP are left out.    *)
(***************************************************************************)
EXTENDS ServerConfig

CONSTANTS
  Files,        \* files the user may have written
  Edits,        \* edits a command or a chat's /statusline may ask for
  Remote,       \* the remote server that is logged in to and out of
  Endpoints,    \* what the user may set its URL to
  Commands, Chats,
  MaxTokens,    \* bound on the tokens that are issued
  MaxUserEdits  \* bound on the user's own edits of the file

VARIABLES
  file,
  keyring,      \* the stored credential of Remote, or NoCredential
  command,      \* command[p]
  chat,         \* chat[c]
  audience,     \* the endpoint each issued token is for
  refreshable,  \* tokens whose refresh token the endpoint still accepts
  expired,
  stored,       \* every token the keyring ever held
  userEdits

serverVars == <<file, keyring, command, chat, audience, refreshable, expired, stored, userEdits>>

NoCredential == [endpoint |-> "none", token |-> 0]
NoEdit == [op |-> "none"]
NoCommand ==
  [kind |-> "none", pc |-> "idle", edit |-> NoEdit, read |-> <<>>, url |-> "none",
   token |-> 0, kept |-> FALSE]
NoChat ==
  [pc |-> "off", servers |-> <<>>, endpoint |-> "none", source |-> 0, credential |-> 0,
   used |-> 0]

Issued == Len(audience)
OAuthServer(f) ==
  /\ Valid(f) /\ IsConfigured(f, Remote)
  /\ IsRemote(ServerNamed(f, Remote)) /\ ~Has(ServerNamed(f, Remote), "bearer")
OAuthEdit(on) == [op |-> "flag", name |-> Remote, key |-> "oauth", val |-> on]

ServersInit ==
  /\ file \in Files
  /\ keyring = NoCredential
  /\ command = [p \in Commands |-> NoCommand]
  /\ chat = [c \in Chats |-> NoChat]
  /\ audience = <<>> /\ refreshable = {} /\ expired = {} /\ stored = {}
  /\ userEdits = 0

oauth == <<keyring, audience, refreshable, expired, stored>>
Step(p, from) == command[p].pc = from
Becomes(p, rec) == command' = [command EXCEPT ![p] = rec]
At(p, pc) == [command[p] EXCEPT !.pc = pc]
(* What a command that has ended is remembered by.                         *)
Ended(p, pc) == [NoCommand EXCEPT !.pc = pc, !.token = command[p].token]
Failed(p) == Ended(p, "failed")

----------------------------------------------------------------------------
(* An edit: Lstat, read, decode, edit and decode again; then the rename.   *)

BeginEdit(p) ==
  /\ Step(p, "idle")
  /\ \E e \in Edits : Becomes(p, [NoCommand EXCEPT !.kind = "edit", !.edit = e, !.pc = "read"])
  /\ UNCHANGED <<file, oauth, chat, userEdits>>

(* A login whose switch cannot be set takes its credential back.           *)
NotEdited(p) == IF command[p].kind = "login" THEN At(p, "cleanup") ELSE Failed(p)

ReadForEdit(p) ==
  /\ Step(p, "read")
  /\ LET e == command[p].edit
     IN Becomes(p, IF ~Admissible(file, e) THEN NotEdited(p)
                   ELSE IF Unneeded(file, e) THEN Ended(p, "done")
                   ELSE IF Acceptable(file, e) THEN [At(p, "write") EXCEPT !.read = file]
                   ELSE NotEdited(p))
  /\ UNCHANGED <<file, oauth, chat, userEdits>>

(* writeConfigAtomic may fail at any of its steps before the rename.       *)
WriteEdit(p) ==
  /\ Step(p, "write")
  /\ \/ file' = Edited(command[p].read, command[p].edit) /\ Becomes(p, Ended(p, "done"))
     \/ Becomes(p, NotEdited(p)) /\ UNCHANGED file
  /\ UNCHANGED <<oauth, chat, userEdits>>

----------------------------------------------------------------------------
(* mcp login *)

BeginLogin(p) ==
  /\ Step(p, "idle")
  /\ Becomes(p, IF OAuthServer(file)
                THEN [NoCommand EXCEPT !.kind = "login", !.edit = OAuthEdit(TRUE),
                        !.pc = "flow", !.url = ServerNamed(file, Remote).own.url]
                ELSE [NoCommand EXCEPT !.kind = "login", !.pc = "failed"])
  /\ UNCHANGED <<file, oauth, chat, userEdits>>

Issue(t, endpoint) ==
  /\ t <= MaxTokens
  /\ audience' = Append(audience, endpoint)
  /\ refreshable' = refreshable \cup {t}

(* The user's browser comes back, or denies, or the time is over.          *)
FinishFlow(p) ==
  /\ Step(p, "flow")
  /\ \/ /\ Issue(Issued + 1, command[p].url)
        /\ Becomes(p, [command[p] EXCEPT !.token = Issued + 1, !.pc = "save"])
     \/ Becomes(p, Failed(p)) /\ UNCHANGED <<audience, refreshable>>
  /\ UNCHANGED <<file, keyring, expired, stored, chat, userEdits>>

Store(endpoint, t) ==
  keyring' = [endpoint |-> endpoint, token |-> t] /\ stored' = stored \cup {t}

SaveCredential(p) ==
  /\ Step(p, "save")
  /\ \/ Store(command[p].url, command[p].token) /\ Becomes(p, At(p, "recheck"))
     \/ Becomes(p, Failed(p)) /\ UNCHANGED <<keyring, stored>>
  /\ UNCHANGED <<file, audience, refreshable, expired, chat, userEdits>>
Recheck(p) ==
  /\ Step(p, "recheck")
  /\ Becomes(p, At(p, IF OAuthServer(file) /\ ServerNamed(file, Remote).own.url = command[p].url
                      THEN "read" ELSE "cleanup"))
  /\ UNCHANGED <<file, oauth, chat, userEdits>>

(* The new credential is removed; when that fails, the error says so.      *)
Cleanup(p) ==
  /\ Step(p, "cleanup")
  /\ \/ keyring' = NoCredential /\ Becomes(p, Failed(p))
     \/ Becomes(p, [Failed(p) EXCEPT !.kept = TRUE]) /\ UNCHANGED keyring
  /\ UNCHANGED <<file, audience, refreshable, expired, stored, chat, userEdits>>

----------------------------------------------------------------------------
(* mcp logout: the credential first, then the switch *)

BeginLogout(p) ==
  /\ Step(p, "idle")
  /\ Becomes(p, [NoCommand EXCEPT !.kind = "logout", !.edit = OAuthEdit(FALSE),
                   !.pc = IF OAuthServer(file) THEN "delete" ELSE "failed"])
  /\ UNCHANGED <<file, oauth, chat, userEdits>>

DeleteCredential(p) ==
  /\ Step(p, "delete")
  /\ \/ keyring' = NoCredential /\ Becomes(p, At(p, "read"))
     \/ Becomes(p, Failed(p)) /\ UNCHANGED keyring
  /\ UNCHANGED <<file, audience, refreshable, expired, stored, chat, userEdits>>

Killed(p) ==
  /\ command[p].pc \notin {"idle", "done", "failed", "killed"}
  /\ Becomes(p, Ended(p, "killed"))
  /\ UNCHANGED <<file, oauth, chat, userEdits>>

----------------------------------------------------------------------------
(* A chat *)

Load(c) ==
  /\ chat[c].pc = "off" /\ Valid(file)
  /\ chat' = [chat EXCEPT ![c].pc = "connect",
                ![c].servers = SelectSeq(Decode(file).servers, IsEnabled)]
  /\ UNCHANGED <<file, oauth, command, userEdits>>

Opened(c) == [chat[c] EXCEPT !.servers = Tail(@)]
(* What it opened is closed, and what it loaded ends with the process.     *)
Abandoned == [NoChat EXCEPT !.pc = "exited"]

(* An expired token without a refresh token would be refused too: every    *)
(* credential has one here.                                                *)
LoadableFor(endpoint) == keyring # NoCredential /\ keyring.endpoint = endpoint

(* One server after the other; a start that fails closes the others.       *)
Connect(c) ==
  /\ chat[c].pc = "connect" /\ chat[c].servers # <<>>
  /\ LET server == Head(chat[c].servers)
     IN \/ /\ ~HasOAuth(server)
           /\ chat' = [chat EXCEPT ![c] = Opened(c)]
        \/ /\ HasOAuth(server) /\ LoadableFor(server.own.url)
           /\ chat' = [chat EXCEPT ![c] =
                [Opened(c) EXCEPT !.endpoint = server.own.url,
                   !.source = keyring.token, !.credential = keyring.token]]
        \/ chat' = [chat EXCEPT ![c] = Abandoned]
  /\ UNCHANGED <<file, oauth, command, userEdits>>

Ready(c) ==
  /\ chat[c].pc = "connect" /\ chat[c].servers = <<>>
  /\ chat' = [chat EXCEPT ![c].pc = "on"]
  /\ UNCHANGED <<file, oauth, command, userEdits>>

(* Fault: a token that could not be saved is used all the same.            *)
NotSavedUsed(c, t) == [chat[c] EXCEPT !.source = t, !.used = t]
(* The source holds the new token, the call fails, the next tries again.   *)
NotSaved(c, t) == [chat[c] EXCEPT !.source = t]

(* persistingTokenSource.Token: the library's source refreshes a token     *)
(* that has expired; what it then holds is used once it has been saved.    *)
Refresh(c) ==
  /\ chat[c].pc = "on" /\ chat[c].source \in expired \cap refreshable
  /\ Issued < MaxTokens
  /\ audience' = Append(audience, chat[c].endpoint)
  /\ refreshable' = (refreshable \ {chat[c].source}) \cup {Issued + 1}
  /\ \/ /\ Store(chat[c].endpoint, Issued + 1)
        /\ chat' = [chat EXCEPT ![c].source = Issued + 1, ![c].credential = Issued + 1,
                      ![c].used = Issued + 1]
     \/ /\ chat' = [chat EXCEPT ![c] = NotSaved(c, Issued + 1)]
        /\ UNCHANGED <<keyring, stored>>
  /\ UNCHANGED <<file, expired, command, userEdits>>

(* The token is good, and not saved yet if an earlier call failed to.      *)
Use(c) ==
  /\ chat[c].pc = "on" /\ chat[c].source # 0 /\ chat[c].source \notin expired
  /\ \/ /\ chat[c].source = chat[c].credential
        /\ chat' = [chat EXCEPT ![c].used = chat[c].source]
        /\ UNCHANGED <<keyring, stored>>
     \/ /\ chat[c].source # chat[c].credential
        /\ Store(chat[c].endpoint, chat[c].source)
        /\ chat' = [chat EXCEPT ![c].used = chat[c].source, ![c].credential = chat[c].source]
  /\ UNCHANGED <<file, audience, refreshable, expired, command, userEdits>>

Quit(c) ==
  /\ chat[c].pc \in {"connect", "on"}
  /\ chat' = [chat EXCEPT ![c] = Abandoned]
  /\ UNCHANGED <<file, oauth, command, userEdits>>

----------------------------------------------------------------------------
(* Outside: time and the user's editor *)

(* A chat looks at the expiry of the token it holds, and of no other.      *)
Expire(t) ==
  /\ t \in 1..Issued \ expired /\ \E c \in Chats : chat[c].source = t
  /\ expired' = expired \cup {t}
  /\ UNCHANGED <<file, keyring, audience, refreshable, stored, command, chat, userEdits>>

UserEdits ==
  /\ userEdits < MaxUserEdits /\ userEdits' = userEdits + 1
  /\ \E i \in DOMAIN file, u \in Endpoints :
       /\ file[i].kind = "set" /\ file[i].key = "url" /\ file[i].val # u
       /\ file' = [file EXCEPT ![i].val = u]
  /\ UNCHANGED <<oauth, command, chat>>

ServersNext ==
  \/ \E p \in Commands :
       \/ BeginEdit(p) \/ ReadForEdit(p) \/ WriteEdit(p)
       \/ BeginLogin(p) \/ FinishFlow(p) \/ SaveCredential(p) \/ Recheck(p) \/ Cleanup(p)
       \/ BeginLogout(p) \/ DeleteCredential(p) \/ Killed(p)
  \/ \E c \in Chats : Load(c) \/ Connect(c) \/ Ready(c) \/ Refresh(c) \/ Use(c) \/ Quit(c)
  \/ \E t \in 1..MaxTokens : Expire(t)
  \/ UserEdits

ServersSpec == ServersInit /\ [][ServersNext]_serverVars

----------------------------------------------------------------------------
(* Properties *)

(* A line-by-line edit does to the configuration what its command says and *)
(* nothing else, to the other servers and the settings, whatever others    *)
(* write since the text was read, and the file stays valid.  Two lines the *)
(* editor does not see are excepted (OutOfSight): see the README.          *)
EditMeansItsCommand ==
  [][\A p \in Commands :
       command[p].pc = "write" /\ command'[p].pc = "done" =>
         /\ Valid(file')
         /\ ~OutOfSight(command[p].read, command[p].edit) =>
              Decode(file') = Meant(Decode(command[p].read), command[p].edit)]_serverVars

(* A retired setting does not survive a change of the status line:         *)
(* "/statusline removes it" (config.go:748).  The code removes it only     *)
(* when its key is not quoted.                                             *)
RetiredIsRemoved ==
  [][\A p \in Commands :
       command[p].pc = "write" /\ command'[p].pc = "done" /\ command[p].edit.op = "status" =>
         "retired" \notin DOMAIN Decode(file').ui]_serverVars

(* A token reaches no endpoint but the one it was issued for, although the *)
(* URL changes during a login, beside a chat, or between two runs, and the *)
(* keyring's entry is named after the server only.                         *)
TokenGoesToItsEndpoint ==
  \A c \in Chats : chat[c].source # 0 => audience[chat[c].source] = chat[c].endpoint

(* A chat uses no token that was never stored: the endpoint may have       *)
(* retired the older one, and a token that is lost with the process would  *)
(* leave the user logged out.                                              *)
UsedTokenWasStored == \A c \in Chats : chat[c].used # 0 => chat[c].used \in stored

(* A login that fails leaves no credential of its own, unless its error    *)
(* says that it could not be removed.                                      *)
FailedLoginKeepsNothing ==
  \A p \in Commands :
    command[p].pc = "failed" /\ command[p].token # 0 /\ ~command[p].kept =>
      keyring.token # command[p].token

(* Where credentials go and what is left of them: the three above.        *)
CredentialsAreKept ==
  TokenGoesToItsEndpoint /\ UsedTokenWasStored /\ FailedLoginKeepsNothing

(* What was removed from the keyring is put there again by a login only:   *)
(* logout is to "Clear one locally stored Streamable HTTP MCP OAuth        *)
(* credential" (mcp_cli_oauth.go).  A chat that is still on refreshes and  *)
(* stores its token again: the code does not have this.                    *)
LoggedOutStaysOut ==
  [][keyring = NoCredential /\ keyring' # NoCredential =>
       \E p \in Commands : command[p].kind = "login" /\ command[p].pc = "save"]_serverVars
=============================================================================
