---------------------------- MODULE ShellPolicy ----------------------------
(***************************************************************************)
(* What the command rules say of a shell command                           *)
(* (internal/tools/impact_policy.go), and the command that is pinned       *)
(* before an escalation to the host is asked for (internal/tools/shell.go).*)
(*                                                                         *)
(* Every process loads the rules when it starts: it puts the starter file  *)
(* in place if there is none, parses the user's files in order, and those  *)
(* of the project if the user's configuration trusts the workspace.        *)
(*                                                                         *)
(* A word of a command is its directory ("" for a bare word) and its name. *)
(* Lexing is reduced to its result: a command is a list of segments, each  *)
(* a list of words, <<>> for a segment that the tokenizer refuses; or it   *)
(* is opaque, and all that is known is whether it looks external.  Which   *)
(* literal spellings are denied outright is a field of the command.        *)
(***************************************************************************)
EXTENDS Naturals, Sequences, FiniteSets, SequencesExt

CONSTANTS Loaders,      \* processes that start
          UserDocs,     \* what the user's other rule file may hold
          StarterDocs,  \* what the user may have put into default.rules
          ProjectDocs,  \* what the project's rule file may hold
          TrustTables,  \* trust levels of the entries that name the workspace
          Commands,     \* commands the model may ask for
          Safe,         \* program -> [sub |-> required first arguments or
                        \*   {}, bad |-> arguments that make it unsafe]
          ReadOnly,     \* programs that only read, yet are not on that list
          External,     \* program -> first arguments that reach out, or {}
          Programs,     \* names the lookup path is asked for
          Workspace     \* directories in the workspace

(* Decisions are these three, a declared program is an absolute path, and  *)
(* no directory of the workspace is the empty one of a bare word.          *)
PolicyAssumption ==
  /\ \A doc \in UserDocs \cup StarterDocs \cup ProjectDocs : \A d \in doc :
       \/ d.kind = "rule" /\ d.decision \in {"allow", "prompt", "forbidden"}
       \/ d.kind = "host" /\ \A w \in d.paths : w.dir # ""
  /\ \A levels \in TrustTables : levels \subseteq {"trusted", "untrusted", "invalid"}
  /\ \A c \in Commands : c.segments \in Seq(Seq([dir : STRING, name : STRING]))
  /\ "" \notin Workspace

VARIABLES
  userFile, \* the user's other rule file
  starter,  \* default.rules: absent, a symbolic link, or a document
  project,  \* the project's rule file
  trust,    \* the trust levels written for aliases of the workspace
  temp,     \* the temporary file of each loader
  stage,    \* where each loader is
  policy,   \* what each has loaded
  lookup,   \* where the shell's lookup finds each program
  asked,    \* the command an escalation was asked for
  shown,    \* the pinned program in the prompt
  ran       \* the program that was started on the host

ruleFiles == <<userFile, starter, project, trust>>
onHost == <<lookup, asked, shown, ran>>
rvars == <<userFile, starter, project, trust, temp, stage, policy, lookup, asked,
          shown, ran>>

NoFile == {[kind |-> "absent"]}
Link == {[kind |-> "link"]}
Partial == {[kind |-> "partial"]}
Embedded == {}      \* the embedded starter authorizes nothing
NoWord == [dir |-> "", name |-> ""]
Bare(w) == w.dir = ""
Empty == [rules |-> {}, hosts |-> {}, failed |-> FALSE]

----------------------------------------------------------------------------
(* Rules *)

Matches(rule, argv) ==
  /\ Len(argv) >= Len(rule.pattern)
  /\ \A i \in DOMAIN rule.pattern : argv[i] \in rule.pattern[i]

(* Fault: any path stands for its bare name.                               *)
LoweredByName(argv, hosts) == [argv EXCEPT ![1].dir = ""]
(* An absolute program stands for its bare name if exactly that path was   *)
(* declared for the name.                                                  *)
Lowered(argv, hosts) ==
  IF argv[1] \in hosts THEN [argv EXCEPT ![1].dir = ""] ELSE argv

MatchesWithHost(rule, argv, hosts) ==
  Matches(rule, argv) \/ Matches(rule, Lowered(argv, hosts))

(* Rules that match the words as written; only if there is none, those     *)
(* that match the lowered words.                                           *)
MatchingRules(p, argv) ==
  LET direct == {r \in p.rules : Matches(r, argv)}
      lowered == {r \in p.rules : Matches(r, Lowered(argv, p.hosts))}
  IN IF direct # {} THEN direct ELSE lowered

Rank(decision) == CASE decision = "forbidden" -> 2 [] decision = "prompt" -> 1
                    [] OTHER -> 0

(* One file.  Its declarations add to what was loaded before; examples are *)
(* tried against all the hosts declared so far, those of this file too.    *)
Parse(p, doc) ==
  LET rules == {d \in doc : d.kind = "rule"}
      hosts == p.hosts \cup UNION {d.paths : d \in {e \in doc : e.kind = "host"}}
      good(r) == /\ \A a \in r.match : MatchesWithHost(r, a, hosts)
                 /\ \A a \in r.notMatch : ~MatchesWithHost(r, a, hosts)
  IN [rules |-> p.rules \cup rules, hosts |-> hosts,
      failed |-> p.failed \/ \E r \in rules : ~good(r)]

(* An untrusted entry decides for every alias of the workspace.            *)
Trusted(levels) == "trusted" \in levels /\ "untrusted" \notin levels

----------------------------------------------------------------------------
(* Verdicts *)

KnownSafe(argv) ==
  /\ argv # <<>> /\ Bare(argv[1]) /\ argv[1].name \in DOMAIN Safe
  /\ LET s == Safe[argv[1].name]
     IN /\ s.sub # {} => Len(argv) > 1 /\ argv[2].name \in s.sub
        /\ \A i \in 2..Len(argv) : argv[i].name \notin s.bad

ReadsOnly(argv) == KnownSafe(argv) \/ (Bare(argv[1]) /\ argv[1].name \in ReadOnly)

ReachesOut(argv) ==
  /\ argv[1].name \in DOMAIN External
  /\ LET subs == External[argv[1].name]
     IN subs # {} => Len(argv) > 1 /\ argv[2].name \in subs

Refused(c) == c.opaque \/ c.segments = <<>> \/ <<>> \in ToSet(c.segments)
HardDenied(c) == c.hard
Say(decision, by, prompt) == [decision |-> decision, by |-> by, prompt |-> prompt]

(* EvaluateShell.                                                          *)
Evaluate(p, c) ==
  LET segments == ToSet(c.segments)
      rules(s) == MatchingRules(p, s)
      all == UNION {rules(s) : s \in segments}
      strictest == CHOOSE d \in {"allow", "prompt", "forbidden"} :
                     /\ d = "allow" \/ \E r \in all : r.decision = d
                     /\ \A r \in all : Rank(r.decision) <= Rank(d)
      covered == \A s \in segments : rules(s) # {} \/ KnownSafe(s)
  IN IF HardDenied(c) THEN Say("deny", "hard", FALSE)
     ELSE IF Refused(c) THEN Say("ask", "opaque-shell", FALSE)
     ELSE IF strictest = "forbidden" THEN Say("deny", "rule", FALSE)
     ELSE IF strictest = "prompt" THEN Say("ask", "rule", TRUE)
     ELSE IF covered
     THEN Say("allow", IF all # {} THEN "rule" ELSE "known-safe", FALSE)
     ELSE Say("ask", IF all # {} THEN "mixed-command" ELSE "default", FALSE)

(* ClassifyShellCommand: the segments in order; one that the tokenizer     *)
(* refuses ends it, whatever was found before.                             *)
Classify(c) ==
  IF c.opaque THEN IF c.looksExternal THEN "external" ELSE "write"
  ELSE IF Refused(c) THEN "write"
  ELSE IF \E s \in ToSet(c.segments) : ReachesOut(s) THEN "external"
  ELSE IF \A s \in ToSet(c.segments) : ReadsOnly(s) THEN "read" ELSE "write"

----------------------------------------------------------------------------
(* Loading *)

PolicyInit ==
  /\ userFile \in UserDocs
  /\ starter \in StarterDocs \cup {NoFile, Link}
  /\ project \in ProjectDocs \cup {NoFile, Link}
  /\ trust \in TrustTables
  /\ temp = [l \in Loaders |-> NoFile]
  /\ stage = [l \in Loaders |-> "start"]
  /\ policy = [l \in Loaders |-> Empty]
  /\ lookup \in [Programs -> Workspace \cup {"/h"}]
  /\ asked = <<>> /\ shown = NoWord /\ ran = NoWord

Proceeds(l, from, to) == stage[l] = from /\ stage' = [stage EXCEPT ![l] = to]

CreateStarter(l) ==
  /\ Proceeds(l, "start", "write")
  /\ temp' = [temp EXCEPT ![l] = Partial]
  /\ UNCHANGED <<ruleFiles, policy, onHost>>

(* Written, synced and closed under its own name.                          *)
WriteStarter(l) ==
  /\ Proceeds(l, "write", "publish")
  /\ temp' = [temp EXCEPT ![l] = Embedded]
  /\ UNCHANGED <<ruleFiles, policy, onHost>>

(* Link never replaces a file; what is there must be a regular one.        *)
Publish(l) ==
  /\ stage[l] = "publish"
  /\ starter' = IF starter = NoFile THEN temp[l] ELSE starter
  /\ temp' = [temp EXCEPT ![l] = NoFile]
  /\ stage' = [stage EXCEPT ![l] = IF starter = Link THEN "failed" ELSE "user"]
  /\ UNCHANGED <<userFile, project, trust, policy, onHost>>

(* The user's files in the order of their names.  A file that was written  *)
(* in part has none of the rules it will hold.                             *)
Content(doc) == IF doc = Partial THEN {} ELSE doc
LoadUser(l) ==
  /\ stage[l] = "user"
  /\ LET p == Parse(Parse(Empty, Content(starter)), userFile)
     IN /\ policy' = [policy EXCEPT ![l] = [p EXCEPT !.failed = @ \/ starter = Partial]]
        /\ stage' = [stage EXCEPT ![l] = IF policy'[l].failed THEN "failed" ELSE "project"]
  /\ UNCHANGED <<ruleFiles, temp, onHost>>

(* The trust table is read now; one bad level in it and nothing starts.    *)
LoadProject(l) ==
  /\ stage[l] = "project"
  /\ LET load == Trusted(trust) /\ project # NoFile
         p == Parse(policy[l], project)
     IN IF "invalid" \in trust \/ (load /\ project = Link)
        THEN stage' = [stage EXCEPT ![l] = "failed"] /\ UNCHANGED policy
        ELSE /\ policy' = IF load THEN [policy EXCEPT ![l] = p] ELSE policy
             /\ stage' = [stage EXCEPT ![l] = IF policy'[l].failed THEN "failed" ELSE "ready"]
  /\ UNCHANGED <<ruleFiles, temp, onHost>>

(* The process dies; its temporary file stays and is not a rule file.      *)
Crash(l) ==
  /\ stage[l] \notin {"ready", "failed", "dead"}
  /\ stage' = [stage EXCEPT ![l] = "dead"]
  /\ UNCHANGED <<ruleFiles, temp, policy, onHost>>

----------------------------------------------------------------------------
(* Escalation to the host *)

(* Words that no escalation may have, wherever they stand.                 *)
Barred == {"sudo", "doas", "su", "setsid", "nohup", "X=1"}

Resolved(w) ==
  IF Bare(w) /\ w.name \in DOMAIN lookup THEN [dir |-> lookup[w.name], name |-> w.name]
  ELSE w

(* A literal command whose program is found, outside the workspace.        *)
Escalates(c) ==
  /\ ~c.opaque /\ Len(c.segments) = 1 /\ c.segments[1] # <<>>
  /\ \A w \in ToSet(c.segments[1]) : w.name \notin Barred
  /\ LET program == Resolved(c.segments[1][1])
     IN program.dir \notin Workspace \cup {""}

AskEscalation(l, c) ==
  /\ stage[l] = "ready" /\ asked = <<>>
  /\ Escalates(c) /\ Evaluate(policy[l], c).decision # "deny"
  /\ asked' = c.segments[1]
  /\ shown' = Resolved(c.segments[1][1])
  /\ UNCHANGED <<ruleFiles, temp, stage, policy, lookup, ran>>

(* Somebody installs another program of that name while the user thinks.   *)
Reinstall(name, dir) ==
  /\ asked # <<>> /\ ran = NoWord /\ lookup[name] # dir
  /\ lookup' = [lookup EXCEPT ![name] = dir]
  /\ UNCHANGED <<ruleFiles, temp, stage, policy, asked, shown, ran>>

(* The user says yes and exactly the program of the prompt is started.     *)
RunOnHost ==
  /\ asked # <<>> /\ ran = NoWord
  /\ ran' = shown
  /\ UNCHANGED <<ruleFiles, temp, stage, policy, lookup, asked, shown>>

PolicyNext ==
  \/ \E l \in Loaders :
       \/ CreateStarter(l) \/ WriteStarter(l) \/ Publish(l) \/ LoadUser(l)
       \/ LoadProject(l) \/ Crash(l)
       \/ \E c \in Commands : AskEscalation(l, c)
  \/ \E name \in DOMAIN lookup, dir \in Workspace \cup {"/h"} : Reinstall(name, dir)
  \/ RunOnHost

PolicySpec == PolicyInit /\ [][PolicyNext]_rvars

----------------------------------------------------------------------------
(* Properties *)

Ready == {l \in Loaders : stage[l] = "ready"}
Doc(f) == IF f \in {NoFile, Link, Partial} THEN {} ELSE f

(* A process that runs holds the rules of the user's files, whole ones and *)
(* as the user wrote them although several processes may start at once and *)
(* die, and those of the project only if no entry calls it untrusted.      *)
PolicyIsAuthorised ==
  /\ starter # Partial
  /\ \A l \in Ready :
       policy[l].rules =
         {d \in Doc(starter) \cup userFile
                \cup (IF trust = {"trusted"} THEN Doc(project) ELSE {}) :
            d.kind = "rule"}

(* What runs unasked is vouched for segment by segment: each is known to   *)
(* be safe and bare, or an allow rule names it as it is written or under   *)
(* the bare name its path was declared for, and no stricter rule does.     *)
AllowedIsVouchedFor ==
  \A l \in Ready : \A c \in Commands :
    Evaluate(policy[l], c).decision = "allow" =>
      /\ ~c.opaque /\ ~c.hard
      /\ \A i \in DOMAIN c.segments :
           LET argv == c.segments[i]
               of(d) == \E r \in policy[l].rules : r.decision = d /\ Matches(r, argv)
               under(d) == \E r \in policy[l].rules :
                             /\ r.decision = d /\ argv[1] \in policy[l].hosts
                             /\ Matches(r, [argv EXCEPT ![1].dir = ""])
           IN /\ argv # <<>>
              /\ of("allow") \/ under("allow") \/ KnownSafe(argv)
              /\ ~of("forbidden") /\ ~of("prompt")
              /\ of("allow") \/ (~under("forbidden") /\ ~under("prompt"))

(* A project's rules never loosen what the user's own rules forbid or want *)
(* to be asked about; only a rule for the exact path of a program takes    *)
(* the place of the rules for its name.                                    *)
UserRulesStand ==
  LET mine == Parse(Parse(Empty, Doc(starter)), userFile)
      bare == {c \in Commands : \A i \in DOMAIN c.segments :
                 c.segments[i] # <<>> => Bare(c.segments[i][1])}
  IN \A l \in Ready, c \in bare :
       LET alone == Evaluate(mine, c)
           now == Evaluate(policy[l], c) IN
         /\ alone.decision = "deny" => now.decision = "deny"
         /\ alone.prompt => now.decision = "deny" \/ now.prompt

(* What is started on the host is what the user was shown, and was not a   *)
(* file of the workspace, whatever became of the lookup path meanwhile.    *)
RunsWhatWasShown == ran # NoWord => ran = shown /\ ran.dir \notin Workspace

(* What the command rules promise: the four above.                         *)
RulesAreFollowed ==
  PolicyIsAuthorised /\ AllowedIsVouchedFor /\ UserRulesStand /\ RunsWhatWasShown

(* impact_policy.go of ClassifyShellCommand: "an identified remote action  *)
(* gets the highest tier".                                                 *)
RemoteActionsAreExternal ==
  \A c \in Commands :
    ~c.opaque /\ (\E s \in ToSet(c.segments) \ {<<>>} : ReachesOut(s))
      => Classify(c) = "external"
=============================================================================
