--------------------------- MODULE SandboxPolicy ---------------------------
(***************************************************************************)
(* The file system a sandbox worker sees (internal/sandbox): the toolchain *)
(* directories discovered from the host's environment, the policy that a   *)
(* session validates once, and the mounts (bubblewrap) or rules (Seatbelt) *)
(* made from it for every execution, while the workspace changes.          *)
(*                                                                         *)
(* A path is a sequence of names below the root <<>>, already resolved;    *)
(* aliases of /tmp and /var, trimming and the order of equals are left     *)
(* out.  Access is to the HOST's files: what a worker writes into a tmpfs  *)
(* that masks a path is gone when it ends.                                 *)
(***************************************************************************)
EXTENDS Naturals, Sequences, FiniteSets, SequencesExt

CONSTANTS
  Hosts,        \* host layouts: directories, links, home, temporary
                \*   directory, and where the program itself is
  Workspaces,   \* directories the program may be started in
  PathLists,    \* values of PATH
  ToolVars,     \* sets of directories that toolchain variables may name
  Configured,   \* sets of configured read-only roots
  Patterns,     \* sets of protected patterns, relative to the workspace
  RuntimeRoots, \* what every worker needs of the system
  DefaultPath,
  MaxChanges    \* bound on the changes of the workspace

Within(root, p) == IsPrefix(root, p)
Overlap(p, q) == Within(p, q) \/ Within(q, p)

(* Paths are sequences of names.  The program is a file outside of every   *)
(* temporary directory made after it was started, and nobody works below   *)
(* it or in what it was copied to.  Neither the workspace nor a temporary  *)
(* directory is one of those that every worker needs of the system         *)
(* (/usr/bin, /lib, ...), which would be mounted first, and for reading.   *)
SandboxAssumption ==
  /\ Workspaces \subseteq Seq(STRING) /\ \A places \in Patterns : places \subseteq Seq(STRING)
  /\ \A h \in Hosts :
       /\ h.dirs \subseteq Seq(STRING) /\ {h.temp, h.program} \subseteq Seq(STRING)
       /\ h.temp \o <<"run">> \notin RuntimeRoots
       /\ ~Overlap(h.program, h.temp \o <<"run">>)
       /\ \A w \in Workspaces : /\ w \notin RuntimeRoots /\ ~Within(h.program, w)
                                /\ ~Within(h.temp \o <<"staged">>, w)

VARIABLES
  machine, workspace, mode, auto, env, roots, patterns,  \* the inputs
  node,      \* what is at each protected place: absent, file, dir, link
  linked,    \* some file of the workspace has two names
  found,     \* EnvironmentSnapshot.ReadOnlyRoots
  validity,  \* of the policy: "none", "found", "refused", "valid"
  worker,    \* the worker's program, staged if need be
  view,      \* the last execution: backend and mounts, or why there is none
  changes

inputs == <<machine, workspace, mode, auto, env, roots, patterns>>
bvars == <<inputs, node, linked, found, validity, worker, view, changes>>

Parent(p) == IF p = <<>> THEN p ELSE Front(p)

----------------------------------------------------------------------------
(* Discovery *)

(* A directory is exposed unless it is the root, the home, or part of the  *)
(* workspace; a bin directory brings the prefix it is installed in.        *)
WithPrefix(d) ==
  IF d \notin machine.dirs \/ d \in {<<>>, machine.home} \/ Within(workspace, d) THEN {}
  ELSE {d} \cup {p \in {Parent(d)} :
         /\ Last(d) \in {"bin", "sbin"}
         /\ p \notin {machine.home, <<>>, <<"usr">>} /\ ~Within(workspace, p)}

(* Tools are links into the place they are installed in.                   *)
LinkTargets(d) ==
  UNION {WithPrefix(Parent(t)) \cup WithPrefix(Parent(Parent(t))) :
           t \in {machine.links[l] : l \in {k \in DOMAIN machine.links : Parent(k) = d}}}

Discovered ==
  LET entries == {d \in ToSet(DefaultPath) \cup (IF auto THEN env.path ELSE {}) :
                    d \in machine.dirs \ {<<>>}}
  IN (UNION {WithPrefix(d) \cup LinkTargets(d) : d \in entries})
     \cup (IF auto THEN UNION {WithPrefix(d) : d \in env.tools} ELSE {})

----------------------------------------------------------------------------
(* Validation *)

Place(pattern) == workspace \o pattern
(* Every part of a protected path but the last must be a directory, and    *)
(* none a link.                                                            *)
Anchored(pattern) ==
  /\ node[pattern] # "link"
  /\ \A q \in DOMAIN node : q # pattern /\ IsPrefix(q, pattern) => node[q] = "dir"

Acceptable(tempDir) ==
  /\ ~Overlap(workspace, tempDir)
  /\ \A r \in found \cup roots : /\ r \in machine.dirs
                                 /\ ~Overlap(r, workspace) /\ ~Overlap(r, tempDir)
  /\ ~linked
  /\ \A q \in patterns : Anchored(q)

(* A worker that lies in the workspace is copied out of it.                *)
Staged ==
  IF ~Within(workspace, machine.program) THEN machine.program
  ELSE machine.temp \o <<"staged", "worker">>

BoxInit ==
  /\ machine \in Hosts /\ workspace \in Workspaces
  /\ mode \in {"read-only", "workspace-write"} /\ auto \in BOOLEAN
  /\ env \in [path : PathLists, tools : ToolVars]
  /\ roots \in Configured /\ patterns \in Patterns
  /\ node \in [UNION Patterns -> {"absent", "file", "dir", "link"}]
  /\ \A p, q \in DOMAIN node :   \* a file tree
       p # q /\ IsPrefix(p, q) /\ node[p] # "dir" => node[q] = "absent"
  /\ linked \in BOOLEAN
  /\ found = {} /\ validity = "none" /\ worker = <<>>
  /\ view = [backend |-> "none"] /\ changes = 0

(* NewSandboxRunner: discovery, validation with a temporary directory made *)
(* for it, and the worker's staging.                                       *)
Discover ==
  /\ validity = "none"
  /\ found' = Discovered /\ validity' = "found"
  /\ UNCHANGED <<inputs, node, linked, worker, view, changes>>
StartRunner ==
  /\ validity = "found"
  /\ validity' = IF Acceptable(machine.temp \o <<"validate">>) THEN "valid" ELSE "refused"
  /\ worker' = Staged
  /\ UNCHANGED <<inputs, node, linked, found, view, changes>>

----------------------------------------------------------------------------
(* One execution *)

(* Mounts in order, layer by layer; a later one covers what an earlier one *)
(* put there.  Of several with one destination the first stays.            *)
Layer(dests, kind) == [dests |-> dests, kind |-> kind]
Mounts(tempDir) ==
  <<Layer(RuntimeRoots, "ro"), Layer(found \cup roots, "ro"),
    Layer({workspace}, IF mode = "read-only" THEN "ro" ELSE "rw"), Layer({tempDir}, "rw"),
    Layer(IF \E r \in RuntimeRoots \cup found \cup roots : Within(r, worker)
          THEN {} ELSE {worker}, "ro")>>
FirstOfEach(s) ==
  [i \in DOMAIN s |-> [s[i] EXCEPT !.dests = @ \ UNION {s[j].dests : j \in 1..(i - 1)}]]

(* Fault: what does not exist needs no mask.                               *)
MasksOfFiles == <<Layer({Place(q) : q \in {p \in patterns : node[p] # "absent"}}, "mask")>>
(* A protected place is masked, whether it exists or not.                  *)
Masks == <<Layer({Place(q) : q \in patterns}, "mask")>>

NoView(why) == [backend |-> why]
Bubblewrap(tempDir) ==
  IF \E q \in patterns : node[q] = "link" THEN NoView("refused")
  ELSE [backend |-> "bubblewrap", temp |-> tempDir,
        mounts |-> FirstOfEach(Mounts(tempDir)) \o Masks]

Seatbelt(tempDir) ==
  [backend |-> "seatbelt", temp |-> tempDir,
   reads |-> RuntimeRoots \cup {workspace, tempDir, worker} \cup found \cup roots,
   writes |-> {tempDir} \cup (IF mode = "read-only" THEN {} ELSE {workspace}),
   denied |-> {Place(q) : q \in patterns}]

(* WithTempDir checks the new directory only.                              *)
Execute(backend, tempDir) ==
  /\ validity = "valid"
  /\ view' = IF Overlap(workspace, tempDir) \/ \E r \in found \cup roots : Overlap(r, tempDir)
             THEN NoView("refused")
             ELSE IF backend = "bubblewrap" THEN Bubblewrap(tempDir) ELSE Seatbelt(tempDir)
  /\ UNCHANGED <<inputs, node, linked, found, validity, worker, changes>>

(* Between executions the user, or a command, changes what is at a place.  *)
Change(q, kind) ==
  /\ validity = "valid" /\ changes < MaxChanges
  /\ \A p \in DOMAIN node : p # q /\ IsPrefix(p, q) => node[p] = "dir"
  /\ \A p \in DOMAIN node : p # q /\ IsPrefix(q, p) => node[p] = "absent"
  /\ node[q] # kind
  /\ node' = [node EXCEPT ![q] = kind] /\ changes' = changes + 1
  /\ UNCHANGED <<inputs, linked, found, validity, worker, view>>

TempDirs == {machine.temp \o <<"run">>, workspace \o <<"tmp">>}
BoxNext ==
  \/ Discover \/ StartRunner
  \/ \E b \in {"bubblewrap", "seatbelt"}, t \in TempDirs : Execute(b, t)
  \/ \E q \in DOMAIN node, k \in {"absent", "file", "dir", "link"} : Change(q, k)
BoxSpec == BoxInit /\ [][BoxNext]_bvars

----------------------------------------------------------------------------
(* Properties *)

Runs == view.backend \in {"bubblewrap", "seatbelt"}
Covering(p) == {i \in DOMAIN view.mounts : \E d \in view.mounts[i].dests : Within(d, p)}
Top(p) == LET c == Covering(p)
          IN IF c = {} THEN "none" ELSE view.mounts[CHOOSE i \in c : \A j \in c : j <= i].kind
Shut(p) == \E d \in view.denied : Within(d, p)
Readable(p) == IF view.backend = "bubblewrap" THEN Top(p) \in {"ro", "rw"}
               ELSE ~Shut(p) /\ \E r \in view.reads : Within(r, p)
Writable(p) == IF view.backend = "bubblewrap" THEN Top(p) = "rw"
               ELSE ~Shut(p) /\ \E r \in view.writes : Within(r, p)

(* ProtectedMatcher.Matches, with which the worker's file tools refuse.    *)
MatchesProtected(relative) == \E q \in patterns : IsPrefix(q, relative)

(* Places to probe: every directory, every protected place, and a file in  *)
(* each of them.                                                           *)
Probes ==
  machine.dirs \cup {worker, view.temp, workspace}
    \cup {p \o <<"x">> : p \in {view.temp, workspace} \cup {Place(q) : q \in DOMAIN node}}
    \cup {Place(q) : q \in DOMAIN node}

(* On either platform a worker writes to the host in its temporary         *)
(* directory and, if the mode allows it, in the workspace but not where it *)
(* is protected; it cannot read there either, whatever has appeared there  *)
(* since the policy was validated; and the file tools refuse exactly what  *)
(* the system hides.                                                       *)
ViewIsThePolicy ==
  Runs => \A p \in Probes :
    LET inside == Within(workspace, p)
        hidden == inside /\ MatchesProtected(SubSeq(p, Len(workspace) + 1, Len(p)))
    IN /\ Writable(p) <=> Within(view.temp, p)
                         \/ (mode = "workspace-write" /\ inside /\ ~hidden)
       /\ inside => (Readable(p) <=> ~hidden)

(* No execution can write to the program that runs the next one.           *)
WorkerIsOutOfReach == Runs => ~Writable(worker) /\ Readable(worker)

(* The comment of addEnvironmentRoot: the prefix of a tool is exposed,     *)
(* "never the user's home root".                                           *)
HomeIsNoRoot == machine.home \notin found

(* What the sandbox promises: the three above.                             *)
WorkerIsConfined == ViewIsThePolicy /\ WorkerIsOutOfReach /\ HomeIsNoRoot

(* docs/sandbox.md of toolchain_visibility = "auto": the directories found *)
(* in the environment are exposed read-only.  What is found must then not  *)
(* be what makes the runner refuse to start.                               *)
WhatIsFoundIsAccepted ==
  validity # "none" =>
    \A r \in found : ~Overlap(r, workspace) /\ ~Overlap(r, machine.temp \o <<"validate">>)
=============================================================================
