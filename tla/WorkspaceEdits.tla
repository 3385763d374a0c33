--------------------------- MODULE WorkspaceEdits ---------------------------
(***************************************************************************)
(* apply_patch (internal/tools/apply_patch.go): a patch is a sequence of   *)
(* operations.  All of them are checked first, each against the files as   *)
(* the earlier ones will leave them; then they are made in order, every    *)
(* write through a temporary file that is renamed into place.  The calls   *)
(* of a batch, commands and the user change the same files meanwhile.  A   *)
(* sandboxed call runs in a worker that may be killed at any moment        *)
(* (CommandRun); its call is then reported as denied.                      *)
(*                                                                         *)
(* The content of a file is reduced to the set of strings that occur in it *)
(* once; an update replaces one of them by another.  Paths outside the     *)
(* workspace, links, encodings and sizes are refused before anything is    *)
(* read and are one kind of operation here.                                *)
(***************************************************************************)
EXTENDS Naturals, Sequences

CONSTANTS Callers,    \* the calls of apply_patch
          Paths,
          Patches,    \* the sequences of operations a call may make
          Original,   \* the files before any call
          MaxOutside  \* bound on the writes of others
Absent == {"absent"}    \* contents are sets, these three of no file
Untouched == {"untouched"}
Impossible == {"impossible"}
Reserved == Absent \cup Untouched \cup Impossible

Op(type, path, old, new) == [type |-> type, path |-> path, old |-> old, new |-> new]
Ops == UNION {{p[i] : i \in DOMAIN p} : p \in Patches}
(* Of an update the old string is not the new one, and no string that is   *)
(* written is one of those that stand for no content.                      *)
PatchAssumption ==
  /\ \A p \in Patches : p \in Seq([type : {"create", "update", "delete", "forbidden"},
                                  path : Paths, old : STRING, new : STRING])
  /\ \A o \in Ops : /\ o.type = "update" => o.old # o.new
                    /\ o.type \in {"create", "update"} => o.new \notin Reserved
  /\ Original \in [Paths -> {Absent} \cup SUBSET (STRING \ Reserved)]

VARIABLES
  files,    \* content of each path
  patching, \* each call: where it is, its patch, the operation it is at
  staged,   \* each call: content of a path after the operations checked
  steps,    \* each call: the contents it will write
  temps,    \* calls that have a temporary file
  before,   \* history: the files when the call began
  alone,    \* history: calls nobody interfered with
  outside   \* writes of others
evars == <<files, patching, staged, steps, temps, before, alone, outside>>

EditsInit ==
  /\ files = Original
  /\ patching = [c \in Callers |-> [at |-> "unused", patch |-> <<>>, next |-> 1]]
  /\ staged = [c \in Callers |-> [p \in Paths |-> Untouched]]
  /\ steps = [c \in Callers |-> <<>>]
  /\ temps = {} /\ before = [c \in Callers |-> Original] /\ alone = Callers
  /\ outside = 0

Current(c) == patching[c].patch[patching[c].next]
More(c) == patching[c].next <= Len(patching[c].patch)
At(c, where) == patching[c].at = where
Advance(c) == patching' = [patching EXCEPT ![c].next = @ + 1]
End(c, how) == patching' = [patching EXCEPT ![c].at = how]
Reads(c) == At(c, "checking") \/ At(c, "applying")
Disturb(who) == alone' = alone \ {d \in Callers \ who : Reads(d)}

-----------------------------------------------------------------------------
(* What an operation does to a content, or that it cannot be made.         *)
Effect(o, content) ==
  CASE o.type = "create" -> IF content = Absent THEN {o.new} ELSE Impossible
    [] o.type = "update" -> IF content # Absent /\ o.old \in content
                            THEN (content \ {o.old}) \cup {o.new} ELSE Impossible
    [] o.type = "delete" -> IF content = Absent THEN Impossible ELSE Absent
    [] OTHER -> Impossible
(* The content the checks see: what the patch has made of it, or the file. *)
Seen(c, p) == IF staged[c][p] = Untouched THEN files[p] ELSE staged[c][p]

BeginPatch(c, patch) ==
  /\ At(c, "unused") /\ patch # <<>>
  /\ patching' = [patching EXCEPT ![c] = [at |-> "checking", patch |-> patch, next |-> 1]]
  /\ before' = [before EXCEPT ![c] = files]
  /\ UNCHANGED <<files, staged, steps, temps, alone, outside>>

(* Fault: each operation is made as soon as it was checked.                *)
CheckAndMake(c) ==
  /\ At(c, "checking") /\ More(c)
  /\ LET o == Current(c) body == Effect(o, Seen(c, o.path))
     IN  IF body = Impossible
         THEN End(c, "refused") /\ UNCHANGED <<staged, steps, files>>
         ELSE /\ Advance(c)
              /\ staged' = [staged EXCEPT ![c][o.path] = body]
              /\ steps' = [steps EXCEPT ![c] = Append(@, body)]
              /\ files' = [files EXCEPT ![o.path] = body]
  /\ UNCHANGED <<temps, before, alone, outside>>
Check(c) ==
  /\ At(c, "checking") /\ More(c)
  /\ LET o == Current(c) body == Effect(o, Seen(c, o.path))
     IN  IF body = Impossible
         THEN End(c, "refused") /\ UNCHANGED <<staged, steps>>
         ELSE /\ Advance(c)
              /\ staged' = [staged EXCEPT ![c][o.path] = body]
              /\ steps' = [steps EXCEPT ![c] = Append(@, body)]
  /\ UNCHANGED <<files, temps, before, alone, outside>>
Checked(c) ==
  /\ At(c, "checking") /\ ~More(c)
  /\ patching' = [patching EXCEPT ![c].at = "applying", ![c].next = 1]
  /\ UNCHANGED <<files, staged, steps, temps, before, alone, outside>>

-----------------------------------------------------------------------------
(* atomicWriteFile and removeWorkspaceFile.                                *)
Writes(o) == o.type \in {"create", "update"}

WriteTemp(c) ==
  /\ At(c, "applying") /\ More(c) /\ Writes(Current(c)) /\ c \notin temps
  /\ temps' = temps \cup {c}
  /\ UNCHANGED <<files, patching, staged, steps, before, alone, outside>>
Rename(c) ==
  /\ c \in temps /\ At(c, "applying")
  /\ files' = [files EXCEPT ![Current(c).path] = steps[c][patching[c].next]]
  /\ temps' = temps \ {c} /\ Advance(c) /\ Disturb({c})
  /\ UNCHANGED <<staged, steps, before, outside>>
RemoveFile(c) ==
  /\ At(c, "applying") /\ More(c) /\ ~Writes(Current(c))
  /\ IF files[Current(c).path] = Absent
     THEN End(c, "failed") /\ UNCHANGED <<files, alone, outside>>
     ELSE /\ files' = [files EXCEPT ![Current(c).path] = Absent]
          /\ Advance(c) /\ Disturb({c})
  /\ UNCHANGED <<staged, steps, temps, before, outside>>
(* An error of the file system; the temporary file is removed on the way.  *)
FailWrite(c) ==
  /\ At(c, "applying") /\ More(c)
  /\ End(c, "failed") /\ temps' = temps \ {c}
  /\ UNCHANGED <<files, staged, steps, before, alone, outside>>
FinishPatch(c) ==
  /\ At(c, "applying") /\ ~More(c) /\ End(c, "applied")
  /\ UNCHANGED <<files, staged, steps, temps, before, alone, outside>>
(* The worker dies, or its answer is lost; applyPatchSandboxed says that   *)
(* the patch was denied.                                                   *)
Kill(c) ==
  /\ Reads(c) /\ End(c, "killed")
  /\ UNCHANGED <<files, staged, steps, temps, before, alone, outside>>

(* A command or the user replaces, creates or removes a file.              *)
Interfere(p, content) ==
  /\ content # files[p] /\ outside < MaxOutside /\ outside' = outside + 1
  /\ files' = [files EXCEPT ![p] = content]
  /\ Disturb({})
  /\ UNCHANGED <<patching, staged, steps, temps, before>>

EditsNext ==
  \/ \E c \in Callers :
       \/ \E patch \in Patches : BeginPatch(c, patch)
       \/ Check(c) \/ Checked(c) \/ WriteTemp(c) \/ Rename(c) \/ RemoveFile(c)
       \/ FailWrite(c) \/ FinishPatch(c) \/ Kill(c)
  \/ \E p \in Paths, content \in {Absent, {"theirs"}} : Interfere(p, content)
EditsSpec == EditsInit /\ [][EditsNext]_evars

-----------------------------------------------------------------------------
(* Properties.                                                             *)

(* What the first n operations of a call leave at p: what the last of them *)
(* that is on p writes, or what was there when the call began.             *)
After(c, n, p) ==
  LET on == {i \in 1..n : patching[c].patch[i].path = p}
  IN  IF on = {} THEN before[c][p] ELSE steps[c][CHOOSE i \in on : \A j \in on : j <= i]
Made(c) == IF At(c, "applying") THEN patching[c].next - 1 ELSE 0

(* Unless somebody else wrote meanwhile, the files hold exactly the first  *)
(* operations of the patch at every moment, also after an error or the end *)
(* of the worker: nothing is out of order and nothing is made twice.       *)
PatchIsAPrefix ==
  \A c \in alone : Reads(c) => files = [p \in Paths |-> After(c, Made(c), p)]

(* Unless somebody else wrote meanwhile, each content that a patch will    *)
(* write is what its operation makes of what those before it leave, it is  *)
(* refused only for an operation that could not be made after them, and it *)
(* is made only if all of them can.                                        *)
RefusedForAReason ==
  \A c \in alone :
    LET Makes(i) == LET o == patching[c].patch[i] IN Effect(o, After(c, i - 1, o.path))
    IN  /\ \A i \in DOMAIN steps[c] : steps[c][i] = Makes(i) /\ steps[c][i] # Impossible
        /\ At(c, "refused") => Makes(patching[c].next) = Impossible
        /\ At(c, "applying") => Len(steps[c]) = Len(patching[c].patch)

(* A temporary file outlives its call only when the worker died: an error  *)
(* removes it on the way.                                                  *)
TempsAreRemoved == \A c \in temps : At(c, "applying") \/ At(c, "killed")

(* All of these: what a patch leaves and says, and what it takes away.     *)
PatchesAreSound == PatchIsAPrefix /\ RefusedForAReason /\ TempsAreRemoved
=============================================================================
