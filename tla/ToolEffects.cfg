CONSTANTS
  Loaders = {l1, l2}
  UserDocs <- MCUserDocs
  StarterDocs <- MCStarterDocs
  ProjectDocs <- MCProjectDocs
  TrustTables <- MCTrustTables
  Commands <- MCCommands
  Safe <- MCSafe
  ReadOnly = {"sort"}
  External <- MCExternal
  Programs = {"make"}
  Workspace = {"/w"}
  Hosts <- MCHosts
  Workspaces <- MCWorkspaces
  PathLists <- MCPathLists
  ToolVars <- MCToolVars
  Configured <- MCConfigured
  Patterns <- MCPatterns
  RuntimeRoots <- MCRuntimeRoots
  DefaultPath <- MCDefaultPath
  MaxChanges = 2
  Grace = 1
  Callers = {c1, c2}
  Paths = {"f", "g", "h"}
  Patches <- MCPatches
  Original <- MCOriginal
  MaxOutside = 1
SPECIFICATION Spec
INVARIANTS RulesAreFollowed WorkerIsConfined CommandIsSettled PatchesAreSound
PROPERTY CallReturns
CHECK_DEADLOCK FALSE
