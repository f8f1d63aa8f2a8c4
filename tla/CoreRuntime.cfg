SPECIFICATION Spec
CONSTANTS
  Principals <- MCPrincipals
  FileOf <- MCFileOf
  Permissions = {"x"}
  OptIn = {"x"}
  Core = {}
  Convention <- MCConvention
  Handled = {}
  HostAllowed = FALSE
  MaxFaults = 1
  Flows = {"A", "B", "C"}
  Chains = {"c1", "c2"}
  Steps <- MCSteps
  MaxConcurrent = 2
  Workers = 4
  MaxDepth = 2
  Pipelines <- MCPipelines
  Calls = {x, y}
  Ways = {"file", "phase", "lib"}
  MaxKillFails = 1
  Pids = {1, 2, 3}
  MaxAutoRestarts = 3
  None = None
  Files <- MCFiles
  LoadPacks = {"p"}
  Wildcards = {}
  Every = "*"
  MaxLoads = 2
  Phases <- MCPhases
  StepIds = {1, 2, 3}
  Parsed <- MCParsed
  BaseSteps <- MCBaseSteps
  PhaseCount = 2
  Modifiers = {1, 2}
  OfferedMods <- MCOfferedMods
  FirstStep = 98
  LastStep = 99
  Composers = 2
  Requires <- MCRequires
  Pipeline <- MCPipeline
  Injected = 9
  Targets = {{1}, {2, 9}, {3}}
  Wraps = {{1, 3}, {2}, {2, 9}}
  MaxModifications = 3
  Bundles <- MCBundles
  ImpPacks = {"p", "q"}
  Stagings = {2, 3}
  MaxSeconds = 1
  MaxImpFaults = 1
  Terms = {1, 2, 3, 4}
  PackVocab <- MCPackVocab
  Loaders = {1, 2}
  MaxGroups = 3
  Manifests <- MCManifests
  CorePacks = {}
  ProtectedAliases = {"core.y"}
  Dirs <- MCDirs
  TypeOf <- MCTypeOf
  OrderPacks = {1, 2, 3}
  Needs <- MCNeeds
  Candidates <- MCCandidates
  Patched = "x"
  Addons <- MCAddons
  ManifestKeys = {"j", "k", "m", "n"}
  BaseManifest <- MCBaseManifest
  AllowedKeys = {"j", "k", "m"}
  Switched = {"x", "a"}
  MaxApplied = 2
  MaxEcoFaults = 1
INVARIANTS CoreTypeOK NoOtherKernel DeniedStaysDenied ChainsAreSimple NothingLeft FlowsBuilt PacksKept RegistriesSound
PROPERTIES CallsEnd KernelRestarts
CHECK_DEADLOCK FALSE
