SPECIFICATION RepositorySpec
CONSTANTS
  p1 = p1
  p2 = p2
  r1 = r1
  r2 = r2
  a = a
  b = b
  c = c
  d = d
  f = f
  x = x
  root = root
  doc = doc
  da = da
  db = db
  dc = dc
  dd = dd
  u = u
  v = v
  Paths = {1, 2, 3, 4}
  Directory <- FileFolders
  TopDirectory = 0
  Flat <- BaseNames
  Contents = {"x", "y"}
  NoFile = NoFile
  Bundles <- SomeBundles
  MaxFileFaults = 2
  RestoreAttempts = 2
  Provisioners = {p1, p2}
  WorkspaceIds = {1, 2, 3}
  PriorIds = {1}
  Urls = {"https", "ssh", "other"}
  NoUrl = "none"
  RepositoryOf <- Spelling
  Url <- SameUrl
  Provisions <- SomeProvisions
  MaxProvFaults = 1
  Nodes = {a, f, c, x}
  Tree <- TheTree
  FolderOf <- Folders
  RootFolder = root
  CuratedIds = {1, 2, 3}
  CreateAttempts = 2
  DeleteRetries = 1
  MaxTreeFaults = 2
  MaxTreeRuns = 2
  DeltaItems = {f, a, b, c, d}
  DeltaFolders = {f}
  Top = Top
  ParentOf <- Parents
  KeyRank <- KeyOrder
  Snapshots <- Olds
  Targets <- News
  MaxOperations = 5
  MaxDeltaFaults = 2
  Linkers = {r1, r2}
  Linked = {1, 2}
  Asked <- Ask
  LockedRetries = 1
  SettleAttempts = 1
  MaxLinkFaults = 1
  Events <- SomeEvents
  CanonicalInput <- NoInput
  DefaultBranch <- MainName
  Channels <- ReleaseChannel
  Strategy = "preview"
  SlugMax = 3
  MaxBranchRuns = 3
  Trees = {1, 2, 3}
  MaxDiskFaults = 3
  MaxDiskRuns = 2
  Documents = {doc, da, db, dc, dd, u, v}
  LocalDocuments = {doc, da, db, dc, dd}
  Loads <- SomeLoads
  NoInventory = NoInventory
  MaxDepth = 2
  MaxFiles = 5
  MaxReferences = 6
  FetchAttempts = 2
  EcIds = {1, 2, 3, 4}
  EcTree <- EcDefinition
  MaxEcFaults = 3
  MaxEcRuns = 3
  Specs = {1, 2}
  NoSpec = 0
  Breaks <- SomeBreaks
  Redirects = 1
  MaxCheckFaults = 2
  MaxChecks = 2
  ApiDocuments <- OperationPairs
  Params = {"{x}", "{y}", "{s}"}
  Placeholder = ":"
  Value = "7"
  ExtraPath <- WebhookPath
  FixedBytes = 2
  ScriptLimit = 4
  MaxInjectFaults = 1
  RunInputs <- SomeInputs
  AssetIds = {1, 2, 3, 4}
  AssetRoles = {"baseline", "smoke"}
  CloudWorkspaces = {7, 8}
  HomeWorkspace = 7
  NoId = NoId
  Unseen = Unseen
  MaxIdentityRuns = 3
  MaxIdentityFaults = 1
  Finals = {1, 2, 3}
  Reconcilers = {r1, r2}
  DeleteAttempts = 1
  MaxDupFaults = 1
  j1 = j1
  j2 = j2
  Conversions = {j1, j2}
  Workloads <- BothWorkloads
  Definitions <- NamedSchemas
  Samples <- Draws
  RepairDepth = 8
  RepairExpansion = 4
  MaxConversionFaults = 1
  Layouts <- SomeLayouts
  LocalFiles = {1, 2, 3}
  LocalFolders = {10, 11, 12}
  CuratedRoot = 10
  OutsidePath = 99
  Titles <- TitleOf
  ViewRequest = "request"
  CloudIds = {1, 2, 3, 4}
  MaxSyncRuns = 1
  MaxSyncFaults = 1
  Manifests <- SomeManifests
  PageProbes = 2
  Contracts <- SomeContracts
  ShapeDepth = 2
  Misorders <- ClashingNames
  WrongFields <- SomeWrongs
CHECK_DEADLOCK FALSE
INVARIANTS DuplicatesAreSafe LinkingIsSafe LoadIsExact GeneratedIsSafe
PROPERTIES
  ReconcileIsSafe ProvisioningIsSafe CuratedIsSafe DeltaIsSafe
  BranchWritesAreSafe InstallIsSafe ContractIsSafe ChangeCheckIsSafe
  IdentityIsSafe
