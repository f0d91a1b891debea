CONSTANTS
  DayLength = 4
  MaxChanges = 50
  Policies <- MCPolicies
  Items <- MCItems
  CaptureTimes <- MCCaptureTimes
  EvidenceOf <- MCEvidenceOf
  DefaultLimit = 3
  MaxLimit = 5
  MaxTimelineCaptures = 3
  Chronologies <- MCChronologies
  Queries <- MCQueries
  MaxItems = 2
  MaxEntries = 2
  MaxRefs = 3
  StateClasses <- MCStateClasses
  Captures <- MCCaptures
  EvidenceClasses <- MCEvidenceClasses
  Graphs <- MCGraphs
  UpdatePlans <- MCUpdatePlans
  Manifests <- MCManifests
  MaxTrail = 9
  PlanRequests <- MCPlanRequests
  PlanContexts <- MCPlanContexts
  Registries <- MCRegistries
  MaxListLimit = 8
  DefaultListLimit = 3
  MaxTerms = 3
  MaxSegment = 3
  MaxNotes <- MCNotes
  DefaultNotes <- MCDefaultNotes
  Configs <- MCConfigs
  SettingsOverrides <- MCSettingsOverrides
  Options <- MCOptions
  MaxRedirects = 2
  LowRemaining = 2
  MaxBody = 3
  MaxNoteBody <- MCNoteBody
  MaxCombined <- MCCombined
  GitHubRequests <- MCGitHubRequests
  MaxObservations = 2
  MaxDepth = 3
  Worlds <- MCWorlds
  MaxInteger = 1000
  Spelling <- MCSpelling
  CommandLines <- MCCommandLines
  RunLines <- MCRunLines
  CommandWorlds <- MCCommandWorlds
  MaxSnapshots = 2
  Cites <- MCCites
  MemoryRequests <- MCMemoryRequests
  MemoryStores <- MCMemoryStores
  MemoryWorlds <- MCMemoryWorlds
  DefaultShown = 3
  MaxAttached <- MCMaxAttached
  ToolCalls <- MCToolCalls
  OldChanges <- MCOldChanges
  MaxRisks = 4
  MaxTasks = 3
  MaxSectionItems = 3
  MaxDrafts = 2
  SkillInputs <- MCSkillInputs
  PackageInputs <- MCPackageInputs
  Disks <- MCDisks
  Installations <- MCInstallations
  PackageUpdates <- MCPackageUpdates
  PackageRollbacks <- MCPackageRollbacks
  Faults <- MCFaults
  Edits <- MCEdits
  MaxCalls = 3
SPECIFICATION PackagesSpec
PROPERTIES
  ChangesAreHonest
  PagesAreComplete
  IdentityIsContent
  DecisionsAreSound
  SourcesAreHonest
  CommandsAreHonest
  ToolsAreHonest
  SignalsAreHonest
  InstallsAreHonest
CHECK_DEADLOCK FALSE
