CONSTANTS
  SkillRoots <- MCSkillRoots
  ConfigPaths <- MCConfigPaths
  JobsPath <- MCJobsPath
  LegacyCrons <- MCLegacyCrons
  JobsIn <- MCJobsIn
  FilePaths <- MCFilePaths
  PluginPaths <- MCPluginPaths
  AtFirst <- MCAtFirst
  Contents = {"a", "b"}
  Flagged = {"b"}
  MaxWrites = 2
  MaxMishaps = 1
SPECIFICATION FairSpec
INVARIANTS ManifestMatchesLog HashesChain InventoryRight
PROPERTY ConfigRecorded
CHECK_DEADLOCK FALSE
