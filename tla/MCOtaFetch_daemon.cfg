SPECIFICATION Spec
CONSTANTS
  NULL = NULL
  NoFile = NoFile
  Partial = Partial
  Torn = Torn
  Factory = Factory
  m1 = m1
  m2 = m2
  s1 = s1
  s2 = s2
  c1 = c1
  c2 = c2
  b1 = b1
  b2 = b2
  b3 = b3
  DataFile <- MCDataFile
  SigFile <- MCSigFile
  CertFile <- MCCertFile
  Bundles <- MCBundles
  Filenames <- MCFilenames
  Paths <- MCPaths
  manifest_ca <- MCCa
  InitServers <- MCInitServers
  Publishable <- MCUpgrade
  device_id = "dev"
  Modes = {TRUE}
  retry_attempts = 2
  OrphansSurvive = FALSE
  MaxPublish = 3
  MaxFaults = 2
INVARIANTS
  CurrentWasApplied
  OnlyValidatedInstalled
  LoadedIsVerified
  UsesOwnFiles
  RaucOpensListed
  UpToDateMeansInstalled
PROPERTIES
  OldManifestKeptUntilApplied
  ImplementsLedger
