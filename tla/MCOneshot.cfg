SPECIFICATION Spec
CONSTANTS
  NULL = NULL
  NoFile = NoFile
  Partial = Partial
  Torn = Torn
  Factory = Factory
  mTest = mTest
  mRauc = mRauc
  mUnsupported = mUnsupported
  mUpper = mUpper
  mIncomplete = mIncomplete
  mNoFiles = mNoFiles
  mOther = mOther
  mText = mText
  mForged = mForged
  cert = cert
  forged = forged
  b = b
  DataFile <- MCDataFile
  SigFile <- MCSigFile
  CertFile <- MCCertFile
  Bundles <- MCBundles
  Filenames <- MCFilenames
  Paths <- MCPaths
  manifest_ca <- MCCa
  InitServers <- MCInitServers
  Publishable <- MCPublishable
  device_id = "dev"
  Modes = {FALSE}
  retry_attempts = 2
  OrphansSurvive = FALSE
  MaxPublish = 2
  MaxFaults = 1
INVARIANTS
  TypeOK
  CurrentWasApplied
PROPERTIES
  ExitZeroMeansCurrent
  RetryBudget
