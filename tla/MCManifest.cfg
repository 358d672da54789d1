SPECIFICATION Spec
CONSTANTS
  NULL = NULL
  OwnIds = {NULL, "", "a"}
  ReleaseIds = {NULL, "", "default", "a", "b"}
  FileDocs <- MCFileDocs
  FileTypes = {"rauc_bundle", "swu"}
  MaxReleases = 2
  MaxFiles = 2
INVARIANTS
  SelectionRule
  FileRule
PROPERTY OthersDoNotMatter
