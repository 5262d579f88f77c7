\* `bump` with the version command's write left pending: does every tag
\* name the version of the commit it points to?
CONSTANTS
  MaxVersion = 2
  MaxCommits = 4
  Create = FALSE
  Force = FALSE
  Sep = 1
  InitialChangelog <- ToolChangelogs
  NoFile = NoFile
  None = None
  MaxRuns = 2

SPECIFICATION Spec

INVARIANT ReleaseRecordsOneVersion

CHECK_DEADLOCK FALSE
