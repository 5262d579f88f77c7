\* `bump` in a repository without a changelog, creating it: is the new
\* changelog headed by the version being released?
CONSTANTS
  MaxVersion = 1
  MaxCommits = 3
  Create = TRUE
  Force = FALSE
  Sep = 1
  InitialChangelog <- ToolChangelogs
  NoFile = NoFile
  None = None
  MaxRuns = 1

SPECIFICATION Spec

PROPERTY ChangelogHeadsRelease

CHECK_DEADLOCK FALSE
