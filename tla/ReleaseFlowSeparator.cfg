\* bump changelog with a separator of two newlines ('\n\n'): is a second
\* run over the same log and version a no-op?
CONSTANTS
  MaxVersion = 1
  MaxCommits = 3
  Create = FALSE
  Force = FALSE
  Sep = 2
  InitialChangelog <- ToolChangelogs
  NoFile = NoFile
  None = None
  MaxRuns = 2

SPECIFICATION Spec

PROPERTY ChangelogUpdateIdempotent

CHECK_DEADLOCK FALSE
