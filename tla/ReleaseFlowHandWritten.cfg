\* bump changelog on a changelog written by hand, with two blank lines
\* between paragraphs: is the old content kept as it was?
CONSTANTS
  MaxVersion = 1
  MaxCommits = 3
  Create = FALSE
  Force = FALSE
  Sep = 1
  InitialChangelog <- HandChangelogs
  NoFile = NoFile
  None = None
  MaxRuns = 1

SPECIFICATION Spec

PROPERTY ChangelogKeepsOldContent

CHECK_DEADLOCK FALSE
