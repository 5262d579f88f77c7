\* bump, bump changelog and developer commits with the default templates
\* (one blank line after each section), prompts answered either way.
CONSTANTS
  MaxVersion = 2
  MaxCommits = 4
  Create = FALSE
  Force = FALSE
  Sep = 1
  InitialChangelog <- ToolChangelogs
  NoFile = NoFile
  None = None
  MaxRuns = 3

SPECIFICATION Spec

INVARIANT TypeOK
PROPERTY ChangelogUpdateIdempotent
PROPERTY ChangelogKeepsOldContent

\* Every process ends and the developer stops after MaxRuns processes and
\* MaxCommits commits: the final states are the ends of the scenario.
CHECK_DEADLOCK FALSE
