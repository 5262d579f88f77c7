\* getCommitsBumps() with no limit, as Changelog.init calls it, and
\* getCommitsBumps(1), as the version command and Changelog.update call it.
\* Config.version.initial = '': commits without a version then read as '',
\* which `prevVersion || version` treats as unset; a non-empty initial
\* version behaves like v1 or v2.
CONSTANTS
  Versions = {v1, v2}
  Initial = Empty
  Empty = Empty
  Undefined = Undefined
  MaxCommits = 6
  PageSize = 2
  Limits <- CallerLimits

SPECIFICATION Spec

\* The walk returns; the state it returns in has no successor.
CHECK_DEADLOCK FALSE

INVARIANT TypeOK
INVARIANT LatestBumpExact
PROPERTY ImplementsWalk
