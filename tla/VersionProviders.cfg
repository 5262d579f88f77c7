\* `bump` with an increment or an explicit version, the NPM provider and a
\* Config.files provider both supported or either alone.
CONSTANTS
  Providers = {"npm", "files"}
  Table <- Tables
  MaxVersion = 1
  Invalid = Invalid
  Blank = Blank
  Global <- ConfigGlobal
  Shapes <- MatchShapes
  NoFile = NoFile
  None = None
  Null = Null

SPECIFICATION Spec

\* The version command ends once every bump returned and every write landed.
CHECK_DEADLOCK FALSE

INVARIANT TypeOK
INVARIANT FilesHoldBumps
INVARIANT ReadsBackBump
