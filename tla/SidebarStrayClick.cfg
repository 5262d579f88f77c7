\* A click on a link may open it in another tab: is the active link still
\* centred after the next/previous chapter buttons?
CONSTANTS
  Toc <- BookToc
  View = 5
  ClickTargets = {"A"}
  StrayClicks = TRUE
  NoValue = NoValue

SPECIFICATION Spec

PROPERTY ButtonNavCentersActive
