\* One browser tab reading the book; clicks land on the link text and
\* every click navigates in this tab.
CONSTANTS
  Toc <- BookToc
  View = 5
  ClickTargets = {"A"}
  StrayClicks = FALSE
  NoValue = NoValue

SPECIFICATION Spec

INVARIANT TypeOK
INVARIANT ActiveMarksCurrentPage
PROPERTY SidebarNavKeepsScroll
PROPERTY ButtonNavCentersActive
