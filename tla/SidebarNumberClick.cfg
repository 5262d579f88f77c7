\* Clicks may land on the <strong> chapter number inside a link: is the
\* scroll position kept across the navigation?
CONSTANTS
  Toc <- BookToc
  View = 5
  ClickTargets = {"A", "STRONG"}
  StrayClicks = FALSE
  NoValue = NoValue

SPECIFICATION Spec

PROPERTY SidebarNavKeepsScroll
