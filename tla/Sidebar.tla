------------------------------- MODULE Sidebar -------------------------------
(***************************************************************************)
(* The book's sidebar web component (src/docs/book/toc.js): the custom      *)
(* element <mdbook-sidebar-scrollbox>, whose connectedCallback runs on      *)
(* every page load of one browser tab.                                       *)
(*                                                                         *)
(* The callback fills the element with the table of contents, marks the    *)
(* link of the current page active and expands the items around it, and    *)
(* then positions the sidebar's scrollTop.  There are two cases.           *)
(*   - A scroll position saved in sessionStorage by a click in the sidebar  *)
(*     on the previous page is restored.                                   *)
(*   - Otherwise the active link is scrolled to the centre.                *)
(*                                                                         *)
(* Table of contents: the <li> items of the <ol class="chapter"> of line   *)
(* 11, after HTML parsing (an <li> start tag closes the open <li>, so the  *)
(* list is flat).  An item is one of:                                      *)
(*   - a "link" (li.chapter-item holding <a>, with a <strong> number when  *)
(*     numbered);                                                          *)
(*   - a "spacer" (an empty li.chapter-item.affix);                        *)
(*   - a "part" (li.part-title).                                           *)
(* A link's href is a path relative to the book root: a directory          *)
(* sequence and a file name.                                               *)
(*                                                                         *)
(* Scroll positions are counted in items: item i sits at row i - 1, and    *)
(* the sidebar shows View rows.                                            *)
(***************************************************************************)
EXTENDS Naturals, Sequences, FiniteSets, FiniteSetsExt

CONSTANTS
  Toc,          \* the items of the table of contents, in document order
  View,         \* rows visible in the sidebar
  ClickTargets, \* elements a click in the sidebar may land on: "A", "STRONG"
  StrayClicks,  \* TRUE: a click on a link may save the scroll position
                \* without the navigation following in this tab (a
                \* ctrl-click that opens a new tab)
  NoValue       \* sessionStorage.getItem of a missing key (null)

ASSUME View \in Nat \ {0} /\ View <= Len(Toc)
ASSUME ClickTargets \subseteq {"A", "STRONG"} /\ StrayClicks \in BOOLEAN

Links         == {i \in 1..Len(Toc) : Toc[i].kind = "link"}
ChapterItems  == {i \in 1..Len(Toc) : Toc[i].kind \in {"link", "spacer"}}
FirstLink     == Min(Links)
MaxScroll     == Len(Toc) - View
Positions     == 0..MaxScroll
Suffixes      == {"", "#", "?"}   \* nothing, a #fragment or a ?query

\* A page of the book: the chapters, and the root index.html that aliases
\* the first chapter.
Page(i)  == [dir |-> Toc[i].dir, file |-> Toc[i].name]
Pages    == {Page(i) : i \in Links} \cup {[dir |-> <<>>, file |-> "index.html"]}

\* document.location: a page, or the root directory URL, with a suffix.
Locations ==
  {[dir |-> p.dir, file |-> p.file, suffix |-> s] : p \in Pages, s \in Suffixes}
    \cup {[dir |-> <<>>, file |-> "", suffix |-> s] : s \in Suffixes}

VARIABLES
  loc,         \* document.location of the tab
  loaded,      \* connectedCallback has run for the current page load
  nav,         \* how the current page was reached: "sidebar", "button"
               \* (next/previous chapter) or "direct" (URL, bookmark)
  storage,     \* sessionStorage 'sidebar-scroll', or NoValue
  scrollTop,   \* the sidebar element's scrollTop
  active,      \* links with class "active"
  expanded,    \* items with class "expanded"
  clickScroll  \* scrollTop when the last sidebar link was clicked

vars == <<loc, loaded, nav, storage, scrollTop, active, expanded, clickScroll>>

-----------------------------------------------------------------------------
(* The parts of connectedCallback.                                         *)

\* Lines 13-16: the URL without "#..." and "?...", and "index.html"
\* appended when it ends with "/".
CurrentPage(l) == [dir |-> l.dir, file |-> IF l.file = "" THEN "index.html" ELSE l.file]

\* The page's global path_to_root: one "../" per directory level.
PathToRoot(l) == Len(l.dir)

\* Resolving the relative URL made of `ups` times "../" and a root-relative
\* path, against the directory `base`.
Resolve(base, ups, path) ==
  [dir |-> SubSeq(base, 1, Len(base) - ups) \o path.dir, file |-> path.file]

\* Plausible fault of LinkHref: the href is not prefixed with path_to_root.
LinkHrefNoRoot(i, l) == Resolve(l.dir, 0, Page(i))

\* Lines 21-24: link.href after `link.href = path_to_root + href`.  Every
\* href of line 11 is relative, so the guard of line 22 holds for all.
LinkHref(i, l) == Resolve(l.dir, PathToRoot(l), Page(i))

\* Line 26: the link of the current page, or the first link when the page
\* is the root index.html, which aliases the first chapter.
IsActive(i, l) ==
  \/ LinkHref(i, l) = CurrentPage(l)
  \/ i = FirstLink /\ PathToRoot(l) = 0 /\ CurrentPage(l).file = "index.html"

ActiveLinks(l) == {i \in Links : IsActive(i, l)}

\* Lines 27-39: the active link's <li> is expanded; walking up, every
\* <li> ancestor's previous sibling that is a chapter-item is expanded.
\* In the flat list of line 11 the only <li> ancestor is the link's own.
ExpandedBy(i) == {i} \cup (IF i - 1 \in ChapterItems THEN {i - 1} ELSE {})

\* Plausible fault of StoredTruthy: the stored scroll taken as a number,
\* so a saved position 0 counts as nothing saved.
NumberTruthy(s) == s # NoValue /\ s # 0

\* Line 50: `if (sidebarScrollTop)`.  getItem returns the string written by
\* setItem, e.g. "0", and every non-empty string is truthy.
StoredTruthy(s) == s # NoValue

\* Plausible fault of AfterRead: the item is not removed.
KeepItem(s) == s

\* Line 49: sessionStorage.removeItem('sidebar-scroll') after the read.
AfterRead(s) == NoValue

\* Plausible fault of Centered: the position is not clamped.
CenteredUnclamped(i) == i - 1 - View \div 2

\* Line 57: scrollIntoView({block: 'center'}) on item i, clamped by the
\* browser to the scroll range.
Centered(i) ==
  LET want == i - 1 - View \div 2
  IN  IF want < 0 THEN 0 ELSE IF want > MaxScroll THEN MaxScroll ELSE want

\* Line 44: the click handler saves the scroll only when the click's
\* target element is the <a> itself.
SavesScroll(target) == target = "A"

\* The elements of link i a click can land on: the <a>, and the <strong>
\* number inside it when the chapter is numbered.
TargetsOf(i) == IF Toc[i].numbered THEN {"A", "STRONG"} ELSE {"A"}

-----------------------------------------------------------------------------

Init ==
  /\ loc \in Locations
  /\ loaded = FALSE
  /\ nav = "direct"
  /\ storage = NoValue
  /\ scrollTop = 0
  /\ active = {}
  /\ expanded = {}
  /\ clickScroll = 0

\* Line 70: customElements.define upgrades the page's
\* <mdbook-sidebar-scrollbox>, already in the document, so its
\* connectedCallback runs once for each page load and not again until the
\* tab loads another page.
Upgraded == ~loaded

\* connectedCallback (lines 10-68) on a page load.
\* - Line 11: innerHTML replaces every item, so the classes are those of
\*   line 11, where every chapter-item is already "expanded".
\* - Lines 12-41: the active link is marked.
\* - Lines 48-59: the saved scroll is read, removed, and restored if set;
\*   otherwise the first active link is centred.
\* - Lines 61-67: no element of line 11 matches '#sidebar a.toggle', so no
\*   toggle listener is attached.
Load ==
  /\ Upgraded
  /\ LET act   == ActiveLinks(loc)
         saved == storage
     IN  /\ active' = act
         /\ expanded' = ChapterItems \cup UNION {ExpandedBy(i) : i \in act}
         /\ storage' = AfterRead(saved)
         /\ scrollTop' = IF StoredTruthy(saved) THEN saved
                         ELSE IF act # {} THEN Centered(Min(act)) ELSE 0
  /\ loaded' = TRUE
  /\ UNCHANGED <<loc, nav, clickScroll>>

\* The click listener (lines 43-47) on a click in the sidebar on link i,
\* followed by the browser's navigation to the link, unless the click
\* opens the link elsewhere.
Click(i, target) ==
  /\ loaded
  /\ storage' = IF SavesScroll(target) THEN scrollTop ELSE storage
  /\ \E stray \in IF StrayClicks THEN BOOLEAN ELSE {FALSE} :
       IF stray
         THEN UNCHANGED <<loc, loaded, nav, clickScroll>>
         ELSE /\ loc' = [dir |-> Toc[i].dir, file |-> Toc[i].name, suffix |-> ""]
              /\ loaded' = FALSE
              /\ nav' = "sidebar"
              /\ clickScroll' = scrollTop
  /\ UNCHANGED <<scrollTop, active, expanded>>

\* The user scrolls the sidebar.
Scroll(p) ==
  /\ loaded
  /\ scrollTop' = p
  /\ UNCHANGED <<loc, loaded, nav, storage, active, expanded, clickScroll>>

\* The page's next/previous chapter buttons (outside the sidebar): the
\* neighbouring chapter of the page shown.
Shown(l) == IF CurrentPage(l) = [dir |-> <<>>, file |-> "index.html"]
              THEN FirstLink ELSE CHOOSE i \in Links : Page(i) = CurrentPage(l)
Neighbours(k) ==
  {j \in Links : \/ j = Min({m \in Links : m > k} \cup {Len(Toc) + 1})
                 \/ j = Max({m \in Links : m < k} \cup {0})}

Button ==
  /\ loaded
  /\ \E j \in Neighbours(Shown(loc)) :
       loc' = [dir |-> Toc[j].dir, file |-> Toc[j].name, suffix |-> ""]
  /\ loaded' = FALSE
  /\ nav' = "button"
  /\ UNCHANGED <<storage, scrollTop, active, expanded, clickScroll>>

\* The user opens a URL of the book in the tab (typed, bookmarked, back).
Direct ==
  /\ loaded
  /\ \E l \in Locations : loc' = l
  /\ loaded' = FALSE
  /\ nav' = "direct"
  /\ UNCHANGED <<storage, scrollTop, active, expanded, clickScroll>>

Next ==
  \/ Load
  \/ \E i \in Links : \E t \in TargetsOf(i) \cap ClickTargets : Click(i, t)
  \/ \E p \in Positions : Scroll(p)
  \/ Button
  \/ Direct

Spec == Init /\ [][Next]_vars

-----------------------------------------------------------------------------

TypeOK ==
  /\ loc \in Locations
  /\ loaded \in BOOLEAN
  /\ nav \in {"sidebar", "button", "direct"}
  /\ storage \in Positions \cup {NoValue}
  /\ scrollTop \in Positions
  /\ active \subseteq Links
  /\ expanded \subseteq ChapterItems
  /\ clickScroll \in Positions

\* The page a location shows, stated without URLs: the chapter whose path
\* it names, whatever its #fragment or ?query; the root index.html, and the
\* root directory URL, show the first chapter.
ShownChapters(l) ==
  {i \in Links : \/ Page(i) = [dir |-> l.dir, file |-> l.file]
                 \/ i = FirstLink /\ l.dir = <<>> /\ l.file \in {"", "index.html"}}

\* After connectedCallback, the links marked active are exactly the links
\* to the page shown, on every page of every directory level: the
\* path_to_root prefix (line 23), the URL clean-up (lines 13-16) and the
\* index alias (line 26) together resolve each href to the current page.
ActiveMarksCurrentPage == loaded => active = ShownChapters(loc)

\* "preserve sidebar scroll position when navigating via links within
\* sidebar" (line 51): the page loaded after a click on a sidebar link
\* shows the sidebar scrolled as it was at the click.
SidebarNavKeepsScroll ==
  [][(Load /\ nav = "sidebar") => scrollTop' = clickScroll]_vars

\* "scroll sidebar to current active section when navigating via
\* next/previous chapter buttons" (line 54): the page loaded after a
\* button shows its active link centred, whatever was clicked before.
ButtonNavCentersActive ==
  [][(Load /\ nav = "button") => scrollTop' = Centered(Min(active'))]_vars

=============================================================================
