------------------------------ MODULE MCSidebar ------------------------------
(***************************************************************************)
(* The table of contents of toc.js line 11, with fewer chapters per part.  *)
(* It keeps every kind of item and position the script meets:             *)
(*   - the unnumbered Introduction at the root, first;                      *)
(*   - an empty affix spacer and a part title before each part;            *)
(*   - numbered chapters in the guide/, tutorial/, cli/ and specs/         *)
(*     directories;                                                         *)
(*   - a part with two chapters and parts with one.                        *)
(***************************************************************************)
EXTENDS Sidebar

Link(d, n, numbered) == [kind |-> "link", dir |-> d, name |-> n, numbered |-> numbered]
Spacer == [kind |-> "spacer", dir |-> <<>>, name |-> "", numbered |-> FALSE]
Part   == [kind |-> "part", dir |-> <<>>, name |-> "", numbered |-> FALSE]

BookToc ==
  << Link(<<>>, "introduction.html", FALSE),
     Spacer, Part,
     Link(<<"guide">>, "requirements.html", TRUE),
     Link(<<"guide">>, "installation.html", TRUE),
     Spacer, Part,
     Link(<<"tutorial">>, "robust04.html", TRUE),
     Spacer, Part,
     Link(<<"cli">>, "invert.html", TRUE),
     Link(<<"cli">>, "lexicon.html", TRUE),
     Spacer, Part,
     Link(<<"specs">>, "lookup-table.html", TRUE) >>
=============================================================================
