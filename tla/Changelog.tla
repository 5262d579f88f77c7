------------------------------ MODULE Changelog ------------------------------
(***************************************************************************)
(* The changelog provider's content functions (providers/changelog/       *)
(* file.ts): rendering a section, the blank-line clean-up done by          *)
(* Changelog.write, and the duplicate-section guard of section.add.        *)
(*                                                                         *)
(* A changelog is a sequence of lines, each ending in a newline.  A line  *)
(* is a version header, the entry of one commit, a blank line, or a line  *)
(* of hand-written text.  With the default templates ('### Version        *)
(* [version]', '- [message]') a header carries the version and an entry   *)
(* the commit; the separator template is Sep newlines, i.e. Sep blank     *)
(* lines after the section.                                                *)
(***************************************************************************)
EXTENDS Naturals, Sequences, SequencesExt

CONSTANT Sep   \* number of newlines in Config.changelog.separator

ASSUME Sep \in Nat

Blank      == <<"blank">>
Header(v)  == <<"header", v>>
Entry(id)  == <<"entry", id>>
Text(n)    == <<"text", n>>

\* Plausible faults of the code below; each is detected by a property.
DropAllBlanks(L) == SelectSeq(L, LAMBDA l : l # Blank)

\* A commit record is [id, version, kind, msg]; kind "merge" stands for a
\* message matching /^(Merge PR|Merge pull request|Merge branch) /i.
Listed(c, flagged) == c.id \notin flagged /\ c.kind # "merge"

\* section.render(version, commits): the header, then one entry per commit,
\* oldest first (commits.reverse()), skipping commits flagged isBump and
\* merge commits, then the separator.
Render(version, commits, flagged) ==
  LET kept == Reverse(SelectSeq(commits, LAMBDA c : Listed(c, flagged)))
  IN  <<Header(version)>>
        \o [i \in 1..Len(kept) |-> Entry(kept[i].id)]
        \o [i \in 1..Sep |-> Blank]

\* Changelog.write: content.replace(/^(\s*\r?\n){2,}/gm, '\n') and then
\* .replace(/(\s*\r?\n){2,}$/gm, '\n').  With the m flag ^ and $ match at
\* every line, so every run of blank lines shrinks to one blank line, and
\* blank lines at the end of the file disappear.
Normalize(L) ==
  LET trailing(i) == \A j \in i..Len(L) : L[j] = Blank
      dropped(i)  == L[i] = Blank /\ ((i > 1 /\ L[i - 1] = Blank) \/ trailing(i))
      keep        == SelectSeq([i \in 1..Len(L) |-> i], LAMBDA i : ~dropped(i))
  IN  [k \in 1..Len(keep) |-> L[keep[k]]]

\* A plausible fault of StartsWith: testing the end of the file.
EndsWith(content, section) == IsSuffix(section, content)

\* section.add's duplicate guard: content.startsWith(section).  Every
\* section ends with a newline, so a string prefix is a prefix of lines.
StartsWith(content, section) == IsPrefix(section, content)

=============================================================================
