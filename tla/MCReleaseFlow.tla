---------------------------- MODULE MCReleaseFlow ----------------------------
(***************************************************************************)
(* Model-checking instance of ReleaseFlow.                                 *)
(***************************************************************************)
EXTENDS ReleaseFlow

\* Changelog files the tool itself could have written before the first run
\* (one section for the root commit), an empty file, or no file.
ToolChangelogs == {NoFile, <<>>, <<Header(0), Entry(1)>>}

\* A hand-written changelog whose paragraphs are separated by two blank
\* lines.
HandChangelogs == {<<Text(1), Blank, Blank, Text(2)>>}

=============================================================================
