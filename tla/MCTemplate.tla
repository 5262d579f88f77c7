----------------------------- MODULE MCTemplate -----------------------------
(***************************************************************************)
(* The tokens of a changelog commit line (providers/changelog/file.ts,     *)
(* section.render), in the order of their object: version before message, *)
(* and message before hash.  The dates, hash4..8 and the author tokens     *)
(* sit in the same order and behave alike.                                 *)
(***************************************************************************)
EXTENDS Template

CommitTokens == <<"version", "message", "hash">>
PlainText    == {Lit("x")}
PlainValues  == PlainText
UserValues   == PlainText \cup {Ph("version"), Ph("hash")} \cup Dollar
=============================================================================
