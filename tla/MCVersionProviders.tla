------------------------ MODULE MCVersionProviders ------------------------
(***************************************************************************)
(* The NPM provider and a Files provider configured by Config.files for a  *)
(* source file with two patterns (the version constant and a doc comment). *)
(* The two tables name different files, as Config.files does in a project  *)
(* that lets the NPM provider handle package.json.                         *)
(***************************************************************************)
EXTENDS VersionProviders

\* NPM.getFiles (npm.ts:10-15): one pattern, the "version" key, for both
\* files, with flags 'mi' (no 'g').
NpmFiles ==
  <<[path |-> "package.json", regexes |-> <<"version">>],
    [path |-> "package-lock.json", regexes |-> <<"version">>]>>

\* Config.files = { 'src/version.ts': [[constant pattern, ...], [doc
\* comment pattern, ...]] }, with the default flags 'gmi'.
ConfigFiles ==
  <<[path |-> "src/version.ts", regexes |-> <<"const", "doc">>]>>

ConfigGlobal == {"const", "doc"}

\* The matches a pattern may find: none, one (a version, an unparsable one
\* or ""), or two, as a package-lock.json v2 holds the package's version
\* at the top and again under packages[""]: a stale second one, or a
\* second one behind an empty first.
MatchShapes ==
  {<<>>, <<0>>, <<Invalid>>, <<Blank>>, <<Blank, 1>>, <<0, 1>>}

Tables == [p \in {"npm", "files"} |-> IF p = "npm" THEN NpmFiles ELSE ConfigFiles]

=============================================================================
