----------------------------- MODULE ReleaseFlow -----------------------------
(***************************************************************************)
(* The `bump` command (index.ts): the version, changelog, commit and tag   *)
(* commands run one after the other in one process, against a git         *)
(* repository, its working tree and its changelog file.                    *)
(*                                                                         *)
(* The version file is one package.json-like file holding one version;    *)
(* versions are 0..MaxVersion and semver.inc is the successor.  A commit   *)
(* records the version in the committed file, its kind ("dev", "merge"    *)
(* or "bump") and, for a bump commit, the version its message names.      *)
(* getCommitsBumps is not re-modelled here: BumpGrouping checks that it    *)
(* returns BumpWalk!Grouping (no limit) and BumpWalk!LatestBump (limit 1)  *)
(* of the versions of the log, which this module uses.                     *)
(*                                                                         *)
(* Files.updateVersion calls setContent without awaiting it, so the new    *)
(* version is written while the following commands already run: it is a   *)
(* pending write that lands at any later step, or is dropped when the      *)
(* process calls process.exit first.                                       *)
(***************************************************************************)
EXTENDS Naturals, Sequences, SequencesExt, Changelog

CONSTANTS
  MaxVersion,      \* versions are 0..MaxVersion; 0 is Config.version.initial
  MaxCommits,      \* bound on the length of the log
  Create,          \* Config.changelog.create
  Force,           \* Config.force
  InitialChangelog,\* possible changelog files before the first run
  NoFile,          \* the changelog file does not exist
  None,            \* no write pending
  MaxRuns          \* bound on the processes started (`bump`, `bump changelog`)

ASSUME MaxVersion \in Nat /\ MaxCommits \in Nat \ {0} /\ MaxRuns \in Nat
ASSUME Create \in BOOLEAN /\ Force \in BOOLEAN

Versions == 0..MaxVersion

VARIABLES
  history,    \* the git log, newest commit first
  disk,       \* the version in the working-tree version file
  pending,    \* the version an un-awaited setContent is writing, or None
  changelog,  \* the changelog file: NoFile or a sequence of lines
  tags,       \* git tags: [name |-> version, commit |-> commit id]
  pc,         \* step of the running bump process; "idle" when none runs
  read,       \* the version the commit command read with getVersion
  lastUpdate, \* <<history, disk>> seen by the last changelog command that
              \* took the update path, or None
  runs        \* processes started so far (bounded by MaxRuns)

vars == <<history, disk, pending, changelog, tags, pc, read, lastUpdate, runs>>

Walk == INSTANCE BumpWalk WITH
  Versions <- Versions, Initial <- 0, Empty <- None, MaxCommits <- MaxCommits,
  Limits <- {1}, log <- history, seen <- 0, result <- <<>>, flagged <- {},
  over <- FALSE, truncated <- FALSE, limit <- 1

\* getVersionByCommit for every commit of the log.
VersionLog == [i \in 1..Len(history) |-> history[i].version]

\* The commits of a bump, whose commits are positions in the log.
CommitsOf(b) == [j \in 1..Len(b.commits) |-> history[b.commits[j]]]

\* Ids of the commits getCommitsBumps() flags isBump.
Flagged == {history[p].id : p \in Walk!BumpCommits(VersionLog)}

-----------------------------------------------------------------------------
(* The changelog command: Changelog.update(repoPath, version).             *)

\* Changelog.init: render every bump of getCommitsBumps(), with its own
\* label, and write them; no bump at all exits with "No commits found".
InitOutcome ==
  LET G == Walk!Grouping(VersionLog)
  IN  IF G = <<>>
        THEN [file |-> NoFile, exit |-> TRUE]
        ELSE [file |-> Normalize(FlattenSeq(
                 [k \in 1..Len(G) |-> Render(G[k].version, CommitsOf(G[k]), Flagged)])),
              exit |-> FALSE]

\* Plausible fault of AddOutcome: the section is appended, not prepended.
AppendSection(section) ==
  CASE changelog = <<>> -> [file |-> changelog, exit |-> TRUE]
    [] StartsWith(changelog, section) -> [file |-> changelog, exit |-> FALSE]
    [] OTHER -> [file |-> Normalize(changelog \o section), exit |-> FALSE]

\* section.add: an empty file exits with "Changelog missing"; a file that
\* already starts with the section is left alone.
AddOutcome(section) ==
  CASE changelog = <<>> -> [file |-> changelog, exit |-> TRUE]
    [] StartsWith(changelog, section) -> [file |-> changelog, exit |-> FALSE]
    [] OTHER -> [file |-> Normalize(section \o changelog), exit |-> FALSE]

\* The outcomes of Changelog.update(version); "do you want to create it?"
\* is answered either way.
UpdateOutcomes(version) ==
  IF changelog = NoFile
    THEN IF ~Create /\ Force THEN {[file |-> NoFile, exit |-> FALSE]}
         ELSE IF Create THEN {InitOutcome}
         ELSE {InitOutcome, [file |-> NoFile, exit |-> FALSE]}
    ELSE LET latest == Walk!LatestBump(VersionLog)
         IN  IF latest = <<>> THEN {[file |-> changelog, exit |-> FALSE]}
             ELSE {AddOutcome(Render(version, CommitsOf(latest[1]), {}))}

\* process.exit() abandons the pending write, which may or may not have
\* reached the disk.
ExitProcess ==
  /\ pc' = "idle"
  /\ \E lands \in BOOLEAN :
       /\ pending' = None
       /\ disk' = IF lands /\ pending # None THEN pending ELSE disk

-----------------------------------------------------------------------------

Init ==
  /\ history = <<[id |-> 1, version |-> 0, kind |-> "dev", msg |-> None]>>
  /\ disk = 0
  /\ pending = None
  /\ changelog \in InitialChangelog
  /\ tags = {}
  /\ pc = "idle"
  /\ read = None
  /\ lastUpdate = None
  /\ runs = 0

\* A developer commits (git commit -a) the working tree, version file
\* included; some commits are merges.
Develop ==
  /\ pc = "idle"
  /\ Len(history) < MaxCommits - 1
  /\ \E kind \in {"dev", "merge"} :
       history' = <<[id |-> Len(history) + 1, version |-> disk,
                     kind |-> kind, msg |-> None]>> \o history
  /\ UNCHANGED <<disk, pending, changelog, tags, pc, read, lastUpdate, runs>>

\* commands/version.ts as a whole: the new version is semver.inc of
\* getVersion() or any custom one the user types; "No changes detected, bump anyway?" is
\* answered yes (a no ends the process with nothing changed); every
\* provider's updateVersion starts the un-awaited write.
Version ==
  /\ pc = "idle"
  /\ Len(history) < MaxCommits
  /\ runs < MaxRuns
  /\ \E next \in Versions : pending' = next
  /\ pc' = "changelog"
  /\ runs' = runs + 1
  /\ UNCHANGED <<history, disk, changelog, tags, read, lastUpdate>>

\* Plausible fault of WriteLands: a write of an unset value lands.
WriteLandsAlways ==
  /\ disk' = pending
  /\ pending' = None
  /\ UNCHANGED <<history, changelog, tags, pc, read, lastUpdate, runs>>

\* The pending setContent reaches the disk.
WriteLands ==
  /\ pending # None
  /\ disk' = pending
  /\ pending' = None
  /\ UNCHANGED <<history, changelog, tags, pc, read, lastUpdate, runs>>

\* commands/changelog.ts: getVersion() reads the version file, then
\* Changelog.update; inside `bump` it is followed by the commit command,
\* run alone (`bump changelog`) the process ends.
ChangelogCmd ==
  /\ pc \in {"idle", "changelog"}
  /\ pc = "idle" => runs < MaxRuns
  /\ runs' = IF pc = "idle" THEN runs + 1 ELSE runs
  /\ \E out \in UpdateOutcomes(disk) :
       /\ changelog' = out.file
       /\ lastUpdate' = IF changelog = NoFile THEN None ELSE <<history, disk>>
       /\ IF out.exit
            THEN ExitProcess
            ELSE /\ pc' = IF pc = "changelog" THEN "commit" ELSE "idle"
                 /\ UNCHANGED <<disk, pending>>
  /\ UNCHANGED <<history, tags, read>>

\* commands/commit.ts: getVersion() for the message.
CommitRead ==
  /\ pc = "commit"
  /\ read' = disk
  /\ pc' = "commitDo"
  /\ UNCHANGED <<history, disk, pending, changelog, tags, lastUpdate, runs>>

\* Commit.do: `git add .` and `git commit -a -m "Bumped version to X"`
\* commit what is on disk now; a git failure exits.
CommitDo ==
  /\ pc = "commitDo"
  /\ \/ /\ history' = <<[id |-> Len(history) + 1, version |-> disk,
                         kind |-> "bump", msg |-> read]>> \o history
        /\ pc' = "tag"
        /\ UNCHANGED <<disk, pending>>
     \/ /\ ExitProcess
        /\ UNCHANGED history
  /\ UNCHANGED <<changelog, tags, read, lastUpdate, runs>>

\* commands/tag.ts: getVersion(), then `git tag v<version>` on HEAD; an
\* existing tag makes git fail and the process exit.
Tag ==
  /\ pc = "tag"
  /\ IF \E t \in tags : t.name = disk
       THEN /\ ExitProcess
            /\ UNCHANGED tags
       ELSE /\ tags' = tags \cup {[name |-> disk, commit |-> history[1].id]}
            /\ pc' = "idle"
            /\ UNCHANGED <<disk, pending>>
  /\ UNCHANGED <<history, changelog, read, lastUpdate, runs>>

\* The process ends normally only once its pending write has completed.
Next ==
  \/ Develop /\ pending = None
  \/ Version /\ pending = None
  \/ WriteLands
  \/ ChangelogCmd /\ (pc = "idle" => pending = None)
  \/ CommitRead \/ CommitDo \/ Tag

Spec == Init /\ [][Next]_vars /\ WF_vars(Next)

-----------------------------------------------------------------------------

Commit == [id : 1..MaxCommits, version : Versions,
           kind : {"dev", "merge", "bump"}, msg : Versions \cup {None}]

TypeOK ==
  /\ history \in Seq(Commit)
  /\ disk \in Versions
  /\ pending \in Versions \cup {None}
  /\ changelog = NoFile \/ changelog \in Seq(UNION {{Blank},
        {Header(v) : v \in Versions}, {Entry(i) : i \in 1..MaxCommits},
        {Text(n) : n \in 1..2}})
  /\ tags \subseteq [name : Versions, commit : 1..MaxCommits]
  /\ pc \in {"idle", "changelog", "commit", "commitDo", "tag"}
  /\ read \in Versions \cup {None}

CommitWithId(i) == history[Len(history) + 1 - i]

\* Every tag made by `bump` names the version of the commit it points to:
\* a bump commit whose message names that version and whose committed
\* version file holds it.  The changelog, commit and tag commands each
\* re-read the version file, while the version command's write is not
\* awaited (files.ts: this.setContent without await).
ReleaseRecordsOneVersion ==
  \A t \in tags :
    LET c == CommitWithId(t.commit)
    IN  c.kind = "bump" /\ c.msg = t.name /\ c.version = t.name

\* Running the changelog command again with the same log and the same
\* version, after it updated an existing changelog, leaves the file as it
\* is: the duplicate-section guard of section.add must recognise the
\* section it wrote, after Changelog.write cleaned up blank lines.
ChangelogUpdateIdempotent ==
  [][(changelog # NoFile /\ changelog' # changelog) =>
       lastUpdate # <<history, disk>>]_vars

\* Updating an existing changelog only prepends: the previous content is
\* kept, line for line, at the end of the new one.
ChangelogKeepsOldContent ==
  [][(changelog # NoFile /\ changelog' # changelog) =>
       IsSuffix(changelog, changelog')]_changelog

\* Inside `bump`, the changelog command writes the changelog headed by the
\* release it documents: the first line of the file it writes is the
\* header of the version it read (commands/changelog.ts:13), whether
\* Changelog.update prepends a section or Changelog.init creates the file.
ChangelogHeadsRelease ==
  [][(pc = "changelog" /\ changelog' \notin {NoFile, <<>>} /\ changelog' # changelog)
       => changelog'[1] = Header(disk)]_vars

=============================================================================
