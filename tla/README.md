# TLA+ models of `bump`

This directory models the release tool `@fabiospampinato/bump`
(`src/node_modules/@fabiospampinato/bump/src`) in TLA+ and checks the models
with TLC. Paths below are relative to that directory unless they start with
`src/`.

## The system

`bump` (index.ts) runs up to five commands in sequence in one Node process:

1. `version` (commands/version.ts). It chooses the next version, asks
   `getCommitsBumps(1)` whether anything changed since the last bump, and calls
   every supported version provider's `bump`. That reads the current version,
   applies `semver.inc`, and runs `Files.updateVersion`.
2. `changelog` (commands/changelog.ts). It re-reads the version and runs
   `Changelog.update`. An existing changelog gets a section for the latest
   bump prepended (`section.render`, `section.add`, `write`). A missing one is
   created from every bump (`Changelog.init`).
3. `commit` (commands/commit.ts, providers/commit/git.ts). It re-reads the
   version and runs `git add .` and `git commit -a -m "Bumped version to X"`.
4. `tag` (commands/tag.ts, providers/tag/git.ts). It re-reads the version and
   runs `git tag vX`.
5. `release`: a GitHub release.

Every failure goes through `Utils.exit`, i.e. `process.exit`.

The core algorithm is `Abstract.getCommitsBumps` (providers/version/abstract.ts).
It reads the git log newest first, in chunks of 50. It asks the provider for
the version of every commit and groups consecutive commits into bumps. When the
version changes, the last commit of the current bump (the commit that bumped the
version) is popped. It is flagged `isBump` and moved to the head of the new,
older bump. That bump is labelled `prevVersion || version`.

## Modules

| Module | Models | State and actions |
|---|---|---|
| `BumpWalk` | What getCommitsBumps(limit) promises. | `log`, `seen`, `result`, `flagged`, `over`, `truncated`, `limit`. There is one `Consume` per commit. `Cut` stops the walk when the next commit would start a group beyond the limit, and drops the last group's oldest commit. `Grouping`, `BumpCommits` and `LatestBump` are the declarative reference: groups start at the newest commit and at every bump commit. |
| `BumpGrouping` | `getCommitsBumps` / `getCommitsChunk`, line by line. | `chunkNth`, `page`, `idx`, `bumps`, `prevVersion`, `isBump`, `logFailed`, and `limit` (the argument, chosen in Init). `FetchChunk` is the top of the while loop. `Boundary` is the `version !== prevVersion` branch: pop, limit break, unshift, empty-bump pop, label, push. `SameVersion` is the else branch. `NextChunk` is `chunkNth++`. The `bump` alias is the last element of `bumps`. |
| `Changelog` | The content functions of providers/changelog/file.ts. | Lines are `Header(v)`, `Entry(id)`, `Blank` and hand-written `Text(n)`. `Render` is section.render. `Normalize` is write's two regexes. `StartsWith` is add's guard. |
| `ReleaseFlow` | The pipeline (index.ts and the commands) over a git history, a version file and a changelog file. | `history`, `disk`, `pending` (the un-awaited write), `changelog`, `tags`, `pc`, `read`, `lastUpdate`, `runs`. The actions are `Version`, `WriteLands`, `ChangelogCmd`, `CommitRead`, `CommitDo`, `Tag`, plus a developer's `Develop`. It reuses `BumpWalk`'s reference operators instead of re-running the walk, which `BumpGrouping` is checked to implement. |
| `Sidebar` | The book's sidebar element, src/docs/book/toc.js. | `loc`, `loaded`, `nav`, `storage` (sessionStorage `sidebar-scroll`), `scrollTop`, `active`, `expanded`, `clickScroll`. `Load` is the whole `connectedCallback`, run once per page load because `customElements.define` upgrades the element (`Upgraded`): TOC, active link via `path_to_root` and the index alias, expansion, scroll restore or centring. `Click` is the click listener plus the navigation. `Scroll`, `Button` (next/previous chapter) and `Direct` (typed URL) are the user. |
| `Template` | `Template.render`, utils/template.ts. | A pure operator. `Render` folds `ReplaceToken` (one `String.replace` with a global regex, replacement patterns `$&`, `` $` ``, `$'`, `$$` expanded) over the keys in order. `Contract` is the single-pass reference. Init enumerates templates and token values. |
| `VersionProviders` | The bump phase of the version command: every supported provider's `Abstract.bump` at once (version.ts:109), each a Files provider (files.ts) with its table (npm.ts, or Config.files). | `disk` (the working tree; a file maps each pattern to the captures of its matches, in order), `before`, `head` (getVersionByCommit of HEAD), `explicit`, and per provider `stage`, `cursor`, `next`, `todo`, plus `pending` writes. `ReadPath` is one awaited file read of getVersionByContentProvider. `Visible` is string-matches: every match with the `g` flag, else the first. `Replace` is `String.replace`, which rewrites the same matches. `HeadRead` is the fallback to HEAD. `AfterInc` is semver.inc and the null return. `UpdatePath` is one file of updateVersion: read, rewrite with every pattern in order, write issued without await. `WriteLands` is that write reaching the disk. |
| `MCBumpGrouping`, `MCReleaseFlow`, `MCSidebar`, `MCTemplate`, `MCVersionProviders` | Model values and constant sets for TLC. | |

**How BumpGrouping is checked against BumpWalk.** `BumpGrouping` instantiates
`BumpWalk` with `seen <- Consumed`, i.e. the commits of earlier chunks plus
`idx`. `ImplementsWalk` checks `Walk!Spec` as a temporal property. After every
commit, the accumulated bumps therefore equal the reference grouping of the
prefix read so far. This holds across chunk borders. The limit break is a
`Cut` step, taken exactly when the next group would exceed the limit, and the
walk terminates.

## Runs

| Run | Cfg | Result | What it shows |
|---|---|---|---|
| bumps | BumpGrouping.cfg | pass | Refinement for both limits the callers pass (none, from `Changelog.init`, and 1, from the version command and `Changelog.update`): every log of at most 6 commits over {'', v1, v2}, in chunks of 2. `Config.version.initial = ''` exercises `prevVersion \|\| version`. `getCommitsBumps(1)` is exactly `LatestBump`: the commits since the bump commit of HEAD's version, in a single group. |
| release_flow | ReleaseFlow.cfg | pass | Repeated `bump` and `bump changelog` runs with default templates (one blank line of separator). An update of a changelog the tool wrote only prepends, and repeating it is a no-op. |
| release_race | ReleaseFlowRace.cfg | violation | The commit records a version other than the one its message and tag name. |
| changelog_separator | ReleaseFlowSeparator.cfg | violation | With separator `'\n\n'` the update is not idempotent. |
| changelog_hand_written | ReleaseFlowHandWritten.cfg | violation | A hand-written changelog with double blank lines is rewritten. |
| changelog_init_label | ReleaseFlowInit.cfg | violation | A changelog created by `Changelog.init` inside `bump` is headed by the previous version. |
| sidebar | Sidebar.cfg | pass | On every page of every directory level, with `#` and `?` suffixes and the root URL, the active link is the page shown. A sidebar navigation keeps the scroll; a button navigation centres the active link. |
| sidebar_number_click | SidebarNumberClick.cfg | violation | A click on a chapter's `<strong>` number does not save the scroll. |
| sidebar_stray_click | SidebarStrayClick.cfg | violation | A saved scroll that is not consumed (ctrl-click) is restored on a later button navigation. |
| template | Template.cfg | pass | With plain-text values, sequential rendering equals the single-pass contract. |
| template_user_value | TemplateUserValue.cfg | violation | A commit message containing `[hash]` or `$&` is not put in verbatim. |
| version_providers | VersionProviders.cfg | pass | The NPM provider (`mi` patterns) and a Config.files provider (`gmi` patterns) bump concurrently, and their writes land in any order. Their tables share no file, so they touch no common state: the run checks each provider's own bump. When the command ends, every match a provider's patterns rewrite holds its bumped version (`FilesHoldBumps`). A provider that rewrote a match reads back the version it wrote, which is what the changelog, commit and tag commands re-read. This includes missing files, empty, unparsable and repeated matches, and explicit versions. An unparsable version makes `semver.inc` return null, so nothing is written. |

## Findings

1. **The version write is not awaited** (providers/version/files.ts:123). As a
   result, `git commit -a` can commit version X+1 under the message "Bumped
   version to X", and the tag can name X+1 on that commit. `process.exit` on a
   later failure can abandon the write altogether.
2. **`Changelog.write` collapses all blank-line runs** (file.ts:81). The comment
   and spec say only at the start and end of the file.
3. **The changelog update is not idempotent for a multi-newline separator.**
   The guard at file.ts:181 compares against the un-normalised section.
4. **`Changelog.init` inside `bump` mislabels the release** (file.ts:34). The
   bump commit does not exist yet, so the newest group carries the version of
   the last commit, the one before the release.
5. **Sidebar scroll is saved only for clicks on the `<a>` itself**
   (src/docs/book/toc.js:44). A click on the chapter number (`<strong>`)
   navigates without saving, so the next page centres instead of keeping the
   scroll.
6. **A saved sidebar scroll outlives its navigation** (toc.js:48). A click that
   saves but does not navigate in this tab leaves the item, and the next load,
   even from a next/previous button, restores it.
7. **Template values are re-read** (utils/template.ts:22). A value is subject
   to later tokens' replacements and to `String.replace` `$` patterns, contrary
   to the one-pass contract.

## Bounds

- **BumpGrouping:** logs of 0 to 6 commits with 3 versions, and chunks of 2.
  Chunk borders therefore fall on, before and after a boundary. Boundaries also
  occur at the first and the last commit, and versions repeat
  (v1, v2, v1, so equal labels appear in different groups).
- **ReleaseFlow:**
  - versions 0..2;
  - at most 4 commits and 3 processes;
  - every changelog the tool itself can leave: none, an empty file, or one
    section.

  This is enough for a release after a dev commit and a merge, a failed commit
  or tag, a release of an already tagged version, and a second changelog run
  over the same log. `MaxRuns` bounds the number of processes. Without it the
  changelog grows without bound, because each run may prepend a section.

- **Sidebar:** a reduced book TOC of 15 items. It has a root introduction,
  two chapters in one directory and one in three others, spacers and part
  titles. With 5 rows visible, centring clamps at both ends and in between.
  Locations are every page and the root directory with no suffix, `#` or `?`.
- **VersionProviders:** NPM's table (package.json and package-lock.json,
  one `mi` pattern each) and a Config.files table (one source file, two
  `gmi` patterns, so that the per-file accumulation of replaces matters).
  Each pattern finds one of these in a file: no match; one match of 0, an
  unparsable version or `""`; or two matches, `"" 1` or `0 1`. The two
  matches stand for a lockfile's root `version` and its `packages[""]`
  entry. Each file may also be missing. HEAD's version is 0, 1 or
  unparsable, and the command gets an increment or an explicit version 0
  or 1. That gives 48,951 initial states and 1,214,097 states in all. The
  two tables share no file; see "Not modelled".
- **Template:** three tokens in the key order of a commit's tokens
  (`version`, `message`, `hash`), templates of up to 3 atoms and values of up
  to 2. The violation run lets `message` hold placeholders and `$` patterns.

## Fairness

- `BumpGrouping` assumes weak fairness of `Next`. `getCommitsBumps` is one
  async function whose every await is a git call that returns or throws. The
  throw is a separate outcome of `FetchChunk`.
- `BumpWalk` is fair only on `Consume \/ Finish`, since truncation is an
  outcome, not an obligation.
- `ReleaseFlow` has no liveness property; its runs check safety only.
- `VersionProviders` assumes weak fairness of `Next`: every file read and
  write completes. Its properties are safety properties about the state once
  the command has ended.
- `Sidebar` and `Template` check safety only: the sidebar's actions are
  the user's choices, and `Template` is a pure function.

## Not modelled

- **Version providers whose tables share a file** (version.ts:109). This
  happens when Config.files lists package.json next to the NPM provider.
  The concurrent bumps then race on that file. Checked outside the runs,
  `FilesHoldBumps` fails in two ways:
  - a lost update, when the tables use different patterns;
  - a double bump, when one provider reads the version the other just
    wrote.
  The `version_providers` run keeps the tables disjoint.
- **A failed `git log` inside getCommitsBumps** (abstract.ts:95). The
  error is caught and read as the end of history. `BumpWalk` allows this
  as `Truncate`, so the refinement states what a caller gets: the grouping
  of the commits read so far, with no sign of the failure. No property can
  tell that from a complete walk.
- **Repository.getVersion and the registry order.** The registry
  (providers/version/index.ts) is not under `src/`. `ReleaseFlow` has one
  version file and one provider, so the first-truthy-result dispatch is the
  identity there.
- **A provider that matches nothing** (files.ts:57). Take a package.json
  without a `"version"` key. The NPM provider is still supported, bumps
  HEAD's version, and writes nothing. The later commands then read the old
  version back. `ReadsBackBump` therefore assumes the provider matched
  something. Without that assumption TLC finds the violation in two steps.
  There is no run slot for it.
- **Patterns whose matches overlap.** A replacement is assumed not to
  create or destroy matches of the file's later patterns.
- **The empty-changelog exit** (file.ts:179) is a path of `ReleaseFlow`, but
  no separate property states what it leaves behind.
- **Toggle listeners** (toc.js:61-67). No element of the TOC has class
  `toggle`, so none is attached.
- **Other I/O.** The GitHub release, the scripts, config and CLI parsing,
  and the `string-matches`, `micromist`, `git-username` and
  `remote-origin-url` helpers are I/O or parsing without state that the
  other parts read. They are listed as `not_modelled` in PROJECT.json.
- **The run limit.** The project keeps to twelve runs. Every hazard above
  that would need a further violation run is left as a note in PROJECT.json.
