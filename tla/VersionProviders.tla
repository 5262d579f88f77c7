-------------------------- MODULE VersionProviders --------------------------
(***************************************************************************)
(* The bump phase of the version command (commands/version.ts:109): every  *)
(* supported version provider runs Abstract.bump concurrently              *)
(* (Promise.all), and each is a Files provider (providers/version/         *)
(* files.ts) with its own table of files: NPM's fixed table (npm.ts) or    *)
(* Config.files.                                                           *)
(*                                                                         *)
(* Each await is a step, so the providers interleave at every file read.   *)
(*   - getVersion reads the table's files one by one and takes the first   *)
(*     non-empty capture, else the version of the HEAD commit.            *)
(*   - semver.inc increments it, and bump returns when it yields null.     *)
(*   - updateVersion reads every file of the table concurrently and issues *)
(*     a write of the rewritten content, which it does not await.          *)
(*                                                                         *)
(* A file's content is abstracted to what the table's patterns capture in  *)
(* it: content[f] is the sequence of captures of pattern f's matches, in   *)
(* order (<<>>: no match).  A pattern compiled with the 'g' flag is read   *)
(* (string-matches) and replaced (String.replace) at every match; one      *)
(* without it, like NPM's 'mi' patterns, only at its first match.          *)
(***************************************************************************)
EXTENDS Naturals, Sequences, SequencesExt, FiniteSets

CONSTANTS
  Providers,   \* the registered version providers
  Table,       \* Table[p]: p.getFiles() in key order, a sequence of
               \* [path |-> file, regexes |-> the file's patterns in order]
  Global,      \* the patterns whose flags include 'g'
  Shapes,      \* the match sequences a pattern may have in a file
  MaxVersion,  \* versions in the files are 0..MaxVersion
  Invalid,     \* a capture semver.inc cannot parse (e.g. "1.0")
  Blank,       \* an empty capture ""
  NoFile,      \* File.read yields no content: a missing or empty file
  None,        \* no value
  Null         \* null, as semver.inc returns it

Versions == 0..MaxVersion
Captures == Versions \cup {Invalid, Blank}

\* The files of p's table, Object.keys(this.files).
PathsOf(p) == {Table[p][i].path : i \in 1..Len(Table[p])}

Paths == UNION {PathsOf(p) : p \in Providers}

\* this.regexes[basePath] of provider p (files.ts:37-45).
RegexesOf(p, x) == LET i == SelectInSeq(Table[p], LAMBDA e : e.path = x)
                   IN  IF i = 0 THEN <<>> ELSE Table[p][i].regexes

\* The patterns of all tables that apply to file x.
FieldsOf(x) == UNION {Range(RegexesOf(p, x)) : p \in Providers}

\* The contents a file can have before the command.
ContentsOf(x) == {NoFile} \cup [FieldsOf(x) -> Shapes]

\* The matches of pattern f that stringMatches returns: all of them with
\* the 'g' flag, else the first (string-matches, exec once).
Visible(c, f) == IF f \in Global \/ c[f] = <<>> THEN c[f] ELSE <<Head(c[f])>>

\* Those whose capture is truthy, i.e. not "".
Truthy(c, f) == SelectSeq(Visible(c, f), LAMBDA m : m # Blank)

\* isSupported (files.ts:16-26): some file of the table has content.
Supported(p, d) == \E x \in PathsOf(p) : d[x] # NoFile

\* Files.getVersionByContentProvider on one file (files.ts:88-97): the
\* first truthy capture among the patterns' matches, in order, or None.
CaptureIn(c, regexes) ==
  LET i == SelectInSeq(regexes, LAMBDA f : Truthy(c, f) # <<>>)
  IN  IF i = 0 THEN None ELSE Head(Truthy(c, regexes[i]))

\* semver.inc(version, increment): null for an unparsable version.
Inc(v) == IF v \in Versions THEN v + 1 ELSE Null

\* Plausible fault of Replace: a pattern without 'g' rewrites its last
\* match rather than its first.
ReplaceLast(c, f, v) ==
  IF c[f] = <<>> THEN c
  ELSE [c EXCEPT ![f] = [j \in DOMAIN @ |-> IF f \in Global \/ j = Len(@) THEN v ELSE @[j]]]

\* One `content.replace(regex, replacement)`: the matches of pattern f,
\* every one with 'g' and the first without, whatever they captured,
\* become the new version.
Replace(c, f, v) ==
  [c EXCEPT ![f] = [j \in DOMAIN @ |-> IF f \in Global \/ j = 1 THEN v ELSE @[j]]]

\* Plausible fault of UpdateContent: each replace starts again from the
\* content read, so only the last pattern's replacement survives.
UpdateFromOriginal(c, regexes, v) ==
  IF regexes = <<>> THEN c ELSE Replace(c, Last(regexes), v)

\* files.ts:113-121: the patterns of the file applied in order to one
\* accumulating string.
UpdateContent(c, regexes, v) ==
  FoldLeft(LAMBDA acc, f : Replace(acc, f, v), c, regexes)

VARIABLES
  disk,      \* the working tree: file -> content
  before,    \* the working tree when the command started
  head,      \* getVersionByCommit(HEAD) of each provider
  explicit,  \* the version given on the command line, or None
  stage,     \* per provider: "off" (not supported), "read" (getVersion),
             \* "update" (updateVersion) or "done"
  cursor,    \* per provider: the file getVersionByContentProvider reads
  next,      \* per provider: the version it writes
  todo,      \* per provider: the files updateVersion has not read yet
  pending    \* writes issued by setContent that have not reached the disk

vars == <<disk, before, head, explicit, stage, cursor, next, todo, pending>>

Written == 0..(MaxVersion + 1)

MaxMatches == Max({Len(m) : m \in Shapes})

-----------------------------------------------------------------------------

\* Plausible fault of AfterInc: the `if (!version) return` guard is
\* missing, so null is written as the version.
AfterIncUnguarded(p, v) ==
  /\ next' = [next EXCEPT ![p] = v]
  /\ stage' = [stage EXCEPT ![p] = "update"]
  /\ todo' = [todo EXCEPT ![p] = PathsOf(p)]

\* abstract.ts:41-49: semver.inc, the return on null, and the start of
\* updateVersion with every file of the table.
AfterInc(p, v) ==
  IF v = Null
    THEN /\ stage' = [stage EXCEPT ![p] = "done"]
         /\ UNCHANGED <<next, todo>>
    ELSE /\ next' = [next EXCEPT ![p] = v]
         /\ stage' = [stage EXCEPT ![p] = "update"]
         /\ todo' = [todo EXCEPT ![p] = PathsOf(p)]

\* version.ts:18-24 and 109: the supported providers, then every one's
\* bump at once.  With an explicit version, bump skips getVersion.
Init ==
  /\ disk \in [Paths -> UNION {ContentsOf(x) : x \in Paths}]
  /\ \A x \in Paths : disk[x] \in ContentsOf(x)
  /\ before = disk
  /\ head \in [Providers -> Versions \cup {Invalid}]
  /\ explicit \in Versions \cup {None}
  /\ stage = [p \in Providers |->
                IF ~Supported(p, disk) THEN "off"
                ELSE IF explicit = None THEN "read" ELSE "update"]
  /\ cursor = [p \in Providers |-> 1]
  /\ next = [p \in Providers |-> explicit]
  /\ todo = [p \in Providers |->
               IF stage[p] = "update" THEN PathsOf(p) ELSE {}]
  /\ pending = {}

\* getVersionByFiles: the read of one file of the table resolves.  A
\* truthy capture is the version; otherwise the loop goes on.
ReadPath(p) ==
  /\ stage[p] = "read"
  /\ cursor[p] <= Len(Table[p])
  /\ LET e   == Table[p][cursor[p]]
         got == IF disk[e.path] = NoFile THEN None ELSE CaptureIn(disk[e.path], e.regexes)
     IN  IF got = None
           THEN /\ cursor' = [cursor EXCEPT ![p] = @ + 1]
                /\ UNCHANGED <<stage, next, todo>>
           ELSE /\ AfterInc(p, Inc(got))
                /\ UNCHANGED cursor
  /\ UNCHANGED <<disk, before, head, explicit, pending>>

\* No file yields a version: Abstract.getVersion reads the HEAD commit's
\* version (abstract.ts:167-173, files.ts:67-77), which git answers from
\* the committed tree.
HeadRead(p) ==
  /\ stage[p] = "read"
  /\ cursor[p] > Len(Table[p])
  /\ AfterInc(p, Inc(head[p]))
  /\ UNCHANGED <<disk, before, head, explicit, cursor, pending>>

\* files.ts:107-125: the read of file x resolves; an existing file is
\* rewritten and its write issued without await.  When the last read has
\* resolved, updateVersion's Promise.all resolves.
UpdatePath(p, x) ==
  /\ stage[p] = "update"
  /\ x \in todo[p]
  /\ pending' = IF disk[x] = NoFile THEN pending
                ELSE pending \cup {[from |-> p, path |-> x,
                                    content |-> UpdateContent(disk[x], RegexesOf(p, x), next[p])]}
  /\ todo' = [todo EXCEPT ![p] = @ \ {x}]
  /\ stage' = [stage EXCEPT ![p] = IF todo'[p] = {} THEN "done" ELSE @]
  /\ UNCHANGED <<disk, before, head, explicit, cursor, next>>

\* setContent (abstract.ts:71-77): a write reaches the disk.
WriteLands(w) ==
  /\ disk' = [disk EXCEPT ![w.path] = w.content]
  /\ pending' = pending \ {w}
  /\ UNCHANGED <<before, head, explicit, stage, cursor, next, todo>>

Next ==
  \/ \E p \in Providers : ReadPath(p) \/ HeadRead(p)
  \/ \E p \in Providers : \E x \in Paths : UpdatePath(p, x)
  \/ \E w \in pending : WriteLands(w)

\* Every read and write of the file system completes.
Spec == Init /\ [][Next]_vars /\ WF_vars(Next)

-----------------------------------------------------------------------------

TypeOK ==
  /\ \A x \in Paths : disk[x] = NoFile \/
       disk[x] \in [FieldsOf(x) -> BoundedSeq(Captures \cup Written, MaxMatches)]
  /\ stage \in [Providers -> {"off", "read", "update", "done"}]
  /\ cursor \in [Providers -> 1..(1 + Max({Len(Table[p]) : p \in Providers}))]
  /\ next \in [Providers -> Written \cup {None, Null}]
  /\ todo \in [Providers -> SUBSET Paths]

\* What getVersion of provider p reads from the tree d, stated over index
\* sets: the first capture, by file in table order, then pattern, then
\* match, that string-matches returns and that is not "", else the
\* version of the HEAD commit.
ReadFrom(p, d) ==
  LET T        == Table[p]
      Hit(i, r, j) == /\ d[T[i].path] # NoFile
                      /\ j \in DOMAIN d[T[i].path][T[i].regexes[r]]
                      /\ T[i].regexes[r] \in Global \/ j = 1
                      /\ d[T[i].path][T[i].regexes[r]][j] # Blank
      Files    == {i \in 1..Len(T) : \E r \in 1..Len(T[i].regexes), j \in 1..MaxMatches : Hit(i, r, j)}
      i        == Min(Files)
      r        == Min({k \in 1..Len(T[i].regexes) : \E j \in 1..MaxMatches : Hit(i, k, j)})
      j        == Min({k \in 1..MaxMatches : Hit(i, r, k)})
  IN  IF Files = {} THEN head[p] ELSE d[T[i].path][T[i].regexes[r]][j]

\* The version provider p's bump writes, had it run alone on the tree as
\* it was before the command: the explicit version, or the increment of
\* what it reads; nothing when that does not parse.
Bumped(p) ==
  IF explicit # None THEN explicit
  ELSE IF ReadFrom(p, before) \in Versions THEN ReadFrom(p, before) + 1 ELSE None

\* The tree after the providers' bumps, stated per match: each match a
\* bumping provider's pattern rewrites (all with 'g', the first without)
\* holds that provider's version.
AfterBumps ==
  [x \in Paths |->
     IF before[x] = NoFile THEN NoFile
     ELSE [f \in DOMAIN before[x] |->
             LET by == {p \in Providers : /\ Supported(p, before)
                                          /\ Bumped(p) # None
                                          /\ f \in Range(RegexesOf(p, x))}
             IN  [j \in DOMAIN before[x][f] |->
                    IF by # {} /\ (f \in Global \/ j = 1)
                      THEN Bumped(CHOOSE p \in by : TRUE)
                      ELSE before[x][f][j]]]]

\* Some pattern of p's table matches an existing file, so its bump rewrites
\* something.
Matched(p) ==
  \E x \in PathsOf(p) : before[x] # NoFile /\ \E f \in Range(RegexesOf(p, x)) : before[x][f] # <<>>

Finished == (\A p \in Providers : stage[p] \in {"off", "done"}) /\ pending = {}

\* When the version command has ended, every file holds what its
\* provider's bump writes: the matches its patterns rewrite (every one
\* with 'g', the first without) hold the bumped version, including an
\* empty capture the read skipped (files.ts:95) for a later file's or
\* HEAD's version, and nothing is written when that version does not
\* parse (abstract.ts:43).  The tables share no file; with a shared file
\* the providers race and this fails (see the README).
FilesHoldBumps == Finished => disk = AfterBumps

\* The changelog, commit and tag commands that follow re-read the version
\* with getVersion (files.ts:55-58): a provider whose bump rewrote some
\* match reads back the version it wrote.  For a pattern without 'g' this
\* holds only because the read (string-matches, files.ts:91) and the
\* replace (files.ts:119) both stop at the same first match, whatever
\* the later matches hold (npm.ts:13).
ReadsBackBump ==
  Finished =>
    \A p \in Providers :
      (Bumped(p) # None /\ Matched(p))
        => ReadFrom(p, disk) = Bumped(p)

=============================================================================
