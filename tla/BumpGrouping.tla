---------------------------- MODULE BumpGrouping ----------------------------
(***************************************************************************)
(* Abstract.getCommitsBumps (providers/version/abstract.ts): the chunked   *)
(* walk of the commit log that groups commits into bumps.                  *)
(*                                                                         *)
(* history[i] is the version getVersionByCommit returns for the i-th       *)
(* newest commit; the commit is identified by its position i, so          *)
(* `git log -n size --skip size*nth` returns positions.  The in-progress   *)
(* `bump` object is, once pushed, always the last element of `bumps` (the  *)
(* code mutates it through that alias), so it is not a separate variable:  *)
(* CurBump is the last bump, or the initial placeholder while bumps is    *)
(* empty.                                                                  *)
(***************************************************************************)
EXTENDS Naturals, Sequences, SequencesExt

CONSTANTS
  Versions,   \* version strings a file regex can extract (never empty)
  Initial,    \* Config.version.initial
  Empty,      \* the empty string ''
  Undefined,  \* the initial value of prevVersion
  MaxCommits, \* longest commit log considered
  PageSize,   \* the chunk size passed to getCommitsChunk (50 in the code)
  Limits      \* the limit arguments callers pass; a value > MaxCommits acts
              \* as Infinity

ASSUME Empty \notin Versions /\ Undefined \notin Versions \cup {Initial, Empty}
ASSUME MaxCommits \in Nat /\ PageSize \in Nat \ {0} /\ Limits \subseteq Nat

VARIABLES
  history,     \* the commit log, newest first, as versions
  pc,          \* "fetch": about to read a chunk; "walk": in the for loop;
               \* "done": returned
  chunkNth,    \* index of the current chunk
  page,        \* commits of the current chunk
  idx,         \* commits of the current chunk processed so far
  bumps,       \* the result accumulator
  prevVersion, \* version of the previously processed commit
  isBump,      \* commits whose isBump flag has been set
  logFailed,   \* a git log error was swallowed as an empty chunk
  limit        \* the limit argument of this call

vars == <<history, pc, chunkNth, page, idx, bumps, prevVersion, isBump, logFailed, limit>>

\* The values getVersionByCommit can return (files.ts: a regex match or the
\* initial version); history is chosen over them in Init.
CommitVersions == Versions \cup {Initial}

VersionByCommit(c) == history[c]

Placeholder == [version |-> Empty, commits |-> <<>>]

CurBump == IF bumps = <<>> THEN Placeholder ELSE Last(bumps)

\* Write the in-progress bump back through its alias in bumps.
WithCur(b) == IF bumps = <<>> THEN bumps ELSE [bumps EXCEPT ![Len(bumps)] = b]

\* Plausible faults of the code below; each is detected by a property.
LabelNoFallback(prev, version) == prev
KeepEmptied(synced, popped) == synced
BreakBeforePop(synced) == bumps

\* getCommitsChunk(nth, size): `git log -n size --skip size*nth`; an error
\* from git is caught and returned as an empty chunk.
CommitsChunk(nth, size) ==
  [j \in 1..(IF Len(history) > size * nth
               THEN IF Len(history) - size * nth < size
                      THEN Len(history) - size * nth ELSE size
               ELSE 0) |-> size * nth + j]

\* `prevVersion || version`: the label of a new bump.
NewBumpLabel(prev, version) ==
  IF prev \notin {Undefined, Empty} THEN prev ELSE version

\* `if (!bump.commits.length) bumps.pop()` after the pop of commitLast.
AfterDrop(synced, popped) ==
  IF popped.commits = <<>> THEN Front(synced) ELSE synced

\* `if (bumps.length >= limit) break whileloop`.
MustBreak(n) == n >= limit

\* What the walk returns on that break: bumps, whose last element already
\* lost commitLast to the pop.
BreakResult(synced) == synced

-----------------------------------------------------------------------------

Init ==
  /\ history \in UNION {[1..n -> CommitVersions] : n \in 0..MaxCommits}
  /\ pc = "fetch"
  /\ chunkNth = 0
  /\ page = <<>>
  /\ idx = 0
  /\ bumps = <<>>
  /\ prevVersion = Undefined
  /\ isBump = {}
  /\ logFailed = FALSE
  /\ limit \in Limits

\* Top of the while loop: read the next chunk; an empty one ends the walk.
FetchChunk ==
  /\ pc = "fetch"
  /\ \E failed \in BOOLEAN :
       LET commits == IF failed THEN <<>> ELSE CommitsChunk(chunkNth, PageSize)
       IN  /\ page' = commits
           /\ pc' = IF commits = <<>> THEN "done" ELSE "walk"
           /\ logFailed' = failed
  /\ UNCHANGED <<history, chunkNth, idx, bumps, prevVersion, isBump, limit>>

\* A commit whose version differs from prevVersion: the last commit of the
\* current bump is popped and moves, flagged isBump, to the head of a new
\* bump labelled with prevVersion || version; a bump left empty by the pop
\* is dropped.  When bumps.length >= limit the pop has already happened
\* and the whole walk breaks.
Boundary ==
  /\ pc = "walk"
  /\ idx < Len(page)
  /\ LET c        == page[idx + 1]
         version  == VersionByCommit(c)
         cur      == CurBump
         hasLast  == cur.commits # <<>>
         popped   == [cur EXCEPT !.commits = Front(@)]
         synced   == WithCur(popped)
         kept     == AfterDrop(synced, popped)
         label    == NewBumpLabel(prevVersion, version)
         new      == [version |-> label,
                      commits |-> IF hasLast THEN <<Last(cur.commits), c>> ELSE <<c>>]
     IN  /\ version # prevVersion
         /\ IF MustBreak(Len(synced))
              THEN /\ bumps' = BreakResult(synced)
                   /\ pc' = "done"
                   /\ UNCHANGED <<idx, prevVersion, isBump>>
              ELSE /\ bumps' = Append(kept, new)
                   /\ isBump' = IF hasLast THEN isBump \cup {Last(cur.commits)} ELSE isBump
                   /\ prevVersion' = version
                   /\ idx' = idx + 1
                   /\ UNCHANGED pc
  /\ UNCHANGED <<history, chunkNth, page, logFailed, limit>>

\* A commit with the same version as the previous one joins the current
\* bump, which takes the version as label if it has none yet.
SameVersion ==
  /\ pc = "walk"
  /\ idx < Len(page)
  /\ LET c       == page[idx + 1]
         version == VersionByCommit(c)
         cur     == CurBump
     IN  /\ version = prevVersion
         /\ bumps' = WithCur([version |-> IF cur.version = Empty THEN version ELSE cur.version,
                              commits |-> Append(cur.commits, c)])
  /\ prevVersion' = prevVersion
  /\ idx' = idx + 1
  /\ UNCHANGED <<history, pc, chunkNth, page, isBump, logFailed, limit>>

\* End of the for loop over a chunk: chunkNth++.
NextChunk ==
  /\ pc = "walk"
  /\ idx = Len(page)
  /\ chunkNth' = chunkNth + 1
  /\ pc' = "fetch"
  /\ idx' = 0
  /\ UNCHANGED <<history, page, bumps, prevVersion, isBump, logFailed, limit>>

Next == FetchChunk \/ Boundary \/ SameVersion \/ NextChunk

\* The walk is one async function awaiting git calls that each return.
Spec == Init /\ [][Next]_vars /\ WF_vars(Next)

-----------------------------------------------------------------------------

TypeOK ==
  /\ history \in Seq(CommitVersions)
  /\ pc \in {"fetch", "walk", "done"}
  /\ chunkNth \in Nat
  /\ page \in Seq(1..Len(history))
  /\ idx \in 0..Len(page)
  /\ bumps \in Seq([version : CommitVersions \cup {Empty},
                    commits : Seq(1..Len(history))])
  /\ prevVersion \in CommitVersions \cup {Undefined}
  /\ isBump \subseteq 1..Len(history)
  /\ logFailed \in BOOLEAN
  /\ limit \in Limits

\* Commits consumed so far: every earlier chunk in full, plus idx.
Consumed == IF chunkNth * PageSize < Len(history)
              THEN chunkNth * PageSize + idx ELSE Len(history)

Walk == INSTANCE BumpWalk WITH
  log <- history, seen <- Consumed, result <- bumps, flagged <- isBump,
  over <- pc = "done", truncated <- logFailed, limit <- limit

\* Refinement: for every limit a caller passes, every step of the chunked
\* walk is a step of BumpWalk, so after each commit the accumulated bumps
\* are exactly the reference grouping of the commits read so far
\* (pop/reattribute, empty bump removal, lagging labels and isBump flags
\* across chunk borders); the limit break happens exactly when the next
\* group would exceed the limit; and the walk returns, after the whole log
\* unless git log failed or the limit was reached.
ImplementsWalk == Walk!Spec

\* getCommitsBumps(1), which the version command uses to detect "No
\* changes" and Changelog.update uses for the new section, returns exactly
\* the commits newer than the commit that introduced HEAD's version (all
\* of them when no older version exists), even when that commit is the
\* last of a chunk and the boundary is only seen in the next one.
LatestBumpExact ==
  (pc = "done" /\ ~logFailed /\ limit = 1) => bumps = Walk!LatestBump(history)

=============================================================================
