------------------------------ MODULE BumpWalk ------------------------------
(***************************************************************************)
(* What getCommitsBumps promises, stated without pages, pops or aliasing. *)
(*                                                                         *)
(* The commit log is a sequence of versions, newest commit first: log[i]   *)
(* is what getVersionByCommit returns for the i-th newest commit, and the  *)
(* commit itself is identified by its position i.  The walk consumes the   *)
(* log one commit at a time; after `seen` commits its result is the        *)
(* grouping of the first `seen` commits, and the commits flagged isBump    *)
(* are the boundary commits among them.  A log error ends the walk early   *)
(* (truncated); otherwise it ends after the whole log, or, when the next  *)
(* commit would start a group beyond the limit, with the groups so far   *)
(* and the commit that introduced the last group's version left out.     *)
(***************************************************************************)
EXTENDS Naturals, Sequences, SequencesExt

CONSTANTS
  Versions,   \* version strings a file regex can extract (never empty)
  Initial,    \* Config.version.initial, returned when nothing matches
  Empty,      \* the empty string '', the label of the placeholder bump
  MaxCommits, \* longest commit log considered
  Limits      \* the limit arguments of getCommitsBumps

ASSUME Empty \notin Versions
ASSUME MaxCommits \in Nat /\ Limits \subseteq Nat \ {0}

\* Values getVersionByCommit can return.
CommitVersions == Versions \cup {Initial}

\* JavaScript truthiness of a version string: only '' is falsy.
Truthy(v) == v # Empty

\* Commit i (i >= 2) starts a new version era: its version differs from
\* the version of the next newer commit i-1.
IsBoundary(h, i) == i \in 2..Len(h) /\ h[i] # h[i-1]

\* The commits that end up flagged isBump: the newer neighbour of each
\* boundary, which is moved into the older era's group.
BumpCommits(h) == {i - 1 : i \in {j \in 1..Len(h) : IsBoundary(h, j)}}

\* First commit of every group: the newest commit, and every bump commit.
GroupStarts(h) == IF h = <<>> THEN {} ELSE {1} \cup BumpCommits(h)

\* The label of the group starting at s lags one boundary behind: it is
\* the version of its first commit, unless that is '' and a boundary
\* follows, in which case `prevVersion || version` picks the next one.
GroupLabel(h, s) ==
  IF ~Truthy(h[s]) /\ IsBoundary(h, s + 1) THEN h[s + 1] ELSE h[s]

\* The reference grouping: contiguous runs of commit positions between
\* consecutive group starts, newest group first.
Grouping(h) ==
  LET starts == SelectSeq([i \in 1..Len(h) |-> i], LAMBDA i : i \in GroupStarts(h))
      n      == Len(starts)
      last(k) == IF k = n THEN Len(h) ELSE starts[k + 1] - 1
  IN  [k \in 1..n |->
         [version |-> GroupLabel(h, starts[k]),
          commits |-> [j \in 1..(last(k) - starts[k] + 1) |-> starts[k] + j - 1]]]

\* Length of the run of commits, from the newest, that share its version.
HeadRunLength(h) ==
  IF h = <<>> THEN 0
  ELSE LET older == {i \in 2..Len(h) : IsBoundary(h, i)}
       IN  IF older = {} THEN Len(h) ELSE Min(older) - 1

\* What getCommitsBumps(1) returns: the newest group, without its oldest
\* commit when that commit introduced the version (the pop before the
\* break), labelled with the newest commit's version.
LatestBump(h) ==
  LET k == HeadRunLength(h)
      n == IF k < Len(h) THEN k - 1 ELSE k
  IN  IF h = <<>> THEN <<>>
      ELSE <<[version |-> h[1], commits |-> [j \in 1..n |-> j]]>>

VARIABLES
  log,        \* the commit log, fixed for the whole walk
  seen,       \* number of commits consumed so far
  result,     \* the bumps returned if the walk stopped now
  flagged,    \* commits flagged isBump so far
  over,       \* the walk has returned
  truncated,  \* it returned because reading the log failed
  limit       \* the limit argument

vars == <<log, seen, result, flagged, over, truncated, limit>>

Init ==
  /\ log \in UNION {[1..n -> CommitVersions] : n \in 0..MaxCommits}
  /\ seen = 0
  /\ result = <<>>
  /\ flagged = {}
  /\ over = FALSE
  /\ truncated = FALSE
  /\ limit \in Limits

\* The next commit starts a new group while `limit` groups exist already.
AtLimit ==
  /\ seen \in 1..(Len(log) - 1)
  /\ IsBoundary(log, seen + 1)
  /\ Len(Grouping(SubSeq(log, 1, seen))) >= limit

Consume ==
  /\ ~over
  /\ seen < Len(log)
  /\ ~AtLimit
  /\ seen' = seen + 1
  /\ result' = Grouping(SubSeq(log, 1, seen + 1))
  /\ flagged' = BumpCommits(SubSeq(log, 1, seen + 1))
  /\ UNCHANGED <<log, over, truncated, limit>>

Finish ==
  /\ ~over
  /\ seen = Len(log)
  /\ over' = TRUE
  /\ UNCHANGED <<log, seen, result, flagged, truncated, limit>>

Truncate ==
  /\ ~over
  /\ over' = TRUE
  /\ truncated' = TRUE
  /\ UNCHANGED <<log, seen, result, flagged, limit>>

\* The walk stops at the limit; the newest groups are returned, the last
\* without its oldest commit, which introduced its version.
Cut ==
  /\ ~over
  /\ AtLimit
  /\ over' = TRUE
  /\ result' = [result EXCEPT ![Len(result)].commits = Front(@)]
  /\ UNCHANGED <<log, seen, flagged, truncated, limit>>

Next == Consume \/ Finish \/ Truncate \/ Cut

Spec == Init /\ [][Next]_vars /\ WF_vars(Consume \/ Finish \/ Cut)

=============================================================================
