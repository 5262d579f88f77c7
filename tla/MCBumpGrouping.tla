--------------------------- MODULE MCBumpGrouping ---------------------------
(***************************************************************************)
(* Model-checking instance of BumpGrouping.  Commit logs of up to          *)
(* MaxCommits commits over the versions {v1, v2} and the initial version   *)
(* are all enumerated; a chunk of 2 commits puts version boundaries both   *)
(* inside a chunk and across chunk borders.                                *)
(***************************************************************************)
EXTENDS BumpGrouping

\* getCommitsBumps() without a limit: Infinity is never reached by
\* bumps.length, which is at most the number of commits.
NoLimit == MaxCommits + 1

\* The limits the callers pass: none (Changelog.init) and 1 (the version
\* command and Changelog.update).
CallerLimits == {NoLimit, 1}

=============================================================================
