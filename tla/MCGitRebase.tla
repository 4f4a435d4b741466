---------------------------- MODULE MCGitRebase ----------------------------
(* A rebase of three commits.                                              *)
EXTENDS GitRebase

CONSTANTS g1, g2, g3

\* The commits, the oldest first.
ReplayOrder == <<g1, g2, g3>>
=============================================================================
