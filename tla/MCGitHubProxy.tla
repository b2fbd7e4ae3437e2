--------------------------- MODULE MCGitHubProxy ---------------------------
(* A limit of two units, a drain of one: a body may be shorter than the    *)
(* limit, as long, one longer, and longer than what is drained.  8 s and   *)
(* 10 s are four and five ticks.                                           *)
EXTENDS GitHubProxy
=============================================================================
