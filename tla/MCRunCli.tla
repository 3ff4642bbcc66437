------------------------------- MODULE MCRunCli -------------------------------
EXTENDS RunCli

Healthy == [Blank EXCEPT !.has_remote = TRUE]

(* One status for each reason to need attention, and one for none.         *)
OneOfEach ==
  {Healthy,
   [Healthy EXCEPT !.dirty = TRUE],
   [Healthy EXCEPT !.ahead = 2],
   Blank,
   [Blank EXCEPT !.remote_error = TRUE],
   [Healthy EXCEPT !.worktree_error = TRUE, !.upstream_error = TRUE],
   [Healthy EXCEPT !.upstream_error = TRUE],
   Failed}

===============================================================================
