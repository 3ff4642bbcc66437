------------------------------- MODULE MCOutput -------------------------------
EXTENDS Output

CONSTANT
  Wide   \* bound: the words of the longest message

(* Messages around the 96 columns a line has: 47 and 48 with their blank   *)
(* fill it, 48 and 48 do not fit, 97 is too wide for any line; a word of   *)
(* UTF-8 continuation bytes alone has no width.                            *)
AroundTheLine == UNION {[1 .. n -> {0, 1, 47, 48, 96, 97}] : n \in 1 .. Wide}
Timeout == <<5, 3, 5>>
Refusal == <<60, 60>>

(* What GitClient can make of a repository: its remote, and the answer of  *)
(* git status, whose failure is the error of both other checks.            *)
NoRemote == [url |-> 0, has |-> FALSE, error |-> NoError]
Remote(width) == [url |-> width, has |-> TRUE, error |-> NoError]
RemoteFails(message) == [url |-> 0, has |-> FALSE, error |-> message]
Worktree(dirty, tracking, ahead) ==
  [dirty |-> dirty, tracking |-> tracking, ahead |-> ahead, error |-> NoError]
WorktreeFails(message) ==
  [dirty |-> FALSE, tracking |-> "error", ahead |-> 0, error |-> message]

Status(path, width, remote, worktree) ==
  [path |-> path, path_width |-> width,
   remote_url |-> remote.url, has_remote |-> remote.has, remote_error |-> remote.error,
   dirty |-> worktree.dirty, upstream_state |-> worktree.tracking, ahead |-> worktree.ahead,
   worktree_error |-> worktree.error, upstream_error |-> worktree.error]

Report(list, dirtyOnly, elapsed) ==
  [statuses |-> list, dirty_only |-> dirtyOnly, elapsed |-> elapsed]

Fine == Worktree(FALSE, "ok", 0)
Quick == [ms |-> 2, ns |-> 0]
Brief == <<Quick, Quick, [ms |-> 4, ns |-> 0]>>

(* One failed check with any message; three repositories, of which any     *)
(* checks fail, with one message or two; two repositories with every cell, *)
(* narrower or wider than the header; and durations on both sides of each  *)
(* boundary, with fractions of every length.                               *)
Wrapped == {Report(<<Status("a", 1, RemoteFails(m), Fine)>>, FALSE, Brief) : m \in AroundTheLine}

Grouped ==
  LET remotes == {Remote(3)} \cup {RemoteFails(m) : m \in {Timeout, Refusal}}
      worktrees == {Fine} \cup {WorktreeFails(m) : m \in {Timeout, Refusal}}
  IN {Report(<<Status("a", 1, r[1], w[1]), Status("b", 1, r[2], w[2]),
               Status("c", 1, r[3], w[3])>>, dirtyOnly, Brief) :
        r \in [1 .. 3 -> remotes], w \in [1 .. 3 -> worktrees], dirtyOnly \in BOOLEAN}

Tables ==
  LET remotes == {NoRemote, Remote(3), Remote(30), RemoteFails(Timeout)}
      worktrees == {WorktreeFails(Timeout)} \cup
                   {Worktree(d, t[1], t[2]) : d \in BOOLEAN,
                      t \in {<<"ok", 0>>, <<"ok", 1>>, <<"ok", 12>>, <<"missing", 0>>,
                             <<"detached", 0>>}}
  IN {Report(<<Status("a", p, r[1], w[1]), Status("b", 11, r[2], w[2])>>, dirtyOnly, Brief) :
        p \in {1, 10}, r \in [1 .. 2 -> remotes], w \in [1 .. 2 -> worktrees],
        dirtyOnly \in BOOLEAN}

Durations ==
  {[ms |-> m, ns |-> n] :
     m \in {0, 1, 9, 999, 1000, 1005, 2340, 59999, 60000, 62345, 3599999, 3600000, 36061500},
     n \in {0, 1, 499999, 500000, 999999}}

Plus(d, e) ==
  [ms |-> d.ms + e.ms + (d.ns + e.ns) \div 1000000, ns |-> (d.ns + e.ns) % 1000000]

Timed == {Report(<<Status("a", 1, Remote(3), Fine)>>, TRUE, <<d, e, Plus(d, e)>>) :
            d \in Durations, e \in Durations}

AllReports == Wrapped \cup Grouped \cup Tables \cup Timed
===============================================================================
