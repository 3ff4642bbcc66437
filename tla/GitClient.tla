------------------------------- MODULE GitClient -------------------------------
(***************************************************************************)
(* GitClient::check of the C++ port: two git commands under one deadline,  *)
(* and the status read from their output. Each command is a GitCommand,    *)
(* which every call of ExecGitRunner implements; what git prints is        *)
(* derived from the state of the repository, the way `git remote -v` and   *)
(* `git status --porcelain=v2 --branch` print it.                          *)
(*                                                                         *)
(* A remote is a number, ordered as its name, and stands for its URL too.  *)
(* Time is counted in ticks, a few to the millisecond.                     *)
(***************************************************************************)
EXTENDS GitCommand, Integers, FiniteSetsExt

CONSTANTS
  Repositories,  \* the states of a repository git may be asked about
  Origin,        \* the remote named "origin"
  TicksPerMs,
  TimeoutMs,     \* timeout_
  MaxTicks       \* bound: how long the clock runs

Repository == [remotes : SUBSET (Nat \ {0}), partial : SUBSET (Nat \ {0}),
               head : {"branch", "detached"}, upstream : {"none", "set", "gone"},
               ahead : Nat, changes : BOOLEAN, warns : BOOLEAN]

ASSUME GitClientAssumption ==
  /\ Repositories \subseteq Repository
  /\ Origin \in Nat \ {0}
  /\ TicksPerMs \in Nat \ {0} /\ TimeoutMs \in Nat \ {0} /\ MaxTicks \in Nat

VARIABLES
  repository,  \* the state the repository is in
  now,
  deadline,
  step,        \* the command to run, or the one under way
  budget,      \* the timeout handed to the runner, in milliseconds
  handed,      \* when it was
  started,     \* when the runner took its own deadline from it
  status       \* the RepositoryStatus

timing == <<now, deadline, budget, handed, started>>
vars == <<repository, timing, step, status, commandVars>>

NoError == <<>>

-------------------------------------------------------------------------------
(* Mutated forms, each the bug its name says; no specification uses them.  *)

Selected_First(names) == Min(names)
NeedsAttention_ErrorsAreNone(s) == s.dirty \/ s.ahead > 0 \/ s.remote = 0
Remaining_WholeTimeout == TimeoutMs

-------------------------------------------------------------------------------
(* git: external. Of a repository, partial are the remotes with a partial- *)
(* clone filter, "gone" is an upstream whose tracking branch no longer     *)
(* exists, and warns that git has something to say on stderr, which the    *)
(* runner merges into the output.                                          *)
(* An output is the set of its lines: git prints each header once, and no  *)
(* parser minds where a line stands.                                       *)

Said(r, lines) == IF r.warns THEN lines \cup {[key |-> "warning", value |-> 0]} ELSE lines

FetchSuffix(r, n) == IF n \in r.partial THEN "(fetch) [blob:none]" ELSE "(fetch)"

RemoteLines(r) ==
  Said(r, {[key |-> "remote", value |-> n, suffix |-> FetchSuffix(r, n)] : n \in r.remotes}
            \cup {[key |-> "remote", value |-> n, suffix |-> "(push)"] : n \in r.remotes})

Tracks(r) == r.head = "branch" /\ r.upstream # "none"

StatusLines(r) ==
  LET line(condition, key, value) ==
        IF condition THEN {[key |-> key, value |-> value]} ELSE {}
  IN  Said(r, line(TRUE, "branch.oid", 0)
                \cup line(TRUE, "branch.head", r.head)
                \cup line(Tracks(r), "branch.upstream", 0)
                \cup line(Tracks(r) /\ r.upstream = "set", "branch.ab", r.ahead)
                \cup line(r.changes, "1", 0))

-------------------------------------------------------------------------------
(* Parsing. Both programs keep the first URL of each fetch line's remote,  *)
(* and prefer origin to the first by name.                                 *)
IsFetch(line) == line.key = "remote" /\ line.suffix = "(fetch)"

Selected(names) == IF Origin \in names THEN Origin ELSE Min(names)

ParseRemotes(s, lines) ==
  LET names == {line.value : line \in {l \in lines : IsFetch(l)}}
  IN  [s EXCEPT !.remote = IF names = {} THEN 0 ELSE Selected(names)]

(* Header lines start with "#"; any other line that is not empty counts.   *)
(* git prints the numbers of branch.ab as numbers.                         *)
IsEntry(line) == line.key \notin {"branch.oid", "branch.head", "branch.upstream", "branch.ab"}

HasHeader(lines, key) == \E line \in lines : line.key = key

Header(lines, key, default) ==
  IF HasHeader(lines, key) THEN (CHOOSE line \in lines : line.key = key).value ELSE default

UpstreamState(lines) ==
  IF Header(lines, "branch.head", "branch") = "detached" THEN "detached"
  ELSE IF HasHeader(lines, "branch.upstream") THEN "ok" ELSE "missing"

ParseStatus(s, lines) ==
  [s EXCEPT !.dirty = \E line \in lines : IsEntry(line),
            !.ahead = Header(lines, "branch.ab", 0),
            !.upstream_state = UpstreamState(lines)]

FailStatus(s, error) ==
  [s EXCEPT !.worktree_error = error, !.upstream_error = error, !.upstream_state = "error"]

(* What the table and the summary make of a status.                        *)
NeedsAttention(s) ==
  \/ s.dirty \/ s.ahead > 0 \/ s.remote = 0
  \/ s.remote_error # NoError \/ s.worktree_error # NoError \/ s.upstream_error # NoError

RemoteCell(s) == IF s.remote_error # NoError \/ s.remote = 0 THEN "red" ELSE "plain"

WorktreeCell(s) == IF s.worktree_error # NoError \/ s.dirty THEN "red" ELSE "green"

UnpushedCell(s) ==
  CASE s.upstream_error # NoError \/ s.upstream_state = "error" -> "red"
    [] s.upstream_error = NoError /\ s.upstream_state \in {"detached", "missing"} -> "yellow"
    [] s.upstream_error = NoError /\ s.upstream_state = "ok" ->
         IF s.ahead > 0 THEN "red" ELSE "green"

(* Issues of a status: the checks that failed, grouped by message.         *)
Messages(s) == {s.remote_error, s.worktree_error, s.upstream_error} \ {NoError}

-------------------------------------------------------------------------------
Init ==
  /\ repository \in Repositories
  /\ cancelled = FALSE
  /\ now = 0
  /\ deadline = TimeoutMs * TicksPerMs
  /\ step = "remote"
  /\ command = "returned" /\ exit = "none" /\ expired = FALSE /\ answer = "none"
  /\ budget = 0 /\ handed = 0 /\ started = 0
  /\ status = [remote |-> 0, remote_error |-> NoError, dirty |-> FALSE, worktree_error |-> NoError,
               upstream_state |-> "ok", ahead |-> 0, upstream_error |-> NoError]

Tick ==
  /\ now < MaxTicks
  /\ now' = now + 1
  /\ UNCHANGED <<repository, deadline, budget, handed, started, step, status, commandVars>>

(* The result of a command, applied to the status; the second command is   *)
(* run whatever became of the first.                                       *)
Fail(error) ==
  \/ /\ step = "remote"
     /\ status' = [status EXCEPT !.remote_error = error]
     /\ step' = "status"
  \/ /\ step = "status"
     /\ status' = FailStatus(status, error)
     /\ step' = "done"

Succeed ==
  \/ /\ step = "remote"
     /\ status' = ParseRemotes(status, RemoteLines(repository))
     /\ step' = "status"
  \/ /\ step = "status"
     /\ status' = ParseStatus(status, StatusLines(repository))
     /\ step' = "done"

(* duration_cast to milliseconds truncates.                                *)
Remaining == IF deadline > now THEN (deadline - now) \div TicksPerMs ELSE 0

(* run_before_deadline *)
BetweenCommands == command = "returned" /\ step # "done"

TooLate ==
  /\ BetweenCommands
  /\ \/ cancelled /\ Fail(<<"interrupted">>)
     \/ ~cancelled /\ Remaining = 0 /\ Fail(<<"timed out", TimeoutMs>>)
  /\ UNCHANGED <<repository, timing, commandVars>>

RunBeforeDeadline ==
  /\ BetweenCommands
  /\ ~cancelled /\ Remaining > 0
  /\ budget' = Remaining /\ handed' = now
  /\ command' = "called" /\ exit' = "none" /\ expired' = FALSE /\ answer' = "none"
  /\ UNCHANGED <<repository, now, deadline, started, step, status, cancelled>>

(* The runner takes a deadline of its own once git has been started.       *)
RunnerLaunches ==
  /\ Launch
  /\ started' = now
  /\ UNCHANGED <<repository, now, deadline, budget, handed, step, status>>

RunnerWorks ==
  /\ \/ End \/ Collect
     \/ Expire /\ now >= started + budget * TicksPerMs
  /\ UNCHANGED <<repository, timing, step, status>>

(* What completed_result and the runner's early returns make of an answer. *)
ErrorOf(a) ==
  CASE a = "exit" -> <<"exit status">>
    [] a = "start" -> <<"start Git">>
    [] a = "wait" -> <<"wait for Git">>
    [] a = "timeout" -> <<"timed out", budget>>
    [] a = "interrupted" -> <<"interrupted">>

RunnerReturns ==
  /\ Refuse \/ Answer
  /\ IF answer' = "ok" THEN Succeed ELSE Fail(ErrorOf(answer'))
  /\ UNCHANGED <<repository, timing>>

CtrlC == Interrupt /\ UNCHANGED <<repository, timing, step, status>>

Next ==
  \/ Tick \/ CtrlC
  \/ TooLate \/ RunBeforeDeadline
  \/ RunnerLaunches \/ RunnerWorks \/ RunnerReturns

Spec == Init /\ [][Next]_vars

-------------------------------------------------------------------------------
Done == step = "done"

RemoteIsTrue ==
  Done /\ status.remote_error = NoError =>
    /\ status.remote = 0 <=> repository.remotes = {}
    /\ Origin \in repository.remotes => status.remote = Origin

WorktreeIsTrue ==
  Done /\ status.worktree_error = NoError => status.dirty = repository.changes

BranchIsTrue ==
  Done /\ status.upstream_error = NoError =>
    /\ status.upstream_state = "detached" <=> repository.head = "detached"
    /\ status.upstream_state = "ok" <=> Tracks(repository)
    /\ status.ahead = IF Tracks(repository) /\ repository.upstream = "set"
                      THEN repository.ahead ELSE 0

(* README.md:85-90: whatever becomes of the other command, what a check    *)
(* reports without an error is the state of the repository: its remote,    *)
(* whether it is dirty, its upstream and the commits to push.              *)
StatusIsTrue == RemoteIsTrue /\ WorktreeIsTrue /\ BranchIsTrue

(* README.md:85-86: "No Remote means no Git remotes are configured" and    *)
(* "Dirty means git status --porcelain returned at least one entry": a     *)
(* check in which nothing failed says both as they are.                    *)
CleanCheckIsTrue == Done /\ Messages(status) = {} => RemoteIsTrue /\ WorktreeIsTrue

(* The number "N need attention", --dirty-only and the table agree: a      *)
(* repository counts exactly if one of its cells is red (app.cpp:245-277,  *)
(* 423-426).                                                               *)
AttentionIsVisible ==
  Done => (NeedsAttention(status)
             <=> "red" \in {RemoteCell(status), WorktreeCell(status), UnpushedCell(status)})

(* The two commands share one deadline: neither is given more than is left *)
(* of the timeout, and when the first has used it up the second is not run *)
(* at all, however long the launch of the process took and whatever the    *)
(* rounding to milliseconds has cut off (app.cpp:232-242).                 *)
TimedOut(error) == error # NoError /\ error[1] = "timed out"

SharedDeadline ==
  /\ budget > 0 => handed + budget * TicksPerMs <= deadline
  /\ Done /\ TimedOut(status.remote_error) =>
       status.worktree_error \in {<<"timed out", TimeoutMs>>, <<"interrupted">>}

===============================================================================
