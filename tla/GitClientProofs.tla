---------------------------- MODULE GitClientProofs ----------------------------
(***************************************************************************)
(* Proofs about GitClient, for every set of repositories, with any number  *)
(* of remotes, every timeout and every resolution of the clock.            *)
(***************************************************************************)
EXTENDS GitClient, WellFoundedInduction, TLAPS

UnderWay == {"running", "ended", "collected"}

Fields == {"remote", "remote_error", "dirty", "worktree_error", "upstream_state", "ahead",
           "upstream_error"}

Typed ==
  /\ repository \in Repositories
  /\ now \in Nat /\ deadline \in Nat /\ budget \in Nat /\ handed \in Nat /\ started \in Nat
  /\ step \in {"remote", "status", "done"}
  /\ command \in {"called", "returned"} \cup UnderWay
  /\ expired \in BOOLEAN
  /\ DOMAIN status = Fields

(* Reading the same output again would change nothing: what a command that *)
(* succeeded has printed is in the status, and nothing of a failed one.    *)
StatusKnown ==
  /\ step = "remote" => status.remote_error = NoError
  /\ step # "remote" /\ status.remote_error = NoError =>
       status.remote = ParseRemotes(status, RemoteLines(repository)).remote
  /\ step # "done" =>
       /\ status.worktree_error = NoError /\ status.upstream_error = NoError
       /\ status.dirty = FALSE /\ status.ahead = 0
  /\ step = "done" =>
       \/ /\ status.worktree_error # NoError /\ status.upstream_error # NoError
          /\ status.upstream_state = "error" /\ status.dirty = FALSE /\ status.ahead = 0
       \/ /\ status.worktree_error = NoError /\ status.upstream_error = NoError
          /\ status.dirty = (\E line \in StatusLines(repository) : IsEntry(line))
          /\ status.ahead = Header(StatusLines(repository), "branch.ab", 0)
          /\ status.upstream_state = UpstreamState(StatusLines(repository))

(* Less than a millisecond is left: Remaining rounds it to 0.              *)
UsedUp == deadline < now + TicksPerMs

(* A command has been given all that was left, to the millisecond, so one  *)
(* that times out leaves less than a millisecond to the next.              *)
Timely ==
  /\ budget > 0 => handed + budget * TicksPerMs <= deadline
  /\ command # "returned" =>
       handed <= now /\ deadline < handed + budget * TicksPerMs + TicksPerMs /\ step # "done"
  /\ command \in UnderWay => handed <= started
  /\ command = "called" => ~expired
  /\ command \in UnderWay /\ expired => UsedUp
  /\ step = "status" /\ TimedOut(status.remote_error) => command = "returned" /\ UsedUp

IInv == Typed /\ StatusKnown /\ Timely /\ SharedDeadline

-------------------------------------------------------------------------------
(* duration_cast: the milliseconds left, rounded down.                     *)
LEMMA RemainingFacts ==
  ASSUME now \in Nat, deadline \in Nat
  PROVE  /\ Remaining \in Nat
         /\ Remaining > 0 => now + Remaining * TicksPerMs <= deadline
         /\ deadline < now + Remaining * TicksPerMs + TicksPerMs
         /\ UsedUp <=> Remaining = 0
<1>1. TicksPerMs \in Nat \ {0}
  BY GitClientAssumption
<1>2. CASE deadline > now
  <2> PICK left \in Nat : left = deadline - now
    BY <1>2
  <2>1. /\ left \div TicksPerMs \in Nat
        /\ (left \div TicksPerMs) * TicksPerMs <= left
        /\ left < (left \div TicksPerMs) * TicksPerMs + TicksPerMs
        /\ left < TicksPerMs <=> left \div TicksPerMs = 0
    BY <1>1
  <2>2. Remaining = left \div TicksPerMs
    BY <1>2 DEF Remaining
  <2> QED
    BY <1>1, <1>2, <2>1, <2>2 DEF UsedUp
<1>3. CASE ~(deadline > now)
  <2>1. Remaining = 0
    BY <1>3 DEF Remaining
  <2>2. Remaining * TicksPerMs = 0
    BY <1>1, <2>1
  <2> QED
    BY <1>1, <1>3, <2>1, <2>2 DEF UsedUp
<1> QED
  BY <1>2, <1>3

LEMMA InitIInv == Init => IInv
<1> SUFFICES ASSUME Init PROVE IInv
  OBVIOUS
<1>1. Typed
  <2>1. TimeoutMs * TicksPerMs \in Nat
    BY GitClientAssumption
  <2> QED
    BY <2>1 DEF Init, Typed, Fields
<1>2. StatusKnown
  BY DEF Init, StatusKnown
<1>3. Timely /\ SharedDeadline
  BY DEF Init, Timely, SharedDeadline, Done, UnderWay
<1> QED
  BY <1>1, <1>2, <1>3 DEF IInv

(* A command has failed: nothing is read from it.                          *)
LEMMA Failing ==
  ASSUME Typed, StatusKnown, NEW error, Fail(error), error # NoError, UNCHANGED repository
  PROVE  /\ StatusKnown' /\ DOMAIN status' = Fields /\ step' \in {"status", "done"}
         /\ step = "remote" => step' = "status" /\ status'.remote_error = error
         /\ step = "status" =>
              /\ step' = "done" /\ status'.worktree_error = error
              /\ status'.remote_error = status.remote_error
<1>1. CASE step = "remote"
  <2>1. step' = "status" /\ status' = [status EXCEPT !.remote_error = error]
    BY <1>1 DEF Fail
  <2> QED
    BY <1>1, <2>1 DEF Typed, Fields, StatusKnown
<1>2. CASE step = "status"
  <2>1. step' = "done" /\ status' = FailStatus(status, error)
    BY <1>2 DEF Fail
  <2>2. ParseRemotes(status', RemoteLines(repository)').remote
          = ParseRemotes(status, RemoteLines(repository)).remote
    BY <1>2, <2>1 DEF ParseRemotes, RemoteLines, FailStatus, Typed, Fields
  <2> QED
    BY <1>2, <2>1, <2>2 DEF Typed, Fields, StatusKnown, FailStatus
<1> QED
  BY <1>1, <1>2 DEF Fail

LEMMA Succeeding ==
  ASSUME Typed, StatusKnown, Succeed, UNCHANGED repository
  PROVE  /\ StatusKnown' /\ DOMAIN status' = Fields /\ step' \in {"status", "done"}
         /\ status'.remote_error = status.remote_error
         /\ step = "remote" => step' = "status" /\ status'.remote_error = NoError
         /\ step = "status" => step' = "done" /\ status'.worktree_error = NoError
<1>1. CASE step = "remote"
  <2> DEFINE lines == RemoteLines(repository)
  <2>1. step' = "status" /\ status' = ParseRemotes(status, lines)
    BY <1>1 DEF Succeed
  <2>2. status'.remote = ParseRemotes(status', lines).remote
    BY <2>1 DEF ParseRemotes, Typed, Fields
  <2> QED
    BY <1>1, <2>1, <2>2 DEF Typed, Fields, StatusKnown, ParseRemotes
<1>2. CASE step = "status"
  <2>1. step' = "done" /\ status' = ParseStatus(status, StatusLines(repository))
    BY <1>2 DEF Succeed
  <2>2. ParseRemotes(status', RemoteLines(repository)).remote
          = ParseRemotes(status, RemoteLines(repository)).remote
    BY <2>1 DEF ParseRemotes, ParseStatus, Typed, Fields
  <2> QED
    BY <1>2, <2>1, <2>2 DEF Typed, Fields, StatusKnown, ParseStatus
<1> QED
  BY <1>1, <1>2 DEF Succeed

LEMMA StepTick == ASSUME IInv, Tick PROVE IInv'
<1>1. Typed' /\ StatusKnown' /\ SharedDeadline'
  <2>1. UNCHANGED <<repository, deadline, budget, handed, started, step, status, commandVars>>
        /\ now' = now + 1
    BY DEF Tick
  <2>2. Typed'
    BY <2>1 DEF IInv, Typed, commandVars
  <2> QED
    BY <2>1, <2>2 DEF IInv, StatusKnown, SharedDeadline, Done
<1>2. now' = now + 1 /\ now \in Nat /\ deadline \in Nat /\ deadline' = deadline /\ handed \in Nat
  BY DEF IInv, Typed, Tick
<1>3. UsedUp => UsedUp'
  BY <1>2, GitClientAssumption DEF UsedUp
<1>4. Timely'
  BY <1>2, <1>3 DEF IInv, Tick, Timely, commandVars
<1> QED
  BY <1>1, <1>4 DEF IInv

LEMMA StepTooLate == ASSUME IInv, TooLate PROVE IInv'
<1>1. PICK error \in {<<"interrupted">>, <<"timed out", TimeoutMs>>} :
        Fail(error) /\ (error # <<"interrupted">> => Remaining = 0)
  BY DEF TooLate
<1>2. /\ command = "returned" /\ step # "done"
      /\ UNCHANGED <<repository, now, deadline, budget, handed, started, commandVars>>
  BY DEF TooLate, BetweenCommands, timing
<1>3. /\ StatusKnown' /\ DOMAIN status' = Fields /\ step' \in {"status", "done"}
      /\ step = "remote" => step' = "status" /\ status'.remote_error = error
      /\ step = "status" =>
           /\ step' = "done" /\ status'.worktree_error = error
           /\ status'.remote_error = status.remote_error
  BY <1>1, <1>2, Failing DEF IInv, NoError
<1>4. Typed'
  BY <1>2, <1>3 DEF IInv, Typed, commandVars
<1>5. TimedOut(error) => UsedUp
  <2>1. CASE error = <<"interrupted">>
    BY <2>1 DEF TimedOut
  <2>2. CASE error # <<"interrupted">>
    BY <1>1, <2>2, RemainingFacts DEF IInv, Typed
  <2> QED
    BY <2>1, <2>2
<1>6. UsedUp' = UsedUp /\ command' = command
  BY <1>2 DEF UsedUp, commandVars
<1>7. Timely'
  BY <1>2, <1>3, <1>5, <1>6 DEF IInv, Typed, Timely, UnderWay
<1>8. SharedDeadline'
  BY <1>1, <1>2, <1>3 DEF IInv, Typed, SharedDeadline, Done
<1> QED
  BY <1>3, <1>4, <1>7, <1>8 DEF IInv

LEMMA StepRunBeforeDeadline == ASSUME IInv, RunBeforeDeadline PROVE IInv'
<1>1. /\ command = "returned" /\ step # "done" /\ Remaining > 0
      /\ budget' = Remaining /\ handed' = now /\ command' = "called" /\ expired' = FALSE
      /\ UNCHANGED <<repository, now, deadline, started, step, status>>
  BY DEF RunBeforeDeadline, BetweenCommands
<1>2. /\ Remaining \in Nat /\ now \in Nat /\ deadline \in Nat
      /\ now + Remaining * TicksPerMs <= deadline
      /\ deadline < now + Remaining * TicksPerMs + TicksPerMs
      /\ ~UsedUp
  BY <1>1, RemainingFacts DEF IInv, Typed
<1>3. Typed' /\ StatusKnown'
  BY <1>1, <1>2 DEF IInv, Typed, StatusKnown
<1>4. Timely'
  BY <1>1, <1>2 DEF IInv, Timely, UnderWay
<1>5. SharedDeadline'
  BY <1>1, <1>2 DEF IInv, SharedDeadline, Done
<1> QED
  BY <1>3, <1>4, <1>5 DEF IInv

LEMMA StepRunnerLaunches == ASSUME IInv, RunnerLaunches PROVE IInv'
<1>1. /\ command = "called" /\ command' = "running" /\ started' = now
      /\ UNCHANGED <<repository, now, deadline, budget, handed, step, status, expired>>
  BY DEF RunnerLaunches, Launch
<1>2. Typed' /\ StatusKnown' /\ SharedDeadline'
  BY <1>1 DEF IInv, Typed, StatusKnown, SharedDeadline, Done, UnderWay
<1>3. Timely'
  BY <1>1 DEF IInv, Timely, UnderWay, UsedUp
<1> QED
  BY <1>2, <1>3 DEF IInv

(* The runner's deadline is no earlier than what the call was given.       *)
LEMMA StepRunnerWorks == ASSUME IInv, RunnerWorks PROVE IInv'
<1>1. UNCHANGED <<repository, now, deadline, budget, handed, started, step, status>>
  BY DEF RunnerWorks, timing
<1>2. command \in UnderWay /\ command' \in UnderWay /\ expired' \in {expired, TRUE}
  BY DEF RunnerWorks, End, Collect, Expire, UnderWay
<1>3. expired' => expired \/ now >= started + budget * TicksPerMs
  BY DEF RunnerWorks, End, Collect
<1>4. Typed' /\ StatusKnown' /\ SharedDeadline'
  BY <1>1, <1>2 DEF IInv, Typed, StatusKnown, SharedDeadline, Done
<1>5. expired' => UsedUp
  <2>1. CASE expired
    BY <1>2, <2>1 DEF IInv, Timely
  <2>2. CASE now >= started + budget * TicksPerMs
    <3>1. PICK time \in Nat : time = budget * TicksPerMs
      BY GitClientAssumption DEF IInv, Typed
    <3>2. handed <= started /\ deadline < handed + time + TicksPerMs
      BY <1>2, <3>1 DEF IInv, Timely, UnderWay
    <3>3. TicksPerMs \in Nat
      BY GitClientAssumption
    <3> QED
      BY <2>2, <3>1, <3>2, <3>3 DEF IInv, Typed, UsedUp
  <2> QED
    BY <1>3, <2>1, <2>2
<1>6. Timely'
  BY <1>1, <1>2, <1>5 DEF IInv, Timely, UnderWay, UsedUp
<1> QED
  BY <1>4, <1>6 DEF IInv

LEMMA StepRunnerReturns == ASSUME IInv, RunnerReturns PROVE IInv'
<1>1. /\ command' = "returned" /\ step # "done" /\ command # "returned"
      /\ UNCHANGED <<repository, now, deadline, budget, handed, started, expired>>
  BY DEF RunnerReturns, Refuse, Answer, timing, IInv, Timely
<1>2. /\ answer' \in {"start", "ok", "exit", "interrupted", "timeout", "wait"}
      /\ answer' = "timeout" => expired /\ command \in UnderWay
  BY DEF RunnerReturns, Refuse, Answer, Honest, UnderWay
<1>3. CASE answer' = "ok"
  <2>1. Succeed
    BY <1>3 DEF RunnerReturns
  <2>2. /\ StatusKnown' /\ DOMAIN status' = Fields /\ step' \in {"status", "done"}
        /\ status'.remote_error = status.remote_error
        /\ step = "remote" => step' = "status" /\ status'.remote_error = NoError
        /\ step = "status" => step' = "done"
    BY <1>1, <2>1, Succeeding DEF IInv
  <2>3. Typed'
    BY <1>1, <2>2 DEF IInv, Typed
  <2>4. ~TimedOut(status'.remote_error)
    BY <1>1, <2>2 DEF IInv, Typed, Timely, TimedOut
  <2>5. Timely' /\ SharedDeadline'
    BY <1>1, <2>2, <2>4 DEF IInv, Timely, SharedDeadline, UnderWay
  <2> QED
    BY <2>2, <2>3, <2>5 DEF IInv
<1>4. CASE answer' # "ok"
  <2> PICK error : error = ErrorOf(answer')
    OBVIOUS
  <2>1. error # NoError /\ (TimedOut(error) => answer' = "timeout")
    BY <1>2, <1>4 DEF ErrorOf, NoError, TimedOut
  <2>2. Fail(error)
    BY <1>4 DEF RunnerReturns
  <2>3. /\ StatusKnown' /\ DOMAIN status' = Fields /\ step' \in {"status", "done"}
        /\ step = "remote" => step' = "status" /\ status'.remote_error = error
        /\ step = "status" => step' = "done" /\ status'.remote_error = status.remote_error
    BY <1>1, <2>1, <2>2, Failing DEF IInv
  <2>4. Typed'
    BY <1>1, <2>3 DEF IInv, Typed
  <2>5. TimedOut(error) => UsedUp'
    BY <1>1, <1>2, <2>1 DEF IInv, Timely, UsedUp
  <2>6. step = "status" => ~TimedOut(status.remote_error)
    BY <1>1 DEF IInv, Timely
  <2>7. Timely' /\ SharedDeadline'
    BY <1>1, <2>3, <2>5, <2>6 DEF IInv, Typed, Timely, SharedDeadline, UnderWay, Done
  <2> QED
    BY <2>3, <2>4, <2>7 DEF IInv
<1> QED
  BY <1>3, <1>4

LEMMA NextIInv == IInv /\ [Next]_vars => IInv'
<1> SUFFICES ASSUME IInv, [Next]_vars PROVE IInv'
  OBVIOUS
<1>1. CASE CtrlC \/ UNCHANGED vars
  <2>1. UNCHANGED <<repository, now, deadline, budget, handed, started, step, status, command,
                    expired>>
    BY <1>1 DEF CtrlC, Interrupt, vars, timing, commandVars
  <2> QED
    BY <2>1 DEF IInv, Typed, StatusKnown, Timely, SharedDeadline, Done, UsedUp
<1> QED
  BY <1>1, StepTick, StepTooLate, StepRunBeforeDeadline, StepRunnerLaunches, StepRunnerWorks,
     StepRunnerReturns
  DEF Next

-------------------------------------------------------------------------------
(* Reading what git prints.                                                *)

(* Min, defined by CHOOSE, is one of the numbers.                          *)
LEMMA MinOfNumbers ==
  ASSUME NEW S, S \subseteq Nat, S # {}
  PROVE  Min(S) \in S
<1> DEFINE less == {pair \in Nat \X Nat : pair[1] < pair[2]}
<1>0. IsWellFoundedOn(less, Nat)
  BY NatLessThanWellFounded DEF OpToRel
<1> HIDE DEF less
<1>1. PICK least \in S : \A n \in S : ~(<<n, least>> \in less)
  BY <1>0, WFMin
<1>2. ASSUME NEW n \in S PROVE least <= n
  <2>1. ~(n < least)
    <3>1. <<n, least>> \in Nat \X Nat /\ <<n, least>>[1] = n /\ <<n, least>>[2] = least
      OBVIOUS
    <3> QED
      BY <1>1, <3>1 DEF less
  <2> QED
    BY <2>1
<1> QED
  BY <1>2 DEF Min

(* A header git prints once is read back as it is.                         *)
LEMMA OneHeader ==
  ASSUME NEW lines, NEW key, NEW value, NEW default,
         [key |-> key, value |-> value] \in lines,
         \A line \in lines : line.key = key => line.value = value
  PROVE  HasHeader(lines, key) /\ Header(lines, key, default) = value
<1>1. HasHeader(lines, key)
  BY DEF HasHeader
<1>2. Header(lines, key, default) = (CHOOSE line \in lines : line.key = key).value
  BY <1>1 DEF Header
<1>3. PICK read : read = CHOOSE line \in lines : line.key = key
  OBVIOUS
<1>4. read \in lines /\ read.key = key
  BY <1>1, <1>3 DEF HasHeader
<1> QED
  BY <1>1, <1>2, <1>3, <1>4

(* What a line of git status can be ...                                    *)
LEMMA LinesOfStatus ==
  ASSUME NEW r
  PROVE  \A line \in StatusLines(r) :
           \/ line = [key |-> "warning", value |-> 0] /\ r.warns
           \/ line = [key |-> "branch.oid", value |-> 0]
           \/ line = [key |-> "branch.head", value |-> r.head]
           \/ line = [key |-> "branch.upstream", value |-> 0] /\ Tracks(r)
           \/ line = [key |-> "branch.ab", value |-> r.ahead] /\ Tracks(r) /\ r.upstream = "set"
           \/ line = [key |-> "1", value |-> 0] /\ r.changes
BY Zenon DEF StatusLines, Said

(* ... and every line it does print.                                      *)
LEMMA HeadersOfStatus ==
  ASSUME NEW r
  PROVE  /\ [key |-> "branch.head", value |-> r.head] \in StatusLines(r)
         /\ Tracks(r) => [key |-> "branch.upstream", value |-> 0] \in StatusLines(r)
         /\ Tracks(r) /\ r.upstream = "set" =>
              [key |-> "branch.ab", value |-> r.ahead] \in StatusLines(r)
         /\ r.changes => [key |-> "1", value |-> 0] \in StatusLines(r)
BY Zenon DEF StatusLines, Said

(* The branch is read as it is, whatever else git prints.                  *)
LEMMA BranchRead ==
  ASSUME NEW r \in Repositories
  PROVE  LET lines == StatusLines(r)
         IN  /\ Header(lines, "branch.head", "branch") = r.head
             /\ HasHeader(lines, "branch.upstream") <=> Tracks(r)
             /\ Header(lines, "branch.ab", 0) =
                  IF Tracks(r) /\ r.upstream = "set" THEN r.ahead ELSE 0
<1> DEFINE lines == StatusLines(r)
<1>1. \A line \in lines :
           \/ line = [key |-> "warning", value |-> 0] /\ r.warns
           \/ line = [key |-> "branch.oid", value |-> 0]
           \/ line = [key |-> "branch.head", value |-> r.head]
           \/ line = [key |-> "branch.upstream", value |-> 0] /\ Tracks(r)
           \/ line = [key |-> "branch.ab", value |-> r.ahead] /\ Tracks(r) /\ r.upstream = "set"
           \/ line = [key |-> "1", value |-> 0] /\ r.changes
  BY LinesOfStatus
<1>2. Header(lines, "branch.head", "branch") = r.head
  <2>1. [key |-> "branch.head", value |-> r.head] \in lines
    BY HeadersOfStatus
  <2>2. \A line \in lines : line.key = "branch.head" => line.value = r.head
    BY <1>1
  <2> QED
    BY <2>1, <2>2, OneHeader
<1>3. HasHeader(lines, "branch.upstream") <=> Tracks(r)
  <2>1. Tracks(r) => [key |-> "branch.upstream", value |-> 0] \in lines
    BY HeadersOfStatus, Zenon
  <2>2. ~Tracks(r) => \A line \in lines : line.key # "branch.upstream"
    BY <1>1
  <2> QED
    BY <2>1, <2>2 DEF HasHeader, Tracks
<1>4. CASE Tracks(r) /\ r.upstream = "set"
  <2>1. [key |-> "branch.ab", value |-> r.ahead] \in lines
    BY <1>4, HeadersOfStatus
  <2>2. \A line \in lines : line.key = "branch.ab" => line.value = r.ahead
    BY <1>1
  <2>3. Header(lines, "branch.ab", 0) = r.ahead
    BY <2>1, <2>2, OneHeader
  <2> QED
    BY <1>2, <1>3, <1>4, <2>3
<1>5. CASE ~(Tracks(r) /\ r.upstream = "set")
  <2>1. ~HasHeader(lines, "branch.ab")
    BY <1>1, <1>5 DEF HasHeader
  <2> QED
    BY <1>2, <1>3, <1>5, <2>1 DEF Header
<1> QED
  BY <1>4, <1>5

LEMMA ErrorsAreVisible ==
  ASSUME IInv
  PROVE  BranchIsTrue /\ AttentionIsVisible
<1> SUFFICES ASSUME Done PROVE BranchIsTrue /\ AttentionIsVisible
  BY DEF BranchIsTrue, AttentionIsVisible
<1>1. CASE /\ status.worktree_error # NoError /\ status.upstream_error # NoError
           /\ status.upstream_state = "error" /\ status.dirty = FALSE /\ status.ahead = 0
  BY <1>1 DEF BranchIsTrue, AttentionIsVisible, NeedsAttention, RemoteCell, WorktreeCell,
              UnpushedCell
<1>2. CASE /\ status.worktree_error = NoError /\ status.upstream_error = NoError
           /\ status.ahead = Header(StatusLines(repository), "branch.ab", 0)
           /\ status.upstream_state = UpstreamState(StatusLines(repository))
  <2>1. /\ repository \in Repositories /\ repository.head \in {"branch", "detached"}
        /\ repository.ahead \in Nat
    BY GitClientAssumption DEF IInv, Typed, Repository
  <2>2. /\ status.ahead = IF Tracks(repository) /\ repository.upstream = "set"
                          THEN repository.ahead ELSE 0
        /\ status.upstream_state = IF repository.head = "detached" THEN "detached"
                                   ELSE IF Tracks(repository) THEN "ok" ELSE "missing"
    BY <1>2, <2>1, BranchRead DEF UpstreamState
  <2>3. Tracks(repository) => repository.head = "branch"
    BY DEF Tracks
  <2>4. BranchIsTrue
    BY <2>1, <2>2, <2>3 DEF BranchIsTrue
  <2>5. /\ status.upstream_state \in {"detached", "missing", "ok"}
        /\ status.upstream_state # "ok" => status.ahead = 0
        /\ status.ahead \in Nat
    BY <2>1, <2>2, <2>3
  <2>6. "red" = UnpushedCell(status) <=> status.ahead > 0
    BY <1>2, <2>5 DEF UnpushedCell
  <2>7. /\ "red" = RemoteCell(status) <=> status.remote_error # NoError \/ status.remote = 0
        /\ "red" = WorktreeCell(status) <=> status.dirty
    BY <1>2 DEF RemoteCell, WorktreeCell
  <2> QED
    BY <1>2, <2>4, <2>6, <2>7 DEF AttentionIsVisible, NeedsAttention
<1> QED
  BY <1>1, <1>2 DEF IInv, StatusKnown, Done

(* Without a partial clone and without a warning, the remotes are read as  *)
(* they are: the one picked is one of them.                                *)
LEMMA RemotesRead ==
  ASSUME NEW r \in Repositories, r.partial = {}, ~r.warns, NEW s, "remote" \in DOMAIN s
  PROVE  LET remote == ParseRemotes(s, RemoteLines(r)).remote
         IN  /\ remote = 0 <=> r.remotes = {}
             /\ Origin \in r.remotes => remote = Origin
<1> DEFINE names == {line.value : line \in {l \in RemoteLines(r) : IsFetch(l)}}
<1>1. r.remotes \subseteq Nat \ {0}
  BY GitClientAssumption DEF Repository
<1>2. RemoteLines(r) =
        {[key |-> "remote", value |-> n, suffix |-> "(fetch)"] : n \in r.remotes}
          \cup {[key |-> "remote", value |-> n, suffix |-> "(push)"] : n \in r.remotes}
  BY DEF RemoteLines, Said, FetchSuffix
<1>3. ASSUME NEW n PROVE n \in names <=> n \in r.remotes
  <2>1. ASSUME n \in r.remotes PROVE n \in names
    <3> DEFINE fetch == [key |-> "remote", value |-> n, suffix |-> "(fetch)"]
    <3>1. fetch \in RemoteLines(r) /\ IsFetch(fetch) /\ fetch.value = n
      BY <1>2, <2>1 DEF IsFetch
    <3> QED
      BY <3>1
  <2>2. ASSUME n \in names PROVE n \in r.remotes
    BY <1>2, <2>2
  <2> QED
    BY <2>1, <2>2
<1>4. names = r.remotes
  BY <1>3
<1>5. ParseRemotes(s, RemoteLines(r)).remote = IF names = {} THEN 0 ELSE Selected(names)
  BY DEF ParseRemotes
<1>6. r.remotes # {} => Selected(r.remotes) \in r.remotes
  BY <1>1, MinOfNumbers DEF Selected
<1>7. Origin \in r.remotes => Selected(r.remotes) = Origin
  BY DEF Selected
<1> QED
  BY <1>1, <1>4, <1>5, <1>6, <1>7

LEMMA OrdinaryIsTrue ==
  ASSUME \A r \in Repositories : r.partial = {} /\ ~r.warns, IInv
  PROVE  StatusIsTrue
<1> SUFFICES ASSUME Done PROVE RemoteIsTrue /\ WorktreeIsTrue
  BY ErrorsAreVisible DEF StatusIsTrue, RemoteIsTrue, WorktreeIsTrue
<1>1. repository \in Repositories /\ repository.partial = {} /\ ~repository.warns
  BY DEF IInv, Typed
<1>2. RemoteIsTrue
  <2>1. SUFFICES ASSUME status.remote_error = NoError PROVE RemoteIsTrue
    BY DEF RemoteIsTrue
  <2>2. status.remote = ParseRemotes(status, RemoteLines(repository)).remote
    BY <2>1 DEF IInv, StatusKnown, Done
  <2>3. "remote" \in DOMAIN status
    BY DEF IInv, Typed, Fields
  <2> QED
    BY <1>1, <2>2, <2>3, RemotesRead DEF RemoteIsTrue
<1>3. WorktreeIsTrue
  <2>1. SUFFICES ASSUME status.worktree_error = NoError PROVE WorktreeIsTrue
    BY DEF WorktreeIsTrue
  <2>2. status.dirty = (\E line \in StatusLines(repository) : IsEntry(line))
    BY <2>1 DEF IInv, StatusKnown, Done
  <2>3. (\E line \in StatusLines(repository) : IsEntry(line)) <=> repository.changes
    <3>1. repository.changes => [key |-> "1", value |-> 0] \in StatusLines(repository)
      BY HeadersOfStatus
    <3>2. IsEntry([key |-> "1", value |-> 0])
      BY DEF IsEntry
    <3>3. \A line \in StatusLines(repository) : IsEntry(line) => repository.changes
      BY <1>1, LinesOfStatus DEF IsEntry
    <3> QED
      BY <3>1, <3>2, <3>3
  <2>4. repository.changes \in BOOLEAN
    BY <1>1, GitClientAssumption DEF Repository
  <2> QED
    BY <2>2, <2>3, <2>4 DEF WorktreeIsTrue
<1> QED
  BY <1>2, <1>3

-------------------------------------------------------------------------------

(* IInv holds throughout every execution.                                  *)
THEOREM Invariance == Spec => []IInv
BY InitIInv, NextIInv, PTL DEF Spec

(* The two commands share one deadline, for every timeout, however coarse  *)
(* the clock and however long a launch takes.                              *)
THEOREM OneDeadline == Spec => []SharedDeadline
<1>1. IInv => SharedDeadline
  BY DEF IInv
<1> QED
  BY <1>1, Invariance, PTL

(* What a check says of the branch without an error is so, for every       *)
(* repository, whatever git has to say besides.                            *)
THEOREM BranchIsTold == Spec => []BranchIsTrue
BY Invariance, ErrorsAreVisible, PTL

(* For repositories without a partial clone, of which git has nothing to   *)
(* warn, a check that reports no error has reported what is there.         *)
THEOREM StatusIsTold ==
  ASSUME \A r \in Repositories : r.partial = {} /\ ~r.warns
  PROVE  Spec => []StatusIsTrue
<1>1. IInv => StatusIsTrue
  BY OrdinaryIsTrue
<1> QED
  BY <1>1, Invariance, PTL

(* A repository needs attention exactly if the table shows it in red.      *)
THEOREM AttentionIsShown == Spec => []AttentionIsVisible
BY Invariance, ErrorsAreVisible, PTL

===============================================================================
