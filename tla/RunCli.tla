-------------------------------- MODULE RunCli --------------------------------
(***************************************************************************)
(* run_cli of the C++ port: parse the options, find git, discover the      *)
(* repositories, have them all checked, report. The checks are the steps   *)
(* of RepositoryScan, which the worker pool implements; Ctrl-C may come at *)
(* any time, and its flag is read only by the pool and once after it.      *)
(***************************************************************************)
EXTENDS RepositoryScan, Integers, Sequences

CONSTANTS
  Repository,   \* the repositories there may be under the scan root
  PathLength,   \* bound: the directories on PATH
  Statuses      \* what the check of a repository may find

ASSUME PathAssumption == PathLength \in Nat

(* What run_cli and the functions it calls read of a RepositoryStatus; of  *)
(* the three errors, whether they are set.                                 *)
Status ==
  [dirty : BOOLEAN, ahead : Nat, has_remote : BOOLEAN,
   remote_error : BOOLEAN, worktree_error : BOOLEAN, upstream_error : BOOLEAN]

(* A slot no thread has filled.                                            *)
Blank ==
  [dirty |-> FALSE, ahead |-> 0, has_remote |-> FALSE,
   remote_error |-> FALSE, worktree_error |-> FALSE, upstream_error |-> FALSE]

(* Both commands of the check have failed.                                 *)
Failed ==
  [Blank EXCEPT !.remote_error = TRUE, !.worktree_error = TRUE, !.upstream_error = TRUE]

ASSUME StatusAssumption == Failed \in Statuses /\ Statuses \subseteq Status

VARIABLES
  step,       \* the next thing run_cli does
  command,    \* the command line: what parse_options makes of it
  platform,
  searchPath, \* what each directory on PATH has under the name of git
  place,      \* the directory on PATH that is looked at, from 1
  binary,     \* what find_git_executable has taken for git
  warnings,   \* discovery.warnings is not empty
  statuses,   \* what check_repositories has for each repository
  displayed,  \* the repositories in the printed table
  counted,    \* the repositories the summary counts as needing attention
  said,       \* what was written to stdout and stderr
  exitCode    \* -1 until the process ends

search == <<platform, searchPath, place, binary>>
printed == <<displayed, counted>>
cliVars == <<step, command, search, warnings, statuses, printed, said, exitCode>>

vars == <<scanVars, cliVars>>

Platform == {"posix", "windows"}
Entry == {"nothing", "plain file", "executable", "directory"}

Command == [parsed : {"help", "invalid", "run"}, dirtyOnly : BOOLEAN]

-------------------------------------------------------------------------------
(* Mutated forms, each the bug its name says; no specification uses them.  *)

ReportAllowed_Always(c) == TRUE
ReportAllowed_IfAllBegun(c) == \A r \in repositories : phase[r] # "unchecked"
NeedsAttention_ErrorsAreNone(s) == s.dirty \/ s.ahead > 0 \/ ~s.has_remote
CleanRun_IgnoresChecks(w, s) == ~w
LastDirectory_OneEarly == place >= Len(searchPath) - 1
Exit_SignalBase(code) == step' = "exited" /\ exitCode' = 128 + code

-------------------------------------------------------------------------------
Init ==
  /\ repositories = {} /\ returned = FALSE
  /\ phase = [r \in repositories |-> "unchecked"]
  /\ cancelled = FALSE
  /\ step = "parse"
  /\ command \in Command
  /\ platform \in Platform
  /\ searchPath \in UNION {[1 .. n -> Entry] : n \in 0 .. PathLength}
  /\ place = 1 /\ binary = "unsearched"
  /\ warnings = FALSE
  /\ statuses = [r \in repositories |-> Blank]
  /\ displayed = {} /\ counted = {}
  /\ said = {}
  /\ exitCode = -1

Exit(code) == step' = "exited" /\ exitCode' = code

Say(messages) == said' = said \cup messages

ParseOptions ==
  /\ step = "parse"
  /\ \/ command.parsed = "help" /\ Exit(0) /\ Say({"usage"})
     \/ command.parsed = "invalid" /\ Exit(2) /\ Say({"usage", "option error"})
     \/ command.parsed = "run" /\ step' = "find git" /\ UNCHANGED <<said, exitCode>>
  /\ UNCHANGED <<scanVars, command, search, warnings, statuses, printed>>

(* find_git_executable goes along PATH, a directory at a time. It takes    *)
(* what passes a test that asks little: access(X_OK), which a directory    *)
(* passes as well, or is_regular_file. A PATH that is not set has no       *)
(* directories, an empty one has one: the current.                         *)
Passes(entry) ==
  \/ entry = "executable"
  \/ platform = "posix" /\ entry = "directory"
  \/ platform = "windows" /\ entry = "plain file"

Looking == step = "find git" /\ place <= Len(searchPath)

(* There is no separator behind the directory.                             *)
LastDirectory == place = Len(searchPath)

GitFound ==
  /\ Looking /\ Passes(searchPath[place])
  /\ binary' = searchPath[place]
  /\ step' = "discover"
  /\ UNCHANGED <<scanVars, command, platform, searchPath, place, warnings, statuses, printed,
                 said, exitCode>>

NextDirectory ==
  /\ Looking /\ ~Passes(searchPath[place]) /\ ~LastDirectory
  /\ place' = place + 1
  /\ UNCHANGED <<scanVars, step, command, platform, searchPath, binary, warnings, statuses,
                 printed, said, exitCode>>

GitMissing ==
  /\ step = "find git"
  /\ \/ searchPath = <<>>
     \/ Looking /\ ~Passes(searchPath[place]) /\ LastDirectory
  /\ binary' = "nothing"
  /\ Exit(1) /\ Say({"no git"})
  /\ UNCHANGED <<scanVars, command, platform, searchPath, place, warnings, statuses, printed>>

(* The scan root cannot be opened.                                         *)
DiscoveryFails ==
  /\ step = "discover"
  /\ Exit(1) /\ Say({"no root"})
  /\ UNCHANGED <<scanVars, command, search, warnings, statuses, printed>>

NothingFound ==
  /\ step = "discover"
  /\ \E walkWarnings \in BOOLEAN :
       /\ warnings' = walkWarnings
       /\ Say({"none found", "timing"} \cup IF walkWarnings THEN {"walk warnings"} ELSE {})
       /\ Exit(IF walkWarnings THEN 1 ELSE 0)
  /\ UNCHANGED <<scanVars, command, search, statuses, printed>>

(* The call of check_repositories.                                         *)
RepositoriesFound ==
  /\ step = "discover"
  /\ repositories' \in SUBSET Repository \ {{}}
  /\ warnings' \in BOOLEAN
  /\ phase' = [r \in repositories' |-> "unchecked"]
  /\ statuses' = [r \in repositories' |-> Blank]
  /\ returned' = FALSE
  /\ step' = "check"
  /\ UNCHANGED <<cancelled, command, search, printed, said, exitCode>>

(* issues() is not empty: a command has failed.                            *)
HasIssues(status) == status.remote_error \/ status.worktree_error \/ status.upstream_error

(* Where git cannot be executed both commands fail; an interrupted check   *)
(* leaves an error.                                                        *)
Found(outcome) ==
  IF binary # "executable" THEN {Failed}
  ELSE IF outcome = "complete" THEN Statuses ELSE {s \in Statuses : HasIssues(s)}

CheckRepositories ==
  /\ step = "check"
  /\ \/ /\ Return \/ \E r \in repositories : Begin(r)
        /\ UNCHANGED statuses
     \/ \E r \in repositories :
          /\ Finish(r)
          /\ \E s \in Found(phase'[r]) : statuses' = [statuses EXCEPT ![r] = s]
  /\ UNCHANGED <<step, command, search, warnings, printed, said, exitCode>>

Tested == step = "check" /\ returned

ReportAllowed(c) == ~c

TestCancelled ==
  /\ Tested
  /\ IF ReportAllowed(cancelled)
     THEN step' = "report" /\ UNCHANGED <<said, exitCode>>
     ELSE Exit(130) /\ Say({"interrupted"})
  /\ UNCHANGED <<scanVars, command, search, warnings, statuses, printed>>

NeedsAttention(status) ==
  \/ status.dirty \/ status.ahead > 0 \/ ~status.has_remote
  \/ status.remote_error \/ status.worktree_error \/ status.upstream_error

CleanRun(walkWarnings, found) == ~walkWarnings /\ \A r \in DOMAIN found : ~HasIssues(found[r])

Attention == {r \in repositories : NeedsAttention(statuses[r])}

Shown == IF command.dirtyOnly THEN Attention ELSE repositories

CheckWarnings ==
  IF \E r \in repositories : HasIssues(statuses[r]) THEN {"check warnings"} ELSE {}

(* The table may be filtered; the summary and the warnings are about all.  *)
Report ==
  /\ step = "report"
  /\ displayed' = Shown /\ counted' = Attention
  /\ Say({"summary", "timing"}
           \cup {IF Shown = {} THEN "no attention" ELSE "table"}
           \cup (IF warnings THEN {"walk warnings"} ELSE {})
           \cup CheckWarnings)
  /\ Exit(IF CleanRun(warnings, statuses) THEN 0 ELSE 1)
  /\ UNCHANGED <<scanVars, command, search, warnings, statuses>>

(* main installs the handler before it calls run_cli.                      *)
PressCtrlC == step # "exited" /\ Interrupt /\ UNCHANGED cliVars

Proceed ==
  \/ ParseOptions \/ GitFound \/ NextDirectory \/ GitMissing
  \/ DiscoveryFails \/ NothingFound \/ RepositoriesFound
  \/ CheckRepositories \/ TestCancelled \/ Report

Next == PressCtrlC \/ Proceed

(* The process runs; that the checks end is WorkerPool's Termination.      *)
Spec == Init /\ [][Next]_vars /\ WF_vars(Proceed)

-------------------------------------------------------------------------------
SearchOK ==
  /\ platform \in Platform
  /\ searchPath \in Seq(Entry)
  /\ place \in Nat \ {0}
  /\ binary \in Entry \cup {"unsearched"}

Errors == {"option error", "no git", "no root", "interrupted"}

TypeOK ==
  /\ step \in {"parse", "find git", "discover", "check", "report", "exited"}
  /\ command \in Command
  /\ SearchOK
  /\ warnings \in BOOLEAN /\ cancelled \in BOOLEAN /\ returned \in BOOLEAN
  /\ repositories \in SUBSET Repository
  /\ phase \in [repositories -> Phase]
  /\ statuses \in [repositories -> Statuses \cup {Blank}]
  /\ displayed \in SUBSET repositories /\ counted \in SUBSET repositories
  /\ said \in SUBSET (Errors \cup {"usage", "none found", "no attention", "table", "summary",
                                   "timing", "walk warnings", "check warnings"})
  /\ exitCode \in {-1, 0, 1, 2, 130}

(* What the user reads is true of every repository: a summary is printed   *)
(* only if each of them was checked to the end, and no status the pool     *)
(* made up (a default one, an interrupted one) gets into the table, the    *)
(* warnings or the exit code (app.cpp:860-880).                            *)
ReportIsGenuine ==
  "summary" \in said \/ step = "report" => \A r \in repositories : phase[r] = "complete"

(* Scripts rely on the exit code: 0 says that nothing went wrong anywhere, *)
(* and that every repository was asked about by a git that could be        *)
(* executed, whatever PATH had in its place (app.cpp:825-880).             *)
SuccessMeansSuccess ==
  exitCode = 0 =>
    /\ ~warnings
    /\ said \cap (Errors \cup {"walk warnings", "check warnings"}) = {}
    /\ \A r \in repositories : phase[r] = "complete" /\ ~HasIssues(statuses[r])
    /\ repositories # {} => binary = "executable"

(* Table, summary, warnings and exit code, each made of its own reading of *)
(* the statuses, go together with --dirty-only as well: what the summary   *)
(* counts is in the table, and nobody reads "No repositories need          *)
(* attention." or a count of 0 over a warned or failed check               *)
(* (app.cpp:865-880).                                                      *)
ReportAddsUp ==
  "summary" \in said =>
    /\ counted \subseteq displayed
    /\ "no attention" \in said => counted = {}
    /\ counted = {} => "check warnings" \notin said
    /\ counted = {} => (exitCode = 0 <=> ~warnings)

(* The git that is used is the first git on PATH (on Windows: git.exe). If *)
(* one can be executed, in the last directory even, it is not said to be   *)
(* missing, and nothing that stands behind it is taken (process.cpp:129).  *)
NoGitPassedOver ==
  \A i \in DOMAIN searchPath :
    searchPath[i] = "executable" =>
      /\ "no git" \notin said
      /\ binary # "unsearched" => place <= i /\ binary = searchPath[place]

(* The scan is over once the user interrupts it: it exits, with code 130,  *)
(* whatever state its checks are in (app.cpp:860-863).                     *)
InterruptedChecksExit130 ==
  (step = "check" /\ cancelled) ~> (step = "exited" /\ exitCode = 130)

(* README.md:92: "an interrupted scan exits with code 130", wherever the   *)
(* interrupt finds it.                                                     *)
InterruptedScanExits130 ==
  (step \in {"discover", "check"} /\ cancelled) ~> (step = "exited" /\ exitCode = 130)

===============================================================================
