----------------------------- MODULE RunCliProofs -----------------------------
(***************************************************************************)
(* Proofs about RunCli, for every set of repositories and every --workers: *)
(* what is printed is genuine, and exit code 0 can be relied on.           *)
(***************************************************************************)
EXTENDS RunCli, TLAPS

(* Nothing has been found before the walk is over.                         *)
NothingYet ==
  step \in {"parse", "find git", "discover"} => repositories = {} /\ ~warnings

(* Until it exits, run_cli has written nothing and has no exit code.       *)
SilentUntilExit == step # "exited" => said = {} /\ exitCode = -1

(* The pool returns with every repository complete unless it was           *)
(* interrupted, and nothing clears the flag.                               *)
ReturnedForAReason ==
  returned => cancelled \/ \A r \in repositories : phase[r] = "complete"

(* Only a git that could be executed gives a status without an issue.      *)
StatusesNeedGit ==
  \A r \in repositories :
    phase[r] = "complete" /\ binary # "executable" => HasIssues(statuses[r])

IInv ==
  /\ TypeOK
  /\ NothingYet
  /\ SilentUntilExit
  /\ ReturnedForAReason
  /\ StatusesNeedGit
  /\ ReportIsGenuine
  /\ SuccessMeansSuccess
  /\ ReportAddsUp

-------------------------------------------------------------------------------
LEMMA InitIInv == Init => IInv
<1> SUFFICES ASSUME Init PROVE IInv
  OBVIOUS
<1>1. searchPath \in Seq(Entry)
  <2>1. PICK n \in 0 .. PathLength : searchPath \in [1 .. n -> Entry]
    BY DEF Init
  <2>2. n \in Nat
    BY <2>1, PathAssumption
  <2> QED BY <2>1, <2>2
<1>2. TypeOK
  <2>1. SearchOK
    BY <1>1 DEF Init, SearchOK
  <2> QED BY <2>1 DEF Init, TypeOK
<1>3. NothingYet /\ SilentUntilExit /\ ReturnedForAReason /\ StatusesNeedGit
  BY DEF Init, NothingYet, SilentUntilExit, ReturnedForAReason, StatusesNeedGit
<1>4. ReportIsGenuine /\ SuccessMeansSuccess /\ ReportAddsUp
  BY DEF Init, ReportIsGenuine, SuccessMeansSuccess, ReportAddsUp
<1> QED BY <1>2, <1>3, <1>4 DEF IInv

LEMMA SearchKept ==
  ASSUME IInv, UNCHANGED search
  PROVE  SearchOK'
BY DEF search, SearchOK, IInv, TypeOK

LEMMA PathFacts ==
  ASSUME SearchOK
  PROVE  Len(searchPath) \in Nat /\ DOMAIN searchPath = 1 .. Len(searchPath) /\ place \in Nat \ {0}
BY DEF SearchOK

(* Of an empty walk there is nothing to say that could be wrong.           *)
LEMMA EmptyWalk ==
  ASSUME repositories' = {}
  PROVE  ReturnedForAReason' /\ StatusesNeedGit' /\ ReportIsGenuine'
<1>1. ReturnedForAReason'
  BY DEF ReturnedForAReason
<1>2. ReportIsGenuine'
  BY DEF ReportIsGenuine
<1>3. StatusesNeedGit'
  BY DEF StatusesNeedGit
<1> QED BY <1>1, <1>2, <1>3

LEMMA NoSummary == ASSUME "summary" \notin said' PROVE ReportAddsUp'
BY DEF ReportAddsUp

(* A signal sets the flag and touches nothing else.                        *)
LEMMA StepPressCtrlC == IInv /\ PressCtrlC => IInv'
<1> SUFFICES ASSUME IInv, PressCtrlC PROVE IInv'
  OBVIOUS
<1>1. TypeOK'
  <2>1. SearchOK'
    BY SearchKept DEF PressCtrlC, cliVars
  <2> QED BY <2>1 DEF printed, PressCtrlC, Interrupt, cliVars, IInv, TypeOK
<1>2. NothingYet'
  BY DEF PressCtrlC, Interrupt, cliVars, IInv, NothingYet
<1>3. SilentUntilExit'
  BY DEF PressCtrlC, Interrupt, cliVars, IInv, SilentUntilExit
<1>4. ReturnedForAReason'
  BY DEF PressCtrlC, Interrupt, cliVars, IInv, ReturnedForAReason
<1>5. ReportIsGenuine'
  BY DEF PressCtrlC, Interrupt, cliVars, IInv, ReportIsGenuine
<1>6. SuccessMeansSuccess'
  BY DEF PressCtrlC, Interrupt, cliVars, search, IInv, SuccessMeansSuccess
<1>7. ReportAddsUp'
  BY DEF PressCtrlC, Interrupt, cliVars, printed, IInv, ReportAddsUp
<1>8. StatusesNeedGit'
  BY DEF PressCtrlC, Interrupt, cliVars, search, IInv, StatusesNeedGit
<1> QED BY <1>1, <1>2, <1>3, <1>4, <1>5, <1>6, <1>7, <1>8 DEF IInv

LEMMA StepParseOptions == IInv /\ ParseOptions => IInv'
<1> SUFFICES ASSUME IInv, ParseOptions PROVE IInv'
  OBVIOUS
<1>1. repositories = {} /\ repositories' = {}
  BY DEF ParseOptions, scanVars, IInv, NothingYet
<1>2. TypeOK'
  <2>1. SearchOK'
    BY SearchKept DEF ParseOptions
  <2> QED BY <2>1 DEF printed, ParseOptions, Exit, Say, scanVars, IInv, TypeOK, Errors
<1>3. NothingYet'
  BY DEF ParseOptions, Exit, Say, scanVars, IInv, NothingYet
<1>4. SilentUntilExit'
  BY DEF ParseOptions, Exit, Say, scanVars, IInv, SilentUntilExit
<1>5. said = {} /\ exitCode = -1 /\ ~warnings
  BY DEF ParseOptions, IInv, NothingYet, SilentUntilExit
<1>6. exitCode' \in {-1, 2} \/ said' = {"usage"}
  BY <1>5 DEF ParseOptions, Exit, Say
<1>7. SuccessMeansSuccess'
  <2> SUFFICES ASSUME exitCode' = 0 PROVE SuccessMeansSuccess'
    BY DEF SuccessMeansSuccess
  <2>1. said' = {"usage"}
    BY <1>6
  <2>2. ~warnings'
    BY <1>5 DEF ParseOptions
  <2> QED BY <1>1, <2>1, <2>2 DEF SuccessMeansSuccess, Errors
<1>8. ReportAddsUp'
  BY <1>5, NoSummary DEF ParseOptions, Say
<1> QED BY <1>1, <1>2, <1>3, <1>4, <1>7, <1>8, EmptyWalk DEF IInv

LEMMA StepGitFound == IInv /\ GitFound => IInv'
<1> SUFFICES ASSUME IInv, GitFound PROVE IInv'
  OBVIOUS
<1>1. repositories = {} /\ repositories' = {}
  BY DEF GitFound, Looking, scanVars, IInv, NothingYet
<1>2. PICK i \in DOMAIN searchPath : binary' = searchPath[i]
  <2>1. place \in DOMAIN searchPath
    <3>1. Len(searchPath) \in Nat /\ DOMAIN searchPath = 1 .. Len(searchPath) /\ place \in Nat \ {0}
      BY PathFacts DEF IInv, TypeOK
    <3>2. place <= Len(searchPath)
      BY DEF GitFound, Looking
    <3> QED BY <3>1, <3>2
  <2> QED BY <2>1 DEF GitFound
<1>3. binary' \in Entry
  <2>1. searchPath \in Seq(Entry)
    BY DEF IInv, TypeOK, SearchOK
  <2> QED BY <1>2, <2>1
<1>8. SearchOK'
  BY <1>3 DEF GitFound, IInv, TypeOK, SearchOK
<1>4. TypeOK'
  BY <1>8 DEF printed, GitFound, scanVars, IInv, TypeOK
<1>5. NothingYet'
  BY DEF GitFound, Looking, scanVars, IInv, NothingYet
<1>6. said' = {} /\ exitCode' = -1
  BY DEF GitFound, Looking, IInv, SilentUntilExit
<1>7. SilentUntilExit' /\ SuccessMeansSuccess' /\ ReportAddsUp'
  BY <1>6, NoSummary DEF SilentUntilExit, SuccessMeansSuccess
<1> QED BY <1>1, <1>4, <1>5, <1>7, EmptyWalk DEF IInv

LEMMA StepNextDirectory == IInv /\ NextDirectory => IInv'
<1> SUFFICES ASSUME IInv, NextDirectory PROVE IInv'
  OBVIOUS
<1>1. repositories = {} /\ repositories' = {}
  BY DEF NextDirectory, Looking, scanVars, IInv, NothingYet
<1>2. SearchOK'
  <2>1. SearchOK
    BY DEF IInv, TypeOK
  <2>2. place' = place + 1 /\ UNCHANGED <<platform, searchPath, binary>>
    BY DEF NextDirectory
  <2> QED BY <2>1, <2>2 DEF SearchOK
<1>3. TypeOK'
  BY <1>2 DEF NextDirectory, scanVars, printed, IInv, TypeOK
<1>4. NothingYet'
  BY DEF NextDirectory, scanVars, IInv, NothingYet
<1>5. said' = {} /\ exitCode' = -1
  BY DEF NextDirectory, Looking, IInv, SilentUntilExit
<1>6. SilentUntilExit' /\ SuccessMeansSuccess'
  BY <1>5 DEF SilentUntilExit, SuccessMeansSuccess
<1>7. ReportAddsUp'
  BY <1>5, NoSummary
<1> QED BY <1>1, <1>3, <1>4, <1>6, <1>7, EmptyWalk DEF IInv

LEMMA StepGitMissing == IInv /\ GitMissing => IInv'
<1> SUFFICES ASSUME IInv, GitMissing PROVE IInv'
  OBVIOUS
<1>1. repositories = {} /\ repositories' = {}
  BY DEF GitMissing, scanVars, IInv, NothingYet
<1>2. TypeOK'
  <2>1. SearchOK'
    BY DEF GitMissing, Entry, IInv, TypeOK, SearchOK
  <2> QED BY <2>1 DEF printed, GitMissing, Exit, Say, scanVars, IInv, TypeOK, Errors
<1>3. NothingYet'
  BY DEF GitMissing, Exit, Say, scanVars, IInv, NothingYet
<1>4. SilentUntilExit'
  BY DEF GitMissing, Exit, Say, scanVars, IInv, SilentUntilExit
<1>5. exitCode' = 1
  BY DEF GitMissing, Exit
<1>7. exitCode' # 0
  BY <1>5
<1>6. SuccessMeansSuccess'
  BY <1>7 DEF SuccessMeansSuccess
<1>8. ReportAddsUp'
  <2>1. said = {}
    BY DEF GitMissing, IInv, SilentUntilExit
  <2> QED BY <2>1, NoSummary DEF GitMissing, Say
<1> QED BY <1>1, <1>2, <1>3, <1>4, <1>6, <1>8, EmptyWalk DEF IInv

LEMMA StepDiscoveryFails == IInv /\ DiscoveryFails => IInv'
<1> SUFFICES ASSUME IInv, DiscoveryFails PROVE IInv'
  OBVIOUS
<1>1. repositories = {} /\ repositories' = {}
  BY DEF DiscoveryFails, scanVars, IInv, NothingYet
<1>2. TypeOK'
  <2>1. SearchOK'
    BY SearchKept DEF DiscoveryFails
  <2> QED BY <2>1 DEF printed, DiscoveryFails, Exit, Say, scanVars, IInv, TypeOK, Errors
<1>3. NothingYet'
  BY DEF DiscoveryFails, Exit, Say, scanVars, IInv, NothingYet
<1>4. SilentUntilExit'
  BY DEF DiscoveryFails, Exit, Say, scanVars, IInv, SilentUntilExit
<1>5. exitCode' = 1
  BY DEF DiscoveryFails, Exit
<1>6. exitCode' # 0
  BY <1>5
<1>7. SuccessMeansSuccess'
  BY <1>1, <1>6 DEF SuccessMeansSuccess
<1>8. ReportAddsUp'
  <2>1. said = {}
    BY DEF DiscoveryFails, IInv, SilentUntilExit
  <2> QED BY <2>1, NoSummary DEF DiscoveryFails, Say
<1> QED BY <1>1, <1>2, <1>3, <1>4, <1>7, <1>8, EmptyWalk DEF IInv

LEMMA StepNothingFound == IInv /\ NothingFound => IInv'
<1> SUFFICES ASSUME IInv, NothingFound PROVE IInv'
  OBVIOUS
<1>1. repositories = {} /\ repositories' = {}
  BY DEF NothingFound, scanVars, IInv, NothingYet
<1>2. TypeOK'
  <2>1. SearchOK'
    BY SearchKept DEF NothingFound
  <2> QED BY <2>1 DEF printed, NothingFound, Exit, Say, scanVars, IInv, TypeOK
<1>3. NothingYet'
  BY DEF NothingFound, Exit, Say, scanVars, IInv, NothingYet
<1>4. SilentUntilExit'
  BY DEF NothingFound, Exit, Say, scanVars, IInv, SilentUntilExit
<1>5. said = {}
  BY DEF NothingFound, IInv, SilentUntilExit
<1>6. PICK walkWarnings \in BOOLEAN :
        /\ warnings' = walkWarnings
        /\ Say({"none found", "timing"}
                 \cup IF walkWarnings THEN {"walk warnings"} ELSE {})
        /\ Exit(IF walkWarnings THEN 1 ELSE 0)
  BY DEF NothingFound
<1>7. SuccessMeansSuccess'
  <2>1. CASE walkWarnings
    <3>1. exitCode' = 1
      BY <1>6, <2>1 DEF Exit
    <3>2. exitCode' # 0
      BY <3>1
    <3> QED BY <3>2 DEF SuccessMeansSuccess
  <2>2. CASE ~walkWarnings
    <3>1. ~warnings'
      BY <1>6, <2>2
    <3>2. said' = {"none found", "timing"}
      BY <1>5, <1>6, <2>2 DEF Say
    <3> QED BY <1>1, <3>1, <3>2 DEF SuccessMeansSuccess, Errors
  <2> QED BY <2>1, <2>2
<1>8. ReportAddsUp'
  BY <1>5, <1>6, NoSummary DEF Say
<1> QED BY <1>1, <1>2, <1>3, <1>4, <1>7, <1>8, EmptyWalk DEF IInv

LEMMA StepRepositoriesFound == IInv /\ RepositoriesFound => IInv'
<1> SUFFICES ASSUME IInv, RepositoriesFound PROVE IInv'
  OBVIOUS
<1>1. TypeOK'
  <2>1. repositories' \in SUBSET Repository /\ warnings' \in BOOLEAN
    BY DEF RepositoriesFound
  <2>2. phase' \in [repositories' -> Phase]
    BY DEF RepositoriesFound, Phase
  <2>3. statuses' \in [repositories' -> Statuses \cup {Blank}]
    BY DEF RepositoriesFound
  <2>4. displayed = {} /\ counted = {}
    BY DEF RepositoriesFound, IInv, TypeOK, NothingYet
  <2>5. SearchOK'
    BY SearchKept DEF RepositoriesFound
  <2> QED BY <2>1, <2>2, <2>3, <2>4, <2>5 DEF printed, RepositoriesFound, IInv, TypeOK
<1>2. said' = {} /\ exitCode' = -1 /\ step' = "check" /\ returned' = FALSE
  BY DEF RepositoriesFound, IInv, SilentUntilExit
<1>3. NothingYet' /\ SilentUntilExit'
  BY <1>2 DEF NothingYet, SilentUntilExit
<1>4. ReturnedForAReason'
  BY <1>2 DEF ReturnedForAReason
<1>5. ReportIsGenuine'
  BY <1>2 DEF ReportIsGenuine
<1>6. SuccessMeansSuccess'
  BY <1>2 DEF SuccessMeansSuccess
<1>7. ReportAddsUp'
  BY <1>2, NoSummary
<1>8. StatusesNeedGit'
  BY DEF RepositoriesFound, StatusesNeedGit
<1> QED BY <1>1, <1>3, <1>4, <1>5, <1>6, <1>7, <1>8 DEF IInv

(* A step of the pool: run_cli waits, so it has neither written nor exited. *)
LEMMA StepCheckRepositories == IInv /\ CheckRepositories => IInv'
<1> SUFFICES ASSUME IInv, CheckRepositories PROVE IInv'
  OBVIOUS
<1>1. /\ step = "check"
      /\ UNCHANGED <<step, command, search, warnings, displayed, counted, said, exitCode>>
  BY DEF CheckRepositories, printed
<1>2. said' = {} /\ exitCode' = -1 /\ step' = "check"
  BY <1>1 DEF IInv, SilentUntilExit
<1>3. NothingYet' /\ SilentUntilExit'
  BY <1>2 DEF NothingYet, SilentUntilExit
<1>4. ReportIsGenuine'
  BY <1>2 DEF ReportIsGenuine
<1>5. SuccessMeansSuccess'
  BY <1>2 DEF SuccessMeansSuccess
<1>6. ReportAddsUp'
  BY <1>2, NoSummary
<1>8. SearchOK'
  BY <1>1, SearchKept
<1>7. TypeOK' /\ ReturnedForAReason' /\ StatusesNeedGit'
  <2>1. CASE Return /\ UNCHANGED statuses
    <3>1. TypeOK'
      BY <1>1, <1>8, <2>1 DEF Return, IInv, TypeOK
    <3>2. ReturnedForAReason'
      BY <2>1 DEF Return, ReturnedForAReason
    <3>3. StatusesNeedGit'
      BY <1>1, <2>1 DEF Return, search, IInv, StatusesNeedGit
    <3> QED BY <3>1, <3>2, <3>3
  <2>2. ASSUME NEW r \in repositories, Begin(r), UNCHANGED statuses
        PROVE  TypeOK' /\ ReturnedForAReason' /\ StatusesNeedGit'
    <3>1. phase' \in [repositories -> Phase]
      BY <2>2 DEF Begin, IInv, TypeOK, Phase
    <3>2. TypeOK'
      BY <1>1, <1>8, <2>2, <3>1 DEF Begin, IInv, TypeOK
    <3>3. returned' = returned /\ ~returned
      BY <2>2 DEF Begin
    <3>4. \A s \in repositories : phase'[s] = "complete" => phase[s] = "complete"
      BY <2>2 DEF Begin, IInv, TypeOK
    <3>5. StatusesNeedGit'
      BY <1>1, <2>2, <3>4 DEF Begin, search, IInv, StatusesNeedGit
    <3> QED BY <3>2, <3>3, <3>5 DEF ReturnedForAReason
  <2>3. ASSUME NEW r \in repositories, Finish(r),
               NEW v \in Found(phase'[r]), statuses' = [statuses EXCEPT ![r] = v]
        PROVE  TypeOK' /\ ReturnedForAReason' /\ StatusesNeedGit'
    <3> PICK outcome \in Outcomes : phase' = [phase EXCEPT ![r] = outcome]
      BY <2>3 DEF Finish
    <3>0. outcome \in Phase
      BY DEF Outcomes, Phase
    <3>1. phase' \in [repositories -> Phase]
      BY <3>0 DEF IInv, TypeOK
    <3>2. v \in Statuses
      BY <2>3, StatusAssumption DEF Found
    <3>3. statuses' \in [repositories -> Statuses \cup {Blank}]
      BY <2>3, <3>2 DEF IInv, TypeOK
    <3>4. TypeOK'
      BY <1>1, <1>8, <2>3, <3>1, <3>3 DEF Finish, IInv, TypeOK
    <3>5. returned => cancelled
      BY <2>3 DEF Finish, IInv, ReturnedForAReason
    <3>6. UNCHANGED <<repositories, cancelled, returned>>
      BY <2>3 DEF Finish
    <3>7. ReturnedForAReason'
      BY <3>5, <3>6 DEF ReturnedForAReason
    <3>8. binary # "executable" => HasIssues(v)
      BY <2>3 DEF Found, HasIssues, Failed, Blank
    <3>11. /\ phase \in [repositories -> Phase]
           /\ statuses \in [repositories -> Statuses \cup {Blank}]
      BY DEF IInv, TypeOK
    <3>9. ASSUME NEW s \in repositories
          PROVE  phase'[s] = "complete" /\ binary # "executable" => HasIssues(statuses'[s])
      <4>1. CASE s = r
        <5>1. statuses'[s] = v
          BY <2>3, <3>11, <4>1
        <5> QED BY <3>8, <5>1
      <4>2. CASE s # r
        <5>1. phase'[s] = phase[s] /\ statuses'[s] = statuses[s]
          BY <2>3, <3>11, <4>2
        <5> QED BY <5>1 DEF IInv, StatusesNeedGit
      <4> QED BY <4>1, <4>2
    <3>10. StatusesNeedGit'
      BY <1>1, <3>6, <3>9 DEF search, StatusesNeedGit
    <3> QED BY <3>4, <3>7, <3>10
  <2> QED BY <2>1, <2>2, <2>3 DEF CheckRepositories
<1> QED BY <1>3, <1>4, <1>5, <1>6, <1>7 DEF IInv

(* The second look at the flag is what keeps made-up statuses out.         *)
LEMMA StepTestCancelled == IInv /\ TestCancelled => IInv'
<1> SUFFICES ASSUME IInv, TestCancelled PROVE IInv'
  OBVIOUS
<1>1. step = "check" /\ returned /\ said = {} /\ exitCode = -1
  BY DEF TestCancelled, Tested, IInv, SilentUntilExit
<1>2. UNCHANGED <<repositories, cancelled, phase, returned, command, platform, searchPath,
                  binary, warnings, statuses, displayed, counted>>
  BY DEF TestCancelled, scanVars, search, printed
<1>5. SearchOK'
  BY SearchKept DEF TestCancelled
<1>3. CASE ~cancelled /\ step' = "report" /\ UNCHANGED <<said, exitCode>>
  <2>1. TypeOK'
    BY <1>2, <1>3, <1>5 DEF IInv, TypeOK
  <2>2. NothingYet' /\ SilentUntilExit'
    BY <1>1, <1>3 DEF NothingYet, SilentUntilExit
  <2>3. ReturnedForAReason'
    BY <1>2 DEF IInv, ReturnedForAReason
  <2>4. ReportIsGenuine'
    BY <1>1, <1>2, <1>3 DEF IInv, ReturnedForAReason, ReportIsGenuine
  <2>5. SuccessMeansSuccess'
    BY <1>1, <1>3 DEF SuccessMeansSuccess
  <2>6. ReportAddsUp'
    BY <1>1, <1>3, NoSummary
  <2>7. StatusesNeedGit'
    BY <1>2 DEF IInv, StatusesNeedGit
  <2> QED BY <2>1, <2>2, <2>3, <2>4, <2>5, <2>6, <2>7 DEF IInv
<1>4. CASE step' = "exited" /\ exitCode' = 130 /\ said' = {"interrupted"}
  <2>1. TypeOK'
    BY <1>2, <1>4, <1>5 DEF IInv, TypeOK, Errors
  <2>2. NothingYet' /\ SilentUntilExit'
    BY <1>4 DEF NothingYet, SilentUntilExit
  <2>3. ReturnedForAReason'
    BY <1>2 DEF IInv, ReturnedForAReason
  <2>4. ReportIsGenuine'
    BY <1>4 DEF ReportIsGenuine
  <2>5. SuccessMeansSuccess'
    BY <1>4 DEF SuccessMeansSuccess, Errors
  <2>6. ReportAddsUp'
    BY <1>4, NoSummary
  <2>7. StatusesNeedGit'
    BY <1>2 DEF IInv, StatusesNeedGit
  <2> QED BY <2>1, <2>2, <2>3, <2>4, <2>5, <2>6, <2>7 DEF IInv
<1> QED BY <1>1, <1>3, <1>4 DEF TestCancelled, ReportAllowed, Exit, Say

LEMMA StepReport == IInv /\ Report => IInv'
<1> SUFFICES ASSUME IInv, Report PROVE IInv'
  OBVIOUS
<1>1. UNCHANGED <<repositories, cancelled, phase, returned, command, platform, searchPath,
                  binary, warnings, statuses>>
  BY DEF Report, scanVars, search
<1>2. step = "report" /\ step' = "exited"
  BY DEF Report, Exit
<1>3. exitCode' = IF CleanRun(warnings, statuses) THEN 0 ELSE 1
  BY DEF Report, Exit
<1>4. CheckWarnings \subseteq {"check warnings"}
  BY DEF CheckWarnings
<1>5. said' = {"summary", "timing"} \cup {IF Shown = {} THEN "no attention" ELSE "table"}
                \cup (IF warnings THEN {"walk warnings"} ELSE {}) \cup CheckWarnings
  BY <1>2 DEF Report, Say, IInv, SilentUntilExit
<1>6. \A r \in repositories : phase[r] = "complete"
  BY <1>2 DEF IInv, ReportIsGenuine
<1>7. TypeOK'
  <2>1. displayed' \in SUBSET repositories /\ counted' \in SUBSET repositories
    BY DEF Report, Shown, Attention
  <2>2. said' \in SUBSET {"no attention", "table", "summary", "timing", "walk warnings",
                          "check warnings"}
    BY <1>4, <1>5
  <2>3. exitCode' \in {0, 1}
    BY <1>3 DEF CleanRun
  <2>4. SearchOK'
    BY SearchKept DEF Report
  <2> QED BY <1>1, <1>2, <2>1, <2>2, <2>3, <2>4 DEF IInv, TypeOK
<1>8. NothingYet' /\ SilentUntilExit'
  BY <1>2 DEF NothingYet, SilentUntilExit
<1>9. ReturnedForAReason'
  BY <1>1 DEF IInv, ReturnedForAReason
<1>10. ReportIsGenuine'
  BY <1>1, <1>6 DEF ReportIsGenuine
<1>11. SuccessMeansSuccess'
  <2> SUFFICES ASSUME exitCode' = 0 PROVE SuccessMeansSuccess'
    BY DEF SuccessMeansSuccess
  <2>1. ~warnings /\ \A r \in repositories : ~HasIssues(statuses[r])
    <3>1. ASSUME ~CleanRun(warnings, statuses) PROVE FALSE
      <4>1. exitCode' = 1
        BY <1>3, <3>1, Zenon
      <4> QED BY <4>1
    <3>2. CleanRun(warnings, statuses)
      BY <3>1
    <3>3. ~warnings
      BY <3>2 DEF CleanRun
    <3>4. DOMAIN statuses = repositories
      BY DEF IInv, TypeOK
    <3> QED BY <3>2, <3>3, <3>4 DEF CleanRun
  <2>2. CheckWarnings = {}
    BY <2>1 DEF CheckWarnings
  <2>3. said' \cap (Errors \cup {"walk warnings", "check warnings"}) = {}
    BY <1>5, <2>1, <2>2 DEF Errors
  <2>4. ASSUME NEW r \in repositories PROVE binary = "executable"
    BY <1>6, <2>1 DEF IInv, StatusesNeedGit
  <2>5. repositories' # {} => binary' = "executable"
    BY <1>1, <2>4
  <2> QED BY <1>1, <1>6, <2>1, <2>3, <2>5 DEF SuccessMeansSuccess
<1>12. ReportAddsUp'
  <2>1. counted' = Attention /\ displayed' = Shown
    BY DEF Report
  <2>2. Attention \subseteq Shown
    BY DEF Attention, Shown
  <2>3. "no attention" \in said' => Shown = {}
    BY <1>4, <1>5
  <2>4. ASSUME Attention = {}
        PROVE  /\ "check warnings" \notin said'
               /\ exitCode' = 0 <=> ~warnings'
    <3>1. \A r \in repositories : ~HasIssues(statuses[r])
      BY <2>4 DEF Attention, NeedsAttention, HasIssues
    <3>2. CheckWarnings = {}
      BY <3>1 DEF CheckWarnings
    <3>3. DOMAIN statuses = repositories
      BY DEF IInv, TypeOK
    <3>4. CleanRun(warnings, statuses) <=> ~warnings
      BY <3>1, <3>3 DEF CleanRun
    <3>5. exitCode' = 0 <=> ~warnings
      <4>1. CASE warnings
        <5>1. exitCode' = 1
          BY <1>3, <3>4, <4>1, Zenon
        <5> QED BY <4>1, <5>1
      <4>2. CASE ~warnings
        BY <1>3, <3>4, <4>2, Zenon
      <4> QED BY <4>1, <4>2
    <3> QED BY <1>1, <1>5, <3>2, <3>5
  <2> QED BY <2>1, <2>2, <2>3, <2>4 DEF ReportAddsUp
<1>13. StatusesNeedGit'
  BY <1>1 DEF IInv, StatusesNeedGit
<1> QED BY <1>7, <1>8, <1>9, <1>10, <1>11, <1>12, <1>13 DEF IInv

LEMMA NextIInv == IInv /\ [Next]_vars => IInv'
<1> SUFFICES ASSUME IInv, [Next]_vars PROVE IInv'
  OBVIOUS
<1>1. CASE Next
  BY <1>1, StepPressCtrlC, StepParseOptions, StepGitFound, StepNextDirectory, StepGitMissing,
     StepDiscoveryFails,
     StepNothingFound, StepRepositoriesFound, StepCheckRepositories, StepTestCancelled,
     StepReport DEF Next, Proceed
<1>2. CASE UNCHANGED vars
  <2> USE <1>2 DEF vars, scanVars, cliVars, search, printed, IInv
  <2>8. SearchOK'
    BY SearchKept
  <2>1. TypeOK'
    BY <2>8 DEF TypeOK
  <2>2. NothingYet' /\ SilentUntilExit'
    BY DEF NothingYet, SilentUntilExit
  <2>3. ReturnedForAReason'
    BY DEF ReturnedForAReason
  <2>4. ReportIsGenuine'
    BY DEF ReportIsGenuine
  <2>5. SuccessMeansSuccess'
    BY DEF SuccessMeansSuccess
  <2>6. ReportAddsUp'
    BY DEF ReportAddsUp
  <2>7. StatusesNeedGit'
    BY DEF StatusesNeedGit
  <2> QED BY <2>1, <2>2, <2>3, <2>4, <2>5, <2>6, <2>7
<1> QED BY <1>1, <1>2

-------------------------------------------------------------------------------
(* The strengthened invariant holds of every run of run_cli.               *)
THEOREM Invariance == Spec => []IInv
BY InitIInv, NextIInv, PTL DEF Spec

(* Type correctness of run_cli, for any repositories and any --workers.    *)
THEOREM TypeCorrect == Spec => []TypeOK
<1>1. IInv => TypeOK
  BY DEF IInv
<1> QED BY <1>1, Invariance, PTL

(* No status the pool made up is ever reported (app.cpp:860-880).          *)
THEOREM GenuineReport == Spec => []ReportIsGenuine
<1>1. IInv => ReportIsGenuine
  BY DEF IInv
<1> QED BY <1>1, Invariance, PTL

(* Exit code 0 is a promise about every repository (app.cpp:841-880).      *)
THEOREM HonestSuccess == Spec => []SuccessMeansSuccess
<1>1. IInv => SuccessMeansSuccess
  BY DEF IInv
<1> QED BY <1>1, Invariance, PTL

(* Whatever the checks find, table, count, warnings and exit code agree    *)
(* (app.cpp:865-880): an issue is always something that needs attention.   *)
THEOREM OneStory == Spec => []ReportAddsUp
<1>1. IInv => ReportAddsUp
  BY DEF IInv
<1> QED BY <1>1, Invariance, PTL

-------------------------------------------------------------------------------
(* No git that could be executed stands before the directory the search    *)
(* has come to; what it takes is there; and it gives up at the end only.   *)
SearchedSoFar ==
  /\ \A i \in DOMAIN searchPath : i < place => searchPath[i] # "executable"
  /\ binary = "nothing" \/ "no git" \in said =>
       \A i \in DOMAIN searchPath : searchPath[i] # "executable"
  /\ binary \notin {"unsearched", "nothing"} => binary = searchPath[place]
  /\ step \in {"parse", "find git"} => binary = "unsearched"

LEMMA InitSearchedSoFar == Init => SearchedSoFar
<1> SUFFICES ASSUME Init PROVE SearchedSoFar
  OBVIOUS
<1>1. place = 1 /\ binary = "unsearched" /\ said = {}
  BY DEF Init
<1>2. PICK n \in Nat : searchPath \in [1 .. n -> Entry]
  BY PathAssumption DEF Init
<1> QED BY <1>1, <1>2 DEF SearchedSoFar

(* A step of the search goes on behind a directory, or ends at it.         *)
LEMMA NextSearchedSoFar == SearchOK /\ SearchedSoFar /\ [Next]_vars => SearchedSoFar'
<1> SUFFICES ASSUME SearchOK, SearchedSoFar, [Next]_vars PROVE SearchedSoFar'
  OBVIOUS
<1> DEFINE Elsewhere ==
      /\ UNCHANGED search /\ ("no git" \in said' => "no git" \in said)
      /\ step' \in {"parse", "find git"} => step \in {"parse", "find git"}
<1>1. CASE Elsewhere
  BY <1>1 DEF search, SearchedSoFar
<1>2. CASE GitFound
  <2>1. /\ UNCHANGED <<searchPath, place, said>> /\ binary' = searchPath[place]
        /\ Passes(searchPath[place]) /\ step' = "discover"
    BY <1>2 DEF GitFound
  <2>2. binary' # "nothing"
    BY <2>1 DEF Passes
  <2>3. \A i \in DOMAIN searchPath : i < place => searchPath[i] # "executable"
    BY DEF SearchedSoFar
  <2>4. "no git" \in said => \A i \in DOMAIN searchPath : searchPath[i] # "executable"
    BY DEF SearchedSoFar
  <2> QED BY <2>1, <2>2, <2>3, <2>4 DEF SearchedSoFar
<1>3. CASE NextDirectory
  <2>1. /\ UNCHANGED <<searchPath, binary, said, step>> /\ place' = place + 1
        /\ searchPath[place] # "executable" /\ binary = "unsearched"
    BY <1>3 DEF NextDirectory, Looking, Passes, SearchedSoFar
  <2>2. \A i \in DOMAIN searchPath : i < place + 1 => searchPath[i] # "executable"
    <3>1. \A i \in DOMAIN searchPath : i < place + 1 => i < place \/ i = place
      BY PathFacts
    <3> QED BY <2>1, <3>1 DEF SearchedSoFar
  <2> QED BY <2>1, <2>2 DEF SearchedSoFar
<1>4. CASE GitMissing
  <2>1. UNCHANGED <<searchPath, place>> /\ binary' = "nothing" /\ step' = "exited"
    BY <1>4 DEF GitMissing, Exit
  <2>2. \A i \in DOMAIN searchPath : searchPath[i] # "executable"
    <3>1. CASE searchPath = <<>>
      BY <3>1
    <3>2. CASE ~Passes(searchPath[place]) /\ place = Len(searchPath)
      <4>1. searchPath[place] # "executable"
        BY <3>2 DEF Passes
      <4>2. \A i \in DOMAIN searchPath : i < place \/ i = place
        BY <3>2, PathFacts
      <4> QED BY <4>1, <4>2 DEF SearchedSoFar
    <3> QED BY <1>4, <3>1, <3>2 DEF GitMissing, LastDirectory
  <2> QED BY <2>1, <2>2 DEF SearchedSoFar
<1>5. Elsewhere \/ GitFound \/ NextDirectory \/ GitMissing
  <2>1. CASE UNCHANGED vars \/ PressCtrlC
    BY <2>1 DEF vars, cliVars, PressCtrlC
  <2>2. CASE ParseOptions
    <3>1. said' \subseteq said \cup {"usage", "option error"}
      BY <2>2 DEF ParseOptions, Say
    <3> QED BY <2>2, <3>1 DEF ParseOptions
  <2>3. CASE DiscoveryFails \/ NothingFound
    <3>1. said' \subseteq said \cup {"no root", "none found", "timing", "walk warnings"}
      <4>1. CASE DiscoveryFails
        BY <4>1 DEF DiscoveryFails, Say
      <4>2. CASE NothingFound
        BY <4>2 DEF NothingFound, Say
      <4> QED BY <2>3, <4>1, <4>2
    <3>2. step' = "exited" /\ UNCHANGED search
      BY <2>3 DEF DiscoveryFails, NothingFound, Exit
    <3> QED BY <3>1, <3>2
  <2>4. CASE RepositoriesFound \/ CheckRepositories
    BY <2>4 DEF RepositoriesFound, CheckRepositories
  <2>5. CASE TestCancelled
    <3>1. said' \subseteq said \cup {"interrupted"}
      BY <2>5 DEF TestCancelled, Say
    <3>2. step' \in {"report", "exited"}
      BY <2>5 DEF TestCancelled, Exit
    <3> QED BY <2>5, <3>1, <3>2 DEF TestCancelled
  <2>6. CASE Report
    BY <2>6 DEF Report, CheckWarnings, Say, Exit
  <2> QED BY <2>1, <2>2, <2>3, <2>4, <2>5, <2>6 DEF Next, Proceed
<1> QED BY <1>1, <1>2, <1>3, <1>4, <1>5

(* On a PATH of any length, the first git that can be executed is neither  *)
(* missed nor passed over (process.cpp:129-187).                           *)
THEOREM FirstGit == Spec => []NoGitPassedOver
<1>1. TypeOK => SearchOK
  BY DEF TypeOK
<1>2. SearchOK /\ SearchedSoFar => NoGitPassedOver
  <2> SUFFICES ASSUME SearchOK, SearchedSoFar,
                      NEW i \in DOMAIN searchPath, searchPath[i] = "executable"
               PROVE  /\ "no git" \notin said
                      /\ binary # "unsearched" => place <= i /\ binary = searchPath[place]
    BY Zenon DEF NoGitPassedOver
  <2>1. "no git" \notin said /\ binary # "nothing"
    BY DEF SearchedSoFar
  <2>2. ~(i < place)
    BY DEF SearchedSoFar
  <2>3. place <= i
    BY <2>2, PathFacts
  <2> QED BY <2>1, <2>3 DEF SearchedSoFar
<1> QED BY <1>1, <1>2, InitSearchedSoFar, NextSearchedSoFar, TypeCorrect, PTL DEF Spec

===============================================================================
