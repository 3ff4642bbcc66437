---------------------------- MODULE RepositoryScan ----------------------------
(***************************************************************************)
(* What check_repositories promises its caller, whatever the pool behind   *)
(* it: the given repositories are checked, each at most once and at most   *)
(* Bound of them at a time; a repository counts as "complete" once a check *)
(* of that very repository has run to its end; and the call returns when   *)
(* every repository is complete or the scan has been interrupted.          *)
(*                                                                         *)
(* WorkerPool (the C++ threads) and GoWorkerPool (the goroutines) are both *)
(* shown to implement it, and RunCli is built on it.                       *)
(***************************************************************************)
EXTENDS Naturals, FiniteSets

CONSTANT Bound   \* the --workers option: the most checks that may overlap

ASSUME BoundAssumption == Bound \in Nat \ {0}

VARIABLES
  repositories,  \* the repositories handed to the call
  cancelled,     \* main's `interrupted` flag, set by the SIGINT handler
  phase,         \* how far the check of each repository has come
  returned       \* the call has returned its statuses

scanVars == <<repositories, cancelled, phase, returned>>

Phase == {"unchecked", "checking", "complete", "interrupted"}

Checking == {r \in repositories : phase[r] = "checking"}

(* A check ends with a genuine status, or, only after a SIGINT, with the   *)
(* error "interrupted" in place of one.                                    *)
Outcomes == {"complete"} \cup (IF cancelled THEN {"interrupted"} ELSE {})

(* The call begins; an empty list is answered at once.                     *)
Call(repos) ==
  /\ repositories = repos
  /\ phase = [r \in repos |-> "unchecked"]
  /\ returned = (repos = {})

(* The user presses Ctrl-C; nothing ever clears the flag again.            *)
Interrupt ==
  /\ ~cancelled
  /\ cancelled' = TRUE
  /\ UNCHANGED <<repositories, phase, returned>>

Begin(r) ==
  /\ ~returned
  /\ phase[r] = "unchecked"
  /\ Cardinality(Checking) < Bound
  /\ phase' = [phase EXCEPT ![r] = "checking"]
  /\ UNCHANGED <<repositories, cancelled, returned>>

Finish(r) ==
  /\ phase[r] = "checking"
  /\ \E outcome \in Outcomes : phase' = [phase EXCEPT ![r] = outcome]
  /\ UNCHANGED <<repositories, cancelled, returned>>

Return ==
  /\ ~returned
  /\ Checking = {}
  /\ cancelled \/ \A r \in repositories : phase[r] = "complete"
  /\ returned' = TRUE
  /\ UNCHANGED <<repositories, cancelled, phase>>

ScanInit == cancelled \in BOOLEAN /\ Call(repositories)

ScanNext ==
  \/ Interrupt
  \/ \E r \in repositories : Begin(r) \/ Finish(r)
  \/ Return

ScanSpec == ScanInit /\ [][ScanNext]_scanVars

===============================================================================
