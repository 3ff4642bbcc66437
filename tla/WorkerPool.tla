------------------------------ MODULE WorkerPool ------------------------------
(***************************************************************************)
(* check_repositories of the C++ port: the main thread spawns a bounded    *)
(* number of threads one after the other, each takes the next index from a *)
(* shared atomic counter until the list or the patience of the user runs   *)
(* out, and the main thread joins them all and sorts what they left.       *)
(*                                                                         *)
(* A path is a number, ordered as its text; slots are numbered from 1.     *)
(***************************************************************************)
EXTENDS Naturals, Sequences, Functions

CONSTANTS
  Paths,       \* the repositories to check, in the order they were passed
  Requested,   \* the `workers` parameter
  UIntModulus  \* 2^w for an unsigned int of w bits

ASSUME PathsAssumption ==
  /\ Paths \in Seq(Nat \ {0})
  /\ \A i, j \in DOMAIN Paths : Paths[i] = Paths[j] => i = j
ASSUME WidthAssumption ==
  /\ UIntModulus \in Nat \ {0}
  /\ Requested \in 1 .. UIntModulus - 1

VARIABLES
  cancelled,   \* std::atomic_bool, set by the SIGINT handler, never reset
  next_index,  \* std::atomic_size_t shared by the threads
  pc,          \* what each thread is about to do
  index,       \* the slot each thread has taken (0: none yet)
  statuses,    \* one RepositoryStatus per slot
  main,        \* where the calling thread is
  count        \* its loop counter: threads spawned, then threads joined

vars == <<cancelled, next_index, pc, index, statuses, main, count>>

-------------------------------------------------------------------------------
(* Mutated forms, each the bug its name says; no specification uses them.  *)

PoolSize_IgnoresRequest(n) == IF n = 0 THEN 1 ELSE n
PastEnd_ReachesTooFar(i) == i > Len(Paths) + 1
PastEnd_SkipsTheLast(i) == i >= Len(Paths)
FetchAdd_NotAdvanced(i) == i
AfterCheck_SkipsTheTest == "claim"

-------------------------------------------------------------------------------
Slot == DOMAIN Paths

(* The number of threads: the cast of paths.size() to unsigned int may     *)
(* wrap, even to zero, and std::max keeps one thread in that case.         *)
PoolSize(n) ==
  LET fits == n % UIntModulus
      least == IF Requested <= fits THEN Requested ELSE fits
  IN  IF least = 0 THEN 1 ELSE least

Worker == 1 .. PoolSize(Len(Paths))

(* A default-constructed status has an empty path, which sorts first.      *)
Blank == [path |-> 0, outcome |-> "blank"]

Status == [path : {0} \cup Range(Paths), outcome : {"blank", "complete", "interrupted"}]

Init ==
  /\ cancelled \in BOOLEAN          \* Ctrl-C may have come during discovery
  /\ next_index = 1
  /\ pc = [w \in Worker |-> "unstarted"]
  /\ index = [w \in Worker |-> 0]
  /\ statuses = [i \in Slot |-> Blank]
  /\ main = IF Paths = <<>> THEN "returned" ELSE "spawn"
  /\ count = 0

(* The signal handler, on whatever thread the signal is delivered to.      *)
Interrupt ==
  /\ ~cancelled
  /\ cancelled' = TRUE
  /\ UNCHANGED <<next_index, pc, index, statuses, main, count>>

Spawn ==
  /\ main = "spawn" /\ count + 1 \in Worker
  /\ pc' = [pc EXCEPT ![count + 1] = "test"]
  /\ count' = count + 1
  /\ UNCHANGED <<cancelled, next_index, index, statuses, main>>

StartJoining ==
  /\ main = "spawn" /\ count + 1 \notin Worker
  /\ main' = "join" /\ count' = 0
  /\ UNCHANGED <<cancelled, next_index, pc, index, statuses>>

(* while (!cancelled.load()) *)
TestCancelled(w) ==
  /\ pc[w] = "test"
  /\ pc' = [pc EXCEPT ![w] = IF cancelled THEN "exited" ELSE "claim"]
  /\ UNCHANGED <<cancelled, next_index, index, statuses, main, count>>

(* index = next_index.fetch_add(1); the thread ends past the last slot.    *)
FetchAdd(i) == i + 1
PastEnd(i) == i > Len(Paths)

Claim(w) ==
  /\ pc[w] = "claim"
  /\ next_index' = FetchAdd(next_index)
  /\ index' = [index EXCEPT ![w] = next_index]
  /\ pc' = [pc EXCEPT ![w] = IF PastEnd(next_index) THEN "exited" ELSE "check"]
  /\ UNCHANGED <<cancelled, statuses, main, count>>

(* The checker returns, its status goes to the slot, and the loop comes    *)
(* round to its test. The check may have ended in an error of its own:     *)
(* that is a complete status too. It reports "interrupted" only if it saw  *)
(* the flag set.                                                           *)
Outcomes == {"complete"} \cup (IF cancelled THEN {"interrupted"} ELSE {})
AfterCheck == "test"

FinishCheck(w) ==
  /\ pc[w] = "check"
  /\ \E outcome \in Outcomes :
       statuses' = [statuses EXCEPT ![index[w]] =
                      [path |-> Paths[index[w]], outcome |-> outcome]]
  /\ pc' = [pc EXCEPT ![w] = AfterCheck]
  /\ UNCHANGED <<cancelled, next_index, index, main, count>>

Join ==
  /\ main = "join" /\ count + 1 \in Worker
  /\ pc[count + 1] = "exited"
  /\ count' = count + 1
  /\ UNCHANGED <<cancelled, next_index, pc, index, statuses, main>>

SortedByPath(seq) == \A i, j \in DOMAIN seq : i < j => seq[i].path <= seq[j].path

(* std::sort: some permutation of the slots that is ordered by path.       *)
SortAndReturn ==
  /\ main = "join" /\ count + 1 \notin Worker
  /\ \E order \in Bijection(Slot, Slot) :
       /\ statuses' = [i \in Slot |-> statuses[order[i]]]
       /\ SortedByPath(statuses')
  /\ main' = "returned"
  /\ UNCHANGED <<cancelled, next_index, pc, index, count>>

MainThread == Spawn \/ StartJoining \/ Join \/ SortAndReturn

WorkerThread(w) == TestCancelled(w) \/ Claim(w) \/ FinishCheck(w)

Next ==
  \/ Interrupt
  \/ MainThread
  \/ \E w \in Worker : WorkerThread(w)

(* The threads run, and every check ends (ExecGitRunner); nobody has to    *)
(* press Ctrl-C.                                                           *)
Fairness == WF_vars(MainThread) /\ \A w \in Worker : WF_vars(WorkerThread(w))

Spec == Init /\ [][Next]_vars /\ Fairness

-------------------------------------------------------------------------------
TypeOK ==
  /\ cancelled \in BOOLEAN
  /\ next_index \in Nat \ {0}
  /\ pc \in [Worker -> {"unstarted", "test", "claim", "check", "exited"}]
  /\ index \in [Worker -> Nat]
  /\ \A w \in Worker : pc[w] = "check" => index[w] \in Slot
  /\ statuses \in [Slot -> Status]
  /\ main \in {"spawn", "join", "returned"}
  /\ count \in 0 .. PoolSize(Len(Paths))

(* The threads write statuses[index] without a lock. No two of them may be *)
(* about to write the same slot, and none may write a slot that already    *)
(* holds a result (app.cpp:659-663).                                       *)
SlotOwnership ==
  \A w \in Worker : pc[w] = "check" =>
    /\ statuses[index[w]] = Blank
    /\ \A v \in Worker \ {w} : pc[v] = "check" => index[v] # index[w]

(* Once the flag is set and no thread has already passed its test of it,   *)
(* no further repository is claimed, so Ctrl-C costs at most the checks    *)
(* that were in flight (app.cpp:658).                                      *)
CancelIsFinal ==
  [][(cancelled /\ \A w \in Worker : pc[w] # "claim")
       => (next_index' = next_index /\ \A w \in Worker : pc'[w] # "claim")]_vars

(* run_cli counts on it: if no interrupt is pending when the call returns, *)
(* every repository has exactly one genuine status and the list is sorted; *)
(* a default-constructed or interrupted status implies the flag is set.    *)
CompleteReport ==
  main = "returned" /\ ~cancelled =>
    /\ SortedByPath(statuses)
    /\ \A r \in Range(Paths) :
         \E i \in Slot : /\ statuses[i] = [path |-> r, outcome |-> "complete"]
                         /\ \A j \in Slot \ {i} : statuses[j].path # r

(* The call returns, interrupted or not: no thread is left waiting and the *)
(* joins never wait for a thread that does not end.                        *)
Termination == <>(main = "returned")

(* The promise of the pool, with each repository's phase read off the      *)
(* threads and the slots.                                                  *)
PhaseOf(r) ==
  IF \E w \in Worker : pc[w] = "check" /\ Paths[index[w]] = r
  THEN "checking"
  ELSE IF \E i \in Slot : statuses[i].path = r
       THEN statuses[CHOOSE i \in Slot : statuses[i].path = r].outcome
       ELSE "unchecked"

Scan == INSTANCE RepositoryScan WITH
  Bound <- Requested,
  repositories <- Range(Paths),
  phase <- [r \in Range(Paths) |-> PhaseOf(r)],
  returned <- (main = "returned")

(* Each step of the pool is a step of RepositoryScan: never more checks at *)
(* once than --workers, none repeated, none skipped unless interrupted.    *)
ImplementsScan == Scan!ScanSpec

===============================================================================
