----------------------------- MODULE GoWorkerPool -----------------------------
(***************************************************************************)
(* checkRepositories of the Go CLI: a dispatcher goroutine feeds the paths *)
(* to the workers over an unbuffered channel, each worker sends its status *)
(* into a buffered one, and the caller collects until that is closed. The  *)
(* workers never look at the context: after Ctrl-C every path is still     *)
(* handed out, and its check fails at once.                                *)
(*                                                                         *)
(* A path is a number, ordered as its text.                                *)
(***************************************************************************)
EXTENDS Naturals, Sequences, Functions

CONSTANTS
  Paths,      \* the repositories to check
  Requested   \* the workers parameter, positive (parseOptions)

ASSUME GoPathsAssumption ==
  /\ Paths \in Seq(Nat \ {0})
  /\ \A i, j \in DOMAIN Paths : Paths[i] = Paths[j] => i = j
ASSUME RequestedAssumption == Requested \in Nat \ {0}

VARIABLES
  signalled,    \* SIGINT has reached the program and the gits it runs
  dispatcher,   \* what the dispatcher goroutine is about to do
  sent,         \* how many paths it has sent on jobs
  jobsClosed,
  pc,           \* what each worker is about to do
  job,          \* the path it is on (0: none yet)
  made,         \* the outcome of the status it is about to send
  workerGroup,  \* the counter of the sync.WaitGroup
  results,      \* the buffered channel of statuses
  resultsClosed,
  statuses,     \* what the caller has collected
  main

jobs == <<sent, jobsClosed>>
channel == <<results, resultsClosed>>
workers == <<pc, job, made>>
vars == <<signalled, dispatcher, jobs, workers, workerGroup, channel, statuses, main>>

-------------------------------------------------------------------------------
(* Mutated forms, each the bug its name says; no specification uses them.  *)

ResultsRoom_Unbuffered == 1
WaitOver_NoWait == TRUE
Received_NotOnceClosed == results = <<>>
PoolSize_OneTooMany == IF Requested > Len(Paths) THEN Len(Paths) ELSE Requested + 1
Released_Twice == 2
Released_Never == 0

-------------------------------------------------------------------------------
PoolSize == IF Requested > Len(Paths) THEN Len(Paths) ELSE Requested

Worker == 1 .. PoolSize

Status == [path : Range(Paths), outcome : {"complete", "interrupted"}]

Init ==
  /\ signalled \in BOOLEAN          \* Ctrl-C may have come during discovery
  /\ dispatcher = "send" /\ sent = 0 /\ jobsClosed = FALSE
  /\ pc = [w \in Worker |-> "receive"]
  /\ job = [w \in Worker |-> 0]
  /\ made = [w \in Worker |-> "none"]
  /\ workerGroup = PoolSize
  /\ results = <<>> /\ resultsClosed = FALSE
  /\ statuses = <<>>
  /\ main = IF Paths = <<>> THEN "returned" ELSE "collect"

(* SIGINT goes to the whole foreground process group, git included; main   *)
(* has it cancel the context.                                              *)
Signal ==
  /\ ~signalled
  /\ signalled' = TRUE
  /\ UNCHANGED <<dispatcher, jobs, workers, workerGroup, channel, statuses, main>>

(* An unbuffered channel: the send and the receive are one step.           *)
SendJob(w) ==
  /\ dispatcher = "send" /\ sent < Len(Paths)
  /\ pc[w] = "receive"
  /\ sent' = sent + 1
  /\ job' = [job EXCEPT ![w] = Paths[sent + 1]]
  /\ pc' = [pc EXCEPT ![w] = "check"]
  /\ UNCHANGED <<signalled, dispatcher, jobsClosed, made, workerGroup, channel,
                 statuses, main>>

CloseJobs ==
  /\ dispatcher = "send" /\ sent = Len(Paths)
  /\ jobsClosed' = TRUE
  /\ dispatcher' = "wait"
  /\ UNCHANGED <<signalled, sent, workers, workerGroup, channel, statuses, main>>

(* workerGroup.Wait() *)
WaitOver == workerGroup = 0

WaitForWorkers ==
  /\ dispatcher = "wait" /\ WaitOver
  /\ dispatcher' = "close results"
  /\ UNCHANGED <<signalled, jobs, workers, workerGroup, channel, statuses, main>>

CloseResults ==
  /\ dispatcher = "close results"
  /\ resultsClosed' = TRUE
  /\ dispatcher' = "ended"
  /\ UNCHANGED <<signalled, jobs, workers, workerGroup, results, statuses, main>>

(* A check made of a git that SIGINT killed, or that ctx stopped, is not a *)
(* genuine one.                                                            *)
Outcomes == {"complete"} \cup (IF signalled THEN {"interrupted"} ELSE {})

Check(w) ==
  /\ pc[w] = "check"
  /\ \E outcome \in Outcomes : made' = [made EXCEPT ![w] = outcome]
  /\ pc' = [pc EXCEPT ![w] = "send"]
  /\ UNCHANGED <<signalled, dispatcher, jobs, job, workerGroup, channel, statuses,
                 main>>

ResultsRoom == Len(Paths)

SendResult(w) ==
  /\ pc[w] = "send"
  /\ Len(results) < ResultsRoom
  /\ results' = Append(results, [path |-> job[w], outcome |-> made[w]])
  /\ pc' = [pc EXCEPT ![w] = "receive"]
  /\ UNCHANGED <<signalled, dispatcher, jobs, job, made, workerGroup, resultsClosed,
                 statuses, main>>

(* The range over a closed channel ends; the deferred Done() counts down.  *)
Released == 1

WorkerEnds(w) ==
  /\ pc[w] = "receive" /\ jobsClosed
  /\ pc' = [pc EXCEPT ![w] = "ended"]
  /\ workerGroup' = workerGroup - Released
  /\ UNCHANGED <<signalled, dispatcher, jobs, job, made, channel, statuses, main>>

Collect ==
  /\ main = "collect" /\ results # <<>>
  /\ statuses' = Append(statuses, Head(results))
  /\ results' = Tail(results)
  /\ UNCHANGED <<signalled, dispatcher, jobs, workers, workerGroup, resultsClosed,
                 main>>

SortedByPath(seq) == \A i, j \in DOMAIN seq : i < j => seq[i].path <= seq[j].path

(* sort.Slice: some permutation that is ordered by path.                   *)
Received == results = <<>> /\ resultsClosed

SortAndReturn ==
  /\ main = "collect" /\ Received
  /\ \E order \in Bijection(DOMAIN statuses, DOMAIN statuses) :
       /\ statuses' = [i \in DOMAIN statuses |-> statuses[order[i]]]
       /\ SortedByPath(statuses')
  /\ main' = "returned"
  /\ UNCHANGED <<signalled, dispatcher, jobs, workers, workerGroup, channel>>

Dispatcher == CloseJobs \/ WaitForWorkers \/ CloseResults \/ \E w \in Worker : SendJob(w)

WorkerRoutine(w) == Check(w) \/ SendResult(w) \/ WorkerEnds(w)

Caller == Collect \/ SortAndReturn

Next ==
  \/ Signal
  \/ Dispatcher
  \/ \E w \in Worker : WorkerRoutine(w)
  \/ Caller

(* Every goroutine that can run does; which receiver a send meets is the   *)
(* runtime's choice.                                                       *)
Fairness ==
  WF_vars(Dispatcher) /\ WF_vars(Caller) /\ \A w \in Worker : WF_vars(WorkerRoutine(w))

Spec == Init /\ [][Next]_vars /\ Fairness

-------------------------------------------------------------------------------
TypeOK ==
  /\ signalled \in BOOLEAN
  /\ dispatcher \in {"send", "wait", "close results", "ended"}
  /\ sent \in 0 .. Len(Paths) /\ jobsClosed \in BOOLEAN
  /\ pc \in [Worker -> {"receive", "check", "send", "ended"}]
  /\ job \in [Worker -> {0} \cup Range(Paths)]
  /\ made \in [Worker -> {"none", "complete", "interrupted"}]
  /\ workerGroup \in 0 .. PoolSize
  /\ results \in Seq(Status) /\ resultsClosed \in BOOLEAN
  /\ statuses \in Seq(Status)
  /\ main \in {"collect", "returned"}

(* A send on a closed channel panics: nobody is left who could send, or    *)
(* ever will, when results is closed (scan.go:94-101).                     *)
NoSendAfterClose ==
  dispatcher \in {"close results", "ended"} =>
    \A w \in Worker : pc[w] = "ended"

(* The buffer is large enough that no worker ever waits for the caller,    *)
(* even one that does not collect at all (scan.go:81, 88).                 *)
WorkersNeverWait == \A w \in Worker : pc[w] = "send" => Len(results) < ResultsRoom

(* Nothing a check has found is lost on its way through the goroutines:    *)
(* the returned list is sorted and has every path exactly once, and after  *)
(* an interrupt too; a status is a made-up one only because of a SIGINT.   *)
CompleteReport ==
  main = "returned" =>
    /\ SortedByPath(statuses)
    /\ Len(statuses) = Len(Paths)
    /\ \A r \in Range(Paths) : \E i \in DOMAIN statuses :
         /\ statuses[i].path = r
         /\ statuses[i].outcome = "complete" \/ signalled

(* The call returns and no goroutine is left behind.                       *)
Termination ==
  <>(main = "returned" /\ (Paths = <<>> \/ \A w \in Worker : pc[w] = "ended"))

(* The promise of the pool, with each repository's phase read off whoever  *)
(* holds its status.                                                       *)
Held == Range(results) \cup Range(statuses)
          \cup {[path |-> job[w], outcome |-> made[w]] : w \in {v \in Worker : pc[v] = "send"}}

PhaseOf(r) ==
  IF \E w \in Worker : pc[w] = "check" /\ job[w] = r
  THEN "checking"
  ELSE IF \E status \in Held : status.path = r
       THEN (CHOOSE status \in Held : status.path = r).outcome
       ELSE "unchecked"

Scan == INSTANCE RepositoryScan WITH
  Bound <- Requested,
  repositories <- Range(Paths),
  cancelled <- signalled,
  phase <- [r \in Range(Paths) |-> PhaseOf(r)],
  returned <- (main = "returned")

(* The channels implement the same promise as the C++ threads, with SIGINT *)
(* itself as the interrupt.                                                *)
ImplementsScan == Scan!ScanSpec

===============================================================================
