--------------------------- MODULE WorkerPoolProofs ---------------------------
(***************************************************************************)
(* Proofs about WorkerPool, for every list of paths, every --workers and   *)
(* every width of unsigned int; its last part proves that WorkerPool       *)
(* implements RepositoryScan.                                              *)
(***************************************************************************)
EXTENDS WorkerPool, TLAPS, FiniteSetTheorems

NumThreads == PoolSize(Len(Paths))

(* A slot that has been handed out is being checked, or holds the result   *)
(* of a check of its own path.                                             *)
BeingChecked(i) == \E w \in Worker : pc[w] = "check" /\ index[w] = i

Checked(i) ==
  \E outcome \in {"complete", "interrupted"} :
    /\ statuses[i] = [path |-> Paths[i], outcome |-> outcome]
    /\ outcome = "interrupted" => cancelled

SlotsAccounted ==
  main # "returned" => \A i \in Slot :
    \/ statuses[i] = Blank /\ (i < next_index => BeingChecked(i))
    \/ Checked(i) /\ i < next_index

Claimed == \A w \in Worker : pc[w] = "check" => index[w] < next_index

ExitsJustified == \A w \in Worker : pc[w] = "exited" => cancelled \/ next_index > Len(Paths)

MainKnows ==
  /\ main = "spawn" => \A w \in Worker : w > count => pc[w] = "unstarted"
  /\ main = "join" => \A w \in Worker : w <= count => pc[w] = "exited"
  /\ main = "returned" => \A w \in Worker : pc[w] \in {"unstarted", "exited"}

IInv ==
  /\ TypeOK
  /\ SlotOwnership
  /\ SlotsAccounted
  /\ Claimed
  /\ ExitsJustified
  /\ MainKnows
  /\ CompleteReport

-------------------------------------------------------------------------------
(* There is at least one thread, however paths.size() wraps, and there are *)
(* never more than --workers asks for.                                     *)
LEMMA PoolSizeBounds == NumThreads \in Nat \ {0} /\ NumThreads <= Requested
<1> DEFINE fits == Len(Paths) % UIntModulus
<1>1. Len(Paths) \in Nat
  BY PathsAssumption
<1>2. fits \in Nat
  BY <1>1, WidthAssumption
<1> QED
  BY <1>2, WidthAssumption DEF NumThreads, PoolSize

LEMMA WorkerFacts == Worker = 1 .. NumThreads /\ 1 \in Worker
BY PoolSizeBounds DEF Worker, NumThreads

LEMMA SlotFacts ==
  /\ Len(Paths) \in Nat
  /\ Slot = 1 .. Len(Paths)
  /\ \A i \in Slot : Paths[i] \in Nat \ {0} /\ Paths[i] \in Range(Paths)
BY PathsAssumption DEF Slot, Range

(* Type correctness.                                                       *)
LEMMA InitTypeOK == Init => TypeOK
<1> SUFFICES ASSUME Init PROVE TypeOK
  OBVIOUS
<1>1. Blank \in Status
  BY DEF Blank, Status
<1> QED
  BY <1>1, PoolSizeBounds DEF Init, TypeOK, NumThreads

LEMMA NextTypeOK == TypeOK /\ [Next]_vars => TypeOK'
<1> SUFFICES ASSUME TypeOK, [Next]_vars PROVE TypeOK'
  OBVIOUS
<1> USE DEF TypeOK
<1>1. CASE Interrupt
  BY <1>1 DEF Interrupt
<1>2. CASE Spawn
  BY <1>2, PoolSizeBounds, WorkerFacts DEF Spawn, NumThreads
<1>3. CASE StartJoining
  BY <1>3, PoolSizeBounds DEF StartJoining, NumThreads
<1>4. CASE Join
  BY <1>4, PoolSizeBounds, WorkerFacts DEF Join, NumThreads
<1>5. CASE SortAndReturn
  <2>1. PICK order \in Bijection(Slot, Slot) :
          statuses' = [i \in Slot |-> statuses[order[i]]]
    BY <1>5 DEF SortAndReturn
  <2>2. order \in [Slot -> Slot]
    BY <2>1 DEF Bijection, Injection
  <2>3. statuses' \in [Slot -> Status]
    BY <2>1, <2>2
  <2> QED
    BY <1>5, <2>3 DEF SortAndReturn
<1>6. ASSUME NEW w \in Worker, TestCancelled(w) PROVE TypeOK'
  BY <1>6 DEF TestCancelled
<1>7. ASSUME NEW w \in Worker, Claim(w) PROVE TypeOK'
  BY <1>7, SlotFacts DEF Claim, FetchAdd, PastEnd
<1>8. ASSUME NEW w \in Worker, FinishCheck(w) PROVE TypeOK'
  <2>1. PICK outcome \in Outcomes :
          /\ statuses' = [statuses EXCEPT ![index[w]] =
                            [path |-> Paths[index[w]], outcome |-> outcome]]
          /\ pc' = [pc EXCEPT ![w] = "test"]
    BY <1>8 DEF FinishCheck, AfterCheck
  <2>2. index[w] \in Slot
    BY <1>8 DEF FinishCheck
  <2>3. [path |-> Paths[index[w]], outcome |-> outcome] \in Status
    BY <2>2, SlotFacts DEF Outcomes, Status
  <2> QED
    BY <1>8, <2>1, <2>2, <2>3 DEF FinishCheck
<1>9. CASE UNCHANGED vars
  BY <1>9 DEF vars
<1> QED
  BY <1>1, <1>2, <1>3, <1>4, <1>5, <1>6, <1>7, <1>8, <1>9
  DEF Next, MainThread, WorkerThread

(* The shared state always has its type; a thread that is about to write   *)
(* statuses[index] has an index within the vector.                         *)
THEOREM TypeCorrect == Spec => []TypeOK
BY InitTypeOK, NextTypeOK, PTL DEF Spec

-------------------------------------------------------------------------------
LEMMA InitIInv == Init => IInv
<1> SUFFICES ASSUME Init PROVE IInv
  OBVIOUS
<1>1. TypeOK
  BY InitTypeOK
<1>2. SlotOwnership /\ Claimed /\ ExitsJustified
  BY DEF Init, SlotOwnership, Claimed, ExitsJustified
<1>3. SlotsAccounted
  BY SlotFacts DEF Init, SlotsAccounted
<1>4. MainKnows
  BY DEF Init, MainKnows
<1>5. CompleteReport
  BY DEF Init, CompleteReport, Slot, Range, SortedByPath
<1> QED
  BY <1>1, <1>2, <1>3, <1>4, <1>5 DEF IInv

(* Once every thread has exited and nobody interrupted them, every slot    *)
(* holds a complete check of its own path.                                 *)
LEMMA AllSlotsComplete ==
  ASSUME IInv, main = "join", ~cancelled, count + 1 \notin Worker
  PROVE  \A i \in Slot : statuses[i] = [path |-> Paths[i], outcome |-> "complete"]
<1> USE DEF IInv
<1>1. \A w \in Worker : pc[w] = "exited"
  BY WorkerFacts, PoolSizeBounds DEF TypeOK, MainKnows, NumThreads
<1>2. next_index > Len(Paths)
  BY <1>1, WorkerFacts DEF ExitsJustified
<1>3. TAKE i \in Slot
<1>4. i < next_index
  BY <1>2, SlotFacts DEF TypeOK
<1>5. ~BeingChecked(i)
  BY <1>1 DEF BeingChecked
<1>6. Checked(i)
  BY <1>4, <1>5 DEF SlotsAccounted
<1> QED
  BY <1>6 DEF Checked

(* Sorting permutes the slots, so each path still occurs exactly once.     *)
LEMMA SortedReport ==
  ASSUME IInv, SortAndReturn
  PROVE  CompleteReport'
<1> SUFFICES ASSUME ~cancelled
             PROVE  /\ SortedByPath(statuses')
                    /\ \A r \in Range(Paths) : \E i \in Slot :
                         /\ statuses'[i] = [path |-> r, outcome |-> "complete"]
                         /\ \A j \in Slot \ {i} : statuses'[j].path # r
  BY DEF SortAndReturn, CompleteReport, Slot, Range, SortedByPath
<1>1. PICK order \in Bijection(Slot, Slot) :
        /\ statuses' = [i \in Slot |-> statuses[order[i]]]
        /\ SortedByPath(statuses')
  BY DEF SortAndReturn
<1>2. /\ order \in [Slot -> Slot]
      /\ \A i, j \in Slot : order[i] = order[j] => i = j
      /\ \A k \in Slot : \E i \in Slot : order[i] = k
  BY <1>1 DEF Bijection, Injection, Surjection, IsInjective
<1>3. \A i \in Slot : statuses[i] = [path |-> Paths[i], outcome |-> "complete"]
  BY AllSlotsComplete DEF SortAndReturn
<1>4. \A i \in Slot : statuses'[i] = [path |-> Paths[order[i]], outcome |-> "complete"]
  BY <1>1, <1>2, <1>3
<1>5. ASSUME NEW r \in Range(Paths)
      PROVE  \E i \in Slot : /\ statuses'[i] = [path |-> r, outcome |-> "complete"]
                            /\ \A j \in Slot \ {i} : statuses'[j].path # r
  <2>1. PICK k \in Slot : Paths[k] = r
    BY <1>5 DEF Range, Slot
  <2>2. PICK i \in Slot : order[i] = k
    BY <1>2
  <2>3. statuses'[i] = [path |-> r, outcome |-> "complete"]
    BY <1>4, <2>1, <2>2
  <2>4. ASSUME NEW j \in Slot \ {i} PROVE statuses'[j].path # r
    <3>1. order[j] # k /\ order[j] \in Slot
      BY <1>2, <2>2
    <3>2. Paths[order[j]] # r
      BY <2>1, <3>1, PathsAssumption DEF Slot
    <3>3. statuses'[j] = [path |-> Paths[order[j]], outcome |-> "complete"]
      BY <1>4
    <3> QED
      BY <3>2, <3>3
  <2> QED
    BY <2>3, <2>4
<1> QED
  BY <1>1, <1>5

-------------------------------------------------------------------------------
LEMMA StepInterrupt == IInv /\ Interrupt => IInv'
<1> SUFFICES ASSUME IInv, Interrupt PROVE IInv'
  OBVIOUS
<1> USE DEF IInv, Interrupt
<1>1. TypeOK'
  BY NextTypeOK DEF Next
<1>2. (SlotOwnership /\ Claimed /\ ExitsJustified /\ MainKnows)'
  BY DEF SlotOwnership, Claimed, ExitsJustified, MainKnows
<1>3. SlotsAccounted'
  BY DEF SlotsAccounted, BeingChecked, Checked
<1>4. CompleteReport'
  BY DEF CompleteReport
<1> QED
  BY <1>1, <1>2, <1>3, <1>4

(* The calling thread moves on without touching the slots.                 *)
LEMMA StepSpawn == IInv /\ Spawn => IInv'
<1> SUFFICES ASSUME IInv, Spawn PROVE IInv'
  OBVIOUS
<1> USE DEF IInv, Spawn
<1>1. TypeOK'
  BY NextTypeOK DEF Next, MainThread
<1> USE DEF TypeOK
<1>2. pc[count + 1] = "unstarted"
  BY WorkerFacts, PoolSizeBounds DEF MainKnows, NumThreads
<1>3. \A w \in Worker : (pc'[w] = "check") = (pc[w] = "check")
  BY <1>2
<1>4. SlotOwnership' /\ Claimed'
  BY <1>3 DEF SlotOwnership, Claimed
<1>5. SlotsAccounted'
  BY <1>3 DEF SlotsAccounted, BeingChecked, Checked
<1>6. ExitsJustified'
  BY DEF ExitsJustified
<1>7. MainKnows'
  BY WorkerFacts, PoolSizeBounds DEF MainKnows, NumThreads
<1>8. CompleteReport'
  BY DEF CompleteReport
<1> QED
  BY <1>1, <1>4, <1>5, <1>6, <1>7, <1>8

LEMMA StepStartJoining == IInv /\ StartJoining => IInv'
<1> SUFFICES ASSUME IInv, StartJoining PROVE IInv'
  OBVIOUS
<1> USE DEF IInv, StartJoining
<1>1. TypeOK'
  BY NextTypeOK DEF Next, MainThread
<1>2. (SlotOwnership /\ Claimed /\ ExitsJustified)'
  BY DEF SlotOwnership, Claimed, ExitsJustified
<1>3. SlotsAccounted'
  BY DEF SlotsAccounted, BeingChecked, Checked
<1>4. MainKnows' /\ CompleteReport'
  BY WorkerFacts DEF MainKnows, CompleteReport
<1> QED
  BY <1>1, <1>2, <1>3, <1>4

LEMMA StepJoin == IInv /\ Join => IInv'
<1> SUFFICES ASSUME IInv, Join PROVE IInv'
  OBVIOUS
<1> USE DEF IInv, Join
<1>1. TypeOK'
  BY NextTypeOK DEF Next, MainThread
<1>2. (SlotOwnership /\ Claimed /\ ExitsJustified)'
  BY DEF SlotOwnership, Claimed, ExitsJustified
<1>3. SlotsAccounted'
  BY DEF SlotsAccounted, BeingChecked, Checked
<1>4. MainKnows' /\ CompleteReport'
  BY WorkerFacts DEF MainKnows, CompleteReport, TypeOK
<1> QED
  BY <1>1, <1>2, <1>3, <1>4

LEMMA StepSortAndReturn == IInv /\ SortAndReturn => IInv'
<1> SUFFICES ASSUME IInv, SortAndReturn PROVE IInv'
  OBVIOUS
<1>1. TypeOK'
  BY NextTypeOK DEF IInv, Next, MainThread
<1>2. \A w \in Worker : pc'[w] = "exited"
  BY WorkerFacts, PoolSizeBounds DEF SortAndReturn, IInv, TypeOK, MainKnows, NumThreads
<1>3. SlotOwnership' /\ Claimed'
  BY <1>2 DEF SlotOwnership, Claimed
<1>4. SlotsAccounted' /\ ExitsJustified'
  BY DEF SortAndReturn, SlotsAccounted, IInv, ExitsJustified
<1>5. MainKnows'
  BY <1>2 DEF MainKnows, SortAndReturn
<1>6. CompleteReport'
  BY SortedReport
<1> QED
  BY <1>1, <1>3, <1>4, <1>5, <1>6 DEF IInv

(* While a thread still runs, the call has not returned.                   *)
LEMMA StillRunning ==
  ASSUME IInv, NEW w \in Worker, pc[w] \notin {"unstarted", "exited"}
  PROVE  main # "returned"
BY DEF IInv, MainKnows

LEMMA StepTestCancelled ==
  ASSUME IInv, NEW w \in Worker, TestCancelled(w)
  PROVE  IInv'
<1> USE DEF IInv, TestCancelled
<1>1. TypeOK'
  BY NextTypeOK DEF Next, WorkerThread
<1> USE DEF TypeOK
<1>2. main # "returned"
  BY StillRunning
<1>3. \A v \in Worker : (pc'[v] = "check") = (pc[v] = "check")
  OBVIOUS
<1>4. SlotOwnership' /\ Claimed'
  BY <1>3 DEF SlotOwnership, Claimed
<1>5. SlotsAccounted'
  BY <1>3 DEF SlotsAccounted, BeingChecked, Checked
<1>6. ExitsJustified'
  BY DEF ExitsJustified
<1>7. MainKnows' /\ CompleteReport'
  BY <1>2 DEF MainKnows, CompleteReport
<1> QED
  BY <1>1, <1>4, <1>5, <1>6, <1>7

(* The claimed index is below next_index from now on, and no other thread  *)
(* had one as large: the slot is blank and free.                           *)
LEMMA StepClaim ==
  ASSUME IInv, NEW w \in Worker, Claim(w)
  PROVE  IInv'
<1> USE DEF IInv, Claim, FetchAdd, PastEnd
<1>1. TypeOK'
  BY NextTypeOK DEF Next, WorkerThread
<1> USE DEF TypeOK
<1>2. main # "returned"
  BY StillRunning
<1>3. next_index' = next_index + 1 /\ index'[w] = next_index
  OBVIOUS
<1>4. \A v \in Worker \ {w} : pc'[v] = pc[v] /\ index'[v] = index[v]
  OBVIOUS
<1>5. pc'[w] = "check" => next_index \in Slot /\ statuses[next_index] = Blank
  <2> SUFFICES ASSUME pc'[w] = "check"
               PROVE  next_index \in Slot /\ statuses[next_index] = Blank
    OBVIOUS
  <2>1. next_index \in Slot
    BY SlotFacts
  <2> QED
    BY <1>2, <2>1 DEF SlotsAccounted
<1>6. Claimed'
  BY <1>3, <1>4 DEF Claimed
<1>7. SlotOwnership'
  <2>1. ASSUME NEW v \in Worker \ {w}, pc'[v] = "check" PROVE index'[v] < next_index
    BY <1>4, <2>1 DEF Claimed
  <2> QED
    BY <1>3, <1>4, <1>5, <2>1 DEF SlotOwnership
<1>8. SlotsAccounted'
  <2> SUFFICES ASSUME NEW i \in Slot
               PROVE  \/ statuses[i] = Blank /\ (i < next_index' => BeingChecked(i)')
                      \/ Checked(i)' /\ i < next_index'
    BY DEF SlotsAccounted
  <2>0. i \in Nat
    BY SlotFacts
  <2>1. CASE Checked(i) /\ i < next_index
    BY <1>3, <2>0, <2>1 DEF Checked
  <2>2. CASE statuses[i] = Blank /\ i < next_index
    <3>1. PICK v \in Worker : pc[v] = "check" /\ index[v] = i
      BY <1>2, <2>2 DEF SlotsAccounted, BeingChecked, Checked, Blank
    <3> QED
      BY <1>4, <2>2, <3>1 DEF BeingChecked
  <2>3. CASE statuses[i] = Blank /\ i = next_index
    <3>1. pc'[w] = "check"
      BY <2>3, SlotFacts
    <3> QED
      BY <1>3, <2>3, <3>1 DEF BeingChecked
  <2>4. CASE statuses[i] = Blank /\ i > next_index
    BY <1>3, <2>0, <2>4
  <2> QED
    BY <1>2, <2>0, <2>1, <2>2, <2>3, <2>4 DEF SlotsAccounted
<1>9. ExitsJustified'
  BY SlotFacts, <1>3, <1>4 DEF ExitsJustified
<1>10. MainKnows' /\ CompleteReport'
  BY <1>2, <1>4 DEF MainKnows, CompleteReport
<1> QED
  BY <1>1, <1>6, <1>7, <1>8, <1>9, <1>10

(* The slot is the thread's own, so no other slot or claim is disturbed.   *)
LEMMA StepFinishCheck ==
  ASSUME IInv, NEW w \in Worker, FinishCheck(w)
  PROVE  IInv'
<1> DEFINE own == index[w]
<1>1. PICK outcome \in Outcomes :
        /\ statuses' = [statuses EXCEPT ![own] = [path |-> Paths[own], outcome |-> outcome]]
        /\ pc' = [pc EXCEPT ![w] = "test"]
  BY DEF FinishCheck, AfterCheck
<1>2. TypeOK'
  BY NextTypeOK DEF IInv, Next, WorkerThread
<1>3. main # "returned"
  BY StillRunning DEF FinishCheck
<1>4. /\ pc[w] = "check" /\ own \in Slot /\ own < next_index
      /\ UNCHANGED <<cancelled, next_index, index, main, count>>
  BY DEF FinishCheck, IInv, TypeOK, Claimed
<1>5. \A v \in Worker \ {w} : pc'[v] = pc[v] /\ (pc[v] = "check" => index[v] # own)
  BY <1>1, <1>4 DEF IInv, TypeOK, SlotOwnership
<1>6. pc'[w] = "test"
  BY <1>1 DEF IInv, TypeOK
<1>7. \A i \in Slot \ {own} : statuses'[i] = statuses[i]
  BY <1>1 DEF IInv, TypeOK
<1>8. statuses'[own] = [path |-> Paths[own], outcome |-> outcome]
  BY <1>1, <1>4 DEF IInv, TypeOK
<1>9. Claimed'
  BY <1>4, <1>5, <1>6 DEF IInv, Claimed
<1>10. SlotOwnership'
  <2> SUFFICES ASSUME NEW v \in Worker, pc'[v] = "check"
               PROVE  /\ statuses'[index[v]] = Blank
                      /\ \A u \in Worker \ {v} : pc'[u] = "check" => index[u] # index[v]
    BY <1>4 DEF SlotOwnership
  <2>1. v # w /\ pc[v] = "check" /\ index[v] # own
    BY <1>5, <1>6
  <2>2. index[v] \in Slot
    BY <2>1 DEF IInv, TypeOK
  <2> QED
    BY <1>5, <1>6, <1>7, <2>1, <2>2 DEF IInv, SlotOwnership
<1>11. SlotsAccounted'
  <2> SUFFICES ASSUME NEW i \in Slot
               PROVE  \/ statuses'[i] = Blank /\ (i < next_index => BeingChecked(i)')
                      \/ Checked(i)' /\ i < next_index
    BY <1>4 DEF SlotsAccounted
  <2>1. CASE i = own
    <3>1. outcome \in {"complete", "interrupted"} /\ (outcome = "interrupted" => cancelled)
      BY DEF Outcomes
    <3> QED
      BY <1>4, <1>8, <2>1, <3>1 DEF Checked
  <2>2. CASE i # own
    <3>1. Checked(i)' = Checked(i)
      BY <1>4, <1>7, <2>2 DEF Checked
    <3>2. BeingChecked(i) => BeingChecked(i)'
      BY <1>4, <1>5, <2>2 DEF BeingChecked
    <3> QED
      BY <1>3, <1>7, <2>2, <3>1, <3>2 DEF IInv, SlotsAccounted
  <2> QED
    BY <2>1, <2>2
<1>12. ExitsJustified' /\ MainKnows' /\ CompleteReport'
  BY <1>3, <1>4, <1>5, <1>6 DEF IInv, ExitsJustified, MainKnows, CompleteReport
<1> QED
  BY <1>2, <1>9, <1>10, <1>11, <1>12 DEF IInv

LEMMA NextIInv == IInv /\ [Next]_vars => IInv'
<1> SUFFICES ASSUME IInv, [Next]_vars PROVE IInv'
  OBVIOUS
<1>1. CASE Interrupt
  BY <1>1, StepInterrupt
<1>2. CASE MainThread
  BY <1>2, StepSpawn, StepStartJoining, StepJoin, StepSortAndReturn DEF MainThread
<1>3. ASSUME NEW w \in Worker, WorkerThread(w) PROVE IInv'
  BY <1>3, StepTestCancelled, StepClaim, StepFinishCheck DEF WorkerThread
<1>4. CASE UNCHANGED vars
  BY <1>4 DEF vars, IInv, TypeOK, SlotOwnership, SlotsAccounted, BeingChecked, Checked, Claimed,
              ExitsJustified, MainKnows, CompleteReport
<1> QED
  BY <1>1, <1>2, <1>3, <1>4 DEF Next

(* The inductive invariant.                                                *)
THEOREM Invariance == Spec => []IInv
BY InitIInv, NextIInv, PTL DEF Spec

(* The threads write to their slots without a lock, and never to the same  *)
(* one: no data race on statuses, and no result is overwritten.            *)
THEOREM NoSharedSlot == Spec => []SlotOwnership
<1>1. IInv => SlotOwnership
  BY DEF IInv
<1> QED
  BY <1>1, Invariance, PTL

(* When the call returns without an interrupt, every repository has been   *)
(* checked exactly once and the list is sorted.                            *)
THEOREM ReportIsComplete == Spec => []CompleteReport
<1>1. IInv => CompleteReport
  BY DEF IInv
<1> QED
  BY <1>1, Invariance, PTL

(* After an interrupt, no thread claims a repository any more, other than  *)
(* one that had already passed its test of the flag.                       *)
THEOREM CancelStops == Spec => CancelIsFinal
<1> DEFINE A == (cancelled /\ \A w \in Worker : pc[w] # "claim")
                  => (next_index' = next_index /\ \A w \in Worker : pc'[w] # "claim")
<1>1. TypeOK /\ [Next]_vars => [A]_vars
  BY DEF TypeOK, Next, vars, MainThread, WorkerThread, Interrupt, Spawn, StartJoining, Join,
         SortAndReturn, TestCancelled, Claim, FinishCheck, AfterCheck
<1> QED
  BY <1>1, TypeCorrect, PTL DEF Spec, CancelIsFinal

-------------------------------------------------------------------------------
(* WorkerPool implements RepositoryScan: each step of a thread begins,     *)
(* finishes or returns from a scan of the paths, or stutters.              *)
Abstract == [r \in Range(Paths) |-> PhaseOf(r)]

(* Until the call returns, the status of a repository is in its own slot.  *)
SlotPhase(i) ==
  IF BeingChecked(i) THEN "checking"
  ELSE IF statuses[i] = Blank THEN "unchecked" ELSE statuses[i].outcome

-------------------------------------------------------------------------------
LEMMA PathFacts ==
  /\ \A r \in Range(Paths) : \E i \in Slot : r = Paths[i]
  /\ \A i, j \in Slot : Paths[i] = Paths[j] => i = j
  /\ Blank.path = 0 /\ Blank.outcome = "blank"
BY PathsAssumption DEF Range, Slot, Blank

LEMMA CheckingPath ==
  ASSUME IInv, NEW i \in Slot
  PROVE  (\E w \in Worker : pc[w] = "check" /\ Paths[index[w]] = Paths[i]) <=> BeingChecked(i)
BY PathFacts DEF IInv, TypeOK, BeingChecked

LEMMA PhaseOfSlot ==
  ASSUME IInv, main # "returned", NEW i \in Slot
  PROVE  PhaseOf(Paths[i]) = SlotPhase(i)
<1>1. \A j \in Slot : statuses[j].path = Paths[i] => j = i
  <2> SUFFICES ASSUME NEW j \in Slot, statuses[j].path = Paths[i] PROVE j = i
    OBVIOUS
  <2>1. statuses[j] # Blank
    BY SlotFacts, PathFacts
  <2>2. Checked(j)
    BY <2>1 DEF IInv, SlotsAccounted
  <2> QED
    BY <2>2, PathFacts DEF Checked
<1>2. CASE BeingChecked(i)
  BY <1>2, CheckingPath DEF PhaseOf, SlotPhase
<1>3. CASE ~BeingChecked(i) /\ statuses[i] = Blank
  <2>1. ~\E j \in Slot : statuses[j].path = Paths[i]
    BY <1>1, <1>3, SlotFacts, PathFacts
  <2> QED
    BY <1>3, <2>1, CheckingPath DEF PhaseOf, SlotPhase
<1>4. CASE ~BeingChecked(i) /\ statuses[i] # Blank
  <2>0. Checked(i)
    BY <1>4 DEF IInv, SlotsAccounted
  <2>1. statuses[i].path = Paths[i]
    BY <2>0 DEF Checked
  <2>2. (CHOOSE j \in Slot : statuses[j].path = Paths[i]) = i
    BY <1>1, <2>1
  <2> QED
    BY <1>4, <2>1, <2>2, CheckingPath DEF PhaseOf, SlotPhase
<1> QED
  BY <1>2, <1>3, <1>4

LEMMA PhasesOfSlots ==
  IInv /\ main # "returned" => \A i \in Slot : PhaseOf(Paths[i]) = SlotPhase(i)
BY PhaseOfSlot

LEMMA PhasesOfSlotsAfter ==
  (IInv /\ main # "returned" => \A i \in Slot : PhaseOf(Paths[i]) = SlotPhase(i))'
BY PhasesOfSlots, PTL

(* The phases are the same wherever the slots and the claims are.          *)
LEMMA SamePhases ==
  ASSUME statuses' = statuses, index' = index,
         \A w \in Worker : (pc'[w] = "check") = (pc[w] = "check")
  PROVE  Abstract' = Abstract
BY DEF Abstract, PhaseOf

LEMMA InitRefines == Init => Scan!ScanInit
<1> SUFFICES ASSUME Init PROVE Scan!ScanInit
  OBVIOUS
<1>1. \A r \in Range(Paths) : PhaseOf(r) = "unchecked"
  BY PathFacts, SlotFacts DEF Init, PhaseOf
<1>2. (main = "returned") = (Range(Paths) = {})
  <2>1. CASE Paths = <<>>
    BY <2>1 DEF Init, Range
  <2>2. CASE Paths # <<>>
    <3>1. 1 \in Slot
      BY <2>2, SlotFacts, PathsAssumption
    <3> QED
      BY <2>2, <3>1, SlotFacts DEF Init
  <2> QED
    BY <2>1, <2>2
<1> QED
  BY <1>1, <1>2 DEF Init, Scan!ScanInit, Scan!Call

-------------------------------------------------------------------------------
LEMMA SameCardinality == ASSUME NEW S PROVE Scan!Cardinality(S) = Cardinality(S)
BY DEF Scan!Cardinality, Cardinality

(* A thread that goes on to check its claim begins the scan of that path.  *)
(* It was not checking before, so at most NumThreads - 1 threads were, and *)
(* each repository being checked has a thread of its own.                  *)
LEMMA RoomForOneMore ==
  ASSUME IInv, NEW w \in Worker, pc[w] = "claim"
  PROVE  Scan!Cardinality(Scan!Checking) < Requested
<1> DEFINE Others == Worker \ {w}
           OnIt(r, v) == pc[v] = "check" /\ Paths[index[v]] = r
           thread == [r \in Scan!Checking |-> CHOOSE v \in Worker : OnIt(r, v)]
<1>1. \A r \in Scan!Checking : \E v \in Worker : OnIt(r, v)
  <2> SUFFICES ASSUME NEW r \in Scan!Checking PROVE \E v \in Worker : OnIt(r, v)
    OBVIOUS
  <2>1. PICK i \in Slot : r = Paths[i]
    BY PathFacts DEF Scan!Checking
  <2>2. main # "returned"
    BY StillRunning
  <2>3. SlotPhase(i) = "checking"
    BY <2>1, <2>2, PhaseOfSlot DEF Scan!Checking
  <2>4. CASE BeingChecked(i)
    BY <2>1, <2>4, CheckingPath
  <2>5. CASE ~BeingChecked(i)
    <3>1. statuses[i] # Blank /\ statuses[i].outcome = "checking"
      BY <2>3, <2>5 DEF SlotPhase
    <3>2. Checked(i)
      BY <2>2, <3>1 DEF IInv, SlotsAccounted
    <3> QED
      BY <3>1, <3>2 DEF Checked
  <2> QED
    BY <2>4, <2>5
<1>2. \A r \in Scan!Checking : thread[r] \in Worker /\ OnIt(r, thread[r])
  BY <1>1
<1>3. thread \in [Scan!Checking -> Others]
  BY <1>2
<1>4. thread \in Injection(Scan!Checking, Others)
  BY <1>2, <1>3 DEF Injection, IsInjective
<1>5. IsFiniteSet(Worker) /\ Cardinality(Worker) = NumThreads
  BY FS_Interval, WorkerFacts, PoolSizeBounds
<1>6. IsFiniteSet(Others) /\ Cardinality(Others) = NumThreads - 1
  BY <1>5, FS_RemoveElement
<1>7. IsFiniteSet(Scan!Checking) /\ Cardinality(Scan!Checking) <= Cardinality(Others)
  BY <1>4, <1>6, FS_Injection
<1>8. Cardinality(Scan!Checking) \in Nat
  BY <1>7, FS_CardinalityType
<1> QED
  BY <1>6, <1>7, <1>8, PoolSizeBounds, WidthAssumption, SameCardinality

LEMMA ClaimRefines ==
  ASSUME IInv, IInv', NEW w \in Worker, Claim(w)
  PROVE  [Scan!ScanNext]_(Scan!scanVars)
<1>1. main # "returned" /\ main' = main
  BY StillRunning DEF Claim
<1>2. CASE PastEnd(next_index)
  <2>1. \A v \in Worker : (pc'[v] = "check") = (pc[v] = "check")
    BY <1>2 DEF Claim, IInv, TypeOK
  <2>2. \A v \in Worker : pc[v] = "check" => index'[v] = index[v]
    BY DEF Claim, IInv, TypeOK
  <2>3. Abstract' = Abstract
    BY <2>1, <2>2 DEF Abstract, PhaseOf, Claim
  <2> QED
    BY <2>3 DEF Claim, Abstract, Scan!scanVars
<1>3. CASE ~PastEnd(next_index)
  <2> PICK new : new = next_index
    OBVIOUS
  <2>1. new \in Slot /\ Paths[new] \in Range(Paths)
    BY <1>3, SlotFacts DEF PastEnd, IInv, TypeOK
  <2>2. pc'[w] = "check" /\ index'[w] = new
    BY <1>3 DEF Claim, IInv, TypeOK
  <2>3. \A v \in Worker \ {w} : pc'[v] = pc[v] /\ index'[v] = index[v]
    BY DEF Claim, IInv, TypeOK
  <2>4. BeingChecked(new)'
    BY <2>2 DEF BeingChecked
  <2>5. ~BeingChecked(new) /\ statuses[new] = Blank
    <3>1. ~BeingChecked(new)
      BY <2>1, SlotFacts DEF BeingChecked, IInv, Claimed
    <3> QED
      BY <1>1, <2>1, <3>1 DEF IInv, SlotsAccounted, TypeOK
  <2>6. \A i \in Slot \ {new} : SlotPhase(i)' = SlotPhase(i)
    <3> SUFFICES ASSUME NEW i \in Slot \ {new} PROVE SlotPhase(i)' = SlotPhase(i)
      OBVIOUS
    <3>1. BeingChecked(i)' = BeingChecked(i)
      BY <2>2, <2>3 DEF BeingChecked, Claim
    <3> QED
      BY <3>1 DEF SlotPhase, Claim, Blank
  <2>7. PhaseOf(Paths[new]) = "unchecked" /\ PhaseOf(Paths[new])' = "checking"
    <3>1. PhaseOf(Paths[new])' = SlotPhase(new)'
      BY <1>1, <2>1, PhasesOfSlotsAfter
    <3>2. PhaseOf(Paths[new]) = SlotPhase(new)
      BY <1>1, <2>1, PhasesOfSlots
    <3> QED
      BY <2>4, <2>5, <3>1, <3>2 DEF SlotPhase
  <2>8. \A r \in Range(Paths) \ {Paths[new]} : PhaseOf(r)' = PhaseOf(r)
    <3> SUFFICES ASSUME NEW r \in Range(Paths) \ {Paths[new]} PROVE PhaseOf(r)' = PhaseOf(r)
      OBVIOUS
    <3>1. PICK i \in Slot \ {new} : r = Paths[i]
      BY PathFacts
    <3>2. PhaseOf(Paths[i])' = SlotPhase(i)'
      BY <1>1, PhasesOfSlotsAfter
    <3> QED
      BY <1>1, <2>6, <3>1, <3>2, PhasesOfSlots
  <2>9. Abstract' = [Abstract EXCEPT ![Paths[new]] = "checking"]
    BY <2>1, <2>7, <2>8 DEF Abstract
  <2>10. Scan!Cardinality(Scan!Checking) < Requested
    BY RoomForOneMore DEF Claim
  <2>11. Scan!Begin(Paths[new])
    BY <1>1, <2>1, <2>7, <2>9, <2>10 DEF Claim, Abstract, Scan!Begin
  <2> QED
    BY <2>1, <2>11 DEF Scan!ScanNext
<1> QED
  BY <1>2, <1>3

LEMMA FinishCheckRefines ==
  ASSUME IInv, IInv', NEW w \in Worker, FinishCheck(w)
  PROVE  [Scan!ScanNext]_(Scan!scanVars)
<1>1. main # "returned" /\ main' = main
  BY StillRunning DEF FinishCheck
<1>2. PICK own \in Slot : own = index[w]
  BY DEF FinishCheck, IInv, TypeOK
<1>3. PICK outcome \in Outcomes :
        /\ statuses' = [statuses EXCEPT ![own] = [path |-> Paths[own], outcome |-> outcome]]
        /\ pc' = [pc EXCEPT ![w] = "test"]
  BY <1>2 DEF FinishCheck, AfterCheck
<1>4. /\ pc[w] = "check" /\ index' = index /\ pc'[w] = "test"
      /\ \A v \in Worker \ {w} : pc'[v] = pc[v] /\ (pc[v] = "check" => index[v] # own)
  BY <1>2, <1>3 DEF FinishCheck, IInv, TypeOK, SlotOwnership
<1>5. PhaseOf(Paths[own]) = "checking"
  BY <1>1, <1>2, <1>4, PhasesOfSlots DEF SlotPhase, BeingChecked
<1>6. PhaseOf(Paths[own])' = outcome
  <2>1. statuses'[own] = [path |-> Paths[own], outcome |-> outcome]
    BY <1>3 DEF IInv, TypeOK
  <2>2. ~BeingChecked(own)'
    BY <1>4 DEF BeingChecked
  <2>3. statuses'[own] # Blank
    BY <2>1, SlotFacts, PathFacts
  <2>4. SlotPhase(own)' = outcome
    BY <2>1, <2>2, <2>3 DEF SlotPhase, Blank
  <2> QED
    BY <1>1, <2>4, PhasesOfSlotsAfter
<1>7. \A r \in Range(Paths) \ {Paths[own]} : PhaseOf(r)' = PhaseOf(r)
  <2> SUFFICES ASSUME NEW r \in Range(Paths) \ {Paths[own]} PROVE PhaseOf(r)' = PhaseOf(r)
    OBVIOUS
  <2>1. PICK i \in Slot \ {own} : r = Paths[i]
    BY PathFacts
  <2>2. statuses'[i] = statuses[i]
    BY <1>3 DEF IInv, TypeOK
  <2>3. BeingChecked(i)' = BeingChecked(i)
    BY <1>2, <1>4 DEF BeingChecked
  <2>4. SlotPhase(i)' = SlotPhase(i)
    BY <2>2, <2>3 DEF SlotPhase, Blank
  <2>5. PhaseOf(Paths[i])' = SlotPhase(i)'
    BY <1>1, PhasesOfSlotsAfter
  <2> QED
    BY <1>1, <2>1, <2>4, <2>5, PhasesOfSlots
<1>8. Paths[own] \in Range(Paths)
  BY SlotFacts
<1>9. Abstract' = [Abstract EXCEPT ![Paths[own]] = outcome]
  BY <1>6, <1>7, <1>8 DEF Abstract
<1>10. outcome \in Scan!Outcomes
  BY DEF Outcomes, Scan!Outcomes
<1>11. Scan!Finish(Paths[own])
  BY <1>1, <1>5, <1>8, <1>9, <1>10 DEF FinishCheck, Abstract, Scan!Finish
<1> QED
  BY <1>8, <1>11 DEF Scan!ScanNext

(* Sorting moves every status to another slot and changes none.            *)
LEMMA SortAndReturnRefines ==
  ASSUME IInv, SortAndReturn
  PROVE  [Scan!ScanNext]_(Scan!scanVars)
<1>1. PICK order \in Bijection(Slot, Slot) : statuses' = [i \in Slot |-> statuses[order[i]]]
  BY DEF SortAndReturn
<1>2. /\ order \in [Slot -> Slot]
      /\ \A i, j \in Slot : order[i] = order[j] => i = j
      /\ \A k \in Slot : \E i \in Slot : order[i] = k
  BY <1>1 DEF Bijection, Injection, Surjection, IsInjective
<1>3. main = "join" /\ \A w \in Worker : pc[w] = "exited" /\ pc'[w] = "exited"
  BY WorkerFacts, PoolSizeBounds DEF SortAndReturn, IInv, TypeOK, MainKnows, NumThreads
<1>4. \A i, j \in Slot : statuses[j].path = Paths[i] => j = i
  <2> SUFFICES ASSUME NEW i \in Slot, NEW j \in Slot, statuses[j].path = Paths[i] PROVE j = i
    OBVIOUS
  <2>1. statuses[j] # Blank
    BY SlotFacts, PathFacts
  <2>2. Checked(j)
    BY <1>3, <2>1 DEF IInv, SlotsAccounted
  <2> QED
    BY <2>2, PathFacts DEF Checked
<1>5. \A r \in Range(Paths) : PhaseOf(r)' = PhaseOf(r)
  <2> SUFFICES ASSUME NEW r \in Range(Paths) PROVE PhaseOf(r)' = PhaseOf(r)
    OBVIOUS
  <2>1. PICK k \in Slot : r = Paths[k]
    BY PathFacts
  <2>2. PICK at \in Slot : order[at] = k
    BY <1>2
  <2>3. \A j \in Slot : statuses'[j].path = r => j = at
    BY <1>1, <1>2, <1>4, <2>1, <2>2
  <2>4. statuses'[at] = statuses[k]
    BY <1>1, <2>2
  <2>5. CASE statuses[k].path = r
    <3>1. (CHOOSE j \in Slot : statuses[j].path = r) = k
      BY <1>4, <2>1, <2>5
    <3>2. (CHOOSE j \in Slot : statuses'[j].path = r) = at
      BY <2>3, <2>4, <2>5
    <3>3. PhaseOf(r) = statuses[k].outcome
      BY <1>3, <2>5, <3>1 DEF PhaseOf
    <3>4. PhaseOf(r)' = statuses'[at].outcome
      BY <1>3, <2>4, <2>5, <3>2 DEF PhaseOf
    <3> QED
      BY <2>4, <3>3, <3>4
  <2>6. CASE statuses[k].path # r
    <3>1. ~\E j \in Slot : statuses[j].path = r
      BY <1>4, <2>1, <2>6
    <3>2. ~\E j \in Slot : statuses'[j].path = r
      BY <2>3, <2>4, <2>6
    <3> QED
      BY <1>3, <3>1, <3>2 DEF PhaseOf
  <2> QED
    BY <2>5, <2>6
<1>6. Abstract' = Abstract
  BY <1>5 DEF Abstract
<1>7. \A r \in Range(Paths) : PhaseOf(r) # "checking"
  <2> SUFFICES ASSUME NEW r \in Range(Paths), PhaseOf(r) = "checking" PROVE FALSE
    OBVIOUS
  <2>1. PICK k \in Slot : r = Paths[k]
    BY PathFacts
  <2>2. ~BeingChecked(k)
    BY <1>3 DEF BeingChecked
  <2>3. statuses[k] # Blank /\ statuses[k].outcome = "checking"
    BY <1>3, <2>1, <2>2, PhasesOfSlots DEF SlotPhase
  <2>4. Checked(k)
    BY <1>3, <2>3 DEF IInv, SlotsAccounted
  <2> QED
    BY <2>3, <2>4 DEF Checked
<1>8. cancelled \/ \A r \in Range(Paths) : PhaseOf(r) = "complete"
  <2> SUFFICES ASSUME ~cancelled, NEW r \in Range(Paths) PROVE PhaseOf(r) = "complete"
    OBVIOUS
  <2>1. PICK k \in Slot : r = Paths[k]
    BY PathFacts
  <2>2. statuses[k] = [path |-> Paths[k], outcome |-> "complete"]
    BY <1>3, AllSlotsComplete DEF SortAndReturn
  <2>3. statuses[k] # Blank /\ ~BeingChecked(k)
    BY <1>3, <2>2, PathFacts DEF BeingChecked
  <2> QED
    BY <1>3, <2>1, <2>2, <2>3, PhasesOfSlots DEF SlotPhase
<1>9. Scan!Return
  BY <1>3, <1>6, <1>7, <1>8 DEF SortAndReturn, Abstract, Scan!Return, Scan!Checking
<1> QED
  BY <1>9 DEF Scan!ScanNext

-------------------------------------------------------------------------------
LEMMA StepRefines == IInv /\ IInv' /\ [Next]_vars => [Scan!ScanNext]_(Scan!scanVars)
<1> SUFFICES ASSUME IInv, IInv', [Next]_vars PROVE [Scan!ScanNext]_(Scan!scanVars)
  OBVIOUS
<1>1. CASE Interrupt
  <2>1. Abstract' = Abstract
    BY <1>1, SamePhases DEF Interrupt
  <2>2. Scan!Interrupt
    BY <1>1, <2>1 DEF Interrupt, Abstract, Scan!Interrupt
  <2> QED
    BY <2>2 DEF Scan!ScanNext
<1>2. ASSUME Spawn \/ StartJoining \/ Join \/ UNCHANGED vars
      PROVE  UNCHANGED Scan!scanVars
  <2>1. \A w \in Worker : (pc'[w] = "check") = (pc[w] = "check")
    <3>1. CASE Spawn
      <4>1. pc[count + 1] = "unstarted"
        BY <3>1, WorkerFacts, PoolSizeBounds DEF Spawn, IInv, TypeOK, MainKnows, NumThreads
      <4> QED
        BY <3>1, <4>1 DEF Spawn, IInv, TypeOK
    <3> QED
      BY <1>2, <3>1 DEF StartJoining, Join, vars
  <2>2. statuses' = statuses /\ index' = index
    BY <1>2 DEF Spawn, StartJoining, Join, vars
  <2>3. Abstract' = Abstract
    BY <2>1, <2>2, SamePhases
  <2>4. cancelled' = cancelled /\ (main' = "returned") = (main = "returned")
    BY <1>2 DEF Spawn, StartJoining, Join, vars
  <2> QED
    BY <2>3, <2>4 DEF Abstract, Scan!scanVars
<1>3. ASSUME NEW w \in Worker, TestCancelled(w) PROVE UNCHANGED Scan!scanVars
  <2>1. \A v \in Worker : (pc'[v] = "check") = (pc[v] = "check")
    BY <1>3 DEF TestCancelled, IInv, TypeOK
  <2>2. Abstract' = Abstract
    BY <1>3, <2>1, SamePhases DEF TestCancelled
  <2> QED
    BY <1>3, <2>2 DEF TestCancelled, Abstract, Scan!scanVars
<1> QED
  BY <1>1, <1>2, <1>3, ClaimRefines, FinishCheckRefines, SortAndReturnRefines
  DEF Next, MainThread, WorkerThread

(* The pool keeps the promise of RepositoryScan: at most --workers checks  *)
(* at a time, none twice, none skipped unless the user interrupts.         *)
THEOREM Refinement == Spec => ImplementsScan
<1>1. Init => Scan!ScanInit
  BY InitRefines
<1>2. IInv /\ IInv' /\ [Next]_vars => [Scan!ScanNext]_(Scan!scanVars)
  BY StepRefines
<1> QED
  BY <1>1, <1>2, Invariance, PTL DEF Spec, ImplementsScan, Scan!ScanSpec

===============================================================================
