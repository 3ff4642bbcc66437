-------------------------- MODULE GoWorkerPoolProofs --------------------------
(***************************************************************************)
(* Proofs about GoWorkerPool, for every list of distinct paths and every   *)
(* number of workers.                                                      *)
(***************************************************************************)
EXTENDS GoWorkerPool, FiniteSetTheorems, SequenceTheorems, TLAPS

NumPaths == Len(Paths)

Busy(w) == pc[w] \in {"check", "send"}

(* What has passed through the channel of statuses, in the order it did;   *)
(* the caller's receiving moves a status from one part to the other.       *)
Delivered == statuses \o results

Handed(path) == \E i \in 1 .. sent : Paths[i] = path

GroupCounts == workerGroup = Cardinality({w \in Worker : pc[w] # "ended"})

DispatcherKnows ==
  /\ jobsClosed <=> dispatcher # "send"
  /\ jobsClosed => sent = NumPaths
  /\ resultsClosed <=> dispatcher = "ended"
  /\ \A w \in Worker : pc[w] = "ended" => jobsClosed

WorkersKnow ==
  \A w \in Worker :
    /\ Busy(w) => Handed(job[w])
    /\ pc[w] = "send" => made[w] \in Outcomes

(* A path that has been handed out is with one worker or was delivered     *)
(* once.                                                                   *)
OneWorkerEach == \A v, w \in Worker : Busy(v) /\ Busy(w) /\ job[v] = job[w] => v = w

DeliveredOnce ==
  \A k \in DOMAIN Delivered :
    /\ Handed(Delivered[k].path)
    /\ Delivered[k].outcome \in Outcomes
    /\ \A w \in Worker : Busy(w) => Delivered[k].path # job[w]
    /\ \A j \in DOMAIN Delivered : Delivered[j].path = Delivered[k].path => j = k

NothingDropped ==
  \A i \in 1 .. sent :
    \/ \E w \in Worker : Busy(w) /\ job[w] = Paths[i]
    \/ \E k \in DOMAIN Delivered : Delivered[k].path = Paths[i]

CallerKnows ==
  main = "returned" => results = <<>> /\ \A w \in Worker : pc[w] = "ended"

HoldersKnown == WorkersKnow /\ OneWorkerEach /\ DeliveredOnce /\ NothingDropped

IInv ==
  /\ TypeOK
  /\ GroupCounts
  /\ DispatcherKnows
  /\ NoSendAfterClose
  /\ HoldersKnown
  /\ CallerKnows
  /\ CompleteReport

-------------------------------------------------------------------------------
LEMMA PathFacts ==
  /\ NumPaths \in Nat /\ DOMAIN Paths = 1 .. NumPaths
  /\ \A i \in 1 .. NumPaths : Paths[i] \in Nat \ {0} /\ Paths[i] \in Range(Paths)
  /\ \A r \in Range(Paths) : \E i \in 1 .. NumPaths : r = Paths[i]
  /\ \A i, j \in 1 .. NumPaths : Paths[i] = Paths[j] => i = j
BY GoPathsAssumption DEF Range, NumPaths

LEMMA SentFacts == IInv => sent \in Nat /\ sent <= NumPaths
<1>1. IInv => sent \in 0 .. Len(Paths)
  BY DEF IInv, TypeOK
<1> QED
  BY <1>1, PathFacts DEF NumPaths

LEMMA PoolSizeBounds == PoolSize \in Nat /\ PoolSize <= NumPaths /\ PoolSize <= Requested
BY PathFacts, RequestedAssumption DEF PoolSize, NumPaths

LEMMA WorkersAreFinite == IsFiniteSet(Worker) /\ Cardinality(Worker) = PoolSize
BY FS_Interval, PoolSizeBounds DEF Worker

(* The counter of the wait group is 0 only when every worker has ended.    *)
LEMMA GroupFacts ==
  ASSUME GroupCounts
  PROVE  /\ workerGroup \in Nat
         /\ workerGroup = 0 => \A w \in Worker : pc[w] = "ended"
<1> DEFINE left == {w \in Worker : pc[w] # "ended"}
<1>1. IsFiniteSet(left)
  BY WorkersAreFinite, FS_Subset
<1>2. workerGroup = Cardinality(left)
  BY DEF GroupCounts
<1> QED
  BY <1>1, <1>2, FS_CardinalityType, FS_EmptySet

LEMMA DeliveredFacts ==
  ASSUME TypeOK
  PROVE  /\ Delivered \in Seq(Status)
         /\ Len(Delivered) = Len(statuses) + Len(results)
         /\ Len(Delivered) \in Nat /\ DOMAIN Delivered = 1 .. Len(Delivered)
         /\ Len(results) \in Nat /\ Len(results) <= Len(Delivered)
         /\ \A k \in DOMAIN Delivered : Delivered[k].path \in Range(Paths)
<1>1. statuses \in Seq(Status) /\ results \in Seq(Status)
  BY DEF TypeOK
<1>2. Delivered \in Seq(Status) /\ Len(Delivered) = Len(statuses) + Len(results)
  BY <1>1, ConcatProperties DEF Delivered
<1>3. \A k \in DOMAIN Delivered : Delivered[k] \in Status
  BY <1>2
<1> QED
  BY <1>1, <1>2, <1>3 DEF Status

(* Receiving a status does not change what has been delivered.             *)
LEMMA CollectDelivers ==
  ASSUME TypeOK, Collect
  PROVE  Delivered' = Delivered /\ results' \in Seq(Status) /\ statuses' \in Seq(Status)
<1>1. /\ statuses \in Seq(Status) /\ results \in Seq(Status) /\ results # <<>>
      /\ statuses' = Append(statuses, Head(results)) /\ results' = Tail(results)
  BY DEF TypeOK, Collect
<1>2. /\ Head(results) \in Status /\ Head(results) = results[1] /\ results' \in Seq(Status)
      /\ Len(results') = Len(results) - 1
      /\ \A i \in 1 .. Len(results') : results'[i] = results[i + 1]
  BY <1>1, HeadTailProperties
<1>3. /\ statuses' \in Seq(Status) /\ Len(statuses') = Len(statuses) + 1
      /\ \A i \in 1 .. Len(statuses) : statuses'[i] = statuses[i]
      /\ statuses'[Len(statuses) + 1] = results[1]
  BY <1>1, <1>2, AppendProperties
<1>4. Delivered' \in Seq(Status) /\ Delivered \in Seq(Status)
  BY <1>1, <1>2, <1>3, ConcatProperties DEF Delivered
<1>5. Len(Delivered') = Len(Delivered)
  BY <1>1, <1>2, <1>3, ConcatProperties DEF Delivered
<1>6. \A i \in 1 .. Len(Delivered') : Delivered'[i] = Delivered[i]
  BY <1>1, <1>2, <1>3, ConcatProperties DEF Delivered
<1> QED
  BY <1>2, <1>3, <1>4, <1>5, <1>6, SeqEqual

LEMMA SendDelivers ==
  ASSUME TypeOK, NEW status \in Status, results' = Append(results, status), statuses' = statuses
  PROVE  /\ results' \in Seq(Status)
         /\ DOMAIN Delivered' = 1 .. Len(Delivered) + 1
         /\ \A k \in DOMAIN Delivered : Delivered'[k] = Delivered[k]
         /\ Delivered'[Len(Delivered) + 1] = status
<1>1. statuses \in Seq(Status) /\ results \in Seq(Status) /\ results' \in Seq(Status)
  BY AppendProperties DEF TypeOK
<1>2. Delivered' = Append(Delivered, status)
  <2>1. results' = results \o <<status>>
    BY <1>1, AppendIsConcat
  <2>2. <<status>> \in Seq(Status)
    OBVIOUS
  <2>3. Delivered' = Delivered \o <<status>>
    BY <1>1, <2>1, <2>2, ConcatAssociative DEF Delivered
  <2> QED
    BY <2>3, DeliveredFacts, AppendIsConcat
<1> QED
  BY <1>1, <1>2, DeliveredFacts, AppendProperties

-------------------------------------------------------------------------------
LEMMA InitIInv == Init => IInv
<1> SUFFICES ASSUME Init PROVE IInv
  OBVIOUS
<1>1. TypeOK
  <2>1. sent \in 0 .. Len(Paths) /\ workerGroup \in 0 .. PoolSize
    BY PathFacts, PoolSizeBounds DEF Init, NumPaths
  <2>2. results \in Seq(Status) /\ statuses \in Seq(Status)
    BY EmptySeq DEF Init
  <2> QED
    BY <2>1, <2>2 DEF Init, TypeOK
<1>2. GroupCounts
  <2>1. {w \in Worker : pc[w] # "ended"} = Worker
    BY DEF Init
  <2> QED
    BY <2>1, WorkersAreFinite DEF Init, GroupCounts
<1>3. DispatcherKnows /\ NoSendAfterClose
  BY DEF Init, DispatcherKnows, NoSendAfterClose
<1>4. Delivered = <<>>
  BY ConcatEmptySeq DEF Init, Delivered
<1>5. HoldersKnown
  BY <1>4 DEF Init, HoldersKnown, WorkersKnow, OneWorkerEach, DeliveredOnce, NothingDropped, Busy
<1>6. CallerKnows /\ CompleteReport
  <2>1. CASE Paths = <<>>
    <3>1. NumPaths = 0 /\ Worker = {} /\ Range(Paths) = {}
      BY <2>1, RequestedAssumption DEF NumPaths, Worker, PoolSize, Range
    <3> QED
      BY <3>1 DEF Init, CallerKnows, CompleteReport, SortedByPath, NumPaths
  <2>2. CASE Paths # <<>>
    BY <2>2 DEF Init, CallerKnows, CompleteReport
  <2> QED
    BY <2>1, <2>2
<1> QED
  BY <1>1, <1>2, <1>3, <1>5, <1>6 DEF IInv

(* Who holds what is the same after a step that moves nothing.             *)
LEMMA HoldersStay ==
  ASSUME HoldersKnown, UNCHANGED <<job, sent>>, Delivered' = Delivered,
         signalled => signalled',
         \A w \in Worker : Busy(w)' = Busy(w),
         \A w \in Worker : pc'[w] = "send" =>
                             \/ made'[w] \in Outcomes'
                             \/ pc[w] = "send" /\ made'[w] = made[w]
  PROVE  HoldersKnown'
<1>1. Outcomes \subseteq Outcomes'
  BY DEF Outcomes
<1>2. \A path : Handed(path)' = Handed(path)
  BY DEF Handed
<1>3. WorkersKnow'
  BY <1>1, <1>2 DEF HoldersKnown, WorkersKnow
<1>4. OneWorkerEach'
  BY DEF HoldersKnown, OneWorkerEach
<1>5. DeliveredOnce'
  BY <1>1, <1>2 DEF HoldersKnown, DeliveredOnce
<1>6. NothingDropped'
  BY DEF HoldersKnown, NothingDropped
<1> QED
  BY <1>3, <1>4, <1>5, <1>6 DEF HoldersKnown

LEMMA StepSignal == ASSUME IInv, Signal PROVE IInv'
<1> USE DEF IInv, Signal, jobs, workers, channel
<1>1. TypeOK' /\ GroupCounts' /\ DispatcherKnows' /\ NoSendAfterClose' /\ CallerKnows'
  BY DEF TypeOK, GroupCounts, DispatcherKnows, NoSendAfterClose, CallerKnows
<1>2. HoldersKnown'
  <2>1. Delivered' = Delivered /\ \A w \in Worker : Busy(w)' = Busy(w)
    BY DEF Delivered, Busy
  <2>2. \A w \in Worker : pc'[w] = "send" => made'[w] = made[w] /\ pc[w] = "send"
    OBVIOUS
  <2> QED
    BY <2>1, <2>2, HoldersStay
<1>3. CompleteReport'
  BY DEF CompleteReport, SortedByPath
<1> QED
  BY <1>1, <1>2, <1>3

(* Neither closing a channel nor waiting moves a path or a status.         *)
LEMMA StepClosing ==
  ASSUME IInv, CloseJobs \/ WaitForWorkers \/ CloseResults
  PROVE  IInv'
<1>1. UNCHANGED <<signalled, sent, workers, workerGroup, results, statuses, main>>
  BY DEF CloseJobs, WaitForWorkers, CloseResults, jobs, channel
<1>2. TypeOK'
  BY <1>1 DEF IInv, TypeOK, CloseJobs, WaitForWorkers, CloseResults, jobs, channel, workers
<1>3. GroupCounts' /\ CallerKnows'
  BY <1>1 DEF IInv, GroupCounts, CallerKnows, workers
<1>4. DispatcherKnows'
  <2>1. ASSUME CloseJobs PROVE DispatcherKnows'
    BY <1>1, <2>1 DEF IInv, DispatcherKnows, CloseJobs, channel, workers, NumPaths
  <2>2. ASSUME WaitForWorkers PROVE DispatcherKnows'
    BY <1>1, <2>2 DEF IInv, DispatcherKnows, WaitForWorkers, jobs, channel, workers
  <2>3. ASSUME CloseResults PROVE DispatcherKnows'
    BY <1>1, <2>3 DEF IInv, DispatcherKnows, CloseResults, jobs, workers
  <2> QED
    BY <2>1, <2>2, <2>3
<1>5. NoSendAfterClose'
  BY <1>1, GroupFacts DEF IInv, NoSendAfterClose, CloseJobs, WaitForWorkers, CloseResults, WaitOver,
                          workers
<1>6. HoldersKnown'
  <2>1. Delivered' = Delivered /\ \A w \in Worker : Busy(w)' = Busy(w)
    BY <1>1 DEF Delivered, Busy, workers
  <2> QED
    BY <1>1, <2>1, HoldersStay DEF IInv, workers
<1>7. CompleteReport'
  BY <1>1 DEF IInv, CompleteReport, SortedByPath
<1> QED
  BY <1>2, <1>3, <1>4, <1>5, <1>6, <1>7 DEF IInv

(* A path is handed to a worker that has none, and never before.           *)
LEMMA StepSendJob ==
  ASSUME IInv, NEW w \in Worker, SendJob(w)
  PROVE  IInv'
<1> PICK next : next = sent + 1
  OBVIOUS
<1>0. /\ next \in 1 .. NumPaths /\ Paths[next] \in Range(Paths)
      /\ dispatcher = "send" /\ main # "returned" /\ ~jobsClosed
      /\ pc[w] = "receive" /\ sent' = next
      /\ pc' = [pc EXCEPT ![w] = "check"] /\ job' = [job EXCEPT ![w] = Paths[next]]
      /\ UNCHANGED <<signalled, dispatcher, jobsClosed, made, workerGroup, channel, statuses, main>>
  <2>1. next \in 1 .. NumPaths
    BY SentFacts, PathFacts DEF SendJob, NumPaths
  <2>2. main # "returned" /\ ~jobsClosed
    BY DEF IInv, SendJob, CallerKnows, DispatcherKnows
  <2> QED
    BY <2>1, <2>2, PathFacts DEF SendJob
<1>1. TypeOK'
  BY <1>0 DEF IInv, TypeOK, channel, NumPaths
<1>2. /\ pc \in [Worker -> {"receive", "check", "send", "ended"}]
      /\ job \in [Worker -> {0} \cup Range(Paths)]
  BY DEF IInv, TypeOK
<1>3. GroupCounts'
  <2>1. {v \in Worker : pc'[v] # "ended"} = {v \in Worker : pc[v] # "ended"}
    BY <1>0, <1>2
  <2> QED
    BY <1>0, <2>1 DEF IInv, GroupCounts
<1>4. DispatcherKnows' /\ NoSendAfterClose' /\ CallerKnows' /\ CompleteReport'
  BY <1>0, <1>2 DEF IInv, DispatcherKnows, NoSendAfterClose, CallerKnows, CompleteReport, channel
<1>5. \A v \in Worker \ {w} : Busy(v)' = Busy(v) /\ pc'[v] = pc[v] /\ job'[v] = job[v]
  BY <1>0, <1>2 DEF Busy
<1>6. Busy(w)' /\ ~Busy(w) /\ job'[w] = Paths[next] /\ pc'[w] # "send"
  BY <1>0, <1>2 DEF Busy
<1>7. ~Handed(Paths[next]) /\ Handed(Paths[next])' /\ \A path : Handed(path) => Handed(path)'
  BY <1>0, PathFacts, SentFacts DEF Handed
<1>8. Delivered' = Delivered /\ Outcomes' = Outcomes
  BY <1>0 DEF Delivered, Outcomes, channel
<1>9. WorkersKnow'
  BY <1>0, <1>5, <1>6, <1>7, <1>8 DEF IInv, HoldersKnown, WorkersKnow
<1>10. OneWorkerEach'
  BY <1>5, <1>6, <1>7 DEF IInv, HoldersKnown, OneWorkerEach, WorkersKnow
<1>11. DeliveredOnce'
  BY <1>5, <1>6, <1>7, <1>8 DEF IInv, HoldersKnown, DeliveredOnce
<1>12. NothingDropped'
  <2> SUFFICES ASSUME NEW i \in 1 .. next
               PROVE  \/ \E v \in Worker : Busy(v)' /\ job'[v] = Paths[i]
                      \/ \E k \in DOMAIN Delivered : Delivered[k].path = Paths[i]
    BY <1>0, <1>8 DEF NothingDropped
  <2>1. CASE i = next
    BY <1>6, <2>1
  <2>2. CASE i \in 1 .. sent
    BY <1>5, <1>6, <2>2 DEF IInv, HoldersKnown, NothingDropped
  <2> QED
    BY <2>1, <2>2, SentFacts
<1> QED
  BY <1>1, <1>3, <1>4, <1>9, <1>10, <1>11, <1>12 DEF IInv, HoldersKnown

LEMMA StepCheck ==
  ASSUME IInv, NEW w \in Worker, Check(w)
  PROVE  IInv'
<1>0. PICK outcome \in Outcomes : made' = [made EXCEPT ![w] = outcome]
  BY DEF Check
<1>1. /\ pc[w] = "check" /\ pc' = [pc EXCEPT ![w] = "send"]
      /\ UNCHANGED <<signalled, dispatcher, jobs, job, workerGroup, channel, statuses, main>>
  BY DEF Check
<1>2. TypeOK'
  BY <1>0, <1>1 DEF IInv, TypeOK, Outcomes, jobs, channel
<1>3. pc \in [Worker -> {"receive", "check", "send", "ended"}]
      /\ made \in [Worker -> {"none", "complete", "interrupted"}]
  BY DEF IInv, TypeOK
<1>4. GroupCounts'
  <2>1. {v \in Worker : pc'[v] # "ended"} = {v \in Worker : pc[v] # "ended"}
    BY <1>1, <1>3
  <2> QED
    BY <1>1, <2>1 DEF IInv, GroupCounts
<1>5. DispatcherKnows' /\ NoSendAfterClose' /\ CallerKnows' /\ CompleteReport'
  BY <1>1, <1>3 DEF IInv, DispatcherKnows, NoSendAfterClose, CallerKnows, CompleteReport,
                    jobs, channel
<1>6. HoldersKnown'
  <2>1. Delivered' = Delivered /\ Outcomes' = Outcomes /\ \A v \in Worker : Busy(v)' = Busy(v)
    BY <1>1, <1>3 DEF Delivered, Outcomes, Busy, channel
  <2>2. \A v \in Worker : pc'[v] = "send" =>
                            \/ made'[v] \in Outcomes'
                            \/ pc[v] = "send" /\ made'[v] = made[v]
    BY <1>0, <1>1, <1>3, <2>1
  <2>3. HoldersKnown /\ UNCHANGED <<job, sent>> /\ (signalled => signalled')
    BY <1>1 DEF IInv, jobs
  <2> QED
    BY <2>1, <2>2, <2>3, HoldersStay
<1> QED
  BY <1>2, <1>4, <1>5, <1>6 DEF IInv

(* The status passes from its worker into the channel.                     *)
LEMMA StepSendResult ==
  ASSUME IInv, NEW w \in Worker, SendResult(w)
  PROVE  IInv'
<1> DEFINE status == [path |-> job[w], outcome |-> made[w]]
           end == Len(Delivered) + 1
<1>0. /\ pc \in [Worker -> {"receive", "check", "send", "ended"}]
      /\ pc[w] = "send" /\ pc' = [pc EXCEPT ![w] = "receive"]
      /\ results' = Append(results, status) /\ main # "returned"
      /\ UNCHANGED <<signalled, dispatcher, jobs, job, made, workerGroup, resultsClosed,
                     statuses, main>>
  BY DEF IInv, TypeOK, CallerKnows, SendResult
<1>1. Handed(job[w]) /\ made[w] \in Outcomes /\ Busy(w) /\ ~Busy(w)'
  BY <1>0 DEF IInv, HoldersKnown, WorkersKnow, Busy
<1>2. status \in Status
  <2>1. PICK i \in 1 .. sent : job[w] = Paths[i]
    BY <1>1 DEF Handed
  <2>2. job[w] \in Range(Paths)
    BY <2>1, PathFacts, SentFacts
  <2> QED
    BY <1>1, <2>2 DEF Outcomes, Status
<1>3. /\ results' \in Seq(Status) /\ DOMAIN Delivered' = 1 .. end
      /\ \A k \in DOMAIN Delivered : Delivered'[k] = Delivered[k]
      /\ Delivered'[end] = status
      /\ DOMAIN Delivered = 1 .. Len(Delivered) /\ Len(Delivered) \in Nat
  BY <1>0, <1>2, SendDelivers, DeliveredFacts DEF IInv
<1>4. TypeOK'
  BY <1>0, <1>3 DEF IInv, TypeOK, jobs
<1>5. GroupCounts'
  <2>1. {v \in Worker : pc'[v] # "ended"} = {v \in Worker : pc[v] # "ended"}
    BY <1>0
  <2> QED
    BY <1>0, <2>1 DEF IInv, GroupCounts
<1>6. DispatcherKnows' /\ NoSendAfterClose' /\ CallerKnows' /\ CompleteReport'
  BY <1>0 DEF IInv, DispatcherKnows, NoSendAfterClose, CallerKnows, CompleteReport, jobs
<1>7. \A v \in Worker \ {w} : Busy(v)' = Busy(v) /\ pc'[v] = pc[v]
  BY <1>0 DEF Busy
<1>8. Outcomes' = Outcomes /\ \A path : Handed(path)' = Handed(path)
  BY <1>0 DEF Outcomes, Handed, jobs
<1>9. WorkersKnow' /\ OneWorkerEach'
  BY <1>0, <1>1, <1>7, <1>8 DEF IInv, HoldersKnown, WorkersKnow, OneWorkerEach
<1>10. DeliveredOnce'
  <2> SUFFICES ASSUME NEW k \in 1 .. end
               PROVE  /\ Handed(Delivered'[k].path) /\ Delivered'[k].outcome \in Outcomes
                      /\ \A v \in Worker : Busy(v)' => Delivered'[k].path # job[v]
                      /\ \A j \in 1 .. end : Delivered'[j].path = Delivered'[k].path => j = k
    BY <1>0, <1>3, <1>8 DEF DeliveredOnce
  <2>0. Delivered'[end].path = job[w] /\ Delivered'[end].outcome = made[w]
    BY <1>3
  <2>1. \A j \in DOMAIN Delivered : Delivered[j].path # job[w]
    BY <1>1 DEF IInv, HoldersKnown, DeliveredOnce
  <2>2. CASE k = end
    <3>1. \A v \in Worker : Busy(v)' => job[w] # job[v]
      BY <1>1, <1>7 DEF IInv, HoldersKnown, OneWorkerEach
    <3>2. \A j \in 1 .. end : Delivered'[j].path = job[w] => j = end
      BY <1>3, <2>1
    <3> QED
      BY <1>1, <2>0, <2>2, <3>1, <3>2
  <2>3. CASE k \in DOMAIN Delivered
    <3>1. /\ Handed(Delivered[k].path) /\ Delivered[k].outcome \in Outcomes
          /\ \A v \in Worker : Busy(v) => Delivered[k].path # job[v]
          /\ \A j \in DOMAIN Delivered : Delivered[j].path = Delivered[k].path => j = k
      BY <2>3 DEF IInv, HoldersKnown, DeliveredOnce
    <3>2. \A v \in Worker : Busy(v)' => Busy(v)
      BY <1>1, <1>7
    <3>3. Delivered'[end].path # Delivered[k].path
      BY <1>1, <2>0, <3>1
    <3>4. \A j \in 1 .. end : Delivered'[j].path = Delivered[k].path => j = k
      BY <1>3, <3>1, <3>3
    <3> QED
      BY <1>3, <2>3, <3>1, <3>2, <3>4
  <2> QED
    BY <1>3, <2>2, <2>3
<1>11. NothingDropped'
  <2> SUFFICES ASSUME NEW i \in 1 .. sent
               PROVE  \/ \E v \in Worker : Busy(v)' /\ job[v] = Paths[i]
                      \/ \E k \in DOMAIN Delivered' : Delivered'[k].path = Paths[i]
    BY <1>0 DEF NothingDropped, jobs
  <2>1. CASE job[w] = Paths[i]
    BY <1>3, <2>1
  <2>2. CASE job[w] # Paths[i]
    BY <1>3, <1>7, <2>2 DEF IInv, HoldersKnown, NothingDropped
  <2> QED
    BY <2>1, <2>2
<1> QED
  BY <1>4, <1>5, <1>6, <1>9, <1>10, <1>11 DEF IInv, HoldersKnown

LEMMA StepWorkerEnds ==
  ASSUME IInv, NEW w \in Worker, WorkerEnds(w)
  PROVE  IInv'
<1> DEFINE left == {v \in Worker : pc[v] # "ended"}
<1>0. /\ pc \in [Worker -> {"receive", "check", "send", "ended"}]
      /\ pc[w] = "receive" /\ jobsClosed /\ pc' = [pc EXCEPT ![w] = "ended"]
      /\ UNCHANGED <<signalled, dispatcher, jobs, job, made, channel, statuses, main>>
  BY DEF IInv, TypeOK, WorkerEnds
<1>1. workerGroup' = workerGroup - 1
  BY DEF WorkerEnds, Released
<1>2. {v \in Worker : pc'[v] # "ended"} = left \ {w}
  BY <1>0
<1>3. w \in left /\ IsFiniteSet(left)
  BY <1>0, WorkersAreFinite, FS_Subset
<1>4. Cardinality(left \ {w}) = Cardinality(left) - 1 /\ Cardinality(left \ {w}) \in Nat
  BY <1>3, FS_RemoveElement, FS_CardinalityType
<1>5. GroupCounts'
  BY <1>1, <1>2, <1>4 DEF IInv, GroupCounts
<1>6. workerGroup' \in 0 .. PoolSize
  <2>1. workerGroup \in 0 .. PoolSize
    BY DEF IInv, TypeOK
  <2>2. workerGroup' \in Nat
    BY <1>5, <1>2, <1>4 DEF GroupCounts
  <2> QED
    BY <1>1, <2>1, <2>2, PoolSizeBounds
<1>7. TypeOK'
  BY <1>0, <1>6 DEF IInv, TypeOK, jobs, channel
<1>8. DispatcherKnows' /\ NoSendAfterClose' /\ CallerKnows' /\ CompleteReport'
  BY <1>0 DEF IInv, DispatcherKnows, NoSendAfterClose, CallerKnows, CompleteReport, jobs, channel
<1>9. HoldersKnown'
  <2>1. Delivered' = Delivered /\ \A v \in Worker : Busy(v)' = Busy(v)
    BY <1>0 DEF Delivered, Busy, channel
  <2>2. \A v \in Worker : pc'[v] = "send" => pc[v] = "send" /\ made'[v] = made[v]
    BY <1>0
  <2>3. HoldersKnown /\ UNCHANGED <<job, sent>> /\ (signalled => signalled')
    BY <1>0 DEF IInv, jobs
  <2> QED
    BY <2>1, <2>2, <2>3, HoldersStay
<1> QED
  BY <1>5, <1>7, <1>8, <1>9 DEF IInv

LEMMA StepCollect == ASSUME IInv, Collect PROVE IInv'
<1>0. /\ main = "collect" /\ results # <<>>
      /\ UNCHANGED <<signalled, dispatcher, jobs, workers, workerGroup, resultsClosed, main>>
  BY DEF Collect
<1>1. Delivered' = Delivered /\ results' \in Seq(Status) /\ statuses' \in Seq(Status)
  BY CollectDelivers DEF IInv
<1>2. TypeOK'
  BY <1>0, <1>1 DEF IInv, TypeOK, jobs, workers
<1>3. GroupCounts' /\ DispatcherKnows' /\ NoSendAfterClose' /\ CallerKnows' /\ CompleteReport'
  BY <1>0 DEF IInv, GroupCounts, DispatcherKnows, NoSendAfterClose, CallerKnows, CompleteReport,
              jobs, workers
<1>4. HoldersKnown'
  <2>1. \A v \in Worker : Busy(v)' = Busy(v)
    BY <1>0 DEF Busy, workers
  <2>2. \A v \in Worker : pc'[v] = "send" => pc[v] = "send" /\ made'[v] = made[v]
    BY <1>0 DEF workers
  <2>3. HoldersKnown /\ UNCHANGED <<job, sent>> /\ (signalled => signalled')
    BY <1>0 DEF IInv, jobs, workers
  <2> QED
    BY <1>1, <2>1, <2>2, <2>3, HoldersStay
<1> QED
  BY <1>2, <1>3, <1>4 DEF IInv

(* When results is closed and drained, the caller holds one status of each *)
(* path.                                                                   *)
LEMMA AllCollected ==
  ASSUME IInv, main = "collect", Received
  PROVE  /\ results = <<>> /\ statuses \in Seq(Status) /\ Delivered = statuses
         /\ \A w \in Worker : pc[w] = "ended"
         /\ sent = NumPaths
         /\ \A i \in 1 .. NumPaths : \E k \in DOMAIN statuses : statuses[k].path = Paths[i]
         /\ \A k \in DOMAIN statuses :
              /\ statuses[k].outcome \in Outcomes
              /\ \E i \in 1 .. NumPaths : Paths[i] = statuses[k].path
              /\ \A j \in DOMAIN statuses : statuses[j].path = statuses[k].path => j = k
<1>1. results = <<>> /\ resultsClosed
  BY DEF Received
<1>2. statuses \in Seq(Status)
  BY DEF IInv, TypeOK
<1>3. Delivered = statuses
  BY <1>1, <1>2, ConcatEmptySeq DEF Delivered
<1>4. dispatcher = "ended" /\ jobsClosed /\ sent = NumPaths
  BY <1>1 DEF IInv, DispatcherKnows
<1>5. \A w \in Worker : pc[w] = "ended"
  BY <1>4 DEF IInv, NoSendAfterClose
<1>6. \A i \in 1 .. NumPaths : \E k \in DOMAIN statuses : statuses[k].path = Paths[i]
  BY <1>3, <1>4, <1>5 DEF IInv, HoldersKnown, NothingDropped, Busy
<1>7. \A k \in DOMAIN statuses :
        /\ statuses[k].outcome \in Outcomes
        /\ \E i \in 1 .. NumPaths : Paths[i] = statuses[k].path
        /\ \A j \in DOMAIN statuses : statuses[j].path = statuses[k].path => j = k
  BY <1>3, <1>4 DEF IInv, HoldersKnown, DeliveredOnce, Handed
<1> QED
  BY <1>1, <1>2, <1>3, <1>4, <1>5, <1>6, <1>7

LEMMA PathsAreDistinct == IsFiniteSet(Range(Paths)) /\ Cardinality(Range(Paths)) = NumPaths
<1>1. /\ Paths \in [1 .. NumPaths -> Range(Paths)]
      /\ \A i, j \in 1 .. NumPaths : Paths[i] = Paths[j] => i = j
      /\ \A r \in Range(Paths) : \E i \in 1 .. NumPaths : Paths[i] = r
  BY GoPathsAssumption, PathFacts
<1>2. /\ Paths \in Injection(1 .. NumPaths, Range(Paths))
      /\ Paths \in Surjection(1 .. NumPaths, Range(Paths))
  BY <1>1 DEF Injection, IsInjective, Surjection
<1>3. IsFiniteSet(1 .. NumPaths) /\ Cardinality(1 .. NumPaths) = NumPaths
  BY FS_Interval, PathFacts
<1>4. IsFiniteSet(Range(Paths))
  BY <1>2, <1>3, FS_Surjection
<1> QED
  BY <1>2, <1>3, <1>4, FS_Injection

(* A list of n different paths is no longer than a set it is taken from.   *)
LEMMA AtMost ==
  ASSUME NEW n \in Nat, NEW S, IsFiniteSet(S), NEW f \in [1 .. n -> S],
         \A j, k \in 1 .. n : f[j] = f[k] => j = k
  PROVE  n <= Cardinality(S) /\ ((\A r \in S : \E k \in 1 .. n : f[k] = r) => n = Cardinality(S))
<1>1. f \in Injection(1 .. n, S)
  BY DEF Injection, IsInjective
<1>2. IsFiniteSet(1 .. n) /\ Cardinality(1 .. n) = n
  BY FS_Interval
<1>3. n <= Cardinality(S) /\ (n = Cardinality(S) <=> f \in Surjection(1 .. n, S))
  BY <1>1, <1>2, FS_Injection
<1> QED
  BY <1>3 DEF Surjection

LEMMA StepSortAndReturn == ASSUME IInv, SortAndReturn PROVE IInv'
<1>0. /\ main = "collect" /\ Received /\ main' = "returned" /\ SortedByPath(statuses')
      /\ UNCHANGED <<signalled, dispatcher, jobs, workers, workerGroup, channel>>
  BY DEF SortAndReturn
<1>1. PICK order \in Bijection(DOMAIN statuses, DOMAIN statuses) :
        statuses' = [i \in DOMAIN statuses |-> statuses[order[i]]]
  BY DEF SortAndReturn
<1>2. /\ \A i \in DOMAIN statuses : order[i] \in DOMAIN statuses
      /\ \A i, j \in DOMAIN statuses : order[i] = order[j] => i = j
      /\ \A k \in DOMAIN statuses : \E i \in DOMAIN statuses : order[i] = k
  BY <1>1 DEF Bijection, Injection, Surjection, IsInjective
<1>3. /\ results = <<>> /\ statuses \in Seq(Status) /\ Delivered = statuses
      /\ \A w \in Worker : pc[w] = "ended"
      /\ sent = NumPaths
      /\ \A i \in 1 .. NumPaths : \E k \in DOMAIN statuses : statuses[k].path = Paths[i]
      /\ \A k \in DOMAIN statuses :
           /\ statuses[k].outcome \in Outcomes
           /\ \E i \in 1 .. NumPaths : Paths[i] = statuses[k].path
           /\ \A j \in DOMAIN statuses : statuses[j].path = statuses[k].path => j = k
  BY <1>0, AllCollected
<1>4. statuses' \in Seq(Status) /\ DOMAIN statuses' = DOMAIN statuses
  <2>1. Len(statuses) \in Nat /\ DOMAIN statuses = 1 .. Len(statuses)
        /\ \A k \in DOMAIN statuses : statuses[k] \in Status
    BY <1>3, LenProperties
  <2>2. statuses' \in [1 .. Len(statuses) -> Status]
    BY <1>1, <1>2, <2>1
  <2> QED
    BY <1>1, <2>1, <2>2
<1>5. results' = results /\ Delivered' = statuses'
  BY <1>0, <1>3, <1>4, ConcatEmptySeq DEF Delivered, channel
<1>6. \A i \in DOMAIN statuses : statuses'[i] = statuses[order[i]]
  BY <1>1
<1>7. \A i \in 1 .. NumPaths : \E k \in DOMAIN statuses' : statuses'[k].path = Paths[i]
  <2> SUFFICES ASSUME NEW i \in 1 .. NumPaths
               PROVE  \E k \in DOMAIN statuses : statuses'[k].path = Paths[i]
    BY <1>4
  <2>1. PICK at \in DOMAIN statuses : statuses[at].path = Paths[i]
    BY <1>3
  <2>2. PICK k \in DOMAIN statuses : order[k] = at
    BY <1>2
  <2> QED
    BY <1>6, <2>1, <2>2
<1>8. \A k \in DOMAIN statuses' :
        /\ statuses'[k].outcome \in Outcomes
        /\ \E i \in 1 .. NumPaths : Paths[i] = statuses'[k].path
        /\ \A j \in DOMAIN statuses' : statuses'[j].path = statuses'[k].path => j = k
  <2> SUFFICES ASSUME NEW k \in DOMAIN statuses
               PROVE  /\ statuses'[k].outcome \in Outcomes
                      /\ \E i \in 1 .. NumPaths : Paths[i] = statuses'[k].path
                      /\ \A j \in DOMAIN statuses : statuses'[j].path = statuses'[k].path => j = k
    BY <1>4
  <2>1. order[k] \in DOMAIN statuses /\ statuses'[k] = statuses[order[k]]
    BY <1>2, <1>6
  <2>2. /\ statuses[order[k]].outcome \in Outcomes
        /\ \E i \in 1 .. NumPaths : Paths[i] = statuses[order[k]].path
        /\ \A j \in DOMAIN statuses : statuses[j].path = statuses[order[k]].path => j = order[k]
    BY <1>3, <2>1
  <2>3. ASSUME NEW j \in DOMAIN statuses, statuses'[j].path = statuses'[k].path PROVE j = k
    <3>1. order[j] \in DOMAIN statuses /\ statuses'[j] = statuses[order[j]]
      BY <1>2, <1>6
    <3>2. order[j] = order[k]
      BY <2>1, <2>2, <2>3, <3>1
    <3> QED
      BY <1>2, <3>2
  <2> QED
    BY <2>1, <2>2, <2>3
<1>9. TypeOK'
  BY <1>0, <1>4 DEF IInv, TypeOK, jobs, workers, channel
<1>10. GroupCounts' /\ DispatcherKnows' /\ NoSendAfterClose' /\ CallerKnows'
  BY <1>0, <1>3 DEF IInv, GroupCounts, DispatcherKnows, NoSendAfterClose, CallerKnows,
                    jobs, workers, channel
<1>11. HoldersKnown'
  <2>1. \A w \in Worker : ~Busy(w)' /\ pc'[w] # "send"
    BY <1>0, <1>3 DEF Busy, workers
  <2>2. sent' = NumPaths /\ Outcomes' = Outcomes
    BY <1>0, <1>3 DEF jobs, Outcomes
  <2>3. WorkersKnow' /\ OneWorkerEach'
    BY <2>1 DEF WorkersKnow, OneWorkerEach
  <2>4. DeliveredOnce'
    BY <1>5, <1>8, <2>1, <2>2 DEF DeliveredOnce, Handed
  <2>5. NothingDropped'
    BY <1>5, <1>7, <2>2 DEF NothingDropped
  <2> QED
    BY <2>3, <2>4, <2>5 DEF HoldersKnown
<1>12. CompleteReport'
  <2>1. Len(statuses') = NumPaths
    <3> DEFINE path == [k \in DOMAIN statuses |-> statuses'[k].path]
    <3>1. Len(statuses') \in Nat /\ DOMAIN statuses = 1 .. Len(statuses')
      BY <1>4, LenProperties
    <3>2. path \in [1 .. Len(statuses') -> Range(Paths)]
      BY <1>4, <1>8, <3>1, PathFacts
    <3>3. \A j, k \in 1 .. Len(statuses') : path[j] = path[k] => j = k
      BY <1>4, <1>8, <3>1
    <3>4. \A r \in Range(Paths) : \E k \in 1 .. Len(statuses') : path[k] = r
      <4> SUFFICES ASSUME NEW r \in Range(Paths) PROVE \E k \in 1 .. Len(statuses') : path[k] = r
        OBVIOUS
      <4>1. PICK i \in 1 .. NumPaths : r = Paths[i]
        BY PathFacts
      <4>2. PICK k \in DOMAIN statuses : statuses'[k].path = Paths[i]
        BY <1>4, <1>7
      <4> QED
        BY <3>1, <4>1, <4>2
    <3> HIDE DEF path
    <3> QED
      BY <3>1, <3>2, <3>3, <3>4, AtMost, PathsAreDistinct
  <2>2. ASSUME NEW r \in Range(Paths)
        PROVE  \E i \in DOMAIN statuses' : /\ statuses'[i].path = r
                                           /\ statuses'[i].outcome = "complete" \/ signalled'
    <3>1. PICK i \in 1 .. NumPaths : r = Paths[i]
      BY PathFacts
    <3> QED
      BY <1>0, <1>7, <1>8, <3>1 DEF Outcomes
  <2> QED
    BY <1>0, <2>1, <2>2 DEF CompleteReport, NumPaths
<1> QED
  BY <1>9, <1>10, <1>11, <1>12 DEF IInv

LEMMA NextIInv == IInv /\ [Next]_vars => IInv'
<1> SUFFICES ASSUME IInv, [Next]_vars PROVE IInv'
  OBVIOUS
<1>1. CASE UNCHANGED vars
  <2>1. TypeOK'
    BY <1>1 DEF vars, jobs, workers, channel, IInv, TypeOK
  <2>2. GroupCounts' /\ DispatcherKnows' /\ NoSendAfterClose' /\ CallerKnows' /\ CompleteReport'
    BY <1>1 DEF vars, jobs, workers, channel, IInv, GroupCounts, DispatcherKnows,
                NoSendAfterClose, CallerKnows, CompleteReport, SortedByPath
  <2>3. Delivered' = Delivered /\ \A w \in Worker : Busy(w)' = Busy(w)
    BY <1>1 DEF vars, workers, channel, Delivered, Busy
  <2>4. \A w \in Worker : pc'[w] = "send" => pc[w] = "send" /\ made'[w] = made[w]
    BY <1>1 DEF vars, workers
  <2>5. HoldersKnown /\ UNCHANGED <<job, sent>> /\ (signalled => signalled')
    BY <1>1 DEF vars, jobs, workers, IInv
  <2> QED
    BY <2>1, <2>2, <2>3, <2>4, <2>5, HoldersStay DEF IInv
<1> QED
  BY <1>1, StepSignal, StepClosing, StepSendJob, StepCheck, StepSendResult, StepWorkerEnds,
     StepCollect, StepSortAndReturn
  DEF Next, Dispatcher, WorkerRoutine, Caller

(* Type correctness: among others, what is sent is a status of a path, and *)
(* the counter of the wait group never drops below 0, which would panic.   *)
THEOREM TypeCorrect == Spec => []TypeOK
<1>1. IInv => TypeOK
  BY DEF IInv
<1> QED
  BY <1>1, InitIInv, NextIInv, PTL DEF Spec

(* IInv holds throughout every execution.                                  *)
THEOREM Invariance == Spec => []IInv
BY InitIInv, NextIInv, PTL DEF Spec

(* No worker is left that could send when results is closed.               *)
THEOREM SafeClose == Spec => []NoSendAfterClose
<1>1. IInv => NoSendAfterClose
  BY DEF IInv
<1> QED
  BY <1>1, Invariance, PTL

(* The report has every path once, in order, and each status is a genuine  *)
(* one unless there was an interrupt.                                      *)
THEOREM ReportIsComplete == Spec => []CompleteReport
<1>1. IInv => CompleteReport
  BY DEF IInv
<1> QED
  BY <1>1, Invariance, PTL

(* What the channel holds are statuses of different paths, none of them    *)
(* the sender's, so it has room.                                           *)
LEMMA RoomForTheSender == IInv => WorkersNeverWait
<1> SUFFICES ASSUME IInv, NEW w \in Worker, pc[w] = "send" PROVE Len(results) < NumPaths
  BY DEF WorkersNeverWait, ResultsRoom, NumPaths
<1> DEFINE n == Len(Delivered)
           path == [k \in 1 .. n |-> Delivered[k].path]
           Others == Range(Paths) \ {job[w]}
<1>1. /\ n \in Nat /\ DOMAIN Delivered = 1 .. n
      /\ Len(results) \in Nat /\ Len(results) <= n
      /\ \A k \in 1 .. n : Delivered[k].path \in Range(Paths)
  BY DeliveredFacts DEF IInv
<1>2. Busy(w) /\ Handed(job[w])
  BY DEF IInv, HoldersKnown, WorkersKnow, Busy
<1>3. job[w] \in Range(Paths)
  BY <1>2, PathFacts, SentFacts DEF Handed
<1>4. path \in [1 .. n -> Others]
  BY <1>1, <1>2 DEF IInv, HoldersKnown, DeliveredOnce
<1>5. \A j, k \in 1 .. n : path[j] = path[k] => j = k
  BY <1>1 DEF IInv, HoldersKnown, DeliveredOnce
<1>6. IsFiniteSet(Others) /\ Cardinality(Others) = NumPaths - 1
  BY <1>3, PathsAreDistinct, FS_RemoveElement
<1> HIDE DEF path, n
<1>7. n <= Cardinality(Others)
  BY <1>1, <1>4, <1>5, <1>6, AtMost
<1> QED
  BY <1>1, <1>6, <1>7, PathFacts

(* No worker ever waits for the caller to receive.                         *)
THEOREM NeverBlocked == Spec => []WorkersNeverWait
BY RoomForTheSender, Invariance, PTL

-------------------------------------------------------------------------------
(* The refinement of RepositoryScan. The phase of a path is read off the   *)
(* worker that checks it, or off the one status of it that is held.        *)
Abstract == [r \in Range(Paths) |-> PhaseOf(r)]

CheckedBy(w, r) == pc[w] = "check" /\ job[w] = r

PhaseFacts ==
  \A r \in Range(Paths) :
    /\ (\E w \in Worker : CheckedBy(w, r)) => PhaseOf(r) = "checking"
    /\ \A status \in Held : status.path = r => PhaseOf(r) = status.outcome
    /\ (\A w \in Worker : ~CheckedBy(w, r)) /\ (\A status \in Held : status.path # r)
         => PhaseOf(r) = "unchecked"

Sending == {[path |-> job[w], outcome |-> made[w]] : w \in {v \in Worker : pc[v] = "send"}}

LEMMA HeldFacts ==
  ASSUME IInv
  PROVE  /\ \A k \in DOMAIN Delivered : Delivered[k] \in Held
         /\ \A w \in Worker : pc[w] = "send" => [path |-> job[w], outcome |-> made[w]] \in Held
         /\ \A status \in Held :
              \/ \E k \in DOMAIN Delivered : status = Delivered[k]
              \/ \E w \in Worker :
                   pc[w] = "send" /\ status = [path |-> job[w], outcome |-> made[w]]
<1>1. statuses \in Seq(Status) /\ results \in Seq(Status)
  BY DEF IInv, TypeOK
<1>2. /\ Len(statuses) \in Nat /\ DOMAIN statuses = 1 .. Len(statuses)
      /\ Len(results) \in Nat /\ DOMAIN results = 1 .. Len(results)
      /\ DOMAIN Delivered = 1 .. Len(statuses) + Len(results)
      /\ \A i \in 1 .. Len(statuses) + Len(results) :
           Delivered[i] = IF i <= Len(statuses) THEN statuses[i] ELSE results[i - Len(statuses)]
  BY <1>1, ConcatProperties, LenProperties DEF Delivered
<1>3. \A k \in DOMAIN Delivered : Delivered[k] \in Range(results) \cup Range(statuses)
  BY <1>2 DEF Range
<1>4. \A status \in Range(results) \cup Range(statuses) :
        \E k \in DOMAIN Delivered : status = Delivered[k]
  <2>1. ASSUME NEW status \in Range(statuses)
        PROVE  \E k \in DOMAIN Delivered : status = Delivered[k]
    BY <1>2, <2>1 DEF Range
  <2>2. ASSUME NEW status \in Range(results)
        PROVE  \E k \in DOMAIN Delivered : status = Delivered[k]
    <3>1. PICK i \in 1 .. Len(results) : status = results[i]
      BY <1>2, <2>2 DEF Range
    <3> PICK at : at = Len(statuses) + i
      OBVIOUS
    <3>2. /\ at \in 1 .. Len(statuses) + Len(results)
          /\ ~(at <= Len(statuses)) /\ at - Len(statuses) = i
      BY <1>2
    <3> QED
      BY <1>2, <3>1, <3>2
  <2> QED
    BY <2>1, <2>2
<1>5. Held = Range(results) \cup Range(statuses) \cup Sending
  BY DEF Held, Sending
<1> QED
  BY <1>3, <1>4, <1>5 DEF Sending

(* No path has two statuses, nor one while it is being checked.            *)
LEMMA OneStatusEach ==
  ASSUME IInv
  PROVE  /\ \A s, t \in Held : s.path = t.path => s = t
         /\ \A s \in Held, w \in Worker : pc[w] = "check" => job[w] # s.path
         /\ \A s \in Held : s.path \in Range(Paths) /\ Handed(s.path) /\ s.outcome \in Outcomes
<1>1. ASSUME NEW s \in Held, NEW w \in Worker, pc[w] = "check" PROVE job[w] # s.path
  <2>1. Busy(w)
    BY <1>1 DEF Busy
  <2>2. CASE \E k \in DOMAIN Delivered : s = Delivered[k]
    BY <2>1, <2>2 DEF IInv, HoldersKnown, DeliveredOnce
  <2>3. ASSUME NEW v \in Worker, pc[v] = "send", s = [path |-> job[v], outcome |-> made[v]]
        PROVE  job[w] # s.path
    <3>1. Busy(v) /\ v # w /\ s.path = job[v]
      BY <1>1, <2>3 DEF Busy
    <3> QED
      BY <2>1, <3>1 DEF IInv, HoldersKnown, OneWorkerEach
  <2> QED
    BY <2>2, <2>3, HeldFacts
<1>2. ASSUME NEW s \in Held
      PROVE  s.path \in Range(Paths) /\ Handed(s.path) /\ s.outcome \in Outcomes
  <2>1. Handed(s.path) /\ s.outcome \in Outcomes
    <3>1. CASE \E k \in DOMAIN Delivered : s = Delivered[k]
      BY <3>1 DEF IInv, HoldersKnown, DeliveredOnce
    <3>2. ASSUME NEW v \in Worker, pc[v] = "send", s = [path |-> job[v], outcome |-> made[v]]
          PROVE  Handed(s.path) /\ s.outcome \in Outcomes
      BY <3>2 DEF IInv, HoldersKnown, WorkersKnow, Busy
    <3> QED
      BY <3>1, <3>2, HeldFacts
  <2> QED
    BY <2>1, PathFacts, SentFacts DEF Handed
<1>3. ASSUME NEW s \in Held, NEW t \in Held, s.path = t.path PROVE s = t
  <2>1. CASE \E k \in DOMAIN Delivered : s = Delivered[k]
    <3>1. PICK k \in DOMAIN Delivered : s = Delivered[k]
      BY <2>1
    <3>2. ASSUME NEW v \in Worker, pc[v] = "send", t = [path |-> job[v], outcome |-> made[v]]
          PROVE  FALSE
      <4>1. Busy(v) /\ t.path = job[v]
        BY <3>2 DEF Busy
      <4>2. Delivered[k].path # job[v]
        BY <4>1 DEF IInv, HoldersKnown, DeliveredOnce
      <4> QED
        BY <1>3, <3>1, <4>1, <4>2
    <3>3. PICK j \in DOMAIN Delivered : t = Delivered[j]
      BY <3>2, HeldFacts
    <3>4. j = k
      BY <1>3, <3>1, <3>3 DEF IInv, HoldersKnown, DeliveredOnce
    <3> QED
      BY <3>1, <3>3, <3>4
  <2>2. ASSUME NEW v \in Worker, pc[v] = "send", s = [path |-> job[v], outcome |-> made[v]]
        PROVE  s = t
    <3>1. Busy(v) /\ s.path = job[v]
      BY <2>2 DEF Busy
    <3>2. ~\E k \in DOMAIN Delivered : t = Delivered[k]
      BY <1>3, <3>1 DEF IInv, HoldersKnown, DeliveredOnce
    <3>3. PICK w \in Worker : pc[w] = "send" /\ t = [path |-> job[w], outcome |-> made[w]]
      BY <3>2, HeldFacts
    <3>4. Busy(w) /\ t.path = job[w]
      BY <3>3 DEF Busy
    <3>5. w = v
      BY <1>3, <3>1, <3>4 DEF IInv, HoldersKnown, OneWorkerEach
    <3> QED
      BY <2>2, <3>3, <3>5
  <2> QED
    BY <2>1, <2>2, HeldFacts
<1> QED
  BY <1>1, <1>2, <1>3

LEMMA Phases == IInv => PhaseFacts
<1> SUFFICES ASSUME IInv, NEW r \in Range(Paths)
             PROVE  /\ (\E w \in Worker : CheckedBy(w, r)) => PhaseOf(r) = "checking"
                    /\ \A status \in Held : status.path = r => PhaseOf(r) = status.outcome
                    /\ /\ \A w \in Worker : ~CheckedBy(w, r)
                       /\ \A status \in Held : status.path # r
                       => PhaseOf(r) = "unchecked"
  BY DEF PhaseFacts
<1>1. ASSUME NEW status \in Held, status.path = r PROVE PhaseOf(r) = status.outcome
  <2>1. ~\E w \in Worker : pc[w] = "check" /\ job[w] = r
    BY <1>1, OneStatusEach
  <2>2. (CHOOSE s \in Held : s.path = r) = status
    BY <1>1, OneStatusEach
  <2> QED
    BY <1>1, <2>1, <2>2 DEF PhaseOf
<1>2. (\E w \in Worker : CheckedBy(w, r)) => PhaseOf(r) = "checking"
  BY DEF PhaseOf, CheckedBy
<1>3. (\A w \in Worker : ~CheckedBy(w, r)) /\ (\A status \in Held : status.path # r)
        => PhaseOf(r) = "unchecked"
  BY DEF PhaseOf, CheckedBy
<1> QED
  BY <1>1, <1>2, <1>3

LEMMA PhasesAfter == IInv' => PhaseFacts'
BY Phases, PTL

HeldIs == Held = {Delivered[k] : k \in DOMAIN Delivered} \cup Sending

LEMMA HeldParts == IInv => HeldIs
BY HeldFacts DEF HeldIs, Sending

LEMMA HeldPartsAfter == IInv' => HeldIs'
BY HeldParts, PTL

LEMMA RangeOfAppend ==
  ASSUME NEW s \in Seq(Status), NEW e
  PROVE  Range(Append(s, e)) = Range(s) \cup {e}
<1>1. /\ Len(s) \in Nat /\ DOMAIN s = 1 .. Len(s) /\ DOMAIN Append(s, e) = 1 .. Len(s) + 1
      /\ \A i \in 1 .. Len(s) : Append(s, e)[i] = s[i]
      /\ Append(s, e)[Len(s) + 1] = e
  OBVIOUS
<1> QED
  BY <1>1 DEF Range

(* A step that leaves the checks and the statuses where they are leaves    *)
(* every phase as it is.                                                   *)
LEMMA SamePhases ==
  ASSUME Held' = Held, \A w \in Worker, r \in Range(Paths) : CheckedBy(w, r)' = CheckedBy(w, r)
  PROVE  Abstract' = Abstract
BY DEF Abstract, PhaseOf, CheckedBy

LEMMA InitRefines == Init => Scan!ScanInit
<1> SUFFICES ASSUME Init PROVE Scan!ScanInit
  OBVIOUS
<1>1. Held = {}
  BY DEF Init, Held, Range
<1>2. \A r \in Range(Paths) : PhaseOf(r) = "unchecked"
  BY <1>1 DEF Init, PhaseOf
<1>3. (main = "returned") = (Range(Paths) = {})
  <2>1. CASE Paths = <<>>
    BY <2>1 DEF Init, Range
  <2>2. CASE Paths # <<>>
    <3>1. 1 \in 1 .. NumPaths
      BY <2>2, PathFacts, GoPathsAssumption DEF NumPaths
    <3> QED
      BY <2>2, <3>1, PathFacts DEF Init
  <2> QED
    BY <2>1, <2>2
<1> QED
  BY <1>2, <1>3 DEF Init, Scan!ScanInit, Scan!Call

LEMMA SameCardinality == ASSUME NEW S PROVE Scan!Cardinality(S) = Cardinality(S)
BY DEF Scan!Cardinality, Cardinality

(* Each path that is being checked has a worker of its own, and one worker *)
(* was about to receive.                                                   *)
LEMMA RoomForOneMore ==
  ASSUME IInv, NEW w \in Worker, pc[w] = "receive"
  PROVE  Scan!Cardinality(Scan!Checking) < Requested
<1> DEFINE Others == Worker \ {w}
           worker == [r \in Scan!Checking |-> CHOOSE v \in Worker : CheckedBy(v, r)]
<1>1. \A r \in Scan!Checking : \E v \in Worker : CheckedBy(v, r)
  <2> SUFFICES ASSUME NEW r \in Range(Paths), PhaseOf(r) = "checking"
               PROVE  \E v \in Worker : CheckedBy(v, r)
    BY DEF Scan!Checking
  <2>1. \A status \in Held : status.path # r
    <3> SUFFICES ASSUME NEW status \in Held, status.path = r PROVE FALSE
      OBVIOUS
    <3>1. status.outcome = "checking" /\ status.outcome \in Outcomes
      BY Phases, OneStatusEach DEF PhaseFacts
    <3> QED
      BY <3>1 DEF Outcomes
  <2> QED
    BY <2>1, Phases DEF PhaseFacts
<1>2. \A r \in Scan!Checking : worker[r] \in Worker /\ CheckedBy(worker[r], r)
  BY <1>1
<1>3. worker \in [Scan!Checking -> Others]
  BY <1>2 DEF CheckedBy
<1>4. worker \in Injection(Scan!Checking, Others)
  BY <1>2, <1>3 DEF Injection, IsInjective, CheckedBy
<1>5. IsFiniteSet(Others) /\ Cardinality(Others) = PoolSize - 1
  BY WorkersAreFinite, FS_RemoveElement
<1> HIDE DEF worker
<1>6. IsFiniteSet(Scan!Checking) /\ Cardinality(Scan!Checking) <= Cardinality(Others)
  BY <1>4, <1>5, FS_Injection
<1>7. Cardinality(Scan!Checking) \in Nat
  BY <1>6, FS_CardinalityType
<1> QED
  BY <1>5, <1>6, <1>7, PoolSizeBounds, RequestedAssumption, SameCardinality

(* Handing a path to a worker begins the scan of that path.                *)
LEMMA SendJobRefines ==
  ASSUME IInv, IInv', NEW w \in Worker, SendJob(w)
  PROVE  [Scan!ScanNext]_(Scan!scanVars)
<1> PICK next : next = sent + 1
  OBVIOUS
<1> PICK r : r = Paths[next]
  OBVIOUS
<1>1. next \in 1 .. NumPaths /\ r \in Range(Paths) /\ ~Handed(r)
  BY PathFacts, SentFacts DEF SendJob, NumPaths, Handed
<1>2. /\ pc[w] = "receive" /\ main # "returned"
      /\ pc' = [pc EXCEPT ![w] = "check"] /\ job' = [job EXCEPT ![w] = r]
      /\ UNCHANGED <<signalled, made, results, statuses, main>>
  BY DEF SendJob, IInv, CallerKnows, channel
<1>3. /\ pc \in [Worker -> {"receive", "check", "send", "ended"}]
      /\ job \in [Worker -> {0} \cup Range(Paths)]
  BY DEF IInv, TypeOK
<1>4. Held' = Held
  <2>1. {v \in Worker : pc'[v] = "send"} = {v \in Worker : pc[v] = "send"}
    BY <1>2, <1>3
  <2>2. \A v \in Worker : pc[v] = "send" => job'[v] = job[v]
    BY <1>2, <1>3
  <2>3. {[path |-> job'[v], outcome |-> made'[v]] : v \in {u \in Worker : pc'[u] = "send"}}
          = {[path |-> job[v], outcome |-> made[v]] : v \in {u \in Worker : pc[u] = "send"}}
    BY <1>2, <2>1, <2>2
  <2> QED
    BY <1>2, <2>3 DEF Held, Range
<1>5. PhaseOf(r) = "unchecked"
  <2>1. \A v \in Worker : ~CheckedBy(v, r)
    BY <1>1 DEF IInv, HoldersKnown, WorkersKnow, Busy, CheckedBy
  <2>2. \A status \in Held : status.path # r
    BY <1>1, OneStatusEach
  <2> QED
    BY <1>1, <2>1, <2>2, Phases DEF PhaseFacts
<1>6. PhaseOf(r)' = "checking"
  <2>1. CheckedBy(w, r)'
    BY <1>2, <1>3 DEF CheckedBy
  <2> QED
    BY <1>1, <2>1, PhasesAfter DEF PhaseFacts
<1>7. \A q \in Range(Paths) \ {r} : PhaseOf(q)' = PhaseOf(q)
  <2> SUFFICES ASSUME NEW q \in Range(Paths) \ {r} PROVE PhaseOf(q)' = PhaseOf(q)
    OBVIOUS
  <2>1. \A v \in Worker : pc'[v] = "check" /\ job'[v] = q <=> pc[v] = "check" /\ job[v] = q
    BY <1>2, <1>3
  <2> QED
    BY <1>4, <2>1 DEF PhaseOf
<1>8. Abstract' = [Abstract EXCEPT ![r] = "checking"]
  BY <1>1, <1>6, <1>7 DEF Abstract
<1>9. Scan!Cardinality(Scan!Checking) < Requested
  BY <1>2, RoomForOneMore
<1>10. Scan!Begin(r)
  BY <1>1, <1>2, <1>5, <1>8, <1>9 DEF Abstract, Scan!Begin
<1> QED
  BY <1>1, <1>10 DEF Scan!ScanNext

(* The end of a check is the end of the scan of that path.                 *)
LEMMA CheckRefines ==
  ASSUME IInv, IInv', NEW w \in Worker, Check(w)
  PROVE  [Scan!ScanNext]_(Scan!scanVars)
<1> PICK r : r = job[w]
  OBVIOUS
<1>1. PICK outcome \in Outcomes : made' = [made EXCEPT ![w] = outcome]
  BY DEF Check
<1>2. /\ pc[w] = "check" /\ pc' = [pc EXCEPT ![w] = "send"]
      /\ UNCHANGED <<signalled, job, results, statuses, main>>
  BY DEF Check, channel
<1>3. /\ pc \in [Worker -> {"receive", "check", "send", "ended"}]
      /\ made \in [Worker -> {"none", "complete", "interrupted"}]
  BY DEF IInv, TypeOK
<1>4. r \in Range(Paths)
  <2>1. Handed(r)
    BY <1>2 DEF IInv, HoldersKnown, WorkersKnow, Busy
  <2> QED
    BY <2>1, PathFacts, SentFacts DEF Handed
<1>5. PhaseOf(r) = "checking"
  <2>1. CheckedBy(w, r)
    BY <1>2 DEF CheckedBy
  <2> QED
    BY <1>4, <2>1, Phases DEF PhaseFacts
<1>6. Held' = Held \cup {[path |-> r, outcome |-> outcome]}
  <2>1. {v \in Worker : pc'[v] = "send"} = {v \in Worker : pc[v] = "send"} \cup {w}
    BY <1>2, <1>3
  <2>2. made'[w] = outcome /\ \A v \in Worker \ {w} : made'[v] = made[v]
    BY <1>1, <1>3
  <2>3. {[path |-> job'[v], outcome |-> made'[v]] : v \in {u \in Worker : pc'[u] = "send"}}
          = {[path |-> job[v], outcome |-> made[v]] : v \in {u \in Worker : pc[u] = "send"}}
              \cup {[path |-> r, outcome |-> outcome]}
    BY <1>2, <2>1, <2>2
  <2> QED
    BY <1>2, <2>3 DEF Held, Range
<1>7. PhaseOf(r)' = outcome
  <2>1. [path |-> r, outcome |-> outcome] \in Held'
    BY <1>6
  <2> QED
    BY <1>4, <2>1, PhasesAfter DEF PhaseFacts
<1>8. \A q \in Range(Paths) \ {r} : PhaseOf(q)' = PhaseOf(q)
  <2> SUFFICES ASSUME NEW q \in Range(Paths) \ {r} PROVE PhaseOf(q)' = PhaseOf(q)
    OBVIOUS
  <2>1. CASE \E v \in Worker : CheckedBy(v, q)
    <3>1. PICK v \in Worker : CheckedBy(v, q)
      BY <2>1
    <3>2. CheckedBy(v, q)'
      BY <1>2, <1>3, <3>1 DEF CheckedBy
    <3> QED
      BY <3>1, <3>2, Phases, PhasesAfter DEF PhaseFacts
  <2>2. CASE \E status \in Held : status.path = q
    BY <1>6, <2>2, Phases, PhasesAfter DEF PhaseFacts
  <2>3. CASE (\A v \in Worker : ~CheckedBy(v, q)) /\ \A status \in Held : status.path # q
    <3>1. \A v \in Worker : ~CheckedBy(v, q)'
      BY <1>2, <1>3, <2>3 DEF CheckedBy
    <3>2. \A status \in Held' : status.path # q
      BY <1>6, <2>3
    <3> QED
      BY <2>3, <3>1, <3>2, Phases, PhasesAfter DEF PhaseFacts
  <2> QED
    BY <2>1, <2>2, <2>3
<1>9. Abstract' = [Abstract EXCEPT ![r] = outcome]
  BY <1>4, <1>7, <1>8 DEF Abstract
<1>10. outcome \in Scan!Outcomes
  BY DEF Outcomes, Scan!Outcomes
<1>11. Scan!Finish(r)
  BY <1>2, <1>4, <1>5, <1>9, <1>10 DEF Abstract, Scan!Finish
<1> QED
  BY <1>4, <1>11 DEF Scan!ScanNext

(* The statuses and the checks are where they were after a step of these.  *)
LEMMA OthersStutter ==
  ASSUME IInv, IInv',
         Collect \/ CloseJobs \/ WaitForWorkers \/ CloseResults
           \/ (\E w \in Worker : SendResult(w) \/ WorkerEnds(w)) \/ UNCHANGED vars
  PROVE  UNCHANGED Scan!scanVars
<1> DEFINE same == /\ signalled' = signalled /\ main' = main
                   /\ Held' = Held
                   /\ \A v \in Worker, r \in Range(Paths) : CheckedBy(v, r)' = CheckedBy(v, r)
<1>1. ASSUME CloseJobs \/ WaitForWorkers \/ CloseResults \/ UNCHANGED vars PROVE same
  <2>1. UNCHANGED <<signalled, main, pc, job, made, results, statuses>>
    BY <1>1 DEF CloseJobs, WaitForWorkers, CloseResults, vars, workers, channel
  <2> QED
    BY <2>1 DEF Held, Range, CheckedBy
<1>2. ASSUME Collect PROVE same
  <2>1. UNCHANGED <<signalled, main, pc, job, made>> /\ Delivered' = Delivered
    BY <1>2, CollectDelivers DEF Collect, workers, IInv
  <2>2. Held' = Held
    BY <2>1, HeldParts, HeldPartsAfter DEF HeldIs, Sending
  <2> QED
    BY <2>1, <2>2 DEF CheckedBy
<1>3. ASSUME NEW w \in Worker, SendResult(w) PROVE same
  <2> DEFINE status == [path |-> job[w], outcome |-> made[w]]
  <2>0. /\ pc \in [Worker -> {"receive", "check", "send", "ended"}]
        /\ pc[w] = "send" /\ pc' = [pc EXCEPT ![w] = "receive"]
        /\ results \in Seq(Status)
        /\ UNCHANGED <<signalled, main, job, made, statuses>>
        /\ results' = Append(results, status)
    BY <1>3 DEF SendResult, IInv, TypeOK
  <2>1. Range(results') = Range(results) \cup {status}
    BY <2>0, RangeOfAppend
  <2>2. {v \in Worker : pc[v] = "send"} = {v \in Worker : pc'[v] = "send"} \cup {w}
    BY <2>0
  <2>3. {[path |-> job[v], outcome |-> made[v]] : v \in {u \in Worker : pc[u] = "send"}}
          = {[path |-> job'[v], outcome |-> made'[v]] : v \in {u \in Worker : pc'[u] = "send"}}
              \cup {status}
    BY <2>0, <2>2
  <2>4. Held' = Held
    BY <2>0, <2>1, <2>3 DEF Held
  <2> QED
    BY <2>0, <2>4 DEF CheckedBy
<1>4. ASSUME NEW w \in Worker, WorkerEnds(w) PROVE same
  <2>0. /\ pc \in [Worker -> {"receive", "check", "send", "ended"}]
        /\ pc[w] = "receive" /\ pc' = [pc EXCEPT ![w] = "ended"]
        /\ UNCHANGED <<signalled, main, job, made, results, statuses>>
    BY <1>4 DEF WorkerEnds, IInv, TypeOK, channel
  <2>1. {v \in Worker : pc'[v] = "send"} = {v \in Worker : pc[v] = "send"}
    BY <2>0
  <2>2. Held' = Held
    BY <2>0, <2>1 DEF Held, Range
  <2> QED
    BY <2>0, <2>2 DEF CheckedBy
<1>5. same
  BY <1>1, <1>2, <1>3, <1>4
<1>6. Abstract' = Abstract
  BY <1>5, SamePhases
<1> QED
  BY <1>5, <1>6 DEF Abstract, Scan!scanVars

(* Sorting changes the order of the statuses and none of them.             *)
LEMMA SortAndReturnRefines ==
  ASSUME IInv, IInv', SortAndReturn
  PROVE  [Scan!ScanNext]_(Scan!scanVars)
<1>1. /\ main = "collect" /\ Received /\ main' = "returned"
      /\ UNCHANGED <<signalled, pc, job, made, results>>
  BY DEF SortAndReturn, workers, channel
<1>2. PICK order \in Bijection(DOMAIN statuses, DOMAIN statuses) :
        statuses' = [i \in DOMAIN statuses |-> statuses[order[i]]]
  BY DEF SortAndReturn
<1>3. /\ \A i \in DOMAIN statuses : order[i] \in DOMAIN statuses
      /\ \A k \in DOMAIN statuses : \E i \in DOMAIN statuses : order[i] = k
  BY <1>2 DEF Bijection, Injection, Surjection
<1>4. Range(statuses') = Range(statuses)
  BY <1>2, <1>3 DEF Range
<1>5. Held' = Held
  BY <1>1, <1>4 DEF Held
<1>6. Abstract' = Abstract
  BY <1>1, <1>5 DEF Abstract, PhaseOf
<1>7. ASSUME NEW r \in Range(Paths) PROVE PhaseOf(r) \in Outcomes
  <2>1. PICK i \in 1 .. NumPaths : r = Paths[i]
    BY PathFacts
  <2>2. PICK k \in DOMAIN statuses : statuses[k].path = r
    BY <1>1, <2>1, AllCollected
  <2>3. statuses[k].outcome \in Outcomes /\ statuses[k] \in Held
    BY <1>1, <2>2, AllCollected, HeldFacts
  <2> QED
    BY <2>2, <2>3, Phases DEF PhaseFacts
<1>8. \A r \in Range(Paths) : PhaseOf(r) # "checking"
  BY <1>7 DEF Outcomes
<1>9. signalled \/ \A r \in Range(Paths) : PhaseOf(r) = "complete"
  BY <1>7 DEF Outcomes
<1>10. Scan!Return
  BY <1>1, <1>6, <1>8, <1>9 DEF Abstract, Scan!Return, Scan!Checking
<1> QED
  BY <1>10 DEF Scan!ScanNext

LEMMA StepRefines == IInv /\ IInv' /\ [Next]_vars => [Scan!ScanNext]_(Scan!scanVars)
<1> SUFFICES ASSUME IInv, IInv', [Next]_vars PROVE [Scan!ScanNext]_(Scan!scanVars)
  OBVIOUS
<1>1. CASE Signal
  <2>1. UNCHANGED <<pc, job, made, results, statuses, main>> /\ ~signalled /\ signalled' = TRUE
    BY <1>1 DEF Signal, workers, channel
  <2>2. Abstract' = Abstract
    BY <2>1 DEF Abstract, PhaseOf, Held
  <2>3. Scan!Interrupt
    BY <2>1, <2>2 DEF Abstract, Scan!Interrupt
  <2> QED
    BY <2>3 DEF Scan!ScanNext
<1> QED
  BY <1>1, SendJobRefines, CheckRefines, OthersStutter, SortAndReturnRefines
  DEF Next, Dispatcher, WorkerRoutine, Caller

(* The goroutines keep the promise of RepositoryScan, as the threads do:   *)
(* at most --workers checks at a time, none twice, and a return only when  *)
(* every path is complete or there was an interrupt.                       *)
THEOREM Refinement == Spec => ImplementsScan
<1>1. Init => Scan!ScanInit
  BY InitRefines
<1>2. IInv /\ IInv' /\ [Next]_vars => [Scan!ScanNext]_(Scan!scanVars)
  BY StepRefines
<1> QED
  BY <1>1, <1>2, Invariance, PTL DEF Spec, ImplementsScan, Scan!ScanSpec

===============================================================================
