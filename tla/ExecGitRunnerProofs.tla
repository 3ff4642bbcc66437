-------------------------- MODULE ExecGitRunnerProofs --------------------------
(***************************************************************************)
(* Proofs about ExecGitRunner, for any number of calls at once, any amount *)
(* of output, any capacity of the pipe and every host.                     *)
(***************************************************************************)
EXTENDS ExecGitRunner, SequenceTheorems, WellFoundedInduction, TLAPS

(* Where the calling thread is, and what it has made by then.              *)
Quiet(c) ==
  git[c] = "none" /\ helper[c] = "none" /\ exitStatus[c] = "none" /\ reader[c] = "none"

CallerKnows(c) ==
  /\ pc[c] \in {"called", "pipe"} => Quiet(c) /\ c \notin readEnds \cup writeEnds
  /\ pc[c] \in {"configure", "fork"} => Quiet(c) /\ c \in readEnds \cap writeEnds
  /\ pc[c] = "forked" => git[c] # "none" /\ reader[c] = "none"
  /\ pc[c] \in {"poll", "check", "clock", "kill", "reap", "join"} =>
       git[c] # "none" /\ reader[c] # "none" /\ c \notin writeEnds
  /\ pc[c] = "reap" => git[c] # "running"
  /\ pc[c] = "join" => git[c] = "gone"
  /\ pc[c] = "returned" =>
       /\ c \notin readEnds \cup writeEnds
       /\ Quiet(c) \/ (git[c] = "gone" /\ reader[c] = "eof")

(* Unless the kernel reaps it, a git that its caller has not seen ending   *)
(* is still there to be killed and waited for.                             *)
ChildIsOurs(c) ==
  host # "posix reaping" /\ pc[c] \in {"forked", "poll", "check", "clock", "kill", "reap"} =>
    git[c] \in {"running", "zombie"}

(* A git that has not ended holds the write end of its own pipe, and so    *)
(* does what it has left behind.                                           *)
ProcessKnows(c) ==
  /\ git[c] = "running" => pc[c] \in {"forked", "poll", "check", "clock", "kill"}
  /\ exitStatus[c] = "none" <=> git[c] \in {"none", "running"}
  /\ Alive(c) => c \in inherited[c]

(* Nothing is lost between the writers and the reader, and a pipe that has *)
(* reached its end of file stays at it: no write end is left to be         *)
(* inherited from.                                                         *)
StreamKnows(c) ==
  /\ wrote[c] = piped[c] + output[c]
  /\ reader[c] = "eof" => piped[c] = 0 /\ ~WriteEndHeld(c)

(* Why git was killed is known before it is, and unless it was, its status *)
(* is the one that waitpid has stored.                                     *)
VerdictKnows(c) ==
  /\ (pc[c] \in {"kill", "reap"} \/ exitStatus[c] = "killed") => reason[c] # "none"
  /\ reason[c] = "interrupted" => cancelled
  /\ reason[c] = "timeout" => expired[c]
  /\ pc[c] = "join" /\ reason[c] = "none" => process_status[c] = exitStatus[c]
  /\ result[c] # "none" => pc[c] = "returned"
  /\ result[c] = "ok" => exitStatus[c] = "ok" /\ reader[c] = "eof"

CallInv(c) ==
  CallerKnows(c) /\ ChildIsOurs(c) /\ ProcessKnows(c) /\ StreamKnows(c) /\ VerdictKnows(c)

IInv == TypeOK /\ \A c \in Call : CallInv(c)

-------------------------------------------------------------------------------
LEMMA PipeFacts == PipeCapacity \in Nat /\ Chunks \in [Call -> Nat]
BY RunnerAssumption

LEMMA InitTypeOK == Init => TypeOK
BY PipeFacts DEF Init, TypeOK

(* What waitpid stores is the exit status that a git that has ended has.   *)
LEMMA NextTypeOK ==
  ASSUME IInv, [Next]_vars
  PROVE  TypeOK'
<1> USE PipeFacts DEF IInv, TypeOK, environment, descriptors, process, stream, verdict,
        Goto, Return
<1>1. CASE Interrupt
  BY <1>1 DEF Interrupt
<1>2. ASSUME NEW c \in Call, Enter(c) PROVE TypeOK'
  BY <1>2 DEF Enter
<1>3. ASSUME NEW c \in Call, CreatePipe(c) PROVE TypeOK'
  BY <1>3 DEF CreatePipe
<1>4. ASSUME NEW c \in Call, ConfigurePipe(c) PROVE TypeOK'
  BY <1>4 DEF ConfigurePipe
<1>5. ASSUME NEW c \in Call, Fork(c) PROVE TypeOK'
  BY <1>5 DEF Fork, ForkFailed
<1>6. ASSUME NEW c \in Call, StartReader(c) PROVE TypeOK'
  BY <1>6 DEF StartReader, KeptByParent, FirstTest
<1>7. ASSUME NEW c \in Call, Poll(c) PROVE TypeOK'
  <2>1. git[c] = "zombie" => exitStatus[c] \in {"ok", "failed", "killed"}
    BY DEF CallInv, ProcessKnows
  <2>2. git[c] # "none"
    BY <1>7 DEF Poll, CallInv, CallerKnows
  <2>3. AfterWait(c) \in {"check", "join", "kill"}
    BY <2>2 DEF AfterWait
  <2> QED
    BY <1>7, <2>1, <2>3 DEF Poll, Reap
<1>8. ASSUME NEW c \in Call, WaitFails(c) PROVE TypeOK'
  BY <1>8 DEF WaitFails
<1>9. ASSUME NEW c \in Call, TestCancelled(c) PROVE TypeOK'
  BY <1>9 DEF TestCancelled
<1>10. ASSUME NEW c \in Call, TestDeadline(c) PROVE TypeOK'
  BY <1>10 DEF TestDeadline, Overdue
<1>11. ASSUME NEW c \in Call, Kill(c) PROVE TypeOK'
  BY <1>11 DEF Kill, EndedAs
<1>12. ASSUME NEW c \in Call, WaitKilled(c) PROVE TypeOK'
  BY <1>12 DEF WaitKilled, Reap, CallInv, ProcessKnows
<1>13. ASSUME NEW c \in Call, Join(c) PROVE TypeOK'
  BY <1>13 DEF Join, Joinable, ResultOf
<1>14. ASSUME NEW c \in Call, Drain(c) PROVE TypeOK'
  BY <1>14 DEF Drain
<1>15. ASSUME NEW c \in Call, EndOfFile(c) PROVE TypeOK'
  BY <1>15 DEF EndOfFile, WriteEndHeld
<1>16. ASSUME NEW c \in Call, Expire(c) PROVE TypeOK'
  BY <1>16 DEF Expire
<1>17. ASSUME NEW c \in Call, Write(c) PROVE TypeOK'
  BY <1>17 DEF Write, Alive
<1>18. ASSUME NEW c \in Call, StartHelper(c) PROVE TypeOK'
  BY <1>18 DEF StartHelper
<1>19. ASSUME NEW c \in Call, GitExit(c) PROVE TypeOK'
  <2>1. PICK status \in {"ok", "failed"} : exitStatus' = [exitStatus EXCEPT ![c] = status]
    BY <1>19 DEF GitExit
  <2> QED
    BY <1>19, <2>1 DEF GitExit, EndedAs
<1>20. ASSUME NEW c \in Call, HelperExit(c) PROVE TypeOK'
  BY <1>20 DEF HelperExit
<1>21. CASE UNCHANGED vars
  BY <1>21 DEF vars
<1> QED
  BY <1>1, <1>2, <1>3, <1>4, <1>5, <1>6, <1>7, <1>8, <1>9, <1>10, <1>11, <1>12, <1>13, <1>14,
     <1>15, <1>16, <1>17, <1>18, <1>19, <1>20, <1>21
  DEF Next, Caller, Read, Git


-------------------------------------------------------------------------------
(* One lemma for each action: it preserves what is known about every call, *)
(* its own and the others.                                                 *)
LEMMA EndedFacts ==
  /\ EndedAs \in {"zombie", "gone"}
  /\ host # "posix reaping" => EndedAs = "zombie"
BY Zenon DEF EndedAs

Unreaped == {"forked", "poll", "check", "clock", "kill", "reap"}

LEMMA ChildStays ==
  ASSUME NEW d \in Call, ChildIsOurs(d), host' = host,
         pc'[d] \in Unreaped =>
           \/ pc[d] \in Unreaped /\ git'[d] = git[d]
           \/ git'[d] \in {"running", "zombie"}
  PROVE  ChildIsOurs(d)'
BY DEF ChildIsOurs, Unreaped

LEMMA StepEnter ==
  ASSUME IInv, NEW c \in Call, Enter(c), TypeOK', NEW d \in Call
  PROVE  CallInv(d)'
<1> USE PipeFacts DEF IInv, TypeOK, CallInv, environment, descriptors, process, stream, verdict,
        Goto, Return, Enter
<1>1. CallerKnows(d)'
  BY DEF CallerKnows, Quiet
<1>2. ChildIsOurs(d)'
  BY ChildStays DEF Unreaped
<1>3. ProcessKnows(d)'
  BY DEF ProcessKnows, Alive
<1>4. StreamKnows(d)'
  BY DEF StreamKnows, WriteEndHeld, Alive
<1>5. VerdictKnows(d)'
  BY DEF VerdictKnows
<1> QED
  BY <1>1, <1>2, <1>3, <1>4, <1>5

LEMMA StepCreatePipe ==
  ASSUME IInv, NEW c \in Call, CreatePipe(c), TypeOK', NEW d \in Call
  PROVE  CallInv(d)'
<1> USE PipeFacts DEF IInv, TypeOK, CallInv, environment, descriptors, process, stream, verdict,
        Goto, Return, CreatePipe
<1>1. CallerKnows(d)'
  BY DEF CallerKnows, Quiet
<1>2. ChildIsOurs(d)'
  BY ChildStays DEF Unreaped
<1>3. ProcessKnows(d)'
  BY DEF ProcessKnows, Alive
<1>4. StreamKnows(d)'
  BY DEF StreamKnows, WriteEndHeld, Alive, CallerKnows, Quiet
<1>5. VerdictKnows(d)'
  BY DEF VerdictKnows
<1> QED
  BY <1>1, <1>2, <1>3, <1>4, <1>5

LEMMA StepConfigurePipe ==
  ASSUME IInv, NEW c \in Call, ConfigurePipe(c), TypeOK', NEW d \in Call
  PROVE  CallInv(d)'
<1> USE PipeFacts DEF IInv, TypeOK, CallInv, environment, descriptors, process, stream, verdict,
        Goto, Return, ConfigurePipe
<1>1. CallerKnows(d)'
  BY DEF CallerKnows, Quiet
<1>2. ChildIsOurs(d)'
  BY ChildStays DEF Unreaped
<1>3. ProcessKnows(d)'
  BY DEF ProcessKnows, Alive
<1>4. StreamKnows(d)'
  BY DEF StreamKnows, WriteEndHeld, Alive
<1>5. VerdictKnows(d)'
  BY DEF VerdictKnows
<1> QED
  BY <1>1, <1>2, <1>3, <1>4, <1>5

LEMMA StepFork ==
  ASSUME IInv, NEW c \in Call, Fork(c), TypeOK', NEW d \in Call
  PROVE  CallInv(d)'
<1> USE PipeFacts DEF IInv, TypeOK, CallInv, environment, descriptors, process, stream, verdict,
        Goto, Return, Fork, ForkFailed
<1>1. CallerKnows(d)'
  BY DEF CallerKnows, Quiet
<1>2. ChildIsOurs(d)'
  BY ChildStays DEF Unreaped
<1>3. ProcessKnows(d)'
  BY DEF ProcessKnows, Alive, CallerKnows, Quiet
<1>4. StreamKnows(d)'
  BY DEF StreamKnows, WriteEndHeld, Alive
<1>5. VerdictKnows(d)'
  BY DEF VerdictKnows
<1> QED
  BY <1>1, <1>2, <1>3, <1>4, <1>5

LEMMA StepStartReader ==
  ASSUME IInv, NEW c \in Call, StartReader(c), TypeOK', NEW d \in Call
  PROVE  CallInv(d)'
<1> USE PipeFacts DEF IInv, TypeOK, CallInv, environment, descriptors, process, stream, verdict,
        Goto, Return, StartReader, KeptByParent, FirstTest
<1>1. CallerKnows(d)'
  BY DEF CallerKnows, Quiet
<1>2. ChildIsOurs(d)'
  BY ChildStays DEF Unreaped
<1>3. ProcessKnows(d)'
  BY DEF ProcessKnows, Alive
<1>4. StreamKnows(d)'
  BY DEF StreamKnows, WriteEndHeld, Alive
<1>5. VerdictKnows(d)'
  BY DEF VerdictKnows
<1> QED
  BY <1>1, <1>2, <1>3, <1>4, <1>5

LEMMA StepPoll ==
  ASSUME IInv, NEW c \in Call, Poll(c), TypeOK', NEW d \in Call
  PROVE  CallInv(d)'
<1> USE DEF IInv, TypeOK, CallInv
<1>1. /\ pc[c] = "poll" /\ git[c] # "none" /\ reader[c] # "none" /\ c \notin writeEnds
      /\ UNCHANGED <<host, cancelled, readEnds, writeEnds, inherited, helper, exitStatus, expired,
                     wrote, piped, output, reader, result>>
  BY DEF Poll, CallerKnows, environment, descriptors, stream, process, Reap
<1>2. CASE git[c] = "running"
  <2>1. pc' = [pc EXCEPT ![c] = "check"] /\ UNCHANGED <<git, process_status, reason>>
    BY <1>2 DEF Poll, Goto, AfterWait, process
  <2>2. CallerKnows(d)' /\ ProcessKnows(d)'
    BY <1>1, <1>2, <2>1 DEF CallerKnows, ProcessKnows, Quiet, Alive
  <2>3. ChildIsOurs(d)'
    BY <1>1, <2>1, ChildStays DEF Unreaped
  <2>4. StreamKnows(d)' /\ VerdictKnows(d)'
    BY <1>1, <2>1 DEF StreamKnows, WriteEndHeld, Alive, VerdictKnows
  <2> QED
    BY <2>2, <2>3, <2>4
<1>3. CASE git[c] \in {"zombie", "gone"}
  <2> DEFINE killed == git[c] = "gone"
  <2>1. /\ pc' = [pc EXCEPT ![c] = IF killed THEN "kill" ELSE "join"]
        /\ git' = [git EXCEPT ![c] = "gone"]
        /\ process_status' = [process_status EXCEPT ![c] = IF killed THEN @ ELSE exitStatus[c]]
        /\ reason' = [reason EXCEPT ![c] = IF killed THEN "wait" ELSE @]
    BY <1>3 DEF Poll, Goto, AfterWait, Reap
  <2>2. CallerKnows(d)' /\ ProcessKnows(d)'
    BY <1>1, <1>3, <2>1 DEF CallerKnows, ProcessKnows, Quiet, Alive
  <2>3. ChildIsOurs(d)'
    BY <1>1, <1>3, <2>1, ChildStays DEF Unreaped
  <2>4. StreamKnows(d)' /\ VerdictKnows(d)'
    BY <1>1, <1>3, <2>1 DEF StreamKnows, WriteEndHeld, Alive, VerdictKnows
  <2> QED
    BY <2>2, <2>3, <2>4
<1> QED
  BY <1>1, <1>2, <1>3

LEMMA StepWaitFails ==
  ASSUME IInv, NEW c \in Call, WaitFails(c), TypeOK', NEW d \in Call
  PROVE  CallInv(d)'
<1> USE PipeFacts DEF IInv, TypeOK, CallInv, environment, descriptors, process, stream, verdict,
        Goto, Return, WaitFails
<1>1. CallerKnows(d)'
  BY DEF CallerKnows, Quiet
<1>2. ChildIsOurs(d)'
  BY ChildStays DEF Unreaped
<1>3. ProcessKnows(d)'
  BY DEF ProcessKnows, Alive
<1>4. StreamKnows(d)'
  BY DEF StreamKnows, WriteEndHeld, Alive
<1>5. VerdictKnows(d)'
  BY DEF VerdictKnows
<1> QED
  BY <1>1, <1>2, <1>3, <1>4, <1>5

LEMMA StepTestCancelled ==
  ASSUME IInv, NEW c \in Call, TestCancelled(c), TypeOK', NEW d \in Call
  PROVE  CallInv(d)'
<1> USE PipeFacts DEF IInv, TypeOK, CallInv, environment, descriptors, process, stream, verdict,
        Goto, Return, TestCancelled
<1>1. CallerKnows(d)'
  BY DEF CallerKnows, Quiet
<1>2. ChildIsOurs(d)'
  BY ChildStays DEF Unreaped
<1>3. ProcessKnows(d)'
  BY DEF ProcessKnows, Alive
<1>4. StreamKnows(d)'
  BY DEF StreamKnows, WriteEndHeld, Alive
<1>5. VerdictKnows(d)'
  BY DEF VerdictKnows
<1> QED
  BY <1>1, <1>2, <1>3, <1>4, <1>5

LEMMA StepTestDeadline ==
  ASSUME IInv, NEW c \in Call, TestDeadline(c), TypeOK', NEW d \in Call
  PROVE  CallInv(d)'
<1> USE PipeFacts DEF IInv, TypeOK, CallInv, environment, descriptors, process, stream, verdict,
        Goto, Return, TestDeadline, Overdue
<1>1. CallerKnows(d)'
  BY DEF CallerKnows, Quiet
<1>2. ChildIsOurs(d)'
  BY ChildStays DEF Unreaped
<1>3. ProcessKnows(d)'
  BY DEF ProcessKnows, Alive
<1>4. StreamKnows(d)'
  BY DEF StreamKnows, WriteEndHeld, Alive
<1>5. VerdictKnows(d)'
  BY DEF VerdictKnows
<1> QED
  BY <1>1, <1>2, <1>3, <1>4, <1>5

LEMMA StepKill ==
  ASSUME IInv, NEW c \in Call, Kill(c), TypeOK', NEW d \in Call
  PROVE  CallInv(d)'
<1> USE PipeFacts DEF IInv, TypeOK, CallInv, environment, descriptors, process, stream, verdict,
        Goto, Return, Kill
<1>0. EndedAs \in {"zombie", "gone"}
  BY EndedFacts
<1>1. CallerKnows(d)'
  BY <1>0 DEF CallerKnows, Quiet
<1>2. ChildIsOurs(d)'
  <2>0. pc'[d] \in Unreaped => pc[d] \in Unreaped
    BY DEF Unreaped
  <2>1. SUFFICES ASSUME host # "posix reaping", pc'[d] \in Unreaped
                 PROVE  git'[d] \in {"running", "zombie"}
    BY DEF ChildIsOurs, Unreaped
  <2>2. EndedAs = "zombie"
    BY <2>1, EndedFacts
  <2>3. pc[d] \in Unreaped
    BY <2>0, <2>1
  <2>4. git[d] \in {"running", "zombie"}
    BY <2>1, <2>3 DEF ChildIsOurs, Unreaped
  <2> QED
    BY <2>2, <2>4
<1>3. ProcessKnows(d)'
  BY <1>0 DEF ProcessKnows, Alive
<1>4. StreamKnows(d)'
  BY <1>0 DEF StreamKnows, WriteEndHeld, Alive
<1>5. VerdictKnows(d)'
  BY <1>0 DEF VerdictKnows
<1> QED
  BY <1>1, <1>2, <1>3, <1>4, <1>5

LEMMA StepWaitKilled ==
  ASSUME IInv, NEW c \in Call, WaitKilled(c), TypeOK', NEW d \in Call
  PROVE  CallInv(d)'
<1> USE PipeFacts DEF IInv, TypeOK, CallInv, environment, descriptors, process, stream, verdict,
        Goto, Return, WaitKilled, Reap
<1>1. CallerKnows(d)'
  BY DEF CallerKnows, Quiet
<1>2. ChildIsOurs(d)'
  BY ChildStays DEF Unreaped
<1>3. ProcessKnows(d)'
  BY DEF ProcessKnows, Alive, CallerKnows
<1>4. StreamKnows(d)'
  BY DEF StreamKnows, WriteEndHeld, Alive
<1>5. VerdictKnows(d)'
  BY DEF VerdictKnows
<1> QED
  BY <1>1, <1>2, <1>3, <1>4, <1>5

LEMMA StepJoin ==
  ASSUME IInv, NEW c \in Call, Join(c), TypeOK', NEW d \in Call
  PROVE  CallInv(d)'
<1> USE PipeFacts DEF IInv, TypeOK, CallInv, environment, descriptors, process, stream, verdict,
        Goto, Return, Join, Joinable, ResultOf
<1>1. CallerKnows(d)'
  BY DEF CallerKnows, Quiet
<1>2. ChildIsOurs(d)'
  BY ChildStays DEF Unreaped
<1>3. ProcessKnows(d)'
  BY DEF ProcessKnows, Alive
<1>4. StreamKnows(d)'
  BY DEF StreamKnows, WriteEndHeld, Alive
<1>5. VerdictKnows(d)'
  BY DEF VerdictKnows
<1> QED
  BY <1>1, <1>2, <1>3, <1>4, <1>5

LEMMA StepDrain ==
  ASSUME IInv, NEW c \in Call, Drain(c), TypeOK', NEW d \in Call
  PROVE  CallInv(d)'
<1> USE PipeFacts DEF IInv, TypeOK, CallInv, environment, descriptors, process, stream, verdict,
        Goto, Return, Drain
<1>1. CallerKnows(d)'
  BY DEF CallerKnows, Quiet
<1>2. ChildIsOurs(d)'
  BY ChildStays DEF Unreaped
<1>3. ProcessKnows(d)'
  BY DEF ProcessKnows, Alive
<1>4. StreamKnows(d)'
  BY DEF StreamKnows, WriteEndHeld, Alive
<1>5. VerdictKnows(d)'
  BY DEF VerdictKnows
<1> QED
  BY <1>1, <1>2, <1>3, <1>4, <1>5

LEMMA StepEndOfFile ==
  ASSUME IInv, NEW c \in Call, EndOfFile(c), TypeOK', NEW d \in Call
  PROVE  CallInv(d)'
<1> USE PipeFacts DEF IInv, TypeOK, CallInv, environment, descriptors, process, stream, verdict,
        Goto, Return, EndOfFile, WriteEndHeld
<1>1. CallerKnows(d)'
  BY DEF CallerKnows, Quiet
<1>2. ChildIsOurs(d)'
  BY ChildStays DEF Unreaped
<1>3. ProcessKnows(d)'
  BY DEF ProcessKnows, Alive
<1>4. StreamKnows(d)'
  BY DEF StreamKnows, WriteEndHeld, Alive
<1>5. VerdictKnows(d)'
  BY DEF VerdictKnows
<1> QED
  BY <1>1, <1>2, <1>3, <1>4, <1>5

LEMMA StepExpire ==
  ASSUME IInv, NEW c \in Call, Expire(c), TypeOK', NEW d \in Call
  PROVE  CallInv(d)'
<1> USE PipeFacts DEF IInv, TypeOK, CallInv, environment, descriptors, process, stream, verdict,
        Goto, Return, Expire
<1>1. CallerKnows(d)'
  BY DEF CallerKnows, Quiet
<1>2. ChildIsOurs(d)'
  BY ChildStays DEF Unreaped
<1>3. ProcessKnows(d)'
  BY DEF ProcessKnows, Alive
<1>4. StreamKnows(d)'
  BY DEF StreamKnows, WriteEndHeld, Alive
<1>5. VerdictKnows(d)'
  BY DEF VerdictKnows
<1> QED
  BY <1>1, <1>2, <1>3, <1>4, <1>5

LEMMA StepWrite ==
  ASSUME IInv, NEW c \in Call, Write(c), TypeOK', NEW d \in Call
  PROVE  CallInv(d)'
<1> USE PipeFacts DEF IInv, TypeOK, CallInv, environment, descriptors, process, stream, verdict,
        Goto, Return, Write, Alive
<1>1. CallerKnows(d)'
  BY DEF CallerKnows, Quiet
<1>2. ChildIsOurs(d)'
  BY ChildStays DEF Unreaped
<1>3. ProcessKnows(d)'
  BY DEF ProcessKnows, Alive
<1>4. StreamKnows(d)'
  <2>1. WriteEndHeld(c)
    BY DEF ProcessKnows, WriteEndHeld
  <2>2. WriteEndHeld(d)' = WriteEndHeld(d)
    BY DEF WriteEndHeld
  <2> QED
    BY <2>1, <2>2 DEF StreamKnows
<1>5. VerdictKnows(d)'
  BY DEF VerdictKnows
<1> QED
  BY <1>1, <1>2, <1>3, <1>4, <1>5

LEMMA StepStartHelper ==
  ASSUME IInv, NEW c \in Call, StartHelper(c), TypeOK', NEW d \in Call
  PROVE  CallInv(d)'
<1> USE PipeFacts DEF IInv, TypeOK, CallInv, environment, descriptors, process, stream, verdict,
        Goto, Return, StartHelper
<1>1. CallerKnows(d)'
  BY DEF CallerKnows, Quiet
<1>2. ChildIsOurs(d)'
  BY ChildStays DEF Unreaped
<1>3. ProcessKnows(d)'
  BY DEF ProcessKnows, Alive
<1>4. StreamKnows(d)'
  BY DEF StreamKnows, WriteEndHeld, Alive
<1>5. VerdictKnows(d)'
  BY DEF VerdictKnows
<1> QED
  BY <1>1, <1>2, <1>3, <1>4, <1>5

LEMMA StepGitExit ==
  ASSUME IInv, NEW c \in Call, GitExit(c), TypeOK', NEW d \in Call
  PROVE  CallInv(d)'
<1> USE PipeFacts DEF IInv, TypeOK, CallInv, environment, descriptors, process, stream, verdict,
        Goto, Return, GitExit
<1> PICK status \in {"ok", "failed"} : exitStatus' = [exitStatus EXCEPT ![c] = status]
  OBVIOUS
<1>0. EndedAs \in {"zombie", "gone"}
  BY EndedFacts
<1>1. CallerKnows(d)'
  BY <1>0 DEF CallerKnows, Quiet
<1>2. ChildIsOurs(d)'
  <2>1. SUFFICES ASSUME host # "posix reaping", pc'[d] \in Unreaped
                 PROVE  git'[d] \in {"running", "zombie"}
    BY DEF ChildIsOurs, Unreaped
  <2>2. EndedAs = "zombie"
    BY <2>1, EndedFacts
  <2>3. pc[d] \in Unreaped
    BY <2>1 DEF Unreaped
  <2>4. git[d] \in {"running", "zombie"}
    BY <2>1, <2>3 DEF ChildIsOurs, Unreaped
  <2> QED
    BY <2>2, <2>4
<1>3. ProcessKnows(d)'
  BY <1>0 DEF ProcessKnows, Alive
<1>4. StreamKnows(d)'
  BY <1>0 DEF StreamKnows, WriteEndHeld, Alive
<1>5. VerdictKnows(d)'
  BY <1>0 DEF VerdictKnows, ProcessKnows
<1> QED
  BY <1>1, <1>2, <1>3, <1>4, <1>5

LEMMA StepHelperExit ==
  ASSUME IInv, NEW c \in Call, HelperExit(c), TypeOK', NEW d \in Call
  PROVE  CallInv(d)'
<1> USE PipeFacts DEF IInv, TypeOK, CallInv, environment, descriptors, process, stream, verdict,
        Goto, Return, HelperExit
<1>1. CallerKnows(d)'
  BY DEF CallerKnows, Quiet
<1>2. ChildIsOurs(d)'
  BY ChildStays DEF Unreaped
<1>3. ProcessKnows(d)'
  BY DEF ProcessKnows, Alive
<1>4. StreamKnows(d)'
  BY DEF StreamKnows, WriteEndHeld, Alive
<1>5. VerdictKnows(d)'
  BY DEF VerdictKnows
<1> QED
  BY <1>1, <1>2, <1>3, <1>4, <1>5

LEMMA StepInterrupt ==
  ASSUME IInv, Interrupt, NEW d \in Call
  PROVE  CallInv(d)'
BY
DEF Interrupt, IInv, CallInv, descriptors, process, stream, verdict, CallerKnows, Quiet,
    ChildIsOurs,
       ProcessKnows, Alive, StreamKnows, WriteEndHeld, VerdictKnows

-------------------------------------------------------------------------------
LEMMA InitIInv == Init => IInv
<1> SUFFICES ASSUME Init, NEW c \in Call PROVE CallInv(c)
  BY InitTypeOK DEF IInv
<1> QED
  BY DEF Init, CallInv, CallerKnows, Quiet, ChildIsOurs, ProcessKnows, Alive, StreamKnows,
         WriteEndHeld, VerdictKnows

LEMMA NextIInv == IInv /\ [Next]_vars => IInv'
<1> SUFFICES ASSUME IInv, [Next]_vars, NEW d \in Call PROVE CallInv(d)'
  BY NextTypeOK DEF IInv
<1>0. TypeOK'
  BY NextTypeOK
<1>1. CASE Interrupt
  BY <1>1, StepInterrupt
<1>2. ASSUME NEW c \in Call, Caller(c) PROVE CallInv(d)'
  BY <1>0, <1>2, StepEnter, StepCreatePipe, StepConfigurePipe, StepFork, StepStartReader, StepPoll,
     StepWaitFails, StepTestCancelled, StepTestDeadline, StepKill, StepWaitKilled, StepJoin
  DEF Caller
<1>3. ASSUME NEW c \in Call, Read(c) \/ Expire(c) \/ Git(c) PROVE CallInv(d)'
  BY <1>0, <1>3, StepDrain, StepEndOfFile, StepExpire, StepWrite, StepStartHelper, StepGitExit,
     StepHelperExit
  DEF Read, Git
<1>4. CASE UNCHANGED vars
  BY <1>4 DEF vars, environment, descriptors, process, stream, verdict, IInv, CallInv, CallerKnows,
     Quiet, ChildIsOurs, ProcessKnows, Alive, StreamKnows, WriteEndHeld, VerdictKnows
<1> QED
  BY <1>1, <1>2, <1>3, <1>4 DEF Next

(* The inductive invariant, for any number of calls.                       *)
THEOREM Invariance == Spec => []IInv
BY InitIInv, NextIInv, PTL DEF Spec

(* Type correctness of the runner: in particular an answer is one of those *)
(* GitClient tells apart, and a pipe never holds more than its capacity.   *)
THEOREM TypeCorrect == Spec => []TypeOK
<1>1. IInv => TypeOK
  BY DEF IInv
<1> QED
  BY <1>1, Invariance, PTL

(* However a call ends, on either system, and whatever the others do: no   *)
(* descriptor stays open, no git runs on, no zombie is left and no reader  *)
(* thread reads on.                                                        *)
THEOREM NoLeak == Spec => []NothingLeftBehind
<1>1. IInv => NothingLeftBehind
  BY DEF IInv, CallInv, NothingLeftBehind, CallerKnows, ProcessKnows, Quiet
<1> QED
  BY <1>1, Invariance, PTL

(* A success is git's own, with all of its output, although other gits may *)
(* have inherited the pipe.                                                *)
THEOREM SuccessIsComplete == Spec => []OkMeansComplete
<1>1. ASSUME IInv, NEW c \in Call, result[c] = "ok"
      PROVE  exitStatus[c] = "ok" /\ output[c] = wrote[c] /\ ~Alive(c)
  BY <1>1 DEF IInv, CallInv, TypeOK, StreamKnows, VerdictKnows, ProcessKnows, WriteEndHeld
<1>2. IInv => OkMeansComplete
  BY <1>1 DEF OkMeansComplete
<1> QED
  BY <1>2, Invariance, PTL

(* Unless the kernel reaps children itself, a pid that is killed is still  *)
(* the one of the git this call has started.                               *)
THEOREM KillIsSafe == Spec => []KillHitsOwnChild
<1>1. ASSUME IInv, host # "posix reaping", NEW c \in Call, pc[c] = "kill"
      PROVE  git[c] # "gone"
  BY <1>1 DEF IInv, CallInv, ChildIsOurs
<1>2. IInv => KillHitsOwnChild
  BY <1>1 DEF KillHitsOwnChild
<1> QED
  BY <1>2, Invariance, PTL

-------------------------------------------------------------------------------
(* The state of a call's contract, read off its git and its reader.        *)
StateFacts(c) ==
  /\ pc[c] = "returned" => CommandState(c) = "returned"
  /\ pc[c] # "returned" =>
       /\ git[c] = "none" => CommandState(c) = "called"
       /\ git[c] = "running" => CommandState(c) = "running"
       /\ git[c] \in {"zombie", "gone"} =>
            CommandState(c) = IF reader[c] = "eof" THEN "collected" ELSE "ended"

LEMMA CommandStates == IInv => \A c \in Call : StateFacts(c)
<1> SUFFICES ASSUME IInv, NEW c \in Call PROVE StateFacts(c)
  OBVIOUS
<1>0. pc[c] \in {"called", "pipe", "configure", "fork", "forked", "poll", "check", "clock", "kill",
                "reap", "join", "returned"}
  BY DEF IInv, TypeOK
<1>1. CallInv(c)
  BY DEF IInv
<1>2. git[c] \in {"none", "running", "zombie", "gone"}
  BY DEF IInv, TypeOK
<1>3. CASE pc[c] = "returned"
  <2>1. git[c] # "running"
    BY <1>1, <1>3 DEF CallInv, ProcessKnows
  <2> QED
    BY <1>3, <2>1 DEF StateFacts, CommandState
<1>4. CASE pc[c] # "returned" /\ git[c] = "none"
  <2>1. pc[c] \in {"called", "pipe", "configure", "fork"}
    BY <1>0, <1>1, <1>4 DEF CallInv, CallerKnows
  <2>2. reader[c] = "none" /\ exitStatus[c] = "none"
    BY <1>1, <2>1 DEF CallInv, CallerKnows, Quiet
  <2> QED
    BY <1>4, <2>2 DEF StateFacts, CommandState
<1>5. CASE pc[c] # "returned" /\ git[c] = "running"
  <2>1. reader[c] # "eof" /\ exitStatus[c] = "none"
    BY <1>1, <1>5 DEF CallInv, ProcessKnows, StreamKnows, WriteEndHeld, Alive
  <2> QED
    BY <1>5, <2>1 DEF StateFacts, CommandState
<1>6. CASE pc[c] # "returned" /\ git[c] \in {"zombie", "gone"}
  <2>1. exitStatus[c] # "none"
    BY <1>1, <1>6 DEF CallInv, ProcessKnows
  <2> QED
    BY <1>6, <2>1 DEF StateFacts, CommandState
<1> QED
  BY <1>2, <1>3, <1>4, <1>5, <1>6

LEMMA CommandStatesAfter == IInv' => \A c \in Call : StateFacts(c)'
<1>1. IInv' => (\A c \in Call : StateFacts(c))'
  BY CommandStates, PTL
<1> QED
  BY <1>1

(* Of what a step does to a call, its contract sees only this much.        *)
LEMMA Unseen ==
  ASSUME IInv, IInv', NEW c \in Call,
         cancelled' = cancelled,
         exitStatus'[c] = exitStatus[c], expired'[c] = expired[c], result'[c] = result[c],
         git'[c] = git[c] \/ {git[c], git'[c]} \subseteq {"zombie", "gone"},
         reader'[c] = "eof" <=> reader[c] = "eof",
         pc'[c] = "returned" <=> pc[c] = "returned"
  PROVE  Command(c)!CommandStep
<1>1. StateFacts(c) /\ StateFacts(c)'
  BY CommandStates, CommandStatesAfter
<1>2. git[c] \in {"none", "running", "zombie", "gone"}
  BY DEF IInv, TypeOK
<1>3. CommandState(c)' = CommandState(c)
  BY <1>1, <1>2 DEF StateFacts
<1> QED
  BY <1>3 DEF Command!CommandStep, Command!commandVars

LEMMA Refused ==
  ASSUME IInv, IInv', NEW c \in Call,
         pc[c] # "returned", git[c] = "none", pc'[c] = "returned",
         UNCHANGED <<cancelled, exitStatus, expired>>,
         result'[c] \in {"start"} \cup IF cancelled THEN {"interrupted"} ELSE {}
  PROVE  Command(c)!CommandStep
<1>1. CommandState(c) = "called" /\ CommandState(c)' = "returned"
  BY CommandStates, CommandStatesAfter DEF StateFacts
<1>2. Command(c)!Refuse
  BY <1>1 DEF Command!Refuse
<1> QED
  BY <1>2 DEF Command!CommandStep, Command!CommandNext

(* git has ended, by itself or because it was killed.                      *)
LEMMA Ended ==
  ASSUME IInv, IInv', NEW c \in Call,
         pc[c] # "returned", pc'[c] # "returned",
         git[c] = "running", git'[c] \in {"zombie", "gone"},
         UNCHANGED <<cancelled, expired, result, reader>>,
         exitStatus'[c] \in {"ok", "failed", "killed"}
  PROVE  Command(c)!CommandStep
<1>1. CommandState(c) = "running"
  BY CommandStates DEF StateFacts
<1>2. reader[c] # "eof"
  BY DEF IInv, CallInv, ProcessKnows, StreamKnows, WriteEndHeld, Alive
<1>3. CommandState(c)' = "ended"
  BY <1>2, CommandStatesAfter DEF StateFacts
<1>4. Command(c)!End
  BY <1>1, <1>3 DEF Command!End
<1> QED
  BY <1>4 DEF Command!CommandStep, Command!CommandNext

(* What one call does is nothing another one sees: what it may change of   *)
(* the other's is only who holds the other's pipe.                         *)
LEMMA Elsewhere ==
  ASSUME IInv, IInv', NEW c \in Call, Caller(c) \/ Read(c) \/ Expire(c) \/ Git(c),
         NEW d \in Call \ {c}
  PROVE  Command(d)!CommandStep
<1> DEFINE same == /\ cancelled' = cancelled /\ pc'[d] = pc[d] /\ git'[d] = git[d]
                   /\ exitStatus'[d] = exitStatus[d] /\ expired'[d] = expired[d]
                   /\ reader'[d] = reader[d] /\ result'[d] = result[d]
<1> USE DEF IInv, TypeOK, environment, descriptors, process, stream, verdict, Goto, Return, Reap
<1>1. ASSUME Enter(c) PROVE same
  BY <1>1 DEF Enter
<1>2. ASSUME CreatePipe(c) PROVE same
  BY <1>2 DEF CreatePipe
<1>3. ASSUME ConfigurePipe(c) PROVE same
  BY <1>3 DEF ConfigurePipe
<1>4. ASSUME Fork(c) PROVE same
  BY <1>4 DEF Fork
<1>5. ASSUME StartReader(c) PROVE same
  BY <1>5 DEF StartReader
<1>6. ASSUME Poll(c) PROVE same
  BY <1>6 DEF Poll
<1>7. ASSUME WaitFails(c) PROVE same
  BY <1>7 DEF WaitFails
<1>8. ASSUME TestCancelled(c) PROVE same
  BY <1>8 DEF TestCancelled
<1>9. ASSUME TestDeadline(c) PROVE same
  BY <1>9 DEF TestDeadline
<1>10. ASSUME Kill(c) PROVE same
  BY <1>10 DEF Kill
<1>11. ASSUME WaitKilled(c) PROVE same
  BY <1>11 DEF WaitKilled
<1>12. ASSUME Join(c) PROVE same
  BY <1>12 DEF Join
<1>13. ASSUME Drain(c) PROVE same
  BY <1>13 DEF Drain
<1>14. ASSUME EndOfFile(c) PROVE same
  BY <1>14 DEF EndOfFile
<1>15. ASSUME Expire(c) PROVE same
  BY <1>15 DEF Expire
<1>16. ASSUME Write(c) PROVE same
  BY <1>16 DEF Write
<1>17. ASSUME StartHelper(c) PROVE same
  BY <1>17 DEF StartHelper
<1>18. ASSUME GitExit(c) PROVE same
  BY <1>18 DEF GitExit
<1>19. ASSUME HelperExit(c) PROVE same
  BY <1>19 DEF HelperExit
<1> HIDE DEF IInv
<1>20. same
  BY <1>1, <1>2, <1>3, <1>4, <1>5, <1>6, <1>7, <1>8, <1>9, <1>10, <1>11, <1>12, <1>13, <1>14,
     <1>15, <1>16, <1>17, <1>18, <1>19
  DEF Caller, Read, Git
<1> QED
  BY <1>20, Unseen

(* What a call does itself is a step of its contract, or none.             *)
LEMMA Own ==
  ASSUME IInv, IInv', NEW c \in Call, Caller(c) \/ Read(c) \/ Expire(c) \/ Git(c)
  PROVE  Command(c)!CommandStep
<1>0. CallInv(c) /\ TypeOK
  BY DEF IInv
<1> USE <1>0 DEF CallInv, TypeOK, environment, descriptors, process, stream, verdict, Goto, Return
<1>1. ASSUME Enter(c) PROVE Command(c)!CommandStep
  BY <1>1, Unseen, Refused DEF Enter, CallerKnows, Quiet
<1>2. ASSUME CreatePipe(c) PROVE Command(c)!CommandStep
  BY <1>2, Unseen, Refused DEF CreatePipe, CallerKnows, Quiet
<1>3. ASSUME ConfigurePipe(c) PROVE Command(c)!CommandStep
  BY <1>3, Unseen, Refused DEF ConfigurePipe, CallerKnows, Quiet
<1>4. ASSUME Fork(c) PROVE Command(c)!CommandStep
  <2>1. pc[c] = "fork" /\ git[c] = "none" /\ UNCHANGED <<cancelled, exitStatus, expired>>
    BY <1>4 DEF Fork, CallerKnows, Quiet
  <2>2. CASE pc' = [pc EXCEPT ![c] = "returned"] /\ result' = [result EXCEPT ![c] = "start"]
    BY <2>1, <2>2, Refused
  <2>3. CASE /\ pc' = [pc EXCEPT ![c] = "forked"] /\ git' = [git EXCEPT ![c] = "running"]
             /\ result' = result
    <3>1. CommandState(c) = "called" /\ CommandState(c)' = "running"
      BY <2>1, <2>3, CommandStates, CommandStatesAfter DEF StateFacts
    <3>2. Command(c)!Launch
      BY <2>1, <2>3, <3>1 DEF Command!Launch
    <3> QED
      BY <3>2 DEF Command!CommandStep, Command!CommandNext
  <2> QED
    BY <1>4, <2>2, <2>3 DEF Fork
<1>5. ASSUME StartReader(c) PROVE Command(c)!CommandStep
  <2>1. pc'[c] # "returned"
    BY <1>5 DEF StartReader, FirstTest
  <2> QED
    BY <1>5, <2>1, Unseen DEF StartReader, CallerKnows
<1>6. ASSUME Poll(c) PROVE Command(c)!CommandStep
  <2>1. git[c] # "none" /\ AfterWait(c) # "returned"
    BY <1>6 DEF Poll, AfterWait, CallerKnows
  <2> QED
    BY <1>6, <2>1, Unseen DEF Poll, Reap
<1>7. ASSUME WaitFails(c) \/ TestCancelled(c) \/ TestDeadline(c) PROVE Command(c)!CommandStep
  BY <1>7, Unseen DEF WaitFails, TestCancelled, TestDeadline
<1>8. ASSUME Kill(c) PROVE Command(c)!CommandStep
  <2>1. EndedAs \in {"zombie", "gone"}
    BY EndedFacts
  <2>2. CASE git[c] = "running"
    BY <1>8, <2>1, <2>2, Ended DEF Kill
  <2>3. CASE git[c] # "running"
    BY <1>8, <2>3, Unseen DEF Kill
  <2> QED
    BY <2>2, <2>3
<1>9. ASSUME WaitKilled(c) PROVE Command(c)!CommandStep
  BY <1>9, Unseen DEF WaitKilled, Reap, CallerKnows
<1>10. ASSUME Join(c) PROVE Command(c)!CommandStep
  <2>1. /\ pc[c] = "join" /\ git[c] = "gone" /\ reader[c] = "eof"
        /\ pc'[c] = "returned" /\ result'[c] = ResultOf(c)
        /\ UNCHANGED <<cancelled, exitStatus, expired>>
    BY <1>10 DEF Join, Joinable, CallerKnows
  <2>2. CommandState(c) = "collected" /\ CommandState(c)' = "returned"
    BY <2>1, CommandStates, CommandStatesAfter DEF StateFacts
  <2>3. ResultOf(c) \in {a \in {"ok", "exit", "interrupted", "timeout", "wait"} :
                           Command(c)!Honest(a)}
    BY <2>1 DEF ResultOf, VerdictKnows, ProcessKnows, Command!Honest
  <2>4. Command(c)!Answer
    BY <2>1, <2>2, <2>3 DEF Command!Answer
  <2> QED
    BY <2>4 DEF Command!CommandStep, Command!CommandNext
<1>11. ASSUME Drain(c) \/ Write(c) \/ StartHelper(c) \/ HelperExit(c) PROVE Command(c)!CommandStep
  BY <1>11, Unseen DEF Drain, Write, StartHelper, HelperExit
<1>12. ASSUME EndOfFile(c) PROVE Command(c)!CommandStep
  <2>1. /\ git[c] \in {"zombie", "gone"} /\ pc[c] # "returned" /\ reader[c] # "eof"
        /\ reader'[c] = "eof" /\ UNCHANGED <<pc, git, cancelled, exitStatus, expired, result>>
    BY <1>12 DEF EndOfFile, WriteEndHeld, Alive, ProcessKnows, CallerKnows, Quiet
  <2>2. CommandState(c) = "ended" /\ CommandState(c)' = "collected"
    BY <2>1, CommandStates, CommandStatesAfter DEF StateFacts
  <2>3. Command(c)!Collect
    BY <2>1, <2>2 DEF Command!Collect
  <2> QED
    BY <2>3 DEF Command!CommandStep, Command!CommandNext
<1>13. ASSUME Expire(c) PROVE Command(c)!CommandStep
  <2>1. /\ git[c] # "none" /\ pc[c] # "returned" /\ ~expired[c] /\ expired'[c]
        /\ UNCHANGED <<pc, git, reader, cancelled, exitStatus, result>>
    BY <1>13 DEF Expire, CallerKnows
  <2>2. CommandState(c)' = CommandState(c) /\ CommandState(c) \in {"running", "ended", "collected"}
    BY <2>1, CommandStates, CommandStatesAfter DEF StateFacts
  <2>3. Command(c)!Expire
    BY <2>1, <2>2 DEF Command!Expire
  <2> QED
    BY <2>3 DEF Command!CommandStep, Command!CommandNext
<1>14. ASSUME GitExit(c) PROVE Command(c)!CommandStep
  <2>1. PICK status \in {"ok", "failed"} : exitStatus' = [exitStatus EXCEPT ![c] = status]
    BY <1>14 DEF GitExit
  <2>2. EndedAs \in {"zombie", "gone"}
    BY EndedFacts
  <2>3. pc[c] # "returned"
    BY <1>14 DEF GitExit, ProcessKnows
  <2> QED
    BY <1>14, <2>1, <2>2, <2>3, Ended DEF GitExit
<1> QED
  BY <1>1, <1>2, <1>3, <1>4, <1>5, <1>6, <1>7, <1>8, <1>9, <1>10, <1>11, <1>12, <1>13, <1>14
  DEF Caller, Read, Git

LEMMA StepRefines ==
  IInv /\ IInv' /\ [Next]_vars => \A c \in Call : Command(c)!CommandStep
<1> SUFFICES ASSUME IInv, IInv', [Next]_vars, NEW d \in Call PROVE Command(d)!CommandStep
  OBVIOUS
<1>1. CASE Interrupt
  <2>1. CommandState(d)' = CommandState(d)
    BY <1>1 DEF Interrupt, CommandState, process, stream
  <2>2. Command(d)!Interrupt
    BY <1>1, <2>1 DEF Interrupt, Command!Interrupt, process, verdict
  <2> QED
    BY <2>2 DEF Command!CommandStep, Command!CommandNext
<1>2. ASSUME NEW c \in Call, Caller(c) \/ Read(c) \/ Expire(c) \/ Git(c)
      PROVE  Command(d)!CommandStep
  <2>1. CASE d = c
    BY <1>2, <2>1, Own
  <2>2. CASE d # c
    BY <1>2, <2>2, Elsewhere
  <2> QED
    BY <2>1, <2>2
<1>3. CASE UNCHANGED vars
  BY <1>3, Unseen DEF vars, environment, process, stream, verdict
<1> QED
  BY <1>1, <1>2, <1>3 DEF Next

LEMMA InitRefines == Init => \A c \in Call : Command(c)!CommandInit
<1> SUFFICES ASSUME Init, NEW c \in Call PROVE Command(c)!CommandInit
  OBVIOUS
<1>1. CommandState(c) = "called"
  BY DEF Init, CommandState
<1> QED
  BY <1>1 DEF Init, Command!CommandInit

(* Each call implements GitCommand, whatever the others do at the time:    *)
(* it answers once, after its git has ended and the pipe has been read     *)
(* out, and says what happened.                                            *)
THEOREM Refinement == Spec => ImplementsCommand
<1>1. Spec => [][\A c \in Call : Command(c)!CommandStep]_vars
  BY Invariance, StepRefines, PTL DEF Spec
<1>2. Spec => \A c \in Call : Command(c)!CommandInit
  BY InitRefines DEF Spec
<1> QED
  BY <1>1, <1>2, PTL DEF ImplementsCommand

-------------------------------------------------------------------------------
(* The command line of Windows. What the runtime has of an argument it is  *)
(* in the middle of, and what it has between two.                          *)
Text == Seq(Character)

In(arguments, text, mode, backslashes) ==
  [arguments |-> arguments, text |-> text, open |-> TRUE, mode |-> mode,
   backslashes |-> backslashes]

Between(arguments) ==
  [arguments |-> arguments, text |-> <<>>, open |-> FALSE, mode |-> "plain", backslashes |-> 0]

(* From s, the runtime gets through a text to t.                           *)
Reads(s, text, t) ==
  \E run : /\ run = [i \in 0 .. Len(text) |-> IF i = 0 THEN s ELSE Scan(run[i - 1], text[i])]
           /\ run[Len(text)] = t

LEMMA ReadsNothing == ASSUME NEW s PROVE Reads(s, <<>>, s)
<1> DEFINE run == [i \in 0 .. Len(<<>>) |-> s]
<1>1. Len(<<>>) = 0 /\ \A i \in 0 .. 0 : i = 0
  OBVIOUS
<1>2. run = [i \in 0 .. Len(<<>>) |-> IF i = 0 THEN s ELSE Scan(run[i - 1], <<>>[i])]
  BY <1>1
<1>3. run[Len(<<>>)] = s
  BY <1>1
<1> QED
  BY <1>2, <1>3 DEF Reads

LEMMA ReadsOne == ASSUME NEW s, NEW c PROVE Reads(s, <<c>>, Scan(s, c))
<1> DEFINE run == [i \in 0 .. Len(<<c>>) |-> IF i = 0 THEN s ELSE Scan(s, c)]
<1>1. Len(<<c>>) = 1 /\ <<c>>[1] = c /\ \A i \in 0 .. 1 : i = 0 \/ i = 1
  OBVIOUS
<1>2. run[0] = s /\ run[1] = Scan(s, c)
  BY <1>1
<1>3. run = [i \in 0 .. Len(<<c>>) |-> IF i = 0 THEN s ELSE Scan(run[i - 1], <<c>>[i])]
  <2>1. \A i \in 0 .. Len(<<c>>) :
          (IF i = 0 THEN s ELSE Scan(run[i - 1], <<c>>[i])) = IF i = 0 THEN s ELSE Scan(s, c)
    BY <1>1, <1>2
  <2> QED
    BY <2>1
<1>4. run[Len(<<c>>)] = Scan(s, c)
  BY <1>1, <1>2
<1> QED
  BY <1>3, <1>4 DEF Reads

LEMMA ReadsOn ==
  ASSUME NEW x \in Text, NEW y \in Text, NEW s, NEW t, NEW u, Reads(s, x, t), Reads(t, y, u)
  PROVE  Reads(s, x \o y, u)
<1>1. PICK r1 : /\ r1 = [i \in 0 .. Len(x) |-> IF i = 0 THEN s ELSE Scan(r1[i - 1], x[i])]
                /\ r1[Len(x)] = t
  BY DEF Reads
<1>2. PICK r2 : /\ r2 = [i \in 0 .. Len(y) |-> IF i = 0 THEN t ELSE Scan(r2[i - 1], y[i])]
                /\ r2[Len(y)] = u
  BY DEF Reads
<1> DEFINE m == Len(x)
           n == Len(y)
           z == x \o y
           run == [i \in 0 .. m + n |-> IF i <= m THEN r1[i] ELSE r2[i - m]]
<1>3. /\ m \in Nat /\ n \in Nat /\ Len(z) = m + n
      /\ \A i \in 1 .. m : z[i] = x[i]
      /\ \A i \in m + 1 .. m + n : z[i] = y[i - m]
  BY DEF Text
<1>4. /\ r1[0] = s /\ r1[m] = t /\ \A i \in 1 .. m : r1[i] = Scan(r1[i - 1], x[i])
  <2>1. \A i \in 0 .. m : r1[i] = IF i = 0 THEN s ELSE Scan(r1[i - 1], x[i])
    BY <1>1
  <2> QED
    BY <1>1, <1>3, <2>1
<1>5. /\ r2[0] = t /\ r2[n] = u /\ \A i \in 1 .. n : r2[i] = Scan(r2[i - 1], y[i])
  <2>1. \A i \in 0 .. n : r2[i] = IF i = 0 THEN t ELSE Scan(r2[i - 1], y[i])
    BY <1>2
  <2> QED
    BY <1>2, <1>3, <2>1
<1> HIDE DEF m, n, z
<1>6. ASSUME NEW i \in 0 .. m + n
      PROVE  run[i] = IF i = 0 THEN s ELSE Scan(run[i - 1], z[i])
  <2>1. CASE i = 0
    BY <1>3, <1>4, <2>1
  <2>2. CASE i \in 1 .. m
    <3>1. run[i] = r1[i] /\ run[i - 1] = r1[i - 1]
      BY <1>3, <2>2
    <3> QED
      BY <1>3, <1>4, <2>2, <3>1
  <2>3. CASE i = m + 1
    <3>1. run[i] = r2[1] /\ run[i - 1] = r1[m] /\ 1 \in 1 .. n /\ z[i] = y[1]
      BY <1>3, <2>3
    <3>2. r2[1] = Scan(r2[0], y[1])
      BY <1>5, <3>1
    <3> QED
      BY <1>3, <1>4, <1>5, <2>3, <3>1, <3>2
  <2>4. CASE i \in m + 2 .. m + n
    <3>1. i - m \in 1 .. n /\ (i - 1) - m = (i - m) - 1 /\ ~(i <= m) /\ ~(i - 1 <= m)
          /\ i - 1 \in 0 .. m + n /\ i # 0 /\ i \in m + 1 .. m + n
      BY <1>3, <2>4
    <3>2. run[i] = r2[i - m] /\ run[i - 1] = r2[(i - m) - 1]
      BY <3>1
    <3>3. z[i] = y[i - m]
      BY <1>3, <3>1
    <3> QED
      BY <1>5, <3>1, <3>2, <3>3
  <2> QED
    BY <1>3, <2>1, <2>2, <2>3, <2>4
<1>7. run = [i \in 0 .. m + n |-> IF i = 0 THEN s ELSE Scan(run[i - 1], z[i])]
  BY <1>6
<1>8. run[m + n] = u
  <2>1. CASE n = 0
    BY <1>3, <1>4, <1>5, <2>1
  <2>2. CASE n # 0
    BY <1>3, <1>5, <2>2
  <2> QED
    BY <2>1, <2>2
<1> HIDE DEF run
<1>9. Reads(s, z, u)
  BY <1>3, <1>7, <1>8 DEF Reads
<1> QED
  BY <1>9 DEF z

LEMMA Counting ==
  ASSUME NEW S, 0 \in S, \A n \in Nat : n \in S => n + 1 \in S
  PROVE  \A n \in Nat : n \in S
<1> DEFINE less == {pair \in Nat \X Nat : pair[1] < pair[2]}
           T == {n \in Nat : n \notin S}
<1> SUFFICES ASSUME T # {} PROVE FALSE
  OBVIOUS
<1>1. IsWellFoundedOn(less, Nat)
  BY NatLessThanWellFounded DEF OpToRel
<1> HIDE DEF less
<1>2. PICK m \in T : \A k \in T : ~(<<k, m>> \in less)
  <2>1. T \in SUBSET Nat
    OBVIOUS
  <2> HIDE DEF T
  <2> QED
    BY <1>1, <2>1, WFMin
<1>3. m \in Nat /\ m \notin S /\ m # 0
  OBVIOUS
<1>4. m - 1 \in Nat /\ m - 1 \notin T
  <2>1. m - 1 \in Nat /\ <<m - 1, m>> \in less
    BY <1>3 DEF less
  <2> HIDE DEF T
  <2> QED
    BY <1>2, <2>1
<1>5. m - 1 \in S
  BY <1>4
<1>6. (m - 1) + 1 \in S
  BY <1>4, <1>5
<1>7. (m - 1) + 1 = m
  BY <1>3
<1> QED
  BY <1>3, <1>6, <1>7

LEMMA BackslashesText ==
  ASSUME NEW n \in Nat
  PROVE  /\ Backslashes(n) \in Text /\ Len(Backslashes(n)) = n
         /\ \A i \in 1 .. n : Backslashes(n)[i] = "backslash"
BY DEF Backslashes, Text, Character

LEMMA NoBackslashes == Backslashes(0) = <<>>
<1>1. Backslashes(0) \in Text /\ Len(Backslashes(0)) = 0
  BY BackslashesText
<1> QED
  BY <1>1 DEF Text

LEMMA LastOf ==
  ASSUME NEW w \in Text, NEW c
  PROVE  (w \o <<c>>)[Len(w) + 1] = c
BY DEF Text

LEMMA OneBackslashMore ==
  ASSUME NEW x \in Text, NEW n \in Nat
  PROVE  x \o Backslashes(n + 1) = (x \o Backslashes(n)) \o <<"backslash">>
<1> DEFINE y == Backslashes(n)
           z == Backslashes(n + 1)
           l == x \o z
           r == (x \o y) \o <<"backslash">>
<1>1. /\ y \in Text /\ Len(y) = n /\ \A i \in 1 .. n : y[i] = "backslash"
      /\ z \in Text /\ Len(z) = n + 1 /\ \A i \in 1 .. n + 1 : z[i] = "backslash"
      /\ "backslash" \in Character
  BY BackslashesText DEF Character
<1> HIDE DEF y, z
<1>2. l \in Text /\ r \in Text
  BY <1>1 DEF Text
<1>3. Len(l) = Len(x) + n + 1 /\ Len(r) = Len(x) + n + 1
  BY <1>1 DEF Text
<1>4. ASSUME NEW i \in 1 .. Len(x) + n + 1 PROVE l[i] = r[i]
  <2>1. CASE i \in 1 .. Len(x)
    BY <1>1, <2>1 DEF Text
  <2>2. CASE i \in Len(x) + 1 .. Len(x) + n
    BY <1>1, <2>2 DEF Text
  <2>3. CASE i = Len(x) + n + 1
    <3>1. Len(x) \in Nat /\ x \o y \in Text /\ Len(x \o y) = Len(x) + n
      BY <1>1 DEF Text
    <3>2. (Len(x) + n) + 1 \in Len(x) + 1 .. Len(x) + Len(z)
          /\ ((Len(x) + n) + 1) - Len(x) = n + 1 /\ n + 1 \in 1 .. n + 1
      BY <1>1, <3>1
    <3>3. l[(Len(x) + n) + 1] = z[n + 1]
      BY <1>1, <3>1, <3>2 DEF Text
    <3>4. r[(Len(x) + n) + 1] = "backslash"
      BY <3>1, LastOf
    <3> QED
      BY <1>1, <2>3, <3>1, <3>2, <3>3, <3>4
  <2>4. Len(x) \in Nat
    BY DEF Text
  <2>5. i \in 1 .. Len(x) \/ i \in Len(x) + 1 .. Len(x) + n \/ i = Len(x) + n + 1
    BY <2>4
  <2> QED
    BY <2>1, <2>2, <2>3, <2>5
<1>5. l = r
  <2> HIDE DEF l, r
  <2>1. Len(x) + n + 1 \in Nat
    BY DEF Text
  <2> QED
    BY <1>2, <1>3, <1>4, <2>1 DEF Text
<1> QED
  BY <1>5 DEF l, r, y, z

LEMMA Prefix ==
  ASSUME NEW x \in Text, NEW k \in Nat, k < Len(x)
  PROVE  /\ SubSeq(x, 1, 0) = <<>> /\ SubSeq(x, 1, Len(x)) = x
         /\ SubSeq(x, 1, k) \in Text /\ x[k + 1] \in Character
         /\ SubSeq(x, 1, k + 1) = SubSeq(x, 1, k) \o <<x[k + 1]>>
         /\ Len(SubSeq(x, 1, k)) = k
BY DEF Text

LEMMA Concatenation ==
  ASSUME NEW x \in Text, NEW y \in Text, NEW z \in Text
  PROVE  /\ x \o y \in Text /\ (x \o y) \o z = x \o (y \o z)
         /\ x \o <<>> = x /\ <<>> \o x = x /\ Len(x \o y) = Len(x) + Len(y)
BY DEF Text

LEMMA Associative ==
  ASSUME NEW x \in Text, NEW y \in Text, NEW z \in Text
  PROVE  (x \o y) \o z = x \o (y \o z)
BY DEF Text

LEMMA NothingAfter ==
  ASSUME NEW x \in Text
  PROVE  x \o <<>> = x /\ x \o Backslashes(0) = x
BY NoBackslashes DEF Text

LEMMA OneCharacter ==
  ASSUME NEW c \in Character, NEW x \in Text
  PROVE  <<c>> \in Text /\ <<>> \in Text /\ Append(x, c) = x \o <<c>>
BY DEF Text

(* How the runtime goes on from an argument.                               *)
LEMMA ScanLetter ==
  ASSUME NEW a, a # <<>>, NEW x \in Text, NEW m \in {"plain", "quoted"}, NEW b \in Nat
  PROVE  Scan(In(a, x, m, b), "letter") = In(a, (x \o Backslashes(b)) \o <<"letter">>, m, 0)
BY DEF Scan, In, Program, Literal

LEMMA ScanBackslash ==
  ASSUME NEW a, a # <<>>, NEW x \in Text, NEW m \in {"plain", "quoted"}, NEW b \in Nat
  PROVE  Scan(In(a, x, m, b), "backslash") = In(a, x, m, b + 1)
BY DEF Scan, In, Program

LEMMA ScanBlank ==
  ASSUME NEW a, a # <<>>, NEW x \in Text, NEW b \in Nat
  PROVE  Scan(In(a, x, "quoted", b), "blank") =
           In(a, (x \o Backslashes(b)) \o <<"blank">>, "quoted", 0)
BY DEF Scan, In, Program, Literal

LEMMA ScanEnd ==
  ASSUME NEW a, NEW x \in Text, NEW m \in {"plain", "closing"}, NEW b \in Nat
  PROVE  Scan(In(a, x, m, b), "blank") = Between(Append(a, x \o Backslashes(b)))
BY DEF Scan, In, Between, Blank, EndArgument

LEMMA ScanQuote ==
  ASSUME NEW a, a # <<>>, NEW x \in Text, NEW b \in Nat
  PROVE  Scan(In(a, x, "quoted", 2 * b + 1), "quote") =
           In(a, (x \o Backslashes(b)) \o <<"quote">>, "quoted", 0)
<1>1. Scan(In(a, x, "quoted", 2 * b + 1), "quote") = Delimiter(In(a, x, "quoted", 2 * b + 1))
  BY DEF Scan, In
<1>2. (2 * b + 1) % 2 = 1 /\ (2 * b + 1) \div 2 = b
  OBVIOUS
<1> DEFINE n == 2 * b + 1
<1> HIDE DEF n
<1>3. n % 2 = 1 /\ n \div 2 = b
  BY <1>2 DEF n
<1>4. Delimiter(In(a, x, "quoted", n)) =
        In(a, Append(x \o Backslashes(b), "quote"), "quoted", 0)
  BY <1>3 DEF Delimiter, In, Program
<1>5. Append(x \o Backslashes(b), "quote") = (x \o Backslashes(b)) \o <<"quote">>
  <2>1. x \o Backslashes(b) \in Text /\ "quote" \in Character
    BY BackslashesText, Concatenation DEF Character
  <2> QED
    BY <2>1, OneCharacter
<1> QED
  BY <1>1, <1>4, <1>5 DEF n

LEMMA ScanClose ==
  ASSUME NEW a, a # <<>>, NEW x \in Text, NEW b \in Nat
  PROVE  Scan(In(a, x, "quoted", 2 * b), "quote") = In(a, x \o Backslashes(b), "closing", 0)
<1>1. Scan(In(a, x, "quoted", 2 * b), "quote") = Delimiter(In(a, x, "quoted", 2 * b))
  BY DEF Scan, In
<1>2. ~((2 * b) % 2 = 1) /\ (2 * b) \div 2 = b
  OBVIOUS
<1> DEFINE n == 2 * b
<1> HIDE DEF n
<1>3. ~(n % 2 = 1) /\ n \div 2 = b
  BY <1>2 DEF n
<1>4. Delimiter(In(a, x, "quoted", n)) = In(a, x \o Backslashes(b), "closing", 0)
  BY <1>3 DEF Delimiter, In
<1> QED
  BY <1>1, <1>4 DEF n

LEMMA ScanBetween ==
  ASSUME NEW a, a # <<>>
  PROVE  /\ Scan(Between(a), "quote") = In(a, <<>>, "quoted", 0)
         /\ Scan(Between(a), "letter") = In(a, <<"letter">>, "plain", 0)
         /\ Scan(Between(a), "backslash") = In(a, <<>>, "plain", 1)
<1>1. 0 \div 2 = 0 /\ 0 % 2 = 0 /\ <<>> \in Text
  BY DEF Text
<1>2. <<>> \o <<>> = <<>> /\ <<>> \o <<"letter">> = <<"letter">>
  OBVIOUS
<1>3. Scan(Between(a), "quote") = In(a, <<>>, "quoted", 0)
  <2>1. Scan(Between(a), "quote") = Delimiter(Between(a))
    BY DEF Scan, Between
  <2>2. Delimiter(Between(a)) = In(a, <<>>, "quoted", 0)
    <3>1. ~(0 % 2 = 1) /\ Backslashes(0 \div 2) = <<>>
      BY <1>1, NoBackslashes
    <3> QED
      BY <1>2, <3>1 DEF Between, In, Delimiter, Program
  <2> QED
    BY <2>1, <2>2
<1>4. Scan(Between(a), "letter") = In(a, <<"letter">>, "plain", 0)
  BY <1>1, <1>2, NoBackslashes DEF Scan, Between, In, Literal, Program
<1>5. Scan(Between(a), "backslash") = In(a, <<>>, "plain", 1)
  <2>1. 0 + 1 = 1
    OBVIOUS
  <2> QED
    BY <1>1, <2>1 DEF Scan, Between, In, Program
<1> QED
  BY <1>3, <1>4, <1>5

(* The program itself, in which a backslash means nothing.                 *)
LEMMA ScanProgram ==
  ASSUME NEW x \in Text
  PROVE  /\ \A c \in {"letter", "blank", "backslash"} :
              Scan(In(<<>>, x, "quoted", 0), c) = In(<<>>, x \o <<c>>, "quoted", 0)
         /\ \A c \in {"letter", "backslash"} :
              /\ Scan(In(<<>>, x, "plain", 0), c) = In(<<>>, x \o <<c>>, "plain", 0)
              /\ Scan(Blank, c) = In(<<>>, <<c>>, "plain", 0)
         /\ Scan(Blank, "quote") = In(<<>>, <<>>, "quoted", 0)
         /\ Scan(In(<<>>, x, "quoted", 0), "quote") = In(<<>>, x, "closing", 0)
         /\ \A m \in {"plain", "closing"} : Scan(In(<<>>, x, m, 0), "blank") = Between(<<x>>)
<1>1. /\ 0 \div 2 = 0 /\ 0 % 2 = 0 /\ x \o <<>> = x /\ <<>> \o <<>> = <<>>
      /\ Backslashes(0) = <<>> /\ Append(<<>>, x) = <<x>>
  BY NoBackslashes DEF Text
<1>2. \A c \in {"letter", "backslash"} : <<>> \o <<c>> = <<c>>
  OBVIOUS
<1>3. \A c \in {"letter", "blank", "backslash"} :
              Scan(In(<<>>, x, "quoted", 0), c) = In(<<>>, x \o <<c>>, "quoted", 0)
  BY <1>1 DEF Scan, In, Program, Literal
<1>4. \A c \in {"letter", "backslash"} :
              Scan(In(<<>>, x, "plain", 0), c) = In(<<>>, x \o <<c>>, "plain", 0)
  BY <1>1 DEF Scan, In, Program, Literal
<1>5. \A c \in {"letter", "backslash"} : Scan(Blank, c) = In(<<>>, <<c>>, "plain", 0)
  BY <1>1, <1>2 DEF Scan, In, Program, Literal, Blank
<1>6. Scan(Blank, "quote") = In(<<>>, <<>>, "quoted", 0)
  BY <1>1 DEF Scan, In, Program, Delimiter, Blank
<1>7. Scan(In(<<>>, x, "quoted", 0), "quote") = In(<<>>, x, "closing", 0)
  BY <1>1 DEF Scan, In, Program, Delimiter
<1>8. \A m \in {"plain", "closing"} : Scan(In(<<>>, x, m, 0), "blank") = Between(<<x>>)
  BY <1>1 DEF Scan, In, Between, Blank, EndArgument
<1> QED
  BY <1>3, <1>4, <1>5, <1>6, <1>7, <1>8

LEMMA ReadsThen ==
  ASSUME NEW x \in Text, NEW c \in Character, NEW s, NEW t, NEW u, Reads(s, x, t), Scan(t, c) = u
  PROVE  Reads(s, x \o <<c>>, u)
<1>1. <<c>> \in Text
  BY OneCharacter
<1>2. Reads(t, <<c>>, u)
  BY ReadsOne
<1> QED
  BY <1>1, <1>2, ReadsOn

LEMMA ReadsBackslashes ==
  ASSUME NEW a, a # <<>>, NEW x \in Text, NEW m \in {"plain", "quoted"}, NEW n \in Nat
  PROVE  Reads(In(a, x, m, 0), Backslashes(n), In(a, x, m, n))
<1> DEFINE P(k) == Reads(In(a, x, m, 0), Backslashes(k), In(a, x, m, k))
           S == {k \in Nat : P(k)}
<1>1. 0 \in S
  BY NoBackslashes, ReadsNothing
<1>2. ASSUME NEW k \in Nat, P(k) PROVE P(k + 1)
  <2> DEFINE y == Backslashes(k)
             z == Backslashes(k + 1)
  <2>1. y \in Text /\ z \in Text /\ <<>> \in Text /\ "backslash" \in Character
    BY BackslashesText, OneCharacter DEF Character
  <2>2. z = y \o <<"backslash">>
    <3>1. <<>> \o z = (<<>> \o y) \o <<"backslash">>
      BY <2>1, OneBackslashMore
    <3> HIDE DEF y, z
    <3> QED
      BY <2>1, <3>1, Concatenation
  <2>3. Scan(In(a, x, m, k), "backslash") = In(a, x, m, k + 1)
    BY ScanBackslash
  <2> HIDE DEF y, z
  <2>4. Reads(In(a, x, m, 0), y, In(a, x, m, k))
    BY <1>2 DEF y
  <2>5. Reads(In(a, x, m, 0), z, In(a, x, m, k + 1))
    BY <2>1, <2>2, <2>3, <2>4, ReadsThen
  <2> QED
    BY <2>5 DEF z
<1> HIDE DEF P
<1>3. \A k \in Nat : k \in S => k + 1 \in S
  BY <1>2
<1> HIDE DEF S
<1>4. n \in S
  BY <1>1, <1>3, Counting
<1> QED
  BY <1>4 DEF S, P

(* The functions the two loops are computed by.                            *)
LEMMA TakingIs ==
  ASSUME NEW argument \in Text
  PROVE  /\ Taking(argument)[0] = [text |-> <<"quote">>, backslashes |-> 0]
         /\ \A i \in 1 .. Len(argument) :
              Taking(argument)[i] = Take(Taking(argument)[i - 1], argument[i])
<1> DEFINE start == [text |-> <<"quote">>, backslashes |-> 0]
           E(f, k) == f = [i \in 0 .. k |-> IF i = 0 THEN start ELSE Take(f[i - 1], argument[i])]
           S == {k \in Nat : \E f : E(f, k)}
<1>1. 0 \in S
  <2> DEFINE g == [i \in 0 .. 0 |-> start]
  <2>1. E(g, 0)
    <3>1. \A i \in 0 .. 0 : i = 0
      OBVIOUS
    <3> QED
      BY <3>1
  <2> QED
    BY <2>1
<1>2. ASSUME NEW k \in Nat, k \in S PROVE k + 1 \in S
  <2>1. PICK f : E(f, k)
    BY <1>2
  <2> DEFINE g == [i \in 0 .. k + 1 |-> IF i <= k THEN f[i] ELSE Take(f[k], argument[k + 1])]
  <2>2. ASSUME NEW i \in 0 .. k + 1
        PROVE  g[i] = IF i = 0 THEN start ELSE Take(g[i - 1], argument[i])
    <3>1. CASE i \in 0 .. k
      <4>1. g[i] = f[i] /\ (i # 0 => g[i - 1] = f[i - 1])
        BY <3>1
      <4>2. f[i] = IF i = 0 THEN start ELSE Take(f[i - 1], argument[i])
        BY <2>1, <3>1
      <4> HIDE DEF g, E
      <4> QED
        BY <4>1, <4>2
    <3>2. CASE i = k + 1
      <4>1. g[i] = Take(f[k], argument[k + 1]) /\ g[i - 1] = f[k] /\ i # 0
        BY <3>2
      <4> HIDE DEF g, E
      <4> QED
        BY <3>2, <4>1
    <3> QED
      BY <3>1, <3>2
  <2>3. E(g, k + 1)
    BY <2>2
  <2> HIDE DEF g, E
  <2> QED
    BY <2>3
<1>3. Len(argument) \in Nat
  BY DEF Text
<1>4. \E f : E(f, Len(argument))
  <2>1. Len(argument) \in S
    <3> HIDE DEF S
    <3> QED
      BY <1>1, <1>2, <1>3, Counting
  <2> QED
    BY <2>1
<1>5. Taking(argument) = CHOOSE f : E(f, Len(argument))
  BY DEF Taking
<1>6. E(Taking(argument), Len(argument))
  <2> HIDE DEF E
  <2> QED
    BY <1>4, <1>5
<1>7. \A i \in 0 .. Len(argument) :
        Taking(argument)[i] =
          IF i = 0 THEN start ELSE Take(Taking(argument)[i - 1], argument[i])
  BY <1>6
<1> HIDE DEF E
<1> QED
  BY <1>3, <1>7

LEMMA ScanningIs ==
  ASSUME NEW line \in Text, NEW t, Reads(Blank, line, t)
  PROVE  Scanning(line)[Len(line)] = t
<1> DEFINE L == Len(line)
           E(f) == f = [i \in 0 .. L |-> IF i = 0 THEN Blank ELSE Scan(f[i - 1], line[i])]
           f == Scanning(line)
<1>1. PICK run : E(run) /\ run[L] = t
  BY DEF Reads
<1>2. f = CHOOSE g : E(g)
  BY DEF Scanning
<1>3. E(f)
  <2> HIDE DEF E, f
  <2> QED
    BY <1>1, <1>2
<1> DEFINE S == {k \in Nat : k <= L => f[k] = run[k]}
<1>4. L \in Nat
  BY DEF Text
<1>5. \A i \in 0 .. L : /\ run[i] = IF i = 0 THEN Blank ELSE Scan(run[i - 1], line[i])
                        /\ f[i] = IF i = 0 THEN Blank ELSE Scan(f[i - 1], line[i])
  <2>1. \A g : E(g) => \A i \in 0 .. L : g[i] = IF i = 0 THEN Blank ELSE Scan(g[i - 1], line[i])
    OBVIOUS
  <2> HIDE DEF E, f, L
  <2> QED
    BY <1>1, <1>3, <2>1
<1> HIDE DEF E, f, L
<1>6. 0 \in S
  BY <1>4, <1>5
<1>7. ASSUME NEW k \in Nat, k \in S PROVE k + 1 \in S
  <2>1. SUFFICES ASSUME k + 1 <= L PROVE f[k + 1] = run[k + 1]
    OBVIOUS
  <2>2. f[k] = run[k] /\ k + 1 \in 0 .. L /\ k + 1 # 0 /\ (k + 1) - 1 = k
    BY <1>4, <1>7, <2>1
  <2> QED
    BY <1>5, <2>2
<1> HIDE DEF S
<1>8. L \in S
  BY <1>4, <1>6, <1>7, Counting
<1>9. f[L] = run[L]
  BY <1>4, <1>8 DEF S
<1> QED
  BY <1>1, <1>9 DEF f, L

(* A quoted argument: what has been written of it is read to all of it but *)
(* the backslashes held back.                                              *)
Quoted(a, s, y) ==
  \E w \in Text, b \in Nat, x \in Text :
    /\ s = [text |-> w, backslashes |-> b]
    /\ Reads(Between(a), w, In(a, x, "quoted", 0))
    /\ x \o Backslashes(b) = y

LEMMA QuotedStart ==
  ASSUME NEW a, a # <<>>
  PROVE  Quoted(a, [text |-> <<"quote">>, backslashes |-> 0], <<>>)
<1>1. /\ <<"quote">> \in Text /\ <<>> \in Text
      /\ <<>> \o Backslashes(0) = <<>>
  <2>1. "quote" \in Character /\ <<>> \o <<>> = <<>>
    BY DEF Character
  <2>2. <<"quote">> \in Text /\ <<>> \in Text
    BY <2>1 DEF Text
  <2> QED
    BY <2>1, <2>2, NoBackslashes
<1>2. Reads(Between(a), <<"quote">>, In(a, <<>>, "quoted", 0))
  <2>1. Scan(Between(a), "quote") = In(a, <<>>, "quoted", 0)
    BY ScanBetween
  <2> QED
    BY <2>1, ReadsOne
<1> QED
  BY <1>1, <1>2 DEF Quoted

LEMMA QuotedOther ==
  ASSUME NEW a, a # <<>>, NEW w \in Text, NEW b \in Nat, NEW x \in Text,
         Reads(Between(a), w, In(a, x, "quoted", 0)), NEW c \in {"letter", "blank"}
  PROVE  /\ (w \o Backslashes(b)) \o <<c>> \in Text
         /\ Reads(Between(a), (w \o Backslashes(b)) \o <<c>>,
                  In(a, (x \o Backslashes(b)) \o <<c>>, "quoted", 0))
<1> DEFINE y == Backslashes(b)
<1>1. y \in Text /\ c \in Character /\ <<c>> \in Text
  <2>1. c \in Character
    BY DEF Character
  <2> QED
    BY <2>1, OneCharacter, BackslashesText
<1>2. Reads(In(a, x, "quoted", 0), y, In(a, x, "quoted", b))
  BY ReadsBackslashes
<1>3. Scan(In(a, x, "quoted", b), c) = In(a, (x \o y) \o <<c>>, "quoted", 0)
  BY ScanLetter, ScanBlank
<1> HIDE DEF y
<1>4. w \o y \in Text /\ (w \o y) \o <<c>> \in Text
  BY <1>1, Concatenation
<1>5. Reads(Between(a), w \o y, In(a, x, "quoted", b))
  BY <1>1, <1>2, ReadsOn
<1>6. Reads(Between(a), (w \o y) \o <<c>>, In(a, (x \o y) \o <<c>>, "quoted", 0))
  BY <1>1, <1>3, <1>4, <1>5, ReadsThen
<1> QED
  BY <1>4, <1>6 DEF y

LEMMA QuotedQuote ==
  ASSUME NEW a, a # <<>>, NEW w \in Text, NEW b \in Nat, NEW x \in Text,
         Reads(Between(a), w, In(a, x, "quoted", 0))
  PROVE  /\ (w \o Backslashes(2 * b + 1)) \o <<"quote">> \in Text
         /\ Reads(Between(a), (w \o Backslashes(2 * b + 1)) \o <<"quote">>,
                  In(a, (x \o Backslashes(b)) \o <<"quote">>, "quoted", 0))
         /\ (w \o Backslashes(2 * b)) \o <<"quote">> \in Text
         /\ Reads(Between(a), (w \o Backslashes(2 * b)) \o <<"quote">>,
                  In(a, x \o Backslashes(b), "closing", 0))
<1>0. "quote" \in Character /\ <<"quote">> \in Text
  <2>1. "quote" \in Character
    BY DEF Character
  <2> QED
    BY <2>1, OneCharacter
<1>1. ASSUME NEW n \in Nat
      PROVE  /\ w \o Backslashes(n) \in Text
             /\ (w \o Backslashes(n)) \o <<"quote">> \in Text
             /\ Reads(Between(a), w \o Backslashes(n), In(a, x, "quoted", n))
  <2>1. Backslashes(n) \in Text
    BY BackslashesText
  <2>2. Reads(In(a, x, "quoted", 0), Backslashes(n), In(a, x, "quoted", n))
    BY ReadsBackslashes
  <2>3. w \o Backslashes(n) \in Text
    BY <2>1, Concatenation
  <2> QED
    BY <1>0, <2>1, <2>2, <2>3, ReadsOn, Concatenation
<1>2. 2 * b + 1 \in Nat /\ 2 * b \in Nat
  OBVIOUS
<1>3. Scan(In(a, x, "quoted", 2 * b + 1), "quote") =
        In(a, (x \o Backslashes(b)) \o <<"quote">>, "quoted", 0)
  BY ScanQuote
<1>4. Scan(In(a, x, "quoted", 2 * b), "quote") = In(a, x \o Backslashes(b), "closing", 0)
  BY ScanClose
<1>5. Reads(Between(a), (w \o Backslashes(2 * b + 1)) \o <<"quote">>,
            In(a, (x \o Backslashes(b)) \o <<"quote">>, "quoted", 0))
  <2> DEFINE z == w \o Backslashes(2 * b + 1)
  <2>1. z \in Text /\ Reads(Between(a), z, In(a, x, "quoted", 2 * b + 1))
    BY <1>1, <1>2
  <2> HIDE DEF z
  <2>2. Reads(Between(a), z \o <<"quote">>,
              In(a, (x \o Backslashes(b)) \o <<"quote">>, "quoted", 0))
    BY <1>0, <1>3, <2>1, ReadsThen
  <2> QED
    BY <2>2 DEF z
<1>6. Reads(Between(a), (w \o Backslashes(2 * b)) \o <<"quote">>,
            In(a, x \o Backslashes(b), "closing", 0))
  <2> DEFINE z == w \o Backslashes(2 * b)
  <2>1. z \in Text /\ Reads(Between(a), z, In(a, x, "quoted", 2 * b))
    BY <1>1, <1>2
  <2> HIDE DEF z
  <2>2. Reads(Between(a), z \o <<"quote">>, In(a, x \o Backslashes(b), "closing", 0))
    BY <1>0, <1>4, <2>1, ReadsThen
  <2> QED
    BY <2>2 DEF z
<1>7. /\ (w \o Backslashes(2 * b + 1)) \o <<"quote">> \in Text
      /\ (w \o Backslashes(2 * b)) \o <<"quote">> \in Text
  BY <1>1, <1>2
<1> QED
  BY <1>5, <1>6, <1>7

LEMMA QuotedStep ==
  ASSUME NEW a, a # <<>>, NEW s, NEW y \in Text, Quoted(a, s, y), NEW c \in Character
  PROVE  Quoted(a, Take(s, c), y \o <<c>>)
<1>1. PICK w \in Text, b \in Nat, x \in Text :
        /\ s = [text |-> w, backslashes |-> b]
        /\ Reads(Between(a), w, In(a, x, "quoted", 0))
        /\ x \o Backslashes(b) = y
  BY DEF Quoted
<1>2. y \in Text /\ <<c>> \in Text /\ y \o <<c>> \in Text
      /\ (y \o <<c>>) \o Backslashes(0) = y \o <<c>>
  BY OneCharacter, Concatenation, NoBackslashes
<1>3. CASE c = "backslash"
  <2>1. Take(s, c) = [text |-> w, backslashes |-> b + 1] /\ b + 1 \in Nat
    BY <1>1, <1>3 DEF Take
  <2>2. x \o Backslashes(b + 1) = y \o <<c>>
    BY <1>1, <1>3, OneBackslashMore
  <2> QED
    BY <1>1, <2>1, <2>2 DEF Quoted
<1>4. CASE c = "quote"
  <2>1. Take(s, c) = [text |-> (w \o Backslashes(2 * b + 1)) \o <<c>>, backslashes |-> 0]
    BY <1>1, <1>4 DEF Take
  <2> DEFINE v == (w \o Backslashes(2 * b + 1)) \o <<c>>
  <2>2. v \in Text /\ Reads(Between(a), v, In(a, y \o <<c>>, "quoted", 0))
    BY <1>1, <1>4, QuotedQuote
  <2> HIDE DEF v
  <2>3. Take(s, c) = [text |-> v, backslashes |-> 0]
    BY <2>1 DEF v
  <2> QED
    BY <1>2, <2>2, <2>3 DEF Quoted
<1>5. CASE c \in {"letter", "blank"}
  <2>1. Take(s, c) = [text |-> (w \o Backslashes(b)) \o <<c>>, backslashes |-> 0]
    BY <1>1, <1>5 DEF Take
  <2> DEFINE v == (w \o Backslashes(b)) \o <<c>>
  <2>2. v \in Text /\ Reads(Between(a), v, In(a, y \o <<c>>, "quoted", 0))
    BY <1>1, <1>5, QuotedOther
  <2> HIDE DEF v
  <2>3. Take(s, c) = [text |-> v, backslashes |-> 0]
    BY <2>1 DEF v
  <2> QED
    BY <1>2, <2>2, <2>3 DEF Quoted
<1> QED
  BY <1>3, <1>4, <1>5 DEF Character

(* An argument that stays as it is.                                        *)
Plain(a, y) ==
  \E b \in Nat, x \in Text :
    /\ Reads(Between(a), y, In(a, x, "plain", b))
    /\ x \o Backslashes(b) = y

LEMMA PlainStart ==
  ASSUME NEW a, a # <<>>, NEW c \in {"letter", "backslash"}
  PROVE  Plain(a, <<c>>)
<1>1. "letter" \in Character /\ "backslash" \in Character /\ <<>> \in Text
  BY DEF Text, Character
<1>2. <<"letter">> \in Text
  BY <1>1, OneCharacter
<1>3. <<"letter">> \o Backslashes(0) = <<"letter">>
  BY <1>2, NoBackslashes, Concatenation
<1>4. <<>> \o Backslashes(1) = <<"backslash">>
  <2>1. <<>> \o Backslashes(0 + 1) = (<<>> \o Backslashes(0)) \o <<"backslash">>
    BY <1>1, OneBackslashMore
  <2>2. 0 + 1 = 1 /\ <<>> \o <<>> = <<>> /\ <<>> \o <<"backslash">> = <<"backslash">>
    OBVIOUS
  <2> QED
    BY <2>1, <2>2, NoBackslashes
<1>5. /\ Reads(Between(a), <<"letter">>, In(a, <<"letter">>, "plain", 0))
      /\ Reads(Between(a), <<"backslash">>, In(a, <<>>, "plain", 1))
  <2>1. /\ Scan(Between(a), "letter") = In(a, <<"letter">>, "plain", 0)
        /\ Scan(Between(a), "backslash") = In(a, <<>>, "plain", 1)
    BY ScanBetween
  <2>2. /\ Reads(Between(a), <<"letter">>, Scan(Between(a), "letter"))
        /\ Reads(Between(a), <<"backslash">>, Scan(Between(a), "backslash"))
    BY ReadsOne
  <2> QED
    BY <2>1, <2>2
<1>6. CASE c = "letter"
  BY <1>2, <1>3, <1>5, <1>6 DEF Plain
<1>7. CASE c = "backslash"
  BY <1>1, <1>4, <1>5, <1>7 DEF Plain
<1> QED
  BY <1>6, <1>7

LEMMA PlainStep ==
  ASSUME NEW a, a # <<>>, NEW y \in Text, Plain(a, y), NEW c \in {"letter", "backslash"}
  PROVE  Plain(a, y \o <<c>>)
<1>1. PICK b \in Nat, x \in Text : /\ Reads(Between(a), y, In(a, x, "plain", b))
                                   /\ x \o Backslashes(b) = y
  BY DEF Plain
<1>2. c \in Character /\ <<c>> \in Text /\ y \o <<c>> \in Text
      /\ (y \o <<c>>) \o Backslashes(0) = y \o <<c>>
  <2>1. c \in Character
    BY DEF Character
  <2>2. <<c>> \in Text /\ y \o <<c>> \in Text
    BY <2>1, OneCharacter, Concatenation
  <2>3. (y \o <<c>>) \o Backslashes(0) = y \o <<c>>
    BY <2>2, NothingAfter
  <2> QED
    BY <2>1, <2>2, <2>3
<1>3. CASE c = "letter"
  <2>1. Scan(In(a, x, "plain", b), c) = In(a, y \o <<c>>, "plain", 0)
    BY <1>1, <1>3, ScanLetter
  <2>2. Reads(Between(a), y \o <<c>>, In(a, y \o <<c>>, "plain", 0))
    BY <1>1, <1>2, <2>1, ReadsThen
  <2> QED
    BY <1>2, <2>2 DEF Plain
<1>4. CASE c = "backslash"
  <2>1. Scan(In(a, x, "plain", b), c) = In(a, x, "plain", b + 1)
    BY <1>4, ScanBackslash
  <2>2. Reads(Between(a), y \o <<c>>, In(a, x, "plain", b + 1))
    BY <1>1, <1>2, <2>1, ReadsThen
  <2>3. x \o Backslashes(b + 1) = y \o <<c>>
    <3>1. x \o Backslashes(b + 1) = (x \o Backslashes(b)) \o <<"backslash">>
      BY OneBackslashMore
    <3> QED
      BY <1>1, <1>4, <3>1
  <2>4. b + 1 \in Nat
    OBVIOUS
  <2> QED
    BY <2>2, <2>3, <2>4 DEF Plain
<1> QED
  BY <1>3, <1>4

-------------------------------------------------------------------------------
(* What is written of an argument is read to all of it.                    *)
Arrives(a, argument) ==
  \E b \in Nat, x \in Text, m \in {"plain", "closing"} :
    /\ Reads(Between(a), Quote(argument), In(a, x, m, b))
    /\ x \o Backslashes(b) = argument

LEMMA QuotedArgument ==
  ASSUME NEW a, a # <<>>, NEW argument \in Text
  PROVE  /\ Close(Taking(argument)[Len(argument)]) \in Text
         /\ Reads(Between(a), Close(Taking(argument)[Len(argument)]),
                  In(a, argument, "closing", 0))
<1> DEFINE L == Len(argument)
           taken == Taking(argument)
           P(k) == k <= L => Quoted(a, taken[k], SubSeq(argument, 1, k))
           S == {k \in Nat : P(k)}
<1>1. L \in Nat
  BY DEF Text
<1>2. /\ taken[0] = [text |-> <<"quote">>, backslashes |-> 0]
      /\ \A i \in 1 .. L : taken[i] = Take(taken[i - 1], argument[i])
  BY TakingIs
<1>3. SubSeq(argument, 1, 0) = <<>> /\ SubSeq(argument, 1, L) = argument
  BY DEF Text
<1> HIDE DEF taken, L
<1>4. 0 \in S
  <2>1. Quoted(a, taken[0], SubSeq(argument, 1, 0))
    BY <1>2, <1>3, QuotedStart
  <2> QED
    BY <2>1
<1>5. ASSUME NEW k \in Nat, k \in S PROVE k + 1 \in S
  <2>1. SUFFICES ASSUME k + 1 <= L PROVE Quoted(a, taken[k + 1], SubSeq(argument, 1, k + 1))
    OBVIOUS
  <2>2. Quoted(a, taken[k], SubSeq(argument, 1, k))
    BY <1>1, <1>5, <2>1
  <2>3. taken[k + 1] = Take(taken[k], argument[k + 1])
    <3>1. k + 1 \in 1 .. L /\ (k + 1) - 1 = k
      BY <1>1, <2>1
    <3> QED
      BY <1>2, <3>1
  <2>4. /\ SubSeq(argument, 1, k) \in Text /\ argument[k + 1] \in Character
        /\ SubSeq(argument, 1, k + 1) = SubSeq(argument, 1, k) \o <<argument[k + 1]>>
    <3>1. k < Len(argument)
      BY <1>1, <2>1 DEF L
    <3> QED
      BY <3>1, Prefix
  <2> QED
    BY <2>2, <2>3, <2>4, QuotedStep
<1> HIDE DEF S
<1>6. L \in S
  BY <1>1, <1>4, <1>5, Counting
<1>7. Quoted(a, taken[L], argument)
  <2>1. Quoted(a, taken[L], SubSeq(argument, 1, L))
    BY <1>1, <1>6 DEF S
  <2> QED
    BY <1>3, <2>1
<1>8. PICK w \in Text, b \in Nat, x \in Text :
        /\ taken[L] = [text |-> w, backslashes |-> b]
        /\ Reads(Between(a), w, In(a, x, "quoted", 0))
        /\ x \o Backslashes(b) = argument
  BY <1>7 DEF Quoted
<1>9. Close(taken[L]) = (w \o Backslashes(2 * b)) \o <<"quote">>
  BY <1>8 DEF Close
<1>10. Close(taken[L]) \in Text /\ Reads(Between(a), Close(taken[L]), In(a, argument, "closing", 0))
  <2> DEFINE v == (w \o Backslashes(2 * b)) \o <<"quote">>
  <2>1. v \in Text /\ Reads(Between(a), v, In(a, x \o Backslashes(b), "closing", 0))
    BY <1>8, QuotedQuote
  <2>2. Close(taken[L]) = v
    BY <1>9
  <2> HIDE DEF v
  <2> QED
    BY <1>8, <2>1, <2>2
<1> QED
  BY <1>10 DEF taken, L

LEMMA PlainArgument ==
  ASSUME NEW a, a # <<>>, NEW argument \in Text, argument # <<>>,
         \A i \in DOMAIN argument : argument[i] \notin {"blank", "quote"}
  PROVE  Plain(a, argument)
<1> DEFINE L == Len(argument)
           P(k) == k + 1 <= L => Plain(a, SubSeq(argument, 1, k + 1))
           S == {k \in Nat : P(k)}
<1>1. L \in Nat /\ L >= 1 /\ L = (L - 1) + 1 /\ L - 1 \in Nat
  BY DEF Text
<1>2. \A i \in 1 .. L : argument[i] \in {"letter", "backslash"}
  BY DEF Text, Character
<1>3. SubSeq(argument, 1, L) = argument
  BY DEF Text
<1>4. \A k \in Nat : k < L =>
        /\ SubSeq(argument, 1, k) \in Text
        /\ SubSeq(argument, 1, k + 1) = SubSeq(argument, 1, k) \o <<argument[k + 1]>>
  BY Prefix
<1>5. SubSeq(argument, 1, 0) = <<>>
  BY DEF Text
<1> HIDE DEF L
<1>6. 0 \in S
  <2>1. SubSeq(argument, 1, 0 + 1) = <<argument[1]>>
    <3>1. 0 < L /\ 0 + 1 = 1
      BY <1>1
    <3>2. SubSeq(argument, 1, 0 + 1) = SubSeq(argument, 1, 0) \o <<argument[0 + 1]>>
      BY <1>4, <3>1
    <3>3. <<>> \o <<argument[1]>> = <<argument[1]>>
      OBVIOUS
    <3> QED
      BY <1>5, <3>1, <3>2, <3>3
  <2>2. Plain(a, <<argument[1]>>)
    BY <1>1, <1>2, PlainStart
  <2> QED
    BY <2>1, <2>2
<1>7. ASSUME NEW k \in Nat, k \in S PROVE k + 1 \in S
  <2>1. SUFFICES ASSUME (k + 1) + 1 <= L PROVE Plain(a, SubSeq(argument, 1, (k + 1) + 1))
    OBVIOUS
  <2>2. Plain(a, SubSeq(argument, 1, k + 1))
    BY <1>1, <1>7, <2>1
  <2>3. argument[(k + 1) + 1] \in {"letter", "backslash"}
    BY <1>1, <1>2, <2>1
  <2>4. k + 1 \in Nat /\ k + 1 < L
    BY <1>1, <2>1
  <2>5. /\ SubSeq(argument, 1, k + 1) \in Text
        /\ SubSeq(argument, 1, (k + 1) + 1) =
             SubSeq(argument, 1, k + 1) \o <<argument[(k + 1) + 1]>>
    BY <1>4, <2>4
  <2> QED
    BY <2>2, <2>3, <2>5, PlainStep
<1> HIDE DEF S
<1>8. L - 1 \in S
  BY <1>1, <1>6, <1>7, Counting
<1>9. Plain(a, SubSeq(argument, 1, (L - 1) + 1))
  BY <1>1, <1>8 DEF S
<1> QED
  BY <1>1, <1>3, <1>9

LEMMA ArgumentArrives ==
  ASSUME NEW a, a # <<>>, NEW argument \in Text
  PROVE  Quote(argument) \in Text /\ Arrives(a, argument)
<1>1. CASE argument # <<>> /\ \A i \in DOMAIN argument : argument[i] \notin {"blank", "quote"}
  <2>1. Quote(argument) = argument
    BY <1>1 DEF Quote
  <2>2. Plain(a, argument)
    BY <1>1, PlainArgument
  <2> QED
    BY <2>1, <2>2 DEF Plain, Arrives
<1>2. CASE ~(argument # <<>> /\ \A i \in DOMAIN argument : argument[i] \notin {"blank", "quote"})
  <2> DEFINE quoted == Close(Taking(argument)[Len(argument)])
  <2>1. Quote(argument) = quoted
    BY <1>2 DEF Quote
  <2>2. quoted \in Text /\ Reads(Between(a), quoted, In(a, argument, "closing", 0))
    BY QuotedArgument
  <2>3. argument \o Backslashes(0) = argument
    BY NoBackslashes, Concatenation
  <2> HIDE DEF quoted
  <2> QED
    BY <2>1, <2>2, <2>3 DEF Arrives
<1> QED
  BY <1>1, <1>2

(* The program: nothing is escaped in it, and nothing in it needs to be.   *)
Held(s, y) ==
  \E w \in Text, b \in Nat :
    /\ s = [text |-> w, backslashes |-> b]
    /\ w \o Backslashes(b) = <<"quote">> \o y

LEMMA HeldStep ==
  ASSUME NEW s, NEW y \in Text, Held(s, y), NEW c \in {"letter", "blank", "backslash"}
  PROVE  /\ Held(Take(s, c), y \o <<c>>)
         /\ c # "backslash" => Take(s, c).backslashes = 0
<1>1. PICK w \in Text, b \in Nat : /\ s = [text |-> w, backslashes |-> b]
                                   /\ w \o Backslashes(b) = <<"quote">> \o y
  BY DEF Held
<1>2. /\ c \in Character /\ "quote" \in Character
  BY DEF Character
<1>3. <<c>> \in Text /\ <<"quote">> \in Text
  BY <1>2, OneCharacter
<1>4. (<<"quote">> \o y) \o <<c>> = <<"quote">> \o (y \o <<c>>)
  BY <1>3, Associative
<1>5. CASE c = "backslash"
  <2>1. Take(s, c) = [text |-> w, backslashes |-> b + 1]
    BY <1>1, <1>5 DEF Take
  <2>2. w \o Backslashes(b + 1) = (w \o Backslashes(b)) \o <<c>>
    BY <1>5, OneBackslashMore
  <2>3. w \o Backslashes(b + 1) = <<"quote">> \o (y \o <<c>>)
    BY <1>1, <1>4, <2>2
  <2>4. b + 1 \in Nat
    OBVIOUS
  <2> QED
    BY <1>5, <2>1, <2>3, <2>4 DEF Held
<1>6. CASE c # "backslash"
  <2> DEFINE v == (w \o Backslashes(b)) \o <<c>>
  <2>1. Take(s, c) = [text |-> v, backslashes |-> 0]
    BY <1>1, <1>6 DEF Take
  <2>2. v \in Text
    <3>1. Backslashes(b) \in Text
      BY BackslashesText
    <3>2. w \o Backslashes(b) \in Text
      BY <3>1, Concatenation
    <3> QED
      BY <1>3, <3>2, Concatenation
  <2>3. v = <<"quote">> \o (y \o <<c>>)
    BY <1>1, <1>4
  <2> HIDE DEF v
  <2>4. v \o Backslashes(0) = v
    BY <2>2, NothingAfter
  <2>5. v \o Backslashes(0) = <<"quote">> \o (y \o <<c>>)
    BY <2>3, <2>4
  <2>6. Held([text |-> v, backslashes |-> 0], y \o <<c>>)
    BY <2>2, <2>5 DEF Held
  <2> QED
    BY <2>1, <2>6
<1> QED
  BY <1>5, <1>6

LEMMA QuotedProgram ==
  ASSUME NEW program, Path(program)
  PROVE  Close(Taking(program)[Len(program)]) = (<<"quote">> \o program) \o <<"quote">>
<1> DEFINE L == Len(program)
           taken == Taking(program)
           P(k) == k <= L => /\ Held(taken[k], SubSeq(program, 1, k))
                             /\ k = 0 \/ program[k] # "backslash" => taken[k].backslashes = 0
           S == {k \in Nat : P(k)}
<1>0. program \in Text
  BY DEF Path, Text
<1>1. L \in Nat
  BY <1>0 DEF Text
<1>2. /\ taken[0] = [text |-> <<"quote">>, backslashes |-> 0]
      /\ \A i \in 1 .. L : taken[i] = Take(taken[i - 1], program[i])
  BY <1>0, TakingIs
<1>3. SubSeq(program, 1, 0) = <<>> /\ SubSeq(program, 1, L) = program
  BY <1>0 DEF Text
<1>4. \A i \in 1 .. L : program[i] \in {"letter", "blank", "backslash"}
  BY <1>0 DEF Path, Text, Character
<1>5. L = 0 \/ program[L] # "backslash"
  BY <1>0 DEF Path, Text
<1> HIDE DEF taken, L
<1>6. 0 \in S
  <2>1. <<"quote">> \in Text
    BY DEF Text, Character
  <2>2. <<"quote">> \o Backslashes(0) = <<"quote">> \o <<>>
    BY NoBackslashes
  <2>3. Held(taken[0], <<>>)
    BY <1>2, <2>1, <2>2 DEF Held
  <2>4. taken[0].backslashes = 0
    BY <1>2
  <2> QED
    BY <1>3, <2>3, <2>4
<1>7. ASSUME NEW k \in Nat, k \in S PROVE k + 1 \in S
  <2>1. SUFFICES ASSUME k + 1 <= L
        PROVE /\ Held(taken[k + 1], SubSeq(program, 1, k + 1))
              /\ k + 1 = 0 \/ program[k + 1] # "backslash" => taken[k + 1].backslashes = 0
    OBVIOUS
  <2>2. Held(taken[k], SubSeq(program, 1, k))
    BY <1>1, <1>7, <2>1
  <2>3. k + 1 \in 1 .. L /\ (k + 1) - 1 = k /\ k + 1 # 0 /\ k < L
    BY <1>1, <2>1
  <2>4. taken[k + 1] = Take(taken[k], program[k + 1])
    BY <1>2, <2>3
  <2>5. program[k + 1] \in {"letter", "blank", "backslash"}
    BY <1>4, <2>3
  <2>6. /\ SubSeq(program, 1, k) \in Text
        /\ SubSeq(program, 1, k + 1) = SubSeq(program, 1, k) \o <<program[k + 1]>>
    BY <1>0, <2>3, Prefix DEF L
  <2> QED
    BY <2>2, <2>3, <2>4, <2>5, <2>6, HeldStep
<1> HIDE DEF S
<1>8. L \in S
  BY <1>1, <1>6, <1>7, Counting
<1>9. Held(taken[L], program) /\ taken[L].backslashes = 0
  <2>1. /\ Held(taken[L], SubSeq(program, 1, L))
        /\ L = 0 \/ program[L] # "backslash" => taken[L].backslashes = 0
    BY <1>1, <1>8 DEF S
  <2> QED
    BY <1>3, <1>5, <2>1
<1>10. PICK w \in Text, b \in Nat : /\ taken[L] = [text |-> w, backslashes |-> b]
                                    /\ w \o Backslashes(b) = <<"quote">> \o program
  BY <1>9 DEF Held
<1>11. b = 0 /\ 2 * b = 0
  BY <1>9, <1>10
<1>12. w = <<"quote">> \o program /\ w \o Backslashes(0) = w
  BY <1>10, <1>11, NothingAfter
<1>13. Close(taken[L]) = (<<"quote">> \o program) \o <<"quote">>
  <2>1. Close(taken[L]) = (w \o Backslashes(2 * b)) \o <<"quote">>
    BY <1>10 DEF Close
  <2> QED
    BY <1>11, <1>12, <2>1
<1> QED
  BY <1>13 DEF taken, L

(* The runtime gets through a path, quoted or not.                         *)
LEMMA PathIsRead ==
  ASSUME NEW program, Path(program), NEW m \in {"plain", "quoted"}, NEW s, NEW N \in {0, 1},
         N <= Len(program), Reads(s, SubSeq(program, 1, N), In(<<>>, SubSeq(program, 1, N), m, 0)),
         m = "plain" => \A i \in DOMAIN program : program[i] # "blank"
  PROVE  Reads(s, program, In(<<>>, program, m, 0))
<1> DEFINE L == Len(program)
           P(k) == N <= k /\ k <= L =>
                     Reads(s, SubSeq(program, 1, k), In(<<>>, SubSeq(program, 1, k), m, 0))
           S == {k \in Nat : P(k)}
<1>0. program \in Text
  BY DEF Path, Text
<1>1. L \in Nat /\ N \in Nat
  BY <1>0 DEF Text
<1>2. SubSeq(program, 1, L) = program
  BY <1>0 DEF Text
<1>3. \A i \in 1 .. L : /\ program[i] \in {"letter", "blank", "backslash"}
                        /\ m = "plain" => program[i] \in {"letter", "backslash"}
  BY <1>0 DEF Path, Text, Character
<1>4. \A k \in Nat : k < L =>
        /\ SubSeq(program, 1, k) \in Text /\ program[k + 1] \in Character
        /\ SubSeq(program, 1, k + 1) = SubSeq(program, 1, k) \o <<program[k + 1]>>
  BY <1>0, Prefix
<1> HIDE DEF L
<1>5. 0 \in S
  <2>1. CASE N = 0
    BY <2>1
  <2>2. CASE N = 1
    BY <2>2
  <2> QED
    BY <2>1, <2>2
<1>6. ASSUME NEW k \in Nat, k \in S PROVE k + 1 \in S
  <2>1. SUFFICES ASSUME N <= k + 1, k + 1 <= L
        PROVE Reads(s, SubSeq(program, 1, k + 1), In(<<>>, SubSeq(program, 1, k + 1), m, 0))
    OBVIOUS
  <2>2. CASE N = k + 1
    BY <2>2
  <2>3. CASE N # k + 1
    <3>1. N <= k /\ k <= L /\ k < L /\ k + 1 \in 1 .. L
      BY <1>1, <2>1, <2>3
    <3> DEFINE x == SubSeq(program, 1, k)
               c == program[k + 1]
    <3>2. Reads(s, x, In(<<>>, x, m, 0))
      BY <1>6, <3>1
    <3>3. c \in {"letter", "blank", "backslash"} /\ (m = "plain" => c \in {"letter", "backslash"})
      BY <1>3, <3>1
    <3>4. x \in Text /\ c \in Character /\ SubSeq(program, 1, k + 1) = x \o <<c>>
      BY <1>4, <3>1
    <3> HIDE DEF x, c
    <3>5. Scan(In(<<>>, x, m, 0), c) = In(<<>>, x \o <<c>>, m, 0)
      BY <3>3, <3>4, ScanProgram
    <3>6. Reads(s, x \o <<c>>, In(<<>>, x \o <<c>>, m, 0))
      BY <3>2, <3>4, <3>5, ReadsThen
    <3> QED
      BY <3>4, <3>6
  <2> QED
    BY <2>2, <2>3
<1> HIDE DEF S
<1>7. L \in S
  BY <1>1, <1>5, <1>6, Counting
<1>8. Reads(s, SubSeq(program, 1, L), In(<<>>, SubSeq(program, 1, L), m, 0))
  BY <1>1, <1>7 DEF S, L
<1> QED
  BY <1>2, <1>8

LEMMA ProgramArrives ==
  ASSUME NEW program, Path(program)
  PROVE  /\ Quote(program) \in Text /\ Quote(program) # <<>>
         /\ Arrives(<<>>, program)
<1>0. Blank = Between(<<>>) /\ program \in Text
  BY DEF Blank, Between, Path, Text
<1>1. CASE program # <<>> /\ \A i \in DOMAIN program : program[i] \notin {"blank", "quote"}
  <2>1. Quote(program) = program
    BY <1>1 DEF Quote
  <2>2. /\ 1 <= Len(program) /\ SubSeq(program, 1, 1) = <<program[1]>>
        /\ program[1] \in {"letter", "backslash"}
    <3>1. 1 <= Len(program) /\ 0 < Len(program) /\ 1 \in DOMAIN program /\ 0 + 1 = 1
      BY <1>0, <1>1 DEF Text
    <3>2. program[1] \in {"letter", "backslash"}
      BY <1>0, <1>1, <3>1 DEF Text, Character
    <3>3. SubSeq(program, 1, 0 + 1) = SubSeq(program, 1, 0) \o <<program[0 + 1]>>
          /\ SubSeq(program, 1, 0) = <<>>
      BY <1>0, <3>1, Prefix
    <3>4. <<>> \o <<program[1]>> = <<program[1]>>
      OBVIOUS
    <3> QED
      BY <3>1, <3>2, <3>3, <3>4
  <2>3. Scan(Blank, program[1]) = In(<<>>, <<program[1]>>, "plain", 0)
    <3>1. <<>> \in Text
      BY DEF Text
    <3> QED
      BY <2>2, <3>1, ScanProgram
  <2>4. Reads(Blank, <<program[1]>>, In(<<>>, <<program[1]>>, "plain", 0))
    BY <2>3, ReadsOne
  <2>5. Reads(Blank, program, In(<<>>, program, "plain", 0))
    <3>1. Reads(Blank, SubSeq(program, 1, 1), In(<<>>, SubSeq(program, 1, 1), "plain", 0))
      BY <2>2, <2>4
    <3> QED
      BY <1>1, <2>2, <3>1, PathIsRead
  <2>6. program \o Backslashes(0) = program
    BY <1>0, NothingAfter
  <2> QED
    BY <1>0, <1>1, <2>1, <2>5, <2>6 DEF Arrives
<1>2. CASE ~(program # <<>> /\ \A i \in DOMAIN program : program[i] \notin {"blank", "quote"})
  <2> DEFINE opened == <<"quote">> \o program
  <2>1. Quote(program) = opened \o <<"quote">>
    BY <1>2, QuotedProgram DEF Quote
  <2>2. <<"quote">> \in Text /\ "quote" \in Character /\ <<>> \in Text
    BY DEF Text, Character
  <2>3. SubSeq(program, 1, 0) = <<>> /\ 0 <= Len(program)
    BY <1>0 DEF Text
  <2>4. Reads(In(<<>>, <<>>, "quoted", 0), program, In(<<>>, program, "quoted", 0))
    <3>1. Reads(In(<<>>, <<>>, "quoted", 0), SubSeq(program, 1, 0),
                In(<<>>, SubSeq(program, 1, 0), "quoted", 0))
      BY <2>3, ReadsNothing
    <3> QED
      BY <2>3, <3>1, PathIsRead
  <2>5. Reads(Blank, <<"quote">>, In(<<>>, <<>>, "quoted", 0))
    BY <2>2, ScanProgram, ReadsOne
  <2>6. opened \in Text /\ Reads(Blank, opened, In(<<>>, program, "quoted", 0))
    BY <1>0, <2>2, <2>4, <2>5, ReadsOn, Concatenation
  <2>7. Scan(In(<<>>, program, "quoted", 0), "quote") = In(<<>>, program, "closing", 0)
    BY <1>0, ScanProgram
  <2> HIDE DEF opened
  <2>8. Reads(Blank, opened \o <<"quote">>, In(<<>>, program, "closing", 0))
    BY <2>2, <2>6, <2>7, ReadsThen
  <2>9. opened \o <<"quote">> \in Text /\ opened \o <<"quote">> # <<>>
    BY <2>2, <2>6 DEF Text
  <2>10. program \o Backslashes(0) = program
    BY <1>0, NothingAfter
  <2> QED
    BY <1>0, <2>1, <2>8, <2>9, <2>10 DEF Arrives
<1> QED
  BY <1>1, <1>2

-------------------------------------------------------------------------------
(* The whole line.                                                         *)
LEMMA JoiningIs ==
  ASSUME NEW arguments \in Seq(Text)
  PROVE  /\ Joining(arguments)[0] = <<>>
         /\ \A i \in 1 .. Len(arguments) :
              Joining(arguments)[i] =
                IF Joining(arguments)[i - 1] = <<>> THEN Quote(arguments[i])
                ELSE (Joining(arguments)[i - 1] \o <<"blank">>) \o Quote(arguments[i])
<1> DEFINE Extend(line, i) == IF line = <<>> THEN Quote(arguments[i])
                            ELSE (line \o <<"blank">>) \o Quote(arguments[i])
           E(f, k) == f = [i \in 0 .. k |-> IF i = 0 THEN <<>> ELSE Extend(f[i - 1], i)]
           S == {k \in Nat : \E f : E(f, k)}
<1>1. 0 \in S
  <2> DEFINE g == [i \in 0 .. 0 |-> <<>>]
  <2>1. E(g, 0)
    <3>1. \A i \in 0 .. 0 : i = 0
      OBVIOUS
    <3> HIDE DEF Extend
    <3> QED
      BY <3>1
  <2> QED
    BY <2>1
<1>2. ASSUME NEW k \in Nat, k \in S PROVE k + 1 \in S
  <2>1. PICK f : E(f, k)
    BY <1>2
  <2> DEFINE g == [i \in 0 .. k + 1 |-> IF i <= k THEN f[i] ELSE Extend(f[k], k + 1)]
  <2> HIDE DEF Extend
  <2>2. ASSUME NEW i \in 0 .. k + 1
        PROVE  g[i] = IF i = 0 THEN <<>> ELSE Extend(g[i - 1], i)
    <3>1. CASE i \in 0 .. k
      <4>1. g[i] = f[i] /\ (i # 0 => g[i - 1] = f[i - 1])
        BY <3>1
      <4>2. f[i] = IF i = 0 THEN <<>> ELSE Extend(f[i - 1], i)
        BY <2>1, <3>1
      <4> HIDE DEF g, E
      <4> QED
        BY <4>1, <4>2
    <3>2. CASE i = k + 1
      <4>1. g[i] = Extend(f[k], k + 1) /\ g[i - 1] = f[k] /\ i # 0
        BY <3>2
      <4> HIDE DEF g, E
      <4> QED
        BY <3>2, <4>1
    <3> QED
      BY <3>1, <3>2
  <2>3. E(g, k + 1)
    BY <2>2
  <2> HIDE DEF g, E
  <2> QED
    BY <2>3
<1>3. Len(arguments) \in Nat
  OBVIOUS
<1>4. \E f : E(f, Len(arguments))
  <2>1. Len(arguments) \in S
    <3> HIDE DEF S
    <3> QED
      BY <1>1, <1>2, <1>3, Counting
  <2> QED
    BY <2>1
<1>5. Joining(arguments) = CHOOSE f : E(f, Len(arguments))
  BY DEF Joining
<1>6. E(Joining(arguments), Len(arguments))
  <2> HIDE DEF E
  <2> QED
    BY <1>4, <1>5
<1>7. \A i \in 0 .. Len(arguments) :
        Joining(arguments)[i] = IF i = 0 THEN <<>> ELSE Extend(Joining(arguments)[i - 1], i)
  <2> HIDE DEF Extend
  <2> QED
    BY <1>6
<1>8. /\ Joining(arguments)[0] = <<>>
      /\ \A i \in 1 .. Len(arguments) : Joining(arguments)[i] = Extend(Joining(arguments)[i - 1], i)
  <2> HIDE DEF E, Extend
  <2> QED
    BY <1>3, <1>7
<1> QED
  BY <1>8 DEF Extend

(* After the first k arguments, the last of them is still to be ended.     *)
Pending(arguments, line, k) ==
  /\ line \in Text /\ line # <<>>
  /\ \E b \in Nat, x \in Text, m \in {"plain", "closing"} :
       /\ Reads(Blank, line, In(SubSeq(arguments, 1, k - 1), x, m, b))
       /\ x \o Backslashes(b) = arguments[k]

LEMMA OneArgumentMore ==
  ASSUME NEW arguments \in Seq(Text), NEW k \in Nat, k >= 1, k < Len(arguments),
         NEW line, Pending(arguments, line, k)
  PROVE  Pending(arguments, (line \o <<"blank">>) \o Quote(arguments[k + 1]), k + 1)
<1> DEFINE before == SubSeq(arguments, 1, k - 1)
           done == SubSeq(arguments, 1, k)
           argument == arguments[k + 1]
           spaced == line \o <<"blank">>
           more == spaced \o Quote(argument)
<1>0. line \in Text /\ line # <<>>
  BY DEF Pending
<1>1. PICK b \in Nat, x \in Text, m \in {"plain", "closing"} :
        /\ Reads(Blank, line, In(before, x, m, b))
        /\ x \o Backslashes(b) = arguments[k]
  BY DEF Pending
<1>2. /\ done = Append(before, arguments[k]) /\ done # <<>> /\ argument \in Text
      /\ (k + 1) - 1 = k
  <2>1. Text # {}
    BY DEF Text
  <2>2. k \in 1 .. Len(arguments) /\ k + 1 \in 1 .. Len(arguments)
    OBVIOUS
  <2>3. argument \in Text /\ (k + 1) - 1 = k
    BY <2>2
  <2>4. done \in Seq(Text) /\ Len(done) = k /\ before \in Seq(Text) /\ Len(before) = k - 1
    BY <2>2
  <2>5. done = Append(before, arguments[k])
    BY <2>2
  <2>6. done # <<>>
    BY <2>4
  <2> QED
    BY <2>3, <2>5, <2>6
<1>3. /\ "blank" \in Character /\ <<"blank">> \in Text
  BY DEF Character, Text
<1>4. Scan(In(before, x, m, b), "blank") = Between(done)
  <2> HIDE DEF before, done
  <2>1. Scan(In(before, x, m, b), "blank") = Between(Append(before, x \o Backslashes(b)))
    BY ScanEnd
  <2> QED
    BY <1>1, <1>2, <2>1
<1>5. Quote(argument) \in Text /\ Arrives(done, argument)
  BY <1>2, ArgumentArrives
<1> HIDE DEF before, done, argument
<1>6. Reads(Blank, spaced, Between(done)) /\ spaced \in Text
  BY <1>0, <1>1, <1>3, <1>4, ReadsThen, Concatenation
<1>7. PICK c \in Nat, y \in Text, n \in {"plain", "closing"} :
        /\ Reads(Between(done), Quote(argument), In(done, y, n, c))
        /\ y \o Backslashes(c) = argument
  BY <1>5 DEF Arrives
<1>8. more \in Text /\ Reads(Blank, more, In(done, y, n, c))
  <2> HIDE DEF spaced
  <2> QED
    BY <1>5, <1>6, <1>7, ReadsOn, Concatenation
<1>9. more # <<>>
  <2>1. Len(spaced) >= 1
    BY <1>0, <1>3 DEF Text
  <2>2. Len(more) = Len(spaced) + Len(Quote(argument)) /\ Len(Quote(argument)) \in Nat
        /\ Len(spaced) \in Nat
    BY <1>5, <1>6 DEF Text
  <2>3. Len(more) # 0 /\ Len(<<>>) = 0
    BY <2>1, <2>2
  <2> HIDE DEF more
  <2> QED
    BY <2>3
<1>10. Pending(arguments, more, k + 1)
  <2> HIDE DEF more
  <2>1. done = SubSeq(arguments, 1, (k + 1) - 1) /\ argument = arguments[k + 1]
    BY <1>2 DEF done, argument
  <2> QED
    BY <1>7, <1>8, <1>9, <2>1 DEF Pending
<1> QED
  BY <1>10 DEF argument

LEMMA FirstArgument ==
  ASSUME NEW arguments \in Seq(Text), arguments # <<>>, Path(arguments[1])
  PROVE  Pending(arguments, Quote(arguments[1]), 1)
<1>1. SubSeq(arguments, 1, 1 - 1) = <<>>
  OBVIOUS
<1>2. /\ Quote(arguments[1]) \in Text /\ Quote(arguments[1]) # <<>>
      /\ Arrives(<<>>, arguments[1])
  BY ProgramArrives
<1>3. Between(<<>>) = Blank
  BY DEF Between, Blank
<1> QED
  BY <1>1, <1>2, <1>3 DEF Arrives, Pending

(* Whatever the arguments are and however many, if the first of them is a  *)
(* path, git.exe gets them as they were (process.cpp:96-122, 255-261): no  *)
(* blank, quote or backslash splits one, swallows one or is lost.          *)
THEOREM CommandLineReadsBack ==
  ASSUME NEW arguments \in Seq(Text), arguments # <<>>, Path(arguments[1])
  PROVE  Argv(CommandLine(arguments)) = arguments
<1> DEFINE N == Len(arguments)
           joined == Joining(arguments)
           P(k) == k + 1 <= N => Pending(arguments, joined[k + 1], k + 1)
           S == {k \in Nat : P(k)}
<1>1. N \in Nat /\ N >= 1 /\ (N - 1) + 1 = N /\ N - 1 \in Nat
  OBVIOUS
<1>2. /\ joined[0] = <<>>
      /\ \A i \in 1 .. N :
           joined[i] = IF joined[i - 1] = <<>> THEN Quote(arguments[i])
                       ELSE (joined[i - 1] \o <<"blank">>) \o Quote(arguments[i])
  BY JoiningIs
<1> HIDE DEF joined, N
<1>3. 0 \in S
  <2>1. 0 + 1 = 1 /\ 1 \in 1 .. N /\ 1 - 1 = 0
    BY <1>1
  <2>2. joined[1] = Quote(arguments[1])
    BY <1>2, <2>1
  <2>3. Pending(arguments, joined[1], 1)
    BY <2>2, FirstArgument
  <2> QED
    BY <2>1, <2>3
<1>4. ASSUME NEW k \in Nat, k \in S PROVE k + 1 \in S
  <2> DEFINE j == k + 1
  <2>0. j \in Nat /\ j >= 1
    OBVIOUS
  <2>1. SUFFICES ASSUME j + 1 <= N PROVE Pending(arguments, joined[j + 1], j + 1)
    OBVIOUS
  <2>2. Pending(arguments, joined[j], j)
    BY <1>1, <1>4, <2>1
  <2> HIDE DEF j
  <2>3. joined[j] # <<>>
    BY <2>2 DEF Pending
  <2>4. joined[j + 1] = (joined[j] \o <<"blank">>) \o Quote(arguments[j + 1])
    <3>1. j + 1 \in 1 .. N /\ (j + 1) - 1 = j
      BY <1>1, <2>0, <2>1
    <3> QED
      BY <1>2, <2>3, <3>1
  <2>5. j < Len(arguments)
    BY <1>1, <2>0, <2>1 DEF N
  <2> QED
    BY <2>0, <2>2, <2>4, <2>5, OneArgumentMore
<1> HIDE DEF S
<1>5. N - 1 \in S
  BY <1>1, <1>3, <1>4, Counting
<1> DEFINE line == joined[N]
<1>6. Pending(arguments, line, N)
  <2>1. P(N - 1)
    BY <1>5 DEF S
  <2> QED
    BY <1>1, <2>1
<1>7. CommandLine(arguments) = line
  BY DEF CommandLine, joined, N
<1> HIDE DEF line, P
<1>8. PICK b \in Nat, x \in Text, m \in {"plain", "closing"} :
        /\ Reads(Blank, line, In(SubSeq(arguments, 1, N - 1), x, m, b))
        /\ x \o Backslashes(b) = arguments[N]
  BY <1>6 DEF Pending
<1>9. line \in Text
  BY <1>6 DEF Pending
<1>10. Scanning(line)[Len(line)] = In(SubSeq(arguments, 1, N - 1), x, m, b)
  BY <1>8, <1>9, ScanningIs
<1>11. Argv(line) = Append(SubSeq(arguments, 1, N - 1), arguments[N])
  <2> DEFINE s == In(SubSeq(arguments, 1, N - 1), x, m, b)
  <2>1. EndArgument(s).arguments =
          Append(SubSeq(arguments, 1, N - 1), x \o Backslashes(b))
    BY DEF EndArgument, In, Blank
  <2> HIDE DEF s
  <2> QED
    BY <1>8, <1>10, <2>1 DEF Argv, s
<1>12. Append(SubSeq(arguments, 1, N - 1), arguments[N]) = arguments
  BY <1>1 DEF N
<1> QED
  BY <1>7, <1>11, <1>12

LEMMA AlwaysReadsBack == ReadsBack
<1> SUFFICES ASSUME NEW program \in Programs, NEW directory \in Directories
             PROVE  Argv(CommandLine(<<program, <<"letter">>, directory, <<"letter">>>>)) =
                      <<program, <<"letter">>, directory, <<"letter">>>>
  BY DEF ReadsBack
<1> DEFINE arguments == <<program, <<"letter">>, directory, <<"letter">>>>
<1>1. Path(program) /\ program \in Text /\ directory \in Text
  BY PathsAssumption DEF Path, Text
<1>2. <<"letter">> \in Text
  BY DEF Text, Character
<1>3. arguments \in Seq(Text) /\ arguments # <<>> /\ arguments[1] = program
  BY <1>1, <1>2
<1> HIDE DEF arguments
<1>4. Argv(CommandLine(arguments)) = arguments
  BY <1>1, <1>3, CommandLineReadsBack
<1> QED
  BY <1>4 DEF arguments

(* On Windows every git gets the path, the directory and the options that  *)
(* ExecGitRunner::run was given (process.cpp:243-261).                     *)
THEOREM ArgumentsArrive == Spec => []ArgumentsSurvive
<1>1. ArgumentsSurvive
  BY AlwaysReadsBack DEF ArgumentsSurvive
<1> QED
  BY <1>1, PTL

===============================================================================
