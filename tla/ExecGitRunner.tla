---------------------------- MODULE ExecGitRunner ----------------------------
(***************************************************************************)
(* ExecGitRunner::run of the C++ port, called by several worker threads at *)
(* once. One call makes a pipe, starts git, and then lives in three        *)
(* places: the calling thread, which polls for git's end and kills it on a *)
(* timeout or an interrupt; a reader thread, which drains the pipe until   *)
(* its end of file; and the git process itself. The POSIX and the Windows  *)
(* branch go through the same places; where they differ, `host` decides.   *)
(*                                                                         *)
(* The calls are not independent. pipe() makes descriptors that survive    *)
(* exec, and CreateProcess passes on every inheritable handle, so git gets *)
(* the write end of every pipe another thread has open between making it   *)
(* and closing it: that pipe reaches its end of file only when this git    *)
(* has ended too, and so have the processes it left behind.                *)
(***************************************************************************)
EXTENDS Naturals, WindowsCommandLine

CONSTANTS
  Call,            \* the calls of run, each by a thread of its own
  Hosts,           \* where the program runs
  Chunks,          \* bound: how much the git of each call and its descendants may write
  Parents,         \* bound: the calls whose git may leave a descendant behind
  PipeCapacity     \* what the kernel buffers before a writer blocks

ASSUME RunnerAssumption ==
  /\ Hosts \subseteq {"posix", "posix reaping", "windows"}
  /\ Chunks \in [Call -> Nat]
  /\ Parents \subseteq Call
  /\ PipeCapacity \in Nat \ {0}

VARIABLES
  host,            \* "posix reaping": SIGCHLD is ignored, the kernel reaps git itself
  cancelled,       \* the SIGINT flag
  pc,              \* where the calling thread is
  readEnds,        \* the calls whose output_pipe[0] this process has open
  writeEnds,       \* the calls whose output_pipe[1] this process has open
  inherited,       \* the calls whose write end a git was forked with
  git,             \* the git process of the call
  helper,          \* a descendant git may leave behind
  exitStatus,      \* how git ended
  process_status,  \* what waitpid stored; 0, a success, until it does
  expired,         \* the deadline has passed
  wrote,           \* chunks written by git and its helper
  piped,           \* chunks in the pipe
  output,          \* chunks the reader thread has appended
  reader,          \* the reader thread
  reason,          \* which of was_cancelled, timed_out, wait_error is set
  result           \* the CommandResult

environment == <<host, cancelled>>
descriptors == <<readEnds, writeEnds, inherited>>
process == <<git, helper, exitStatus>>
stream == <<wrote, piped, output, reader>>
verdict == <<process_status, reason, result>>

vars == <<environment, pc, descriptors, process, expired, stream, verdict>>

Goto(c, label) == pc' = [pc EXCEPT ![c] = label]

-------------------------------------------------------------------------------
(* Mutated forms, each the bug its name says; no specification uses them.  *)

KeptByParent_WriteEnd(c) == {c}
AfterWait_NoBreak(c) == IF git[c] = "gone" THEN "kill" ELSE "check"
ForkFailed_KeepsEnds(c) == {}
Joinable_AtOnce(c) == TRUE
ResultOf_RawStatus(c) == IF reason[c] # "none" THEN reason[c] ELSE process_status[c]
WaitFails_NoReason(c) ==
  /\ pc[c] = "poll" /\ host = "windows"
  /\ Goto(c, "kill")
  /\ UNCHANGED <<environment, descriptors, process, expired, stream, verdict>>

-------------------------------------------------------------------------------
Init ==
  /\ host \in Hosts
  /\ cancelled \in BOOLEAN
  /\ pc = [c \in Call |-> "called"]
  /\ readEnds = {} /\ writeEnds = {}
  /\ inherited = [c \in Call |-> {}]
  /\ git = [c \in Call |-> "none"]
  /\ helper = [c \in Call |-> "none"]
  /\ exitStatus = [c \in Call |-> "none"]
  /\ process_status = [c \in Call |-> "ok"]
  /\ expired = [c \in Call |-> FALSE]
  /\ wrote = [c \in Call |-> 0]
  /\ piped = [c \in Call |-> 0]
  /\ output = [c \in Call |-> 0]
  /\ reader = [c \in Call |-> "none"]
  /\ reason = [c \in Call |-> "none"]
  /\ result = [c \in Call |-> "none"]

-------------------------------------------------------------------------------
(* The calling thread.                                                     *)

Return(c, what) ==
  /\ Goto(c, "returned")
  /\ result' = [result EXCEPT ![c] = what]
  /\ UNCHANGED <<process_status, reason>>

(* An interrupt that is already pending starts no process at all.          *)
Enter(c) ==
  /\ pc[c] = "called"
  /\ \/ /\ cancelled
        /\ Return(c, "interrupted")
     \/ /\ ~cancelled
        /\ Goto(c, "pipe")
        /\ UNCHANGED verdict
  /\ UNCHANGED <<environment, descriptors, process, expired, stream>>

(* pipe() may fail, for want of descriptors.                               *)
CreatePipe(c) ==
  /\ pc[c] = "pipe"
  /\ \/ /\ readEnds' = readEnds \cup {c}
        /\ writeEnds' = writeEnds \cup {c}
        /\ Goto(c, IF host = "windows" THEN "configure" ELSE "fork")
        /\ UNCHANGED verdict
     \/ /\ Return(c, "start")
        /\ UNCHANGED <<readEnds, writeEnds>>
  /\ UNCHANGED <<environment, inherited, process, expired, stream>>

(* Windows keeps the read end from being inherited; the write end must be. *)
ConfigurePipe(c) ==
  /\ pc[c] = "configure"
  /\ \/ Goto(c, "fork") /\ UNCHANGED <<readEnds, writeEnds, verdict>>
     \/ /\ readEnds' = readEnds \ {c}
        /\ writeEnds' = writeEnds \ {c}
        /\ Return(c, "start")
  /\ UNCHANGED <<environment, inherited, process, expired, stream>>

(* fork() copies every descriptor that is open in the process, the child   *)
(* closes no other than its own two; when it fails both ends are closed.   *)
ForkFailed(c) == {c}

Fork(c) ==
  /\ pc[c] = "fork"
  /\ \/ /\ git' = [git EXCEPT ![c] = "running"]
        /\ inherited' = [inherited EXCEPT ![c] = writeEnds]
        /\ Goto(c, "forked")
        /\ UNCHANGED <<readEnds, writeEnds, verdict>>
     \/ /\ readEnds' = readEnds \ ForkFailed(c)
        /\ writeEnds' = writeEnds \ ForkFailed(c)
        /\ Return(c, "start")
        /\ UNCHANGED <<git, inherited>>
  /\ UNCHANGED <<environment, helper, exitStatus, expired, stream>>

(* The parent closes its write end and starts the reader thread. The loop  *)
(* that follows asks for git's end first on POSIX, and last on Windows.    *)
KeptByParent(c) == {}

FirstTest == IF host = "windows" THEN "check" ELSE "poll"

StartReader(c) ==
  /\ pc[c] = "forked"
  /\ writeEnds' = writeEnds \ ({c} \ KeptByParent(c))
  /\ reader' = [reader EXCEPT ![c] = "reading"]
  /\ Goto(c, FirstTest)
  /\ UNCHANGED <<environment, readEnds, inherited, process, expired, wrote, piped, output, verdict>>

(* waitpid(WNOHANG): 0 while git runs, its pid once (which reaps it), and  *)
(* an error for a process that is no child of ours (any more). On Windows: *)
(* a wait of 25 ms, the exit code, and closing the process handle.         *)
AfterWait(c) ==
  CASE git[c] = "running" -> "check"
    [] git[c] = "zombie" -> "join"
    [] git[c] = "gone" -> "kill"

Reap(c) ==
  /\ git' = [git EXCEPT ![c] = "gone"]
  /\ process_status' = [process_status EXCEPT ![c] =
                          IF git[c] = "zombie" THEN exitStatus[c] ELSE @]
  /\ UNCHANGED <<helper, exitStatus>>

Poll(c) ==
  /\ pc[c] = "poll"
  /\ Goto(c, AfterWait(c))
  /\ IF git[c] = "running" THEN UNCHANGED <<process, process_status>> ELSE Reap(c)
  /\ reason' = [reason EXCEPT ![c] = IF git[c] = "gone" THEN "wait" ELSE @]
  /\ UNCHANGED <<environment, descriptors, expired, stream, result>>

(* WAIT_FAILED: git, which is not known to have ended, is killed.          *)
WaitFails(c) ==
  /\ pc[c] = "poll" /\ host = "windows"
  /\ Goto(c, "kill")
  /\ reason' = [reason EXCEPT ![c] = "wait"]
  /\ UNCHANGED <<environment, descriptors, process, expired, stream, process_status, result>>

TestCancelled(c) ==
  /\ pc[c] = "check"
  /\ Goto(c, IF cancelled THEN "kill" ELSE "clock")
  /\ reason' = [reason EXCEPT ![c] = IF cancelled THEN "interrupted" ELSE @]
  /\ UNCHANGED <<environment, descriptors, process, expired, stream, process_status, result>>

Overdue(c) == expired[c]

(* Not overdue: sleep 10 ms and poll again.                                *)
TestDeadline(c) ==
  /\ pc[c] = "clock"
  /\ Goto(c, IF Overdue(c) THEN "kill" ELSE "poll")
  /\ reason' = [reason EXCEPT ![c] = IF Overdue(c) THEN "timeout" ELSE @]
  /\ UNCHANGED <<environment, descriptors, process, expired, stream, process_status, result>>

EndedAs == IF host = "posix reaping" THEN "gone" ELSE "zombie"

(* SIGKILL, TerminateProcess: git may have ended since it was polled.      *)
Kill(c) ==
  /\ pc[c] = "kill"
  /\ git' = [git EXCEPT ![c] = IF @ = "running" THEN EndedAs ELSE @]
  /\ exitStatus' = [exitStatus EXCEPT ![c] = IF git[c] = "running" THEN "killed" ELSE @]
  /\ Goto(c, "reap")
  /\ UNCHANGED <<environment, descriptors, helper, expired, stream, verdict>>

(* The blocking wait: stores a status only if there is a child to reap.    *)
WaitKilled(c) ==
  /\ pc[c] = "reap"
  /\ git[c] # "running"
  /\ Reap(c)
  /\ Goto(c, "join")
  /\ UNCHANGED <<environment, descriptors, expired, stream, reason, result>>

(* reader.join() returns only when the reader has seen the end of file.    *)
Joinable(c) == reader[c] = "eof"

ResultOf(c) ==
  IF reason[c] # "none" THEN reason[c] ELSE IF process_status[c] = "ok" THEN "ok" ELSE "exit"

Join(c) ==
  /\ pc[c] = "join"
  /\ Joinable(c)
  /\ readEnds' = readEnds \ {c}
  /\ Return(c, ResultOf(c))
  /\ UNCHANGED <<environment, writeEnds, inherited, process, expired, stream>>

Caller(c) ==
  \/ Enter(c) \/ CreatePipe(c) \/ ConfigurePipe(c) \/ Fork(c) \/ StartReader(c)
  \/ Poll(c) \/ WaitFails(c) \/ TestCancelled(c) \/ TestDeadline(c)
  \/ Kill(c) \/ WaitKilled(c) \/ Join(c)

-------------------------------------------------------------------------------
(* The reader thread: read() returns 0 when the pipe is empty and nobody   *)
(* holds its write end, in this process or in one forked from it.          *)
Alive(c) == git[c] = "running" \/ helper[c] = "alive"

WriteEndHeld(c) == c \in writeEnds \/ \E d \in Call : c \in inherited[d] /\ Alive(d)

Drain(c) ==
  /\ reader[c] = "reading" /\ piped[c] > 0
  /\ piped' = [piped EXCEPT ![c] = @ - 1]
  /\ output' = [output EXCEPT ![c] = @ + 1]
  /\ UNCHANGED <<environment, pc, descriptors, process, expired, wrote, reader, verdict>>

EndOfFile(c) ==
  /\ reader[c] = "reading" /\ piped[c] = 0
  /\ ~WriteEndHeld(c)
  /\ reader' = [reader EXCEPT ![c] = "eof"]
  /\ UNCHANGED <<environment, pc, descriptors, process, expired, wrote, piped, output, verdict>>

Read(c) == Drain(c) \/ EndOfFile(c)

-------------------------------------------------------------------------------
(* The rest of the world: the user, the clock, git and what it starts.     *)

Interrupt ==
  /\ ~cancelled
  /\ cancelled' = TRUE
  /\ UNCHANGED <<host, pc, descriptors, process, expired, stream, verdict>>

(* The deadline is taken once the reader runs, and matters until the end.  *)
Expire(c) ==
  /\ pc[c] \in {"poll", "check", "clock"}
  /\ ~expired[c]
  /\ expired' = [expired EXCEPT ![c] = TRUE]
  /\ UNCHANGED <<environment, pc, descriptors, process, stream, verdict>>

Write(c) ==
  /\ Alive(c)
  /\ wrote[c] < Chunks[c] /\ piped[c] < PipeCapacity
  /\ wrote' = [wrote EXCEPT ![c] = @ + 1]
  /\ piped' = [piped EXCEPT ![c] = @ + 1]
  /\ UNCHANGED <<environment, pc, descriptors, process, expired, output, reader, verdict>>

(* Bound: one descendant per git; it shares all of git's descriptors.      *)
StartHelper(c) ==
  /\ c \in Parents
  /\ git[c] = "running" /\ helper[c] = "none"
  /\ helper' = [helper EXCEPT ![c] = "alive"]
  /\ UNCHANGED <<environment, pc, descriptors, git, exitStatus, expired, stream, verdict>>

(* A failed exec counts as a failed git: the child says why and exits 127. *)
(* On Windows that is a CreateProcess that fails.                          *)
GitExit(c) ==
  /\ git[c] = "running"
  /\ git' = [git EXCEPT ![c] = EndedAs]
  /\ \E status \in {"ok", "failed"} : exitStatus' = [exitStatus EXCEPT ![c] = status]
  /\ UNCHANGED <<environment, pc, descriptors, helper, expired, stream, verdict>>

HelperExit(c) ==
  /\ helper[c] = "alive"
  /\ helper' = [helper EXCEPT ![c] = "ended"]
  /\ UNCHANGED <<environment, pc, descriptors, git, exitStatus, expired, stream, verdict>>

Git(c) == Write(c) \/ StartHelper(c) \/ GitExit(c) \/ HelperExit(c)

Next ==
  \/ Interrupt
  \/ \E c \in Call : Caller(c) \/ Read(c) \/ Expire(c) \/ Git(c)

(* Threads run and time passes. Nothing makes git end but the caller.      *)
ThreadFairness ==
  \A c \in Call : WF_vars(Caller(c)) /\ WF_vars(Read(c)) /\ WF_vars(Expire(c))

(* What git leaves behind ends some time (a credential helper, a hook's    *)
(* background job). Without this a call may never return: nobody kills it. *)
HelpersEnd == \A c \in Call : WF_vars(HelperExit(c))

Spec == Init /\ [][Next]_vars /\ ThreadFairness /\ HelpersEnd

-------------------------------------------------------------------------------
TypeOK ==
  /\ host \in Hosts /\ cancelled \in BOOLEAN
  /\ pc \in [Call -> {"called", "pipe", "configure", "fork", "forked", "poll", "check", "clock",
                      "kill", "reap", "join", "returned"}]
  /\ readEnds \in SUBSET Call /\ writeEnds \in SUBSET Call
  /\ inherited \in [Call -> SUBSET Call]
  /\ git \in [Call -> {"none", "running", "zombie", "gone"}]
  /\ helper \in [Call -> {"none", "alive", "ended"}]
  /\ exitStatus \in [Call -> {"none", "ok", "failed", "killed"}]
  /\ process_status \in [Call -> {"ok", "failed", "killed"}]
  /\ expired \in [Call -> BOOLEAN]
  /\ wrote \in [Call -> Nat] /\ output \in [Call -> Nat]
  /\ piped \in [Call -> 0 .. PipeCapacity]
  /\ reader \in [Call -> {"none", "reading", "eof"}]
  /\ reason \in [Call -> {"none", "interrupted", "timeout", "wait"}]
  /\ result \in [Call -> {"none", "ok", "exit", "start", "interrupted", "timeout", "wait"}]

(* However a call ends, it leaves no descriptor open, no process running,  *)
(* no zombie and no thread that would still append to the call's own       *)
(* output (process.cpp:381-392, 414-424, 431-458); and a git that runs is  *)
(* always one that its caller is still polling or about to kill.           *)
NothingLeftBehind ==
  \A c \in Call :
    /\ pc[c] = "returned" =>
         git[c] \in {"none", "gone"} /\ reader[c] # "reading" /\ c \notin readEnds \cup writeEnds
    /\ git[c] = "running" => pc[c] \in {"forked", "poll", "check", "clock", "kill"}

(* Status parsing trusts a success completely: git itself ended with       *)
(* status 0 and the output is everything that was ever written to the      *)
(* pipe, with nobody left to write more (process.cpp:429, 457-462, 491).   *)
OkMeansComplete ==
  \A c \in Call : result[c] = "ok" =>
    exitStatus[c] = "ok" /\ output[c] = wrote[c] /\ ~Alive(c)

(* kill() is never aimed at a pid that has been reaped, and may be another *)
(* process by now (process.cpp:438, 444, 450): the child stays a zombie    *)
(* until waitpid has seen it, unless the kernel reaps it.                  *)
KillHitsOwnChild ==
  host # "posix reaping" => \A c \in Call : pc[c] = "kill" => git[c] # "gone"

(* git.exe gets the arguments ExecGitRunner::run has put together: its own *)
(* path, with no quote in it and no backslash at its end; options, which   *)
(* are plain; and the directory, with any run of blanks, quotes and        *)
(* backslashes, also at its end, where a backslash would swallow the quote *)
(* that closes it and every argument after it.                             *)
ArgumentsSurvive == host = "windows" => ReadsBack

(* Every call returns although git may hang, write more than the pipe      *)
(* holds, or leave a process behind that keeps the pipe open for a while.  *)
Returns == <>(\A c \in Call : pc[c] = "returned")

(* Each call, whatever the others do, is a GitCommand: it answers once,    *)
(* after its git has ended and the pipe has been read out, and says what   *)
(* happened (app.hpp:60-78, process.cpp:203-493).                          *)
CommandState(c) ==
  CASE pc[c] = "returned" -> "returned"
    [] pc[c] # "returned" /\ reader[c] = "eof" -> "collected"
    [] pc[c] # "returned" /\ reader[c] # "eof" /\ exitStatus[c] # "none" -> "ended"
    [] git[c] = "running" -> "running"
    [] pc[c] # "returned" /\ git[c] = "none" -> "called"

Command(c) == INSTANCE GitCommand WITH
  command <- CommandState(c), exit <- exitStatus[c], expired <- expired[c],
  answer <- result[c]

ImplementsCommand ==
  /\ \A c \in Call : Command(c)!CommandInit
  /\ [][\A c \in Call : Command(c)!CommandStep]_vars

===============================================================================
