------------------------------ MODULE GitCommand ------------------------------
(***************************************************************************)
(* What GitRunner::run promises GitClient, however it runs git: at most    *)
(* one git is started, it has ended and its output is collected before     *)
(* there is an answer, and the answer says what became of it.              *)
(*                                                                         *)
(* Every call of ExecGitRunner, on POSIX and on Windows, is shown to       *)
(* implement it, and GitClient is built on it.                             *)
(***************************************************************************)

VARIABLES
  cancelled,  \* the SIGINT flag
  command,    \* how far the call has come
  exit,       \* how git ended
  expired,    \* the time the call was given has passed
  answer      \* the CommandResult: its output, or which error

commandVars == <<cancelled, command, exit, expired, answer>>

CommandInit ==
  /\ cancelled \in BOOLEAN
  /\ command = "called" /\ exit = "none" /\ expired = FALSE /\ answer = "none"

Interrupt ==
  /\ ~cancelled
  /\ cancelled' = TRUE
  /\ UNCHANGED <<command, exit, expired, answer>>

(* No git is started: Ctrl-C came first, or the system cannot start one.   *)
Refuse ==
  /\ command = "called"
  /\ command' = "returned"
  /\ answer' \in {"start"} \cup IF cancelled THEN {"interrupted"} ELSE {}
  /\ UNCHANGED <<cancelled, exit, expired>>

Launch ==
  /\ command = "called"
  /\ command' = "running"
  /\ UNCHANGED <<cancelled, exit, expired, answer>>

(* Time passes whatever git is doing.                                      *)
Expire ==
  /\ command \in {"running", "ended", "collected"} /\ ~expired
  /\ expired' = TRUE
  /\ UNCHANGED <<cancelled, command, exit, answer>>

(* git ends by itself, or the runner kills it.                             *)
End ==
  /\ command = "running"
  /\ command' = "ended"
  /\ exit' \in {"ok", "failed", "killed"}
  /\ UNCHANGED <<cancelled, expired, answer>>

(* Nobody is left who could write to the pipe, and it has been read out.   *)
Collect ==
  /\ command = "ended"
  /\ command' = "collected"
  /\ UNCHANGED <<cancelled, exit, expired, answer>>

(* A git that was killed is no failed git, and a success is git's own.     *)
Honest(a) ==
  \/ a = "ok" /\ exit = "ok"
  \/ a = "exit" /\ exit = "failed"
  \/ a = "interrupted" /\ cancelled
  \/ a = "timeout" /\ expired
  \/ a = "wait"    \* the system cannot say how git ended

Answer ==
  /\ command = "collected"
  /\ command' = "returned"
  /\ answer' \in {a \in {"ok", "exit", "interrupted", "timeout", "wait"} : Honest(a)}
  /\ UNCHANGED <<cancelled, exit, expired>>

CommandNext == Interrupt \/ Refuse \/ Launch \/ Expire \/ End \/ Collect \/ Answer

(* A step of the call, or of something else.                               *)
CommandStep == UNCHANGED commandVars \/ CommandNext

CommandSpec == CommandInit /\ [][CommandNext]_commandVars

===============================================================================
