--------------------------- MODULE MCExecGitRunner ---------------------------
EXTENDS ExecGitRunner

CONSTANTS c1, c2

TwoCalls == {c1, c2}

(* Both calls' pipes are held, each by both gits and by what one of them   *)
(* leaves behind; the pipe of that one also carries data, from either.     *)
OneWrites == [c \in TwoCalls |-> IF c = c1 THEN 1 ELSE 0]
OneCall == {c1}

(* One git leaves a descendant behind, the other fills its pipe.           *)
TheOtherWrites == [c \in TwoCalls |-> IF c = c2 THEN 2 ELSE 0]

(* A path of git.exe with up to two blanks and backslashes in it, and any  *)
(* directory of up to five characters.                                     *)
GitPaths ==
  {text \o <<"letter">> : text \in UNION {[1 .. n -> Character \ {"quote"}] : n \in 0 .. 2}}
ShortNames == UNION {[1 .. n -> Character] : n \in 0 .. 5}

===============================================================================
