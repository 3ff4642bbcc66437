------------------------------ MODULE MCGitClient ------------------------------
EXTENDS GitClient

(* Three remotes, by name: backup, origin, upstream.                       *)
RemoteSets == {{}, {2}, {1, 3}, {1, 2, 3}}

States(remotes, partial, warns) ==
  {[remotes |-> rs, partial |-> rs \cap partial, head |-> head, upstream |-> upstream,
    ahead |-> ahead, changes |-> changes, warns |-> warns] :
     rs \in remotes, head \in {"branch", "detached"}, upstream \in {"none", "set", "gone"},
     ahead \in {0, 2}, changes \in BOOLEAN}

Ordinary == States(RemoteSets, {}, FALSE)

(* A clean partial clone, and git has a warning to print.                  *)
OddOutput == {r \in States({{2}}, {2}, TRUE) : ~r.changes}

===============================================================================
