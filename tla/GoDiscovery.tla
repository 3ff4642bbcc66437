------------------------------ MODULE GoDiscovery ------------------------------
(***************************************************************************)
(* discoverRepositories of the Go CLI, as what its walk yields on a        *)
(* directory tree that nobody changes meanwhile. It is also the reference  *)
(* for the C++ port, which "mirrors the Go CLI's repository discovery"     *)
(* (cpp/README.md:3).                                                      *)
(*                                                                         *)
(* A node is an entry of the tree; nodes are numbered in the order of      *)
(* their paths' text.                                                      *)
(***************************************************************************)
EXTENDS Integers

CONSTANTS
  Node,     \* the scan root and everything under it
  Root,
  Parent    \* a function from the other nodes to the directory they are in

ASSUME TreeAssumption ==
  /\ Node \subseteq Nat /\ Root \in Node
  /\ Parent \in [Node \ {Root} -> Node]
  /\ \A n \in DOMAIN Parent : Parent[n] < n

VARIABLE kind    \* what each node is

Kind == [type : {"directory", "link", "bad link", "file"},
         excluded : BOOLEAN,                          \* named build or node_modules
         marker : {"none", "git", "dead link", "unreadable"}, \* its .git
         listing : {"all", "none", "breaks"}]         \* what reading it yields

Children(n) == {m \in DOMAIN Parent : Parent[m] = n}

(* WalkDir goes by lstat, for the root too: it follows no link. A listing  *)
(* that fails, at once or half-way, is not descended into.                 *)
Entered(n) == kind[n].type = "directory" /\ ~kind[n].excluded

Descended(n) == Entered(n) /\ kind[n].marker # "git" /\ kind[n].listing = "all"

(* What WalkDir comes to from a node: the node, and the entries of every   *)
(* directory it comes to and descends into.                                *)
GoWalk(n) ==
  {m \in Node : \A S \in SUBSET Node :
     n \in S /\ (\A k \in DOMAIN Parent : Parent[k] \in S /\ Descended(Parent[k]) => k \in S)
       => m \in S}

(* The root itself is opened with links followed.                          *)
GoFails == kind[Root].type \in {"file", "bad link"}

GoRepositories == {n \in GoWalk(Root) : Entered(n) /\ kind[n].marker = "git"}

GoWarnings ==
  {<<"inspect", n>> : n \in {m \in GoWalk(Root) : Entered(m) /\ kind[m].marker = "unreadable"}}
  \cup
  {<<"walk", n>> : n \in {m \in GoWalk(Root) :
                            /\ Entered(m) /\ kind[m].marker # "git"
                            /\ kind[m].listing # "all"}}

===============================================================================
